------------------------------- MODULE Language --------------------------------
(***************************************************************************)
(* A configuration file under the hands of its author: it is typed, it is  *)
(* formatted by "scampi fmt" (cmd/scampi/fmt.go) and it is analyzed, that  *)
(* is parsed, checked and evaluated, each only if there was no error       *)
(* before (internal/linker/load.go).                                       *)
(*                                                                         *)
(* A context says what is written already, before and after the cursor,    *)
(* which phrases can be typed in between, and how many.                    *)
(*                                                                         *)
(* The phases are parameters.  Read, Analyze and Formatted, which is in    *)
(* Formatting, are what the code has for them.                             *)
(***************************************************************************)
EXTENDS Evaluating, Formatting

CONSTANTS Contexts,
          Reader(_),        \* the parser at the end of a text
          Analyzer(_),      \* what the later phases make of a parsed file
          Formatter(_, _)   \* the text a parsed one is formatted to

VARIABLES ctx,      \* the context
          typed,    \* the number of phrases typed so far
          text,     \* the file
          parsed,   \* the parser at the end of it
          analysis, \* what the last analysis found
          tidy      \* the file was formatted

vars == <<ctx, typed, text, parsed, analysis, tidy>>

NotYet == [phase |-> "none", c |-> Checker, e |-> Evaluator]

\* Parse, check, evaluate; the first that finds an error is the last.
Analyze(p) ==
    LET c == Check(p.n)
        e == EvalFile(c, p.n)
    IN CASE p.died -> [NotYet EXCEPT !.phase = "died"]
         [] ~ p.died /\ p.err -> [NotYet EXCEPT !.phase = "parse"]
         [] OTHER ->
              IF c.errs # {} THEN [NotYet EXCEPT !.phase = "check", !.c = c]
              ELSE [phase |-> CASE e.died # "" -> "died"
                                [] e.died = "" /\ e.errs # {} -> "eval"
                                [] OTHER -> "loaded", c |-> c, e |-> e]

Read(t) == LET p == With(Lex(t), Parse) IN [n |-> p.n, err |-> p.err, died |-> p.died]

-----------------------------------------------------------------------------
Init ==
    /\ ctx \in Contexts
    /\ typed = 0
    /\ text = ctx.pre \o ctx.post
    /\ parsed = Reader(text)
    /\ analysis = NotYet
    /\ tidy = FALSE

\* The author types one more phrase at the cursor.
Type ==
    /\ ~ tidy /\ typed < ctx.max
    /\ \E phrase \in ctx.phrases :
           text' = SubSeq(text, 1, Len(text) - Len(ctx.post)) \o phrase \o ctx.post
    /\ parsed' = Reader(text')
    /\ typed' = typed + 1
    /\ analysis' = NotYet
    /\ UNCHANGED <<ctx, tidy>>

\* scampi fmt writes a file only if that changes it.
Fmt ==
    /\ ~ parsed.died /\ ~ tidy
    /\ text' = Formatter(text, parsed) /\ text' # text
    /\ parsed' = Reader(text')
    /\ tidy' = TRUE
    /\ analysis' = NotYet
    /\ UNCHANGED <<ctx, typed>>

Load ==
    /\ analysis = NotYet
    /\ analysis' = Analyzer(parsed)
    /\ UNCHANGED <<ctx, typed, text, parsed, tidy>>

Next == Type \/ Fmt \/ Load

Spec == Init /\ [][Next]_vars

-----------------------------------------------------------------------------
(***************************************************************************)
(* Trees.                                                                  *)
(***************************************************************************)
Single(n) == DOMAIN n \cap ({"x", "y", "l", "r", "c", "iter", "key"} \cup
                            IF "k" \in DOMAIN n /\ n.k = "ifx" THEN {"a", "b"} ELSE {})
Several(n) == DOMAIN n \cap ({"body", "items", "args", "es", "fields"} \cup
                             (IF "k" \in DOMAIN n /\ n.k = "if" THEN {"a", "b"} ELSE {}) \cup
                             (IF "k" \in DOMAIN n /\ n.k = "enum" THEN {} ELSE {"xs"}))

RECURSIVE Nodes(_), Rewritten(_, _)

\* The node and all below it.
Nodes(n) ==
    {n} \cup UNION {Nodes(n[f]) : f \in Single(n)}
        \cup UNION {UNION {Nodes(n[f][i]) : i \in DOMAIN n[f]} : f \in Several(n)}

IsKind(n, k) == "k" \in DOMAIN n /\ n.k = k

\* x.f(y) as f(x, y) if the calls in ufcs are of that form.
Plainly(call, ufcs) ==
    IF call.at \notin DOMAIN ufcs THEN [call EXCEPT !.at = 0, !.wide = FALSE]
    ELSE [k |-> "call", at |-> 0, wide |-> FALSE,
          x |-> IF ufcs[call.at] = "" THEN [k |-> "id", s |-> call.x.s]
                ELSE [k |-> "sel", x |-> [k |-> "id", s |-> ufcs[call.at]], s |-> call.x.s],
          args |-> <<[s |-> "", x |-> call.x.x]>> \o call.args]

\* The tree without what is about its layout, and without such calls.
Rewritten(n, ufcs) ==
    LET m == [f \in DOMAIN n |->
                CASE f \in Single(n)  -> Rewritten(n[f], ufcs)
                  [] f \in Several(n) -> [i \in DOMAIN n[f] |-> Rewritten(n[f][i], ufcs)]
                  [] OTHER            -> n[f]]
    IN CASE IsKind(n, "call") -> Plainly(m, ufcs)
         [] ~ IsKind(n, "call") /\ "wide" \in DOMAIN n -> [m EXCEPT !.wide = FALSE]
         [] OTHER -> m

-----------------------------------------------------------------------------
(***************************************************************************)
(* Properties.                                                             *)
(***************************************************************************)
Accepted == analysis.phase \in {"eval", "loaded"}

\* What is in the file, what the parser made of it and what the analysis says
\* belong together: an error found early keeps the later phases from running.
TypeOK ==
    /\ ctx \in Contexts /\ typed \in 0 .. ctx.max /\ tidy \in BOOLEAN
    /\ analysis.phase \in {"none", "died", "parse", "check", "eval", "loaded"}
    /\ parsed.err => analysis.phase \in {"none", "died", "parse"}
    /\ analysis.phase = "check" => analysis.c.errs # {} /\ analysis.e = Evaluator
    /\ Accepted => /\ analysis.c.errs = {} /\ Len(analysis.c.scopes) = 1
                   /\ analysis.e.errs = {} <=> analysis.phase = "loaded"

\* An operator has on its left what binds at least as strongly and on its
\* right what binds more strongly, unless it is in parentheses: the order the
\* author sees is the order the evaluator goes by (parse/expr.go).
Grouping ==
    \A n \in Nodes(parsed.n) :
        IsKind(n, "bin") => /\ n.l.k = "bin" => Prec(n.l.op) >= Prec(n.op)
                            /\ n.r.k = "bin" => Prec(n.r.op) > Prec(n.op)

\* Formatting changes nothing but the layout: what is parsed from the result is
\* the program there was (format.go).
KeepsProgram == Rewritten(parsed.n, NoSyms) = Rewritten(parsed'.n, NoSyms)

Layout == {"nl", ",", "{", "}", "(", ")"}
Words(t) == LET w == SelectSeq(t, LAMBDA p : p \notin Layout)
            IN [p \in ToSet(w) |-> Len(SelectSeq(w, LAMBDA q : q = p))]

\* The parser does not step over a word without an error, and the formatter
\* prints every one it kept: nothing the author wrote disappears from the file.
LosesNothing == Words(text) = Words(text')

\* What was formatted once stays as it is.
Settles == Formatter(text', parsed') = text'

\* A let that says its type.
Annotated(t) == \E i \in 1 .. Len(t) - 2 : t[i] = "let" /\ t[i + 2] = ":"

\* scampi fmt is safe to run on a file: the program stays, no word is lost, and
\* running it again does nothing (cmd/scampi/fmt.go).  The code keeps this for
\* files whose lets do not say their type, and in which no lone parameter goes
\* over several lines.
FmtIsFaithful ==
    [][ tidy' # tidy /\ ~Annotated(text) => KeepsProgram /\ LosesNothing /\ Settles ]_vars

\* What the repository says of all files: the style is all that is changed
\* (format.go:3-5), and what was formatted stays as it is (format_test.go:50).
FmtIsSafe == [][ tidy' # tidy => KeepsProgram /\ LosesNothing /\ Settles ]_vars

\* A value of a type, as the checker and the evaluator see them.  What is none
\* can be of any type: a list has no element at some index, say.  A list literal
\* is of the type of its first element whatever the others are (expr.go,
\* checkListLit), so that one speaks for the list.
RECURSIVE Inhabits(_, _, _)
Inhabits(e, v, t) ==
    CASE v.k = "none" \/ t.k \in {"untyped", "any"} -> TRUE
      [] t.k = "optional" -> Inhabits(e, v, t.x)
      [] t.k = "list"     -> /\ v.k = "list"
                             /\ \A i \in DOMAIN Content(e, v) \cap {1} : Inhabits(e, Content(e, v)[i], t.x)
      [] t.k = "map"      -> \/ v.k = "struct" /\ Content(e, v).s = ""
                             \/ /\ v.k = "map"
                                /\ \A i \in DOMAIN Content(e, v) : Inhabits(e, Content(e, v)[i].x, t.x)
      [] t.k \in {"struct", "opaque"} ->
                             \/ v.k = "struct" /\ t.s \in {Content(e, v).s, Content(e, v).ret}
                             \/ v.k = "block result"
      [] t.k = "enum"     -> v.k = "string" /\ v.s[1] \in {t.xs[i] : i \in DOMAIN t.xs}
      [] OTHER            -> v.k = t.k

\* A name that the checker gave a type holds a value of it when the evaluator is
\* done: the linker takes the values for what the types say (check/types.go).
TypesKept ==
    analysis.phase = "loaded" =>
        LET syms == analysis.c.scopes[1].syms
            held == analysis.e.envs[1].vars
        IN \A n \in DOMAIN syms :
               syms[n].kind = "let" /\ n \in DOMAIN held =>
                   Inhabits(analysis.e, held[n], syms[n].t)

\* In what the checker accepted the evaluator finds no name undefined, nothing
\* that cannot be called, accessed or filled: an author hears of it at once,
\* not when the file is used (check/checker.go).
NoStrayErrors ==
    Accepted => /\ analysis.e.errs \subseteq {"zero", "not bool"}
                /\ analysis.e.died = ""

\* No func of an accepted file comes to its end without a return (checker.go,
\* definitelyReturns): its callers would go on with none.
ReturnsItsType == Accepted => ~ analysis.e.fell

RECURSIVE ShownValue(_, _)
ShownValue(e, v) ==
    CASE v.k = "list"   -> [k |-> "list", xs |-> [i \in DOMAIN Content(e, v) |-> ShownValue(e, Content(e, v)[i])]]
      [] v.k = "map"    -> [k |-> "map", xs |-> [i \in DOMAIN Content(e, v) |->
                                                    <<Content(e, v)[i].key, ShownValue(e, Content(e, v)[i].x)>>]]
      [] v.k = "struct" -> [k |-> "struct", s |-> Content(e, v).s,
                            xs |-> [f \in DOMAIN Content(e, v).fields |->
                                       ShownValue(e, Content(e, v).fields[f])]]
      [] v.k = "block result" -> [k |-> v.k, s |-> v.s,
                                  xs |-> [i \in DOMAIN v.body |-> ShownValue(e, v.body[i])]]
      [] v.k \in {"func", "block"} -> [k |-> v.k, s |-> v.s]
      [] OTHER          -> v

Result(a) == [phase |-> a.phase, errs |-> a.e.errs,
              out  |-> [i \in DOMAIN a.e.exprs |-> ShownValue(a.e, a.e.exprs[i])],
              vars |-> [n \in DOMAIN a.e.envs[1].vars |->
                           LET v == a.e.envs[1].vars[n]
                           IN IF v.k = "map" THEN [k |-> "map"] ELSE ShownValue(a.e, v)]]

\* x.f(y) is another way to write f(x, y) (expr.go, detectUFCS; eval.go, evalCall).
UfcsIsSugar ==
    Accepted /\ DOMAIN analysis.c.ufcs # {} =>
        With([parsed EXCEPT !.n = Rewritten(@, analysis.c.ufcs)],
             LAMBDA p : Result(Analyzer(p))) = Result(analysis)

\* Every value that is emitted goes to one place: to the block it is emitted in
\* or, outside all of them, to the top; what is emitted after a block was
\* filled does not go into that block any more (eval.go, fillBlock).
FillsKeepApart ==
    Accepted =>
        LET e == analysis.e
        IN /\ ~ e.coll.on /\ e.env = 1 /\ e.depth = 0
           /\ e.emits = Len(e.exprs) + e.gathered

\* What the checker lets pass the evaluator can rely on: names are defined,
\* funcs return, values are of their types and go where they are emitted, and
\* both take x.f(y) for the same call (check/checker.go, eval/eval.go).
AcceptedIsSound ==
    NoStrayErrors /\ ReturnsItsType /\ TypesKept /\ FillsKeepApart /\ UfcsIsSugar
=============================================================================
