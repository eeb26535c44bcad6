------------------------------- MODULE Parsing --------------------------------
(***************************************************************************)
(* The parser of the configuration language (internal/lang/parse):         *)
(* recursive descent over the tokens, with precedence climbing for the     *)
(* binary operators and with error recovery.                               *)
(*                                                                         *)
(* A parser is a record: the tokens, the position of the current one,      *)
(* inCond, what has gone wrong, and in n the node just parsed or, of a     *)
(* loop, the nodes so far.  A function of the parser maps the parser       *)
(* before it to the parser after it.  A node carries its kind and its      *)
(* parts; its span is left out but for "wide", it covers more than one     *)
(* line of the source, which the formatter goes by, and for "at", the      *)
(* token a call is told apart by.                                          *)
(***************************************************************************)
EXTENDS Lexing

Nil == [k |-> "nil"]
IsNil(n) == n.k = "nil"

Parser(ts) == [ts |-> ts, i |-> 1, cond |-> FALSE, err |-> FALSE, died |-> FALSE, n |-> Nil]

Ahead(p, d) == IF p.i + d <= Len(p.ts) THEN p.ts[p.i + d].t ELSE "eof"
Cur(p) == Ahead(p, 0)
Peek(p) == Ahead(p, 1)

\* At the end there is nothing to step over.
Advance(p) == [p EXCEPT !.i = IF @ > Len(p.ts) THEN @ ELSE @ + 1]
Error(p) == [p EXCEPT !.err = TRUE]
Expect(p, t) == IF Cur(p) = t THEN Advance(p) ELSE Error(p)
Yield(p, n) == [p EXCEPT !.n = n]
Skip(p, t) == IF Cur(p) = t THEN Advance(p) ELSE p

\* The tokens from position i to before the current one stand on several lines.
Wide(p, i) == p.i > i /\ i <= Len(p.ts) /\ p.ts[i].ln # p.ts[p.i - 1].ln

\* The fields from token i to the one before a separator or the closing token.
WideFields(p, i) ==
    LET last == Max({j \in i .. p.i - 1 : p.ts[j].t \notin {",", "semi"}})
    IN p.ts[i].ln # p.ts[last].ln

\* To the next place where a statement may begin.
RECURSIVE Synchronize(_)
Synchronize(p) ==
    CASE Cur(p) \in {"eof", "}"} -> p
      [] Cur(p) = "semi"         -> Advance(p)
      [] OTHER                   -> Synchronize(Advance(p))

GiveUp(p) == Yield(Synchronize(p), Nil)

RECURSIVE ParseExpr(_), ParseBinary(_, _), Climb(_, _), ParseUnary(_), Postfix(_, _),
          ParseCallArgs(_, _), ParseBlockContent(_, _, _), ParseInterp(_, _),
          ListItems(_, _), MapEntries(_, _), ParseTypeExpr(_), TypeArgs(_, _),
          ParseBlock(_, _), ParseStmt(_), ParseIfStmt(_), DottedRest(_, _)

-----------------------------------------------------------------------------
(***************************************************************************)
(* Names and types.                                                        *)
(***************************************************************************)
ParseIdent(p) ==
    IF IsName(Cur(p)) THEN Yield(Advance(p), [k |-> "id", s |-> Cur(p)])
    ELSE Yield(Error(p), Nil)

\* In n the parts of the name.
DottedRest(p, parts) ==
    IF Cur(p) # "." THEN Yield(p, parts)
    ELSE LET q == ParseIdent(Advance(p))
         IN IF IsNil(q.n) THEN Yield(q, parts) ELSE DottedRest(q, Append(parts, q.n.s))

ParseDottedName(p) ==
    LET q == ParseIdent(p) IN IF IsNil(q.n) THEN Yield(q, <<>>) ELSE DottedRest(q, <<q.n.s>>)

TypeArgs(p, args) ==
    CASE Cur(p) \in {"]", "eof"} -> Yield(p, args)
      [] Cur(p) = ","            -> TypeArgs(Advance(p), args)
      [] OTHER -> LET q == ParseTypeExpr(p)
                  IN IF IsNil(q.n) THEN Yield(q, args) ELSE TypeArgs(q, Append(args, q.n))

ParseTypeExpr(p) ==
    LET name == ParseDottedName(p)
        args == TypeArgs(Advance(IF Len(name.n) = 1 THEN name ELSE Error(name)), <<>>)
        base == IF Cur(name) = "["
                THEN Yield(Expect(args, "]"), [k |-> "generic", s |-> Head(name.n), xs |-> args.n])
                ELSE Yield(name, [k |-> "named", s |-> name.n])
    IN CASE name.n = <<>> -> Yield(name, Nil)
         [] name.n # <<>> /\ Cur(base) = "?" -> Yield(Advance(base), [k |-> "optional", x |-> base.n])
         [] OTHER -> base

-----------------------------------------------------------------------------
(***************************************************************************)
(* Expressions.                                                            *)
(***************************************************************************)
Prec(t) ==
    CASE t = "||"                                  -> 1
      [] t = "&&"                                  -> 2
      [] t \in {"==", "!=", "<", ">", "<=", ">="}  -> 3
      [] t = "in"                                  -> 4
      [] t \in {"+", "-"}                          -> 5
      [] t \in {"*", "/", "%"}                     -> 6
      [] OTHER                                     -> 0

ParseExpr(p) == ParseBinary(p, 1)

ParseBinary(p, least) ==
    LET l == ParseUnary(p) IN IF IsNil(l.n) THEN l ELSE Climb(l, least)

BugRightAssociative(p, least) ==
    LET op == Cur(p)
        r  == ParseBinary(Advance(p), Prec(op))
    IN IF Prec(op) < least THEN p
       ELSE IF IsNil(r.n) THEN Yield(r, p.n)
       ELSE Climb(Yield(r, [k |-> "bin", op |-> op, l |-> p.n, r |-> r.n]), least)

\* The operators that bind at least as strongly, to the left.
Climb(p, least) ==
    LET op == Cur(p)
        r  == ParseBinary(Advance(p), Prec(op) + 1)
    IN IF Prec(op) < least THEN p
       ELSE IF IsNil(r.n) THEN Yield(r, p.n)
       ELSE Climb(Yield(r, [k |-> "bin", op |-> op, l |-> p.n, r |-> r.n]), least)

ParseCallArgs(p, args) ==
    CASE Cur(p) \in {")", "eof"} -> Yield(p, args)
      [] Cur(p) \in {",", "semi"} -> ParseCallArgs(Advance(p), args)
      [] IsName(Cur(p)) /\ Peek(p) = "=" ->
             LET v == ParseExpr(Advance(Advance(p)))
             IN ParseCallArgs(v, IF IsNil(v.n) THEN args
                                 ELSE Append(args, [s |-> Cur(p), x |-> v.n]))
      [] OTHER -> LET v == ParseExpr(p)
                  IN IF IsNil(v.n) THEN Yield(v, args)
                     ELSE ParseCallArgs(v, Append(args, [s |-> "", x |-> v.n]))

\* In n the parts of a chain of selectors, or <<>> if it is not one of names.
RECURSIVE FlattenSelector(_)
FlattenSelector(x) ==
    CASE x.k = "id"  -> <<x.s>>
      [] x.k = "sel" -> LET inner == FlattenSelector(x.x)
                        IN IF inner = <<>> THEN <<>> ELSE Append(inner, x.s)
      [] OTHER       -> <<>>

\* The { ... } of a literal that began at token i.
StructLit(p, i, type) ==
    LET c == ParseBlockContent(p, <<>>, <<>>)
        q == Expect(c, "}")
    IN Yield(q, [k |-> "struct", t |-> type, fields |-> c.n.fields, body |-> c.n.body,
                 wide |-> Wide(q, i)])

\* What follows the operand p.n, which began at token i: selectors, indices,
\* arguments and, outside a condition, blocks and literals.
Postfix(p, i) ==
    CASE Cur(p) = "." ->
             LET q == ParseIdent(Advance(p))
             IN IF IsNil(q.n) THEN Yield(q, p.n)
                ELSE Postfix(Yield(q, [k |-> "sel", x |-> p.n, s |-> q.n.s]), i)
      [] Cur(p) = "[" ->
             LET q == ParseExpr(Advance(p))
             IN Postfix(Yield(Expect(q, "]"), [k |-> "index", x |-> p.n, y |-> q.n]), i)
      [] Cur(p) = "(" ->
             LET a == ParseCallArgs(Advance(p), <<>>)
                 q == Expect(a, ")")
             IN Postfix(Yield(q, [k |-> "call", x |-> p.n, args |-> a.n, at |-> p.i,
                                 wide |-> Wide(q, i)]), i)
      [] Cur(p) = "{" /\ ~ p.cond /\ p.n.k = "call" ->
             LET q == ParseBlock(Advance(p), <<>>)
             IN Postfix(Yield(Expect(q, "}"), [k |-> "fill", x |-> p.n, body |-> q.n]), i)
      [] Cur(p) = "{" /\ ~ p.cond /\ p.n.k \in {"id", "sel"} ->
             LET name == FlattenSelector(p.n)
             IN Postfix(StructLit(Advance(p), i, name), i)
      [] OTHER -> p

\* The parts of a string after its "sbeg"; a "${" is always next.
ParseInterp(p, parts) ==
    LET x == ParseExpr(Advance(p))
        q == Expect(x, "}$")
        more == IF IsNil(x.n) THEN parts ELSE Append(parts, x.n)
    IN CASE Cur(x) # "}$"    -> Yield(q, parts)
         [] Cur(q) = "scont" -> ParseInterp(Advance(q), more)
         [] Cur(q) = "send"  -> Yield(Advance(q), more)
         [] OTHER            -> Yield(Error(q), more)

ListItems(p, xs) ==
    CASE Cur(p) \in {"]", "eof"}  -> Yield(p, xs)
      [] Cur(p) \in {",", "semi"} -> ListItems(Advance(p), xs)
      [] OTHER -> LET x == ParseExpr(p)
                  IN IF IsNil(x.n) THEN Yield(x, xs) ELSE ListItems(x, Append(xs, x.n))

BugConditionForgotten(p, first) ==
    LET v    == ParseIdent(Advance(p))
        iter == ParseExpr(Expect(v, "in"))
        cond == IF Cur(iter) = "if" THEN ParseExpr(Advance(iter)) ELSE Yield(iter, Nil)
    IN Yield(Expect(cond, "]"),
             [k |-> "comp", x |-> first, v |-> v.n, iter |-> iter.n, c |-> Nil])

\* [ x for v in iter if c ], from the "for" on.
Comprehension(p, first) ==
    LET v    == ParseIdent(Advance(p))
        iter == ParseExpr(Expect(v, "in"))
        cond == IF Cur(iter) = "if" THEN ParseExpr(Advance(iter)) ELSE Yield(iter, Nil)
    IN Yield(Expect(cond, "]"),
             [k |-> "comp", x |-> first, v |-> v.n, iter |-> iter.n, c |-> cond.n])

ParseListOrComp(p) ==
    LET first == ParseExpr(Advance(p))
        items == ListItems(first, <<first.n>>)
        q     == Expect(items, "]")
    IN CASE Peek(p) = "]"      -> Yield(Advance(Advance(p)), [k |-> "list", xs |-> <<>>, wide |-> FALSE])
         [] Cur(first) = "for" -> Comprehension(first, first.n)
         [] OTHER -> Yield(q, [k |-> "list", xs |-> items.n, wide |-> Wide(q, p.i)])

MapEntries(p, es) ==
    CASE Cur(p) \in {"}", "eof"}  -> Yield(p, es)
      [] Cur(p) \in {",", "semi"} -> MapEntries(Advance(p), es)
      [] OTHER -> LET key == ParseExpr(p)
                      v   == ParseExpr(Expect(key, ":"))
                  IN IF IsNil(key.n) THEN Yield(key, es)
                     ELSE IF IsNil(v.n) THEN Yield(v, es)
                     ELSE MapEntries(v, Append(es, [key |-> key.n, x |-> v.n]))

RECURSIVE SkipSemis(_)
SkipSemis(p) == IF Cur(p) = "semi" THEN SkipSemis(Advance(p)) ELSE p

ParseBraceExpr(p) ==
    LET q  == SkipSemis(Advance(p))
        es == MapEntries(q, <<>>)
        e  == Expect(es, "}")
    IN CASE Peek(p) = "}" -> Yield(Advance(Advance(p)), [k |-> "map", es |-> <<>>, wide |-> FALSE])
         [] Peek(p) # "}" /\ IsName(Cur(q)) /\ Peek(q) = "=" -> StructLit(q, p.i, <<>>)
         [] OTHER -> Yield(e, [k |-> "map", es |-> es.n, wide |-> Wide(e, p.i)])

\* if c { a } else { b }, where the braces hold one expression each.
ParseIfExpr(p) ==
    LET c    == ParseExpr([Advance(p) EXCEPT !.cond = TRUE])
        then == ParseExpr(Expect([c EXCEPT !.cond = p.cond], "{"))
        else == ParseExpr(Expect(Expect(Expect(then, "}"), "else"), "{"))
    IN Yield(Expect(else, "}"), [k |-> "ifx", c |-> c.n, a |-> then.n, b |-> else.n])

ParsePrimary(p) ==
    LET t == Cur(p)
        paren == ParseExpr(Advance(p))
        parts == ParseInterp(Advance(p), <<>>)
    IN CASE t \in Numbers                              -> Yield(Advance(p), [k |-> "int", s |-> t])
         [] t \in Literals                             -> Yield(Advance(p), [k |-> "str", s |-> t])
         [] t = "sbeg"                                 -> Yield(parts, [k |-> "interp", xs |-> parts.n])
         [] t \in {"true", "false", "none", "self"}    -> Yield(Advance(p), [k |-> t])
         [] IsName(t)                                  -> ParseIdent(p)
         [] t = "("  -> Yield(Expect(paren, ")"), [k |-> "paren", x |-> paren.n])
         [] t = "["  -> ParseListOrComp(p)
         [] t = "{"  -> ParseBraceExpr(p)
         [] t = "if" -> ParseIfExpr(p)
         [] OTHER    -> Yield(Advance(Error(p)), Nil)

ParseUnary(p) ==
    LET x == ParseUnary(Advance(p))
        q == ParsePrimary(p)
    IN IF Cur(p) \in {"!", "-"}
       THEN IF IsNil(x.n) THEN x ELSE Yield(x, [k |-> "un", op |-> Cur(p), x |-> x.n])
       ELSE IF IsNil(q.n) THEN q ELSE Postfix(q, p.i)

\* Fields and statements, in any order, up to the closing brace.
ParseBlockContent(p, fields, body) ==
    LET IsField == IsName(Cur(p)) /\ Peek(p) = "="
        v == ParseExpr(Advance(Advance(p)))
        s == ParseStmt(p)
    IN CASE Cur(p) \in {"}", "eof"}  -> Yield(p, [fields |-> fields, body |-> body])
         [] Cur(p) \in {",", "semi"} -> ParseBlockContent(Advance(p), fields, body)
         [] IsField /\ ~ IsNil(v.n)  ->
                ParseBlockContent(v, Append(fields, [s |-> Cur(p), x |-> v.n]), body)
         [] IsField /\ IsNil(v.n)    -> ParseBlockContent(v, fields, body)
         [] OTHER -> ParseBlockContent(s, fields, IF IsNil(s.n) THEN body ELSE Append(body, s.n))
-----------------------------------------------------------------------------
(***************************************************************************)
(* Statements.                                                             *)
(***************************************************************************)

\* A pointer that is nil in an interface that is not: it passes for a node.
TypedNil == [k |-> "typed nil"]

\* The statements up to the closing brace.
ParseBlock(p, xs) ==
    LET s == ParseStmt(p)
    IN CASE Cur(p) \in {"}", "eof"} -> Yield(p, xs)
         [] Cur(p) = "semi"         -> ParseBlock(Advance(p), xs)
         [] OTHER -> IF IsNil(s.n) THEN ParseBlock(Synchronize(s), xs)
                     ELSE ParseBlock(s, Append(xs, s.n))

ParseBraces(p) == LET q == ParseBlock(Expect(p, "{"), <<>>) IN Expect(q, "}")

ParseLetDecl(p) ==
    LET name == ParseIdent(Advance(p))
        type == IF Cur(name) = ":" THEN ParseTypeExpr(Advance(name)) ELSE Yield(name, Nil)
        v    == ParseExpr(Expect(type, "="))
    IN CASE IsNil(name.n) -> GiveUp(name)
         [] ~ IsNil(name.n) /\ IsNil(v.n) -> GiveUp(v)
         [] OTHER -> Yield(Skip(v, "semi"), [k |-> "let", s |-> name.n.s, t |-> type.n,
                                             x |-> v.n, pub |-> FALSE])

\* The expression before the braces of a statement: { opens the braces.
ParseCond(p) == LET x == ParseExpr([p EXCEPT !.cond = TRUE]) IN [x EXCEPT !.cond = p.cond]

ParseForStmt(p) ==
    LET v    == ParseIdent(Advance(p))
        iter == ParseCond(Expect(v, "in"))
        body == ParseBraces(iter)
    IN CASE IsNil(v.n) -> Yield(v, TypedNil)
         [] ~ IsNil(v.n) /\ IsNil(iter.n) -> Yield(iter, TypedNil)
         [] OTHER -> Yield(Skip(body, "semi"),
                           [k |-> "for", s |-> v.n.s, iter |-> iter.n, body |-> body.n])

\* A nil pointer is asked for its span and the parser is gone.
Die(p) == [p EXCEPT !.died = TRUE, !.i = Len(p.ts) + 1]

\* An "else if" becomes an else block of one statement.
ParseIfStmt(p) ==
    LET c     == ParseCond(Advance(p))
        then  == ParseBraces(c)
        inner == ParseIfStmt(Advance(then))
        else  == CASE Cur(then) # "else" -> Yield(then, Nil)
                   [] Cur(then) = "else" /\ Peek(then) # "if" -> ParseBraces(Advance(then))
                   [] OTHER -> IF inner.n = TypedNil THEN Die(inner) ELSE Yield(inner, <<inner.n>>)
    IN IF IsNil(c.n) THEN Yield(c, TypedNil)
       ELSE Yield(Skip(else, "semi"),
                  [k |-> "if", c |-> c.n, a |-> then.n, else |-> Cur(then) = "else",
                   b |-> IF Cur(then) = "else" THEN else.n ELSE <<>>])

ParseReturnStmt(p) ==
    LET q == Advance(p)
        v == IF Cur(q) \in {"semi", "}", "eof"} THEN Yield(q, Nil) ELSE ParseExpr(q)
    IN Yield(Skip(v, "semi"), [k |-> "return", x |-> v.n])

ParseAssignment(p) ==
    LET v == ParseExpr(Advance(p))
        q == IF p.n.k \in {"index", "sel"} THEN v ELSE Error(v)
    IN IF IsNil(v.n) THEN v
       ELSE Yield(Skip(q, "semi"), [k |-> "assign", x |-> p.n, y |-> v.n])

ParseStmt(p) ==
    LET e == ParseExpr(p)
    IN CASE Cur(p) = "let"    -> ParseLetDecl(p)
         [] Cur(p) = "for"    -> ParseForStmt(p)
         [] Cur(p) = "if"     -> ParseIfStmt(p)
         [] Cur(p) = "return" -> ParseReturnStmt(p)
         [] OTHER -> IF IsNil(e.n) THEN e
                     ELSE IF Cur(e) = "=" THEN ParseAssignment(e)
                     ELSE Yield(Skip(e, "semi"), [k |-> "expr", x |-> e.n])

-----------------------------------------------------------------------------
(***************************************************************************)
(* Declarations.                                                           *)
(***************************************************************************)
Separators == {",", "semi"}

RECURSIVE AttrArgs(_, _, _), ParseAttributes(_, _), SkipSeparators(_)
SkipSeparators(p) == IF Cur(p) \in Separators THEN SkipSeparators(Advance(p)) ELSE p

\* Positional and named arguments; a name that is not followed by a separator
\* or a value that is missing ends them.
AttrArgs(p, xs, named) ==
    LET q    == SkipSemis(p)
        kw   == IsName(Cur(q)) /\ Peek(q) = "="
        v    == ParseExpr(IF kw THEN Advance(Advance(q)) ELSE q)
        xs2  == IF kw \/ IsNil(v.n) THEN xs ELSE Append(xs, v.n)
        nmd2 == IF kw /\ ~ IsNil(v.n) THEN Append(named, [s |-> Cur(q), x |-> v.n]) ELSE named
    IN CASE Cur(q) \in {")", "eof"} -> Yield(q, [xs |-> xs, named |-> named])
         [] Cur(q) \notin {")", "eof"} /\ Cur(v) \in Separators -> AttrArgs(Advance(v), xs2, nmd2)
         [] OTHER -> Yield(v, [xs |-> xs2, named |-> nmd2])

ParseAttribute(p) ==
    LET name == ParseDottedName(Expect(p, "@"))
        args == AttrArgs(Advance(name), <<>>, <<>>)
    IN CASE name.n = <<>>   -> Yield(name, Nil)
         [] name.n # <<>> /\ Cur(name) # "(" ->
                Yield(name, [k |-> "attr", s |-> name.n, xs |-> <<>>, named |-> <<>>])
         [] OTHER -> Yield(Expect(args, ")"),
                           [k |-> "attr", s |-> name.n, xs |-> args.n.xs, named |-> args.n.named])

ParseAttributes(p, attrs) ==
    LET a == ParseAttribute(p)
    IN CASE Cur(p) # "@" -> Yield(p, attrs)
         [] Cur(p) = "@" /\ IsNil(a.n) -> ParseAttributes(Advance(a), attrs)
         [] OTHER -> ParseAttributes(SkipSeparators(a), Append(attrs, a.n))

ParseField(p) ==
    LET name == ParseIdent(p)
        type == ParseTypeExpr(Expect(name, ":"))
        def  == IF Cur(type) = "=" THEN ParseExpr(Advance(type)) ELSE Yield(type, Nil)
    IN CASE IsNil(name.n) -> name
         [] ~ IsNil(name.n) /\ IsNil(type.n) -> type
         [] OTHER -> Yield(def, [k |-> "field", s |-> name.n.s, t |-> type.n, x |-> def.n])

RECURSIVE SkipTo(_, _), Fields(_, _, _)
SkipTo(p, S) == IF Cur(p) \in S \cup {"eof"} THEN p ELSE SkipTo(Advance(p), S)

\* parseFields up to "}" and parseParams up to ")", which recover in their ways.
Fields(p, end, xs) ==
    LET attrs == ParseAttributes(p, <<>>)
        f     == ParseField(attrs)
    IN CASE Cur(p) \in {end, "eof"} -> Yield(p, xs)
         [] Cur(p) \notin {end} /\ Cur(p) \in Separators -> Fields(Advance(p), end, xs)
         [] OTHER ->
              IF ~ IsNil(f.n) THEN Fields(f, end, Append(xs, [attrs |-> attrs.n] @@ f.n))
              ELSE Fields(IF end = "}" THEN Synchronize(f) ELSE SkipTo(f, {",", end}), end, xs)

\* A type without a body is opaque; an attribute type has one always.
ParseTypeDecl(p) ==
    LET attr == Peek(p) = "@"
        name == ParseIdent(Advance(IF attr THEN Advance(p) ELSE p))
        body == Fields(Expect(name, "{"), "}", <<>>)
        k    == IF attr THEN "attrtype" ELSE "type"
    IN CASE IsNil(name.n) -> Yield(Synchronize(name), IF attr THEN TypedNil ELSE Nil)
         [] ~ IsNil(name.n) /\ ~ attr /\ Cur(name) # "{" ->
                Yield(Skip(name, "semi"), [k |-> "opaque", s |-> name.n.s, pub |-> FALSE])
         [] OTHER -> Yield(Skip(Expect(body, "}"), "semi"),
                           [k |-> k, s |-> name.n.s, xs |-> body.n, pub |-> FALSE])

RECURSIVE Variants(_, _)
Variants(p, xs) ==
    LET v == ParseIdent(p)
    IN CASE Cur(p) \in {"}", "eof"} -> Yield(p, xs)
         [] Cur(p) = "semi" -> Variants(Advance(p), xs)
         [] OTHER -> IF IsNil(v.n) THEN Variants(Synchronize(v), xs)
                     ELSE Variants(Skip(v, ","), Append(xs, v.n.s))

ParseEnumDecl(p) ==
    LET name == ParseIdent(Advance(p))
        vs   == Variants(Expect(name, "{"), <<>>)
    IN IF IsNil(name.n) THEN GiveUp(name)
       ELSE Yield(Skip(Expect(vs, "}"), "semi"),
                  [k |-> "enum", s |-> name.n.s, xs |-> vs.n, pub |-> FALSE])

\* func and decl.  A func has a type, a decl may do without; the body may be
\* missing in both.  "wide" is about the parameters.
ParseFuncDecl(p) ==
    LET func == Cur(p) = "func"
        name == IF func THEN ParseIdent(Advance(p)) ELSE ParseDottedName(Advance(p))
        s    == IF func THEN <<name.n.s>> ELSE name.n
        lp   == SkipSeparators(Expect(name, "("))
        ps   == Fields(lp, ")", <<>>)
        rp   == Expect(ps, ")")
        ret  == IF ~ func /\ Cur(rp) \in {"{", "semi", "eof"} THEN Yield(rp, Nil)
                ELSE ParseTypeExpr(rp)
        body == IF Cur(ret) = "{" THEN ParseBraces(ret) ELSE Yield(ret, <<>>)
    IN IF IF func THEN IsNil(name.n) ELSE name.n = <<>> THEN GiveUp(name)
       ELSE Yield(Skip(body, "semi"),
                  [k |-> IF func THEN "func" ELSE "decl", s |-> s, xs |-> ps.n,
                   wide |-> ps.n # <<>> /\ WideFields(ps, lp.i), t |-> ret.n,
                   stub |-> Cur(ret) # "{", body |-> body.n, pub |-> FALSE])

DeclKeywords == {"let", "func", "decl", "type", "enum"}

ParseDecl(p) ==
    LET pub == Cur(p) = "pub"
        q   == IF pub THEN Advance(p) ELSE p
        d   == CASE Cur(q) = "let"  -> ParseLetDecl(q)
                 [] Cur(q) = "type" -> ParseTypeDecl(q)
                 [] Cur(q) = "enum" -> ParseEnumDecl(q)
                 [] OTHER           -> ParseFuncDecl(q)
    IN CASE Cur(q) \notin DeclKeywords -> Yield(Error(q), Nil)
         [] Cur(q) \in DeclKeywords /\ pub /\ d.n.k \notin {"nil", "typed nil", "attrtype"} ->
                Yield(d, [d.n EXCEPT !.pub = TRUE])
         [] OTHER -> d

-----------------------------------------------------------------------------
(***************************************************************************)
(* A file: its module, its imports, and everything else in order.          *)
(***************************************************************************)
ParseImport(p) ==
    LET q == Advance(p)
    IN IF Cur(q) \in Literals THEN Yield(Skip(Advance(q), "semi"), [k |-> "import", s |-> Cur(q)])
       ELSE GiveUp(Error(q))

RECURSIVE Items(_, _)
Items(p, f) ==
    LET d == ParseDecl(p)
        m == ParseImport(p)
        s == ParseStmt(p)
        Add(q) == Items(q, IF IsNil(q.n) THEN f ELSE [f EXCEPT !.items = Append(@, q.n)])
    IN CASE Cur(p) = "eof"    -> Yield(p, f)
         [] Cur(p) = "semi"   -> Items(Advance(p), f)
         [] Cur(p) = "import" -> Items(m, IF IsNil(m.n) THEN f ELSE [f EXCEPT !.imports = Append(@, m.n)])
         [] Cur(p) \in DeclKeywords \cup {"pub"} -> Add(d)
         [] OTHER -> Add(s)

Parse(ts) ==
    LET p    == SkipSemis(Parser(ts))
        name == ParseIdent(Advance(p))
        q    == IF Cur(p) # "module" THEN Error(p)
                ELSE IF IsNil(name.n) THEN GiveUp(name) ELSE Skip(name, "semi")
    IN Items(q, [module |-> IF Cur(p) = "module" THEN name.n ELSE Nil,
                 imports |-> <<>>, items |-> <<>>])
=============================================================================
