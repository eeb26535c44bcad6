-------------------------------- MODULE Lexing --------------------------------
(***************************************************************************)
(* The lexer of the configuration language (internal/lang/lex), from the   *)
(* pieces of a source text to the tokens the parser sees.                  *)
(*                                                                         *)
(* A text is a sequence of pieces: names, numbers, strings, keywords,      *)
(* operators and the ends of lines, "nl".  A string is one of Literals;    *)
(* with interpolations it is "sbeg", what stands in the first, "}",        *)
(* "scont", what stands in the next, ..., "}", "send".  Scanning the       *)
(* characters of a piece, comments and strings over several lines are left *)
(* out.                                                                    *)
(***************************************************************************)
EXTENDS Naturals, Sequences, SequencesExt

\* Op(x), where TLC finds x first and not somewhere inside Op.
With(x, Op(_)) == CHOOSE z \in {Op(y) : y \in {x}} : TRUE

\* FoldLeft of SequencesExt, by halves.
Fold(Op(_, _), base, s) ==
    LET RECURSIVE Span(_, _, _)
        Span(x, i, j) ==
            LET m == (i + j) \div 2
            IN CASE i > j -> x
                 [] i = j -> Op(x, s[i])
                 [] OTHER -> With(Span(x, i, m), LAMBDA y : Span(y, m + 1, j))
    IN Span(base, 1, Len(s))

Keywords == {"module", "import", "let", "func", "decl", "type", "enum", "for", "in",
             "if", "else", "return", "true", "false", "none", "self", "pub"}
Operators == {"+", "-", "*", "/", "%", "==", "!=", "<", ">", "<=", ">=", "&&", "||", "!"}
Marks == {"=", ":", ".", "?", "@", ",", "{", "}", "[", "]", "(", ")", "semi", "eof",
          "${", "}$"}
Literals == {"'a'", "'b'", "'std'", "'net'"}
\* The last part of an import path, and what a literal says.
Leaf(t) == CASE t = "'std'" -> "std" [] t = "'net'" -> "net" [] t = "'a'" -> "a" [] OTHER -> "b"
Strings == Literals \cup {"sbeg", "scont", "send"}
Numbers == {"0", "1", "2", "3"}

Reserved == Keywords \cup Operators \cup Marks \cup Strings \cup Numbers
IsName(t) == t \notin Reserved

\* A line that ends in one of these ends a statement.
Enders == Numbers \cup Literals \cup
          {"send", "true", "false", "none", "self", "return", "}", "]", ")"}
EndsStatement(t) == IsName(t) \/ t \in Enders

\* The lexer is the tokens so far, each with its line, the line it is on, and
\* the braces open in each interpolation it is in, the innermost last.
Emit(x, t) == [x EXCEPT !.out = Append(@, [t |-> t, ln |-> x.ln])]
Prev(x) == IF x.out = <<>> THEN "nl" ELSE Last(x.out).t

\* A semicolon is put in at the end of a line, but not inside a string.
NewLine(x) ==
    LET y == IF EndsStatement(Prev(x)) /\ x.interp = <<>> THEN Emit(x, "semi") ELSE x
    IN [y EXCEPT !.ln = @ + 1]

\* Inside an interpolation braces are counted; the one that closes it goes
\* back to the text of the string.
Brace(x, t) ==
    LET depth == Last(x.interp)
        Deeper(d) == [x EXCEPT !.interp[Len(x.interp)] = d]
    IN CASE x.interp = <<>> -> Emit(x, t)
         [] x.interp # <<>> /\ t = "{" -> Emit(Deeper(depth + 1), t)
         [] x.interp # <<>> /\ t = "}" /\ depth > 1 -> Emit(Deeper(depth - 1), t)
         [] OTHER -> Emit([x EXCEPT !.interp = Front(@)], "}$")

Piece(x, t) ==
    CASE t = "nl"              -> NewLine(x)
      [] t \in {"{", "}"}      -> Brace(x, t)
      [] t \in {"sbeg", "scont"} ->
             [Emit(Emit(x, t), "${") EXCEPT !.interp = Append(@, 1)]
      [] OTHER                 -> Emit(x, t)

\* The end of the text ends the last statement.
Lex(text) ==
    LET x == Fold(Piece, [out |-> <<>>, ln |-> 1, interp |-> <<>>], text)
    IN IF EndsStatement(Prev(x)) THEN Emit(x, "semi").out ELSE x.out
=============================================================================
