------------------------------ MODULE Formatting -------------------------------
(***************************************************************************)
(* The formatter of the configuration language (internal/lang/format):     *)
(* a tree printed as pieces of text, with the ends of lines it chooses.    *)
(* Indentation, blank lines, the alignment of columns and comments are     *)
(* left out.                                                               *)
(***************************************************************************)
EXTENDS Parsing

\* The parts one after the other, with s between them.
Joined(parts, s) ==
    Fold(LAMBDA a, b : IF a = <<>> THEN b ELSE a \o s \o b, <<>>, parts)
Lines(parts, end) == Fold(LAMBDA a, b : a \o b \o end, <<>>, parts)
Each(Op(_), xs) == [i \in DOMAIN xs |-> Op(xs[i])]

Comma == <<",">>
NL    == <<"nl">>

DottedText(s) == Joined([i \in DOMAIN s |-> <<s[i]>>], <<".">>)

RECURSIVE TypeText(_), ExprText(_), StmtText(_)

TypeText(t) ==
    CASE t.k = "named"    -> DottedText(t.s)
      [] t.k = "generic"  -> <<t.s, "[">> \o Joined(Each(TypeText, t.xs), Comma) \o <<"]">>
      [] t.k = "optional" -> TypeText(t.x) \o <<"?">>

-----------------------------------------------------------------------------
(***************************************************************************)
(* Expressions.  What covered several lines is printed with one part to a  *)
(* line, everything else on one line.                                      *)
(***************************************************************************)
StringText(x) ==
    <<"sbeg">> \o Joined(Each(ExprText, x.xs), <<"}", "scont">>) \o <<"}", "send">>

BlockText(body) == <<"{", "nl">> \o Lines(Each(StmtText, body), <<>>) \o <<"}">>

FieldInitText(f) == <<f.s, "=">> \o ExprText(f.x)
EntryText(e)     == ExprText(e.key) \o <<":">> \o ExprText(e.x)
ArgText(a)       == IF a.s = "" THEN ExprText(a.x) ELSE FieldInitText(a)

\* Between open and close: one part to a line, each ended by a comma, or all on
\* one line.
Bracketed(open, parts, close, wide) ==
    <<open>> \o (IF wide THEN NL \o Lines(parts, Comma \o NL) ELSE Joined(parts, Comma))
             \o <<close>>

StructText(x) ==
    LET inits == Each(FieldInitText, x.fields)
        type  == DottedText(x.t)
    IN CASE x.fields = <<>> /\ x.body = <<>> -> type \o <<"{", "}">>
         [] x.fields # <<>> /\ x.body = <<>> /\ ~ x.wide ->
                type \o <<"{">> \o Joined(inits, Comma) \o <<"}">>
         [] OTHER -> type \o <<"{", "nl">> \o Lines(inits, NL)
                          \o Lines(Each(StmtText, x.body), <<>>) \o <<"}">>

CompText(x) ==
    <<"[">> \o ExprText(x.x) \o <<"for", x.v.s, "in">> \o ExprText(x.iter)
            \o (IF IsNil(x.c) THEN <<>> ELSE <<"if">> \o ExprText(x.c)) \o <<"]">>

IfText(x) ==
    <<"if">> \o ExprText(x.c) \o <<"{">> \o ExprText(x.a) \o <<"}", "else", "{">>
             \o ExprText(x.b) \o <<"}">>

BugParensDropped(x) == ExprText(x.x)
ParenText(x)        == <<"(">> \o ExprText(x.x) \o <<")">>

ExprText(x) ==
    CASE x.k \in {"id", "int", "str"}              -> <<x.s>>
      [] x.k \in {"true", "false", "none", "self"} -> <<x.k>>
      [] x.k = "interp" -> StringText(x)
      [] x.k = "list"   -> Bracketed("[", Each(ExprText, x.xs), "]", x.wide)
      [] x.k = "map"    -> Bracketed("{", Each(EntryText, x.es), "}", x.wide)
      [] x.k = "struct" -> StructText(x)
      [] x.k = "fill"   -> ExprText(x.x) \o BlockText(x.body)
      [] x.k = "call"   -> ExprText(x.x) \o Bracketed("(", Each(ArgText, x.args), ")", x.wide)
      [] x.k = "sel"    -> ExprText(x.x) \o <<".", x.s>>
      [] x.k = "index"  -> ExprText(x.x) \o <<"[">> \o ExprText(x.y) \o <<"]">>
      [] x.k = "paren"  -> ParenText(x)
      [] x.k = "bin"    -> ExprText(x.l) \o <<x.op>> \o ExprText(x.r)
      [] x.k = "un"     -> <<x.op>> \o ExprText(x.x)
      [] x.k = "ifx"    -> IfText(x)
      [] x.k = "comp"   -> CompText(x)

-----------------------------------------------------------------------------
(***************************************************************************)
(* Fields, statements and declarations, each on lines of its own.          *)
(***************************************************************************)
AttributeText(a) ==
    LET args == Each(ExprText, a.xs) \o Each(FieldInitText, a.named)
    IN <<"@">> \o DottedText(a.s)
               \o (IF args = <<>> THEN <<>> ELSE <<"(">> \o Joined(args, Comma) \o <<")">>)

BareField(f) ==
    <<f.s, ":">> \o TypeText(f.t) \o (IF IsNil(f.x) THEN <<>> ELSE <<"=">> \o ExprText(f.x))
BugAttributesOnLines(f) == Lines(Each(AttributeText, f.attrs), NL) \o BareField(f)
FieldInline(f) == Lines(Each(AttributeText, f.attrs), <<>>) \o BareField(f)
FieldLine(f)   == Lines(Each(AttributeText, f.attrs), NL) \o BareField(f)

FieldList(d) ==
    CASE d.xs = <<>>             -> <<>>
      [] d.xs # <<>> /\ ~ d.wide -> Joined(Each(FieldInline, d.xs), Comma)
      [] OTHER                   -> NL \o Lines(Each(FieldLine, d.xs), NL)

PubPrefix(d) == IF d.pub THEN <<"pub">> ELSE <<>>

\* The annotation of a let is not printed.
LetText(d) == PubPrefix(d) \o <<"let", d.s, "=">> \o ExprText(d.x) \o NL

\* func and decl.
FuncText(d) ==
    PubPrefix(d) \o <<d.k>> \o DottedText(d.s) \o <<"(">> \o FieldList(d) \o <<")">>
        \o (IF IsNil(d.t) THEN <<>> ELSE TypeText(d.t))
        \o (IF d.stub THEN <<>> ELSE BlockText(d.body)) \o NL

TypeDeclText(d) ==
    IF d.k = "opaque" THEN PubPrefix(d) \o <<"type", d.s>> \o NL
    ELSE PubPrefix(d) \o <<"type", d.s, "{", "nl">> \o Lines(Each(FieldLine, d.xs), NL)
                      \o <<"}", "nl">>

EnumText(d) ==
    PubPrefix(d) \o <<"enum", d.s, "{">> \o Joined([i \in DOMAIN d.xs |-> <<d.xs[i]>>], Comma)
                 \o <<"}", "nl">>

AttrTypeText(d) ==
    <<"type", "@", d.s, "{">>
        \o (IF d.xs = <<>> THEN <<>> ELSE NL \o Lines(Each(FieldLine, d.xs), NL))
        \o <<"}", "nl">>

IfStmtText(s) ==
    <<"if">> \o ExprText(s.c) \o BlockText(s.a)
             \o (IF s.else THEN <<"else">> \o BlockText(s.b) ELSE <<>>) \o NL

StmtText(s) ==
    CASE s.k = "let"    -> LetText(s)
      [] s.k = "expr"   -> ExprText(s.x) \o NL
      [] s.k = "assign" -> ExprText(s.x) \o <<"=">> \o ExprText(s.y) \o NL
      [] s.k = "for"    -> <<"for", s.s, "in">> \o ExprText(s.iter) \o BlockText(s.body) \o NL
      [] s.k = "if"     -> IfStmtText(s)
      [] s.k = "return" -> <<"return">> \o (IF IsNil(s.x) THEN <<>> ELSE ExprText(s.x)) \o NL

DeclText(d) ==
    CASE d.k \in {"func", "decl"}   -> FuncText(d)
      [] d.k \in {"type", "opaque"} -> TypeDeclText(d)
      [] d.k = "enum"               -> EnumText(d)
      [] d.k = "attrtype"           -> AttrTypeText(d)
      [] OTHER                      -> StmtText(d)

FileText(f) ==
    (IF IsNil(f.module) THEN <<>> ELSE <<"module", f.module.s, "nl">>)
        \o Lines([i \in DOMAIN f.imports |-> <<"import", f.imports[i].s>>], NL)
        \o Lines(Each(DeclText, f.items), <<>>)

\* A text with an error in it is left as it is.  p is the parser at its end.
Formatted(text, p) == IF p.err THEN text ELSE FileText(p.n)
Format(text) == Formatted(text, Parse(Lex(text)))
=============================================================================
