------------------------------- MODULE Checking --------------------------------
(***************************************************************************)
(* The type checker of the configuration language (internal/lang/check).   *)
(*                                                                         *)
(* A checker is a record: the scopes, the innermost last, each a function  *)
(* from names to symbols; the kinds of the errors so far; what the         *)
(* declaration it is in says of self and of returns; the fields of the     *)
(* structs; the calls found to be x.f(...) for f(x, ...); and in t the     *)
(* type just found.  A type with parts carries the number it was made      *)
(* under, so that two types are equal exactly if they are the same         *)
(* pointer.  Attributes and what an editor asks for are left out.          *)
(***************************************************************************)
EXTENDS Parsing

CONSTANT Modules   \* the public symbols of the modules one can import

NoType == [k |-> "untyped"]
StringType == [k |-> "string"]
IntType    == [k |-> "int"]
BoolType   == [k |-> "bool"]
NoneType   == [k |-> "none"]
AnyType    == [k |-> "any"]

Builtins == {"string", "int", "bool", "any"}
Sym(t, kind, pub) == [t |-> t, kind |-> kind, pub |-> pub]
NoSym == Sym(NoType, "undefined", FALSE)

NoSyms == [n \in {} |-> NoSym]

Checker == [file |-> "", scopes |-> <<[kind |-> "file", syms |-> NoSyms]>>, errs |-> {}, self |-> Nil,
            ret |-> NoType, fields |-> [n \in {} |-> <<>>], ids |-> 0,
            ufcs |-> [n \in {} |-> ""], t |-> NoType]

Typed(c, t)  == [c EXCEPT !.t = t]
Fresh(c, t)  == [c EXCEPT !.ids = @ + 1, !.t = t @@ [id |-> <<c.file, c.ids>>]]
Err(c, code) == [c EXCEPT !.errs = @ \cup {code}, !.t = NoType]
\* An error that is reported while the type stays as it is.
Report(c, bad, code) == IF bad THEN [c EXCEPT !.errs = @ \cup {code}] ELSE c

-----------------------------------------------------------------------------
(***************************************************************************)
(* Scopes.                                                                 *)
(***************************************************************************)
Holding(c, name) == {i \in DOMAIN c.scopes : name \in DOMAIN c.scopes[i].syms}

Lookup(c, name) ==
    IF Holding(c, name) = {} THEN NoSym ELSE c.scopes[Max(Holding(c, name))].syms[name]

\* Puts a symbol in the scope i.
Bind(c, i, name, sym) == [c EXCEPT !.scopes[i].syms = (name :> sym) @@ @]

\* A name that the innermost scope has already keeps its symbol.
Define(c, name, sym) ==
    LET i == Len(c.scopes)
    IN IF name \in DOMAIN c.scopes[i].syms THEN c ELSE Bind(c, i, name, sym)

PushScope(c, kind) == [c EXCEPT !.scopes = Append(@, [kind |-> kind, syms |-> NoSyms])]
PopScope(c)        == [c EXCEPT !.scopes = Front(@)]

\* A collection may be changed in the body of a func or decl, however deep.
AllowsMutation(c) ==
    \E i \in DOMAIN c.scopes :
        /\ c.scopes[i].kind \in {"func", "decl"}
        /\ \A j \in i + 1 .. Len(c.scopes) : c.scopes[j].kind = "block"

AllImports(c) ==
    {n \in UNION {DOMAIN c.scopes[i].syms : i \in DOMAIN c.scopes} :
        \E i \in Holding(c, n) : c.scopes[i].syms[n].kind = "import"}

-----------------------------------------------------------------------------
(***************************************************************************)
(* Types.                                                                  *)
(***************************************************************************)
RECURSIVE IsAssignableTo(_, _)
IsAssignableTo(src, dst) ==
    \/ src = dst \/ dst = AnyType
    \/ /\ dst.k = "optional"
       /\ IF src.k = "optional" THEN IsAssignableTo(src.x, dst.x)
          ELSE src = NoneType \/ IsAssignableTo(src, dst.x)
    \/ /\ src.k = "list" /\ dst.k = "list"
       /\ src.x = AnyType \/ IsAssignableTo(src.x, dst.x)
    \/ /\ src.k = "map" /\ dst.k = "map"
       /\ IsAssignableTo(src.key, dst.key) /\ IsAssignableTo(src.x, dst.x)
    \/ src.k = dst.k /\ src.k \in {"struct", "enum", "opaque"} /\ src.s = dst.s

\* A value of type src where dst is wanted; what has no type is let through.
Fits(src, dst) == src = NoType \/ dst = NoType \/ IsAssignableTo(src, dst)

\* What a field, variant or member s of a type, a module or a chain of them is.
FieldsOf(c, t) ==
    CASE t.k # "struct" -> <<>>
      [] t.k = "struct" /\ t.s = "self" -> t.fields
      [] OTHER -> IF t.s \in DOMAIN c.fields THEN c.fields[t.s] ELSE <<>>
HasField(c, t, s) == \E i \in DOMAIN FieldsOf(c, t) : FieldsOf(c, t)[i].s = s
FieldNamed(xs, s) == xs[Min({i \in DOMAIN xs : xs[i].s = s})]

Access(c, t, s) ==
    CASE t = NoType -> Typed(c, NoType)
      [] HasField(c, t, s) -> Typed(c, FieldNamed(FieldsOf(c, t), s).t)
      [] t.k = "enum" -> IF \E i \in DOMAIN t.xs : t.xs[i] = s THEN Typed(c, t)
                         ELSE Err(c, "no variant")
      [] OTHER -> Err(c, "cannot access")

RECURSIVE ChainAccess(_, _)
ChainAccess(c, parts) ==
    IF parts = <<>> THEN c ELSE ChainAccess(Access(c, c.t, Head(parts)), Tail(parts))

ResolveModuleMember(c, mod, parts) ==
    IF mod \notin DOMAIN Modules \/ Head(parts) \notin DOMAIN Modules[mod]
    THEN Err(c, "undefined member")
    ELSE ChainAccess(Typed(c, Modules[mod][Head(parts)].t), Tail(parts))

ResolveNamedType(c, parts) ==
    LET sym == Lookup(c, Head(parts))
    IN CASE Len(parts) = 1 /\ Head(parts) \in Builtins -> Typed(c, [k |-> Head(parts)])
         [] Len(parts) = 1 /\ Head(parts) \notin Builtins ->
                IF sym.kind \in {"type", "enum", "decl"} THEN Typed(c, sym.t)
                ELSE Err(c, "unknown type")
         [] OTHER -> IF sym.kind = "import" THEN ResolveModuleMember(c, Head(parts), Tail(parts))
                     ELSE Err(c, "unknown type")

\* Without an annotation there is no type and no error.
RECURSIVE ResolveType(_, _)
ResolveType(c, t) ==
    LET arity == CASE t.s \in {"list", "block"} -> 1 [] t.s = "map" -> 2 [] OTHER -> 0
        x == ResolveType(c, t.xs[1])
        y == ResolveType(x, t.xs[2])
        inner == ResolveType(c, t.x)
    IN CASE t.k = "nil"   -> Typed(c, NoType)
         [] t.k = "named" -> ResolveNamedType(c, t.s)
         [] t.k = "optional" ->
                IF inner.t = NoType THEN inner ELSE Fresh(inner, [k |-> "optional", x |-> inner.t])
         [] OTHER ->
                IF arity = 0 \/ Len(t.xs) # arity THEN Err(c, "generic type")
                ELSE IF arity = 1
                THEN IF x.t = NoType THEN x ELSE Fresh(x, [k |-> t.s, x |-> x.t])
                ELSE IF NoType \in {x.t, y.t} THEN Typed(y, NoType)
                ELSE Fresh(y, [k |-> "map", key |-> x.t, x |-> y.t])

-----------------------------------------------------------------------------
(***************************************************************************)
(* Expressions.                                                            *)
(***************************************************************************)
RECURSIVE TypeOf(_, _), TypesOf(_, _), CheckStmt(_, _), CheckStmts(_, _)

\* One after the other.
TypesOf(c, xs) == Fold(TypeOf, c, xs)
CheckStmts(c, body) == Fold(CheckStmt, c, body)

IsOptional(t) == t.k = "optional"
Required(f) == ~ f.def /\ ~ IsOptional(f.t)

\* The arguments of a call against the parameters left for them: how many there
\* are, and of each its type.
CheckCallArgs(c, call, params) ==
    LET least == Cardinality({i \in DOMAIN params : Required(params[i])})
        n     == Len(call.args)
        counted == Report(Report(c, n < least, "too few arguments"),
                          n > Len(params), "too many arguments")
        Want(i) ==
            LET a == call.args[i]
                named == {j \in DOMAIN params : params[j].s = a.s}
            IN IF a.s # "" THEN IF named = {} THEN NoType ELSE params[Min(named)].t
               ELSE IF i <= Len(params) THEN params[i].t ELSE NoType
        Arg(d, i) == LET v == TypeOf(d, call.args[i].x)
                     IN Report(v, ~ Fits(v.t, Want(i)), "argument type")
    IN Fold(Arg, counted, [i \in 1 .. n |-> i])

Accepts(t, x) == t.k = "func" /\ t.xs # <<>> /\ IsAssignableTo(x, t.xs[1].t)

\* x.f(...) where x is a value without a field f and f, in scope or in exactly
\* one of the imported modules, takes it as its first argument.
DetectUFCS(c, call) ==
    LET fn    == call.x
        x     == TypeOf(c, fn.x)
        local == Lookup(x, fn.s).t
        mods  == {m \in AllImports(c) \cap DOMAIN Modules :
                     fn.s \in DOMAIN Modules[m] /\ Accepts(Modules[m][fn.s].t, x.t)}
        No(d) == [c |-> Typed(d, NoType), mod |-> ""]
    IN CASE fn.k # "sel" -> No(c)
         [] fn.k = "sel" /\ fn.x.k = "id" /\ Lookup(c, fn.x.s).kind = "import" -> No(c)
         [] OTHER ->
              IF x.t = NoType \/ HasField(x, x.t, fn.s) THEN No(x)
              ELSE IF Accepts(local, x.t) THEN [c |-> Typed(x, local), mod |-> ""]
              ELSE IF Cardinality(mods) > 1 THEN No(Err(x, "ambiguous call"))
              ELSE IF mods = {} THEN No(x)
              ELSE LET m == CHOOSE m \in mods : TRUE
                   IN [c |-> Typed(x, Modules[m][fn.s].t), mod |-> m]

CheckCall(c, call) ==
    LET u  == DetectUFCS(c, call)
        ft == u.c.t
        marked == [u.c EXCEPT !.ufcs = (call.at :> u.mod) @@ @]
        fn == TypeOf(u.c, call.x)
    IN CASE ft # NoType -> Typed(CheckCallArgs(marked, call, Tail(ft.xs)), ft.ret)
         [] ft = NoType /\ fn.t.k = "func" -> Typed(CheckCallArgs(fn, call, fn.t.xs), fn.t.ret)
         [] OTHER -> IF fn.t = NoType THEN fn ELSE Err(fn, "cannot call")

\* The fields a literal sets against those declared.
CheckFieldInits(c, decl, inits) ==
    LET Known(s)  == \E i \in DOMAIN decl : decl[i].s = s
        First(i)  == \A j \in 1 .. i - 1 : inits[j].s # inits[i].s
        Init_(d, i) ==
            LET v == TypeOf(d, inits[i].x)
            IN CASE ~ First(i) -> Err(d, "duplicate field")
                 [] First(i) /\ ~ Known(inits[i].s) -> Err(d, "unknown field")
                 [] OTHER -> Report(v, ~ Fits(v.t, FieldNamed(decl, inits[i].s).t), "field type")
        set == Fold(Init_, c, [i \in DOMAIN inits |-> i])
    IN Report(set, \E i \in DOMAIN decl : Required(decl[i])
                      /\ \A j \in DOMAIN inits : inits[j].s # decl[i].s, "missing field")

\* A literal without a name passes for a map; a name bound to a block is filled
\* by what looks like a literal.
CheckStructLit(c, lit) ==
    LET sym  == Lookup(c, lit.t[1])
        type == ResolveNamedType(c, lit.t)
        inits == CheckFieldInits(type, type.t.xs, lit.fields)
    IN CASE lit.t = <<>> ->
                Fresh(TypesOf(c, [i \in DOMAIN lit.fields |-> lit.fields[i].x]),
                      [k |-> "map", key |-> StringType, x |-> AnyType])
         [] Len(lit.t) = 1 /\ sym.kind = "let" /\ sym.t.k = "block" ->
                Typed(CheckStmts(c, lit.body), sym.t.x)
         [] OTHER ->
              CASE type.t = NoType     -> type
                [] type.t.k = "struct" ->
                       Typed(CheckFieldInits(type, FieldsOf(c, type.t), lit.fields), type.t)
                [] type.t.k = "decl"   -> Typed(CheckStmts(inits, lit.body), type.t.ret)
                [] OTHER               -> Err(type, "not a struct or decl")

BugScopeLeaks(c, x) ==
    LET b == TypeOf(c, x.x)
    IN CASE b.t = NoType    -> b
         [] b.t.k = "block" -> Typed(CheckStmts(PushScope(b, "decl"), x.body), b.t.x)
         [] OTHER           -> Err(b, "not a block")

\* In the braces of a fill collections may be changed.
CheckFill(c, x) ==
    LET b == TypeOf(c, x.x)
    IN CASE b.t = NoType    -> b
         [] b.t.k = "block" -> Typed(PopScope(CheckStmts(PushScope(b, "decl"), x.body)), b.t.x)
         [] OTHER           -> Err(b, "not a block")

\* The first element that has a type speaks for all.
CheckListLit(c, x) ==
    LET Item(a, e) == LET v == TypeOf(a.c, e)
                      IN [c |-> v, t |-> IF a.t = NoType THEN v.t ELSE a.t]
        all == Fold(Item, [c |-> c, t |-> NoType], x.xs)
    IN Fresh(all.c, [k |-> "list", x |-> IF all.t = NoType THEN AnyType ELSE all.t])

BugFirstEntrySpeaks(c, x) ==
    LET Entry(a, e) ==
            LET v == TypeOf(TypeOf(a.c, e.key), e.x)
            IN [c |-> v, t |-> IF a.t = NoType THEN v.t ELSE a.t]
        all == Fold(Entry, [c |-> c, t |-> NoType], x.es)
    IN Fresh(all.c, [k |-> "map", key |-> StringType,
                     x |-> IF all.t = NoType THEN AnyType ELSE all.t])

\* Entries of several types make a map of any.
CheckMapLit(c, x) ==
    LET Entry(a, e) ==
            LET v == TypeOf(TypeOf(a.c, e.key), e.x)
            IN [c |-> v, t |-> IF v.t = NoType THEN a.t
                               ELSE IF a.t \in {NoType, v.t} THEN v.t ELSE AnyType]
        all == Fold(Entry, [c |-> c, t |-> NoType], x.es)
    IN Fresh(all.c, [k |-> "map", key |-> StringType,
                     x |-> IF all.t = NoType THEN AnyType ELSE all.t])

CheckIndex(c, e) ==
    LET x == TypeOf(c, e.x)
        y == TypeOf(x, e.y)
        t == IF IsOptional(x.t) THEN x.t.x ELSE x.t
    IN CASE t = NoType   -> Typed(y, NoType)
         [] t.k = "list" -> Typed(Report(y, y.t \notin {NoType, IntType}, "index"), t.x)
         [] t.k = "map"  -> Typed(Report(y, ~ Fits(y.t, t.key), "key"), t.x)
         [] OTHER        -> Err(y, "cannot index")

CheckBinary(c, e) ==
    LET l == TypeOf(c, e.l)
        r == TypeOf(l, e.r)
        known == NoType \notin {l.t, r.t}
        Both(t) == l.t = t /\ r.t = t
        NotBool(t) == t \notin {NoType, BoolType}
    IN CASE e.op = "+" ->
              IF Both(StringType) \/ Both(IntType) \/ (l.t.k = "list" /\ r.t.k = "list")
              THEN Typed(r, l.t)
              ELSE Typed(Report(r, known, "cannot add"), NoType)
         [] e.op \in {"-", "*", "/", "%"} ->
              IF Both(IntType) THEN Typed(r, IntType)
              ELSE Typed(Report(r, known, "not int"), NoType)
         [] e.op \in {"&&", "||"} ->
              Typed(Report(r, NotBool(l.t) \/ NotBool(r.t), "not bool"), BoolType)
         [] OTHER -> Typed(r, BoolType)

CheckUnary(c, e) ==
    LET x == TypeOf(c, e.x)
        t == IF e.op = "!" THEN BoolType ELSE IntType
    IN Typed(Report(x, x.t \notin {NoType, t}, "operand"), t)

CheckCond(c, x) == LET v == TypeOf(c, x) IN Report(v, v.t \notin {NoType, BoolType}, "not bool")

\* The branch that is taken when the condition holds speaks for both.
CheckIfExpr(c, e) ==
    LET then == TypeOf(CheckCond(c, e.c), e.a) IN Typed(TypeOf(then, e.b), then.t)

\* Of what is no list the parts are not looked at.
CheckListComp(c, e) ==
    LET iter == TypeOf(c, e.iter)
        in   == Define(PushScope(iter, "block"), e.v.s, Sym(iter.t.x, "let", FALSE))
        x    == TypeOf(in, e.x)
        cond == IF IsNil(e.c) THEN x ELSE TypeOf(x, e.c)
    IN IF iter.t.k = "list"
       THEN Fresh(PopScope(cond), [k |-> "list", x |-> IF x.t = NoType THEN AnyType ELSE x.t])
       ELSE Fresh(iter, [k |-> "list", x |-> AnyType])

ResolveSelector(c, e) ==
    IF e.x.k = "id" /\ Lookup(c, e.x.s).kind = "import"
    THEN ResolveModuleMember(c, e.x.s, <<e.s>>)
    ELSE LET x == TypeOf(c, e.x) IN Access(x, x.t, e.s)

TypeOf(c, x) ==
    CASE x.k = "nil"    -> Typed(c, NoType)
      [] x.k = "paren"  -> TypeOf(c, x.x)
      [] x.k = "int"    -> Typed(c, IntType)
      [] x.k \in {"true", "false"} -> Typed(c, BoolType)
      [] x.k = "none"   -> Typed(c, NoneType)
      [] x.k = "self"   -> IF IsNil(c.self) THEN Err(c, "self") ELSE Typed(c, c.self)
      [] x.k = "str"    -> Typed(c, StringType)
      [] x.k = "interp" -> Typed(TypesOf(c, x.xs), StringType)
      [] x.k = "id"     -> IF Lookup(c, x.s) = NoSym THEN Err(c, "undefined")
                           ELSE Typed(c, Lookup(c, x.s).t)
      [] x.k = "sel"    -> ResolveSelector(c, x)
      [] x.k = "fill"   -> CheckFill(c, x)
      [] x.k = "call"   -> CheckCall(c, x)
      [] x.k = "struct" -> CheckStructLit(c, x)
      [] x.k = "list"   -> CheckListLit(c, x)
      [] x.k = "map"    -> CheckMapLit(c, x)
      [] x.k = "index"  -> CheckIndex(c, x)
      [] x.k = "bin"    -> CheckBinary(c, x)
      [] x.k = "un"     -> CheckUnary(c, x)
      [] x.k = "ifx"    -> CheckIfExpr(c, x)
      [] x.k = "comp"   -> CheckListComp(c, x)

-----------------------------------------------------------------------------
(***************************************************************************)
(* Statements.                                                             *)
(***************************************************************************)

\* A let of a name that is bound by a let already, in whatever scope, gives
\* that one the new type.
CheckLetDecl(c, d) ==
    LET declared == ResolveType(c, d.t)
        v    == TypeOf(declared, d.x)
        ok   == Report(v, ~ Fits(v.t, declared.t), "let type")
        type == IF declared.t = NoType THEN v.t ELSE declared.t
        old  == Lookup(c, d.s)
    IN IF old.kind = "let"
       THEN Bind(ok, Max(Holding(ok, d.s)), d.s, [old EXCEPT !.t = type])
       ELSE Define(ok, d.s, Sym(type, "let", FALSE))

CheckBlock(c, body) == PopScope(CheckStmts(PushScope(c, "block"), body))

BugLoopWithoutScope(c, s) ==
    LET iter == TypeOf(c, s.iter)
        in   == IF iter.t.k = "list" THEN Define(iter, s.s, Sym(iter.t.x, "let", FALSE)) ELSE iter
    IN CheckStmts(in, s.body)

\* The variable of a loop over something that is no list is not defined.
CheckFor(c, s) ==
    LET iter == TypeOf(PushScope(c, "block"), s.iter)
        in   == IF iter.t.k = "list" THEN Define(iter, s.s, Sym(iter.t.x, "let", FALSE)) ELSE iter
    IN PopScope(CheckStmts(in, s.body))

CheckIf(c, s) ==
    LET then == CheckBlock(CheckCond(c, s.c), s.a)
    IN IF s.else THEN CheckBlock(then, s.b) ELSE then

CheckReturn(c, s) == LET v == TypeOf(c, s.x) IN Report(v, ~ Fits(v.t, c.ret), "return type")

CheckAssign(c, s) ==
    TypeOf(TypeOf(Report(c, ~ AllowsMutation(c), "mutation"), s.x), s.y)

CheckStmt(c, s) ==
    CASE s.k = "let"    -> CheckLetDecl(c, s)
      [] s.k = "expr"   -> TypeOf(c, s.x)
      [] s.k = "assign" -> CheckAssign(c, s)
      [] s.k = "for"    -> CheckFor(c, s)
      [] s.k = "if"     -> CheckIf(c, s)
      [] s.k = "return" -> CheckReturn(c, s)

-----------------------------------------------------------------------------
(***************************************************************************)
(* Declarations.                                                           *)
(***************************************************************************)
RECURSIVE DefinitelyReturns(_)

BugThenIsEnough(body) ==
    IF body = <<>> THEN FALSE
    ELSE LET s == Last(body)
         IN \/ s.k = "return" /\ ~ IsNil(s.x)
            \/ s.k = "if" /\ DefinitelyReturns(s.a)

\* The last statement returns a value, or both of its branches do.
DefinitelyReturns(body) ==
    IF body = <<>> THEN FALSE
    ELSE LET s == Last(body)
         IN \/ s.k = "return" /\ ~ IsNil(s.x)
            \/ s.k = "if" /\ s.else /\ DefinitelyReturns(s.a) /\ DefinitelyReturns(s.b)

\* Fields and parameters with their types, in p.xs.
ResolveFields(c, xs) ==
    LET Add(p, f) ==
            LET t == ResolveType(p.c, f.t)
            IN [c  |-> IF IsNil(f.x) THEN t ELSE TypeOf(t, f.x),
                xs |-> Append(p.xs, [s |-> f.s, t |-> t.t, def |-> ~ IsNil(f.x)])]
    IN Fold(Add, [c |-> c, xs |-> <<>>], xs)

Bare(xs) == [i \in DOMAIN xs |-> [xs[i] EXCEPT !.x = Nil]]

\* A field that comes twice counts once, one of an unknown type not at all.
DistinctFields(c, xs) ==
    LET First(i) == \A j \in 1 .. i - 1 : xs[j].s # xs[i].s
        Add(p, i) ==
            LET f == ResolveFields(p.c, <<xs[i]>>)
            IN CASE ~ First(i) -> [p EXCEPT !.c = Err(@, "duplicate field")]
                 [] First(i) /\ f.xs[1].t = NoType -> [p EXCEPT !.c = Err(f.c, "unknown type")]
                 [] OTHER -> [c |-> f.c, xs |-> p.xs \o f.xs]
    IN Fold(Add, [c |-> c, xs |-> <<>>], [i \in DOMAIN xs |-> i])

CheckTypeDecl(c, d) ==
    LET all == DistinctFields(c, d.xs)
    IN IF Lookup(c, d.s).t.k # "struct" THEN c
       ELSE [all.c EXCEPT !.fields = (d.s :> FieldsOf(c, Lookup(c, d.s).t) \o all.xs) @@ @]

\* The fields of an attribute type have no attributes.
CheckAttrTypeDecl(c, d) ==
    Report(DistinctFields(c, Bare(d.xs)).c, \E i \in DOMAIN d.xs : d.xs[i].attrs # <<>>,
           "attribute on an attribute field")

\* The body, in a scope with the parameters.  In that of a decl with parameters
\* self stands for them.
CheckBody(c, d, kind, ret) ==
    LET ps   == ResolveFields(c, Bare(d.xs))
        self == CASE kind = "func" -> c.self
                  [] kind = "decl" /\ d.xs = <<>> -> Nil
                  [] OTHER -> [k |-> "struct", s |-> "self", fields |-> ps.xs]
        in == Fold(LAMBDA e, p : Define(e, p.s, Sym(p.t, "param", FALSE)),
                       [PushScope(ps.c, kind) EXCEPT !.ret = ret, !.self = self], ps.xs)
    IN [PopScope(CheckStmts(in, d.body)) EXCEPT !.ret = c.ret, !.self = c.self]

SetType(c, name, t) == LET d == Fresh(c, t)
                       IN Bind(d, 1, name, [Lookup(c, name) EXCEPT !.t = d.t])

CheckFuncDecl(c, d) ==
    LET name == d.s[1]
        ret  == ResolveType(c, d.t)
        all  == Report(ret, ~ d.stub /\ ~ DefinitelyReturns(d.body), "not all paths return")
        ps   == ResolveFields(all, d.xs)
        known == SetType(ps.c, name, [k |-> "func", xs |-> ps.xs, ret |-> ret.t])
    IN IF d.stub THEN known ELSE CheckBody(known, d, "func", ret.t)

CheckDeclDecl(c, d) ==
    LET name == d.s[1]
        ret  == Report(ResolveType(c, d.t), IsNil(d.t), "decl without a type")
        ps   == ResolveFields(ret, d.xs)
        known == SetType(ps.c, name, [k |-> "decl", s |-> name, xs |-> ps.xs, ret |-> ret.t])
    IN IF d.stub THEN known ELSE CheckBody(known, d, "decl", c.ret)

\* Every name of the file is known before anything is looked at, its type not.
RegisterDecl(c, d, main) ==
    LET name == CASE d.k \in {"func", "decl"} -> d.s[1]
                  [] d.k = "attrtype" -> "@" \o d.s
                  [] OTHER -> d.s
        Put(t, kind) ==
            Report(Define(c, name, Sym(t, kind, d.pub \/ main \/ kind = "attr")),
                   name \in DOMAIN c.scopes[1].syms, "duplicate")
    IN CASE d.k = "type"   -> Put([k |-> "struct", s |-> name], "type")
         [] d.k = "opaque" -> Put([k |-> "opaque", s |-> name], "type")
         [] d.k = "enum"   -> Put([k |-> "enum", s |-> name, xs |-> d.xs], "enum")
         [] d.k = "attrtype" -> Put([k |-> "attr"], "attr")
         [] OTHER          -> Put(NoType, d.k)

CheckImport(c, imp) ==
    LET leaf == Leaf(imp.s)
    IN IF leaf \notin DOMAIN Modules THEN Err(c, "unknown module")
       ELSE Report(Define(c, leaf, Sym(NoType, "import", FALSE)),
                   leaf \in DOMAIN c.scopes[1].syms, "duplicate import")

CheckDecl(c, d) ==
    CASE d.k = "type" -> CheckTypeDecl(c, d)
      [] d.k = "func" -> CheckFuncDecl(c, d)
      [] d.k = "decl" -> CheckDeclDecl(c, d)
      [] d.k = "let"  -> CheckLetDecl(c, d)
      [] d.k = "attrtype" -> CheckAttrTypeDecl(c, d)
      [] OTHER        -> c

Decls == {"let", "func", "decl", "type", "opaque", "attrtype", "enum"}

\* The declarations before the statements, whatever their order.
Check(f) ==
    LET IsDecl(d) == d.k \in Decls
        main  == IsNil(f.module) \/ f.module.s = "main"
        decls == SelectSeq(f.items, IsDecl)
        stmts == SelectSeq(f.items, LAMBDA s : ~ IsDecl(s))
        new   == [Checker EXCEPT !.file = IF IsNil(f.module) THEN "" ELSE f.module.s]
        names == Fold(LAMBDA c, d : RegisterDecl(c, d, main),
                          Fold(CheckImport, new, f.imports), decls)
    IN CheckStmts(Fold(CheckDecl, names, decls), stmts)

\* What importers see of a module.
PublicView(c) ==
    LET syms == c.scopes[1].syms IN [n \in {m \in DOMAIN syms : syms[m].pub} |-> syms[n]]
=============================================================================
