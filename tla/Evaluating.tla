------------------------------ MODULE Evaluating -------------------------------
(***************************************************************************)
(* The evaluator of the configuration language (internal/lang/eval).       *)
(*                                                                         *)
(* An evaluator is a record: the environments, each with the number of the *)
(* one around it, and the current one; the lists, maps and structs made so *)
(* far, which are shared by reference; the value of the return under way;  *)
(* the collector of the block being filled and what the top level emitted; *)
(* the kinds of the errors; and in v the value just found.  died tells     *)
(* that the program is gone: a panic, or a stack that has no end, for      *)
(* which a chain of MaxCalls calls stands.  emits counts the values    *)
(* that were emitted, gathered those that blocks were filled with, and     *)
(* fell tells that a func ended without a return.  A string is the         *)
(* sequence of its parts, a number has no width.  Modules of the author's  *)
(* own, and builtins but for range and unique, are left out.               *)
(***************************************************************************)
EXTENDS Checking, Integers

CONSTANTS Stubs,      \* the parsed modules of the standard library
          MaxCalls

NilVal  == [k |-> "nil"]       \* no value at all
NoneVal == [k |-> "none"]
IntVal(n)  == [k |-> "int", n |-> n]
BoolVal(b) == [k |-> "bool", b |-> b]
StrVal(s)  == [k |-> "string", s |-> s]

NoVars == [n \in {} |-> NilVal]
NoCollector == [on |-> FALSE, xs |-> <<>>]

Evaluator == [envs |-> <<[up |-> 0, vars |-> NoVars]>>, env |-> 1, heap |-> <<>>,
              ret |-> NilVal, coll |-> NoCollector, exprs |-> <<>>, errs |-> {},
              v |-> NilVal, died |-> "", depth |-> 0, emits |-> 0, gathered |-> 0, fell |-> FALSE,
              ufcs |-> [n \in {} |-> ""], returns |-> [q \in {} |-> ""],
              defaults |-> [q \in {} |-> <<>>]]

Val(e, v)   == [e EXCEPT !.v = v]
Fail(e, code) == [e EXCEPT !.errs = @ \cup {code}, !.v = NoneVal]
Panic(e, why) == [e EXCEPT !.died = why, !.v = NoneVal]
Noted(e, bad, code) == IF bad THEN [e EXCEPT !.errs = @ \cup {code}] ELSE e

-----------------------------------------------------------------------------
(***************************************************************************)
(* Environments and what is shared.                                        *)
(***************************************************************************)
RECURSIVE Get(_, _, _)
Get(e, i, name) ==
    CASE i = 0 -> NilVal
      [] i # 0 /\ name \in DOMAIN e.envs[i].vars -> e.envs[i].vars[name]
      [] OTHER -> Get(e, e.envs[i].up, name)

Set_(e, i, name, v) == [e EXCEPT !.envs[i].vars = (name :> v) @@ @]
\* A new environment around which i is, the current one from here on.
Enter(e, i) == [e EXCEPT !.envs = Append(@, [up |-> i, vars |-> NoVars]), !.env = Len(e.envs) + 1]

\* A new list, map or struct.  A map is a sequence of keys with their values.
Alloc(e, k, content) == [e EXCEPT !.heap = Append(@, content), !.v = [k |-> k, r |-> Len(e.heap) + 1]]
Content(e, v) == e.heap[v.r]

KeyAt(m, s) == {i \in DOMAIN m : m[i].key = s}
MapGet(m, s) == IF KeyAt(m, s) = {} THEN NilVal ELSE m[Min(KeyAt(m, s))].x
MapSet(m, s, v) == IF KeyAt(m, s) = {} THEN Append(m, [key |-> s, x |-> v])
                   ELSE [m EXCEPT ![Min(KeyAt(m, s))].x = v]

\* What is called s in a struct or map, NilVal if nothing is.
Member(e, v, s) ==
    CASE v.k = "struct" /\ s \in DOMAIN Content(e, v).fields -> Content(e, v).fields[s]
      [] v.k = "map" -> MapGet(Content(e, v), StrVal(<<s>>))
      [] OTHER -> NilVal

\* A value that is emitted goes to the block being filled, or to the top level.
EmitValue(e, v) ==
    CASE v.k \in {"nil", "none"} -> e
      [] v.k \notin {"nil", "none"} /\ e.coll.on ->
             [e EXCEPT !.coll.xs = Append(@, v), !.emits = @ + 1]
      [] OTHER -> [e EXCEPT !.exprs = Append(@, v), !.emits = @ + 1]

\* Gives the condition for what a Go bool is wanted for.
IsTrue(v) == v.k = "bool" /\ v.b
AsBool(e) == Noted(e, e.v.k # "bool", "not bool")

-----------------------------------------------------------------------------
(***************************************************************************)
(* What operators compute of values.                                       *)
(***************************************************************************)
Equal(a, b) ==
    CASE a.k # b.k -> FALSE
      [] a.k = b.k /\ a.k = "string" -> a.s = b.s
      [] a.k = b.k /\ a.k = "int"    -> a.n = b.n
      [] a.k = b.k /\ a.k = "bool"   -> a.b = b.b
      [] OTHER                       -> a.k = "none"

IsIn(e, a, b) ==
    CASE b.k = "list" -> \E i \in DOMAIN Content(e, b) : Equal(a, Content(e, b)[i])
      [] b.k = "map"  -> a.k = "string" /\ KeyAt(Content(e, b), a) # {}
      [] OTHER        -> FALSE

Abs(n) == IF n < 0 THEN - n ELSE n
\* Division rounds towards zero.
Quotient(a, b) == IF (a < 0) = (b < 0) THEN Abs(a) \div Abs(b) ELSE - (Abs(a) \div Abs(b))

Arithmetic(op, a, b) ==
    CASE op = "-" -> a - b
      [] op = "*" -> a * b
      [] op = "/" -> Quotient(a, b)
      [] op = "%" -> a - b * Quotient(a, b)

\* What are no numbers compare as equal.
Compare(op, a, b) ==
    LET d == IF a.k = "int" /\ b.k = "int" THEN a.n - b.n ELSE 0
    IN CASE op = "<"  -> d < 0
         [] op = ">"  -> d > 0
         [] op = "<=" -> d <= 0
         [] op = ">=" -> d >= 0

Sum_(e, a, b) ==
    CASE a.k = "string" /\ b.k = "string" -> Val(e, StrVal(a.s \o b.s))
      [] a.k = "int" /\ b.k = "int"       -> Val(e, IntVal(a.n + b.n))
      [] a.k = "list" /\ b.k = "list"     -> Alloc(e, "list", Content(e, a) \o Content(e, b))
      [] OTHER                            -> Val(e, NoneVal)

\* Both sides are evaluated; && and || only look at the right one if they must.
Binary(e, op, a, b) ==
    LET stops == IsTrue(a) = (op = "||")
        left  == AsBool(Val(e, a))
    IN CASE op = "+"  -> Sum_(e, a, b)
         [] op \in {"/", "%"} /\ b = IntVal(0) -> Fail(e, "zero")
         [] op \in {"-", "*", "/", "%"} /\ b # IntVal(0) ->
                Val(e, IF a.k = "int" /\ b.k = "int" THEN IntVal(Arithmetic(op, a.n, b.n)) ELSE NoneVal)
         [] op = "==" -> Val(e, BoolVal(Equal(a, b)))
         [] op = "!=" -> Val(e, BoolVal(~ Equal(a, b)))
         [] op = "in" -> Val(e, BoolVal(IsIn(e, a, b)))
         [] op \in {"&&", "||"} ->
                Val(IF stops THEN left ELSE AsBool(Val(left, b)),
                    BoolVal(IF stops THEN IsTrue(a) ELSE IsTrue(b)))
         [] OTHER     -> Val(e, BoolVal(Compare(op, a, b)))

\* A part of a string.
Shown(v) ==
    CASE v.k = "string" -> v.s
      [] v.k = "int"    -> <<ToString(v.n)>>
      [] v.k = "bool"   -> <<ToString(v.b)>>
      [] OTHER          -> <<v.k>>

-----------------------------------------------------------------------------
(***************************************************************************)
(* Functions and blocks.                                                   *)
(***************************************************************************)
RECURSIVE EvalExpr(_, _), EvalStmt(_, _), Call(_, _, _, _)

\* The values of the parts, in vs.
EvalAll(e, xs) ==
    LET One(a, x) == LET d == EvalExpr(a.e, x) IN [e |-> d, vs |-> Append(a.vs, d.v)]
    IN Fold(One, [e |-> e, vs |-> <<>>], xs)

\* The statements up to one that returns, or all of them.
EvalBlock(e, body) ==
    Fold(LAMBDA d, s : IF IsNil(d.ret) THEN EvalStmt(d, s) ELSE d, e, body)
EvalStmts(e, body) == Fold(EvalStmt, e, body)

\* The last of the parts called s.
LastNamed(xs, s) == Max({i \in DOMAIN xs : xs[i].s = s})
ByName(xs, vs) == [s \in {xs[i].s : i \in DOMAIN xs} \ {""} |-> vs[LastNamed(xs, s)]]

\* What a body emits is collected for its block alone: e is the evaluator before
\* the block b is filled, in the one at the end of the body.
Collecting(e) == Enter([e EXCEPT !.coll = [on |-> TRUE, xs |-> <<>>]], e.env)

BugCollectorKept(e, in, b) ==
    Val([in EXCEPT !.env = e.env, !.gathered = @ + Len(in.coll.xs)],
        [k |-> "block result", s |-> b.s, fields |-> b.fields, body |-> in.coll.xs])
FillBlock(e, in, b) ==
    Val([in EXCEPT !.env = e.env, !.coll = e.coll, !.gathered = @ + Len(in.coll.xs)],
        [k |-> "block result", s |-> b.s, fields |-> b.fields, body |-> in.coll.xs])

EvalFill(e, x) ==
    LET b == EvalExpr(e, x.x)
    IN IF b.v.k = "block" THEN FillBlock(b, EvalBlock(Collecting(b), x.body), b.v)
       ELSE Fail(b, "not a block")

\* Fills in the defaults of what xs declares and the fields leave out.
WithDefaults(e, xs, fields) ==
    LET Add(a, f) ==
            LET d == EvalExpr(a.e, f.x)
            IN IF f.s \in DOMAIN a.fields \/ IsNil(f.x) THEN a
               ELSE [e |-> d, fields |-> (f.s :> d.v) @@ a.fields]
    IN Fold(Add, [e |-> e, fields |-> fields], xs)

DeclDefaults(e, fv, fields) ==
    LET a == WithDefaults([e EXCEPT !.env = fv.scope], fv.params, fields)
    IN [a EXCEPT !.e.env = e.env]

\* The numbers below n, and the items of a list without those equal to one
\* before.
CallRange(e, x) ==
    LET n == IF x.k = "int" THEN x.n ELSE 0
    IN IF n < 0 THEN Panic(e, "range") ELSE Alloc(e, "list", [i \in 1 .. n |-> IntVal(i - 1)])

CallUnique(e, x) ==
    LET Add(out, v) == IF \E i \in DOMAIN out : Equal(out[i], v) THEN out ELSE Append(out, v)
    IN Alloc(e, "list", IF x.k = "list" THEN Fold(Add, <<>>, Content(e, x)) ELSE <<>>)

\* A func or decl of the library without a body.
CallStub(e, fv, pos, kw) ==
    LET given == [s \in {fv.params[i].s : i \in 1 .. Min({Len(pos), Len(fv.params)})} \cup
                        (DOMAIN kw \cap {fv.params[i].s : i \in DOMAIN fv.params}) |->
                      IF s \in DOMAIN kw THEN kw[s] ELSE pos[LastNamed(fv.params, s)]]
        all  == DeclDefaults(e, fv, given)
        Arg(s) == IF s \in DOMAIN kw THEN kw[s] ELSE IF pos = <<>> THEN NoneVal ELSE pos[1]
    IN CASE fv.s = "range"  -> CallRange(e, Arg("n"))
         [] fv.s = "unique" -> CallUnique(e, Arg("items"))
         [] OTHER ->
              IF fv.how = "block" THEN Val(all.e, [k |-> "block", s |-> fv.s, fields |-> all.fields])
              ELSE Alloc(all.e, "struct", [s |-> fv.s, ret |-> fv.ret, fields |-> all.fields])

\* The parameters, in the environment of the call: what is given, the default,
\* none.
Bound(e, fv, pos, kw) ==
    LET Put(d, i) ==
            LET s == fv.params[i].s
                v == EvalExpr(d, fv.params[i].x)
            IN CASE s \in DOMAIN kw -> Set_(d, d.env, s, kw[s])
                 [] s \notin DOMAIN kw /\ i <= Len(pos) -> Set_(d, d.env, s, pos[i])
                 [] OTHER -> Set_(v, v.env, s, v.v)
    IN Fold(Put, e, [i \in DOMAIN fv.params |-> i])

\* A func without a body is there to be called all the same.
Call(e, fv, pos, kw) ==
    LET in  == Bound([Enter(e, fv.scope) EXCEPT !.depth = @ + 1], fv, pos, kw)
        run == EvalBlock([in EXCEPT !.ret = NilVal], fv.body)
    IN CASE fv.how \in {"stub", "block"} -> CallStub(e, fv, pos, kw)
         [] fv.how \in {"decl", "void"}  -> Val(e, NoneVal)
         [] fv.how = "nil"               -> Panic(e, "no body")
         [] OTHER ->
              IF e.depth = MaxCalls THEN Panic(e, "stack")
              ELSE [run EXCEPT !.ret = NilVal, !.env = e.env, !.depth = e.depth,
                               !.fell = @ \/ IsNil(run.ret),
                               !.v = IF IsNil(run.ret) THEN NoneVal ELSE run.ret]

\* The callee of x.f(...), where the checker found f(x, ...).
UfcsFunc(e, mod, name) ==
    LET m == Get(e, e.env, mod)
        f == CASE mod = "" -> Get(e, e.env, name)
               [] mod # "" /\ m.k = "map" -> MapGet(Content(e, m), StrVal(<<name>>))
               [] OTHER -> NilVal
    IN Val(e, f)

BugReceiverLast(e, x) ==
    LET ufcs == x.at \in DOMAIN e.ufcs
        recv == EvalExpr(e, x.x.x)
        fn   == IF ufcs THEN UfcsFunc(recv, e.ufcs[x.at], x.x.s) ELSE EvalExpr(e, x.x)
        args == EvalAll(fn, [i \in DOMAIN x.args |-> x.args[i].x])
        pos  == SelectSeq([i \in DOMAIN x.args |-> [s |-> x.args[i].s, v |-> args.vs[i]]],
                          LAMBDA a : a.s = "")
        last == IF ufcs THEN <<recv.v>> ELSE <<>>
    IN IF fn.v.k # "func" THEN Fail(fn, "cannot call")
       ELSE Call(args.e, fn.v, [i \in DOMAIN pos |-> pos[i].v] \o last, ByName(x.args, args.vs))

\* The receiver of x.f(...) goes before the positional arguments.
EvalCall(e, x) ==
    LET ufcs == x.at \in DOMAIN e.ufcs
        recv == EvalExpr(e, x.x.x)
        fn   == IF ufcs THEN UfcsFunc(recv, e.ufcs[x.at], x.x.s) ELSE EvalExpr(e, x.x)
        args == EvalAll(fn, [i \in DOMAIN x.args |-> x.args[i].x])
        pos  == SelectSeq([i \in DOMAIN x.args |-> [s |-> x.args[i].s, v |-> args.vs[i]]],
                          LAMBDA a : a.s = "")
        lead == IF ufcs THEN <<recv.v>> ELSE <<>>
    IN IF fn.v.k # "func" THEN Fail(fn, "cannot call")
       ELSE Call(args.e, fn.v, lead \o [i \in DOMAIN pos |-> pos[i].v], ByName(x.args, args.vs))

-----------------------------------------------------------------------------
(***************************************************************************)
(* Expressions.                                                            *)
(***************************************************************************)

\* A decl of the file in the place where it is used: self and its parameters
\* are the fields, and what it returns is emitted.
ExpandUserStep(e, fv, fields) ==
    LET self == Alloc(e, "struct", [s |-> "self", ret |-> "", fields |-> fields])
        in   == Enter(self, e.env)
        given == {fv.params[i].s : i \in DOMAIN fv.params} \cap DOMAIN fields
        vars == [s \in given |-> fields[s]] @@ ("self" :> self.v)
        run  == EvalBlock([in EXCEPT !.envs[in.env].vars = vars, !.ret = NilVal], fv.body)
        out  == EmitValue(run, run.ret)
    IN IF fv.how # "decl" THEN Alloc(e, "struct", [s |-> fv.s, ret |-> "", fields |-> fields])
       ELSE [out EXCEPT !.env = e.env, !.ret = e.ret, !.v = NoneVal]

Returned(e, name) == IF name \in DOMAIN e.returns THEN e.returns[name] ELSE ""
DefaultsOf(e, name) ==
    CASE <<Last(name)>> \in DOMAIN e.defaults -> e.defaults[<<Last(name)>>]
      [] <<Last(name)>> \notin DOMAIN e.defaults /\ name \in DOMAIN e.defaults -> e.defaults[name]
      [] OTHER -> <<>>

\* A literal of a type, the call of a decl, or the fill of a block by its name.
EvalStructLit(e, x) ==
    LET inits  == EvalAll(e, [i \in DOMAIN x.fields |-> x.fields[i].x])
        given  == ByName(x.fields, inits.vs)
        d      == inits.e
        name   == IF x.t = <<>> THEN <<"">> ELSE SubSeq(x.t, 1, Min({2, Len(x.t)}))
        local  == Get(d, d.env, Last(name))
        mod    == Get(d, d.env, name[1])
        member == IF Len(name) = 2 /\ mod.k = "map" THEN MapGet(Content(d, mod), StrVal(<<name[2]>>))
                  ELSE NilVal
        filled == IF member.k = "func" THEN DeclDefaults(d, member, given)
                  ELSE [e |-> d, fields |-> given]
        whole  == WithDefaults(filled.e, DefaultsOf(d, name), filled.fields)
    IN CASE local.k = "func" -> ExpandUserStep(d, local, given)
         [] local.k = "block" /\ Returned(d, name) = "" /\ x.body # <<>> ->
                FillBlock(d, EvalStmts(Collecting(d), x.body), local)
         [] OTHER -> Alloc(whole.e, "struct", [s |-> Last(name), ret |-> Returned(d, name),
                                               fields |-> whole.fields])

EvalSelector(e, x) ==
    LET d == EvalExpr(e, x.x)
        v == Member(d, d.v, x.s)
    IN IF IsNil(v) THEN Fail(d, "cannot access") ELSE Val(d, v)

\* Outside a list, or for what is not there, the value is none.
EvalIndex(e, x) ==
    LET d == EvalAll(e, <<x.x, x.y>>)
        v == d.vs[1]
        i == d.vs[2]
        c == Content(d.e, v)
        found == CASE v.k = "list" /\ i.k = "int" /\ i.n < Len(c) -> c[i.n + 1]
                   [] v.k = "map" /\ i.k = "string" -> MapGet(c, i)
                   [] v.k = "struct" /\ i.k = "string" -> Member(d.e, v, i.s[1])
                   [] OTHER -> NilVal
    IN IF v.k = "list" /\ i.k = "int" /\ i.n < 0 THEN Panic(d.e, "index")
       ELSE Val(d.e, IF IsNil(found) THEN NoneVal ELSE found)

EvalUnary(e, x) ==
    LET d == EvalExpr(e, x.x)
    IN CASE x.op = "!" -> Val(AsBool(d), BoolVal(~ IsTrue(d.v)))
         [] x.op = "-" /\ d.v.k = "int" -> Val(d, IntVal(- d.v.n))
         [] OTHER -> Val(d, NoneVal)

EvalIfExpr(e, x) ==
    LET c == EvalExpr(e, x.c) IN EvalExpr(AsBool(c), IF IsTrue(c.v) THEN x.a ELSE x.b)

\* An item in an environment of its own; of what is no list there is none.
EvalListComp(e, x) ==
    LET iter  == EvalExpr(e, x.iter)
        items == IF iter.v.k = "list" THEN Content(iter, iter.v) ELSE <<>>
        Item(a, v) ==
            LET in   == Enter(a.e, e.env)
                cond == EvalExpr(Set_(in, in.env, x.v.s, v), IF IsNil(x.c) THEN [k |-> "true"] ELSE x.c)
                d    == EvalExpr(AsBool(cond), x.x)
            IN IF IsTrue(cond.v) THEN [e |-> [d EXCEPT !.env = e.env], vs |-> Append(a.vs, d.v)]
               ELSE [a EXCEPT !.e = [AsBool(cond) EXCEPT !.env = e.env]]
        all == Fold(Item, [e |-> iter, vs |-> <<>>], items)
    IN Alloc(all.e, "list", all.vs)

EvalMap(e, x) ==
    LET all == EvalAll(e, FlattenSeq([i \in DOMAIN x.es |-> <<x.es[i].key, x.es[i].x>>]))
    IN Alloc(all.e, "map", [i \in DOMAIN x.es |-> [key |-> all.vs[2 * i - 1], x |-> all.vs[2 * i]]])

\* Once a program is gone nothing is evaluated.
EvalExpr(e, x) ==
    LET all == EvalAll(e, x.xs)
        sides == EvalAll(e, <<x.l, x.r>>)
        found == Get(e, e.env, x.s)
    IN CASE e.died # ""       -> e
         [] e.died = "" /\ x.k = "nil" -> Val(e, NoneVal)
         [] e.died = "" /\ x.k # "nil" ->
              CASE x.k = "paren"  -> EvalExpr(e, x.x)
                [] x.k = "int"    -> Val(e, IntVal(CHOOSE n \in 0 .. 9 : ToString(n) = x.s))
                [] x.k = "true"   -> Val(e, BoolVal(TRUE))
                [] x.k = "false"  -> Val(e, BoolVal(FALSE))
                [] x.k = "none"   -> Val(e, NoneVal)
                [] x.k = "self"   -> Val(e, Get(e, e.env, "self"))
                [] x.k = "str"    -> Val(e, StrVal(<<Leaf(x.s)>>))
                [] x.k = "interp" -> Val(all.e, StrVal(FlattenSeq([i \in DOMAIN all.vs |-> Shown(all.vs[i])])))
                [] x.k = "id"     -> IF IsNil(found) THEN Fail(e, "undefined") ELSE Val(e, found)
                [] x.k = "sel"    -> EvalSelector(e, x)
                [] x.k = "fill"   -> EvalFill(e, x)
                [] x.k = "call"   -> EvalCall(e, x)
                [] x.k = "struct" -> EvalStructLit(e, x)
                [] x.k = "list"   -> Alloc(all.e, "list", all.vs)
                [] x.k = "map"    -> EvalMap(e, x)
                [] x.k = "index"  -> EvalIndex(e, x)
                [] x.k = "bin"    -> Binary(sides.e, x.op, sides.vs[1], sides.vs[2])
                [] x.k = "un"     -> EvalUnary(e, x)
                [] x.k = "ifx"    -> EvalIfExpr(e, x)
                [] x.k = "comp"   -> EvalListComp(e, x)

-----------------------------------------------------------------------------
(***************************************************************************)
(* Statements.                                                             *)
(***************************************************************************)
EvalLet(e, s) == LET d == EvalExpr(e, s.x) IN Set_(d, d.env, s.s, d.v)

EvalInside(e, body) == [EvalBlock(Enter(e, e.env), body) EXCEPT !.env = e.env]

EvalFor(e, s) ==
    LET iter == EvalExpr(e, s.iter)
        Item(d, i) ==
            LET in  == Enter(d, e.env)
                run == EvalBlock(Set_(in, in.env, s.s, Content(d, iter.v)[i]), s.body)
            IN IF IsNil(d.ret) THEN [run EXCEPT !.env = e.env] ELSE d
    IN IF iter.v.k # "list" THEN Fail(iter, "not a list")
       ELSE Fold(Item, iter, [i \in DOMAIN Content(iter, iter.v) |-> i])

EvalIf(e, s) ==
    LET c == EvalExpr(e, s.c) IN EvalInside(AsBool(c), IF IsTrue(c.v) THEN s.a ELSE s.b)

\* Where there is nothing to put the value into, nothing is done.
Store(e, v, s, x) ==
    LET c == Content(e, v)
        Put(content) == [e EXCEPT !.heap[v.r] = content]
    IN CASE v.k = "map" /\ s.k = "string" -> Put(MapSet(c, s, x))
         [] v.k = "list" /\ s.k = "int" /\ s.n < Len(c) ->
                IF s.n < 0 THEN Panic(e, "index") ELSE Put([c EXCEPT ![s.n + 1] = x])
         [] OTHER -> e

StoreMember(e, v, s, x) ==
    CASE v.k = "struct" -> [e EXCEPT !.heap[v.r].fields = (s :> x) @@ @]
      [] v.k = "map"    -> Store(e, v, StrVal(<<s>>), x)
      [] OTHER          -> e

EvalAssign(e, s) ==
    LET x == EvalExpr(e, s.y)
        d == EvalExpr(x, s.x.x)
        key == EvalExpr(d, s.x.y)
    IN IF s.x.k = "index" THEN Store(key, d.v, key.v, x.v) ELSE StoreMember(d, d.v, s.x.s, x.v)

EvalReturn(e, s) == LET d == EvalExpr(e, s.x) IN [d EXCEPT !.ret = d.v]

EvalStmt(e, s) ==
    LET x == EvalExpr(e, s.x)
    IN CASE e.died # "" -> e
         [] e.died = "" /\ s.k = "expr" -> EmitValue(x, x.v)
         [] e.died = "" /\ s.k # "expr" ->
              CASE s.k = "let"    -> EvalLet(e, s)
                [] s.k = "for"    -> EvalFor(e, s)
                [] s.k = "if"     -> EvalIf(e, s)
                [] s.k = "return" -> EvalReturn(e, s)
                [] s.k = "assign" -> EvalAssign(e, s)

-----------------------------------------------------------------------------
(***************************************************************************)
(* A file: the library, then the declarations, then the lets and the       *)
(* statements in their order.                                              *)
(***************************************************************************)
LeafName(t) == IF t.k = "named" THEN Last(t.s) ELSE ""
\* A struct type is known to the evaluator for the defaults of its fields.
HasDefaults(d) == d.k = "type" /\ \E i \in DOMAIN d.xs : ~ IsNil(d.xs[i].x)
Functions_(f) == SelectSeq(f.items, LAMBDA d : d.k \in {"func", "decl"})

\* How a function of the library is called.
StubKind(d) ==
    CASE d.k = "func" /\ d.t.k = "generic" -> IF d.t.s = "block" THEN "block" ELSE "stub"
      [] LeafName(d.t) # ""                -> "stub"
      [] OTHER                             -> "void"
FuncVal(d, how, ret, scope) ==
    [k |-> "func", s |-> d.s[1], how |-> how, ret |-> ret, params |-> d.xs, body |-> d.body,
     scope |-> scope]

\* An enum is a map of its variants, a module one of its enums and functions,
\* and these see one another by their bare names.
RegisterModule(e, m) ==
    LET f     == Stubs[m]
        fns   == Functions_(f)
        scope == Len(e.envs) + 1
        Enum_(a, d) ==
            LET made == Alloc(a.e, "map", [i \in DOMAIN d.xs |-> [key |-> StrVal(<<d.xs[i]>>),
                                                                  x |-> StrVal(<<d.xs[i]>>)]])
            IN [e |-> made, es |-> Append(a.es, [key |-> StrVal(<<d.s>>), x |-> made.v])]
        enums == Fold(Enum_, [e |-> e, es |-> <<>>],
                          SelectSeq(f.items, LAMBDA d : d.k = "enum"))
        es    == enums.es \o [i \in DOMAIN fns |->
                     [key |-> StrVal(fns[i].s),
                      x |-> FuncVal(fns[i], StubKind(fns[i]), LeafName(fns[i].t), scope)]]
        made  == Alloc(enums.e, "map", es)
        types == {i \in DOMAIN f.items : HasDefaults(f.items[i])}
    IN [Set_(made, 1, m, made.v) EXCEPT
            !.envs = Append(@, [up |-> 1, vars |-> [s \in {es[i].key.s[1] : i \in DOMAIN es} |->
                                                       MapGet(es, StrVal(<<s>>))]]),
            !.returns = [q \in {<<m, fns[i].s[1]>> : i \in DOMAIN fns} |->
                            LeafName(fns[CHOOSE i \in DOMAIN fns : fns[i].s[1] = q[2]].t)] @@ @,
            !.defaults = [q \in {<<m, f.items[i].s>> : i \in types} |->
                             f.items[CHOOSE i \in types : f.items[i].s = q[2]].xs] @@ @]

Declare(e, d) ==
    CASE d.k = "func" -> Set_(e, 1, d.s[1], FuncVal(d, IF d.stub THEN "nil" ELSE "func", "", 1))
      [] d.k = "decl" /\ ~ d.stub -> Set_(e, 1, d.s[1], FuncVal(d, "decl", "", 1))
      [] HasDefaults(d) -> [e EXCEPT !.defaults = (<<d.s>> :> d.xs) @@ @]
      [] OTHER          -> e

\* c is what the checker found: it tells the calls of the form x.f(...).
EvalFile(c, f) ==
    LET start == Fold(RegisterModule, [Evaluator EXCEPT !.ufcs = c.ufcs],
                          SetToSeq(DOMAIN Stubs))
        known == Fold(Declare, start, f.items)
        Item(e, d) == IF d.k \in Decls \ {"let"} THEN e ELSE EvalStmt(e, d)
    IN Fold(Item, known, f.items)
=============================================================================
