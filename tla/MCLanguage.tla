------------------------------ MODULE MCLanguage -------------------------------
(***************************************************************************)
(* Small files for TLC: in each context a few phrases around one part of   *)
(* the language, in every order.                                           *)
(***************************************************************************)
EXTENDS Language

\* A library module like std: opaque types, an enum, functions, a step.
StdLines ==
    <<<<"pub", "type", "Step">>,
      <<"pub", "type", "Deploy">>,
      <<"pub", "enum", "Mode", "{", "low", ",", "high", "}">>,
      <<"pub", "func", "range", "(", "n", ":", "int", ")", "list", "[", "int",
        "]">>,
      <<"pub", "func", "unique", "(", "items", ":", "list", "[", "any", "]", ")",
        "list", "[", "any", "]">>,
      <<"pub", "func", "deploy", "(", "name", ":", "string", ")", "block", "[",
        "Deploy", "]">>,
      <<"pub", "decl", "dir", "(", "a", ":", "int", ",", "mode", ":", "Mode", "=",
        "Mode", ".", "low", ")", "Step">>>>

\* Another one, with a struct and with a function that std has too.
NetLines ==
    <<<<"pub", "type", "Box", "{", "a", ":", "int", ",", "b", ":", "int", "=",
        "1", "}">>,
      <<"pub", "func", "unique", "(", "items", ":", "list", "[", "any", "]", ")",
        "list", "[", "any", "]">>>>

Module(name, lines) ==
    [module |-> [k |-> "id", s |-> name], imports |-> <<>>,
     items |-> FlattenSeq([i \in DOMAIN lines |-> Parse(Lex(<<"module", name, "nl">> \o lines[i])).n.items])]

MCStubs == ("std" :> Module("std", StdLines)) @@ ("net" :> Module("net", NetLines))
MCModules == [m \in {"std", "net"} |-> PublicView(Check(MCStubs[m]))]

\* Operators and parentheses, over the ends of lines.
ArithmeticCtx ==
    [pre |-> <<"module", "main", "nl", "let", "x", "=">>,
     post |-> <<"1", "nl", "x", "nl">>,
     phrases |-> {<<"1", "+">>,
                 <<"2", "*">>,
                 <<"3", "-">>,
                 <<"(", "1", "==">>,
                 <<"2", ")", "+">>,
                 <<"-">>,
                 <<"nl">>},
     max |-> 4]

\* Calls and lists in one line or in several, with attributes and named arguments.
LayoutCtx ==
    [pre |-> <<"module", "main", "nl", "func", "f", "(", "@", "q", "a", ":", "list",
             "[", "int", "]", ",", "b", ":", "int", "=", "1", ")", "int", "{",
             "return", "b", "}", "nl", "let", "x", "=", "f", "(">>,
     post |-> <<")", "nl">>,
     phrases |-> {<<"[", "1", ",">>,
                 <<"2", "]">>,
                 <<"b", "=", "3">>,
                 <<",">>,
                 <<"nl">>},
     max |-> 5]

\* The ways through a func.
PathsCtx ==
    [pre |-> <<"module", "main", "nl", "func", "f", "(", "a", ":", "bool", ",", "b",
             ":", "bool", ")", "int", "{", "nl", "if", "a", "{", "nl">>,
     post |-> <<"}", "nl", "let", "y", "=", "f", "(", "true", ",", "false", ")",
              "nl", "let", "z", "=", "f", "(", "false", ",", "true", ")", "nl">>,
     phrases |-> {<<"if", "b", "{", "nl">>,
                 <<"return", "1", "nl">>,
                 <<"}", "else", "{", "nl">>,
                 <<"}", "nl">>},
     max |-> 5]

\* Lets whose values and types go together or not.
TypesCtx ==
    [pre |-> <<"module", "main", "nl", "import", "'net'", "nl", "func", "f", "(",
             "a", ":", "int", ")", "list", "[", "int", "]", "{", "return", "[", "a",
             "]", "}", "nl", "let", "x", "=", "1", "nl", "let", "xs", "=", "f", "(", "x", ")", "nl">>,
     post |-> <<>>,
     phrases |-> {<<"let", "y", ":", "int", "=", "x", "nl">>,
                 <<"let", "o", ":", "int", "?", "=", "none", "nl",
                   "let", "y", ":", "int", "=", "o", "nl">>,
                 <<"let", "y", "=", "xs", "[", "0", "]", "+", "x", "nl">>,
                 <<"let", "p", ":", "int", "?", "=", "x", "nl">>,
                 <<"let", "b", "=", "net", ".", "Box", "{", "a", "=", "x", "}",
                  "nl", "let", "c", "=", "b", ".", "b", "==", "x", "&&", "b", ".",
                  "a", "<", "2", "nl">>,
                 <<"let", "b", "=", "net", ".", "Box", "{", "b", "=", "x", "}",
                  "nl">>,
                 <<"let", "m", "=", "{", "'a'", ":", "x", ",", "'b'", ":", "xs",
                  "}", "nl", "let", "n", "=", "m", "[", "'b'", "]", "==", "none",
                  "nl">>,
                 <<"let", "w", "=", "[", "xs", ",", "[", "'a'", "]", "]", "nl">>,
                 <<"let", "z", "=", "x", "/", "(", "x", "-", "1", ")", "nl">>,
                 <<"let", "z", "=", "!", "x", "nl">>,
                 <<"import", "'std'", "nl">>},
     max |-> 3]

\* Steps emitted at the top, in blocks and in loops.
BlocksCtx ==
    [pre |-> <<"module", "main", "nl", "import", "'std'", "nl", "let", "d", "=",
             "std", ".", "deploy", "(", "'a'", ")", "nl", "d", "{", "nl">>,
     post |-> <<"}", "nl", "std", ".", "dir", "{", "a", "=", "3", "}", "nl">>,
     phrases |-> {<<"std", ".", "deploy", "(", "name", "=", "'b'", ")", "{", "nl">>,
                 <<"}", "nl">>,
                 <<"d", "{", "nl">>,
                 <<"for", "i", "in", "std", ".", "range", "(", "2", ")", "{",
                  "nl">>,
                 <<"std", ".", "dir", "{", "a", "=", "1", ",", "mode", "=", "std",
                  ".", "Mode", ".", "high", "}", "nl">>},
     max |-> 4]

\* A step of the author's own, used at the top, in a block and in a loop.
StepsCtx ==
    [pre |-> <<"import", "'std'", "nl", "decl", "s", "(", "a", ":", "int", ")",
             "std", ".", "Step", "{", "nl", "if", "a", "==", "1", "{", "return",
             "std", ".", "dir", "{", "a", "=", "2", "}", "}", "nl">>,
     post |-> <<"}", "nl", "s", "{", "a", "=", "1", "}", "nl", "s", "{", "a", "=",
              "3", "}", "nl">>,
     phrases |-> {<<"std", ".", "dir", "{", "a", "=", "self", ".", "a", "}", "nl">>,
                 <<"for", "i", "in", "std", ".", "range", "(", "a", ")", "{",
                  "nl">>,
                 <<"return", "std", ".", "dir", "{", "a", "=", "i", "}", "nl">>,
                 <<"}", "nl">>},
     max |-> 4]

\* x.f(y) for functions of the file and of the modules, and for fields.
ReceiversCtx ==
    [pre |-> <<"module", "main", "nl", "import", "'std'", "nl", "type", "T", "{",
             "f", ":", "int", "}", "nl", "func", "f", "(", "a", ":", "int", ",",
             "b", ":", "int", ")", "int", "{", "return", "a", "-", "b", "}", "nl",
             "let", "n", "=", "3", "nl", "let", "t", "=", "T", "{", "f", "=", "2",
             "}", "nl">>,
     post |-> <<>>,
     phrases |-> {<<"import", "'net'", "nl">>,
                 <<"let", "a", "=", "n", ".", "f", "(", "1", ")", "nl">>,
                 <<"let", "b", "=", "n", ".", "f", "(", "b", "=", "2", ")", "nl">>,
                 <<"let", "c", "=", "f", "(", "n", ",", "1", ")", ".", "f", "(",
                  "n", ".", "f", "(", "2", ")", ")", "nl">>,
                 <<"let", "l", "=", "[", "n", ",", "3", "]", ".", "unique", "(",
                  ")", "nl">>,
                 <<"let", "l", "=", "std", ".", "unique", "(", "[", "n", ",", "t",
                  ".", "f", "]", ")", "nl">>,
                 <<"let", "a", "=", "t", ".", "f", "(", "1", ")", "nl">>,
                 <<"[", "a", "for", "a", "in", "[", "n", ",", "1", "]", ".",
                  "unique", "(", ")", "if", "a", ".", "f", "(", "1", ")", "==", "2",
                  "]", "nl">>},
     max |-> 3]

\* A map that a func changes.
ChangesCtx ==
    [pre |-> <<"module", "main", "nl", "func", "f", "(", "m", ":", "map", "[",
             "string", ",", "int", "]", ")", "int", "{", "nl">>,
     post |-> <<"return", "m", "[", "'a'", "]", "nl", "}", "nl", "let", "m", "=",
              "{", "'a'", ":", "1", "}", "nl", "let", "s", "=", "f", "(", "m", ")",
              "-", "f", "(", "m", ")", "nl">>,
     phrases |-> {<<"m", ".", "b", "=", "3", "nl">>,
                 <<"for", "k", "in", "[", "'a'", ",", "'b'", "]", "{", "nl">>,
                 <<"let", "i", "=", "m", "[", "k", "]", "nl">>,
                 <<"m", "[", "k", "]", "=", "2", "*", "m", "[", "k", "]", "nl">>,
                 <<"m", "[", "'a'", "]", "=", "i", "nl">>,
                 <<"if", "'b'", "in", "m", "{", "nl">>,
                 <<"}", "nl">>},
     max |-> 4]

\* Strings with interpolations, with braces in them and over the ends of lines.
StringsCtx ==
    [pre |-> <<"module", "main", "nl", "let", "m", "=", "{", "'a'", ":", "1", "}",
             "nl", "let", "s", "=", "sbeg">>,
     post |-> <<"}", "send", "==", "'a'", "nl">>,
     phrases |-> {<<"m", "[", "'a'", "]">>,
                 <<"{", "'b'", ":">>,
                 <<"2">>,
                 <<"}">>,
                 <<"}", "scont">>,
                 <<"nl">>},
     max |-> 5]

MCContexts ==
    {ArithmeticCtx, LayoutCtx, PathsCtx, TypesCtx, BlocksCtx, StepsCtx,
     ReceiversCtx, ChangesCtx, StringsCtx}

\* A let with an annotation, and a function whose one parameter goes over two
\* lines.
ClaimContexts ==
    {[pre |-> <<"module", "main", "nl", "let", "x", ":", "int", "=", "1", "nl",
                "func", "f", "(", "a", ":", "nl", "int">>,
      post |-> <<")", "int", "{", "return", "1", "}", "nl">>,
      phrases |-> {<<"?">>},
      max |-> 1]}
=============================================================================
