----------------------------- MODULE MCStartup ------------------------------
(***************************************************************************)
(* Inputs that differ from a sound one in one respect each: the shape of a *)
(* downstream, the names of two, the tokens, the key, the rules, and what  *)
(* `check` is asked.  Two commands list a tool of the same name, and one a *)
(* tool named `os` whose schema no validator can be built from.            *)
(***************************************************************************)
EXTENDS Startup

MCRank == [x \in {"a", "amount", "b", "balance", "decimal", "end", "from", "get-x",
                  "market", "memo", "os", "price", "to", "wallet"} |->
             CASE x = "a" -> 1 [] x = "amount" -> 2 [] x = "b" -> 3 [] x = "balance" -> 4
               [] x = "decimal" -> 5 [] x = "end" -> 6 [] x = "from" -> 7 [] x = "get-x" -> 8
               [] x = "market" -> 9 [] x = "memo" -> 10 [] x = "os" -> 11 [] x = "price" -> 12
               [] x = "to" -> 13 [] x = "wallet" -> 14]

Empty   == [x \in {} |-> ""]
NoArgs  == [builds |-> TRUE, properties |-> Empty, required |-> {}]
Balance == [name |-> <<"balance">>, input |-> NoArgs,
            output |-> [builds |-> TRUE, properties |-> [amount |-> "integer"],
                       required |-> {"amount"}]]
Price   == [name |-> <<"price">>,
            input |-> [builds |-> TRUE, properties |-> [a |-> "number", b |-> "boolean"],
                       required |-> {"a"}],
            output |-> [builds |-> TRUE, properties |-> [price |-> "number", a |-> "array"],
                        required |-> {}]]
Pay     == [name |-> <<"a">>,
            input |-> [builds |-> TRUE,
                       properties |-> [to |-> "string", amount |-> "integer", memo |-> NoType],
                       required |-> {"to", "amount"}],
            output |-> NoType]
Dotted  == [name |-> <<"a", "b">>, input |-> NoArgs, output |-> NoType]
Os      == [name |-> <<"os">>,
            input |-> [builds |-> FALSE, properties |-> [a |-> "integer"], required |-> {"a"}],
            output |-> NoType]
BadTool == [name |-> <<"get-x">>, input |-> NoArgs, output |-> NoType]

MCListings(target) ==
  IF target = "m" THEN {<<Balance, Price>>, <<Price, Balance>>, <<Balance, BadTool>>, <<Os, Price>>}
  ELSE {<<Balance, Pay>>, <<Pay, Balance>>, <<Dotted>>}

Env(var) == [scheme |-> "env", var |-> var]
Stdio(name) == [name |-> name, transport |-> "stdio", command |-> "m", url |-> NONE,
                credential |-> NONE]
Http(name)  == [name |-> name, transport |-> "http", command |-> NONE, url |-> "w",
                credential |-> Env("WKEY")]
Names == {<<"market">>, <<"wallet">>, <<"end">>, <<"os">>, <<"decimal">>, <<"get-x">>,
          <<"a", "b">>, <<"a">>}

\* Alice may call what wallet and market have, bob what most servers have, and
\* dave, who has no token, what a server of an unfit name has.
AllowOf(p) ==
  {n \o t : n \in (CASE p = "alice" -> {<<"market">>, <<"wallet">>}
                     [] p = "bob" -> Names \ {<<"end">>, <<"a", "b">>}
                     [] OTHER -> {<<"end">>}),
            t \in {<<"balance">>, <<"price">>, <<"a">>, <<"os">>}}

Sound ==
  [command |-> "serve", principal |-> "alice", program |-> [fault |-> 0, verifies |-> TRUE],
   config |-> [readable |-> TRUE, signing_key |-> Env("SKEY"),
               principals |-> [alice |-> Env("TA"), bob |-> Env("TB")],
               downstream |-> <<Stdio(<<"market">>), Http(<<"wallet">>)>>],
   policy |-> [readable |-> TRUE, allow |-> [p \in {"alice", "bob", "dave"} |-> AllowOf(p)],
               constraints |-> [tool \in {<<"wallet", "a">>} |->
                                  {[arg |-> "amount", suffix |-> "_max"]}]],
   env |-> [PATH |-> "p", HOME |-> NONE, SKEY |-> "seed", WKEY |-> "w", TA |-> "x", TB |-> "y"]]

Shapes ==
  {[Sound EXCEPT !.config.downstream = <<d>>] :
     d \in [name : {<<"market">>}, transport : {"stdio", "http", "other"},
            command : {NONE, "", "m"}, url : {NONE, "w"},
            credential : {NONE, Env("WKEY"), Env(""), Env("HOME"), [scheme |-> "plain", var |-> "w"]}]}
Namings ==
  {[Sound EXCEPT !.config.downstream = <<Stdio(m), Http(w)>>, !.command = c] :
     m \in Names, w \in Names, c \in {"serve", "check"}}
Tokenings ==
  {[Sound EXCEPT !.env.TA = a, !.env.TB = b, !.config.principals.bob = Env(var), !.command = c] :
     a \in {NONE, "", "x", "y"}, b \in {NONE, "", "x"}, var \in {"TA", "TB"},
     c \in {"serve", "check"}}
Keys ==
  {[Sound EXCEPT !.env.SKEY = v] : v \in {NONE, "short"}}
    \cup {[Sound EXCEPT !.config.signing_key = [scheme |-> "plain", var |-> "seed"]],
          [Sound EXCEPT !.config.readable = FALSE], [Sound EXCEPT !.policy.readable = FALSE]}
Rules ==
  {[Sound EXCEPT !.policy.constraints = [tool \in {<<"wallet", "a">>} |-> {key}]] :
     key \in [arg : {"", "amount"}, suffix : {"_max", "_min"}]}
Checks ==
  {[Sound EXCEPT !.command = "check", !.principal = p, !.program = prog,
                 !.config.downstream[1].name = n] :
     p \in {"alice", "dave", "eve"}, n \in {<<"market">>, <<"end">>},
     prog \in {NONE} \cup [fault : {0, 2}, verifies : BOOLEAN]}

MCInputs == Shapes \cup Namings \cup Tokenings \cup Keys \cup Rules \cup Checks
=============================================================================
