----------------------------- MODULE MCGateway ------------------------------
(***************************************************************************)
(* A small gateway.  Alice may move up to 2 and read a balance; bob's      *)
(* token is configured but the rules list only a tool no downstream has;   *)
(* carol is not in the rules at all.  i64 is -4..3.                        *)
(***************************************************************************)
EXTENDS Gateway

MCAllow  == [alice |-> {"transfer", "balance"}, bob |-> {"vanished"}]
MCBounds == [transfer |-> [amount |-> 2]]
MCDiscovered == {"transfer", "balance", "secret"}

MCTokens == {"ta", "tb", "tc", "stale"}
MCPrincipalFor == [ta |-> "alice", tb |-> "bob", tc |-> "carol"]

\* One call per check it can fail, and those that pass.
transfer(args) == [tool |-> "transfer", args |-> args]
Pay         == transfer([amount |-> 2])
PayOver     == transfer([amount |-> 3])
PayHuge     == transfer([amount |-> 7])
PayText     == transfer([amount |-> NotInteger])
PayNothing  == transfer([to |-> 1])
PayMisfit   == transfer([amount |-> 1, junk |-> 1])
PayBroken   == transfer([amount |-> 0])
ReadBalance == [tool |-> "balance", args |-> [of |-> 1]]
CallSecret  == [tool |-> "secret", args |-> [of |-> 1]]
CallGone    == [tool |-> "vanished", args |-> [of |-> 1]]
MCCalls ==
  {Pay, PayOver, PayHuge, PayText, PayNothing, PayMisfit, PayBroken,
   ReadBalance, CallSecret, CallGone}

MCUnconvertible == {PayBroken}
MCMisfits == {PayMisfit}
MCOversized == {"huge"}

MCValues == {"low", "high"}
MCOutputs == {"fine", "huge"}
MCVmErrors == {"tool_error", "gas_exhausted"}

-----------------------------------------------------------------------------
\* Program texts.  A text is the calls it makes, whether it catches tool errors
\* (pcall), how it ends, whether it stops early on a low balance, and a comment
\* that does not reach the bytecode.
Text(calls, pcall, end, comment) ==
  [calls |-> calls, pcall |-> pcall, end |-> end, comment |-> comment]

Unparsable == Text(<< >>, FALSE, "lint", 0)

MCCode(prelude, text) ==
  IF text.end = "lint" THEN LintError
  ELSE [prelude |-> prelude, calls |-> text.calls, pcall |-> text.pcall,
        end |-> text.end]

\* An uncaught tool error ends the run, and so does a low value unless the
\* program catches errors; otherwise the calls are made one by one.
MCVmNext(code, observed) ==
  LET n == Len(observed) IN
  IF n > 0 /\ ~code.pcall /\ ~observed[n].ok THEN ErrorStep("tool_error")
  ELSE IF n > 0 /\ ~code.pcall /\ observed[n].value = "low" THEN ReturnStep("fine")
  ELSE IF n < Len(code.calls) THEN CallStep(code.calls[n + 1])
  ELSE IF code.end = "gas" THEN ErrorStep("gas_exhausted")
  ELSE ReturnStep(code.end)

\* For one request: every program of up to two calls, and some of three.
CallSequences == {<< >>} \cup {<<c>> : c \in MCCalls} \cup (MCCalls \X MCCalls)
DeepPrograms ==
  {Unparsable}
    \cup {Text(calls, pcall, end, 0) :
            calls \in CallSequences, pcall \in BOOLEAN, end \in {"fine", "huge", "gas"}}
    \cup {Text(<<PayOver, Pay, ReadBalance>>, TRUE, "fine", 0),
          Text(<<Pay, CallSecret, Pay>>, TRUE, "huge", 0),
          Text(<<ReadBalance, Pay, Pay>>, FALSE, "fine", 0)}

\* For concurrent requests: two texts with the same bytecode, and one other.
RacingPrograms ==
  {Unparsable,
   Text(<<Pay>>, FALSE, "fine", 1),
   Text(<<Pay>>, FALSE, "fine", 2),
   Text(<<PayOver>>, TRUE, "huge", 1)}
=============================================================================
