----------------------------- MODULE AgentGuard -----------------------------
(***************************************************************************)
(* The demo agent's stop rules: ExecuteGuard and the loop of `run` in      *)
(* demo/agent/src/demo_agent/agent.py.                                     *)
(*                                                                         *)
(* The model (external) replies with tool calls, which the tool node runs  *)
(* concurrently; `execute` calls take the guard's lock one at a time.  The *)
(* gateway's result is chosen freely, from every shape classify tells      *)
(* apart, because the guard must not rely on the gateway to stop.          *)
(***************************************************************************)
EXTENDS Integers, Sequences, FiniteSets

CONSTANTS
  MaxLintStreak,  \* MAX_LINT_STREAK
  MaxRuns,        \* MAX_RUNS
  MaxModelCalls,  \* MAX_MODEL_CALLS
  MaxCalls        \* bound: tool calls in one reply

ASSUME LimitsArePositive ==
  {MaxLintStreak, MaxRuns, MaxModelCalls, MaxCalls} \subseteq Nat \ {0}

VARIABLES
  phase,       \* "before_model", "model", "tools" or "end"
  stop,        \* report.stop
  lintStreak, successes, modelCalls,
  reply,       \* the tool names of the current reply
  open,        \* the calls of the reply that have not returned
  lock,        \* the call that holds the guard's lock, or 0
  raised,      \* the tool whose call raised out of the tool node, or "none"
  runs         \* report.runs; history: the reply each came from, and whether
               \* its result said for sure that it succeeded or never started

vars == <<phase, stop, lintStreak, successes, modelCalls, reply, open, lock,
          raised, runs>>

Stops == {"RUN_FAILED", "UNEXPECTED", "LINT_ERRORS", "RUN_CAP", "MODEL_CALLS", "ENDED"}
Outcomes == {"OK", "LINT_ERROR", "RUN_FAILED", "UNEXPECTED"}

\* _stop with the last reason.
StoppingAnew(why) == why

\* _stop: the first reason wins.
Stopping(why) == IF stop = "none" THEN why ELSE stop

Init ==
  /\ phase = "before_model"
  /\ stop = "none"
  /\ lintStreak = 0 /\ successes = 0 /\ modelCalls = 0
  /\ reply = << >> /\ open = {} /\ lock = 0
  /\ raised = "none"
  /\ runs = << >>

-----------------------------------------------------------------------------
(* The loop *)

\* BeforeModel that does not count the model calls.
BeforeModelUncounted ==
  /\ phase = "before_model"
  /\ phase' = IF stop # "none" THEN "end" ELSE "model"
  /\ UNCHANGED <<stop, modelCalls, lintStreak, successes, reply, open, lock, raised, runs>>

\* abefore_model: stop at the cap, end the graph once stopped, else ask.
BeforeModel ==
  /\ phase = "before_model"
  /\ stop' = IF modelCalls >= MaxModelCalls THEN Stopping("MODEL_CALLS") ELSE stop
  /\ phase' = IF stop' # "none" THEN "end" ELSE "model"
  /\ modelCalls' = IF stop' # "none" THEN modelCalls ELSE modelCalls + 1
  /\ UNCHANGED <<lintStreak, successes, reply, open, lock, raised, runs>>

\* The model replies with tool calls.
ReplyWithCalls ==
  /\ phase = "model"
  /\ \E n \in 1..MaxCalls : \E calls \in [1..n -> {"execute", "check"}] :
       reply' = calls /\ open' = DOMAIN calls
  /\ phase' = "tools"
  /\ UNCHANGED <<stop, lintStreak, successes, modelCalls, lock, raised, runs>>

\* The model replies without a tool call: the graph ends, and so does `run`.
ReplyWithoutCalls ==
  /\ phase = "model"
  /\ phase' = "end"
  /\ stop' = Stopping("ENDED")
  /\ UNCHANGED <<lintStreak, successes, modelCalls, reply, open, lock, raised, runs>>

\* The model cannot be reached: the exception leaves `run`, and nobody reports.
ModelFails ==
  /\ phase = "model"
  /\ phase' = "end"
  /\ UNCHANGED <<stop, lintStreak, successes, modelCalls, reply, open, lock,
                 raised, runs>>

\* All calls of the reply have returned.
AllReturned ==
  /\ phase = "tools"
  /\ raised = "none"
  /\ open = {} /\ lock = 0
  /\ phase' = "before_model"
  /\ UNCHANGED <<stop, lintStreak, successes, modelCalls, reply, open, lock,
                 raised, runs>>

\* An exception has left the tool node and `run`, whatever is still open.
Unwind ==
  /\ phase = "tools"
  /\ raised # "none"
  /\ phase' = "end"
  /\ UNCHANGED <<stop, lintStreak, successes, modelCalls, reply, open, lock,
                 raised, runs>>

-----------------------------------------------------------------------------
(* awrap_tool_call *)

Waiting(c, tool) == phase = "tools" /\ c \in open /\ reply[c] = tool /\ lock # c

\* Any tool but execute goes straight through, without the lock; its exceptions
\* are not caught.
PassThrough(c) ==
  /\ Waiting(c, "check")
  /\ open' = open \ {c}
  /\ raised' \in {raised, IF raised = "none" THEN "check" ELSE raised}
  /\ UNCHANGED <<phase, stop, lintStreak, successes, modelCalls, reply, lock, runs>>

\* Every execute of a reply is let through.
any_execute_of_its_reply(c) == reply[c] = "execute"

first_execute_of_its_reply(c) ==
  \A d \in DOMAIN reply : reply[d] = "execute" => c <= d

\* CapReached one run too late.
CapPassed == successes > MaxRuns

CapReached == successes >= MaxRuns

\* With the lock: the cap on successful runs stops the agent, a stopped agent
\* refuses, and so does a call that is not the first execute of its reply.
\* Nothing is sent, and the lock is released at once.
RefuseExecute(c) ==
  /\ Waiting(c, "execute")
  /\ lock = 0
  /\ stop' = IF CapReached THEN Stopping("RUN_CAP") ELSE stop
  /\ stop' # "none" \/ ~first_execute_of_its_reply(c)
  /\ open' = open \ {c}
  /\ UNCHANGED <<phase, lintStreak, successes, modelCalls, reply, lock, raised, runs>>

\* Otherwise the call goes to the gateway, and the lock is held meanwhile.
SendExecute(c) ==
  /\ Waiting(c, "execute")
  /\ lock = 0
  /\ stop = "none"
  /\ ~CapReached
  /\ first_execute_of_its_reply(c)
  /\ lock' = c
  /\ UNCHANGED <<phase, stop, lintStreak, successes, modelCalls, reply, open,
                 raised, runs>>

\* What classify can tell of a result.
Results == [isError : BOOLEAN, traceId : BOOLEAN, lintText : BOOLEAN]

\* classify that goes by the text of an error before it looks for a trace id.
classify_by_text(result) ==
  IF ~result.isError THEN IF result.traceId THEN "OK" ELSE "UNEXPECTED"
  ELSE IF result.lintText THEN "LINT_ERROR"
  ELSE IF result.traceId THEN "RUN_FAILED"
  ELSE "UNEXPECTED"

classify(result) ==
  IF ~result.isError THEN IF result.traceId THEN "OK" ELSE "UNEXPECTED"
  ELSE IF result.traceId THEN "RUN_FAILED"
  ELSE IF result.lintText THEN "LINT_ERROR"
  ELSE "UNEXPECTED"

\* The gateway's own word that a run succeeded, or that it never started.
Settled(result) ==
  \/ ~result.isError /\ result.traceId
  \/ result.isError /\ ~result.traceId /\ result.lintText

Recorded(outcome, settled) ==
  Append(runs, [outcome |-> outcome, reply |-> modelCalls, settled |-> settled])

Returns(c) ==
  /\ phase = "tools" /\ lock = c
  /\ lock' = 0
  /\ open' = open \ {c}
  /\ UNCHANGED <<phase, modelCalls, reply>>

\* The result comes back: it is classified, and anything but a success or a
\* lint error stops the agent.
GatewayReturns(c) ==
  /\ Returns(c)
  /\ \E result \in Results :
       LET outcome == classify(result) IN
       /\ runs' = Recorded(outcome, Settled(result))
       /\ successes' = IF outcome = "OK" THEN successes + 1 ELSE successes
       /\ lintStreak' = CASE outcome = "OK" -> 0
                          [] outcome = "LINT_ERROR" -> lintStreak + 1
                          [] OTHER -> lintStreak
       /\ stop' = CASE outcome = "OK" -> stop
                    [] outcome = "LINT_ERROR" ->
                         IF lintStreak' >= MaxLintStreak
                         THEN Stopping("LINT_ERRORS") ELSE stop
                    [] outcome = "RUN_FAILED" -> Stopping("RUN_FAILED")
                    [] outcome = "UNEXPECTED" -> Stopping("UNEXPECTED")
  /\ UNCHANGED raised

\* GatewayRefuses that records the error and goes on.
GatewayRefusesAndGoesOn(c) ==
  /\ Returns(c)
  /\ runs' = Recorded("UNEXPECTED", FALSE)
  /\ UNCHANGED <<stop, lintStreak, successes, raised>>

\* The gateway answers with a JSON-RPC error (McpError).
GatewayRefuses(c) ==
  /\ Returns(c)
  /\ runs' = Recorded("UNEXPECTED", FALSE)
  /\ stop' = Stopping("UNEXPECTED")
  /\ UNCHANGED <<lintStreak, successes, raised>>

\* Any other exception, such as a lost connection, leaves awrap_tool_call: the
\* lock is released and nothing is recorded.  The reply's other calls go on.
GatewayIsLost(c) ==
  /\ Returns(c)
  /\ raised' = "execute"
  /\ UNCHANGED <<stop, lintStreak, successes, runs>>

-----------------------------------------------------------------------------
ToolCall(c) ==
  \/ PassThrough(c) \/ RefuseExecute(c) \/ SendExecute(c)
  \/ GatewayReturns(c) \/ GatewayRefuses(c) \/ GatewayIsLost(c)

Loop ==
  \/ BeforeModel
  \/ ReplyWithCalls \/ ReplyWithoutCalls \/ ModelFails
  \/ AllReturned \/ Unwind

Next == Loop \/ \E c \in 1..MaxCalls : ToolCall(c)

Spec == Init /\ [][Next]_vars

\* The model replies, the gateway answers or fails, and asyncio runs every task.
FairSpec == Spec /\ WF_vars(Loop) /\ \A c \in 1..MaxCalls : WF_vars(ToolCall(c))

-----------------------------------------------------------------------------
(* Types and properties *)

\* Every variable has its type, and the counters stay within the limits.
TypeOK ==
  /\ phase \in {"before_model", "model", "tools", "end"}
  /\ stop \in Stops \cup {"none"}
  /\ lintStreak \in 0..MaxLintStreak
  /\ successes \in 0..MaxRuns
  /\ modelCalls \in 0..MaxModelCalls
  /\ reply \in Seq({"execute", "check"}) /\ Len(reply) <= MaxCalls
  /\ open \subseteq DOMAIN reply
  /\ lock \in {0} \cup open
  /\ raised \in {"none", "check", "execute"}
  /\ runs \in Seq([outcome : Outcomes, reply : 1..MaxModelCalls,
                  settled : BOOLEAN])

\* Once a run may have made its tool calls without the agent knowing its result
\* (a failed run, an unrecognised result, a JSON-RPC error, a lost connection),
\* no execute is sent to the gateway again (agent.py:169-178, 283-290).  A check
\* of the same reply still passes: it runs nothing (agent.py:217).
FailedRunIsNeverRetried ==
  /\ \A i \in DOMAIN runs : ~runs[i].settled => i = Len(runs) /\ lock = 0
  /\ raised = "execute" => lock = 0

\* A reply gets at most one execute to the gateway, so no program runs that was
\* written before the result of an earlier one was known (agent.py:229-240).
OneExecutePerReply ==
  /\ \A i, j \in DOMAIN runs : i < j => runs[i].reply < runs[j].reply
  /\ lock # 0 /\ runs # << >> => runs[Len(runs)].reply < modelCalls

\* report.succeeded is true only of a task in which every run either succeeded
\* or never started, and some run did succeed (agent.py:141-143).
Succeeded == stop = "ENDED" /\ \E i \in DOMAIN runs : runs[i].outcome = "OK"
SuccessMeansNoFailedRun ==
  phase = "end" /\ Succeeded =>
    /\ \A i \in DOMAIN runs : runs[i].outcome \in {"OK", "LINT_ERROR"}
    /\ successes = Cardinality({i \in DOMAIN runs : runs[i].outcome = "OK"})
    /\ \A i \in DOMAIN runs : runs[i].settled
    /\ raised = "none"

\* The agent gives the first reason it stopped for, and once it has a reason it
\* asks the model for nothing more (agent.py:202-213).
StopIsFinal ==
  [][stop # "none" => stop' = stop /\ modelCalls' = modelCalls /\ lock' \in {0, lock}]_vars

\* Whatever the model and the gateway answer, the agent comes to an end.
AgentEnds == <>[](phase = "end")
=============================================================================
