-------------------------- MODULE AgentGuardProofs --------------------------
(***************************************************************************)
(* Theorems about AgentGuard.tla, for every limit, every reply of the      *)
(* model and every answer of the gateway.                                  *)
(***************************************************************************)
EXTENDS AgentGuard, FiniteSetTheorems, TLAPS

-----------------------------------------------------------------------------
(* The inductive invariant *)

\* The execute of the current reply that may be sent has not returned.
FirstIsOpen ==
  \E c \in open : reply[c] = "execute" /\ first_execute_of_its_reply(c)

\* What the types need of the rest of the state.
GuardTypes ==
  /\ TypeOK
  /\ phase \in {"model", "tools"} => modelCalls > 0
  /\ stop = "none" => lintStreak < MaxLintStreak

\* Only the first execute of its reply holds the lock, of an agent that has not
\* stopped and may run once more; outside of the tool node nobody holds it.
LockInv ==
  /\ lock # 0 => /\ reply[lock] = "execute" /\ first_execute_of_its_reply(lock)
                 /\ stop = "none" /\ successes < MaxRuns
  /\ phase \in {"before_model", "model"} => lock = 0 /\ raised = "none"
  /\ raised = "execute" => ~FirstIsOpen

\* A run whose result is not certain has stopped the agent, and not with the
\* reason that stands for a success.
RunsInv ==
  /\ stop \in {"none", "ENDED"} =>
       \A i \in DOMAIN runs : runs[i].settled /\ runs[i].outcome \in {"OK", "LINT_ERROR"}
  /\ stop = "ENDED" => phase = "end" /\ raised = "none"
  /\ \A i \in DOMAIN runs : ~runs[i].settled => i = Len(runs)
  /\ successes = Cardinality({i \in DOMAIN runs : runs[i].outcome = "OK"})

\* Runs come from ever later replies, and the current reply has none before its
\* first execute returns.
ReplyInv ==
  /\ \A i, j \in DOMAIN runs : i < j => runs[i].reply < runs[j].reply
  /\ \A i \in DOMAIN runs : runs[i].reply <= modelCalls
  /\ phase = "model" \/ (phase = "tools" /\ FirstIsOpen) \/ lock # 0 =>
       \A i \in DOMAIN runs : runs[i].reply < modelCalls

GuardInv == GuardTypes /\ LockInv /\ RunsInv /\ ReplyInv

-----------------------------------------------------------------------------
(* What classify tells, and what a record adds *)

Records == [outcome : Outcomes, reply : 1..MaxModelCalls, settled : BOOLEAN]

\* classify calls a result a success or a lint error exactly when it is the
\* gateway's own word for it.
LEMMA ClassifySettles ==
  ASSUME NEW result \in Results
  PROVE  /\ classify(result) \in Outcomes
         /\ Settled(result) \in BOOLEAN
         /\ Settled(result) <=> classify(result) \in {"OK", "LINT_ERROR"}
BY DEF Results, classify, Settled, Outcomes

\* The runs, and how many of them succeeded, after one more is recorded.
LEMMA RecordedRuns ==
  ASSUME runs \in Seq(Records), NEW e \in Records
  PROVE  LET new == Append(runs, e)
             Succeeding(s) == {i \in DOMAIN s : s[i].outcome = "OK"} IN
         /\ new \in Seq(Records)
         /\ DOMAIN new = DOMAIN runs \cup {Len(runs) + 1}
         /\ Len(new) = Len(runs) + 1 /\ Len(runs) \in Nat
         /\ new[Len(runs) + 1] = e
         /\ \A i \in DOMAIN runs : new[i] = runs[i] /\ i \in Nat /\ i <= Len(runs)
         /\ Cardinality(Succeeding(new)) =
              Cardinality(Succeeding(runs)) + (IF e.outcome = "OK" THEN 1 ELSE 0)
<1> DEFINE new == Append(runs, e)
           Succeeding(s) == {i \in DOMAIN s : s[i].outcome = "OK"}
<1>1. /\ new \in Seq(Records)
      /\ Len(new) = Len(runs) + 1 /\ Len(runs) \in Nat
      /\ DOMAIN runs = 1..Len(runs) /\ DOMAIN new = 1..(Len(runs) + 1)
      /\ new[Len(runs) + 1] = e
      /\ \A i \in 1..Len(runs) : new[i] = runs[i]
  OBVIOUS
<1>2. /\ DOMAIN new = DOMAIN runs \cup {Len(runs) + 1}
      /\ \A i \in DOMAIN runs : new[i] = runs[i] /\ i \in Nat /\ i <= Len(runs)
  BY <1>1
<1> HIDE DEF new
<1>3. Len(runs) + 1 \notin Succeeding(runs)
  BY <1>1
<1>4. IsFiniteSet(Succeeding(runs)) /\ Cardinality(Succeeding(runs)) \in Nat
  <2>1. IsFiniteSet(1..Len(runs))
    BY <1>1, FS_Interval
  <2>2. Succeeding(runs) \subseteq 1..Len(runs)
    BY <1>1
  <2>3. IsFiniteSet(Succeeding(runs))
    BY <2>1, <2>2, FS_Subset
  <2> QED
    BY <2>3, FS_CardinalityType
<1>5. CASE e.outcome = "OK"
  <2>1. Succeeding(new) = Succeeding(runs) \cup {Len(runs) + 1}
    BY <1>1, <1>2, <1>5
  <2>2. Cardinality(Succeeding(new)) = Cardinality(Succeeding(runs)) + 1
    BY <1>3, <1>4, <2>1, FS_AddElement
  <2> QED
    BY <1>1, <1>2, <1>5, <2>2 DEF new
<1>6. CASE e.outcome # "OK"
  <2>1. Succeeding(new) = Succeeding(runs)
    BY <1>1, <1>2, <1>6
  <2>2. Cardinality(Succeeding(new)) = Cardinality(Succeeding(runs)) + 0
    <3> HIDE DEF Succeeding
    <3> QED
      BY <1>4, <2>1
  <2> QED
    BY <1>1, <1>2, <1>6, <2>2 DEF new
<1> QED
  BY <1>5, <1>6

-----------------------------------------------------------------------------
LEMMA InitGuardInv == Init => GuardInv
<1> SUFFICES ASSUME Init PROVE GuardInv
  OBVIOUS
<1>1. {i \in DOMAIN runs : runs[i].outcome = "OK"} = {}
  BY DEF Init
<1>2. Cardinality({i \in DOMAIN runs : runs[i].outcome = "OK"}) = 0
  BY <1>1, FS_EmptySet
<1>3. GuardTypes /\ LockInv /\ ReplyInv
  BY LimitsArePositive
     DEF Init, GuardTypes, TypeOK, LockInv, ReplyInv, FirstIsOpen, Stops
<1>4. RunsInv
  BY <1>2 DEF Init, RunsInv
<1> QED
  BY <1>3, <1>4 DEF GuardInv

\* A step of the loop: it takes no lock and records nothing.
LEMMA LoopGuardInv == GuardInv /\ Loop => GuardInv'
<1> SUFFICES ASSUME GuardInv, Loop PROVE GuardInv'
  OBVIOUS
<1> USE LimitsArePositive DEF GuardInv
<1>1. CASE BeforeModel
  <2>1. GuardTypes'
    BY <1>1 DEF BeforeModel, GuardTypes, TypeOK, Stops, Stopping
  <2>2. LockInv'
    BY <1>1 DEF BeforeModel, GuardTypes, TypeOK, LockInv, FirstIsOpen, first_execute_of_its_reply
  <2>3. RunsInv'
    BY <1>1 DEF BeforeModel, GuardTypes, TypeOK, RunsInv, Stopping
  <2>4. ReplyInv'
    <3>1. \A i \in DOMAIN runs : runs[i].reply \in Nat
      <4>1. runs \in Seq(Records)
        BY DEF GuardTypes, TypeOK, Records
      <4>2. \A i \in DOMAIN runs : runs[i] \in Records
        BY <4>1
      <4> QED
        BY <4>2 DEF Records
    <3>2. /\ phase' = "model" => modelCalls' = modelCalls + 1
          /\ phase' # "tools" /\ lock' = 0
          /\ modelCalls \in Nat /\ modelCalls' \in {modelCalls, modelCalls + 1}
      BY <1>1 DEF BeforeModel, GuardTypes, TypeOK, LockInv
    <3>3. runs' = runs
      BY <1>1 DEF BeforeModel
    <3> QED
      BY <3>1, <3>2, <3>3 DEF ReplyInv
  <2> QED
    BY <2>1, <2>2, <2>3, <2>4
<1>2. CASE ReplyWithCalls
  <2> PICK n \in 1..MaxCalls : \E calls \in [1..n -> {"execute", "check"}] :
        reply' = calls /\ open' = DOMAIN calls
    BY <1>2 DEF ReplyWithCalls
  <2> PICK calls \in [1..n -> {"execute", "check"}] :
        reply' = calls /\ open' = DOMAIN calls
    OBVIOUS
  <2>1. GuardTypes'
    BY <1>2 DEF ReplyWithCalls, GuardTypes, TypeOK, LockInv
  <2>2. LockInv'
    BY <1>2 DEF ReplyWithCalls, GuardTypes, TypeOK, LockInv
  <2>3. RunsInv'
    BY <1>2 DEF ReplyWithCalls, RunsInv
  <2>4. ReplyInv'
    BY <1>2 DEF ReplyWithCalls, ReplyInv
  <2> QED
    BY <2>1, <2>2, <2>3, <2>4
<1>3. CASE ReplyWithoutCalls
  BY <1>3 DEF ReplyWithoutCalls, GuardTypes, TypeOK, Stops, Stopping, LockInv,
              FirstIsOpen, first_execute_of_its_reply, RunsInv, ReplyInv
<1>4. CASE ModelFails \/ Unwind
  BY <1>4 DEF ModelFails, Unwind, GuardTypes, TypeOK, LockInv,
              FirstIsOpen, first_execute_of_its_reply, RunsInv, ReplyInv
<1>5. CASE AllReturned
  BY <1>5 DEF AllReturned, GuardTypes, TypeOK, LockInv,
              FirstIsOpen, first_execute_of_its_reply, RunsInv, ReplyInv
<1> QED
  BY <1>1, <1>2, <1>3, <1>4, <1>5 DEF Loop

\* A call that returns was the reply's first execute: no other can be sent.
LEMMA ReturnsEffect ==
  ASSUME GuardInv, NEW c \in 1..MaxCalls, Returns(c)
  PROVE  /\ stop = "none" /\ successes < MaxRuns
         /\ reply \in Seq({"execute", "check"}) /\ reply' = reply
         /\ open' \subseteq 1..MaxCalls /\ open' \subseteq DOMAIN reply
         /\ lock' = 0 /\ phase' = "tools" /\ phase = "tools"
         /\ modelCalls' = modelCalls /\ modelCalls \in 1..MaxModelCalls
         /\ ~FirstIsOpen'
         /\ \A i \in DOMAIN runs : runs[i].reply < modelCalls
<1>1. /\ lock = c /\ c # 0 /\ c \in Int /\ c \in open
      /\ reply[c] = "execute" /\ first_execute_of_its_reply(c)
      /\ stop = "none" /\ successes < MaxRuns
  BY DEF Returns, GuardInv, GuardTypes, TypeOK, LockInv
<1>2. /\ reply \in Seq({"execute", "check"}) /\ reply' = reply
      /\ open' \subseteq 1..MaxCalls /\ open' \subseteq DOMAIN reply
      /\ lock' = 0 /\ phase' = "tools" /\ phase = "tools"
      /\ modelCalls' = modelCalls /\ modelCalls \in 1..MaxModelCalls
  BY LimitsArePositive DEF Returns, GuardInv, GuardTypes, TypeOK
<1>3. ASSUME NEW d \in open', reply'[d] = "execute", first_execute_of_its_reply(d)'
      PROVE  FALSE
  <2>1. d \in open /\ d # c /\ d \in DOMAIN reply /\ c \in DOMAIN reply /\ d \in Int
    BY <1>1, <1>2 DEF Returns, GuardInv, GuardTypes, TypeOK
  <2>2. c <= d /\ d <= c
    BY <1>1, <1>2, <1>3, <2>1 DEF first_execute_of_its_reply
  <2> QED
    BY <1>1, <2>1, <2>2
<1>4. \A i \in DOMAIN runs : runs[i].reply < modelCalls
  BY <1>1 DEF GuardInv, ReplyInv
<1> QED
  BY <1>1, <1>2, <1>3, <1>4 DEF FirstIsOpen

\* A step of a tool call.
LEMMA ToolCallGuardInv ==
  ASSUME GuardInv, NEW c \in 1..MaxCalls, ToolCall(c)
  PROVE  GuardInv'
<1> USE LimitsArePositive DEF GuardInv
<1>1. CASE PassThrough(c)
  <2>1. GuardTypes'
    BY <1>1 DEF PassThrough, Waiting, GuardTypes, TypeOK
  <2>2. FirstIsOpen' => FirstIsOpen
    BY <1>1 DEF PassThrough, FirstIsOpen, first_execute_of_its_reply
  <2>3. LockInv'
    BY <1>1, <2>2 DEF PassThrough, Waiting, LockInv, GuardTypes, TypeOK, first_execute_of_its_reply
  <2>4. RunsInv'
    BY <1>1 DEF PassThrough, Waiting, RunsInv
  <2>5. ReplyInv'
    BY <1>1, <2>2 DEF PassThrough, ReplyInv
  <2> QED
    BY <2>1, <2>3, <2>4, <2>5
<1>2. CASE RefuseExecute(c)
  <2>1. GuardTypes'
    BY <1>2 DEF RefuseExecute, Waiting, Stopping, Stops, GuardTypes, TypeOK
  <2>2. FirstIsOpen' => FirstIsOpen
    BY <1>2 DEF RefuseExecute, FirstIsOpen, first_execute_of_its_reply
  <2>3. LockInv'
    BY <1>2, <2>2 DEF RefuseExecute, Waiting, LockInv
  <2>4. RunsInv'
    BY <1>2 DEF RefuseExecute, Waiting, Stopping, RunsInv
  <2>5. ReplyInv'
    BY <1>2, <2>2 DEF RefuseExecute, ReplyInv
  <2> QED
    BY <2>1, <2>3, <2>4, <2>5
<1>3. CASE SendExecute(c)
  <2>1. GuardTypes'
    BY <1>3 DEF SendExecute, Waiting, GuardTypes, TypeOK
  <2>2. FirstIsOpen /\ FirstIsOpen' = FirstIsOpen
    BY <1>3 DEF SendExecute, Waiting, FirstIsOpen, first_execute_of_its_reply
  <2>3. LockInv'
    BY <1>3, <2>2 DEF SendExecute, Waiting, CapReached, LockInv, GuardTypes, TypeOK,
                      first_execute_of_its_reply
  <2>4. RunsInv'
    BY <1>3 DEF SendExecute, RunsInv
  <2>5. ReplyInv'
    BY <1>3, <2>2 DEF SendExecute, Waiting, ReplyInv
  <2> QED
    BY <2>1, <2>3, <2>4, <2>5
<1>4. ASSUME NEW e \in Records, e.reply = modelCalls, Returns(c),
             runs' = Append(runs, e), raised' = raised,
             successes' = successes + (IF e.outcome = "OK" THEN 1 ELSE 0),
             lintStreak' \in 0..MaxLintStreak,
             stop' \in (Stops \ {"ENDED"}) \cup {"none"},
             stop' = "none" => /\ e.settled /\ e.outcome \in {"OK", "LINT_ERROR"}
                               /\ lintStreak' < MaxLintStreak
      PROVE  GuardInv'
  <2>0. runs \in Seq(Records)
    BY DEF GuardTypes, TypeOK, Records
  <2>1. /\ runs' \in Seq(Records)
        /\ DOMAIN runs' = DOMAIN runs \cup {Len(runs) + 1}
        /\ Len(runs') = Len(runs) + 1 /\ Len(runs) \in Nat
        /\ runs'[Len(runs) + 1] = e
        /\ \A i \in DOMAIN runs : runs'[i] = runs[i] /\ i \in Nat /\ i <= Len(runs)
    BY <1>4, <2>0, RecordedRuns
  <2>2. successes' = Cardinality({i \in DOMAIN runs' : runs'[i].outcome = "OK"})
    BY <1>4, <2>0, RecordedRuns, SMTT(30) DEF RunsInv
  <2>3. GuardTypes'
    BY <1>4, <2>1, ReturnsEffect, SMTT(30) DEF GuardTypes, TypeOK, Records
  <2>4. LockInv'
    BY <1>4, ReturnsEffect DEF LockInv
  <2>5. RunsInv'
    BY <1>4, <2>1, <2>2, ReturnsEffect DEF RunsInv
  <2>6. ReplyInv'
    BY <1>4, <2>0, <2>1, ReturnsEffect, SMTT(30) DEF ReplyInv, Records
  <2> QED
    BY <2>3, <2>4, <2>5, <2>6
<1>5. CASE GatewayReturns(c)
  <2> PICK result \in Results :
        LET outcome == classify(result) IN
        /\ runs' = Recorded(outcome, Settled(result))
        /\ successes' = IF outcome = "OK" THEN successes + 1 ELSE successes
        /\ lintStreak' = CASE outcome = "OK" -> 0
                           [] outcome = "LINT_ERROR" -> lintStreak + 1
                           [] OTHER -> lintStreak
        /\ stop' = CASE outcome = "OK" -> stop
                     [] outcome = "LINT_ERROR" ->
                          IF lintStreak' >= MaxLintStreak
                          THEN Stopping("LINT_ERRORS") ELSE stop
                     [] outcome = "RUN_FAILED" -> Stopping("RUN_FAILED")
                     [] outcome = "UNEXPECTED" -> Stopping("UNEXPECTED")
    BY <1>5 DEF GatewayReturns
  <2> DEFINE e == [outcome |-> classify(result), reply |-> modelCalls,
                   settled |-> Settled(result)]
  <2>1. Returns(c) /\ raised' = raised
    BY <1>5 DEF GatewayReturns
  <2>2. e \in Records /\ runs' = Append(runs, e)
    BY <2>1, ClassifySettles, ReturnsEffect DEF Records, Recorded
  <2>3. successes' = successes + (IF e.outcome = "OK" THEN 1 ELSE 0)
    BY DEF GuardTypes, TypeOK
  <2>4. stop = "none" /\ lintStreak \in Nat /\ lintStreak < MaxLintStreak
    BY <2>1, ReturnsEffect DEF GuardTypes, TypeOK
  <2>5. /\ lintStreak' \in 0..MaxLintStreak
        /\ stop' \in (Stops \ {"ENDED"}) \cup {"none"}
        /\ stop' = "none" => /\ classify(result) \in {"OK", "LINT_ERROR"}
                             /\ lintStreak' < MaxLintStreak
    <3>1. classify(result) \in {"OK", "LINT_ERROR", "RUN_FAILED", "UNEXPECTED"}
      BY ClassifySettles DEF Outcomes
    <3> HIDE DEF e
    <3> QED
      BY <2>4, <3>1 DEF Stopping, Stops
  <2> QED
    BY <1>4, <2>1, <2>2, <2>3, <2>5, ClassifySettles
<1>6. CASE GatewayRefuses(c)
  <2> DEFINE e == [outcome |-> "UNEXPECTED", reply |-> modelCalls, settled |-> FALSE]
  <2>1. Returns(c) /\ raised' = raised /\ runs' = Append(runs, e)
    BY <1>6 DEF GatewayRefuses, Recorded
  <2>2. e \in Records
    BY <2>1, ReturnsEffect DEF Records, Outcomes
  <2>3. /\ successes' = successes + (IF e.outcome = "OK" THEN 1 ELSE 0)
        /\ lintStreak' \in 0..MaxLintStreak
    BY <1>6 DEF GatewayRefuses, GuardTypes, TypeOK
  <2>4. stop' = "UNEXPECTED"
    BY <1>6, <2>1, ReturnsEffect DEF GatewayRefuses, Stopping
  <2> QED
    BY <1>4, <2>1, <2>2, <2>3, <2>4 DEF Stops
<1>7. CASE GatewayIsLost(c)
  <2>1. Returns(c) /\ raised' = "execute"
        /\ UNCHANGED <<stop, lintStreak, successes, runs>>
    BY <1>7 DEF GatewayIsLost
  <2>2. GuardTypes'
    BY <2>1, ReturnsEffect DEF GuardTypes, TypeOK
  <2>3. LockInv'
    BY <2>1, ReturnsEffect DEF LockInv
  <2>4. RunsInv' /\ ReplyInv'
    BY <2>1, ReturnsEffect DEF RunsInv, ReplyInv
  <2> QED
    BY <2>2, <2>3, <2>4
<1> QED
  BY <1>1, <1>2, <1>3, <1>5, <1>6, <1>7 DEF ToolCall

LEMMA StepGuardInv == GuardInv /\ [Next]_vars => GuardInv'
<1> SUFFICES ASSUME GuardInv, [Next]_vars PROVE GuardInv'
  OBVIOUS
<1>1. CASE UNCHANGED vars
  BY <1>1 DEF vars, GuardInv, GuardTypes, TypeOK, LockInv, RunsInv, ReplyInv,
              FirstIsOpen, first_execute_of_its_reply
<1> QED
  BY <1>1, LoopGuardInv, ToolCallGuardInv DEF Next

LEMMA GuardInvariant == Spec => []GuardInv
BY InitGuardInv, StepGuardInv, PTL DEF Spec

-----------------------------------------------------------------------------
(* The theorems *)

\* Every variable of the agent has its type; the lint streak, the successful
\* runs and the model calls never pass their limits, whatever the model and the
\* gateway answer.
THEOREM GuardTypeCorrect == Spec => []TypeOK
<1>1. GuardInv => TypeOK
  BY DEF GuardInv, GuardTypes
<1> QED
  BY <1>1, GuardInvariant, PTL

\* No execute is sent to the gateway after a run whose result is not certain:
\* such a run is the last, and no call holds the lock (awrap_tool_call).
THEOREM FailedRunsStayUnretried == Spec => []FailedRunIsNeverRetried
<1>1. GuardInv => FailedRunIsNeverRetried
  <2> SUFFICES ASSUME GuardInv PROVE FailedRunIsNeverRetried
    OBVIOUS
  <2>1. ASSUME NEW i \in DOMAIN runs, ~runs[i].settled
        PROVE  i = Len(runs) /\ lock = 0
    BY <2>1 DEF GuardInv, RunsInv, LockInv
  <2>2. raised = "execute" => lock = 0
    BY DEF GuardInv, GuardTypes, TypeOK, LockInv, FirstIsOpen
  <2> QED
    BY <2>1, <2>2 DEF FailedRunIsNeverRetried
<1> QED
  BY <1>1, GuardInvariant, PTL

\* No two runs come from the same reply of the model, and the one that is being
\* sent comes from a later reply than all before it.
THEOREM RepliesRunOnce == Spec => []OneExecutePerReply
<1>1. GuardInv => OneExecutePerReply
  <2> SUFFICES ASSUME GuardInv PROVE OneExecutePerReply
    OBVIOUS
  <2>1. runs # << >> => Len(runs) \in DOMAIN runs
    BY DEF GuardInv, GuardTypes, TypeOK
  <2> QED
    BY <2>1 DEF GuardInv, ReplyInv, OneExecutePerReply
<1> QED
  BY <1>1, GuardInvariant, PTL

\* A report that says the task succeeded has no failed or uncertain run in it,
\* and counts the successful ones rightly.
THEOREM SuccessIsReal == Spec => []SuccessMeansNoFailedRun
<1>1. GuardInv => SuccessMeansNoFailedRun
  BY DEF GuardInv, RunsInv, SuccessMeansNoFailedRun, Succeeded
<1> QED
  BY <1>1, GuardInvariant, PTL

\* No step replaces the reason an agent has stopped for, asks the model again
\* after it or sends another execute.
THEOREM StoppedStaysStopped == Spec => StopIsFinal
<1>1. GuardInv /\ [Next]_vars =>
        [stop # "none" => stop' = stop /\ modelCalls' = modelCalls /\ lock' \in {0, lock}]_vars
  <2> SUFFICES ASSUME GuardInv, Next, stop # "none"
               PROVE  stop' = stop /\ modelCalls' = modelCalls /\ lock' \in {0, lock}
    OBVIOUS
  <2>1. CASE Loop
    BY <2>1 DEF Loop, BeforeModel, ReplyWithCalls, ReplyWithoutCalls, ModelFails,
                AllReturned, Unwind, Stopping
  <2>2. ASSUME NEW c \in 1..MaxCalls, ToolCall(c)
        PROVE  stop' = stop /\ modelCalls' = modelCalls /\ lock' \in {0, lock}
    <3>1. CASE PassThrough(c) \/ RefuseExecute(c) \/ SendExecute(c)
      BY <3>1 DEF PassThrough, RefuseExecute, SendExecute, Stopping
    <3>2. CASE Returns(c)
      BY <3>2, ReturnsEffect
    <3> QED
      BY <2>2, <3>1, <3>2 DEF ToolCall, GatewayReturns, GatewayRefuses, GatewayIsLost
  <2> QED
    BY <2>1, <2>2 DEF Next
<1> QED
  BY <1>1, GuardInvariant, PTL DEF Spec, StopIsFinal
=============================================================================
