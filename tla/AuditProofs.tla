---------------------------- MODULE AuditProofs -----------------------------
(***************************************************************************)
(* What the traces of Gateway.tla are worth, for every set of requests,    *)
(* rules, programs, VM behaviour and downstream: they account for the      *)
(* calls that were sent, they are what the caller was told, they replay,   *)
(* and the whole gateway implements AuditLog.                              *)
(*                                                                         *)
(* The invariant is one of single requests, which share only the files of  *)
(* programs and descriptions.  Those change by themselves, but a file of a *)
(* hash always compiles to that hash.                                      *)
(***************************************************************************)
EXTENDS GatewayProofs

-----------------------------------------------------------------------------
(* The inductive invariant *)

Early == {"idle", "read_program", "write_program", "read_description", "write_description"}

\* The calls that are in the transcript and were let through.
RecordedCalls(r) ==
  {<<i, transcript[r][i].call>> :
     i \in {j \in 1..Len(transcript[r]) : log[r][j].decision = "Allowed"}}

\* The call that was let through and is not in the transcript yet.
OpenCall(r) ==
  IF pc[r] = "waiting" THEN {<<NextPosition(r), VmStep(r).call>>}
  ELSE IF pc[r] = "returned" /\ log[r][Len(log[r])].decision = "Allowed"
  THEN {<<Len(log[r]), VmStep(r).call>>}
  ELSE {}

\* While a request is served, what it sent is in its transcript or is the call
\* it is making.
Accounted(r) ==
  /\ pc[r] \in Early => log[r] = << >> /\ transcript[r] = << >>
  /\ pc[r] # "done" => /\ response[r].kind = "none"
                       /\ Range(sent[r]) = RecordedCalls(r) \cup OpenCall(r)
  /\ \A j, k \in DOMAIN sent[r] : j < k => sent[r][j][1] < sent[r][k][1]
  /\ attested[r] = {i \in 1..Len(log[r]) : log[r][i].provenance = "Attested"}

\* The transcript is what the VM does on the responses in it.
Retraced(r) ==
  /\ \A i \in 1..Len(transcript[r]) :
       VmNext(ProgramHash(r), [j \in 1..(i - 1) |-> transcript[r][j].response])
         = CallStep(transcript[r][i].call)
  /\ pc[r] \in {"store_trace", "answer"} =>
       \E end \in EndSteps : /\ VmStep(r) = end
                             /\ footer[r] = FooterOf(end, req[r].program)

\* A trace is that of its request, which is over but for the answer.
Filed(r) ==
  /\ pc[r] = "answer" => traces[r] # NoFile
  /\ traces[r] # NoFile =>
       /\ pc[r] \in {"answer", "done"}
       /\ traces[r] = TraceOf(r)
       /\ Len(transcript[r]) = Len(log[r])
       /\ Range(sent[r]) = RecordedCalls(r)
       /\ \E end \in EndSteps : /\ VmStep(r) = end
                                /\ footer[r] = FooterOf(end, req[r].program)

\* What the answer of one request says.
Honest(r) ==
  /\ response[r].kind = "run" =>
       /\ traces[r] # NoFile
       /\ response[r].status = footer[r].status
       /\ response[r].output = footer[r].output
  /\ response[r].kind \in {"lint_error", "unauthorized"} => sent[r] = << >> /\ traces[r] = NoFile
  /\ pc[r] = "done" /\ sent[r] # << >> /\ traces[r] = NoFile =>
       response[r].kind \in {"store_error", "lost"}

Audited(r) == Accounted(r) /\ Retraced(r) /\ Filed(r) /\ Honest(r)

AuditInv == \A r \in Runs : Audited(r)

\* A request that got past its puts has its files.
HasFiles(r) ==
  /\ pc[r] \in {"read_description", "write_description"} => ProgramHash(r) \in DOMAIN programs
  /\ pc[r] \notin Early /\ (pc[r] = "done" => traces[r] # NoFile) =>
       ProgramHash(r) \in DOMAIN programs /\ Description(r) \in descriptions

\* The files that requests share: whoever wrote a program's file last, it holds a
\* source of the program.
FileInv ==
  /\ \A h \in DOMAIN programs : Code(programs[h].prelude, programs[h].program) = h
  /\ \A r \in Runs : HasFiles(r)

\* A request that has not arrived has no token.
IdleInv == \A r \in Runs : pc[r] = "idle" => req[r] = NoRequest

Invariant == TypeInv /\ SentInv /\ ZipInv /\ AuditInv /\ FileInv /\ IdleInv

-----------------------------------------------------------------------------
(* Frames *)

\* A step leaves request q alone.
Untouched(q) ==
  /\ pc'[q] = pc[q] /\ req'[q] = req[q] /\ log'[q] = log[q]
  /\ transcript'[q] = transcript[q] /\ footer'[q] = footer[q] /\ response'[q] = response[q]
  /\ sent'[q] = sent[q] /\ attested'[q] = attested[q] /\ traces'[q] = traces[q]

\* What a request runs and what it has recorded.
LEMMA SameRun ==
  ASSUME NEW q \in Runs, req'[q] = req[q], transcript'[q] = transcript[q]
  PROVE  /\ ProgramHash(q)' = ProgramHash(q)
         /\ Description(q)' = Description(q)
         /\ Principal(q)' = Principal(q)
         /\ VmStep(q)' = VmStep(q)
BY VmStepFrame DEF ProgramHash, Description, Allowed, Principal

LEMMA SameCalls ==
  ASSUME NEW q \in Runs, log'[q] = log[q], transcript'[q] = transcript[q]
  PROVE  RecordedCalls(q)' = RecordedCalls(q)
BY DEF RecordedCalls

LEMMA SameTrace ==
  ASSUME NEW q \in Runs, req'[q] = req[q], log'[q] = log[q], transcript'[q] = transcript[q],
         footer'[q] = footer[q]
  PROVE  TraceOf(q)' = TraceOf(q)
BY SameRun DEF TraceOf, Entries

LEMMA AccountedMoves ==
  ASSUME NEW q \in Runs, Accounted(q),
         log'[q] = log[q], transcript'[q] = transcript[q],
         sent'[q] = sent[q], attested'[q] = attested[q],
         \/ pc'[q] = "done"
         \/ /\ {pc[q], pc'[q]} \cap {"waiting", "returned", "done"} = {}
            /\ response'[q].kind = "none"
            /\ pc'[q] \in Early => pc[q] \in Early
  PROVE  Accounted(q)'
<1>1. RecordedCalls(q)' = RecordedCalls(q)
  BY SameCalls
<1>2. CASE pc'[q] = "done"
  BY <1>1, <1>2 DEF Accounted, Early
<1>3. CASE /\ {pc[q], pc'[q]} \cap {"waiting", "returned", "done"} = {}
           /\ response'[q].kind = "none"
           /\ pc'[q] \in Early => pc[q] \in Early
  <2>1. OpenCall(q) = {} /\ OpenCall(q)' = {}
    BY <1>3 DEF OpenCall
  <2> QED
    BY <1>1, <1>3, <2>1 DEF Accounted
<1> QED
  BY <1>2, <1>3

LEMMA RetracedMoves ==
  ASSUME NEW q \in Runs, Retraced(q), req'[q] = req[q], transcript'[q] = transcript[q],
         \/ pc'[q] \notin {"store_trace", "answer"}
         \/ /\ pc[q] \in {"store_trace", "answer"}
            /\ footer'[q] = footer[q]
  PROVE  Retraced(q)'
BY SameRun DEF Retraced

\* A request that has no trace.
LEMMA FiledNone ==
  ASSUME NEW q \in Runs, traces'[q] = NoFile, pc'[q] # "answer"
  PROVE  Filed(q)'
BY DEF Filed, NoFile

LEMMA FiledMoves ==
  ASSUME NEW q \in Runs, Filed(q), pc'[q] = "done" \/ pc'[q] = pc[q],
         req'[q] = req[q], log'[q] = log[q], transcript'[q] = transcript[q],
         footer'[q] = footer[q], sent'[q] = sent[q], traces'[q] = traces[q]
  PROVE  Filed(q)'
BY SameRun, SameCalls, SameTrace DEF Filed, NoFile

\* A request that has no answer.
LEMMA HonestOpen ==
  ASSUME NEW q \in Runs, response'[q].kind = "none", pc'[q] # "done"
  PROVE  Honest(q)'
BY DEF Honest

LEMMA AuditedUntouched ==
  ASSUME NEW q \in Runs, Audited(q), Untouched(q)
  PROVE  Audited(q)'
<1>1. Accounted(q)'
  <2>1. OpenCall(q)' = OpenCall(q)
    BY SameRun DEF Untouched, OpenCall, NextPosition
  <2> QED
    BY <2>1, SameCalls DEF Untouched, Accounted, Audited
<1>2. Retraced(q)'
  BY RetracedMoves DEF Untouched, Audited
<1>3. Filed(q)'
  BY FiledMoves DEF Untouched, Audited
<1>4. Honest(q)'
  BY DEF Untouched, Audited, Honest, NoFile
<1> QED
  BY <1>1, <1>2, <1>3, <1>4 DEF Audited

\* An action of request r leaves every other request alone.
LEMMA OthersUntouched ==
  ASSUME TypeOK, NEW r \in Runs, TurnAway(r) \/ LintFails(r) \/ Begin(r) \/ Serve(r),
         NEW q \in Runs \ {r}
  PROVE  Untouched(q)
<1>1. CASE TurnAway(r) \/ LintFails(r) \/ Begin(r)
  BY <1>1 DEF TurnAway, LintFails, Begin, Arrives, End, Untouched, TypeOK, storeVars, history
<1>2. CASE ReadProgram(r) \/ WriteProgram(r) \/ ReadDescription(r) \/ WriteDescription(r)
  BY <1>2 DEF ReadProgram, WriteProgram, ReadDescription, WriteDescription, Moves, Untouched,
              TypeOK, history
<1>3. CASE StoreFails(r) \/ Answer(r)
  BY <1>3 DEF StoreFails, Answer, End, Untouched, TypeOK, storeVars, history
<1>4. CASE Refuse(r) \/ Dispatch(r)
  BY <1>4 DEF Refuse, Dispatch, Untouched, TypeOK, storeVars, history
<1>5. CASE Reply(r)
  <2>1. log'[q] = log[q] /\ attested'[q] = attested[q]
    <3>1. \E entry, more : /\ log' = [log EXCEPT ![r] = Append(@, entry)]
                           /\ attested' = [attested EXCEPT ![r] = more]
      BY <1>5 DEF Reply
    <3> QED
      BY <3>1 DEF TypeOK
  <2> QED
    BY <1>5, <2>1 DEF Reply, Untouched, TypeOK, storeVars
<1>6. CASE CoreRecords(r)
  <2>1. transcript'[q] = transcript[q] /\ pc'[q] = pc[q]
    BY <1>6, CoreRecordsEffect, ZenonT(30) DEF TypeOK
  <2> QED
    BY <1>6, <2>1 DEF CoreRecords, Untouched, storeVars, history
<1>7. CASE Finish(r)
  BY <1>7 DEF Finish, End, Untouched, TypeOK, storeVars, history
<1>8. CASE StoreTrace(r)
  BY <1>8 DEF StoreTrace, Untouched, TypeOK, history
<1> QED
  BY <1>1, <1>2, <1>3, <1>4, <1>5, <1>6, <1>7, <1>8 DEF Serve

-----------------------------------------------------------------------------
(* What an action does to the request that takes it *)

\* The facts about one request that the following needs.
LEMMA OfOne ==
  ASSUME Invariant, NEW r \in Runs
  PROVE  /\ TypeOK /\ Audited(r) /\ Zipped(r)
         /\ pc[r] \notin {"answer", "done"} => traces[r] = NoFile
         /\ pc[r] # "done" => response[r].kind = "none"
         /\ log[r] \in Seq(LogEntries) /\ transcript[r] \in Seq(Records)
         /\ sent[r] \in Seq(Nat \X Calls)
         /\ Len(log[r]) \in Nat /\ Len(transcript[r]) \in Nat /\ Len(sent[r]) \in Nat
BY DEF Invariant, TypeInv, TypeOK, AuditInv, Audited, ZipInv, Accounted, Filed

LEMMA ArrivesAudited ==
  ASSUME Invariant, NEW r \in Runs, TurnAway(r) \/ LintFails(r) \/ Begin(r)
  PROVE  Audited(r)'
<1>0. /\ TypeOK /\ Audited(r) /\ traces[r] = NoFile /\ response[r].kind = "none"
      /\ pc[r] = "idle" /\ sent[r] = << >> /\ transcript[r] = << >>
  <2>1. pc[r] = "idle"
    BY DEF TurnAway, LintFails, Begin, Arrives
  <2> QED
    BY <2>1, OfOne DEF Invariant, SentInv, Audited, Accounted, Early
<1>1. /\ UNCHANGED <<log, transcript, footer, sent, attested, traces>>
      /\ \/ /\ pc' = [pc EXCEPT ![r] = "done"]
            /\ \/ response' = [response EXCEPT ![r] = [kind |-> "unauthorized"]]
               \/ response' = [response EXCEPT ![r] = [kind |-> "lint_error"]]
         \/ pc' = [pc EXCEPT ![r] = "read_program"] /\ UNCHANGED response
  BY DEF TurnAway, LintFails, Begin, Arrives, End, storeVars, history
<1>2. \/ pc'[r] = "done" /\ response'[r].kind \in {"unauthorized", "lint_error"}
      \/ pc'[r] = "read_program" /\ response'[r].kind = "none"
  BY <1>0, <1>1 DEF TypeOK
<1>3. Accounted(r)'
  BY <1>0, <1>1, <1>2, AccountedMoves DEF Audited, Early
<1>4. Retraced(r)'
  BY <1>0, <1>1, <1>2 DEF Retraced
<1>5. Filed(r)'
  BY <1>0, <1>1, <1>2, FiledNone
<1>6. Honest(r)'
  BY <1>0, <1>1, <1>2 DEF Honest, NoFile
<1> QED
  BY <1>3, <1>4, <1>5, <1>6 DEF Audited

LEMMA MovesAudited ==
  ASSUME Invariant, NEW r \in Runs,
         \/ ReadProgram(r) \/ WriteProgram(r)
         \/ ReadDescription(r) \/ WriteDescription(r)
  PROVE  Audited(r)'
<1>1. /\ pc[r] \in Early
      /\ pc'[r] \in {"write_program", "read_description", "write_description", "vm"}
      /\ UNCHANGED <<req, log, transcript, footer, response, sent, attested, traces>>
  BY OfOne
  DEF ReadProgram, WriteProgram, ReadDescription, WriteDescription, Moves, TypeOK, history, Early
<1>2. Audited(r) /\ traces[r] = NoFile /\ response[r].kind = "none"
  BY <1>1, OfOne DEF Early
<1>3. Accounted(r)'
  BY <1>1, <1>2, AccountedMoves DEF Audited, Early
<1>4. Retraced(r)'
  BY <1>1, <1>2, RetracedMoves DEF Audited
<1>5. Filed(r)' /\ Honest(r)'
  BY <1>1, <1>2, FiledNone, HonestOpen
<1> QED
  BY <1>3, <1>4, <1>5 DEF Audited

LEMMA StoreFailsAudited ==
  ASSUME Invariant, NEW r \in Runs, StoreFails(r)
  PROVE  Audited(r)'
<1>1. /\ pc[r] \notin {"answer", "done"}
      /\ pc'[r] = "done" /\ response'[r] = [kind |-> "store_error"]
      /\ UNCHANGED <<req, log, transcript, footer, sent, attested, traces>>
  BY OfOne DEF StoreFails, End, TypeOK, storeVars, history
<1>2. Audited(r) /\ traces[r] = NoFile
  BY <1>1, OfOne
<1>3. Accounted(r)' /\ Retraced(r)' /\ Filed(r)'
  BY <1>1, <1>2, AccountedMoves, RetracedMoves, FiledNone DEF Audited
<1>4. Honest(r)'
  BY <1>1 DEF Honest
<1> QED
  BY <1>3, <1>4 DEF Audited

\* The host adds an entry to its log when a call returns.
LEMMA LogGrows ==
  ASSUME Invariant, NEW r \in Runs, pc[r] \in {"vm", "waiting"},
         NEW entry \in LogEntries, log'[r] = Append(log[r], entry),
         transcript'[r] = transcript[r]
  PROVE  /\ RecordedCalls(r)' = RecordedCalls(r)
         /\ Len(log'[r]) = Len(log[r]) + 1
         /\ log'[r][Len(log[r]) + 1] = entry
         /\ {i \in 1..Len(log'[r]) : log'[r][i].provenance = "Attested"}
              = {i \in 1..Len(log[r]) : log[r][i].provenance = "Attested"}
                \cup (IF entry.provenance = "Attested" THEN {Len(log[r]) + 1} ELSE {})
<1>1. /\ Len(log[r]) \in Nat /\ Len(log[r]) = Len(transcript[r])
      /\ log[r] \in Seq(LogEntries)
  BY OfOne DEF Zipped
<1>2. /\ Len(log'[r]) = Len(log[r]) + 1
      /\ log'[r][Len(log[r]) + 1] = entry
      /\ \A i \in 1..Len(log[r]) : log'[r][i] = log[r][i]
  BY <1>1
<1>3. RecordedCalls(r)' = RecordedCalls(r)
  BY <1>1, <1>2 DEF RecordedCalls
<1>4. 1..Len(log'[r]) = 1..Len(log[r]) \cup {Len(log[r]) + 1}
  BY <1>1, <1>2
<1> QED
  BY <1>2, <1>3, <1>4

LEMMA RefuseAudited ==
  ASSUME Invariant, NEW r \in Runs, Refuse(r)
  PROVE  Audited(r)'
<1>1. PICK call \in Calls :
        /\ decide(Principal(r), Allowed(r), call) # "Allowed"
        /\ log' = [log EXCEPT ![r] = Append(@,
                    [decision   |-> decide(Principal(r), Allowed(r), call),
                     provenance |-> "Unsigned"])]
  BY DEF Refuse
<1> DEFINE entry == [decision   |-> decide(Principal(r), Allowed(r), call),
                     provenance |-> "Unsigned"]
<1>2. /\ entry \in LogEntries /\ entry.decision # "Allowed" /\ entry.provenance = "Unsigned"
      /\ log'[r] = Append(log[r], entry)
  BY <1>1, OfOne DEF decide, LogEntries, Decisions, Tags, TypeOK
<1> HIDE DEF entry
<1>3. /\ pc[r] = "vm" /\ pc'[r] = "returned"
      /\ UNCHANGED <<req, transcript, footer, response, sent, attested, traces>>
  BY OfOne DEF Refuse, TypeOK, storeVars, history
<1>4. Audited(r) /\ traces[r] = NoFile /\ response[r].kind = "none"
  BY <1>3, OfOne
<1>5. Accounted(r)'
  <2>1. /\ RecordedCalls(r)' = RecordedCalls(r)
        /\ log'[r][Len(log'[r])] = entry
        /\ {i \in 1..Len(log'[r]) : log'[r][i].provenance = "Attested"}
             = {i \in 1..Len(log[r]) : log[r][i].provenance = "Attested"}
    BY <1>2, <1>3, LogGrows
  <2>2. OpenCall(r) = {} /\ OpenCall(r)' = {}
    BY <1>2, <1>3, <2>1 DEF OpenCall
  <2> QED
    BY <1>3, <1>4, <2>1, <2>2 DEF Audited, Accounted, Early
<1>6. Retraced(r)' /\ Filed(r)' /\ Honest(r)'
  BY <1>3, <1>4, RetracedMoves, FiledNone, HonestOpen DEF Audited
<1> QED
  BY <1>5, <1>6 DEF Audited

\* Every call that was sent before has an earlier position.
LEMMA EarlierPositions ==
  ASSUME Invariant, NEW r \in Runs, pc[r] = "vm"
  PROVE  \A e \in Range(sent[r]) : e[1] < NextPosition(r)
<1>1. Range(sent[r]) = RecordedCalls(r)
  BY OfOne DEF Audited, Accounted, OpenCall
<1>2. Len(transcript[r]) = Len(log[r]) /\ Len(log[r]) \in Nat
  BY OfOne DEF Zipped
<1> QED
  BY <1>1, <1>2 DEF RecordedCalls, NextPosition

LEMMA DispatchAudited ==
  ASSUME Invariant, NEW r \in Runs, Dispatch(r)
  PROVE  Audited(r)'
<1>1. PICK call \in Calls :
        /\ VmStep(r) = CallStep(call)
        /\ sent' = [sent EXCEPT ![r] = Append(@, <<NextPosition(r), call>>)]
  BY DEF Dispatch
<1>2. /\ pc[r] = "vm" /\ pc'[r] = "waiting"
      /\ UNCHANGED <<req, log, transcript, footer, response, attested, traces>>
  BY OfOne DEF Dispatch, TypeOK, storeVars
<1>3. Audited(r) /\ traces[r] = NoFile /\ response[r].kind = "none"
  BY <1>2, OfOne
<1> DEFINE e == <<NextPosition(r), call>>
<1>4. e \in Nat \X Calls /\ e[1] = NextPosition(r)
  BY OfOne DEF NextPosition
<1>5. /\ sent'[r] = Append(sent[r], e) /\ sent[r] \in Seq(Nat \X Calls)
      /\ Len(sent[r]) \in Nat
  BY <1>1, OfOne DEF TypeOK
<1> HIDE DEF e
<1>6. Range(sent'[r]) = Range(sent[r]) \cup {e}
  BY <1>4, <1>5, RangeOfAppend
<1>7. \A j, k \in DOMAIN sent'[r] : j < k => sent'[r][j][1] < sent'[r][k][1]
  <2>1. /\ DOMAIN sent'[r] = 1..(Len(sent[r]) + 1) /\ DOMAIN sent[r] = 1..Len(sent[r])
        /\ sent'[r][Len(sent[r]) + 1] = e
        /\ \A i \in 1..Len(sent[r]) : sent'[r][i] = sent[r][i] /\ sent[r][i] \in Range(sent[r])
    BY <1>4, <1>5 DEF Range
  <2> SUFFICES ASSUME NEW j \in 1..(Len(sent[r]) + 1), NEW k \in 1..(Len(sent[r]) + 1), j < k
               PROVE  sent'[r][j][1] < sent'[r][k][1]
    BY <2>1
  <2>2. j \in 1..Len(sent[r])
    BY <1>5
  <2>3. CASE k = Len(sent[r]) + 1
    BY <1>2, <1>4, <2>1, <2>2, <2>3, EarlierPositions
  <2>4. CASE k \in 1..Len(sent[r])
    BY <1>3, <2>1, <2>2, <2>4 DEF Audited, Accounted
  <2> QED
    BY <1>5, <2>3, <2>4
<1>8. Accounted(r)'
  <2>1. VmStep(r)' = VmStep(r) /\ VmStep(r).call = call
    BY <1>1, <1>2, VmStepFrame DEF CallStep
  <2>2. OpenCall(r) = {} /\ OpenCall(r)' = {e}
    BY <1>2, <2>1 DEF OpenCall, NextPosition, e
  <2>3. RecordedCalls(r)' = RecordedCalls(r)
    BY <1>2, SameCalls
  <2> QED
    BY <1>2, <1>3, <1>6, <1>7, <2>2, <2>3 DEF Audited, Accounted, Early
<1>9. Retraced(r)' /\ Filed(r)' /\ Honest(r)'
  BY <1>2, <1>3, RetracedMoves, FiledNone, HonestOpen DEF Audited
<1> QED
  BY <1>8, <1>9 DEF Audited

LEMMA ReplyAudited ==
  ASSUME Invariant, NEW r \in Runs, Reply(r)
  PROVE  Audited(r)'
<1>1. /\ pc[r] = "waiting" /\ pc'[r] = "returned"
      /\ UNCHANGED <<req, transcript, footer, response, sent, traces>>
  BY OfOne DEF Reply, TypeOK, storeVars
<1>2. Audited(r) /\ traces[r] = NoFile /\ response[r].kind = "none" /\ TypeOK
  BY <1>1, OfOne
<1>3. \E tag \in Tags :
        /\ log' = [log EXCEPT ![r] = Append(@, [decision |-> "Allowed", provenance |-> tag])]
        /\ attested' = IF tag = "Attested"
                       THEN [attested EXCEPT ![r] = @ \cup {NextPosition(r)}] ELSE attested
  BY <1>2, ReplyEffect DEF Tags
<1>4. PICK tag \in Tags :
        /\ log' = [log EXCEPT ![r] = Append(@, [decision |-> "Allowed", provenance |-> tag])]
        /\ attested' = IF tag = "Attested"
                       THEN [attested EXCEPT ![r] = @ \cup {NextPosition(r)}] ELSE attested
  BY <1>3
<1> DEFINE entry == [decision |-> "Allowed", provenance |-> tag]
<1>5. /\ entry \in LogEntries /\ entry.decision = "Allowed" /\ entry.provenance = tag
      /\ log'[r] = Append(log[r], entry)
      /\ attested'[r] = attested[r] \cup (IF tag = "Attested" THEN {NextPosition(r)} ELSE {})
  BY <1>2, <1>4 DEF LogEntries, Decisions, TypeOK
<1> HIDE DEF entry
<1>6. Accounted(r)'
  <2>1. /\ RecordedCalls(r)' = RecordedCalls(r)
        /\ Len(log'[r]) = NextPosition(r)
        /\ log'[r][Len(log'[r])] = entry
        /\ {i \in 1..Len(log'[r]) : log'[r][i].provenance = "Attested"} = attested'[r]
    BY <1>1, <1>2, <1>5, LogGrows DEF NextPosition, Audited, Accounted
  <2>2. VmStep(r)' = VmStep(r)
    BY <1>1, VmStepFrame
  <2>3. OpenCall(r)' = OpenCall(r)
    BY <1>1, <1>5, <2>1, <2>2 DEF OpenCall
  <2> QED
    BY <1>1, <1>2, <2>1, <2>3 DEF Audited, Accounted, Early
<1>7. Retraced(r)' /\ Filed(r)' /\ Honest(r)'
  BY <1>1, <1>2, RetracedMoves, FiledNone, HonestOpen DEF Audited
<1> QED
  BY <1>6, <1>7 DEF Audited

LEMMA CoreRecordsAudited ==
  ASSUME Invariant, NEW r \in Runs, CoreRecords(r)
  PROVE  Audited(r)'
<1>0. Audited(r) /\ TypeOK /\ Zipped(r)
  BY OfOne
<1>1. /\ pc[r] = "returned"
      /\ UNCHANGED <<req, log, footer, response, sent, attested, traces>>
  BY DEF CoreRecords, storeVars, history
<1>2. /\ traces[r] = NoFile /\ response[r].kind = "none"
      /\ Len(log[r]) = Len(transcript[r]) + 1
      /\ Len(transcript[r]) \in Nat /\ transcript[r] \in Seq(Records)
  BY <1>1, OfOne DEF Zipped
<1>3. PICK call \in Calls : VmStep(r) = CallStep(call)
  BY <1>1 DEF Invariant, TypeInv, PendingCall
<1> DEFINE record == [call |-> VmStep(r).call, response |-> result[r],
                      attestation |-> IF result[r].ok THEN attestation[r] ELSE NoAttestation]
<1>4. transcript' = [transcript EXCEPT ![r] = Append(@, record)] /\ pc' = [pc EXCEPT ![r] = "vm"]
  BY <1>0, <1>1, CoreRecordsEffect DEF Zipped
<1>5. record.call = call /\ VmStep(r).call = call
  BY <1>3 DEF CallStep
<1> HIDE DEF record
<1>6. transcript'[r] = Append(transcript[r], record) /\ pc'[r] = "vm"
  BY <1>0, <1>4 DEF TypeOK
<1> DEFINE n == Len(transcript[r])
<1>7. /\ Len(transcript'[r]) = n + 1
      /\ transcript'[r][n + 1] = record
      /\ \A i \in 1..n : transcript'[r][i] = transcript[r][i]
  BY <1>2, <1>6
<1>8. Accounted(r)'
  <2>1. 1..(n + 1) = 1..n \cup {n + 1} /\ n + 1 = Len(log[r])
    BY <1>2
  <2>2. RecordedCalls(r)' = RecordedCalls(r) \cup
          (IF log[r][n + 1].decision = "Allowed" THEN {<<n + 1, call>>} ELSE {})
    BY <1>1, <1>5, <1>7, <2>1 DEF RecordedCalls
  <2>3. OpenCall(r) = (IF log[r][n + 1].decision = "Allowed" THEN {<<n + 1, call>>} ELSE {})
    BY <1>1, <1>5, <2>1 DEF OpenCall
  <2>4. OpenCall(r)' = {}
    BY <1>6 DEF OpenCall
  <2> QED
    BY <1>0, <1>1, <1>2, <1>6, <2>2, <2>3, <2>4 DEF Audited, Accounted, Early
<1>9. Retraced(r)'
  <2>1. ProgramHash(r)' = ProgramHash(r)
    BY <1>1 DEF ProgramHash, Description, Allowed, Principal
  <2>2. ASSUME NEW i \in 1..(n + 1)
        PROVE  VmNext(ProgramHash(r), [j \in 1..(i - 1) |-> transcript'[r][j].response])
                 = CallStep(transcript'[r][i].call)
    <3>1. [j \in 1..(i - 1) |-> transcript'[r][j].response]
            = [j \in 1..(i - 1) |-> transcript[r][j].response]
      BY <1>2, <1>7
    <3>2. CASE i = n + 1
      <4>1. [j \in 1..(i - 1) |-> transcript[r][j].response] = Observed(transcript[r])
        BY <1>2, <3>2 DEF Observed
      <4> QED
        BY <1>3, <1>5, <1>7, <3>1, <3>2, <4>1 DEF VmStep
    <3>3. CASE i \in 1..n
      BY <1>0, <1>7, <3>1, <3>3 DEF Audited, Retraced
    <3> QED
      BY <1>2, <3>2, <3>3
  <2> QED
    BY <1>6, <1>7, <2>1, <2>2 DEF Retraced, CallStep
<1>10. Filed(r)' /\ Honest(r)'
  BY <1>1, <1>2, <1>6, FiledNone, HonestOpen
<1> QED
  BY <1>8, <1>9, <1>10 DEF Audited

LEMMA FinishAudited ==
  ASSUME Invariant, NEW r \in Runs, Finish(r)
  PROVE  Audited(r)'
<1>0. Audited(r) /\ TypeOK /\ Zipped(r)
  BY OfOne
<1>1. PICK end \in EndSteps :
        /\ VmEnds(r, end)
        /\ footer' = [footer EXCEPT ![r] = FooterOf(end, req[r].program)]
        /\ IF Len(transcript[r]) = Len(log[r])
           THEN pc' = [pc EXCEPT ![r] = "store_trace"] /\ UNCHANGED response
           ELSE End(r, [kind |-> "panicked"])
        /\ UNCHANGED <<req, log, attestation, result, transcript>>
        /\ UNCHANGED <<storeVars, crashes, history>>
  BY DEF Finish
<1>2. pc[r] = "vm" /\ VmStep(r) = end
  BY <1>0, <1>1 DEF VmEnds, Zipped
<1>3. /\ pc'[r] = "store_trace" /\ UNCHANGED response
      /\ footer'[r] = FooterOf(end, req[r].program)
      /\ UNCHANGED <<req, log, transcript, sent, attested, traces>>
  BY <1>0, <1>1, <1>2 DEF Zipped, TypeOK, storeVars, history
<1>4. traces[r] = NoFile /\ response[r].kind = "none"
  BY <1>2, OfOne
<1>5. Accounted(r)'
  BY <1>0, <1>2, <1>3, <1>4, AccountedMoves DEF Audited, Early
<1>6. Retraced(r)'
  <2>1. VmStep(r)' = end /\ ProgramHash(r)' = ProgramHash(r)
    BY <1>2, <1>3, SameRun
  <2> QED
    BY <1>0, <1>3, <2>1 DEF Audited, Retraced
<1>7. Filed(r)' /\ Honest(r)'
  BY <1>3, <1>4, FiledNone, HonestOpen
<1> QED
  BY <1>5, <1>6, <1>7 DEF Audited

LEMMA StoreTraceAudited ==
  ASSUME Invariant, NEW r \in Runs, StoreTrace(r)
  PROVE  Audited(r)'
<1>0. Audited(r) /\ TypeOK /\ Zipped(r)
  BY OfOne
<1>1. /\ pc[r] = "store_trace" /\ pc'[r] = "answer"
      /\ traces'[r] = TraceOf(r)
      /\ UNCHANGED <<req, log, transcript, footer, response, sent, attested>>
  BY <1>0 DEF StoreTrace, TypeOK, history
<1>2. response[r].kind = "none"
  BY <1>1, OfOne
<1>3. Accounted(r)'
  BY <1>0, <1>1, <1>2, AccountedMoves DEF Audited, Early
<1>4. Retraced(r)'
  BY <1>0, <1>1, RetracedMoves DEF Audited
<1>5. Filed(r)'
  <2>1. TraceOf(r)' = TraceOf(r) /\ TraceOf(r) # NoFile
    BY <1>1, SameTrace DEF TraceOf, NoFile
  <2>2. Range(sent[r]) = RecordedCalls(r) /\ Len(transcript[r]) = Len(log[r])
    BY <1>0, <1>1 DEF Audited, Accounted, OpenCall, Zipped
  <2>3. RecordedCalls(r)' = RecordedCalls(r) /\ VmStep(r)' = VmStep(r)
    BY <1>1, SameCalls, SameRun
  <2>4. \E end \in EndSteps : /\ VmStep(r) = end
                              /\ footer[r] = FooterOf(end, req[r].program)
    BY <1>0, <1>1 DEF Audited, Retraced
  <2>5. traces'[r] # NoFile' /\ traces'[r] = TraceOf(r)'
    BY <1>1, <2>1 DEF NoFile
  <2> QED
    BY <1>1, <2>2, <2>3, <2>4, <2>5 DEF Filed
<1>6. Honest(r)'
  BY <1>1, <1>2, HonestOpen
<1> QED
  BY <1>3, <1>4, <1>5, <1>6 DEF Audited

LEMMA AnswerAudited ==
  ASSUME Invariant, NEW r \in Runs, Answer(r)
  PROVE  Audited(r)'
<1>0. Audited(r) /\ TypeOK
  BY OfOne
<1>1. /\ pc[r] = "answer" /\ pc'[r] = "done"
      /\ response'[r] = [kind |-> "run", trace_id |-> r, output |-> footer[r].output,
                         status |-> footer[r].status]
      /\ UNCHANGED <<req, log, transcript, footer, sent, attested, traces>>
  BY <1>0 DEF Answer, End, TypeOK, storeVars, history
<1>2. Accounted(r)' /\ Retraced(r)' /\ Filed(r)'
  BY <1>0, <1>1, AccountedMoves, RetracedMoves, FiledMoves DEF Audited
<1>3. Honest(r)'
  BY <1>0, <1>1 DEF Audited, Filed, Honest, NoFile
<1> QED
  BY <1>2, <1>3 DEF Audited

LEMMA DieAudited ==
  ASSUME Invariant, NEW r \in Runs, Die
  PROVE  Audited(r)'
<1>0. Audited(r) /\ TypeOK
  BY OfOne
<1>1. /\ pc'[r] = IF Live(r) THEN "done" ELSE pc[r]
      /\ response'[r] = IF Live(r) THEN [kind |-> "lost"] ELSE response[r]
      /\ UNCHANGED <<req, log, transcript, footer, sent, attested, traces>>
  BY DEF Die, storeVars, history
<1>2. CASE ~Live(r)
  BY <1>0, <1>1, <1>2, AuditedUntouched DEF Untouched
<1>3. CASE Live(r)
  <2>1. Accounted(r)' /\ Retraced(r)' /\ Filed(r)'
    BY <1>0, <1>1, <1>3, AccountedMoves, RetracedMoves, FiledMoves DEF Audited
  <2>2. Honest(r)'
    BY <1>1, <1>3 DEF Honest
  <2> QED
    BY <2>1, <2>2 DEF Audited
<1> QED
  BY <1>2, <1>3

-----------------------------------------------------------------------------
(* The invariant *)

LEMMA StepAuditInv == Invariant /\ [Next]_vars => AuditInv'
<1> SUFFICES ASSUME Invariant, [Next]_vars, NEW q \in Runs
             PROVE  Audited(q)'
  BY DEF AuditInv
<1>0. TypeOK /\ Audited(q)
  BY OfOne
<1>1. ASSUME NEW r \in Runs, TurnAway(r) \/ LintFails(r) \/ Begin(r) \/ Serve(r)
      PROVE  Audited(q)'
  <2>1. CASE q = r
    BY <1>1, <2>1, ArrivesAudited, MovesAudited, StoreFailsAudited, RefuseAudited,
       DispatchAudited, ReplyAudited, CoreRecordsAudited, FinishAudited, StoreTraceAudited,
       AnswerAudited
    DEF Serve
  <2>2. CASE q # r
    BY <1>0, <1>1, <2>2, OthersUntouched, AuditedUntouched
  <2> QED
    BY <2>1, <2>2
<1>2. CASE Die
  BY <1>2, DieAudited
<1>3. CASE UNCHANGED vars
  BY <1>0, <1>3, AuditedUntouched DEF Untouched, vars, runVars, storeVars, history
<1> QED
  BY <1>1, <1>2, <1>3 DEF Next

\* The files only ever get more, each under the hash of its content.
LEMMA FilesGrow ==
  ASSUME Invariant, [Next]_vars
  PROVE  /\ DOMAIN programs \subseteq DOMAIN programs'
         /\ descriptions \subseteq descriptions'
         /\ \A h \in DOMAIN programs' : Code(programs'[h].prelude, programs'[h].program) = h
<1>1. ASSUME NEW r \in Runs, WriteProgram(r)
      PROVE  /\ DOMAIN programs \subseteq DOMAIN programs'
             /\ \A h \in DOMAIN programs' : Code(programs'[h].prelude, programs'[h].program) = h
             /\ descriptions' = descriptions
  <2>1. /\ programs' = [h \in DOMAIN programs \cup {ProgramHash(r)} |->
                          IF h = ProgramHash(r) THEN Source(r) ELSE programs[h]]
        /\ descriptions' = descriptions
    BY <1>1 DEF WriteProgram
  <2>2. Code(Source(r).prelude, Source(r).program) = ProgramHash(r)
    BY DEF Source, ProgramHash
  <2> HIDE DEF Invariant
  <2>3. ASSUME NEW h \in DOMAIN programs'
        PROVE  Code(programs'[h].prelude, programs'[h].program) = h
    <3>1. CASE h = ProgramHash(r)
      <4>1. programs'[h] = Source(r)
        BY <2>1, <3>1
      <4> QED
        BY <2>2, <3>1, <4>1
    <3>2. CASE h # ProgramHash(r)
      <4>1. programs'[h] = programs[h] /\ h \in DOMAIN programs
        BY <2>1, <2>3, <3>2
      <4> QED
        BY <4>1 DEF Invariant, FileInv
    <3> QED
      BY <3>1, <3>2
  <2> QED
    BY <2>1, <2>3
<1>2. \/ UNCHANGED <<programs, descriptions>>
      \/ \E r \in Runs : WriteProgram(r)
      \/ /\ UNCHANGED programs
         /\ \E r \in Runs : descriptions' = descriptions \cup {Description(r)}
  BY ZenonT(30) DEF Next, Serve, TurnAway, LintFails, Begin, Arrives, ReadProgram, ReadDescription,
         WriteDescription, StoreFails, Refuse, Dispatch, Reply, CoreRecords, Finish, StoreTrace,
         Answer, Die, vars, storeVars
<1> QED
  BY <1>1, <1>2 DEF Invariant, FileInv

\* A request that has its files keeps them.
LEMMA FilesAreKept ==
  ASSUME Invariant, [Next]_vars, NEW q \in Runs, req'[q] = req[q], HasFiles(q),
         \/ pc'[q] = pc[q] /\ traces'[q] = traces[q]
         \/ pc[q] \notin Early /\ pc[q] # "done" /\ pc'[q] \notin Early
         \/ pc'[q] = "done" /\ traces'[q] = NoFile
  PROVE  HasFiles(q)'
<1>1. ProgramHash(q)' = ProgramHash(q) /\ Description(q)' = Description(q)
  BY DEF ProgramHash, Description, Allowed, Principal
<1>2. DOMAIN programs \subseteq DOMAIN programs' /\ descriptions \subseteq descriptions'
  BY FilesGrow
<1> QED
  BY <1>1, <1>2 DEF HasFiles, NoFile, Early

LEMMA StepFileInv == Invariant /\ [Next]_vars => FileInv'
<1> SUFFICES ASSUME Invariant, [Next]_vars PROVE FileInv'
  OBVIOUS
<1>1. \A h \in DOMAIN programs' : Code(programs'[h].prelude, programs'[h].program) = h
  BY FilesGrow
<1>2. ASSUME NEW q \in Runs PROVE HasFiles(q)'
  <2>0. /\ TypeOK /\ HasFiles(q)
        /\ pc[q] \notin {"answer", "done"} => traces[q] = NoFile
    BY OfOne DEF Invariant, FileInv
  <2>1. ASSUME NEW r \in Runs, TurnAway(r) \/ LintFails(r) \/ Begin(r) \/ Serve(r), q # r
        PROVE  HasFiles(q)'
    <3>1. Untouched(q)
      BY <2>0, <2>1, OthersUntouched
    <3> QED
      BY <2>0, <3>1, FilesAreKept DEF Untouched
  <2>2. CASE TurnAway(q) \/ LintFails(q) \/ Begin(q)
    <3>1. /\ pc[q] = "idle" /\ UNCHANGED traces
          /\ pc' \in {[pc EXCEPT ![q] = "done"], [pc EXCEPT ![q] = "read_program"]}
      BY <2>2 DEF TurnAway, LintFails, Begin, Arrives, End, storeVars
    <3>2. traces'[q] = NoFile /\ pc'[q] \in {"done", "read_program"}
      BY <2>0, <3>1 DEF TypeOK
    <3> QED
      BY <3>2 DEF HasFiles, Early, NoFile
  <2>3. CASE ReadProgram(q) \/ WriteProgram(q)
    <3>1. /\ UNCHANGED req
          /\ \/ pc'[q] = "write_program"
             \/ pc'[q] = "read_description" /\ ProgramHash(q) \in DOMAIN programs'
      BY <2>0, <2>3 DEF ReadProgram, WriteProgram, Moves, TypeOK
    <3>2. ProgramHash(q)' = ProgramHash(q)
      BY <3>1 DEF ProgramHash, Description, Allowed, Principal
    <3> QED
      BY <3>1, <3>2 DEF HasFiles, Early
  <2>4. CASE ReadDescription(q) \/ WriteDescription(q)
    <3>1. /\ UNCHANGED <<req, programs>>
          /\ pc[q] \in {"read_description", "write_description"}
          /\ \/ pc'[q] = "write_description"
             \/ pc'[q] = "vm" /\ Description(q) \in descriptions'
      BY <2>0, <2>4 DEF ReadDescription, WriteDescription, Moves, TypeOK
    <3>2. ProgramHash(q)' = ProgramHash(q) /\ Description(q)' = Description(q)
      BY <3>1 DEF ProgramHash, Description, Allowed, Principal
    <3> QED
      BY <2>0, <3>1, <3>2 DEF HasFiles, Early
  <2>5. CASE StoreFails(q)
    <3>1. pc'[q] = "done" /\ traces'[q] = NoFile /\ req' = req
      BY <2>0, <2>5 DEF StoreFails, End, TypeOK, storeVars
    <3> QED
      BY <2>0, <3>1, FilesAreKept
  <2>6. CASE \/ Refuse(q) \/ Dispatch(q) \/ Reply(q) \/ CoreRecords(q)
             \/ Finish(q) \/ StoreTrace(q) \/ Answer(q)
    <3>1. /\ pc[q] \in {"vm", "waiting", "returned", "vm_failed", "store_trace", "answer"}
          /\ UNCHANGED req
          /\ \E to \in {"vm", "waiting", "returned", "vm_failed", "store_trace", "answer", "done"} :
               pc' = [pc EXCEPT ![q] = to]
      BY <2>6 DEF Refuse, Dispatch, Reply, CoreRecords, Finish, VmEnds, StoreTrace, Answer, End
    <3>2. pc'[q] \in {"vm", "waiting", "returned", "vm_failed", "store_trace", "answer", "done"}
      BY <2>0, <3>1 DEF TypeOK
    <3> QED
      BY <2>0, <3>1, <3>2, FilesAreKept DEF Early
  <2>7. CASE Die
    <3>1. /\ pc'[q] = IF Live(q) THEN "done" ELSE pc[q]
          /\ UNCHANGED <<req, traces>>
      BY <2>7 DEF Die, storeVars
    <3>2. CASE pc[q] = "answer" \/ ~Live(q)
      BY <2>0, <3>1, <3>2, FilesAreKept DEF Live, Early
    <3>3. CASE pc[q] # "answer" /\ Live(q)
      BY <2>0, <3>1, <3>3, FilesAreKept DEF Live
    <3> QED
      BY <3>2, <3>3
  <2>8. CASE UNCHANGED vars
    BY <2>0, <2>8, FilesAreKept DEF vars, runVars, storeVars
  <2>9. ASSUME NEW r \in Runs, TurnAway(r) \/ LintFails(r) \/ Begin(r) \/ Serve(r)
        PROVE  HasFiles(q)'
    <3>1. CASE q # r
      BY <2>1, <2>9, <3>1
    <3>2. CASE q = r
      BY <2>2, <2>3, <2>4, <2>5, <2>6, <2>9, <3>2 DEF Serve
    <3> QED
      BY <3>1, <3>2
  <2> QED
    BY <2>7, <2>8, <2>9 DEF Next
<1> QED
  BY <1>1, <1>2 DEF FileInv

LEMMA StepIdleInv == Invariant /\ [Next]_vars => IdleInv'
<1> SUFFICES ASSUME Invariant, [Next]_vars, NEW q \in Runs, pc'[q] = "idle"
             PROVE  req'[q] = NoRequest
  BY DEF IdleInv, NoRequest
<1>0. TypeOK /\ (pc[q] = "idle" => req[q] = NoRequest)
  BY OfOne DEF Invariant, IdleInv
<1>1. ASSUME NEW r \in Runs, TurnAway(r) \/ LintFails(r) \/ Begin(r) \/ Serve(r)
      PROVE  req'[q] = NoRequest
  <2>1. CASE q # r
    BY <1>0, <1>1, <2>1, OthersUntouched DEF Untouched
  <2>2. CASE q = r
    <3>1. \E to \in PcValues \ {"idle"} : pc' = [pc EXCEPT ![r] = to]
      BY <1>1 DEF Serve, TurnAway, LintFails, Begin, ReadProgram, WriteProgram, ReadDescription,
                  WriteDescription, Moves, StoreFails, Refuse, Dispatch, Reply, CoreRecords,
                  Finish, StoreTrace, Answer, End, PcValues
    <3> QED
      BY <1>0, <2>2, <3>1 DEF TypeOK
  <2> QED
    BY <2>1, <2>2
<1>2. CASE Die
  BY <1>0, <1>2 DEF Die, Live
<1>3. CASE UNCHANGED vars
  BY <1>0, <1>3 DEF vars, runVars
<1> QED
  BY <1>1, <1>2, <1>3 DEF Next

LEMMA InvariantAtFirst == Init => Invariant
<1> SUFFICES ASSUME Init PROVE Invariant
  OBVIOUS
<1>1. TypeInv
  BY InitTypeInv
<1>2. SentInv
  BY DEF Init, SentInv, OnlyPermittedCallsAreSent, Live, Range
<1>3. ZipInv
  BY DEF Init, ZipInv, Zipped, NoResponse
<1>4. ASSUME NEW r \in Runs PROVE Audited(r)
  <2>1. /\ pc[r] = "idle" /\ log[r] = << >> /\ transcript[r] = << >> /\ sent[r] = << >>
        /\ response[r].kind = "none" /\ traces[r] = NoFile /\ attested[r] = {}
    BY DEF Init, NoResponse
  <2>2. Range(sent[r]) = {} /\ RecordedCalls(r) = {} /\ OpenCall(r) = {}
    BY <2>1 DEF Range, RecordedCalls, OpenCall
  <2>3. Accounted(r)
    BY <2>1, <2>2 DEF Accounted
  <2> QED
    BY <2>1, <2>3 DEF Audited, Retraced, Filed, Honest
<1>5. FileInv /\ IdleInv
  BY DEF Init, FileInv, HasFiles, IdleInv, Early
<1> QED
  BY <1>1, <1>2, <1>3, <1>4, <1>5 DEF Invariant, AuditInv

LEMMA InvariantHolds == Spec => []Invariant
<1>1. Invariant /\ [Next]_vars => Invariant'
  BY StepTypeInv, StepSentInv, StepZipInv, StepAuditInv, StepFileInv, StepIdleInv DEF Invariant
<1> QED
  BY <1>1, InvariantAtFirst, PTL DEF Spec

-----------------------------------------------------------------------------
(* What the traces say *)

\* The entries of a trace are the records of its transcript with the host's
\* decision about each.
LEMMA TracedIsRecorded ==
  ASSUME NEW r \in Runs
  PROVE  TracedCalls(TraceOf(r)) = RecordedCalls(r)
<1>1. TraceOf(r).entries = Entries(r)
  BY DEF TraceOf
<1>2. DOMAIN Entries(r) = 1..Len(transcript[r])
  BY DEF Entries
<1>3. \A i \in 1..Len(transcript[r]) : /\ Entries(r)[i].record = transcript[r][i]
                                       /\ Entries(r)[i].decision = log[r][i].decision
  BY DEF Entries
<1> QED
  BY <1>1, <1>2, <1>3 DEF TracedCalls, RecordedCalls

LEMMA InvariantAccounts == Invariant => TraceAccountsForEveryCall
<1> SUFFICES ASSUME Invariant, NEW r \in Runs, traces[r] # NoFile
             PROVE  /\ traces[r].principal = Principal(r)
                    /\ TracedCalls(traces[r]) = Range(sent[r])
                    /\ \A j, k \in DOMAIN sent[r] : j < k => sent[r][j][1] < sent[r][k][1]
                    /\ {i \in DOMAIN traces[r].entries :
                          traces[r].entries[i].provenance = "Attested"} = attested[r]
  BY DEF TraceAccountsForEveryCall
<1>1. /\ traces[r] = TraceOf(r) /\ Len(transcript[r]) = Len(log[r])
      /\ Range(sent[r]) = RecordedCalls(r) /\ Accounted(r)
  BY OfOne DEF Audited, Filed
<1>2. traces[r].principal = Principal(r) /\ traces[r].entries = Entries(r)
  BY <1>1 DEF TraceOf
<1>3. {i \in DOMAIN traces[r].entries :
         traces[r].entries[i].provenance = "Attested"} = attested[r]
  <2>1. /\ DOMAIN Entries(r) = 1..Len(log[r])
        /\ \A i \in 1..Len(log[r]) : Entries(r)[i].provenance = log[r][i].provenance
    BY <1>1 DEF Entries
  <2> QED
    BY <1>1, <1>2, <2>1 DEF Accounted
<1> QED
  BY <1>1, <1>2, <1>3, TracedIsRecorded DEF Accounted

\* A stored trace has exactly the calls that were sent, in their order, under the
\* principal of the token, and marks exactly the attested ones so: for every
\* program, every sequence of replies and every point where the store or the
\* process fails.
THEOREM TracesAccountForCalls == Spec => []TraceAccountsForEveryCall
BY InvariantHolds, InvariantAccounts, PTL

LEMMA InvariantIsHonest == Invariant => AnswersAreHonest
<1> SUFFICES ASSUME Invariant, NEW r \in Runs
             PROVE  /\ response[r].kind = "run" =>
                         /\ traces[r] # NoFile
                         /\ response[r].status = traces[r].footer.status
                         /\ response[r].output = traces[r].footer.output
                    /\ response[r].kind \in {"lint_error", "unauthorized"} =>
                         sent[r] = << >> /\ traces[r] = NoFile
                    /\ pc[r] = "done" /\ sent[r] # << >> /\ traces[r] = NoFile =>
                         response[r].kind \in {"store_error", "lost"}
  BY DEF AnswersAreHonest
<1>1. Honest(r) /\ Filed(r)
  BY OfOne DEF Audited
<1>2. traces[r] # NoFile => traces[r].footer = footer[r]
  BY <1>1 DEF Filed, TraceOf
<1> QED
  BY <1>1, <1>2 DEF Honest

\* What a caller is told is what the trace says, and calls that are in no trace
\* were answered with a store error, or lost with the process.
THEOREM CallersAreToldTheTruth == Spec => []AnswersAreHonest
BY InvariantHolds, InvariantIsHonest, PTL

LEMMA InvariantReplays == Invariant => StoredTracesReplay
<1> SUFFICES ASSUME Invariant, NEW r \in Runs, traces[r] # NoFile
             PROVE  /\ traces[r].program_hash \in DOMAIN programs
                    /\ traces[r].description_hash \in descriptions
                    /\ ReplayMatches(traces[r])
  BY DEF StoredTracesReplay
<1> DEFINE t == traces[r]
           n == Len(transcript[r])
           source == programs[t.program_hash]
<1>1. /\ t = TraceOf(r) /\ pc[r] \in {"answer", "done"} /\ Retraced(r) /\ n \in Nat
      /\ transcript[r] \in Seq(Records)
      /\ \E end \in EndSteps : VmStep(r) = end /\ footer[r] = FooterOf(end, req[r].program)
  BY OfOne DEF Audited, Filed
<1>2. /\ t.program_hash = ProgramHash(r) /\ t.description_hash = Description(r)
      /\ t.entries = Entries(r) /\ t.footer = footer[r]
  BY <1>1 DEF TraceOf
<1>3. t.program_hash \in DOMAIN programs /\ t.description_hash \in descriptions
  BY <1>1, <1>2 DEF Invariant, FileInv, HasFiles, Early
<1>4. Code(source.prelude, source.program) = t.program_hash
  BY <1>3 DEF Invariant, FileInv
<1>5. /\ Len(t.entries) = n
      /\ \A i \in 1..n : t.entries[i].record = transcript[r][i]
  <2>1. \A i \in 1..n : Entries(r)[i].record = transcript[r][i]
    BY DEF Entries
  <2>2. DOMAIN Entries(r) = 1..n
    BY DEF Entries
  <2>3. Entries(r) \in Seq(Range(Entries(r)))
    <3>1. Entries(r) = [i \in 1..n |-> Entries(r)[i]]
      BY DEF Entries
    <3>2. \A i \in 1..n : Entries(r)[i] \in Range(Entries(r))
      BY <2>2 DEF Range
    <3>3. Entries(r) \in [1..n -> Range(Entries(r))]
      BY <3>1, <3>2
    <3> HIDE DEF n
    <3> QED
      BY <1>1, <3>3
  <2>4. Len(Entries(r)) = n
    BY <1>1, <2>2, <2>3
  <2> QED
    BY <1>2, <2>1, <2>4
<1>6. ASSUME NEW m \in 0..n
      PROVE  [i \in 1..m |-> t.entries[i].record.response]
               = [i \in 1..m |-> transcript[r][i].response]
  BY <1>1, <1>5
<1>7. \A i \in 1..n : VmNext(ProgramHash(r), [j \in 1..(i - 1) |-> t.entries[j].record.response])
                        = CallStep(t.entries[i].record.call)
  <2> SUFFICES ASSUME NEW i \in 1..n
               PROVE  VmNext(ProgramHash(r), [j \in 1..(i - 1) |-> t.entries[j].record.response])
                        = CallStep(t.entries[i].record.call)
    OBVIOUS
  <2>1. i - 1 \in 0..n
    BY <1>1
  <2>2. [j \in 1..(i - 1) |-> t.entries[j].record.response]
          = [j \in 1..(i - 1) |-> transcript[r][j].response]
    BY <1>6, <2>1
  <2> HIDE DEF t, n
  <2> QED
    BY <1>1, <1>5, <2>2 DEF Retraced, n
<1>8. PICK end \in EndSteps : VmStep(r) = end /\ footer[r] = FooterOf(end, req[r].program)
  BY <1>1
<1>9. VmNext(ProgramHash(r), [i \in 1..n |-> t.entries[i].record.response]) = end
  <2>1. [i \in 1..n |-> t.entries[i].record.response] = Observed(transcript[r])
    BY <1>1, <1>6 DEF Observed
  <2> QED
    BY <1>8, <2>1 DEF VmStep
<1>10. /\ FooterOf(end, source.program).output = footer[r].output
       /\ FooterOf(end, source.program).status.kind = footer[r].status.kind
  BY <1>8 DEF FooterOf, ErrorFooter
<1> HIDE DEF n
<1>11. ReplayMatches(t)
  <2> HIDE DEF t
  <2> QED
    BY <1>2, <1>4, <1>5, <1>7, <1>8, <1>9, <1>10 DEF ReplayMatches, source
<1> QED
  BY <1>3, <1>11

\* Every stored trace replays from the moment it is stored: whatever text of its
\* program the racing puts have left in the file, it is bytecode of the recorded
\* hash, and the VM retraces the recorded run on it.
THEOREM TracesReplay == Spec => []StoredTracesReplay
BY InvariantHolds, InvariantReplays, PTL

-----------------------------------------------------------------------------
(* The gateway implements AuditLog *)

OwnerOf(r)     == IF Authenticated(r) THEN Principal(r) ELSE "nobody"
PublishedOf(r) == IF traces[r] = NoFile THEN {} ELSE {TracedCalls(traces[r])}
ClosedOf(r)    == pc[r] = "done"

\* The variables of AuditLog, as Gateway defines them.
Owner     == [r \in Runs |-> OwnerOf(r)]
Published == [r \in Runs |-> PublishedOf(r)]
Closed    == [r \in Runs |-> ClosedOf(r)]

LEMMA OthersKeepTheirs ==
  ASSUME TypeOK, NEW r \in Runs, TurnAway(r) \/ LintFails(r) \/ Begin(r) \/ Serve(r)
  PROVE  /\ Owner' = [Owner EXCEPT ![r] = OwnerOf(r)']
         /\ Published' = [Published EXCEPT ![r] = PublishedOf(r)']
         /\ Closed' = [Closed EXCEPT ![r] = ClosedOf(r)']
<1>1. ASSUME NEW q \in Runs \ {r}
      PROVE  /\ OwnerOf(q)' = OwnerOf(q)
             /\ PublishedOf(q)' = PublishedOf(q)
             /\ ClosedOf(q)' = ClosedOf(q)
  <2>1. Untouched(q)
    BY OthersUntouched
  <2> QED
    BY <2>1
    DEF Untouched, OwnerOf, PublishedOf, ClosedOf, Authenticated, Principal, TracedCalls, NoFile
<1> HIDE DEF TypeOK
<1>2. Owner' = [Owner EXCEPT ![r] = OwnerOf(r)']
  BY <1>1 DEF Owner
<1>3. Published' = [Published EXCEPT ![r] = PublishedOf(r)']
  BY <1>1 DEF Published
<1>4. Closed' = [Closed EXCEPT ![r] = ClosedOf(r)']
  BY <1>1 DEF Closed
<1> QED
  BY <1>2, <1>3, <1>4

\* Where the action of r leaves a variable of AuditLog as it is.
LEMMA KeptByR ==
  ASSUME NEW r \in Runs
  PROVE  /\ [Owner EXCEPT ![r] = OwnerOf(r)] = Owner
         /\ [Published EXCEPT ![r] = PublishedOf(r)] = Published
         /\ [Closed EXCEPT ![r] = ClosedOf(r)] = Closed
         /\ Owner[r] = OwnerOf(r) /\ Published[r] = PublishedOf(r) /\ Closed[r] = ClosedOf(r)
BY DEF Owner, Published, Closed

Principals == {PrincipalFor[t] : t \in DOMAIN PrincipalFor}

\* The actions of AuditLog, in these terms.
LEMMA AuditActions ==
  ASSUME NEW r \in Runs
  PROVE  /\ /\ Owner[r] = "nobody" /\ ~Closed[r]
            /\ \E p \in Principals : Owner' = [Owner EXCEPT ![r] = p]
            /\ sent' = sent /\ Published' = Published /\ Closed' = Closed
            => Audit!Start(r)
         /\ /\ Owner[r] = "nobody" /\ ~Closed[r]
            /\ \E p \in Principals \cup {"nobody"} : Owner' = [Owner EXCEPT ![r] = p]
            /\ Closed' = [Closed EXCEPT ![r] = TRUE]
            /\ sent' = sent /\ Published' = Published
            => Audit!Reject(r)
         /\ /\ Owner[r] \in Principals /\ ~Closed[r] /\ Published[r] = {}
            /\ \E e \in Range(sent'[r]) :
                 /\ Permitted(Owner[r], e[2])
                 /\ \A earlier \in Range(sent[r]) : earlier[1] < e[1]
                 /\ sent' = [sent EXCEPT ![r] = Append(@, e)]
            /\ Owner' = Owner /\ Published' = Published /\ Closed' = Closed
            => Audit!Act(r)
         /\ /\ ~Closed[r] /\ Published[r] = {}
            /\ Published' = [Published EXCEPT ![r] = {Range(sent[r])}]
            /\ Owner' = Owner /\ sent' = sent /\ Closed' = Closed
            => Audit!Publish(r)
<1> USE DEF Owner, Published, Closed, OwnerOf, PublishedOf, ClosedOf, Principals
<1>1. /\ Owner[r] = "nobody" /\ ~Closed[r]
      /\ \E p \in Principals : Owner' = [Owner EXCEPT ![r] = p]
      /\ sent' = sent /\ Published' = Published /\ Closed' = Closed
      => Audit!Start(r)
  BY DEF Audit!Start
<1>2. /\ Owner[r] = "nobody" /\ ~Closed[r]
      /\ \E p \in Principals \cup {"nobody"} : Owner' = [Owner EXCEPT ![r] = p]
      /\ Closed' = [Closed EXCEPT ![r] = TRUE]
      /\ sent' = sent /\ Published' = Published
      => Audit!Reject(r)
  BY DEF Audit!Reject
<1>3. /\ Owner[r] \in Principals /\ ~Closed[r] /\ Published[r] = {}
      /\ \E e \in Range(sent'[r]) :
           /\ Permitted(Owner[r], e[2])
           /\ \A earlier \in Range(sent[r]) : earlier[1] < e[1]
           /\ sent' = [sent EXCEPT ![r] = Append(@, e)]
      /\ Owner' = Owner /\ Published' = Published /\ Closed' = Closed
      => Audit!Act(r)
  BY DEF Audit!Act, Audit!Range, Range
<1>4. /\ ~Closed[r] /\ Published[r] = {}
      /\ Published' = [Published EXCEPT ![r] = {Range(sent[r])}]
      /\ Owner' = Owner /\ sent' = sent /\ Closed' = Closed
      => Audit!Publish(r)
  BY DEF Audit!Publish, Audit!Range, Range
<1> QED
  BY <1>1, <1>2, <1>3, <1>4

LEMMA AuditCloses ==
  ASSUME \A r \in Runs : Closed[r] => Closed'[r],
         Owner' = Owner, sent' = sent, Published' = Published
  PROVE  Audit!Close
<1>1. Closed' \in [Runs -> BOOLEAN]
  BY DEF Closed, ClosedOf
<1> QED
  BY <1>1 DEF Audit!Close, Owner, Published, Closed, OwnerOf, PublishedOf, ClosedOf

\* A request arrives: it is attributed, or it is refused.
LEMMA ArrivalRefines ==
  ASSUME Invariant, NEW r \in Runs, TurnAway(r) \/ LintFails(r) \/ Begin(r)
  PROVE  Audit!Start(r) \/ Audit!Reject(r)
<1>0. TypeOK /\ pc[r] = "idle"
  BY OfOne DEF TurnAway, LintFails, Begin, Arrives
<1>1. /\ Owner' = [Owner EXCEPT ![r] = OwnerOf(r)']
      /\ Closed' = [Closed EXCEPT ![r] = ClosedOf(r)']
      /\ sent' = sent /\ Published' = Published
  <2>1. UNCHANGED <<sent, traces>>
    BY DEF TurnAway, LintFails, Begin, Arrives, storeVars, history
  <2>2. PublishedOf(r)' = PublishedOf(r)
    BY <2>1 DEF PublishedOf, TracedCalls, NoFile
  <2> QED
    BY <1>0, <2>1, <2>2, OthersKeepTheirs, KeptByR
<1>2. Owner[r] = "nobody" /\ ~Closed[r]
  <2>1. req[r] = NoRequest
    BY <1>0 DEF Invariant, IdleInv
  <2>2. ~Authenticated(r)
    BY <2>1, NoneIsNoToken, TokensAreConfigured DEF Authenticated, NoRequest
  <2> QED
    BY <1>0, <2>2, KeptByR DEF OwnerOf, ClosedOf
<1>3. OwnerOf(r)' \in Principals \cup {"nobody"}
  BY DEF OwnerOf, Authenticated, Principal, Principals
<1>4. CASE TurnAway(r) \/ LintFails(r)
  <2>1. pc'[r] = "done"
    BY <1>0, <1>4 DEF TurnAway, LintFails, End, TypeOK
  <2>2. Closed' = [Closed EXCEPT ![r] = TRUE]
    BY <1>1, <2>1 DEF ClosedOf
  <2> QED
    BY <1>1, <1>2, <1>3, <2>2, AuditActions
<1>5. CASE Begin(r)
  <2>1. PICK token \in DOMAIN PrincipalFor, program \in Programs :
          /\ req' = [req EXCEPT ![r] = [token |-> token, program |-> program]]
          /\ pc' = [pc EXCEPT ![r] = "read_program"]
    BY <1>5 DEF Begin, Arrives
  <2>2. req'[r].token = token /\ pc'[r] = "read_program"
    BY <1>0, <2>1 DEF TypeOK
  <2>3. OwnerOf(r)' \in Principals
    BY <2>2 DEF OwnerOf, Authenticated, Principal, Principals
  <2>4. ClosedOf(r)' = ClosedOf(r)
    BY <1>0, <2>2 DEF ClosedOf
  <2>5. Closed' = Closed
    BY <1>1, <2>4, KeptByR
  <2> QED
    BY <1>1, <1>2, <2>3, <2>5, AuditActions
<1> QED
  BY <1>4, <1>5

\* The step on the files, the calls and the records that AuditLog does not see.
LEMMA ServeKeepsOwner ==
  ASSUME Invariant, NEW r \in Runs, Serve(r)
  PROVE  Owner' = Owner
<1>1. req' = req
  BY DEF Serve, ReadProgram, WriteProgram, ReadDescription, WriteDescription, Moves, StoreFails,
         Refuse, Dispatch, Reply, CoreRecords, Finish, StoreTrace, Answer
<1> QED
  BY <1>1 DEF Owner, OwnerOf, Authenticated, Principal

LEMMA DispatchRefines ==
  ASSUME Invariant, NEW r \in Runs, Dispatch(r)
  PROVE  Audit!Act(r)
<1>0. TypeOK /\ traces[r] = NoFile /\ pc[r] = "vm" /\ Serve(r)
  BY OfOne DEF Dispatch, Serve
<1>1. PICK call \in Calls :
        /\ decide(Principal(r), Allowed(r), call) = "Allowed"
        /\ sent' = [sent EXCEPT ![r] = Append(@, <<NextPosition(r), call>>)]
  BY DEF Dispatch
<1> DEFINE e == <<NextPosition(r), call>>
<1>2. e \in Nat \X Calls /\ e[1] = NextPosition(r) /\ e[2] = call
  BY OfOne DEF NextPosition
<1>3. sent' = [sent EXCEPT ![r] = Append(@, e)]
  BY <1>1
<1> HIDE DEF e
<1>4. sent'[r] = Append(sent[r], e) /\ sent[r] \in Seq(Nat \X Calls)
  BY <1>0, <1>3 DEF TypeOK
<1>5. e \in Range(sent'[r])
  <2>1. e \in Nat \X Calls /\ sent[r] \in Seq(Nat \X Calls)
    BY <1>2, <1>4
  <2>2. Range(Append(sent[r], e)) = Range(sent[r]) \cup {e}
    BY <2>1, RangeOfAppend
  <2> QED
    BY <1>4, <2>2
<1>6. Authenticated(r) /\ Permitted(Principal(r), call)
  BY <1>0, <1>1, DecideIsSound DEF Invariant, SentInv, Live, Allowed
<1>7. Owner[r] = Principal(r) /\ Owner[r] \in Principals
  BY <1>6, KeptByR DEF OwnerOf, Authenticated, Principal, Principals
<1>8. \A earlier \in Range(sent[r]) : earlier[1] < e[1]
  BY <1>0, <1>2, EarlierPositions
<1>9. ~Closed[r] /\ Published[r] = {}
  BY <1>0, KeptByR DEF ClosedOf, PublishedOf
<1>10. Owner' = Owner /\ Published' = Published /\ Closed' = Closed
  <2>1. traces' = traces /\ pc'[r] = "waiting"
    BY <1>0 DEF Dispatch, TypeOK, storeVars
  <2>2. PublishedOf(r)' = PublishedOf(r) /\ ClosedOf(r)' = ClosedOf(r)
    BY <1>0, <2>1 DEF PublishedOf, ClosedOf, TracedCalls, NoFile
  <2> QED
    BY <1>0, <2>2, ServeKeepsOwner, OthersKeepTheirs, KeptByR
<1>11. Permitted(Owner[r], e[2])
  BY <1>2, <1>6, <1>7
<1> QED
  BY <1>3, <1>5, <1>7, <1>8, <1>9, <1>10, <1>11, AuditActions

LEMMA StoreTraceRefines ==
  ASSUME Invariant, Invariant', NEW r \in Runs, StoreTrace(r)
  PROVE  Audit!Publish(r)
<1>0. TypeOK /\ Audited(r) /\ pc[r] = "store_trace" /\ traces[r] = NoFile /\ Serve(r)
  BY OfOne DEF StoreTrace, Serve
<1>1. traces'[r] = TraceOf(r) /\ pc'[r] = "answer" /\ sent' = sent
  BY <1>0 DEF StoreTrace, TypeOK, history
<1>2. TraceOf(r) # NoFile
  BY DEF TraceOf, NoFile
<1>3. TracedCalls(traces'[r]) = Range(sent[r])
  BY <1>0, <1>1, TracedIsRecorded DEF Audited, Accounted, OpenCall
<1>4. PublishedOf(r)' = {Range(sent[r])}
  BY <1>1, <1>2, <1>3 DEF PublishedOf, NoFile, TracedCalls
<1>5. Owner' = Owner /\ Closed' = Closed /\ Published' = [Published EXCEPT ![r] = {Range(sent[r])}]
  <2>1. ClosedOf(r)' = ClosedOf(r)
    BY <1>0, <1>1 DEF ClosedOf
  <2> QED
    BY <1>0, <1>4, <2>1, ServeKeepsOwner, OthersKeepTheirs, KeptByR
<1>6. ~Closed[r] /\ Published[r] = {}
  BY <1>0, KeptByR DEF ClosedOf, PublishedOf
<1> QED
  BY <1>1, <1>5, <1>6, AuditActions

\* Every other step of a request ends it, or is not seen.
LEMMA OtherServeRefines ==
  ASSUME Invariant, NEW r \in Runs, Serve(r), ~Dispatch(r), ~StoreTrace(r)
  PROVE  Audit!Close
<1>0. TypeOK
  BY OfOne
<1>1. sent' = sent /\ traces' = traces /\ pc[r] # "done"
  BY DEF Serve, ReadProgram, WriteProgram, ReadDescription, WriteDescription, Moves, StoreFails,
         Refuse, Reply, CoreRecords, Finish, VmEnds, Answer, storeVars, history
<1>2. Owner' = Owner
  BY ServeKeepsOwner
<1>3. Published' = Published
  BY <1>1 DEF Published, PublishedOf, TracedCalls, NoFile
<1>4. ASSUME NEW q \in Runs, Closed[q] PROVE Closed'[q]
  <2>1. q # r /\ ClosedOf(q)
    BY <1>1, <1>4, KeptByR DEF ClosedOf
  <2>2. Untouched(q)
    BY <1>0, <2>1, OthersUntouched
  <2>3. ClosedOf(q)'
    BY <2>1, <2>2 DEF ClosedOf, Untouched
  <2> QED
    BY <2>3 DEF Closed
<1> QED
  BY <1>1, <1>2, <1>3, <1>4, AuditCloses

LEMMA StepRefines ==
  Invariant /\ Invariant' /\ [Next]_vars => [Audit!Next]_(Audit!vars)
<1> SUFFICES ASSUME Invariant, Invariant', [Next]_vars PROVE Audit!Next \/ UNCHANGED Audit!vars
  OBVIOUS
<1>1. ASSUME NEW r \in Runs, TurnAway(r) \/ LintFails(r) \/ Begin(r) PROVE Audit!Next
  BY <1>1, ArrivalRefines DEF Audit!Next
<1>2. ASSUME NEW r \in Runs, Serve(r) PROVE Audit!Next
  BY <1>2, DispatchRefines, StoreTraceRefines, OtherServeRefines DEF Audit!Next
<1>3. CASE Die
  <2>1. UNCHANGED <<req, sent, traces>>
    BY <1>3 DEF Die, storeVars, history
  <2>2. Owner' = Owner /\ Published' = Published
    BY <2>1 DEF Owner, OwnerOf, Published, PublishedOf, Authenticated, Principal, TracedCalls, NoFile
  <2>3. \A q \in Runs : Closed[q] => Closed'[q]
    BY <1>3 DEF Die, Closed, ClosedOf, Live
  <2>4. Audit!Close
    BY <2>1, <2>2, <2>3, AuditCloses
  <2> QED
    BY <2>4 DEF Audit!Next
<1>4. CASE UNCHANGED vars
  BY <1>4 DEF vars, runVars, storeVars, history, Audit!vars, Authenticated, Principal,
              TracedCalls, NoFile
<1> QED
  BY <1>1, <1>2, <1>3, <1>4 DEF Next

\* The gateway is an audit log: the calls of a request are permitted to the one
\* principal it acts for, each is made once, the record it publishes is exactly
\* those calls, and after that, or after the answer, nothing is sent.
THEOREM GatewayImplementsAuditLog == Spec => ImplementsAuditLog
<1>1. Init => Audit!Init
  <2> SUFFICES ASSUME Init PROVE Audit!Init
    OBVIOUS
  <2>1. \A r \in Runs : ~Authenticated(r) /\ traces[r] = NoFile /\ pc[r] = "idle"
    BY NoneIsNoToken, TokensAreConfigured DEF Init, Authenticated, NoRequest
  <2> QED
    BY <2>1 DEF Init, Audit!Init
<1> QED
  BY <1>1, StepRefines, InvariantHolds, PTL DEF Spec, ImplementsAuditLog, Audit!Spec
=============================================================================
