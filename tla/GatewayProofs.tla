--------------------------- MODULE GatewayProofs ----------------------------
(***************************************************************************)
(* Theorems about Gateway.tla, for every set of requests, rules, programs, *)
(* VM behaviour and downstream.                                            *)
(***************************************************************************)
EXTENDS Gateway, TLAPS

-----------------------------------------------------------------------------
(* What the operators of Host.tla return *)

\* The host's four checks, in their order, let through only what the rules
\* permit.
LEMMA DecideIsSound ==
  ASSUME NEW principal, NEW call \in Calls,
         decide(principal, allowed_schemas(principal), call) = "Allowed"
  PROVE  Permitted(principal, call)
<1>1. /\ call \notin Unconvertible
      /\ call \notin Misfits
      /\ call.tool \in allowed_schemas(principal)
      /\ check(principal, call.tool, call.args) # "Deny"
  BY DEF decide
<1>2. /\ principal \in DOMAIN Allow
      /\ call.tool \in Allow[principal]
      /\ \A arg \in DOMAIN BoundsOf(call.tool) :
           WithinBound(call.args, arg, BoundsOf(call.tool)[arg])
  BY <1>1 DEF check
<1>3. call.tool \in Discovered \cap Allow[principal]
  BY <1>1, <1>2 DEF allowed_schemas, allowed_tools
<1>4. ASSUME call.tool \in DOMAIN Bounds,
             NEW arg \in DOMAIN Bounds[call.tool]
      PROVE  /\ arg \in DOMAIN call.args
             /\ call.args[arg] # NotInteger
             /\ call.args[arg] <= Bounds[call.tool][arg]
  BY <1>2, <1>4, NotIntegerIsNoInteger DEF BoundsOf, WithinBound, IsI64
<1> QED
  BY <1>1, <1>2, <1>3, <1>4 DEF Permitted

\* What comes back from accept is a failure, or a recordable value with the tag
\* and the blob of its own reply.
LEMMA AcceptedShape ==
  ASSUME NEW reply \in Replies, NEW blob
  PROVE  LET accepted == accept(DownstreamCall(reply, blob)) IN
         \/ accepted = Failed /\ ~AttestsGoodResult(reply)
         \/ /\ accepted.ok = TRUE
            /\ accepted.value \in Values
            /\ \/ /\ AttestsGoodResult(reply)
                  /\ accepted.provenance = "Attested"
                  /\ accepted.attestation = blob
               \/ /\ ~AttestsGoodResult(reply)
                  /\ accepted.provenance = "Unsigned"
                  /\ accepted.attestation = NoAttestation
<1> DEFINE response0 == DownstreamCall(reply, blob)
<1>0. reply.delivered \in BOOLEAN /\ reply.isError \in BOOLEAN
  BY DEF Replies
<1>1. CASE ~reply.delivered \/ reply.isError \/ reply.provenance \in MalformedReports
  <2>1. response0 = Failed
    BY <1>1 DEF DownstreamCall, map_result, read_provenance, Failed
  <2>2. ~AttestsGoodResult(reply)
    BY <1>1 DEF AttestsGoodResult, MalformedReports
  <2> QED
    BY <2>1, <2>2 DEF accept, Failed
<1>2. CASE ~(~reply.delivered \/ reply.isError \/ reply.provenance \in MalformedReports)
  <2>1. /\ map_result(reply).ok = TRUE
        /\ map_result(reply).value = reply.value
        /\ read_provenance(reply, blob).ok = TRUE
    BY <1>2 DEF map_result, read_provenance
  <2>2. /\ response0.ok = TRUE
        /\ response0.value = reply.value
        /\ response0.provenance = read_provenance(reply, blob).provenance
        /\ response0.attestation = read_provenance(reply, blob).attestation
    BY <1>2, <2>1 DEF DownstreamCall
  <2> HIDE DEF response0
  <2>3. CASE reply.value \in {"null_in_array", "uncanonical"}
    <3>1. accept(response0) = Failed
      BY <2>2, <2>3 DEF accept, HasTable, Recordable
    <3>2. ~AttestsGoodResult(reply)
      BY <2>3, ValuesAreRecordable DEF AttestsGoodResult
    <3> QED
      BY <3>1, <3>2 DEF response0
  <2>4. CASE reply.value \in Values
    <3>1. accept(response0) = response0
      BY <2>2, <2>4, ValuesAreRecordable DEF accept, HasTable, Recordable
    <3>2. AttestsGoodResult(reply) <=> reply.provenance = "attested"
      BY <1>2, <2>4 DEF AttestsGoodResult
    <3>3. /\ reply.provenance = "attested" =>
               /\ response0.provenance = "Attested"
               /\ response0.attestation = blob
          /\ reply.provenance # "attested" =>
               /\ response0.provenance = "Unsigned"
               /\ response0.attestation = NoAttestation
      BY <1>2, <2>2 DEF read_provenance
    <3> QED
      BY <2>2, <2>4, <3>1, <3>2, <3>3 DEF response0
  <2> QED
    BY <2>3, <2>4 DEF Replies, ReplyValues
<1> QED
  BY <1>1, <1>2

-----------------------------------------------------------------------------
(* Sequences *)

LEMMA RangeOfAppend ==
  ASSUME NEW S, NEW s \in Seq(S), NEW e \in S
  PROVE  Range(Append(s, e)) = Range(s) \cup {e}
<1> DEFINE t == Append(s, e)
<1>1. /\ Len(t) = Len(s) + 1
      /\ Len(s) \in Nat
      /\ t[Len(s) + 1] = e
      /\ \A i \in 1..Len(s) : t[i] = s[i]
  OBVIOUS
<1>2. DOMAIN t = 1..(Len(s) + 1) /\ DOMAIN s = 1..Len(s)
  BY <1>1
<1> HIDE DEF t
<1>3. Range(t) \subseteq Range(s) \cup {e}
  <2> SUFFICES ASSUME NEW i \in 1..(Len(s) + 1) PROVE t[i] \in Range(s) \cup {e}
    BY <1>2 DEF Range
  <2>1. CASE i = Len(s) + 1
    BY <1>1, <2>1
  <2>2. CASE i # Len(s) + 1
    <3>1. i \in 1..Len(s)
      BY <1>1, <2>2
    <3> QED
      BY <1>1, <1>2, <3>1 DEF Range
  <2> QED
    BY <2>1, <2>2
<1>4. Range(s) \cup {e} \subseteq Range(t)
  <2>1. e \in Range(t)
    <3>1. Len(s) + 1 \in DOMAIN t
      BY <1>1, <1>2
    <3> QED
      BY <1>1, <3>1 DEF Range
  <2>2. ASSUME NEW i \in 1..Len(s) PROVE s[i] \in Range(t)
    <3>1. i \in DOMAIN t
      BY <1>1, <1>2
    <3> QED
      BY <1>1, <3>1 DEF Range
  <2> QED
    BY <1>2, <2>1, <2>2 DEF Range
<1> QED
  BY <1>3, <1>4 DEF t

-----------------------------------------------------------------------------
(* Types *)

TypeInv == TypeOK /\ PendingCall

LEMMA InitTypeInv == Init => TypeInv
  BY CrashBound DEF Init, TypeInv, TypeOK, PendingCall, PcValues, NoRequest, Blobs,
     NoAttestation, Results, Failed, NoResponse, AnswerKinds,
     NoFooter, StatusKinds

\* The VM's next step depends on the request and on what core recorded for it.
LEMMA VmStepFrame ==
  ASSUME NEW r \in Runs, req'[r] = req[r], transcript'[r] = transcript[r]
  PROVE  VmStep(r)' = VmStep(r)
  BY DEF VmStep, ProgramHash, Description, Allowed, Principal, Observed

\* An action of request r that leaves it between two calls.
LEMMA PendingCallFrame ==
  ASSUME PendingCall, NEW r \in Runs,
         \A q \in Runs \ {r} : /\ pc'[q] = pc[q]
                               /\ req'[q] = req[q]
                               /\ transcript'[q] = transcript[q],
         pc'[r] \notin {"waiting", "returned"}
  PROVE  PendingCall'
<1> SUFFICES ASSUME NEW q \in Runs, pc'[q] \in {"waiting", "returned"}
             PROVE  \E call \in Calls : VmStep(q)' = CallStep(call)
  BY DEF PendingCall, CallStep
<1>1. q # r
  OBVIOUS
<1>2. VmStep(q)' = VmStep(q)
  BY <1>1, VmStepFrame
<1> QED
  BY <1>1, <1>2 DEF PendingCall

\* An action of request r in the middle of a call it can make.
LEMMA PendingCallKept ==
  ASSUME PendingCall, NEW r \in Runs, NEW call \in Calls, VmStep(r) = CallStep(call),
         UNCHANGED <<req, transcript>>,
         \A q \in Runs \ {r} : pc'[q] = pc[q]
  PROVE  PendingCall'
<1> SUFFICES ASSUME NEW q \in Runs, pc'[q] \in {"waiting", "returned"}
             PROVE  \E c \in Calls : VmStep(q)' = CallStep(c)
  BY DEF PendingCall, CallStep
<1>1. VmStep(q)' = VmStep(q)
  BY VmStepFrame
<1>2. CASE q = r
  BY <1>1, <1>2
<1>3. CASE q # r
  BY <1>1, <1>3 DEF PendingCall
<1> QED
  BY <1>2, <1>3

\* The three ways a reply can end a call: nothing usable came back, a value that
\* nobody vouches for, or a value with the blob of this very call.
LEMMA ReplyEffect ==
  ASSUME TypeOK, NEW r \in Runs, Reply(r)
  PROVE  \/ /\ log' = [log EXCEPT ![r] = Append(@,
                   [decision |-> "Allowed", provenance |-> "Unsigned"])]
            /\ attestation' = attestation
            /\ result' = [result EXCEPT ![r] = Failed]
            /\ attested' = attested
         \/ \E value \in Values :
            /\ log' = [log EXCEPT ![r] = Append(@,
                   [decision |-> "Allowed", provenance |-> "Unsigned"])]
            /\ attestation' = [attestation EXCEPT ![r] = NoAttestation]
            /\ result' = [result EXCEPT ![r] = [ok |-> TRUE, value |-> value]]
            /\ attested' = attested
         \/ \E value \in Values :
            /\ log' = [log EXCEPT ![r] = Append(@,
                   [decision |-> "Allowed", provenance |-> "Attested"])]
            /\ attestation' = [attestation EXCEPT ![r] = <<r, NextPosition(r)>>]
            /\ result' = [result EXCEPT ![r] = [ok |-> TRUE, value |-> value]]
            /\ attested' = [attested EXCEPT ![r] = @ \cup {NextPosition(r)}]
<1> PICK reply \in Replies :
      LET accepted == accept(DownstreamCall(reply, <<r, NextPosition(r)>>))
      IN  /\ log' = [log EXCEPT ![r] = Append(@,
               [decision   |-> "Allowed",
                provenance |-> IF accepted.ok THEN accepted.provenance
                                              ELSE "Unsigned"])]
          /\ attestation' = [attestation EXCEPT ![r] =
               IF accepted.ok THEN accepted.attestation ELSE @]
          /\ result' = [result EXCEPT ![r] =
               IF accepted.ok THEN [ok |-> TRUE, value |-> accepted.value]
                              ELSE Failed]
          /\ attested' = [attested EXCEPT ![r] =
               IF AttestsGoodResult(reply) THEN @ \cup {NextPosition(r)} ELSE @]
  BY DEF Reply
<1> DEFINE blob == <<r, NextPosition(r)>>
           accepted == accept(DownstreamCall(reply, blob))
<1>1. \/ accepted = Failed /\ ~AttestsGoodResult(reply)
      \/ /\ accepted.ok = TRUE
         /\ accepted.value \in Values
         /\ \/ /\ AttestsGoodResult(reply)
               /\ accepted.provenance = "Attested"
               /\ accepted.attestation = blob
            \/ /\ ~AttestsGoodResult(reply)
               /\ accepted.provenance = "Unsigned"
               /\ accepted.attestation = NoAttestation
  <2> HIDE DEF blob
  <2> QED
    BY AcceptedShape
<1>2. /\ log' = [log EXCEPT ![r] = Append(@,
               [decision   |-> "Allowed",
                provenance |-> IF accepted.ok THEN accepted.provenance
                                              ELSE "Unsigned"])]
      /\ attestation' = [attestation EXCEPT ![r] =
               IF accepted.ok THEN accepted.attestation ELSE @]
      /\ result' = [result EXCEPT ![r] =
               IF accepted.ok THEN [ok |-> TRUE, value |-> accepted.value]
                              ELSE Failed]
      /\ attested' = [attested EXCEPT ![r] =
               IF AttestsGoodResult(reply) THEN @ \cup {NextPosition(r)} ELSE @]
  OBVIOUS
<1>3. /\ attestation = [attestation EXCEPT ![r] = @]
      /\ attested = [attested EXCEPT ![r] = @]
  BY DEF TypeOK
<1> HIDE DEF accepted
<1>4. CASE accepted = Failed /\ ~AttestsGoodResult(reply)
  BY <1>2, <1>3, <1>4 DEF Failed
<1>5. CASE /\ accepted.ok = TRUE
           /\ accepted.value \in Values
           /\ AttestsGoodResult(reply)
           /\ accepted.provenance = "Attested"
           /\ accepted.attestation = blob
  BY <1>2, <1>3, <1>5
<1>6. CASE /\ accepted.ok = TRUE
           /\ accepted.value \in Values
           /\ ~AttestsGoodResult(reply)
           /\ accepted.provenance = "Unsigned"
           /\ accepted.attestation = NoAttestation
  BY <1>2, <1>3, <1>6
<1> QED
  BY <1>1, <1>4, <1>5, <1>6

\* Core records what call_tool returned, and takes the blob of a response.
LEMMA CoreRecordsEffect ==
  ASSUME TypeOK, NEW r \in Runs, CoreRecords(r)
  PROVE  \/ /\ result[r].ok => Recordable(result[r].value)
            /\ transcript' = [transcript EXCEPT ![r] = Append(@,
                  [call |-> VmStep(r).call, response |-> result[r],
                   attestation |-> IF result[r].ok THEN attestation[r]
                                                   ELSE NoAttestation])]
            /\ pc' = [pc EXCEPT ![r] = "vm"]
         \/ /\ result[r].ok /\ ~Recordable(result[r].value)
            /\ transcript' = transcript
            /\ pc' = [pc EXCEPT ![r] = "vm_failed"]
<1>1. transcript = [transcript EXCEPT ![r] = @]
  BY DEF TypeOK
<1> QED
  BY <1>1 DEF CoreRecords

\* A request is there from the moment it arrives.
LEMMA ArrivalTypes ==
  ASSUME TypeOK, NEW r \in Runs, NEW token \in Tokens, NEW program \in Programs,
         Arrives(r, token, program), NEW to \in PcValues, pc' = [pc EXCEPT ![r] = to]
  PROVE  /\ pc' \in [Runs -> PcValues]
         /\ req' \in [Runs -> Requests \cup {NoRequest}]
         /\ \A q \in Runs : pc'[q] # "idle" => req'[q] \in Requests
<1>1. [token |-> token, program |-> program] \in Requests
  BY DEF Requests
<1>2. req' = [req EXCEPT ![r] = [token |-> token, program |-> program]]
  BY DEF Arrives
<1> QED
  BY <1>1, <1>2 DEF TypeOK

LEMMA StepTypeInv == TypeInv /\ [Next]_vars => TypeInv'
<1> SUFFICES ASSUME TypeInv, [Next]_vars
             PROVE  TypeInv'
  OBVIOUS
<1> USE DEF TypeInv
<1>1. ASSUME NEW r \in Runs, TurnAway(r) PROVE TypeInv'
  <2> PICK token \in Tokens \ DOMAIN PrincipalFor, program \in Programs :
        Arrives(r, token, program) /\ End(r, [kind |-> "unauthorized"])
    BY <1>1 DEF TurnAway
  <2>1. TypeOK'
    <3>1. /\ pc' \in [Runs -> PcValues]
          /\ req' \in [Runs -> Requests \cup {NoRequest}]
          /\ \A q \in Runs : pc'[q] # "idle" => req'[q] \in Requests
      BY ArrivalTypes DEF End, PcValues
    <3> QED
      BY <3>1 DEF Arrives, End, TypeOK, AnswerKinds, storeVars, history
  <2>2. PendingCall'
    BY PendingCallFrame DEF Arrives, End, TypeOK
  <2> QED
    BY <2>1, <2>2
<1>2. ASSUME NEW r \in Runs, LintFails(r) PROVE TypeInv'
  <2> PICK token \in DOMAIN PrincipalFor, program \in Programs :
        Arrives(r, token, program) /\ End(r, [kind |-> "lint_error"])
    BY <1>2 DEF LintFails
  <2>1. TypeOK'
    <3>1. /\ pc' \in [Runs -> PcValues]
          /\ req' \in [Runs -> Requests \cup {NoRequest}]
          /\ \A q \in Runs : pc'[q] # "idle" => req'[q] \in Requests
      BY ArrivalTypes, TokensAreConfigured DEF End, PcValues
    <3> QED
      BY <3>1 DEF Arrives, End, TypeOK, AnswerKinds, storeVars, history
  <2>2. PendingCall'
    BY PendingCallFrame DEF Arrives, End, TypeOK
  <2> QED
    BY <2>1, <2>2
<1>3. ASSUME NEW r \in Runs, Begin(r) PROVE TypeInv'
  <2> PICK token \in DOMAIN PrincipalFor, program \in Programs :
        /\ Arrives(r, token, program)
        /\ pc' = [pc EXCEPT ![r] = "read_program"]
        /\ UNCHANGED response
    BY <1>3 DEF Begin
  <2>1. TypeOK'
    <3>1. /\ pc' \in [Runs -> PcValues]
          /\ req' \in [Runs -> Requests \cup {NoRequest}]
          /\ \A q \in Runs : pc'[q] # "idle" => req'[q] \in Requests
      BY ArrivalTypes, TokensAreConfigured DEF PcValues
    <3> QED
      BY <3>1 DEF Arrives, TypeOK, storeVars, history
  <2>2. PendingCall'
    BY PendingCallFrame DEF Arrives, TypeOK
  <2> QED
    BY <2>1, <2>2
<1>4. ASSUME NEW r \in Runs,
             \/ ReadProgram(r) \/ WriteProgram(r)
             \/ ReadDescription(r) \/ WriteDescription(r)
      PROVE  TypeInv'
  <2> PICK from \in PcValues \ {"idle"}, to \in PcValues \ {"waiting", "returned"} :
        Moves(r, from, to)
    BY <1>4 DEF ReadProgram, WriteProgram, ReadDescription, WriteDescription, PcValues
  <2>1. Description(r) \subseteq Discovered
    BY DEF Description, Allowed, allowed_schemas
  <2>2. descriptions' \subseteq SUBSET Discovered
    <3>1. descriptions' \in {descriptions, descriptions \cup {Description(r)}}
      BY <1>4 DEF ReadProgram, WriteProgram, ReadDescription, WriteDescription
    <3>2. descriptions \subseteq SUBSET Discovered
      BY DEF TypeOK
    <3> QED
      BY <2>1, <3>1, <3>2
  <2>3. programs' \in [DOMAIN programs' -> Sources]
    <3>1. Source(r) \in Sources
      BY <2>1 DEF Source, Sources, Moves, TypeOK, Requests
    <3>2. CASE WriteProgram(r)
      BY <3>1, <3>2 DEF WriteProgram, TypeOK
    <3>3. CASE programs' = programs
      BY <3>3 DEF TypeOK
    <3> QED
      BY <1>4, <3>2, <3>3 DEF ReadProgram, ReadDescription, WriteDescription
  <2>4. /\ pc' \in [Runs -> PcValues]
        /\ \A q \in Runs : pc'[q] # "idle" => req'[q] \in Requests
    BY DEF Moves, TypeOK
  <2>5. TypeOK'
    BY <2>2, <2>3, <2>4 DEF Moves, TypeOK, history
  <2>6. PendingCall'
    BY PendingCallFrame DEF Moves, TypeOK
  <2> QED
    BY <2>5, <2>6
<1>5. ASSUME NEW r \in Runs, StoreFails(r) PROVE TypeInv'
  <2>1. TypeOK'
    BY <1>5 DEF StoreFails, End, TypeOK, PcValues, AnswerKinds, storeVars, history
  <2>2. PendingCall'
    BY <1>5, PendingCallFrame DEF StoreFails, End, TypeOK
  <2> QED
    BY <2>1, <2>2
<1>6. ASSUME NEW r \in Runs, Refuse(r) PROVE TypeInv'
  <2> PICK call \in Calls :
        /\ VmStep(r) = CallStep(call)
        /\ log' = [log EXCEPT ![r] = Append(@,
                    [decision   |-> decide(Principal(r), Allowed(r), call),
                     provenance |-> "Unsigned"])]
    BY <1>6 DEF Refuse
  <2>1. [decision   |-> decide(Principal(r), Allowed(r), call),
         provenance |-> "Unsigned"] \in LogEntries
    BY DEF decide, LogEntries, Decisions, Tags
  <2>2. log' \in [Runs -> Seq(LogEntries)]
    BY <2>1 DEF TypeOK
  <2>3. TypeOK'
    BY <1>6, <2>2 DEF Refuse, TypeOK, PcValues, Blobs, Results, storeVars, history
  <2>4. PendingCall'
    BY <1>6, PendingCallKept DEF Refuse, TypeOK
  <2> QED
    BY <2>3, <2>4
<1>7. ASSUME NEW r \in Runs, Dispatch(r) PROVE TypeInv'
  <2> PICK call \in Calls :
        /\ VmStep(r) = CallStep(call)
        /\ sent' = [sent EXCEPT ![r] = Append(@, <<NextPosition(r), call>>)]
    BY <1>7 DEF Dispatch
  <2>1. <<NextPosition(r), call>> \in Nat \X Calls
    BY DEF NextPosition, TypeOK
  <2>2. sent' \in [Runs -> Seq(Nat \X Calls)]
    BY <2>1 DEF TypeOK
  <2>3. TypeOK'
    BY <1>7, <2>2 DEF Dispatch, TypeOK, PcValues, Blobs, storeVars
  <2>4. PendingCall'
    BY <1>7, PendingCallKept DEF Dispatch, TypeOK
  <2> QED
    BY <2>3, <2>4
<1>8. ASSUME NEW r \in Runs, Reply(r) PROVE TypeInv'
  <2>1. PICK call \in Calls : VmStep(r) = CallStep(call)
    BY <1>8 DEF Reply, PendingCall
  <2>2. NextPosition(r) \in Nat \ {0}
    BY DEF NextPosition, TypeOK
  <2>3. log' \in [Runs -> Seq(LogEntries)]
    <3>1. PICK entry \in LogEntries : log' = [log EXCEPT ![r] = Append(@, entry)]
      BY <1>8, ReplyEffect DEF LogEntries, Decisions, Tags
    <3> QED
      BY <3>1 DEF TypeOK
  <2>4. attestation' \in [Runs -> Blobs]
    <3>1. PICK blob \in Blobs : \/ attestation' = attestation
                               \/ attestation' = [attestation EXCEPT ![r] = blob]
      BY <1>8, <2>2, ReplyEffect DEF Blobs
    <3> QED
      BY <3>1 DEF TypeOK
  <2>5. result' \in [Runs -> Results]
    <3>1. PICK res \in Results : result' = [result EXCEPT ![r] = res]
      BY <1>8, ReplyEffect DEF Results, ReplyValues
    <3> QED
      BY <3>1 DEF TypeOK
  <2>6. attested' \in [Runs -> SUBSET Nat]
    <3>1. CASE attested' = attested
      BY <3>1 DEF TypeOK
    <3>2. CASE attested' = [attested EXCEPT ![r] = @ \cup {NextPosition(r)}]
      BY <2>2, <3>2 DEF TypeOK
    <3> QED
      BY <1>8, <3>1, <3>2, ReplyEffect
  <2>7. TypeOK'
    BY <1>8, <2>3, <2>4, <2>5, <2>6 DEF Reply, TypeOK, PcValues, storeVars
  <2>8. PendingCall'
    BY <1>8, <2>1, PendingCallKept DEF Reply, TypeOK
  <2> QED
    BY <2>7, <2>8
<1>9. ASSUME NEW r \in Runs, CoreRecords(r) PROVE TypeInv'
  <2>1. PICK call \in Calls : VmStep(r) = CallStep(call)
    BY <1>9 DEF CoreRecords, PendingCall
  <2> DEFINE record == [call |-> VmStep(r).call, response |-> result[r],
                        attestation |-> IF result[r].ok THEN attestation[r]
                                                        ELSE NoAttestation]
  <2>2. record \in Records
    BY <2>1 DEF CallStep, Records, TypeOK, Blobs
  <2>3. transcript' \in [Runs -> Seq(Records)]
    <3> HIDE DEF record
    <3>1. CASE transcript' = transcript
      BY <3>1 DEF TypeOK
    <3>2. CASE transcript' = [transcript EXCEPT ![r] = Append(@, record)]
      BY <2>2, <3>2 DEF TypeOK
    <3> QED
      BY <1>9, <3>1, <3>2, CoreRecordsEffect DEF record
  <2>4. attestation' \in [Runs -> Blobs]
    BY <1>9 DEF CoreRecords, TypeOK, Blobs
  <2>5. pc' \in [Runs -> PcValues]
    BY <1>9 DEF CoreRecords, TypeOK, PcValues
  <2>6. TypeOK'
    BY <1>9, <2>3, <2>4, <2>5 DEF CoreRecords, TypeOK, storeVars, history
  <2>7. PendingCall'
    BY <1>9, PendingCallFrame DEF CoreRecords, TypeOK
  <2> QED
    BY <2>6, <2>7
<1>10. ASSUME NEW r \in Runs, Finish(r) PROVE TypeInv'
  <2> PICK end \in EndSteps :
        /\ footer' = [footer EXCEPT ![r] = FooterOf(end, req[r].program)]
        /\ \/ pc' = [pc EXCEPT ![r] = "store_trace"] /\ UNCHANGED response
           \/ End(r, [kind |-> "panicked"])
        /\ UNCHANGED <<req, log, attestation, result, transcript>>
        /\ UNCHANGED <<storeVars, crashes, history>>
    BY <1>10 DEF Finish
  <2>1. FooterOf(end, req[r].program).status.kind \in StatusKinds
    BY DEF FooterOf, ErrorFooter, EndSteps, ReturnStep, ErrorStep, StatusKinds
  <2>2. pc' \in [Runs -> PcValues]
    BY DEF End, TypeOK, PcValues
  <2>3. DOMAIN response' = Runs /\ \A q \in Runs : response'[q].kind \in AnswerKinds
    <3>1. CASE UNCHANGED response
      BY <3>1 DEF TypeOK
    <3>2. CASE response' = [response EXCEPT ![r] = [kind |-> "panicked"]]
      BY <3>2 DEF TypeOK, AnswerKinds
    <3> QED
      BY <3>1, <3>2 DEF End
  <2>4. \A q \in Runs : pc'[q] # "idle" => req'[q] \in Requests
    <3>1. pc[r] # "idle"
      BY <1>10 DEF Finish, VmEnds
    <3> QED
      BY <3>1 DEF End, TypeOK
  <2>5. TypeOK'
    BY <2>1, <2>2, <2>3, <2>4 DEF TypeOK, storeVars, history
  <2>6. PendingCall'
    BY PendingCallFrame DEF End, TypeOK
  <2> QED
    BY <2>5, <2>6
<1>11. ASSUME NEW r \in Runs, StoreTrace(r) PROVE TypeInv'
  <2>1. TypeOK'
    BY <1>11 DEF StoreTrace, TypeOK, PcValues, history
  <2>2. PendingCall'
    BY <1>11, PendingCallFrame DEF StoreTrace, TypeOK
  <2> QED
    BY <2>1, <2>2
<1>12. ASSUME NEW r \in Runs, Answer(r) PROVE TypeInv'
  <2>1. TypeOK'
    BY <1>12 DEF Answer, End, TypeOK, PcValues, AnswerKinds, storeVars, history
  <2>2. PendingCall'
    BY <1>12, PendingCallFrame DEF Answer, End, TypeOK
  <2> QED
    BY <2>1, <2>2
<1>13. ASSUME Die PROVE TypeInv'
  <2>1. TypeOK'
    <3>1. /\ pc' \in [Runs -> PcValues]
          /\ \A q \in Runs : pc'[q] # "idle" => req'[q] \in Requests
      BY <1>13 DEF Die, Live, TypeOK, PcValues
    <3> QED
      BY <1>13, <3>1, CrashBound DEF Die, TypeOK, AnswerKinds, storeVars, history
  <2>2. PendingCall'
    <3> SUFFICES ASSUME NEW q \in Runs, pc'[q] \in {"waiting", "returned"}
                 PROVE  FALSE
      BY DEF PendingCall
    <3> QED
      BY <1>13 DEF Die, Live
  <2> QED
    BY <2>1, <2>2
<1>14. ASSUME UNCHANGED vars PROVE TypeInv'
  BY <1>14 DEF vars, runVars, storeVars, history, TypeOK, PendingCall, VmStep,
     ProgramHash, Description, Allowed, Principal, Observed
<1> QED
  BY <1>1, <1>2, <1>3, <1>4, <1>5, <1>6, <1>7, <1>8, <1>9, <1>10, <1>11, <1>12,
     <1>13, <1>14 DEF Next, Serve

\* Every variable keeps its type, and a call that is out is one the VM asks for at
\* this point of the run, whatever the requests, the rules, the programs and the
\* downstreams are.
THEOREM TypeCorrect == Spec => [](TypeOK /\ PendingCall)
<1>1. Spec => []TypeInv
  BY InitTypeInv, StepTypeInv, PTL DEF Spec
<1> QED
  BY <1>1, PTL DEF TypeInv

-----------------------------------------------------------------------------
(* Only permitted calls are sent *)

\* Inductive: a request that is being served is authenticated, and one that has
\* not arrived has sent nothing, so its token may still be set.
SentInv ==
  /\ OnlyPermittedCallsAreSent
  /\ \A r \in Runs : Live(r) => Authenticated(r)
  /\ \A r \in Runs : pc[r] = "idle" => sent[r] = << >>

\* A step that sends nothing and takes no request on.
LEMMA SentInvFrame ==
  ASSUME SentInv, UNCHANGED <<req, sent>>,
         \A q \in Runs : /\ pc'[q] \notin {"idle", "done"} => pc[q] \notin {"idle", "done"}
                         /\ pc'[q] = "idle" => pc[q] = "idle"
  PROVE  SentInv'
  BY DEF SentInv, OnlyPermittedCallsAreSent, Live, Authenticated, Principal, Permitted

\* A request that arrives has sent nothing.
LEMMA SentInvArrives ==
  ASSUME TypeOK, SentInv, NEW r \in Runs, NEW token, NEW program,
         Arrives(r, token, program),
         \A q \in Runs \ {r} : pc'[q] = pc[q],
         pc'[r] # "idle",
         pc'[r] = "done" \/ token \in DOMAIN PrincipalFor
  PROVE  SentInv'
<1>1. /\ req' = [req EXCEPT ![r] = [token |-> token, program |-> program]]
      /\ pc[r] = "idle"
      /\ sent' = sent
  BY DEF Arrives, history
<1>2. \A q \in Runs \ {r} : req'[q] = req[q]
  BY <1>1 DEF TypeOK
<1>3. sent[r] = << >>
  BY <1>1 DEF SentInv
<1>4. Range(sent[r]) = {}
  BY <1>3 DEF Range
<1>5. OnlyPermittedCallsAreSent'
  BY <1>1, <1>2, <1>4
  DEF SentInv, OnlyPermittedCallsAreSent, Authenticated, Principal, Permitted
<1>6. ASSUME NEW q \in Runs, Live(q)' PROVE Authenticated(q)'
  <2>1. CASE q = r
    BY <1>1, <1>6, <2>1 DEF TypeOK, Live, Authenticated
  <2>2. CASE q # r
    BY <1>2, <1>6, <2>2 DEF SentInv, Live, Authenticated
  <2> QED
    BY <2>1, <2>2
<1>7. ASSUME NEW q \in Runs, pc'[q] = "idle" PROVE sent'[q] = << >>
  BY <1>1, <1>7 DEF SentInv
<1> QED
  BY <1>5, <1>6, <1>7 DEF SentInv

LEMMA StepSentInv == TypeInv /\ SentInv /\ [Next]_vars => SentInv'
<1> SUFFICES ASSUME TypeInv, SentInv, [Next]_vars
             PROVE  SentInv'
  OBVIOUS
<1>0. TypeOK
  BY DEF TypeInv
<1>1. ASSUME NEW r \in Runs, TurnAway(r) \/ LintFails(r) \/ Begin(r) PROVE SentInv'
  <2> PICK token, program :
        /\ Arrives(r, token, program)
        /\ \/ pc' = [pc EXCEPT ![r] = "done"]
           \/ token \in DOMAIN PrincipalFor /\ pc' = [pc EXCEPT ![r] = "read_program"]
    BY <1>1 DEF TurnAway, LintFails, Begin, End
  <2> QED
    BY <1>0, SentInvArrives DEF TypeOK
<1>2. ASSUME NEW r \in Runs,
             \/ ReadProgram(r) \/ WriteProgram(r)
             \/ ReadDescription(r) \/ WriteDescription(r)
      PROVE  SentInv'
  BY <1>0, <1>2, SentInvFrame
  DEF ReadProgram, WriteProgram, ReadDescription, WriteDescription, Moves, TypeOK, history
<1>3. ASSUME NEW r \in Runs, StoreFails(r) PROVE SentInv'
  BY <1>0, <1>3, SentInvFrame DEF StoreFails, End, TypeOK, history
<1>4. ASSUME NEW r \in Runs, Refuse(r) PROVE SentInv'
  BY <1>0, <1>4, SentInvFrame DEF Refuse, TypeOK, history
<1>5. ASSUME NEW r \in Runs, Dispatch(r) PROVE SentInv'
  <2> PICK call \in Calls :
        /\ decide(Principal(r), Allowed(r), call) = "Allowed"
        /\ sent' = [sent EXCEPT ![r] = Append(@, <<NextPosition(r), call>>)]
    BY <1>5 DEF Dispatch
  <2>1. Authenticated(r)
    BY <1>5 DEF Dispatch, SentInv, Live
  <2>2. Permitted(Principal(r), call)
    BY DecideIsSound DEF Allowed
  <2>3. Range(sent'[r]) = Range(sent[r]) \cup {<<NextPosition(r), call>>}
    <3>1. sent[r] \in Seq(Nat \X Calls) /\ sent'[r] = Append(sent[r], <<NextPosition(r), call>>)
      BY <1>0 DEF TypeOK
    <3>2. <<NextPosition(r), call>> \in Nat \X Calls
      BY <1>0 DEF NextPosition, TypeOK
    <3> QED
      BY <3>1, <3>2, RangeOfAppend
  <2>4. \A q \in Runs \ {r} : sent'[q] = sent[q] /\ pc'[q] = pc[q]
    BY <1>0, <1>5 DEF Dispatch, TypeOK
  <2>5. UNCHANGED req
    BY <1>5 DEF Dispatch
  <2>6. OnlyPermittedCallsAreSent'
    <3> SUFFICES ASSUME NEW q \in Runs, NEW e \in Range(sent'[q])
                 PROVE  Authenticated(q) /\ Permitted(Principal(q), e[2])
      BY <2>5 DEF OnlyPermittedCallsAreSent, Authenticated, Principal, Permitted
    <3>1. CASE q = r /\ e = <<NextPosition(r), call>>
      BY <2>1, <2>2, <3>1
    <3>2. CASE e \in Range(sent[q])
      BY <3>2 DEF SentInv, OnlyPermittedCallsAreSent
    <3> QED
      BY <2>3, <2>4, <3>1, <3>2
  <2>7. pc[r] = "vm" /\ pc'[r] = "waiting"
    BY <1>0, <1>5 DEF Dispatch, TypeOK
  <2> QED
    BY <2>4, <2>5, <2>6, <2>7 DEF SentInv, Live, Authenticated
<1>6. ASSUME NEW r \in Runs, Reply(r) PROVE SentInv'
  BY <1>0, <1>6, SentInvFrame DEF Reply, TypeOK
<1>7. ASSUME NEW r \in Runs, CoreRecords(r) PROVE SentInv'
  BY <1>0, <1>7, SentInvFrame DEF CoreRecords, TypeOK, history
<1>8. ASSUME NEW r \in Runs, Finish(r) PROVE SentInv'
  <2>1. /\ pc[r] \in {"vm", "vm_failed"}
        /\ pc' \in {[pc EXCEPT ![r] = "store_trace"], [pc EXCEPT ![r] = "done"]}
        /\ UNCHANGED <<req, sent>>
    BY <1>8 DEF Finish, VmEnds, End, history
  <2> QED
    BY <1>0, <2>1, SentInvFrame DEF TypeOK
<1>9. ASSUME NEW r \in Runs, StoreTrace(r) PROVE SentInv'
  BY <1>0, <1>9, SentInvFrame DEF StoreTrace, TypeOK, history
<1>10. ASSUME NEW r \in Runs, Answer(r) PROVE SentInv'
  BY <1>0, <1>10, SentInvFrame DEF Answer, End, TypeOK, history
<1>11. ASSUME Die PROVE SentInv'
  BY <1>0, <1>11, SentInvFrame DEF Die, Live, TypeOK, history
<1>12. ASSUME UNCHANGED vars PROVE SentInv'
  BY <1>12, SentInvFrame DEF vars, runVars, history
<1> QED
  BY <1>1, <1>2, <1>3, <1>4, <1>5, <1>6, <1>7, <1>8, <1>9, <1>10, <1>11, <1>12
  DEF Next, Serve

\* Whatever program a request submits and whatever the downstreams reply, no call
\* reaches a downstream that the rules do not permit the principal of the token.
THEOREM CallsArePermitted == Spec => []OnlyPermittedCallsAreSent
<1>1. Init => SentInv
  BY DEF Init, SentInv, OnlyPermittedCallsAreSent, Live, Range
<1>2. Spec => [](TypeInv /\ SentInv)
  BY <1>1, InitTypeInv, StepTypeInv, StepSentInv, PTL DEF Spec
<1> QED
  BY <1>2, PTL DEF SentInv

-----------------------------------------------------------------------------
(* The host's log zips with core's transcript *)

\* What core is about to record of the call that call_tool returned from.
PendingRecord(r) ==
  [response    |-> result[r],
   attestation |-> IF result[r].ok THEN attestation[r] ELSE NoAttestation]

\* Inductive, for one request: the invariant has to say as well what the host
\* left for core when a call returned, that a call which is out has no blob of
\* an earlier one, and that what accept let through can be recorded.
Zipped(r) ==
  /\ response[r].kind # "panicked"
  /\ pc[r] # "vm_failed"
  /\ pc[r] \notin {"returned", "done"} => Len(log[r]) = Len(transcript[r])
  /\ Len(transcript[r]) <= Len(log[r])
  /\ pc[r] = "waiting" => attestation[r] = NoAttestation
  /\ pc[r] = "returned" =>
       /\ Len(log[r]) = Len(transcript[r]) + 1
       /\ result[r].ok => Recordable(result[r].value)
       /\ Describes(log[r][Len(log[r])], PendingRecord(r), r, Len(log[r]))
  /\ \A i \in 1..Len(transcript[r]) : Describes(log[r][i], transcript[r][i], r, i)

ZipInv == \A r \in Runs : Zipped(r)

\* A request that a step leaves alone.
LEMMA ZippedSame ==
  ASSUME NEW q \in Runs, Zipped(q), pc'[q] = pc[q], response'[q] = response[q],
         log'[q] = log[q], transcript'[q] = transcript[q],
         attestation'[q] = attestation[q], result'[q] = result[q]
  PROVE  Zipped(q)'
  BY DEF Zipped, Describes, PendingRecord

\* A request that goes on between two calls, or ends.
LEMMA ZippedMoves ==
  ASSUME NEW q \in Runs, Zipped(q),
         log'[q] = log[q], transcript'[q] = transcript[q],
         response'[q].kind # "panicked",
         \/ pc'[q] = "done"
         \/ /\ pc[q] \notin {"returned", "done"}
            /\ pc'[q] \notin {"waiting", "returned", "vm_failed"}
  PROVE  Zipped(q)'
  BY DEF Zipped, Describes

\* The host appends an entry for the call it returns from.
LEMMA ZippedReturns ==
  ASSUME TypeOK, NEW r \in Runs, Zipped(r), pc[r] \in {"vm", "waiting"},
         NEW entry \in LogEntries,
         log' = [log EXCEPT ![r] = Append(@, entry)],
         pc'[r] = "returned",
         UNCHANGED <<transcript, response>>,
         result'[r].ok => Recordable(result'[r].value),
         Describes(entry, PendingRecord(r)', r, NextPosition(r))
  PROVE  Zipped(r)'
<1>1. /\ log'[r] = Append(log[r], entry)
      /\ log[r] \in Seq(LogEntries)
      /\ transcript[r] \in Seq(Records)
  BY DEF TypeOK
<1>2. /\ Len(log'[r]) = NextPosition(r)
      /\ log'[r][NextPosition(r)] = entry
      /\ \A i \in 1..Len(log[r]) : log'[r][i] = log[r][i]
      /\ Len(log[r]) \in Nat /\ Len(transcript[r]) \in Nat
  BY <1>1 DEF NextPosition
<1>3. Len(log[r]) = Len(transcript[r])
  BY DEF Zipped
<1>4. ASSUME NEW i \in 1..Len(transcript[r])
      PROVE  Describes(log'[r][i], transcript[r][i], r, i)
  BY <1>2, <1>3 DEF Zipped
<1>5. Describes(log'[r][Len(log'[r])], PendingRecord(r)', r, Len(log'[r]))
  BY <1>2
<1>6. /\ Len(log'[r]) = Len(transcript[r]) + 1
      /\ Len(transcript[r]) <= Len(log'[r])
  BY <1>2, <1>3 DEF NextPosition
<1>7. response'[r].kind # "panicked"
  BY DEF Zipped
<1>8. \A i \in 1..Len(transcript'[r]) : Describes(log[r][i], transcript[r][i], r, i)'
  BY <1>4 DEF Describes
<1>9. Describes(log[r][Len(log[r])], PendingRecord(r), r, Len(log[r]))'
  BY <1>5 DEF Describes
<1> QED
  BY <1>6, <1>7, <1>8, <1>9 DEF Zipped

LEMMA StepZipInv == TypeInv /\ ZipInv /\ [Next]_vars => ZipInv'
<1> SUFFICES ASSUME TypeInv, ZipInv, [Next]_vars, NEW q \in Runs
             PROVE  Zipped(q)'
  BY DEF ZipInv
<1>0. TypeOK /\ Zipped(q)
  BY DEF TypeInv, ZipInv
<1>1. ASSUME NEW r \in Runs, TurnAway(r) \/ LintFails(r) \/ Begin(r) PROVE Zipped(q)'
  <2>1. /\ pc[r] = "idle"
        /\ UNCHANGED <<log, attestation, result, transcript>>
        /\ \/ /\ pc' = [pc EXCEPT ![r] = "done"]
              /\ \/ response' = [response EXCEPT ![r] = [kind |-> "unauthorized"]]
                 \/ response' = [response EXCEPT ![r] = [kind |-> "lint_error"]]
           \/ pc' = [pc EXCEPT ![r] = "read_program"] /\ UNCHANGED response
    BY <1>1 DEF TurnAway, LintFails, Begin, Arrives, End
  <2>2. CASE q = r
    <3>1. pc[q] = "idle" /\ pc'[q] \in {"done", "read_program"}
      BY <1>0, <2>1, <2>2 DEF TypeOK
    <3>2. response'[q].kind # "panicked"
      BY <1>0, <2>1, <2>2 DEF TypeOK, Zipped
    <3> QED
      BY <1>0, <2>1, <3>1, <3>2, ZippedMoves
  <2>3. CASE q # r
    BY <1>0, <2>1, <2>3, ZippedSame DEF TypeOK
  <2> QED
    BY <2>2, <2>3
<1>2. ASSUME NEW r \in Runs,
             \/ ReadProgram(r) \/ WriteProgram(r)
             \/ ReadDescription(r) \/ WriteDescription(r)
      PROVE  Zipped(q)'
  <2>1. PICK from \in PcValues \ {"returned", "done"},
             to \in PcValues \ {"waiting", "returned", "vm_failed"} : Moves(r, from, to)
    BY <1>2 DEF ReadProgram, WriteProgram, ReadDescription, WriteDescription, PcValues
  <2>2. CASE q = r
    BY <1>0, <2>1, <2>2, ZippedMoves DEF Moves, TypeOK, Zipped
  <2>3. CASE q # r
    BY <1>0, <2>1, <2>3, ZippedSame DEF Moves, TypeOK
  <2> QED
    BY <2>2, <2>3
<1>3. ASSUME NEW r \in Runs, StoreFails(r) \/ Answer(r) PROVE Zipped(q)'
  <2>1. PICK answer : answer.kind # "panicked" /\ End(r, answer)
    BY <1>3 DEF StoreFails, Answer
  <2>2. UNCHANGED <<log, attestation, result, transcript>>
    BY <1>3 DEF StoreFails, Answer
  <2>3. CASE q = r
    BY <1>0, <2>1, <2>2, <2>3, ZippedMoves DEF End, TypeOK
  <2>4. CASE q # r
    BY <1>0, <2>1, <2>2, <2>4, ZippedSame DEF End, TypeOK
  <2> QED
    BY <2>3, <2>4
<1>4. ASSUME NEW r \in Runs, Refuse(r) PROVE Zipped(q)'
  <2>1. CASE q = r
    <3> PICK call \in Calls :
          /\ decide(Principal(r), Allowed(r), call) # "Allowed"
          /\ log' = [log EXCEPT ![r] = Append(@,
                      [decision   |-> decide(Principal(r), Allowed(r), call),
                       provenance |-> "Unsigned"])]
      BY <1>4 DEF Refuse
    <3> DEFINE entry == [decision   |-> decide(Principal(r), Allowed(r), call),
                         provenance |-> "Unsigned"]
    <3>1. entry \in LogEntries
      BY DEF decide, LogEntries, Decisions, Tags
    <3>2. result'[r] = Failed
      BY <1>0, <1>4 DEF Refuse, TypeOK
    <3>3. Describes(entry, PendingRecord(r)', r, NextPosition(r))
      BY <3>2 DEF Describes, PendingRecord, Failed
    <3>4. pc[r] = "vm" /\ pc'[r] = "returned" /\ UNCHANGED <<transcript, response>>
      BY <1>0, <1>4 DEF Refuse, TypeOK
    <3>5. log' = [log EXCEPT ![r] = Append(@, entry)]
      OBVIOUS
    <3>6. ~result'[r].ok
      BY <3>2 DEF Failed
    <3>7. Zipped(r)
      BY <1>0, <2>1
    <3> HIDE DEF entry
    <3>8. Zipped(r)'
      BY <1>0, <3>1, <3>3, <3>4, <3>5, <3>6, <3>7, ZippedReturns
    <3> QED
      BY <2>1, <3>8
  <2>2. CASE q # r
    BY <1>0, <1>4, <2>2, ZippedSame DEF Refuse, TypeOK
  <2> QED
    BY <2>1, <2>2
<1>5. ASSUME NEW r \in Runs, Dispatch(r) PROVE Zipped(q)'
  <2>1. CASE q = r
    BY <1>0, <1>5, <2>1 DEF Dispatch, Zipped, Describes, TypeOK
  <2>2. CASE q # r
    BY <1>0, <1>5, <2>2, ZippedSame DEF Dispatch, TypeOK
  <2> QED
    BY <2>1, <2>2
<1>6. ASSUME NEW r \in Runs, Reply(r) PROVE Zipped(q)'
  <2>1. CASE q = r
    <3>1. /\ pc[r] = "waiting" /\ pc'[r] = "returned"
          /\ UNCHANGED <<transcript, response>>
          /\ attestation[r] = NoAttestation
      BY <1>0, <1>6, <2>1 DEF Reply, TypeOK, Zipped
    <3>2. PICK entry \in LogEntries :
            /\ log' = [log EXCEPT ![r] = Append(@, entry)]
            /\ entry.decision = "Allowed"
            /\ \/ /\ entry.provenance = "Unsigned"
                  /\ attestation'[r] = NoAttestation
                  /\ result'[r].ok => result'[r].value \in Values
               \/ /\ entry.provenance = "Attested"
                  /\ attestation'[r] = <<r, NextPosition(r)>>
                  /\ result'[r].ok /\ result'[r].value \in Values
      <4>0. \A tag \in Tags : [decision |-> "Allowed", provenance |-> tag] \in LogEntries
        BY DEF LogEntries, Decisions
      <4>1. CASE /\ log' = [log EXCEPT ![r] = Append(@,
                         [decision |-> "Allowed", provenance |-> "Unsigned"])]
                 /\ attestation' = attestation
                 /\ result' = [result EXCEPT ![r] = Failed]
        <5> [decision |-> "Allowed", provenance |-> "Unsigned"] \in LogEntries
          BY <4>0 DEF Tags
        <5> WITNESS [decision |-> "Allowed", provenance |-> "Unsigned"] \in LogEntries
        <5>1. attestation'[r] = NoAttestation /\ result'[r] = Failed
          BY <1>0, <3>1, <4>1 DEF TypeOK
        <5>2. ~result'[r].ok
          BY <5>1 DEF Failed
        <5> QED
          BY <4>1, <5>1, <5>2
      <4>2. CASE \E value \in Values :
                 /\ log' = [log EXCEPT ![r] = Append(@,
                         [decision |-> "Allowed", provenance |-> "Unsigned"])]
                 /\ attestation' = [attestation EXCEPT ![r] = NoAttestation]
                 /\ result' = [result EXCEPT ![r] = [ok |-> TRUE, value |-> value]]
        <5> [decision |-> "Allowed", provenance |-> "Unsigned"] \in LogEntries
          BY <4>0 DEF Tags
        <5> WITNESS [decision |-> "Allowed", provenance |-> "Unsigned"] \in LogEntries
        <5> QED
          BY <1>0, <4>2 DEF TypeOK
      <4>3. CASE \E value \in Values :
                 /\ log' = [log EXCEPT ![r] = Append(@,
                         [decision |-> "Allowed", provenance |-> "Attested"])]
                 /\ attestation' = [attestation EXCEPT ![r] = <<r, NextPosition(r)>>]
                 /\ result' = [result EXCEPT ![r] = [ok |-> TRUE, value |-> value]]
        <5> [decision |-> "Allowed", provenance |-> "Attested"] \in LogEntries
          BY <4>0 DEF Tags
        <5> WITNESS [decision |-> "Allowed", provenance |-> "Attested"] \in LogEntries
        <5> QED
          BY <1>0, <4>3 DEF TypeOK
      <4> QED
        BY <1>0, <1>6, <4>1, <4>2, <4>3, ReplyEffect
    <3>3. Describes(entry, PendingRecord(r)', r, NextPosition(r))
      BY <3>2 DEF Describes, PendingRecord
    <3>4. result'[r].ok => Recordable(result'[r].value)
      BY <3>2, ValuesAreRecordable DEF Recordable
    <3> QED
      BY <1>0, <2>1, <3>1, <3>2, <3>3, <3>4, ZippedReturns
  <2>2. CASE q # r
    <3>1. /\ log'[q] = log[q]
          /\ attestation'[q] = attestation[q]
          /\ result'[q] = result[q]
      <4>1. /\ log \in [Runs -> Seq(LogEntries)] /\ attestation \in [Runs -> Blobs]
            /\ result \in [Runs -> Results]
        BY <1>0 DEF TypeOK
      <4> QED
        BY <1>0, <1>6, <2>2, <4>1, ReplyEffect
    <3> QED
      <4>1. response'[q] = response[q] /\ transcript'[q] = transcript[q] /\ pc'[q] = pc[q]
        BY <1>0, <1>6, <2>2 DEF Reply, TypeOK
      <4> QED
        BY <1>0, <3>1, <4>1, ZippedSame
  <2> QED
    BY <2>1, <2>2
<1>7. ASSUME NEW r \in Runs, CoreRecords(r) PROVE Zipped(q)'
  <2>1. pc[r] = "returned" /\ UNCHANGED <<log, result, response>>
    BY <1>7 DEF CoreRecords
  <2>2. CASE q = r
    <3>1. /\ Len(log[r]) = Len(transcript[r]) + 1
          /\ result[r].ok => Recordable(result[r].value)
          /\ Describes(log[r][Len(log[r])], PendingRecord(r), r, Len(log[r]))
          /\ response[r].kind # "panicked"
          /\ \A i \in 1..Len(transcript[r]) : Describes(log[r][i], transcript[r][i], r, i)
      BY <1>0, <2>1, <2>2 DEF Zipped
    <3> DEFINE record == [call |-> VmStep(r).call, response |-> result[r],
                          attestation |-> IF result[r].ok THEN attestation[r]
                                                          ELSE NoAttestation]
    <3>2. transcript' = [transcript EXCEPT ![r] = Append(@, record)]
      BY <1>0, <1>7, <3>1, CoreRecordsEffect
    <3>3. pc'[r] = "vm"
      BY <1>0, <1>7, <3>1, CoreRecordsEffect DEF TypeOK
    <3>4. Describes(log[r][Len(log[r])], record, r, Len(log[r]))
      BY <3>1 DEF Describes, PendingRecord
    <3> HIDE DEF record
    <3>5. transcript'[r] = Append(transcript[r], record) /\ transcript[r] \in Seq(Records)
      BY <1>0, <3>2 DEF TypeOK
    <3>6. /\ Len(transcript'[r]) = Len(transcript[r]) + 1
          /\ Len(transcript[r]) \in Nat
          /\ transcript'[r][Len(transcript[r]) + 1] = record
          /\ \A i \in 1..Len(transcript[r]) : transcript'[r][i] = transcript[r][i]
      BY <3>5
    <3>7. ASSUME NEW i \in 1..Len(transcript'[r])
          PROVE  Describes(log[r][i], transcript'[r][i], r, i)
      <4>1. CASE i = Len(transcript[r]) + 1
        BY <3>1, <3>4, <3>6, <4>1
      <4>2. CASE i # Len(transcript[r]) + 1
        BY <3>1, <3>6, <4>2
      <4> QED
        BY <4>1, <4>2
    <3>8. \A i \in 1..Len(transcript'[r]) : Describes(log[r][i], transcript[r][i], r, i)'
      BY <2>1, <3>7 DEF Describes
    <3>9. Len(log'[r]) = Len(transcript'[r]) /\ Len(log'[r]) \in Nat
      BY <2>1, <3>1, <3>6
    <3> QED
      BY <2>1, <2>2, <3>1, <3>3, <3>8, <3>9 DEF Zipped
  <2>3. CASE q # r
    <3>1. /\ pc'[q] = pc[q] /\ transcript'[q] = transcript[q]
          /\ attestation'[q] = attestation[q]
      BY <1>0, <1>7, <2>3 DEF CoreRecords, TypeOK
    <3> QED
      BY <1>0, <2>1, <3>1, ZippedSame
  <2> QED
    BY <2>2, <2>3
<1>8. ASSUME NEW r \in Runs, Finish(r) PROVE Zipped(q)'
  <2>1. /\ pc[r] \in {"vm", "vm_failed"}
        /\ UNCHANGED <<log, attestation, result, transcript>>
    BY <1>8 DEF Finish, VmEnds
  <2>2. Len(transcript[r]) = Len(log[r])
    BY <2>1 DEF ZipInv, Zipped
  <2>3. pc' = [pc EXCEPT ![r] = "store_trace"] /\ UNCHANGED response
    BY <1>8, <2>2 DEF Finish
  <2>4. CASE q = r
    BY <1>0, <2>1, <2>3, <2>4, ZippedMoves DEF TypeOK, Zipped
  <2>5. CASE q # r
    BY <1>0, <2>1, <2>3, <2>5, ZippedSame DEF TypeOK
  <2> QED
    BY <2>4, <2>5
<1>9. ASSUME NEW r \in Runs, StoreTrace(r) PROVE Zipped(q)'
  <2>1. CASE q = r
    BY <1>0, <1>9, <2>1, ZippedMoves DEF StoreTrace, TypeOK, Zipped
  <2>2. CASE q # r
    BY <1>0, <1>9, <2>2, ZippedSame DEF StoreTrace, TypeOK
  <2> QED
    BY <2>1, <2>2
<1>10. ASSUME Die PROVE Zipped(q)'
  <2>1. UNCHANGED <<log, attestation, result, transcript>>
    BY <1>10 DEF Die
  <2>2. CASE Live(q)
    BY <1>0, <1>10, <2>1, <2>2, ZippedMoves DEF Die
  <2>3. CASE ~Live(q)
    BY <1>0, <1>10, <2>1, <2>3, ZippedSame DEF Die
  <2> QED
    BY <2>2, <2>3
<1>11. ASSUME UNCHANGED vars PROVE Zipped(q)'
  BY <1>0, <1>11, ZippedSame DEF vars, runVars
<1> QED
  BY <1>1, <1>2, <1>3, <1>4, <1>5, <1>6, <1>7, <1>8, <1>9, <1>10, <1>11 DEF Next, Serve

\* The assertion before the trace is built never fires, and each entry of the
\* host's log is about the record at its position, for every program and every
\* sequence of replies.
THEOREM LogZips == Spec => []LogZipsWithTranscript
<1>1. Init => ZipInv
  BY DEF Init, ZipInv, Zipped, NoResponse
<1>2. Spec => [](TypeInv /\ ZipInv)
  BY <1>1, InitTypeInv, StepTypeInv, StepZipInv, PTL DEF Spec
<1>3. ZipInv => LogZipsWithTranscript
  BY DEF ZipInv, Zipped, LogZipsWithTranscript
<1> QED
  BY <1>2, <1>3, PTL
=============================================================================
