------------------------------ MODULE Gateway -------------------------------
(***************************************************************************)
(* Concurrent `execute` requests on one gateway: authentication            *)
(* (src/src/server.rs), Engine::execute (src/src/engine.rs), the host and  *)
(* the downstreams behind it (Host.tla) and the files of the trace store,  *)
(* until each request has its answer or the process dies under it.         *)
(*                                                                         *)
(* The requests run on different threads and share the store only.  One    *)
(* action is what one request does between two points where another        *)
(* request, the downstream, the disk or the end of the process can come    *)
(* in: a content-addressed put reads the file and writes it in two steps,  *)
(* and a dispatched tool call is open until its reply is chosen.           *)
(*                                                                         *)
(* External parts (proveno core, from how engine.rs and host.rs use it):   *)
(* compilation is Code(_, _), the deterministic VM is VmNext(_, _), and    *)
(* core's recording of a tool call is CoreRecords.  Hashes are injective,  *)
(* so a hash is represented by what it hashes, and trace ids are unique,   *)
(* so the trace of request r has id r.                                     *)
(***************************************************************************)
EXTENDS Host, Sequences, Functions

CONSTANTS
  Runs,         \* the execute requests
  Tokens,       \* bearer tokens that requests carry
  PrincipalFor, \* [configured token -> principal] (Tokens::principal_for)
  Programs,     \* program texts
  LintError,    \* what Code gives for a text that does not compile
  Code(_, _),   \* bytecode of a program text behind a description's prelude
  VmNext(_, _), \* the VM's next step, from bytecode and the responses so far
  Outputs,      \* return values
  Oversized,    \* return values that output_json rejects
  VmErrors,     \* kinds of VM error
  MaxCrashes    \* bound: how often the process dies

ASSUME OversizedAreOutputs == Oversized \subseteq Outputs
ASSUME TokensAreConfigured == DOMAIN PrincipalFor \subseteq Tokens
ASSUME NoneIsNoToken == "none" \notin Tokens
ASSUME CrashBound == MaxCrashes \in Nat

VARIABLES
  pc,           \* where each request is
  req,          \* its token and program text
  log,          \* its host's log: (decision, provenance) per call
  attestation,  \* its host's blob, until core takes it
  result,       \* what call_tool returned, until core recorded it
  transcript,   \* the calls core recorded for it
  footer,       \* its output and status, once the VM ended
  response,     \* the answer it got
  programs,     \* programs/<hash>.lua
  descriptions, \* descriptions/<hash>.txt
  traces,       \* traces/<id>.json
  crashes,      \* how often the process has died
  sent,         \* history: <<position, call>> per dispatch, in dispatch order
  attested      \* history: the positions a downstream attested a good result at

runVars   == <<pc, req, log, attestation, result, transcript, footer, response>>
storeVars == <<programs, descriptions, traces>>
history   == <<sent, attested>>
vars      == <<runVars, storeVars, crashes, history>>

NoRequest  == [token |-> "none", program |-> "none"]
NoFile     == [absent |-> TRUE]
NoFooter   == [status |-> [kind |-> "none"]]
NoResponse == [kind |-> "none"]

-----------------------------------------------------------------------------
(* Of one request *)

Authenticated(r) == req[r].token \in DOMAIN PrincipalFor
Principal(r)     == PrincipalFor[req[r].token]
Allowed(r)       == allowed_schemas(Principal(r))

\* description::build: the description and its prelude are a function of the
\* allowed tools, and stand for themselves as their hash.
Description(r) == Allowed(r)

\* compile_program, and compute_program_hash_sha256 of what it gives.
ProgramHash(r) == Code(Description(r), req[r].program)

\* Source without the prelude.
SourceAsSubmitted(r) == [prelude |-> {}, program |-> req[r].program]

\* The source that is stored: the prelude followed by the program.
Source(r) == [prelude |-> Description(r), program |-> req[r].program]

\* The responses core handed to the program, in call order.
Observed(records) == [i \in 1..Len(records) |-> records[i].response]

CallStep(call)     == [kind |-> "call", call |-> call]
ReturnStep(output) == [kind |-> "return", output |-> output]
ErrorStep(error)   == [kind |-> "error", error |-> error]

VmStep(r) == VmNext(ProgramHash(r), Observed(transcript[r]))

\* The position a call gets in the host's log, and so in the trace.
NextPosition(r) == Len(log[r]) + 1

End(r, answer) ==
  /\ pc' = [pc EXCEPT ![r] = "done"]
  /\ response' = [response EXCEPT ![r] = answer]

-----------------------------------------------------------------------------
Init ==
  /\ pc = [r \in Runs |-> "idle"]
  /\ req = [r \in Runs |-> NoRequest]
  /\ log = [r \in Runs |-> << >>]
  /\ attestation = [r \in Runs |-> NoAttestation]
  /\ result = [r \in Runs |-> Failed]
  /\ transcript = [r \in Runs |-> << >>]
  /\ footer = [r \in Runs |-> NoFooter]
  /\ response = [r \in Runs |-> NoResponse]
  /\ programs = [h \in {} |-> NoFile]
  /\ descriptions = {}
  /\ traces = [r \in Runs |-> NoFile]
  /\ crashes = 0
  /\ sent = [r \in Runs |-> << >>]
  /\ attested = [r \in Runs |-> {}]

-----------------------------------------------------------------------------
(* The request arrives *)

Arrives(r, token, program) ==
  /\ pc[r] = "idle"
  /\ req' = [req EXCEPT ![r] = [token |-> token, program |-> program]]
  /\ UNCHANGED <<log, attestation, result, transcript, footer>>
  /\ UNCHANGED <<storeVars, crashes, history>>

\* require_bearer: a token that is nobody's is turned away with a 401.
TurnAway(r) ==
  \E token \in Tokens \ DOMAIN PrincipalFor, program \in Programs :
    /\ Arrives(r, token, program)
    /\ End(r, [kind |-> "unauthorized"])

\* Engine::execute returns a lint error before it stores anything.
LintFails(r) ==
  \E token \in DOMAIN PrincipalFor, program \in Programs :
    /\ Arrives(r, token, program)
    /\ ProgramHash(r)' = LintError
    /\ End(r, [kind |-> "lint_error"])

\* The program compiles: execute goes on to store it.
Begin(r) ==
  \E token \in DOMAIN PrincipalFor, program \in Programs :
    /\ Arrives(r, token, program)
    /\ ProgramHash(r)' # LintError
    /\ pc' = [pc EXCEPT ![r] = "read_program"]
    /\ UNCHANGED response

-----------------------------------------------------------------------------
(* The program and the description are stored *)

Moves(r, from, to) ==
  /\ pc[r] = from
  /\ pc' = [pc EXCEPT ![r] = to]
  /\ UNCHANGED <<req, log, attestation, result, transcript, footer, response>>
  /\ UNCHANGED <<traces, crashes, history>>

\* put_content_addressed on the program: an existing file is kept, whether its
\* content is the same (Ok) or not (Conflict, which execute accepts).
ReadProgram(r) ==
  /\ Moves(r, "read_program",
           IF ProgramHash(r) \in DOMAIN programs
           THEN "read_description" ELSE "write_program")
  /\ UNCHANGED <<programs, descriptions>>

\* write_atomic of the program: the rename replaces whatever is there by now.
WriteProgram(r) ==
  /\ Moves(r, "write_program", "read_description")
  /\ programs' = [h \in DOMAIN programs \cup {ProgramHash(r)} |->
                    IF h = ProgramHash(r) THEN Source(r) ELSE programs[h]]
  /\ UNCHANGED descriptions

\* put_description: the same in two steps, but its key is a hash of its
\* content, so a file that is there has the same content.  Then the trace id is
\* drawn, the host is built and the VM starts.
ReadDescription(r) ==
  /\ Moves(r, "read_description",
           IF Description(r) \in descriptions THEN "vm" ELSE "write_description")
  /\ UNCHANGED <<programs, descriptions>>

WriteDescription(r) ==
  /\ Moves(r, "write_description", "vm")
  /\ descriptions' = descriptions \cup {Description(r)}
  /\ UNCHANGED programs

\* StoreFails with the error of put_trace ignored.
StoreFailsUnnoticed(r) ==
  /\ pc[r] \in {"read_program", "write_program", "read_description",
                "write_description", "store_trace"}
  /\ End(r, IF pc[r] = "store_trace"
            THEN [kind |-> "run", trace_id |-> r, output |-> footer[r].output,
                  status |-> footer[r].status]
            ELSE [kind |-> "store_error"])
  /\ UNCHANGED <<req, log, attestation, result, transcript, footer>>
  /\ UNCHANGED <<storeVars, crashes, history>>

\* A step on the store fails: execute returns the error, whatever was done.
StoreFails(r) ==
  /\ pc[r] \in {"read_program", "write_program", "read_description",
                "write_description", "store_trace"}
  /\ End(r, [kind |-> "store_error"])
  /\ UNCHANGED <<req, log, attestation, result, transcript, footer>>
  /\ UNCHANGED <<storeVars, crashes, history>>

-----------------------------------------------------------------------------
(* The program runs *)

\* GatewayHost::call_tool refuses the program's next call: nothing is sent.
Refuse(r) ==
  /\ pc[r] = "vm"
  /\ \E call \in Calls :
       /\ VmStep(r) = CallStep(call)
       /\ decide(Principal(r), Allowed(r), call) # "Allowed"
       /\ log' = [log EXCEPT ![r] = Append(@,
                   [decision   |-> decide(Principal(r), Allowed(r), call),
                    provenance |-> "Unsigned"])]
  /\ attestation' = [attestation EXCEPT ![r] = NoAttestation]
  /\ result' = [result EXCEPT ![r] = Failed]
  /\ pc' = [pc EXCEPT ![r] = "returned"]
  /\ UNCHANGED <<req, transcript, footer, response, storeVars, crashes, history>>

\* call_tool lets the call through and blocks on the downstream.
Dispatch(r) ==
  /\ pc[r] = "vm"
  /\ \E call \in Calls :
       /\ VmStep(r) = CallStep(call)
       /\ decide(Principal(r), Allowed(r), call) = "Allowed"
       /\ sent' = [sent EXCEPT ![r] = Append(@, <<NextPosition(r), call>>)]
  /\ attestation' = [attestation EXCEPT ![r] = NoAttestation]
  /\ pc' = [pc EXCEPT ![r] = "waiting"]
  /\ UNCHANGED <<req, log, result, transcript, footer, response>>
  /\ UNCHANGED <<storeVars, crashes, attested>>

\* A downstream's word: a result that can be used, and says who vouches for it.
AttestsGoodResult(reply) ==
  /\ reply.delivered /\ ~reply.isError
  /\ reply.value \in Values
  /\ reply.provenance = "attested"

\* Reply that makes the call again when the request failed.
ReplyWithRetry(r) ==
  /\ pc[r] = "waiting"
  /\ pc' = [pc EXCEPT ![r] = "vm"]
  /\ UNCHANGED <<req, log, attestation, result, transcript, footer, response>>
  /\ UNCHANGED <<storeVars, crashes, history>>

\* The reply, or the failure of the request, comes back through accept.  The
\* blob a downstream attests with is the one for this call of this request.
Reply(r) ==
  /\ pc[r] = "waiting"
  /\ \E reply \in Replies :
       LET accepted == accept(DownstreamCall(reply, <<r, NextPosition(r)>>))
       IN  /\ log' = [log EXCEPT ![r] = Append(@,
                [decision   |-> "Allowed",
                 provenance |-> IF accepted.ok THEN accepted.provenance
                                               ELSE "Unsigned"])]
           /\ attestation' = [attestation EXCEPT ![r] =
                IF accepted.ok THEN accepted.attestation ELSE @]
           /\ result' = [result EXCEPT ![r] =
                IF accepted.ok THEN [ok |-> TRUE, value |-> accepted.value]
                               ELSE Failed]
           /\ attested' = [attested EXCEPT ![r] =
                IF AttestsGoodResult(reply) THEN @ \cup {NextPosition(r)} ELSE @]
  /\ pc' = [pc EXCEPT ![r] = "returned"]
  /\ UNCHANGED <<req, transcript, footer, response, storeVars, crashes, sent>>

\* Core (external) records what call_tool returned.  It takes the attestation
\* of a response, and a response it cannot canonicalise ends the run with the
\* call left out of the transcript.
CoreRecords(r) ==
  LET recordable == result[r].ok => Recordable(result[r].value)
      blob == IF result[r].ok THEN attestation[r] ELSE NoAttestation
  IN
  /\ pc[r] = "returned"
  /\ transcript' = [transcript EXCEPT ![r] =
       IF recordable
       THEN Append(@, [call |-> VmStep(r).call, response |-> result[r],
                       attestation |-> blob])
       ELSE @]
  /\ attestation' = [attestation EXCEPT ![r] =
       IF result[r].ok /\ recordable THEN NoAttestation ELSE @]
  /\ pc' = [pc EXCEPT ![r] = IF recordable THEN "vm" ELSE "vm_failed"]
  /\ UNCHANGED <<req, log, result, footer, response, storeVars, crashes, history>>

-----------------------------------------------------------------------------
(* The run ends and is recorded *)

EndSteps ==
  {ReturnStep(o) : o \in Outputs}
    \cup {ErrorStep(e) : e \in VmErrors \cup {"uncanonical"}}

VmEnds(r, end) ==
  IF pc[r] = "vm_failed"
  THEN end = ErrorStep("uncanonical")
  ELSE pc[r] = "vm" /\ VmStep(r) = end

\* error_status: the message quotes line numbers of the submitted text, so it
\* is a function of that text; the kind is not.
ErrorFooter(kind, program) ==
  [output |-> "none", status |-> [kind |-> kind, message |-> program]]

\* The output and status execute gives a run, with output_json.
FooterOf(end, program) ==
  IF end.kind = "error" THEN ErrorFooter(end.error, program)
  ELSE IF end.output \in Oversized THEN ErrorFooter("output_exceeded", program)
  ELSE [output |-> end.output, status |-> [kind |-> "ok", message |-> "none"]]

\* The VM ended.  Before the transcript is zipped with the host's log, execute
\* asserts that they have the same length; a failed assertion unwinds.
Finish(r) ==
  \E end \in EndSteps :
    /\ VmEnds(r, end)
    /\ footer' = [footer EXCEPT ![r] = FooterOf(end, req[r].program)]
    /\ IF Len(transcript[r]) = Len(log[r])
       THEN pc' = [pc EXCEPT ![r] = "store_trace"] /\ UNCHANGED response
       ELSE End(r, [kind |-> "panicked"])
    /\ UNCHANGED <<req, log, attestation, result, transcript>>
    /\ UNCHANGED <<storeVars, crashes, history>>

\* Entries that leaves failed calls out of the transcript, not out of the log.
EntriesOfResponses(r) ==
  LET responses == SelectSeq(transcript[r], LAMBDA record : record.response.ok)
  IN  [i \in 1..Len(responses) |->
         [record     |-> responses[i],
          decision   |-> log[r][i].decision,
          provenance |-> log[r][i].provenance]]

\* The transcript zipped with the host's log.
Entries(r) ==
  [i \in 1..Len(transcript[r]) |->
     [record     |-> transcript[r][i],
      decision   |-> log[r][i].decision,
      provenance |-> log[r][i].provenance]]

\* The signed trace.  The session, request, policy hash and VM settings are
\* copied into the header as they are and left out.
TraceOf(r) ==
  [trace_id         |-> r,
   principal        |-> Principal(r),
   program_hash     |-> ProgramHash(r),
   description_hash |-> Description(r),
   entries          |-> Entries(r),
   footer           |-> footer[r]]

\* put_trace.  Nobody else has this id, so its check and its write are one step.
StoreTrace(r) ==
  /\ pc[r] = "store_trace"
  /\ traces[r] = NoFile
  /\ traces' = [traces EXCEPT ![r] = TraceOf(r)]
  /\ pc' = [pc EXCEPT ![r] = "answer"]
  /\ UNCHANGED <<req, log, attestation, result, transcript, footer, response>>
  /\ UNCHANGED <<programs, descriptions, crashes, history>>

\* Answer that only a successful run gets.
AnswerSuccess(r) ==
  /\ pc[r] = "answer"
  /\ footer[r].status.kind = "ok"
  /\ End(r, [kind |-> "run", trace_id |-> r, output |-> footer[r].output,
             status |-> footer[r].status])
  /\ UNCHANGED <<req, log, attestation, result, transcript, footer>>
  /\ UNCHANGED <<storeVars, crashes, history>>

\* execute returns, and the server turns the response into an MCP result.
Answer(r) ==
  /\ pc[r] = "answer"
  /\ End(r, [kind |-> "run", trace_id |-> r, output |-> footer[r].output,
             status |-> footer[r].status])
  /\ UNCHANGED <<req, log, attestation, result, transcript, footer>>
  /\ UNCHANGED <<storeVars, crashes, history>>

\* The process dies or is stopped.  Files stay, every open request is lost,
\* and the gateway that is started next serves the requests that follow.
Live(r) == pc[r] \notin {"idle", "done"}

Die ==
  /\ crashes < MaxCrashes
  /\ \E r \in Runs : Live(r)
  /\ crashes' = crashes + 1
  /\ pc' = [r \in Runs |-> IF Live(r) THEN "done" ELSE pc[r]]
  /\ response' = [r \in Runs |-> IF Live(r) THEN [kind |-> "lost"] ELSE response[r]]
  /\ UNCHANGED <<req, log, attestation, result, transcript, footer>>
  /\ UNCHANGED <<storeVars, history>>

-----------------------------------------------------------------------------
\* What a request that is being served does next, on its own and with its
\* downstream.
Serve(r) ==
  \/ ReadProgram(r) \/ WriteProgram(r)
  \/ ReadDescription(r) \/ WriteDescription(r)
  \/ StoreFails(r)
  \/ Refuse(r) \/ Dispatch(r) \/ Reply(r) \/ CoreRecords(r)
  \/ Finish(r) \/ StoreTrace(r) \/ Answer(r)

Next ==
  \/ \E r \in Runs : TurnAway(r) \/ LintFails(r) \/ Begin(r) \/ Serve(r)
  \/ Die

Spec == Init /\ [][Next]_vars

\* A request that is being served is scheduled, and its downstream answers or
\* fails: call_tool has no timeout, so nothing can be promised without that.
FairSpec == Spec /\ \A r \in Runs : WF_vars(Serve(r))

-----------------------------------------------------------------------------
(* Types *)

Decisions  == {"Allowed", "RejectedBySchema", "DeniedByPolicy"}
Tags       == {"Unsigned", "Attested"}
LogEntries == [decision : Decisions, provenance : Tags]
Results    == {Failed} \cup [ok : {TRUE}, value : ReplyValues]
Blobs      == {NoAttestation} \cup (Runs \X (Nat \ {0}))
Records    == [call : Calls, response : Results, attestation : Blobs]
PcValues   ==
  {"idle", "read_program", "write_program", "read_description",
   "write_description", "vm", "waiting", "returned", "vm_failed",
   "store_trace", "answer", "done"}
StatusKinds == VmErrors \cup {"none", "ok", "uncanonical", "output_exceeded"}
AnswerKinds ==
  {"none", "unauthorized", "lint_error", "store_error", "panicked", "lost", "run"}

Requests == [token : Tokens, program : Programs]
Sources  == [prelude : SUBSET Discovered, program : Programs]

\* Every variable of the model has its type, a footer and an answer by their kind
\* and a trace by its place; a request that has arrived is there.
TypeOK ==
  /\ pc \in [Runs -> PcValues]
  /\ req \in [Runs -> Requests \cup {NoRequest}]
  /\ \A r \in Runs : pc[r] # "idle" => req[r] \in Requests
  /\ log \in [Runs -> Seq(LogEntries)]
  /\ attestation \in [Runs -> Blobs]
  /\ result \in [Runs -> Results]
  /\ transcript \in [Runs -> Seq(Records)]
  /\ DOMAIN footer = Runs
  /\ \A r \in Runs : footer[r].status.kind \in StatusKinds
  /\ DOMAIN response = Runs
  /\ \A r \in Runs : response[r].kind \in AnswerKinds
  /\ DOMAIN traces = Runs
  /\ programs \in [DOMAIN programs -> Sources]
  /\ descriptions \subseteq SUBSET Discovered
  /\ crashes \in 0..MaxCrashes
  /\ sent \in [Runs -> Seq(Nat \X Calls)]
  /\ attested \in [Runs -> SUBSET Nat]

\* The program's call that the host is working on is one it can make.
PendingCall ==
  \A r \in Runs : pc[r] \in {"waiting", "returned"} =>
    \E call \in Calls : VmStep(r) = CallStep(call)

-----------------------------------------------------------------------------
(* Properties *)

\* What the rules mean, said without the order of the checks: the tool exists,
\* the rules list it for the principal, its arguments have a JSON form that
\* fits the schema, and each bounded argument is an integer up to its bound.
Permitted(principal, call) ==
  /\ principal \in DOMAIN Allow
  /\ call.tool \in Discovered \cap Allow[principal]
  /\ call \in Calls \ (Unconvertible \cup Misfits)
  /\ call.tool \in DOMAIN Bounds =>
       \A arg \in DOMAIN Bounds[call.tool] :
         /\ arg \in DOMAIN call.args
         /\ call.args[arg] # NotInteger
         /\ call.args[arg] <= Bounds[call.tool][arg]

\* No call reaches a downstream that the rules do not permit the principal whose
\* token the request carried (host.rs:71-117 before the dispatch).
OnlyPermittedCallsAreSent ==
  \A r \in Runs : \A e \in Range(sent[r]) :
    Authenticated(r) /\ Permitted(Principal(r), e[2])

\* The i-th log entry of a request describes the i-th record of its transcript: a
\* refused call is a recorded failure, and exactly the attested responses carry a
\* blob, which is the blob of that call.
Describes(entry, record, r, i) ==
  /\ entry.decision # "Allowed" => ~record.response.ok
  /\ ~record.response.ok => entry.provenance = "Unsigned"
  /\ entry.provenance = "Attested" => record.attestation = <<r, i>>
  /\ entry.provenance = "Unsigned" => record.attestation = NoAttestation

\* The host's log and core's transcript describe the same calls in the same
\* order, so the assertion at engine.rs:170 never fires: between calls they
\* have the same length, during a call the log is at most one ahead, and each
\* entry describes its record (host.rs:56-62, 119-135).
LogZipsWithTranscript ==
  \A r \in Runs :
    /\ response[r].kind # "panicked"
    /\ pc[r] \in {"vm", "waiting", "store_trace", "answer"} =>
         Len(log[r]) = Len(transcript[r])
    /\ pc[r] = "returned" => Len(log[r]) = Len(transcript[r]) + 1
    /\ \A i \in 1..Len(transcript[r]) :
         Describes(log[r][i], transcript[r][i], r, i)

\* The calls a trace says were let through.
TracedCalls(t) ==
  {<<i, t.entries[i].record.call>> :
     i \in {j \in DOMAIN t.entries : t.entries[j].decision = "Allowed"}}

\* A stored trace accounts for the run: under the principal that asked, it has
\* exactly the calls that were sent, in the order and at the positions they
\* were sent at, each sent once, and marks as attested exactly those whose own reply was (engine.rs:177-216).
TraceAccountsForEveryCall ==
  \A r \in Runs : traces[r] # NoFile =>
    /\ traces[r].principal = Principal(r)
    /\ TracedCalls(traces[r]) = Range(sent[r])
    /\ \A j, k \in DOMAIN sent[r] : j < k => sent[r][j][1] < sent[r][k][1]
    /\ {i \in DOMAIN traces[r].entries :
          traces[r].entries[i].provenance = "Attested"} = attested[r]

\* What the caller may conclude from its answer (engine.rs:36-48, 106-108;
\* server.rs:289-302).  An answer with a trace id is the stored trace's own
\* outcome; a lint error or a 401 means no call was made and no trace exists;
\* a run whose calls are in no trace was answered with a store error, or lost.
AnswersAreHonest ==
  \A r \in Runs :
    /\ response[r].kind = "run" =>
         /\ traces[r] # NoFile
         /\ response[r].status = traces[r].footer.status
         /\ response[r].output = traces[r].footer.output
    /\ response[r].kind \in {"lint_error", "unauthorized"} =>
         sent[r] = << >> /\ traces[r] = NoFile
    /\ pc[r] = "done" /\ sent[r] # << >> /\ traces[r] = NoFile =>
         response[r].kind \in {"store_error", "lost"}

\* replay.rs on a stored trace: the stored source compiles to the hash in the
\* header, makes exactly the recorded calls when it is given the recorded
\* responses, and ends with the recorded output and kind of status.
ReplayMatches(t) ==
  LET source   == programs[t.program_hash]
      code     == Code(source.prelude, source.program)
      tape(n)  == [i \in 1..n |-> t.entries[i].record.response]
      calls    == Len(t.entries)
      replayed(end) == FooterOf(end, source.program)
  IN /\ code = t.program_hash
     /\ \A i \in 1..calls :
          VmNext(code, tape(i - 1)) = CallStep(t.entries[i].record.call)
     /\ \E end \in EndSteps :
          /\ VmNext(code, tape(calls)) = end
          /\ replayed(end).output = t.footer.output
          /\ replayed(end).status.kind = t.footer.status.kind

\* Every stored trace replays, from the moment it is stored: its program and
\* its description are on disk, and no later put of another text with the same
\* hash, in whatever order the puts are interleaved, changes the verdict.
StoredTracesReplay ==
  \A r \in Runs : traces[r] # NoFile =>
    /\ traces[r].program_hash \in DOMAIN programs
    /\ traces[r].description_hash \in descriptions
    /\ ReplayMatches(traces[r])

\* A request that was taken on is answered, unless the process dies, and then
\* it is lost: no interleaving leaves it waiting (engine.rs:109-227).
EveryRequestIsAnswered ==
  \A r \in Runs : (pc[r] # "idle") ~> (response[r].kind # "none")

-----------------------------------------------------------------------------
(* The gateway implements AuditLog *)

Audit == INSTANCE AuditLog WITH
  Principals  <- {PrincipalFor[t] : t \in DOMAIN PrincipalFor},
  NoOwner     <- "nobody",
  owner       <- [r \in Runs |-> IF Authenticated(r) THEN Principal(r) ELSE "nobody"],
  effects     <- sent,
  published   <- [r \in Runs |-> IF traces[r] = NoFile THEN {}
                                  ELSE {TracedCalls(traces[r])}],
  closed      <- [r \in Runs |-> pc[r] = "done"]

\* The calls of every request, and the traces they end in, are those of an
\* audited request: permitted calls only, recorded exactly, recorded once.
ImplementsAuditLog == Audit!Spec
=============================================================================
