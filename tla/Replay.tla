------------------------------- MODULE Replay -------------------------------
(***************************************************************************)
(* Runs that leave signed traces, and one `replay` of a stored trace       *)
(* (src/src/replay.rs, replay_command in src/src/main.rs) while the store  *)
(* and the configuration change around it: other runs replace a program    *)
(* file by a text of the same hash, files are altered, lost or put under   *)
(* another name, the key is rotated and the VM limits are changed.         *)
(*                                                                         *)
(* External: the VM of proveno core is a deterministic machine over the    *)
(* nodes of a program, charged one unit of gas a call; its strict tape     *)
(* answers a call only when it is the next one recorded.  Signatures are   *)
(* ideal, hashes injective: a program hash is the bytecode.                *)
(***************************************************************************)
EXTENDS Integers, Sequences, FiniteSets

CONSTANTS
  Ids,          \* trace ids
  Asked,        \* what `replay` may be asked for
  Codes,        \* bytecodes, each its own program_hash
  Texts,        \* texts of one bytecode, which differ in comments and lines
  At(_, _),     \* of a bytecode and a node: a call, an output or an error
  Then(_, _, _),\* the node after a call, from the response
  Responses,    \* responses of the downstreams
  Failed,       \* what a call that failed gives the program
  Size(_),      \* bytes of a response or an output
  Keys,         \* signing keys of this gateway
  ForeignKey,   \* the key of somebody else
  Limits,       \* VmSettings: [gas_limit, max_output_bytes]
  Missing,      \* no file
  Unreadable,   \* a file that does not parse or compile
  MaxAlterations \* bound: how often somebody alters a file

ASSUME AlterationBound == MaxAlterations \in Nat
ASSUME ForeignKeyIsForeign == ForeignKey \notin Keys
ASSUME ResponsesAreResponses == Failed \notin Responses
ASSUME NoFileIsNoProgram == {Missing, Unreadable} \cap [code : Codes, text : Texts] = {}

VARIABLES
  key, limits,  \* the configuration: signing key and vm settings
  traces,       \* traces/<id>.json
  programs,     \* programs/<hash>.lua
  run,          \* the run that is being recorded
  replay,       \* the replay: where it is, and what it has read
  vm,           \* the VM of the run or of the replay
  alterations,  \* how often a file was altered
  recorded      \* history: the traces this gateway signed

store == <<traces, programs>>
vars  == <<key, limits, store, run, replay, vm, alterations, recorded>>

NoSig   == [key |-> "none"]
Idle    == [pc |-> "idle"]
NoTrace == [status |-> "none"]
NoVm    == [code |-> "none"]

\* vm.execute at its first step.
Started(code, settings) ==
  [code |-> code, node |-> 1, gas |-> 0, memory |-> 0, settings |-> settings]

Init ==
  /\ key \in Keys
  /\ limits \in Limits
  /\ traces = [i \in Ids |-> Missing]
  /\ programs = [c \in Codes |-> Missing]
  /\ run = Idle
  /\ replay = Idle
  /\ vm = NoVm
  /\ alterations = 0
  /\ recorded = {}

-----------------------------------------------------------------------------
(* The VM *)

AtCall    == At(vm.code, vm.node).kind = "call"
Exhausted == AtCall /\ vm.gas >= vm.settings.gas_limit
Calls     == AtCall /\ ~Exhausted
Ended     == ~AtCall \/ Exhausted

\* The VM after a call that gave this response.
Observing(response) ==
  [vm EXCEPT !.node = Then(vm.code, vm.node, response),
             !.gas = @ + 1,
             !.memory = @ + Size(response)]

\* error_status: the message quotes the lines of the text that ran.
error_status(kind, text) == [kind |-> kind, message |-> text]

\* output_json and the match of execute and of replay: output, status, usage.
Result(text) ==
  LET at == At(vm.code, vm.node)
      fits == Size(at.value) <= vm.settings.max_output_bytes
      status == IF Exhausted THEN error_status("GasExhausted", text)
                ELSE IF at.kind = "error" THEN error_status(at.value, text)
                ELSE IF fits THEN [kind |-> "ok", message |-> "none"]
                ELSE error_status("OutputExceeded", text)
  IN  [output |-> IF status.kind = "ok" THEN at.value ELSE "none",
       status |-> status, gas_used |-> vm.gas, memory_used |-> vm.memory]

-----------------------------------------------------------------------------
(* Traces *)

\* digest that leaves the entries out.
digest_of_ends(trace) == [trace EXCEPT !.signature = NoSig, !.entries = << >>]

\* Trace::digest covers every field, with the signature cleared.
digest(trace) == [trace EXCEPT !.signature = NoSig]

\* Trace: header, entries and footer, as far as a replay looks at them.
Trace(result) ==
  [trace_id |-> run.id, program_hash |-> vm.code, vm_config |-> vm.settings,
   entries |-> run.entries, output |-> result.output, status |-> result.status,
   gas_used |-> result.gas_used, memory_used |-> result.memory_used, signature |-> NoSig]

sign(trace, k)   == [trace EXCEPT !.signature = [key |-> k, digest |-> digest(trace)]]
verify(trace, k) == trace.signature = [key |-> k, digest |-> digest(trace)]

\* A run starts, with an id of its own: its program is stored unless a text of it
\* already is.
StartRun(id, code, text) ==
  /\ run.pc = "idle" /\ replay.pc = "idle"
  /\ \A trace \in recorded : trace.trace_id # id
  /\ run' = [pc |-> "run", id |-> id, text |-> text, entries |-> << >>]
  /\ vm' = Started(code, limits)
  /\ programs' = IF programs[code] = Missing
                 THEN [programs EXCEPT ![code] = [code |-> code, text |-> text]]
                 ELSE programs
  /\ UNCHANGED <<key, limits, traces, replay, alterations, recorded>>

RecordCall(response) ==
  /\ run.pc = "run" /\ Calls
  /\ run' = [run EXCEPT !.entries =
               Append(@, [call |-> At(vm.code, vm.node).value, response |-> response])]
  /\ vm' = Observing(response)
  /\ UNCHANGED <<key, limits, store, replay, alterations, recorded>>

\* The run ends: header, entries and footer are signed and stored.
EndRun ==
  /\ run.pc = "run" /\ Ended
  /\ LET trace == sign(Trace(Result(run.text)), key)
     IN  /\ traces' = [traces EXCEPT ![run.id] = trace]
         /\ recorded' = recorded \cup {trace}
  /\ run' = Idle
  /\ vm' = NoVm
  /\ UNCHANGED <<key, limits, programs, replay, alterations>>

-----------------------------------------------------------------------------
(* What happens around a replay.  A file is changed before replay starts   *)
(* or before it reads a program: what it has read does not change any more. *)

\* A concurrent put of another text of the same bytecode wins the rename.
OtherTextWins(code, text) ==
  /\ replay.pc \in {"idle", "program"}
  /\ programs[code] # Missing
  /\ programs' = [programs EXCEPT ![code] = [code |-> code, text |-> text]]
  /\ UNCHANGED <<key, limits, traces, run, replay, vm, alterations, recorded>>

\* The operator edits the configuration between two commands.
Reconfigure(k, l) ==
  /\ run.pc = "idle" /\ replay.pc = "idle"
  /\ key' = k /\ limits' = l
  /\ UNCHANGED <<store, run, replay, vm, alterations, recorded>>

\* A trace file as somebody may leave it: lost, damaged, another trace, one
\* field changed, or signed with a key that is not the gateway's.
Altered(trace) ==
  {Missing, Unreadable} \cup recorded
    \cup {[trace EXCEPT !.output = "forged"], [trace EXCEPT !.gas_used = @ + 1]}
    \cup {[trace EXCEPT !.status = [kind |-> "ok", message |-> "none"]]}
    \cup {[trace EXCEPT !.entries[i].response = r] : i \in DOMAIN trace.entries, r \in Responses}
    \cup {[trace EXCEPT !.program_hash = c] : c \in Codes}
    \cup {[trace EXCEPT !.vm_config = l] : l \in Limits}
    \cup {sign([trace EXCEPT !.signature = NoSig], ForeignKey)}

AlterTrace(id) ==
  /\ replay.pc = "idle" /\ run.pc = "idle"
  /\ alterations < MaxAlterations
  /\ traces[id] \in recorded
  /\ \E file \in Altered(traces[id]) : traces' = [traces EXCEPT ![id] = file]
  /\ alterations' = alterations + 1
  /\ UNCHANGED <<key, limits, programs, run, replay, vm, recorded>>

AlterProgram(code) ==
  /\ replay.pc \in {"idle", "program"} /\ run.pc = "idle"
  /\ alterations < MaxAlterations
  /\ programs[code] # Missing
  /\ \E file \in {Missing, Unreadable} \cup [code : Codes, text : Texts] :
       programs' = [programs EXCEPT ![code] = file]
  /\ alterations' = alterations + 1
  /\ UNCHANGED <<key, limits, traces, run, replay, vm, recorded>>

-----------------------------------------------------------------------------
(* replay *)

Environment == <<key, limits, store, run, alterations, recorded>>

\* The report of an error, and of a comparison.
Report(mismatches) == [replay EXCEPT !.pc = "done", !.mismatches = mismatches]

\* The key is resolved and the store opened, or replay fails.
StartReplay(id) ==
  /\ run.pc = "idle" /\ replay.pc = "idle"
  /\ \/ replay' = [pc |-> "trace", asked |-> id, key |-> key, trace |-> NoTrace,
                   source |-> Missing, consumed |-> 0, diverged |-> FALSE, mismatches |-> {}]
     \/ replay' = [pc |-> "done", asked |-> id, key |-> key, trace |-> NoTrace,
                   source |-> Missing, consumed |-> 0, diverged |-> FALSE,
                   mismatches |-> {"error"}]
  /\ UNCHANGED <<Environment, vm>>

\* A key that key_path refuses, or that no file has, is an error.
get_trace(id)     == IF id \in Ids THEN traces[id] ELSE Missing
get_program(hash) == programs[hash]

ReadTrace ==
  /\ replay.pc = "trace"
  /\ LET file == get_trace(replay.asked)
     IN  IF file \notin {Missing, Unreadable} /\ verify(file, replay.key)
         THEN replay' = [replay EXCEPT !.pc = "program", !.trace = file]
         ELSE replay' = [Report({"error"}) EXCEPT !.trace = file]
  /\ UNCHANGED <<Environment, vm>>

\* header_settings that takes today's configuration.
current_settings(trace) == limits

\* The VM limits of a replay.
header_settings(trace) == trace.vm_config

\* ReadProgram that tries again while there is no file, for a put to end.
ReadProgramRetrying ==
  /\ replay.pc = "program"
  /\ LET file == get_program(replay.trace.program_hash)
     IN  /\ file # Missing
         /\ IF file = Unreadable
            THEN replay' = [Report({"error"}) EXCEPT !.source = file] /\ UNCHANGED vm
            ELSE /\ replay' = [replay EXCEPT !.pc = "run", !.source = file]
                 /\ vm' = Started(file.code, header_settings(replay.trace))
  /\ UNCHANGED Environment

\* get_program, parse, compile and verify; then the VM is set up.
ReadProgram ==
  /\ replay.pc = "program"
  /\ LET file == get_program(replay.trace.program_hash)
     IN  IF file \in {Missing, Unreadable}
         THEN replay' = [Report({"error"}) EXCEPT !.source = file] /\ UNCHANGED vm
         ELSE /\ replay' = [replay EXCEPT !.pc = "run", !.source = file]
              /\ vm' = Started(file.code, header_settings(replay.trace))
  /\ UNCHANGED Environment

\* A call of the program meets the strict tape: the next record's response, or a
\* divergence, which consumes nothing and fails the call.
TapeCall ==
  /\ replay.pc = "run" /\ Calls
  /\ LET next == replay.consumed + 1
         hit == /\ ~replay.diverged
                /\ next <= Len(replay.trace.entries)
                /\ replay.trace.entries[next].call = At(vm.code, vm.node).value
     IN  /\ vm' = Observing(IF hit THEN replay.trace.entries[next].response ELSE Failed)
         /\ replay' = IF hit THEN [replay EXCEPT !.consumed = next]
                      ELSE [replay EXCEPT !.diverged = TRUE]
  /\ UNCHANGED Environment

\* hash_mismatch that trusts the name of the file.
no_hash_mismatch(trace, code) == {}

hash_mismatch(trace, code) == IF code # trace.program_hash THEN {"program_hash"} ELSE {}

\* The run of a replay ends and is compared with the footer; of a status, its
\* kind (status_kind).
Compare ==
  /\ replay.pc = "run" /\ Ended
  /\ LET trace  == replay.trace
         result == Result(replay.source.text)
         Differs(what, differ) == IF differ THEN {what} ELSE {}
     IN  replay' = Report(hash_mismatch(trace, vm.code)
                    \cup Differs("divergence", replay.diverged)
                    \cup Differs("tape", replay.consumed < Len(trace.entries))
                    \cup Differs("output", result.output # trace.output)
                    \cup Differs("status", result.status.kind # trace.status.kind)
                    \cup Differs("gas_used", result.gas_used # trace.gas_used)
                    \cup Differs("memory_used", result.memory_used # trace.memory_used))
  /\ UNCHANGED <<Environment, vm>>

ReplayStep == ReadTrace \/ ReadProgram \/ TapeCall \/ Compare

Next ==
  \/ \E id \in Ids, code \in Codes, text \in Texts : StartRun(id, code, text)
  \/ \E response \in Responses \cup {Failed} : RecordCall(response)
  \/ EndRun
  \/ \E code \in Codes, text \in Texts : OtherTextWins(code, text)
  \/ \E k \in Keys, l \in Limits : Reconfigure(k, l)
  \/ \E id \in Ids : AlterTrace(id)
  \/ \E code \in Codes : AlterProgram(code)
  \/ \E id \in Asked : StartReplay(id)
  \/ ReplayStep

\* The replay is a sequential process that waits for nothing.
Spec == Init /\ [][Next]_vars /\ WF_vars(ReplayStep)

-----------------------------------------------------------------------------
(* Properties *)

\* replay_command exits 0.
Matched == replay.pc = "done" /\ replay.mismatches = {}

\* A replay that matches has replayed a trace exactly as this gateway signed it,
\* with the key it is configured with: no header, entry or footer was changed
\* since (verify before everything else).
MatchedIsGenuine ==
  Matched => replay.trace \in recorded /\ replay.trace.signature.key = replay.key

\* A replay that matches ran the bytecode that the run was recorded with, even
\* when the program's file holds another program that behaves alike on the
\* recorded responses, and it made all of the recorded calls.
MatchedRanTheRecordedProgram ==
  Matched => /\ vm.code = replay.trace.program_hash
             /\ replay.consumed = Len(replay.trace.entries)

\* No false alarm: a trace as it was signed, read with its key and with any text
\* of its program, matches, whatever the limits in the configuration are by now
\* and whichever text of the program the store kept.
RecordedRunsMatch ==
  /\ replay.pc = "done" /\ replay.trace \in recorded
  /\ replay.trace.signature.key = replay.key
  /\ replay.source \in [code : {replay.trace.program_hash}, text : Texts]
  => replay.mismatches = {}

\* A replay comes to an end for every trace that verifies and every program that
\* compiles, a program that retries its failing calls for ever included.
ReplayEnds == (replay.pc # "idle") ~> (replay.pc = "done")
=============================================================================
