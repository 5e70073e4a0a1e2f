---------------------------- MODULE ReplayProofs ----------------------------
(***************************************************************************)
(* What a `replay` that matches says, and that a genuine trace matches,    *)
(* for every set of programs, responses, keys and limits and any number of *)
(* alterations.                                                            *)
(*                                                                         *)
(* The core is a simulation: the VM of a replay goes through the states    *)
(* that the VM of the run went through.  A run leaves in its entries what  *)
(* it needs for that, so a path of VM states follows from a trace          *)
(* (Follows), and the VM of a replay is always on it.                      *)
(***************************************************************************)
EXTENDS Replay, SequenceTheorems, TLAPS

-----------------------------------------------------------------------------
(* The VM as a value *)

Calling(v)  == At(v.code, v.node).kind = "call"
OutOfGas(v) == Calling(v) /\ v.gas >= v.settings.gas_limit
Halted(v)   == ~Calling(v) \/ OutOfGas(v)

After(v, response) ==
  [v EXCEPT !.node = Then(v.code, v.node, response),
            !.gas = @ + 1,
            !.memory = @ + Size(response)]

IsVm(v) ==
  v = [code |-> v.code, node |-> v.node, gas |-> v.gas, memory |-> v.memory,
       settings |-> v.settings]

IsSequence(s) == \E S : s \in Seq(S)

\* The states a VM goes through when it is given the responses of these entries
\* and makes their calls.
Follows(path, code, settings, entries) ==
  /\ path[1] = Started(code, settings)
  /\ \A i \in 1 .. Len(entries) :
       /\ ~Halted(path[i])
       /\ entries[i].call = At(path[i].code, path[i].node).value
       /\ path[i + 1] = After(path[i], entries[i].response)

\* What the footer of a run that ended in this state says.
Fits(v) == Size(At(v.code, v.node).value) <= v.settings.max_output_bytes

KindOf(v) ==
  IF OutOfGas(v) THEN "GasExhausted"
  ELSE IF At(v.code, v.node).kind = "error" THEN At(v.code, v.node).value
  ELSE IF Fits(v) THEN "ok" ELSE "OutputExceeded"

OutputOf(v) == IF KindOf(v) = "ok" THEN At(v.code, v.node).value ELSE "none"

-----------------------------------------------------------------------------
(* The inductive invariant *)

IsTrace(t) ==
  t = [trace_id |-> t.trace_id, program_hash |-> t.program_hash, vm_config |-> t.vm_config,
       entries |-> t.entries, output |-> t.output, status |-> t.status,
       gas_used |-> t.gas_used, memory_used |-> t.memory_used, signature |-> t.signature]

\* The entries and the footer of a trace are those of one run of its program.
Witnessed(t) ==
  \E path : /\ Follows(path, t.program_hash, t.vm_config, t.entries)
            /\ LET last == path[Len(t.entries) + 1]
               IN  /\ Halted(last)
                   /\ t.output = OutputOf(last)
                   /\ t.status.kind = KindOf(last)
                   /\ t.gas_used = last.gas
                   /\ t.memory_used = last.memory

RecordedInv ==
  \A t \in recorded : /\ IsTrace(t)
                      /\ t.program_hash \in Codes
                      /\ IsSequence(t.entries)
                      /\ verify(t, t.signature.key)
                      /\ Witnessed(t)

\* Whatever was done to a file, it does not verify with a key of the gateway
\* unless it is a trace the gateway signed.
FilesInv ==
  /\ key \in Keys
  /\ traces = [i \in Ids |-> traces[i]]
  /\ \A i \in Ids, k \in Keys :
       traces[i] \notin {Missing, Unreadable} /\ verify(traces[i], k) => traces[i] \in recorded

\* The run that is recorded: its entries lead to the state its VM is in.
RunInv ==
  \/ run = Idle
  \/ /\ run = [pc |-> "run", id |-> run.id, text |-> run.text, entries |-> run.entries]
     /\ run.id \in Ids
     /\ replay = Idle
     /\ IsVm(vm)
     /\ vm.code \in Codes
     /\ IsSequence(run.entries)
     /\ \E path : /\ Follows(path, vm.code, vm.settings, run.entries)
                  /\ path[Len(run.entries) + 1] = vm

IsReplay ==
  /\ replay = [pc |-> replay.pc, asked |-> replay.asked, key |-> replay.key,
               trace |-> replay.trace, source |-> replay.source,
               consumed |-> replay.consumed, diverged |-> replay.diverged,
               mismatches |-> replay.mismatches]
  /\ replay.pc \in {"trace", "program", "run", "done"}
  /\ replay.key \in Keys

\* A trace that the replay goes on with is one the gateway signed.
Genuine == replay.trace \in recorded /\ replay.trace.signature.key = replay.key

\* The VM of a replay of the recorded program is on the path of the run.
Retraces ==
  /\ IsVm(vm)
  /\ vm.code = replay.source.code
  /\ replay.consumed \in 0 .. Len(replay.trace.entries)
  /\ vm.code = replay.trace.program_hash =>
       /\ replay.diverged = FALSE
       /\ \A path :
            Follows(path, vm.code, replay.trace.vm_config, replay.trace.entries)
              => path[replay.consumed + 1] = vm

\* What a finished replay must say.
Truthful == MatchedIsGenuine /\ MatchedRanTheRecordedProgram /\ RecordedRunsMatch

ReadInv ==
  \/ replay = Idle
  \/ /\ IsReplay
     /\ run = Idle
     /\ replay.pc \in {"trace", "program"} =>
          /\ replay.source = Missing
          /\ replay.consumed = 0
          /\ replay.diverged = FALSE
     /\ replay.pc = "program" => Genuine
     /\ replay.pc = "run" => Genuine /\ Retraces
     /\ replay.pc = "done" => Truthful

ReplayInv == RecordedInv /\ FilesInv /\ RunInv /\ ReadInv

-----------------------------------------------------------------------------
(* Lemmas about the operators *)

\* The operators of the model are those above, of the VM's present state.
LEMMA OfTheVm ==
  /\ Ended <=> Halted(vm)
  /\ Calls <=> ~Halted(vm)
  /\ \A response : Observing(response) = After(vm, response)
BY DEF Ended, Calls, AtCall, Exhausted, Halted, OutOfGas, Calling, Observing, After

\* The footer does not depend on the text that ran, its error message apart.
LEMMA ResultOfTheVm ==
  ASSUME NEW text
  PROVE  /\ Result(text).output = OutputOf(vm)
         /\ Result(text).status.kind = KindOf(vm)
         /\ Result(text).gas_used = vm.gas
         /\ Result(text).memory_used = vm.memory
BY DEF Result, OutputOf, KindOf, Fits, OutOfGas, Calling, Exhausted, AtCall, error_status

LEMMA StartedIsVm ==
  ASSUME NEW code, NEW settings
  PROVE  /\ IsVm(Started(code, settings))
         /\ Started(code, settings).code = code
         /\ Started(code, settings).settings = settings
BY DEF IsVm, Started

LEMMA AfterIsVm ==
  ASSUME NEW v, IsVm(v), NEW response
  PROVE  /\ IsVm(After(v, response))
         /\ After(v, response).code = v.code
         /\ After(v, response).settings = v.settings
<1> DEFINE r == [code |-> v.code, node |-> v.node, gas |-> v.gas, memory |-> v.memory,
                 settings |-> v.settings]
           w == [code |-> v.code, node |-> Then(v.code, v.node, response), gas |-> v.gas + 1,
                 memory |-> v.memory + Size(response), settings |-> v.settings]
<1>1. v = r
  BY DEF IsVm
<1>2. After(v, response) = [r EXCEPT !.node = Then(v.code, v.node, response),
                                     !.gas = v.gas + 1,
                                     !.memory = v.memory + Size(response)]
  BY <1>1 DEF After
<1>3. After(v, response) = w
  BY <1>2
<1> QED
  BY <1>3 DEF IsVm

\* Two traces that one signature verifies are one trace.
LEMMA OneTracePerSignature ==
  ASSUME NEW t, NEW f, IsTrace(t), IsTrace(f), f.signature = t.signature,
         NEW j, NEW k, verify(t, j), verify(f, k)
  PROVE  f = t
<1>1. digest(t) = digest(f)
  <2>1. t.signature = [key |-> j, digest |-> digest(t)]
    BY DEF verify
  <2>2. f.signature = [key |-> k, digest |-> digest(f)]
    BY DEF verify
  <2>3. t.signature.digest = digest(t) /\ f.signature.digest = digest(f)
    BY <2>1, <2>2
  <2> QED
    BY <2>3
<1> DEFINE Of(x) == [trace_id |-> x.trace_id, program_hash |-> x.program_hash,
                     vm_config |-> x.vm_config, entries |-> x.entries, output |-> x.output,
                     status |-> x.status, gas_used |-> x.gas_used,
                     memory_used |-> x.memory_used, signature |-> NoSig]
<1>2. ASSUME NEW x, IsTrace(x) PROVE digest(x) = Of(x)
  BY <1>2 DEF IsTrace, digest
<1>3. Of(t) = Of(f)
  BY <1>1, <1>2
<1>4. /\ t.trace_id = f.trace_id /\ t.program_hash = f.program_hash
      /\ t.vm_config = f.vm_config /\ t.entries = f.entries /\ t.output = f.output
      /\ t.status = f.status /\ t.gas_used = f.gas_used /\ t.memory_used = f.memory_used
  BY <1>3
<1> QED
  BY <1>4 DEF IsTrace

\* Nothing that is done to a trace verifies with a key of the gateway, unless it
\* leaves a trace the gateway signed.
LEMMA AlteredTraces ==
  ASSUME RecordedInv, NEW t \in recorded, NEW f \in Altered(t),
         f \notin {Missing, Unreadable}, NEW k \in Keys, verify(f, k)
  PROVE  f \in recorded
<1>1. IsTrace(t) /\ verify(t, t.signature.key)
  BY DEF RecordedInv
<1>2. CASE IsTrace(f) /\ f.signature = t.signature
  BY <1>1, <1>2, OneTracePerSignature
<1>3. CASE f \in recorded
  BY <1>3
<1>4. CASE f = sign([t EXCEPT !.signature = NoSig], ForeignKey)
  <2>1. f.signature.key = ForeignKey
    BY <1>1, <1>4 DEF sign, IsTrace
  <2> QED
    BY <2>1, ForeignKeyIsForeign DEF verify
<1>5. CASE \/ f = [t EXCEPT !.output = "forged"]
           \/ f = [t EXCEPT !.gas_used = @ + 1]
           \/ f = [t EXCEPT !.status = [kind |-> "ok", message |-> "none"]]
           \/ \E c \in Codes : f = [t EXCEPT !.program_hash = c]
           \/ \E l \in Limits : f = [t EXCEPT !.vm_config = l]
  <2>1. IsTrace(f) /\ f.signature = t.signature
    BY <1>1, <1>5 DEF IsTrace
  <2> QED
    BY <2>1, <1>2
<1>6. CASE \E i \in DOMAIN t.entries, r \in Responses : f = [t EXCEPT !.entries[i].response = r]
  <2>1. PICK i, r : f = [t EXCEPT !.entries[i].response = r]
    BY <1>6
  <2>2. \E e : f = [t EXCEPT !.entries = e]
    BY <2>1
  <2>3. IsTrace(f) /\ f.signature = t.signature
    BY <1>1, <2>2 DEF IsTrace
  <2> QED
    BY <2>3, <1>2
<1> QED
  BY <1>3, <1>4, <1>5, <1>6 DEF Altered

\* A call that is recorded makes the path one state longer.
LEMMA LongerPath ==
  ASSUME NEW entries, IsSequence(entries), NEW path, NEW code, NEW settings,
         Follows(path, code, settings, entries),
         ~Halted(path[Len(entries) + 1]),
         NEW e, e.call = At(path[Len(entries) + 1].code, path[Len(entries) + 1].node).value
  PROVE  /\ IsSequence(Append(entries, e))
         /\ \E p : /\ Follows(p, code, settings, Append(entries, e))
                   /\ p[Len(Append(entries, e)) + 1] = After(path[Len(entries) + 1], e.response)
<1> DEFINE n == Len(entries)
           longer == Append(entries, e)
           p == [i \in 1 .. n + 2 |-> IF i = n + 2 THEN After(path[n + 1], e.response) ELSE path[i]]
<1>1. PICK S : entries \in Seq(S)
  BY DEF IsSequence
<1>2. n \in Nat /\ entries \in Seq(S \cup {e})
  BY <1>1
<1>3. /\ longer \in Seq(S \cup {e})
      /\ Len(longer) = n + 1
      /\ longer[n + 1] = e
      /\ \A i \in 1 .. n : longer[i] = entries[i]
  BY <1>2
<1>4. p[1] = Started(code, settings) /\ p[n + 2] = After(path[n + 1], e.response)
  BY <1>2 DEF Follows
<1>5. ASSUME NEW i \in 1 .. n + 1
      PROVE  /\ ~Halted(p[i])
             /\ longer[i].call = At(p[i].code, p[i].node).value
             /\ p[i + 1] = After(p[i], longer[i].response)
  <2>1. p[i] = path[i] /\ i \in Nat
    BY <1>2
  <2>2. CASE i = n + 1
    BY <1>2, <1>3, <1>4, <2>1, <2>2
  <2>3. CASE i \in 1 .. n
    <3>1. p[i + 1] = path[i + 1]
      BY <1>2, <2>3
    <3> QED
      BY <1>3, <2>1, <2>3, <3>1 DEF Follows
  <2> QED
    BY <1>2, <2>2, <2>3
<1>6. Follows(p, code, settings, longer)
  BY <1>3, <1>4, <1>5 DEF Follows
<1>7. p[Len(longer) + 1] = After(path[n + 1], e.response)
  BY <1>2, <1>3, <1>4
<1> QED
  BY <1>3, <1>6, <1>7 DEF IsSequence

-----------------------------------------------------------------------------
(* The invariant holds at first, and every action keeps it. *)

LEMMA AtFirst == Init => ReplayInv
BY DEF Init, ReplayInv, RecordedInv, FilesInv, RunInv, ReadInv

\* Where nothing runs, and where something does.
LEMMA Phases ==
  ASSUME ReplayInv
  PROVE  /\ run.pc = "idle" => run = Idle
         /\ replay.pc = "idle" => replay = Idle
         /\ run.pc = "run" => replay = Idle /\ run # Idle
         /\ replay.pc \in {"trace", "program", "run", "done"} => run = Idle /\ IsReplay
BY DEF ReplayInv, RunInv, ReadInv, IsReplay, Idle

\* Files and configuration are not what RunInv and ReadInv are about.
LEMMA FramedRun ==
  ASSUME RunInv, UNCHANGED <<run, replay, vm>>
  PROVE  RunInv'
BY DEF RunInv

LEMMA FramedRead ==
  ASSUME ReadInv, UNCHANGED <<run, replay, vm, recorded>>
  PROVE  ReadInv'
BY DEF ReadInv, IsReplay, Genuine, Retraces, Truthful, MatchedIsGenuine,
       MatchedRanTheRecordedProgram, RecordedRunsMatch, Matched

LEMMA StartRunKeeps ==
  ASSUME ReplayInv, NEW id \in Ids, NEW code \in Codes, NEW text \in Texts,
         StartRun(id, code, text)
  PROVE  ReplayInv'
<1>1. /\ replay' = Idle
      /\ run' = [pc |-> "run", id |-> id, text |-> text, entries |-> << >>]
      /\ vm' = Started(code, limits)
      /\ UNCHANGED <<key, traces, recorded>>
  BY Phases DEF StartRun
<1>2. RecordedInv' /\ FilesInv' /\ ReadInv'
  BY <1>1 DEF ReplayInv, RecordedInv, FilesInv, ReadInv
<1>3. RunInv'
  <2> DEFINE path == [i \in {1} |-> Started(code, limits)]
  <2>1. IsVm(vm') /\ vm'.code = code /\ vm'.settings = limits
    BY <1>1, StartedIsVm
  <2>2. run'.entries = << >> /\ Len(<< >>) = 0 /\ run'.id = id /\ run'.text = text
    BY <1>1
  <2>3. IsSequence(run'.entries)
    BY <2>2 DEF IsSequence
  <2>4. Follows(path, code, limits, run'.entries) /\ path[Len(run'.entries) + 1] = vm'
    BY <1>1, <2>2 DEF Follows
  <2> QED
    BY <1>1, <2>1, <2>2, <2>3, <2>4 DEF RunInv
<1> QED
  BY <1>2, <1>3 DEF ReplayInv

LEMMA RecordCallKeeps ==
  ASSUME ReplayInv, NEW response, RecordCall(response)
  PROVE  ReplayInv'
<1> DEFINE e == [call |-> At(vm.code, vm.node).value, response |-> response]
<1>1. /\ run.pc = "run" /\ ~Halted(vm)
      /\ run' = [run EXCEPT !.entries = Append(@, e)]
      /\ vm' = After(vm, response)
      /\ UNCHANGED <<key, traces, replay, recorded>>
  BY OfTheVm DEF RecordCall, store
<1>2. /\ run = [pc |-> "run", id |-> run.id, text |-> run.text, entries |-> run.entries]
      /\ run.id \in Ids /\ replay = Idle /\ IsVm(vm) /\ vm.code \in Codes
      /\ IsSequence(run.entries)
      /\ \E path : /\ Follows(path, vm.code, vm.settings, run.entries)
                   /\ path[Len(run.entries) + 1] = vm
  BY <1>1, Phases DEF ReplayInv, RunInv
<1>3. run' = [pc |-> "run", id |-> run.id, text |-> run.text, entries |-> Append(run.entries, e)]
  BY <1>1, <1>2
<1>4. IsVm(vm') /\ vm'.code = vm.code /\ vm'.settings = vm.settings
  BY <1>1, <1>2, AfterIsVm
<1>5. RecordedInv' /\ FilesInv' /\ ReadInv'
  BY <1>1, <1>2 DEF ReplayInv, RecordedInv, FilesInv, ReadInv
<1>6. RunInv'
  <2>1. PICK path : /\ Follows(path, vm.code, vm.settings, run.entries)
                    /\ path[Len(run.entries) + 1] = vm
    BY <1>2
  <2>2. e.call = At(vm.code, vm.node).value /\ e.response = response
    OBVIOUS
  <2> HIDE DEF e
  <2>3. /\ IsSequence(Append(run.entries, e))
        /\ \E p : /\ Follows(p, vm.code, vm.settings, Append(run.entries, e))
                  /\ p[Len(Append(run.entries, e)) + 1] = After(vm, e.response)
    BY <1>1, <1>2, <2>1, <2>2, LongerPath
  <2>4. run'.entries = Append(run.entries, e) /\ run'.id = run.id /\ run'.text = run.text
    BY <1>3
  <2> QED
    BY <1>1, <1>2, <1>3, <1>4, <2>2, <2>3, <2>4 DEF RunInv
<1> QED
  BY <1>5, <1>6 DEF ReplayInv

LEMMA EndRunKeeps ==
  ASSUME ReplayInv, EndRun
  PROVE  ReplayInv'
<1> DEFINE result == Result(run.text)
           bare == Trace(result)
           trace == sign(bare, key)
<1>1. /\ run.pc = "run" /\ Halted(vm)
      /\ traces' = [traces EXCEPT ![run.id] = trace]
      /\ recorded' = recorded \cup {trace}
      /\ run' = Idle
      /\ UNCHANGED <<key, replay>>
  BY OfTheVm DEF EndRun
<1>2. /\ run.id \in Ids /\ replay = Idle /\ vm.code \in Codes /\ IsSequence(run.entries)
      /\ \E path : /\ Follows(path, vm.code, vm.settings, run.entries)
                   /\ path[Len(run.entries) + 1] = vm
  BY <1>1, Phases DEF ReplayInv, RunInv
<1>3. /\ result.output = OutputOf(vm) /\ result.status.kind = KindOf(vm)
      /\ result.gas_used = vm.gas /\ result.memory_used = vm.memory
  BY ResultOfTheVm
<1> HIDE DEF result
<1>4. /\ trace = [bare EXCEPT !.signature = [key |-> key, digest |-> digest(bare)]]
      /\ IsTrace(bare) /\ bare.signature = NoSig
      /\ bare.program_hash = vm.code /\ bare.vm_config = vm.settings
      /\ bare.entries = run.entries /\ bare.output = result.output
      /\ bare.status = result.status /\ bare.gas_used = result.gas_used
      /\ bare.memory_used = result.memory_used
  BY DEF sign, IsTrace, Trace
<1> HIDE DEF bare, trace
<1>5. /\ trace = [trace_id |-> bare.trace_id, program_hash |-> vm.code,
                  vm_config |-> vm.settings, entries |-> run.entries,
                  output |-> result.output, status |-> result.status,
                  gas_used |-> result.gas_used, memory_used |-> result.memory_used,
                  signature |-> [key |-> key, digest |-> digest(bare)]]
  BY <1>4 DEF IsTrace
<1>6. IsTrace(trace) /\ trace.program_hash \in Codes /\ IsSequence(trace.entries)
  BY <1>2, <1>5 DEF IsTrace
<1>7. verify(trace, trace.signature.key)
  <2>1. digest(trace) = digest(bare)
    BY <1>4, <1>5 DEF digest, IsTrace
  <2> QED
    BY <1>5, <2>1 DEF verify
<1>8. Witnessed(trace)
  BY <1>1, <1>2, <1>3, <1>5 DEF Witnessed
<1>9. RecordedInv'
  BY <1>1, <1>6, <1>7, <1>8 DEF ReplayInv, RecordedInv
<1>10. FilesInv'
  <2>1. /\ key' \in Keys
        /\ \A i \in Ids : traces'[i] = IF i = run.id THEN trace ELSE traces[i]
        /\ traces' = [i \in Ids |-> traces'[i]]
    BY <1>1, <1>2 DEF ReplayInv, FilesInv
  <2> QED
    BY <1>1, <2>1 DEF ReplayInv, FilesInv
<1>11. RunInv' /\ ReadInv'
  BY <1>1, <1>2 DEF RunInv, ReadInv
<1> QED
  BY <1>9, <1>10, <1>11 DEF ReplayInv

LEMMA AlterTraceKeeps ==
  ASSUME ReplayInv, NEW id \in Ids, AlterTrace(id)
  PROVE  ReplayInv'
<1>1. PICK file \in Altered(traces[id]) : traces' = [traces EXCEPT ![id] = file]
  BY DEF AlterTrace
<1>2. traces[id] \in recorded /\ UNCHANGED <<key, run, replay, vm, recorded>>
  BY DEF AlterTrace
<1>3. RecordedInv' /\ RunInv' /\ ReadInv'
  BY <1>2, FramedRun, FramedRead DEF ReplayInv, RecordedInv
<1>4. FilesInv'
  <2>1. /\ \A i \in Ids : traces'[i] = IF i = id THEN file ELSE traces[i]
        /\ traces' = [i \in Ids |-> traces'[i]]
    BY <1>1 DEF ReplayInv, FilesInv
  <2>2. ASSUME NEW k \in Keys, file \notin {Missing, Unreadable}, verify(file, k)
        PROVE  file \in recorded
    BY <1>1, <1>2, <2>2, AlteredTraces DEF ReplayInv
  <2> QED
    BY <1>2, <2>1, <2>2 DEF ReplayInv, FilesInv
<1> QED
  BY <1>3, <1>4 DEF ReplayInv

\* The program files, the limits and the counter of alterations are in no part of
\* the invariant, and any key of the gateway does.
LEMMA AroundKeeps ==
  ASSUME ReplayInv, key' \in Keys, UNCHANGED <<traces, run, replay, vm, recorded>>
  PROVE  ReplayInv'
BY FramedRun, FramedRead DEF ReplayInv, RecordedInv, FilesInv

\* A replay that could not be made: it read no program.
ErrorReport == replay.mismatches = {"error"} /\ replay.source \in {Missing, Unreadable}

LEMMA ErrorsAreTruthful == RecordedInv /\ ErrorReport => Truthful
<1> SUFFICES ASSUME RecordedInv, ErrorReport PROVE Truthful
  OBVIOUS
<1>1. MatchedIsGenuine /\ MatchedRanTheRecordedProgram
  BY DEF ErrorReport, MatchedIsGenuine, MatchedRanTheRecordedProgram, Matched
<1>2. ASSUME replay.trace \in recorded,
             replay.source \in [code : {replay.trace.program_hash}, text : Texts]
      PROVE  FALSE
  <2>1. replay.source \in [code : Codes, text : Texts]
    BY <1>2 DEF RecordedInv
  <2> QED
    BY <2>1, NoFileIsNoProgram DEF ErrorReport
<1> QED
  BY <1>1, <1>2 DEF Truthful, RecordedRunsMatch

LEMMA StartReplayKeeps ==
  ASSUME ReplayInv, NEW id, StartReplay(id)
  PROVE  ReplayInv'
<1>1. run = Idle /\ UNCHANGED <<key, traces, run, recorded>>
  BY Phases DEF StartReplay, Environment, store
<1>2. RecordedInv' /\ FilesInv' /\ RunInv'
  BY <1>1 DEF ReplayInv, RecordedInv, FilesInv, RunInv
<1>3. ReadInv'
  <2>1. CASE replay' = [pc |-> "trace", asked |-> id, key |-> key, trace |-> NoTrace,
                        source |-> Missing, consumed |-> 0, diverged |-> FALSE,
                        mismatches |-> {}]
    BY <1>1, <2>1 DEF ReplayInv, FilesInv, ReadInv, IsReplay
  <2>2. CASE replay' = [pc |-> "done", asked |-> id, key |-> key, trace |-> NoTrace,
                        source |-> Missing, consumed |-> 0, diverged |-> FALSE,
                        mismatches |-> {"error"}]
    <3>1. ErrorReport'
      BY <2>2 DEF ErrorReport
    <3>2. Truthful'
      BY <1>2, <3>1, ErrorsAreTruthful, PTL
    <3> QED
      BY <1>1, <2>2, <3>2 DEF ReplayInv, FilesInv, ReadInv, IsReplay
  <2> QED
    BY <2>1, <2>2 DEF StartReplay
<1> QED
  BY <1>2, <1>3 DEF ReplayInv

LEMMA ReadTraceKeeps ==
  ASSUME ReplayInv, ReadTrace
  PROVE  ReplayInv'
<1> DEFINE file == get_trace(replay.asked)
<1>1. /\ replay.pc = "trace" /\ run = Idle /\ IsReplay
      /\ replay.source = Missing /\ replay.consumed = 0 /\ replay.diverged = FALSE
      /\ UNCHANGED <<key, traces, run, recorded>>
  BY Phases DEF ReplayInv, ReadInv, ReadTrace, Environment, store, Idle
<1>2. RecordedInv' /\ FilesInv' /\ RunInv'
  BY <1>1 DEF ReplayInv, RecordedInv, FilesInv, RunInv
<1>3. ReadInv'
  <2>1. CASE file \notin {Missing, Unreadable} /\ verify(file, replay.key)
    <3>1. replay' = [replay EXCEPT !.pc = "program", !.trace = file]
      BY <2>1 DEF ReadTrace
    <3>2. file \in recorded
      BY <1>1, <2>1 DEF ReplayInv, FilesInv, IsReplay, get_trace
    <3>3. file.signature.key = replay.key
      BY <2>1 DEF verify
    <3> HIDE DEF file
    <3>4. /\ IsReplay' /\ replay'.pc = "program" /\ replay'.trace = file
          /\ replay'.key = replay.key /\ replay'.source = Missing
          /\ replay'.consumed = 0 /\ replay'.diverged = FALSE
      BY <1>1, <3>1 DEF IsReplay
    <3> QED
      BY <1>1, <3>2, <3>3, <3>4 DEF ReadInv, Genuine
  <2>2. CASE ~(file \notin {Missing, Unreadable} /\ verify(file, replay.key))
    <3>1. replay' = [Report({"error"}) EXCEPT !.trace = file]
      BY <2>2 DEF ReadTrace
    <3> HIDE DEF file
    <3>2. /\ IsReplay' /\ replay'.pc = "done" /\ replay'.source = Missing
          /\ replay'.mismatches = {"error"}
      BY <1>1, <3>1 DEF IsReplay, Report
    <3>3. ErrorReport'
      BY <3>2 DEF ErrorReport
    <3>4. Truthful'
      BY <1>2, <3>3, ErrorsAreTruthful, PTL
    <3> QED
      BY <1>1, <3>2, <3>4 DEF ReadInv
  <2> QED
    BY <2>1, <2>2
<1> QED
  BY <1>2, <1>3 DEF ReplayInv

LEMMA ReadProgramKeeps ==
  ASSUME ReplayInv, ReadProgram
  PROVE  ReplayInv'
<1> DEFINE file == get_program(replay.trace.program_hash)
<1>1. /\ replay.pc = "program" /\ run = Idle /\ IsReplay /\ Genuine
      /\ replay.consumed = 0 /\ replay.diverged = FALSE
      /\ UNCHANGED <<key, traces, run, recorded>>
  BY Phases DEF ReplayInv, ReadInv, ReadProgram, Environment, store, Idle
<1>2. RecordedInv' /\ FilesInv' /\ RunInv'
  BY <1>1 DEF ReplayInv, RecordedInv, FilesInv, RunInv
<1>3. ReadInv'
  <2>1. CASE file \in {Missing, Unreadable}
    <3>1. replay' = [Report({"error"}) EXCEPT !.source = file]
      BY <2>1 DEF ReadProgram
    <3> HIDE DEF file
    <3>2. /\ IsReplay' /\ replay'.pc = "done" /\ replay'.source = file
          /\ replay'.mismatches = {"error"}
      BY <1>1, <3>1 DEF IsReplay, Report
    <3>3. ErrorReport'
      BY <2>1, <3>2 DEF ErrorReport
    <3>4. Truthful'
      BY <1>2, <3>3, ErrorsAreTruthful, PTL
    <3> QED
      BY <1>1, <3>2, <3>4 DEF ReadInv
  <2>2. CASE file \notin {Missing, Unreadable}
    <3>1. /\ replay' = [replay EXCEPT !.pc = "run", !.source = file]
          /\ vm' = Started(file.code, replay.trace.vm_config)
      BY <2>2 DEF ReadProgram, header_settings
    <3> HIDE DEF file
    <3>2. /\ IsReplay' /\ replay'.pc = "run" /\ replay'.source = file
          /\ replay'.trace = replay.trace /\ replay'.key = replay.key
          /\ replay'.consumed = 0 /\ replay'.diverged = FALSE
      BY <1>1, <3>1 DEF IsReplay
    <3>3. IsVm(vm') /\ vm'.code = file.code
      BY <3>1, StartedIsVm
    <3>4. Len(replay.trace.entries) \in Nat
      <4>1. IsSequence(replay.trace.entries)
        BY <1>1 DEF ReplayInv, RecordedInv, Genuine
      <4> QED
        BY <4>1 DEF IsSequence
    <3>5. Retraces'
      BY <3>1, <3>2, <3>3, <3>4 DEF Retraces, Follows
    <3>6. Genuine'
      BY <1>1, <3>2 DEF Genuine
    <3> QED
      BY <1>1, <3>2, <3>5, <3>6 DEF ReadInv
  <2> QED
    BY <2>1, <2>2
<1> QED
  BY <1>2, <1>3 DEF ReplayInv

LEMMA TapeCallKeeps ==
  ASSUME ReplayInv, TapeCall
  PROVE  ReplayInv'
<1> DEFINE entries == replay.trace.entries
           next == replay.consumed + 1
           hit == /\ ~replay.diverged
                  /\ next <= Len(entries)
                  /\ entries[next].call = At(vm.code, vm.node).value
<1>1. /\ replay.pc = "run" /\ run = Idle /\ IsReplay /\ Genuine /\ Retraces
      /\ ~Halted(vm)
      /\ UNCHANGED <<key, traces, run, recorded>>
  BY Phases, OfTheVm DEF ReplayInv, ReadInv, TapeCall, Environment, store, Idle
<1>2. /\ vm' = After(vm, IF hit THEN entries[next].response ELSE Failed)
      /\ replay' = IF hit THEN [replay EXCEPT !.consumed = next]
                   ELSE [replay EXCEPT !.diverged = TRUE]
  BY OfTheVm DEF TapeCall
<1>3. RecordedInv' /\ FilesInv' /\ RunInv'
  BY <1>1 DEF ReplayInv, RecordedInv, FilesInv, RunInv
<1>4. Len(entries) \in Nat /\ replay.consumed \in 0 .. Len(entries)
  <2>1. IsSequence(entries)
    BY <1>1 DEF ReplayInv, RecordedInv, Genuine
  <2> QED
    BY <1>1, <2>1 DEF IsSequence, Retraces
<1>5. IsVm(vm') /\ vm'.code = vm.code
  BY <1>1, <1>2, AfterIsVm DEF Retraces
<1>6. /\ IsReplay' /\ replay'.pc = "run" /\ replay'.source = replay.source
      /\ replay'.trace = replay.trace /\ replay'.key = replay.key
      /\ replay'.consumed = IF hit THEN next ELSE replay.consumed
      /\ replay'.diverged = IF hit THEN replay.diverged ELSE TRUE
  <2>1. CASE hit
    <3>1. replay' = [replay EXCEPT !.consumed = next]
      BY <1>2, <2>1
    <3> HIDE DEF hit, next
    <3> QED
      BY <1>1, <2>1, <3>1 DEF IsReplay
  <2>2. CASE ~hit
    <3>1. replay' = [replay EXCEPT !.diverged = TRUE]
      BY <1>2, <2>2
    <3> HIDE DEF hit, next
    <3> QED
      BY <1>1, <2>2, <3>1 DEF IsReplay
  <2> QED
    BY <2>1, <2>2
<1>7. ASSUME vm.code = replay.trace.program_hash
      PROVE  /\ hit
             /\ \A path : Follows(path, vm.code, replay.trace.vm_config, entries)
                            => path[next + 1] = vm'
  <2>1. PICK path : /\ Follows(path, replay.trace.program_hash, replay.trace.vm_config, entries)
                    /\ Halted(path[Len(entries) + 1])
    BY <1>1 DEF ReplayInv, RecordedInv, Genuine, Witnessed
  <2>2. path[next] = vm /\ ~replay.diverged
    BY <1>1, <1>7, <2>1 DEF Retraces
  <2>3. next \in 1 .. Len(entries)
    BY <1>1, <1>4, <2>1, <2>2
  <2>4. hit
    BY <2>1, <2>2, <2>3, SMTT(30) DEF Follows
  <2>5. ASSUME NEW p, Follows(p, vm.code, replay.trace.vm_config, entries)
        PROVE  p[next + 1] = vm'
    <3>1. p[next] = vm
      BY <1>1, <1>7, <2>5 DEF Retraces
    <3> QED
      BY <1>2, <2>3, <2>4, <2>5, <3>1 DEF Follows
  <2> QED
    BY <2>4, <2>5
<1>8. Retraces'
  <2>1. replay'.consumed \in 0 .. Len(replay'.trace.entries)
    BY <1>4, <1>6
  <2>2. ASSUME vm'.code = replay'.trace.program_hash
        PROVE  /\ replay'.diverged = FALSE
               /\ \A path : Follows(path, vm'.code, replay'.trace.vm_config, replay'.trace.entries)
                              => path[replay'.consumed + 1] = vm'
    <3>1. vm.code = replay.trace.program_hash /\ replay.diverged = FALSE
      BY <1>1, <1>5, <1>6, <2>2 DEF Retraces
    <3> HIDE DEF hit
    <3> QED
      BY <1>5, <1>6, <1>7, <3>1
  <2>3. vm'.code = replay'.source.code
    BY <1>1, <1>5, <1>6 DEF Retraces
  <2> QED
    BY <1>5, <2>1, <2>2, <2>3 DEF Retraces
<1>9. ReadInv'
  BY <1>1, <1>6, <1>8 DEF ReadInv, Genuine
<1> QED
  BY <1>3, <1>9 DEF ReplayInv

LEMMA CompareKeeps ==
  ASSUME ReplayInv, Compare
  PROVE  ReplayInv'
<1> DEFINE trace == replay.trace
           result == Result(replay.source.text)
           Differs(what, differ) == IF differ THEN {what} ELSE {}
           found == hash_mismatch(trace, vm.code)
                    \cup Differs("divergence", replay.diverged)
                    \cup Differs("tape", replay.consumed < Len(trace.entries))
                    \cup Differs("output", result.output # trace.output)
                    \cup Differs("status", result.status.kind # trace.status.kind)
                    \cup Differs("gas_used", result.gas_used # trace.gas_used)
                    \cup Differs("memory_used", result.memory_used # trace.memory_used)
<1>1. /\ replay.pc = "run" /\ run = Idle /\ IsReplay /\ Genuine /\ Retraces
      /\ Halted(vm)
      /\ UNCHANGED <<key, traces, run, recorded, vm>>
  BY Phases, OfTheVm DEF ReplayInv, ReadInv, Compare, Environment, store, Idle
<1>2. replay' = Report(found)
  BY DEF Compare
<1>3. RecordedInv' /\ FilesInv' /\ RunInv'
  BY <1>1 DEF ReplayInv, RecordedInv, FilesInv, RunInv
<1>4. Len(trace.entries) \in Nat /\ replay.consumed \in 0 .. Len(trace.entries)
  <2>1. IsSequence(trace.entries)
    BY <1>1 DEF ReplayInv, RecordedInv, Genuine
  <2> QED
    BY <1>1, <2>1 DEF IsSequence, Retraces
<1>5. /\ result.output = OutputOf(vm) /\ result.status.kind = KindOf(vm)
      /\ result.gas_used = vm.gas /\ result.memory_used = vm.memory
  BY ResultOfTheVm
<1> HIDE DEF result
<1>6. found = {} => vm.code = trace.program_hash /\ ~(replay.consumed < Len(trace.entries))
  BY DEF hash_mismatch
<1>7. vm.code = trace.program_hash => found = {}
  <2> SUFFICES ASSUME vm.code = trace.program_hash PROVE found = {}
    OBVIOUS
  <2>1. PICK path : /\ Follows(path, trace.program_hash, trace.vm_config, trace.entries)
                    /\ LET last == path[Len(trace.entries) + 1]
                       IN  /\ Halted(last)
                           /\ trace.output = OutputOf(last)
                           /\ trace.status.kind = KindOf(last)
                           /\ trace.gas_used = last.gas
                           /\ trace.memory_used = last.memory
    BY <1>1 DEF ReplayInv, RecordedInv, Genuine, Witnessed
  <2>2. path[replay.consumed + 1] = vm /\ replay.diverged = FALSE
    BY <1>1, <2>1 DEF Retraces
  <2>3. replay.consumed = Len(trace.entries)
    BY <1>1, <1>4, <2>1, <2>2 DEF Follows
  <2>4. /\ result.output = trace.output /\ result.status.kind = trace.status.kind
        /\ result.gas_used = trace.gas_used /\ result.memory_used = trace.memory_used
    BY <1>5, <2>1, <2>2, <2>3
  <2> QED
    BY <1>4, <2>2, <2>3, <2>4 DEF hash_mismatch
<1> HIDE DEF found
<1>8. /\ IsReplay' /\ replay'.pc = "done" /\ replay'.trace = trace
      /\ replay'.key = replay.key /\ replay'.source = replay.source
      /\ replay'.consumed = replay.consumed /\ replay'.mismatches = found
  BY <1>1, <1>2 DEF IsReplay, Report
<1>9. MatchedIsGenuine' /\ MatchedRanTheRecordedProgram'
  BY <1>1, <1>4, <1>6, <1>8 DEF MatchedIsGenuine, MatchedRanTheRecordedProgram, Matched, Genuine
<1>10. RecordedRunsMatch'
  <2>1. replay.source \in [code : {trace.program_hash}, text : Texts] => vm.code = trace.program_hash
    BY <1>1 DEF Retraces
  <2> QED
    BY <1>7, <1>8, <2>1 DEF RecordedRunsMatch
<1>11. ReadInv'
  BY <1>1, <1>8, <1>9, <1>10 DEF ReadInv, Truthful
<1> QED
  BY <1>3, <1>11 DEF ReplayInv

-----------------------------------------------------------------------------
(* The invariant, and what follows from it. *)

LEMMA ReplayInvHolds == Spec => []ReplayInv
<1>1. ReplayInv /\ [Next]_vars => ReplayInv'
  <2> SUFFICES ASSUME ReplayInv, [Next]_vars PROVE ReplayInv'
    OBVIOUS
  <2>1. CASE \E id \in Ids, code \in Codes, text \in Texts : StartRun(id, code, text)
    BY <2>1, StartRunKeeps
  <2>2. CASE \E response \in Responses \cup {Failed} : RecordCall(response)
    BY <2>2, RecordCallKeeps
  <2>3. CASE EndRun
    BY <2>3, EndRunKeeps
  <2>4. CASE \E code \in Codes, text \in Texts : OtherTextWins(code, text)
    BY <2>4, AroundKeeps DEF OtherTextWins, ReplayInv, FilesInv
  <2>5. CASE \E k \in Keys, l \in Limits : Reconfigure(k, l)
    BY <2>5, AroundKeeps DEF Reconfigure, store
  <2>6. CASE \E id \in Ids : AlterTrace(id)
    BY <2>6, AlterTraceKeeps
  <2>7. CASE \E code \in Codes : AlterProgram(code)
    BY <2>7, AroundKeeps DEF AlterProgram, ReplayInv, FilesInv
  <2>8. CASE \E id \in Asked : StartReplay(id)
    BY <2>8, StartReplayKeeps
  <2>9. CASE ReplayStep
    BY <2>9, ReadTraceKeeps, ReadProgramKeeps, TapeCallKeeps, CompareKeeps DEF ReplayStep
  <2>10. CASE UNCHANGED vars
    BY <2>10, AroundKeeps DEF vars, store, ReplayInv, FilesInv
  <2> QED
    BY <2>1, <2>2, <2>3, <2>4, <2>5, <2>6, <2>7, <2>8, <2>9, <2>10 DEF Next
<1> QED
  BY <1>1, AtFirst, PTL DEF Spec

LEMMA ReplaysAreTruthful == ReplayInv => Truthful
<1> SUFFICES ASSUME ReplayInv PROVE Truthful
  OBVIOUS
<1>1. CASE replay.pc = "done"
  BY <1>1 DEF ReplayInv, ReadInv, Idle
<1>2. CASE replay.pc # "done"
  BY <1>2 DEF Truthful, MatchedIsGenuine, MatchedRanTheRecordedProgram, RecordedRunsMatch, Matched
<1> QED
  BY <1>1, <1>2

\* A replay that matches is of a trace exactly as this gateway signed it
\* (trace.verify before everything else in replay): every field an alteration
\* may touch is in the digest, and no other key signs for the gateway.
THEOREM MatchesAreGenuine == Spec => []MatchedIsGenuine
<1>1. ReplayInv => MatchedIsGenuine
  BY ReplaysAreTruthful DEF Truthful
<1> QED
  BY <1>1, ReplayInvHolds, PTL

\* A replay that matches ran the bytecode of the recorded run and made all of its
\* calls (the comparison of hashes and of the tape in replay).
THEOREM MatchesRanTheProgram == Spec => []MatchedRanTheRecordedProgram
<1>1. ReplayInv => MatchedRanTheRecordedProgram
  BY ReplaysAreTruthful DEF Truthful
<1> QED
  BY <1>1, ReplayInvHolds, PTL

\* No false alarm: the VM of a replay with the header's limits and the recorded
\* responses goes through the states of the recorded run, for every program, so
\* that output, status, gas and memory are those of the footer.
THEOREM GenuineTracesMatch == Spec => []RecordedRunsMatch
<1>1. ReplayInv => RecordedRunsMatch
  BY ReplaysAreTruthful DEF Truthful
<1> QED
  BY <1>1, ReplayInvHolds, PTL
=============================================================================
