----------------------------- MODULE TraceStore -----------------------------
(***************************************************************************)
(* The files of the trace store (src/src/store.rs) under concurrent puts,  *)
(* disk errors, and the process dying and being started again.             *)
(*                                                                         *)
(* A put is one call of put_trace, put_program or put_description by one   *)
(* thread of the gateway.  Each file-system call is a step of its own.  A  *)
(* temp file is named by its directory, the process id and a counter that  *)
(* starts again at 0 with the process.                                     *)
(***************************************************************************)
EXTENDS Integers

CONSTANTS
  Writers,      \* the puts, each made once
  Put(_),       \* [kind, key, content] of a put
  Pids,         \* process ids
  ReusePids,    \* whether a new process may get the id of an earlier one
  NoContent,    \* a file that is not there
  Partial,      \* a file that is being written
  MaxRestarts   \* bound: how often the process dies

ASSUME ReuseIsBoolean == ReusePids \in BOOLEAN
ASSUME RestartBound == MaxRestarts \in Nat
ASSUME ContentsAreContents ==
  \A w \in Writers : Put(w).content \notin {NoContent, Partial}

PathOf(w) == <<Put(w).kind, Put(w).key>>
Paths == {PathOf(w) : w \in Writers}

\* Every run draws a UUID for its trace (engine.rs:134).
ASSUME TraceIdsAreFresh ==
  \A v, w \in Writers : Put(v).kind = "trace" /\ PathOf(v) = PathOf(w) => v = w

VARIABLES
  files,     \* the files under their final names
  temps,     \* the temp files: [name -> content]
  pc,        \* where each put is
  temp,      \* the temp name a put uses
  pid,       \* id of the running process
  usedPids,  \* ids of the processes so far
  counter,   \* COUNTER of the running process
  restarts,  \* how often the process has died
  diskFailed \* history: the puts that met an error of the disk

vars == <<files, temps, pc, temp, pid, usedPids, counter, restarts, diskFailed>>
process == <<pid, usedPids, counter, restarts>>

NoTemp == <<"none", "none", 0>>

Init ==
  /\ files = [p \in Paths |-> NoContent]
  /\ temps = [t \in {} |-> NoContent]
  /\ pc = [w \in Writers |-> "idle"]
  /\ temp = [w \in Writers |-> NoTemp]
  /\ pid \in Pids
  /\ usedPids = {pid}
  /\ counter = 0
  /\ restarts = 0
  /\ diskFailed = {}

Goto(w, from, to) ==
  /\ pc[w] = from
  /\ pc' = [pc EXCEPT ![w] = to]

WithTemp(t, content) ==
  [n \in DOMAIN temps \cup {t} |-> IF n = t THEN content ELSE temps[n]]
WithoutTemp(t) == [n \in DOMAIN temps \ {t} |-> temps[n]]

-----------------------------------------------------------------------------
Begin(w) ==
  /\ Goto(w, "idle", "look")
  /\ UNCHANGED <<files, temps, temp, process, diskFailed>>

\* LookResult that overwrites what differs.
LookResultOverwriting(w) ==
  IF files[PathOf(w)] = NoContent THEN "create"
  ELSE IF Put(w).kind = "trace" THEN "exists"
  ELSE IF files[PathOf(w)] = Put(w).content THEN "ok" ELSE "create"

\* put_trace looks whether the file exists; put_content_addressed reads it.
LookResult(w) ==
  IF files[PathOf(w)] = NoContent THEN "create"
  ELSE IF Put(w).kind = "trace" THEN "exists"
  ELSE IF files[PathOf(w)] = Put(w).content THEN "ok" ELSE "conflict"

Look(w) ==
  /\ Goto(w, "look", LookResult(w))
  /\ UNCHANGED <<files, temps, temp, process, diskFailed>>

\* TempName without the counter.
TempNameOfProcess(w) == <<Put(w).kind, pid, 0>>

\* The name write_atomic draws next for a put.
TempName(w) == <<Put(w).kind, pid, counter>>

\* write_atomic draws a name and creates the file with create_new.  If the name
\* is taken the put fails, and the clean-up removes the file that has the name.
Create(w) ==
  LET t == TempName(w) IN
  /\ Goto(w, "create", IF t \in DOMAIN temps THEN "io_error" ELSE "write")
  /\ temps' = IF t \in DOMAIN temps THEN WithoutTemp(t) ELSE WithTemp(t, Partial)
  /\ temp' = [temp EXCEPT ![w] = t]
  /\ counter' = counter + 1
  /\ UNCHANGED <<files, pid, usedPids, restarts, diskFailed>>

\* Write that does not wait for the content to be there.
WriteUnfinished(w) ==
  /\ Goto(w, "write", "rename")
  /\ UNCHANGED <<files, temps, temp, process, diskFailed>>

\* write_all and sync_all.
Write(w) ==
  /\ Goto(w, "write", "rename")
  /\ temps' = WithTemp(temp[w], Put(w).content)
  /\ UNCHANGED <<files, temp, process, diskFailed>>

\* Rename into the store's root instead of the directory of the kind.
RenameIntoRoot(w) ==
  LET target == <<"root", Put(w).key>> IN
  /\ Goto(w, "rename", "ok")
  /\ files' = [p \in DOMAIN files \cup {target} |->
                IF p = target THEN Put(w).content ELSE files[p]]
  /\ temps' = WithoutTemp(temp[w])
  /\ UNCHANGED <<temp, process, diskFailed>>

\* rename replaces the target, whatever has been put there since the look.
Rename(w) ==
  /\ Goto(w, "rename", IF temp[w] \in DOMAIN temps THEN "ok" ELSE "io_error")
  /\ files' = IF temp[w] \in DOMAIN temps
              THEN [files EXCEPT ![PathOf(w)] = temps[temp[w]]] ELSE files
  /\ temps' = WithoutTemp(temp[w])
  /\ UNCHANGED <<temp, process, diskFailed>>

\* DiskFails with the error of rename ignored.
DiskFailsUnnoticed(w) ==
  LET t == IF pc[w] = "create" THEN TempName(w) ELSE temp[w] IN
  /\ pc[w] \in {"look", "create", "write", "rename"}
  /\ pc' = [pc EXCEPT ![w] =
       IF pc[w] = "rename" THEN "ok"
       ELSE IF pc[w] = "look" /\ Put(w).kind = "trace" THEN "create" ELSE "io_error"]
  /\ temps' = temps \/ (pc[w] # "look" /\ temps' = WithoutTemp(t))
  /\ counter' = IF pc[w] = "create" THEN counter + 1 ELSE counter
  /\ diskFailed' = diskFailed \cup {w}
  /\ UNCHANGED <<files, temp, pid, usedPids, restarts>>

\* The disk fails the put's next call.  A look of put_trace takes that for a
\* missing file; otherwise the put fails and removes its temp file, unless that
\* fails as well: its error is ignored.
DiskFails(w) ==
  LET t == IF pc[w] = "create" THEN TempName(w) ELSE temp[w] IN
  /\ pc[w] \in {"look", "create", "write", "rename"}
  /\ pc' = [pc EXCEPT ![w] =
       IF pc[w] = "look" /\ Put(w).kind = "trace" THEN "create" ELSE "io_error"]
  /\ temps' = temps \/ (pc[w] # "look" /\ temps' = WithoutTemp(t))
  /\ counter' = IF pc[w] = "create" THEN counter + 1 ELSE counter
  /\ diskFailed' = diskFailed \cup {w}
  /\ UNCHANGED <<files, temp, pid, usedPids, restarts>>

\* The process dies and is started again.  Temp files stay; the puts that were
\* open are lost; the counter starts at 0.
Restart ==
  /\ restarts < MaxRestarts
  /\ restarts' = restarts + 1
  /\ \E p \in IF ReusePids THEN Pids ELSE Pids \ usedPids :
       pid' = p /\ usedPids' = usedPids \cup {p}
  /\ counter' = 0
  /\ pc' = [w \in Writers |->
       IF pc[w] \in {"look", "create", "write", "rename"} THEN "lost" ELSE pc[w]]
  /\ UNCHANGED <<files, temps, temp, diskFailed>>

Next ==
  \/ Restart
  \/ \E w \in Writers : \/ Begin(w) \/ Look(w) \/ Create(w)
                        \/ Write(w) \/ Rename(w) \/ DiskFails(w)

Spec == Init /\ [][Next]_vars

-----------------------------------------------------------------------------
(* Types and properties *)

PcValues ==
  {"idle", "look", "create", "write", "rename",
   "ok", "exists", "conflict", "io_error", "lost"}

\* What a file may hold, and the names that processes draw for temp files.
Contents == {Put(w).content : w \in Writers} \cup {NoContent, Partial}
TempNames == {Put(w).kind : w \in Writers} \X Pids \X Nat

\* Every variable has its type.
TypeOK ==
  /\ files \in [Paths -> Contents]
  /\ DOMAIN temps \subseteq TempNames
  /\ temps \in [DOMAIN temps -> Contents]
  /\ pc \in [Writers -> PcValues]
  /\ temp \in [Writers -> TempNames \cup {NoTemp}]
  /\ pid \in Pids
  /\ usedPids \subseteq Pids
  /\ counter \in Nat
  /\ restarts \in 0..MaxRestarts
  /\ diskFailed \subseteq Writers

\* A reader never sees a partial file (store.rs:115-116): under its final name a
\* file holds the whole content of some put under that name.
NoTornFile ==
  \A p \in Paths : files[p] # NoContent =>
    \E w \in Writers : PathOf(w) = p /\ files[p] = Put(w).content

\* A put that returned Ok can be read back from then on, whoever wrote the file
\* last and however often the process died; a trace reads back as it was put.
AcknowledgedPutsAreKept ==
  \A w \in Writers : pc[w] = "ok" =>
    /\ files[PathOf(w)] # NoContent
    /\ Put(w).kind = "trace" => files[PathOf(w)] = Put(w).content

\* A put fails only because the disk failed it or because its file is there:
\* never because of another put or of what a dead process left behind
\* (engine.rs:106-108, "unless the store cannot be written").
PutsFailForACause ==
  \A w \in Writers :
    /\ pc[w] = "io_error" => w \in diskFailed
    /\ pc[w] \in {"exists", "conflict"} => files[PathOf(w)] # NoContent

\* "Same content under the same key is a no-op; different content is an error"
\* (store.rs:97), and the source already stored "is kept" (engine.rs:124-126):
\* no put replaces a stored file by different content.
StoredContentIsKept ==
  [][\A p \in Paths : files[p] # NoContent => files'[p] = files[p]]_vars

\* Seen from outside a put looks, and then replaces the file in one step with
\* its whole content or fails with every file as it was.
StageOf(w) ==
  CASE pc[w] = "idle" -> "idle"
    [] pc[w] = "look" -> "look"
    [] pc[w] \in {"create", "write", "rename"} -> "write"
    [] pc[w] = "ok" -> "ok"
    [] pc[w] \in {"exists", "conflict", "io_error", "lost"} -> "failed"

Abstract == INSTANCE PutStore WITH stage <- [w \in Writers |-> StageOf(w)]

ImplementsPutStore == Abstract!Spec
=============================================================================
