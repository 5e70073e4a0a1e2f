------------------------------ MODULE PutStore ------------------------------
(***************************************************************************)
(* What a put on the trace store looks like from outside: it looks at its  *)
(* file, and then, if the file was not there, replaces it in one step with *)
(* the whole content, or fails and leaves every file as it is.  The look   *)
(* and the replacement are two steps.  Gateway.tla treats its puts so.     *)
(***************************************************************************)
CONSTANTS
  Writers,      \* the puts
  Put(_),       \* [kind, key, content] of a put
  Paths,        \* <<kind, key>> of each file a put may name
  NoContent     \* the file is not there

VARIABLES files, stage

vars == <<files, stage>>

PathOf(w) == <<Put(w).kind, Put(w).key>>

Init ==
  /\ files = [p \in Paths |-> NoContent]
  /\ stage = [w \in Writers |-> "idle"]

Begin(w) ==
  /\ stage[w] = "idle"
  /\ stage' = [stage EXCEPT ![w] = "look"]
  /\ UNCHANGED files

\* A trace that exists is an error.  Content that exists is accepted when it is
\* the same and an error when it is not.
Look(w) ==
  /\ stage[w] = "look"
  /\ stage' = [stage EXCEPT ![w] =
       IF files[PathOf(w)] = NoContent THEN "write"
       ELSE IF Put(w).kind = "trace" THEN "failed"
       ELSE IF files[PathOf(w)] = Put(w).content THEN "ok" ELSE "failed"]
  /\ UNCHANGED files

Write(w) ==
  /\ stage[w] = "write"
  /\ files' = [files EXCEPT ![PathOf(w)] = Put(w).content]
  /\ stage' = [stage EXCEPT ![w] = "ok"]

Fail(w) ==
  /\ stage[w] \in {"look", "write"}
  /\ stage' = [stage EXCEPT ![w] = "failed"]
  /\ UNCHANGED files

\* The process ends: every open put fails.
Die ==
  /\ stage' = [w \in Writers |->
       IF stage[w] \in {"look", "write"} THEN "failed" ELSE stage[w]]
  /\ UNCHANGED files

Next == Die \/ \E w \in Writers : Begin(w) \/ Look(w) \/ Write(w) \/ Fail(w)

Spec == Init /\ [][Next]_vars
=============================================================================
