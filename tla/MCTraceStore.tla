---------------------------- MODULE MCTraceStore ----------------------------
(***************************************************************************)
(* Two texts of one program (the same bytecode, so the same key), put by   *)
(* three requests, and the traces of two requests.                         *)
(***************************************************************************)
EXTENDS TraceStore

RacingPuts == {"p1", "p2", "p3", "t1"}
TracePuts  == {"t1", "t2"}

MCPut(w) ==
  CASE w = "p1" -> [kind |-> "program", key |-> "h", content |-> "text 1"]
    [] w = "p2" -> [kind |-> "program", key |-> "h", content |-> "text 2"]
    [] w = "p3" -> [kind |-> "program", key |-> "h", content |-> "text 1"]
    [] w = "t1" -> [kind |-> "trace", key |-> "id 1", content |-> "trace 1"]
    [] w = "t2" -> [kind |-> "trace", key |-> "id 2", content |-> "trace 2"]
=============================================================================
