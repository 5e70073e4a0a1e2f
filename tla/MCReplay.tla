------------------------------ MODULE MCReplay ------------------------------
(***************************************************************************)
(* Three programs.  "buy" asks for a price and, when it is high, makes a   *)
(* second call; "peek" behaves like it on a low price; "loop" calls until  *)
(* its gas is used up, whatever the answer.                                *)
(***************************************************************************)
EXTENDS Replay

MCAt(code, node) ==
  CASE node = 1 -> [kind |-> "call", value |-> "price"]
    [] node = 2 -> [kind |-> "return", value |-> "bid"]
    [] node = 3 -> [kind |-> "call", value |-> "order"]
    [] node = 4 -> [kind |-> "return", value |-> "receipt"]
    [] node = 5 -> [kind |-> "error", value |-> "ToolError"]

MCThen(code, node, response) ==
  IF code = "loop" THEN 1
  ELSE IF response = Failed THEN 5
  ELSE IF node = 3 THEN 4
  ELSE IF response = "low" THEN 2
  ELSE IF code = "buy" THEN 3 ELSE 4

MCSize(x) == IF x = "receipt" THEN 2 ELSE IF x = Failed THEN 0 ELSE 1

MCLimits == {[gas_limit |-> 2, max_output_bytes |-> 1], [gas_limit |-> 1, max_output_bytes |-> 2]}
=============================================================================
