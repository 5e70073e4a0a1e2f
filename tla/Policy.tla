------------------------------- MODULE Policy -------------------------------
(***************************************************************************)
(* The rules file of the gateway (src/src/policy.rs): which tools a        *)
(* principal may call, and an inclusive upper bound on integer arguments   *)
(* of a tool.  The rules are loaded once at start-up and never change, so  *)
(* they are constants here and `check` is a pure operator.                 *)
(*                                                                         *)
(* A JSON argument object is a function from the names it holds to values. *)
(* A value is an integer, or NotInteger for every JSON value that serde    *)
(* gives neither as i64 nor as u64 (a string, a boolean, a float, ...).    *)
(* Integers keep the width of the code's i64 through I64Max.               *)
(***************************************************************************)
EXTENDS Integers

CONSTANTS
  Allow,       \* [principal named in the rules -> set of qualified tool names]
  Bounds,      \* [constrained tool -> [argument name -> inclusive maximum]]
  I64Max,      \* largest i64
  NotInteger   \* a JSON value that is not an integer

ASSUME I64MaxIsPositive == I64Max \in Nat \ {0}
ASSUME NotIntegerIsNoInteger == NotInteger \notin Int

IsI64(v) == v \in Int /\ v >= -(I64Max + 1) /\ v <= I64Max

\* Policy::allowed_tools: an unknown principal has no tools.
allowed_tools(principal) ==
  IF principal \in DOMAIN Allow THEN Allow[principal] ELSE {}

\* The bounds the rules put on a tool: none for a tool they do not name.
BoundsOf(tool) ==
  IF tool \in DOMAIN Bounds THEN Bounds[tool] ELSE << >>

\* WithinBound that skips an argument the call does not have.
WithinBoundIfPresent(args, arg, max) ==
  arg \in DOMAIN args => IsI64(args[arg]) /\ args[arg] <= max

\* A bound that lets a call through: the argument is there, serde gives it as an
\* i64, and it is not above the maximum.  What is not an i64 never passes: a u64
\* beyond i64 exceeds every i64 maximum, and anything else is not an integer.
WithinBound(args, arg, max) ==
  /\ arg \in DOMAIN args
  /\ IsI64(args[arg])
  /\ args[arg] <= max

\* Policy::check, without the wording of the reason.  The loop over the bounds
\* returns at the first one that fails, so it allows when none does.
check(principal, tool, args) ==
  IF /\ principal \in DOMAIN Allow
     /\ tool \in Allow[principal]
     /\ \A arg \in DOMAIN BoundsOf(tool) :
          WithinBound(args, arg, BoundsOf(tool)[arg])
  THEN "Allow"
  ELSE "Deny"
=============================================================================
