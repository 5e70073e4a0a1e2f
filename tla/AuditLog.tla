------------------------------ MODULE AuditLog ------------------------------
(***************************************************************************)
(* What the gateway promises about tool calls, without saying how: every   *)
(* request acts for one principal, makes only calls that principal is      *)
(* permitted, in an order, and publishes at most one record, which is      *)
(* exactly the calls it made.  After the record is published, or the       *)
(* request is over, nothing is called and nothing is rewritten.            *)
(***************************************************************************)
EXTENDS Integers, Sequences, Functions

CONSTANTS
  Runs,            \* the requests
  Principals,      \* whom a request may act for
  Permitted(_, _), \* the calls a principal may make
  NoOwner          \* the request has not been attributed

VARIABLES
  owner,           \* the principal each request acts for
  effects,         \* the calls it made, <<position, call>>, as it made them
  published,       \* the records it published
  closed           \* whether it is over

vars == <<owner, effects, published, closed>>

Init ==
  /\ owner = [r \in Runs |-> NoOwner]
  /\ effects = [r \in Runs |-> << >>]
  /\ published = [r \in Runs |-> {}]
  /\ closed = [r \in Runs |-> FALSE]

\* A request is attributed to a principal.
Start(r) ==
  /\ owner[r] = NoOwner
  /\ ~closed[r]
  /\ \E p \in Principals : owner' = [owner EXCEPT ![r] = p]
  /\ UNCHANGED <<effects, published, closed>>

\* A request is refused before anything was done for it.
Reject(r) ==
  /\ owner[r] = NoOwner
  /\ ~closed[r]
  /\ \E p \in Principals \cup {NoOwner} : owner' = [owner EXCEPT ![r] = p]
  /\ closed' = [closed EXCEPT ![r] = TRUE]
  /\ UNCHANGED <<effects, published>>

\* A request makes a permitted call, after all the calls it made before and at
\* a position of its own: no call is made twice.
Act(r) ==
  /\ owner[r] \in Principals
  /\ ~closed[r]
  /\ published[r] = {}
  /\ \E e \in Range(effects'[r]) :
       /\ Permitted(owner[r], e[2])
       /\ \A earlier \in Range(effects[r]) : earlier[1] < e[1]
       /\ effects' = [effects EXCEPT ![r] = Append(@, e)]
  /\ UNCHANGED <<owner, published, closed>>

\* A request publishes the record of what it did.
Publish(r) ==
  /\ ~closed[r]
  /\ published[r] = {}
  /\ published' = [published EXCEPT ![r] = {Range(effects[r])}]
  /\ UNCHANGED <<owner, effects, closed>>

\* Requests end, with or without a record; a failure may end several at once.
Close ==
  /\ closed' \in [Runs -> BOOLEAN]
  /\ \A r \in Runs : closed[r] => closed'[r]
  /\ UNCHANGED <<owner, effects, published>>

Next == Close \/ \E r \in Runs : Start(r) \/ Reject(r) \/ Act(r) \/ Publish(r)

Spec == Init /\ [][Next]_vars
=============================================================================
