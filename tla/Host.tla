-------------------------------- MODULE Host --------------------------------
(***************************************************************************)
(* What one tool call goes through, as operators on the call and on the    *)
(* reply: the checks of GatewayHost::call_tool (src/src/host.rs), the way  *)
(* a downstream's reply becomes a tool response (src/src/downstream.rs)    *)
(* and what the host accepts of it.  Gateway.tla drives them.              *)
(*                                                                         *)
(* A call is a record [tool, args].  Whether a Lua argument table has a    *)
(* JSON form and whether a JSON object fits a tool's input schema are      *)
(* given by the sets Unconvertible and Misfits of calls.                   *)
(*                                                                         *)
(* A reply is a record                                                     *)
(*   delivered   FALSE when the MCP request itself failed                  *)
(*   isError     the result is marked as a tool error                      *)
(*   provenance  what its _meta reports (see ReportKinds)                  *)
(*   value       what the result's content is to the VM (see ReplyValues)   *)
(***************************************************************************)
EXTENDS Policy

CONSTANTS
  Calls,          \* every call a program may make, [tool, args]
  Discovered,     \* qualified names of the tools the downstreams listed
  Unconvertible,  \* calls whose arguments table_to_json cannot convert
  Misfits,        \* calls whose arguments the tool's schema rejects
  Values          \* the response values that differ to a program

ASSUME CallSetsAreCalls ==
  /\ Unconvertible \subseteq Calls
  /\ Misfits \subseteq Calls
ASSUME ValuesAreRecordable ==
  Values \cap {"null_in_array", "uncanonical"} = {}

NoAttestation == << >>

\* The report under the provenance key of a result's _meta: missing, one of
\* the four tags (Signed, Onchain and Notarized alike are "attested"), or one
\* of the shapes read_provenance rejects.
ReportKinds ==
  {"absent", "unsigned", "attested",
   "not_an_object", "unknown_tag", "unknown_field", "empty_field"}
MalformedReports ==
  {"not_an_object", "unknown_tag", "unknown_field", "empty_field"}

\* A result's value: one of Values, which the VM can hold and core can record,
\* one with a null in an array, or one too deep or too long for core's
\* canonical encoding.
ReplyValues == Values \cup {"null_in_array", "uncanonical"}

Replies ==
  [delivered : BOOLEAN, isError : BOOLEAN,
   provenance : ReportKinds, value : ReplyValues]

Failed == [ok |-> FALSE]

-----------------------------------------------------------------------------
(* Before the call is sent *)

\* Engine::allowed_schemas: the discovered tools the rules allow.
allowed_schemas(principal) == Discovered \cap allowed_tools(principal)

\* decide that hands the policy's own verdict on as the decision.
DecideUnmapped(principal, allowed, call) ==
  IF call \in Unconvertible \cup Misfits THEN "RejectedBySchema"
  ELSE IF call.tool \notin allowed THEN "DeniedByPolicy"
  ELSE check(principal, call.tool, call.args)

\* GatewayHost::call_tool up to the dispatch: four checks, in this order, each
\* of which refuses the call.  `allowed` is the list the engine gave the host.
decide(principal, allowed, call) ==
  IF call \in Unconvertible THEN "RejectedBySchema"
  ELSE IF call.tool \notin allowed THEN "DeniedByPolicy"
  ELSE IF call \in Misfits THEN "RejectedBySchema"
  ELSE IF check(principal, call.tool, call.args) = "Deny" THEN "DeniedByPolicy"
  ELSE "Allowed"

-----------------------------------------------------------------------------
(* After the downstream answered *)

\* map_result: a tool error, or the value.
map_result(reply) ==
  IF reply.isError THEN Failed ELSE [ok |-> TRUE, value |-> reply.value]

\* read_provenance: the tag and the attestation blob of a well-formed report.
\* The blob is the report itself, kept here by the call it answers.
read_provenance(reply, blob) ==
  IF reply.provenance \in MalformedReports THEN Failed
  ELSE IF reply.provenance = "attested"
  THEN [ok |-> TRUE, provenance |-> "Attested", attestation |-> blob]
  ELSE [ok |-> TRUE, provenance |-> "Unsigned", attestation |-> NoAttestation]

\* Downstreams::call on the reply: a failed request, a tool error and a malformed
\* provenance report are errors, in this order.  A request that is not delivered
\* also stands for one that fails before it is sent (unknown tool, arguments
\* that are no object): the host logs both as Allowed.
DownstreamCall(reply, blob) ==
  IF \/ ~reply.delivered
     \/ ~map_result(reply).ok
     \/ ~read_provenance(reply, blob).ok
  THEN Failed
  ELSE [ok |-> TRUE, value |-> map_result(reply).value,
        provenance |-> read_provenance(reply, blob).provenance,
        attestation |-> read_provenance(reply, blob).attestation]

\* json_to_table gives a table for the value: a null in an array has none.
HasTable(value) == value # "null_in_array"

\* Core (external) has a canonical encoding for the table.
Recordable(value) == value # "uncanonical"

\* accept without the check that core can record the response.
AcceptUncanonical(response) ==
  IF ~response.ok \/ ~HasTable(response.value) THEN Failed ELSE response

\* accept: the response must convert to a table, and core must be able to
\* record that table.
accept(response) ==
  IF ~response.ok \/ ~HasTable(response.value) \/ ~Recordable(response.value)
  THEN Failed ELSE response
=============================================================================
