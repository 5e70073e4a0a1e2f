------------------------------ MODULE McpServer ------------------------------
(***************************************************************************)
(* The agent-facing MCP server (src/src/server.rs): sessions, requests of  *)
(* several principals, their answers, and what becomes of them when the    *)
(* process is told to stop.  `execute` is coarse here, Gateway.tla has its *)
(* detail; what matters is which half of it is where: the handler awaits   *)
(* on the runtime while the VM runs on a thread of its own.                *)
(*                                                                         *)
(* External: rmcp keeps the sessions, runs each handler as a task that     *)
(* outlives its client, and ends its streams when its token is cancelled;  *)
(* axum drains open responses before its task ends; dropping the tokio     *)
(* runtime drops every task, closes the downstreams with them, and waits   *)
(* for the threads.                                                        *)
(***************************************************************************)
EXTENDS Integers, FiniteSets

CONSTANTS
  Principals,      \* principals of the configuration
  tokens,          \* [Principals -> token]
  Presented,       \* the tokens clients present, others' included
  Sessions,        \* MCP sessions
  RequestIds,      \* the requests made
  Programs,        \* program texts
  Compiles,        \* [Principals -> SUBSET Programs]: what lints with their tools
  Calls,           \* [Programs -> Nat]: how many tool calls a program makes
  NONE

ASSUME TokensAreUnshared ==
  \A p, q \in Principals : tokens[p] = tokens[q] => p = q
ASSUME NoneIsNoPrincipal == NONE \notin Principals

VARIABLES
  phase,       \* "serving", "stopping", "dropping" (the runtime) or "exited"
  exit,        \* the exit code
  cancelled,   \* the cancellation token shared by rmcp's service and axum
  downstreams, \* whether the connections to the downstreams are up
  opener,      \* whose token opened a session
  standing,    \* sessions with an open GET stream
  connected,   \* requests whose client waits for the response
  pc,          \* where each handler is
  req,         \* its request
  extension,   \* the Principal that require_bearer put into the HTTP request
  answer,      \* what the handler returned
  thread,      \* the blocking thread of its run
  made,        \* how many calls the program has made
  sent,        \* history: the calls that reached a downstream, with their principal
  traces,      \* history: the stored traces, [request, status]
  storeFailed  \* history: runs whose trace could not be stored

server  == <<phase, exit, cancelled, downstreams>>
streams == <<opener, standing, connected>>
run     == <<thread, made, sent>>
store   == <<traces, storeFailed>>
vars    == <<server, streams, pc, req, extension, answer, run, store>>

ToolCalls ==
  [method : {"tools/call"}, name : {"execute", "check"}, args : {"fit"}, program : Programs]
    \cup [method : {"tools/call"}, name : {"execute", "check"}, args : {"unfit"}, program : {NONE}]
    \cup [method : {"tools/call"}, name : {"other"}, args : {"fit"}, program : {NONE}]

Reads ==
  [method : {"tools/list", "resources/list", "prompts/list"}]
    \cup [method : {"resources/read", "prompts/get"}, name : {"lua-guide", "other"}]

Init ==
  /\ phase = "serving" /\ exit = NONE /\ cancelled = FALSE /\ downstreams = "up"
  /\ opener = [s \in Sessions |-> NONE]
  /\ standing = {} /\ connected = {}
  /\ pc = [r \in RequestIds |-> "idle"]
  /\ req = [r \in RequestIds |-> NONE]
  /\ extension = [r \in RequestIds |-> NONE]
  /\ answer = [r \in RequestIds |-> NONE]
  /\ thread = [r \in RequestIds |-> "none"]
  /\ made = [r \in RequestIds |-> 0]
  /\ sent = {} /\ traces = {} /\ storeFailed = {}

-----------------------------------------------------------------------------
(* Sessions and authentication *)

\* Tokens::principal_for looks at every principal; a token nobody has is NONE.
principal_for(token) ==
  IF \E p \in Principals : tokens[p] = token
  THEN CHOOSE p \in Principals : tokens[p] = token ELSE NONE

\* A client opens a session with initialize, or a stream with GET.  rmcp does not
\* tie the session to a principal; whose token opened it is history.
Initialize(s, token) ==
  /\ phase = "serving" /\ opener[s] = NONE /\ principal_for(token) # NONE
  /\ opener' = [opener EXCEPT ![s] = principal_for(token)]
  /\ UNCHANGED <<server, standing, connected, pc, req, extension, answer, run, store>>

OpenStream(s, token) ==
  /\ phase = "serving" /\ opener[s] # NONE /\ principal_for(token) # NONE
  /\ s \notin standing
  /\ standing' = standing \cup {s}
  /\ UNCHANGED <<server, opener, connected, pc, req, extension, answer, run, store>>

\* require_bearer: the token of this request names the principal, or it is a 401
\* before any MCP handling.
require_bearer(r, s, token, body) ==
  /\ phase = "serving" /\ pc[r] = "idle" /\ opener[s] # NONE
  /\ req' = [req EXCEPT ![r] = [session |-> s, token |-> token, body |-> body]]
  /\ \/ /\ principal_for(token) # NONE
        /\ extension' = [extension EXCEPT ![r] = principal_for(token)]
        /\ pc' = [pc EXCEPT ![r] = "handler"]
        /\ connected' = connected \cup {r}
        /\ UNCHANGED answer
     \/ /\ principal_for(token) = NONE
        /\ answer' = [answer EXCEPT ![r] = [kind |-> "unauthorized"]]
        /\ pc' = [pc EXCEPT ![r] = "answered"]
        /\ UNCHANGED <<extension, connected>>
  /\ UNCHANGED <<server, opener, standing, run, store>>

\* principal that is the one whose token opened the session.
principal_of_session(r) == opener[req[r].session]

\* principal: the one of the request's own HTTP headers.
principal(r) == extension[r]

\* The handler returns; the response closes with it.
Respond(r, result) ==
  /\ answer' = [answer EXCEPT ![r] = result]
  /\ pc' = [pc EXCEPT ![r] = "answered"]
  /\ connected' = connected \ {r}
  /\ UNCHANGED <<opener, standing, req, extension>>

rpc_error(code) == [kind |-> "rpc_error", code |-> code]
tool_result(is_error, structured) ==
  [kind |-> "tool_result", is_error |-> is_error, structured |-> structured]

-----------------------------------------------------------------------------
(* The handlers *)

\* A handler is polled while the runtime is up.
Runs(r, where) == phase \in {"serving", "stopping"} /\ pc[r] = where

\* execute is described by the principal's own tools, check by a fixed text.
list_tools(r) == [kind |-> "tools", execute |-> principal(r), check |-> "fixed"]

\* The guide is one resource and one prompt, the same for everybody, and any
\* other name is an error.
ReadResult(r) ==
  LET body == req[r].body IN
  CASE body.method = "tools/list" -> list_tools(r)
    [] body.method \in {"resources/list", "prompts/list"} -> [kind |-> "list"]
    [] body.method = "resources/read" ->
         IF body.name = "lua-guide" THEN [kind |-> "guide"] ELSE rpc_error("resource_not_found")
    [] body.method = "prompts/get" ->
         IF body.name = "lua-guide" THEN [kind |-> "guide"] ELSE rpc_error("invalid_params")

Read(r) ==
  /\ Runs(r, "handler") /\ req[r].body \in Reads
  /\ Respond(r, ReadResult(r))
  /\ UNCHANGED <<server, run, store>>

Calling(r, name) ==
  Runs(r, "handler") /\ req[r].body \in ToolCalls /\ req[r].body.name = name

\* args: unknown fields and a missing program are refused.
ArgsFit(r) == req[r].body.args = "fit"

Lints(r) == req[r].body.program \in Compiles[principal(r)]

\* call_tool: a tool that does not exist, or arguments that do not fit.
InvalidParams(r) ==
  /\ \/ Calling(r, "other")
     \/ \E name \in {"execute", "check"} : Calling(r, name) /\ ~ArgsFit(r)
  /\ Respond(r, rpc_error("invalid_params"))
  /\ UNCHANGED <<server, run, store>>

\* The check tool: `ok`, or the lint error as an error result.
Check(r) ==
  /\ Calling(r, "check") /\ ArgsFit(r)
  /\ Respond(r, tool_result(~Lints(r), FALSE))
  /\ UNCHANGED <<server, run, store>>

LintFails(r) ==
  /\ Calling(r, "execute") /\ ArgsFit(r) /\ ~Lints(r)
  /\ Respond(r, tool_result(TRUE, FALSE))
  /\ UNCHANGED <<server, run, store>>

\* Store error that is answered as a tool result the model can read.
store_error_as_text == tool_result(TRUE, FALSE)

\* Gateway::execute answers a store error with a JSON-RPC error.
store_error == rpc_error("internal_error")

\* Engine::execute puts the program and the description, and starts the VM on a
\* blocking thread; nothing runs if a put fails.
StartRun(r) ==
  /\ Calling(r, "execute") /\ ArgsFit(r) /\ Lints(r)
  /\ \/ /\ thread' = [thread EXCEPT ![r] = "running"]
        /\ pc' = [pc EXCEPT ![r] = "awaiting"]
        /\ UNCHANGED <<streams, req, extension, answer>>
     \/ Respond(r, store_error) /\ UNCHANGED thread
  /\ UNCHANGED <<server, made, sent, store>>

\* The thread makes a call: it goes out, or fails once the connections are closed.
VmCalls(r) ==
  /\ thread[r] = "running" /\ made[r] < Calls[req[r].body.program]
  /\ made' = [made EXCEPT ![r] = @ + 1]
  /\ \/ /\ downstreams = "up"
        /\ sent' = sent \cup {[request |-> r, principal |-> principal(r), n |-> made'[r]]}
        /\ thread' = [thread EXCEPT ![r] = "calling"]
     \/ downstreams = "closed" /\ UNCHANGED <<sent, thread>>
  /\ UNCHANGED <<server, streams, pc, req, extension, answer, store>>

\* block_on returns: the downstream answered, or its connection was closed.
CallReturns(r) ==
  /\ thread[r] = "calling"
  /\ thread' = [thread EXCEPT ![r] = "running"]
  /\ UNCHANGED <<server, streams, pc, req, extension, answer, made, sent, store>>

\* The VM ends with a value after the last call, or with an error at any point.
VmEnds(r) ==
  /\ thread[r] = "running"
  /\ \E status \in {"ok", "error"} :
       /\ status = "ok" => made[r] = Calls[req[r].body.program]
       /\ thread' = [thread EXCEPT ![r] = status]
  /\ UNCHANGED <<server, streams, pc, req, extension, answer, made, sent, store>>

\* The handler stores the trace and answers with the run's status, or with the
\* store's error.
StoreTrace(r) ==
  /\ Runs(r, "awaiting") /\ thread[r] \in {"ok", "error"}
  /\ \/ /\ traces' = traces \cup {[request |-> r, status |-> thread[r]]}
        /\ Respond(r, tool_result(thread[r] = "error", TRUE))
        /\ UNCHANGED storeFailed
     \/ /\ storeFailed' = storeFailed \cup {r}
        /\ Respond(r, store_error)
        /\ UNCHANGED traces
  /\ UNCHANGED <<server, run>>

-----------------------------------------------------------------------------
(* Clients leave, and the process stops *)

\* A client goes away: its streams close and its handlers go on.
ClientLeaves(r) ==
  /\ r \in connected
  /\ connected' = connected \ {r}
  /\ UNCHANGED <<server, opener, standing, pc, req, extension, answer, run, store>>

CloseStream(s) ==
  /\ s \in standing
  /\ standing' = standing \ {s}
  /\ UNCHANGED <<server, opener, connected, pc, req, extension, answer, run, store>>

\* Ctrl-C: shutdown cancels the token and waits for the server's task.
CtrlC ==
  /\ phase = "serving"
  /\ phase' = "stopping"
  /\ cancelled' = TRUE
  /\ UNCHANGED <<exit, downstreams, streams, pc, req, extension, answer, run, store>>

\* A service configured with a token of its own never hears of the stop.
own_token == FALSE

\* start clones the configuration, and with it the token, into rmcp's service.
service_token == cancelled

\* The streams that rmcp ends when the service's token is cancelled.
StreamsEnd ==
  /\ service_token /\ (standing # {} \/ connected # {})
  /\ standing' = {} /\ connected' = {}
  /\ UNCHANGED <<server, opener, pc, req, extension, answer, run, store>>

\* serve returns and main drops the runtime, and with it every handler: axum's
\* task has ended, or it failed, or the signal could not be waited for (exit 2).
DropRuntime(from, code) ==
  /\ phase = from
  /\ phase' = "dropping" /\ exit' = code
  /\ pc' = [r \in RequestIds |->
              IF pc[r] \in {"handler", "awaiting"} THEN "dropped" ELSE pc[r]]
  /\ standing' = {} /\ connected' = {}
  /\ UNCHANGED <<cancelled, downstreams, opener, req, extension, answer, run, store>>

TaskEnds   == standing = {} /\ connected = {} /\ DropRuntime("stopping", 0)
ServeFails == DropRuntime("serving", 2)

CloseDownstreams ==
  /\ phase = "dropping" /\ downstreams = "up"
  /\ downstreams' = "closed"
  /\ UNCHANGED <<phase, exit, cancelled, streams, pc, req, extension, answer, run, store>>

\* The runtime waits for the blocking threads before the process exits.
Exit ==
  /\ phase = "dropping" /\ downstreams = "closed"
  /\ \A r \in RequestIds : thread[r] \notin {"running", "calling"}
  /\ phase' = "exited"
  /\ UNCHANGED <<exit, cancelled, downstreams, streams, pc, req, extension, answer, run, store>>

-----------------------------------------------------------------------------
Handler(r) ==
  Read(r) \/ InvalidParams(r) \/ Check(r) \/ LintFails(r) \/ StartRun(r) \/ StoreTrace(r)

Next ==
  \/ \E s \in Sessions, token \in Presented : Initialize(s, token) \/ OpenStream(s, token)
  \/ \E r \in RequestIds, s \in Sessions, token \in Presented, body \in Reads \cup ToolCalls :
       require_bearer(r, s, token, body)
  \/ \E r \in RequestIds :
       Handler(r) \/ VmCalls(r) \/ CallReturns(r) \/ VmEnds(r) \/ ClientLeaves(r)
  \/ \E s \in Sessions : CloseStream(s)
  \/ CtrlC \/ StreamsEnd \/ TaskEnds \/ ServeFails \/ CloseDownstreams \/ Exit

\* rmcp, axum and tokio do their part of a stop; the VM runs, and gas bounds it.
\* No client has to leave and no downstream has to answer: a call returns for
\* certain only when its connection has been closed.
Fairness ==
  /\ WF_vars(StreamsEnd) /\ WF_vars(TaskEnds) /\ WF_vars(CloseDownstreams) /\ WF_vars(Exit)
  /\ \A r \in RequestIds :
       WF_vars(VmCalls(r) \/ VmEnds(r)) /\ WF_vars(downstreams = "closed" /\ CallReturns(r))

Spec == Init /\ [][Next]_vars /\ Fairness

-----------------------------------------------------------------------------
(* Properties *)

Owner(r) == principal_for(req[r].token)

\* Whoever opened the session and whoever else uses it, a request is described
\* the tools of the principal its own token names, is linted against them, and
\* its calls leave under that name; without such a principal nothing is done.
RequestsActForTheirOwnToken ==
  /\ \A call \in sent : call.principal = Owner(call.request)
  /\ \A r \in RequestIds : answer[r] # NONE =>
       /\ (Owner(r) = NONE) <=> (answer[r].kind = "unauthorized")
       /\ answer[r].kind = "tools" => answer[r].execute = Owner(r)
       /\ (answer[r].kind = "tool_result" /\ req[r].body.name = "check") =>
            (answer[r].is_error <=> req[r].body.program \notin Compiles[Owner(r)])

\* What a client can tell from the shape of an answer is true: structured content
\* means that the run's trace is stored, as an error exactly when the run failed;
\* a tool error without it, like a refusal, means that the program made no call;
\* an internal error may hide calls, but then no trace shows them.
AnswersTellWhatHappened ==
  \A r \in RequestIds : answer[r] # NONE =>
    LET calls  == {call \in sent : call.request = r}
        stored == {t \in traces : t.request = r}
    IN  CASE answer[r].kind = "tool_result" /\ answer[r].structured ->
               stored = {[request |-> r, status |-> IF answer[r].is_error THEN "error" ELSE "ok"]}
          [] answer[r] = rpc_error("internal_error") -> stored = {}
          [] OTHER -> calls = {} /\ stored = {} /\ thread[r] = "none"

\* A stop ends: however many sessions keep a stream open and whatever calls are
\* out at downstreams that never answer, the process exits.
StopEnds == (phase # "serving") ~> (phase = "exited")

\* "every run that starts produces a trace, whether it succeeds or fails, unless
\* the store cannot be written" (engine.rs:106-108), once the process was stopped
\* in order and has exited with 0.
EveryStartedRunLeavesATrace ==
  (phase = "exited" /\ exit = 0) =>
    \A r \in RequestIds : thread[r] # "none" =>
      r \in storeFailed \/ \E t \in traces : t.request = r
=============================================================================
