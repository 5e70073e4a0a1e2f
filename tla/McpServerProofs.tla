-------------------------- MODULE McpServerProofs ---------------------------
(***************************************************************************)
(* Theorems about McpServer.tla, for every set of principals, sessions,    *)
(* requests and programs, and whenever the process is told to stop.        *)
(***************************************************************************)
EXTENDS McpServer, TLAPS

-----------------------------------------------------------------------------
(* The inductive invariant *)

PcValues == {"idle", "handler", "awaiting", "answered", "dropped"}
ThreadValues == {"none", "running", "calling", "ok", "error"}

ServerTypes ==
  /\ pc \in [RequestIds -> PcValues]
  /\ thread \in [RequestIds -> ThreadValues]
  /\ req = [r \in RequestIds |-> req[r]]
  /\ extension = [r \in RequestIds |-> extension[r]]
  /\ answer = [r \in RequestIds |-> answer[r]]

\* A request that got past require_bearer carries the principal its token names;
\* one that did not has started nothing.
PrincipalInv ==
  \A r \in RequestIds :
    /\ pc[r] \in {"handler", "awaiting"} \/ thread[r] # "none" =>
         extension[r] = Owner(r) /\ Owner(r) # NONE
    /\ pc[r] \in {"idle", "handler"} => thread[r] = "none"
    /\ pc[r] = "awaiting" => thread[r] # "none" /\ req[r].body.name = "execute"

\* Calls are of runs that were started, under the principal of their request;
\* traces are of requests that have been answered.
HistoryInv ==
  /\ \A call \in sent :
       /\ call.request \in RequestIds /\ thread[call.request] # "none"
       /\ call.principal = Owner(call.request)
  /\ \A t \in traces : t.request \in RequestIds /\ pc[t.request] = "answered"

Structured(a) == a.kind = "tool_result" /\ a.structured

StoredFor(r) == {t \in traces : t.request = r}

\* What an answer says is so.
Tells(r) ==
  /\ (Owner(r) = NONE) <=> (answer[r].kind = "unauthorized")
  /\ answer[r].kind = "tools" => answer[r].execute = Owner(r)
  /\ (answer[r].kind = "tool_result" /\ req[r].body.name = "check") =>
       (answer[r].is_error <=> req[r].body.program \notin Compiles[Owner(r)])
  /\ Structured(answer[r]) =>
       StoredFor(r) =
         {[request |-> r, status |-> IF answer[r].is_error THEN "error" ELSE "ok"]}
  /\ answer[r] = store_error => StoredFor(r) = {}
  /\ ~Structured(answer[r]) /\ answer[r] # store_error =>
       thread[r] = "none" /\ StoredFor(r) = {}

AnswerInv == \A r \in RequestIds : answer[r] # NONE => pc[r] = "answered" /\ Tells(r)

ServerInv == ServerTypes /\ PrincipalInv /\ HistoryInv /\ AnswerInv

-----------------------------------------------------------------------------
LEMMA InitServerInv == Init => ServerInv
BY DEF Init, ServerInv, ServerTypes, PrincipalInv, HistoryInv, AnswerInv,
       PcValues, ThreadValues

\* Sessions, streams and the stop itself change nothing a request relies on.
LEMMA ServerInvFrame ==
  ASSUME ServerInv, UNCHANGED <<pc, req, extension, answer, thread, sent, traces>>
  PROVE  ServerInv'
BY DEF ServerInv, ServerTypes, PrincipalInv, HistoryInv, AnswerInv, Tells, Owner,
       StoredFor, Structured, store_error, rpc_error, principal_for

\* A handler that has started no run answers.
LEMMA Answers ==
  ASSUME ServerInv, NEW r \in RequestIds, NEW result,
         pc[r] = "handler", Respond(r, result), UNCHANGED <<server, run, store>>,
         result.kind # "unauthorized",
         result.kind = "tools" => result.execute = Owner(r),
         result.kind = "tool_result" /\ req[r].body.name = "check" =>
           (result.is_error <=> req[r].body.program \notin Compiles[Owner(r)]),
         ~Structured(result)
  PROVE  ServerInv'
<1>1. /\ answer' = [answer EXCEPT ![r] = result]
      /\ pc' = [pc EXCEPT ![r] = "answered"]
      /\ UNCHANGED <<req, extension, thread, sent, traces>>
  BY DEF Respond, run, store
<1>2. ServerTypes' /\ "answered" \in PcValues
  BY <1>1 DEF ServerInv, ServerTypes, PcValues
<1>3. \A q \in RequestIds : /\ pc'[q] = IF q = r THEN "answered" ELSE pc[q]
                            /\ answer'[q] = IF q = r THEN result ELSE answer[q]
  BY <1>1 DEF ServerInv, ServerTypes
<1>4. thread[r] = "none" /\ extension[r] = Owner(r) /\ Owner(r) # NONE
  BY DEF ServerInv, PrincipalInv
<1>5. \A q \in RequestIds : Owner(q)' = Owner(q) /\ StoredFor(q)' = StoredFor(q)
  BY <1>1 DEF Owner, StoredFor, principal_for
<1>6. PrincipalInv'
  BY <1>1, <1>3, <1>4, <1>5 DEF ServerInv, PrincipalInv
<1>7. HistoryInv'
  BY <1>1, <1>3, <1>5 DEF ServerInv, HistoryInv
<1>8. AnswerInv'
  <2>1. StoredFor(r) = {}
    BY DEF ServerInv, HistoryInv, StoredFor
  <2>2. Tells(r)'
    <3>1. answer'[r] = result /\ req' = req /\ thread' = thread
      BY <1>1, <1>3
    <3> QED
      BY <1>4, <1>5, <2>1, <3>1 DEF Tells, Structured, store_error, rpc_error
  <2>3. ASSUME NEW q \in RequestIds, q # r, answer'[q] # NONE
        PROVE  pc'[q] = "answered" /\ Tells(q)'
    <3>1. pc[q] = "answered" /\ Tells(q) /\ answer'[q] = answer[q] /\ pc'[q] = pc[q]
      BY <1>3, <2>3 DEF ServerInv, AnswerInv
    <3> QED
      BY <1>1, <1>5, <3>1 DEF Tells, Structured, store_error, rpc_error
  <2> QED
    BY <1>3, <2>2, <2>3 DEF AnswerInv
<1> QED
  BY <1>2, <1>6, <1>7, <1>8 DEF ServerInv

\* A request comes in, with the token of somebody or of nobody.
LEMMA Arrives ==
  ASSUME ServerInv, NEW r \in RequestIds, NEW s, NEW token, NEW body,
         require_bearer(r, s, token, body)
  PROVE  ServerInv'
<1> DEFINE request == [session |-> s, token |-> token, body |-> body]
           known == principal_for(token) # NONE
           ext == IF known THEN principal_for(token) ELSE extension[r]
           ans == IF known THEN answer[r] ELSE [kind |-> "unauthorized"]
           to == IF known THEN "handler" ELSE "answered"
<1>1. /\ pc[r] = "idle" /\ req' = [req EXCEPT ![r] = request]
      /\ extension' = [extension EXCEPT ![r] = ext]
      /\ answer' = [answer EXCEPT ![r] = ans]
      /\ pc' = [pc EXCEPT ![r] = to]
      /\ UNCHANGED <<thread, sent, traces>>
  BY DEF require_bearer, run, store, ServerInv, ServerTypes
<1>2. ServerTypes'
  <2>1. to \in PcValues
    BY DEF PcValues
  <2> HIDE DEF to, ext, ans, request, known
  <2> QED
    BY <1>1, <2>1 DEF ServerInv, ServerTypes
<1>3. \A q \in RequestIds : /\ pc'[q] = IF q = r THEN to ELSE pc[q]
                            /\ answer'[q] = IF q = r THEN ans ELSE answer[q]
                            /\ req'[q] = IF q = r THEN request ELSE req[q]
                            /\ extension'[q] = IF q = r THEN ext ELSE extension[q]
  <2> HIDE DEF to, ext, ans, request, known
  <2> QED
    BY <1>1 DEF ServerInv, ServerTypes
<1>4. /\ Owner(r)' = principal_for(token)
      /\ \A q \in RequestIds : q # r => Owner(q)' = Owner(q)
  <2>1. \A q \in RequestIds : Owner(q)' = principal_for(req'[q].token)
    BY DEF Owner, principal_for
  <2>2. req'[r].token = token /\ \A q \in RequestIds : q # r => req'[q] = req[q]
    BY <1>3
  <2> QED
    BY <2>1, <2>2 DEF Owner
<1>5. thread[r] = "none" /\ answer[r] = NONE /\ StoredFor(r) = {}
  BY <1>1 DEF ServerInv, PrincipalInv, AnswerInv, HistoryInv, StoredFor
<1>6. PrincipalInv'
  BY <1>1, <1>3, <1>4, <1>5 DEF ServerInv, PrincipalInv
<1>7. HistoryInv'
  BY <1>1, <1>3, <1>4, <1>5 DEF ServerInv, HistoryInv
<1>8. AnswerInv'
  <2>1. ASSUME answer'[r] # NONE PROVE pc'[r] = "answered" /\ Tells(r)'
    <3>1. ~known /\ answer'[r] = [kind |-> "unauthorized"] /\ pc'[r] = "answered"
      BY <1>3, <1>5, <2>1
    <3>2. Owner(r)' = NONE /\ StoredFor(r)' = {} /\ thread'[r] = "none"
      BY <1>1, <1>4, <1>5, <3>1 DEF StoredFor
    <3> QED
      BY <3>1, <3>2 DEF Tells, Structured, store_error, rpc_error
  <2>2. ASSUME NEW q \in RequestIds, q # r, answer'[q] # NONE
        PROVE  pc'[q] = "answered" /\ Tells(q)'
    <3>1. /\ pc[q] = "answered" /\ Tells(q) /\ answer'[q] = answer[q] /\ pc'[q] = pc[q]
          /\ req'[q] = req[q] /\ StoredFor(q)' = StoredFor(q)
      BY <1>1, <1>3, <2>2 DEF ServerInv, AnswerInv, StoredFor
    <3> QED
      BY <1>1, <1>4, <2>2, <3>1 DEF Tells, Structured, store_error, rpc_error
  <2> QED
    BY <2>1, <2>2 DEF AnswerInv
<1> QED
  BY <1>2, <1>6, <1>7, <1>8 DEF ServerInv

\* The thread of a run moves on; its handler and its answer do not.
LEMMA ThreadMoves ==
  ASSUME ServerInv, NEW r \in RequestIds, NEW to \in ThreadValues \ {"none"},
         thread[r] # "none", thread' = [thread EXCEPT ![r] = to],
         UNCHANGED <<pc, req, extension, answer, traces>>,
         sent' = sent \/ \E n : sent' = sent \cup
                           {[request |-> r, principal |-> principal(r), n |-> n]}
  PROVE  ServerInv'
<1>1. ServerTypes'
  BY DEF ServerInv, ServerTypes, ThreadValues
<1>2. \A q \in RequestIds : thread'[q] = IF q = r THEN to ELSE thread[q]
  BY DEF ServerInv, ServerTypes
<1>3. \A q \in RequestIds : Owner(q)' = Owner(q) /\ StoredFor(q)' = StoredFor(q)
  BY DEF Owner, StoredFor, principal_for
<1>4. extension[r] = Owner(r)
  BY DEF ServerInv, PrincipalInv
<1>5. PrincipalInv'
  BY <1>2, <1>3 DEF ServerInv, PrincipalInv
<1>6. HistoryInv'
  <2>1. ASSUME NEW call \in sent'
        PROVE  /\ call.request \in RequestIds /\ thread'[call.request] # "none"
               /\ call.principal = Owner(call.request)
    <3>1. CASE call \in sent
      BY <1>2, <3>1 DEF ServerInv, HistoryInv
    <3>2. CASE call.request = r /\ call.principal = extension[r]
      BY <1>2, <1>4, <3>2
    <3> QED
      BY <3>1, <3>2 DEF principal
  <2> QED
    BY <1>3, <2>1 DEF ServerInv, HistoryInv
<1>7. AnswerInv'
  <2> SUFFICES ASSUME NEW q \in RequestIds, answer[q] # NONE PROVE pc[q] = "answered" /\ Tells(q)'
    BY DEF AnswerInv
  <2>1. pc[q] = "answered" /\ Tells(q)
    BY DEF ServerInv, AnswerInv
  <2> QED
    BY <1>2, <1>3, <2>1 DEF Tells, Structured, store_error, rpc_error
<1> QED
  BY <1>1, <1>5, <1>6, <1>7 DEF ServerInv

\* A handler that runs on starts a thread and awaits it.
LEMMA Starts ==
  ASSUME ServerInv, NEW r \in RequestIds, pc[r] = "handler", req[r].body.name = "execute",
         thread' = [thread EXCEPT ![r] = "running"], pc' = [pc EXCEPT ![r] = "awaiting"],
         UNCHANGED <<req, extension, answer, sent, traces>>
  PROVE  ServerInv'
<1>1. ServerTypes'
  BY DEF ServerInv, ServerTypes, ThreadValues, PcValues
<1>2. \A q \in RequestIds : /\ thread'[q] = IF q = r THEN "running" ELSE thread[q]
                            /\ pc'[q] = IF q = r THEN "awaiting" ELSE pc[q]
  BY DEF ServerInv, ServerTypes
<1>3. \A q \in RequestIds : Owner(q)' = Owner(q) /\ StoredFor(q)' = StoredFor(q)
  BY DEF Owner, StoredFor, principal_for
<1>4. PrincipalInv'
  BY <1>2, <1>3 DEF ServerInv, PrincipalInv
<1>5. HistoryInv'
  BY <1>2, <1>3 DEF ServerInv, HistoryInv
<1>6. AnswerInv'
  <2> SUFFICES ASSUME NEW q \in RequestIds, answer[q] # NONE PROVE pc'[q] = "answered" /\ Tells(q)'
    BY DEF AnswerInv
  <2>1. pc[q] = "answered" /\ Tells(q) /\ q # r
    BY DEF ServerInv, AnswerInv
  <2> QED
    BY <1>2, <1>3, <2>1 DEF Tells, Structured, store_error, rpc_error
<1> QED
  BY <1>1, <1>4, <1>5, <1>6 DEF ServerInv

\* A handler that awaited its run stores the trace and answers, or the store
\* fails.
LEMMA Stores ==
  ASSUME ServerInv, NEW r \in RequestIds, pc[r] = "awaiting", thread[r] \in {"ok", "error"},
         NEW result, Respond(r, result), UNCHANGED run,
         \/ /\ traces' = traces \cup {[request |-> r, status |-> thread[r]]}
            /\ result = tool_result(thread[r] = "error", TRUE)
         \/ traces' = traces /\ result = store_error
  PROVE  ServerInv'
<1>1. /\ answer' = [answer EXCEPT ![r] = result]
      /\ pc' = [pc EXCEPT ![r] = "answered"]
      /\ UNCHANGED <<req, extension, thread, sent>>
  BY DEF Respond, run
<1>2. ServerTypes'
  BY <1>1 DEF ServerInv, ServerTypes, PcValues
<1>3. \A q \in RequestIds : /\ pc'[q] = IF q = r THEN "answered" ELSE pc[q]
                            /\ answer'[q] = IF q = r THEN result ELSE answer[q]
  BY <1>1 DEF ServerInv, ServerTypes
<1>4. \A q \in RequestIds : /\ Owner(q)' = Owner(q)
                            /\ q # r => StoredFor(q)' = StoredFor(q)
  <2>1. \A q \in RequestIds : Owner(q)' = Owner(q)
    BY <1>1 DEF Owner, principal_for
  <2>2. ASSUME NEW q \in RequestIds, q # r PROVE StoredFor(q)' = StoredFor(q)
    <3>1. CASE traces' = traces
      BY <3>1 DEF StoredFor
    <3>2. CASE traces' = traces \cup {[request |-> r, status |-> thread[r]]}
      BY <2>2, <3>2 DEF StoredFor
    <3> QED
      BY <3>1, <3>2
  <2> QED
    BY <2>1, <2>2
<1>5. PrincipalInv'
  BY <1>1, <1>3, <1>4 DEF ServerInv, PrincipalInv
<1>6. HistoryInv'
  <2>1. ASSUME NEW t \in traces' PROVE t.request \in RequestIds /\ pc'[t.request] = "answered"
    <3>1. CASE t \in traces
      BY <1>3, <3>1 DEF ServerInv, HistoryInv
    <3>2. CASE t = [request |-> r, status |-> thread[r]]
      BY <1>3, <3>2
    <3>3. t \in traces \/ t = [request |-> r, status |-> thread[r]]
      BY <2>1
    <3> QED
      BY <3>1, <3>2, <3>3
  <2> QED
    BY <1>1, <1>4, <2>1 DEF ServerInv, HistoryInv
<1>7. Owner(r) # NONE /\ StoredFor(r) = {} /\ req[r].body.name # "check"
  BY DEF ServerInv, PrincipalInv, HistoryInv, StoredFor
<1>8. Tells(r)'
  <2>1. /\ answer'[r] = result /\ req' = req /\ Owner(r)' # NONE
        /\ req[r].body.name # "check"
    BY <1>1, <1>3, <1>4, <1>7
  <2>2. CASE result = store_error /\ traces' = traces
    <3>1. StoredFor(r)' = {}
      BY <1>7, <2>2 DEF StoredFor
    <3> QED
      BY <2>1, <2>2, <3>1 DEF Tells, Structured, store_error, rpc_error
  <2>3. CASE /\ traces' = traces \cup {[request |-> r, status |-> thread[r]]}
             /\ result = tool_result(thread[r] = "error", TRUE)
    <3>1. StoredFor(r)' = {[request |-> r, status |-> thread[r]]}
      BY <1>7, <2>3 DEF StoredFor
    <3>2. /\ result.kind = "tool_result" /\ result.structured = TRUE
          /\ result.is_error = (thread[r] = "error")
      BY <2>3 DEF tool_result
    <3>3. thread[r] = IF result.is_error THEN "error" ELSE "ok"
      BY <3>2
    <3>4. Structured(answer[r])' /\ answer'[r] # store_error
      BY <2>1, <3>2 DEF Structured, store_error, rpc_error
    <3> QED
      BY <2>1, <3>1, <3>2, <3>3, <3>4 DEF Tells, store_error, rpc_error
  <2> QED
    BY <2>2, <2>3
<1>9. AnswerInv'
  <2>1. ASSUME NEW q \in RequestIds, q # r, answer'[q] # NONE
        PROVE  pc'[q] = "answered" /\ Tells(q)'
    <3>1. pc[q] = "answered" /\ Tells(q) /\ answer'[q] = answer[q] /\ pc'[q] = pc[q]
      BY <1>3, <2>1 DEF ServerInv, AnswerInv
    <3> QED
      BY <1>1, <1>4, <2>1, <3>1 DEF Tells, Structured, store_error, rpc_error
  <2> QED
    BY <1>3, <1>8, <2>1 DEF AnswerInv
<1> QED
  BY <1>2, <1>5, <1>6, <1>9 DEF ServerInv

\* The runtime is dropped, and every handler with it: nothing was answered, and
\* the threads go on.
LEMMA Drops ==
  ASSUME ServerInv, UNCHANGED <<req, extension, answer, thread, sent, traces>>,
         pc' = [r \in RequestIds |->
                  IF pc[r] \in {"handler", "awaiting"} THEN "dropped" ELSE pc[r]]
  PROVE  ServerInv'
<1>1. ServerTypes'
  BY DEF ServerInv, ServerTypes, PcValues
<1>2. \A q \in RequestIds : Owner(q)' = Owner(q) /\ StoredFor(q)' = StoredFor(q)
  BY DEF Owner, StoredFor, principal_for
<1>3. PrincipalInv'
  BY <1>2 DEF ServerInv, PrincipalInv
<1>4. HistoryInv'
  BY <1>2 DEF ServerInv, HistoryInv
<1>5. AnswerInv'
  <2> SUFFICES ASSUME NEW q \in RequestIds, answer[q] # NONE PROVE pc'[q] = "answered" /\ Tells(q)'
    BY DEF AnswerInv
  <2>1. pc[q] = "answered" /\ Tells(q)
    BY DEF ServerInv, AnswerInv
  <2> QED
    BY <1>2, <2>1 DEF Tells, Structured, store_error, rpc_error
<1> QED
  BY <1>1, <1>3, <1>4, <1>5 DEF ServerInv

LEMMA HandlerServerInv ==
  ASSUME ServerInv, NEW r \in RequestIds, Handler(r)
  PROVE  ServerInv'
<1>0. pc[r] \in {"handler", "awaiting"} => extension[r] = Owner(r) /\ Owner(r) # NONE
  BY DEF ServerInv, PrincipalInv
<1>1. CASE Read(r)
  <2>1. pc[r] = "handler" /\ req[r].body \in Reads /\ Respond(r, ReadResult(r))
        /\ UNCHANGED <<server, run, store>>
    BY <1>1 DEF Read, Runs
  <2>2. req[r].body.method \in {"tools/list", "resources/list", "prompts/list",
                                "resources/read", "prompts/get"}
    BY <2>1 DEF Reads
  <2>3. /\ ReadResult(r).kind \in {"tools", "list", "guide", "rpc_error"}
        /\ ReadResult(r).kind = "tools" => ReadResult(r).execute = extension[r]
    BY <2>2 DEF ReadResult, list_tools, rpc_error, principal
  <2> QED
    BY <1>0, <2>1, <2>3, Answers DEF Structured
<1>2. CASE InvalidParams(r)
  <2>1. pc[r] = "handler" /\ Respond(r, rpc_error("invalid_params"))
        /\ UNCHANGED <<server, run, store>>
    BY <1>2 DEF InvalidParams, Calling, Runs
  <2>2. rpc_error("invalid_params").kind = "rpc_error"
    BY DEF rpc_error
  <2> QED
    BY <2>1, <2>2, Answers DEF Structured
<1>3. CASE Check(r)
  <2>1. pc[r] = "handler" /\ Respond(r, tool_result(~Lints(r), FALSE))
        /\ UNCHANGED <<server, run, store>>
    BY <1>3 DEF Check, Calling, Runs
  <2>2. /\ tool_result(~Lints(r), FALSE).kind = "tool_result"
        /\ tool_result(~Lints(r), FALSE).structured = FALSE
        /\ tool_result(~Lints(r), FALSE).is_error <=> req[r].body.program \notin Compiles[Owner(r)]
    BY <1>0, <2>1 DEF tool_result, Lints, principal
  <2> QED
    BY <2>1, <2>2, Answers DEF Structured
<1>4. CASE LintFails(r)
  <2>1. pc[r] = "handler" /\ Respond(r, tool_result(TRUE, FALSE)) /\ req[r].body.name = "execute"
        /\ UNCHANGED <<server, run, store>>
    BY <1>4 DEF LintFails, Calling, Runs
  <2>2. tool_result(TRUE, FALSE).kind = "tool_result" /\ tool_result(TRUE, FALSE).structured = FALSE
    BY DEF tool_result
  <2> QED
    BY <2>1, <2>2, Answers DEF Structured
<1>5. CASE StartRun(r)
  <2>1. pc[r] = "handler" /\ req[r].body.name = "execute"
        /\ UNCHANGED <<server, made, sent, traces, storeFailed>>
    BY <1>5 DEF StartRun, Calling, Runs, store
  <2>2. CASE thread' = [thread EXCEPT ![r] = "running"] /\ pc' = [pc EXCEPT ![r] = "awaiting"]
             /\ UNCHANGED <<req, extension, answer>>
    BY <2>1, <2>2, Starts
  <2>3. CASE Respond(r, store_error) /\ UNCHANGED thread
    <3>1. store_error.kind = "rpc_error"
      BY DEF store_error, rpc_error
    <3> QED
      BY <2>1, <2>3, <3>1, Answers DEF Structured, run, store
  <2> QED
    BY <1>5, <2>2, <2>3 DEF StartRun
<1>6. CASE StoreTrace(r)
  <2>1. pc[r] = "awaiting" /\ thread[r] \in {"ok", "error"} /\ UNCHANGED run
    BY <1>6 DEF StoreTrace, Runs
  <2>2. CASE /\ traces' = traces \cup {[request |-> r, status |-> thread[r]]}
             /\ Respond(r, tool_result(thread[r] = "error", TRUE))
    BY <2>1, <2>2, Stores
  <2>3. CASE Respond(r, store_error) /\ UNCHANGED traces
    BY <2>1, <2>3, Stores
  <2> QED
    BY <1>6, <2>2, <2>3 DEF StoreTrace
<1> QED
  BY <1>1, <1>2, <1>3, <1>4, <1>5, <1>6 DEF Handler

LEMMA StepServerInv == ServerInv /\ [Next]_vars => ServerInv'
<1> SUFFICES ASSUME ServerInv, [Next]_vars PROVE ServerInv'
  OBVIOUS
<1>1. CASE UNCHANGED vars
  BY <1>1, ServerInvFrame DEF vars, run, store
<1>2. ASSUME NEW s \in Sessions, NEW token \in Presented,
             Initialize(s, token) \/ OpenStream(s, token)
      PROVE  ServerInv'
  BY <1>2, ServerInvFrame DEF Initialize, OpenStream, run, store
<1>3. ASSUME NEW r \in RequestIds, VmCalls(r) PROVE ServerInv'
  <2>1. /\ thread[r] = "running" /\ UNCHANGED <<pc, req, extension, answer, traces>>
        /\ thread' \in {thread, [thread EXCEPT ![r] = "calling"]}
        /\ \/ sent' = sent
           \/ sent' = sent \cup {[request |-> r, principal |-> principal(r), n |-> made'[r]]}
    BY <1>3 DEF VmCalls, store
  <2>2. PICK to \in {"running", "calling"} : thread' = [thread EXCEPT ![r] = to]
    <3>1. thread = [thread EXCEPT ![r] = "running"]
      BY <2>1 DEF ServerInv, ServerTypes
    <3> QED
      BY <2>1, <3>1
  <2> QED
    BY <2>1, <2>2, ThreadMoves DEF ThreadValues
<1>4. ASSUME NEW r \in RequestIds, CallReturns(r) \/ VmEnds(r) PROVE ServerInv'
  <2>1. /\ thread[r] # "none" /\ UNCHANGED <<pc, req, extension, answer, traces, sent>>
        /\ \E to \in ThreadValues \ {"none"} : thread' = [thread EXCEPT ![r] = to]
    BY <1>4 DEF CallReturns, VmEnds, store, ThreadValues
  <2> QED
    BY <2>1, ThreadMoves
<1>5. ASSUME NEW r \in RequestIds, ClientLeaves(r) PROVE ServerInv'
  BY <1>5, ServerInvFrame DEF ClientLeaves, run, store
<1>6. ASSUME NEW s \in Sessions, CloseStream(s) PROVE ServerInv'
  BY <1>6, ServerInvFrame DEF CloseStream, run, store
<1>7. CASE CtrlC \/ StreamsEnd \/ CloseDownstreams \/ Exit
  BY <1>7, ServerInvFrame DEF CtrlC, StreamsEnd, CloseDownstreams, Exit, run, store
<1>8. CASE TaskEnds \/ ServeFails
  BY <1>8, Drops DEF TaskEnds, ServeFails, DropRuntime, run, store
<1> QED
  BY <1>1, <1>2, <1>3, <1>4, <1>5, <1>6, <1>7, <1>8, Arrives, HandlerServerInv DEF Next

LEMMA ServerInvariant == Spec => []ServerInv
BY InitServerInv, StepServerInv, PTL DEF Spec

-----------------------------------------------------------------------------
(* The theorems *)

\* Every request acts as the principal its own token names, whoever opened the
\* session it comes in on: its calls, its tool list and its lint.
THEOREM TokensDecide == Spec => []RequestsActForTheirOwnToken
<1>1. ServerInv => RequestsActForTheirOwnToken
  BY DEF ServerInv, HistoryInv, AnswerInv, Tells, RequestsActForTheirOwnToken
<1> QED
  BY <1>1, ServerInvariant, PTL

\* A structured answer has its trace in the store; an answer without structure,
\* unless it is the store's error, is of a request that made no call and started
\* no run.
THEOREM AnswersAreTrue == Spec => []AnswersTellWhatHappened
<1>1. ServerInv => AnswersTellWhatHappened
  <2> SUFFICES ASSUME ServerInv, NEW r \in RequestIds, answer[r] # NONE
               PROVE  LET calls  == {call \in sent : call.request = r}
                          stored == {t \in traces : t.request = r}
                      IN  CASE answer[r].kind = "tool_result" /\ answer[r].structured ->
                                 stored = {[request |-> r,
                                            status |-> IF answer[r].is_error THEN "error" ELSE "ok"]}
                            [] answer[r] = rpc_error("internal_error") -> stored = {}
                            [] OTHER -> calls = {} /\ stored = {} /\ thread[r] = "none"
    BY DEF AnswersTellWhatHappened
  <2>1. Tells(r)
    BY DEF ServerInv, AnswerInv
  <2>2. thread[r] = "none" => {call \in sent : call.request = r} = {}
    BY DEF ServerInv, HistoryInv
  <2>3. rpc_error("internal_error").kind # "tool_result"
    BY DEF rpc_error
  <2>4. CASE Structured(answer[r])
    BY <2>1, <2>3, <2>4 DEF Tells, Structured, StoredFor, store_error
  <2>5. CASE answer[r] = rpc_error("internal_error")
    BY <2>1, <2>3, <2>5 DEF Tells, Structured, StoredFor, store_error
  <2>6. CASE ~Structured(answer[r]) /\ answer[r] # rpc_error("internal_error")
    BY <2>1, <2>2, <2>6 DEF Tells, Structured, StoredFor, store_error
  <2> QED
    BY <2>4, <2>5, <2>6
<1> QED
  BY <1>1, ServerInvariant, PTL
=============================================================================
