# TLA+ specifications of proveno-gateway

proveno-gateway runs Lua programs for agents. Every tool call a program makes is
checked against rules, sent to a downstream MCP server, and recorded in a signed
trace that can be replayed offline. This directory holds TLA+ models of that
path, TLC configurations that check them on small instances, and TLAPS proofs of
what should hold for every instance. Source paths below are relative to the
repository's root.

## Inventory

| Component | State | Operations | What makes it correct |
|---|---|---|---|
| Policy (`src/policy.rs`) | rules, fixed after start | `allowed_tools`, `check` | a call passes exactly when its tool is listed and its bounded arguments are integers up to the bound |
| Host (`src/host.rs`, `src/schema.rs`, `src/values.rs`) | per run: log, pending attestation | `call_tool`, `take_attestation`, `accept` | refused calls are not sent; the log lines up with core's transcript; a blob goes to the call it attests |
| Downstreams (`src/downstream.rs`) | connections, discovered tools | `connect`, `call` | a failed, erroneous or wrongly attested reply is an error, never a value |
| Engine (`src/engine.rs`) | none of its own; drives host, VM and store | `execute`, `check` | every run that starts ends in a trace of exactly its calls, or in an error that says so |
| Store (`src/store.rs`) | files: programs, descriptions, traces | `put_*`, `get_*` | no partial file is seen; what was acknowledged stays |
| Server (`src/server.rs`) | token digests; rmcp's sessions and streams | `require_bearer`, `execute`, `check`, lists and the guide, `shutdown` | a request acts for the principal of its token; the kinds of answer mean what they say; a stop ends |
| Trace, replay (`src/trace.rs`, `src/replay.rs`) | none | `sign`, `verify`, `replay` | an unaltered trace replays, an altered one does not |
| Description, dialect (`src/description.rs`, `src/dialect.rs`) | none | `build`, `compile_program` | one set of tools has one text; signatures agree with what is enforced; stored source compiles to the recorded hash |
| Start-up (`src/config.rs`, `src/main.rs`) | configuration | `load`, `Tokens::resolve`, `Engine::new` | two principals never share a token; a name leads to one tool; secrets stay apart; preludes compile |
| Demo agent (`demo/agent/.../agent.py`) | stop reason, counters, lock, runs | `ExecuteGuard`, `run` | a run that may have had effects is never repeated; the agent ends |
| Demo wallet, market (`demo/wallet`, `demo/market`) | an Ethereum account; none | `get_balance`, `transfer`; prices | what is attested is on the chain in the block named; a failed transfer has spent at most once |
| Demo client, scripts, conformance harness | none | test drivers | not modelled |

How they interact: the server authenticates and calls `Engine::execute`; the
engine compiles, puts the program and the description in the store, and runs the
VM on a blocking thread; the VM calls the host for each tool call and the host
blocks on a downstream; after the run the engine zips the transcript with the
host's log, signs the trace, puts it in the store and answers. Requests run
concurrently and share the store only. Start-up hands tokens, rules, connections
and tools to all of them, and they never change afterwards. `replay` is a command
of its own that meets the others only through the files of the store.

What is hard to test here is listed, line by line, under `hazards` in
`PROJECT.json`: two parties building one list by position, blobs handed over
through a field, puts that read and rename in separate steps, a process that
dies between a call and its trace, a stop that tears the two halves of a run
apart, files altered between a run and its replay, blocks mined between two
requests to a node, an agent whose reply holds several `execute` calls at once.

## Modules

| Module | Models |
|---|---|
| `Policy` | `Policy::allowed_tools` and `Policy::check` on constant rules |
| `Host` | the decision on a call, and what becomes of a reply, as operators |
| `Gateway` | concurrent requests: authentication, `Engine::execute`, host, store, crashes; extends `Host` |
| `AuditLog` | abstract: a request makes permitted calls in order and publishes exactly them, once |
| `TraceStore` | the store, one action per file-system call |
| `PutStore` | abstract: a put looks, then replaces its file in one step or fails |
| `AgentGuard` | the demo agent's stop rules |
| `Description` | the description, the prelude, `compile_program`, and the two conversions the text makes promises about, as operators |
| `Startup` | `serve` and `check` up to serving or the exit code; extends `Description` |
| `McpServer` | sessions, handlers, answers, clients that leave, and stopping |
| `Replay` | a run that leaves a signed trace, what may happen to the files and the configuration, and `replay` |
| `Wallet` | the demo wallet in front of a node |
| `MCGateway`, `MCTraceStore`, `MCStartup`, `MCServer`, `MCReplay` | constants for the runs |
| `GatewayProofs`, `AuditProofs` | theorems about `Gateway`; the second extends the first and adds the traces, the answers and the refinement of `AuditLog` |
| `TraceStoreProofs`, `AgentGuardProofs`, `StartupProofs`, `McpServerProofs`, `ReplayProofs`, `WalletProofs` | theorems about the module of that name |

### Gateway

`pc[r]` says where request `r` is. The path of `Engine::execute` is

    idle -> read_program -> write_program -> read_description -> write_description
         -> vm -> (waiting -> returned -> vm)* -> store_trace -> answer -> done

with short cuts where a file exists, and exits to `done` with an answer:
`unauthorized` (401), `lint_error`, `store_error`, `panicked` (the assertion of
engine.rs:170 failed), `lost` (the process died) or `run`.

| Action | Code |
|---|---|
| `TurnAway`, `LintFails`, `Begin` | `require_bearer`; `compile_program` fails; it succeeds |
| `ReadProgram`, `WriteProgram` | `put_program`, read and write apart; a conflict is accepted (engine.rs:127-130) |
| `ReadDescription`, `WriteDescription` | `put_description` |
| `StoreFails` | any store error, answered as a JSON-RPC error |
| `Refuse`, `Dispatch`, `Reply` | the three parts of `call_tool` |
| `CoreRecords` | core appends to the transcript and takes the attestation (external) |
| `Finish` | the VM ends, `output_json`, `error_status`, the assertion |
| `StoreTrace`, `Answer` | `put_trace`; the response |
| `Die` | the process dies or is stopped |

The variables `sent` and `attested` are history: what really left the gateway,
and which replies really were good and attested. Properties compare the trace
with them, not with the log it was built from.

What is abstracted: a hash is what it hashes (SHA-256 taken to be injective);
the trace of request `r` has id `r` (UUIDv7 taken to be unique); signatures are
ideal; a program text is a value of `Programs`, compiled by `Code` and run by
`VmNext`, a function of the bytecode and of the responses so far, which is
core's promise of determinism. In particular a value the program can see does
not depend on line numbers, which are not in the bytecode. Core is taken to
record every tool call that returned an error and every one whose response it
can canonicalise, as host.rs:147-150 says.

### TraceStore

One action per system call of a put: `Look` (`exists` or `read`), `Create`
(`create_new` on the next temp name), `Write` (`write_all`, `sync_all`), `Rename`.
`DiskFails` fails the next call of a put, and the clean-up with it or not.
`Restart` ends the process, keeps all files, and starts the counter at 0.
`ReusePids` chooses whether the new process may have an old id.
`PutStore` is what `Gateway` assumes of a put; the run `store` shows that the
file-level store implements it.

### AgentGuard

A reply's tool calls are open at once; `execute` calls take the lock one at a
time (`SendExecute` holds it until the gateway answers). The gateway's result is
any combination of what `classify` looks at, so nothing relies on the gateway
behaving. `GatewayIsLost` is an exception other than `McpError`: it leaves the
tool node, while other calls of the reply are still open. Calls are told apart by
their place in the reply where the code compares their ids (agent.py:297-299), so
ids are taken to be unique in a reply. A stopped agent sends no `execute`; a
`check` that is still open passes all the same (agent.py:217).

### Startup and Description

`stage` is the step that is next. The input of a process (files, environment,
command line) is chosen once; downstreams, store and socket succeed or fail at
their step.

    (program ->) config -> tokens (serve only) -> policy -> connect* -> store -> key
         -> names -> bind -> serving   or   check -> exited

| Action | Code |
|---|---|
| `LoadConfig` | `config::load` with serde's rejections, the transports and the name checks of `parse` |
| `ResolveTokens` | `Tokens::resolve` |
| `LoadPolicy` | `Policy::load` |
| `Connect`, `Connected` | one turn of `Downstreams::connect`, and its sort |
| `OpenStore`, `ReadKey`, `CheckNames` | the rest of `Engine::new`, in its order |
| `Bind`, `CheckProgram` | what `serve` and `check` do with the engine |

A name is the sequence of its parts between dots, so that putting together and
splitting a qualified name is modelled by what it does. A prelude is its lines;
a program is the line its fault is in, so `compile_program` is modelled with its
offset and its panic. The text of a tool is the record of what its two lines say.
Sorting is `InOrder` (the k-th element is the one with k-1 before it) and the
stable `ByKey`, both defined without recursion, so that TLC computes what the
proofs reason about. What a downstream lists satisfies `IsListing`: no tool twice,
and every schema names the properties that it requires. The gateway checks
neither, and JSON Schema and the downstreams' own promises are not the
gateway's; the same goes for an integer argument beyond i64.

A schema is the types of its properties, what it requires, and whether a
validator can be built from it (`builds`); the other keywords are one verdict on
the arguments (`fits`), which the properties quantify over. A JSON number is an
i64, a whole number that is none (beyond the range, or written with an exponent),
or has a fraction; JSON Schema takes the first two for an integer, and `to_lua`
makes text of the last two. `RejectedFields` are the names that core's parser
rejects also after a dot. dialect.rs:38-40 lists the identifiers it rejects and does
not say where, the one test of a tool named like a builtin has `type`
(engine.rs:442), and the parser is not in the repository: the proofs take any
subset of the list, the run `startup` all of it, and `startup_check` none, so that
what it finds does not rest on this.

### McpServer

`Handler` steps run while the runtime is up; `VmCalls`, `CallReturns` and `VmEnds`
are the run's blocking thread, which goes on without it. `phase` follows a stop:

    serving -CtrlC-> stopping -TaskEnds-> dropping -Exit-> exited
    serving -------------ServeFails-----> dropping

`CtrlC` cancels the token, `StreamsEnd` is rmcp ending its streams because its
service has the same token, `TaskEnds` is axum's drained task and the drop of the
runtime with every handler in it, `CloseDownstreams` the connections going with
it, and `Exit` comes after the last thread. `execute` is coarse: which calls are
permitted and what the trace holds is `Gateway`'s question. A session's `opener`
is history, since rmcp ties no session to a principal. What rmcp, axum and tokio
do is external and taken from how `start`, `serve` and `main` use them.

### Replay

One run at a time is recorded (`StartRun`, `RecordCall`, `EndRun`); around it the
operator rotates the key or changes the limits (`Reconfigure`), a concurrent put
replaces the program's text by another of the same hash (`OtherTextWins`), and
somebody alters a file (`AlterTrace`, `AlterProgram`). `StartReplay`, `ReadTrace`,
`ReadProgram`, `TapeCall` and `Compare` are `replay`, in the order of its early
returns. A program is a graph of nodes that call or end; gas is counted per
call, memory by the size of what was returned. The tape is strict, as replay
asks core for it. The policy hash, the description hash and the other header
fields that `replay` does not read are left out.

### Wallet

One action per request to the node: the arguments, the chain id, then the latest
block and the balance by that block's hash, or the transaction and its receipt.
Every request may fail; sending may fail after the node took the transaction.
The node mines a transaction, mines it without effect, mines somebody's payment,
or drops a transaction. Blocks are final.

## Runs

| Run | Question | Bounds |
|---|---|---|
| `gateway_deep` | do decisions, log, transcript, trace and answer agree on one request? | all programs of up to 2 of 10 calls (one per way to fail a check, and the passing ones), with and without `pcall`, three endings, some programs of 3 calls; every reply; one crash |
| `gateway_race` | do concurrent requests disturb each other? is everything answered? does it implement `AuditLog`? | 2 requests, 4 texts (two with the same bytecode), 4 tokens, one crash |
| `store` | is the store atomic under races, errors and a restart? | 3 puts of 2 texts under one key, 1 trace, 1 restart |
| `store_pid_reuse` | does that survive a reused process id? No: see below | 2 traces, 1 restart |
| `store_race` | is different content under a key an error? No: see below | as `store` |
| `agent_guard` | can the agent repeat a failed run, or go on for ever? | 3 calls per reply, 2 runs, 2 lint errors, 5 model calls |
| `startup` | is what is served well formed? | some 300 inputs: shapes, names and credentials of up to 2 downstreams, tokens, keys, rules, programs; every listing of `MCStartup`, one with a tool named `os` whose schema does not build; a failure at every step |
| `startup_check` | does `check` always end in a verdict? No: see below | as `startup` |
| `server` | do requests of several principals in one session stay apart, do answers tell the truth, does a stop end? | 2 requests, 1 session, 3 tokens (one nobody's), 3 programs of up to 2 calls, every method |
| `server_stop` | does every started run leave a trace? No: see below | as `server` |
| `replay` | does a replay match exactly when it should, and end? | 1 trace, 3 programs (two that differ only on other responses, one that loops), 2 texts, 2 keys, 2 limits, 1 alteration |
| `wallet` | is what the wallet attests on the chain? can a failed call spend twice? | 2 calls, 2 accounts, 4 blocks, i64 up to 2, 2 wei to the milli-ETH |

Why these bounds are enough to meet the cases: a shift between log and transcript
needs two calls, the first of which fails or is left out; a stale blob needs an
attested call followed by another; the race on a program file needs two requests
with different texts of the same bytecode; a temp name clashes with two puts, or
with one put before and one after a restart; an `execute` that jumps its turn
needs two in a reply; a request that acts for the wrong principal needs a session
opened by another; a run torn apart by a stop needs one run; a program swapped
unnoticed needs two programs that behave alike on the recorded responses; a
balance of the wrong block needs one block mined between two requests; a balance
beyond i64 and one that is not a whole milli-ETH occur with 3 wei more a block. The rules have a principal who may do something, one whose
only tool no downstream has, one the rules do not know, and a token nobody has;
i64 is -4..3, so that an argument can lie beyond it.

Deadlock is checked by `startup`, which stops only where it serves or has exited.
Elsewhere it is not: requests, puts, replays, tool calls and the agent's task end,
and then nothing is left to do.

### Fairness

`EveryRequestIsAnswered` assumes weak fairness of each request's own steps: the
runtime schedules it, and the downstream answers or its request fails.
`call_tool` has no timeout (host.rs:117), so without the second nothing can be
promised; the program itself ends because the VM has a gas limit. `AgentEnds`
assumes that the model and the gateway answer or fail and that asyncio runs
every task. `StopEnds` assumes that rmcp ends its streams once its token is
cancelled, that axum's task ends when nothing is open, that dropping the runtime
closes the connections, and that the VM runs; it does not assume that clients
leave or that downstreams answer. `ReplayEnds` assumes that the command runs; it
waits for nobody. `CallsAreAnswered` assumes that the node answers what it can
answer, which leaves out the receipt of a transaction that is not mined.

### Findings

- `store_race`: the comment at store.rs:97 says that different content under a
  key is an error, and engine.rs:124-126 that the stored source is kept. Two
  concurrent puts that both find no file both return Ok, and the later rename
  replaces the first text. `gateway_race` shows it is harmless to replay:
  both texts compile to the same hash and only the kind of a status is compared.
- `store_pid_reuse`: temp names are made of the process id and a counter from
  0, and temp files of a dead process stay. A gateway restarted under the same
  id (as in a container) fails a put on a healthy disk, after the run's calls
  were made if it is `put_trace`. engine.rs:106-108 promises a trace "unless the
  store cannot be written".
- `startup_check`: `Engine::new` checks the Lua names for the principals of the
  configuration only (engine.rs:89), and `check --principal` takes any principal
  of the rules. For one without a token, a downstream named like a keyword makes
  `compile_program` panic instead of the verdict that main.rs:97 describes.
- `server_stop`: `shutdown` waits for axum's task and nobody waits for the
  handlers. Ctrl-C during a run drops the handler and waits for the VM's thread,
  so the process exits with 0, after the run's calls, without asking the store to
  take its trace. Same promise of engine.rs:106-108.

Met on the way and not the subject of a run: a downstream named
`decimal` shadows the library of that name, because `DIALECT_NAMES` lacks it;
`replay` does not compare a trace's own id with the id it was asked for; the
wallet reports a transaction that was mined and reverted like any other; a tool
named like an identifier that core rejects (`load`, `os`) passes `check_lua_names`
(engine.rs:303 holds only a server's name against them), and if core rejects it
after a dot too, every program of a principal who may call the tool panics at
dialect.rs:160; a result that is a whole number beyond i64, or written with an
exponent, arrives as text (values.rs:61-63) though the description says `integer`
and the dialect rules speak of non-integer numbers only; neither
`Downstreams::connect` nor `tool_schema` refuses a listing that names a tool twice or
a schema that requires what it does not declare, which is what the proofs about
start-up have to assume.

## Proofs

Every invariant of a passing run, the action property `StopIsFinal` and both
refinements are theorems: they hold for every value of the constants that satisfies
the assumptions below, where the runs show them for one. Each proof module
states its inductive invariant at the top, as a conjunction of named parts, then
one lemma per kind of step, then the theorems. The invariants were checked by TLC
on the module's run before they were proved.

| Theorem | States |
|---|---|
| `TypeCorrect`, `CallsArePermitted`, `LogZips` | `TypeOK` and `PendingCall`, `OnlyPermittedCallsAreSent`, `LogZipsWithTranscript` of `Gateway` |
| `TracesAccountForCalls`, `CallersAreToldTheTruth`, `TracesReplay` | `TraceAccountsForEveryCall`, `AnswersAreHonest`, `StoredTracesReplay` |
| `GatewayImplementsAuditLog` | `ImplementsAuditLog` |
| `StoreTypeCorrect`, `FilesAreWhole`, `AcknowledgedStays`, `PutsFailRightly` | `TypeOK`, `NoTornFile`, `AcknowledgedPutsAreKept`, `PutsFailForACause` of `TraceStore` |
| `StoreImplementsPutStore` | `ImplementsPutStore` |
| `GuardTypeCorrect`, `FailedRunsStayUnretried`, `RepliesRunOnce`, `SuccessIsReal`, `StoppedStaysStopped` | `TypeOK`, `FailedRunIsNeverRetried`, `OneExecutePerReply`, `SuccessMeansNoFailedRun`, `StopIsFinal` of `AgentGuard` |
| `TokensDecide`, `AnswersAreTrue` | `RequestsActForTheirOwnToken`, `AnswersTellWhatHappened` of `McpServer` |
| `MatchesAreGenuine`, `MatchesRanTheProgram`, `GenuineTracesMatch` | `MatchedIsGenuine`, `MatchedRanTheRecordedProgram`, `RecordedRunsMatch` of `Replay` |
| `BalancesAreOfTheirBlock`, `TransfersAreOnTheChain`, `CallsSpendOnce` | `AttestedBalanceIsOfItsBlock`, `AttestedTransferIsOnTheChain`, `NoCallSpendsTwice` of `Wallet` |
| `TokensAreUnambiguous`, `DownstreamsLearnTheirOwn`, `NamesReachTheirTool` | `TokensNameOnePrincipal`, `CredentialsStayApart`, `CallsReachTheNamedTool` of `Startup` |
| `EveryPreludeCompiles`, `DescriptionsAreCanonical`, `SignaturesAreTrue` | `PreludesCompile`, `DescriptionIsCanonical`, `SignaturesMatchTheSchemas` |

### Along which argument

`GatewayProofs`. `TypeOK` alone is not inductive, because what core records is
the call the VM asked for: `PendingCall` adds that a call which is out is the one
that the VM asks for at this point, and one of `Calls`. `SentInv` adds that a live request is authenticated and that one which
has not arrived has sent nothing; the heart is `DecideIsSound`: the four checks in
their order imply `Permitted`, which is stated without order. `Zipped` adds what the
host leaves behind while core has not recorded yet (`PendingRecord`), that a call
which is out has no blob of an earlier one, and that `accept` lets only recordable
values through.

`AuditProofs`. The properties speak of finished requests, so the invariant says
of every request at every place what the trace would say if it were built now:
`Accounted` (what was sent is in the transcript, or is the one call that is out),
`Retraced` (the transcript is what `VmNext` does on its responses), `Filed` (a trace
is that of its request), `Honest` (the answer). All four are about one request, so
a step of another leaves them alone (`OthersUntouched`). What requests share is in
`FileInv`: whoever wrote a program's file last, it compiles to its name, which
is why the race on that file does not matter to a replay. The refinement maps a step
of a request to its own step of `AuditLog` or to a stutter (`StepRefines`).

`TraceStoreProofs`. `TempInv`: the temp file of a live put has a name that this
process drew and no other live put has, and is complete once it may be renamed.
`FileInv`: nothing is under a trace's name before its put has returned.
`NameInv`, needed only for `PutsFailRightly`, says that temp files carry old
process ids or old counter values; it assumes that ids are not reused, and the
run `store_pid_reuse` shows that without it the theorem is false. In the
refinement the rename is the one step that replaces the file; creating and
writing the temp file are stutters, and a restart fails every open put at once.

`AgentGuardProofs`. `LockInv`: only the first `execute` of a reply holds the lock,
of an agent that has not stopped. `RunsInv`: a run whose result is not certain has
stopped the agent. `ReplyInv`: runs come from ever later replies, and the current
reply has none before its first `execute` returns.

`McpServerProofs`. `PrincipalInv`: past `require_bearer` a request's principal is
the owner of its token, whoever opened the session, and a request that did not
get past it has started nothing. `HistoryInv`: calls are of runs that were started,
under their request's principal, and traces of requests that were answered.
`AnswerInv`: an answered request's answer tells what it started and what was stored.

`ReplayProofs`. A recorded trace has a path: the states of the VM from its start
to its end, each from the one before and the next recorded response (`Follows`).
`RecordedInv` says so of every recorded trace, `RunInv` of the run that is being
recorded, and `ReadInv` that the VM of a replay of the recorded program is on that
path. `FilesInv`: no alteration makes a file verify with a key of the gateway unless
it is a trace that the gateway signed.

`WalletProofs`. `MinedOnce`: no transaction is in two blocks, or in the pool and in
a block. `SentInv`: a call has at most one transaction, and none before `send`. `AnswerInv`: what was attested is on the chain, and blocks are final.
`EthMilliRoundsDown` says what the conversion to milli-ETH returns for every
balance.

`StartupProofs`. `ConfigInv`, `TokensInv`, `ClientsInv` and `ToolsInv` say what each
step of start-up has established for the later ones; `NamesInv` is what
`check_lua_names` has. The names and texts rest on `InOrderSorts`: for any strict
order on a finite set, `InOrder` lists every element once, in order. It is proved by
counting (the numbers of elements below are a bijection), not by induction.
`EveryPreludeCompiles` goes both ways: no line has a fault unless a tool's name is one
that core rejects for a field (`SoundPrelude`), and then the first such line is in the
prelude, which panics (`FaultyPrelude`).

### Assumptions

The named `ASSUME`s of the modules, which TLC evaluates on the module's runs:

- numbers and bounds: `I64MaxIsPositive`, `CrashBound`, `LimitsArePositive`,
  `RestartBound`, `ReuseIsBoolean`, `AlterationBound`, `UnitIsPositive`,
  `WeiAreNumbers`, `HeightBound`;
- values that stand for something else are different from it:
  `NotIntegerIsNoInteger`, `ValuesAreRecordable`, `NoneIsNoToken`,
  `NoneIsNoPrincipal`, `ContentsAreContents`, `ForeignKeyIsForeign`,
  `ResponsesAreResponses`, `NoFileIsNoProgram`, `NoTypeIsNoString`;
- sets that are subsets of others: `CallSetsAreCalls`, `OversizedAreOutputs`,
  `TokensAreConfigured`, `FromIsAnAccount`, `RejectedFieldsAreRejected`;
- `TokensAreUnshared` of `McpServer`, which `TokensAreUnambiguous` proves of start-up;
- `TraceIdsAreFresh`: no two traces have one id (UUIDv7);
- of the inputs of `Startup`: `SomeInput` and `DownstreamsAreListed` (there is an input,
  and its downstreams are a list), `RankOrders` (names are ordered),
  `DownstreamsAreNamed` (names are made of ranked parts, listings are `IsListing`),
  and `InheritedIsNoSecret`: a secret is not kept in a variable such as `PATH` that
  every stdio child inherits. The code does not refuse such a configuration.

### Only model-checked

The five liveness properties, which are out of the prover's reach: `StopEnds`,
`CallsAreAnswered`, `ReplayEnds`, `EveryRequestIsAnswered`, `AgentEnds`. The
properties of the four runs that end in a violation are false of the code, so
there is nothing to prove.

## Not modelled

The VM and compiler (external), the wording of descriptions, prompts and errors,
hash and signature algorithms, the syntax of TOML and JSON, loss of power (the
directory is not synced after a rename), reorganisations of a chain, the wallet's
own start-up, the market server (a table of prices), the agent's command line and
its printing, and the demo's drivers.

## Plan

Done: `Policy`, `Host`, `Gateway`, `AuditLog`, `TraceStore`, `PutStore`,
`AgentGuard`, `Description`, `Startup`, `McpServer`, `Replay`, `Wallet`; proofs of
every invariant, action property and refinement that a passing run checks.

Left for the proofs:

1. Shorter proofs where several actions repeat one argument (`TraceStoreProofs`,
   `WalletProofs`), with the frame conditions as lemmas, as in `AuditProofs`.
2. Consequences of the abstract specifications on their own: what a client of
   `AuditLog` or `PutStore` may rely on without reading the detailed module.
3. What the code does for the inputs that `IsListing` and `InheritedIsNoSecret`
   leave out.
