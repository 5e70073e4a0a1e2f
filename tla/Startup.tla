------------------------------ MODULE Startup -------------------------------
(***************************************************************************)
(* What the commands `serve` and `check` do before the first request       *)
(* (src/src/main.rs): read the configuration (src/src/config.rs), resolve  *)
(* the tokens (src/src/server.rs), load the policy (src/src/policy.rs),    *)
(* connect to the downstreams (src/src/downstream.rs), open the store,     *)
(* read the signing key, check the names (src/src/engine.rs), and then     *)
(* serve, or compile one program and exit.                                 *)
(*                                                                         *)
(* The input is what the process finds: its command line, the two files,   *)
(* its environment.  The downstreams, the store and the listening socket   *)
(* answer or fail as they like.  What an error says is left out.           *)
(***************************************************************************)
EXTENDS Description

CONSTANTS
  Inputs,        \* the inputs a process may start with
  Listings(_),   \* the tool lists a command or URL may answer tools/list with
  NONE           \* a field that is not given, a variable that is not set

\* The variables a configuration takes its secrets from, and a downstream its own.
OwnVars(d) == {e.credential.var : e \in {f \in {d} : f.credential # NONE}}

SecretVars(file) ==
  {file.signing_key.var}
    \cup {file.principals[p].var : p \in DOMAIN file.principals}
    \cup UNION {OwnVars(d) : d \in Range(file.downstream)}

\* The variables that every stdio child inherits.
Inherited == {"PATH", "HOME"}

ASSUME SomeInput == Inputs # {}
ASSUME DownstreamsAreListed ==
  \A i \in Inputs : LET list == i.config.downstream
                    IN  Len(list) \in Nat /\ DOMAIN list = 1..Len(list)
ASSUME InheritedIsNoSecret ==
  \A i \in Inputs : \A d \in Range(i.config.downstream) :
    Inherited \cap SecretVars(i.config) \subseteq OwnVars(d)

VARIABLES
  input,   \* [command, config, policy, env, principal, program]
  stage,   \* the step that is next
  config,  \* the parsed configuration
  tokens,  \* Tokens: [principal -> token]
  allow,   \* the policy's allow-lists: [principal -> set of qualified names]
  clients, \* one per connected downstream: [server, given]
  tools,   \* Downstreams::tools, in order
  exit     \* the process's exit code, 101 when it panicked

vars == <<input, stage, config, tokens, allow, clients, tools, exit>>

Init ==
  /\ input \in Inputs
  /\ stage = IF input.command = "check" THEN "program" ELSE "config"
  /\ config = NONE
  /\ tokens = NONE
  /\ allow = NONE
  /\ clients = << >>
  /\ tools = << >>
  /\ exit = NONE

Goto(from, to) == stage = from /\ stage' = to /\ UNCHANGED exit

\* run: every error on the way exits 2.
SetupFails(from) == stage = from /\ stage' = "exited" /\ exit' = 2

-----------------------------------------------------------------------------
(* The configuration *)

\* Secret::try_from accepts env:NAME only.
IsSecret(text) == text.scheme = "env" /\ text.var # ""

\* Secret::resolve
resolve(secret) == input.env[secret.var]

\* RawDownstream::try_from: one of command and url, the one the transport needs.
Transport(raw) ==
  IF raw.transport = "stdio" /\ raw.command # NONE /\ raw.url = NONE
  THEN [kind |-> "stdio", target |-> raw.command]
  ELSE IF raw.transport = "http" /\ raw.command = NONE /\ raw.url # NONE
  THEN [kind |-> "http", target |-> raw.url]
  ELSE NONE

\* Schemas name their properties, and require none that they do not name; some
\* build into a validator, and some do not.
IsSchema(schema) ==
  /\ schema.builds \in BOOLEAN
  /\ IsFiniteSet(DOMAIN schema.properties)
  /\ DOMAIN schema.properties \subseteq DOMAIN Rank
  /\ schema.required \subseteq DOMAIN schema.properties

\* What tools/list answers: no tool twice.
IsListing(listed) ==
  /\ Len(listed) \in Nat /\ DOMAIN listed = 1..Len(listed)
  /\ \A i \in DOMAIN listed : /\ listed[i].name \in Seq(DOMAIN Rank)
                              /\ IsSchema(listed[i].input)
                              /\ listed[i].output # NoType => IsSchema(listed[i].output)
  /\ \A i, j \in DOMAIN listed : listed[i].name = listed[j].name => i = j

ASSUME DownstreamsAreNamed ==
  \A i \in Inputs : \A d \in Range(i.config.downstream) :
    /\ d.name \in Seq(DOMAIN Rank)
    /\ Transport(d) # NONE => \A listed \in Listings(Transport(d).target) : IsListing(listed)

\* GatewayConfig as serde reads it.
Deserializes(file) ==
  /\ IsSecret(file.signing_key)
  /\ \A p \in DOMAIN file.principals : IsSecret(file.principals[p])
  /\ \A i \in DOMAIN file.downstream :
       /\ Transport(file.downstream[i]) # NONE
       /\ file.downstream[i].credential # NONE => IsSecret(file.downstream[i].credential)

\* NamesAreFit that only asks for different names.
NamesDiffer(downstream) ==
  \A i, j \in DOMAIN downstream : downstream[i].name = downstream[j].name => i = j

\* The checks of parse: no dot in a downstream's name, and no name twice.
NamesAreFit(downstream) ==
  /\ \A i \in DOMAIN downstream : Len(downstream[i].name) = 1
  /\ \A i, j \in DOMAIN downstream : downstream[i].name = downstream[j].name => i = j

\* config::load
LoadConfig ==
  LET file == input.config
      fit  == file.readable /\ Deserializes(file) /\ NamesAreFit(file.downstream)
  IN  /\ stage = "config"
      /\ \/ /\ fit
            /\ Goto("config", IF input.command = "serve" THEN "tokens" ELSE "policy")
            /\ config' = file
         \/ ~fit /\ SetupFails("config") /\ UNCHANGED config
      /\ UNCHANGED <<input, tokens, allow, clients, tools>>

\* check reads the program first.
ReadProgram ==
  /\ \/ input.program # NONE /\ Goto("program", "config")
     \/ input.program = NONE /\ SetupFails("program")
  /\ UNCHANGED <<input, config, tokens, allow, clients, tools>>

\* TokensAreFit that does not look for a token of two principals.
TokensAreGiven ==
  \A p \in DOMAIN config.principals : resolve(config.principals[p]) \notin {NONE, ""}

\* Tokens::resolve fails on a token that is not set, empty, or shared.
TokensAreFit ==
  /\ \A p \in DOMAIN config.principals : resolve(config.principals[p]) \notin {NONE, ""}
  /\ \A p, q \in DOMAIN config.principals :
       resolve(config.principals[p]) = resolve(config.principals[q]) => p = q

\* Tokens::resolve keeps the digests, which stand for the tokens.
ResolveTokens ==
  /\ stage = "tokens"
  /\ \/ /\ TokensAreFit
        /\ Goto("tokens", "policy")
        /\ tokens' = [p \in DOMAIN config.principals |-> resolve(config.principals[p])]
     \/ ~TokensAreFit /\ SetupFails("tokens") /\ UNCHANGED tokens
  /\ UNCHANGED <<input, config, allow, clients, tools>>

\* Tokens::principal_for
principal_for(token) == {p \in DOMAIN tokens : tokens[p] = token}

-----------------------------------------------------------------------------
(* The engine *)

\* Policy::parse takes <arg>_max bounds only.
PolicyParses(file) ==
  \A tool \in DOMAIN file.constraints : \A key \in file.constraints[tool] :
    key.suffix = "_max" /\ key.arg # ""

\* Policy::load
LoadPolicy ==
  LET fit == input.policy.readable /\ PolicyParses(input.policy)
  IN  /\ stage = "policy"
      /\ \/ fit /\ Goto("policy", "connect") /\ allow' = input.policy.allow
         \/ ~fit /\ SetupFails("policy") /\ UNCHANGED allow
      /\ UNCHANGED <<input, config, tokens, clients, tools>>

\* ChildEnv that leaves the gateway's own variables in place.
InheritedEnv(d) == [var \in {v \in DOMAIN input.env : input.env[v] # NONE} |-> input.env[var]]

\* The environment of a stdio child: PATH and HOME, and the credential.
ChildEnv(d) ==
  LET kept == {v \in Inherited \cap DOMAIN input.env : input.env[v] # NONE}
  IN  [var \in OwnVars(d) \cup kept |-> input.env[var]]

\* What a downstream is given: its environment, or its bearer token.
Given(d) ==
  IF Transport(d).kind = "stdio" THEN ChildEnv(d)
  ELSE [var \in OwnVars(d) |-> input.env[var]]

\* open fails of itself on a credential that is not set and an empty command.
Opens(d) ==
  /\ d.credential # NONE => resolve(d.credential) # NONE
  /\ Transport(d).target # ""

\* tool_schema, for a tool of a server; there is none for a dotted name.
tool_schema(server, tool) ==
  [server |-> server, name |-> tool.name, input |-> tool.input, output |-> tool.output]

\* One turn of Downstreams::connect: open, tools/list, tool_schema.
Connect ==
  /\ stage = "connect"
  /\ Len(clients) < Len(config.downstream)
  /\ LET d == config.downstream[Len(clients) + 1] IN
     \/ /\ Opens(d)
        /\ \E listed \in Listings(Transport(d).target) :
             /\ \A i \in DOMAIN listed : Len(listed[i].name) = 1
             /\ tools' = tools \o [i \in DOMAIN listed |-> tool_schema(d.name, listed[i])]
        /\ clients' = Append(clients, [server |-> d.name, given |-> Given(d)])
        /\ UNCHANGED <<stage, exit>>
     \/ SetupFails("connect") /\ UNCHANGED <<tools, clients>>
  /\ UNCHANGED <<input, config, tokens, allow>>

Connected ==
  /\ stage = "connect"
  /\ Len(clients) = Len(config.downstream)
  /\ Goto("connect", "store")
  /\ tools' = sort_tools(tools)
  /\ UNCHANGED <<input, config, tokens, allow, clients>>

\* TraceStore::open creates the directories.
OpenStore ==
  /\ Goto("store", "key") \/ SetupFails("store")
  /\ UNCHANGED <<input, config, tokens, allow, clients, tools>>

\* The hex of a 32-byte seed, or an error.
signing_key_from_hex(hex) == IF hex = "seed" THEN "key" ELSE NONE

\* The signing key, and every principal's token once more.
ReadKey ==
  LET fit == /\ signing_key_from_hex(resolve(config.signing_key)) # NONE
             /\ \A p \in DOMAIN config.principals : resolve(config.principals[p]) # NONE
  IN  /\ stage = "key"
      /\ \/ fit /\ Goto("key", "names")
         \/ ~fit /\ SetupFails("key")
      /\ UNCHANGED <<input, config, tokens, allow, clients, tools>>

\* The positions a filter keeps, in their order.
Kept(positions) == InOrder(positions, {p \in positions \X positions : p[1] < p[2]})

allowed_schemas(principal) ==
  LET allowed == {i \in DOMAIN tools : principal \in DOMAIN allow
                                       /\ qualified_name(tools[i]) \in allow[principal]}
  IN  [k \in 1..Cardinality(allowed) |-> tools[Kept(allowed)[k]]]

description_for(principal) == build(allowed_schemas(principal))

DIALECT_NAMES ==
  RejectedIdents \cup
  {"tool", "string", "math", "table", "json", "tostring", "tonumber", "type", "select",
   "unpack", "pairs_sorted", "pairs", "ipairs", "pcall", "error", "log", "print"}

\* check_lua_names that takes every Lua identifier for a server's name.
check_identifiers(t) == IsIdent(t.server) /\ IsIdent(t.name)

check_lua_names(t) ==
  /\ IsIdent(t.server) /\ t.server[1] \notin DIALECT_NAMES
  /\ IsIdent(t.name)

\* The end of Engine::new: the names of every tool a configured principal may call.
CheckNames ==
  LET fit == \A p \in DOMAIN config.principals :
               \A i \in DOMAIN allowed_schemas(p) : check_lua_names(allowed_schemas(p)[i])
  IN  /\ stage = "names"
      /\ \/ fit /\ Goto("names", IF input.command = "serve" THEN "bind" ELSE "check")
         \/ ~fit /\ SetupFails("names")
      /\ UNCHANGED <<input, config, tokens, allow, clients, tools>>

-----------------------------------------------------------------------------
(* After the engine is there *)

\* start binds server.listen and serves.
Bind ==
  /\ Goto("bind", "serving") \/ SetupFails("bind")
  /\ UNCHANGED <<input, config, tokens, allow, clients, tools>>

\* check prints ok and exits 0, or the lint error and exits 1.
CheckProgram ==
  LET compiled == compile_program(description_for(input.principal).prelude, input.program)
  IN  /\ stage = "check"
      /\ stage' = "exited"
      /\ exit' = IF compiled.kind = "panic" THEN 101
                 ELSE IF compiled.kind = "ok" THEN 0 ELSE 1
      /\ UNCHANGED <<input, config, tokens, allow, clients, tools>>

Settled == stage \in {"serving", "exited"} /\ UNCHANGED vars

Next ==
  \/ LoadConfig \/ ReadProgram \/ ResolveTokens \/ LoadPolicy \/ Connect \/ Connected
  \/ OpenStore \/ ReadKey \/ CheckNames \/ Bind \/ CheckProgram \/ Settled

Spec == Init /\ [][Next]_vars

-----------------------------------------------------------------------------
(* Properties *)

Serving == stage = "serving"

\* Once the gateway serves, no principal's token is empty and each configured
\* token authenticates the principal it is configured for and nobody else
\* (Tokens::resolve against the environment, principal_for).
TokensNameOnePrincipal ==
  Serving => \A p \in DOMAIN config.principals :
    /\ resolve(config.principals[p]) # ""
    /\ principal_for(resolve(config.principals[p])) = {p}

\* A downstream learns no secret of the configuration but its own credential:
\* not the signing key, not a principal's token, not another downstream's
\* credential (env_clear in open), unless the configuration itself names the
\* same variable for both.
CredentialsStayApart ==
  \A i \in DOMAIN clients :
    DOMAIN clients[i].given \cap SecretVars(config) \subseteq OwnVars(config.downstream[i])

\* The name that the rules allow, the program calls and the trace records leads
\* to one tool of one connection: Downstreams::call splits a discovered tool's
\* qualified name into the server and the name it was made of, and no two tools
\* of different servers share it.
CallsReachTheNamedTool ==
  Serving => \A i \in DOMAIN tools :
    LET q == qualified_name(tools[i]) IN
    /\ <<q[1]>> = tools[i].server /\ Tail(q) = tools[i].name
    /\ \E k \in DOMAIN clients :
         {n \in DOMAIN clients : clients[n].server = <<q[1]>>} = {k}
    /\ \A j \in DOMAIN tools : qualified_name(tools[j]) = q => tools[j] = tools[i]

\* For every principal that can send a request, the prelude defines the tools the
\* principal may call and no other; it compiles, and the line of a fault in the
\* program is reported as the program counts it (check_lua_names at start-up
\* against compile_program at the first request).  The one exception is a tool
\* whose name core rejects for a field: check_lua_names (engine.rs:303) lets it
\* pass, and every program of a principal that may call it panics.
PreludesCompile ==
  Serving => \A p \in DOMAIN config.principals :
    LET lines == description_for(p).prelude
        Compile(fault) == compile_program(lines, [fault |-> fault, verifies |-> TRUE])
        rejected == {t \in Range(allowed_schemas(p)) : t.name[1] \in RejectedFields}
    IN  /\ rejected = {} => /\ Compile(0).kind = "ok"
                            /\ Compile(1) = [kind |-> "lint", line |-> 1]
        /\ rejected # {} => Compile(0).kind = "panic"
        /\ {line.server \o line.field : line \in {l \in Range(lines) : "field" \in DOMAIN l}}
             = {qualified_name(t) : t \in Range(allowed_schemas(p))}

\* The description lists each tool once, in the order of the qualified names,
\* whatever order the configuration and the downstreams listed them in, so that
\* one set of tools has one description_hash (description.rs, lines 3-5).
DescriptionIsCanonical ==
  Serving => \A p \in DOMAIN config.principals :
    LET text == description_for(p).text IN
    \A i, j \in DOMAIN text : i < j => NameLess(text[i].tool, text[j].tool)

\* Kinds of Lua value a type of the description stands for.
Means(type) ==
  IF type = "{...}" THEN {"list"}
  ELSE IF type = "table" THEN {"record"}
  ELSE IF type = "integer|string(decimal)" THEN {"integer", "string"}
  ELSE {type}

\* Arguments that the signature in the description rules out.
Forbids(signature, args) ==
  \E i \in DOMAIN signature.args :
    LET a == signature.args[i] IN
    \/ ~a.optional /\ a.name \notin DOMAIN args
    \/ a.name \in DOMAIN args /\ a.type # NoType /\ args[a.name] \notin Means(a.type)

\* The kinds of value a field of a result may have under a type that is shown: a
\* whole number that is no i64 is text, also where the text says integer
\* (values.rs:61-63).
ArrivesAs(type, json) == Means(type) \cup (IF json = "whole" THEN {"string"} ELSE {})

\* What the description tells the model agrees with what the gateway enforces.
\* Arguments the signature rules out are rejected by check_args; when every type
\* is shown, arguments it permits are rejected only by a keyword the signature
\* does not show, or because the schema does not build.  The note on what the tool
\* does not take names no argument it takes.  A field of a result that follows the
\* output schema has, after to_lua, a type the description gives for it, but for a
\* whole number that is no i64.
SignaturesMatchTheSchemas ==
  Serving => \A t \in Range(tools) :
    LET signature == render_tool(t)
        typed == \A i \in DOMAIN signature.args : signature.args[i].type # NoType
    IN  /\ signature.note \notin DOMAIN t.input.properties
        /\ \A given \in SUBSET DOMAIN t.input.properties : \A args \in [given -> LuaKinds] :
           \A fits \in BOOLEAN :
             /\ Forbids(signature, args) => ~check_args(t.input, args, fits)
             /\ typed /\ ~Forbids(signature, args) =>
                  (check_args(t.input, args, fits) <=> t.input.builds /\ fits)
        /\ t.output # NoType => \A i \in DOMAIN signature.returns :
             LET field == signature.returns[i]
                 type  == t.output.properties[field[1]]
             IN  field[2] # NoType => \A json \in DOMAIN to_lua :
                   TypeAdmits(type, json) => to_lua[json] \in ArrivesAs(field[2], json)

\* main.rs, line 97: check "prints `ok` and exits 0, or prints `line N: message`
\* and exits 1"; a set-up failure exits 2.
CheckEndsInAVerdict ==
  stage = "exited" /\ input.command = "check" => exit \in {0, 1, 2}
=============================================================================
