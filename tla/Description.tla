----------------------------- MODULE Description ----------------------------
(***************************************************************************)
(* The tool description and the Lua prelude (src/src/description.rs), what *)
(* a program behind the prelude compiles to (src/src/dialect.rs), and the  *)
(* two conversions the description makes promises about: the schema check  *)
(* of arguments (src/src/schema.rs) and the values a program sees          *)
(* (src/src/values.rs).                                                    *)
(*                                                                         *)
(* A name is the sequence of its parts between dots; Rank orders parts as  *)
(* their bytes do.  Wording is left out: the text of a tool is the record  *)
(* of what its two lines say, and the hash of a text is the text.          *)
(***************************************************************************)
EXTENDS Integers, SequencesExt

CONSTANTS
  Rank,           \* [part of a name -> Nat]: the byte order of names
  NotIdents,      \* parts that hold a character no Lua name may hold
  RejectedFields, \* the names core's parser (external) rejects also for a field
  NoType          \* a type that is no string, or no output schema

ASSUME RankOrders ==
  /\ Rank \in [DOMAIN Rank -> Nat]
  /\ \A m, n \in DOMAIN Rank : Rank[m] = Rank[n] => m = n
ASSUME NoTypeIsNoString ==
  NoType \notin DOMAIN Rank \cup {"integer", "number", "boolean", "string", "array", "object"}

qualified_name(t) == t.server \o t.name

\* Lexicographic order of names.
NameLess(a, b) ==
  \E i \in 1..Len(b) :
    /\ \A j \in 1..(i - 1) : j <= Len(a) /\ a[j] = b[j]
    /\ Len(a) = i - 1 \/ (Len(a) >= i /\ Rank[a[i]] < Rank[b[i]])

\* The elements of a set in the order of a strict relation: the k-th is the one
\* that k - 1 others come before.
InOrder(S, before) ==
  [k \in 1..Cardinality(S) |->
     CHOOSE x \in S : Cardinality({y \in S : <<y, x>> \in before}) = k - 1]

\* The positions of a sequence in the order of the keys that stand there; like
\* sort_by_key, positions of the same key stay as they are.
ByKey(keys) ==
  LET positions == DOMAIN keys
  IN  InOrder(positions,
        {p \in positions \X positions :
           \/ NameLess(keys[p[1]], keys[p[2]])
           \/ p[1] < p[2] /\ ~NameLess(keys[p[2]], keys[p[1]])})

\* sort_tools that compares the tools' own names only.
sort_tools_by_name(ts) ==
  LET order == ByKey([i \in DOMAIN ts |-> ts[i].name])
  IN  [k \in DOMAIN ts |-> ts[order[k]]]

\* sort_by_key(qualified_name), of Downstreams::connect and of build.
sort_tools(ts) ==
  LET order == ByKey([i \in DOMAIN ts |-> qualified_name(ts[i])])
  IN  [k \in DOMAIN ts |-> ts[order[k]]]

-----------------------------------------------------------------------------
(* What the text says of a tool *)

\* The properties of an object schema, sorted by name.
sorted_properties(schema) ==
  LET given == DOMAIN schema.properties
      names == InOrder(given, {p \in given \X given : Rank[p[1]] < Rank[p[2]]})
  IN  [i \in DOMAIN names |->
         [name     |-> names[i],
          type     |-> schema.properties[names[i]],
          required |-> names[i] \in schema.required]]

simple_type ==
  [boolean |-> "boolean", string |-> "string", array |-> "{...}", object |-> "table"]

return_type(type) ==
  IF type = "integer" THEN "integer"
  ELSE IF type = "number" THEN "integer|string(decimal)"
  ELSE IF type \in DOMAIN simple_type THEN simple_type[type] ELSE NoType

\* argument_type that promises what return_type does.
argument_type_as_returned(type) == return_type(type)

argument_type(type) ==
  IF type \in {"integer", "number"} THEN "integer"
  ELSE IF type \in DOMAIN simple_type THEN simple_type[type] ELSE NoType

DIRECTED_PAIRS ==
  << <<"to", "from">>, <<"to_address", "from_address">>,
     <<"recipient", "sender">>, <<"destination", "source">> >>

\* The source argument of the first pair a schema has the destination of only.
fixed_actor_note(schema) ==
  LET Found(i) == /\ DIRECTED_PAIRS[i][1] \in DOMAIN schema.properties
                  /\ DIRECTED_PAIRS[i][2] \notin DOMAIN schema.properties
      found == {i \in DOMAIN DIRECTED_PAIRS : Found(i)}
  IN  IF found = {} THEN NoType
      ELSE DIRECTED_PAIRS[CHOOSE i \in found : \A j \in found : i <= j][2]

render_tool(t) ==
  LET args == sorted_properties(t.input)
      outs == IF t.output = NoType THEN << >> ELSE sorted_properties(t.output)
  IN  [tool    |-> qualified_name(t),
       returns |-> [i \in DOMAIN outs |-> <<outs[i].name, return_type(outs[i].type)>>],
       note    |-> fixed_actor_note(t.input),
       args    |-> [i \in DOMAIN args |->
                      [name     |-> args[i].name,
                       optional |-> ~args[i].required,
                       type     |-> argument_type(args[i].type)]]]

-----------------------------------------------------------------------------
(* The prelude *)

\* One line per server, `local s = {}`, then one per tool, `s.t = function ...`.
prelude(tools) ==
  LET named   == {tools[i].server : i \in DOMAIN tools}
      servers == InOrder(named, {p \in named \X named : NameLess(p[1], p[2])})
  IN  [i \in DOMAIN servers |-> [declares |-> servers[i]]]
        \o [i \in DOMAIN tools |-> [server |-> tools[i].server, field |-> tools[i].name]]

build(allowed) ==
  LET tools == sort_tools(allowed)
  IN  [text    |-> [i \in DOMAIN tools |-> render_tool(tools[i])],
       prelude |-> prelude(tools)]

LUA_KEYWORDS ==
  {"and", "break", "do", "else", "elseif", "end", "false", "for", "function", "goto",
   "if", "in", "local", "nil", "not", "or", "repeat", "return", "then", "true",
   "until", "while"}

\* The identifiers that core's parser rejects.
RejectedIdents ==
  {"debug", "io", "os", "package", "require", "load", "dofile", "loadfile",
   "loadstring", "collectgarbage", "setmetatable", "getmetatable", "rawget",
   "rawset", "setfenv", "getfenv", "coroutine"}

\* Whether it rejects them after a dot as well is core's: neither the rules of the
\* dialect nor a test says so, and any part of them may be.
ASSUME RejectedFieldsAreRejected == RejectedFields \subseteq RejectedIdents

\* A name the Lua grammar takes as an identifier.
IsIdent(name) ==
  Len(name) = 1 /\ name[1] \notin NotIdents /\ name[1] \notin LUA_KEYWORDS

\* Whether core's parser and compiler accept a line of the prelude.
LineCompiles(line) ==
  IF "declares" \in DOMAIN line
  THEN IsIdent(line.declares) /\ line.declares[1] \notin RejectedIdents
  ELSE /\ IsIdent(line.server) /\ line.server[1] \notin RejectedIdents
       /\ IsIdent(line.field) /\ line.field[1] \notin RejectedFields

\* compile_program: a fault in a line of the prelude panics, a fault in the
\* program is reported against the program's own lines, and one that only the
\* verifier finds at line 0.  A program is the line its parse or compile error is
\* in (0: none) and whether it verifies.
compile_program(lines, program) ==
  LET offset == Len(lines)
      faults == {i \in 1..offset : ~LineCompiles(lines[i])}
      line   == IF faults # {} THEN CHOOSE i \in faults : \A j \in faults : i <= j
                ELSE offset + program.fault
  IN  IF faults # {} \/ program.fault > 0
      THEN IF line <= offset THEN [kind |-> "panic", line |-> line]
           ELSE [kind |-> "lint", line |-> line - offset]
      ELSE IF ~program.verifies THEN [kind |-> "lint", line |-> 0]
      ELSE [kind |-> "ok", line |-> 0]

-----------------------------------------------------------------------------
(* What the promises of the text are about *)

\* Kinds of Lua value, and what the canonical encoding makes of them; an empty
\* table is the one core encodes it as.
LuaKinds == {"integer", "string", "boolean", "list", "record"}
JsonOf ==
  [integer |-> "integer", string |-> "string", boolean |-> "boolean",
   list |-> "array", record |-> "object"]

\* The kinds of JSON number: an i64, a whole number that is none (beyond the range,
\* or written with an exponent), and one with a fraction.
JsonNumbers == {"integer", "whole", "decimal"}

\* JSON Schema's `type`, which takes a number for an integer by its value.  What
\* a schema without one type admits is left to its other keywords.
TypeAdmits(type, json) ==
  \/ type = NoType
  \/ json = type
  \/ type = "integer" /\ json = "whole"
  \/ type = "number" /\ json \in JsonNumbers

\* check_args for arguments given as [name -> kind]: the schema must build into a
\* validator, and the arguments must have what it requires, with the types it
\* gives, and fit its other keywords (enum, minimum, additionalProperties, the
\* schemas inside a property), which `fits` stands for.
check_args(schema, args, fits) ==
  /\ schema.builds /\ fits
  /\ schema.required \subseteq DOMAIN args
  /\ \A name \in DOMAIN args : TypeAdmits(schema.properties[name], JsonOf[args[name]])

\* to_lua: the kind of Lua value a JSON value of a kind becomes; a number that is
\* not an i64 becomes its decimal text.
to_lua ==
  [integer |-> "integer", whole |-> "string", decimal |-> "string", string |-> "string",
   boolean |-> "boolean", array |-> "list", object |-> "record"]
=============================================================================
