------------------------------ MODULE MCServer ------------------------------
(* Two principals, a token nobody has, and programs that lint for both, for   *)
(* one, or for none of them.                                                  *)
EXTENDS McpServer

CONSTANTS alice, bob, stranger, quick, reader, broken

MCPrincipals == {alice, bob}
MCTokens     == [p \in MCPrincipals |-> p]
MCPresented  == MCPrincipals \cup {stranger}
MCPrograms   == {quick, reader, broken}
MCCompiles   == [p \in MCPrincipals |-> IF p = alice THEN {quick, reader} ELSE {quick}]
MCCalls      == [g \in MCPrograms |-> IF g = reader THEN 2 ELSE 1]
=============================================================================
