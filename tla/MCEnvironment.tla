---------------------------- MODULE MCEnvironment ----------------------------
(* Small instances of Environment for TLC. *)
EXTENDS Environment, TLC

CONSTANTS s1, m1, m2, p1

TwoAgents == {1, 2}

\* both agents list the plugin; a skill and a server come to be both agents' too
InstalledOnFirst == {<<1, s1>>, <<1, m1>>, <<1, p1>>}

\* a document that lists no server; the second agent's home has it
NoServers == {{}}
HomeOfSecond == [a \in TwoAgents |-> IF a = 2 THEN {} ELSE None]

Symmetry == Permutations(Conns)
=============================================================================
