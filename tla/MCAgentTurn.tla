----------------------------- MODULE MCAgentTurn ------------------------------
(***************************************************************************)
(* A small instance of AgentTurn for TLC: turns of which none, one, two or *)
(* three fit, and words of each kind: of subcommands, an id, flags, and an *)
(* option that is not available; four reports, three of them in the same   *)
(* second and of the same words.                                           *)
(***************************************************************************)
EXTENDS AgentTurn

SmallDashed == {"--yes"}
SmallWord == {"status", "ops", "list", "show", "01KX", "--json", "--host"} \cup SmallDashed

CONSTANTS p1, p2, p3, p4, i1, i2

SameSecond == [p \in Report |-> IF p = p4 THEN i2 ELSE i1]
=============================================================================
