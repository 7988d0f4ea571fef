------------------------------ MODULE MCCagent -------------------------------
(***************************************************************************)
(* Small instances of Cagent for TLC.                                      *)
(***************************************************************************)
EXTENDS Cagent, TLC

CONSTANTS u1, u2, c1, c2

(* The same node before and after its certificate was renewed, another     *)
(* node, the operator, and a caller at the window.                         *)
Node == [class |-> "node", uuid |-> u1, cert_serial |-> c1]
NodeRenewed == [class |-> "node", uuid |-> u1, cert_serial |-> c2]
OtherNode == [class |-> "node", uuid |-> u2, cert_serial |-> c2]
Human == [class |-> "human", uuid |-> None, cert_serial |-> None]
Window == [class |-> "window", uuid |-> None, cert_serial |-> None]

OneCaller == {Node}
EveryDoor == {Node, NodeRenewed, OtherNode, Human, Window}

Symmetry == Permutations(RequestId) \cup Permutations(SessionId) \cup Permutations(Thread)
=============================================================================
