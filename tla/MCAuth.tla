------------------------------- MODULE MCAuth --------------------------------
(***************************************************************************)
(* A small instance of Auth for TLC.                                       *)
(***************************************************************************)
EXTENDS Auth, TLC

CONSTANTS s1, s2, n1

(* A node and the certificate that renewed its first one.                  *)
Renewed == [s \in Serial |-> n1]

Symmetry == Permutations(Cli) \cup Permutations(Serial)
=============================================================================
