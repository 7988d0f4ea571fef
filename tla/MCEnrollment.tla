----------------------------- MODULE MCEnrollment -----------------------------
(***************************************************************************)
(* A small instance of Enrollment for TLC.                                 *)
(***************************************************************************)
EXTENDS Enrollment, TLC

(* Serial numbers of two digits, and of three.                             *)
Numbers == {165, 1717}

(* Every way to write them.                                                *)
Serials == UNION {{serial_number_to_hex(n), Digits[n], presented(n)} : n \in Numbers}

Symmetry == Permutations(Operator)
=============================================================================
