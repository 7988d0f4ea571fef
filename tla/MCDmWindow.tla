------------------------------ MODULE MCDmWindow ------------------------------
(***************************************************************************)
(* A small instance of DmWindow for TLC.                                   *)
(***************************************************************************)
EXTENDS DmWindow
=============================================================================
