------------------------------ MODULE MCChatPage ------------------------------
(***************************************************************************)
(* A small instance of ChatPage for TLC.                                   *)
(***************************************************************************)
EXTENDS ChatPage
=============================================================================
