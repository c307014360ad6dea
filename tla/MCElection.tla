------------------------------ MODULE MCElection ------------------------------
(***************************************************************************)
(* A small instance of Election for TLC; its configurations choose the     *)
(* number of elections and calls, and which failures happen.               *)
(***************************************************************************)
EXTENDS Election

=============================================================================
