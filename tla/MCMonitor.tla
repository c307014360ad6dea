------------------------------ MODULE MCMonitor ------------------------------
(***************************************************************************)
(* A small instance of Monitor for TLC: a proposal with its operation, and *)
(* an operation that no proposal scheduled.                                *)
(***************************************************************************)
EXTENDS Monitor, TLC

CONSTANTS p, o, u

MCOperationOf == p :> o

=============================================================================
