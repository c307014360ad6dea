-------------------------- MODULE LifecycleObserver --------------------------
(***************************************************************************)
(* What a tracker with a cache promises about one proposal, without a      *)
(* word about calls, checkpoints or keys: a set of stages it has recorded  *)
(* as done, which only grows, and to which a stage is added only when the  *)
(* chains have in fact carried it out or made it unnecessary.              *)
(***************************************************************************)
EXTENDS GovernanceChain, Stages

VARIABLE done

observerVars == <<chainVars, done>>

\* On this proposal's route, the stage will never have anything to do.
Unnecessary(s) ==
  CASE s = "PROPOSAL_QUEUED"    -> fate = "Canceled"
    [] s = "L2_TO_L1_MESSAGE"   -> route \in {"l2Only", "noMessage"} /\ phase >= L2Executed
    [] s = "L1_TIMELOCK"        -> route = "l2Only" /\ phase >= L2Executed
    [] s = "RETRYABLE_EXECUTED" -> \/ route = "l2Only" /\ phase >= L2Executed
                                   \/ route = "noTicket" /\ phase >= L1Executed
    [] OTHER                    -> FALSE

CarriedOut(s) ==
  CASE s = "PROPOSAL_CREATED"   -> phase >= Created
    [] s = "VOTING_ACTIVE"      -> phase >= Succeeded
    [] s = "PROPOSAL_QUEUED"    -> phase >= Queued
    [] s = "L2_TIMELOCK"        -> phase >= L2Executed
    [] s = "L2_TO_L1_MESSAGE"   -> phase >= OutboxDone
    [] s = "L1_TIMELOCK"        -> phase >= L1Executed
    [] s = "RETRYABLE_EXECUTED" -> phase >= Redeemed

Observable == {s \in StageType : CarriedOut(s) \/ Unnecessary(s)}

Init == ChainInit /\ done = {}

Observe ==
  /\ \E seen \in SUBSET Observable : done' = done \cup seen
  /\ UNCHANGED chainVars

Next == Observe \/ (ChainStep /\ UNCHANGED done)

Spec == Init /\ [][Next]_observerVars

=============================================================================
