------------------------------- MODULE Stages -------------------------------
(***************************************************************************)
(* The vocabulary of the tracker: lifecycle stages, their statuses, and    *)
(* the predicates of stages/utils.ts and tracker/checkpoint-helpers.ts     *)
(* that decide whether a stored checkpoint still needs work.               *)
(*                                                                         *)
(* A TrackedStage is reduced to its status and to one bit, link: whether   *)
(* the stage carries the datum the next stage reads (the operation id of   *)
(* PROPOSAL_QUEUED, the execution transaction of a timelock stage, the     *)
(* outbox transaction of L2_TO_L1_MESSAGE).  A stage a checkpoint leaves   *)
(* out is a stage with status NOT_STARTED: checkpoints filter those away,  *)
(* and loading starts from a list in which every stage is NOT_STARTED.     *)
(***************************************************************************)
EXTENDS Naturals

ParentStages   == {"PROPOSAL_CREATED", "VOTING_ACTIVE", "PROPOSAL_QUEUED"}
TimelockStages == {"L2_TIMELOCK", "L2_TO_L1_MESSAGE", "L1_TIMELOCK", "RETRYABLE_EXECUTED"}
StageType      == ParentStages \cup TimelockStages

StageStatus == {"NOT_STARTED", "PENDING", "READY", "COMPLETED", "FAILED", "CANCELED", "SKIPPED"}

TrackedStage == [status : StageStatus, link : BOOLEAN]

Stage(status)  == [status |-> status, link |-> FALSE]
Linked(status) == [status |-> status, link |-> TRUE]
NotStarted     == Stage("NOT_STARTED")

NoStages == [s \in StageType |-> NotStarted]

isStageTerminal(status) == status \in {"COMPLETED", "SKIPPED", "FAILED"}
isStageSuccess(status)  == status \in {"COMPLETED", "SKIPPED"}

\* Mutant: completedStages holds what its name says, the stages that are done.
StoredIfDone(stages) == {s \in StageType : isStageTerminal(stages[s].status)}

\* The stages a checkpoint stores.
Stored(stages) == {s \in StageType : stages[s].status # "NOT_STARTED"}

areAllStagesComplete(stages) == \A s \in Stored(stages) : isStageTerminal(stages[s].status)

hasTimelockProgress(stages) == Stored(stages) \cap TimelockStages # {}

\* splitStages: the part of a stage list that belongs to one checkpoint.
Restricted(stages, part) == [s \in StageType |-> IF s \in part THEN stages[s] ELSE NotStarted]

\* loadFromCheckpoint: every stored stage replaces the one in the list.
Overlay(stages, loaded) ==
  [s \in StageType |-> IF s \in Stored(loaded) THEN loaded[s] ELSE stages[s]]

-----------------------------------------------------------------------------

\* TrackingCheckpoint.  An input of "none" stands for a key with no entry;
\* the "unknown" inputs are the ones the error path makes up, with an empty
\* governor or timelock address.
GovernorInputs == {"governor", "unknownGovernor"}
TimelockInputs == {"timelock", "unknownTimelock"}

Checkpoint == [input      : {"none"} \cup GovernorInputs \cup TimelockInputs,
               stages     : [StageType -> TrackedStage],
               errorCount : Nat,
               opKey      : BOOLEAN]

NewCheckpoint(input) ==
  [input |-> input, stages |-> NoStages, errorCount |-> 0, opKey |-> FALSE]

Absent == NewCheckpoint("none")

Exists(cp) == cp.input # "none"

isCheckpointErrored(cp, threshold) == cp.errorCount >= threshold

\* The modular layout: a parent whose lifecycle goes on under its operation key.
ContinuesInOperation(cp) ==
  /\ cp.input \in GovernorInputs
  /\ cp.stages["PROPOSAL_QUEUED"].status = "COMPLETED"
  /\ ~hasTimelockProgress(cp.stages)

\* Mutant: a parent that is done up to its queue transaction counts as complete.
isCheckpointCompleteOnStages(cp) ==
  Exists(cp) /\ Stored(cp.stages) # {} /\ areAllStagesComplete(cp.stages)

isCheckpointComplete(cp) ==
  /\ Exists(cp)
  /\ Stored(cp.stages) # {}
  /\ areAllStagesComplete(cp.stages)
  /\ ~ContinuesInOperation(cp)

=============================================================================
