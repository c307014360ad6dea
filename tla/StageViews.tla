------------------------------ MODULE StageViews ------------------------------
(***************************************************************************)
(* What users of the package are told about a list of stages: the current  *)
(* stage, the lifecycle phase, the governor state derived from it, the     *)
(* link to the timelock operation, and the list that is put together from  *)
(* a proposal's checkpoint and that of its operation.                      *)
(*                                                                         *)
(* A list is a function on the types of the stages that are in it: a type  *)
(* occurs once.  Its order is that of the pipeline, Rank, which is what    *)
(* normalizeTimeline sorts by.                                             *)
(***************************************************************************)
EXTENDS Stages, FiniteSets

\* The list a checkpoint stores; all the stages of a call, started or not.
StoredList(stages)    == [s \in Stored(stages) |-> stages[s]]
ResultList(stages, p) == [s \in p |-> stages[s]]

StatusOf(list, s) == IF s \in DOMAIN list THEN list[s].status ELSE "undefined"
Success(list, s)  == isStageSuccess(StatusOf(list, s))
Statuses(list)    == {list[s].status : s \in DOMAIN list}

\* Mutant: a stage that has not started is not counted.
CompleteStarted(list) == \A s \in DOMAIN list : isStageTerminal(list[s].status) \/ list[s] = NotStarted

Complete(list) == \A s \in DOMAIN list : isStageTerminal(list[s].status)

\* STAGE_ORDER
Rank(s) == CASE s = "PROPOSAL_CREATED"   -> 10
             [] s = "VOTING_ACTIVE"      -> 11
             [] s = "PROPOSAL_QUEUED"    -> 12
             [] s = "L2_TIMELOCK"        -> 20
             [] s = "L2_TO_L1_MESSAGE"   -> 21
             [] s = "L1_TIMELOCK"        -> 22
             [] s = "RETRYABLE_EXECUTED" -> 23

\* The first of some stages in the normalised list.
FirstOf(types) == CHOOSE s \in types : \A t \in types : Rank(s) <= Rank(t)

-----------------------------------------------------------------------------

STATUS_PRIORITY(status) == CASE status = "COMPLETED"              -> 5
                             [] status \in {"FAILED", "CANCELED"} -> 4
                             [] status = "READY"                  -> 3
                             [] status = "PENDING"                -> 2
                             [] status = "SKIPPED"                -> 1
                             [] status = "NOT_STARTED"            -> 0

\* Equal statuses are decided by the number of transactions, which the link stands for.
Preferred(stage, existing) ==
  LET new == STATUS_PRIORITY(stage.status)  old == STATUS_PRIORITY(existing.status)
  IN  new > old \/ (new = old /\ stage.link /\ ~existing.link)

mergeStages(primary, secondary) ==
  [s \in DOMAIN primary \cup DOMAIN secondary |->
     IF s \notin DOMAIN primary THEN secondary[s]
     ELSE IF s \in DOMAIN secondary /\ Preferred(secondary[s], primary[s])
          THEN secondary[s] ELSE primary[s]]

-----------------------------------------------------------------------------

\* The types a predicate of the status holds of; "none" if there is no first.
Where(list, P(_)) == {s \in DOMAIN list : P(list[s].status)}
FirstWhere(types) == IF types = {} THEN "none" ELSE FirstOf(types)

getCurrentStage(list) ==
  LET open(status) == ~isStageTerminal(status)
  IN  FirstWhere(Where(list, open))

\* The stage trackers mark a READY stage as executable.
findAllExecutableStages(list) ==
  LET ready(status) == status = "READY"
  IN  Where(list, ready)

findExecutableStage(list) == FirstWhere(findAllExecutableStages(list))
needsAction(list)         == findExecutableStage(list) # "none"

\* Statuses with no entry in the table, CANCELED and NOT_STARTED, count in the total only.
getTrackingStatusSummary(list) ==
  LET count(status) == Cardinality({s \in DOMAIN list : list[s].status = status})
  IN  [total |-> Cardinality(DOMAIN list), completed |-> count("COMPLETED"), pending |-> count("PENDING"),
       ready |-> count("READY"), failed |-> count("FAILED"), skipped |-> count("SKIPPED")]

isWaiting(list, s) == StatusOf(list, s) \in {"PENDING", "READY", "NOT_STARTED"}

PhaseOf(s) == CASE s = "VOTING_ACTIVE"      -> "voting"
                [] s = "PROPOSAL_QUEUED"    -> "queued"
                [] s = "L2_TIMELOCK"        -> "l2_delay"
                [] s = "L2_TO_L1_MESSAGE"   -> "bridging"
                [] s = "L1_TIMELOCK"        -> "l1_delay"
                [] s = "RETRYABLE_EXECUTED" -> "finalizing"

getLifecyclePhase(list) ==
  LET waiting == {s \in StageType \ {"PROPOSAL_CREATED"} : isWaiting(list, s)}
  IN  CASE DOMAIN list = {} -> "unknown"
        [] DOMAIN list # {} /\ "FAILED" \in Statuses(list) -> "failed"
        [] DOMAIN list # {} /\ "FAILED" \notin Statuses(list) ->
             IF Complete(list) THEN "executed"
             ELSE IF waiting # {} THEN PhaseOf(FirstOf(waiting))
             ELSE IF Success(list, "L2_TIMELOCK") /\ StatusOf(list, "L2_TO_L1_MESSAGE") = "SKIPPED"
             THEN "executed" ELSE "unknown"

\* Mutant: a vote that has succeeded is taken for a queued proposal.
deriveProposalStateEarly(list) ==
  IF Success(list, "RETRYABLE_EXECUTED") THEN "Executed"
  ELSE IF Success(list, "VOTING_ACTIVE") THEN "Queued" ELSE "snapshot"

\* "snapshot" is the governor's answer that the voting stage has kept.
deriveProposalState(list) ==
  CASE \/ Success(list, "RETRYABLE_EXECUTED")
       \/ Success(list, "L2_TIMELOCK") /\ StatusOf(list, "L2_TO_L1_MESSAGE") = "SKIPPED" -> "Executed"
    [] OTHER -> IF "CANCELED" \in Statuses(list)                    THEN "Canceled"
                ELSE IF StatusOf(list, "VOTING_ACTIVE") = "FAILED"  THEN "Defeated"
                ELSE IF Success(list, "PROPOSAL_QUEUED")            THEN "Queued"
                ELSE IF Success(list, "VOTING_ACTIVE")              THEN "Succeeded"
                ELSE "snapshot"

-----------------------------------------------------------------------------

\* extractOperationId and extractTimelockLinkFromStages: what leads on from a list.
extractOperationId(list) ==
  \E s \in DOMAIN list : \/ s = "PROPOSAL_QUEUED" /\ list[s].link
                         \/ s = "L2_TIMELOCK" /\ list[s] # NotStarted

extractTimelockLinkFromStages(list) ==
  "PROPOSAL_QUEUED" \in DOMAIN list /\ list["PROPOSAL_QUEUED"] = Linked("COMPLETED")

\* extractProposals: one proposal as a consumer of the bundled cache sees it, its
\* own stages put together with those of the operation its checkpoint links to.
ExtractedProposal(parent, operation) ==
  LET own    == StoredList(parent.stages)
      linked == StoredList(operation.stages)
      list   == IF parent.opKey /\ DOMAIN linked # {} THEN mergeStages(own, linked) ELSE own
  IN  [stages       |-> list,
       isComplete   |-> DOMAIN list # {} /\ Complete(list),
       timelockLink |-> extractTimelockLinkFromStages(list),
       currentState |-> deriveProposalState(list),
       operationId  |-> "PROPOSAL_QUEUED" \in DOMAIN list /\ list["PROPOSAL_QUEUED"].link]

\* extractTimelockOps: an operation by itself.
ExtractedTimelockOp(operation) ==
  LET list == StoredList(operation.stages)
  IN  [stages |-> list, isComplete |-> DOMAIN list # {} /\ Complete(list)]

KeptBelow(stages, stageIndex) ==
  {s \in Stored(stages) : Cardinality({t \in Stored(stages) : Rank(t) < Rank(s)}) < stageIndex}

\* Mutant: the link is kept with the voting stage.
trimFromStageEarly(cp, stageIndex) ==
  [cp EXCEPT !.stages = Restricted(cp.stages, KeptBelow(cp.stages, stageIndex)), !.errorCount = 0,
             !.opKey = @ /\ stageIndex >= 2]

\* trimFromStage: the first so many stored stages; the link to the operation goes
\* unless the queue stage is kept.
trimFromStage(cp, stageIndex) ==
  [cp EXCEPT !.stages = Restricted(cp.stages, KeptBelow(cp.stages, stageIndex)), !.errorCount = 0,
             !.opKey = @ /\ stageIndex > 2]

\* buildResultFromState: the result of a call, with every stage of its pipeline.
TrackingResult(input, stages) ==
  LET list == ResultList(stages, IF input \in GovernorInputs THEN StageType ELSE TimelockStages)
  IN  [stages       |-> list,
       isComplete   |-> Complete(list),
       timelockLink |-> extractTimelockLinkFromStages(list),
       currentState |-> deriveProposalState(list)]

=============================================================================
