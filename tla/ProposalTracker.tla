--------------------------- MODULE ProposalTracker ---------------------------
(***************************************************************************)
(* ProposalStageTracker.trackByTxHash for one proposal: the checkpoint it  *)
(* resumes from, the stage pipeline it runs against chains that move while *)
(* it runs, and the checkpoints it writes back.                            *)
(*                                                                         *)
(* Three cache keys matter.  "proposal" is tx:{creation transaction}, the  *)
(* parent checkpoint; "operation" is tx:{queue transaction}:op:{id}, the   *)
(* timelock checkpoint the parent links to; "queueTx" is tx:{queue         *)
(* transaction}, the key a call falls back to when it is given the queue   *)
(* transaction.  A call is one of Callers running trackByTxHash with one   *)
(* of those three arguments; several calls may be in flight, interleaved   *)
(* at every await.                                                         *)
(***************************************************************************)
EXTENDS Stages, GovernanceChain

CONSTANTS Callers,        \* concurrent calls of trackByTxHash
          Entries,        \* the arguments they are made with, a subset of CacheKey
          Discovered,     \* BOOLEAN: discovery wrote a pending checkpoint first
          MaxFaults,      \* bound on calls that throw or die with the process
          ErrorThreshold  \* maxErrorCount of queryIncompleteCheckpoints

CacheKey == {"proposal", "queueTx", "operation"}

ASSUME EntriesAssumption    == Entries \subseteq CacheKey
ASSUME DiscoveredAssumption == Discovered \in BOOLEAN
ASSUME BoundsAssumption     == MaxFaults \in Nat /\ ErrorThreshold \in Nat

VARIABLES cache,          \* CacheAdapter: the checkpoint under each key
          run,            \* the TrackingState of each call in flight
          faults          \* calls that have thrown or died so far

trackerVars == <<cache, run, faults>>
vars == <<chainVars, trackerVars>>

Step == {"idle", "discover", "loadLinked", "saveParent", "saveOperation", "saveLinked"} \cup StageType

Run == [pc     : Step,
        entry  : CacheKey,
        loaded : Checkpoint,                   \* the checkpoint trackByTxHash read
        input  : {"none"} \cup GovernorInputs \cup TimelockInputs,
        stages : [StageType -> TrackedStage],
        opKey  : BOOLEAN,                      \* ctx.timelockOpKey is set
        event  : BOOLEAN]                      \* ctx.callScheduledData is set

IdleRun == [pc |-> "idle", entry |-> "proposal", loaded |-> Absent, input |-> "none",
            stages |-> NoStages, opKey |-> FALSE, event |-> FALSE]

TypeOK ==
  /\ ChainTypeOK
  /\ cache \in [CacheKey -> Checkpoint]
  /\ run \in [Callers -> Run]
  /\ faults \in 0 .. MaxFaults

Init ==
  /\ ChainInit
  /\ cache = [k \in CacheKey |->
                IF k = "proposal" /\ Discovered THEN NewCheckpoint("governor") ELSE Absent]
  /\ run = [c \in Callers |-> IdleRun]
  /\ faults = 0

-----------------------------------------------------------------------------
(* Starting a call: which checkpoint it resumes from.                      *)

\* The transaction's own key, whatever operation the call asked for.
baseKey(entry) == IF entry = "proposal" THEN "proposal" ELSE "queueTx"

LoadedFor(entry) == IF entry = "operation" /\ ~Exists(cache["operation"])
                    THEN cache["queueTx"] ELSE cache[entry]

FirstStep(cp) == CASE cp.input = "none"            -> "discover"
                   [] cp.input \in GovernorInputs  -> "loadLinked"
                   [] cp.input \in TimelockInputs  -> "L2_TIMELOCK"

\* trackByTxHash reads the cache; a checkpoint decides the path, whatever it holds.
\* Nobody holds the queue transaction's hash before it is mined.
trackByTxHash(c, entry) ==
  /\ run[c].pc = "idle"
  /\ entry # "proposal" => phase >= Queued
  /\ LET cp == LoadedFor(entry)
     IN  run' = [run EXCEPT ![c] =
                   [pc |-> FirstStep(cp), entry |-> entry, loaded |-> cp, input |-> cp.input,
                    stages |-> cp.stages, opKey |-> cp.opKey, event |-> FALSE]]
  /\ UNCHANGED <<chainVars, cache, faults>>

\* No checkpoint: look for a proposal in the transaction ...
discoverProposalByTxHash(c) ==
  /\ run[c].pc = "discover"
  /\ run[c].entry = "proposal"
  /\ \E found \in Found(Created) :
       run' = [run EXCEPT ![c] = IF found
                                 THEN [@ EXCEPT !.pc = "PROPOSAL_CREATED", !.input = "governor"]
                                 ELSE IdleRun]
  /\ UNCHANGED <<chainVars, cache, faults>>

\* ... and then for CallScheduled events, whose operation has a key of its own.
findCallScheduledByTxHash(c) ==
  /\ run[c].pc = "discover"
  /\ run[c].entry # "proposal"
  /\ \E found \in Found(Queued) :
       run' = [run EXCEPT ![c] =
                 IF found
                 THEN [@ EXCEPT !.pc = "L2_TIMELOCK", !.input = "timelock", !.event = TRUE,
                                !.stages = Restricted(cache["operation"].stages, TimelockStages)]
                 ELSE IdleRun]
  /\ UNCHANGED <<chainVars, cache, faults>>

\* runTrackingPipeline merges the linked timelock checkpoint into the parent's stages.
LoadLinkedTimelock(c) ==
  /\ run[c].pc = "loadLinked"
  /\ LET stages == IF run[c].opKey THEN Overlay(run[c].stages, cache["operation"].stages)
                   ELSE run[c].stages
     IN  run' = [run EXCEPT ![c] = [@ EXCEPT !.pc = "PROPOSAL_CREATED", !.stages = stages]]
  /\ UNCHANGED <<chainVars, cache, faults>>

-----------------------------------------------------------------------------
(* The stage pipeline.                                                     *)

isGovernorRun(r) == r.input \in GovernorInputs
needsL1          == route # "l2Only"

SaveStep(r) == IF isGovernorRun(r) THEN "saveParent" ELSE "saveOperation"

\* Where runPipeline goes after stage s.  A governor pipeline that stops, at its
\* last stage or before, enters the timelock stages only through the gate.
NextStep(r, stages, s, continue) ==
  CASE s = "PROPOSAL_CREATED" /\ continue -> "VOTING_ACTIVE"
    [] s = "VOTING_ACTIVE" /\ continue    -> "PROPOSAL_QUEUED"
    [] s \in ParentStages /\ (s = "PROPOSAL_QUEUED" \/ ~continue) ->
         IF stages["PROPOSAL_QUEUED"].status = "COMPLETED" THEN "L2_TIMELOCK" ELSE SaveStep(r)
    [] s = "L2_TIMELOCK" /\ continue      -> "L2_TO_L1_MESSAGE"
    [] s = "L2_TO_L1_MESSAGE" /\ continue -> "L1_TIMELOCK"
    [] s = "L1_TIMELOCK" /\ continue      -> "RETRYABLE_EXECUTED"
    [] OTHER                              -> SaveStep(r)

\* A stage tracker returns the stage list and whether the pipeline goes on.
Return(c, s, stages, continue) ==
  /\ run' = [run EXCEPT ![c] = [@ EXCEPT !.stages = stages,
                                         !.pc = NextStep(run[c], stages, s, continue)]]
  /\ UNCHANGED <<chainVars, cache, faults>>

addStage(c, s, stage, continue) == Return(c, s, [run[c].stages EXCEPT ![s] = stage], continue)
Stop(c, s) == Return(c, s, run[c].stages, FALSE)

\* Stage s is the one to run, and its cached form, if any, does not settle it.
Tracking(c, s) == run[c].pc = s /\ ~isStageSuccess(run[c].stages[s].status)

operationKnown(r) ==
  \/ r.input = "timelock"
  \/ isGovernorRun(r) /\ (r.stages["PROPOSAL_QUEUED"].link \/ r.stages["L2_TIMELOCK"] # NotStarted)

callScheduledDataKnown(r) ==
  r.event \/ r.stages["PROPOSAL_QUEUED"].link \/ r.stages["L2_TIMELOCK"] # NotStarted

\* The transaction a later stage follows: recorded by a COMPLETED stage that has it.
follows(r, s) == r.stages[s] = Linked("COMPLETED")

\* Mutant: whatever the checkpoint has for the stage is reused.
UseStoredStage(c) ==
  \E s \in StageType :
    /\ run[c].pc = s
    /\ run[c].stages[s].status # "NOT_STARTED"
    /\ Return(c, s, run[c].stages, TRUE)

\* runStage: a COMPLETED or SKIPPED stage in the checkpoint is not tracked again.
UseCachedStage(c) ==
  \E s \in StageType :
    /\ run[c].pc = s
    /\ isStageSuccess(run[c].stages[s].status)
    /\ Return(c, s, run[c].stages, s = "L2_TIMELOCK" => operationKnown(run[c]))

\* The empty governor address of an error checkpoint stops the pipeline at once.
trackProposalCreatedStage(c) ==
  /\ Tracking(c, "PROPOSAL_CREATED")
  /\ \/ /\ run[c].input = "unknownGovernor"
        /\ Stop(c, "PROPOSAL_CREATED")
     \/ /\ run[c].input # "unknownGovernor"
        /\ \E found \in Found(Created) :
             addStage(c, "PROPOSAL_CREATED", IF found THEN Stage("COMPLETED") ELSE NotStarted, found)

\* Mutant: the governor's own word is passed on as the status of the stage.
VotingStatusUnmapped(state) == IF state = "Pending" THEN "NOT_STARTED" ELSE state

VotingStatus(state) ==
  CASE state = "Pending"  -> "NOT_STARTED"
    [] state = "Active"   -> "PENDING"
    [] state = "Canceled" -> "CANCELED"
    [] state = "Defeated" -> "FAILED"
    [] OTHER              -> "COMPLETED"

trackVotingStage(c) ==
  /\ Tracking(c, "VOTING_ACTIVE")
  /\ \E state \in getProposalState :
       LET status == VotingStatus(state)
       IN  addStage(c, "VOTING_ACTIVE", Stage(status), status = "COMPLETED")

\* Three reads: the governor's state, the ProposalQueued event, and the receipt
\* of the queue transaction, which names the operation.  The stage is COMPLETED
\* without the operation when that receipt comes back null.
QueuedStage(state, event, receipt) ==
  CASE state \in {"Pending", "Active"}                -> NotStarted
    [] state \in {"Defeated", "Canceled"}             -> Stage("SKIPPED")
    [] state = "Succeeded" /\ ~event                  -> Stage("READY")
    [] state \in {"Queued", "Executed"} /\ ~event     -> Stage("PENDING")
    [] OTHER -> IF receipt THEN Linked("COMPLETED") ELSE Stage("COMPLETED")

trackProposalQueuedStage(c) ==
  /\ Tracking(c, "PROPOSAL_QUEUED")
  /\ \E state \in getProposalState, event, receipt \in Found(Queued) :
       addStage(c, "PROPOSAL_QUEUED", QueuedStage(state, event, receipt), TRUE)

\* trackTimelock, for either chain: a done operation is COMPLETED whether or not
\* the search finds the event of its execution.
TimelockStage(state, executed) ==
  CASE state = "none"    -> NotStarted
    [] state = "pending" -> Stage("PENDING")
    [] state = "ready"   -> Stage("READY")
    [] state = "done"    -> IF executed THEN Linked("COMPLETED") ELSE Stage("COMPLETED")

\* Mutant: the pipeline goes on whether or not the operation was executed.
trackL2TimelockStageUnchecked(c) ==
  /\ Tracking(c, "L2_TIMELOCK")
  /\ operationKnown(run[c]) /\ callScheduledDataKnown(run[c])
  /\ \E state \in l2OperationState, executed \in Found(L2Executed) :
       addStage(c, "L2_TIMELOCK", TimelockStage(state, executed), TRUE)

trackL2TimelockStage(c) ==
  /\ Tracking(c, "L2_TIMELOCK")
  /\ \/ /\ ~(operationKnown(run[c]) /\ callScheduledDataKnown(run[c]))
        /\ Stop(c, "L2_TIMELOCK")
     \/ /\ operationKnown(run[c]) /\ callScheduledDataKnown(run[c])
        /\ \E state \in l2OperationState, executed \in Found(L2Executed) :
             LET stage == TimelockStage(state, executed)
             IN  addStage(c, "L2_TIMELOCK", stage, stage.link)

\* The L2-only path: every stage of the L1 round trip is skipped at once.
L1RoundTripSkipped(stages) ==
  [s \in StageType |->
     IF s \in {"L2_TO_L1_MESSAGE", "L1_TIMELOCK", "RETRYABLE_EXECUTED"} THEN Stage("SKIPPED") ELSE stages[s]]

\* Mutant: the end of the challenge period is taken for the execution.
MessageStageOnceConfirmed(receipt, status, outboxEvent) ==
  IF ~receipt THEN NotStarted
  ELSE IF route = "noMessage" THEN Stage("SKIPPED")
  ELSE IF status = "UNCONFIRMED" THEN Stage("PENDING") ELSE Linked("COMPLETED")

MessageStage(receipt, status, outboxEvent) ==
  IF ~receipt THEN NotStarted
  ELSE IF route = "noMessage" THEN Stage("SKIPPED")
  ELSE CASE status = "UNCONFIRMED" -> Stage("PENDING")
         [] status = "CONFIRMED"   -> Stage("READY")
         [] status = "EXECUTED"    -> IF outboxEvent THEN Linked("COMPLETED") ELSE Stage("COMPLETED")

trackL2ToL1MessageStage(c) ==
  /\ Tracking(c, "L2_TO_L1_MESSAGE")
  /\ \/ /\ ~needsL1
        /\ Return(c, "L2_TO_L1_MESSAGE", L1RoundTripSkipped(run[c].stages), FALSE)
     \/ /\ needsL1
        /\ ~follows(run[c], "L2_TIMELOCK")
        /\ Stop(c, "L2_TO_L1_MESSAGE")
     \/ /\ needsL1                    \* fast path: still inside the challenge period
        /\ follows(run[c], "L2_TIMELOCK")
        /\ run[c].stages["L2_TO_L1_MESSAGE"].status = "PENDING"
        /\ FALSE \in Found(Confirmed)
        /\ Stop(c, "L2_TO_L1_MESSAGE")
     \/ /\ needsL1
        /\ follows(run[c], "L2_TIMELOCK")
        /\ \E receipt \in Found(L2Executed), status \in messageStatus, event \in Found(OutboxDone) :
             LET stage == MessageStage(receipt, status, event)
             IN  addStage(c, "L2_TO_L1_MESSAGE", stage, stage.status = "COMPLETED")

\* The L1 operation id is read from the receipt of the outbox execution.
trackL1TimelockStage(c) ==
  /\ Tracking(c, "L1_TIMELOCK")
  /\ \E receipt \in Found(OutboxDone), state \in l1OperationState, executed \in Found(L1Executed) :
       LET discovered == follows(run[c], "L2_TO_L1_MESSAGE") /\ receipt
           stage      == IF discovered THEN TimelockStage(state, executed) ELSE NotStarted
       IN  addStage(c, "L1_TIMELOCK", stage, stage.link)

\* Mutant: tickets that nobody has redeemed yet count as no tickets.
RetryableStageIfRedeemed(receipt, redeem) ==
  IF ~receipt \/ redeem # "REDEEMED" THEN Stage("SKIPPED") ELSE Stage("COMPLETED")

\* Both "no retryable tickets" and "receipt not found" skip the stage; a ticket
\* whose redemption cannot be fetched counts as not redeemed yet.
RetryableStage(receipt, redeem) ==
  IF ~receipt \/ route = "noTicket" THEN Stage("SKIPPED")
  ELSE CASE redeem = "EXPIRED"  -> Stage("FAILED")
         [] redeem = "REDEEMED" -> Stage("COMPLETED")
         [] OTHER               -> Stage("READY")

trackRetryablesStage(c) ==
  /\ Tracking(c, "RETRYABLE_EXECUTED")
  /\ \/ /\ ~follows(run[c], "L1_TIMELOCK")
        /\ Stop(c, "RETRYABLE_EXECUTED")
     \/ /\ follows(run[c], "L1_TIMELOCK")
        /\ \E receipt \in Found(L1Executed), redeem \in redeemStatus :
             addStage(c, "RETRYABLE_EXECUTED", RetryableStage(receipt, redeem), FALSE)

-----------------------------------------------------------------------------
(* Saving.  Parent and timelock checkpoint are two writes.                 *)

\* runTrackingPipeline derives timelockOpKey from the queue transaction if it is
\* not set yet; saveModularCheckpoints then writes the parent ...
SaveParent(c) ==
  /\ run[c].pc = "saveParent"
  /\ LET r      == run[c]
         opKey  == r.opKey \/ r.stages["PROPOSAL_QUEUED"].link
         parent == [input |-> r.input, stages |-> Restricted(r.stages, ParentStages),
                    errorCount |-> 0, opKey |-> opKey]
     IN  /\ cache' = [cache EXCEPT ![baseKey(r.entry)] = parent]
         /\ run' = [run EXCEPT ![c] = IF opKey /\ hasTimelockProgress(r.stages)
                                      THEN [@ EXCEPT !.pc = "saveLinked"] ELSE IdleRun]
  /\ UNCHANGED <<chainVars, faults>>

OperationCheckpoint(input, stages) ==
  [NewCheckpoint(input) EXCEPT !.stages = Restricted(stages, TimelockStages)]

\* ... and, if there is timelock progress, the linked checkpoint.
SaveLinkedTimelock(c) ==
  /\ run[c].pc = "saveLinked"
  /\ cache' = [cache EXCEPT !["operation"] = OperationCheckpoint("timelock", run[c].stages)]
  /\ run' = [run EXCEPT ![c] = IdleRun]
  /\ UNCHANGED <<chainVars, faults>>

\* A timelock run writes one checkpoint, under the operation key.
SaveOperation(c) ==
  /\ run[c].pc = "saveOperation"
  /\ cache' = [cache EXCEPT !["operation"] = OperationCheckpoint(run[c].input, run[c].stages)]
  /\ run' = [run EXCEPT ![c] = IdleRun]
  /\ UNCHANGED <<chainVars, faults>>

\* Mutant: the error checkpoint does not carry over the stages that were loaded.
SaveBareErrorCheckpoint(c) ==
  /\ run[c].pc \in {"discover", "loadLinked"} \cup StageType
  /\ faults < MaxFaults
  /\ run[c].input # "none"
  /\ cache' = [cache EXCEPT ![run[c].entry] = NewCheckpoint(run[c].input)]
  /\ run' = [run EXCEPT ![c] = IdleRun]
  /\ faults' = faults + 1
  /\ UNCHANGED chainVars

\* An RPC error ends the call: the checkpoint it loaded, or one made up with an
\* empty address, goes back with fresh metadata.  Gas errors are not counted.
SaveErrorCheckpoint(c) ==
  /\ run[c].pc \in {"discover", "loadLinked"} \cup StageType
  /\ faults < MaxFaults
  /\ LET r    == run[c]
         base == IF Exists(r.loaded) THEN r.loaded
                 ELSE NewCheckpoint(IF r.entry = "operation" THEN "unknownTimelock"
                                                             ELSE "unknownGovernor")
     IN  \E counted \in {0, 1} :
           cache' = [cache EXCEPT ![r.entry] =
                       [base EXCEPT !.errorCount = @ + counted, !.opKey = FALSE]]
  /\ run' = [run EXCEPT ![c] = IdleRun]
  /\ faults' = faults + 1
  /\ UNCHANGED chainVars

\* The process dies in the middle of a call, perhaps between the two writes.
Crash(c) ==
  /\ run[c].pc # "idle"
  /\ faults < MaxFaults
  /\ run' = [run EXCEPT ![c] = IdleRun]
  /\ faults' = faults + 1
  /\ UNCHANGED <<chainVars, cache>>

-----------------------------------------------------------------------------

TrackStage(c) ==
  \/ UseCachedStage(c)
  \/ trackProposalCreatedStage(c)
  \/ trackVotingStage(c)
  \/ trackProposalQueuedStage(c)
  \/ trackL2TimelockStage(c)
  \/ trackL2ToL1MessageStage(c)
  \/ trackL1TimelockStage(c)
  \/ trackRetryablesStage(c)

Continue(c) ==
  \/ discoverProposalByTxHash(c)
  \/ findCallScheduledByTxHash(c)
  \/ LoadLinkedTimelock(c)
  \/ TrackStage(c)
  \/ SaveParent(c)
  \/ SaveLinkedTimelock(c)
  \/ SaveOperation(c)

Next ==
  \/ ChainStep /\ UNCHANGED trackerVars
  \/ \E c \in Callers :
       \/ \E entry \in Entries : trackByTxHash(c, entry)
       \/ Continue(c)
       \/ SaveErrorCheckpoint(c)
       \/ Crash(c)

Spec == Init /\ [][Next]_vars

\* A call in flight runs on, somebody keeps asking for the proposal, and the
\* governance process does not halt by itself.  Nothing is fair to faults.
FairSpec ==
  /\ Spec
  /\ WF_vars(Advance /\ UNCHANGED trackerVars)
  /\ \A c \in Callers : /\ WF_vars(Continue(c))
                         /\ SF_vars(trackByTxHash(c, "proposal"))

-----------------------------------------------------------------------------
(* Properties.                                                             *)

\* The least the chains must have reached before a status may be reported.
Since(milestone) == phase >= milestone

Evidence(s, status) ==
  status = "NOT_STARTED" \/
  CASE s = "PROPOSAL_CREATED" -> status = "COMPLETED"
    [] s = "VOTING_ACTIVE" ->
         \/ status = "PENDING" /\ Since(Active)
         \/ status = "COMPLETED" /\ Since(Succeeded)
         \/ status = "FAILED" /\ fate = "Defeated"
         \/ status = "CANCELED" /\ fate = "Canceled"
    [] s = "PROPOSAL_QUEUED" ->
         \/ status = "READY" /\ Since(Succeeded)
         \/ status \in {"PENDING", "COMPLETED"} /\ Since(Queued)
         \/ status = "SKIPPED" /\ fate = "Canceled"
    [] s = "L2_TIMELOCK" ->
         \/ status = "PENDING" /\ Since(Queued)
         \/ status = "READY" /\ Since(L2Ready)
         \/ status = "COMPLETED" /\ Since(L2Executed)
    [] s = "L2_TO_L1_MESSAGE" ->
         \/ status = "PENDING" /\ Since(L2Executed)
         \/ status = "READY" /\ Since(Confirmed)
         \/ status = "COMPLETED" /\ Since(OutboxDone)
         \/ status = "SKIPPED" /\ route \in {"l2Only", "noMessage"} /\ Since(L2Executed)
    [] s = "L1_TIMELOCK" ->
         \/ status = "PENDING" /\ Since(OutboxDone)
         \/ status = "READY" /\ Since(L1Ready)
         \/ status = "COMPLETED" /\ Since(L1Executed)
         \/ status = "SKIPPED" /\ route = "l2Only" /\ Since(L2Executed)
    [] s = "RETRYABLE_EXECUTED" ->
         \/ status = "READY" /\ Since(L1Executed)
         \/ status = "COMPLETED" /\ Since(Redeemed)
         \/ status = "FAILED" /\ fate = "Expired"
         \/ status = "SKIPPED" /\ Since(L1Executed)
         \/ status = "SKIPPED" /\ route = "l2Only" /\ Since(L2Executed)

Justified(stages) == \A s \in StageType : Evidence(s, stages[s].status)

\* No checkpoint claims more than the chains have done, however stale the nodes
\* that were read, however calls interleave and wherever they throw or die: in
\* particular nothing on L1 is skipped or completed before L2 has executed.
CheckpointsAreTrue == \A k \in CacheKey : Justified(cache[k].stages)

\* The timelock stages of a checkpoint are a prefix of the pipeline: a stage that
\* says anything at all follows one that is COMPLETED or SKIPPED, although the list
\* was merged from two checkpoints that are written and lost independently.
StagesInOrder(stages) ==
  /\ stages["L2_TO_L1_MESSAGE"] # NotStarted => isStageSuccess(stages["L2_TIMELOCK"].status)
  /\ stages["L1_TIMELOCK"] # NotStarted => isStageSuccess(stages["L2_TO_L1_MESSAGE"].status)
  /\ stages["RETRYABLE_EXECUTED"] # NotStarted => isStageSuccess(stages["L1_TIMELOCK"].status)

CheckpointsInOrder == \A k \in CacheKey : StagesInOrder(cache[k].stages)

\* queryIncompleteCheckpoints, as far as one proposal's checkpoints go.
NeedsTracking(k) ==
  LET cp == cache[k] IN
  /\ Exists(cp)
  /\ ~isCheckpointComplete(cp)
  /\ cp.stages["VOTING_ACTIVE"].status # "FAILED"
  /\ ~isCheckpointErrored(cp, ErrorThreshold)
  /\ ~(cp.input \in GovernorInputs /\ cp.opKey /\ isCheckpointComplete(cache["operation"]))

Quiet == \A c \in Callers : run[c].pc = "idle"

\* Whoever re-tracks what queryIncompleteCheckpoints returns keeps following a
\* proposal that is cached and has not come to its end.
UnfinishedIsQueried ==
  Quiet /\ ~Finished /\ Exists(cache["proposal"])
    => \E k \in CacheKey : NeedsTracking(k)

\* The same once a run has seen the vote begin: a proposal that is under way is
\* never dropped from the query, across errors, crashes between the two writes,
\* and calls that enter by the queue transaction.
UnderWayIsQueried ==
  Stored(cache["proposal"].stages) \ {"PROPOSAL_CREATED"} # {} => UnfinishedIsQueried

\* The RETRYABLE_EXECUTED stage is skipped only where there are no tickets.
TicketsAreNotSkipped ==
  \A k \in CacheKey :
    cache[k].stages["RETRYABLE_EXECUTED"].status = "SKIPPED" => route # "roundTrip"

\* Progress is never lost: a stage some checkpoint has as COMPLETED or SKIPPED
\* stays so under that key, and keeps the transaction the next stage follows,
\* although errors, restarts and the second entry point all rewrite checkpoints.
ProgressIsKept ==
  [][\A k \in CacheKey, s \in StageType :
       isStageSuccess(cache[k].stages[s].status)
         => cache'[k].stages[s] = cache[k].stages[s]]_vars

\* The tracker is a LifecycleObserver of the stages its two checkpoints have as done.
Recorded == {s \in StageType : \E k \in CacheKey : isStageSuccess(cache[k].stages[s].status)}

Observer == INSTANCE LifecycleObserver WITH done <- Recorded

\* What the cache says of a proposal only grows and is always earned: no restart,
\* error or re-tracking takes back a finished stage or adds one too early.
ImplementsObserver == Observer!Spec

\* The stage whose success ends the lifecycle.
LastStage == IF route = "noMessage" THEN "L2_TO_L1_MESSAGE" ELSE "RETRYABLE_EXECUTED"

\* A proposal that came through ends up recorded as such, and one that was voted
\* down as FAILED.
OutcomeIsRecorded ==
  /\ (phase = FinalPhase(route) /\ fate = "live")
       ~> isStageSuccess(cache["operation"].stages[LastStage].status)
  /\ fate = "Defeated" ~> cache["proposal"].stages["VOTING_ACTIVE"].status = "FAILED"

\* The checkpoint a failed call leaves behind is one from which a later call
\* tracks the proposal.
ErrorIsRetried ==
  cache["proposal"].input = "unknownGovernor" ~> cache["proposal"].input = "governor"

=============================================================================
