----------------------- MODULE ProposalTracker_proofs -----------------------
(***************************************************************************)
(* What the checkpoints of a proposal are good for, for any set of         *)
(* callers, any entry points and any bound on faults.  They are well       *)
(* formed and true, and their timelock stages are in the order of the      *)
(* pipeline; and, with exact reads, tickets are not skipped and the query  *)
(* keeps returning a proposal that is under way.                           *)
(*                                                                         *)
(* The truth of a checkpoint is not inductive by itself: a checkpoint is   *)
(* written from the stages of a call, and a call starts from, and on an    *)
(* error gives back, the checkpoint it loaded.  The invariant Earned adds  *)
(* both, and what a pipeline that has come to a stage has behind it.  The  *)
(* order is proved, for nodes that lag too, from what kinds of stages may  *)
(* be found under which key; the last two need that a stage that is done   *)
(* leaves its successor in the same checkpoint.                            *)
(***************************************************************************)
EXTENDS ProposalTracker, TLAPS

StageList == [StageType -> TrackedStage]

\* What the runner has established when it comes to a stage.
Reached(r) ==
  /\ r.pc = "PROPOSAL_QUEUED" => isStageSuccess(r.stages["VOTING_ACTIVE"].status)
  /\ r.pc \in {"L2_TO_L1_MESSAGE", "L1_TIMELOCK", "RETRYABLE_EXECUTED"}
       => isStageSuccess(r.stages["L2_TIMELOCK"].status)

\* Only a proposal that is being voted on can be defeated, and none travels
\* farther than its route.
ChainIsSound ==
  /\ fate = "Defeated" => phase = Active
  /\ phase <= FinalPhase(route)

EarnedRun(r) == Justified(r.stages) /\ Justified(r.loaded.stages) /\ Reached(r)

Earned ==
  /\ TypeOK
  /\ ChainIsSound
  /\ CheckpointsAreTrue
  /\ \A c \in Callers : EarnedRun(run[c])

-----------------------------------------------------------------------------
(* Stages and checkpoints.                                                 *)

\* The two ways to write a stage give a stage.
LEMMA StageIsTracked ==
  ASSUME NEW status \in StageStatus
  PROVE  Stage(status) \in TrackedStage /\ Linked(status) \in TrackedStage
BY DEF Stage, Linked, TrackedStage

\* NOT_STARTED everywhere is a stage list, and nothing in it claims anything.
LEMMA NoStagesFact == NoStages \in StageList /\ Justified(NoStages)
BY DEF NoStages, NotStarted, Stage, StageList, TrackedStage, StageStatus, Justified, Evidence

\* Splitting and merging stage lists gives stage lists, each stage of which comes
\* from one of the lists or is NOT_STARTED; so truth is preserved.
LEMMA SplitAndMerge ==
  ASSUME NEW x \in StageList, NEW y \in StageList, NEW part, Justified(x), Justified(y)
  PROVE  /\ Restricted(x, part) \in StageList /\ Justified(Restricted(x, part))
         /\ Overlay(x, y) \in StageList /\ Justified(Overlay(x, y))
<1>1. Restricted(x, part) \in StageList /\ Overlay(x, y) \in StageList
  BY DEF Restricted, Overlay, NotStarted, Stage, StageList, TrackedStage, StageStatus
<1>2. \A s \in StageType : Evidence(s, NotStarted.status)
  BY DEF Evidence, NotStarted, Stage
<1>3. Justified(Restricted(x, part))
  BY <1>2 DEF Justified, Restricted, StageList
<1>4. Justified(Overlay(x, y))
  BY DEF Justified, Overlay, StageList
<1> QED BY <1>1, <1>3, <1>4

\* A checkpoint made up from an input is a checkpoint without stages.
LEMMA NewCheckpointFact ==
  ASSUME NEW input \in {"none"} \cup GovernorInputs \cup TimelockInputs
  PROVE  NewCheckpoint(input) \in Checkpoint /\ NewCheckpoint(input).stages = NoStages
BY NoStagesFact DEF NewCheckpoint, Checkpoint, StageList

\* A caller that is idle claims nothing.
LEMMA IdleRunFact == IdleRun \in Run /\ EarnedRun(IdleRun)
<1>1. Absent \in Checkpoint /\ Absent.stages = NoStages
  BY NewCheckpointFact DEF Absent
<1> QED BY <1>1, NoStagesFact DEF IdleRun, Run, Step, CacheKey, EarnedRun, Reached, StageList

-----------------------------------------------------------------------------
(* What a read can tell.                                                   *)

\* The milestones are natural numbers, in the order of their names.
LEMMA MilestonesFact ==
  /\ Created = 1 /\ Active = 2 /\ Succeeded = 3 /\ Queued = 4 /\ L2Ready = 5 /\ L2Executed = 6
  /\ Confirmed = 7 /\ OutboxDone = 8 /\ L1Ready = 9 /\ L1Executed = 10 /\ Redeemed = 11
BY DEF Created, Active, Succeeded, Queued, L2Ready, L2Executed, Confirmed, OutboxDone,
       L1Ready, L1Executed, Redeemed

\* A view is never ahead of the chains, and knows a death only if there was one.
LEMMA ViewIsBehind ==
  ASSUME ChainTypeOK, NEW v \in Views
  PROVE  /\ v.at \in Nat /\ v.at <= phase
         /\ v.fate \in {fate, "live"}
BY DEF ChainTypeOK, Phases, Created, Redeemed, Views, Current

\* An event or receipt that is found has happened.
LEMMA FoundIsTrue ==
  ASSUME ChainTypeOK, NEW milestone \in Nat, NEW found \in Found(milestone)
  PROVE  found \in BOOLEAN /\ (found => Since(milestone))
<1>1. found \in BOOLEAN
  BY DEF Found
<1>2. PICK v \in Views : found <=> v.at >= milestone
  BY DEF Found
<1>3. v.at \in Nat /\ v.at <= phase /\ phase \in Nat
  BY ViewIsBehind DEF ChainTypeOK, Phases, Created, Redeemed
<1> QED BY <1>1, <1>2, <1>3 DEF Since

\* What the chains have done they do not take back, so a status that was earned
\* stays earned.
LEMMA TruthIsKept ==
  ASSUME ChainTypeOK, ChainStep \/ UNCHANGED chainVars,
         NEW s \in StageType, NEW status, Evidence(s, status)
  PROVE  Evidence(s, status)'
<1>1. CASE UNCHANGED chainVars
  BY <1>1 DEF chainVars, Evidence, Since
<1>2. CASE ChainStep
  <2>1. fate = "live" /\ route' = route /\ phase \in Nat /\ phase' \in {phase, phase + 1}
    BY <1>2 DEF ChainStep, Advance, Die, Finished, ChainTypeOK, Phases, Created, Redeemed
  <2>2. \A milestone \in Nat : Since(milestone) => Since(milestone)'
    BY <2>1 DEF Since
  <2> QED BY <2>1, <2>2, MilestonesFact DEF Evidence, StageType, ParentStages, TimelockStages
<1> QED BY <1>1, <1>2

\* A justified list stays justified, whatever the chains do next.
LEMMA JustifiedIsKept ==
  ASSUME ChainTypeOK, ChainStep \/ UNCHANGED chainVars, NEW x, Justified(x)
  PROVE  Justified(x)'
BY TruthIsKept DEF Justified

-----------------------------------------------------------------------------
(* What an answer tells of the chains.                                     *)

\* The governor answers that a vote is open, won or queued only when it is, and
\* that a proposal is dead only when it is.
LEMMA ProposalStateIsTrue ==
  ASSUME ChainTypeOK, NEW state \in getProposalState
  PROVE  /\ state \in {"Pending", "Active", "Succeeded", "Queued", "Executed", "Defeated", "Canceled"}
         /\ state = "Active" => Since(Active)
         /\ state = "Succeeded" => Since(Succeeded)
         /\ state \in {"Queued", "Executed"} => Since(Queued)
         /\ state \in {"Defeated", "Canceled"} => fate = state
<1>1. PICK v \in Views : v.at >= Created /\ state = proposalStateOf(v)
  BY DEF getProposalState
<1>2. v.at \in Nat /\ v.at <= phase /\ phase \in Nat /\ v.fate \in {fate, "live"}
  BY ViewIsBehind DEF ChainTypeOK, Phases, Created, Redeemed
<1> QED BY <1>1, <1>2, MilestonesFact DEF proposalStateOf, Since

\* A timelock answers that an operation has come to a milestone only when it has.
LEMMA OperationStateIsTrue ==
  ASSUME ChainTypeOK, NEW scheduled \in Nat, NEW ready \in Nat, NEW done \in Nat, NEW canceled,
         scheduled <= ready, ready <= done,
         NEW v \in Views, NEW state, state = operationStateOf(v, scheduled, ready, done, canceled)
  PROVE  /\ state \in {"none", "pending", "ready", "done"}
         /\ state = "pending" => Since(scheduled)
         /\ state = "ready" => Since(ready)
         /\ state = "done" => Since(done)
<1>1. v.at \in Nat /\ v.at <= phase /\ phase \in Nat
  BY ViewIsBehind DEF ChainTypeOK, Phases, Created, Redeemed
<1> QED BY <1>1 DEF operationStateOf, Since

\* The outbox tells of a confirmation or an execution only after it.
LEMMA MessageStatusIsTrue ==
  ASSUME ChainTypeOK, NEW status \in messageStatus
  PROVE  /\ status \in {"UNCONFIRMED", "CONFIRMED", "EXECUTED"}
         /\ status = "CONFIRMED" => Since(Confirmed)
         /\ status = "EXECUTED" => Since(OutboxDone)
<1>1. PICK v \in Views : status = messageStatusOf(v)
  BY DEF messageStatus
<1>2. v.at \in Nat /\ v.at <= phase /\ phase \in Nat
  BY ViewIsBehind DEF ChainTypeOK, Phases, Created, Redeemed
<1> QED BY <1>1, <1>2, MilestonesFact DEF messageStatusOf, Since

\* A ticket is told to be redeemed or expired only when it is.
LEMMA RedeemStatusIsTrue ==
  ASSUME ChainTypeOK, NEW redeem \in redeemStatus
  PROVE  /\ redeem = "REDEEMED" => Since(Redeemed)
         /\ redeem = "EXPIRED" => fate = "Expired"
<1>1. CASE redeem = "FETCH_ERROR"
  BY <1>1
<1>2. CASE redeem # "FETCH_ERROR"
  <2>1. PICK v \in Views : redeem = redeemStatusOf(v)
    BY <1>2 DEF redeemStatus
  <2>2. v.at \in Nat /\ v.at <= phase /\ phase \in Nat /\ v.fate \in {fate, "live"}
    BY ViewIsBehind DEF ChainTypeOK, Phases, Created, Redeemed
  <2> QED BY <2>1, <2>2, MilestonesFact DEF redeemStatusOf, Since
<1> QED BY <1>1, <1>2

-----------------------------------------------------------------------------
(* The stage that a tracker makes of the answers is earned.                *)

\* trackVotingStage: the status made of the governor's answer is backed.
LEMMA VotingStageIsTrue ==
  ASSUME ChainTypeOK, NEW state \in getProposalState
  PROVE  VotingStatus(state) \in StageStatus /\ Evidence("VOTING_ACTIVE", VotingStatus(state))
<1>1. state = "Executed" => Since(Succeeded)
  BY ProposalStateIsTrue, MilestonesFact DEF Since, ChainTypeOK, Phases
<1>2. state = "Queued" => Since(Succeeded)
  BY ProposalStateIsTrue, MilestonesFact DEF Since, ChainTypeOK, Phases
<1> QED BY <1>1, <1>2, ProposalStateIsTrue DEF VotingStatus, StageStatus, Evidence

\* The queue stage is run once the vote has passed, so SKIPPED means canceled.
LEMMA QueuedStageIsTrue ==
  ASSUME ChainTypeOK, ChainIsSound, Since(Succeeded), NEW state \in getProposalState,
         NEW event \in Found(Queued), NEW receipt \in Found(Queued)
  PROVE  /\ QueuedStage(state, event, receipt) \in TrackedStage
         /\ Evidence("PROPOSAL_QUEUED", QueuedStage(state, event, receipt).status)
<1>1. event => Since(Queued)
  BY FoundIsTrue, MilestonesFact
<1>2. fate # "Defeated"
  BY MilestonesFact DEF ChainIsSound, Since
<1>3. Stage("READY") \in TrackedStage /\ Stage("PENDING") \in TrackedStage /\ NotStarted \in TrackedStage
      /\ Stage("SKIPPED") \in TrackedStage /\ Stage("COMPLETED") \in TrackedStage
      /\ Linked("COMPLETED") \in TrackedStage
  BY StageIsTracked DEF StageStatus, NotStarted
<1>4. event \in BOOLEAN /\ receipt \in BOOLEAN
  BY DEF Found
<1>5. QueuedStage(state, event, receipt) \in TrackedStage
  BY <1>3, <1>4, ProposalStateIsTrue DEF QueuedStage
<1>6. Evidence("PROPOSAL_QUEUED", QueuedStage(state, event, receipt).status)
  BY <1>1, <1>2, <1>4, ProposalStateIsTrue DEF QueuedStage, Evidence, Stage, Linked, NotStarted
<1> QED BY <1>5, <1>6

\* A timelock stage never claims more than the operation's state does, and only
\* an executed operation lets the pipeline go on.
LEMMA TimelockStageFact ==
  ASSUME NEW state \in {"none", "pending", "ready", "done"}, NEW executed \in BOOLEAN
  PROVE  LET stage == TimelockStage(state, executed)
         IN  /\ stage \in TrackedStage
             /\ stage.status \in {"NOT_STARTED", "PENDING", "READY", "COMPLETED"}
             /\ stage.status = "PENDING" => state = "pending"
             /\ stage.status = "READY" => state = "ready"
             /\ stage.status = "COMPLETED" => state = "done"
             /\ stage.link \in BOOLEAN
             /\ stage.link => stage.status = "COMPLETED"
BY DEF TimelockStage, TrackedStage, StageStatus, Stage, Linked, NotStarted

\* The answers of a timelock.
LEMMA OperationStates ==
  /\ l2OperationState \subseteq {"none", "pending", "ready", "done"}
  /\ l1OperationState \subseteq {"none", "pending", "ready", "done"}
BY DEF l2OperationState, l1OperationState, operationStateOf

\* trackL2TimelockStage, with or without the execution found.
LEMMA L2TimelockStageIsTrue ==
  ASSUME ChainTypeOK, NEW state \in l2OperationState, NEW executed \in BOOLEAN
  PROVE  Evidence("L2_TIMELOCK", TimelockStage(state, executed).status)
<1>1. PICK v \in Views : state = operationStateOf(v, Queued, L2Ready, L2Executed, "Canceled")
  BY DEF l2OperationState
<1>2. Queued \in Nat /\ L2Ready \in Nat /\ L2Executed \in Nat /\ Queued <= L2Ready /\ L2Ready <= L2Executed
  BY MilestonesFact
<1>3. /\ state \in {"none", "pending", "ready", "done"}
      /\ state = "pending" => Since(Queued)
      /\ state = "ready" => Since(L2Ready)
      /\ state = "done" => Since(L2Executed)
  BY <1>1, <1>2, OperationStateIsTrue
<1> QED BY <1>3 DEF Evidence, TimelockStage, Stage, Linked, NotStarted

\* trackL1TimelockStage, with or without the execution found.
LEMMA L1TimelockStageIsTrue ==
  ASSUME ChainTypeOK, NEW state \in l1OperationState, NEW executed \in BOOLEAN
  PROVE  Evidence("L1_TIMELOCK", TimelockStage(state, executed).status)
<1>1. PICK v \in Views : state = operationStateOf(v, OutboxDone, L1Ready, L1Executed, "L1Canceled")
  BY DEF l1OperationState
<1>2. OutboxDone \in Nat /\ L1Ready \in Nat /\ L1Executed \in Nat /\ OutboxDone <= L1Ready /\ L1Ready <= L1Executed
  BY MilestonesFact
<1>3. /\ state \in {"none", "pending", "ready", "done"}
      /\ state = "pending" => Since(OutboxDone)
      /\ state = "ready" => Since(L1Ready)
      /\ state = "done" => Since(L1Executed)
  BY <1>1, <1>2, OperationStateIsTrue
<1> QED BY <1>3 DEF Evidence, TimelockStage, Stage, Linked, NotStarted

\* trackL2ToL1MessageStage, whichever of its three reads lag behind the others.
LEMMA MessageStageIsTrue ==
  ASSUME ChainTypeOK, NEW receipt \in Found(L2Executed), NEW status \in messageStatus,
         NEW event \in Found(OutboxDone)
  PROVE  /\ MessageStage(receipt, status, event) \in TrackedStage
         /\ Evidence("L2_TO_L1_MESSAGE", MessageStage(receipt, status, event).status)
<1>1. receipt => Since(L2Executed)
  BY FoundIsTrue, MilestonesFact
<1>2. receipt \in BOOLEAN /\ event \in BOOLEAN
  BY DEF Found
<1> QED BY <1>1, <1>2, MessageStatusIsTrue
        DEF MessageStage, Evidence, TrackedStage, StageStatus, Stage, Linked, NotStarted

\* The stage is run once the L1 operation has been executed.
LEMMA RetryableStageIsTrue ==
  ASSUME ChainTypeOK, Since(L1Executed), NEW receipt \in BOOLEAN, NEW redeem \in redeemStatus
  PROVE  /\ RetryableStage(receipt, redeem) \in TrackedStage
         /\ Evidence("RETRYABLE_EXECUTED", RetryableStage(receipt, redeem).status)
BY RedeemStatusIsTrue DEF RetryableStage, Evidence, TrackedStage, StageStatus, Stage

-----------------------------------------------------------------------------
(* What the steps are made of: a write to the cache, a step of one call.   *)

\* Every step but those of the chains leaves the chains alone, and a checkpoint
\* that tells the truth can be written under any key.
LEMMA CacheWrite ==
  ASSUME TypeOK, CheckpointsAreTrue, UNCHANGED chainVars,
         NEW k \in CacheKey, NEW cp \in Checkpoint, Justified(cp.stages),
         cache' = [cache EXCEPT ![k] = cp]
  PROVE  cache' \in [CacheKey -> Checkpoint] /\ CheckpointsAreTrue'
<1>1. cache' \in [CacheKey -> Checkpoint]
  BY DEF TypeOK
<1>2. \A j \in CacheKey : Justified(cache'[j].stages)
  BY <1>1 DEF TypeOK, CheckpointsAreTrue
<1>3. ASSUME NEW j \in CacheKey, NEW s \in StageType
      PROVE  Evidence(s, cache[j].stages[s].status)'
  <2>1. PICK status : status = cache'[j].stages[s].status
    OBVIOUS
  <2>2. Evidence(s, status)'
    BY <1>2, <2>1, TruthIsKept DEF Justified, TypeOK
  <2> QED BY <2>1, <2>2 DEF Evidence, Since
<1> QED BY <1>1, <1>3 DEF CheckpointsAreTrue, Justified

\* What the cache says stays true while nobody writes to it.
LEMMA CacheIsKept ==
  ASSUME TypeOK, CheckpointsAreTrue, ChainStep \/ UNCHANGED chainVars, UNCHANGED cache
  PROVE  CheckpointsAreTrue'
<1>1. ASSUME NEW j \in CacheKey, NEW s \in StageType
      PROVE  Evidence(s, cache[j].stages[s].status)'
  <2>1. PICK status : status = cache[j].stages[s].status
    OBVIOUS
  <2>2. Evidence(s, status)'
    BY <2>1, TruthIsKept DEF CheckpointsAreTrue, Justified, TypeOK
  <2> QED BY <2>1, <2>2 DEF Evidence, Since
<1> QED BY <1>1 DEF CheckpointsAreTrue, Justified

\* Replacing one call by one that is earned keeps all calls earned.
LEMMA RunWrite ==
  ASSUME TypeOK, \A d \in Callers : EarnedRun(run[d]), UNCHANGED chainVars,
         NEW c \in Callers, NEW r \in Run, EarnedRun(r), run' = [run EXCEPT ![c] = r]
  PROVE  run' \in [Callers -> Run] /\ \A d \in Callers : EarnedRun(run[d])'
<1>1. run' \in [Callers -> Run]
  BY DEF TypeOK
<1>2. \A d \in Callers : EarnedRun(run'[d])
  BY <1>1 DEF TypeOK
<1>3. ASSUME NEW d \in Callers, NEW s \in StageType
      PROVE  Evidence(s, run[d].stages[s].status)' /\ Evidence(s, run[d].loaded.stages[s].status)'
  <2>1. PICK status, before : status = run'[d].stages[s].status /\ before = run'[d].loaded.stages[s].status
    OBVIOUS
  <2>2. Evidence(s, status)' /\ Evidence(s, before)'
    BY <1>2, <2>1, TruthIsKept DEF EarnedRun, Justified, TypeOK
  <2> QED BY <2>1, <2>2 DEF Evidence, Since
<1>4. ASSUME NEW d \in Callers
      PROVE  EarnedRun(run[d])'
  BY <1>2, <1>3 DEF EarnedRun, Justified, Reached
<1> QED BY <1>1, <1>4

\* A step of a call that writes nothing keeps the invariant if the call's new
\* state is earned; so does the step that ends the call.
LEMMA RunStep ==
  ASSUME Earned, UNCHANGED <<chainVars, cache, faults>>,
         NEW c \in Callers, NEW r \in Run, EarnedRun(r), run' = [run EXCEPT ![c] = r]
  PROVE  Earned'
<1>1. UNCHANGED chainVars /\ UNCHANGED cache /\ UNCHANGED faults
  OBVIOUS
<1>2. CheckpointsAreTrue'
  BY <1>1, CacheIsKept DEF Earned
<1>3. run' \in [Callers -> Run] /\ \A d \in Callers : EarnedRun(run[d])'
  BY <1>1, RunWrite DEF Earned
<1>4. TypeOK' /\ ChainIsSound'
  BY <1>1, <1>3 DEF Earned, TypeOK, ChainTypeOK, ChainIsSound, chainVars
<1> QED BY <1>2, <1>3, <1>4 DEF Earned

\* A step that writes one checkpoint and then ends the call or goes on saving.
LEMMA SaveStepKeeps ==
  ASSUME Earned, UNCHANGED chainVars, faults' \in 0 .. MaxFaults,
         NEW k \in CacheKey, NEW cp \in Checkpoint, Justified(cp.stages),
         cache' = [cache EXCEPT ![k] = cp],
         NEW c \in Callers, NEW r \in Run, EarnedRun(r), run' = [run EXCEPT ![c] = r]
  PROVE  Earned'
<1>1. cache' \in [CacheKey -> Checkpoint] /\ CheckpointsAreTrue'
  BY CacheWrite DEF Earned
<1>2. run' \in [Callers -> Run] /\ \A d \in Callers : EarnedRun(run[d])'
  BY RunWrite DEF Earned
<1>3. TypeOK' /\ ChainIsSound'
  BY <1>1, <1>2 DEF Earned, TypeOK, ChainTypeOK, ChainIsSound, chainVars
<1> QED BY <1>1, <1>2, <1>3 DEF Earned

-----------------------------------------------------------------------------
(* What the pipeline is made of: returning from a stage.                   *)

\* The runner comes to a later stage only if the stage before it said so.
LEMMA NextStepFact ==
  ASSUME NEW r \in Run, NEW stages, NEW s \in StageType, NEW continue \in BOOLEAN
  PROVE  /\ NextStep(r, stages, s, continue) \in Step
         /\ NextStep(r, stages, s, continue) = "PROPOSAL_QUEUED" => s = "VOTING_ACTIVE" /\ continue
         /\ NextStep(r, stages, s, continue) = "L2_TO_L1_MESSAGE" => s = "L2_TIMELOCK" /\ continue
         /\ NextStep(r, stages, s, continue) = "L1_TIMELOCK" => s = "L2_TO_L1_MESSAGE" /\ continue
         /\ NextStep(r, stages, s, continue) = "RETRYABLE_EXECUTED" => s = "L1_TIMELOCK" /\ continue
BY DEF NextStep, SaveStep, Step, StageType, ParentStages, TimelockStages

\* A stage that returns a true list, and goes on only from a stage that is done,
\* keeps the invariant.
LEMMA ReturnKeeps ==
  ASSUME Earned, NEW c \in Callers, NEW s \in StageType, NEW stages \in StageList,
         NEW continue \in BOOLEAN, Justified(stages),
         continue /\ s = "VOTING_ACTIVE" => isStageSuccess(stages["VOTING_ACTIVE"].status),
         continue /\ s \in {"L2_TIMELOCK", "L2_TO_L1_MESSAGE", "L1_TIMELOCK"}
           => isStageSuccess(stages["L2_TIMELOCK"].status),
         Return(c, s, stages, continue)
  PROVE  Earned'
<1> DEFINE next == NextStep(run[c], stages, s, continue)
           r    == [run[c] EXCEPT !.stages = stages, !.pc = next]
<1>1. run[c] \in Run /\ EarnedRun(run[c])
  BY DEF Earned, TypeOK
<1>2. next \in Step /\ r \in Run
  BY <1>1, NextStepFact DEF Run, StageList
<1>3. r.stages = stages /\ r.pc = next /\ r.loaded = run[c].loaded
  BY <1>1 DEF Run
<1>4. EarnedRun(r)
  BY <1>1, <1>3, NextStepFact DEF EarnedRun, Reached
<1>5. run' = [run EXCEPT ![c] = r] /\ UNCHANGED <<chainVars, cache, faults>>
  BY DEF Return
<1> QED BY <1>2, <1>4, <1>5, RunStep

\* The same for a stage that adds one stage to the list, at its own place.
LEMMA AddStageKeeps ==
  ASSUME Earned, NEW c \in Callers, NEW s \in StageType, run[c].pc = s,
         NEW stage \in TrackedStage, Evidence(s, stage.status), NEW continue \in BOOLEAN,
         continue /\ s \in {"VOTING_ACTIVE", "L2_TIMELOCK"} => isStageSuccess(stage.status),
         addStage(c, s, stage, continue)
  PROVE  Earned'
<1> DEFINE stages == [run[c].stages EXCEPT ![s] = stage]
<1>1. run[c] \in Run /\ run[c].stages \in StageList /\ Justified(run[c].stages) /\ Reached(run[c])
  BY DEF Earned, TypeOK, EarnedRun, Run, StageList
<1>2. stages \in StageList /\ Justified(stages)
  BY <1>1 DEF StageList, Justified
<1>3. continue /\ s = "VOTING_ACTIVE" => isStageSuccess(stages["VOTING_ACTIVE"].status)
  BY <1>1 DEF StageList, StageType, ParentStages
<1>4. continue /\ s \in {"L2_TIMELOCK", "L2_TO_L1_MESSAGE", "L1_TIMELOCK"}
        => isStageSuccess(stages["L2_TIMELOCK"].status)
  BY <1>1 DEF StageList, Reached, StageType, TimelockStages
<1>5. Return(c, s, stages, continue)
  BY DEF addStage
<1> HIDE DEF stages
<1> QED BY <1>2, <1>3, <1>4, <1>5, ReturnKeeps

\* A stage whose prerequisite is not there ends the pipeline and changes no stage.
LEMMA StopKeeps ==
  ASSUME Earned, NEW c \in Callers, NEW s \in StageType, Stop(c, s)
  PROVE  Earned'
<1>1. run[c].stages \in StageList /\ Justified(run[c].stages)
  BY DEF Earned, TypeOK, EarnedRun, Run, StageList
<1>2. Return(c, s, run[c].stages, FALSE)
  BY DEF Stop
<1> QED BY <1>1, <1>2, ReturnKeeps

-----------------------------------------------------------------------------
(* The stage trackers, one by one.                                         *)

\* What a call at a stage has.
LEMMA RunFact ==
  ASSUME Earned, NEW c \in Callers
  PROVE  /\ ChainTypeOK /\ ChainIsSound /\ run[c] \in Run
         /\ run[c].stages \in StageList /\ Justified(run[c].stages)
         /\ run[c].loaded \in Checkpoint /\ Justified(run[c].loaded.stages) /\ Reached(run[c])
BY DEF Earned, TypeOK, EarnedRun, Run, StageList

\* A stage that is finished is not tracked again.
LEMMA CachedStageKeeps ==
  ASSUME Earned, NEW c \in Callers, UseCachedStage(c)
  PROVE  Earned'
<1>1. PICK s \in StageType :
        /\ run[c].pc = s /\ isStageSuccess(run[c].stages[s].status)
        /\ Return(c, s, run[c].stages, s = "L2_TIMELOCK" => operationKnown(run[c]))
  BY DEF UseCachedStage
<1>2. s \in {"L2_TIMELOCK", "L2_TO_L1_MESSAGE", "L1_TIMELOCK"}
        => isStageSuccess(run[c].stages["L2_TIMELOCK"].status)
  BY <1>1, RunFact DEF Reached
<1>3. (s = "L2_TIMELOCK" => operationKnown(run[c])) \in BOOLEAN
  OBVIOUS
<1> QED BY <1>1, <1>2, <1>3, RunFact, ReturnKeeps

\* The proposal's own event, found or not.
LEMMA CreatedStageKeeps ==
  ASSUME Earned, NEW c \in Callers, trackProposalCreatedStage(c)
  PROVE  Earned'
<1>1. CASE Stop(c, "PROPOSAL_CREATED")
  BY <1>1, StopKeeps DEF StageType, ParentStages
<1>2. ASSUME NEW found \in Found(Created),
             addStage(c, "PROPOSAL_CREATED", IF found THEN Stage("COMPLETED") ELSE NotStarted, found)
      PROVE  Earned'
  <2> DEFINE stage == IF found THEN Stage("COMPLETED") ELSE NotStarted
  <2>1. found \in BOOLEAN
    BY DEF Found
  <2>2. stage \in TrackedStage /\ Evidence("PROPOSAL_CREATED", stage.status)
    BY DEF Stage, NotStarted, TrackedStage, StageStatus, Evidence
  <2>3. run[c].pc = "PROPOSAL_CREATED" /\ "PROPOSAL_CREATED" \in StageType
    BY DEF trackProposalCreatedStage, Tracking, StageType, ParentStages
  <2> HIDE DEF stage
  <2>4. addStage(c, "PROPOSAL_CREATED", stage, found)
    BY <1>2 DEF stage
  <2> QED BY <2>1, <2>2, <2>3, <2>4, AddStageKeeps
<1> QED BY <1>1, <1>2 DEF trackProposalCreatedStage

\* The vote: one read of the governor's state.
LEMMA VotingStageKeeps ==
  ASSUME Earned, NEW c \in Callers, trackVotingStage(c)
  PROVE  Earned'
<1>1. PICK state \in getProposalState :
        addStage(c, "VOTING_ACTIVE", Stage(VotingStatus(state)), VotingStatus(state) = "COMPLETED")
  BY DEF trackVotingStage
<1>2. Stage(VotingStatus(state)) \in TrackedStage /\ Stage(VotingStatus(state)).status = VotingStatus(state)
  BY VotingStageIsTrue, RunFact, StageIsTracked DEF Stage
<1>3. run[c].pc = "VOTING_ACTIVE" /\ "VOTING_ACTIVE" \in StageType
  BY DEF trackVotingStage, Tracking, StageType, ParentStages
<1>4. (VotingStatus(state) = "COMPLETED") \in BOOLEAN
  OBVIOUS
<1>5. VotingStatus(state) = "COMPLETED" => isStageSuccess(Stage(VotingStatus(state)).status)
  BY <1>2 DEF isStageSuccess
<1>6. Evidence("VOTING_ACTIVE", Stage(VotingStatus(state)).status)
  BY <1>2, VotingStageIsTrue, RunFact
<1> QED BY <1>1, <1>2, <1>3, <1>4, <1>5, <1>6, AddStageKeeps

\* The queueing: the state, and the event that names the operation.
LEMMA QueuedStageKeeps ==
  ASSUME Earned, NEW c \in Callers, trackProposalQueuedStage(c)
  PROVE  Earned'
<1>1. PICK state \in getProposalState, event \in Found(Queued), receipt \in Found(Queued) :
        addStage(c, "PROPOSAL_QUEUED", QueuedStage(state, event, receipt), TRUE)
  BY DEF trackProposalQueuedStage
<1>2. run[c].pc = "PROPOSAL_QUEUED" /\ "PROPOSAL_QUEUED" \in StageType
  BY DEF trackProposalQueuedStage, Tracking, StageType, ParentStages
<1>3. Since(Succeeded)
  <2>1. isStageSuccess(run[c].stages["VOTING_ACTIVE"].status)
    BY <1>2, RunFact DEF Reached
  <2>2. Evidence("VOTING_ACTIVE", run[c].stages["VOTING_ACTIVE"].status)
    BY RunFact DEF Justified, StageType, ParentStages
  <2> QED BY <2>1, <2>2 DEF Evidence, isStageSuccess
<1>4. /\ QueuedStage(state, event, receipt) \in TrackedStage
      /\ Evidence("PROPOSAL_QUEUED", QueuedStage(state, event, receipt).status)
  BY <1>3, RunFact, QueuedStageIsTrue
<1> QED BY <1>1, <1>2, <1>4, AddStageKeeps

\* The L2 timelock: its state, and the execution it may find.
LEMMA L2TimelockStageKeeps ==
  ASSUME Earned, NEW c \in Callers, trackL2TimelockStage(c)
  PROVE  Earned'
<1>1. run[c].pc = "L2_TIMELOCK" /\ "L2_TIMELOCK" \in StageType
  BY DEF trackL2TimelockStage, Tracking, StageType, TimelockStages
<1>2. CASE Stop(c, "L2_TIMELOCK")
  BY <1>1, <1>2, StopKeeps
<1>3. ASSUME NEW state \in l2OperationState, NEW executed \in Found(L2Executed),
             addStage(c, "L2_TIMELOCK", TimelockStage(state, executed), TimelockStage(state, executed).link)
      PROVE  Earned'
  <2> DEFINE stage == TimelockStage(state, executed)
  <2>1. executed \in BOOLEAN /\ Evidence("L2_TIMELOCK", stage.status)
    BY RunFact, L2TimelockStageIsTrue DEF Found
  <2>2. stage \in TrackedStage /\ stage.link \in BOOLEAN /\ (stage.link => isStageSuccess(stage.status))
    BY RunFact, <2>1, TimelockStageFact, OperationStates DEF isStageSuccess
  <2> HIDE DEF stage
  <2>3. addStage(c, "L2_TIMELOCK", stage, stage.link)
    BY <1>3 DEF stage
  <2> QED BY <1>1, <2>1, <2>2, <2>3, AddStageKeeps
<1> QED BY <1>2, <1>3 DEF trackL2TimelockStage

\* The message: skipped, or made of three reads.
LEMMA MessageStageKeeps ==
  ASSUME Earned, NEW c \in Callers, trackL2ToL1MessageStage(c)
  PROVE  Earned'
<1>1. run[c].pc = "L2_TO_L1_MESSAGE" /\ "L2_TO_L1_MESSAGE" \in StageType
  BY DEF trackL2ToL1MessageStage, Tracking, StageType, TimelockStages
<1>2. Since(L2Executed)
  <2>1. isStageSuccess(run[c].stages["L2_TIMELOCK"].status)
    BY <1>1, RunFact DEF Reached
  <2>2. Evidence("L2_TIMELOCK", run[c].stages["L2_TIMELOCK"].status)
    BY RunFact DEF Justified, StageType, TimelockStages
  <2> QED BY <2>1, <2>2 DEF Evidence, isStageSuccess
<1>3. CASE Stop(c, "L2_TO_L1_MESSAGE")
  BY <1>1, <1>3, StopKeeps
<1>4. CASE ~needsL1 /\ Return(c, "L2_TO_L1_MESSAGE", L1RoundTripSkipped(run[c].stages), FALSE)
  <2> DEFINE stages == L1RoundTripSkipped(run[c].stages)
  <2>1. stages \in StageList
    BY RunFact DEF L1RoundTripSkipped, StageList, TrackedStage, Stage, StageStatus
  <2>2. ASSUME NEW s \in StageType
        PROVE  Evidence(s, stages[s].status)
    <3> DEFINE skipped == {"L2_TO_L1_MESSAGE", "L1_TIMELOCK", "RETRYABLE_EXECUTED"}
    <3>1. CASE s \in skipped
      <4>1. stages[s].status = "SKIPPED"
        BY <3>1 DEF L1RoundTripSkipped, Stage
      <4> QED BY <1>2, <1>4, <3>1, <4>1 DEF Evidence, needsL1
    <3>2. CASE s \notin skipped
      BY <3>2, RunFact DEF L1RoundTripSkipped, Justified
    <3> QED BY <3>1, <3>2
  <2> HIDE DEF stages
  <2>3. Return(c, "L2_TO_L1_MESSAGE", stages, FALSE) /\ Justified(stages)
    BY <1>4, <2>2 DEF stages, Justified
  <2> QED BY <1>1, <2>1, <2>3, ReturnKeeps
<1>5. ASSUME NEW receipt \in Found(L2Executed), NEW status \in messageStatus, NEW event \in Found(OutboxDone),
             addStage(c, "L2_TO_L1_MESSAGE", MessageStage(receipt, status, event),
                      MessageStage(receipt, status, event).status = "COMPLETED")
      PROVE  Earned'
  <2>1. (MessageStage(receipt, status, event).status = "COMPLETED") \in BOOLEAN
    OBVIOUS
  <2> QED BY <1>1, <1>5, <2>1, RunFact, MessageStageIsTrue, AddStageKeeps
<1> QED BY <1>3, <1>4, <1>5 DEF trackL2ToL1MessageStage

\* The L1 timelock: skipped, or its state and the execution it may find.
LEMMA L1TimelockStageKeeps ==
  ASSUME Earned, NEW c \in Callers, trackL1TimelockStage(c)
  PROVE  Earned'
<1>1. run[c].pc = "L1_TIMELOCK" /\ "L1_TIMELOCK" \in StageType
  BY DEF trackL1TimelockStage, Tracking, StageType, TimelockStages
<1>2. PICK state \in l1OperationState, executed \in Found(L1Executed) :
        LET known == TimelockStage(state, executed) IN
        \/ addStage(c, "L1_TIMELOCK", known, known.link)
        \/ addStage(c, "L1_TIMELOCK", NotStarted, NotStarted.link)
  BY DEF trackL1TimelockStage
<1>3. executed \in BOOLEAN /\ state \in {"none", "pending", "ready", "done"}
  BY OperationStates DEF Found
<1> DEFINE known == TimelockStage(state, executed)
<1>4. CASE addStage(c, "L1_TIMELOCK", NotStarted, NotStarted.link)
  <2>1. NotStarted \in TrackedStage /\ Evidence("L1_TIMELOCK", NotStarted.status)
          /\ NotStarted.link \in BOOLEAN
    BY DEF NotStarted, Stage, TrackedStage, StageStatus, Evidence
  <2> QED BY <1>1, <1>4, <2>1, AddStageKeeps
<1>5. CASE addStage(c, "L1_TIMELOCK", known, known.link)
  <2>1. known \in TrackedStage /\ known.link \in BOOLEAN
    BY <1>3, TimelockStageFact
  <2>2. Evidence("L1_TIMELOCK", known.status)
    BY <1>3, RunFact, L1TimelockStageIsTrue
  <2> HIDE DEF known
  <2> QED BY <1>1, <1>5, <2>1, <2>2, AddStageKeeps
<1> QED BY <1>2, <1>4, <1>5

\* The tickets: skipped, or the outcome of their redemption.
LEMMA RetryablesStageKeeps ==
  ASSUME Earned, NEW c \in Callers, trackRetryablesStage(c)
  PROVE  Earned'
<1>1. run[c].pc = "RETRYABLE_EXECUTED" /\ "RETRYABLE_EXECUTED" \in StageType
  BY DEF trackRetryablesStage, Tracking, StageType, TimelockStages
<1>2. CASE Stop(c, "RETRYABLE_EXECUTED")
  BY <1>1, <1>2, StopKeeps
<1>3. ASSUME follows(run[c], "L1_TIMELOCK"), NEW receipt \in Found(L1Executed), NEW redeem \in redeemStatus,
             addStage(c, "RETRYABLE_EXECUTED", RetryableStage(receipt, redeem), FALSE)
      PROVE  Earned'
  <2>1. Since(L1Executed)
    <3>1. run[c].stages["L1_TIMELOCK"].status = "COMPLETED"
      BY <1>3 DEF follows, Linked
    <3>2. Evidence("L1_TIMELOCK", run[c].stages["L1_TIMELOCK"].status)
      BY RunFact DEF Justified, StageType, TimelockStages
    <3> QED BY <3>1, <3>2 DEF Evidence
  <2>2. receipt \in BOOLEAN
    BY DEF Found
  <2>3. /\ RetryableStage(receipt, redeem) \in TrackedStage
        /\ Evidence("RETRYABLE_EXECUTED", RetryableStage(receipt, redeem).status)
    BY <2>1, <2>2, RunFact, RetryableStageIsTrue
  <2> QED BY <1>1, <1>3, <2>3, AddStageKeeps
<1> QED BY <1>2, <1>3 DEF trackRetryablesStage

-----------------------------------------------------------------------------
(* Starting a call.                                                        *)

\* What is known of every key.
LEMMA CacheFact ==
  ASSUME Earned, NEW k \in CacheKey
  PROVE  cache[k] \in Checkpoint /\ cache[k].stages \in StageList /\ Justified(cache[k].stages)
BY DEF Earned, TypeOK, CheckpointsAreTrue, Checkpoint, StageList

\* A call starts with what it has loaded.
LEMMA StartKeeps ==
  ASSUME Earned, NEW c \in Callers, NEW entry \in CacheKey, trackByTxHash(c, entry)
  PROVE  Earned'
<1> DEFINE cp == LoadedFor(entry)
           r  == [pc |-> FirstStep(cp), entry |-> entry, loaded |-> cp, input |-> cp.input,
                  stages |-> cp.stages, opKey |-> cp.opKey, event |-> FALSE]
<1>1. cp \in Checkpoint /\ cp.stages \in StageList /\ Justified(cp.stages)
  BY CacheFact DEF LoadedFor, CacheKey
<1>2. FirstStep(cp) \in {"discover", "loadLinked", "L2_TIMELOCK"}
  BY <1>1 DEF FirstStep, Checkpoint, GovernorInputs, TimelockInputs
<1>3. r \in Run
  BY <1>1, <1>2 DEF Run, Step, StageType, TimelockStages, Checkpoint
<1>4. EarnedRun(r)
  BY <1>1, <1>2 DEF EarnedRun, Reached
<1>5. run' = [run EXCEPT ![c] = r] /\ UNCHANGED <<chainVars, cache, faults>>
  BY DEF trackByTxHash
<1> QED BY <1>3, <1>4, <1>5, RunStep

\* A call without a checkpoint looks for the proposal of its transaction.
LEMMA DiscoverProposalKeeps ==
  ASSUME Earned, NEW c \in Callers, discoverProposalByTxHash(c)
  PROVE  Earned'
<1> DEFINE found == [run[c] EXCEPT !.pc = "PROPOSAL_CREATED", !.input = "governor"]
<1>1. found \in Run
  BY RunFact DEF Run, Step, StageType, ParentStages, GovernorInputs
<1>2. EarnedRun(found)
  BY RunFact DEF EarnedRun, Reached, Run
<1>3. UNCHANGED <<chainVars, cache, faults>>
      /\ \/ run' = [run EXCEPT ![c] = found]
         \/ run' = [run EXCEPT ![c] = IdleRun]
  BY DEF discoverProposalByTxHash
<1> HIDE DEF found
<1> QED BY <1>1, <1>2, <1>3, IdleRunFact, RunStep

\* Likewise for the operation.
LEMMA FindCallScheduledKeeps ==
  ASSUME Earned, NEW c \in Callers, findCallScheduledByTxHash(c)
  PROVE  Earned'
<1> DEFINE stages == Restricted(cache["operation"].stages, TimelockStages)
           found  == [run[c] EXCEPT !.pc = "L2_TIMELOCK", !.input = "timelock", !.event = TRUE,
                                    !.stages = stages]
<1>1. stages \in StageList /\ Justified(stages)
  BY CacheFact, SplitAndMerge DEF CacheKey
<1>2. found \in Run
  BY <1>1, RunFact DEF Run, Step, StageType, TimelockStages, TimelockInputs, StageList
<1>3. EarnedRun(found)
  BY <1>1, RunFact DEF EarnedRun, Reached, Run
<1>4. UNCHANGED <<chainVars, cache, faults>>
      /\ \/ run' = [run EXCEPT ![c] = found]
         \/ run' = [run EXCEPT ![c] = IdleRun]
  BY DEF findCallScheduledByTxHash
<1> HIDE DEF found
<1> QED BY <1>2, <1>3, <1>4, IdleRunFact, RunStep

\* The stages of the linked checkpoint are merged into those of the call.
LEMMA LoadLinkedKeeps ==
  ASSUME Earned, NEW c \in Callers, LoadLinkedTimelock(c)
  PROVE  Earned'
<1> DEFINE stages == IF run[c].opKey THEN Overlay(run[c].stages, cache["operation"].stages)
                                     ELSE run[c].stages
           r      == [run[c] EXCEPT !.pc = "PROPOSAL_CREATED", !.stages = stages]
<1>1. stages \in StageList /\ Justified(stages)
  BY RunFact, CacheFact, SplitAndMerge DEF CacheKey
<1>2. r \in Run
  BY <1>1, RunFact DEF Run, Step, StageType, ParentStages, StageList
<1>3. EarnedRun(r)
  BY <1>1, RunFact DEF EarnedRun, Reached, Run
<1>4. run' = [run EXCEPT ![c] = r] /\ UNCHANGED <<chainVars, cache, faults>>
  BY DEF LoadLinkedTimelock
<1> HIDE DEF r
<1> QED BY <1>2, <1>3, <1>4, RunStep

-----------------------------------------------------------------------------
(* Saving and failing.                                                     *)

\* The first part of the checkpoint is written.
LEMMA SaveParentKeeps ==
  ASSUME Earned, NEW c \in Callers, SaveParent(c)
  PROVE  Earned'
<1> DEFINE r      == run[c]
           opKey  == r.opKey \/ r.stages["PROPOSAL_QUEUED"].link
           parent == [input |-> r.input, stages |-> Restricted(r.stages, ParentStages),
                      errorCount |-> 0, opKey |-> opKey]
           linked == [r EXCEPT !.pc = "saveLinked"]
<1>1. Restricted(r.stages, ParentStages) \in StageList /\ Justified(Restricted(r.stages, ParentStages))
  BY RunFact, SplitAndMerge
<1>2. parent \in Checkpoint /\ Justified(parent.stages)
  <2>1. opKey \in BOOLEAN
    OBVIOUS
  <2> HIDE DEF opKey
  <2> QED BY <1>1, <2>1, RunFact DEF Checkpoint, Run, StageList
<1>3. linked \in Run /\ EarnedRun(linked)
  BY RunFact DEF Run, Step, EarnedRun, Reached
<1>4. baseKey(r.entry) \in CacheKey
  BY DEF baseKey, CacheKey
<1>5. /\ cache' = [cache EXCEPT ![baseKey(r.entry)] = parent]
      /\ run' = [run EXCEPT ![c] = IF opKey /\ hasTimelockProgress(r.stages) THEN linked ELSE IdleRun]
      /\ UNCHANGED <<chainVars, faults>>
  BY DEF SaveParent
<1>6. faults' \in 0 .. MaxFaults /\ UNCHANGED chainVars
  BY <1>5 DEF Earned, TypeOK
<1>7. \/ run' = [run EXCEPT ![c] = linked]
      \/ run' = [run EXCEPT ![c] = IdleRun]
  BY <1>5
<1>8. cache' = [cache EXCEPT ![baseKey(r.entry)] = parent]
  BY <1>5
<1> HIDE DEF parent, linked
<1> QED BY <1>2, <1>3, <1>4, <1>6, <1>7, <1>8, IdleRunFact, SaveStepKeeps

\* The timelock part of a true list, as a checkpoint.
LEMMA OperationCheckpointFact ==
  ASSUME NEW input \in {"none"} \cup GovernorInputs \cup TimelockInputs,
         NEW stages \in StageList, Justified(stages)
  PROVE  /\ OperationCheckpoint(input, stages) \in Checkpoint
         /\ Justified(OperationCheckpoint(input, stages).stages)
<1>1. Restricted(stages, TimelockStages) \in StageList /\ Justified(Restricted(stages, TimelockStages))
  BY SplitAndMerge
<1>2. NewCheckpoint(input) \in Checkpoint
  BY NewCheckpointFact
<1> QED BY <1>1, <1>2 DEF OperationCheckpoint, Checkpoint, StageList

\* The second part, or the whole checkpoint of a timelock call.
LEMMA SaveTimelockKeeps ==
  ASSUME Earned, NEW c \in Callers, SaveLinkedTimelock(c) \/ SaveOperation(c)
  PROVE  Earned'
<1>1. PICK input \in {"timelock", run[c].input} :
        /\ cache' = [cache EXCEPT !["operation"] = OperationCheckpoint(input, run[c].stages)]
        /\ run' = [run EXCEPT ![c] = IdleRun]
        /\ UNCHANGED <<chainVars, faults>>
  BY DEF SaveLinkedTimelock, SaveOperation
<1>2. input \in {"none"} \cup GovernorInputs \cup TimelockInputs
  BY RunFact DEF Run, TimelockInputs
<1>3. faults' \in 0 .. MaxFaults /\ UNCHANGED chainVars /\ "operation" \in CacheKey
  BY <1>1 DEF Earned, TypeOK, CacheKey
<1> QED BY <1>1, <1>2, <1>3, RunFact, OperationCheckpointFact, IdleRunFact, SaveStepKeeps

\* The error checkpoint holds the stages that were loaded, or none.
LEMMA SaveErrorKeeps ==
  ASSUME Earned, NEW c \in Callers, SaveErrorCheckpoint(c)
  PROVE  Earned'
<1> DEFINE made == NewCheckpoint(IF run[c].entry = "operation" THEN "unknownTimelock" ELSE "unknownGovernor")
           base == IF Exists(run[c].loaded) THEN run[c].loaded ELSE made
<1>1. PICK counted \in {0, 1} :
        cache' = [cache EXCEPT ![run[c].entry] = [base EXCEPT !.errorCount = @ + counted, !.opKey = FALSE]]
  BY DEF SaveErrorCheckpoint
<1>2. made \in Checkpoint /\ Justified(made.stages)
  BY NewCheckpointFact, NoStagesFact DEF GovernorInputs, TimelockInputs
<1>3. base \in Checkpoint /\ Justified(base.stages)
  BY <1>2, RunFact
<1> DEFINE cp == [base EXCEPT !.errorCount = @ + counted, !.opKey = FALSE]
<1> HIDE DEF base
<1>4. cp \in Checkpoint /\ cp.stages = base.stages
  <2>1. base.errorCount + counted \in Nat
    BY <1>3 DEF Checkpoint
  <2> DEFINE errorCount == base.errorCount + counted
  <2>2. cp = [base EXCEPT !.errorCount = errorCount, !.opKey = FALSE]
    BY <1>3 DEF Checkpoint
  <2> HIDE DEF errorCount, cp
  <2>3. cp \in Checkpoint /\ cp.stages = base.stages
    BY <1>3, <2>1, <2>2 DEF Checkpoint, errorCount
  <2> QED BY <2>3
<1>5. cache' = [cache EXCEPT ![run[c].entry] = cp] /\ run[c].entry \in CacheKey
  BY <1>1, RunFact DEF Run, base
<1>6. run' = [run EXCEPT ![c] = IdleRun] /\ UNCHANGED chainVars
  BY DEF SaveErrorCheckpoint
<1>7. faults' \in 0 .. MaxFaults
  BY BoundsAssumption DEF SaveErrorCheckpoint, Earned, TypeOK
<1> HIDE DEF cp
<1> QED BY <1>3, <1>4, <1>5, <1>6, <1>7, IdleRunFact, SaveStepKeeps

\* A call is lost with its process; the cache stays.
LEMMA CrashKeeps ==
  ASSUME Earned, NEW c \in Callers, Crash(c)
  PROVE  Earned'
<1>1. UNCHANGED chainVars /\ UNCHANGED cache /\ run' = [run EXCEPT ![c] = IdleRun]
  BY DEF Crash
<1>2. CheckpointsAreTrue'
  BY <1>1, CacheIsKept DEF Earned
<1>3. run' \in [Callers -> Run] /\ \A d \in Callers : EarnedRun(run[d])'
  BY <1>1, IdleRunFact, RunWrite DEF Earned
<1>4. faults' \in 0 .. MaxFaults
  BY BoundsAssumption DEF Crash, Earned, TypeOK
<1>5. TypeOK' /\ ChainIsSound'
  BY <1>1, <1>3, <1>4 DEF Earned, TypeOK, ChainTypeOK, ChainIsSound, chainVars
<1> QED BY <1>2, <1>3, <1>5 DEF Earned

-----------------------------------------------------------------------------
(* The theorems.                                                           *)

\* The chains move while calls are in flight, or nothing happens.
LEMMA ChainStepKeeps ==
  ASSUME Earned, ChainStep \/ UNCHANGED chainVars, UNCHANGED trackerVars
  PROVE  Earned'
<1>1. UNCHANGED cache /\ UNCHANGED run /\ UNCHANGED faults
  BY DEF trackerVars
<1>2. CheckpointsAreTrue'
  BY <1>1, CacheIsKept DEF Earned
<1>3. ASSUME NEW d \in Callers
      PROVE  EarnedRun(run[d])'
  <2>1. ASSUME NEW s \in StageType
        PROVE  Evidence(s, run[d].stages[s].status)' /\ Evidence(s, run[d].loaded.stages[s].status)'
    <3>1. PICK status, before : status = run[d].stages[s].status /\ before = run[d].loaded.stages[s].status
      OBVIOUS
    <3>2. Evidence(s, status)' /\ Evidence(s, before)'
      BY <3>1, TruthIsKept, RunFact DEF Justified
    <3> QED BY <1>1, <3>1, <3>2 DEF Evidence, Since
  <2>2. Reached(run[d])'
    BY <1>1, RunFact DEF Reached
  <2> QED BY <2>1, <2>2 DEF EarnedRun, Justified
<1>4. ChainTypeOK' /\ ChainIsSound'
  <2>1. CASE Advance
    <3>1. phase' \in Phases /\ phase' <= FinalPhase(route')
      BY <2>1, MilestonesFact DEF Advance, Finished, FinalPhase, Earned, TypeOK, ChainTypeOK,
                                  ChainIsSound, Routes, Phases
    <3> QED BY <2>1, <3>1 DEF Advance, Finished, Earned, TypeOK, ChainTypeOK, ChainIsSound
  <2>2. CASE Die
    BY <2>2, MilestonesFact DEF Die, Deaths, Earned, TypeOK, ChainTypeOK, Fates, ChainIsSound
  <2>3. CASE UNCHANGED chainVars
    BY <2>3 DEF chainVars, Earned, TypeOK, ChainTypeOK, ChainIsSound
  <2> QED BY <2>1, <2>2, <2>3 DEF ChainStep
<1>5. TypeOK'
  BY <1>1, <1>4 DEF Earned, TypeOK
<1> QED BY <1>2, <1>3, <1>4, <1>5 DEF Earned

\* Nothing is claimed at the start.
LEMMA InitIsEarned == Init => Earned
<1> SUFFICES ASSUME Init PROVE Earned
  OBVIOUS
<1>1. ChainTypeOK /\ ChainIsSound
  BY MilestonesFact DEF Init, ChainInit, ChainTypeOK, ChainIsSound, FinalPhase, Routes, Fates, Phases
<1>2. \A k \in CacheKey : cache[k] \in {NewCheckpoint("governor"), Absent}
  BY DEF Init
<1>3. cache \in [CacheKey -> Checkpoint] /\ CheckpointsAreTrue
  <2>1. \A cp \in {NewCheckpoint("governor"), Absent} : cp \in Checkpoint /\ Justified(cp.stages)
    BY NewCheckpointFact, NoStagesFact DEF Absent, GovernorInputs
  <2> QED BY <1>2, <2>1 DEF Init, CheckpointsAreTrue
<1>4. run \in [Callers -> Run] /\ \A c \in Callers : EarnedRun(run[c])
  BY IdleRunFact DEF Init
<1>5. faults \in 0 .. MaxFaults
  BY BoundsAssumption DEF Init
<1> QED BY <1>1, <1>3, <1>4, <1>5 DEF Earned, TypeOK

\* Earned is inductive.
LEMMA StepIsEarned == Earned /\ [Next]_vars => Earned'
<1> SUFFICES ASSUME Earned, [Next]_vars PROVE Earned'
  OBVIOUS
<1>1. CASE ChainStep /\ UNCHANGED trackerVars
  BY <1>1, ChainStepKeeps
<1>2. ASSUME NEW c \in Callers, NEW entry \in Entries, trackByTxHash(c, entry) PROVE Earned'
  BY <1>2, EntriesAssumption, StartKeeps
<1>3. ASSUME NEW c \in Callers, TrackStage(c) PROVE Earned'
  BY <1>3, CachedStageKeeps, CreatedStageKeeps, VotingStageKeeps, QueuedStageKeeps,
     L2TimelockStageKeeps, MessageStageKeeps, L1TimelockStageKeeps, RetryablesStageKeeps DEF TrackStage
<1>4. ASSUME NEW c \in Callers, Continue(c) PROVE Earned'
  BY <1>3, <1>4, DiscoverProposalKeeps, FindCallScheduledKeeps, LoadLinkedKeeps, SaveParentKeeps,
     SaveTimelockKeeps DEF Continue
<1>5. ASSUME NEW c \in Callers, SaveErrorCheckpoint(c) PROVE Earned'
  BY <1>5, SaveErrorKeeps
<1>6. ASSUME NEW c \in Callers, Crash(c) PROVE Earned'
  BY <1>6, CrashKeeps
<1>7. CASE UNCHANGED vars
  BY <1>7, ChainStepKeeps DEF vars
<1> QED BY <1>1, <1>2, <1>4, <1>5, <1>6, <1>7 DEF Next

\* The strengthened invariant holds of every behaviour, fair or not.
THEOREM EarnedAlways == Spec => []Earned
BY InitIsEarned, StepIsEarned, PTL DEF Spec

\* Every checkpoint and every call in flight is always one the code could build:
\* known statuses, a known input, and no more faults than the bound.
THEOREM TypeCorrectness == Spec => []TypeOK
<1>1. Earned => TypeOK
  BY DEF Earned
<1> QED BY <1>1, EarnedAlways, PTL

\* No checkpoint under any key ever reports more than the chains have done, for
\* any number of concurrent calls, any entry points, any number of errors and
\* crashes, and nodes that answer from older blocks.
THEOREM CheckpointTruth == Spec => []CheckpointsAreTrue
<1>1. Earned => CheckpointsAreTrue
  BY DEF Earned
<1> QED BY <1>1, EarnedAlways, PTL

-----------------------------------------------------------------------------
(* What is found where.                                                    *)

\* No stage of a part of the lifecycle is stored.
NoneOf(part, stages) == \A s \in part : stages[s] = NotStarted

\* What may be found under a key.  A parent has no timelock stages; what is not under
\* the proposal's own key has no governor stages, no known governor and no link.
FitsKey(k, cp) ==
  /\ StagesInOrder(cp.stages)
  /\ k # "operation" => NoneOf(TimelockStages, cp.stages)
  /\ k = "proposal" => cp.input \in {"none"} \cup GovernorInputs
  /\ k # "proposal" => NoneOf(ParentStages, cp.stages) /\ cp.input # "governor" /\ ~cp.opKey

\* What a call in flight has, and what it has behind it at a stage.
FitsRun(r) ==
  /\ StagesInOrder(r.stages) /\ FitsKey(r.entry, r.loaded)
  /\ r.entry # "proposal" => /\ NoneOf(ParentStages, r.stages) /\ r.input # "governor" /\ ~r.opKey
                             /\ r.pc \notin {"VOTING_ACTIVE", "PROPOSAL_QUEUED"}
  /\ r.pc \in {"loadLinked", "PROPOSAL_CREATED", "saveParent"} => isGovernorRun(r)
  /\ r.pc = "saveOperation" => ~isGovernorRun(r)
  /\ r.pc = "loadLinked" /\ r.opKey => NoneOf(TimelockStages, r.stages)
  /\ r.pc = "L2_TO_L1_MESSAGE" => isStageSuccess(r.stages["L2_TIMELOCK"].status)
  /\ r.pc = "L1_TIMELOCK" => isStageSuccess(r.stages["L2_TO_L1_MESSAGE"].status)
  /\ r.pc = "RETRYABLE_EXECUTED" => isStageSuccess(r.stages["L1_TIMELOCK"].status)

Ordered ==
  /\ \A k \in CacheKey : FitsKey(k, cache[k])
  /\ \A c \in Callers : FitsRun(run[c])

-----------------------------------------------------------------------------
(* Order, in lists, checkpoints and calls.                                 *)

\* Lists without timelock stages are in order, and splitting keeps the order.
LEMMA OrderOfParts ==
  ASSUME NEW x \in StageList
  PROVE  /\ NoneOf(TimelockStages, x) => StagesInOrder(x)
         /\ NoneOf(TimelockStages, Restricted(x, ParentStages))
         /\ NoneOf(ParentStages, Restricted(x, TimelockStages))
         /\ StagesInOrder(x) => StagesInOrder(Restricted(x, TimelockStages))
         /\ NoneOf(ParentStages, x) => NoneOf(ParentStages, Restricted(x, ParentStages))
<1>1. NoneOf(TimelockStages, x) => StagesInOrder(x)
  BY DEF NoneOf, StagesInOrder, TimelockStages
<1>2. NoneOf(TimelockStages, Restricted(x, ParentStages))
  BY DEF NoneOf, Restricted, TimelockStages, ParentStages, StageType
<1>3. NoneOf(ParentStages, Restricted(x, TimelockStages))
  BY DEF NoneOf, Restricted, TimelockStages, ParentStages, StageType
<1>4. \A s \in TimelockStages : Restricted(x, TimelockStages)[s] = x[s]
  BY DEF Restricted, StageType
<1>5. StagesInOrder(x) => StagesInOrder(Restricted(x, TimelockStages))
  BY <1>4 DEF StagesInOrder, TimelockStages
<1>6. NoneOf(ParentStages, x) => NoneOf(ParentStages, Restricted(x, ParentStages))
  BY DEF NoneOf, Restricted, StageType
<1> QED BY <1>1, <1>2, <1>3, <1>5, <1>6

\* Merging a list in order into one without timelock stages gives a list in order.
LEMMA OrderOfOverlay ==
  ASSUME NEW x \in StageList, NEW y \in StageList, NoneOf(TimelockStages, x), StagesInOrder(y)
  PROVE  StagesInOrder(Overlay(x, y))
<1>1. \A s \in TimelockStages :
        Overlay(x, y)[s] = IF y[s].status # "NOT_STARTED" THEN y[s] ELSE NotStarted
  BY DEF Overlay, Stored, NoneOf, StageType
<1>2. \A s \in TimelockStages :
        /\ Overlay(x, y)[s] # NotStarted => y[s] # NotStarted
        /\ isStageSuccess(y[s].status) => isStageSuccess(Overlay(x, y)[s].status)
  BY <1>1 DEF isStageSuccess, NotStarted, Stage
<1> QED BY <1>2 DEF StagesInOrder, TimelockStages

\* A checkpoint without stages fits where its input may be.
LEMMA NewCheckpointFits ==
  ASSUME NEW k \in CacheKey, NEW input,
         k = "proposal" => input \in {"none"} \cup GovernorInputs,
         k # "proposal" => input # "governor"
  PROVE  FitsKey(k, NewCheckpoint(input))
<1>1. NoneOf(TimelockStages, NoStages) /\ NoneOf(ParentStages, NoStages) /\ StagesInOrder(NoStages)
  BY NoStagesFact, OrderOfParts DEF NoneOf, NoStages, StageType
<1> QED BY <1>1 DEF FitsKey, NewCheckpoint

\* A caller that is idle fits.
LEMMA IdleFits == FitsRun(IdleRun)
<1>1. FitsKey("proposal", Absent) /\ StagesInOrder(NoStages)
  BY NewCheckpointFits, NoStagesFact, OrderOfParts
     DEF Absent, CacheKey, NoneOf, NoStages, StageType
<1> QED BY <1>1 DEF FitsRun, IdleRun

\* A step of one call that writes nothing keeps the order if what it makes of the
\* call fits.
LEMMA OrderOfRunStep ==
  ASSUME TypeOK, Ordered, UNCHANGED cache, NEW c \in Callers, NEW r, FitsRun(r),
         run' = [run EXCEPT ![c] = r]
  PROVE  Ordered'
BY DEF Ordered, TypeOK

\* The same for a step that writes a checkpoint that fits its key.
LEMMA OrderOfSaveStep ==
  ASSUME TypeOK, Ordered, NEW k \in CacheKey, NEW cp, FitsKey(k, cp),
         cache' = [cache EXCEPT ![k] = cp], NEW c \in Callers, NEW r, FitsRun(r),
         run' = [run EXCEPT ![c] = r]
  PROVE  Ordered'
BY DEF Ordered, TypeOK

\* What is known of a call and of a checkpoint.
LEMMA OrderFact ==
  ASSUME Earned, Ordered, NEW c \in Callers, NEW k \in CacheKey
  PROVE  FitsRun(run[c]) /\ FitsKey(k, cache[k]) /\ cache[k] \in Checkpoint
         /\ cache[k].stages \in StageList
BY CacheFact DEF Ordered

-----------------------------------------------------------------------------
(* Order, in the steps of the pipeline.                                    *)

\* What a step of the pipeline makes of the stage it is at.  Either it leaves the
\* list alone, or it sets the stage, which was not done, or it skips the way to L1.
StageResult(r, s, stages, continue) ==
  /\ \/ stages = r.stages /\ (continue => isStageSuccess(stages[s].status))
     \/ /\ ~isStageSuccess(r.stages[s].status)
        /\ \E stage \in TrackedStage :
             /\ stages = [r.stages EXCEPT ![s] = stage]
             /\ continue /\ s \notin ParentStages => isStageSuccess(stage.status)
        /\ r.input # "unknownGovernor" \/ s # "PROPOSAL_CREATED"
     \/ /\ s = "L2_TO_L1_MESSAGE" /\ ~isStageSuccess(r.stages[s].status)
        /\ stages = L1RoundTripSkipped(r.stages) /\ ~continue

\* Every stage tracker does one of the three.
LEMMA StageResults ==
  ASSUME Earned, NEW c \in Callers, TrackStage(c)
  PROVE  \E s \in StageType, stages \in StageList, continue \in BOOLEAN :
           /\ run[c].pc = s /\ Return(c, s, stages, continue)
           /\ StageResult(run[c], s, stages, continue)
<1>r. run[c] \in Run /\ run[c].stages \in StageList
  BY RunFact
<1>s. \A s \in StageType, stage \in TrackedStage : [run[c].stages EXCEPT ![s] = stage] \in StageList
  BY <1>r DEF StageList
<1>a. ASSUME NEW s \in StageType, Tracking(c, s), NEW stage \in TrackedStage, NEW continue \in BOOLEAN,
             continue /\ s \notin ParentStages => isStageSuccess(stage.status),
             run[c].input # "unknownGovernor" \/ s # "PROPOSAL_CREATED",
             addStage(c, s, stage, continue)
      PROVE  \E stages \in StageList : /\ run[c].pc = s /\ Return(c, s, stages, continue)
                                       /\ StageResult(run[c], s, stages, continue)
  BY <1>a, <1>s DEF Tracking, addStage, StageResult
<1>b. ASSUME NEW s \in StageType, run[c].pc = s, Stop(c, s)
      PROVE  \E stages \in StageList : /\ run[c].pc = s /\ Return(c, s, stages, FALSE)
                                       /\ StageResult(run[c], s, stages, FALSE)
  BY <1>b, <1>r DEF Stop, StageResult
<1>t. /\ NotStarted \in TrackedStage /\ \A st \in StageStatus : Stage(st) \in TrackedStage
      /\ {"PROPOSAL_CREATED", "VOTING_ACTIVE", "PROPOSAL_QUEUED"} = ParentStages
      /\ ParentStages \subseteq StageType /\ TimelockStages \subseteq StageType
  BY StageIsTracked DEF NotStarted, StageStatus, StageType, ParentStages
<1>1. CASE UseCachedStage(c)
  <2>1. PICK s \in StageType :
          /\ run[c].pc = s /\ isStageSuccess(run[c].stages[s].status)
          /\ Return(c, s, run[c].stages, s = "L2_TIMELOCK" => operationKnown(run[c]))
    BY <1>1 DEF UseCachedStage
  <2> DEFINE continue == s = "L2_TIMELOCK" => operationKnown(run[c])
  <2>2. continue \in BOOLEAN /\ Return(c, s, run[c].stages, continue)
    BY <2>1
  <2> HIDE DEF continue
  <2>3. StageResult(run[c], s, run[c].stages, continue)
    BY <2>1 DEF StageResult
  <2> QED BY <1>r, <2>1, <2>2, <2>3
<1>2. CASE trackProposalCreatedStage(c)
  <2>1. Tracking(c, "PROPOSAL_CREATED")
    BY <1>2 DEF trackProposalCreatedStage
  <2>2. CASE Stop(c, "PROPOSAL_CREATED")
    BY <1>b, <1>t, <2>1, <2>2 DEF Tracking
  <2>3. ASSUME run[c].input # "unknownGovernor", NEW found \in Found(Created),
               addStage(c, "PROPOSAL_CREATED", IF found THEN Stage("COMPLETED") ELSE NotStarted, found)
        PROVE  \E stages \in StageList, continue \in BOOLEAN :
                 /\ run[c].pc = "PROPOSAL_CREATED" /\ Return(c, "PROPOSAL_CREATED", stages, continue)
                 /\ StageResult(run[c], "PROPOSAL_CREATED", stages, continue)
    <3> DEFINE stage == IF found THEN Stage("COMPLETED") ELSE NotStarted
    <3>1. found \in BOOLEAN /\ stage \in TrackedStage
      BY <1>t DEF Found, StageStatus
    <3> HIDE DEF stage
    <3>2. addStage(c, "PROPOSAL_CREATED", stage, found)
      BY <2>3 DEF stage
    <3> QED BY <1>a, <1>t, <2>1, <2>3, <3>1, <3>2
  <2> QED BY <1>2, <1>t, <2>2, <2>3 DEF trackProposalCreatedStage
<1>3. CASE trackVotingStage(c)
  <2>1. PICK state \in getProposalState :
          /\ Tracking(c, "VOTING_ACTIVE")
          /\ addStage(c, "VOTING_ACTIVE", Stage(VotingStatus(state)), VotingStatus(state) = "COMPLETED")
    BY <1>3 DEF trackVotingStage
  <2>2. Stage(VotingStatus(state)) \in TrackedStage /\ (VotingStatus(state) = "COMPLETED") \in BOOLEAN
    BY <1>t, VotingStageIsTrue, RunFact
  <2>3. \E stages \in StageList :
          LET continue == VotingStatus(state) = "COMPLETED" IN
          /\ run[c].pc = "VOTING_ACTIVE" /\ Return(c, "VOTING_ACTIVE", stages, continue)
          /\ StageResult(run[c], "VOTING_ACTIVE", stages, continue)
    BY <1>a, <1>t, <2>1, <2>2
  <2> QED BY <1>t, <2>2, <2>3
<1>4. CASE trackProposalQueuedStage(c)
  <2>1. PICK state \in getProposalState, event \in Found(Queued), receipt \in Found(Queued) :
          /\ Tracking(c, "PROPOSAL_QUEUED")
          /\ addStage(c, "PROPOSAL_QUEUED", QueuedStage(state, event, receipt), TRUE)
    BY <1>4 DEF trackProposalQueuedStage
  <2>2. QueuedStage(state, event, receipt) \in TrackedStage
    BY DEF QueuedStage, TrackedStage, StageStatus, Stage, Linked, NotStarted
  <2>3. \E stages \in StageList :
          /\ run[c].pc = "PROPOSAL_QUEUED" /\ Return(c, "PROPOSAL_QUEUED", stages, TRUE)
          /\ StageResult(run[c], "PROPOSAL_QUEUED", stages, TRUE)
    BY <1>a, <1>t, <2>1, <2>2
  <2> QED BY <1>t, <2>3
<1>5. CASE trackL2TimelockStage(c)
  <2>1. Tracking(c, "L2_TIMELOCK") /\ "L2_TIMELOCK" \in StageType \ ParentStages
    BY <1>5 DEF trackL2TimelockStage, StageType, ParentStages, TimelockStages
  <2>2. CASE Stop(c, "L2_TIMELOCK")
    BY <1>b, <2>1, <2>2 DEF Tracking
  <2>3. ASSUME NEW state \in l2OperationState, NEW executed \in Found(L2Executed),
               addStage(c, "L2_TIMELOCK", TimelockStage(state, executed), TimelockStage(state, executed).link)
        PROVE  \E stages \in StageList, continue \in BOOLEAN :
                 /\ run[c].pc = "L2_TIMELOCK" /\ Return(c, "L2_TIMELOCK", stages, continue)
                 /\ StageResult(run[c], "L2_TIMELOCK", stages, continue)
    <3> DEFINE stage == TimelockStage(state, executed)
    <3>1. executed \in BOOLEAN /\ state \in {"none", "pending", "ready", "done"}
      BY OperationStates DEF Found
    <3>2. stage \in TrackedStage /\ stage.link \in BOOLEAN /\ (stage.link => isStageSuccess(stage.status))
      BY <3>1, TimelockStageFact DEF isStageSuccess
    <3> HIDE DEF stage
    <3>3. addStage(c, "L2_TIMELOCK", stage, stage.link)
      BY <2>3 DEF stage
    <3> QED BY <1>a, <2>1, <3>2, <3>3
  <2> QED BY <1>5, <2>1, <2>2, <2>3 DEF trackL2TimelockStage
<1>6. CASE trackL2ToL1MessageStage(c)
  <2>1. Tracking(c, "L2_TO_L1_MESSAGE") /\ "L2_TO_L1_MESSAGE" \in StageType \ ParentStages
    BY <1>6 DEF trackL2ToL1MessageStage, StageType, ParentStages, TimelockStages
  <2>2. CASE Stop(c, "L2_TO_L1_MESSAGE")
    BY <1>b, <2>1, <2>2 DEF Tracking
  <2>3. CASE Return(c, "L2_TO_L1_MESSAGE", L1RoundTripSkipped(run[c].stages), FALSE)
    <3>1. L1RoundTripSkipped(run[c].stages) \in StageList
      BY <1>r DEF L1RoundTripSkipped, StageList, TrackedStage, Stage, StageStatus
    <3>2. StageResult(run[c], "L2_TO_L1_MESSAGE", L1RoundTripSkipped(run[c].stages), FALSE)
      BY <2>1 DEF StageResult, Tracking
    <3> QED BY <2>1, <2>3, <3>1, <3>2 DEF Tracking
  <2>4. ASSUME NEW receipt \in Found(L2Executed), NEW status \in messageStatus, NEW event \in Found(OutboxDone),
               addStage(c, "L2_TO_L1_MESSAGE", MessageStage(receipt, status, event),
                        MessageStage(receipt, status, event).status = "COMPLETED")
        PROVE  \E stages \in StageList, continue \in BOOLEAN :
                 /\ run[c].pc = "L2_TO_L1_MESSAGE" /\ Return(c, "L2_TO_L1_MESSAGE", stages, continue)
                 /\ StageResult(run[c], "L2_TO_L1_MESSAGE", stages, continue)
    <3> DEFINE stage == MessageStage(receipt, status, event)
               continue == stage.status = "COMPLETED"
    <3>1. stage \in TrackedStage
      BY RunFact, MessageStageIsTrue
    <3>2. continue \in BOOLEAN /\ (continue => isStageSuccess(stage.status))
      BY DEF isStageSuccess
    <3> HIDE DEF stage, continue
    <3>3. addStage(c, "L2_TO_L1_MESSAGE", stage, continue)
      BY <2>4 DEF stage, continue
    <3> QED BY <1>a, <2>1, <3>1, <3>2, <3>3
  <2> QED BY <1>6, <2>1, <2>2, <2>3, <2>4 DEF trackL2ToL1MessageStage
<1>7. CASE trackL1TimelockStage(c)
  <2>1. Tracking(c, "L1_TIMELOCK") /\ "L1_TIMELOCK" \in StageType \ ParentStages
    BY <1>7 DEF trackL1TimelockStage, StageType, ParentStages, TimelockStages
  <2>2. PICK stage \in TrackedStage :
          /\ addStage(c, "L1_TIMELOCK", stage, stage.link)
          /\ stage.link \in BOOLEAN /\ (stage.link => isStageSuccess(stage.status))
    <3>1. PICK receipt \in Found(OutboxDone), state \in l1OperationState, executed \in Found(L1Executed) :
            LET discovered == follows(run[c], "L2_TO_L1_MESSAGE") /\ receipt
                stage      == IF discovered THEN TimelockStage(state, executed) ELSE NotStarted
            IN  addStage(c, "L1_TIMELOCK", stage, stage.link)
      BY <1>7 DEF trackL1TimelockStage
    <3>2. executed \in BOOLEAN /\ state \in {"none", "pending", "ready", "done"}
      BY OperationStates DEF Found
    <3>3. \A stage \in {TimelockStage(state, executed), NotStarted} :
            stage \in TrackedStage /\ stage.link \in BOOLEAN /\ (stage.link => isStageSuccess(stage.status))
      <4>1. NotStarted \in TrackedStage /\ NotStarted.link = FALSE
        BY <1>t DEF NotStarted, Stage
      <4>2. LET stage == TimelockStage(state, executed)
            IN  stage \in TrackedStage /\ stage.link \in BOOLEAN /\ (stage.link => isStageSuccess(stage.status))
        BY <3>2, TimelockStageFact DEF isStageSuccess
      <4> QED BY <4>1, <4>2
    <3>4. \E stage \in {TimelockStage(state, executed), NotStarted} : addStage(c, "L1_TIMELOCK", stage, stage.link)
      BY <3>1
    <3> QED BY <3>3, <3>4
  <2> QED BY <1>a, <2>1, <2>2
<1>8. CASE trackRetryablesStage(c)
  <2>1. Tracking(c, "RETRYABLE_EXECUTED") /\ "RETRYABLE_EXECUTED" \in StageType \ ParentStages
    BY <1>8 DEF trackRetryablesStage, StageType, ParentStages, TimelockStages
  <2>2. CASE Stop(c, "RETRYABLE_EXECUTED")
    BY <1>b, <2>1, <2>2 DEF Tracking
  <2>3. ASSUME NEW receipt \in Found(L1Executed), NEW redeem \in redeemStatus,
               addStage(c, "RETRYABLE_EXECUTED", RetryableStage(receipt, redeem), FALSE)
        PROVE  \E stages \in StageList :
                 /\ run[c].pc = "RETRYABLE_EXECUTED" /\ Return(c, "RETRYABLE_EXECUTED", stages, FALSE)
                 /\ StageResult(run[c], "RETRYABLE_EXECUTED", stages, FALSE)
    <3>1. RetryableStage(receipt, redeem) \in TrackedStage
      BY DEF RetryableStage, TrackedStage, StageStatus, Stage
    <3> QED BY <1>a, <2>1, <2>3, <3>1
  <2> QED BY <1>8, <2>1, <2>2, <2>3 DEF trackRetryablesStage
<1> QED BY <1>1, <1>2, <1>3, <1>4, <1>5, <1>6, <1>7, <1>8 DEF TrackStage


\* The three leave a list that is in order in order, and governor stages to
\* proposals.
LEMMA OrderOfResult ==
  ASSUME NEW r \in Run, FitsRun(r), NEW s \in StageType, r.pc = s, NEW stages \in StageList,
         NEW continue \in BOOLEAN, StageResult(r, s, stages, continue), Reached(r)
  PROVE  /\ StagesInOrder(stages)
         /\ r.entry # "proposal" => NoneOf(ParentStages, stages)
         /\ r.entry # "proposal" /\ s = "PROPOSAL_CREATED" => ~continue
         /\ continue /\ s \in TimelockStages => isStageSuccess(stages[s].status)
<1>1. r.stages \in StageList /\ StagesInOrder(r.stages)
  BY DEF Run, StageList, FitsRun
<1>2. /\ s = "L2_TO_L1_MESSAGE" => isStageSuccess(r.stages["L2_TIMELOCK"].status)
      /\ s = "L1_TIMELOCK" => isStageSuccess(r.stages["L2_TO_L1_MESSAGE"].status)
      /\ s = "RETRYABLE_EXECUTED" => isStageSuccess(r.stages["L1_TIMELOCK"].status)
  BY DEF FitsRun
<1>3. r.entry # "proposal" =>
        /\ NoneOf(ParentStages, r.stages) /\ s \notin {"VOTING_ACTIVE", "PROPOSAL_QUEUED"}
        /\ s = "PROPOSAL_CREATED" => r.input = "unknownGovernor"
  BY DEF FitsRun, isGovernorRun, GovernorInputs
<1>n. ~isStageSuccess(NotStarted.status)
  BY DEF isStageSuccess, NotStarted, Stage
<1>4. CASE stages = r.stages /\ (continue => isStageSuccess(stages[s].status))
  BY <1>1, <1>3, <1>4, <1>n DEF NoneOf, ParentStages
<1>5. ASSUME ~isStageSuccess(r.stages[s].status), NEW stage \in TrackedStage,
             stages = [r.stages EXCEPT ![s] = stage],
             continue /\ s \notin ParentStages => isStageSuccess(stage.status),
             r.input # "unknownGovernor" \/ s # "PROPOSAL_CREATED"
      PROVE  /\ StagesInOrder(stages)
             /\ r.entry # "proposal" => NoneOf(ParentStages, stages)
             /\ r.entry # "proposal" /\ s = "PROPOSAL_CREATED" => ~continue
             /\ continue /\ s \in TimelockStages => isStageSuccess(stages[s].status)
  <2>1. stages[s] = stage /\ \A t \in StageType \ {s} : stages[t] = r.stages[t]
    BY <1>1, <1>5 DEF StageList
  <2>2. StagesInOrder(stages)
    BY <1>1, <1>2, <1>5, <2>1 DEF StagesInOrder, StageType, TimelockStages
  <2>3. r.entry # "proposal" => s \notin ParentStages
    BY <1>3, <1>5 DEF ParentStages
  <2>4. r.entry # "proposal" => NoneOf(ParentStages, stages)
    BY <1>3, <2>1, <2>3 DEF NoneOf, StageType
  <2>5. s \in TimelockStages => s \notin ParentStages
    BY DEF TimelockStages, ParentStages
  <2> QED BY <1>5, <2>1, <2>2, <2>3, <2>4, <2>5 DEF ParentStages
<1>6. CASE s = "L2_TO_L1_MESSAGE" /\ stages = L1RoundTripSkipped(r.stages) /\ ~continue
  <2>1. \A t \in StageType : stages[t] = IF t \in {"L2_TO_L1_MESSAGE", "L1_TIMELOCK", "RETRYABLE_EXECUTED"}
                                         THEN Stage("SKIPPED") ELSE r.stages[t]
    BY <1>6 DEF L1RoundTripSkipped
  <2>2. isStageSuccess(Stage("SKIPPED").status)
    BY DEF isStageSuccess, Stage
  <2>3. StagesInOrder(stages)
    BY <1>2, <1>6, <2>1, <2>2 DEF StagesInOrder, StageType, TimelockStages
  <2>4. NoneOf(ParentStages, r.stages) => NoneOf(ParentStages, stages)
    BY <2>1 DEF NoneOf, StageType, ParentStages
  <2> QED BY <1>3, <1>6, <2>3, <2>4
<1> QED BY <1>4, <1>5, <1>6 DEF StageResult

\* A step of the pipeline keeps the order.
LEMMA OrderOfStage ==
  ASSUME Earned, Ordered, NEW c \in Callers, TrackStage(c)
  PROVE  Ordered'
<1>1. PICK s \in StageType, stages \in StageList, continue \in BOOLEAN :
        /\ run[c].pc = s /\ Return(c, s, stages, continue)
        /\ StageResult(run[c], s, stages, continue)
  BY StageResults
<1>2. run[c] \in Run /\ Reached(run[c]) /\ FitsRun(run[c])
  BY RunFact DEF Ordered
<1>3. PICK r \in Run : r = run[c]
  BY <1>2
<1> DEFINE next == NextStep(r, stages, s, continue)
           new  == [r EXCEPT !.stages = stages, !.pc = next]
<1>4. /\ StagesInOrder(stages)
      /\ r.entry # "proposal" => NoneOf(ParentStages, stages)
      /\ r.entry # "proposal" /\ s = "PROPOSAL_CREATED" => ~continue
      /\ continue /\ s \in TimelockStages => isStageSuccess(stages[s].status)
  BY <1>1, <1>2, <1>3, OrderOfResult
<1>5. /\ next \notin {"loadLinked", "PROPOSAL_CREATED"}
      /\ next = "saveParent" => isGovernorRun(r)
      /\ next = "saveOperation" => ~isGovernorRun(r)
      /\ next = "VOTING_ACTIVE" => s = "PROPOSAL_CREATED" /\ continue
      /\ next = "PROPOSAL_QUEUED" => s = "VOTING_ACTIVE"
      /\ next = "L2_TO_L1_MESSAGE" => s = "L2_TIMELOCK" /\ continue
      /\ next = "L1_TIMELOCK" => s = "L2_TO_L1_MESSAGE" /\ continue
      /\ next = "RETRYABLE_EXECUTED" => s = "L1_TIMELOCK" /\ continue
  BY DEF NextStep, SaveStep, StageType, ParentStages, TimelockStages
<1>6. /\ new.stages = stages /\ new.pc = next /\ new.loaded = r.loaded /\ new.entry = r.entry
      /\ new.input = r.input /\ new.opKey = r.opKey
  BY DEF Run
<1>7. FitsRun(new)
  <2> HIDE DEF next, new
  <2>1. r.entry # "proposal" => next \notin {"VOTING_ACTIVE", "PROPOSAL_QUEUED"}
    BY <1>1, <1>2, <1>3, <1>4, <1>5 DEF FitsRun
  <2>2. isGovernorRun(new) <=> isGovernorRun(r)
    BY <1>6 DEF isGovernorRun
  <2>3. /\ next = "L2_TO_L1_MESSAGE" => isStageSuccess(stages["L2_TIMELOCK"].status)
        /\ next = "L1_TIMELOCK" => isStageSuccess(stages["L2_TO_L1_MESSAGE"].status)
        /\ next = "RETRYABLE_EXECUTED" => isStageSuccess(stages["L1_TIMELOCK"].status)
    BY <1>4, <1>5 DEF TimelockStages
  <2> QED BY <1>2, <1>3, <1>4, <1>5, <1>6, <2>1, <2>2, <2>3 DEF FitsRun
<1>8. run' = [run EXCEPT ![c] = new] /\ UNCHANGED cache
  BY <1>1, <1>3 DEF Return
<1> HIDE DEF new
<1> QED BY <1>7, <1>8, OrderOfRunStep DEF Earned

-----------------------------------------------------------------------------
(* Order, in the other steps of a call.                                    *)

\* trackByTxHash takes the checkpoint that fits its argument, or the one of the
\* queue transaction, which fits the operation's key too.
LEMMA OrderOfStart ==
  ASSUME Earned, Ordered, NEW c \in Callers, NEW entry \in CacheKey, trackByTxHash(c, entry)
  PROVE  Ordered'
<1>1. PICK cp \in Checkpoint : cp = LoadedFor(entry)
  BY OrderFact DEF LoadedFor, CacheKey
<1>2. FitsKey(entry, cp)
  <2>1. FitsKey("queueTx", cache["queueTx"]) => FitsKey("operation", cache["queueTx"])
    BY DEF FitsKey
  <2> QED BY <1>1, <2>1, OrderFact DEF LoadedFor, CacheKey
<1> DEFINE r == [pc |-> FirstStep(cp), entry |-> entry, loaded |-> cp, input |-> cp.input,
                 stages |-> cp.stages, opKey |-> cp.opKey, event |-> FALSE]
<1>3. /\ FirstStep(cp) \in {"discover", "loadLinked", "L2_TIMELOCK"}
      /\ FirstStep(cp) = "loadLinked" => cp.input \in GovernorInputs
  BY DEF FirstStep, Checkpoint, GovernorInputs, TimelockInputs
<1>4. FitsRun(r)
  BY <1>2, <1>3 DEF FitsRun, FitsKey, isGovernorRun, CacheKey
<1>5. run' = [run EXCEPT ![c] = r] /\ UNCHANGED cache
  BY <1>1 DEF trackByTxHash
<1> HIDE DEF r
<1> QED BY <1>4, <1>5, OrderOfRunStep DEF Earned

\* Only the proposal's own transaction is looked at for a proposal.
LEMMA OrderOfDiscovery ==
  ASSUME Earned, Ordered, NEW c \in Callers,
         discoverProposalByTxHash(c) \/ findCallScheduledByTxHash(c)
  PROVE  Ordered'
<1>1. PICK r \in Run : r = run[c]
  BY RunFact
<1>2. FitsRun(r)
  BY <1>1, OrderFact DEF Ordered
<1>3. CASE discoverProposalByTxHash(c)
  <2> DEFINE new == [r EXCEPT !.pc = "PROPOSAL_CREATED", !.input = "governor"]
  <2>1. r.entry = "proposal" /\ UNCHANGED cache
        /\ (run' = [run EXCEPT ![c] = new] \/ run' = [run EXCEPT ![c] = IdleRun])
    BY <1>1, <1>3 DEF discoverProposalByTxHash
  <2>2. FitsRun(new)
    BY <1>2, <2>1 DEF FitsRun, Run, isGovernorRun, GovernorInputs
  <2> HIDE DEF new
  <2> QED BY <2>1, <2>2, IdleFits, OrderOfRunStep DEF Earned
<1>4. CASE findCallScheduledByTxHash(c)
  <2> DEFINE stages == Restricted(cache["operation"].stages, TimelockStages)
             new == [r EXCEPT !.pc = "L2_TIMELOCK", !.input = "timelock", !.event = TRUE,
                              !.stages = stages]
  <2>1. UNCHANGED cache
        /\ (run' = [run EXCEPT ![c] = new] \/ run' = [run EXCEPT ![c] = IdleRun])
    BY <1>1, <1>4 DEF findCallScheduledByTxHash
  <2>2. StagesInOrder(stages) /\ NoneOf(ParentStages, stages)
    BY OrderFact, OrderOfParts DEF FitsKey, CacheKey
  <2>3. FitsRun(new)
    <3> HIDE DEF stages
    <3> QED BY <1>2, <2>2 DEF FitsRun, Run
  <2> HIDE DEF new
  <2> QED BY <2>1, <2>3, IdleFits, OrderOfRunStep DEF Earned
<1> QED BY <1>3, <1>4

\* A parent that links its operation has no timelock stages of its own.
LEMMA OrderOfLoading ==
  ASSUME Earned, Ordered, NEW c \in Callers, LoadLinkedTimelock(c)
  PROVE  Ordered'
<1>1. PICK r \in Run : r = run[c]
  BY RunFact
<1>2. FitsRun(r) /\ r.pc = "loadLinked" /\ r.stages \in StageList
  BY <1>1, OrderFact, RunFact DEF Ordered, LoadLinkedTimelock
<1> DEFINE stages == IF r.opKey THEN Overlay(r.stages, cache["operation"].stages) ELSE r.stages
           new    == [r EXCEPT !.pc = "PROPOSAL_CREATED", !.stages = stages]
<1>3. run' = [run EXCEPT ![c] = new] /\ UNCHANGED cache
  BY <1>1 DEF LoadLinkedTimelock
<1>4. StagesInOrder(stages)
  BY <1>2, OrderFact, OrderOfOverlay DEF FitsRun, FitsKey, CacheKey
<1>5. r.entry # "proposal" => NoneOf(ParentStages, stages)
  BY <1>2 DEF FitsRun
<1>6. FitsRun(new)
  <2> HIDE DEF stages
  <2> QED BY <1>2, <1>4, <1>5 DEF FitsRun, Run, isGovernorRun
<1> HIDE DEF new
<1> QED BY <1>3, <1>6, OrderOfRunStep DEF Earned

\* The parent is saved without the timelock stages.
LEMMA OrderOfSaveParent ==
  ASSUME Earned, Ordered, NEW c \in Callers, SaveParent(c)
  PROVE  Ordered'
<1>1. PICK r \in Run : r = run[c]
  BY RunFact
<1>2. FitsRun(r) /\ r.pc = "saveParent" /\ r.stages \in StageList
  BY <1>1, OrderFact, RunFact DEF Ordered, SaveParent
<1> DEFINE opKey  == r.opKey \/ r.stages["PROPOSAL_QUEUED"].link
           stages == Restricted(r.stages, ParentStages)
           parent == [input |-> r.input, stages |-> stages, errorCount |-> 0, opKey |-> opKey]
           linked == [r EXCEPT !.pc = "saveLinked"]
<1>3. /\ cache' = [cache EXCEPT ![baseKey(r.entry)] = parent]
      /\ run' = [run EXCEPT ![c] = linked] \/ run' = [run EXCEPT ![c] = IdleRun]
  BY <1>1 DEF SaveParent
<1>4. FitsRun(linked)
  BY <1>2 DEF FitsRun, Run, isGovernorRun
<1>5. NoneOf(TimelockStages, stages) /\ StagesInOrder(stages)
      /\ (NoneOf(ParentStages, r.stages) => NoneOf(ParentStages, stages))
  <2>1. stages \in StageList
    BY <1>2 DEF Restricted, StageList, NotStarted, Stage, TrackedStage, StageStatus
  <2> QED BY <1>2, <2>1, OrderOfParts
<1>6. /\ r.entry # "proposal" => ~opKey
      /\ r.input \in GovernorInputs
  <2>1. r.entry # "proposal" => r.stages["PROPOSAL_QUEUED"] = NotStarted /\ ~r.opKey
    BY <1>2 DEF FitsRun, NoneOf, ParentStages
  <2>2. NotStarted.link = FALSE
    BY DEF NotStarted, Stage
  <2> QED BY <1>2, <2>1, <2>2 DEF FitsRun, isGovernorRun
<1>7. baseKey(r.entry) \in CacheKey /\ FitsKey(baseKey(r.entry), parent)
  <2> HIDE DEF stages, opKey
  <2> QED BY <1>2, <1>5, <1>6 DEF FitsKey, FitsRun, baseKey, CacheKey
<1> HIDE DEF parent, linked
<1> QED BY <1>3, <1>4, <1>7, IdleFits, OrderOfSaveStep DEF Earned

\* An operation is saved without governor stages, and never as a governor's.
LEMMA OrderOfSaveTimelock ==
  ASSUME Earned, Ordered, NEW c \in Callers, SaveLinkedTimelock(c) \/ SaveOperation(c)
  PROVE  Ordered'
<1>1. PICK r \in Run : r = run[c]
  BY RunFact
<1>2. FitsRun(r) /\ r.stages \in StageList
  BY <1>1, OrderFact, RunFact DEF Ordered
<1>3. PICK input : /\ cache' = [cache EXCEPT !["operation"] = OperationCheckpoint(input, r.stages)]
                   /\ run' = [run EXCEPT ![c] = IdleRun]
                   /\ input = "timelock" \/ (input = r.input /\ r.pc = "saveOperation")
  BY <1>1 DEF SaveLinkedTimelock, SaveOperation
<1>4. input # "governor"
  BY <1>2, <1>3 DEF FitsRun, isGovernorRun, GovernorInputs
<1>5. FitsKey("operation", OperationCheckpoint(input, r.stages))
  <2>1. StagesInOrder(Restricted(r.stages, TimelockStages)) /\ NoneOf(ParentStages, Restricted(r.stages, TimelockStages))
    BY <1>2, OrderOfParts DEF FitsRun
  <2> QED BY <1>4, <2>1 DEF FitsKey, OperationCheckpoint, NewCheckpoint
<1> QED BY <1>3, <1>5, IdleFits, OrderOfSaveStep DEF Earned, CacheKey

\* The error checkpoint is the one that was loaded, or one that is made up for its
\* key.
LEMMA OrderOfError ==
  ASSUME Earned, Ordered, NEW c \in Callers, SaveErrorCheckpoint(c)
  PROVE  Ordered'
<1>1. PICK r \in Run : r = run[c]
  BY RunFact
<1>2. FitsRun(r) /\ r.loaded \in Checkpoint /\ r.entry \in CacheKey
  BY <1>1, OrderFact, RunFact DEF Ordered, Run
<1> DEFINE made == NewCheckpoint(IF r.entry = "operation" THEN "unknownTimelock" ELSE "unknownGovernor")
           base == IF Exists(r.loaded) THEN r.loaded ELSE made
<1>3. PICK counted \in {0, 1} :
        cache' = [cache EXCEPT ![r.entry] = [base EXCEPT !.errorCount = @ + counted, !.opKey = FALSE]]
  BY <1>1 DEF SaveErrorCheckpoint
<1>4. made \in Checkpoint /\ FitsKey(r.entry, made)
  BY <1>2, NewCheckpointFact, NewCheckpointFits DEF GovernorInputs, TimelockInputs
<1>5. base \in Checkpoint /\ FitsKey(r.entry, base)
  BY <1>2, <1>4 DEF FitsRun
<1> HIDE DEF base
<1> DEFINE cp == [base EXCEPT !.errorCount = @ + counted, !.opKey = FALSE]
<1>6. cp.stages = base.stages /\ cp.input = base.input /\ cp.opKey = FALSE
  BY <1>5 DEF Checkpoint
<1>7. FitsKey(r.entry, cp)
  <2> HIDE DEF cp
  <2> QED BY <1>5, <1>6 DEF FitsKey
<1>8. run' = [run EXCEPT ![c] = IdleRun]
  BY DEF SaveErrorCheckpoint
<1>9. cache' = [cache EXCEPT ![r.entry] = cp]
  BY <1>3
<1> HIDE DEF cp
<1> QED BY <1>2, <1>7, <1>8, <1>9, IdleFits, OrderOfSaveStep DEF Earned

\* Both invariants together are inductive, and hold at first.
LEMMA OrderInvariant == Spec => [](Earned /\ Ordered)
<1>1. Init => Ordered
  <2> SUFFICES ASSUME Init PROVE Ordered
    OBVIOUS
  <2>1. \A k \in CacheKey : FitsKey(k, cache[k])
    BY NewCheckpointFits DEF Init, Absent, GovernorInputs
  <2>2. \A c \in Callers : FitsRun(run[c])
    BY IdleFits DEF Init
  <2> QED BY <2>1, <2>2 DEF Ordered
<1>2. Earned /\ Ordered /\ [Next]_vars => Ordered'
  <2> SUFFICES ASSUME Earned, Ordered, [Next]_vars PROVE Ordered'
    OBVIOUS
  <2>1. CASE UNCHANGED trackerVars
    BY <2>1 DEF trackerVars, Ordered
  <2>2. ASSUME NEW c \in Callers, NEW entry \in Entries, trackByTxHash(c, entry) PROVE Ordered'
    BY <2>2, EntriesAssumption, OrderOfStart
  <2>3. ASSUME NEW c \in Callers, Continue(c) PROVE Ordered'
    BY <2>3, OrderOfDiscovery, OrderOfLoading, OrderOfStage, OrderOfSaveParent, OrderOfSaveTimelock
       DEF Continue
  <2>4. ASSUME NEW c \in Callers, SaveErrorCheckpoint(c) PROVE Ordered'
    BY <2>4, OrderOfError
  <2>5. ASSUME NEW c \in Callers, Crash(c) PROVE Ordered'
    BY <2>5, IdleFits, OrderOfRunStep DEF Crash, Earned
  <2> QED BY <2>1, <2>2, <2>3, <2>4, <2>5 DEF Next, vars
<1> QED BY <1>1, <1>2, EarnedAlways, PTL DEF Spec

\* In every checkpoint a timelock stage that says anything follows one that is done,
\* although lists are merged from checkpoints of different calls: for any number of
\* callers, errors, crashes, and nodes that answer from older blocks.
THEOREM CheckpointsStayInOrder == Spec => []CheckpointsInOrder
<1>1. Ordered => CheckpointsInOrder
  BY DEF Ordered, FitsKey, CheckpointsInOrder
<1> QED BY <1>1, OrderInvariant, PTL

-----------------------------------------------------------------------------
(* Reads that are exact, and what is followed up.                          *)

\* With exact reads a stage that is done has its transaction and, unless the pipeline
\* is just at it, the stage after it.
Followed(stages, pc) ==
  /\ \A s \in {"L2_TIMELOCK", "L2_TO_L1_MESSAGE", "L1_TIMELOCK"} :
       stages[s].status = "COMPLETED" => stages[s].link
  /\ stages["RETRYABLE_EXECUTED"].status = "SKIPPED" => route # "roundTrip"
  /\ stages["VOTING_ACTIVE"].status = "COMPLETED" /\ pc # "PROPOSAL_QUEUED"
       => "PROPOSAL_QUEUED" \in Stored(stages)
  /\ stages["L2_TIMELOCK"].status = "COMPLETED" /\ pc # "L2_TO_L1_MESSAGE"
       => "L2_TO_L1_MESSAGE" \in Stored(stages)
  /\ stages["L2_TO_L1_MESSAGE"].status = "COMPLETED" /\ pc # "L1_TIMELOCK"
       => "L1_TIMELOCK" \in Stored(stages) \/ fate = "L1Canceled"
  /\ stages["L1_TIMELOCK"].status = "COMPLETED" /\ pc # "RETRYABLE_EXECUTED"
       => "RETRYABLE_EXECUTED" \in Stored(stages)

FollowedCheckpoint(cp) == Followed(cp.stages, "idle") /\ cp.errorCount <= faults

FollowedThrough ==
  /\ \A k \in CacheKey : FollowedCheckpoint(cache[k])
  /\ \A c \in Callers : Followed(run[c].stages, run[c].pc) /\ FollowedCheckpoint(run[c].loaded)

\* What is known of a call and of a checkpoint.
LEMMA FollowedFact ==
  ASSUME Earned, FollowedThrough, NEW c \in Callers, NEW k \in CacheKey
  PROVE  /\ FollowedCheckpoint(cache[k]) /\ FollowedCheckpoint(run[c].loaded)
         /\ Followed(run[c].stages, run[c].pc)
         /\ run[c].stages \in StageList /\ cache[k].stages \in StageList
BY CacheFact, RunFact DEF FollowedThrough

\* With exact reads every answer is the one of the chains as they are.
LEMMA ExactReads ==
  ASSUME ~Lag, ChainTypeOK
  PROVE  /\ phase \in Nat /\ Views = {Current}
         /\ \A milestone \in Nat : \A found \in Found(milestone) : found = (phase >= milestone)
<1>1. Views = {Current} /\ phase \in Nat
  BY DEF Views, ChainTypeOK, Phases, Created, Redeemed
<1>2. ASSUME NEW milestone \in Nat, NEW found \in Found(milestone)
      PROVE  found = (phase >= milestone)
  <2>1. found \in BOOLEAN /\ (found <=> Current.at >= milestone)
    BY <1>1, <1>2 DEF Found
  <2>2. Current.at = phase
    BY DEF Current
  <2> QED BY <2>1, <2>2
<1> QED BY <1>1, <1>2

\* NOT_STARTED everywhere leaves nothing to follow up; what was followed up away from
\* the four stages is followed up everywhere.
LEMMA FollowedElsewhere ==
  /\ Followed(NoStages, "idle")
  /\ \A stages \in StageList : \A pc, at :
       /\ Followed(stages, pc)
       /\ pc \notin {"PROPOSAL_QUEUED", "L2_TO_L1_MESSAGE", "L1_TIMELOCK", "RETRYABLE_EXECUTED"}
            \/ pc \in Stored(stages)
       => Followed(stages, at)
<1>1. Followed(NoStages, "idle")
  BY DEF Followed, NoStages, NotStarted, Stage, StageType, ParentStages, TimelockStages
<1>2. ASSUME NEW stages \in StageList, NEW pc, NEW at, Followed(stages, pc),
             pc \notin {"PROPOSAL_QUEUED", "L2_TO_L1_MESSAGE", "L1_TIMELOCK", "RETRYABLE_EXECUTED"}
               \/ pc \in Stored(stages)
      PROVE  Followed(stages, at)
  BY <1>2 DEF Followed
<1> QED BY <1>1, <1>2

\* Splitting and merging lists keeps what is followed up together with what follows.
LEMMA FollowedParts ==
  ASSUME NEW x \in StageList, NEW y \in StageList, Followed(x, "idle"), Followed(y, "idle")
  PROVE  /\ Followed(Restricted(x, ParentStages), "idle")
         /\ Followed(Restricted(x, TimelockStages), "idle")
         /\ Followed(Overlay(x, y), "idle")
<1>n. NotStarted.status = "NOT_STARTED"
  BY DEF NotStarted, Stage
<1>1. ASSUME NEW part \in {ParentStages, TimelockStages}
      PROVE  Followed(Restricted(x, part), "idle")
  <2>1. /\ \A s \in StageType : Restricted(x, part)[s] = IF s \in part THEN x[s] ELSE NotStarted
        /\ \A s \in part : s \in Stored(x) => s \in Stored(Restricted(x, part))
    BY <1>n DEF Restricted, Stored, StageType
  <2>2. CASE part = ParentStages
    BY <1>n, <2>1, <2>2 DEF Followed, StageType, ParentStages, TimelockStages
  <2>3. CASE part = TimelockStages
    BY <1>n, <2>1, <2>3 DEF Followed, StageType, ParentStages, TimelockStages
  <2> QED BY <2>2, <2>3
<1>2. Followed(Overlay(x, y), "idle")
  <2> DEFINE z == Overlay(x, y)
  <2>1. /\ \A s \in StageType : z[s] = IF s \in Stored(y) THEN y[s] ELSE x[s]
        /\ Stored(z) = Stored(x) \cup Stored(y)
    BY DEF Overlay, Stored
  <2> HIDE DEF z
  <2>2. \A s \in StageType : \A status : z[s].status = status => y[s].status = status \/ x[s].status = status
    BY <2>1
  <2>3. \A s \in {"L2_TIMELOCK", "L2_TO_L1_MESSAGE", "L1_TIMELOCK"} :
          z[s].status = "COMPLETED" => z[s].link
    BY <2>1 DEF Followed, StageType, TimelockStages
  <2> QED BY <2>1, <2>2, <2>3 DEF Followed, StageType, ParentStages, TimelockStages, z
<1> QED BY <1>1, <1>2

\* What is followed up stays so when the chains move.
LEMMA FollowedIsKept ==
  ASSUME ChainTypeOK, ChainStep \/ UNCHANGED chainVars, NEW stages, NEW pc, Followed(stages, pc)
  PROVE  Followed(stages, pc)'
<1>1. route' = route /\ (fate = "L1Canceled" => fate' = "L1Canceled")
  BY DEF ChainStep, Advance, Die, Finished, chainVars
<1> QED BY <1>1 DEF Followed

\* The steps of the tracker and of the chains, as far as they matter here: what is in
\* the cache and in the calls afterwards is followed up as the chains are before.
LEMMA FollowedStep ==
  ASSUME Earned, ChainStep \/ UNCHANGED chainVars, faults' \in Nat, faults <= faults',
         \A k \in CacheKey : /\ cache'[k] \in Checkpoint /\ Followed(cache'[k].stages, "idle")
                             /\ cache'[k].errorCount <= faults',
         \A c \in Callers : /\ Followed(run'[c].stages, run'[c].pc)
                            /\ run'[c].loaded \in Checkpoint
                            /\ Followed(run'[c].loaded.stages, "idle")
                            /\ run'[c].loaded.errorCount <= faults'
  PROVE  FollowedThrough'
<1>1. ChainTypeOK
  BY DEF Earned, TypeOK
<1>2. ASSUME NEW k \in CacheKey PROVE FollowedCheckpoint(cache[k])'
  <2>1. PICK stages : stages = cache'[k].stages
    OBVIOUS
  <2>2. Followed(stages, "idle")'
    BY <1>1, <2>1, FollowedIsKept
  <2> QED BY <2>1, <2>2 DEF FollowedCheckpoint, Followed
<1>3. ASSUME NEW c \in Callers
      PROVE  Followed(run[c].stages, run[c].pc)' /\ FollowedCheckpoint(run[c].loaded)'
  <2>1. PICK stages, pc, loaded : stages = run'[c].stages /\ pc = run'[c].pc /\ loaded = run'[c].loaded.stages
    OBVIOUS
  <2>2. Followed(stages, pc)' /\ Followed(loaded, "idle")'
    BY <1>1, <2>1, FollowedIsKept
  <2>3. Followed(run[c].stages, run[c].pc)'
    BY <2>1, <2>2 DEF Followed
  <2>4. Followed(run[c].loaded.stages, "idle")'
    BY <2>1, <2>2 DEF Followed
  <2> QED BY <2>3, <2>4 DEF FollowedCheckpoint
<1> QED BY <1>2, <1>3 DEF FollowedThrough

\* A step of one call that writes nothing.
LEMMA FollowedRunStep ==
  ASSUME Earned, FollowedThrough, UNCHANGED <<chainVars, cache, faults>>, NEW c \in Callers,
         NEW r \in Run, Followed(r.stages, r.pc), FollowedCheckpoint(r.loaded),
         run' = [run EXCEPT ![c] = r]
  PROVE  FollowedThrough'
<1>1. UNCHANGED chainVars /\ UNCHANGED cache /\ faults' = faults /\ faults \in Nat
  BY BoundsAssumption DEF Earned, TypeOK
<1>2. ASSUME NEW k \in CacheKey
      PROVE  cache'[k] \in Checkpoint /\ Followed(cache'[k].stages, "idle") /\ cache'[k].errorCount <= faults'
  BY <1>1, CacheFact DEF FollowedThrough, FollowedCheckpoint
<1>3. ASSUME NEW d \in Callers
      PROVE  /\ Followed(run'[d].stages, run'[d].pc) /\ run'[d].loaded \in Checkpoint
             /\ Followed(run'[d].loaded.stages, "idle") /\ run'[d].loaded.errorCount <= faults'
  <2>1. run'[d] \in {r, run[d]} /\ r.loaded \in Checkpoint /\ run[d].loaded \in Checkpoint
    BY RunFact DEF Earned, TypeOK, Run
  <2> QED BY <1>1, <2>1 DEF FollowedThrough, FollowedCheckpoint
<1> QED BY <1>1, <1>2, <1>3, FollowedStep

\* A step that writes a checkpoint and ends the call or goes on saving.
LEMMA FollowedSaveStep ==
  ASSUME Earned, FollowedThrough, UNCHANGED chainVars, faults' \in Nat, faults <= faults',
         NEW k \in CacheKey, NEW cp \in Checkpoint, Followed(cp.stages, "idle"),
         cp.errorCount <= faults', cache' = [cache EXCEPT ![k] = cp],
         NEW c \in Callers, NEW r \in Run, Followed(r.stages, r.pc), FollowedCheckpoint(r.loaded),
         run' = [run EXCEPT ![c] = r]
  PROVE  FollowedThrough'
<1>1. faults \in Nat
  BY BoundsAssumption DEF Earned, TypeOK
<1>2. ASSUME NEW j \in CacheKey
      PROVE  cache'[j] \in Checkpoint /\ Followed(cache'[j].stages, "idle") /\ cache'[j].errorCount <= faults'
  <2>1. cache'[j] \in {cp, cache[j]} /\ cache[j] \in Checkpoint
    BY CacheFact DEF Earned, TypeOK
  <2>2. Followed(cache[j].stages, "idle") /\ cache[j].errorCount <= faults /\ cache[j].errorCount \in Nat
    BY <2>1 DEF FollowedThrough, FollowedCheckpoint, Checkpoint
  <2> QED BY <1>1, <2>1, <2>2
<1>3. ASSUME NEW d \in Callers
      PROVE  /\ Followed(run'[d].stages, run'[d].pc) /\ run'[d].loaded \in Checkpoint
             /\ Followed(run'[d].loaded.stages, "idle") /\ run'[d].loaded.errorCount <= faults'
  <2>1. run'[d] \in {r, run[d]} /\ r.loaded \in Checkpoint /\ run[d].loaded \in Checkpoint
    BY RunFact DEF Earned, TypeOK, Run
  <2>2. \A x \in {r, run[d]} : /\ Followed(x.stages, x.pc) /\ Followed(x.loaded.stages, "idle")
                               /\ x.loaded.errorCount <= faults
    BY DEF FollowedThrough, FollowedCheckpoint
  <2>3. \A x \in {r, run[d]} : x.loaded.errorCount \in Nat
    BY <2>1 DEF Checkpoint
  <2>4. \A x \in {r, run[d]} : x.loaded.errorCount <= faults'
    BY <1>1, <2>2, <2>3
  <2> QED BY <2>1, <2>2, <2>4
<1> QED BY <1>2, <1>3, FollowedStep

-----------------------------------------------------------------------------
(* Following up, in the steps of the pipeline.                             *)

\* A stage that was not done is set, and the pipeline goes on if it is done now.
LEMMA FollowedReturn ==
  ASSUME Earned, FollowedThrough, NEW c \in Callers, NEW s \in StageType, run[c].pc = s,
         NEW stages \in StageList, NEW continue \in BOOLEAN, Return(c, s, stages, continue),
         Followed(stages, NextStep(run[c], stages, s, continue))
  PROVE  FollowedThrough'
<1>1. PICK r \in Run : r = run[c]
  BY RunFact
<1> DEFINE next == NextStep(r, stages, s, continue)
           new  == [r EXCEPT !.stages = stages, !.pc = next]
<1>2. new \in Run /\ new.stages = stages /\ new.pc = next /\ new.loaded = r.loaded
  BY NextStepFact DEF Run, StageList
<1>3. run' = [run EXCEPT ![c] = new] /\ UNCHANGED <<chainVars, cache, faults>>
  BY <1>1 DEF Return
<1>4. Followed(new.stages, new.pc) /\ FollowedCheckpoint(new.loaded)
  BY <1>1, <1>2, FollowedFact DEF CacheKey
<1> HIDE DEF new
<1> QED BY <1>2, <1>3, <1>4, FollowedRunStep

\* A tracker that sets its own stage: what it leaves behind is followed up if it
\* answers the stage before it, and goes on if its own is done.
LEMMA FollowedAdd ==
  ASSUME Earned, FollowedThrough, NEW c \in Callers, NEW s \in StageType, Tracking(c, s),
         NEW stage \in TrackedStage, NEW continue \in BOOLEAN, addStage(c, s, stage, continue),
         s = "PROPOSAL_QUEUED" /\ run[c].stages["VOTING_ACTIVE"].status = "COMPLETED"
           => stage.status # "NOT_STARTED",
         s = "L2_TO_L1_MESSAGE" /\ run[c].stages["L2_TIMELOCK"].status = "COMPLETED"
           => stage.status # "NOT_STARTED",
         s = "L1_TIMELOCK" /\ run[c].stages["L2_TO_L1_MESSAGE"].status = "COMPLETED"
           => stage.status # "NOT_STARTED" \/ fate = "L1Canceled",
         s = "RETRYABLE_EXECUTED" /\ run[c].stages["L1_TIMELOCK"].status = "COMPLETED"
           => stage.status # "NOT_STARTED",
         s \in {"VOTING_ACTIVE", "L2_TIMELOCK", "L2_TO_L1_MESSAGE", "L1_TIMELOCK"}
           /\ stage.status = "COMPLETED" => continue,
         s \in {"L2_TIMELOCK", "L2_TO_L1_MESSAGE", "L1_TIMELOCK"}
           /\ stage.status = "COMPLETED" => stage.link,
         s = "RETRYABLE_EXECUTED" /\ stage.status = "SKIPPED" => route # "roundTrip"
  PROVE  FollowedThrough'
<1> DEFINE old    == run[c].stages
           stages == [old EXCEPT ![s] = stage]
           next   == NextStep(run[c], stages, s, continue)
<1>1. old \in StageList /\ Followed(old, s) /\ run[c].pc = s /\ ~isStageSuccess(old[s].status)
  BY FollowedFact DEF Tracking, CacheKey
<1>2. stages \in StageList /\ stages[s] = stage /\ \A t \in StageType \ {s} : stages[t] = old[t]
  BY <1>1 DEF StageList
<1>3. Return(c, s, stages, continue)
  BY DEF addStage
<1>4. continue => /\ s = "VOTING_ACTIVE" => next = "PROPOSAL_QUEUED"
                  /\ s = "L2_TIMELOCK" => next = "L2_TO_L1_MESSAGE"
                  /\ s = "L2_TO_L1_MESSAGE" => next = "L1_TIMELOCK"
                  /\ s = "L1_TIMELOCK" => next = "RETRYABLE_EXECUTED"
  BY DEF NextStep, ParentStages
<1>5. Followed(stages, next)
  <2> HIDE DEF old, stages, next
  <2>0. \A t \in StageType : t \in Stored(stages) <=> stages[t].status # "NOT_STARTED"
    BY DEF Stored
  <2>1. \A t \in StageType : t \in Stored(old) <=> old[t].status # "NOT_STARTED"
    BY DEF Stored
  <2>2. \A t \in {"L2_TIMELOCK", "L2_TO_L1_MESSAGE", "L1_TIMELOCK"} :
          stages[t].status = "COMPLETED" => stages[t].link
    BY <1>1, <1>2 DEF Followed, StageType, TimelockStages
  <2>3. stages["RETRYABLE_EXECUTED"].status = "SKIPPED" => route # "roundTrip"
    BY <1>1, <1>2 DEF Followed, StageType, TimelockStages
  <2>4. stages["VOTING_ACTIVE"].status = "COMPLETED" /\ next # "PROPOSAL_QUEUED"
          => "PROPOSAL_QUEUED" \in Stored(stages)
    BY <1>1, <1>2, <1>4, <2>0, <2>1 DEF Followed, StageType, ParentStages, old
  <2>5. stages["L2_TIMELOCK"].status = "COMPLETED" /\ next # "L2_TO_L1_MESSAGE"
          => "L2_TO_L1_MESSAGE" \in Stored(stages)
    BY <1>1, <1>2, <1>4, <2>0, <2>1 DEF Followed, StageType, TimelockStages, old
  <2>6. stages["L2_TO_L1_MESSAGE"].status = "COMPLETED" /\ next # "L1_TIMELOCK"
          => "L1_TIMELOCK" \in Stored(stages) \/ fate = "L1Canceled"
    BY <1>1, <1>2, <1>4, <2>0, <2>1 DEF Followed, StageType, TimelockStages, old
  <2>7. stages["L1_TIMELOCK"].status = "COMPLETED" /\ next # "RETRYABLE_EXECUTED"
          => "RETRYABLE_EXECUTED" \in Stored(stages)
    BY <1>1, <1>2, <1>4, <2>0, <2>1 DEF Followed, StageType, TimelockStages, old
  <2> QED BY <2>2, <2>3, <2>4, <2>5, <2>6, <2>7 DEF Followed
<1> HIDE DEF stages
<1> QED BY <1>1, <1>2, <1>3, <1>5, FollowedReturn

\* A tracker that leaves the list alone where its stage is stored, or where nothing
\* waits for it.
LEMMA FollowedSame ==
  ASSUME Earned, FollowedThrough, NEW c \in Callers, NEW s \in StageType, run[c].pc = s,
         NEW continue \in BOOLEAN, Return(c, s, run[c].stages, continue),
         s \in {"PROPOSAL_CREATED", "VOTING_ACTIVE", "L2_TIMELOCK"} \/ s \in Stored(run[c].stages)
           \/ (s = "RETRYABLE_EXECUTED" /\ run[c].stages["L1_TIMELOCK"].status # "COMPLETED")
  PROVE  FollowedThrough'
<1> DEFINE stages == run[c].stages
           next   == NextStep(run[c], stages, s, continue)
<1>1. stages \in StageList /\ Followed(stages, s)
  BY FollowedFact DEF CacheKey
<1>2. Followed(stages, next)
  <2> HIDE DEF stages, next
  <2>1. CASE s \in {"PROPOSAL_CREATED", "VOTING_ACTIVE", "L2_TIMELOCK"} \/ s \in Stored(stages)
    BY <1>1, <2>1, FollowedElsewhere
  <2>2. CASE s = "RETRYABLE_EXECUTED" /\ stages["L1_TIMELOCK"].status # "COMPLETED"
    BY <1>1, <2>2 DEF Followed
  <2> QED BY <2>1, <2>2 DEF stages
<1> QED BY <1>1, <1>2, FollowedReturn

\* What a status in the list of a call tells of the chains.
LEMMA DoneIsDone ==
  ASSUME Earned, NEW c \in Callers
  PROVE  /\ run[c].stages["VOTING_ACTIVE"].status = "COMPLETED" => Since(Succeeded)
         /\ isStageSuccess(run[c].stages["L2_TIMELOCK"].status)
              => run[c].stages["L2_TIMELOCK"].status = "COMPLETED" /\ Since(L2Executed)
         /\ run[c].stages["L2_TO_L1_MESSAGE"].status = "COMPLETED" => Since(OutboxDone)
         /\ run[c].stages["L1_TIMELOCK"].status = "COMPLETED" => Since(L1Executed)
<1>1. \A s \in StageType : Evidence(s, run[c].stages[s].status)
  BY RunFact DEF Justified
<1>2. /\ Evidence("VOTING_ACTIVE", run[c].stages["VOTING_ACTIVE"].status)
      /\ Evidence("L2_TIMELOCK", run[c].stages["L2_TIMELOCK"].status)
      /\ Evidence("L2_TO_L1_MESSAGE", run[c].stages["L2_TO_L1_MESSAGE"].status)
      /\ Evidence("L1_TIMELOCK", run[c].stages["L1_TIMELOCK"].status)
  BY <1>1 DEF StageType, ParentStages, TimelockStages
<1> QED BY <1>2 DEF Evidence, isStageSuccess

\* With exact reads a timelock stage is COMPLETED only with its transaction, and says
\* something of every operation that was scheduled and not canceled.
LEMMA ExactTimelockStage ==
  ASSUME ~Lag, ChainTypeOK, NEW scheduled \in Nat, NEW ready \in Nat, NEW done \in Nat, NEW canceled,
         scheduled <= ready, ready <= done,
         NEW state, state = operationStateOf(Current, scheduled, ready, done, canceled),
         NEW executed \in Found(done)
  PROVE  LET stage == TimelockStage(state, executed)
         IN  /\ stage \in TrackedStage
             /\ stage.status = "COMPLETED" => stage.link
             /\ Since(scheduled) /\ fate # canceled => stage.status # "NOT_STARTED"
<1>1. Current \in Views /\ Current.at = phase /\ Current.fate = fate /\ phase \in Nat
  BY ExactReads DEF Current, Views
<1>2. state \in {"none", "pending", "ready", "done"} /\ (state = "done" => Since(done))
  BY <1>1, OperationStateIsTrue
<1>3. executed = (phase >= done) /\ executed \in BOOLEAN
  BY ExactReads DEF Found
<1>4. Since(scheduled) /\ fate # canceled => state # "none"
  BY <1>1 DEF operationStateOf, Since
<1>5. state = "done" => executed
  BY <1>2, <1>3 DEF Since
<1>6. TimelockStage(state, executed) \in TrackedStage
  BY <1>2, <1>3, TimelockStageFact
<1> QED BY <1>2, <1>3, <1>4, <1>5, <1>6 DEF TimelockStage, Stage, Linked, NotStarted

\* A step of the pipeline leaves nothing behind that is done and not followed up.
LEMMA FollowedStage ==
  ASSUME ~Lag, Earned, Ordered, FollowedThrough, NEW c \in Callers, TrackStage(c)
  PROVE  FollowedThrough'
<1>r. /\ ChainTypeOK /\ ChainIsSound /\ run[c] \in Run /\ run[c].stages \in StageList
      /\ Followed(run[c].stages, run[c].pc) /\ FitsRun(run[c]) /\ phase \in Nat
      /\ Views = {Current} /\ Current = [at |-> phase, fate |-> fate]
  BY RunFact, ExactReads, FollowedFact DEF Ordered, CacheKey, Current
<1>s. /\ ParentStages \subseteq StageType /\ TimelockStages \subseteq StageType
      /\ \A st \in StageStatus : Stage(st) \in TrackedStage /\ Stage(st).status = st
      /\ NotStarted \in TrackedStage /\ NotStarted.status = "NOT_STARTED" /\ NotStarted.link = FALSE
  BY StageIsTracked DEF StageType, NotStarted, Stage, StageStatus
<1>1. CASE UseCachedStage(c)
  <2>1. PICK s \in StageType :
          /\ run[c].pc = s /\ isStageSuccess(run[c].stages[s].status)
          /\ Return(c, s, run[c].stages, s = "L2_TIMELOCK" => operationKnown(run[c]))
    BY <1>1 DEF UseCachedStage
  <2>2. s \in Stored(run[c].stages)
    BY <2>1 DEF Stored, isStageSuccess
  <2> DEFINE continue == s = "L2_TIMELOCK" => operationKnown(run[c])
  <2>3. continue \in BOOLEAN /\ Return(c, s, run[c].stages, continue)
    BY <2>1
  <2> HIDE DEF continue
  <2> QED BY <2>1, <2>2, <2>3, FollowedSame
<1>2. CASE trackProposalCreatedStage(c)
  <2>1. Tracking(c, "PROPOSAL_CREATED") /\ "PROPOSAL_CREATED" \in StageType
    BY <1>2 DEF trackProposalCreatedStage, StageType, ParentStages
  <2>2. CASE Stop(c, "PROPOSAL_CREATED")
    BY <2>1, <2>2, FollowedSame DEF Stop, Tracking
  <2>3. ASSUME NEW found \in Found(Created),
               addStage(c, "PROPOSAL_CREATED", IF found THEN Stage("COMPLETED") ELSE NotStarted, found)
        PROVE  FollowedThrough'
    <3> DEFINE stage == IF found THEN Stage("COMPLETED") ELSE NotStarted
    <3>1. found \in BOOLEAN /\ stage \in TrackedStage
      BY <1>s DEF Found, StageStatus
    <3> HIDE DEF stage
    <3>2. addStage(c, "PROPOSAL_CREATED", stage, found)
      BY <2>3 DEF stage
    <3> QED BY <2>1, <3>1, <3>2, FollowedAdd
  <2> QED BY <1>2, <2>2, <2>3 DEF trackProposalCreatedStage
<1>3. CASE trackVotingStage(c)
  <2>1. PICK state \in getProposalState :
          /\ Tracking(c, "VOTING_ACTIVE")
          /\ addStage(c, "VOTING_ACTIVE", Stage(VotingStatus(state)), VotingStatus(state) = "COMPLETED")
    BY <1>3 DEF trackVotingStage
  <2> DEFINE stage == Stage(VotingStatus(state))
             continue == VotingStatus(state) = "COMPLETED"
  <2>2. stage \in TrackedStage /\ stage.status = VotingStatus(state) /\ "VOTING_ACTIVE" \in StageType
    BY <1>r, <1>s, VotingStageIsTrue DEF StageType, ParentStages
  <2>3. continue \in BOOLEAN /\ (stage.status = "COMPLETED" => continue)
    BY <2>2
  <2> HIDE DEF stage, continue
  <2>4. addStage(c, "VOTING_ACTIVE", stage, continue)
    BY <2>1 DEF stage, continue
  <2> QED BY <2>1, <2>2, <2>3, <2>4, FollowedAdd
<1>4. CASE trackProposalQueuedStage(c)
  <2>1. PICK state \in getProposalState, event \in Found(Queued), receipt \in Found(Queued) :
          /\ Tracking(c, "PROPOSAL_QUEUED")
          /\ addStage(c, "PROPOSAL_QUEUED", QueuedStage(state, event, receipt), TRUE)
    BY <1>4 DEF trackProposalQueuedStage
  <2> DEFINE stage == QueuedStage(state, event, receipt)
  <2>2. stage \in TrackedStage /\ "PROPOSAL_QUEUED" \in StageType
    BY DEF QueuedStage, TrackedStage, StageStatus, Stage, Linked, NotStarted, StageType, ParentStages
  <2>3. Since(Succeeded) => state \notin {"Pending", "Active"}
    <3>1. state = proposalStateOf(Current)
      BY <1>r DEF getProposalState
    <3> QED BY <1>r, <3>1, MilestonesFact DEF proposalStateOf, Since
  <2>4. run[c].stages["VOTING_ACTIVE"].status = "COMPLETED" => stage.status # "NOT_STARTED"
    BY <2>3, DoneIsDone DEF QueuedStage, Stage, Linked
  <2> HIDE DEF stage
  <2>5. addStage(c, "PROPOSAL_QUEUED", stage, TRUE)
    BY <2>1 DEF stage
  <2> QED BY <2>1, <2>2, <2>4, <2>5, FollowedAdd
<1>5. CASE trackL2TimelockStage(c)
  <2>1. Tracking(c, "L2_TIMELOCK") /\ "L2_TIMELOCK" \in StageType
    BY <1>5 DEF trackL2TimelockStage, StageType, TimelockStages
  <2>2. CASE Stop(c, "L2_TIMELOCK")
    BY <2>1, <2>2, FollowedSame DEF Stop, Tracking
  <2>3. ASSUME NEW state \in l2OperationState, NEW executed \in Found(L2Executed),
               addStage(c, "L2_TIMELOCK", TimelockStage(state, executed), TimelockStage(state, executed).link)
        PROVE  FollowedThrough'
    <3> DEFINE stage == TimelockStage(state, executed)
    <3>1. state = operationStateOf(Current, Queued, L2Ready, L2Executed, "Canceled")
      BY <1>r DEF l2OperationState
    <3>2. Queued \in Nat /\ L2Ready \in Nat /\ L2Executed \in Nat /\ Queued <= L2Ready /\ L2Ready <= L2Executed
      BY MilestonesFact
    <3>3. stage \in TrackedStage /\ (stage.status = "COMPLETED" => stage.link)
      BY <1>r, <3>1, <3>2, ExactTimelockStage
    <3>4. stage.link \in BOOLEAN
      BY <3>3 DEF TrackedStage
    <3> HIDE DEF stage
    <3>5. addStage(c, "L2_TIMELOCK", stage, stage.link)
      BY <2>3 DEF stage
    <3> QED BY <2>1, <3>3, <3>4, <3>5, FollowedAdd
  <2> QED BY <1>5, <2>2, <2>3 DEF trackL2TimelockStage
<1>6. CASE trackL2ToL1MessageStage(c)
  <2>1. Tracking(c, "L2_TO_L1_MESSAGE") /\ "L2_TO_L1_MESSAGE" \in StageType
    BY <1>6 DEF trackL2ToL1MessageStage, StageType, TimelockStages
  <2>2. run[c].stages["L2_TIMELOCK"].status = "COMPLETED" /\ Since(L2Executed)
    BY <1>r, <2>1, DoneIsDone DEF FitsRun, Tracking
  <2>3. follows(run[c], "L2_TIMELOCK")
    BY <1>r, <2>2 DEF follows, Followed, Linked, StageList, TrackedStage, StageType, TimelockStages
  <2>4. CASE /\ run[c].stages["L2_TO_L1_MESSAGE"].status = "PENDING"
             /\ Stop(c, "L2_TO_L1_MESSAGE")
    <3>1. "L2_TO_L1_MESSAGE" \in Stored(run[c].stages)
      BY <2>1, <2>4 DEF Stored
    <3> QED BY <2>1, <2>4, <3>1, FollowedSame DEF Stop, Tracking
  <2>5. CASE ~needsL1 /\ Return(c, "L2_TO_L1_MESSAGE", L1RoundTripSkipped(run[c].stages), FALSE)
    <3> DEFINE stages == L1RoundTripSkipped(run[c].stages)
               next   == NextStep(run[c], stages, "L2_TO_L1_MESSAGE", FALSE)
    <3>1. stages \in StageList
      BY <1>r DEF L1RoundTripSkipped, StageList, TrackedStage, Stage, StageStatus
    <3>2. \A t \in StageType : stages[t] = IF t \in {"L2_TO_L1_MESSAGE", "L1_TIMELOCK", "RETRYABLE_EXECUTED"}
                                           THEN Stage("SKIPPED") ELSE run[c].stages[t]
      BY DEF L1RoundTripSkipped
    <3>3. Stage("SKIPPED").status = "SKIPPED" /\ Followed(run[c].stages, "L2_TO_L1_MESSAGE")
      BY <1>r, <2>1 DEF Stage, Tracking
    <3> HIDE DEF stages, next
    <3>4. /\ "PROPOSAL_QUEUED" \in Stored(run[c].stages) => "PROPOSAL_QUEUED" \in Stored(stages)
          /\ "L2_TO_L1_MESSAGE" \in Stored(stages)
      BY <3>2, <3>3 DEF Stored, StageType, ParentStages, TimelockStages
    <3>5. Followed(stages, next)
      BY <2>5, <3>2, <3>3, <3>4 DEF Followed, StageType, ParentStages, TimelockStages, needsL1
    <3> QED BY <2>1, <2>5, <3>1, <3>5, FollowedReturn DEF stages, next, Tracking
  <2>6. ASSUME NEW receipt \in Found(L2Executed), NEW status \in messageStatus, NEW event \in Found(OutboxDone),
               addStage(c, "L2_TO_L1_MESSAGE", MessageStage(receipt, status, event),
                        MessageStage(receipt, status, event).status = "COMPLETED")
        PROVE  FollowedThrough'
    <3> DEFINE stage == MessageStage(receipt, status, event)
               continue == stage.status = "COMPLETED"
    <3>1. stage \in TrackedStage /\ continue \in BOOLEAN
      BY <1>r, MessageStageIsTrue
    <3>2. receipt = TRUE
      BY <1>r, <2>2, ExactReads, MilestonesFact DEF Since
    <3>3. status \in {"UNCONFIRMED", "CONFIRMED", "EXECUTED"} /\ (status = "EXECUTED" => Since(OutboxDone))
      BY <1>r, MessageStatusIsTrue
    <3>4. status = "EXECUTED" => event = TRUE
      BY <1>r, <3>3, ExactReads, MilestonesFact DEF Since
    <3>5. stage.status # "NOT_STARTED" /\ (stage.status = "COMPLETED" => stage.link)
      BY <3>2, <3>3, <3>4 DEF MessageStage, Stage, Linked
    <3>6. stage.status = "COMPLETED" => continue
      OBVIOUS
    <3> HIDE DEF stage, continue
    <3>7. addStage(c, "L2_TO_L1_MESSAGE", stage, continue)
      BY <2>6 DEF stage, continue
    <3> QED BY <2>1, <3>1, <3>5, <3>6, <3>7, FollowedAdd
  <2> QED BY <1>6, <2>3, <2>4, <2>5, <2>6 DEF trackL2ToL1MessageStage
<1>7. CASE trackL1TimelockStage(c)
  <2>1. Tracking(c, "L1_TIMELOCK") /\ "L1_TIMELOCK" \in StageType
    BY <1>7 DEF trackL1TimelockStage, StageType, TimelockStages
  <2>2. PICK receipt \in Found(OutboxDone), state \in l1OperationState, executed \in Found(L1Executed) :
          LET discovered == follows(run[c], "L2_TO_L1_MESSAGE") /\ receipt
              stage      == IF discovered THEN TimelockStage(state, executed) ELSE NotStarted
          IN  addStage(c, "L1_TIMELOCK", stage, stage.link)
    BY <1>7 DEF trackL1TimelockStage
  <2> DEFINE known == TimelockStage(state, executed)
             stage == IF follows(run[c], "L2_TO_L1_MESSAGE") /\ receipt THEN known ELSE NotStarted
  <2>3. state = operationStateOf(Current, OutboxDone, L1Ready, L1Executed, "L1Canceled")
    BY <1>r DEF l1OperationState
  <2>4. OutboxDone \in Nat /\ L1Ready \in Nat /\ L1Executed \in Nat
        /\ OutboxDone <= L1Ready /\ L1Ready <= L1Executed
    BY MilestonesFact
  <2>5. /\ known \in TrackedStage /\ (known.status = "COMPLETED" => known.link)
        /\ Since(OutboxDone) /\ fate # "L1Canceled" => known.status # "NOT_STARTED"
    BY <1>r, <2>3, <2>4, ExactTimelockStage
  <2>6. run[c].stages["L2_TO_L1_MESSAGE"].status = "COMPLETED"
          => follows(run[c], "L2_TO_L1_MESSAGE") /\ receipt /\ Since(OutboxDone)
    <3>1. ASSUME run[c].stages["L2_TO_L1_MESSAGE"].status = "COMPLETED"
          PROVE  follows(run[c], "L2_TO_L1_MESSAGE")
      BY <1>r, <3>1 DEF follows, Followed, Linked, StageList, TrackedStage, StageType, TimelockStages
    <3>2. Since(OutboxDone) => receipt
      BY <1>r, ExactReads, MilestonesFact DEF Since
    <3> QED BY <3>1, <3>2, DoneIsDone
  <2>7. stage \in TrackedStage /\ (stage.status = "COMPLETED" => stage.link)
    <3> HIDE DEF known
    <3> QED BY <1>s, <2>5
  <2>8. run[c].stages["L2_TO_L1_MESSAGE"].status = "COMPLETED"
          => stage.status # "NOT_STARTED" \/ fate = "L1Canceled"
    <3> HIDE DEF known
    <3> QED BY <2>5, <2>6
  <2>9. stage.link \in BOOLEAN
    BY <2>7 DEF TrackedStage
  <2>10. addStage(c, "L1_TIMELOCK", stage, stage.link)
    BY <2>2
  <2> HIDE DEF stage
  <2> QED BY <2>1, <2>7, <2>8, <2>9, <2>10, FollowedAdd
<1>8. CASE trackRetryablesStage(c)
  <2>1. Tracking(c, "RETRYABLE_EXECUTED") /\ "RETRYABLE_EXECUTED" \in StageType
    BY <1>8 DEF trackRetryablesStage, StageType, TimelockStages
  <2>2. CASE ~follows(run[c], "L1_TIMELOCK") /\ Stop(c, "RETRYABLE_EXECUTED")
    <3>1. run[c].stages["L1_TIMELOCK"].status # "COMPLETED"
      BY <1>r, <2>2 DEF follows, Followed, Linked, StageList, TrackedStage, StageType, TimelockStages
    <3> QED BY <2>1, <2>2, <3>1, FollowedSame DEF Stop, Tracking
  <2>3. ASSUME follows(run[c], "L1_TIMELOCK"), NEW receipt \in Found(L1Executed), NEW redeem \in redeemStatus,
               addStage(c, "RETRYABLE_EXECUTED", RetryableStage(receipt, redeem), FALSE)
        PROVE  FollowedThrough'
    <3> DEFINE stage == RetryableStage(receipt, redeem)
    <3>1. stage \in TrackedStage /\ stage.status # "NOT_STARTED"
      BY DEF RetryableStage, TrackedStage, StageStatus, Stage
    <3>2. receipt = TRUE
      <4>1. Since(L1Executed)
        BY <2>3, DoneIsDone DEF follows, Linked
      <4> QED BY <1>r, <4>1, ExactReads, MilestonesFact DEF Since
    <3>3. stage.status = "SKIPPED" => route # "roundTrip"
      BY <3>2 DEF RetryableStage, Stage
    <3> HIDE DEF stage
    <3>4. addStage(c, "RETRYABLE_EXECUTED", stage, FALSE)
      BY <2>3 DEF stage
    <3> QED BY <2>1, <3>1, <3>3, <3>4, FollowedAdd
  <2> QED BY <1>8, <2>2, <2>3 DEF trackRetryablesStage
<1> QED BY <1>1, <1>2, <1>3, <1>4, <1>5, <1>6, <1>7, <1>8 DEF TrackStage

-----------------------------------------------------------------------------
(* Following up, in the other steps of a call.                             *)

\* A caller that is idle has left nothing behind.
LEMMA FollowedIdle ==
  ASSUME TypeOK
  PROVE  Followed(IdleRun.stages, IdleRun.pc) /\ FollowedCheckpoint(IdleRun.loaded)
<1>1. faults \in Nat
  BY BoundsAssumption DEF TypeOK
<1> QED BY <1>1, FollowedElsewhere DEF IdleRun, FollowedCheckpoint, Absent, NewCheckpoint

\* A call starts from a checkpoint that is followed up, and what it discovers or
\* merges is.
LEMMA FollowedStart ==
  ASSUME Earned, FollowedThrough, NEW c \in Callers, NEW entry \in CacheKey,
         trackByTxHash(c, entry)
  PROVE  FollowedThrough'
<1>1. PICK cp \in Checkpoint : cp = LoadedFor(entry)
  BY CacheFact DEF LoadedFor, CacheKey
<1> DEFINE r == [pc |-> FirstStep(cp), entry |-> entry, loaded |-> cp, input |-> cp.input,
                 stages |-> cp.stages, opKey |-> cp.opKey, event |-> FALSE]
<1>2. FollowedCheckpoint(cp) /\ cp.stages \in StageList
  BY <1>1, FollowedFact DEF LoadedFor, CacheKey, Checkpoint, StageList
<1>3. FirstStep(cp) \in {"discover", "loadLinked", "L2_TIMELOCK"}
  BY DEF FirstStep, Checkpoint, GovernorInputs, TimelockInputs
<1>4. r \in Run
  BY <1>3 DEF Run, Step, StageType, TimelockStages, Checkpoint
<1>5. Followed(cp.stages, FirstStep(cp))
  BY <1>2, FollowedElsewhere DEF FollowedCheckpoint
<1>6. run' = [run EXCEPT ![c] = r] /\ UNCHANGED <<chainVars, cache, faults>>
  BY <1>1 DEF trackByTxHash
<1>7. Followed(r.stages, r.pc) /\ FollowedCheckpoint(r.loaded)
  BY <1>2, <1>5
<1> HIDE DEF r
<1> QED BY <1>4, <1>6, <1>7, FollowedRunStep

\* Discovery and the merge of the linked checkpoint.
LEMMA FollowedLoading ==
  ASSUME Earned, FollowedThrough, NEW c \in Callers,
         \/ discoverProposalByTxHash(c) \/ findCallScheduledByTxHash(c) \/ LoadLinkedTimelock(c)
  PROVE  FollowedThrough'
<1>1. PICK r \in Run : r = run[c]
  BY RunFact
<1>2. /\ r.stages \in StageList /\ Followed(r.stages, r.pc) /\ FollowedCheckpoint(r.loaded)
      /\ cache["operation"].stages \in StageList /\ Followed(cache["operation"].stages, "idle")
  BY <1>1, FollowedFact DEF CacheKey, FollowedCheckpoint
<1>3. Followed(IdleRun.stages, IdleRun.pc) /\ FollowedCheckpoint(IdleRun.loaded) /\ IdleRun \in Run
  BY FollowedIdle, IdleRunFact DEF Earned
<1>4. CASE discoverProposalByTxHash(c)
  <2> DEFINE new == [r EXCEPT !.pc = "PROPOSAL_CREATED", !.input = "governor"]
  <2>1. r.pc = "discover" /\ UNCHANGED <<chainVars, cache, faults>>
        /\ (run' = [run EXCEPT ![c] = new] \/ run' = [run EXCEPT ![c] = IdleRun])
    BY <1>1, <1>4 DEF discoverProposalByTxHash
  <2>2. /\ new \in Run /\ new.stages = r.stages /\ new.pc = "PROPOSAL_CREATED"
        /\ new.loaded = r.loaded
    BY DEF Run, Step, StageType, ParentStages, GovernorInputs
  <2>3. Followed(new.stages, new.pc)
    BY <1>2, <2>1, <2>2, FollowedElsewhere
  <2> HIDE DEF new
  <2> QED BY <1>2, <1>3, <2>1, <2>2, <2>3, FollowedRunStep
<1>5. CASE findCallScheduledByTxHash(c)
  <2> DEFINE stages == Restricted(cache["operation"].stages, TimelockStages)
             new == [r EXCEPT !.pc = "L2_TIMELOCK", !.input = "timelock", !.event = TRUE,
                              !.stages = stages]
  <2>1. UNCHANGED <<chainVars, cache, faults>>
        /\ (run' = [run EXCEPT ![c] = new] \/ run' = [run EXCEPT ![c] = IdleRun])
    BY <1>1, <1>5 DEF findCallScheduledByTxHash
  <2>2. stages \in StageList /\ Followed(stages, "idle")
    BY <1>2, FollowedParts DEF Restricted, StageList, NotStarted, Stage, TrackedStage, StageStatus
  <2>3. Followed(stages, "L2_TIMELOCK")
    BY <2>2, FollowedElsewhere
  <2> HIDE DEF stages
  <2>4. new \in Run /\ new.stages = stages /\ new.pc = "L2_TIMELOCK" /\ new.loaded = r.loaded
    BY <2>2 DEF Run, Step, StageType, TimelockStages, TimelockInputs, StageList
  <2> HIDE DEF new
  <2> QED BY <1>2, <1>3, <2>1, <2>3, <2>4, FollowedRunStep
<1>6. CASE LoadLinkedTimelock(c)
  <2> DEFINE stages == IF r.opKey THEN Overlay(r.stages, cache["operation"].stages) ELSE r.stages
             new    == [r EXCEPT !.pc = "PROPOSAL_CREATED", !.stages = stages]
  <2>1. r.pc = "loadLinked" /\ UNCHANGED <<chainVars, cache, faults>> /\ run' = [run EXCEPT ![c] = new]
    BY <1>1, <1>6 DEF LoadLinkedTimelock
  <2>2. Followed(r.stages, "idle")
    BY <1>2, <2>1, FollowedElsewhere
  <2>3. stages \in StageList
    BY <1>2 DEF Overlay, StageList
  <2>4. Followed(stages, "idle")
    BY <1>2, <2>2, FollowedParts
  <2>5. Followed(stages, "PROPOSAL_CREATED")
    <3> HIDE DEF stages
    <3> QED BY <2>3, <2>4, FollowedElsewhere
  <2> HIDE DEF stages
  <2>6. new \in Run /\ new.stages = stages /\ new.pc = "PROPOSAL_CREATED" /\ new.loaded = r.loaded
    BY <2>3 DEF Run, Step, StageType, ParentStages, StageList
  <2> HIDE DEF new
  <2> QED BY <1>2, <2>1, <2>5, <2>6, FollowedRunStep
<1> QED BY <1>4, <1>5, <1>6

\* Each of the two checkpoints keeps what belongs together.
LEMMA FollowedSave ==
  ASSUME Earned, FollowedThrough, NEW c \in Callers,
         SaveParent(c) \/ SaveLinkedTimelock(c) \/ SaveOperation(c)
  PROVE  FollowedThrough'
<1>1. PICK r \in Run : r = run[c]
  BY RunFact
<1>2. r.stages \in StageList /\ Followed(r.stages, r.pc) /\ FollowedCheckpoint(r.loaded)
      /\ Justified(r.stages)
  BY <1>1, FollowedFact, RunFact DEF CacheKey
<1>3. r.pc \in {"saveParent", "saveLinked", "saveOperation"} /\ UNCHANGED <<chainVars, faults>>
  BY <1>1 DEF SaveParent, SaveLinkedTimelock, SaveOperation
<1>4. \A at : Followed(r.stages, at)
  BY <1>2, <1>3, FollowedElsewhere
<1>5. faults \in Nat /\ faults' \in Nat /\ faults <= faults' /\ 0 <= faults'
  BY <1>3, BoundsAssumption DEF Earned, TypeOK
<1>6. Followed(IdleRun.stages, IdleRun.pc) /\ FollowedCheckpoint(IdleRun.loaded) /\ IdleRun \in Run
  BY FollowedIdle, IdleRunFact DEF Earned
<1>7. \A part : Restricted(r.stages, part) \in StageList
  BY <1>2 DEF Restricted, StageList, NotStarted, Stage, TrackedStage, StageStatus
<1>8. CASE SaveParent(c)
  <2> DEFINE opKey  == r.opKey \/ r.stages["PROPOSAL_QUEUED"].link
             stages == Restricted(r.stages, ParentStages)
             parent == [input |-> r.input, stages |-> stages, errorCount |-> 0, opKey |-> opKey]
             linked == [r EXCEPT !.pc = "saveLinked"]
  <2>1. /\ cache' = [cache EXCEPT ![baseKey(r.entry)] = parent]
        /\ run' = [run EXCEPT ![c] = linked] \/ run' = [run EXCEPT ![c] = IdleRun]
    BY <1>1, <1>8 DEF SaveParent
  <2>2. parent \in Checkpoint
    <3>1. opKey \in BOOLEAN /\ stages \in StageList
      BY <1>7
    <3> HIDE DEF opKey, stages
    <3> QED BY <3>1 DEF Checkpoint, Run, StageList
  <2>3. Followed(parent.stages, "idle") /\ parent.errorCount <= faults'
    BY <1>2, <1>4, <1>5, FollowedParts
  <2>4. /\ linked \in Run /\ linked.stages = r.stages /\ linked.loaded = r.loaded
        /\ linked.pc = "saveLinked" /\ baseKey(r.entry) \in CacheKey
    BY DEF Run, Step, baseKey, CacheKey
  <2> HIDE DEF parent, linked
  <2> QED BY <1>2, <1>3, <1>4, <1>5, <1>6, <2>1, <2>2, <2>3, <2>4, FollowedSaveStep
<1>9. CASE SaveLinkedTimelock(c) \/ SaveOperation(c)
  <2>1. PICK input \in {"timelock", r.input} :
          /\ cache' = [cache EXCEPT !["operation"] = OperationCheckpoint(input, r.stages)]
          /\ run' = [run EXCEPT ![c] = IdleRun]
    BY <1>1, <1>9 DEF SaveLinkedTimelock, SaveOperation
  <2>2. input \in {"none"} \cup GovernorInputs \cup TimelockInputs
    BY DEF Run, TimelockInputs
  <2>3. OperationCheckpoint(input, r.stages) \in Checkpoint
    BY <1>2, <2>2, OperationCheckpointFact
  <2>4. /\ OperationCheckpoint(input, r.stages).stages = Restricted(r.stages, TimelockStages)
        /\ OperationCheckpoint(input, r.stages).errorCount = 0
    BY DEF OperationCheckpoint, NewCheckpoint
  <2>5. Followed(OperationCheckpoint(input, r.stages).stages, "idle")
    BY <1>2, <1>4, <2>4, FollowedParts
  <2> QED BY <1>3, <1>5, <1>6, <2>1, <2>3, <2>4, <2>5, FollowedSaveStep DEF CacheKey
<1> QED BY <1>8, <1>9

\* An error counts at most one more, and a crash nothing.
LEMMA FollowedFailure ==
  ASSUME Earned, FollowedThrough, NEW c \in Callers, SaveErrorCheckpoint(c) \/ Crash(c)
  PROVE  FollowedThrough'
<1>1. PICK r \in Run : r = run[c]
  BY RunFact
<1>2. FollowedCheckpoint(r.loaded) /\ r.loaded \in Checkpoint /\ r.entry \in CacheKey
  BY <1>1, FollowedFact, RunFact DEF CacheKey, Run
<1>3. /\ faults \in Nat /\ faults' = faults + 1 /\ faults' \in Nat /\ faults <= faults'
      /\ run' = [run EXCEPT ![c] = IdleRun] /\ UNCHANGED chainVars
  BY BoundsAssumption DEF Earned, TypeOK, SaveErrorCheckpoint, Crash
<1>4. Followed(IdleRun.stages, IdleRun.pc) /\ FollowedCheckpoint(IdleRun.loaded) /\ IdleRun \in Run
  BY FollowedIdle, IdleRunFact DEF Earned
<1>5. CASE SaveErrorCheckpoint(c)
  <2> DEFINE made == NewCheckpoint(IF r.entry = "operation" THEN "unknownTimelock" ELSE "unknownGovernor")
             base == IF Exists(r.loaded) THEN r.loaded ELSE made
  <2>1. PICK counted \in {0, 1} :
          cache' = [cache EXCEPT ![r.entry] = [base EXCEPT !.errorCount = @ + counted, !.opKey = FALSE]]
    BY <1>1, <1>5 DEF SaveErrorCheckpoint
  <2>2. made \in Checkpoint /\ made.stages = NoStages /\ made.errorCount = 0
    BY NewCheckpointFact DEF GovernorInputs, TimelockInputs, NewCheckpoint
  <2>3. FollowedCheckpoint(made)
    <3> HIDE DEF made
    <3> QED BY <1>3, <2>2, FollowedElsewhere DEF FollowedCheckpoint
  <2>4. base \in Checkpoint /\ FollowedCheckpoint(base)
    <3> HIDE DEF made
    <3> QED BY <1>2, <2>2, <2>3
  <2> HIDE DEF base
  <2> DEFINE errorCount == base.errorCount + counted
             cp == [base EXCEPT !.errorCount = errorCount, !.opKey = FALSE]
  <2>5. errorCount \in Nat /\ errorCount <= faults'
    BY <1>3, <2>4 DEF FollowedCheckpoint, Checkpoint
  <2>6. cache' = [cache EXCEPT ![r.entry] = cp]
    BY <2>1, <2>4 DEF Checkpoint
  <2> HIDE DEF errorCount
  <2>7. cp \in Checkpoint /\ cp.stages = base.stages /\ cp.errorCount = errorCount
    BY <2>4, <2>5 DEF Checkpoint
  <2> HIDE DEF cp
  <2> QED BY <1>2, <1>3, <1>4, <2>4, <2>5, <2>6, <2>7, FollowedSaveStep DEF FollowedCheckpoint
<1>6. CASE Crash(c)
  <2> DEFINE cp == cache["proposal"]
  <2>1. cp \in Checkpoint /\ FollowedCheckpoint(cp)
    BY CacheFact, FollowedFact DEF CacheKey
  <2>2. cp.errorCount <= faults'
    BY <1>3, <2>1 DEF FollowedCheckpoint, Checkpoint
  <2>3. cache' = [cache EXCEPT !["proposal"] = cp]
    BY <1>6 DEF Crash, Earned, TypeOK
  <2> HIDE DEF cp
  <2> QED BY <1>3, <1>4, <2>1, <2>2, <2>3, FollowedSaveStep DEF FollowedCheckpoint, CacheKey
<1> QED BY <1>5, <1>6

\* All three invariants are inductive together, with exact reads.
LEMMA FollowedInvariant ==
  ASSUME ~Lag
  PROVE  Spec => [](Earned /\ Ordered /\ FollowedThrough)
<1>1. Init => FollowedThrough
  <2> SUFFICES ASSUME Init PROVE FollowedThrough
    OBVIOUS
  <2>0. TypeOK
    BY InitIsEarned DEF Earned
  <2>1. \A k \in CacheKey : cache[k].stages = NoStages /\ cache[k].errorCount = 0
    BY DEF Init, Absent, NewCheckpoint
  <2>2. \A k \in CacheKey : FollowedCheckpoint(cache[k])
    BY <2>1, FollowedElsewhere DEF Init, FollowedCheckpoint
  <2>3. \A c \in Callers : run[c] = IdleRun
    BY DEF Init
  <2> QED BY <2>0, <2>2, <2>3, FollowedIdle DEF FollowedThrough
<1>2. Earned /\ Ordered /\ FollowedThrough /\ [Next]_vars => FollowedThrough'
  <2> SUFFICES ASSUME Earned, Ordered, FollowedThrough, [Next]_vars PROVE FollowedThrough'
    OBVIOUS
  <2>1. CASE (ChainStep \/ UNCHANGED chainVars) /\ UNCHANGED trackerVars
    <3>1. UNCHANGED cache /\ UNCHANGED run /\ faults' = faults /\ faults \in Nat
      BY <2>1, BoundsAssumption DEF trackerVars, Earned, TypeOK
    <3>2. ASSUME NEW k \in CacheKey
          PROVE  cache[k] \in Checkpoint /\ Followed(cache[k].stages, "idle") /\ cache[k].errorCount <= faults
      BY CacheFact DEF FollowedThrough, FollowedCheckpoint
    <3>3. ASSUME NEW c \in Callers
          PROVE  /\ Followed(run[c].stages, run[c].pc) /\ run[c].loaded \in Checkpoint
                 /\ Followed(run[c].loaded.stages, "idle") /\ run[c].loaded.errorCount <= faults
      BY RunFact DEF FollowedThrough, FollowedCheckpoint
    <3> QED BY <2>1, <3>1, <3>2, <3>3, FollowedStep
  <2>2. ASSUME NEW c \in Callers, NEW entry \in Entries, trackByTxHash(c, entry) PROVE FollowedThrough'
    BY <2>2, EntriesAssumption, FollowedStart
  <2>3. ASSUME NEW c \in Callers, Continue(c) PROVE FollowedThrough'
    BY <2>3, FollowedLoading, FollowedStage, FollowedSave DEF Continue
  <2>4. ASSUME NEW c \in Callers, SaveErrorCheckpoint(c) \/ Crash(c) PROVE FollowedThrough'
    BY <2>4, FollowedFailure
  <2> QED BY <2>1, <2>2, <2>3, <2>4 DEF Next, vars
<1> QED BY <1>1, <1>2, OrderInvariant, PTL DEF Spec

-----------------------------------------------------------------------------
(* The theorems.                                                           *)

\* An operation whose checkpoint is complete is at the end of its proposal's route.
LEMMA CompleteIsFinished ==
  ASSUME Earned, Ordered, FollowedThrough, isCheckpointComplete(cache["operation"])
  PROVE  Finished
<1> DEFINE stages == cache["operation"].stages
<1>1. /\ stages \in StageList /\ Followed(stages, "idle") /\ StagesInOrder(stages)
      /\ NoneOf(ParentStages, stages) /\ Justified(stages)
  BY CacheFact DEF CacheKey, Ordered, FitsKey, FollowedThrough, FollowedCheckpoint
<1>2. Stored(stages) # {} /\ \A s \in Stored(stages) : isStageTerminal(stages[s].status)
  BY DEF isCheckpointComplete, areAllStagesComplete
<1>3. /\ phase \in Nat /\ phase <= FinalPhase(route) /\ route \in Routes /\ fate \in Fates
  BY DEF Earned, TypeOK, ChainTypeOK, ChainIsSound, Phases, Created, Redeemed
<1> HIDE DEF stages
<1>n. NotStarted.status = "NOT_STARTED"
  BY DEF NotStarted, Stage
<1>4. \A s \in StageType : Evidence(s, stages[s].status)
  BY <1>1 DEF Justified
<1>5. \A s \in ParentStages : s \notin Stored(stages)
  BY <1>1, <1>n DEF NoneOf, Stored
<1>6. \A s \in TimelockStages : stages[s] # NotStarted => s \in Stored(stages)
                                \/ stages[s].status = "NOT_STARTED"
  BY DEF Stored, StageType
<1>7. "L2_TIMELOCK" \in Stored(stages)
  <2>1. PICK s \in TimelockStages : s \in Stored(stages)
    BY <1>2, <1>5 DEF Stored, StageType
  <2>2. \A t \in TimelockStages : isStageSuccess(stages[t].status) => stages[t] # NotStarted /\ t \in Stored(stages)
    BY <1>n DEF isStageSuccess, Stored, StageType
  <2>3. stages[s] # NotStarted
    BY <1>n, <2>1 DEF Stored
  <2> QED BY <1>1, <2>1, <2>2, <2>3 DEF StagesInOrder, TimelockStages
<1>8. stages["L2_TIMELOCK"].status = "COMPLETED"
  <2>1. Evidence("L2_TIMELOCK", stages["L2_TIMELOCK"].status)
    BY <1>4 DEF StageType, TimelockStages
  <2> QED BY <1>2, <1>7, <2>1 DEF Evidence, isStageTerminal, Stored
<1>9. "L2_TO_L1_MESSAGE" \in Stored(stages)
  BY <1>1, <1>8 DEF Followed
<1>10. \/ stages["L2_TO_L1_MESSAGE"].status = "COMPLETED"
       \/ route \in {"l2Only", "noMessage"} /\ Since(L2Executed)
  <2>1. Evidence("L2_TO_L1_MESSAGE", stages["L2_TO_L1_MESSAGE"].status)
    BY <1>4 DEF StageType, TimelockStages
  <2> QED BY <1>2, <1>9, <2>1 DEF Evidence, isStageTerminal, Stored
<1>11. CASE route \in {"l2Only", "noMessage"} /\ Since(L2Executed)
  BY <1>3, <1>11, MilestonesFact DEF Finished, FinalPhase, Since
<1>12. CASE stages["L2_TO_L1_MESSAGE"].status = "COMPLETED"
  <2>1. "L1_TIMELOCK" \in Stored(stages) \/ fate = "L1Canceled"
    BY <1>1, <1>12 DEF Followed
  <2>2. CASE fate = "L1Canceled"
    BY <2>2 DEF Finished
  <2>3. CASE "L1_TIMELOCK" \in Stored(stages)
    <3>1. Evidence("L1_TIMELOCK", stages["L1_TIMELOCK"].status)
      BY <1>4 DEF StageType, TimelockStages
    <3>2. stages["L1_TIMELOCK"].status = "COMPLETED" \/ (route = "l2Only" /\ Since(L2Executed))
      BY <1>2, <2>3, <3>1 DEF Evidence, isStageTerminal, Stored
    <3>3. CASE stages["L1_TIMELOCK"].status = "COMPLETED"
      <4>1. "RETRYABLE_EXECUTED" \in Stored(stages)
        BY <1>1, <3>3 DEF Followed
      <4>2. Evidence("RETRYABLE_EXECUTED", stages["RETRYABLE_EXECUTED"].status)
        BY <1>4 DEF StageType, TimelockStages
      <4>3. \/ stages["RETRYABLE_EXECUTED"].status = "COMPLETED" /\ Since(Redeemed)
            \/ fate = "Expired"
            \/ stages["RETRYABLE_EXECUTED"].status = "SKIPPED" /\ Since(L1Executed)
            \/ route = "l2Only" /\ Since(L2Executed)
        BY <1>2, <4>1, <4>2 DEF Evidence, isStageTerminal, Stored
      <4>4. stages["RETRYABLE_EXECUTED"].status = "SKIPPED" => route # "roundTrip"
        BY <1>1 DEF Followed
      <4> QED BY <1>3, <4>3, <4>4, MilestonesFact DEF Finished, FinalPhase, Since, Routes
    <3> QED BY <1>11, <3>2, <3>3
  <2> QED BY <2>1, <2>2, <2>3
<1> QED BY <1>10, <1>11, <1>12

\* The query returns the proposal's own key while the proposal is under way.
LEMMA UnderWayNeedsTracking ==
  ASSUME Earned, Ordered, FollowedThrough, MaxFaults < ErrorThreshold,
         ~Finished, Exists(cache["proposal"]), Stored(cache["proposal"].stages) \ {"PROPOSAL_CREATED"} # {}
  PROVE  NeedsTracking("proposal")
<1> DEFINE cp == cache["proposal"]
           stages == cp.stages
<1>1. /\ cp \in Checkpoint /\ stages \in StageList /\ Justified(stages)
      /\ FitsKey("proposal", cp) /\ FollowedCheckpoint(cp)
  BY CacheFact DEF CacheKey, Ordered, FollowedThrough
<1>2. fate = "live" /\ \A s \in StageType : Evidence(s, stages[s].status)
  BY <1>1 DEF Finished, Justified
<1>3. cp.input \in GovernorInputs
  BY <1>1 DEF FitsKey, Exists
<1>4. NoneOf(TimelockStages, stages) /\ ~hasTimelockProgress(stages)
  BY <1>1 DEF FitsKey, NoneOf, hasTimelockProgress, Stored, NotStarted, Stage
<1>5. "VOTING_ACTIVE" \in Stored(stages) \/ "PROPOSAL_QUEUED" \in Stored(stages)
  BY <1>4 DEF hasTimelockProgress, Stored, StageType, ParentStages
<1> HIDE DEF stages
<1>6. stages["VOTING_ACTIVE"].status # "FAILED"
  <2>1. Evidence("VOTING_ACTIVE", stages["VOTING_ACTIVE"].status)
    BY <1>2 DEF StageType, ParentStages
  <2> QED BY <1>2, <2>1 DEF Evidence
<1>7. ~isCheckpointComplete(cp)
  <2> SUFFICES ASSUME isCheckpointComplete(cp) PROVE FALSE
    OBVIOUS
  <2>1. \A s \in Stored(stages) : isStageTerminal(stages[s].status)
    BY DEF isCheckpointComplete, areAllStagesComplete, stages
  <2>2. "VOTING_ACTIVE" \in Stored(stages) => stages["VOTING_ACTIVE"].status = "COMPLETED"
    <3>1. Evidence("VOTING_ACTIVE", stages["VOTING_ACTIVE"].status)
      BY <1>2 DEF StageType, ParentStages
    <3> QED BY <1>6, <2>1, <3>1 DEF Evidence, isStageTerminal, Stored
  <2>3. "PROPOSAL_QUEUED" \in Stored(stages)
    BY <1>1, <1>5, <2>2 DEF FollowedCheckpoint, Followed, stages
  <2>4. stages["PROPOSAL_QUEUED"].status = "COMPLETED"
    <3>1. Evidence("PROPOSAL_QUEUED", stages["PROPOSAL_QUEUED"].status)
      BY <1>2 DEF StageType, ParentStages
    <3> QED BY <1>2, <2>1, <2>3, <3>1 DEF Evidence, isStageTerminal, Stored
  <2> QED BY <1>3, <1>4, <2>4 DEF isCheckpointComplete, ContinuesInOperation, stages
<1>8. ~isCheckpointErrored(cp, ErrorThreshold)
  <2>1. cp.errorCount \in Nat /\ cp.errorCount <= faults /\ faults \in 0 .. MaxFaults
    BY <1>1 DEF Checkpoint, FollowedCheckpoint, Earned, TypeOK
  <2> QED BY <2>1, BoundsAssumption DEF isCheckpointErrored
<1>9. ~isCheckpointComplete(cache["operation"])
  BY CompleteIsFinished
<1> QED BY <1>6, <1>7, <1>8, <1>9 DEF NeedsTracking, stages

\* trackRetryables takes a receipt that is not there for "no tickets".  With exact
\* reads it is there: the stage before names its transaction only once it is mined.
THEOREM TicketsAreTracked ==
  ASSUME ~Lag
  PROVE  Spec => []TicketsAreNotSkipped
<1>1. FollowedThrough => TicketsAreNotSkipped
  BY DEF FollowedThrough, FollowedCheckpoint, Followed, TicketsAreNotSkipped
<1> QED BY <1>1, FollowedInvariant, PTL

\* Once a run has seen the vote begin, queryIncompleteCheckpoints returns the proposal
\* until it is at its end, if there are fewer errors than the threshold: between the
\* two writes of a call too, and whatever other callers write.
THEOREM UnderWayStaysQueried ==
  ASSUME ~Lag, MaxFaults < ErrorThreshold
  PROVE  Spec => []UnderWayIsQueried
<1>1. Earned /\ Ordered /\ FollowedThrough => UnderWayIsQueried
  BY UnderWayNeedsTracking DEF UnderWayIsQueried, UnfinishedIsQueried, CacheKey
<1> QED BY <1>1, FollowedInvariant, PTL

=============================================================================
