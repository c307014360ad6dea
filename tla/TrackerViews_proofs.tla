------------------------ MODULE TrackerViews_proofs ------------------------
(***************************************************************************)
(* What is derived of the stages of a proposal: a checkpoint that is       *)
(* trimmed can be resumed, a result that is shown as executed has nothing  *)
(* left to do, and everything else that is shown is true.                  *)
(*                                                                         *)
(* The first needs to know where the link to the operation comes from; the *)
(* second, that exact reads do not skip the tickets; the third, which      *)
(* stages stand together in a list, whichever checkpoints it was made of.  *)
(***************************************************************************)
EXTENDS ProposalTracker_proofs, TrackerViews, FiniteSetTheorems

\* The link to the operation is that of a queue stage that is COMPLETED, which no run
\* tracks again: a stage has it, or a checkpoint or call has taken it from one.
LinkIsFromQueue(stages, opKey) ==
  stages["PROPOSAL_QUEUED"].link \/ opKey => stages["PROPOSAL_QUEUED"].status = "COMPLETED"

LinksAreFromQueue ==
  /\ \A k \in CacheKey : LinkIsFromQueue(cache[k].stages, cache[k].opKey)
  /\ \A c \in Callers : /\ LinkIsFromQueue(run[c].stages, run[c].opKey)
                        /\ LinkIsFromQueue(run[c].loaded.stages, run[c].loaded.opKey)

-----------------------------------------------------------------------------
(* Where the link comes from.                                              *)

\* A list without a link says nothing of it, nor does one that has no queue stage.
LEMMA NoLink ==
  /\ ~NotStarted.link /\ NotStarted.status = "NOT_STARTED"
  /\ \A x : NoneOf(ParentStages, x) => ~x["PROPOSAL_QUEUED"].link
  /\ LinkIsFromQueue(NoStages, FALSE) /\ LinkIsFromQueue(IdleRun.stages, IdleRun.opKey)
  /\ LinkIsFromQueue(IdleRun.loaded.stages, IdleRun.loaded.opKey)
<1>1. ~NotStarted.link /\ NotStarted.status = "NOT_STARTED"
  BY DEF NotStarted, Stage
<1>2. \A x : NoneOf(ParentStages, x) => ~x["PROPOSAL_QUEUED"].link
  BY <1>1 DEF NoneOf, ParentStages
<1>3. ~NoStages["PROPOSAL_QUEUED"].link
  BY <1>1 DEF NoStages, StageType, ParentStages
<1> QED BY <1>1, <1>2, <1>3 DEF LinkIsFromQueue, IdleRun, Absent, NewCheckpoint

\* A step of one call that writes nothing.
LEMMA LinkRunStep ==
  ASSUME TypeOK, LinksAreFromQueue, UNCHANGED cache, NEW c \in Callers, NEW r,
         LinkIsFromQueue(r.stages, r.opKey), LinkIsFromQueue(r.loaded.stages, r.loaded.opKey),
         run' = [run EXCEPT ![c] = r]
  PROVE  LinksAreFromQueue'
BY DEF LinksAreFromQueue, TypeOK

\* A step that writes one checkpoint.
LEMMA LinkSaveStep ==
  ASSUME TypeOK, LinksAreFromQueue, NEW k \in CacheKey, NEW cp, LinkIsFromQueue(cp.stages, cp.opKey),
         cache' = [cache EXCEPT ![k] = cp], NEW c \in Callers, NEW r,
         LinkIsFromQueue(r.stages, r.opKey), LinkIsFromQueue(r.loaded.stages, r.loaded.opKey),
         run' = [run EXCEPT ![c] = r]
  PROVE  LinksAreFromQueue'
BY DEF LinksAreFromQueue, TypeOK

\* Starting: the call has what it loaded.
LEMMA LinkStart ==
  ASSUME Earned, LinksAreFromQueue, NEW c \in Callers, NEW entry \in CacheKey, trackByTxHash(c, entry)
  PROVE  LinksAreFromQueue'
<1> DEFINE cp == LoadedFor(entry)
           r == [pc |-> FirstStep(cp), entry |-> entry, loaded |-> cp, input |-> cp.input,
                 stages |-> cp.stages, opKey |-> cp.opKey, event |-> FALSE]
<1>1. LinkIsFromQueue(cp.stages, cp.opKey)
  BY DEF LinksAreFromQueue, LoadedFor, CacheKey
<1>2. run' = [run EXCEPT ![c] = r] /\ UNCHANGED cache
  BY DEF trackByTxHash
<1> HIDE DEF cp
<1>3. r.stages = cp.stages /\ r.opKey = cp.opKey /\ r.loaded = cp
  OBVIOUS
<1> HIDE DEF r
<1> QED BY <1>1, <1>2, <1>3, LinkRunStep DEF Earned

\* Looking into the transaction, and merging the operation's stages: neither has a
\* queue stage to add.
LEMMA LinkLoading ==
  ASSUME Earned, Ordered, LinksAreFromQueue, NEW c \in Callers,
         discoverProposalByTxHash(c) \/ findCallScheduledByTxHash(c) \/ LoadLinkedTimelock(c)
  PROVE  LinksAreFromQueue'
<1> DEFINE r == run[c]
           op == cache["operation"].stages
<1>1. /\ r \in Run /\ r.stages \in StageList /\ op \in StageList /\ FitsRun(r) /\ NoneOf(ParentStages, op)
      /\ LinkIsFromQueue(r.stages, r.opKey) /\ LinkIsFromQueue(r.loaded.stages, r.loaded.opKey)
  BY RunFact, CacheFact DEF CacheKey, Ordered, FitsKey, LinksAreFromQueue
<1>2. CASE discoverProposalByTxHash(c)
  <2>1. PICK found \in BOOLEAN : run' = [run EXCEPT ![c] = IF found
                                 THEN [r EXCEPT !.pc = "PROPOSAL_CREATED", !.input = "governor"]
                                 ELSE IdleRun]
    BY <1>2 DEF discoverProposalByTxHash, Found
  <2> DEFINE new == IF found THEN [r EXCEPT !.pc = "PROPOSAL_CREATED", !.input = "governor"] ELSE IdleRun
  <2>2. LinkIsFromQueue(new.stages, new.opKey) /\ LinkIsFromQueue(new.loaded.stages, new.loaded.opKey)
    BY <1>1, NoLink DEF Run
  <2>3. UNCHANGED cache
    BY <1>2 DEF discoverProposalByTxHash
  <2>4. run' = [run EXCEPT ![c] = new]
    BY <2>1
  <2> HIDE DEF new
  <2> QED BY <2>2, <2>3, <2>4, LinkRunStep DEF Earned
<1>3. CASE findCallScheduledByTxHash(c)
  <2>1. PICK found \in BOOLEAN : run' = [run EXCEPT ![c] =
                 IF found
                 THEN [r EXCEPT !.pc = "L2_TIMELOCK", !.input = "timelock", !.event = TRUE,
                                !.stages = Restricted(op, TimelockStages)]
                 ELSE IdleRun]
    BY <1>3 DEF findCallScheduledByTxHash, Found
  <2> DEFINE part == Restricted(op, TimelockStages)
             new == IF found THEN [r EXCEPT !.pc = "L2_TIMELOCK", !.input = "timelock", !.event = TRUE,
                                            !.stages = part] ELSE IdleRun
  <2>2. r.entry # "proposal" /\ ~r.opKey
    BY <1>1, <1>3 DEF findCallScheduledByTxHash, FitsRun
  <2>3. LinkIsFromQueue(part, FALSE)
    BY <1>1, OrderOfParts, NoLink DEF LinkIsFromQueue
  <2> HIDE DEF part
  <2>4. LinkIsFromQueue(new.stages, new.opKey) /\ LinkIsFromQueue(new.loaded.stages, new.loaded.opKey)
    BY <1>1, <2>2, <2>3, NoLink DEF Run, LinkIsFromQueue
  <2>5. UNCHANGED cache
    BY <1>3 DEF findCallScheduledByTxHash
  <2>6. run' = [run EXCEPT ![c] = new]
    BY <2>1 DEF part
  <2> HIDE DEF new
  <2> QED BY <2>4, <2>5, <2>6, LinkRunStep DEF Earned
<1>4. CASE LoadLinkedTimelock(c)
  <2> DEFINE stages == IF r.opKey THEN Overlay(r.stages, op) ELSE r.stages
             new == [r EXCEPT !.pc = "PROPOSAL_CREATED", !.stages = stages]
  <2>1. stages["PROPOSAL_QUEUED"] = r.stages["PROPOSAL_QUEUED"]
    BY <1>1, NoLink DEF Overlay, Stored, NoneOf, StageType, ParentStages
  <2>2. run' = [run EXCEPT ![c] = new] /\ UNCHANGED cache
    BY <1>4 DEF LoadLinkedTimelock
  <2> HIDE DEF stages
  <2>3. new.stages = stages /\ new.opKey = r.opKey /\ new.loaded = r.loaded
    BY <1>1 DEF Run
  <2> HIDE DEF new
  <2> QED BY <1>1, <2>1, <2>2, <2>3, LinkRunStep DEF Earned, LinkIsFromQueue
<1> QED BY <1>2, <1>3, <1>4

\* A step of the pipeline that leaves the queue stage alone, or sets one that was not
\* done to one whose link is that of a COMPLETED stage.
LEMMA LinkReturn ==
  ASSUME Earned, LinksAreFromQueue, NEW c \in Callers, NEW s, NEW stages \in StageList, NEW continue,
         Return(c, s, stages, continue), LinkIsFromQueue(stages, run[c].opKey)
  PROVE  LinksAreFromQueue'
<1> DEFINE new == [run[c] EXCEPT !.stages = stages, !.pc = NextStep(run[c], stages, s, continue)]
<1>1. run[c] \in Run /\ LinkIsFromQueue(run[c].loaded.stages, run[c].loaded.opKey)
  BY RunFact DEF LinksAreFromQueue
<1>2. run' = [run EXCEPT ![c] = new] /\ UNCHANGED cache
  BY DEF Return
<1>3. new.stages = stages /\ new.opKey = run[c].opKey /\ new.loaded = run[c].loaded
  BY <1>1 DEF Run
<1> HIDE DEF new
<1> QED BY <1>1, <1>2, <1>3, LinkRunStep DEF Earned

\* The queue stage gets its link when it is COMPLETED, and is left alone from then on.
LEMMA LinkStage ==
  ASSUME Earned, Ordered, LinksAreFromQueue, NEW c \in Callers, TrackStage(c)
  PROVE  LinksAreFromQueue'
<1> DEFINE r == run[c]
<1>1. r \in Run /\ r.stages \in StageList /\ LinkIsFromQueue(r.stages, r.opKey)
  BY RunFact DEF LinksAreFromQueue
<1>2. CASE trackProposalQueuedStage(c)
  <2>1. PICK state \in getProposalState, event \in Found(Queued), receipt \in Found(Queued) :
          Return(c, "PROPOSAL_QUEUED", [r.stages EXCEPT !["PROPOSAL_QUEUED"] = QueuedStage(state, event, receipt)], TRUE)
    BY <1>2 DEF trackProposalQueuedStage, addStage
  <2> DEFINE stage == QueuedStage(state, event, receipt)
             stages == [r.stages EXCEPT !["PROPOSAL_QUEUED"] = stage]
  <2>2. ~r.opKey
    BY <1>1, <1>2 DEF trackProposalQueuedStage, Tracking, LinkIsFromQueue, isStageSuccess
  <2>3. state \in {"Pending", "Active", "Succeeded", "Queued", "Executed", "Defeated", "Canceled"}
    BY ProposalStateIsTrue DEF Earned, TypeOK
  <2>4. stage \in TrackedStage /\ (stage.link => stage.status = "COMPLETED")
    BY <2>3, StageIsTracked DEF QueuedStage, NotStarted, Stage, Linked, TrackedStage, StageStatus
  <2> HIDE DEF stage
  <2>5. stages \in StageList /\ LinkIsFromQueue(stages, r.opKey)
    BY <1>1, <2>2, <2>4 DEF StageList, StageType, ParentStages, LinkIsFromQueue
  <2>6. Return(c, "PROPOSAL_QUEUED", stages, TRUE)
    BY <2>1 DEF stage
  <2> HIDE DEF stages
  <2> QED BY <2>5, <2>6, LinkReturn
<1>3. CASE UseCachedStage(c)
  <2>1. PICK s \in StageType : Return(c, s, r.stages, s = "L2_TIMELOCK" => operationKnown(r))
    BY <1>3 DEF UseCachedStage
  <2> DEFINE continue == s = "L2_TIMELOCK" => operationKnown(r)
  <2>2. Return(c, s, r.stages, continue)
    BY <2>1
  <2> HIDE DEF continue
  <2> QED BY <1>1, <2>2, LinkReturn
<1>4. CASE ~trackProposalQueuedStage(c) /\ ~UseCachedStage(c)
  <2>1. r.pc # "PROPOSAL_QUEUED"
    BY <1>4 DEF TrackStage, trackProposalCreatedStage, trackVotingStage, trackL2TimelockStage,
               trackL2ToL1MessageStage, trackL1TimelockStage, trackRetryablesStage, Tracking
  <2>2. PICK s \in StageType, stages \in StageList, continue \in BOOLEAN :
          r.pc = s /\ Return(c, s, stages, continue) /\ StageResult(r, s, stages, continue)
    BY StageResults
  <2>3. stages["PROPOSAL_QUEUED"] = r.stages["PROPOSAL_QUEUED"]
    BY <1>1, <2>1, <2>2 DEF StageResult, L1RoundTripSkipped, StageList, StageType, ParentStages
  <2> QED BY <1>1, <2>2, <2>3, LinkReturn DEF LinkIsFromQueue
<1> QED BY <1>2, <1>3, <1>4

\* The parent is given the link with its queue stage; the operation's checkpoint has
\* neither.
LEMMA LinkSave ==
  ASSUME Earned, Ordered, LinksAreFromQueue, NEW c \in Callers,
         SaveParent(c) \/ SaveLinkedTimelock(c) \/ SaveOperation(c)
  PROVE  LinksAreFromQueue'
<1> DEFINE r == run[c]
<1>1. /\ r \in Run /\ r.stages \in StageList
      /\ LinkIsFromQueue(r.stages, r.opKey) /\ LinkIsFromQueue(r.loaded.stages, r.loaded.opKey)
  BY RunFact DEF LinksAreFromQueue
<1>2. CASE SaveParent(c)
  <2> DEFINE opKey == r.opKey \/ r.stages["PROPOSAL_QUEUED"].link
             part == Restricted(r.stages, ParentStages)
             cp == [input |-> r.input, stages |-> part, errorCount |-> 0, opKey |-> opKey]
             new == IF opKey /\ hasTimelockProgress(r.stages) THEN [r EXCEPT !.pc = "saveLinked"] ELSE IdleRun
  <2>1. part["PROPOSAL_QUEUED"] = r.stages["PROPOSAL_QUEUED"]
    BY DEF Restricted, StageType, ParentStages
  <2> HIDE DEF part
  <2>2. LinkIsFromQueue(cp.stages, cp.opKey)
    BY <1>1, <2>1 DEF LinkIsFromQueue
  <2>3. LinkIsFromQueue(new.stages, new.opKey) /\ LinkIsFromQueue(new.loaded.stages, new.loaded.opKey)
    BY <1>1, NoLink DEF Run
  <2>4. cache' = [cache EXCEPT ![baseKey(r.entry)] = cp] /\ run' = [run EXCEPT ![c] = new]
    BY <1>2 DEF SaveParent, part
  <2>5. baseKey(r.entry) \in CacheKey
    BY DEF baseKey, CacheKey
  <2> HIDE DEF cp, new
  <2> QED BY <2>2, <2>3, <2>4, <2>5, LinkSaveStep DEF Earned
<1>3. CASE SaveLinkedTimelock(c) \/ SaveOperation(c)
  <2>1. PICK input : cache' = [cache EXCEPT !["operation"] = OperationCheckpoint(input, r.stages)]
    BY <1>3 DEF SaveLinkedTimelock, SaveOperation
  <2> DEFINE cp == OperationCheckpoint(input, r.stages)
             part == Restricted(r.stages, TimelockStages)
  <2>2. ~part["PROPOSAL_QUEUED"].link
    BY <1>1, OrderOfParts, NoLink
  <2> HIDE DEF part
  <2>3. cp.stages = part /\ cp.opKey = FALSE
    BY DEF OperationCheckpoint, NewCheckpoint, part
  <2> HIDE DEF cp
  <2>4. LinkIsFromQueue(cp.stages, cp.opKey)
    BY <2>2, <2>3 DEF LinkIsFromQueue
  <2>5. run' = [run EXCEPT ![c] = IdleRun] /\ "operation" \in CacheKey
    BY <1>3 DEF SaveLinkedTimelock, SaveOperation, CacheKey
  <2>6. cache' = [cache EXCEPT !["operation"] = cp]
    BY <2>1 DEF cp
  <2> QED BY <2>4, <2>5, <2>6, NoLink, LinkSaveStep DEF Earned
<1> QED BY <1>2, <1>3

\* An error checkpoint is the one that was loaded without its link, or has no stages.
LEMMA LinkFailure ==
  ASSUME Earned, LinksAreFromQueue, NEW c \in Callers, SaveErrorCheckpoint(c) \/ Crash(c)
  PROVE  LinksAreFromQueue'
<1> DEFINE r == run[c]
<1>1. r \in Run /\ LinkIsFromQueue(r.loaded.stages, r.loaded.opKey)
  BY RunFact DEF LinksAreFromQueue
<1>2. run' = [run EXCEPT ![c] = IdleRun]
  BY DEF SaveErrorCheckpoint, Crash
<1>3. CASE Crash(c)
  BY <1>2, <1>3, NoLink, LinkRunStep DEF Crash, Earned
<1>4. CASE SaveErrorCheckpoint(c)
  <2> DEFINE base == IF Exists(r.loaded) THEN r.loaded
                     ELSE NewCheckpoint(IF r.entry = "operation" THEN "unknownTimelock" ELSE "unknownGovernor")
  <2>1. PICK counted \in {0, 1} :
          cache' = [cache EXCEPT ![r.entry] = [base EXCEPT !.errorCount = @ + counted, !.opKey = FALSE]]
    BY <1>4 DEF SaveErrorCheckpoint
  <2>2. base \in Checkpoint /\ LinkIsFromQueue(base.stages, FALSE)
    BY <1>1, NewCheckpointFact, NoLink DEF Run, LinkIsFromQueue, GovernorInputs, TimelockInputs
  <2> HIDE DEF base
  <2> DEFINE cp == [base EXCEPT !.errorCount = @ + counted, !.opKey = FALSE]
  <2>3. LinkIsFromQueue(cp.stages, cp.opKey)
    BY <2>2 DEF Checkpoint, LinkIsFromQueue
  <2>4. cache' = [cache EXCEPT ![r.entry] = cp] /\ r.entry \in CacheKey
    BY <1>1, <2>1 DEF Run
  <2> HIDE DEF cp
  <2> QED BY <1>2, <2>3, <2>4, NoLink, LinkSaveStep DEF Earned
<1> QED BY <1>3, <1>4

\* The link is always that of a COMPLETED queue stage.
LEMMA LinkInvariant == Spec => [](Ordered /\ Earned /\ LinksAreFromQueue)
<1>1. Init => LinksAreFromQueue
  <2> SUFFICES ASSUME Init PROVE LinksAreFromQueue
    OBVIOUS
  <2>1. ASSUME NEW k \in CacheKey PROVE cache[k].stages = NoStages /\ cache[k].opKey = FALSE
    BY DEF Init, Absent, NewCheckpoint
  <2>2. ASSUME NEW c \in Callers PROVE run[c] = IdleRun
    BY DEF Init
  <2> QED BY <2>1, <2>2, NoLink DEF LinksAreFromQueue
<1>2. Earned /\ Ordered /\ LinksAreFromQueue /\ [Next]_vars => LinksAreFromQueue'
  <2> SUFFICES ASSUME Earned, Ordered, LinksAreFromQueue, [Next]_vars PROVE LinksAreFromQueue'
    OBVIOUS
  <2>1. CASE UNCHANGED trackerVars
    BY <2>1 DEF trackerVars, LinksAreFromQueue
  <2>2. ASSUME NEW c \in Callers, NEW entry \in Entries, trackByTxHash(c, entry) PROVE LinksAreFromQueue'
    BY <2>2, EntriesAssumption, LinkStart
  <2>3. ASSUME NEW c \in Callers, Continue(c) PROVE LinksAreFromQueue'
    BY <2>3, LinkLoading, LinkStage, LinkSave DEF Continue
  <2>4. ASSUME NEW c \in Callers, SaveErrorCheckpoint(c) \/ Crash(c) PROVE LinksAreFromQueue'
    BY <2>4, LinkFailure
  <2> QED BY <2>1, <2>2, <2>3, <2>4 DEF Next, vars
<1> QED BY <1>1, <1>2, OrderInvariant, PTL DEF Spec

-----------------------------------------------------------------------------
(* Trimming.                                                               *)

\* What is kept is kept together with every stored stage of lower rank.
LEMMA KeptTogether ==
  ASSUME NEW x \in StageList, NEW i \in Nat, NEW s \in KeptBelow(x, i), NEW t \in Stored(x), Rank(t) < Rank(s)
  PROVE  t \in KeptBelow(x, i)
<1> DEFINE Below(u) == {v \in Stored(x) : Rank(v) < Rank(u)}
<1>1. IsFiniteSet(Stored(x))
  <2>1. IsFiniteSet(StageType)
    <3>1. \A a, b, S : IsFiniteSet(S) => IsFiniteSet(S \cup {a}) /\ IsFiniteSet(S \cup {a} \cup {b})
      BY FS_AddElement
    <3>2. IsFiniteSet({"PROPOSAL_CREATED"} \cup {"VOTING_ACTIVE"} \cup {"PROPOSAL_QUEUED"})
      BY <3>1, FS_Singleton
    <3>3. IsFiniteSet(ParentStages \cup {"L2_TIMELOCK"} \cup {"L2_TO_L1_MESSAGE"})
      <4>1. ParentStages = {"PROPOSAL_CREATED"} \cup {"VOTING_ACTIVE"} \cup {"PROPOSAL_QUEUED"}
        BY DEF ParentStages
      <4>2. IsFiniteSet(ParentStages)
        BY <3>2, <4>1
      <4> QED BY <3>1, <4>2
    <3>4. IsFiniteSet(ParentStages \cup {"L2_TIMELOCK"} \cup {"L2_TO_L1_MESSAGE"}
                        \cup {"L1_TIMELOCK"} \cup {"RETRYABLE_EXECUTED"})
      BY <3>1, <3>3
    <3>5. StageType = ParentStages \cup {"L2_TIMELOCK"} \cup {"L2_TO_L1_MESSAGE"}
                        \cup {"L1_TIMELOCK"} \cup {"RETRYABLE_EXECUTED"}
      BY DEF StageType, TimelockStages
    <3> QED BY <3>4, <3>5
  <2> QED BY <2>1, FS_Subset DEF Stored
<1>2. \A u \in StageType : Rank(u) \in Nat
  BY DEF Rank, StageType, ParentStages, TimelockStages
<1>3. Below(t) \subseteq Below(s) /\ Below(s) \subseteq Stored(x)
  BY <1>2 DEF Stored, KeptBelow
<1>4. /\ IsFiniteSet(Below(s)) /\ Cardinality(Below(t)) <= Cardinality(Below(s))
      /\ Cardinality(Below(t)) \in Nat /\ Cardinality(Below(s)) \in Nat
  BY <1>1, <1>3, FS_Subset, FS_CardinalityType
<1>5. Cardinality(Below(s)) < i
  BY DEF KeptBelow
<1> HIDE DEF Below
<1>6. Cardinality(Below(t)) < i
  BY <1>4, <1>5
<1> QED BY <1>6 DEF KeptBelow, Below

\* A trimmed list is still in the order of the pipeline.
LEMMA TrimKeepsOrder ==
  ASSUME NEW x \in StageList, NEW i \in Nat, StagesInOrder(x)
  PROVE  StagesInOrder(Restricted(x, KeptBelow(x, i)))
<1> DEFINE kept == KeptBelow(x, i)
           y == Restricted(x, kept)
<1>1. \A s \in StageType : y[s] # NotStarted => s \in kept /\ y[s] = x[s]
  BY DEF Restricted
<1>2. \A s \in StageType : s \in kept => y[s] = x[s]
  BY DEF Restricted
<1>3. ASSUME NEW s \in StageType, NEW t \in StageType, Rank(t) < Rank(s), y[s] # NotStarted,
             x[s] # NotStarted => isStageSuccess(x[t].status)
      PROVE  isStageSuccess(y[t].status)
  <2>1. s \in kept /\ isStageSuccess(x[t].status)
    BY <1>1, <1>3
  <2>2. t \in Stored(x)
    BY <2>1 DEF Stored, isStageSuccess
  <2>3. t \in kept
    BY <1>3, <2>1, <2>2, KeptTogether
  <2> QED BY <1>2, <2>1, <2>3
<1>4. /\ Rank("L2_TIMELOCK") < Rank("L2_TO_L1_MESSAGE") /\ Rank("L2_TO_L1_MESSAGE") < Rank("L1_TIMELOCK")
      /\ Rank("L1_TIMELOCK") < Rank("RETRYABLE_EXECUTED")
  BY DEF Rank
<1>5. TimelockStages \subseteq StageType
  BY DEF StageType
<1> HIDE DEF y, kept
<1>6. StagesInOrder(y)
  BY <1>3, <1>4, <1>5 DEF StagesInOrder, TimelockStages
<1> QED BY <1>6 DEF y, kept

\* At most two stages come before the queue stage.
LEMMA QueueIsThird ==
  ASSUME NEW x \in StageList, NEW i \in Nat, i > 2, x["PROPOSAL_QUEUED"].status # "NOT_STARTED"
  PROVE  "PROPOSAL_QUEUED" \in KeptBelow(x, i)
<1> DEFINE below == {t \in Stored(x) : Rank(t) < Rank("PROPOSAL_QUEUED")}
           two == {"PROPOSAL_CREATED", "VOTING_ACTIVE"}
<1>1. below \subseteq two
  BY DEF Stored, StageType, ParentStages, TimelockStages, Rank
<1>2. IsFiniteSet(two) /\ Cardinality(two) = 2
  <2>1. IsFiniteSet({"VOTING_ACTIVE"}) /\ Cardinality({"VOTING_ACTIVE"}) = 1
    BY FS_Singleton
  <2>2. two = {"VOTING_ACTIVE"} \cup {"PROPOSAL_CREATED"} /\ "PROPOSAL_CREATED" \notin {"VOTING_ACTIVE"}
    OBVIOUS
  <2>3. \A S, a : IsFiniteSet(S) /\ a \notin S
                    => IsFiniteSet(S \cup {a}) /\ Cardinality(S \cup {a}) = Cardinality(S) + 1
    BY FS_AddElement
  <2>4. /\ IsFiniteSet({"VOTING_ACTIVE"} \cup {"PROPOSAL_CREATED"})
        /\ Cardinality({"VOTING_ACTIVE"} \cup {"PROPOSAL_CREATED"}) = Cardinality({"VOTING_ACTIVE"}) + 1
    BY <2>1, <2>2, <2>3
  <2> QED BY <2>1, <2>2, <2>4
<1>3. Cardinality(below) \in Nat /\ Cardinality(below) <= 2
  BY <1>1, <1>2, FS_Subset, FS_CardinalityType
<1>4. "PROPOSAL_QUEUED" \in Stored(x)
  BY DEF Stored, StageType, ParentStages
<1> HIDE DEF below
<1>5. Cardinality(below) < i
  BY <1>3
<1> QED BY <1>4, <1>5 DEF KeptBelow, below

\* Whatever checkpoint is trimmed, at whatever stage: a run that resumes from what is
\* left finds an ordered prefix, and with the link to the operation the stage that
\* it was read from.  For any callers, errors and crashes, and nodes that lag.
THEOREM TrimmedCanBeResumed == Spec => []TrimmedIsResumable
<1>1. Earned /\ Ordered /\ LinksAreFromQueue => TrimmedIsResumable
  <2> SUFFICES ASSUME Earned, Ordered, LinksAreFromQueue, NEW k \in CacheKey, NEW i \in 0 .. 4
               PROVE  /\ StagesInOrder(trimFromStage(cache[k], i).stages)
                      /\ trimFromStage(cache[k], i).opKey
                           => trimFromStage(cache[k], i).stages["PROPOSAL_QUEUED"].status # "NOT_STARTED"
    BY DEF TrimmedIsResumable
  <2> DEFINE x == cache[k].stages
             y == Restricted(x, KeptBelow(x, i))
             cp == trimFromStage(cache[k], i)
  <2>1. /\ cache[k] \in Checkpoint /\ x \in StageList /\ StagesInOrder(x) /\ i \in Nat
        /\ LinkIsFromQueue(x, cache[k].opKey)
    BY CacheFact DEF Ordered, FitsKey, LinksAreFromQueue
  <2>2. cp.stages = y /\ cp.opKey = (cache[k].opKey /\ i > 2)
    BY <2>1 DEF trimFromStage, Checkpoint
  <2>3. StagesInOrder(y)
    BY <2>1, TrimKeepsOrder
  <2>4. cp.opKey => y["PROPOSAL_QUEUED"].status # "NOT_STARTED"
    <3> SUFFICES ASSUME cp.opKey PROVE y["PROPOSAL_QUEUED"].status # "NOT_STARTED"
      OBVIOUS
    <3>1. x["PROPOSAL_QUEUED"].status = "COMPLETED" /\ i > 2
      BY <2>1, <2>2 DEF LinkIsFromQueue
    <3>2. "PROPOSAL_QUEUED" \in KeptBelow(x, i)
      BY <2>1, <3>1, QueueIsThird
    <3> QED BY <3>1, <3>2 DEF Restricted, StageType, ParentStages
  <2> QED BY <2>2, <2>3, <2>4
<1> QED BY <1>1, LinkInvariant, PTL

-----------------------------------------------------------------------------
(* What is shown of a result.                                              *)

\* There is a first of some stages, and it is one of them.
LEMMA FirstIsOne ==
  ASSUME NEW types \in SUBSET StageType, types # {}
  PROVE  FirstOf(types) \in types /\ \A t \in types : Rank(FirstOf(types)) <= Rank(t)
<1>1. \E s \in types : \A t \in types : Rank(s) <= Rank(t)
  BY DEF Rank, StageType, ParentStages, TimelockStages
<1> HIDE DEF Rank
<1> QED BY <1>1 DEF FirstOf

\* What the phase "executed" is shown of.
LEMMA ShownExecuted ==
  ASSUME NEW list, getLifecyclePhase(list) = "executed"
  PROVE  \/ "FAILED" \notin Statuses(list) /\ Complete(list)
         \/ Success(list, "L2_TIMELOCK") /\ StatusOf(list, "L2_TO_L1_MESSAGE") = "SKIPPED"
<1> DEFINE waiting == {s \in StageType \ {"PROPOSAL_CREATED"} : isWaiting(list, s)}
<1>1. waiting # {} => PhaseOf(FirstOf(waiting)) # "executed"
  <2> SUFFICES ASSUME waiting # {} PROVE PhaseOf(FirstOf(waiting)) # "executed"
    OBVIOUS
  <2>1. FirstOf(waiting) \in waiting
    BY FirstIsOne
  <2>2. FirstOf(waiting) \in StageType \ {"PROPOSAL_CREATED"}
    BY <2>1
  <2> HIDE DEF waiting
  <2> QED BY <2>2 DEF PhaseOf, StageType, ParentStages, TimelockStages
<1> QED BY <1>1 DEF getLifecyclePhase

\* A true list in which the tickets are settled, and not passed over, is that of a
\* proposal at its end.
LEMMA SettledIsFinished ==
  ASSUME Earned, NEW x \in StageList, Justified(x), Followed(x, "idle"),
         isStageTerminal(x["RETRYABLE_EXECUTED"].status)
  PROVE  /\ x["RETRYABLE_EXECUTED"].status # "FAILED" => phase = FinalPhase(route)
         /\ Finished \/ phase = FinalPhase(route)
<1>1. /\ phase \in Nat /\ phase <= FinalPhase(route) /\ route \in Routes
  BY DEF Earned, TypeOK, ChainTypeOK, ChainIsSound, Phases, Created, Redeemed
<1>2. Evidence("RETRYABLE_EXECUTED", x["RETRYABLE_EXECUTED"].status)
  BY DEF Justified, StageType, TimelockStages
<1>3. \/ x["RETRYABLE_EXECUTED"].status = "COMPLETED" /\ Since(Redeemed)
      \/ x["RETRYABLE_EXECUTED"].status = "FAILED" /\ fate = "Expired"
      \/ x["RETRYABLE_EXECUTED"].status = "SKIPPED" /\ Since(L1Executed) /\ route # "roundTrip"
      \/ route = "l2Only" /\ Since(L2Executed)
  BY <1>2 DEF Evidence, isStageTerminal, Followed
<1> QED BY <1>1, <1>3, MilestonesFact DEF Finished, FinalPhase, Since, Routes

\* What a caller is shown as executed, or as complete, has nothing left to be done:
\* a stage that has not started counts in the result of a call, so that neither is
\* said of a proposal that waits for a stage that no checkpoint has stored yet.
THEOREM ExecutedHasEnded ==
  ASSUME ~Lag
  PROVE  Spec => []ExecutedIsFinished
<1>1. Earned /\ FollowedThrough => ExecutedIsFinished
  <2> SUFFICES ASSUME Earned, FollowedThrough, NEW c \in Callers, run[c].pc \in {"saveParent", "saveOperation"}
               PROVE  /\ getLifecyclePhase(TrackingResult(run[c].input, run[c].stages).stages) = "executed"
                           => phase = FinalPhase(route)
                      /\ TrackingResult(run[c].input, run[c].stages).isComplete
                           => Finished \/ phase = FinalPhase(route)
    BY DEF ExecutedIsFinished
  <2> DEFINE x == run[c].stages
             types == IF run[c].input \in GovernorInputs THEN StageType ELSE TimelockStages
             list == ResultList(x, types)
  <2>1. TrackingResult(run[c].input, x).stages = list /\ TrackingResult(run[c].input, x).isComplete = Complete(list)
    BY DEF TrackingResult
  <2>2. x \in StageList /\ Justified(x) /\ Followed(x, "idle")
    <3>1. x \in StageList /\ Justified(x)
      BY RunFact
    <3>2. Followed(x, run[c].pc)
      BY DEF FollowedThrough
    <3> QED BY <3>1, <3>2, FollowedElsewhere
  <2>3. TimelockStages \subseteq DOMAIN list /\ \A s \in DOMAIN list : list[s] = x[s]
    BY DEF ResultList, StageType
  <2> HIDE DEF list, x
  <2>4. "RETRYABLE_EXECUTED" \in DOMAIN list /\ "L2_TO_L1_MESSAGE" \in DOMAIN list
    BY <2>3 DEF TimelockStages
  <2>5. Complete(list) => isStageTerminal(x["RETRYABLE_EXECUTED"].status)
    BY <2>3, <2>4 DEF Complete
  <2>6. "FAILED" \notin Statuses(list) => x["RETRYABLE_EXECUTED"].status # "FAILED"
    BY <2>3, <2>4 DEF Statuses
  <2>7. Complete(list) => Finished \/ phase = FinalPhase(route)
    BY <2>2, <2>5, SettledIsFinished
  <2>8. ASSUME getLifecyclePhase(list) = "executed" PROVE phase = FinalPhase(route)
    <3>1. CASE "FAILED" \notin Statuses(list) /\ Complete(list)
      BY <2>2, <2>5, <2>6, <3>1, SettledIsFinished
    <3>2. CASE StatusOf(list, "L2_TO_L1_MESSAGE") = "SKIPPED"
      <4>1. Evidence("L2_TO_L1_MESSAGE", "SKIPPED")
        BY <2>2, <2>3, <2>4, <3>2 DEF StatusOf, Justified, StageType, TimelockStages
      <4>2. route \in {"l2Only", "noMessage"} /\ Since(L2Executed)
        BY <4>1 DEF Evidence
      <4> QED BY <4>2, MilestonesFact DEF Earned, TypeOK, ChainTypeOK, ChainIsSound, Phases, FinalPhase, Since
    <3> QED BY <2>8, <3>1, <3>2, ShownExecuted
  <2> QED BY <2>1, <2>7, <2>8 DEF x
<1> QED BY <1>1, FollowedInvariant, PTL

-----------------------------------------------------------------------------
(* Where stages stand, for nodes that lag too.                             *)

\* A proposal's own stages come in order, and those of its operation after a queue
\* stage that is COMPLETED.
GovernorInOrder(x) ==
  /\ x["VOTING_ACTIVE"] # NotStarted => x["PROPOSAL_CREATED"].status = "COMPLETED"
  /\ x["PROPOSAL_QUEUED"] # NotStarted => x["VOTING_ACTIVE"].status = "COMPLETED"
  /\ \A s \in TimelockStages : x[s] # NotStarted => x["PROPOSAL_QUEUED"].status = "COMPLETED"

\* The stages of the L1 round trip that are skipped without having been looked at are
\* skipped together.
SkippedTogether(x) ==
  /\ route = "l2Only" /\ x["L2_TO_L1_MESSAGE"].status = "SKIPPED" => x["L1_TIMELOCK"].status = "SKIPPED"
  /\ x["L1_TIMELOCK"].status = "SKIPPED" => x["RETRYABLE_EXECUTED"].status = "SKIPPED"

\* What stages go with an input.
FitsInput(input, x) ==
  /\ SkippedTogether(x)
  /\ input = "none" => x = NoStages
  /\ input \in GovernorInputs => GovernorInOrder(x)

\* What a call has behind it.
Behind(pc, x) ==
  /\ pc = "VOTING_ACTIVE" => x["PROPOSAL_CREATED"].status = "COMPLETED"
  /\ pc = "PROPOSAL_QUEUED" => x["VOTING_ACTIVE"].status = "COMPLETED"
  /\ pc \in TimelockStages => x["PROPOSAL_QUEUED"].status = "COMPLETED"

Placed(r) ==
  /\ FitsInput(r.input, r.stages) /\ FitsInput(r.loaded.input, r.loaded.stages)
  /\ r.entry = "proposal" => r.input \in {"none"} \cup GovernorInputs
  /\ r.input = "none" => r.pc \in {"idle", "discover"}
  /\ r.entry # "proposal" => Since(Queued)
  /\ isGovernorRun(r) => Behind(r.pc, r.stages)

AllPlaced ==
  /\ \A k \in CacheKey : FitsInput(cache[k].input, cache[k].stages)
  /\ \A c \in Callers : Placed(run[c])

\* A list without stages fits every input, and a caller that is idle is placed.
LEMMA NothingFits ==
  /\ \A input : FitsInput(input, NoStages)
  /\ Placed(IdleRun)
<1>1. \A s \in StageType : NoStages[s] = NotStarted
  BY DEF NoStages
<1>2. SkippedTogether(NoStages) /\ GovernorInOrder(NoStages)
  BY <1>1, NoLink DEF SkippedTogether, GovernorInOrder, StageType, ParentStages, TimelockStages
<1>3. \A input : FitsInput(input, NoStages)
  BY <1>2 DEF FitsInput
<1> QED BY <1>3 DEF Placed, IdleRun, Absent, NewCheckpoint, isGovernorRun, GovernorInputs

\* Parts of a list that fits.
LEMMA PartsFit ==
  ASSUME NEW x \in StageList
  PROVE  /\ SkippedTogether(Restricted(x, ParentStages))
         /\ SkippedTogether(x) => SkippedTogether(Restricted(x, TimelockStages))
         /\ GovernorInOrder(x) => GovernorInOrder(Restricted(x, ParentStages))
<1>1. \A s \in TimelockStages : Restricted(x, ParentStages)[s] = NotStarted /\ Restricted(x, TimelockStages)[s] = x[s]
  BY DEF Restricted, StageType, ParentStages, TimelockStages
<1>2. \A s \in ParentStages : Restricted(x, ParentStages)[s] = x[s]
  BY DEF Restricted, StageType
<1> QED BY <1>1, <1>2, NoLink DEF SkippedTogether, GovernorInOrder, ParentStages, TimelockStages

\* The stages of an operation, merged into the list of a proposal that was queued.
LEMMA MergedFits ==
  ASSUME NEW x \in StageList, NEW y \in StageList, GovernorInOrder(x), NoneOf(TimelockStages, x),
         x["PROPOSAL_QUEUED"].status = "COMPLETED", SkippedTogether(y), NoneOf(ParentStages, y)
  PROVE  SkippedTogether(Overlay(x, y)) /\ GovernorInOrder(Overlay(x, y))
<1>1. \A s \in ParentStages : Overlay(x, y)[s] = x[s]
  BY NoLink DEF Overlay, Stored, NoneOf, StageType
<1>2. \A s \in TimelockStages : Overlay(x, y)[s].status = y[s].status
  BY NoLink DEF Overlay, Stored, NoneOf, StageType
<1>3. SkippedTogether(Overlay(x, y))
  BY <1>2 DEF SkippedTogether, TimelockStages
<1>4. GovernorInOrder(Overlay(x, y))
  BY <1>1 DEF GovernorInOrder, ParentStages
<1> QED BY <1>3, <1>4

\* A step of one call that writes nothing.
LEMMA PlacedRunStep ==
  ASSUME TypeOK, AllPlaced, UNCHANGED <<chainVars, cache>>, NEW c \in Callers, NEW r, Placed(r),
         run' = [run EXCEPT ![c] = r]
  PROVE  AllPlaced'
<1>1. \A d \in Callers : run'[d] = (IF d = c THEN r ELSE run[d])
  BY DEF TypeOK
<1>2. ASSUME NEW d \in Callers PROVE Placed(run[d])'
  <2>1. Placed(run'[d])
    BY <1>1 DEF AllPlaced
  <2> QED BY <2>1 DEF Placed, FitsInput, SkippedTogether, Since, chainVars
<1> QED BY <1>2 DEF AllPlaced, FitsInput, SkippedTogether, chainVars

\* The same for a step that writes a checkpoint whose stages go with its input.
LEMMA PlacedSaveStep ==
  ASSUME TypeOK, AllPlaced, UNCHANGED chainVars, NEW k \in CacheKey, NEW cp, FitsInput(cp.input, cp.stages),
         cache' = [cache EXCEPT ![k] = cp], NEW c \in Callers, NEW r, Placed(r), run' = [run EXCEPT ![c] = r]
  PROVE  AllPlaced'
<1>1. \A d \in Callers : run'[d] = (IF d = c THEN r ELSE run[d])
  BY DEF TypeOK
<1>2. \A j \in CacheKey : cache'[j] = (IF j = k THEN cp ELSE cache[j])
  BY DEF TypeOK
<1>3. ASSUME NEW d \in Callers PROVE Placed(run[d])'
  <2>1. Placed(run'[d])
    BY <1>1 DEF AllPlaced
  <2> QED BY <2>1 DEF Placed, FitsInput, SkippedTogether, Since, chainVars
<1>4. ASSUME NEW j \in CacheKey PROVE FitsInput(cache[j].input, cache[j].stages)'
  <2>1. FitsInput(cache'[j].input, cache'[j].stages)
    BY <1>2 DEF AllPlaced
  <2> QED BY <2>1 DEF FitsInput, SkippedTogether, chainVars
<1> QED BY <1>3, <1>4 DEF AllPlaced

\* What is known of a call and of a checkpoint.
LEMMA PlacedFact ==
  ASSUME Earned, Ordered, LinksAreFromQueue, AllPlaced, NEW c \in Callers, NEW k \in CacheKey
  PROVE  /\ run[c] \in Run /\ run[c].stages \in StageList /\ FitsRun(run[c]) /\ Placed(run[c])
         /\ Justified(run[c].stages) /\ LinkIsFromQueue(run[c].stages, run[c].opKey)
         /\ cache[k] \in Checkpoint /\ cache[k].stages \in StageList /\ FitsKey(k, cache[k])
         /\ Justified(cache[k].stages) /\ LinkIsFromQueue(cache[k].stages, cache[k].opKey)
         /\ FitsInput(cache[k].input, cache[k].stages)
BY RunFact, CacheFact DEF Ordered, LinksAreFromQueue, AllPlaced

\* Starting: nobody has the queue transaction before there is one.
LEMMA PlacedStart ==
  ASSUME Earned, Ordered, LinksAreFromQueue, AllPlaced, NEW c \in Callers, NEW entry \in CacheKey,
         trackByTxHash(c, entry)
  PROVE  AllPlaced'
<1> DEFINE cp == LoadedFor(entry)
           r == [pc |-> FirstStep(cp), entry |-> entry, loaded |-> cp, input |-> cp.input,
                 stages |-> cp.stages, opKey |-> cp.opKey, event |-> FALSE]
<1>1. /\ cp \in Checkpoint /\ FitsInput(cp.input, cp.stages)
      /\ entry = "proposal" => cp.input \in {"none"} \cup GovernorInputs
  BY PlacedFact DEF LoadedFor, CacheKey, FitsKey
<1>2. run' = [run EXCEPT ![c] = r] /\ UNCHANGED <<chainVars, cache>> /\ (entry # "proposal" => Since(Queued))
  BY DEF trackByTxHash, Since
<1> HIDE DEF cp
<1>3. /\ r.stages = cp.stages /\ r.input = cp.input /\ r.loaded = cp /\ r.entry = entry
      /\ r.pc = FirstStep(cp)
  OBVIOUS
<1> HIDE DEF r
<1>4. /\ FirstStep(cp) \in {"discover", "loadLinked", "L2_TIMELOCK"}
      /\ cp.input = "none" => FirstStep(cp) = "discover"
      /\ cp.input \in GovernorInputs => FirstStep(cp) = "loadLinked"
  BY <1>1 DEF FirstStep, Checkpoint, GovernorInputs, TimelockInputs
<1>5. Placed(r)
  BY <1>1, <1>2, <1>3, <1>4 DEF Placed, isGovernorRun, Behind, TimelockStages
<1> QED BY <1>2, <1>5, PlacedRunStep DEF Earned

\* Looking into the transaction.
LEMMA PlacedDiscovery ==
  ASSUME Earned, Ordered, LinksAreFromQueue, AllPlaced, NEW c \in Callers,
         discoverProposalByTxHash(c) \/ findCallScheduledByTxHash(c)
  PROVE  AllPlaced'
<1> DEFINE r == run[c]
           op == cache["operation"].stages
<1>1. r \in Run /\ Placed(r) /\ op \in StageList /\ SkippedTogether(op)
  BY PlacedFact DEF CacheKey, FitsInput
<1>2. UNCHANGED <<chainVars, cache>>
  BY DEF discoverProposalByTxHash, findCallScheduledByTxHash
<1>3. CASE discoverProposalByTxHash(c)
  <2>1. PICK found \in BOOLEAN : run' = [run EXCEPT ![c] = IF found
                                 THEN [r EXCEPT !.pc = "PROPOSAL_CREATED", !.input = "governor"]
                                 ELSE IdleRun]
    BY <1>3 DEF discoverProposalByTxHash, Found
  <2> DEFINE new == [r EXCEPT !.pc = "PROPOSAL_CREATED", !.input = "governor"]
  <2>2. r.entry = "proposal" /\ r.pc = "discover"
    BY <1>3 DEF discoverProposalByTxHash
  <2>3. /\ new.pc = "PROPOSAL_CREATED" /\ new.input = "governor" /\ new.stages = r.stages
        /\ new.loaded = r.loaded /\ new.entry = "proposal"
    BY <1>1, <2>2 DEF Run
  <2>4. CASE r.input = "none" \/ r.input \in GovernorInputs
    <3>1. FitsInput("governor", r.stages)
      BY <1>1, <2>4, NothingFits DEF Placed, FitsInput
    <3> HIDE DEF new
    <3>2. Placed(new)
      BY <1>1, <2>3, <3>1 DEF Placed, isGovernorRun, Behind, GovernorInputs, TimelockStages
    <3> QED BY <1>2, <2>1, <3>2, NothingFits, PlacedRunStep DEF Earned, new
  <2> QED BY <1>1, <2>2, <2>4 DEF Placed
<1>4. CASE findCallScheduledByTxHash(c)
  <2> DEFINE part == Restricted(op, TimelockStages)
             new == [r EXCEPT !.pc = "L2_TIMELOCK", !.input = "timelock", !.event = TRUE, !.stages = part]
  <2>1. PICK found \in BOOLEAN : run' = [run EXCEPT ![c] = IF found THEN new ELSE IdleRun]
    BY <1>4 DEF findCallScheduledByTxHash, Found
  <2>2. r.entry # "proposal"
    BY <1>4 DEF findCallScheduledByTxHash
  <2>3. SkippedTogether(part)
    BY <1>1, PartsFit
  <2> HIDE DEF part
  <2>4. /\ new.pc = "L2_TIMELOCK" /\ new.input = "timelock" /\ new.stages = part
        /\ new.loaded = r.loaded /\ new.entry = r.entry
    BY <1>1 DEF Run
  <2> HIDE DEF new
  <2>5. Placed(new)
    BY <1>1, <2>2, <2>3, <2>4 DEF Placed, FitsInput, isGovernorRun, GovernorInputs
  <2> QED BY <1>2, <2>1, <2>5, NothingFits, PlacedRunStep DEF Earned
<1> QED BY <1>3, <1>4

\* The operation's stages are merged into the list of a call that has its link, and
\* so a queue stage that is COMPLETED.
LEMMA PlacedLoading ==
  ASSUME Earned, Ordered, LinksAreFromQueue, AllPlaced, NEW c \in Callers, LoadLinkedTimelock(c)
  PROVE  AllPlaced'
<1> DEFINE r == run[c]
           op == cache["operation"].stages
           stages == IF r.opKey THEN Overlay(r.stages, op) ELSE r.stages
           new == [r EXCEPT !.pc = "PROPOSAL_CREATED", !.stages = stages]
<1>1. /\ r \in Run /\ Placed(r) /\ FitsRun(r) /\ r.stages \in StageList /\ LinkIsFromQueue(r.stages, r.opKey)
      /\ op \in StageList /\ SkippedTogether(op) /\ NoneOf(ParentStages, op)
  BY PlacedFact DEF CacheKey, FitsInput, FitsKey
<1>2. r.pc = "loadLinked" /\ isGovernorRun(r)
  BY <1>1 DEF LoadLinkedTimelock, FitsRun
<1>3. SkippedTogether(stages) /\ GovernorInOrder(stages)
  <2>1. CASE r.opKey
    BY <1>1, <1>2, <2>1, MergedFits DEF FitsRun, Placed, FitsInput, isGovernorRun, LinkIsFromQueue
  <2>2. CASE ~r.opKey
    BY <1>1, <1>2, <2>2 DEF Placed, FitsInput, isGovernorRun
  <2> QED BY <2>1, <2>2
<1>4. run' = [run EXCEPT ![c] = new] /\ UNCHANGED <<chainVars, cache>>
  BY DEF LoadLinkedTimelock
<1> HIDE DEF stages
<1>5. /\ new.pc = "PROPOSAL_CREATED" /\ new.input = r.input /\ new.stages = stages
      /\ new.loaded = r.loaded /\ new.entry = r.entry
  BY <1>1 DEF Run
<1> HIDE DEF new
<1>6. Placed(new)
  BY <1>1, <1>2, <1>3, <1>5 DEF Placed, FitsInput, isGovernorRun, Behind, GovernorInputs, TimelockStages
<1> QED BY <1>4, <1>6, PlacedRunStep DEF Earned

\* The parent's checkpoint has the parent's stages, and the operation's the others.
LEMMA PlacedSave ==
  ASSUME Earned, Ordered, LinksAreFromQueue, AllPlaced, NEW c \in Callers,
         SaveParent(c) \/ SaveLinkedTimelock(c) \/ SaveOperation(c)
  PROVE  AllPlaced'
<1> DEFINE r == run[c]
<1>1. r \in Run /\ r.stages \in StageList /\ Placed(r) /\ FitsRun(r) /\ UNCHANGED chainVars
  BY PlacedFact DEF CacheKey, SaveParent, SaveLinkedTimelock, SaveOperation
<1>2. CASE SaveParent(c)
  <2> DEFINE opKey == r.opKey \/ r.stages["PROPOSAL_QUEUED"].link
             part == Restricted(r.stages, ParentStages)
             cp == [input |-> r.input, stages |-> part, errorCount |-> 0, opKey |-> opKey]
             new == IF opKey /\ hasTimelockProgress(r.stages) THEN [r EXCEPT !.pc = "saveLinked"] ELSE IdleRun
  <2>1. r.input \in GovernorInputs /\ r.input # "none"
    BY <1>1, <1>2 DEF SaveParent, FitsRun, isGovernorRun, GovernorInputs
  <2>2. FitsInput(cp.input, cp.stages)
    BY <1>1, <2>1, PartsFit DEF FitsInput, Placed
  <2>3. Placed([r EXCEPT !.pc = "saveLinked"])
    BY <1>1, <2>1 DEF Run, Placed, isGovernorRun, Behind, TimelockStages
  <2>4. Placed(new)
    BY <2>3, NothingFits
  <2>5. cache' = [cache EXCEPT ![baseKey(r.entry)] = cp] /\ run' = [run EXCEPT ![c] = new]
    BY <1>2 DEF SaveParent
  <2>6. baseKey(r.entry) \in CacheKey
    BY DEF baseKey, CacheKey
  <2> HIDE DEF cp, new
  <2> QED BY <1>1, <2>2, <2>4, <2>5, <2>6, PlacedSaveStep DEF Earned
<1>3. CASE SaveLinkedTimelock(c) \/ SaveOperation(c)
  <2>1. PICK input : /\ input \notin {"none"} \cup GovernorInputs
                     /\ cache' = [cache EXCEPT !["operation"] = OperationCheckpoint(input, r.stages)]
    <3>1. CASE SaveLinkedTimelock(c)
      BY <3>1 DEF SaveLinkedTimelock, GovernorInputs
    <3>2. CASE SaveOperation(c)
      BY <1>1, <3>2 DEF SaveOperation, FitsRun, isGovernorRun, Placed
    <3> QED BY <1>3, <3>1, <3>2
  <2> DEFINE cp == OperationCheckpoint(input, r.stages)
  <2>2. cp.stages = Restricted(r.stages, TimelockStages) /\ cp.input = input
    BY DEF OperationCheckpoint, NewCheckpoint
  <2>3. FitsInput(cp.input, cp.stages)
    BY <1>1, <2>1, <2>2, PartsFit DEF FitsInput, Placed
  <2>4. run' = [run EXCEPT ![c] = IdleRun] /\ "operation" \in CacheKey
    BY <1>3 DEF SaveLinkedTimelock, SaveOperation, CacheKey
  <2> HIDE DEF cp
  <2>5. cache' = [cache EXCEPT !["operation"] = cp]
    BY <2>1 DEF cp
  <2> QED BY <1>1, <2>3, <2>4, <2>5, NothingFits, PlacedSaveStep DEF Earned
<1> QED BY <1>2, <1>3

\* An error checkpoint has the stages that were loaded, with the input they go with.
LEMMA PlacedFailure ==
  ASSUME Earned, AllPlaced, NEW c \in Callers, SaveErrorCheckpoint(c) \/ Crash(c)
  PROVE  AllPlaced'
<1> DEFINE r == run[c]
<1>1. r \in Run /\ Placed(r) /\ UNCHANGED chainVars
  BY RunFact DEF AllPlaced, SaveErrorCheckpoint, Crash
<1>2. run' = [run EXCEPT ![c] = IdleRun]
  BY DEF SaveErrorCheckpoint, Crash
<1>3. CASE Crash(c)
  BY <1>1, <1>2, <1>3, NothingFits, PlacedRunStep DEF Crash, Earned
<1>4. CASE SaveErrorCheckpoint(c)
  <2> DEFINE base == IF Exists(r.loaded) THEN r.loaded
                     ELSE NewCheckpoint(IF r.entry = "operation" THEN "unknownTimelock" ELSE "unknownGovernor")
  <2>1. PICK counted \in {0, 1} :
          cache' = [cache EXCEPT ![r.entry] = [base EXCEPT !.errorCount = @ + counted, !.opKey = FALSE]]
    BY <1>4 DEF SaveErrorCheckpoint
  <2>2. base \in Checkpoint /\ FitsInput(base.input, base.stages)
    <3>1. CASE Exists(r.loaded)
      BY <1>1, <3>1 DEF Run, Placed
    <3>2. CASE ~Exists(r.loaded)
      BY <3>2, NewCheckpointFact, NothingFits DEF NewCheckpoint, GovernorInputs, TimelockInputs
    <3> QED BY <3>1, <3>2
  <2> HIDE DEF base
  <2> DEFINE cp == [base EXCEPT !.errorCount = @ + counted, !.opKey = FALSE]
  <2>3. FitsInput(cp.input, cp.stages)
    BY <2>2 DEF Checkpoint
  <2>4. cache' = [cache EXCEPT ![r.entry] = cp] /\ r.entry \in CacheKey
    BY <1>1, <2>1 DEF Run
  <2> HIDE DEF cp
  <2> QED BY <1>1, <1>2, <2>3, <2>4, NothingFits, PlacedSaveStep DEF Earned
<1> QED BY <1>3, <1>4

\* What the trackers make of some stages: the pipeline goes on from PROPOSAL_CREATED
\* only if it is COMPLETED; the message is skipped alone only where there is none; and
\* the L1 timelock is never skipped by its own tracker.
LEMMA StageDetails ==
  ASSUME Earned, NEW c \in Callers, TrackStage(c)
  PROVE  LET r == run[c]  new == run'[c]
         IN  /\ r.pc = "PROPOSAL_CREATED" /\ new.pc = "VOTING_ACTIVE"
                  => isStageSuccess(new.stages["PROPOSAL_CREATED"].status)
             /\ r.pc = "L2_TO_L1_MESSAGE" /\ new.stages["L2_TO_L1_MESSAGE"].status = "SKIPPED"
                  => route = "noMessage" \/ new.stages \in {r.stages, L1RoundTripSkipped(r.stages)}
             /\ r.pc = "L1_TIMELOCK" /\ new.stages["L1_TIMELOCK"].status = "SKIPPED"
                  => new.stages = r.stages
<1> DEFINE r == run[c]
           new == run'[c]
<1>1. r \in Run /\ r.stages \in StageList
  BY RunFact
<1>2. ASSUME NEW s, NEW stages, NEW continue, Return(c, s, stages, continue)
      PROVE  new.stages = stages /\ new.pc = NextStep(r, stages, s, continue)
  BY <1>1, <1>2 DEF Return, Earned, TypeOK, Run
<1>3. CASE UseCachedStage(c)
  <2>1. PICK s \in StageType : /\ r.pc = s /\ isStageSuccess(r.stages[s].status)
                               /\ Return(c, s, r.stages, s = "L2_TIMELOCK" => operationKnown(r))
    BY <1>3 DEF UseCachedStage
  <2>2. new.stages = r.stages
    BY <1>2, <2>1
  <2> QED BY <2>1, <2>2
<1>4. CASE trackProposalCreatedStage(c)
  <2>1. r.pc = "PROPOSAL_CREATED"
    BY <1>4 DEF trackProposalCreatedStage, Tracking
  <2>2. CASE Stop(c, "PROPOSAL_CREATED")
    <3>1. new.pc = NextStep(r, r.stages, "PROPOSAL_CREATED", FALSE)
      BY <1>2, <2>2 DEF Stop
    <3>2. new.pc # "VOTING_ACTIVE"
      BY <3>1 DEF NextStep, SaveStep, ParentStages
    <3> QED BY <2>1, <3>2
  <2>3. ASSUME NEW found \in BOOLEAN,
               addStage(c, "PROPOSAL_CREATED", IF found THEN Stage("COMPLETED") ELSE NotStarted, found)
        PROVE  new.pc = "VOTING_ACTIVE" => isStageSuccess(new.stages["PROPOSAL_CREATED"].status)
    <3> DEFINE stage == IF found THEN Stage("COMPLETED") ELSE NotStarted
               stages == [r.stages EXCEPT !["PROPOSAL_CREATED"] = stage]
    <3>1. new.stages = stages /\ new.pc = NextStep(r, stages, "PROPOSAL_CREATED", found)
      BY <1>2, <2>3 DEF addStage
    <3>2. stages["PROPOSAL_CREATED"] = stage
      BY <1>1 DEF StageList, StageType, ParentStages
    <3> HIDE DEF stages
    <3>3. ~found => new.pc # "VOTING_ACTIVE"
      BY <3>1 DEF NextStep, SaveStep, ParentStages
    <3>4. found => isStageSuccess(stage.status)
      BY DEF Stage, isStageSuccess
    <3> QED BY <3>1, <3>2, <3>3, <3>4
  <2> QED BY <1>4, <2>1, <2>2, <2>3 DEF trackProposalCreatedStage, Found
<1>5. CASE trackL2ToL1MessageStage(c)
  <2>1. r.pc = "L2_TO_L1_MESSAGE"
    BY <1>5 DEF trackL2ToL1MessageStage, Tracking
  <2>2. CASE Return(c, "L2_TO_L1_MESSAGE", L1RoundTripSkipped(r.stages), FALSE)
    <3>1. new.stages = L1RoundTripSkipped(r.stages)
      BY <1>2, <2>2
    <3> QED BY <2>1, <3>1
  <2>3. CASE Stop(c, "L2_TO_L1_MESSAGE")
    <3>1. new.stages = r.stages
      BY <1>2, <2>3 DEF Stop
    <3> QED BY <2>1, <3>1
  <2>4. ASSUME NEW receipt \in Found(L2Executed), NEW status \in messageStatus, NEW event \in Found(OutboxDone),
               addStage(c, "L2_TO_L1_MESSAGE", MessageStage(receipt, status, event),
                        MessageStage(receipt, status, event).status = "COMPLETED")
        PROVE  new.stages["L2_TO_L1_MESSAGE"].status = "SKIPPED" => route = "noMessage"
    <3> DEFINE stage == MessageStage(receipt, status, event)
               stages == [r.stages EXCEPT !["L2_TO_L1_MESSAGE"] = stage]
    <3>1. new.stages = stages
      BY <1>2, <2>4 DEF addStage
    <3>2. stages["L2_TO_L1_MESSAGE"] = stage
      BY <1>1 DEF StageList, StageType, TimelockStages
    <3>3. status \in {"UNCONFIRMED", "CONFIRMED", "EXECUTED"}
      BY DEF messageStatus, messageStatusOf
    <3>4. route # "noMessage" => stage.status # "SKIPPED"
      BY <3>3 DEF MessageStage, Stage, Linked, NotStarted
    <3> QED BY <3>1, <3>2, <3>4
  <2> QED BY <1>5, <2>1, <2>2, <2>3, <2>4 DEF trackL2ToL1MessageStage
<1>6. CASE trackL1TimelockStage(c)
  <2>1. r.pc = "L1_TIMELOCK"
    BY <1>6 DEF trackL1TimelockStage, Tracking
  <2> DEFINE set(receipt, state, executed) ==
               IF follows(r, "L2_TO_L1_MESSAGE") /\ receipt THEN TimelockStage(state, executed) ELSE NotStarted
  <2>2. PICK receipt \in Found(OutboxDone), state \in l1OperationState, executed \in Found(L1Executed) :
          addStage(c, "L1_TIMELOCK", set(receipt, state, executed), set(receipt, state, executed).link)
    BY <1>6 DEF trackL1TimelockStage
  <2> DEFINE stage == set(receipt, state, executed)
             stages == [r.stages EXCEPT !["L1_TIMELOCK"] = stage]
  <2>3. new.stages = stages
    BY <1>2, <2>2 DEF addStage
  <2>4. stages["L1_TIMELOCK"] = stage
    BY <1>1 DEF StageList, StageType, TimelockStages
  <2>5. state \in {"none", "pending", "ready", "done"}
    BY DEF l1OperationState, operationStateOf
  <2>6. stage.status # "SKIPPED"
    BY <2>5 DEF TimelockStage, Stage, Linked, NotStarted
  <2> QED BY <2>1, <2>3, <2>4, <2>6
<1>7. CASE r.pc \notin {"PROPOSAL_CREATED", "L2_TO_L1_MESSAGE", "L1_TIMELOCK"}
  BY <1>7
<1> QED BY <1>3, <1>4, <1>5, <1>6, <1>7
        DEF TrackStage, trackVotingStage, trackProposalQueuedStage, trackL2TimelockStage, trackRetryablesStage, Tracking

\* A stage that is set leaves the list such as it was: what comes after it says nothing
\* yet, and what comes before it is done.
LEMMA ResultsFit ==
  ASSUME NEW r, NEW s \in StageType, NEW stages \in StageList, NEW continue, StageResult(r, s, stages, continue),
         r.stages \in StageList, SkippedTogether(r.stages),
         s = "L2_TO_L1_MESSAGE" /\ stages["L2_TO_L1_MESSAGE"].status = "SKIPPED"
           => route = "noMessage" \/ stages \in {r.stages, L1RoundTripSkipped(r.stages)},
         s = "L1_TIMELOCK" /\ stages["L1_TIMELOCK"].status = "SKIPPED" => stages = r.stages
  PROVE  /\ SkippedTogether(stages)
         /\ GovernorInOrder(r.stages) /\ Behind(s, r.stages) => GovernorInOrder(stages)
<1> DEFINE x == r.stages
<1>1. CASE stages = x
  BY <1>1
<1>2. CASE s = "L2_TO_L1_MESSAGE" /\ stages = L1RoundTripSkipped(x)
  <2>1. /\ stages["PROPOSAL_CREATED"] = x["PROPOSAL_CREATED"] /\ stages["VOTING_ACTIVE"] = x["VOTING_ACTIVE"]
        /\ stages["PROPOSAL_QUEUED"] = x["PROPOSAL_QUEUED"] /\ stages["L1_TIMELOCK"] = Stage("SKIPPED")
        /\ stages["RETRYABLE_EXECUTED"] = Stage("SKIPPED")
    BY <1>2 DEF L1RoundTripSkipped, StageType, ParentStages, TimelockStages
  <2>2. SkippedTogether(stages)
    BY <2>1 DEF SkippedTogether, Stage
  <2>3. GovernorInOrder(x) /\ Behind(s, x) => GovernorInOrder(stages)
    BY <1>2, <2>1 DEF GovernorInOrder, Behind, TimelockStages
  <2> QED BY <2>2, <2>3
<1>3. ASSUME NEW stage, stages = [x EXCEPT ![s] = stage], ~isStageSuccess(x[s].status)
      PROVE  /\ SkippedTogether(stages)
             /\ GovernorInOrder(x) /\ Behind(s, x) => GovernorInOrder(stages)
  <2>1. \A t \in StageType \ {s} : stages[t] = x[t]
    BY <1>3 DEF StageList
  <2>2. /\ x[s].status # "SKIPPED" /\ x[s].status # "COMPLETED"
    BY <1>3 DEF isStageSuccess
  <2>3. SkippedTogether(stages)
    <3>1. CASE s = "L2_TO_L1_MESSAGE"
      <4>1. CASE stages["L2_TO_L1_MESSAGE"].status = "SKIPPED"
        BY <1>1, <1>2, <2>1, <3>1, <4>1 DEF SkippedTogether, StageType, TimelockStages
      <4>2. CASE stages["L2_TO_L1_MESSAGE"].status # "SKIPPED"
        BY <2>1, <3>1, <4>2 DEF SkippedTogether, StageType, TimelockStages
      <4> QED BY <4>1, <4>2
    <3>2. CASE s = "L1_TIMELOCK"
      BY <1>1, <2>1, <2>2, <3>2 DEF SkippedTogether, StageType, TimelockStages
    <3>3. CASE s \notin {"L2_TO_L1_MESSAGE", "L1_TIMELOCK"}
      BY <2>1, <2>2, <3>3 DEF SkippedTogether, StageType, TimelockStages
    <3> QED BY <3>1, <3>2, <3>3
  <2>4. ASSUME GovernorInOrder(x), Behind(s, x) PROVE GovernorInOrder(stages)
    <3>1. CASE s = "PROPOSAL_CREATED"
      BY <2>1, <2>2, <2>4, <3>1, NoLink DEF GovernorInOrder, StageType, ParentStages, TimelockStages
    <3>2. CASE s = "VOTING_ACTIVE"
      BY <2>1, <2>2, <2>4, <3>2, NoLink DEF GovernorInOrder, Behind, StageType, ParentStages, TimelockStages
    <3>3. CASE s = "PROPOSAL_QUEUED"
      BY <2>1, <2>2, <2>4, <3>3, NoLink DEF GovernorInOrder, Behind, StageType, ParentStages, TimelockStages
    <3>4. CASE s \in TimelockStages
      BY <2>1, <2>4, <3>4 DEF GovernorInOrder, Behind, StageType, ParentStages, TimelockStages
    <3> QED BY <3>1, <3>2, <3>3, <3>4 DEF StageType, ParentStages
  <2> QED BY <2>3, <2>4
<1> QED BY <1>1, <1>2, <1>3 DEF StageResult

\* A step of the pipeline.
LEMMA PlacedStage ==
  ASSUME Earned, Earned', Ordered, LinksAreFromQueue, AllPlaced, NEW c \in Callers, TrackStage(c)
  PROVE  AllPlaced'
<1> DEFINE r == run[c]
<1>1. r \in Run /\ r.stages \in StageList /\ Placed(r)
  BY PlacedFact DEF CacheKey
<1>2. PICK s \in StageType, stages \in StageList, continue \in BOOLEAN :
        r.pc = s /\ Return(c, s, stages, continue) /\ StageResult(r, s, stages, continue)
  BY StageResults
<1> DEFINE next == NextStep(r, stages, s, continue)
           new == [r EXCEPT !.stages = stages, !.pc = next]
<1>3. run' = [run EXCEPT ![c] = new] /\ UNCHANGED <<chainVars, cache>>
  BY <1>2 DEF Return
<1>4. /\ new.stages = stages /\ new.pc = next /\ new.loaded = r.loaded /\ new.input = r.input
      /\ new.entry = r.entry
  BY <1>1 DEF Run
<1>5. run'[c] = new
  BY <1>3 DEF Earned, TypeOK
<1> HIDE DEF new
<1>6. Justified(stages) /\ (next = "PROPOSAL_QUEUED" => isStageSuccess(stages["VOTING_ACTIVE"].status))
  <2>1. EarnedRun(run[c])'
    BY DEF Earned
  <2>2. \A t \in StageType : Evidence(t, run[c].stages[t].status)'
    BY <2>1 DEF EarnedRun, Justified
  <2>3. ASSUME NEW t, NEW status PROVE Evidence(t, status)' <=> Evidence(t, status)
    BY <1>3 DEF Evidence, Since, chainVars
  <2>4. run'[c].stages = stages /\ run'[c].pc = next
    BY <1>4, <1>5
  <2>5. Justified(stages)
    <3> SUFFICES ASSUME NEW t \in StageType PROVE Evidence(t, stages[t].status)
      BY DEF Justified
    <3>1. Evidence(t, stages[t].status)'
      BY <2>2, <2>4 DEF Evidence
    <3> QED BY <2>3, <3>1
  <2>6. next = "PROPOSAL_QUEUED" => isStageSuccess(stages["VOTING_ACTIVE"].status)
    BY <2>1, <2>4 DEF EarnedRun, Reached
  <2> QED BY <2>5, <2>6
<1>7. \A t \in {"PROPOSAL_CREATED", "VOTING_ACTIVE"} :
        isStageSuccess(stages[t].status) => stages[t].status = "COMPLETED"
  BY <1>6 DEF Justified, Evidence, isStageSuccess, StageType, ParentStages
<1>8. /\ SkippedTogether(stages)
      /\ GovernorInOrder(r.stages) /\ Behind(s, r.stages) => GovernorInOrder(stages)
  <2>1. /\ s = "L2_TO_L1_MESSAGE" /\ stages["L2_TO_L1_MESSAGE"].status = "SKIPPED"
             => route = "noMessage" \/ stages \in {r.stages, L1RoundTripSkipped(r.stages)}
        /\ s = "L1_TIMELOCK" /\ stages["L1_TIMELOCK"].status = "SKIPPED" => stages = r.stages
    BY <1>2, <1>4, <1>5, StageDetails
  <2>2. SkippedTogether(r.stages)
    BY <1>1 DEF Placed, FitsInput
  <2> QED BY <1>1, <1>2, <2>1, <2>2, ResultsFit
<1>9. ASSUME isGovernorRun(r) PROVE GovernorInOrder(stages) /\ Behind(next, stages)
  <2>1. GovernorInOrder(r.stages) /\ Behind(s, r.stages)
    BY <1>1, <1>2, <1>9 DEF Placed, FitsInput, isGovernorRun
  <2>2. next = "VOTING_ACTIVE" => stages["PROPOSAL_CREATED"].status = "COMPLETED"
    <3>1. next = "VOTING_ACTIVE" => s = "PROPOSAL_CREATED"
      BY DEF NextStep, SaveStep, StageType, ParentStages, TimelockStages
    <3>2. next = "VOTING_ACTIVE" => isStageSuccess(stages["PROPOSAL_CREATED"].status)
      BY <1>2, <1>4, <1>5, <3>1, StageDetails
    <3> QED BY <1>7, <3>2
  <2>3. next = "PROPOSAL_QUEUED" => stages["VOTING_ACTIVE"].status = "COMPLETED"
    BY <1>6, <1>7
  <2>4. next \in TimelockStages => stages["PROPOSAL_QUEUED"].status = "COMPLETED"
    <3>1. CASE s \in ParentStages
      BY <3>1 DEF NextStep, SaveStep, ParentStages, TimelockStages
    <3>2. CASE s \in TimelockStages
      <4>1. stages["PROPOSAL_QUEUED"] = r.stages["PROPOSAL_QUEUED"]
        BY <1>1, <1>2, <3>2 DEF StageResult, L1RoundTripSkipped, StageList, StageType, ParentStages, TimelockStages
      <4> QED BY <2>1, <3>2, <4>1 DEF Behind
    <3> QED BY <3>1, <3>2 DEF StageType
  <2> HIDE DEF next
  <2> QED BY <1>8, <2>1, <2>2, <2>3, <2>4 DEF Behind
<1>10. Placed(new)
  <2>1. r.input # "none"
    BY <1>1, <1>2 DEF Placed, StageType, ParentStages, TimelockStages
  <2> HIDE DEF next
  <2> QED BY <1>1, <1>4, <1>8, <1>9, <2>1 DEF Placed, FitsInput, isGovernorRun
<1> QED BY <1>3, <1>10, PlacedRunStep DEF Earned

\* Nothing that is placed depends on how far the chains are, but for the queue
\* transaction, which they keep.
LEMMA PlacedChainStep ==
  ASSUME Earned, AllPlaced, ChainStep \/ UNCHANGED chainVars, UNCHANGED trackerVars
  PROVE  AllPlaced'
<1>1. route' = route /\ (Since(Queued) => Since(Queued)')
  BY MilestonesFact DEF ChainStep, Advance, Die, chainVars, Since, Earned, TypeOK, ChainTypeOK, Phases
<1>2. UNCHANGED cache /\ UNCHANGED run
  BY DEF trackerVars
<1>3. ASSUME NEW c \in Callers PROVE Placed(run[c])'
  <2>1. Placed(run[c])
    BY DEF AllPlaced
  <2> QED BY <1>1, <1>2, <2>1 DEF Placed, FitsInput, SkippedTogether
<1>4. ASSUME NEW k \in CacheKey PROVE FitsInput(cache[k].input, cache[k].stages)'
  <2>1. FitsInput(cache[k].input, cache[k].stages)
    BY DEF AllPlaced
  <2> QED BY <1>1, <1>2, <2>1 DEF FitsInput, SkippedTogether
<1> QED BY <1>3, <1>4 DEF AllPlaced

\* Every stage stands where it belongs.
LEMMA PlacedInvariant == Spec => [](Earned /\ Ordered /\ LinksAreFromQueue /\ AllPlaced)
<1>1. Init => AllPlaced
  <2> SUFFICES ASSUME Init PROVE AllPlaced
    OBVIOUS
  <2>1. ASSUME NEW k \in CacheKey PROVE FitsInput(cache[k].input, cache[k].stages)
    <3>1. cache[k].stages = NoStages
      BY DEF Init, Absent, NewCheckpoint
    <3> QED BY <3>1, NothingFits
  <2>2. ASSUME NEW c \in Callers PROVE Placed(run[c])
    BY NothingFits DEF Init
  <2> QED BY <2>1, <2>2 DEF AllPlaced
<1>2. Earned /\ Earned' /\ Ordered /\ LinksAreFromQueue /\ AllPlaced /\ [Next]_vars => AllPlaced'
  <2> SUFFICES ASSUME Earned, Earned', Ordered, LinksAreFromQueue, AllPlaced, [Next]_vars PROVE AllPlaced'
    OBVIOUS
  <2>1. CASE (ChainStep \/ UNCHANGED chainVars) /\ UNCHANGED trackerVars
    BY <2>1, PlacedChainStep
  <2>2. ASSUME NEW c \in Callers, NEW entry \in Entries, trackByTxHash(c, entry) PROVE AllPlaced'
    BY <2>2, EntriesAssumption, PlacedStart
  <2>3. ASSUME NEW c \in Callers, Continue(c) PROVE AllPlaced'
    BY <2>3, PlacedDiscovery, PlacedLoading, PlacedStage, PlacedSave DEF Continue
  <2>4. ASSUME NEW c \in Callers, SaveErrorCheckpoint(c) \/ Crash(c) PROVE AllPlaced'
    BY <2>4, PlacedFailure
  <2> QED BY <2>1, <2>2, <2>3, <2>4 DEF Next, vars
<1> QED BY <1>1, <1>2, LinkInvariant, PTL DEF Spec

-----------------------------------------------------------------------------
(* What is shown of a true list.                                           *)

\* The part D of a list that is true: of a checkpoint what is stored, of a call all the
\* stages of its pipeline.
TrueList(x, D) ==
  /\ x \in StageList /\ Justified(x) /\ StagesInOrder(x) /\ SkippedTogether(x)
  /\ LinkIsFromQueue(x, FALSE)
  /\ \/ D = Stored(x) /\ GovernorInOrder(x)
     \/ D = StageType /\ GovernorInOrder(x)
     \/ D = TimelockStages /\ Since(Queued)

\* What there is to know of such a list.
LEMMA TrueListFact ==
  ASSUME Earned, NEW x, NEW D, TrueList(x, D)
  PROVE  LET list == ResultList(x, D)
         IN  /\ D \subseteq StageType /\ DOMAIN list = D /\ \A s \in D : list[s] = x[s]
             /\ \A s \in D : x[s] \in TrackedStage /\ Evidence(s, x[s].status)
             /\ \A s : StatusOf(list, s) = IF s \in D THEN x[s].status ELSE "undefined"
             /\ phase \in Nat
BY DEF TrueList, ResultList, Stored, StageList, Justified, StatusOf, StageType, Earned, TypeOK, ChainTypeOK,
       Phases, Created, Redeemed

\* The state that is derived from a list is one that the proposal has been in.
LEMMA DerivedIsTrue ==
  ASSUME Earned, NEW x, NEW D, TrueList(x, D)
  PROVE  Vouched(deriveProposalState(ResultList(x, D)))
<1>1. PICK list : list = ResultList(x, D)
  OBVIOUS
<1>2. /\ D \subseteq StageType /\ DOMAIN list = D /\ \A s \in D : list[s] = x[s]
      /\ \A s \in D : Evidence(s, x[s].status)
      /\ \A s : StatusOf(list, s) = IF s \in D THEN x[s].status ELSE "undefined"
      /\ phase \in Nat
  BY <1>1, TrueListFact
<1>3. Success(list, "RETRYABLE_EXECUTED") => Since(L2Executed)
  <2>1. Success(list, "RETRYABLE_EXECUTED")
          => Evidence("RETRYABLE_EXECUTED", "COMPLETED") \/ Evidence("RETRYABLE_EXECUTED", "SKIPPED")
    BY <1>2 DEF Success, isStageSuccess
  <2> QED BY <1>2, <2>1, MilestonesFact DEF Evidence, Since
<1>4. StatusOf(list, "L2_TO_L1_MESSAGE") = "SKIPPED" => Since(L2Executed)
  <2>1. StatusOf(list, "L2_TO_L1_MESSAGE") = "SKIPPED" => Evidence("L2_TO_L1_MESSAGE", "SKIPPED")
    BY <1>2
  <2> QED BY <2>1 DEF Evidence
<1>5. "CANCELED" \in Statuses(list) => fate = "Canceled"
  <2>1. "CANCELED" \in Statuses(list) => \E s \in StageType : Evidence(s, "CANCELED")
    BY <1>2 DEF Statuses
  <2> QED BY <2>1 DEF Evidence, StageType, ParentStages, TimelockStages
<1>6. StatusOf(list, "VOTING_ACTIVE") = "FAILED" => fate = "Defeated"
  <2>1. StatusOf(list, "VOTING_ACTIVE") = "FAILED" => Evidence("VOTING_ACTIVE", "FAILED")
    BY <1>2
  <2> QED BY <2>1 DEF Evidence
<1>7. Success(list, "PROPOSAL_QUEUED") => Since(Queued) \/ fate = "Canceled"
  <2>1. Success(list, "PROPOSAL_QUEUED")
          => Evidence("PROPOSAL_QUEUED", "COMPLETED") \/ Evidence("PROPOSAL_QUEUED", "SKIPPED")
    BY <1>2 DEF Success, isStageSuccess
  <2> QED BY <2>1 DEF Evidence
<1>8. Success(list, "VOTING_ACTIVE") => Since(Succeeded)
  <2>1. Success(list, "VOTING_ACTIVE")
          => Evidence("VOTING_ACTIVE", "COMPLETED") \/ Evidence("VOTING_ACTIVE", "SKIPPED")
    BY <1>2 DEF Success, isStageSuccess
  <2> QED BY <2>1 DEF Evidence
<1>9. Vouched(deriveProposalState(list))
  BY <1>3, <1>4, <1>5, <1>6, <1>7, <1>8 DEF Vouched, deriveProposalState
<1> QED BY <1>1, <1>9

\* A stage that a list waits for tells what the chains have done, by itself or by the
\* one before it, which is no longer waited for.
LEMMA WaitingTells ==
  ASSUME Earned, NEW x, NEW D, TrueList(x, D), "FAILED" \notin Statuses(ResultList(x, D))
  PROVE  LET waits(s) == isWaiting(ResultList(x, D), s)
         IN  /\ waits("PROPOSAL_QUEUED") /\ ~waits("VOTING_ACTIVE") => Since(Succeeded) \/ fate = "Canceled"
             /\ waits("L2_TIMELOCK") /\ ~waits("PROPOSAL_QUEUED") => Since(Queued) \/ fate = "Canceled"
             /\ waits("L2_TO_L1_MESSAGE") /\ ~waits("L2_TIMELOCK") => Since(L2Executed)
             /\ waits("L1_TIMELOCK") /\ ~waits("L2_TO_L1_MESSAGE")
                  => Since(OutboxDone) \/ (route = "noMessage" /\ Since(L2Executed))
             /\ waits("RETRYABLE_EXECUTED") /\ ~waits("L1_TIMELOCK") => Since(L1Executed)
<1> DEFINE list == ResultList(x, D)
           waits(s) == isWaiting(list, s)
<1>1. /\ D \subseteq StageType /\ DOMAIN list = D /\ \A s \in D : list[s] = x[s]
      /\ \A s \in D : x[s] \in TrackedStage /\ Evidence(s, x[s].status)
      /\ \A s : StatusOf(list, s) = IF s \in D THEN x[s].status ELSE "undefined"
      /\ phase \in Nat
  BY TrueListFact
<1>2. \A s \in D : x[s].status # "FAILED"
  BY <1>1 DEF Statuses
<1>3. \A s : waits(s) <=> s \in D /\ x[s].status \in {"PENDING", "READY", "NOT_STARTED"}
  BY <1>1 DEF isWaiting
<1>4. \/ \A s \in D : x[s].status # "NOT_STARTED"
      \/ D = StageType
      \/ D = TimelockStages /\ Since(Queued)
  BY DEF TrueList, Stored
<1> HIDE DEF list, waits
<1>5. waits("PROPOSAL_QUEUED") /\ ~waits("VOTING_ACTIVE") => Since(Succeeded) \/ fate = "Canceled"
  <2> SUFFICES ASSUME waits("PROPOSAL_QUEUED"), ~waits("VOTING_ACTIVE") PROVE Since(Succeeded) \/ fate = "Canceled"
    OBVIOUS
  <2>1. Evidence("PROPOSAL_QUEUED", x["PROPOSAL_QUEUED"].status) /\ "PROPOSAL_QUEUED" \in D
    BY <1>1, <1>3
  <2>2. CASE x["PROPOSAL_QUEUED"].status # "NOT_STARTED"
    BY <1>1, <1>3, <2>1, <2>2, MilestonesFact DEF Evidence, Since
  <2>3. CASE x["PROPOSAL_QUEUED"].status = "NOT_STARTED"
    <3>1. "VOTING_ACTIVE" \in D
      BY <1>4, <2>1, <2>3 DEF StageType, ParentStages, TimelockStages
    <3>2. Evidence("VOTING_ACTIVE", x["VOTING_ACTIVE"].status) /\ x["VOTING_ACTIVE"].status # "FAILED"
      BY <1>1, <1>2, <3>1
    <3> QED BY <1>3, <3>1, <3>2 DEF Evidence
  <2> QED BY <2>2, <2>3
<1>6. waits("L2_TIMELOCK") /\ ~waits("PROPOSAL_QUEUED") => Since(Queued) \/ fate = "Canceled"
  <2> SUFFICES ASSUME waits("L2_TIMELOCK"), ~waits("PROPOSAL_QUEUED") PROVE Since(Queued) \/ fate = "Canceled"
    OBVIOUS
  <2>1. Evidence("L2_TIMELOCK", x["L2_TIMELOCK"].status) /\ "L2_TIMELOCK" \in D
    BY <1>1, <1>3
  <2>2. CASE x["L2_TIMELOCK"].status # "NOT_STARTED"
    BY <1>1, <1>3, <2>1, <2>2, MilestonesFact DEF Evidence, Since
  <2>3. CASE x["L2_TIMELOCK"].status = "NOT_STARTED" /\ D = StageType
    <3>1. "PROPOSAL_QUEUED" \in D
      BY <2>3 DEF StageType, ParentStages
    <3>2. Evidence("PROPOSAL_QUEUED", x["PROPOSAL_QUEUED"].status)
      BY <1>1, <3>1
    <3> QED BY <1>3, <3>1, <3>2 DEF Evidence
  <2> QED BY <1>4, <2>1, <2>2, <2>3
<1>7. waits("L2_TO_L1_MESSAGE") /\ ~waits("L2_TIMELOCK") => Since(L2Executed)
  <2> SUFFICES ASSUME waits("L2_TO_L1_MESSAGE"), ~waits("L2_TIMELOCK") PROVE Since(L2Executed)
    OBVIOUS
  <2>1. Evidence("L2_TO_L1_MESSAGE", x["L2_TO_L1_MESSAGE"].status) /\ "L2_TO_L1_MESSAGE" \in D
    BY <1>1, <1>3
  <2>2. CASE x["L2_TO_L1_MESSAGE"].status # "NOT_STARTED"
    BY <1>1, <1>3, <2>1, <2>2, MilestonesFact DEF Evidence, Since
  <2>3. CASE x["L2_TO_L1_MESSAGE"].status = "NOT_STARTED"
    <3>1. "L2_TIMELOCK" \in D
      BY <1>4, <2>1, <2>3 DEF StageType, TimelockStages
    <3>2. Evidence("L2_TIMELOCK", x["L2_TIMELOCK"].status)
      BY <1>1, <3>1
    <3> QED BY <1>3, <3>1, <3>2 DEF Evidence
  <2> QED BY <2>2, <2>3
<1>8. waits("L1_TIMELOCK") /\ ~waits("L2_TO_L1_MESSAGE")
        => Since(OutboxDone) \/ (route = "noMessage" /\ Since(L2Executed))
  <2> SUFFICES ASSUME waits("L1_TIMELOCK"), ~waits("L2_TO_L1_MESSAGE")
               PROVE  Since(OutboxDone) \/ (route = "noMessage" /\ Since(L2Executed))
    OBVIOUS
  <2>1. Evidence("L1_TIMELOCK", x["L1_TIMELOCK"].status) /\ "L1_TIMELOCK" \in D
    BY <1>1, <1>3
  <2>2. CASE x["L1_TIMELOCK"].status # "NOT_STARTED"
    BY <1>1, <1>3, <2>1, <2>2, MilestonesFact DEF Evidence, Since
  <2>3. CASE x["L1_TIMELOCK"].status = "NOT_STARTED"
    <3>1. "L2_TO_L1_MESSAGE" \in D
      BY <1>4, <2>1, <2>3 DEF StageType, TimelockStages
    <3>2. Evidence("L2_TO_L1_MESSAGE", x["L2_TO_L1_MESSAGE"].status)
      BY <1>1, <3>1
    <3>3. route = "l2Only" => x["L2_TO_L1_MESSAGE"].status # "SKIPPED"
      BY <2>3 DEF TrueList, SkippedTogether
    <3> QED BY <1>3, <3>1, <3>2, <3>3 DEF Evidence
  <2> QED BY <2>2, <2>3
<1>9. waits("RETRYABLE_EXECUTED") /\ ~waits("L1_TIMELOCK") => Since(L1Executed)
  <2> SUFFICES ASSUME waits("RETRYABLE_EXECUTED"), ~waits("L1_TIMELOCK") PROVE Since(L1Executed)
    OBVIOUS
  <2>1. Evidence("RETRYABLE_EXECUTED", x["RETRYABLE_EXECUTED"].status) /\ "RETRYABLE_EXECUTED" \in D
    BY <1>1, <1>3
  <2>2. CASE x["RETRYABLE_EXECUTED"].status # "NOT_STARTED"
    BY <1>3, <2>1, <2>2 DEF Evidence
  <2>3. CASE x["RETRYABLE_EXECUTED"].status = "NOT_STARTED"
    <3>1. "L1_TIMELOCK" \in D
      BY <1>4, <2>1, <2>3 DEF StageType, TimelockStages
    <3>2. Evidence("L1_TIMELOCK", x["L1_TIMELOCK"].status)
      BY <1>1, <3>1
    <3>3. x["L1_TIMELOCK"].status # "SKIPPED"
      BY <2>3 DEF TrueList, SkippedTogether
    <3> QED BY <1>3, <3>1, <3>2, <3>3 DEF Evidence
  <2> QED BY <2>2, <2>3
<1> QED BY <1>5, <1>6, <1>7, <1>8, <1>9 DEF waits, list

\* The phase that is shown is one the proposal has come to.
LEMMA PhaseIsTrue ==
  ASSUME Earned, NEW x, NEW D, TrueList(x, D)
  PROVE  Vouched(getLifecyclePhase(ResultList(x, D)))
<1> DEFINE list == ResultList(x, D)
           waiting == {s \in StageType \ {"PROPOSAL_CREATED"} : isWaiting(list, s)}
           w == FirstOf(waiting)
<1>1. \/ getLifecyclePhase(list) \in {"unknown", "executed"}
      \/ "FAILED" \in Statuses(list) /\ getLifecyclePhase(list) = "failed"
      \/ "FAILED" \notin Statuses(list) /\ waiting # {} /\ getLifecyclePhase(list) = PhaseOf(w)
  BY DEF getLifecyclePhase
<1>2. "FAILED" \in Statuses(list) => fate \in {"Defeated", "Expired"}
  <2>1. "FAILED" \in Statuses(list) => \E s \in StageType : Evidence(s, "FAILED")
    BY TrueListFact DEF Statuses
  <2> QED BY <2>1 DEF Evidence, StageType, ParentStages, TimelockStages
<1>3. ASSUME "FAILED" \notin Statuses(list), waiting # {} PROVE Vouched(PhaseOf(w))
  <2>1. w \in waiting /\ \A t \in waiting : Rank(w) <= Rank(t)
    BY <1>3, FirstIsOne
  <2>2. w \in StageType \ {"PROPOSAL_CREATED"} /\ isWaiting(list, w)
    BY <2>1
  <2>3. ASSUME NEW s \in StageType \ {"PROPOSAL_CREATED"}, ~(Rank(w) <= Rank(s)) PROVE ~isWaiting(list, s)
    BY <2>1, <2>3
  <2> HIDE DEF waiting, w, list
  <2>4. /\ w = "PROPOSAL_QUEUED" => Since(Succeeded) \/ fate = "Canceled"
        /\ w = "L2_TIMELOCK" => Since(Queued) \/ fate = "Canceled"
        /\ w = "L2_TO_L1_MESSAGE" => Since(L2Executed)
        /\ w = "L1_TIMELOCK" => Since(OutboxDone) \/ (route = "noMessage" /\ Since(L2Executed))
        /\ w = "RETRYABLE_EXECUTED" => Since(L1Executed)
    <3>1. /\ w = "PROPOSAL_QUEUED" => ~isWaiting(list, "VOTING_ACTIVE")
          /\ w = "L2_TIMELOCK" => ~isWaiting(list, "PROPOSAL_QUEUED")
          /\ w = "L2_TO_L1_MESSAGE" => ~isWaiting(list, "L2_TIMELOCK")
          /\ w = "L1_TIMELOCK" => ~isWaiting(list, "L2_TO_L1_MESSAGE")
          /\ w = "RETRYABLE_EXECUTED" => ~isWaiting(list, "L1_TIMELOCK")
      BY <2>3 DEF Rank, StageType, ParentStages, TimelockStages
    <3> QED BY <1>3, <2>2, <3>1, WaitingTells DEF list
  <2> QED BY <2>2, <2>4 DEF PhaseOf, Vouched, StageType, ParentStages, TimelockStages
<1> HIDE DEF list, waiting, w
<1>4. Vouched("unknown") /\ Vouched("executed") /\ (fate \in {"Defeated", "Expired"} => Vouched("failed"))
  BY DEF Vouched
<1>5. Vouched(getLifecyclePhase(list))
  BY <1>1, <1>2, <1>3, <1>4
<1> QED BY <1>5 DEF list

\* The link to the operation is shown of a proposal that was queued.
LEMMA LinkIsTrue ==
  ASSUME Earned, NEW x, NEW D, TrueList(x, D),
         extractTimelockLinkFromStages(ResultList(x, D)) \/ extractOperationId(ResultList(x, D))
  PROVE  Since(Queued)
<1>1. PICK list : list = ResultList(x, D)
  OBVIOUS
<1>2. /\ D \subseteq StageType /\ DOMAIN list = D /\ \A s \in D : list[s] = x[s]
      /\ \A s \in D : x[s] \in TrackedStage /\ Evidence(s, x[s].status)
      /\ phase \in Nat
  BY <1>1, TrueListFact
<1>3. \/ "PROPOSAL_QUEUED" \in D /\ (x["PROPOSAL_QUEUED"].link \/ x["PROPOSAL_QUEUED"] = Linked("COMPLETED"))
      \/ "L2_TIMELOCK" \in D /\ x["L2_TIMELOCK"] # NotStarted
  BY <1>1, <1>2 DEF extractTimelockLinkFromStages, extractOperationId
<1>4. CASE "PROPOSAL_QUEUED" \in D /\ (x["PROPOSAL_QUEUED"].link \/ x["PROPOSAL_QUEUED"] = Linked("COMPLETED"))
  <2>1. x["PROPOSAL_QUEUED"].status = "COMPLETED"
    BY <1>4 DEF TrueList, LinkIsFromQueue, Linked
  <2>2. Evidence("PROPOSAL_QUEUED", "COMPLETED")
    BY <1>2, <1>4, <2>1
  <2> QED BY <2>2 DEF Evidence
<1>5. CASE "L2_TIMELOCK" \in D /\ x["L2_TIMELOCK"] # NotStarted
  <2>1. Evidence("L2_TIMELOCK", x["L2_TIMELOCK"].status) /\ x["L2_TIMELOCK"] \in TrackedStage
    BY <1>2, <1>5
  <2>2. x["L2_TIMELOCK"].status = "NOT_STARTED" => Since(Queued)
    <3>1. CASE D = Stored(x)
      BY <1>5, <3>1 DEF Stored
    <3>2. CASE D = StageType /\ GovernorInOrder(x)
      <4>1. Evidence("PROPOSAL_QUEUED", "COMPLETED")
        BY <1>2, <1>5, <3>2 DEF GovernorInOrder, StageType, ParentStages, TimelockStages
      <4> QED BY <4>1 DEF Evidence
    <3> QED BY <3>1, <3>2 DEF TrueList
  <2> QED BY <1>2, <2>1, <2>2, MilestonesFact DEF Evidence, Since
<1> QED BY <1>3, <1>4, <1>5

\* What comes before a stage that is READY is done.
LEMMA ReadyInTurn ==
  ASSUME Earned, NEW x, NEW D, TrueList(x, D), NEW s \in D, NEW t \in D, x[s].status = "READY", Rank(t) < Rank(s)
  PROVE  isStageTerminal(x[t].status)
<1>1. /\ D \subseteq StageType /\ \A u \in D : x[u] \in TrackedStage /\ Evidence(u, x[u].status)
  BY TrueListFact
<1>2. s \notin {"PROPOSAL_CREATED", "VOTING_ACTIVE"} /\ Evidence(s, "READY")
  BY <1>1 DEF Evidence
<1>3. x[s] # NotStarted
  BY NoLink
<1>4. \A u \in StageType : isStageSuccess(x[u].status) => x[u] # NotStarted /\ isStageTerminal(x[u].status)
  BY NoLink DEF isStageSuccess, isStageTerminal
<1>5. StagesInOrder(x)
  BY DEF TrueList
<1>6. ASSUME s \in TimelockStages, t \in TimelockStages PROVE isStageTerminal(x[t].status)
  BY <1>3, <1>4, <1>5, <1>6 DEF StagesInOrder, Rank, StageType, TimelockStages
<1>7. ASSUME t \in ParentStages PROVE isStageTerminal(x[t].status)
  <2>1. GovernorInOrder(x)
    BY <1>7 DEF TrueList, ParentStages, TimelockStages
  <2>2. CASE s = "PROPOSAL_QUEUED"
    <3>1. t \in {"PROPOSAL_CREATED", "VOTING_ACTIVE"}
      BY <1>7, <2>2 DEF Rank, ParentStages
    <3>2. x["VOTING_ACTIVE"].status = "COMPLETED"
      BY <1>3, <2>1, <2>2 DEF GovernorInOrder
    <3>3. x["PROPOSAL_CREATED"].status = "COMPLETED"
      BY <2>1, <3>2, NoLink DEF GovernorInOrder
    <3> QED BY <3>1, <3>2, <3>3 DEF isStageTerminal
  <2>3. CASE s \in TimelockStages
    <3>1. x["PROPOSAL_QUEUED"].status = "COMPLETED"
      BY <1>3, <2>1, <2>3 DEF GovernorInOrder
    <3>2. x["VOTING_ACTIVE"].status = "COMPLETED"
      BY <2>1, <3>1, NoLink DEF GovernorInOrder
    <3>3. x["PROPOSAL_CREATED"].status = "COMPLETED"
      BY <2>1, <3>2, NoLink DEF GovernorInOrder
    <3> QED BY <1>7, <3>1, <3>2, <3>3 DEF isStageTerminal, ParentStages
  <2> QED BY <1>1, <1>2, <2>2, <2>3 DEF StageType, ParentStages
<1>8. s = "PROPOSAL_QUEUED" => t \in ParentStages
  BY <1>1 DEF Rank, StageType, ParentStages, TimelockStages
<1> QED BY <1>1, <1>2, <1>6, <1>7, <1>8 DEF StageType, ParentStages

\* Only one stage is offered for execution, and it is the one that is waited for.
LEMMA TurnIsTrue ==
  ASSUME Earned, NEW x, NEW D, TrueList(x, D)
  PROVE  ActsInTurn(ResultList(x, D))
<1>1. PICK list : list = ResultList(x, D)
  OBVIOUS
<1>2. D \subseteq StageType /\ DOMAIN list = D /\ \A s \in D : list[s] = x[s]
  BY <1>1, TrueListFact
<1> DEFINE ready == {s \in D : x[s].status = "READY"}
           open == {s \in D : ~isStageTerminal(x[s].status)}
<1>3. /\ findAllExecutableStages(list) = ready /\ findExecutableStage(list) = FirstWhere(ready)
      /\ getCurrentStage(list) = FirstWhere(open)
  <2>1. findAllExecutableStages(list) = ready
    BY <1>2 DEF findAllExecutableStages, Where
  <2>2. getCurrentStage(list) = FirstWhere(open)
    <3>1. open = {s \in DOMAIN list : ~isStageTerminal(list[s].status)}
      BY <1>2
    <3> QED BY <3>1 DEF getCurrentStage, Where
  <2> QED BY <2>1, <2>2 DEF findExecutableStage
<1>4. \A s, t \in StageType : Rank(s) \in Nat /\ (Rank(s) = Rank(t) => s = t)
  BY DEF Rank, StageType, ParentStages, TimelockStages
<1>5. \A s \in D : x[s].status = "READY" => ~isStageTerminal(x[s].status)
  BY DEF isStageTerminal
<1>6. ASSUME NEW s \in ready PROVE ready = {s} /\ FirstOf(open) = s
  <2>1. \A t \in ready : t = s
    <3> SUFFICES ASSUME NEW t \in ready, t # s PROVE FALSE
      OBVIOUS
    <3>1. Rank(t) < Rank(s) \/ Rank(s) < Rank(t)
      BY <1>2, <1>4
    <3> QED BY <1>5, <3>1, ReadyInTurn
  <2>2. s \in open /\ open # {} /\ open \in SUBSET StageType
    BY <1>2, <1>5
  <2>3. FirstOf(open) \in open /\ Rank(FirstOf(open)) <= Rank(s)
    BY <2>2, FirstIsOne
  <2>4. \A t \in open : ~(Rank(t) < Rank(s))
    BY ReadyInTurn
  <2>5. FirstOf(open) \in StageType /\ s \in StageType
    BY <2>2, <2>3
  <2> HIDE DEF open
  <2>6. FirstOf(open) = s
    BY <1>4, <2>3, <2>4, <2>5
  <2> QED BY <2>1, <2>6
<1>7. ASSUME NEW s \in ready PROVE FirstOf(ready) = s /\ FirstWhere(ready) = s /\ FirstWhere(open) = s
  <2>1. ready \in SUBSET StageType /\ s \in open
    BY <1>2, <1>5
  <2> HIDE DEF open
  <2>2. ready = {s} /\ FirstOf(open) = s
    BY <1>6
  <2> HIDE DEF ready
  <2>3. FirstOf(ready) \in ready
    BY <2>1, <2>2, FirstIsOne
  <2> QED BY <2>1, <2>2, <2>3 DEF FirstWhere
<1> HIDE DEF ready, open
<1>8. FirstWhere(ready) # "none" => ready # {}
  BY DEF FirstWhere
<1>9. ActsInTurn(list)
  <2> SUFFICES ASSUME needsAction(list)
               PROVE  /\ findExecutableStage(list) = getCurrentStage(list)
                      /\ findAllExecutableStages(list) = {getCurrentStage(list)}
    BY DEF ActsInTurn
  <2>1. PICK s : s \in ready
    BY <1>3, <1>8 DEF needsAction
  <2> QED BY <1>3, <1>6, <1>7, <2>1
<1> QED BY <1>1, <1>9

\* What a proposal is shown with, from its own checkpoint and that of its operation,
\* is a true list.
LEMMA ExtractedIsTrue ==
  ASSUME Earned, Ordered, LinksAreFromQueue, AllPlaced
  PROVE  LET list == ExtractedProposal(cache["proposal"], cache["operation"]).stages
         IN  \E x : /\ TrueList(x, Stored(x)) /\ list = ResultList(x, Stored(x))
                    /\ FollowedThrough => Followed(x, "idle")
<1> DEFINE cp == cache["proposal"]
           op == cache["operation"]
           x == cp.stages
           y == op.stages
           own == StoredList(x)
           linked == StoredList(y)
           list == ExtractedProposal(cp, op).stages
<1>1. /\ cp \in Checkpoint /\ x \in StageList /\ FitsKey("proposal", cp) /\ Justified(x)
      /\ LinkIsFromQueue(x, cp.opKey) /\ FitsInput(cp.input, x)
      /\ y \in StageList /\ FitsKey("operation", op) /\ Justified(y) /\ SkippedTogether(y)
  <2>1. /\ \A k \in CacheKey : FitsKey(k, cache[k]) /\ LinkIsFromQueue(cache[k].stages, cache[k].opKey)
        /\ \A k \in CacheKey : FitsInput(cache[k].input, cache[k].stages)
    BY DEF Ordered, LinksAreFromQueue, AllPlaced
  <2> QED BY <2>1, CacheFact DEF CacheKey, FitsInput
<1>2. GovernorInOrder(x) /\ SkippedTogether(x)
  <2>1. cp.input \in {"none"} \cup GovernorInputs
    BY <1>1 DEF FitsKey
  <2>2. cp.input = "none" => FitsInput("governor", x)
    BY <1>1, NothingFits DEF FitsInput
  <2> QED BY <1>1, <2>1, <2>2 DEF FitsInput, GovernorInputs
<1>3. /\ StagesInOrder(x) /\ NoneOf(TimelockStages, x) /\ StagesInOrder(y) /\ NoneOf(ParentStages, y)
  BY <1>1 DEF FitsKey
<1>4. list = IF cp.opKey /\ DOMAIN linked # {} THEN mergeStages(own, linked) ELSE own
  BY DEF ExtractedProposal
<1>5. DOMAIN own = Stored(x) /\ DOMAIN linked = Stored(y)
  BY DEF StoredList
<1>6. own = ResultList(x, Stored(x))
  BY DEF StoredList, ResultList
<1>9. FollowedThrough => Followed(x, "idle") /\ Followed(y, "idle")
  BY DEF FollowedThrough, FollowedCheckpoint, CacheKey
<1>7. CASE ~(cp.opKey /\ DOMAIN linked # {})
  <2>1. TrueList(x, Stored(x))
    BY <1>1, <1>2, <1>3 DEF TrueList, LinkIsFromQueue
  <2>2. list = ResultList(x, Stored(x))
    BY <1>4, <1>6, <1>7
  <2> QED BY <1>9, <2>1, <2>2
<1>8. CASE cp.opKey /\ DOMAIN linked # {}
  <2> DEFINE z == Overlay(x, y)
  <2>1. z \in StageList /\ Justified(z)
    BY <1>1, SplitAndMerge
  <2>2. x["PROPOSAL_QUEUED"].status = "COMPLETED"
    BY <1>1, <1>8 DEF LinkIsFromQueue
  <2>3. StagesInOrder(z) /\ SkippedTogether(z) /\ GovernorInOrder(z)
    BY <1>1, <1>2, <1>3, <2>2, OrderOfOverlay, MergedFits
  <2>4. \A s \in Stored(y) : s \in TimelockStages /\ s \notin Stored(x) /\ z[s] = y[s]
    BY <1>3, NoLink DEF Stored, NoneOf, Overlay, StageType
  <2>5. \A s \in StageType : s \notin Stored(y) => z[s] = x[s]
    BY DEF Overlay
  <2>6. Stored(z) = Stored(x) \cup Stored(y)
    BY <2>4, <2>5 DEF Stored
  <2>f. FollowedThrough => Followed(z, "idle")
    BY <1>1, <1>9, FollowedParts
  <2>7. LinkIsFromQueue(z, FALSE)
    <3>1. "PROPOSAL_QUEUED" \notin Stored(y) /\ "PROPOSAL_QUEUED" \in StageType
      BY <2>4 DEF StageType, ParentStages, TimelockStages
    <3>2. z["PROPOSAL_QUEUED"] = x["PROPOSAL_QUEUED"]
      BY <2>5, <3>1
    <3> QED BY <2>2, <3>2 DEF LinkIsFromQueue
  <2> HIDE DEF z
  <2>8. TrueList(z, Stored(z))
    BY <2>1, <2>3, <2>7 DEF TrueList
  <2>9. mergeStages(own, linked) = ResultList(z, Stored(z))
    <3>1. \A s \in Stored(x) : s \in StageType /\ s \notin Stored(y) /\ own[s] = z[s]
      BY <2>4, <2>5 DEF Stored, StoredList
    <3>2. \A s \in Stored(y) : linked[s] = z[s]
      BY <2>4 DEF StoredList
    <3> HIDE DEF own, linked
    <3> QED BY <1>5, <2>4, <2>6, <3>1, <3>2 DEF mergeStages, ResultList
  <2>10. list = ResultList(z, Stored(z))
    BY <1>4, <1>8, <2>9
  <2> QED BY <2>8, <2>10, <2>f
<1> QED BY <1>7, <1>8

\* So is the result of a call that is about to return.
LEMMA ResultIsTrue ==
  ASSUME Earned, Ordered, LinksAreFromQueue, AllPlaced, NEW c \in Callers,
         run[c].pc \in {"saveParent", "saveOperation"}
  PROVE  LET r == run[c]
             D == IF r.input \in GovernorInputs THEN StageType ELSE TimelockStages
         IN  /\ TrueList(r.stages, D) /\ TrackingResult(r.input, r.stages).stages = ResultList(r.stages, D)
             /\ FollowedThrough => Followed(r.stages, "idle")
<1> DEFINE r == run[c]
<1>1. /\ r.stages \in StageList /\ Justified(r.stages) /\ Placed(r) /\ FitsRun(r)
      /\ LinkIsFromQueue(r.stages, r.opKey)
  BY PlacedFact DEF CacheKey
<1>2. /\ StagesInOrder(r.stages) /\ SkippedTogether(r.stages) /\ LinkIsFromQueue(r.stages, FALSE)
      /\ r.input \in GovernorInputs => GovernorInOrder(r.stages)
  BY <1>1 DEF FitsRun, Placed, FitsInput, LinkIsFromQueue
<1>3. r.input \notin GovernorInputs => Since(Queued)
  BY <1>1 DEF Placed
<1>4. FollowedThrough => Followed(r.stages, "idle")
  <2>1. FollowedThrough => Followed(r.stages, r.pc)
    BY DEF FollowedThrough
  <2> QED BY <1>1, <2>1, FollowedElsewhere
<1> QED BY <1>1, <1>2, <1>3, <1>4 DEF TrueList, TrackingResult

\* A list with stages of an operation, all of them over, is that of a proposal that is.
LEMMA TimelockEnds ==
  ASSUME Earned, NEW x \in StageList, Justified(x), SkippedTogether(x), Followed(x, "idle"),
         NEW t \in TimelockStages, t \in Stored(x),
         \A s \in Stored(x) : isStageTerminal(x[s].status)
  PROVE  Finished
<1>1. /\ phase \in Nat /\ phase <= FinalPhase(route) /\ route \in Routes
  BY DEF Earned, TypeOK, ChainTypeOK, ChainIsSound, Phases, Created, Redeemed
<1>2. \A s \in TimelockStages : /\ Evidence(s, x[s].status)
                               /\ s \in Stored(x) <=> x[s].status # "NOT_STARTED"
  BY DEF Justified, Stored, StageType
<1>3. CASE "RETRYABLE_EXECUTED" \in Stored(x)
  <2>1. Finished \/ phase = FinalPhase(route)
    BY <1>3, SettledIsFinished
  <2> QED BY <2>1 DEF Finished
<1>4. ASSUME "RETRYABLE_EXECUTED" \notin Stored(x) PROVE Finished
  <2>1. "L1_TIMELOCK" \notin Stored(x)
    <3>1. x["RETRYABLE_EXECUTED"].status = "NOT_STARTED"
      BY <1>2, <1>4 DEF TimelockStages
    <3>2. x["L1_TIMELOCK"].status \notin {"SKIPPED", "COMPLETED"}
      BY <1>4, <3>1 DEF SkippedTogether, Followed
    <3>3. x["L1_TIMELOCK"].status # "FAILED"
      BY <1>2 DEF Evidence, TimelockStages
    <3> QED BY <3>2, <3>3 DEF isStageTerminal
  <2>2. CASE "L2_TO_L1_MESSAGE" \in Stored(x)
    <3>1. x["L2_TO_L1_MESSAGE"].status \in {"COMPLETED", "SKIPPED"}
      <4>1. x["L2_TO_L1_MESSAGE"].status # "FAILED"
        BY <1>2 DEF Evidence, TimelockStages
      <4> QED BY <2>2, <4>1 DEF isStageTerminal
    <3>2. CASE x["L2_TO_L1_MESSAGE"].status = "COMPLETED"
      BY <2>1, <3>2 DEF Followed, Finished
    <3>3. CASE x["L2_TO_L1_MESSAGE"].status = "SKIPPED"
      <4>1. route # "l2Only"
        <5>1. x["L1_TIMELOCK"].status = "NOT_STARTED"
          BY <1>2, <2>1 DEF TimelockStages
        <5> QED BY <3>3, <5>1 DEF SkippedTogether
      <4>2. route = "noMessage" /\ Since(L2Executed)
        BY <1>2, <3>3, <4>1 DEF Evidence, TimelockStages
      <4> QED BY <1>1, <4>2, MilestonesFact DEF Since, FinalPhase, Finished
    <3> QED BY <3>1, <3>2, <3>3
  <2>3. CASE "L2_TO_L1_MESSAGE" \notin Stored(x)
    <3>1. "L2_TIMELOCK" \in Stored(x)
      BY <1>4, <2>1, <2>3 DEF TimelockStages
    <3>2. x["L2_TIMELOCK"].status = "COMPLETED"
      BY <1>2, <3>1 DEF Evidence, TimelockStages, isStageTerminal
    <3> QED BY <2>3, <3>2 DEF Followed
  <2> QED BY <2>2, <2>3
<1> QED BY <1>3, <1>4

\* A list all of whose stages are over is that of a proposal that is, or stops short.
LEMMA CompleteEnds ==
  ASSUME Earned, NEW x, NEW D, TrueList(x, D), Followed(x, "idle"), D # {}, Complete(ResultList(x, D))
  PROVE  Finished \/ StopsShort(ResultList(x, D))
<1>1. PICK list : list = ResultList(x, D)
  OBVIOUS
<1>2. /\ D \subseteq StageType /\ DOMAIN list = D /\ \A s \in D : list[s] = x[s]
      /\ \A s \in D : Evidence(s, x[s].status) /\ isStageTerminal(x[s].status)
  BY <1>1, TrueListFact DEF Complete
<1>3. x \in StageList /\ Justified(x) /\ SkippedTogether(x)
  BY DEF TrueList
<1>4. CASE "RETRYABLE_EXECUTED" \in D
  <2>1. Finished \/ phase = FinalPhase(route)
    BY <1>2, <1>3, <1>4, SettledIsFinished
  <2> QED BY <2>1 DEF Finished
<1>5. ASSUME "RETRYABLE_EXECUTED" \notin D PROVE Finished \/ StopsShort(list)
  <2>1. D = Stored(x) /\ GovernorInOrder(x)
    BY <1>5 DEF TrueList, StageType, TimelockStages
  <2>2. CASE \E t \in TimelockStages : t \in D
    BY <1>2, <1>3, <2>1, <2>2, TimelockEnds
  <2>3. ASSUME D \subseteq ParentStages PROVE Finished \/ StopsShort(list)
    <3>n. NotStarted.status = "NOT_STARTED"
      BY DEF NotStarted, Stage
    <3>1. \A s \in ParentStages : s \in D <=> x[s].status # "NOT_STARTED"
      BY <2>1 DEF Stored, StageType
    <3>2. "PROPOSAL_CREATED" \in D /\ ("PROPOSAL_QUEUED" \in D => "VOTING_ACTIVE" \in D)
      BY <2>1, <2>3, <3>n, <3>1 DEF GovernorInOrder, ParentStages
    <3>3. CASE "VOTING_ACTIVE" \notin D
      <4>1. D = {"PROPOSAL_CREATED"}
        BY <2>3, <3>2, <3>3 DEF ParentStages
      <4> QED BY <1>2, <4>1 DEF StopsShort
    <3>4. CASE "VOTING_ACTIVE" \in D
      <4>1. \/ fate = "Defeated"
            \/ x["VOTING_ACTIVE"].status = "COMPLETED"
        BY <1>2, <3>4 DEF Evidence, isStageTerminal
      <4>2. ASSUME x["VOTING_ACTIVE"].status = "COMPLETED" PROVE Finished \/ StopsShort(list)
        <5>1. "PROPOSAL_QUEUED" \in D
          BY <2>1, <4>2 DEF Followed
        <5>2. D = ParentStages
          BY <2>3, <3>2, <3>4, <5>1 DEF ParentStages
        <5>3. \/ fate = "Canceled"
              \/ x["PROPOSAL_QUEUED"].status = "COMPLETED" /\ Since(Queued)
          BY <1>2, <5>1 DEF Evidence, isStageTerminal
        <5> QED BY <1>2, <5>1, <5>2, <5>3 DEF StopsShort, Finished
      <4> QED BY <4>1, <4>2 DEF Finished
    <3> QED BY <3>3, <3>4
  <2> QED BY <1>2, <2>2, <2>3 DEF StageType
<1> QED BY <1>1, <1>4, <1>5

\* Likewise a list that is shown as executed.
LEMMA ExecutedEnds ==
  ASSUME Earned, NEW x, NEW D, TrueList(x, D), Followed(x, "idle"),
         getLifecyclePhase(ResultList(x, D)) = "executed"
  PROVE  Finished \/ StopsShort(ResultList(x, D))
<1>1. PICK list : list = ResultList(x, D)
  OBVIOUS
<1>2. DOMAIN list = D /\ \A s \in D : list[s] = x[s] /\ Evidence(s, x[s].status)
  BY <1>1, TrueListFact
<1>3. D # {}
  BY <1>1, <1>2 DEF getLifecyclePhase
<1>4. CASE Complete(list)
  BY <1>1, <1>3, <1>4, CompleteEnds
<1>5. CASE StatusOf(list, "L2_TO_L1_MESSAGE") = "SKIPPED"
  <2>1. Evidence("L2_TO_L1_MESSAGE", "SKIPPED")
    BY <1>2, <1>5 DEF StatusOf
  <2>2. route \in {"l2Only", "noMessage"} /\ Since(L2Executed)
    BY <2>1 DEF Evidence
  <2> QED BY <2>2, MilestonesFact
             DEF Earned, TypeOK, ChainTypeOK, ChainIsSound, Phases, FinalPhase, Since, Finished
<1> QED BY <1>1, <1>4, <1>5, ShownExecuted

\* An operation that is shown as complete by itself.
LEMMA OperationEnds ==
  ASSUME Earned, Ordered, AllPlaced, FollowedThrough,
         ExtractedTimelockOp(cache["operation"]).isComplete
  PROVE  Finished
<1> DEFINE y == cache["operation"].stages
<1>1. /\ y \in StageList /\ Justified(y) /\ SkippedTogether(y) /\ NoneOf(ParentStages, y)
      /\ Followed(y, "idle")
  BY CacheFact DEF Ordered, AllPlaced, FollowedThrough, FollowedCheckpoint, FitsKey, FitsInput, CacheKey
<1>2. DOMAIN StoredList(y) # {} /\ Complete(StoredList(y))
  BY DEF ExtractedTimelockOp
<1>3. Stored(y) # {} /\ \A s \in Stored(y) : isStageTerminal(y[s].status)
  BY <1>2 DEF StoredList, Complete
<1>4. \A s \in Stored(y) : s \in TimelockStages
  BY <1>1, NoLink DEF Stored, NoneOf, StageType
<1> HIDE DEF y
<1> QED BY <1>1, <1>3, <1>4, TimelockEnds

\* What else is shown is derived from the list.
LEMMA ViewIsDerived ==
  ASSUME NEW view \in Shown
  PROVE  /\ view.currentState = deriveProposalState(view.stages)
         /\ view.timelockLink = extractTimelockLinkFromStages(view.stages)
         /\ view.isComplete => Complete(view.stages)
         /\ view.isComplete => DOMAIN view.stages # {}
<1>1. CASE view = ExtractedProposal(cache["proposal"], cache["operation"])
  BY <1>1 DEF ExtractedProposal
<1>2. CASE \E c \in Callers : view = TrackingResult(run[c].input, run[c].stages)
  BY <1>2 DEF TrackingResult, ResultList, StageType, TimelockStages
<1> QED BY <1>1, <1>2 DEF Shown

\* Whatever is derived of a proposal (the governor's state, the lifecycle phase, the
\* link to the operation, the stage that is offered for execution) is true, of the list
\* that is put together from two checkpoints that are written, lost and overwritten
\* separately, and of the result of a call.  For any callers, errors and crashes, and
\* nodes that lag; and if they do not, a proposal that is shown as complete or executed
\* is over, unless the list stops short of what has not been stored.
THEOREM WhatIsShownIsTrue == Spec => []ViewsAreTrue
<1>1. /\ Earned /\ Ordered /\ LinksAreFromQueue /\ AllPlaced
      /\ ~Lag => FollowedThrough
      => ViewsAreTrue
  <2> SUFFICES ASSUME Earned, Ordered, LinksAreFromQueue, AllPlaced, ~Lag => FollowedThrough
               PROVE  ViewsAreTrue
    OBVIOUS
  <2>1. ASSUME NEW view \in Shown
        PROVE  /\ Vouched(view.currentState) /\ Vouched(getLifecyclePhase(view.stages))
               /\ EndIsTrue(view) /\ ActsInTurn(view.stages)
               /\ view.timelockLink \/ extractOperationId(view.stages) => Since(Queued)
    <3>1. PICK x, D : /\ TrueList(x, D) /\ view.stages = ResultList(x, D)
                      /\ FollowedThrough => Followed(x, "idle")
      <4>1. CASE view = ExtractedProposal(cache["proposal"], cache["operation"])
        BY <4>1, ExtractedIsTrue
      <4>2. CASE \E c \in Callers : /\ run[c].pc \in {"saveParent", "saveOperation"}
                                    /\ view = TrackingResult(run[c].input, run[c].stages)
        BY <4>2, ResultIsTrue
      <4> QED BY <2>1, <4>1, <4>2 DEF Shown
    <3>2. EndIsTrue(view)
      <4> SUFFICES ASSUME ~Lag, view.isComplete \/ getLifecyclePhase(view.stages) = "executed"
                   PROVE  Finished \/ StopsShort(view.stages)
        BY DEF EndIsTrue
      <4>1. DOMAIN view.stages = D
        BY <3>1, TrueListFact
      <4> QED BY <2>1, <3>1, <4>1, ViewIsDerived, CompleteEnds, ExecutedEnds
    <3>3. /\ Vouched(view.currentState)
          /\ view.timelockLink \/ extractOperationId(view.stages) => Since(Queued)
      BY <2>1, <3>1, ViewIsDerived, DerivedIsTrue, LinkIsTrue
    <3> QED BY <3>1, <3>2, <3>3, PhaseIsTrue, TurnIsTrue
  <2>2. ~Lag /\ ExtractedTimelockOp(cache["operation"]).isComplete => Finished
    BY OperationEnds
  <2> QED BY <2>1, <2>2 DEF ViewsAreTrue
<1>2. Spec => [](~Lag => FollowedThrough)
  <2>1. CASE ~Lag
    <3>1. Earned /\ FollowedThrough => (~Lag => FollowedThrough)
      OBVIOUS
    <3> QED BY <2>1, <3>1, FollowedInvariant, PTL
  <2>2. CASE Lag
    <3>1. ~Lag => FollowedThrough
      BY <2>2
    <3> QED BY <3>1, PTL
  <2> QED BY <2>1, <2>2
<1> QED BY <1>1, <1>2, PlacedInvariant, PTL

=============================================================================
