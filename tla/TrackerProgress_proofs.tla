----------------------- MODULE TrackerProgress_proofs -----------------------
(***************************************************************************)
(* Finished stages are not lost: for one caller and exact reads, a stage   *)
(* that a checkpoint has as done stays as it is under every error, crash   *)
(* and entry point, and the tracker implements the LifecycleObserver.      *)
(*                                                                         *)
(* The argument is about what a call knows of the operation's checkpoint,  *)
(* which it is going to overwrite.  Either the call has loaded what is     *)
(* done there, or it follows the operation afresh; and a call that does    *)
(* the latter cannot stop before it has found again everything that is     *)
(* done, because exact reads of chains that only move on answer the same.  *)
(***************************************************************************)
EXTENDS ProposalTracker_proofs

\* A proposal is canceled only before the step that the cancellation prevents.
FatesAreSound ==
  /\ fate = "Canceled" => phase < L2Executed
  /\ fate = "L1Canceled" => phase < L1Executed

\* With exact reads the link of a stage is settled by its status.
DefiniteStage(s, stage) ==
  /\ stage.link => stage.status = "COMPLETED" /\ s \notin {"PROPOSAL_CREATED", "VOTING_ACTIVE", "RETRYABLE_EXECUTED"}
  /\ s = "PROPOSAL_QUEUED" /\ stage.status = "COMPLETED" => stage.link

Definite(stages) == \A s \in StageType : DefiniteStage(s, stages[s])

\* What is done in old is done in stages; and is the very same there.
Within(old, part, stages) ==
  \A s \in part : isStageSuccess(old[s].status) => isStageSuccess(stages[s].status)
Same(old, part, stages) ==
  \A s \in part : isStageSuccess(old[s].status) => stages[s] = old[s]

\* The timelock stages that are still before a call.
From(pc) == CASE pc = "L2_TO_L1_MESSAGE"   -> {"L2_TO_L1_MESSAGE", "L1_TIMELOCK", "RETRYABLE_EXECUTED"}
              [] pc = "L1_TIMELOCK"        -> {"L1_TIMELOCK", "RETRYABLE_EXECUTED"}
              [] pc = "RETRYABLE_EXECUTED" -> {"RETRYABLE_EXECUTED"}
              [] OTHER                     -> TimelockStages

\* A call that has nothing of the stages before it, and is sure to come to them.
Afresh(r) ==
  /\ r.pc \notin {"saveOperation", "saveLinked"}
  /\ r.pc # "discover" => isGovernorRun(r)
  /\ NoneOf(From(r.pc), r.stages)
  /\ r.pc = "L2_TIMELOCK" => r.stages["PROPOSAL_QUEUED"].status = "COMPLETED"
  /\ r.pc = "L1_TIMELOCK" => r.stages["L2_TO_L1_MESSAGE"].status = "COMPLETED"
  /\ r.pc = "RETRYABLE_EXECUTED" => r.stages["L1_TIMELOCK"].status = "COMPLETED"

\* Where a call may still give back the checkpoint it loaded.
MayThrow == {"discover", "loadLinked"} \cup StageType

\* What a call in flight knows of a cache.
Remembers(r, m) ==
  /\ Within(m["operation"].stages, TimelockStages, r.stages) \/ Afresh(r)
  /\ r.entry = "proposal" /\ r.pc # "saveLinked" => Same(m["proposal"].stages, ParentStages, r.stages)
  /\ r.pc \in MayThrow => Same(m[r.entry].stages, StageType, r.loaded.stages)
  /\ r.entry = "queueTx" => r.loaded.input \in {"none", "unknownGovernor"}
  /\ r.input = "none" => r.pc = "discover"
  /\ r.pc = "discover" => r.stages = NoStages

DefiniteCheckpoint(k, cp) ==
  /\ Definite(cp.stages)
  /\ ~Exists(cp) => cp.stages = NoStages
  /\ k = "queueTx" => cp.input \in {"none", "unknownGovernor"}

DefiniteRun(r) ==
  /\ Definite(r.stages) /\ Definite(r.loaded.stages)
  /\ ~Exists(r.loaded) => r.loaded.stages = NoStages

Remembered ==
  /\ FatesAreSound
  /\ \A k \in CacheKey : DefiniteCheckpoint(k, cache[k])
  /\ \A c \in Callers : DefiniteRun(run[c]) /\ (run[c].pc # "idle" => Remembers(run[c], cache))

\* No call is in flight beside another.
OneCaller == \A c, d \in Callers : c = d

-----------------------------------------------------------------------------
(* Lists of stages.                                                        *)

\* NOT_STARTED is definite, and not done.
LEMMA NotStartedFact ==
  /\ NotStarted.status = "NOT_STARTED" /\ NotStarted.link = FALSE /\ ~isStageSuccess(NotStarted.status)
  /\ \A s : DefiniteStage(s, NotStarted)
  /\ Definite(NoStages) /\ \A s \in StageType : NoStages[s] = NotStarted
BY DEF NotStarted, Stage, isStageSuccess, DefiniteStage, Definite, NoStages

\* Splitting and merging makes nothing indefinite.
LEMMA DefiniteParts ==
  ASSUME NEW x, NEW y, NEW part, Definite(x), Definite(y)
  PROVE  Definite(Restricted(x, part)) /\ Definite(Overlay(x, y))
BY NotStartedFact DEF Definite, Restricted, Overlay

\* What the stages of a true list that are done tell of the chains.
LEMMA DoneMeans ==
  ASSUME Earned, FatesAreSound, NEW x \in StageList, NEW pc, Justified(x), StagesInOrder(x),
         Followed(x, pc), Definite(x)
  PROVE  /\ isStageSuccess(x["L2_TIMELOCK"].status) =>
              /\ x["L2_TIMELOCK"].status = "COMPLETED" /\ x["L2_TIMELOCK"].link
              /\ Since(L2Executed) /\ fate # "Canceled"
         /\ isStageSuccess(x["L2_TO_L1_MESSAGE"].status) =>
              /\ isStageSuccess(x["L2_TIMELOCK"].status)
              /\ IF route \in {"l2Only", "noMessage"}
                 THEN x["L2_TO_L1_MESSAGE"].status = "SKIPPED" /\ ~x["L2_TO_L1_MESSAGE"].link
                 ELSE /\ x["L2_TO_L1_MESSAGE"].status = "COMPLETED" /\ x["L2_TO_L1_MESSAGE"].link
                      /\ Since(OutboxDone)
         /\ isStageSuccess(x["L1_TIMELOCK"].status) =>
              /\ isStageSuccess(x["L2_TO_L1_MESSAGE"].status) /\ route # "noMessage"
              /\ IF route = "l2Only"
                 THEN x["L1_TIMELOCK"].status = "SKIPPED" /\ ~x["L1_TIMELOCK"].link
                 ELSE /\ x["L1_TIMELOCK"].status = "COMPLETED" /\ x["L1_TIMELOCK"].link
                      /\ Since(L1Executed) /\ fate # "L1Canceled"
         /\ isStageSuccess(x["RETRYABLE_EXECUTED"].status) =>
              /\ isStageSuccess(x["L1_TIMELOCK"].status) /\ ~x["RETRYABLE_EXECUTED"].link
              /\ IF route = "roundTrip"
                 THEN x["RETRYABLE_EXECUTED"].status = "COMPLETED" /\ Since(Redeemed)
                 ELSE x["RETRYABLE_EXECUTED"].status = "SKIPPED"
<1>1. /\ Evidence("L2_TIMELOCK", x["L2_TIMELOCK"].status)
      /\ Evidence("L2_TO_L1_MESSAGE", x["L2_TO_L1_MESSAGE"].status)
      /\ Evidence("L1_TIMELOCK", x["L1_TIMELOCK"].status)
      /\ Evidence("RETRYABLE_EXECUTED", x["RETRYABLE_EXECUTED"].status)
  BY DEF Justified, StageType, TimelockStages
<1>2. phase \in Nat /\ phase <= FinalPhase(route) /\ route \in Routes
  BY DEF Earned, TypeOK, ChainTypeOK, ChainIsSound, Phases, Created, Redeemed
<1>3. /\ route \in {"l2Only", "noMessage"} => phase <= L2Executed
      /\ route = "noTicket" => phase <= L1Executed
      /\ Since(OutboxDone) => route \in {"noTicket", "roundTrip"}
      /\ Since(L1Executed) => route \in {"noTicket", "roundTrip"} /\ Since(OutboxDone) /\ fate # "L1Canceled"
      /\ Since(L2Executed) => fate # "Canceled"
      /\ Since(Redeemed) => route = "roundTrip" /\ Since(L1Executed)
  BY <1>2, MilestonesFact DEF FinalPhase, Since, Routes, FatesAreSound
<1>4. \A s \in TimelockStages : isStageSuccess(x[s].status) => x[s] # NotStarted
  BY NotStartedFact
<1>5. /\ isStageSuccess(x["L2_TO_L1_MESSAGE"].status) => isStageSuccess(x["L2_TIMELOCK"].status)
      /\ isStageSuccess(x["L1_TIMELOCK"].status) => isStageSuccess(x["L2_TO_L1_MESSAGE"].status)
      /\ isStageSuccess(x["RETRYABLE_EXECUTED"].status) => isStageSuccess(x["L1_TIMELOCK"].status)
  BY <1>4 DEF StagesInOrder, TimelockStages
<1>6. \A s \in TimelockStages :
        /\ x[s].status # "COMPLETED" => ~x[s].link
        /\ s = "RETRYABLE_EXECUTED" => ~x[s].link
  BY DEF Definite, DefiniteStage, StageType
<1>7. /\ x["L2_TIMELOCK"].status = "COMPLETED" => x["L2_TIMELOCK"].link
      /\ x["L2_TO_L1_MESSAGE"].status = "COMPLETED" => x["L2_TO_L1_MESSAGE"].link
      /\ x["L1_TIMELOCK"].status = "COMPLETED" => x["L1_TIMELOCK"].link
      /\ x["RETRYABLE_EXECUTED"].status = "SKIPPED" => route # "roundTrip"
  BY DEF Followed
<1>8. isStageSuccess(x["L2_TIMELOCK"].status) =>
        /\ x["L2_TIMELOCK"].status = "COMPLETED" /\ x["L2_TIMELOCK"].link
        /\ Since(L2Executed) /\ fate # "Canceled"
  BY <1>1, <1>3, <1>7 DEF Evidence, isStageSuccess
<1>9. isStageSuccess(x["L2_TO_L1_MESSAGE"].status) =>
        IF route \in {"l2Only", "noMessage"}
        THEN x["L2_TO_L1_MESSAGE"].status = "SKIPPED" /\ ~x["L2_TO_L1_MESSAGE"].link
        ELSE /\ x["L2_TO_L1_MESSAGE"].status = "COMPLETED" /\ x["L2_TO_L1_MESSAGE"].link
             /\ Since(OutboxDone)
  BY <1>1, <1>3, <1>6, <1>7 DEF Evidence, isStageSuccess, TimelockStages
<1>10. isStageSuccess(x["L1_TIMELOCK"].status) =>
         /\ route # "noMessage"
         /\ IF route = "l2Only"
            THEN x["L1_TIMELOCK"].status = "SKIPPED" /\ ~x["L1_TIMELOCK"].link
            ELSE /\ x["L1_TIMELOCK"].status = "COMPLETED" /\ x["L1_TIMELOCK"].link
                 /\ Since(L1Executed) /\ fate # "L1Canceled"
  BY <1>1, <1>3, <1>6, <1>7 DEF Evidence, isStageSuccess, TimelockStages
<1>11. isStageSuccess(x["RETRYABLE_EXECUTED"].status) =>
         /\ ~x["RETRYABLE_EXECUTED"].link
         /\ IF route = "roundTrip"
            THEN x["RETRYABLE_EXECUTED"].status = "COMPLETED" /\ Since(Redeemed)
            ELSE x["RETRYABLE_EXECUTED"].status = "SKIPPED"
  BY <1>1, <1>3, <1>6, <1>7 DEF Evidence, isStageSuccess, TimelockStages
<1> QED BY <1>5, <1>8, <1>9, <1>10, <1>11

\* So two true lists that have a timelock stage as done have the same of it.
LEMMA DoneAlike ==
  ASSUME Earned, FatesAreSound, NEW x \in StageList, NEW y \in StageList, NEW pc,
         Justified(x), StagesInOrder(x), Followed(x, "idle"), Definite(x),
         Justified(y), StagesInOrder(y), Followed(y, pc), Definite(y),
         Within(x, TimelockStages, y)
  PROVE  Same(x, TimelockStages, y)
<1>1. ASSUME NEW s \in TimelockStages, isStageSuccess(x[s].status)
      PROVE  x[s].status = y[s].status /\ x[s].link = y[s].link
  <2>1. isStageSuccess(y[s].status)
    BY <1>1 DEF Within
  <2>2. /\ x[s].link \in BOOLEAN /\ y[s].link \in BOOLEAN
    BY DEF StageList, TrackedStage, StageType
  <2>3. CASE s = "L2_TIMELOCK"
    BY <1>1, <2>1, <2>2, <2>3, DoneMeans
  <2>4. CASE s = "L2_TO_L1_MESSAGE"
    BY <1>1, <2>1, <2>2, <2>4, DoneMeans
  <2>5. CASE s = "L1_TIMELOCK"
    BY <1>1, <2>1, <2>2, <2>5, DoneMeans
  <2>6. CASE s = "RETRYABLE_EXECUTED"
    BY <1>1, <2>1, <2>2, <2>6, DoneMeans
  <2> QED BY <2>3, <2>4, <2>5, <2>6 DEF TimelockStages
<1>2. \A s \in TimelockStages : x[s] \in TrackedStage /\ y[s] \in TrackedStage
  BY DEF StageList, StageType
<1> QED BY <1>1, <1>2 DEF Same, TrackedStage

-----------------------------------------------------------------------------
(* What the steps are made of.                                             *)

\* What is known of a call and of the checkpoint of the operation.
LEMMA KnownFact ==
  ASSUME Earned, Ordered, FollowedThrough, Remembered, NEW c \in Callers
  PROVE  /\ run[c] \in Run /\ run[c].stages \in StageList /\ Justified(run[c].stages)
         /\ FitsRun(run[c]) /\ StagesInOrder(run[c].stages) /\ Followed(run[c].stages, run[c].pc)
         /\ DefiniteRun(run[c]) /\ (run[c].pc # "idle" => Remembers(run[c], cache))
         /\ cache["operation"].stages \in StageList /\ Justified(cache["operation"].stages)
         /\ StagesInOrder(cache["operation"].stages) /\ Followed(cache["operation"].stages, "idle")
         /\ Definite(cache["operation"].stages) /\ FatesAreSound
BY RunFact, CacheFact DEF CacheKey, Ordered, FitsRun, FitsKey, FollowedThrough, FollowedCheckpoint,
                          Remembered, DefiniteCheckpoint

\* A caller that is idle is definite.
LEMMA DefiniteIdle == DefiniteRun(IdleRun) /\ IdleRun.pc = "idle"
BY NotStartedFact DEF DefiniteRun, IdleRun, Absent, NewCheckpoint

\* A step of one call that writes nothing.
LEMMA RememberedRunStep ==
  ASSUME Earned, Remembered, UNCHANGED <<chainVars, cache, faults>>, NEW c \in Callers, NEW r,
         DefiniteRun(r), r.pc # "idle" => Remembers(r, cache), run' = [run EXCEPT ![c] = r]
  PROVE  Remembered'
<1>1. UNCHANGED cache /\ FatesAreSound'
  BY DEF chainVars, Remembered, FatesAreSound
<1>2. \A d \in Callers : run'[d] = IF d = c THEN r ELSE run[d]
  BY DEF Earned, TypeOK
<1> QED BY <1>1, <1>2 DEF Remembered

\* Every checkpoint keeps what it has as done.
KeepsDone == \A k \in CacheKey : Same(cache[k].stages, StageType, cache'[k].stages)

\* A step of the only call that writes a checkpoint.
LEMMA RememberedSaveStep ==
  ASSUME OneCaller, Earned, Remembered, UNCHANGED chainVars, NEW k \in CacheKey, NEW cp,
         DefiniteCheckpoint(k, cp), cache' = [cache EXCEPT ![k] = cp], NEW c \in Callers, NEW r,
         DefiniteRun(r), r.pc # "idle" => Remembers(r, cache'), run' = [run EXCEPT ![c] = r]
  PROVE  Remembered'
<1>1. FatesAreSound'
  BY DEF chainVars, Remembered, FatesAreSound
<1>2. \A d \in Callers : run'[d] = r
  BY DEF OneCaller, Earned, TypeOK
<1>3. \A j \in CacheKey : cache'[j] \in {cache[j], cp} /\ (j # k => cache'[j] = cache[j])
  BY DEF Earned, TypeOK
<1>4. \A j \in CacheKey : DefiniteCheckpoint(j, cache'[j])
  BY <1>3 DEF Remembered, Earned, TypeOK
<1> QED BY <1>1, <1>2, <1>4 DEF Remembered

\* What is done before a stage is done in the list of the call that is there.
LEMMA BehindIsDone ==
  ASSUME Earned, Ordered, FollowedThrough, Remembered, NEW c \in Callers,
         NEW t \in TimelockStages, run[c].pc \in TimelockStages, t \notin From(run[c].pc)
  PROVE  isStageSuccess(run[c].stages[t].status)
<1> DEFINE x == run[c].stages
<1>1. FitsRun(run[c]) /\ StagesInOrder(x)
  BY KnownFact
<1>2. \A s \in TimelockStages : isStageSuccess(x[s].status) => x[s] # NotStarted
  BY NotStartedFact
<1>3. /\ isStageSuccess(x["L1_TIMELOCK"].status) => isStageSuccess(x["L2_TO_L1_MESSAGE"].status)
      /\ isStageSuccess(x["L2_TO_L1_MESSAGE"].status) => isStageSuccess(x["L2_TIMELOCK"].status)
  BY <1>1, <1>2 DEF StagesInOrder, TimelockStages
<1>4. CASE run[c].pc = "L2_TIMELOCK"
  BY <1>4 DEF From
<1>5. CASE run[c].pc = "L2_TO_L1_MESSAGE"
  BY <1>1, <1>5 DEF From, FitsRun, TimelockStages
<1>6. CASE run[c].pc = "L1_TIMELOCK"
  BY <1>1, <1>3, <1>6 DEF From, FitsRun, TimelockStages
<1>7. CASE run[c].pc = "RETRYABLE_EXECUTED"
  BY <1>1, <1>3, <1>7 DEF From, FitsRun, TimelockStages
<1> QED BY <1>4, <1>5, <1>6, <1>7 DEF TimelockStages

\* Where the pipeline goes after a stage.
LEMMA StepsOfPipeline ==
  ASSUME NEW r \in Run, NEW stages, NEW s \in StageType, NEW continue \in BOOLEAN
  PROVE  LET next == NextStep(r, stages, s, continue)
         IN  /\ next \notin {"discover", "loadLinked", "saveLinked", "PROPOSAL_CREATED"}
             /\ s \in ParentStages => \/ next \in {"VOTING_ACTIVE", "PROPOSAL_QUEUED"}
                                      \/ next = "L2_TIMELOCK" /\ stages["PROPOSAL_QUEUED"].status = "COMPLETED"
                                      \/ next = SaveStep(r)
             /\ s \in TimelockStages /\ ~continue => next = SaveStep(r)
             /\ s = "L2_TIMELOCK" /\ continue => next = "L2_TO_L1_MESSAGE"
             /\ s = "L2_TO_L1_MESSAGE" /\ continue => next = "L1_TIMELOCK"
             /\ s = "L1_TIMELOCK" /\ continue => next = "RETRYABLE_EXECUTED"
             /\ s = "RETRYABLE_EXECUTED" => next = SaveStep(r)
BY DEF NextStep, SaveStep, StageType, ParentStages, TimelockStages

\* A step of the pipeline keeps what the call remembers if it takes back nothing that
\* is done, and if a call that follows the operation afresh goes on from a COMPLETED
\* stage only, and stops only where everything is found that is done.
LEMMA RememberedReturn ==
  ASSUME Earned, Ordered, FollowedThrough, Remembered, NEW c \in Callers,
         NEW s \in StageType, run[c].pc = s,
         NEW stages \in StageList, NEW continue \in BOOLEAN, Return(c, s, stages, continue),
         Definite(stages),
         Same(run[c].stages, ParentStages, stages), Within(run[c].stages, TimelockStages, stages),
         s \in ParentStages => \A t \in TimelockStages : stages[t] = run[c].stages[t],
         s \in TimelockStages /\ Afresh(run[c]) /\ continue =>
           /\ s # "RETRYABLE_EXECUTED" /\ stages[s].status = "COMPLETED"
           /\ \A t \in StageType \ {s} : stages[t] = run[c].stages[t],
         s \in TimelockStages /\ Afresh(run[c]) /\ ~continue =>
           Within(cache["operation"].stages, TimelockStages, stages)
  PROVE  Remembered'
<1>1. PICK r \in Run : r = run[c]
  BY RunFact
<1> DEFINE next == NextStep(r, stages, s, continue)
           new  == [r EXCEPT !.stages = stages, !.pc = next]
           old  == cache["operation"].stages
<1>2. /\ run' = [run EXCEPT ![c] = new] /\ UNCHANGED <<chainVars, cache, faults>>
      /\ new.stages = stages /\ new.pc = next /\ new.loaded = r.loaded /\ new.entry = r.entry
      /\ new.input = r.input
  BY <1>1 DEF Return, Run
<1>3. Remembers(r, cache) /\ DefiniteRun(r) /\ r.pc = s /\ r.pc \notin {"idle", "discover"}
  BY <1>1, KnownFact DEF StageType, ParentStages, TimelockStages
<1>4. DefiniteRun(new)
  BY <1>2, <1>3 DEF DefiniteRun
<1>5. Within(old, TimelockStages, stages) \/ Afresh(new)
  <2>1. CASE Within(old, TimelockStages, r.stages)
    BY <1>1, <2>1 DEF Within
  <2>2. CASE Afresh(r) /\ s \in ParentStages
    <3>1. /\ isGovernorRun(r) /\ SaveStep(r) = "saveParent" /\ isGovernorRun(new)
      BY <1>2, <1>3, <2>2 DEF Afresh, isGovernorRun, SaveStep
    <3>2. \/ next \in {"VOTING_ACTIVE", "PROPOSAL_QUEUED", "saveParent"}
          \/ next = "L2_TIMELOCK" /\ stages["PROPOSAL_QUEUED"].status = "COMPLETED"
      BY <2>2, <3>1, StepsOfPipeline
    <3>3. From(next) = TimelockStages
      BY <3>2 DEF From
    <3>4. NoneOf(TimelockStages, stages)
      <4>1. NoneOf(TimelockStages, r.stages)
        BY <1>3, <2>2 DEF Afresh, From, ParentStages
      <4> QED BY <1>1, <2>2, <4>1 DEF NoneOf
    <3> HIDE DEF new, next
    <3> QED BY <1>2, <3>1, <3>2, <3>3, <3>4 DEF Afresh
  <2>3. CASE Afresh(r) /\ s \in TimelockStages /\ continue
    <3>1. /\ s # "RETRYABLE_EXECUTED" /\ stages[s].status = "COMPLETED"
          /\ \A t \in StageType \ {s} : stages[t] = r.stages[t]
      BY <1>1, <2>3
    <3>2. \/ s = "L2_TIMELOCK" /\ next = "L2_TO_L1_MESSAGE"
          \/ s = "L2_TO_L1_MESSAGE" /\ next = "L1_TIMELOCK"
          \/ s = "L1_TIMELOCK" /\ next = "RETRYABLE_EXECUTED"
      <4>1. s \in {"L2_TIMELOCK", "L2_TO_L1_MESSAGE", "L1_TIMELOCK"}
        BY <2>3, <3>1 DEF TimelockStages
      <4>2. /\ s = "L2_TIMELOCK" => next = "L2_TO_L1_MESSAGE"
            /\ s = "L2_TO_L1_MESSAGE" => next = "L1_TIMELOCK"
            /\ s = "L1_TIMELOCK" => next = "RETRYABLE_EXECUTED"
        BY <2>3 DEF NextStep, ParentStages
      <4> HIDE DEF next
      <4> QED BY <4>1, <4>2
    <3>3. isGovernorRun(new)
      BY <1>2, <1>3, <2>3 DEF Afresh, isGovernorRun
    <3>4. From(next) \subseteq From(s) /\ s \notin From(next) /\ From(next) \subseteq StageType
      BY <3>2 DEF From, StageType, TimelockStages
    <3>5. NoneOf(From(next), stages)
      <4>1. NoneOf(From(s), r.stages)
        BY <1>3, <2>3 DEF Afresh
      <4> QED BY <3>1, <3>4, <4>1 DEF NoneOf
    <3> HIDE DEF new, next
    <3> QED BY <1>2, <3>1, <3>2, <3>3, <3>5 DEF Afresh
  <2>4. CASE Afresh(r) /\ s \in TimelockStages /\ ~continue
    BY <1>1, <2>4
  <2> QED BY <1>3, <2>1, <2>2, <2>3, <2>4 DEF Remembers, StageType
<1>6. r.entry = "proposal" => Same(cache["proposal"].stages, ParentStages, stages)
  <2>1. r.entry = "proposal" => Same(cache["proposal"].stages, ParentStages, r.stages)
    BY <1>3 DEF Remembers, StageType, ParentStages, TimelockStages
  <2> QED BY <1>1, <2>1 DEF Same
<1>7. next # "discover"
  BY StepsOfPipeline
<1>8. Same(cache[r.entry].stages, StageType, r.loaded.stages)
  BY <1>3 DEF Remembers, MayThrow
<1>9. Remembers(new, cache)
  <2> HIDE DEF new, next
  <2> QED BY <1>2, <1>3, <1>5, <1>6, <1>7, <1>8 DEF Remembers
<1> HIDE DEF new
<1> QED BY <1>2, <1>4, <1>9, RememberedRunStep

\* A tracker that sets its own stage.
LEMMA RememberedAdd ==
  ASSUME Earned, Ordered, FollowedThrough, Remembered, NEW c \in Callers,
         NEW s \in StageType, Tracking(c, s), NEW stage \in TrackedStage, NEW continue \in BOOLEAN,
         addStage(c, s, stage, continue), DefiniteStage(s, stage),
         s \in TimelockStages /\ continue => s # "RETRYABLE_EXECUTED" /\ stage.status = "COMPLETED",
         s \in TimelockStages /\ Afresh(run[c]) /\ ~continue =>
           /\ isStageSuccess(cache["operation"].stages[s].status) => isStageSuccess(stage.status)
           /\ \A t \in From(s) \ {s} : ~isStageSuccess(cache["operation"].stages[t].status)
  PROVE  Remembered'
<1> DEFINE old    == run[c].stages
           stages == [old EXCEPT ![s] = stage]
<1>1. old \in StageList /\ run[c].pc = s /\ ~isStageSuccess(old[s].status) /\ Definite(old)
  BY KnownFact DEF Tracking, DefiniteRun
<1>2. stages \in StageList /\ stages[s] = stage /\ \A t \in StageType \ {s} : stages[t] = old[t]
  BY <1>1 DEF StageList
<1>3. Return(c, s, stages, continue)
  BY DEF addStage
<1>4. ParentStages \subseteq StageType /\ TimelockStages \subseteq StageType
      /\ ParentStages \cap TimelockStages = {}
  BY DEF StageType, ParentStages, TimelockStages
<1> HIDE DEF stages
<1>5. Definite(stages)
  BY <1>1, <1>2 DEF Definite
<1>6. Same(old, ParentStages, stages) /\ Within(old, TimelockStages, stages)
  BY <1>1, <1>2, <1>4 DEF Same, Within
<1>7. ASSUME s \in TimelockStages, Afresh(run[c]), ~continue
      PROVE  Within(cache["operation"].stages, TimelockStages, stages)
  <2>1. \A t \in TimelockStages : t \notin From(s) => isStageSuccess(old[t].status)
    BY <1>1, <1>7, BehindIsDone
  <2> QED BY <1>1, <1>2, <1>4, <1>7, <2>1 DEF Within
<1> QED BY <1>1, <1>2, <1>3, <1>4, <1>5, <1>6, <1>7, RememberedReturn

\* A tracker that leaves the list alone, which no call that is afresh meets.
LEMMA RememberedSame ==
  ASSUME Earned, Ordered, FollowedThrough, Remembered, NEW c \in Callers,
         NEW s \in StageType, run[c].pc = s, NEW continue \in BOOLEAN,
         Return(c, s, run[c].stages, continue), s \in TimelockStages => ~Afresh(run[c])
  PROVE  Remembered'
<1>1. run[c].stages \in StageList /\ Definite(run[c].stages)
  BY KnownFact DEF DefiniteRun
<1>2. \A part : Same(run[c].stages, part, run[c].stages) /\ Within(run[c].stages, part, run[c].stages)
  BY DEF Same, Within
<1> QED BY <1>1, <1>2, RememberedReturn

-----------------------------------------------------------------------------
(* What exact reads find again.                                            *)

\* A timelock stage is settled by its status.
LEMMA DefiniteTimelockStage ==
  ASSUME NEW s \in {"L2_TIMELOCK", "L1_TIMELOCK"}, NEW state, NEW executed \in BOOLEAN,
         state \in {"none", "pending", "ready", "done"}
  PROVE  DefiniteStage(s, TimelockStage(state, executed))
BY DEF DefiniteStage, TimelockStage, Stage, Linked, NotStarted

\* An operation that was executed is found with its transaction.
LEMMA ExecutionIsFound ==
  ASSUME ~Lag, ChainTypeOK, NEW scheduled \in Nat, NEW ready \in Nat, NEW done \in Nat, NEW canceled,
         scheduled <= ready, ready <= done, NEW executed \in Found(done), Since(done), fate # canceled
  PROVE  TimelockStage(operationStateOf(Current, scheduled, ready, done, canceled), executed)
           = Linked("COMPLETED")
<1>1. phase \in Nat /\ Current.at = phase /\ Current.fate = fate
  BY ExactReads DEF Current
<1>2. operationStateOf(Current, scheduled, ready, done, canceled) = "done"
  BY <1>1 DEF operationStateOf, Since
<1>3. executed
  BY ExactReads DEF Since
<1> QED BY <1>2, <1>3 DEF TimelockStage

\* The stages of the operation's checkpoint that are done, and what they tell.
LEMMA DoneInCache ==
  ASSUME Earned, Ordered, FollowedThrough, Remembered
  PROVE  LET done(s) == isStageSuccess(cache["operation"].stages[s].status)
         IN  /\ done("L2_TIMELOCK") => Since(L2Executed) /\ fate # "Canceled"
             /\ done("L2_TO_L1_MESSAGE") => /\ done("L2_TIMELOCK")
                                            /\ route \notin {"l2Only", "noMessage"} => Since(OutboxDone)
             /\ done("L1_TIMELOCK") => /\ done("L2_TO_L1_MESSAGE") /\ route # "noMessage"
                                       /\ route # "l2Only" => Since(L1Executed) /\ fate # "L1Canceled"
             /\ done("RETRYABLE_EXECUTED") => /\ done("L1_TIMELOCK")
                                              /\ route = "roundTrip" => Since(Redeemed)
<1> DEFINE x == cache["operation"].stages
<1>1. /\ x \in StageList /\ Justified(x) /\ StagesInOrder(x) /\ Followed(x, "idle") /\ Definite(x)
      /\ FatesAreSound
  BY CacheFact DEF CacheKey, Ordered, FitsKey, FollowedThrough, FollowedCheckpoint,
                   Remembered, DefiniteCheckpoint
<1> HIDE DEF x
<1>2. /\ isStageSuccess(x["L2_TIMELOCK"].status) => Since(L2Executed) /\ fate # "Canceled"
      /\ isStageSuccess(x["L2_TO_L1_MESSAGE"].status) =>
           /\ isStageSuccess(x["L2_TIMELOCK"].status)
           /\ route \notin {"l2Only", "noMessage"} => Since(OutboxDone)
      /\ isStageSuccess(x["L1_TIMELOCK"].status) =>
           /\ isStageSuccess(x["L2_TO_L1_MESSAGE"].status) /\ route # "noMessage"
           /\ route # "l2Only" => Since(L1Executed) /\ fate # "L1Canceled"
      /\ isStageSuccess(x["RETRYABLE_EXECUTED"].status) =>
           /\ isStageSuccess(x["L1_TIMELOCK"].status) /\ (route = "roundTrip" => Since(Redeemed))
  BY <1>1, DoneMeans
<1> QED BY <1>2 DEF x

\* What a call that is afresh at a timelock stage has.
LEMMA AfreshFact ==
  ASSUME Earned, Ordered, FollowedThrough, Remembered, NEW c \in Callers,
         run[c].pc \in TimelockStages, Afresh(run[c])
  PROVE  /\ run[c].stages[run[c].pc] = NotStarted
         /\ run[c].pc = "L2_TIMELOCK" => operationKnown(run[c]) /\ callScheduledDataKnown(run[c])
         /\ run[c].pc = "L2_TO_L1_MESSAGE" => follows(run[c], "L2_TIMELOCK")
         /\ run[c].pc = "L1_TIMELOCK" => follows(run[c], "L2_TO_L1_MESSAGE") /\ Since(OutboxDone)
         /\ run[c].pc = "RETRYABLE_EXECUTED" => follows(run[c], "L1_TIMELOCK") /\ Since(L1Executed)
<1> DEFINE r == run[c]
           x == r.stages
<1>1. /\ x \in StageList /\ FitsRun(r) /\ StagesInOrder(x) /\ Followed(x, r.pc) /\ Definite(x)
      /\ FatesAreSound
  BY KnownFact DEF DefiniteRun
<1>2. isGovernorRun(r) /\ r.pc \in From(r.pc)
  BY DEF Afresh, From, TimelockStages
<1>3. r.pc = "L2_TIMELOCK" => operationKnown(r) /\ callScheduledDataKnown(r)
  <2>1. r.pc = "L2_TIMELOCK" => x["PROPOSAL_QUEUED"].link
    BY <1>1 DEF Afresh, Definite, DefiniteStage, StageType, ParentStages
  <2> QED BY <1>2, <2>1 DEF operationKnown, callScheduledDataKnown
<1>4. \A s \in {"L2_TIMELOCK", "L2_TO_L1_MESSAGE", "L1_TIMELOCK"} :
        x[s].status = "COMPLETED" => follows(r, s)
  BY <1>1 DEF Followed, follows, Linked, StageList, TrackedStage, StageType, TimelockStages
<1>5. r.pc = "L2_TO_L1_MESSAGE" => x["L2_TIMELOCK"].status = "COMPLETED"
  BY <1>1, DoneIsDone DEF FitsRun
<1>6. /\ r.pc = "L1_TIMELOCK" => x["L2_TO_L1_MESSAGE"].status = "COMPLETED"
      /\ r.pc = "RETRYABLE_EXECUTED" => x["L1_TIMELOCK"].status = "COMPLETED"
  BY DEF Afresh
<1> QED BY <1>2, <1>3, <1>4, <1>5, <1>6, DoneIsDone DEF Afresh, NoneOf

-----------------------------------------------------------------------------
(* The steps of the pipeline.                                              *)

\* What is stored and done is not tracked again.
LEMMA RememberedCachedStage ==
  ASSUME Earned, Ordered, FollowedThrough, Remembered, NEW c \in Callers, UseCachedStage(c)
  PROVE  Remembered'
<1>1. PICK s \in StageType :
        /\ run[c].pc = s /\ isStageSuccess(run[c].stages[s].status)
        /\ Return(c, s, run[c].stages, s = "L2_TIMELOCK" => operationKnown(run[c]))
  BY DEF UseCachedStage
<1> DEFINE continue == s = "L2_TIMELOCK" => operationKnown(run[c])
<1>2. continue \in BOOLEAN /\ Return(c, s, run[c].stages, continue)
  BY <1>1
<1>3. s \in TimelockStages => ~Afresh(run[c])
  BY <1>1, AfreshFact, NotStartedFact
<1> HIDE DEF continue
<1> QED BY <1>1, <1>2, <1>3, RememberedSame

\* The stages of the governor do not touch those of the timelocks.
LEMMA RememberedGovernorStage ==
  ASSUME ~Lag, Earned, Ordered, FollowedThrough, Remembered, NEW c \in Callers,
         trackProposalCreatedStage(c) \/ trackVotingStage(c) \/ trackProposalQueuedStage(c)
  PROVE  Remembered'
<1>p. /\ ParentStages \subseteq StageType /\ ParentStages \cap TimelockStages = {}
      /\ {"PROPOSAL_CREATED", "VOTING_ACTIVE", "PROPOSAL_QUEUED"} = ParentStages
      /\ \A st \in StageStatus : Stage(st) \in TrackedStage /\ Stage(st).link = FALSE /\ Stage(st).status = st
      /\ NotStarted \in TrackedStage
  BY StageIsTracked DEF StageType, ParentStages, TimelockStages, Stage, NotStarted, StageStatus
<1>a. ASSUME NEW s \in ParentStages, Tracking(c, s), NEW stage \in TrackedStage, NEW continue \in BOOLEAN,
             addStage(c, s, stage, continue), DefiniteStage(s, stage)
      PROVE  Remembered'
  BY <1>a, <1>p, RememberedAdd
<1>1. CASE trackProposalCreatedStage(c)
  <2>1. Tracking(c, "PROPOSAL_CREATED") /\ "PROPOSAL_CREATED" \in ParentStages
    BY <1>1, <1>p DEF trackProposalCreatedStage
  <2>2. CASE Stop(c, "PROPOSAL_CREATED")
    BY <1>p, <2>1, <2>2, RememberedSame DEF Stop, Tracking
  <2>3. ASSUME NEW found \in Found(Created),
               addStage(c, "PROPOSAL_CREATED", IF found THEN Stage("COMPLETED") ELSE NotStarted, found)
        PROVE  Remembered'
    <3> DEFINE stage == IF found THEN Stage("COMPLETED") ELSE NotStarted
    <3>1. found \in BOOLEAN /\ stage \in TrackedStage /\ stage.link = FALSE
      BY <1>p, NotStartedFact DEF Found, StageStatus
    <3>2. DefiniteStage("PROPOSAL_CREATED", stage)
      BY <3>1 DEF DefiniteStage
    <3>3. addStage(c, "PROPOSAL_CREATED", stage, found)
      BY <2>3
    <3> HIDE DEF stage
    <3> QED BY <1>a, <2>1, <3>1, <3>2, <3>3
  <2> QED BY <1>1, <2>2, <2>3 DEF trackProposalCreatedStage
<1>2. CASE trackVotingStage(c)
  <2>1. PICK state \in getProposalState :
          /\ Tracking(c, "VOTING_ACTIVE")
          /\ addStage(c, "VOTING_ACTIVE", Stage(VotingStatus(state)), VotingStatus(state) = "COMPLETED")
    BY <1>2 DEF trackVotingStage
  <2> DEFINE stage == Stage(VotingStatus(state))
             continue == VotingStatus(state) = "COMPLETED"
  <2>2. VotingStatus(state) \in StageStatus
    BY RunFact, VotingStageIsTrue
  <2>3. stage \in TrackedStage /\ DefiniteStage("VOTING_ACTIVE", stage) /\ continue \in BOOLEAN
    BY <1>p, <2>2 DEF DefiniteStage
  <2>4. addStage(c, "VOTING_ACTIVE", stage, continue)
    BY <2>1
  <2> HIDE DEF stage, continue
  <2> QED BY <1>a, <1>p, <2>1, <2>3, <2>4
<1>3. CASE trackProposalQueuedStage(c)
  <2>1. PICK state \in getProposalState, event \in Found(Queued), receipt \in Found(Queued) :
          /\ Tracking(c, "PROPOSAL_QUEUED")
          /\ addStage(c, "PROPOSAL_QUEUED", QueuedStage(state, event, receipt), TRUE)
    BY <1>3 DEF trackProposalQueuedStage
  <2>2. event = receipt /\ event \in BOOLEAN
    <3>1. ChainTypeOK /\ Queued \in Nat
      BY RunFact, MilestonesFact
    <3> QED BY <3>1, ExactReads DEF Found
  <2>3. /\ QueuedStage(state, event, receipt) \in TrackedStage
        /\ DefiniteStage("PROPOSAL_QUEUED", QueuedStage(state, event, receipt))
    <3>1. state \in {"Pending", "Active", "Succeeded", "Queued", "Executed", "Defeated", "Canceled"}
      BY RunFact, ProposalStateIsTrue
    <3> QED BY <2>2, <3>1 DEF QueuedStage, DefiniteStage, Stage, Linked, NotStarted, TrackedStage, StageStatus
  <2> QED BY <1>a, <1>p, <2>1, <2>3
<1> QED BY <1>1, <1>2, <1>3

\* The L2 timelock: a call that is afresh knows the operation, and goes on if it was
\* ever seen executed.
LEMMA RememberedL2Timelock ==
  ASSUME ~Lag, Earned, Ordered, FollowedThrough, Remembered, NEW c \in Callers, trackL2TimelockStage(c)
  PROVE  Remembered'
<1>1. Tracking(c, "L2_TIMELOCK") /\ "L2_TIMELOCK" \in StageType /\ "L2_TIMELOCK" \in TimelockStages
      /\ run[c].pc = "L2_TIMELOCK"
  BY DEF trackL2TimelockStage, Tracking, StageType, TimelockStages
<1>2. CASE ~(operationKnown(run[c]) /\ callScheduledDataKnown(run[c])) /\ Stop(c, "L2_TIMELOCK")
  <2>1. ~Afresh(run[c])
    BY <1>1, <1>2, AfreshFact
  <2> QED BY <1>1, <1>2, <2>1, RememberedSame DEF Stop
<1>3. ASSUME NEW state \in l2OperationState, NEW executed \in Found(L2Executed),
             addStage(c, "L2_TIMELOCK", TimelockStage(state, executed), TimelockStage(state, executed).link)
      PROVE  Remembered'
  <2> DEFINE stage == TimelockStage(state, executed)
  <2>0. ChainTypeOK /\ Views = {Current}
    BY RunFact, ExactReads
  <2>1. state = operationStateOf(Current, Queued, L2Ready, L2Executed, "Canceled")
        /\ state \in {"none", "pending", "ready", "done"} /\ executed \in BOOLEAN
    BY <2>0, OperationStates DEF l2OperationState, Found
  <2>2. Queued \in Nat /\ L2Ready \in Nat /\ L2Executed \in Nat /\ Queued <= L2Ready /\ L2Ready <= L2Executed
    BY MilestonesFact
  <2>3. /\ stage \in TrackedStage /\ stage.link \in BOOLEAN /\ DefiniteStage("L2_TIMELOCK", stage)
        /\ stage.link => stage.status = "COMPLETED"
    BY <2>1, TimelockStageFact, DefiniteTimelockStage
  <2>4. Since(L2Executed) /\ fate # "Canceled" => stage.link
    BY <2>0, <2>1, <2>2, ExecutionIsFound DEF Linked
  <2>5. addStage(c, "L2_TIMELOCK", stage, stage.link)
    BY <1>3
  <2> HIDE DEF stage
  <2>6. ~stage.link => \A t \in From("L2_TIMELOCK") : ~isStageSuccess(cache["operation"].stages[t].status)
    BY <2>4, DoneInCache DEF From, TimelockStages
  <2>7. "L2_TIMELOCK" \in From("L2_TIMELOCK")
    BY DEF From, TimelockStages
  <2> QED BY <1>1, <2>3, <2>5, <2>6, <2>7, RememberedAdd
<1> QED BY <1>2, <1>3 DEF trackL2TimelockStage

\* The message: skipped with all that follows, skipped for good, or found executed.
LEMMA RememberedMessage ==
  ASSUME ~Lag, Earned, Ordered, FollowedThrough, Remembered, NEW c \in Callers, trackL2ToL1MessageStage(c)
  PROVE  Remembered'
<1> DEFINE x == run[c].stages
<1>1. Tracking(c, "L2_TO_L1_MESSAGE") /\ "L2_TO_L1_MESSAGE" \in StageType /\ "L2_TO_L1_MESSAGE" \in TimelockStages
      /\ run[c].pc = "L2_TO_L1_MESSAGE"
  BY DEF trackL2ToL1MessageStage, Tracking, StageType, TimelockStages
<1>2. CASE ~needsL1 /\ Return(c, "L2_TO_L1_MESSAGE", L1RoundTripSkipped(x), FALSE)
  <2> DEFINE stages == L1RoundTripSkipped(x)
  <2>1. x \in StageList /\ Definite(x) /\ FitsRun(run[c]) /\ Stage("SKIPPED").status = "SKIPPED"
        /\ Stage("SKIPPED").link = FALSE
    BY KnownFact DEF DefiniteRun, Stage
  <2>2. stages \in StageList
    BY <2>1 DEF L1RoundTripSkipped, StageList, TrackedStage, Stage, StageStatus
  <2>3. \A t \in StageType : stages[t] = IF t \in {"L2_TO_L1_MESSAGE", "L1_TIMELOCK", "RETRYABLE_EXECUTED"}
                                         THEN Stage("SKIPPED") ELSE x[t]
    BY DEF L1RoundTripSkipped
  <2> HIDE DEF stages
  <2>4. Definite(stages)
    BY <2>1, <2>3 DEF Definite, DefiniteStage
  <2>5. Same(x, ParentStages, stages)
    BY <2>3 DEF Same, StageType, ParentStages
  <2>6. \A t \in TimelockStages : isStageSuccess(stages[t].status)
    BY <1>1, <2>1, <2>3 DEF FitsRun, isStageSuccess, StageType, TimelockStages
  <2>7. \A y : Within(y, TimelockStages, stages)
    BY <2>6 DEF Within
  <2>8. "L2_TO_L1_MESSAGE" \notin ParentStages
    BY DEF ParentStages
  <2> QED BY <1>1, <1>2, <2>2, <2>4, <2>5, <2>7, <2>8, RememberedReturn DEF stages
<1>3. CASE Stop(c, "L2_TO_L1_MESSAGE") /\ (~follows(run[c], "L2_TIMELOCK") \/ x["L2_TO_L1_MESSAGE"].status = "PENDING")
  <2>1. ~Afresh(run[c])
    BY <1>1, <1>3, AfreshFact, NotStartedFact
  <2> QED BY <1>1, <1>3, <2>1, RememberedSame DEF Stop
<1>4. ASSUME needsL1, NEW receipt \in Found(L2Executed), NEW status \in messageStatus, NEW event \in Found(OutboxDone),
             addStage(c, "L2_TO_L1_MESSAGE", MessageStage(receipt, status, event),
                      MessageStage(receipt, status, event).status = "COMPLETED")
      PROVE  Remembered'
  <2> DEFINE stage == MessageStage(receipt, status, event)
             continue == stage.status = "COMPLETED"
  <2>0. ChainTypeOK /\ Views = {Current} /\ phase \in Nat /\ Current.at = phase
    BY RunFact, ExactReads DEF Current
  <2>1. stage \in TrackedStage /\ continue \in BOOLEAN
    BY <2>0, MessageStageIsTrue
  <2>2. receipt \in BOOLEAN /\ event \in BOOLEAN /\ status \in {"UNCONFIRMED", "CONFIRMED", "EXECUTED"}
    BY <2>0, MessageStatusIsTrue DEF Found
  <2>3. DefiniteStage("L2_TO_L1_MESSAGE", stage)
    BY <2>2 DEF DefiniteStage, MessageStage, Stage, Linked, NotStarted
  <2>4. /\ Since(L2Executed) => receipt
        /\ Since(OutboxDone) => receipt /\ event /\ status = "EXECUTED"
    <3>1. /\ Since(L2Executed) => receipt
          /\ Since(OutboxDone) => event
      BY <2>0, MilestonesFact, ExactReads DEF Since
    <3>2. Since(OutboxDone) => Since(L2Executed)
      BY <2>0, MilestonesFact DEF Since
    <3>3. status = messageStatusOf(Current)
      BY <2>0 DEF messageStatus
    <3>4. Since(OutboxDone) => messageStatusOf(Current) = "EXECUTED"
      BY <2>0, MilestonesFact DEF Since, messageStatusOf
    <3> QED BY <3>1, <3>2, <3>3, <3>4
  <2>5. /\ Since(OutboxDone) /\ route # "noMessage" => continue
        /\ Since(L2Executed) /\ route = "noMessage" => isStageSuccess(stage.status)
    BY <2>4 DEF MessageStage, Stage, Linked, isStageSuccess
  <2>6. addStage(c, "L2_TO_L1_MESSAGE", stage, continue)
    BY <1>4
  <2> HIDE DEF stage
  <2>7. ~continue =>
          /\ isStageSuccess(cache["operation"].stages["L2_TO_L1_MESSAGE"].status) => isStageSuccess(stage.status)
          /\ \A t \in From("L2_TO_L1_MESSAGE") \ {"L2_TO_L1_MESSAGE"} :
               ~isStageSuccess(cache["operation"].stages[t].status)
    BY <1>4, <2>5, DoneInCache DEF From, needsL1
  <2>8. continue => stage.status = "COMPLETED"
    OBVIOUS
  <2> HIDE DEF continue
  <2> QED BY <1>1, <2>1, <2>3, <2>6, <2>7, <2>8, RememberedAdd
<1> QED BY <1>2, <1>3, <1>4 DEF trackL2ToL1MessageStage

\* The L1 timelock, as the L2 timelock.
LEMMA RememberedL1Timelock ==
  ASSUME ~Lag, Earned, Ordered, FollowedThrough, Remembered, NEW c \in Callers, trackL1TimelockStage(c)
  PROVE  Remembered'
<1>1. Tracking(c, "L1_TIMELOCK") /\ "L1_TIMELOCK" \in StageType /\ "L1_TIMELOCK" \in TimelockStages
      /\ run[c].pc = "L1_TIMELOCK"
  BY DEF trackL1TimelockStage, Tracking, StageType, TimelockStages
<1>2. PICK receipt \in Found(OutboxDone), state \in l1OperationState, executed \in Found(L1Executed) :
        LET discovered == follows(run[c], "L2_TO_L1_MESSAGE") /\ receipt
            stage      == IF discovered THEN TimelockStage(state, executed) ELSE NotStarted
        IN  addStage(c, "L1_TIMELOCK", stage, stage.link)
  BY DEF trackL1TimelockStage
<1> DEFINE known == TimelockStage(state, executed)
           stage == IF follows(run[c], "L2_TO_L1_MESSAGE") /\ receipt THEN known ELSE NotStarted
<1>3. addStage(c, "L1_TIMELOCK", stage, stage.link)
  BY <1>2
<1>4. ChainTypeOK /\ Views = {Current}
  BY RunFact, ExactReads
<1>5. state = operationStateOf(Current, OutboxDone, L1Ready, L1Executed, "L1Canceled")
      /\ state \in {"none", "pending", "ready", "done"} /\ executed \in BOOLEAN
  BY <1>4, OperationStates DEF l1OperationState, Found
<1>6. OutboxDone \in Nat /\ L1Ready \in Nat /\ L1Executed \in Nat /\ OutboxDone <= L1Ready /\ L1Ready <= L1Executed
  BY MilestonesFact
<1>7. /\ known \in TrackedStage /\ known.link \in BOOLEAN /\ DefiniteStage("L1_TIMELOCK", known)
      /\ known.link => known.status = "COMPLETED"
  BY <1>5, TimelockStageFact, DefiniteTimelockStage
<1>8. Since(L1Executed) /\ fate # "L1Canceled" => known.link
  BY <1>4, <1>5, <1>6, ExecutionIsFound DEF Linked
<1> HIDE DEF known
<1>9. /\ stage \in TrackedStage /\ stage.link \in BOOLEAN /\ DefiniteStage("L1_TIMELOCK", stage)
      /\ stage.link => stage.status = "COMPLETED"
  BY <1>7, NotStartedFact DEF NotStarted, Stage, TrackedStage, StageStatus
<1>10. Afresh(run[c]) /\ Since(L1Executed) /\ fate # "L1Canceled" => stage.link
  <2>1. Since(OutboxDone) => receipt
    BY <1>4, <1>6, ExactReads DEF Since
  <2> QED BY <1>1, <1>8, <2>1, AfreshFact
<1> HIDE DEF stage
<1>11. Afresh(run[c]) /\ ~stage.link =>
         \A t \in From("L1_TIMELOCK") : ~isStageSuccess(cache["operation"].stages[t].status)
  <2>1. Afresh(run[c]) => route # "l2Only"
    <3>1. phase \in Nat /\ phase <= FinalPhase(route)
      BY DEF Earned, TypeOK, ChainTypeOK, ChainIsSound, Phases, Created, Redeemed
    <3> QED BY <1>1, <3>1, AfreshFact, MilestonesFact DEF FinalPhase, Since
  <2> QED BY <1>10, <2>1, DoneInCache DEF From
<1>12. "L1_TIMELOCK" \in From("L1_TIMELOCK")
  BY DEF From
<1> QED BY <1>1, <1>3, <1>9, <1>11, <1>12, RememberedAdd

\* The tickets: a redemption that was found once is found again.
LEMMA RememberedRetryables ==
  ASSUME ~Lag, Earned, Ordered, FollowedThrough, Remembered, NEW c \in Callers, trackRetryablesStage(c)
  PROVE  Remembered'
<1>1. Tracking(c, "RETRYABLE_EXECUTED") /\ "RETRYABLE_EXECUTED" \in StageType
      /\ "RETRYABLE_EXECUTED" \in TimelockStages /\ run[c].pc = "RETRYABLE_EXECUTED"
  BY DEF trackRetryablesStage, Tracking, StageType, TimelockStages
<1>2. CASE ~follows(run[c], "L1_TIMELOCK") /\ Stop(c, "RETRYABLE_EXECUTED")
  <2>1. ~Afresh(run[c])
    BY <1>1, <1>2, AfreshFact
  <2> QED BY <1>1, <1>2, <2>1, RememberedSame DEF Stop
<1>3. ASSUME NEW receipt \in Found(L1Executed), NEW redeem \in redeemStatus,
             addStage(c, "RETRYABLE_EXECUTED", RetryableStage(receipt, redeem), FALSE)
      PROVE  Remembered'
  <2> DEFINE stage == RetryableStage(receipt, redeem)
  <2>0. ChainTypeOK /\ Views = {Current} /\ phase \in Nat /\ Current.at = phase
    BY RunFact, ExactReads DEF Current
  <2>1. receipt \in BOOLEAN
    BY DEF Found
  <2>2. stage \in TrackedStage /\ DefiniteStage("RETRYABLE_EXECUTED", stage)
    BY <2>1 DEF RetryableStage, DefiniteStage, Stage, TrackedStage, StageStatus
  <2>3. Since(Redeemed) => redeem = "REDEEMED"
    <3>1. redeem = redeemStatusOf(Current)
      BY <2>0 DEF redeemStatus
    <3>2. Since(Redeemed) => phase = Redeemed
      BY <2>0, MilestonesFact DEF Since, ChainTypeOK, Phases
    <3> QED BY <2>0, <3>1, <3>2 DEF redeemStatusOf
  <2>4. Afresh(run[c]) => route \in {"noTicket", "roundTrip"}
    <3>1. phase \in Nat /\ phase <= FinalPhase(route) /\ route \in Routes
      BY DEF Earned, TypeOK, ChainTypeOK, ChainIsSound, Phases, Created, Redeemed
    <3> QED BY <1>1, <3>1, AfreshFact, MilestonesFact DEF FinalPhase, Since, Routes
  <2>5. Afresh(run[c]) /\ isStageSuccess(cache["operation"].stages["RETRYABLE_EXECUTED"].status)
          => isStageSuccess(stage.status)
    BY <2>1, <2>3, <2>4, DoneInCache DEF RetryableStage, Stage, isStageSuccess
  <2>6. From("RETRYABLE_EXECUTED") \ {"RETRYABLE_EXECUTED"} = {}
    BY DEF From
  <2>7. addStage(c, "RETRYABLE_EXECUTED", stage, FALSE)
    BY <1>3
  <2> HIDE DEF stage
  <2> QED BY <1>1, <2>2, <2>5, <2>6, <2>7, RememberedAdd
<1> QED BY <1>2, <1>3 DEF trackRetryablesStage

-----------------------------------------------------------------------------
(* Starting, saving and failing.                                           *)

\* A call knows what it has just loaded.
LEMMA RememberedStart ==
  ASSUME Earned, Ordered, FollowedThrough, Remembered, NEW c \in Callers, NEW entry \in CacheKey,
         trackByTxHash(c, entry)
  PROVE  Remembered'
<1> DEFINE cp == LoadedFor(entry)
           r  == [pc |-> FirstStep(cp), entry |-> entry, loaded |-> cp, input |-> cp.input,
                  stages |-> cp.stages, opKey |-> cp.opKey, event |-> FALSE]
<1>1. \A k \in CacheKey : /\ FitsKey(k, cache[k]) /\ DefiniteCheckpoint(k, cache[k])
                           /\ cache[k] \in Checkpoint
  BY CacheFact DEF Ordered, Remembered
<1>2. \/ cp = cache[entry]
      \/ entry = "operation" /\ cp = cache["queueTx"] /\ cache["operation"].stages = NoStages
  BY <1>1 DEF LoadedFor, DefiniteCheckpoint, CacheKey
<1>3. DefiniteRun(r)
  BY <1>1, <1>2 DEF DefiniteRun, DefiniteCheckpoint, CacheKey
<1>4. /\ cp \in Checkpoint
      /\ cp.input = "none" => FirstStep(cp) = "discover" /\ cp.stages = NoStages
      /\ cp.input \in GovernorInputs => FirstStep(cp) = "loadLinked"
      /\ cp.input \in TimelockInputs => FirstStep(cp) = "L2_TIMELOCK"
      /\ cp.input \in {"none"} \cup GovernorInputs \cup TimelockInputs
  BY <1>1, <1>2 DEF FirstStep, DefiniteCheckpoint, Exists, GovernorInputs, TimelockInputs, Checkpoint, CacheKey
<1>5. entry = "queueTx" => cp.input \in {"none", "unknownGovernor"}
  BY <1>1, <1>2 DEF DefiniteCheckpoint, CacheKey
<1>6. Same(cache[entry].stages, StageType, cp.stages)
  BY <1>2, NotStartedFact DEF Same
<1>7. /\ entry = "proposal" => Same(cache["proposal"].stages, ParentStages, cp.stages)
      /\ entry = "operation" => Within(cache["operation"].stages, TimelockStages, cp.stages)
  BY <1>6 DEF Same, Within, StageType
<1>8. /\ entry # "operation" => NoneOf(TimelockStages, cp.stages)
      /\ entry # "operation" => cp.input \in {"none"} \cup GovernorInputs
  BY <1>1, <1>2, <1>5 DEF FitsKey, CacheKey, GovernorInputs
<1> DEFINE first == FirstStep(cp)
<1>9. /\ r.pc = first /\ r.entry = entry /\ r.loaded = cp /\ r.input = cp.input /\ r.stages = cp.stages
      /\ first \in {"discover", "loadLinked", "L2_TIMELOCK"}
      /\ first = "discover" <=> cp.input = "none"
      /\ first = "loadLinked" <=> cp.input \in GovernorInputs
  BY <1>4 DEF GovernorInputs, TimelockInputs
<1> HIDE DEF first, cp, r
<1>10. entry # "operation" => Afresh(r)
  <2>1. From(r.pc) = TimelockStages
    BY <1>9 DEF From
  <2> QED BY <1>8, <1>9, <2>1 DEF Afresh, isGovernorRun, GovernorInputs
<1>11. Remembers(r, cache)
  BY <1>4, <1>5, <1>6, <1>7, <1>9, <1>10, NotStartedFact DEF Remembers, CacheKey, first
<1>12. run' = [run EXCEPT ![c] = r] /\ UNCHANGED <<chainVars, cache, faults>>
  BY DEF trackByTxHash, r, cp
<1> QED BY <1>3, <1>11, <1>12, RememberedRunStep

\* A call that found its transaction starts with nothing, or with the stages of the
\* operation.
LEMMA RememberedDiscovery ==
  ASSUME Earned, Ordered, FollowedThrough, Remembered, NEW c \in Callers,
         discoverProposalByTxHash(c) \/ findCallScheduledByTxHash(c)
  PROVE  Remembered'
<1>1. PICK r \in Run : r = run[c]
  BY RunFact
<1>2. /\ r.pc = "discover" /\ DefiniteRun(r) /\ Remembers(r, cache) /\ r.stages = NoStages
      /\ UNCHANGED <<chainVars, cache, faults>>
  BY <1>1, KnownFact DEF discoverProposalByTxHash, findCallScheduledByTxHash, Remembers
<1>3. CASE run' = [run EXCEPT ![c] = IdleRun]
  BY <1>2, <1>3, DefiniteIdle, RememberedRunStep
<1>4. CASE /\ r.entry = "proposal"
           /\ run' = [run EXCEPT ![c] = [r EXCEPT !.pc = "PROPOSAL_CREATED", !.input = "governor"]]
  <2> DEFINE new == [r EXCEPT !.pc = "PROPOSAL_CREATED", !.input = "governor"]
  <2>1. /\ new.pc = "PROPOSAL_CREATED" /\ new.input = "governor" /\ new.entry = r.entry
        /\ new.loaded = r.loaded /\ new.stages = NoStages
    BY <1>2 DEF Run
  <2> HIDE DEF new
  <2>2. Afresh(new)
    BY <2>1, NotStartedFact DEF Afresh, isGovernorRun, GovernorInputs, NoneOf, From, StageType
  <2>3. DefiniteRun(new) /\ Remembers(new, cache)
    BY <1>2, <1>4, <2>1, <2>2 DEF DefiniteRun, Remembers, MayThrow
  <2> QED BY <1>2, <1>4, <2>3, RememberedRunStep DEF new
<1>5. CASE /\ r.entry # "proposal"
           /\ run' = [run EXCEPT ![c] =
                        [r EXCEPT !.pc = "L2_TIMELOCK", !.input = "timelock", !.event = TRUE,
                                  !.stages = Restricted(cache["operation"].stages, TimelockStages)]]
  <2> DEFINE stages == Restricted(cache["operation"].stages, TimelockStages)
             new == [r EXCEPT !.pc = "L2_TIMELOCK", !.input = "timelock", !.event = TRUE, !.stages = stages]
  <2>1. /\ new.pc = "L2_TIMELOCK" /\ new.input = "timelock" /\ new.entry = r.entry
        /\ new.loaded = r.loaded /\ new.stages = stages
    BY DEF Run
  <2>2. Definite(stages)
    BY KnownFact, DefiniteParts
  <2>3. Within(cache["operation"].stages, TimelockStages, stages)
    BY DEF Within, Restricted, StageType
  <2> HIDE DEF new, stages
  <2>4. DefiniteRun(new) /\ Remembers(new, cache)
    BY <1>2, <1>5, <2>1, <2>2, <2>3 DEF DefiniteRun, Remembers, MayThrow
  <2> QED BY <1>2, <1>5, <2>4, RememberedRunStep DEF new, stages
<1>6. discoverProposalByTxHash(c) => <1>3!1 \/ <1>4!1
  BY <1>1 DEF discoverProposalByTxHash
<1>7. findCallScheduledByTxHash(c) => <1>3!1 \/ <1>5!1
  BY <1>1 DEF findCallScheduledByTxHash
<1> QED BY <1>3, <1>4, <1>5, <1>6, <1>7

\* What the operation's checkpoint has as done comes into a list that has nothing of it.
LEMMA RememberedLoading ==
  ASSUME Earned, Ordered, FollowedThrough, Remembered, NEW c \in Callers, LoadLinkedTimelock(c)
  PROVE  Remembered'
<1>1. PICK r \in Run : r = run[c]
  BY RunFact
<1> DEFINE op     == cache["operation"].stages
           stages == IF r.opKey THEN Overlay(r.stages, op) ELSE r.stages
           new    == [r EXCEPT !.pc = "PROPOSAL_CREATED", !.stages = stages]
<1>2. /\ r.pc = "loadLinked" /\ DefiniteRun(r) /\ FitsRun(r) /\ Remembers(r, cache) /\ Definite(op)
      /\ UNCHANGED <<chainVars, cache, faults>> /\ run' = [run EXCEPT ![c] = new]
  BY <1>1, KnownFact DEF LoadLinkedTimelock
<1>3. /\ new.pc = "PROPOSAL_CREATED" /\ new.stages = stages /\ new.entry = r.entry
      /\ new.loaded = r.loaded /\ new.input = r.input
  BY DEF Run
<1>4. Definite(stages)
  BY <1>2, DefiniteParts DEF DefiniteRun
<1>5. NoneOf(ParentStages, op) /\ ParentStages \subseteq StageType /\ TimelockStages \subseteq StageType
  BY DEF Ordered, FitsKey, CacheKey, StageType
<1>6. \A s \in ParentStages : stages[s] = r.stages[s]
  BY <1>5, NotStartedFact DEF NoneOf, Overlay, Stored
<1>7. r.opKey => Within(op, TimelockStages, stages)
  BY <1>5 DEF Within, Overlay, Stored, isStageSuccess
<1> HIDE DEF op, stages, new
<1>8. ~r.opKey => stages = r.stages
  BY DEF stages
<1>9. Within(op, TimelockStages, stages) \/ Afresh(new)
  <2>1. From(r.pc) = TimelockStages /\ From(new.pc) = TimelockStages
    BY <1>2, <1>3 DEF From
  <2>2. Within(op, TimelockStages, r.stages) \/ Afresh(r)
    BY <1>2 DEF Remembers, op
  <2>3. Afresh(r) /\ ~r.opKey => Afresh(new)
    BY <1>2, <1>3, <1>8, <2>1 DEF Afresh, isGovernorRun
  <2> QED BY <1>7, <1>8, <2>2, <2>3
<1>10. DefiniteRun(new)
  BY <1>2, <1>3, <1>4 DEF DefiniteRun
<1>11. r.entry = "proposal" => Same(cache["proposal"].stages, ParentStages, stages)
  BY <1>2, <1>6 DEF Remembers, Same
<1>12. Same(cache[r.entry].stages, StageType, r.loaded.stages)
  BY <1>2 DEF Remembers, MayThrow
<1>13. Remembers(new, cache)
  BY <1>2, <1>3, <1>9, <1>11, <1>12 DEF Remembers, op
<1> QED BY <1>2, <1>10, <1>13, RememberedRunStep

\* A write that keeps what is done under its key keeps everything.
LEMMA KeepsDoneStep ==
  ASSUME Earned, NEW k \in CacheKey, NEW cp, Same(cache[k].stages, StageType, cp.stages),
         cache' = [cache EXCEPT ![k] = cp]
  PROVE  KeepsDone
<1>1. \A j \in CacheKey : cache'[j] = IF j = k THEN cp ELSE cache[j]
  BY DEF Earned, TypeOK
<1> QED BY <1>1 DEF KeepsDone, Same

\* The parent's stages that are done are those that were loaded, and a call that is
\* going to write the operation has loaded what is done there.
LEMMA RememberedSaveParent ==
  ASSUME OneCaller, Earned, Ordered, FollowedThrough, Remembered, NEW c \in Callers, SaveParent(c)
  PROVE  Remembered' /\ KeepsDone
<1>1. PICK r \in Run : r = run[c]
  BY RunFact
<1> DEFINE opKey  == r.opKey \/ r.stages["PROPOSAL_QUEUED"].link
           stages == Restricted(r.stages, ParentStages)
           parent == [input |-> r.input, stages |-> stages, errorCount |-> 0, opKey |-> opKey]
           linked == [r EXCEPT !.pc = "saveLinked"]
           k      == baseKey(r.entry)
<1>2. /\ r.pc = "saveParent" /\ DefiniteRun(r) /\ FitsRun(r) /\ Remembers(r, cache)
  BY <1>1, KnownFact DEF SaveParent
<1>3. /\ cache' = [cache EXCEPT ![k] = parent] /\ UNCHANGED chainVars
      /\ \/ run' = [run EXCEPT ![c] = linked] /\ hasTimelockProgress(r.stages)
         \/ run' = [run EXCEPT ![c] = IdleRun]
  BY <1>1 DEF SaveParent
<1>4. /\ r.input \in GovernorInputs
      /\ r.entry # "proposal" => r.input = "unknownGovernor"
  BY <1>2 DEF FitsRun, isGovernorRun, GovernorInputs
<1>5. k \in {"proposal", "queueTx"} /\ k \in CacheKey /\ (k = "proposal" <=> r.entry = "proposal")
  BY DEF baseKey, CacheKey
<1>6. parent.stages = stages /\ parent.input = r.input /\ Definite(stages)
  BY <1>2, DefiniteParts DEF DefiniteRun
<1>7. DefiniteCheckpoint(k, parent)
  <2> HIDE DEF parent, stages, k
  <2> QED BY <1>4, <1>5, <1>6 DEF DefiniteCheckpoint, Exists, GovernorInputs
<1>8. Same(cache[k].stages, StageType, stages)
  <2>1. FitsKey(k, cache[k])
    BY <1>5 DEF Ordered
  <2>2. \A s \in ParentStages : stages[s] = r.stages[s]
    BY DEF Restricted, StageType
  <2> HIDE DEF stages, k
  <2>3. \A s \in TimelockStages : ~isStageSuccess(cache[k].stages[s].status)
    BY <1>5, <2>1, NotStartedFact DEF FitsKey, NoneOf
  <2>4. CASE k = "proposal"
    <3>1. Same(cache["proposal"].stages, ParentStages, r.stages)
      BY <1>2, <1>5, <2>4 DEF Remembers
    <3> QED BY <2>2, <2>3, <2>4, <3>1 DEF Same, StageType
  <2>5. CASE k = "queueTx"
    <3>1. \A s \in ParentStages : ~isStageSuccess(cache[k].stages[s].status)
      BY <2>1, <2>5, NotStartedFact DEF FitsKey, NoneOf
    <3> QED BY <2>3, <3>1 DEF Same, StageType
  <2> QED BY <1>5, <2>4, <2>5
<1>9. /\ linked.pc = "saveLinked" /\ linked.stages = r.stages /\ linked.entry = r.entry
      /\ linked.loaded = r.loaded /\ linked.input = r.input
  BY DEF Run
<1>10. cache'["operation"] = cache["operation"]
  BY <1>3, <1>5 DEF Earned, TypeOK, CacheKey
<1> HIDE DEF linked, parent, stages, opKey, k
<1>11. DefiniteRun(linked)
  BY <1>2, <1>9 DEF DefiniteRun
<1>12. hasTimelockProgress(r.stages) => Remembers(linked, cache')
  <2>1. Afresh(r) => NoneOf(TimelockStages, r.stages)
    BY <1>2 DEF Afresh, From
  <2>2. hasTimelockProgress(r.stages) => ~Afresh(r)
    BY <2>1, NotStartedFact DEF hasTimelockProgress, Stored, NoneOf
  <2>3. hasTimelockProgress(r.stages) => Within(cache["operation"].stages, TimelockStages, r.stages)
    BY <1>2, <2>2 DEF Remembers
  <2> QED BY <1>2, <1>4, <1>9, <1>10, <2>3 DEF Remembers, MayThrow, StageType, ParentStages,
                                              TimelockStages, GovernorInputs
<1>13. KeepsDone
  BY <1>3, <1>5, <1>6, <1>8, KeepsDoneStep
<1>14. CASE run' = [run EXCEPT ![c] = linked] /\ hasTimelockProgress(r.stages)
  BY <1>3, <1>5, <1>7, <1>11, <1>12, <1>13, <1>14, RememberedSaveStep
<1>15. CASE run' = [run EXCEPT ![c] = IdleRun]
  BY <1>3, <1>5, <1>7, <1>13, <1>15, DefiniteIdle, RememberedSaveStep
<1> QED BY <1>3, <1>14, <1>15

\* What is done in the operation's checkpoint is done in the list that replaces it,
\* and what is done in both is the same.
LEMMA RememberedSaveTimelock ==
  ASSUME OneCaller, Earned, Ordered, FollowedThrough, Remembered, NEW c \in Callers,
         SaveLinkedTimelock(c) \/ SaveOperation(c)
  PROVE  Remembered' /\ KeepsDone
<1>1. PICK r \in Run : r = run[c]
  BY RunFact
<1> DEFINE op == cache["operation"].stages
<1>2. PICK input : /\ cache' = [cache EXCEPT !["operation"] = OperationCheckpoint(input, r.stages)]
                   /\ run' = [run EXCEPT ![c] = IdleRun] /\ UNCHANGED chainVars
                   /\ input = "timelock" \/ input = r.input
                   /\ r.pc \in {"saveLinked", "saveOperation"}
  BY <1>1 DEF SaveLinkedTimelock, SaveOperation
<1>3. /\ r.stages \in StageList /\ Justified(r.stages) /\ StagesInOrder(r.stages)
      /\ Followed(r.stages, r.pc) /\ DefiniteRun(r) /\ Remembers(r, cache)
      /\ op \in StageList /\ Justified(op) /\ StagesInOrder(op) /\ Followed(op, "idle")
      /\ Definite(op) /\ FatesAreSound /\ Definite(r.stages)
  BY <1>1, <1>2, KnownFact DEF DefiniteRun
<1>4. Within(op, TimelockStages, r.stages) /\ input # "none"
  BY <1>2, <1>3 DEF Remembers, Afresh
<1> DEFINE cp == OperationCheckpoint(input, r.stages)
<1>5. cp.stages = Restricted(r.stages, TimelockStages) /\ cp.input = input
  BY DEF OperationCheckpoint, NewCheckpoint
<1> HIDE DEF op, cp
<1>6. Same(op, TimelockStages, r.stages)
  BY <1>3, <1>4, DoneAlike
<1>7. Same(op, StageType, cp.stages)
  <2>1. NoneOf(ParentStages, op)
    BY DEF Ordered, FitsKey, CacheKey, op
  <2>2. \A s \in ParentStages : ~isStageSuccess(op[s].status)
    BY <2>1, NotStartedFact DEF NoneOf
  <2>3. \A s \in TimelockStages : cp.stages[s] = r.stages[s]
    BY <1>5 DEF Restricted, StageType
  <2> QED BY <1>6, <2>2, <2>3 DEF Same, StageType
<1>8. DefiniteCheckpoint("operation", cp)
  <2>1. Definite(cp.stages)
    BY <1>3, <1>5, DefiniteParts
  <2> QED BY <1>4, <1>5, <2>1 DEF DefiniteCheckpoint, Exists
<1>9. "operation" \in CacheKey /\ cache' = [cache EXCEPT !["operation"] = cp]
  BY <1>2 DEF CacheKey, cp
<1> QED BY <1>2, <1>7, <1>8, <1>9, DefiniteIdle, RememberedSaveStep, KeepsDoneStep DEF op

\* The error checkpoint has what was loaded; if nothing was, nothing is lost.
LEMMA RememberedError ==
  ASSUME OneCaller, Earned, Ordered, FollowedThrough, Remembered, NEW c \in Callers, SaveErrorCheckpoint(c)
  PROVE  Remembered' /\ KeepsDone
<1>1. PICK r \in Run : r = run[c]
  BY RunFact
<1> DEFINE input == IF r.entry = "operation" THEN "unknownTimelock" ELSE "unknownGovernor"
           made  == NewCheckpoint(input)
           base  == IF Exists(r.loaded) THEN r.loaded ELSE made
<1>2. /\ r.pc \in MayThrow /\ DefiniteRun(r) /\ Remembers(r, cache)
      /\ r.loaded \in Checkpoint /\ r.entry \in CacheKey
  <2>1. r.pc \in MayThrow
    BY <1>1 DEF SaveErrorCheckpoint, MayThrow
  <2> QED BY <1>1, <2>1, KnownFact DEF MayThrow, Run, StageType, ParentStages, TimelockStages
<1>3. PICK counted \in {0, 1} :
        cache' = [cache EXCEPT ![r.entry] = [base EXCEPT !.errorCount = @ + counted, !.opKey = FALSE]]
  BY <1>1 DEF SaveErrorCheckpoint
<1>4. run' = [run EXCEPT ![c] = IdleRun] /\ UNCHANGED chainVars
  BY DEF SaveErrorCheckpoint
<1>5. made \in Checkpoint /\ made.stages = NoStages /\ made.input = input
  BY NewCheckpointFact DEF GovernorInputs, TimelockInputs, NewCheckpoint
<1>6. input # "none" /\ (r.entry = "queueTx" => input = "unknownGovernor")
  OBVIOUS
<1> HIDE DEF made, input
<1>7. /\ base \in Checkpoint /\ base.stages = r.loaded.stages /\ base.input # "none"
      /\ r.entry = "queueTx" => base.input = "unknownGovernor"
  BY <1>2, <1>5, <1>6 DEF DefiniteRun, Exists, Remembers
<1> HIDE DEF base
<1> DEFINE cp == [base EXCEPT !.errorCount = @ + counted, !.opKey = FALSE]
<1>8. cp.stages = r.loaded.stages /\ cp.input = base.input
  BY <1>7 DEF Checkpoint
<1>9. cache' = [cache EXCEPT ![r.entry] = cp]
  BY <1>3
<1> HIDE DEF cp
<1>10. DefiniteCheckpoint(r.entry, cp)
  BY <1>2, <1>7, <1>8 DEF DefiniteCheckpoint, DefiniteRun, Exists
<1>11. Same(cache[r.entry].stages, StageType, cp.stages)
  BY <1>2, <1>8 DEF Remembers
<1> QED BY <1>2, <1>4, <1>9, <1>10, <1>11, DefiniteIdle, RememberedSaveStep, KeepsDoneStep

-----------------------------------------------------------------------------
(* The theorems.                                                           *)

\* The chains move, and no call or checkpoint has anything to do with it.
LEMMA RememberedChainStep ==
  ASSUME Earned, Remembered, ChainStep \/ UNCHANGED chainVars, UNCHANGED trackerVars
  PROVE  Remembered'
<1>1. phase \in Nat
  BY DEF Earned, TypeOK, ChainTypeOK, Phases, Created, Redeemed
<1>2. FatesAreSound /\ UNCHANGED cache /\ UNCHANGED run
  BY DEF Remembered, trackerVars
<1>3. FatesAreSound'
  <2>1. CASE Advance
    BY <2>1 DEF Advance, Finished, FatesAreSound
  <2>2. CASE Die
    BY <1>1, <2>2, MilestonesFact DEF Die, Deaths, Finished, FatesAreSound
  <2>3. CASE UNCHANGED chainVars
    BY <1>2, <2>3 DEF chainVars, FatesAreSound
  <2> QED BY <2>1, <2>2, <2>3 DEF ChainStep
<1> QED BY <1>2, <1>3 DEF Remembered

\* Every step keeps what calls remember and what checkpoints have as done.
LEMMA RememberedStep ==
  ASSUME ~Lag, OneCaller
  PROVE  Earned /\ Ordered /\ FollowedThrough /\ Remembered /\ [Next]_vars => Remembered' /\ KeepsDone
<1> SUFFICES ASSUME Earned, Ordered, FollowedThrough, Remembered, [Next]_vars
             PROVE  Remembered' /\ KeepsDone
  OBVIOUS
<1>0. UNCHANGED cache => KeepsDone
  BY DEF KeepsDone, Same
<1>1. CASE (ChainStep \/ UNCHANGED chainVars) /\ UNCHANGED trackerVars
  BY <1>0, <1>1, RememberedChainStep DEF trackerVars
<1>2. ASSUME NEW c \in Callers, NEW entry \in Entries, trackByTxHash(c, entry)
      PROVE  Remembered' /\ KeepsDone
  <2>1. UNCHANGED cache
    BY <1>2 DEF trackByTxHash
  <2> QED BY <1>0, <1>2, <2>1, EntriesAssumption, RememberedStart
<1>3. ASSUME NEW c \in Callers, TrackStage(c)
      PROVE  Remembered' /\ KeepsDone
  <2>1. UNCHANGED cache
    BY <1>3, StageResults DEF Return
  <2>2. Remembered'
    BY <1>3, RememberedCachedStage, RememberedGovernorStage, RememberedL2Timelock, RememberedMessage,
       RememberedL1Timelock, RememberedRetryables DEF TrackStage
  <2> QED BY <1>0, <2>1, <2>2
<1>4. ASSUME NEW c \in Callers, discoverProposalByTxHash(c) \/ findCallScheduledByTxHash(c) \/ LoadLinkedTimelock(c)
      PROVE  Remembered' /\ KeepsDone
  <2>1. UNCHANGED cache
    BY <1>4 DEF discoverProposalByTxHash, findCallScheduledByTxHash, LoadLinkedTimelock
  <2> QED BY <1>0, <1>4, <2>1, RememberedDiscovery, RememberedLoading
<1>5. ASSUME NEW c \in Callers, Continue(c)
      PROVE  Remembered' /\ KeepsDone
  BY <1>3, <1>4, <1>5, RememberedSaveParent, RememberedSaveTimelock DEF Continue
<1>6. ASSUME NEW c \in Callers, SaveErrorCheckpoint(c)
      PROVE  Remembered' /\ KeepsDone
  BY <1>6, RememberedError
<1>7. ASSUME NEW c \in Callers, Crash(c)
      PROVE  Remembered' /\ KeepsDone
  <2>1. UNCHANGED <<chainVars, cache>> /\ UNCHANGED cache /\ run' = [run EXCEPT ![c] = IdleRun]
    BY <1>7 DEF Crash
  <2>2. FatesAreSound'
    BY <2>1 DEF Remembered, FatesAreSound, chainVars
  <2>3. \A d \in Callers : run'[d] = IF d = c THEN IdleRun ELSE run[d]
    BY <2>1 DEF Earned, TypeOK
  <2>4. Remembered'
    BY <2>1, <2>2, <2>3, DefiniteIdle DEF Remembered
  <2> QED BY <1>0, <2>1, <2>4
<1> QED BY <1>1, <1>2, <1>5, <1>6, <1>7 DEF Next, vars

\* The invariant of one caller with exact reads.
LEMMA RememberedInvariant ==
  ASSUME ~Lag, OneCaller
  PROVE  Spec => [](Earned /\ Ordered /\ FollowedThrough /\ Remembered)
<1>1. Init => Remembered
  <2> SUFFICES ASSUME Init PROVE Remembered
    OBVIOUS
  <2>1. FatesAreSound
    BY DEF Init, ChainInit, FatesAreSound
  <2>2. \A k \in CacheKey : DefiniteCheckpoint(k, cache[k])
    BY NotStartedFact DEF Init, Absent, NewCheckpoint, DefiniteCheckpoint
  <2>3. \A c \in Callers : run[c] = IdleRun
    BY DEF Init
  <2> QED BY <2>1, <2>2, <2>3, DefiniteIdle DEF Remembered
<1>2. Earned /\ Ordered /\ FollowedThrough /\ Remembered /\ [Next]_vars => Remembered'
  BY RememberedStep
<1> QED BY <1>1, <1>2, FollowedInvariant, PTL DEF Spec

\* A stage that a checkpoint has as COMPLETED or SKIPPED stays so, with its transaction,
\* whichever entry point the next calls take, and wherever they throw or die: a call
\* that does not load the operation's checkpoint finds all of it again before it
\* overwrites it.
THEOREM ProgressStaysKept ==
  ASSUME ~Lag, OneCaller
  PROVE  Spec => ProgressIsKept
<1>1. Earned /\ Ordered /\ FollowedThrough /\ Remembered /\ [Next]_vars
        => [\A k \in CacheKey, s \in StageType :
              isStageSuccess(cache[k].stages[s].status)
                => cache'[k].stages[s] = cache[k].stages[s]]_vars
  BY RememberedStep DEF KeepsDone, Same
<1> QED BY <1>1, RememberedInvariant, PTL DEF Spec, ProgressIsKept

-----------------------------------------------------------------------------
(* The LifecycleObserver.                                                  *)

\* A stage that some checkpoint has as done is one the observer may see.
LEMMA RecordedIsObservable ==
  ASSUME Earned, FollowedThrough
  PROVE  Recorded \subseteq Observer!Observable
<1> SUFFICES ASSUME NEW s \in StageType, NEW k \in CacheKey, isStageSuccess(cache[k].stages[s].status)
             PROVE  Observer!CarriedOut(s) \/ Observer!Unnecessary(s)
  BY DEF Recorded, Observer!Observable, Observer!StageType, Observer!ParentStages, Observer!TimelockStages,
         StageType, ParentStages, TimelockStages
<1> DEFINE status == cache[k].stages[s].status
<1>1. Evidence(s, status) /\ status \in {"COMPLETED", "SKIPPED"}
  BY CacheFact DEF Justified, isStageSuccess
<1>2. s = "RETRYABLE_EXECUTED" /\ status = "SKIPPED" => route # "roundTrip"
  BY DEF FollowedThrough, FollowedCheckpoint, Followed
<1>3. phase \in Nat /\ phase <= FinalPhase(route) /\ route \in Routes /\ phase >= 1
  BY DEF Earned, TypeOK, ChainTypeOK, ChainIsSound, Phases, Created, Redeemed
<1>4. Since(L1Executed) /\ route # "roundTrip" => route = "noTicket"
  BY <1>3, MilestonesFact DEF FinalPhase, Since, Routes
<1> HIDE DEF status
<1> QED BY <1>1, <1>2, <1>3, <1>4, MilestonesFact
        DEF Evidence, Since, StageType, ParentStages, TimelockStages,
            Observer!CarriedOut, Observer!Unnecessary, Observer!Created, Observer!Succeeded, Observer!Queued,
            Observer!L2Executed, Observer!OutboxDone, Observer!L1Executed, Observer!Redeemed

\* The steps of the chains are those of the observer's chains.
LEMMA SameChains ==
  /\ ChainInit => Observer!ChainInit
  /\ ChainStep => Observer!ChainStep
  /\ UNCHANGED chainVars <=> UNCHANGED Observer!chainVars
<1>1. ChainInit => Observer!ChainInit
  BY DEF ChainInit, Observer!ChainInit, Routes, Observer!Routes, Created, Observer!Created
<1>2. UNCHANGED chainVars <=> UNCHANGED Observer!chainVars
  BY DEF chainVars, Observer!chainVars
<1>3. Observer!Finished <=> Finished
  BY MilestonesFact DEF Finished, FinalPhase, Observer!Finished, Observer!FinalPhase, Observer!L2Executed,
                        Observer!L1Executed, Observer!Redeemed
<1>4. Advance => Observer!Advance
  BY <1>3 DEF Advance, Observer!Advance
<1>5. Die => Observer!Die
  BY <1>3, MilestonesFact DEF Die, Deaths, Observer!Die, Observer!Deaths, Observer!Active, Observer!L2Executed,
                              Observer!OutboxDone, Observer!L1Ready, Observer!L1Executed
<1> QED BY <1>1, <1>2, <1>4, <1>5 DEF ChainStep, Observer!ChainStep

\* What is recorded as done only grows while the chains rest, and by what the observer
\* may see; and it rests while the chains move.
LEMMA ObserverStep ==
  ASSUME ~Lag, OneCaller, Earned, Ordered, FollowedThrough, Remembered, [Next]_vars,
         (Recorded \subseteq Observer!Observable)'
  PROVE  [Observer!Next]_Observer!observerVars
<1>1. \/ (ChainStep \/ UNCHANGED chainVars) /\ UNCHANGED trackerVars
      \/ UNCHANGED chainVars
  <2>1. ASSUME NEW c \in Callers, Continue(c) PROVE UNCHANGED chainVars
    <3>1. TrackStage(c) => UNCHANGED chainVars
      BY StageResults DEF Return
    <3> QED BY <2>1, <3>1 DEF Continue, discoverProposalByTxHash, findCallScheduledByTxHash,
                              LoadLinkedTimelock, SaveParent, SaveLinkedTimelock, SaveOperation
  <2> QED BY <2>1 DEF Next, vars, trackByTxHash, SaveErrorCheckpoint, Crash
<1>2. CASE (ChainStep \/ UNCHANGED chainVars) /\ UNCHANGED trackerVars
  <2>1. Recorded' = Recorded
    BY <1>2 DEF trackerVars, Recorded
  <2> QED BY <1>2, <2>1, SameChains DEF Observer!Next, Observer!observerVars
<1>3. CASE UNCHANGED chainVars
  <2>1. Recorded \subseteq Recorded'
    <3>1. KeepsDone
      BY RememberedStep
    <3> QED BY <3>1 DEF KeepsDone, Same, Recorded
  <2>2. Observer!Observable' = Observer!Observable
    BY <1>3 DEF chainVars, Observer!Observable, Observer!CarriedOut, Observer!Unnecessary
  <2>3. Recorded' = Recorded \cup Recorded' /\ Recorded' \in SUBSET Observer!Observable
    BY <2>1, <2>2
  <2> QED BY <1>3, <2>3, SameChains DEF Observer!Next, Observer!Observe
<1> QED BY <1>1, <1>2, <1>3

\* The tracker and its cache are a LifecycleObserver: what they say of a proposal only
\* grows, no restart, error or re-tracking takes back a finished stage, and none is
\* added before the chains have carried it out or made it unnecessary.
THEOREM TrackerObserves ==
  ASSUME ~Lag, OneCaller
  PROVE  Spec => ImplementsObserver
<1>1. Init => Observer!Init
  <2> SUFFICES ASSUME Init PROVE Observer!Init
    OBVIOUS
  <2>1. \A k \in CacheKey : cache[k].stages = NoStages
    BY DEF Init, Absent, NewCheckpoint
  <2>2. Recorded = {}
    BY <2>1, NotStartedFact DEF Recorded
  <2> QED BY <2>2, SameChains DEF Init, Observer!Init
<1> DEFINE Inv  == Earned /\ Ordered /\ FollowedThrough /\ Remembered
           Seen == Recorded \subseteq Observer!Observable
<1>2. Inv /\ Seen' /\ [Next]_vars => [Observer!Next]_Observer!observerVars
  BY ObserverStep
<1>3. Spec => []Inv
  BY RememberedInvariant
<1>4. Inv => Seen
  BY RecordedIsObservable
<1> HIDE DEF Inv, Seen
<1> QED BY <1>1, <1>2, <1>3, <1>4, PTL DEF Spec, ImplementsObserver, Observer!Spec

=============================================================================
