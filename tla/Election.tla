------------------------------- MODULE Election -------------------------------
(***************************************************************************)
(* Security Council elections: trackElection, trackAllElections and the    *)
(* election branch of trackByTxHash, over the two election governors and   *)
(* the L2 timelock, with the checkpoints they share.                       *)
(*                                                                         *)
(* Three keys matter for election e.  election:{e} is written twice by one *)
(* call: first with the election's stages and the link to its operation,   *)
(* then with its status and details, which have neither.  The operation    *)
(* has a checkpoint under tx:{execution}:op:{id}.  tx:{creation} is        *)
(* written only when a call by transaction could not track the election.   *)
(*                                                                         *)
(* Many reads are caught where they are made and taken for "not there":    *)
(* "swallowed" remembers the elections this has happened to, and "misread" *)
(* marks what was decided from a part of a multicall that failed.  A stage *)
(* that is COMPLETED in the checkpoint is not tracked again (runStage), so *)
(* a process that dies between the two writes leaves an operation that     *)
(* nothing finds again: "severed" remembers those elections.               *)
(***************************************************************************)
EXTENDS Naturals

CONSTANTS LastElection,   \* elections have the indices 0 .. LastElection
          Callers,        \* concurrent calls
          MaxFaults,      \* bound on reads that fail, swallowed or not
          MaxCrashes      \* bound on processes that die

ASSUME ElectionBounds == LastElection \in Nat /\ MaxFaults \in Nat /\ MaxCrashes \in Nat

Elections == 0 .. LastElection

-----------------------------------------------------------------------------
(* The contracts.                                                          *)

Uncreated       == 0
Contending      == 1      \* contenders register
Selecting       == 2      \* nominees are voted for
Vetting         == 3
Vetted          == 4      \* the vetting deadline is over
MemberVoting    == 5      \* executing the nominee proposal created the member proposal
MemberSucceeded == 6
Installed       == 7      \* executing the member proposal scheduled the operation
Enacted         == 8

Milestones == Uncreated .. Enacted
Fates      == {"live", "defeated", "short", "memberDefeated"}

ProposalState == {"null", "Pending", "Active", "Succeeded", "Defeated", "Executed"}

VARIABLES milestone,      \* how far each election has come on chain
          fate,           \* how it failed, if it did
          election,       \* the checkpoint under election:{index}
          operation,      \* the timelock checkpoint under the operation's key
          creationTx,     \* the checkpoint under tx:{creation}
          ids,            \* electionProposalIdsCache, the entries without a block
          call,           \* the calls in flight
          swallowed,      \* elections of which a failed read was taken for an answer
          severed,        \* elections whose operation was never stored, as its process died
          faults, crashes

chainVars == <<milestone, fate>>
cacheVars == <<election, operation, creationTx, ids>>
vars      == <<chainVars, cacheVars, call, swallowed, severed, faults, crashes>>

nomineeState(e) == IF fate[e] = "defeated" THEN "Defeated"
                   ELSE CASE milestone[e] = Contending         -> "Pending"
                          [] milestone[e] = Selecting          -> "Active"
                          [] milestone[e] \in {Vetting, Vetted} -> "Succeeded"
                          [] milestone[e] >= MemberVoting      -> "Executed"

memberState(e) == IF fate[e] = "memberDefeated" THEN "Defeated"
                  ELSE CASE milestone[e] = MemberVoting    -> "Active"
                         [] milestone[e] = MemberSucceeded -> "Succeeded"
                         [] milestone[e] >= Installed      -> "Executed"

\* An election is created after the one before it; any live one moves on.
Advance(e) ==
  /\ fate[e] = "live" /\ milestone[e] < Enacted
  /\ milestone[e] = Uncreated /\ e > 0 => milestone[e - 1] # Uncreated
  /\ milestone' = [milestone EXCEPT ![e] = @ + 1]
  /\ UNCHANGED <<fate, cacheVars, call, swallowed, severed, faults, crashes>>

\* Voted down, too few nominees left when the vetting ends, or the members voted down.
Fail(e) ==
  /\ fate[e] = "live"
  /\ \/ /\ milestone[e] = Selecting
        /\ fate' = [fate EXCEPT ![e] = "defeated"]
        /\ UNCHANGED milestone
     \/ /\ milestone[e] = Vetting
        /\ fate' = [fate EXCEPT ![e] = "short"]
        /\ milestone' = [milestone EXCEPT ![e] = Vetted]
     \/ /\ milestone[e] = MemberVoting
        /\ fate' = [fate EXCEPT ![e] = "memberDefeated"]
        /\ UNCHANGED milestone
  /\ UNCHANGED <<cacheVars, call, swallowed, severed, faults, crashes>>

-----------------------------------------------------------------------------
(* Stages, statuses and checkpoints.                                       *)

\* What the election's stage list knows: the proposal ids and states its stages
\* carry, the status of the vetting stage, the operation and its progress, "found"
\* when this call itself has just found the events that scheduled it.  "misread" says
\* that the vetting stage shows 0 for a deadline or a count that was not read.
Known == [created    : BOOLEAN,
          nominee    : ProposalState,
          vetting    : {"NOT_STARTED", "PENDING", "READY", "COMPLETED", "FAILED"},
          misread    : BOOLEAN,
          memberId   : BOOLEAN,
          member     : ProposalState,
          operation  : BOOLEAN,
          progress   : {"none", "found", "scheduled", "done"}]

NothingKnown == [created |-> FALSE, nominee |-> "null", vetting |-> "NOT_STARTED", misread |-> FALSE,
                 memberId |-> FALSE, member |-> "null", operation |-> FALSE, progress |-> "none"]

ElectionPhase == {"NOT_STARTED", "CONTENDER_SUBMISSION", "NOMINEE_SELECTION", "VETTING_PERIOD",
                  "MEMBER_ELECTION", "PENDING_EXECUTION", "COMPLETED"}

\* Mutant: the state of the nominee proposal is shown as the phase.
determineElectionPhaseRaw(nominee, memberId, member, isInVettingPeriod) ==
  IF member = "Executed" THEN "COMPLETED" ELSE nominee

determineElectionPhase(nominee, memberId, member, isInVettingPeriod) ==
  CASE member = "Executed"                 -> "COMPLETED"
    [] memberId /\ member = "Succeeded"    -> "PENDING_EXECUTION"
    [] memberId /\ member \notin {"Executed", "Succeeded"} -> "MEMBER_ELECTION"
    [] ~memberId /\ member # "Executed" ->
         CASE nominee = "Executed"  -> "PENDING_EXECUTION"
           [] nominee = "Pending"   -> "CONTENDER_SUBMISSION"
           [] nominee = "Active"    -> "NOMINEE_SELECTION"
           [] nominee \notin {"Executed", "Pending", "Active"} ->
                IF isInVettingPeriod THEN "VETTING_PERIOD"
                ELSE IF nominee = "Succeeded" THEN "PENDING_EXECUTION" ELSE "NOT_STARTED"

\* getNomineeProposalId and getMemberProposalId look in two stages each.
nomineeKnown(k) == k.created \/ k.nominee # "null"
memberKnown(k)  == k.memberId \/ k.member # "null"

\* Mutant: the member proposal's success is taken for its execution.
phaseOfSucceeded(k) ==
  determineElectionPhase(k.nominee, memberKnown(k),
                         IF k.member = "Succeeded" THEN "Executed" ELSE k.member, k.vetting = "PENDING")

phaseOf(k) ==
  determineElectionPhase(k.nominee, memberKnown(k), k.member, k.vetting = "PENDING")

\* buildElectionStatusFromState
Status == [phase      : ElectionPhase,
           canProceed : BOOLEAN,
           canExecute : BOOLEAN,
           failed     : BOOLEAN,
           misread    : BOOLEAN,
           operation  : BOOLEAN]

buildElectionStatus(k) ==
  [phase      |-> phaseOf(k),
   canProceed |-> k.vetting = "READY",
   canExecute |-> k.member = "Succeeded",
   failed     |-> k.nominee = "Defeated" \/ k.vetting = "FAILED" \/ k.member = "Defeated",
   misread    |-> k.misread,
   operation  |-> k.operation]

NoStatus == buildElectionStatus(NothingKnown)

\* The checkpoint under election:{index}: absent, the parent stages with their
\* link, or the status with its details.
ElectionCheckpoint ==
  [kind : {"none", "stages", "status"}, known : Known, status : Status, details : BOOLEAN]

NoElection          == [kind |-> "none", known |-> NothingKnown, status |-> NoStatus, details |-> FALSE]
StagesCheckpoint(k) == [NoElection EXCEPT !.kind = "stages", !.known = [k EXCEPT !.progress = "none"]]
StatusCheckpoint(s, details) == [NoElection EXCEPT !.kind = "status", !.status = s, !.details = details]

\* Mutant: an election that waits for its execution counts as done.
isCompletedOrPending(cp) ==
  cp.kind = "status" /\ cp.status.phase \in {"COMPLETED", "PENDING_EXECUTION"}

isCompleted(cp) == cp.kind = "status" /\ cp.status.phase = "COMPLETED"

-----------------------------------------------------------------------------
(* A call: its argument, the step it has reached and what it knows.        *)

TrackSteps == {"CREATE_ELECTION", "NOMINEE_ELECTION", "NOMINEE_VETTING", "MEMBER_ELECTION",
               "TIMELOCK", "saveStages", "saveOperation", "saveStatus"}
Step == {"idle", "governor", "lookup", "saveAgain", "deleteTx", "saveTx"} \cup TrackSteps

Call == [pc : Step, byTx : BOOLEAN, index : Elections, known : Known, status : Status,
         loadedTx : {"none", "tracked", "empty"}]

IdleCall == [pc |-> "idle", byTx |-> FALSE, index |-> 0, known |-> NothingKnown,
             status |-> NoStatus, loadedTx |-> "none"]

TypeOK ==
  /\ milestone \in [Elections -> Milestones] /\ fate \in [Elections -> Fates]
  /\ election \in [Elections -> ElectionCheckpoint]
  /\ operation \in [Elections -> {"none", "scheduled", "done"}]
  /\ creationTx \in [Elections -> {"none", "tracked", "empty"}]
  /\ ids \in [Elections -> {"unknown", "absent", "both"}]
  /\ call \in [Callers -> Call]
  /\ swallowed \in SUBSET Elections /\ severed \in SUBSET Elections
  /\ faults \in 0 .. MaxFaults /\ crashes \in 0 .. MaxCrashes

Init ==
  /\ milestone = [e \in Elections |-> Uncreated] /\ fate = [e \in Elections |-> "live"]
  /\ election = [e \in Elections |-> NoElection]
  /\ operation = [e \in Elections |-> "none"]
  /\ creationTx = [e \in Elections |-> "none"]
  /\ ids = [e \in Elections |-> "unknown"]
  /\ call = [c \in Callers |-> IdleCall]
  /\ swallowed = {} /\ severed = {} /\ faults = 0 /\ crashes = 0

\* A caught read answers truly, or fails and is taken for FALSE.
Caught(c, answer, found) ==
  \/ found = answer /\ UNCHANGED <<swallowed, faults>>
  \/ /\ answer /\ ~found /\ faults < MaxFaults
     /\ swallowed' = swallowed \cup {call[c].index}
     /\ faults' = faults + 1

Goto(c, pc, k) == call' = [call EXCEPT ![c] = [@ EXCEPT !.pc = pc, !.known = k]]

\* trackElectionPipeline enters the timelock stages only through its gate.
Stop(k) == IF k.member = "Executed" THEN "TIMELOCK" ELSE "saveStages"

-----------------------------------------------------------------------------
(* Calls by index, from trackAllElections and checkElection.               *)

electionCount == LET created == {e \in Elections : milestone[e] # Uncreated}
                 IN  IF created = {} THEN 0 ELSE CHOOSE n \in 1 .. LastElection + 1 :
                                                   n - 1 \in created /\ n \notin created

\* What a checkpoint that still holds stages, and the operation it links to, give.
loadedStages(e) ==
  LET known == election[e].known
  IN  IF known.operation THEN [known EXCEPT !.progress = operation[e]] ELSE known

\* All existing elections and the next one; a COMPLETED one is returned from the
\* cache, any other starts from its checkpoint.
trackElection(c, e) ==
  /\ call[c].pc = "idle"
  /\ e <= electionCount
  /\ ~isCompleted(election[e])
  /\ call' = [call EXCEPT ![c] = [IdleCall EXCEPT !.pc = "CREATE_ELECTION", !.index = e,
                                                  !.known = loadedStages(e)]]
  /\ UNCHANGED <<chainVars, cacheVars, swallowed, severed, faults, crashes>>

-----------------------------------------------------------------------------
(* The election stages.                                                    *)

trackCreateElectionStage(c) ==
  LET e == call[c].index  k == call[c].known IN
  /\ call[c].pc = "CREATE_ELECTION"
  /\ \/ /\ k.created
        /\ Goto(c, "NOMINEE_ELECTION", k)
        /\ UNCHANGED <<swallowed, faults>>
     \/ /\ ~k.created
        /\ \E found \in BOOLEAN :
             /\ Caught(c, milestone[e] # Uncreated, found)
             /\ LET new == [k EXCEPT !.created = found]
                IN  Goto(c, IF found THEN "NOMINEE_ELECTION" ELSE Stop(new), new)
  /\ UNCHANGED <<chainVars, cacheVars, severed, crashes>>

\* proposalStateToStageStatus: whether the pipeline goes on.
isComplete(state) == state \notin {"Active", "Pending", "Defeated"}

\* A state that the multicall could not read is no state, and the call throws.
trackNomineeElectionStage(c) ==
  LET e == call[c].index
      k == call[c].known
      cached == k.nominee # "null" /\ isComplete(k.nominee)
      new == IF cached THEN k ELSE [k EXCEPT !.nominee = nomineeState(e)]
  IN
  /\ call[c].pc = "NOMINEE_ELECTION"
  /\ Goto(c, IF isComplete(new.nominee) THEN "NOMINEE_VETTING" ELSE Stop(new), new)
  /\ UNCHANGED <<chainVars, cacheVars, swallowed, severed, faults, crashes>>

\* Whether the compliant nominees are enough, when their number is read: during the
\* vetting nominees are still excluded and included.
nomineesSuffice(e) == IF milestone[e] = Vetting THEN BOOLEAN ELSE {fate[e] # "short"}

\* Mutant: the number of compliant nominees is not looked at.
vettingStatusAnyCount(e, deadlineRead, enough) ==
  IF milestone[e] = Vetting /\ deadlineRead THEN "PENDING" ELSE "READY"

\* The status of the vetting stage while the nominee proposal is "Succeeded".  A
\* deadline that was not read is 0, and long over.
vettingStatus(e, deadlineRead, enough) ==
  IF milestone[e] = Vetting /\ deadlineRead THEN "PENDING"
  ELSE IF enough THEN "READY" ELSE "FAILED"

\* The deadline and the count are parts of one multicall, each of which may fail and
\* is then 0; the member proposal is looked up by a read that is caught.
trackNomineeVettingStage(c) ==
  LET e == call[c].index  k == call[c].known IN
  /\ call[c].pc = "NOMINEE_VETTING"
  /\ \/ /\ k.vetting = "COMPLETED"
        /\ Goto(c, "MEMBER_ELECTION", k)
        /\ UNCHANGED <<swallowed, faults>>
     \/ /\ k.vetting # "COMPLETED" /\ nomineeState(e) = "Succeeded"
        /\ \E deadlineRead, countRead \in BOOLEAN, enough \in nomineesSuffice(e) :
             LET misread == ~(deadlineRead /\ countRead)
                 new == [k EXCEPT !.vetting = vettingStatus(e, deadlineRead, countRead /\ enough),
                                  !.misread = misread, !.memberId = FALSE]
             IN  /\ Goto(c, Stop(new), new)
                 /\ IF misread THEN faults < MaxFaults /\ faults' = faults + 1 ELSE UNCHANGED faults
        /\ UNCHANGED swallowed
     \/ /\ k.vetting # "COMPLETED" /\ nomineeState(e) = "Executed"
        /\ \E found \in BOOLEAN :
             /\ Caught(c, TRUE, found)
             /\ LET new == [k EXCEPT !.vetting = "COMPLETED", !.misread = FALSE, !.memberId = found]
                IN  Goto(c, IF found THEN "MEMBER_ELECTION" ELSE Stop(new), new)
  /\ UNCHANGED <<chainVars, cacheVars, severed, crashes>>

\* An executed member proposal is searched for its transaction and, in it, the events
\* that schedule the operation.  They are handed to the timelock stages of this call,
\* while the stage keeps the operation's id alone.
trackMemberElectionStage(c) ==
  LET e == call[c].index  k == call[c].known IN
  /\ call[c].pc = "MEMBER_ELECTION"
  /\ \/ /\ k.member = "Executed" \/ ~memberKnown(k)
        /\ Goto(c, Stop(k), k)
        /\ UNCHANGED <<swallowed, faults>>
     \/ /\ k.member # "Executed" /\ memberKnown(k)
        /\ \E found \in BOOLEAN :
             /\ Caught(c, milestone[e] >= Installed, found)
             /\ LET new == [k EXCEPT !.member = memberState(e), !.operation = found,
                                     !.progress = IF found THEN "found" ELSE "none"]
                IN  Goto(c, Stop(new), new)
  /\ UNCHANGED <<chainVars, cacheVars, severed, crashes>>

\* TIMELOCK_STAGES, in one step: ProposalTracker models them one by one.  They need
\* the events of the operation, from this call or from the operation's checkpoint.
trackTimelockStages(c) ==
  LET e == call[c].index  k == call[c].known IN
  /\ call[c].pc = "TIMELOCK"
  /\ Goto(c, "saveStages",
          IF k.progress # "none"
          THEN [k EXCEPT !.progress = IF milestone[e] = Enacted THEN "done" ELSE "scheduled"]
          ELSE k)
  /\ UNCHANGED <<chainVars, cacheVars, swallowed, severed, faults, crashes>>

-----------------------------------------------------------------------------
(* The writes.                                                             *)

\* Mutant: the operation's checkpoint is left to be written by a later call.
SaveStagesOnly(c) ==
  /\ call[c].pc = "saveStages"
  /\ election' = [election EXCEPT ![call[c].index] = StagesCheckpoint(call[c].known)]
  /\ Goto(c, "saveStatus", call[c].known)
  /\ UNCHANGED <<chainVars, operation, creationTx, ids, swallowed, severed, faults, crashes>>

\* saveModularCheckpoints: the parent's stages first, then the operation's.
saveStages(c) ==
  LET e == call[c].index  k == call[c].known IN
  /\ call[c].pc = "saveStages"
  /\ election' = [election EXCEPT ![e] = StagesCheckpoint(k)]
  /\ Goto(c, IF k.operation /\ k.progress # "none" THEN "saveOperation" ELSE "saveStatus", k)
  /\ UNCHANGED <<chainVars, operation, creationTx, ids, swallowed, severed, faults, crashes>>

saveOperation(c) ==
  LET e == call[c].index  k == call[c].known IN
  /\ call[c].pc = "saveOperation"
  /\ operation' = [operation EXCEPT ![e] = k.progress]
  /\ Goto(c, "saveStatus", k)
  /\ UNCHANGED <<chainVars, election, creationTx, ids, swallowed, severed, faults, crashes>>

\* Mutant: the details are fetched only by the first write.
WriteStatusBare(c, status) ==
  /\ election' = [election EXCEPT ![call[c].index] = StatusCheckpoint(status, FALSE)]
  /\ UNCHANGED <<swallowed, faults>>

\* saveElectionCheckpoint: a COMPLETED election is stored with its details, if the
\* reads for them succeed.
WriteStatus(c, status) ==
  \E details \in BOOLEAN :
    /\ Caught(c, status.phase = "COMPLETED", details)
    /\ election' = [election EXCEPT ![call[c].index] = StatusCheckpoint(status, details)]

saveElectionCheckpoint(c) ==
  LET status == buildElectionStatus(call[c].known) IN
  /\ call[c].pc = "saveStatus"
  /\ WriteStatus(c, status)
  /\ call' = [call EXCEPT ![c] = IF @.byTx THEN [@ EXCEPT !.pc = "saveAgain", !.status = status]
                                 ELSE IdleCall]
  /\ UNCHANGED <<chainVars, operation, creationTx, ids, severed, crashes>>

-----------------------------------------------------------------------------
(* Calls by the transaction that created the nominee proposal.             *)

trackByTxHash(c, e) ==
  /\ call[c].pc = "idle"
  /\ milestone[e] # Uncreated
  /\ call' = [call EXCEPT ![c] = [IdleCall EXCEPT !.pc = "governor", !.byTx = TRUE, !.index = e,
                                                  !.loadedTx = creationTx[e]]]
  /\ UNCHANGED <<chainVars, cacheVars, swallowed, severed, faults, crashes>>

\* The governor pipeline.  From a checkpoint without a governor it ends at once,
\* and the proposal is not known to be an election's.
trackGovernor(c) ==
  /\ call[c].pc = "governor"
  /\ call' = [call EXCEPT ![c] = IF @.loadedTx = "empty" THEN IdleCall ELSE [@ EXCEPT !.pc = "lookup"]]
  /\ UNCHANGED <<chainVars, cacheVars, swallowed, severed, faults, crashes>>

\* Mutant: the retry is the last; when it fails the proposal's checkpoint is removed.
TrackElectionStatusOnce(c) ==
  /\ call[c].pc = "lookup"
  /\ faults < MaxFaults /\ faults' = faults + 1
  /\ call' = [call EXCEPT ![c].pc = IF call[c].loadedTx = "none" THEN "saveTx" ELSE "deleteTx"]
  /\ UNCHANGED <<chainVars, cacheVars, swallowed, severed, crashes>>

\* trackElectionStatus: the index of the election, from ids read at this block.
\* A failed lookup is caught, and the call keeps the proposal's own checkpoint.
trackElectionStatus(c) ==
  LET e == call[c].index IN
  /\ call[c].pc = "lookup"
  /\ \E found \in BOOLEAN :
       /\ IF found THEN UNCHANGED faults ELSE faults < MaxFaults /\ faults' = faults + 1
       /\ call' = [call EXCEPT ![c] =
                     IF ~found THEN [@ EXCEPT !.pc = "saveTx"]
                     ELSE IF isCompleted(election[e])
                     THEN [@ EXCEPT !.pc = "saveAgain", !.status = election[e].status]
                     ELSE [@ EXCEPT !.pc = "CREATE_ELECTION", !.known = loadedStages(e)]]
  /\ UNCHANGED <<chainVars, cacheVars, swallowed, severed, crashes>>

saveElectionAgain(c) ==
  /\ call[c].pc = "saveAgain"
  /\ WriteStatus(c, call[c].status)
  /\ call' = [call EXCEPT ![c].pc = "deleteTx"]
  /\ UNCHANGED <<chainVars, operation, creationTx, ids, severed, crashes>>

deleteCreationTx(c) ==
  /\ call[c].pc = "deleteTx"
  /\ creationTx' = [creationTx EXCEPT ![call[c].index] = "none"]
  /\ call' = [call EXCEPT ![c] = IdleCall]
  /\ UNCHANGED <<chainVars, election, operation, ids, swallowed, severed, faults, crashes>>

saveCreationTx(c) ==
  /\ call[c].pc = "saveTx"
  /\ creationTx' = [creationTx EXCEPT ![call[c].index] = "tracked"]
  /\ call' = [call EXCEPT ![c] = IdleCall]
  /\ UNCHANGED <<chainVars, election, operation, ids, swallowed, severed, faults, crashes>>

-----------------------------------------------------------------------------
(* Failures.                                                               *)

\* A call has stored the election's stages and not yet its operation.
aboutToStore(e) == \E c \in Callers : call[c].pc = "saveOperation" /\ call[c].index = e

\* A read that is not caught ends the call.  By transaction, trackByTxHash then
\* writes the checkpoint it had loaded back, or one that names no governor.
Throw(c) ==
  /\ call[c].pc \in {"governor"} \cup (TrackSteps \ {"saveStages", "saveOperation", "saveStatus"})
  /\ faults < MaxFaults
  /\ faults' = faults + 1
  /\ creationTx' = IF ~call[c].byTx THEN creationTx
                   ELSE [creationTx EXCEPT ![call[c].index] = IF call[c].loadedTx = "none"
                                                              THEN "empty" ELSE call[c].loadedTx]
  /\ call' = [call EXCEPT ![c] = IdleCall]
  /\ UNCHANGED <<chainVars, election, operation, ids, swallowed, severed, crashes>>

\* The process dies with all its calls and its own memory.  What a call has found of
\* an operation and not stored yet is gone.
Crash ==
  /\ crashes < MaxCrashes
  /\ crashes' = crashes + 1
  /\ severed' = severed \cup {e \in Elections : operation[e] = "none" /\ aboutToStore(e)}
  /\ call' = [c \in Callers |-> IdleCall]
  /\ ids' = [e \in Elections |-> "unknown"]
  /\ UNCHANGED <<chainVars, election, operation, creationTx, swallowed, faults>>

\* Ids asked for without a block, by getElectionStatus: results taken for immutable
\* are kept for the life of the process, "no such election" among them.
getElectionProposalIds(e) ==
  /\ ids[e] = "unknown"
  /\ milestone[e] = Uncreated \/ milestone[e] >= MemberVoting
  /\ ids' = [ids EXCEPT ![e] = IF milestone[e] = Uncreated THEN "absent" ELSE "both"]
  /\ UNCHANGED <<chainVars, election, operation, creationTx, call, swallowed, severed, faults, crashes>>

-----------------------------------------------------------------------------
(* The status of an election, read from the contracts alone.               *)

StatusReads == {"deadline", "count", "member"}

\* The ids may be the ones kept.  Of the reads that are caught, "answered" are the ones
\* that succeed: a vetting deadline that is not read is taken for a governor without
\* vetting, a count for 0 and the state of a member proposal for no such proposal.
getElectionStatus(e, answered, enough) ==
  LET created  == ids[e] # "absent" /\ milestone[e] # Uncreated
      memberId == /\ ids[e] = "both" \/ (created /\ milestone[e] >= MemberVoting)
                  /\ "member" \in answered
      nominee  == IF created THEN nomineeState(e) ELSE "null"
      member   == IF memberId THEN memberState(e) ELSE "null"
      vetting  == nominee = "Succeeded" /\ "deadline" \in answered /\ milestone[e] = Vetting
  IN  [phase      |-> determineElectionPhase(nominee, memberId, member, vetting),
       canProceed |-> nominee = "Succeeded" /\ ~vetting /\ "count" \in answered /\ enough /\ ~memberId,
       canExecute |-> member = "Succeeded",
       misread    |-> "deadline" \notin answered]

-----------------------------------------------------------------------------

Continue(c) == \/ trackCreateElectionStage(c) \/ trackNomineeElectionStage(c)
               \/ trackNomineeVettingStage(c) \/ trackMemberElectionStage(c)
               \/ trackTimelockStages(c) \/ saveStages(c) \/ saveOperation(c)
               \/ saveElectionCheckpoint(c) \/ trackGovernor(c) \/ trackElectionStatus(c)
               \/ saveElectionAgain(c) \/ deleteCreationTx(c) \/ saveCreationTx(c)

Next == \/ \E e \in Elections : Advance(e) \/ Fail(e) \/ getElectionProposalIds(e)
        \/ \E c \in Callers : \/ Continue(c) \/ Throw(c)
                              \/ \E e \in Elections : trackElection(c, e) \/ trackByTxHash(c, e)
        \/ Crash

Spec == Init /\ [][Next]_vars

\* A call in flight goes on, and the monitor's cycle calls trackElection again and
\* again for every election that is not COMPLETED; the chain owes nothing.
Fairness == /\ \A c \in Callers : WF_vars(Continue(c))
            /\ \A e \in Elections : SF_vars(\E c \in Callers : trackElection(c, e))

FairSpec == Spec /\ Fairness

-----------------------------------------------------------------------------
(* What the tracking of elections promises.                                *)

\* The milestone an election must have reached for a phase to be reported.
Reached == [p \in ElectionPhase |->
              CASE p = "NOT_STARTED"          -> Uncreated
                [] p = "CONTENDER_SUBMISSION" -> Contending
                [] p = "NOMINEE_SELECTION"    -> Selecting
                [] p = "VETTING_PERIOD"       -> Vetting
                [] p = "PENDING_EXECUTION"    -> Vetted
                [] p = "MEMBER_ELECTION"      -> MemberVoting
                [] p = "COMPLETED"            -> Installed]

\* Every status getAllElectionStatuses may show of an election that exists.
StatusesShown(e) ==
  {getElectionStatus(e, answered, enough) : answered \in SUBSET StatusReads, enough \in nomineesSuffice(e)}

\* The contracts have reached the phase; or it comes of a vetting deadline that was not
\* read, and the vetting it takes to be over is under way.
PhaseReached(e, phase, misread) ==
  \/ Reached[phase] <= milestone[e]
  \/ misread /\ phase = "PENDING_EXECUTION" /\ milestone[e] = Vetting

\* The phase in an election's checkpoint is one the contracts have reached,
\* whichever reads failed and however stages of two calls were mixed; likewise
\* for stages left by a call that died, for the status read from the contracts, and
\* for the ids kept as immutable.  The one exception is a failed part of the vetting
\* multicall, read as 0 (pipeline.ts:466): that may end the vetting early, and no more.
PhaseIsNotAhead ==
  \A e \in Elections :
    /\ PhaseReached(e, election[e].status.phase, election[e].status.misread)
    /\ PhaseReached(e, phaseOf(election[e].known), election[e].known.misread)
    /\ e < electionCount => \A s \in StatusesShown(e) : PhaseReached(e, s.phase, s.misread)
    /\ operation[e] = "done" => milestone[e] = Enacted
    /\ ids[e] = "both" => milestone[e] >= MemberVoting

\* Whoever acts on a status is not sent to the governor too early: the member election
\* may be triggered only after the vetting and with enough nominees, unless the vetting
\* was misread; even then only once it has begun.  An election is called failed only
\* if it is, or its vetting was misread.
ActionsAreEarned ==
  \A e \in Elections :
    /\ LET s == election[e].status IN
         /\ s.canProceed => IF s.misread THEN milestone[e] >= Vetting
                            ELSE milestone[e] >= Vetted /\ fate[e] # "short"
         /\ s.canExecute => milestone[e] >= MemberSucceeded
         /\ s.failed => fate[e] # "live" \/ (s.misread /\ milestone[e] >= Vetting)
    /\ e < electionCount => \A s \in StatusesShown(e) :
         /\ s.canProceed => \/ milestone[e] = Vetted /\ fate[e] # "short"
                            \/ milestone[e] = Vetting /\ s.misread
         /\ s.canExecute => milestone[e] = MemberSucceeded

\* A COMPLETED election is never tracked again, so it must be stored whole: with
\* its details and the id of the operation it scheduled.  Every read that fails
\* without ending the call breaks this for good, which is why those are excepted.
CompletedIsWhole ==
  \A e \in Elections :
    isCompleted(election[e]) /\ e \notin swallowed =>
      election[e].details /\ election[e].status.operation

\* The second write to election:{e} erases the link to the operation; by then the
\* operation has a checkpoint of its own, from which it is tracked on, or, when the
\* stages came from the cache, the call that stored them is about to write it.  Only a
\* process that died between its two writes leaves an election COMPLETED without one:
\* its MEMBER_ELECTION stage is not tracked again, so the events are not looked for.
OperationIsNotLost ==
  \A e \in Elections :
    isCompleted(election[e]) /\ election[e].status.operation /\ e \notin severed =>
      operation[e] # "none" \/ aboutToStore(e)

\* The checkpoint under the creation transaction, kept because the election
\* could not be tracked, goes away only once the election has one.
TrackingIsHandedOver ==
  [][\A e \in Elections :
       creationTx[e] # "none" /\ creationTx'[e] = "none" => election'[e].kind # "none"]_vars

\* However calls fail, die or overwrite each other's checkpoints, an election
\* whose new council is installed ends up COMPLETED in the cache and stays so.
OutcomeIsRecorded ==
  \A e \in Elections :
    milestone[e] >= Installed ~> [](election[e].kind = "status" /\ election[e].status.phase = "COMPLETED")

\* trackElectionStatus: "Election tracking is non-critical - log and return null".
\* A call whose proposal is tracked stores what it tracked, election or not.
ElectionErrorsAreNotFatal ==
  [][\A c \in Callers :
       call[c].byTx /\ call[c].pc \in TrackSteps /\ call'[c].pc = "idle"
         => creationTx'[call[c].index] = "tracked"]_vars

=============================================================================
