--------------------------- MODULE Election_proofs ---------------------------
(***************************************************************************)
(* What is cached of an election is true, whole and not lost: for any      *)
(* number of elections and calls, and any bound on failed reads and deaths *)
(* of the process.                                                         *)
(*                                                                         *)
(* Even type correctness needs to know how far the election is when a      *)
(* stage is tracked: a member proposal has a state only once there is one. *)
(* So there is one invariant: what a stage list claims, of itself and      *)
(* through the status made of it, is Claimed to have happened; a call      *)
(* keeps that from step to step, and the checkpoints keep it between calls.*)
(***************************************************************************)
EXTENDS Election, TLAPS

USE DEF Uncreated, Contending, Selecting, Vetting, Vetted, MemberVoting, MemberSucceeded,
        Installed, Enacted

\* An election that failed stays where it failed, and elections are created in order.
FatesFit ==
  \A e \in Elections : /\ fate[e] = "defeated" => milestone[e] = Selecting
                       /\ fate[e] = "short" => milestone[e] = Vetted
                       /\ fate[e] = "memberDefeated" => milestone[e] = MemberVoting

CreatedInOrder ==
  \E n \in 0 .. LastElection + 1 : \A e \in Elections : milestone[e] # Uncreated <=> e < n

\* Each thing a stage list says has come true.
NomineeClaim(e, state) ==
  /\ state = "Pending"   => milestone[e] >= Contending
  /\ state = "Active"    => milestone[e] >= Selecting
  /\ state = "Succeeded" => milestone[e] >= Vetting
  /\ state = "Executed"  => milestone[e] >= MemberVoting
  /\ state = "Defeated"  => fate[e] = "defeated"

VettingClaim(e, status, misread) ==
  /\ status = "PENDING"   => milestone[e] >= Vetting
  /\ status = "READY"     => IF misread THEN milestone[e] >= Vetting
                             ELSE milestone[e] >= Vetted /\ fate[e] # "short"
  /\ status = "FAILED"    => fate[e] = "short" \/ (misread /\ milestone[e] >= Vetting)
  /\ status = "COMPLETED" => milestone[e] >= MemberVoting

MemberClaim(e, state) ==
  /\ state = "Pending"   => milestone[e] >= MemberVoting
  /\ state = "Active"    => milestone[e] >= MemberVoting
  /\ state = "Succeeded" => milestone[e] >= MemberSucceeded
  /\ state = "Executed"  => milestone[e] >= Installed
  /\ state = "Defeated"  => fate[e] = "memberDefeated"

Claimed(e, k) ==
  /\ k.created => milestone[e] >= Contending
  /\ NomineeClaim(e, k.nominee) /\ VettingClaim(e, k.vetting, k.misread) /\ MemberClaim(e, k.member)
  /\ k.memberId => milestone[e] >= MemberVoting
  /\ k.progress = "done" => milestone[e] = Enacted

\* The nominee proposal's success is never kept without what the vetting came to, or
\* was read to have come to.
VettingSettled(e, k) ==
  k.nominee = "Succeeded" /\ k.vetting # "PENDING"
    => milestone[e] >= Vetted \/ (k.misread /\ milestone[e] >= Vetting)

\* Likewise for a status.
StatusClaimed(e, s) ==
  /\ PhaseReached(e, s.phase, s.misread)
  /\ s.canProceed => IF s.misread THEN milestone[e] >= Vetting
                     ELSE milestone[e] >= Vetted /\ fate[e] # "short"
  /\ s.canExecute => milestone[e] >= MemberSucceeded
  /\ s.failed => fate[e] # "live" \/ (s.misread /\ milestone[e] >= Vetting)

\* Who knows that the members are executed knows the operation, unless a read failed.
OperationKnown(e, k, unread) == k.member = "Executed" /\ e \notin unread => k.operation
OperationShown(e, s, unread) == s.phase = "COMPLETED" /\ e \notin unread => s.operation

\* An operation has its own checkpoint or is about to get it, unless the process died.
Traced(e) == operation[e] # "none" \/ aboutToStore(e) \/ e \in severed

\* What a call knows at each of its steps, ...
CallClaims(r, unread) ==
  /\ Claimed(r.index, r.known) /\ StatusClaimed(r.index, r.status)
  /\ OperationKnown(r.index, r.known, unread) /\ OperationShown(r.index, r.status, unread)
  /\ r.pc # "NOMINEE_VETTING"  => VettingSettled(r.index, r.known)
  /\ r.pc = "NOMINEE_ELECTION" => milestone[r.index] >= Contending
  /\ r.pc = "NOMINEE_VETTING"  => milestone[r.index] >= Vetting
  /\ r.pc = "MEMBER_ELECTION"  => milestone[r.index] >= MemberVoting

\* ... and what it relies on having been stored: an operation it knows of is traced, or
\* the call itself holds its stages or its events and has yet to store them.
CallPlace(r) ==
  /\ r.known.operation =>
       Traced(r.index) \/ (r.known.progress # "none" /\ r.pc \in TrackSteps \ {"saveStatus"})
  /\ r.status.phase = "COMPLETED" /\ r.status.operation => Traced(r.index)
  /\ r.known.progress = "found" => r.pc = "TIMELOCK"
  /\ r.pc = "saveOperation" => r.known.progress # "none"
  /\ r.pc \in {"saveOperation", "saveStatus", "saveAgain", "deleteTx"}
       => election[r.index].kind # "none"

CallFits(r) == CallClaims(r, swallowed) /\ CallPlace(r)

\* What is in the caches of an election.
ElectionFits(e) ==
  /\ Claimed(e, election[e].known) /\ VettingSettled(e, election[e].known)
  /\ StatusClaimed(e, election[e].status)
  /\ OperationKnown(e, election[e].known, swallowed)
  /\ OperationShown(e, election[e].status, swallowed)
  /\ isCompleted(election[e]) /\ e \notin swallowed => election[e].details
  /\ election[e].known.progress = "none" /\ (election[e].known.operation => Traced(e))
  /\ isCompleted(election[e]) /\ election[e].status.operation => Traced(e)
  /\ operation[e] = "done" => milestone[e] = Enacted
  /\ ids[e] = "both" => milestone[e] >= MemberVoting

ElectionInv ==
  /\ TypeOK /\ FatesFit /\ CreatedInOrder
  /\ \A e \in Elections : ElectionFits(e)
  /\ \A c \in Callers : CallFits(call[c])

-----------------------------------------------------------------------------
(* States, phases and statuses.                                            *)

\* What the governors say of their proposals is so, once there is a proposal.
LEMMA StateFacts ==
  ASSUME TypeOK, FatesFit, NEW e \in Elections
  PROVE  /\ milestone[e] \in 0 .. 8 /\ fate[e] \in Fates
         /\ milestone[e] >= Contending =>
              /\ nomineeState(e) \in ProposalState \ {"null"}
              /\ NomineeClaim(e, nomineeState(e))
              /\ nomineeState(e) = "Succeeded" => milestone[e] \in {Vetting, Vetted}
              /\ nomineeState(e) = "Pending" => milestone[e] = Contending
              /\ nomineeState(e) = "Active" => milestone[e] = Selecting
         /\ milestone[e] >= MemberVoting =>
              /\ memberState(e) \in ProposalState \ {"null"}
              /\ MemberClaim(e, memberState(e))
              /\ memberState(e) = "Succeeded" => milestone[e] = MemberSucceeded
<1>1. milestone[e] \in 0 .. 8 /\ fate[e] \in Fates
  BY DEF TypeOK, Milestones
<1>2. milestone[e] >= Contending =>
        /\ nomineeState(e) \in ProposalState \ {"null"}
        /\ NomineeClaim(e, nomineeState(e))
        /\ nomineeState(e) = "Succeeded" => milestone[e] \in {Vetting, Vetted}
        /\ nomineeState(e) = "Pending" => milestone[e] = Contending
        /\ nomineeState(e) = "Active" => milestone[e] = Selecting
  BY <1>1 DEF FatesFit, nomineeState, ProposalState, NomineeClaim
<1>3. milestone[e] >= MemberVoting =>
        /\ memberState(e) \in ProposalState \ {"null"}
        /\ MemberClaim(e, memberState(e))
        /\ memberState(e) = "Succeeded" => milestone[e] = MemberSucceeded
  BY <1>1 DEF FatesFit, memberState, ProposalState, MemberClaim
<1>4. QED
  BY <1>1, <1>2, <1>3

\* The milestone of each phase.
LEMMA ReachedFacts ==
  /\ Reached["NOT_STARTED"] = 0 /\ Reached["CONTENDER_SUBMISSION"] = Contending
  /\ Reached["NOMINEE_SELECTION"] = Selecting /\ Reached["VETTING_PERIOD"] = Vetting
  /\ Reached["PENDING_EXECUTION"] = Vetted /\ Reached["MEMBER_ELECTION"] = MemberVoting
  /\ Reached["COMPLETED"] = Installed
  /\ \A p \in ElectionPhase : Reached[p] \in 0 .. 8
<1>1. \A p \in ElectionPhase :
        Reached[p] = CASE p = "NOT_STARTED"          -> Uncreated
                       [] p = "CONTENDER_SUBMISSION" -> Contending
                       [] p = "NOMINEE_SELECTION"    -> Selecting
                       [] p = "VETTING_PERIOD"       -> Vetting
                       [] p = "PENDING_EXECUTION"    -> Vetted
                       [] p = "MEMBER_ELECTION"      -> MemberVoting
                       [] p = "COMPLETED"            -> Installed
  BY DEF Reached
<1>2. QED
  BY <1>1 DEF ElectionPhase

\* The phase made of what a stage list claims has been reached.
LEMMA PhaseIsReached ==
  ASSUME TypeOK, FatesFit, NEW e \in Elections, NEW k \in Known, Claimed(e, k), VettingSettled(e, k)
  PROVE  /\ phaseOf(k) \in ElectionPhase /\ PhaseReached(e, phaseOf(k), k.misread)
         /\ phaseOf(k) = "COMPLETED" <=> k.member = "Executed"
<1>1. /\ k.nominee \in ProposalState /\ k.member \in ProposalState /\ memberKnown(k) \in BOOLEAN
      /\ (k.vetting = "PENDING") \in BOOLEAN /\ milestone[e] \in 0 .. 8
      /\ k.member = "Succeeded" => memberKnown(k)
  BY DEF Known, memberKnown, TypeOK, Milestones
<1> DEFINE p == phaseOf(k)
<1>2. /\ p \in ElectionPhase
      /\ p = "COMPLETED" <=> k.member = "Executed"
      /\ p = "CONTENDER_SUBMISSION" => k.nominee = "Pending"
      /\ p = "NOMINEE_SELECTION" => k.nominee = "Active"
      /\ p = "VETTING_PERIOD" => k.vetting = "PENDING"
      /\ p = "MEMBER_ELECTION" => memberKnown(k)
      /\ p = "PENDING_EXECUTION" =>
           \/ k.member = "Succeeded" \/ k.nominee = "Executed"
           \/ k.nominee = "Succeeded" /\ k.vetting # "PENDING"
  BY <1>1 DEF phaseOf, determineElectionPhase, ProposalState, ElectionPhase
<1>3. memberKnown(k) => milestone[e] >= MemberVoting
  BY <1>1 DEF FatesFit, memberKnown, Claimed, MemberClaim, ProposalState, Known
<1>4. PhaseReached(e, p, k.misread)
  BY <1>1, <1>2, <1>3, ReachedFacts
     DEF PhaseReached, ElectionPhase, Claimed, NomineeClaim, VettingClaim, MemberClaim, VettingSettled
<1>5. QED
  BY <1>2, <1>4

\* So has what the status made of it says.
LEMMA StatusFacts ==
  ASSUME TypeOK, FatesFit, NEW e \in Elections, NEW k \in Known, Claimed(e, k), VettingSettled(e, k)
  PROVE  /\ buildElectionStatus(k) \in Status /\ StatusClaimed(e, buildElectionStatus(k))
         /\ buildElectionStatus(k).phase = "COMPLETED" <=> k.member = "Executed"
         /\ buildElectionStatus(k).operation = k.operation
<1>1. /\ phaseOf(k) \in ElectionPhase /\ PhaseReached(e, phaseOf(k), k.misread)
      /\ phaseOf(k) = "COMPLETED" <=> k.member = "Executed"
  BY PhaseIsReached
<1>2. buildElectionStatus(k) \in Status
  BY <1>1 DEF buildElectionStatus, Status, Known
<1>3. StatusClaimed(e, buildElectionStatus(k))
  BY <1>1 DEF buildElectionStatus, StatusClaimed, Claimed, NomineeClaim, VettingClaim, MemberClaim
<1>4. QED
  BY <1>1, <1>2, <1>3 DEF buildElectionStatus

\* Nothing known claims nothing.
LEMMA NothingFacts ==
  /\ NothingKnown \in Known /\ NoStatus \in Status /\ IdleCall \in Call
  /\ NoStatus.phase = "NOT_STARTED" /\ ~NoStatus.canProceed /\ ~NoStatus.canExecute
  /\ ~NoStatus.failed /\ ~NoStatus.operation /\ ~NothingKnown.operation
  /\ NothingKnown.progress = "none" /\ NoElection \in ElectionCheckpoint
<1>1. NothingKnown \in Known /\ ~NothingKnown.operation /\ NothingKnown.progress = "none"
  BY DEF NothingKnown, Known, ProposalState
<1>2. phaseOf(NothingKnown) = "NOT_STARTED"
  BY DEF NothingKnown, phaseOf, memberKnown, determineElectionPhase
<1>3. NoStatus \in Status /\ NoStatus.phase = "NOT_STARTED" /\ ~NoStatus.canProceed
      /\ ~NoStatus.canExecute /\ ~NoStatus.failed /\ ~NoStatus.operation
  BY <1>2 DEF NoStatus, buildElectionStatus, NothingKnown, Status, ElectionPhase
<1>4. IdleCall \in Call
  BY <1>1, <1>3, ElectionBounds DEF IdleCall, Call, Step, Elections
<1>5. NoElection \in ElectionCheckpoint
  BY <1>1, <1>3 DEF NoElection, ElectionCheckpoint
<1>6. QED
  BY <1>1, <1>3, <1>4, <1>5

-----------------------------------------------------------------------------
(* What no step takes back.                                                *)

\* Elections go on, failed ones stop, failed reads are remembered, and what is stored
\* for an election may be replaced but is not removed, nor is an operation lost sight of.
Later ==
  /\ swallowed \subseteq swallowed'
  /\ \A e \in Elections :
       /\ milestone'[e] \in 0 .. 8 /\ milestone[e] <= milestone'[e]
       /\ fate[e] # "live" => fate'[e] = fate[e]
       /\ milestone[e] >= Vetted /\ fate[e] # "short" => fate'[e] # "short"
       /\ election[e].kind # "none" => election'[e].kind # "none"
       /\ Traced(e) => Traced(e)'

\* A call that is not about to store an operation takes none out of sight, ...
LEMMA TracesStay ==
  ASSUME TypeOK, NEW c \in Callers, NEW r, call' = [call EXCEPT ![c] = r],
         call[c].pc # "saveOperation", UNCHANGED <<operation, severed>>
  PROVE  \A e \in Elections : Traced(e) => Traced(e)'
<1>1. \A d \in Callers : d # c => call'[d] = call[d]
  BY DEF TypeOK
<1>2. \A e \in Elections : aboutToStore(e) => aboutToStore(e)'
  BY <1>1 DEF aboutToStore
<1>3. QED
  BY <1>2 DEF Traced

\* ... nor do steps of the contracts.
LEMMA TracesIdle ==
  ASSUME UNCHANGED <<operation, severed, call>>
  PROVE  \A e \in Elections : Traced(e) => Traced(e)'
BY DEF Traced, aboutToStore

\* Claims about an election stay true.
LEMMA ClaimsStay ==
  ASSUME TypeOK, Later, NEW e \in Elections
  PROVE  /\ \A k \in Known : Claimed(e, k) => Claimed(e, k)'
         /\ \A k \in Known : VettingSettled(e, k) => VettingSettled(e, k)'
         /\ \A s \in Status : StatusClaimed(e, s) => StatusClaimed(e, s)'
<1>1. /\ milestone[e] \in 0 .. 8 /\ milestone'[e] \in 0 .. 8 /\ milestone[e] <= milestone'[e]
      /\ fate[e] # "live" => fate'[e] = fate[e]
      /\ milestone[e] >= Vetted /\ fate[e] # "short" => fate'[e] # "short"
  BY DEF TypeOK, Milestones, Later
<1>2. ASSUME NEW k \in Known, Claimed(e, k) PROVE Claimed(e, k)'
  BY <1>1, <1>2 DEF Claimed, NomineeClaim, VettingClaim, MemberClaim
<1>3. ASSUME NEW k \in Known, VettingSettled(e, k) PROVE VettingSettled(e, k)'
  BY <1>1, <1>3 DEF VettingSettled
<1>4. ASSUME NEW s \in Status, StatusClaimed(e, s) PROVE StatusClaimed(e, s)'
  <2>1. /\ Reached[s.phase] \in 0 .. 8 /\ Reached["PENDING_EXECUTION"] = Vetted
        /\ Reached' = Reached
    BY ReachedFacts DEF Status, Reached, ElectionPhase
  <2>2. PhaseReached(e, s.phase, s.misread)
    BY <1>4 DEF StatusClaimed
  <2>3. PhaseReached(e, s.phase, s.misread)'
    <3>1. CASE Reached[s.phase] <= milestone[e]
      BY <1>1, <2>1, <3>1 DEF PhaseReached
    <3>2. CASE s.misread /\ s.phase = "PENDING_EXECUTION" /\ milestone[e] = Vetting
      BY <1>1, <2>1, <3>2 DEF PhaseReached
    <3>3. QED
      BY <2>2, <3>1, <3>2 DEF PhaseReached
  <2>4. QED
    BY <1>1, <1>4, <2>3 DEF StatusClaimed
<1>5. QED
  BY <1>2, <1>3, <1>4

\* So does what a call knows, and what it relies on.
LEMMA CallStays ==
  ASSUME TypeOK, Later, NEW r \in Call
  PROVE  /\ \A unread : CallClaims(r, unread) /\ unread \subseteq swallowed'
                          => CallClaims(r, swallowed)'
         /\ CallPlace(r) => CallPlace(r)'
<1>1. /\ r.index \in Elections /\ r.known \in Known /\ r.status \in Status
      /\ milestone[r.index] \in 0 .. 8 /\ milestone'[r.index] \in 0 .. 8
      /\ milestone[r.index] <= milestone'[r.index]
      /\ election[r.index].kind # "none" => election'[r.index].kind # "none"
      /\ Traced(r.index) => Traced(r.index)'
  BY DEF TypeOK, Milestones, Later, Call
<1>2. ASSUME NEW unread, CallClaims(r, unread), unread \subseteq swallowed'
      PROVE  CallClaims(r, swallowed)'
  BY <1>1, <1>2, ClaimsStay DEF CallClaims, OperationKnown, OperationShown
<1>3. CallPlace(r) => CallPlace(r)'
  BY <1>1 DEF CallPlace
<1>4. QED
  BY <1>2, <1>3

\* Calls that wait still fit.
LEMMA CallsStay ==
  ASSUME TypeOK, Later, NEW c \in Callers, CallFits(call[c]), call'[c] = call[c]
  PROVE  CallFits(call[c])'
<1>1. call[c] \in Call /\ swallowed \subseteq swallowed'
  BY DEF TypeOK, Later
<1>2. \A q \in Call : CallFits(q) => CallFits(q)'
  BY <1>1, CallStays DEF CallFits
<1>3. QED
  BY <1>1, <1>2

\* A call moves on while the others wait.
LEMMA CallMoves ==
  ASSUME ElectionInv, Later, UNCHANGED chainVars, NEW c \in Callers, NEW r \in Call,
         call' = [call EXCEPT ![c] = r], CallClaims(r, swallowed'), CallPlace(call[c])'
  PROVE  call' \in [Callers -> Call] /\ \A d \in Callers : CallFits(call[d])'
<1>1. TypeOK /\ call \in [Callers -> Call] /\ \A d \in Callers : CallFits(call[d])
  BY DEF ElectionInv, TypeOK
<1>2. CallClaims(r, swallowed)'
  BY <1>1, CallStays
<1>3. ASSUME NEW d \in Callers, d # c PROVE CallFits(call[d])'
  <2>1. call'[d] = call[d]
    BY <1>1, <1>3
  <2>2. QED
    BY <1>1, <2>1, CallsStay
<1>4. call'[c] = r
  BY <1>1
<1>5. CallFits(call[c])'
  BY <1>2, <1>4 DEF CallFits
<1>6. QED
  BY <1>1, <1>3, <1>5

\* A call that has not stored anything relies on what was stored before.
LEMMA PlaceStays ==
  ASSUME TypeOK, Later, NEW c \in Callers, NEW r \in Call, call' = [call EXCEPT ![c] = r],
         CallPlace(r)
  PROVE  CallPlace(call[c])'
<1>1. CallPlace(r)' /\ call'[c] = r
  BY CallStays DEF TypeOK
<1>2. QED
  BY <1>1

\* What is in the caches of an election stays right until it is replaced.
LEMMA ElectionStays ==
  ASSUME TypeOK, Later, NEW e \in Elections, ElectionFits(e),
         election'[e] = election[e], operation'[e] = operation[e],
         ids'[e] = "both" => ids[e] = "both" \/ milestone[e] >= MemberVoting
  PROVE  ElectionFits(e)'
<1>1. /\ election[e] \in ElectionCheckpoint /\ election[e].known \in Known
      /\ election[e].status \in Status /\ swallowed \subseteq swallowed'
      /\ milestone[e] \in 0 .. 8 /\ milestone'[e] \in 0 .. 8 /\ milestone[e] <= milestone'[e]
      /\ Traced(e) => Traced(e)'
  BY DEF TypeOK, ElectionCheckpoint, Later, Milestones
<1>2. /\ Claimed(e, election[e].known)' /\ VettingSettled(e, election[e].known)'
      /\ StatusClaimed(e, election[e].status)'
  BY <1>1, ClaimsStay DEF ElectionFits
<1>3. QED
  BY <1>1, <1>2 DEF ElectionFits, OperationKnown, OperationShown, isCompleted

-----------------------------------------------------------------------------
(* The elections themselves.                                               *)

\* An election that goes on, or fails, makes nothing false that was claimed.
LEMMA ChainMoves ==
  ASSUME TypeOK, FatesFit, CreatedInOrder, NEW e \in Elections, Advance(e) \/ Fail(e)
  PROVE  /\ Later /\ FatesFit' /\ CreatedInOrder' /\ UNCHANGED <<cacheVars, call, swallowed, severed>>
         /\ milestone' \in [Elections -> Milestones] /\ fate' \in [Elections -> Fates]
         /\ UNCHANGED <<faults, crashes>>
<1>1. /\ milestone \in [Elections -> 0 .. 8] /\ fate \in [Elections -> Fates]
      /\ UNCHANGED <<election, operation, creationTx, ids, call, swallowed, severed, faults, crashes>>
      /\ \A d \in Elections : Traced(d) => Traced(d)'
  BY TracesIdle DEF TypeOK, Milestones, Advance, Fail, cacheVars
<1>2. CASE Advance(e)
  <2>1. /\ fate' = fate /\ fate[e] = "live" /\ milestone[e] < 8
        /\ milestone' = [milestone EXCEPT ![e] = @ + 1]
        /\ milestone[e] = 0 /\ e > 0 => milestone[e - 1] # 0
    BY <1>2 DEF Advance
  <2>2. /\ milestone' \in [Elections -> 0 .. 8]
        /\ \A d \in Elections : milestone'[d] = IF d = e THEN milestone[e] + 1 ELSE milestone[d]
    BY <1>1, <2>1
  <2>3. Later
    BY <1>1, <2>1, <2>2 DEF Later
  <2>4. FatesFit'
    BY <1>1, <2>1, <2>2 DEF FatesFit
  <2>5. CreatedInOrder'
    <3>1. PICK n \in 0 .. LastElection + 1 : \A d \in Elections : milestone[d] # 0 <=> d < n
      BY DEF CreatedInOrder
    <3>2. CASE milestone[e] # 0
      <4>1. \A d \in Elections : milestone'[d] # 0 <=> d < n
        BY <1>1, <2>2, <3>1, <3>2
      <4>2. QED
        BY <4>1 DEF CreatedInOrder
    <3>3. CASE milestone[e] = 0
      <4>1. e = n /\ n + 1 \in 0 .. LastElection + 1
        BY <2>1, <3>1, <3>3, ElectionBounds DEF Elections
      <4>2. \A d \in Elections : milestone'[d] # 0 <=> d < n + 1
        BY <1>1, <2>2, <3>1, <3>3, <4>1, ElectionBounds DEF Elections
      <4>3. QED
        BY <4>1, <4>2 DEF CreatedInOrder
    <3>4. QED
      BY <3>2, <3>3
  <2>6. QED
    BY <1>1, <2>1, <2>2, <2>3, <2>4, <2>5 DEF Milestones, cacheVars
<1>3. CASE Fail(e)
  <2>1. /\ fate[e] = "live" /\ \A d \in Elections \ {e} : fate'[d] = fate[d]
        /\ \A d \in Elections \ {e} : milestone'[d] = milestone[d]
        /\ \/ milestone[e] = 2 /\ fate'[e] = "defeated" /\ milestone'[e] = milestone[e]
           \/ milestone[e] = 3 /\ fate'[e] = "short" /\ milestone'[e] = 4
           \/ milestone[e] = 5 /\ fate'[e] = "memberDefeated" /\ milestone'[e] = milestone[e]
        /\ milestone' \in [Elections -> 0 .. 8] /\ fate' \in [Elections -> Fates]
    BY <1>1, <1>3 DEF Fail, Fates
  <2>2. Later
    BY <1>1, <2>1 DEF Later
  <2>3. FatesFit'
    BY <1>1, <2>1 DEF FatesFit
  <2>4. CreatedInOrder'
    <3>1. \A d \in Elections : milestone'[d] # 0 <=> milestone[d] # 0
      BY <2>1
    <3>2. QED
      BY <3>1 DEF CreatedInOrder
  <2>5. QED
    BY <1>1, <2>1, <2>2, <2>3, <2>4 DEF Milestones, cacheVars
<1>4. QED
  BY <1>2, <1>3

\* So the invariant holds after it.
LEMMA ChainStep ==
  ASSUME ElectionInv, NEW e \in Elections, Advance(e) \/ Fail(e)
  PROVE  ElectionInv'
<1>1. TypeOK /\ FatesFit /\ CreatedInOrder
  BY DEF ElectionInv
<1>2. /\ Later /\ FatesFit' /\ CreatedInOrder' /\ UNCHANGED <<cacheVars, call, swallowed, severed>>
      /\ milestone' \in [Elections -> Milestones] /\ fate' \in [Elections -> Fates]
      /\ UNCHANGED <<faults, crashes>>
  BY <1>1, ChainMoves
<1>3. TypeOK'
  BY <1>1, <1>2 DEF TypeOK, cacheVars
<1>4. ASSUME NEW d \in Elections PROVE ElectionFits(d)'
  BY <1>1, <1>2, ElectionStays DEF ElectionInv, cacheVars
<1>5. ASSUME NEW c \in Callers PROVE CallFits(call[c])'
  BY <1>1, <1>2, CallsStay DEF ElectionInv
<1>6. QED
  BY <1>2, <1>3, <1>4, <1>5 DEF ElectionInv

\* The ids of an election are read, and kept.
LEMMA IdsStep ==
  ASSUME ElectionInv, NEW e \in Elections, getElectionProposalIds(e)
  PROVE  ElectionInv'
<1>1. /\ TypeOK /\ FatesFit /\ CreatedInOrder
      /\ milestone[e] = 0 \/ milestone[e] >= MemberVoting
      /\ ids' = [ids EXCEPT ![e] = IF milestone[e] = 0 THEN "absent" ELSE "both"]
      /\ UNCHANGED <<milestone, fate, election, operation, creationTx, call, swallowed, severed, faults, crashes>>
  BY DEF ElectionInv, getElectionProposalIds, chainVars
<1>2. TypeOK'
  BY <1>1 DEF TypeOK
<1>3. FatesFit' /\ CreatedInOrder'
  BY <1>1 DEF FatesFit, CreatedInOrder
<1>4. Later
  BY <1>1, TracesIdle DEF Later, TypeOK, Milestones
<1>5. ASSUME NEW d \in Elections PROVE ElectionFits(d)'
  <2>1. ids'[d] = "both" => ids[d] = "both" \/ milestone[d] >= MemberVoting
    BY <1>1 DEF TypeOK
  <2>2. QED
    BY <1>1, <1>4, <2>1, ElectionStays DEF ElectionInv
<1>6. ASSUME NEW c \in Callers PROVE CallFits(call[c])'
  BY <1>1, <1>4, CallsStay DEF ElectionInv
<1>7. QED
  BY <1>2, <1>3, <1>5, <1>6 DEF ElectionInv

-----------------------------------------------------------------------------
(* The steps of a call that change no checkpoint of the election.          *)

\* Nothing known, and no status, claim nothing of any election.
LEMMA NothingClaimed ==
  ASSUME TypeOK, NEW e \in Elections
  PROVE  /\ Claimed(e, NothingKnown) /\ VettingSettled(e, NothingKnown)
         /\ StatusClaimed(e, NoStatus)
         /\ \A unread : /\ OperationKnown(e, NothingKnown, unread)
                        /\ OperationShown(e, NoStatus, unread)
<1>1. milestone[e] \in 0 .. 8
  BY DEF TypeOK, Milestones
<1>2. /\ Claimed(e, NothingKnown) /\ VettingSettled(e, NothingKnown)
      /\ \A unread : OperationKnown(e, NothingKnown, unread)
  BY DEF Claimed, NomineeClaim, VettingClaim, MemberClaim, VettingSettled, OperationKnown, NothingKnown
<1>3. StatusClaimed(e, NoStatus) /\ \A unread : OperationShown(e, NoStatus, unread)
  BY <1>1, NothingFacts, ReachedFacts DEF StatusClaimed, PhaseReached, OperationShown
<1>4. QED
  BY <1>2, <1>3

\* The stages a call starts from claim what the election's checkpoints do.
LEMMA LoadedFacts ==
  ASSUME ElectionInv, NEW e \in Elections
  PROVE  /\ loadedStages(e) \in Known /\ Claimed(e, loadedStages(e))
         /\ VettingSettled(e, loadedStages(e)) /\ OperationKnown(e, loadedStages(e), swallowed)
         /\ loadedStages(e).progress # "found"
         /\ loadedStages(e).operation => Traced(e)
<1> DEFINE known == election[e].known
<1>1. /\ known \in Known /\ operation[e] \in {"none", "scheduled", "done"}
      /\ Claimed(e, known) /\ VettingSettled(e, known) /\ OperationKnown(e, known, swallowed)
      /\ operation[e] = "done" => milestone[e] = Enacted
      /\ known.progress = "none" /\ (known.operation => Traced(e))
  BY DEF ElectionInv, TypeOK, ElectionCheckpoint, ElectionFits
<1>2. CASE known.operation
  <2>1. loadedStages(e) = [known EXCEPT !.progress = operation[e]]
    BY <1>2 DEF loadedStages
  <2>2. QED
    BY <1>1, <2>1 DEF Known, Claimed, VettingSettled, OperationKnown
<1>3. CASE ~known.operation
  BY <1>1, <1>3 DEF loadedStages
<1>4. QED
  BY <1>2, <1>3

\* A call that goes on to claim no more than is true keeps the invariant.
LEMMA ReadStep ==
  ASSUME ElectionInv, NEW c \in Callers, NEW r \in Call, call' = [call EXCEPT ![c] = r],
         CallClaims(r, swallowed'), CallPlace(r), call[c].pc # "saveOperation",
         UNCHANGED <<milestone, fate, election, operation, ids, severed, crashes>>,
         creationTx' \in [Elections -> {"none", "tracked", "empty"}],
         swallowed \subseteq swallowed', swallowed' \in SUBSET Elections, faults' \in 0 .. MaxFaults
  PROVE  ElectionInv'
<1>1. TypeOK /\ FatesFit /\ CreatedInOrder
  BY DEF ElectionInv
<1>2. Later
  <2>1. \A e \in Elections : Traced(e) => Traced(e)'
    BY <1>1, TracesStay
  <2>2. QED
    BY <1>1, <2>1 DEF Later, TypeOK, Milestones
<1>3. FatesFit' /\ CreatedInOrder'
  BY <1>1 DEF FatesFit, CreatedInOrder
<1>4. CallPlace(call[c])'
  BY <1>1, <1>2, PlaceStays
<1>5. call' \in [Callers -> Call] /\ \A d \in Callers : CallFits(call[d])'
  BY <1>2, <1>4, CallMoves DEF chainVars
<1>6. TypeOK'
  BY <1>1, <1>5 DEF TypeOK
<1>7. ASSUME NEW e \in Elections PROVE ElectionFits(e)'
  BY <1>1, <1>2, ElectionStays DEF ElectionInv
<1>8. QED
  BY <1>3, <1>5, <1>6, <1>7 DEF ElectionInv

\* In particular a call that ends.
LEMMA IdleStep ==
  ASSUME ElectionInv, NEW c \in Callers, call' = [call EXCEPT ![c] = IdleCall],
         call[c].pc # "saveOperation",
         UNCHANGED <<milestone, fate, election, operation, ids, swallowed, severed, crashes>>,
         creationTx' \in [Elections -> {"none", "tracked", "empty"}], faults' \in 0 .. MaxFaults
  PROVE  ElectionInv'
<1>1. TypeOK /\ IdleCall \in Call /\ 0 \in Elections
  BY NothingFacts, ElectionBounds DEF ElectionInv, Elections
<1>2. CallClaims(IdleCall, swallowed') /\ CallPlace(IdleCall)
  BY <1>1, NothingClaimed, NothingFacts DEF CallClaims, CallPlace, IdleCall
<1>3. QED
  BY <1>1, <1>2, ReadStep DEF TypeOK

\* Calls start.
LEMMA StartStep ==
  ASSUME ElectionInv, NEW c \in Callers, NEW e \in Elections,
         trackElection(c, e) \/ trackByTxHash(c, e)
  PROVE  ElectionInv'
<1>1. /\ TypeOK /\ call[c].pc = "idle"
      /\ UNCHANGED <<milestone, fate, election, operation, creationTx, ids, swallowed, severed,
                     faults, crashes>>
  BY DEF ElectionInv, trackElection, trackByTxHash, chainVars, cacheVars
<1>2. CASE trackElection(c, e)
  <2> DEFINE r == [IdleCall EXCEPT !.pc = "CREATE_ELECTION", !.index = e, !.known = loadedStages(e)]
  <2>1. /\ r \in Call /\ r.pc = "CREATE_ELECTION" /\ r.index = e /\ r.known = loadedStages(e)
        /\ r.status = NoStatus
    BY NothingFacts, LoadedFacts DEF Call, IdleCall, Step, TrackSteps
  <2>2. CallClaims(r, swallowed') /\ CallPlace(r)
    BY <1>1, <2>1, LoadedFacts, NothingClaimed, NothingFacts DEF CallClaims, CallPlace
  <2>3. call' = [call EXCEPT ![c] = r]
    BY <1>2 DEF trackElection
  <2>4. QED
    BY <1>1, <2>1, <2>2, <2>3, ReadStep DEF TypeOK
<1>3. CASE trackByTxHash(c, e)
  <2> DEFINE r == [IdleCall EXCEPT !.pc = "governor", !.byTx = TRUE, !.index = e,
                                   !.loadedTx = creationTx[e]]
  <2>1. /\ r \in Call /\ r.pc = "governor" /\ r.index = e /\ r.known = NothingKnown
        /\ r.status = NoStatus
    BY <1>1, NothingFacts DEF Call, IdleCall, Step, TypeOK
  <2>2. CallClaims(r, swallowed') /\ CallPlace(r)
    BY <1>1, <2>1, NothingClaimed, NothingFacts DEF CallClaims, CallPlace
  <2>3. call' = [call EXCEPT ![c] = r]
    BY <1>3 DEF trackByTxHash
  <2>4. QED
    BY <1>1, <2>1, <2>2, <2>3, ReadStep DEF TypeOK
<1>4. QED
  BY <1>2, <1>3

\* A stage has been tracked: what the call then claims has to be so.
LEMMA StageStep ==
  ASSUME ElectionInv, NEW c \in Callers, NEW k \in Known, NEW next \in Step, Goto(c, next, k),
         UNCHANGED <<chainVars, cacheVars, severed, crashes>>, call[c].pc # "saveOperation",
         swallowed \subseteq swallowed', swallowed' \in SUBSET Elections, faults' \in 0 .. MaxFaults,
         Claimed(call[c].index, k), OperationKnown(call[c].index, k, swallowed'),
         next # "NOMINEE_VETTING" => VettingSettled(call[c].index, k),
         next = "NOMINEE_ELECTION" => milestone[call[c].index] >= Contending,
         next = "NOMINEE_VETTING" => milestone[call[c].index] >= Vetting,
         next = "MEMBER_ELECTION" => milestone[call[c].index] >= MemberVoting,
         next \in TrackSteps \ {"saveOperation", "saveStatus"},
         k.operation => Traced(call[c].index) \/ k.progress # "none",
         k.progress = "found" => next = "TIMELOCK"
  PROVE  ElectionInv'
<1> DEFINE r == [call[c] EXCEPT !.pc = next, !.known = k]
<1>1. TypeOK /\ call[c] \in Call /\ CallFits(call[c])
  BY DEF ElectionInv, TypeOK
<1>2. /\ r \in Call /\ r.pc = next /\ r.index = call[c].index /\ r.known = k
      /\ r.status = call[c].status
  BY <1>1 DEF Call
<1>3. CallClaims(r, swallowed')
  BY <1>1, <1>2 DEF CallFits, CallClaims, OperationShown
<1>4. CallPlace(r)
  BY <1>1, <1>2 DEF CallFits, CallPlace, TrackSteps
<1>5. call' = [call EXCEPT ![c] = r]
  BY DEF Goto
<1>6. QED
  BY <1>1, <1>2, <1>3, <1>4, <1>5, ReadStep DEF TypeOK, chainVars, cacheVars

\* What a call in one of its stages can count on.
LEMMA StageFacts ==
  ASSUME ElectionInv, NEW c \in Callers
  PROVE  /\ TypeOK /\ FatesFit /\ call[c] \in Call
         /\ call[c].index \in Elections /\ call[c].known \in Known
         /\ milestone[call[c].index] \in 0 .. 8
         /\ CallClaims(call[c], swallowed) /\ CallPlace(call[c])
         /\ Claimed(call[c].index, call[c].known)
         /\ OperationKnown(call[c].index, call[c].known, swallowed)
         /\ call[c].known.operation => Traced(call[c].index) \/ call[c].known.progress # "none"
         /\ call[c].known.progress = "found" => call[c].pc = "TIMELOCK"
BY DEF ElectionInv, TypeOK, Call, CallFits, CallClaims, CallPlace, Milestones

\* A caught read is remembered when it fails.
LEMMA CaughtFacts ==
  ASSUME TypeOK, NEW c \in Callers, NEW answer \in BOOLEAN, NEW found \in BOOLEAN,
         Caught(c, answer, found), call[c].index \in Elections
  PROVE  /\ swallowed \subseteq swallowed' /\ swallowed' \in SUBSET Elections
         /\ faults' \in 0 .. MaxFaults
         /\ found => answer
         /\ answer /\ ~found => call[c].index \in swallowed'
<1>1. /\ found => answer
      /\ answer /\ ~found => swallowed' = swallowed \cup {call[c].index}
      /\ \/ UNCHANGED <<swallowed, faults>>
         \/ /\ faults < MaxFaults /\ faults' = faults + 1
            /\ swallowed' = swallowed \cup {call[c].index}
  BY DEF Caught
<1>2. QED
  BY <1>1, ElectionBounds DEF TypeOK

\* The nominee proposal is looked for, unless it was found before; a read that fails is
\* taken for its absence.
LEMMA CreateElectionStep ==
  ASSUME ElectionInv, NEW c \in Callers, trackCreateElectionStage(c)
  PROVE  ElectionInv'
<1> DEFINE e == call[c].index  k == call[c].known
<1>t. /\ TypeOK /\ FatesFit /\ e \in Elections /\ k \in Known /\ milestone[e] \in 0 .. 8
      /\ Claimed(e, k) /\ OperationKnown(e, k, swallowed) /\ VettingSettled(e, k)
      /\ k.operation => Traced(e) \/ k.progress # "none"
      /\ k.progress # "found"
      /\ call[c].pc = "CREATE_ELECTION" /\ UNCHANGED <<chainVars, cacheVars, severed, crashes>>
  BY StageFacts DEF trackCreateElectionStage, CallClaims
<1>a. CASE k.created /\ Goto(c, "NOMINEE_ELECTION", k) /\ UNCHANGED <<swallowed, faults>>
  <2>1. milestone[e] >= Contending
    BY <1>t, <1>a DEF Claimed
  <2>2. "NOMINEE_ELECTION" \in Step \cap TrackSteps
    BY DEF Step, TrackSteps
  <2>3. QED
    BY <1>t, <1>a, <2>1, <2>2, StageStep DEF TypeOK
<1>b. ASSUME NEW found \in BOOLEAN, Caught(c, milestone[e] # Uncreated, found),
             LET new == [k EXCEPT !.created = found]
             IN  Goto(c, IF found THEN "NOMINEE_ELECTION" ELSE Stop(new), new)
      PROVE  ElectionInv'
  <2> DEFINE new == [k EXCEPT !.created = found]
             next == IF found THEN "NOMINEE_ELECTION" ELSE Stop(new)
  <2>2. /\ swallowed \subseteq swallowed' /\ swallowed' \in SUBSET Elections
        /\ faults' \in 0 .. MaxFaults
        /\ found => milestone[e] >= Contending
    <3>1. found => milestone[e] # Uncreated
      BY <1>b DEF Caught
    <3>2. /\ swallowed \subseteq swallowed' /\ swallowed' \in SUBSET Elections
          /\ faults' \in 0 .. MaxFaults
      BY <1>t, <1>b, CaughtFacts, (milestone[e] # Uncreated) \in BOOLEAN
    <3>3. QED
      BY <1>t, <3>1, <3>2
  <2>3. /\ new \in Known /\ new.created = found /\ new.nominee = k.nominee /\ new.member = k.member
        /\ new.vetting = k.vetting /\ new.memberId = k.memberId /\ new.operation = k.operation
        /\ new.progress = k.progress /\ new.misread = k.misread
    BY <1>t DEF Known
  <2>4. Claimed(e, new) /\ OperationKnown(e, new, swallowed') /\ VettingSettled(e, new)
    BY <1>t, <2>2, <2>3 DEF Claimed, OperationKnown, VettingSettled
  <2>5. /\ next \in {"NOMINEE_ELECTION", "TIMELOCK", "saveStages"}
        /\ next = "NOMINEE_ELECTION" => found
    BY DEF Stop
  <2>6. next \in Step /\ next \in TrackSteps \ {"saveOperation", "saveStatus"}
    BY <2>5 DEF Step, TrackSteps
  <2>7. Goto(c, next, new)
    BY <1>b
  <2> HIDE DEF new, next
  <2>8. QED
    BY <1>t, <2>2, <2>3, <2>4, <2>5, <2>6, <2>7, StageStep
<1>c. QED
  BY <1>a, <1>b DEF trackCreateElectionStage

\* Its state is read; only a proposal that is over leads on to the vetting, and its
\* stage is then kept.
LEMMA NomineeElectionStep ==
  ASSUME ElectionInv, NEW c \in Callers, trackNomineeElectionStage(c)
  PROVE  ElectionInv'
<1> DEFINE e == call[c].index  k == call[c].known
           cached == k.nominee # "null" /\ isComplete(k.nominee)
           state == IF cached THEN k.nominee ELSE nomineeState(e)
           new == IF cached THEN k ELSE [k EXCEPT !.nominee = nomineeState(e)]
           next == IF isComplete(new.nominee) THEN "NOMINEE_VETTING" ELSE Stop(new)
<1>t. /\ TypeOK /\ FatesFit /\ e \in Elections /\ k \in Known /\ milestone[e] \in 0 .. 8
      /\ Claimed(e, k) /\ OperationKnown(e, k, swallowed) /\ milestone[e] >= Contending
      /\ k.operation => Traced(e) \/ k.progress # "none"
      /\ k.progress # "found" /\ call[c].pc = "NOMINEE_ELECTION"
  BY StageFacts DEF trackNomineeElectionStage, CallClaims
<1>1. /\ state \in ProposalState \ {"null"} /\ NomineeClaim(e, state)
  BY <1>t, StateFacts DEF Known, Claimed
<1>2. /\ new \in Known /\ new.created = k.created /\ new.nominee = state /\ new.member = k.member
      /\ new.vetting = k.vetting /\ new.memberId = k.memberId /\ new.operation = k.operation
      /\ new.progress = k.progress /\ new.misread = k.misread
  BY <1>t, <1>1 DEF Known
<1>3. Claimed(e, new) /\ OperationKnown(e, new, swallowed)
  BY <1>t, <1>1, <1>2 DEF Claimed, OperationKnown
<1>4. /\ next \in {"NOMINEE_VETTING", "TIMELOCK", "saveStages"}
      /\ next = "NOMINEE_VETTING" => milestone[e] >= Vetting
      /\ next # "NOMINEE_VETTING" => state # "Succeeded"
  <2>1. next = IF isComplete(state) THEN "NOMINEE_VETTING" ELSE Stop(new)
    BY <1>2
  <2> HIDE DEF state, new, next, cached
  <2>2. QED
    BY <1>t, <1>1, <2>1 DEF Stop, isComplete, ProposalState, NomineeClaim, FatesFit
<1>5. next # "NOMINEE_VETTING" => VettingSettled(e, new)
  BY <1>2, <1>4 DEF VettingSettled
<1>6. next \in Step /\ next \in TrackSteps \ {"saveOperation", "saveStatus"}
  BY <1>4 DEF Step, TrackSteps
<1>7. UNCHANGED <<chainVars, cacheVars, swallowed, severed, faults, crashes>> /\ Goto(c, next, new)
  BY DEF trackNomineeElectionStage
<1> HIDE DEF new, next, state, cached
<1>8. QED
  BY <1>t, <1>2, <1>3, <1>4, <1>5, <1>6, <1>7, StageStep DEF TypeOK

\* The vetting, and the member proposal that ends it.
LEMMA NomineeVettingStep ==
  ASSUME ElectionInv, NEW c \in Callers, trackNomineeVettingStage(c)
  PROVE  ElectionInv'
<1> DEFINE e == call[c].index  k == call[c].known
<1>t. /\ TypeOK /\ FatesFit /\ e \in Elections /\ k \in Known /\ milestone[e] \in 0 .. 8
      /\ Claimed(e, k) /\ OperationKnown(e, k, swallowed) /\ milestone[e] >= Vetting
      /\ k.operation => Traced(e) \/ k.progress # "none"
      /\ k.progress # "found"
      /\ call[c].pc = "NOMINEE_VETTING" /\ UNCHANGED <<chainVars, cacheVars, severed, crashes>>
  BY StageFacts DEF trackNomineeVettingStage, CallClaims
<1>s. /\ nomineeState(e) = "Succeeded" => milestone[e] \in {Vetting, Vetted}
      /\ nomineeState(e) = "Executed" => milestone[e] >= MemberVoting
  BY <1>t, StateFacts DEF NomineeClaim
\* What any outcome has to fulfil for the call to go on from it.
<1>u. ASSUME NEW status \in {"PENDING", "READY", "COMPLETED", "FAILED"}, NEW misread \in BOOLEAN,
             NEW found \in BOOLEAN, VettingClaim(e, status, misread),
             status # "PENDING" => milestone[e] >= Vetted \/ misread,
             found => milestone[e] >= MemberVoting,
             swallowed \subseteq swallowed', swallowed' \in SUBSET Elections, faults' \in 0 .. MaxFaults,
             LET new == [k EXCEPT !.vetting = status, !.misread = misread, !.memberId = found]
             IN  Goto(c, IF found THEN "MEMBER_ELECTION" ELSE Stop(new), new)
      PROVE  ElectionInv'
  <2> DEFINE new == [k EXCEPT !.vetting = status, !.misread = misread, !.memberId = found]
             next == IF found THEN "MEMBER_ELECTION" ELSE Stop(new)
  <2>1. /\ new \in Known /\ new.created = k.created /\ new.nominee = k.nominee /\ new.member = k.member
        /\ new.vetting = status /\ new.memberId = found /\ new.operation = k.operation
        /\ new.progress = k.progress /\ new.misread = misread
    BY <1>t DEF Known
  <2>2. Claimed(e, new) /\ OperationKnown(e, new, swallowed') /\ VettingSettled(e, new)
    BY <1>t, <1>u, <2>1 DEF Claimed, OperationKnown, VettingSettled
  <2>3. /\ next \in {"MEMBER_ELECTION", "TIMELOCK", "saveStages"}
        /\ next = "MEMBER_ELECTION" => milestone[e] >= MemberVoting
    BY <1>u DEF Stop
  <2>4. next \in Step /\ next \in TrackSteps \ {"saveOperation", "saveStatus"}
    BY <2>3 DEF Step, TrackSteps
  <2>5. Goto(c, next, new)
    BY <1>u
  <2> HIDE DEF new, next
  <2>6. QED
    BY <1>t, <1>u, <2>1, <2>2, <2>3, <2>4, <2>5, StageStep
<1>a. CASE k.vetting = "COMPLETED" /\ Goto(c, "MEMBER_ELECTION", k) /\ UNCHANGED <<swallowed, faults>>
  <2>1. milestone[e] >= MemberVoting
    BY <1>t, <1>a DEF Claimed, VettingClaim
  <2>2. "MEMBER_ELECTION" \in Step \cap TrackSteps /\ VettingSettled(e, k)
    BY <1>t, <2>1 DEF Step, TrackSteps, VettingSettled
  <2>3. QED
    BY <1>t, <1>a, <2>1, <2>2, StageStep DEF TypeOK
<1>b. ASSUME nomineeState(e) = "Succeeded", UNCHANGED swallowed,
             NEW deadlineRead \in BOOLEAN, NEW countRead \in BOOLEAN, NEW enough \in nomineesSuffice(e),
             LET misread == ~(deadlineRead /\ countRead)
                 new == [k EXCEPT !.vetting = vettingStatus(e, deadlineRead, countRead /\ enough),
                                  !.misread = misread, !.memberId = FALSE]
             IN  /\ Goto(c, Stop(new), new)
                 /\ IF misread THEN faults < MaxFaults /\ faults' = faults + 1 ELSE UNCHANGED faults
      PROVE  ElectionInv'
  <2> DEFINE status == vettingStatus(e, deadlineRead, countRead /\ enough)
             misread == ~(deadlineRead /\ countRead)
             new == [k EXCEPT !.vetting = status, !.misread = misread, !.memberId = FALSE]
  <2>1. faults' \in 0 .. MaxFaults /\ swallowed' \in SUBSET Elections
    BY <1>t, <1>b, ElectionBounds DEF TypeOK
  <2>2. /\ enough \in BOOLEAN
        /\ milestone[e] = Vetted => enough = (fate[e] # "short")
    <3>1. CASE milestone[e] = Vetting
      BY <1>b, <3>1 DEF nomineesSuffice
    <3>2. CASE milestone[e] # Vetting
      <4>1. enough \in {fate[e] # "short"}
        BY <1>b, <3>2 DEF nomineesSuffice
      <4>2. QED
        BY <4>1, Zenon
    <3>3. QED
      BY <3>1, <3>2
  <2>3. /\ status \in {"PENDING", "READY", "COMPLETED", "FAILED"} /\ VettingClaim(e, status, misread)
        /\ status # "PENDING" => milestone[e] >= Vetted \/ misread
    BY <1>t, <1>s, <1>b, <2>2 DEF vettingStatus, VettingClaim
  <2>4. Goto(c, Stop(new), new)
    BY <1>b
  <2> HIDE DEF status
  <2>5. QED
    BY <1>b, <1>u, <2>1, <2>3, <2>4
<1>c. ASSUME nomineeState(e) = "Executed", NEW found \in BOOLEAN, Caught(c, TRUE, found),
             LET new == [k EXCEPT !.vetting = "COMPLETED", !.misread = FALSE, !.memberId = found]
             IN  Goto(c, IF found THEN "MEMBER_ELECTION" ELSE Stop(new), new)
      PROVE  ElectionInv'
  <2>1. /\ swallowed \subseteq swallowed' /\ swallowed' \in SUBSET Elections
        /\ faults' \in 0 .. MaxFaults
    BY <1>t, <1>c, CaughtFacts
  <2>2. /\ milestone[e] >= MemberVoting /\ milestone[e] >= Vetted
        /\ VettingClaim(e, "COMPLETED", FALSE)
    BY <1>t, <1>s, <1>c DEF VettingClaim
  <2> DEFINE status == "COMPLETED"
  <2>3. /\ status \in {"PENDING", "READY", "COMPLETED", "FAILED"} /\ FALSE \in BOOLEAN
        /\ LET new == [k EXCEPT !.vetting = status, !.misread = FALSE, !.memberId = found]
           IN  Goto(c, IF found THEN "MEMBER_ELECTION" ELSE Stop(new), new)
    BY <1>c
  <2>4. VettingClaim(e, status, FALSE)
    BY <2>2
  <2> HIDE DEF status, e, k
  <2>5. QED
    BY <1>c, <1>u, <2>1, <2>2, <2>3, <2>4
<1>d. QED
  BY <1>a, <1>b, <1>c DEF trackNomineeVettingStage

\* The member proposal's state and, once it is executed, its operation.
LEMMA MemberElectionStep ==
  ASSUME ElectionInv, NEW c \in Callers, trackMemberElectionStage(c)
  PROVE  ElectionInv'
<1> DEFINE e == call[c].index  k == call[c].known
<1>t. /\ TypeOK /\ FatesFit /\ e \in Elections /\ k \in Known /\ milestone[e] \in 0 .. 8
      /\ Claimed(e, k) /\ VettingSettled(e, k) /\ milestone[e] >= MemberVoting
      /\ OperationKnown(e, k, swallowed)
      /\ k.operation => Traced(e) \/ k.progress # "none"
      /\ k.progress # "found"
      /\ call[c].pc = "MEMBER_ELECTION" /\ UNCHANGED <<chainVars, cacheVars, severed, crashes>>
  BY StageFacts DEF trackMemberElectionStage, CallClaims
<1>s. \A q \in Known : /\ Stop(q) \in {"TIMELOCK", "saveStages"}
                       /\ Stop(q) \in Step /\ Stop(q) \in TrackSteps \ {"saveOperation", "saveStatus"}
                       /\ q.member = "Executed" => Stop(q) = "TIMELOCK"
  BY DEF Stop, Step, TrackSteps
<1>a. CASE Goto(c, Stop(k), k) /\ UNCHANGED <<swallowed, faults>>
  <2> DEFINE next == Stop(k)
  <2>1. /\ next \in {"TIMELOCK", "saveStages"} /\ next \in Step
        /\ next \in TrackSteps \ {"saveOperation", "saveStatus"}
    BY <1>t, <1>s
  <2>2. Goto(c, next, k)
    BY <1>a
  <2> HIDE DEF next
  <2>3. QED
    BY <1>t, <1>a, <2>1, <2>2, StageStep DEF TypeOK
<1>b. ASSUME NEW found \in BOOLEAN, Caught(c, milestone[e] >= Installed, found),
             LET new == [k EXCEPT !.member = memberState(e), !.operation = found,
                                  !.progress = IF found THEN "found" ELSE "none"]
             IN  Goto(c, Stop(new), new)
      PROVE  ElectionInv'
  <2> DEFINE progress == IF found THEN "found" ELSE "none"
             new == [k EXCEPT !.member = memberState(e), !.operation = found, !.progress = progress]
             next == Stop(new)
  <2>2. /\ swallowed \subseteq swallowed' /\ swallowed' \in SUBSET Elections
        /\ faults' \in 0 .. MaxFaults
        /\ found => milestone[e] >= Installed
        /\ milestone[e] >= Installed /\ ~found => e \in swallowed'
    <3>1. (milestone[e] >= Installed) \in BOOLEAN
      BY <1>t
    <3>2. QED
      BY <1>t, <1>b, <3>1, CaughtFacts
  <2>3. /\ memberState(e) \in ProposalState /\ MemberClaim(e, memberState(e))
        /\ milestone[e] >= Installed => memberState(e) = "Executed"
    BY <1>t, StateFacts DEF memberState, FatesFit
  <2>4. /\ new \in Known /\ new.created = k.created /\ new.nominee = k.nominee
        /\ new.member = memberState(e) /\ new.vetting = k.vetting /\ new.memberId = k.memberId
        /\ new.operation = found /\ new.progress = progress /\ new.misread = k.misread
    BY <1>t, <2>3 DEF Known
  <2>5. progress = IF found THEN "found" ELSE "none"
    OBVIOUS
  <2> HIDE DEF new, progress
  <2>6. Claimed(e, new) /\ VettingSettled(e, new)
    BY <1>t, <2>3, <2>4, <2>5 DEF Claimed, VettingSettled
  <2>7. OperationKnown(e, new, swallowed')
    <3>1. memberState(e) = "Executed" /\ e \notin swallowed' => found
      BY <1>t, <2>2, <2>3 DEF MemberClaim
    <3>2. QED
      BY <2>4, <3>1 DEF OperationKnown
  <2>8. /\ next \in {"TIMELOCK", "saveStages"} /\ next \in Step
        /\ next \in TrackSteps \ {"saveOperation", "saveStatus"}
        /\ found => next = "TIMELOCK"
    BY <1>s, <2>2, <2>3, <2>4
  <2>9. Goto(c, next, new)
    BY <1>b DEF new, progress
  <2> HIDE DEF next
  <2>10. QED
    BY <1>t, <2>2, <2>4, <2>5, <2>6, <2>7, <2>8, <2>9, StageStep
<1>c. QED
  BY <1>a, <1>b DEF trackMemberElectionStage

\* The operation's own stages.
LEMMA TimelockStep ==
  ASSUME ElectionInv, NEW c \in Callers, trackTimelockStages(c)
  PROVE  ElectionInv'
<1> DEFINE e == call[c].index  k == call[c].known
           done == IF milestone[e] = Enacted THEN "done" ELSE "scheduled"
           new == IF k.progress # "none" THEN [k EXCEPT !.progress = done] ELSE k
<1>t. /\ TypeOK /\ e \in Elections /\ k \in Known /\ milestone[e] \in 0 .. 8
      /\ Claimed(e, k) /\ OperationKnown(e, k, swallowed) /\ VettingSettled(e, k)
      /\ k.operation => Traced(e) \/ k.progress # "none"
      /\ call[c].pc = "TIMELOCK"
  BY StageFacts DEF trackTimelockStages, CallClaims
<1>1. /\ done \in {"scheduled", "done"}
      /\ done = "done" => milestone[e] = Enacted
  OBVIOUS
<1> HIDE DEF done
<1>2. /\ new \in Known /\ new.created = k.created /\ new.nominee = k.nominee /\ new.member = k.member
      /\ new.vetting = k.vetting /\ new.memberId = k.memberId /\ new.operation = k.operation
      /\ new.progress = (IF k.progress # "none" THEN done ELSE k.progress)
      /\ new.misread = k.misread
  BY <1>t, <1>1 DEF Known
<1>5. UNCHANGED <<chainVars, cacheVars, swallowed, severed, faults, crashes>> /\ Goto(c, "saveStages", new)
  BY DEF trackTimelockStages, done
<1> HIDE DEF new
<1>3. Claimed(e, new) /\ OperationKnown(e, new, swallowed) /\ VettingSettled(e, new)
  BY <1>t, <1>1, <1>2 DEF Claimed, OperationKnown, VettingSettled
<1>4. /\ new.operation => Traced(e) \/ new.progress # "none"
      /\ new.progress # "found"
  BY <1>t, <1>1, <1>2
<1>6. "saveStages" \in Step /\ "saveStages" \in TrackSteps \ {"saveOperation", "saveStatus"}
  BY DEF Step, TrackSteps
<1>7. QED
  BY <1>t, <1>2, <1>3, <1>4, <1>5, <1>6, StageStep DEF TypeOK

-----------------------------------------------------------------------------
(* The steps that write a checkpoint of the election.                      *)

\* A write that leaves the election's checkpoints right keeps the invariant.
LEMMA WriteStep ==
  ASSUME ElectionInv, NEW c \in Callers, NEW r \in Call, call' = [call EXCEPT ![c] = r],
         CallClaims(r, swallowed'), CallPlace(call[c])',
         UNCHANGED <<milestone, fate, creationTx, ids, crashes>>, faults' \in 0 .. MaxFaults,
         swallowed \subseteq swallowed', swallowed' \in SUBSET Elections, NEW e \in Elections,
         election' \in [Elections -> ElectionCheckpoint],
         operation' \in [Elections -> {"none", "scheduled", "done"}],
         \A d \in Elections \ {e} : election'[d] = election[d] /\ operation'[d] = operation[d],
         election[e].kind # "none" => election'[e].kind # "none",
         severed' = severed, \A d \in Elections : Traced(d) => Traced(d)', ElectionFits(e)'
  PROVE  ElectionInv'
<1>1. TypeOK /\ FatesFit /\ CreatedInOrder
  BY DEF ElectionInv
<1>2. Later
  BY <1>1 DEF Later, TypeOK, Milestones
<1>3. FatesFit' /\ CreatedInOrder'
  BY <1>1 DEF FatesFit, CreatedInOrder
<1>4. call' \in [Callers -> Call] /\ \A d \in Callers : CallFits(call[d])'
  BY <1>2, CallMoves DEF chainVars
<1>5. TypeOK'
  BY <1>1, <1>4 DEF TypeOK
<1>6. ASSUME NEW d \in Elections PROVE ElectionFits(d)'
  <2>1. CASE d = e
    BY <2>1
  <2>2. CASE d # e
    BY <1>1, <1>2, <2>2, ElectionStays DEF ElectionInv
  <2>3. QED
    BY <2>1, <2>2
<1>7. QED
  BY <1>3, <1>4, <1>5, <1>6 DEF ElectionInv

\* The parent's stages are written.
LEMMA SaveStagesStep ==
  ASSUME ElectionInv, NEW c \in Callers, saveStages(c)
  PROVE  ElectionInv'
<1>e. PICK e \in Elections, k \in Known : e = call[c].index /\ k = call[c].known
  BY StageFacts
<1> DEFINE new == StagesCheckpoint(k)
           next == IF k.operation /\ k.progress # "none" THEN "saveOperation" ELSE "saveStatus"
           r == [call[c] EXCEPT !.pc = next, !.known = k]
<1>t. /\ TypeOK /\ call[c] \in Call /\ call[c].pc = "saveStages"
      /\ CallClaims(call[c], swallowed) /\ CallPlace(call[c])
      /\ Claimed(e, k) /\ OperationKnown(e, k, swallowed) /\ VettingSettled(e, k)
  BY <1>e, StageFacts DEF saveStages, CallClaims
<1>1. /\ election' = [election EXCEPT ![e] = new] /\ call' = [call EXCEPT ![c] = r]
      /\ UNCHANGED <<milestone, fate, operation, creationTx, ids, swallowed, severed, faults, crashes>>
  BY <1>e DEF saveStages, Goto, chainVars
<1>a. \A d \in Elections : Traced(d) => Traced(d)'
  BY <1>t, <1>1, TracesStay
<1>2. /\ new \in ElectionCheckpoint /\ new.kind = "stages" /\ new.status = NoStatus
      /\ new.known = [k EXCEPT !.progress = "none"]
  BY <1>t, NothingFacts DEF StagesCheckpoint, NoElection, ElectionCheckpoint, Known
<1> HIDE DEF new
<1>3. next \in {"saveOperation", "saveStatus"}
  OBVIOUS
<1>4. r \in Call /\ r.pc = next /\ r.index = e /\ r.known = k /\ r.status = call[c].status
  BY <1>e, <1>t, <1>3 DEF Call, Step, TrackSteps
<1>5. CallClaims(r, swallowed')
  BY <1>e, <1>t, <1>1, <1>3, <1>4 DEF CallClaims
<1>6. CallPlace(call[c])'
  <2>1. call'[c] = r /\ election'[e].kind = "stages" /\ operation' = operation
    BY <1>e, <1>t, <1>1, <1>2 DEF TypeOK
  <2>2. next = "saveStatus" /\ k.operation => Traced(e)
    BY <1>e, <1>t DEF CallPlace
  <2>3. /\ next = "saveOperation" => k.progress # "none"
        /\ k.progress # "found"
        /\ call[c].status.phase = "COMPLETED" /\ call[c].status.operation => Traced(e)
    BY <1>e, <1>t DEF CallPlace
  <2>4. "saveOperation" \in TrackSteps \ {"saveStatus"}
    BY DEF TrackSteps
  <2> HIDE DEF r, next
  <2>5. QED
    BY <1>a, <1>3, <1>4, <2>1, <2>2, <2>3, <2>4 DEF CallPlace
<1>b. k.operation => Traced(e)'
  <2>1. CASE Traced(e)
    BY <1>a, <2>1
  <2>2. CASE ~Traced(e) /\ k.operation
    <3>1. next = "saveOperation" /\ call'[c] = r
      BY <1>e, <1>t, <1>1, <2>2 DEF CallPlace, TypeOK
    <3> HIDE DEF r, next
    <3>2. QED
      BY <1>4, <3>1 DEF Traced, aboutToStore
  <2>3. QED
    BY <2>1, <2>2
<1>7. ElectionFits(e)'
  <2>1. /\ election'[e] = new /\ operation'[e] = operation[e] /\ ids'[e] = ids[e]
        /\ milestone' = milestone /\ fate' = fate /\ ElectionFits(e) /\ swallowed' = swallowed
    BY <1>e, <1>t, <1>1 DEF TypeOK, ElectionInv
  <2>2. Later /\ new.known \in Known
    BY <1>a, <1>e, <1>t, <1>1, <1>2, <2>1 DEF Later, TypeOK, Milestones, ElectionCheckpoint
  <2>3. /\ Claimed(e, new.known) /\ OperationKnown(e, new.known, swallowed)
        /\ VettingSettled(e, new.known) /\ new.known.progress = "none"
        /\ new.known.operation = k.operation
    BY <1>e, <1>t, <1>2 DEF Claimed, OperationKnown, VettingSettled, Known
  <2>4. /\ Claimed(e, new.known)' /\ VettingSettled(e, new.known)' /\ StatusClaimed(e, NoStatus)'
    BY <1>e, <1>t, <2>2, <2>3, ClaimsStay, NothingClaimed, NothingFacts
  <2>5. NoStatus.phase # "COMPLETED"
    BY NothingFacts
  <2>6. /\ Claimed(e, election[e].known)' /\ VettingSettled(e, election[e].known)'
        /\ StatusClaimed(e, election[e].status)'
    BY <1>2, <2>1, <2>4
  <2>7. QED
    BY <1>b, <1>2, <2>1, <2>3, <2>5, <2>6 DEF ElectionFits, OperationKnown, OperationShown, isCompleted
<1>8. election' \in [Elections -> ElectionCheckpoint] /\ election'[e].kind = "stages"
      /\ \A d \in Elections \ {e} : election'[d] = election[d] /\ operation'[d] = operation[d]
  BY <1>e, <1>t, <1>1, <1>2 DEF TypeOK
<1> HIDE DEF r
<1>9. QED
  BY <1>a, <1>e, <1>t, <1>1, <1>4, <1>5, <1>6, <1>7, <1>8, WriteStep DEF TypeOK

\* Then the operation's.
LEMMA SaveOperationStep ==
  ASSUME ElectionInv, NEW c \in Callers, saveOperation(c)
  PROVE  ElectionInv'
<1>e. PICK e \in Elections, k \in Known : e = call[c].index /\ k = call[c].known
  BY StageFacts
<1> DEFINE r == [call[c] EXCEPT !.pc = "saveStatus", !.known = k]
<1>t. /\ TypeOK /\ call[c] \in Call /\ call[c].pc = "saveOperation" /\ ElectionFits(e)
      /\ CallClaims(call[c], swallowed) /\ CallPlace(call[c]) /\ Claimed(e, k)
  BY <1>e, StageFacts DEF saveOperation, ElectionInv
<1>1. /\ operation' = [operation EXCEPT ![e] = k.progress] /\ call' = [call EXCEPT ![c] = r]
      /\ UNCHANGED <<milestone, fate, election, creationTx, ids, swallowed, severed, faults, crashes>>
  BY <1>e DEF saveOperation, Goto, chainVars
<1>2. /\ k.progress \in {"scheduled", "done"} /\ election[e].kind # "none"
      /\ k.progress = "done" => milestone[e] = Enacted
  BY <1>e, <1>t DEF CallPlace, Known, Claimed
<1>3. /\ operation' \in [Elections -> {"none", "scheduled", "done"}] /\ operation'[e] = k.progress
      /\ \A d \in Elections \ {e} : election'[d] = election[d] /\ operation'[d] = operation[d]
  BY <1>e, <1>t, <1>1, <1>2 DEF TypeOK
<1>4. /\ r \in Call /\ r.pc = "saveStatus" /\ r.index = e /\ r.known = k
      /\ r.status = call[c].status
  BY <1>e, <1>t DEF Call, Step, TrackSteps
<1>5. CallClaims(r, swallowed')
  BY <1>e, <1>t, <1>1, <1>4 DEF CallClaims
<1>a. Traced(e)' /\ \A d \in Elections : Traced(d) => Traced(d)'
  <2>1. Traced(e)'
    BY <1>2, <1>3 DEF Traced
  <2>2. ASSUME NEW d \in Elections, d # e, Traced(d) PROVE Traced(d)'
    <3>1. \A b \in Callers : call[b].index = d => call'[b] = call[b]
      BY <1>e, <1>t, <1>1, <2>2 DEF TypeOK
    <3>2. aboutToStore(d) => aboutToStore(d)'
      BY <3>1 DEF aboutToStore
    <3>3. QED
      BY <1>1, <1>3, <2>2, <3>2 DEF Traced
  <2>3. QED
    BY <2>1, <2>2
<1>6. CallPlace(call[c])'
  <2>1. call'[c] = r
    BY <1>e, <1>t, <1>1 DEF TypeOK
  <2> HIDE DEF r
  <2>2. QED
    BY <1>a, <1>1, <1>2, <1>3, <1>4, <2>1 DEF CallPlace
<1>7. ElectionFits(e)'
  <2>1. Later
    BY <1>a, <1>e, <1>t, <1>1, <1>2, <1>3 DEF Later, TypeOK, Milestones
  <2>2. /\ election[e].known \in Known /\ election[e].status \in Status
        /\ Claimed(e, election[e].known) /\ VettingSettled(e, election[e].known)
        /\ StatusClaimed(e, election[e].status)
    BY <1>e, <1>t DEF TypeOK, ElectionCheckpoint, ElectionFits
  <2>3. /\ Claimed(e, election[e].known)' /\ VettingSettled(e, election[e].known)'
        /\ StatusClaimed(e, election[e].status)'
    BY <1>e, <1>t, <1>1, <2>1, <2>2, ClaimsStay
  <2>4. QED
    BY <1>a, <1>e, <1>t, <1>1, <1>2, <1>3, <2>3 DEF ElectionFits, OperationKnown, OperationShown, isCompleted
<1> HIDE DEF r
<1>8. QED
  BY <1>a, <1>e, <1>t, <1>1, <1>2, <1>3, <1>4, <1>5, <1>6, <1>7, WriteStep DEF TypeOK

\* A status is written over whatever the election's checkpoint held.
LEMMA StatusWritten ==
  ASSUME ElectionInv, NEW c \in Callers, NEW e \in Elections, e = call[c].index, NEW s \in Status,
         NEW r, call' = [call EXCEPT ![c] = r], call[c].pc # "saveOperation",
         WriteStatus(c, s), UNCHANGED <<milestone, fate, operation, severed, ids>>,
         StatusClaimed(e, s), OperationShown(e, s, swallowed),
         s.phase = "COMPLETED" /\ s.operation => Traced(e)
  PROVE  /\ swallowed \subseteq swallowed' /\ swallowed' \in SUBSET Elections
         /\ faults' \in 0 .. MaxFaults
         /\ election' \in [Elections -> ElectionCheckpoint] /\ election'[e].kind = "status"
         /\ \A d \in Elections \ {e} : election'[d] = election[d]
         /\ ElectionFits(e)' /\ \A d \in Elections : Traced(d) => Traced(d)'
<1>t. TypeOK /\ ElectionFits(e)
  BY DEF ElectionInv
<1>a. \A d \in Elections : Traced(d) => Traced(d)'
  BY <1>t, TracesStay
<1>1. PICK details \in BOOLEAN :
        /\ Caught(c, s.phase = "COMPLETED", details)
        /\ election' = [election EXCEPT ![e] = StatusCheckpoint(s, details)]
  BY DEF WriteStatus
<1> DEFINE new == StatusCheckpoint(s, details)
<1>2. /\ swallowed \subseteq swallowed' /\ swallowed' \in SUBSET Elections
      /\ faults' \in 0 .. MaxFaults
      /\ s.phase = "COMPLETED" /\ ~details => e \in swallowed'
  <2>1. /\ s.phase = "COMPLETED" /\ ~details => swallowed' = swallowed \cup {e}
        /\ \/ UNCHANGED <<swallowed, faults>>
           \/ faults < MaxFaults /\ swallowed' = swallowed \cup {e} /\ faults' = faults + 1
    BY <1>1 DEF Caught
  <2>2. QED
    BY <1>t, <2>1, ElectionBounds DEF TypeOK
<1>3. /\ new \in ElectionCheckpoint /\ new.kind = "status" /\ new.status = s
      /\ new.details = details /\ new.known = NothingKnown
  BY NothingFacts DEF StatusCheckpoint, NoElection, ElectionCheckpoint
<1> HIDE DEF new
<1>4. /\ election' \in [Elections -> ElectionCheckpoint] /\ election'[e] = new
      /\ \A d \in Elections \ {e} : election'[d] = election[d]
  BY <1>t, <1>1, <1>3 DEF TypeOK, new
<1>5. Later
  BY <1>a, <1>t, <1>2, <1>3, <1>4 DEF Later, TypeOK, Milestones
<1>6. /\ Claimed(e, NothingKnown) /\ VettingSettled(e, NothingKnown)
      /\ NothingKnown.member # "Executed"
      /\ NothingKnown.progress = "none" /\ ~NothingKnown.operation
  BY <1>t, NothingClaimed DEF NothingKnown
<1>7. Claimed(e, NothingKnown)' /\ VettingSettled(e, NothingKnown)' /\ StatusClaimed(e, s)'
  BY <1>t, <1>5, <1>6, ClaimsStay, NothingFacts
<1>8. /\ Claimed(e, election[e].known)' /\ VettingSettled(e, election[e].known)'
      /\ StatusClaimed(e, election[e].status)'
  BY <1>3, <1>4, <1>7
<1>9. ElectionFits(e)'
  BY <1>a, <1>t, <1>2, <1>3, <1>4, <1>6, <1>8
     DEF ElectionFits, OperationKnown, OperationShown, isCompleted
<1>10. QED
  BY <1>a, <1>2, <1>3, <1>4, <1>9

\* The status made of what the call knows.
LEMMA SaveStatusStep ==
  ASSUME ElectionInv, NEW c \in Callers, saveElectionCheckpoint(c)
  PROVE  ElectionInv'
<1>e. PICK e \in Elections, k \in Known : e = call[c].index /\ k = call[c].known
  BY StageFacts
<1> DEFINE s == buildElectionStatus(k)
           r == IF call[c].byTx THEN [call[c] EXCEPT !.pc = "saveAgain", !.status = s] ELSE IdleCall
<1>t. /\ TypeOK /\ FatesFit /\ call[c] \in Call /\ call[c].pc = "saveStatus"
      /\ CallClaims(call[c], swallowed) /\ CallPlace(call[c])
      /\ Claimed(e, k) /\ OperationKnown(e, k, swallowed) /\ VettingSettled(e, k)
  BY <1>e, StageFacts DEF saveElectionCheckpoint, CallClaims
<1>1. /\ WriteStatus(c, s) /\ call' = [call EXCEPT ![c] = r]
      /\ UNCHANGED <<milestone, fate, operation, creationTx, ids, severed, crashes>>
  BY <1>e DEF saveElectionCheckpoint, chainVars
<1>2. /\ s \in Status /\ StatusClaimed(e, s) /\ OperationShown(e, s, swallowed)
      /\ s.phase = "COMPLETED" /\ s.operation => Traced(e)
  <2>1. /\ s \in Status /\ StatusClaimed(e, s) /\ s.operation = k.operation
        /\ s.phase = "COMPLETED" <=> k.member = "Executed"
    BY <1>t, StatusFacts
  <2> HIDE DEF s
  <2>2. QED
    BY <1>e, <1>t, <2>1 DEF OperationShown, OperationKnown, CallPlace
<1> HIDE DEF s
<1>3. /\ swallowed \subseteq swallowed' /\ swallowed' \in SUBSET Elections
      /\ faults' \in 0 .. MaxFaults
      /\ election' \in [Elections -> ElectionCheckpoint] /\ election'[e].kind = "status"
      /\ \A d \in Elections \ {e} : election'[d] = election[d]
      /\ ElectionFits(e)' /\ \A d \in Elections : Traced(d) => Traced(d)'
  BY <1>e, <1>t, <1>1, <1>2, StatusWritten
<1>4. CASE call[c].byTx
  <2>1. /\ r \in Call /\ r.pc = "saveAgain" /\ r.index = e /\ r.known = k /\ r.status = s
    BY <1>e, <1>t, <1>2, <1>4 DEF Call, Step
  <2>2. CallClaims(r, swallowed')
    BY <1>e, <1>t, <1>2, <1>3, <2>1 DEF CallClaims, OperationKnown, OperationShown
  <2>3. CallPlace(call[c])'
    <3>1. call'[c] = r
      BY <1>t, <1>1 DEF TypeOK
    <3> HIDE DEF r
    <3>2. QED
      BY <1>e, <1>t, <1>1, <1>2, <1>3, <2>1, <3>1 DEF CallPlace
  <2> HIDE DEF r
  <2>4. QED
    BY <1>t, <1>1, <1>3, <2>1, <2>2, <2>3, WriteStep DEF TypeOK
<1>5. CASE ~call[c].byTx
  <2>1. r = IdleCall /\ r \in Call /\ 0 \in Elections
    BY <1>5, NothingFacts, ElectionBounds DEF Elections
  <2>2. CallClaims(r, swallowed')
    BY <1>t, <2>1, NothingClaimed DEF CallClaims, IdleCall
  <2>3. CallPlace(call[c])'
    <3>1. call'[c] = IdleCall
      BY <1>t, <1>1, <2>1 DEF TypeOK
    <3>2. QED
      BY <3>1, NothingFacts DEF CallPlace, IdleCall
  <2> HIDE DEF r
  <2>4. QED
    BY <1>t, <1>1, <1>3, <2>1, <2>2, <2>3, WriteStep DEF TypeOK
<1>6. QED
  BY <1>4, <1>5

\* And again, by trackByTxHash.
LEMMA SaveAgainStep ==
  ASSUME ElectionInv, NEW c \in Callers, saveElectionAgain(c)
  PROVE  ElectionInv'
<1>e. PICK e \in Elections, s \in Status : e = call[c].index /\ s = call[c].status
  BY StageFacts DEF Call
<1> DEFINE r == [call[c] EXCEPT !.pc = "deleteTx"]
<1>t. /\ TypeOK /\ call[c] \in Call /\ call[c].pc = "saveAgain"
      /\ CallClaims(call[c], swallowed) /\ CallPlace(call[c])
      /\ StatusClaimed(e, s) /\ OperationShown(e, s, swallowed)
      /\ s.phase = "COMPLETED" /\ s.operation => Traced(e)
  BY <1>e, StageFacts DEF saveElectionAgain, CallClaims, CallPlace
<1>1. /\ WriteStatus(c, s) /\ call' = [call EXCEPT ![c] = r]
      /\ UNCHANGED <<milestone, fate, operation, creationTx, ids, severed, crashes>>
  BY <1>e DEF saveElectionAgain, chainVars
<1>2. /\ swallowed \subseteq swallowed' /\ swallowed' \in SUBSET Elections
      /\ faults' \in 0 .. MaxFaults
      /\ election' \in [Elections -> ElectionCheckpoint] /\ election'[e].kind = "status"
      /\ \A d \in Elections \ {e} : election'[d] = election[d]
      /\ ElectionFits(e)' /\ \A d \in Elections : Traced(d) => Traced(d)'
  BY <1>e, <1>t, <1>1, StatusWritten
<1>3. /\ r \in Call /\ r.pc = "deleteTx" /\ r.index = e /\ r.known = call[c].known /\ r.status = s
  BY <1>e, <1>t DEF Call, Step
<1>4. CallClaims(r, swallowed')
  BY <1>e, <1>t, <1>2, <1>3 DEF CallClaims, OperationKnown, OperationShown
<1>5. CallPlace(call[c])'
  <2>1. call'[c] = r
    BY <1>t, <1>1 DEF TypeOK
  <2>2. "deleteTx" \notin TrackSteps \ {"saveStatus"} /\ "saveAgain" \notin TrackSteps \ {"saveStatus"}
    BY DEF TrackSteps
  <2> HIDE DEF r
  <2>3. /\ r.known.operation => Traced(e)
        /\ r.known.progress # "found"
    BY <1>e, <1>t, <1>3, <2>2 DEF CallPlace
  <2>4. /\ r.known.operation => Traced(e)'
        /\ s.phase = "COMPLETED" /\ s.operation => Traced(e)'
    BY <1>t, <1>2, <2>3
  <2>5. QED
    BY <1>2, <1>3, <2>1, <2>3, <2>4 DEF CallPlace
<1> HIDE DEF r
<1>6. QED
  BY <1>t, <1>1, <1>2, <1>3, <1>4, <1>5, WriteStep DEF TypeOK

-----------------------------------------------------------------------------
(* The other steps of a call, failures, and the invariant.                 *)

\* Calls by transaction: the governor pipeline, then the lookup of the election.
LEMMA LookupStep ==
  ASSUME ElectionInv, NEW c \in Callers, trackGovernor(c) \/ trackElectionStatus(c)
  PROVE  ElectionInv'
<1>e. PICK e \in Elections : e = call[c].index
  BY StageFacts
<1>t. /\ TypeOK /\ call[c] \in Call /\ CallClaims(call[c], swallowed) /\ ElectionFits(e)
      /\ CallPlace(call[c]) /\ call[c].pc \in {"governor", "lookup"}
      /\ UNCHANGED <<milestone, fate, election, operation, creationTx, ids, swallowed, severed, crashes>>
      /\ faults' \in 0 .. MaxFaults
  BY <1>e, StageFacts, ElectionBounds
     DEF ElectionInv, trackGovernor, trackElectionStatus, chainVars, cacheVars, TypeOK
<1>1. ASSUME NEW r \in Call, call' = [call EXCEPT ![c] = r], CallClaims(r, swallowed), CallPlace(r)
      PROVE  ElectionInv'
  BY <1>t, <1>1, ReadStep DEF TypeOK
<1>2. CASE call' = [call EXCEPT ![c] = IdleCall]
  BY <1>t, <1>2, IdleStep DEF TypeOK
<1>3. ASSUME NEW next \in {"lookup", "saveTx"}, call' = [call EXCEPT ![c] = [@ EXCEPT !.pc = next]],
             call[c].pc \in {"governor", "lookup"}
      PROVE  ElectionInv'
  <2> DEFINE r == [call[c] EXCEPT !.pc = next]
  <2>1. /\ r \in Call /\ r.pc = next /\ r.index = e /\ r.known = call[c].known
        /\ r.status = call[c].status
    BY <1>e, <1>t DEF Call, Step
  <2>2. CallClaims(r, swallowed) /\ CallPlace(r)
    BY <1>e, <1>t, <1>3, <2>1 DEF CallClaims, CallPlace, TrackSteps
  <2>3. call' = [call EXCEPT ![c] = r]
    BY <1>3
  <2>4. QED
    BY <1>1, <2>1, <2>2, <2>3
<1>4. ASSUME isCompleted(election[e]), call[c].pc = "lookup",
             call' = [call EXCEPT ![c] = [@ EXCEPT !.pc = "saveAgain",
                                                   !.status = election[e].status]]
      PROVE  ElectionInv'
  <2> DEFINE r == [call[c] EXCEPT !.pc = "saveAgain", !.status = election[e].status]
  <2>1. /\ r \in Call /\ r.pc = "saveAgain" /\ r.index = e /\ r.known = call[c].known
        /\ r.status = election[e].status
    BY <1>e, <1>t DEF Call, Step, TypeOK, ElectionCheckpoint
  <2>2. CallClaims(r, swallowed)
    BY <1>e, <1>t, <1>4, <2>1 DEF CallClaims, ElectionFits
  <2>3. CallPlace(r)
    BY <1>e, <1>t, <1>4, <2>1 DEF CallPlace, ElectionFits, isCompleted, TrackSteps
  <2>4. call' = [call EXCEPT ![c] = r]
    BY <1>4
  <2>5. QED
    BY <1>1, <2>1, <2>2, <2>3, <2>4
<1>5. ASSUME call' = [call EXCEPT ![c] = [@ EXCEPT !.pc = "CREATE_ELECTION",
                                                   !.known = loadedStages(e)]]
      PROVE  ElectionInv'
  <2> DEFINE r == [call[c] EXCEPT !.pc = "CREATE_ELECTION", !.known = loadedStages(e)]
  <2>1. /\ r \in Call /\ r.pc = "CREATE_ELECTION" /\ r.index = e /\ r.known = loadedStages(e)
        /\ r.status = call[c].status
    BY <1>e, <1>t, LoadedFacts DEF Call, Step, TrackSteps
  <2>2. CallClaims(r, swallowed) /\ CallPlace(r)
    BY <1>e, <1>t, <2>1, LoadedFacts DEF CallClaims, CallPlace
  <2>3. call' = [call EXCEPT ![c] = r]
    BY <1>5
  <2>4. QED
    BY <1>1, <2>1, <2>2, <2>3
<1>6. CASE trackGovernor(c)
  BY <1>2, <1>3, <1>6 DEF trackGovernor
<1>7. CASE trackElectionStatus(c)
  BY <1>e, <1>3, <1>4, <1>5, <1>7 DEF trackElectionStatus
<1>8. QED
  BY <1>6, <1>7

\* The checkpoint under the creation transaction is removed, written or written back.
LEMMA EndStep ==
  ASSUME ElectionInv, NEW c \in Callers, deleteCreationTx(c) \/ saveCreationTx(c) \/ Throw(c)
  PROVE  ElectionInv'
<1>t. TypeOK /\ call[c] \in Call
  BY DEF ElectionInv, TypeOK
<1>1. /\ call' = [call EXCEPT ![c] = IdleCall] /\ call[c].pc # "saveOperation"
      /\ UNCHANGED <<milestone, fate, election, operation, ids, swallowed, severed, crashes>>
      /\ faults' = faults \/ (faults < MaxFaults /\ faults' = faults + 1)
  BY DEF deleteCreationTx, saveCreationTx, Throw, chainVars, TrackSteps
<1>2. faults' \in 0 .. MaxFaults
  BY <1>t, <1>1, ElectionBounds DEF TypeOK
<1>3. creationTx' \in [Elections -> {"none", "tracked", "empty"}]
  BY <1>t DEF deleteCreationTx, saveCreationTx, Throw, TypeOK, Call
<1>4. QED
  BY <1>1, <1>2, <1>3, IdleStep

\* After a crash there is no call.
LEMMA CrashStep ==
  ASSUME ElectionInv, Crash
  PROVE  ElectionInv'
<1>t. /\ TypeOK /\ FatesFit /\ CreatedInOrder
      /\ UNCHANGED <<milestone, fate, election, operation, creationTx, swallowed, faults>>
      /\ call' = [d \in Callers |-> IdleCall] /\ ids' = [d \in Elections |-> "unknown"]
      /\ crashes' \in 0 .. MaxCrashes
      /\ severed' = severed \cup {e \in Elections : operation[e] = "none" /\ aboutToStore(e)}
  BY ElectionBounds DEF ElectionInv, Crash, chainVars, TypeOK
<1>1. TypeOK' /\ FatesFit' /\ CreatedInOrder'
  BY <1>t, NothingFacts DEF TypeOK, FatesFit, CreatedInOrder
<1>a. \A e \in Elections : Traced(e) => Traced(e)'
  BY <1>t DEF Traced
<1>2. Later
  BY <1>a, <1>t DEF Later, TypeOK, Milestones
<1>3. ASSUME NEW e \in Elections PROVE ElectionFits(e)'
  BY <1>t, <1>2, ElectionStays DEF ElectionInv
<1>4. ASSUME NEW c \in Callers PROVE CallFits(call[c])'
  <2>1. call'[c] = IdleCall /\ IdleCall \in Call /\ 0 \in Elections
    BY <1>t, NothingFacts, ElectionBounds DEF Elections
  <2>2. CallClaims(IdleCall, swallowed) /\ CallPlace(IdleCall)
    BY <1>t, <2>1, NothingClaimed, NothingFacts DEF CallClaims, CallPlace, IdleCall
  <2>3. CallClaims(IdleCall, swallowed)' /\ CallPlace(IdleCall)'
    BY <1>t, <1>2, <2>1, <2>2, CallStays
  <2>4. QED
    BY <2>1, <2>3 DEF CallFits
<1>5. QED
  BY <1>1, <1>3, <1>4 DEF ElectionInv

\* Steps of nobody.
LEMMA ElectionStutters ==
  ASSUME ElectionInv, UNCHANGED vars
  PROVE  ElectionInv'
<1>t. /\ TypeOK /\ FatesFit /\ CreatedInOrder
      /\ UNCHANGED <<milestone, fate, election, operation, creationTx, ids, call, swallowed,
                     severed, faults, crashes>>
  BY DEF ElectionInv, vars, chainVars, cacheVars
<1>1. TypeOK' /\ FatesFit' /\ CreatedInOrder'
  BY <1>t DEF TypeOK, FatesFit, CreatedInOrder
<1>2. Later
  BY <1>t, TracesIdle DEF Later, TypeOK, Milestones
<1>3. ASSUME NEW e \in Elections PROVE ElectionFits(e)'
  BY <1>t, <1>2, ElectionStays DEF ElectionInv
<1>4. ASSUME NEW c \in Callers PROVE CallFits(call[c])'
  BY <1>t, <1>2, CallsStay DEF ElectionInv
<1>5. QED
  BY <1>1, <1>3, <1>4 DEF ElectionInv

\* The invariant holds at first, ...
LEMMA ElectionBegins ==
  ASSUME Init
  PROVE  ElectionInv
<1>1. TypeOK
  BY NothingFacts, ElectionBounds DEF Init, TypeOK, Milestones, Fates
<1>2. FatesFit
  BY DEF Init, FatesFit
<1>3. CreatedInOrder
  <2>1. 0 \in 0 .. LastElection + 1 /\ \A e \in Elections : milestone[e] # 0 <=> e < 0
    BY ElectionBounds DEF Init, Elections
  <2>2. QED
    BY <2>1 DEF CreatedInOrder
<1>4. ASSUME NEW e \in Elections PROVE ElectionFits(e)
  <2>1. /\ election[e].known = NothingKnown /\ election[e].status = NoStatus
        /\ election[e].kind = "none" /\ operation[e] = "none" /\ ids[e] = "unknown"
    BY DEF Init, NoElection
  <2>2. QED
    BY <1>1, <2>1, NothingClaimed, NothingFacts DEF ElectionFits, isCompleted
<1>5. ASSUME NEW c \in Callers PROVE CallFits(call[c])
  <2>1. call[c] = IdleCall /\ 0 \in Elections
    BY ElectionBounds DEF Init, Elections
  <2>2. CallClaims(IdleCall, swallowed) /\ CallPlace(IdleCall)
    BY <1>1, <2>1, NothingClaimed, NothingFacts DEF CallClaims, CallPlace, IdleCall
  <2>3. QED
    BY <2>1, <2>2 DEF CallFits
<1>6. QED
  BY <1>1, <1>2, <1>3, <1>4, <1>5 DEF ElectionInv

\* ... and forever.
LEMMA ElectionInvariant == Spec => []ElectionInv
<1>1. ASSUME ElectionInv, [Next]_vars PROVE ElectionInv'
  <2>1. ASSUME NEW e \in Elections, Advance(e) \/ Fail(e) PROVE ElectionInv'
    BY <1>1, <2>1, ChainStep
  <2>2. ASSUME NEW e \in Elections, getElectionProposalIds(e) PROVE ElectionInv'
    BY <1>1, <2>2, IdsStep
  <2>3. ASSUME NEW c \in Callers, Continue(c) PROVE ElectionInv'
    BY <1>1, <2>3, CreateElectionStep, NomineeElectionStep, NomineeVettingStep, MemberElectionStep,
       TimelockStep, SaveStagesStep, SaveOperationStep, SaveStatusStep, SaveAgainStep, LookupStep,
       EndStep DEF Continue
  <2>4. ASSUME NEW c \in Callers, Throw(c) PROVE ElectionInv'
    BY <1>1, <2>4, EndStep
  <2>5. ASSUME NEW c \in Callers, NEW e \in Elections, trackElection(c, e) \/ trackByTxHash(c, e)
        PROVE  ElectionInv'
    BY <1>1, <2>5, StartStep
  <2>6. CASE Crash
    BY <1>1, <2>6, CrashStep
  <2>7. CASE UNCHANGED vars
    BY <1>1, <2>7, ElectionStutters
  <2>8. QED
    BY <1>1, <2>1, <2>2, <2>3, <2>4, <2>5, <2>6, <2>7 DEF Next
<1>2. QED
  BY <1>1, ElectionBegins, PTL DEF Spec

-----------------------------------------------------------------------------
(* What the tracking of elections promises.                                *)

\* The number of elections is the one after the last that was created.
LEMMA CountFacts ==
  ASSUME CreatedInOrder
  PROVE  /\ electionCount \in 0 .. LastElection + 1
         /\ \A e \in Elections : milestone[e] # Uncreated <=> e < electionCount
<1>1. PICK n \in 0 .. LastElection + 1 : \A e \in Elections : milestone[e] # 0 <=> e < n
  BY DEF CreatedInOrder
<1> DEFINE created == {e \in Elections : milestone[e] # 0}
<1>2. CASE n = 0
  <2>1. created = {}
    BY <1>1, <1>2 DEF Elections
  <2>2. electionCount = n
    BY <1>2, <2>1 DEF electionCount
  <2>3. QED
    BY <1>1, <2>2
<1>3. CASE n # 0
  <2>1. /\ n \in 1 .. LastElection + 1 /\ n - 1 \in created /\ n \notin created
    BY <1>1, <1>3, ElectionBounds DEF Elections
  <2>2. ASSUME NEW m \in 1 .. LastElection + 1, m - 1 \in created, m \notin created PROVE m = n
    BY <1>1, <2>2, ElectionBounds DEF Elections
  <2>3. created # {}
    BY <2>1
  <2>4. electionCount = CHOOSE m \in 1 .. LastElection + 1 : m - 1 \in created /\ m \notin created
    BY <2>3 DEF electionCount
  <2> HIDE DEF created
  <2>5. electionCount = n
    BY <2>1, <2>2, <2>4
  <2>6. QED
    BY <1>1, <2>5
<1>4. QED
  BY <1>2, <1>3

\* What is read of an election from the contracts, with the ids that were kept and
\* whichever of the caught reads fail, is so but for the end of the vetting.
LEMMA ContractFacts ==
  ASSUME ElectionInv, NEW e \in Elections, NEW s \in StatusesShown(e)
  PROVE  /\ PhaseReached(e, s.phase, s.misread)
         /\ s.canProceed => \/ milestone[e] = Vetted /\ fate[e] # "short"
                            \/ milestone[e] = Vetting /\ s.misread
         /\ s.canExecute => milestone[e] = MemberSucceeded
<1>0. PICK answered \in SUBSET StatusReads, enough \in nomineesSuffice(e) :
        s = getElectionStatus(e, answered, enough)
  BY DEF StatusesShown
<1> DEFINE created  == ids[e] # "absent" /\ milestone[e] # 0
           memberId == /\ ids[e] = "both" \/ (created /\ milestone[e] >= MemberVoting)
                       /\ "member" \in answered
           nominee  == IF created THEN nomineeState(e) ELSE "null"
           member   == IF memberId THEN memberState(e) ELSE "null"
           vetting  == nominee = "Succeeded" /\ "deadline" \in answered /\ milestone[e] = Vetting
           phase    == determineElectionPhase(nominee, memberId, member, vetting)
           proceed  == nominee = "Succeeded" /\ ~vetting /\ "count" \in answered /\ enough /\ ~memberId
           execute  == member = "Succeeded"
           misread  == "deadline" \notin answered
<1>t. /\ TypeOK /\ FatesFit /\ milestone[e] \in 0 .. 8
      /\ ids[e] = "both" => milestone[e] >= MemberVoting
      /\ milestone[e] = Vetted => enough = (fate[e] # "short")
  BY DEF ElectionInv, ElectionFits, TypeOK, Milestones, nomineesSuffice
<1>2. s.phase = phase /\ s.canProceed = proceed /\ s.canExecute = execute /\ s.misread = misread
  <2>1. s = [phase |-> phase, canProceed |-> proceed, canExecute |-> execute, misread |-> misread]
    BY <1>0 DEF getElectionStatus
  <2> HIDE DEF phase, proceed, execute, misread
  <2>2. QED
    BY <2>1
<1>3. /\ memberId => milestone[e] >= MemberVoting
      /\ nominee \in ProposalState /\ NomineeClaim(e, nominee)
      /\ nominee = "Succeeded" => milestone[e] \in {Vetting, Vetted}
      /\ nominee # "null" => milestone[e] >= Contending
  BY <1>t, StateFacts DEF ProposalState, NomineeClaim
<1>4. /\ member \in ProposalState /\ MemberClaim(e, member)
      /\ member = "Succeeded" => milestone[e] = MemberSucceeded
      /\ ~memberId => member = "null"
  <2>1. CASE memberId
    BY <1>t, <1>3, <2>1, StateFacts
  <2>2. CASE ~memberId
    BY <2>2 DEF ProposalState, MemberClaim
  <2>3. QED
    BY <2>1, <2>2
<1>5. /\ vetting <=> nominee = "Succeeded" /\ ~misread /\ milestone[e] = Vetting
      /\ vetting \in BOOLEAN /\ memberId \in BOOLEAN /\ misread \in BOOLEAN
  OBVIOUS
<1> HIDE DEF created, memberId, nominee, member, vetting, misread
<1>6. /\ phase \in ElectionPhase
      /\ phase = "COMPLETED" => member = "Executed"
      /\ phase = "PENDING_EXECUTION" =>
           \/ member = "Succeeded" \/ nominee = "Executed" \/ (nominee = "Succeeded" /\ ~vetting)
      /\ phase = "MEMBER_ELECTION" => memberId
      /\ phase = "CONTENDER_SUBMISSION" => nominee = "Pending"
      /\ phase = "NOMINEE_SELECTION" => nominee = "Active"
      /\ phase = "VETTING_PERIOD" => vetting
  BY <1>4, <1>5 DEF determineElectionPhase, ElectionPhase
<1> HIDE DEF phase
<1>7. PhaseReached(e, phase, misread)
  BY <1>t, <1>3, <1>4, <1>5, <1>6, ReachedFacts
     DEF PhaseReached, ElectionPhase, NomineeClaim, MemberClaim
<1>8. /\ proceed => \/ milestone[e] = Vetted /\ fate[e] # "short"
                    \/ milestone[e] = Vetting /\ misread
      /\ execute => milestone[e] = MemberSucceeded
  BY <1>t, <1>3, <1>4, <1>5
<1> HIDE DEF proceed, execute
<1>9. QED
  BY <1>2, <1>7, <1>8

\* Every variable keeps its type; in particular no call ever looks up the state of a
\* proposal that is not there, and every phase it shows is one of the phases.
THEOREM ElectionTypeCorrect == Spec => []TypeOK
<1>1. ElectionInv => TypeOK
  BY DEF ElectionInv
<1>2. QED
  BY <1>1, ElectionInvariant, PTL

\* determineElectionPhase over whatever the stages, the checkpoints of a call that
\* died, the contracts or the ids kept as immutable say never shows a phase the
\* contracts have not reached, but for PENDING_EXECUTION during a vetting whose
\* deadline was not read.
THEOREM NoPhaseAhead == Spec => []PhaseIsNotAhead
<1>1. ElectionInv => PhaseIsNotAhead
  <2> SUFFICES ASSUME ElectionInv, NEW e \in Elections
               PROVE  /\ PhaseReached(e, election[e].status.phase, election[e].status.misread)
                      /\ PhaseReached(e, phaseOf(election[e].known), election[e].known.misread)
                      /\ \A s \in StatusesShown(e) : PhaseReached(e, s.phase, s.misread)
                      /\ operation[e] = "done" => milestone[e] = Enacted
                      /\ ids[e] = "both" => milestone[e] >= MemberVoting
    BY DEF PhaseIsNotAhead
  <2>1. TypeOK /\ FatesFit /\ ElectionFits(e) /\ election[e].known \in Known
    BY DEF ElectionInv, TypeOK, ElectionCheckpoint
  <2>2. PhaseReached(e, phaseOf(election[e].known), election[e].known.misread)
    BY <2>1, PhaseIsReached DEF ElectionFits
  <2>3. \A s \in StatusesShown(e) : PhaseReached(e, s.phase, s.misread)
    BY ContractFacts
  <2>4. QED
    BY <2>1, <2>2, <2>3 DEF ElectionFits, StatusClaimed
<1>2. QED
  BY <1>1, ElectionInvariant, PTL

\* canProceedToMemberElection and canExecuteMember, cached or read, are true only of
\* an election whose vetting is over with enough nominees, whose members succeeded;
\* a vetting that was misread must at least have begun.
THEOREM ActionsEarned == Spec => []ActionsAreEarned
<1>1. ElectionInv => ActionsAreEarned
  <2>1. ASSUME ElectionInv, NEW e \in Elections PROVE StatusClaimed(e, election[e].status)
    BY <2>1 DEF ElectionInv, ElectionFits
  <2>2. QED
    BY <2>1, ContractFacts DEF StatusClaimed, ActionsAreEarned
<1>2. QED
  BY <1>1, ElectionInvariant, PTL

\* saveElectionCheckpoint stores a COMPLETED election, which nothing tracks again,
\* with its details and its operation, unless a read of it failed unnoticed.
THEOREM CompletedElectionsAreWhole == Spec => []CompletedIsWhole
<1>1. ElectionInv => CompletedIsWhole
  BY DEF ElectionInv, ElectionFits, OperationShown, isCompleted, CompletedIsWhole
<1>2. QED
  BY <1>1, ElectionInvariant, PTL

\* When the status replaces the stages, with them the link to the operation, the
\* operation has its own checkpoint or a call is about to write it: saveModularCheckpoints
\* stores the stages first, and whoever finds them there stands behind it.  A process
\* that dies between the two is the only way for an operation to be lost.
THEOREM OperationsSurvive == Spec => []OperationIsNotLost
<1>1. ElectionInv => OperationIsNotLost
  BY DEF ElectionInv, ElectionFits, Traced, OperationIsNotLost
<1>2. QED
  BY <1>1, ElectionInvariant, PTL

\* trackByTxHash deletes the checkpoint of the creation transaction only when the
\* election is tracked under its own key.
THEOREM CreationIsHandedOver == Spec => TrackingIsHandedOver
<1> DEFINE HandedOver ==
      \A e \in Elections :
        creationTx[e] # "none" /\ creationTx'[e] = "none" => election'[e].kind # "none"
<1>1. ASSUME ElectionInv, [Next]_vars PROVE [HandedOver]_vars
  <2> SUFFICES ASSUME NEW e \in Elections, creationTx[e] # "none", creationTx'[e] = "none", Next
               PROVE  election'[e].kind # "none"
    BY <1>1
  <2>1. TypeOK /\ creationTx' # creationTx
    BY <1>1 DEF ElectionInv
  <2>2. PICK c \in Callers : deleteCreationTx(c) \/ saveCreationTx(c) \/ Throw(c)
    <3>1. ~Crash /\ \A f \in Elections : ~(Advance(f) \/ Fail(f) \/ getElectionProposalIds(f))
      BY <2>1 DEF Advance, Fail, getElectionProposalIds, Crash, cacheVars
    <3>2. \A c \in Callers : /\ \A f \in Elections : ~(trackElection(c, f) \/ trackByTxHash(c, f))
                             /\ ~(trackGovernor(c) \/ trackElectionStatus(c) \/ trackCreateElectionStage(c))
      BY <2>1 DEF trackElection, trackByTxHash, trackGovernor, trackElectionStatus,
                  trackCreateElectionStage, cacheVars
    <3>3. \A c \in Callers : ~(\/ trackNomineeElectionStage(c) \/ trackNomineeVettingStage(c)
                               \/ trackMemberElectionStage(c) \/ trackTimelockStages(c))
      BY <2>1 DEF trackNomineeElectionStage, trackNomineeVettingStage, trackMemberElectionStage,
                  trackTimelockStages, cacheVars
    <3>4. \A c \in Callers : ~(\/ saveStages(c) \/ saveOperation(c)
                               \/ saveElectionCheckpoint(c) \/ saveElectionAgain(c))
      BY <2>1 DEF saveStages, saveOperation, saveElectionCheckpoint, saveElectionAgain
    <3>5. QED
      BY <3>1, <3>2, <3>3, <3>4 DEF Next, Continue
  <2>3. deleteCreationTx(c) /\ e = call[c].index
    BY <2>1, <2>2 DEF deleteCreationTx, saveCreationTx, Throw, TypeOK
  <2>4. election[e].kind # "none" /\ election' = election
    BY <1>1, <2>3, StageFacts DEF deleteCreationTx, CallPlace
  <2>5. QED
    BY <2>4
<1>2. QED
  BY <1>1, ElectionInvariant, PTL DEF Spec, TrackingIsHandedOver

=============================================================================
