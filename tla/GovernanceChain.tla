--------------------------- MODULE GovernanceChain ---------------------------
(***************************************************************************)
(* What the RPC providers show of one Arbitrum DAO proposal: the governor  *)
(* and the L2 timelock on Arbitrum One, the outbox and the L1 timelock on  *)
(* Ethereum, and the retryable tickets back on L2.  None of it is code of  *)
(* the repository; it is modelled from the contract reads and the events   *)
(* that the stage trackers of src/src/stages ask for.                      *)
(*                                                                         *)
(* A proposal moves through numbered phases and may die on the way.  Every *)
(* contract read is a function of a view: the phase as one RPC node has    *)
(* it.  With Lag the nodes behind a provider may be behind one another, so *)
(* that two reads of one call can disagree and a receipt that exists can   *)
(* come back as null, which is what the trackers' null checks are for.     *)
(* Reads are therefore sets: the answers a read may give in this state.    *)
(***************************************************************************)
EXTENDS Naturals

CONSTANT Lag           \* BOOLEAN: may a node answer from an older block?

ASSUME LagAssumption == Lag \in BOOLEAN

VARIABLES route,       \* how far this proposal has to travel
          phase,       \* the last milestone the chains have reached
          fate         \* "live", or the way the proposal died

chainVars == <<route, phase, fate>>

\* The routes: through the L2 timelock only (non-constitutional governor), or
\* the L1 round trip, whose execution may send no message or create no ticket.
Routes == {"l2Only", "noMessage", "noTicket", "roundTrip"}
Fates  == {"live", "Defeated", "Canceled", "L1Canceled", "Expired"}

Created      == 1
Active       == 2
Succeeded    == 3
Queued       == 4      \* the L2 timelock operation is scheduled
L2Ready      == 5
L2Executed   == 6      \* the L2 to L1 message is in its challenge period
Confirmed    == 7
OutboxDone   == 8      \* the outbox execution scheduled the L1 operation
L1Ready      == 9
L1Executed   == 10     \* retryable tickets exist
Redeemed     == 11

Phases == Created .. Redeemed

FinalPhase(r) == CASE r = "l2Only"    -> L2Executed
                   [] r = "noMessage" -> L2Executed
                   [] r = "noTicket"  -> L1Executed
                   [] r = "roundTrip" -> Redeemed

ChainTypeOK == route \in Routes /\ phase \in Phases /\ fate \in Fates

ChainInit == route \in Routes /\ phase = Created /\ fate = "live"

Finished == phase = FinalPhase(route) \/ fate # "live"

\* The proposal reaches its next milestone.
Advance ==
  /\ ~Finished
  /\ phase' = phase + 1
  /\ UNCHANGED <<route, fate>>

\* The proposal dies: voted down, canceled before it executes on L2, its L1
\* operation canceled, or its tickets expired before anybody redeemed them.
Deaths == (IF phase = Active THEN {"Defeated"} ELSE {})
            \cup (IF phase < L2Executed THEN {"Canceled"} ELSE {})
            \cup (IF phase \in {OutboxDone, L1Ready} THEN {"L1Canceled"} ELSE {})
            \cup (IF phase = L1Executed /\ route = "roundTrip" THEN {"Expired"} ELSE {})

Die ==
  /\ ~Finished
  /\ fate' \in Deaths
  /\ UNCHANGED <<route, phase>>

ChainStep == Advance \/ Die

-----------------------------------------------------------------------------

\* What one RPC read may see.  A view at 0 has not even the creation block.
Current == [at |-> phase, fate |-> fate]
Views   == {Current} \cup (IF Lag THEN {[at |-> p, fate |-> "live"] : p \in 0 .. phase} ELSE {})

\* Governor.state; a node that has no such proposal reverts instead of answering.
proposalStateOf(v) ==
  IF v.fate \in {"Defeated", "Canceled"} THEN v.fate
  ELSE CASE v.at = Created             -> "Pending"
         [] v.at = Active              -> "Active"
         [] v.at = Succeeded           -> "Succeeded"
         [] v.at \in {Queued, L2Ready} -> "Queued"
         [] OTHER                      -> "Executed"

getProposalState == {proposalStateOf(v) : v \in {u \in Views : u.at >= Created}}

\* getTimelockOperationState on either chain.
operationStateOf(v, scheduled, ready, done, canceled) ==
  IF v.at < scheduled \/ v.fate = canceled THEN "none"
  ELSE IF v.at < ready THEN "pending"
  ELSE IF v.at < done THEN "ready" ELSE "done"

l2OperationState ==
  {operationStateOf(v, Queued, L2Ready, L2Executed, "Canceled") : v \in Views}

l1OperationState ==
  {operationStateOf(v, OutboxDone, L1Ready, L1Executed, "L1Canceled") : v \in Views}

\* ChildToParentMessageReader.status
messageStatusOf(v) == IF v.at < Confirmed THEN "UNCONFIRMED"
                      ELSE IF v.at < OutboxDone THEN "CONFIRMED" ELSE "EXECUTED"

messageStatus == {messageStatusOf(v) : v \in Views}

\* ParentToChildMessageReader.getSuccessfulRedeem; a failed query is caught.
redeemStatusOf(v) == IF v.at = Redeemed THEN "REDEEMED"
                     ELSE IF v.fate = "Expired" THEN "EXPIRED" ELSE "NOT_YET_REDEEMED"

redeemStatus == {redeemStatusOf(v) : v \in Views} \cup (IF Lag THEN {"FETCH_ERROR"} ELSE {})

\* Whether a receipt or an event that was mined at a milestone is found.
Found(milestone) == {found \in BOOLEAN : \E v \in Views : found <=> v.at >= milestone}

=============================================================================
