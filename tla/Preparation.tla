----------------------------- MODULE Preparation -----------------------------
(***************************************************************************)
(* From a stage that can be acted upon to the transaction that is sent.    *)
(*                                                                         *)
(* Tracking reads what the chains say of one item - a proposal to queue, a *)
(* timelock operation, the messages of an L2 execution, the retryable      *)
(* tickets of an L1 execution, an election - and keeps what preparation    *)
(* will need: the salt, the predecessor, whether the operation is a batch, *)
(* the send root.  Preparation checks again what it does not trust and     *)
(* builds calldata.  The item can move between any two of these steps, and *)
(* anyone may act upon it first.                                           *)
(*                                                                         *)
(* A hash is modelled by the tuple it is taken of: two hashes are equal    *)
(* exactly if their arguments are.  Salts are named for where they come    *)
(* from.  Reads are exact: of lagging nodes ProposalTracker speaks.        *)
(***************************************************************************)
EXTENDS Integers, Sequences, FiniteSets

CONSTANTS CallLists,          \* the calls an operation may consist of
          MessageCounts,      \* how many messages an L2 execution may send
          TicketCounts,       \* how many tickets an L1 execution may create, by chain
          MaxFee, MaxFeeMoves \* how high the L1 gas price goes, and how often it changes

L2Chain == {"arb1", "nova"}

ASSUME PreparationAssumption ==
  /\ CallLists \subseteq Seq({"call", "ticket"}) \ {<<>>}
  /\ MessageCounts \subseteq Nat \ {0}
  /\ TicketCounts \subseteq [L2Chain -> Nat] \ {[c \in L2Chain |-> 0]}
  /\ MaxFee \in Nat \ {0} /\ MaxFeeMoves \in Nat

VARIABLES item,               \* the item, as the chains have it
          user,               \* who prepares, and what is asked for
          stage,              \* what tracking has said of it
          results,            \* the results of the last preparation
          pc,                 \* what comes next
          feeMoves

prepVars == <<item, user, stage, results, pc, feeMoves>>

-----------------------------------------------------------------------------
(* The items                                                               *)

\* Where an operation's salt comes from, and what it then is.
Origins == {"governor", "council", "bridged", "direct"}

SaltOf(origin) == CASE origin = "governor" -> "description"
                    [] origin = "council"  -> "members"
                    [] origin = "bridged"  -> "sent"
                    [] origin = "direct"   -> "zero"

\* One or more calls, scheduled as a batch or not, with or without a call that
\* creates a retryable ticket, which only the L1 timelock can do.  With known FALSE,
\* tracking has not got what the salt is to be read from.
Operations ==
  {[kind |-> "timelock", origin |-> o, known |-> k, calls |-> c, batch |-> b, predecessor |-> p,
    state |-> "Pending", earlierDone |-> FALSE, fee |-> 1] :
      o \in Origins, k \in BOOLEAN, c \in CallLists, b \in BOOLEAN, p \in {"zero", "earlier"}}

OperationItems == {o \in Operations : /\ Len(o.calls) > 1 => o.batch
                                      /\ "ticket" \in {o.calls[i] : i \in 1 .. Len(o.calls)} => o.origin = "bridged"}

MessageItems == {[kind |-> "message", messages |-> [j \in 1 .. n |-> "UNCONFIRMED"]] : n \in MessageCounts}

\* The tickets, for each chain in the order of their creation.
TicketItems == {[kind |-> "tickets", tickets |-> [c \in L2Chain |-> [j \in 1 .. n[c] |-> "NOT_YET_CREATED"]]] : n \in TicketCounts}

TicketStatuses(i) == UNION {{i.tickets[c][j] : j \in DOMAIN i.tickets[c]} : c \in L2Chain}

QueueItems == {[kind |-> "queue", state |-> "Succeeded", vetting |-> v] : v \in {"none", "active"}}

\* An election by what is to be done next; "waiting" stands for the votes between.
\* It may be created from L1 block "due" on.
ElectionItems == {[kind |-> "election", next |-> "createElection", due |-> 2, l1Block |-> 1]}

IsDue(i) == i.next = "createElection" /\ i.l1Block >= i.due

Items == OperationItems \cup MessageItems \cup TicketItems \cup QueueItems \cup ElectionItems

\* The command line prepares all there is; a user of the package calls
\* prepareTransaction, or prepareExecuteTimelock with a salt of their own.
Users == [who : {"cli"}, wants : {"READY", "PENDING", "COMPLETED"}]
           \cup [who : {"package", "standalone"}, wants : {"READY"}]

NoStage == [type |-> "none", status |-> "NOT_STARTED"]

PrepInit ==
  /\ item \in Items
  /\ user \in {u \in Users : u.who = "standalone" => item.kind = "timelock"}
  /\ stage = NoStage
  /\ results = <<>>
  /\ pc = "track"
  /\ feeMoves = 0

-----------------------------------------------------------------------------
(* The chains: not code of the repository                                  *)

HashOperation(call, predecessor, salt)       == <<"execute", <<call>>, predecessor, salt>>
HashOperationBatch(calls, predecessor, salt) == <<"executeBatch", calls, predecessor, salt>>

\* The operation's id, as the timelock computed it when it was scheduled.
OperationId(o) == IF o.batch THEN HashOperationBatch(o.calls, o.predecessor, SaltOf(o.origin))
                  ELSE HashOperation(o.calls[1], o.predecessor, SaltOf(o.origin))

Tickets(calls) == Cardinality({i \in 1 .. Len(calls) : calls[i] = "ticket"})

\* What each contract asks of a transaction before it acts on it.
Accepts(tx, i) ==
  CASE tx.kind = "timelock" -> /\ <<tx.method, tx.calls, tx.predecessor, tx.salt>> = OperationId(i)
                               /\ i.state = "Ready"
                               /\ i.predecessor = "zero" \/ i.earlierDone
                               /\ tx.value >= Tickets(i.calls) * (i.fee + 1)
    [] tx.kind = "message"  -> i.messages[tx.index] = "CONFIRMED"
    [] tx.kind = "tickets"  -> i.tickets[tx.chain][tx.index] = "FUNDS_DEPOSITED_ON_CHILD"
    [] tx.kind = "queue"    -> i.state = "Succeeded" /\ i.vetting # "active"
    [] tx.kind = "election" -> tx.method = i.next /\ (tx.method = "createElection" => IsDue(i))

ElectionAfter(method) == CASE method = "createElection"      -> "nominating"
                           [] method = "triggerMember"       -> "electing"
                           [] method = "executeMember"       -> "installed"

\* The item after an accepted transaction, whoever has sent it.
After(tx, i) ==
  CASE tx.kind = "timelock" -> [i EXCEPT !.state = "Done"]
    [] tx.kind = "message"  -> [i EXCEPT !.messages[tx.index] = "EXECUTED"]
    [] tx.kind = "tickets"  -> [i EXCEPT !.tickets[tx.chain][tx.index] = "REDEEMED"]
    [] tx.kind = "queue"    -> [i EXCEPT !.state = "Queued"]
    [] tx.kind = "election" -> [i EXCEPT !.next = ElectionAfter(tx.method)]

-----------------------------------------------------------------------------
(* What happens to the items by themselves                                 *)

\* What nothing but time is needed for has happened.
Ripe(i) ==
  CASE i.kind = "timelock" -> [i EXCEPT !.state = "Ready", !.earlierDone = TRUE]
    [] i.kind = "message"  -> [i EXCEPT !.messages = [j \in DOMAIN @ |-> IF @[j] = "UNCONFIRMED" THEN "CONFIRMED" ELSE @[j]]]
    [] OTHER               -> i

Moves(to) == item' = to /\ UNCHANGED <<user, stage, results, pc, feeMoves>>

DelayEnds     == item.kind = "timelock" /\ item.state = "Pending" /\ Moves([item EXCEPT !.state = "Ready"])
EarlierIsDone == /\ item.kind = "timelock" /\ item.predecessor = "earlier" /\ ~item.earlierDone
                 /\ Moves([item EXCEPT !.earlierDone = TRUE])
Confirmed     == item.kind = "message" /\ item # Ripe(item) /\ Moves(Ripe(item))
VettingEnds   == item.kind = "queue" /\ item.vetting = "active" /\ Moves([item EXCEPT !.vetting = "over"])
DueComes      == item.kind = "election" /\ item.l1Block < 3 /\ Moves([item EXCEPT !.l1Block = @ + 1])
VoteEnds      == /\ item.kind = "election" /\ item.next \in {"nominating", "electing"}
                 /\ Moves([item EXCEPT !.next = IF @ = "nominating" THEN "triggerMember" ELSE "executeMember"])
TicketArrives == /\ item.kind = "tickets"
                 /\ \E c \in L2Chain : \E j \in DOMAIN item.tickets[c] :
                      /\ item.tickets[c][j] = "NOT_YET_CREATED"
                      /\ Moves([item EXCEPT !.tickets[c][j] = "FUNDS_DEPOSITED_ON_CHILD"])

TimePasses == DelayEnds \/ EarlierIsDone \/ Confirmed \/ VettingEnds \/ DueComes \/ VoteEnds \/ TicketArrives

\* Somebody else acts first, or the ticket's week is over.
OthersAct ==
  \/ /\ item.kind = "timelock" /\ item.state = "Ready" /\ (item.predecessor = "zero" \/ item.earlierDone)
     /\ Moves([item EXCEPT !.state = "Done"])
  \/ /\ item.kind = "message"
     /\ \E j \in DOMAIN item.messages : item.messages[j] = "CONFIRMED" /\ Moves([item EXCEPT !.messages[j] = "EXECUTED"])
  \/ /\ item.kind = "tickets"
     /\ \E c \in L2Chain, s \in {"REDEEMED", "EXPIRED"} : \E j \in DOMAIN item.tickets[c] :
          item.tickets[c][j] = "FUNDS_DEPOSITED_ON_CHILD" /\ Moves([item EXCEPT !.tickets[c][j] = s])
  \/ item.kind = "queue" /\ item.state = "Succeeded" /\ item.vetting # "active" /\ Moves([item EXCEPT !.state = "Queued"])
  \/ /\ item.kind = "election" /\ (IsDue(item) \/ item.next \in {"triggerMember", "executeMember"})
     /\ Moves([item EXCEPT !.next = ElectionAfter(@)])

FeeMoves ==
  /\ feeMoves < MaxFeeMoves
  /\ item.kind = "timelock" /\ Tickets(item.calls) > 0
  /\ \E fee \in 1 .. MaxFee : item' = [item EXCEPT !.fee = fee]
  /\ feeMoves' = feeMoves + 1
  /\ UNCHANGED <<user, stage, results, pc>>

-----------------------------------------------------------------------------
(* Tracking                                                                *)

\* A rotation of the council schedules several operations in one transaction, each
\* with a nonce and so a salt of its own, which the transaction's logs give.
extractAllSecurityCouncilParams(i) ==
  IF i.known /\ i.origin = "council"
  THEN {[operationId |-> OperationId(i), salt |-> "members"], [operationId |-> <<"sibling">>, salt |-> "others"]}
  ELSE {}

extractSecurityCouncilParamsForOperation(i, operationId) ==
  {params \in extractAllSecurityCouncilParams(i) : params.operationId = operationId}

\* Not asked for where the governor is known.
getSecurityCouncilData(i) ==
  IF i.origin = "governor" THEN {} ELSE extractSecurityCouncilParamsForOperation(i, OperationId(i))

\* From the members and the nonce, else from the description of the proposal, else zero.
computeL2TimelockSalt(i) ==
  LET council == getSecurityCouncilData(i)
  IN  IF council # {} THEN (CHOOSE params \in council : TRUE).salt
      ELSE IF i.known /\ i.origin = "governor" THEN "description" ELSE "zero"

\* The call that the message made on L1: what the timelock was really given.
decodeL1TimelockSchedule(i) ==
  IF i.known THEN {[salt |-> SaltOf(i.origin), predecessor |-> i.predecessor]} ELSE {}

computeL1TimelockSalt(i) ==
  LET decoded == decodeL1TimelockSchedule(i)
  IN  IF decoded = {} THEN [salt |-> "zero", predecessor |-> "zero"] ELSE CHOOSE call \in decoded : TRUE

\* The predecessor of an L2 operation is read from its events.
computeSalt(i) ==
  IF i.origin = "bridged" THEN computeL1TimelockSalt(i)
  ELSE [salt |-> computeL2TimelockSalt(i), predecessor |-> i.predecessor]

validateSaltBatch(id, calls, predecessor, salt) == HashOperationBatch(calls, predecessor, salt) = id
validateSalt(id, calls, predecessor, salt)      == HashOperation(calls[1], predecessor, salt) = id

\* How the operation has been scheduled is found out by trying both.
isBatchOperation(id, calls, predecessor, salt) ==
  IF validateSaltBatch(id, calls, predecessor, salt) THEN "batch"
  ELSE IF validateSalt(id, calls, predecessor, salt) THEN "single" ELSE "undefined"

TimelockStatus(state) == CASE state = "Pending" -> "PENDING" [] state = "Ready" -> "READY" [] state = "Done" -> "COMPLETED"

trackTimelock(i) ==
  LET salt == computeSalt(i).salt  predecessor == computeSalt(i).predecessor
  IN  [type |-> "timelock", status |-> TimelockStatus(i.state), operationId |-> OperationId(i),
       calls |-> i.calls, scheduledPredecessor |-> i.predecessor, salt |-> salt, predecessor |-> predecessor,
       mode |-> isBatchOperation(OperationId(i), i.calls, predecessor, salt)]

\* determineAggregateStatus: an executed message is forgotten while another waits.
determineAggregateStatus(statuses) ==
  CASE statuses = {"EXECUTED"}      -> "COMPLETED"
    [] "UNCONFIRMED" \in statuses   -> "PENDING"
    [] OTHER                        -> "READY"

\* The send root of the first message is known once it is confirmed, and kept.
extractSendProps(i) == i.messages[1] # "UNCONFIRMED"

trackL2ToL1Message(i) ==
  [type |-> "message", status |-> determineAggregateStatus({i.messages[j] : j \in DOMAIN i.messages}),
   cachedSendProps |-> extractSendProps(i)]

detectAllRetryableTargetChains(i) ==
  LET targeted(c) == IF i.tickets[c] = <<>> THEN <<>> ELSE <<c>>
  IN  targeted("arb1") \o targeted("nova")

trackRetryables(i) ==
  [type |-> "tickets", targetChains |-> detectAllRetryableTargetChains(i),
   status |-> IF "EXPIRED" \in TicketStatuses(i) THEN "FAILED"
              ELSE IF TicketStatuses(i) = {"REDEEMED"} THEN "COMPLETED" ELSE "READY"]

trackProposalQueued(i) == [type |-> "queue", status |-> IF i.state = "Queued" THEN "COMPLETED" ELSE "READY"]

\* How long until the next election may be created, by the L1 block that L2 knows of.
checkElectionStatus(i) ==
  LET blocksUntil == IF i.due > i.l1Block THEN i.due - i.l1Block ELSE 0
  IN  [secondsUntilElection |-> blocksUntil, canCreateElection |-> i.next = "createElection" /\ blocksUntil = 0]

\* An election to create, and what the current one has come to; never two of them.
checkElection(i) ==
  LET can == [create  |-> checkElectionStatus(i).canCreateElection,
              trigger |-> i.next = "triggerMember", execute |-> i.next = "executeMember"]
  IN  [type |-> "election", can |-> can,
       status |-> IF i.next = "installed" THEN "COMPLETED"
                  ELSE IF can.create \/ can.trigger \/ can.execute THEN "READY" ELSE "PENDING"]

Tracked(i) == CASE i.kind = "timelock" -> trackTimelock(i)
                [] i.kind = "message"  -> trackL2ToL1Message(i)
                [] i.kind = "tickets"  -> trackRetryables(i)
                [] i.kind = "queue"    -> trackProposalQueued(i)
                [] i.kind = "election" -> checkElection(i)

\* An item whose tracking is over is not tracked again.
Track ==
  /\ pc = "track"
  /\ stage' = Tracked(item)
  /\ pc' = IF stage'.status \in {"COMPLETED", "FAILED"} /\ user.wants # "COMPLETED" THEN "done" ELSE "prepare"
  /\ UNCHANGED <<item, user, results, feeMoves>>

-----------------------------------------------------------------------------
(* Preparation                                                             *)

failPrepare(error) == [success |-> FALSE, error |-> error]
Prepared(tx)        == [success |-> TRUE, tx |-> tx]

\* checkOperationReady, unless completed stages are to be prepared as well.
checkOperationReady(i, prepareCompleted) == prepareCompleted \/ i.state = "Ready"

\* Twice the submission fee, so that the gas price may double before it is paid.
calculateRetryableExecutionValue(call, fee) == IF call = "ticket" THEN 2 * fee + 1 ELSE 0

TotalValue(calls, fee) == Tickets(calls) * calculateRetryableExecutionValue("ticket", fee)

TimelockTx(method, calls, predecessor, salt, value) ==
  Prepared([kind |-> "timelock", method |-> method, calls |-> calls, predecessor |-> predecessor, salt |-> salt, value |-> value])

\* Mutant: the salt that tracking has cached is trusted.
prepareTimelockBatchUnvalidated(i, s, calls, prepareCompleted) ==
  IF ~checkOperationReady(i, prepareCompleted) THEN failPrepare("not ready")
  ELSE TimelockTx("executeBatch", calls, s.predecessor, s.salt, TotalValue(calls, i.fee))

prepareTimelockBatch(i, s, calls, prepareCompleted) ==
  IF ~checkOperationReady(i, prepareCompleted) THEN failPrepare("not ready")
  ELSE IF ~validateSaltBatch(s.operationId, calls, s.predecessor, s.salt) THEN failPrepare("salt")
  ELSE TimelockTx("executeBatch", calls, s.predecessor, s.salt, TotalValue(calls, i.fee))

prepareTimelockOperation(i, s, calls, prepareCompleted) ==
  IF ~checkOperationReady(i, prepareCompleted) THEN failPrepare("not ready")
  ELSE IF ~validateSalt(s.operationId, calls, s.predecessor, s.salt) THEN failPrepare("salt")
  ELSE TimelockTx("execute", <<calls[1]>>, s.predecessor, s.salt, TotalValue(<<calls[1]>>, i.fee))

validateStageForPrepare(s, prepareCompleted) == prepareCompleted \/ s.status = "READY"

\* The method that tracking has found to match; if none has, it goes by the number of calls.
prepareTimelockStage(i, s, prepareCompleted) ==
  IF ~validateStageForPrepare(s, prepareCompleted) THEN failPrepare("not ready")
  ELSE IF s.mode = "batch" \/ (s.mode = "undefined" /\ Len(s.calls) > 1)
  THEN prepareTimelockBatch(i, s, s.calls, prepareCompleted)
  ELSE prepareTimelockOperation(i, s, s.calls, prepareCompleted)

\* Without tracking: all is read from the chain but the salt, which the caller gives.
prepareExecuteTimelock(i, salt) ==
  LET s    == [operationId |-> OperationId(i), salt |-> salt, predecessor |-> i.predecessor]
      mode == isBatchOperation(s.operationId, i.calls, i.predecessor, salt)
  IN  IF i.state # "Ready" THEN failPrepare("not ready")
      ELSE CASE mode = "undefined" -> failPrepare("salt")
             [] mode = "batch"     -> prepareTimelockBatch(i, s, i.calls, FALSE)
             [] mode = "single"    -> prepareTimelockOperation(i, s, i.calls, FALSE)

\* With a cached send root the status is not asked for again, so that a message that
\* has been executed meanwhile, or before the other one, is prepared all the same.
prepareL2ToL1Message(i, j, cachedSendProps, prepareCompleted) ==
  IF ~prepareCompleted /\ ~cachedSendProps /\ i.messages[j] # "CONFIRMED" THEN failPrepare("not ready")
  ELSE Prepared([kind |-> "message", index |-> j])

prepareL2ToL1MessageStage(i, s, prepareCompleted) ==
  IF ~validateStageForPrepare(s, prepareCompleted) THEN <<failPrepare("not ready")>>
  ELSE [j \in DOMAIN i.messages |-> prepareL2ToL1Message(i, j, s.cachedSendProps, prepareCompleted)]

prepareRetryableRedemption(i, chain, j) ==
  IF i.tickets[chain][j] # "FUNDS_DEPOSITED_ON_CHILD" THEN failPrepare(i.tickets[chain][j])
  ELSE Prepared([kind |-> "tickets", chain |-> chain, index |-> j])

\* The tickets of one target chain.
prepareRetryableStage(i, s, chain) ==
  IF ~validateStageForPrepare(s, FALSE) THEN <<failPrepare("not ready")>>
  ELSE [j \in DOMAIN i.tickets[chain] |-> prepareRetryableRedemption(i, chain, j)]

\* A vetting period that cannot be read is taken for none.
checkVettingPeriod(i, readFails) == ~readFails /\ i.vetting = "active"

prepareGovernorQueue(i, readFails) ==
  IF i.state # "Succeeded" THEN failPrepare("not succeeded")
  ELSE IF checkVettingPeriod(i, readFails) THEN failPrepare("vetting")
  ELSE Prepared([kind |-> "queue"])

buildExecuteTransaction(method) == Prepared([kind |-> "election", method |-> method])

prepareElectionCreation(s)        == IF s.can.create THEN <<buildExecuteTransaction("createElection")>> ELSE <<>>
prepareMemberElectionTrigger(s)   == IF s.can.trigger THEN <<buildExecuteTransaction("triggerMember")>> ELSE <<>>
prepareMemberElectionExecution(s) == IF s.can.execute THEN <<buildExecuteTransaction("executeMember")>> ELSE <<>>

\* The command line's election check, which never executes the member election.
checkAndExecuteElection(s) == prepareElectionCreation(s) \o prepareMemberElectionTrigger(s)

\* One transaction per call: the first that could be prepared, of the first chain.
FirstSuccess(list) ==
  IF \E j \in DOMAIN list : list[j].success
  THEN <<list[CHOOSE j \in DOMAIN list : list[j].success /\ \A k \in 1 .. j - 1 : ~list[k].success]>>
  ELSE SubSeq(list, 1, 1)

prepareTransaction(i, s, prepareCompleted, readFails) ==
  CASE s.type = "queue"    -> <<prepareGovernorQueue(i, readFails)>>
    [] s.type = "timelock" -> <<prepareTimelockStage(i, s, prepareCompleted)>>
    [] s.type = "message"  -> FirstSuccess(prepareL2ToL1MessageStage(i, s, prepareCompleted))
    [] s.type = "tickets"  -> FirstSuccess(prepareRetryableStage(i, s, s.targetChains[1]))
    [] s.type = "election" -> prepareElectionCreation(s) \o prepareMemberElectionTrigger(s) \o prepareMemberElectionExecution(s)

\* Mutant: only the first target chain is looked at.
prepareFirstChain(i, s, prepareCompleted, readFails) ==
  CASE s.type = "message"  -> prepareL2ToL1MessageStage(i, s, prepareCompleted)
    [] s.type = "tickets"  -> prepareRetryableStage(i, s, s.targetChains[1])
    [] s.type = "election" -> checkAndExecuteElection(s)
    [] OTHER               -> prepareTransaction(i, s, prepareCompleted, readFails)

\* prepareSingleStage: all messages, and the tickets of all chains.
prepareSingleStage(i, s, prepareCompleted, readFails) ==
  CASE s.type = "message"  -> prepareL2ToL1MessageStage(i, s, prepareCompleted)
    [] s.type = "tickets"  -> prepareRetryableStage(i, s, s.targetChains[1]) \o
                              IF Len(s.targetChains) > 1 THEN prepareRetryableStage(i, s, s.targetChains[2]) ELSE <<>>
    [] s.type = "election" -> checkAndExecuteElection(s)
    [] OTHER               -> prepareTransaction(i, s, prepareCompleted, readFails)

\* prepareStagesForResult: which stages are prepared for whom.
prepareStagesForResult(i, s, readFails) ==
  CASE user.who = "standalone" -> <<prepareExecuteTimelock(i, SaltOf(i.origin))>>
    [] user.who = "package"    -> IF s.status = "READY" THEN prepareTransaction(i, s, FALSE, readFails) ELSE <<>>
    [] user.who = "cli" ->
         IF \/ s.status # user.wants
            \/ user.wants = "COMPLETED" /\ s.type # "timelock"
            \/ user.wants = "PENDING" /\ s.type \notin {"timelock", "message"}
         THEN <<>> ELSE prepareSingleStage(i, s, user.wants # "READY", readFails)

Prepare ==
  /\ pc = "prepare"
  /\ \E readFails \in {FALSE} \cup {item.kind = "queue"} :
       results' = prepareStagesForResult(item, stage, readFails)
  /\ pc' = "send"
  /\ UNCHANGED <<item, user, stage, feeMoves>>

-----------------------------------------------------------------------------
(* Sending                                                                 *)

\* One after the other; what could not be prepared or is refused is only reported, and
\* a redemption that fails because the ticket is gone counts as a success.
executeTransaction ==
  /\ pc = "send" /\ results # <<>>
  /\ item' = IF results[1].success /\ Accepts(results[1].tx, item) THEN After(results[1].tx, item) ELSE item
  /\ results' = Tail(results)
  /\ UNCHANGED <<user, stage, pc, feeMoves>>

\* It is tracked again, at once if something was executed, else in the next cycle.
Retrack ==
  /\ pc = "send" /\ results = <<>>
  /\ pc' = "track"
  /\ UNCHANGED <<item, user, stage, results, feeMoves>>

Done == pc = "done" /\ UNCHANGED prepVars

PrepNext == TimePasses \/ OthersAct \/ FeeMoves \/ Track \/ Prepare \/ executeTransaction \/ Retrack \/ Done

\* Time passes, and the loop goes on; nobody else has to act.
PrepFairness == /\ WF_prepVars(Track) /\ WF_prepVars(Prepare) /\ WF_prepVars(executeTransaction) /\ WF_prepVars(Retrack)
                /\ WF_prepVars(TimePasses)

PrepSpec == PrepInit /\ [][PrepNext]_prepVars /\ PrepFairness

-----------------------------------------------------------------------------
(* Properties                                                              *)

Unblocked(i) == IF i.kind = "timelock" THEN [i EXCEPT !.earlierDone = TRUE] ELSE i

\* What a preparation may get wrong although every read is exact: it does not look at
\* the predecessor of an operation, nor, with a cached send root, at whether a message
\* has been executed; it takes a vetting period it cannot read for none; and it builds
\* what the election needed when it was tracked.
Excused(tx, i) ==
  \/ tx.kind = "message" /\ i.messages[tx.index] = "EXECUTED"
  \/ tx.kind = "queue" /\ i.vetting = "active"
  \/ tx.kind = "election" /\ stage # checkElection(i)

\* A transaction that comes out of a preparation is one the contract accepts there and
\* then: whatever tracking has kept of salt, predecessor, batch and send root, it hashes
\* to the operation's id and carries enough value.  One prepared ahead of time, or for
\* an operation that is done, would have been accepted when the operation was ready.
PreparedIsAccepted ==
  [][pc = "prepare" =>
       \A j \in DOMAIN results' :
         results'[j].success =>
           \/ Accepts(results'[j].tx, IF user.wants = "READY" THEN Unblocked(item) ELSE Ripe(item))
           \/ Excused(results'[j].tx, item)]_prepVars

\* What the loop of the command line follows to its end, and what a user who calls
\* prepareTransaction in a loop does: only the first message, and only the tickets of
\* the first chain.  An operation whose salt cannot be computed needs a caller with a salt.
Followed ==
  /\ user.wants = "READY"
  /\ item.kind = "timelock" => item.known \/ item.origin = "direct" \/ user.who = "standalone"
  /\ user.who = "package" => /\ item.kind = "message" => Len(item.messages) = 1
                             /\ item.kind = "tickets" => Len(detectAllRetryableTargetChains(item)) = 1

Settled ==
  CASE item.kind = "timelock" -> item.state = "Done"
    [] item.kind = "message"  -> \A j \in DOMAIN item.messages : item.messages[j] = "EXECUTED"
    [] item.kind = "tickets"  -> TicketStatuses(item) = {"REDEEMED"} \/ "EXPIRED" \in TicketStatuses(item)
    [] item.kind = "queue"    -> item.state = "Queued"
    [] item.kind = "election" -> item.next = "installed" \/ (user.who = "cli" /\ item.next = "executeMember")

\* With --write the loop of tracking, preparing and sending gets everything executed
\* that can be, alone if need be: no salt scheme, batch form, half-executed pair of
\* messages, second chain or rise of the gas price leaves it repeating a step for ever.
FollowedIsSettled == Followed => <>Settled

=============================================================================
