-------------------------- MODULE Decisions_proofs --------------------------
(***************************************************************************)
(* What is prepared is accepted, and what is asked is answered.            *)
(*                                                                         *)
(* For any set of operations, any number of messages and tickets, and any  *)
(* movement of the gas price, a transaction that comes out of a            *)
(* preparation is one the contract accepts there and then, but for the     *)
(* exceptions that Excused names.  The argument is about what tracking has *)
(* kept.  The operation's id and its calls are still those of the item,    *)
(* for neither ever changes; that no message was unconfirmed stays true,   *)
(* for none becomes so again; and all the rest - salt, predecessor, batch  *)
(* - is either validated against the id or read again.                     *)
(*                                                                         *)
(* For any cache, the programs that count it agree, and linking leaves a   *)
(* whole of roots and children: each view is brought to the same few sets  *)
(* of keys.  For any chain, a search finds what is in its range: a chunk   *)
(* has the blocks at a certain distance from where the search begins, so   *)
(* that every block is in one, and one that comes earlier is nearer.       *)
(* Induction, where it is needed, is by a least counterexample.            *)
(***************************************************************************)
EXTENDS Preparation, Questions, TLAPS, FiniteSetTheorems, WellFoundedInduction

-----------------------------------------------------------------------------
(* What is known of an item, its stage and its results                     *)

CallKinds == {"call", "ticket"}
Salts     == {"description", "members", "sent", "others", "zero"}
Earlier   == {"zero", "earlier"}
MessageStates == {"UNCONFIRMED", "CONFIRMED", "EXECUTED"}
TicketStates  == {"NOT_YET_CREATED", "FUNDS_DEPOSITED_ON_CHILD", "REDEEMED", "EXPIRED"}
Errors    == {"not ready", "salt", "not succeeded", "vetting"} \cup TicketStates
Steps     == {"createElection", "triggerMember", "executeMember"}

TimelockItem == [kind : {"timelock"}, origin : Origins, known : BOOLEAN, calls : CallLists, batch : BOOLEAN,
                 predecessor : Earlier, state : {"Pending", "Ready", "Done"},
                 earlierDone : BOOLEAN, fee : 1 .. MaxFee]
MessageItem  == [kind : {"message"}, messages : Seq(MessageStates) \ {<<>>}]
TicketItem   == [kind : {"tickets"}, tickets : [L2Chain -> Seq(TicketStates)]]
QueueItem    == [kind : {"queue"}, state : {"Succeeded", "Queued"}, vetting : {"none", "active", "over"}]
ElectionItem == [kind : {"election"}, next : Steps \cup {"nominating", "electing", "installed"}, due : Nat, l1Block : Nat]

Item == TimelockItem \cup MessageItem \cup TicketItem \cup QueueItem \cup ElectionItem

\* An operation of several calls has been scheduled as a batch, and an execution
\* that creates tickets has created one.
ItemOK ==
  /\ item \in Item
  /\ item.kind = "timelock" => (Len(item.calls) > 1 => item.batch)
  /\ item.kind = "tickets" => \E c \in L2Chain : item.tickets[c] # <<>>

UserOK == user \in Users /\ (user.who = "standalone" => item.kind = "timelock")

\* A result is an error, or a transaction for the item.
Failure == [success : {FALSE}, error : Errors]
TxFor(kind) ==
  CASE kind = "timelock" -> [kind : {"timelock"}, method : {"execute", "executeBatch"}, calls : Seq(CallKinds),
                             predecessor : Earlier, salt : Salts, value : Nat]
    [] kind = "message"  -> [kind : {"message"}, index : Nat]
    [] kind = "tickets"  -> [kind : {"tickets"}, chain : L2Chain, index : Nat]
    [] kind = "queue"    -> [kind : {"queue"}]
    [] kind = "election" -> [kind : {"election"}, method : Steps]
ResultFor(kind) == Failure \cup [success : {TRUE}, tx : TxFor(kind)]

ResultsOK ==
  /\ results \in Seq(ResultFor(item.kind))
  /\ pc # "send" => results = <<>>

\* What tracking has kept and preparation relies on.
KeptTimelock ==
  /\ stage.operationId = OperationId(item) /\ stage.calls = item.calls
  /\ stage.salt \in Salts /\ stage.predecessor \in Earlier
KeptMessage ==
  stage.status # "PENDING" => \A j \in DOMAIN item.messages : item.messages[j] # "UNCONFIRMED"
KeptTickets ==
  /\ stage.targetChains \in Seq(L2Chain) \ {<<>>}
  /\ \A k \in DOMAIN stage.targetChains : item.tickets[stage.targetChains[k]] # <<>>

StageOK ==
  pc = "prepare" =>
    /\ stage.type = item.kind
    /\ item.kind = "timelock" => KeptTimelock
    /\ item.kind = "message" => KeptMessage
    /\ item.kind = "tickets" => KeptTickets

PrepInv ==
  /\ pc \in {"track", "prepare", "send", "done"}
  /\ ItemOK /\ UserOK /\ ResultsOK /\ StageOK

\* What PreparedIsAccepted says of one transaction.
Acceptable(tx) ==
  \/ Accepts(tx, IF user.wants = "READY" THEN Unblocked(item) ELSE Ripe(item))
  \/ Excused(tx, item)

Good == {r \in ResultFor(item.kind) : r.success => Acceptable(r.tx)}

-----------------------------------------------------------------------------
(* Lemmas about the operators                                              *)

\* A set of numbers that is not empty has a least element.
LEMMA NatMin ==
  ASSUME NEW T, T \subseteq Nat, T # {}
  PROVE  \E m \in T : \A n \in T : m <= n
<1> DEFINE Below == {0 .. n : n \in T}
<1>1. Below \subseteq FiniteSubsetsOf(Nat)
  <2>1. \A n \in T : 0 .. n \in SUBSET Nat /\ IsFiniteSet(0 .. n)
    BY FS_Interval
  <2> QED BY <2>1 DEF FiniteSubsetsOf
<1>2. Below # {}
  OBVIOUS
<1>3. PICK S \in Below : \A R \in Below : ~(<<R, S>> \in StrictSubsetOrdering(Nat))
  BY <1>1, <1>2, FS_StrictSubsetOrderingWellFounded, WFMin
<1>4. PICK m \in T : S = 0 .. m
  OBVIOUS
<1>5. ASSUME NEW n \in T, n < m PROVE FALSE
  <2>1. 0 .. n \in Below /\ 0 .. n \in SUBSET Nat /\ 0 .. m \in SUBSET Nat
    OBVIOUS
  <2>2. 0 .. n \subseteq 0 .. m /\ m \notin 0 .. n /\ m \in 0 .. m
    BY <1>5
  <2>3. <<0 .. n, 0 .. m>> \in StrictSubsetOrdering(Nat)
    BY <2>1, <2>2 DEF StrictSubsetOrdering
  <2> QED BY <1>3, <1>4, <2>1, <2>3
<1> QED BY <1>5

\* The number of tickets among some calls is a number.
LEMMA TicketsType ==
  ASSUME NEW calls \in Seq(CallKinds)
  PROVE  Tickets(calls) \in Nat
<1> DEFINE T == {i \in 1 .. Len(calls) : calls[i] = "ticket"}
<1>1. IsFiniteSet(1 .. Len(calls)) /\ T \subseteq 1 .. Len(calls)
  BY FS_Interval
<1>2. IsFiniteSet(T)
  BY <1>1, FS_Subset
<1> QED BY <1>2, FS_CardinalityType DEF Tickets

\* An operation has a call at least, and its calls are a sequence.
LEMMA CallsType ==
  ASSUME NEW calls \in CallLists
  PROVE  calls \in Seq(CallKinds) /\ Len(calls) \in Nat \ {0} /\ calls[1] \in CallKinds
<1>1. CallLists \subseteq Seq(CallKinds) \ {<<>>}
  BY PreparationAssumption DEF PreparationAssumption, CallKinds
<1> QED BY <1>1

\* The first success of a list is in the list, and so is what stands for it if all failed.
LEMMA FirstSuccessType ==
  ASSUME NEW S, NEW list \in Seq(S), list # <<>>, \A r \in S : r.success \in BOOLEAN
  PROVE  FirstSuccess(list) \in Seq(S)
<1>1. CASE \E j \in DOMAIN list : list[j].success
  <2> DEFINE T  == {j \in DOMAIN list : list[j].success}
             P(j) == list[j].success /\ \A k \in 1 .. j - 1 : ~list[k].success
  <2>0. T \subseteq Nat /\ T # {}
    BY <1>1
  <2>1. PICK m \in T : \A n \in T : m <= n
    BY <2>0, NatMin
  <2>2. P(m) /\ m \in DOMAIN list
    BY <2>1
  <2> DEFINE c == CHOOSE j \in DOMAIN list : P(j)
  <2>3. c \in DOMAIN list
    BY <2>2
  <2>4. FirstSuccess(list) = <<list[c]>>
    BY <1>1 DEF FirstSuccess
  <2>5. list[c] \in S
    BY <2>3
  <2> QED BY <2>4, <2>5
<1>2. CASE ~ \E j \in DOMAIN list : list[j].success
  <2>1. FirstSuccess(list) = SubSeq(list, 1, 1)
    BY <1>2 DEF FirstSuccess
  <2> QED BY <2>1
<1> QED BY <1>1, <1>2

-----------------------------------------------------------------------------
(* What is prepared                                                        *)

\* A result of a preparation that failed says nothing of a transaction.
LEMMA FailureIsGood ==
  ASSUME NEW error \in Errors
  PROVE  failPrepare(error) \in Good
BY DEF failPrepare, Good, ResultFor, Failure

\* What the timelock makes of the operation it is asked for: nothing else hashes to
\* its id, and the value is enough for one rise of the fee.
LEMMA OperationIsAccepted ==
  ASSUME PrepInv, item.kind = "timelock", NEW tx \in TxFor("timelock"),
         <<tx.method, tx.calls, tx.predecessor, tx.salt>> = OperationId(item),
         user.wants = "READY" => item.state = "Ready",
         tx.value >= Tickets(item.calls) * (item.fee + 1)
  PROVE  Prepared(tx) \in Good
<1>1. item \in TimelockItem
  BY DEF PrepInv, ItemOK, Item, MessageItem, TicketItem, QueueItem, ElectionItem
<1>2. tx.kind = "timelock"
  BY DEF TxFor
<1> DEFINE i == IF user.wants = "READY" THEN Unblocked(item) ELSE Ripe(item)
<1>3. /\ i.state = "Ready" /\ i.earlierDone
      /\ i.calls = item.calls /\ i.fee = item.fee /\ OperationId(i) = OperationId(item)
  BY <1>1 DEF TimelockItem, Unblocked, Ripe, OperationId
<1>4. Accepts(tx, i)
  BY <1>2, <1>3 DEF Accepts
<1> QED BY <1>4 DEF Prepared, Good, ResultFor, Acceptable

\* Twice the fee and one is more than the fee and one, for as many tickets.
LEMMA ValueIsEnough ==
  ASSUME NEW calls \in Seq(CallKinds), NEW fee \in Nat
  PROVE  TotalValue(calls, fee) \in Nat /\ TotalValue(calls, fee) >= Tickets(calls) * (fee + 1)
<1>1. Tickets(calls) \in Nat
  BY TicketsType
<1>2. \A t \in Nat : t * (2 * fee + 1) \in Nat /\ t * (2 * fee + 1) >= t * (fee + 1)
  OBVIOUS
<1> QED BY <1>1, <1>2 DEF TotalValue, calculateRetryableExecutionValue

\* A batch is prepared with the salt and predecessor that validate, or not at all.
LEMMA BatchIsGood ==
  ASSUME PrepInv, item.kind = "timelock", NEW s, NEW prepareCompleted \in BOOLEAN,
         prepareCompleted => user.wants # "READY",
         s.operationId = OperationId(item), s.salt \in Salts, s.predecessor \in Earlier
  PROVE  prepareTimelockBatch(item, s, item.calls, prepareCompleted) \in Good
<1> DEFINE value == TotalValue(item.calls, item.fee)
           tx    == [kind |-> "timelock", method |-> "executeBatch", calls |-> item.calls,
                     predecessor |-> s.predecessor, salt |-> s.salt, value |-> value]
<1>1. item \in TimelockItem
  BY DEF PrepInv, ItemOK, Item, MessageItem, TicketItem, QueueItem, ElectionItem
<1>2. item.calls \in Seq(CallKinds) /\ item.fee \in Nat
  BY <1>1, CallsType, PreparationAssumption DEF TimelockItem, PreparationAssumption
<1>3. value \in Nat /\ value >= Tickets(item.calls) * (item.fee + 1)
  BY <1>2, ValueIsEnough
<1>4. tx \in TxFor("timelock")
  BY <1>2, <1>3 DEF TxFor
<1>5. CASE /\ checkOperationReady(item, prepareCompleted)
           /\ validateSaltBatch(s.operationId, item.calls, s.predecessor, s.salt)
  <2>1. prepareTimelockBatch(item, s, item.calls, prepareCompleted) = Prepared(tx)
    BY <1>5 DEF prepareTimelockBatch, TimelockTx
  <2>2. <<tx.method, tx.calls, tx.predecessor, tx.salt>> = OperationId(item)
    BY <1>5 DEF validateSaltBatch, HashOperationBatch
  <2>3. user.wants = "READY" => item.state = "Ready"
    BY <1>5 DEF checkOperationReady
  <2> QED BY <1>3, <1>4, <2>1, <2>2, <2>3, OperationIsAccepted
<1>6. CASE ~ (/\ checkOperationReady(item, prepareCompleted)
              /\ validateSaltBatch(s.operationId, item.calls, s.predecessor, s.salt))
  BY <1>6, FailureIsGood DEF Errors, prepareTimelockBatch
<1> QED BY <1>5, <1>6

\* So is a single call, and a batch tried in its place.
LEMMA OperationIsGood ==
  ASSUME PrepInv, item.kind = "timelock", NEW s, NEW prepareCompleted \in BOOLEAN,
         prepareCompleted => user.wants # "READY",
         s.operationId = OperationId(item), s.salt \in Salts, s.predecessor \in Earlier
  PROVE  prepareTimelockOperation(item, s, item.calls, prepareCompleted) \in Good
<1> DEFINE single == <<item.calls[1]>>
           value  == TotalValue(single, item.fee)
           tx     == [kind |-> "timelock", method |-> "execute", calls |-> single,
                      predecessor |-> s.predecessor, salt |-> s.salt, value |-> value]
<1>1. item \in TimelockItem /\ (Len(item.calls) > 1 => item.batch)
  BY DEF PrepInv, ItemOK, Item, MessageItem, TicketItem, QueueItem, ElectionItem
<1>2. /\ item.calls \in Seq(CallKinds) /\ Len(item.calls) \in Nat \ {0} /\ item.calls[1] \in CallKinds
      /\ item.fee \in Nat
  BY <1>1, CallsType, PreparationAssumption DEF TimelockItem, PreparationAssumption
<1>3. single \in Seq(CallKinds)
  BY <1>2
<1>4. value \in Nat /\ value >= Tickets(single) * (item.fee + 1)
  BY <1>2, <1>3, ValueIsEnough
<1>5. tx \in TxFor("timelock")
  BY <1>3, <1>4 DEF TxFor
<1>6. CASE /\ checkOperationReady(item, prepareCompleted)
           /\ validateSalt(s.operationId, item.calls, s.predecessor, s.salt)
  <2>1. prepareTimelockOperation(item, s, item.calls, prepareCompleted) = Prepared(tx)
    BY <1>6 DEF prepareTimelockOperation, TimelockTx
  <2>2. <<tx.method, tx.calls, tx.predecessor, tx.salt>> = OperationId(item)
    BY <1>6 DEF validateSalt, HashOperation
  <2>3. ~item.batch
    BY <2>2 DEF OperationId, HashOperationBatch
  <2>4. item.calls = single
    BY <1>1, <1>2, <2>3
  <2>5. user.wants = "READY" => item.state = "Ready"
    BY <1>6 DEF checkOperationReady
  <2> QED BY <1>4, <1>5, <2>1, <2>2, <2>4, <2>5, OperationIsAccepted
<1>7. CASE ~ (/\ checkOperationReady(item, prepareCompleted)
              /\ validateSalt(s.operationId, item.calls, s.predecessor, s.salt))
  BY <1>7, FailureIsGood DEF Errors, prepareTimelockOperation
<1> QED BY <1>6, <1>7

\* What tracking has kept of an operation is prepared as it was scheduled.
LEMMA TimelockStageIsGood ==
  ASSUME PrepInv, pc = "prepare", item.kind = "timelock", NEW prepareCompleted \in BOOLEAN,
         prepareCompleted => user.wants # "READY"
  PROVE  prepareTimelockStage(item, stage, prepareCompleted) \in Good
<1>1. /\ stage.operationId = OperationId(item) /\ stage.calls = item.calls
      /\ stage.salt \in Salts /\ stage.predecessor \in Earlier
  BY DEF PrepInv, StageOK, KeptTimelock
<1>2. prepareTimelockBatch(item, stage, item.calls, prepareCompleted) \in Good
  BY <1>1, BatchIsGood
<1>3. prepareTimelockOperation(item, stage, item.calls, prepareCompleted) \in Good
  BY <1>1, OperationIsGood
<1> QED BY <1>1, <1>2, <1>3, FailureIsGood DEF Errors, prepareTimelockStage

\* The salt of every origin has a name.
LEMMA SaltType ==
  ASSUME NEW o \in Origins
  PROVE  SaltOf(o) \in Salts
BY DEF Origins, SaltOf, Salts

\* A caller with a salt of their own is served as well.
LEMMA ExecuteTimelockIsGood ==
  ASSUME PrepInv, item.kind = "timelock"
  PROVE  prepareExecuteTimelock(item, SaltOf(item.origin)) \in Good
<1> DEFINE salt == SaltOf(item.origin)
           s    == [operationId |-> OperationId(item), salt |-> salt, predecessor |-> item.predecessor]
           mode == isBatchOperation(s.operationId, item.calls, item.predecessor, salt)
<1>1. item \in TimelockItem
  BY DEF PrepInv, ItemOK, Item, MessageItem, TicketItem, QueueItem, ElectionItem
<1>2. s.operationId = OperationId(item) /\ s.salt \in Salts /\ s.predecessor \in Earlier
  BY <1>1, SaltType DEF TimelockItem
<1>3. prepareTimelockBatch(item, s, item.calls, FALSE) \in Good
  BY <1>2, BatchIsGood
<1>4. prepareTimelockOperation(item, s, item.calls, FALSE) \in Good
  BY <1>2, OperationIsGood
<1>5. mode \in {"batch", "single", "undefined"}
  BY DEF isBatchOperation
<1> QED BY <1>3, <1>4, <1>5, FailureIsGood DEF Errors, prepareExecuteTimelock

\* Lists of results: of one, and one for each of several.
LEMMA OneResult ==
  ASSUME NEW S, NEW r \in S
  PROVE  <<r>> \in Seq(S) \ {<<>>}
OBVIOUS

\* A list with one result for each element of another.
LEMMA ResultPerElement ==
  ASSUME NEW S, NEW R, NEW list \in Seq(R) \ {<<>>}, NEW f, DOMAIN f = DOMAIN list, f = [j \in DOMAIN f |-> f[j]],
         \A j \in DOMAIN list : f[j] \in S
  PROVE  f \in Seq(S) \ {<<>>}
<1>1. DOMAIN list = 1 .. Len(list) /\ Len(list) \in Nat \ {0}
  OBVIOUS
<1>2. f \in [1 .. Len(list) -> S]
  BY <1>1
<1>3. f \in Seq(S)
  BY <1>1, <1>2
<1>4. f # <<>>
  BY <1>1
<1> QED BY <1>3, <1>4

\* Replacing an element of a list, whether or not it has that place.
LEMMA OneReplaced ==
  ASSUME NEW S, NEW list \in Seq(S), NEW j, NEW x \in S
  PROVE  LET new == [list EXCEPT ![j] = x]
         IN  new \in Seq(S) /\ DOMAIN new = DOMAIN list /\ (list # <<>> => new # <<>>)
<1> DEFINE new == [list EXCEPT ![j] = x]
<1>1. DOMAIN list = 1 .. Len(list) /\ Len(list) \in Nat /\ DOMAIN new = DOMAIN list
  OBVIOUS
<1>2. \A n \in DOMAIN list : new[n] \in S
  OBVIOUS
<1>3. new = [n \in DOMAIN list |-> new[n]]
  OBVIOUS
<1>4. CASE list = <<>>
  <2>1. DOMAIN new = {}
    BY <1>1, <1>4
  <2>2. new = <<>>
    BY <1>3, <1>4
  <2> QED BY <1>1, <1>4, <2>2
<1>5. CASE list # <<>>
  <2>1. new \in Seq(S) \ {<<>>}
    <3>1. list \in Seq(S) \ {<<>>}
      BY <1>5
    <3> HIDE DEF new
    <3> QED BY <1>1, <1>2, <1>3, <3>1, ResultPerElement
  <2> QED BY <1>1, <2>1
<1> QED BY <1>4, <1>5

\* An executed message is excused; of the others none is unconfirmed any more, or
\* will be by the time the transaction is meant for.
LEMMA MessageIsGood ==
  ASSUME PrepInv, item.kind = "message", NEW j \in DOMAIN item.messages, NEW cachedSendProps, NEW prepareCompleted \in BOOLEAN,
         user.wants = "READY" => item.messages[j] # "UNCONFIRMED"
  PROVE  prepareL2ToL1Message(item, j, cachedSendProps, prepareCompleted) \in Good
<1> DEFINE tx == [kind |-> "message", index |-> j]
           i  == IF user.wants = "READY" THEN Unblocked(item) ELSE Ripe(item)
<1>1. item \in MessageItem
  BY DEF PrepInv, ItemOK, Item, TimelockItem, TicketItem, QueueItem, ElectionItem
<1>2. tx \in TxFor("message")
  BY <1>1 DEF TxFor, MessageItem
<1>3. CASE item.messages[j] = "EXECUTED"
  <2>1. Excused(tx, item)
    BY <1>3 DEF Excused
  <2>2. Prepared(tx) \in Good
    BY <1>2, <2>1 DEF Prepared, Good, ResultFor, Acceptable
  <2> QED BY <2>2, FailureIsGood DEF prepareL2ToL1Message, Errors
<1>4. CASE item.messages[j] # "EXECUTED"
  <2>1. item.messages[j] \in {"UNCONFIRMED", "CONFIRMED"}
    BY <1>1, <1>4 DEF MessageItem, MessageStates
  <2>2. i.messages[j] = "CONFIRMED"
    <3>1. CASE user.wants = "READY"
      BY <2>1, <3>1 DEF Unblocked
    <3>2. CASE user.wants # "READY"
      BY <1>1, <2>1, <3>2 DEF Ripe, MessageItem
    <3> QED BY <3>1, <3>2
  <2>3. Accepts(tx, i)
    BY <2>2 DEF Accepts
  <2>4. Prepared(tx) \in Good
    BY <1>2, <2>3 DEF Prepared, Good, ResultFor, Acceptable
  <2> QED BY <2>4, FailureIsGood DEF prepareL2ToL1Message, Errors
<1> QED BY <1>3, <1>4

\* The messages of a stage, each with its result.
LEMMA MessageStageIsGood ==
  ASSUME PrepInv, pc = "prepare", item.kind = "message", NEW prepareCompleted \in BOOLEAN,
         prepareCompleted <=> user.wants # "READY"
  PROVE  prepareL2ToL1MessageStage(item, stage, prepareCompleted) \in Seq(Good) \ {<<>>}
<1>1. item \in MessageItem
  BY DEF PrepInv, ItemOK, Item, TimelockItem, TicketItem, QueueItem, ElectionItem
<1>2. CASE ~validateStageForPrepare(stage, prepareCompleted)
  <2>1. failPrepare("not ready") \in Good
    BY FailureIsGood DEF Errors
  <2> QED BY <1>2, <2>1, OneResult DEF prepareL2ToL1MessageStage
<1>3. CASE validateStageForPrepare(stage, prepareCompleted)
  <2> DEFINE list == [j \in DOMAIN item.messages |-> prepareL2ToL1Message(item, j, stage.cachedSendProps, prepareCompleted)]
  <2>1. user.wants = "READY" => \A j \in DOMAIN item.messages : item.messages[j] # "UNCONFIRMED"
    BY <1>3 DEF validateStageForPrepare, PrepInv, StageOK, KeptMessage
  <2>2. \A j \in DOMAIN item.messages :
          prepareL2ToL1Message(item, j, stage.cachedSendProps, prepareCompleted) \in Good
    BY <2>1, MessageIsGood
  <2>3. item.messages \in Seq(MessageStates) \ {<<>>}
    BY <1>1 DEF MessageItem
  <2>4. list \in Seq(Good) \ {<<>>}
    BY <2>2, <2>3, ResultPerElement
  <2> QED BY <1>3, <2>4 DEF prepareL2ToL1MessageStage
<1> QED BY <1>2, <1>3

\* A ticket is looked at again when it is prepared.
LEMMA TicketIsGood ==
  ASSUME PrepInv, item.kind = "tickets", NEW c \in L2Chain, NEW j \in DOMAIN item.tickets[c],
         user.wants = "READY"
  PROVE  prepareRetryableRedemption(item, c, j) \in Good
<1> DEFINE tx == [kind |-> "tickets", chain |-> c, index |-> j]
<1>1. item \in TicketItem
  BY DEF PrepInv, ItemOK, Item, TimelockItem, MessageItem, QueueItem, ElectionItem
<1>2. j \in Nat /\ item.tickets[c][j] \in TicketStates
  BY <1>1 DEF TicketItem
<1>3. tx \in TxFor("tickets")
  BY <1>2 DEF TxFor
<1>4. CASE item.tickets[c][j] = "FUNDS_DEPOSITED_ON_CHILD"
  <2>1. Accepts(tx, Unblocked(item))
    BY <1>4 DEF Accepts, Unblocked
  <2>2. Prepared(tx) \in Good
    BY <1>3, <2>1 DEF Prepared, Good, ResultFor, Acceptable
  <2> QED BY <1>4, <2>2 DEF prepareRetryableRedemption
<1>5. CASE item.tickets[c][j] # "FUNDS_DEPOSITED_ON_CHILD"
  BY <1>2, <1>5, FailureIsGood DEF prepareRetryableRedemption, Errors
<1> QED BY <1>4, <1>5

\* The tickets of one chain, each with its result.
LEMMA TicketStageIsGood ==
  ASSUME PrepInv, pc = "prepare", item.kind = "tickets", user.wants = "READY",
         NEW c \in L2Chain, item.tickets[c] # <<>>
  PROVE  prepareRetryableStage(item, stage, c) \in Seq(Good) \ {<<>>}
<1>1. item \in TicketItem
  BY DEF PrepInv, ItemOK, Item, TimelockItem, MessageItem, QueueItem, ElectionItem
<1>2. CASE ~validateStageForPrepare(stage, FALSE)
  <2>1. failPrepare("not ready") \in Good
    BY FailureIsGood DEF Errors
  <2> QED BY <1>2, <2>1, OneResult DEF prepareRetryableStage
<1>3. CASE validateStageForPrepare(stage, FALSE)
  <2> DEFINE own  == item.tickets[c]
             list == [j \in DOMAIN own |-> prepareRetryableRedemption(item, c, j)]
  <2>1. \A j \in DOMAIN own : prepareRetryableRedemption(item, c, j) \in Good
    BY TicketIsGood
  <2>2. own \in Seq(TicketStates) \ {<<>>}
    BY <1>1 DEF TicketItem
  <2>3. list \in Seq(Good) \ {<<>>}
    BY <2>1, <2>2, ResultPerElement
  <2> QED BY <1>3, <2>3 DEF prepareRetryableStage
<1> QED BY <1>2, <1>3

\* A vetting period is overlooked only if it cannot be read, which is excused.
LEMMA QueueIsGood ==
  ASSUME PrepInv, item.kind = "queue", user.wants = "READY", NEW readFails \in BOOLEAN
  PROVE  prepareGovernorQueue(item, readFails) \in Good
<1> DEFINE tx == [kind |-> "queue"]
<1>1. tx \in TxFor("queue")
  BY DEF TxFor
<1>2. CASE item.state = "Succeeded"
  <2>1. Accepts(tx, Unblocked(item)) \/ Excused(tx, item)
    BY <1>2 DEF Accepts, Excused, Unblocked
  <2>2. Prepared(tx) \in Good
    BY <1>1, <2>1 DEF Prepared, Good, ResultFor, Acceptable
  <2> QED BY <2>2, FailureIsGood DEF prepareGovernorQueue, Errors
<1>3. CASE item.state # "Succeeded"
  BY <1>3, FailureIsGood DEF prepareGovernorQueue, Errors
<1> QED BY <1>2, <1>3

\* What an election needs is what it needed when it was tracked, or it has moved on.
LEMMA ElectionTxIsGood ==
  ASSUME PrepInv, item.kind = "election", user.wants = "READY", NEW method \in Steps,
         \/ method = "createElection" /\ stage.can.create
         \/ method = "triggerMember" /\ stage.can.trigger
         \/ method = "executeMember" /\ stage.can.execute
  PROVE  <<buildExecuteTransaction(method)>> \in Seq(Good)
<1> DEFINE tx == [kind |-> "election", method |-> method]
<1>1. tx \in TxFor("election")
  BY DEF TxFor
<1>2. CASE stage = checkElection(item)
  <2>0. item \in ElectionItem
    BY DEF PrepInv, ItemOK, Item, TimelockItem, MessageItem, QueueItem, TicketItem
  <2> DEFINE blocksUntil == IF item.due > item.l1Block THEN item.due - item.l1Block ELSE 0
  <2>a. /\ stage.can.create = (item.next = "createElection" /\ blocksUntil = 0)
        /\ stage.can.trigger = (item.next = "triggerMember")
        /\ stage.can.execute = (item.next = "executeMember")
    BY <1>2, Zenon DEF checkElection, checkElectionStatus
  <2>b. blocksUntil = 0 => item.l1Block >= item.due
    BY <2>0 DEF ElectionItem
  <2>1. method = item.next /\ (method = "createElection" => IsDue(item))
    BY <2>a, <2>b DEF IsDue
  <2>2. Accepts(tx, Unblocked(item))
    BY <2>1 DEF Accepts, Unblocked
  <2> QED BY <1>1, <2>2 DEF buildExecuteTransaction, Prepared, Good, ResultFor, Acceptable
<1>3. CASE stage # checkElection(item)
  <2>1. Excused(tx, item)
    BY <1>3 DEF Excused
  <2> QED BY <1>1, <2>1 DEF buildExecuteTransaction, Prepared, Good, ResultFor, Acceptable
<1> QED BY <1>2, <1>3

\* The three transactions of an election.
LEMMA ElectionIsGood ==
  ASSUME PrepInv, item.kind = "election", user.wants = "READY"
  PROVE  /\ prepareElectionCreation(stage) \in Seq(Good)
         /\ prepareMemberElectionTrigger(stage) \in Seq(Good)
         /\ prepareMemberElectionExecution(stage) \in Seq(Good)
<1>1. prepareElectionCreation(stage) \in Seq(Good)
  BY ElectionTxIsGood DEF prepareElectionCreation, Steps
<1>2. prepareMemberElectionTrigger(stage) \in Seq(Good)
  BY ElectionTxIsGood DEF prepareMemberElectionTrigger, Steps
<1>3. prepareMemberElectionExecution(stage) \in Seq(Good)
  BY ElectionTxIsGood DEF prepareMemberElectionExecution, Steps
<1> QED BY <1>1, <1>2, <1>3

\* What prepareTransaction makes of a stage that is ready.
LEMMA TransactionIsGood ==
  ASSUME PrepInv, pc = "prepare", user.wants = "READY", NEW readFails \in BOOLEAN
  PROVE  prepareTransaction(item, stage, FALSE, readFails) \in Seq(Good)
<1>1. stage.type = item.kind
  BY DEF PrepInv, StageOK
<1>2. \A r \in Good : r.success \in BOOLEAN
  BY DEF Good, ResultFor, Failure
<1>3. CASE item.kind = "timelock"
  BY <1>1, <1>3, TimelockStageIsGood, OneResult DEF prepareTransaction
<1>4. CASE item.kind = "message"
  <2>1. prepareL2ToL1MessageStage(item, stage, FALSE) \in Seq(Good) \ {<<>>}
    BY <1>4, MessageStageIsGood
  <2> QED BY <1>1, <1>2, <1>4, <2>1, FirstSuccessType DEF prepareTransaction
<1>5. CASE item.kind = "tickets"
  <2>1. stage.targetChains[1] \in L2Chain /\ item.tickets[stage.targetChains[1]] # <<>>
    BY <1>5 DEF PrepInv, StageOK, KeptTickets
  <2>2. prepareRetryableStage(item, stage, stage.targetChains[1]) \in Seq(Good) \ {<<>>}
    BY <1>5, <2>1, TicketStageIsGood
  <2> QED BY <1>1, <1>2, <1>5, <2>2, FirstSuccessType DEF prepareTransaction
<1>6. CASE item.kind = "queue"
  BY <1>1, <1>6, QueueIsGood, OneResult DEF prepareTransaction
<1>7. CASE item.kind = "election"
  BY <1>1, <1>7, ElectionIsGood DEF prepareTransaction
<1>8. item.kind \in {"timelock", "message", "tickets", "queue", "election"}
  BY DEF PrepInv, ItemOK, Item, TimelockItem, MessageItem, TicketItem, QueueItem, ElectionItem
<1> QED BY <1>3, <1>4, <1>5, <1>6, <1>7, <1>8

\* What the command line makes of it.
LEMMA SingleStageIsGood ==
  ASSUME PrepInv, pc = "prepare", NEW readFails \in BOOLEAN,
         user.wants # "READY" => item.kind \in {"timelock", "message"}
  PROVE  prepareSingleStage(item, stage, user.wants # "READY", readFails) \in Seq(Good)
<1>1. stage.type = item.kind
  BY DEF PrepInv, StageOK
<1>3. CASE item.kind = "timelock"
  <2>1. prepareTimelockStage(item, stage, user.wants # "READY") \in Good
    BY <1>3, TimelockStageIsGood
  <2> QED BY <1>1, <1>3, <2>1, OneResult DEF prepareSingleStage, prepareTransaction
<1>4. CASE item.kind = "message"
  BY <1>1, <1>4, MessageStageIsGood DEF prepareSingleStage
<1>5. CASE item.kind = "tickets"
  <2>1. stage.targetChains \in Seq(L2Chain) \ {<<>>}
        /\ \A k \in DOMAIN stage.targetChains : item.tickets[stage.targetChains[k]] # <<>>
    BY <1>5 DEF PrepInv, StageOK, KeptTickets
  <2>2. \A k \in DOMAIN stage.targetChains : prepareRetryableStage(item, stage, stage.targetChains[k]) \in Seq(Good)
    BY <1>5, <2>1, TicketStageIsGood
  <2>3. 1 \in DOMAIN stage.targetChains /\ (Len(stage.targetChains) > 1 => 2 \in DOMAIN stage.targetChains)
    BY <2>1
  <2>4. prepareRetryableStage(item, stage, stage.targetChains[1]) \in Seq(Good)
    BY <2>2, <2>3
  <2>5. (IF Len(stage.targetChains) > 1 THEN prepareRetryableStage(item, stage, stage.targetChains[2]) ELSE <<>>) \in Seq(Good)
    BY <2>2, <2>3
  <2> QED BY <1>1, <1>5, <2>4, <2>5 DEF prepareSingleStage
<1>6. CASE item.kind = "queue"
  <2>1. prepareGovernorQueue(item, readFails) \in Good
    BY <1>6, QueueIsGood DEF PrepInv, UserOK, Users
  <2> QED BY <1>1, <1>6, <2>1, OneResult DEF prepareSingleStage, prepareTransaction
<1>7. CASE item.kind = "election"
  <2>1. prepareElectionCreation(stage) \in Seq(Good) /\ prepareMemberElectionTrigger(stage) \in Seq(Good)
    BY <1>7, ElectionIsGood
  <2> QED BY <1>1, <1>7, <2>1 DEF prepareSingleStage, checkAndExecuteElection
<1>8. item.kind \in {"timelock", "message", "tickets", "queue", "election"}
  BY DEF PrepInv, ItemOK, Item, TimelockItem, MessageItem, TicketItem, QueueItem, ElectionItem
<1> QED BY <1>3, <1>4, <1>5, <1>6, <1>7, <1>8

\* All that is prepared for anyone is acceptable.
LEMMA PreparedIsGood ==
  ASSUME PrepInv, pc = "prepare", NEW readFails \in BOOLEAN
  PROVE  prepareStagesForResult(item, stage, readFails) \in Seq(Good)
<1>1. stage.type = item.kind /\ user \in Users /\ (user.who = "standalone" => item.kind = "timelock")
  BY DEF PrepInv, StageOK, UserOK
<1>2. CASE user.who = "standalone"
  <2>1. prepareExecuteTimelock(item, SaltOf(item.origin)) \in Good
    BY <1>1, <1>2, ExecuteTimelockIsGood
  <2> QED BY <1>2, <2>1, OneResult DEF prepareStagesForResult
<1>3. CASE user.who = "package"
  <2>1. user.wants = "READY"
    BY <1>1, <1>3 DEF Users
  <2>2. prepareTransaction(item, stage, FALSE, readFails) \in Seq(Good)
    BY <2>1, TransactionIsGood
  <2>3. <<>> \in Seq(Good)
    OBVIOUS
  <2>4. CASE stage.status = "READY"
    BY <1>3, <2>2, <2>4 DEF prepareStagesForResult
  <2>5. CASE stage.status # "READY"
    BY <1>3, <2>3, <2>5 DEF prepareStagesForResult
  <2> QED BY <2>4, <2>5
<1>4. CASE user.who = "cli"
  <2>1. user.wants \in {"READY", "PENDING", "COMPLETED"}
    BY <1>1 DEF Users
  <2>2. CASE \/ stage.status # user.wants
             \/ user.wants = "COMPLETED" /\ stage.type # "timelock"
             \/ user.wants = "PENDING" /\ stage.type \notin {"timelock", "message"}
    <3>1. prepareStagesForResult(item, stage, readFails) = <<>>
      BY <1>4, <2>2 DEF prepareStagesForResult
    <3> QED BY <3>1
  <2>3. CASE ~ (\/ stage.status # user.wants
                \/ user.wants = "COMPLETED" /\ stage.type # "timelock"
                \/ user.wants = "PENDING" /\ stage.type \notin {"timelock", "message"})
    <3>1. prepareSingleStage(item, stage, user.wants # "READY", readFails) \in Seq(Good)
      BY <1>1, <2>1, <2>3, SingleStageIsGood
    <3> QED BY <1>4, <2>3, <3>1 DEF prepareStagesForResult
  <2> QED BY <2>2, <2>3
<1>5. user.who \in {"cli", "package", "standalone"}
  BY <1>1 DEF Users
<1> QED BY <1>2, <1>3, <1>4, <1>5

-----------------------------------------------------------------------------
(* What tracking keeps                                                     *)

\* What tracking keeps of an operation.
LEMMA TrackedTimelock ==
  ASSUME NEW i \in TimelockItem
  PROVE  LET s == trackTimelock(i)
         IN  /\ s.type = "timelock" /\ s.operationId = OperationId(i) /\ s.calls = i.calls
             /\ s.salt \in Salts /\ s.predecessor \in Earlier
<1>1. i.origin \in Origins /\ i.predecessor \in Earlier /\ SaltOf(i.origin) \in Salts
  BY SaltType DEF TimelockItem
<1>2. computeL2TimelockSalt(i) \in Salts
  <2> DEFINE council == getSecurityCouncilData(i)
  <2>1. \A params \in extractAllSecurityCouncilParams(i) : params.salt \in Salts
    BY DEF extractAllSecurityCouncilParams, Salts
  <2>2. \A params \in council : params.salt \in Salts
    BY <2>1 DEF getSecurityCouncilData, extractSecurityCouncilParamsForOperation
  <2>3. CASE council # {}
    <3>1. (CHOOSE params \in council : TRUE) \in council
      BY <2>3
    <3> QED BY <2>2, <2>3, <3>1 DEF computeL2TimelockSalt
  <2>4. CASE council = {}
    BY <2>4 DEF computeL2TimelockSalt, Salts
  <2> QED BY <2>3, <2>4
<1>3. computeL1TimelockSalt(i).salt \in Salts /\ computeL1TimelockSalt(i).predecessor \in Earlier
  <2>1. CASE i.known
    <3> DEFINE decoded == {[salt |-> SaltOf(i.origin), predecessor |-> i.predecessor]}
    <3>1. decodeL1TimelockSchedule(i) = decoded
      BY <2>1 DEF decodeL1TimelockSchedule
    <3>2. computeL1TimelockSalt(i) \in decoded
      BY <3>1 DEF computeL1TimelockSalt
    <3> QED BY <1>1, <3>2
  <2>2. CASE ~i.known
    BY <2>2 DEF decodeL1TimelockSchedule, computeL1TimelockSalt, Salts, Earlier
  <2> QED BY <2>1, <2>2
<1>4. computeSalt(i).salt \in Salts /\ computeSalt(i).predecessor \in Earlier
  BY <1>1, <1>2, <1>3 DEF computeSalt
<1> QED BY <1>4 DEF trackTimelock

\* Tracking says PENDING as long as a message is unconfirmed.
LEMMA TrackedMessage ==
  ASSUME NEW i \in MessageItem
  PROVE  LET s == trackL2ToL1Message(i)
         IN  s.type = "message" /\ (s.status # "PENDING" => \A j \in DOMAIN i.messages : i.messages[j] # "UNCONFIRMED")
<1> DEFINE statuses == {i.messages[j] : j \in DOMAIN i.messages}
<1>1. "UNCONFIRMED" \in statuses => determineAggregateStatus(statuses) = "PENDING"
  BY DEF determineAggregateStatus
<1> QED BY <1>1 DEF trackL2ToL1Message

\* Tracking names the chains that have tickets, of which there is one at least.
LEMMA TrackedTickets ==
  ASSUME NEW i \in TicketItem, \E c \in L2Chain : i.tickets[c] # <<>>
  PROVE  LET s == trackRetryables(i)
         IN  /\ s.type = "tickets" /\ s.targetChains \in Seq(L2Chain) \ {<<>>}
             /\ \A k \in DOMAIN s.targetChains : i.tickets[s.targetChains[k]] # <<>>
<1> DEFINE none == i.tickets["arb1"] = <<>>
           only == i.tickets["nova"] = <<>>
           all  == detectAllRetryableTargetChains(i)
<1>1. ~none \/ ~only
  BY DEF L2Chain
<1>2. CASE none
  <2>1. all = <<"nova">>
    BY <1>1, <1>2 DEF detectAllRetryableTargetChains
  <2> QED BY <1>1, <1>2, <2>1 DEF trackRetryables, L2Chain
<1>3. CASE only
  <2>1. all = <<"arb1">>
    BY <1>1, <1>3 DEF detectAllRetryableTargetChains
  <2> QED BY <1>1, <1>3, <2>1 DEF trackRetryables, L2Chain
<1>4. CASE ~none /\ ~only
  <2>1. all = <<"arb1">> \o <<"nova">>
    BY <1>4 DEF detectAllRetryableTargetChains
  <2>2. <<"arb1">> \in Seq(L2Chain) /\ <<"nova">> \in Seq(L2Chain)
    BY DEF L2Chain
  <2>3. all \in Seq(L2Chain) /\ Len(all) = 2
    BY <2>1, <2>2
  <2>4. \A c \in L2Chain : i.tickets[c] # <<>>
    BY <1>4 DEF L2Chain
  <2>5. \A k \in DOMAIN all : all[k] \in L2Chain
    BY <2>3
  <2>6. all # <<>>
    <3>1. 1 \in DOMAIN all
      BY <2>3
    <3> QED BY <3>1
  <2> QED BY <2>3, <2>4, <2>5, <2>6 DEF trackRetryables
<1> QED BY <1>2, <1>3, <1>4

-----------------------------------------------------------------------------
(* How an item may move                                                    *)

\* An operation stays the same operation, a message is not unconfirmed again, and
\* no ticket disappears.
Becomes(i, k) ==
  /\ k \in Item /\ k.kind = i.kind
  /\ i.kind = "timelock" => /\ k.calls = i.calls /\ k.batch = i.batch
                            /\ k.predecessor = i.predecessor /\ k.origin = i.origin
  /\ i.kind = "message" => \A j \in DOMAIN k.messages : j \in DOMAIN i.messages /\
                             (i.messages[j] # "UNCONFIRMED" => k.messages[j] # "UNCONFIRMED")
  /\ i.kind = "tickets" => \A c \in L2Chain : i.tickets[c] # <<>> => k.tickets[c] # <<>>

\* Whatever it becomes, what is known of it stays true.
LEMMA BecomesKeepsInv ==
  ASSUME PrepInv, Becomes(item, item'), UNCHANGED <<user, stage, pc>>,
         results' \in Seq(ResultFor(item.kind)), pc # "send" => results' = <<>>
  PROVE  PrepInv'
<1>1. item' \in Item /\ item'.kind = item.kind
  BY DEF Becomes
<1>2. ItemOK'
  BY <1>1 DEF Becomes, ItemOK, PrepInv
<1>3. UserOK'
  BY <1>1 DEF PrepInv, UserOK
<1>4. ResultsOK'
  BY <1>1 DEF ResultsOK
<1>5. StageOK'
  <2> SUFFICES ASSUME pc = "prepare"
               PROVE  /\ stage.type = item'.kind
                      /\ item'.kind = "timelock" => KeptTimelock'
                      /\ item'.kind = "message" => KeptMessage'
                      /\ item'.kind = "tickets" => KeptTickets'
    BY DEF StageOK
  <2>1. stage.type = item'.kind
    BY <1>1 DEF PrepInv, StageOK
  <2>2. ASSUME item.kind = "timelock" PROVE KeptTimelock'
    <3>1. OperationId(item') = OperationId(item) /\ item'.calls = item.calls
      BY <2>2 DEF Becomes, OperationId
    <3> QED BY <2>2, <3>1 DEF PrepInv, StageOK, KeptTimelock
  <2>3. ASSUME item.kind = "message" PROVE KeptMessage'
    BY <2>3 DEF Becomes, PrepInv, StageOK, KeptMessage
  <2>4. ASSUME item.kind = "tickets" PROVE KeptTickets'
    <3>1. \A k \in DOMAIN stage.targetChains : stage.targetChains[k] \in L2Chain
      BY <2>4 DEF PrepInv, StageOK, KeptTickets
    <3> QED BY <2>4, <3>1 DEF Becomes, PrepInv, StageOK, KeptTickets
  <2> QED BY <1>1, <2>1, <2>2, <2>3, <2>4
<1> QED BY <1>2, <1>3, <1>4, <1>5 DEF PrepInv

\* One message or ticket changes, and the others stay.
LEMMA TicketMoves ==
  ASSUME NEW i \in TicketItem, NEW c \in L2Chain, NEW j \in Nat, NEW status \in TicketStates
  PROVE  LET k == [i EXCEPT !.tickets[c][j] = status]
         IN  k \in TicketItem /\ k.kind = i.kind /\ \A d \in L2Chain : i.tickets[d] # <<>> => k.tickets[d] # <<>>
<1> DEFINE new == [i.tickets[c] EXCEPT ![j] = status]
           k   == [i EXCEPT !.tickets[c][j] = status]
<1>1. i.tickets \in [L2Chain -> Seq(TicketStates)] /\ i.tickets[c] \in Seq(TicketStates)
  BY DEF TicketItem
<1>2. new \in Seq(TicketStates) /\ (i.tickets[c] # <<>> => new # <<>>)
  BY <1>1, OneReplaced
<1>3. k.tickets = [i.tickets EXCEPT ![c] = new] /\ k = [i EXCEPT !.tickets = [i.tickets EXCEPT ![c] = new]]
  BY DEF TicketItem
<1>4. k \in TicketItem
  BY <1>1, <1>2, <1>3 DEF TicketItem
<1>5. ASSUME NEW d \in L2Chain, i.tickets[d] # <<>> PROVE k.tickets[d] # <<>>
  BY <1>1, <1>2, <1>3, <1>5
<1> QED BY <1>4, <1>5 DEF TicketItem

\* A message that is executed.
LEMMA MessageMoves ==
  ASSUME NEW i \in MessageItem, NEW j \in Nat
  PROVE  Becomes(i, [i EXCEPT !.messages[j] = "EXECUTED"])
<1> DEFINE new == [i.messages EXCEPT ![j] = "EXECUTED"]
           k   == [i EXCEPT !.messages[j] = "EXECUTED"]
<1>1. i.messages \in Seq(MessageStates) \ {<<>>} /\ "EXECUTED" \in MessageStates
  BY DEF MessageItem, MessageStates
<1>2. new \in Seq(MessageStates) \ {<<>>} /\ DOMAIN new = DOMAIN i.messages
  BY <1>1, OneReplaced
<1>3. k = [i EXCEPT !.messages = new]
  BY DEF MessageItem
<1>4. k \in MessageItem /\ k.messages = new
  BY <1>2, <1>3 DEF MessageItem
<1> QED BY <1>1, <1>2, <1>4 DEF Becomes, Item, MessageItem

\* What only time, or somebody else, does to an item.
LEMMA TimeMoves ==
  ASSUME PrepInv, TimePasses
  PROVE  Becomes(item, item') /\ UNCHANGED <<user, stage, results, pc>>
<1> USE DEF Becomes, Moves
<1>1. CASE DelayEnds
  <2>1. item \in TimelockItem
    BY <1>1 DEF DelayEnds, PrepInv, ItemOK, Item, MessageItem, TicketItem, QueueItem, ElectionItem
  <2>2. item' \in TimelockItem
    BY <1>1, <2>1 DEF DelayEnds, TimelockItem
  <2> QED BY <1>1, <2>1, <2>2 DEF DelayEnds, Item, TimelockItem
<1>2. CASE EarlierIsDone
  <2>1. item \in TimelockItem
    BY <1>2 DEF EarlierIsDone, PrepInv, ItemOK, Item, MessageItem, TicketItem, QueueItem, ElectionItem
  <2>2. item' \in TimelockItem
    BY <1>2, <2>1 DEF EarlierIsDone, TimelockItem
  <2> QED BY <1>2, <2>1, <2>2 DEF EarlierIsDone, Item, TimelockItem
<1>3. CASE Confirmed
  <2>1. item \in MessageItem
    BY <1>3 DEF Confirmed, PrepInv, ItemOK, Item, TimelockItem, TicketItem, QueueItem, ElectionItem
  <2> DEFINE new == [j \in DOMAIN item.messages |-> IF item.messages[j] = "UNCONFIRMED" THEN "CONFIRMED" ELSE item.messages[j]]
  <2>2. new \in Seq(MessageStates) \ {<<>>}
    <3>1. item.messages \in Seq(MessageStates) \ {<<>>}
      BY <2>1 DEF MessageItem
    <3>2. \A j \in DOMAIN item.messages : new[j] \in MessageStates
      BY <3>1 DEF MessageStates
    <3>3. DOMAIN new = DOMAIN item.messages /\ new = [j \in DOMAIN new |-> new[j]]
      OBVIOUS
    <3> HIDE DEF new
    <3> QED BY <3>1, <3>2, <3>3, ResultPerElement
  <2>3. item' = [item EXCEPT !.messages = new]
    BY <1>3, <2>1 DEF Confirmed, Ripe, MessageItem
  <2>4. item' \in MessageItem /\ item'.messages = new
    BY <2>1, <2>2, <2>3 DEF MessageItem
  <2> QED BY <1>3, <2>1, <2>4 DEF Confirmed, Item, MessageItem
<1>4. CASE VettingEnds
  <2>1. item \in QueueItem
    BY <1>4 DEF VettingEnds, PrepInv, ItemOK, Item, MessageItem, TicketItem, TimelockItem, ElectionItem
  <2> QED BY <1>4, <2>1 DEF VettingEnds, Item, QueueItem
<1>5. CASE DueComes
  <2>1. item \in ElectionItem
    BY <1>5 DEF DueComes, PrepInv, ItemOK, Item, MessageItem, TicketItem, TimelockItem, QueueItem
  <2> QED BY <1>5, <2>1 DEF DueComes, Item, ElectionItem
<1>6. CASE VoteEnds
  <2>1. item \in ElectionItem
    BY <1>6 DEF VoteEnds, PrepInv, ItemOK, Item, MessageItem, TicketItem, TimelockItem, QueueItem
  <2> QED BY <1>6, <2>1 DEF VoteEnds, Item, ElectionItem, Steps
<1>7. CASE TicketArrives
  <2>1. item \in TicketItem
    BY <1>7 DEF TicketArrives, PrepInv, ItemOK, Item, MessageItem, ElectionItem, TimelockItem, QueueItem
  <2>2. PICK c \in L2Chain : \E j \in DOMAIN item.tickets[c] :
          item' = [item EXCEPT !.tickets[c][j] = "FUNDS_DEPOSITED_ON_CHILD"]
    BY <1>7 DEF TicketArrives
  <2>3. PICK j \in DOMAIN item.tickets[c] : item' = [item EXCEPT !.tickets[c][j] = "FUNDS_DEPOSITED_ON_CHILD"]
    BY <2>2
  <2>4. item' \in TicketItem /\ \A d \in L2Chain : item.tickets[d] # <<>> => item'.tickets[d] # <<>>
    <3>1. j \in Nat
      BY <2>1 DEF TicketItem
    <3>2. "FUNDS_DEPOSITED_ON_CHILD" \in TicketStates
      BY DEF TicketStates
    <3> QED BY <2>1, <2>3, <3>1, <3>2, TicketMoves
  <2> QED BY <1>7, <2>1, <2>4 DEF TicketArrives, Item, TicketItem
<1> QED BY <1>1, <1>2, <1>3, <1>4, <1>5, <1>6, <1>7 DEF TimePasses

\* What others do takes nothing back that a preparation relies on.
LEMMA OthersMove ==
  ASSUME PrepInv, OthersAct
  PROVE  Becomes(item, item') /\ UNCHANGED <<user, stage, results, pc>>
<1>1. CASE item.kind = "timelock"
  <2>1. item \in TimelockItem
    BY <1>1 DEF PrepInv, ItemOK, Item, MessageItem, TicketItem, QueueItem, ElectionItem
  <2>2. Moves([item EXCEPT !.state = "Done"])
    BY <1>1 DEF OthersAct
  <2>3. item' \in TimelockItem
    BY <2>1, <2>2 DEF TimelockItem, Moves
  <2> QED BY <2>1, <2>2, <2>3 DEF Becomes, Item, TimelockItem, Moves
<1>2. CASE item.kind = "message"
  <2>1. item \in MessageItem
    BY <1>2 DEF PrepInv, ItemOK, Item, TimelockItem, TicketItem, QueueItem, ElectionItem
  <2>2. PICK j \in DOMAIN item.messages : Moves([item EXCEPT !.messages[j] = "EXECUTED"])
    BY <1>2 DEF OthersAct
  <2>3. j \in Nat
    BY <2>1 DEF MessageItem
  <2> QED BY <2>1, <2>2, <2>3, MessageMoves DEF Moves
<1>3. CASE item.kind = "tickets"
  <2>1. item \in TicketItem
    BY <1>3 DEF PrepInv, ItemOK, Item, TimelockItem, MessageItem, QueueItem, ElectionItem
  <2>2. PICK c \in L2Chain, s \in {"REDEEMED", "EXPIRED"} :
          \E j \in DOMAIN item.tickets[c] : Moves([item EXCEPT !.tickets[c][j] = s])
    BY <1>3 DEF OthersAct
  <2>3. PICK j \in DOMAIN item.tickets[c] : Moves([item EXCEPT !.tickets[c][j] = s])
    BY <2>2
  <2>4. j \in Nat /\ s \in TicketStates
    BY <2>1 DEF TicketItem, TicketStates
  <2> DEFINE k == [item EXCEPT !.tickets[c][j] = s]
  <2>5. k \in TicketItem /\ k.kind = item.kind /\ \A d \in L2Chain : item.tickets[d] # <<>> => k.tickets[d] # <<>>
    BY <2>1, <2>4, TicketMoves
  <2>6. item' = k /\ UNCHANGED <<user, stage, results, pc>>
    BY <2>3 DEF Moves
  <2> HIDE DEF k
  <2> QED BY <1>3, <2>5, <2>6 DEF Becomes, Item
<1>4. CASE item.kind = "queue"
  <2>1. item \in QueueItem
    BY <1>4 DEF PrepInv, ItemOK, Item, TimelockItem, MessageItem, TicketItem, ElectionItem
  <2>2. Moves([item EXCEPT !.state = "Queued"])
    BY <1>4 DEF OthersAct
  <2> QED BY <2>1, <2>2 DEF Becomes, Item, QueueItem, Moves
<1>5. CASE item.kind = "election"
  <2>1. item \in ElectionItem
    BY <1>5 DEF PrepInv, ItemOK, Item, TimelockItem, MessageItem, TicketItem, QueueItem
  <2>2. Moves([item EXCEPT !.next = ElectionAfter(@)]) /\ item.next \in Steps
    BY <1>5 DEF OthersAct, IsDue, Steps
  <2>3. ElectionAfter(item.next) \in {"nominating", "electing", "installed"}
    BY <2>2 DEF ElectionAfter, Steps
  <2> QED BY <2>1, <2>2, <2>3 DEF Becomes, Item, ElectionItem, Moves
<1> QED BY <1>1, <1>2, <1>3, <1>4, <1>5 DEF OthersAct

\* Nor does the gas price.
LEMMA FeeMoveIsSound ==
  ASSUME PrepInv, FeeMoves
  PROVE  Becomes(item, item') /\ UNCHANGED <<user, stage, results, pc>>
<1>1. item \in TimelockItem
  BY DEF FeeMoves, PrepInv, ItemOK, Item, MessageItem, TicketItem, QueueItem, ElectionItem
<1>2. PICK fee \in 1 .. MaxFee : item' = [item EXCEPT !.fee = fee]
  BY DEF FeeMoves
<1>3. item' \in TimelockItem
  BY <1>1, <1>2 DEF TimelockItem
<1> QED BY <1>1, <1>2, <1>3 DEF FeeMoves, Becomes, Item, TimelockItem

\* What an accepted transaction does to an item is among what may happen to it.
LEMMA ExecutionMoves ==
  ASSUME PrepInv, NEW tx \in TxFor(item.kind), Accepts(tx, item)
  PROVE  Becomes(item, After(tx, item))
<1>1. CASE item.kind = "timelock"
  <2>1. item \in TimelockItem /\ tx.kind = "timelock"
    BY <1>1 DEF PrepInv, ItemOK, Item, MessageItem, TicketItem, QueueItem, ElectionItem, TxFor
  <2>2. After(tx, item) = [item EXCEPT !.state = "Done"]
    BY <2>1 DEF After
  <2>3. [item EXCEPT !.state = "Done"] \in TimelockItem
    BY <2>1 DEF TimelockItem
  <2> QED BY <2>1, <2>2, <2>3 DEF Becomes, Item, TimelockItem
<1>2. CASE item.kind = "message"
  <2>1. item \in MessageItem /\ tx.kind = "message" /\ tx.index \in Nat
    BY <1>2 DEF PrepInv, ItemOK, Item, TimelockItem, TicketItem, QueueItem, ElectionItem, TxFor
  <2>2. After(tx, item) = [item EXCEPT !.messages[tx.index] = "EXECUTED"]
    BY <2>1 DEF After
  <2> QED BY <2>1, <2>2, MessageMoves
<1>3. CASE item.kind = "tickets"
  <2>1. item \in TicketItem /\ tx.kind = "tickets" /\ tx.chain \in L2Chain /\ tx.index \in Nat
    BY <1>3 DEF PrepInv, ItemOK, Item, TimelockItem, MessageItem, QueueItem, ElectionItem, TxFor
  <2> DEFINE k == [item EXCEPT !.tickets[tx.chain][tx.index] = "REDEEMED"]
  <2>2. After(tx, item) = k
    BY <2>1 DEF After
  <2>3. "REDEEMED" \in TicketStates
    BY DEF TicketStates
  <2>4. k \in TicketItem /\ k.kind = item.kind /\ \A d \in L2Chain : item.tickets[d] # <<>> => k.tickets[d] # <<>>
    BY <2>1, <2>3, TicketMoves
  <2> HIDE DEF k
  <2> QED BY <1>3, <2>2, <2>4 DEF Becomes, Item
<1>4. CASE item.kind = "queue"
  <2>1. item \in QueueItem /\ tx.kind = "queue"
    BY <1>4 DEF PrepInv, ItemOK, Item, TimelockItem, MessageItem, TicketItem, ElectionItem, TxFor
  <2>2. After(tx, item) = [item EXCEPT !.state = "Queued"]
    BY <2>1 DEF After
  <2> QED BY <2>1, <2>2 DEF Becomes, Item, QueueItem
<1>5. CASE item.kind = "election"
  <2>1. item \in ElectionItem /\ tx.kind = "election" /\ tx.method \in Steps
    BY <1>5 DEF PrepInv, ItemOK, Item, TimelockItem, MessageItem, TicketItem, QueueItem, TxFor
  <2>2. After(tx, item) = [item EXCEPT !.next = ElectionAfter(tx.method)]
    BY <2>1 DEF After
  <2>3. ElectionAfter(tx.method) \in {"nominating", "electing", "installed"}
    BY <2>1 DEF ElectionAfter, Steps
  <2> QED BY <2>1, <2>2, <2>3 DEF Becomes, Item, ElectionItem
<1>6. item.kind \in {"timelock", "message", "tickets", "queue", "election"}
  BY DEF PrepInv, ItemOK, Item, TimelockItem, MessageItem, TicketItem, QueueItem, ElectionItem
<1> QED BY <1>1, <1>2, <1>3, <1>4, <1>5, <1>6

-----------------------------------------------------------------------------
(* The theorem                                                             *)

\* Every item begins as one.
LEMMA InitialItem ==
  ASSUME PrepInit
  PROVE  ItemOK
<1>1. CASE item \in OperationItems
  <2>1. item \in TimelockItem
    <3>1. PICK o \in Origins, k \in BOOLEAN, c \in CallLists, b \in BOOLEAN, p \in Earlier :
            item = [kind |-> "timelock", origin |-> o, known |-> k, calls |-> c, batch |-> b, predecessor |-> p,
                    state |-> "Pending", earlierDone |-> FALSE, fee |-> 1]
      BY <1>1 DEF OperationItems, Operations, Earlier
    <3>2. 1 \in 1 .. MaxFee
      BY PreparationAssumption DEF PreparationAssumption
    <3> QED BY <3>1, <3>2 DEF TimelockItem
  <2> QED BY <1>1, <2>1 DEF ItemOK, Item, OperationItems, TimelockItem
<1>2. CASE item \in MessageItems
  <2>1. PICK n \in MessageCounts : item = [kind |-> "message", messages |-> [j \in 1 .. n |-> "UNCONFIRMED"]]
    BY <1>2 DEF MessageItems
  <2>2. n \in Nat \ {0}
    BY PreparationAssumption DEF PreparationAssumption
  <2> DEFINE m == [j \in 1 .. n |-> "UNCONFIRMED"]
  <2>3. m \in Seq(MessageStates) /\ 1 \in DOMAIN m
    BY <2>2 DEF MessageStates
  <2>4. item \in MessageItem
    BY <2>1, <2>3 DEF MessageItem
  <2> QED BY <2>1, <2>4 DEF ItemOK, Item
<1>3. CASE item \in TicketItems
  <2>1. PICK n \in TicketCounts :
          item = [kind |-> "tickets", tickets |-> [c \in L2Chain |-> [j \in 1 .. n[c] |-> "NOT_YET_CREATED"]]]
    BY <1>3 DEF TicketItems
  <2>2. n \in [L2Chain -> Nat] /\ n # [c \in L2Chain |-> 0]
    BY PreparationAssumption DEF PreparationAssumption
  <2>3. PICK c \in L2Chain : n[c] # 0
    BY <2>2
  <2>4. \A d \in L2Chain : [j \in 1 .. n[d] |-> "NOT_YET_CREATED"] \in Seq(TicketStates)
    BY <2>2 DEF TicketStates
  <2>5. item \in TicketItem
    BY <2>1, <2>4 DEF TicketItem
  <2>6. item.tickets[c] # <<>>
    <3>1. 1 \in 1 .. n[c]
      BY <2>2, <2>3
    <3>2. 1 \in DOMAIN item.tickets[c]
      BY <2>1, <3>1
    <3> QED BY <3>2
  <2> QED BY <2>1, <2>5, <2>6 DEF ItemOK, Item
<1>4. CASE item \in QueueItems
  BY <1>4 DEF QueueItems, QueueItem, ItemOK, Item
<1>5. CASE item \in ElectionItems
  BY <1>5 DEF ElectionItems, ElectionItem, ItemOK, Item, Steps
<1> QED BY <1>1, <1>2, <1>3, <1>4, <1>5 DEF PrepInit, Items

\* The invariant holds at the start.
LEMMA InitialPrepInv ==
  ASSUME PrepInit
  PROVE  PrepInv
BY InitialItem DEF PrepInit, PrepInv, UserOK, ResultsOK, StageOK

\* Tracking establishes what is kept of a stage.
LEMMA TrackKeepsInv ==
  ASSUME PrepInv, Track
  PROVE  PrepInv'
<1>1. stage' = Tracked(item) /\ pc' \in {"prepare", "done"} /\ pc # "send" /\ UNCHANGED <<item, user, results>>
  BY DEF Track
<1>2. ItemOK' /\ UserOK' /\ ResultsOK'
  BY <1>1 DEF PrepInv, ItemOK, UserOK, ResultsOK
<1>3. StageOK'
  <2>1. CASE item.kind = "timelock"
    <3>1. item \in TimelockItem /\ stage' = trackTimelock(item)
      BY <1>1, <2>1 DEF Tracked, PrepInv, ItemOK, Item, MessageItem, TicketItem, QueueItem, ElectionItem
    <3> QED BY <1>1, <2>1, <3>1, TrackedTimelock DEF StageOK, KeptTimelock
  <2>2. CASE item.kind = "message"
    <3>1. item \in MessageItem /\ stage' = trackL2ToL1Message(item)
      BY <1>1, <2>2 DEF Tracked, PrepInv, ItemOK, Item, TimelockItem, TicketItem, QueueItem, ElectionItem
    <3> QED BY <1>1, <2>2, <3>1, TrackedMessage DEF StageOK, KeptMessage
  <2>3. CASE item.kind = "tickets"
    <3>1. item \in TicketItem /\ stage' = trackRetryables(item) /\ \E c \in L2Chain : item.tickets[c] # <<>>
      BY <1>1, <2>3 DEF Tracked, PrepInv, ItemOK, Item, TimelockItem, MessageItem, QueueItem, ElectionItem
    <3> QED BY <1>1, <2>3, <3>1, TrackedTickets DEF StageOK, KeptTickets
  <2>4. CASE item.kind = "queue"
    BY <1>1, <2>4 DEF Tracked, trackProposalQueued, StageOK
  <2>5. CASE item.kind = "election"
    BY <1>1, <2>5 DEF Tracked, checkElection, StageOK
  <2>6. item.kind \in {"timelock", "message", "tickets", "queue", "election"}
    BY DEF PrepInv, ItemOK, Item, TimelockItem, MessageItem, TicketItem, QueueItem, ElectionItem
  <2> QED BY <2>1, <2>2, <2>3, <2>4, <2>5, <2>6
<1> QED BY <1>1, <1>2, <1>3 DEF PrepInv

\* What is prepared from it is good, by the invariant.
LEMMA PrepareStep ==
  ASSUME PrepInv, Prepare
  PROVE  PrepInv' /\ results' \in Seq(Good)
<1>1. PICK readFails \in BOOLEAN : results' = prepareStagesForResult(item, stage, readFails)
  BY DEF Prepare
<1>2. results' \in Seq(Good)
  BY <1>1, PreparedIsGood DEF Prepare
<1>3. Good \subseteq ResultFor(item.kind)
  BY DEF Good
<1>4. results' \in Seq(ResultFor(item.kind))
  BY <1>2, <1>3
<1>5. ItemOK' /\ UserOK' /\ ResultsOK' /\ StageOK'
  BY <1>4 DEF Prepare, PrepInv, ItemOK, UserOK, ResultsOK, StageOK
<1> QED BY <1>2, <1>5 DEF PrepInv, Prepare

\* Sending moves the item as its contract does.
LEMMA ExecuteKeepsInv ==
  ASSUME PrepInv, executeTransaction
  PROVE  PrepInv'
<1>1. results \in Seq(ResultFor(item.kind)) \ {<<>>} /\ pc = "send"
  BY DEF executeTransaction, PrepInv, ResultsOK
<1>2. results' \in Seq(ResultFor(item.kind)) /\ UNCHANGED <<user, stage, pc>>
  BY <1>1 DEF executeTransaction
<1>3. CASE results[1].success /\ Accepts(results[1].tx, item)
  <2>1. results[1] \in ResultFor(item.kind)
    BY <1>1
  <2>2. results[1].tx \in TxFor(item.kind)
    BY <1>3, <2>1 DEF ResultFor, Failure
  <2>3. Becomes(item, item')
    BY <1>3, <2>2, ExecutionMoves DEF executeTransaction
  <2> QED BY <1>1, <1>2, <2>3, BecomesKeepsInv
<1>4. CASE ~ (results[1].success /\ Accepts(results[1].tx, item))
  <2>1. item' = item
    BY <1>4 DEF executeTransaction
  <2> QED BY <1>1, <1>2, <2>1 DEF PrepInv, ItemOK, UserOK, ResultsOK, StageOK
<1> QED BY <1>3, <1>4

\* Every step keeps the invariant, and none but a preparation makes results.
LEMMA PrepInvInductive ==
  ASSUME PrepInv, [PrepNext]_prepVars
  PROVE  PrepInv' /\ (pc = "prepare" => results' \in Seq(Good))
<1>1. pc = "prepare" /\ UNCHANGED results => results' \in Seq(Good)
  BY DEF PrepInv, ResultsOK
<1>2. CASE TimePasses \/ OthersAct \/ FeeMoves
  <2>1. Becomes(item, item') /\ UNCHANGED <<user, stage, results, pc>>
    BY <1>2, TimeMoves, OthersMove, FeeMoveIsSound
  <2> QED BY <1>1, <2>1, BecomesKeepsInv DEF PrepInv, ResultsOK
<1>3. CASE Track
  BY <1>3, TrackKeepsInv DEF Track
<1>4. CASE Prepare
  BY <1>4, PrepareStep
<1>5. CASE executeTransaction
  BY <1>5, ExecuteKeepsInv DEF executeTransaction
<1>6. CASE Retrack
  BY <1>6 DEF Retrack, PrepInv, ItemOK, UserOK, ResultsOK, StageOK
<1>7. CASE UNCHANGED prepVars
  BY <1>1, <1>7 DEF prepVars, PrepInv, ItemOK, UserOK, ResultsOK, StageOK, KeptTimelock, KeptMessage, KeptTickets
<1> QED BY <1>2, <1>3, <1>4, <1>5, <1>6, <1>7 DEF PrepNext, Done

\* What comes out of a preparation is accepted by the contract, there and then or, if
\* it was asked for ahead of time, once the operation is ready, with the exceptions that
\* Excused names: for every set of operations, numbers of messages and tickets, gas
\* price and user, and whatever moves between tracking and preparation.
THEOREM PreparationIsAccepted == PrepSpec => PreparedIsAccepted
<1>1. PrepInit => PrepInv
  BY InitialPrepInv
<1>2. PrepInv /\ [PrepNext]_prepVars => PrepInv'
  BY PrepInvInductive
<1>3. ASSUME PrepInv, [PrepNext]_prepVars
      PROVE  [pc = "prepare" =>
                \A j \in DOMAIN results' :
                  results'[j].success =>
                    \/ Accepts(results'[j].tx, IF user.wants = "READY" THEN Unblocked(item) ELSE Ripe(item))
                    \/ Excused(results'[j].tx, item)]_prepVars
  <2> SUFFICES ASSUME pc = "prepare", NEW j \in DOMAIN results', results'[j].success
               PROVE  Acceptable(results'[j].tx)
    BY DEF Acceptable
  <2>1. results' \in Seq(Good)
    BY <1>3, PrepInvInductive
  <2>2. results'[j] \in Good
    BY <2>1
  <2> QED BY <2>2 DEF Good
<1>4. PrepSpec => [][pc = "prepare" =>
                \A j \in DOMAIN results' :
                  results'[j].success =>
                    \/ Accepts(results'[j].tx, IF user.wants = "READY" THEN Unblocked(item) ELSE Ripe(item))
                    \/ Excused(results'[j].tx, item)]_prepVars
  BY <1>1, <1>2, <1>3, PTL DEF PrepSpec
<1> QED BY <1>4 DEF PreparedIsAccepted

-----------------------------------------------------------------------------
(* Numbers                                                                 *)

\* A finite set of numbers that is not empty has a greatest element.
LEMMA NatMax ==
  ASSUME NEW T, T \subseteq Nat, T # {}, IsFiniteSet(T)
  PROVE  \E m \in T : \A n \in T : n <= m
<1> DEFINE From(n) == {i \in T : i >= n}
           Above   == {From(n) : n \in T}
<1>1. Above \subseteq FiniteSubsetsOf(T)
  <2>1. \A n \in T : From(n) \in SUBSET T
    OBVIOUS
  <2>2. \A n \in T : IsFiniteSet(From(n))
    BY <2>1, FS_Subset, Zenon
  <2> QED BY <2>1, <2>2 DEF FiniteSubsetsOf
<1>2. Above # {}
  OBVIOUS
<1>3. PICK S \in Above : \A R \in Above : ~(<<R, S>> \in StrictSubsetOrdering(T))
  BY <1>1, <1>2, FS_StrictSubsetOrderingWellFounded, WFMin
<1>4. PICK m \in T : S = From(m)
  OBVIOUS
<1>5. ASSUME NEW n \in T, m < n PROVE FALSE
  <2>1. From(n) \in Above /\ From(n) \in SUBSET T /\ From(m) \in SUBSET T
    OBVIOUS
  <2>2. From(n) \subseteq From(m)
    <3>1. \A i \in T : i >= n => i >= m
      BY <1>5
    <3> QED BY <3>1
  <2>4. m \notin From(n) /\ m \in From(m)
    BY <1>5
  <2>3. <<From(n), From(m)>> \in StrictSubsetOrdering(T)
    BY <2>1, <2>2, <2>4 DEF StrictSubsetOrdering
  <2> QED BY <1>3, <1>4, <2>1, <2>3
<1> QED BY <1>5

\* Min of a set of numbers is its least element.
LEMMA MinIsLeast ==
  ASSUME NEW T, T \subseteq Nat, T # {}
  PROVE  Min(T) \in T /\ \A n \in T : Min(T) <= n
BY NatMin DEF Min

\* Max of a finite set of numbers is its greatest element.
LEMMA MaxIsGreatest ==
  ASSUME NEW T, T \subseteq Nat, T # {}, IsFiniteSet(T)
  PROVE  Max(T) \in T /\ \A n \in T : n <= Max(T)
<1>1. PICK m \in T : \A n \in T : n <= m
  BY NatMax
<1>2. \A n \in T : m >= n
  BY <1>1
<1>3. Max(T) \in T /\ \A n \in T : Max(T) >= n
  BY <1>2 DEF Max
<1>4. \A a, b \in T : a >= b => b <= a
  OBVIOUS
<1> QED BY <1>3, <1>4

\* A part of a finite set and the rest.
LEMMA PartOf ==
  ASSUME NEW S, IsFiniteSet(S), NEW A, A \subseteq S
  PROVE  /\ IsFiniteSet(A) /\ Cardinality(A) \in Nat /\ Cardinality(S) \in Nat
         /\ IsFiniteSet(S \ A) /\ Cardinality(S \ A) \in Nat
         /\ Cardinality(A) <= Cardinality(S)
         /\ Cardinality(A) + Cardinality(S \ A) = Cardinality(S)
<1>1. IsFiniteSet(A) /\ Cardinality(A) <= Cardinality(S)
  BY FS_Subset
<1>2. IsFiniteSet(S \ A) /\ Cardinality(S \ A) = Cardinality(S) - Cardinality(S \cap A)
  BY FS_Difference
<1>3. S \cap A = A
  OBVIOUS
<1>4. Cardinality(A) \in Nat /\ Cardinality(S) \in Nat /\ Cardinality(S \ A) \in Nat
  BY <1>1, <1>2, FS_CardinalityType
<1>5. Cardinality(A) + Cardinality(S \ A) = Cardinality(S)
  BY <1>2, <1>3, <1>4
<1> QED BY <1>1, <1>2, <1>4, <1>5, Zenon

-----------------------------------------------------------------------------
(* Links                                                                   *)

\* The two names that are no keys of a checkpoint.
LEMMA NoKeyIsNoKey ==
  /\ NoKey \notin TxKeys /\ NoKey \notin ElectionKeys /\ WatermarkKey \notin TxKeys /\ WatermarkKey \notin ElectionKeys
  /\ NoKey # WatermarkKey
<1>1. NoKey # WatermarkKey
  BY DEF NoKey, WatermarkKey
<1>2. {NoKey, WatermarkKey} \cap (TxKeys \cup ElectionKeys) = {}
  BY KeysAssumption DEF KeysAssumption
<1> QED BY <1>1, <1>2

\* A parent that is found is an election of the cache.
LEMMA ParentIsElection ==
  ASSUME NEW cache, NEW cp, findPotentialParent(cp, cache) # NoKey
  PROVE  findPotentialParent(cp, cache) \in ElectionKeys \cap DOMAIN cache
<1> DEFINE done == {i \in DOMAIN ElectionOrder :
                      /\ ElectionOrder[i] \in DOMAIN cache
                      /\ cache[ElectionOrder[i]].phase = "COMPLETED" /\ cache[ElectionOrder[i]].memberProposal}
<1>1. done # {} /\ findPotentialParent(cp, cache) = ElectionOrder[Min(done)]
  BY DEF findPotentialParent
<1>2. done \subseteq Nat
  <2>1. ElectionOrder \in Seq(ElectionKeys)
    BY KeysAssumption DEF KeysAssumption
  <2> QED BY <2>1
<1>3. Min(done) \in done
  BY <1>1, <1>2, MinIsLeast
<1> QED BY <1>1, <1>3 DEF ElectionKeys

\* It depends on nothing but the elections.
LEMMA ParentIsStable ==
  ASSUME NEW cache, NEW linked, NEW cp, NEW new,
         cp.input = new.input, cp.group = new.group, DOMAIN linked = DOMAIN cache,
         \A k \in DOMAIN cache : linked[k].phase = cache[k].phase /\ linked[k].memberProposal = cache[k].memberProposal
  PROVE  findPotentialParent(new, linked) = findPotentialParent(cp, cache)
<1> DEFINE done(c) == {i \in DOMAIN ElectionOrder :
                         /\ ElectionOrder[i] \in DOMAIN c
                         /\ c[ElectionOrder[i]].phase = "COMPLETED" /\ c[ElectionOrder[i]].memberProposal}
<1>1. done(linked) = done(cache)
  BY Zenon
<1> QED BY <1>1 DEF findPotentialParent

\* What linking does to one entry.
LEMMA LinkedEntry ==
  ASSUME NEW cache, IsCache(cache), NEW k \in DOMAIN cache
  PROVE  LET linked == autoLinkOrphanedCheckpoints(cache)
             parent == findPotentialParent(cache[k], cache)
         IN  linked[k] = IF k \in orphans(cache) /\ parent # NoKey
                         THEN [cache[k] EXCEPT !.sourceCheckpoint = parent] ELSE cache[k]
<1> DEFINE parent == findPotentialParent(cache[k], cache)
<1>1. cache \in [DOMAIN cache -> CacheEntry]
  BY DEF IsCache
<1>2. linkCheckpointToChild(cache, k, parent)[k] = [cache[k] EXCEPT !.sourceCheckpoint = parent]
  BY <1>1 DEF linkCheckpointToChild
<1> QED BY <1>2 DEF autoLinkOrphanedCheckpoints

\* What a link may change of an entry.
IsLink(cache, linked, k) ==
  \/ linked[k] = cache[k]
  \/ /\ k \in TxKeys /\ cache[k].input = "timelock" /\ cache[k].sourceCheckpoint = NoKey
     /\ \E p \in ElectionKeys \cap DOMAIN cache : linked[k] = [cache[k] EXCEPT !.sourceCheckpoint = p]

\* Linking leaves every entry, or gives an orphan its source.
LEMMA LinkingIsSmall ==
  ASSUME NEW cache, IsCache(cache)
  PROVE  /\ DOMAIN autoLinkOrphanedCheckpoints(cache) = DOMAIN cache
         /\ autoLinkOrphanedCheckpoints(cache) = [k \in DOMAIN cache |-> autoLinkOrphanedCheckpoints(cache)[k]]
         /\ \A k \in DOMAIN cache : IsLink(cache, autoLinkOrphanedCheckpoints(cache), k)
<1> DEFINE linked == autoLinkOrphanedCheckpoints(cache)
<1>1. DOMAIN linked = DOMAIN cache /\ linked = [k \in DOMAIN cache |-> linked[k]]
  BY DEF autoLinkOrphanedCheckpoints
<1>2. ASSUME NEW k \in DOMAIN cache, linked[k] # cache[k]
      PROVE  IsLink(cache, linked, k)
  <2> DEFINE parent == findPotentialParent(cache[k], cache)
  <2>1. k \in orphans(cache) /\ parent # NoKey /\ linked[k] = [cache[k] EXCEPT !.sourceCheckpoint = parent]
    BY <1>2, LinkedEntry
  <2>2. parent \in ElectionKeys \cap DOMAIN cache
    BY <2>1, ParentIsElection
  <2>3. k \in TxKeys /\ cache[k].input = "timelock" /\ cache[k].sourceCheckpoint = NoKey
    BY <2>1 DEF orphans, isTxKey, isChildCheckpoint
  <2> QED BY <2>1, <2>2, <2>3 DEF IsLink
<1>3. \A k \in DOMAIN cache : IsLink(cache, linked, k)
  BY <1>2 DEF IsLink
<1> QED BY <1>1, <1>3

\* What a link leaves of it.
LEMMA LinkLeaves ==
  ASSUME NEW cache, IsCache(cache), NEW linked, NEW k \in DOMAIN cache, IsLink(cache, linked, k)
  PROVE  /\ linked[k] \in CacheEntry
         /\ linked[k].input = cache[k].input /\ linked[k].group = cache[k].group
         /\ linked[k].stages = cache[k].stages
         /\ linked[k].phase = cache[k].phase /\ linked[k].memberProposal = cache[k].memberProposal
         /\ cache[k].input # "timelock" => linked[k] = cache[k]
<1>1. cache[k] \in CacheEntry
  BY DEF IsCache
<1>2. CASE linked[k] = cache[k]
  BY <1>1, <1>2
<1>3. CASE linked[k] # cache[k]
  <2>1. PICK p \in ElectionKeys \cap DOMAIN cache : linked[k] = [cache[k] EXCEPT !.sourceCheckpoint = p]
    BY <1>3 DEF IsLink
  <2>2. cache[k].input = "timelock"
    BY <1>3 DEF IsLink
  <2> QED BY <1>1, <2>1, <2>2 DEF CacheEntry
<1> QED BY <1>2, <1>3

\* The source of an entry that is linked is a root of the cache that is linked.
LEMMA LinkIsToRoot ==
  ASSUME NEW cache, IsCache(cache), NEW linked, \A k \in DOMAIN cache : IsLink(cache, linked, k),
         NEW k \in DOMAIN cache, linked[k].sourceCheckpoint # NoKey
  PROVE  /\ linked[k].sourceCheckpoint \in DOMAIN cache /\ cache[k].input = "timelock"
         /\ linked[linked[k].sourceCheckpoint].sourceCheckpoint = NoKey
<1> DEFINE p == linked[k].sourceCheckpoint
<1>1. cache[k] \in CacheEntry
  BY DEF IsCache
<1>2. \A r \in DOMAIN cache : cache[r].input # "timelock" => linked[r].sourceCheckpoint = NoKey
  <2>1. ASSUME NEW r \in DOMAIN cache, cache[r].input # "timelock" PROVE linked[r].sourceCheckpoint = NoKey
    <3>1. linked[r] = cache[r]
      BY <2>1 DEF IsLink
    <3> QED BY <2>1, <3>1 DEF IsCache
  <2> QED BY <2>1
<1>3. CASE linked[k] = cache[k]
  <2>1. cache[k].input = "timelock" /\ p \in DOMAIN cache /\ cache[p].input \in {"governor", "election"}
    BY <1>3 DEF IsCache
  <2> QED BY <1>2, <2>1
<1>4. CASE linked[k] # cache[k]
  <2>1. PICK e \in ElectionKeys \cap DOMAIN cache : linked[k] = [cache[k] EXCEPT !.sourceCheckpoint = e]
    BY <1>4 DEF IsLink
  <2>2. cache[k].input = "timelock"
    BY <1>4 DEF IsLink
  <2>3. p = e
    BY <1>1, <2>1 DEF CacheEntry
  <2>4. cache[e].input = "election"
    BY DEF IsCache
  <2> QED BY <1>2, <2>1, <2>2, <2>3, <2>4
<1> QED BY <1>3, <1>4

\* Linking a second time finds nothing to link.
LEMMA LinkedTwice ==
  ASSUME NEW cache, IsCache(cache)
  PROVE  autoLinkOrphanedCheckpoints(autoLinkOrphanedCheckpoints(cache)) = autoLinkOrphanedCheckpoints(cache)
<1> DEFINE linked == autoLinkOrphanedCheckpoints(cache)
<1>1. DOMAIN linked = DOMAIN cache /\ linked = [k \in DOMAIN cache |-> linked[k]]
  BY LinkingIsSmall
<1>2. \A k \in DOMAIN cache : IsLink(cache, linked, k)
  BY LinkingIsSmall
<1>3. ASSUME NEW k \in DOMAIN cache
      PROVE  ~(k \in orphans(linked) /\ findPotentialParent(linked[k], linked) # NoKey)
  <2> DEFINE parent == findPotentialParent(cache[k], cache)
  <2>1. /\ linked[k].input = cache[k].input /\ linked[k].group = cache[k].group
        /\ \A l \in DOMAIN cache : linked[l].phase = cache[l].phase /\ linked[l].memberProposal = cache[l].memberProposal
    BY <1>2, LinkLeaves
  <2>2. findPotentialParent(linked[k], linked) = parent
    BY <1>1, <2>1, ParentIsStable
  <2>3. SUFFICES ASSUME k \in orphans(linked), parent # NoKey PROVE FALSE
    BY <2>2
  <2>4. isTxKey(k) /\ linked[k].sourceCheckpoint = NoKey /\ linked[k].input = "timelock"
    BY <1>1, <2>3 DEF orphans, isChildCheckpoint
  <2>5. CASE cache[k].sourceCheckpoint = NoKey
    <3>1. k \in orphans(cache)
      BY <2>1, <2>4, <2>5 DEF orphans, isChildCheckpoint
    <3>2. linked[k] = [cache[k] EXCEPT !.sourceCheckpoint = parent]
      BY <2>3, <3>1, LinkedEntry
    <3>3. cache[k] \in CacheEntry
      BY DEF IsCache
    <3> QED BY <2>3, <2>4, <3>2, <3>3 DEF CacheEntry
  <2>6. CASE cache[k].sourceCheckpoint # NoKey
    BY <1>2, <2>4, <2>6 DEF IsLink
  <2> QED BY <2>5, <2>6
<1> HIDE DEF linked
<1>4. autoLinkOrphanedCheckpoints(linked) = [k \in DOMAIN cache |-> linked[k]]
  BY <1>1, <1>3 DEF autoLinkOrphanedCheckpoints
<1> QED BY <1>1, <1>4 DEF linked

\* A cache in which every source is a root of it.
IsRooted(cache) ==
  /\ IsFiniteSet(DOMAIN cache) /\ NoKey \notin DOMAIN cache
  /\ WatermarkKey \in DOMAIN cache => cache[WatermarkKey].sourceCheckpoint = NoKey
  /\ \A k \in DOMAIN cache : cache[k].sourceCheckpoint # NoKey =>
       /\ cache[k].sourceCheckpoint \in DOMAIN cache
       /\ cache[cache[k].sourceCheckpoint].sourceCheckpoint = NoKey

\* After linking, every source is a root.
LEMMA LinkedIsRooted ==
  ASSUME NEW cache, IsCache(cache)
  PROVE  IsRooted(autoLinkOrphanedCheckpoints(cache))
<1> DEFINE linked == autoLinkOrphanedCheckpoints(cache)
<1>1. DOMAIN linked = DOMAIN cache /\ IsFiniteSet(DOMAIN cache) /\ NoKey \notin DOMAIN cache
  <2>1. DOMAIN linked = DOMAIN cache
    BY LinkingIsSmall
  <2>2. IsFiniteSet(DOMAIN cache) /\ NoKey \notin DOMAIN cache
    BY NoKeyIsNoKey DEF IsCache
  <2> QED BY <2>1, <2>2
<1>2. \A k \in DOMAIN cache : IsLink(cache, linked, k)
  BY LinkingIsSmall
<1> HIDE DEF linked
<1>3. ASSUME NEW k \in DOMAIN cache, linked[k].sourceCheckpoint # NoKey
      PROVE  /\ linked[k].sourceCheckpoint \in DOMAIN cache /\ cache[k].input = "timelock"
             /\ linked[linked[k].sourceCheckpoint].sourceCheckpoint = NoKey
  BY <1>2, <1>3, LinkIsToRoot
<1>4. WatermarkKey \in DOMAIN cache => cache[WatermarkKey].input # "timelock"
  BY NoKeyIsNoKey DEF IsCache
<1> QED BY <1>1, <1>3, <1>4 DEF IsRooted, linked

\* The roots and the children of such a cache are the whole of it.
LEMMA RootsAndChildren ==
  ASSUME NEW cache, IsRooted(cache)
  PROVE  LET children == DOMAIN getChildToParentMap(cache)
             stats    == getDeduplicationStats(cache)
         IN  /\ \A k \in children : getChildToParentMap(cache)[k] \in filterChildCheckpoints(cache)
             /\ children = UNION {getChildCheckpoints(cache, p) : p \in filterChildCheckpoints(cache)}
             /\ filterChildCheckpoints(cache) = DOMAIN cache \ children
             /\ stats.rootCheckpoints = Cardinality(filterChildCheckpoints(cache) \ {WatermarkKey})
             /\ stats.fromElections + stats.fromProposals = stats.childCheckpoints
<1> DEFINE children == {k \in DOMAIN cache : cache[k].sourceCheckpoint # NoKey}
           entries  == DOMAIN cache \ {WatermarkKey}
           ofElections == {k \in children : isElectionKey(cache[k].sourceCheckpoint)}
           roots    == filterChildCheckpoints(cache)
           stats    == getDeduplicationStats(cache)
<1>1. getChildToParentMap(cache) = [k \in children |-> cache[k].sourceCheckpoint]
  BY DEF getChildToParentMap, isChildCheckpoint
<1>2. roots = DOMAIN cache \ children
  BY DEF filterChildCheckpoints, isChildCheckpoint
<1>3. \A k \in children : cache[k].sourceCheckpoint \in roots
  BY <1>2 DEF IsRooted
<1>4. children = UNION {getChildCheckpoints(cache, p) : p \in roots}
  <2>1. \A p \in roots : getChildCheckpoints(cache, p) \subseteq children
    BY <1>2 DEF getChildCheckpoints, IsRooted
  <2>2. \A k \in children : k \in getChildCheckpoints(cache, cache[k].sourceCheckpoint)
    BY DEF getChildCheckpoints
  <2> QED BY <1>3, <2>1, <2>2
<1>5. {k \in entries : isChildCheckpoint(cache, k)} = children
  BY DEF isChildCheckpoint, IsRooted
<1>6. children \subseteq entries /\ ofElections \subseteq children /\ entries \ children = roots \ {WatermarkKey}
  BY <1>2 DEF IsRooted
<1>7. IsFiniteSet(entries) /\ IsFiniteSet(children)
  BY FS_Subset DEF IsRooted
<1>8. stats = [totalCheckpoints |-> Cardinality(entries), childCheckpoints |-> Cardinality(children),
               rootCheckpoints |-> Cardinality(entries) - Cardinality(children),
               fromElections |-> Cardinality(ofElections), fromProposals |-> Cardinality(children \ ofElections)]
  BY <1>5 DEF getDeduplicationStats
<1>9. /\ Cardinality(children) + Cardinality(entries \ children) = Cardinality(entries)
      /\ Cardinality(children) \in Nat /\ Cardinality(entries \ children) \in Nat /\ Cardinality(entries) \in Nat
  BY <1>6, <1>7, PartOf
<1>10. Cardinality(ofElections) + Cardinality(children \ ofElections) = Cardinality(children)
  BY <1>6, <1>7, PartOf
<1>11. stats.rootCheckpoints = Cardinality(roots \ {WatermarkKey})
  <2>1. Cardinality(entries) - Cardinality(children) = Cardinality(entries \ children)
    BY <1>9
  <2>2. stats.rootCheckpoints = Cardinality(entries) - Cardinality(children)
    BY <1>8
  <2>3. entries \ children = roots \ {WatermarkKey}
    BY <1>6
  <2> HIDE DEF stats, entries, children, roots
  <2> QED BY <2>1, <2>2, <2>3
<1>12. stats.fromElections + stats.fromProposals = stats.childCheckpoints
  BY <1>8, <1>10
<1> HIDE DEF children, roots, stats
<1>13. DOMAIN getChildToParentMap(cache) = children /\ \A k \in children : getChildToParentMap(cache)[k] \in roots
  BY <1>1, <1>3
<1> QED BY <1>2, <1>4, <1>11, <1>12, <1>13 DEF roots, stats

\* Linking changes the source of orphaned operations only, and the roots and children
\* are then the whole cache, each once; for any cache, of any keys and elections.
THEOREM LinkingIsWhole ==
  ASSUME IsQuestion(question)
  PROVE  LinksAreWhole
<1> SUFFICES ASSUME question.about = "cache" PROVE LinksAreWhole
  BY DEF LinksAreWhole
<1> DEFINE cache  == question.cache
           linked == autoLinkOrphanedCheckpoints(cache)
<1>1. IsCache(cache)
  BY DEF IsQuestion
<1>2. \A k \in DOMAIN cache : IsLink(cache, linked, k)
  BY <1>1, LinkingIsSmall
<1>3. ASSUME NEW k \in DOMAIN cache, linked[k] # cache[k]
      PROVE  /\ cache[k].input = "timelock" /\ cache[k].sourceCheckpoint = NoKey
             /\ linked[k] = [cache[k] EXCEPT !.sourceCheckpoint = linked[k].sourceCheckpoint]
  <2>1. PICK p \in ElectionKeys \cap DOMAIN cache : linked[k] = [cache[k] EXCEPT !.sourceCheckpoint = p]
    BY <1>2, <1>3 DEF IsLink
  <2>2. cache[k] \in CacheEntry
    BY <1>1 DEF IsCache
  <2>3. linked[k].sourceCheckpoint = p
    BY <2>1, <2>2 DEF CacheEntry
  <2> QED BY <1>2, <1>3, <2>1, <2>3 DEF IsLink
<1>4. autoLinkOrphanedCheckpoints(linked) = linked
  BY <1>1, LinkedTwice
<1>5. IsRooted(linked)
  BY <1>1, LinkedIsRooted
<1> HIDE DEF linked
<1>6. LET children == DOMAIN getChildToParentMap(linked)
          stats    == getDeduplicationStats(linked)
      IN  /\ \A k \in children : getChildToParentMap(linked)[k] \in filterChildCheckpoints(linked)
          /\ children = UNION {getChildCheckpoints(linked, p) : p \in filterChildCheckpoints(linked)}
          /\ filterChildCheckpoints(linked) = DOMAIN linked \ children
          /\ stats.rootCheckpoints = Cardinality(filterChildCheckpoints(linked) \ {WatermarkKey})
          /\ stats.fromElections + stats.fromProposals = stats.childCheckpoints
  BY <1>5, RootsAndChildren
<1> QED BY <1>3, <1>4, <1>6 DEF LinksAreWhole, linked

-----------------------------------------------------------------------------
(* Counts                                                                  *)

\* What is counted of a cache, part by part.
Props(cache)  == {k \in DOMAIN cache : cache[k].input = "governor" /\ ~isElectionGovernor(cache[k].group)}
Locks(cache)  == {k \in DOMAIN cache : cache[k].input = "timelock"}
Elects(cache) == {k \in DOMAIN cache : cache[k].input = "election"}

Finished(cache, part)          == {k \in part : isEntryComplete(cache[k])}
Erred(cache, part, limit)  == {k \in part : ~isEntryComplete(cache[k]) /\ isCheckpointErrored(cache[k], limit)}
Open(cache, part, limit)   == {k \in part : ~isEntryComplete(cache[k]) /\ ~isCheckpointErrored(cache[k], limit)}

Counted(cache, part, limit) ==
  [total |-> Cardinality(part), complete |-> Cardinality(Finished(cache, part)),
   errored |-> Cardinality(Erred(cache, part, limit)), active |-> Cardinality(Open(cache, part, limit))]

\* Counting the entries of a part is counting its keys.
LEMMA CountsAre ==
  ASSUME NEW cache, NEW part, part \subseteq DOMAIN cache, NEW limit
  PROVE  Counts([k \in part |-> cache[k]], limit) = Counted(cache, part, limit)
<1> DEFINE entries == [k \in part |-> cache[k]]
<1>1. {k \in DOMAIN entries : isEntryComplete(entries[k])} = Finished(cache, part)
  BY DEF Finished
<1>2. {k \in DOMAIN entries : ~isEntryComplete(entries[k]) /\ isCheckpointErrored(entries[k], limit)}
        = Erred(cache, part, limit)
  BY DEF Erred
<1>3. {k \in DOMAIN entries : ~isEntryComplete(entries[k])
          /\ ~(~isEntryComplete(entries[k]) /\ isCheckpointErrored(entries[k], limit))}
        = Open(cache, part, limit)
  BY DEF Open
<1>4. DOMAIN entries = part
  OBVIOUS
<1> HIDE DEF entries
<1>5. Counts(entries, limit) = Counted(cache, part, limit)
  BY <1>1, <1>2, <1>3, <1>4, Zenon DEF Counts, Counted
<1> QED BY <1>5 DEF entries

\* The statistics of a cache, in these terms.
LEMMA StatsAre ==
  ASSUME NEW cache, NEW limit
  PROVE  computeCacheStats(cache, limit) =
           [total     |-> Cardinality(DOMAIN cache),
            proposals |-> Counted(cache, Props(cache), limit),
            timelocks |-> Counted(cache, Locks(cache), limit),
            elections |-> [total |-> Cardinality(Elects(cache)), complete |-> Cardinality(Finished(cache, Elects(cache)))]]
<1>1. /\ Props(cache) \subseteq DOMAIN cache /\ Locks(cache) \subseteq DOMAIN cache
      /\ Elects(cache) \subseteq DOMAIN cache
  BY DEF Props, Locks, Elects
<1>2. /\ Counts([k \in Props(cache) |-> cache[k]], limit) = Counted(cache, Props(cache), limit)
      /\ Counts([k \in Locks(cache) |-> cache[k]], limit) = Counted(cache, Locks(cache), limit)
      /\ Counts([k \in Elects(cache) |-> cache[k]], limit) = Counted(cache, Elects(cache), limit)
  BY <1>1, CountsAre
<1>3. computeCacheStats(cache, limit) =
        [total     |-> Cardinality(DOMAIN cache),
         proposals |-> Counts([k \in Props(cache) |-> cache[k]], limit),
         timelocks |-> Counts([k \in Locks(cache) |-> cache[k]], limit),
         elections |-> [total |-> Counts([k \in Elects(cache) |-> cache[k]], limit).total,
                        complete |-> Counts([k \in Elects(cache) |-> cache[k]], limit).complete]]
  BY Zenon DEF computeCacheStats, Among, Props, Locks, Elects
<1>4. /\ Counted(cache, Elects(cache), limit).total = Cardinality(Elects(cache))
      /\ Counted(cache, Elects(cache), limit).complete = Cardinality(Finished(cache, Elects(cache)))
  BY DEF Counted
<1> QED BY <1>2, <1>3, <1>4, Zenon

\* The keys that hold checkpoints, and those that the command line shows.
Listed(cache) == DOMAIN cache \ {WatermarkKey}
Shown(cache)  == Props(cache) \cup Locks(cache) \cup Elects(cache)
Hidden(cache) == {k \in DOMAIN cache : isElectionGovernor(cache[k].group)}

\* A part of a list is that part of the cache the list is taken from.
LEMMA PartsOfList ==
  ASSUME NEW cache, NEW S, S \subseteq DOMAIN cache, NEW list, list = [k \in S |-> cache[k]], NEW limit
  PROVE  /\ Props(list) = Props(cache) \cap S /\ Locks(list) = Locks(cache) \cap S
         /\ Elects(list) = Elects(cache) \cap S
         /\ \A part \in SUBSET S : Counted(list, part, limit) = Counted(cache, part, limit)
<1>1. \A k \in S : list[k] = cache[k]
  OBVIOUS
<1>2. DOMAIN list = S
  OBVIOUS
<1>3. /\ Props(list) = Props(cache) \cap S /\ Locks(list) = Locks(cache) \cap S
      /\ Elects(list) = Elects(cache) \cap S
  BY <1>1, <1>2 DEF Props, Locks, Elects
<1>4. ASSUME NEW part \in SUBSET S PROVE Counted(list, part, limit) = Counted(cache, part, limit)
  <2>1. /\ Finished(list, part) = Finished(cache, part) /\ Erred(list, part, limit) = Erred(cache, part, limit)
        /\ Open(list, part, limit) = Open(cache, part, limit)
    BY <1>1, Zenon DEF Finished, Erred, Open
  <2> QED BY <2>1, Zenon DEF Counted
<1> QED BY <1>3, <1>4

\* The keys tell the entries apart as their inputs do.
LEMMA KeysAndInputs ==
  ASSUME NEW cache, IsCache(cache)
  PROVE  /\ IsFiniteSet(DOMAIN cache)
         /\ {k \in DOMAIN cache : isTxKey(k)} = Listed(cache) \ Elects(cache)
         /\ {k \in DOMAIN cache : isElectionKey(k)} = Elects(cache)
         /\ listCheckpointKeys(cache) = Listed(cache)
         /\ Listed(cache) = Shown(cache) \cup Hidden(cache)
         /\ Shown(cache) \cap Hidden(cache) = {}
         /\ {k \in DOMAIN cache : cache[k].input = "governor"} = Props(cache) \cup Hidden(cache)
<1>1. IsFiniteSet(DOMAIN cache)
  BY DEF IsCache
<1>2. ASSUME NEW k \in DOMAIN cache
      PROVE  /\ k \in TxKeys \cup ElectionKeys \cup {WatermarkKey}
             /\ k \in TxKeys <=> cache[k].input \in {"governor", "timelock"}
             /\ k \in ElectionKeys <=> cache[k].input = "election"
             /\ isElectionGovernor(cache[k].group) => cache[k].input = "governor"
  BY DEF IsCache
<1>3. /\ {k \in DOMAIN cache : isTxKey(k)} = Listed(cache) \ Elects(cache)
      /\ {k \in DOMAIN cache : isElectionKey(k)} = Elects(cache)
      /\ listCheckpointKeys(cache) = Listed(cache)
  BY <1>2, NoKeyIsNoKey DEF isTxKey, isElectionKey, Listed, Elects, listCheckpointKeys
<1>4. Listed(cache) = Shown(cache) \cup Hidden(cache) /\ Shown(cache) \cap Hidden(cache) = {}
  BY <1>2, NoKeyIsNoKey DEF Listed, Shown, Hidden, Props, Locks, Elects
<1>5. {k \in DOMAIN cache : cache[k].input = "governor"} = Props(cache) \cup Hidden(cache)
  BY <1>2 DEF Hidden, Props
<1> QED BY <1>1, <1>3, <1>4, <1>5

\* What is shown under all targets: everything but the proposals of the election governors.
LEMMA ShownIs ==
  ASSUME NEW cache, IsCache(cache)
  PROVE  /\ getAllCheckpoints(cache) = [k \in Listed(cache) |-> cache[k]]
         /\ filterCheckpointsByTargets(getAllCheckpoints(cache), Targets) = [k \in Shown(cache) |-> cache[k]]
<1> DEFINE all == getAllCheckpoints(cache)
<1>1. all = [k \in Listed(cache) |-> cache[k]]
  BY KeysAndInputs DEF getAllCheckpoints
<1>2. ASSUME NEW k \in DOMAIN cache
      PROVE  /\ cache[k].input \in {"governor", "timelock", "election", "discovery"}
             /\ k = WatermarkKey <=> cache[k].input = "discovery"
             /\ isElectionGovernor(cache[k].group) => cache[k].input = "governor"
  <2>1. cache[k] \in CacheEntry
    BY DEF IsCache
  <2>2. cache[k].input \in {"governor", "timelock", "election", "discovery"}
    BY <2>1 DEF CacheEntry
  <2>3. k = WatermarkKey <=> cache[k].input = "discovery"
    BY <2>2, NoKeyIsNoKey DEF IsCache
  <2>4. isElectionGovernor(cache[k].group) => cache[k].input = "governor"
    BY DEF IsCache
  <2> QED BY <2>2, <2>3, <2>4
<1>3. \A k \in DOMAIN cache : checkpointMatchesTargets(cache[k], Targets) <=>
        \/ cache[k].input = "governor" /\ ~isElectionGovernor(cache[k].group)
        \/ cache[k].input \in {"timelock", "election"}
  BY <1>2 DEF checkpointMatchesTargets, Targets
<1>4. {k \in DOMAIN all : checkpointMatchesTargets(all[k], Targets)} = Shown(cache)
  BY <1>1, <1>2, <1>3 DEF Shown, Props, Locks, Elects, Listed
<1>5. \A k \in Shown(cache) : all[k] = cache[k]
  BY <1>1, KeysAndInputs
<1> HIDE DEF all
<1>6. filterCheckpointsByTargets(all, Targets) = [k \in Shown(cache) |-> all[k]]
  BY <1>4, Zenon DEF filterCheckpointsByTargets, Among
<1>7. filterCheckpointsByTargets(all, Targets) = [k \in Shown(cache) |-> cache[k]]
  BY <1>5, <1>6
<1> QED BY <1>1, <1>7 DEF all

\* How many entries of each part there are.
LEMMA PartsAdd ==
  ASSUME NEW cache, IsCache(cache)
  PROVE  /\ \A S \in {Props(cache), Locks(cache), Elects(cache), Hidden(cache), Shown(cache), Listed(cache)} :
              IsFiniteSet(S) /\ Cardinality(S) \in Nat
         /\ Cardinality(Shown(cache)) = Cardinality(Props(cache)) + Cardinality(Locks(cache)) + Cardinality(Elects(cache))
         /\ Cardinality(Listed(cache)) = Cardinality(Shown(cache)) + Cardinality(Hidden(cache))
         /\ Cardinality(Listed(cache) \ Elects(cache)) = Cardinality(Listed(cache)) - Cardinality(Elects(cache))
         /\ Cardinality(Props(cache) \cup Hidden(cache)) = Cardinality(Props(cache)) + Cardinality(Hidden(cache))
<1> DEFINE P == Props(cache)  L == Locks(cache)  E == Elects(cache)
           H == Hidden(cache) S == Shown(cache)  A == Listed(cache)
<1>1. /\ IsFiniteSet(DOMAIN cache) /\ A = S \cup H /\ S \cap H = {} /\ S = P \cup L \cup E
      /\ P \cap L = {} /\ P \cap E = {} /\ L \cap E = {} /\ A \subseteq DOMAIN cache
  BY KeysAndInputs DEF Shown, Props, Locks, Elects, Listed
<1> HIDE DEF P, L, E, H, S, A
<1>2. IsFiniteSet(A)
  BY <1>1, FS_Subset
<1>3. /\ Cardinality(S) + Cardinality(H) = Cardinality(A) /\ Cardinality(S) \in Nat /\ Cardinality(H) \in Nat
      /\ IsFiniteSet(S) /\ IsFiniteSet(H) /\ Cardinality(A) \in Nat
  <2>1. S \subseteq A /\ A \ S = H
    BY <1>1
  <2> QED BY <1>2, <2>1, PartOf
<1>4. /\ Cardinality(E) + Cardinality(P \cup L) = Cardinality(S) /\ IsFiniteSet(P \cup L) /\ IsFiniteSet(E)
      /\ Cardinality(E) \in Nat /\ Cardinality(P \cup L) \in Nat
  <2>1. E \subseteq S /\ S \ E = P \cup L
    BY <1>1
  <2> QED BY <1>3, <2>1, PartOf
<1>5. /\ Cardinality(P) + Cardinality(L) = Cardinality(P \cup L) /\ IsFiniteSet(P) /\ IsFiniteSet(L)
      /\ Cardinality(P) \in Nat /\ Cardinality(L) \in Nat
  <2>1. P \subseteq P \cup L /\ (P \cup L) \ P = L
    BY <1>1
  <2> QED BY <1>4, <2>1, PartOf
<1>6. Cardinality(E) + Cardinality(A \ E) = Cardinality(A) /\ Cardinality(A \ E) \in Nat
  <2>1. E \subseteq A
    BY <1>1
  <2> QED BY <1>2, <2>1, PartOf
<1>7. Cardinality(P) + Cardinality(H) = Cardinality(P \cup H)
  <2>1. P \cup H \subseteq A /\ P \subseteq P \cup H /\ (P \cup H) \ P = H
    BY <1>1
  <2>2. IsFiniteSet(P \cup H)
    BY <1>2, <2>1, FS_Subset
  <2> QED BY <2>1, <2>2, PartOf
<1>8. /\ Cardinality(S) = Cardinality(P) + Cardinality(L) + Cardinality(E)
      /\ Cardinality(A) = Cardinality(S) + Cardinality(H)
      /\ Cardinality(A \ E) = Cardinality(A) - Cardinality(E)
      /\ Cardinality(P \cup H) = Cardinality(P) + Cardinality(H)
  BY <1>3, <1>4, <1>5, <1>6, <1>7
<1>9. \A T \in {P, L, E, H, S, A} : IsFiniteSet(T) /\ Cardinality(T) \in Nat
  BY <1>2, <1>3, <1>4, <1>5
<1> QED BY <1>8, <1>9 DEF P, L, E, H, S, A

\* The statistics but for the total are those of the parts of the cache.
StatsWith(cache, total, limit) ==
  [total     |-> total,
   proposals |-> Counted(cache, Props(cache), limit),
   timelocks |-> Counted(cache, Locks(cache), limit),
   elections |-> [total |-> Cardinality(Elects(cache)), complete |-> Cardinality(Finished(cache, Elects(cache)))]]

\* Leaving out other entries than those of the parts changes the total only.
LEMMA StatsOfList ==
  ASSUME NEW cache, NEW S, S \subseteq DOMAIN cache, Shown(cache) \subseteq S, NEW limit
  PROVE  computeCacheStats([k \in S |-> cache[k]], limit) = StatsWith(cache, Cardinality(S), limit)
<1> DEFINE list == [k \in S |-> cache[k]]
<1>1. /\ Props(list) = Props(cache) /\ Locks(list) = Locks(cache) /\ Elects(list) = Elects(cache)
      /\ Props(cache) \in SUBSET S /\ Locks(cache) \in SUBSET S /\ Elects(cache) \in SUBSET S
  <2>0. list = [k \in S |-> cache[k]]
    OBVIOUS
  <2>2. Props(cache) \subseteq S /\ Locks(cache) \subseteq S /\ Elects(cache) \subseteq S
    BY DEF Shown
  <2> HIDE DEF list
  <2>1. /\ Props(list) = Props(cache) \cap S /\ Locks(list) = Locks(cache) \cap S
        /\ Elects(list) = Elects(cache) \cap S
    BY <2>0, PartsOfList
  <2>3. /\ Props(cache) \cap S = Props(cache) /\ Locks(cache) \cap S = Locks(cache)
        /\ Elects(cache) \cap S = Elects(cache)
    BY <2>2
  <2> QED BY <2>1, <2>2, <2>3, Zenon
<1>2. \A part \in SUBSET S : Counted(list, part, limit) = Counted(cache, part, limit)
  BY PartsOfList
<1>3. Finished(list, Elects(cache)) = Finished(cache, Elects(cache))
  <2>1. \A k \in Elects(cache) : list[k] = cache[k]
    BY <1>1
  <2> QED BY <2>1, Zenon DEF Finished
<1>4. DOMAIN list = S
  OBVIOUS
<1> HIDE DEF list
<1>5. computeCacheStats(list, limit) =
        [total     |-> Cardinality(DOMAIN list),
         proposals |-> Counted(list, Props(list), limit),
         timelocks |-> Counted(list, Locks(list), limit),
         elections |-> [total |-> Cardinality(Elects(list)), complete |-> Cardinality(Finished(list, Elects(list)))]]
  BY StatsAre, Zenon
<1>6. computeCacheStats(list, limit) = StatsWith(cache, Cardinality(S), limit)
  BY <1>1, <1>2, <1>3, <1>4, <1>5, Zenon DEF StatsWith
<1> QED BY <1>6 DEF list

\* What getStats and the summary of the monitor come to.
LEMMA StatsOfCache ==
  ASSUME NEW cache, IsCache(cache), NEW limit
  PROVE  /\ getStats(cache, limit) = StatsWith(cache, Cardinality(Listed(cache)), limit)
         /\ calculateFilteredStats(getAllCheckpoints(cache), Targets, limit)
              = StatsWith(cache, Cardinality(Shown(cache)), limit)
<1> DEFINE shown == StatsWith(cache, Cardinality(Shown(cache)), limit)
<1>1. Shown(cache) \subseteq DOMAIN cache /\ Shown(cache) \subseteq Listed(cache) /\ Listed(cache) \subseteq DOMAIN cache
  BY KeysAndInputs DEF Listed
<1>2. getStats(cache, limit) = StatsWith(cache, Cardinality(Listed(cache)), limit)
  BY <1>1, ShownIs, StatsOfList DEF getStats
<1>3. computeCacheStats(filterCheckpointsByTargets(getAllCheckpoints(cache), Targets), limit) = shown
  BY <1>1, ShownIs, StatsOfList
<1>4. shown.proposals.total + shown.timelocks.total + shown.elections.total = Cardinality(Shown(cache))
  <2>1. /\ shown.proposals.total = Cardinality(Props(cache)) /\ shown.timelocks.total = Cardinality(Locks(cache))
        /\ shown.elections.total = Cardinality(Elects(cache))
    BY DEF StatsWith, Counted
  <2> QED BY <2>1, PartsAdd
<1>5. [shown EXCEPT !.total = Cardinality(Shown(cache))] = shown
  BY DEF StatsWith
<1> HIDE DEF shown
<1>6. calculateFilteredStats(getAllCheckpoints(cache), Targets, limit) = shown
  BY <1>3, <1>4, <1>5, Zenon DEF calculateFilteredStats
<1> QED BY <1>2, <1>6 DEF shown

\* Fewer targets show fewer proposals.
LEMMA FewerTargets ==
  ASSUME NEW cache, IsCache(cache), NEW targets, NEW limit
  PROVE  /\ calculateFilteredStats(cache, targets, limit).proposals.total <= Cardinality(Props(cache))
         /\ calculateFilteredStats(cache, targets, limit).proposals.total \in Nat
<1> DEFINE list == filterCheckpointsByTargets(cache, targets)
           S    == {k \in DOMAIN cache : checkpointMatchesTargets(cache[k], targets)}
<1>1. list = [k \in S |-> cache[k]]
  BY Zenon DEF filterCheckpointsByTargets, Among
<1>2. Props(list) = Props(cache) \cap S
  BY <1>1, PartsOfList
<1> HIDE DEF list
<1>3. computeCacheStats(list, limit).proposals.total = Cardinality(Props(list))
  BY StatsAre DEF Counted
<1>4. calculateFilteredStats(cache, targets, limit).proposals = computeCacheStats(list, limit).proposals
  <2> DEFINE stats == computeCacheStats(list, limit)
  <2>1. stats = [total     |-> Cardinality(DOMAIN list),
                 proposals |-> Counted(list, Props(list), limit),
                 timelocks |-> Counted(list, Locks(list), limit),
                 elections |-> [total |-> Cardinality(Elects(list)), complete |-> Cardinality(Finished(list, Elects(list)))]]
    BY StatsAre
  <2>2. \A n : [stats EXCEPT !.total = n].proposals = stats.proposals
    BY <2>1
  <2> HIDE DEF stats
  <2> QED BY <2>2 DEF calculateFilteredStats, list, stats
<1>5. IsFiniteSet(Props(cache)) /\ Props(list) \subseteq Props(cache)
  BY <1>2, PartsAdd
<1>6. Cardinality(Props(list)) <= Cardinality(Props(cache)) /\ Cardinality(Props(list)) \in Nat
  BY <1>5, PartOf
<1> QED BY <1>3, <1>4, <1>6

-----------------------------------------------------------------------------
(* The dashboard                                                           *)

\* The dashboard finds an entry complete exactly when the statistics do.
LEMMA EntryIsComplete ==
  ASSUME NEW cp
  PROVE  JsonEntry(cp).isComplete = isEntryComplete(cp)
BY DEF JsonEntry

\* Two parts that have nothing in common.
LEMMA TwoParts ==
  ASSUME NEW A, NEW B, NEW C, IsFiniteSet(C), A \subseteq C, B \subseteq C, A \cap B = {}
  PROVE  /\ Cardinality(A) \in Nat /\ Cardinality(B) \in Nat /\ Cardinality(C) \in Nat
         /\ Cardinality(A) + Cardinality(B) <= Cardinality(C)
         /\ A \cup B = C => Cardinality(A) + Cardinality(B) = Cardinality(C)
<1>1. /\ Cardinality(A) \in Nat /\ Cardinality(C) \in Nat /\ IsFiniteSet(C \ A)
      /\ Cardinality(C \ A) \in Nat /\ Cardinality(A) + Cardinality(C \ A) = Cardinality(C)
  BY PartOf
<1>2. B \subseteq C \ A
  OBVIOUS
<1>3. Cardinality(B) <= Cardinality(C \ A) /\ Cardinality(B) \in Nat
  BY <1>1, <1>2, PartOf
<1>4. A \cup B = C => C \ A = B
  OBVIOUS
<1> QED BY <1>1, <1>3, <1>4

\* Three parts that have nothing in common.
LEMMA ThreeParts ==
  ASSUME NEW A, NEW B, NEW D, NEW C, IsFiniteSet(C), C = A \cup B \cup D, A \cap B = {}, A \cap D = {}, B \cap D = {}
  PROVE  /\ Cardinality(A) \in Nat /\ Cardinality(B) \in Nat /\ Cardinality(D) \in Nat /\ Cardinality(C) \in Nat
         /\ Cardinality(A) + Cardinality(B) + Cardinality(D) = Cardinality(C)
<1>1. /\ IsFiniteSet(A \cup B) /\ (A \cup B) \cap D = {} /\ (A \cup B) \cup D = C /\ A \cup B \subseteq C /\ D \subseteq C
  BY FS_Subset
<1>2. /\ Cardinality(A \cup B) + Cardinality(D) = Cardinality(C) /\ Cardinality(D) \in Nat
      /\ Cardinality(C) \in Nat /\ Cardinality(A \cup B) \in Nat
  BY <1>1, TwoParts
<1>3. Cardinality(A) + Cardinality(B) = Cardinality(A \cup B) /\ Cardinality(A) \in Nat /\ Cardinality(B) \in Nat
  BY <1>1, TwoParts
<1> QED BY <1>2, <1>3

\* What the dashboard comes to.
LEMMA BoardAgrees ==
  ASSUME NEW cache, IsCache(cache)
  PROVE  LET board == buildDashboardState(filterCheckpointsByTargets(getAllCheckpoints(cache), Targets))
         IN  /\ board.totalTracked = Cardinality(Shown(cache))
             /\ board.complete = Cardinality(Finished(cache, Props(cache))) + Cardinality(Finished(cache, Locks(cache)))
                                   + Cardinality(Finished(cache, Elects(cache)))
             /\ board.failed >= Cardinality(Erred(cache, Props(cache), 5)) + Cardinality(Erred(cache, Locks(cache), 5))
             /\ board.complete + board.failed + board.inProgress = board.totalTracked
<1> DEFINE list     == filterCheckpointsByTargets(getAllCheckpoints(cache), Targets)
           S        == Shown(cache)
           complete == Finished(cache, S)
           failed   == {k \in S \ complete : JsonEntry(cache[k]).failed > 0 \/ isCheckpointErrored(cache[k], 5)}
           open     == S \ (complete \cup failed)
           board    == buildDashboardState(list)
<1>1. list = [k \in S |-> cache[k]]
  BY ShownIs
<1>2. DOMAIN list = S /\ \A k \in S : list[k] = cache[k]
  BY <1>1
<1> HIDE DEF list
<1>3. {k \in DOMAIN list : list[k].input # "discovery"} = S
  BY <1>2 DEF Shown, Props, Locks, Elects
<1>4. {k \in S : JsonEntry(list[k]).isComplete} = complete
  BY <1>2, EntryIsComplete DEF Finished
<1>5. {k \in S \ complete : JsonEntry(list[k]).failed > 0 \/ isCheckpointErrored(list[k], 5)} = failed
  BY <1>2
<1> HIDE DEF S, complete, failed
<1>6. board = [totalTracked |-> Cardinality(S), complete |-> Cardinality(complete), failed |-> Cardinality(failed),
               inProgress |-> Cardinality(open)]
  BY <1>3, <1>4, <1>5, Zenon DEF buildDashboardState
<1> HIDE DEF board
<1>7. IsFiniteSet(S) /\ IsFiniteSet(complete) /\ IsFiniteSet(failed) /\ complete \subseteq S /\ failed \subseteq S \ complete
  <2>1. IsFiniteSet(S)
    BY PartsAdd DEF S
  <2>2. complete \subseteq S /\ failed \subseteq S \ complete
    BY DEF complete, failed, Finished
  <2> QED BY <2>1, <2>2, FS_Subset
<1>8. Cardinality(complete) = Cardinality(Finished(cache, Props(cache))) + Cardinality(Finished(cache, Locks(cache)))
                                + Cardinality(Finished(cache, Elects(cache)))
  <2>1. /\ complete = Finished(cache, Props(cache)) \cup Finished(cache, Locks(cache)) \cup Finished(cache, Elects(cache))
        /\ Finished(cache, Props(cache)) \cap Finished(cache, Locks(cache)) = {}
        /\ Finished(cache, Props(cache)) \cap Finished(cache, Elects(cache)) = {}
        /\ Finished(cache, Locks(cache)) \cap Finished(cache, Elects(cache)) = {}
    BY DEF complete, S, Shown, Finished, Props, Locks, Elects
  <2> HIDE DEF complete
  <2> QED BY <1>7, <2>1, ThreeParts
<1>9. Cardinality(failed) >= Cardinality(Erred(cache, Props(cache), 5)) + Cardinality(Erred(cache, Locks(cache), 5))
  <2>1. /\ Erred(cache, Props(cache), 5) \subseteq failed /\ Erred(cache, Locks(cache), 5) \subseteq failed
        /\ Erred(cache, Props(cache), 5) \cap Erred(cache, Locks(cache), 5) = {}
    BY DEF failed, complete, S, Shown, Finished, Erred, Props, Locks
  <2>2. /\ Cardinality(Erred(cache, Props(cache), 5)) \in Nat /\ Cardinality(Erred(cache, Locks(cache), 5)) \in Nat
        /\ Cardinality(failed) \in Nat
        /\ Cardinality(Erred(cache, Props(cache), 5)) + Cardinality(Erred(cache, Locks(cache), 5)) <= Cardinality(failed)
    BY <1>7, <2>1, TwoParts
  <2> QED BY <2>2
<1>10. Cardinality(complete) + Cardinality(failed) + Cardinality(open) = Cardinality(S)
  <2>1. /\ S = complete \cup failed \cup open /\ complete \cap failed = {}
        /\ complete \cap open = {} /\ failed \cap open = {}
    BY <1>7
  <2> HIDE DEF open
  <2> QED BY <1>7, <2>1, ThreeParts
<1>11. /\ board.totalTracked = Cardinality(S) /\ board.complete = Cardinality(complete)
       /\ board.failed = Cardinality(failed) /\ board.inProgress = Cardinality(open)
  BY <1>6
<1> QED BY <1>8, <1>9, <1>10, <1>11 DEF board, list, S

-----------------------------------------------------------------------------
(* What is queried, and the lists                                          *)

\* What is queried is open, and no operation that is queried has been replaced.
LEMMA QueriedIsOpen ==
  ASSUME NEW cache, IsCache(cache), NEW limit, NEW k \in Incomplete(cache, limit)
  PROVE  /\ k \in DOMAIN cache /\ ~JsonEntry(cache[k]).isComplete /\ ~isCheckpointErrored(cache[k], limit)
         /\ extractScNonce(cache[k]) # 0 => extractScNonce(cache[k]) >= getHighestScNonceFromCheckpoints(cache)
<1> DEFINE keys   == listCheckpointKeys(cache)
           open   == {l \in keys : ~isEntryComplete(cache[l])}
           nonces == {extractScNonce(cache[l]) : l \in keys} \ {0}
           opened == {extractScNonce(cache[l]) : l \in open} \ {0}
           nonce  == extractScNonce(cache[k])
<1>1. /\ k \in keys /\ ~isEntryComplete(cache[k]) /\ ~isCheckpointErrored(cache[k], limit)
      /\ ~(nonce # 0 /\ isScOperationSuperseded(nonce, getHighestScNonce(nonces)))
  BY Zenon DEF Incomplete
<1>2. k \in DOMAIN cache /\ keys \subseteq DOMAIN cache
  BY <1>1 DEF listCheckpointKeys
<1>3. ~JsonEntry(cache[k]).isComplete
  BY <1>1, EntryIsComplete
<1>4. \A l \in keys : extractScNonce(cache[l]) \in Nat
  <2>1. \A l \in DOMAIN cache : cache[l].nonce \in Nat
    BY DEF IsCache, CacheEntry
  <2> QED BY <1>2, <2>1 DEF extractScNonce
<1>5. IsFiniteSet(nonces) /\ IsFiniteSet(opened) /\ nonces \subseteq Nat /\ opened \subseteq nonces
  <2>1. IsFiniteSet(keys)
    BY <1>2, FS_Subset DEF IsCache
  <2>2. IsFiniteSet({extractScNonce(cache[l]) : l \in keys})
    <3> DEFINE T == {extractScNonce(cache[l]) : l \in keys}
               f == [l \in keys |-> extractScNonce(cache[l])]
    <3>1. f \in Surjection(keys, T)
      BY DEF Surjection
    <3> HIDE DEF T, f
    <3> QED BY <2>1, <3>1, FS_Surjection DEF T
  <2>3. opened \subseteq nonces /\ nonces \subseteq {extractScNonce(cache[l]) : l \in keys} /\ nonces \subseteq Nat
    BY <1>4
  <2> HIDE DEF nonces, opened
  <2> QED BY <2>2, <2>3, FS_Subset
<1>6. ASSUME nonce # 0 PROVE nonce >= getHighestScNonce(opened)
  <2>1. nonce \in nonces /\ nonce \in Nat
    BY <1>1, <1>4, <1>6
  <2> HIDE DEF nonces, opened
  <2>2. Max(nonces) \in nonces /\ \A n \in nonces : n <= Max(nonces)
    BY <1>5, <2>1, MaxIsGreatest
  <2>3. getHighestScNonce(nonces) = Max(nonces) /\ Max(nonces) # 0
    BY <2>1, <2>2 DEF getHighestScNonce, nonces
  <2>4. nonce >= Max(nonces) /\ Max(nonces) \in Nat
    <3>1. ~(nonce < Max(nonces))
      BY <1>1, <1>6, <2>3 DEF isScOperationSuperseded, nonces
    <3>2. Max(nonces) \in Nat
      BY <1>5, <2>2
    <3> HIDE DEF nonce
    <3> QED BY <2>1, <3>1, <3>2
  <2>5. opened # {} => Max(opened) \in opened
    BY <1>5, MaxIsGreatest
  <2>6. getHighestScNonce(opened) = IF opened = {} THEN 0 ELSE Max(opened)
    BY DEF getHighestScNonce
  <2>7. CASE opened = {}
    BY <2>1, <2>6, <2>7
  <2>8. CASE opened # {}
    <3>1. Max(opened) \in nonces
      BY <1>5, <2>5, <2>8
    <3>2. Max(opened) <= Max(nonces) /\ Max(opened) \in Nat
      BY <1>5, <2>2, <3>1
    <3>3. nonce >= Max(opened)
      <4> HIDE DEF nonce
      <4> QED BY <2>1, <2>4, <3>2
    <3> QED BY <2>6, <2>8, <3>3
  <2> QED BY <2>7, <2>8
<1>7. getHighestScNonceFromCheckpoints(cache) = getHighestScNonce(opened)
  BY DEF getHighestScNonceFromCheckpoints
<1> QED BY <1>1, <1>2, <1>3, <1>6, <1>7

\* The operations and the elections that are listed as complete are those counted so.
LEMMA ListedAsComplete ==
  ASSUME NEW cache, IsCache(cache)
  PROVE  /\ {k \in DOMAIN extractTimelockOps(cache) : extractTimelockOps(cache)[k].isComplete} = Finished(cache, Locks(cache))
         /\ {k \in DOMAIN extractElections(cache) : extractElections(cache)[k].isComplete} = Finished(cache, Elects(cache))
<1>1. ASSUME NEW k \in Locks(cache)
      PROVE  extractTimelockOps(cache)[k].isComplete <=> isEntryComplete(cache[k])
  <2> DEFINE stages == cache[k].stages  list == StoredList(stages)
  <2>1. extractTimelockOps(cache)[k].isComplete = (DOMAIN list # {} /\ Complete(list))
    BY DEF extractTimelockOps, Locks
  <2>2. DOMAIN list = Stored(stages) /\ \A s \in Stored(stages) : list[s] = stages[s]
    BY DEF StoredList
  <2>3. cache[k].input = "timelock"
    BY DEF Locks
  <2>4. isEntryComplete(cache[k]) <=> Stored(stages) # {} /\ areAllStagesComplete(stages)
    BY <2>3 DEF isEntryComplete, isCheckpointComplete, Exists, ContinuesInOperation, GovernorInputs
  <2> HIDE DEF list
  <2>5. Complete(list) <=> areAllStagesComplete(stages)
    BY <2>2 DEF Complete, areAllStagesComplete
  <2> QED BY <2>1, <2>2, <2>4, <2>5
<1>2. DOMAIN extractTimelockOps(cache) = Locks(cache)
  BY DEF extractTimelockOps, Locks
<1>3. DOMAIN extractElections(cache) = Elects(cache)
  BY DEF extractElections, Elects
<1>4. \A k \in Elects(cache) : extractElections(cache)[k].isComplete <=> isEntryComplete(cache[k])
  BY DEF extractElections, Elects, isEntryComplete
<1> QED BY <1>1, <1>2, <1>3, <1>4 DEF Finished

\* A proposal that is listed has the operation its own checkpoint has.
LEMMA ListedOperation ==
  ASSUME NEW cache, IsCache(cache)
  PROVE  /\ DOMAIN extractProposals(cache) = {k \in DOMAIN cache : cache[k].input = "governor"}
         /\ extractOperationIds(cache) = {k \in DOMAIN extractProposals(cache) : extractProposals(cache)[k].operationId}
<1> DEFINE governors == {k \in DOMAIN cache : cache[k].input = "governor"}
           Operation(k) == IF cache[k].timelockOpKey \in DOMAIN cache THEN cache[cache[k].timelockOpKey] ELSE [stages |-> NoStages]
           Own(k)       == [stages |-> cache[k].stages, opKey |-> cache[k].timelockOpKey # NoKey]
<1>1. \A k \in governors : k \in TxKeys /\ k \notin OperationKeys
  BY DEF IsCache
<1>2. \A k \in governors : ~(isElectionKey(k) \/ isTimelockOpKey(k) \/ isDiscoveryKey(k))
  <2>1. TxKeys \cap ElectionKeys = {}
    BY KeysAssumption DEF KeysAssumption
  <2> QED BY <1>1, <2>1, NoKeyIsNoKey DEF isElectionKey, isTimelockOpKey, isDiscoveryKey
<1>3. extractProposals(cache) = [k \in governors |-> ExtractedProposal(Own(k), Operation(k))]
  BY <1>2, Zenon DEF extractProposals
<1>4. ASSUME NEW k \in governors
      PROVE  ExtractedProposal(Own(k), Operation(k)).operationId <=> cache[k].stages["PROPOSAL_QUEUED"].link
  <2> DEFINE own    == StoredList(cache[k].stages)
             linked == StoredList(Operation(k).stages)
             list   == IF Own(k).opKey /\ DOMAIN linked # {} THEN mergeStages(own, linked) ELSE own
  <2>1. cache[k] \in CacheEntry
    BY DEF IsCache
  <2>2. "PROPOSAL_QUEUED" \notin DOMAIN linked
    <3>1. DOMAIN linked = Stored(Operation(k).stages)
      BY DEF StoredList
    <3>2. CASE cache[k].timelockOpKey \notin DOMAIN cache
      BY <3>1, <3>2 DEF Stored, NoStages, NotStarted, Stage, StageType, ParentStages
    <3>3. CASE cache[k].timelockOpKey \in DOMAIN cache
      <4>1. cache[k].timelockOpKey \in OperationKeys
        BY <2>1, <3>3, NoKeyIsNoKey DEF CacheEntry, IsCache
      <4>2. cache[cache[k].timelockOpKey].input = "timelock"
        BY <3>3, <4>1 DEF IsCache
      <4>3. Stored(Operation(k).stages) \subseteq TimelockStages
        BY <3>3, <4>2 DEF IsCache
      <4> QED BY <3>1, <4>3 DEF TimelockStages
    <3> QED BY <3>2, <3>3
  <2>3. "PROPOSAL_QUEUED" \in DOMAIN list <=> "PROPOSAL_QUEUED" \in DOMAIN own
    BY <2>2 DEF mergeStages
  <2>4. "PROPOSAL_QUEUED" \in DOMAIN own => list["PROPOSAL_QUEUED"] = own["PROPOSAL_QUEUED"]
    BY <2>2 DEF mergeStages
  <2>5. /\ "PROPOSAL_QUEUED" \in DOMAIN own <=> cache[k].stages["PROPOSAL_QUEUED"].status # "NOT_STARTED"
        /\ "PROPOSAL_QUEUED" \in DOMAIN own => own["PROPOSAL_QUEUED"] = cache[k].stages["PROPOSAL_QUEUED"]
    BY DEF StoredList, Stored, StageType, ParentStages
  <2>6. cache[k].stages["PROPOSAL_QUEUED"].link => cache[k].stages["PROPOSAL_QUEUED"].status # "NOT_STARTED"
    BY DEF IsCache, StageType, ParentStages
  <2>7. ExtractedProposal(Own(k), Operation(k)).operationId
          = ("PROPOSAL_QUEUED" \in DOMAIN list /\ list["PROPOSAL_QUEUED"].link)
    BY DEF ExtractedProposal
  <2> HIDE DEF list, own
  <2> QED BY <2>3, <2>4, <2>5, <2>6, <2>7, Zenon
<1> HIDE DEF Own, Operation
<1>5. DOMAIN extractProposals(cache) = governors
  BY <1>3
<1>6. \A k \in governors : extractProposals(cache)[k].operationId <=> cache[k].stages["PROPOSAL_QUEUED"].link
  BY <1>3, <1>4
<1>7. extractOperationIds(cache) = {k \in governors : cache[k].stages["PROPOSAL_QUEUED"].link}
  BY DEF extractOperationIds
<1> HIDE DEF governors
<1>8. {k \in governors : cache[k].stages["PROPOSAL_QUEUED"].link} = {k \in governors : extractProposals(cache)[k].operationId}
  BY <1>6, Zenon
<1> QED BY <1>5, <1>7, <1>8 DEF governors

\* The programs that count a cache agree on every part of it, whatever is in it.
THEOREM CountingAgrees ==
  ASSUME IsQuestion(question)
  PROVE  CountsAgree
<1> SUFFICES ASSUME question.about = "cache" PROVE CountsAgree
  BY DEF CountsAgree
<1> DEFINE cache   == question.cache
           stats   == getStats(cache, 5)
           shown   == filterCheckpointsByTargets(getAllCheckpoints(cache), Targets)
           summary == calculateFilteredStats(getAllCheckpoints(cache), Targets, 5)
           board   == buildDashboardState(shown)
           read    == readCacheStatus(cache)
<1>1. IsCache(cache)
  BY DEF IsQuestion
<1> HIDE DEF cache
<1>2. /\ stats.total = Cardinality(Listed(cache)) /\ summary.total = Cardinality(Shown(cache))
      /\ stats.proposals = summary.proposals /\ stats.timelocks = summary.timelocks /\ stats.elections = summary.elections
      /\ summary.proposals = Counted(cache, Props(cache), 5) /\ summary.timelocks = Counted(cache, Locks(cache), 5)
      /\ summary.elections = [total |-> Cardinality(Elects(cache)), complete |-> Cardinality(Finished(cache, Elects(cache)))]
  BY <1>1, StatsOfCache DEF StatsWith
<1>3. /\ summary.proposals.total = Cardinality(Props(cache)) /\ summary.proposals.complete = Cardinality(Finished(cache, Props(cache)))
      /\ summary.proposals.errored = Cardinality(Erred(cache, Props(cache), 5))
      /\ summary.timelocks.complete = Cardinality(Finished(cache, Locks(cache)))
      /\ summary.timelocks.errored = Cardinality(Erred(cache, Locks(cache), 5))
      /\ summary.elections.total = Cardinality(Elects(cache)) /\ summary.elections.complete = Cardinality(Finished(cache, Elects(cache)))
  <2> HIDE DEF summary
  <2> QED BY <1>2 DEF Counted
<1>4. /\ board.totalTracked = Cardinality(Shown(cache))
      /\ board.complete = Cardinality(Finished(cache, Props(cache))) + Cardinality(Finished(cache, Locks(cache)))
                            + Cardinality(Finished(cache, Elects(cache)))
      /\ board.failed >= Cardinality(Erred(cache, Props(cache), 5)) + Cardinality(Erred(cache, Locks(cache), 5))
      /\ board.complete + board.failed + board.inProgress = board.totalTracked
  BY <1>1, BoardAgrees
<1>5. /\ DOMAIN read.elections = Elects(cache) /\ DOMAIN read.checkpoints = Listed(cache) \ Elects(cache)
      /\ read.watermarks = getWatermarksFromCache(cache)
  BY <1>1, KeysAndInputs DEF readCacheStatus
<1>6. WatermarkKey \notin DOMAIN shown
  BY <1>1, ShownIs, KeysAndInputs DEF Listed
<1>7. stats.total - summary.total = Cardinality({k \in DOMAIN cache : isElectionGovernor(cache[k].group)})
  <2>1. /\ Cardinality(Listed(cache)) = Cardinality(Shown(cache)) + Cardinality(Hidden(cache))
        /\ Cardinality(Shown(cache)) \in Nat /\ Cardinality(Hidden(cache)) \in Nat
    BY <1>1, PartsAdd
  <2>2. Cardinality(Listed(cache)) - Cardinality(Shown(cache)) = Cardinality(Hidden(cache))
    BY <2>1
  <2> HIDE DEF stats, summary
  <2> QED BY <1>2, <2>2 DEF Hidden
<1>8. Cardinality(DOMAIN extractProposals(cache)) = stats.proposals.total
        + Cardinality({k \in DOMAIN cache : cache[k].input = "governor" /\ isElectionGovernor(cache[k].group)})
  <2>1. {k \in DOMAIN cache : cache[k].input = "governor" /\ isElectionGovernor(cache[k].group)} = Hidden(cache)
    BY <1>1 DEF Hidden, IsCache
  <2>2. DOMAIN extractProposals(cache) = Props(cache) \cup Hidden(cache)
    BY <1>1, ListedOperation, KeysAndInputs
  <2>3. stats.proposals.total = Cardinality(Props(cache))
    BY <1>2, <1>3
  <2> HIDE DEF stats
  <2> QED BY <1>1, <2>1, <2>2, <2>3, PartsAdd
<1>9. \A t \in SUBSET {"constitutionalGovernor", "nonConstitutionalGovernor"} :
        calculateFilteredStats(cache, t, 5).proposals.total <= summary.proposals.total
  <2> HIDE DEF summary
  <2> QED BY <1>1, <1>3, FewerTargets
<1>10. \A k \in Incomplete(cache, 5) :
         /\ ~JsonEntry(cache[k]).isComplete /\ ~isCheckpointErrored(cache[k], 5)
         /\ extractScNonce(cache[k]) # 0 => extractScNonce(cache[k]) >= getHighestScNonceFromCheckpoints(cache)
  BY <1>1, QueriedIsOpen
<1>11. /\ Cardinality({k \in DOMAIN extractTimelockOps(cache) : extractTimelockOps(cache)[k].isComplete}) = stats.timelocks.complete
       /\ Cardinality({k \in DOMAIN extractElections(cache) : extractElections(cache)[k].isComplete}) = stats.elections.complete
  <2> HIDE DEF stats, summary
  <2> QED BY <1>1, <1>2, <1>3, ListedAsComplete
<1>12. extractOperationIds(cache) = {k \in DOMAIN extractProposals(cache) : extractProposals(cache)[k].operationId}
  BY <1>1, ListedOperation
<1>13. /\ Cardinality(DOMAIN read.elections) = stats.elections.total
       /\ Cardinality(DOMAIN read.checkpoints) = stats.total - stats.elections.total
  <2>1. Cardinality(Listed(cache) \ Elects(cache)) = Cardinality(Listed(cache)) - Cardinality(Elects(cache))
    BY <1>1, PartsAdd
  <2> HIDE DEF stats, summary, read
  <2> QED BY <1>2, <1>3, <1>5, <2>1
<1>14. <<stats.proposals, stats.timelocks, stats.elections>> = <<summary.proposals, summary.timelocks, summary.elections>>
  <2> HIDE DEF stats, summary
  <2> QED BY <1>2
<1>15. /\ board.totalTracked = summary.total
       /\ board.complete = summary.proposals.complete + summary.timelocks.complete + summary.elections.complete
       /\ board.failed >= summary.proposals.errored + summary.timelocks.errored
  <2> HIDE DEF board, summary
  <2> QED BY <1>2, <1>3, <1>4
<1>16. board.complete + board.failed + board.inProgress = board.totalTracked
  BY <1>4
<1> QED
  BY <1>5, <1>6, <1>7, <1>8, <1>9, <1>10, <1>11, <1>12, <1>13, <1>14, <1>15, <1>16, Zenon DEF CountsAgree, cache

-----------------------------------------------------------------------------
(* Chunks                                                                  *)

\* Order and multiplication by a size.
LEMMA TimesKeepsOrder ==
  ASSUME NEW a \in Int, NEW b \in Int, NEW s \in Nat, a <= b
  PROVE  a * s <= b * s
<1>1. PICK d \in Nat : b = a + d
  <2>1. b - a \in Nat /\ b = a + (b - a)
    OBVIOUS
  <2> QED BY <2>1
<1>2. (a + d) * s = a * s + d * s /\ d * s \in Nat /\ a * s \in Int
  OBVIOUS
<1> QED BY <1>1, <1>2

\* And the other way round.
LEMMA TimesTellsOrder ==
  ASSUME NEW a \in Int, NEW b \in Int, NEW s \in Nat, a * s < b * s
  PROVE  a < b
<1>1. SUFFICES ASSUME b <= a PROVE FALSE
  OBVIOUS
<1>2. b * s <= a * s /\ a * s \in Int /\ b * s \in Int
  BY <1>1, TimesKeepsOrder
<1> QED BY <1>2

\* What \div is.
LEMMA DivisionIs ==
  ASSUME NEW a \in Nat, NEW b \in Nat \ {0}
  PROVE  a \div b \in Nat /\ (a \div b) * b <= a /\ a < (a \div b) * b + b
OBVIOUS

\* The number of chunks is just large enough.
LEMMA CeilingIs ==
  ASSUME NEW a \in Nat, NEW b \in Nat \ {0}
  PROVE  /\ Ceiling(a, b) \in Nat /\ a <= Ceiling(a, b) * b
         /\ Ceiling(a, b) * b < a + b
<1> DEFINE q == (a + b - 1) \div b
<1>1. a + b - 1 \in Nat
  OBVIOUS
<1>2. q \in Nat /\ q * b <= a + b - 1 /\ a + b - 1 < q * b + b
  BY <1>1, DivisionIs
<1>3. q * b \in Int
  BY <1>2
<1>4. a <= q * b /\ q * b < a + b
  <2> DEFINE p == q * b
  <2>1. p \in Int /\ p <= a + b - 1 /\ a + b - 1 < p + b
    BY <1>2, <1>3
  <2> HIDE DEF p
  <2>2. a <= p /\ p < a + b
    BY <2>1
  <2> QED BY <2>2 DEF p
<1> QED BY <1>2, <1>4 DEF Ceiling

\* How many blocks there are, and how far a block is from where the search begins.
Span(from, to)            == Larger(to - from + 1, 0)
Way(from, to, reverse, b) == IF reverse THEN to - b ELSE b - from

\* A chunk has the blocks at a certain distance from where the search begins.
Number(from, to, size)    == Ceiling(Span(from, to), size)

\* The chunks cover the blocks and do not reach a whole chunk beyond them.
LEMMA NumberIs ==
  ASSUME NEW from \in Nat, NEW to \in Nat, NEW size \in Nat \ {0}
  PROVE  /\ Span(from, to) \in Nat /\ Span(from, to) >= to - from + 1
         /\ Span(from, to) = to - from + 1 \/ Span(from, to) = 0
         /\ Number(from, to, size) \in Nat
         /\ Span(from, to) <= Number(from, to, size) * size
         /\ Number(from, to, size) * size < Span(from, to) + size
<1>1. /\ Span(from, to) \in Nat /\ Span(from, to) >= to - from + 1
      /\ Span(from, to) = to - from + 1 \/ Span(from, to) = 0
  BY DEF Span, Larger
<1> QED BY <1>1, CeilingIs DEF Number

\* There are that many chunks.
LEMMA ChunkCount ==
  ASSUME NEW from \in Nat, NEW to \in Nat, NEW size \in Nat \ {0}, NEW reverse
  PROVE  /\ DOMAIN Chunks(from, to, size, reverse) = 1 .. Number(from, to, size)
         /\ Len(Chunks(from, to, size, reverse)) = Number(from, to, size)
BY NumberIs DEF Chunks, Span, Number

\* Where a chunk ends, seen from where the search begins.
Until(from, to, size, i) ==
  IF (i - 1) * size + size < Span(from, to) THEN (i - 1) * size + size ELSE Span(from, to)

\* The blocks of the chunk at some place.
IsChunk(from, to, size, reverse, i, chunk) ==
  /\ chunk.start \in Int /\ chunk.end \in Int /\ (i - 1) * size \in Nat
  /\ chunk.end - chunk.start + 1 = Until(from, to, size, i) - (i - 1) * size
  /\ \A b \in Int :
       b \in chunk.start .. chunk.end <=>
         /\ b \in from .. to
         /\ (i - 1) * size <= Way(from, to, reverse, b) /\ Way(from, to, reverse, b) < (i - 1) * size + size

\* In either direction a chunk has the blocks at its distance, and no others.
LEMMA ChunkIs ==
  ASSUME NEW from \in Nat, NEW to \in Nat, NEW size \in Nat \ {0}, NEW reverse \in BOOLEAN,
         NEW i \in 1 .. Number(from, to, size)
  PROVE  IsChunk(from, to, size, reverse, i, Chunks(from, to, size, reverse)[i])
<1> DEFINE chunk  == Chunks(from, to, size, reverse)[i]
           span   == Span(from, to)
           n      == Number(from, to, size)
           d      == (i - 1) * size
<1>1. span \in Nat /\ span >= to - from + 1 /\ (span = to - from + 1 \/ span = 0)
  BY NumberIs
<1>2. n \in Nat /\ span <= n * size /\ n * size < span + size
  BY NumberIs
<1>3. i - 1 \in Nat /\ d \in Nat
  BY <1>2
<1>4. d < span
  <2>1. d <= (n - 1) * size
    BY <1>2, <1>3, TimesKeepsOrder
  <2>2. (n - 1) * size = n * size - size /\ n * size \in Nat
    BY <1>2
  <2> DEFINE p == n * size  r == (n - 1) * size
  <2>3. p \in Nat /\ r = p - size /\ p < span + size /\ d <= r
    BY <1>2, <2>1, <2>2
  <2> HIDE DEF p, r, d, span, n
  <2> QED BY <1>1, <1>3, <2>3
<1>5. span = to - from + 1
  BY <1>1, <1>3, <1>4
<1>6. chunk = IF reverse THEN [start |-> Larger(to - d - size + 1, from), end |-> to - d]
              ELSE [start |-> from + d, end |-> Smaller(from + d + size - 1, to)]
  BY DEF Chunks, Number, Span
<1>7. Until(from, to, size, i) = IF d + size < span THEN d + size ELSE span
  BY DEF Until
<1> SUFFICES IsChunk(from, to, size, reverse, i, chunk)
  OBVIOUS
<1> HIDE DEF d, span, n, chunk
<1>8. CASE reverse
  <2>1. chunk.start = Larger(to - d - size + 1, from) /\ chunk.end = to - d
    BY <1>6, <1>8
  <2>2. chunk.start \in Int /\ chunk.end \in Int
    BY <1>3, <2>1 DEF Larger
  <2>3. chunk.end - chunk.start + 1 = (IF d + size < span THEN d + size ELSE span) - d
    BY <1>3, <1>4, <1>5, <2>1 DEF Larger
  <2>4. ASSUME NEW b \in Int
        PROVE  b \in chunk.start .. chunk.end <=> b \in from .. to /\ d <= to - b /\ to - b < d + size
    BY <1>3, <1>4, <1>5, <2>1 DEF Larger
  <2> QED BY <1>3, <1>7, <1>8, <2>2, <2>3, <2>4 DEF Way, IsChunk, d
<1>9. CASE ~reverse
  <2>1. chunk.start = from + d /\ chunk.end = Smaller(from + d + size - 1, to)
    BY <1>6, <1>9
  <2>2. chunk.start \in Int /\ chunk.end \in Int
    BY <1>3, <2>1 DEF Smaller
  <2>3. chunk.end - chunk.start + 1 = (IF d + size < span THEN d + size ELSE span) - d
    BY <1>3, <1>4, <1>5, <2>1 DEF Smaller
  <2>4. ASSUME NEW b \in Int
        PROVE  b \in chunk.start .. chunk.end <=> b \in from .. to /\ d <= b - from /\ b - from < d + size
    BY <1>3, <1>4, <1>5, <2>1 DEF Smaller
  <2> QED BY <1>3, <1>7, <1>9, <2>2, <2>3, <2>4 DEF Way, IsChunk, d
<1> QED BY <1>8, <1>9

\* Every block is in a chunk.
LEMMA ChunksCover ==
  ASSUME NEW from \in Nat, NEW to \in Nat, NEW size \in Nat \ {0}, NEW reverse \in BOOLEAN, NEW b \in from .. to
  PROVE  \E i \in 1 .. Number(from, to, size) :
           b \in Chunks(from, to, size, reverse)[i].start .. Chunks(from, to, size, reverse)[i].end
<1> DEFINE n == Number(from, to, size)
           d == Way(from, to, reverse, b)
           j == d \div size
           i == j + 1
<1>1. d \in Nat /\ d < Span(from, to) /\ Span(from, to) \in Nat
  BY DEF Way, Span, Larger
<1>2. n \in Nat /\ Span(from, to) <= n * size
  BY NumberIs
<1>3. j \in Nat /\ j * size <= d /\ d < j * size + size
  BY <1>1, DivisionIs
<1> HIDE DEF n, d, j
<1>4. j < n
  <2> DEFINE p == j * size  r == n * size
  <2>1. p \in Int /\ r \in Int /\ p <= d /\ Span(from, to) <= r
    BY <1>2, <1>3
  <2>2. p < r
    <3> HIDE DEF p, r
    <3> QED BY <1>1, <2>1
  <2> QED BY <1>2, <1>3, <2>2, TimesTellsOrder
<1>5. i \in 1 .. n /\ (i - 1) * size = j * size
  BY <1>2, <1>3, <1>4
<1>6. (i - 1) * size <= d /\ d < (i - 1) * size + size
  BY <1>3, <1>5
<1> HIDE DEF i
<1> DEFINE chunk == Chunks(from, to, size, reverse)[i]
<1>7. b \in chunk.start .. chunk.end
  <2>1. b \in chunk.start .. chunk.end <=> b \in from .. to /\ (i - 1) * size <= d /\ d < (i - 1) * size + size
    <3>1. IsChunk(from, to, size, reverse, i, chunk)
      BY <1>5, ChunkIs DEF n
    <3> HIDE DEF chunk
    <3> QED BY <3>1 DEF IsChunk, d
  <2> QED BY <1>6, <2>1
<1> QED BY <1>5, <1>7 DEF n

-----------------------------------------------------------------------------
(* A search                                                                *)

\* What a search is given.
IsRange(range) == range \in [from : Nat, to : Nat, reverse : BOOLEAN]

\* The chunks that have a log, the chunk a search ends with, and what it answers.
Matching(from, to, reverse, logs, size) ==
  {i \in 1 .. Number(from, to, size) : LogsIn(logs, Chunks(from, to, size, reverse)[i]) # {}}

Last(from, to, reverse, logs, size) ==
  LET matching == Matching(from, to, reverse, logs, size)
  IN  IF matching = {} THEN Number(from, to, size) ELSE Min(matching)

Broken(last, failing) == failing.chunk <= last /\ queryWithRetry(failing.replies) = "throws"

\* A search that ends with the first match, in these terms.
LEMMA FirstInIs ==
  ASSUME NEW from \in Nat, NEW to \in Nat, NEW reverse, NEW logs, NEW size \in Nat \ {0}, NEW failing
  PROVE  FirstIn([from |-> from, to |-> to, reverse |-> reverse], logs, size, failing) =
           IF Broken(Last(from, to, reverse, logs, size), failing) THEN Throws
           ELSE IF Matching(from, to, reverse, logs, size) = {} THEN Undefined
           ELSE Min(LogsIn(logs, Chunks(from, to, size, reverse)[Last(from, to, reverse, logs, size)]))
<1> DEFINE chunks   == Chunks(from, to, size, reverse)
           n        == Number(from, to, size)
           matching == Matching(from, to, reverse, logs, size)
           last     == Last(from, to, reverse, logs, size)
           broken   == Broken(last, failing)
           options  == [chunkSize |-> size, reverse |-> reverse, maxChunks |-> Undefined, earlyExit |-> TRUE]
           filter   == [from |-> from, to |-> to]
<1>2. Len(chunks) = n
  BY ChunkCount
<1>3. [options EXCEPT !.earlyExit = TRUE] = options
  <2>1. ASSUME NEW a, NEW b, NEW c, NEW d
        PROVE  [[chunkSize |-> a, reverse |-> b, maxChunks |-> c, earlyExit |-> d] EXCEPT !.earlyExit = d]
                 = [chunkSize |-> a, reverse |-> b, maxChunks |-> c, earlyExit |-> d]
    OBVIOUS
  <2> QED BY <2>1, Zenon
<1>4. Chunks(filter.from, filter.to, options.chunkSize, options.reverse) = chunks
  OBVIOUS
<1>5. options.maxChunks = Undefined /\ options.earlyExit
  OBVIOUS
<1> HIDE DEF options, filter
<1>0. last = IF matching = {} THEN n ELSE Min(matching)
  BY DEF Last
<1> DEFINE result == searchLogsInChunks(logs, filter, options, failing)
<1>6. {i \in 1 .. n : options.earlyExit /\ LogsIn(logs, chunks[i]) # {}} = matching
  BY <1>5 DEF Matching
<1> HIDE DEF chunks, n, matching, last
<1>7. /\ broken => result.throws
      /\ ~broken => ~result.throws /\ result.matchedLog = (IF matching = {} THEN Undefined ELSE Min(LogsIn(logs, chunks[last])))
  BY <1>0, <1>2, <1>4, <1>5, <1>6 DEF searchLogsInChunks, Broken
<1>8. FirstIn([from |-> from, to |-> to, reverse |-> reverse], logs, size, failing) = findLog(logs, filter, options, failing)
  BY DEF FirstIn, filter, options
<1>9. findLog(logs, filter, options, failing) = IF result.throws THEN Throws ELSE result.matchedLog
  BY <1>3 DEF findLog
<1> HIDE DEF result
<1>10. FirstIn([from |-> from, to |-> to, reverse |-> reverse], logs, size, failing) =
         IF broken THEN Throws ELSE IF matching = {} THEN Undefined ELSE Min(LogsIn(logs, chunks[last]))
  BY <1>7, <1>8, <1>9
<1> QED BY <1>10 DEF chunks, matching, last

\* The logs of one chunk.
HasLogs(from, to, reverse, logs, size, i, here) ==
  /\ here \subseteq logs \cap (from .. to)
  /\ (i - 1) * size \in Nat
  /\ \A b \in here : /\ (i - 1) * size <= Way(from, to, reverse, b)
                     /\ Way(from, to, reverse, b) < (i - 1) * size + size

\* The logs of a chunk are logs of the range, at the distance of the chunk.
LEMMA LogsOfChunk ==
  ASSUME NEW from \in Nat, NEW to \in Nat, NEW reverse \in BOOLEAN,
         NEW logs, logs \subseteq Nat, NEW size \in Nat \ {0}, NEW i \in 1 .. Number(from, to, size)
  PROVE  HasLogs(from, to, reverse, logs, size, i, LogsIn(logs, Chunks(from, to, size, reverse)[i]))
<1> DEFINE chunk == Chunks(from, to, size, reverse)[i]
<1>1. IsChunk(from, to, size, reverse, i, chunk)
  BY ChunkIs
<1> HIDE DEF chunk
<1>2. \A b \in LogsIn(logs, chunk) : b \in logs /\ b \in Int /\ b \in chunk.start .. chunk.end
  BY DEF LogsIn
<1>3. HasLogs(from, to, reverse, logs, size, i, LogsIn(logs, chunk))
  BY <1>1, <1>2 DEF HasLogs, IsChunk
<1> QED BY <1>3 DEF chunk

\* What a search finds: nothing only if there is nothing; the first log, or one of the
\* last chunk that has any.
IsAnswer(found, wanted, reverse, size, failing) ==
  /\ found \in {Throws, Undefined} \cup wanted
  /\ found = Throws => queryWithRetry(failing.replies) = "throws"
  /\ found = Undefined => wanted = {}
  /\ found \in wanted => IF reverse THEN Max(wanted) - found < size ELSE found = Min(wanted)

\* A search that ends with the first match finds the right one.
LEMMA SearchFinds ==
  ASSUME NEW from \in Nat, NEW to \in Nat, NEW reverse \in BOOLEAN,
         NEW logs, logs \subseteq Nat \ {0}, NEW size \in Nat \ {0},
         NEW failing, failing.chunk \in Nat \ {0}
  PROVE  IsAnswer(FirstIn([from |-> from, to |-> to, reverse |-> reverse], logs, size, failing),
                  logs \cap (from .. to), reverse, size, failing)
<1> DEFINE wanted   == logs \cap (from .. to)
           found    == FirstIn([from |-> from, to |-> to, reverse |-> reverse], logs, size, failing)
           chunks   == Chunks(from, to, size, reverse)
           n        == Number(from, to, size)
           matching == Matching(from, to, reverse, logs, size)
           last     == Last(from, to, reverse, logs, size)
           broken   == Broken(last, failing)
           way(b)   == Way(from, to, reverse, b)
<1>1. /\ chunks = Chunks(from, to, size, reverse) /\ n = Number(from, to, size)
      /\ matching = {i \in 1 .. n : LogsIn(logs, chunks[i]) # {}}
      /\ last = IF matching = {} THEN n ELSE Min(matching)
  BY DEF Matching, Last
<1>2. found = IF broken THEN Throws ELSE IF matching = {} THEN Undefined ELSE Min(LogsIn(logs, chunks[last]))
  BY FirstInIs
<1>3. ASSUME NEW b \in wanted PROVE \E i \in matching : b \in LogsIn(logs, chunks[i])
  <2>1. b \in logs /\ b \in from .. to
    OBVIOUS
  <2>2. PICK i \in 1 .. n : b \in chunks[i].start .. chunks[i].end
    BY <2>1, ChunksCover
  <2>3. b \in LogsIn(logs, chunks[i])
    BY <2>1, <2>2 DEF LogsIn
  <2> QED BY <1>1, <2>2, <2>3
<1>4. ASSUME NEW i \in 1 .. n
      PROVE  /\ LogsIn(logs, chunks[i]) \subseteq wanted /\ (i - 1) * size \in Nat
             /\ \A b \in LogsIn(logs, chunks[i]) : (i - 1) * size <= way(b) /\ way(b) < (i - 1) * size + size
  <2>1. HasLogs(from, to, reverse, logs, size, i, LogsIn(logs, chunks[i]))
    BY LogsOfChunk
  <2> HIDE DEF chunks
  <2> QED BY <2>1 DEF HasLogs
<1>5. matching \subseteq 1 .. n /\ matching \subseteq Nat /\ wanted \subseteq Nat /\ n \in Nat
  <2>1. n \in Nat
    BY NumberIs
  <2>2. wanted \subseteq Nat
    OBVIOUS
  <2> HIDE DEF n
  <2> QED BY <1>1, <2>1, <2>2
<1>6. \A b \in wanted : way(b) \in Nat
  BY DEF Way
<1>7. broken => queryWithRetry(failing.replies) = "throws"
  BY DEF Broken
<1>8. \A i \in matching : LogsIn(logs, chunks[i]) # {}
  BY <1>1
<1> HIDE DEF chunks, n, matching, last, broken
<1>0. SUFFICES IsAnswer(found, wanted, reverse, size, failing)
  OBVIOUS
<1>12. wanted = logs \cap (from .. to)
  OBVIOUS
<1> HIDE DEF wanted, found
<1>9. CASE matching = {}
  BY <1>2, <1>3, <1>7, <1>9 DEF Undefined, Throws, IsAnswer
<1>10. CASE broken
  BY <1>2, <1>5, <1>7, <1>10 DEF Undefined, Throws, IsAnswer
<1>11. CASE matching # {} /\ ~broken
  <2> DEFINE here == LogsIn(logs, chunks[last])
  <2>1. last \in matching /\ \A i \in matching : last <= i
    BY <1>1, <1>5, <1>11, MinIsLeast
  <2>2. here # {} /\ here \subseteq wanted /\ here \subseteq Nat /\ last \in 1 .. n
    BY <1>4, <1>5, <1>8, <2>1
  <2>3. found = Min(here) /\ found \in here /\ \A b \in here : found <= b
    BY <1>2, <1>11, <2>2, MinIsLeast
  <2>4. found \in wanted /\ found \in Nat /\ wanted # {}
    BY <2>2, <2>3
  <2>5. way(found) < (last - 1) * size + size /\ (last - 1) * size <= way(found) /\ (last - 1) * size \in Nat
    BY <1>4, <2>2, <2>3
  <2>6. ASSUME NEW b \in wanted
        PROVE  b \in here \/ (last - 1) * size + size <= way(b)
    <3>1. PICK i \in matching : b \in LogsIn(logs, chunks[i])
      BY <1>3
    <3>2. i \in 1 .. n /\ last <= i /\ i \in Nat /\ last \in Nat
      BY <1>5, <2>1, <2>2, <3>1
    <3>3. (i - 1) * size <= way(b) /\ (i - 1) * size \in Nat
      BY <1>4, <3>1, <3>2
    <3>4. CASE i = last
      BY <3>1, <3>4
    <3>5. CASE i # last
      <4>1. last <= i - 1
        BY <3>2, <3>5
      <4>2. last * size <= (i - 1) * size /\ last * size = (last - 1) * size + size
        BY <3>2, <4>1, TimesKeepsOrder
      <4> DEFINE p == last * size  r == (i - 1) * size  q == (last - 1) * size
      <4>3. p = q + size /\ p <= r /\ r <= way(b) /\ q \in Nat /\ r \in Nat /\ p \in Int /\ way(b) \in Nat
        BY <1>6, <2>5, <3>2, <3>3, <4>2
      <4>4. q + size <= way(b)
        <5> HIDE DEF p, r, q, way
        <5> QED BY <4>3
      <4> QED BY <4>4
    <3> QED BY <3>4, <3>5
  <2>7. CASE reverse
    <3> DEFINE m == Max(wanted)
    <3>1. IsFiniteSet(wanted)
      <4>1. IsFiniteSet(from .. to)
        <5>1. from \in Int /\ to \in Int
          OBVIOUS
        <5> QED BY <5>1, FS_Interval
      <4>2. wanted \subseteq from .. to
        BY <1>12
      <4> QED BY <4>1, <4>2, FS_Subset
    <3>2. m \in wanted /\ \A b \in wanted : b <= m
      BY <1>5, <2>4, <3>1, MaxIsGreatest
    <3>3. way(m) = to - m /\ way(found) = to - found
      BY <2>7 DEF Way
    <3>4. (last - 1) * size <= way(m)
      <4>1. CASE m \in here
        BY <1>4, <2>2, <4>1
      <4>2. CASE (last - 1) * size + size <= way(m)
        <5> DEFINE q == (last - 1) * size
        <5>1. q + size <= way(m) /\ q \in Nat /\ way(m) \in Nat
          BY <1>6, <2>5, <3>2, <4>2
        <5> HIDE DEF q, way
        <5>2. q <= way(m)
          BY <5>1
        <5> QED BY <5>2 DEF q
      <4> QED BY <2>6, <3>2, <4>1, <4>2
    <3>5. m - found < size
      <4> DEFINE q == (last - 1) * size
      <4>1. /\ q \in Nat /\ q <= to - m /\ to - found < q + size
            /\ m \in Nat /\ found \in Nat
        BY <1>5, <2>4, <2>5, <3>2, <3>3, <3>4
      <4> HIDE DEF q, m
      <4> QED BY <4>1
    <3> QED BY <2>4, <2>7, <3>5 DEF Undefined, Throws, IsAnswer
  <2>8. CASE ~reverse
    <3>1. \A b \in wanted : way(b) = b - from
      BY <2>8 DEF Way
    <3>2. ASSUME NEW b \in wanted PROVE found <= b
      <4>1. CASE b \in here
        BY <2>3, <4>1
      <4>2. CASE (last - 1) * size + size <= way(b)
        <5> DEFINE q == (last - 1) * size
        <5>1. /\ q + size <= b - from /\ found - from < q + size /\ q \in Nat
              /\ b \in Nat /\ found \in Nat
          BY <1>5, <2>4, <2>5, <3>1, <4>2
        <5> HIDE DEF q
        <5> QED BY <5>1
      <4> QED BY <2>6, <4>1, <4>2
    <3>3. Min(wanted) \in wanted /\ \A b \in wanted : Min(wanted) <= b
      BY <1>5, <2>4, MinIsLeast
    <3>4. found = Min(wanted)
      <4>1. found <= Min(wanted) /\ Min(wanted) <= found /\ found \in Nat /\ Min(wanted) \in Nat
        BY <1>5, <2>4, <3>2, <3>3
      <4> QED BY <4>1
    <3> QED BY <2>4, <2>8, <3>4 DEF Undefined, Throws, IsAnswer
  <2> QED BY <2>7, <2>8
<1> QED BY <1>9, <1>10, <1>11

\* A chunk begins before the range ends.
LEMMA ChunkBegins ==
  ASSUME NEW from \in Nat, NEW to \in Nat, NEW size \in Nat \ {0}, NEW i \in 1 .. Number(from, to, size)
  PROVE  (i - 1) * size \in Nat /\ (i - 1) * size < Span(from, to)
<1> DEFINE span == Span(from, to)  n == Number(from, to, size)  d == (i - 1) * size
           p    == n * size  r == (n - 1) * size
<1>1. n \in Nat /\ span <= p /\ p < span + size /\ span \in Nat
  BY NumberIs
<1>2. i - 1 \in Nat /\ d \in Nat
  BY <1>1
<1>3. d <= r
  BY <1>1, <1>2, TimesKeepsOrder
<1>4. r = p - size /\ p \in Nat
  BY <1>1
<1>5. d < span
  <2> HIDE DEF p, r, d, span, n
  <2> QED BY <1>1, <1>2, <1>3, <1>4
<1> QED BY <1>2, <1>5

\* How many blocks the first chunks have.
Searched(chunks, n) ==
  CHOOSE searched : searched =
    [i \in 0 .. n |-> IF i = 0 THEN 0 ELSE searched[i - 1] + (chunks[i].end - chunks[i].start + 1)]

\* All chunks together are as long as the range.
LEMMA SearchedIs ==
  ASSUME NEW from \in Nat, NEW to \in Nat, NEW size \in Nat \ {0}, NEW reverse \in BOOLEAN
  PROVE  Searched(Chunks(from, to, size, reverse), Number(from, to, size))[Number(from, to, size)] = Span(from, to)
<1> DEFINE chunks == Chunks(from, to, size, reverse)
           n      == Number(from, to, size)
           span   == Span(from, to)
           new(i) == chunks[i].end - chunks[i].start + 1
           sum    == [i \in 0 .. n |-> IF i = 0 THEN 0 ELSE Until(from, to, size, i)]
           f      == Searched(chunks, n)
<1>1. n \in Nat /\ span \in Nat /\ span <= n * size
  BY NumberIs
<1>2. \A i \in 1 .. n : /\ (i - 1) * size \in Nat /\ (i - 1) * size < span
                        /\ new(i) = Until(from, to, size, i) - (i - 1) * size
  <2>1. \A i \in 1 .. n : IsChunk(from, to, size, reverse, i, chunks[i])
    BY ChunkIs
  <2>2. \A i \in 1 .. n : (i - 1) * size \in Nat /\ (i - 1) * size < span
    BY ChunkBegins
  <2> HIDE DEF chunks, n, span
  <2> QED BY <2>1, <2>2 DEF IsChunk
<1> HIDE DEF chunks, n, span
<1>3. ASSUME NEW i \in 1 .. n PROVE sum[i - 1] = (i - 1) * size /\ sum[i] = Until(from, to, size, i) /\ sum[i] \in Nat
  <2> DEFINE d == (i - 1) * size
  <2>1. d \in Nat /\ d < span
    BY <1>2
  <2>2. i - 1 \in 0 .. n /\ i \in 0 .. n /\ i # 0
    BY <1>1
  <2>3. sum[i] = IF d + size < span THEN d + size ELSE span
    BY <2>2 DEF Until, span
  <2>4. sum[i - 1] = d
    <3>1. CASE i = 1
      BY <2>2, <3>1
    <3>2. CASE i # 1
      <4>1. ((i - 1) - 1) * size + size = d
        BY <2>2
      <4>2. sum[i - 1] = IF ((i - 1) - 1) * size + size < span THEN ((i - 1) - 1) * size + size ELSE span
        BY <2>2, <3>2 DEF Until, span
      <4> QED BY <2>1, <4>1, <4>2
    <3> QED BY <3>1, <3>2
  <2>5. sum[i] \in Nat
    <3> HIDE DEF d, sum
    <3> QED BY <1>1, <2>1, <2>3
  <2>6. sum[i] = Until(from, to, size, i)
    BY <2>2
  <2> QED BY <2>4, <2>5, <2>6
<1>4. sum = [i \in 0 .. n |-> IF i = 0 THEN 0 ELSE sum[i - 1] + new(i)]
  <2>1. \A i \in 0 .. n : i # 0 => sum[i] = sum[i - 1] + new(i)
    <3>1. ASSUME NEW i \in 1 .. n PROVE sum[i] = sum[i - 1] + new(i)
      <4> DEFINE d == (i - 1) * size  u == Until(from, to, size, i)
      <4>1. sum[i - 1] = d /\ sum[i] = u /\ u \in Nat /\ new(i) = u - d /\ d \in Nat
        BY <1>2, <1>3
      <4> HIDE DEF d, u, sum, new
      <4> QED BY <4>1
    <3> HIDE DEF sum, new
    <3> QED BY <1>1, <3>1
  <2>2. sum[0] = 0
    BY <1>1
  <2>3. sum = [i \in 0 .. n |-> sum[i]]
    OBVIOUS
  <2> HIDE DEF sum, new
  <2> QED BY <2>1, <2>2, <2>3
<1> HIDE DEF sum
<1>5. f = [i \in 0 .. n |-> IF i = 0 THEN 0 ELSE f[i - 1] + new(i)]
  BY <1>4 DEF Searched
<1> HIDE DEF f, new
<1>6. \A i \in 0 .. n : f[i] = sum[i]
  <2> DEFINE T == {i \in 0 .. n : f[i] # sum[i]}
  <2>1. SUFFICES ASSUME T # {} PROVE FALSE
    OBVIOUS
  <2>2. T \subseteq Nat
    OBVIOUS
  <2>3. PICK m \in T : \A i \in T : m <= i
    BY <2>1, <2>2, NatMin
  <2>4. m \in 0 .. n /\ f[m] # sum[m]
    OBVIOUS
  <2>5. m # 0
    <3>1. f[0] = 0 /\ sum[0] = 0
      BY <1>1, <1>4, <1>5
    <3> QED BY <2>4, <3>1
  <2>6. m - 1 \in 0 .. n /\ m - 1 < m
    BY <1>1, <2>4, <2>5
  <2>7. m - 1 \notin T
    BY <2>3, <2>6
  <2>8. f[m - 1] = sum[m - 1]
    BY <2>6, <2>7
  <2>9. f[m] = f[m - 1] + new(m) /\ sum[m] = sum[m - 1] + new(m)
    BY <1>4, <1>5, <2>4, <2>5
  <2> QED BY <2>4, <2>8, <2>9
<1>7. sum[n] = span
  <2>1. CASE n = 0
    <3>1. span = 0
      BY <1>1, <2>1
    <3>2. sum[0] = 0
      BY <1>1 DEF sum
    <3> QED BY <2>1, <3>1, <3>2
  <2>2. CASE n # 0
    <3>1. n \in 1 .. n
      BY <1>1, <2>2
    <3>2. sum[n] = Until(from, to, size, n)
      BY <1>3, <3>1
    <3>3. (n - 1) * size + size = n * size /\ n * size \in Nat
      BY <1>1
    <3>4. Until(from, to, size, n) = IF n * size < span THEN n * size ELSE span
      BY <3>3 DEF Until, span
    <3> DEFINE p == n * size
    <3>5. p \in Nat /\ span <= p /\ sum[n] = IF p < span THEN p ELSE span
      BY <1>1, <3>2, <3>3, <3>4
    <3> HIDE DEF p
    <3> QED BY <1>1, <3>5
  <2> QED BY <2>1, <2>2
<1>8. f[n] = span
  BY <1>1, <1>6, <1>7
<1> QED BY <1>8 DEF f, chunks, n, span

\* A search for every log asks for every block once.
IsEverything(all, logs, from, to, failing) ==
  /\ all.throws => queryWithRetry(failing.replies) = "throws"
  /\ ~all.throws => all.logs = logs \cap (from .. to) /\ all.searchedBlocks = Span(from, to)

\* What a search returns once it is known which chunks match and where it ends.
ResultOf(logs, chunks, matching, last, failing) ==
  IF Broken(last, failing)
  THEN [throws |-> TRUE]
  ELSE [throws          |-> FALSE,
        logs            |-> UNION {LogsIn(logs, chunks[i]) : i \in 1 .. last},
        matchedLog      |-> IF matching = {} THEN Undefined ELSE Min(LogsIn(logs, chunks[last])),
        earlyExit       |-> matching # {},
        chunksProcessed |-> last,
        searchedBlocks  |-> Searched(chunks, last)[last]]

\* A search without a match to end it finds every log.
LEMMA AllLogsAre ==
  ASSUME NEW from \in Nat, NEW to \in Nat, NEW reverse \in BOOLEAN, NEW logs, logs \subseteq Nat,
         NEW size \in Nat \ {0}, NEW failing
  PROVE  IsEverything(queryAllEvents([from |-> from, to |-> to, reverse |-> reverse], logs, size, failing),
                      logs, from, to, failing)
<1> DEFINE chunks  == Chunks(from, to, size, FALSE)
           n       == Number(from, to, size)
           broken  == failing.chunk <= n /\ queryWithRetry(failing.replies) = "throws"
           options == [chunkSize |-> size, reverse |-> FALSE, maxChunks |-> Undefined, earlyExit |-> FALSE]
           filter  == [from |-> from, to |-> to]
           result  == searchLogsInChunks(logs, filter, options, failing)
<1>1. Len(chunks) = n /\ n \in Nat
  BY ChunkCount, NumberIs
<1>2. Chunks(filter.from, filter.to, options.chunkSize, options.reverse) = chunks
  OBVIOUS
<1>3. options.maxChunks = Undefined /\ ~options.earlyExit
  OBVIOUS
<1>4. {i \in 1 .. n : options.earlyExit /\ LogsIn(logs, chunks[i]) # {}} = {}
  BY <1>3
<1>5. queryAllEvents([from |-> from, to |-> to, reverse |-> reverse], logs, size, failing) = result
  BY DEF queryAllEvents
<1>6. UNION {LogsIn(logs, chunks[i]) : i \in 1 .. n} = logs \cap (from .. to)
  <2>1. ASSUME NEW b \in logs \cap (from .. to) PROVE \E i \in 1 .. n : b \in LogsIn(logs, chunks[i])
    <3>1. b \in logs /\ b \in from .. to /\ FALSE \in BOOLEAN
      OBVIOUS
    <3>2. PICK i \in 1 .. n : b \in chunks[i].start .. chunks[i].end
      BY <3>1, ChunksCover
    <3> QED BY <3>1, <3>2 DEF LogsIn
  <2>2. ASSUME NEW i \in 1 .. n PROVE LogsIn(logs, chunks[i]) \subseteq logs \cap (from .. to)
    <3>1. HasLogs(from, to, FALSE, logs, size, i, LogsIn(logs, chunks[i]))
      BY LogsOfChunk
    <3> HIDE DEF chunks
    <3> QED BY <3>1 DEF HasLogs
  <2> HIDE DEF chunks, n
  <2> QED BY <2>1, <2>2
<1>7. Searched(chunks, n)[n] = Span(from, to)
  BY SearchedIs
<1> HIDE DEF chunks, n, options, filter
<1>8. result = ResultOf(logs, chunks, {}, n, failing)
  <2> DEFINE parts    == Chunks(filter.from, filter.to, options.chunkSize, options.reverse)
             budget   == IF options.maxChunks = Undefined THEN Len(parts) ELSE Smaller(options.maxChunks, Len(parts))
             matching == {i \in 1 .. budget : options.earlyExit /\ LogsIn(logs, parts[i]) # {}}
             last     == IF matching = {} THEN budget ELSE Min(matching)
  <2>1. result = ResultOf(logs, parts, matching, last, failing)
    BY Zenon DEF searchLogsInChunks, ResultOf, Broken, Searched
  <2>2. parts = chunks
    BY <1>2
  <2> HIDE DEF parts
  <2>3. budget = n
    BY <1>1, <1>3, <2>2
  <2> HIDE DEF budget
  <2>4. matching = {}
    BY <1>3
  <2> HIDE DEF matching
  <2>5. last = n
    BY <2>3, <2>4
  <2> HIDE DEF last, result
  <2> QED BY <2>1, <2>2, <2>4, <2>5, Zenon
<1> HIDE DEF result
<1>9. /\ broken => result.throws = TRUE
      /\ ~broken => /\ result.throws = FALSE
                    /\ result.logs = UNION {LogsIn(logs, chunks[i]) : i \in 1 .. n}
                    /\ result.searchedBlocks = Searched(chunks, n)[n]
  <2> DEFINE found == UNION {LogsIn(logs, chunks[i]) : i \in 1 .. n}
             count == Searched(chunks, n)[n]
             exit  == {} # {}
             log   == IF {} = {} THEN Undefined ELSE Min(LogsIn(logs, chunks[n]))
  <2>1. result = IF broken THEN [throws |-> TRUE]
                 ELSE [throws |-> FALSE, logs |-> found, matchedLog |-> log, earlyExit |-> exit,
                       chunksProcessed |-> n, searchedBlocks |-> count]
    BY <1>8, Zenon DEF ResultOf, Broken
  <2> HIDE DEF found, count, exit, log, broken
  <2>2. (broken => result.throws = TRUE) /\ (~broken => result.throws = FALSE /\ result.logs = found /\ result.searchedBlocks = count)
    BY <2>1
  <2> QED BY <2>2 DEF found, count
<1> HIDE DEF result
<1> QED BY <1>5, <1>6, <1>7, <1>8, <1>9 DEF IsEverything

\* Both are so for the ranges that hints make.
LEMMA LogIsFound ==
  ASSUME NEW q, IsLogQuestion(q)
  PROVE  FoundIn(q)
<1> DEFINE range  == IF q.of = "timelock" THEN getSearchDefaults(q.hint, q.genesis, q.head)
                     ELSE resolveSearchRange(q.hint, q.genesis, q.head)
           wanted == q.logs \cap (range.from .. range.to)
           found  == IF q.of = "timelock" THEN findCallExecutedEvent(q.hint, q.genesis, q.head, q.logs, q.size, q.failing)
                     ELSE findProposalQueuedEvent(q.hint, q.genesis, q.head, q.logs, q.size, q.failing)
           all    == queryAllEvents(range, q.logs, q.size, q.failing)
           fails  == queryWithRetry(q.failing.replies) = "throws"
<1>1. PICK from \in Nat, to \in Nat, reverse \in BOOLEAN : range = [from |-> from, to |-> to, reverse |-> reverse]
  <2>1. Given(q.hint.startBlock, q.genesis) \in Nat /\ Given(q.hint.endBlock, q.head) \in Nat
    BY DEF IsLogQuestion, Given
  <2> DEFINE back == IF q.of = "timelock"
                     THEN q.hint.direction = "backward" \/ (q.hint.direction # "forward" /\ q.hint.startBlock = Undefined)
                     ELSE q.hint.direction # "forward"
  <2>2. back \in BOOLEAN
    OBVIOUS
  <2>3. range = [from |-> Given(q.hint.startBlock, q.genesis), to |-> Given(q.hint.endBlock, q.head), reverse |-> back]
    BY Zenon DEF getSearchDefaults, resolveSearchRange
  <2> HIDE DEF range, back
  <2> QED BY <2>1, <2>2, <2>3, Zenon
<1>2. found = FirstIn(range, q.logs, q.size, q.failing)
  BY DEF findCallExecutedEvent, findProposalQueuedEvent
<1> HIDE DEF range, found
<1>3. range.from = from /\ range.to = to /\ (range.reverse <=> reverse)
  BY <1>1
<1>4. /\ q.logs \subseteq Nat \ {0} /\ q.logs \subseteq Nat /\ q.size \in Nat \ {0} /\ q.failing.chunk \in Nat \ {0}
  BY DEF IsLogQuestion
<1>5. wanted = q.logs \cap (from .. to)
  BY <1>3
<1> HIDE DEF wanted
<1>6. /\ found \in {Throws, Undefined} \cup wanted
      /\ found = Throws => fails
      /\ found = Undefined => wanted = {}
      /\ found \in wanted => IF reverse THEN Max(wanted) - found < q.size ELSE found = Min(wanted)
  <2>1. IsAnswer(FirstIn([from |-> from, to |-> to, reverse |-> reverse], q.logs, q.size, q.failing),
                 q.logs \cap (from .. to), reverse, q.size, q.failing)
    BY <1>4, SearchFinds
  <2>2. FirstIn([from |-> from, to |-> to, reverse |-> reverse], q.logs, q.size, q.failing) = found
    BY <1>1, <1>2, Zenon
  <2> QED BY <1>5, <2>1, <2>2 DEF IsAnswer
<1>7. /\ all.throws => fails
      /\ ~all.throws => all.logs = q.logs \cap (from .. to) /\ all.searchedBlocks = Span(from, to)
  <2>1. IsEverything(queryAllEvents([from |-> from, to |-> to, reverse |-> reverse], q.logs, q.size, q.failing),
                     q.logs, from, to, q.failing)
    BY <1>4, AllLogsAre
  <2>2. queryAllEvents([from |-> from, to |-> to, reverse |-> reverse], q.logs, q.size, q.failing) = all
    BY <1>1, Zenon
  <2> HIDE DEF all
  <2> QED BY <2>1, <2>2 DEF IsEverything
<1>8. found > 0 => found \in wanted
  BY <1>6 DEF Throws, Undefined
<1>9. found > 0 => found \in wanted /\ IF range.reverse THEN Max(wanted) - found < q.size ELSE found = Min(wanted)
  BY <1>3, <1>6, <1>8
<1>10. ~fails => ~all.throws /\ all.logs = wanted /\ all.searchedBlocks = Larger(range.to - range.from + 1, 0)
  <2> HIDE DEF all, fails
  <2> QED BY <1>3, <1>5, <1>7 DEF Span
<1> QED BY <1>6, <1>7, <1>9, <1>10, Zenon DEF FoundIn, range, wanted, found

-----------------------------------------------------------------------------
(* The first L2 block of an L1 block                                       *)

\* The block that is found is the first of the L1 block, or an earlier one.
LEMMA FirstBlockIsFound ==
  ASSUME NEW q, IsBlockQuestion(q),
         NEW first, first = getFirstL2BlockForL1Block(q.l1Of, q.target, q.unread),
         NEW from, from = FirstFrom(q.l1Of, q.target)
  PROVE  IF from = Undefined THEN first \in {Undefined} \cup 1 .. Len(q.l1Of) + 1
         ELSE first \in 1 .. from /\ (q.unread = {} => first = from)
<1> DEFINE l1Of   == q.l1Of
           n      == Len(l1Of)
           target == q.target
           later  == {b \in 1 .. n : l1Of[b] >= target}
           range(o) == RangeForL1(l1Of, target - o)
           hits   == {o \in 0 .. NearbyAttempts - 1 : target - o > 0 /\ o \notin q.unread /\ range(o) # {}}
           offset == Min(hits)
<1>1. /\ n \in Nat /\ DOMAIN l1Of = 1 .. n /\ target \in Nat
      /\ \A b \in 1 .. n : l1Of[b] \in Nat
      /\ \A b, c \in 1 .. n : b <= c => l1Of[b] <= l1Of[c]
  BY DEF IsBlockQuestion
<1>2. from = IF later = {} THEN Undefined ELSE Min(later)
  BY <1>1 DEF FirstFrom
<1>3. first = IF hits = {} THEN from ELSE IF offset = 0 THEN Min(range(offset)) ELSE Max(range(offset)) + 1
  BY DEF getFirstL2BlockForL1Block
<1>4. \A o \in Int : range(o) = {b \in 1 .. n : l1Of[b] = target - o}
  BY <1>1 DEF RangeForL1
<1>5. NearbyAttempts \in Nat \ {0}
  BY SearchAssumption DEF SearchAssumption
<1> HIDE DEF n, range
<1>6. later # {} => from \in later /\ from \in 1 .. n /\ (\A b \in later : from <= b)
  <2>1. later \subseteq Nat
    BY <1>1
  <2> HIDE DEF later
  <2>2. later # {} => from \in later /\ \A b \in later : from <= b
    BY <1>2, <2>1, MinIsLeast
  <2> QED BY <2>2 DEF later
<1>7. from = Undefined <=> later = {}
  BY <1>2, <1>6 DEF Undefined
<1>8. hits \subseteq Nat /\ \A o \in hits : o \in 0 .. NearbyAttempts - 1 /\ target - o > 0 /\ range(o) # {}
  BY <1>5
<1>9. \A o \in 0 .. NearbyAttempts - 1 : target - o > 0 /\ range(o) # {} /\ q.unread = {} => o \in hits
  OBVIOUS
<1> HIDE DEF hits
<1>10. CASE hits = {}
  <2>1. first = from
    BY <1>3, <1>10
  <2>2. from # Undefined => from \in 1 .. from
    BY <1>1, <1>6, <1>7
  <2> QED BY <2>1, <2>2
<1>11. CASE hits # {}
  <2>1. offset \in hits /\ \A o \in hits : offset <= o
    BY <1>8, <1>11, MinIsLeast
  <2> HIDE DEF offset
  <2> DEFINE R == range(offset)
  <2>2. /\ offset \in Nat /\ offset <= NearbyAttempts - 1 /\ target - offset > 0 /\ R # {}
        /\ R = {b \in 1 .. n : l1Of[b] = target - offset} /\ R \subseteq Nat
    BY <1>4, <1>8, <2>1
  <2>3. CASE offset = 0
    <3> DEFINE m == Min(R)
    <3>1. first = m
      BY <1>3, <1>11, <2>3
    <3>2. m \in R /\ \A b \in R : m <= b
      BY <2>2, MinIsLeast
    <3>3. m \in 1 .. n /\ l1Of[m] = target
      BY <1>1, <2>2, <2>3, <3>2
    <3>4. m \in later
      BY <1>1, <3>3
    <3>5. from \in 1 .. n /\ l1Of[from] >= target /\ from <= m /\ from # Undefined
      BY <1>6, <1>7, <3>4
    <3>6. l1Of[from] <= target
      BY <1>1, <3>3, <3>5
    <3>7. l1Of[from] = target
      BY <1>1, <3>5, <3>6
    <3>8. from \in R
      BY <1>1, <2>2, <2>3, <3>5, <3>7
    <3>9. first = from
      BY <1>1, <3>1, <3>2, <3>3, <3>5, <3>8
    <3> QED BY <1>1, <3>5, <3>9
  <2>4. CASE offset # 0
    <3> DEFINE m == Max(R)
    <3>1. first = m + 1
      BY <1>3, <1>11, <2>4
    <3>2. IsFiniteSet(R)
      <4>1. IsFiniteSet(1 .. n)
        BY <1>1, FS_Interval
      <4>2. R \subseteq 1 .. n
        BY <2>2
      <4> QED BY <4>1, <4>2, FS_Subset
    <3>3. m \in R /\ \A b \in R : b <= m
      BY <2>2, <3>2, MaxIsGreatest
    <3>4. m \in 1 .. n /\ l1Of[m] = target - offset
      BY <2>2, <3>3
    <3> HIDE DEF m
    <3>5. CASE later = {}
      BY <1>1, <1>7, <3>1, <3>4, <3>5
    <3>6. CASE later # {}
      <4>1. from \in 1 .. n /\ l1Of[from] >= target /\ from # Undefined
        BY <1>6, <1>7, <3>6
      <4>2. m < from
        <5>1. SUFFICES ASSUME from <= m PROVE FALSE
          BY <1>1, <3>4, <4>1
        <5>2. l1Of[from] <= l1Of[m]
          BY <1>1, <3>4, <4>1, <5>1
        <5> QED BY <1>1, <2>2, <2>4, <3>4, <4>1, <5>2
      <4>3. first \in 1 .. from
        BY <1>1, <3>1, <3>4, <4>1, <4>2
      <4>4. ASSUME q.unread = {} PROVE first = from
        <5>1. first \in 1 .. n /\ m <= first /\ first # m
          BY <1>1, <3>1, <3>4, <4>1, <4>2
        <5>2. l1Of[first] > target - offset
          <6>1. l1Of[m] <= l1Of[first]
            BY <1>1, <3>4, <5>1
          <6>2. first \notin R
            BY <1>1, <3>1, <3>3, <3>4, <5>1
          <6>3. l1Of[first] # target - offset
            BY <2>2, <5>1, <6>2
          <6> QED BY <1>1, <2>2, <3>4, <5>1, <6>1, <6>3
        <5>3. l1Of[first] >= target
          <6>1. SUFFICES ASSUME l1Of[first] < target PROVE FALSE
            BY <1>1, <5>1
          <6> DEFINE o == target - l1Of[first]
          <6>2. o \in 0 .. NearbyAttempts - 1 /\ o < offset /\ target - o > 0 /\ target - o = l1Of[first]
            BY <1>1, <1>5, <2>2, <5>1, <5>2, <6>1
          <6>3. first \in range(o)
            BY <1>4, <5>1, <6>2
          <6> HIDE DEF o
          <6>4. o \in hits
            BY <1>9, <4>4, <6>2, <6>3
          <6>5. o \in Nat /\ offset \in Nat /\ o < offset
            BY <2>2, <6>2
          <6>6. offset <= o
            BY <2>1, <6>4
          <6> QED BY <6>5, <6>6
        <5>4. from <= first
          BY <1>6, <3>6, <5>1, <5>3
        <5> QED BY <1>1, <4>1, <4>3, <5>1, <5>4
      <4> QED BY <4>1, <4>3, <4>4
    <3> QED BY <3>5, <3>6
  <2> QED BY <2>3, <2>4
<1> QED BY <1>10, <1>11

-----------------------------------------------------------------------------
(* The execution of an operation after its delay                           *)

\* The rounds of blockAfterDelay are a function on their number.
AreRounds(after, timestamp, missing, startBlock, target, blockTime, estimate) ==
  after = [i \in 0 .. MaxIterations |->
    IF i = 0 THEN estimate ELSE Backtrack(timestamp, missing, startBlock, target, blockTime, after[i - 1])]

Rounds(timestamp, missing, startBlock, target, blockTime, estimate) ==
  CHOOSE after : AreRounds(after, timestamp, missing, startBlock, target, blockTime, estimate)

\* There is such a function, by a least number of rounds for which there would be none.
LEMMA RoundsExist ==
  ASSUME NEW timestamp, NEW missing, NEW startBlock, NEW target, NEW blockTime, NEW estimate
  PROVE  AreRounds(Rounds(timestamp, missing, startBlock, target, blockTime, estimate),
                   timestamp, missing, startBlock, target, blockTime, estimate)
<1> DEFINE step(b)   == Backtrack(timestamp, missing, startBlock, target, blockTime, b)
           Is(g, n)  == g = [i \in 0 .. n |-> IF i = 0 THEN estimate ELSE step(g[i - 1])]
           T         == {n \in Nat : ~ \E g : Is(g, n)}
<1>1. T = {}
  <2>1. SUFFICES ASSUME T # {} PROVE FALSE
    OBVIOUS
  <2>2. T \subseteq Nat
    OBVIOUS
  <2>3. PICK m \in T : \A n \in T : m <= n
    BY <2>1, <2>2, NatMin
  <2>4. m \in Nat /\ ~ \E g : Is(g, m)
    OBVIOUS
  <2> HIDE DEF step
  <2>5. m # 0
    <3> DEFINE g == [i \in 0 .. 0 |-> estimate]
    <3>1. Is(g, 0)
      OBVIOUS
    <3> QED BY <2>4, <3>1
  <2>6. m - 1 \in Nat /\ m - 1 \notin T
    <3>1. m - 1 \in Nat /\ m - 1 < m
      BY <2>4, <2>5
    <3>2. ASSUME m - 1 \in T PROVE FALSE
      <4>1. m <= m - 1
        BY <2>3, <3>2
      <4> QED BY <2>4, <4>1
    <3> QED BY <3>1, <3>2
  <2>7. PICK g : Is(g, m - 1)
    BY <2>6
  <2> DEFINE h == [i \in 0 .. m |-> IF i = m THEN step(g[m - 1]) ELSE g[i]]
  <2>8. \A i \in 0 .. m : h[i] = IF i = 0 THEN estimate ELSE step(h[i - 1])
    <3>1. ASSUME NEW i \in 0 .. m PROVE h[i] = IF i = 0 THEN estimate ELSE step(h[i - 1])
      <4>1. CASE i = m
        <5>1. h[m] = step(g[m - 1]) /\ h[m - 1] = g[m - 1]
          BY <2>4, <2>5
        <5> QED BY <2>5, <4>1, <5>1
      <4>2. CASE i # m
        <5>1. i \in 0 .. m - 1 /\ h[i] = g[i] /\ (i # 0 => h[i - 1] = g[i - 1])
          BY <2>4, <4>2
        <5>2. g[i] = IF i = 0 THEN estimate ELSE step(g[i - 1])
          BY <2>7, <5>1
        <5> QED BY <5>1, <5>2
      <4> QED BY <4>1, <4>2
    <3> QED BY <3>1
  <2>9. h = [i \in 0 .. m |-> h[i]]
    OBVIOUS
  <2> HIDE DEF h
  <2>10. Is(h, m)
    BY <2>8, <2>9
  <2> QED BY <2>4, <2>10
<1>2. \E g : Is(g, MaxIterations)
  <2>1. MaxIterations \in Nat /\ MaxIterations \notin T
    BY <1>1 DEF MaxIterations
  <2> QED BY <2>1
<1>3. \E g : AreRounds(g, timestamp, missing, startBlock, target, blockTime, estimate)
  BY <1>2 DEF AreRounds
<1> QED BY <1>3 DEF Rounds

\* One round less goes back one margin less.
LEMMA OneTimeLess ==
  ASSUME NEW m \in Nat \ {0}, NEW margin \in Nat
  PROVE  (m - 1) * margin + margin = m * margin /\ (m - 1) * margin \in Nat
OBVIOUS

\* Where a search for an execution starts is not after the execution, unless it is a
\* block that was not given.
LEMMA StartsEarly ==
  ASSUME NEW q, IsDelayQuestion(q), q.delay > 0, 1 \notin q.missing,
         NEW from, from = blockAfterDelay(q.timestamp, q.missing, q.head, 1, q.delay, 1)
  PROVE  from \in 1 .. Len(q.timestamp) /\ (q.executedAt <= q.head => from <= q.executedAt \/ from \in q.missing)
<1> DEFINE ts == q.timestamp  missing == q.missing  head == q.head
           target == ts[1] + q.delay
           estimate == Larger(Smaller(1 + q.delay \div 1, head), 1 + 1)
           f == Rounds(ts, missing, 1, target, 1, estimate)
           steady == \A b, c \in 1 .. head : b < c => ts[c] - ts[b] > (c - b) - SafetyMargin
<1>1. /\ DOMAIN ts = 1 .. Len(ts) /\ Len(ts) \in Nat /\ \A b \in 1 .. Len(ts) : ts[b] \in Nat
      /\ \A b, c \in 1 .. Len(ts) : b <= c => ts[b] <= ts[c]
      /\ head \in 1 .. Len(ts) /\ q.delay \in Nat /\ q.executedAt \in 2 .. Len(ts) /\ ts[q.executedAt] >= target
      /\ SafetyMargin \in Nat \ {0}
  <2>1. ts \in Seq(Nat) /\ DOMAIN ts = 1 .. Len(ts) /\ Len(ts) \in Nat
    BY DEF IsDelayQuestion
  <2>2. \A b \in 1 .. Len(ts) : ts[b] \in Nat
    BY <2>1
  <2>3. \A b, c \in 1 .. Len(ts) : b <= c => ts[b] <= ts[c]
    BY <2>1 DEF IsDelayQuestion
  <2>4. head \in 1 .. Len(ts) /\ q.delay \in Nat /\ q.executedAt \in 1 .. Len(ts) \ {1} /\ ts[q.executedAt] >= target
    BY <2>1 DEF IsDelayQuestion
  <2>5. q.executedAt \in 2 .. Len(ts)
    BY <2>1, <2>4
  <2>6. SafetyMargin \in Nat \ {0}
    BY SearchAssumption DEF SearchAssumption
  <2> QED BY <2>1, <2>2, <2>3, <2>4, <2>5, <2>6
<1>2. target \in Nat /\ target > ts[1]
  BY <1>1
<1>3. head <= 2 + MaxIterations * SafetyMargin \/ steady
  BY DEF IsDelayQuestion
<1>4. from = IF ts[head] < target THEN 1 ELSE f[MaxIterations]
  BY DEF blockAfterDelay, Rounds, AreRounds
<1>5. f = [i \in 0 .. MaxIterations |-> IF i = 0 THEN estimate ELSE Backtrack(ts, missing, 1, target, 1, f[i - 1])]
  <2> HIDE DEF ts, missing, target, estimate
  <2>1. AreRounds(f, ts, missing, 1, target, 1, estimate)
    BY RoundsExist
  <2> HIDE DEF f
  <2> QED BY <2>1 DEF AreRounds
<1> SUFFICES from \in 1 .. Len(ts) /\ (q.executedAt <= head => from <= q.executedAt \/ from \in missing)
  OBVIOUS
<1> HIDE DEF ts, missing, f, steady, head, target
<1>6. CASE ts[head] < target
  BY <1>1, <1>4, <1>6
<1>7. CASE ~(ts[head] < target)
  <2>1. head # 1 /\ head \in 2 .. Len(ts)
    BY <1>1, <1>2, <1>7
  <2>2. estimate \in 2 .. head
    <3>1. q.delay \div 1 \in Nat
      BY <1>1, DivisionIs
    <3> QED BY <2>1, <3>1 DEF Larger, Smaller
  <2> DEFINE Stopped(b) == ts[b] < target \/ b = 2 \/ b \in missing
             Near(i) == /\ f[i] \in 2 .. head
                        /\ Stopped(f[i]) \/ (steady /\ i = 0) \/ f[i] <= head - i * SafetyMargin
  <2>3. ASSUME NEW b \in 2 .. head
        PROVE  LET a == Backtrack(ts, missing, 1, target, 1, b)
               IN  /\ a \in 2 .. head /\ (Stopped(b) => Stopped(a)) /\ (steady => Stopped(a))
                   /\ Stopped(a) \/ a <= b - SafetyMargin
    <3> DEFINE over == ts[b] - target  a == Backtrack(ts, missing, 1, target, 1, b)
    <3>1. b \in 1 .. Len(ts) /\ ts[b] \in Nat /\ over \in Int
      BY <1>1, <1>2, <2>1
    <3>2. CASE b \in missing \/ over < 0
      <4>1. a = b /\ (b \in missing \/ ts[b] < target)
        BY <1>2, <3>1, <3>2 DEF Backtrack
      <4> QED BY <4>1
    <3>3. CASE ~(b \in missing) /\ over >= 0
      <4>1. Ceiling(over, 1) = over
        <5>1. over + 1 - 1 \in Nat /\ over + 1 - 1 = over
          BY <3>1, <3>3
        <5> HIDE DEF over
        <5>2. over \div 1 \in Nat /\ (over \div 1) * 1 <= over /\ over < (over \div 1) * 1 + 1
          BY <5>1, DivisionIs
        <5>3. over \div 1 = over
          BY <5>1, <5>2
        <5> QED BY <5>1, <5>3 DEF Ceiling
      <4>2. a = Larger(2, b - (over + SafetyMargin))
        BY <3>1, <3>3, <4>1 DEF Backtrack
      <4> HIDE DEF over
      <4>3. a \in 2 .. head /\ (a = 2 \/ a = b - (over + SafetyMargin))
        BY <1>1, <2>1, <3>1, <3>3, <4>2 DEF Larger
      <4> HIDE DEF a
      <4>4. ASSUME a # 2 PROVE a <= b - SafetyMargin /\ (steady => ts[a] < target)
        <5>1. a = b - (over + SafetyMargin) /\ a < b /\ a <= b - SafetyMargin
          BY <1>1, <3>1, <3>3, <4>3, <4>4
        <5>2. ASSUME steady PROVE ts[a] < target
          <6>1. a \in 1 .. head /\ b \in 1 .. head /\ a \in 1 .. Len(ts) /\ ts[a] \in Nat
            BY <1>1, <2>1, <4>3
          <6>2. ts[b] - ts[a] > (b - a) - SafetyMargin
            BY <5>1, <5>2, <6>1 DEF steady
          <6>3. (b - a) - SafetyMargin = over
            BY <1>1, <3>1, <5>1
          <6> QED BY <1>2, <3>1, <6>1, <6>2, <6>3 DEF over
        <5> QED BY <5>1, <5>2
      <4>5. Stopped(b) => Stopped(a)
        <5>1. ts[b] < target \/ b \in missing => FALSE
          BY <1>2, <3>1, <3>3 DEF over
        <5>2. b = 2 => a = 2
          BY <1>1, <3>1, <3>3, <4>3
        <5> QED BY <5>1, <5>2
      <4> QED BY <4>3, <4>4, <4>5 DEF a
    <3> QED BY <3>1, <3>2, <3>3
  <2> HIDE DEF Stopped
  <2>4. \A i \in 0 .. MaxIterations : Near(i)
    <3> DEFINE T == {i \in 0 .. MaxIterations : ~Near(i)}
    <3>1. SUFFICES ASSUME T # {} PROVE FALSE
      OBVIOUS
    <3>2. T \subseteq Nat
      OBVIOUS
    <3>3. PICK m \in T : \A n \in T : m <= n
      BY <3>1, <3>2, NatMin
    <3>4. m \in 0 .. MaxIterations /\ ~Near(m) /\ MaxIterations \in Nat
      BY DEF MaxIterations
    <3>5. m # 0
      <4>1. f[0] = estimate
        BY <1>5, <3>4
      <4>2. estimate <= head - 0 * SafetyMargin
        BY <1>1, <2>2
      <4> HIDE DEF estimate
      <4> QED BY <2>2, <3>4, <4>1, <4>2
    <3>6. m - 1 \in 0 .. MaxIterations /\ Near(m - 1)
      <4>1. m - 1 \in 0 .. MaxIterations /\ m - 1 < m
        BY <3>4, <3>5
      <4>2. m - 1 \notin T
        BY <3>3, <3>4, <4>1
      <4> QED BY <4>1, <4>2
    <3> DEFINE b == f[m - 1]  a == f[m]
    <3>7. a = Backtrack(ts, missing, 1, target, 1, b) /\ b \in 2 .. head
      BY <1>5, <3>4, <3>5, <3>6
    <3>8. /\ a \in 2 .. head /\ (Stopped(b) => Stopped(a)) /\ (steady => Stopped(a))
          /\ Stopped(a) \/ a <= b - SafetyMargin
      BY <2>3, <3>7
    <3>9. CASE Stopped(b) \/ steady
      BY <3>4, <3>8, <3>9
    <3>10. CASE ~Stopped(b) /\ ~steady
      <4>1. b <= head - (m - 1) * SafetyMargin
        BY <3>6, <3>10
      <4>2. (m - 1) * SafetyMargin + SafetyMargin = m * SafetyMargin /\ (m - 1) * SafetyMargin \in Nat
        <5>1. m \in Nat \ {0} /\ SafetyMargin \in Nat
          BY <1>1, <3>4, <3>5
        <5> QED BY <5>1, OneTimeLess
      <4>3. Stopped(a) \/ a <= head - m * SafetyMargin
        <5> DEFINE p == m * SafetyMargin  r == (m - 1) * SafetyMargin
        <5>1. /\ b <= head - r /\ r + SafetyMargin = p /\ r \in Nat /\ b \in Int /\ a \in Int
              /\ Stopped(a) \/ a <= b - SafetyMargin
          BY <3>7, <3>8, <4>1, <4>2
        <5>2. p \in Nat /\ SafetyMargin \in Nat /\ head \in Int
          BY <1>1, <5>1
        <5> HIDE DEF p, r, a, b
        <5>3. a <= b - SafetyMargin => a <= head - p
          BY <5>1, <5>2
        <5>4. Stopped(a) \/ a <= head - p
          BY <5>1, <5>3
        <5> QED BY <5>4 DEF a, p
      <4> QED BY <3>4, <3>8, <4>3
    <3> QED BY <3>9, <3>10
  <2> DEFINE last == f[MaxIterations]
  <2>5. last \in 2 .. head /\ (ts[last] < target \/ last = 2 \/ last \in missing)
    <3>1. MaxIterations = 10 /\ Near(10)
      BY <2>4 DEF MaxIterations
    <3>2. CASE Stopped(last)
      BY <3>1, <3>2 DEF Stopped
    <3>3. CASE ~Stopped(last)
      <4>1. last <= head - 10 * SafetyMargin /\ last \in 2 .. head
        BY <3>1, <3>3
      <4>2. steady => FALSE
        <5>1. Near(9) /\ f[10] = Backtrack(ts, missing, 1, target, 1, f[9])
          BY <1>5, <2>4 DEF MaxIterations
        <5>2. steady => Stopped(f[10])
          BY <2>3, <5>1
        <5> QED BY <3>1, <3>3, <5>2
      <4>3. head <= 2 + 10 * SafetyMargin
        BY <1>3, <4>2 DEF MaxIterations
      <4>4. last = 2
        BY <1>1, <4>1, <4>3
      <4> QED BY <4>1, <4>4
    <3> QED BY <3>2, <3>3
  <2> HIDE DEF last
  <2>6. last <= q.executedAt \/ last \in missing
    <3>1. CASE last = 2
      BY <1>1, <3>1
    <3>2. CASE ts[last] < target
      <4>1. SUFFICES ASSUME q.executedAt < last PROVE FALSE
        BY <1>1, <2>5
      <4>2. ts[q.executedAt] <= ts[last] /\ ts[last] \in Nat /\ ts[q.executedAt] \in Nat
        BY <1>1, <2>1, <2>5, <4>1
      <4> QED BY <1>1, <1>2, <3>2, <4>2
    <3>3. CASE last \in missing
      BY <3>3
    <3> QED BY <2>5, <3>1, <3>2, <3>3
  <2> QED BY <1>1, <1>4, <1>7, <2>1, <2>5, <2>6 DEF last
<1> QED BY <1>6, <1>7

\* A query that is answered each time is answered.
LEMMA AnsweredIsAnswer ==
  ASSUME NEW replies, replies = [i \in 1 .. MaxRetries + 1 |-> "answer"]
  PROVE  queryWithRetry(replies) = "answer"
<1> DEFINE ends == {i \in 1 .. MaxRetries + 1 : replies[i] = "answer" \/ isPermanentError(replies[i])}
<1>1. MaxRetries \in Nat
  BY SearchAssumption DEF SearchAssumption
<1>2. ends = 1 .. MaxRetries + 1
  BY <1>1
<1>3. 1 \in ends /\ ends \subseteq Nat
  BY <1>1, <1>2
<1>4. queryWithRetry(replies) = IF ends = {} THEN "throws" ELSE IF replies[Min(ends)] = "answer" THEN "answer" ELSE "throws"
  BY DEF queryWithRetry
<1> HIDE DEF ends
<1>5. Min(ends) \in 1 .. MaxRetries + 1
  BY <1>2, <1>3, MinIsLeast
<1> QED BY <1>3, <1>4, <1>5

\* The search for the execution of an operation finds it if the head has it, unless it
\* starts from a later block that was not given.
LEMMA ExecutionIsFound ==
  ASSUME NEW q, IsDelayQuestion(q), ~(q.delay > 0 /\ 1 \in q.missing),
         NEW found, found = findExecution(q.timestamp, q.missing, q.head, 1, q.delay, 1, q.executedAt, q.size)
  PROVE  IF q.executedAt > q.head THEN found = Undefined
         ELSE \/ found = q.executedAt
              \/ (\E b \in q.missing : q.delay > 0 /\ b > q.executedAt) /\ found = Undefined
<1> DEFINE executedAt == q.executedAt  head == q.head  size == q.size
           from    == IF q.delay > 0 THEN blockAfterDelay(q.timestamp, q.missing, head, 1, q.delay, 1) ELSE 1
           hint    == [startBlock |-> from, endBlock |-> Undefined, direction |-> "none"]
           replies == [i \in 1 .. MaxRetries + 1 |-> "answer"]
           failing == [chunk |-> 1, replies |-> replies]
           wanted  == {executedAt} \cap (from .. head)
<1>1. /\ DOMAIN q.timestamp = 1 .. Len(q.timestamp) /\ Len(q.timestamp) \in Nat
      /\ head \in 1 .. Len(q.timestamp) /\ executedAt \in 1 .. Len(q.timestamp) \ {1}
      /\ q.delay \in Nat /\ size \in Nat \ {0}
  <2>1. q.timestamp \in Seq(Nat) /\ DOMAIN q.timestamp = 1 .. Len(q.timestamp) /\ Len(q.timestamp) \in Nat
    BY DEF IsDelayQuestion
  <2> QED BY <2>1 DEF IsDelayQuestion
<1>2. /\ from \in 1 .. Len(q.timestamp)
      /\ executedAt <= head => from <= executedAt \/ (from \in q.missing /\ q.delay > 0)
  <2>1. CASE q.delay > 0
    BY <2>1, StartsEarly
  <2>2. CASE ~(q.delay > 0)
    BY <1>1, <2>2
  <2> QED BY <2>1, <2>2
<1>3. found = findCallExecutedEvent(hint, 1, head, {executedAt}, size, failing)
  <2>1. from # Throws
    BY <1>1, <1>2 DEF Throws
  <2>2. found = IF from = Throws THEN Throws ELSE findCallExecutedEvent(hint, 1, head, {executedAt}, size, failing)
    BY DEF findExecution
  <2> QED BY <2>1, <2>2
<1> HIDE DEF from
<1>4. getSearchDefaults(hint, 1, head) = [from |-> from, to |-> head, reverse |-> FALSE]
  <2>1. Given(from, 1) = from /\ Given(Undefined, head) = head
    BY <1>1, <1>2 DEF Given, Undefined
  <2>2. (hint.direction = "backward" \/ (hint.direction # "forward" /\ hint.startBlock = Undefined)) = FALSE
    BY <1>1, <1>2 DEF Undefined
  <2>3. hint.startBlock = from /\ hint.endBlock = Undefined
    OBVIOUS
  <2> HIDE DEF hint
  <2> QED BY <2>1, <2>2, <2>3 DEF getSearchDefaults
<1>5. queryWithRetry(failing.replies) = "answer"
  BY AnsweredIsAnswer
<1>6. failing.chunk \in Nat \ {0}
  OBVIOUS
<1> HIDE DEF hint, failing
<1>7. found = FirstIn([from |-> from, to |-> head, reverse |-> FALSE], {executedAt}, size, failing)
  BY <1>3, <1>4 DEF findCallExecutedEvent
<1>8. IsAnswer(found, wanted, FALSE, size, failing)
  <2>1. from \in Nat /\ head \in Nat /\ {executedAt} \subseteq Nat \ {0} /\ FALSE \in BOOLEAN
    BY <1>1, <1>2
  <2>2. IsAnswer(FirstIn([from |-> from, to |-> head, reverse |-> FALSE], {executedAt}, size, failing),
                 wanted, FALSE, size, failing)
    BY <1>1, <1>6, <2>1, SearchFinds
  <2> QED BY <1>7, <2>2
<1>9. found \in {Undefined} \cup wanted /\ (found = Undefined => wanted = {})
  BY <1>5, <1>8 DEF IsAnswer
<1>10. CASE executedAt > head
  <2>1. wanted = {}
    BY <1>1, <1>2, <1>10
  <2> QED BY <1>9, <1>10, <2>1
<1>11. CASE executedAt <= head /\ from <= executedAt
  <2>1. wanted = {executedAt}
    BY <1>1, <1>2, <1>11
  <2> QED BY <1>1, <1>9, <1>11, <2>1
<1>12. CASE executedAt <= head /\ ~(from <= executedAt)
  <2>1. from \in q.missing /\ q.delay > 0 /\ from > executedAt
    BY <1>1, <1>2, <1>12
  <2>2. wanted = {}
    BY <1>1, <1>2, <2>1
  <2> QED BY <1>1, <1>9, <1>12, <2>1, <2>2
<1> QED BY <1>1, <1>10, <1>11, <1>12

-----------------------------------------------------------------------------
(* Every search                                                            *)

\* A search finds what is in its range, and one whose start is computed starts early
\* enough, whatever the chain, the range and the size of the chunks; only a block that
\* was not given can hide an execution before it (SearchIsComplete).
THEOREM SearchingIsComplete ==
  ASSUME IsQuestion(question)
  PROVE  SearchIsComplete
<1>1. CASE question.about = "logs"
  BY <1>1, LogIsFound DEF IsQuestion, SearchIsComplete
<1>2. CASE question.about = "delay"
  <2> DEFINE q      == question
             found  == findExecution(q.timestamp, q.missing, q.head, 1, q.delay, 1, q.executedAt, q.size)
             hiding == {b \in q.missing : q.delay > 0 /\ b > q.executedAt}
  <2>1. IsDelayQuestion(q)
    BY <1>2 DEF IsQuestion
  <2>2. CASE q.delay > 0 /\ 1 \in q.missing
    <3>1. found = Throws
      BY <2>2 DEF findExecution, blockAfterDelay
    <3> HIDE DEF found
    <3>2. SearchIsComplete <=> found = Throws
      BY <1>2, <2>2 DEF SearchIsComplete, found
    <3> QED BY <3>1, <3>2
  <2>3. CASE ~(q.delay > 0 /\ 1 \in q.missing)
    <3>1. IF q.executedAt > q.head THEN found = Undefined
          ELSE found = q.executedAt \/ ((\E b \in q.missing : q.delay > 0 /\ b > q.executedAt) /\ found = Undefined)
      BY <2>1, <2>3, ExecutionIsFound
    <3> HIDE DEF found
    <3>2. IF q.executedAt > q.head THEN found = Undefined
          ELSE found = q.executedAt \/ (hiding # {} /\ found = Undefined)
      BY <3>1
    <3> HIDE DEF hiding
    <3> QED BY <1>2, <2>3, <3>2 DEF SearchIsComplete, found, hiding
  <2> QED BY <2>2, <2>3
<1>3. CASE question.about = "block"
  <2> DEFINE first == getFirstL2BlockForL1Block(question.l1Of, question.target, question.unread)
             from  == FirstFrom(question.l1Of, question.target)
  <2>1. IF from = Undefined THEN first \in {Undefined} \cup 1 .. Len(question.l1Of) + 1
        ELSE first \in 1 .. from /\ (question.unread = {} => first = from)
    BY <1>3, FirstBlockIsFound DEF IsQuestion
  <2> QED BY <1>3, <2>1 DEF SearchIsComplete
<1>4. CASE question.about \notin {"logs", "delay", "block"}
  BY <1>4 DEF SearchIsComplete
<1> QED BY <1>1, <1>2, <1>3, <1>4

=============================================================================
