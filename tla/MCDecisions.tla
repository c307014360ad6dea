----------------------------- MODULE MCDecisions -----------------------------
(***************************************************************************)
(* Small instances for TLC of Preparation and of the pure modules: a       *)
(* behaviour is that of one prepared item, or it is one question put to    *)
(* the views of a cache, to the search for an event, to the delegate index *)
(* or to the decoder, and stays with it.  The invariants compare each      *)
(* answer with what the question says the answer is.                       *)
(***************************************************************************)
EXTENDS Preparation, Questions, Delegates, Calldata

decisionVars == <<prepVars, question>>

-----------------------------------------------------------------------------
(* What is prepared                                                        *)

SmallCallLists     == {<<"call">>, <<"ticket">>, <<"call", "ticket">>}
SmallMessageCounts == {1, 2}
SmallTicketCounts  == {[arb1 |-> 1, nova |-> 0], [arb1 |-> 1, nova |-> 1], [arb1 |-> 0, nova |-> 2]}

-----------------------------------------------------------------------------
(* Caches                                                                  *)

SmallElectionOrder == <<"election:0", "election:1">>

Of(pairs) == [s \in StageType |-> IF s \in DOMAIN pairs THEN pairs[s] ELSE NotStarted]

\* The stages under a proposal's own key, as far as they have come.
ProposalStages ==
  LET created == [PROPOSAL_CREATED |-> Stage("COMPLETED")]
      voted(status) == created @@ [VOTING_ACTIVE |-> Stage(status)]
  IN  {NoStages, Of(voted("PENDING")), Of(voted("FAILED")), Of(voted("CANCELED") @@ [PROPOSAL_QUEUED |-> Stage("SKIPPED")]),
       Of(voted("COMPLETED") @@ [PROPOSAL_QUEUED |-> Stage("READY")]),
       Of(voted("COMPLETED") @@ [PROPOSAL_QUEUED |-> Linked("COMPLETED")])}

\* The stages under an operation's key.
OperationStages ==
  LET executed == [L2_TIMELOCK |-> Linked("COMPLETED")]
  IN  {NoStages, Of([L2_TIMELOCK |-> Stage("PENDING")]),
       Of(executed @@ [L2_TO_L1_MESSAGE |-> Stage("SKIPPED"), L1_TIMELOCK |-> Stage("SKIPPED"),
                       RETRYABLE_EXECUTED |-> Stage("SKIPPED")]),
       Of(executed @@ [L2_TO_L1_MESSAGE |-> Linked("COMPLETED"), L1_TIMELOCK |-> Linked("COMPLETED"),
                       RETRYABLE_EXECUTED |-> Stage("FAILED")])}

Watermarks == WatermarkKey :> Entry("discovery", "none")

\* Entries that age or fail while they are tracked.
Worn(entry) == {entry, [entry EXCEPT !.errorCount = 5], [entry EXCEPT !.anchor = "old"]}

Proposal(group, stages) ==
  [Entry("governor", group) EXCEPT !.stages = stages,
     !.timelockOpKey = IF stages["PROPOSAL_QUEUED"].link THEN "tx:a:op:1" ELSE NoKey]

Operation(group, stages, source) ==
  [Entry("timelock", group) EXCEPT !.stages = stages, !.sourceCheckpoint = source]

Election(phase, member, failed) ==
  [Entry("election", "none") EXCEPT !.phase = phase, !.memberProposal = member, !.failed = failed]

Elections == {Election("VETTING_PERIOD", FALSE, 0), Election("MEMBER_ELECTION", TRUE, 1), Election("COMPLETED", TRUE, 0)}

\* A proposal and its operation, next to an election whose proposal was left under
\* the key of its transaction; the error path leaves a proposal of no known group.
ProposalCaches ==
  UNION {{Watermarks @@ "tx:a" :> proposal @@ "election:0" :> e @@ "tx:c" :> Proposal("elections", p)
            @@ (IF proposal.timelockOpKey # NoKey THEN "tx:a:op:1" :> Operation("core", o, "tx:a") ELSE <<>>) :
              proposal \in Worn(Proposal(g, p))} :
            p \in ProposalStages, o \in OperationStages, g \in Groups \ {"elections"}, e \in Elections}

\* Two operations of the Security Council, the later of which replaces the earlier.
CouncilCaches ==
  UNION {{Watermarks @@ "tx:a:op:1" :> [first EXCEPT !.nonce = n1] @@ "tx:b:op:2" :> [second EXCEPT !.nonce = n2] :
            first \in Worn(Operation(g, o1, NoKey)), second \in Worn(Operation("core", o2, NoKey))} :
            o1, o2 \in OperationStages, n1, n2 \in 0 .. 2, g \in {"core", "treasury"}}

\* Operations that have been found on their own, or linked before, next to elections.
LinkedCaches ==
  {Watermarks @@ "tx:a" :> Proposal("core", NoStages) @@ "election:0" :> e0 @@ "election:1" :> e1
     @@ "tx:a:op:1" :> Operation(g, NoStages, s1) @@ "tx:b:op:2" :> Operation("core", NoStages, s2) :
     e0, e1 \in Elections, g \in {"core", "treasury"}, s1 \in {NoKey, "tx:a"}, s2 \in {NoKey, "election:1"}}

\* A cache that has nothing but an operation: no watermarks yet, and no parent.
BareCaches == {"tx:a:op:1" :> Operation("core", o, NoKey) : o \in OperationStages}

Caches == ProposalCaches \cup CouncilCaches \cup LinkedCaches \cup BareCaches

CacheQuestions == {[about |-> "cache", cache |-> cache] : cache \in Caches}

-----------------------------------------------------------------------------
(* Searches                                                                *)

Replies == {<<"answer", "answer">>, <<"transient", "answer">>, <<"transient", "transient">>, <<"permanent", "answer">>}

Hints == [startBlock : {Undefined, 2}, endBlock : {Undefined, 4}, direction : {"none", "forward", "backward"}]

Latest == 5

LogQuestions ==
  {[about |-> "logs", logs |-> logs, hint |-> hint, genesis |-> 1, head |-> Latest, size |-> size, of |-> of,
    failing |-> [chunk |-> chunk, replies |-> r]] :
     logs \in SUBSET (1 .. Latest), hint \in Hints, size \in 1 .. 3, chunk \in 1 .. 2, r \in Replies,
     of \in {"governor", "timelock"}}

\* Blocks come at once, on time, or late; one of them may not be given when it is read.
Timestamps == {[b \in 1 .. 6 |-> MapThenSumSet(LAMBDA i : gaps[i], 1 .. b - 1)] : gaps \in [1 .. 5 -> {0, 1, 3}]}

DelayQuestions ==
  {q \in [about : {"delay"}, timestamp : Timestamps, missing : {{}, {1}, {3}, {4}}, delay : {0, 2, 4}, head : 1 .. 6,
          executedAt : 2 .. 6, size : {1, 3}] :
     q.timestamp[q.executedAt] >= q.timestamp[1] + q.delay}

\* L1 blocks in which no L2 block was made, and reads that fail although there is one.
BlockQuestions ==
  {[about |-> "block", target |-> target, unread |-> unread,
    l1Of |-> [b \in 1 .. 5 |-> 2 + MapThenSumSet(LAMBDA i : steps[i], 1 .. b - 1)]] :
     steps \in [1 .. 4 -> 0 .. 3], target \in 1 .. 8, unread \in SUBSET (0 .. 2)}

\* What is asked here is among what the theorems speak of.
ASSUME AskedAreQuestions ==
  \A q \in CacheQuestions \cup LogQuestions \cup DelayQuestions \cup BlockQuestions : IsQuestion(q)

-----------------------------------------------------------------------------
(* Delegates                                                               *)

Changes == {NoChange, [delegate |-> "x", balance |-> 3]}
             \cup {[delegate |-> d, balance |-> b] : d \in {"a", "b"}, b \in 0 .. 2}

DelegateQuestions ==
  \E history \in [1 .. 4 -> Changes], first \in 1 .. 4, least \in 1 .. 2 :
     question = [about |-> "delegates", history |-> history, first |-> first, least |-> least]

\* The cache that is extended from a snapshot has what a cache built from genesis has,
\* and that is the last change of each delegate that is strong enough, strongest
\* first; the sizes the chunks take do not show.  Delegates of equal power may be
\* ranked differently.  Those who have not voted are found in the order of their
\* rank, up to the limit, and none whose vote could not be read is among them.
DelegatesAgree ==
  question.about = "delegates" =>
    LET history == question.history
        options == [force |-> FALSE, startBlock |-> 0, minVotingPower |-> question.least]
        early   == buildDelegateCache(history, question.first, <<>>, options).cache
        late    == buildDelegateCache(history, 4, early, options).cache[1]
        full    == buildDelegateCache(history, 4, early, [options EXCEPT !.force = TRUE]).cache[1]
        last(d) == LET own == {b \in 1 .. 4 : history[b].delegate = d} IN IF own = {} THEN 0 ELSE Max(own)
        strong  == {d \in {"a", "b"} : last(d) # 0 /\ history[last(d)].balance >= question.least}
        ranked(list) == \A i, j \in 1 .. Len(list) : i < j => list[i].votingPower >= list[j].votingPower
        absent  == queryDelegatesNotVoted(late.delegates, {"a"}, {}, [limit |-> 1, maxDelegatesToCheck |-> 2, batchSize |-> 1])
    IN  /\ Range(late.delegates) = Range(full.delegates)
        /\ Range(full.delegates) = {Info(history[last(d)], last(d)) : d \in strong}
        /\ ranked(late.delegates) /\ ranked(full.delegates)
        /\ Len(late.delegates) = Cardinality(strong)
        /\ late.totalVotingPower = full.totalVotingPower /\ late.startBlock = full.startBlock
        /\ absent = IF "b" \in strong THEN <<getDelegateRankInfo(late.delegates, "b")>> ELSE <<>>
        /\ queryDelegatesNotVoted(late.delegates, {}, {"b"}, [limit |-> 2, maxDelegatesToCheck |-> 1, batchSize |-> 2])
             = IF getDelegateRankInfo(late.delegates, "a") = 1 THEN <<1>> ELSE <<>>
        /\ Range(filterDelegatesByMinPower(full.delegates, 2)) \subseteq Range(full.delegates)

-----------------------------------------------------------------------------
(* Calldata                                                                *)

Leaves == {Leaf("perform"), Leaf("custom"), Leaf("empty")}
Calls  == Leaves \cup {Forward("execute", "action", l) : l \in Leaves}

\* What a batch holds: calls, each with its target, and retryable tickets.
Scheduled == {<<"x", c>> : c \in Calls} \cup {<<"y", l>> : l \in Leaves}
               \cup {<<RetryableMagic, TicketFor(chain, "executor", c)>> : chain \in {"arb1", "nova", "unknown"}, c \in Calls}

Batched == {ScheduleBatch(<<s[1]>>, <<s[2]>>) : s \in Scheduled}
             \cup {ScheduleBatch(<<s[1], t[1]>>, <<s[2], t[2]>>) : s, t \in Scheduled}

\* An action of a proposal: a batch for a timelock of either chain, a single operation,
\* or a batch that a further call hides one level down.
CalldataQuestions ==
  \E b \in Batched, s \in Scheduled, answered \in BOOLEAN :
  \E action \in {b, Forward("sendTxToL1", "timelock", b), Forward("execute", "proxy", Forward("sendTxToL1", "timelock", b)),
                 Forward("schedule", s[1], s[2])} :
     /\ action.fn # "schedule" => s = <<"y", Leaf("perform")>>
     /\ action.fn = "schedule" => b = ScheduleBatch(<<"y">>, <<Leaf("perform")>>)
     /\ question = [about |-> "calldata", action |-> action, answered |-> answered]

RECURSIVE DecodedCalls(_)
DecodedCalls(decoded) ==
  (IF decoded.signature = "none" THEN {} ELSE {[chain |-> decoded.chain, to |-> decoded.decodingTarget, input |-> decoded.raw]})
    \cup UNION {DecodedCalls(decoded.nested[i]) : i \in DOMAIN decoded.nested}

\* A batch whose calls are decoded without a gap.
Gapless(batch) == \A i \in DOMAIN batch.payloads : isLikelyCalldata(batch.payloads[i])

\* Every call that is shown in a decoded proposal is one it makes, at that address
\* and on that chain, however messages, batches and tickets are nested; and all of
\* them are shown down to MAX_DEPTH as long as signatures and inboxes are known, but for
\* a ticket that is scheduled without a batch.  What is simulated is made as well, with
\* two exceptions that the source does not intend: below a message to L1 the chain is
\* that of the caller, and in a batch with an empty payload the targets are shifted.
\* Every batch and ticket shown is simulated.
DecodingIsTrue ==
  question.about = "calldata" =>
    LET action  == question.action
        decoded == decodeCalldata(action, "a", 0, "arb1", question.answered)
        shown   == DecodedCalls(decoded)
        made    == CallsMade(action, "a", "arb1", MAX_DEPTH + 1)
        inReach == {c \in CallsMade(action, "a", "arb1", MAX_DEPTH) :
                      c.chain # "unknown" /\ c.input.fn \notin {"empty", "ticket"}}
        sims    == Range(extractAllSimulationsFromDecoded(decoded, "arb1"))
        is(s, c) == s.to = c.to /\ s.input = c.input /\ (s.chain = c.chain \/ (c.chain = "ethereum" /\ s.type # "retryable"))
        loneTicket == action.fn = "schedule" /\ action.targets[1] = RetryableMagic
        gapless == \A c \in made : c.input.fn = "scheduleBatch" => Gapless(c.input)
    IN  /\ shown \subseteq made
        /\ question.answered /\ ~loneTicket => shown = inReach
        /\ gapless => \A s \in sims : \E c \in made : is(s, c)
        /\ \A s \in sims : s.type # "call" => \E c \in made : is(s, c)
        /\ \A c \in shown : c.input.fn = "scheduleBatch" => \E s \in sims : s.type = "timelock" /\ is(s, c)
        /\ \A c \in shown : \A i \in DOMAIN c.input.payloads :
             LET ticket == c.input.payloads[i]
                 call   == [chain |-> ticket.inbox, to |-> ticket.targets[1], input |-> ticket.payloads[1]]
             IN  c.input.fn = "scheduleBatch" /\ c.input.targets[i] = RetryableMagic /\ call \in shown
                 => \E s \in sims : s.type = "retryable" /\ is(s, call)

-----------------------------------------------------------------------------

Asked == \/ question \in CacheQuestions \/ question \in LogQuestions
         \/ question \in DelayQuestions \/ question \in BlockQuestions
         \/ DelegateQuestions \/ CalldataQuestions

\* With a question there is nothing left to prepare.
Init == \/ PrepInit /\ question = NoQuestion
        \/ /\ item = [kind |-> "queue", state |-> "Queued", vetting |-> "over"]
           /\ user = [who |-> "cli", wants |-> "PENDING"] /\ stage = NoStage /\ results = <<>> /\ pc = "done" /\ feeMoves = 0
           /\ Asked

Next == PrepNext /\ UNCHANGED question

Spec == Init /\ [][Next]_decisionVars /\ PrepFairness

=============================================================================
