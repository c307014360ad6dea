------------------------------ MODULE Questions ------------------------------
(***************************************************************************)
(* What the answers of the pure parts have to be: the question is a cache  *)
(* that is looked at in many ways, or a search on a chain, and it stays.   *)
(***************************************************************************)
EXTENDS CacheViews, EventSearch

VARIABLE question

NoQuestion == [about |-> "none"]

\* What may be asked: of any cache; for any logs, in any range and any chunks, with any
\* answers to a query; for an L1 block of a chain made in order.
IsLogQuestion(q) ==
  /\ q.logs \subseteq Nat \ {0} /\ q.size \in Nat \ {0} /\ q.genesis \in Nat /\ q.head \in Nat
  /\ q.hint.startBlock \in {Undefined} \cup Nat /\ q.hint.endBlock \in {Undefined} \cup Nat
  /\ q.failing.chunk \in Nat \ {0}

IsBlockQuestion(q) ==
  /\ q.l1Of \in Seq(Nat) /\ \A b, c \in DOMAIN q.l1Of : b <= c => q.l1Of[b] <= q.l1Of[c]
  /\ q.target \in Nat

\* For an execution after its delay.  The rounds of blockAfterDelay go back far enough
\* if they reach the start, or if blocks are nowhere made much faster than the block
\* time says; on a long chain that is faster than that, they may stop too late.
IsDelayQuestion(q) ==
  /\ q.timestamp \in Seq(Nat)
  /\ \A b, c \in DOMAIN q.timestamp : b <= c => q.timestamp[b] <= q.timestamp[c]
  /\ q.delay \in Nat /\ q.size \in Nat \ {0}
  /\ q.head \in DOMAIN q.timestamp /\ q.missing \subseteq DOMAIN q.timestamp
  /\ q.executedAt \in DOMAIN q.timestamp \ {1} /\ q.timestamp[q.executedAt] >= q.timestamp[1] + q.delay
  /\ \/ q.head <= 2 + MaxIterations * SafetyMargin
     \/ \A b, c \in 1 .. q.head : b < c => q.timestamp[c] - q.timestamp[b] > (c - b) - SafetyMargin

IsQuestion(q) ==
  /\ q.about = "cache" => IsCache(q.cache)
  /\ q.about = "logs"  => IsLogQuestion(q)
  /\ q.about = "delay" => IsDelayQuestion(q)
  /\ q.about = "block" => IsBlockQuestion(q)

-----------------------------------------------------------------------------
(* Caches                                                                  *)

\* Three programs count the same cache: getStats, the monitor's summary and the
\* dashboard agree on every part.  They differ only in the total, where getStats has
\* the proposals of the election governors, and in the dashboard, which counts a
\* failed stage as a failure.  What is queried is counted as active, an operation
\* that is superseded is not queried, and the lists read from the cache have what is
\* counted.
CountsAgree ==
  question.about = "cache" =>
    LET cache   == question.cache
        stats   == getStats(cache, 5)
        shown   == filterCheckpointsByTargets(getAllCheckpoints(cache), Targets)
        summary == calculateFilteredStats(getAllCheckpoints(cache), Targets, 5)
        board   == buildDashboardState(shown)
        queried == Incomplete(cache, 5)
        read    == readCacheStatus(cache)
        highest == getHighestScNonceFromCheckpoints(cache)
        done(list) == Cardinality({k \in DOMAIN list : list[k].isComplete})
        parts(s)   == <<s.proposals, s.timelocks, s.elections>>
    IN  /\ parts(stats) = parts(summary)
        /\ stats.total - summary.total = Cardinality({k \in DOMAIN cache : isElectionGovernor(cache[k].group)})
        /\ \A t \in SUBSET {"constitutionalGovernor", "nonConstitutionalGovernor"} :
             calculateFilteredStats(cache, t, 5).proposals.total <= summary.proposals.total
        /\ board.totalTracked = summary.total
        /\ Cardinality(DOMAIN read.elections) = stats.elections.total
        /\ Cardinality(DOMAIN read.checkpoints) = stats.total - stats.elections.total
        /\ board.complete = summary.proposals.complete + summary.timelocks.complete + summary.elections.complete
        /\ board.failed >= summary.proposals.errored + summary.timelocks.errored
        /\ board.complete + board.failed + board.inProgress = board.totalTracked
        /\ \A k \in queried : ~JsonEntry(cache[k]).isComplete /\ ~isCheckpointErrored(cache[k], 5)
        /\ \A k \in queried : extractScNonce(cache[k]) # 0 => extractScNonce(cache[k]) >= highest
        /\ done(extractTimelockOps(cache)) = stats.timelocks.complete
        /\ done(extractElections(cache)) = stats.elections.complete
        /\ Cardinality(DOMAIN extractProposals(cache)) = stats.proposals.total
             + Cardinality({k \in DOMAIN cache : cache[k].input = "governor" /\ isElectionGovernor(cache[k].group)})
        /\ extractOperationIds(cache) = {k \in DOMAIN extractProposals(cache) : extractProposals(cache)[k].operationId}
        /\ read.watermarks = getWatermarksFromCache(cache) /\ WatermarkKey \notin DOMAIN shown

\* Linking orphaned operations changes nothing but their own source, makes no child
\* of a child, and has nothing left to do afterwards; the roots that are listed and
\* the children found through their parents are then the whole cache, each once.
LinksAreWhole ==
  question.about = "cache" =>
    LET cache    == question.cache
        linked   == autoLinkOrphanedCheckpoints(cache)
        children == DOMAIN getChildToParentMap(linked)
        stats    == getDeduplicationStats(linked)
    IN  /\ \A k \in DOMAIN cache :
             linked[k] # cache[k] => /\ cache[k].input = "timelock" /\ cache[k].sourceCheckpoint = NoKey
                                     /\ linked[k] = [cache[k] EXCEPT !.sourceCheckpoint = linked[k].sourceCheckpoint]
        /\ autoLinkOrphanedCheckpoints(linked) = linked
        /\ \A k \in children : getChildToParentMap(linked)[k] \in filterChildCheckpoints(linked)
        /\ children = UNION {getChildCheckpoints(linked, p) : p \in filterChildCheckpoints(linked)}
        /\ filterChildCheckpoints(linked) = DOMAIN linked \ children
        /\ stats.rootCheckpoints = Cardinality(filterChildCheckpoints(linked) \ {WatermarkKey})
        /\ stats.fromElections + stats.fromProposals = stats.childCheckpoints

-----------------------------------------------------------------------------
(* Searches                                                                *)

FoundIn(q) ==
  LET range  == IF q.of = "timelock" THEN getSearchDefaults(q.hint, q.genesis, q.head) ELSE resolveSearchRange(q.hint, q.genesis, q.head)
      wanted == q.logs \cap (range.from .. range.to)
      found  == IF q.of = "timelock" THEN findCallExecutedEvent(q.hint, q.genesis, q.head, q.logs, q.size, q.failing)
                ELSE findProposalQueuedEvent(q.hint, q.genesis, q.head, q.logs, q.size, q.failing)
      all    == queryAllEvents(range, q.logs, q.size, q.failing)
      fails  == queryWithRetry(q.failing.replies) = "throws"
  IN  /\ found = Throws => fails
      /\ found = Undefined => wanted = {}
      /\ found > 0 =>
           /\ found \in wanted
           /\ IF range.reverse THEN Max(wanted) - found < q.size ELSE found = Min(wanted)
      /\ ~fails => /\ ~all.throws /\ all.logs = wanted
                   /\ all.searchedBlocks = Larger(range.to - range.from + 1, 0)
      /\ all.throws => fails

\* An event that is in the range of a search is found: in either direction, whatever
\* the size of the chunks, it is the only one, the first, or one of the last chunk
\* that has any; a query that fails is never taken for "not there".  A search that
\* starts where a delay ends, or at the first L2 block of an L1 block, starts early
\* enough although blocks come irregularly.  An execution that is not found is one
\* that the head, which is a minute old at most, does not have yet, or one that is
\* hidden by a later block the node did not give: blockAfterDelay then starts from
\* its estimate, unverified, which may be after the execution.
SearchIsComplete ==
  CASE question.about = "logs"  -> FoundIn(question)
    [] question.about = "delay" ->
         LET found  == findExecution(question.timestamp, question.missing, question.head, 1, question.delay, 1,
                                     question.executedAt, question.size)
             hiding == {b \in question.missing : question.delay > 0 /\ b > question.executedAt}
         IN  IF question.delay > 0 /\ 1 \in question.missing THEN found = Throws
             ELSE IF question.executedAt > question.head THEN found = Undefined
             ELSE found = question.executedAt \/ (hiding # {} /\ found = Undefined)
    [] question.about = "block" ->
         LET first == getFirstL2BlockForL1Block(question.l1Of, question.target, question.unread)
             from  == FirstFrom(question.l1Of, question.target)
         IN  IF from = Undefined THEN first \in {Undefined} \cup 1 .. Len(question.l1Of) + 1
             ELSE first \in 1 .. from /\ (question.unread = {} => first = from)
    [] OTHER -> TRUE

=============================================================================
