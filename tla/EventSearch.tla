----------------------------- MODULE EventSearch -----------------------------
(***************************************************************************)
(* How an event is found on a chain: a query that is retried, a search in  *)
(* chunks of blocks in one direction or the other, the range it is given,  *)
(* and the two ways a start is computed - the first L2 block of an L1      *)
(* block, and a block shortly before a delay ends.                         *)
(*                                                                         *)
(* Blocks are numbered from 1.  A chain is what is asked of it: the set of *)
(* blocks with a log that is wanted, the timestamps of its blocks, or the  *)
(* L1 block each L2 block was made in.                                     *)
(***************************************************************************)
EXTENDS Integers, Sequences, FiniteSetsExt

CONSTANTS MaxRetries,         \* RetryConfig.maxRetries
          NearbyAttempts,     \* NEARBY_L1_BLOCK_ATTEMPTS
          SafetyMargin        \* blocks blockAfterDelay goes back on top of the overshoot

ASSUME SearchAssumption == MaxRetries \in Nat /\ NearbyAttempts \in Nat \ {0} /\ SafetyMargin \in Nat \ {0}

Undefined == -1
Throws    == -2

-----------------------------------------------------------------------------
(* One query                                                               *)

isPermanentError(reply) == reply = "permanent"

\* What comes of a query whose attempts are answered one after the other: it ends
\* with the first answer or the first permanent error, or when retries run out.
queryWithRetry(replies) ==
  LET ends  == {i \in 1 .. MaxRetries + 1 : replies[i] = "answer" \/ isPermanentError(replies[i])}
  IN  IF ends = {} THEN "throws" ELSE IF replies[Min(ends)] = "answer" THEN "answer" ELSE "throws"

-----------------------------------------------------------------------------
(* A search in chunks                                                      *)

Ceiling(a, b) == (a + b - 1) \div b
Larger(a, b)  == IF a > b THEN a ELSE b
Smaller(a, b) == IF a < b THEN a ELSE b

\* Mutant: the chunks leave out the block at which one ends.
ChunksApart(from, to, size, reverse) ==
  [i \in 1 .. Ceiling(Larger(to - from + 1, 0), size) |->
     LET start == from + (i - 1) * size IN [start |-> start, end |-> Smaller(start + size - 2, to)]]

\* The ranges, in the order they are asked for; a size of zero never ends.
Chunks(from, to, size, reverse) ==
  [i \in 1 .. Ceiling(Larger(to - from + 1, 0), size) |->
     IF reverse
     THEN LET end == to - (i - 1) * size IN [start |-> Larger(end - size + 1, from), end |-> end]
     ELSE LET start == from + (i - 1) * size IN [start |-> start, end |-> Smaller(start + size - 1, to)]]

LogsIn(logs, chunk) == logs \cap (chunk.start .. chunk.end)

\* searchLogsInChunks.  A match ends it early; maxChunks of Undefined is no bound; the
\* query for chunk failing.chunk is answered as failing.replies says, the others at once.
searchLogsInChunks(logs, filter, options, failing) ==
  LET chunks   == Chunks(filter.from, filter.to, options.chunkSize, options.reverse)
      budget   == IF options.maxChunks = Undefined THEN Len(chunks) ELSE Smaller(options.maxChunks, Len(chunks))
      matching == {i \in 1 .. budget : options.earlyExit /\ LogsIn(logs, chunks[i]) # {}}
      last     == IF matching = {} THEN budget ELSE Min(matching)
      searched[i \in 0 .. last] ==
        IF i = 0 THEN 0 ELSE searched[i - 1] + (chunks[i].end - chunks[i].start + 1)
      broken   == failing.chunk <= last /\ queryWithRetry(failing.replies) = "throws"
  IN  IF broken THEN [throws |-> TRUE]
      ELSE [throws          |-> FALSE,
            logs            |-> UNION {LogsIn(logs, chunks[i]) : i \in 1 .. last},
            matchedLog      |-> IF matching = {} THEN Undefined ELSE Min(LogsIn(logs, chunks[last])),
            earlyExit       |-> matching # {},
            chunksProcessed |-> last,
            searchedBlocks  |-> searched[last]]

\* findLog and findAndParseEvent; an error and "not found" are told apart.
findLog(logs, filter, options, failing) ==
  LET result == searchLogsInChunks(logs, filter, [options EXCEPT !.earlyExit = TRUE], failing)
  IN  IF result.throws THEN Throws ELSE result.matchedLog

-----------------------------------------------------------------------------
(* Its range                                                               *)

Given(value, default) == IF value = Undefined THEN default ELSE value

\* A timelock's events: forward from a given start, else backward from the head.
getSearchDefaults(hint, genesis, head) ==
  [from |-> Given(hint.startBlock, genesis), to |-> Given(hint.endBlock, head),
   reverse |-> hint.direction = "backward" \/ (hint.direction # "forward" /\ hint.startBlock = Undefined)]

\* A governor's events: backward unless the hint says forward.
resolveSearchRange(hint, genesis, head) ==
  [from |-> Given(hint.startBlock, genesis), to |-> Given(hint.endBlock, head), reverse |-> hint.direction # "forward"]

FirstIn(range, logs, chunkSize, failing) ==
  findLog(logs, [from |-> range.from, to |-> range.to],
          [chunkSize |-> chunkSize, reverse |-> range.reverse, maxChunks |-> Undefined, earlyExit |-> TRUE], failing)

\* An operation's id is indexed: logs are those of the operation.
findCallExecutedEvent(hint, genesis, head, logs, chunkSize, failing) ==
  FirstIn(getSearchDefaults(hint, genesis, head), logs, chunkSize, failing)

\* A proposal's id is not: logs are those the predicate keeps.
findProposalQueuedEvent(hint, genesis, head, logs, chunkSize, failing) ==
  FirstIn(resolveSearchRange(hint, genesis, head), logs, chunkSize, failing)

\* queryProposalCreatedEvents: every log, without a match to stop at.
queryAllEvents(range, logs, chunkSize, failing) ==
  searchLogsInChunks(logs, [from |-> range.from, to |-> range.to],
    [chunkSize |-> chunkSize, reverse |-> FALSE, maxChunks |-> Undefined, earlyExit |-> FALSE], failing)

-----------------------------------------------------------------------------
(* Its start                                                               *)

\* l2BlockRangeForL1, which reverts if no L2 block was made in the L1 block.
RangeForL1(l1Of, l1Block) == {b \in DOMAIN l1Of : l1Of[b] = l1Block}

\* The SDK's binary search.
FirstFrom(l1Of, targetL1Block) ==
  LET later == {b \in DOMAIN l1Of : l1Of[b] >= targetL1Block} IN IF later = {} THEN Undefined ELSE Min(later)

\* getFirstL2BlockForL1Block: the block itself, then the L1 blocks before it, then
\* the search; the calls for the offsets in unread fail although there are blocks.
getFirstL2BlockForL1Block(l1Of, targetL1Block, unread) ==
  LET hits   == {o \in 0 .. NearbyAttempts - 1 : /\ targetL1Block - o > 0 /\ o \notin unread
                                                 /\ RangeForL1(l1Of, targetL1Block - o) # {}}
      offset == Min(hits)
      range  == RangeForL1(l1Of, targetL1Block - offset)
  IN  IF hits = {} THEN FirstFrom(l1Of, targetL1Block) ELSE IF offset = 0 THEN Min(range) ELSE Max(range) + 1

MaxIterations == 10

\* One round of blockAfterDelay: a block before the target is the result, and so is one
\* that is not given (missing); otherwise it goes back, at most to the block after the
\* start, where it stays.
Backtrack(timestamp, missing, startBlock, target, blockTime, block) ==
  LET overshoot == timestamp[block] - target
  IN  IF block \in missing \/ overshoot < 0 THEN block
      ELSE Larger(startBlock + 1, block - (Ceiling(overshoot, blockTime) + SafetyMargin))

\* head is the current block, which may have been read up to a minute ago.
blockAfterDelay(timestamp, missing, head, startBlock, delaySeconds, blockTime) ==
  LET target   == timestamp[startBlock] + delaySeconds
      estimate == Larger(Smaller(startBlock + delaySeconds \div blockTime, head), startBlock + 1)
      after[i \in 0 .. MaxIterations] ==
        IF i = 0 THEN estimate ELSE Backtrack(timestamp, missing, startBlock, target, blockTime, after[i - 1])
  IN  IF startBlock \in missing THEN Throws
      ELSE IF timestamp[head] < target THEN startBlock ELSE after[MaxIterations]

\* searchAndCompleteTimelockExecution for an operation scheduled in startBlock and
\* executed in executedAt: the transaction found, or none of it.
findExecution(timestamp, missing, head, startBlock, delaySeconds, blockTime, executedAt, chunkSize) ==
  LET from == IF delaySeconds > 0 THEN blockAfterDelay(timestamp, missing, head, startBlock, delaySeconds, blockTime)
              ELSE startBlock
      hint == [startBlock |-> from, endBlock |-> Undefined, direction |-> "none"]
  IN  IF from = Throws THEN Throws
      ELSE findCallExecutedEvent(hint, 1, head, {executedAt}, chunkSize,
                [chunk |-> 1, replies |-> [i \in 1 .. MaxRetries + 1 |-> "answer"]])

=============================================================================
