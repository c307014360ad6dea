------------------------------ MODULE Delegates ------------------------------
(***************************************************************************)
(* The delegate cache: the voting power of every delegate of the token, in *)
(* the order of its size, put together from the DelegateVotesChanged       *)
(* events of a range of blocks, from genesis or from the last snapshot on; *)
(* and which of the largest delegates have not voted on a proposal.        *)
(*                                                                         *)
(* A history is a sequence of blocks, each with the change of one delegate *)
(* or with none.  The map that is filled keeps the order of insertion, on  *)
(* which the sorting of equal powers depends, so it is a sequence.         *)
(***************************************************************************)
EXTENDS Integers, Sequences, SequencesExt, FiniteSetsExt

CONSTANTS ExcludedDelegates,  \* EXCLUDED_DELEGATE_ADDRESSES
          DefaultChunkSize, MinChunkSize,
          LogLimit            \* logs in one answer before the node refuses it

ASSUME DelegatesAssumption == /\ DefaultChunkSize \in Nat \ {0} /\ MinChunkSize \in 1 .. DefaultChunkSize
                              /\ LogLimit \in Nat

SuccessesBeforeGrow == 3

NoChange == [delegate |-> "none", balance |-> 0]

Info(change, block) == [address |-> change.delegate, votingPower |-> change.balance, lastChangeBlock |-> block]

\* Mutant: a delegate without power stays in the map.
applyKept(map, change, block) ==
  IF \E i \in 1 .. Len(map) : map[i].address = change.delegate
  THEN [i \in 1 .. Len(map) |-> IF map[i].address = change.delegate /\ change.balance # 0 THEN Info(change, block) ELSE map[i]]
  ELSE IF change.balance = 0 THEN map ELSE Append(map, Info(change, block))

\* One log of processLogs: a Map replaces a value in its place.
apply(map, change, block) ==
  LET others(info) == info.address # change.delegate
  IN  IF change.balance = 0 THEN SelectSeq(map, others)
      ELSE IF \E i \in 1 .. Len(map) : ~others(map[i])
      THEN [i \in 1 .. Len(map) |-> IF others(map[i]) THEN map[i] ELSE Info(change, block)]
      ELSE Append(map, Info(change, block))

LogBlocks(history, from, to) == {b \in from .. to : history[b] # NoChange}

processLogs(history, from, to, map) ==
  FoldLeft(LAMBDA m, b : apply(m, history[b], b), map, SetToSortSeq(LogBlocks(history, from, to), LAMBDA a, b : a < b))

isLogLimitError(history, from, to) == Cardinality(LogBlocks(history, from, to)) > LogLimit

\* scanAndProcessAdaptive from cursor on.  A range with too many logs is halved, down
\* to the least size, at which the scan throws; three answers in a row double it.
RECURSIVE scanAndProcessAdaptive(_, _, _, _, _, _)
scanAndProcessAdaptive(history, cursor, to, chunkSize, successes, map) ==
  LET end  == IF cursor + chunkSize - 1 < to THEN cursor + chunkSize - 1 ELSE to
      grow == successes + 1 >= SuccessesBeforeGrow /\ chunkSize < DefaultChunkSize
  IN  IF cursor > to THEN [throws |-> FALSE, map |-> map]
      ELSE IF isLogLimitError(history, cursor, end)
      THEN IF chunkSize > MinChunkSize
           THEN scanAndProcessAdaptive(history, cursor, to, Max({chunkSize \div 2, MinChunkSize}), 0, map)
           ELSE [throws |-> TRUE]
      ELSE scanAndProcessAdaptive(history, end + 1, to, IF grow THEN Min({chunkSize * 2, DefaultChunkSize}) ELSE chunkSize,
             IF grow THEN 0 ELSE successes + 1, processLogs(history, cursor, end, map))

\* Array.sort: by descending power, equal ones in the order of the map.
Position(map, i) ==
  Cardinality({j \in 1 .. Len(map) : \/ map[j].votingPower > map[i].votingPower
                                     \/ map[j].votingPower = map[i].votingPower /\ j <= i})

Sorted(map) == [r \in 1 .. Len(map) |-> map[CHOOSE i \in 1 .. Len(map) : Position(map, i) = r]]

\* buildDelegateCache at block snapshotBlock.  existing is a cache or the empty
\* sequence; an explicit start, here 0 if there is none, is not an increment.
buildDelegateCache(history, snapshotBlock, existing, options) ==
  LET incremental == ~options.force /\ existing # <<>> /\ options.startBlock = 0
      from  == IF options.startBlock # 0 THEN options.startBlock
               ELSE IF incremental THEN existing[1].snapshotBlock + 1 ELSE 1
      scan  == scanAndProcessAdaptive(history, from, snapshotBlock, DefaultChunkSize, 0,
                 IF incremental THEN existing[1].delegates ELSE <<>>)
      kept(info) == info.address \notin ExcludedDelegates /\ info.votingPower >= options.minVotingPower
      list  == Sorted(SelectSeq(scan.map, kept))
  IN  IF from > snapshotBlock THEN [throws |-> FALSE, cache |-> existing]
      ELSE IF scan.throws THEN [throws |-> TRUE, cache |-> <<>>]
      ELSE [throws |-> FALSE,
            cache  |-> <<[snapshotBlock |-> snapshotBlock, delegates |-> list,
                          startBlock |-> IF options.force \/ existing = <<>> THEN from ELSE existing[1].startBlock,
                          totalVotingPower |-> FoldLeft(LAMBDA sum, d : sum + d.votingPower, 0, list)]>>]

-----------------------------------------------------------------------------
(* Queries                                                                 *)

getTopDelegates(list, limit) == SubSeq(list, 1, Min({limit, Len(list)}))

getDelegateRankInfo(list, address) ==
  LET found == {i \in 1 .. Len(list) : list[i].address = address} IN IF found = {} THEN 0 ELSE Max(found)

filterDelegatesByMinPower(list, power) == LET strong(d) == d.votingPower >= power IN SelectSeq(list, strong)

\* multicall without requireSuccess: a call that fails is undefined.
hasVoted(voted, unread, address) == IF address \in unread THEN "undefined" ELSE IF address \in voted THEN "true" ELSE "false"

\* queryDelegatesNotVoted: whole batches are read, and none after the limit is reached.
RECURSIVE NotVoted(_, _, _, _, _, _)
NotVoted(top, i, limit, batchSize, answers, result) ==
  LET batch  == {j \in i .. Min({i + batchSize - 1, Len(top)}) : answers[top[j].address] = "false"}
      found  == [k \in 1 .. Cardinality(batch) |-> CHOOSE j \in batch : Cardinality({l \in batch : l <= j}) = k]
  IN  IF i > Len(top) \/ Len(result) >= limit THEN result
      ELSE NotVoted(top, i + batchSize, limit, batchSize, answers, SubSeq(result \o found, 1, Min({limit, Len(result \o found)})))

queryDelegatesNotVoted(list, voted, unread, options) ==
  IF options.batchSize < 1 \/ options.maxDelegatesToCheck < 1 \/ options.limit < 1 THEN <<>>
  ELSE LET top == getTopDelegates(list, options.maxDelegatesToCheck)
       IN  NotVoted(top, 1, options.limit, options.batchSize,
                    [a \in {top[j].address : j \in 1 .. Len(top)} |-> hasVoted(voted, unread, a)], <<>>)

=============================================================================
