------------------------------ MODULE CacheViews ------------------------------
(***************************************************************************)
(* What is computed of a whole cache: which keys hold checkpoints, what is *)
(* still to be tracked, the statistics (three programs count the same      *)
(* entries), the dashboard, the lists read from the bundled cache, and the *)
(* links from operations to the proposal or election they come from.       *)
(*                                                                         *)
(* A cache is a function on the keys that are in it.  A checkpoint is the  *)
(* one of Stages with what only these views look at: the group of its      *)
(* governor or timelock, the phase of an election and whether the member   *)
(* proposal is known, a stage of an election that has failed, the age of   *)
(* the first transaction, the nonce of a Security Council operation, and   *)
(* the two keys in the metadata, to the operation and from its source.     *)
(***************************************************************************)
EXTENDS StageViews, Sequences, FiniteSetsExt

CONSTANTS TransactionKeys,    \* "tx:" and a hash
          OperationKeys,      \* "tx:", a hash, ":op:" and an id
          ElectionOrder       \* "election:" and an index, as the cache lists them

NoKey        == "none"
WatermarkKey == "discovery:watermarks"
TxKeys       == TransactionKeys \cup OperationKeys
ElectionKeys == {ElectionOrder[i] : i \in DOMAIN ElectionOrder}

ASSUME KeysAssumption ==
  /\ ElectionOrder \in Seq(ElectionKeys)
  /\ TransactionKeys \cap OperationKeys = {} /\ TxKeys \cap ElectionKeys = {}
  /\ {NoKey, WatermarkKey} \cap (TxKeys \cup ElectionKeys) = {}

isTxKey(key)         == key \in TxKeys
isElectionKey(key)   == key \in ElectionKeys
isTimelockOpKey(key) == key \in OperationKeys
isDiscoveryKey(key)  == key = WatermarkKey

\* Groups of addresses; an entry made up on the error path has no address.
Groups == {"core", "treasury", "elections", "unknown"}

isElectionGovernor(group) == group = "elections"
isConstitutional(group)   == group = "core"

Entry(input, group) ==
  [input |-> input, group |-> group, stages |-> NoStages, errorCount |-> 0, anchor |-> "new",
   phase |-> "none", memberProposal |-> FALSE, failed |-> 0, nonce |-> 0,
   timelockOpKey |-> NoKey, sourceCheckpoint |-> NoKey]

Phases == {"none", "VETTING_PERIOD", "MEMBER_ELECTION", "COMPLETED"}

CacheEntry == [input : {"governor", "timelock", "election", "discovery"}, group : Groups \cup {"none"},
               stages : [StageType -> TrackedStage], errorCount : Nat, anchor : {"new", "old"},
               phase : Phases, memberProposal : BOOLEAN, failed : Nat, nonce : Nat,
               timelockOpKey : {NoKey} \cup OperationKeys, sourceCheckpoint : {NoKey} \cup TxKeys \cup ElectionKeys]

\* What a cache may hold.  The key tells the kinds of input apart but for transactions;
\* an operation has no stages of a governor and may name the proposal or election it comes from.
IsCache(cache) ==
  /\ IsFiniteSet(DOMAIN cache) /\ cache \in [DOMAIN cache -> CacheEntry]
  /\ \A k \in DOMAIN cache :
       /\ k \in TxKeys \cup ElectionKeys \cup {WatermarkKey}
       /\ k \in TxKeys <=> cache[k].input \in {"governor", "timelock"}
       /\ k \in ElectionKeys <=> cache[k].input = "election"
       /\ k \in OperationKeys => cache[k].input = "timelock"
       /\ isElectionGovernor(cache[k].group) => cache[k].input = "governor"
       /\ \A s \in StageType : cache[k].stages[s].link => cache[k].stages[s].status # "NOT_STARTED"
       /\ cache[k].input = "timelock" => Stored(cache[k].stages) \subseteq TimelockStages
       /\ cache[k].sourceCheckpoint # NoKey =>
            /\ cache[k].input = "timelock" /\ cache[k].sourceCheckpoint \in DOMAIN cache
            /\ cache[cache[k].sourceCheckpoint].input \in {"governor", "election"}

\* isCheckpointComplete, for the kinds of input Stages leaves out too.
isEntryComplete(cp) ==
  CASE cp.input = "election"                -> cp.phase = "COMPLETED"
    [] cp.input = "discovery"               -> FALSE
    [] cp.input \in {"governor", "timelock"} -> isCheckpointComplete(cp)

-----------------------------------------------------------------------------
(* Queries                                                                 *)

listCheckpointKeys(cache) == {k \in DOMAIN cache : isTxKey(k) \/ isElectionKey(k)}
getAllCheckpoints(cache)  == [k \in listCheckpointKeys(cache) |-> cache[k]]

\* The nonce of an operation its tracker has seen; 0 stands for null.
extractScNonce(cp) == IF cp.stages["L2_TIMELOCK"].status = "NOT_STARTED" THEN 0 ELSE cp.nonce

getHighestScNonce(nonces) == IF nonces = {} THEN 0 ELSE Max(nonces)

getHighestScNonceFromCheckpoints(cache) ==
  getHighestScNonce({extractScNonce(cache[k]) : k \in {l \in listCheckpointKeys(cache) : ~isEntryComplete(cache[l])}} \ {0})

isScOperationSuperseded(nonce, highest) == highest # 0 /\ nonce < highest

\* queryIncompleteCheckpoints.  maxAgeDays decides which anchors are old.
Incomplete(cache, maxErrorCount) ==
  LET keys    == listCheckpointKeys(cache)
      highest == getHighestScNonce({extractScNonce(cache[k]) : k \in keys} \ {0})
      linked(cp) == /\ cp.input = "governor"
                    /\ cp.timelockOpKey \in keys
                    /\ isEntryComplete(cache[cp.timelockOpKey])
  IN  {k \in keys : /\ ~isEntryComplete(cache[k])
                    /\ cache[k].stages["VOTING_ACTIVE"].status # "FAILED"
                    /\ ~isCheckpointErrored(cache[k], maxErrorCount)
                    /\ cache[k].anchor # "old"
                    /\ ~(extractScNonce(cache[k]) # 0 /\ isScOperationSuperseded(extractScNonce(cache[k]), highest))
                    /\ ~linked(cache[k])}

-----------------------------------------------------------------------------
(* Statistics                                                              *)

\* An entry that is complete is not counted as errored.
Counts(entries, maxErrorCount) ==
  LET complete(k) == isEntryComplete(entries[k])
      errored(k)  == ~complete(k) /\ isCheckpointErrored(entries[k], maxErrorCount)
      count(P(_)) == Cardinality({k \in DOMAIN entries : P(k)})
      active(k)   == ~complete(k) /\ ~errored(k)
  IN  [total |-> Cardinality(DOMAIN entries), complete |-> count(complete), errored |-> count(errored),
       active |-> count(active)]

Among(cache, P(_)) == [k \in {l \in DOMAIN cache : P(cache[l])} |-> cache[k]]

\* Mutant: proposals of the election governors are counted like any other.
computeCacheStatsAll(checkpoints, maxErrorCount) ==
  LET of(input) == LET P(cp) == cp.input = input IN Counts(Among(checkpoints, P), maxErrorCount)
  IN  [total |-> Cardinality(DOMAIN checkpoints), proposals |-> of("governor"), timelocks |-> of("timelock"),
       elections |-> [total |-> of("election").total, complete |-> of("election").complete]]

\* computeCacheStats, and getStats which calls it with all checkpoints.  The proposals
\* of the election governors are in the total but in none of the parts.
computeCacheStats(checkpoints, maxErrorCount) ==
  LET proposal(cp) == cp.input = "governor" /\ ~isElectionGovernor(cp.group)
      timelock(cp) == cp.input = "timelock"
      election(cp) == cp.input = "election"
      counted(P(_)) == Counts(Among(checkpoints, P), maxErrorCount)
  IN  [total     |-> Cardinality(DOMAIN checkpoints),
       proposals |-> counted(proposal),
       timelocks |-> counted(timelock),
       elections |-> [total |-> counted(election).total, complete |-> counted(election).complete]]

getStats(cache, maxErrorCount) == computeCacheStats(getAllCheckpoints(cache), maxErrorCount)

\* The targets of the command line; a checkpoint is shown under one of them.
Targets == {"constitutionalGovernor", "nonConstitutionalGovernor", "l2ConstitutionalTimelock",
            "l2NonConstitutionalTimelock", "electionNomineeGovernor", "electionMemberGovernor"}

checkpointMatchesTargets(cp, targets) ==
  CASE cp.input = "governor" ->
         /\ ~isElectionGovernor(cp.group)
         /\ (IF isConstitutional(cp.group) THEN "constitutionalGovernor" ELSE "nonConstitutionalGovernor") \in targets
    [] cp.input = "timelock" ->
         (IF isConstitutional(cp.group) THEN "l2ConstitutionalTimelock" ELSE "l2NonConstitutionalTimelock") \in targets
    [] cp.input = "election" -> targets \cap {"electionNomineeGovernor", "electionMemberGovernor"} # {}
    [] cp.input = "discovery" -> FALSE

filterCheckpointsByTargets(checkpoints, targets) ==
  LET P(cp) == checkpointMatchesTargets(cp, targets) IN Among(checkpoints, P)

calculateFilteredStats(checkpoints, targets, maxErrorCount) ==
  LET shown == computeCacheStats(filterCheckpointsByTargets(checkpoints, targets), maxErrorCount)
  IN  [shown EXCEPT !.total = shown.proposals.total + shown.timelocks.total + shown.elections.total]

\* checkpointToJsonEntry and electionCheckpointToJson.
JsonEntry(cp) ==
  LET list == StoredList(cp.stages)
  IN  [isComplete   |-> isEntryComplete(cp),
       currentStage |-> getCurrentStage(list),
       failed       |-> IF cp.input = "election" THEN cp.failed ELSE getTrackingStatusSummary(list).failed]

\* One entry of the dashboard is complete, failed or in progress, in this order.
buildDashboardState(checkpoints) ==
  LET shown       == {k \in DOMAIN checkpoints : checkpoints[k].input # "discovery"}
      complete    == {k \in shown : JsonEntry(checkpoints[k]).isComplete}
      failing(cp) == JsonEntry(cp).failed > 0 \/ isCheckpointErrored(cp, 5)
      failed      == {k \in shown \ complete : failing(checkpoints[k])}
  IN  [totalTracked |-> Cardinality(shown), complete |-> Cardinality(complete), failed |-> Cardinality(failed),
       inProgress |-> Cardinality(shown \ (complete \cup failed))]

\* The bundled cache.
extractProposals(cache) ==
  [k \in {l \in DOMAIN cache : /\ cache[l].input = "governor"
                               /\ ~(isElectionKey(l) \/ isTimelockOpKey(l) \/ isDiscoveryKey(l))} |->
     LET cp        == [stages |-> cache[k].stages, opKey |-> cache[k].timelockOpKey # NoKey]
         operation == IF cache[k].timelockOpKey \in DOMAIN cache THEN cache[cache[k].timelockOpKey]
                      ELSE [stages |-> NoStages]
     IN  ExtractedProposal(cp, operation)]

extractTimelockOps(cache) ==
  [k \in {l \in DOMAIN cache : cache[l].input = "timelock"} |->
     LET list == StoredList(cache[k].stages)
     IN  [stages |-> list, isComplete |-> DOMAIN list # {} /\ Complete(list)]]

extractElections(cache) ==
  [k \in {l \in DOMAIN cache : cache[l].input = "election"} |->
     [phase |-> cache[k].phase, isComplete |-> cache[k].phase = "COMPLETED"]]

getWatermarksFromCache(cache) == WatermarkKey \in DOMAIN cache

\* The status command reads the cache without a tracker.
readCacheStatus(cache) ==
  [watermarks  |-> getWatermarksFromCache(cache),
   checkpoints |-> [k \in {l \in DOMAIN cache : isTxKey(l)} |-> cache[k]],
   elections   |-> [k \in {l \in DOMAIN cache : isElectionKey(l)} |-> cache[k]]]

extractOperationIds(cache) ==
  {k \in DOMAIN cache : cache[k].input = "governor" /\ cache[k].stages["PROPOSAL_QUEUED"].link}

-----------------------------------------------------------------------------
(* De-duplication                                                          *)

isChildCheckpoint(cache, k) == k \in DOMAIN cache /\ cache[k].sourceCheckpoint # NoKey

filterChildCheckpoints(cache) == {k \in DOMAIN cache : ~isChildCheckpoint(cache, k)}

getChildToParentMap(cache) ==
  [k \in {l \in DOMAIN cache : isChildCheckpoint(cache, l)} |-> cache[k].sourceCheckpoint]

getChildCheckpoints(cache, parent) == {k \in DOMAIN cache : cache[k].sourceCheckpoint = parent}

getDeduplicationStats(cache) ==
  LET entries  == DOMAIN cache \ {WatermarkKey}
      children == {k \in entries : isChildCheckpoint(cache, k)}
      ofElections == {k \in children : isElectionKey(cache[k].sourceCheckpoint)}
  IN  [totalCheckpoints |-> Cardinality(entries), childCheckpoints |-> Cardinality(children),
       rootCheckpoints |-> Cardinality(entries) - Cardinality(children),
       fromElections |-> Cardinality(ofElections), fromProposals |-> Cardinality(children \ ofElections)]

linkCheckpointToChild(cache, child, parent) ==
  IF child \in DOMAIN cache THEN [cache EXCEPT ![child].sourceCheckpoint = parent] ELSE cache

\* The first election, in the order of the keys, that is completed; that of an
\* operation of the constitutional timelock only, whichever election it came from.
findPotentialParent(cp, cache) ==
  LET done == {i \in DOMAIN ElectionOrder :
                 LET k == ElectionOrder[i] IN k \in DOMAIN cache /\ cache[k].phase = "COMPLETED" /\ cache[k].memberProposal}
  IN  IF cp.input # "timelock" \/ ~isConstitutional(cp.group) \/ done = {} THEN NoKey ELSE ElectionOrder[Min(done)]

\* Mutant: operations that have a source are linked again.
orphansAll(cache) == {k \in DOMAIN cache : isTxKey(k) /\ cache[k].input = "timelock"}

orphans(cache) ==
  {k \in DOMAIN cache : isTxKey(k) /\ ~isChildCheckpoint(cache, k) /\ cache[k].input = "timelock"}

\* Each orphan is linked in an entry of its own, and no link changes an election.
autoLinkOrphanedCheckpoints(cache) ==
  [k \in DOMAIN cache |->
     LET parent == findPotentialParent(cache[k], cache)
     IN  IF k \in orphans(cache) /\ parent # NoKey THEN linkCheckpointToChild(cache, k, parent)[k] ELSE cache[k]]

=============================================================================
