------------------------------ MODULE Discovery ------------------------------
(***************************************************************************)
(* Incremental discovery: ProposalStageTracker.discoverAll and the         *)
(* functions of tracker/discovery.ts below it, against an L2 chain that    *)
(* grows and reorganises.                                                  *)
(*                                                                         *)
(* For every target (a governor or a timelock) the cache holds a           *)
(* watermark, the block up to which the target has been scanned, and the   *)
(* hash that block had.  A call verifies the watermarks of its targets,    *)
(* scans what lies above them, reads the hash of the last block, writes a  *)
(* pending checkpoint for each new proposal and then replaces the          *)
(* watermarks.  Whatever lies below a watermark is never scanned again.    *)
(*                                                                         *)
(* Block 0 stands for the deployment block a target without a watermark    *)
(* is scanned from, and Rollback for REORG_ROLLBACK_BLOCKS.  A block's     *)
(* hash is its height and the epoch, the number of reorgs before it was    *)
(* mined, which no other block shares.                                     *)
(***************************************************************************)
EXTENDS Integers, Sequences

CONSTANTS Keys,            \* DiscoveryKey: the targets there are, governors and timelocks
          Governors,       \* the ones whose events get a pending checkpoint
          MaxHeight,       \* bound on the length of the chain
          MaxReorgs,       \* bound on reorgs
          MaxDepth,        \* blocks deeper than this are final
          Rollback,        \* REORG_ROLLBACK_BLOCKS
          MaxFailedReads,  \* bound on block reads that still fail after the retries
          MaxFaults,       \* bound on calls that throw or die with the process
          Together,        \* BOOLEAN: may both reorgs and failed reads occur?
          SingleBlocks     \* BOOLEAN: may a scan be left with one new block?

ASSUME TargetsAssumption == Governors \subseteq Keys
ASSUME BoundsAssumption  == /\ {MaxHeight, MaxReorgs, MaxFailedReads, MaxFaults} \subseteq Nat
                            /\ {MaxDepth, Rollback} \subseteq Nat
                            /\ {Together, SingleBlocks} \subseteq BOOLEAN
ASSUME DepthAssumption   == MaxDepth <= Rollback

VARIABLES chain,           \* the L2 blocks, as every provider has them
          epoch,           \* reorgs so far
          top,             \* the greatest height the chain ever had
          watermarks,      \* discovery:watermarks in the cache, block numbers ...
          hashes,          \* ... and block hashes
          pending,         \* the targets whose event has a checkpoint
          call,            \* the call of discoverAll in flight
          failedReads, faults

chainVars == <<chain, epoch, top>>
cacheVars == <<watermarks, hashes, pending>>
vars      == <<chainVars, cacheVars, call, failedReads, faults>>

Partial(S) == UNION {[K -> S] : K \in SUBSET Keys}

\* A governor creates at most one proposal; a block holds the events of some of them.
\* Timelock operations and election proposals, which get no pending checkpoint, are
\* left out of the blocks: their targets are scanned, and hold watermarks, like any.
Block  == [epoch : 0 .. MaxReorgs, events : SUBSET Governors]
Hash   == [height : 1 .. MaxHeight, epoch : 0 .. MaxReorgs]
Height == 0 .. MaxHeight

Call == [pc      : {"idle", "verify", "scan", "hash", "save"},
         targets : SUBSET Keys,
         toBlock : Height,
         start   : Partial(Height),   \* verifiedWatermarks
         scanned : SUBSET Keys,
         found   : SUBSET Governors,  \* allProposals
         hashes  : Partial(Hash)]     \* updatedHashes, newHashes

NoEntries == [k \in {} |-> 0]

IdleCall == [pc |-> "idle", targets |-> {}, toBlock |-> 0, start |-> NoEntries,
             scanned |-> {}, found |-> {}, hashes |-> NoEntries]

TypeOK ==
  /\ chain \in Seq(Block) /\ top \in Height /\ Len(chain) <= top
  /\ epoch \in 0 .. MaxReorgs
  /\ watermarks \in Partial(Height) /\ hashes \in Partial(Hash)
  /\ pending \subseteq Governors
  /\ call \in Call
  /\ failedReads \in 0 .. MaxFailedReads /\ faults \in 0 .. MaxFaults

Init ==
  /\ chain = <<>> /\ epoch = 0 /\ top = 0
  /\ watermarks = NoEntries /\ hashes = NoEntries /\ pending = {}
  /\ call = IdleCall
  /\ failedReads = 0 /\ faults = 0

-----------------------------------------------------------------------------
(* The chain.                                                              *)

Mined(blocks) == UNION {blocks[i].events : i \in DOMAIN blocks}

HashAt(h) == [height |-> h, epoch |-> chain[h].epoch]

Larger(a, b) == IF a < b THEN b ELSE a

Mine ==
  /\ Len(chain) < MaxHeight
  /\ \E events \in SUBSET (Governors \ Mined(chain)) :
       chain' = Append(chain, [epoch |-> epoch, events |-> events])
  /\ top' = Larger(top, Len(chain) + 1)
  /\ UNCHANGED <<epoch, cacheVars, call, failedReads, faults>>

\* Blocks that are not final are dropped; their transactions may be mined again.
\* Between two calls only: a reorg in the middle of one is outside the model.
Reorg ==
  /\ epoch < MaxReorgs /\ (Together \/ failedReads = 0)
  /\ call.pc = "idle"
  /\ \E h \in 0 .. Len(chain) - 1 :
       /\ top <= h + MaxDepth
       /\ chain' = SubSeq(chain, 1, h)
  /\ epoch' = epoch + 1
  /\ UNCHANGED <<top, cacheVars, call, failedReads, faults>>

-----------------------------------------------------------------------------
(* A call of discoverAll.                                                  *)

Has(entries, k) == k \in DOMAIN entries

\* spread of an object and one more entry for each of some keys
Merged(entries, ks, value) ==
  [k \in DOMAIN entries \cup ks |-> IF k \in ks THEN value ELSE entries[k]]

\* Mutant: the block number is not kept from going below the first block.
RolledBackTooFar(h) == h - Rollback

RolledBack(h) == IF h <= Rollback THEN 0 ELSE h - Rollback

\* The block of a watermark is there, and its hash is the stored one if one is stored.
Confirmed(k) ==
  /\ Has(watermarks, k) /\ watermarks[k] \in DOMAIN chain
  /\ Has(hashes, k) => hashes[k] = HashAt(watermarks[k])

\* Mutant: a mismatch does not roll the watermark back.
ResumeAtWatermark(k) == IF Has(watermarks, k) THEN watermarks[k] ELSE 0

\* The block a scan resumes above, as verifyWatermark has it when its read succeeds.
ResumeFrom(k) ==
  IF ~Has(watermarks, k) THEN 0
  ELSE IF Confirmed(k) \/ ~Has(hashes, k) THEN watermarks[k] ELSE RolledBack(watermarks[k])

ReadMayFail == failedReads < MaxFailedReads /\ (Together \/ epoch = 0)

\* The blocks a scan may resume above: if the read fails, the stored watermark.
MayResumeFrom(k) ==
  {ResumeFrom(k)} \cup (IF Has(watermarks, k) /\ ReadMayFail THEN {watermarks[k]} ELSE {})

\* loadWatermarks, and the options of one call: its targets and its last block.
discoverAll(targets, toBlock) ==
  /\ call.pc = "idle"
  /\ SingleBlocks \/ \A k \in targets : toBlock - 1 \notin MayResumeFrom(k)
  /\ call' = [IdleCall EXCEPT !.pc = "verify", !.targets = targets, !.toBlock = toBlock,
                              !.hashes = hashes]
  /\ UNCHANGED <<chainVars, cacheVars, failedReads, faults>>

\* One target's start block is settled, and the hash of that block if confirmed is {k}.
Verified(k, block, confirmed) ==
  LET start == Merged(call.start, {k}, block) IN
  call' = [call EXCEPT
             !.start  = start,
             !.hashes = IF confirmed = {} THEN @ ELSE Merged(@, confirmed, HashAt(block)),
             !.pc     = IF DOMAIN start = call.targets THEN "scan" ELSE "verify"]

\* The targets are verified in parallel.  The block is read if there is a watermark:
\* with no stored hash its hash is established, else the two are compared.
verifyWatermark(k) ==
  /\ call.pc = "verify" /\ k \in call.targets \ DOMAIN call.start
  /\ Verified(k, ResumeFrom(k), IF Confirmed(k) THEN {k} ELSE {})
  /\ UNCHANGED <<chainVars, cacheVars, failedReads, faults>>

\* "be conservative and continue with stored watermark"
verifyWatermarkFails(k) ==
  /\ call.pc = "verify" /\ k \in call.targets \ DOMAIN call.start
  /\ Has(watermarks, k)
  /\ ReadMayFail
  /\ Verified(k, watermarks[k], {})
  /\ failedReads' = failedReads + 1
  /\ UNCHANGED <<chainVars, cacheVars, faults>>

\* discoverProposals is called with fromBlock = start + 1, and the function it calls
\* returns no events unless fromBlock < toBlock.
ScannedBlocks(start, toBlock) ==
  IF start + 1 >= toBlock THEN {} ELSE {i \in DOMAIN chain : start < i /\ i <= toBlock}

\* One target's blocks are searched; the searches run in parallel.
scan(k) ==
  /\ call.pc = "scan" /\ k \in call.targets \ call.scanned
  /\ LET scanned == call.scanned \cup {k}
         emitted == \E i \in ScannedBlocks(call.start[k], call.toBlock) : k \in chain[i].events
     IN  call' = [call EXCEPT !.scanned = scanned,
                              !.found   = IF emitted THEN @ \cup {k} ELSE @,
                              !.pc      = IF scanned = call.targets THEN "hash" ELSE "scan"]
  /\ UNCHANGED <<chainVars, cacheVars, failedReads, faults>>

\* The hash of toBlock becomes the hash of every target of the call.
readToBlockHash ==
  /\ call.pc = "hash"
  /\ call' = [call EXCEPT
                !.pc     = "save",
                !.hashes = IF call.toBlock \in DOMAIN chain
                           THEN Merged(@, call.targets, HashAt(call.toBlock)) ELSE @]
  /\ UNCHANGED <<chainVars, cacheVars, failedReads, faults>>

\* If it cannot be read, the hashes stay as they were.
readToBlockHashFails ==
  /\ call.pc = "hash"
  /\ ReadMayFail
  /\ call' = [call EXCEPT !.pc = "save"]
  /\ failedReads' = failedReads + 1
  /\ UNCHANGED <<chainVars, cacheVars, faults>>

\* A proposal gets a checkpoint unless it has one.  The writes are parallel.
ToCreate == call.found \ pending

createPendingCheckpoint(k) ==
  /\ call.pc = "save" /\ k \in ToCreate
  /\ pending' = pending \cup {k}
  /\ UNCHANGED <<chainVars, watermarks, hashes, call, failedReads, faults>>

\* Mutant: the watermarks are saved without waiting for the checkpoints.
saveWatermarksEarly ==
  /\ call.pc = "save"
  /\ watermarks' = Merged(call.start, call.targets, call.toBlock)
  /\ hashes' = call.hashes
  /\ call' = IdleCall
  /\ UNCHANGED <<chainVars, pending, failedReads, faults>>

\* The watermarks of the call's targets replace all that were stored.
saveWatermarks ==
  /\ call.pc = "save" /\ ToCreate = {}
  /\ watermarks' = Merged(call.start, call.targets, call.toBlock)
  /\ hashes' = call.hashes
  /\ call' = IdleCall
  /\ UNCHANGED <<chainVars, pending, failedReads, faults>>

\* A failed log search rejects the whole call, and the process may die at any point.
Abort ==
  /\ call.pc # "idle"
  /\ faults < MaxFaults
  /\ call' = IdleCall
  /\ faults' = faults + 1
  /\ UNCHANGED <<chainVars, cacheVars, failedReads>>

Continue ==
  \/ \E k \in Keys : verifyWatermark(k) \/ scan(k) \/ createPendingCheckpoint(k)
  \/ readToBlockHash
  \/ saveWatermarks

Next ==
  \/ Mine
  \/ Reorg
  \/ \E targets \in (SUBSET Keys) \ {{}}, toBlock \in DOMAIN chain : discoverAll(targets, toBlock)
  \/ Continue
  \/ \E k \in Keys : verifyWatermarkFails(k)
  \/ readToBlockHashFails
  \/ Abort

Spec == Init /\ [][Next]_vars

\* Blocks keep coming, and every target is asked for again and again, up to the
\* newest block.
FairSpec ==
  /\ Spec
  /\ WF_vars(Mine)
  /\ WF_vars(Continue)
  /\ \A k \in Keys : SF_vars(\E targets \in SUBSET Keys :
                             k \in targets /\ discoverAll(targets, Len(chain)))

-----------------------------------------------------------------------------
(* Properties.                                                             *)

Emitted(k, h) == \E i \in DOMAIN chain : i <= h /\ k \in chain[i].events

\* No proposal is ever out of sight: what a later call will not scan again, because
\* it lies at or below the block the scan resumes above, has a checkpoint, whatever
\* was reorganised since and wherever calls were cut short.
NothingIsMissed ==
  \A k \in Governors : Emitted(k, ResumeFrom(k)) => k \in pending

\* A proposal that stays on the chain gets its checkpoint, however many calls fail.
\* (With two blocks still to come, no bound of the model keeps the last scan short.)
ProposalsAreFound ==
  \A k \in Governors : <>[]Emitted(k, MaxHeight - 1) => <>(k \in pending)

=============================================================================
