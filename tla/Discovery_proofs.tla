--------------------------- MODULE Discovery_proofs ---------------------------
(***************************************************************************)
(* Type correctness of incremental discovery, and that it misses nothing,  *)
(* for any targets, any chain, any depth of reorgs that the roll back      *)
(* covers and any bound on reorgs, failed reads and aborted calls.         *)
(*                                                                         *)
(* A watermark vouches for the blocks up to it, as long as they are there: *)
(* this is what Vouched says of the stored watermarks, and CallVouched of  *)
(* those of a call.  Without reorgs the block number alone vouches.  With  *)
(* them the hash does, and what the roll back keeps is final: no reorg     *)
(* since the watermark was stored can have reached that far down.          *)
(***************************************************************************)
EXTENDS Discovery, SequenceTheorems, TLAPS

\* The event of k, if it is at or below block h, has its checkpoint.
Seen(k, h) == Emitted(k, h) => k \in pending

\* Reorgs reach at most MaxDepth below the highest block there ever was, and no block
\* is of an epoch that is yet to come.
ChainIsBounded ==
  /\ top <= Len(chain) + MaxDepth
  /\ \A i \in DOMAIN chain : chain[i].epoch <= epoch

\* What the exclusion of reorgs beside failed reads comes to.
OneKindOfTrouble == epoch = 0 \/ failedReads = 0

VouchedByNumber(k) == watermarks[k] <= Len(chain) /\ Seen(k, watermarks[k])

\* A stored hash is that of the block of the watermark.  If the chain still has that
\* block the hash vouches for all there is below; if not, the roll back is safe.  A
\* block that is mined again has a later epoch, and never the stored hash.
VouchedByHash(k) ==
  /\ Has(hashes, k) /\ hashes[k].height = watermarks[k]
  /\ hashes[k].epoch <= epoch
  /\ watermarks[k] > Len(chain) => hashes[k].epoch < epoch
  /\ watermarks[k] <= top /\ Seen(k, RolledBack(watermarks[k]))
  /\ watermarks[k] \in DOMAIN chain /\ hashes[k] = HashAt(watermarks[k])
       => Seen(k, watermarks[k])

Vouched ==
  \A k \in DOMAIN watermarks :
    /\ watermarks[k] > 0
    /\ epoch = 0 => VouchedByNumber(k)
    /\ failedReads = 0 => VouchedByHash(k)

\* The parts of a call fit together.
CallIsWhole ==
  /\ call.pc = "idle" => call = IdleCall
  /\ call.pc # "idle" => call.toBlock \in DOMAIN chain
  /\ DOMAIN call.start \subseteq call.targets /\ call.scanned \subseteq call.targets
  /\ call.pc \in {"scan", "hash", "save"} => DOMAIN call.start = call.targets
  /\ call.pc \in {"hash", "save"} => call.scanned = call.targets

\* A start block of a call vouches as a watermark does, and what has been scanned is
\* found; no scan has exactly one block before it.
CallVouched ==
  /\ call.pc = "verify" =>
       \A k \in call.targets \ DOMAIN call.start : call.toBlock - 1 \notin MayResumeFrom(k)
  /\ \A k \in DOMAIN call.start :
       /\ call.start[k] <= Len(chain) /\ Seen(k, call.start[k])
       /\ call.toBlock # call.start[k] + 1
  /\ \A k \in call.scanned : Emitted(k, call.toBlock) => k \in pending \cup call.found
  /\ call.pc = "save" /\ failedReads = 0 =>
       \A k \in call.targets : Has(call.hashes, k) /\ call.hashes[k] = HashAt(call.toBlock)

DiscoveryInv ==
  /\ TypeOK /\ ChainIsBounded /\ OneKindOfTrouble
  /\ Vouched /\ CallIsWhole /\ CallVouched

-----------------------------------------------------------------------------
(* Entries and chains.                                                     *)

\* Entries for some of the targets are a function over a set of targets.
LEMMA PartialFact ==
  ASSUME NEW S
  PROVE  \A f : f \in Partial(S) <=> DOMAIN f \subseteq Keys /\ f \in [DOMAIN f -> S]
<1>1. ASSUME NEW f, f \in Partial(S)
      PROVE  DOMAIN f \subseteq Keys /\ f \in [DOMAIN f -> S]
  <2>1. PICK K \in SUBSET Keys : f \in [K -> S]
    BY <1>1 DEF Partial
  <2>2. QED
    BY <2>1
<1>2. ASSUME NEW f, DOMAIN f \subseteq Keys, f \in [DOMAIN f -> S]
      PROVE  f \in Partial(S)
  BY <1>2 DEF Partial
<1>3. QED
  BY <1>1, <1>2

\* What merging one entry for each of some targets gives.
LEMMA MergedFacts ==
  ASSUME NEW S, NEW f \in Partial(S), NEW ks \in SUBSET Keys, NEW v \in S
  PROVE  /\ Merged(f, ks, v) \in Partial(S)
         /\ DOMAIN Merged(f, ks, v) = DOMAIN f \cup ks
         /\ \A k \in ks : Merged(f, ks, v)[k] = v
         /\ \A k \in DOMAIN f \ ks : Merged(f, ks, v)[k] = f[k]
<1>1. DOMAIN f \subseteq Keys /\ f \in [DOMAIN f -> S]
  BY PartialFact
<1>2. /\ DOMAIN Merged(f, ks, v) = DOMAIN f \cup ks
      /\ Merged(f, ks, v) \in [DOMAIN f \cup ks -> S]
  BY <1>1 DEF Merged
<1>3. Merged(f, ks, v) \in Partial(S)
  BY <1>1, <1>2, PartialFact
<1>4. QED
  BY <1>2, <1>3 DEF Merged

\* No entries are entries.
LEMMA NoEntriesFacts ==
  ASSUME NEW S
  PROVE  NoEntries \in Partial(S) /\ DOMAIN NoEntries = {}
<1>1. DOMAIN NoEntries = {} /\ NoEntries \in [{} -> S]
  BY DEF NoEntries
<1>2. QED
  BY <1>1, PartialFact

\* The lengths and the blocks of a chain.
LEMMA ChainFacts ==
  ASSUME TypeOK
  PROVE  /\ Len(chain) \in Nat /\ top \in Nat /\ DOMAIN chain = 1 .. Len(chain)
         /\ Len(chain) <= top /\ top <= MaxHeight
         /\ \A i \in DOMAIN chain : chain[i] \in Block
BY BoundsAssumption DEF TypeOK, Height

\* A block that is mined comes on top of those there are.
LEMMA MineFacts ==
  ASSUME TypeOK, Mine
  PROVE  /\ chain' \in Seq(Block) /\ Len(chain') = Len(chain) + 1
         /\ DOMAIN chain' = 1 .. Len(chain) + 1
         /\ \A i \in DOMAIN chain : chain'[i] = chain[i]
         /\ chain'[Len(chain) + 1].epoch = epoch
<1>1. PICK events \in SUBSET (Governors \ Mined(chain)) :
        chain' = Append(chain, [epoch |-> epoch, events |-> events])
  BY DEF Mine
<1>2. [epoch |-> epoch, events |-> events] \in Block
  BY DEF TypeOK, Block
<1>3. QED
  BY <1>1, <1>2 DEF TypeOK

\* A reorg leaves the blocks up to some height, which is not too far down.
LEMMA ReorgFacts ==
  ASSUME TypeOK, Reorg
  PROVE  /\ chain' \in Seq(Block) /\ Len(chain') < Len(chain)
         /\ DOMAIN chain' = 1 .. Len(chain') /\ Len(chain') \in Nat
         /\ \A i \in DOMAIN chain' : chain'[i] = chain[i]
         /\ top <= Len(chain') + MaxDepth
<1>1. PICK h \in 0 .. Len(chain) - 1 : top <= h + MaxDepth /\ chain' = SubSeq(chain, 1, h)
  BY DEF Reorg
<1>2. Len(chain) \in Nat /\ h \in Nat /\ h < Len(chain) /\ chain \in Seq(Block)
  BY DEF TypeOK
<1>3. /\ SubSeq(chain, 1, h) \in Seq(Block) /\ Len(SubSeq(chain, 1, h)) = h
      /\ \A i \in 1 .. h : SubSeq(chain, 1, h)[i] = chain[i]
  BY <1>2, SubSeqProperties
<1>4. QED
  BY <1>1, <1>2, <1>3

-----------------------------------------------------------------------------
(* Type correctness.                                                       *)

\* The hash of a block is a hash, and the roll back of a height a height.
LEMMA HeightFacts ==
  ASSUME TypeOK
  PROVE  /\ \A h \in DOMAIN chain : h \in Height /\ HashAt(h) \in Hash
         /\ \A h \in Height : RolledBack(h) \in Height /\ RolledBack(h) <= h
         /\ 0 \in Height
<1>1. /\ \A h \in DOMAIN chain : h \in 1 .. MaxHeight /\ chain[h] \in Block
      /\ MaxHeight \in Nat /\ Rollback \in Nat
  BY ChainFacts, BoundsAssumption
<1>2. QED
  BY <1>1 DEF HashAt, Hash, Block, Height, RolledBack

\* A stored watermark is a height; so is the block a scan resumes above.
LEMMA ResumeTyped ==
  ASSUME TypeOK, NEW k
  PROVE  /\ Has(watermarks, k) => watermarks[k] \in Height
         /\ ResumeFrom(k) \in Height
<1>1. Has(watermarks, k) => watermarks[k] \in Height
  BY PartialFact DEF TypeOK, Has
<1>2. QED
  BY <1>1, HeightFacts DEF ResumeFrom

\* The idle call is a call.
LEMMA IdleTyped == IdleCall \in Call
BY BoundsAssumption, NoEntriesFacts DEF IdleCall, Call, Height

\* Settling a start block gives a call.
LEMMA VerifiedTyped ==
  ASSUME TypeOK, NEW k \in Keys, NEW block \in Height, NEW confirmed \in SUBSET {k},
         confirmed # {} => block \in DOMAIN chain, Verified(k, block, confirmed)
  PROVE  call' \in Call
<1>1. /\ call \in Call /\ call.start \in Partial(Height) /\ call.hashes \in Partial(Hash)
      /\ {k} \in SUBSET Keys /\ confirmed \in SUBSET Keys
  BY DEF TypeOK, Call
<1>2. Merged(call.start, {k}, block) \in Partial(Height)
  BY <1>1, MergedFacts
<1>3. confirmed # {} => Merged(call.hashes, confirmed, HashAt(block)) \in Partial(Hash)
  BY <1>1, MergedFacts, HeightFacts
<1>4. QED
  BY <1>1, <1>2, <1>3 DEF Verified, Call

\* Every step of the chain or of a call keeps the types.
LEMMA TypeStep == TypeOK /\ [Next]_vars => TypeOK'
<1> SUFFICES ASSUME TypeOK, [Next]_vars PROVE TypeOK'
  OBVIOUS
<1> USE BoundsAssumption, TargetsAssumption
<1>t. /\ call \in Call /\ call.targets \subseteq Keys /\ call.toBlock \in Height
      /\ call.start \in Partial(Height) /\ call.scanned \subseteq Keys
      /\ call.found \subseteq Governors /\ call.hashes \in Partial(Hash)
      /\ IdleCall \in Call
  BY IdleTyped DEF TypeOK, Call
<1>c. ASSUME UNCHANGED <<chainVars, cacheVars>>, call' \in Call,
             failedReads' \in 0 .. MaxFailedReads, faults' \in 0 .. MaxFaults
      PROVE  TypeOK'
  BY <1>c DEF TypeOK, chainVars, cacheVars
<1>f. /\ failedReads \in 0 .. MaxFailedReads /\ faults \in 0 .. MaxFaults
      /\ ReadMayFail => failedReads + 1 \in 0 .. MaxFailedReads
  BY DEF TypeOK, ReadMayFail
<1>1. CASE Mine
  <2>1. Len(chain') <= top' /\ top' \in Height
    BY <1>1, ChainFacts, MineFacts DEF Mine, Larger, Height
  <2>2. QED
    BY <1>1, <2>1, MineFacts DEF Mine, TypeOK, cacheVars
<1>2. CASE Reorg
  <2>1. epoch \in 0 .. MaxReorgs /\ epoch < MaxReorgs /\ epoch' = epoch + 1
    BY <1>2 DEF Reorg, TypeOK
  <2>2. epoch' \in 0 .. MaxReorgs
    BY <2>1, BoundsAssumption
  <2>3. Len(chain') <= top
    BY <1>2, ChainFacts, ReorgFacts
  <2>4. UNCHANGED <<top, cacheVars, call, failedReads, faults>>
    BY <1>2 DEF Reorg
  <2>5. QED
    BY <1>2, <2>2, <2>3, <2>4, ReorgFacts DEF TypeOK, cacheVars
<1>3. ASSUME NEW targets \in SUBSET Keys, NEW toBlock \in DOMAIN chain, discoverAll(targets, toBlock)
      PROVE  TypeOK'
  <2>1. hashes \in Partial(Hash) /\ toBlock \in Height
    BY HeightFacts DEF TypeOK
  <2>2. call' \in Call
    BY <1>3, <1>t, <2>1 DEF discoverAll, Call
  <2>3. QED
    BY <1>3, <1>c, <1>f, <2>2 DEF discoverAll
<1>4. ASSUME NEW k \in Keys, verifyWatermark(k) PROVE TypeOK'
  <2>1. Confirmed(k) => ResumeFrom(k) \in DOMAIN chain
    BY DEF Confirmed, ResumeFrom
  <2>2. call' \in Call
    BY <1>4, <2>1, ResumeTyped, VerifiedTyped DEF verifyWatermark
  <2>3. QED
    BY <1>4, <1>c, <1>f, <2>2 DEF verifyWatermark
<1>5. ASSUME NEW k \in Keys, verifyWatermarkFails(k) PROVE TypeOK'
  <2>1. call' \in Call
    BY <1>5, ResumeTyped, VerifiedTyped DEF verifyWatermarkFails
  <2>2. QED
    BY <1>5, <1>c, <1>f, <2>1 DEF verifyWatermarkFails
<1>6. ASSUME NEW k \in Keys, scan(k) PROVE TypeOK'
  <2>1. ASSUME \E i \in ScannedBlocks(call.start[k], call.toBlock) : k \in chain[i].events
        PROVE  k \in Governors
    BY <2>1, ChainFacts DEF ScannedBlocks, Block
  <2>2. call' \in Call
    BY <1>6, <1>t, <2>1 DEF scan, Call
  <2>3. QED
    BY <1>6, <1>c, <1>f, <2>2 DEF scan
<1>7. CASE readToBlockHash
  <2>1. call.toBlock \in DOMAIN chain =>
          Merged(call.hashes, call.targets, HashAt(call.toBlock)) \in Partial(Hash)
    BY <1>t, MergedFacts, HeightFacts
  <2>2. call' \in Call
    BY <1>7, <1>t, <2>1 DEF readToBlockHash, Call
  <2>3. QED
    BY <1>7, <1>c, <1>f, <2>2 DEF readToBlockHash
<1>8. CASE readToBlockHashFails
  <2>1. call' \in Call
    BY <1>8, <1>t DEF readToBlockHashFails, Call
  <2>2. QED
    BY <1>8, <1>c, <1>f, <2>1 DEF readToBlockHashFails
<1>9. ASSUME NEW k \in Keys, createPendingCheckpoint(k) PROVE TypeOK'
  BY <1>9, <1>t DEF createPendingCheckpoint, ToCreate, TypeOK, chainVars
<1>10. CASE saveWatermarks
  <2>1. Merged(call.start, call.targets, call.toBlock) \in Partial(Height)
    BY <1>t, MergedFacts
  <2>2. QED
    BY <1>10, <1>t, <2>1 DEF saveWatermarks, TypeOK, chainVars
<1>11. CASE Abort
  BY <1>11, <1>c, <1>f, <1>t DEF Abort
<1>12. CASE UNCHANGED vars
  BY <1>12 DEF vars, chainVars, cacheVars, TypeOK
<1>13. QED
  BY <1>1, <1>2, <1>3, <1>4, <1>5, <1>6, <1>7, <1>8, <1>9, <1>10, <1>11, <1>12
     DEF Next, Continue

\* At first there is no chain, and nothing is stored.
LEMMA TypeInit == Init => TypeOK
<1>1. NoEntries \in Partial(Height) /\ NoEntries \in Partial(Hash)
  BY NoEntriesFacts
<1>2. QED
  BY <1>1, BoundsAssumption, IdleTyped DEF Init, TypeOK, Height

\* Discovery is type correct: entries exist for targets only, and what they hold are
\* heights and hashes of the chain, whatever fails and whatever is reorganised.
THEOREM DiscoveryTypeCorrect == Spec => []TypeOK
BY TypeInit, TypeStep, PTL DEF Spec

-----------------------------------------------------------------------------
(* What vouches for what.                                                  *)

\* What is seen up to some block is seen up to any block below it.
LEMMA SeenBelow ==
  ASSUME TypeOK, NEW k, NEW h \in Int, NEW g \in Int, h <= g, Seen(k, g)
  PROVE  Seen(k, h)
BY ChainFacts DEF Seen, Emitted

\* No event lies below the first block.
LEMMA SeenNothing == ASSUME TypeOK, NEW k PROVE Seen(k, 0)
BY ChainFacts DEF Seen, Emitted

\* A new block changes nothing at or below the blocks there are, and a reorg leaves
\* nothing that was not there.
LEMMA SeenStays ==
  ASSUME TypeOK, Mine \/ Reorg, NEW k, NEW h \in Int, Seen(k, h),
         Mine => h <= Len(chain)
  PROVE  Seen(k, h)'
<1>1. pending' = pending
  BY DEF Mine, Reorg, cacheVars
<1>2. \A i \in DOMAIN chain' : i <= h => i \in DOMAIN chain /\ chain'[i] = chain[i]
  <2>1. CASE Mine
    <3>1. h <= Len(chain) /\ DOMAIN chain' = 1 .. Len(chain) + 1 /\ Len(chain) \in Nat
      BY <2>1, MineFacts, ChainFacts
    <3>2. QED
      BY <2>1, <3>1, MineFacts, ChainFacts
  <2>2. CASE Reorg
    BY <2>2, ChainFacts, ReorgFacts
  <2>3. QED
    BY <2>1, <2>2
<1>3. Emitted(k, h)' => Emitted(k, h)
  BY <1>2 DEF Emitted
<1>4. QED
  BY <1>1, <1>3 DEF Seen

\* What a watermark rolls back to is still there: reorgs do not reach that far.
LEMMA RollbackIsFinal ==
  ASSUME TypeOK, ChainIsBounded, NEW h \in Height, h <= top
  PROVE  RolledBack(h) \in Height /\ RolledBack(h) <= Len(chain)
<1>1. /\ Rollback \in Nat /\ MaxDepth \in Nat /\ MaxHeight \in Nat /\ h \in Nat
      /\ Len(chain) \in Nat /\ top \in Nat /\ top <= Len(chain) + MaxDepth
  BY ChainFacts, BoundsAssumption DEF Height, ChainIsBounded
<1>2. RolledBack(h) <= Len(chain)
  BY <1>1, DepthAssumption DEF RolledBack
<1>3. QED
  BY <1>2, HeightFacts

\* A scan resumes above blocks that are there and have nothing left to find.
LEMMA ResumeVouched ==
  ASSUME DiscoveryInv, NEW k
  PROVE  ResumeFrom(k) <= Len(chain) /\ Seen(k, ResumeFrom(k))
<1>t. TypeOK /\ ChainIsBounded /\ OneKindOfTrouble /\ Vouched
  BY DEF DiscoveryInv
<1>1. CASE ~Has(watermarks, k)
  BY <1>1, <1>t, SeenNothing, ChainFacts DEF ResumeFrom
<1>2. CASE Has(watermarks, k) /\ epoch = 0
  <2>1. VouchedByNumber(k) /\ watermarks[k] \in Height
    BY <1>2, <1>t, ResumeTyped DEF Vouched, Has
  <2>2. ResumeFrom(k) \in Height /\ ResumeFrom(k) <= watermarks[k]
    BY <1>2, <1>t, <2>1, HeightFacts DEF ResumeFrom, Height
  <2>3. QED
    BY <1>t, <2>1, <2>2, SeenBelow, ChainFacts, BoundsAssumption DEF VouchedByNumber, Height
<1>3. CASE Has(watermarks, k) /\ failedReads = 0
  <2>1. VouchedByHash(k) /\ watermarks[k] \in Height
    BY <1>3, <1>t, ResumeTyped DEF Vouched, Has
  <2>2. CASE Confirmed(k)
    BY <1>3, <1>t, <2>1, <2>2, ChainFacts DEF ResumeFrom, Confirmed, VouchedByHash
  <2>3. CASE ~Confirmed(k)
    BY <1>3, <1>t, <2>1, <2>3, RollbackIsFinal DEF ResumeFrom, VouchedByHash
  <2>4. QED
    BY <2>2, <2>3
<1>4. QED
  BY <1>1, <1>2, <1>3, <1>t DEF OneKindOfTrouble

\* A block mined at the height of a watermark does not have its hash, so a call that
\* has begun resumes where it would have at its beginning.
LEMMA ResumeStays ==
  ASSUME DiscoveryInv, Mine, NEW k
  PROVE  MayResumeFrom(k)' = MayResumeFrom(k)
<1>t. /\ TypeOK /\ OneKindOfTrouble /\ Vouched
      /\ UNCHANGED <<watermarks, hashes, epoch, failedReads>>
  BY DEF DiscoveryInv, Mine, cacheVars
<1>1. CASE Has(watermarks, k) /\ Has(hashes, k)
  <2>1. watermarks[k] \in Height /\ watermarks[k] > 0
    BY <1>1, <1>t, ResumeTyped DEF Vouched, Has
  <2>2. CASE watermarks[k] <= Len(chain)
    <3>1. /\ watermarks[k] \in DOMAIN chain /\ watermarks[k] \in DOMAIN chain'
          /\ chain'[watermarks[k]] = chain[watermarks[k]]
      BY <1>t, <2>1, <2>2, MineFacts, ChainFacts, BoundsAssumption DEF Height
    <3>2. Confirmed(k)' <=> Confirmed(k)
      BY <1>t, <3>1 DEF Confirmed, Has, HashAt
    <3>3. QED
      BY <1>t, <3>2 DEF MayResumeFrom, ResumeFrom, RolledBack, Has, ReadMayFail
  <2>3. CASE watermarks[k] > Len(chain)
    <3>1. VouchedByHash(k)
      BY <1>1, <1>t, <2>3, <2>1, ChainFacts, BoundsAssumption
         DEF Vouched, VouchedByNumber, OneKindOfTrouble, Has, Height
    <3>2. hashes[k].epoch # epoch
      BY <1>t, <2>3, <3>1, BoundsAssumption, PartialFact DEF VouchedByHash, TypeOK, Hash, Has
    <3>3. watermarks[k] \in DOMAIN chain' => chain'[watermarks[k]].epoch = epoch
      BY <1>t, <2>1, <2>3, MineFacts, ChainFacts, BoundsAssumption DEF Height
    <3>4. ~Confirmed(k) /\ ~Confirmed(k)'
      BY <1>1, <1>t, <2>1, <2>3, <3>2, <3>3, ChainFacts, BoundsAssumption
         DEF Confirmed, Has, HashAt, Height
    <3>5. QED
      BY <1>t, <3>4 DEF MayResumeFrom, ResumeFrom, RolledBack, Has, ReadMayFail
  <2>4. QED
    BY <1>t, <2>1, <2>2, <2>3, ChainFacts, BoundsAssumption DEF Height
<1>2. CASE ~(Has(watermarks, k) /\ Has(hashes, k))
  BY <1>t, <1>2 DEF MayResumeFrom, ResumeFrom, Has, ReadMayFail
<1>3. QED
  BY <1>1, <1>2

-----------------------------------------------------------------------------
(* The steps of the chain.                                                 *)

\* A block is mined: whatever vouched still does.
LEMMA MineVouches ==
  ASSUME DiscoveryInv, Mine
  PROVE  ChainIsBounded' /\ OneKindOfTrouble' /\ Vouched'
<1>t. /\ TypeOK /\ ChainIsBounded /\ OneKindOfTrouble /\ Vouched
      /\ UNCHANGED <<watermarks, hashes, pending, epoch, failedReads>>
      /\ top' = Larger(top, Len(chain) + 1)
      /\ epoch \in Nat /\ Len(chain) \in Nat /\ top \in Nat /\ MaxDepth \in Nat
  BY BoundsAssumption, ChainFacts DEF DiscoveryInv, Mine, cacheVars, TypeOK
<1>1. ChainIsBounded'
  <2>1. top' <= Len(chain') + MaxDepth
    BY <1>t, MineFacts DEF ChainIsBounded, Larger
  <2>2. \A i \in DOMAIN chain' : chain'[i].epoch <= epoch'
    BY <1>t, MineFacts, ChainFacts DEF ChainIsBounded
  <2>3. QED
    BY <2>1, <2>2 DEF ChainIsBounded
<1>2. ASSUME NEW k \in DOMAIN watermarks, epoch = 0 PROVE VouchedByNumber(k)'
  <2>1. VouchedByNumber(k) /\ watermarks[k] \in Int
    BY <1>2, <1>t, ResumeTyped, BoundsAssumption DEF Vouched, Has, Height
  <2>2. Seen(k, watermarks[k])'
    BY <1>t, <2>1, SeenStays DEF VouchedByNumber
  <2>3. QED
    BY <1>t, <2>1, <2>2, MineFacts DEF VouchedByNumber
<1>3. ASSUME NEW k \in DOMAIN watermarks, failedReads = 0 PROVE VouchedByHash(k)'
  <2>1. /\ VouchedByHash(k) /\ watermarks[k] \in Height /\ watermarks[k] \in Int
        /\ watermarks[k] > 0
    BY <1>3, <1>t, ResumeTyped, BoundsAssumption DEF Vouched, Has, Height
  <2>2. RolledBack(watermarks[k]) <= Len(chain) /\ RolledBack(watermarks[k]) \in Int
    BY <1>t, <2>1, RollbackIsFinal, BoundsAssumption DEF VouchedByHash, Height
  <2>3. Seen(k, RolledBack(watermarks[k]))'
    <3>1. Seen(k, RolledBack(watermarks[k]))
      BY <2>1 DEF VouchedByHash
    <3>2. RolledBack(watermarks[k])' = RolledBack(watermarks[k])
      BY <1>t DEF RolledBack
    <3>3. QED
      BY <1>t, <2>2, <3>1, <3>2, SeenStays
  <2>4. ASSUME watermarks[k] \in DOMAIN chain', hashes[k] = HashAt(watermarks[k])'
        PROVE  Seen(k, watermarks[k])'
    <3>1. CASE watermarks[k] <= Len(chain)
      <4>1. watermarks[k] \in DOMAIN chain /\ hashes[k] = HashAt(watermarks[k])
        BY <1>t, <2>1, <2>4, <3>1, MineFacts, ChainFacts DEF HashAt
      <4>2. QED
        BY <1>t, <2>1, <3>1, <4>1, SeenStays DEF VouchedByHash
    <3>2. CASE watermarks[k] > Len(chain)
      <4>1. hashes[k].epoch = epoch
        BY <1>t, <2>1, <2>4, <3>2, MineFacts, ChainFacts DEF HashAt
      <4>2. QED
        BY <1>t, <2>1, <3>2, <4>1 DEF VouchedByHash
    <3>3. QED
      BY <1>t, <2>1, <3>1, <3>2
  <2>5. top <= top' /\ Len(chain) <= Len(chain') /\ Len(chain') \in Nat /\ top' \in Nat
    BY <1>t, MineFacts DEF Larger
  <2>6. QED
    BY <1>t, <2>1, <2>3, <2>4, <2>5 DEF VouchedByHash, Has
<1>4. QED
  BY <1>1, <1>2, <1>3, <1>t DEF OneKindOfTrouble, Vouched

\* A block is mined while a call runs.
LEMMA MineCall ==
  ASSUME DiscoveryInv, Mine
  PROVE  CallIsWhole' /\ CallVouched'
<1>t. /\ TypeOK /\ CallIsWhole /\ CallVouched
      /\ UNCHANGED <<call, pending, failedReads>>
      /\ Len(chain) \in Nat
  BY ChainFacts DEF DiscoveryInv, Mine, cacheVars
<1>1. CallIsWhole'
  BY <1>t, MineFacts, ChainFacts DEF CallIsWhole
<1>2. /\ \A k : MayResumeFrom(k)' = MayResumeFrom(k)
      /\ \A k, h : h \in Int /\ h <= Len(chain) /\ Seen(k, h) => Seen(k, h)'
  BY <1>t, ResumeStays, SeenStays
<1>3. ASSUME NEW k \in DOMAIN call.start
      PROVE  call.start[k] <= Len(chain') /\ Seen(k, call.start[k])'
  <2>1. call.start[k] \in Int /\ call.start[k] <= Len(chain) /\ Seen(k, call.start[k])
    BY <1>t, PartialFact, BoundsAssumption DEF CallVouched, TypeOK, Call, Height
  <2>2. QED
    BY <1>t, <1>2, <2>1, MineFacts
<1>4. ASSUME NEW k \in call.scanned, Emitted(k, call.toBlock)'
      PROVE  k \in pending \cup call.found
  <2>1. call.pc # "idle"
    BY <1>t DEF CallIsWhole, IdleCall
  <2>2. call.toBlock \in 1 .. Len(chain)
    BY <1>t, <2>1, ChainFacts DEF CallIsWhole
  <2>3. Emitted(k, call.toBlock)
    BY <1>t, <1>4, <2>2, MineFacts, ChainFacts DEF Emitted
  <2>4. QED
    BY <1>t, <2>3 DEF CallVouched
<1>5. ASSUME call.pc = "save", failedReads = 0, NEW k \in call.targets
      PROVE  Has(call.hashes, k) /\ call.hashes[k] = HashAt(call.toBlock)'
  <2>1. call.toBlock \in DOMAIN chain /\ call.hashes[k] = HashAt(call.toBlock)
    BY <1>t, <1>5 DEF CallIsWhole, CallVouched
  <2>2. QED
    BY <1>t, <1>5, <2>1, MineFacts DEF CallVouched, HashAt
<1>6. CallVouched'
  BY <1>t, <1>2, <1>3, <1>4, <1>5 DEF CallVouched, Has
<1>7. QED
  BY <1>1, <1>6

\* A reorg: a watermark above what is left still has a hash of an earlier epoch, and
\* is rolled back to blocks the reorg did not reach.
LEMMA ReorgVouches ==
  ASSUME DiscoveryInv, Reorg, ~Together
  PROVE  ChainIsBounded' /\ OneKindOfTrouble' /\ Vouched' /\ CallIsWhole' /\ CallVouched'
<1>t. /\ TypeOK /\ ChainIsBounded /\ OneKindOfTrouble /\ Vouched /\ CallIsWhole
      /\ UNCHANGED <<watermarks, hashes, pending, failedReads, top, call>>
      /\ epoch' = epoch + 1 /\ failedReads = 0 /\ call.pc = "idle"
      /\ epoch \in Nat /\ Len(chain) \in Nat /\ top \in Nat
  BY BoundsAssumption, ChainFacts DEF DiscoveryInv, Reorg, cacheVars, TypeOK
<1>1. ChainIsBounded'
  <2>1. \A i \in DOMAIN chain' : i \in DOMAIN chain /\ chain'[i] = chain[i]
    BY <1>t, ReorgFacts, ChainFacts
  <2>2. \A i \in DOMAIN chain : chain[i].epoch \in Int /\ chain[i].epoch <= epoch
    BY <1>t, ChainFacts, BoundsAssumption DEF ChainIsBounded, Block
  <2>3. \A i \in DOMAIN chain' : chain'[i].epoch <= epoch'
    BY <1>t, <2>1, <2>2
  <2>4. QED
    BY <1>t, <2>3, ReorgFacts DEF ChainIsBounded
<1>2. ASSUME NEW k \in DOMAIN watermarks PROVE VouchedByHash(k)'
  <2>1. VouchedByHash(k) /\ watermarks[k] \in Height /\ watermarks[k] \in Int
    BY <1>t, ResumeTyped, BoundsAssumption DEF Vouched, Has, Height
  <2>2. hashes[k].epoch \in Nat
    <3>1. hashes[k] \in Hash
      BY <1>t, <2>1, PartialFact DEF VouchedByHash, TypeOK, Has
    <3>2. QED
      BY <3>1, BoundsAssumption DEF Hash
  <2>3. Seen(k, RolledBack(watermarks[k]))'
    <3>1. Seen(k, RolledBack(watermarks[k])) /\ RolledBack(watermarks[k]) \in Int
      BY <1>t, <2>1, HeightFacts, BoundsAssumption DEF VouchedByHash, Height
    <3>2. RolledBack(watermarks[k])' = RolledBack(watermarks[k])
      BY <1>t DEF RolledBack
    <3>3. QED
      BY <1>t, <3>1, <3>2, SeenStays DEF Mine
  <2>4. ASSUME watermarks[k] \in DOMAIN chain', hashes[k] = HashAt(watermarks[k])'
        PROVE  Seen(k, watermarks[k])'
    <3>1. watermarks[k] \in DOMAIN chain /\ hashes[k] = HashAt(watermarks[k])
      BY <1>t, <2>1, <2>4, ReorgFacts, ChainFacts DEF HashAt
    <3>2. QED
      BY <1>t, <2>1, <3>1, SeenStays DEF VouchedByHash
  <2>5. QED
    BY <1>t, <2>1, <2>2, <2>3, <2>4 DEF VouchedByHash, Has
<1>3. CallIsWhole' /\ CallVouched'
  BY <1>t, NoEntriesFacts DEF CallIsWhole, CallVouched, IdleCall, Has
<1>4. QED
  BY <1>1, <1>2, <1>3, <1>t DEF OneKindOfTrouble, Vouched

-----------------------------------------------------------------------------
(* The steps of a call.                                                    *)

\* While a call reads, nothing changes that vouches.
LEMMA CallReads ==
  ASSUME DiscoveryInv, UNCHANGED <<chainVars, cacheVars>>,
         failedReads' = failedReads \/ (failedReads' = failedReads + 1 /\ epoch = 0)
  PROVE  /\ ChainIsBounded' /\ OneKindOfTrouble' /\ Vouched'
         /\ \A k : MayResumeFrom(k)' \subseteq MayResumeFrom(k)
         /\ \A k, h : /\ Seen(k, h)' <=> Seen(k, h)
                      /\ Emitted(k, h)' <=> Emitted(k, h)
         /\ \A h : HashAt(h)' = HashAt(h)
<1>t. /\ TypeOK /\ ChainIsBounded /\ OneKindOfTrouble /\ Vouched
      /\ UNCHANGED <<chain, epoch, top, watermarks, hashes, pending>>
      /\ failedReads \in Nat /\ MaxFailedReads \in Nat
  BY BoundsAssumption DEF DiscoveryInv, chainVars, cacheVars, TypeOK
<1>1. /\ \A k, h : /\ Seen(k, h)' <=> Seen(k, h)
                   /\ Emitted(k, h)' <=> Emitted(k, h)
      /\ \A h : HashAt(h)' = HashAt(h)
  BY <1>t DEF Seen, Emitted, HashAt
<1>2. ChainIsBounded' /\ OneKindOfTrouble'
  BY <1>t DEF ChainIsBounded, OneKindOfTrouble
<1>3. Vouched'
  BY <1>t DEF Vouched, VouchedByNumber, VouchedByHash, Seen, Emitted, HashAt, RolledBack, Has
<1>4. ASSUME NEW k PROVE MayResumeFrom(k)' \subseteq MayResumeFrom(k)
  <2>1. Confirmed(k)' <=> Confirmed(k)
    BY <1>t DEF Confirmed, Has, HashAt
  <2>2. ResumeFrom(k)' = ResumeFrom(k)
    BY <1>t, <2>1 DEF ResumeFrom, Has, RolledBack
  <2>3. ReadMayFail' => ReadMayFail
    BY <1>t DEF ReadMayFail
  <2>4. QED
    BY <1>t, <2>2, <2>3 DEF MayResumeFrom, Has
<1>5. QED
  BY <1>1, <1>2, <1>3, <1>4

\* A call begins: no scan of it will have just one block before it.
LEMMA DiscoverAllStep ==
  ASSUME DiscoveryInv, ~SingleBlocks, NEW targets \in SUBSET Keys, NEW toBlock \in DOMAIN chain,
         discoverAll(targets, toBlock)
  PROVE  CallIsWhole' /\ CallVouched'
<1>1. /\ call'.pc = "verify" /\ call'.targets = targets /\ call'.toBlock = toBlock
      /\ call'.start = NoEntries /\ call'.scanned = {}
      /\ \A k \in targets : toBlock - 1 \notin MayResumeFrom(k)
      /\ UNCHANGED <<chainVars, cacheVars, failedReads>>
  BY DEF discoverAll, IdleCall
<1>2. \A k : MayResumeFrom(k)' \subseteq MayResumeFrom(k)
  BY <1>1, CallReads
<1>3. CallIsWhole'
  BY <1>1, NoEntriesFacts DEF CallIsWhole, chainVars
<1>4. CallVouched'
  BY <1>1, <1>2, NoEntriesFacts DEF CallVouched
<1>5. QED
  BY <1>3, <1>4

\* A start block is settled that lies within the chain, with nothing left to find up
\* to it, and not one block below the last.
LEMMA VerifiedStep ==
  ASSUME DiscoveryInv, call.pc = "verify", NEW k \in call.targets \ DOMAIN call.start,
         NEW block \in Height, block <= Len(chain), Seen(k, block),
         block \in MayResumeFrom(k),
         NEW confirmed, Verified(k, block, confirmed), UNCHANGED <<chainVars, cacheVars>>,
         failedReads' = failedReads \/ (failedReads' = failedReads + 1 /\ epoch = 0)
  PROVE  CallIsWhole' /\ CallVouched'
<1>t. /\ TypeOK /\ CallIsWhole /\ CallVouched /\ call \in Call
      /\ call.start \in Partial(Height) /\ call.targets \subseteq Keys
      /\ call.toBlock \in Nat /\ block \in Nat
      /\ UNCHANGED <<chain, pending>>
  BY BoundsAssumption DEF DiscoveryInv, TypeOK, Call, Height, chainVars, cacheVars
<1>1. /\ DOMAIN call'.start = DOMAIN call.start \cup {k} /\ call'.start[k] = block
      /\ \A j \in DOMAIN call.start : call'.start[j] = call.start[j]
  <2>1. {k} \in SUBSET Keys /\ call'.start = Merged(call.start, {k}, block)
    BY <1>t DEF Verified, Call
  <2>2. /\ DOMAIN Merged(call.start, {k}, block) = DOMAIN call.start \cup {k}
        /\ \A j \in {k} : Merged(call.start, {k}, block)[j] = block
        /\ \A j \in DOMAIN call.start \ {k} : Merged(call.start, {k}, block)[j] = call.start[j]
    BY DEF Merged
  <2>3. QED
    BY <2>1, <2>2
<1>2. /\ call'.targets = call.targets /\ call'.toBlock = call.toBlock
      /\ call'.scanned = call.scanned /\ call'.found = call.found
      /\ call'.pc = IF DOMAIN call'.start = call.targets THEN "scan" ELSE "verify"
  BY <1>t DEF Verified, Call
<1>3. /\ \A j : MayResumeFrom(j)' \subseteq MayResumeFrom(j)
      /\ \A j, h : /\ Seen(j, h)' <=> Seen(j, h)
                   /\ Emitted(j, h)' <=> Emitted(j, h)
  BY CallReads
<1>4. CallIsWhole'
  BY <1>t, <1>1, <1>2 DEF CallIsWhole
<1>5. call.toBlock # block + 1
  BY <1>t DEF CallVouched
<1>6. ASSUME NEW j \in DOMAIN call'.start
      PROVE  /\ call'.start[j] <= Len(chain') /\ Seen(j, call.start[j])'
             /\ call'.toBlock # call'.start[j] + 1
  <2>1. CASE j = k
    BY <1>t, <1>1, <1>2, <1>3, <1>5, <2>1
  <2>2. CASE j # k
    <3>1. /\ call.start[j] <= Len(chain) /\ Seen(j, call.start[j])
          /\ call.toBlock # call.start[j] + 1
      BY <1>t, <1>1, <2>2 DEF CallVouched
    <3>2. QED
      BY <1>t, <1>1, <1>2, <1>3, <2>2, <3>1
  <2>3. QED
    BY <2>1, <2>2
<1>7. CallVouched'
  <2>1. call'.pc = "verify" =>
          \A j \in call'.targets \ DOMAIN call'.start : call'.toBlock - 1 \notin MayResumeFrom(j)'
    BY <1>t, <1>1, <1>2, <1>3 DEF CallVouched
  <2>2. \A j \in call'.scanned : Emitted(j, call.toBlock)' => j \in pending' \cup call'.found
    BY <1>t, <1>2, <1>3 DEF CallVouched
  <2>3. QED
    BY <1>2, <1>6, <2>1, <2>2 DEF CallVouched
<1>8. QED
  BY <1>4, <1>7

\* A target is scanned: an event up to the last block is behind the start block, where
\* it has its checkpoint, or among the scanned blocks.
LEMMA ScanStep ==
  ASSUME DiscoveryInv, NEW k \in Keys, scan(k)
  PROVE  CallIsWhole' /\ CallVouched'
<1>t. /\ TypeOK /\ CallIsWhole /\ CallVouched /\ call \in Call
      /\ call.pc = "scan" /\ k \in call.targets \ call.scanned
      /\ DOMAIN call.start = call.targets
      /\ call.start \in Partial(Height) /\ call.toBlock \in Nat
      /\ UNCHANGED <<chainVars, cacheVars, chain, pending, failedReads>>
  BY BoundsAssumption
     DEF DiscoveryInv, TypeOK, Call, Height, chainVars, cacheVars, scan, CallIsWhole
<1>1. /\ call'.targets = call.targets /\ call'.toBlock = call.toBlock
      /\ call'.start = call.start /\ call'.scanned = call.scanned \cup {k}
      /\ call'.pc = IF call'.scanned = call.targets THEN "hash" ELSE "scan"
      /\ call.found \subseteq call'.found
      /\ (\E i \in ScannedBlocks(call.start[k], call.toBlock) : k \in chain[i].events)
           => k \in call'.found
  BY <1>t DEF scan, Call
<1>2. /\ \A j, h : /\ Seen(j, h)' <=> Seen(j, h)
                   /\ Emitted(j, h)' <=> Emitted(j, h)
  BY <1>t, CallReads
<1>3. CallIsWhole'
  BY <1>t, <1>1 DEF CallIsWhole
<1>4. ASSUME Emitted(k, call.toBlock) PROVE k \in pending \cup call'.found
  <2>1. PICK i \in DOMAIN chain : i <= call.toBlock /\ k \in chain[i].events
    BY <1>4 DEF Emitted
  <2>2. /\ call.start[k] \in Nat /\ Seen(k, call.start[k])
        /\ call.toBlock # call.start[k] + 1
    BY <1>t, PartialFact, BoundsAssumption DEF CallVouched, Height
  <2>3. i \in Nat
    BY <1>t, ChainFacts
  <2>4. CASE i <= call.start[k]
    BY <2>1, <2>2, <2>4 DEF Seen, Emitted
  <2>5. CASE call.start[k] < i
    <3>1. i \in ScannedBlocks(call.start[k], call.toBlock)
      BY <1>t, <2>1, <2>2, <2>3, <2>5 DEF ScannedBlocks
    <3>2. QED
      BY <1>1, <2>1, <3>1
  <2>6. QED
    BY <2>2, <2>3, <2>4, <2>5
<1>5. ASSUME NEW j \in call'.scanned, Emitted(j, call.toBlock)
      PROVE  j \in pending \cup call'.found
  <2>1. CASE j = k
    BY <1>4, <1>5, <2>1
  <2>2. CASE j \in call.scanned
    BY <1>t, <1>1, <1>5, <2>2 DEF CallVouched
  <2>3. QED
    BY <1>1, <1>5, <2>1, <2>2
<1>6. /\ \A j \in DOMAIN call'.start :
           /\ call'.start[j] <= Len(chain') /\ Seen(j, call.start[j])'
           /\ call'.toBlock # call'.start[j] + 1
      /\ \A j \in call'.scanned : Emitted(j, call.toBlock)' => j \in pending' \cup call'.found
  BY <1>t, <1>1, <1>2, <1>5 DEF CallVouched
<1>7. CallVouched'
  BY <1>1, <1>6 DEF CallVouched
<1>8. QED
  BY <1>3, <1>7

\* The last block's hash is read, or not: the call is about to save its watermarks.
LEMMA HashStep ==
  ASSUME DiscoveryInv, ~Together, readToBlockHash \/ readToBlockHashFails
  PROVE  /\ failedReads' = failedReads \/ (failedReads' = failedReads + 1 /\ epoch = 0)
         /\ CallIsWhole' /\ CallVouched'
<1>t. /\ TypeOK /\ CallIsWhole /\ CallVouched /\ call \in Call /\ call.pc = "hash"
      /\ call.toBlock \in DOMAIN chain /\ call.targets \subseteq Keys
      /\ call.hashes \in Partial(Hash) /\ HashAt(call.toBlock) \in Hash
      /\ UNCHANGED <<chainVars, cacheVars, chain, pending>>
      /\ failedReads \in Nat
  BY HeightFacts, BoundsAssumption
     DEF DiscoveryInv, TypeOK, Call, chainVars, cacheVars, readToBlockHash,
         readToBlockHashFails, CallIsWhole
<1>1. failedReads' = failedReads \/ (failedReads' = failedReads + 1 /\ epoch = 0)
  BY DEF readToBlockHash, readToBlockHashFails, ReadMayFail
<1>2. /\ call'.targets = call.targets /\ call'.toBlock = call.toBlock
      /\ call'.start = call.start /\ call'.scanned = call.scanned
      /\ call'.found = call.found /\ call'.pc = "save"
  BY <1>t DEF readToBlockHash, readToBlockHashFails, Call
<1>3. /\ \A j, h : /\ Seen(j, h)' <=> Seen(j, h)
                   /\ Emitted(j, h)' <=> Emitted(j, h)
      /\ \A h : HashAt(h)' = HashAt(h)
  BY <1>t, <1>1, CallReads
<1>4. CallIsWhole'
  BY <1>t, <1>2 DEF CallIsWhole
<1>5. ASSUME failedReads' = 0, NEW j \in call.targets
      PROVE  j \in DOMAIN call'.hashes /\ call'.hashes[j] = HashAt(call.toBlock)
  <2>1. readToBlockHash
    BY <1>t, <1>5 DEF readToBlockHashFails
  <2>2. call'.hashes = Merged(call.hashes, call.targets, HashAt(call.toBlock))
    BY <1>t, <2>1 DEF readToBlockHash, Call
  <2>3. QED
    BY <1>5, <2>2 DEF Merged
<1>6. /\ \A j \in DOMAIN call'.start :
           /\ call'.start[j] <= Len(chain') /\ Seen(j, call.start[j])'
           /\ call'.toBlock # call'.start[j] + 1
      /\ \A j \in call'.scanned : Emitted(j, call.toBlock)' => j \in pending' \cup call'.found
      /\ failedReads' = 0 =>
           \A j \in call'.targets :
             Has(call.hashes, j)' /\ call'.hashes[j] = HashAt(call.toBlock)'
  BY <1>t, <1>2, <1>3, <1>5 DEF CallVouched, Has
<1>7. CallVouched'
  BY <1>2, <1>6 DEF CallVouched
<1>8. QED
  BY <1>1, <1>4, <1>7

\* A checkpoint is created: the more there are, the more is seen.
LEMMA CreateStep ==
  ASSUME DiscoveryInv, NEW k \in Keys, createPendingCheckpoint(k)
  PROVE  ChainIsBounded' /\ OneKindOfTrouble' /\ Vouched' /\ CallIsWhole' /\ CallVouched'
<1>t. /\ TypeOK /\ ChainIsBounded /\ OneKindOfTrouble /\ Vouched /\ CallIsWhole /\ CallVouched
      /\ UNCHANGED <<chain, epoch, top, watermarks, hashes, call, failedReads>>
      /\ pending \subseteq pending' /\ call.pc = "save"
  BY DEF DiscoveryInv, createPendingCheckpoint, chainVars
<1>1. /\ \A j, h : /\ Seen(j, h) => Seen(j, h)'
                   /\ Emitted(j, h)' <=> Emitted(j, h)
      /\ \A h : HashAt(h)' = HashAt(h) /\ RolledBack(h)' = RolledBack(h)
  BY <1>t DEF Seen, Emitted, HashAt, RolledBack
<1>2. ChainIsBounded' /\ OneKindOfTrouble' /\ CallIsWhole'
  BY <1>t DEF ChainIsBounded, OneKindOfTrouble, CallIsWhole
<1>3. ASSUME NEW j \in DOMAIN watermarks, VouchedByNumber(j) PROVE VouchedByNumber(j)'
  BY <1>t, <1>1, <1>3 DEF VouchedByNumber
<1>4. ASSUME NEW j \in DOMAIN watermarks, VouchedByHash(j) PROVE VouchedByHash(j)'
  BY <1>t, <1>1, <1>4 DEF VouchedByHash, Has
<1>5. CallVouched'
  BY <1>t, <1>1 DEF CallVouched, Has
<1>6. QED
  BY <1>t, <1>2, <1>3, <1>4, <1>5 DEF Vouched

\* The watermarks are saved: each is the last block of the call and has its hash.
LEMMA SaveStep ==
  ASSUME DiscoveryInv, saveWatermarks
  PROVE  ChainIsBounded' /\ OneKindOfTrouble' /\ Vouched' /\ CallIsWhole' /\ CallVouched'
<1>t. /\ TypeOK /\ ChainIsBounded /\ OneKindOfTrouble /\ CallIsWhole /\ CallVouched
      /\ call.pc = "save" /\ call.found \subseteq pending
      /\ call.toBlock \in DOMAIN chain
      /\ DOMAIN call.start = call.targets /\ call.scanned = call.targets
      /\ UNCHANGED <<chain, epoch, top, pending, failedReads>>
      /\ watermarks' = Merged(call.start, call.targets, call.toBlock)
      /\ hashes' = call.hashes /\ call' = IdleCall
      /\ Len(chain) \in Nat /\ DOMAIN chain = 1 .. Len(chain) /\ Len(chain) <= top
      /\ top \in Nat
  BY ChainFacts DEF DiscoveryInv, saveWatermarks, chainVars, ToCreate, CallIsWhole
<1>1. ChainIsBounded' /\ OneKindOfTrouble'
  BY <1>t DEF ChainIsBounded, OneKindOfTrouble
<1>2. /\ DOMAIN watermarks' = call.targets
      /\ \A k \in call.targets : watermarks'[k] = call.toBlock
  BY <1>t DEF Merged
<1>3. ASSUME NEW k \in call.targets PROVE Seen(k, call.toBlock)
  BY <1>t DEF CallVouched, Seen
<1>4. ASSUME NEW k \in DOMAIN watermarks'
      PROVE  watermarks'[k] = call.toBlock /\ Seen(k, watermarks[k])' /\ k \in call.targets
  BY <1>t, <1>2, <1>3 DEF Seen, Emitted
<1>5. ASSUME NEW k \in DOMAIN watermarks' PROVE VouchedByNumber(k)'
  BY <1>t, <1>4 DEF VouchedByNumber
<1>6. ASSUME NEW k \in DOMAIN watermarks', failedReads = 0 PROVE VouchedByHash(k)'
  <2>1. /\ k \in DOMAIN hashes' /\ hashes'[k] = HashAt(call.toBlock)
        /\ hashes'[k].height = watermarks'[k] /\ hashes'[k].epoch = chain[call.toBlock].epoch
    BY <1>t, <1>4, <1>6 DEF CallVouched, Has, HashAt
  <2>2. hashes'[k].epoch <= epoch
    BY <1>t, <2>1 DEF ChainIsBounded
  <2>3. Seen(k, RolledBack(watermarks[k]))'
    <3>1. call.toBlock \in Height /\ RolledBack(call.toBlock) \in Int /\ call.toBlock \in Int
          /\ RolledBack(call.toBlock) <= call.toBlock
      BY <1>t, HeightFacts, BoundsAssumption DEF Height
    <3>2. Seen(k, RolledBack(call.toBlock))
      BY <1>3, <1>4, <1>t, <3>1, SeenBelow
    <3>3. QED
      BY <1>t, <1>4, <3>2 DEF Seen, Emitted, RolledBack
  <2>4. QED
    BY <1>t, <1>4, <2>1, <2>2, <2>3 DEF VouchedByHash, Has
<1>7. CallIsWhole' /\ CallVouched'
  BY <1>t, NoEntriesFacts DEF CallIsWhole, CallVouched, IdleCall
<1>8. QED
  BY <1>t, <1>1, <1>4, <1>5, <1>6, <1>7 DEF Vouched

-----------------------------------------------------------------------------
(* Nothing is missed.                                                      *)

\* The invariant is inductive where reorgs and failed reads exclude each other and no
\* scan is left with one block.
LEMMA DiscoveryStep ==
  ASSUME ~Together, ~SingleBlocks
  PROVE  DiscoveryInv /\ [Next]_vars => DiscoveryInv'
<1> SUFFICES ASSUME DiscoveryInv, [Next]_vars PROVE DiscoveryInv'
  OBVIOUS
<1>t. TypeOK' /\ TypeOK /\ CallIsWhole
  BY TypeStep DEF DiscoveryInv
<1>r. ASSUME UNCHANGED <<chainVars, cacheVars>>,
             failedReads' = failedReads \/ (failedReads' = failedReads + 1 /\ epoch = 0),
             CallIsWhole', CallVouched'
      PROVE  DiscoveryInv'
  BY <1>r, <1>t, CallReads DEF DiscoveryInv
<1>1. CASE Mine
  BY <1>1, <1>t, MineVouches, MineCall DEF DiscoveryInv
<1>2. CASE Reorg
  BY <1>2, <1>t, ReorgVouches DEF DiscoveryInv
<1>3. ASSUME NEW targets \in SUBSET Keys, NEW toBlock \in DOMAIN chain, discoverAll(targets, toBlock)
      PROVE  DiscoveryInv'
  BY <1>3, <1>r, DiscoverAllStep DEF discoverAll
<1>4. ASSUME NEW k \in Keys, verifyWatermark(k) PROVE DiscoveryInv'
  <2>1. /\ ResumeFrom(k) \in Height /\ ResumeFrom(k) <= Len(chain) /\ Seen(k, ResumeFrom(k))
        /\ ResumeFrom(k) \in MayResumeFrom(k)
    BY <1>t, ResumeTyped, ResumeVouched DEF MayResumeFrom
  <2>2. CallIsWhole' /\ CallVouched'
    BY <1>4, <2>1, VerifiedStep DEF verifyWatermark
  <2>3. QED
    BY <1>4, <1>r, <2>2 DEF verifyWatermark
<1>5. ASSUME NEW k \in Keys, verifyWatermarkFails(k) PROVE DiscoveryInv'
  <2>1. epoch = 0 /\ ReadMayFail /\ Has(watermarks, k)
    BY <1>5 DEF verifyWatermarkFails, ReadMayFail
  <2>2. /\ watermarks[k] \in Height /\ watermarks[k] <= Len(chain) /\ Seen(k, watermarks[k])
        /\ watermarks[k] \in MayResumeFrom(k)
    BY <1>t, <2>1, ResumeTyped DEF MayResumeFrom, DiscoveryInv, Vouched, VouchedByNumber, Has
  <2>3. CallIsWhole' /\ CallVouched'
    BY <1>5, <2>1, <2>2, VerifiedStep DEF verifyWatermarkFails
  <2>4. QED
    BY <1>5, <1>r, <2>1, <2>3 DEF verifyWatermarkFails
<1>6. ASSUME NEW k \in Keys, scan(k) PROVE DiscoveryInv'
  BY <1>6, <1>r, ScanStep DEF scan
<1>7. CASE readToBlockHash \/ readToBlockHashFails
  BY <1>7, <1>r, HashStep DEF readToBlockHash, readToBlockHashFails
<1>8. ASSUME NEW k \in Keys, createPendingCheckpoint(k) PROVE DiscoveryInv'
  BY <1>8, <1>t, CreateStep DEF DiscoveryInv
<1>9. CASE saveWatermarks
  BY <1>9, <1>t, SaveStep DEF DiscoveryInv
<1>10. CASE Abort
  <2>1. CallIsWhole' /\ CallVouched'
    BY <1>10, NoEntriesFacts DEF Abort, CallIsWhole, CallVouched, IdleCall
  <2>2. QED
    BY <1>10, <1>r, <2>1 DEF Abort
<1>11. CASE UNCHANGED vars
  <2>1. UNCHANGED <<chainVars, cacheVars, chain, pending, call, failedReads>>
    BY <1>11 DEF vars, chainVars, cacheVars
  <2>2. CallIsWhole' /\ CallVouched'
    BY <2>1, CallReads DEF CallIsWhole, CallVouched, DiscoveryInv, Has
  <2>3. QED
    BY <1>r, <2>1, <2>2
<1>12. QED
  BY <1>1, <1>2, <1>3, <1>4, <1>5, <1>6, <1>7, <1>8, <1>9, <1>10, <1>11 DEF Next, Continue

\* No proposal is ever out of sight: what a later call will not scan again has its
\* checkpoint, whatever was reorganised since and wherever calls were cut short.  The
\* two hypotheses exclude what is known to lose proposals.
THEOREM NothingIsEverMissed ==
  ASSUME ~Together, ~SingleBlocks
  PROVE  Spec => []NothingIsMissed
<1>1. Init => DiscoveryInv
  <2>1. Init => TypeOK
    BY TypeInit
  <2>2. Init => ChainIsBounded /\ OneKindOfTrouble /\ Vouched /\ CallIsWhole /\ CallVouched
    BY NoEntriesFacts, BoundsAssumption
       DEF Init, ChainIsBounded, OneKindOfTrouble, Vouched, CallIsWhole, CallVouched, IdleCall
  <2>3. QED
    BY <2>1, <2>2 DEF DiscoveryInv
<1>2. DiscoveryInv /\ [Next]_vars => DiscoveryInv'
  BY DiscoveryStep
<1>3. DiscoveryInv => NothingIsMissed
  BY ResumeVouched DEF NothingIsMissed, Seen
<1>4. QED
  BY <1>1, <1>2, <1>3, PTL DEF Spec

=============================================================================
