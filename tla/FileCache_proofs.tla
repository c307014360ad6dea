--------------------------- MODULE FileCache_proofs ---------------------------
(***************************************************************************)
(* Type correctness of the file cache, what its watermark vouches for and  *)
(* what a process may believe of the file, for any number of monitors and  *)
(* trackers, any chain and any bound on starts, crashes and failed writes. *)
(*                                                                         *)
(* None of them is inductive.  The type of a queue needs what bounds its   *)
(* length: the updates of a tracker, or the one flush of a monitor.  That  *)
(* the file is what a process has written needs that no other process is   *)
(* writing while one believes itself alone, and that a file which exists   *)
(* is never replaced by the bundled one.                                   *)
(***************************************************************************)
EXTENDS FileCache, TLAPS

\* A tracker has at most as many writes waiting as it made updates; a monitor has
\* at most one, and only once it flushes.
QueuesAreBounded ==
  \A p \in Processes :
    /\ phase[p] = "down" => queued[p] = 0
    /\ phase[p] = "writing" => queued[p] > 0
    /\ p \in Trackers => queued[p] <= steps[p]
    /\ p \in Monitors => queued[p] <= 1 /\ (phase[p] = "up" => queued[p] = 0)

Typed == TypeOK /\ QueuesAreBounded

Vouched(m, gone) == 1 .. m.mark \subseteq m.stored \cup gone

\* No process that counts as alone is beside one that is writing.
AloneIsAlone ==
  \A p, q \in Processes :
    phase[p] # "down" /\ alone[p] /\ p # q => phase[q] # "writing"

\* The first process to start leaves a file behind, and nothing removes it.
FileExists == (\E p \in Processes : phase[p] # "down") => file.kind # "absent"

CacheInv == Typed /\ WatermarkVouches

WrittenInv == Typed /\ AloneIsAlone /\ FileExists /\ WrittenIsStored

-----------------------------------------------------------------------------
(* Maps and files.                                                         *)

\* A map is written to a file and read back as it was; a torn file reads as empty.
LEMMA LoadFacts ==
  /\ Empty \in Map /\ Torn \in File /\ load(Torn) = Empty
  /\ \A m \in Map : Whole(m) \in File /\ load(Whole(m)) = m
  /\ \A f \in File : load(f) \in Map
BY CacheBounds DEF Empty, Map, Torn, File, load, Whole, Blocks

\* The file a process starts with exists, and is the one there was if there was one.
LEMMA BootstrapFacts ==
  ASSUME file \in File
  PROVE  /\ Bootstrapped \in File /\ Bootstrapped.kind # "absent"
         /\ file.kind # "absent" => Bootstrapped = file
<1>1. BundledFile \in File /\ BundledFile.kind = "whole"
  BY CacheBounds DEF BundledFile, Whole, File, Map, Blocks
<1>2. QED
  BY <1>1 DEF Bootstrapped

\* Storing, deleting and moving the watermark give a map.
LEMMA MapUpdates ==
  ASSUME NEW m \in Map
  PROVE  /\ \A b \in Blocks : /\ [m EXCEPT !.stored = @ \cup {b}] \in Map
                              /\ [m EXCEPT !.stored = @ \ {b}] \in Map
         /\ \A t \in 0 .. MaxBlock : [m EXCEPT !.mark = t] \in Map
BY DEF Map

-----------------------------------------------------------------------------
(* Type correctness.                                                       *)

\* An update of a process that is up keeps the types of the map, the flag and the queue.
LEMMA UpdateTyped ==
  ASSUME Typed, NEW p \in Processes, NEW m \in Map, phase[p] = "up",
         update(p, m), UNCHANGED phase,
         IF p \in Trackers THEN Count(p) ELSE UNCHANGED steps
  PROVE  /\ cache' \in [Processes -> Map] /\ dirty' \in [Processes -> BOOLEAN]
         /\ queued' \in [Processes -> 0 .. MaxSteps + 1]
         /\ steps' \in [Trackers -> 0 .. MaxSteps]
         /\ QueuesAreBounded'
<1>1. /\ cache' \in [Processes -> Map] /\ dirty' \in [Processes -> BOOLEAN]
  BY DEF Typed, TypeOK, update
<1>2. CASE p \in Trackers
  <2>1. /\ p \notin Monitors
        /\ queued' = [queued EXCEPT ![p] = @ + 1] /\ steps' = [steps EXCEPT ![p] = @ + 1]
        /\ queued[p] <= steps[p] /\ steps[p] < MaxSteps
    BY <1>2, CacheBounds DEF Typed, QueuesAreBounded, update, Count
  <2>2. steps' \in [Trackers -> 0 .. MaxSteps] /\ queued' \in [Processes -> 0 .. MaxSteps + 1]
    BY <1>2, <2>1, CacheBounds DEF Typed, TypeOK
  <2>3. QueuesAreBounded'
    BY <1>2, <2>1, CacheBounds DEF Typed, TypeOK, QueuesAreBounded
  <2>4. QED
    BY <1>1, <2>2, <2>3
<1>3. CASE p \notin Trackers
  <2>1. queued' = queued /\ steps' = steps
    BY <1>3, CacheBounds DEF update, Typed, TypeOK
  <2>2. QED
    BY <1>1, <2>1 DEF Typed, TypeOK, QueuesAreBounded
<1>4. QED
  BY <1>2, <1>3

\* At the start no process runs and there is no file.
LEMMA TypedInit == Init => Typed
BY CacheBounds, LoadFacts DEF Init, Typed, TypeOK, QueuesAreBounded, File, Torn, Phase, Blocks

\* A start: the process has the map of the file and nothing to write.
LEMMA StartTyped ==
  ASSUME Typed, NEW p \in Processes, phase[p] = "down", StartWith(p, Bootstrapped),
         target' \in [Monitors -> 0 .. MaxBlock],
         IF p \in Trackers THEN Count(p) ELSE UNCHANGED steps
  PROVE  Typed'
<1>1. file \in File
  BY DEF Typed, TypeOK
<1>2. Bootstrapped \in File /\ load(Bootstrapped) \in Map
  BY <1>1, BootstrapFacts, LoadFacts
<1>3. /\ steps' \in [Trackers -> 0 .. MaxSteps]
      /\ \A q \in Trackers : steps[q] <= steps'[q]
  BY CacheBounds DEF Typed, TypeOK, Count
<1>4. TypeOK'
  BY <1>2, <1>3 DEF Typed, TypeOK, StartWith, Phase
<1>5. QueuesAreBounded'
  BY <1>3, CacheBounds DEF Typed, TypeOK, QueuesAreBounded, StartWith
<1>6. QED
  BY <1>4, <1>5 DEF Typed

\* Every step keeps the types and the bounds on the queues.
LEMMA TypedStep == Typed /\ [Next]_vars => Typed'
<1> SUFFICES ASSUME Typed, [Next]_vars PROVE Typed'
  OBVIOUS
<1> USE CacheBounds
<1>1. CASE Mine
  BY <1>1 DEF Mine, Typed, TypeOK, QueuesAreBounded, processVars, boundVars
<1>2. ASSUME NEW p \in Processes, beginWrite(p) PROVE Typed'
  <2>1. TypeOK'
    BY <1>2, LoadFacts DEF beginWrite, Typed, TypeOK, Phase, boundVars
  <2>2. QueuesAreBounded'
    BY <1>2 DEF beginWrite, Typed, TypeOK, QueuesAreBounded, boundVars
  <2>3. QED
    BY <2>1, <2>2 DEF Typed
<1>3. ASSUME NEW p \in Processes, endWrite(p) PROVE Typed'
  <2>1. file' \in File
    BY <1>3, LoadFacts DEF endWrite, Typed, TypeOK
  <2>2. queued[p] > 0 /\ queued[p] \in 0 .. MaxSteps + 1
    BY <1>3 DEF endWrite, Typed, TypeOK, QueuesAreBounded
  <2>3. TypeOK'
    BY <1>3, <2>1, <2>2 DEF endWrite, afterWrite, Typed, TypeOK, Phase, boundVars
  <2>4. QueuesAreBounded'
    BY <1>3, <2>2 DEF endWrite, afterWrite, Typed, TypeOK, QueuesAreBounded, boundVars
  <2>5. QED
    BY <2>3, <2>4 DEF Typed
<1>4. ASSUME NEW p \in Processes, failWrite(p) PROVE Typed'
  <2>1. queued[p] > 0 /\ queued[p] \in 0 .. MaxSteps + 1
    BY <1>4 DEF failWrite, Typed, TypeOK, QueuesAreBounded
  <2>2. TypeOK'
    BY <1>4, <2>1 DEF failWrite, Typed, TypeOK, Phase
  <2>3. QueuesAreBounded'
    BY <1>4, <2>1 DEF failWrite, Typed, TypeOK, QueuesAreBounded
  <2>4. QED
    BY <2>2, <2>3 DEF Typed
<1>5. ASSUME NEW p \in Monitors, startMonitor(p) PROVE Typed'
  <2>1. target' \in [Monitors -> 0 .. MaxBlock] /\ p \in Processes /\ p \notin Trackers
    BY <1>5 DEF startMonitor, Typed, TypeOK, Processes
  <2>2. QED
    BY <1>5, <2>1, StartTyped DEF startMonitor
<1>6. ASSUME NEW p \in Trackers, startTracker(p) PROVE Typed'
  <2>1. target' \in [Monitors -> 0 .. MaxBlock] /\ p \in Processes
    BY <1>6 DEF startTracker, Typed, TypeOK, Processes
  <2>2. QED
    BY <1>6, <2>1, StartTyped DEF startTracker
<1>7. ASSUME NEW p \in Monitors, NEW m \in Map, phase[p] = "up", update(p, m),
             UNCHANGED <<head, file, phase, target, forgotten, alone, failed, boundVars>>
      PROVE  Typed'
  <2>1. p \in Processes /\ p \notin Trackers
    BY DEF Processes
  <2>2. QED
    BY <1>7, <2>1, UpdateTyped DEF Typed, TypeOK, boundVars
<1>8. ASSUME NEW p \in Trackers, NEW m \in Map, phase[p] = "up", update(p, m), Count(p),
             UNCHANGED <<head, file, phase, target, alone, failed, crashes, failures>>,
             forgotten' \subseteq Blocks
      PROVE  Typed'
  <2>1. p \in Processes
    BY DEF Processes
  <2>2. QED
    BY <1>8, <2>1, UpdateTyped DEF Typed, TypeOK
<1>9. ASSUME NEW p \in Monitors PROVE cache[p] \in Map /\ target[p] \in 0 .. MaxBlock
  BY DEF Typed, TypeOK, Processes
<1>10. ASSUME NEW p \in Monitors, clear(p) PROVE Typed'
  BY <1>7, <1>10, LoadFacts DEF clear
<1>11. ASSUME NEW p \in Monitors, beginCycle(p) PROVE Typed'
  BY <1>11 DEF beginCycle, Typed, TypeOK, QueuesAreBounded, boundVars
<1>12. ASSUME NEW p \in Monitors, setCheckpoint(p) PROVE Typed'
  <2>1. Missing(p) \subseteq Blocks
    BY <1>9 DEF Missing, Blocks, Map
  <2>2. QED
    BY <1>7, <1>9, <1>12, <2>1, MapUpdates DEF setCheckpoint
<1>13. ASSUME NEW p \in Monitors, setWatermark(p) PROVE Typed'
  BY <1>7, <1>9, <1>13, MapUpdates DEF setWatermark
<1>14. ASSUME NEW p \in Monitors, flush(p) PROVE Typed'
  <2>1. p \in Processes /\ p \notin Trackers
    BY DEF Processes
  <2>2. TypeOK'
    BY <1>14, <2>1 DEF flush, Typed, TypeOK, Phase, boundVars
  <2>3. QueuesAreBounded'
    BY <1>14, <2>1 DEF flush, Typed, TypeOK, QueuesAreBounded, boundVars
  <2>4. QED
    BY <2>2, <2>3 DEF Typed
<1>15. ASSUME NEW p \in Trackers, NEW b \in Blocks, setTracked(p, b) PROVE Typed'
  <2>1. cache[p] \in Map /\ forgotten \subseteq Blocks
    BY DEF Typed, TypeOK, Processes
  <2>2. QED
    BY <1>8, <1>15, <2>1, MapUpdates DEF setTracked
<1>16. ASSUME NEW p \in Trackers, NEW b \in Blocks, clearTxCacheEntries(p, b) PROVE Typed'
  <2>1. cache[p] \in Map /\ forgotten \subseteq Blocks
    BY DEF Typed, TypeOK, Processes
  <2>2. QED
    BY <1>8, <1>16, <2>1, MapUpdates DEF clearTxCacheEntries
<1>17. ASSUME NEW p \in Processes, End(p) PROVE Typed'
  <2>1. TypeOK'
    BY <1>17 DEF End, Typed, TypeOK, Phase, boundVars
  <2>2. QueuesAreBounded'
    BY <1>17 DEF End, Typed, TypeOK, QueuesAreBounded, boundVars
  <2>3. QED
    BY <2>1, <2>2 DEF Typed
<1>18. ASSUME NEW p \in Processes, Crash(p) PROVE Typed'
  <2>1. TypeOK'
    BY <1>18 DEF Crash, Typed, TypeOK, Phase
  <2>2. QueuesAreBounded'
    BY <1>18 DEF Crash, Typed, TypeOK, QueuesAreBounded
  <2>3. QED
    BY <2>1, <2>2 DEF Typed
<1>19. CASE UNCHANGED vars
  BY <1>19 DEF vars, processVars, boundVars, Typed, TypeOK, QueuesAreBounded
<1>20. QED
  BY <1>1, <1>2, <1>3, <1>4, <1>5, <1>6, <1>10, <1>11, <1>12, <1>13, <1>14, <1>15, <1>16,
     <1>17, <1>18, <1>19 DEF Next, Write, Monitor, Tracker

\* FileCache is type correct: maps, files, queues and counters stay within their
\* bounds whatever the processes do, and no queue is longer than what was asked of it.
THEOREM FileCacheTypeCorrect == Spec => []TypeOK
<1>1. Init => Typed
  BY TypedInit
<1>2. Typed => TypeOK
  BY DEF Typed
<1>3. QED
  BY <1>1, <1>2, TypedStep, PTL DEF Spec

-----------------------------------------------------------------------------
(* What a watermark vouches for.                                           *)

\* Watermarks are about the maps of the processes that run and about the file.
LEMMA VouchingMaps ==
  WatermarkVouches <=> /\ Vouched(load(file), forgotten)
                       /\ \A p \in Processes : phase[p] # "down" => Vouched(cache[p], forgotten)
BY DEF WatermarkVouches, Live, Vouched

\* A step that changes no map vouches for the same.
LEMMA SameMaps ==
  ASSUME CacheInv, UNCHANGED <<cache, file>>, forgotten \subseteq forgotten',
         \A p \in Processes : phase'[p] # "down" => phase[p] # "down"
  PROVE  WatermarkVouches'
BY VouchingMaps DEF CacheInv, WatermarkVouches, Live

\* An update of one process vouches for the same if its new map does.
LEMMA UpdateVouches ==
  ASSUME CacheInv, NEW p \in Processes, NEW m, phase[p] # "down",
         Vouched(m, forgotten'), update(p, m), UNCHANGED <<phase, file>>, forgotten \subseteq forgotten'
  PROVE  WatermarkVouches'
<1>1. cache' = [cache EXCEPT ![p] = m] /\ cache \in [Processes -> Map]
  BY DEF CacheInv, Typed, TypeOK, update
<1>2. \A n \in Live' : n = m \/ n \in Live
  BY <1>1 DEF Live
<1>3. QED
  BY <1>2 DEF WatermarkVouches, CacheInv, Vouched

\* A start: what is loaded is what the file, or the bundled cache, vouches for.
LEMMA StartVouches ==
  ASSUME CacheInv, NEW p \in Processes, phase[p] = "down", StartWith(p, Bootstrapped)
  PROVE  WatermarkVouches'
<1>1. Vouched(load(Bootstrapped), forgotten)
  BY VouchingMaps DEF CacheInv, Bootstrapped, BundledFile, Whole, load, Vouched
<1>2. \A n \in Live' : n = load(Bootstrapped) \/ n \in Live
  BY DEF Live, StartWith, CacheInv, Typed, TypeOK
<1>3. QED
  BY <1>1, <1>2 DEF WatermarkVouches, CacheInv, Vouched, StartWith

\* No step breaks what a watermark vouches for.
LEMMA CacheStep == CacheInv /\ [Next]_vars => WatermarkVouches'
<1> SUFFICES ASSUME CacheInv, [Next]_vars PROVE WatermarkVouches'
  OBVIOUS
<1> USE CacheBounds
<1>t. /\ phase \in [Processes -> Phase] /\ forgotten \subseteq Blocks
      /\ cache \in [Processes -> Map] /\ target \in [Monitors -> 0 .. MaxBlock]
      /\ Monitors \subseteq Processes /\ Trackers \subseteq Processes
      /\ WatermarkVouches
  BY DEF CacheInv, Typed, TypeOK, Processes
<1>m. ASSUME NEW p \in Processes, phase[p] # "down" PROVE Vouched(cache[p], forgotten) /\ cache[p] \in Map
  BY <1>m, <1>t, VouchingMaps
<1>1. CASE Mine
  BY <1>1, SameMaps DEF Mine, processVars
<1>2. ASSUME NEW p \in Processes, beginWrite(p) PROVE WatermarkVouches'
  <2>1. \A n \in Live' : n = Empty \/ n \in Live
    BY <1>2, <1>t, LoadFacts DEF beginWrite, Live
  <2>2. QED
    BY <1>2, <1>t, <2>1 DEF beginWrite, WatermarkVouches, Empty
<1>3. ASSUME NEW p \in Processes, endWrite(p) PROVE WatermarkVouches'
  <2>1. cache[p] \in Live /\ Vouched(Empty, forgotten)
    BY <1>3 DEF endWrite, Live, Vouched, Empty
  <2>2. load(file') \in {cache[p], Empty}
    BY <1>3, <1>t, LoadFacts DEF endWrite
  <2>3. \A q \in Processes : phase'[q] # "down" => phase[q] # "down"
    BY <1>3, <1>t DEF endWrite
  <2>4. \A n \in Live' : n = Empty \/ n \in Live
    BY <1>3, <2>1, <2>2, <2>3 DEF endWrite, Live
  <2>5. QED
    BY <1>3, <1>t, <2>1, <2>4 DEF endWrite, WatermarkVouches, Vouched
<1>4. ASSUME NEW p \in Processes, failWrite(p) PROVE WatermarkVouches'
  BY <1>4, <1>t, SameMaps DEF failWrite
<1>5. ASSUME NEW p \in Monitors, startMonitor(p) PROVE WatermarkVouches'
  BY <1>5, <1>t, StartVouches DEF startMonitor
<1>6. ASSUME NEW p \in Trackers, startTracker(p) PROVE WatermarkVouches'
  BY <1>6, <1>t, StartVouches DEF startTracker
<1>7. ASSUME NEW p \in Monitors, clear(p) PROVE WatermarkVouches'
  <2>1. Vouched(Empty, forgotten')
    BY DEF Vouched, Empty
  <2>2. QED
    BY <1>7, <1>t, <2>1, UpdateVouches DEF clear
<1>8. ASSUME NEW p \in Monitors, beginCycle(p) PROVE WatermarkVouches'
  BY <1>8, SameMaps DEF beginCycle
<1>9. ASSUME NEW p \in Monitors, setCheckpoint(p) PROVE WatermarkVouches'
  <2>1. PICK b \in Missing(p) : update(p, [cache[p] EXCEPT !.stored = @ \cup {b}])
    BY <1>9 DEF setCheckpoint
  <2>2. Vouched(cache[p], forgotten) /\ cache[p] \in Map /\ phase[p] = "up" /\ forgotten' = forgotten
    BY <1>9, <1>t, <1>m DEF setCheckpoint
  <2>3. Vouched([cache[p] EXCEPT !.stored = @ \cup {b}], forgotten')
    BY <2>2 DEF Vouched, Map
  <2>4. QED
    BY <1>9, <1>t, <2>1, <2>2, <2>3, UpdateVouches DEF setCheckpoint
<1>10. ASSUME NEW p \in Monitors, setWatermark(p) PROVE WatermarkVouches'
  <2>1. /\ Vouched(cache[p], forgotten) /\ cache[p] \in Map /\ phase[p] = "up" /\ forgotten' = forgotten
        /\ Missing(p) = {} /\ target[p] \in Nat
    BY <1>10, <1>t, <1>m DEF setWatermark
  <2>2. \A b \in 1 .. target[p] : b \in cache[p].stored \cup forgotten
    <3> SUFFICES ASSUME NEW b \in 1 .. target[p] PROVE b \in cache[p].stored \cup forgotten
      OBVIOUS
    <3>1. CASE b <= cache[p].mark
      BY <2>1, <3>1 DEF Vouched, Map
    <3>2. CASE b > cache[p].mark
      BY <2>1, <3>2 DEF Missing, Map
    <3>3. QED
      BY <2>1, <3>1, <3>2 DEF Map
  <2>3. Vouched([cache[p] EXCEPT !.mark = target[p]], forgotten')
    BY <2>1, <2>2 DEF Vouched, Map
  <2>4. QED
    BY <1>10, <1>t, <2>1, <2>3, UpdateVouches DEF setWatermark
<1>11. ASSUME NEW p \in Monitors, flush(p) PROVE WatermarkVouches'
  BY <1>11, <1>t, SameMaps DEF flush
<1>12. ASSUME NEW p \in Trackers, NEW b \in Blocks, setTracked(p, b) PROVE WatermarkVouches'
  <2>1. Vouched(cache[p], forgotten) /\ cache[p] \in Map /\ phase[p] = "up" /\ forgotten' = forgotten
    BY <1>12, <1>t, <1>m DEF setTracked
  <2>2. Vouched([cache[p] EXCEPT !.stored = @ \cup {b}], forgotten')
    BY <2>1 DEF Vouched, Map
  <2>3. QED
    BY <1>12, <1>t, <2>1, <2>2, UpdateVouches DEF setTracked
<1>13. ASSUME NEW p \in Trackers, NEW b \in Blocks, clearTxCacheEntries(p, b)
       PROVE  WatermarkVouches'
  <2>1. /\ Vouched(cache[p], forgotten) /\ cache[p] \in Map /\ phase[p] = "up"
        /\ forgotten' = forgotten \cup {b}
    BY <1>13, <1>t, <1>m DEF clearTxCacheEntries
  <2>2. Vouched([cache[p] EXCEPT !.stored = @ \ {b}], forgotten')
    BY <2>1 DEF Vouched, Map
  <2>3. QED
    BY <1>13, <1>t, <2>1, <2>2, UpdateVouches DEF clearTxCacheEntries
<1>14. ASSUME NEW p \in Processes, End(p) PROVE WatermarkVouches'
  BY <1>14, <1>t, SameMaps DEF End
<1>15. ASSUME NEW p \in Processes, Crash(p) PROVE WatermarkVouches'
  BY <1>15, <1>t, SameMaps DEF Crash
<1>16. CASE UNCHANGED vars
  BY <1>16, SameMaps DEF vars, processVars
<1>17. QED
  BY <1>1, <1>2, <1>3, <1>4, <1>5, <1>6, <1>7, <1>8, <1>9, <1>10, <1>11, <1>12, <1>13,
     <1>14, <1>15, <1>16 DEF Next, Write, Monitor, Tracker

\* The watermark of the file and of every running process vouches: no interleaving of
\* torn, failed, lost and overwritten writes keeps it without its checkpoints.
THEOREM WatermarkAlwaysVouches == Spec => []WatermarkVouches
<1>1. Init => CacheInv
  <2>1. Init => Typed
    BY TypedInit
  <2>2. Init => WatermarkVouches
    BY DEF Init, WatermarkVouches, Live, load, Torn, Empty
  <2>3. QED
    BY <2>1, <2>2 DEF CacheInv
<1>2. CacheInv /\ [Next]_vars => CacheInv'
  BY TypedStep, CacheStep DEF CacheInv
<1>3. CacheInv => WatermarkVouches
  BY DEF CacheInv
<1>4. QED
  BY <1>1, <1>2, <1>3, PTL DEF Spec

-----------------------------------------------------------------------------
(* What a process may believe of the file.                                 *)

\* Only the start of a process and a beginning write change who is alone beside whom.
LEMMA AloneStep == WrittenInv /\ [Next]_vars => AloneIsAlone'
<1> SUFFICES ASSUME WrittenInv, [Next]_vars PROVE AloneIsAlone'
  OBVIOUS
<1>t. /\ phase \in [Processes -> Phase] /\ alone \in [Processes -> BOOLEAN] /\ AloneIsAlone
      /\ Monitors \subseteq Processes /\ Trackers \subseteq Processes
  BY DEF WrittenInv, Typed, TypeOK, Processes
<1>1. ASSUME NEW p \in Processes, beginWrite(p) PROVE AloneIsAlone'
  BY <1>1, <1>t DEF beginWrite, AloneIsAlone
<1>2. ASSUME NEW p \in Processes, phase[p] = "down", StartWith(p, Bootstrapped)
      PROVE  AloneIsAlone'
  BY <1>2, <1>t DEF StartWith, AloneIsAlone
<1>3. ASSUME UNCHANGED alone, phase' \in [Processes -> Phase],
             \A p \in Processes : /\ phase'[p] # "down" => phase[p] # "down"
                                  /\ phase'[p] = "writing" => phase[p] = "writing"
      PROVE  AloneIsAlone'
  BY <1>3, <1>t DEF AloneIsAlone
<1>4. ASSUME NEW p \in Processes, endWrite(p) \/ failWrite(p) \/ End(p) \/ Crash(p)
      PROVE  AloneIsAlone'
  BY <1>3, <1>4, <1>t DEF endWrite, afterWrite, failWrite, End, Crash, Phase
<1>5. ASSUME NEW p \in Monitors, flush(p) PROVE AloneIsAlone'
  BY <1>3, <1>5, <1>t DEF flush, Phase
<1>6. ASSUME NEW p \in Monitors,
             clear(p) \/ beginCycle(p) \/ setCheckpoint(p) \/ setWatermark(p)
      PROVE  AloneIsAlone'
  BY <1>3, <1>6, <1>t DEF clear, beginCycle, setCheckpoint, setWatermark
<1>7. ASSUME NEW p \in Trackers, NEW b \in Blocks, setTracked(p, b) \/ clearTxCacheEntries(p, b)
      PROVE  AloneIsAlone'
  BY <1>3, <1>7, <1>t DEF setTracked, clearTxCacheEntries
<1>8. CASE Mine \/ UNCHANGED vars
  BY <1>3, <1>8, <1>t DEF Mine, vars, processVars
<1>9. QED
  BY <1>1, <1>2, <1>4, <1>5, <1>6, <1>7, <1>8, <1>t
     DEF Next, Write, Monitor, Tracker, startMonitor, startTracker

\* The file exists as long as a process runs.
LEMMA FileStep == WrittenInv /\ [Next]_vars => FileExists'
<1> SUFFICES ASSUME WrittenInv, [Next]_vars PROVE FileExists'
  OBVIOUS
<1>t. /\ phase \in [Processes -> Phase] /\ file \in File /\ FileExists
      /\ Monitors \subseteq Processes /\ Trackers \subseteq Processes
  BY DEF WrittenInv, Typed, TypeOK, Processes
<1>1. ASSUME NEW p \in Processes, beginWrite(p) \/ endWrite(p) PROVE FileExists'
  BY <1>1 DEF beginWrite, endWrite, FileExists, Torn, Whole
<1>2. ASSUME NEW p \in Processes, StartWith(p, Bootstrapped) PROVE FileExists'
  BY <1>2, <1>t, BootstrapFacts DEF StartWith, FileExists
<1>3. ASSUME UNCHANGED file,
             \A p \in Processes : phase'[p] # "down" => phase[p] # "down"
      PROVE  FileExists'
  BY <1>3, <1>t DEF FileExists
<1>4. ASSUME NEW p \in Processes, failWrite(p) \/ End(p) \/ Crash(p) PROVE FileExists'
  BY <1>3, <1>4, <1>t DEF failWrite, End, Crash, afterWrite
<1>5. ASSUME NEW p \in Monitors,
             clear(p) \/ beginCycle(p) \/ setCheckpoint(p) \/ setWatermark(p) \/ flush(p)
      PROVE  FileExists'
  BY <1>3, <1>5, <1>t DEF clear, beginCycle, setCheckpoint, setWatermark, flush
<1>6. ASSUME NEW p \in Trackers, NEW b \in Blocks, setTracked(p, b) \/ clearTxCacheEntries(p, b)
      PROVE  FileExists'
  BY <1>3, <1>6 DEF setTracked, clearTxCacheEntries
<1>7. CASE Mine \/ UNCHANGED vars
  BY <1>3, <1>7 DEF Mine, vars, processVars
<1>8. QED
  BY <1>1, <1>2, <1>4, <1>5, <1>6, <1>7, <1>t
     DEF Next, Write, Monitor, Tracker, startMonitor, startTracker

\* What a process believes of the file stays true in every step.
LEMMA WrittenStep == WrittenInv /\ [Next]_vars => WrittenIsStored'
<1> SUFFICES ASSUME WrittenInv, [Next]_vars PROVE WrittenIsStored'
  OBVIOUS
<1> USE CacheBounds
<1>t. /\ phase \in [Processes -> Phase] /\ file \in File
      /\ queued \in [Processes -> 0 .. MaxSteps + 1]
      /\ cache \in [Processes -> Map] /\ alone \in [Processes -> BOOLEAN]
      /\ dirty \in [Processes -> BOOLEAN] /\ failed \in [Processes -> BOOLEAN]
      /\ Monitors \subseteq Processes /\ Trackers \subseteq Processes
      /\ \A p \in Monitors : p \notin Trackers
      /\ WrittenIsStored /\ AloneIsAlone /\ FileExists /\ QueuesAreBounded
  BY DEF WrittenInv, Typed, TypeOK, Processes
<1>1. CASE Mine \/ UNCHANGED vars
  BY <1>1, <1>t DEF Mine, vars, processVars, WrittenIsStored
<1>2. ASSUME NEW p \in Processes, beginWrite(p) PROVE WrittenIsStored'
  BY <1>2, <1>t DEF beginWrite, WrittenIsStored
<1>3. ASSUME NEW p \in Processes, endWrite(p) PROVE WrittenIsStored'
  <2>1. ASSUME NEW q \in Processes, q # p PROVE ~(alone'[q] /\ phase'[q] # "down")
    BY <1>3, <1>t, <2>1 DEF endWrite, AloneIsAlone
  <2>2. ASSUME alone[p] PROVE load(file') = cache'[p]
    <3>1. \A q \in Processes \ {p} : phase[q] # "writing"
      BY <1>3, <1>t, <2>2 DEF endWrite, AloneIsAlone
    <3>2. QED
      BY <1>3, <1>t, <3>1, LoadFacts DEF endWrite
  <2>3. QED
    BY <1>3, <2>1, <2>2 DEF endWrite, WrittenIsStored
<1>4. ASSUME NEW p \in Processes, failWrite(p) PROVE WrittenIsStored'
  <2>1. p \in Monitors \/ p \in Trackers
    BY DEF Processes
  <2>2. QED
    BY <1>4, <1>t, <2>1 DEF failWrite, WrittenIsStored
<1>5. ASSUME NEW p \in Processes, phase[p] = "down", StartWith(p, Bootstrapped)
      PROVE  WrittenIsStored'
  <2>1. ASSUME NEW q \in Processes, q # p, phase[q] # "down" PROVE file' = file
    BY <1>5, <1>t, <2>1, BootstrapFacts DEF StartWith, FileExists
  <2>2. QED
    BY <1>5, <1>t, <2>1 DEF StartWith, WrittenIsStored
<1>6. ASSUME NEW p \in Monitors, NEW m, phase[p] = "up", update(p, m),
             UNCHANGED <<file, phase, alone, failed>>
      PROVE  WrittenIsStored'
  BY <1>6, <1>t DEF update, WrittenIsStored
<1>7. ASSUME NEW p \in Monitors,
             clear(p) \/ setCheckpoint(p) \/ setWatermark(p)
      PROVE  WrittenIsStored'
  BY <1>6, <1>7 DEF clear, setCheckpoint, setWatermark
<1>8. ASSUME NEW p \in Monitors, beginCycle(p) PROVE WrittenIsStored'
  BY <1>8, <1>t DEF beginCycle, WrittenIsStored
<1>9. ASSUME NEW p \in Monitors, flush(p) PROVE WrittenIsStored'
  BY <1>9, <1>t DEF flush, WrittenIsStored, QueuesAreBounded
<1>10. ASSUME NEW p \in Trackers, NEW m, phase[p] = "up", update(p, m),
              UNCHANGED <<file, phase, alone, failed>>
       PROVE  WrittenIsStored'
  <2>1. /\ queued'[p] > 0
        /\ \A q \in Processes \ {p} :
             cache'[q] = cache[q] /\ dirty'[q] = dirty[q] /\ queued'[q] = queued[q]
    BY <1>10, <1>t DEF update
  <2>2. QED
    BY <1>10, <1>t, <2>1 DEF WrittenIsStored
<1>11. ASSUME NEW p \in Trackers, NEW b \in Blocks, setTracked(p, b) \/ clearTxCacheEntries(p, b)
       PROVE  WrittenIsStored'
  BY <1>10, <1>11 DEF setTracked, clearTxCacheEntries
<1>12. ASSUME NEW p \in Processes, End(p) \/ Crash(p) PROVE WrittenIsStored'
  BY <1>12, <1>t DEF End, Crash, WrittenIsStored
<1>13. QED
  BY <1>1, <1>2, <1>3, <1>4, <1>5, <1>7, <1>8, <1>9, <1>11, <1>12, <1>t
     DEF Next, Write, Monitor, Tracker, startMonitor, startTracker

\* What a process has been told is written is what the next one loads, unless another
\* process has written in between or a write of its own has failed.
THEOREM WrittenStaysStored == Spec => []WrittenIsStored
<1>1. Init => WrittenInv
  <2>1. Init => Typed
    BY TypedInit
  <2>2. Init => AloneIsAlone /\ FileExists /\ WrittenIsStored
    BY DEF Init, AloneIsAlone, FileExists, WrittenIsStored
  <2>3. QED
    BY <2>1, <2>2 DEF WrittenInv
<1>2. WrittenInv /\ [Next]_vars => WrittenInv'
  BY TypedStep, AloneStep, FileStep, WrittenStep DEF WrittenInv
<1>3. WrittenInv => WrittenIsStored
  BY DEF WrittenInv
<1>4. QED
  BY <1>1, <1>2, <1>3, PTL DEF Spec

=============================================================================
