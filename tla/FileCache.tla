------------------------------ MODULE FileCache ------------------------------
(***************************************************************************)
(* FileCache: a map in the memory of a process and the JSON file behind it.*)
(*                                                                         *)
(* The file is read once, when the process starts, and rewritten whole, in *)
(* place, at every write.  Processes share the file and nothing else: the  *)
(* monitor (gov-tracker run, autoFlush off) writes it once, at its end;    *)
(* gov-tracker track (autoFlush on) writes it at every set.                *)
(*                                                                         *)
(* What is stored is a watermark and a checkpoint for the proposal of each *)
(* block; the monitor stores the checkpoints of the blocks it scanned and  *)
(* then the watermark, which is what makes losing an entry dangerous.      *)
(***************************************************************************)
EXTENDS Naturals, FiniteSets

CONSTANTS Monitors,       \* processes with autoFlush off
          Trackers,       \* processes with autoFlush on
          MaxBlock,       \* bound on the L2 chain
          Bundled,        \* last block the bundled cache covers
          MaxSteps,       \* bound on the starts and updates of each tracker
          MaxCrashes,     \* bound on processes that die
          MaxFailures     \* bound on writes that fail

ASSUME CacheBounds ==
  /\ MaxBlock \in Nat /\ Bundled \in 1 .. MaxBlock /\ MaxSteps \in Nat
  /\ MaxCrashes \in Nat /\ MaxFailures \in Nat
  /\ Monitors \cap Trackers = {}

Processes == Monitors \cup Trackers
Blocks    == 1 .. MaxBlock

VARIABLES head,       \* the last L2 block
          file,       \* the cache file
          cache,      \* the map of each process
          phase,      \* what each process is doing
          dirty,      \* its dirty flag
          queued,     \* the writes in its queue
          target,     \* the block a monitor scans up to
          forgotten,  \* ghost: the entries track --force has ever deleted
          alone,      \* ghost: no other process has written since it started
          failed,     \* ghost: a write of it has failed
          steps, crashes, failures

processVars == <<cache, phase, dirty, queued, target, alone, failed>>
boundVars   == <<steps, crashes, failures>>
vars        == <<head, file, processVars, forgotten, boundVars>>

Map   == [mark : 0 .. MaxBlock, stored : SUBSET Blocks]
Empty == [mark |-> 0, stored |-> {}]

\* A file that a write was cut short in, or is being made to, does not parse.
File     == [kind : {"absent", "torn", "whole"}, map : Map]
Torn     == [kind |-> "torn", map |-> Empty]
Whole(m) == [kind |-> "whole", map |-> m]

\* The watermark and the completed checkpoints that come with the package.
BundledFile == Whole([mark |-> Bundled, stored |-> 1 .. Bundled])

\* load: whatever cannot be read or parsed is an empty cache.
load(f) == IF f.kind = "whole" THEN f.map ELSE Empty

Phase == {"down", "up", "writing", "flush"}

TypeOK ==
  /\ head \in 0 .. MaxBlock /\ file \in File
  /\ cache \in [Processes -> Map]
  /\ phase \in [Processes -> Phase]
  /\ dirty \in [Processes -> BOOLEAN]
  /\ queued \in [Processes -> 0 .. MaxSteps + 1]
  /\ target \in [Monitors -> 0 .. MaxBlock]
  /\ forgotten \subseteq Blocks
  /\ alone \in [Processes -> BOOLEAN] /\ failed \in [Processes -> BOOLEAN]
  /\ steps \in [Trackers -> 0 .. MaxSteps]
  /\ crashes \in 0 .. MaxCrashes /\ failures \in 0 .. MaxFailures

Init ==
  /\ head = Bundled
  /\ file = [Torn EXCEPT !.kind = "absent"]
  /\ cache = [p \in Processes |-> Empty]
  /\ phase = [p \in Processes |-> "down"]
  /\ dirty = [p \in Processes |-> FALSE]
  /\ queued = [p \in Processes |-> 0]
  /\ target = [p \in Monitors |-> 0]
  /\ forgotten = {}
  /\ alone = [p \in Processes |-> FALSE] /\ failed = [p \in Processes |-> FALSE]
  /\ steps = [p \in Trackers |-> 0] /\ crashes = 0 /\ failures = 0

\* A proposal is created.
Mine ==
  /\ head < MaxBlock
  /\ head' = head + 1
  /\ UNCHANGED <<file, processVars, forgotten, boundVars>>

-----------------------------------------------------------------------------
(* The operations of the cache.                                            *)

\* Mutant: the flag is left as it is.
updateUnmarked(p, m) ==
  /\ cache' = [cache EXCEPT ![p] = m]
  /\ queued' = [queued EXCEPT ![p] = @ + (IF p \in Trackers THEN 1 ELSE 0)]
  /\ UNCHANGED dirty

\* set, delete and clear: the map and the flag change at once; with autoFlush a
\* write is queued and the caller waits for it.
update(p, m) ==
  /\ cache' = [cache EXCEPT ![p] = m]
  /\ dirty' = [dirty EXCEPT ![p] = TRUE]
  /\ queued' = [queued EXCEPT ![p] = @ + (IF p \in Trackers THEN 1 ELSE 0)]

\* persistSync opens the file, which empties it, ...
beginWrite(p) ==
  /\ phase[p] \in {"up", "flush"} /\ queued[p] > 0
  /\ phase' = [phase EXCEPT ![p] = "writing"]
  /\ file' = Torn
  /\ alone' = [q \in Processes |-> alone[q] /\ q = p]
  /\ UNCHANGED <<head, cache, dirty, queued, target, forgotten, failed, boundVars>>

\* Where a process is once a write is over: a monitor writes only to flush.
afterWrite(p) == IF p \in Monitors THEN "flush" ELSE "up"

\* Mutant: the next write may begin before this one is over.
endWriteStuck(p) ==
  /\ phase[p] = "writing"
  /\ file' = Whole(cache[p])
  /\ queued' = [queued EXCEPT ![p] = @ - 1]
  /\ UNCHANGED <<head, cache, phase, dirty, target, forgotten, alone, failed, boundVars>>

\* ... and fills it with the map as it is by then.  If another process is writing
\* as well, what is left in the end need not be what either wrote.
endWrite(p) ==
  /\ phase[p] = "writing"
  /\ file' \in IF \E q \in Processes \ {p} : phase[q] = "writing"
               THEN {Whole(cache[p]), Torn} ELSE {Whole(cache[p])}
  /\ phase' = [phase EXCEPT ![p] = afterWrite(p)]
  /\ queued' = [queued EXCEPT ![p] = @ - 1]
  /\ dirty' = [dirty EXCEPT ![p] = @ /\ p \notin Monitors]
  /\ UNCHANGED <<head, cache, target, forgotten, alone, failed, boundVars>>

\* The disk is full: the write throws, the file stays empty.  The queue recovers, the
\* flag stays; a monitor, whose flush it was, dies of it.
failWrite(p) ==
  /\ phase[p] = "writing" /\ failures < MaxFailures
  /\ failures' = failures + 1
  /\ phase' = [phase EXCEPT ![p] = IF p \in Monitors THEN "down" ELSE "up"]
  /\ queued' = [queued EXCEPT ![p] = IF p \in Monitors THEN 0 ELSE @ - 1]
  /\ failed' = [failed EXCEPT ![p] = TRUE]
  /\ UNCHANGED <<head, file, cache, dirty, target, forgotten, alone, steps, crashes>>

-----------------------------------------------------------------------------
(* The processes.                                                          *)

\* getDefaultCachePath, then the constructor.
StartWith(p, f) ==
  /\ file' = f
  /\ cache' = [cache EXCEPT ![p] = load(f)]
  /\ phase' = [phase EXCEPT ![p] = "up"]
  /\ dirty' = [dirty EXCEPT ![p] = FALSE]
  /\ alone' = [alone EXCEPT ![p] = \A q \in Processes : phase[q] # "writing"]
  /\ failed' = [failed EXCEPT ![p] = FALSE]
  /\ UNCHANGED <<head, queued, forgotten, crashes, failures>>

\* The bundled cache is copied if there is no file yet.
Bootstrapped == IF file.kind = "absent" THEN BundledFile ELSE file

startMonitor(p) ==
  /\ phase[p] = "down"
  /\ StartWith(p, Bootstrapped)
  /\ target' = [target EXCEPT ![p] = 0]
  /\ UNCHANGED steps

Count(p) == steps[p] < MaxSteps /\ steps' = [steps EXCEPT ![p] = @ + 1]

startTracker(p) ==
  /\ phase[p] = "down" /\ Count(p)
  /\ StartWith(p, Bootstrapped)
  /\ UNCHANGED target

\* run --force: the cache is cleared before anything else.
clear(p) ==
  /\ p \in Monitors /\ phase[p] = "up" /\ target[p] = 0 /\ ~dirty[p]
  /\ update(p, Empty)
  /\ UNCHANGED <<head, file, phase, target, forgotten, alone, failed, boundVars>>

\* A cycle scans up to the last block; --loop has one cycle after another (those in
\* which nothing is new change nothing).
beginCycle(p) ==
  /\ p \in Monitors /\ phase[p] = "up"
  /\ target[p] = 0 \/ (target[p] <= cache[p].mark /\ cache[p].mark < head)
  /\ target' = [target EXCEPT ![p] = head]
  /\ UNCHANGED <<head, file, cache, phase, dirty, queued, forgotten, alone, failed, boundVars>>

\* createPendingCheckpoints
Missing(p) == {b \in cache[p].mark + 1 .. target[p] : b \notin cache[p].stored}

setCheckpoint(p) ==
  /\ p \in Monitors /\ phase[p] = "up"
  /\ \E b \in Missing(p) :
       update(p, [cache[p] EXCEPT !.stored = @ \cup {b}])
  /\ UNCHANGED <<head, file, phase, target, forgotten, alone, failed, boundVars>>

\* Mutant: the watermark is stored before the checkpoints.
setWatermarkFirst(p) ==
  /\ p \in Monitors /\ phase[p] = "up"
  /\ cache[p].mark < target[p]
  /\ update(p, [cache[p] EXCEPT !.mark = target[p]])
  /\ UNCHANGED <<head, file, phase, target, forgotten, alone, failed, boundVars>>

\* saveWatermarks, once every proposal found has its checkpoint.
setWatermark(p) ==
  /\ p \in Monitors /\ phase[p] = "up"
  /\ cache[p].mark < target[p] /\ Missing(p) = {}
  /\ update(p, [cache[p] EXCEPT !.mark = target[p]])
  /\ UNCHANGED <<head, file, phase, target, forgotten, alone, failed, boundVars>>

\* flush, after the last cycle: a write is queued if the map has changed.
flush(p) ==
  /\ p \in Monitors /\ phase[p] = "up"
  /\ target[p] \in 1 .. cache[p].mark
  /\ phase' = [phase EXCEPT ![p] = "flush"]
  /\ queued' = [queued EXCEPT ![p] = IF dirty[p] THEN 1 ELSE 0]
  /\ UNCHANGED <<head, file, cache, dirty, target, forgotten, alone, failed, boundVars>>

\* trackByTxHash stores the checkpoint of the proposal it was asked for, several
\* calls at a time; track --force deletes it first.
setTracked(p, b) ==
  /\ p \in Trackers /\ phase[p] = "up" /\ b <= head /\ Count(p)
  /\ update(p, [cache[p] EXCEPT !.stored = @ \cup {b}])
  /\ UNCHANGED <<head, file, phase, target, forgotten, alone, failed, crashes, failures>>

clearTxCacheEntries(p, b) ==
  /\ p \in Trackers /\ phase[p] = "up" /\ b \in cache[p].stored /\ Count(p)
  /\ update(p, [cache[p] EXCEPT !.stored = @ \ {b}])
  /\ forgotten' = forgotten \cup {b}
  /\ UNCHANGED <<head, file, phase, target, alone, failed, crashes, failures>>

End(p) ==
  /\ phase[p] = afterWrite(p) /\ queued[p] = 0
  /\ phase' = [phase EXCEPT ![p] = "down"]
  /\ UNCHANGED <<head, file, cache, dirty, queued, target, forgotten, alone, failed, boundVars>>

\* The process is killed, or throws: a monitor whose only cycle throws never flushes.
Crash(p) ==
  /\ phase[p] # "down" /\ crashes < MaxCrashes
  /\ crashes' = crashes + 1
  /\ phase' = [phase EXCEPT ![p] = "down"]
  /\ queued' = [queued EXCEPT ![p] = 0]
  /\ UNCHANGED <<head, file, cache, dirty, target, forgotten, alone, failed, steps, failures>>

-----------------------------------------------------------------------------

Write(p)   == beginWrite(p) \/ endWrite(p) \/ failWrite(p)
Monitor(p) == startMonitor(p) \/ beginCycle(p) \/ setCheckpoint(p) \/ setWatermark(p) \/ flush(p)
Tracker(p) == startTracker(p) \/ \E b \in Blocks : setTracked(p, b) \/ clearTxCacheEntries(p, b)

Next == \/ Mine
        \/ \E p \in Monitors  : Monitor(p) \/ clear(p)
        \/ \E p \in Trackers  : Tracker(p)
        \/ \E p \in Processes : Write(p) \/ End(p) \/ Crash(p)

Spec == Init /\ [][Next]_vars

\* A monitor is started again whenever it has ended, as a scheduled job is, does its
\* cycle and ends; a queue is worked off.  A --loop monitor need never end.
Fairness == /\ \A p \in Monitors  : WF_vars(Monitor(p))
            /\ \A p \in Processes : WF_vars(Write(p)) /\ WF_vars(End(p))

FairSpec == Spec /\ Fairness

-----------------------------------------------------------------------------
(* What the cache promises.                                                *)

\* The maps that are or may become the cache: those in memory and the file's.
Live == {cache[p] : p \in {q \in Processes : phase[q] # "down"}} \cup {load(file)}

\* A watermark is never kept without the checkpoints it vouches for: writes that
\* are torn, fail, are lost with their process or overwrite those of another
\* process take both or neither.  Else a proposal would never be looked at again.
\* The exception is an entry deleted by track --force, whose call may die before
\* it stores another.
WatermarkVouches ==
  \A m \in Live : 1 .. m.mark \subseteq m.stored \cup forgotten

\* What a process has been told is written is what another one would load, as
\* long as no other process has written since this one started: for a tracker all
\* it has set, once its queue is empty; for a monitor, once its flag is clear.
WrittenIsStored ==
  \A p \in Processes :
    /\ phase[p] \in {"up", "flush"} /\ alone[p] /\ queued[p] = 0
    /\ IF p \in Trackers THEN ~failed[p] ELSE ~dirty[p]
    => load(file) = cache[p]

\* Every proposal gets a checkpoint in the file, whatever was lost on the way:
\* with the entries the watermark is lost as well, and the blocks are scanned again.
ProposalsArePersisted ==
  \A b \in Blocks : head >= b ~> b \in load(file).stored \cup forgotten

=============================================================================
