------------------------------- MODULE Monitor -------------------------------
(***************************************************************************)
(* The monitor of cli/lib/cli.ts: runWithLoop and runMonitorCycle, with    *)
(* the limiter pLimit.  A cycle discovers what is new on the chain, asks   *)
(* the cache for what is not complete, tracks proposals and then timelock  *)
(* operations, and tries not to track an operation that a proposal already *)
(* brought along.                                                          *)
(*                                                                         *)
(* Discovery, the query and one tracking call are taken from what the      *)
(* modules Discovery and ProposalTracker say of them, each as one step; a  *)
(* checkpoint is reduced to what the monitor and the query read of it.     *)
(* A proposal has one transaction, and a timelock operation another, in    *)
(* which it was scheduled.                                                 *)
(***************************************************************************)
EXTENDS Integers, Sequences, FiniteSets

CONSTANTS Proposals, Operations,
          OperationOf,   \* the operation each proposal will schedule
          Concurrency,   \* --concurrency
          MaxFaults,     \* bound on calls that throw and cycles that are cut short
          MaxRetracks,   \* bound on results after which the callback asks to track again
          MaxRewinds     \* bound on resets of the watermarks to an older block

ASSUME ItemsAssumption  == /\ Proposals \cap Operations = {}
                           /\ OperationOf \in [Proposals -> Operations]
                           /\ \A p, q \in Proposals : OperationOf[p] = OperationOf[q] => p = q
ASSUME LimitAssumption  == Concurrency \in Nat \ {0}
ASSUME BoundsAssumption == {MaxFaults, MaxRetracks, MaxRewinds} \subseteq Nat

VARIABLES onChain,       \* what the two governors and timelocks have emitted so far
          seen,          \* the part of it that lies below the watermarks
          cache,         \* the checkpoint under each key
          cycle,         \* the local state of runMonitorCycle
          shutdown,      \* isShuttingDown
          faults, retracks, rewinds,
          spoiled        \* history: operations whose tracking was cut short or threw

vars == <<onChain, seen, cache, cycle, shutdown, faults, retracks, rewinds, spoiled>>

Items == Proposals \cup Operations

\* tx:{creation}, tx:{queue transaction} and tx:{queue transaction}:op:{id}.
Key == [kind : {"proposal"}, item : Proposals] \cup [kind : {"queueTx", "operation"}, item : Operations]

KeyOf(kind, item) == [kind |-> kind, item |-> item]

\* A governor checkpoint knows its operation or not ("pending"), and links to its
\* checkpoint or not ("unlinked": an error dropped the link).  "madeUp" is the one
\* the error path makes up, a governor with an empty address.
Governor   == {"pending", "linked", "unlinked", "madeUp"}
CacheValue == {"absent", "timelock", "complete"} \cup Governor

Task == [source : {"discovered", "cached"}, key : Key]

\* Slots of the limiter are held by calls and, until their promise settles, by skips.
Cycle == [pc          : {"idle", "discovered", "proposals", "operations"},
          targets     : SUBSET {"proposals", "operations"},
          found       : SUBSET Items,
          incomplete  : UNION {[K -> CacheValue] : K \in SUBSET Key},
          tasks       : SUBSET Task,   \* not yet handed to the limiter
          queue       : Seq(Task),
          calls       : SUBSET Task,
          skips       : SUBSET Task,
          trackedKeys : SUBSET Key,
          trackedOps  : SUBSET Operations,
          ran         : SUBSET Task,         \* history: tasks that called the tracker
          reported    : SUBSET Operations]   \* history: operations proposals brought along

NoCycle == [pc |-> "idle", targets |-> {}, found |-> {}, incomplete |-> [k \in {} |-> "absent"],
            tasks |-> {}, queue |-> <<>>, calls |-> {}, skips |-> {},
            trackedKeys |-> {}, trackedOps |-> {}, ran |-> {}, reported |-> {}]

TypeOK ==
  /\ onChain \subseteq Items /\ seen \subseteq onChain
  /\ cache \in [Key -> CacheValue]
  /\ cycle \in Cycle
  /\ shutdown \in BOOLEAN
  /\ faults \in 0 .. MaxFaults /\ retracks \in 0 .. MaxRetracks /\ rewinds \in 0 .. MaxRewinds
  /\ spoiled \subseteq Operations

Init ==
  /\ onChain = {} /\ seen = {}
  /\ cache = [k \in Key |-> "absent"]
  /\ cycle = NoCycle
  /\ shutdown = FALSE
  /\ faults = 0 /\ retracks = 0 /\ rewinds = 0
  /\ spoiled = {}

bounds == <<faults, retracks, rewinds>>

-----------------------------------------------------------------------------
(* Around the cycle.                                                       *)

\* A proposal is created, or an operation scheduled: a proposal's own after it.
Emit(i) ==
  /\ i \notin onChain
  /\ \A p \in Proposals : i = OperationOf[p] => p \in onChain
  /\ onChain' = onChain \cup {i}
  /\ UNCHANGED <<seen, cache, cycle, shutdown, bounds, spoiled>>

\* The watermarks go back: a reorg, a start block, or watermarks erased by a call
\* for other targets.
Rewind ==
  /\ cycle.pc = "idle" /\ rewinds < MaxRewinds
  /\ seen' \in SUBSET seen
  /\ rewinds' = rewinds + 1
  /\ UNCHANGED <<onChain, cache, cycle, shutdown, faults, retracks, spoiled>>

\* SIGINT
Interrupt ==
  /\ ~shutdown
  /\ shutdown' = TRUE
  /\ UNCHANGED <<onChain, seen, cache, cycle, bounds, spoiled>>

\* The cycle throws, or the process dies and is started again: what the cycle held
\* in its variables is gone.
CutShort ==
  /\ cycle.pc # "idle" /\ faults < MaxFaults
  /\ cycle' = NoCycle
  /\ faults' = faults + 1
  /\ spoiled' = spoiled \cup (cycle.found \cap Operations)
  /\ UNCHANGED <<onChain, seen, cache, shutdown, retracks, rewinds>>

Wanted(targets) == UNION {IF t = "proposals" THEN Proposals ELSE Operations : t \in targets}

\* Mutant: the watermarks are moved past what is not on the chain yet.
FoundAhead(targets) == Wanted(targets) \ seen

Found(targets) == (onChain \cap Wanted(targets)) \ seen

\* The first half of discoverAll: what is new gets found, and a proposal that has
\* no checkpoint gets a pending one.
discoverAll(targets) ==
  /\ cycle.pc = "idle" /\ ~shutdown
  /\ LET found == Found(targets)
     IN  /\ cycle' = [NoCycle EXCEPT !.pc = "discovered", !.targets = targets, !.found = found]
         /\ cache' = [k \in Key |->
                        IF k.kind = "proposal" /\ k.item \in found /\ cache[k] = "absent"
                        THEN "pending" ELSE cache[k]]
  /\ UNCHANGED <<onChain, seen, shutdown, bounds, spoiled>>

-----------------------------------------------------------------------------
(* The tasks of a cycle.                                                   *)

Linked(p) == cache[KeyOf("operation", OperationOf[p])]

queryIncompleteCheckpoints ==
  {k \in Key : /\ cache[k] \notin {"absent", "complete"}
               /\ ~(cache[k] = "linked" /\ Linked(k.item) = "complete")}

\* The second half of discoverAll saves the watermarks; then the cache is asked what
\* is not complete, and the tasks of the first phase are made of both.
buildProposalTasks ==
  /\ cycle.pc = "discovered"
  /\ seen' = seen \cup cycle.found
  /\ LET incomplete == [k \in queryIncompleteCheckpoints |-> cache[k]]
         discovered == {KeyOf("proposal", p) : p \in cycle.found \cap Proposals}
         cached     == {k \in DOMAIN incomplete : /\ incomplete[k] \in Governor
                                                  /\ "proposals" \in cycle.targets}
     IN  cycle' = [cycle EXCEPT
                     !.pc = "proposals", !.incomplete = incomplete,
                     !.tasks = [source : {"discovered"}, key : discovered]
                                 \cup [source : {"cached"}, key : cached]]
  /\ UNCHANGED <<onChain, cache, shutdown, bounds, spoiled>>

\* Operations of the governor checkpoints the query returned, as far as they know them.
governorOperationIds ==
  {OperationOf[k.item] : k \in {j \in DOMAIN cycle.incomplete :
                                  cycle.incomplete[j] \in {"linked", "unlinked"}}}

\* Mutant: only what the cache knew before the cycle counts.
AlreadyTrackedBefore == governorOperationIds

AlreadyTracked == governorOperationIds \cup cycle.trackedOps

\* Promise.all over the tasks of a phase has been answered.
Settled == cycle.tasks = {} /\ cycle.queue = <<>> /\ cycle.calls = {} /\ cycle.skips = {}

\* All tasks of the second phase are chosen before any of them runs.
buildTimelockTasks ==
  /\ cycle.pc = "proposals" /\ Settled
  /\ LET discovered == {KeyOf("queueTx", o) : o \in (cycle.found \cap Operations) \ AlreadyTracked}
         cached     == {k \in DOMAIN cycle.incomplete : /\ cycle.incomplete[k] = "timelock"
                                                        /\ "operations" \in cycle.targets
                                                        /\ k.item \notin AlreadyTracked}
     IN  cycle' = [cycle EXCEPT
                     !.pc = "operations",
                     !.tasks = [source : {"discovered"}, key : discovered]
                                 \cup [source : {"cached"}, key : cached]]
  /\ UNCHANGED <<onChain, seen, cache, shutdown, bounds, spoiled>>

\* Elections follow, which share nothing with the rest; then the cycle returns.
endCycle ==
  /\ cycle.pc = "operations" /\ Settled
  /\ cycle' = NoCycle
  /\ UNCHANGED <<onChain, seen, cache, shutdown, bounds, spoiled>>

-----------------------------------------------------------------------------
(* The limiter, and track.                                                 *)

\* Mutant: an off-by-one in the limit.
AdmitsOneMore(c) == Cardinality(c.calls \cup c.skips) <= Concurrency

Admits(c) == Cardinality(c.calls \cup c.skips) < Concurrency

\* Mutant: the key is not added to trackedKeys.
StartedUnmarked(c, t) ==
  IF t.key \in c.trackedKeys THEN [c EXCEPT !.skips = @ \cup {t}]
  ELSE [c EXCEPT !.calls = @ \cup {t}, !.ran = @ \cup {t}]

\* A task starts: it returns at once if its key was tracked in this cycle.
Started(c, t) ==
  IF t.key \in c.trackedKeys THEN [c EXCEPT !.skips = @ \cup {t}]
  ELSE [c EXCEPT !.calls = @ \cup {t}, !.ran = @ \cup {t}, !.trackedKeys = @ \cup {t.key}]

\* The tasks of a phase are handed to the limiter in one go, discovered ones first.
Submit(t) ==
  /\ t \in cycle.tasks
  /\ t.source = "cached" => \A u \in cycle.tasks : u.source = "cached"
  /\ LET c == [cycle EXCEPT !.tasks = @ \ {t}]
     IN  cycle' = IF Admits(c) THEN Started(c, t) ELSE [c EXCEPT !.queue = Append(@, t)]
  /\ UNCHANGED <<onChain, seen, cache, shutdown, bounds, spoiled>>

\* Mutant: a slot that gets free is not given to the next task.
ReleasedOnly(c, t) == [c EXCEPT !.calls = @ \ {t}, !.skips = @ \ {t}]

\* A task ends, in whatever way, and the next one in the queue starts.
Released(c, t) ==
  LET d == [c EXCEPT !.calls = @ \ {t}, !.skips = @ \ {t}]
  IN  IF d.queue = <<>> THEN d ELSE Started([d EXCEPT !.queue = Tail(@)], Head(d.queue))

ReturnSkipped(t) ==
  /\ cycle.tasks = {} /\ t \in cycle.skips
  /\ cycle' = Released(cycle, t)
  /\ UNCHANGED <<onChain, seen, cache, shutdown, bounds, spoiled>>

\* The operation checkpoint after a call that tracked it; COMPLETED stages stay.
OperationValues(o) == IF cache[KeyOf("operation", o)] = "complete" THEN {"complete"}
                      ELSE {"timelock", "complete"}

\* The caches a successful call may leave, and the operation it reports.  Without
\* its operation a proposal may be over, or look as if it were.  A call that resumes
\* from a made-up checkpoint does nothing.
TrackedCaches(k) ==
  CASE k.kind = "proposal" /\ OperationOf[k.item] \in onChain ->
         {[cache EXCEPT ![k] = "linked", ![KeyOf("operation", OperationOf[k.item])] = v] :
            v \in OperationValues(OperationOf[k.item])}
    [] k.kind = "proposal" /\ OperationOf[k.item] \notin onChain ->
         {[cache EXCEPT ![k] = v] : v \in {"pending", "complete"}}
    [] k.kind # "proposal" /\ cache[KeyOf("queueTx", k.item)] = "madeUp" -> {cache}
    [] k.kind # "proposal" /\ cache[KeyOf("queueTx", k.item)] # "madeUp" ->
         {[cache EXCEPT ![KeyOf("operation", k.item)] = v] : v \in OperationValues(k.item)}

Reported(k) ==
  IF k.kind = "proposal" THEN {OperationOf[k.item]} \cap onChain
  ELSE IF cache[KeyOf("queueTx", k.item)] = "madeUp" THEN {} ELSE {k.item}

\* Mutant: the operation of a proposal counts as tracked although its call threw.
ReportedOnFailure(k) == Reported(k)

\* Nothing is reported by a call that throws.
ReportedByFailure(k) == {}

\* The function of a newly discovered operation counts it by itself, whatever came back.
CountedByTask(t) ==
  IF t.source = "discovered" /\ t.key.kind = "queueTx" THEN {t.key.item} ELSE {}

\* trackFn returns.  Under shutdown the rest is passed over; else the callback has
\* executed something or not, and the task goes round again or ends.
TrackSucceeds(t) ==
  /\ cycle.tasks = {} /\ t \in cycle.calls
  /\ cache' \in TrackedCaches(t.key)
  /\ \E again \in BOOLEAN :
       LET c == [cycle EXCEPT
                   !.reported   = IF t.key.kind = "proposal" THEN @ \cup Reported(t.key) ELSE @,
                   !.trackedOps = @ \cup CountedByTask(t)
                                    \cup (IF shutdown THEN {} ELSE Reported(t.key))]
       IN  /\ again => ~shutdown /\ retracks < MaxRetracks
           /\ cycle' = IF again THEN c ELSE Released(c, t)
           /\ retracks' = IF again THEN retracks + 1 ELSE retracks
  /\ UNCHANGED <<onChain, seen, shutdown, faults, rewinds, spoiled>>

\* The checkpoint an error leaves behind, under the key of the transaction.
FailedCaches(k) ==
  CASE k.kind = "proposal" ->
         {[cache EXCEPT ![k] = IF @ = "linked" THEN "unlinked" ELSE @]}
    [] k.kind # "proposal" -> {cache, [cache EXCEPT ![KeyOf("queueTx", k.item)] = "madeUp"]}

\* trackFn throws: an RPC error, or nothing found in the transaction.
TrackFails(t) ==
  /\ cycle.tasks = {} /\ t \in cycle.calls
  /\ faults < MaxFaults
  /\ cache' \in FailedCaches(t.key)
  /\ cycle' = Released([cycle EXCEPT !.trackedOps = @ \cup ReportedByFailure(t.key)], t)
  /\ faults' = faults + 1
  /\ spoiled' = spoiled \cup ({t.key.item} \cap Operations)
  /\ UNCHANGED <<onChain, seen, shutdown, retracks, rewinds>>

-----------------------------------------------------------------------------

Targets == (SUBSET {"proposals", "operations"}) \ {{}}

Continue ==
  \/ buildProposalTasks
  \/ buildTimelockTasks
  \/ endCycle
  \/ \E t \in Task : Submit(t) \/ ReturnSkipped(t) \/ TrackSucceeds(t)

Next ==
  \/ \E i \in Items : Emit(i)
  \/ Rewind
  \/ Interrupt
  \/ CutShort
  \/ \E targets \in Targets : discoverAll(targets)
  \/ Continue
  \/ \E t \in Task : TrackFails(t)

Spec == Init /\ [][Next]_vars

\* The requests of a cycle are answered in the end.
FairSpec == Spec /\ WF_vars(Continue)

-----------------------------------------------------------------------------
(* Properties.                                                             *)

\* No more calls are in flight than --concurrency allows, and none waits while a
\* slot is free.
WithinLimit ==
  /\ Cardinality(cycle.calls \cup cycle.skips) <= Concurrency
  /\ cycle.queue # <<>> => Cardinality(cycle.calls \cup cycle.skips) = Concurrency

\* A key is tracked by one task of a cycle, although a new proposal is both
\* discovered and, having just got its checkpoint, returned by the query, and
\* although a result that executed something is tracked again.
OneTaskPerKey == \A t, u \in cycle.ran : t.key = u.key => t = u

OperationTask(t) == t.key.kind = "operation" \/ (t.key.kind = "queueTx" /\ t.source = "discovered")

\* An operation is not tracked on its own in a cycle in which its proposal's call
\* brought it along, unless the process is being shut down.
OperationsFollowTheirProposal ==
  \A t \in cycle.ran : OperationTask(t) /\ t.key.item \in cycle.reported => shutdown

\* What lies below the watermarks is not forgotten between cycles: a proposal has
\* a checkpoint wherever the cycle was cut short, and an operation has one, by way
\* of its proposal or on its own, unless its own call was cut short or threw.
NothingIsForgotten ==
  /\ \A p \in seen \cap Proposals : cache[KeyOf("proposal", p)] # "absent"
  /\ cycle.pc = "idle" =>
       \A o \in (seen \cap Operations) \ spoiled : cache[KeyOf("operation", o)] # "absent"

\* Every cycle ends, whatever its calls do: the limiter loses no task.
CyclesEnd == cycle.pc # "idle" ~> cycle.pc = "idle"

=============================================================================
