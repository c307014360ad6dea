---------------------------- MODULE Monitor_proofs ----------------------------
(***************************************************************************)
(* The cycle of the monitor keeps its limit, tracks nothing twice and      *)
(* forgets nothing: for any proposals and operations, any --concurrency    *)
(* and any bound on failures, retracks and rewinds.                        *)
(*                                                                         *)
(* The limiter keeps its limit because a task is in one place at a time:   *)
(* not yet handed over, in the queue, or holding a slot.  That no          *)
(* operation is forgotten needs to know why an operation has no task of    *)
(* its own: it was brought along, and then it is in the cache, or its own  *)
(* tracking failed before.                                                 *)
(***************************************************************************)
EXTENDS Monitor, SequenceTheorems, FiniteSetTheorems, TLAPS

-----------------------------------------------------------------------------
(* The tasks of a cycle.                                                   *)

Queued(c)  == {c.queue[i] : i \in 1 .. Len(c.queue)}
Waiting(c) == c.tasks \cup Queued(c)
Holding(c) == c.calls \cup c.skips

\* A task is in one place at a time, and runs once.
TasksFit(c) ==
  /\ IsFiniteSet(Holding(c)) /\ c.calls \cap c.skips = {}
  /\ c.tasks \cap Queued(c) = {} /\ Waiting(c) \cap (Holding(c) \cup c.ran) = {}
  /\ \A i, j \in 1 .. Len(c.queue) : c.queue[i] = c.queue[j] => i = j
  /\ c.calls \subseteq c.ran
  /\ \A t \in c.ran : t.key \in c.trackedKeys
  /\ \A t, u \in c.ran : t.key = u.key => t = u

-----------------------------------------------------------------------------
(* The cache, and what each phase of a cycle is about.                     *)

Known(o)  == cache[KeyOf("operation", o)] # "absent"
TaskOf(o) == [source |-> "discovered", key |-> KeyOf("queueTx", o)]

\* What may be found under a key.
ValueFits(k, v) ==
  /\ k.kind = "proposal"  => /\ v \in {"absent", "pending", "linked", "unlinked", "complete"}
                             /\ v \in {"linked", "unlinked"} => Known(OperationOf[k.item])
  /\ k.kind = "operation" => v \in {"absent", "timelock", "complete"}
  /\ k.kind = "queueTx"   => v = "absent" \/ (v = "madeUp" /\ k.item \in spoiled)

CacheFits == \A k \in Key : ValueFits(k, cache[k])

\* The first phase tracks proposals, and transactions that failed before; the second
\* operations that no call of the first has brought along.
TasksOfPhase(c) ==
  /\ c.pc = "idle" => c = NoCycle
  /\ c.pc \in {"idle", "discovered"} =>
       Waiting(c) \cup Holding(c) \cup c.ran = {} /\ c.trackedKeys = {}
  /\ c.pc = "proposals" =>
       \A t \in Waiting(c) \cup c.ran : /\ ~OperationTask(t)
                                        /\ t.key.kind = "queueTx" => t.key.item \in spoiled
  /\ c.pc = "operations" =>
       /\ \A t \in Waiting(c) \cup c.calls : OperationTask(t)
       /\ \A t \in Waiting(c) \cup c.ran : OperationTask(t) /\ t.key.item \in c.reported => shutdown
       /\ \A t \in Waiting(c) : t.key.kind = "queueTx" => t.key.item \in c.found

\* What a cycle knows of the cache is so.
KnowledgeOf(c) ==
  /\ \A k \in DOMAIN c.incomplete : ValueFits(k, c.incomplete[k])
  /\ c.reported \subseteq c.trackedOps \/ shutdown
  /\ \A o \in c.trackedOps : Known(o) \/ o \in spoiled
  /\ \A k \in c.trackedKeys : k.kind = "queueTx" => k.item \in spoiled \/ TaskOf(k.item) \in c.ran

\* What has been found is in the cache, or has a task in this cycle or will get one.
FoundIsKept(c) ==
  /\ c.found \subseteq onChain
  /\ \A p \in (seen \cup c.found) \cap Proposals : cache[KeyOf("proposal", p)] # "absent"
  /\ \A o \in (seen \cap Operations) \ spoiled :
       \/ Known(o)
       \/ o \in c.found /\ c.pc = "proposals"
       \/ o \in c.found /\ c.pc = "operations" /\ TaskOf(o) \in Waiting(c) \cup c.calls

MonitorInv ==
  /\ TypeOK /\ CacheFits
  /\ TasksFit(cycle) /\ WithinLimit
  /\ TasksOfPhase(cycle) /\ KnowledgeOf(cycle) /\ FoundIsKept(cycle)

-----------------------------------------------------------------------------
(* The queue, and finite sets of tasks.                                    *)

\* A task put into the queue is in it, after the others.
LEMMA QueueGrows ==
  ASSUME NEW c \in Cycle, NEW t \in Task
  PROVE  LET d == [c EXCEPT !.queue = Append(@, t)]
         IN  /\ d \in Cycle /\ d.queue # <<>> /\ Queued(d) = Queued(c) \cup {t}
             /\ \A f \in DOMAIN c \ {"queue"} : d[f] = c[f]
             /\ /\ \A i, j \in 1 .. Len(c.queue) : c.queue[i] = c.queue[j] => i = j
                /\ t \notin Queued(c)
                => \A i, j \in 1 .. Len(d.queue) : d.queue[i] = d.queue[j] => i = j
<1> DEFINE d == [c EXCEPT !.queue = Append(@, t)]
<1>1. c.queue \in Seq(Task) /\ d \in Cycle /\ d.queue = Append(c.queue, t)
  <2>1. c.queue \in Seq(Task)
    BY DEF Cycle
  <2>2. Append(c.queue, t) \in Seq(Task)
    BY <2>1
  <2>3. QED
    BY <2>1, <2>2 DEF Cycle
<1>2. /\ Len(d.queue) = Len(c.queue) + 1 /\ Len(c.queue) \in Nat
      /\ \A i \in 1 .. Len(c.queue) : d.queue[i] = c.queue[i]
      /\ d.queue[Len(c.queue) + 1] = t
  BY <1>1
<1>3. \A f \in DOMAIN c \ {"queue"} : d[f] = c[f]
  BY DEF Cycle
<1> HIDE DEF d
<1>p. 1 .. Len(d.queue) = 1 .. Len(c.queue) \cup {Len(c.queue) + 1}
  BY <1>2
<1>4. Queued(d) = Queued(c) \cup {t}
  BY <1>2, <1>p DEF Queued
<1>5. d.queue # <<>>
  BY <1>2
<1>6. /\ \A i, j \in 1 .. Len(c.queue) : c.queue[i] = c.queue[j] => i = j
      /\ t \notin Queued(c)
      => \A i, j \in 1 .. Len(d.queue) : d.queue[i] = d.queue[j] => i = j
  <2>1. t \notin Queued(c) => \A i \in 1 .. Len(c.queue) : c.queue[i] # t
    BY DEF Queued
  <2>2. QED
    BY <1>2, <1>p, <2>1
<1>7. QED
  BY <1>1, <1>3, <1>4, <1>5, <1>6 DEF d

\* The task at the head of the queue leaves it.
LEMMA QueueShrinks ==
  ASSUME NEW c \in Cycle, c.queue # <<>>,
         \A i, j \in 1 .. Len(c.queue) : c.queue[i] = c.queue[j] => i = j
  PROVE  LET d == [c EXCEPT !.queue = Tail(@)]
             t == Head(c.queue)
         IN  /\ d \in Cycle /\ t \in Task /\ t \in Queued(c) /\ Queued(d) = Queued(c) \ {t}
             /\ \A f \in DOMAIN c \ {"queue"} : d[f] = c[f]
             /\ \A i, j \in 1 .. Len(d.queue) : d.queue[i] = d.queue[j] => i = j
<1> DEFINE d == [c EXCEPT !.queue = Tail(@)]
           t == Head(c.queue)
<1>1. c.queue \in Seq(Task)
  BY DEF Cycle
<1>2. /\ t \in Task /\ Tail(c.queue) \in Seq(Task) /\ Len(Tail(c.queue)) = Len(c.queue) - 1
      /\ \A i \in 1 .. Len(Tail(c.queue)) : Tail(c.queue)[i] = c.queue[i + 1]
      /\ Len(c.queue) \in Nat \ {0} /\ t = c.queue[1]
  BY <1>1, HeadTailProperties, EmptySeq
<1>3. d \in Cycle /\ d.queue = Tail(c.queue) /\ \A f \in DOMAIN c \ {"queue"} : d[f] = c[f]
  <2>1. PICK rest \in Seq(Task) : rest = Tail(c.queue)
    BY <1>2
  <2>2. /\ [c EXCEPT !.queue = rest] \in Cycle /\ [c EXCEPT !.queue = rest].queue = rest
        /\ \A f \in DOMAIN c \ {"queue"} : [c EXCEPT !.queue = rest][f] = c[f]
    BY DEF Cycle
  <2>3. QED
    BY <2>1, <2>2
<1> HIDE DEF d, t
<1>4. \A i, j \in 1 .. Len(d.queue) : d.queue[i] = d.queue[j] => i = j
  <2>1. ASSUME NEW i \in 1 .. Len(d.queue)
        PROVE  i + 1 \in 1 .. Len(c.queue) /\ i \in Int /\ d.queue[i] = c.queue[i + 1]
    BY <1>2, <1>3
  <2>2. QED
    BY <2>1
<1>5. t \in Queued(c) /\ Queued(d) = Queued(c) \ {t}
  <2>1. t \in Queued(c)
    BY <1>2 DEF Queued
  <2>2. ASSUME NEW u \in Queued(d) PROVE u \in Queued(c) \ {t}
    <3>1. PICK i \in 1 .. Len(d.queue) : u = d.queue[i]
      BY DEF Queued
    <3>2. i + 1 \in 1 .. Len(c.queue) /\ u = c.queue[i + 1] /\ i + 1 # 1 /\ 1 \in 1 .. Len(c.queue)
      BY <1>2, <1>3, <3>1
    <3>3. QED
      BY <1>2, <3>2 DEF Queued
  <2>3. ASSUME NEW u \in Queued(c) \ {t} PROVE u \in Queued(d)
    <3>1. PICK i \in 1 .. Len(c.queue) : u = c.queue[i]
      BY DEF Queued
    <3>2. i # 1 /\ i - 1 \in 1 .. Len(d.queue) /\ d.queue[i - 1] = u
      BY <1>2, <1>3, <3>1
    <3>3. QED
      BY <3>2 DEF Queued
  <2>4. QED
    BY <2>1, <2>2, <2>3
<1>6. QED
  BY <1>2, <1>3, <1>4, <1>5 DEF d, t

-----------------------------------------------------------------------------
(* The limiter.                                                            *)

\* What the limiter leaves alone.
Steady(c, d) ==
  /\ d.pc = c.pc /\ d.targets = c.targets /\ d.found = c.found /\ d.incomplete = c.incomplete
  /\ d.trackedOps = c.trackedOps /\ d.reported = c.reported

\* A task t starts, with its key tracked in this cycle or not.
Starts(c, d, t, done) ==
  \/ /\ t.key \in c.trackedKeys
     /\ d.calls = c.calls \ done /\ d.ran = c.ran /\ d.trackedKeys = c.trackedKeys
  \/ /\ t.key \notin c.trackedKeys
     /\ d.calls = (c.calls \ done) \cup {t} /\ d.ran = c.ran \cup {t}
     /\ d.trackedKeys = c.trackedKeys \cup {t.key}

\* The tasks in done end, and one that waits starts, or none.
Moves(c, d, done) ==
  /\ Steady(c, d)
  /\ \/ /\ Waiting(d) = Waiting(c) /\ d.calls = c.calls \ done
        /\ d.ran = c.ran /\ d.trackedKeys = c.trackedKeys
     \/ \E t \in Waiting(c) : /\ Waiting(d) = Waiting(c) \ {t} /\ t \notin c.ran
                              /\ Starts(c, d, t, done)

Limit(c) == /\ Cardinality(Holding(c)) <= Concurrency
            /\ c.queue # <<>> => Cardinality(Holding(c)) = Concurrency

\* A task that starts takes one slot.
LEMMA StartedFacts ==
  ASSUME NEW c \in Cycle, TasksFit(c), NEW t \in Task, t \notin Waiting(c) \cup Holding(c) \cup c.ran
  PROVE  /\ Started(c, t) \in Cycle /\ TasksFit(Started(c, t))
         /\ Cardinality(Holding(Started(c, t))) = Cardinality(Holding(c)) + 1
         /\ Started(c, t).queue = c.queue /\ Started(c, t).tasks = c.tasks
         /\ Steady(c, Started(c, t)) /\ Starts(c, Started(c, t), t, {})
<1> DEFINE d == Started(c, t)
<1>1. t.key \in Key
  BY DEF Task
<1>2. /\ d \in Cycle /\ d.queue = c.queue /\ d.tasks = c.tasks
      /\ Steady(c, d) /\ Holding(d) = Holding(c) \cup {t}
      /\ Starts(c, d, t, {}) /\ d.calls \cap d.skips = {}
  <2>1. CASE t.key \in c.trackedKeys
    <3>1. d = [c EXCEPT !.skips = @ \cup {t}]
      BY <2>1 DEF Started
    <3> HIDE DEF d
    <3>2. d \in Cycle /\ d.queue = c.queue /\ d.tasks = c.tasks /\ Steady(c, d)
      <4>1. c.skips \cup {t} \in SUBSET Task
        BY DEF Cycle
      <4>2. QED
        BY <3>1, <4>1 DEF Cycle, Steady
    <3>3. /\ d.skips = c.skips \cup {t} /\ d.calls = c.calls /\ d.ran = c.ran
          /\ d.trackedKeys = c.trackedKeys
      BY <3>1 DEF Cycle
    <3>4. Holding(d) = Holding(c) \cup {t} /\ d.calls \cap d.skips = {}
      BY <3>3 DEF Holding, TasksFit
    <3>5. Starts(c, d, t, {})
      BY <2>1, <3>3 DEF Starts
    <3>6. QED
      BY <3>2, <3>4, <3>5
  <2>2. CASE t.key \notin c.trackedKeys
    <3>1. d = [c EXCEPT !.calls = @ \cup {t}, !.ran = @ \cup {t}, !.trackedKeys = @ \cup {t.key}]
      BY <2>2 DEF Started
    <3> HIDE DEF d
    <3>2. d \in Cycle /\ d.queue = c.queue /\ d.tasks = c.tasks /\ Steady(c, d)
      <4>1. /\ c.calls \cup {t} \in SUBSET Task /\ c.ran \cup {t} \in SUBSET Task
            /\ c.trackedKeys \cup {t.key} \in SUBSET Key
        BY <1>1 DEF Cycle
      <4>2. QED
        BY <3>1, <4>1 DEF Cycle, Steady
    <3>3. /\ d.skips = c.skips /\ d.calls = c.calls \cup {t} /\ d.ran = c.ran \cup {t}
          /\ d.trackedKeys = c.trackedKeys \cup {t.key}
      BY <3>1 DEF Cycle
    <3>4. QED
      BY <2>2, <3>2, <3>3 DEF Starts, Holding, TasksFit
  <2>3. QED
    BY <2>1, <2>2
<1> HIDE DEF d
<1>3. /\ IsFiniteSet(Holding(d)) /\ Cardinality(Holding(d)) = Cardinality(Holding(c)) + 1
  BY <1>2, FS_AddElement DEF TasksFit
<1>4. Queued(d) = Queued(c) /\ Waiting(d) = Waiting(c)
  BY <1>2 DEF Queued, Waiting
<1>5. TasksFit(d)
  BY <1>2, <1>3, <1>4 DEF TasksFit, Starts
<1>6. QED
  BY <1>2, <1>3, <1>5 DEF d

\* A task that is handed over starts if there is a slot, and waits in the queue else.
LEMMA SubmitFacts ==
  ASSUME NEW c \in Cycle, TasksFit(c), Limit(c), NEW t \in c.tasks
  PROVE  LET b == [c EXCEPT !.tasks = @ \ {t}]
             d == IF Admits(b) THEN Started(b, t) ELSE [b EXCEPT !.queue = Append(@, t)]
         IN  d \in Cycle /\ TasksFit(d) /\ Limit(d) /\ Moves(c, d, {})
<1> DEFINE b == [c EXCEPT !.tasks = @ \ {t}]
<1>1. /\ t \in Task /\ b \in Cycle /\ b.tasks = c.tasks \ {t} /\ b.queue = c.queue
      /\ b.calls = c.calls /\ b.skips = c.skips /\ b.ran = c.ran /\ b.trackedKeys = c.trackedKeys
      /\ Steady(c, b)
  BY DEF Cycle, Steady
<1> HIDE DEF b
<1>2. /\ Queued(b) = Queued(c) /\ Waiting(b) = Waiting(c) \ {t} /\ Holding(b) = Holding(c)
      /\ t \in Waiting(c) /\ t \notin Waiting(b) \cup Holding(b) \cup b.ran
  BY <1>1 DEF Queued, Waiting, Holding, TasksFit
<1>3. TasksFit(b) /\ Limit(b)
  BY <1>1, <1>2 DEF TasksFit, Limit
<1>4. Cardinality(Holding(b)) \in Nat
  BY <1>3, FS_CardinalityType DEF TasksFit
<1>5. CASE Admits(b)
  <2> DEFINE d == Started(b, t)
  <2>1. /\ d \in Cycle /\ TasksFit(d) /\ Cardinality(Holding(d)) = Cardinality(Holding(b)) + 1
        /\ d.queue = b.queue /\ d.tasks = b.tasks /\ Steady(b, d) /\ Starts(b, d, t, {})
    BY <1>1, <1>2, <1>3, StartedFacts
  <2> HIDE DEF d
  <2>2. Waiting(d) = Waiting(c) \ {t}
    BY <1>2, <2>1 DEF Waiting, Queued
  <2>3. Cardinality(Holding(b)) < Concurrency /\ b.queue = <<>>
    BY <1>3, <1>4, <1>5, LimitAssumption DEF Admits, Holding, Limit
  <2>4. Limit(d)
    BY <1>4, <2>1, <2>3, LimitAssumption DEF Limit
  <2>5. Moves(c, d, {})
    BY <1>1, <1>2, <2>1, <2>2 DEF Moves, Steady, Starts
  <2>6. QED
    BY <1>5, <2>1, <2>4, <2>5 DEF b, d
<1>6. CASE ~Admits(b)
  <2> DEFINE d == [b EXCEPT !.queue = Append(@, t)]
  <2>1. /\ d \in Cycle /\ d.queue # <<>> /\ Queued(d) = Queued(b) \cup {t}
        /\ \A f \in DOMAIN b \ {"queue"} : d[f] = b[f]
        /\ /\ \A i, j \in 1 .. Len(b.queue) : b.queue[i] = b.queue[j] => i = j
           /\ t \notin Queued(b)
           => \A i, j \in 1 .. Len(d.queue) : d.queue[i] = d.queue[j] => i = j
    BY <1>1, QueueGrows
  <2>2. /\ d.tasks = b.tasks /\ d.calls = b.calls /\ d.skips = b.skips /\ d.ran = b.ran
        /\ d.trackedKeys = b.trackedKeys /\ Steady(b, d)
    BY <1>1 DEF Cycle, Steady
  <2> HIDE DEF d
  <2>3. Waiting(d) = Waiting(c) /\ Holding(d) = Holding(b)
    BY <1>1, <1>2, <2>1, <2>2 DEF Waiting, Holding
  <2>4. TasksFit(d)
    BY <1>2, <1>3, <2>1, <2>2, <2>3 DEF TasksFit, Waiting
  <2>5. Limit(d)
    <3>1. Cardinality(Holding(b)) >= Concurrency
      BY <1>4, <1>6, LimitAssumption DEF Admits, Holding
    <3>2. QED
      BY <1>3, <1>4, <2>3, <3>1, LimitAssumption DEF Limit
  <2>6. Moves(c, d, {})
    BY <1>1, <2>2, <2>3 DEF Moves, Steady
  <2>7. QED
    BY <1>6, <2>1, <2>4, <2>5, <2>6 DEF b, d
<1>7. QED
  BY <1>5, <1>6

\* A task that ends gives its slot to the next in the queue.
LEMMA ReleasedFacts ==
  ASSUME NEW c \in Cycle, TasksFit(c), Limit(c), NEW t \in Holding(c)
  PROVE  /\ Released(c, t) \in Cycle /\ TasksFit(Released(c, t)) /\ Limit(Released(c, t))
         /\ Moves(c, Released(c, t), {t})
<1> DEFINE b == [c EXCEPT !.calls = @ \ {t}, !.skips = @ \ {t}]
<1>1. /\ b \in Cycle /\ b.tasks = c.tasks /\ b.queue = c.queue /\ b.calls = c.calls \ {t}
      /\ b.skips = c.skips \ {t} /\ b.ran = c.ran /\ b.trackedKeys = c.trackedKeys
      /\ Steady(c, b)
  BY DEF Cycle, Steady
<1>2. Released(c, t) = IF b.queue = <<>> THEN b
                       ELSE Started([b EXCEPT !.queue = Tail(@)], Head(b.queue))
  BY DEF Released
<1> HIDE DEF b
<1>3. /\ Queued(b) = Queued(c) /\ Waiting(b) = Waiting(c) /\ Holding(b) = Holding(c) \ {t}
  BY <1>1 DEF Queued, Waiting, Holding
<1>4. /\ IsFiniteSet(Holding(b)) /\ Cardinality(Holding(b)) = Cardinality(Holding(c)) - 1
      /\ Cardinality(Holding(b)) \in Nat /\ Cardinality(Holding(c)) \in Nat
  BY <1>3, FS_RemoveElement, FS_CardinalityType DEF TasksFit
<1>5. TasksFit(b)
  BY <1>1, <1>3, <1>4 DEF TasksFit
<1>6. CASE b.queue = <<>>
  <2>1. Limit(b)
    BY <1>4, <1>6, LimitAssumption DEF Limit
  <2>2. Moves(c, b, {t})
    BY <1>1, <1>3 DEF Moves
  <2>3. QED
    BY <1>1, <1>2, <1>5, <1>6, <2>1, <2>2
<1>7. CASE b.queue # <<>>
  <2> DEFINE h == Head(b.queue)
             q == [b EXCEPT !.queue = Tail(@)]
             d == Started(q, h)
  <2>1. /\ q \in Cycle /\ h \in Task /\ h \in Queued(b) /\ Queued(q) = Queued(b) \ {h}
        /\ \A f \in DOMAIN b \ {"queue"} : q[f] = b[f]
        /\ \A i, j \in 1 .. Len(q.queue) : q.queue[i] = q.queue[j] => i = j
    BY <1>1, <1>5, <1>7, QueueShrinks DEF TasksFit
  <2>2. /\ q.tasks = b.tasks /\ q.calls = b.calls /\ q.skips = b.skips /\ q.ran = b.ran
        /\ q.trackedKeys = b.trackedKeys /\ Steady(b, q)
    BY <1>1 DEF Cycle, Steady
  <2> HIDE DEF q, h
  <2>3. /\ Waiting(q) = Waiting(b) \ {h} /\ Holding(q) = Holding(b) /\ h \in Waiting(b)
        /\ h \notin Waiting(q) \cup Holding(q) \cup q.ran
    BY <1>5, <2>1, <2>2 DEF Waiting, Holding, TasksFit
  <2>4. TasksFit(q)
    BY <1>5, <2>1, <2>2, <2>3 DEF TasksFit
  <2>5. /\ d \in Cycle /\ TasksFit(d) /\ Cardinality(Holding(d)) = Cardinality(Holding(q)) + 1
        /\ d.queue = q.queue /\ d.tasks = q.tasks /\ Steady(q, d) /\ Starts(q, d, h, {})
    BY <2>1, <2>3, <2>4, StartedFacts
  <2> HIDE DEF d
  <2>6. Waiting(d) = Waiting(c) \ {h}
    BY <1>3, <2>3, <2>5 DEF Waiting, Queued
  <2>7. Limit(d)
    BY <1>1, <1>4, <1>7, <2>3, <2>5, LimitAssumption DEF Limit
  <2>8. Moves(c, d, {t})
    BY <1>1, <1>3, <2>2, <2>3, <2>5, <2>6 DEF Moves, Steady, Starts
  <2>9. QED
    BY <1>2, <1>7, <2>5, <2>7, <2>8 DEF d, h, q
<1>8. QED
  BY <1>6, <1>7

-----------------------------------------------------------------------------
(* What a cycle is about, while its tasks move and the cache changes.      *)

\* Keys by their kind.
LEMMA KeyFacts ==
  /\ \A p \in Proposals : /\ KeyOf("proposal", p) \in Key /\ KeyOf("proposal", p).kind = "proposal"
                          /\ KeyOf("proposal", p).item = p
  /\ \A o \in Operations : \A kind \in {"operation", "queueTx"} :
       KeyOf(kind, o) \in Key /\ KeyOf(kind, o).kind = kind /\ KeyOf(kind, o).item = o
  /\ \A k \in Key : \/ k.kind = "proposal" /\ k.item \in Proposals
                    \/ k.kind \in {"operation", "queueTx"} /\ k.item \in Operations
  /\ \A k \in Key : k = KeyOf(k.kind, k.item)
BY DEF Key, KeyOf

\* Tasks that start or end leave a cycle what it is, if what a task that ends was to
\* bring into the cache is there.
LEMMA MovesKeep ==
  ASSUME NEW c \in Cycle, NEW d \in Cycle, NEW done, Moves(c, d, done), TasksFit(c),
         c.pc \in {"proposals", "operations"},
         TasksOfPhase(c)', KnowledgeOf(c)', FoundIsKept(c)',
         \A o \in Operations : TaskOf(o) \in done => Known(o)' \/ o \in spoiled'
  PROVE  TasksOfPhase(d)' /\ KnowledgeOf(d)' /\ FoundIsKept(d)'
<1>1. /\ d.pc = c.pc /\ d.found = c.found /\ d.incomplete = c.incomplete
      /\ d.trackedOps = c.trackedOps /\ d.reported = c.reported
      /\ Waiting(c) \subseteq Task /\ Waiting(d) \subseteq Waiting(c)
      /\ c.ran \subseteq d.ran /\ d.ran \subseteq c.ran \cup Waiting(c)
      /\ d.calls \subseteq c.calls \cup Waiting(c)
  <2>1. Waiting(c) \subseteq Task
    BY ElementOfSeq DEF Waiting, Queued, Cycle
  <2>2. QED
    BY <2>1 DEF Moves, Steady, Starts
<1>2. TasksOfPhase(d)'
  BY <1>1 DEF TasksOfPhase
<1>3. ASSUME NEW k \in d.trackedKeys, k.kind = "queueTx"
      PROVE  k.item \in spoiled' \/ TaskOf(k.item) \in d.ran
  <2>1. CASE k \in c.trackedKeys
    BY <1>1, <1>3, <2>1 DEF KnowledgeOf
  <2>2. CASE k \notin c.trackedKeys
    <3>1. PICK t \in Waiting(c) : k = t.key /\ t \in d.ran
      BY <1>3, <2>2 DEF Moves, Starts
    <3>2. t \in Task /\ k \in Key
      BY <1>1, <3>1 DEF Task
    <3>3. k.item \in spoiled' \/ t.source = "discovered"
      BY <1>3, <3>1 DEF TasksOfPhase, OperationTask
    <3>4. t.source = "discovered" => t = TaskOf(k.item)
      BY <1>3, <3>1, <3>2, KeyFacts DEF Task, TaskOf
    <3>5. QED
      BY <3>1, <3>3, <3>4
  <2>3. QED
    BY <2>1, <2>2
<1>4. KnowledgeOf(d)'
  BY <1>1, <1>3 DEF KnowledgeOf
<1>5. ASSUME NEW o \in (seen' \cap Operations) \ spoiled', ~Known(o)', c.pc = "operations",
             TaskOf(o) \in Waiting(c) \cup c.calls
      PROVE  TaskOf(o) \in Waiting(d) \cup d.calls
  <2> DEFINE k == KeyOf("queueTx", o)
  <2>1. TaskOf(o).key = k /\ k.kind = "queueTx" /\ k.item = o
    BY <1>5, KeyFacts DEF TaskOf
  <2>2. TaskOf(o) \notin done
    BY <1>5
  <2>3. k \in c.trackedKeys => TaskOf(o) \in c.ran
    BY <1>5, <2>1 DEF KnowledgeOf
  <2> HIDE DEF k
  <2>4. QED
    BY <1>5, <2>1, <2>2, <2>3 DEF Moves, Starts
<1>6. FoundIsKept(d)'
  BY <1>1, <1>5 DEF FoundIsKept
<1>7. QED
  BY <1>2, <1>4, <1>6

\* What is in the cache may change but not go away, failures are remembered, and a
\* shutdown is for good.
Grows ==
  /\ spoiled \subseteq spoiled' /\ (shutdown => shutdown')
  /\ onChain \subseteq onChain' /\ seen' \subseteq seen
  /\ \A o \in Operations : Known(o) => Known(o)'
  /\ \A p \in Proposals : cache[KeyOf("proposal", p)] # "absent"
                            => cache'[KeyOf("proposal", p)] # "absent"

\* What a cycle has and knows stays true when the chain and the cache grow.
LEMMA GrowthKeeps ==
  ASSUME Grows, NEW c \in Cycle
  PROVE  /\ TasksOfPhase(c) => TasksOfPhase(c)'
         /\ KnowledgeOf(c) => KnowledgeOf(c)'
         /\ FoundIsKept(c) => FoundIsKept(c)'
         /\ \A k \in Key : \A v : ValueFits(k, v) => ValueFits(k, v)'
<1>1. \A k \in Key : \A v : ValueFits(k, v) => ValueFits(k, v)'
  BY KeyFacts, ItemsAssumption DEF Grows, ValueFits
<1>2. /\ DOMAIN c.incomplete \subseteq Key /\ c.trackedOps \subseteq Operations
  BY DEF Cycle
<1>3. TasksOfPhase(c) => TasksOfPhase(c)'
  BY DEF Grows, TasksOfPhase
<1>4. KnowledgeOf(c) => KnowledgeOf(c)'
  BY <1>1, <1>2 DEF Grows, KnowledgeOf
<1>5. FoundIsKept(c) => FoundIsKept(c)'
  BY DEF Grows, FoundIsKept
<1>6. QED
  BY <1>1, <1>3, <1>4, <1>5

\* Between cycles there is nothing to know.
LEMMA NoCycleFacts ==
  /\ NoCycle \in Cycle /\ TasksFit(NoCycle) /\ Limit(NoCycle)
  /\ TasksOfPhase(NoCycle) /\ TasksOfPhase(NoCycle)' /\ KnowledgeOf(NoCycle) /\ KnowledgeOf(NoCycle)'
<1>1. [k \in {} |-> "absent"] \in UNION {[K -> CacheValue] : K \in SUBSET Key}
  <2>1. [k \in {} |-> "absent"] \in [{} -> CacheValue] /\ {} \in SUBSET Key
    OBVIOUS
  <2>2. QED
    BY <2>1
<1>2. NoCycle \in Cycle
  BY <1>1, EmptySeq DEF NoCycle, Cycle
<1>3. /\ Queued(NoCycle) = {} /\ Waiting(NoCycle) = {} /\ Holding(NoCycle) = {}
      /\ NoCycle.queue = <<>> /\ NoCycle.ran = {} /\ NoCycle.trackedKeys = {}
      /\ NoCycle.calls = {} /\ NoCycle.tasks = {} /\ NoCycle.pc = "idle" /\ NoCycle.reported = {}
      /\ NoCycle.trackedOps = {} /\ DOMAIN NoCycle.incomplete = {} /\ NoCycle.found = {}
  BY EmptySeq DEF NoCycle, Queued, Waiting, Holding
<1>4. TasksFit(NoCycle) /\ Limit(NoCycle)
  BY <1>3, FS_EmptySet, LimitAssumption, EmptySeq DEF TasksFit, Limit
<1>5. TasksOfPhase(NoCycle) /\ TasksOfPhase(NoCycle)'
  BY <1>3 DEF TasksOfPhase
<1>6. KnowledgeOf(NoCycle) /\ KnowledgeOf(NoCycle)'
  BY <1>3 DEF KnowledgeOf
<1>7. QED
  BY <1>2, <1>4, <1>5, <1>6

-----------------------------------------------------------------------------
(* The steps around a cycle.                                               *)

\* A step that leaves the cycle alone, or ends it.
LEMMA AroundStep ==
  ASSUME MonitorInv, Grows, cycle' \in {cycle, NoCycle}, FoundIsKept(cycle'), UNCHANGED cache,
         onChain' \subseteq Items, seen' \subseteq onChain', shutdown' \in BOOLEAN,
         spoiled' \subseteq Operations, faults' \in 0 .. MaxFaults,
         UNCHANGED retracks, rewinds' \in 0 .. MaxRewinds
  PROVE  MonitorInv'
<1>1. PICK c \in Cycle, d \in Cycle : c = cycle /\ d = cycle'
  BY NoCycleFacts DEF MonitorInv, TypeOK
<1>2. TypeOK'
  BY <1>1 DEF MonitorInv, TypeOK
<1>3. CacheFits'
  BY <1>1, GrowthKeeps DEF MonitorInv, CacheFits
<1>4. TasksFit(d) /\ Limit(d)
  BY <1>1, NoCycleFacts DEF MonitorInv, WithinLimit, Limit, Holding
<1>5. TasksOfPhase(d)' /\ KnowledgeOf(d)'
  BY <1>1, NoCycleFacts, GrowthKeeps DEF MonitorInv
<1>6. FoundIsKept(d)'
  BY <1>1, GrowthKeeps
<1>7. QED
  BY <1>1, <1>2, <1>3, <1>4, <1>5, <1>6 DEF MonitorInv, WithinLimit, Limit, Holding

\* The chain, the watermarks and the user.
LEMMA OutsideStep ==
  ASSUME MonitorInv, (\E i \in Items : Emit(i)) \/ Rewind \/ Interrupt
  PROVE  MonitorInv'
<1>1. /\ TypeOK /\ FoundIsKept(cycle) /\ UNCHANGED <<cycle, cache, spoiled, faults, retracks>>
      /\ onChain \subseteq onChain' /\ onChain' \subseteq Items /\ seen' \subseteq seen
      /\ shutdown' \in BOOLEAN /\ (shutdown => shutdown')
  BY DEF MonitorInv, TypeOK, Emit, Rewind, Interrupt, bounds
<1>2. rewinds' \in 0 .. MaxRewinds
  BY BoundsAssumption DEF MonitorInv, TypeOK, Emit, Rewind, Interrupt, bounds
<1>3. Grows
  BY <1>1 DEF Grows, Known
<1>4. QED
  BY <1>1, <1>2, <1>3, AroundStep DEF TypeOK

\* A cycle ends, or is cut short.
LEMMA EndOfCycle ==
  ASSUME MonitorInv, endCycle \/ CutShort
  PROVE  MonitorInv'
<1>1. /\ TypeOK /\ FoundIsKept(cycle) /\ TasksOfPhase(cycle) /\ cycle' = NoCycle
      /\ UNCHANGED <<onChain, seen, cache, shutdown, retracks, rewinds>>
      /\ spoiled \subseteq spoiled' /\ spoiled' \subseteq Operations
  BY DEF MonitorInv, TypeOK, endCycle, CutShort, bounds, Cycle
<1>2. faults' \in 0 .. MaxFaults
  BY BoundsAssumption DEF MonitorInv, TypeOK, endCycle, CutShort, bounds
<1>3. Grows
  BY <1>1 DEF Grows, Known
<1>4. ASSUME NEW o \in (seen \cap Operations) \ spoiled' PROVE Known(o)
  <2>1. \/ Known(o)
        \/ o \in cycle.found /\ cycle.pc = "proposals"
        \/ o \in cycle.found /\ cycle.pc = "operations" /\ TaskOf(o) \in Waiting(cycle) \cup cycle.calls
    BY <1>1 DEF FoundIsKept
  <2>2. CASE endCycle
    <3>1. /\ cycle.pc = "operations" /\ cycle.tasks = {} /\ cycle.queue = <<>> /\ cycle.calls = {}
      BY <2>2 DEF endCycle, Settled
    <3>2. Waiting(cycle) = {}
      BY <3>1, EmptySeq DEF Waiting, Queued
    <3>3. QED
      BY <2>1, <3>1, <3>2
  <2>3. CASE CutShort
    BY <2>1, <2>3 DEF CutShort
  <2>4. QED
    BY <2>2, <2>3
<1>5. MonitorInv'
  <2>1. PICK d \in Cycle : d = cycle'
    BY <1>1, NoCycleFacts
  <2>2. d = NoCycle /\ d.found = {} /\ TasksFit(d) /\ Limit(d) /\ TasksOfPhase(d)' /\ KnowledgeOf(d)'
    BY <1>1, <2>1, NoCycleFacts DEF NoCycle
  <2>3. FoundIsKept(d)'
    BY <1>1, <1>4, <2>2 DEF FoundIsKept, Known
  <2>4. TypeOK' /\ CacheFits'
    BY <1>1, <1>2, <1>3, <2>1, GrowthKeeps DEF MonitorInv, TypeOK, CacheFits
  <2>5. QED
    BY <2>1, <2>2, <2>3, <2>4 DEF MonitorInv, WithinLimit, Limit, Holding
<1>6. QED
  BY <1>5

\* A cycle begins with what is new.
LEMMA DiscoverStep ==
  ASSUME MonitorInv, NEW targets \in Targets, discoverAll(targets)
  PROVE  MonitorInv'
<1> DEFINE new(found) == [NoCycle EXCEPT !.pc = "discovered", !.targets = targets, !.found = found]
<1>0. PICK found : found = Found(targets)
  OBVIOUS
<1>1. /\ TypeOK /\ CacheFits /\ FoundIsKept(cycle) /\ cycle.pc = "idle" /\ cycle' = new(found)
      /\ UNCHANGED <<onChain, seen, shutdown, faults, retracks, rewinds, spoiled>>
      /\ cache' = [k \in Key |-> IF k.kind = "proposal" /\ k.item \in found /\ cache[k] = "absent"
                                 THEN "pending" ELSE cache[k]]
  BY <1>0 DEF MonitorInv, discoverAll, bounds
<1>2. found \subseteq onChain /\ found \subseteq Items /\ targets \subseteq {"proposals", "operations"}
  BY <1>0, <1>1 DEF TypeOK, Found, Targets
<1>d. new(found) \in Cycle
  BY <1>2, NoCycleFacts DEF Cycle
<1>3. PICK d \in Cycle :
        /\ d = cycle' /\ d.pc = "discovered" /\ d.found = found /\ d.queue = <<>> /\ d.tasks = {}
        /\ d.calls = {} /\ d.skips = {} /\ d.ran = {} /\ d.trackedKeys = {} /\ d.reported = {}
        /\ d.trackedOps = {} /\ DOMAIN d.incomplete = {}
  <2>1. /\ new(found).pc = "discovered" /\ new(found).found = found /\ new(found).queue = <<>>
        /\ new(found).tasks = {} /\ new(found).calls = {} /\ new(found).skips = {}
        /\ new(found).ran = {} /\ new(found).trackedKeys = {} /\ new(found).reported = {}
        /\ new(found).trackedOps = {} /\ DOMAIN new(found).incomplete = {}
    BY DEF NoCycle
  <2> HIDE DEF new
  <2>2. QED
    BY <1>1, <1>d, <2>1
<1> HIDE DEF new
<1>4. Waiting(d) = {} /\ Holding(d) = {}
  BY <1>3, EmptySeq DEF Waiting, Queued, Holding
<1>5. TasksFit(d) /\ Limit(d)
  BY <1>3, <1>4, FS_EmptySet, LimitAssumption, EmptySeq DEF TasksFit, Limit, Waiting
<1>6. /\ cache' \in [Key -> CacheValue] /\ \A k \in Key : cache[k] # "absent" => cache'[k] = cache[k]
      /\ \A p \in found \cap Proposals : cache'[KeyOf("proposal", p)] # "absent"
  BY <1>1, KeyFacts DEF TypeOK, CacheValue, Governor
<1>7. Grows
  BY <1>1, <1>6, KeyFacts DEF Grows, Known
<1>8. CacheFits'
  <2>1. ASSUME NEW k \in Key PROVE ValueFits(k, cache[k])'
    <3>1. PICK v : v = cache[k]
      OBVIOUS
    <3>2. ValueFits(k, v)'
      BY <1>1, <1>7, <3>1, NoCycleFacts, GrowthKeeps DEF CacheFits
    <3>3. cache'[k] = v \/ (k.kind = "proposal" /\ cache'[k] = "pending")
      BY <1>1, <3>1
    <3>4. QED
      BY <3>2, <3>3 DEF ValueFits
  <2>2. QED
    BY <2>1 DEF CacheFits
<1>9. TasksOfPhase(d)' /\ KnowledgeOf(d)'
  BY <1>3, <1>4 DEF TasksOfPhase, KnowledgeOf
<1>10. FoundIsKept(d)'
  BY <1>1, <1>2, <1>3, <1>6, <1>7 DEF FoundIsKept, Grows
<1>11. QED
  BY <1>1, <1>3, <1>5, <1>6, <1>8, <1>9, <1>10 DEF MonitorInv, TypeOK, WithinLimit, Limit, Holding

\* The first tasks are made of what is new and what is not complete.
LEMMA ProposalTasksStep ==
  ASSUME MonitorInv, buildProposalTasks
  PROVE  MonitorInv'
<1>c. PICK c \in Cycle : c = cycle
  BY DEF MonitorInv, TypeOK
<1> DEFINE known == [k \in queryIncompleteCheckpoints |-> cache[k]]
           first(incomplete) ==
             [source : {"discovered"}, key : {KeyOf("proposal", p) : p \in c.found \cap Proposals}]
               \cup [source : {"cached"}, key : {k \in DOMAIN incomplete :
                                                   /\ incomplete[k] \in Governor
                                                   /\ "proposals" \in c.targets}]
           new(incomplete, tasks) ==
             [c EXCEPT !.pc = "proposals", !.incomplete = incomplete, !.tasks = tasks]
<1>0. PICK incomplete, tasks : incomplete = known /\ tasks = first(incomplete)
  OBVIOUS
<1>1. /\ TypeOK /\ CacheFits /\ TasksFit(c) /\ Limit(c)
      /\ TasksOfPhase(c) /\ KnowledgeOf(c) /\ FoundIsKept(c)
      /\ c.pc = "discovered" /\ cycle' = new(incomplete, tasks) /\ seen' = seen \cup c.found
      /\ UNCHANGED <<onChain, cache, shutdown, faults, retracks, rewinds, spoiled>>
  BY <1>c, <1>0 DEF MonitorInv, WithinLimit, Limit, Holding, buildProposalTasks, bounds
<1>2. /\ DOMAIN incomplete \subseteq Key /\ \A k \in DOMAIN incomplete : incomplete[k] = cache[k]
      /\ incomplete \in UNION {[K -> CacheValue] : K \in SUBSET Key}
  <2>1. queryIncompleteCheckpoints \in SUBSET Key
    BY DEF queryIncompleteCheckpoints
  <2>2. known \in [queryIncompleteCheckpoints -> CacheValue]
    BY <1>1, <2>1 DEF TypeOK
  <2>3. QED
    BY <1>0, <2>1, <2>2
<1>3. ASSUME NEW k \in DOMAIN incomplete PROVE k \in Key /\ ValueFits(k, incomplete[k])
  BY <1>1, <1>2 DEF CacheFits
<1>4. ASSUME NEW t \in tasks
      PROVE  t \in Task /\ ~OperationTask(t) /\ (t.key.kind = "queueTx" => t.key.item \in spoiled)
  <2>1. CASE t.source = "discovered"
    BY <1>0, <1>4, <2>1, KeyFacts DEF Task, OperationTask
  <2>2. CASE t.source # "discovered"
    <3>1. /\ t.source = "cached" /\ t.key \in DOMAIN incomplete /\ incomplete[t.key] \in Governor
          /\ t = [source |-> "cached", key |-> t.key]
      BY <1>0, <1>4, <2>2
    <3>2. t \in Task
      BY <1>3, <3>1 DEF Task
    <3>3. t.key.kind # "operation" /\ (t.key.kind = "queueTx" => t.key.item \in spoiled)
      BY <1>3, <3>1, KeyFacts DEF ValueFits, Governor
    <3>4. QED
      BY <3>1, <3>2, <3>3 DEF OperationTask
  <2>3. QED
    BY <2>1, <2>2
<1>5. PICK d \in Cycle :
        /\ d = cycle' /\ d.pc = "proposals" /\ d.incomplete = incomplete /\ d.tasks = tasks
        /\ d.found = c.found /\ d.queue = c.queue /\ d.calls = c.calls /\ d.skips = c.skips
        /\ d.ran = c.ran /\ d.trackedKeys = c.trackedKeys /\ d.reported = c.reported
        /\ d.trackedOps = c.trackedOps
  <2>1. tasks \in SUBSET Task
    BY <1>4
  <2>2. new(incomplete, tasks) \in Cycle
    BY <1>2, <2>1 DEF Cycle
  <2>3. QED
    BY <1>1, <2>2 DEF Cycle
<1> HIDE DEF new, known, first
<1>6. /\ Waiting(c) = {} /\ Holding(c) = {} /\ c.ran = {} /\ Queued(c) = {} /\ Queued(d) = {}
      /\ Waiting(d) = tasks /\ Holding(d) = {} /\ d.ran = {}
  <2>1. Waiting(c) \cup Holding(c) \cup c.ran = {}
    BY <1>1 DEF TasksOfPhase
  <2>2. Waiting(c) = {} /\ Holding(c) = {} /\ c.ran = {}
    BY <2>1
  <2>3. Queued(c) = {} /\ Queued(d) = Queued(c)
    BY <1>5, <2>2 DEF Waiting, Queued
  <2>4. Holding(d) = Holding(c) /\ Waiting(d) = tasks \cup Queued(d)
    BY <1>5 DEF Holding, Waiting
  <2>5. QED
    BY <1>5, <2>2, <2>3, <2>4
<1>7. TasksFit(d) /\ Limit(d)
  BY <1>1, <1>5, <1>6 DEF TasksFit, Limit
<1>8. TasksOfPhase(d)'
  BY <1>1, <1>4, <1>5, <1>6 DEF TasksOfPhase
<1>9. ASSUME NEW k \in Key, NEW v PROVE ValueFits(k, v) => ValueFits(k, v)'
  BY <1>1 DEF ValueFits, Known
<1>10. KnowledgeOf(d)'
  BY <1>1, <1>3, <1>5, <1>9 DEF KnowledgeOf, Known
<1>11. FoundIsKept(d)'
  BY <1>1, <1>5 DEF FoundIsKept, Known
<1>12. CacheFits'
  BY <1>1, <1>9 DEF CacheFits
<1>13. TypeOK'
  BY <1>1, <1>5 DEF TypeOK, FoundIsKept
<1>14. QED
  BY <1>5, <1>7, <1>8, <1>10, <1>11, <1>12, <1>13 DEF MonitorInv, WithinLimit, Limit, Holding

\* The second tasks are made of what is left then.
LEMMA TimelockTasksStep ==
  ASSUME MonitorInv, buildTimelockTasks
  PROVE  MonitorInv'
<1>c. PICK c \in Cycle : c = cycle
  BY DEF MonitorInv, TypeOK
<1> DEFINE second(tracked) ==
             [source : {"discovered"}, key : {KeyOf("queueTx", o) : o \in (c.found \cap Operations) \ tracked}]
               \cup [source : {"cached"}, key : {k \in DOMAIN c.incomplete :
                                                   /\ c.incomplete[k] = "timelock"
                                                   /\ "operations" \in c.targets
                                                   /\ k.item \notin tracked}]
           new(tasks) == [c EXCEPT !.pc = "operations", !.tasks = tasks]
<1>0. PICK tracked, tasks : tracked = AlreadyTracked /\ tasks = second(tracked)
  OBVIOUS
<1>1. /\ TypeOK /\ CacheFits /\ TasksFit(c) /\ Limit(c)
      /\ TasksOfPhase(c) /\ KnowledgeOf(c) /\ FoundIsKept(c)
      /\ c.pc = "proposals" /\ cycle' = new(tasks)
      /\ c.tasks = {} /\ c.queue = <<>> /\ c.calls = {} /\ c.skips = {}
      /\ UNCHANGED <<onChain, seen, cache, shutdown, faults, retracks, rewinds, spoiled>>
  BY <1>c, <1>0 DEF MonitorInv, WithinLimit, Limit, Holding, buildTimelockTasks, Settled, bounds
<1>2. c.trackedOps \subseteq tracked
  BY <1>c, <1>0 DEF AlreadyTracked
<1>3. ASSUME NEW o \in tracked PROVE Known(o) \/ o \in spoiled
  <2>1. CASE o \in c.trackedOps
    BY <1>1, <2>1 DEF KnowledgeOf
  <2>2. CASE o \notin c.trackedOps
    <3>1. o \in governorOperationIds
      BY <1>c, <1>0, <1>3, <2>2 DEF AlreadyTracked
    <3>2. PICK k \in DOMAIN c.incomplete :
            c.incomplete[k] \in {"linked", "unlinked"} /\ o = OperationOf[k.item]
      BY <1>c, <3>1 DEF governorOperationIds
    <3>3. k \in Key /\ ValueFits(k, c.incomplete[k])
      BY <1>1, <3>2 DEF KnowledgeOf, Cycle
    <3>4. QED
      BY <3>2, <3>3, KeyFacts DEF ValueFits
  <2>3. QED
    BY <2>1, <2>2
<1>4. ASSUME NEW t \in tasks
      PROVE  /\ t \in Task /\ OperationTask(t) /\ t.key.item \notin tracked
             /\ t.key.kind = "queueTx" => t.key.item \in c.found
  <2>1. CASE t.source = "discovered"
    BY <1>0, <1>4, <2>1, KeyFacts DEF Task, OperationTask
  <2>2. CASE t.source # "discovered"
    <3>1. /\ t.source = "cached" /\ t.key \in DOMAIN c.incomplete /\ c.incomplete[t.key] = "timelock"
          /\ t = [source |-> "cached", key |-> t.key] /\ t.key.item \notin tracked
      BY <1>0, <1>4, <2>2
    <3>2. t.key \in Key /\ ValueFits(t.key, c.incomplete[t.key])
      BY <1>1, <3>1 DEF KnowledgeOf, Cycle
    <3>3. t \in Task
      BY <3>1, <3>2 DEF Task
    <3>4. t.key.kind = "operation"
      BY <3>1, <3>2, KeyFacts DEF ValueFits
    <3>5. QED
      BY <3>1, <3>3, <3>4 DEF OperationTask
  <2>3. QED
    BY <2>1, <2>2
<1>5. PICK d \in Cycle :
        /\ d = cycle' /\ d.pc = "operations" /\ d.incomplete = c.incomplete /\ d.tasks = tasks
        /\ d.found = c.found /\ d.queue = c.queue /\ d.calls = c.calls /\ d.skips = c.skips
        /\ d.ran = c.ran /\ d.trackedKeys = c.trackedKeys /\ d.reported = c.reported
        /\ d.trackedOps = c.trackedOps
  <2>1. tasks \in SUBSET Task
    BY <1>4
  <2>2. new(tasks) \in Cycle
    BY <2>1 DEF Cycle
  <2>3. QED
    BY <1>1, <2>2 DEF Cycle
<1> HIDE DEF new
<1>6. /\ Waiting(c) = {} /\ Holding(c) = {} /\ Queued(c) = {} /\ Queued(d) = {}
      /\ Waiting(d) = tasks /\ Holding(d) = {} /\ d.calls = {}
  BY <1>1, <1>5, EmptySeq DEF Waiting, Queued, Holding
<1>7. \A t \in c.ran : ~OperationTask(t)
  BY <1>1 DEF TasksOfPhase
<1>8. TasksFit(d) /\ Limit(d)
  BY <1>1, <1>4, <1>5, <1>6, <1>7 DEF TasksFit, Limit
<1>9. TasksOfPhase(d)'
  BY <1>1, <1>2, <1>4, <1>5, <1>6, <1>7 DEF TasksOfPhase, KnowledgeOf
<1>10. ASSUME NEW k \in Key, NEW v PROVE ValueFits(k, v) => ValueFits(k, v)'
  BY <1>1 DEF ValueFits, Known
<1>11. KnowledgeOf(d)'
  BY <1>1, <1>5, <1>10 DEF KnowledgeOf, Known, Cycle
<1>12. ASSUME NEW o \in (c.found \cap Operations) \ tracked PROVE TaskOf(o) \in tasks
  BY <1>0, <1>12 DEF TaskOf
<1> HIDE DEF second
<1>13. FoundIsKept(d)'
  BY <1>1, <1>3, <1>5, <1>6, <1>12 DEF FoundIsKept, Known
<1>14. CacheFits'
  BY <1>1, <1>10 DEF CacheFits
<1>15. TypeOK'
  BY <1>1, <1>5 DEF TypeOK
<1>16. QED
  BY <1>5, <1>8, <1>9, <1>11, <1>13, <1>14, <1>15 DEF MonitorInv, WithinLimit, Limit, Holding

-----------------------------------------------------------------------------
(* The steps of the limiter and of the tracking calls.                     *)

\* A task is only handed over, and only ends, in one of the two phases.
LEMMA InPhase ==
  ASSUME NEW c \in Cycle, TasksOfPhase(c), NEW t \in Waiting(c) \cup Holding(c)
  PROVE  c.pc \in {"proposals", "operations"}
<1>1. c.pc \in {"idle", "discovered", "proposals", "operations"}
  BY DEF Cycle
<1>2. c.pc \in {"idle", "discovered"} => Waiting(c) \cup Holding(c) \cup c.ran = {}
  BY DEF TasksOfPhase
<1>3. QED
  BY <1>1, <1>2

\* The limiter's own steps: a task is submitted, a task that is skipped returns.
LEMMA LimiterStep ==
  ASSUME MonitorInv, NEW t \in Task, Submit(t) \/ ReturnSkipped(t)
  PROVE  MonitorInv'
<1>c. PICK c \in Cycle : c = cycle
  BY DEF MonitorInv, TypeOK
<1>1. /\ TypeOK /\ CacheFits /\ TasksFit(c) /\ Limit(c)
      /\ TasksOfPhase(c) /\ KnowledgeOf(c) /\ FoundIsKept(c)
      /\ UNCHANGED <<onChain, seen, cache, shutdown, faults, retracks, rewinds, spoiled>>
  BY <1>c DEF MonitorInv, WithinLimit, Limit, Holding, Submit, ReturnSkipped, bounds
<1>2. Grows
  BY <1>1 DEF Grows, Known
<1>3. PICK d \in Cycle : d = cycle' /\ TasksFit(d) /\ Limit(d) /\ Moves(c, d, {})
                         /\ t \in Waiting(c) \cup Holding(c)
  <2>1. CASE Submit(t)
    <3> DEFINE b == [c EXCEPT !.tasks = @ \ {t}]
               d == IF Admits(b) THEN Started(b, t) ELSE [b EXCEPT !.queue = Append(@, t)]
    <3>1. t \in c.tasks /\ cycle' = d
      BY <1>c, <2>1 DEF Submit
    <3>2. d \in Cycle /\ TasksFit(d) /\ Limit(d) /\ Moves(c, d, {})
      BY <1>1, <3>1, SubmitFacts
    <3> HIDE DEF d
    <3>3. QED
      BY <3>1, <3>2 DEF Waiting
  <2>2. CASE ReturnSkipped(t)
    <3>1. t \in c.skips /\ cycle' = Released(c, t) /\ t \in Holding(c)
      BY <1>c, <2>2 DEF ReturnSkipped, Holding
    <3>2. PICK d \in Cycle : d = cycle' /\ TasksFit(d) /\ Limit(d) /\ Moves(c, d, {t})
      BY <1>1, <3>1, ReleasedFacts
    <3>3. c.calls \ {t} = c.calls \ {}
      BY <1>1, <3>1 DEF TasksFit
    <3>4. Moves(c, d, {})
      BY <3>2, <3>3 DEF Moves, Starts
    <3>5. QED
      BY <3>1, <3>2, <3>4
  <2>3. QED
    BY <2>1, <2>2
<1>4. c.pc \in {"proposals", "operations"}
  BY <1>1, <1>3, InPhase
<1>5. TasksOfPhase(c)' /\ KnowledgeOf(c)' /\ FoundIsKept(c)'
  BY <1>1, <1>2, GrowthKeeps
<1>6. TasksOfPhase(d)' /\ KnowledgeOf(d)' /\ FoundIsKept(d)'
  <2>1. \A o \in Operations : TaskOf(o) \in {} => Known(o)' \/ o \in spoiled'
    OBVIOUS
  <2>2. QED
    BY <1>1, <1>3, <1>4, <1>5, <2>1, MovesKeep
<1>7. CacheFits'
  BY <1>1, <1>2, GrowthKeeps DEF CacheFits
<1>8. TypeOK'
  BY <1>1, <1>3 DEF TypeOK
<1>9. QED
  BY <1>3, <1>6, <1>7, <1>8 DEF MonitorInv, WithinLimit, Limit, Holding

\* A call that ends, or goes round again, with the cache fit for what it has counted.
LEMMA CallStep ==
  ASSUME MonitorInv, NEW t \in Task, t \in cycle.calls, NEW c \in Cycle, Grows,
         cache' \in [Key -> CacheValue], CacheFits',
         c.pc = cycle.pc /\ c.found = cycle.found /\ c.incomplete = cycle.incomplete,
         c.tasks = cycle.tasks /\ c.queue = cycle.queue /\ c.calls = cycle.calls,
         c.skips = cycle.skips /\ c.ran = cycle.ran /\ c.trackedKeys = cycle.trackedKeys,
         c.reported = cycle.reported \/ t.key.kind = "proposal",
         c.reported \subseteq c.trackedOps \/ shutdown',
         \A o \in c.trackedOps \ cycle.trackedOps : Known(o)' \/ o \in spoiled',
         \A o \in Operations : TaskOf(o) = t => Known(o)' \/ o \in spoiled',
         cycle' \in {c, Released(c, t)},
         UNCHANGED <<onChain, seen, shutdown, rewinds>>, spoiled' \subseteq Operations,
         faults' \in 0 .. MaxFaults, retracks' \in 0 .. MaxRetracks
  PROVE  MonitorInv'
<1>b. PICK b \in Cycle : b = cycle
  BY DEF MonitorInv, TypeOK
<1>1. /\ TypeOK /\ TasksFit(b) /\ Limit(b)
      /\ TasksOfPhase(b)' /\ KnowledgeOf(b)' /\ FoundIsKept(b)'
      /\ TasksOfPhase(b) /\ t \in b.calls /\ t \in Holding(b)
  BY <1>b, GrowthKeeps DEF MonitorInv, WithinLimit, Limit, Holding
<1>2. b.pc \in {"proposals", "operations"}
  BY <1>1, InPhase
<1>3. Queued(c) = Queued(b) /\ Waiting(c) = Waiting(b) /\ Holding(c) = Holding(b)
  BY <1>b DEF Queued, Waiting, Holding
<1>4. TasksFit(c) /\ Limit(c) /\ t \in Holding(c) /\ c.pc \in {"proposals", "operations"}
  BY <1>b, <1>1, <1>2, <1>3 DEF TasksFit, Limit
<1>5. TasksOfPhase(c)'
  <2>1. CASE b.pc = "proposals"
    BY <1>b, <1>1, <1>3, <2>1 DEF TasksOfPhase
  <2>2. CASE b.pc = "operations"
    <3>1. c.reported = b.reported
      BY <1>b, <1>1, <2>2 DEF TasksOfPhase, OperationTask
    <3>2. QED
      BY <1>b, <1>1, <1>3, <2>2, <3>1 DEF TasksOfPhase
  <2>3. QED
    BY <1>2, <2>1, <2>2
<1>6. KnowledgeOf(c)'
  BY <1>b, <1>1 DEF KnowledgeOf
<1>7. FoundIsKept(c)'
  BY <1>b, <1>1, <1>3 DEF FoundIsKept
<1>8. PICK d \in Cycle : /\ d = cycle' /\ TasksFit(d) /\ Limit(d)
                         /\ TasksOfPhase(d)' /\ KnowledgeOf(d)' /\ FoundIsKept(d)'
  <2>1. CASE cycle' = c
    BY <1>4, <1>5, <1>6, <1>7, <2>1
  <2>2. CASE cycle' = Released(c, t)
    <3>1. PICK d \in Cycle : d = cycle' /\ TasksFit(d) /\ Limit(d) /\ Moves(c, d, {t})
      BY <1>4, <2>2, ReleasedFacts
    <3>2. \A o \in Operations : TaskOf(o) \in {t} => Known(o)' \/ o \in spoiled'
      OBVIOUS
    <3>3. TasksOfPhase(d)' /\ KnowledgeOf(d)' /\ FoundIsKept(d)'
      BY <1>4, <1>5, <1>6, <1>7, <3>1, <3>2, MovesKeep
    <3>4. QED
      BY <3>1, <3>3
  <2>3. QED
    BY <2>1, <2>2
<1>9. TypeOK'
  BY <1>1, <1>8 DEF TypeOK
<1>10. QED
  BY <1>8, <1>9 DEF MonitorInv, WithinLimit, Limit, Holding

\* What one call may make of one checkpoint.
Updated(j, new) ==
  \/ new[j] = cache[j]
  \/ j.kind = "proposal" /\ new[j] \in {"pending", "complete"}
  \/ /\ j.kind = "proposal" /\ new[j] \in {"linked", "unlinked"}
     /\ new[KeyOf("operation", OperationOf[j.item])] # "absent"
  \/ j.kind = "operation" /\ new[j] \in {"timelock", "complete"}
  \/ j.kind = "queueTx" /\ new[j] = "madeUp"

\* A call that succeeds brings the operation it reports, or counts, into the cache.
LEMMA TrackedFacts ==
  ASSUME TypeOK, CacheFits, NEW k \in Key, NEW new \in TrackedCaches(k)
  PROVE  /\ new \in [Key -> CacheValue] /\ \A j \in Key : Updated(j, new)
         /\ \A j \in Key : j.kind = "queueTx" => new[j] = cache[j]
         /\ Reported(k) \subseteq Operations
         /\ \A o \in Reported(k) : new[KeyOf("operation", o)] # "absent"
         /\ k.kind = "queueTx" => new[KeyOf("operation", k.item)] # "absent" \/ k.item \in spoiled
<1>t. /\ cache \in [Key -> CacheValue]
      /\ \A o \in Operations : OperationValues(o) \subseteq {"timelock", "complete"}
  BY DEF TypeOK, OperationValues
<1>1. CASE k.kind = "proposal" /\ OperationOf[k.item] \in onChain
  <2> DEFINE o == OperationOf[k.item]  j == KeyOf("operation", o)
  <2>1. /\ k.item \in Proposals /\ o \in Operations /\ j \in Key /\ j.kind = "operation" /\ j.item = o
        /\ j # k
    BY <1>1, KeyFacts, ItemsAssumption
  <2>2. PICK v \in OperationValues(o) : new = [cache EXCEPT ![k] = "linked", ![j] = v]
    BY <1>1 DEF TrackedCaches
  <2>3. v \in {"timelock", "complete"}
    BY <1>t, <2>1, <2>2
  <2> HIDE DEF j
  <2>4. /\ new \in [Key -> CacheValue] /\ new[k] = "linked" /\ new[j] = v
        /\ \A i \in Key \ {k, j} : new[i] = cache[i]
    BY <1>t, <2>1, <2>2, <2>3 DEF CacheValue, Governor
  <2>5. Reported(k) = {o}
    BY <1>1 DEF Reported
  <2>6. QED
    BY <1>1, <2>1, <2>3, <2>4, <2>5 DEF Updated, j
<1>2. CASE k.kind = "proposal" /\ OperationOf[k.item] \notin onChain
  <2>1. PICK v \in {"pending", "complete"} : new = [cache EXCEPT ![k] = v]
    BY <1>2 DEF TrackedCaches
  <2>2. /\ new \in [Key -> CacheValue] /\ new[k] = v /\ \A i \in Key \ {k} : new[i] = cache[i]
    BY <1>t, <2>1 DEF CacheValue, Governor
  <2>3. Reported(k) = {}
    BY <1>2 DEF Reported
  <2>4. QED
    BY <1>2, <2>2, <2>3 DEF Updated
<1>3. CASE k.kind # "proposal" /\ cache[KeyOf("queueTx", k.item)] = "madeUp"
  <2>1. new = cache /\ Reported(k) = {}
    BY <1>3 DEF TrackedCaches, Reported
  <2>2. k.item \in Operations /\ k.item \in spoiled
    BY <1>3, KeyFacts DEF CacheFits, ValueFits
  <2>3. QED
    BY <1>t, <2>1, <2>2 DEF Updated
<1>4. CASE k.kind # "proposal" /\ cache[KeyOf("queueTx", k.item)] # "madeUp"
  <2> DEFINE o == k.item  j == KeyOf("operation", o)
  <2>1. o \in Operations /\ j \in Key /\ j.kind = "operation"
    BY <1>4, KeyFacts
  <2>2. PICK v \in OperationValues(o) : new = [cache EXCEPT ![j] = v]
    BY <1>4 DEF TrackedCaches
  <2>3. v \in {"timelock", "complete"}
    BY <1>t, <2>1, <2>2
  <2> HIDE DEF j
  <2>4. new \in [Key -> CacheValue] /\ new[j] = v /\ \A i \in Key \ {j} : new[i] = cache[i]
    BY <1>t, <2>1, <2>2, <2>3 DEF CacheValue
  <2>5. Reported(k) = {o}
    BY <1>4 DEF Reported
  <2>6. QED
    BY <2>1, <2>3, <2>4, <2>5 DEF Updated, j
<1>5. QED
  BY <1>1, <1>2, <1>3, <1>4

\* One that fails takes away no more than a link.
LEMMA FailedFacts ==
  ASSUME TypeOK, CacheFits, NEW k \in Key, NEW new \in FailedCaches(k)
  PROVE  /\ new \in [Key -> CacheValue] /\ \A j \in Key : Updated(j, new)
         /\ \A j \in Key : j.kind = "queueTx" => new[j] = cache[j] \/ j.item = k.item
<1>t. cache \in [Key -> CacheValue]
  BY DEF TypeOK
<1>1. CASE k.kind = "proposal"
  <2>1. new = [cache EXCEPT ![k] = IF @ = "linked" THEN "unlinked" ELSE @]
    BY <1>1 DEF FailedCaches
  <2>2. /\ new \in [Key -> CacheValue] /\ \A i \in Key \ {k} : new[i] = cache[i]
        /\ new[k] = cache[k] \/ (new[k] = "unlinked" /\ cache[k] = "linked")
    BY <1>t, <2>1 DEF CacheValue, Governor
  <2>3. cache[k] = "linked" => new[KeyOf("operation", OperationOf[k.item])] # "absent"
    <3>1. /\ k.item \in Proposals /\ OperationOf[k.item] \in Operations
          /\ KeyOf("operation", OperationOf[k.item]) \in Key \ {k}
      BY <1>1, KeyFacts, ItemsAssumption
    <3>2. QED
      BY <1>1, <2>2, <3>1 DEF CacheFits, ValueFits, Known
  <2>4. QED
    BY <1>1, <2>2, <2>3 DEF Updated
<1>2. CASE k.kind # "proposal"
  <2> DEFINE j == KeyOf("queueTx", k.item)
  <2>1. j \in Key /\ j.kind = "queueTx" /\ j.item = k.item
    BY <1>2, KeyFacts
  <2>2. new = cache \/ new = [cache EXCEPT ![j] = "madeUp"]
    BY <1>2 DEF FailedCaches
  <2> HIDE DEF j
  <2>3. /\ new \in [Key -> CacheValue] /\ \A i \in Key \ {j} : new[i] = cache[i]
        /\ new[j] \in {cache[j], "madeUp"}
    BY <1>t, <2>1, <2>2 DEF CacheValue, Governor
  <2>4. QED
    BY <2>1, <2>3 DEF Updated
<1>3. QED
  BY <1>1, <1>2

\* Updates keep the cache fit, and let it grow.
LEMMA UpdatesFit ==
  ASSUME TypeOK, CacheFits, \A j \in Key : Updated(j, cache'), UNCHANGED <<onChain, seen, shutdown>>,
         spoiled \subseteq spoiled',
         \A j \in Key : j.kind = "queueTx" => cache'[j] = cache[j] \/ j.item \in spoiled'
  PROVE  Grows /\ CacheFits'
<1>1. \A j \in Key : cache[j] # "absent" => cache'[j] # "absent"
  BY DEF Updated
<1>2. Grows
  BY <1>1, KeyFacts DEF Grows, Known
<1>3. ASSUME NEW j \in Key PROVE ValueFits(j, cache[j])'
  <2>1. ValueFits(j, cache[j]) /\ Updated(j, cache')
    BY DEF CacheFits
  <2>2. CASE j.kind = "proposal"
    <3>1. OperationOf[j.item] \in Operations
      BY <2>2, KeyFacts, ItemsAssumption
    <3>2. Known(OperationOf[j.item]) => Known(OperationOf[j.item])'
      BY <1>2, <3>1 DEF Grows
    <3>3. QED
      BY <2>1, <2>2, <3>2 DEF ValueFits, Updated, Known
  <2>3. CASE j.kind = "operation"
    BY <2>1, <2>3 DEF ValueFits, Updated
  <2>4. CASE j.kind = "queueTx"
    BY <2>1, <2>4 DEF ValueFits, Updated
  <2>5. QED
    BY <2>2, <2>3, <2>4, KeyFacts
<1>4. QED
  BY <1>2, <1>3 DEF CacheFits

\* trackFn returns.
LEMMA SucceedStep ==
  ASSUME MonitorInv, NEW t \in Task, TrackSucceeds(t)
  PROVE  MonitorInv'
<1>b. PICK b \in Cycle : b = cycle
  BY DEF MonitorInv, TypeOK
<1> DEFINE k == t.key
           reported == IF k.kind = "proposal" THEN b.reported \cup Reported(k) ELSE b.reported
           tracked == b.trackedOps \cup CountedByTask(t) \cup (IF shutdown THEN {} ELSE Reported(k))
           new == [b EXCEPT !.reported = reported, !.trackedOps = tracked]
<1>t. TypeOK /\ CacheFits /\ KnowledgeOf(b) /\ k \in Key /\ t \in b.calls
  BY <1>b DEF MonitorInv, Task, TrackSucceeds
<1>1. PICK again \in BOOLEAN :
        /\ again => retracks < MaxRetracks
        /\ cycle' = IF again THEN new ELSE Released(new, t)
        /\ retracks' = IF again THEN retracks + 1 ELSE retracks
  BY <1>b DEF TrackSucceeds
<1>2. /\ cache' \in TrackedCaches(k)
      /\ UNCHANGED <<onChain, seen, shutdown, faults, rewinds, spoiled>>
  BY DEF TrackSucceeds
<1>3. /\ cache' \in [Key -> CacheValue] /\ \A j \in Key : Updated(j, cache')
      /\ \A j \in Key : j.kind = "queueTx" => cache'[j] = cache[j]
      /\ Reported(k) \subseteq Operations /\ \A o \in Reported(k) : Known(o)'
      /\ k.kind = "queueTx" => Known(k.item)' \/ k.item \in spoiled
  BY <1>t, <1>2, TrackedFacts DEF Known
<1>4. Grows /\ CacheFits'
  BY <1>t, <1>2, <1>3, UpdatesFit
<1>5. /\ CountedByTask(t) \subseteq Operations
      /\ \A o \in CountedByTask(t) : Known(o)' \/ o \in spoiled
  BY <1>t, <1>3, KeyFacts DEF CountedByTask
<1>6. /\ reported \subseteq Operations /\ tracked \subseteq Operations
      /\ \A o \in tracked \ b.trackedOps : Known(o)' \/ o \in spoiled
      /\ reported \subseteq tracked \/ shutdown
      /\ reported = b.reported \/ k.kind = "proposal"
  BY <1>t, <1>3, <1>5 DEF Cycle, KnowledgeOf
<1> HIDE DEF reported, tracked
<1>7. /\ new \in Cycle /\ new.reported = reported /\ new.trackedOps = tracked
      /\ new.pc = b.pc /\ new.found = b.found /\ new.incomplete = b.incomplete
      /\ new.tasks = b.tasks /\ new.queue = b.queue /\ new.calls = b.calls
      /\ new.skips = b.skips /\ new.ran = b.ran /\ new.trackedKeys = b.trackedKeys
  BY <1>6 DEF Cycle
<1>8. PICK c \in Cycle : c = new
  BY <1>7
<1> HIDE DEF new
<1>9. \A o \in Operations : TaskOf(o) = t => Known(o)' \/ o \in spoiled
  <2>1. \A o \in Operations : TaskOf(o) = t => k = KeyOf("queueTx", o)
    BY DEF TaskOf
  <2>2. QED
    BY <1>3, <2>1, KeyFacts
<1>10. retracks' \in 0 .. MaxRetracks
  BY <1>t, <1>1, BoundsAssumption DEF TypeOK
<1>11. /\ c.reported \subseteq c.trackedOps \/ shutdown'
       /\ \A o \in c.trackedOps \ b.trackedOps : Known(o)' \/ o \in spoiled'
       /\ c.reported = b.reported \/ t.key.kind = "proposal"
       /\ cycle' \in {c, Released(c, t)}
  BY <1>1, <1>2, <1>6, <1>7, <1>8
<1>12. QED
  BY <1>b, <1>t, <1>2, <1>3, <1>4, <1>7, <1>8, <1>9, <1>10, <1>11, CallStep DEF TypeOK

\* trackFn throws.
LEMMA FailStep ==
  ASSUME MonitorInv, NEW t \in Task, TrackFails(t)
  PROVE  MonitorInv'
<1>b. PICK b \in Cycle : b = cycle
  BY DEF MonitorInv, TypeOK
<1> DEFINE k == t.key  new == [b EXCEPT !.trackedOps = @ \cup ReportedByFailure(k)]
<1>t. TypeOK /\ CacheFits /\ KnowledgeOf(b) /\ k \in Key /\ t \in b.calls
  BY <1>b DEF MonitorInv, Task, TrackFails
<1>1. /\ cache' \in FailedCaches(k) /\ faults < MaxFaults /\ faults' = faults + 1
      /\ spoiled' = spoiled \cup ({k.item} \cap Operations) /\ cycle' = Released(new, t)
      /\ UNCHANGED <<onChain, seen, shutdown, retracks, rewinds>>
  BY <1>b DEF TrackFails
<1>2. /\ cache' \in [Key -> CacheValue] /\ \A j \in Key : Updated(j, cache')
      /\ \A j \in Key : j.kind = "queueTx" => cache'[j] = cache[j] \/ j.item \in spoiled'
      /\ spoiled \subseteq spoiled' /\ spoiled' \subseteq Operations
  BY <1>t, <1>1, FailedFacts, KeyFacts DEF TypeOK
<1>3. Grows /\ CacheFits'
  BY <1>t, <1>1, <1>2, UpdatesFit
<1>4. b.trackedOps \cup ReportedByFailure(k) = b.trackedOps
  BY DEF ReportedByFailure
<1>5. /\ new \in Cycle /\ new.reported = b.reported /\ new.trackedOps = b.trackedOps
      /\ new.pc = b.pc /\ new.found = b.found /\ new.incomplete = b.incomplete
      /\ new.tasks = b.tasks /\ new.queue = b.queue /\ new.calls = b.calls
      /\ new.skips = b.skips /\ new.ran = b.ran /\ new.trackedKeys = b.trackedKeys
  BY <1>4 DEF Cycle
<1>6. PICK c \in Cycle : c = new
  BY <1>5
<1> HIDE DEF new
<1>7. \A o \in Operations : TaskOf(o) = t => o \in spoiled'
  BY <1>1, KeyFacts DEF TaskOf
<1>8. faults' \in 0 .. MaxFaults
  BY <1>t, <1>1, BoundsAssumption DEF TypeOK
<1>9. /\ c.reported \subseteq c.trackedOps \/ shutdown'
      /\ \A o \in c.trackedOps \ b.trackedOps : Known(o)' \/ o \in spoiled'
      /\ cycle' \in {c, Released(c, t)}
  BY <1>t, <1>1, <1>5, <1>6 DEF KnowledgeOf
<1>10. QED
  BY <1>b, <1>t, <1>1, <1>2, <1>3, <1>5, <1>6, <1>7, <1>8, <1>9, CallStep DEF TypeOK

-----------------------------------------------------------------------------
(* The invariant, and what it gives.                                       *)

\* At first there is nothing on the chain, in the cache or under way, ...
LEMMA MonitorBegins ==
  ASSUME Init
  PROVE  MonitorInv
<1>1. TypeOK
  <2>1. cycle \in Cycle
    BY NoCycleFacts DEF Init
  <2>2. cache \in [Key -> CacheValue]
    BY DEF Init, CacheValue
  <2>3. faults \in 0 .. MaxFaults /\ retracks \in 0 .. MaxRetracks /\ rewinds \in 0 .. MaxRewinds
    BY BoundsAssumption DEF Init
  <2>4. onChain \subseteq Items /\ seen \subseteq onChain /\ shutdown \in BOOLEAN
        /\ spoiled \subseteq Operations
    BY DEF Init
  <2>5. QED
    BY <2>1, <2>2, <2>3, <2>4 DEF TypeOK
<1>2. CacheFits
  BY KeyFacts DEF Init, CacheFits, ValueFits
<1>3. TasksFit(cycle) /\ WithinLimit /\ TasksOfPhase(cycle) /\ KnowledgeOf(cycle)
  BY NoCycleFacts DEF Init, WithinLimit, Limit, Holding
<1>4. FoundIsKept(cycle)
  BY DEF Init, FoundIsKept, NoCycle
<1>5. QED
  BY <1>1, <1>2, <1>3, <1>4 DEF MonitorInv

\* ... and every step keeps the invariant.
LEMMA MonitorInvariant == Spec => []MonitorInv
<1>1. ASSUME MonitorInv, [Next]_vars PROVE MonitorInv'
  <2>1. CASE (\E i \in Items : Emit(i)) \/ Rewind \/ Interrupt
    BY <1>1, <2>1, OutsideStep
  <2>2. CASE endCycle \/ CutShort
    BY <1>1, <2>2, EndOfCycle
  <2>3. ASSUME NEW targets \in Targets, discoverAll(targets) PROVE MonitorInv'
    BY <1>1, <2>3, DiscoverStep
  <2>4. CASE buildProposalTasks
    BY <1>1, <2>4, ProposalTasksStep
  <2>5. CASE buildTimelockTasks
    BY <1>1, <2>5, TimelockTasksStep
  <2>6. ASSUME NEW t \in Task, Submit(t) \/ ReturnSkipped(t) PROVE MonitorInv'
    BY <1>1, <2>6, LimiterStep
  <2>7. ASSUME NEW t \in Task, TrackSucceeds(t) PROVE MonitorInv'
    BY <1>1, <2>7, SucceedStep
  <2>8. ASSUME NEW t \in Task, TrackFails(t) PROVE MonitorInv'
    BY <1>1, <2>8, FailStep
  <2>9. CASE UNCHANGED vars
    <3>1. TypeOK /\ FoundIsKept(cycle)
          /\ UNCHANGED <<onChain, seen, cache, cycle, shutdown, faults, retracks, rewinds, spoiled>>
      BY <1>1, <2>9 DEF vars, MonitorInv
    <3>2. Grows
      BY <3>1 DEF Grows, Known
    <3>3. QED
      BY <1>1, <3>1, <3>2, AroundStep DEF TypeOK
  <2>10. QED
    BY <1>1, <2>1, <2>2, <2>3, <2>4, <2>5, <2>6, <2>7, <2>8, <2>9 DEF Next, Continue
<1>2. QED
  BY <1>1, MonitorBegins, PTL DEF Spec

\* Every variable keeps its type.
THEOREM MonitorTypeCorrect == Spec => []TypeOK
<1>1. MonitorInv => TypeOK
  BY DEF MonitorInv
<1>2. QED
  BY <1>1, MonitorInvariant, PTL

\* pLimit never lets more calls run than --concurrency allows, and lets none wait
\* while a slot is free: a call that returns or throws hands its slot on at once.
THEOREM LimitIsKept == Spec => []WithinLimit
<1>1. MonitorInv => WithinLimit
  BY DEF MonitorInv
<1>2. QED
  BY <1>1, MonitorInvariant, PTL

\* trackedKeys keeps a cycle from tracking a key twice, whichever lists it is on.
THEOREM KeysAreTrackedOnce == Spec => []OneTaskPerKey
<1>1. MonitorInv => OneTaskPerKey
  BY DEF MonitorInv, TasksFit, OneTaskPerKey
<1>2. QED
  BY <1>1, MonitorInvariant, PTL

\* The timelock tasks of a cycle leave out every operation that came along with its
\* proposal in that cycle.
THEOREM OperationsFollow == Spec => []OperationsFollowTheirProposal
<1>1. ASSUME MonitorInv PROVE OperationsFollowTheirProposal
  <2> SUFFICES ASSUME NEW t \in cycle.ran, OperationTask(t), t.key.item \in cycle.reported
               PROVE  shutdown
    BY DEF OperationsFollowTheirProposal
  <2>1. cycle \in Cycle /\ TasksOfPhase(cycle)
    BY <1>1 DEF MonitorInv, TypeOK
  <2>2. cycle.pc \in {"idle", "discovered", "proposals", "operations"}
    BY <2>1 DEF Cycle
  <2>3. QED
    BY <2>1, <2>2 DEF TasksOfPhase
<1>2. QED
  BY <1>1, MonitorInvariant, PTL

\* What lies below the watermarks keeps a checkpoint, wherever a cycle was cut short
\* and whatever calls threw, except the operations that this happened to.
THEOREM NothingForgotten == Spec => []NothingIsForgotten
<1>1. ASSUME MonitorInv PROVE NothingIsForgotten
  BY <1>1 DEF MonitorInv, FoundIsKept, NothingIsForgotten, Known
<1>2. QED
  BY <1>1, MonitorInvariant, PTL

=============================================================================
