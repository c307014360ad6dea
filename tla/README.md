# A TLA+ model of gov-tracker

gov-tracker follows Arbitrum DAO proposals from their creation on Arbitrum One
through the L2 timelock, the L2 to L1 message, the L1 timelock on Ethereum and the
retryable tickets that bring the execution back to L2.  It discovers proposals
incrementally, keeps what it knows of each in a cache of checkpoints, and resumes
from them.  A lifecycle takes weeks; the program that follows it is restarted,
loses RPC calls, reads nodes that are behind one another, and may track one proposal
several times at once.  These modules model that part of the program, and what is
decided from its results: statistics, searches, the delegate index, the decoding of
proposals and the transactions that move them on.  TLC checks them on small instances,
and TLAPS proves the safety properties of tracking, discovery, monitor, elections,
storage, preparation, cache views and searches for all.

All source paths below are relative to `src/` of the repository.

## Inventory

| part | state | operations | what is hard about it |
|---|---|---|---|
| Stage vocabulary (`types/`, `stages/utils.ts`, `tracker/checkpoint-helpers.ts`) | none | predicates on stage lists and checkpoints: complete, errored, success | decides what is tracked again; a list leaves out stages that have not started |
| Tracking (`tracker.ts`, `tracker/state.ts`, `pipeline.ts`, `stage-runner.ts`) | one `TrackingState` per call; checkpoints in the cache | `trackByTxHash` and what it calls, `trackFromCheckpoint` | resume, two-part checkpoints, errors in the middle, calls that overlap |
| Stage trackers (`stages/*.ts`) | none | one per stage: a few reads, then a status | the reads of one stage need not agree; null receipts |
| Contract and event readers (`discovery/*-discovery.ts`, `utils/log-search.ts`, `utils/timing.ts`, `utils/rpc-utils.ts`) | block cache | contract reads, retried queries, chunked log searches, the block a search starts at | nodes that lag; a query that fails against "not there"; estimates of blocks |
| Query (`tracker/query.ts`) | none | `queryIncompleteCheckpoints` | what it leaves out is never tracked again |
| Incremental discovery (`tracker/discovery.ts`, `discoverAll`) | watermarks and hashes in the cache | verify, scan, create pending checkpoints, save watermarks | reorgs, failed reads, calls cut short: nothing below a watermark is scanned again |
| Monitor (`cli/lib/cli.ts`, `concurrency.ts`) | sets of tracked keys and operations, per cycle | `runWithLoop`, `runMonitorCycle`, `pLimit` | de-duplication between tasks that run concurrently; cycles cut by a timeout |
| Elections (`election/*.ts`, `trackElection`) | election checkpoints, a cache of proposal ids | `trackElection`, `trackAllElections`, `trackElectionStatus`, `saveElectionCheckpoint` | two writes of one key; reads that are caught and taken for an answer; finished stages and details looked at once |
| Cache adapters (`tracker/cache.ts`, `bundled-cache.ts`) | a map and its file | get, set, flush, load | dirty flag, whole-file writes, several processes, crash while writing |
| Views of a cache (`tracker/query.ts`, `checkpoint-helpers.ts`, `bundled-cache.ts`, `deduplication.ts`, `cli/lib/json-state.ts`) | none | statistics, dashboard, extraction, merging, linking | three programs count the same entries; lists put together from two checkpoints |
| Delegates (`delegates/`) | delegate cache, block range | indexer with adaptive chunks, ranking, who has not voted | resume after a partial index |
| Preparation and execution (`tracker/execute.ts`, `stages/*.ts`, `cli/lib/cli.ts`, `cli/lib/election-check.ts`) | none | prepare and send the transaction of a stage | what tracking kept may be stale when it is used; salts of three origins |
| Calldata and simulation (`calldata/`, `simulation/`) | signatures of the session | decode, find simulations | nested chains, parallel arrays, depth |
| Formatting, TUI, ABIs | none | presentation and data | no protocol |

How they interact: the monitor calls `discoverAll`, which writes pending
checkpoints and watermarks, then `queryIncompleteCheckpoints`, then
`trackByTxHash` for each result and each discovery, several at a time under a
limiter.  Tracking and discovery meet only in the cache, which has no transactions
and no versions: every `await` between a read and a write is a place where
something else may run.

What makes each part correct:

- tracking: a checkpoint never claims more than the chains have done; what has been
  recorded stays recorded; the outcome is recorded in the end; no error or crash
  leaves a proposal from which tracking cannot go on.
- query: a proposal that has not come to its end is returned.
- discovery: what a later call will not scan again has a checkpoint.
- monitor: each item is tracked once a cycle, and nothing discovered is forgotten.
- elections: the phase is not ahead of the contracts, whichever reads failed; a COMPLETED
  election is cached with its details, its operation has a checkpoint of its own.
- cache: what `flush` has returned for is in the file; no watermark survives without
  the checkpoints it vouches for.
- views: they agree with each other, and say no more than the chains do.
- searches: an event in the range is found, and a failure is not taken for its absence.
- preparation: what is prepared is accepted, and the loop that sends comes to an end.
- decoding: what is shown is what is executed, at that address and on that chain.

## Modules

| module | models | composed of |
|---|---|---|
| `Stages` | stage types, statuses, checkpoints and the predicates on them | |
| `GovernanceChain` | the environment: one proposal on both chains, and what reads answer | |
| `ProposalTracker` | `trackByTxHash` for one proposal, any number of callers | `Stages`, `GovernanceChain` |
| `LifecycleObserver` | the abstract promise of a tracker | `Stages`, `GovernanceChain` |
| `ProposalTracker_proofs` | types, truth and order of the checkpoints, and what the query returns | `ProposalTracker`, `TLAPS` |
| `TrackerProgress_proofs` | finished stages are kept; the refinement of `LifecycleObserver` | `ProposalTracker_proofs` |
| `TrackerViews` | what `StageViews` shows of the tracker's states | `ProposalTracker`, `StageViews` |
| `TrackerViews_proofs` | truth of what is shown, trimmed checkpoints | `ProposalTracker_proofs`, `TrackerViews` |
| `Discovery` | `discoverAll` against a chain that reorganises | |
| `Monitor` | `runWithLoop`, `runMonitorCycle`, `pLimit`, over what the cache, discovery and tracking promise | |
| `Election` | the election governors, the calls that track elections, the three keys they share | |
| `FileCache` | processes, their maps and the one file | |
| `Discovery_proofs`, `Monitor_proofs`, `Election_proofs`, `FileCache_proofs` | theorems and proofs | the module of that name, `TLAPS` |
| `StageViews` | lists of stages as they are merged, summarised and shown | `Stages` |
| `CacheViews` | what is computed of a whole cache | `StageViews` |
| `EventSearch` | retried queries, chunked searches, and where they start | |
| `Questions` | what views of any cache and searches on any chain have to answer | `CacheViews`, `EventSearch` |
| `Delegates` | the delegate indexer and its queries | |
| `Calldata` | decoding and simulations | |
| `Preparation` | one item, and the loop of tracking, preparing and sending | |
| `Decisions_proofs` | what is prepared is accepted; the answers to all questions | `Preparation`, `Questions`, `TLAPS` |
| `MCProposalTracker`, `MCDiscovery`, `MCMonitor`, `MCElection`, `MCFileCache` | instances for TLC; the first of `TrackerViews` | |
| `MCDecisions` | instance of `Preparation` and of the pure modules | `Preparation`, `Questions`, `Delegates`, `Calldata` |

### GovernanceChain

External: the contracts are not in the repository.  A proposal has a `route` (how
far it has to travel), a `phase` (the last milestone reached, 1 to 11) and a `fate`.
A read is the set of answers it may give.  With `Lag` FALSE it has one element, the
truth.  With `Lag` TRUE a node may answer from any earlier phase, so two reads of one
call may contradict each other and a receipt that exists may come back null.

### ProposalTracker

| state | code |
|---|---|
| `cache` | the `CacheAdapter`, at the three keys that matter to one proposal: `tx:{creation tx}`, `tx:{queue tx}`, `tx:{queue tx}:op:{id}` |
| `run[c].stages`, `.opKey`, `.event`, `.input` | `TrackingState.stages`, `timelockOpKey`, `callScheduledData`, `input` of one call |
| `run[c].loaded` | the local `checkpoint` of `trackByTxHash`, which the error path writes back |
| `run[c].pc` | the next `await` that matters |

A stage is its status and one bit, `link`: whether the stage carries the datum the
next stage reads.  That bit is what tells a COMPLETED timelock whose execution was
found from one whose execution was not.

| actions | code |
|---|---|
| `trackByTxHash` | cache lookup with its fallback, and the choice of path |
| `discoverProposalByTxHash`, `findCallScheduledByTxHash` | `trackByTxHashInternal` without a checkpoint |
| `LoadLinkedTimelock` | `runTrackingPipeline`, the merge of the linked checkpoint |
| `UseCachedStage`, `track...Stage` | `runStage` and the stage trackers; `NextStep` is `runPipeline` and the gate to the timelock stages |
| `SaveParent`, `SaveLinkedTimelock`, `SaveOperation` | `saveModularCheckpoints`, one action per `cache.set`; the timelock branch of `runTrackingPipeline` |
| `SaveErrorCheckpoint` | the `catch` of `trackByTxHash` |
| `Crash` | the process dies |

`entry` says how the call is made: with the creation transaction (the monitor, for a
proposal), with the queue transaction (the monitor, for an operation; also
`trackFromCheckpoint`, which names no operation), or with the queue transaction and
the operation id (a user of the package).  `NeedsTracking` is
`queryIncompleteCheckpoints` for these keys.

A stage tracker with its several reads is one action.  Between two of its reads the
chain may move; with `Lag` each read chooses its own view, which covers that and
more.  Stages of one call are separate actions with the chains and the other callers
in between.

### Discovery

The chain is a sequence of blocks, each with the epoch it was mined in; a hash is
height and epoch.  `Reorg` drops a suffix no deeper than `MaxDepth`, and its
proposals may be mined again.  `watermarks`, `hashes` and `pending` are the cache;
`call` is the local state of one `discoverAll`: `start` is `verifiedWatermarks`,
`hashes` is `updatedHashes` and later `newHashes`, `found` is `allProposals`.
`verifyWatermark`, `scan` and `createPendingCheckpoint` are one action per target or
proposal, since the code runs them under `Promise.all`.  `ResumeFrom` is what
`verifyWatermark` answers when its read succeeds, `MayResumeFrom` all it may answer.

With `SingleBlocks` FALSE a scan with exactly one new block is kept out, by the guard of
`discoverAll`: no answer that the verification may give, failed reads included, leaves one
new block.  A guard on the watermarks alone is not enough when two reads may fail.

`DepthAssumption` says that no reorg is deeper than the rollback of 1000 blocks.

### Monitor

| state | code |
|---|---|
| `onChain`, `seen` | what the contracts have emitted, and what of it lies below the watermarks |
| `cache` | per key, what the monitor and the query read of a checkpoint: its kind, whether it is complete, and whether a governor checkpoint knows and links its operation |
| `cycle.found`, `.incomplete` | `discoveryResult`, `incompleteCheckpoints` |
| `cycle.tasks`, `.queue`, `.calls`, `.skips` | the tasks of a phase, the limiter's `queue`, and what `active` counts |
| `cycle.trackedKeys`, `.trackedOps` | `trackedKeys`, `trackedOperationIds` |
| `shutdown` | `isShuttingDown` |

| actions | code |
|---|---|
| `discoverAll` | the call of it, up to the pending checkpoints |
| `buildProposalTasks` | its end (the watermarks are saved), `queryIncompleteCheckpoints`, `governorOperationIds` and the list of phase 1 |
| `buildTimelockTasks`, `endCycle` | the list of phase 2 when phase 1 is done; the end of phase 2 |
| `Submit`, `ReturnSkipped`, `Released` | the limiter |
| `TrackSucceeds`, `TrackFails` | `track`, with the re-tracking after an execution |
| `CutShort`, `Interrupt`, `Rewind` | the cycle throws or the process dies; SIGINT; `--start-block`, `--force`, a reorg, watermarks erased by a call for other targets |

One call of `trackByTxHash` writes its checkpoints in one step here; the steps in
between are the matter of `ProposalTracker`.  The history variables `ran`, `reported`
and `spoiled` serve the properties only and guard nothing.

### Election

| state | code |
|---|---|
| `milestone`, `fate` | the two election governors and the L2 timelock (external) |
| `election`, `operation`, `creationTx` | the checkpoints under `election:{index}`, `tx:{execution}:op:{id}` and `tx:{creation}` |
| `ids` | `electionProposalIdsCache`, the entries without a block |
| `call[c]` | one `trackElection` or `trackByTxHash`: its step, the stages it knows (`known`), what it has loaded |
| `known.progress` | whether the call itself has `callScheduledData`, which only tracking MEMBER_ELECTION injects, and the timelock stages |
| `known.misread`, `status.misread` | history: the vetting stage or the status comes of a deadline that was not read |
| `swallowed` | history: elections of which a failed read was taken for an answer |
| `severed` | history: elections whose operation was in the hands of a process that died between two writes |

The steps of a call are the stage trackers of `trackElectionPipeline`
(`track...Stage`), the timelock stages, and then one action per write:
`saveStages`, `saveOperation`, `saveElectionCheckpoint`.  A call by transaction goes
on with `saveElectionAgain` and `deleteCreationTx`, or with `saveCreationTx` when it
has no status.

A stage that is COMPLETED in the cache is not tracked again (`runStage`), so nothing is
injected for it, and without `callScheduledData` the timelock stages are not entered: the
operation of an election is found by the call that tracks MEMBER_ELECTION first, or never.

A read may fail at each step.  Where the code catches it, it is taken for an answer: "no
such proposal", and the election joins `swallowed`.  The parts of the vetting multicall
(deadline, number of nominees) fail on their own and are read as 0, so that a vetting that
is under way may be taken for over; the parts that read a proposal's state do so too, but
then `proposalStateToString` throws.  A call that is not caught throws (`Throw`).
`getElectionStatus` reads the contracts without the pipeline and is a function of the state
and of the reads that are answered (`StatusesShown` has all of them).

### FileCache

`cache`, `dirty` and `queued` are the fields of `FileCache` in each process, `file`
the JSON file they share, which is torn while it is written and stays so if the
process dies then.  A monitor is `gov-tracker run`: it loads, stores the checkpoints of the
blocks it scans and then the watermark, flushes once and ends.  A tracker is
`gov-tracker track`: every `set` and `delete` is written at once.  A missing file starts
from the bundled cache (`Bootstrapped`).  Here a key read or written is atomic no more:
the content is one watermark and one checkpoint per block, as losing one without the
other is what is dangerous.

### StageViews, CacheViews, EventSearch, Delegates, Calldata

Pure: one operator per function of the code, over data cut down to what the function
tells apart.  A stage list is a function on the types it has; a cache a function on
keys; a chain the set of blocks with a wanted log, the timestamps of its blocks, or
the L1 block of each; a call its function, the addresses it names and the calls in its
bytes.  `StageViews` is evaluated in the states of `tracker_sequential`, so that it
sees exactly the lists the tracker produces.  The others are asked one question per
initial state of `MCDecisions`, and their answer is compared with a reference: the
events in the range, the last change of each delegate, `CallsMade`, the other
programs that count the same.

`Questions` has the properties of the caches and searches, and says in `IsQuestion` what may
be asked at all: `IsCache`, any finite cache as the code writes it; `IsLogQuestion`, any logs,
range, chunk size and answers; `IsBlockQuestion`, `IsDelayQuestion`, any chain whose blocks
are in order.  `MCDecisions` asks a small set of each, which its assumption
`AskedAreQuestions` checks against `IsQuestion`; the theorems are about all of them.

### Preparation

`item` is what can be acted upon (a proposal to queue, an operation, the messages of
one L2 execution, the tickets of one L1 execution, an election), `stage` what tracking
has kept of it, `results` what was prepared and is still to be sent, `user` how: the
command line, `prepareTransaction` of the package, or the functions that prepare an
operation without a stage.  `Track`, `Prepare`, `executeTransaction` and `Retrack` are
the loop of the commands; `TimePasses`, `OthersAct` and `FeeMoves` come between any two
of them.  A hash is the tuple it is taken of; a salt is named for its origin, so that
`HashOperation` of the wrong salt, predecessor or batch form differs.  The calls of an
operation, the numbers of messages and of tickets on each chain, and how far the gas price
moves are constants.

## Runs

| run | bounds | checks |
|---|---|---|
| `tracker_sequential` | 1 caller, 3 entries, 1 fault, exact reads | `TypeOK`, `UnderWayIsQueried`, `TicketsAreNotSkipped`, `ViewsAreTrue`, `ExecutedIsFinished`, `TrimmedIsResumable`, `ProgressIsKept`, `ImplementsObserver`, `OutcomeIsRecorded` |
| `tracker_unreliable` | 1 caller, 3 entries, 1 fault, lagging nodes | `CheckpointsAreTrue`, `CheckpointsInOrder` |
| `tracker_interleaved` | 2 callers, 2 entries, exact reads | `CheckpointsAreTrue`, `UnderWayIsQueried` |
| `tracker_dropped` | 1 caller, no fault | violation of `UnfinishedIsQueried` |
| `tracker_poisoned` | 1 caller, 1 fault | violation of `ErrorIsRetried` |
| `discovery_resumed` | 1 governor and 1 timelock, 4 blocks, 2 reorgs or 1 failed read, 1 abort | `TypeOK`, `NothingIsMissed`, `ProposalsAreFound` |
| `discovery_single_block` | no reorg, no fault | violation of `NothingIsMissed` |
| `monitor_cycles` | 1 proposal with its operation, 1 operation without a proposal, 2 slots, 1 fault, 1 re-tracking, 1 rewind | `TypeOK`, `WithinLimit`, `OneTaskPerKey`, `OperationsFollowTheirProposal`, `NothingIsForgotten`, `CyclesEnd` |
| `election_tracked` | 1 election, 1 caller, 2 failing reads, 1 crash | `TypeOK`, `PhaseIsNotAhead`, `ActionsAreEarned`, `CompletedIsWhole`, `OperationIsNotLost`, `TrackingIsHandedOver`, `OutcomeIsRecorded` |
| `election_fatal` | the same with 1 failing read | violation of `ElectionErrorsAreNotFatal` |
| `storage` | 1 monitor and 1 tracker, 2 blocks of which 1 is bundled, 3 steps of the tracker, 1 crash, 1 failed write | `TypeOK`, `WatermarkVouches`, `WrittenIsStored`, `ProposalsArePersisted` |
| `decisions` | one item or one question; 1 retry, 2 changes of the gas price, chunks of 1 to 4 blocks | `CountsAgree`, `LinksAreWhole`, `SearchIsComplete`, `DelegatesAgree`, `DecodingIsTrue`, `PreparedIsAccepted`, `FollowedIsSettled` |

What they show.

- `ProgressIsKept`, `ImplementsObserver`: with one caller at a time, no error,
  restart or change of entry point takes back a finished stage.  With two callers
  this is false by design: the cache has no versions and the last writer wins.
- `UnderWayIsQueried`: once a run has seen the vote begin, some key of the proposal
  is returned by the query until the proposal is at its end.
- `OutcomeIsRecorded`: a proposal that came through is recorded as such under its
  operation key, and a defeated one as FAILED.
- `CheckpointsAreTrue`, `CheckpointsInOrder`: hold against lagging nodes too.  No
  status is reported before the chains back it, and nothing after the L2 timelock is
  recorded before the stage that precedes it is COMPLETED or SKIPPED.
- `NothingIsMissed`: a proposal at or below the block a scan would resume above has a
  checkpoint, across reorgs, aborted calls, and calls for changing sets of targets.
- `OneTaskPerKey`: a new proposal is in the list of phase 1 twice, as discovered and as
  cached, and its result may be tracked again; it is still tracked by one task.
- `OperationsFollowTheirProposal`, `NothingIsForgotten`: leaving an operation to its
  proposal loses nothing.  An operation is passed over only if its proposal's call
  succeeded or a cached governor checkpoint knows it, and has a checkpoint in the end.
  The exception is named in the property: an operation without a proposal whose first
  call throws, or whose cycle is cut short, lies below the watermark without a
  checkpoint (`spoiled`).
- `WithinLimit`, `CyclesEnd`: the limiter neither exceeds its limit nor loses a task,
  with tasks that fail, are skipped, or go round again.

- `ViewsAreTrue`, `ExecutedIsFinished`, `TrimmedIsResumable`: what is derived from lists
  that were merged from two checkpoints says no more than the chains have done, offers
  the stage the proposal waits for, and can be trimmed and resumed.  Two exceptions are
  named in `Vouched`: a proposal canceled after its vote is shown as queued, one that
  ends on L2 in "l1_delay".  Two more are named in `StopsShort`: a cached proposal of which
  only PROPOSAL_CREATED is stored, or only its own stages and not those of its
  operation, is extracted with `isComplete` TRUE and in the phase "executed" while it is
  under way.  Apart from these, with exact reads, both mean that it is over: executed, defeated,
  or canceled (the last is "executed" too when the cancellation leaves only stages that are
  COMPLETED or SKIPPED).  With nodes that lag a null receipt may end a list anywhere, and
  nothing is claimed of these two.
- `PhaseIsNotAhead`, `ActionsAreEarned`: however many reads are swallowed and stages of
  two calls mixed, an election's phase is one the contracts have reached, and nobody
  is sent to the governor too early.  The one exception is a vetting deadline that was not
  read (`misread`): it may show an election whose vetting is under way as PENDING_EXECUTION
  and its stage as READY or FAILED, and the properties say that it does no more than that.
- `CompletedIsWhole`: the two writes of one key do not lose the details, unless a read was
  swallowed; for those the code has no second attempt.
- `OperationIsNotLost`: the write that drops the link to the operation comes when the
  operation has its own checkpoint, or a call is about to write it.  The exception is a
  process that died between these two writes (`severed`): its MEMBER_ELECTION is COMPLETED
  in the cache and not tracked again, and the election is stored as COMPLETED with the id of
  an operation that has no checkpoint.
- `WatermarkVouches`, `ProposalsArePersisted`: torn files, lost flushes and processes
  that overwrite each other's file take a watermark and its checkpoints together, so
  the blocks are scanned again.  The exception is what `track --force` has deleted.
- `CountsAgree`, `LinksAreWhole`: `getStats`, the monitor's summary, the dashboard and
  the bundled cache's lists are consistent; linking changes only links, once.
- `SearchIsComplete`: an event in the range is found for every chunk size, direction and
  hint, from a start that is computed from a delay or an L1 block, and a query that
  fails is never taken for an answer.  A block that comes back null ends the refinement of
  a start with an estimate that nothing has checked; only that, and only a block after the
  execution, may hide it.
- `DelegatesAgree`: a resumed index equals one built from genesis.
- `DecodingIsTrue`: every call shown is made, and all are shown down to the depth limit;
  batches and tickets shown are simulated, on their chain except below a message to L1.
- `PreparedIsAccepted`, `FollowedIsSettled`: what is prepared hashes to the operation and
  carries enough value, whatever was kept from tracking; the loop of the command line
  gets everything executed.  What the code does not check is named in `Excused`, what a
  user of the package is not offered in `Followed`.

Why the bounds are enough.  One proposal: proposals share no key.  Three keys: all
that one proposal has.  One fault reaches every point of a call, with the
calls before and after it unbounded; error counts stay below the threshold of 5, so
the error filter never hides a proposal in these runs.  Two callers interleave at
every await.  Four blocks with `Rollback` and `MaxDepth` 2 leave room for a final
block, a rolled-back watermark that is not at 0, and two blocks after it; one
governor and one timelock give targets with and without checkpoints, alone and
together.  Proposals meet in the monitor only in the limiter and its sets; one proposal
has up to two tasks in a phase and the two operations up to three, which fills two
slots and the queue behind them.

An election shares no key with another.  One caller is the monitor or a user, with
crashes and earlier calls leaving any mixture of stages behind; with two, a COMPLETED
status may be overwritten for a while by the stages of a slower call, which no property
here speaks of.  Two failing reads reach a pair of
reads of one call, or one of each of two calls.  Two blocks are one that came with the
package and one that must be scanned; two processes are enough to overwrite each other.
Questions have two proposals or operations and two elections, up to six blocks with
gaps that are early, on time or late, one of them perhaps not given, four changes of two delegates and an excluded
one, batches of two entries nested in up to two calls, deep enough to reach below
`MAX_DEPTH`.

Two switches of `Discovery` keep a known disagreement out of the run that passes:
`SingleBlocks` (a scan with one new block), which has a run of its own that shows it, and
`Together` (reorgs and failed reads in one history): a mismatch that cannot be read is
deliberately not rolled back, and with TRUE `NothingIsMissed` fails for that.

Deadlock is checked in the runs of `ProposalTracker` and `Discovery`, where a caller
that is idle can always call again.  `monitor_cycles` switches it off because the process
does stop: after SIGINT no further cycle begins.  So do the runs of `Election` and
`FileCache`: an election that is COMPLETED is tracked no more, and the tracker's steps are
bounded.

## Fairness

- `WF(Advance)`: a proposal does not halt by itself.  Nothing is fair to its death.
- `WF(Continue(c))`: a call whose RPC requests are answered runs on; the code has no
  wait that only another call could end.
- `SF(trackByTxHash(c, "proposal"))`: the monitor asks for the proposal in every
  cycle.  Strong, since the same caller may be kept busy with other entries.
- `Discovery`: blocks keep coming, a call runs on, and for every target there are
  always further calls that reach the newest block, as `runWithLoop` makes them.

- `Monitor`: `WF(Continue)`: a cycle that has begun runs on, since every call returns or
  throws.  That a cycle begins is not assumed.

- `Election`: `WF(Continue(c))`, and `SF(trackElection)` for every election, which the
  monitor calls again in every cycle until the election is COMPLETED.
- `FileCache`: a monitor is started again whenever it has ended, as a scheduled job is,
  and the queue of a process that lives is worked off.  A `--loop` monitor that is never
  stopped writes nothing, which is why its end is fair.
- `Preparation`: the loop goes on and time passes; nobody else has to act.

Errors, crashes, reorgs and failed reads are never fair, and are bounded.

## Proofs

A theorem is about the specification of its module, or, where there is only a question and
its answer, about every question.  It holds for any values of the constants that the modules'
named assumptions admit: any set of callers, processes, proposals, operations, elections,
targets or keys, any bound on faults, reorgs, crashes and retries.  What else a theorem
assumes is in its statement and in the table.

| module | theorem | property | assumes |
|---|---|---|---|
| `ProposalTracker_proofs` | `TypeCorrectness` | `TypeOK` | |
| | `CheckpointTruth` | `CheckpointsAreTrue` | |
| | `CheckpointsStayInOrder` | `CheckpointsInOrder` | |
| | `TicketsAreTracked` | `TicketsAreNotSkipped` | `~Lag` |
| | `UnderWayStaysQueried` | `UnderWayIsQueried` | `~Lag`, `MaxFaults < ErrorThreshold` |
| `TrackerProgress_proofs` | `ProgressStaysKept` | `ProgressIsKept` (action property) | `~Lag`, `OneCaller` |
| | `TrackerObserves` | `ImplementsObserver` (refinement) | `~Lag`, `OneCaller` |
| `TrackerViews_proofs` | `WhatIsShownIsTrue` | `ViewsAreTrue` | |
| | `ExecutedHasEnded` | `ExecutedIsFinished` | `~Lag` |
| | `TrimmedCanBeResumed` | `TrimmedIsResumable` | |
| `Discovery_proofs` | `DiscoveryTypeCorrect` | `TypeOK` | |
| | `NothingIsEverMissed` | `NothingIsMissed` | `~Together`, `~SingleBlocks` |
| `Monitor_proofs` | `MonitorTypeCorrect` | `TypeOK` | |
| | `LimitIsKept` | `WithinLimit` | |
| | `KeysAreTrackedOnce` | `OneTaskPerKey` | |
| | `OperationsFollow` | `OperationsFollowTheirProposal` | |
| | `NothingForgotten` | `NothingIsForgotten` | |
| `Election_proofs` | `ElectionTypeCorrect` | `TypeOK` | |
| | `NoPhaseAhead` | `PhaseIsNotAhead` | |
| | `ActionsEarned` | `ActionsAreEarned` | |
| | `CompletedElectionsAreWhole` | `CompletedIsWhole` | |
| | `OperationsSurvive` | `OperationIsNotLost` | |
| | `CreationIsHandedOver` | `TrackingIsHandedOver` (action property) | |
| `FileCache_proofs` | `FileCacheTypeCorrect` | `TypeOK` | |
| | `WatermarkAlwaysVouches` | `WatermarkVouches` | |
| | `WrittenStaysStored` | `WrittenIsStored` | |
| `Decisions_proofs` | `PreparationIsAccepted` | `PreparedIsAccepted` (action property) | |
| | `CountingAgrees` | `CountsAgree` | `IsQuestion` |
| | `LinkingIsWhole` | `LinksAreWhole` | `IsQuestion` |
| | `SearchingIsComplete` | `SearchIsComplete` | `IsQuestion` |

The hypotheses are those under which the property holds at all.  `~Lag`: a receipt that
comes back null skips the tickets and leaves a finished timelock without its transaction.
`MaxFaults < ErrorThreshold`: a checkpoint with that many errors is meant to be left out.
`OneCaller` (no two callers differ): of two calls that overlap the one that stores last
overwrites what the other has finished, since nothing compares what is stored with what was
loaded.  Errors and crashes of the one caller are not restricted.
`~Together`, `~SingleBlocks`: the disagreements described under Runs.

### Truth of the checkpoints

`CheckpointsAreTrue` alone is not inductive: what
is written comes from a call, and a call starts from what it loaded some time ago.
The invariant `Earned` adds what must be known of a call in flight:

- the chain is sound: only a proposal that is being voted on is ever defeated, and
  none travels farther than its route;
- the stage list of the call and the checkpoint it loaded are justified too;
- the stage the call has reached is earned: it is at PROPOSAL_QUEUED only with the
  vote recorded as successful, and past the L2 timelock only with that stage recorded
  as successful, which is what makes a skip further on true.

The argument has three parts.  Evidence is monotone: no chain step withdraws what
justifies a status (`Advance` raises the phase; `Die` leaves it alone, and no status
is justified by the proposal being alive).  Every view is
behind the chain, so an answer that some view gives is backed by the chain as it is
now.  And list operations (`Overlay`, `Restricted`, replacing one stage) keep a
justified list justified.  There is one lemma per action of `Next`.

### Order of the checkpoints, and what the query returns

Several calls write the same keys in parts, and merge what they read under another.
`Ordered` says which kinds of stages, inputs and links each key can hold (`FitsKey`: no
timelock stages under a parent's key, no governor stages elsewhere, everything in order) and
that a call has a matching list and the predecessor of the stage it has come to
(`FitsRun`).  Merging is then safe: a list in order replaces one without timelock stages.

`FollowedThrough` is added for exact reads: a stage that is done has the transaction its
successor is read from, and its successor is in the same list unless the pipeline is just
at it; error counts are no larger than the faults.  So a checkpoint under way always has
an unfinished stage, in the operation's checkpoint if there is one and in the parent's
otherwise, and the query returns its key.

### Progress, and the LifecycleObserver

A call by the proposal's transaction need not have loaded the operation's checkpoint that it
overwrites at its end.  `Remembered` says what saves what is done there: either the call has
loaded it (`Within`), or it follows the operation afresh (`Afresh`), and then it neither
stops nor saves before it has found all of it again.  That it does find it is where exact
reads come in: the chains only move on (`FatesAreSound`: a cancellation comes before the step
that it prevents), a stage that is done has one form only (`DefiniteStage`), so that two true
lists that have the same stage done have the same record of it (`DoneAlike`).  Up to the last point
at which a call may throw, the checkpoint it would give back still has what the cache has as
done.  `RememberedReturn` is the step of the pipeline that all trackers share; there is one
lemma per tracker, per way in and per write, and each write `KeepsDone`.

The refinement follows from it.  The observer's `done` is `Recorded`, the set of stages that some
checkpoint has as done.  `KeepsDone` lets it only grow, `Earned` makes all of it observable,
and a step of the chains is one of the observer's and writes nothing.

### What is shown

Three more facts make a stored list presentable, none of which needs exact reads.
`LinksAreFromQueue`: wherever a link to the operation is, there is a queue stage that is
COMPLETED, which is never tracked again.  `GovernorInOrder`: a proposal's own stages come in
order too, and its operation's only after that queue stage, which is what makes the
merged list of `extractProposals` one whose only READY stage is the current one although its
two checkpoints are of different calls.  `SkippedTogether`: a message that is skipped
because the proposal stays on L2 has the rest of the round trip skipped with it, so that a
skipped stage does not vouch for one that waits behind it.  `Placed` carries them through
a call, with what its step has behind it and that nobody follows an operation before it is
scheduled.  Every view is then a case split over what a true list (`TrueList`) can hold.

### Discovery

What a watermark vouches for depends on what can go wrong.  Without reorgs its number does:
everything at or below it has a checkpoint.  With them its hash does, while it is that of
the chain's block; when it is not, the blocks down to the rollback are still vouched for,
as no reorg reaches deeper.  A block that is mined again is of a later epoch, so that a stored
hash that is no longer current never becomes so again.  `CallVouched` says the same of
`verifiedWatermarks`, and that what a scan of a target has passed is in `found` or has its
checkpoint, so that saving the watermarks is earned target by target.

### Monitor

`TasksFit` says that a task is in one place at a time (listed, queued, holding a slot) and
that what ran has claimed its key, which gives the limit and one task per key.
`TasksOfPhase` and `KnowledgeOf` say what the two phases are about: an operation the second
phase leaves out has a checkpoint, or its own call failed before.  `Grows` collects what no
step takes back, and `GrowthKeeps` carries the parts of the invariant over at once.

### Elections

Even `TypeOK` needs the invariant here: a member proposal has a state only once there is
one.  Everything a list of stages says is `Claimed` to have happened, every status made of
it `StatusClaimed`; `CallClaims` says so of a call at each step, with the milestone that
lets it be there, and `CallPlace` says what a call relies on having been stored: an operation
it knows of is `Traced` (stored, about to be stored by some call, or severed) or in the
call's own hands, and whoever is about to store a status that drops the link knows a traced
one.  `VettingSettled`: the success of the nominee proposal is never kept without what the
vetting came to, or was read to have come to, so that a misread vetting stays marked as such
in whatever is made of it.

### Storage

`WatermarkVouches` is nearly inductive, since every step copies whole contents: it is enough
that each copy is vouched for.  `WrittenIsStored` is not: it needs that no other process
is writing while one believes itself alone, and that a file, once there, is never replaced
by the bundled one.  The types need `QueuesAreBounded`.

### Preparation

`PreparedIsAccepted` speaks of the step that prepares, so what is needed is an invariant of the
states in which a preparation begins.  `PrepInv` says what the stage kept from tracking still
says of the item by then: `KeptTimelock`, the operation's id and calls, with a salt and a predecessor that need not
be the right ones; `KeptMessage`, a message that was confirmed stays so; `KeptTickets`, a chain
that was kept has tickets.  Everything else that tracking has kept may be out of date, and the proof
does not use it.  A salt and a predecessor are prepared only if the operation hashes to its id
with them, and a hash is equal only for equal tuples, so that a wrong one is refused and never
sent; twice the fee and one is enough for any number of tickets after one rise.
`ItemOK` carries the types of the item through every move of the contracts, one lemma
per kind of item.  Which results are `Good` is then decided by user and kind, one lemma for each
function that prepares.

### Counts and links

Each program counts by filters of its own, so each count is turned into the cardinality of a
set of keys (`Props`, `Locks`, `Elects` and what is finished or failed in them), the sets of one
cache are disjoint and finite (`IsCache`), and the sums are those of disjoint unions.
`StatsOfList` has the step all share: leaving out entries of other parts changes the
total only.

For links the invariant is in what one link may change (`IsLink`): an operation without a source
gets one that is an election's key in the cache.  Since a source is never an operation
(`IsCache` asks it of what is stored, and the code writes no other), no child gets a
child, and roots and children part the cache.  `IsCache` also asks that a stored source is
still in the cache: the parent is stored before its operation, and only a user's `clear` or
`--force` takes it away.

### Searches

Chunks are compared with the range by arithmetic: block `b` is in chunk number
`(b - from) \div size + 1` from the start, or counted from the end if the search runs backward
(`ChunksCover`, `LogsOfChunk`), so the first chunk with a log has the first log, or one no
farther than a chunk from the last.  `searchedBlocks` is a sum over the chunks and
`blockAfterDelay` goes back in rounds.  Both are recursive functions on numbers, and what they
compute is proved by a least number at which it would fail (`WFMin` on `Nat`), in place of the
induction theorems, which no installed prover can instantiate.

The start that is computed from a delay has a bound the code does not state.  `blockAfterDelay`
gives up after ten rounds and takes what it has.  `IsDelayQuestion` names the two cases in which
that is early enough: the head is at most ten margins above the start, or no stretch of
blocks is ahead of the block time by the margin or more, in which case one round is enough.
On a chain that is longer and faster the start may lie after the execution, which is then not
found.  In the questions the operation is scheduled in block 1 and the block time is one unit:
blocks before it are not read, and the estimate only divides by the block time.  Any blocks may be
`missing`: rounds then end at a block before the execution or at a missing one (`StartsEarly`).

### What stays with TLC

- Liveness (`OutcomeIsRecorded` of both modules, `ProposalsAreFound`, `CyclesEnd`,
  `ProposalsArePersisted`, `FollowedIsSettled`): fairness and ENABLED are out of the
  prover's reach.
- `DelegatesAgree` and `DecodingIsTrue`.  The scan of the delegates, which takes its size from
  its own answers, and the decoder, whose calls nest, are recursive operators over sequences
  and trees; what they compute for every input needs induction over that data.

## Where the code and its documentation disagree

1. `tracker_dropped`.  A proposal that is tracked while its vote has not begun has
   one stored stage, PROPOSAL_CREATED, which is COMPLETED.  `isCheckpointComplete`
   takes that for a completed lifecycle, and the query drops the proposal.  For the same
   reason `extractProposals` gives it `isComplete` and the phase "executed"
   (`tracker/bundled-cache.ts`, line 126; `StopsShort`).
2. `tracker_poisoned`.  A first call that fails leaves a checkpoint with an empty
   governor address.  Later calls resume from it, stop at the first stage, and save
   it again with an error count of 0.
3. `discovery_single_block`.  The documented range is exclusive at its start and
   inclusive at its end; with exactly one new block it is not searched at all.
4. `election_fatal`.  A failure in `trackElectionStatus` is documented to be logged and
   answered with null.  The promise of `trackElection` is returned without `await`, so
   its rejection passes the `catch` by: the call for the proposal throws and what it has
   tracked is not stored.

Met on the way, listed among the hazards, and not given a run: after the watermarks went
back an operation is tracked by two tasks of one cycle (`cli/lib/cli.ts`, line 1242);
`trackAllElections` caches the next election although a comment says it does not; a
watermark whose block cannot be read is used as it is (`tracker/discovery.ts`, line 141);
batches of the L1 timelock are simulated on the chain of the caller
(`simulation/simulation-data.ts`, line 382); a lookup of a signature that failed is kept
as "unknown" for the session; a process that dies between the checkpoint of an election's
stages and that of its operation loses the operation (`tracker.ts`, line 1009); a vetting
deadline or a number of nominees that cannot be read counts as 0
(`tracker/pipeline.ts`, line 466).

## Not modelled, and assumed

- Tracker: the governor state Expired, transactions that schedule several operations,
  progress callbacks.  The fast path of a PENDING message ends when the challenge period
  does.
- Elections: contenders, nominees and votes, of which only whether the count is enough is
  kept.
- Preparation: lagging reads, the encoders of `governance/write.ts` and
  `election/write.ts`, and the functions that build calldata for no stage.
- Calldata: the parsing of ABI types, values, labels and display texts, payloads for
  Tenderly; bytes that do not decode.
- Delegates: reading and writing the cache file; reorgs at the head.
- De-duplication: tracking calls while `autoLinkOrphanedCheckpoints` runs.
- Searches: a chunk size of 0, with which a search never ends.
- The TUI, the package surface, ABIs and constants: presentation and data.
- Discovery: the `fromWatermarks` override, `skipReorgCheck`, a reorg during a call
  (the command line scans 12 blocks behind the tip), concurrent calls of
  `discoverAll`.  Timelock operations and election proposals get no pending
  checkpoint and are not events of the model; their targets are.
- The cache: outside `FileCache` one read or write of one key is atomic, does not fail, and hands out
  copies.  (The adapters in memory hand out the stored object, which the error path
  then changes in place before it stores it.)
- The monitor: `electionsOnly`, elections in a cycle (they share nothing with the rest),
  transactions (`Preparation` has them; here a callback may ask to track again), back-off and health check.  The limit is at least 1: with `--concurrency 0`
  the first cycle never ends.
- RPC retries: a read answers or, after its retries, throws.  A part of a multicall that fails
  on its own is modelled where the code takes it for an answer in the election pipeline;
  other multicalls answer as a whole.

## Plan

Done: all modules above; proofs of every safety invariant of `ProposalTracker`, its views,
`Discovery`, `Monitor`, `Election`, `FileCache` and `Preparation` that a run checks, of the
counts, links and searches, of three action properties, and of the refinement of
`LifecycleObserver`.

Left: discovery and tracking composed over a store that loses its last writes;
`CacheViews` evaluated in the states of `Monitor`.
