----------------------------- MODULE TrackerViews -----------------------------
(***************************************************************************)
(* What StageViews shows of the states that ProposalTracker reaches: of    *)
(* the cache, and of the result of a call that is about to return.         *)
(***************************************************************************)
EXTENDS ProposalTracker, StageViews

\* What a user sees: the proposal with its operation, as read from the cache, and the
\* result of every call that is about to return.
Shown == {ExtractedProposal(cache["proposal"], cache["operation"])}
           \cup {TrackingResult(run[c].input, run[c].stages) :
                   c \in {d \in Callers : run[d].pc \in {"saveParent", "saveOperation"}}}

\* The milestone each word for a proposal's progress stands for; for the phase
\* "executed" see EndIsTrue.  Two words say more: a proposal that is canceled after its
\* vote has its queue stage SKIPPED, which is shown as queued, and one that ends on L2
\* is shown in "l1_delay", as the L1 stages that are never going to start are looked at
\* first.
Vouched(word) ==
  CASE word = "Succeeded"  -> Since(Succeeded)
    [] word = "Queued"     -> Since(Queued) \/ fate = "Canceled"
    [] word = "Executed"   -> Since(L2Executed)
    [] word = "Canceled"   -> fate = "Canceled"
    [] word = "Defeated"   -> fate = "Defeated"
    [] word = "queued"     -> Since(Succeeded) \/ fate = "Canceled"
    [] word = "l2_delay"   -> Since(Queued) \/ fate = "Canceled"
    [] word = "bridging"   -> Since(L2Executed)
    [] word = "l1_delay"   -> Since(OutboxDone) \/ (route = "noMessage" /\ Since(L2Executed))
    [] word = "finalizing" -> Since(L1Executed)
    [] word = "failed"     -> fate \in {"Defeated", "Expired"}
    [] OTHER               -> TRUE

\* A cached list that ends before the proposal does, all its stages COMPLETED: only the
\* creation is stored, or the proposal's own stages are and those of its operation are
\* not, or not linked.  Its isComplete is true and its phase "executed", although the
\* proposal is under way, as not-started stages are not stored.
StopsShort(list) ==
  \/ DOMAIN list = {"PROPOSAL_CREATED"}
  \/ DOMAIN list = ParentStages /\ list["PROPOSAL_QUEUED"].status = "COMPLETED" /\ Since(Queued)

\* With exact reads, what is shown as complete or executed has come to its end, or died,
\* unless its list stops short.
EndIsTrue(view) ==
  ~Lag /\ (view.isComplete \/ getLifecyclePhase(view.stages) = "executed")
    => Finished \/ StopsShort(view.stages)

\* A stage that is offered for execution is the one the proposal is waiting for.
ActsInTurn(list) ==
  needsAction(list) => /\ findExecutableStage(list) = getCurrentStage(list)
                       /\ findAllExecutableStages(list) = {getCurrentStage(list)}

\* However its stages were put together from two checkpoints that are read, lost and
\* overwritten separately, what is derived from them (the governor's state, the
\* lifecycle phase, whether it is complete, the link to the operation) says no more than
\* the chains do, but for the lists that stop short, and no stage is offered for
\* execution out of turn.  An operation by itself never stops short.
ViewsAreTrue ==
  /\ \A view \in Shown :
       /\ Vouched(view.currentState)
       /\ Vouched(getLifecyclePhase(view.stages))
       /\ EndIsTrue(view)
       /\ view.timelockLink \/ extractOperationId(view.stages) => Since(Queued)
       /\ ActsInTurn(view.stages)
  /\ ~Lag /\ ExtractedTimelockOp(cache["operation"]).isComplete => Finished

\* The phase "executed" is shown of a call's result only when there is nothing left
\* to do: no stage has yet to start, even though not-started stages are not stored.
ExecutedIsFinished ==
  \A c \in Callers :
    run[c].pc \in {"saveParent", "saveOperation"} =>
      LET result == TrackingResult(run[c].input, run[c].stages)
      IN  /\ getLifecyclePhase(result.stages) = "executed" => phase = FinalPhase(route)
          /\ result.isComplete => Finished \/ phase = FinalPhase(route)

\* Re-tracking from a trimmed checkpoint starts from an ordered prefix, and the link
\* to the operation survives only with the stage it was read from.
TrimmedIsResumable ==
  \A k \in CacheKey, i \in 0 .. 4 :
    LET cp == trimFromStage(cache[k], i)
    IN  /\ StagesInOrder(cp.stages)
        /\ cp.opKey => cp.stages["PROPOSAL_QUEUED"].status # "NOT_STARTED"

=============================================================================
