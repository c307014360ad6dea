------------------------------- MODULE Calldata -------------------------------
(***************************************************************************)
(* What a proposal will do, as it is shown and simulated: calldata is      *)
(* decoded into a tree of the calls nested in it, and the tree is walked   *)
(* for the calls that can be simulated.                                    *)
(*                                                                         *)
(* A call is modelled by its function, the addresses it names and the      *)
(* bytes it carries, which are calls again.  Values, the parameters that   *)
(* are neither, and bytes that do not decode are left out.                 *)
(***************************************************************************)
EXTENDS Naturals, SequencesExt

MAX_DEPTH == 3

\* The address that stands for "create a retryable ticket".
RetryableMagic == "magic"

Leaf(fn)                  == [fn |-> fn, targets |-> <<>>, payloads |-> <<>>, inbox |-> "none"]
Forward(fn, target, call) == [Leaf(fn) EXCEPT !.targets = <<target>>, !.payloads = <<call>>]
ScheduleBatch(targets, payloads) == [Leaf("scheduleBatch") EXCEPT !.targets = targets, !.payloads = payloads]

\* Not calldata, but the arguments of a ticket: the chain of its inbox and one call.
TicketFor(inbox, target, call) == [Forward("ticket", target, call) EXCEPT !.inbox = inbox]

\* The calls that come of a call when all goes well, down to a number of levels: the
\* reference that decoding and simulations are compared with.
RECURSIVE CallsMade(_, _, _, _)
CallsMade(call, target, chain, levels) ==
  LET below(i) ==
        LET inner == call.payloads[i]
        IN  IF call.fn \in {"schedule", "scheduleBatch"} /\ call.targets[i] = RetryableMagic
            THEN CallsMade(inner.payloads[1], inner.targets[1], inner.inbox, levels - 1)
            ELSE CallsMade(inner, call.targets[i], IF call.fn = "sendTxToL1" THEN "ethereum" ELSE chain, levels - 1)
  IN  {[chain |-> chain, to |-> target, input |-> call]}
        \cup IF levels = 0 THEN {} ELSE UNION {below(i) : i \in DOMAIN call.payloads}

-----------------------------------------------------------------------------
(* Decoding                                                                *)

LocalSignatures == {"sendTxToL1", "scheduleBatch", "schedule", "execute", "perform"}

\* Else the directory is asked, once a session: answered is whether it knew.
lookupSignature(fn, answered) ==
  IF fn \in LocalSignatures THEN "local" ELSE IF fn = "custom" /\ answered THEN "api" ELSE "failed"

\* Bytes with room for a selector.
isLikelyCalldata(call) == call.fn # "empty"

\* Mutant: what is nested in a message to L1 is decoded for the chain of the message.
nestedContextKept(fn, chainContext) == chainContext

\* What is nested in a message to L1 runs there.
nestedContext(fn, chainContext) == IF fn = "sendTxToL1" THEN "ethereum" ELSE chainContext

Undecoded(call) ==
  [signature |-> "none", isRetryable |-> FALSE, chain |-> "none", decodingTarget |-> "none",
   addresses |-> <<>>, nested |-> <<>>, raw |-> call]

\* The tree.  chain is the one its addresses are labelled for, addresses its address[]
\* parameter, nested the calls that could be made out in its bytes or bytes[].
RECURSIVE decodeCalldata(_, _, _, _, _)

\* The call on L2 is decoded if the inbox is known.
decodeRetryableTicket(ticket, depth, answered) ==
  LET call == ticket.payloads[1]
  IN  [Undecoded(ticket) EXCEPT
         !.isRetryable = TRUE, !.chain = ticket.inbox, !.decodingTarget = ticket.targets[1],
         !.nested = IF ticket.inbox \in {"arb1", "nova"} /\ isLikelyCalldata(call)
                    THEN <<decodeCalldata(call, ticket.targets[1], depth + 1, ticket.inbox, answered)>> ELSE <<>>]

\* Bytes go with the address before them, an array of bytes with the array of addresses;
\* what is not likely to be calldata leaves no gap.
processNestedParams(call, chainContext, depth, answered) ==
  LET item(i) ==
        CASE call.fn = "scheduleBatch" /\ call.targets[i] = RetryableMagic ->
               <<decodeRetryableTicket(call.payloads[i], depth, answered)>>
          [] ~isLikelyCalldata(call.payloads[i]) -> <<>>
          [] OTHER -> <<decodeCalldata(call.payloads[i], call.targets[i], depth + 1, chainContext, answered)>>
  IN  FlattenSeq([i \in DOMAIN call.payloads |-> item(i)])

decodeCalldata(call, target, depth, chainContext, answered) ==
  IF call.fn = "empty" \/ lookupSignature(call.fn, answered) = "failed" THEN Undecoded(call)
  ELSE [signature |-> call.fn, isRetryable |-> FALSE, chain |-> chainContext, decodingTarget |-> target,
        addresses |-> IF call.fn = "scheduleBatch" THEN call.targets ELSE <<>>, raw |-> call,
        nested |-> IF depth < MAX_DEPTH
                   THEN processNestedParams(call, nestedContext(call.fn, chainContext), depth, answered) ELSE <<>>]

-----------------------------------------------------------------------------
(* Simulations                                                             *)

Simulation(type, chain, to, input) == <<[type |-> type, chain |-> chain, to |-> to, input |-> input]>>

\* A single schedule is read with the parameters of a batch, and so never simulated.
prepareTimelockSimulation(to, call, chain) ==
  IF call.fn = "scheduleBatch" THEN Simulation("timelock", chain, to, call) ELSE <<>>

processTimelockBatch(decoded, chainContext) ==
  IF decoded.signature \in {"schedule", "scheduleBatch"}
  THEN prepareTimelockSimulation(decoded.decodingTarget, decoded.raw, chainContext) ELSE <<>>

processRetryableTicket(ticket) ==
  IF ticket.isRetryable /\ ticket.chain \in {"arb1", "nova"}
  THEN Simulation("retryable", ticket.chain, ticket.decodingTarget, ticket.raw.payloads[1]) ELSE <<>>

\* The target is the address at the place of the call among those decoded.
processGenericCall(call, decoded, index, chainContext) ==
  IF call.signature # "none" /\ ~call.isRetryable
  THEN Simulation("call", chainContext, decoded.addresses[index], call.raw) ELSE <<>>

\* The context stays what the caller has given, below a message to L1 as well.
RECURSIVE extractAllSimulationsFromDecoded(_, _)
extractAllSimulationsFromDecoded(decoded, chainContext) ==
  LET below(i) ==
        LET call == decoded.nested[i]
        IN  (IF decoded.signature = "scheduleBatch"
             THEN processRetryableTicket(call) \o processGenericCall(call, decoded, i, chainContext) ELSE <<>>)
              \o extractAllSimulationsFromDecoded(call, chainContext)
  IN  processTimelockBatch(decoded, chainContext) \o FlattenSeq([i \in DOMAIN decoded.nested |-> below(i)])

=============================================================================
