--------------------------------- MODULE Requests ---------------------------------
(***************************************************************************)
(* The randomness requests of all pools, over the oracle queues they share. *)
(* commit_rolls enqueues one request on the queue the protocol              *)
(* configuration names at that moment; the oracle later answers it, in one  *)
(* transaction with the callback, or someone purges it and no answer ever   *)
(* comes.  Meanwhile roles rotate, the configured queue moves and requests  *)
(* of other programs come and go around it.                                 *)
(*                                                                          *)
(* A pool's own conditions for a batch (its sweep, its tier, its books) are *)
(* those of module Pool; here the pool is its batch counter and its freeze. *)
(***************************************************************************)
EXTENDS Protocol, VrfQueue

CONSTANTS MaxForeign   \* bound on the requests of other programs ever made

\* Every pool has an address for its next batch; the counter is stuck at its first.
ASSUME RequestsAssumption ==
  /\ MaxForeign \in Nat
  /\ \A pool \in 1..MaxPools : <<pool, 0>> \in BatchKeys

VARIABLES
  queues,       \* Queues -> the oracle queue accounts
  batches,      \* RollBatch accounts: BatchKeys -> their state
  foreign,      \* requests other programs have made
  asked,        \* history: BatchKeys -> the queue the request went to
  outstanding   \* history: batches whose request was neither answered nor purged

requestVars == <<queues, batches, foreign, asked, outstanding>>
vars == <<protocolVars, requestVars>>

\* The RollBatch address is derived from its pool and the pool's batch counter.
BatchKey(pool, counter) == <<pool, counter>>

\* Each pool's batch_counter, and its open_batches: a batch is settled by nothing.
BatchCounter(pool) == Cardinality({b \in BatchKeys : batches[b] # "None" /\ b[1] = pool})
WeightOpen(pool) == BatchCounter(pool) = 0

TypeOK ==
  /\ ProtocolTypeOK
  /\ queues \in [Queues -> Queue]
  /\ batches \in [BatchKeys -> {"None", "Committed", "Resolved"}]
  /\ foreign \in 0..MaxForeign
  /\ asked \in [BatchKeys -> Queues]
  /\ outstanding \subseteq BatchKeys

Init ==
  /\ ProtocolInit
  /\ queues = [q \in Queues |-> FreshQueue]
  /\ batches = [b \in BatchKeys |-> "None"]
  /\ foreign = 0
  /\ asked = [b \in BatchKeys |-> oracle_queue]
  /\ outstanding = {}

\* The request of a batch: its key is the callback argument.
OwnItem(key, len) ==
  [used |-> TRUE, len |-> len, program |-> Us, args |-> key]

\* Variant: the caller picks the queue.
RequestQueue == Queues
\* The queue account is pinned to the one the configuration names.
PinnedQueue == {oracle_queue}

\* commit_rolls: the batch account is created and its request enqueued, in one
\* transaction; a paused or full queue refuses both.
CommitRolls(pool) ==
  /\ WeightOpen(pool)
  /\ \E queue \in PinnedQueue, len \in {Max(Lengths)} :
       LET slot == <<pool, BatchCounter(pool)>>
       IN  /\ Accepts(queues[queue], len)
           /\ batches[slot] = "None"
           /\ queues' = [queues EXCEPT ![queue] =
                           Enqueue(@, OwnItem(BatchKey(pool, BatchCounter(pool)), len))]
           /\ batches' = [batches EXCEPT ![slot] = "Committed"]
           /\ asked' = [asked EXCEPT ![slot] = oracle_queue]
           /\ outstanding' = outstanding \cup {slot}
  /\ UNCHANGED <<protocolVars, foreign>>

\* Another program makes a request; its arguments may be any key, but only this
\* program can ask for callbacks into this program.
ForeignRequest(queue) ==
  /\ foreign < MaxForeign
  /\ foreign' = foreign + 1
  /\ \E item \in [used: {TRUE}, len: Lengths, program: {Them},
                  args: BatchKeys \cup {NoKeyBytes}] :
       /\ Accepts(queues[queue], item.len)
       /\ queues' = [queues EXCEPT ![queue] = Enqueue(@, item)]
  /\ UNCHANGED <<protocolVars, batches, asked, outstanding>>

\* The oracle answers a request, whatever its age: the item is removed and the
\* callback runs, or neither happens.  vrf_callback takes one answer per batch.
Fulfil(queue, p) ==
  LET item == queues[queue].body[p]
  IN  /\ p \in LivePositions(queues[queue])
      /\ queues' = [queues EXCEPT ![queue] = RemoveItem(@, p)]
      /\ IF item.program = Us
         THEN /\ batches[item.args] = "Committed"
              /\ batches' = [batches EXCEPT ![item.args] = "Resolved"]
              /\ outstanding' = outstanding \ {item.args}
         ELSE UNCHANGED <<batches, outstanding>>
      /\ UNCHANGED <<protocolVars, foreign, asked>>

\* A request is removed without an answer.
Purge(queue, p) ==
  LET item == queues[queue].body[p]
  IN  /\ p \in LivePositions(queues[queue])
      /\ queues' = [queues EXCEPT ![queue] = RemoveItem(@, p)]
      /\ outstanding' = IF item.program = Us THEN outstanding \ {item.args} ELSE outstanding
      /\ UNCHANGED <<protocolVars, batches, foreign, asked>>

ProviderStep ==
  \E queue \in Queues :
    \/ ForeignRequest(queue)
    \/ \E p \in LivePositions(queues[queue]) : Fulfil(queue, p) \/ Purge(queue, p)

Next ==
  \/ (AuthorityStep \/ ProtocolStep) /\ UNCHANGED requestVars
  \/ \E pool \in DOMAIN pools : CommitRolls(pool)
  \/ ProviderStep

Spec == Init /\ [][Next]_vars

---------------------------------------------------------------------------------
(* Properties. *)

Reads(queue, b) == BatchRequestIsLive(queues[queue], Us, b)

\* vrf_queue.rs:317: on every queue the provider can leave behind, with its holes,
\* stale cells and look-alike items, the reader never refuses, and it answers live
\* exactly where the batch's own request is still waiting.
ScanIsExact ==
  \A queue \in Queues, b \in BatchKeys :
    Reads(queue, b) = IF b \in outstanding /\ asked[b] = queue THEN "live" ELSE "absent"

\* vrf_queue.rs:6: what a refund would rest on.  Once the reader answers absent on
\* the queue the batch was committed on, no later answer reaches the batch; a
\* migration of the configured queue does not change which queue that is.
AbsenceIsFinal ==
  [][\A b \in BatchKeys :
       batches[b] = "Committed" /\ Reads(asked[b], b) = "absent"
         => batches'[b] = "Committed" /\ Reads(asked[b], b)' = "absent"]_vars
=================================================================================
