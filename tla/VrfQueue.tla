--------------------------------- MODULE VrfQueue ---------------------------------
(***************************************************************************)
(* The oracle provider's queue account and the read-only parser             *)
(* common/vrf_queue.rs keeps for it.                                        *)
(*                                                                          *)
(* The account is a header and a body of cells.  Items are written one      *)
(* after the other from ItemsStart; an item fills `len` cells, its first    *)
(* cell holds its fields and the rest its variable region.  Removal clears  *)
(* `used` in place and only a run of dead items that ends at the cursor is  *)
(* trimmed, so dead items stay below the cursor (holes) and whole or half   *)
(* overwritten ones above it (stale cells).                                 *)
(*                                                                          *)
(* The writing half is the provider's program, modelled from the fixtures   *)
(* the parser is tested on.                                                 *)
(***************************************************************************)
EXTENDS Naturals, FiniteSets, FiniteSetsExt

CONSTANTS
  Us, Them,      \* this program and any other the provider serves
  BatchKeys,     \* keys of the RollBatch accounts
  NoKeyBytes,    \* args that start with none of them
  Lengths,       \* item sizes, in cells
  BodyLength     \* cells after the header

\* Item sizes are bounded by the provider's caps on accounts and arguments.
ASSUME QueueAssumption ==
  /\ Us # Them /\ NoKeyBytes \notin BatchKeys
  /\ Lengths \subseteq Nat \ {0} /\ IsFiniteSet(Lengths) /\ Lengths # {}
  /\ BodyLength \in Nat

ItemsStart == 1
\* QueueItem: the fields the reader looks at.
Item == [used: BOOLEAN, len: Lengths, program: {Us, Them},
         args: BatchKeys \cup {NoKeyBytes}]

\* A cell no item starts at: zeroes, or the variable region of some item.
Bytes == [used |-> FALSE, len |-> 0, program |-> Them, args |-> NoKeyBytes]

\* A cursor of 0 is how a fresh account is encoded.
Queue == [item_count: Nat, cursor: {0} \cup ItemsStart..(ItemsStart + BodyLength),
          body: [ItemsStart..(ItemsStart + BodyLength - 1) -> Item \cup {Bytes}]]

FreshQueue ==
  [item_count |-> 0, cursor |-> 0,
   body |-> [p \in ItemsStart..(ItemsStart + BodyLength - 1) |-> Bytes]]

---------------------------------------------------------------------------------
(* The reader. *)

\* The end of the live region.
LiveEnd(q) == IF q.cursor = 0 THEN ItemsStart ELSE q.cursor

\* parse_header.
HeaderOK(q) ==
  /\ q.cursor = 0 \/ q.cursor \in ItemsStart..(ItemsStart + BodyLength)
  /\ q.cursor = 0 => q.item_count = 0

\* An item whose regions follow its fields inside the account.
WellFormed(q, p) ==
  q.body[p] # Bytes /\ p + q.body[p].len <= ItemsStart + BodyLength

\* Variant: a removed item counts.
TargetsDeadOrAlive(item, program, key) == item.program = program /\ item.args = key

\* The predicate batch_request_is_live hands to the walk, which skips dead items.
Targets(item, program, key) ==
  item.used /\ item.program = program /\ item.args = key

\* scan_live_items: cells from p up to the end of the live region; the walk goes on
\* after a hit and must land exactly on the end.
Walk(q, program, key) ==
  LET end == LiveEnd(q)
      walk[p \in ItemsStart..(ItemsStart + BodyLength)] ==
        IF p = end THEN [ok |-> TRUE, live_items |-> 0, found |-> FALSE]
        ELSE IF p > end \/ ~WellFormed(q, p)
             THEN [ok |-> FALSE, live_items |-> 0, found |-> FALSE]
        ELSE LET item == q.body[p]
                 rest == walk[p + item.len]
             IN  [ok |-> rest.ok,
                  live_items |-> rest.live_items + (IF item.used THEN 1 ELSE 0),
                  found |-> rest.found \/ Targets(item, program, key)]
  IN  walk[ItemsStart]

\* batch_request_is_live: "error" when the header, the walk or the provider's own
\* count disagree, else whether some live item targets the program with the key.
BatchRequestIsLive(q, program, key) ==
  IF ~HeaderOK(q) THEN "error"
  ELSE LET scan == Walk(q, program, key)
       IN  IF ~scan.ok \/ scan.live_items # q.item_count THEN "error"
           ELSE IF scan.found THEN "live" ELSE "absent"

---------------------------------------------------------------------------------
(* The provider. *)

LivePositions(q) ==
  {p \in DOMAIN q.body : p < LiveEnd(q) /\ q.body[p] # Bytes /\ q.body[p].used}

\* Variant: a full queue takes one more.
AcceptsAnything(q, len) == q.cursor <= ItemsStart + BodyLength

\* A full or paused queue refuses; a pause is the request not happening.
Accepts(q, len) == LiveEnd(q) + len <= ItemsStart + BodyLength

\* A request is appended at the cursor, over whatever stale cells are there.
Enqueue(q, item) ==
  LET at == LiveEnd(q)
  IN  [item_count |-> q.item_count + 1, cursor |-> at + item.len,
       body |-> [p \in DOMAIN q.body |->
                   IF p = at THEN item
                   ELSE IF p \in at..(at + item.len - 1) THEN Bytes
                   ELSE q.body[p]]]

\* remove_items_matching: the item at p dies; the cursor falls to the end of the
\* last item still live.
RemoveItem(q, p) ==
  LET body == [q.body EXCEPT ![p].used = FALSE]
      left == LivePositions(q) \ {p}
      ends == {ItemsStart} \cup {d + body[d].len : d \in left}
  IN  [item_count |-> q.item_count - 1, cursor |-> Max(ends), body |-> body]
=================================================================================
