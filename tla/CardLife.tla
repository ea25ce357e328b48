---------------------------------- MODULE CardLife ----------------------------------
(***************************************************************************)
(* What a pool promises about the cards it takes: the lives of its Position *)
(* accounts.  A card enters with its position, is judged once, and is in    *)
(* the vault until it goes back to whoever brought it.  Only a Core card    *)
(* can be gone from the vault while its position stands, and only a Core    *)
(* position can be seized; a seized card that comes back can still be       *)
(* claimed.  Nothing a position does depends on another.                    *)
(***************************************************************************)
CONSTANTS Positions, Wallets, NoWallet

\* Positions -> [state, depositor, family, card]: the PositionState ("None" without an
\* account), who brought the card, whether it is a "core" or a "token" card, and
\* whether the vault holds it or it is away.
VARIABLE life

Unused == [state |-> "None", depositor |-> NoWallet, family |-> "token", card |-> "away"]

Enters(x, y) ==
  /\ x = Unused
  /\ \E w \in Wallets, family \in {"core", "token"} :
       y = [state |-> "Pending", depositor |-> w, family |-> family, card |-> "escrowed"]

Judged(x, y) ==
  /\ <<x.state, y.state>> \in
       {<<"Pending", "Active">>, <<"Pending", "Rejected">>, <<"Active", "ClosedBelowFloor">>}
  /\ y = [x EXCEPT !.state = y.state]

Leaves(x, y) ==
  /\ \/ x.state \in {"Rejected", "Active", "ClosedBelowFloor"}
     \/ x.state = "Seized" /\ x.family = "core"
  /\ x.card = "escrowed"
  /\ y = Unused

Seized(x, y) ==
  /\ x.family = "core" /\ x.state \in {"Pending", "Rejected", "Active", "ClosedBelowFloor"}
  /\ y = [x EXCEPT !.state = "Seized"]

TakenOrReturned(x, y) ==
  /\ x.family = "core"
  /\ y = [x EXCEPT !.card = IF @ = "escrowed" THEN "away" ELSE "escrowed"]

Init == life = [v \in Positions |-> Unused]

Next ==
  \A v \in Positions :
       LET x == life[v]
           y == life'[v]
       IN  x = y \/ Enters(x, y) \/ Judged(x, y) \/ Leaves(x, y) \/ Seized(x, y)
             \/ TakenOrReturned(x, y)

Spec == Init /\ [][Next]_life
=================================================================================
