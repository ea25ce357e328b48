-------------------------------- MODULE CoreCensus --------------------------------
(***************************************************************************)
(* How the program reads an escrowed MPL Core card: the census of the       *)
(* plugin registries of the card and of its collection, the classification  *)
(* of the card, and the two gates built on it.  The exits refuse what they  *)
(* know cannot move, close_seized refuses what it knows can; a card the     *)
(* census cannot decide passes both.                                        *)
(*                                                                          *)
(* A plugin account is [readable, internal, external]: whether its body,    *)
(* header and registry parse, its internal records with the one field the   *)
(* census reads, and the lifecycle events its external adapters check.      *)
(***************************************************************************)

\* PluginType, by what the census does with it; "Unlisted" is a byte no variant claims.
FreezeTypes == {"FreezeDelegate", "PermanentFreezeDelegate"}
InertTypes ==
  {"BurnDelegate", "TransferDelegate", "UpdateDelegate", "Attributes",
   "PermanentTransferDelegate", "PermanentBurnDelegate", "Edition", "MasterEdition",
   "AddBlocker", "ImmutableMetadata", "VerifiedCreators", "Autograph",
   "FreezeExecute", "PermanentFreezeExecute"}
PluginTypes == FreezeTypes \cup InertTypes \cup {"Royalties", "BubblegumV2", "Unlisted"}

\* The frozen flag of a freeze plugin and the rule set of Royalties, when they can
\* be read at all; the field of any other plugin is never looked at.
Fields == {"frozen", "thawed", "no rules", "rules", "unreadable"}
Events == {"Transfer", "other"}

PluginAccount ==
  [readable: BOOLEAN,
   internal: SUBSET [type: PluginTypes, field: Fields],
   external: SUBSET Events]

---------------------------------------------------------------------------------
(* The census. *)

\* A freeze plugin whose flag reads true.
Freezes(record) == record.type \in FreezeTypes /\ record.field = "frozen"

\* A record the census cannot show to let every transfer through.
Undecided(record, on) ==
  \/ record.type \in FreezeTypes /\ record.field \notin {"frozen", "thawed"}
  \/ record.type = "Royalties" /\ record.field # "no rules"
  \/ record.type = "BubblegumV2" /\ on = "Asset"
  \/ record.type = "Unlisted"

\* registry_verdict: one account; a set freeze flag outweighs everything else in it.
RegistryVerdict(account, on) ==
  IF ~account.readable THEN "Undecidable"
  ELSE IF \E r \in account.internal : Freezes(r) THEN "Freeze"
  ELSE IF \/ \E r \in account.internal : Undecided(r, on)
          \/ "Transfer" \in account.external
       THEN "Undecidable"
  ELSE "Clear"

\* transfer_surface's precedence over the two accounts.
Worst(verdicts) ==
  IF "Freeze" \in verdicts THEN "Freeze"
  ELSE IF "Undecidable" \in verdicts THEN "Undecidable" ELSE "Clear"

TransferSurface(asset, collection) ==
  Worst({RegistryVerdict(asset, "Asset"), RegistryVerdict(collection, "Collection")})

\* read_collateral, once the supplied collection is the one the asset declares: the
\* asset's existence and its owner come before its plugins.
Classify(exists, vault_owned, asset, collection) ==
  IF ~exists THEN "burned"
  ELSE IF ~vault_owned THEN "transferred"
  ELSE CASE TransferSurface(asset, collection) = "Freeze" -> "frozen"
         [] TransferSurface(asset, collection) = "Undecidable" -> "undecidable"
         [] OTHER -> "settleable"

Classifications == {"settleable", "undecidable", "frozen", "transferred", "burned"}

\* require_collateral_settleable and require_collateral_unreachable.
SettleableGate(class) == class \in {"settleable", "undecidable"}
UnreachableGate(class) == class # "settleable"

---------------------------------------------------------------------------------
(* MPL Core's side of a TransferV1, as far as the program's measurements reach:    *)
(* a set freeze flag refuses, records the census clears never do, and the answer   *)
(* to anything else is Core's own.                                                 *)

CoreRefuses(asset, collection) ==
  \/ asset.readable /\ \E r \in asset.internal : Freezes(r)
  \/ collection.readable /\ \E r \in collection.internal : Freezes(r)
CoreMoves(asset, collection) ==
  /\ asset.readable /\ collection.readable
  /\ \A r \in asset.internal : ~Freezes(r) /\ ~Undecided(r, "Asset")
  /\ \A r \in collection.internal : ~Freezes(r) /\ ~Undecided(r, "Collection")
  /\ "Transfer" \notin asset.external \cup collection.external
=================================================================================
