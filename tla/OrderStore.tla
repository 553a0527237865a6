----------------------------- MODULE OrderStore -----------------------------
(***************************************************************************)
(* How a maker order becomes known and how the local store follows it:     *)
(* the announcement that create_limit_order of the node sends after the    *)
(* order is on the chain, and ingestion and chain sync of the store        *)
(* (deadcat-store/src/store.rs), composed with the order itself.           *)
(*                                                                         *)
(* A sync is one database transaction, but each of its chain queries is a  *)
(* request of its own, between which the order may be filled or cancelled. *)
(* It holds the store's lock, so nothing else changes the store meanwhile. *)
(* A UTXO of the order is named by its txid.                               *)
(***************************************************************************)
EXTENDS MakerOrder

VARIABLES
    details,   \* where the order's parameters and random nonce are held
    ingested,  \* the order has a row in maker_orders
    rows,      \* its rows in utxos: the txids known, and those marked spent
    status,    \* order_status
    sync       \* the sync in progress, with the rows it has not committed

storeVars == <<details, ingested, rows, status, sync>>
allVars == <<vars, storeVars>>

OrderStatus == {"Pending", "Active", "PartiallyFilled", "FullyFilled"}

Open == {"Active", "PartiallyFilled"}

NoSync == [stage |-> "idle", known |-> {}, spent |-> {}, todo |-> {}, since |-> 0]

StoreInit ==
    /\ Init
    /\ details = "nowhere"
    /\ ingested = FALSE
    /\ rows = [known |-> {}, spent |-> {}]
    /\ status = "Pending"
    /\ sync = NoSync

(* ChainSource: the unspent outputs at the order's address, and whether    *)
(* one of its outputs is spent.                                            *)
list_unspent == IF order.value > 0 THEN {order.txid} ELSE {}

is_spent(txid) == txid \notin list_unspent

(* The node's create_limit_order: the SDK's transaction first.  Until the  *)
(* announcement is out, parameters and nonce exist in this call alone.     *)
CreateOnChain ==
    /\ Create
    /\ details' = "creation"
    /\ UNCHANGED <<ingested, rows, status, sync>>

AnnounceOrder ==
    /\ details = "creation"
    /\ details' = "announced"
    /\ UNCHANGED <<vars, ingested, rows, status, sync>>

(* The wallet sync after the broadcast or the relay fails, or the app      *)
(* ends: the command returns before it writes anything to the store.       *)
CreationFails ==
    /\ details = "creation"
    /\ details' = "nowhere"
    /\ UNCHANGED <<vars, ingested, rows, status, sync>>

(* Whoever has the announcement can fill; the maker cancels from it too. *)
UseOrder ==
    /\ details = "announced"
    /\ Fill \/ Cancel
    /\ UNCHANGED storeVars

(* ingest_maker_order: from the announcement, or by the maker's own app    *)
(* once it is announced.  A known order is left alone.                     *)
IngestMakerOrder ==
    /\ details = "announced"
    /\ sync = NoSync
    /\ ~ingested
    /\ ingested' = TRUE
    /\ UNCHANGED <<vars, details, rows, status, sync>>

(* sync begins: height and markets.  A market whose scan fails ends it.    *)
SyncStart ==
    /\ sync = NoSync
    /\ sync' = [stage |-> "orders", known |-> rows.known, spent |-> rows.spent,
                todo |-> {}, since |-> txs]
    /\ UNCHANGED <<vars, details, ingested, rows, status>>

(* The rows sync_spent_utxos will ask about are those not marked spent. *)
sync_order_utxos ==
    /\ sync.stage = "orders"
    /\ LET known == IF ingested THEN sync.known \cup list_unspent ELSE sync.known
       IN  sync' = [sync EXCEPT !.stage = "spent", !.known = known,
                                !.todo = known \ sync.spent]
    /\ UNCHANGED <<vars, details, ingested, rows, status>>

(* One is_spent query. *)
sync_spent_utxos(txid) ==
    /\ sync.stage = "spent"
    /\ txid \in sync.todo
    /\ sync' = [sync EXCEPT !.todo = @ \ {txid},
                            !.spent = IF is_spent(txid) THEN @ \cup {txid} ELSE @]
    /\ UNCHANGED <<vars, details, ingested, rows, status>>

(* Faulty derivation: a spent UTXO counts as a fill even when it is the only one. *)
DerivesFromSpentOnly(known, spent) ==
    CASE known = {} -> "Pending"
      [] spent = {} -> "Active"
      [] OTHER      -> "PartiallyFilled"

derive_order_statuses(known, spent) ==
    CASE known = {}                      -> "Pending"
      [] known # {} /\ spent = {}        -> "Active"
      [] spent # {} /\ known \ spent # {} -> "PartiallyFilled"
      [] spent # {} /\ known \ spent = {} -> "FullyFilled"

(* Faulty commit: the rows are written, the status is left as it was. *)
CommitWithoutStatus ==
    /\ sync.stage = "spent"
    /\ sync.todo = {}
    /\ rows' = [known |-> sync.known, spent |-> sync.spent]
    /\ sync' = NoSync
    /\ UNCHANGED <<vars, details, ingested, status>>

SyncCommit ==
    /\ sync.stage = "spent"
    /\ sync.todo = {}
    /\ rows' = [known |-> sync.known, spent |-> sync.spent]
    /\ status' = IF ingested THEN derive_order_statuses(sync.known, sync.spent)
                             ELSE status
    /\ sync' = NoSync
    /\ UNCHANGED <<vars, details, ingested>>

(* A query or a market's scan fails: the transaction is rolled back. *)
SyncFails ==
    /\ sync # NoSync
    /\ sync' = NoSync
    /\ UNCHANGED <<vars, details, ingested, rows, status>>

StoreNext ==
    \/ IngestMakerOrder
    \/ SyncStart
    \/ sync_order_utxos
    \/ \E txid \in sync.todo : sync_spent_utxos(txid)
    \/ SyncCommit
    \/ SyncFails

OrderNext ==
    \/ CreateOnChain
    \/ AnnounceOrder
    \/ CreationFails
    \/ UseOrder
    \/ Broadcast /\ UNCHANGED storeVars

StoreSpec == StoreInit /\ [][OrderNext \/ StoreNext]_allVars

-----------------------------------------------------------------------------
(* Properties. *)

(* Type invariant of the store: spent rows are rows, of transactions that  *)
(* landed, and a sync asks only about rows it does not know to be spent.   *)
StoreTypeOK ==
    /\ details \in {"nowhere", "creation", "announced"}
    /\ ingested \in BOOLEAN
    /\ status \in OrderStatus
    /\ rows.spent \subseteq rows.known /\ rows.known \subseteq 1..txs
    /\ sync.stage \in {"idle", "orders", "spent"}
    /\ sync.spent \subseteq sync.known /\ sync.todo \subseteq sync.known \ sync.spent

(* A sync during which the order did not move leaves a status that tells   *)
(* whether the order can still be filled, whatever was missed before.      *)
(* The order's address holds nothing but the order: deposits of others     *)
(* there, which the store would count, are not modelled.                   *)
CommitsTruth ==
    (ingested /\ sync.stage = "spent" /\ rows' # rows /\ sync' = NoSync /\ sync.since = txs)
        => (status' \in Open <=> order.value > 0)

StatusFollowsChain == [][CommitsTruth]_allVars

(* The store says partially filled only of an order whose maker was paid:  *)
(* neither a cancellation nor fills missed between syncs look like one,    *)
(* as long as nobody else pays to the order's address.                     *)
PartialMeansPaid ==
    /\ StoreTypeOK
    /\ status = "PartiallyFilled" => received > 0

=============================================================================
