----------------------------- MODULE LmsrPoolSync -----------------------------
(***************************************************************************)
(* How a node follows an LMSR pool: the walk from the bootstrap along the   *)
(* transitions of the chain, and what it keeps in the store (sdk.rs,        *)
(* node.rs, discovery/service.rs, deadcat-store/src/store.rs).              *)
(*                                                                         *)
(* The chain grows by blocks and may lose its last one.  A node walks it    *)
(* one query at a time while other wallets trade; announcements of the pool *)
(* arrive from the relays at any time.                                      *)
(***************************************************************************)
EXTENDS LmsrPool, PoolAnnouncement

CONSTANTS
    Local,            \* the wallet whose node this is
    IrreversibleConfirmations,   \* irreversible_confirmations of the network
    RelayEvents,      \* which announcements the relays may hold, see Events
    AnnouncedState,   \* the state they claim, which nobody checks
    WalkLimit,        \* bundles a walk visits at most (512 in the code)
    MaxHeight         \* bound: blocks explored

Tables == {"none", "good", "wrong"}   \* lmsr_table_values, against the root

EventNames == {"own", "no_table", "wrong_table", "old_version", "other_network",
               "other_params", "other_pool", "beyond"}

ASSUME SyncAssumption ==
    /\ RelayEvents \subseteq EventNames
    /\ AnnouncedState \in [s : 0 .. SMaxIndex, reserves : ReserveSet]
    /\ Local \in Wallets
    /\ IrreversibleConfirmations = 2
    /\ WalkLimit \in Nat \ {0}
    /\ MaxHeight \in Nat

VARIABLES
    made,      \* every transition ever broadcast, by number
    chain,     \* numbers of the transitions on the chain or in the mempool
    height,    \* transition -> block it is in, 0 while it has none
    tip,       \* best block
    settled,   \* the highest best block there ever was
    walk,      \* the node's sync of this pool
    row,       \* the store's row of this pool (lmsr_pools)
    prices     \* the store's price history (lmsr_price_history)

chainVars == <<made, chain, height, tip, settled>>
syncVars == <<made, chain, height, tip, settled, walk, row, prices>>
allVars == <<vars, syncVars>>

\* A transition: the witness of its primary input, the index that the script
\* of its reserve outputs commits to, and their amounts.
Witnesses == [path : {"swap", "admin"}, old : 0 .. SMaxIndex, new : 0 .. SMaxIndex]
Transition == [witness : Witnesses, s : 0 .. SMaxIndex, reserves : ReserveSet]

build_lmsr_primary_witness(leg) == [path |-> leg.path, old |-> leg.old, new |-> leg.new]

NoRow == [known |-> FALSE, source |-> "announcement", s |-> 0, reserves |-> genesis.reserves,
          last |-> 0, table |-> "none", event |-> "none", terms |-> OwnParams]

Asleep == [pc |-> "idle"]
\* with_sdk holds the SDK's mutex during the whole of a walk.
Walking == walk.pc \in {"bundle", "height"}

\* Index and reserves of the bundle that transition n made.
BundleAt(n) == IF n = 0 THEN genesis
               ELSE [s |-> made[n].s, reserves |-> made[n].reserves]

\* The transition that spends the bundle of n, 0 if it is unspent.
Spender(n) ==
    LET at == IF n = 0 THEN 0 ELSE CHOOSE k \in DOMAIN chain : chain[k] = n
    IN  IF at < Len(chain) THEN chain[at + 1] ELSE 0

OnChain(n) == n = 0 \/ n \in {chain[k] : k \in DOMAIN chain}

-----------------------------------------------------------------------------
(* The store.                                                               *)

\* Faulty: an announcement's index replaces that of a scan.
IngestsAnnouncedIndex(r, in) ==
    LET keep == r.known /\ r.source = "canonical" /\ in.source = "announcement"
        live == IF keep THEN r ELSE in
    IN  [known |-> TRUE, source |-> live.source, s |-> in.s,
         reserves |-> live.reserves, last |-> live.last,
         terms |-> IF r.known THEN r.terms ELSE in.terms,
         table |-> IF in.table = "none" THEN r.table ELSE in.table,
         event |-> IF in.event = "none" THEN r.event ELSE in.event]

\* ingest_lmsr_pool on the row r.  An announcement never replaces what a scan
\* has found; identity and parameters stay those of the first insert, the table
\* and the event are kept when the input has none.
ingest_lmsr_pool(r, in) ==
    LET keep == r.known /\ r.source = "canonical" /\ in.source = "announcement"
        live == IF keep THEN r ELSE in
    IN  [known |-> TRUE, source |-> live.source, s |-> live.s,
         reserves |-> live.reserves, last |-> live.last,
         terms |-> IF r.known THEN r.terms ELSE in.terms,
         table |-> IF in.table = "none" THEN r.table ELSE in.table,
         event |-> IF in.event = "none" THEN r.event ELSE in.event]

\* persist_lmsr_pool_snapshot; a store that fails is ignored.
Snapshot(n, table) ==
    [source |-> "canonical", s |-> BundleAt(n).s, reserves |-> BundleAt(n).reserves,
     last |-> n, terms |-> OwnParams, table |-> table, event |-> "none"]

persist_lmsr_pool_snapshot(n, table) ==
    row' \in {row, ingest_lmsr_pool(row, Snapshot(n, table))}

\* upsert_lmsr_pool_state: an update, so nothing without a row.
upsert_lmsr_pool_state(r, n) ==
    IF r.known THEN [r EXCEPT !.source = "canonical", !.s = BundleAt(n).s,
                              !.reserves = BundleAt(n).reserves, !.last = n]
               ELSE r

-----------------------------------------------------------------------------
(* Announcements.                                                           *)

OwnAnnouncement ==
    build_pool_announcement_from_snapshot("boot", AnnouncedState.s, AnnouncedState.reserves)

\* The announcements a relay may hold: that of the pool's creator and others
\* that differ in one thing.  "other_params" claims this pool's id for other
\* parameters, "other_pool" is a pool of the same market with its own id.
Events ==
    LET own      == OwnAnnouncement
        cheap    == [own EXCEPT !.params.fee = 0]
        body(n)  == CASE n = "no_table"     -> [own EXCEPT !.table = "none"]
                      [] n = "wrong_table"  -> [own EXCEPT !.table = "wrong"]
                      [] n = "old_version"  -> [own EXCEPT !.version = 1]
                      [] n = "other_params" -> cheap
                      [] n = "other_pool"   -> [cheap EXCEPT !.id.params = cheap.params]
                      [] n = "beyond"       -> [own EXCEPT !.s = SMaxIndex + 1]
                      [] OTHER -> own
    IN  [n \in EventNames |->
            build_pool_event(body(n), IF n = "other_network" THEN "other" ELSE Network)]

\* Discovered pools that are stored in this pool's row.
OwnPools ==
    {a \in {Events[n].content : n \in EventNames} :
        parse_discovered_lmsr_pool(a) /\ a.id = OwnAnnouncement.id}

\* persist_pool_to_store: an announcement, whose state nobody has checked.
\* One of another pool goes to a row of its own.
persist_pool_to_store(r, a) ==
    IF a \in OwnPools
    THEN ingest_lmsr_pool(r, [source |-> "announcement", s |-> a.s, reserves |-> a.reserves,
                              last |-> 0, terms |-> a.params, table |-> a.table,
                              event |-> a.table])
    ELSE r

\* What fetch_pools returns for the events a relay answers with, and the row
\* after it has stored them.
fetch_pools(events) == Deduplicated({e \in events : parse_pool_event(e)})

Answers == UNION {fetch_pools({Events[m], Events[n]}) : m, n \in RelayEvents}

Fetched(found) ==
    LET own == {e \in found : e.content.id = OwnAnnouncement.id}
    IN  IF own = {} THEN row ELSE persist_pool_to_store(row, (CHOOSE e \in own : TRUE).content)

-----------------------------------------------------------------------------
(* The metadata a sync works with.                                          *)

\* locator_from_sync_parts: the stored parameters derive the row's id.
LocatorFromRow(terms) ==
    derive_lmsr_pool_id(Network, terms, "boot", Outpoints("boot")) = OwnAnnouncement.id

\* The table of the stored event, which is parsed again like a new one.
repair_metadata_from_nostr_event == row.event

\* A row whose parameters do not derive its id, or without its table, is
\* repaired from the stored event if it can be.
needs_repair == ~LocatorFromRow(row.terms) \/ row.table = "none"

resolved_sync_metadata ==
    IF needs_repair /\ row.event # "none"
    THEN [terms |-> OwnParams,
          table |-> IF row.table = "none" THEN repair_metadata_from_nostr_event ELSE row.table]
    ELSE [terms |-> row.terms, table |-> row.table]

repair_lmsr_pool_sync_info(r, meta) == [r EXCEPT !.terms = meta.terms, !.table = meta.table]

\* resolve_and_repair_pool_sync_metadata: the row as a sync or a scan finds it.
RepairedRow == repair_lmsr_pool_sync_info(row, resolved_sync_metadata)

\* Faulty: the block itself is not counted as a confirmation, twice over.
IrreversibleTooEarly(best, h) ==
    best >= h /\ (best - h) + 2 >= IrreversibleConfirmations

\* Faulty: one confirmation more than needed.
IrreversibleTooLate(best, h) ==
    best >= h /\ (best - h) + 1 > IrreversibleConfirmations

is_irreversible_transition(best, h) ==
    best >= h /\ (best - h) + 1 >= IrreversibleConfirmations

-----------------------------------------------------------------------------
SyncInit ==
    /\ Init
    /\ made = <<>>
    /\ chain = <<>>
    /\ height = <<>>
    /\ tip = 0
    /\ settled = 0
    /\ walk = Asleep
    /\ row = NoRow
    /\ prices = {}

\* node.create_lmsr_pool: the bootstrap, then the snapshot.
create_lmsr_pool(b) ==
    /\ create_lmsr_pool_bootstrap(b)
    /\ row' \in {row, ingest_lmsr_pool(row,
                    [source |-> "canonical", s |-> b.s, reserves |-> b.reserves, last |-> 0,
                     terms |-> OwnParams, table |-> "good", event |-> "none"])}
    /\ UNCHANGED <<chainVars, walk, prices>>

\* A transition of the pool enters the mempool.
Enters(leg) ==
    /\ Lands(leg)
    /\ made' = Append(made, [witness |-> build_lmsr_primary_witness(leg), s |-> leg.new,
                             reserves |-> leg.next])
    /\ chain' = Append(chain, txs + 1)
    /\ height' = Append(height, 0)
    /\ UNCHANGED <<pending, tip, settled, walk, prices>>

\* A trade, here from quote to broadcast in one step: only a trade built from
\* the live bundle lands.  The node stores nothing about its own.
execute_trade(w, kind, input) ==
    LET q == Quotes[kind][sIndex][input]
    IN  /\ created /\ txs < MaxTxs
        /\ w = Local => ~Walking
        /\ q.tag = "ok"
        /\ SwapLeg(w, q.quote).deltaOut > 0
        /\ SwapBuilds(SwapLeg(w, q.quote))
        /\ Enters(Built(SwapLeg(w, q.quote)))
        /\ UNCHANGED row

\* node.adjust_lmsr_pool stores the bundle it made, node.close_lmsr_pool none.
adjust_lmsr_pool(next) ==
    /\ created /\ txs < MaxTxs
    /\ Admin = Local => ~Walking
    /\ ensure_reserve_floors(next)
    /\ Enters(AdjustLeg(Admin, next))
    /\ \/ /\ Admin = Local
          /\ row' = ingest_lmsr_pool(row,
                [source |-> "canonical", s |-> sIndex, reserves |-> next, last |-> txs + 1,
                 terms |-> OwnParams, table |-> "good", event |-> "none"])
       \/ UNCHANGED row

node_close_lmsr_pool ==
    /\ created /\ txs < MaxTxs
    /\ Admin = Local => ~Walking
    /\ Enters(AdjustLeg(Admin, FloorReserves))
    /\ UNCHANGED row

\* quote_trade: the pools of the market are fetched, and stored.  With exactly
\* one that carries its table the pool is scanned under the SDK's mutex and
\* what was found is stored.
quote_trade(found) ==
    /\ created /\ ~Walking
    /\ LET ok == \E e \in found : /\ found = {e}
                                  /\ e.content \in OwnPools
                                  /\ e.content.table = "good"
       IN  row' = IF ok THEN upsert_lmsr_pool_state(Fetched(found), bundle) ELSE Fetched(found)
    /\ UNCHANGED <<vars, chainVars, walk, prices>>

\* A scan stores the snapshot, which makes a row where there is none, and then
\* the state; each of the two may fail.
Scanned(r) == {r, ingest_lmsr_pool(r, Snapshot(bundle, "none")), upsert_lmsr_pool_state(r, bundle)}

scan_lmsr_pool ==
    /\ created /\ ~Walking
    /\ LocatorOk(OwnAnnouncement)
    /\ row' \in Scanned(row)
    /\ UNCHANGED <<vars, chainVars, walk, prices>>

\* The scan command has the locator from the row, repaired first.
scan_lmsr_pool_inner ==
    /\ created /\ ~Walking
    /\ row.known /\ LocatorFromRow(RepairedRow.terms)
    /\ row' \in Scanned(RepairedRow)
    /\ UNCHANGED <<vars, chainVars, walk, prices>>

scan_for_adjust ==
    /\ created /\ ~Walking
    /\ LocatorOk(OwnAnnouncement)
    /\ persist_lmsr_pool_snapshot(bundle, "none")
    /\ UNCHANGED <<vars, chainVars, walk, prices>>

\* A block takes some of the mempool, in the order of the spends.
Mine(k) ==
    /\ tip < MaxHeight
    /\ tip' = tip + 1
    /\ settled' = IF tip + 1 > settled THEN tip + 1 ELSE settled
    /\ height' = [n \in DOMAIN height |->
                    IF height[n] = 0 /\ \E i \in 1 .. k : chain[i] = n THEN tip + 1
                    ELSE height[n]]
    /\ UNCHANGED <<vars, made, chain, walk, row, prices>>

\* The last block is replaced, unless it is settled: its transitions return to
\* the mempool or, from the k-th of the chain on, are gone for good.
Reorg(k) ==
    /\ tip > 0 /\ tip > settled - (IrreversibleConfirmations - 1)
    /\ \A i \in k + 1 .. Len(chain) : height[chain[i]] \in {0, tip}
    /\ tip' = tip - 1
    /\ chain' = SubSeq(chain, 1, k)
    /\ height' = [n \in DOMAIN height |-> IF height[n] = tip THEN 0 ELSE height[n]]
    /\ LET last == IF k = 0 THEN 0 ELSE chain[k]
       IN  /\ bundle' = last
           /\ sIndex' = BundleAt(last).s
           /\ reserves' = BundleAt(last).reserves
    /\ walk' = IF Walking THEN [walk EXCEPT !.raced = TRUE] ELSE walk
    /\ UNCHANGED <<created, genesis, txs, pending, made, settled, row, prices>>

\* The subscription loop brings one event.
Parsed == {Events[n] : n \in {k \in RelayEvents : parse_pool_event(Events[k])}}

Announced(e) ==
    /\ created
    /\ row' = persist_pool_to_store(row, e.content)
    /\ UNCHANGED <<vars, chainVars, walk, prices>>

-----------------------------------------------------------------------------
(* DeadcatNode::sync for this pool.                                         *)

\* The row is read and repaired, the best height is read, the walk begins.
SyncStart ==
    /\ created /\ walk = Asleep
    /\ row.known
    /\ LocatorFromRow(RepairedRow.terms)
    /\ row' = RepairedRow
    /\ walk' = [pc |-> "bundle", at |-> 0, hint |-> row.s, steps |-> 0, best |-> tip, next |-> 0,
                seen |-> <<>>, table |-> RepairedRow.table, raced |-> FALSE]
    /\ UNCHANGED <<vars, chainVars, prices>>

Fails == walk' = [walk EXCEPT !.pc = "error"]

\* Faulty: the limit is reached one bundle too soon.
LimitReachedEarly == walk.steps + 2 > WalkLimit
LimitReached == walk.steps + 1 > WalkLimit

\* The index of a script: the hint if it fits, else the one index that does.
find_lmsr_state_index_by_script(hint, script) ==
    IF hint <= SMaxIndex /\ script_pubkey(hint) = script THEN hint
    ELSE CHOOSE s \in 0 .. SMaxIndex : script_pubkey(s) = script

current_s_index ==
    find_lmsr_state_index_by_script(walk.hint, script_pubkey(BundleAt(walk.at).s))

\* One bundle: its transactions are fetched and its spender looked for.
FindSpender ==
    /\ walk.pc = "bundle"
    /\ LET next == Spender(walk.at)
       IN  IF LimitReached \/ ~OnChain(walk.at) THEN Fails
           ELSE IF next = 0 THEN walk' = [walk EXCEPT !.pc = "persist"]
           ELSE walk' = [walk EXCEPT !.pc = "height", !.next = next,
                                     !.steps = walk.steps + 1]
    /\ UNCHANGED <<vars, chainVars, row, prices>>

\* The transition's witness is decoded and checked against the bundle, its
\* height is read and its reserve outputs must be under the script of the new
\* index.
PayloadOk(payload) ==
    /\ payload.old = current_s_index
    /\ payload.path = "swap"  => payload.new # payload.old
    /\ payload.path = "admin" => payload.new = payload.old

decode_primary_witness_payload(n) == made[n].witness
extract_reserve_window(n) == [script |-> script_pubkey(made[n].s), reserves |-> made[n].reserves]

ReadHeight ==
    /\ walk.pc = "height"
    /\ LET payload == decode_primary_witness_payload(walk.next)
       IN  IF \/ ~OnChain(walk.next) \/ ~PayloadOk(payload)
              \/ extract_reserve_window(walk.next).script # script_pubkey(payload.new)
           THEN Fails
           ELSE walk' = [walk EXCEPT !.pc = "bundle", !.at = walk.next, !.next = 0,
                                 !.hint = payload.new,
                                 !.seen = Append(walk.seen, [id |-> walk.next,
                                                             h |-> height[walk.next]])]
    /\ UNCHANGED <<vars, chainVars, row, prices>>

\* The snapshot is stored once the SDK's mutex is free again.
SyncPersist ==
    /\ walk.pc = "persist"
    /\ persist_lmsr_pool_snapshot(walk.at, walk.table)
    /\ walk' = [walk EXCEPT !.pc = "record"]
    /\ UNCHANGED <<vars, chainVars, prices>>

\* The prices of the settled transitions.  Without a table there are none,
\* and a table that does not match the root fails the sync.
PriceRow(t) == [id |-> t.id, h |-> t.h, bps |-> fee_free_yes_spot_price_bps(made[t.id].witness.new)]

NewPrices ==
    {PriceRow(walk.seen[k]) : k \in {i \in DOMAIN walk.seen :
        walk.seen[i].h # 0 /\ is_irreversible_transition(walk.best, walk.seen[i].h)}}

SyncRecord ==
    /\ walk.pc = "record"
    /\ prices' = IF walk.table = "good"
                 THEN prices \union {p \in NewPrices : \A q \in prices : q.id # p.id}
                 ELSE prices
    /\ walk' = Asleep
    /\ UNCHANGED <<vars, chainVars, row>>

\* A failed sync, and a backend or a process that stops at any time.
SyncEnds ==
    /\ walk # Asleep
    /\ walk' = Asleep
    /\ UNCHANGED <<vars, chainVars, row, prices>>

SyncNext ==
    \/ \E b \in InitialBundles : create_lmsr_pool(b)
    \/ \E w \in Wallets, kind \in Kinds, i \in Inputs : execute_trade(w, kind, i)
    \/ \E r \in AdjustReserves : adjust_lmsr_pool(r)
    \/ node_close_lmsr_pool
    \/ \E found \in Answers : quote_trade(found)
    \/ scan_lmsr_pool \/ scan_lmsr_pool_inner \/ scan_for_adjust
    \/ \E k \in 0 .. Len(chain) : Mine(k) \/ Reorg(k)
    \/ \E e \in Parsed : Announced(e)
    \/ SyncStart \/ FindSpender \/ ReadHeight \/ SyncPersist \/ SyncRecord \/ SyncEnds

SyncSpec == SyncInit /\ [][SyncNext]_allVars

-----------------------------------------------------------------------------
\* Types.
SyncTypeOK ==
    /\ TypeOK
    /\ made \in Seq(Transition) /\ Len(made) = txs
    /\ \A k \in DOMAIN chain : chain[k] \in 1 .. txs
    /\ height \in [1 .. txs -> 0 .. tip]
    /\ tip \in 0 .. settled /\ settled \in 0 .. MaxHeight
    /\ walk = Asleep \/ walk.pc \in {"bundle", "height", "persist", "record", "error"}
    /\ row.source \in {"announcement", "canonical"} /\ row.table \in Tables
    /\ row.s \in 0 .. SMaxIndex /\ row.last \in 0 .. txs

(***************************************************************************)
(* The price history is final.  Every recorded price is that of a           *)
(* transition that is on the chain, in the block it was recorded with, and  *)
(* stays there: a scan that reads the best height first and the heights of  *)
(* the transitions later, while blocks come and go, never records one that  *)
(* a reorganisation can still remove.                                       *)
(***************************************************************************)
RecordedPricesFinal ==
    \A p \in prices :
        /\ OnChain(p.id) /\ p.h > 0 /\ height[p.id] = p.h
        /\ p.bps = fee_free_yes_spot_price_bps(made[p.id].s)

(***************************************************************************)
(* A row whose state comes from a scan is one bundle: index, reserves and   *)
(* last transition belong together, whatever announcements, quotes, late    *)
(* syncs and adjustments wrote to it column by column.                      *)
(***************************************************************************)
CanonicalRowIsBundle ==
    /\ SyncTypeOK
    /\ (row.known /\ row.source = "canonical") =>
        BundleAt(row.last) = [s |-> row.s, reserves |-> row.reserves]

(***************************************************************************)
(* The row is this pool's.  Whatever the relays hold and whichever event is  *)
(* stored first, the parameters under this pool's id are the ones that its   *)
(* covenant was built from, and a sync can always tell.                      *)
(***************************************************************************)
RowIsThisPool == row.known => row.terms = OwnParams /\ LocatorFromRow(row.terms)

(***************************************************************************)
(* A walk fails only when the chain lost a block under it or the pool has   *)
(* made as many transitions as a walk visits bundles.                       *)
(***************************************************************************)
WalkErrorsExplained ==
    (walk # Asleep /\ walk.pc = "error") => walk.raced \/ walk.steps >= WalkLimit

(***************************************************************************)
(* A walk with a good table that completes has recorded every transition    *)
(* that was settled when it began, however the pool moved in the meantime.  *)
(* Without a good table there are no prices, and none is recorded.          *)
(***************************************************************************)
RecordsSettled ==
    (SyncRecord /\ walk.table = "good") =>
        \A k \in DOMAIN chain :
            LET n == chain[k]
            IN  height[n] \in 1 .. walk.best - 1 => \E p \in prices' : p.id = n

SyncIsComplete == [][RecordsSettled]_allVars
=============================================================================
