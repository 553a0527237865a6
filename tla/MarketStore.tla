------------------------------ MODULE MarketStore ------------------------------
(***************************************************************************)
(* How prediction markets enter the store and follow the chain              *)
(* (deadcat-store/src/store.rs, lib.rs sync_wallet, chain_adapter.rs,       *)
(* discovery/market.rs, discovery/service.rs).                              *)
(*                                                                         *)
(* An announcement makes a candidate, which expires unless its creation     *)
(* transaction becomes irreversible; then it is promoted to a market.       *)
(* sync_wallet may run several times at once.  It lists the candidates      *)
(* under the store's lock, looks them up on the chain without it, takes it  *)
(* again to promote and purge, and keeps it while the store's sync, one     *)
(* database transaction, asks the chain about every market.                 *)
(*                                                                         *)
(* A market on the chain is the list of its transitions; the outputs of one *)
(* transition are one bundle here (a partial cancellation, which replaces   *)
(* only the collateral, is a step to a new bundle).                         *)
(***************************************************************************)
EXTENDS Integers, Sequences, Functions, FiniteSets

CONSTANTS
    Creations,        \* creation transactions
    Markets,          \* market ids
    MarketOf,         \* creation -> the market it would create
    Outcomes,         \* the terminal states that occur
    Syncs,            \* sync_wallet calls that may overlap
    Ttl,              \* CANDIDATE_TTL_SECS, in units of the model's clock
    Irreversible,     \* LIQUID_IRREVERSIBLE_CONFIRMATIONS
    MaxTime, MaxHeight, MaxMoves, MaxCandidates    \* bounds

ASSUME StoreAssumption ==
    /\ MarketOf \in [Creations -> Markets] /\ "none" \notin Markets
    /\ Outcomes \subseteq {"ResolvedYes", "ResolvedNo", "Expired"}
    /\ Ttl \in Nat \ {0} /\ Irreversible = 2
    /\ {MaxTime, MaxHeight, MaxMoves, MaxCandidates} \subseteq Nat

States == {"Dormant", "Unresolved"} \union Outcomes

VARIABLES
    now,       \* the clock
    tip,       \* best block
    settled,   \* the highest best block there ever was
    block,     \* creation -> its block, 0 in the mempool, -1 not broadcast
    moves,     \* every transition ever made: [of, state, empty]
    path,      \* creation -> numbers of its transitions on the chain
    cands,     \* market_candidates: id -> row
    lastId,    \* the last id that AUTOINCREMENT gave
    rows,      \* markets: market id -> row, for those that are stored
    utxos,     \* utxos of markets: bundle -> [market, spent]
    calls      \* the sync_wallet calls

chainVars == <<now, tip, settled, block, moves, path>>
storeVars == <<cands, lastId, rows, utxos>>
vars == <<now, tip, settled, block, moves, path, cands, lastId, rows, utxos, calls>>

Idle == [pc |-> "idle"]

\* Steps within the store's sync, and all that are done with the lock.
Scanning == {"scan", "tag", "commit"}
Locked == {"promote"} \union Scanning

\* One call at a time holds the store's lock across its steps.
Free == \A s \in Syncs : calls[s].pc \notin Locked

\* Outputs: a bundle is named by its creation and the transition that made it,
\* 0 for the creation itself.
Bundle(c, n) == [of |-> c, n |-> n]
At(c) == IF path[c] = <<>> THEN [of |-> c, state |-> "Dormant", empty |-> FALSE]
         ELSE moves[path[c][Len(path[c])]]
Live(c) == Bundle(c, IF path[c] = <<>> THEN 0 ELSE path[c][Len(path[c])])
Exists(b) == block[b.of] >= 0 /\ (b.n = 0 \/ b.n \in Range(path[b.of]))

-----------------------------------------------------------------------------
(* The chain.                                                               *)

Broadcast(c) ==
    /\ block[c] = -1
    /\ \A d \in Creations : (d # c /\ MarketOf[d] = MarketOf[c]) => block[d] = -1
    /\ block' = [block EXCEPT ![c] = 0]
    /\ UNCHANGED <<now, tip, settled, moves, path, storeVars, calls>>

Mine(some) ==
    /\ tip < MaxHeight
    /\ tip' = tip + 1
    /\ settled' = IF tip + 1 > settled THEN tip + 1 ELSE settled
    /\ block' = [c \in Creations |-> IF c \in some THEN tip + 1 ELSE block[c]]
    /\ UNCHANGED <<now, moves, path, storeVars, calls>>

\* The last block is replaced unless it is settled; some of what it held is
\* gone and a conflicting transaction may take its place.
Reorg(gone) ==
    /\ tip > 0 /\ tip > settled - (Irreversible - 1)
    /\ tip' = tip - 1
    /\ block' = [c \in Creations |-> IF c \in gone THEN -1
                                     ELSE IF block[c] = tip THEN 0 ELSE block[c]]
    /\ UNCHANGED <<now, settled, moves, path, storeVars, calls>>

irreversible_confirmation_at(best, h) ==
    h > 0 /\ best >= h /\ (best - h) + 1 >= Irreversible

\* A transition of a market, by whoever made it.  The store looks at a market's
\* transitions only after its creation is irreversible, so they begin there;
\* several in a row are one step, for the store sees only where they lead.
Successors(at) ==
    IF at.empty THEN {}
    ELSE IF at.state \in Outcomes THEN [state : {at.state}, empty : BOOLEAN]
    ELSE [state : States, empty : {FALSE}] \union [state : Outcomes, empty : {TRUE}]

\* The calls remember what was on the chain since they began to scan.
Witness(b) ==
    calls' = [s \in Syncs |->
        IF calls[s].pc \in Scanning
        THEN [calls[s] EXCEPT !.seen = @ \union {b}] ELSE calls[s]]

Move(c, to) ==
    /\ tip = settled /\ irreversible_confirmation_at(tip, block[c])
    /\ Len(moves) < MaxMoves
    /\ to \in Successors(At(c))
    /\ moves' = Append(moves, [of |-> c, state |-> to.state, empty |-> to.empty])
    /\ path' = [path EXCEPT ![c] = Append(path[c], Len(moves) + 1)]
    /\ Witness(Bundle(c, Len(moves) + 1))
    /\ UNCHANGED <<now, tip, settled, block, storeVars>>

\* The last transition of a market is replaced before it is irreversible.
Drop(c) ==
    /\ path[c] # <<>>
    /\ path' = [path EXCEPT ![c] = SubSeq(path[c], 1, Len(path[c]) - 1)]
    /\ Witness(Bundle(c, IF Len(path[c]) = 1 THEN 0 ELSE path[c][Len(path[c]) - 1]))
    /\ UNCHANGED <<now, tip, settled, block, moves, storeVars>>

Tick ==
    /\ now < MaxTime
    /\ now' = now + 1
    /\ UNCHANGED <<tip, settled, block, moves, path, storeVars, calls>>

-----------------------------------------------------------------------------
(* Announcements and candidates.                                            *)

\* An announcement names a creation and openings of its outputs.
validate_market_announcement(a) == a.opens

\* A candidate is known by its market, creation and openings; a creation has
\* one pair of openings that open its outputs.
Existing(c) == {i \in DOMAIN cands : cands[i].creation = c}

NewCandidate(c) == [creation |-> c, expires |-> now + Ttl, promoted |-> 0, entropy |-> FALSE]

\* Faulty: an id is used again once its candidate is gone.
LowestFreeId == CHOOSE i \in 1 .. MaxCandidates + 1 :
                    /\ i \notin DOMAIN cands
                    /\ \A j \in 1 .. i - 1 : j \in DOMAIN cands
NextId == lastId + 1

Refreshed(c) ==
    [i \in DOMAIN cands |->
        IF i \in Existing(c) /\ cands[i].promoted = 0
        THEN [cands[i] EXCEPT !.expires = now + Ttl] ELSE cands[i]]

ingest_prediction_market_candidate(c) ==
    IF Existing(c) # {}
    THEN cands' = Refreshed(c) /\ UNCHANGED lastId
    ELSE /\ lastId < MaxCandidates
         /\ cands' = [i \in DOMAIN cands \union {NextId} |->
                        IF i = NextId THEN NewCandidate(c) ELSE cands[i]]
         /\ lastId' = lastId + 1

\* The subscription loop, or fetch_markets, brings an announcement.
MarketDiscovered(a) ==
    /\ Free
    /\ validate_market_announcement(a)
    /\ ingest_prediction_market_candidate(a.creation)
    /\ UNCHANGED <<chainVars, rows, utxos, calls>>

-----------------------------------------------------------------------------
(* sync_wallet.                                                             *)

\* list_unpromoted_prediction_market_candidates, with those that expired.
SyncList(s) ==
    /\ calls[s] = Idle /\ Free
    /\ calls' = [calls EXCEPT ![s] =
          [pc |-> "height", now |-> now,
           todo |-> {[id |-> i, creation |-> cands[i].creation] :
                       i \in {j \in DOMAIN cands : cands[j].promoted = 0}}]]
    /\ UNCHANGED <<chainVars, storeVars>>

\* The best height is read once; without it nothing is promoted.
SyncHeight(s) ==
    /\ calls[s].pc = "height"
    /\ \E fails \in BOOLEAN :
         calls' = [calls EXCEPT ![s] =
            [pc |-> "check", now |-> calls[s].now, best |-> tip, ok |-> {},
             todo |-> IF fails THEN {} ELSE calls[s].todo, skipped |-> fails]]
    /\ UNCHANGED <<chainVars, storeVars>>

\* One candidate is looked up; a failing query skips it.
SyncCheck(s) ==
    /\ calls[s].pc = "check"
    /\ \E k \in calls[s].todo :
         LET h  == block[k.creation]
             ok == IF irreversible_confirmation_at(calls[s].best, h)
                   THEN {[id |-> k.id, height |-> h]} ELSE {}
         IN  \/ calls' = [calls EXCEPT ![s].todo = @ \ {k}, ![s].ok = @ \union ok]
             \/ calls' = [calls EXCEPT ![s].todo = @ \ {k}, ![s].skipped = TRUE]
    /\ UNCHANGED <<chainVars, storeVars>>

-----------------------------------------------------------------------------
(* With the lock: promote, purge, and the store's sync.                     *)

Promotable(p) ==
    p.id \in DOMAIN cands /\ MarketOf[cands[p.id].creation] \notin DOMAIN rows

\* The other candidates of the market are deleted.
Rivals(p) == {i \in DOMAIN cands :
    i # p.id /\ MarketOf[cands[i].creation] = MarketOf[cands[p.id].creation]}

\* A candidate that is gone, and a market that already has a candidate, are
\* errors, logged by the caller, or nothing to do.
promote_prediction_market_candidate(p) ==
    IF Promotable(p)
    THEN /\ cands' = [i \in DOMAIN cands \ Rivals(p) |->
                        IF i = p.id THEN [cands[i] EXCEPT !.expires = 0, !.promoted = p.height]
                        ELSE cands[i]]
         /\ rows' = [m \in DOMAIN rows \union {MarketOf[cands[p.id].creation]} |->
                        IF m \in DOMAIN rows THEN rows[m]
                        ELSE [cand |-> p.id, state |-> "Dormant"]]
    ELSE UNCHANGED <<cands, rows>>

\* The lock is taken when all candidates are looked up, and kept.
HasLock(s) ==
    \/ calls[s].pc = "check" /\ calls[s].todo = {} /\ Free
    \/ calls[s].pc = "promote"

\* Each promotion is a database transaction of its own.
SyncPromote(s) ==
    /\ HasLock(s)
    /\ \E p \in calls[s].ok :
         /\ promote_prediction_market_candidate(p)
         /\ calls' = [calls EXCEPT ![s].pc = "promote", ![s].ok = @ \ {p}]
    /\ UNCHANGED <<chainVars, lastId, utxos>>

\* Faulty: the purge does not spare what was promoted.
PurgesPromoted(cs, time) ==
    [i \in {j \in DOMAIN cs : cs[j].expires > time} |-> cs[i]]
purge_expired_prediction_market_candidates(cs, time) ==
    [i \in {j \in DOMAIN cs : cs[j].promoted > 0 \/ cs[j].expires > time} |-> cs[i]]

\* Faulty: the purge may come before the promotions.
AnyTime(s) == TRUE
AllPromoted(s) == calls[s].ok = {}

\* Faulty: a market with outputs that count as unspent is not scanned again.
SkipsUnspent(rs) == {m \in DOMAIN rs :
                        \A b \in DOMAIN utxos : utxos[b].market = m => utxos[b].spent}
MarketsToScan(rs) == DOMAIN rs

\* The purge; the store's sync begins.
SyncPurge(s) ==
    /\ HasLock(s) /\ AllPromoted(s)
    /\ cands' = purge_expired_prediction_market_candidates(cands, calls[s].now)
    /\ calls' = [calls EXCEPT ![s] =
          [pc |-> "scan", todo |-> MarketsToScan(rows), rows |-> rows,
           cands |-> cands', utxos |-> utxos,
           seen |-> {Live(c) : c \in Creations}]]
    /\ UNCHANGED <<chainVars, lastId, rows, utxos>>

\* sync_market_utxos, one market: the canonical scan from its anchor.  What it
\* returns was on the chain when it returned.
SyncScan(s) ==
    /\ calls[s].pc = "scan"
    /\ \E m \in calls[s].todo :
         LET c == calls[s].cands[calls[s].rows[m].cand].creation
         IN  calls' = [calls EXCEPT ![s] =
                [pc |-> "tag", market |-> m, bundle |-> Live(c), scan |-> At(c),
                 todo |-> @.todo \ {m}, rows |-> @.rows, cands |-> @.cands,
                 utxos |-> @.utxos, seen |-> @.seen]]
    /\ UNCHANGED <<chainVars, storeVars>>

\* Faulty: the outputs of earlier transitions keep their tag.
KeepsTags(us, m) == us
clear_market_utxo_tags(us, m) ==
    [b \in DOMAIN us |-> IF us[b].market = m THEN [us[b] EXCEPT !.market = "none"] ELSE us[b]]

\* insert_chain_utxo or an update that makes the row unspent and tagged.
upsert_market_chain_utxo(us, b, m) ==
    [x \in DOMAIN us \union {b} |-> IF x = b THEN [market |-> m, spent |-> FALSE] ELSE us[x]]

update_market_state_from_scan(row, scan) == [row EXCEPT !.state = scan.state]

\* The creation transaction issues both tokens, so that it has both entropies.
try_extract_issuance_entropy(cs, i) == [cs EXCEPT ![i].entropy = TRUE]

\* The outputs of the scan are looked up; one that was spent meanwhile fails
\* the sync.
SyncTag(s) ==
    LET w == calls[s]
    IN  /\ w.pc = "tag"
        /\ ~w.scan.empty => w.bundle = Live(w.bundle.of)
        /\ calls' = [calls EXCEPT ![s] =
              [pc |-> "scan", todo |-> w.todo, seen |-> w.seen,
               cands |-> try_extract_issuance_entropy(w.cands, w.rows[w.market].cand),
               rows |-> [w.rows EXCEPT ![w.market] = update_market_state_from_scan(@, w.scan)],
               utxos |-> LET cleared == clear_market_utxo_tags(w.utxos, w.market)
                         IN  IF w.scan.empty THEN cleared
                             ELSE upsert_market_chain_utxo(cleared, w.bundle, w.market)]]
        /\ UNCHANGED <<chainVars, storeVars>>

\* sync_spent_utxos: rows that the chain no longer has count as unspent.
sync_spent_utxos(us) ==
    [b \in DOMAIN us |-> IF Exists(b) /\ b # Live(b.of) THEN [us[b] EXCEPT !.spent = TRUE]
                         ELSE us[b]]

SyncSpent(s) ==
    /\ calls[s].pc = "scan" /\ calls[s].todo = {}
    /\ calls' = [calls EXCEPT ![s].pc = "commit", ![s].utxos = sync_spent_utxos(@)]
    /\ UNCHANGED <<chainVars, storeVars>>

SyncCommit(s) ==
    /\ calls[s].pc = "commit"
    /\ rows' = calls[s].rows
    /\ cands' = calls[s].cands
    /\ utxos' = calls[s].utxos
    /\ calls' = [calls EXCEPT ![s] = Idle]
    /\ UNCHANGED <<chainVars, lastId>>

\* A query fails, a scan finds no bundle, or the process stops: the database
\* transaction is rolled back.
SyncFails(s) ==
    /\ calls[s] # Idle
    /\ calls' = [calls EXCEPT ![s] = Idle]
    /\ UNCHANGED <<chainVars, storeVars>>

-----------------------------------------------------------------------------
Empty == [x \in {} |-> 0]

Init ==
    /\ now = 0 /\ tip = 0 /\ settled = 0
    /\ block = [c \in Creations |-> -1]
    /\ moves = <<>>
    /\ path = [c \in Creations |-> <<>>]
    /\ cands = Empty /\ lastId = 0
    /\ rows = Empty /\ utxos = Empty
    /\ calls = [s \in Syncs |-> Idle]

Next ==
    \/ \E c \in Creations : \/ Broadcast(c)
                            \/ \E to \in Successors(At(c)) : Move(c, to)
                            \/ Drop(c)
    \/ \E a \in [creation : Creations, opens : BOOLEAN] : MarketDiscovered(a)
    \/ \E some \in SUBSET {c \in Creations : block[c] = 0} : Mine(some)
    \/ \E gone \in SUBSET {c \in Creations : block[c] = tip} : Reorg(gone)
    \/ Tick
    \/ \E s \in Syncs :
         \/ SyncList(s) \/ SyncHeight(s) \/ SyncCheck(s)
         \/ SyncPromote(s) \/ SyncPurge(s)
         \/ SyncScan(s) \/ SyncTag(s) \/ SyncSpent(s) \/ SyncCommit(s) \/ SyncFails(s)

Spec == Init /\ [][Next]_vars

-----------------------------------------------------------------------------
\* Types, and: a candidate expires exactly as long as it is not promoted.
TypeOK ==
    /\ now \in 0 .. MaxTime /\ tip \in 0 .. settled /\ settled \in 0 .. MaxHeight
    /\ block \in [Creations -> -1 .. tip]
    /\ DOMAIN cands \subseteq 1 .. lastId
    /\ \A i \in DOMAIN cands : (cands[i].expires = 0) <=> (cands[i].promoted > 0)
    /\ DOMAIN rows \subseteq Markets
    /\ \A m \in DOMAIN rows : rows[m].state \in States

(***************************************************************************)
(* A market keeps its candidate: expiry, purges and repeated announcements  *)
(* never take away the row that the market's parameters are read from.      *)
(***************************************************************************)
MarketKeepsCandidate ==
    /\ TypeOK
    /\ \A m \in DOMAIN rows :
        /\ rows[m].cand \in DOMAIN cands
        /\ cands[rows[m].cand].promoted > 0

(***************************************************************************)
(* A stored market is on the chain for good: its creation is in the block   *)
(* that was recorded, although the candidates were looked up without the    *)
(* lock, some may have gone or been promoted since, and blocks come and go. *)
(***************************************************************************)
PromotedIsIrreversible ==
    \A i \in DOMAIN cands : cands[i].promoted > 0 =>
        /\ block[cands[i].creation] = cands[i].promoted
        /\ MarketOf[cands[i].creation] \in DOMAIN rows

(***************************************************************************)
(* A sync whose queries succeed never purges a candidate that is already    *)
(* irreversible, however long ago it expired.                               *)
(***************************************************************************)
PurgeSparesConfirmed(s) ==
    (SyncPurge(s) /\ ~calls[s].skipped) =>
        \A i \in DOMAIN cands \ DOMAIN cands' :
            ~irreversible_confirmation_at(calls[s].best, block[cands[i].creation])

PurgesSpareConfirmed == \A s \in Syncs : PurgeSparesConfirmed(s)

ConfirmedNotPurged == [][PurgesSpareConfirmed]_vars

(***************************************************************************)
(* The outputs that the store offers for a market are those of its state:   *)
(* at most one bundle is tagged and unspent, and it is of the row's state,  *)
(* whatever transitions were dropped or made between two syncs.             *)
(***************************************************************************)
StateOf(b) == IF b.n = 0 THEN "Dormant" ELSE moves[b.n].state

TagsMatchState ==
    \A m \in DOMAIN rows :
        LET tagged == {b \in DOMAIN utxos : utxos[b].market = m /\ ~utxos[b].spent}
        IN  /\ Cardinality(tagged) <= 1
            /\ \A b \in tagged : StateOf(b) = rows[m].state

(***************************************************************************)
(* What a sync commits was true while it ran: the state of every market is  *)
(* one that the chain was in since the sync began.                          *)
(***************************************************************************)
CommitIsCurrent(s) ==
    SyncCommit(s) =>
        \A m \in DOMAIN rows' :
            \E b \in calls[s].seen : /\ b.of = cands[rows'[m].cand].creation
                                    /\ StateOf(b) = rows'[m].state

CommitsAreCurrent == \A s \in Syncs : CommitIsCurrent(s)

SyncedFromChain == [][CommitsAreCurrent]_vars
=============================================================================
