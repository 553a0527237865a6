--------------------------- MODULE PoolAnnouncement ---------------------------
(***************************************************************************)
(* Announcements of LMSR pools on the relays and the identity they claim    *)
(* (discovery/pool.rs, lmsr_pool/api.rs, lmsr_pool/identity.rs,             *)
(* trade/convert.rs).                                                       *)
(*                                                                         *)
(* A pool's id is a hash over the network, the parameters and the creation  *)
(* anchors; hashes are free constructors.  Text that does not parse is left *)
(* out, what parses and is wrong is not.                                    *)
(***************************************************************************)
EXTENDS LmsrTable, Functions

CONSTANT Network      \* the node's network

ANNOUNCEMENT_VERSION == 2
SCHEMA == "V2"

\* The parameters that a pool is built from; the tokens name the market.
OwnParams == [tokens |-> "own", root |-> lmsr_table_root, fee |-> FeeBps, sMax |-> SMaxIndex]

\* LmsrPoolParams::validate on announced parameters.
ValidParams(p) == p.fee \in 0 .. FEE_DENOM - 1 /\ p.sMax \in TableIndex

derive_lmsr_market_id(params) == <<"market", params.tokens>>

validate_initial_reserve_outpoints(outpoints, creation) ==
    /\ \A i \in DOMAIN outpoints : outpoints[i].txid = creation
    /\ IsInjective(outpoints)

\* Faulty: the id does not commit to the parameters.
IdWithoutParams(network, params, creation, outpoints) ==
    [network |-> network, params |-> OwnParams, creation |-> creation, outpoints |-> outpoints]
derive_lmsr_pool_id(network, params, creation, outpoints) ==
    [network |-> network, params |-> params, creation |-> creation, outpoints |-> outpoints]

\* The creation transaction holds the reserves in its first outputs.
Outpoints(creation) == [i \in 1 .. 3 |-> [txid |-> creation, vout |-> i - 1]]

(***************************************************************************)
(* build_pool_announcement_from_snapshot: the announcement of a pool that   *)
(* stands at index s, with the table checked against the root.              *)
(***************************************************************************)
build_pool_announcement_from_snapshot(creation, s, r) ==
    [version |-> ANNOUNCEMENT_VERSION, params |-> OwnParams,
     market |-> derive_lmsr_market_id(OwnParams),
     reserves |-> r, creation |-> creation, outpoints |-> Outpoints(creation),
     id |-> derive_lmsr_pool_id(Network, OwnParams, creation, Outpoints(creation)),
     s |-> s, schema |-> SCHEMA, table |-> "good"]

\* What building and parsing an event both require of the content.
ContentOk(a, network) ==
    /\ a.version = ANNOUNCEMENT_VERSION
    /\ a.market = derive_lmsr_market_id(a.params)
    /\ Len(a.outpoints) = 3
    /\ validate_initial_reserve_outpoints(a.outpoints, a.creation)
    /\ a.schema = SCHEMA
    /\ ValidParams(a.params)
    /\ a.id = derive_lmsr_pool_id(network, a.params, a.creation, a.outpoints)

\* An event: the content, the network tag and the identifier tag.
build_pool_event(a, network) == [content |-> a, network |-> network, dtag |-> a.id]

parse_pool_event(e) ==
    /\ ContentOk(e.content, Network)
    /\ e.network = Network
    /\ e.dtag = e.content.id

\* parse_discovered_lmsr_pool, before a discovered pool is stored or traded
\* with: the same identity once more and the index in range.
parse_discovered_lmsr_pool(a) ==
    /\ ContentOk(a, Network)
    /\ a.s <= a.params.sMax

\* LmsrPoolLocator::try_from has the id from the announcement unchecked;
\* scan_lmsr_pool derives it again from the locator and refuses another.
LocatorOk(a) ==
    /\ a.version = ANNOUNCEMENT_VERSION /\ a.schema = SCHEMA
    /\ ValidParams(a.params) /\ a.s <= a.params.sMax
    /\ validate_initial_reserve_outpoints(a.outpoints, a.creation)
    /\ a.market = derive_lmsr_market_id(a.params)
    /\ a.id = derive_lmsr_pool_id(Network, a.params, a.creation, a.outpoints)

(***************************************************************************)
(* dedup_latest_pools_by_id: of the events of one pool the latest stays.    *)
(* Times are left out, so any of them may be the latest.                    *)
(***************************************************************************)
Deduplicated(events) ==
    {s \in SUBSET events :
        /\ {e.content.id : e \in s} = {e.content.id : e \in events}
        /\ \A e, f \in s : e.content.id = f.content.id => e = f}
=============================================================================
