------------------------------- MODULE LmsrPool -------------------------------
(***************************************************************************)
(* One LMSR pool on the ledger and the wallets that trade with it           *)
(* (contract/lmsr_pool.simf, lmsr_pool/assembly.rs, trade/pset.rs, sdk.rs). *)
(*                                                                         *)
(* The pool is a bundle of three explicit outputs (YES, NO, collateral)     *)
(* under one script, which commits to the state index.  Every transition    *)
(* spends the bundle and creates the next one; bundle names the live one by *)
(* the number of the transaction that made it, 0 for the bootstrap, and a   *)
(* transaction is valid only while the bundle it spends is live.  Wallets   *)
(* read a bundle, build a transaction from it and broadcast it later.       *)
(***************************************************************************)
EXTENDS LmsrTable

CONSTANTS
    Wallets,            \* nodes that trade with the pool
    Admin,              \* the wallet that derives the pool's cosigner key
    MinRYes, MinRNo, MinRCollateral,    \* reserve floors
    InitialBundles,     \* what a creation request may ask for
    AdjustReserves,     \* reserves an adjustment may ask for
    Inputs,             \* amounts a trader may spend (ExactInput)
    NetworkFee,         \* fee_amount of an adjustment
    CollateralIsPolicy, \* the collateral is the asset that pays fees
    MaxTxs              \* bound: transitions explored

ReserveSet == [yes : Nat, no : Nat, collateral : Nat]

\* CreateLmsrPoolRequest: besides the bundle, whether the pool's assets and
\* payout are those of the market, and the table that comes with it.
Requests == [s : TableIndex, reserves : ReserveSet, ofMarket : BOOLEAN,
             table : {"good", "wrong"}]

ASSUME PoolAssumption ==
    /\ MinRYes \in Nat \ {0} /\ MinRNo \in Nat \ {0} /\ MinRCollateral \in Nat \ {0}
    /\ InitialBundles \subseteq Requests
    /\ AdjustReserves \subseteq ReserveSet
    /\ Inputs \subseteq Nat
    /\ NetworkFee \in Nat
    /\ MaxTxs \in Nat

VARIABLES
    created,      \* the bootstrap transaction is on the ledger
    genesis,      \* index and reserves of the bootstrap bundle
    sIndex,       \* state index committed by the live bundle's script
    reserves,     \* amounts of the live bundle
    bundle,       \* the transaction that made the live bundle
    txs,          \* transitions broadcast so far
    pending       \* wallet -> what it is about to broadcast

poolVars == <<created, genesis, sIndex, reserves, bundle, txs>>
vars == <<created, genesis, sIndex, reserves, bundle, txs, pending>>

Idle == [phase |-> "idle"]

\* Keys, scripts and signatures are free constructors.  A wallet derives the
\* administrator's key from its own seed and the pool's index; the script of a
\* bundle commits to the state index, the signature to all that it is about.
derive_pool_admin_keypair(w) == <<"admin", w>>
cosigner_pubkey == derive_pool_admin_keypair(Admin)

script_pubkey(s) == <<"lmsr", s>>

compute_lmsr_admin_signature(key, s, in, out) == <<key, script_pubkey(s), in, out>>
NoSignature == <<>>
Signatures ==
    {NoSignature} \union
    {derive_pool_admin_keypair(w) : w \in Wallets} \X {script_pubkey(s) : s \in TableIndex}
                                                   \X ReserveSet \X ReserveSet

\* What a wallet has built (LmsrPoolSwapLeg): the bundle it read, the witness
\* and the reserves it wants to create.
Legs == [phase : {"quoted", "built"}, path : {"swap", "admin"}, kind : Kinds,
         bundle : Nat, old : TableIndex, new : TableIndex,
         fOld : TableValues, fNew : TableValues,
         oldProof : TableProofs, newProof : TableProofs,
         deltaIn : Nat, deltaOut : Nat, signature : Signatures,
         was : ReserveSet, next : ReserveSet, balanced : BOOLEAN]

-----------------------------------------------------------------------------
(* The covenant.  "in" and "out" are what the program introspects: the      *)
(* index that the script commits to and the explicit amounts.               *)

ensure_reserve_floors(out) ==
    /\ MinRYes <= out.yes
    /\ MinRNo <= out.no
    /\ MinRCollateral <= out.collateral

\* The amounts move as the trade kind says, by exactly the lots traded.
SwapMoves(leg, in, out, lots) ==
    \/ /\ leg.kind = "BuyYes"  /\ leg.deltaOut = lots
       /\ out.yes + leg.deltaOut = in.yes /\ out.no = in.no
       /\ in.collateral + leg.deltaIn = out.collateral
    \/ /\ leg.kind = "SellYes" /\ leg.deltaIn = lots
       /\ in.yes + leg.deltaIn = out.yes /\ out.no = in.no
       /\ out.collateral + leg.deltaOut = in.collateral
    \/ /\ leg.kind = "BuyNo"   /\ leg.deltaOut = lots
       /\ out.no + leg.deltaOut = in.no /\ out.yes = in.yes
       /\ in.collateral + leg.deltaIn = out.collateral
    \/ /\ leg.kind = "SellNo"  /\ leg.deltaIn = lots
       /\ in.no + leg.deltaIn = out.no /\ out.yes = in.yes
       /\ out.collateral + leg.deltaOut = in.collateral

\* The fee inequalities, on 128-bit products.
FeeHolds(leg, base) ==
    IF is_buy(leg.kind)
    THEN leg.deltaIn * (FEE_DENOM - FeeBps) >= base * FEE_DENOM
    ELSE leg.deltaOut * FEE_DENOM <= base * (FEE_DENOM - FeeBps)

SwapPath(leg, in, out) ==
    LET lots == Gap(leg.new, leg.old) * QStepLots
        base == base_notional(is_buy(leg.kind), lots * HalfPayout, leg.fOld, leg.fNew)
    IN  /\ validate_direction(leg.kind, leg.old, leg.new)
        /\ leg.deltaIn > 0 /\ leg.deltaOut > 0
        /\ lots > 0 /\ lots * HalfPayout <= U64Max
        /\ base \in 0 .. U64Max
        /\ FeeHolds(leg, base)
        /\ SwapMoves(leg, in, out, lots)

\* The admin path: the index stays, YES and NO move together, and the
\* signature is the cosigner's over these very amounts.
verify_admin_signature(leg, in, out) ==
    leg.signature = compute_lmsr_admin_signature(cosigner_pubkey, leg.new, in, out)

\* Faulty: one side of the tokens moves alone.
AdminUnpaired(leg, in, out) ==
    leg.old = leg.new /\ verify_admin_signature(leg, in, out)

AdminPath(leg, in, out) ==
    /\ leg.old = leg.new
    /\ verify_admin_signature(leg, in, out)
    /\ out.yes - in.yes = out.no - in.no

lmsr_primary_main(leg, s, in, out) ==
    /\ leg.old <= SMaxIndex /\ leg.new <= SMaxIndex
    /\ CovenantOpens(leg.old, leg.fOld, leg.oldProof)
    /\ CovenantOpens(leg.new, leg.fNew, leg.newProof)
    /\ script_pubkey(leg.old) = script_pubkey(s)
    /\ ensure_reserve_floors(out)
    /\ \/ leg.path = "swap"  /\ SwapPath(leg, in, out)
       \/ leg.path = "admin" /\ AdminPath(leg, in, out)

-----------------------------------------------------------------------------
(* The builders.                                                            *)

\* apply_delta in build_trade_pset: the reserves a swap leaves.
SwapReserves(leg, in) ==
    [yes |-> CASE leg.kind = "BuyYes"  -> in.yes - leg.deltaOut
               [] leg.kind = "SellYes" -> in.yes + leg.deltaIn
               [] OTHER -> in.yes,
     no  |-> CASE leg.kind = "BuyNo"   -> in.no - leg.deltaOut
               [] leg.kind = "SellNo"  -> in.no + leg.deltaIn
               [] OTHER -> in.no,
     collateral |-> IF is_buy(leg.kind) THEN in.collateral + leg.deltaIn
                                        ELSE in.collateral - leg.deltaOut]

Fits(r) == /\ r.yes \in 0 .. U64Max
           /\ r.no \in 0 .. U64Max
           /\ r.collateral \in 0 .. U64Max

\* validate_lmsr_table_membership and the index check of build_trade_pset.
SwapBuilds(leg) ==
    /\ leg.new # leg.old
    /\ verify_lmsr_table_proof(leg.old, leg.fOld, leg.oldProof)
    /\ verify_lmsr_table_proof(leg.new, leg.fNew, leg.newProof)
    /\ Fits(SwapReserves(leg, leg.was))

(***************************************************************************)
(* The amounts of an adjustment.  The wallet adds what is needed, what its  *)
(* inputs exceed that by returns as change; what the reserves lose returns  *)
(* to the wallet, less a network fee that it can pay; the ledger accepts    *)
(* equal sums of every asset only.                                          *)
(***************************************************************************)
Excess(a, b) == Max({0, a - b})

FeeInCollateral == IF CollateralIsPolicy THEN NetworkFee ELSE 0
FeeInPolicy == NetworkFee - FeeInCollateral

fee_absorbed_by_collateral_surplus(was, next) ==
    CollateralIsPolicy /\ Excess(was.collateral, next.collateral) >= NetworkFee

collateral_extra_needed(was, next) ==
    IF next.collateral > was.collateral
    THEN next.collateral - was.collateral + FeeInCollateral
    ELSE IF CollateralIsPolicy /\ ~fee_absorbed_by_collateral_surplus(was, next)
         THEN NetworkFee - Excess(was.collateral, next.collateral)
    ELSE 0

wallet_needed_per_asset(was, next) ==
    [yes |-> Excess(next.yes, was.yes), no |-> Excess(next.no, was.no),
     collateral |-> collateral_extra_needed(was, next), policy |-> FeeInPolicy]

ReserveSurplus(was, next) ==
    [yes |-> Excess(was.yes, next.yes), no |-> Excess(was.no, next.no),
     collateral |-> Excess(was.collateral, next.collateral)
        - (IF fee_absorbed_by_collateral_surplus(was, next) THEN NetworkFee ELSE 0)]

AdjustBalanced(was, next) ==
    LET add  == wallet_needed_per_asset(was, next)
        back == ReserveSurplus(was, next)
    IN  /\ was.yes + add.yes = next.yes + back.yes
        /\ was.no + add.no = next.no + back.no
        /\ was.collateral + add.collateral = next.collateral + back.collateral + FeeInCollateral
        /\ add.policy = FeeInPolicy

\* attach_lmsr_pool_witnesses, in a build that does not run the program: the
\* inputs are under the script of the index that the leg moves from.
attach_lmsr_pool_witnesses(leg) == script_pubkey(leg.old) = script_pubkey(sIndex)

-----------------------------------------------------------------------------
(* Creating a pool.                                                         *)

validate_create_lmsr_pool_request(b) ==
    /\ b.ofMarket
    /\ b.s <= SMaxIndex
    /\ b.table = "good"

\* What is selected from the wallet, asset by asset, and what the inputs leave
\* as change; a negative amount is refused.
BootstrapNeeded(b) ==
    [yes |-> b.reserves.yes, no |-> b.reserves.no,
     collateral |-> b.reserves.collateral + FeeInCollateral, policy |-> FeeInPolicy]

build_lmsr_bootstrap_pset(b, got) ==
    [yes |-> got.yes - b.reserves.yes, no |-> got.no - b.reserves.no,
     collateral |-> got.collateral - (b.reserves.collateral + FeeInCollateral),
     policy |-> got.policy - FeeInPolicy]

BootstrapFunded(b, got) ==
    LET change == build_lmsr_bootstrap_pset(b, got)
    IN  \A asset \in DOMAIN change : change[asset] >= 0

-----------------------------------------------------------------------------
Init ==
    /\ created = FALSE
    /\ sIndex = 0
    /\ reserves = [yes |-> 0, no |-> 0, collateral |-> 0]
    /\ genesis = [s |-> sIndex, reserves |-> reserves]
    /\ bundle = 0
    /\ txs = 0
    /\ pending = [w \in Wallets |-> Idle]

(***************************************************************************)
(* create_lmsr_pool_bootstrap.  The request is validated, not its reserves: *)
(* the floors are the covenant's and bind from the first transition on.     *)
(***************************************************************************)
create_lmsr_pool_bootstrap(b) ==
    /\ ~created
    /\ validate_create_lmsr_pool_request(b)
    /\ BootstrapNeeded(b).collateral <= U64Max
    /\ BootstrapFunded(b, BootstrapNeeded(b))
    /\ created' = TRUE
    /\ genesis' = [s |-> b.s, reserves |-> b.reserves]
    /\ sIndex' = b.s
    /\ reserves' = b.reserves
    /\ UNCHANGED <<bundle, txs, pending>>

\* The quotes a wallet can get, by kind, index and input.
Quotes ==
    [kind \in Kinds |-> [s \in 0 .. SMaxIndex |-> [i \in Inputs |-> quote_exact_input(kind, s, i)]]]

\* The leg of the router for an exact input, from the bundle the wallet read.
SwapLeg(w, q) ==
    [phase |-> "quoted", path |-> "swap", kind |-> q.kind, bundle |-> bundle,
     old |-> q.old, new |-> q.new, fOld |-> Table[q.old], fNew |-> Table[q.new],
     oldProof |-> proof_at(q.old), newProof |-> proof_at(q.new),
     deltaIn  |-> IF is_buy(q.kind) THEN q.collateral ELSE q.lots,
     deltaOut |-> IF is_buy(q.kind) THEN q.lots ELSE q.collateral,
     signature |-> NoSignature, was |-> reserves, next |-> reserves, balanced |-> TRUE]

\* A wallet scans the pool and quotes a trade.
QuoteSwap(w, kind, input) ==
    /\ created /\ pending[w] = Idle
    /\ LET q == Quotes[kind][sIndex][input]
       IN  /\ q.tag = "ok"
           /\ LET leg == SwapLeg(w, q.quote)
              IN  leg.deltaOut > 0 /\ pending' = [pending EXCEPT ![w] = leg]
    /\ UNCHANGED poolVars

\* The reserve outputs that the leg spends are still there, as they were.
validate_live_lmsr_reserve_anchors(leg) == leg.bundle = bundle /\ leg.was = reserves

\* execute_trade_plan up to the signed transaction: the anchors must still be
\* live and the transaction must build.
Built(leg) == [leg EXCEPT !.phase = "built", !.next = SwapReserves(leg, leg.was)]

BuildSwap(w) ==
    LET leg == pending[w]
    IN  /\ leg # Idle /\ leg.phase = "quoted"
        /\ validate_live_lmsr_reserve_anchors(leg)
        /\ SwapBuilds(leg)
        /\ attach_lmsr_pool_witnesses(leg)
        /\ pending' = [pending EXCEPT ![w] = Built(leg)]
        /\ UNCHANGED poolVars

\* adjust_lmsr_pool up to the signed transaction.  It takes the caller's
\* bundle and does not look whether it is still live.
AdjustLeg(w, next) ==
    [phase |-> "built", path |-> "admin", kind |-> "BuyYes", bundle |-> bundle,
     old |-> sIndex, new |-> sIndex, fOld |-> Table[sIndex], fNew |-> Table[sIndex],
     oldProof |-> proof_at(sIndex), newProof |-> proof_at(sIndex),
     deltaIn |-> 0, deltaOut |-> 0, was |-> reserves, next |-> next,
     signature |-> compute_lmsr_admin_signature(derive_pool_admin_keypair(w), sIndex,
                                                reserves, next),
     balanced |-> AdjustBalanced(reserves, next)]

BuildAdjust(w, next) ==
    /\ created /\ pending[w] = Idle
    /\ derive_pool_admin_keypair(w) = cosigner_pubkey
    /\ ensure_reserve_floors(next)
    /\ attach_lmsr_pool_witnesses(AdjustLeg(w, next))
    /\ pending' = [pending EXCEPT ![w] = AdjustLeg(w, next)]
    /\ UNCHANGED poolVars

\* close_lmsr_pool is an adjustment to the floors.
FloorReserves == [yes |-> MinRYes, no |-> MinRNo, collateral |-> MinRCollateral]
close_lmsr_pool(w) == BuildAdjust(w, FloorReserves)

\* The ledger takes a transaction whose inputs are unspent, whose amounts
\* balance and that the covenant accepts; it makes the next bundle.
Accepts(leg) ==
    /\ leg.bundle = bundle
    /\ leg.balanced
    /\ lmsr_primary_main(leg, sIndex, reserves, leg.next)

Lands(leg) ==
    /\ txs < MaxTxs
    /\ Accepts(leg)
    /\ sIndex' = leg.new
    /\ reserves' = leg.next
    /\ bundle' = txs + 1
    /\ txs' = txs + 1
    /\ UNCHANGED <<created, genesis>>

broadcast_and_sync(w) ==
    LET leg == pending[w]
    IN  /\ leg # Idle /\ leg.phase = "built"
        /\ Lands(leg)
        /\ pending' = [pending EXCEPT ![w] = Idle]

\* A request ends without a trace on the ledger: stale anchors, a transaction
\* that does not build or is refused, a wallet without the funds.
Abandon(w) ==
    /\ pending[w] # Idle
    /\ pending' = [pending EXCEPT ![w] = Idle]
    /\ UNCHANGED poolVars

Next ==
    \/ \E b \in InitialBundles : create_lmsr_pool_bootstrap(b)
    \/ \E w \in Wallets :
         \/ \E kind \in Kinds, i \in Inputs : QuoteSwap(w, kind, i)
         \/ BuildSwap(w)
         \/ \E r \in AdjustReserves : BuildAdjust(w, r)
         \/ close_lmsr_pool(w)
         \/ broadcast_and_sync(w)
         \/ Abandon(w)

Spec == Init /\ [][Next]_vars

-----------------------------------------------------------------------------
\* Types.
TypeOK ==
    /\ created \in BOOLEAN
    /\ genesis \in [s : 0 .. SMaxIndex, reserves : ReserveSet]
    /\ sIndex \in 0 .. SMaxIndex
    /\ reserves \in ReserveSet
    /\ txs \in 0 .. MaxTxs
    /\ bundle \in 0 .. txs
    /\ pending \in [Wallets -> Legs \union {Idle}]

(***************************************************************************)
(* What the pool is worth to its owner at index s with reserves r, if every *)
(* token pays half of a payout, less what the cost function says has been   *)
(* paid in.                                                                *)
(***************************************************************************)
Value(s, r) == r.collateral + HalfPayout * (r.yes + r.no) - Table[s]

\* How far NO outweighs YES beyond what the index accounts for.
Imbalance(s, r) == r.no - r.yes - QStepLots * s

(***************************************************************************)
(* The token reserves and the index never drift apart.  Every swap moves    *)
(* the index by the lots it trades and every adjustment moves YES and NO    *)
(* together, so whatever wallets quote, build or race, the imbalance of the *)
(* live bundle is that of the bootstrap.                                    *)
(***************************************************************************)
ReservesFollowIndex ==
    created => Imbalance(sIndex, reserves) = Imbalance(genesis.s, genesis.reserves)

(***************************************************************************)
(* A swap never costs the pool.  The fee inequalities and the table proofs  *)
(* of the covenant together keep its value from falling when the index      *)
(* moves; only the administrator's adjustment, which leaves the index,      *)
(* takes value out.                                                        *)
(***************************************************************************)
SwapKeepsValue ==
    (txs' # txs /\ sIndex' # sIndex) => Value(sIndex', reserves') >= Value(sIndex, reserves)

SwapsNeverCostPool == [][SwapKeepsValue]_vars

(***************************************************************************)
(* A request that the SDK builds from the live bundle is accepted by the    *)
(* ledger: builders and covenant agree on the quote, its rounding, the      *)
(* table proofs and the amounts.  The exceptions are the covenant's rules   *)
(* that no builder looks at: the reserve floors and the positive payment    *)
(* of a swap, the paired tokens and the network fee of an adjustment.       *)
(***************************************************************************)
FreshLegsLand ==
    \A w \in Wallets :
        LET leg == pending[w]
        IN  (/\ leg # Idle /\ leg.phase = "built" /\ leg.bundle = bundle
             /\ ensure_reserve_floors(leg.next)
             /\ leg.path = "swap" => leg.deltaIn > 0
             /\ leg.path = "admin" =>
                    leg.balanced /\ leg.next.yes - leg.was.yes = leg.next.no - leg.was.no)
            => Accepts(leg)
=============================================================================
