------------------------------ MODULE LmsrTable ------------------------------
(***************************************************************************)
(* The price table of an LMSR pool and the quotes computed from it          *)
(* (lmsr_pool/table.rs, lmsr_pool/math.rs, lmsr_pool/params.rs).            *)
(*                                                                         *)
(* The table gives F(i), the cost function at state index i.  A pool        *)
(* commits to the root of a Merkle tree over the pairs (i, F(i)); hashes    *)
(* are free constructors here, so that equal hashes have equal arguments.   *)
(***************************************************************************)
EXTENDS Integers, Sequences, FiniteSetsExt

CONSTANTS
    TableDepth,       \* table_depth: the table has 2^TableDepth entries
    Table,            \* F: index -> cost in sats
    QStepLots,        \* q_step_lots: tokens traded by one index step
    HalfPayout,       \* half_payout_sats: collateral behind one token
    FeeBps,           \* fee_bps
    SMaxIndex,        \* s_max_index: the largest state index
    U64Max            \* the largest u64, a bound of the model

FEE_DENOM == 10000

\* 2^n, the length of a level that is n below the root.
Pow2[n \in 0 .. 63] == IF n = 0 THEN 1 ELSE 2 * Pow2[n - 1]

TableIndex == 0 .. Pow2[TableDepth] - 1

(***************************************************************************)
(* LmsrPoolParams::validate: what a pool's parameters satisfy.              *)
(***************************************************************************)
ASSUME ParamsValid ==
    /\ TableDepth \in 1 .. 63
    /\ Table \in [TableIndex -> Nat]
    /\ QStepLots \in Nat \ {0}
    /\ HalfPayout \in Nat \ {0}
    /\ FeeBps \in 0 .. FEE_DENOM - 1
    /\ SMaxIndex \in TableIndex
    /\ U64Max \in Nat

-----------------------------------------------------------------------------
(* The Merkle tree.                                                         *)

Leaf(i, v) == <<"leaf", i, v>>
Node(l, r) == <<"node", l, r>>

\* The levels of the tree over a table, leaves first.
Level[d \in 0 .. TableDepth] ==
    [j \in 0 .. Pow2[TableDepth - d] - 1 |->
        IF d = 0 THEN Leaf(j, Table[j])
                 ELSE Node(Level[d - 1][2 * j], Level[d - 1][2 * j + 1])]

lmsr_table_root == Level[TableDepth][0]

\* The direction of the path to leaf i at level d: TRUE for a right child.
PathBit(i, d) == (i \div Pow2[d]) % 2 = 1

Proofs ==
    [i \in TableIndex |->
        [path     |-> [d \in 1 .. TableDepth |-> PathBit(i, d - 1)],
         siblings |-> [d \in 1 .. TableDepth |->
                         LET pos == i \div Pow2[d - 1]
                         IN  Level[d - 1][IF PathBit(i, d - 1) THEN pos - 1 ELSE pos + 1]]]]

proof_at(i) == Proofs[i]

\* The root that a proof computes from a leaf, climbing one level per sibling.
ProofRoot(i, v, p) ==
    LET climb[d \in 0 .. TableDepth] ==
            IF d = 0 THEN Leaf(i, v)
            ELSE IF p.path[d] THEN Node(p.siblings[d], climb[d - 1])
                              ELSE Node(climb[d - 1], p.siblings[d])
    IN  climb[TableDepth]

\* The builder's check: the path spells the index and the root matches.
verify_lmsr_table_proof(i, v, p) ==
    /\ i \in TableIndex
    /\ p.path = proof_at(i).path
    /\ ProofRoot(i, v, p) = lmsr_table_root

\* The covenant's check: the root alone, since the leaf hash holds the index.
CovenantOpens(i, v, p) == ProofRoot(i, v, p) = lmsr_table_root

TableProofs == {proof_at(i) : i \in TableIndex}
TableValues == {Table[i] : i \in TableIndex}

-----------------------------------------------------------------------------
(* Quotes.                                                                  *)

Kinds == {"BuyYes", "SellYes", "BuyNo", "SellNo"}
is_buy(kind) == kind \in {"BuyYes", "BuyNo"}
requires_increasing_index(kind) == kind \in {"BuyYes", "SellNo"}

Gap(a, b) == IF a >= b THEN a - b ELSE b - a

compute_traded_lots(old, new) == Gap(old, new) * QStepLots

validate_direction(kind, old, new) ==
    IF requires_increasing_index(kind) THEN new > old ELSE new < old

\* Faulty: the cost difference has the wrong sign.
BaseReversed(buy, l, fOld, fNew) ==
    IF buy THEN l - (fNew - fOld) ELSE l + (fNew - fOld)

\* Cost of a buy, rebate of a sale, before the fee; negative is refused.
base_notional(buy, l, fOld, fNew) ==
    IF buy THEN l + (fNew - fOld) ELSE l - (fNew - fOld)

\* Faulty: rounded in the trader's favour.
CollateralInRoundedDown(base) == (base * FEE_DENOM) \div (FEE_DENOM - FeeBps)
min_collateral_in(base) ==
    LET feeC == FEE_DENOM - FeeBps
    IN  (base * FEE_DENOM + (feeC - 1)) \div feeC

max_collateral_out(base) == (base * (FEE_DENOM - FeeBps)) \div FEE_DENOM

(***************************************************************************)
(* quote_from_table.  A quote, or no quote when a checked operation fails.  *)
(***************************************************************************)
Quote(kind, old, new) ==
    LET lots == compute_traded_lots(old, new)
        base == base_notional(is_buy(kind), lots * HalfPayout, Table[old], Table[new])
    IN  [kind |-> kind, old |-> old, new |-> new, lots |-> lots, base |-> base,
         collateral |-> IF is_buy(kind) THEN min_collateral_in(base)
                                        ELSE max_collateral_out(base)]

QuoteOk(kind, old, new) ==
    LET q == Quote(kind, old, new)
    IN  /\ validate_direction(kind, old, new)
        /\ q.lots * HalfPayout <= U64Max
        /\ q.base \in 0 .. U64Max
        /\ q.collateral <= U64Max

(***************************************************************************)
(* quote_exact_input_from_manifest: the longest move that the input pays    *)
(* for.  "err" when any move on the way has no quote, "none" when nothing   *)
(* fits.                                                                    *)
(***************************************************************************)
Step(kind, old, n) == IF requires_increasing_index(kind) THEN old + n ELSE old - n

MaxSteps(kind, old, input) ==
    LET byIndex == IF requires_increasing_index(kind) THEN SMaxIndex - old ELSE old
    IN  IF is_buy(kind) THEN byIndex ELSE Min({byIndex, input \div QStepLots})

quote_exact_input(kind, old, input) ==
    LET steps == 1 .. MaxSteps(kind, old, input)
        q(n)  == Quote(kind, old, Step(kind, old, n))
        fits  == {n \in steps : IF is_buy(kind) THEN q(n).collateral <= input
                                                ELSE q(n).lots <= input}
    IN  IF input = 0 THEN [tag |-> "none"]
        ELSE IF \E n \in steps : ~QuoteOk(kind, old, Step(kind, old, n))
             THEN [tag |-> "err"]
        ELSE IF fits = {} THEN [tag |-> "none"]
        ELSE [tag |-> "ok", quote |-> q(Max(fits))]

(***************************************************************************)
(* fee_free_yes_spot_price_bps: the midpoint of one step up and one down,   *)
(* rounded to the nearest basis point; the ends of the table are certain.   *)
(***************************************************************************)
fee_free_yes_spot_price_bps(s) ==
    LET l   == QStepLots * HalfPayout
        num == base_notional(TRUE, l, Table[s], Table[s + 1])
                 + base_notional(FALSE, l, Table[s], Table[s - 1])
        den == 2 * l
    IN  IF s = 0 THEN 0
        ELSE IF s = SMaxIndex THEN 10000
        ELSE Min({10000, (num * 10000 + den \div 2) \div den})
=============================================================================
