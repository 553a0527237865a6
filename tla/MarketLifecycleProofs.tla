----------------------- MODULE MarketLifecycleProofs -----------------------
(***************************************************************************)
(* Proofs about MarketLifecycle, for every collateral per token and every  *)
(* amount width: the market is always exactly backed, tokens come in pairs *)
(* until there is an outcome, and an outcome is final.                     *)
(***************************************************************************)
EXTENDS MarketLifecycle, TLAPS

(* Pricing is linear: what a sum of pairs costs is the sum of their costs. *)
LEMMA PriceOfSum ==
    ASSUME NEW m \in Nat, NEW n \in Nat
    PROVE  /\ CollateralForPairs(m) \in Nat
           /\ CollateralForPairs(m + n) = CollateralForPairs(m) + CollateralForPairs(n)
<1>1. PICK k \in Nat : k = 2 * CollateralPerToken
    BY LifecycleAssumption
<1>2. (m + n) * k = m * k + n * k /\ m * k \in Nat
    BY <1>1
<1> QED
    BY <1>1, <1>2 DEF CollateralForPairs

(* The price of the pairs that remain is what is left of the price. *)
LEMMA PriceOfDifference ==
    ASSUME NEW m \in Nat, NEW n \in Nat, n <= m
    PROVE  CollateralForPairs(m - n) = CollateralForPairs(m) - CollateralForPairs(n)
<1>1. PICK d \in Nat : m = d + n
    OBVIOUS
<1>2. CollateralForPairs(m) = CollateralForPairs(d) + CollateralForPairs(n)
    BY <1>1, PriceOfSum
<1>3. CollateralForPairs(d) \in Nat /\ CollateralForPairs(n) \in Nat
    BY PriceOfSum
<1> QED
    BY <1>1, <1>2, <1>3

(* Only nothing is free. *)
LEMMA PriceIsZero ==
    ASSUME NEW n \in Nat
    PROVE  CollateralForPairs(n) = 0 <=> n = 0
<1>1. PICK k \in Nat \ {0} : k = 2 * CollateralPerToken
    BY LifecycleAssumption
<1>2. n * k = 0 <=> n = 0
    BY <1>1
<1> QED
    BY <1>1, <1>2 DEF CollateralForPairs

(* At expiry each of the two tokens of a pair is worth half of it. *)
LEMMA HalfPrice ==
    ASSUME NEW m \in Nat, NEW n \in Nat
    PROVE  /\ m * CollateralPerToken \in Nat
           /\ (m + n) * CollateralPerToken =
                 m * CollateralPerToken + n * CollateralPerToken
           /\ (n + n) * CollateralPerToken = CollateralForPairs(n)
<1>1. CollateralPerToken \in Nat
    BY LifecycleAssumption
<1> QED
    BY <1>1 DEF CollateralForPairs

-----------------------------------------------------------------------------
(* The inductive invariant.  FullyBacked alone is not inductive: a         *)
(* resolution to NO prices the NO supply where the collateral priced the   *)
(* YES supply, so the supplies must be known equal; an expiry prices both. *)
Inv == TypeOK /\ FullyBacked /\ TokensPaired

(* A fresh market, before any issue_tokens, satisfies the invariant. *)
LEMMA InitInv == Init => Inv
<1> SUFFICES ASSUME Init PROVE Inv
    OBVIOUS
<1>1. state = "Dormant" /\ collateral = 0 /\ yesSupply = 0 /\ noSupply = 0
    BY DEF Init
<1> QED
    BY <1>1 DEF Inv, TypeOK, FullyBacked, TokensPaired, Claims, MarketState, Terminal

(* issue_tokens adds to the collateral what the new pairs can claim. *)
LEMMA IssueInv ==
    ASSUME Inv, NEW n \in Nat \ {0}, IssueTokens(n)
    PROVE  Inv'
<1>1. /\ yesSupply \in Nat /\ noSupply = yesSupply
      /\ state \in {"Dormant", "Unresolved"}
    BY DEF Inv, TypeOK, TokensPaired, IssueTokens
<1>2. collateral = CollateralForPairs(yesSupply)
    <2>1. CASE state = "Dormant"
        <3>1. collateral = 0 /\ yesSupply = 0
            BY <2>1 DEF Inv, FullyBacked, Claims, TokensPaired
        <3> QED
            BY <3>1, PriceIsZero
    <2>2. CASE state = "Unresolved"
        BY <2>2 DEF Inv, FullyBacked, Claims
    <2> QED
        BY <1>1, <2>1, <2>2
<1>3. /\ state' = "Unresolved"
      /\ collateral' = collateral + CollateralForPairs(n)
      /\ yesSupply' = yesSupply + n /\ noSupply' = noSupply + n
    BY DEF IssueTokens
<1>4. /\ collateral' = CollateralForPairs(yesSupply')
      /\ collateral' \in Nat
    <2>1. CollateralForPairs(yesSupply + n) =
              CollateralForPairs(yesSupply) + CollateralForPairs(n)
        BY <1>1, PriceOfSum
    <2>2. CollateralForPairs(yesSupply) \in Nat /\ CollateralForPairs(n) \in Nat
        BY <1>1, PriceOfSum
    <2> QED
        BY <1>2, <1>3, <2>1, <2>2
<1>5. TypeOK'
    BY <1>1, <1>3, <1>4 DEF TypeOK, MarketState
<1>6. FullyBacked'
    <2>1. Claims' = CollateralForPairs(yesSupply')
        BY <1>3 DEF Claims, CollateralForPairs
    <2> QED
        BY <2>1, <1>4 DEF FullyBacked
<1>7. TokensPaired'
    BY <1>1, <1>3 DEF TokensPaired, Terminal
<1> QED
    BY <1>5, <1>6, <1>7 DEF Inv

(* cancel_tokens releases what the burned pairs could claim, and reaches   *)
(* Dormant exactly when the last pair is gone.                             *)
LEMMA CancelInv ==
    ASSUME Inv, NEW n \in Nat \ {0}, CancelTokens(n)
    PROVE  Inv'
<1>1. /\ yesSupply \in Nat /\ noSupply = yesSupply
      /\ state = "Unresolved" /\ n <= yesSupply
      /\ collateral = CollateralForPairs(yesSupply)
    BY DEF Inv, TypeOK, TokensPaired, FullyBacked, Claims, CancelTokens
<1>2. /\ collateral' = collateral - CollateralForPairs(n)
      /\ state' = IF collateral' = 0 THEN "Dormant" ELSE "Unresolved"
      /\ yesSupply' = yesSupply - n /\ noSupply' = noSupply - n
    BY DEF CancelTokens
<1>3. yesSupply' \in Nat /\ noSupply' = yesSupply'
    BY <1>1, <1>2
<1>4. collateral' = CollateralForPairs(yesSupply')
    <2>1. CollateralForPairs(yesSupply - n) =
              CollateralForPairs(yesSupply) - CollateralForPairs(n)
        BY <1>1, PriceOfDifference
    <2> QED
        BY <1>1, <1>2, <2>1
<1>5. collateral' \in Nat
    BY <1>3, <1>4, PriceOfSum
<1>6. collateral' = 0 <=> yesSupply' = 0
    BY <1>3, <1>4, PriceIsZero
<1>7. TypeOK'
    BY <1>2, <1>3, <1>5 DEF TypeOK, MarketState
<1>8. FullyBacked'
    <2>1. CASE state' = "Dormant"
        <3>1. Claims' = 0
            BY <2>1 DEF Claims
        <3>2. collateral' = 0
            BY <1>2, <2>1
        <3> QED
            BY <3>1, <3>2 DEF FullyBacked
    <2>2. CASE state' = "Unresolved"
        <3>1. Claims' = CollateralForPairs(yesSupply')
            BY <2>2 DEF Claims, CollateralForPairs
        <3> QED
            BY <3>1, <1>4 DEF FullyBacked
    <2> QED
        BY <1>2, <2>1, <2>2
<1>9. TokensPaired'
    BY <1>2, <1>3, <1>6 DEF TokensPaired, Terminal
<1> QED
    BY <1>7, <1>8, <1>9 DEF Inv

(* resolve_market keeps collateral and supplies; whichever side wins, the  *)
(* supplies are equal, so the collateral covers the winners.               *)
LEMMA ResolveInv ==
    ASSUME Inv, NEW outcomeYes \in BOOLEAN, ResolveMarket(outcomeYes)
    PROVE  Inv'
<1>1. /\ yesSupply \in Nat /\ noSupply = yesSupply /\ collateral \in Nat
      /\ collateral = CollateralForPairs(yesSupply)
    BY DEF Inv, TypeOK, TokensPaired, FullyBacked, Claims, ResolveMarket
<1>2. /\ collateral' = collateral /\ yesSupply' = yesSupply /\ noSupply' = noSupply
      /\ state' \in {"ResolvedYes", "ResolvedNo"}
    BY DEF ResolveMarket
<1>3. Claims' = CollateralForPairs(yesSupply)
    BY <1>1, <1>2 DEF Claims, CollateralForPairs
<1> QED
    BY <1>1, <1>2, <1>3
    DEF Inv, TypeOK, TokensPaired, FullyBacked, MarketState, Terminal

(* expire_market likewise: n pairs become 2n claims of half a pair. *)
LEMMA ExpireInv ==
    ASSUME Inv, ExpireMarket
    PROVE  Inv'
<1>1. /\ yesSupply \in Nat /\ noSupply = yesSupply /\ collateral \in Nat
      /\ collateral = CollateralForPairs(yesSupply)
    BY DEF Inv, TypeOK, TokensPaired, FullyBacked, Claims, ExpireMarket
<1>2. /\ collateral' = collateral /\ yesSupply' = yesSupply /\ noSupply' = noSupply
      /\ state' = "Expired"
    BY DEF ExpireMarket
<1>3. Claims' = (yesSupply + yesSupply) * CollateralPerToken
    BY <1>1, <1>2 DEF Claims
<1>4. Claims' = CollateralForPairs(yesSupply)
    BY <1>1, <1>3, HalfPrice
<1> QED
    BY <1>1, <1>2, <1>4
    DEF Inv, TypeOK, TokensPaired, FullyBacked, MarketState, Terminal

(* redeem_tokens burns claims of the winning side and pays their price. *)
LEMMA RedeemInv ==
    ASSUME Inv, NEW n \in Nat \ {0}, RedeemTokens(n)
    PROVE  Inv'
<1>1. yesSupply \in Nat /\ noSupply \in Nat
    BY DEF Inv, TypeOK
<1>2. state' = state /\ collateral' = collateral - CollateralForPairs(n)
    BY DEF RedeemTokens
<1>3. ASSUME NEW supply \in Nat, n <= supply, collateral = CollateralForPairs(supply)
      PROVE  collateral' = CollateralForPairs(supply - n) /\ collateral' \in Nat
    <2>1. supply - n \in Nat
        BY <1>3
    <2>2. CollateralForPairs(supply - n) \in Nat
        BY <2>1, PriceOfSum
    <2> QED
        BY <1>2, <1>3, <2>2, PriceOfDifference
<1>4. CASE /\ state = "ResolvedYes" /\ n <= yesSupply
           /\ yesSupply' = yesSupply - n /\ noSupply' = noSupply
    <2>1. collateral = CollateralForPairs(yesSupply)
        BY <1>4 DEF Inv, FullyBacked, Claims
    <2>2. collateral' = CollateralForPairs(yesSupply') /\ collateral' \in Nat
        BY <1>1, <1>3, <1>4, <2>1
    <2>3. Claims' = CollateralForPairs(yesSupply')
        BY <1>2, <1>4 DEF Claims, CollateralForPairs
    <2> QED
        BY <1>1, <1>2, <1>4, <2>2, <2>3
        DEF Inv, TypeOK, TokensPaired, FullyBacked, MarketState, Terminal
<1>5. CASE /\ state = "ResolvedNo" /\ n <= noSupply
           /\ noSupply' = noSupply - n /\ yesSupply' = yesSupply
    <2>1. collateral = CollateralForPairs(noSupply)
        BY <1>5 DEF Inv, FullyBacked, Claims
    <2>2. collateral' = CollateralForPairs(noSupply') /\ collateral' \in Nat
        BY <1>1, <1>3, <1>5, <2>1
    <2>3. Claims' = CollateralForPairs(noSupply')
        BY <1>2, <1>5 DEF Claims, CollateralForPairs
    <2> QED
        BY <1>1, <1>2, <1>5, <2>2, <2>3
        DEF Inv, TypeOK, TokensPaired, FullyBacked, MarketState, Terminal
<1> QED
    BY <1>4, <1>5 DEF RedeemTokens

(* redeem_expired burns tokens of either side at half the price of a pair. *)
LEMMA RedeemExpiredInv ==
    ASSUME Inv, NEW n \in Nat \ {0}, RedeemExpired(n)
    PROVE  Inv'
<1>1. /\ yesSupply \in Nat /\ noSupply \in Nat /\ state = "Expired"
      /\ collateral = (yesSupply + noSupply) * CollateralPerToken
    BY DEF Inv, TypeOK, FullyBacked, Claims, RedeemExpired
<1>2. state' = "Expired" /\ collateral' = collateral - n * CollateralPerToken
    BY DEF RedeemExpired
<1>3. yesSupply' \in Nat /\ noSupply' \in Nat
    BY <1>1 DEF RedeemExpired
<1>4. (yesSupply' + noSupply') + n = yesSupply + noSupply
    BY <1>1 DEF RedeemExpired
<1> DEFINE rest == yesSupply' + noSupply'
<1>5. rest \in Nat
    <2>1. \A m, k \in Nat : m + k \in Nat
        OBVIOUS
    <2> QED
        BY <1>3, <2>1, Zenon
<1>6. Claims' = rest * CollateralPerToken
    BY <1>2 DEF Claims
<1>7. rest + n = yesSupply + noSupply
    BY <1>4
<1> HIDE DEF rest
<1>8. /\ rest * CollateralPerToken \in Nat
      /\ n * CollateralPerToken \in Nat
      /\ (rest + n) * CollateralPerToken =
             rest * CollateralPerToken + n * CollateralPerToken
    BY <1>5, HalfPrice
<1>9. collateral' = rest * CollateralPerToken
    BY <1>1, <1>2, <1>7, <1>8
<1> QED
    BY <1>2, <1>3, <1>6, <1>8, <1>9
    DEF Inv, TypeOK, TokensPaired, FullyBacked, MarketState, Terminal

(* Every step preserves the invariant. *)
LEMMA NextInv == Inv /\ [Next]_vars => Inv'
<1> SUFFICES ASSUME Inv, [Next]_vars PROVE Inv'
    OBVIOUS
<1>1. ASSUME NEW n \in 1..U64Max PROVE n \in Nat \ {0}
    BY LifecycleAssumption
<1>2. ASSUME NEW n \in 1..U64Max, IssueTokens(n) PROVE Inv'
    BY <1>1, <1>2, IssueInv
<1>3. ASSUME NEW n \in 1..U64Max, CancelTokens(n) PROVE Inv'
    BY <1>1, <1>3, CancelInv
<1>4. ASSUME NEW n \in 1..U64Max, RedeemTokens(n) PROVE Inv'
    BY <1>1, <1>4, RedeemInv
<1>5. ASSUME NEW n \in 1..U64Max, RedeemExpired(n) PROVE Inv'
    BY <1>1, <1>5, RedeemExpiredInv
<1>6. ASSUME NEW outcomeYes \in BOOLEAN, ResolveMarket(outcomeYes) PROVE Inv'
    BY <1>6, ResolveInv
<1>7. CASE ExpireMarket
    BY <1>7, ExpireInv
<1>8. CASE UNCHANGED vars
    BY <1>8 DEF vars, Inv, TypeOK, FullyBacked, Claims, CollateralForPairs, TokensPaired
<1> QED
    BY <1>2, <1>3, <1>4, <1>5, <1>6, <1>7, <1>8 DEF Next

(* The market's variables keep their types under every SDK operation. *)
THEOREM TypeCorrect == Spec => []TypeOK
<1>1. Inv => TypeOK
    BY DEF Inv
<1> QED
    BY <1>1, InitInv, NextInv, PTL DEF Spec

(* Solvency: the collateral locked in the covenant is at all times exactly *)
(* what the tokens issued by issue_tokens and not yet cancelled or         *)
(* redeemed can claim.                                                     *)
THEOREM Solvency == Spec => []FullyBacked
<1>1. Inv => FullyBacked
    BY DEF Inv
<1> QED
    BY <1>1, InitInv, NextInv, PTL DEF Spec

(* Before resolve_market or expire_market tokens exist only in pairs. *)
THEOREM Pairing == Spec => []TokensPaired
<1>1. Inv => TokensPaired
    BY DEF Inv
<1> QED
    BY <1>1, InitInv, NextInv, PTL DEF Spec

(* Every step from a terminal state is a redemption. *)
LEMMA TerminalSteps == Inv /\ [Next]_vars => [TerminalStep]_vars
<1> SUFFICES ASSUME Inv, Next, state \in Terminal PROVE TerminalStep
    BY DEF TerminalStep
<1>1. /\ collateral \in Nat /\ yesSupply \in Nat /\ noSupply \in Nat
    BY DEF Inv, TypeOK
<1>2. ASSUME NEW n \in 1..U64Max, RedeemTokens(n) PROVE TerminalStep
    <2>1. n \in Nat /\ CollateralForPairs(n) \in Nat
        BY LifecycleAssumption, PriceOfSum
    <2> QED
        BY <1>1, <1>2, <2>1 DEF RedeemTokens, TerminalStep
<1>3. ASSUME NEW n \in 1..U64Max, RedeemExpired(n) PROVE TerminalStep
    <2>1. n \in Nat /\ n * CollateralPerToken \in Nat
        BY LifecycleAssumption, HalfPrice
    <2> QED
        BY <1>1, <1>3, <2>1 DEF RedeemExpired, TerminalStep
<1>4. state \notin {"Dormant", "Unresolved"}
    BY DEF Terminal
<1> QED
    BY <1>2, <1>3, <1>4
    DEF Next, IssueTokens, CancelTokens, ResolveMarket, ExpireMarket

(* A resolved or expired market stays so and only pays out. *)
THEOREM Finality == Spec => OutcomeFinal
<1> QED
    BY TerminalSteps, InitInv, NextInv, PTL DEF Spec, OutcomeFinal
=============================================================================
