-------------------------- MODULE MarketLifecycle --------------------------
(***************************************************************************)
(* What one binary prediction market promises, seen from outside.          *)
(*                                                                         *)
(* The market is one of five lifecycle states, an amount of collateral     *)
(* locked in the covenant and the supplies of YES and NO tokens held       *)
(* outside it.  Covenant UTXOs, transactions, wallets and scans are the    *)
(* business of PredictionMarket, which implements this specification.      *)
(***************************************************************************)
EXTENDS Integers

CONSTANTS
    CollateralPerToken,  \* COLLATERAL_PER_TOKEN, in sats
    U64Max               \* largest amount a u64 holds

ASSUME LifecycleAssumption ==
    /\ CollateralPerToken \in Nat \ {0}
    /\ U64Max \in Nat

VARIABLES
    state,       \* MarketState
    collateral,  \* explicit amount in the live collateral slot, 0 if none
    yesSupply,   \* YES tokens in existence
    noSupply     \* NO tokens in existence

vars == <<state, collateral, yesSupply, noSupply>>

MarketState == {"Dormant", "Unresolved", "ResolvedYes", "ResolvedNo", "Expired"}

Terminal == {"ResolvedYes", "ResolvedNo", "Expired"}

(* Both covenant and SDK price a pair, and a winning token, at 2 * CPT. *)
CollateralForPairs(pairs) == pairs * (2 * CollateralPerToken)

Init ==
    /\ state = "Dormant"
    /\ collateral = 0
    /\ yesSupply = 0
    /\ noSupply = 0

-----------------------------------------------------------------------------
(* Faulty issue_tokens: the lifecycle state is not checked. *)
IssueInAnyState(pairs) ==
    /\ pairs > 0
    /\ collateral + CollateralForPairs(pairs) <= U64Max
    /\ state' = "Unresolved"
    /\ collateral' = collateral + CollateralForPairs(pairs)
    /\ yesSupply' = yesSupply + pairs
    /\ noSupply' = noSupply + pairs

(* issue_tokens: Dormant -> Unresolved, or Unresolved -> Unresolved. *)
IssueTokens(pairs) ==
    /\ state \in {"Dormant", "Unresolved"}
    /\ pairs > 0
    /\ collateral + CollateralForPairs(pairs) <= U64Max
    /\ state' = "Unresolved"
    /\ collateral' = collateral + CollateralForPairs(pairs)
    /\ yesSupply' = yesSupply + pairs
    /\ noSupply' = noSupply + pairs

(* Faulty cancel_tokens: the refund is not compared with the collateral. *)
CancelUnchecked(pairs) ==
    /\ state = "Unresolved"
    /\ pairs > 0
    /\ collateral' = collateral - CollateralForPairs(pairs)
    /\ state' = IF collateral' = 0 THEN "Dormant" ELSE "Unresolved"
    /\ yesSupply' = yesSupply - pairs
    /\ noSupply' = noSupply - pairs

(* Faulty cancel_tokens: the full cancellation keeps the market Unresolved. *)
CancelStaysUnresolved(pairs) ==
    /\ state = "Unresolved"
    /\ pairs > 0
    /\ pairs <= yesSupply /\ pairs <= noSupply
    /\ CollateralForPairs(pairs) <= collateral
    /\ collateral' = collateral - CollateralForPairs(pairs)
    /\ UNCHANGED state
    /\ yesSupply' = yesSupply - pairs
    /\ noSupply' = noSupply - pairs

(* cancel_tokens: burning the last pair returns the market to Dormant. *)
CancelTokens(pairs) ==
    /\ state = "Unresolved"
    /\ pairs > 0
    /\ pairs <= yesSupply /\ pairs <= noSupply
    /\ CollateralForPairs(pairs) <= collateral
    /\ collateral' = collateral - CollateralForPairs(pairs)
    /\ state' = IF collateral' = 0 THEN "Dormant" ELSE "Unresolved"
    /\ yesSupply' = yesSupply - pairs
    /\ noSupply' = noSupply - pairs

(* resolve_market. *)
ResolveMarket(outcomeYes) ==
    /\ state = "Unresolved"
    /\ state' = IF outcomeYes THEN "ResolvedYes" ELSE "ResolvedNo"
    /\ UNCHANGED <<collateral, yesSupply, noSupply>>

(* expire_market. *)
ExpireMarket ==
    /\ state = "Unresolved"
    /\ state' = "Expired"
    /\ UNCHANGED <<collateral, yesSupply, noSupply>>

(* redeem_tokens: each winning token pays what a pair deposited. *)
RedeemTokens(tokens) ==
    /\ tokens > 0
    /\ CollateralForPairs(tokens) <= collateral
    /\ collateral' = collateral - CollateralForPairs(tokens)
    /\ \/ /\ state = "ResolvedYes"
          /\ tokens <= yesSupply
          /\ yesSupply' = yesSupply - tokens
          /\ UNCHANGED noSupply
       \/ /\ state = "ResolvedNo"
          /\ tokens <= noSupply
          /\ noSupply' = noSupply - tokens
          /\ UNCHANGED yesSupply
    /\ UNCHANGED state

(* Faulty redeem_expired: a token pays what a winning token pays. *)
RedeemExpiredInFull(tokens) ==
    /\ state = "Expired"
    /\ tokens > 0
    /\ CollateralForPairs(tokens) <= collateral
    /\ tokens <= yesSupply
    /\ collateral' = collateral - CollateralForPairs(tokens)
    /\ yesSupply' = yesSupply - tokens
    /\ UNCHANGED <<state, noSupply>>

(* redeem_expired: a token of either side pays half of a pair. *)
RedeemExpired(tokens) ==
    /\ state = "Expired"
    /\ tokens > 0
    /\ tokens * CollateralPerToken <= collateral
    /\ collateral' = collateral - tokens * CollateralPerToken
    /\ \/ /\ tokens <= yesSupply
          /\ yesSupply' = yesSupply - tokens
          /\ UNCHANGED noSupply
       \/ /\ tokens <= noSupply
          /\ noSupply' = noSupply - tokens
          /\ UNCHANGED yesSupply
    /\ UNCHANGED state

Next ==
    \/ \E n \in 1..U64Max :
          \/ IssueTokens(n)
          \/ CancelTokens(n)
          \/ RedeemTokens(n)
          \/ RedeemExpired(n)
    \/ \E outcomeYes \in BOOLEAN : ResolveMarket(outcomeYes)
    \/ ExpireMarket

Spec == Init /\ [][Next]_vars

-----------------------------------------------------------------------------
TypeOK ==
    /\ state \in MarketState
    /\ collateral \in Nat
    /\ yesSupply \in Nat
    /\ noSupply \in Nat

(* The locked collateral is exactly what the outstanding tokens can claim: *)
(* nobody's redemption can be refused for lack of collateral, and none is  *)
(* left stranded once the claims are paid.  Losing tokens claim nothing.   *)
Claims ==
    CASE state = "Dormant"     -> 0
      [] state = "Unresolved"  -> CollateralForPairs(yesSupply)
      [] state = "ResolvedYes" -> CollateralForPairs(yesSupply)
      [] state = "ResolvedNo"  -> CollateralForPairs(noSupply)
      [] state = "Expired"     -> (yesSupply + noSupply) * CollateralPerToken

FullyBacked == collateral = Claims

(* Until the outcome is known tokens exist only in pairs, and a dormant    *)
(* market has none: a cancellation can therefore always be completed.      *)
TokensPaired ==
    /\ state \in {"Dormant", "Unresolved"} => yesSupply = noSupply
    /\ (state = "Dormant") <=> (state \notin Terminal /\ yesSupply = 0)

TerminalStep ==
    state \in Terminal =>
        /\ state' = state
        /\ collateral' <= collateral
        /\ yesSupply' <= yesSupply
        /\ noSupply' <= noSupply

(* An outcome is final, and no token is minted once there is one: no step  *)
(* of resolve_market, expire_market, issue_tokens or cancel_tokens is      *)
(* possible from a terminal state, only redemptions that pay out.          *)
OutcomeFinal == [][TerminalStep]_vars
=============================================================================
