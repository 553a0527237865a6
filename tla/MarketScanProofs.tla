------------------------- MODULE MarketScanProofs -------------------------
(***************************************************************************)
(* Proofs about MarketScanner, for every price, fee and slot of deposits,   *)
(* and a chain of any length.  The invariant is a reader's view of the      *)
(* market's history: each transaction moves all the market owns, or its     *)
(* collateral, or nothing of it, so that an output is spent once and the    *)
(* answers of the backend, however they interleave with new transactions,   *)
(* are about one line of descent.                                           *)
(***************************************************************************)
EXTENDS PredictionMarketProofs, MarketScanner, SequenceTheorems

-----------------------------------------------------------------------------

(* An output of the market in the scanner's eyes. *)
Own(id, slot) == [id |-> id, slot |-> slot]

Held(o, slot) == o.script = slot /\ o.asset = SlotAsset(slot) /\ o.amount \in Nat \ {0}

(* u is an output of transaction t. *)
Made(tx, u, t) ==
    /\ u = Own(u.id, u.slot) /\ u.slot \in MarketSlot
    /\ \E k \in 0..2 : u.id = <<t, k>> /\ Held(tx.outs[k + 1], u.slot)

(* Or of one of the first t transactions of a chain. *)
Owned(ch, u, t) == \E j \in 1..t : Made(ch[j], u, j)

Spends(tx, u) == \E k \in DOMAIN tx.ins : tx.ins[k].id = u.id

SlotOutputs(tx, t) == {Own(<<t, k - 1>>, tx.outs[k].script) : k \in MarketOuts(tx)}

BurnsAt(tx) == {k \in DOMAIN tx.outs : tx.outs[k].script = "Burn"}

(* What a market may own. *)
DormantOwn(y, n) == {Own(y, "DormantYesRt"), Own(n, "DormantNoRt")}

UnresolvedOwn(y, n, c) ==
    {Own(y, "UnresolvedYesRt"), Own(n, "UnresolvedNoRt"), Own(c, "UnresolvedCollateral")}

(* Every transaction of the market spends all of these. *)
Pivots(L) == {u \in L : u.slot \notin {"UnresolvedYesRt", "UnresolvedNoRt"}}

(* The five transitions, of a market that owns L, by transaction t. *)
Issues(tx, t, L, M) ==
    /\ \E y, n, c \in {u.id : u \in L} : L = DormantOwn(y, n) \/ L = UnresolvedOwn(y, n, c)
    /\ Len(tx.ins) >= 2 /\ tx.ins[1].issuance # {} /\ tx.ins[2].issuance # {}
    /\ M = UnresolvedOwn(<<t, 0>>, <<t, 1>>, <<t, 2>>)

Cancels(tx, t, L, M) ==
    /\ \E y, n, c \in {u.id : u \in L} : L = UnresolvedOwn(y, n, c)
    /\ M = DormantOwn(<<t, 0>>, <<t, 1>>)
    /\ Cardinality(BurnsAt(tx)) >= 2

Concludes(tx, t, L, M) ==
    /\ \E y, n, c \in {u.id : u \in L} : L = UnresolvedOwn(y, n, c)
    /\ \E slot \in TerminalSlots : M = {Own(<<t, 2>>, slot)}
    /\ Cardinality(BurnsAt(tx)) >= 2

RedeemsFrom(tx, t, L, M) ==
    /\ \E slot \in TerminalSlots, c \in {u.id : u \in L} :
          L = {Own(c, slot)} /\ (M = {} \/ M = {Own(<<t, 0>>, slot)})
    /\ Cardinality(BurnsAt(tx)) >= 1

(* All the market owns is spent at once, and what it owns then are outputs *)
(* of this transaction.                                                    *)
MovesAll(tx, t, L, M) ==
    /\ \A u \in L : Spends(tx, u)
    /\ M = SlotOutputs(tx, t)
    /\ \/ Issues(tx, t, L, M) \/ Cancels(tx, t, L, M)
       \/ Concludes(tx, t, L, M) \/ RedeemsFrom(tx, t, L, M)
    /\ \A y, n, c \in {u.id : u \in L} : L = UnresolvedOwn(y, n, c) =>
          \E k, j \in DOMAIN tx.ins :
              /\ tx.ins[k].script = "UnresolvedYesRt" /\ tx.ins[k].id = y
              /\ tx.ins[j].script = "UnresolvedCollateral" /\ tx.ins[j].id = c

(* Only the collateral is. *)
MovesCollateral(tx, t, L, M) ==
    \E y, n, c \in {u.id : u \in L} :
        /\ L = UnresolvedOwn(y, n, c) /\ M = UnresolvedOwn(y, n, <<t, 0>>)
        /\ SlotOutputs(tx, t) = {Own(<<t, 0>>, "UnresolvedCollateral")}
        /\ Spends(tx, Own(c, "UnresolvedCollateral"))
        /\ ~Spends(tx, Own(y, "UnresolvedYesRt")) /\ ~Spends(tx, Own(n, "UnresolvedNoRt"))
        /\ Cardinality(BurnsAt(tx)) >= 2

MovesNothing(tx, L, M) == M = L /\ \A u \in L : ~Spends(tx, u)

(* One transaction of the chain. *)
Extends(tx, t, L, M) ==
    /\ \/ MovesAll(tx, t, L, M) \/ MovesCollateral(tx, t, L, M) \/ MovesNothing(tx, L, M)
    /\ \A k \in DOMAIN tx.ins :
          tx.ins[k].id = <<0, 0>> \/ \E u \in L : tx.ins[k].id = u.id
    /\ \A u \in M : u \in L \/ Made(tx, u, t)

(* What a market may own between two transactions: its reissuance tokens   *)
(* are always outputs of one transaction.                                  *)
Shaped(L) ==
    \/ L = {}
    \/ \E y, n \in {u.id : u \in L} : L = DormantOwn(y, n)
    \/ \E y, n, c \in {u.id : u \in L} : L = UnresolvedOwn(y, n, c) /\ y[1] = n[1]
    \/ \E slot \in TerminalSlots : \E c \in {u.id : u \in L} : L = {Own(c, slot)}

HistoryOK(ch, lin) ==
    /\ \A t \in 1..Len(ch) : Shaped(lin[t]) /\ \A u \in lin[t] : Owned(ch, u, t)
    /\ lin[1] = DormantOwn(<<1, 0>>, <<1, 1>>)
    /\ \A t \in 2..Len(ch) : Extends(ch[t], t, lin[t - 1], lin[t])
    /\ \A i \in 1..Len(ch) : \A j \in i..Len(ch) :
          /\ lin[j] = lin[i] \/ (lin[i] # {} /\ Pivots(lin[i]) \cap lin[j] = {})
          /\ \A u \in lin[j] : u.id[1] <= i => u \in lin[i]
          /\ \A u \in lin[i] : u \in lin[j] \/ \E t \in (i + 1)..j : Spends(ch[t], u)

(* A bundle is what the market owned after the bundle's last transaction,  *)
(* in the order it is asked about.                                         *)
BundleOf(lin, b) ==
    \/ /\ b.state = "Dormant"
       /\ \E y, n \in {u.id : u \in lin[b.last]} :
             /\ lin[b.last] = DormantOwn(y, n)
             /\ b.utxos = <<Own(y, "DormantYesRt"), Own(n, "DormantNoRt")>>
    \/ /\ b.state = "Unresolved"
       /\ \E y, n, c \in {u.id : u \in lin[b.last]} :
             /\ lin[b.last] = UnresolvedOwn(y, n, c)
             /\ b.utxos = << Own(y, "UnresolvedYesRt"), Own(n, "UnresolvedNoRt"),
                             Own(c, "UnresolvedCollateral") >>
    \/ \E slot \in TerminalSlots : \E c \in {u.id : u \in lin[b.last]} :
          /\ b.state = TerminalStateOf(slot)
          /\ lin[b.last] = {Own(c, slot)} /\ b.utxos = <<Own(c, slot)>>

BundleOn(ch, lin, b) == b.last \in 1..Len(ch) /\ BundleOf(lin, b)

(* The answers a scan has had: nobody, or a spender, later than the bundle. *)
AskedOn(ch, b, spender) ==
    \A k \in DOMAIN spender :
       \/ spender[k] = None
       \/ spender[k] \in (b.last + 1)..Len(ch) /\ Spends(ch[spender[k]], b.utxos[k])

(* The answer of the backend, and answers that are all still right. *)
SpenderOn(ch, u) ==
    LET spenders == {t \in 2..Len(ch) : Spends(ch[t], u)}
    IN  IF spenders = {} THEN None ELSE Min(spenders)

CurrentOn(ch, b, spender) ==
    \A k \in DOMAIN spender : spender[k] = SpenderOn(ch, b.utxos[k])

SeveredOn(ch) ==
    \E t \in 2..Len(ch) : \E k, j \in DOMAIN ch[t].ins :
        /\ ch[t].ins[k].script = "UnresolvedYesRt"
        /\ ch[t].ins[j].script = "UnresolvedCollateral"
        /\ ch[t].ins[k].id[1] # ch[t].ins[j].id[1]

EndedOn(ch, lin, b) == b.utxos = <<>> /\ b.last \in 1..Len(ch) /\ lin[b.last] = {}

(* What holds of a scan, given what has happened on the chain. *)
ScanOn(ch, lin, s) ==
    /\ DOMAIN s = {"pc", "bundle", "spender", "since"}
    /\ s.spender \in Seq(Nat) /\ s.since \in Nat
    /\ \A k \in DOMAIN s.spender : s.spender[k] \in 0..Len(ch)
    /\ s.pc \in {"idle", "resolve", "recheck", "ok", "error", "unavailable", "not_canonical"}
    /\ s.pc \in {"resolve", "recheck"} =>
          /\ BundleOn(ch, lin, s.bundle) /\ AskedOn(ch, s.bundle, s.spender)
          /\ Len(s.spender) < Len(s.bundle.utxos)
    /\ s.pc = "ok" => BundleOn(ch, lin, s.bundle) \/ EndedOn(ch, lin, s.bundle)
    /\ s.pc = "resolve" =>
          /\ s.since <= Len(ch)
          /\ s.since = Len(ch) => CurrentOn(ch, s.bundle, s.spender)
    /\ s.pc = "error" => Len(ch) > s.since \/ SeveredOn(ch)

Canonical == validate_prediction_market_creation_tx(chain[1])

IsSeq(s) == \E S : s \in Seq(S)

(* The inductive invariant. *)
ScanInv ==
    /\ IsSeq(chain) /\ IsSeq(lineage)
    /\ Len(chain) = Len(lineage) /\ Len(chain) \in 1..MaxChain
    /\ chain[1] \in CreationTxs
    /\ \A u \in lineage[1] : u.slot \in MarketSlot
    /\ Canonical => HistoryOK(chain, lineage)
    /\ ~Canonical => Len(chain) = 1 /\ scan.pc \in {"idle", "unavailable", "not_canonical"}
    /\ ScanOn(chain, lineage, scan)

-----------------------------------------------------------------------------
(* The history of the market grows by one transaction. *)

(* What appending does. *)
LEMMA Appended ==
    ASSUME NEW s, IsSeq(s), NEW e
    PROVE  /\ IsSeq(Append(s, e)) /\ Len(s) \in Nat /\ Len(Append(s, e)) = Len(s) + 1
           /\ \A k \in 1..Len(s) : Append(s, e)[k] = s[k]
           /\ Append(s, e)[Len(s) + 1] = e
<1>1. PICK S : s \in Seq(S)
    BY DEF IsSeq
<1> DEFINE T == S \cup {e}
<1>2. s \in Seq(T) /\ e \in T
    BY <1>1
<1> HIDE DEF T
<1>3. Append(s, e) \in Seq(T)
    BY <1>2
<1> QED
    BY <1>2, <1>3 DEF IsSeq

(* What an output made by a transaction is. *)
LEMMA MadeIs ==
    ASSUME NEW tx, NEW u, NEW t, Made(tx, u, t)
    PROVE  /\ u = Own(u.id, u.slot) /\ u.id[1] = t /\ u.id # <<>>
           /\ \E k \in 0..2 : u.id = <<t, k>> /\ Held(tx.outs[k + 1], u.slot)
BY DEF Made

(* What a transaction does to what the market owns. *)
LEMMA ExtendsIs ==
    ASSUME NEW tx, NEW t \in Nat, NEW L, NEW M, Extends(tx, t, L, M),
           \A u \in L : u = Own(u.id, u.slot) /\ u.id[1] \in Nat /\ u.id[1] < t
    PROVE  /\ \A u \in L : Spends(tx, u) <=> u \notin M
           /\ M = L \/ (L # {} /\ Pivots(L) \cap M = {})
           /\ \A u \in M : u \in L \/ Made(tx, u, t)
<1>1. \A u \in M : u \in L \/ Made(tx, u, t)
    BY DEF Extends
<1>2. CASE MovesAll(tx, t, L, M)
    <2>1. ASSUME NEW u \in L PROVE Spends(tx, u) /\ u \notin M
        <3>1. Spends(tx, u) /\ M = SlotOutputs(tx, t)
            BY <1>2 DEF MovesAll
        <3>2. \A w \in SlotOutputs(tx, t) : w.id[1] = t
            BY DEF SlotOutputs, Own
        <3>3. u.id[1] # t
            OBVIOUS
        <3> QED BY <3>1, <3>2, <3>3
    <2>2. L # {}
        BY <1>2 DEF MovesAll, Issues, Cancels, Concludes, RedeemsFrom
    <2> QED BY <1>1, <2>1, <2>2 DEF Pivots
<1>3. CASE MovesCollateral(tx, t, L, M)
    <2>1. PICK y, n, c \in {u.id : u \in L} :
              /\ L = UnresolvedOwn(y, n, c) /\ M = UnresolvedOwn(y, n, <<t, 0>>)
              /\ Spends(tx, Own(c, "UnresolvedCollateral"))
              /\ ~Spends(tx, Own(y, "UnresolvedYesRt")) /\ ~Spends(tx, Own(n, "UnresolvedNoRt"))
        BY <1>3 DEF MovesCollateral
    <2>2. Own(c, "UnresolvedCollateral") \in L
        BY <2>1 DEF UnresolvedOwn
    <2>3. c[1] # t
        BY <2>2 DEF Own
    <2>4. c # <<t, 0>>
        BY <2>3
    <2>5. Own(c, "UnresolvedCollateral") \notin M
        BY <2>1, <2>4 DEF UnresolvedOwn, Own
    <2>6. /\ Own(y, "UnresolvedYesRt") \in M /\ Own(n, "UnresolvedNoRt") \in M
          /\ L # {} /\ \A u \in L : \/ u = Own(y, "UnresolvedYesRt") \/ u = Own(n, "UnresolvedNoRt")
                                    \/ u = Own(c, "UnresolvedCollateral")
        BY <2>1 DEF UnresolvedOwn
    <2>7. Pivots(L) \cap M = {}
        BY <2>5, <2>6 DEF Pivots, Own
    <2> QED BY <1>1, <2>1, <2>5, <2>6, <2>7
<1>4. CASE MovesNothing(tx, L, M)
    BY <1>1, <1>4 DEF MovesNothing
<1> QED
    BY <1>2, <1>3, <1>4 DEF Extends

(* What a market owned is from the chain it knew. *)
LEMMA OwnedIs ==
    ASSUME NEW ch, NEW t \in Nat, NEW u, Owned(ch, u, t)
    PROVE  u = Own(u.id, u.slot) /\ u.id[1] \in 1..t /\ u.slot \in MarketSlot
<1>1. PICK j \in 1..t : Made(ch[j], u, j)
    BY DEF Owned
<1>2. u.id[1] = j /\ u = Own(u.id, u.slot) /\ u.slot \in MarketSlot
    BY <1>1 DEF Made
<1> QED
    BY <1>2

(* How two moments of a history are related. *)
Related(ch, lin, i, j) ==
    /\ lin[j] = lin[i] \/ (lin[i] # {} /\ Pivots(lin[i]) \cap lin[j] = {})
    /\ \A u \in lin[j] : u.id[1] <= i => u \in lin[i]
    /\ \A u \in lin[i] : u \in lin[j] \/ \E t \in (i + 1)..j : Spends(ch[t], u)

LEMMA HistoryIs ==
    ASSUME NEW ch, NEW lin
    PROVE  HistoryOK(ch, lin) <=>
              /\ \A t \in 1..Len(ch) : Shaped(lin[t])
              /\ \A t \in 1..Len(ch) : \A u \in lin[t] : Owned(ch, u, t)
              /\ lin[1] = DormantOwn(<<1, 0>>, <<1, 1>>)
              /\ \A t \in 2..Len(ch) : Extends(ch[t], t, lin[t - 1], lin[t])
              /\ \A i \in 1..Len(ch) : \A j \in i..Len(ch) : Related(ch, lin, i, j)
BY DEF HistoryOK, Related

(* The newest moment is related to every earlier one. *)
LEMMA RelatedGrows ==
    ASSUME NEW ch, NEW lin, NEW n \in Nat, NEW i \in 1..n,
           Related(ch, lin, i, n), Extends(ch[n + 1], n + 1, lin[n], lin[n + 1]),
           \A u \in lin[i] : Owned(ch, u, i),
           \A u \in lin[n] : Owned(ch, u, n)
    PROVE  Related(ch, lin, i, n + 1)
<1> DEFINE tx == ch[n + 1]
           M == lin[n + 1]
           L == lin[n]
           m == n + 1
<1>1. \A u \in L : u = Own(u.id, u.slot) /\ u.id[1] \in Nat /\ u.id[1] < m
    BY OwnedIs
<1>2. \A u \in lin[i] : u.id[1] \in 1..i
    BY OwnedIs
<1>3. m \in Nat
    OBVIOUS
<1>4. Extends(tx, m, L, M)
    OBVIOUS
<1> HIDE DEF tx, M, L, m
<1>5. /\ \A u \in L : Spends(tx, u) <=> u \notin M
      /\ M = L \/ (L # {} /\ Pivots(L) \cap M = {})
      /\ \A u \in M : u \in L \/ Made(tx, u, m)
    BY ONLY <1>1, <1>3, <1>4, ExtendsIs
<1>6. \A u \in M : u \in L \/ u.id[1] = n + 1
    BY <1>5, MadeIs DEF m
<1>7. /\ L = lin[i] \/ (lin[i] # {} /\ Pivots(lin[i]) \cap L = {})
      /\ \A u \in L : u.id[1] <= i => u \in lin[i]
      /\ \A u \in lin[i] : u \in L \/ \E t \in (i + 1)..n : Spends(ch[t], u)
    BY DEF Related, L
<1>8. ASSUME NEW u \in lin[i] PROVE u \in M => u \in L
    BY <1>2, <1>6
<1>9. M = lin[i] \/ (lin[i] # {} /\ Pivots(lin[i]) \cap M = {})
    BY <1>5, <1>7, <1>8 DEF Pivots
<1>10. \A u \in M : u.id[1] <= i => u \in lin[i]
    BY <1>6, <1>7
<1>11. \A u \in lin[i] : u \in M \/ \E t \in (i + 1)..(n + 1) : Spends(ch[t], u)
    <2>1. ASSUME NEW u \in lin[i], u \notin M PROVE \E t \in (i + 1)..(n + 1) : Spends(ch[t], u)
        <3>1. CASE u \in L
            BY <3>1, <2>1, <1>5 DEF tx
        <3>2. CASE \E t \in (i + 1)..n : Spends(ch[t], u)
            BY <3>2
        <3> QED BY <3>1, <3>2, <1>7
    <2> QED BY <2>1
<1> QED
    BY <1>9, <1>10, <1>11 DEF Related, M

(* A transaction leaves the market with one of the four sets of outputs. *)
LEMMA ShapeGoes ==
    ASSUME NEW tx, NEW t, NEW L, NEW M, Extends(tx, t, L, M), Shaped(L)
    PROVE  Shaped(M)
<1>1. \A y, n : DormantOwn(y, n) = M => Shaped(M)
    <2>1. ASSUME NEW y, NEW n, M = DormantOwn(y, n) PROVE Shaped(M)
        <3>1. Own(y, "DormantYesRt") \in M /\ Own(n, "DormantNoRt") \in M
            BY <2>1 DEF DormantOwn
        <3>2. y \in {u.id : u \in M} /\ n \in {u.id : u \in M}
            BY <3>1 DEF Own
        <3> QED BY <2>1, <3>2 DEF Shaped
    <2> QED BY <2>1
<1>2. \A y, n, c : UnresolvedOwn(y, n, c) = M /\ y[1] = n[1] => Shaped(M)
    <2>1. ASSUME NEW y, NEW n, NEW c, M = UnresolvedOwn(y, n, c), y[1] = n[1] PROVE Shaped(M)
        <3>1. /\ Own(y, "UnresolvedYesRt") \in M /\ Own(n, "UnresolvedNoRt") \in M
              /\ Own(c, "UnresolvedCollateral") \in M
            BY <2>1 DEF UnresolvedOwn
        <3>2. y \in {u.id : u \in M} /\ n \in {u.id : u \in M} /\ c \in {u.id : u \in M}
            BY <3>1 DEF Own
        <3> QED BY <2>1, <3>2 DEF Shaped
    <2> QED BY <2>1
<1>3. \A c : \A slot \in TerminalSlots : {Own(c, slot)} = M => Shaped(M)
    <2>1. ASSUME NEW c, NEW slot \in TerminalSlots, M = {Own(c, slot)} PROVE Shaped(M)
        <3>1. c \in {u.id : u \in M}
            BY <2>1 DEF Own
        <3> QED BY <2>1, <3>1 DEF Shaped
    <2> QED BY <2>1
<1>4. CASE MovesAll(tx, t, L, M)
    <2>1. CASE Issues(tx, t, L, M)
        <3>1. PICK y, n : y = <<t, 0>> /\ n = <<t, 1>>
            OBVIOUS
        <3>2. y[1] = n[1] /\ M = UnresolvedOwn(y, n, <<t, 2>>)
            BY <2>1, <3>1 DEF Issues
        <3> QED BY <1>2, <3>2
    <2>2. CASE Cancels(tx, t, L, M)
        BY <2>2, <1>1 DEF Cancels
    <2>3. CASE Concludes(tx, t, L, M)
        BY <2>3, <1>3 DEF Concludes
    <2>4. CASE RedeemsFrom(tx, t, L, M)
        <3>1. \E slot \in TerminalSlots : M = {} \/ M = {Own(<<t, 0>>, slot)}
            BY <2>4 DEF RedeemsFrom
        <3>2. M = {} => Shaped(M)
            BY DEF Shaped
        <3> QED BY <3>1, <3>2, <1>3
    <2> QED BY <1>4, <2>1, <2>2, <2>3, <2>4 DEF MovesAll
<1>5. CASE MovesCollateral(tx, t, L, M)
    <2>1. PICK y, n, c : L = UnresolvedOwn(y, n, c) /\ M = UnresolvedOwn(y, n, <<t, 0>>)
        BY <1>5 DEF MovesCollateral
    <2>2. y[1] = n[1]
        <3>1. Own(y, "UnresolvedYesRt") \in L /\ Own(n, "UnresolvedNoRt") \in L
            BY <2>1 DEF UnresolvedOwn
        <3>2. L # {} /\ (\A a, d : L # DormantOwn(a, d))
            BY <3>1 DEF DormantOwn, Own
        <3>3. \A a : \A slot \in TerminalSlots : L # {Own(a, slot)}
            BY <3>1 DEF TerminalSlots, Own
        <3>4. PICK a, d, e : L = UnresolvedOwn(a, d, e) /\ a[1] = d[1]
            BY <3>2, <3>3 DEF Shaped
        <3>5. a = y /\ d = n
            BY <3>1, <3>4 DEF UnresolvedOwn, Own
        <3> QED BY <3>4, <3>5
    <2> QED BY <1>2, <2>1, <2>2
<1>6. CASE MovesNothing(tx, L, M)
    BY <1>6 DEF MovesNothing
<1> QED
    BY <1>4, <1>5, <1>6 DEF Extends

(* A history goes on with any transaction of the market. *)
LEMMA HistoryGrows ==
    ASSUME NEW ch, NEW lin, NEW tx, NEW M, IsSeq(ch), IsSeq(lin), Len(ch) = Len(lin),
           Len(ch) >= 1, HistoryOK(ch, lin), Extends(tx, Len(ch) + 1, lin[Len(ch)], M)
    PROVE  HistoryOK(Append(ch, tx), Append(lin, M))
<1> DEFINE n == Len(ch)
           c == Append(ch, tx)
           l == Append(lin, M)
<1>1. /\ n \in Nat /\ n >= 1 /\ Len(c) = n + 1
      /\ \A k \in 1..n : c[k] = ch[k] /\ l[k] = lin[k]
      /\ c[n + 1] = tx /\ l[n + 1] = M
    BY Appended
<1> HIDE DEF n, c, l
<1>2. /\ \A t \in 1..n : Shaped(lin[t])
      /\ \A t \in 1..n : \A u \in lin[t] : Owned(ch, u, t)
      /\ lin[1] = DormantOwn(<<1, 0>>, <<1, 1>>)
      /\ \A t \in 2..n : Extends(ch[t], t, lin[t - 1], lin[t])
      /\ \A i \in 1..n : \A j \in i..n : Related(ch, lin, i, j)
    BY HistoryIs DEF n
<1>3. Extends(c[n + 1], n + 1, l[n], l[n + 1])
    BY <1>1 DEF n
<1>4. \A t \in 1..n : \A u \in l[t] : Owned(c, u, t)
    <2>1. ASSUME NEW t \in 1..n, NEW u \in lin[t] PROVE Owned(c, u, t)
        <3>1. PICK j \in 1..t : Made(ch[j], u, j)
            BY <1>2 DEF Owned
        <3>2. c[j] = ch[j]
            BY <1>1
        <3> QED BY <3>1, <3>2 DEF Owned
    <2> QED BY <2>1, <1>1
<1>5. ASSUME NEW u \in l[n + 1] PROVE Owned(c, u, n + 1)
    <2>1. u \in l[n] \/ Made(c[n + 1], u, n + 1)
        BY <1>3 DEF Extends
    <2>2. CASE u \in l[n]
        <3>1. n \in 1..n
            BY <1>1
        <3>2. Owned(c, u, n)
            BY <2>2, <3>1, <1>4
        <3> QED BY <3>2, <1>1 DEF Owned
    <2>3. CASE Made(c[n + 1], u, n + 1)
        BY <2>3, <1>1 DEF Owned
    <2> QED BY <2>1, <2>2, <2>3
<1>6. \A t \in 1..(n + 1) : \A u \in l[t] : Owned(c, u, t)
    BY <1>1, <1>4, <1>5
<1>7. l[1] = DormantOwn(<<1, 0>>, <<1, 1>>)
    BY <1>1, <1>2
<1>8. \A t \in 2..(n + 1) : Extends(c[t], t, l[t - 1], l[t])
    <2>1. ASSUME NEW t \in 2..n PROVE Extends(c[t], t, l[t - 1], l[t])
        <3>1. t \in 1..n /\ t - 1 \in 1..n
            BY <1>1
        <3>2. c[t] = ch[t] /\ l[t] = lin[t] /\ l[t - 1] = lin[t - 1]
            BY <3>1, <1>1
        <3>3. Extends(ch[t], t, lin[t - 1], lin[t])
            BY <1>2
        <3> QED BY <3>2, <3>3
    <2>2. Extends(c[n + 1], n + 1, l[(n + 1) - 1], l[n + 1])
        <3>1. (n + 1) - 1 = n
            BY <1>1
        <3> QED BY <3>1, <1>3
    <2>3. \A t \in 2..(n + 1) : t \in 2..n \/ t = n + 1
        BY <1>1
    <2> QED BY ONLY <2>1, <2>2, <2>3
<1>9. \A i \in 1..n : \A j \in i..n : Related(c, l, i, j)
    <2>1. ASSUME NEW i \in 1..n, NEW j \in i..n PROVE Related(c, l, i, j)
        <3>1. Related(ch, lin, i, j)
            BY <1>2
        <3>2. i \in 1..n /\ j \in 1..n
            BY <1>1
        <3>3. l[i] = lin[i] /\ l[j] = lin[j]
            BY <3>2, <1>1
        <3>4. \A t \in (i + 1)..j : c[t] = ch[t]
            BY <3>2, <1>1
        <3> QED BY <3>1, <3>3, <3>4 DEF Related
    <2> QED BY <2>1
<1>10. \A i \in 1..n : Related(c, l, i, n + 1)
    <2>1. ASSUME NEW i \in 1..n PROVE Related(c, l, i, n + 1)
        <3>1. Related(c, l, i, n)
            BY <1>1, <1>9
        <3>2. \A u \in l[i] : Owned(c, u, i)
            BY <1>4
        <3>3. \A u \in l[n] : Owned(c, u, n)
            BY <1>1, <1>4
        <3> QED BY ONLY <3>1, <3>2, <3>3, <1>1, <1>3, RelatedGrows
    <2> QED BY <2>1
<1>11. Related(c, l, n + 1, n + 1)
    BY DEF Related
<1>12. \A i \in 1..(n + 1) : \A j \in i..(n + 1) : Related(c, l, i, j)
    <2>1. ASSUME NEW i \in 1..(n + 1), NEW j \in i..(n + 1) PROVE Related(c, l, i, j)
        <3>1. (i \in 1..n /\ j \in i..n) \/ (i \in 1..n /\ j = n + 1) \/ (i = n + 1 /\ j = n + 1)
            BY <1>1
        <3> QED BY ONLY <3>1, <1>9, <1>10, <1>11
    <2> QED BY <2>1
<1>13. \A t \in 1..(n + 1) : Shaped(l[t])
    <2>1. \A t \in 1..n : Shaped(l[t])
        BY <1>1, <1>2
    <2>2. Shaped(l[n])
        BY <2>1, <1>1
    <2>3. Shaped(l[n + 1])
        BY ONLY <2>2, <1>3, ShapeGoes
    <2> QED BY <2>1, <2>3, <1>1
<1> QED
    <2>1. HistoryOK(c, l)
        BY <1>1, <1>6, <1>7, <1>8, <1>12, <1>13, HistoryIs
    <2> QED BY <2>1 DEF c, l

-----------------------------------------------------------------------------
(* What the transactions of the builders do to what the market owns.       *)

(* The market's outputs when transaction t is on the chain. *)
OwnsAfter(tx, t, L) == {u \in L : ~Spends(tx, u)} \cup SlotOutputs(tx, t)

AllMade(tx, t) == \A u \in SlotOutputs(tx, t) : Made(tx, u, t)

(* The outputs an issuance makes for the market. *)
LEMMA UnresolvedMade ==
    ASSUME NEW tx, NEW t, NEW v \in Nat \ {0}, Creates(tx, UnresolvedOuts(v))
    PROVE  /\ SlotOutputs(tx, t) = UnresolvedOwn(<<t, 0>>, <<t, 1>>, <<t, 2>>)
           /\ AllMade(tx, t)
<1> DEFINE w == UnresolvedOuts(v)
<1>1. /\ DOMAIN w = {1, 2, 3}
      /\ w[1] = RtOut("UnresolvedYesRt", "YES_RT") /\ w[2] = RtOut("UnresolvedNoRt", "NO_RT")
      /\ w[3] = CollOut("UnresolvedCollateral", v)
    BY DEF UnresolvedOuts
<1>2. /\ w[1].script = "UnresolvedYesRt" /\ w[2].script = "UnresolvedNoRt"
      /\ w[3].script = "UnresolvedCollateral"
      /\ Held(w[1], "UnresolvedYesRt") /\ Held(w[2], "UnresolvedNoRt")
      /\ Held(w[3], "UnresolvedCollateral")
    BY <1>1 DEF RtOut, CollOut, Held, SlotAsset
<1> HIDE DEF w
<1>3. /\ MarketOuts(tx) = {1, 2, 3} /\ tx.outs[1] = w[1] /\ tx.outs[2] = w[2] /\ tx.outs[3] = w[3]
    BY <1>1, <1>2 DEF Creates, MarketSlot, w
<1>4. SlotOutputs(tx, t) = {Own(<<t, k - 1>>, tx.outs[k].script) : k \in {1, 2, 3}}
    BY <1>3 DEF SlotOutputs
<1>5. SlotOutputs(tx, t) = UnresolvedOwn(<<t, 0>>, <<t, 1>>, <<t, 2>>)
    BY <1>2, <1>3, <1>4 DEF UnresolvedOwn
<1>6. Made(tx, Own(<<t, 0>>, "UnresolvedYesRt"), t)
    BY <1>2, <1>3 DEF Made, Own, MarketSlot
<1>7. Made(tx, Own(<<t, 1>>, "UnresolvedNoRt"), t)
    BY <1>2, <1>3 DEF Made, Own, MarketSlot
<1>8. Made(tx, Own(<<t, 2>>, "UnresolvedCollateral"), t)
    BY <1>2, <1>3 DEF Made, Own, MarketSlot
<1> QED
    BY <1>5, <1>6, <1>7, <1>8 DEF AllMade, UnresolvedOwn

(* A full cancellation. *)
LEMMA DormantMade ==
    ASSUME NEW tx, NEW t, Creates(tx, DormantOuts)
    PROVE  /\ SlotOutputs(tx, t) = DormantOwn(<<t, 0>>, <<t, 1>>)
           /\ AllMade(tx, t)
<1> DEFINE w == DormantOuts
<1>1. /\ DOMAIN w = {1, 2}
      /\ w[1] = RtOut("DormantYesRt", "YES_RT") /\ w[2] = RtOut("DormantNoRt", "NO_RT")
    BY DEF DormantOuts
<1>2. /\ w[1].script = "DormantYesRt" /\ w[2].script = "DormantNoRt"
      /\ Held(w[1], "DormantYesRt") /\ Held(w[2], "DormantNoRt")
    BY <1>1 DEF RtOut, Held, SlotAsset
<1> HIDE DEF w
<1>3. /\ MarketOuts(tx) = {1, 2} /\ tx.outs[1] = w[1] /\ tx.outs[2] = w[2]
    BY <1>1, <1>2 DEF Creates, MarketSlot, w
<1>4. SlotOutputs(tx, t) = {Own(<<t, k - 1>>, tx.outs[k].script) : k \in {1, 2}}
    BY <1>3 DEF SlotOutputs
<1>5. SlotOutputs(tx, t) = DormantOwn(<<t, 0>>, <<t, 1>>)
    BY <1>2, <1>3, <1>4 DEF DormantOwn
<1>6. Made(tx, Own(<<t, 0>>, "DormantYesRt"), t)
    BY <1>2, <1>3 DEF Made, Own, MarketSlot
<1>7. Made(tx, Own(<<t, 1>>, "DormantNoRt"), t)
    BY <1>2, <1>3 DEF Made, Own, MarketSlot
<1> QED
    BY <1>5, <1>6, <1>7 DEF AllMade, DormantOwn

(* A resolution or an expiry. *)
LEMMA ConcludedMade ==
    ASSUME NEW tx, NEW t, NEW slot \in TerminalSlots, NEW v \in Nat \ {0},
           Creates(tx, ConcludedOuts(slot, v))
    PROVE  SlotOutputs(tx, t) = {Own(<<t, 2>>, slot)} /\ AllMade(tx, t)
<1> DEFINE w == ConcludedOuts(slot, v)
<1>1. /\ DOMAIN w = {1, 2, 3} /\ w[1] = NoOut /\ w[2] = NoOut /\ w[3] = CollOut(slot, v)
    BY DEF ConcludedOuts
<1>2. /\ w[1].script = "Burn" /\ w[2].script = "Burn" /\ w[3].script = slot
      /\ Held(w[3], slot) /\ slot \in MarketSlot
    BY <1>1 DEF CollOut, Held, SlotAsset, NoOut, TerminalSlots, MarketSlot
<1> HIDE DEF w
<1>3. /\ MarketOuts(tx) = {3} /\ tx.outs[3] = w[3]
    BY <1>1, <1>2 DEF Creates, MarketSlot, w
<1>4. SlotOutputs(tx, t) = {Own(<<t, k - 1>>, tx.outs[k].script) : k \in {3}}
    BY <1>3 DEF SlotOutputs
<1>5. SlotOutputs(tx, t) = {Own(<<t, 2>>, slot)}
    BY <1>2, <1>3, <1>4
<1>6. Made(tx, Own(<<t, 2>>, slot), t)
    BY <1>2, <1>3 DEF Made, Own
<1> QED
    BY <1>5, <1>6 DEF AllMade

(* A partial cancellation, and a redemption that leaves something. *)
LEMMA CollateralMade ==
    ASSUME NEW tx, NEW t, NEW slot \in TerminalSlots \cup {"UnresolvedCollateral"},
           NEW v \in Nat \ {0}, Creates(tx, <<CollOut(slot, v)>>)
    PROVE  SlotOutputs(tx, t) = {Own(<<t, 0>>, slot)} /\ AllMade(tx, t)
<1> DEFINE w == <<CollOut(slot, v)>>
<1>1. DOMAIN w = {1} /\ w[1] = CollOut(slot, v)
    OBVIOUS
<1>2. w[1].script = slot /\ Held(w[1], slot) /\ slot \in MarketSlot
    BY <1>1 DEF CollOut, Held, SlotAsset, TerminalSlots, MarketSlot
<1> HIDE DEF w
<1>3. /\ MarketOuts(tx) = {1} /\ tx.outs[1] = w[1]
    BY <1>1, <1>2 DEF Creates, MarketSlot, w
<1>4. SlotOutputs(tx, t) = {Own(<<t, k - 1>>, tx.outs[k].script) : k \in {1}}
    BY <1>3 DEF SlotOutputs
<1>5. SlotOutputs(tx, t) = {Own(<<t, 0>>, slot)}
    BY <1>2, <1>3, <1>4
<1>6. Made(tx, Own(<<t, 0>>, slot), t)
    BY <1>2, <1>3 DEF Made, Own
<1> QED
    BY <1>5, <1>6 DEF AllMade

(* A redemption that leaves nothing. *)
LEMMA NothingMade ==
    ASSUME NEW tx, NEW t, Creates(tx, <<NoOut>>)
    PROVE  SlotOutputs(tx, t) = {} /\ AllMade(tx, t)
<1>1. MarketOuts(tx) = {}
    BY DEF Creates, NoOut, MarketSlot
<1> QED
    BY <1>1 DEF SlotOutputs, AllMade

(* What spends the whole bundle leaves only its own outputs. *)
LEMMA OwnsAfterAll ==
    ASSUME NEW tx, NEW t, NEW L, \A u \in L : Spends(tx, u)
    PROVE  OwnsAfter(tx, t, L) = SlotOutputs(tx, t)
BY DEF OwnsAfter

(* Two burns are counted as two, one as one. *)
LEMMA BurnsCounted ==
    ASSUME NEW tx, IsFiniteSet(DOMAIN tx.outs), NEW i \in DOMAIN tx.outs,
           tx.outs[i].script = "Burn"
    PROVE  /\ Cardinality(BurnsAt(tx)) >= 1
           /\ \A j \in DOMAIN tx.outs : j # i /\ tx.outs[j].script = "Burn" =>
                 Cardinality(BurnsAt(tx)) >= 2
<1>1. BurnsAt(tx) \subseteq DOMAIN tx.outs /\ i \in BurnsAt(tx)
    BY DEF BurnsAt
<1>2. IsFiniteSet(BurnsAt(tx))
    BY <1>1, FS_Subset
<1>3. Cardinality({i}) = 1
    BY FS_Singleton
<1>4. Cardinality({i}) <= Cardinality(BurnsAt(tx)) /\ Cardinality(BurnsAt(tx)) \in Nat
    BY <1>1, <1>2, FS_Subset, FS_CardinalityType
<1>5. ASSUME NEW j \in DOMAIN tx.outs, j # i, tx.outs[j].script = "Burn"
      PROVE  Cardinality(BurnsAt(tx)) >= 2
    <2>1. {i, j} \subseteq BurnsAt(tx)
        BY <1>1, <1>5 DEF BurnsAt
    <2>2. Cardinality({i, j}) = 2
        <3>1. {i, j} = {i} \cup {j} /\ j \notin {i} /\ IsFiniteSet({i})
            BY <1>5, FS_Singleton
        <3>2. Cardinality({i} \cup {j}) = Cardinality({i}) + 1
            BY <3>1, FS_AddElement
        <3> QED BY <3>1, <3>2, <1>3
    <2>3. Cardinality({i, j}) <= Cardinality(BurnsAt(tx))
        BY <2>1, <1>2, FS_Subset
    <2> QED BY <2>2, <2>3, <1>4
<1> QED
    BY <1>3, <1>4, <1>5

(* The outputs that builders spend. *)
LEMMA InputIds ==
    /\ \A u, s : /\ InputWithIssuance(u, s).id = u.id /\ InputWithIssuance(u, s).script = u.script
                 /\ InputWithIssuance(u, s).issuance = s
    /\ \A u : add_pset_input(u).id = u.id /\ add_pset_input(u).script = u.script
    /\ \A a, v : add_pset_input(WalletUtxo(a, v)).id = <<0, 0>>
BY DEF InputWithIssuance, add_pset_input, WalletUtxo

(* Ids tell the outputs of a bundle. *)
LEMMA OwnIs ==
    /\ \A i, s : Own(i, s).id = i /\ Own(i, s).slot = s
    /\ \A y, n : \A u \in DormantOwn(y, n) : u = Own(y, "DormantYesRt") \/ u = Own(n, "DormantNoRt")
    /\ \A y, n : Own(y, "DormantYesRt") \in DormantOwn(y, n) /\ Own(n, "DormantNoRt") \in DormantOwn(y, n)
    /\ \A y, n, c : \A u \in UnresolvedOwn(y, n, c) :
          u = Own(y, "UnresolvedYesRt") \/ u = Own(n, "UnresolvedNoRt") \/ u = Own(c, "UnresolvedCollateral")
    /\ \A y, n, c : /\ Own(y, "UnresolvedYesRt") \in UnresolvedOwn(y, n, c)
                    /\ Own(n, "UnresolvedNoRt") \in UnresolvedOwn(y, n, c)
                    /\ Own(c, "UnresolvedCollateral") \in UnresolvedOwn(y, n, c)
BY DEF Own, DormantOwn, UnresolvedOwn

(* Which of the four a set is, and of which outputs. *)
LEMMA OwnTells ==
    /\ \A y, n, c, y2, n2, c2 : UnresolvedOwn(y, n, c) = UnresolvedOwn(y2, n2, c2) =>
                                    y = y2 /\ n = n2 /\ c = c2
    /\ \A y, n, y2, n2, c2 : DormantOwn(y, n) # UnresolvedOwn(y2, n2, c2)
    /\ \A i, y2, n2, c2 : \A slot \in TerminalSlots : {Own(i, slot)} # UnresolvedOwn(y2, n2, c2)
    /\ \A i, y2, n2 : \A slot \in TerminalSlots : {Own(i, slot)} # DormantOwn(y2, n2)
    /\ \A y, n, y2, n2 : DormantOwn(y, n) = DormantOwn(y2, n2) => y = y2 /\ n = n2
<1>1. ASSUME NEW y, NEW n, NEW c, NEW y2, NEW n2, NEW c2,
             UnresolvedOwn(y, n, c) = UnresolvedOwn(y2, n2, c2)
      PROVE  y = y2 /\ n = n2 /\ c = c2
    <2>1. /\ Own(y, "UnresolvedYesRt") \in UnresolvedOwn(y2, n2, c2)
          /\ Own(n, "UnresolvedNoRt") \in UnresolvedOwn(y2, n2, c2)
          /\ Own(c, "UnresolvedCollateral") \in UnresolvedOwn(y2, n2, c2)
        BY <1>1, OwnIs
    <2> QED BY <2>1 DEF UnresolvedOwn, Own
<1>2. ASSUME NEW y, NEW n, NEW y2, NEW n2, NEW c2
      PROVE  DormantOwn(y, n) # UnresolvedOwn(y2, n2, c2)
    <2>1. Own(c2, "UnresolvedCollateral") \in UnresolvedOwn(y2, n2, c2)
        BY OwnIs
    <2>2. Own(c2, "UnresolvedCollateral") \notin DormantOwn(y, n)
        BY DEF DormantOwn, Own
    <2> QED BY <2>1, <2>2
<1>3. ASSUME NEW i, NEW y2, NEW n2, NEW c2, NEW slot \in TerminalSlots
      PROVE  {Own(i, slot)} # UnresolvedOwn(y2, n2, c2) /\ {Own(i, slot)} # DormantOwn(y2, n2)
    <2>1. Own(y2, "UnresolvedYesRt") \in UnresolvedOwn(y2, n2, c2) /\ Own(y2, "DormantYesRt") \in DormantOwn(y2, n2)
        BY OwnIs
    <2>2. Own(y2, "UnresolvedYesRt") \notin {Own(i, slot)} /\ Own(y2, "DormantYesRt") \notin {Own(i, slot)}
        BY DEF TerminalSlots, Own
    <2> QED BY <2>1, <2>2
<1>4. ASSUME NEW y, NEW n, NEW y2, NEW n2, DormantOwn(y, n) = DormantOwn(y2, n2)
      PROVE  y = y2 /\ n = n2
    <2>1. /\ Own(y, "DormantYesRt") \in DormantOwn(y2, n2)
          /\ Own(n, "DormantNoRt") \in DormantOwn(y2, n2)
        BY <1>4, OwnIs
    <2> QED BY <2>1 DEF DormantOwn, Own
<1> QED
    BY <1>1, <1>2, <1>3, <1>4

(* The ids of what is owned. *)
LEMMA OwnIds ==
    /\ \A y, n, L : L = DormantOwn(y, n) => y \in {u.id : u \in L} /\ n \in {u.id : u \in L}
    /\ \A y, n, c, L : L = UnresolvedOwn(y, n, c) =>
          y \in {u.id : u \in L} /\ n \in {u.id : u \in L} /\ c \in {u.id : u \in L}
    /\ \A c, slot, L : L = {Own(c, slot)} => c \in {u.id : u \in L}
<1>1. \A i, s, L : Own(i, s) \in L => i \in {u.id : u \in L}
    BY DEF Own
<1> QED
    BY <1>1, OwnIs

(* An issuance of a dormant market. *)
LEMMA InitialIssuanceExtends ==
    ASSUME NEW b, NEW t, NEW n \in Nat \ {0}, NEW L, L = DormantOwn(b.yes.id, b.no.id),
           NEW tx, tx = assemble_issuance("Dormant", b, n, required_collateral(n), FeeAmount).tx
    PROVE  Extends(tx, t, L, OwnsAfter(tx, t, L))
<1> DEFINE total == required_collateral(n)
           i1 == InputWithIssuance(b.yes, {n})
           i2 == InputWithIssuance(b.no, {n})
           i3 == add_pset_input(WalletUtxo("COLLATERAL", total))
           i4 == add_pset_input(WalletUtxo("COLLATERAL", FeeAmount))
           ins == <<i1, i2, i3, i4>>
           outs == IssuanceOuts(n, total) \o Change("COLLATERAL", 0) \o Change("COLLATERAL", 0)
           p == build_initial_issuance_pset(b, n, total, FeeAmount)
           M == OwnsAfter(tx, t, L)
<1>0. total \in Nat \ {0} /\ total - total = 0 /\ FeeAmount - FeeAmount = 0
    BY CovenantPrice, FeeAssumption
<1>1. IsPset(p, ins, outs, 0) /\ IssuesOuts(outs, n, total, 0, 0)
    BY <1>0 DEF build_initial_issuance_pset, IsPset, IssuesOuts
<1>2. tx = TokenBlind(p)
    BY DEF assemble_issuance, TokenBlind, Assembled
<1>3. /\ i1.id = b.yes.id /\ i2.id = b.no.id /\ i3.id = <<0, 0>> /\ i4.id = <<0, 0>>
      /\ i1.issuance # {} /\ i2.issuance # {}
    BY InputIds
<1> HIDE DEF i1, i2, i3, i4, outs, p, total, M
<1>4. tx.ins = ins /\ Blinds(tx, outs, RtPos)
    BY <1>1, <1>2, TokenBlindFields
<1>5. Creates(tx, UnresolvedOuts(total))
    BY <1>0, <1>1, <1>4, IssuanceTx
<1>6. SlotOutputs(tx, t) = UnresolvedOwn(<<t, 0>>, <<t, 1>>, <<t, 2>>) /\ AllMade(tx, t)
    BY <1>0, <1>5, UnresolvedMade
<1>7. /\ DOMAIN tx.ins = 1..4 /\ Len(tx.ins) = 4
      /\ tx.ins[1] = i1 /\ tx.ins[2] = i2 /\ tx.ins[3] = i3 /\ tx.ins[4] = i4
    BY <1>4
<1>8. \A u \in L : Spends(tx, u)
    BY <1>3, <1>7, OwnIs DEF Spends
<1>9. M = SlotOutputs(tx, t)
    BY <1>8, OwnsAfterAll DEF M
<1>10. Issues(tx, t, L, M)
    <2>1. \E y, m, c \in {u.id : u \in L} : L = DormantOwn(y, m) \/ L = UnresolvedOwn(y, m, c)
        BY OwnIds
    <2>2. Len(tx.ins) >= 2 /\ tx.ins[1].issuance # {} /\ tx.ins[2].issuance # {}
        BY <1>3, <1>7
    <2>3. M = UnresolvedOwn(<<t, 0>>, <<t, 1>>, <<t, 2>>)
        BY <1>6, <1>9
    <2> QED BY ONLY <2>1, <2>2, <2>3 DEF Issues
<1>11. MovesAll(tx, t, L, M)
    BY <1>8, <1>9, <1>10, OwnTells DEF MovesAll
<1>12. \A k \in DOMAIN tx.ins : tx.ins[k].id = <<0, 0>> \/ \E u \in L : tx.ins[k].id = u.id
    BY <1>3, <1>7, OwnIs
<1> QED
    BY <1>6, <1>9, <1>11, <1>12 DEF Extends, AllMade, M

(* A transaction that spends the three outputs of a bundle. *)
BundleIn(tx, y, n, c) ==
    \E i, j, k \in DOMAIN tx.ins :
        /\ tx.ins[i].id = y /\ tx.ins[i].script = "UnresolvedYesRt"
        /\ tx.ins[j].id = n
        /\ tx.ins[k].id = c /\ tx.ins[k].script = "UnresolvedCollateral"

LEMMA BundleSpent ==
    ASSUME NEW tx, NEW L, NEW y, NEW n, NEW c, L = UnresolvedOwn(y, n, c), BundleIn(tx, y, n, c)
    PROVE  /\ \A u \in L : Spends(tx, u)
           /\ \A y2, n2, c2 \in {u.id : u \in L} : L = UnresolvedOwn(y2, n2, c2) =>
                 \E a, d \in DOMAIN tx.ins :
                    /\ tx.ins[a].script = "UnresolvedYesRt" /\ tx.ins[a].id = y2
                    /\ tx.ins[d].script = "UnresolvedCollateral" /\ tx.ins[d].id = c2
<1>1. PICK i, j, k \in DOMAIN tx.ins :
        /\ tx.ins[i].id = y /\ tx.ins[i].script = "UnresolvedYesRt"
        /\ tx.ins[j].id = n
        /\ tx.ins[k].id = c /\ tx.ins[k].script = "UnresolvedCollateral"
    BY DEF BundleIn
<1>2. \A u \in L : Spends(tx, u)
    BY <1>1, OwnIs DEF Spends
<1>3. ASSUME NEW y2, NEW n2, NEW c2, L = UnresolvedOwn(y2, n2, c2) PROVE y2 = y /\ c2 = c
    <2>1. UnresolvedOwn(y, n, c) = UnresolvedOwn(y2, n2, c2)
        BY <1>3
    <2> QED BY ONLY <2>1, OwnTells
<1> QED
    BY <1>1, <1>2, <1>3

(* An issuance of an unresolved market. *)
LEMMA SubsequentIssuanceExtends ==
    ASSUME NEW b, NEW t, NEW n \in Nat \ {0},
           NEW L, L = UnresolvedOwn(b.yes.id, b.no.id, b.coll.id),
           b.yes.script = "UnresolvedYesRt", b.coll.script = "UnresolvedCollateral",
           b.coll.amount \in Nat \ {0},
           NEW tx, tx = assemble_issuance("Unresolved", b, n, required_collateral(n), FeeAmount).tx
    PROVE  Extends(tx, t, L, OwnsAfter(tx, t, L))
<1> DEFINE more == required_collateral(n)
           total == b.coll.amount + more
           i1 == InputWithIssuance(b.yes, {n})
           i2 == InputWithIssuance(b.no, {n})
           i3 == add_pset_input(b.coll)
           i4 == add_pset_input(WalletUtxo("COLLATERAL", more))
           i5 == add_pset_input(WalletUtxo("COLLATERAL", FeeAmount))
           ins == <<i1, i2, i3, i4, i5>>
           outs == IssuanceOuts(n, total) \o Change("COLLATERAL", 0) \o Change("COLLATERAL", 0)
           p == build_subsequent_issuance_pset(b, n, more, FeeAmount)
           M == OwnsAfter(tx, t, L)
<1>a. more \in Nat \ {0}
    BY CovenantPrice
<1>0. total \in Nat \ {0} /\ more - more = 0 /\ FeeAmount - FeeAmount = 0
    BY <1>a, FeeAssumption
<1>1. IsPset(p, ins, outs, 0) /\ IssuesOuts(outs, n, total, 0, 0)
    BY <1>0 DEF build_subsequent_issuance_pset, IsPset, IssuesOuts
<1>2. tx = TokenBlind(p)
    BY DEF assemble_issuance, TokenBlind, Assembled
<1>3. /\ i1.id = b.yes.id /\ i2.id = b.no.id /\ i3.id = b.coll.id
      /\ i4.id = <<0, 0>> /\ i5.id = <<0, 0>>
      /\ i1.script = "UnresolvedYesRt" /\ i3.script = "UnresolvedCollateral"
      /\ i1.issuance # {} /\ i2.issuance # {}
    BY InputIds
<1> HIDE DEF i1, i2, i3, i4, i5, outs, p, total, more, M
<1>4. tx.ins = ins /\ Blinds(tx, outs, RtPos)
    BY <1>1, <1>2, TokenBlindFields
<1>5. Creates(tx, UnresolvedOuts(total))
    BY <1>0, <1>1, <1>4, IssuanceTx
<1>6. SlotOutputs(tx, t) = UnresolvedOwn(<<t, 0>>, <<t, 1>>, <<t, 2>>) /\ AllMade(tx, t)
    BY <1>0, <1>5, UnresolvedMade
<1>7. /\ DOMAIN tx.ins = 1..5 /\ Len(tx.ins) = 5
      /\ tx.ins[1] = i1 /\ tx.ins[2] = i2 /\ tx.ins[3] = i3 /\ tx.ins[4] = i4 /\ tx.ins[5] = i5
    BY <1>4
<1>8. /\ \A u \in L : Spends(tx, u)
      /\ \A y2, n2, c2 \in {u.id : u \in L} : L = UnresolvedOwn(y2, n2, c2) =>
                 \E a, d \in DOMAIN tx.ins :
                    /\ tx.ins[a].script = "UnresolvedYesRt" /\ tx.ins[a].id = y2
                    /\ tx.ins[d].script = "UnresolvedCollateral" /\ tx.ins[d].id = c2
    <2>1. 1 \in DOMAIN tx.ins /\ 2 \in DOMAIN tx.ins /\ 3 \in DOMAIN tx.ins
        BY <1>7
    <2>2. /\ tx.ins[1].id = b.yes.id /\ tx.ins[1].script = "UnresolvedYesRt"
          /\ tx.ins[2].id = b.no.id
          /\ tx.ins[3].id = b.coll.id /\ tx.ins[3].script = "UnresolvedCollateral"
        BY <1>3, <1>7
    <2>3. L = UnresolvedOwn(b.yes.id, b.no.id, b.coll.id)
        OBVIOUS
    <2>4. BundleIn(tx, b.yes.id, b.no.id, b.coll.id)
        BY ONLY <2>1, <2>2 DEF BundleIn
    <2> QED BY ONLY <2>3, <2>4, BundleSpent
<1>9. M = SlotOutputs(tx, t)
    BY <1>8, OwnsAfterAll DEF M
<1>10. Issues(tx, t, L, M)
    <2>1. \E y, m, c \in {u.id : u \in L} : L = DormantOwn(y, m) \/ L = UnresolvedOwn(y, m, c)
        BY OwnIds
    <2>2. Len(tx.ins) >= 2 /\ tx.ins[1].issuance # {} /\ tx.ins[2].issuance # {}
        BY <1>3, <1>7
    <2>3. M = UnresolvedOwn(<<t, 0>>, <<t, 1>>, <<t, 2>>)
        BY <1>6, <1>9
    <2> QED BY ONLY <2>1, <2>2, <2>3 DEF Issues
<1>11. MovesAll(tx, t, L, M)
    BY ONLY <1>8, <1>9, <1>10 DEF MovesAll
<1>12. \A k \in DOMAIN tx.ins : tx.ins[k].id = <<0, 0>> \/ \E u \in L : tx.ins[k].id = u.id
    BY <1>3, <1>7, OwnIs
<1> QED
    BY <1>6, <1>9, <1>11, <1>12 DEF Extends, AllMade, M

(* A resolution or an expiry. *)
LEMMA ConclusionExtends ==
    ASSUME NEW b, NEW t, NEW target \in TerminalSlots, NEW lock,
           NEW L, L = UnresolvedOwn(b.yes.id, b.no.id, b.coll.id),
           b.yes.script = "UnresolvedYesRt", b.coll.script = "UnresolvedCollateral",
           b.coll.amount \in Nat \ {0},
           NEW tx, tx = TokenBlind(TerminalPset(b, target, FeeAmount, lock))
    PROVE  Extends(tx, t, L, OwnsAfter(tx, t, L))
<1> DEFINE v == b.coll.amount
           i1 == add_pset_input(b.yes)
           i2 == add_pset_input(b.no)
           i3 == add_pset_input(b.coll)
           i4 == add_pset_input(WalletUtxo("COLLATERAL", FeeAmount))
           ins == <<i1, i2, i3, i4>>
           outs == << burn_txout("YES_RT", 1), burn_txout("NO_RT", 1),
                      explicit_txout("COLLATERAL", v, target) >>
                   \o Change("COLLATERAL", 0) \o << fee_txout >>
           p == TerminalPset(b, target, FeeAmount, lock)
           M == OwnsAfter(tx, t, L)
<1>0. FeeAmount - FeeAmount = 0 /\ v \in Nat \ {0}
    BY FeeAssumption
<1>1. IsPset(p, ins, outs, lock) /\ TerminalOuts(outs, v, target, 0)
    BY <1>0 DEF TerminalPset, IsPset, TerminalOuts
<1>d. DOMAIN outs = 1..4
    BY DEF Change
<1>3. /\ i1.id = b.yes.id /\ i2.id = b.no.id /\ i3.id = b.coll.id /\ i4.id = <<0, 0>>
      /\ i1.script = "UnresolvedYesRt" /\ i3.script = "UnresolvedCollateral"
    BY InputIds
<1>t. tx = TokenBlind(p)
    OBVIOUS
<1> HIDE DEF i1, i2, i3, i4, outs, p, v, M
<1>4. tx.ins = ins /\ Blinds(tx, outs, RtPos) /\ tx.outs = BlindOuts(outs, RtPos)
    BY ONLY <1>1, <1>t, TokenBlindFields, TokenBlinds
<1>m. PICK st \in Terminal : target = TerminalSlot(st)
    BY DEF Terminal, TerminalSlot, TerminalSlots
<1>5. Creates(tx, ConcludedOuts(target, v))
    BY <1>0, <1>1, <1>4, <1>m, TerminalTx
<1>6. SlotOutputs(tx, t) = {Own(<<t, 2>>, target)} /\ AllMade(tx, t)
    BY <1>0, <1>5, ConcludedMade
<1>7. /\ DOMAIN tx.ins = 1..4
      /\ tx.ins[1] = i1 /\ tx.ins[2] = i2 /\ tx.ins[3] = i3 /\ tx.ins[4] = i4
    BY <1>4
<1>8. /\ \A u \in L : Spends(tx, u)
      /\ \A y2, n2, c2 \in {u.id : u \in L} : L = UnresolvedOwn(y2, n2, c2) =>
                 \E a, d \in DOMAIN tx.ins :
                    /\ tx.ins[a].script = "UnresolvedYesRt" /\ tx.ins[a].id = y2
                    /\ tx.ins[d].script = "UnresolvedCollateral" /\ tx.ins[d].id = c2
    <2>1. 1 \in DOMAIN tx.ins /\ 2 \in DOMAIN tx.ins /\ 3 \in DOMAIN tx.ins
        BY <1>7
    <2>2. /\ tx.ins[1].id = b.yes.id /\ tx.ins[1].script = "UnresolvedYesRt"
          /\ tx.ins[2].id = b.no.id
          /\ tx.ins[3].id = b.coll.id /\ tx.ins[3].script = "UnresolvedCollateral"
        BY <1>3, <1>7
    <2>3. L = UnresolvedOwn(b.yes.id, b.no.id, b.coll.id)
        OBVIOUS
    <2>4. BundleIn(tx, b.yes.id, b.no.id, b.coll.id)
        BY ONLY <2>1, <2>2 DEF BundleIn
    <2> QED BY ONLY <2>3, <2>4, BundleSpent
<1>9. M = SlotOutputs(tx, t)
    BY <1>8, OwnsAfterAll DEF M
<1>b. Cardinality(BurnsAt(tx)) >= 2
    <2>1. DOMAIN tx.outs = 1..4 /\ IsFiniteSet(DOMAIN tx.outs)
        <3>1. DOMAIN tx.outs = 1..4
            BY <1>4, <1>d DEF BlindOuts
        <3>2. PICK m \in Nat : m = 4
            OBVIOUS
        <3>3. IsFiniteSet(1..m)
            BY ONLY <3>2, FinitePrefix
        <3> QED BY ONLY <3>1, <3>2, <3>3
    <2>2. tx.outs[1] = RtOut("Burn", "YES_RT") /\ tx.outs[2] = RtOut("Burn", "NO_RT")
        <3>1. target \in MarketSlot
            BY DEF TerminalSlots, MarketSlot
        <3> QED BY <3>1, <1>0, <1>1, <1>4, TerminalPays
    <2>3. tx.outs[1].script = "Burn" /\ tx.outs[2].script = "Burn"
        BY <2>2 DEF RtOut
    <2>4. 1 \in DOMAIN tx.outs /\ 2 \in DOMAIN tx.outs /\ 1 # 2
        BY <2>1
    <2> QED BY ONLY <2>1, <2>3, <2>4, BurnsCounted
<1>10. Concludes(tx, t, L, M)
    <2>1. \E y, m, c \in {u.id : u \in L} : L = UnresolvedOwn(y, m, c)
        BY OwnIds
    <2>2. \E slot \in TerminalSlots : M = {Own(<<t, 2>>, slot)}
        BY <1>6, <1>9
    <2> QED BY ONLY <2>1, <2>2, <1>b DEF Concludes
<1>11. MovesAll(tx, t, L, M)
    BY ONLY <1>8, <1>9, <1>10 DEF MovesAll
<1>12. \A k \in DOMAIN tx.ins : tx.ins[k].id = <<0, 0>> \/ \E u \in L : tx.ins[k].id = u.id
    BY <1>3, <1>7, OwnIs
<1> QED
    BY <1>6, <1>9, <1>11, <1>12 DEF Extends, AllMade, M

(* A few burns at known places. *)
LEMMA BurnsFew ==
    ASSUME NEW tx, NEW m \in Nat, DOMAIN tx.outs = 1..m, NEW i \in 1..m, NEW j \in 1..m,
           tx.outs[i].script = "Burn", tx.outs[j].script = "Burn"
    PROVE  /\ Cardinality(BurnsAt(tx)) >= 1
           /\ i # j => Cardinality(BurnsAt(tx)) >= 2
<1>1. IsFiniteSet(1..m)
    BY ONLY FinitePrefix, m \in Nat
<1>2. IsFiniteSet(DOMAIN tx.outs) /\ i \in DOMAIN tx.outs /\ j \in DOMAIN tx.outs
    BY <1>1
<1> QED
    BY ONLY <1>2, BurnsCounted, tx.outs[i].script = "Burn", tx.outs[j].script = "Burn"

(* A cancellation that leaves some pairs. *)
LEMMA PartialExtends ==
    ASSUME NEW b, NEW t, NEW n \in Nat \ {0},
           NEW L, L = UnresolvedOwn(b.yes.id, b.no.id, b.coll.id),
           b.coll.id # b.yes.id, b.coll.id # b.no.id,
           b.yes.id # <<0, 0>>, b.no.id # <<0, 0>>,
           b.coll.amount \in Nat \ {0}, b.coll.amount > required_collateral(n),
           NEW tx, tx = assemble_cancellation(b, n, n, n, FeeAmount).tx
    PROVE  Extends(tx, t, L, OwnsAfter(tx, t, L))
<1> DEFINE refund == required_collateral(n)
           left == b.coll.amount - refund
           i1 == add_pset_input(b.coll)
           i2 == add_pset_input(WalletUtxo("YES", n))
           i3 == add_pset_input(WalletUtxo("NO", n))
           i4 == add_pset_input(WalletUtxo("COLLATERAL", FeeAmount))
           ins == <<i1, i2, i3, i4>>
           s == << explicit_txout("COLLATERAL", left, "UnresolvedCollateral"),
                   burn_txout("YES", n), burn_txout("NO", n),
                   explicit_txout("COLLATERAL", refund, "Wallet") >>
                \o Change("YES", 0) \o Change("NO", 0) \o Change("COLLATERAL", 0)
           outs == s \o <<fee_txout>>
           p == build_cancellation_pset(b, n, n, n, FeeAmount)
           q == ensure_fee_output_last(p)
           M == OwnsAfter(tx, t, L)
           y == b.yes.id
           m == b.no.id
           c == b.coll.id
<1>r. refund \in Nat \ {0}
    BY CovenantPrice
<1>0. /\ left \in Nat \ {0} /\ left > 0 /\ b.coll.amount # refund
      /\ FeeAmount - FeeAmount = 0 /\ n - n = 0 /\ n \in Nat
    BY <1>r, FeeAssumption
<1>1. IsPset(p, ins, outs, 0)
    BY <1>0 DEF build_cancellation_pset, IsPset
<1>2. PartialOuts(s, n, left, refund, 0, 0, 0) /\ WithFee(outs, s) /\ outs = s \o <<fee_txout>>
    BY DEF PartialOuts, WithFee
<1>3. tx = PlainBlind(q)
    BY <1>0 DEF assemble_cancellation, PlainBlind, Assembled
<1>d. DOMAIN outs = 1..5
    BY DEF Change
<1>i. i1.id = c /\ i2.id = <<0, 0>> /\ i3.id = <<0, 0>> /\ i4.id = <<0, 0>>
    BY InputIds
<1>l. L = UnresolvedOwn(y, m, c) /\ c # y /\ c # m /\ y # <<0, 0>> /\ m # <<0, 0>>
    OBVIOUS
<1> HIDE DEF i1, i2, i3, i4, s, outs, p, left, refund, M, y, m, c
<1>4. /\ s \in Seq(OutRec)
      /\ BlindOuts(outs, {})[2] = BurnOut("YES", n) /\ BlindOuts(outs, {})[3] = BurnOut("NO", n)
    BY <1>0, <1>r, <1>2, PartialPays
<1>5. q = p
    BY <1>1, <1>2, <1>4, FeeIsLast
<1> HIDE DEF q
<1>6. tx.ins = ins /\ Blinds(tx, outs, {}) /\ tx.outs = BlindOuts(outs, {})
    BY <1>1, <1>3, <1>5, PlainBlindFields, PlainBlinds
<1>7. Creates(tx, <<CollOut("UnresolvedCollateral", left)>>)
    BY <1>0, <1>r, <1>2, <1>6, PartialTx DEF Leaves, LeftOuts
<1>8. SlotOutputs(tx, t) = {Own(<<t, 0>>, "UnresolvedCollateral")} /\ AllMade(tx, t)
    BY <1>0, <1>7, CollateralMade
<1>9. Cardinality(BurnsAt(tx)) >= 2
    <2>1. tx.outs[2].script = "Burn" /\ tx.outs[3].script = "Burn"
        BY <1>4, <1>6 DEF BurnOut
    <2>2. DOMAIN tx.outs = 1..5
        BY <1>6, <1>d DEF BlindOuts
    <2>3. PICK e \in Nat, i \in 1..5, j \in 1..5 : e = 5 /\ i = 2 /\ j = 3
        OBVIOUS
    <2>5. e \in Nat /\ i \in 1..e /\ j \in 1..e
        BY <2>3
    <2>4. tx.outs[i].script = "Burn" /\ tx.outs[j].script = "Burn" /\ DOMAIN tx.outs = 1..e /\ i # j
        BY <2>1, <2>2, <2>3
    <2> QED BY ONLY <2>4, <2>5, BurnsFew
<1>10. /\ DOMAIN tx.ins = 1..4
       /\ tx.ins[1] = i1 /\ tx.ins[2] = i2 /\ tx.ins[3] = i3 /\ tx.ins[4] = i4
    BY <1>6
<1>11. \A u : Spends(tx, u) <=> u.id = c \/ u.id = <<0, 0>>
    BY <1>10, <1>i DEF Spends
<1>12. /\ ~Spends(tx, Own(y, "UnresolvedYesRt")) /\ ~Spends(tx, Own(m, "UnresolvedNoRt"))
       /\ Spends(tx, Own(c, "UnresolvedCollateral"))
    <2>1. /\ Own(y, "UnresolvedYesRt").id = y /\ Own(m, "UnresolvedNoRt").id = m
          /\ Own(c, "UnresolvedCollateral").id = c
        BY DEF Own
    <2>2. ~Spends(tx, Own(y, "UnresolvedYesRt"))
        BY ONLY <2>1, <1>11, <1>l
    <2>3. ~Spends(tx, Own(m, "UnresolvedNoRt"))
        BY ONLY <2>1, <1>11, <1>l
    <2>4. Spends(tx, Own(c, "UnresolvedCollateral"))
        BY ONLY <2>1, <1>11
    <2> QED BY <2>2, <2>3, <2>4
<1>13. M = UnresolvedOwn(y, m, <<t, 0>>)
    <2>1. {u \in L : ~Spends(tx, u)} = {Own(y, "UnresolvedYesRt"), Own(m, "UnresolvedNoRt")}
        BY <1>12, <1>l, OwnIs
    <2> QED BY <2>1, <1>8 DEF M, OwnsAfter, UnresolvedOwn
<1>14. MovesCollateral(tx, t, L, M)
    <2>1. y \in {u.id : u \in L} /\ m \in {u.id : u \in L} /\ c \in {u.id : u \in L}
        BY <1>l, OwnIds
    <2>2. SlotOutputs(tx, t) = {Own(<<t, 0>>, "UnresolvedCollateral")}
        BY <1>8
    <2> QED BY ONLY <2>1, <2>2, <1>l, <1>9, <1>12, <1>13 DEF MovesCollateral
<1>15. \A k \in DOMAIN tx.ins : tx.ins[k].id = <<0, 0>> \/ \E u \in L : tx.ins[k].id = u.id
    BY <1>10, <1>i, <1>l, OwnIs
<1>16. \A u \in M : u \in L \/ Made(tx, u, t)
    BY <1>8 DEF M, OwnsAfter, AllMade
<1> QED
    BY <1>14, <1>15, <1>16 DEF Extends, M

(* A cancellation of all pairs. *)
LEMMA FullExtends ==
    ASSUME NEW b, NEW t, NEW n \in Nat \ {0},
           NEW L, L = UnresolvedOwn(b.yes.id, b.no.id, b.coll.id),
           b.yes.script = "UnresolvedYesRt", b.coll.script = "UnresolvedCollateral",
           b.coll.amount = required_collateral(n),
           NEW tx, tx = assemble_cancellation(b, n, n, n, FeeAmount).tx
    PROVE  Extends(tx, t, L, OwnsAfter(tx, t, L))
<1> DEFINE refund == required_collateral(n)
           i1 == add_pset_input(b.coll)
           i2 == add_pset_input(b.yes)
           i3 == add_pset_input(b.no)
           i4 == add_pset_input(WalletUtxo("YES", n))
           i5 == add_pset_input(WalletUtxo("NO", n))
           i6 == add_pset_input(WalletUtxo("COLLATERAL", FeeAmount))
           ins == <<i1, i2, i3, i4, i5, i6>>
           s == << reissuance_token_output("DormantYesRt"), reissuance_token_output("DormantNoRt"),
                   burn_txout("YES", n), burn_txout("NO", n),
                   explicit_txout("COLLATERAL", refund, "Wallet") >>
                \o Change("COLLATERAL", 0)
           outs == s \o <<fee_txout>>
           p == build_cancellation_pset(b, n, n, n, FeeAmount)
           q == ensure_fee_output_last(p)
           M == OwnsAfter(tx, t, L)
<1>r. refund \in Nat \ {0}
    BY CovenantPrice
<1>0. /\ b.coll.amount = refund /\ ~(b.coll.amount - refund > 0)
      /\ FeeAmount - FeeAmount = 0 /\ n \in Nat
    BY <1>r, FeeAssumption
<1>1. IsPset(p, ins, outs, 0)
    BY <1>0 DEF build_cancellation_pset, IsPset
<1>2. FullOuts(s, n, refund, 0) /\ WithFee(outs, s) /\ outs = s \o <<fee_txout>>
    BY DEF FullOuts, WithFee
<1>3. tx = TokenBlind(q)
    BY <1>0 DEF assemble_cancellation, TokenBlind, Assembled
<1>d. DOMAIN outs = 1..6
    BY DEF Change
<1>i. /\ i1.id = b.coll.id /\ i2.id = b.yes.id /\ i3.id = b.no.id
      /\ i1.script = "UnresolvedCollateral" /\ i2.script = "UnresolvedYesRt"
      /\ i4.id = <<0, 0>> /\ i5.id = <<0, 0>> /\ i6.id = <<0, 0>>
    BY InputIds
<1> HIDE DEF i1, i2, i3, i4, i5, i6, s, outs, p, refund, M
<1>4. /\ s \in Seq(OutRec)
      /\ BlindOuts(outs, RtPos)[3] = BurnOut("YES", n) /\ BlindOuts(outs, RtPos)[4] = BurnOut("NO", n)
    <2>1. n \in Nat \ {0} /\ 0 \in Nat
        OBVIOUS
    <2>2. PICK o : o = BlindOuts(outs, RtPos)
        OBVIOUS
    <2>3. s \in Seq(OutRec) /\ o[3] = BurnOut("YES", n) /\ o[4] = BurnOut("NO", n)
        BY ONLY <2>1, <2>2, <1>r, <1>2, FullPays
    <2> QED BY <2>2, <2>3
<1>5. q = p
    BY <1>1, <1>2, <1>4, FeeIsLast
<1> HIDE DEF q
<1>6. tx.ins = ins /\ Blinds(tx, outs, RtPos) /\ tx.outs = BlindOuts(outs, RtPos)
    BY <1>1, <1>3, <1>5, TokenBlindFields, TokenBlinds
<1>7. Creates(tx, DormantOuts)
    BY <1>0, <1>r, <1>2, <1>6, FullTx
<1>8. SlotOutputs(tx, t) = DormantOwn(<<t, 0>>, <<t, 1>>) /\ AllMade(tx, t)
    BY <1>7, DormantMade
<1>9. Cardinality(BurnsAt(tx)) >= 2
    <2>1. tx.outs[3].script = "Burn" /\ tx.outs[4].script = "Burn"
        BY <1>4, <1>6 DEF BurnOut
    <2>2. DOMAIN tx.outs = 1..6
        BY <1>6, <1>d DEF BlindOuts
    <2>3. PICK e \in Nat, i \in 1..6, j \in 1..6 : e = 6 /\ i = 3 /\ j = 4
        OBVIOUS
    <2>5. e \in Nat /\ i \in 1..e /\ j \in 1..e
        BY <2>3
    <2>4. tx.outs[i].script = "Burn" /\ tx.outs[j].script = "Burn" /\ DOMAIN tx.outs = 1..e /\ i # j
        BY <2>1, <2>2, <2>3
    <2> QED BY ONLY <2>4, <2>5, BurnsFew
<1>10. /\ DOMAIN tx.ins = 1..6
       /\ tx.ins[1] = i1 /\ tx.ins[2] = i2 /\ tx.ins[3] = i3 /\ tx.ins[4] = i4
       /\ tx.ins[5] = i5 /\ tx.ins[6] = i6
    BY <1>6
<1>11. /\ \A u \in L : Spends(tx, u)
      /\ \A y2, n2, c2 \in {u.id : u \in L} : L = UnresolvedOwn(y2, n2, c2) =>
                 \E a, d \in DOMAIN tx.ins :
                    /\ tx.ins[a].script = "UnresolvedYesRt" /\ tx.ins[a].id = y2
                    /\ tx.ins[d].script = "UnresolvedCollateral" /\ tx.ins[d].id = c2
    <2>1. 1 \in DOMAIN tx.ins /\ 2 \in DOMAIN tx.ins /\ 3 \in DOMAIN tx.ins
        BY <1>10
    <2>2. /\ tx.ins[2].id = b.yes.id /\ tx.ins[2].script = "UnresolvedYesRt"
          /\ tx.ins[3].id = b.no.id
          /\ tx.ins[1].id = b.coll.id /\ tx.ins[1].script = "UnresolvedCollateral"
        BY <1>10, <1>i
    <2>3. L = UnresolvedOwn(b.yes.id, b.no.id, b.coll.id)
        OBVIOUS
    <2>4. BundleIn(tx, b.yes.id, b.no.id, b.coll.id)
        BY ONLY <2>1, <2>2 DEF BundleIn
    <2> QED BY ONLY <2>3, <2>4, BundleSpent
<1>12. M = SlotOutputs(tx, t)
    BY <1>11, OwnsAfterAll DEF M
<1>13. Cancels(tx, t, L, M)
    <2>1. \E y, m, c \in {u.id : u \in L} : L = UnresolvedOwn(y, m, c)
        BY OwnIds
    <2>2. M = DormantOwn(<<t, 0>>, <<t, 1>>)
        BY <1>8, <1>12
    <2> QED BY ONLY <2>1, <2>2, <1>9 DEF Cancels
<1>14. MovesAll(tx, t, L, M)
    BY ONLY <1>11, <1>12, <1>13 DEF MovesAll
<1>15. \A k \in DOMAIN tx.ins : tx.ins[k].id = <<0, 0>> \/ \E u \in L : tx.ins[k].id = u.id
    BY <1>10, <1>i, OwnIs
<1> QED
    BY <1>8, <1>12, <1>14, <1>15 DEF Extends, AllMade, M

(* A redemption, which may take all the collateral. *)
LEMMA RedemptionExtends ==
    ASSUME NEW b, NEW t, NEW slot \in TerminalSlots, NEW asset \in Tokens, NEW n \in Nat \ {0},
           NEW payout \in Nat \ {0}, payout <= b.coll.amount, NEW lock,
           NEW L, L = {Own(b.coll.id, slot)},
           b.coll.script = slot, b.coll.amount \in Nat \ {0},
           NEW q, q = RedemptionPset(b, asset, n, payout, n, FeeAmount, lock),
           NEW p, p = ensure_fee_output_last(q), NEW tx, tx = PlainBlind(p)
    PROVE  Extends(tx, t, L, OwnsAfter(tx, t, L))
<1> DEFINE rest == b.coll.amount - payout
           base == RedemptionBase(slot, asset, n, rest, payout)
           i1 == add_pset_input(b.coll)
           i2 == add_pset_input(WalletUtxo(asset, n))
           i3 == add_pset_input(WalletUtxo("COLLATERAL", FeeAmount))
           ins == <<i1, i2, i3>>
           s == base \o Change(asset, n - n) \o Change("COLLATERAL", FeeAmount - FeeAmount)
           outs == s \o <<fee_txout>>
           M == OwnsAfter(tx, t, L)
           c == b.coll.id
<1>0. rest \in Nat /\ FeeAmount - FeeAmount = 0 /\ n - n = 0 /\ n \in Nat /\ 0 \in Nat
    BY FeeAssumption
<1>1. q = [ins |-> ins, outs |-> outs, lock |-> lock]
    BY DEF RedemptionPset, RedemptionBase
<1>2. IsPset(q, ins, outs, lock)
    BY <1>1 DEF IsPset
<1>3. RedemptionOuts(s, base, asset, 0, 0) /\ WithFee(outs, s) /\ outs = s \o <<fee_txout>>
    BY <1>0 DEF RedemptionOuts, WithFee
<1>4. slot \in MarketSlot
    BY DEF MarketSlot, TerminalSlots
<1>5. base = RedemptionBase(slot, asset, n, rest, payout)
    OBVIOUS
<1>d. DOMAIN outs = IF rest > 0 THEN 1..4 ELSE 1..3
    <2>1. Change(asset, n - n) = <<>>
        BY <1>0 DEF Change
    <2>2. Change("COLLATERAL", FeeAmount - FeeAmount) = <<>>
        BY <1>0 DEF Change
    <2>3. outs = ((base \o <<>>) \o <<>>) \o <<fee_txout>>
        BY <2>1, <2>2
    <2> DEFINE o1 == explicit_txout("COLLATERAL", rest, slot)
               o2 == burn_txout(asset, n)
               o3 == explicit_txout("COLLATERAL", payout, "Wallet")
    <2>4. base = IF rest > 0 THEN <<o1, o2, o3>> ELSE <<o2, o3>>
        BY DEF RedemptionBase
    <2> HIDE DEF outs, base, rest, o1, o2, o3
    <2>5. CASE rest > 0
        <3>1. base = <<o1, o2, o3>>
            BY <2>4, <2>5
        <3> QED BY ONLY <2>3, <3>1, <2>5
    <2>6. CASE ~(rest > 0)
        <3>1. base = <<o2, o3>>
            BY <2>4, <2>6
        <3> QED BY ONLY <2>3, <3>1, <2>6
    <2> QED BY <2>5, <2>6
<1>i. i1.id = c /\ i2.id = <<0, 0>> /\ i3.id = <<0, 0>>
    BY InputIds
<1>l. L = {Own(c, slot)}
    OBVIOUS
<1> HIDE DEF i1, i2, i3, s, outs, base, rest, M, c
<1>6. /\ s \in Seq(OutRec)
      /\ rest > 0 => BlindOuts(outs, {})[2] = BurnOut(asset, n)
      /\ rest = 0 => BlindOuts(outs, {})[1] = BurnOut(asset, n)
    <2>1. PICK o : o = BlindOuts(outs, {})
        OBVIOUS
    <2>2. /\ s \in Seq(OutRec)
          /\ rest > 0 => o[1] = CollOut(slot, rest) /\ o[2] = BurnOut(asset, n)
          /\ rest = 0 => o[1] = BurnOut(asset, n)
        BY <1>0, <1>3, <1>4, <1>5, <2>1, RedemptionPays
    <2> QED BY <2>1, <2>2
<1>7. p = q
    BY <1>2, <1>3, <1>6, FeeIsLast
<1>8. tx.ins = ins /\ Blinds(tx, outs, {}) /\ tx.outs = BlindOuts(outs, {})
    BY <1>2, <1>7, PlainBlindFields, PlainBlinds
<1>9. Creates(tx, RedeemedOuts(slot, rest))
    <2>1. PICK st \in Terminal : slot = TerminalSlot(st)
        BY DEF Terminal, TerminalSlot, TerminalSlots
    <2>2. Redeemed(tx, slot, asset, n, rest, 0)
        <3>1. payout \in Nat /\ n \in Nat /\ rest \in Nat /\ 0 \in Nat
            BY <1>0
        <3>2. asset \in Tokens
            OBVIOUS
        <3>3. Blinds(tx, outs, {})
            BY <1>8
        <3> QED BY ONLY <2>1, <3>1, <3>2, <3>3, <1>3, <1>5, RedemptionTx
    <2> QED BY <2>2 DEF Redeemed
<1>10. /\ SlotOutputs(tx, t) = {} \/ SlotOutputs(tx, t) = {Own(<<t, 0>>, slot)}
       /\ AllMade(tx, t)
    <2>1. CASE rest > 0
        <3>1. Creates(tx, <<CollOut(slot, rest)>>) /\ rest \in Nat \ {0}
            BY <1>0, <1>9, <2>1 DEF RedeemedOuts
        <3> QED BY <3>1, CollateralMade
    <2>2. CASE ~(rest > 0)
        <3>1. Creates(tx, <<NoOut>>)
            BY <1>9, <2>2 DEF RedeemedOuts
        <3> QED BY <3>1, NothingMade
    <2> QED BY <2>1, <2>2
<1>11. Cardinality(BurnsAt(tx)) >= 1
    <2>1. PICK m \in Nat : DOMAIN outs = 1..m /\ m = IF rest > 0 THEN 4 ELSE 3
        BY <1>d
    <2>2. PICK i \in 1..m : tx.outs[i].script = "Burn"
        <3>1. CASE rest > 0
            BY <2>1, <3>1, <1>6, <1>8 DEF BurnOut
        <3>2. CASE rest = 0
            BY <2>1, <3>2, <1>6, <1>8 DEF BurnOut
        <3> QED BY <3>1, <3>2, <1>0
    <2>3. DOMAIN tx.outs = 1..m
        BY <2>1, <1>8 DEF BlindOuts
    <2> QED BY ONLY <2>2, <2>3, m \in Nat, BurnsFew
<1>12. /\ DOMAIN tx.ins = 1..3
       /\ tx.ins[1] = i1 /\ tx.ins[2] = i2 /\ tx.ins[3] = i3
    BY <1>8
<1>13. \A u \in L : Spends(tx, u)
    BY <1>12, <1>i, <1>l, OwnIs DEF Spends
<1>14. M = SlotOutputs(tx, t)
    BY <1>13, OwnsAfterAll DEF M
<1>15. RedeemsFrom(tx, t, L, M)
    <2>1. c \in {u.id : u \in L}
        BY <1>l, OwnIds
    <2>2. M = {} \/ M = {Own(<<t, 0>>, slot)}
        BY <1>10, <1>14
    <2> QED BY <2>1, <2>2, <1>11, <1>l DEF RedeemsFrom
<1>16. MovesAll(tx, t, L, M)
    BY <1>13, <1>14, <1>15, <1>l, OwnTells DEF MovesAll
<1>17. \A k \in DOMAIN tx.ins : tx.ins[k].id = <<0, 0>> \/ \E u \in L : tx.ins[k].id = u.id
    BY <1>12, <1>i, <1>l, OwnIs
<1> QED
    BY <1>10, <1>14, <1>16, <1>17 DEF Extends, AllMade, M

(* A deposit of a third party. *)
LEMMA DepositExtends ==
    ASSUME NEW tx, NEW t, NEW L, \A u \in L : u.id # <<0, 0>>, NEW v,
           tx.ins = <<add_pset_input(WalletUtxo("COLLATERAL", v))>>
    PROVE  Extends(tx, t, L, L)
<1>1. DOMAIN tx.ins = {1} /\ tx.ins[1].id = <<0, 0>>
    BY InputIds
<1>2. MovesNothing(tx, L, L)
    BY <1>1 DEF MovesNothing, Spends
<1> QED
    BY <1>1, <1>2 DEF Extends

-----------------------------------------------------------------------------
(* The chain goes on. *)

ChainOK ==
    /\ IsSeq(chain) /\ IsSeq(lineage) /\ Len(chain) = Len(lineage) /\ Len(chain) \in Nat
    /\ Len(chain) >= 1 /\ HistoryOK(chain, lineage)

(* An output the market owns is on the chain, at its script. *)
LEMMA LiveHeld ==
    ASSUME ChainOK
    PROVE  /\ Shaped(Live)
           /\ \A u \in Live : /\ u = Own(u.id, u.slot) /\ u.id # <<0, 0>>
                              /\ Held(chain[u.id[1]].outs[u.id[2] + 1], u.slot)
           /\ \A u, w \in Live : u.id = w.id => u.slot = w.slot
<1> DEFINE n == Len(chain)
           o(u) == chain[u.id[1]].outs[u.id[2] + 1]
<1>1. n \in 1..n /\ Shaped(lineage[n]) /\ \A u \in lineage[n] : Owned(chain, u, n)
    BY HistoryIs DEF ChainOK
<1>2. ASSUME NEW u \in lineage[n]
      PROVE  u = Own(u.id, u.slot) /\ u.id # <<0, 0>> /\ Held(o(u), u.slot)
    <2>1. PICK j \in 1..n : Made(chain[j], u, j)
        BY <1>1 DEF Owned
    <2>2. PICK k \in 0..2 : u.id = <<j, k>> /\ Held(chain[j].outs[k + 1], u.slot)
        BY <2>1 DEF Made
    <2>3. u.id[1] = j /\ u.id[2] = k /\ j # 0
        BY <2>2
    <2>4. u.id # <<0, 0>>
        BY <2>2, <2>3
    <2> QED BY <2>1, <2>2, <2>3, <2>4 DEF Made
<1>3. \A u, w \in lineage[n] : u.id = w.id => u.slot = w.slot
    BY <1>2 DEF Held
<1> QED
    BY <1>1, <1>2, <1>3 DEF Live

(* The UTXO of an asset that only u has. *)
LEMMA LiveUtxoIs ==
    ASSUME ChainOK, NEW u \in Live, NEW a, a = SlotAsset(u.slot),
           \A w \in Live : SlotAsset(w.slot) = a => w = u
    PROVE  /\ LiveUtxo(a).id = u.id /\ LiveUtxo(a).script = u.slot
           /\ LiveUtxo(a).amount \in Nat \ {0}
<1> DEFINE o(w) == chain[w.id[1]].outs[w.id[2] + 1]
           us == {w \in Live : o(w).asset = a}
<1>1. \A w \in Live : Held(o(w), w.slot)
    BY LiveHeld
<1>2. \A w \in Live : o(w).asset = SlotAsset(w.slot)
    BY <1>1 DEF Held
<1>3. us = {u}
    BY <1>2
<1>4. o(u).amount \in Nat \ {0}
    BY <1>1 DEF Held
<1> HIDE DEF o
<1>5. LiveUtxo(a) = [id |-> u.id, script |-> u.slot, asset |-> a,
                     amount |-> o(u).amount, conf |-> o(u).conf]
    <2>1. us # {} /\ (CHOOSE v \in us : TRUE) = u
        BY <1>3
    <2> QED BY <2>1 DEF LiveUtxo, o
<1> QED
    BY <1>4, <1>5

(* The bundle of a market, by what it owns. *)
LEMMA LiveBundleIs ==
    ASSUME ChainOK
    PROVE  LET b == LiveBundle IN
           /\ \A y, n : Live = DormantOwn(y, n) => b.yes.id = y /\ b.no.id = n
           /\ \A y, n, c : Live = UnresolvedOwn(y, n, c) =>
                 /\ b.yes.id = y /\ b.no.id = n /\ b.coll.id = c
                 /\ b.yes.script = "UnresolvedYesRt" /\ b.coll.script = "UnresolvedCollateral"
                 /\ b.coll.amount \in Nat \ {0}
                 /\ c # y /\ c # n /\ y # <<0, 0>> /\ n # <<0, 0>>
           /\ \A c : \A slot \in TerminalSlots : Live = {Own(c, slot)} =>
                 b.coll.id = c /\ b.coll.script = slot /\ b.coll.amount \in Nat \ {0}
<1> DEFINE b == LiveBundle
<1>0. b.yes = LiveUtxo("YES_RT") /\ b.no = LiveUtxo("NO_RT") /\ b.coll = LiveUtxo("COLLATERAL")
    BY DEF LiveBundle
<1> HIDE DEF b
<1>1. ASSUME NEW y, NEW n, Live = DormantOwn(y, n) PROVE b.yes.id = y /\ b.no.id = n
    <2> DEFINE u == Own(y, "DormantYesRt")
               w == Own(n, "DormantNoRt")
    <2>1. /\ u.id = y /\ w.id = n /\ u \in Live /\ w \in Live /\ \A v \in Live : v = u \/ v = w
        BY <1>1, OwnIs
    <2>2. SlotAsset(u.slot) = "YES_RT" /\ SlotAsset(w.slot) = "NO_RT"
        BY DEF SlotAsset, Own
    <2> HIDE DEF u, w
    <2>3. LiveUtxo("YES_RT").id = u.id
        BY <2>1, <2>2, LiveUtxoIs
    <2>4. LiveUtxo("NO_RT").id = w.id
        BY <2>1, <2>2, LiveUtxoIs
    <2> QED BY <2>1, <2>3, <2>4, <1>0
<1>2. ASSUME NEW y, NEW n, NEW c, Live = UnresolvedOwn(y, n, c)
      PROVE  /\ b.yes.id = y /\ b.no.id = n /\ b.coll.id = c
             /\ b.yes.script = "UnresolvedYesRt" /\ b.coll.script = "UnresolvedCollateral"
             /\ b.coll.amount \in Nat \ {0}
             /\ c # y /\ c # n /\ y # <<0, 0>> /\ n # <<0, 0>>
    <2> DEFINE u == Own(y, "UnresolvedYesRt")
               w == Own(n, "UnresolvedNoRt")
               x == Own(c, "UnresolvedCollateral")
    <2>1. /\ u.id = y /\ w.id = n /\ x.id = c /\ u \in Live /\ w \in Live /\ x \in Live
          /\ \A v \in Live : v = u \/ v = w \/ v = x
        BY <1>2, OwnIs
    <2>2. /\ SlotAsset(u.slot) = "YES_RT" /\ SlotAsset(w.slot) = "NO_RT"
          /\ SlotAsset(x.slot) = "COLLATERAL"
        BY DEF SlotAsset, Own
    <2>3. /\ u.slot = "UnresolvedYesRt" /\ w.slot = "UnresolvedNoRt"
          /\ x.slot = "UnresolvedCollateral"
        BY DEF Own
    <2> HIDE DEF u, w, x
    <2>4. LiveUtxo("YES_RT").id = u.id /\ LiveUtxo("YES_RT").script = u.slot
        BY <2>1, <2>2, LiveUtxoIs
    <2>5. LiveUtxo("NO_RT").id = w.id
        BY <2>1, <2>2, LiveUtxoIs
    <2>6. /\ LiveUtxo("COLLATERAL").id = x.id /\ LiveUtxo("COLLATERAL").script = x.slot
          /\ LiveUtxo("COLLATERAL").amount \in Nat \ {0}
        BY <2>1, <2>2, LiveUtxoIs
    <2>7. c # y /\ c # n /\ y # <<0, 0>> /\ n # <<0, 0>>
        BY <2>1, <2>3, LiveHeld
    <2> QED BY <2>1, <2>3, <2>4, <2>5, <2>6, <2>7, <1>0
<1>3. ASSUME NEW c, NEW slot \in TerminalSlots, Live = {Own(c, slot)}
      PROVE  b.coll.id = c /\ b.coll.script = slot /\ b.coll.amount \in Nat \ {0}
    <2> DEFINE x == Own(c, slot)
    <2>1. x.id = c /\ x.slot = slot /\ x \in Live /\ \A v \in Live : v = x
        BY <1>3, OwnIs
    <2>2. SlotAsset(x.slot) = "COLLATERAL"
        BY DEF SlotAsset, Own, TerminalSlots
    <2> HIDE DEF x
    <2>3. /\ LiveUtxo("COLLATERAL").id = x.id /\ LiveUtxo("COLLATERAL").script = x.slot
          /\ LiveUtxo("COLLATERAL").amount \in Nat \ {0}
        BY <2>1, <2>2, LiveUtxoIs
    <2> QED BY <2>1, <2>3, <1>0
<1> QED
    BY <1>1, <1>2, <1>3 DEF b

(* A slot tells the state. *)
LEMMA LiveAtTells ==
    ASSUME Shaped(Live)
    PROVE  /\ LiveAt("DormantYesRt") => \E y, n : Live = DormantOwn(y, n)
           /\ LiveAt("UnresolvedYesRt") =>
                 ~LiveAt("DormantYesRt") /\ \E y, n, c : Live = UnresolvedOwn(y, n, c)
           /\ \A slot \in TerminalSlots : LiveAt(slot) => \E c : Live = {Own(c, slot)}
<1>1. CASE Live = {}
    BY <1>1 DEF LiveAt
<1>2. CASE \E y, n : Live = DormantOwn(y, n)
    <2>1. \A u \in Live : u.slot = "DormantYesRt" \/ u.slot = "DormantNoRt"
        BY <1>2 DEF DormantOwn, Own
    <2>2. ~LiveAt("UnresolvedYesRt") /\ \A slot \in TerminalSlots : ~LiveAt(slot)
        BY <2>1 DEF LiveAt, TerminalSlots
    <2> QED BY <1>2, <2>2
<1>3. CASE \E y, n, c : Live = UnresolvedOwn(y, n, c)
    <2>1. \A u \in Live : \/ u.slot = "UnresolvedYesRt" \/ u.slot = "UnresolvedNoRt"
                           \/ u.slot = "UnresolvedCollateral"
        BY <1>3 DEF UnresolvedOwn, Own
    <2>2. ~LiveAt("DormantYesRt") /\ \A slot \in TerminalSlots : ~LiveAt(slot)
        BY <2>1 DEF LiveAt, TerminalSlots
    <2> QED BY <1>3, <2>2
<1>4. CASE \E slot \in TerminalSlots : \E c : Live = {Own(c, slot)}
    BY <1>4 DEF LiveAt, Own, TerminalSlots
<1> QED
    BY <1>1, <1>2, <1>3, <1>4 DEF Shaped

Grows(tx, M) ==
    /\ chain' = Append(chain, tx) /\ lineage' = Append(lineage, M)
    /\ Extends(tx, Len(chain) + 1, Live, M)

(* A transaction that lands. *)
LEMMA Confirmed ==
    ASSUME NEW a, Confirm(a), Extends(a.tx, Len(chain) + 1, Live, OwnsAfter(a.tx, Len(chain) + 1, Live))
    PROVE  \E tx, M : Grows(tx, M)
<1> DEFINE t == Len(chain) + 1
           M == OwnsAfter(a.tx, t, Live)
<1>1. M = { u \in Live : \A k \in DOMAIN a.tx.ins : a.tx.ins[k].id # u.id }
          \cup { [id |-> <<Len(chain) + 1, k - 1>>, slot |-> a.tx.outs[k].script] :
                 k \in {j \in DOMAIN a.tx.outs : a.tx.outs[j].script \in MarketSlot} }
    BY DEF OwnsAfter, Spends, SlotOutputs, Own, MarketOuts
<1> HIDE DEF M
<1>2. lineage' = Append(lineage, M) /\ chain' = Append(chain, a.tx)
    BY <1>1 DEF Confirm
<1>3. Extends(a.tx, t, Live, M)
    BY DEF M
<1> QED
    BY <1>2, <1>3 DEF Grows

(* Every transaction of the market, and every deposit. *)
LEMMA ChainGrows ==
    ASSUME ChainOK, ChainNext
    PROVE  (\E tx, M : Grows(tx, M)) /\ Len(chain) < MaxChain /\ UNCHANGED scan
<1> DEFINE b == LiveBundle
           t == Len(chain) + 1
<1>0. Len(chain) < MaxChain /\ UNCHANGED scan
    BY DEF ChainNext, ConfirmIssuance, ConfirmCancellation, ConfirmRedemption,
           ConfirmExpiryRedemption, ConfirmResolution, ConfirmExpiry, Deposit, Confirm
<1>1. /\ Shaped(Live)
      /\ \A u \in Live : u.id # <<0, 0>>
    BY LiveHeld
<1>2. /\ LiveAt("DormantYesRt") => \E y, n : Live = DormantOwn(y, n)
      /\ LiveAt("UnresolvedYesRt") =>
                 ~LiveAt("DormantYesRt") /\ \E y, n, c : Live = UnresolvedOwn(y, n, c)
      /\ \A slot \in TerminalSlots : LiveAt(slot) => \E c : Live = {Own(c, slot)}
    BY <1>1, LiveAtTells
<1>3. LiveAt("UnresolvedYesRt") =>
         /\ Live = UnresolvedOwn(b.yes.id, b.no.id, b.coll.id)
         /\ b.yes.script = "UnresolvedYesRt" /\ b.coll.script = "UnresolvedCollateral"
         /\ b.coll.amount \in Nat \ {0}
         /\ b.coll.id # b.yes.id /\ b.coll.id # b.no.id /\ b.yes.id # <<0, 0>> /\ b.no.id # <<0, 0>>
    <2>1. SUFFICES ASSUME LiveAt("UnresolvedYesRt")
                   PROVE  /\ Live = UnresolvedOwn(b.yes.id, b.no.id, b.coll.id)
                          /\ b.yes.script = "UnresolvedYesRt"
                          /\ b.coll.script = "UnresolvedCollateral"
                          /\ b.coll.amount \in Nat \ {0}
                          /\ b.coll.id # b.yes.id /\ b.coll.id # b.no.id
                          /\ b.yes.id # <<0, 0>> /\ b.no.id # <<0, 0>>
        OBVIOUS
    <2>2. PICK y, n, c : Live = UnresolvedOwn(y, n, c)
        BY <1>2, <2>1
    <2> HIDE DEF b
    <2>3. /\ b.yes.id = y /\ b.no.id = n /\ b.coll.id = c
          /\ b.yes.script = "UnresolvedYesRt" /\ b.coll.script = "UnresolvedCollateral"
          /\ b.coll.amount \in Nat \ {0}
          /\ c # y /\ c # n /\ y # <<0, 0>> /\ n # <<0, 0>>
        BY <2>2, LiveBundleIs DEF b
    <2> QED BY ONLY <2>2, <2>3
<1>4. LiveAt("DormantYesRt") => Live = DormantOwn(b.yes.id, b.no.id)
    BY <1>2, LiveBundleIs
<1>5. \A slot \in TerminalSlots : LiveAt(slot) =>
         Live = {Own(b.coll.id, slot)} /\ b.coll.script = slot /\ b.coll.amount \in Nat \ {0}
    BY <1>2, LiveBundleIs
<1> HIDE DEF b
<1>6. ASSUME NEW n \in 1..MaxAmount, ConfirmIssuance(n) PROVE \E tx, M : Grows(tx, M)
    <2> DEFINE st == IF LiveAt("DormantYesRt") THEN "Dormant" ELSE "Unresolved"
               a == assemble_issuance(st, b, n, required_collateral(n), FeeAmount)
    <2>1. Confirm(a) /\ (LiveAt("DormantYesRt") \/ LiveAt("UnresolvedYesRt"))
        BY <1>6 DEF ConfirmIssuance, b
    <2>2. n \in Nat \ {0}
        OBVIOUS
    <2>3. CASE LiveAt("DormantYesRt")
        <3>1. a = assemble_issuance("Dormant", b, n, required_collateral(n), FeeAmount)
            BY <2>3
        <3> HIDE DEF a
        <3>2. Extends(a.tx, t, Live, OwnsAfter(a.tx, t, Live))
            BY <3>1, <2>2, <2>3, <1>4, InitialIssuanceExtends
        <3> QED BY <2>1, <3>2, Confirmed
    <2>4. CASE ~LiveAt("DormantYesRt")
        <3>1. a = assemble_issuance("Unresolved", b, n, required_collateral(n), FeeAmount)
            BY <2>4
        <3> HIDE DEF a
        <3>2. Extends(a.tx, t, Live, OwnsAfter(a.tx, t, Live))
            BY <3>1, <2>1, <2>2, <2>4, <1>3, SubsequentIssuanceExtends
        <3> QED BY <2>1, <3>2, Confirmed
    <2> QED BY <2>3, <2>4
<1>7. ASSUME NEW n \in 1..MaxAmount, ConfirmCancellation(n) PROVE \E tx, M : Grows(tx, M)
    <2> DEFINE a == assemble_cancellation(b, n, n, n, FeeAmount)
    <2>1. Confirm(a) /\ LiveAt("UnresolvedYesRt") /\ required_collateral(n) <= b.coll.amount
        BY <1>7 DEF ConfirmCancellation, b
    <2>2. n \in Nat \ {0}
        OBVIOUS
    <2>3. required_collateral(n) \in Nat /\ b.coll.amount \in Nat
        BY <2>1, <2>2, <1>3, CovenantPrice
    <2> HIDE DEF a
    <2>4. CASE b.coll.amount = required_collateral(n)
        <3>1. Extends(a.tx, t, Live, OwnsAfter(a.tx, t, Live))
            BY <2>1, <2>2, <2>4, <1>3, FullExtends DEF a
        <3> QED BY <2>1, <3>1, Confirmed
    <2>5. CASE b.coll.amount > required_collateral(n)
        <3>1. Extends(a.tx, t, Live, OwnsAfter(a.tx, t, Live))
            BY <2>1, <2>2, <2>5, <1>3, PartialExtends DEF a
        <3> QED BY <2>1, <3>1, Confirmed
    <2> QED BY <2>1, <2>3, <2>4, <2>5
<1>8. ASSUME NEW outcomeYes \in BOOLEAN, ConfirmResolution(outcomeYes) PROVE \E tx, M : Grows(tx, M)
    <2> DEFINE a == assemble_oracle_resolve(b, outcomeYes, outcomeYes, FeeAmount)
    <2>1. Confirm(a) /\ LiveAt("UnresolvedYesRt")
        BY <1>8 DEF ConfirmResolution, b
    <2>2. PICK target, lock : /\ target \in TerminalSlots
                              /\ a.tx = TokenBlind(TerminalPset(b, target, FeeAmount, lock))
        <3>1. a.tx = TokenBlind(build_oracle_resolve_pset(b, outcomeYes, FeeAmount))
            BY DEF assemble_oracle_resolve, Assembled, TokenBlind
        <3> QED BY <3>1 DEF build_oracle_resolve_pset, TerminalSlots
    <2> HIDE DEF a
    <2>3. Extends(a.tx, t, Live, OwnsAfter(a.tx, t, Live))
        BY <2>1, <2>2, <1>3, ConclusionExtends
    <2> QED BY <2>1, <2>3, Confirmed
<1>9. ASSUME ConfirmExpiry PROVE \E tx, M : Grows(tx, M)
    <2> DEFINE a == assemble_expire_transition(b, FeeAmount)
    <2>1. Confirm(a) /\ LiveAt("UnresolvedYesRt")
        BY <1>9 DEF ConfirmExpiry, b
    <2>2. PICK target, lock : /\ target \in TerminalSlots
                              /\ a.tx = TokenBlind(TerminalPset(b, target, FeeAmount, lock))
        <3>1. a.tx = TokenBlind(TerminalPset(b, "ExpiredCollateral", FeeAmount, ExpiryTime))
            BY DEF assemble_expire_transition, Assembled, TokenBlind, build_expire_transition_pset
        <3>2. "ExpiredCollateral" \in TerminalSlots
            BY DEF TerminalSlots
        <3> QED BY ONLY <3>1, <3>2
    <2> HIDE DEF a
    <2>3. Extends(a.tx, t, Live, OwnsAfter(a.tx, t, Live))
        BY <2>1, <2>2, <1>3, ConclusionExtends
    <2> QED BY <2>1, <2>3, Confirmed
<1>10. ASSUME NEW n \in 1..MaxAmount, ConfirmRedemption(n) PROVE \E tx, M : Grows(tx, M)
    <2> DEFINE a == assemble_post_resolution_redemption(b, n, n, FeeAmount)
               payout == required_collateral(n)
    <2>1. Confirm(a) /\ payout <= b.coll.amount
        BY <1>10 DEF ConfirmRedemption, b
    <2>2. n \in Nat \ {0} /\ payout \in Nat \ {0}
        <3>1. n \in Nat \ {0}
            OBVIOUS
        <3> QED BY <3>1, CovenantPrice
    <2>3. PICK slot \in TerminalSlots : LiveAt(slot)
        BY <1>10 DEF ConfirmRedemption, TerminalSlots
    <2>4. PICK asset, q, p :
              /\ asset \in Tokens
              /\ q = RedemptionPset(b, asset, n, payout, n, FeeAmount, 0)
              /\ p = ensure_fee_output_last(q) /\ a.tx = PlainBlind(p)
        <3> DEFINE asset == winning_token_asset(b)
                   q == RedemptionPset(b, asset, n, payout, n, FeeAmount, 0)
        <3>1. a.tx = PlainBlind(ensure_fee_output_last(q))
            BY DEF assemble_post_resolution_redemption, build_post_resolution_redemption_pset,
                   Assembled, PlainBlind
        <3>2. asset \in Tokens
            BY DEF winning_token_asset, Tokens
        <3> HIDE DEF a, asset
        <3> QED BY <3>1, <3>2
    <2>5. Live = {Own(b.coll.id, slot)} /\ b.coll.script = slot /\ b.coll.amount \in Nat \ {0}
        BY <1>5, <2>3
    <2> HIDE DEF a, payout
    <2>6. Extends(a.tx, t, Live, OwnsAfter(a.tx, t, Live))
        BY ONLY <2>1, <2>2, <2>4, <2>5, RedemptionExtends
    <2> QED BY <2>1, <2>6, Confirmed
<1>11. ASSUME NEW n \in 1..MaxAmount, ConfirmExpiryRedemption(n) PROVE \E tx, M : Grows(tx, M)
    <2> DEFINE a == assemble_expiry_redemption(b, "YES", n, n, FeeAmount)
               payout == n * CollateralPerToken
    <2>1. Confirm(a) /\ payout <= b.coll.amount
        BY <1>11 DEF ConfirmExpiryRedemption, b
    <2>2. n \in Nat \ {0} /\ payout \in Nat \ {0}
        <3>1. n \in Nat \ {0} /\ CollateralPerToken \in Nat \ {0}
            BY CovenantAssumption
        <3> QED BY <3>1
    <2>3. PICK slot \in TerminalSlots : LiveAt(slot)
        BY <1>11 DEF ConfirmExpiryRedemption, TerminalSlots
    <2>4. PICK asset, q, p :
              /\ asset \in Tokens
              /\ q = RedemptionPset(b, asset, n, payout, n, FeeAmount, ExpiryTime)
              /\ p = ensure_fee_output_last(q) /\ a.tx = PlainBlind(p)
        <3> DEFINE q == RedemptionPset(b, "YES", n, payout, n, FeeAmount, ExpiryTime)
        <3>1. a.tx = PlainBlind(ensure_fee_output_last(q))
            BY DEF assemble_expiry_redemption, build_expiry_redemption_pset, Assembled, PlainBlind
        <3>2. "YES" \in Tokens
            BY DEF Tokens
        <3> HIDE DEF a
        <3> QED BY <3>1, <3>2
    <2>5. Live = {Own(b.coll.id, slot)} /\ b.coll.script = slot /\ b.coll.amount \in Nat \ {0}
        BY <1>5, <2>3
    <2> HIDE DEF a, payout
    <2>6. Extends(a.tx, t, Live, OwnsAfter(a.tx, t, Live))
        BY ONLY <2>1, <2>2, <2>4, <2>5, RedemptionExtends
    <2> QED BY <2>1, <2>6, Confirmed
<1>12. ASSUME NEW slot, Deposit(slot) PROVE \E tx, M : Grows(tx, M)
    <2>1. PICK tx : /\ chain' = Append(chain, tx)
                    /\ tx.ins = <<add_pset_input(WalletUtxo("COLLATERAL", 1 + FeeAmount))>>
        BY <1>12 DEF Deposit
    <2>2. Extends(tx, t, Live, Live)
        BY <2>1, <1>1, DepositExtends
    <2> QED BY <1>12, <2>1, <2>2 DEF Deposit, Grows
<1> QED
    BY <1>0, <1>6, <1>7, <1>8, <1>9, <1>10, <1>11, <1>12 DEF ChainNext

-----------------------------------------------------------------------------
(* What the backend answers. *)

(* An output of transactions on the chain is known by its id. *)
LEMMA OwnedOnce ==
    ASSUME NEW ch, NEW u, NEW w, NEW i \in Nat, NEW j \in Nat,
           Owned(ch, u, i), Owned(ch, w, j), u.id = w.id
    PROVE  u = w
<1>1. PICK a \in 1..i : Made(ch[a], u, a)
    BY DEF Owned
<1>2. PICK d \in 1..j : Made(ch[d], w, d)
    BY DEF Owned
<1>3. PICK k \in 0..2 : u.id = <<a, k>> /\ Held(ch[a].outs[k + 1], u.slot)
    BY <1>1 DEF Made
<1>4. PICK m \in 0..2 : w.id = <<d, m>> /\ Held(ch[d].outs[m + 1], w.slot)
    BY <1>2 DEF Made
<1>5. a = d /\ k = m
    <2>1. <<a, k>> = <<d, m>>
        BY <1>3, <1>4
    <2> QED BY ONLY <2>1
<1>6. u.slot = w.slot
    BY <1>3, <1>4, <1>5 DEF Held
<1> QED
    BY <1>1, <1>2, <1>6 DEF Made

(* What ChainOK says of two moments, and of one transaction. *)
LEMMA ChainIs ==
    ASSUME ChainOK
    PROVE  /\ \A t \in 1..Len(chain) : Shaped(lineage[t])
           /\ \A t \in 1..Len(chain) : \A u \in lineage[t] : Owned(chain, u, t)
           /\ \A t \in 2..Len(chain) : Extends(chain[t], t, lineage[t - 1], lineage[t])
           /\ \A i \in 1..Len(chain) : \A j \in i..Len(chain) : Related(chain, lineage, i, j)
           /\ Len(chain) \in Nat
BY HistoryIs DEF ChainOK

(* A transaction that spends u finds it among the live outputs, and only   *)
(* there.                                                                  *)
LEMMA SpenderIs ==
    ASSUME ChainOK, NEW last \in 1..Len(chain), NEW u \in lineage[last],
           NEW t \in 2..Len(chain), Spends(chain[t], u)
    PROVE  /\ last < t /\ t - 1 \in last..Len(chain)
           /\ u \in lineage[t - 1] /\ u \notin lineage[t]
           /\ u \in Pivots(lineage[last]) => lineage[t - 1] = lineage[last]
<1> DEFINE N == Len(chain)
           r == t - 1
<1>0. N \in Nat /\ r \in 1..N /\ r \in Nat /\ r < t /\ last \in Nat /\ t \in 1..N /\ t \in Nat
    BY ChainIs
<1>1. Extends(chain[t], t, lineage[r], lineage[t])
    BY ChainIs
<1>2. /\ \A w \in lineage[r] : Owned(chain, w, r)
      /\ Owned(chain, u, last)
      /\ \A i \in 1..N : \A j \in i..N : Related(chain, lineage, i, j)
    BY <1>0, ChainIs
<1> HIDE DEF r
<1>3. \A w \in lineage[r] : w = Own(w.id, w.slot) /\ w.id[1] \in 1..r
    BY <1>0, <1>2, OwnedIs
<1>4. u.id[1] \in 1..last
    BY <1>0, <1>2, OwnedIs
<1>5. PICK k \in DOMAIN chain[t].ins : chain[t].ins[k].id = u.id
    BY DEF Spends
<1>6. u.id # <<0, 0>>
    BY <1>4
<1>7. PICK w \in lineage[r] : w.id = u.id
    BY <1>1, <1>5, <1>6 DEF Extends
<1>8. u = w
    BY <1>0, <1>2, <1>7, OwnedOnce
<1>9. u \in lineage[r] /\ u \notin lineage[t]
    <2>1. \A x \in lineage[r] : x = Own(x.id, x.slot) /\ x.id[1] \in Nat /\ x.id[1] < t
        BY <1>0, <1>3
    <2>2. PICK tx, L, M : tx = chain[t] /\ L = lineage[r] /\ M = lineage[t]
        OBVIOUS
    <2>3. /\ Extends(tx, t, L, M) /\ t \in Nat
          /\ \A x \in L : x = Own(x.id, x.slot) /\ x.id[1] \in Nat /\ x.id[1] < t
        BY <1>0, <1>1, <2>1, <2>2
    <2>4. \A x \in L : Spends(tx, x) <=> x \notin M
        BY ONLY <2>3, ExtendsIs
    <2> QED BY <1>8, <2>2, <2>4
<1>10. u.id[1] \in 1..r
    BY <1>3, <1>9
<1>11. last < t
    <2>1. CASE t <= last
        <3>1. Related(chain, lineage, t, last)
            BY <1>0, <1>2, <2>1
        <3>2. u.id[1] <= t
            BY <1>0, <1>10
        <3> QED BY <1>9, <3>1, <3>2 DEF Related
    <2> QED BY <2>1, <1>0
<1>12. t - 1 \in last..N /\ r \in last..N
    BY <1>0, <1>11 DEF r
<1>13. Related(chain, lineage, last, r)
    BY <1>2, <1>12
<1>14. u \in Pivots(lineage[last]) => lineage[r] = lineage[last]
    BY <1>9, <1>13 DEF Related
<1> QED
    BY <1>9, <1>11, <1>12, <1>14 DEF r

(* An output is spent once, and one that is still live not at all. *)
LEMMA SpentOnce ==
    ASSUME ChainOK, NEW last \in 1..Len(chain), NEW u \in lineage[last],
           NEW t \in 2..Len(chain), Spends(chain[t], u)
    PROVE  /\ \A r \in 2..Len(chain) : Spends(chain[r], u) => r = t
           /\ u \notin lineage[Len(chain)]
<1> DEFINE N == Len(chain)
<1>0. N \in Nat /\ \A i \in 1..N : \A j \in i..N : Related(chain, lineage, i, j)
    BY ChainIs
<1>1. u.id[1] \in 1..last
    <2>1. Owned(chain, u, last) /\ last \in Nat
        BY ChainIs
    <2> QED BY <2>1, OwnedIs
<1>2. ASSUME NEW a \in 2..N, Spends(chain[a], u), NEW d \in a..N PROVE u \notin lineage[d]
    <2>1. last < a /\ u \notin lineage[a]
        BY <1>2, SpenderIs
    <2>2. Related(chain, lineage, a, d)
        BY <1>0
    <2>3. u.id[1] <= a
        BY <1>0, <1>1, <2>1
    <2> QED BY <2>1, <2>2, <2>3 DEF Related
<1>3. ASSUME NEW a \in 2..N, Spends(chain[a], u), NEW d \in 2..N, Spends(chain[d], u) PROVE ~(a < d)
    <2>1. SUFFICES ASSUME a < d PROVE FALSE
        OBVIOUS
    <2>2. d - 1 \in a..N
        BY <1>0, <2>1
    <2>3. u \in lineage[d - 1]
        BY <1>3, SpenderIs
    <2> QED BY <1>2, <1>3, <2>2, <2>3
<1>4. ASSUME NEW r \in 2..N, Spends(chain[r], u) PROVE r = t
    <2>1. ~(r < t) /\ ~(t < r)
        BY <1>3, <1>4
    <2> QED BY <2>1, <1>0
<1>5. N \in t..N
    BY <1>0
<1> QED
    BY <1>2, <1>4, <1>5

(* So the backend's answer is the transaction that spends it, or none. *)
LEMMA AnswerIs ==
    ASSUME ChainOK, NEW last \in 1..Len(chain), NEW u \in lineage[last]
    PROVE  \/ /\ spending_txid(u) = None
              /\ u \in lineage[Len(chain)]
              /\ u \in Pivots(lineage[last]) => lineage[Len(chain)] = lineage[last]
              /\ \A t \in 2..Len(chain) : ~Spends(chain[t], u)
           \/ /\ spending_txid(u) \in (last + 1)..Len(chain)
              /\ spending_txid(u) # None
              /\ Spends(chain[spending_txid(u)], u)
              /\ \A r \in 2..Len(chain) : Spends(chain[r], u) => r = spending_txid(u)
<1> DEFINE N == Len(chain)
           S == {t \in 2..N : tx_spends_outpoint(t, u)}
<1>0. N \in Nat /\ last \in 1..N /\ Related(chain, lineage, last, N)
    BY ChainIs
<1>1. S = {t \in 2..N : Spends(chain[t], u)}
    BY DEF tx_spends_outpoint, Spends
<1>2. spending_txid(u) = IF S = {} THEN None ELSE Min(S)
    BY DEF spending_txid
<1> HIDE DEF S
<1>3. CASE S = {}
    <2>1. spending_txid(u) = None /\ \A t \in 2..N : ~Spends(chain[t], u)
        BY <1>1, <1>2, <1>3
    <2>2. \A t \in (last + 1)..N : t \in 2..N
        BY <1>0
    <2>3. u \in lineage[N]
        BY <1>0, <2>1, <2>2 DEF Related
    <2>4. u \in Pivots(lineage[last]) => lineage[N] = lineage[last]
        BY <1>0, <2>3 DEF Related
    <2> QED BY <2>1, <2>3, <2>4
<1>4. CASE S # {}
    <2>1. PICK t \in 2..N : Spends(chain[t], u)
        BY <1>1, <1>4
    <2>2. \A r \in 2..N : Spends(chain[r], u) => r = t
        BY <2>1, SpentOnce
    <2>3. S = {t}
        BY <1>1, <2>1, <2>2
    <2>4. Min({t}) = t
        BY <1>0 DEF Min
    <2>5. last < t
        BY <2>1, SpenderIs
    <2>6. spending_txid(u) = t /\ t # None
        BY <1>2, <2>3, <2>4 DEF None
    <2>7. t \in (last + 1)..N
        BY <1>0, <2>5
    <2> QED BY <2>1, <2>2, <2>6, <2>7
<1> QED
    BY <1>3, <1>4

-----------------------------------------------------------------------------
(* What the scan makes of a transaction. *)

LEMMA SeenAs ==
    \A t : /\ find_slot_outputs(t) = SlotOutputs(chain[t], t)
           /\ burn_output_count(t) = Cardinality(BurnsAt(chain[t]))
           /\ \A u : tx_spends_outpoint(t, u) <=> Spends(chain[t], u)
BY DEF find_slot_outputs, SlotOutputs, MarketOuts, Utxo, Own, burn_output_count, BurnsAt,
       tx_spends_outpoint, Spends

LEMMA CountOfTwo ==
    ASSUME NEW a, NEW b, a # b
    PROVE  Cardinality({a, b}) = 2 /\ IsFiniteSet({a, b})
<1>1. {a, b} = {a} \cup {b} /\ b \notin {a} /\ IsFiniteSet({a}) /\ Cardinality({a}) = 1
    BY FS_Singleton
<1>2. Cardinality({a} \cup {b}) = Cardinality({a}) + 1 /\ IsFiniteSet({a} \cup {b})
    BY <1>1, FS_AddElement
<1> QED
    BY <1>1, <1>2

LEMMA CountOfThree ==
    ASSUME NEW a, NEW b, NEW c, a # b, a # c, b # c
    PROVE  Cardinality({a, b, c}) = 3
<1>1. {a, b, c} = {a, b} \cup {c} /\ c \notin {a, b}
    OBVIOUS
<1>2. Cardinality({a, b}) = 2 /\ IsFiniteSet({a, b})
    BY CountOfTwo
<1>3. Cardinality({a, b} \cup {c}) = Cardinality({a, b}) + 1
    BY <1>1, <1>2, FS_AddElement
<1> QED
    BY <1>1, <1>2, <1>3

(* The outputs of an issuance, as the scan reads them. *)
LEMMA ReadsUnresolved ==
    ASSUME NEW t, NEW y, NEW n, NEW c, find_slot_outputs(t) = UnresolvedOwn(y, n, c)
    PROVE  /\ ExactSlotSet(t, UnresolvedSlots) /\ ~ExactSlotSet(t, DormantSlots)
           /\ \A slot \in TerminalSlots : ~ExactSlotSet(t, <<slot>>)
           /\ expect_exact_slot_set(t, UnresolvedSlots) =
                 << Own(y, "UnresolvedYesRt"), Own(n, "UnresolvedNoRt"),
                    Own(c, "UnresolvedCollateral") >>
<1> DEFINE F == find_slot_outputs(t)
           e == UnresolvedSlots
           u == Own(y, "UnresolvedYesRt")
           v == Own(n, "UnresolvedNoRt")
           w == Own(c, "UnresolvedCollateral")
<1>1. /\ u.slot = "UnresolvedYesRt" /\ v.slot = "UnresolvedNoRt" /\ w.slot = "UnresolvedCollateral"
      /\ F = {u, v, w}
    BY OwnIs DEF UnresolvedOwn
<1>2. /\ DOMAIN e = 1..3 /\ Len(e) = 3
      /\ e[1] = "UnresolvedYesRt" /\ e[2] = "UnresolvedNoRt" /\ e[3] = "UnresolvedCollateral"
    BY DEF UnresolvedSlots
<1> HIDE DEF F, e, u, v, w
<1>3. Cardinality(F) = 3
    <2>1. u # v /\ u # w /\ v # w
        BY <1>1
    <2>2. Cardinality({u, v, w}) = 3
        BY ONLY <2>1, CountOfThree
    <2> QED BY <1>1, <2>2
<1>4. ExactSlotSet(t, e)
    <2>1. \A s \in DOMAIN e : \E x \in F : x.slot = e[s]
        BY <1>1, <1>2
    <2> QED BY <1>2, <1>3, <2>1 DEF ExactSlotSet, F
<1>5. ~\E x \in F : x.slot = "DormantYesRt"
    BY <1>1
<1>6. ~ExactSlotSet(t, DormantSlots)
    <2>1. 1 \in DOMAIN DormantSlots /\ DormantSlots[1] = "DormantYesRt"
        BY DEF DormantSlots
    <2> QED BY <2>1, <1>5 DEF ExactSlotSet, F
<1>7. ASSUME NEW slot \in TerminalSlots PROVE ~ExactSlotSet(t, <<slot>>)
    <2>1. ~\E x \in F : x.slot = slot
        BY <1>1 DEF TerminalSlots
    <2>2. 1 \in DOMAIN <<slot>> /\ <<slot>>[1] = slot
        OBVIOUS
    <2> QED BY <2>1, <2>2 DEF ExactSlotSet, F
<1>8. expect_exact_slot_set(t, e) = <<u, v, w>>
    <2>1. /\ (CHOOSE x \in F : x.slot = e[1]) = u /\ (CHOOSE x \in F : x.slot = e[2]) = v
          /\ (CHOOSE x \in F : x.slot = e[3]) = w
        BY <1>1, <1>2
    <2>2. [s \in 1..3 |-> CHOOSE x \in F : x.slot = e[s]] = <<u, v, w>>
        BY <2>1
    <2> QED BY <2>2, <1>2 DEF expect_exact_slot_set, F
<1> QED
    BY <1>4, <1>6, <1>7, <1>8 DEF e, u, v, w

(* Of a full cancellation. *)
LEMMA ReadsDormant ==
    ASSUME NEW t, NEW y, NEW n, find_slot_outputs(t) = DormantOwn(y, n)
    PROVE  /\ ExactSlotSet(t, DormantSlots) /\ ~ExactSlotSet(t, UnresolvedSlots)
           /\ \A slot \in TerminalSlots : ~ExactSlotSet(t, <<slot>>)
           /\ expect_exact_slot_set(t, DormantSlots) = <<Own(y, "DormantYesRt"), Own(n, "DormantNoRt")>>
<1> DEFINE F == find_slot_outputs(t)
           e == DormantSlots
           u == Own(y, "DormantYesRt")
           v == Own(n, "DormantNoRt")
<1>1. u.slot = "DormantYesRt" /\ v.slot = "DormantNoRt" /\ F = {u, v}
    BY OwnIs DEF DormantOwn
<1>2. DOMAIN e = 1..2 /\ Len(e) = 2 /\ e[1] = "DormantYesRt" /\ e[2] = "DormantNoRt"
    BY DEF DormantSlots
<1> HIDE DEF F, e, u, v
<1>3. Cardinality(F) = 2
    BY <1>1, CountOfTwo
<1>4. ExactSlotSet(t, e)
    <2>1. \A s \in DOMAIN e : \E x \in F : x.slot = e[s]
        BY <1>1, <1>2
    <2> QED BY <1>2, <1>3, <2>1 DEF ExactSlotSet, F
<1>5. ~\E x \in F : x.slot = "UnresolvedYesRt"
    BY <1>1
<1>6. ~ExactSlotSet(t, UnresolvedSlots)
    <2>1. 1 \in DOMAIN UnresolvedSlots /\ UnresolvedSlots[1] = "UnresolvedYesRt"
        BY DEF UnresolvedSlots
    <2> QED BY <2>1, <1>5 DEF ExactSlotSet, F
<1>7. ASSUME NEW slot \in TerminalSlots PROVE ~ExactSlotSet(t, <<slot>>)
    <2>1. ~\E x \in F : x.slot = slot
        BY <1>1 DEF TerminalSlots
    <2>2. 1 \in DOMAIN <<slot>> /\ <<slot>>[1] = slot
        OBVIOUS
    <2> QED BY <2>1, <2>2 DEF ExactSlotSet, F
<1>8. expect_exact_slot_set(t, e) = <<u, v>>
    <2>1. (CHOOSE x \in F : x.slot = e[1]) = u /\ (CHOOSE x \in F : x.slot = e[2]) = v
        BY <1>1, <1>2
    <2>2. [s \in 1..2 |-> CHOOSE x \in F : x.slot = e[s]] = <<u, v>>
        BY <2>1
    <2> QED BY <2>2, <1>2 DEF expect_exact_slot_set, F
<1> QED
    BY <1>4, <1>6, <1>7, <1>8 DEF e, u, v

(* Of one output. *)
LEMMA ReadsOne ==
    ASSUME NEW t, NEW c, NEW slot \in TerminalSlots \cup {"UnresolvedCollateral"},
           find_slot_outputs(t) = {Own(c, slot)}
    PROVE  /\ ExactSlotSet(t, <<slot>>)
           /\ ~ExactSlotSet(t, UnresolvedSlots) /\ ~ExactSlotSet(t, DormantSlots)
           /\ expect_exact_slot_set(t, <<slot>>) = <<Own(c, slot)>>
           /\ (CHOOSE v \in find_slot_outputs(t) : TRUE) = Own(c, slot)
<1> DEFINE F == find_slot_outputs(t)
           e == <<slot>>
           u == Own(c, slot)
<1>1. u.slot = slot /\ F = {u}
    BY OwnIs
<1>2. DOMAIN e = 1..1 /\ Len(e) = 1 /\ e[1] = slot
    OBVIOUS
<1> HIDE DEF F, e, u
<1>3. Cardinality(F) = 1
    BY <1>1, FS_Singleton
<1>4. ExactSlotSet(t, e)
    <2>1. \A s \in DOMAIN e : \E x \in F : x.slot = e[s]
        BY <1>1, <1>2
    <2> QED BY <1>2, <1>3, <2>1 DEF ExactSlotSet, F
<1>5. /\ ~\E x \in F : x.slot = "UnresolvedYesRt"
      /\ ~\E x \in F : x.slot = "DormantYesRt"
    BY <1>1 DEF TerminalSlots
<1>6. ~ExactSlotSet(t, UnresolvedSlots) /\ ~ExactSlotSet(t, DormantSlots)
    <2>1. /\ 1 \in DOMAIN UnresolvedSlots /\ UnresolvedSlots[1] = "UnresolvedYesRt"
          /\ 1 \in DOMAIN DormantSlots /\ DormantSlots[1] = "DormantYesRt"
        BY DEF UnresolvedSlots, DormantSlots
    <2> QED BY <2>1, <1>5 DEF ExactSlotSet, F
<1>7. expect_exact_slot_set(t, e) = <<u>>
    <2>1. (CHOOSE x \in F : x.slot = e[1]) = u
        BY <1>1, <1>2
    <2>2. [s \in 1..1 |-> CHOOSE x \in F : x.slot = e[s]] = <<u>>
        BY <2>1
    <2> QED BY <2>2, <1>2 DEF expect_exact_slot_set, F
<1>8. (CHOOSE v \in F : TRUE) = u
    BY <1>1
<1> QED
    BY <1>4, <1>6, <1>7, <1>8 DEF e, u, F

-----------------------------------------------------------------------------
(* The transaction that ends a bundle. *)

LEMMA PivotMoves ==
    ASSUME ChainOK, NEW last \in 1..Len(chain), NEW u \in Pivots(lineage[last]),
           NEW t \in (last + 1)..Len(chain), Spends(chain[t], u)
    PROVE  /\ \/ MovesAll(chain[t], t, lineage[last], lineage[t])
              \/ MovesCollateral(chain[t], t, lineage[last], lineage[t])
           /\ MovesAll(chain[t], t, lineage[last], lineage[t]) =>
                 lineage[t] = find_slot_outputs(t) /\ \A w \in lineage[last] : Spends(chain[t], w)
<1>1. t \in 2..Len(chain) /\ u \in lineage[last]
    BY ChainIs DEF Pivots
<1>2. lineage[t - 1] = lineage[last]
    BY <1>1, SpenderIs
<1>3. Extends(chain[t], t, lineage[last], lineage[t])
    <2>1. Extends(chain[t], t, lineage[t - 1], lineage[t])
        BY <1>1, ChainIs
    <2> QED BY <1>2, <2>1
<1>4. ~MovesNothing(chain[t], lineage[last], lineage[t])
    BY <1>1 DEF MovesNothing
<1> QED
    BY <1>3, <1>4, SeenAs DEF Extends, MovesAll

(* A dormant market ends with an issuance. *)
LEMMA DormantMoves ==
    ASSUME ChainOK, NEW last \in 1..Len(chain), NEW y, NEW n, lineage[last] = DormantOwn(y, n),
           NEW u \in lineage[last], NEW t \in (last + 1)..Len(chain), Spends(chain[t], u)
    PROVE  /\ \A w \in lineage[last] : Spends(chain[t], w)
           /\ lineage[t] = UnresolvedOwn(<<t, 0>>, <<t, 1>>, <<t, 2>>)
           /\ find_slot_outputs(t) = UnresolvedOwn(<<t, 0>>, <<t, 1>>, <<t, 2>>)
           /\ Reissues(t)
<1> DEFINE L == lineage[last]
           M == lineage[t]
           tx == chain[t]
<1>0. L = DormantOwn(y, n)
    OBVIOUS
<1>1. u \in Pivots(L)
    BY DEF Pivots, DormantOwn, Own
<1>2. /\ MovesAll(tx, t, L, M) \/ MovesCollateral(tx, t, L, M)
      /\ MovesAll(tx, t, L, M) => M = find_slot_outputs(t) /\ \A w \in L : Spends(tx, w)
    BY <1>1, PivotMoves
<1> HIDE DEF L, M, tx
<1>3. \A a, d, c : L # UnresolvedOwn(a, d, c)
    BY <1>0, OwnTells
<1>4. \A slot \in TerminalSlots : \A c : L # {Own(c, slot)}
    BY <1>0, OwnTells
<1>5. ~MovesCollateral(tx, t, L, M) /\ ~Cancels(tx, t, L, M) /\ ~Concludes(tx, t, L, M)
    BY <1>3 DEF MovesCollateral, Cancels, Concludes
<1>6. ~RedeemsFrom(tx, t, L, M)
    BY <1>4 DEF RedeemsFrom
<1>7. MovesAll(tx, t, L, M) /\ Issues(tx, t, L, M)
    BY <1>2, <1>5, <1>6 DEF MovesAll
<1> QED
    BY <1>2, <1>7 DEF Issues, Reissues, L, M, tx

(* What the whole bundle of an unresolved market may become. *)
BundleMoves(t, M) ==
    \/ M = UnresolvedOwn(<<t, 0>>, <<t, 1>>, <<t, 2>>) /\ Reissues(t)
    \/ M = DormantOwn(<<t, 0>>, <<t, 1>>) /\ burn_output_count(t) >= 2
    \/ \E slot \in TerminalSlots : M = {Own(<<t, 2>>, slot)} /\ burn_output_count(t) >= 2

(* An unresolved one ends with a transaction of the bundle, or with a      *)
(* partial cancellation.                                                   *)
LEMMA UnresolvedMoves ==
    ASSUME ChainOK, NEW last \in 1..Len(chain), NEW y, NEW n, NEW c,
           lineage[last] = UnresolvedOwn(y, n, c),
           NEW t \in (last + 1)..Len(chain), Spends(chain[t], Own(c, "UnresolvedCollateral"))
    PROVE  \/ /\ \A w \in lineage[last] : Spends(chain[t], w)
              /\ lineage[t] = find_slot_outputs(t)
              /\ BundleMoves(t, lineage[t])
           \/ /\ ~Spends(chain[t], Own(y, "UnresolvedYesRt"))
              /\ ~Spends(chain[t], Own(n, "UnresolvedNoRt"))
              /\ lineage[t] = UnresolvedOwn(y, n, <<t, 0>>)
              /\ find_slot_outputs(t) = {Own(<<t, 0>>, "UnresolvedCollateral")}
              /\ burn_output_count(t) >= 2
<1> DEFINE L == lineage[last]
           M == lineage[t]
           tx == chain[t]
           u == Own(c, "UnresolvedCollateral")
<1>0. L = UnresolvedOwn(y, n, c)
    OBVIOUS
<1>1. u \in Pivots(L)
    BY OwnIs DEF Pivots
<1>2. /\ MovesAll(tx, t, L, M) \/ MovesCollateral(tx, t, L, M)
      /\ MovesAll(tx, t, L, M) => M = find_slot_outputs(t) /\ \A w \in L : Spends(tx, w)
    BY <1>1, PivotMoves
<1>3. find_slot_outputs(t) = SlotOutputs(tx, t) /\ burn_output_count(t) = Cardinality(BurnsAt(tx))
    BY SeenAs
<1>4. Reissues(t) <=> Len(tx.ins) >= 2 /\ tx.ins[1].issuance # {} /\ tx.ins[2].issuance # {}
    BY DEF Reissues
<1> HIDE DEF L, M, tx, u
<1>5. CASE MovesAll(tx, t, L, M)
    <2>1. ~RedeemsFrom(tx, t, L, M)
        BY <1>0, OwnTells DEF RedeemsFrom
    <2>2. BundleMoves(t, M)
        BY <1>3, <1>4, <1>5, <2>1 DEF MovesAll, Issues, Cancels, Concludes, BundleMoves
    <2> QED BY <1>2, <1>5, <2>2 DEF L, M, tx
<1>6. CASE MovesCollateral(tx, t, L, M)
    <2>1. PICK y2, n2, c2 :
              /\ L = UnresolvedOwn(y2, n2, c2) /\ M = UnresolvedOwn(y2, n2, <<t, 0>>)
              /\ SlotOutputs(tx, t) = {Own(<<t, 0>>, "UnresolvedCollateral")}
              /\ ~Spends(tx, Own(y2, "UnresolvedYesRt")) /\ ~Spends(tx, Own(n2, "UnresolvedNoRt"))
              /\ Cardinality(BurnsAt(tx)) >= 2
        BY <1>6 DEF MovesCollateral
    <2>2. UnresolvedOwn(y, n, c) = UnresolvedOwn(y2, n2, c2)
        BY <1>0, <2>1
    <2>3. y2 = y /\ n2 = n
        BY ONLY <2>2, OwnTells
    <2> QED BY <1>3, <2>1, <2>3 DEF M, tx
<1> QED
    BY <1>2, <1>5, <1>6

(* A concluded one with a redemption. *)
LEMMA TerminalMoves ==
    ASSUME ChainOK, NEW last \in 1..Len(chain), NEW c, NEW slot \in TerminalSlots,
           lineage[last] = {Own(c, slot)},
           NEW t \in (last + 1)..Len(chain), Spends(chain[t], Own(c, slot))
    PROVE  /\ lineage[t] = find_slot_outputs(t)
           /\ find_slot_outputs(t) = {} \/ find_slot_outputs(t) = {Own(<<t, 0>>, slot)}
           /\ burn_output_count(t) >= 1
<1> DEFINE L == lineage[last]
           M == lineage[t]
           tx == chain[t]
           u == Own(c, slot)
<1>0. L = {Own(c, slot)} /\ u.slot = slot
    BY OwnIs
<1>1. u \in Pivots(L)
    BY <1>0 DEF Pivots, TerminalSlots
<1>2. /\ MovesAll(tx, t, L, M) \/ MovesCollateral(tx, t, L, M)
      /\ MovesAll(tx, t, L, M) => M = find_slot_outputs(t) /\ \A w \in L : Spends(tx, w)
    BY <1>1, PivotMoves
<1>3. burn_output_count(t) = Cardinality(BurnsAt(tx))
    BY SeenAs
<1> HIDE DEF L, M, tx, u
<1>4. \A a, d, e : L # UnresolvedOwn(a, d, e) /\ L # DormantOwn(a, d)
    BY <1>0, OwnTells
<1>5. RedeemsFrom(tx, t, L, M) /\ MovesAll(tx, t, L, M)
    BY <1>2, <1>4 DEF MovesAll, MovesCollateral, Issues, Cancels, Concludes
<1>6. PICK slot2 \in TerminalSlots, c2 \in {w.id : w \in L} :
          L = {Own(c2, slot2)} /\ (M = {} \/ M = {Own(<<t, 0>>, slot2)})
    BY <1>5 DEF RedeemsFrom
<1>7. slot2 = slot
    <2>1. Own(c2, slot2) = Own(c, slot)
        BY <1>0, <1>6
    <2> QED BY <2>1, OwnIs
<1> QED
    BY <1>2, <1>3, <1>5, <1>6, <1>7 DEF RedeemsFrom, M

-----------------------------------------------------------------------------
(* One round of queries. *)

(* What a round that finds no inconsistency ends with. *)
BundleOK(b) == BundleOn(chain, lineage, b)

GoodBundle(r) == BundleOK(r) \/ EndedOn(chain, lineage, r)

AskedOK(b, sp) == AskedOn(chain, b, sp)

Current(b, sp) == \A k \in DOMAIN sp : sp[k] = spending_txid(b.utxos[k])

LEMMA NotError ==
    /\ \A st, us, t : st # "Error" => Bundle(st, us, t) # ScanError
    /\ \A b : b.state # "Error" => b # ScanError
    /\ \A st, us, t : /\ Bundle(st, us, t).state = st /\ Bundle(st, us, t).utxos = us
                      /\ Bundle(st, us, t).last = t
<1>1. ScanError.state = "Error"
    BY DEF ScanError
<1>2. \A st, us, t : /\ Bundle(st, us, t).state = st /\ Bundle(st, us, t).utxos = us
                     /\ Bundle(st, us, t).last = t
    BY DEF Bundle
<1> QED
    BY <1>1, <1>2

(* The bundles a round may end with. *)
LEMMA BundlesOK ==
    ASSUME NEW t \in 1..Len(chain)
    PROVE  /\ \A y, n : lineage[t] = DormantOwn(y, n) =>
                 BundleOK(Bundle("Dormant", <<Own(y, "DormantYesRt"), Own(n, "DormantNoRt")>>, t))
           /\ \A y, n, c : lineage[t] = UnresolvedOwn(y, n, c) =>
                 BundleOK(Bundle("Unresolved", << Own(y, "UnresolvedYesRt"), Own(n, "UnresolvedNoRt"),
                                                  Own(c, "UnresolvedCollateral") >>, t))
           /\ \A c : \A slot \in TerminalSlots : lineage[t] = {Own(c, slot)} =>
                 BundleOK(Bundle(TerminalStateOf(slot), <<Own(c, slot)>>, t))
<1>1. ASSUME NEW y, NEW n, lineage[t] = DormantOwn(y, n)
      PROVE  BundleOK(Bundle("Dormant", <<Own(y, "DormantYesRt"), Own(n, "DormantNoRt")>>, t))
    <2>1. y \in {u.id : u \in lineage[t]} /\ n \in {u.id : u \in lineage[t]}
        BY <1>1, OwnIds
    <2> QED BY <1>1, <2>1, NotError DEF BundleOK, BundleOn, BundleOf
<1>2. ASSUME NEW y, NEW n, NEW c, lineage[t] = UnresolvedOwn(y, n, c)
      PROVE  BundleOK(Bundle("Unresolved", << Own(y, "UnresolvedYesRt"), Own(n, "UnresolvedNoRt"),
                                              Own(c, "UnresolvedCollateral") >>, t))
    <2>1. /\ y \in {u.id : u \in lineage[t]} /\ n \in {u.id : u \in lineage[t]}
          /\ c \in {u.id : u \in lineage[t]}
        BY <1>2, OwnIds
    <2> QED BY <1>2, <2>1, NotError DEF BundleOK, BundleOn, BundleOf
<1>3. ASSUME NEW c, NEW slot \in TerminalSlots, lineage[t] = {Own(c, slot)}
      PROVE  BundleOK(Bundle(TerminalStateOf(slot), <<Own(c, slot)>>, t))
    <2>1. c \in {u.id : u \in lineage[t]}
        BY <1>3, OwnIds
    <2> QED BY <1>3, <2>1, NotError DEF BundleOK, BundleOn, BundleOf
<1> QED
    BY <1>1, <1>2, <1>3

(* The answers of a round are numbers. *)
LEMMA RoundIs ==
    ASSUME NEW m \in Nat, NEW sp \in Seq(Nat), Len(sp) = m
    PROVE  DOMAIN sp = 1..m /\ \A k \in 1..m : sp[k] \in Nat
OBVIOUS

(* Of a dormant market. *)
LEMMA DormantRound ==
    ASSUME ChainOK, NEW b, BundleOK(b), b.last \in 1..Len(chain), b.state = "Dormant",
           NEW y, NEW n, lineage[b.last] = DormantOwn(y, n),
           b.utxos = <<Own(y, "DormantYesRt"), Own(n, "DormantNoRt")>>,
           NEW sp \in Seq(Nat), Len(sp) = 2, AskedOK(b, sp),
           NEW r, r = resolve_transition(b, sp)
    PROVE  /\ r = ScanError \/ GoodBundle(r)
           /\ Current(b, sp) => r # ScanError
<1> DEFINE last == b.last
           L == lineage[last]
           u1 == Own(y, "DormantYesRt")
           u2 == Own(n, "DormantNoRt")
           N == Len(chain)
           t == sp[1]
           F == expect_exact_slot_set(t, UnresolvedSlots)
<1>0. N \in Nat /\ last \in 1..N /\ last \in Nat
    BY ChainIs
<1>1. u1 \in L /\ u2 \in L /\ b.utxos[1] = u1 /\ b.utxos[2] = u2
    BY OwnIs
<1>2. DOMAIN sp = 1..2 /\ sp[1] \in Nat /\ sp[2] \in Nat
    <2>1. PICK m \in Nat : m = 2
        OBVIOUS
    <2>2. sp \in Seq(Nat) /\ Len(sp) = m
        BY <2>1
    <2>3. DOMAIN sp = 1..m /\ \A k \in 1..m : sp[k] \in Nat
        BY ONLY <2>2, m \in Nat, RoundIs
    <2> QED BY ONLY <2>1, <2>3
<1>3. /\ sp[1] = None \/ (sp[1] \in (last + 1)..N /\ Spends(chain[sp[1]], u1))
      /\ sp[2] = None \/ (sp[2] \in (last + 1)..N /\ Spends(chain[sp[2]], u2))
    BY <1>1, <1>2, SeenAs DEF AskedOK, AskedOn
<1>4. sp = <<None, None>> <=> sp[1] = None /\ sp[2] = None
    BY <1>2
<1>5. r = resolve_dormant_transition(b, sp)
    BY DEF resolve_transition
<1>6. L = DormantOwn(y, n)
    OBVIOUS
<1>m. ASSUME NEW v \in L, NEW q \in (last + 1)..N, Spends(chain[q], v)
      PROVE  /\ \A w \in L : Spends(chain[q], w)
             /\ lineage[q] = UnresolvedOwn(<<q, 0>>, <<q, 1>>, <<q, 2>>)
             /\ find_slot_outputs(q) = UnresolvedOwn(<<q, 0>>, <<q, 1>>, <<q, 2>>)
             /\ Reissues(q)
    <2>1. PICK l \in 1..N : l = last
        BY <1>0
    <2>2. v \in lineage[l] /\ lineage[l] = DormantOwn(y, n) /\ q \in (l + 1)..N
        BY <1>6, <1>m, <2>1
    <2>3. /\ \A w \in lineage[l] : Spends(chain[q], w)
          /\ lineage[q] = UnresolvedOwn(<<q, 0>>, <<q, 1>>, <<q, 2>>)
          /\ find_slot_outputs(q) = UnresolvedOwn(<<q, 0>>, <<q, 1>>, <<q, 2>>)
          /\ Reissues(q)
        BY ONLY ChainOK, l \in 1..N, <1>m, <2>2, DormantMoves
    <2> QED BY <2>1, <2>3
<1>d. b.state = "Dormant"
    OBVIOUS
<1> HIDE DEF last, L, u1, u2, N, t, F
<1>7. CASE sp = <<None, None>>
    <2>1. r = b
        BY <1>5, <1>7 DEF resolve_dormant_transition
    <2> QED BY <2>1, <1>d, NotError DEF GoodBundle, EndedOn
<1>8. CASE sp # <<None, None>>
    <2> DEFINE agree == sp[1] = sp[2]
    <2>1. CASE agree
        <3>1. t # None /\ t = sp[1] /\ t = sp[2] /\ t \in (last + 1)..N
              /\ Spends(chain[t], u1) /\ Spends(chain[t], u2)
            BY <1>3, <1>4, <1>8, <2>1 DEF t
        <3>2. /\ lineage[t] = UnresolvedOwn(<<t, 0>>, <<t, 1>>, <<t, 2>>)
              /\ find_slot_outputs(t) = UnresolvedOwn(<<t, 0>>, <<t, 1>>, <<t, 2>>)
              /\ Reissues(t)
            BY <3>1, <1>1, <1>m
        <3>3. /\ ExactSlotSet(t, UnresolvedSlots)
              /\ F = << Own(<<t, 0>>, "UnresolvedYesRt"), Own(<<t, 1>>, "UnresolvedNoRt"),
                        Own(<<t, 2>>, "UnresolvedCollateral") >>
            BY <3>2, ReadsUnresolved DEF F
        <3>4. tx_spends_outpoint(t, b.utxos[1]) /\ tx_spends_outpoint(t, b.utxos[2])
            BY <3>1, <1>1, SeenAs
        <3>5. r = Bundle("Unresolved", F, t)
            <4>1. \A k \in 1..2 : k = 1 \/ k = 2
                OBVIOUS
            <4>2. \A k \in 1..2 : tx_spends_outpoint(t, b.utxos[k])
                BY <3>4, <4>1
            <4> QED BY <4>2, <1>5, <1>8, <2>1, <3>1, <3>2, <3>3 DEF resolve_dormant_transition, F, t
        <3>6. t \in 1..N
            BY <3>1, <1>0
        <3>7. BundleOK(r)
            BY <3>2, <3>3, <3>5, <3>6, BundlesOK DEF N
        <3> QED BY <3>5, <3>7, NotError DEF GoodBundle, EndedOn
    <2>2. CASE ~agree
        <3>1. r = ScanError
            BY <1>5, <1>8, <2>2 DEF resolve_dormant_transition
        <3>2. ASSUME Current(b, sp) PROVE FALSE
            <4>1. sp[1] = spending_txid(u1) /\ sp[2] = spending_txid(u2)
                BY <3>2, <1>1, <1>2 DEF Current
            <4>3. ASSUME NEW v \in {u1, u2}, NEW w \in {u1, u2}, spending_txid(v) # None
                  PROVE  spending_txid(w) = spending_txid(v)
                <5>0. v \in L /\ w \in L
                    BY <1>1
                <5>1. PICK q : q = spending_txid(v)
                    OBVIOUS
                <5>2. q \in (last + 1)..N /\ Spends(chain[q], v) /\ q \in 2..N
                    BY <1>0, <5>0, <5>1, <4>3, AnswerIs DEF L, N
                <5>3. Spends(chain[q], w)
                    BY <5>0, <5>2, <1>m
                <5> QED BY <1>0, <5>0, <5>1, <5>2, <5>3, AnswerIs DEF L, N
            <4> QED BY <4>1, <4>3, <2>2, <1>4, <1>8
        <3> QED BY <3>1, <3>2
    <2> QED BY <2>1, <2>2
<1> QED
    BY <1>7, <1>8

(* A transaction of the whole bundle is read as what it made. *)
LEMMA BundleRead ==
    ASSUME ChainOK, NEW b, b.last \in 1..Len(chain),
           NEW y, NEW n, NEW c, lineage[b.last] = UnresolvedOwn(y, n, c),
           b.utxos = << Own(y, "UnresolvedYesRt"), Own(n, "UnresolvedNoRt"),
                        Own(c, "UnresolvedCollateral") >>,
           NEW t \in (b.last + 1)..Len(chain), \A w \in lineage[b.last] : Spends(chain[t], w)
    PROVE  BundleOK(BundleTransition(b, t)) /\ BundleTransition(b, t) # ScanError
<1> DEFINE last == b.last
           L == lineage[last]
           M == lineage[t]
           N == Len(chain)
           r == BundleTransition(b, t)
<1>0. N \in Nat /\ last \in 1..N /\ last \in Nat /\ t \in 1..N
    BY ChainIs
<1>1. /\ Own(y, "UnresolvedYesRt") \in L /\ Own(n, "UnresolvedNoRt") \in L
      /\ Own(c, "UnresolvedCollateral") \in L
    BY OwnIs
<1>2. Spends(chain[t], Own(c, "UnresolvedCollateral")) /\ Spends(chain[t], Own(y, "UnresolvedYesRt"))
    BY <1>1
<1>3. M = find_slot_outputs(t) /\ BundleMoves(t, M)
    BY <1>0, <1>2, UnresolvedMoves
<1>4. \A k \in 1..3 : tx_spends_outpoint(t, b.utxos[k])
    <2>1. b.utxos[1] \in L /\ b.utxos[2] \in L /\ b.utxos[3] \in L
        BY <1>1
    <2>2. \A k \in 1..3 : k = 1 \/ k = 2 \/ k = 3
        OBVIOUS
    <2>3. \A k \in 1..3 : b.utxos[k] \in L
        BY <2>1, <2>2
    <2> QED BY <2>3, SeenAs
<1>5. CASE M = UnresolvedOwn(<<t, 0>>, <<t, 1>>, <<t, 2>>) /\ Reissues(t)
    <2> DEFINE F == expect_exact_slot_set(t, UnresolvedSlots)
    <2>1. find_slot_outputs(t) = UnresolvedOwn(<<t, 0>>, <<t, 1>>, <<t, 2>>)
        BY <1>3, <1>5
    <2>2. /\ ExactSlotSet(t, UnresolvedSlots) /\ ~ExactSlotSet(t, DormantSlots)
          /\ \A slot \in TerminalSlots : ~ExactSlotSet(t, <<slot>>)
          /\ F = << Own(<<t, 0>>, "UnresolvedYesRt"), Own(<<t, 1>>, "UnresolvedNoRt"),
                    Own(<<t, 2>>, "UnresolvedCollateral") >>
        BY <2>1, ReadsUnresolved
    <2> HIDE DEF F, M
    <2>3. r = Bundle("Unresolved", F, t)
        BY <1>4, <1>5, <2>2 DEF BundleTransition, F
    <2>4. BundleOK(r)
        BY <1>0, <1>5, <2>2, <2>3, BundlesOK DEF M
    <2> QED BY <2>3, <2>4, NotError
<1>6. CASE M = DormantOwn(<<t, 0>>, <<t, 1>>) /\ burn_output_count(t) >= 2
    <2> DEFINE F == expect_exact_slot_set(t, DormantSlots)
    <2>1. find_slot_outputs(t) = DormantOwn(<<t, 0>>, <<t, 1>>)
        BY <1>3, <1>6
    <2>2. /\ ExactSlotSet(t, DormantSlots) /\ ~ExactSlotSet(t, UnresolvedSlots)
          /\ \A slot \in TerminalSlots : ~ExactSlotSet(t, <<slot>>)
          /\ F = <<Own(<<t, 0>>, "DormantYesRt"), Own(<<t, 1>>, "DormantNoRt")>>
        BY <2>1, ReadsDormant
    <2> HIDE DEF F, M
    <2>3. r = Bundle("Dormant", F, t)
        BY <1>4, <1>6, <2>2 DEF BundleTransition, F
    <2>4. BundleOK(r)
        BY <1>0, <1>6, <2>2, <2>3, BundlesOK DEF M
    <2> QED BY <2>3, <2>4, NotError
<1>7. ASSUME NEW slot \in TerminalSlots, M = {Own(<<t, 2>>, slot)}, burn_output_count(t) >= 2
      PROVE  BundleOK(r) /\ r # ScanError
    <2> DEFINE u == CHOOSE v \in find_slot_outputs(t) : TRUE
    <2>1. find_slot_outputs(t) = {Own(<<t, 2>>, slot)}
        BY <1>3, <1>7
    <2>2. /\ ExactSlotSet(t, <<slot>>)
          /\ ~ExactSlotSet(t, UnresolvedSlots) /\ ~ExactSlotSet(t, DormantSlots)
          /\ u = Own(<<t, 2>>, slot)
        <3>1. slot \in TerminalSlots \cup {"UnresolvedCollateral"}
            OBVIOUS
        <3>2. PICK i : i = <<t, 2>>
            OBVIOUS
        <3>3. find_slot_outputs(t) = {Own(i, slot)}
            BY <2>1, <3>2
        <3> QED BY ONLY <3>1, <3>2, <3>3, ReadsOne
    <2> HIDE DEF u, M
    <2>3. u.slot = slot
        BY <2>2 DEF Own
    <2>4. r = Bundle(TerminalStateOf(u.slot), <<u>>, t)
        BY <1>4, <1>7, <2>2 DEF BundleTransition, u
    <2>5. r = Bundle(TerminalStateOf(slot), <<Own(<<t, 2>>, slot)>>, t)
        BY <2>2, <2>3, <2>4
    <2>6. BundleOK(r)
        BY <1>0, <1>7, <2>5, BundlesOK DEF M
    <2>7. TerminalStateOf(slot) # "Error"
        BY DEF TerminalStateOf, TerminalSlots
    <2> QED BY <2>5, <2>6, <2>7, NotError
<1> QED
    BY <1>3, <1>5, <1>6, <1>7 DEF BundleMoves

LEMMA FirstTwo ==
    ASSUME NEW a, NEW b, NEW c, NEW d
    PROVE  SubSeq(<<a, b, c>>, 1, 2) \o <<d>> = <<a, b, d>>
<1> DEFINE S == {a, b, c, d}
           s == <<a, b, c>>
           q == SubSeq(s, 1, 2)
           w == <<d>>
           r == q \o w
<1>1. s[1] = a /\ s[2] = b /\ (\A i \in 1..2 : s[i] \in S) /\ d \in S
    OBVIOUS
<1>2. w \in Seq(S) /\ Len(w) = 1 /\ w[1] = d
    OBVIOUS
<1> HIDE DEF S, s, w
<1>3. q \in Seq(S) /\ Len(q) = 2 /\ q[1] = a /\ q[2] = b
    <2>1. PICK i \in Int, j \in Int : i = 1 /\ j = 2
        OBVIOUS
    <2>2. \A k \in i..j : s[k] \in S
        BY <1>1, <2>1
    <2>3. /\ SubSeq(s, i, j) \in Seq(S)
          /\ Len(SubSeq(s, i, j)) = IF i <= j THEN j - i + 1 ELSE 0
          /\ \A k \in 1..(j - i + 1) : SubSeq(s, i, j)[k] = s[i + k - 1]
        BY ONLY <2>2, i \in Int, j \in Int, SubSeqProperties
    <2>4. 1 \in 1..(j - i + 1) /\ 2 \in 1..(j - i + 1) /\ i + 1 - 1 = 1 /\ i + 2 - 1 = 2
        BY <2>1
    <2> QED BY <1>1, <2>1, <2>3, <2>4
<1> HIDE DEF q
<1>4. r \in Seq(S) /\ Len(r) = 3 /\ r[1] = a /\ r[2] = b /\ r[3] = d
    <2>1. /\ r \in Seq(S) /\ Len(r) = Len(q) + Len(w)
          /\ \A i \in 1..(Len(q) + Len(w)) : r[i] = IF i <= Len(q) THEN q[i] ELSE w[i - Len(q)]
        BY <1>2, <1>3, ConcatProperties
    <2> HIDE DEF r
    <2>2. PICK m : m = Len(q) /\ m = 2
        BY <1>3
    <2>3. PICK k : k = Len(w) /\ k = 1
        BY <1>2
    <2>4. \A i \in 1..3 : r[i] = IF i <= 2 THEN q[i] ELSE w[i - 2]
        BY <2>1, <2>2, <2>3
    <2>5. r[1] = q[1] /\ r[2] = q[2] /\ r[3] = w[1]
        <3>1. /\ 1 \in 1..3 /\ 2 \in 1..3 /\ 3 \in 1..3 /\ 3 - 2 = 1
              /\ 1 <= 2 /\ 2 <= 2 /\ ~(3 <= 2)
            OBVIOUS
        <3> QED BY ONLY <2>4, <3>1
    <2> QED BY <1>2, <1>3, <2>1, <2>5
<1> HIDE DEF r
<1>5. r = <<a, b, d>>
    BY <1>4
<1> QED
    BY <1>5 DEF r, q, w, s

(* And a partial cancellation as that. *)
LEMMA PartialRead ==
    ASSUME ChainOK, NEW b, b.last \in 1..Len(chain),
           NEW y, NEW n, NEW c, lineage[b.last] = UnresolvedOwn(y, n, c),
           b.utxos = << Own(y, "UnresolvedYesRt"), Own(n, "UnresolvedNoRt"),
                        Own(c, "UnresolvedCollateral") >>,
           NEW t \in (b.last + 1)..Len(chain), Spends(chain[t], Own(c, "UnresolvedCollateral"))
    PROVE  /\ PartialCancellation(b, t) = ScanError \/ BundleOK(PartialCancellation(b, t))
           /\ ~Spends(chain[t], Own(y, "UnresolvedYesRt")) => PartialCancellation(b, t) # ScanError
<1> DEFINE last == b.last
           L == lineage[last]
           M == lineage[t]
           N == Len(chain)
           r == PartialCancellation(b, t)
           u1 == Own(y, "UnresolvedYesRt")
           u2 == Own(n, "UnresolvedNoRt")
           u3 == Own(c, "UnresolvedCollateral")
           w == Own(<<t, 0>>, "UnresolvedCollateral")
           e == <<"UnresolvedCollateral">>
<1>0. N \in Nat /\ last \in 1..N /\ last \in Nat /\ t \in 1..N
    BY ChainIs
<1>1. b.utxos = <<u1, u2, u3>> /\ u1 \in L
    BY OwnIs
<1>2. /\ tx_spends_outpoint(t, b.utxos[3])
      /\ tx_spends_outpoint(t, b.utxos[1]) <=> Spends(chain[t], u1)
      /\ tx_spends_outpoint(t, b.utxos[2]) <=> Spends(chain[t], u2)
    BY <1>1, SeenAs
<1>3. CASE Spends(chain[t], u1)
    BY <1>2, <1>3 DEF PartialCancellation
<1>4. CASE ~Spends(chain[t], u1)
    <2>1. /\ ~Spends(chain[t], u2)
          /\ M = UnresolvedOwn(y, n, <<t, 0>>)
          /\ find_slot_outputs(t) = {w}
          /\ burn_output_count(t) >= 2
        BY <1>0, <1>1, <1>4, UnresolvedMoves
    <2>2. ExactSlotSet(t, e) /\ expect_exact_slot_set(t, e) = <<w>>
        <3>1. PICK i, slot : i = <<t, 0>> /\ slot = "UnresolvedCollateral"
            OBVIOUS
        <3>2. find_slot_outputs(t) = {Own(i, slot)} /\ slot \in TerminalSlots \cup {"UnresolvedCollateral"}
            BY <2>1, <3>1
        <3>3. ExactSlotSet(t, <<slot>>) /\ expect_exact_slot_set(t, <<slot>>) = <<Own(i, slot)>>
            BY ONLY <3>2, ReadsOne
        <3> QED BY <3>1, <3>3
    <2>3. SubSeq(b.utxos, 1, 2) \o <<w>> = <<u1, u2, w>>
        <3> HIDE DEF u1, u2, u3, w
        <3>1. SubSeq(<<u1, u2, u3>>, 1, 2) \o <<w>> = <<u1, u2, w>>
            BY ONLY FirstTwo
        <3> QED BY <1>1, <3>1
    <2> HIDE DEF e, w, M
    <2>4. r = Bundle("Unresolved", <<u1, u2, w>>, t)
        BY <1>2, <1>4, <2>1, <2>2, <2>3 DEF PartialCancellation, e
    <2>5. BundleOK(r)
        BY <1>0, <2>1, <2>4, BundlesOK DEF M, w
    <2> QED BY <2>4, <2>5, NotError
<1> QED
    BY <1>3, <1>4

(* Whoever spends a reissuance token spends all the market owned, or the   *)
(* bundle was severed.                                                     *)
LEMMA TokenSpent ==
    ASSUME ChainOK, NEW last \in 1..Len(chain), NEW y, NEW n, NEW c,
           lineage[last] = UnresolvedOwn(y, n, c),
           NEW v \in {Own(y, "UnresolvedYesRt"), Own(n, "UnresolvedNoRt")},
           NEW t \in (last + 1)..Len(chain), Spends(chain[t], v)
    PROVE  (\A w \in lineage[last] : Spends(chain[t], w)) \/ SeveredBundle
<1> DEFINE r == t - 1
           L == lineage[last]
           K == lineage[r]
           M == lineage[t]
           tx == chain[t]
           N == Len(chain)
           u1 == Own(y, "UnresolvedYesRt")
           u2 == Own(n, "UnresolvedNoRt")
<1>0. /\ N \in Nat /\ last \in 1..N /\ last \in Nat /\ t \in 2..N /\ t \in Nat
      /\ r \in last..N /\ r \in 1..N /\ r \in Nat
    BY ChainIs
<1>1. L = UnresolvedOwn(y, n, c) /\ u1 \in L /\ u2 \in L /\ v \in L
    BY OwnIs
<1>2. v \in K /\ v \notin M
    BY <1>0, <1>1, SpenderIs
<1>3. Extends(tx, t, K, M) /\ Shaped(K)
    BY <1>0, ChainIs
<1>4. Related(chain, lineage, last, r)
    BY <1>0, ChainIs
<1>5. (\A w \in L : Owned(chain, w, last)) /\ (\A w \in K : Owned(chain, w, r))
    BY <1>0, ChainIs
<1>6. v.slot \in {"UnresolvedYesRt", "UnresolvedNoRt"}
    BY DEF Own
<1> HIDE DEF r, L, K, M, tx, N, u1, u2
<1>7. PICK y2, n2, c2 \in {u.id : u \in K} : K = UnresolvedOwn(y2, n2, c2) /\ y2[1] = n2[1]
    <2>1. K # {}
        BY <1>2
    <2>2. ASSUME NEW a, NEW d, K = DormantOwn(a, d) PROVE FALSE
        BY <2>2, <1>2, <1>6 DEF DormantOwn, Own
    <2>3. ASSUME NEW a, NEW slot \in TerminalSlots, K = {Own(a, slot)} PROVE FALSE
        BY <2>3, <1>2, <1>6 DEF TerminalSlots, Own
    <2> QED BY <1>3, <2>1, <2>2, <2>3 DEF Shaped
<1>8. MovesAll(tx, t, K, M)
    <2>1. ~MovesNothing(tx, K, M)
        BY <1>2 DEF MovesNothing
    <2>2. ASSUME MovesCollateral(tx, t, K, M) PROVE FALSE
        <3>1. PICK a, d, e :
                 K = UnresolvedOwn(a, d, e) /\ M = UnresolvedOwn(a, d, <<t, 0>>)
            BY <2>2 DEF MovesCollateral
        <3> QED BY <3>1, <1>2, <1>6 DEF UnresolvedOwn, Own
    <2> QED BY <1>3, <2>1, <2>2 DEF Extends
<1>9. PICK k, j \in DOMAIN tx.ins :
          /\ tx.ins[k].script = "UnresolvedYesRt" /\ tx.ins[k].id = y2
          /\ tx.ins[j].script = "UnresolvedCollateral" /\ tx.ins[j].id = c2
    BY <1>7, <1>8 DEF MovesAll
<1> DEFINE u3 == Own(c2, "UnresolvedCollateral")
<1>10. u3 \in K /\ u3.id = c2 /\ u3.slot = "UnresolvedCollateral"
    BY <1>7, OwnIs
<1> HIDE DEF u3
<1>11. CASE u3 \in L
    <2>1. u3 \in Pivots(L)
        BY <1>10, <1>11 DEF Pivots
    <2>2. K = L
        BY <1>4, <1>10, <2>1 DEF Related, K, L
    <2> QED BY <1>8, <2>2 DEF MovesAll, L, tx
<1>12. CASE u3 \notin L
    <2>1. c2[1] \in Nat /\ c2[1] > last
        <3>1. u3.id[1] \in 1..r
            BY <1>0, <1>5, <1>10, OwnedIs
        <3>2. ~(u3.id[1] <= last)
            BY <1>4, <1>10, <1>12 DEF Related, K, L
        <3> QED BY <1>0, <1>10, <3>1, <3>2
    <2>2. y2[1] \in Nat /\ y2[1] # c2[1]
        <3>1. v.id[1] \in 1..last
            BY <1>0, <1>1, <1>5, OwnedIs
        <3>2. v.id = y2 \/ v.id = n2
            BY <1>2, <1>6, <1>7 DEF UnresolvedOwn, Own
        <3> QED BY <1>0, <1>7, <2>1, <3>1, <3>2
    <2>3. SeveredBundle
        BY <1>0, <1>9, <2>2 DEF SeveredBundle, tx, N
    <2> QED BY <2>3
<1> QED
    BY <1>11, <1>12

(* A round of an unresolved market. *)
LEMMA UnresolvedRound ==
    ASSUME ChainOK, NEW b, BundleOK(b), b.last \in 1..Len(chain), b.state = "Unresolved",
           NEW y, NEW n, NEW c, lineage[b.last] = UnresolvedOwn(y, n, c),
           b.utxos = << Own(y, "UnresolvedYesRt"), Own(n, "UnresolvedNoRt"),
                        Own(c, "UnresolvedCollateral") >>,
           NEW sp \in Seq(Nat), Len(sp) = 3, AskedOK(b, sp),
           NEW r, r = resolve_transition(b, sp)
    PROVE  /\ r = ScanError \/ GoodBundle(r)
           /\ Current(b, sp) => r # ScanError \/ SeveredBundle
<1> DEFINE last == b.last
           L == lineage[last]
           u1 == Own(y, "UnresolvedYesRt")
           u2 == Own(n, "UnresolvedNoRt")
           u3 == Own(c, "UnresolvedCollateral")
           N == Len(chain)
<1>0. N \in Nat /\ last \in 1..N /\ last \in Nat
    BY ChainIs
<1>1. /\ u1 \in L /\ u2 \in L /\ u3 \in L
      /\ b.utxos[1] = u1 /\ b.utxos[2] = u2 /\ b.utxos[3] = u3
      /\ \A w \in L : w \in {u1, u2, u3}
    BY OwnIs DEF UnresolvedOwn
<1>2. DOMAIN sp = 1..3 /\ sp[1] \in Nat /\ sp[2] \in Nat /\ sp[3] \in Nat
    <2>1. PICK m \in Nat : m = 3
        OBVIOUS
    <2>2. sp \in Seq(Nat) /\ Len(sp) = m
        BY <2>1
    <2>3. DOMAIN sp = 1..m /\ \A k \in 1..m : sp[k] \in Nat
        BY ONLY <2>2, m \in Nat, RoundIs
    <2> QED BY ONLY <2>1, <2>3
<1>3. /\ sp[1] = None \/ (sp[1] \in (last + 1)..N /\ Spends(chain[sp[1]], u1))
      /\ sp[2] = None \/ (sp[2] \in (last + 1)..N /\ Spends(chain[sp[2]], u2))
      /\ sp[3] = None \/ (sp[3] \in (last + 1)..N /\ Spends(chain[sp[3]], u3))
    BY <1>1, <1>2, SeenAs DEF AskedOK, AskedOn
<1>4. sp = <<None, None, None>> <=> sp[1] = None /\ sp[2] = None /\ sp[3] = None
    <2>1. ASSUME sp[1] = None, sp[2] = None, sp[3] = None PROVE sp = <<None, None, None>>
        BY <1>2, <2>1
    <2> QED BY <2>1
<1>5. r = resolve_unresolved_transition(b, sp)
    BY DEF resolve_transition
<1>6. b.state = "Unresolved" /\ b.utxos = <<u1, u2, u3>> /\ L = UnresolvedOwn(y, n, c)
    OBVIOUS
<1>7. CASE sp[1] = None /\ sp[2] = None /\ sp[3] = None
    <2>1. r = b
        BY <1>4, <1>5, <1>7 DEF resolve_unresolved_transition
    <2> QED BY <2>1, <1>6, NotError DEF GoodBundle, EndedOn
<1>8. CASE sp[1] = None /\ sp[2] = None /\ sp[3] # None
    <2>1. r = PartialCancellation(b, sp[3])
        BY <1>4, <1>5, <1>8 DEF resolve_unresolved_transition
    <2>2. PICK t : t = sp[3]
        OBVIOUS
    <2>3. t \in (last + 1)..N /\ Spends(chain[t], u3) /\ t \in 2..N
        BY <1>0, <1>3, <1>8, <2>2
    <2>4. /\ PartialCancellation(b, t) = ScanError \/ BundleOK(PartialCancellation(b, t))
          /\ ~Spends(chain[t], u1) => PartialCancellation(b, t) # ScanError
        BY <2>3, PartialRead
    <2>5. ASSUME Current(b, sp) PROVE ~Spends(chain[t], u1)
        <3>1. spending_txid(u1) = None
            BY <2>5, <1>1, <1>2, <1>8 DEF Current
        <3> QED BY <1>0, <1>1, <2>3, <3>1, AnswerIs
    <2> QED BY <2>1, <2>2, <2>4, <2>5 DEF GoodBundle
<1>9. CASE sp[1] # None /\ sp[1] = sp[2] /\ sp[2] = sp[3]
    <2>1. r = BundleTransition(b, sp[1])
        BY <1>4, <1>5, <1>9 DEF resolve_unresolved_transition
    <2>2. PICK t : t = sp[1]
        OBVIOUS
    <2>3. /\ t \in (last + 1)..N
          /\ Spends(chain[t], u1) /\ Spends(chain[t], u2) /\ Spends(chain[t], u3)
        BY <1>3, <1>9, <2>2
    <2>4. \A w \in L : Spends(chain[t], w)
        BY <1>1, <2>3
    <2>5. BundleOK(BundleTransition(b, t)) /\ BundleTransition(b, t) # ScanError
        BY <2>3, <2>4, BundleRead
    <2> QED BY <2>1, <2>2, <2>5 DEF GoodBundle
<1> DEFINE nones == sp[1] = None /\ sp[2] = None
           same == sp[1] # None /\ sp[1] = sp[2] /\ sp[2] = sp[3]
<1>10. CASE ~nones /\ ~same
    <2>1. r = ScanError
        BY <1>4, <1>5, <1>10 DEF resolve_unresolved_transition
    <2>2. ASSUME Current(b, sp) PROVE SeveredBundle
        <3>1. sp[1] = spending_txid(u1) /\ sp[2] = spending_txid(u2) /\ sp[3] = spending_txid(u3)
            BY <2>2, <1>1, <1>2 DEF Current
        <3>2. PICK v \in {u1, u2} : spending_txid(v) # None
            BY <3>1, <1>10
        <3>3. PICK t : t = spending_txid(v)
            OBVIOUS
        <3>4. v \in L /\ t # None
            BY <1>1, <3>2, <3>3
        <3>5. t \in (last + 1)..N /\ Spends(chain[t], v)
            BY <1>0, <3>3, <3>4, AnswerIs
        <3>6. (\A w \in L : Spends(chain[t], w)) \/ SeveredBundle
            BY <1>0, <1>6, <3>2, <3>5, TokenSpent
        <3>7. ASSUME \A w \in L : Spends(chain[t], w) PROVE FALSE
            <4>1. t \in 2..N
                BY <1>0, <3>5
            <4>2. ASSUME NEW w \in L PROVE spending_txid(w) = t
                <5>1. Spends(chain[t], w)
                    BY <3>7
                <5> QED BY <1>0, <4>1, <5>1, AnswerIs
            <4>3. sp[1] = t /\ sp[2] = t /\ sp[3] = t
                BY <1>1, <3>1, <4>2
            <4> QED BY <4>3, <3>4, <1>10
        <3> QED BY <3>6, <3>7
    <2> QED BY <2>1, <2>2
<1> QED
    BY <1>7, <1>8, <1>9, <1>10

(* A round of a concluded one. *)
LEMMA TerminalRound ==
    ASSUME ChainOK, NEW b, BundleOK(b), b.last \in 1..Len(chain),
           NEW slot \in TerminalSlots, NEW c, b.state = TerminalStateOf(slot),
           lineage[b.last] = {Own(c, slot)}, b.utxos = <<Own(c, slot)>>,
           NEW sp \in Seq(Nat), Len(sp) = 1, AskedOK(b, sp),
           NEW r, r = resolve_transition(b, sp)
    PROVE  GoodBundle(r) /\ r # ScanError
<1> DEFINE last == b.last
           L == lineage[last]
           u == Own(c, slot)
           N == Len(chain)
           t == sp[1]
           e == <<slot>>
<1>0. N \in Nat /\ last \in 1..N /\ last \in Nat
    BY ChainIs
<1>1. b.utxos[1] = u /\ u.slot = slot /\ u \in L
    BY OwnIs
<1>2. DOMAIN sp = 1..1 /\ t \in Nat
    <2>1. PICK m \in Nat : m = 1
        OBVIOUS
    <2>2. sp \in Seq(Nat) /\ Len(sp) = m
        BY <2>1
    <2>3. DOMAIN sp = 1..m /\ \A k \in 1..m : sp[k] \in Nat
        BY ONLY <2>2, m \in Nat, RoundIs
    <2> QED BY ONLY <2>1, <2>3
<1>3. t = None \/ (t \in (last + 1)..N /\ Spends(chain[t], u))
    BY <1>1, <1>2, SeenAs DEF AskedOK, AskedOn
<1>4. b.state \notin {"Dormant", "Unresolved", "Error"}
    BY DEF TerminalStateOf, TerminalSlots
<1>5. r = resolve_terminal_transition(b, sp)
    BY <1>4 DEF resolve_transition
<1>6. b.state = TerminalStateOf(slot) /\ L = {u}
    OBVIOUS
<1>7. CASE t = None
    <2>1. r = b
        BY <1>5, <1>7 DEF resolve_terminal_transition
    <2> QED BY <2>1, <1>4, NotError DEF GoodBundle, EndedOn
<1>8. CASE t # None
    <2>1. t \in (last + 1)..N /\ Spends(chain[t], u) /\ t \in 1..N
        BY <1>0, <1>3, <1>8
    <2> HIDE DEF t
    <2>2. /\ lineage[t] = find_slot_outputs(t)
          /\ find_slot_outputs(t) = {} \/ find_slot_outputs(t) = {Own(<<t, 0>>, slot)}
          /\ burn_output_count(t) >= 1
        BY <1>0, <1>6, <2>1, TerminalMoves
    <2>3. tx_spends_outpoint(t, b.utxos[1])
        BY <1>1, <2>1, SeenAs
    <2>4. CASE find_slot_outputs(t) = {}
        <3>1. r = Bundle(b.state, <<>>, t)
            BY <1>5, <1>8, <2>2, <2>3, <2>4 DEF resolve_terminal_transition, t
        <3> QED BY <1>4, <2>1, <2>2, <2>4, <3>1, NotError DEF GoodBundle, EndedOn
    <2>5. CASE find_slot_outputs(t) = {Own(<<t, 0>>, slot)}
        <3> DEFINE F == expect_exact_slot_set(t, e)
        <3>1. ExactSlotSet(t, e) /\ F = <<Own(<<t, 0>>, slot)>>
            <4>1. PICK i : i = <<t, 0>>
                OBVIOUS
            <4>2. find_slot_outputs(t) = {Own(i, slot)} /\ slot \in TerminalSlots \cup {"UnresolvedCollateral"}
                BY <2>5, <4>1
            <4>3. ExactSlotSet(t, <<slot>>) /\ expect_exact_slot_set(t, <<slot>>) = <<Own(i, slot)>>
                BY ONLY <4>2, ReadsOne
            <4> QED BY <4>1, <4>3
        <3>2. b.utxos[1].slot = slot /\ find_slot_outputs(t) # {}
            BY <1>1, <2>5
        <3> HIDE DEF F, e
        <3>3. r = Bundle(b.state, F, t)
            BY <1>5, <1>8, <2>2, <2>3, <3>1, <3>2 DEF resolve_terminal_transition, t, F, e
        <3>4. BundleOK(r)
            BY <1>6, <2>1, <2>2, <2>5, <3>1, <3>3, BundlesOK
        <3> QED BY <1>4, <3>3, <3>4, NotError DEF GoodBundle, EndedOn
    <2> QED BY <2>2, <2>4, <2>5
<1> QED
    BY <1>7, <1>8

(* What a round is asked about: all the market owned. *)
LEMMA AskedAbout ==
    ASSUME NEW b, BundleOK(b)
    PROVE  /\ b.last \in 1..Len(chain)
           /\ Len(b.utxos) \in Nat /\ DOMAIN b.utxos = 1..Len(b.utxos)
           /\ {b.utxos[k] : k \in DOMAIN b.utxos} = lineage[b.last]
           /\ Len(b.utxos) >= 1 /\ b.utxos[Len(b.utxos)] \in Pivots(lineage[b.last])
           /\ b # ScanError /\ b.utxos # <<>>
<1> DEFINE L == lineage[b.last]
<1>1. b.last \in 1..Len(chain)
    BY DEF BundleOK, BundleOn
<1>2. ASSUME NEW y, NEW n, L = DormantOwn(y, n), b.state = "Dormant",
             NEW u1, NEW u2, u1 = Own(y, "DormantYesRt"), u2 = Own(n, "DormantNoRt"),
             b.utxos = <<u1, u2>>
      PROVE  /\ Len(b.utxos) = 2 /\ DOMAIN b.utxos = 1..2
             /\ {b.utxos[k] : k \in DOMAIN b.utxos} = L
             /\ b.utxos[2] \in Pivots(L) /\ b.state # "Error" /\ b.utxos # <<>>
    <2>1. L = {u1, u2} /\ u2.slot = "DormantNoRt"
        BY <1>2, OwnIs DEF DormantOwn
    <2>2. DOMAIN b.utxos = 1..2 /\ b.utxos[1] = u1 /\ b.utxos[2] = u2 /\ Len(b.utxos) = 2
        BY <1>2
    <2>3. {b.utxos[k] : k \in 1..2} = {u1, u2}
        BY <2>2
    <2>4. u2 \in Pivots(L)
        BY <2>1 DEF Pivots
    <2>5. b.utxos # <<>>
        BY <2>2
    <2> QED BY <1>2, <2>1, <2>2, <2>3, <2>4, <2>5
<1>3. ASSUME NEW y, NEW n, NEW c, L = UnresolvedOwn(y, n, c), b.state = "Unresolved",
             NEW u1, NEW u2, NEW u3, u1 = Own(y, "UnresolvedYesRt"), u2 = Own(n, "UnresolvedNoRt"),
             u3 = Own(c, "UnresolvedCollateral"), b.utxos = <<u1, u2, u3>>
      PROVE  /\ Len(b.utxos) = 3 /\ DOMAIN b.utxos = 1..3
             /\ {b.utxos[k] : k \in DOMAIN b.utxos} = L
             /\ b.utxos[3] \in Pivots(L) /\ b.state # "Error" /\ b.utxos # <<>>
    <2>1. L = {u1, u2, u3} /\ u3.slot = "UnresolvedCollateral"
        BY <1>3, OwnIs DEF UnresolvedOwn
    <2>2. /\ DOMAIN b.utxos = 1..3 /\ b.utxos[1] = u1 /\ b.utxos[2] = u2 /\ b.utxos[3] = u3
          /\ Len(b.utxos) = 3
        BY <1>3
    <2>3. {b.utxos[k] : k \in 1..3} = {u1, u2, u3}
        BY <2>2
    <2>4. u3 \in Pivots(L)
        BY <2>1 DEF Pivots
    <2>5. b.utxos # <<>>
        BY <2>2
    <2> QED BY <1>3, <2>1, <2>2, <2>3, <2>4, <2>5
<1>4. ASSUME NEW slot \in TerminalSlots, NEW c, L = {Own(c, slot)}, b.state = TerminalStateOf(slot),
             NEW u, u = Own(c, slot), b.utxos = <<u>>
      PROVE  /\ Len(b.utxos) = 1 /\ DOMAIN b.utxos = 1..1
             /\ {b.utxos[k] : k \in DOMAIN b.utxos} = L
             /\ b.utxos[1] \in Pivots(L) /\ b.state # "Error" /\ b.utxos # <<>>
    <2>1. L = {u} /\ u.slot = slot
        BY <1>4, OwnIs
    <2>2. DOMAIN b.utxos = 1..1 /\ b.utxos[1] = u /\ Len(b.utxos) = 1
        BY <1>4
    <2>3. {b.utxos[k] : k \in 1..1} = {u}
        BY <2>2
    <2>4. u \in Pivots(L)
        BY <2>1 DEF Pivots, TerminalSlots
    <2>5. b.utxos # <<>> /\ b.state # "Error"
        BY <1>4, <2>2 DEF TerminalStateOf, TerminalSlots
    <2> QED BY <1>4, <2>1, <2>2, <2>3, <2>4, <2>5
<1>5. \/ \E y, n : /\ L = DormantOwn(y, n) /\ b.state = "Dormant"
                   /\ b.utxos = <<Own(y, "DormantYesRt"), Own(n, "DormantNoRt")>>
      \/ \E y, n, c : /\ L = UnresolvedOwn(y, n, c) /\ b.state = "Unresolved"
                      /\ b.utxos = << Own(y, "UnresolvedYesRt"), Own(n, "UnresolvedNoRt"),
                                      Own(c, "UnresolvedCollateral") >>
      \/ \E slot \in TerminalSlots : \E c :
            L = {Own(c, slot)} /\ b.state = TerminalStateOf(slot) /\ b.utxos = <<Own(c, slot)>>
    BY DEF BundleOK, BundleOn, BundleOf
<1> HIDE DEF L
<1>6. \E m \in 1..3 :
         /\ Len(b.utxos) = m /\ DOMAIN b.utxos = 1..m
         /\ {b.utxos[k] : k \in DOMAIN b.utxos} = L
         /\ b.utxos[m] \in Pivots(L) /\ b.state # "Error" /\ b.utxos # <<>>
    BY <1>2, <1>3, <1>4, <1>5
<1> QED
    BY <1>1, <1>6, NotError DEF L

(* A round ends with a bundle of the market's history, or with an error    *)
(* that cannot come from answers that are all right.                       *)
LEMMA RoundEnds ==
    ASSUME ChainOK, NEW b, BundleOK(b),
           NEW sp \in Seq(Nat), Len(sp) = Len(b.utxos), AskedOK(b, sp),
           NEW r, r = resolve_transition(b, sp)
    PROVE  /\ r = ScanError \/ GoodBundle(r)
           /\ Current(b, sp) => r # ScanError \/ SeveredBundle
<1> DEFINE L == lineage[b.last]
<1>0. b.last \in 1..Len(chain)
    BY DEF BundleOK, BundleOn
<1>1. ASSUME NEW y, NEW n, L = DormantOwn(y, n), b.state = "Dormant",
             b.utxos = <<Own(y, "DormantYesRt"), Own(n, "DormantNoRt")>>
      PROVE  /\ r = ScanError \/ GoodBundle(r)
             /\ Current(b, sp) => r # ScanError \/ SeveredBundle
    <2>1. Len(sp) = 2
        BY <1>1
    <2> QED BY <1>0, <1>1, <2>1, DormantRound
<1>2. ASSUME NEW y, NEW n, NEW c, L = UnresolvedOwn(y, n, c), b.state = "Unresolved",
             b.utxos = << Own(y, "UnresolvedYesRt"), Own(n, "UnresolvedNoRt"),
                          Own(c, "UnresolvedCollateral") >>
      PROVE  /\ r = ScanError \/ GoodBundle(r)
             /\ Current(b, sp) => r # ScanError \/ SeveredBundle
    <2>1. Len(sp) = 3
        BY <1>2
    <2> QED BY <1>0, <1>2, <2>1, UnresolvedRound
<1>3. ASSUME NEW slot \in TerminalSlots, NEW c, L = {Own(c, slot)}, b.state = TerminalStateOf(slot),
             b.utxos = <<Own(c, slot)>>
      PROVE  /\ r = ScanError \/ GoodBundle(r)
             /\ Current(b, sp) => r # ScanError \/ SeveredBundle
    <2>1. Len(sp) = 1
        BY <1>3
    <2> QED BY <1>0, <1>3, <2>1, TerminalRound
<1> QED
    BY <1>1, <1>2, <1>3 DEF BundleOK, BundleOn, BundleOf

(* One more query of a round. *)
Asks(b, sp, q) ==
    /\ BundleOK(b) /\ sp \in Seq(Nat) /\ Len(sp) < Len(b.utxos) /\ AskedOK(b, sp)
    /\ \A k \in DOMAIN sp : sp[k] \in 0..Len(chain)
    /\ q = Append(sp, spending_txid(b.utxos[Len(sp) + 1]))

LEMMA Queries ==
    ASSUME ChainOK, NEW b, NEW sp, NEW q, Asks(b, sp, q)
    PROVE  /\ q \in Seq(Nat) /\ Len(q) = Len(sp) + 1 /\ AskedOK(b, q)
           /\ \A k \in DOMAIN q : q[k] \in 0..Len(chain)
           /\ Current(b, sp) => Current(b, q)
           /\ q[Len(q)] = spending_txid(b.utxos[Len(sp) + 1])
<1> DEFINE m == Len(sp)
           N == Len(chain)
           u == b.utxos[m + 1]
           a == spending_txid(u)
<1>a. /\ BundleOK(b) /\ sp \in Seq(Nat) /\ Len(sp) < Len(b.utxos) /\ AskedOK(b, sp)
      /\ \A k \in DOMAIN sp : sp[k] \in 0..Len(chain)
    BY DEF Asks
<1>0. /\ m \in Nat /\ DOMAIN sp = 1..m /\ N \in Nat /\ b.last \in 1..N /\ b.last \in Nat
      /\ \A k \in 1..m : sp[k] \in Nat
    <2>1. m \in Nat /\ DOMAIN sp = 1..m
        BY <1>a
    <2> QED BY <1>a, <2>1, AskedAbout, ChainIs
<1>1. u \in lineage[b.last]
    <2>1. m + 1 \in DOMAIN b.utxos
        BY <1>a, <1>0, AskedAbout
    <2> QED BY <1>a, <2>1, AskedAbout
<1>2. a = None \/ (a \in (b.last + 1)..N /\ Spends(chain[a], u))
    BY <1>0, <1>1, AnswerIs
<1>3. a \in 0..N /\ a \in Nat
    BY <1>0, <1>2 DEF None
<1>4. q = Append(sp, a)
    BY DEF Asks
<1> HIDE DEF a, m
<1>5. /\ q \in Seq(Nat) /\ Len(q) = m + 1 /\ DOMAIN q = 1..(m + 1)
      /\ \A k \in 1..m : q[k] = sp[k]
      /\ q[m + 1] = a
    BY <1>a, <1>3, <1>4 DEF m
<1>6. ASSUME NEW k \in DOMAIN q PROVE k \in 1..m \/ k = m + 1
    BY <1>0, <1>5
<1>7. AskedOK(b, q)
    BY <1>a, <1>0, <1>2, <1>5, <1>6 DEF AskedOK, AskedOn
<1>8. \A k \in DOMAIN q : q[k] \in 0..N
    BY <1>a, <1>0, <1>3, <1>5, <1>6
<1>9. Current(b, sp) => Current(b, q)
    BY <1>0, <1>5, <1>6 DEF Current, a
<1> QED
    BY <1>5, <1>7, <1>8, <1>9 DEF a, m

-----------------------------------------------------------------------------
(* Every step keeps the invariant. *)

(* The scan's words for what is said above of a chain. *)
LEMMA SaidOf ==
    /\ \A b, sp : Current(b, sp) <=> CurrentOn(chain, b, sp)
    /\ SeveredBundle <=> SeveredOn(chain)
<1>1. \A u : spending_txid(u) = SpenderOn(chain, u)
    BY DEF spending_txid, SpenderOn, tx_spends_outpoint, Spends
<1>2. \A b, sp : Current(b, sp) <=> CurrentOn(chain, b, sp)
    BY <1>1 DEF Current, CurrentOn
<1>3. SeveredBundle <=> SeveredOn(chain)
    BY DEF SeveredBundle, SeveredOn
<1> QED
    BY <1>2, <1>3

LEMMA ScanHas ==
    ASSUME ScanInv, Canonical
    PROVE  ChainOK
BY DEF ScanInv, ChainOK

(* A step of the scan itself. *)
LEMMA ScanSteps ==
    ASSUME ScanInv, UNCHANGED <<chain, lineage>>, ScanOn(chain, lineage, scan'),
           ~Canonical => scan'.pc \in {"idle", "unavailable", "not_canonical"}
    PROVE  ScanInv'
BY DEF ScanInv, Canonical

LEMMA StartsOK ==
    ASSUME ScanInv, StartScan
    PROVE  ScanInv'
<1> DEFINE u1 == Own(<<1, 0>>, "DormantYesRt")
           u2 == Own(<<1, 1>>, "DormantNoRt")
           b == Bundle("Dormant", <<u1, u2>>, 1)
<1>0. UNCHANGED <<chain, lineage>> /\ scan.pc = "idle" /\ ScanOn(chain, lineage, scan)
    BY DEF StartScan, ScanInv
<1>1. CASE Canonical
    <2>1. ChainOK
        BY <1>1, ScanHas
    <2>2. Len(chain) \in Nat /\ 1 \in 1..Len(chain) /\ Len(chain) >= 1
        BY <2>1 DEF ChainOK
    <2>3. lineage[1] = DormantOwn(<<1, 0>>, <<1, 1>>)
        BY <2>1, HistoryIs DEF ChainOK
    <2>4. BundleOK(b)
        BY <2>2, <2>3, BundlesOK
    <2>5. <<Utxo(1, 1), Utxo(1, 2)>> = <<u1, u2>>
        BY <1>1 DEF Canonical, validate_prediction_market_creation_tx,
                    matches_confidential_dormant_creation_output, Utxo, Own
    <2>6. scan' = [pc |-> "resolve", spender |-> <<>>, since |-> Len(chain), bundle |-> b]
        BY <1>1, <2>5 DEF StartScan, Canonical
    <2>7. Len(b.utxos) = 2
        BY NotError
    <2> HIDE DEF b
    <2>8. /\ scan'.pc = "resolve" /\ scan'.spender = <<>> /\ scan'.since = Len(chain)
          /\ scan'.bundle = b /\ DOMAIN scan' = {"pc", "bundle", "spender", "since"}
        BY <2>6
    <2>9. scan'.spender \in Seq(Nat) /\ Len(scan'.spender) = 0 /\ DOMAIN scan'.spender = {}
        BY <2>8
    <2>10. ScanOn(chain, lineage, scan')
        <3>1. Len(chain) <= Len(chain) /\ Len(scan'.spender) < Len(b.utxos)
            BY <2>2, <2>7, <2>9
        <3>2. AskedOn(chain, b, scan'.spender) /\ CurrentOn(chain, b, scan'.spender)
            BY <2>9 DEF AskedOn, CurrentOn
        <3> QED BY <2>2, <2>4, <2>8, <2>9, <3>1, <3>2 DEF ScanOn, BundleOK
    <2> QED BY <1>0, <1>1, <2>10, ScanSteps
<1>2. CASE ~Canonical
    <2>1. scan' = [scan EXCEPT !.pc = "not_canonical"]
        BY <1>2 DEF StartScan, Canonical
    <2>2. DOMAIN scan = {"pc", "bundle", "spender", "since"}
        BY <1>0 DEF ScanOn
    <2>3. /\ DOMAIN scan' = {"pc", "bundle", "spender", "since"} /\ scan'.pc = "not_canonical"
          /\ scan'.spender = scan.spender /\ scan'.since = scan.since
        BY <2>1, <2>2
    <2>4. ScanOn(chain, lineage, scan')
        BY <1>0, <2>3 DEF ScanOn
    <2> QED BY <1>0, <2>3, <2>4, ScanSteps
<1> QED
    BY <1>1, <1>2

(* A scan that fails keeps what it knew. *)
LEMMA FailsOK ==
    ASSUME ScanInv, BackendFails \/ Rescan
    PROVE  ScanInv'
<1>0. ScanOn(chain, lineage, scan) /\ DOMAIN scan = {"pc", "bundle", "spender", "since"}
    BY DEF ScanInv, ScanOn
<1>1. CASE BackendFails
    <2>1. scan' = [scan EXCEPT !.pc = "unavailable"] /\ UNCHANGED <<chain, lineage>>
        BY <1>1 DEF BackendFails
    <2>2. /\ DOMAIN scan' = {"pc", "bundle", "spender", "since"} /\ scan'.pc = "unavailable"
          /\ scan'.spender = scan.spender /\ scan'.since = scan.since
        BY <1>0, <2>1
    <2>3. ScanOn(chain, lineage, scan')
        BY <1>0, <2>2 DEF ScanOn
    <2> QED BY <2>1, <2>2, <2>3, ScanSteps
<1>2. CASE Rescan
    <2>1. /\ scan' = [pc |-> "idle", bundle |-> ScanError, spender |-> <<>>, since |-> 0]
          /\ UNCHANGED <<chain, lineage>>
        BY <1>2 DEF Rescan
    <2>2. /\ DOMAIN scan' = {"pc", "bundle", "spender", "since"} /\ scan'.pc = "idle"
          /\ scan'.spender = <<>> /\ scan'.since = 0
        BY <2>1
    <2>3. scan'.spender \in Seq(Nat) /\ DOMAIN scan'.spender = {}
        BY <2>2
    <2>4. ScanOn(chain, lineage, scan')
        BY <2>2, <2>3 DEF ScanOn
    <2> QED BY <2>1, <2>2, <2>4, ScanSteps
<1> QED
    BY <1>1, <1>2

(* What a query is asked with. *)
LEMMA Asking ==
    ASSUME ScanInv, scan.pc \in {"resolve", "recheck"}
    PROVE  /\ Canonical /\ ChainOK /\ BundleOK(scan.bundle) /\ AskedOK(scan.bundle, scan.spender)
           /\ scan.spender \in Seq(Nat) /\ Len(scan.spender) < Len(scan.bundle.utxos)
           /\ \A k \in DOMAIN scan.spender : scan.spender[k] \in 0..Len(chain)
           /\ DOMAIN scan = {"pc", "bundle", "spender", "since"} /\ scan.since \in Nat
           /\ scan.pc = "resolve" =>
                 /\ scan.since <= Len(chain)
                 /\ scan.since = Len(chain) => Current(scan.bundle, scan.spender)
<1>1. Canonical
    BY DEF ScanInv
<1>2. ScanOn(chain, lineage, scan)
    BY DEF ScanInv
<1> QED
    BY <1>1, <1>2, ScanHas, SaidOf DEF ScanOn, BundleOK, AskedOK

(* A query of the first kind: the round goes on, or it ends. *)
LEMMA ResolveOK ==
    ASSUME ScanInv, Resolve
    PROVE  ScanInv'
<1> DEFINE b == scan.bundle
           sp == scan.spender
           q == Append(sp, spending_txid(b.utxos[Len(sp) + 1]))
           r == resolve_transition(b, q)
           N == Len(chain)
<1>0. /\ scan.pc = "resolve" /\ UNCHANGED <<chain, lineage>>
      /\ \/ Len(sp) + 1 < Len(b.utxos) /\ scan' = [scan EXCEPT !.spender = q]
         \/ /\ Len(sp) + 1 = Len(b.utxos)
            /\ scan' = IF r = ScanError THEN [scan EXCEPT !.pc = "error"]
                       ELSE IF r.utxos = <<>> THEN [scan EXCEPT !.pc = "ok", !.bundle = r]
                       ELSE [scan EXCEPT !.pc = "recheck", !.bundle = r, !.spender = <<>>]
    BY DEF Resolve, ResolveQuery
<1>1. /\ Canonical /\ ChainOK /\ BundleOK(b) /\ AskedOK(b, sp)
      /\ sp \in Seq(Nat) /\ Len(sp) < Len(b.utxos)
      /\ \A k \in DOMAIN sp : sp[k] \in 0..N
      /\ DOMAIN scan = {"pc", "bundle", "spender", "since"} /\ scan.since \in Nat
      /\ scan.since <= N
      /\ scan.since = N => Current(b, sp)
    BY <1>0, Asking
<1>2. N \in Nat
    BY <1>1, ChainIs
<1>3. /\ q \in Seq(Nat) /\ Len(q) = Len(sp) + 1 /\ AskedOK(b, q)
      /\ \A k \in DOMAIN q : q[k] \in 0..N
      /\ Current(b, sp) => Current(b, q)
    <2>1. Asks(b, sp, q)
        BY <1>1 DEF Asks
    <2> QED BY <1>1, <2>1, Queries
<1> HIDE DEF b, sp, q, r, N
<1>4. CASE scan' = [scan EXCEPT !.spender = q] /\ Len(sp) + 1 < Len(b.utxos)
    <2>1. /\ DOMAIN scan' = {"pc", "bundle", "spender", "since"} /\ scan'.pc = "resolve"
          /\ scan'.spender = q /\ scan'.since = scan.since /\ scan'.bundle = b
        BY <1>0, <1>1, <1>4 DEF b
    <2>2. ScanOn(chain, lineage, scan')
        BY <1>1, <1>3, <1>4, <2>1, SaidOf DEF ScanOn, BundleOK, AskedOK, N
    <2> QED BY <1>0, <1>1, <2>2, ScanSteps
<1>5. CASE /\ Len(sp) + 1 = Len(b.utxos)
           /\ scan' = IF r = ScanError THEN [scan EXCEPT !.pc = "error"]
                      ELSE IF r.utxos = <<>> THEN [scan EXCEPT !.pc = "ok", !.bundle = r]
                      ELSE [scan EXCEPT !.pc = "recheck", !.bundle = r, !.spender = <<>>]
    <2>1. /\ r = ScanError \/ GoodBundle(r)
          /\ Current(b, q) => r # ScanError \/ SeveredBundle
        <3>1. Len(q) = Len(b.utxos)
            BY <1>3, <1>5
        <3>2. r = resolve_transition(b, q)
            BY DEF r
        <3> QED BY <1>1, <1>3, <3>1, <3>2, RoundEnds
    <2>2. CASE r = ScanError
        <3>1. scan' = [scan EXCEPT !.pc = "error"]
            BY <1>5, <2>2
        <3>2. /\ DOMAIN scan' = {"pc", "bundle", "spender", "since"} /\ scan'.pc = "error"
              /\ scan'.spender = sp /\ scan'.since = scan.since
            BY <1>1, <3>1 DEF sp
        <3>3. N > scan.since \/ SeveredOn(chain)
            BY <1>1, <1>2, <1>3, <2>1, <2>2, SaidOf
        <3>4. ScanOn(chain, lineage, scan')
            BY <1>1, <3>2, <3>3 DEF ScanOn, N
        <3> QED BY <1>0, <1>1, <3>4, ScanSteps
    <2>3. CASE r # ScanError /\ r.utxos = <<>>
        <3>1. scan' = [scan EXCEPT !.pc = "ok", !.bundle = r]
            BY <1>5, <2>3
        <3>2. /\ DOMAIN scan' = {"pc", "bundle", "spender", "since"} /\ scan'.pc = "ok"
              /\ scan'.spender = sp /\ scan'.since = scan.since /\ scan'.bundle = r
            BY <1>1, <3>1 DEF sp
        <3>3. ScanOn(chain, lineage, scan')
            BY <1>1, <2>1, <2>3, <3>2 DEF ScanOn, N, GoodBundle, BundleOK
        <3> QED BY <1>0, <1>1, <3>3, ScanSteps
    <2>4. CASE r # ScanError /\ r.utxos # <<>>
        <3>1. scan' = [scan EXCEPT !.pc = "recheck", !.bundle = r, !.spender = <<>>]
            BY <1>5, <2>4
        <3>2. /\ DOMAIN scan' = {"pc", "bundle", "spender", "since"} /\ scan'.pc = "recheck"
              /\ scan'.spender = <<>> /\ scan'.since = scan.since /\ scan'.bundle = r
            BY <1>1, <3>1
        <3>3. scan'.spender \in Seq(Nat) /\ Len(scan'.spender) = 0 /\ DOMAIN scan'.spender = {}
            BY <3>2
        <3>4. BundleOK(r)
            BY <2>1, <2>4 DEF GoodBundle, EndedOn
        <3>5. Len(r.utxos) \in Nat /\ Len(r.utxos) >= 1
            BY <3>4, AskedAbout
        <3>6. ScanOn(chain, lineage, scan')
            BY <1>1, <3>2, <3>3, <3>4, <3>5 DEF ScanOn, BundleOK, AskedOn
        <3> QED BY <1>0, <1>1, <3>6, ScanSteps
    <2> QED BY <2>2, <2>3, <2>4
<1> QED
    BY <1>0, <1>4, <1>5 DEF b, sp, q, r

(* A query of the second kind. *)
LEMMA RecheckOK ==
    ASSUME ScanInv, Recheck
    PROVE  ScanInv'
<1> DEFINE b == scan.bundle
           sp == scan.spender
           q == Append(sp, spending_txid(b.utxos[Len(sp) + 1]))
           N == Len(chain)
           settled == \A k \in DOMAIN q : q[k] = None
<1>0. /\ scan.pc = "recheck" /\ UNCHANGED <<chain, lineage>>
      /\ \/ Len(sp) + 1 < Len(b.utxos) /\ scan' = [scan EXCEPT !.spender = q]
         \/ /\ Len(sp) + 1 = Len(b.utxos)
            /\ scan' = IF settled THEN [scan EXCEPT !.pc = "ok", !.spender = <<>>]
                       ELSE [scan EXCEPT !.pc = "resolve", !.spender = <<>>, !.since = N]
    BY DEF Recheck, RecheckQuery
<1>1. /\ Canonical /\ ChainOK /\ BundleOK(b) /\ AskedOK(b, sp)
      /\ sp \in Seq(Nat) /\ Len(sp) < Len(b.utxos)
      /\ \A k \in DOMAIN sp : sp[k] \in 0..N
      /\ DOMAIN scan = {"pc", "bundle", "spender", "since"} /\ scan.since \in Nat
    BY <1>0, Asking
<1>2. N \in Nat
    BY <1>1, ChainIs
<1>3. /\ q \in Seq(Nat) /\ Len(q) = Len(sp) + 1 /\ AskedOK(b, q)
      /\ \A k \in DOMAIN q : q[k] \in 0..N
    <2>1. q = Append(sp, spending_txid(b.utxos[Len(sp) + 1]))
        OBVIOUS
    <2> HIDE DEF q, b, sp, N, settled
    <2>2. /\ q \in Seq(Nat) /\ Len(q) = Len(sp) + 1 /\ AskedOK(b, q)
          /\ \A k \in DOMAIN q : q[k] \in 0..Len(chain)
          /\ Current(b, sp) => Current(b, q)
        <3>1. Asks(b, sp, q)
            BY <1>1, <2>1 DEF Asks, N
        <3> QED BY ONLY <1>1, <3>1, Queries
    <2> QED BY <2>2 DEF N
<1>e. <<>> \in Seq(Nat) /\ Len(<<>>) = 0 /\ DOMAIN <<>> = {}
    OBVIOUS
<1> HIDE DEF b, sp, q, N, settled
<1>4. CASE scan' = [scan EXCEPT !.spender = q] /\ Len(sp) + 1 < Len(b.utxos)
    <2>1. /\ DOMAIN scan' = {"pc", "bundle", "spender", "since"} /\ scan'.pc = "recheck"
          /\ scan'.spender = q /\ scan'.since = scan.since /\ scan'.bundle = b
        BY <1>0, <1>1, <1>4 DEF b
    <2>2. ScanOn(chain, lineage, scan')
        BY <1>1, <1>3, <1>4, <2>1 DEF ScanOn, BundleOK, AskedOK, N
    <2> QED BY <1>0, <1>1, <2>2, ScanSteps
<1>5. CASE settled /\ scan' = [scan EXCEPT !.pc = "ok", !.spender = <<>>]
    <2>1. /\ DOMAIN scan' = {"pc", "bundle", "spender", "since"} /\ scan'.pc = "ok"
          /\ scan'.spender = <<>> /\ scan'.since = scan.since /\ scan'.bundle = b
        BY <1>0, <1>1, <1>5 DEF b
    <2>2. ScanOn(chain, lineage, scan')
        BY <1>1, <1>e, <2>1 DEF ScanOn, BundleOK
    <2> QED BY <1>0, <1>1, <2>2, ScanSteps
<1>6. CASE scan' = [scan EXCEPT !.pc = "resolve", !.spender = <<>>, !.since = N]
    <2>1. /\ DOMAIN scan' = {"pc", "bundle", "spender", "since"} /\ scan'.pc = "resolve"
          /\ scan'.spender = <<>> /\ scan'.since = N /\ scan'.bundle = b
        BY <1>0, <1>1, <1>6 DEF b
    <2>2. Len(b.utxos) \in Nat /\ Len(b.utxos) >= 1
        BY <1>1, AskedAbout
    <2>3. ScanOn(chain, lineage, scan')
        BY <1>1, <1>2, <1>e, <2>1, <2>2 DEF ScanOn, BundleOK, AskedOn, CurrentOn, N
    <2> QED BY <1>0, <1>1, <2>3, ScanSteps
<1> QED
    BY <1>0, <1>4, <1>5, <1>6 DEF b, sp, q, N, settled

(* What was said of a chain is said of a longer one. *)
LEMMA BundleStays ==
    ASSUME NEW ch, NEW lin, NEW c2, NEW l2, NEW b, Len(ch) \in Nat, Len(c2) = Len(ch) + 1,
           \A k \in 1..Len(ch) : c2[k] = ch[k] /\ l2[k] = lin[k]
    PROVE  /\ BundleOn(ch, lin, b) => BundleOn(c2, l2, b)
           /\ EndedOn(ch, lin, b) => EndedOn(c2, l2, b)
           /\ b.last \in 1..Len(ch) => \A sp : AskedOn(ch, b, sp) => AskedOn(c2, b, sp)
           /\ SeveredOn(ch) => SeveredOn(c2)
<1> DEFINE n == Len(ch)
<1>0. n \in Nat /\ Len(c2) = n + 1 /\ \A k \in 1..n : c2[k] = ch[k] /\ l2[k] = lin[k]
    OBVIOUS
<1>1. Len(ch) = n
    OBVIOUS
<1> HIDE DEF n
<1>2. \A k \in 1..n : k \in 1..(n + 1)
    BY <1>0
<1>3. BundleOn(ch, lin, b) => BundleOn(c2, l2, b)
    <2>1. ASSUME b.last \in 1..n PROVE l2[b.last] = lin[b.last]
        BY <1>0, <2>1
    <2>2. ASSUME l2[b.last] = lin[b.last], BundleOf(lin, b) PROVE BundleOf(l2, b)
        BY <2>2 DEF BundleOf
    <2> QED BY <1>0, <1>1, <1>2, <2>1, <2>2 DEF BundleOn
<1>4. EndedOn(ch, lin, b) => EndedOn(c2, l2, b)
    BY <1>0, <1>1, <1>2 DEF EndedOn
<1>5. ASSUME NEW sp, b.last \in 1..n, AskedOn(ch, b, sp) PROVE AskedOn(c2, b, sp)
    <2>1. ASSUME NEW t \in (b.last + 1)..n PROVE c2[t] = ch[t] /\ t \in (b.last + 1)..(n + 1)
        BY <1>0, <1>5
    <2>2. ASSUME NEW k \in DOMAIN sp
          PROVE  \/ sp[k] = None
                 \/ sp[k] \in (b.last + 1)..n /\ Spends(ch[sp[k]], b.utxos[k])
        BY <1>5, <1>1 DEF AskedOn
    <2>3. ASSUME NEW k \in DOMAIN sp
          PROVE  \/ sp[k] = None
                 \/ sp[k] \in (b.last + 1)..(n + 1) /\ Spends(c2[sp[k]], b.utxos[k])
        BY <2>1, <2>2
    <2> QED BY <1>0, <2>3 DEF AskedOn
<1>6. SeveredOn(ch) => SeveredOn(c2)
    <2>1. ASSUME NEW t \in 2..n PROVE t \in 2..(n + 1) /\ c2[t] = ch[t]
        BY <1>0
    <2> QED BY <1>0, <1>1, <2>1 DEF SeveredOn
<1> QED
    BY <1>1, <1>3, <1>4, <1>5, <1>6

LEMMA LandsOK ==
    ASSUME ScanInv, ChainNext
    PROVE  ScanInv'
<1>0. Canonical /\ ChainOK
    BY ScanHas DEF ChainNext, Canonical
<1> DEFINE n == Len(chain)
<1>1. PICK tx, M : Grows(tx, M)
    BY <1>0, ChainGrows
<1>2. n < MaxChain /\ UNCHANGED scan /\ n \in Nat /\ n >= 1 /\ Len(lineage) = n /\ MaxChain \in Nat
    BY <1>0, ChainGrows, ScannerAssumption DEF ChainOK
<1>3. /\ chain' = Append(chain, tx) /\ lineage' = Append(lineage, M)
      /\ Extends(tx, n + 1, lineage[n], M)
    BY <1>1 DEF Grows, Live
<1>4. IsSeq(chain) /\ IsSeq(lineage) /\ HistoryOK(chain, lineage)
    BY <1>0 DEF ChainOK
<1>5. /\ IsSeq(chain') /\ Len(chain') = n + 1
      /\ \A k \in 1..n : chain'[k] = chain[k]
    BY <1>3, <1>4, Appended
<1>6. /\ IsSeq(lineage') /\ Len(lineage') = n + 1
      /\ \A k \in 1..n : lineage'[k] = lineage[k]
    BY <1>2, <1>3, <1>4, Appended
<1>7. HistoryOK(chain', lineage')
    BY <1>2, <1>3, <1>4, HistoryGrows
<1>8. ScanOn(chain, lineage, scan)
    BY DEF ScanInv
<1> DEFINE ch == chain
           lin == lineage
           c2 == chain'
           l2 == lineage'
<1>9. /\ Len(ch) \in Nat /\ Len(c2) = Len(ch) + 1
      /\ \A k \in 1..Len(ch) : c2[k] = ch[k] /\ l2[k] = lin[k]
    BY <1>2, <1>5, <1>6
<1> HIDE DEF ch, lin, c2, l2
<1>10. \A b : /\ BundleOn(ch, lin, b) => BundleOn(c2, l2, b)
              /\ EndedOn(ch, lin, b) => EndedOn(c2, l2, b)
              /\ b.last \in 1..Len(ch) => \A sp : AskedOn(ch, b, sp) => AskedOn(c2, b, sp)
              /\ SeveredOn(ch) => SeveredOn(c2)
    BY ONLY <1>9, BundleStays
<1>11. ScanOn(ch, lin, scan)
    BY <1>8 DEF ch, lin
<1>12. ScanOn(c2, l2, scan)
    <2> DEFINE s == scan
               m == Len(ch)
    <2>0. m \in Nat /\ Len(c2) = m + 1 /\ Len(ch) = m
        BY <1>9
    <2>1. /\ DOMAIN s = {"pc", "bundle", "spender", "since"}
          /\ s.spender \in Seq(Nat) /\ s.since \in Nat
          /\ s.pc \in {"idle", "resolve", "recheck", "ok", "error", "unavailable", "not_canonical"}
        BY <1>11 DEF ScanOn
    <2>2. \A k \in DOMAIN s.spender : s.spender[k] \in 0..(m + 1)
        <3>1. \A k \in DOMAIN s.spender : s.spender[k] \in 0..m
            BY <1>11 DEF ScanOn
        <3> QED BY <2>0, <3>1
    <2>3. ASSUME s.pc \in {"resolve", "recheck"}
          PROVE  /\ BundleOn(c2, l2, s.bundle) /\ AskedOn(c2, s.bundle, s.spender)
                 /\ Len(s.spender) < Len(s.bundle.utxos)
        <3>1. /\ BundleOn(ch, lin, s.bundle) /\ AskedOn(ch, s.bundle, s.spender)
              /\ Len(s.spender) < Len(s.bundle.utxos)
            BY <1>11, <2>3 DEF ScanOn
        <3>2. s.bundle.last \in 1..Len(ch)
            BY <3>1 DEF BundleOn
        <3> QED BY <1>10, <3>1, <3>2
    <2>4. s.pc = "ok" => BundleOn(c2, l2, s.bundle) \/ EndedOn(c2, l2, s.bundle)
        BY <1>10, <1>11 DEF ScanOn
    <2>5. s.pc = "resolve" => s.since <= m + 1 /\ s.since # m + 1
        BY <1>11, <2>0, <2>1 DEF ScanOn
    <2>6. s.pc = "error" => m + 1 > s.since \/ SeveredOn(c2)
        BY <1>10, <1>11, <2>0, <2>1 DEF ScanOn
    <2> HIDE DEF s, m
    <2>7. ScanOn(c2, l2, s)
        BY <2>0, <2>1, <2>2, <2>3, <2>4, <2>5, <2>6 DEF ScanOn
    <2> QED BY <2>7 DEF s
<1>13. ScanOn(chain', lineage', scan')
    BY <1>2, <1>12 DEF c2, l2
<1>14. chain'[1] = chain[1] /\ lineage'[1] = lineage[1] /\ Len(chain') \in 1..MaxChain
    BY <1>2, <1>5, <1>6
<1>15. Canonical' <=> Canonical
    BY <1>14 DEF Canonical
<1> QED
    BY <1>0, <1>5, <1>6, <1>7, <1>13, <1>14, <1>15 DEF ScanInv

(* A creation that is canonical leaves the market its two dormant tokens. *)
LEMMA CreationMakes ==
    ASSUME NEW tx \in CreationTxs, validate_prediction_market_creation_tx(tx)
    PROVE  /\ MarketOuts(tx) = {1, 2}
           /\ tx.outs[1].script = "DormantYesRt" /\ tx.outs[2].script = "DormantNoRt"
           /\ Held(tx.outs[1], "DormantYesRt") /\ Held(tx.outs[2], "DormantNoRt")
<1>1. PICK yes, no, extra :
         tx.outs = << MarketOutput("DormantYesRt", yes), MarketOutput("DormantNoRt", no),
                      fee_txout, extra >>
    BY DEF CreationTxs
<1>2. DOMAIN tx.outs = 1..4 /\ Len(tx.outs) = 4
    BY <1>1
<1>3. /\ tx.outs[1].script = "DormantYesRt" /\ tx.outs[2].script = "DormantNoRt"
      /\ tx.outs[1].asset = "YES_RT" /\ tx.outs[2].asset = "NO_RT"
      /\ \A k \in 3..4 : tx.outs[k].script \notin MarketSlot
    BY <1>2 DEF validate_prediction_market_creation_tx,
                matches_confidential_dormant_creation_output, verify_token_commitment
<1>4. tx.outs[1].amount = 1 /\ tx.outs[2].amount = 1
    BY <1>1 DEF MarketOutput
<1>5. "DormantYesRt" \in MarketSlot /\ "DormantNoRt" \in MarketSlot
    BY DEF MarketSlot
<1>6. \A k \in 1..4 : k = 1 \/ k = 2 \/ k \in 3..4
    OBVIOUS
<1>7. MarketOuts(tx) = {1, 2}
    BY <1>2, <1>3, <1>5, <1>6 DEF MarketOuts
<1> QED
    BY <1>3, <1>4, <1>7 DEF Held, SlotAsset

LEMMA ScanBegins ==
    ASSUME ScannerInit
    PROVE  ScanInv
<1> DEFINE L == {Utxo(1, k) : k \in {j \in DOMAIN chain[1].outs :
                                     chain[1].outs[j].script \in MarketSlot}}
<1>1. PICK tx \in CreationTxs : chain = <<tx>>
    BY DEF ScannerInit
<1>2. chain[1] = tx /\ Len(chain) = 1 /\ IsSeq(chain)
    <2>1. <<tx>> \in Seq({tx})
        OBVIOUS
    <2> QED BY <1>1, <2>1 DEF IsSeq
<1>3. lineage = <<L>>
    BY DEF ScannerInit
<1>4. lineage[1] = L /\ Len(lineage) = 1 /\ IsSeq(lineage)
    <2> HIDE DEF L
    <2>1. <<L>> \in Seq({L})
        OBVIOUS
    <2> QED BY <1>3, <2>1 DEF IsSeq
<1>5. /\ scan = [pc |-> "idle", bundle |-> ScanError, spender |-> <<>>, since |-> 0]
    BY DEF ScannerInit
<1>6. \A u \in L : u.slot \in MarketSlot
    BY DEF Utxo
<1>7. ScanOn(chain, lineage, scan)
    <2>1. /\ DOMAIN scan = {"pc", "bundle", "spender", "since"} /\ scan.pc = "idle"
          /\ scan.spender = <<>> /\ scan.since = 0
        BY <1>5
    <2>2. scan.spender \in Seq(Nat) /\ DOMAIN scan.spender = {}
        BY <2>1
    <2> QED BY <2>1, <2>2 DEF ScanOn
<1>8. ASSUME Canonical PROVE HistoryOK(chain, lineage)
    <2> DEFINE y == <<1, 0>>
               n == <<1, 1>>
    <2>1. /\ MarketOuts(tx) = {1, 2}
          /\ tx.outs[1].script = "DormantYesRt" /\ tx.outs[2].script = "DormantNoRt"
          /\ Held(tx.outs[1], "DormantYesRt") /\ Held(tx.outs[2], "DormantNoRt")
        BY <1>2, <1>8, CreationMakes DEF Canonical
    <2>2. L = SlotOutputs(tx, 1)
        BY <1>2 DEF SlotOutputs, MarketOuts, Utxo, Own
    <2>3. L = {Own(<<1, 1 - 1>>, "DormantYesRt"), Own(<<1, 2 - 1>>, "DormantNoRt")}
        BY <2>1, <2>2 DEF SlotOutputs
    <2>4. L = DormantOwn(y, n)
        BY <2>3 DEF DormantOwn
    <2>5. ASSUME NEW u \in L PROVE Owned(chain, u, 1)
        <3>1. \/ u = Own(y, "DormantYesRt") \/ u = Own(n, "DormantNoRt")
            BY <2>4 DEF DormantOwn
        <3>2. u = Own(u.id, u.slot) /\ u.slot \in MarketSlot
            BY <3>1, OwnIs DEF MarketSlot
        <3>3. \E k \in 0..2 : u.id = <<1, k>> /\ Held(tx.outs[k + 1], u.slot)
            <4>1. CASE u = Own(y, "DormantYesRt")
                <5>1. u.id = <<1, 0>> /\ Held(tx.outs[0 + 1], u.slot)
                    BY <2>1, <4>1, OwnIs
                <5> QED BY <5>1
            <4>2. CASE u = Own(n, "DormantNoRt")
                <5>1. u.id = <<1, 1>> /\ Held(tx.outs[1 + 1], u.slot)
                    BY <2>1, <4>2, OwnIs
                <5> QED BY <5>1
            <4> QED BY <3>1, <4>1, <4>2
        <3>4. Made(chain[1], u, 1)
            BY <1>2, <3>2, <3>3 DEF Made
        <3> QED BY <3>4 DEF Owned
    <2>6. Shaped(L)
        BY <2>4, OwnIds DEF Shaped
    <2>7. Related(chain, lineage, 1, 1)
        BY DEF Related
    <2> HIDE DEF L
    <2>8. \A t \in 1..Len(chain) : t = 1
        BY <1>2
    <2>9. \A i \in 1..Len(chain) : \A j \in i..Len(chain) : i = 1 /\ j = 1
        BY <1>2
    <2>10. 2..Len(chain) = {}
        BY <1>2
    <2> QED BY <1>4, <2>4, <2>5, <2>6, <2>7, <2>8, <2>9, <2>10, HistoryIs
<1>9. MaxChain \in Nat /\ MaxChain >= 1
    BY ScannerAssumption
<1>10. scan.pc = "idle"
    BY <1>5
<1> HIDE DEF L
<1> QED
    BY <1>2, <1>4, <1>6, <1>7, <1>8, <1>9, <1>10 DEF ScanInv

LEMMA ScanStays ==
    ASSUME ScanInv, [ScannerNext]_scannerVars
    PROVE  ScanInv'
<1>1. CASE UNCHANGED scannerVars
    <2>1. UNCHANGED <<chain, lineage, scan>>
        BY <1>1 DEF scannerVars
    <2> QED BY <2>1 DEF ScanInv, Canonical
<1> QED
    BY <1>1, StartsOK, ResolveOK, RecheckOK, FailsOK, LandsOK DEF ScannerNext, ScanNext

(* What the invariant says of a reader of the chain. *)
LEMMA HistoryFollows ==
    ASSUME ScanInv
    PROVE  BundleOnHistory /\ ErrorOnlyIfRaced
<1>0. /\ IsSeq(chain) /\ IsSeq(lineage) /\ Len(chain) = Len(lineage) /\ Len(chain) \in 1..MaxChain
      /\ ScanOn(chain, lineage, scan) /\ MaxChain \in Nat
    BY ScannerAssumption DEF ScanInv
<1>1. ~Canonical => scan.pc \in {"idle", "unavailable", "not_canonical"}
    BY DEF ScanInv
<1>2. DOMAIN lineage = 1..Len(chain)
    BY <1>0 DEF IsSeq
<1>3. ASSUME NEW t \in DOMAIN lineage, NEW u \in lineage[t] PROVE u.slot \in MarketSlot
    <2>1. CASE Canonical
        <3>1. ChainOK
            BY <2>1, ScanHas
        <3>2. Owned(chain, u, t) /\ t \in Nat
            BY <1>2, <1>3, <3>1, ChainIs
        <3> QED BY <3>2, OwnedIs
    <2>2. CASE ~Canonical
        <3>1. Len(chain) = 1 /\ \A w \in lineage[1] : w.slot \in MarketSlot
            BY <2>2 DEF ScanInv
        <3> QED BY <1>2, <3>1
    <2> QED BY <2>1, <2>2
<1>4. ScannerTypeOK
    BY <1>0, <1>3 DEF ScannerTypeOK, ScanOn
<1>5. ASSUME scan.pc \in {"resolve", "recheck", "ok"}
      PROVE  {scan.bundle.utxos[k] : k \in DOMAIN scan.bundle.utxos} = lineage[scan.bundle.last]
    <2>1. BundleOK(scan.bundle) \/ EndedOn(chain, lineage, scan.bundle)
        BY <1>0, <1>5 DEF ScanOn, BundleOK
    <2>2. CASE BundleOK(scan.bundle)
        BY <2>2, AskedAbout
    <2>3. CASE EndedOn(chain, lineage, scan.bundle)
        <3>1. DOMAIN scan.bundle.utxos = {} /\ lineage[scan.bundle.last] = {}
            BY <2>3 DEF EndedOn
        <3> QED BY <3>1
    <2> QED BY <2>1, <2>2, <2>3
<1>6. ErrorOnlyIfRaced
    BY <1>0, SaidOf DEF ScanOn, ErrorOnlyIfRaced
<1> QED
    BY <1>4, <1>5, <1>6 DEF BundleOnHistory

(* The last answer of a scan decides what it returns. *)
LEMMA ReturnsFresh ==
    ASSUME ScanInv, [ScannerNext]_scannerVars
    PROVE  ReturnsLive
<1> DEFINE b == scan.bundle
           N == Len(chain)
<1>0. SUFFICES ASSUME scan.pc # "ok", scan'.pc = "ok"
               PROVE  {scan'.bundle.utxos[k] : k \in DOMAIN scan'.bundle.utxos} = Live
    BY DEF ReturnsLive
<1>1. DOMAIN scan = {"pc", "bundle", "spender", "since"}
    BY DEF ScanInv, ScanOn
<1>2. CASE Resolve
    <2>1. ScanInv' /\ UNCHANGED <<chain, lineage>> /\ scan.pc = "resolve"
        BY <1>2, ResolveOK DEF Resolve
    <2>2. Canonical /\ ChainOK
        BY <2>1, Asking
    <2>3. scan'.bundle.utxos = <<>>
        <3> DEFINE q == Append(scan.spender, spending_txid(ResolveQuery(b, Len(scan.spender) + 1)))
                   r == resolve_transition(b, q)
        <3>1. \/ scan' = [scan EXCEPT !.spender = q]
              \/ scan' = [scan EXCEPT !.pc = "error"]
              \/ r.utxos = <<>> /\ scan' = [scan EXCEPT !.pc = "ok", !.bundle = r]
              \/ scan' = [scan EXCEPT !.pc = "recheck", !.bundle = r, !.spender = <<>>]
            BY <1>2 DEF Resolve
        <3> HIDE DEF q, r
        <3> QED BY <1>0, <1>1, <2>1, <3>1
    <2>4. ScanOn(chain, lineage, scan')
        BY <2>1 DEF ScanInv
    <2>5. EndedOn(chain, lineage, scan'.bundle)
        <3>1. BundleOK(scan'.bundle) => scan'.bundle.utxos # <<>>
            BY AskedAbout
        <3> QED BY <1>0, <2>3, <2>4, <3>1 DEF ScanOn, BundleOK
    <2>6. Live = {}
        <3>1. PICK last \in 1..N : lineage[last] = {}
            BY <2>5 DEF EndedOn
        <3>2. N \in last..N
            BY <2>2, ChainIs
        <3>3. Related(chain, lineage, last, N)
            BY <2>2, <3>2, ChainIs
        <3> QED BY <3>1, <3>3 DEF Related, Live
    <2> QED BY <2>3, <2>6
<1>3. CASE Recheck
    <2> DEFINE sp == scan.spender
               q == Append(sp, spending_txid(b.utxos[Len(sp) + 1]))
    <2>1. scan.pc = "recheck" /\ UNCHANGED <<chain, lineage>>
        BY <1>3 DEF Recheck
    <2>2. /\ ChainOK /\ BundleOK(b) /\ AskedOK(b, sp)
          /\ sp \in Seq(Nat) /\ Len(sp) < Len(b.utxos)
          /\ \A k \in DOMAIN sp : sp[k] \in 0..N
        BY <2>1, Asking
    <2>3. /\ Len(sp) + 1 = Len(b.utxos) /\ \A k \in DOMAIN q : q[k] = None
          /\ scan'.bundle = b
        <3> DEFINE settled == \A k \in DOMAIN q : q[k] = None
        <3>1. \/ scan' = [scan EXCEPT !.spender = q]
              \/ /\ Len(sp) + 1 = Len(b.utxos) /\ settled
                 /\ scan' = [scan EXCEPT !.pc = "ok", !.spender = <<>>]
              \/ scan' = [scan EXCEPT !.pc = "resolve", !.spender = <<>>, !.since = N]
            BY <1>3 DEF Recheck, RecheckQuery
        <3> HIDE DEF settled, q, N
        <3>2. /\ Len(sp) + 1 = Len(b.utxos) /\ settled
              /\ scan' = [scan EXCEPT !.pc = "ok", !.spender = <<>>]
            BY <1>0, <1>1, <2>1, <3>1
        <3>3. scan'.bundle = b
            BY <1>1, <3>2
        <3> QED BY <3>2, <3>3 DEF settled
    <2>4. Asks(b, sp, q)
        BY <2>2 DEF Asks
    <2> HIDE DEF q
    <2>5. q \in Seq(Nat) /\ Len(q) = Len(sp) + 1 /\ q[Len(q)] = spending_txid(b.utxos[Len(sp) + 1])
        BY <2>2, <2>4, Queries
    <2> DEFINE u == b.utxos[Len(b.utxos)]
    <2>6. spending_txid(u) = None
        <3>1. Len(q) \in DOMAIN q
            BY <2>2, <2>5
        <3> QED BY <2>3, <2>5, <3>1
    <2>7. /\ b.last \in 1..N /\ u \in Pivots(lineage[b.last])
          /\ {b.utxos[k] : k \in DOMAIN b.utxos} = lineage[b.last]
        BY <2>2, AskedAbout
    <2>8. u \in lineage[b.last]
        BY <2>7 DEF Pivots
    <2>9. lineage[N] = lineage[b.last]
        BY <2>2, <2>6, <2>7, <2>8, AnswerIs
    <2> QED BY <2>3, <2>7, <2>9 DEF Live
<1>4. CASE StartScan
    BY <1>0, <1>1, <1>4 DEF StartScan
<1>5. CASE BackendFails \/ Rescan
    BY <1>0, <1>1, <1>5 DEF BackendFails, Rescan
<1>6. CASE ChainNext
    BY <1>0, <1>6, ScanHas, ChainGrows DEF ChainNext, Canonical
<1>7. CASE UNCHANGED scannerVars
    BY <1>0, <1>7 DEF scannerVars
<1> QED
    BY <1>2, <1>3, <1>4, <1>5, <1>6, <1>7 DEF ScannerNext, ScanNext

(* A scan follows the market through its history: whatever lands while it  *)
(* runs, the bundle in hand is what the market owned after the bundle's    *)
(* last transition (resolve_dormant_transition and the two that follow).   *)
THEOREM ScanFollows == ScannerSpec => []BundleOnHistory
<1>1. ScanInv => BundleOnHistory
    BY HistoryFollows
<1> QED
    BY <1>1, ScanBegins, ScanStays, PTL DEF ScannerSpec

(* It reports an inconsistency only when the market moved during the round *)
(* that found it, or when a bundle was severed by a partial cancellation.  *)
THEOREM ScanErrs == ScannerSpec => []ErrorOnlyIfRaced
<1>1. ScanInv => ErrorOnlyIfRaced
    BY HistoryFollows
<1> QED
    BY <1>1, ScanBegins, ScanStays, PTL DEF ScannerSpec

(* It returns what the market owns when its last query is answered.        *)
THEOREM ScanFresh == ScannerSpec => FreshAtReturn
<1>1. ScanInv /\ [ScannerNext]_scannerVars => [ReturnsLive]_scannerVars
    BY ReturnsFresh
<1> QED
    BY <1>1, ScanBegins, ScanStays, PTL DEF ScannerSpec, FreshAtReturn
=============================================================================
