--------------------------- MODULE MarketStoreProofs ---------------------------
(***************************************************************************)
(* Proofs about MarketStore, for any number of creations, markets and       *)
(* overlapping syncs.                                                       *)
(*                                                                         *)
(* The inductive invariant says of the chain that blocks below the highest  *)
(* best block stay, of the database that its tables agree with each other   *)
(* and with the chain, of a call without the lock that what it listed and   *)
(* looked up is still true of the candidates that are left, and of the call *)
(* with the lock that its uncommitted tables are as good as the committed   *)
(* ones and that every market it has scanned was seen in that state.        *)
(***************************************************************************)
EXTENDS MarketStore, FiniteSetTheorems, SequenceTheorems, TLAPS

-----------------------------------------------------------------------------
(* The chain. *)

MoveRecords == [of : Creations, state : States, empty : BOOLEAN]

ChainOK ==
    /\ now \in 0 .. MaxTime /\ settled \in 0 .. MaxHeight
    /\ tip \in Nat /\ settled - 1 <= tip /\ tip <= settled
    /\ block \in [Creations -> Int]
    /\ \A c \in Creations : -1 <= block[c] /\ block[c] <= tip
    /\ \A c, d \in Creations :
          (MarketOf[c] = MarketOf[d] /\ block[c] >= 0 /\ block[d] >= 0) => c = d
    /\ moves \in Seq(MoveRecords)
    /\ path \in [Creations -> Seq(Nat)]
    /\ \A c \in Creations : \A k \in 1 .. Len(path[c]) : path[c][k] \in 1 .. Len(moves)

(* Block h of creation c is below the highest best block there was. *)
Buried(bl, st, c, h) == h \in Nat /\ 0 < h /\ h < st /\ bl[c] = h

StateIn(mv, b) == IF b.n = 0 THEN "Dormant" ELSE mv[b.n].state

-----------------------------------------------------------------------------
(* The tables, committed or not. *)

Candidates == [creation : Creations, expires : Nat, promoted : Nat, entropy : BOOLEAN]

CandsOK(cs, last) ==
    /\ cs \in [DOMAIN cs -> Candidates] /\ DOMAIN cs \subseteq 1 .. last
    /\ \A i \in DOMAIN cs : (cs[i].expires = 0) <=> (cs[i].promoted > 0)
    /\ \A i, j \in DOMAIN cs : cs[i].creation = cs[j].creation => i = j

PromotedOK(cs, rs, bl, st) ==
    \A i \in DOMAIN cs : cs[i].promoted > 0 =>
        Buried(bl, st, cs[i].creation, cs[i].promoted) /\ MarketOf[cs[i].creation] \in DOMAIN rs

RowsOK(cs, rs) ==
    /\ rs \in [DOMAIN rs -> [cand : Nat, state : States]] /\ DOMAIN rs \subseteq Markets
    /\ \A m \in DOMAIN rs : /\ rs[m].cand \in DOMAIN cs
                            /\ cs[rs[m].cand].promoted > 0
                            /\ MarketOf[cs[rs[m].cand].creation] = m

UtxosOK(rs, us, mv) ==
    /\ us \in [DOMAIN us -> [market : DOMAIN rs \union {"none"}, spent : BOOLEAN]]
    /\ DOMAIN us \subseteq [of : Creations, n : 0 .. Len(mv)]
    /\ \A b \in DOMAIN us : us[b].market # "none" /\ ~us[b].spent =>
          /\ StateIn(mv, b) = rs[us[b].market].state
          /\ \A a \in DOMAIN us : us[a].market = us[b].market /\ ~us[a].spent => a = b

TablesOK(cs, rs, us, last, bl, st, mv) ==
    CandsOK(cs, last) /\ PromotedOK(cs, rs, bl, st) /\ RowsOK(cs, rs) /\ UtxosOK(rs, us, mv)

-----------------------------------------------------------------------------
(* A call without the lock: it listed every candidate that it may purge,    *)
(* and the ids it listed still mean the same creations.                     *)

Entry(i, c) == [id |-> i, creation |-> c]
Found(i, h) == [id |-> i, height |-> h]

ListOK(todo, cs, last) ==
    /\ todo \subseteq [id : 1 .. last, creation : Creations]
    /\ \A k \in todo : k.id \in DOMAIN cs => cs[k.id].creation = k.creation

HeightOK(w, cs, last, time) ==
    /\ w = [pc |-> "height", now |-> w.now, todo |-> w.todo]
    /\ w.now \in Nat /\ w.now <= time
    /\ ListOK(w.todo, cs, last)
    /\ \A i \in DOMAIN cs : cs[i].promoted = 0 /\ cs[i].expires <= w.now =>
          Entry(i, cs[i].creation) \in w.todo

(* What it found irreversible is in that block for good, and unless a query *)
(* failed it missed none.                                                   *)
CheckOK(w, cs, last, time, bl, st) ==
    /\ w = [pc |-> w.pc, now |-> w.now, best |-> w.best, ok |-> w.ok, todo |-> w.todo,
            skipped |-> w.skipped]
    /\ w.now \in Nat /\ w.now <= time /\ w.best \in Nat /\ w.best <= st
    /\ w.skipped \in BOOLEAN
    /\ ListOK(w.todo, cs, last)
    /\ w.pc = "promote" => w.todo = {}
    /\ w.ok \subseteq [id : 1 .. last, height : Nat]
    /\ \A p \in w.ok : p.id \in DOMAIN cs => Buried(bl, st, cs[p.id].creation, p.height)
    /\ ~w.skipped =>
          \A i \in DOMAIN cs :
              /\ cs[i].promoted = 0 /\ cs[i].expires <= w.now
              /\ irreversible_confirmation_at(w.best, bl[cs[i].creation])
              => \/ Entry(i, cs[i].creation) \in w.todo
                 \/ Found(i, bl[cs[i].creation]) \in w.ok

-----------------------------------------------------------------------------
(* The call with the lock. *)

SameCands(as, cs) ==
    /\ DOMAIN as = DOMAIN cs
    /\ \A i \in DOMAIN cs : /\ as[i].creation = cs[i].creation
                            /\ as[i].expires = cs[i].expires
                            /\ as[i].promoted = cs[i].promoted

SameRows(as, rs) ==
    /\ DOMAIN as = DOMAIN rs
    /\ \A m \in DOMAIN rs : as[m].cand = rs[m].cand

(* Market m was seen in the state that its row has. *)
SeenAs(w, m, mv) ==
    \E b \in w.seen : /\ b.of = w.cands[w.rows[m].cand].creation
                      /\ StateIn(mv, b) = w.rows[m].state

SeenOK(seen, pt, mv) ==
    /\ seen \subseteq [of : Creations, n : 0 .. Len(mv)]
    /\ \A c \in Creations : Bundle(c, IF pt[c] = <<>> THEN 0 ELSE pt[c][Len(pt[c])]) \in seen

WorkOK(w, cs, rs, last, bl, st, mv, pt) ==
    /\ TablesOK(w.cands, w.rows, w.utxos, last, bl, st, mv)
    /\ SameCands(w.cands, cs) /\ SameRows(w.rows, rs)
    /\ SeenOK(w.seen, pt, mv)
    /\ w.todo \subseteq DOMAIN w.rows

ScanOK(w, mv) ==
    /\ w = [pc |-> w.pc, todo |-> w.todo, rows |-> w.rows, cands |-> w.cands,
            utxos |-> w.utxos, seen |-> w.seen]
    /\ \A m \in DOMAIN w.rows \ w.todo : SeenAs(w, m, mv)

TagOK(w, mv) ==
    /\ w = [pc |-> "tag", market |-> w.market, bundle |-> w.bundle, scan |-> w.scan,
            todo |-> w.todo, rows |-> w.rows, cands |-> w.cands, utxos |-> w.utxos,
            seen |-> w.seen]
    /\ w.market \in DOMAIN w.rows
    /\ w.bundle \in w.seen
    /\ w.bundle.of = w.cands[w.rows[w.market].cand].creation
    /\ w.scan \in MoveRecords /\ StateIn(mv, w.bundle) = w.scan.state
    /\ \A m \in DOMAIN w.rows \ (w.todo \union {w.market}) : SeenAs(w, m, mv)

CallOK(w, cs, rs, last, time, bl, st, mv, pt) ==
    /\ w.pc \in {"idle", "height", "check"} \union Locked
    /\ w.pc = "idle" => w = Idle
    /\ w.pc = "height" => HeightOK(w, cs, last, time)
    /\ w.pc \in {"check", "promote"} => CheckOK(w, cs, last, time, bl, st)
    /\ w.pc \in Scanning => WorkOK(w, cs, rs, last, bl, st, mv, pt)
    /\ w.pc \in {"scan", "commit"} => ScanOK(w, mv)
    /\ w.pc = "commit" => w.todo = {}
    /\ w.pc = "tag" => TagOK(w, mv)

-----------------------------------------------------------------------------
StoreOK == lastId \in Nat /\ TablesOK(cands, rows, utxos, lastId, block, settled, moves)

OneLock == \A s, t \in Syncs : calls[s].pc \in Locked /\ calls[t].pc \in Locked => s = t

CallsOK ==
    /\ DOMAIN calls = Syncs /\ calls = [s \in Syncs |-> calls[s]]
    /\ \A s \in Syncs : CallOK(calls[s], cands, rows, lastId, now, block, settled, moves, path)

IInv == ChainOK /\ StoreOK /\ OneLock /\ CallsOK

-----------------------------------------------------------------------------
(* What no step does to the chain: blocks below the highest best block stay *)
(* and none comes to be there, and what moves were made stays.              *)

BlocksStay(bl, st, bl2, st2) ==
    /\ bl \in [Creations -> Int] /\ bl2 \in [Creations -> Int]
    /\ st \in Nat /\ st2 \in Nat /\ st <= st2
    /\ \A c \in Creations : 0 < bl[c] /\ bl[c] < st => bl2[c] = bl[c]
    /\ \A c \in Creations : 0 < bl2[c] /\ bl2[c] < st => bl2[c] = bl[c]

MovesStay(mv, mv2) ==
    /\ mv \in Seq(MoveRecords) /\ mv2 \in Seq(MoveRecords) /\ Len(mv) <= Len(mv2)
    /\ \A n \in 1 .. Len(mv) : mv2[n] = mv[n]

ChainStays ==
    /\ now \in Nat /\ now' \in Nat /\ now <= now'
    /\ BlocksStay(block, settled, block', settled')
    /\ MovesStay(moves, moves')

LEMMA SameChain ==
    ASSUME ChainOK, UNCHANGED chainVars
    PROVE  ChainOK' /\ ChainStays
<1> USE StoreAssumption
<1>1. UNCHANGED <<now, tip, settled, block, moves, path>>
    BY DEF chainVars
<1>2. ChainOK'
    BY <1>1 DEF ChainOK
<1>3. ChainStays
    BY <1>1 DEF ChainOK, ChainStays, BlocksStay, MovesStay
<1> QED BY <1>2, <1>3

LEMMA BroadcastChain ==
    ASSUME ChainOK, NEW c \in Creations, Broadcast(c)
    PROVE  ChainOK' /\ ChainStays
<1> USE StoreAssumption DEF Broadcast
<1>0. /\ block' \in [Creations -> Int] /\ block[c] = -1 /\ block'[c] = 0
      /\ \A d \in Creations : d # c => block'[d] = block[d]
    BY DEF ChainOK
<1>a. \A d \in Creations : MarketOf[c] = MarketOf[d] /\ block'[d] >= 0 => d = c
    BY <1>0
<1>b. \A d, e \in Creations :
          (MarketOf[d] = MarketOf[e] /\ block'[d] >= 0 /\ block'[e] >= 0) => d = e
    BY <1>0, <1>a DEF ChainOK
<1>1. ChainOK'
    BY <1>0, <1>b DEF ChainOK
<1>2. ChainStays
    BY DEF ChainOK, ChainStays, BlocksStay, MovesStay
<1> QED BY <1>1, <1>2

LEMMA MineChain ==
    ASSUME ChainOK, NEW some \in SUBSET {c \in Creations : block[c] = 0}, Mine(some)
    PROVE  ChainOK' /\ ChainStays
<1> USE StoreAssumption DEF Mine
<1>1. settled' \in 0 .. MaxHeight /\ settled' - 1 <= tip' /\ tip' <= settled' /\ tip' \in Nat
      /\ settled <= settled' /\ settled <= tip'
    BY DEF ChainOK
<1>2. block' \in [Creations -> Int]
    BY DEF ChainOK
<1>3. \A c \in Creations : \/ c \in some /\ block[c] = 0 /\ block'[c] = tip'
                           \/ c \notin some /\ block'[c] = block[c]
    BY DEF ChainOK
<1>a. \A c \in Creations : -1 <= block'[c] /\ block'[c] <= tip'
    BY <1>1, <1>3 DEF ChainOK
<1>b. \A c, d \in Creations :
          (MarketOf[c] = MarketOf[d] /\ block'[c] >= 0 /\ block'[d] >= 0) => c = d
    <2>1. \A c \in Creations : block'[c] >= 0 => block[c] >= 0
        BY <1>3
    <2> QED BY <2>1 DEF ChainOK
<1>c. now' = now /\ moves' = moves /\ path' = path
    OBVIOUS
<1>4. ChainOK'
    BY ONLY ChainOK, <1>1, <1>2, <1>a, <1>b, <1>c DEF ChainOK
<1>5. ChainStays
    BY <1>1, <1>2, <1>3 DEF ChainOK, ChainStays, BlocksStay, MovesStay
<1> QED BY <1>4, <1>5

LEMMA ReorgChain ==
    ASSUME ChainOK, NEW gone \in SUBSET {c \in Creations : block[c] = tip}, Reorg(gone)
    PROVE  ChainOK' /\ ChainStays
<1> USE StoreAssumption DEF Reorg
<1>1. tip = settled /\ tip' = settled - 1 /\ tip' \in Nat /\ settled' = settled
    BY DEF ChainOK
<1>2. block' \in [Creations -> Int]
    BY DEF ChainOK
<1>3. \A c \in Creations : \/ block[c] = settled /\ block'[c] \in {-1, 0}
                           \/ block[c] < settled /\ block'[c] = block[c]
    BY <1>1 DEF ChainOK
<1>4. ChainOK'
    BY <1>1, <1>2, <1>3 DEF ChainOK
<1>5. ChainStays
    BY <1>1, <1>2, <1>3 DEF ChainOK, ChainStays, BlocksStay, MovesStay
<1> QED BY <1>4, <1>5

LEMMA AtType ==
    ASSUME ChainOK, NEW c \in Creations
    PROVE  At(c) \in MoveRecords /\ Live(c) \in [of : Creations, n : 0 .. Len(moves)]
           /\ Live(c).of = c /\ StateIn(moves, Live(c)) = At(c).state
<1>1. CASE path[c] = <<>>
    BY <1>1 DEF ChainOK, At, Live, Bundle, MoveRecords, States, StateIn
<1>2. CASE path[c] # <<>>
    <2>1. Len(path[c]) \in 1 .. Len(path[c])
        BY <1>2 DEF ChainOK
    <2>2. path[c][Len(path[c])] \in 1 .. Len(moves)
        BY <2>1 DEF ChainOK
    <2> QED BY <1>2, <2>2 DEF ChainOK, At, Live, Bundle, StateIn
<1> QED BY <1>1, <1>2

LEMMA MoveChain ==
    ASSUME ChainOK, NEW c \in Creations, NEW to, Move(c, to)
    PROVE  ChainOK' /\ ChainStays
<1> USE StoreAssumption DEF Move
<1>0. Successors(At(c)) \subseteq [state : States, empty : BOOLEAN]
    BY AtType DEF Successors, States, MoveRecords
<1> DEFINE r == [of |-> c, state |-> to.state, empty |-> to.empty]
<1>1. r \in MoveRecords
    BY <1>0 DEF MoveRecords
<1> HIDE DEF r
<1>2. /\ moves' = Append(moves, r) /\ moves' \in Seq(MoveRecords) /\ Len(moves') = Len(moves) + 1
      /\ \A n \in 1 .. Len(moves) : moves'[n] = moves[n]
    BY <1>1 DEF ChainOK, r
<1>3. path' \in [Creations -> Seq(Nat)]
    BY DEF ChainOK
<1>4. \A d \in Creations : \A k \in 1 .. Len(path'[d]) : path'[d][k] \in 1 .. Len(moves')
    <2> TAKE d \in Creations
    <2>1. CASE d # c
        <3>1. path'[d] = path[d]
            BY <2>1 DEF ChainOK
        <3>2. \A k \in 1 .. Len(path[d]) : path[d][k] \in 1 .. Len(moves)
            BY DEF ChainOK
        <3>3. Len(moves) \in Nat
            BY DEF ChainOK
        <3> QED BY <1>2, <3>1, <3>2, <3>3
    <2>2. CASE d = c
        <3>1. path'[c] = Append(path[c], Len(moves) + 1)
            BY DEF ChainOK
        <3>2. path[c] \in Seq(Nat) /\ Len(moves) \in Nat
            BY DEF ChainOK
        <3> DEFINE q == path[c]
                   q2 == path'[c]
                   n == Len(moves)
        <3>3. \A k \in 1 .. Len(q) : q[k] \in 1 .. n
            BY DEF ChainOK
        <3>4. q \in Seq(Nat) /\ n \in Nat /\ q2 = Append(q, n + 1) /\ Len(moves') = n + 1
            BY <1>2, <3>1, <3>2
        <3> HIDE DEF q, q2, n
        <3>5. \A k \in 1 .. Len(q2) : q2[k] \in 1 .. n + 1
            BY ONLY <3>3, <3>4
        <3> QED BY <2>2, <3>4, <3>5, Zenon DEF q2
    <2> QED BY <2>1, <2>2
<1>5. ChainOK'
    BY <1>2, <1>3, <1>4 DEF ChainOK
<1>6. ChainStays
    BY <1>2 DEF ChainOK, ChainStays, BlocksStay, MovesStay
<1> QED BY <1>5, <1>6

LEMMA DropChain ==
    ASSUME ChainOK, NEW c \in Creations, Drop(c)
    PROVE  ChainOK' /\ ChainStays
<1> USE StoreAssumption DEF Drop
<1>1. path[c] \in Seq(Nat) /\ Len(path[c]) \in Nat \ {0}
    BY DEF ChainOK
<1>2. /\ path'[c] \in Seq(Nat) /\ Len(path'[c]) = Len(path[c]) - 1
      /\ \A k \in 1 .. Len(path'[c]) : path'[c][k] = path[c][k]
    <2>1. path'[c] = SubSeq(path[c], 1, Len(path[c]) - 1)
        BY DEF ChainOK
    <2>2. 1 - 1 <= Len(path[c]) - 1 /\ Len(path[c]) - 1 \in Nat
        BY <1>1
    <2> DEFINE q == path[c]
               n == Len(path[c]) - 1
    <2>3. q \in Seq(Nat) /\ 1 \in Int /\ n \in Int /\ 0 <= n /\ 1 <= 1 /\ n <= Len(q)
        BY <1>1, <2>2
    <2> HIDE DEF q, n
    <2>4. /\ SubSeq(q, 1, n) \in Seq(Nat) /\ Len(SubSeq(q, 1, n)) = n
          /\ \A k \in 1 .. n : SubSeq(q, 1, n)[k] = q[k]
        BY ONLY <2>3, SubSeqProperties
    <2> QED BY ONLY <2>1, <2>4 DEF q, n
<1>3. path' \in [Creations -> Seq(Nat)]
    BY <1>2 DEF ChainOK
<1>4. \A d \in Creations : \A k \in 1 .. Len(path'[d]) : path'[d][k] \in 1 .. Len(moves)
    <2> TAKE d \in Creations
    <2>1. CASE d # c
        <3>1. path'[d] = path[d]
            BY <2>1 DEF ChainOK
        <3> QED BY <3>1 DEF ChainOK
    <2>2. CASE d = c
        <3>1. \A k \in 1 .. Len(path[c]) : path[c][k] \in 1 .. Len(moves)
            BY DEF ChainOK
        <3>2. \A k \in 1 .. Len(path'[c]) : k \in 1 .. Len(path[c])
            BY <1>1, <1>2
        <3> QED BY <1>2, <2>2, <3>1, <3>2, Zenon
    <2> QED BY <2>1, <2>2
<1>5. ChainOK'
    BY <1>3, <1>4 DEF ChainOK
<1>6. ChainStays
    BY DEF ChainOK, ChainStays, BlocksStay, MovesStay
<1> QED BY <1>5, <1>6

LEMMA TickChain ==
    ASSUME ChainOK, Tick
    PROVE  ChainOK' /\ ChainStays
<1> USE StoreAssumption DEF Tick
<1>1. ChainOK'
    BY DEF ChainOK
<1>2. ChainStays
    BY DEF ChainOK, ChainStays, BlocksStay, MovesStay
<1> QED BY <1>1, <1>2

-----------------------------------------------------------------------------
(* What holds of the tables and the calls stays while the chain moves on. *)

LEMMA BuriedStays ==
    ASSUME NEW bl, NEW st, NEW bl2, NEW st2, BlocksStay(bl, st, bl2, st2),
           NEW c \in Creations, NEW h, Buried(bl, st, c, h)
    PROVE  Buried(bl2, st2, c, h)
BY DEF BlocksStay, Buried

LEMMA StateStays ==
    ASSUME NEW mv, NEW mv2, MovesStay(mv, mv2), NEW b \in [of : Creations, n : 0 .. Len(mv)]
    PROVE  StateIn(mv2, b) = StateIn(mv, b) /\ b \in [of : Creations, n : 0 .. Len(mv2)]
BY DEF MovesStay, StateIn

LEMMA TablesStay ==
    ASSUME NEW cs, NEW rs, NEW us, NEW last \in Nat, NEW bl, NEW st, NEW mv,
           NEW bl2, NEW st2, NEW mv2,
           TablesOK(cs, rs, us, last, bl, st, mv),
           BlocksStay(bl, st, bl2, st2), MovesStay(mv, mv2)
    PROVE  TablesOK(cs, rs, us, last, bl2, st2, mv2)
<1>1. CandsOK(cs, last) /\ RowsOK(cs, rs)
    BY DEF TablesOK
<1>2. PromotedOK(cs, rs, bl2, st2)
    <2>1. \A i \in DOMAIN cs : cs[i].creation \in Creations
        BY <1>1 DEF CandsOK, Candidates
    <2> QED BY <2>1, BuriedStays DEF TablesOK, PromotedOK
<1>3. UtxosOK(rs, us, mv2)
    <2>1. UtxosOK(rs, us, mv)
        BY DEF TablesOK
    <2>2. \A b \in DOMAIN us : StateIn(mv2, b) = StateIn(mv, b)
                               /\ b \in [of : Creations, n : 0 .. Len(mv2)]
        BY <2>1, StateStays DEF UtxosOK
    <2> QED BY <2>1, <2>2 DEF UtxosOK
<1> QED BY <1>1, <1>2, <1>3 DEF TablesOK

(* What no step does to the candidates: change their creation, give an id   *)
(* again, take a promotion back or bring an expiry forward.                 *)
CandsEvolve(cs, cs2, last, last2, time) ==
    /\ last \in Nat /\ last2 \in Nat /\ last <= last2
    /\ cs \in [DOMAIN cs -> Candidates] /\ cs2 \in [DOMAIN cs2 -> Candidates]
    /\ DOMAIN cs \subseteq 1 .. last
    /\ \A i \in DOMAIN cs2 :
          \/ /\ i \in DOMAIN cs /\ cs2[i].creation = cs[i].creation
             /\ cs2[i].promoted = 0 =>
                   /\ cs[i].promoted = 0
                   /\ cs[i].expires <= cs2[i].expires \/ time < cs2[i].expires
          \/ i \notin 1 .. last /\ time < cs2[i].expires

LEMMA ListStays ==
    ASSUME NEW todo, NEW cs, NEW cs2, NEW last, NEW last2, NEW time,
           ListOK(todo, cs, last), CandsEvolve(cs, cs2, last, last2, time)
    PROVE  ListOK(todo, cs2, last2)
BY DEF ListOK, CandsEvolve

LEMMA HeightStays ==
    ASSUME NEW w, NEW cs, NEW cs2, NEW last, NEW last2, NEW time \in Nat, NEW time2 \in Nat,
           time <= time2,
           HeightOK(w, cs, last, time), CandsEvolve(cs, cs2, last, last2, time)
    PROVE  HeightOK(w, cs2, last2, time2)
<1>1. ListOK(w.todo, cs2, last2)
    BY ListStays DEF HeightOK
<1>2. ASSUME NEW i \in DOMAIN cs2, cs2[i].promoted = 0, cs2[i].expires <= w.now
      PROVE  Entry(i, cs2[i].creation) \in w.todo
    <2>1. w.now \in Nat /\ w.now <= time /\ cs2[i].expires \in Nat
        BY DEF HeightOK, CandsEvolve, Candidates
    <2>2. i \in DOMAIN cs /\ cs2[i].creation = cs[i].creation
          /\ cs[i].promoted = 0 /\ cs[i].expires <= cs2[i].expires
        BY <1>2, <2>1 DEF CandsEvolve
    <2>3. cs[i].expires \in Nat
        BY <2>2 DEF CandsEvolve, Candidates
    <2> QED BY <1>2, <2>1, <2>2, <2>3 DEF HeightOK
<1> QED BY <1>1, <1>2 DEF HeightOK

LEMMA CheckStays ==
    ASSUME NEW w, NEW cs, NEW cs2, NEW last, NEW last2, NEW time \in Nat, NEW time2 \in Nat,
           NEW bl, NEW st, NEW bl2, NEW st2,
           time <= time2, BlocksStay(bl, st, bl2, st2),
           CheckOK(w, cs, last, time, bl, st), CandsEvolve(cs, cs2, last, last2, time)
    PROVE  CheckOK(w, cs2, last2, time2, bl2, st2)
<1>1. ListOK(w.todo, cs2, last2)
    BY ListStays DEF CheckOK
<1>0. \A i \in DOMAIN cs2 : cs2[i].creation \in Creations /\ cs2[i].expires \in Nat
    BY DEF CandsEvolve, Candidates
<1>2. ASSUME NEW p \in w.ok, p.id \in DOMAIN cs2
      PROVE  Buried(bl2, st2, cs2[p.id].creation, p.height)
    <2>1. p.id \in 1 .. last
        BY DEF CheckOK
    <2>2. p.id \in DOMAIN cs /\ cs2[p.id].creation = cs[p.id].creation
        BY <1>2, <2>1 DEF CandsEvolve
    <2>3. Buried(bl, st, cs2[p.id].creation, p.height)
        BY <2>2 DEF CheckOK
    <2> QED BY <1>0, <1>2, <2>3, BuriedStays
<1>3. ASSUME ~w.skipped, NEW i \in DOMAIN cs2, cs2[i].promoted = 0, cs2[i].expires <= w.now,
             irreversible_confirmation_at(w.best, bl2[cs2[i].creation])
      PROVE  \/ Entry(i, cs2[i].creation) \in w.todo
             \/ Found(i, bl2[cs2[i].creation]) \in w.ok
    <2>1. w.now \in Nat /\ w.now <= time /\ w.best \in Nat /\ w.best <= st
        BY DEF CheckOK
    <2>2. i \in DOMAIN cs /\ cs2[i].creation = cs[i].creation
          /\ cs[i].promoted = 0 /\ cs[i].expires <= cs2[i].expires
        BY <1>0, <1>3, <2>1 DEF CandsEvolve
    <2>3. cs[i].expires \in Nat
        BY <2>2 DEF CandsEvolve, Candidates
    <2>4. cs[i].expires <= w.now
        BY <1>0, <1>3, <2>1, <2>2, <2>3
    <2>5. bl2[cs2[i].creation] \in Int /\ bl[cs2[i].creation] \in Int /\ st \in Nat
        BY <1>0 DEF BlocksStay
    <2>6. 0 < bl2[cs2[i].creation] /\ bl2[cs2[i].creation] < st
        BY <1>3, <2>1, <2>5, StoreAssumption DEF irreversible_confirmation_at
    <2>7. bl2[cs2[i].creation] = bl[cs[i].creation]
        BY <1>0, <2>2, <2>5, <2>6 DEF BlocksStay
    <2> QED BY <1>3, <2>2, <2>4, <2>7 DEF CheckOK
<1>4. last <= last2 /\ last \in Nat /\ last2 \in Nat /\ st <= st2 /\ st \in Nat /\ st2 \in Nat
    BY DEF CandsEvolve, BlocksStay
<1> QED BY <1>1, <1>2, <1>3, <1>4 DEF CheckOK

LEMMA SeenAsStays ==
    ASSUME NEW w, NEW w2, NEW m, NEW mv, NEW mv2, MovesStay(mv, mv2),
           w.seen \subseteq [of : Creations, n : 0 .. Len(mv)],
           w2.cands = w.cands, w2.rows = w.rows, w.seen \subseteq w2.seen, SeenAs(w, m, mv)
    PROVE  SeenAs(w2, m, mv2)
<1>1. PICK b \in w.seen : /\ b.of = w.cands[w.rows[m].cand].creation
                          /\ StateIn(mv, b) = w.rows[m].state
    BY DEF SeenAs
<1>2. StateIn(mv2, b) = StateIn(mv, b)
    BY StateStays
<1> QED BY <1>1, <1>2 DEF SeenAs

LEMMA WorkStays ==
    ASSUME NEW w, NEW w2, NEW cs, NEW rs, NEW last \in Nat, NEW bl, NEW st, NEW mv, NEW pt,
           NEW bl2, NEW st2, NEW mv2, NEW pt2,
           BlocksStay(bl, st, bl2, st2), MovesStay(mv, mv2),
           WorkOK(w, cs, rs, last, bl, st, mv, pt),
           w2.cands = w.cands, w2.rows = w.rows, w2.utxos = w.utxos, w2.todo = w.todo,
           SeenOK(w2.seen, pt2, mv2)
    PROVE  WorkOK(w2, cs, rs, last, bl2, st2, mv2, pt2)
<1>1. TablesOK(w.cands, w.rows, w.utxos, last, bl, st, mv)
    BY DEF WorkOK
<1>2. TablesOK(w.cands, w.rows, w.utxos, last, bl2, st2, mv2)
    BY <1>1, TablesStay
<1> QED BY <1>2 DEF WorkOK

(* A call that does not step, while the chain does and, unless it has the   *)
(* lock, the candidates do.                                                 *)
LEMMA OtherCall ==
    ASSUME NEW w, NEW w2, NEW cs, NEW cs2, NEW rs, NEW rs2, NEW last, NEW last2,
           NEW time \in Nat, NEW time2 \in Nat, time <= time2,
           NEW bl, NEW st, NEW mv, NEW pt, NEW bl2, NEW st2, NEW mv2, NEW pt2,
           CallOK(w, cs, rs, last, time, bl, st, mv, pt),
           BlocksStay(bl, st, bl2, st2), MovesStay(mv, mv2),
           CandsEvolve(cs, cs2, last, last2, time),
           w.pc \notin Scanning => w2 = w,
           w.pc \in Scanning =>
              /\ cs2 = cs /\ rs2 = rs /\ last2 = last
              /\ SeenOK(w2.seen, pt2, mv2)
              /\ w2 = w \/ w2 = [w EXCEPT !.seen = w2.seen]
              /\ w.seen \subseteq w2.seen
    PROVE  CallOK(w2, cs2, rs2, last2, time2, bl2, st2, mv2, pt2) /\ w2.pc = w.pc
<1>1. CASE w.pc \notin Scanning
    <2>1. w2 = w
        BY <1>1
    <2>2. w.pc = "height" => HeightOK(w, cs2, last2, time2)
        BY HeightStays DEF CallOK
    <2>3. w.pc \in {"check", "promote"} => CheckOK(w, cs2, last2, time2, bl2, st2)
        BY CheckStays DEF CallOK
    <2> QED BY <1>1, <2>1, <2>2, <2>3 DEF CallOK, Scanning
<1>2. CASE w.pc \in Scanning
    <2>1. /\ cs2 = cs /\ rs2 = rs /\ last2 = last /\ last \in Nat
          /\ SeenOK(w2.seen, pt2, mv2) /\ w.seen \subseteq w2.seen
        BY <1>2 DEF CandsEvolve
    <2>2. WorkOK(w, cs, rs, last, bl, st, mv, pt)
        BY <1>2 DEF CallOK
    <2>3. /\ w2.pc = w.pc /\ w2.cands = w.cands /\ w2.rows = w.rows /\ w2.utxos = w.utxos
          /\ w2.todo = w.todo
        BY <1>2 DEF CallOK, ScanOK, TagOK, Scanning
    <2>4. WorkOK(w2, cs2, rs2, last2, bl2, st2, mv2, pt2)
        BY <2>1, <2>2, <2>3, WorkStays
    <2>5. w.seen \subseteq [of : Creations, n : 0 .. Len(mv)]
        BY <2>2 DEF WorkOK, SeenOK
    <2>6. \A m : SeenAs(w, m, mv) => SeenAs(w2, m, mv2)
        BY <2>1, <2>3, <2>5, SeenAsStays
    <2>7. CASE w.pc \in {"scan", "commit"}
        <3>1. ScanOK(w, mv)
            BY <2>7 DEF CallOK
        <3>2. w2 = [pc |-> w.pc, todo |-> w.todo, rows |-> w.rows, cands |-> w.cands,
                    utxos |-> w.utxos, seen |-> w2.seen]
            BY <1>2, <3>1 DEF ScanOK
        <3>3. ScanOK(w2, mv2)
            BY <2>3, <2>6, <3>1, <3>2 DEF ScanOK
        <3> QED BY <1>2, <2>3, <2>4, <2>7, <3>3 DEF CallOK, Scanning, Locked
    <2>8. CASE w.pc = "tag"
        <3>1. TagOK(w, mv)
            BY <2>8 DEF CallOK
        <3>2. w2 = [pc |-> "tag", market |-> w.market, bundle |-> w.bundle, scan |-> w.scan,
                    todo |-> w.todo, rows |-> w.rows, cands |-> w.cands, utxos |-> w.utxos,
                    seen |-> w2.seen]
            BY <1>2, <3>1 DEF TagOK
        <3>3. /\ w2.market = w.market /\ w2.bundle = w.bundle /\ w2.scan = w.scan
            BY <3>2
        <3>4. StateIn(mv2, w.bundle) = StateIn(mv, w.bundle)
            BY <2>5, <3>1, StateStays DEF TagOK
        <3>5. \A m \in DOMAIN w.rows \ (w.todo \union {w.market}) : SeenAs(w2, m, mv2)
            BY <2>6, <3>1 DEF TagOK
        <3>6. TagOK(w2, mv2)
            BY <2>1, <2>3, <3>1, <3>2, <3>3, <3>4, <3>5 DEF TagOK
        <3> QED BY <1>2, <2>3, <2>4, <2>8, <3>6 DEF CallOK, Scanning, Locked
    <2> QED BY <1>2, <2>7, <2>8 DEF Scanning
<1> QED BY <1>1, <1>2

-----------------------------------------------------------------------------
(* Steps of the chain. *)

LEMMA CandsSame ==
    ASSUME StoreOK, NEW time
    PROVE  CandsEvolve(cands, cands, lastId, lastId, time)
<1>1. CandsOK(cands, lastId) /\ lastId \in Nat
    BY DEF StoreOK, TablesOK
<1>2. \A i \in DOMAIN cands : cands[i].expires \in Nat
    BY <1>1 DEF CandsOK, Candidates
<1> QED BY <1>1, <1>2 DEF CandsEvolve, CandsOK

LEMMA ChainStep ==
    ASSUME IInv, ChainOK', ChainStays, UNCHANGED storeVars,
           calls' = [s \in Syncs |-> calls'[s]],
           \A s \in Syncs :
              /\ calls[s].pc \notin Scanning => calls'[s] = calls[s]
              /\ calls[s].pc \in Scanning =>
                    /\ SeenOK(calls'[s].seen, path', moves')
                    /\ \/ calls'[s] = calls[s]
                       \/ calls'[s] = [calls[s] EXCEPT !.seen = calls'[s].seen]
                    /\ calls[s].seen \subseteq calls'[s].seen
    PROVE  IInv'
<1>1. cands' = cands /\ lastId' = lastId /\ rows' = rows /\ utxos' = utxos
    BY DEF storeVars
<1>2. StoreOK'
    BY <1>1, TablesStay DEF IInv, StoreOK, ChainStays
<1>3. CandsEvolve(cands, cands', lastId, lastId', now)
    BY <1>1, CandsSame DEF IInv
<1>4. \A s \in Syncs :
          /\ CallOK(calls'[s], cands', rows', lastId', now', block', settled', moves', path')
          /\ calls'[s].pc = calls[s].pc
    <2> TAKE s \in Syncs
    <2>1. CallOK(calls[s], cands, rows, lastId, now, block, settled, moves, path)
        BY DEF IInv, CallsOK
    <2> QED BY <1>1, <1>3, <2>1, OtherCall, ZenonT(60) DEF ChainStays
<1>5. OneLock'
    BY <1>4 DEF IInv, OneLock
<1>6. CallsOK'
    BY <1>4 DEF CallsOK
<1> QED BY <1>2, <1>5, <1>6 DEF IInv

LEMMA SameCalls ==
    ASSUME IInv, ChainOK', ChainStays, UNCHANGED <<storeVars, calls, path, moves>>
    PROVE  IInv'
<1>1. \A s \in Syncs : calls[s].pc \in Scanning => SeenOK(calls[s].seen, path, moves)
    BY DEF IInv, CallsOK, CallOK, WorkOK
<1> QED BY <1>1, ChainStep DEF IInv, CallsOK

(* Before a move or a drop, and after, the call has seen the live bundles.  *)
LEMMA WitnessStep ==
    ASSUME IInv, ChainOK', ChainStays, UNCHANGED storeVars, NEW c \in Creations, NEW b,
           Witness(b), b \in [of : Creations, n : 0 .. Len(moves')],
           b = Live(c)', \A d \in Creations : d # c => path'[d] = path[d]
    PROVE  IInv'
<1>1. ASSUME NEW s \in Syncs, calls[s].pc \in Scanning
      PROVE  /\ calls'[s] = [calls[s] EXCEPT !.seen = calls'[s].seen]
             /\ calls'[s].seen = calls[s].seen \union {b}
    <2>1. calls'[s] = [calls[s] EXCEPT !.seen = calls[s].seen \union {b}]
        BY <1>1 DEF Witness
    <2>2. calls[s].pc \in {"scan", "commit"} => ScanOK(calls[s], moves)
        BY DEF IInv, CallsOK, CallOK
    <2>3. calls[s].pc = "tag" => TagOK(calls[s], moves)
        BY DEF IInv, CallsOK, CallOK
    <2>4. calls'[s].seen = calls[s].seen \union {b}
        BY <1>1, <2>1, <2>2, <2>3 DEF ScanOK, TagOK, Scanning
    <2> QED BY <2>1, <2>4
<1>2. ASSUME NEW s \in Syncs, calls[s].pc \in Scanning
      PROVE  SeenOK(calls'[s].seen, path', moves')
    <2>1. SeenOK(calls[s].seen, path, moves)
        BY <1>2 DEF IInv, CallsOK, CallOK, WorkOK
    <2>2. calls[s].seen \subseteq [of : Creations, n : 0 .. Len(moves')]
        BY <2>1, StateStays DEF SeenOK, ChainStays
    <2>3. calls'[s].seen = calls[s].seen \union {b}
        BY <1>1, <1>2
    <2>4. ASSUME NEW d \in Creations
          PROVE  Bundle(d, IF path'[d] = <<>> THEN 0 ELSE path'[d][Len(path'[d])])
                    \in calls'[s].seen
        <3>1. CASE d = c
            BY <2>3, <3>1 DEF Live
        <3>2. CASE d # c
            BY <2>1, <2>3, <3>2 DEF SeenOK
        <3> QED BY <3>1, <3>2
    <2> QED BY <2>2, <2>3, <2>4 DEF SeenOK
<1>3. calls' = [s \in Syncs |-> calls'[s]]
      /\ \A s \in Syncs : calls[s].pc \notin Scanning => calls'[s] = calls[s]
    BY DEF Witness
<1> HIDE DEF Witness
<1> QED BY <1>1, <1>2, <1>3, ChainStep

LEMMA Shortened ==
    ASSUME NEW q \in Seq(Nat), Len(q) \in Nat \ {0}, NEW r, r = SubSeq(q, 1, Len(q) - 1)
    PROVE  /\ Len(q) = 1 => r = <<>>
           /\ Len(q) # 1 => r # <<>> /\ r[Len(r)] = q[Len(q) - 1]
<1>1. Len(q) - 1 \in Nat /\ 1 - 1 <= Len(q) - 1
    OBVIOUS
<1>2. /\ r \in Seq(Nat) /\ Len(r) = Len(q) - 1
      /\ \A k \in 1 .. Len(q) - 1 : r[k] = q[k]
    <2> DEFINE n == Len(q) - 1
    <2>0. n \in Nat /\ 1 - 1 <= n /\ n <= Len(q)
        BY <1>1
    <2> HIDE DEF n
    <2>1. /\ SubSeq(q, 1, n) \in Seq(Nat)
          /\ Len(SubSeq(q, 1, n)) = IF 1 <= n THEN n - 1 + 1 ELSE 0
          /\ \A i \in 1 .. n - 1 + 1 : SubSeq(q, 1, n)[i] = q[1 + i - 1]
        BY <2>0, SubSeqProperties
    <2>2. r = SubSeq(q, 1, n)
        BY DEF n
    <2>3. r \in Seq(Nat) /\ Len(r) = n /\ \A k \in 1 .. n : r[k] = q[k]
        BY <2>0, <2>1, <2>2
    <2> QED BY <2>3 DEF n
<1>3. ASSUME Len(q) # 1 PROVE r # <<>> /\ r[Len(r)] = q[Len(q) - 1]
    <2>1. Len(r) # 0 /\ Len(r) \in 1 .. Len(q) - 1
        BY <1>1, <1>2, <1>3
    <2> QED BY <1>2, <2>1
<1> QED BY <1>2, <1>3

LEMMA ChainSteps ==
    ASSUME IInv
    PROVE  /\ \A c \in Creations : Broadcast(c) \/ Drop(c) => IInv'
           /\ \A c \in Creations : \A to \in Successors(At(c)) : Move(c, to) => IInv'
           /\ \A some \in SUBSET {c \in Creations : block[c] = 0} : Mine(some) => IInv'
           /\ \A gone \in SUBSET {c \in Creations : block[c] = tip} : Reorg(gone) => IInv'
           /\ Tick => IInv'
<1>0. ChainOK
    BY DEF IInv
<1>1. ASSUME NEW c \in Creations, Broadcast(c) PROVE IInv'
    BY <1>0, <1>1, BroadcastChain, SameCalls DEF Broadcast
<1>2. ASSUME NEW c \in Creations, Drop(c) PROVE IInv'
    <2>1. ChainOK' /\ ChainStays
        BY <1>0, <1>2, DropChain
    <2>2. path[c] \in Seq(Nat) /\ Len(path[c]) \in Nat \ {0}
        BY <1>0, <1>2 DEF ChainOK, Drop
    <2>3. path'[c] = SubSeq(path[c], 1, Len(path[c]) - 1)
          /\ \A d \in Creations : d # c => path'[d] = path[d]
        BY <1>0, <1>2 DEF ChainOK, Drop
    <2>4. Len(path[c]) = 1 => path'[c] = <<>>
        BY <2>2, <2>3, Shortened
    <2>5. Len(path[c]) # 1 =>
            path'[c] # <<>> /\ path'[c][Len(path'[c])] = path[c][Len(path[c]) - 1]
        BY <2>2, <2>3, Shortened
    <2> DEFINE b == Bundle(c, IF Len(path[c]) = 1 THEN 0 ELSE path[c][Len(path[c]) - 1])
    <2>6. b = Live(c)'
        BY <2>4, <2>5 DEF Live
    <2>7. b \in [of : Creations, n : 0 .. Len(moves')]
        <3>1. (Live(c) \in [of : Creations, n : 0 .. Len(moves)])'
            <4>1. ChainOK'
                BY <2>1
            <4> QED BY <4>1, AtType, PTL
        <3> QED BY <2>6, <3>1
    <2>8. Witness(b) /\ UNCHANGED storeVars
        BY <1>2 DEF Drop
    <2> HIDE DEF b
    <2> QED BY <2>1, <2>3, <2>6, <2>7, <2>8, WitnessStep
<1>3. ASSUME NEW c \in Creations, NEW to \in Successors(At(c)), Move(c, to) PROVE IInv'
    <2>1. ChainOK' /\ ChainStays
        BY <1>0, <1>3, MoveChain
    <2>2. path[c] \in Seq(Nat) /\ Len(moves) \in Nat /\ Len(moves') = Len(moves) + 1
        BY <1>0, <1>3 DEF ChainOK, Move
    <2>3. path'[c] = Append(path[c], Len(moves) + 1)
          /\ \A d \in Creations : d # c => path'[d] = path[d]
        BY <1>0, <1>3 DEF ChainOK, Move
    <2> DEFINE b == Bundle(c, Len(moves) + 1)
    <2>4. b = Live(c)'
        <3>1. path'[c] # <<>> /\ path'[c][Len(path'[c])] = Len(moves) + 1
            BY <2>2, <2>3
        <3> QED BY <3>1 DEF Live
    <2>5. b \in [of : Creations, n : 0 .. Len(moves')]
        BY <2>2 DEF Bundle
    <2>6. Witness(b) /\ UNCHANGED storeVars
        BY <1>3 DEF Move
    <2> HIDE DEF b
    <2> QED BY <2>1, <2>3, <2>4, <2>5, <2>6, WitnessStep
<1>4. ASSUME NEW some \in SUBSET {c \in Creations : block[c] = 0}, Mine(some) PROVE IInv'
    BY <1>0, <1>4, MineChain, SameCalls DEF Mine
<1>5. ASSUME NEW gone \in SUBSET {c \in Creations : block[c] = tip}, Reorg(gone) PROVE IInv'
    BY <1>0, <1>5, ReorgChain, SameCalls DEF Reorg
<1>6. ASSUME Tick PROVE IInv'
    BY <1>0, <1>6, TickChain, SameCalls DEF Tick
<1> QED BY <1>1, <1>2, <1>3, <1>4, <1>5, <1>6

-----------------------------------------------------------------------------
(* Steps of one call: the others need the candidates to evolve, and the one *)
(* that has the lock needs the tables to itself.                            *)

OthersStay(s) ==
    /\ calls' = [t \in Syncs |-> calls'[t]]
    /\ \A t \in Syncs : t # s => calls'[t] = calls[t]

LEMMA CallStep ==
    ASSUME IInv, UNCHANGED chainVars, NEW s \in Syncs, OthersStay(s),
           StoreOK', CandsEvolve(cands, cands', lastId, lastId', now),
           CallOK(calls[s], cands, rows, lastId, now, block, settled, moves, path)',
           \A t \in Syncs : t # s /\ calls[t].pc \in Scanning => UNCHANGED storeVars,
           calls'[s].pc \in Locked => \A t \in Syncs : t # s => calls[t].pc \notin Locked
    PROVE  IInv'
<1>1. ChainOK' /\ ChainStays
    BY SameChain DEF IInv
<1>2. now' = now /\ settled' = settled /\ block' = block /\ moves' = moves /\ path' = path
    BY DEF chainVars
<1>3. \A t \in Syncs :
          CallOK(calls'[t], cands', rows', lastId', now', block', settled', moves', path')
    <2> TAKE t \in Syncs
    <2>1. CASE t = s
        BY <2>1
    <2>2. CASE t # s
        <3>1. CallOK(calls[t], cands, rows, lastId, now, block, settled, moves, path)
            BY DEF IInv, CallsOK
        <3>2. calls'[t] = calls[t]
            BY <2>2 DEF OthersStay
        <3>3. calls[t].pc \in Scanning =>
                /\ cands' = cands /\ rows' = rows /\ lastId' = lastId
                /\ SeenOK(calls[t].seen, path', moves')
            BY <1>2, <2>2, <3>1 DEF CallOK, WorkOK, storeVars
        <3> QED BY <1>1, <3>1, <3>2, <3>3, OtherCall DEF ChainStays
    <2> QED BY <2>1, <2>2
<1>4. CallsOK'
    BY <1>3 DEF CallsOK, OthersStay
<1>5. OneLock'
    BY DEF OneLock, OthersStay, IInv
<1> QED BY <1>1, <1>4, <1>5 DEF IInv

(* A step that leaves the store alone. *)
LEMMA QuietStep ==
    ASSUME IInv, UNCHANGED chainVars, UNCHANGED storeVars, NEW s \in Syncs, OthersStay(s),
           CallOK(calls'[s], cands, rows, lastId, now, block, settled, moves, path),
           calls'[s].pc \in Locked => calls[s].pc \in Locked
    PROVE  IInv'
<1>1. /\ now' = now /\ settled' = settled /\ block' = block /\ moves' = moves /\ path' = path
      /\ cands' = cands /\ rows' = rows /\ lastId' = lastId /\ utxos' = utxos
    BY DEF chainVars, storeVars
<1>2. StoreOK'
    BY <1>1 DEF IInv, StoreOK
<1>3. CandsEvolve(cands, cands', lastId, lastId', now)
    BY <1>1, CandsSame DEF IInv
<1>4. CallOK(calls[s], cands, rows, lastId, now, block, settled, moves, path)'
    BY <1>1
<1>5. calls'[s].pc \in Locked => \A t \in Syncs : t # s => calls[t].pc \notin Locked
    BY DEF IInv, OneLock
<1> QED BY <1>2, <1>3, <1>4, <1>5, CallStep

LEMMA Fails ==
    ASSUME IInv, NEW s \in Syncs, SyncFails(s)
    PROVE  IInv'
<1>1. OthersStay(s) /\ calls'[s] = Idle
    BY DEF SyncFails, OthersStay, IInv, CallsOK
<1>2. CallOK(Idle, cands, rows, lastId, now, block, settled, moves, path)
    BY DEF CallOK, Idle, Scanning
<1>3. Idle.pc \notin Locked
    BY DEF Idle, Locked, Scanning
<1> QED BY <1>1, <1>2, <1>3, QuietStep DEF SyncFails

LEMMA Lists ==
    ASSUME IInv, NEW s \in Syncs, SyncList(s)
    PROVE  IInv'
<1> DEFINE w2 == [pc |-> "height", now |-> now,
                  todo |-> {[id |-> i, creation |-> cands[i].creation] :
                               i \in {j \in DOMAIN cands : cands[j].promoted = 0}}]
<1>1. OthersStay(s) /\ calls'[s] = w2
    BY DEF SyncList, OthersStay, IInv, CallsOK
<1>2. CandsOK(cands, lastId) /\ now \in Nat
    BY StoreAssumption DEF IInv, StoreOK, TablesOK, ChainOK
<1>3. ListOK(w2.todo, cands, lastId)
    BY <1>2 DEF ListOK, CandsOK, Candidates
<1>4. HeightOK(w2, cands, lastId, now)
    BY <1>2, <1>3 DEF HeightOK, Entry
<1>5. CallOK(w2, cands, rows, lastId, now, block, settled, moves, path)
    BY <1>4 DEF CallOK, Scanning
<1>6. w2.pc \notin Locked
    BY DEF Locked, Scanning
<1> HIDE DEF w2
<1> QED BY <1>1, <1>5, <1>6, QuietStep DEF SyncList

LEMMA Heights ==
    ASSUME IInv, NEW s \in Syncs, SyncHeight(s)
    PROVE  IInv'
<1>1. PICK fails \in BOOLEAN :
         calls' = [calls EXCEPT ![s] =
            [pc |-> "check", now |-> calls[s].now, best |-> tip, ok |-> {},
             todo |-> IF fails THEN {} ELSE calls[s].todo, skipped |-> fails]]
    BY DEF SyncHeight
<1> DEFINE w2 == [pc |-> "check", now |-> calls[s].now, best |-> tip, ok |-> {},
                  todo |-> IF fails THEN {} ELSE calls[s].todo, skipped |-> fails]
<1>2. OthersStay(s) /\ calls'[s] = w2
    BY <1>1 DEF OthersStay, IInv, CallsOK
<1>3. HeightOK(calls[s], cands, lastId, now)
    BY DEF SyncHeight, IInv, CallsOK, CallOK
<1>4. tip \in Nat /\ tip <= settled
    BY DEF IInv, ChainOK
<1>5. ListOK(w2.todo, cands, lastId)
    BY <1>3 DEF HeightOK, ListOK
<1>6. CheckOK(w2, cands, lastId, now, block, settled)
    BY <1>3, <1>4, <1>5 DEF HeightOK, CheckOK
<1>7. CallOK(w2, cands, rows, lastId, now, block, settled, moves, path)
    BY <1>6 DEF CallOK, Scanning
<1>8. w2.pc \notin Locked
    BY DEF Locked, Scanning
<1> HIDE DEF w2
<1> QED BY <1>2, <1>7, <1>8, QuietStep DEF SyncHeight

LEMMA Checks ==
    ASSUME IInv, NEW s \in Syncs, SyncCheck(s)
    PROVE  IInv'
<1> DEFINE w == calls[s]
<1>0. /\ w.pc = "check" /\ CheckOK(w, cands, lastId, now, block, settled)
      /\ block \in [Creations -> Int] /\ settled \in Nat
    BY StoreAssumption DEF SyncCheck, IInv, CallsOK, CallOK, ChainOK
<1>1. PICK k \in w.todo :
         LET h  == block[k.creation]
             ok == IF irreversible_confirmation_at(w.best, h)
                   THEN {[id |-> k.id, height |-> h]} ELSE {}
         IN  \/ calls' = [calls EXCEPT ![s].todo = @ \ {k}, ![s].ok = @ \union ok]
             \/ calls' = [calls EXCEPT ![s].todo = @ \ {k}, ![s].skipped = TRUE]
    BY DEF SyncCheck
<1> DEFINE h == block[k.creation]
           ok == IF irreversible_confirmation_at(w.best, h) THEN {Found(k.id, h)} ELSE {}
           Rec(oks, skip) == [pc |-> "check", now |-> w.now, best |-> w.best, ok |-> oks,
                              todo |-> w.todo \ {k}, skipped |-> skip]
<1>2. OthersStay(s) /\ (calls'[s] = Rec(w.ok \union ok, w.skipped) \/ calls'[s] = Rec(w.ok, TRUE))
    BY <1>0, <1>1 DEF CheckOK, OthersStay, IInv, CallsOK, Found
<1>3. k \in [id : 1 .. lastId, creation : Creations] /\ ListOK(w.todo \ {k}, cands, lastId)
    BY <1>0 DEF CheckOK, ListOK
<1>4. h \in Int /\ (irreversible_confirmation_at(w.best, h) => h \in Nat /\ 0 < h /\ h < settled)
    <2>1. h \in Int
        BY <1>0, <1>3
    <2> QED BY <1>0, <2>1, StoreAssumption DEF irreversible_confirmation_at, CheckOK
<1>5. k.id \in DOMAIN cands => cands[k.id].creation = k.creation
    BY <1>0 DEF CheckOK, ListOK
<1>6. \A p \in ok : /\ p \in [id : 1 .. lastId, height : Nat]
                    /\ p.id \in DOMAIN cands => Buried(block, settled, cands[p.id].creation, p.height)
    BY <1>3, <1>4, <1>5 DEF Buried, Found
<1>7. ASSUME ~w.skipped, NEW i \in DOMAIN cands, cands[i].promoted = 0, cands[i].expires <= w.now,
             irreversible_confirmation_at(w.best, block[cands[i].creation])
      PROVE  \/ Entry(i, cands[i].creation) \in w.todo \ {k}
             \/ Found(i, block[cands[i].creation]) \in w.ok \union ok
    <2>1. \/ Entry(i, cands[i].creation) \in w.todo
          \/ Found(i, block[cands[i].creation]) \in w.ok
        BY <1>0, <1>7 DEF CheckOK
    <2>2. CASE Entry(i, cands[i].creation) = k
        <3>1. k.id = i /\ k.creation = cands[i].creation
            BY <2>2 DEF Entry
        <3> QED BY <1>7, <3>1
    <2> QED BY <2>1, <2>2
<1>8. CheckOK(Rec(w.ok \union ok, w.skipped), cands, lastId, now, block, settled)
    BY <1>0, <1>3, <1>6, <1>7 DEF CheckOK
<1>9. CheckOK(Rec(w.ok, TRUE), cands, lastId, now, block, settled)
    BY <1>0, <1>3 DEF CheckOK
<1>10. CallOK(calls'[s], cands, rows, lastId, now, block, settled, moves, path)
       /\ calls'[s].pc \notin Locked
    BY <1>2, <1>8, <1>9 DEF CallOK, Scanning, Locked
<1> QED BY <1>2, <1>10, QuietStep DEF SyncCheck

-----------------------------------------------------------------------------
(* An announcement. *)

LEMMA Discovers ==
    ASSUME IInv, NEW a \in [creation : Creations, opens : BOOLEAN], MarketDiscovered(a)
    PROVE  IInv'
<1> DEFINE c == a.creation
<1>0. c \in Creations /\ ingest_prediction_market_candidate(c) /\ Free
      /\ UNCHANGED <<chainVars, rows, utxos, calls>>
    BY DEF MarketDiscovered
<1> HIDE DEF c
<1>1. ChainOK' /\ ChainStays
    BY <1>0, SameChain DEF IInv
<1>2. now' = now /\ settled' = settled /\ block' = block /\ moves' = moves /\ path' = path
    BY <1>0 DEF chainVars
<1>3. /\ TablesOK(cands, rows, utxos, lastId, block, settled, moves) /\ lastId \in Nat
      /\ CandsOK(cands, lastId) /\ now \in Nat /\ now + Ttl \in Nat /\ now < now + Ttl
      /\ \A i \in DOMAIN cands : cands[i] \in Candidates
    <2>1. TablesOK(cands, rows, utxos, lastId, block, settled, moves) /\ lastId \in Nat
        BY DEF IInv, StoreOK
    <2>2. now \in Nat /\ Ttl \in Nat \ {0}
        BY StoreAssumption DEF IInv, ChainOK
    <2>3. CandsOK(cands, lastId)
        BY <2>1 DEF TablesOK
    <2>4. \A i \in DOMAIN cands : cands[i] \in Candidates
        BY <2>3 DEF CandsOK
    <2> QED BY <2>1, <2>2, <2>3, <2>4
<1>4. /\ lastId' \in Nat /\ lastId <= lastId' /\ CandsOK(cands', lastId')
      /\ DOMAIN cands \subseteq DOMAIN cands'
      /\ \A i \in DOMAIN cands : /\ cands'[i].creation = cands[i].creation
                                 /\ cands'[i].promoted = cands[i].promoted
                                 /\ cands'[i] = cands[i] \/ now < cands'[i].expires
      /\ \A i \in DOMAIN cands' \ DOMAIN cands :
            i \notin 1 .. lastId /\ now < cands'[i].expires /\ cands'[i].promoted = 0
    <2>1. CASE Existing(c) # {}
        <3>1. cands' = Refreshed(c) /\ lastId' = lastId
            BY <1>0, <2>1 DEF ingest_prediction_market_candidate
        <3>2. DOMAIN cands' = DOMAIN cands
            BY <3>1 DEF Refreshed
        <3>3. \A i \in DOMAIN cands :
                 \/ cands'[i] = cands[i]
                 \/ cands[i].promoted = 0 /\ cands'[i] = [cands[i] EXCEPT !.expires = now + Ttl]
            BY <3>1 DEF Refreshed
        <3>4. \A i \in DOMAIN cands :
                 /\ cands'[i] \in Candidates
                 /\ cands'[i].creation = cands[i].creation
                 /\ cands'[i].promoted = cands[i].promoted
                 /\ \/ cands'[i] = cands[i]
                    \/ cands'[i].promoted = 0 /\ cands'[i].expires = now + Ttl
            BY <1>3, <3>3 DEF Candidates
        <3>5. cands' = [i \in DOMAIN cands' |-> cands'[i]]
            BY <3>1 DEF Refreshed
        <3>6. CandsOK(cands', lastId')
            <4>1. cands' \in [DOMAIN cands' -> Candidates] /\ DOMAIN cands' \subseteq 1 .. lastId'
                BY <1>3, <3>1, <3>2, <3>4, <3>5 DEF CandsOK
            <4>2. \A i \in DOMAIN cands' : (cands'[i].expires = 0) <=> (cands'[i].promoted > 0)
                BY <1>3, <3>2, <3>4 DEF CandsOK, Candidates
            <4>3. \A i, j \in DOMAIN cands' : cands'[i].creation = cands'[j].creation => i = j
                BY <1>3, <3>2, <3>4 DEF CandsOK
            <4> QED BY <4>1, <4>2, <4>3 DEF CandsOK
        <3> QED BY <1>3, <3>1, <3>2, <3>4, <3>6
    <2>2. CASE Existing(c) = {}
        <3>1. /\ cands' = [i \in DOMAIN cands \union {lastId + 1} |->
                             IF i = lastId + 1 THEN NewCandidate(c) ELSE cands[i]]
              /\ lastId' = lastId + 1
            BY <1>0, <2>2 DEF ingest_prediction_market_candidate, NextId
        <3>2. lastId + 1 \notin DOMAIN cands
            BY <1>3 DEF CandsOK
        <3>3. NewCandidate(c) \in Candidates /\ NewCandidate(c).creation = c
              /\ NewCandidate(c).promoted = 0 /\ NewCandidate(c).expires = now + Ttl
            BY <1>0, <1>3 DEF NewCandidate, Candidates
        <3>4. DOMAIN cands' = DOMAIN cands \union {lastId + 1} /\ cands'[lastId + 1] = NewCandidate(c)
            BY <3>1
        <3>5. \A i \in DOMAIN cands : cands'[i] = cands[i]
            BY <3>1, <3>2
        <3>6. CandsOK(cands', lastId')
            <4>1. cands' \in [DOMAIN cands' -> Candidates] /\ DOMAIN cands' \subseteq 1 .. lastId'
                BY <1>3, <3>1, <3>3, <3>4 DEF CandsOK
            <4>2. \A i \in DOMAIN cands' : (cands'[i].expires = 0) <=> (cands'[i].promoted > 0)
                BY <1>3, <3>3, <3>4, <3>5 DEF CandsOK, Candidates
            <4>3. \A i \in DOMAIN cands : cands[i].creation # c
                BY <2>2 DEF Existing
            <4>4. \A i, j \in DOMAIN cands' : cands'[i].creation = cands'[j].creation => i = j
                BY <1>3, <3>3, <3>4, <3>5, <4>3 DEF CandsOK
            <4> QED BY <4>1, <4>2, <4>4 DEF CandsOK
        <3> QED BY <1>3, <3>1, <3>2, <3>3, <3>4, <3>5, <3>6
    <2> QED BY <2>1, <2>2
<1>5. CandsEvolve(cands, cands', lastId, lastId', now)
    <2>1. \A i \in DOMAIN cands : cands[i].expires \in Nat
        BY <1>3 DEF Candidates
    <2> QED BY <1>3, <1>4, <2>1 DEF CandsEvolve, CandsOK
<1>6. StoreOK'
    <2>1. PromotedOK(cands', rows, block, settled)
        <3>1. PromotedOK(cands, rows, block, settled)
            BY <1>3 DEF TablesOK
        <3>2. \A i \in DOMAIN cands' : cands'[i].promoted > 0 => i \in DOMAIN cands
            BY <1>4
        <3> QED BY <1>4, <3>1, <3>2 DEF PromotedOK
    <2>2. RowsOK(cands', rows)
        BY <1>3, <1>4 DEF TablesOK, RowsOK
    <2> QED BY <1>0, <1>2, <1>3, <1>4, <2>1, <2>2 DEF StoreOK, TablesOK
<1>7. ASSUME NEW s \in Syncs
      PROVE  CallOK(calls[s], cands', rows', lastId', now', block', settled', moves', path')
    <2>1. CallOK(calls[s], cands, rows, lastId, now, block, settled, moves, path)
        BY DEF IInv, CallsOK
    <2>2. calls[s].pc \notin Scanning
        BY <1>0 DEF Free, Locked
    <2> QED BY <1>1, <1>5, <2>1, <2>2, OtherCall DEF ChainStays
<1> QED BY <1>0, <1>1, <1>6, <1>7 DEF IInv, CallsOK, OneLock

-----------------------------------------------------------------------------
(* Promotion and purge. *)

LEMMA LockHolder ==
    ASSUME IInv, NEW s \in Syncs, HasLock(s)
    PROVE  /\ \A t \in Syncs : t # s => calls[t].pc \notin Locked
           /\ calls[s].pc \in {"check", "promote"} /\ calls[s].todo = {}
           /\ CheckOK(calls[s], cands, lastId, now, block, settled)
<1>1. calls[s].pc \in {"check", "promote"}
    BY DEF HasLock
<1>2. CheckOK(calls[s], cands, lastId, now, block, settled)
    BY <1>1 DEF IInv, CallsOK, CallOK
<1>3. \A t \in Syncs : t # s => calls[t].pc \notin Locked
    BY DEF HasLock, Free, IInv, OneLock, Locked
<1> QED BY <1>1, <1>2, <1>3 DEF HasLock, CheckOK

(* A promoted market's creation is in a block, so no candidate of another   *)
(* creation of that market is.                                              *)
LEMMA OneOnChain ==
    ASSUME IInv, NEW i \in DOMAIN cands, MarketOf[cands[i].creation] \in DOMAIN rows,
           block[cands[i].creation] >= 0
    PROVE  cands[i].promoted > 0
<1> DEFINE m == MarketOf[cands[i].creation]
           j == rows[m].cand
<1>1. CandsOK(cands, lastId) /\ RowsOK(cands, rows) /\ PromotedOK(cands, rows, block, settled)
    BY DEF IInv, StoreOK, TablesOK
<1>2. j \in DOMAIN cands /\ cands[j].promoted > 0 /\ MarketOf[cands[j].creation] = m
    BY <1>1 DEF RowsOK
<1>3. Buried(block, settled, cands[j].creation, cands[j].promoted)
    BY <1>1, <1>2 DEF PromotedOK
<1>4. cands[i].creation \in Creations /\ cands[j].creation \in Creations
    BY <1>1, <1>2 DEF CandsOK, Candidates
<1>5. block[cands[j].creation] >= 0
    BY <1>3 DEF Buried
<1>6. cands[i].creation = cands[j].creation
    BY <1>2, <1>4, <1>5 DEF IInv, ChainOK
<1>7. i = j
    BY <1>1, <1>2, <1>6 DEF CandsOK
<1> QED BY <1>2, <1>7

LEMMA PromotionKeeps ==
    ASSUME IInv, NEW p, p.id \in Nat, Promotable(p),
           Buried(block, settled, cands[p.id].creation, p.height),
           promote_prediction_market_candidate(p)
    PROVE  /\ TablesOK(cands', rows', utxos, lastId, block, settled, moves)
           /\ CandsEvolve(cands, cands', lastId, lastId, now)
           /\ p.id \in DOMAIN cands' => cands'[p.id].promoted > 0
<1> DEFINE c == cands[p.id].creation
           m == MarketOf[c]
<1>0. p.id \in DOMAIN cands /\ m \notin DOMAIN rows
    BY DEF Promotable
<1>1. /\ cands' = [i \in DOMAIN cands \ Rivals(p) |->
                    IF i = p.id THEN [cands[i] EXCEPT !.expires = 0, !.promoted = p.height]
                    ELSE cands[i]]
      /\ rows' = [x \in DOMAIN rows \union {m} |->
                    IF x \in DOMAIN rows THEN rows[x] ELSE [cand |-> p.id, state |-> "Dormant"]]
    BY DEF promote_prediction_market_candidate
<1>2. /\ CandsOK(cands, lastId) /\ RowsOK(cands, rows) /\ PromotedOK(cands, rows, block, settled)
      /\ UtxosOK(rows, utxos, moves) /\ lastId \in Nat
    BY DEF IInv, StoreOK, TablesOK
<1>3. p.height \in Nat /\ p.height > 0
    BY DEF Buried
<1>4. \A i \in DOMAIN cands : cands[i] \in Candidates
    BY <1>2 DEF CandsOK
<1>5. c \in Creations /\ m \in Markets
    BY <1>0, <1>4, StoreAssumption DEF Candidates
<1>6. DOMAIN cands' = DOMAIN cands \ Rivals(p) /\ p.id \in DOMAIN cands'
    BY <1>0, <1>1 DEF Rivals
<1>7. \A i \in DOMAIN cands' : i # p.id => i \in DOMAIN cands /\ cands'[i] = cands[i]
    BY <1>1, <1>6
<1>8. /\ cands'[p.id] \in Candidates /\ cands'[p.id].creation = c
      /\ cands'[p.id].promoted = p.height /\ cands'[p.id].expires = 0
    <2>1. cands'[p.id] = [cands[p.id] EXCEPT !.expires = 0, !.promoted = p.height]
        BY <1>1, <1>6
    <2>2. cands[p.id] \in Candidates /\ p.height \in Nat
        BY <1>0, <1>3, <1>4
    <2> DEFINE r == cands[p.id]
               r2 == cands'[p.id]
               h == p.height
    <2>3. r \in Candidates /\ r2 = [r EXCEPT !.expires = 0, !.promoted = h] /\ h \in Nat
        BY <2>1, <2>2
    <2> HIDE DEF r, r2, h
    <2>4. r2 \in Candidates /\ r2.creation = r.creation /\ r2.promoted = h /\ r2.expires = 0
        BY <2>3 DEF Candidates
    <2> QED BY <2>4 DEF r, r2, h
<1>9. CandsOK(cands', lastId)
    <2>1. cands' \in [DOMAIN cands' -> Candidates]
        <3>1. cands' = [i \in DOMAIN cands' |-> cands'[i]]
            BY <1>1
        <3>2. \A i \in DOMAIN cands' : cands'[i] \in Candidates
            BY <1>4, <1>7, <1>8
        <3> QED BY <3>1, <3>2
    <2>2. DOMAIN cands' \subseteq 1 .. lastId
        BY <1>2, <1>6 DEF CandsOK
    <2>3. \A i \in DOMAIN cands' : (cands'[i].expires = 0) <=> (cands'[i].promoted > 0)
        BY <1>2, <1>3, <1>7, <1>8 DEF CandsOK
    <2>4. \A i, j \in DOMAIN cands' : cands'[i].creation = cands'[j].creation => i = j
        BY <1>0, <1>2, <1>7, <1>8 DEF CandsOK
    <2> QED BY <2>1, <2>2, <2>3, <2>4 DEF CandsOK
<1>10. CandsEvolve(cands, cands', lastId, lastId, now)
    <2>1. \A i \in DOMAIN cands' :
             /\ i \in DOMAIN cands /\ cands'[i].creation = cands[i].creation
             /\ cands'[i].promoted = 0 => cands[i].promoted = 0 /\ cands[i].expires <= cands'[i].expires
        BY <1>0, <1>3, <1>4, <1>7, <1>8 DEF Candidates
    <2> QED BY <1>2, <1>9, <2>1 DEF CandsEvolve, CandsOK
<1>11. /\ DOMAIN rows' = DOMAIN rows \union {m}
       /\ \A x \in DOMAIN rows : rows'[x] = rows[x]
       /\ rows'[m] = [cand |-> p.id, state |-> "Dormant"]
    BY <1>0, <1>1
<1>12. PromotedOK(cands', rows', block, settled)
    <2> SUFFICES ASSUME NEW i \in DOMAIN cands', cands'[i].promoted > 0
                 PROVE  Buried(block, settled, cands'[i].creation, cands'[i].promoted)
                        /\ MarketOf[cands'[i].creation] \in DOMAIN rows'
        BY DEF PromotedOK
    <2>1. CASE i = p.id
        BY <1>8, <1>11, <2>1
    <2>2. CASE i # p.id
        BY <1>2, <1>7, <1>11, <2>2 DEF PromotedOK
    <2> QED BY <2>1, <2>2
<1>13. RowsOK(cands', rows')
    <2>1. \A x \in DOMAIN rows : /\ rows[x].cand \in DOMAIN cands' /\ rows[x].cand # p.id
                                 /\ cands'[rows[x].cand] = cands[rows[x].cand]
        <3> TAKE x \in DOMAIN rows
        <3>1. rows[x].cand \in DOMAIN cands /\ MarketOf[cands[rows[x].cand].creation] = x
            BY <1>2 DEF RowsOK
        <3>2. x # m
            BY <1>0
        <3>3. rows[x].cand # p.id /\ rows[x].cand \notin Rivals(p)
            BY <3>1, <3>2 DEF Rivals
        <3> QED BY <1>6, <1>7, <3>1, <3>3
    <2>2. rows' \in [DOMAIN rows' -> [cand : Nat, state : States]]
        <3>1. rows' = [x \in DOMAIN rows' |-> rows'[x]]
            BY <1>1
        <3>2. \A x \in DOMAIN rows' : rows'[x] \in [cand : Nat, state : States]
            BY <1>2, <1>11 DEF RowsOK, States
        <3> QED BY <3>1, <3>2
    <2>3. DOMAIN rows' \subseteq Markets
        BY <1>2, <1>5, <1>11 DEF RowsOK
    <2>4. \A x \in DOMAIN rows' : /\ rows'[x].cand \in DOMAIN cands'
                                  /\ cands'[rows'[x].cand].promoted > 0
                                  /\ MarketOf[cands'[rows'[x].cand].creation] = x
        <3> TAKE x \in DOMAIN rows'
        <3>1. CASE x = m
            <4>1. rows'[x].cand = p.id
                BY <1>11, <3>1
            <4>2. cands'[p.id].promoted > 0
                BY <1>3, <1>8
            <4>3. MarketOf[cands'[p.id].creation] = x
                BY <1>8, <3>1
            <4> QED BY <1>6, <4>1, <4>2, <4>3, Zenon
        <3>2. CASE x # m
            BY <1>2, <1>11, <2>1, <3>2 DEF RowsOK
        <3> QED BY <3>1, <3>2
    <2> QED BY <2>2, <2>3, <2>4 DEF RowsOK
<1>14. UtxosOK(rows', utxos, moves)
    <2>1. \A b \in DOMAIN utxos : /\ utxos[b] \in [market : DOMAIN rows \union {"none"}, spent : BOOLEAN]
                                  /\ utxos[b].market \in DOMAIN rows \union {"none"}
        BY <1>2 DEF UtxosOK
    <2>2. \A b \in DOMAIN utxos : utxos[b] \in [market : DOMAIN rows' \union {"none"}, spent : BOOLEAN]
        BY <1>11, <2>1
    <2>3. utxos \in [DOMAIN utxos -> [market : DOMAIN rows' \union {"none"}, spent : BOOLEAN]]
        BY <1>2, <2>2 DEF UtxosOK
    <2>4. \A b \in DOMAIN utxos : utxos[b].market # "none" => rows'[utxos[b].market] = rows[utxos[b].market]
        BY <1>11, <2>1
    <2> QED BY <1>2, <2>3, <2>4 DEF UtxosOK
<1> QED BY <1>3, <1>8, <1>9, <1>10, <1>12, <1>13, <1>14 DEF TablesOK

LEMMA Promotes ==
    ASSUME IInv, NEW s \in Syncs, SyncPromote(s)
    PROVE  IInv'
<1> DEFINE w == calls[s]
<1>0. /\ \A t \in Syncs : t # s => calls[t].pc \notin Locked
      /\ w.todo = {} /\ CheckOK(w, cands, lastId, now, block, settled)
    BY LockHolder DEF SyncPromote
<1>1. PICK p \in w.ok :
         /\ promote_prediction_market_candidate(p)
         /\ calls' = [calls EXCEPT ![s].pc = "promote", ![s].ok = @ \ {p}]
    BY DEF SyncPromote
<1>2. /\ now' = now /\ settled' = settled /\ block' = block /\ moves' = moves /\ path' = path
      /\ lastId' = lastId /\ utxos' = utxos /\ UNCHANGED chainVars
    BY DEF SyncPromote, chainVars
<1> DEFINE w2 == [pc |-> "promote", now |-> w.now, best |-> w.best, ok |-> w.ok \ {p},
                  todo |-> {}, skipped |-> w.skipped]
<1>3. OthersStay(s) /\ calls'[s] = w2
    BY <1>0, <1>1 DEF CheckOK, OthersStay, IInv, CallsOK
<1>4. /\ p \in [id : 1 .. lastId, height : Nat] /\ p.id \in Nat
      /\ p.id \in DOMAIN cands => Buried(block, settled, cands[p.id].creation, p.height)
    BY <1>0 DEF CheckOK
<1>5. /\ StoreOK' /\ CandsEvolve(cands, cands', lastId, lastId', now)
      /\ p.id \in DOMAIN cands' /\ block[cands'[p.id].creation] >= 0 => cands'[p.id].promoted > 0
    <2>1. CASE Promotable(p)
        <3>1. Buried(block, settled, cands[p.id].creation, p.height)
            BY <1>4, <2>1 DEF Promotable
        <3> QED BY <1>1, <1>2, <1>4, <2>1, <3>1, PromotionKeeps DEF IInv, StoreOK
    <2>2. CASE ~Promotable(p)
        <3>1. cands' = cands /\ rows' = rows
            BY <1>1, <2>2 DEF promote_prediction_market_candidate
        <3>2. StoreOK'
            BY <1>2, <3>1 DEF IInv, StoreOK
        <3>3. CandsEvolve(cands, cands', lastId, lastId', now)
            BY <1>2, <3>1, CandsSame DEF IInv
        <3>4. p.id \in DOMAIN cands /\ block[cands[p.id].creation] >= 0 => cands[p.id].promoted > 0
            BY <2>2, OneOnChain DEF Promotable
        <3> QED BY <3>1, <3>2, <3>3, <3>4
    <2> QED BY <2>1, <2>2
<1>6. now \in Nat /\ BlocksStay(block, settled, block, settled)
    BY <1>2, SameChain DEF IInv, ChainStays
<1>7. CheckOK(w, cands', lastId, now, block, settled)
    BY <1>0, <1>2, <1>5, <1>6, CheckStays
<1>8. CheckOK(w2, cands', lastId, now, block, settled)
    <2>1. ASSUME ~w.skipped, NEW i \in DOMAIN cands', cands'[i].promoted = 0,
                 cands'[i].expires <= w.now,
                 irreversible_confirmation_at(w.best, block[cands'[i].creation])
          PROVE  Found(i, block[cands'[i].creation]) \in w.ok \ {p}
        <3>1. Found(i, block[cands'[i].creation]) \in w.ok
            BY <1>0, <1>7, <2>1 DEF CheckOK
        <3>2. cands'[i].creation \in Creations
            BY <1>5 DEF CandsEvolve, Candidates
        <3>3. block[cands'[i].creation] >= 0
            BY <2>1, <3>2, <1>6 DEF irreversible_confirmation_at, BlocksStay
        <3>4. p # Found(i, block[cands'[i].creation])
            BY <1>5, <2>1, <3>3 DEF Found
        <3> QED BY <3>1, <3>4
    <2>2. ListOK({}, cands', lastId)
        BY DEF ListOK
    <2> QED BY <1>7, <2>1, <2>2 DEF CheckOK
<1>9. CallOK(w2, cands', rows', lastId, now, block, settled, moves, path) /\ w2.pc \notin Scanning
    BY <1>8 DEF CallOK, Locked, Scanning
<1>10. \A t \in Syncs : t # s => calls[t].pc \notin Scanning
    BY <1>0 DEF Locked
<1> HIDE DEF w2
<1> QED BY <1>0, <1>2, <1>3, <1>5, <1>9, <1>10, CallStep

LEMMA PurgeKeeps ==
    ASSUME IInv, NEW time, cands' = purge_expired_prediction_market_candidates(cands, time)
    PROVE  /\ TablesOK(cands', rows, utxos, lastId, block, settled, moves)
           /\ CandsEvolve(cands, cands', lastId, lastId, now)
<1>1. /\ CandsOK(cands, lastId) /\ RowsOK(cands, rows) /\ PromotedOK(cands, rows, block, settled)
      /\ UtxosOK(rows, utxos, moves) /\ lastId \in Nat
    BY DEF IInv, StoreOK, TablesOK
<1>2. \A i \in DOMAIN cands : cands[i] \in Candidates
    BY <1>1 DEF CandsOK
<1>3. /\ DOMAIN cands' = {j \in DOMAIN cands : cands[j].promoted > 0 \/ cands[j].expires > time}
      /\ \A i \in DOMAIN cands' : i \in DOMAIN cands /\ cands'[i] = cands[i]
      /\ cands' = [i \in DOMAIN cands' |-> cands'[i]]
    BY DEF purge_expired_prediction_market_candidates
<1>4. CandsOK(cands', lastId)
    <2>1. cands' \in [DOMAIN cands' -> Candidates] /\ DOMAIN cands' \subseteq 1 .. lastId
        BY <1>1, <1>2, <1>3 DEF CandsOK
    <2>2. \A i \in DOMAIN cands' : (cands'[i].expires = 0) <=> (cands'[i].promoted > 0)
        BY <1>1, <1>3 DEF CandsOK
    <2>3. \A i, j \in DOMAIN cands' : cands'[i].creation = cands'[j].creation => i = j
        BY <1>1, <1>3 DEF CandsOK
    <2> QED BY <2>1, <2>2, <2>3 DEF CandsOK
<1>5. CandsEvolve(cands, cands', lastId, lastId, now)
    <2>1. \A i \in DOMAIN cands : cands[i].expires \in Nat
        BY <1>2 DEF Candidates
    <2> QED BY <1>1, <1>3, <1>4, <2>1 DEF CandsEvolve, CandsOK
<1>6. PromotedOK(cands', rows, block, settled)
    BY <1>1, <1>3 DEF PromotedOK
<1>7. RowsOK(cands', rows)
    BY <1>1, <1>3 DEF RowsOK
<1> QED BY <1>1, <1>4, <1>5, <1>6, <1>7 DEF TablesOK

LEMMA Purges ==
    ASSUME IInv, NEW s \in Syncs, SyncPurge(s)
    PROVE  IInv'
<1> DEFINE w2 == [pc |-> "scan", todo |-> DOMAIN rows, rows |-> rows, cands |-> cands',
                  utxos |-> utxos, seen |-> {Live(c) : c \in Creations}]
<1>0. \A t \in Syncs : t # s => calls[t].pc \notin Locked
    BY LockHolder DEF SyncPurge
<1>1. OthersStay(s) /\ calls'[s] = w2
    BY DEF SyncPurge, OthersStay, IInv, CallsOK, MarketsToScan
<1>2. /\ now' = now /\ settled' = settled /\ block' = block /\ moves' = moves /\ path' = path
      /\ lastId' = lastId /\ utxos' = utxos /\ rows' = rows /\ UNCHANGED chainVars
    BY DEF SyncPurge, chainVars
<1>3. /\ TablesOK(cands', rows, utxos, lastId, block, settled, moves)
      /\ CandsEvolve(cands, cands', lastId, lastId, now)
    BY PurgeKeeps DEF SyncPurge
<1>4. SeenOK(w2.seen, path, moves)
    <2>1. w2.seen \subseteq [of : Creations, n : 0 .. Len(moves)]
        BY AtType DEF IInv
    <2> QED BY <2>1 DEF SeenOK, Live
<1>5. WorkOK(w2, cands', rows, lastId, block, settled, moves, path)
    BY <1>3, <1>4 DEF WorkOK, SameCands, SameRows
<1>6. CallOK(w2, cands', rows, lastId, now, block, settled, moves, path)
    BY <1>5 DEF CallOK, ScanOK, Locked, Scanning
<1>7. StoreOK'
    BY <1>2, <1>3 DEF IInv, StoreOK
<1>8. \A t \in Syncs : t # s => calls[t].pc \notin Scanning
    BY <1>0 DEF Locked
<1> HIDE DEF w2
<1> QED BY <1>0, <1>1, <1>2, <1>3, <1>6, <1>7, <1>8, CallStep

-----------------------------------------------------------------------------
(* The store's sync. *)

LEMMA ScanningCall ==
    ASSUME IInv, NEW s \in Syncs, calls[s].pc \in Scanning
    PROVE  /\ calls[s].pc \in Locked /\ lastId \in Nat
           /\ WorkOK(calls[s], cands, rows, lastId, block, settled, moves, path)
           /\ calls[s].pc = "tag" => TagOK(calls[s], moves)
           /\ calls[s].pc # "tag" => ScanOK(calls[s], moves)
BY DEF IInv, CallsOK, CallOK, Locked, Scanning, StoreOK

LEMMA Scans ==
    ASSUME IInv, NEW s \in Syncs, SyncScan(s)
    PROVE  IInv'
<1> DEFINE w == calls[s]
<1>0. /\ w.pc \in Locked /\ WorkOK(w, cands, rows, lastId, block, settled, moves, path)
      /\ ScanOK(w, moves)
    BY ScanningCall DEF SyncScan, Scanning
<1>1. PICK m \in w.todo :
         LET c == w.cands[w.rows[m].cand].creation
         IN  calls' = [calls EXCEPT ![s] =
                [pc |-> "tag", market |-> m, bundle |-> Live(c), scan |-> At(c),
                 todo |-> @.todo \ {m}, rows |-> @.rows, cands |-> @.cands,
                 utxos |-> @.utxos, seen |-> @.seen]]
    BY DEF SyncScan
<1> DEFINE c == w.cands[w.rows[m].cand].creation
           w2 == [pc |-> "tag", market |-> m, bundle |-> Live(c), scan |-> At(c),
                  todo |-> w.todo \ {m}, rows |-> w.rows, cands |-> w.cands,
                  utxos |-> w.utxos, seen |-> w.seen]
<1>2. OthersStay(s) /\ calls'[s] = w2
    BY <1>1 DEF OthersStay, IInv, CallsOK
<1>3. m \in DOMAIN w.rows /\ w.rows[m].cand \in DOMAIN w.cands
    BY <1>0 DEF WorkOK, TablesOK, RowsOK
<1>4. c \in Creations
    BY <1>0, <1>3 DEF WorkOK, TablesOK, CandsOK, Candidates
<1>5. /\ At(c) \in MoveRecords /\ Live(c).of = c /\ StateIn(moves, Live(c)) = At(c).state
    BY <1>4, AtType DEF IInv
<1>6. Live(c) \in w.seen
    BY <1>0, <1>4 DEF WorkOK, SeenOK, Live
<1>7. \A x \in DOMAIN w.rows \ (w2.todo \union {m}) : SeenAs(w2, x, moves)
    BY <1>0 DEF ScanOK, SeenAs
<1>8. TagOK(w2, moves)
    BY <1>3, <1>5, <1>6, <1>7 DEF TagOK
<1>9. WorkOK(w2, cands, rows, lastId, block, settled, moves, path)
    BY <1>0 DEF WorkOK
<1>10. CallOK(w2, cands, rows, lastId, now, block, settled, moves, path)
    BY <1>8, <1>9 DEF CallOK, Locked, Scanning
<1> HIDE DEF w2
<1> QED BY <1>0, <1>2, <1>10, QuietStep DEF SyncScan

(* The tags of market m are those of the bundle that was found, if any. *)
Retagged(us, scan, b, m) ==
    IF scan.empty THEN clear_market_utxo_tags(us, m)
    ELSE upsert_market_chain_utxo(clear_market_utxo_tags(us, m), b, m)

LEMMA TagsKept ==
    ASSUME NEW rs, NEW us, NEW mv, NEW m, NEW b, NEW scan, NEW rs2, NEW us2,
           UtxosOK(rs, us, mv), DOMAIN rs \subseteq Markets, m \in DOMAIN rs,
           rs \in [DOMAIN rs -> [cand : Nat, state : States]],
           b \in [of : Creations, n : 0 .. Len(mv)], StateIn(mv, b) = scan.state,
           DOMAIN rs2 = DOMAIN rs, rs2[m].state = scan.state,
           \A x \in DOMAIN rs : x # m => rs2[x] = rs[x],
           us2 = Retagged(us, scan, b, m)
    PROVE  UtxosOK(rs2, us2, mv)
<1> DEFINE cl == clear_market_utxo_tags(us, m)
           Rows == [market : DOMAIN rs \union {"none"}, spent : BOOLEAN]
<1>0. m # "none"
    BY StoreAssumption
<1>1. \A x \in DOMAIN us : us[x] \in Rows
    BY DEF UtxosOK
<1>2. /\ DOMAIN cl = DOMAIN us
      /\ \A x \in DOMAIN us : IF us[x].market = m THEN cl[x] = [us[x] EXCEPT !.market = "none"]
                              ELSE cl[x] = us[x]
      /\ cl = [x \in DOMAIN cl |-> cl[x]]
    BY DEF clear_market_utxo_tags
<1>3. \A x \in DOMAIN us :
          /\ cl[x] \in Rows /\ cl[x].market # m
          /\ cl[x].market # "none" => cl[x] = us[x]
    <2> TAKE x \in DOMAIN us
    <2>1. CASE us[x].market = m
        <3>1. cl[x] = [us[x] EXCEPT !.market = "none"]
            BY <1>2, <2>1
        <3>2. us[x] \in Rows
            BY <1>1
        <3> HIDE DEF cl
        <3>3. cl[x] \in Rows /\ cl[x].market = "none"
            BY <3>1, <3>2
        <3> QED BY <1>0, <3>3
    <2>2. CASE us[x].market # m
        BY <1>1, <1>2, <2>2
    <2> QED BY <2>1, <2>2
<1> HIDE DEF cl
<1>4. /\ DOMAIN rs2 = DOMAIN rs /\ rs2[m].state = scan.state
      /\ \A x \in DOMAIN rs : x # m => rs2[x] = rs[x]
    OBVIOUS
<1>5. /\ DOMAIN us2 \subseteq [of : Creations, n : 0 .. Len(mv)]
      /\ us2 = [x \in DOMAIN us2 |-> us2[x]]
      /\ \A x \in DOMAIN us2 :
            \/ x \in DOMAIN us /\ us2[x] = cl[x]
            \/ x = b /\ us2[x] = [market |-> m, spent |-> FALSE]
    <2>1. CASE scan.empty
        BY <1>2, <2>1 DEF cl, UtxosOK, Retagged
    <2>2. CASE ~scan.empty
        <3>1. us2 = [x \in DOMAIN cl \union {b} |->
                       IF x = b THEN [market |-> m, spent |-> FALSE] ELSE cl[x]]
            BY <2>2 DEF upsert_market_chain_utxo, cl, Retagged
        <3>2. DOMAIN us2 = DOMAIN us \union {b} /\ us2[b] = [market |-> m, spent |-> FALSE]
            BY <1>2, <3>1
        <3>3. \A x \in DOMAIN us2 : x # b => us2[x] = cl[x]
            BY <1>2, <3>1
        <3>4. us2 = [x \in DOMAIN us2 |-> us2[x]]
            BY <3>1
        <3>5. DOMAIN us \subseteq [of : Creations, n : 0 .. Len(mv)]
            BY DEF UtxosOK
        <3> QED BY <3>2, <3>3, <3>4, <3>5
    <2> QED BY <2>1, <2>2
<1>6. \A x \in DOMAIN us2 : /\ us2[x] \in Rows
                            /\ us2[x].market = m => x = b
                            /\ us2[x].market \notin {m, "none"} => x \in DOMAIN us /\ us2[x] = us[x]
    <2> TAKE x \in DOMAIN us2
    <2>1. CASE x \in DOMAIN us /\ us2[x] = cl[x]
        BY <1>3, <2>1
    <2>2. CASE x = b /\ us2[x] = [market |-> m, spent |-> FALSE]
        <3>0. ASSUME NEW r, r = [market |-> m, spent |-> FALSE]
              PROVE  r.market = m /\ r \in Rows
            BY <3>0
        <3> HIDE DEF Rows
        <3>1. us2[x].market = m /\ us2[x] \in Rows
            BY <2>2, <3>0, Zenon
        <3> QED BY <2>2, <3>1
    <2> QED BY <1>5, <2>1, <2>2
<1>7. us2 \in [DOMAIN us2 -> [market : DOMAIN rs2 \union {"none"}, spent : BOOLEAN]]
    BY <1>4, <1>5, <1>6
<1>8. ASSUME NEW x \in DOMAIN us2, us2[x].market # "none", ~us2[x].spent
      PROVE  /\ StateIn(mv, x) = rs2[us2[x].market].state
             /\ \A a \in DOMAIN us2 : us2[a].market = us2[x].market /\ ~us2[a].spent => a = x
    <2>1. CASE us2[x].market = m
        BY <1>4, <1>6, <2>1
    <2>2. CASE us2[x].market # m
        <3>1. x \in DOMAIN us /\ us2[x] = us[x]
            BY <1>6, <1>8, <2>2
        <3>2. us[x].market \in DOMAIN rs
            BY <1>1, <1>8, <3>1
        <3>3. \A a \in DOMAIN us2 : us2[a].market = us2[x].market => a \in DOMAIN us /\ us2[a] = us[a]
            BY <1>6, <1>8, <2>2
        <3> QED BY <1>4, <1>8, <2>2, <3>1, <3>2, <3>3 DEF UtxosOK
    <2> QED BY <2>1, <2>2
<1> QED BY <1>5, <1>7, <1>8 DEF UtxosOK

LEMMA SpentKept ==
    ASSUME NEW rs, NEW us, NEW mv, UtxosOK(rs, us, mv)
    PROVE  UtxosOK(rs, sync_spent_utxos(us), mv)
<1> DEFINE us2 == sync_spent_utxos(us)
           Rows == [market : DOMAIN rs \union {"none"}, spent : BOOLEAN]
<1>1. \A x \in DOMAIN us : us[x] \in Rows
    BY DEF UtxosOK
<1>2. /\ DOMAIN us2 = DOMAIN us /\ us2 = [x \in DOMAIN us2 |-> us2[x]]
      /\ \A x \in DOMAIN us : us2[x] = [us[x] EXCEPT !.spent = TRUE] \/ us2[x] = us[x]
    BY DEF sync_spent_utxos
<1> HIDE DEF us2
<1>3. \A x \in DOMAIN us : us2[x] \in Rows /\ us2[x].market = us[x].market
                           /\ (us[x].spent => us2[x].spent)
    BY <1>1, <1>2
<1>4. us2 \in [DOMAIN us2 -> Rows]
    BY <1>2, <1>3
<1> QED BY <1>2, <1>3, <1>4 DEF UtxosOK, us2

LEMMA EntropyKept ==
    ASSUME NEW cs, NEW last, CandsOK(cs, last), NEW i \in DOMAIN cs,
           NEW cs2, cs2 = try_extract_issuance_entropy(cs, i)
    PROVE  CandsOK(cs2, last) /\ SameCands(cs2, cs)
<1>1. cs2 = [cs EXCEPT ![i].entropy = TRUE]
    BY DEF try_extract_issuance_entropy
<1>2. cs \in [DOMAIN cs -> Candidates]
    BY DEF CandsOK
<1>3. DOMAIN cs2 = DOMAIN cs /\ cs2 = [x \in DOMAIN cs2 |-> cs2[x]]
      /\ \A x \in DOMAIN cs : x # i => cs2[x] = cs[x]
    BY <1>1
<1> DEFINE r == cs[i]
           r2 == cs2[i]
<1>4. r \in Candidates /\ r2 = [r EXCEPT !.entropy = TRUE]
    BY <1>1, <1>2
<1> HIDE DEF r, r2
<1>5. /\ r2 \in Candidates /\ r2.creation = r.creation /\ r2.expires = r.expires
      /\ r2.promoted = r.promoted
    BY <1>4 DEF Candidates
<1>6. SameCands(cs2, cs)
    BY <1>3, <1>5 DEF SameCands, r, r2
<1>7. \A x \in DOMAIN cs2 : cs2[x] \in Candidates
    BY <1>2, <1>3, <1>5 DEF r, r2
<1>8. cs2 \in [DOMAIN cs2 -> Candidates]
    BY <1>3, <1>7
<1>9. CandsOK(cs2, last)
    BY <1>3, <1>6, <1>8 DEF CandsOK, SameCands
<1> QED BY <1>6, <1>9

(* Tables whose candidates are the same but for the entropies. *)
LEMMA SameTables ==
    ASSUME NEW cs, NEW cs2, NEW rs, NEW rs2, NEW bl, NEW st,
           SameCands(cs2, cs), SameRows(rs2, rs), RowsOK(cs, rs), PromotedOK(cs, rs, bl, st),
           rs2 \in [DOMAIN rs2 -> [cand : Nat, state : States]]
    PROVE  RowsOK(cs2, rs2) /\ PromotedOK(cs2, rs2, bl, st)
<1>1. RowsOK(cs2, rs2)
    BY DEF SameCands, SameRows, RowsOK
<1>2. PromotedOK(cs2, rs2, bl, st)
    BY DEF SameCands, SameRows, PromotedOK
<1> QED BY <1>1, <1>2

LEMMA Tags ==
    ASSUME IInv, NEW s \in Syncs, SyncTag(s)
    PROVE  IInv'
<1> DEFINE w == calls[s]
           m == w.market
           cs2 == try_extract_issuance_entropy(w.cands, w.rows[m].cand)
           rs2 == [w.rows EXCEPT ![m] = update_market_state_from_scan(@, w.scan)]
           us2 == Retagged(w.utxos, w.scan, w.bundle, m)
           w2 == [pc |-> "scan", todo |-> w.todo, seen |-> w.seen, cands |-> cs2,
                  rows |-> rs2, utxos |-> us2]
<1>0. /\ w.pc \in Locked /\ WorkOK(w, cands, rows, lastId, block, settled, moves, path)
      /\ TagOK(w, moves)
    BY ScanningCall DEF SyncTag, Scanning
<1>1. OthersStay(s) /\ calls'[s] = w2
    BY DEF SyncTag, OthersStay, IInv, CallsOK, Retagged
<1>2. /\ CandsOK(w.cands, lastId) /\ PromotedOK(w.cands, w.rows, block, settled)
      /\ RowsOK(w.cands, w.rows) /\ UtxosOK(w.rows, w.utxos, moves)
      /\ SameCands(w.cands, cands) /\ SameRows(w.rows, rows)
      /\ SeenOK(w.seen, path, moves) /\ w.todo \subseteq DOMAIN w.rows
    BY <1>0 DEF WorkOK, TablesOK
<1>3. /\ m \in DOMAIN w.rows /\ w.bundle \in w.seen
      /\ w.bundle.of = w.cands[w.rows[m].cand].creation
      /\ w.scan \in MoveRecords /\ StateIn(moves, w.bundle) = w.scan.state
      /\ \A x \in DOMAIN w.rows \ (w.todo \union {m}) : SeenAs(w, x, moves)
    BY <1>0 DEF TagOK
<1>4. w.rows[m].cand \in DOMAIN w.cands
      /\ w.rows \in [DOMAIN w.rows -> [cand : Nat, state : States]] /\ DOMAIN w.rows \subseteq Markets
    BY <1>2, <1>3 DEF RowsOK
<1>5. CandsOK(cs2, lastId) /\ SameCands(cs2, w.cands)
    BY <1>2, <1>4, EntropyKept
<1>6. /\ DOMAIN rs2 = DOMAIN w.rows /\ rs2[m].state = w.scan.state
      /\ \A x \in DOMAIN w.rows : rs2[x].cand = w.rows[x].cand
      /\ \A x \in DOMAIN w.rows : x # m => rs2[x] = w.rows[x]
      /\ rs2 \in [DOMAIN rs2 -> [cand : Nat, state : States]]
    <2>1. w.scan.state \in States
        BY <1>3 DEF MoveRecords
    <2>2. rs2[m] = [w.rows[m] EXCEPT !.state = w.scan.state] /\ DOMAIN rs2 = DOMAIN w.rows
          /\ \A x \in DOMAIN w.rows : x # m => rs2[x] = w.rows[x]
        BY <1>3 DEF update_market_state_from_scan
    <2>3. rs2 = [x \in DOMAIN rs2 |-> rs2[x]]
        OBVIOUS
    <2> DEFINE r == w.rows[m]
               r2 == rs2[m]
               x2 == w.scan.state
    <2>4. r \in [cand : Nat, state : States] /\ r2 = [r EXCEPT !.state = x2] /\ x2 \in States
        BY <1>3, <1>4, <2>1, <2>2
    <2> HIDE DEF r, r2, x2, rs2
    <2>5. r2 \in [cand : Nat, state : States] /\ r2.cand = r.cand /\ r2.state = x2
        BY <2>4
    <2>6. \A x \in DOMAIN w.rows : rs2[x] \in [cand : Nat, state : States] /\ rs2[x].cand = w.rows[x].cand
        BY <1>4, <2>2, <2>5 DEF r, r2
    <2> QED BY <2>2, <2>3, <2>5, <2>6 DEF r2, x2
<1> HIDE DEF cs2, rs2
<1>7. w.bundle \in [of : Creations, n : 0 .. Len(moves)]
    BY <1>2, <1>3 DEF SeenOK
<1>8. UtxosOK(rs2, us2, moves)
    <2> DEFINE rs == w.rows
               us == w.utxos
               b == w.bundle
               scan == w.scan
    <2>1. /\ UtxosOK(rs, us, moves) /\ DOMAIN rs \subseteq Markets /\ m \in DOMAIN rs
          /\ rs \in [DOMAIN rs -> [cand : Nat, state : States]]
          /\ b \in [of : Creations, n : 0 .. Len(moves)] /\ StateIn(moves, b) = scan.state
          /\ DOMAIN rs2 = DOMAIN rs /\ rs2[m].state = scan.state
          /\ \A x \in DOMAIN rs : x # m => rs2[x] = rs[x]
        BY <1>2, <1>3, <1>4, <1>6, <1>7, Zenon
    <2>2. us2 = Retagged(us, scan, b, m)
        OBVIOUS
    <2> HIDE DEF rs, us, b, scan, us2, m
    <2> QED BY <2>1, <2>2, TagsKept
<1> HIDE DEF us2
<1>9. SameRows(rs2, w.rows)
    BY <1>6 DEF SameRows
<1>10. RowsOK(cs2, rs2) /\ PromotedOK(cs2, rs2, block, settled)
    BY <1>2, <1>5, <1>6, <1>9, SameTables
<1>11. WorkOK(w2, cands, rows, lastId, block, settled, moves, path)
    <2>1. SameCands(cs2, cands) /\ SameRows(rs2, rows)
        BY <1>2, <1>5, <1>9 DEF SameCands, SameRows
    <2> QED BY <1>2, <1>5, <1>6, <1>8, <1>10, <2>1 DEF WorkOK, TablesOK
<1>12. ASSUME NEW x \in DOMAIN rs2 \ w.todo
       PROVE  SeenAs(w2, x, moves)
    <2>0. cs2[rs2[x].cand].creation = w.cands[w.rows[x].cand].creation
        <3>1. w.rows[x].cand \in DOMAIN w.cands
            BY <1>2, <1>6 DEF RowsOK
        <3> QED BY <1>5, <1>6, <3>1 DEF SameCands
    <2>1. CASE x = m
        BY <1>3, <1>6, <2>0, <2>1 DEF SeenAs
    <2>2. CASE x # m
        <3>1. SeenAs(w, x, moves)
            BY <1>3, <1>6, <2>2
        <3> QED BY <1>6, <2>0, <2>2, <3>1 DEF SeenAs
    <2> QED BY <2>1, <2>2
<1>13. ScanOK(w2, moves)
    BY <1>12 DEF ScanOK
<1>14. CallOK(w2, cands, rows, lastId, now, block, settled, moves, path)
    BY <1>11, <1>13 DEF CallOK, Locked, Scanning
<1> HIDE DEF w2
<1> QED BY <1>0, <1>1, <1>14, QuietStep DEF SyncTag

LEMMA Spents ==
    ASSUME IInv, NEW s \in Syncs, SyncSpent(s)
    PROVE  IInv'
<1> DEFINE w == calls[s]
           w2 == [pc |-> "commit", todo |-> w.todo, rows |-> w.rows, cands |-> w.cands,
                  utxos |-> sync_spent_utxos(w.utxos), seen |-> w.seen]
<1>0. /\ w.pc \in Locked /\ WorkOK(w, cands, rows, lastId, block, settled, moves, path)
      /\ ScanOK(w, moves) /\ w.todo = {}
    BY ScanningCall DEF SyncSpent, Scanning
<1>1. OthersStay(s) /\ calls'[s] = w2
    BY <1>0 DEF SyncSpent, OthersStay, IInv, CallsOK, ScanOK
<1>2. UtxosOK(w.rows, sync_spent_utxos(w.utxos), moves)
    BY <1>0, SpentKept DEF WorkOK, TablesOK
<1>3. WorkOK(w2, cands, rows, lastId, block, settled, moves, path)
    BY <1>0, <1>2 DEF WorkOK, TablesOK
<1>4. ScanOK(w2, moves)
    BY <1>0 DEF ScanOK, SeenAs
<1>5. CallOK(w2, cands, rows, lastId, now, block, settled, moves, path)
    BY <1>0, <1>3, <1>4 DEF CallOK, Locked, Scanning
<1> HIDE DEF w2
<1> QED BY <1>0, <1>1, <1>5, QuietStep DEF SyncSpent

LEMMA Commits ==
    ASSUME IInv, NEW s \in Syncs, SyncCommit(s)
    PROVE  IInv'
<1> DEFINE w == calls[s]
<1>0. /\ w.pc \in Locked /\ WorkOK(w, cands, rows, lastId, block, settled, moves, path)
    BY ScanningCall DEF SyncCommit, Scanning
<1>1. /\ now' = now /\ settled' = settled /\ block' = block /\ moves' = moves /\ path' = path
      /\ lastId' = lastId /\ utxos' = w.utxos /\ rows' = w.rows /\ cands' = w.cands
      /\ UNCHANGED chainVars
    BY DEF SyncCommit, chainVars
<1>2. OthersStay(s) /\ calls'[s] = Idle
    BY DEF SyncCommit, OthersStay, IInv, CallsOK
<1>3. StoreOK'
    BY <1>0, <1>1 DEF IInv, StoreOK, WorkOK
<1>4. CandsEvolve(cands, cands', lastId, lastId', now)
    <2>1. CandsOK(cands, lastId) /\ CandsOK(cands', lastId) /\ SameCands(cands', cands)
          /\ lastId \in Nat
        BY <1>0, <1>1 DEF IInv, StoreOK, WorkOK, TablesOK
    <2>2. \A i \in DOMAIN cands : cands[i].expires \in Nat
        BY <2>1 DEF CandsOK, Candidates
    <2> QED BY <1>1, <2>1, <2>2 DEF CandsEvolve, CandsOK, SameCands
<1>5. CallOK(Idle, cands', rows', lastId', now', block', settled', moves', path')
    BY DEF CallOK, Idle, Scanning
<1>6. Idle.pc \notin Locked
    BY DEF Idle, Locked, Scanning
<1>7. \A t \in Syncs : t # s => calls[t].pc \notin Scanning
    BY <1>0 DEF IInv, OneLock, Locked
<1> QED BY <1>1, <1>2, <1>3, <1>4, <1>5, <1>6, <1>7, CallStep

-----------------------------------------------------------------------------
(* The theorems. *)

LEMMA InitInv == Init => IInv
<1> SUFFICES ASSUME Init PROVE IInv
    OBVIOUS
<1> USE StoreAssumption DEF Init
<1>1. ChainOK
    BY DEF ChainOK
<1>2. /\ DOMAIN cands = {} /\ DOMAIN rows = {} /\ DOMAIN utxos = {}
      /\ cands \in [{} -> Candidates] /\ rows \in [{} -> [cand : Nat, state : States]]
      /\ utxos \in [{} -> [market : DOMAIN rows \union {"none"}, spent : BOOLEAN]]
    BY DEF Empty
<1>3. StoreOK
    BY <1>2 DEF StoreOK, TablesOK, CandsOK, PromotedOK, RowsOK, UtxosOK
<1>4. OneLock
    BY DEF OneLock, Idle, Locked, Scanning
<1>5. CallsOK
    BY DEF CallsOK, CallOK, Idle, Scanning
<1> QED BY <1>1, <1>3, <1>4, <1>5 DEF IInv

LEMMA NextInv == IInv /\ [Next]_vars => IInv'
<1> SUFFICES ASSUME IInv, [Next]_vars PROVE IInv'
    OBVIOUS
<1>1. CASE UNCHANGED vars
    <2>1. UNCHANGED <<chainVars, storeVars, calls, path, moves>>
        BY <1>1 DEF vars, chainVars, storeVars
    <2> QED BY <2>1, SameChain, SameCalls DEF IInv
<1>2. CASE Next
    BY <1>2, ChainSteps, Discovers, Lists, Heights, Checks, Promotes, Purges, Scans, Tags,
       Spents, Commits, Fails DEF Next
<1> QED BY <1>1, <1>2

(* The tables, the calls in flight and the chain agree in every state. *)
THEOREM StoreInvariant == Spec => []IInv
BY InitInv, NextInv, PTL DEF Spec

(* Whatever calls overlap and whatever expires or is announced again, a      *)
(* market keeps the candidate that its parameters are read from (promote and *)
(* purge in store.rs).                                                       *)
THEOREM CandidatesKept == Spec => []MarketKeepsCandidate
<1>1. IInv => MarketKeepsCandidate
    <2> SUFFICES ASSUME IInv PROVE MarketKeepsCandidate
        OBVIOUS
    <2>1. CandsOK(cands, lastId) /\ RowsOK(cands, rows)
        BY DEF IInv, StoreOK, TablesOK
    <2>2. now \in 0 .. MaxTime /\ tip \in 0 .. settled /\ settled \in 0 .. MaxHeight
        BY DEF IInv, ChainOK
    <2>3. block \in [Creations -> -1 .. tip]
        BY DEF IInv, ChainOK
    <2>4. \A m \in DOMAIN rows : rows[m].state \in States
        BY <2>1 DEF RowsOK
    <2>5. TypeOK
        BY <2>1, <2>2, <2>3, <2>4 DEF TypeOK, CandsOK, RowsOK
    <2> QED BY <2>1, <2>5 DEF MarketKeepsCandidate, RowsOK
<1> QED BY <1>1, StoreInvariant, PTL

(* What sync_wallet promotes is in that block for good, although it looked   *)
(* the candidates up without the lock while blocks were replaced.            *)
THEOREM PromotionsAreFinal == Spec => []PromotedIsIrreversible
<1>1. IInv => PromotedIsIrreversible
    BY DEF IInv, StoreOK, TablesOK, PromotedOK, Buried, PromotedIsIrreversible
<1> QED BY <1>1, StoreInvariant, PTL

(* The unspent outputs that the store offers for a market are one bundle, of *)
(* the state in the market's row.                                            *)
THEOREM TagsAreTrue == Spec => []TagsMatchState
<1>1. IInv => TagsMatchState
    <2> SUFFICES ASSUME IInv, NEW m \in DOMAIN rows
                 PROVE  LET tagged == {b \in DOMAIN utxos : utxos[b].market = m /\ ~utxos[b].spent}
                        IN  /\ Cardinality(tagged) <= 1
                            /\ \A b \in tagged : StateOf(b) = rows[m].state
        BY DEF TagsMatchState
    <2> DEFINE tagged == {b \in DOMAIN utxos : utxos[b].market = m /\ ~utxos[b].spent}
    <2>1. UtxosOK(rows, utxos, moves) /\ m # "none"
        BY StoreAssumption DEF IInv, StoreOK, TablesOK, RowsOK
    <2>2. \A a, b \in tagged : a = b
        BY <2>1 DEF UtxosOK
    <2>3. \A b \in tagged : StateOf(b) = rows[m].state
        BY <2>1 DEF UtxosOK, StateOf, StateIn
    <2>4. Cardinality(tagged) <= 1
        <3> HIDE DEF tagged
        <3>1. CASE tagged = {}
            BY <3>1, FS_EmptySet
        <3>2. CASE tagged # {}
            <4>1. PICK b : tagged = {b}
                BY <2>2, <3>2
            <4>2. Cardinality({b}) = 1
                BY FS_Singleton
            <4> QED BY <4>1, <4>2
        <3> QED BY <3>1, <3>2
    <2> QED BY <2>3, <2>4
<1> QED BY <1>1, StoreInvariant, PTL

(* A purge after queries that all succeeded takes no candidate whose         *)
(* creation was irreversible at the height the call read.                    *)
THEOREM ConfirmedAreKept == Spec => ConfirmedNotPurged
<1>1. IInv /\ [Next]_vars => [PurgesSpareConfirmed]_vars
    <2> SUFFICES ASSUME IInv, NEW s \in Syncs, SyncPurge(s), ~calls[s].skipped,
                        NEW i \in DOMAIN cands \ DOMAIN cands',
                        irreversible_confirmation_at(calls[s].best, block[cands[i].creation])
                 PROVE  FALSE
        BY DEF PurgesSpareConfirmed, PurgeSparesConfirmed
    <2>1. /\ calls[s].todo = {} /\ calls[s].ok = {}
          /\ CheckOK(calls[s], cands, lastId, now, block, settled)
        BY LockHolder DEF SyncPurge, AllPromoted
    <2>2. cands[i].promoted = 0 /\ cands[i].expires <= calls[s].now
        <3>1. ~(cands[i].promoted > 0 \/ cands[i].expires > calls[s].now)
            BY DEF SyncPurge, purge_expired_prediction_market_candidates
        <3>2. cands[i].promoted \in Nat /\ cands[i].expires \in Nat
            BY DEF IInv, StoreOK, TablesOK, CandsOK, Candidates
        <3>3. calls[s].now \in Nat
            BY <2>1 DEF CheckOK
        <3> QED BY <3>1, <3>2, <3>3
    <2> QED BY <2>1, <2>2 DEF CheckOK
<1> QED BY <1>1, StoreInvariant, PTL DEF Spec, ConfirmedNotPurged

(* The state that a sync commits for a market is one that the chain was in   *)
(* while the sync ran.                                                       *)
THEOREM CommitsWereSeen == Spec => SyncedFromChain
<1>1. IInv /\ [Next]_vars => [CommitsAreCurrent]_vars
    <2> SUFFICES ASSUME IInv, NEW s \in Syncs, SyncCommit(s), NEW m \in DOMAIN rows'
                 PROVE  \E b \in calls[s].seen : /\ b.of = cands[rows'[m].cand].creation
                                                 /\ StateOf(b) = rows'[m].state
        BY DEF CommitsAreCurrent, CommitIsCurrent
    <2> DEFINE w == calls[s]
    <2>1. WorkOK(w, cands, rows, lastId, block, settled, moves, path) /\ ScanOK(w, moves)
        BY ScanningCall DEF SyncCommit, Scanning
    <2>2. w.todo = {} /\ rows' = w.rows
        BY DEF SyncCommit, IInv, CallsOK, CallOK
    <2>3. SeenAs(w, m, moves)
        BY <2>1, <2>2 DEF ScanOK
    <2>4. w.cands[w.rows[m].cand].creation = cands[w.rows[m].cand].creation
        BY <2>1, <2>2 DEF WorkOK, TablesOK, RowsOK, SameCands
    <2> QED BY <2>2, <2>3, <2>4 DEF SeenAs, StateOf, StateIn
<1> QED BY <1>1, StoreInvariant, PTL DEF Spec, SyncedFromChain

=============================================================================
