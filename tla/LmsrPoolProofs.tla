---------------------------- MODULE LmsrPoolProofs ----------------------------
(***************************************************************************)
(* Proofs about LmsrTable, LmsrPool and TradeExecution, for any table,      *)
(* depth and parameters of a pool, any wallets and any amounts.  Trades     *)
(* over orders and the pool implement the pool, so that its theorems hold   *)
(* of them.  And about LmsrPoolSync: what a node's sync of a pool keeps in  *)
(* the store, for every number of transitions, blocks and announcements.    *)
(***************************************************************************)
EXTENDS TradeExecution, LmsrPoolSync, SumTheorems

-----------------------------------------------------------------------------
(* Powers of two.                                                           *)

PowDef(f, n) == [m \in 0 .. n |-> IF m = 0 THEN 1 ELSE 2 * f[m - 1]]

(* The recursion has a solution on every prefix of the naturals. *)
LEMMA PowPrefix == \A n \in Nat : \E f : f = PowDef(f, n)
<1> DEFINE S == {n \in Nat : \E f : f = PowDef(f, n)}
<1>1. 0 \in S
    <2> DEFINE f == [m \in 0 .. 0 |-> 1]
    <2>1. f = PowDef(f, 0)
        BY DEF PowDef
    <2> QED
        BY <2>1
<1>2. ASSUME NEW n \in Nat, n \in S
      PROVE  n + 1 \in S
    <2>1. PICK f : f = PowDef(f, n)
        BY <1>2
    <2> DEFINE g == [m \in 0 .. n + 1 |-> IF m <= n THEN f[m] ELSE 2 * f[n]]
    <2>2. g = PowDef(g, n + 1)
        <3>1. \A m \in 0 .. n + 1 : g[m] = IF m = 0 THEN 1 ELSE 2 * g[m - 1]
            <4>1. \A m \in 0 .. n : f[m] = IF m = 0 THEN 1 ELSE 2 * f[m - 1]
                BY <2>1 DEF PowDef
            <4> QED
                BY <4>1
        <3> HIDE DEF g
        <3>2. g = [m \in 0 .. n + 1 |-> g[m]]
            BY DEF g
        <3> QED
            BY <3>1, <3>2 DEF PowDef
    <2> HIDE DEF g
    <2> QED
        BY <2>2
<1> HIDE DEF S
<1>3. Nat \subseteq S
    BY <1>1, <1>2, Induction
<1> QED
    BY <1>3 DEF S

(* What Pow2 computes. *)
LEMMA PowEquation ==
    Pow2 = [n \in 0 .. 63 |-> IF n = 0 THEN 1 ELSE 2 * Pow2[n - 1]]
<1>1. \E f : f = [n \in 0 .. 63 |-> IF n = 0 THEN 1 ELSE 2 * f[n - 1]]
    BY PowPrefix DEF PowDef
<1> QED
    BY <1>1 DEF Pow2

(* The two cases of it. *)
LEMMA PowStep ==
    Pow2[0] = 1 /\ \A n \in 1 .. 63 : Pow2[n] = 2 * Pow2[n - 1]
BY PowEquation

(* The same, upwards. *)
LEMMA PowNext == \A n \in 0 .. 62 : Pow2[n + 1] = 2 * Pow2[n]
<1> SUFFICES ASSUME NEW n \in 0 .. 62
             PROVE  Pow2[n + 1] = 2 * Pow2[n]
    OBVIOUS
<1>1. n + 1 \in 1 .. 63 /\ (n + 1) - 1 = n
    OBVIOUS
<1> QED
    BY <1>1, PowStep

(* Powers are positive. *)
LEMMA PowPositive == \A n \in 0 .. 63 : Pow2[n] \in Nat \ {0}
<1> DEFINE S == {n \in Nat : n <= 63 => Pow2[n] \in Nat \ {0}}
<1>1. 0 \in S
    BY PowStep
<1>2. \A n \in Nat : n \in S => n + 1 \in S
    <2> SUFFICES ASSUME NEW n \in Nat, n \in S, n + 1 <= 63
                 PROVE  Pow2[n + 1] \in Nat \ {0}
        OBVIOUS
    <2>1. Pow2[n + 1] = 2 * Pow2[n] /\ Pow2[n] \in Nat \ {0}
        BY PowStep
    <2> QED
        BY <2>1
<1> HIDE DEF S
<1>3. Nat \subseteq S
    BY <1>1, <1>2, Induction
<1> QED
    BY <1>3 DEF S

(* A power is the product of the powers of its parts. *)
LEMMA PowProduct ==
    \A n \in 0 .. 63 : \A d \in 0 .. n : Pow2[n] = Pow2[d] * Pow2[n - d]
<1> SUFFICES ASSUME NEW n \in 0 .. 63
             PROVE  \A d \in 0 .. n : Pow2[n] = Pow2[d] * Pow2[n - d]
    OBVIOUS
<1> DEFINE S == {d \in Nat : d <= n => Pow2[n] = Pow2[d] * Pow2[n - d]}
<1>1. 0 \in S
    BY PowStep, PowPositive
<1>2. \A d \in Nat : d \in S => d + 1 \in S
    <2> SUFFICES ASSUME NEW d \in Nat, d \in S, d + 1 <= n
                 PROVE  Pow2[n] = Pow2[d + 1] * Pow2[n - (d + 1)]
        OBVIOUS
    <2> DEFINE a == Pow2[d]
               b == Pow2[n - (d + 1)]
    <2>1. Pow2[d + 1] = 2 * a /\ Pow2[n - d] = 2 * b
        BY PowStep
    <2>2. a \in Nat /\ b \in Nat /\ Pow2[n] = a * Pow2[n - d]
        BY PowPositive
    <2> HIDE DEF a, b
    <2> QED
        BY <2>1, <2>2 DEF b
<1> HIDE DEF S
<1>3. Nat \subseteq S
    BY <1>1, <1>2, Induction
<1> QED
    BY <1>3 DEF S

-----------------------------------------------------------------------------
(* The levels of the tree and the climb along a proof.                      *)

LevelDef(f, n) ==
    [d \in 0 .. n |-> [j \in 0 .. Pow2[TableDepth - d] - 1 |->
        IF d = 0 THEN Leaf(j, Table[j]) ELSE Node(f[d - 1][2 * j], f[d - 1][2 * j + 1])]]

(* The recursion over the levels has a solution. *)
LEMMA LevelPrefix == \A n \in Nat : \E f : f = LevelDef(f, n)
<1> DEFINE At(f, d) == [j \in 0 .. Pow2[TableDepth - d] - 1 |->
                          IF d = 0 THEN Leaf(j, Table[j])
                                   ELSE Node(f[d - 1][2 * j], f[d - 1][2 * j + 1])]
           S == {n \in Nat : \E f : f = LevelDef(f, n)}
<1>1. 0 \in S
    <2> DEFINE f == [d \in 0 .. 0 |-> [j \in 0 .. Pow2[TableDepth - d] - 1 |-> Leaf(j, Table[j])]]
    <2>1. f = LevelDef(f, 0)
        BY DEF LevelDef
    <2> QED
        BY <2>1
<1>2. ASSUME NEW n \in Nat, n \in S
      PROVE  n + 1 \in S
    <2>1. PICK f : f = LevelDef(f, n)
        BY <1>2
    <2> DEFINE g == [d \in 0 .. n + 1 |-> IF d <= n THEN f[d] ELSE At(f, n + 1)]
    <2>2. \A d \in 0 .. n : f[d] = At(f, d)
        BY <2>1 DEF LevelDef
    <2>3. \A d \in 0 .. n + 1 : g[d] = At(g, d)
        <3>1. \A d \in 0 .. n : g[d] = f[d]
            OBVIOUS
        <3>2. g[n + 1] = At(f, n + 1)
            OBVIOUS
        <3> HIDE DEF g
        <3>3. \A d \in 0 .. n + 1 : d # 0 => g[d - 1] = f[d - 1]
            BY <3>1
        <3>4. \A d \in 0 .. n + 1 : At(g, d) = At(f, d)
            BY <3>3
        <3> HIDE DEF At
        <3>5. \A d \in 0 .. n + 1 : d \in 0 .. n \/ d = n + 1
            OBVIOUS
        <3> QED
            BY <2>2, <3>1, <3>2, <3>4, <3>5
    <2>4. g = LevelDef(g, n + 1)
        <3> HIDE DEF g
        <3>1. g = [d \in 0 .. n + 1 |-> g[d]]
            BY DEF g
        <3> QED
            BY <2>3, <3>1 DEF LevelDef
    <2> HIDE DEF g
    <2> QED
        BY <2>4
<1> HIDE DEF S
<1>3. Nat \subseteq S
    BY <1>1, <1>2, Induction
<1> QED
    BY <1>3 DEF S

(* What Level computes. *)
LEMMA LevelEquation == Level = LevelDef(Level, TableDepth)
<1>1. TableDepth \in Nat
    BY ParamsValid
<1>2. \E f : f = LevelDef(f, TableDepth)
    BY <1>1, LevelPrefix
<1> QED
    BY <1>2 DEF Level, LevelDef

(* Its leaves, and a node of a level above. *)
LEMMA LevelAt ==
    /\ \A j \in TableIndex : Level[0][j] = Leaf(j, Table[j])
    /\ \A d \in 1 .. TableDepth : \A j \in 0 .. Pow2[TableDepth - d] - 1 :
         Level[d][j] = Node(Level[d - 1][2 * j], Level[d - 1][2 * j + 1])
<1>1. TableDepth \in 1 .. 63
    BY ParamsValid
<1>2. \A d \in 0 .. TableDepth :
        Level[d] = [j \in 0 .. Pow2[TableDepth - d] - 1 |->
                      IF d = 0 THEN Leaf(j, Table[j])
                               ELSE Node(Level[d - 1][2 * j], Level[d - 1][2 * j + 1])]
    BY <1>1, LevelEquation DEF LevelDef
<1>3. \A j \in TableIndex : Level[0][j] = Leaf(j, Table[j])
    <2>1. Level[0] = [j \in 0 .. Pow2[TableDepth] - 1 |-> Leaf(j, Table[j])]
        BY <1>1, <1>2
    <2> QED
        BY <2>1 DEF TableIndex
<1>4. ASSUME NEW d \in 1 .. TableDepth, NEW j \in 0 .. Pow2[TableDepth - d] - 1
      PROVE  Level[d][j] = Node(Level[d - 1][2 * j], Level[d - 1][2 * j + 1])
    <2>1. d \in 0 .. TableDepth /\ d # 0
        BY <1>1
    <2>2. Level[d] = [k \in 0 .. Pow2[TableDepth - d] - 1 |->
                        Node(Level[d - 1][2 * k], Level[d - 1][2 * k + 1])]
        BY <1>2, <2>1
    <2> QED
        BY <2>2
<1> QED
    BY <1>3, <1>4

ClimbDef(c, i, v, p, n) ==
    [d \in 0 .. n |->
        IF d = 0 THEN Leaf(i, v)
        ELSE IF p.path[d] THEN Node(p.siblings[d], c[d - 1]) ELSE Node(c[d - 1], p.siblings[d])]

(* So has the one along a proof. *)
LEMMA ClimbPrefix ==
    ASSUME NEW i, NEW v, NEW p
    PROVE  \A n \in Nat : \E c : c = ClimbDef(c, i, v, p, n)
<1> DEFINE At(c, d) == IF d = 0 THEN Leaf(i, v)
                       ELSE IF p.path[d] THEN Node(p.siblings[d], c[d - 1])
                                         ELSE Node(c[d - 1], p.siblings[d])
           S == {n \in Nat : \E c : c = ClimbDef(c, i, v, p, n)}
<1>1. 0 \in S
    <2> DEFINE c == [d \in 0 .. 0 |-> Leaf(i, v)]
    <2>1. c = ClimbDef(c, i, v, p, 0)
        BY DEF ClimbDef
    <2> QED
        BY <2>1
<1>2. ASSUME NEW n \in Nat, n \in S
      PROVE  n + 1 \in S
    <2>1. PICK c : c = ClimbDef(c, i, v, p, n)
        BY <1>2
    <2> DEFINE g == [d \in 0 .. n + 1 |-> IF d <= n THEN c[d] ELSE At(c, n + 1)]
    <2>2. \A d \in 0 .. n : c[d] = At(c, d)
        BY <2>1 DEF ClimbDef
    <2>3. \A d \in 0 .. n + 1 : g[d] = At(g, d)
        BY <2>2
    <2>4. g = ClimbDef(g, i, v, p, n + 1)
        <3> HIDE DEF g
        <3>1. g = [d \in 0 .. n + 1 |-> g[d]]
            BY DEF g
        <3> QED
            BY <2>3, <3>1 DEF ClimbDef
    <2> HIDE DEF g
    <2> QED
        BY <2>4
<1> HIDE DEF S
<1>3. Nat \subseteq S
    BY <1>1, <1>2, Induction
<1> QED
    BY <1>3 DEF S

(* What ProofRoot computes. *)
LEMMA ClimbEquation ==
    ASSUME NEW i, NEW v, NEW p
    PROVE  \E c : c = ClimbDef(c, i, v, p, TableDepth) /\ ProofRoot(i, v, p) = c[TableDepth]
<1>1. TableDepth \in Nat
    BY ParamsValid
<1>2. \E c : c = ClimbDef(c, i, v, p, TableDepth)
    BY <1>1, ClimbPrefix
<1> DEFINE c == CHOOSE c : c = ClimbDef(c, i, v, p, TableDepth)
<1>3. c = ClimbDef(c, i, v, p, TableDepth)
    BY <1>2
<1>4. ProofRoot(i, v, p) = c[TableDepth]
    BY DEF ProofRoot, ClimbDef
<1> QED
    BY <1>3, <1>4

-----------------------------------------------------------------------------
(* The commitment.                                                          *)

(* The commitment binds: whatever proof a witness brings, the covenant opens *)
(* an index to a value only if the table has that value there.               *)
THEOREM TableBinds ==
    ASSUME NEW i, NEW v, NEW p, CovenantOpens(i, v, p)
    PROVE  i \in TableIndex /\ v = Table[i]
<1> DEFINE D == TableDepth
<1>0. D \in 1 .. 63
    BY ParamsValid
<1>1. PICK c : c = ClimbDef(c, i, v, p, D) /\ ProofRoot(i, v, p) = c[D]
    BY ClimbEquation
<1>2. \A d \in 1 .. D : c[d] = (IF p.path[d] THEN Node(p.siblings[d], c[d - 1])
                                              ELSE Node(c[d - 1], p.siblings[d]))
    BY <1>0, <1>1 DEF ClimbDef
<1>3. \A d \in 1 .. D : \A j \in 0 .. Pow2[D - d] - 1 :
        Level[d][j] = Node(Level[d - 1][2 * j], Level[d - 1][2 * j + 1])
    BY LevelAt
<1> DEFINE S == {k \in Nat : k <= D => \E j \in 0 .. Pow2[k] - 1 : c[D - k] = Level[D - k][j]}
<1>4. 0 \in S
    <2>1. c[D] = Level[D][0]
        BY <1>1 DEF CovenantOpens, lmsr_table_root
    <2> QED
        BY <1>0, <2>1, PowStep
<1>5. \A k \in Nat : k \in S => k + 1 \in S
    <2> SUFFICES ASSUME NEW k \in Nat, k \in S, k + 1 <= D
                 PROVE  \E j \in 0 .. Pow2[k + 1] - 1 : c[D - (k + 1)] = Level[D - (k + 1)][j]
        OBVIOUS
    <2>1. PICK j \in 0 .. Pow2[k] - 1 : c[D - k] = Level[D - k][j]
        BY <1>0
    <2> DEFINE d == D - k
    <2> HIDE DEF S
    <2>2. d \in 1 .. D /\ D - d = k /\ D - (k + 1) = d - 1
        BY <1>0
    <2>3. Level[d][j] = Node(Level[d - 1][2 * j], Level[d - 1][2 * j + 1])
        BY <1>3, <2>2
    <2>a. c[d] = (IF p.path[d] THEN Node(p.siblings[d], c[d - 1])
                               ELSE Node(c[d - 1], p.siblings[d]))
        BY <1>2, <2>2
    <2>b. c[d] = Level[d][j]
        BY <2>1
    <2> HIDE DEF d
    <2>4. c[d - 1] = Level[d - 1][2 * j] \/ c[d - 1] = Level[d - 1][2 * j + 1]
        <3>1. CASE p.path[d]
            BY <2>3, <2>a, <2>b, <3>1 DEF Node
        <3>2. CASE ~p.path[d]
            BY <2>3, <2>a, <2>b, <3>2 DEF Node
        <3> QED
            BY <3>1, <3>2
    <2>5. Pow2[k + 1] = 2 * Pow2[k] /\ Pow2[k] \in Nat
        <3>1. k \in 0 .. 62 /\ k \in 0 .. 63
            BY <1>0
        <3> QED
            BY <3>1, PowNext, PowPositive
    <2>6. 2 * j \in 0 .. Pow2[k + 1] - 1 /\ 2 * j + 1 \in 0 .. Pow2[k + 1] - 1
        BY <2>5
    <2> QED
        BY <2>2, <2>4, <2>6
<1> HIDE DEF S
<1>6. D \in S
    BY <1>0, <1>4, <1>5, Induction
<1>7. PICK j \in 0 .. Pow2[D] - 1 : c[0] = Level[0][j]
    BY <1>0, <1>6 DEF S
<1>8. j \in TableIndex
    BY <1>7 DEF TableIndex
<1>9. c[0] = Leaf(i, v) /\ Level[0][j] = Leaf(j, Table[j])
    BY <1>0, <1>1, <1>8, LevelAt DEF ClimbDef
<1>10. i = j /\ v = Table[j]
    <2>1. Leaf(i, v) = Leaf(j, Table[j])
        BY <1>7, <1>9
    <2> QED
        BY <2>1 DEF Leaf
<1> QED
    BY <1>8, <1>10

(* Halving a position goes one level up. *)
LEMMA Halve ==
    ASSUME NEW i \in Nat, NEW a \in Nat \ {0}
    PROVE  /\ i \div (2 * a) = (i \div a) \div 2
           /\ i \div a \in Nat /\ i \div (2 * a) \in Nat
           /\ (i \div a) % 2 = 1 => i \div a = 2 * (i \div (2 * a)) + 1
           /\ (i \div a) % 2 # 1 => i \div a = 2 * (i \div (2 * a))
<1> DEFINE q == i \div a
           h == q \div 2
<1>1. q \in Nat /\ a * q <= i /\ i < a * q + a
    OBVIOUS
<1>2. h \in Nat /\ (q = 2 * h \/ q = 2 * h + 1) /\ (q % 2 = 1 <=> q = 2 * h + 1)
    BY <1>1
<1> HIDE DEF q, h
<1>3. (2 * a) * h <= i /\ i < (2 * a) * h + 2 * a
    <2>1. CASE q = 2 * h
        <3>1. a * q = (2 * a) * h
            BY <1>2, <2>1
        <3> QED
            BY <1>1, <1>2, <3>1
    <2>2. CASE q = 2 * h + 1
        <3>1. a * q = (2 * a) * h + a
            BY <1>2, <2>2
        <3> QED
            BY <1>1, <1>2, <3>1
    <2> QED
        BY <1>2, <2>1, <2>2
<1>4. i \div (2 * a) = h
    <2> DEFINE b == 2 * a
    <2>1. b \in Nat \ {0} /\ b * h <= i /\ i < b * h + b
        BY <1>3
    <2> HIDE DEF b
    <2>2. i \div b = h
        BY <1>2, <2>1
    <2> QED
        BY <2>2 DEF b
<1> QED
    BY <1>1, <1>2, <1>4 DEF q, h

(* The commitment is complete: the proof that proof_at makes for an index opens *)
(* it, in the builder's check and in the covenant's.                           *)
THEOREM TableOpens ==
    ASSUME NEW i \in TableIndex
    PROVE  CovenantOpens(i, Table[i], proof_at(i)) /\ verify_lmsr_table_proof(i, Table[i], proof_at(i))
<1> DEFINE D == TableDepth
           p == proof_at(i)
<1>a. D \in 1 .. 63
    BY ParamsValid
<1>b. Pow2[D] \in Nat
    BY <1>a, PowPositive
<1>0. D \in 1 .. 63 /\ i \in Nat /\ i < Pow2[D]
    BY <1>a, <1>b DEF TableIndex
<1>1. PICK c : c = ClimbDef(c, i, Table[i], p, D) /\ ProofRoot(i, Table[i], p) = c[D]
    BY ClimbEquation
<1>2. \A d \in 1 .. D : c[d] = (IF p.path[d] THEN Node(p.siblings[d], c[d - 1])
                                              ELSE Node(c[d - 1], p.siblings[d]))
    BY <1>0, <1>1 DEF ClimbDef
<1>3. \A d \in 1 .. D : \A j \in 0 .. Pow2[D - d] - 1 :
        Level[d][j] = Node(Level[d - 1][2 * j], Level[d - 1][2 * j + 1])
    BY LevelAt
<1> DEFINE pos(d) == i \div Pow2[d]
<1>4. \A d \in 1 .. D : /\ p.path[d] = (pos(d - 1) % 2 = 1)
                         /\ p.siblings[d] = Level[d - 1][IF pos(d - 1) % 2 = 1 THEN pos(d - 1) - 1
                                                                             ELSE pos(d - 1) + 1]
    BY DEF proof_at, Proofs, PathBit
<1> HIDE DEF p
<1> DEFINE S == {d \in Nat : d <= D => c[d] = Level[d][pos(d)]}
<1>5. 0 \in S
    <2>1. pos(0) = i
        BY <1>0, PowStep
    <2>2. c[0] = Leaf(i, Table[i])
        BY <1>0, <1>1 DEF ClimbDef
    <2>3. Level[0][i] = Leaf(i, Table[i])
        BY LevelAt
    <2> QED
        BY <2>1, <2>2, <2>3
<1>6. \A d \in Nat : d \in S => d + 1 \in S
    <2> SUFFICES ASSUME NEW d \in Nat, d \in S, d + 1 <= D
                 PROVE  c[d + 1] = Level[d + 1][pos(d + 1)]
        OBVIOUS
    <2> DEFINE a == Pow2[d]
               j == pos(d + 1)
    <2>0. d \in 0 .. 62 /\ d \in 0 .. 63 /\ d + 1 \in 0 .. 63 /\ D - (d + 1) \in 0 .. 63
        BY <1>0
    <2>1. a \in Nat \ {0} /\ Pow2[d + 1] = 2 * a
        BY <2>0, PowNext, PowPositive
    <2>2. /\ j \in Nat /\ pos(d) \in Nat
          /\ pos(d) % 2 = 1 => pos(d) = 2 * j + 1
          /\ pos(d) % 2 # 1 => pos(d) = 2 * j
        BY <1>0, <2>1, Halve
    <2>3. j \in 0 .. Pow2[D - (d + 1)] - 1
        <3> DEFINE x == Pow2[d + 1]
                   y == Pow2[D - (d + 1)]
        <3>1. x \in Nat \ {0} /\ y \in Nat \ {0} /\ Pow2[D] = x * y
            <4>1. D \in 0 .. 63 /\ d + 1 \in 0 .. D
                BY <1>0
            <4> QED
                BY <2>0, <4>1, PowPositive, PowProduct
        <3> HIDE DEF x, y
        <3>2. x * j <= i
            BY <1>0, <3>1 DEF x
        <3> HIDE DEF j
        <3>3. j < y
            BY <1>0, <2>2, <3>1, <3>2
        <3> QED
            BY <2>2, <3>1, <3>3 DEF y
    <2>4. Level[d + 1][j] = Node(Level[d][2 * j], Level[d][2 * j + 1])
        BY <1>0, <1>3, <2>3
    <2>5. c[d + 1] = (IF p.path[d + 1] THEN Node(p.siblings[d + 1], c[d])
                                      ELSE Node(c[d], p.siblings[d + 1]))
        BY <1>0, <1>2
    <2>6. /\ p.path[d + 1] = (pos(d) % 2 = 1)
          /\ p.siblings[d + 1] = Level[d][IF pos(d) % 2 = 1 THEN pos(d) - 1 ELSE pos(d) + 1]
        BY <1>0, <1>4
    <2>7. c[d] = Level[d][pos(d)]
        BY <1>0
    <2> DEFINE q == pos(d)
    <2>8. CASE q % 2 = 1
        <3>1. q = 2 * j + 1 /\ q - 1 = 2 * j
            BY <2>2, <2>8
        <3>2. p.path[d + 1] /\ p.siblings[d + 1] = Level[d][q - 1]
            BY <2>6, <2>8
        <3>3. c[d + 1] = Node(Level[d][q - 1], Level[d][q])
            BY <2>5, <2>7, <3>2
        <3> HIDE DEF j, q
        <3> QED
            BY <2>4, <3>1, <3>3 DEF j
    <2>9. CASE q % 2 # 1
        <3>1. q = 2 * j /\ q + 1 = 2 * j + 1
            BY <2>2, <2>9
        <3>2. ~p.path[d + 1] /\ p.siblings[d + 1] = Level[d][q + 1]
            BY <2>6, <2>9
        <3>3. c[d + 1] = Node(Level[d][q], Level[d][q + 1])
            BY <2>5, <2>7, <3>2
        <3> HIDE DEF j, q
        <3> QED
            BY <2>4, <3>1, <3>3 DEF j
    <2> QED
        BY <2>8, <2>9
<1> HIDE DEF S
<1>7. D \in S
    BY <1>0, <1>5, <1>6, Induction
<1>8. pos(D) = 0
    <2> DEFINE a == Pow2[D]
    <2>1. a \in Nat \ {0} /\ i < a
        BY <1>0, PowPositive
    <2> HIDE DEF a
    <2>2. i \div a = 0
        BY <1>0, <2>1
    <2> QED
        BY <2>2 DEF a
<1>9. ProofRoot(i, Table[i], p) = lmsr_table_root
    BY <1>0, <1>1, <1>7, <1>8 DEF S, lmsr_table_root
<1> QED
    BY <1>9 DEF p, CovenantOpens, verify_lmsr_table_proof

-----------------------------------------------------------------------------
(* Quotes.                                                                  *)

(* A bounded set of naturals that holds something has a maximum. *)
LEMMA Maximum ==
    ASSUME NEW T \in SUBSET Nat, T # {}, NEW b \in Nat, \A n \in T : n <= b
    PROVE  Max(T) \in T
<1> DEFINE U == {m \in Nat : \E n \in T : m = b - n}
<1>1. U \subseteq Nat /\ U # {}
    <2>1. PICK n \in T : TRUE
        OBVIOUS
    <2>2. b - n \in U
        BY <2>1
    <2> QED
        BY <2>2
<1>2. PICK m \in U : \A k \in U : m <= k
    BY <1>1, LeastElement
<1>3. PICK n \in T : m = b - n
    BY <1>2
<1>4. \A k \in T : n >= k
    <2> SUFFICES ASSUME NEW k \in T
                 PROVE  n >= k
        OBVIOUS
    <2>1. b - k \in U
        OBVIOUS
    <2>2. m <= b - k
        BY <1>2, <2>1
    <2> HIDE DEF U
    <2> QED
        BY <1>3, <2>2
<1>5. \E x \in T : \A y \in T : x >= y
    BY <1>4
<1> QED
    BY <1>5 DEF Max

(* A quote for an exact input is the quote of a move inside the table that  *)
(* every check of quote_from_table passed.                                  *)
LEMMA QuoteIsMove ==
    ASSUME NEW kind \in Kinds, NEW s \in 0 .. SMaxIndex, NEW input \in Nat,
           quote_exact_input(kind, s, input).tag = "ok"
    PROVE  \E new \in 0 .. SMaxIndex :
             /\ quote_exact_input(kind, s, input).quote = Quote(kind, s, new)
             /\ QuoteOk(kind, s, new)
<1> DEFINE steps == 1 .. MaxSteps(kind, s, input)
           q(n) == Quote(kind, s, Step(kind, s, n))
           fits == {n \in steps : IF is_buy(kind) THEN q(n).collateral <= input
                                                  ELSE q(n).lots <= input}
           byIndex == IF requires_increasing_index(kind) THEN SMaxIndex - s ELSE s
<1>1. SMaxIndex \in Nat /\ QStepLots \in Nat \ {0}
    BY ParamsValid DEF TableIndex
<1>2. byIndex \in Nat
    BY <1>1
<1>3. MaxSteps(kind, s, input) \in Nat /\ MaxSteps(kind, s, input) <= byIndex
    <2>1. input \div QStepLots \in Nat
        BY <1>1
    <2> HIDE DEF byIndex
    <2>2. \A a, b \in Nat : Min({a, b}) \in Nat /\ Min({a, b}) <= a
        <3> SUFFICES ASSUME NEW a \in Nat, NEW b \in Nat
                     PROVE  Min({a, b}) \in Nat /\ Min({a, b}) <= a
            OBVIOUS
        <3>1. \E x \in {a, b} : \A y \in {a, b} : x =< y
            OBVIOUS
        <3> QED
            BY <3>1 DEF Min
    <2> QED
        BY <1>2, <2>1, <2>2 DEF MaxSteps, byIndex
<1>4. /\ quote_exact_input(kind, s, input).quote = q(Max(fits))
      /\ fits # {} /\ \A n \in steps : QuoteOk(kind, s, Step(kind, s, n))
    BY DEF quote_exact_input
<1> HIDE DEF q
<1>5. fits \in SUBSET Nat /\ \A n \in fits : n <= byIndex /\ n \in steps
    BY <1>2, <1>3
<1> HIDE DEF fits
<1>6. Max(fits) \in fits
    BY <1>2, <1>4, <1>5, Maximum
<1> DEFINE n == Max(fits)
           new == Step(kind, s, n)
<1> HIDE DEF n, byIndex
<1>7. n \in 1 .. byIndex /\ n \in steps
    <2>1. n \in steps /\ n <= byIndex
        BY <1>5, <1>6 DEF n
    <2> QED
        BY <1>2, <1>3, <2>1
<1>8. new \in 0 .. SMaxIndex
    BY <1>1, <1>7 DEF Step, byIndex
<1> QED
    BY <1>4, <1>7, <1>8 DEF q, n

(* What a trader pays and gets satisfies the covenant's fee inequalities,   *)
(* although it is rounded.                                                  *)
LEMMA FeesCovered ==
    ASSUME NEW base \in Nat
    PROVE  /\ min_collateral_in(base) \in Nat /\ max_collateral_out(base) \in Nat
           /\ min_collateral_in(base) * (FEE_DENOM - FeeBps) >= base * FEE_DENOM
           /\ max_collateral_out(base) * FEE_DENOM <= base * (FEE_DENOM - FeeBps)
<1> DEFINE c == FEE_DENOM - FeeBps
           D == FEE_DENOM
<1>1. c \in Nat \ {0} /\ D \in Nat \ {0}
    BY ParamsValid DEF FEE_DENOM
<1> HIDE DEF c, D
<1>2. \A a \in Nat, b \in Nat \ {0} :
        a \div b \in Nat /\ (a \div b) * b <= a /\ a < (a \div b) * b + b
    OBVIOUS
<1> DEFINE a == base * D + (c - 1)
           x == a \div c
           e == base * c
           y == e \div D
<1>3. a \in Nat /\ e \in Nat /\ base * D \in Nat
    BY <1>1
<1>4. x \in Nat /\ x * c <= a /\ a < x * c + c
    <2> HIDE DEF a
    <2> QED
        BY <1>1, <1>2, <1>3
<1>5. y \in Nat /\ y * D <= e
    <2> HIDE DEF e
    <2> QED
        BY <1>1, <1>2, <1>3
<1>6. x * c >= base * D
    <2> DEFINE xc == x * c
               bd == base * D
    <2>1. xc \in Nat /\ bd \in Nat /\ bd + (c - 1) < xc + c
        BY <1>1, <1>3, <1>4
    <2> HIDE DEF xc, bd, x
    <2>2. xc >= bd
        BY <1>1, <2>1
    <2> QED
        BY <2>2 DEF xc, bd
<1>7. min_collateral_in(base) = x /\ max_collateral_out(base) = y
    BY DEF min_collateral_in, max_collateral_out, c, D
<1> HIDE DEF x, y
<1> QED
    BY <1>4, <1>5, <1>6, <1>7 DEF c, D, e

-----------------------------------------------------------------------------
(* The pool's inductive invariant.                                          *)

Lots(leg) == Gap(leg.new, leg.old) * QStepLots
Base(leg) == base_notional(is_buy(leg.kind), Lots(leg) * HalfPayout, leg.fOld, leg.fNew)

\* A swap's leg is a quote of the table.
Priced(leg) ==
    /\ validate_direction(leg.kind, leg.old, leg.new)
    /\ leg.deltaOut > 0 /\ Lots(leg) * HalfPayout <= U64Max
    /\ Base(leg) \in 0 .. U64Max /\ FeeHolds(leg, Base(leg))
    /\ (IF is_buy(leg.kind) THEN leg.deltaOut ELSE leg.deltaIn) = Lots(leg)

\* What a wallet has built, whatever happened to the pool since.
LegOK(leg) ==
    /\ leg \in Legs
    /\ leg.old \in 0 .. SMaxIndex /\ leg.new \in 0 .. SMaxIndex
    /\ leg.fOld = Table[leg.old] /\ leg.oldProof = proof_at(leg.old)
    /\ leg.fNew = Table[leg.new] /\ leg.newProof = proof_at(leg.new)
    /\ leg.path = "swap" => /\ Priced(leg) /\ leg.balanced
                            /\ leg.phase = "built" => leg.next = SwapReserves(leg, leg.was)
    /\ leg.path = "admin" =>
         /\ leg.phase = "built" /\ leg.old = leg.new
         /\ leg.signature = compute_lmsr_admin_signature(cosigner_pubkey, leg.new, leg.was, leg.next)

\* While the bundle it read is live, it is as the wallet read it.
FreshOK(leg) ==
    /\ leg.bundle <= txs
    /\ leg.bundle = bundle => leg.old = sIndex /\ leg.was = reserves

PoolInv ==
    /\ TypeOK
    /\ \A w \in Wallets : pending[w] # Idle => created /\ LegOK(pending[w]) /\ FreshOK(pending[w])
    /\ ReservesFollowIndex

-----------------------------------------------------------------------------
(* What is built.                                                           *)

(* Constants that every step needs. *)
LEMMA PoolConstants ==
    /\ SMaxIndex \in Nat /\ QStepLots \in Nat \ {0} /\ HalfPayout \in Nat \ {0}
    /\ U64Max \in Nat
    /\ 0 .. SMaxIndex \subseteq TableIndex
    /\ \A i \in 0 .. SMaxIndex : Table[i] \in Nat /\ Table[i] \in TableValues /\ proof_at(i) \in TableProofs
<1>1. TableIndex \subseteq Nat /\ SMaxIndex \in Nat /\ 0 .. SMaxIndex \subseteq TableIndex
    <2>1. Pow2[TableDepth] \in Nat
        BY ParamsValid, PowPositive
    <2> QED
        BY <2>1, ParamsValid DEF TableIndex
<1>2. \A i \in TableIndex : Table[i] \in Nat
    BY ParamsValid
<1> QED
    BY <1>1, <1>2, ParamsValid DEF TableValues, TableProofs

(* A leg that is not idle is a record of Legs. *)
LEMMA LegTyped ==
    ASSUME TypeOK, NEW w \in Wallets, pending[w] # Idle
    PROVE  pending[w] \in Legs
BY DEF TypeOK

(* What QuoteSwap builds. *)
LEMMA SwapLegOK ==
    ASSUME TypeOK, NEW w \in Wallets, NEW kind \in Kinds, NEW input \in Inputs,
           NEW quote, quote = Quotes[kind][sIndex][input], quote.tag = "ok",
           SwapLeg(w, quote.quote).deltaOut > 0
    PROVE  LegOK(SwapLeg(w, quote.quote)) /\ FreshOK(SwapLeg(w, quote.quote))
<1>1. quote = quote_exact_input(kind, sIndex, input)
    <2>1. sIndex \in 0 .. SMaxIndex
        BY DEF TypeOK
    <2> QED
        BY <2>1 DEF Quotes
<1>2. sIndex \in 0 .. SMaxIndex /\ input \in Nat /\ reserves \in ReserveSet
      /\ bundle \in Nat /\ txs \in Nat /\ bundle <= txs
    <2>1. input \in Nat /\ MaxTxs \in Nat
        BY PoolAssumption
    <2> QED
        BY <2>1 DEF TypeOK
<1>3. PICK new \in 0 .. SMaxIndex :
        /\ quote_exact_input(kind, sIndex, input).quote = Quote(kind, sIndex, new)
        /\ QuoteOk(kind, sIndex, new)
    BY <1>1, <1>2, QuoteIsMove
<1> DEFINE q == Quote(kind, sIndex, new)
           leg == SwapLeg(w, q)
           lots == compute_traded_lots(sIndex, new)
           base == base_notional(is_buy(kind), lots * HalfPayout, Table[sIndex], Table[new])
<1>4. /\ q.kind = kind /\ q.old = sIndex /\ q.new = new /\ q.lots = lots /\ q.base = base
      /\ q.collateral = IF is_buy(kind) THEN min_collateral_in(base) ELSE max_collateral_out(base)
    BY DEF Quote
<1>5. /\ leg.phase = "quoted" /\ leg.path = "swap" /\ leg.kind = kind /\ leg.bundle = bundle
      /\ leg.old = sIndex /\ leg.new = new
      /\ leg.fOld = Table[sIndex] /\ leg.fNew = Table[new]
      /\ leg.oldProof = proof_at(sIndex) /\ leg.newProof = proof_at(new)
      /\ leg.deltaIn = (IF is_buy(kind) THEN q.collateral ELSE lots)
      /\ leg.deltaOut = (IF is_buy(kind) THEN lots ELSE q.collateral)
      /\ leg.was = reserves /\ leg.balanced
    BY <1>4 DEF SwapLeg
<1>6. lots \in Nat /\ lots = Gap(new, sIndex) * QStepLots
    <2>1. new \in Nat /\ sIndex \in Nat
        BY <1>2, <1>3, PoolConstants
    <2>2. Gap(new, sIndex) = Gap(sIndex, new) /\ Gap(new, sIndex) \in Nat
        BY <2>1 DEF Gap
    <2> QED
        BY <2>2, PoolConstants DEF compute_traded_lots
<1>7. /\ validate_direction(kind, sIndex, new) /\ lots * HalfPayout <= U64Max /\ base \in 0 .. U64Max
    BY <1>3, <1>4 DEF QuoteOk
<1>8. base \in Nat /\ q.collateral \in Nat
    <2> HIDE DEF base
    <2>1. base \in Nat
        BY <1>7, PoolConstants
    <2> QED
        BY <1>4, <2>1, FeesCovered
<1>9. Lots(leg) = lots /\ Base(leg) = base
    BY <1>5, <1>6 DEF Lots, Base
<1>10. FeeHolds(leg, base)
    <2> HIDE DEF base, leg, q
    <2> QED
        BY <1>4, <1>5, <1>8, FeesCovered DEF FeeHolds
<1>11. leg \in Legs
    <2>1. NoSignature \in Signatures
        BY DEF Signatures
    <2> DEFINE in == IF is_buy(kind) THEN q.collateral ELSE lots
               out == IF is_buy(kind) THEN lots ELSE q.collateral
    <2>2. leg = [phase |-> "quoted", path |-> "swap", kind |-> kind, bundle |-> bundle,
                 old |-> sIndex, new |-> new, fOld |-> Table[sIndex], fNew |-> Table[new],
                 oldProof |-> proof_at(sIndex), newProof |-> proof_at(new),
                 deltaIn |-> in, deltaOut |-> out,
                 signature |-> NoSignature, was |-> reserves, next |-> reserves, balanced |-> TRUE]
        BY <1>4 DEF SwapLeg
    <2>3. in \in Nat /\ out \in Nat
        BY <1>6, <1>8
    <2>4. /\ sIndex \in TableIndex /\ new \in TableIndex
          /\ Table[sIndex] \in TableValues /\ Table[new] \in TableValues
          /\ proof_at(sIndex) \in TableProofs /\ proof_at(new) \in TableProofs
        BY <1>2, <1>3, PoolConstants
    <2> HIDE DEF leg, q, lots, base, in, out
    <2> QED
        BY <1>2, <2>1, <2>2, <2>3, <2>4 DEF Legs
<1>12. leg.deltaOut > 0
    BY <1>1, <1>3
<1>13. Priced(leg)
    <2> HIDE DEF leg, q, lots, base
    <2> QED
        BY <1>5, <1>7, <1>9, <1>10, <1>12 DEF Priced
<1>14. LegOK(leg) /\ FreshOK(leg)
    <2> HIDE DEF leg, q, lots, base
    <2> QED
        BY <1>2, <1>3, <1>5, <1>11, <1>13 DEF LegOK, FreshOK
<1> QED
    BY <1>1, <1>3, <1>14

(* What BuildSwap makes of it. *)
LEMMA BuiltOK ==
    ASSUME NEW leg, LegOK(leg), FreshOK(leg), leg.phase = "quoted", SwapBuilds(leg), leg.path = "swap"
    PROVE  LegOK(Built(leg)) /\ FreshOK(Built(leg))
<1> DEFINE b == Built(leg)
           r == SwapReserves(leg, leg.was)
<1>1. leg \in Legs
    BY DEF LegOK
<1>2. r \in ReserveSet
    <2>1. r.yes \in Nat /\ r.no \in Nat /\ r.collateral \in Nat
        BY PoolConstants DEF SwapBuilds, Fits
    <2>2. r = [yes |-> r.yes, no |-> r.no, collateral |-> r.collateral]
        BY DEF SwapReserves
    <2> HIDE DEF r
    <2> QED
        BY <2>1, <2>2 DEF ReserveSet
<1>3. b = [leg EXCEPT !.phase = "built", !.next = r]
    BY DEF Built
<1> HIDE DEF b
<1>4. b \in Legs
    <2> HIDE DEF r
    <2> QED
        BY <1>1, <1>2, <1>3 DEF Legs
<1>5. /\ b.path = leg.path /\ b.kind = leg.kind /\ b.bundle = leg.bundle /\ b.old = leg.old
      /\ b.new = leg.new /\ b.fOld = leg.fOld /\ b.fNew = leg.fNew /\ b.oldProof = leg.oldProof
      /\ b.newProof = leg.newProof /\ b.deltaIn = leg.deltaIn /\ b.deltaOut = leg.deltaOut
      /\ b.was = leg.was /\ b.balanced = leg.balanced /\ b.next = r
    <2> HIDE DEF r
    <2> QED
        BY <1>1, <1>3 DEF Legs
<1>6. Priced(b) /\ SwapReserves(b, b.was) = r
    BY <1>5 DEF LegOK, Priced, Lots, Base, FeeHolds, SwapReserves
<1> HIDE DEF r
<1>7. LegOK(b)
    BY <1>4, <1>5, <1>6 DEF LegOK
<1>8. FreshOK(b)
    BY <1>5 DEF FreshOK
<1> QED
    BY <1>7, <1>8 DEF b

(* What BuildAdjust builds. *)
LEMMA AdjustLegOK ==
    ASSUME TypeOK, NEW w \in Wallets, NEW next \in ReserveSet,
           derive_pool_admin_keypair(w) = cosigner_pubkey
    PROVE  LegOK(AdjustLeg(w, next)) /\ FreshOK(AdjustLeg(w, next))
<1> DEFINE leg == AdjustLeg(w, next)
           sig == compute_lmsr_admin_signature(derive_pool_admin_keypair(w), sIndex, reserves, next)
           balanced == AdjustBalanced(reserves, next)
<1>1. sIndex \in 0 .. SMaxIndex /\ reserves \in ReserveSet /\ bundle \in Nat /\ txs \in Nat
      /\ bundle <= txs
    BY PoolAssumption DEF TypeOK
<1>2. sig \in Signatures
    BY <1>1, PoolConstants DEF Signatures, compute_lmsr_admin_signature
<1>3. balanced \in BOOLEAN
    BY DEF AdjustBalanced
<1>4. leg = [phase |-> "built", path |-> "admin", kind |-> "BuyYes", bundle |-> bundle,
             old |-> sIndex, new |-> sIndex, fOld |-> Table[sIndex], fNew |-> Table[sIndex],
             oldProof |-> proof_at(sIndex), newProof |-> proof_at(sIndex),
             deltaIn |-> 0, deltaOut |-> 0, was |-> reserves, next |-> next,
             signature |-> sig, balanced |-> balanced]
    BY DEF AdjustLeg
<1>5. sig = compute_lmsr_admin_signature(cosigner_pubkey, sIndex, reserves, next)
    OBVIOUS
<1> HIDE DEF leg, sig, balanced
<1>6. leg \in Legs
    BY <1>1, <1>2, <1>3, <1>4, PoolConstants DEF Legs, Kinds
<1>7. /\ leg.phase = "built" /\ leg.path = "admin" /\ leg.bundle = bundle /\ leg.old = sIndex /\ leg.new = sIndex
      /\ leg.fOld = Table[sIndex] /\ leg.fNew = Table[sIndex]
      /\ leg.oldProof = proof_at(sIndex) /\ leg.newProof = proof_at(sIndex)
      /\ leg.was = reserves /\ leg.next = next /\ leg.signature = sig
    BY <1>4
<1>8. LegOK(leg) /\ FreshOK(leg)
    BY <1>1, <1>5, <1>6, <1>7 DEF LegOK, FreshOK
<1> QED
    BY <1>8 DEF leg

-----------------------------------------------------------------------------
(* What the covenant accepts.                                               *)

(* A swap's lots are the difference of the indices in tokens. *)
LEMMA LotsAreSteps ==
    ASSUME NEW old \in Nat, NEW new \in Nat
    PROVE  /\ Gap(new, old) * QStepLots \in Nat
           /\ new > old => Gap(new, old) * QStepLots = QStepLots * new - QStepLots * old
           /\ new < old => Gap(new, old) * QStepLots = QStepLots * old - QStepLots * new
<1> DEFINE Q == QStepLots
<1>1. Q \in Nat
    BY PoolConstants
<1> HIDE DEF Q
<1>2. CASE new > old
    BY <1>1, <1>2 DEF Gap, Q
<1>3. CASE new < old
    BY <1>1, <1>3 DEF Gap, Q
<1>4. CASE new = old
    BY <1>1, <1>4 DEF Gap, Q
<1> QED
    BY <1>2, <1>3, <1>4

(* The fee only ever adds to what a swap pays in and takes from what it pays *)
(* out.                                                                     *)
LEMMA FeeFavoursPool ==
    ASSUME NEW leg \in Legs, NEW base \in Nat, FeeHolds(leg, base)
    PROVE  IF is_buy(leg.kind) THEN leg.deltaIn >= base ELSE leg.deltaOut <= base
<1> DEFINE c == FEE_DENOM - FeeBps
           D == FEE_DENOM
<1>1. c \in Nat \ {0} /\ D \in Nat \ {0} /\ c <= D
    BY ParamsValid DEF FEE_DENOM
<1>2. leg.deltaIn \in Nat /\ leg.deltaOut \in Nat
    BY DEF Legs
<1>3. IF is_buy(leg.kind) THEN leg.deltaIn * c >= base * D ELSE leg.deltaOut * D <= base * c
    BY DEF FeeHolds
<1> HIDE DEF c, D
<1>4. ASSUME NEW x \in Nat, x * c >= base * D
      PROVE  x >= base
    <2>1. x * D >= x * c
        BY <1>1
    <2>2. x * D >= base * D
        BY <1>1, <1>4, <2>1
    <2> QED
        BY <1>1, <2>2
<1>5. ASSUME NEW y \in Nat, y * D <= base * c
      PROVE  y <= base
    <2>1. base * c <= base * D
        BY <1>1
    <2>2. y * D <= base * D
        BY <1>1, <1>5, <2>1
    <2> QED
        BY <1>1, <2>2
<1> QED
    BY <1>2, <1>3, <1>4, <1>5

(* Whoever built a leg: what the covenant accepts keeps tokens and index     *)
(* together, and a swap keeps the pool's value.                              *)
LEMMA CovenantKeeps ==
    ASSUME NEW leg \in Legs, NEW s \in 0 .. SMaxIndex, NEW in \in ReserveSet,
           lmsr_primary_main(leg, s, in, leg.next)
    PROVE  /\ leg.old = s /\ leg.new \in 0 .. SMaxIndex
           /\ Imbalance(leg.new, leg.next) = Imbalance(s, in)
           /\ leg.new # s => Value(leg.new, leg.next) >= Value(s, in)
<1> DEFINE out == leg.next
           new == leg.new
           Q == QStepLots
           H == HalfPayout
           lots == Gap(new, s) * Q
           F == Table[new] - Table[s]
<1>0. SMaxIndex \in Nat /\ Q \in Nat \ {0} /\ H \in Nat \ {0}
    BY PoolConstants
<1>1. leg.old = s
    BY DEF lmsr_primary_main, script_pubkey
<1>2. /\ leg.fOld = Table[s] /\ leg.fNew = Table[new] /\ new \in TableIndex
    BY <1>1, TableBinds DEF lmsr_primary_main
<1>3. new \in Nat /\ s \in Nat /\ new <= SMaxIndex /\ new \in 0 .. SMaxIndex
    <2>1. new \in Nat
        BY <1>2 DEF TableIndex
    <2> QED
        BY <1>0, <2>1 DEF lmsr_primary_main
<1>4. /\ in.yes \in Nat /\ in.no \in Nat /\ in.collateral \in Nat
      /\ out.yes \in Nat /\ out.no \in Nat /\ out.collateral \in Nat
      /\ leg.deltaIn \in Nat /\ leg.deltaOut \in Nat /\ leg.kind \in Kinds
    BY DEF Legs, ReserveSet
<1>5. F \in Int
    BY <1>3, PoolConstants
<1>6. lots \in Nat /\ (new > s => lots = Q * new - Q * s) /\ (new < s => lots = Q * s - Q * new)
    BY <1>3, LotsAreSteps
<1>7. CASE leg.path = "admin" /\ AdminPath(leg, in, out)
    <2>1. new = s /\ out.yes - in.yes = out.no - in.no
        BY <1>1, <1>7 DEF AdminPath
    <2>2. out.no - out.yes = in.no - in.yes
        BY <1>4, <2>1
    <2> QED
        BY <1>1, <1>3, <2>1, <2>2 DEF Imbalance
<1>8. CASE leg.path = "swap" /\ SwapPath(leg, in, out)
    <2> DEFINE base == base_notional(is_buy(leg.kind), lots * H, Table[s], Table[new])
    <2>1. /\ validate_direction(leg.kind, s, new) /\ base \in 0 .. U64Max
          /\ FeeHolds(leg, base) /\ SwapMoves(leg, in, out, lots)
        BY <1>1, <1>2, <1>8 DEF SwapPath
    <2>2. base \in Nat
        <3> HIDE DEF base
        <3> QED
            BY <2>1, PoolConstants
    <2>3. base = IF is_buy(leg.kind) THEN lots * H + F ELSE lots * H - F
        BY DEF base_notional
    <2>4. IF is_buy(leg.kind) THEN leg.deltaIn >= base ELSE leg.deltaOut <= base
        <3> HIDE DEF base
        <3> QED
            BY <2>1, <2>2, FeeFavoursPool
    <2> DEFINE m == lots * H
               qn == Q * new
               qs == Q * s
               ti == H * (in.yes + in.no)
               to == H * (out.yes + out.no)
    <2>5. m \in Nat /\ qn \in Nat /\ qs \in Nat /\ ti \in Nat /\ to \in Nat
        BY <1>0, <1>3, <1>4, <1>6
    <2>6. /\ Imbalance(new, out) = out.no - out.yes - qn /\ Imbalance(s, in) = in.no - in.yes - qs
          /\ Value(new, out) = out.collateral + to - Table[new]
          /\ Value(s, in) = in.collateral + ti - Table[s]
        BY DEF Imbalance, Value
    <2>7. Table[s] \in Nat /\ Table[new] \in Nat
        BY <1>3, PoolConstants
    <2>8. /\ requires_increasing_index(leg.kind) => lots = qn - qs
          /\ ~requires_increasing_index(leg.kind) => lots = qs - qn
        BY <1>6, <2>1 DEF validate_direction
    <2>9. \A x, y \in Nat : x + lots = y => H * x + m = H * y
        <3> SUFFICES ASSUME NEW x \in Nat
                     PROVE  H * x + m = H * (x + lots)
            OBVIOUS
        <3> HIDE DEF lots, H
        <3> QED
            BY <1>0, <1>6
    <2> HIDE DEF lots
    <2>a. CASE leg.kind = "BuyYes"
        <3>1. /\ out.yes + lots = in.yes /\ out.no = in.no /\ in.collateral + leg.deltaIn = out.collateral
            BY <2>1, <2>a DEF SwapMoves
        <3>2. (out.yes + out.no) + lots = in.yes + in.no
            BY <1>4, <1>6, <3>1
        <3>3. to + m = ti
            BY <1>4, <2>9, <3>2
        <3>4. leg.deltaIn >= m + F /\ lots = qn - qs
            BY <2>a, <2>3, <2>4, <2>8 DEF is_buy, requires_increasing_index
        <3> HIDE DEF m, qn, qs, ti, to
        <3> QED
            BY <1>1, <1>3, <1>4, <1>6, <2>5, <2>6, <2>7, <3>1, <3>3, <3>4
    <2>b. CASE leg.kind = "SellYes"
        <3>1. /\ in.yes + lots = out.yes /\ out.no = in.no /\ out.collateral + leg.deltaOut = in.collateral
            BY <2>1, <2>b DEF SwapMoves
        <3>2. (in.yes + in.no) + lots = out.yes + out.no
            BY <1>4, <1>6, <3>1
        <3>3. ti + m = to
            BY <1>4, <2>9, <3>2
        <3>4. leg.deltaOut <= m - F /\ lots = qs - qn
            BY <2>b, <2>3, <2>4, <2>8 DEF is_buy, requires_increasing_index
        <3> HIDE DEF m, qn, qs, ti, to
        <3> QED
            BY <1>1, <1>3, <1>4, <1>6, <2>5, <2>6, <2>7, <3>1, <3>3, <3>4
    <2>c. CASE leg.kind = "BuyNo"
        <3>1. /\ out.no + lots = in.no /\ out.yes = in.yes /\ in.collateral + leg.deltaIn = out.collateral
            BY <2>1, <2>c DEF SwapMoves
        <3>2. (out.yes + out.no) + lots = in.yes + in.no
            BY <1>4, <1>6, <3>1
        <3>3. to + m = ti
            BY <1>4, <2>9, <3>2
        <3>4. leg.deltaIn >= m + F /\ lots = qs - qn
            BY <2>c, <2>3, <2>4, <2>8 DEF is_buy, requires_increasing_index
        <3> HIDE DEF m, qn, qs, ti, to
        <3> QED
            BY <1>1, <1>3, <1>4, <1>6, <2>5, <2>6, <2>7, <3>1, <3>3, <3>4
    <2>d. CASE leg.kind = "SellNo"
        <3>1. /\ in.no + lots = out.no /\ out.yes = in.yes /\ out.collateral + leg.deltaOut = in.collateral
            BY <2>1, <2>d DEF SwapMoves
        <3>2. (in.yes + in.no) + lots = out.yes + out.no
            BY <1>4, <1>6, <3>1
        <3>3. ti + m = to
            BY <1>4, <2>9, <3>2
        <3>4. leg.deltaOut <= m - F /\ lots = qn - qs
            BY <2>d, <2>3, <2>4, <2>8 DEF is_buy, requires_increasing_index
        <3> HIDE DEF m, qn, qs, ti, to
        <3> QED
            BY <1>1, <1>3, <1>4, <1>6, <2>5, <2>6, <2>7, <3>1, <3>3, <3>4
    <2> QED
        BY <1>4, <2>a, <2>b, <2>c, <2>d DEF Kinds
<1> QED
    BY <1>7, <1>8 DEF lmsr_primary_main

-----------------------------------------------------------------------------
(* The steps.                                                               *)

(* A wallet's leg changes and the pool does not. *)
LEMMA LegStep ==
    ASSUME PoolInv, UNCHANGED poolVars, NEW w \in Wallets, NEW x,
           pending' = [pending EXCEPT ![w] = x],
           x = Idle \/ (created /\ LegOK(x) /\ FreshOK(x))
    PROVE  PoolInv'
<1>1. TypeOK'
    BY DEF PoolInv, TypeOK, poolVars, LegOK
<1>2. \A v \in Wallets : pending'[v] = IF v = w THEN x ELSE pending[v]
    BY DEF PoolInv, TypeOK
<1>3. \A leg : FreshOK(leg) => FreshOK(leg)'
    BY DEF poolVars, FreshOK
<1>4. \A v \in Wallets : pending'[v] # Idle => created' /\ LegOK(pending'[v]) /\ FreshOK(pending[v])'
    <2> SUFFICES ASSUME NEW v \in Wallets, pending'[v] # Idle
                 PROVE  created' /\ LegOK(pending'[v]) /\ FreshOK(pending[v])'
        OBVIOUS
    <2>1. created /\ LegOK(pending'[v]) /\ FreshOK(pending'[v])
        BY <1>2 DEF PoolInv
    <2> QED
        BY <2>1 DEF FreshOK, poolVars
<1>5. ReservesFollowIndex'
    BY DEF PoolInv, ReservesFollowIndex, Imbalance, poolVars
<1> QED
    BY <1>1, <1>4, <1>5 DEF PoolInv

(* The bootstrap, which no wallet can have read before. *)
LEMMA BootstrapStep ==
    ASSUME PoolInv, NEW b \in InitialBundles, create_lmsr_pool_bootstrap(b)
    PROVE  PoolInv'
<1>1. b.s \in TableIndex /\ b.reserves \in ReserveSet /\ b.s <= SMaxIndex
    BY PoolAssumption DEF Requests, create_lmsr_pool_bootstrap, validate_create_lmsr_pool_request
<1>2. b.s \in 0 .. SMaxIndex
    BY <1>1, PoolConstants DEF TableIndex
<1>3. \A w \in Wallets : pending'[w] = Idle
    BY DEF PoolInv, create_lmsr_pool_bootstrap
<1>4. TypeOK'
    BY <1>1, <1>2 DEF PoolInv, TypeOK, create_lmsr_pool_bootstrap
<1>5. ReservesFollowIndex'
    BY DEF create_lmsr_pool_bootstrap, ReservesFollowIndex, Imbalance
<1> QED
    BY <1>3, <1>4, <1>5 DEF PoolInv

(* A quote. *)
LEMMA QuoteSwapStep ==
    ASSUME PoolInv, NEW w \in Wallets, NEW kind \in Kinds, NEW input \in Inputs,
           QuoteSwap(w, kind, input)
    PROVE  PoolInv'
<1> DEFINE q == Quotes[kind][sIndex][input]
           leg == SwapLeg(w, q.quote)
<1>1. /\ created /\ q.tag = "ok" /\ leg.deltaOut > 0
      /\ pending' = [pending EXCEPT ![w] = leg] /\ UNCHANGED poolVars
    BY DEF QuoteSwap
<1>2. LegOK(leg) /\ FreshOK(leg)
    <2> HIDE DEF q
    <2> QED
        BY <1>1, SwapLegOK DEF PoolInv, q
<1> HIDE DEF leg
<1> QED
    BY <1>1, <1>2, LegStep

(* A transaction built from it. *)
LEMMA BuildSwapStep ==
    ASSUME PoolInv, NEW w \in Wallets, BuildSwap(w)
    PROVE  PoolInv'
<1> DEFINE leg == pending[w]
<1>1. /\ leg # Idle /\ leg.phase = "quoted" /\ SwapBuilds(leg)
      /\ pending' = [pending EXCEPT ![w] = Built(leg)] /\ UNCHANGED poolVars
    BY DEF BuildSwap
<1>2. created /\ LegOK(leg) /\ FreshOK(leg)
    BY <1>1 DEF PoolInv
<1>3. leg.path = "swap"
    BY <1>1, <1>2 DEF LegOK, Legs
<1>4. LegOK(Built(leg)) /\ FreshOK(Built(leg))
    BY <1>1, <1>2, <1>3, BuiltOK
<1> QED
    BY <1>1, <1>2, <1>4, LegStep

(* An adjustment, or a closing of the pool. *)
LEMMA BuildAdjustStep ==
    ASSUME PoolInv, NEW w \in Wallets, NEW next \in ReserveSet, BuildAdjust(w, next)
    PROVE  PoolInv'
<1>1. LegOK(AdjustLeg(w, next)) /\ FreshOK(AdjustLeg(w, next))
    BY AdjustLegOK DEF PoolInv, BuildAdjust
<1> QED
    BY <1>1, LegStep DEF BuildAdjust

(* A transaction lands: legs read before it are stale. *)
LEMMA LandsStep ==
    ASSUME PoolInv, NEW leg \in Legs, Lands(leg),
           pending' \in [Wallets -> Legs \union {Idle}],
           \A v \in Wallets : pending'[v] \in {pending[v], Idle}
    PROVE  PoolInv' /\ SwapKeepsValue
<1>1. /\ leg.old = sIndex /\ leg.new \in 0 .. SMaxIndex
      /\ Imbalance(leg.new, leg.next) = Imbalance(sIndex, reserves)
      /\ leg.new # sIndex => Value(leg.new, leg.next) >= Value(sIndex, reserves)
    BY CovenantKeeps DEF Lands, Accepts, PoolInv, TypeOK
<1>2. txs \in Nat /\ MaxTxs \in Nat /\ txs < MaxTxs /\ leg.next \in ReserveSet
    BY PoolAssumption DEF PoolInv, TypeOK, Lands, Legs
<1>3. TypeOK'
    BY <1>1, <1>2 DEF PoolInv, TypeOK, Lands
<1>4. ASSUME NEW v \in Wallets, pending'[v] # Idle
      PROVE  created' /\ LegOK(pending'[v]) /\ FreshOK(pending[v])'
    <2>1. pending'[v] = pending[v] /\ created /\ LegOK(pending[v]) /\ pending[v].bundle <= txs
        BY <1>4 DEF PoolInv, FreshOK
    <2>2. pending[v].bundle \in Nat
        BY <2>1 DEF LegOK, Legs
    <2> QED
        BY <1>2, <2>1, <2>2 DEF FreshOK, Lands
<1>5. ReservesFollowIndex'
    BY <1>1 DEF PoolInv, ReservesFollowIndex, Imbalance, Lands
<1>6. SwapKeepsValue
    BY <1>1 DEF SwapKeepsValue, Lands, Value
<1> QED
    BY <1>3, <1>4, <1>5, <1>6 DEF PoolInv

(* A wallet broadcasts. *)
LEMMA BroadcastStep ==
    ASSUME PoolInv, NEW w \in Wallets, broadcast_and_sync(w)
    PROVE  PoolInv' /\ SwapKeepsValue
<1>1. pending[w] \in Legs /\ Lands(pending[w]) /\ pending' = [pending EXCEPT ![w] = Idle]
    BY LegTyped DEF PoolInv, broadcast_and_sync
<1>2. pending \in [Wallets -> Legs \union {Idle}]
    BY DEF PoolInv, TypeOK
<1> QED
    BY <1>1, <1>2, LandsStep

(* A request ends. *)
LEMMA AbandonStep ==
    ASSUME PoolInv, NEW w \in Wallets, Abandon(w)
    PROVE  PoolInv'
BY LegStep DEF Abandon

(* Every step of the pool. *)
LEMMA PoolStep ==
    ASSUME PoolInv, [Next]_vars
    PROVE  PoolInv' /\ (UNCHANGED vars \/ SwapKeepsValue)
<1>1. CASE \E b \in InitialBundles : create_lmsr_pool_bootstrap(b)
    <2>1. txs' = txs
        BY <1>1 DEF create_lmsr_pool_bootstrap
    <2> QED
        BY <1>1, <2>1, BootstrapStep DEF SwapKeepsValue
<1>2. ASSUME NEW w \in Wallets,
             \/ \E kind \in Kinds, i \in Inputs : QuoteSwap(w, kind, i)
             \/ BuildSwap(w) \/ Abandon(w)
      PROVE  PoolInv' /\ SwapKeepsValue
    <2>1. txs' = txs
        BY <1>2 DEF QuoteSwap, BuildSwap, Abandon, poolVars
    <2> QED
        BY <1>2, <2>1, QuoteSwapStep, BuildSwapStep, AbandonStep DEF SwapKeepsValue
<1>3. ASSUME NEW w \in Wallets,
             (\E r \in AdjustReserves : BuildAdjust(w, r)) \/ close_lmsr_pool(w)
      PROVE  PoolInv' /\ SwapKeepsValue
    <2>1. PICK r \in ReserveSet : BuildAdjust(w, r)
        BY <1>3, PoolAssumption DEF close_lmsr_pool, FloorReserves, ReserveSet
    <2>2. txs' = txs
        BY <2>1 DEF BuildAdjust, poolVars
    <2> QED
        BY <2>1, <2>2, BuildAdjustStep DEF SwapKeepsValue
<1>4. ASSUME NEW w \in Wallets, broadcast_and_sync(w)
      PROVE  PoolInv' /\ SwapKeepsValue
    BY <1>4, BroadcastStep
<1>5. CASE UNCHANGED vars
    BY <1>5 DEF vars, PoolInv, TypeOK, FreshOK, ReservesFollowIndex, Imbalance
<1> QED
    BY <1>1, <1>2, <1>3, <1>4, <1>5 DEF Next

-----------------------------------------------------------------------------
(* The theorems.                                                            *)

(* The inductive invariant holds. *)
THEOREM PoolInvariant == Spec => []PoolInv
<1>1. Init => PoolInv
    <2> SUFFICES ASSUME Init
                 PROVE  PoolInv
        OBVIOUS
    <2>0. /\ SMaxIndex \in Nat /\ MaxTxs \in Nat /\ created \in BOOLEAN /\ reserves \in ReserveSet
          /\ sIndex = 0 /\ txs = 0 /\ bundle = 0
        BY PoolConstants, PoolAssumption DEF Init, ReserveSet
    <2>a. genesis \in [s : 0 .. SMaxIndex, reserves : ReserveSet]
        BY <2>0 DEF Init
    <2>b. pending \in [Wallets -> Legs \union {Idle}]
        BY DEF Init
    <2>1. TypeOK
        BY <2>0, <2>a, <2>b DEF TypeOK
    <2> QED
        BY <2>1 DEF Init, PoolInv, ReservesFollowIndex
<1>2. PoolInv /\ [Next]_vars => PoolInv'
    BY PoolStep
<1> QED
    BY <1>1, <1>2, PTL DEF Spec

(* The token reserves and the index never drift apart, whatever wallets quote, *)
(* build or race.                                                              *)
THEOREM ReservesTrackIndex == Spec => []ReservesFollowIndex
BY PoolInvariant, PTL DEF PoolInv

(* No swap that the covenant accepts costs the pool, whatever its builder asks *)
(* for: the fee is rounded the pool's way and the table's values are bound.    *)
THEOREM SwapsPayThePool == Spec => SwapsNeverCostPool
<1>1. PoolInv /\ [Next]_vars => [SwapKeepsValue]_vars
    BY PoolStep
<1> QED
    BY <1>1, PoolInvariant, PTL DEF Spec, SwapsNeverCostPool

(* A transaction that the SDK built from the live bundle is accepted: builder  *)
(* and covenant agree on rounding, table proofs, signature and amounts.        *)
THEOREM FreshLegsAccepted == Spec => []FreshLegsLand
<1>1. PoolInv => FreshLegsLand
    <2> SUFFICES ASSUME PoolInv, NEW w \in Wallets,
                        pending[w] # Idle, pending[w].phase = "built", pending[w].bundle = bundle,
                        ensure_reserve_floors(pending[w].next),
                        pending[w].path = "swap" => pending[w].deltaIn > 0,
                        pending[w].path = "admin" =>
                           /\ pending[w].balanced
                           /\ pending[w].next.yes - pending[w].was.yes
                                = pending[w].next.no - pending[w].was.no
                 PROVE  Accepts(pending[w])
        BY DEF FreshLegsLand
    <2> DEFINE leg == pending[w]
    <2>1. LegOK(leg) /\ leg.old = sIndex /\ leg.was = reserves /\ leg \in Legs
        BY DEF PoolInv, FreshOK, LegOK
    <2>2. /\ CovenantOpens(leg.old, leg.fOld, leg.oldProof) /\ leg.old <= SMaxIndex
          /\ CovenantOpens(leg.new, leg.fNew, leg.newProof) /\ leg.new <= SMaxIndex
        <3>1. leg.old \in TableIndex /\ leg.new \in TableIndex
            BY <2>1, PoolConstants DEF LegOK
        <3> QED
            BY <2>1, <3>1, TableOpens, PoolConstants DEF LegOK
    <2> HIDE DEF leg
    <2>3. CASE leg.path = "swap"
        <3>1. Priced(leg) /\ leg.balanced /\ leg.next = SwapReserves(leg, reserves)
            BY <2>1, <2>3 DEF LegOK, leg
        <3>2. leg.old \in Nat /\ leg.new \in Nat
            BY <2>1, PoolConstants DEF LegOK
        <3>3. Lots(leg) \in Nat /\ Lots(leg) > 0
            <4>1. Gap(leg.new, leg.old) \in Nat \ {0}
                BY <3>1, <3>2 DEF Priced, validate_direction, Gap
            <4>2. QStepLots \in Nat \ {0}
                BY PoolConstants
            <4> QED
                BY <4>1, <4>2 DEF Lots
        <3>4. SwapMoves(leg, reserves, leg.next, Lots(leg))
            <4>1. /\ reserves.yes \in Nat /\ reserves.no \in Nat /\ reserves.collateral \in Nat
                  /\ leg.deltaIn \in Nat /\ leg.deltaOut \in Nat /\ leg.kind \in Kinds
                BY <2>1 DEF Legs, ReserveSet
            <4> QED
                BY <3>1, <4>1 DEF SwapMoves, SwapReserves, Priced, Kinds, is_buy
        <3>5. SwapPath(leg, reserves, leg.next)
            BY <2>3, <3>1, <3>3, <3>4 DEF SwapPath, Priced, Lots, Base, leg
        <3> QED
            BY <2>1, <2>2, <2>3, <3>1, <3>5 DEF Accepts, lmsr_primary_main, leg
    <2>4. CASE leg.path = "admin"
        <3>1. AdminPath(leg, reserves, leg.next)
            BY <2>1, <2>4 DEF AdminPath, verify_admin_signature, LegOK, leg
        <3> QED
            BY <2>1, <2>2, <2>4, <3>1 DEF Accepts, lmsr_primary_main, leg
    <2>5. leg.path \in {"swap", "admin"}
        BY <2>1 DEF Legs
    <2> QED
        BY <2>3, <2>4, <2>5 DEF leg
<1> QED
    BY <1>1, PoolInvariant, PTL

-----------------------------------------------------------------------------
(* Trades.                                                                  *)

\* What a wallet was shown is a quote for one of the four kinds of trade.
ShownOK ==
    /\ plans = [w \in Wallets |-> plans[w]]
    /\ \A w \in Wallets : plans[w].phase = "shown" => plans[w].side \in Sides /\ plans[w].dir \in Directions

(* One plan changes. *)
LEMMA PlanStep ==
    ASSUME ShownOK, NEW w \in Wallets, NEW x, plans' = [plans EXCEPT ![w] = x],
           x.phase = "shown" => x.side \in Sides /\ x.dir \in Directions
    PROVE  ShownOK'
<1>1. plans' = [v \in Wallets |-> IF v = w THEN x ELSE plans[v]]
    BY DEF ShownOK
<1> QED
    BY <1>1 DEF ShownOK

(* Every step keeps it. *)
LEMMA ShownStep ==
    ASSUME ShownOK, [TradeNext]_tradeVars
    PROVE  ShownOK'
<1>1. CASE UNCHANGED plans
    BY <1>1 DEF ShownOK
<1>2. ASSUME NEW w \in Wallets,
             \E side \in Sides, dir \in Directions, i \in TradeInputs : ShowQuote(w, side, dir, i)
      PROVE  ShownOK'
    <2>1. PICK side \in Sides, dir \in Directions, i \in TradeInputs : ShowQuote(w, side, dir, i)
        BY <1>2
    <2> DEFINE Plan(shown) == [phase |-> "shown", side |-> side, dir |-> dir, input |-> i,
                               pool |-> FALSE, shown |-> shown]
    <2>2. PICK shown : plans' = [plans EXCEPT ![w] = Plan(shown)]
        BY <2>1, Zenon DEF ShowQuote
    <2>3. Plan(shown).side = side /\ Plan(shown).dir = dir
        OBVIOUS
    <2>4. PICK x : /\ plans' = [plans EXCEPT ![w] = x]
                   /\ x.side \in Sides /\ x.dir \in Directions
        BY <2>2, <2>3, Zenon
    <2> QED
        BY <2>4, PlanStep
<1>3. ASSUME NEW w \in Wallets, QuoteTrade(w)
      PROVE  ShownOK'
    <2> DEFINE old == plans[w]
               Quoted(plan) ==
                   [phase |-> "quoted", tx |-> NoTx, side |-> old.side, dir |-> old.dir,
                    legs |-> plan.legs, shown |-> old.shown,
                    pool |-> plan.pool, total_in |-> plan.total_in, total_out |-> plan.total_out,
                    values |-> [k \in DOMAIN plan.legs |-> orders[plan.legs[k].order].value],
                    versions |-> [k \in DOMAIN plan.legs |-> orders[plan.legs[k].order].version]]
    <2>1. PICK plan : plans' = [plans EXCEPT ![w] = Quoted(plan)]
        BY <1>3, Zenon DEF QuoteTrade
    <2>2. Quoted(plan).phase = "quoted"
        OBVIOUS
    <2> HIDE DEF Quoted
    <2> QED
        BY <2>1, <2>2, PlanStep
<1>4. ASSUME NEW w \in Wallets, NEW e, NEW f, ExecuteTradePlan(w, e, f)
      PROVE  ShownOK'
    <2>1. plans' = [plans EXCEPT ![w].phase = "built",
                      ![w].tx = build_trade_pset(plans[w], pending[w], e, f)]
        BY <1>4 DEF ExecuteTradePlan
    <2> DEFINE x == [plans[w] EXCEPT !.phase = "built", !.tx = build_trade_pset(plans[w], pending[w], e, f)]
    <2>2. plans' = [plans EXCEPT ![w] = x]
        BY <2>1
    <2>3. x.phase # "shown"
        OBVIOUS
    <2> HIDE DEF x
    <2> QED
        BY <2>2, <2>3, PlanStep
<1>5. ASSUME NEW w \in Wallets, BroadcastTrade(w) \/ AbandonTrade(w)
      PROVE  ShownOK'
    BY <1>5, PlanStep DEF BroadcastTrade, AbandonTrade, NoPlan
<1> QED
    BY <1>1, <1>2, <1>3, <1>4, <1>5
       DEF TradeNext, tradeVars, CreatePool, AdjustPool, CancelOrder

(* The four kinds. *)
LEMMA KindOfTrade ==
    ASSUME NEW side \in Sides, NEW dir \in Directions
    PROVE  lmsr_trade_kind(side, dir) \in Kinds
BY DEF lmsr_trade_kind, Sides, Directions, Kinds

(* The pool's part of a step is a step of the pool. *)
LEMMA TradeIsPoolStep ==
    ASSUME ShownOK, [TradeNext]_tradeVars
    PROVE  [Next]_vars
<1>1. CASE UNCHANGED vars
    BY <1>1
<1>2. CASE \E b \in InitialBundles : CreatePool(b)
    BY <1>2 DEF CreatePool, Next
<1>3. ASSUME NEW w \in Wallets, QuoteTrade(w)
      PROVE  [Next]_vars
    <2>1. plans[w].side \in Sides /\ plans[w].dir \in Directions
        BY <1>3 DEF QuoteTrade, ShownOK
    <2>2. \/ UNCHANGED vars
          \/ \E i \in Inputs : QuoteSwap(w, lmsr_trade_kind(plans[w].side, plans[w].dir), i)
        BY <1>3 DEF QuoteTrade
    <2> QED
        BY <2>1, <2>2, KindOfTrade DEF Next
<1>4. ASSUME NEW w \in Wallets, NEW e, NEW f, ExecuteTradePlan(w, e, f)
      PROVE  [Next]_vars
    BY <1>4 DEF ExecuteTradePlan, Next
<1>5. ASSUME NEW w \in Wallets, BroadcastTrade(w) \/ AbandonTrade(w) \/ AdjustPool(w)
      PROVE  [Next]_vars
    BY <1>5 DEF BroadcastTrade, AbandonTrade, AdjustPool, Next
<1> QED
    BY <1>1, <1>2, <1>3, <1>4, <1>5 DEF TradeNext, tradeVars, ShowQuote, CancelOrder

(* Trading implements the pool: whatever orders, plans and makers do, each   *)
(* step is one of LmsrPool's or leaves the pool alone.                       *)
THEOREM TradesImplementPool == TradeSpec => TradingImplementsPool
<1>1. TradeInit => Init /\ ShownOK
    BY DEF TradeInit, ShownOK, NoPlan
<1>2. ShownOK /\ [TradeNext]_tradeVars => ShownOK' /\ [Next]_vars
    BY ShownStep, TradeIsPoolStep
<1> QED
    BY <1>1, <1>2, PTL DEF TradeSpec, Spec, TradingImplementsPool

(* Trades keep the token reserves and the index together. *)
THEOREM TradesTrackIndex == TradeSpec => []ReservesFollowIndex
BY TradesImplementPool, ReservesTrackIndex DEF TradingImplementsPool

(* No trade costs the pool. *)
THEOREM TradesPayThePool == TradeSpec => SwapsNeverCostPool
BY TradesImplementPool, SwapsPayThePool DEF TradingImplementsPool

(* The pool's leg of a trade that was built from the live bundle is accepted *)
(* by the covenant.                                                          *)
THEOREM TradeLegsAccepted == TradeSpec => []FreshLegsLand
BY TradesImplementPool, FreshLegsAccepted DEF TradingImplementsPool

-----------------------------------------------------------------------------
(* The inductive invariant, in parts.                                       *)

\* The k-th transition of a chain, 0 for the bootstrap.
Nth(ch, k) == IF k = 0 THEN 0 ELSE ch[k]

\* Transition n, or the bootstrap, is on the chain ch.
In(n, ch) == n = 0 \/ \E k \in DOMAIN ch : ch[k] = n

\* BundleAt, with the state it reads as parameters.
BundleOf(n, g, md) == IF n = 0 THEN g ELSE [s |-> md[n].s, reserves |-> md[n].reserves]

\* The pool, and every transition ever broadcast.
PoolPart ==
    /\ TypeOK
    /\ made \in Seq(Transition) /\ Len(made) = txs
    /\ \A n \in 1 .. txs :
         /\ made[n].witness.new = made[n].s
         /\ made[n].witness.path = "swap" <=> made[n].witness.new # made[n].witness.old
    /\ ~created => txs = 0 /\ ~row.known /\ walk = Asleep

\* The chain is a path of spends from the bootstrap to the live bundle.
ChainPart ==
    /\ chain \in Seq(1 .. txs)
    /\ \A i, j \in DOMAIN chain : i < j => chain[i] < chain[j]
    /\ bundle = Nth(chain, Len(chain))
    /\ BundleOf(bundle, genesis, made) = [s |-> sIndex, reserves |-> reserves]
    /\ \A k \in DOMAIN chain :
         made[chain[k]].witness.old = BundleOf(Nth(chain, k - 1), genesis, made).s

\* At most one block has been lost since the best one there ever was.
BlocksPart ==
    /\ height \in [1 .. txs -> 0 .. tip]
    /\ tip \in 0 .. settled /\ settled \in 0 .. MaxHeight /\ settled <= tip + 1

\* A row with a scanned state holds one bundle, and this pool's parameters.
Rows == [known : BOOLEAN, source : {"announcement", "canonical"}, s : 0 .. SMaxIndex,
         reserves : ReserveSet, last : Nat, terms : {OwnParams}, table : Tables,
         event : Tables]

RowOK(r, n, g, md) ==
    /\ r \in Rows
    /\ r.last <= n
    /\ r.known /\ r.source = "canonical" =>
         BundleOf(r.last, g, md) = [s |-> r.s, reserves |-> r.reserves]

\* A recorded price is below the best block there ever was.
PricesPart ==
    \A p \in prices :
        /\ p.id \in 1 .. txs /\ In(p.id, chain)
        /\ p.h \in 1 .. settled - 1 /\ height[p.id] = p.h
        /\ p.bps = fee_free_yes_spot_price_bps(made[p.id].s)

\* What a walk has seen of blocks that were settled when it began is so still,
\* and what is so now of those blocks it has seen.
Reliable(seen, best, ch, ht) ==
    \A i \in DOMAIN seen :
        /\ seen[i].h \in 1 .. best - 1 => In(seen[i].id, ch) /\ ht[seen[i].id] = seen[i].h
        /\ ht[seen[i].id] \in 1 .. best - 1 => seen[i].h = ht[seen[i].id]

\* The walk has visited the first transitions of the chain, one by one.
Visited(seen, ch) ==
    Len(seen) <= Len(ch) /\ \A i \in 1 .. Len(seen) : seen[i].id = ch[i]

Walks(n) == [pc : {"bundle", "height", "persist", "record", "error"}, at : 0 .. n, hint : 0 .. SMaxIndex,
             steps : Nat, best : Nat, next : 0 .. n, seen : Seq([id : 1 .. n, h : Nat]),
             table : Tables, raced : BOOLEAN]

WalkOK(w, n, ch, ht, top) ==
    /\ w \in Walks(n)
    /\ w.best <= top
    /\ w.at = IF w.seen = <<>> THEN 0 ELSE w.seen[Len(w.seen)].id
    /\ Reliable(w.seen, w.best, ch, ht)
    /\ w.pc = "bundle" =>
         /\ In(w.at, ch) => Visited(w.seen, ch)
         /\ ~w.raced => In(w.at, ch)
    /\ w.pc = "height" =>
         /\ w.next # 0
         /\ In(w.next, ch) =>
              /\ Visited(w.seen, ch) /\ Len(w.seen) < Len(ch)
              /\ ch[Len(w.seen) + 1] = w.next
         /\ ~w.raced => In(w.next, ch)
    /\ w.pc \in {"persist", "record"} =>
         \A k \in DOMAIN ch : ht[ch[k]] \in 1 .. w.best - 1 =>
             \E i \in DOMAIN w.seen : w.seen[i].id = ch[k]
    /\ w.pc = "error" => w.raced \/ w.steps >= WalkLimit

SyncInv ==
    /\ PoolPart /\ ChainPart /\ BlocksPart
    /\ RowOK(row, txs, genesis, made)
    /\ PricesPart
    /\ walk = Asleep \/ WalkOK(walk, txs, chain, height, settled)

-----------------------------------------------------------------------------
(* The row.                                                                 *)

(* The bundle of a transition, under its two names. *)
LEMMA SameBundle ==
    ASSUME NEW n
    PROVE  BundleAt(n) = BundleOf(n, genesis, made) /\ (OnChain(n) <=> In(n, chain))
BY DEF BundleAt, BundleOf, OnChain, In

(* Rows grow older: transitions are only ever added. *)
LEMMA RowStays ==
    ASSUME NEW r, NEW n \in Nat, NEW g, NEW md, NEW n2 \in Nat, NEW md2,
           RowOK(r, n, g, md), n <= n2, \A i \in 1 .. n : md2[i] = md[i]
    PROVE  RowOK(r, n2, g, md2)
<1>1. r.last \in Nat /\ r.last <= n /\ r \in Rows
    BY DEF RowOK, Rows
<1>2. BundleOf(r.last, g, md2) = BundleOf(r.last, g, md)
    BY <1>1 DEF BundleOf
<1> QED
    BY <1>1, <1>2 DEF RowOK

(* ingest_lmsr_pool makes a good row of a good row and a good input. *)
LEMMA IngestOK ==
    ASSUME NEW r, NEW n \in Nat, NEW g, NEW md, RowOK(r, n, g, md),
           NEW in, in.source \in {"announcement", "canonical"}, in.s \in 0 .. SMaxIndex,
           in.reserves \in ReserveSet, in.last \in 0 .. n, in.terms = OwnParams,
           in.table \in Tables, in.event \in Tables,
           in.source = "canonical" =>
             BundleOf(in.last, g, md) = [s |-> in.s, reserves |-> in.reserves]
    PROVE  RowOK(ingest_lmsr_pool(r, in), n, g, md)
<1> DEFINE keep == r.known /\ r.source = "canonical" /\ in.source = "announcement"
           live == IF keep THEN r ELSE in
           new == ingest_lmsr_pool(r, in)
           terms == IF r.known THEN r.terms ELSE in.terms
           table == IF in.table = "none" THEN r.table ELSE in.table
           event == IF in.event = "none" THEN r.event ELSE in.event
<1>1. r \in Rows /\ r.last \in Nat /\ r.last <= n
    BY DEF RowOK, Rows
<1>2. /\ live.source \in {"announcement", "canonical"} /\ live.s \in 0 .. SMaxIndex
      /\ live.reserves \in ReserveSet /\ live.last \in Nat /\ live.last <= n
    <2>1. CASE keep
        BY <1>1, <2>1 DEF Rows
    <2>2. CASE ~keep
        BY <2>2
    <2> QED
        BY <2>1, <2>2
<1>3. live.source = "canonical" =>
        BundleOf(live.last, g, md) = [s |-> live.s, reserves |-> live.reserves]
    <2>1. CASE keep
        BY <2>1 DEF RowOK
    <2>2. CASE ~keep
        BY <2>2
    <2> QED
        BY <2>1, <2>2
<1>4. terms = OwnParams /\ table \in Tables /\ event \in Tables
    BY <1>1 DEF Rows
<1>5. new = [known |-> TRUE, source |-> live.source, s |-> live.s, reserves |-> live.reserves,
             last |-> live.last, terms |-> terms, table |-> table, event |-> event]
    BY DEF ingest_lmsr_pool
<1> HIDE DEF live, new, terms, table, event
<1>6. new \in Rows
    BY <1>2, <1>4, <1>5 DEF Rows
<1>7. RowOK(new, n, g, md)
    BY <1>2, <1>3, <1>5, <1>6 DEF RowOK
<1> QED
    BY <1>7 DEF new

(* The announcements a node accepts for this pool's row are this pool's. *)
LEMMA OwnPoolOK ==
    ASSUME NEW a \in OwnPools
    PROVE  /\ a.params = OwnParams /\ a.s \in 0 .. SMaxIndex
           /\ a.reserves \in ReserveSet /\ a.table \in Tables
<1>1. a.id = derive_lmsr_pool_id(Network, a.params, a.creation, a.outpoints)
      /\ a.id = derive_lmsr_pool_id(Network, OwnParams, "boot", Outpoints("boot"))
      /\ a.s <= a.params.sMax
    BY DEF OwnPools, OwnAnnouncement, build_pool_announcement_from_snapshot,
           parse_discovered_lmsr_pool, ContentOk
<1>2. a.params = OwnParams
    BY <1>1 DEF derive_lmsr_pool_id
<1>3. SMaxIndex \in Nat /\ AnnouncedState.s \in Nat /\ AnnouncedState.reserves \in ReserveSet
    BY PoolConstants, SyncAssumption
<1>4. PICK n \in EventNames : a = Events[n].content
    BY DEF OwnPools
<1>5. a.s \in Nat /\ a.reserves \in ReserveSet /\ a.table \in Tables
    <2> DEFINE own == OwnAnnouncement
               cheap == [own EXCEPT !.params.fee = 0]
               pool == [cheap EXCEPT !.id.params = cheap.params]
    <2>1. /\ own.s = AnnouncedState.s /\ own.reserves = AnnouncedState.reserves
          /\ own.table = "good" /\ cheap.s = own.s /\ cheap.reserves = own.reserves
          /\ cheap.table = own.table /\ pool.s = own.s /\ pool.reserves = own.reserves
          /\ pool.table = own.table
        BY DEF OwnAnnouncement, build_pool_announcement_from_snapshot
    <2>2. {"s", "table", "reserves", "version"} \subseteq DOMAIN own
        BY DEF OwnAnnouncement, build_pool_announcement_from_snapshot
    <2>3. \/ a = own \/ a = cheap \/ a = pool
          \/ a = [own EXCEPT !.table = "none"] \/ a = [own EXCEPT !.table = "wrong"]
          \/ a = [own EXCEPT !.version = 1] \/ a = [own EXCEPT !.s = SMaxIndex + 1]
        <3> HIDE DEF own
        <3> QED
            BY <1>4 DEF Events, EventNames, build_pool_event, own
    <2> HIDE DEF own, cheap, pool
    <2> QED
        BY <1>3, <2>1, <2>2, <2>3 DEF Tables
<1> QED
    BY <1>1, <1>2, <1>3, <1>5 DEF OwnParams

(* Announcements leave a good row. *)
LEMMA AnnouncedOK ==
    ASSUME NEW r, NEW n \in Nat, NEW g, NEW md, RowOK(r, n, g, md), NEW a
    PROVE  RowOK(persist_pool_to_store(r, a), n, g, md)
<1>1. CASE a \in OwnPools
    <2> DEFINE in == [source |-> "announcement", s |-> a.s, reserves |-> a.reserves, last |-> 0,
                      terms |-> a.params, table |-> a.table, event |-> a.table]
    <2>1. RowOK(ingest_lmsr_pool(r, in), n, g, md)
        <3>1. /\ in.source = "announcement" /\ in.s = a.s /\ in.reserves = a.reserves
              /\ in.last = 0 /\ in.terms = a.params /\ in.table = a.table /\ in.event = a.table
            OBVIOUS
        <3>2. a.params = OwnParams /\ a.s \in 0 .. SMaxIndex /\ a.reserves \in ReserveSet
              /\ a.table \in Tables
            BY <1>1, OwnPoolOK
        <3>3. /\ in.source \in {"announcement", "canonical"} /\ in.source # "canonical"
              /\ in.s \in 0 .. SMaxIndex /\ in.reserves \in ReserveSet /\ in.last \in 0 .. n
              /\ in.terms = OwnParams /\ in.table \in Tables /\ in.event \in Tables
              /\ in.source = "canonical" =>
                   BundleOf(in.last, g, md) = [s |-> in.s, reserves |-> in.reserves]
            BY <3>1, <3>2
        <3> HIDE DEF in
        <3> QED
            BY <3>3, IngestOK
    <2> QED
        BY <1>1, <2>1 DEF persist_pool_to_store
<1>2. CASE a \notin OwnPools
    BY <1>2 DEF persist_pool_to_store
<1> QED
    BY <1>1, <1>2

(* So does storing a bundle of the pool, either way. *)
LEMMA StoredOK ==
    ASSUME SyncInv, NEW r, RowOK(r, txs, genesis, made), NEW n \in 0 .. txs, NEW table \in Tables
    PROVE  /\ RowOK(ingest_lmsr_pool(r, Snapshot(n, table)), txs, genesis, made)
           /\ RowOK(upsert_lmsr_pool_state(r, n), txs, genesis, made)
<1> DEFINE in == Snapshot(n, table)
           b == BundleOf(n, genesis, made)
<1>1. txs \in Nat /\ n \in Nat /\ n <= txs
    BY PoolAssumption DEF SyncInv, PoolPart, TypeOK
<1>2. b.s \in 0 .. SMaxIndex /\ b.reserves \in ReserveSet /\ b = [s |-> b.s, reserves |-> b.reserves]
    <2>1. CASE n = 0
        BY <2>1 DEF SyncInv, PoolPart, TypeOK, BundleOf
    <2>2. CASE n # 0
        <3>1. made[n] \in Transition
            BY <1>1, <2>2 DEF SyncInv, PoolPart
        <3> QED
            BY <3>1, <2>2 DEF Transition, BundleOf
    <2> QED
        BY <2>1, <2>2
<1>3. BundleAt(n) = b
    BY SameBundle
<1>4. /\ in.source = "canonical" /\ in.s = b.s /\ in.reserves = b.reserves /\ in.last = n
      /\ in.terms = OwnParams /\ in.table = table /\ in.event = "none"
    BY <1>3 DEF Snapshot
<1> HIDE DEF in, b
<1>5. RowOK(ingest_lmsr_pool(r, in), txs, genesis, made)
    BY <1>1, <1>2, <1>4, IngestOK DEF Tables, b
<1>6. RowOK(upsert_lmsr_pool_state(r, n), txs, genesis, made)
    BY <1>1, <1>2, <1>3 DEF upsert_lmsr_pool_state, RowOK, Rows, b
<1> QED
    BY <1>5, <1>6 DEF in

(* Repairing the row from the stored event leaves it as it is or fills in the *)
(* table.                                                                     *)
LEMMA RepairOK ==
    ASSUME SyncInv
    PROVE  /\ RowOK(RepairedRow, txs, genesis, made)
           /\ RepairedRow.table \in Tables /\ RepairedRow.known = row.known
<1>1. resolved_sync_metadata.terms = OwnParams /\ resolved_sync_metadata.table \in Tables
    BY DEF SyncInv, RowOK, Rows, resolved_sync_metadata, repair_metadata_from_nostr_event
<1>2. row \in Rows /\ RowOK(row, txs, genesis, made)
    BY DEF SyncInv, RowOK
<1> QED
    BY <1>1, <1>2 DEF RepairedRow, repair_lmsr_pool_sync_info, RowOK, Rows

-----------------------------------------------------------------------------
(* The walk's queries.                                                      *)

(* The spender of the k-th transition of the chain is the next one. *)
LEMMA SpenderOfNth ==
    ASSUME SyncInv, NEW k \in 0 .. Len(chain)
    PROVE  /\ Spender(Nth(chain, k)) = IF k < Len(chain) THEN chain[k + 1] ELSE 0
           /\ k < Len(chain) => chain[k + 1] \in 1 .. txs
<1>1. chain \in Seq(1 .. txs) /\ txs \in Nat /\ DOMAIN chain = 1 .. Len(chain) /\ Len(chain) \in Nat
    BY PoolAssumption DEF SyncInv, PoolPart, TypeOK, ChainPart
<1>2. CASE k = 0
    BY <1>1, <1>2 DEF Spender, Nth
<1>3. CASE k # 0
    <2> DEFINE n == chain[k]
               at == CHOOSE i \in DOMAIN chain : chain[i] = n
    <2>1. n # 0 /\ Nth(chain, k) = n
        BY <1>1, <1>3 DEF Nth
    <2>2. at \in DOMAIN chain /\ chain[at] = n
        BY <1>1, <1>3
    <2>3. at = k
        BY <1>1, <1>3, <2>2 DEF SyncInv, ChainPart
    <2>4. Spender(n) = IF at < Len(chain) THEN chain[at + 1] ELSE 0
        BY <2>1 DEF Spender
    <2> HIDE DEF at
    <2>5. k < Len(chain) => chain[k + 1] \in 1 .. txs
        BY <1>1
    <2> QED
        BY <2>1, <2>3, <2>4, <2>5
<1> QED
    BY <1>2, <1>3

(* The index of a script is found, whatever the hint. *)
LEMMA IndexFound ==
    ASSUME NEW hint, NEW s \in 0 .. SMaxIndex
    PROVE  find_lmsr_state_index_by_script(hint, script_pubkey(s)) = s
<1>1. \A t : script_pubkey(t) = script_pubkey(s) => t = s
    BY DEF script_pubkey
<1> QED
    BY <1>1 DEF find_lmsr_state_index_by_script

(* A walk that stands at a transition of the chain has visited those before. *)
LEMMA WalkStands ==
    ASSUME NEW w, NEW n \in Nat, NEW ch \in Seq(1 .. n), w \in Walks(n),
           w.at = IF w.seen = <<>> THEN 0 ELSE w.seen[Len(w.seen)].id,
           Visited(w.seen, ch)
    PROVE  /\ Len(w.seen) \in 0 .. Len(ch) /\ w.at = Nth(ch, Len(w.seen))
           /\ In(w.at, ch)
<1>1. w.seen \in Seq([id : 1 .. n, h : Nat])
    BY DEF Walks
<1>2. Len(w.seen) \in Nat /\ (Len(w.seen) = 0 <=> w.seen = <<>>)
    BY <1>1
<1>3. Len(w.seen) <= Len(ch) /\ Len(ch) \in Nat
    BY DEF Visited
<1>4. CASE Len(w.seen) = 0
    BY <1>2, <1>3, <1>4 DEF Nth, In
<1>5. CASE Len(w.seen) # 0
    <2>1. w.at = ch[Len(w.seen)]
        BY <1>2, <1>5 DEF Visited
    <2> QED
        BY <1>2, <1>3, <1>5, <2>1 DEF Nth, In
<1> QED
    BY <1>4, <1>5

-----------------------------------------------------------------------------
(* The steps.                                                               *)

(* The constants and numbers every step works with. *)
LEMMA SyncNumbers ==
    ASSUME SyncInv
    PROVE  /\ txs \in Nat /\ tip \in Nat /\ settled \in Nat /\ MaxHeight \in Nat
           /\ MaxTxs \in Nat /\ SMaxIndex \in Nat /\ WalkLimit \in Nat
           /\ chain \in Seq(1 .. txs) /\ Len(chain) \in Nat /\ DOMAIN chain = 1 .. Len(chain)
           /\ bundle \in 0 .. txs
           /\ DOMAIN height = 1 .. txs /\ \A n \in 1 .. txs : height[n] \in 0 .. tip
BY PoolAssumption, SyncAssumption, PoolConstants
   DEF SyncInv, PoolPart, TypeOK, ChainPart, BlocksPart

(* Only the row changes. *)
LEMMA RowStep ==
    ASSUME SyncInv, created, UNCHANGED <<vars, chainVars, walk, prices>>,
           RowOK(row', txs, genesis, made)
    PROVE  SyncInv'
<1>1. PoolPart'
    BY DEF SyncInv, PoolPart, TypeOK, vars, chainVars
<1>2. ChainPart'
    BY DEF SyncInv, ChainPart, vars, chainVars
<1>3. BlocksPart' /\ PricesPart'
    BY DEF SyncInv, BlocksPart, PricesPart, vars, chainVars
<1> QED
    BY <1>1, <1>2, <1>3 DEF SyncInv, vars, chainVars

(* The bootstrap. *)
LEMMA CreateStep ==
    ASSUME SyncInv, NEW b \in InitialBundles, create_lmsr_pool(b)
    PROVE  SyncInv'
<1>1. /\ ~created /\ created' = TRUE /\ genesis' = [s |-> b.s, reserves |-> b.reserves]
      /\ sIndex' = b.s /\ reserves' = b.reserves /\ UNCHANGED <<bundle, txs, pending>>
      /\ UNCHANGED <<made, chain, height, tip, settled, walk, prices>>
    BY DEF create_lmsr_pool, create_lmsr_pool_bootstrap, chainVars
<1>2. b.s \in 0 .. SMaxIndex /\ b.reserves \in ReserveSet
    <2>1. b.s \in TableIndex /\ b.reserves \in ReserveSet /\ b.s <= SMaxIndex
        BY PoolAssumption DEF Requests, create_lmsr_pool, create_lmsr_pool_bootstrap,
                              validate_create_lmsr_pool_request
    <2> QED
        BY <2>1, PoolConstants DEF TableIndex
<1>3. txs = 0 /\ ~row.known /\ walk = Asleep
    BY <1>1 DEF SyncInv, PoolPart
<1>4. chain = <<>> /\ bundle = 0
    BY <1>3 DEF SyncInv, ChainPart, Nth
<1>5. PoolPart'
    BY <1>1, <1>2, <1>3 DEF SyncInv, PoolPart, TypeOK
<1>6. ChainPart'
    BY <1>1, <1>3, <1>4 DEF SyncInv, ChainPart, BundleOf
<1>7. BlocksPart' /\ PricesPart'
    BY <1>1, <1>3 DEF SyncInv, BlocksPart, PricesPart
<1>8. RowOK(row, txs, genesis', made)
    BY <1>3 DEF SyncInv, RowOK
<1>9. RowOK(row', txs, genesis', made)
    <2> DEFINE in == [source |-> "canonical", s |-> b.s, reserves |-> b.reserves, last |-> 0,
                      terms |-> OwnParams, table |-> "good", event |-> "none"]
    <2>1. /\ in.source = "canonical" /\ in.s = b.s /\ in.reserves = b.reserves /\ in.last = 0
          /\ in.terms = OwnParams /\ in.table = "good" /\ in.event = "none"
        OBVIOUS
    <2>2. row' = row \/ row' = ingest_lmsr_pool(row, in)
        BY DEF create_lmsr_pool
    <2>3. BundleOf(0, genesis', made) = [s |-> b.s, reserves |-> b.reserves]
        BY <1>1 DEF BundleOf
    <2> HIDE DEF in
    <2>4. RowOK(ingest_lmsr_pool(row, in), txs, genesis', made)
        BY <1>2, <1>3, <1>8, <2>1, <2>3, IngestOK DEF Tables
    <2> QED
        BY <1>8, <2>2, <2>4
<1> QED
    BY <1>1, <1>3, <1>5, <1>6, <1>7, <1>9 DEF SyncInv

(* Sequences over a larger set. *)
LEMMA SeqWider ==
    ASSUME NEW A, NEW B, A \subseteq B, NEW q \in Seq(A)
    PROVE  q \in Seq(B)
OBVIOUS

(* What a walk has seen. *)
LEMMA SeenElements ==
    ASSUME NEW n \in Nat, NEW seen \in Seq([id : 1 .. n, h : Nat])
    PROVE  /\ Len(seen) \in Nat /\ DOMAIN seen = 1 .. Len(seen)
           /\ \A i \in 1 .. Len(seen) : seen[i].id \in 1 .. n /\ seen[i].h \in Nat
<1> DEFINE Listed == [id : 1 .. n, h : Nat]
<1>1. seen \in Seq(Listed)
    OBVIOUS
<1>2. \A x \in Listed : x.id \in 1 .. n /\ x.h \in Nat
    OBVIOUS
<1> HIDE DEF Listed
<1>3. /\ Len(seen) \in Nat /\ DOMAIN seen = 1 .. Len(seen)
      /\ \A i \in 1 .. Len(seen) : seen[i] \in Listed
    BY <1>1
<1> QED
    BY <1>2, <1>3

(* A new transition in the mempool does not disturb a walk. *)
LEMMA WalkGrows ==
    ASSUME NEW w, NEW n \in Nat, NEW ch \in Seq(1 .. n), NEW ht \in Seq(Nat), Len(ht) = n,
           NEW top \in Nat, WalkOK(w, n, ch, ht, top)
    PROVE  WalkOK(w, n + 1, Append(ch, n + 1), Append(ht, 0), top)
<1> DEFINE c2 == Append(ch, n + 1)
           h2 == Append(ht, 0)
<1>1. w \in Walks(n + 1)
    <2>1. 0 .. n \subseteq 0 .. n + 1 /\ [id : 1 .. n, h : Nat] \subseteq [id : 1 .. n + 1, h : Nat]
        OBVIOUS
    <2>2. w \in Walks(n)
        BY DEF WalkOK
    <2> DEFINE E1 == [id : 1 .. n, h : Nat]
               E2 == [id : 1 .. n + 1, h : Nat]
    <2>4. w.seen \in Seq(E1)
        BY <2>2 DEF Walks
    <2>5. E1 \subseteq E2
        BY <2>1
    <2>3. w.seen \in Seq(E2)
        <3> HIDE DEF E1, E2
        <3> QED
            BY <2>4, <2>5, SeqWider
    <2> QED
        BY <2>1, <2>2, <2>3 DEF Walks
<1>2. /\ Len(c2) = Len(ch) + 1 /\ Len(ch) \in Nat /\ DOMAIN c2 = 1 .. Len(ch) + 1
      /\ DOMAIN ch = 1 .. Len(ch)
      /\ \A k \in DOMAIN ch : c2[k] = ch[k] /\ ch[k] \in 1 .. n
      /\ c2[Len(ch) + 1] = n + 1
      /\ \A i \in 1 .. n : h2[i] = ht[i]
      /\ h2[n + 1] = 0
    OBVIOUS
<1> HIDE DEF c2, h2
<1>3. ASSUME NEW x \in 0 .. n
      PROVE  In(x, c2) <=> In(x, ch)
    <2>1. n + 1 # x
        OBVIOUS
    <2>2. ASSUME NEW k \in DOMAIN c2, c2[k] = x
          PROVE  k \in DOMAIN ch /\ ch[k] = x
        <3>1. k # Len(ch) + 1
            BY <1>2, <2>1, <2>2
        <3>2. k \in 1 .. Len(ch) + 1 /\ Len(ch) \in Nat
            BY <1>2
        <3>3. k \in DOMAIN ch
            <4>1. k \in 1 .. Len(ch)
                BY <3>1, <3>2
            <4> QED
                BY <1>2, <4>1
        <3> QED
            BY <1>2, <2>2, <3>3
    <2>3. \A k \in DOMAIN ch : k \in DOMAIN c2 /\ c2[k] = ch[k]
        BY <1>2
    <2> QED
        BY <2>2, <2>3 DEF In
<1>4. w.seen \in Seq([id : 1 .. n, h : Nat]) /\ w.at \in 0 .. n /\ w.next \in 0 .. n /\ w.best \in Nat
    BY DEF WalkOK, Walks
<1>5. \A i \in DOMAIN w.seen : w.seen[i].id \in 1 .. n /\ w.seen[i].id \in 0 .. n
    <2>1. \A i \in DOMAIN w.seen : w.seen[i].id \in 1 .. n
        BY <1>4, SeenElements
    <2> QED
        BY <2>1
<1>6. Reliable(w.seen, w.best, c2, h2)
    BY <1>2, <1>3, <1>5 DEF WalkOK, Reliable
<1>7. Len(w.seen) \in Nat
    BY <1>4
<1>8. ASSUME Visited(w.seen, ch)
      PROVE  Visited(w.seen, c2)
    <2>1. Len(w.seen) <= Len(c2)
        BY <1>2, <1>7, <1>8 DEF Visited
    <2>2. \A i \in 1 .. Len(w.seen) : i \in DOMAIN ch /\ w.seen[i].id = ch[i]
        BY <1>2, <1>7, <1>8 DEF Visited
    <2> QED
        BY <1>2, <2>1, <2>2 DEF Visited
<1>9. w.pc = "bundle" => /\ In(w.at, c2) => Visited(w.seen, c2)
                         /\ ~w.raced => In(w.at, c2)
    BY <1>3, <1>4, <1>8 DEF WalkOK
<1>10. w.pc = "height" => /\ w.next # 0
                          /\ In(w.next, c2) => /\ Visited(w.seen, c2) /\ Len(w.seen) < Len(c2)
                                               /\ c2[Len(w.seen) + 1] = w.next
                          /\ ~w.raced => In(w.next, c2)
    <2> SUFFICES ASSUME w.pc = "height"
                 PROVE  /\ w.next # 0
                        /\ In(w.next, c2) => /\ Visited(w.seen, c2) /\ Len(w.seen) < Len(c2)
                                             /\ c2[Len(w.seen) + 1] = w.next
                        /\ ~w.raced => In(w.next, c2)
        OBVIOUS
    <2>1. In(w.next, c2) <=> In(w.next, ch)
        BY <1>3, <1>4
    <2>2. /\ w.next # 0
          /\ ~w.raced => In(w.next, ch)
          /\ In(w.next, ch) => /\ Visited(w.seen, ch) /\ Len(w.seen) < Len(ch)
                               /\ ch[Len(w.seen) + 1] = w.next
        BY DEF WalkOK
    <2>3. Len(w.seen) < Len(ch) => Len(w.seen) < Len(c2) /\ c2[Len(w.seen) + 1] = ch[Len(w.seen) + 1]
        BY <1>2, <1>7
    <2>4. Visited(w.seen, ch) => Visited(w.seen, c2)
        BY <1>8
    <2> QED
        BY <2>1, <2>2, <2>3, <2>4
<1>11. w.pc \in {"persist", "record"} =>
         \A k \in DOMAIN c2 : h2[c2[k]] \in 1 .. w.best - 1 =>
             \E i \in DOMAIN w.seen : w.seen[i].id = c2[k]
    <2> SUFFICES ASSUME w.pc \in {"persist", "record"}, NEW k \in DOMAIN c2,
                        h2[c2[k]] \in 1 .. w.best - 1
                 PROVE  \E i \in DOMAIN w.seen : w.seen[i].id = c2[k]
        OBVIOUS
    <2>0. k # Len(ch) + 1
        BY <1>2, <1>4
    <2>1. k \in DOMAIN ch
        BY <1>2, <2>0
    <2>2. h2[c2[k]] = ht[ch[k]] /\ c2[k] = ch[k]
        BY <1>2, <2>1
    <2> QED
        BY <2>1, <2>2 DEF WalkOK
<1>12. WalkOK(w, n + 1, c2, h2, top)
    BY <1>1, <1>6, <1>9, <1>10, <1>11 DEF WalkOK
<1> QED
    BY <1>12 DEF c2, h2

(* A transition enters the mempool. *)
LEMMA EntersStep ==
    ASSUME SyncInv, created, NEW leg, Enters(leg), leg.path \in {"swap", "admin"},
           leg.old = sIndex, leg.new \in 0 .. SMaxIndex, leg.next \in ReserveSet,
           leg.path = "swap" <=> leg.new # leg.old,
           RowOK(row', txs + 1, genesis, made')
    PROVE  SyncInv'
<1> DEFINE t == [witness |-> build_lmsr_primary_witness(leg), s |-> leg.new, reserves |-> leg.next]
<1>1. /\ txs < MaxTxs /\ sIndex' = leg.new /\ reserves' = leg.next /\ bundle' = txs + 1
      /\ txs' = txs + 1 /\ UNCHANGED <<created, genesis, pending, tip, settled, walk, prices>>
      /\ made' = Append(made, t) /\ chain' = Append(chain, txs + 1) /\ height' = Append(height, 0)
    BY DEF Enters, Lands
<1>2. /\ t.s = leg.new /\ t.reserves = leg.next /\ t.witness.path = leg.path
      /\ t.witness.old = leg.old /\ t.witness.new = leg.new
    BY DEF build_lmsr_primary_witness
<1>3. t \in Transition
    <2>1. sIndex \in 0 .. SMaxIndex
        BY DEF SyncInv, PoolPart, TypeOK
    <2> QED
        BY <2>1 DEF Transition, Witnesses, build_lmsr_primary_witness
<1> HIDE DEF t
<1>4. /\ txs \in Nat /\ MaxTxs \in Nat /\ made \in Seq(Transition) /\ Len(made) = txs
      /\ chain \in Seq(1 .. txs) /\ Len(chain) \in Nat /\ DOMAIN chain = 1 .. Len(chain)
      /\ height \in Seq(Nat) /\ Len(height) = txs /\ tip \in Nat
    <2>1. height \in [1 .. txs -> 0 .. tip] /\ tip \in Nat
        BY SyncNumbers DEF SyncInv, BlocksPart
    <2>2. txs \in Nat
        BY SyncNumbers
    <2>3. height \in Seq(Nat) /\ Len(height) = txs
        BY <2>1, <2>2
    <2> QED
        BY <2>1, <2>3, SyncNumbers DEF SyncInv, PoolPart
<1>5. /\ made' \in Seq(Transition) /\ Len(made') = txs + 1 /\ made'[txs + 1] = t
      /\ \A i \in 1 .. txs : made'[i] = made[i]
    BY <1>1, <1>3, <1>4
<1>6. /\ chain' \in Seq(1 .. txs + 1) /\ Len(chain') = Len(chain) + 1
      /\ DOMAIN chain' = 1 .. Len(chain) + 1 /\ chain'[Len(chain) + 1] = txs + 1
      /\ \A k \in DOMAIN chain : chain'[k] = chain[k] /\ chain[k] \in 1 .. txs
    BY <1>1, <1>4
<1>7. /\ height' \in [1 .. txs + 1 -> 0 .. tip]
      /\ \A i \in 1 .. txs : height'[i] = height[i]
    <2>1. \A n \in 1 .. txs : height[n] \in 0 .. tip
        BY SyncNumbers
    <2>2. DOMAIN height' = 1 .. txs + 1 /\ height' \in Seq(Nat)
        BY <1>1, <1>4
    <2>3. \A n \in 1 .. txs + 1 : height'[n] = IF n = txs + 1 THEN 0 ELSE height[n]
        BY <1>1, <1>4
    <2>4. \A n \in 1 .. txs + 1 : height'[n] \in 0 .. tip
        BY <1>4, <2>1, <2>3
    <2>5. height' = [n \in 1 .. txs + 1 |-> height'[n]]
        BY <2>2
    <2> QED
        BY <1>4, <2>3, <2>4, <2>5
<1>8. \A n \in 0 .. txs : BundleOf(n, genesis, made') = BundleOf(n, genesis, made)
    BY <1>4, <1>5 DEF BundleOf
<1>9. PoolPart'
    <2>1. TypeOK'
        BY <1>1, <1>4 DEF SyncInv, PoolPart, TypeOK
    <2>2. \A n \in 1 .. txs + 1 :
             /\ made'[n].witness.new = made'[n].s
             /\ made'[n].witness.path = "swap" <=> made'[n].witness.new # made'[n].witness.old
        <3> SUFFICES ASSUME NEW n \in 1 .. txs + 1
                     PROVE  /\ made'[n].witness.new = made'[n].s
                            /\ made'[n].witness.path = "swap" <=>
                                 made'[n].witness.new # made'[n].witness.old
            OBVIOUS
        <3>1. CASE n = txs + 1
            BY <1>2, <1>5, <3>1
        <3>2. CASE n # txs + 1
            <4>1. n \in 1 .. txs /\ made'[n] = made[n]
                BY <1>4, <1>5, <3>2
            <4> QED
                BY <4>1 DEF SyncInv, PoolPart
        <3> QED
            BY <3>1, <3>2
    <2> QED
        BY <1>1, <1>5, <2>1, <2>2 DEF PoolPart
<1>10. ChainPart'
    <2>1. \A i, j \in DOMAIN chain' : i < j => chain'[i] < chain'[j]
        <3> SUFFICES ASSUME NEW i \in DOMAIN chain', NEW j \in DOMAIN chain', i < j
                     PROVE  chain'[i] < chain'[j]
            OBVIOUS
        <3>1. i \in DOMAIN chain /\ chain'[i] = chain[i] /\ chain[i] \in 1 .. txs
            BY <1>4, <1>6
        <3>2. CASE j = Len(chain) + 1
            BY <1>4, <1>6, <3>1, <3>2
        <3>3. CASE j # Len(chain) + 1
            <4>1. j \in DOMAIN chain /\ chain'[j] = chain[j]
                BY <1>4, <1>6, <3>3
            <4> QED
                BY <3>1, <4>1 DEF SyncInv, ChainPart
        <3> QED
            BY <3>2, <3>3
    <2>2. bundle' = Nth(chain', Len(chain'))
        BY <1>1, <1>4, <1>6 DEF Nth
    <2>3. BundleOf(bundle', genesis, made') = [s |-> sIndex', reserves |-> reserves']
        BY <1>1, <1>2, <1>4, <1>5 DEF BundleOf
    <2>4. \A k \in DOMAIN chain' :
            made'[chain'[k]].witness.old = BundleOf(Nth(chain', k - 1), genesis, made').s
        <3> SUFFICES ASSUME NEW k \in DOMAIN chain'
                     PROVE  made'[chain'[k]].witness.old = BundleOf(Nth(chain', k - 1), genesis, made').s
            OBVIOUS
        <3>0. Nth(chain', k - 1) = Nth(chain, k - 1) /\ Nth(chain, k - 1) \in 0 .. txs
            BY <1>4, <1>6 DEF Nth
        <3>1. CASE k = Len(chain) + 1
            <4>1. made'[chain'[k]].witness.old = sIndex
                BY <1>2, <1>5, <1>6, <3>1
            <4>2. Nth(chain, k - 1) = bundle
                BY <1>4, <3>1 DEF SyncInv, ChainPart
            <4>3. BundleOf(bundle, genesis, made) = [s |-> sIndex, reserves |-> reserves]
                BY DEF SyncInv, ChainPart
            <4> QED
                BY <1>8, <3>0, <4>1, <4>2, <4>3
        <3>2. CASE k # Len(chain) + 1
            <4>1. k \in DOMAIN chain /\ made'[chain'[k]] = made[chain[k]]
                BY <1>4, <1>5, <1>6, <3>2
            <4>2. made[chain[k]].witness.old = BundleOf(Nth(chain, k - 1), genesis, made).s
                BY <4>1 DEF SyncInv, ChainPart
            <4> QED
                BY <1>8, <3>0, <4>1, <4>2
        <3> QED
            BY <3>1, <3>2
    <2> QED
        BY <1>1, <1>6, <2>1, <2>2, <2>3, <2>4 DEF ChainPart
<1>11. BlocksPart'
    BY <1>1, <1>7 DEF SyncInv, BlocksPart
<1>12. PricesPart'
    <2> SUFFICES ASSUME NEW p \in prices
                 PROVE  /\ p.id \in 1 .. txs + 1 /\ In(p.id, chain')
                        /\ p.h \in 1 .. settled - 1 /\ height'[p.id] = p.h
                        /\ p.bps = fee_free_yes_spot_price_bps(made'[p.id].s)
        BY <1>1 DEF PricesPart
    <2>1. /\ p.id \in 1 .. txs /\ In(p.id, chain) /\ p.h \in 1 .. settled - 1 /\ height[p.id] = p.h
          /\ p.bps = fee_free_yes_spot_price_bps(made[p.id].s)
        BY DEF SyncInv, PricesPart
    <2>2. In(p.id, chain')
        BY <1>4, <1>6, <2>1 DEF In
    <2> QED
        BY <1>4, <1>5, <1>7, <2>1, <2>2
<1>13. walk' = Asleep \/ WalkOK(walk', txs', chain', height', settled')
    <2>1. CASE walk = Asleep
        BY <1>1, <2>1
    <2>2. CASE WalkOK(walk, txs, chain, height, settled)
        BY <1>1, <1>4, <2>2, WalkGrows, SyncNumbers
    <2> QED
        BY <2>1, <2>2 DEF SyncInv
<1> QED
    BY <1>1, <1>9, <1>10, <1>11, <1>12, <1>13 DEF SyncInv

(* A row stays good when a transition is added. *)
LEMMA RowOlder ==
    ASSUME SyncInv, NEW leg, Enters(leg)
    PROVE  RowOK(row, txs + 1, genesis, made')
<1>1. txs \in Nat /\ made \in Seq(Transition) /\ Len(made) = txs
    BY SyncNumbers DEF SyncInv, PoolPart
<1>2. \A i \in 1 .. txs : made'[i] = made[i]
    BY <1>1 DEF Enters
<1> QED
    BY <1>1, <1>2, RowStays DEF SyncInv

(* Somebody trades. *)
LEMMA TradeStep ==
    ASSUME SyncInv, NEW w \in Wallets, NEW kind \in Kinds, NEW input \in Inputs,
           execute_trade(w, kind, input)
    PROVE  SyncInv'
<1> DEFINE q == Quotes[kind][sIndex][input]
           leg == SwapLeg(w, q.quote)
<1>1. /\ created /\ q.tag = "ok" /\ leg.deltaOut > 0 /\ SwapBuilds(leg)
      /\ Enters(Built(leg)) /\ UNCHANGED row
    BY DEF execute_trade
<1>2. LegOK(leg) /\ FreshOK(leg)
    <2> HIDE DEF q
    <2> QED
        BY <1>1, SwapLegOK DEF SyncInv, PoolPart, q
<1>3. leg.phase = "quoted" /\ leg.path = "swap" /\ leg.bundle = bundle
    BY DEF SwapLeg
<1>4. LegOK(Built(leg))
    <2> HIDE DEF leg
    <2> QED
        BY <1>1, <1>2, <1>3, BuiltOK
<1>5. Built(leg).path = "swap" /\ Built(leg).new = leg.new /\ Built(leg).old = leg.old
    <2> HIDE DEF leg
    <2> QED
        BY <1>2, <1>3 DEF Built, LegOK, Legs
<1>6. leg.old = sIndex /\ leg.new # leg.old
    BY <1>1, <1>2, <1>3 DEF FreshOK, SwapBuilds
<1>7. Built(leg).new \in 0 .. SMaxIndex /\ Built(leg).next \in ReserveSet
    <2> HIDE DEF leg
    <2> QED
        BY <1>4 DEF LegOK, Legs
<1> HIDE DEF leg
<1>8. RowOK(row', txs + 1, genesis, made')
    BY <1>1, RowOlder
<1> QED
    BY <1>1, <1>5, <1>6, <1>7, <1>8, EntersStep

(* The administrator adjusts or closes the pool, with a row that is as before *)
(* or holds the new bundle.                                                   *)
LEMMA AdjustStep ==
    ASSUME SyncInv, created, NEW next \in ReserveSet, Enters(AdjustLeg(Admin, next)),
           \/ UNCHANGED row
           \/ row' = ingest_lmsr_pool(row,
                [source |-> "canonical", s |-> sIndex, reserves |-> next, last |-> txs + 1,
                 terms |-> OwnParams, table |-> "good", event |-> "none"])
    PROVE  SyncInv'
<1> DEFINE leg == AdjustLeg(Admin, next)
           in == [source |-> "canonical", s |-> sIndex, reserves |-> next, last |-> txs + 1,
                  terms |-> OwnParams, table |-> "good", event |-> "none"]
<1>1. /\ leg.path = "admin" /\ leg.old = sIndex /\ leg.new = sIndex /\ leg.next = next
    BY DEF AdjustLeg
<1>2. sIndex \in 0 .. SMaxIndex /\ txs \in Nat /\ made \in Seq(Transition) /\ Len(made) = txs
    BY SyncNumbers DEF SyncInv, PoolPart, TypeOK
<1>3. RowOK(row, txs + 1, genesis, made')
    BY RowOlder
<1>4. BundleOf(txs + 1, genesis, made') = [s |-> sIndex, reserves |-> next]
    <2> DEFINE t == [witness |-> build_lmsr_primary_witness(leg), s |-> leg.new, reserves |-> leg.next]
    <2>1. made' = Append(made, t)
        BY DEF Enters
    <2>2. t.s = sIndex /\ t.reserves = next
        BY <1>1
    <2> HIDE DEF t
    <2>3. made'[txs + 1] = t
        BY <1>2, <2>1
    <2> QED
        BY <1>2, <2>2, <2>3 DEF BundleOf
<1>5. /\ in.source = "canonical" /\ in.s = sIndex /\ in.reserves = next /\ in.last = txs + 1
      /\ in.terms = OwnParams /\ in.table = "good" /\ in.event = "none"
    OBVIOUS
<1>6. row' = row \/ row' = ingest_lmsr_pool(row, in)
    OBVIOUS
<1> HIDE DEF in, leg
<1>7. RowOK(ingest_lmsr_pool(row, in), txs + 1, genesis, made')
    <2>1. /\ in.source \in {"announcement", "canonical"} /\ in.s \in 0 .. SMaxIndex
          /\ in.reserves \in ReserveSet /\ in.last \in 0 .. txs + 1 /\ in.terms = OwnParams
          /\ in.table \in Tables /\ in.event \in Tables /\ txs + 1 \in Nat
          /\ in.source = "canonical" =>
               BundleOf(in.last, genesis, made') = [s |-> in.s, reserves |-> in.reserves]
        BY <1>2, <1>4, <1>5 DEF Tables
    <2> QED
        BY <1>3, <2>1, IngestOK
<1>8. RowOK(row', txs + 1, genesis, made')
    BY <1>3, <1>6, <1>7
<1>9. Enters(leg)
    BY DEF leg
<1> QED
    BY <1>1, <1>2, <1>8, <1>9, EntersStep

-----------------------------------------------------------------------------
(* Blocks.                                                                  *)

(* A block: no height below the best block there ever was is new. *)
LEMMA MineStep ==
    ASSUME SyncInv, NEW k \in 0 .. Len(chain), Mine(k)
    PROVE  SyncInv'
<1>1. /\ tip < MaxHeight /\ tip' = tip + 1 /\ settled' = IF tip + 1 > settled THEN tip + 1 ELSE settled
      /\ UNCHANGED <<vars, made, chain, walk, row, prices>>
      /\ DOMAIN height' = DOMAIN height
      /\ \A n \in DOMAIN height : height'[n] = height[n] \/ (height[n] = 0 /\ height'[n] = tip + 1)
    BY DEF Mine
<1>2. /\ txs \in Nat /\ tip \in Nat /\ settled \in Nat /\ MaxHeight \in Nat
      /\ chain \in Seq(1 .. txs) /\ DOMAIN height = 1 .. txs
      /\ DOMAIN chain = 1 .. Len(chain) /\ \A i \in DOMAIN chain : chain[i] \in 1 .. txs
      /\ \A n \in 1 .. txs : height[n] \in 0 .. tip
    BY SyncNumbers
<1>3. settled' \in Nat /\ settled <= settled' /\ settled <= tip + 1
    BY <1>1, <1>2 DEF SyncInv, BlocksPart
<1>4. PoolPart' /\ ChainPart'
    <2>1. PoolPart'
        BY <1>1 DEF SyncInv, PoolPart, TypeOK, vars
    <2>2. ChainPart'
        BY <1>1 DEF SyncInv, ChainPart, vars
    <2> QED
        BY <2>1, <2>2
<1>5. BlocksPart'
    <2>1. height' = [n \in 1 .. txs |-> height'[n]]
        BY <1>2 DEF Mine
    <2>2. ASSUME NEW n \in 1 .. txs
          PROVE  height'[n] \in 0 .. tip + 1
        <3>1. height[n] \in 0 .. tip /\ tip \in Nat
            BY <1>2
        <3>2. height'[n] = height[n] \/ height'[n] = tip + 1
            BY <1>1, <1>2
        <3> QED
            BY <3>1, <3>2
    <2>3. height' \in [1 .. txs -> 0 .. tip + 1]
        BY <2>1, <2>2
    <2>4. txs' = txs
        BY <1>1 DEF vars
    <2> QED
        BY <1>1, <1>2, <2>3, <2>4 DEF SyncInv, BlocksPart
<1>6. RowOK(row', txs', genesis', made')
    BY <1>1 DEF SyncInv, vars
<1>7. PricesPart'
    <2>1. txs' = txs /\ chain' = chain /\ made' = made /\ prices' = prices
        BY <1>1 DEF vars
    <2>2. ASSUME NEW p \in prices
          PROVE  /\ p.id \in 1 .. txs /\ In(p.id, chain)
                 /\ p.h \in 1 .. settled' - 1 /\ height'[p.id] = p.h
                 /\ p.bps = fee_free_yes_spot_price_bps(made[p.id].s)
        <3>1. /\ p.id \in 1 .. txs /\ In(p.id, chain) /\ p.h \in 1 .. settled - 1 /\ height[p.id] = p.h
              /\ p.bps = fee_free_yes_spot_price_bps(made[p.id].s)
            BY <2>2 DEF SyncInv, PricesPart
        <3>2. p.h \in 1 .. settled' - 1
            BY <1>2, <1>3, <3>1
        <3>3. height[p.id] # 0
            BY <1>2, <3>1
        <3> QED
            BY <1>1, <1>2, <3>1, <3>2, <3>3
    <2> QED
        BY <2>1, <2>2 DEF PricesPart
<1>8. walk' = Asleep \/ WalkOK(walk', txs', chain', height', settled')
    <2>1. txs' = txs /\ chain' = chain /\ walk' = walk
        BY <1>1 DEF vars
    <2>2. CASE walk = Asleep
        BY <2>1, <2>2
    <2>3. CASE WalkOK(walk, txs, chain, height, settled)
        <3>1. walk.best \in Nat /\ walk.best <= settled /\ walk.seen \in Seq([id : 1 .. txs, h : Nat])
            BY <2>3 DEF WalkOK, Walks
        <3>2. \A i \in DOMAIN walk.seen : walk.seen[i].id \in 1 .. txs /\ walk.seen[i].h \in Nat
            BY <1>2, <3>1, SeenElements
        <3>3. ASSUME NEW n \in 1 .. txs
              PROVE  /\ height'[n] \in 1 .. walk.best - 1 => height'[n] = height[n]
                     /\ height[n] \in 1 .. walk.best - 1 => height'[n] = height[n]
            <4>1. height'[n] = height[n] \/ (height[n] = 0 /\ height'[n] = tip + 1)
                BY <1>1, <1>2
            <4>2. tip \in Nat /\ settled \in Nat /\ settled <= tip + 1
                BY <1>2, <1>3
            <4> QED
                BY <3>1, <4>1, <4>2
        <3>4. Reliable(walk.seen, walk.best, chain, height')
            <4> SUFFICES ASSUME NEW i \in DOMAIN walk.seen
                         PROVE  /\ walk.seen[i].h \in 1 .. walk.best - 1 =>
                                     In(walk.seen[i].id, chain) /\ height'[walk.seen[i].id] = walk.seen[i].h
                                /\ height'[walk.seen[i].id] \in 1 .. walk.best - 1 =>
                                     walk.seen[i].h = height'[walk.seen[i].id]
                BY DEF Reliable
            <4>1. /\ walk.seen[i].h \in 1 .. walk.best - 1 =>
                       In(walk.seen[i].id, chain) /\ height[walk.seen[i].id] = walk.seen[i].h
                  /\ height[walk.seen[i].id] \in 1 .. walk.best - 1 =>
                       walk.seen[i].h = height[walk.seen[i].id]
                BY <2>3 DEF WalkOK, Reliable
            <4> QED
                BY <3>2, <3>3, <4>1
        <3>5. walk.pc \in {"persist", "record"} =>
                \A j \in DOMAIN chain : height'[chain[j]] \in 1 .. walk.best - 1 =>
                    \E i \in DOMAIN walk.seen : walk.seen[i].id = chain[j]
            BY <1>2, <2>3, <3>3 DEF WalkOK
        <3>6. walk.best <= settled'
            BY <1>2, <1>3, <3>1
        <3>7. WalkOK(walk, txs, chain, height', settled')
            BY <2>3, <3>4, <3>5, <3>6 DEF WalkOK
        <3> QED
            BY <2>1, <3>7
    <2> QED
        BY <2>2, <2>3 DEF SyncInv
<1> QED
    BY <1>4, <1>5, <1>6, <1>7, <1>8 DEF SyncInv

(* What is still on a chain that lost its end stands where it stood. *)
LEMMA CutChain ==
    ASSUME NEW n \in Nat, NEW ch \in Seq(1 .. n), NEW k \in 0 .. Len(ch),
           \A i, j \in DOMAIN ch : i < j => ch[i] < ch[j]
    PROVE  /\ SubSeq(ch, 1, k) \in Seq(1 .. n) /\ Len(SubSeq(ch, 1, k)) = k
           /\ DOMAIN SubSeq(ch, 1, k) = 1 .. k /\ Len(ch) \in Nat /\ DOMAIN ch = 1 .. Len(ch)
           /\ \A i \in 1 .. k : i \in DOMAIN ch /\ SubSeq(ch, 1, k)[i] = ch[i] /\ ch[i] \in 1 .. n
           /\ \A x : In(x, SubSeq(ch, 1, k)) => In(x, ch)
           /\ \A i \in DOMAIN ch : In(ch[i], SubSeq(ch, 1, k)) <=> i <= k
<1> DEFINE c2 == SubSeq(ch, 1, k)
<1>1. Len(ch) \in Nat /\ DOMAIN ch = 1 .. Len(ch) /\ k \in Nat /\ k <= Len(ch)
    OBVIOUS
<1>2. \A i \in DOMAIN ch : ch[i] \in 1 .. n
    BY <1>1
<1>3. c2 \in Seq(1 .. n) /\ Len(c2) = k /\ DOMAIN c2 = 1 .. k /\ \A i \in 1 .. k : c2[i] = ch[i]
    BY <1>1
<1> HIDE DEF c2
<1>4. \A i \in 1 .. k : i \in DOMAIN ch
    BY <1>1
<1>5. \A x : In(x, c2) => In(x, ch)
    BY <1>3, <1>4 DEF In
<1>6. ASSUME NEW i \in DOMAIN ch
      PROVE  In(ch[i], c2) <=> i <= k
    <2>1. ch[i] \in Nat /\ ch[i] # 0
        BY <1>2
    <2>2. i <= k => i \in 1 .. k
        BY <1>1
    <2>3. ASSUME NEW j \in 1 .. k, c2[j] = ch[i]
          PROVE  i <= k
        <3>1. j \in DOMAIN ch /\ ch[j] = ch[i] /\ ch[j] \in Nat
            BY <1>2, <1>3, <1>4, <2>1, <2>3
        <3>2. ~(j < i) /\ i \in Nat /\ j \in Nat
            BY <1>1, <3>1
        <3> QED
            BY <1>1, <3>2
    <2> QED
        BY <1>3, <2>1, <2>2, <2>3 DEF In
<1> QED
    BY <1>1, <1>2, <1>3, <1>4, <1>5, <1>6 DEF c2

(* A walk under which the chain lost its last block. *)
LEMMA WalkRaced ==
    ASSUME NEW w, NEW n \in Nat, NEW ch \in Seq(1 .. n), NEW ht, NEW top \in Nat,
           NEW k \in 0 .. Len(ch), NEW h2,
           \A i, j \in DOMAIN ch : i < j => ch[i] < ch[j],
           \A x \in 1 .. n : ht[x] \in Nat,
           \A i \in k + 1 .. Len(ch) : ht[ch[i]] \in {0, top},
           \A x \in 1 .. n : h2[x] = IF ht[x] = top THEN 0 ELSE ht[x],
           WalkOK(w, n, ch, ht, top)
    PROVE  WalkOK(IF w.pc \in {"bundle", "height"} THEN [w EXCEPT !.raced = TRUE] ELSE w,
                  n, SubSeq(ch, 1, k), h2, top)
<1> DEFINE c2 == SubSeq(ch, 1, k)
           v == IF w.pc \in {"bundle", "height"} THEN [w EXCEPT !.raced = TRUE] ELSE w
<1>1. /\ c2 \in Seq(1 .. n) /\ Len(c2) = k /\ DOMAIN c2 = 1 .. k /\ Len(ch) \in Nat
      /\ DOMAIN ch = 1 .. Len(ch)
      /\ \A i \in 1 .. k : i \in DOMAIN ch /\ c2[i] = ch[i] /\ ch[i] \in 1 .. n
      /\ \A x : In(x, c2) => In(x, ch)
      /\ \A i \in DOMAIN ch : In(ch[i], c2) <=> i <= k
    BY CutChain
<1>2. /\ w \in Walks(n) /\ w.best \in Nat /\ w.best <= top
      /\ w.seen \in Seq([id : 1 .. n, h : Nat])
    BY DEF WalkOK, Walks
<1>3. /\ v \in Walks(n) /\ v.best = w.best /\ v.at = w.at /\ v.next = w.next /\ v.seen = w.seen
      /\ v.pc = w.pc /\ v.steps = w.steps
      /\ w.pc \in {"bundle", "height"} => v.raced
      /\ w.pc \notin {"bundle", "height"} => v = w
    BY <1>2 DEF Walks
<1>4. /\ Len(w.seen) \in Nat /\ DOMAIN w.seen = 1 .. Len(w.seen)
      /\ \A i \in DOMAIN w.seen : w.seen[i].id \in 1 .. n /\ w.seen[i].h \in Nat
    BY <1>2, SeenElements
<1> HIDE DEF c2, v
<1>5. ASSUME NEW x \in 1 .. n
      PROVE  /\ h2[x] \in 1 .. w.best - 1 => h2[x] = ht[x]
             /\ ht[x] \in 1 .. w.best - 1 => h2[x] = ht[x]
             /\ ht[x] \in 1 .. w.best - 1 /\ In(x, ch) => In(x, c2)
    <2>1. ht[x] \in Nat /\ h2[x] = IF ht[x] = top THEN 0 ELSE ht[x]
        OBVIOUS
    <2>2. ASSUME ht[x] \in 1 .. w.best - 1, In(x, ch)
          PROVE  In(x, c2)
        <3>1. PICK i \in DOMAIN ch : ch[i] = x
            BY <2>2 DEF In
        <3>2. ht[x] \notin {0, top}
            BY <1>2, <2>2
        <3>3. i \notin k + 1 .. Len(ch)
            BY <3>1, <3>2
        <3>4. i <= k
            BY <1>1, <3>3
        <3> QED
            BY <1>1, <3>1, <3>4
    <2> QED
        BY <1>2, <2>1, <2>2
<1>6. Reliable(w.seen, w.best, c2, h2)
    <2> SUFFICES ASSUME NEW i \in DOMAIN w.seen
                 PROVE  /\ w.seen[i].h \in 1 .. w.best - 1 =>
                             In(w.seen[i].id, c2) /\ h2[w.seen[i].id] = w.seen[i].h
                        /\ h2[w.seen[i].id] \in 1 .. w.best - 1 => w.seen[i].h = h2[w.seen[i].id]
        BY DEF Reliable
    <2>1. /\ w.seen[i].h \in 1 .. w.best - 1 => In(w.seen[i].id, ch) /\ ht[w.seen[i].id] = w.seen[i].h
          /\ ht[w.seen[i].id] \in 1 .. w.best - 1 => w.seen[i].h = ht[w.seen[i].id]
        BY DEF WalkOK, Reliable
    <2>2. w.seen[i].id \in 1 .. n
        BY <1>4
    <2> QED
        BY <1>5, <2>1, <2>2
<1>7. ASSUME Len(w.seen) <= k, Visited(w.seen, ch)
      PROVE  Visited(w.seen, c2)
    <2>1. \A i \in 1 .. Len(w.seen) : i \in 1 .. k /\ w.seen[i].id = ch[i]
        BY <1>4, <1>7 DEF Visited
    <2> QED
        BY <1>1, <1>7, <2>1 DEF Visited
<1>8. w.pc = "bundle" => (In(w.at, c2) => Visited(w.seen, c2))
    <2> SUFFICES ASSUME w.pc = "bundle", In(w.at, c2)
                 PROVE  Visited(w.seen, c2)
        OBVIOUS
    <2>1. Visited(w.seen, ch)
        BY <1>1 DEF WalkOK
    <2>2. Len(w.seen) \in 0 .. Len(ch) /\ w.at = Nth(ch, Len(w.seen))
        BY <1>2, <2>1, WalkStands DEF WalkOK
    <2>3. Len(w.seen) <= k
        <3>1. CASE Len(w.seen) = 0
            BY <3>1
        <3>2. CASE Len(w.seen) # 0
            <4>1. Len(w.seen) \in DOMAIN ch /\ w.at = ch[Len(w.seen)]
                BY <1>1, <2>2, <3>2 DEF Nth
            <4> QED
                BY <1>1, <4>1
        <3> QED
            BY <3>1, <3>2
    <2> QED
        BY <1>7, <2>1, <2>3
<1>9. w.pc = "height" =>
        /\ w.next # 0
        /\ In(w.next, c2) =>
             /\ Visited(w.seen, c2) /\ Len(w.seen) < Len(c2) /\ c2[Len(w.seen) + 1] = w.next
    <2> SUFFICES ASSUME w.pc = "height", In(w.next, c2)
                 PROVE  /\ Visited(w.seen, c2) /\ Len(w.seen) < Len(c2)
                        /\ c2[Len(w.seen) + 1] = w.next
        BY DEF WalkOK
    <2>1. Visited(w.seen, ch) /\ Len(w.seen) < Len(ch) /\ ch[Len(w.seen) + 1] = w.next
        BY <1>1 DEF WalkOK
    <2>2. Len(w.seen) + 1 \in DOMAIN ch
        BY <1>1, <1>4, <2>1
    <2>3. Len(w.seen) + 1 <= k
        BY <1>1, <2>1, <2>2
    <2>4. Len(w.seen) <= k /\ Len(w.seen) < k /\ Len(w.seen) + 1 \in 1 .. k
        BY <1>4, <2>3
    <2> QED
        BY <1>1, <1>7, <2>1, <2>4
<1>10. w.pc \in {"persist", "record"} =>
         \A j \in DOMAIN c2 : h2[c2[j]] \in 1 .. w.best - 1 =>
             \E i \in DOMAIN w.seen : w.seen[i].id = c2[j]
    <2> SUFFICES ASSUME w.pc \in {"persist", "record"}, NEW j \in DOMAIN c2,
                        h2[c2[j]] \in 1 .. w.best - 1
                 PROVE  \E i \in DOMAIN w.seen : w.seen[i].id = c2[j]
        OBVIOUS
    <2>1. j \in DOMAIN ch /\ c2[j] = ch[j] /\ ch[j] \in 1 .. n
        BY <1>1
    <2>2. ht[ch[j]] \in 1 .. w.best - 1
        BY <1>5, <2>1
    <2> QED
        BY <2>1, <2>2 DEF WalkOK
<1>11. w.pc = "error" => w.raced \/ w.steps >= WalkLimit
    BY DEF WalkOK
<1>12. w.at = IF w.seen = <<>> THEN 0 ELSE w.seen[Len(w.seen)].id
    BY DEF WalkOK
<1>13. WalkOK(v, n, c2, h2, top)
    BY <1>2, <1>3, <1>6, <1>8, <1>9, <1>10, <1>11, <1>12 DEF WalkOK
<1> QED
    BY <1>13 DEF c2, v

(* The last block is lost, which nothing recorded is in. *)
LEMMA ReorgStep ==
    ASSUME SyncInv, NEW k \in 0 .. Len(chain), Reorg(k)
    PROVE  SyncInv'
<1> DEFINE last == Nth(chain, k)
<1>1. /\ tip > 0 /\ tip > settled - 1 /\ tip' = tip - 1
      /\ \A i \in k + 1 .. Len(chain) : height[chain[i]] \in {0, tip}
      /\ chain' = SubSeq(chain, 1, k)
      /\ height' = [n \in DOMAIN height |-> IF height[n] = tip THEN 0 ELSE height[n]]
      /\ bundle' = last /\ sIndex' = BundleAt(last).s /\ reserves' = BundleAt(last).reserves
      /\ walk' = IF Walking THEN [walk EXCEPT !.raced = TRUE] ELSE walk
      /\ UNCHANGED <<created, genesis, txs, pending, made, settled, row, prices>>
    BY SyncAssumption DEF Reorg, Nth
<1>2. /\ txs \in Nat /\ tip \in Nat /\ settled \in Nat /\ tip = settled
      /\ chain \in Seq(1 .. txs) /\ DOMAIN height = 1 .. txs
      /\ \A n \in 1 .. txs : height[n] \in 0 .. tip
      /\ \A i, j \in DOMAIN chain : i < j => chain[i] < chain[j]
    <2>1. tip <= settled
        BY SyncNumbers DEF SyncInv, BlocksPart
    <2> QED
        BY <1>1, <2>1, SyncNumbers DEF SyncInv, ChainPart
<1>3. /\ chain' \in Seq(1 .. txs) /\ Len(chain') = k /\ DOMAIN chain' = 1 .. k /\ Len(chain) \in Nat
      /\ DOMAIN chain = 1 .. Len(chain)
      /\ \A i \in 1 .. k : i \in DOMAIN chain /\ chain'[i] = chain[i] /\ chain[i] \in 1 .. txs
      /\ \A x : In(x, chain') => In(x, chain)
      /\ \A i \in DOMAIN chain : In(chain[i], chain') <=> i <= k
    <2> DEFINE c2 == SubSeq(chain, 1, k)
    <2>1. /\ c2 \in Seq(1 .. txs) /\ Len(c2) = k /\ DOMAIN c2 = 1 .. k /\ Len(chain) \in Nat
          /\ DOMAIN chain = 1 .. Len(chain)
          /\ \A i \in 1 .. k : i \in DOMAIN chain /\ c2[i] = chain[i] /\ chain[i] \in 1 .. txs
          /\ \A x : In(x, c2) => In(x, chain)
          /\ \A i \in DOMAIN chain : In(chain[i], c2) <=> i <= k
        BY <1>2, CutChain
    <2>2. chain' = c2
        BY <1>1
    <2> HIDE DEF c2
    <2> QED
        BY <2>1, <2>2
<1>4. last \in 0 .. txs /\ BundleAt(last) = BundleOf(last, genesis, made)
    <2>1. last \in 0 .. txs
        BY <1>2, <1>3 DEF Nth
    <2> QED
        BY <2>1, SameBundle
<1>5. /\ BundleAt(last).s \in 0 .. SMaxIndex /\ BundleAt(last).reserves \in ReserveSet
      /\ BundleAt(last) = [s |-> BundleAt(last).s, reserves |-> BundleAt(last).reserves]
    <2>1. CASE last = 0
        BY <2>1 DEF SyncInv, PoolPart, TypeOK, BundleAt
    <2>2. CASE last # 0
        <3>1. made[last] \in Transition
            BY <1>2, <1>4, <2>2 DEF SyncInv, PoolPart
        <3> QED
            BY <3>1, <2>2 DEF Transition, BundleAt
    <2> QED
        BY <2>1, <2>2
<1> HIDE DEF last
<1>6. PoolPart'
    <2>1. TypeOK'
        BY <1>1, <1>4, <1>5 DEF SyncInv, PoolPart, TypeOK
    <2>2. walk = Asleep => walk' = Asleep
        BY <1>1 DEF Walking, Asleep
    <2> QED
        BY <1>1, <2>1, <2>2 DEF SyncInv, PoolPart
<1>7. ChainPart'
    <2>1. \A i, j \in DOMAIN chain' : i < j => chain'[i] < chain'[j]
        BY <1>2, <1>3
    <2>2. bundle' = Nth(chain', Len(chain'))
        BY <1>1, <1>3 DEF last, Nth
    <2>3. BundleOf(bundle', genesis, made) = [s |-> sIndex', reserves |-> reserves']
        BY <1>1, <1>4, <1>5
    <2>4. ASSUME NEW i \in DOMAIN chain'
          PROVE  made[chain'[i]].witness.old = BundleOf(Nth(chain', i - 1), genesis, made).s
        <3>1. i \in DOMAIN chain /\ chain'[i] = chain[i] /\ i \in 1 .. k
            BY <1>3
        <3>2. Nth(chain', i - 1) = Nth(chain, i - 1)
            <4>1. i - 1 = 0 \/ i - 1 \in 1 .. k
                BY <3>1
            <4> QED
                BY <1>3, <4>1 DEF Nth
        <3> QED
            BY <3>1, <3>2 DEF SyncInv, ChainPart
    <2> QED
        BY <1>1, <1>3, <2>1, <2>2, <2>3, <2>4 DEF ChainPart
<1>8. BlocksPart'
    <2>1. tip - 1 \in Nat
        BY <1>1, <1>2
    <2>2. ASSUME NEW n \in 1 .. txs
          PROVE  (IF height[n] = tip THEN 0 ELSE height[n]) \in 0 .. tip - 1
        BY <1>2, <2>1
    <2>3. height' \in [1 .. txs -> 0 .. tip - 1]
        BY <1>1, <1>2, <2>2
    <2> QED
        BY <1>1, <1>2, <2>1, <2>3 DEF SyncInv, BlocksPart
<1>9. PricesPart'
    <2> SUFFICES ASSUME NEW p \in prices
                 PROVE  /\ p.id \in 1 .. txs /\ In(p.id, chain')
                        /\ p.h \in 1 .. settled - 1 /\ height'[p.id] = p.h
                        /\ p.bps = fee_free_yes_spot_price_bps(made[p.id].s)
        BY <1>1 DEF PricesPart
    <2>1. /\ p.id \in 1 .. txs /\ In(p.id, chain) /\ p.h \in 1 .. settled - 1 /\ height[p.id] = p.h
          /\ p.bps = fee_free_yes_spot_price_bps(made[p.id].s)
        BY DEF SyncInv, PricesPart
    <2>2. height[p.id] \notin {0, tip}
        BY <1>2, <2>1
    <2>3. PICK i \in DOMAIN chain : chain[i] = p.id
        BY <2>1 DEF In
    <2>4. i \notin k + 1 .. Len(chain)
        BY <1>1, <2>2, <2>3
    <2>5. i <= k
        BY <1>3, <2>4
    <2> QED
        BY <1>1, <1>2, <1>3, <2>1, <2>2, <2>3, <2>5
<1>10. walk' = Asleep \/ WalkOK(walk', txs', chain', height', settled')
    <2>1. CASE walk = Asleep
        BY <1>1, <2>1 DEF Walking, Asleep
    <2>2. CASE WalkOK(walk, txs, chain, height, settled)
        <3>1. \A x \in 1 .. txs : height[x] \in Nat
            BY <1>2
        <3>2. \A x \in 1 .. txs : height'[x] = IF height[x] = settled THEN 0 ELSE height[x]
            BY <1>1, <1>2
        <3>3. \A i \in k + 1 .. Len(chain) : height[chain[i]] \in {0, settled}
            BY <1>1, <1>2
        <3>4. walk' = IF walk.pc \in {"bundle", "height"} THEN [walk EXCEPT !.raced = TRUE] ELSE walk
            BY <1>1 DEF Walking
        <3>5. WalkOK(walk', txs, SubSeq(chain, 1, k), height', settled)
            BY <1>2, <2>2, <3>1, <3>2, <3>3, <3>4, WalkRaced
        <3> QED
            BY <1>1, <3>5
    <2> QED
        BY <2>1, <2>2 DEF SyncInv
<1>11. RowOK(row', txs', genesis', made')
    BY <1>1 DEF SyncInv
<1> QED
    BY <1>6, <1>7, <1>8, <1>9, <1>10, <1>11 DEF SyncInv

-----------------------------------------------------------------------------
(* Quotes, scans and announcements.                                         *)

(* What fetch_pools stores. *)
LEMMA FetchedOK ==
    ASSUME SyncInv, NEW found
    PROVE  RowOK(Fetched(found), txs, genesis, made)
<1>1. RowOK(row, txs, genesis, made) /\ txs \in Nat
    BY SyncNumbers DEF SyncInv
<1>2. \E a : Fetched(found) = row \/ Fetched(found) = persist_pool_to_store(row, a)
    BY DEF Fetched
<1> QED
    BY <1>1, <1>2, AnnouncedOK

(* What a scan stores, step by step, whatever fails. *)
LEMMA ScannedOK ==
    ASSUME SyncInv, NEW r, RowOK(r, txs, genesis, made), NEW new \in Scanned(r)
    PROVE  RowOK(new, txs, genesis, made)
<1>1. bundle \in 0 .. txs /\ "none" \in Tables
    BY SyncNumbers DEF Tables
<1>2. /\ RowOK(ingest_lmsr_pool(r, Snapshot(bundle, "none")), txs, genesis, made)
      /\ RowOK(upsert_lmsr_pool_state(r, bundle), txs, genesis, made)
    BY <1>1, StoredOK
<1> QED
    BY <1>2 DEF Scanned

(* All that only the store sees. *)
LEMMA StoreStep ==
    ASSUME SyncInv,
           \/ \E found \in Answers : quote_trade(found)
           \/ scan_lmsr_pool \/ scan_lmsr_pool_inner \/ scan_for_adjust
           \/ \E e \in Parsed : Announced(e)
    PROVE  SyncInv'
<1>0. RowOK(row, txs, genesis, made) /\ txs \in Nat /\ bundle \in 0 .. txs
    BY SyncNumbers DEF SyncInv
<1>1. ASSUME NEW found, quote_trade(found)
      PROVE  SyncInv'
    <2>1. /\ created /\ UNCHANGED <<vars, chainVars, walk, prices>>
          /\ \/ row' = Fetched(found)
             \/ row' = upsert_lmsr_pool_state(Fetched(found), bundle)
        BY <1>1 DEF quote_trade
    <2>2. RowOK(row', txs, genesis, made)
        <3>1. RowOK(Fetched(found), txs, genesis, made)
            BY FetchedOK
        <3>2. RowOK(upsert_lmsr_pool_state(Fetched(found), bundle), txs, genesis, made)
            BY <1>0, <3>1, StoredOK DEF Tables
        <3> QED
            BY <2>1, <3>1, <3>2
    <2> QED
        BY <2>1, <2>2, RowStep
<1>2. CASE scan_lmsr_pool
    <2>1. RowOK(row', txs, genesis, made)
        BY <1>0, <1>2, ScannedOK DEF scan_lmsr_pool
    <2> QED
        BY <1>2, <2>1, RowStep DEF scan_lmsr_pool
<1>3. CASE scan_lmsr_pool_inner
    <2>1. RowOK(row', txs, genesis, made)
        BY <1>3, RepairOK, ScannedOK DEF scan_lmsr_pool_inner
    <2> QED
        BY <1>3, <2>1, RowStep DEF scan_lmsr_pool_inner
<1>4. CASE scan_for_adjust
    <2>1. row' \in {row, ingest_lmsr_pool(row, Snapshot(bundle, "none"))}
        BY <1>4 DEF scan_for_adjust, persist_lmsr_pool_snapshot
    <2>2. RowOK(row', txs, genesis, made)
        BY <1>0, <2>1, ScannedOK DEF Scanned
    <2> QED
        BY <1>4, <2>2, RowStep DEF scan_for_adjust
<1>5. ASSUME NEW e, Announced(e)
      PROVE  SyncInv'
    <2>1. RowOK(row', txs, genesis, made)
        BY <1>0, <1>5, AnnouncedOK DEF Announced
    <2> QED
        BY <1>5, <2>1, RowStep DEF Announced
<1> QED
    BY <1>1, <1>2, <1>3, <1>4, <1>5

-----------------------------------------------------------------------------
(* The walk.                                                                *)

(* Only the node's own state changes. *)
LEMMA WalkStep ==
    ASSUME SyncInv, created, UNCHANGED <<vars, chainVars>>, RowOK(row', txs, genesis, made),
           \A p \in prices' :
               /\ p.id \in 1 .. txs /\ In(p.id, chain)
               /\ p.h \in 1 .. settled - 1 /\ height[p.id] = p.h
               /\ p.bps = fee_free_yes_spot_price_bps(made[p.id].s),
           walk' = Asleep \/ WalkOK(walk', txs, chain, height, settled)
    PROVE  SyncInv'
<1>1. PoolPart'
    BY DEF SyncInv, PoolPart, TypeOK, vars, chainVars
<1>2. ChainPart'
    BY DEF SyncInv, ChainPart, vars, chainVars
<1>3. BlocksPart' /\ PricesPart'
    BY DEF SyncInv, BlocksPart, PricesPart, vars, chainVars
<1> QED
    BY <1>1, <1>2, <1>3 DEF SyncInv, vars, chainVars

(* A walk is under way. *)
LEMMA Awake ==
    ASSUME SyncInv, walk # Asleep
    PROVE  /\ created /\ WalkOK(walk, txs, chain, height, settled) /\ walk \in Walks(txs)
           /\ Len(walk.seen) \in Nat /\ DOMAIN walk.seen = 1 .. Len(walk.seen)
           /\ \A i \in DOMAIN walk.seen : walk.seen[i].id \in 1 .. txs /\ walk.seen[i].h \in Nat
<1>1. created /\ WalkOK(walk, txs, chain, height, settled) /\ walk \in Walks(txs)
    BY DEF SyncInv, PoolPart, WalkOK
<1>2. walk.seen \in Seq([id : 1 .. txs, h : Nat])
    BY <1>1 DEF Walks
<1> QED
    BY <1>1, <1>2, SyncNumbers, SeenElements

(* The sync begins. *)
LEMMA StartStep ==
    ASSUME SyncInv, SyncStart
    PROVE  SyncInv'
<1>1. /\ created /\ row' = RepairedRow /\ UNCHANGED <<vars, chainVars, prices>>
      /\ walk' = [pc |-> "bundle", at |-> 0, hint |-> row.s, steps |-> 0, best |-> tip, next |-> 0,
                  seen |-> <<>>, table |-> RepairedRow.table, raced |-> FALSE]
    BY DEF SyncStart
<1>2. RowOK(row', txs, genesis, made) /\ RepairedRow.table \in Tables
    BY <1>1, RepairOK
<1>3. row.s \in 0 .. SMaxIndex
    BY DEF SyncInv, RowOK, Rows
<1>4. /\ txs \in Nat /\ tip \in Nat /\ tip <= settled /\ chain \in Seq(1 .. txs)
    BY SyncNumbers DEF SyncInv, BlocksPart
<1>5. walk' \in Walks(txs)
    BY <1>1, <1>2, <1>3, <1>4 DEF Walks
<1>6. /\ walk'.pc = "bundle" /\ walk'.at = 0 /\ walk'.seen = <<>> /\ walk'.best = tip
    BY <1>1
<1>7. WalkOK(walk', txs, chain, height, settled)
    <2>1. Visited(<<>>, chain) /\ Reliable(<<>>, tip, chain, height) /\ In(0, chain)
        BY <1>4 DEF Visited, Reliable, In
    <2> QED
        BY <1>4, <1>5, <1>6, <2>1 DEF WalkOK
<1>8. prices' = prices
    BY <1>1
<1> QED
    BY <1>1, <1>2, <1>7, <1>8, WalkStep DEF SyncInv, PricesPart

(* A walk looks for the spender of the bundle it stands at. *)
LEMMA FindStep ==
    ASSUME SyncInv, FindSpender
    PROVE  SyncInv'
<1> DEFINE next == Spender(walk.at)
<1>1. /\ walk.pc = "bundle" /\ UNCHANGED <<vars, chainVars, row, prices>>
      /\ \/ (LimitReached \/ ~OnChain(walk.at)) /\ walk' = [walk EXCEPT !.pc = "error"]
         \/ /\ ~LimitReached /\ OnChain(walk.at) /\ next = 0
            /\ walk' = [walk EXCEPT !.pc = "persist"]
         \/ /\ ~LimitReached /\ OnChain(walk.at) /\ next # 0
            /\ walk' = [walk EXCEPT !.pc = "height", !.next = next, !.steps = walk.steps + 1]
    BY DEF FindSpender, Fails
<1>2. walk # Asleep
    BY <1>1 DEF Asleep
<1>3. /\ created /\ WalkOK(walk, txs, chain, height, settled) /\ walk \in Walks(txs)
      /\ Len(walk.seen) \in Nat /\ DOMAIN walk.seen = 1 .. Len(walk.seen)
    BY <1>2, Awake
<1>4. txs \in Nat /\ chain \in Seq(1 .. txs) /\ WalkLimit \in Nat /\ Len(chain) \in Nat
      /\ DOMAIN chain = 1 .. Len(chain)
    BY SyncNumbers
<1>5. OnChain(walk.at) => In(walk.at, chain)
    BY SameBundle
<1>6. ~OnChain(walk.at) => walk.raced
    BY <1>1, <1>3, SameBundle DEF WalkOK
<1>7. ASSUME OnChain(walk.at)
      PROVE  /\ Visited(walk.seen, chain)
             /\ next = IF Len(walk.seen) < Len(chain) THEN chain[Len(walk.seen) + 1] ELSE 0
             /\ Len(walk.seen) < Len(chain) => chain[Len(walk.seen) + 1] \in 1 .. txs
             /\ Len(walk.seen) <= Len(chain)
    <2>1. Visited(walk.seen, chain)
        BY <1>1, <1>3, <1>5, <1>7 DEF WalkOK
    <2>2. Len(walk.seen) \in 0 .. Len(chain) /\ walk.at = Nth(chain, Len(walk.seen))
        BY <1>3, <1>4, <2>1, WalkStands DEF WalkOK
    <2> QED
        BY <2>1, <2>2, SpenderOfNth
<1> HIDE DEF next
<1>8. WalkOK(walk', txs, chain, height, settled)
    <2>1. CASE (LimitReached \/ ~OnChain(walk.at)) /\ walk' = [walk EXCEPT !.pc = "error"]
        <3>1. /\ walk' \in Walks(txs) /\ walk'.pc = "error" /\ walk'.best = walk.best
              /\ walk'.at = walk.at /\ walk'.seen = walk.seen /\ walk'.raced = walk.raced
              /\ walk'.steps = walk.steps /\ walk.steps \in Nat
            BY <1>3, <2>1 DEF Walks
        <3>2. walk.raced \/ walk.steps >= WalkLimit
            BY <1>4, <1>6, <2>1, <3>1 DEF LimitReached
        <3> QED
            BY <1>3, <3>1, <3>2 DEF WalkOK
    <2>2. CASE OnChain(walk.at) /\ next = 0 /\ walk' = [walk EXCEPT !.pc = "persist"]
        <3>1. /\ walk' \in Walks(txs) /\ walk'.pc = "persist" /\ walk'.best = walk.best
              /\ walk'.at = walk.at /\ walk'.seen = walk.seen
            BY <1>3, <2>2 DEF Walks
        <3>2. Len(walk.seen) = Len(chain)
            BY <1>3, <1>4, <1>7, <2>2
        <3>3. \A k \in DOMAIN chain : \E i \in DOMAIN walk.seen : walk.seen[i].id = chain[k]
            BY <1>3, <1>4, <1>7, <2>2, <3>2 DEF Visited
        <3> QED
            BY <1>3, <3>1, <3>3 DEF WalkOK
    <2>3. CASE /\ OnChain(walk.at) /\ next # 0
               /\ walk' = [walk EXCEPT !.pc = "height", !.next = next, !.steps = walk.steps + 1]
        <3>1. Len(walk.seen) < Len(chain) /\ next = chain[Len(walk.seen) + 1] /\ next \in 1 .. txs
            BY <1>7, <2>3
        <3>2. /\ walk' \in Walks(txs) /\ walk'.pc = "height" /\ walk'.best = walk.best
              /\ walk'.at = walk.at /\ walk'.seen = walk.seen /\ walk'.next = next
            <4>1. next \in 0 .. txs
                BY <1>4, <3>1
            <4>2. walk.steps + 1 \in Nat
                BY <1>3 DEF Walks
            <4> QED
                BY <1>3, <2>3, <4>1, <4>2 DEF Walks
        <3>3. In(next, chain)
            <4>1. Len(walk.seen) + 1 \in DOMAIN chain
                BY <1>3, <1>4, <3>1
            <4> QED
                BY <3>1, <4>1 DEF In
        <3>4. next # 0
            BY <2>3
        <3> QED
            BY <1>3, <1>7, <2>3, <3>1, <3>2, <3>3, <3>4 DEF WalkOK
    <2> QED
        BY <1>1, <2>1, <2>2, <2>3
<1> QED
    BY <1>1, <1>3, <1>8, WalkStep DEF SyncInv, PricesPart

(* A walk whose chain stands finds every transition in order. *)
LEMMA PayloadFits ==
    ASSUME SyncInv, walk.pc = "height", In(walk.next, chain)
    PROVE  /\ PayloadOk(decode_primary_witness_payload(walk.next))
           /\ extract_reserve_window(walk.next).script
                = script_pubkey(decode_primary_witness_payload(walk.next).new)
           /\ decode_primary_witness_payload(walk.next).new \in 0 .. SMaxIndex
<1> DEFINE k == Len(walk.seen)
           n == walk.next
           t == made[n]
<1>1. walk # Asleep
    BY DEF Asleep
<1>2. /\ WalkOK(walk, txs, chain, height, settled) /\ walk \in Walks(txs) /\ k \in Nat
    BY <1>1, Awake
<1>3. txs \in Nat /\ chain \in Seq(1 .. txs) /\ Len(chain) \in Nat /\ DOMAIN chain = 1 .. Len(chain)
    BY SyncNumbers
<1>4. /\ Visited(walk.seen, chain) /\ k < Len(chain) /\ chain[k + 1] = n
    BY <1>2 DEF WalkOK
<1>5. k \in 0 .. Len(chain) /\ walk.at = Nth(chain, k)
    BY <1>2, <1>3, <1>4, WalkStands DEF WalkOK
<1>6. k + 1 \in DOMAIN chain /\ n \in 1 .. txs
    <2>1. k + 1 \in DOMAIN chain
        BY <1>2, <1>3, <1>4
    <2> QED
        BY <1>3, <1>4, <2>1
<1>7. t \in Transition
    BY <1>3, <1>6 DEF SyncInv, PoolPart
<1>8. t.witness.old = BundleOf(walk.at, genesis, made).s
    <2>1. made[chain[k + 1]].witness.old = BundleOf(Nth(chain, k + 1 - 1), genesis, made).s
        BY <1>6 DEF SyncInv, ChainPart
    <2>2. k + 1 - 1 = k
        BY <1>2
    <2> QED
        BY <1>4, <1>5, <2>1, <2>2
<1>9. t.witness.old \in 0 .. SMaxIndex /\ t.witness.new \in 0 .. SMaxIndex /\ t.witness.path \in {"swap", "admin"}
    BY <1>7 DEF Transition, Witnesses
<1>10. current_s_index = t.witness.old
    BY <1>8, <1>9, SameBundle, IndexFound DEF current_s_index
<1>11. t.witness.new = t.s /\ (t.witness.path = "swap" <=> t.witness.new # t.witness.old)
    BY <1>6 DEF SyncInv, PoolPart
<1> QED
    BY <1>9, <1>10, <1>11 DEF PayloadOk, decode_primary_witness_payload, extract_reserve_window

(* A walk reads a transition and its height. *)
LEMMA ReadStep ==
    ASSUME SyncInv, ReadHeight
    PROVE  SyncInv'
<1> DEFINE n == walk.next
           payload == decode_primary_witness_payload(n)
           seen2 == Append(walk.seen, [id |-> n, h |-> height[n]])
<1>1. /\ walk.pc = "height" /\ UNCHANGED <<vars, chainVars, row, prices>>
      /\ \/ /\ ~OnChain(n) \/ ~PayloadOk(payload)
               \/ extract_reserve_window(n).script # script_pubkey(payload.new)
            /\ walk' = [walk EXCEPT !.pc = "error"]
         \/ /\ OnChain(n)
            /\ walk' = [walk EXCEPT !.pc = "bundle", !.at = n, !.next = 0, !.hint = payload.new,
                                    !.seen = seen2]
    BY DEF ReadHeight, Fails
<1>2. walk # Asleep
    BY <1>1 DEF Asleep
<1>3. /\ created /\ WalkOK(walk, txs, chain, height, settled) /\ walk \in Walks(txs)
      /\ Len(walk.seen) \in Nat /\ DOMAIN walk.seen = 1 .. Len(walk.seen)
      /\ \A i \in DOMAIN walk.seen : walk.seen[i].id \in 1 .. txs /\ walk.seen[i].h \in Nat
    BY <1>2, Awake
<1>4. /\ txs \in Nat /\ chain \in Seq(1 .. txs) /\ Len(chain) \in Nat /\ DOMAIN chain = 1 .. Len(chain)
      /\ \A x \in 1 .. txs : height[x] \in Nat
    BY SyncNumbers
<1>5. OnChain(n) <=> In(n, chain)
    BY SameBundle
<1>6. In(n, chain) => /\ PayloadOk(payload) /\ payload.new \in 0 .. SMaxIndex
                      /\ extract_reserve_window(n).script = script_pubkey(payload.new)
    BY <1>1, PayloadFits
<1> HIDE DEF payload
<1>7. WalkOK(walk', txs, chain, height, settled)
    <2>1. CASE /\ ~OnChain(n) \/ ~PayloadOk(payload)
                  \/ extract_reserve_window(n).script # script_pubkey(payload.new)
               /\ walk' = [walk EXCEPT !.pc = "error"]
        <3>1. /\ walk' \in Walks(txs) /\ walk'.pc = "error" /\ walk'.best = walk.best
              /\ walk'.at = walk.at /\ walk'.seen = walk.seen /\ walk'.raced = walk.raced
            BY <1>3, <2>1 DEF Walks
        <3>2. walk.raced
            BY <1>1, <1>3, <1>5, <1>6, <2>1 DEF WalkOK
        <3> QED
            BY <1>3, <3>1, <3>2 DEF WalkOK
    <2>2. CASE /\ OnChain(n)
               /\ walk' = [walk EXCEPT !.pc = "bundle", !.at = n, !.next = 0, !.hint = payload.new,
                                       !.seen = seen2]
        <3>1. /\ Visited(walk.seen, chain) /\ Len(walk.seen) < Len(chain)
              /\ chain[Len(walk.seen) + 1] = n /\ n \in 1 .. txs /\ In(n, chain)
            <4>1. Visited(walk.seen, chain) /\ Len(walk.seen) < Len(chain)
                  /\ chain[Len(walk.seen) + 1] = n
                BY <1>1, <1>3, <1>5, <2>2 DEF WalkOK
            <4>2. Len(walk.seen) + 1 \in DOMAIN chain
                BY <1>3, <1>4, <4>1
            <4> QED
                BY <1>4, <1>5, <2>2, <4>1, <4>2
        <3> DEFINE E == [id : 1 .. txs, h : Nat]
                   new == [id |-> n, h |-> height[n]]
        <3>2. walk.seen \in Seq(E) /\ new \in E /\ new.id = n /\ new.h = height[n]
            BY <1>3, <1>4, <3>1 DEF Walks
        <3> HIDE DEF E, new
        <3>3. /\ seen2 \in Seq(E) /\ Len(seen2) = Len(walk.seen) + 1
              /\ DOMAIN seen2 = 1 .. Len(walk.seen) + 1 /\ seen2[Len(walk.seen) + 1] = new
              /\ \A i \in DOMAIN walk.seen : seen2[i] = walk.seen[i]
            BY <1>3, <3>2 DEF new
        <3> HIDE DEF seen2
        <3>4. n \in 0 .. txs /\ 0 \in 0 .. txs
            BY <1>4, <3>1
        <3>5. /\ walk' \in Walks(txs) /\ walk'.pc = "bundle" /\ walk'.best = walk.best
              /\ walk'.at = n /\ walk'.seen = seen2 /\ walk'.raced = walk.raced
            BY <1>3, <1>5, <1>6, <2>2, <3>3, <3>4 DEF Walks, E
        <3>6. ASSUME NEW i \in DOMAIN seen2, i # Len(walk.seen) + 1
              PROVE  i \in DOMAIN walk.seen
            <4>1. i \in 1 .. Len(walk.seen) + 1
                BY <3>3
            <4>2. i \in 1 .. Len(walk.seen)
                BY <1>3, <3>6, <4>1
            <4> QED
                BY <1>3, <4>2
        <3>7. Visited(seen2, chain)
            <4>1. Len(seen2) <= Len(chain)
                BY <1>3, <1>4, <3>1, <3>3
            <4>2. ASSUME NEW i \in 1 .. Len(seen2)
                  PROVE  seen2[i].id = chain[i]
                <5>1. i \in DOMAIN seen2
                    BY <3>3
                <5>2. CASE i = Len(walk.seen) + 1
                    BY <3>1, <3>2, <3>3, <5>2
                <5>3. CASE i # Len(walk.seen) + 1
                    <6>1. i \in DOMAIN walk.seen
                        BY <3>6, <5>1, <5>3
                    <6> QED
                        BY <1>3, <3>1, <3>3, <6>1 DEF Visited
                <5> QED
                    BY <5>2, <5>3
            <4> QED
                BY <4>1, <4>2 DEF Visited
        <3>8. Reliable(seen2, walk.best, chain, height)
            <4> SUFFICES ASSUME NEW i \in DOMAIN seen2
                         PROVE  /\ seen2[i].h \in 1 .. walk.best - 1 =>
                                     In(seen2[i].id, chain) /\ height[seen2[i].id] = seen2[i].h
                                /\ height[seen2[i].id] \in 1 .. walk.best - 1 =>
                                     seen2[i].h = height[seen2[i].id]
                BY DEF Reliable
            <4>1. CASE i = Len(walk.seen) + 1
                BY <3>1, <3>2, <3>3, <4>1
            <4>2. CASE i # Len(walk.seen) + 1
                <5>1. i \in DOMAIN walk.seen /\ seen2[i] = walk.seen[i]
                    BY <3>3, <3>6, <4>2
                <5> QED
                    BY <1>3, <5>1 DEF WalkOK, Reliable
            <4> QED
                BY <4>1, <4>2
        <3>9. n = IF seen2 = <<>> THEN 0 ELSE seen2[Len(seen2)].id
            <4>1. seen2 # <<>>
                BY <1>3, <3>3
            <4> QED
                BY <3>2, <3>3, <4>1
        <3> QED
            BY <1>3, <3>1, <3>5, <3>7, <3>8, <3>9 DEF WalkOK
    <2> QED
        BY <1>1, <2>1, <2>2
<1> QED
    BY <1>1, <1>3, <1>7, WalkStep DEF SyncInv, PricesPart

(* The snapshot at the end of a walk. *)
LEMMA PersistStep ==
    ASSUME SyncInv, SyncPersist
    PROVE  SyncInv'
<1>1. /\ walk.pc = "persist" /\ UNCHANGED <<vars, chainVars, prices>>
      /\ row' \in {row, ingest_lmsr_pool(row, Snapshot(walk.at, walk.table))}
      /\ walk' = [walk EXCEPT !.pc = "record"]
    BY DEF SyncPersist, persist_lmsr_pool_snapshot
<1>2. walk # Asleep
    BY <1>1 DEF Asleep
<1>3. created /\ WalkOK(walk, txs, chain, height, settled) /\ walk \in Walks(txs)
    BY <1>2, Awake
<1>4. walk.at \in 0 .. txs /\ walk.table \in Tables /\ RowOK(row, txs, genesis, made)
    BY <1>3 DEF Walks, SyncInv
<1>5. RowOK(row', txs, genesis, made)
    BY <1>1, <1>4, StoredOK
<1>6. /\ walk' \in Walks(txs) /\ walk'.pc = "record" /\ walk'.best = walk.best
      /\ walk'.at = walk.at /\ walk'.seen = walk.seen
    BY <1>1, <1>3 DEF Walks
<1>7. WalkOK(walk', txs, chain, height, settled)
    BY <1>1, <1>3, <1>6 DEF WalkOK
<1> QED
    BY <1>1, <1>3, <1>5, <1>7, WalkStep DEF SyncInv, PricesPart

(* The prices: each is that of a transition below the best block there was    *)
(* when the walk began.                                                       *)
LEMMA RecordStep ==
    ASSUME SyncInv, SyncRecord
    PROVE  SyncInv' /\ RecordsSettled
<1>1. /\ walk.pc = "record" /\ UNCHANGED <<vars, chainVars, row>> /\ walk' = Asleep
      /\ prices' = IF walk.table = "good"
                   THEN prices \union {p \in NewPrices : \A q \in prices : q.id # p.id}
                   ELSE prices
    BY DEF SyncRecord
<1>2. walk # Asleep
    BY <1>1 DEF Asleep
<1>3. /\ created /\ WalkOK(walk, txs, chain, height, settled) /\ walk \in Walks(txs)
      /\ Len(walk.seen) \in Nat /\ DOMAIN walk.seen = 1 .. Len(walk.seen)
      /\ \A i \in DOMAIN walk.seen : walk.seen[i].id \in 1 .. txs /\ walk.seen[i].h \in Nat
    BY <1>2, Awake
<1>4. walk.best \in Nat /\ walk.best <= settled /\ settled \in Nat
    BY <1>3, SyncNumbers DEF WalkOK, Walks
<1>5. \A h \in Nat : (h # 0 /\ is_irreversible_transition(walk.best, h)) <=> h \in 1 .. walk.best - 1
    BY <1>4, SyncAssumption DEF is_irreversible_transition
<1>6. ASSUME NEW p \in NewPrices
      PROVE  /\ p.id \in 1 .. txs /\ In(p.id, chain)
             /\ p.h \in 1 .. settled - 1 /\ height[p.id] = p.h
             /\ p.bps = fee_free_yes_spot_price_bps(made[p.id].s)
    <2>1. PICK i \in DOMAIN walk.seen :
            /\ walk.seen[i].h # 0 /\ is_irreversible_transition(walk.best, walk.seen[i].h)
            /\ p = PriceRow(walk.seen[i])
        BY <1>6 DEF NewPrices
    <2>2. /\ p.id = walk.seen[i].id /\ p.h = walk.seen[i].h
          /\ p.bps = fee_free_yes_spot_price_bps(made[p.id].witness.new)
        BY <2>1 DEF PriceRow
    <2>3. p.id \in 1 .. txs /\ p.h \in 1 .. walk.best - 1
        BY <1>3, <1>5, <2>1, <2>2
    <2>4. In(p.id, chain) /\ height[p.id] = p.h
        BY <1>3, <2>1, <2>2, <2>3 DEF WalkOK, Reliable
    <2>5. made[p.id].witness.new = made[p.id].s
        BY <2>3 DEF SyncInv, PoolPart
    <2> QED
        BY <1>4, <2>2, <2>3, <2>4, <2>5
<1>7. SyncInv'
    <2>1. \A p \in prices' : p \in prices \/ p \in NewPrices
        BY <1>1
    <2>2. \A p \in prices' :
             /\ p.id \in 1 .. txs /\ In(p.id, chain)
             /\ p.h \in 1 .. settled - 1 /\ height[p.id] = p.h
             /\ p.bps = fee_free_yes_spot_price_bps(made[p.id].s)
        BY <1>6, <2>1 DEF SyncInv, PricesPart
    <2>3. RowOK(row', txs, genesis, made)
        BY <1>1 DEF SyncInv
    <2> QED
        BY <1>1, <1>3, <2>2, <2>3, WalkStep
<1>8. RecordsSettled
    <2> SUFFICES ASSUME walk.table = "good", NEW k \in DOMAIN chain,
                        height[chain[k]] \in 1 .. walk.best - 1
                 PROVE  \E p \in prices' : p.id = chain[k]
        BY DEF RecordsSettled
    <2>1. PICK i \in DOMAIN walk.seen : walk.seen[i].id = chain[k]
        BY <1>1, <1>3 DEF WalkOK
    <2>2. walk.seen[i].h = height[chain[k]]
        BY <1>3, <2>1 DEF WalkOK, Reliable
    <2>3. walk.seen[i].h # 0 /\ is_irreversible_transition(walk.best, walk.seen[i].h)
        BY <1>3, <1>5, <2>2
    <2>4. PriceRow(walk.seen[i]) \in NewPrices /\ PriceRow(walk.seen[i]).id = chain[k]
        BY <2>1, <2>3 DEF NewPrices, PriceRow
    <2> QED
        BY <1>1, <2>4
<1> QED
    BY <1>7, <1>8

(* A sync ends without a result. *)
LEMMA EndStep ==
    ASSUME SyncInv, SyncEnds
    PROVE  SyncInv'
<1>1. /\ walk # Asleep /\ walk' = Asleep /\ UNCHANGED <<vars, chainVars, row, prices>>
    BY DEF SyncEnds
<1>2. created
    BY <1>1, Awake
<1> QED
    BY <1>1, <1>2, WalkStep DEF SyncInv, PricesPart

(* Every step of the chain, the relays, the store and the node. *)
LEMMA SyncStep ==
    ASSUME SyncInv, [SyncNext]_allVars
    PROVE  SyncInv'
<1>1. CASE \E b \in InitialBundles : create_lmsr_pool(b)
    BY <1>1, CreateStep
<1>2. CASE \E w \in Wallets, kind \in Kinds, i \in Inputs : execute_trade(w, kind, i)
    BY <1>2, TradeStep
<1>3. ASSUME NEW r \in AdjustReserves, adjust_lmsr_pool(r)
      PROVE  SyncInv'
    <2>1. r \in ReserveSet
        BY PoolAssumption
    <2>2. /\ created /\ Enters(AdjustLeg(Admin, r))
          /\ \/ UNCHANGED row
             \/ row' = ingest_lmsr_pool(row,
                  [source |-> "canonical", s |-> sIndex, reserves |-> r, last |-> txs + 1,
                   terms |-> OwnParams, table |-> "good", event |-> "none"])
        BY <1>3 DEF adjust_lmsr_pool
    <2> QED
        BY <2>1, <2>2, AdjustStep
<1>4. CASE node_close_lmsr_pool
    <2>1. FloorReserves \in ReserveSet
        BY PoolAssumption DEF FloorReserves, ReserveSet
    <2> QED
        BY <1>4, <2>1, AdjustStep DEF node_close_lmsr_pool
<1>5. CASE \/ \E found \in Answers : quote_trade(found)
           \/ scan_lmsr_pool \/ scan_lmsr_pool_inner \/ scan_for_adjust
           \/ \E e \in Parsed : Announced(e)
    BY <1>5, StoreStep
<1>6. CASE \E k \in 0 .. Len(chain) : Mine(k) \/ Reorg(k)
    BY <1>6, MineStep, ReorgStep
<1>7. CASE SyncStart \/ FindSpender \/ ReadHeight \/ SyncPersist \/ SyncRecord \/ SyncEnds
    BY <1>7, StartStep, FindStep, ReadStep, PersistStep, RecordStep, EndStep
<1>8. CASE UNCHANGED allVars
    <2>1. UNCHANGED <<vars, chainVars, walk, row, prices>>
        BY <1>8 DEF allVars, syncVars, chainVars
    <2>2. PoolPart' /\ ChainPart'
        BY <2>1 DEF SyncInv, PoolPart, ChainPart, TypeOK, vars, chainVars
    <2>3. BlocksPart' /\ PricesPart'
        BY <2>1 DEF SyncInv, BlocksPart, PricesPart, vars, chainVars
    <2> QED
        BY <2>1, <2>2, <2>3 DEF SyncInv, vars, chainVars
<1> QED
    BY <1>1, <1>2, <1>3, <1>4, <1>5, <1>6, <1>7, <1>8 DEF SyncNext

-----------------------------------------------------------------------------
(* The theorems.                                                            *)

(* The inductive invariant holds. *)
THEOREM SyncInvariant == SyncSpec => []SyncInv
<1>1. SyncInit => SyncInv
    <2> SUFFICES ASSUME SyncInit
                 PROVE  SyncInv
        OBVIOUS
    <2>1. /\ SMaxIndex \in Nat /\ MaxTxs \in Nat /\ MaxHeight \in Nat /\ created = FALSE
          /\ reserves \in ReserveSet /\ sIndex = 0 /\ txs = 0 /\ bundle = 0
          /\ genesis = [s |-> sIndex, reserves |-> reserves]
        BY PoolConstants, PoolAssumption, SyncAssumption DEF SyncInit, Init, ReserveSet
    <2>2. pending \in [Wallets -> Legs \union {Idle}]
        BY DEF SyncInit, Init
    <2>3. /\ made = <<>> /\ chain = <<>> /\ height = <<>> /\ tip = 0 /\ settled = 0
          /\ walk = Asleep /\ row = NoRow /\ prices = {}
        BY DEF SyncInit
    <2>4. row.known = FALSE
        BY <2>3 DEF NoRow
    <2>5. PoolPart
        <3>1. genesis \in [s : 0 .. SMaxIndex, reserves : ReserveSet]
            BY <2>1
        <3>a. created \in BOOLEAN
            BY <2>1
        <3>b. sIndex \in 0 .. SMaxIndex /\ txs \in 0 .. MaxTxs /\ bundle \in 0 .. txs
            BY <2>1
        <3>2. TypeOK
            BY <2>1, <2>2, <3>1, <3>a, <3>b DEF TypeOK
        <3>3. made \in Seq(Transition) /\ Len(made) = 0
            BY <2>3
        <3> QED
            BY <2>1, <2>3, <2>4, <3>2, <3>3 DEF PoolPart
    <2>6. ChainPart
        BY <2>1, <2>3 DEF ChainPart, Nth, BundleOf
    <2>7. BlocksPart /\ PricesPart
        BY <2>1, <2>3 DEF BlocksPart, PricesPart
    <2>8. RowOK(row, txs, genesis, made)
        BY <2>1, <2>3 DEF NoRow, RowOK, Rows, Tables
    <2> QED
        BY <2>3, <2>5, <2>6, <2>7, <2>8 DEF SyncInv
<1>2. SyncInv /\ [SyncNext]_allVars => SyncInv'
    BY SyncStep
<1> QED
    BY <1>1, <1>2, PTL DEF SyncSpec

(* A recorded price stays true: its transition is on the chain, in the block  *)
(* it was recorded with, however blocks come and go during and after the walk *)
(* that recorded it.                                                          *)
THEOREM PricesAreFinal == SyncSpec => []RecordedPricesFinal
<1>1. SyncInv => RecordedPricesFinal
    <2> SUFFICES ASSUME SyncInv, NEW p \in prices
                 PROVE  /\ OnChain(p.id) /\ p.h > 0 /\ height[p.id] = p.h
                        /\ p.bps = fee_free_yes_spot_price_bps(made[p.id].s)
        BY DEF RecordedPricesFinal
    <2>1. /\ In(p.id, chain) /\ p.h \in 1 .. settled - 1 /\ height[p.id] = p.h
          /\ p.bps = fee_free_yes_spot_price_bps(made[p.id].s)
        BY DEF SyncInv, PricesPart
    <2> QED
        BY <2>1, SameBundle
<1> QED
    BY <1>1, SyncInvariant, PTL

(* A row with a scanned state is one bundle of the pool, whatever             *)
(* announcements, quotes, late syncs and adjustments wrote to it.             *)
THEOREM CanonicalRows == SyncSpec => []CanonicalRowIsBundle
<1>1. SyncInv => CanonicalRowIsBundle
    <2> SUFFICES ASSUME SyncInv
                 PROVE  CanonicalRowIsBundle
        OBVIOUS
    <2>1. /\ TypeOK /\ made \in Seq(Transition) /\ Len(made) = txs
          /\ height \in [1 .. txs -> 0 .. tip] /\ tip \in 0 .. settled /\ settled \in 0 .. MaxHeight
        BY DEF SyncInv, PoolPart, BlocksPart
    <2>2. \A k \in DOMAIN chain : chain[k] \in 1 .. txs
        BY SyncNumbers
    <2>3. walk = Asleep \/ walk.pc \in {"bundle", "height", "persist", "record", "error"}
        BY DEF SyncInv, WalkOK, Walks
    <2>4. /\ row.source \in {"announcement", "canonical"} /\ row.table \in Tables
          /\ row.s \in 0 .. SMaxIndex /\ row.last \in 0 .. txs
        BY SyncNumbers DEF SyncInv, RowOK, Rows
    <2>5. (row.known /\ row.source = "canonical") =>
             BundleAt(row.last) = [s |-> row.s, reserves |-> row.reserves]
        BY SameBundle DEF SyncInv, RowOK
    <2> QED
        BY <2>1, <2>2, <2>3, <2>4, <2>5 DEF CanonicalRowIsBundle, SyncTypeOK
<1> QED
    BY <1>1, SyncInvariant, PTL

(* The parameters stored under this pool's id are the ones its covenant was   *)
(* built from, whatever the relays hold and whichever event comes first.      *)
THEOREM RowsAreThisPools == SyncSpec => []RowIsThisPool
<1>1. SyncInv => RowIsThisPool
    BY DEF SyncInv, RowOK, Rows, RowIsThisPool, LocatorFromRow, OwnAnnouncement,
           build_pool_announcement_from_snapshot
<1> QED
    BY <1>1, SyncInvariant, PTL

(* A walk fails only when the chain lost a block under it or the pool has more *)
(* transitions than a walk visits.                                             *)
THEOREM WalkErrors == SyncSpec => []WalkErrorsExplained
<1>1. SyncInv => WalkErrorsExplained
    BY DEF SyncInv, WalkOK, WalkErrorsExplained
<1> QED
    BY <1>1, SyncInvariant, PTL

(* A sync that completes has recorded every transition that was settled when  *)
(* it began.                                                                  *)
THEOREM SyncsAreComplete == SyncSpec => SyncIsComplete
<1>1. SyncInv /\ [SyncNext]_allVars => [RecordsSettled]_allVars
    <2> SUFFICES ASSUME SyncInv
                 PROVE  RecordsSettled
        OBVIOUS
    <2>1. CASE SyncRecord
        BY <2>1, RecordStep
    <2>2. CASE ~SyncRecord
        BY <2>2 DEF RecordsSettled
    <2> QED
        BY <2>1, <2>2
<1> QED
    BY <1>1, SyncInvariant, PTL DEF SyncSpec, SyncIsComplete
=============================================================================
