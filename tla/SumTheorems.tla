---------------------------- MODULE SumTheorems ----------------------------
(***************************************************************************)
(* Induction over the naturals, and sums of a function over a finite set   *)
(* (SumFunctionOnSet of the community modules): what they are when an      *)
(* element is added, removed or changed.                                   *)
(***************************************************************************)
EXTENDS Integers, Functions, FiniteSetTheorems, WellFoundedInduction, TLAPS

-----------------------------------------------------------------------------
(* Induction over the naturals, in the form the provers can apply: a set of *)
(* naturals that holds something holds a least element.                     *)
LEMMA LeastElement ==
    ASSUME NEW T, T \subseteq Nat, T # {}
    PROVE  \E n \in T : \A m \in T : n <= m
<1> DEFINE R == {ss \in Nat \X Nat : ss[1] < ss[2]}
<1>1. IsWellFoundedOn(R, Nat)
    BY NatLessThanWellFounded DEF OpToRel
<1>2. PICK n \in T : \A m \in T : ~ (<<m, n>> \in R)
    BY <1>1, WFMin
<1>3. \A m \in T : ~ (m < n)
    BY <1>2
<1> QED
    BY <1>3

(* So that a set that holds 0 and every successor of its elements is Nat. *)
LEMMA Induction ==
    ASSUME NEW S, 0 \in S, \A n \in Nat : n \in S => n + 1 \in S
    PROVE  Nat \subseteq S
<1> SUFFICES ASSUME Nat \ S # {}
             PROVE  FALSE
    OBVIOUS
<1>1. PICK n \in Nat \ S : \A m \in Nat \ S : n <= m
    BY LeastElement
<1>2. n # 0 /\ n - 1 \in Nat /\ n - 1 \in S
    BY <1>1
<1> QED
    BY <1>1, <1>2

-----------------------------------------------------------------------------
(* The recursion behind the sum, and the element it takes first. *)

Pick(s) == CHOOSE x \in s : TRUE

SumDef(g, f, S) ==
    [s \in SUBSET S |-> IF s = {} THEN 0 ELSE f[Pick(s)] + g[s \ {Pick(s)}]]

(* A set without one of its elements is finite and smaller by one. *)
LEMMA Smaller ==
    ASSUME NEW s, IsFiniteSet(s), s # {}
    PROVE  /\ Pick(s) \in s
           /\ IsFiniteSet(s \ {Pick(s)})
           /\ Cardinality(s) \in Nat \ {0}
           /\ Cardinality(s \ {Pick(s)}) = Cardinality(s) - 1
<1>1. Pick(s) \in s
    BY DEF Pick
<1>2. Cardinality(s) \in Nat /\ Cardinality(s) # 0
    BY FS_CardinalityType, FS_EmptySet
<1> QED
    BY <1>1, <1>2, FS_RemoveElement

(* On finite sets the recursion has a solution. *)
LEMMA SumSolution ==
    ASSUME NEW f, NEW S, IsFiniteSet(S)
    PROVE  \E g : g = SumDef(g, f, S)
<1> DEFINE Small(n) == {s \in SUBSET S : Cardinality(s) <= n}
           Step(g, s) == IF s = {} THEN 0 ELSE f[Pick(s)] + g[s \ {Pick(s)}]
           N == {n \in Nat : \E g : \A s \in Small(n) : g[s] = Step(g, s)}
<1>0. \A s \in SUBSET S : IsFiniteSet(s) /\ Cardinality(s) \in Nat
    BY FS_Subset, FS_CardinalityType
<1>1. 0 \in N
    <2> DEFINE g == [s \in {{}} |-> 0]
    <2>1. \A s \in Small(0) : s = {}
        BY <1>0, FS_EmptySet
    <2>2. g[{}] = 0
        OBVIOUS
    <2> HIDE DEF g
    <2>3. \A s \in Small(0) : g[s] = Step(g, s)
        BY <2>1, <2>2
    <2> QED BY <2>3
<1>2. ASSUME NEW n \in Nat, n \in N PROVE n + 1 \in N
    <2>1. PICK g : \A s \in Small(n) : g[s] = Step(g, s)
        BY <1>2
    <2> DEFINE h == [s \in Small(n + 1) |-> IF s \in Small(n) THEN g[s] ELSE Step(g, s)]
    <2>2. ASSUME NEW s \in Small(n + 1) PROVE h[s] = Step(h, s)
        <3>1. h[s] = Step(g, s)
            BY <2>1
        <3>2. CASE s = {}
            BY <3>1, <3>2
        <3>3. CASE s # {}
            <4>1. s \ {Pick(s)} \in Small(n)
                BY <1>0, <3>3, Smaller
            <4>2. Small(n) \subseteq Small(n + 1)
                BY <1>0
            <4>3. h[s \ {Pick(s)}] = g[s \ {Pick(s)}]
                BY <4>1, <4>2
            <4> QED BY <3>1, <3>3, <4>3
        <3> QED BY <3>2, <3>3
    <2> HIDE DEF h, Step, Small
    <2>3. \A s \in Small(n + 1) : h[s] = Step(h, s)
        BY <2>2
    <2> QED BY <2>3
<1> HIDE DEF N
<1>3. Nat \subseteq N
    BY <1>1, <1>2, Induction
<1>4. Cardinality(S) \in N
    BY <1>0, <1>3
<1>5. PICK g : \A s \in Small(Cardinality(S)) : g[s] = Step(g, s)
    BY <1>4 DEF N
<1>6. \A s \in SUBSET S : s \in Small(Cardinality(S))
    BY FS_Subset
<1> DEFINE h == [s \in SUBSET S |-> g[s]]
<1>7. \A s \in SUBSET S : h[s] = Step(h, s)
    <2> SUFFICES ASSUME NEW s \in SUBSET S PROVE h[s] = Step(h, s)
        OBVIOUS
    <2>1. g[s] = Step(g, s)
        BY <1>5, <1>6
    <2>2. s \ {Pick(s)} \in SUBSET S
        OBVIOUS
    <2> QED BY <2>1, <2>2
<1>8. h = [s \in SUBSET S |-> h[s]]
    OBVIOUS
<1> HIDE DEF h
<1>9. h = SumDef(h, f, S)
    BY <1>7, <1>8 DEF SumDef
<1> QED BY <1>9

(* The sum over S is what any solution gives, whatever set it is for. *)
LEMMA SumIs ==
    ASSUME NEW f, NEW S, IsFiniteSet(S), NEW T, S \subseteq T, IsFiniteSet(T),
           NEW h, h = SumDef(h, f, T)
    PROVE  SumFunctionOnSet(f, S) = h[S]
<1> DEFINE g == CHOOSE g : g = SumDef(g, f, S)
<1>1. SumFunctionOnSet(f, S) = g[S]
    BY Zenon DEF SumFunctionOnSet, FoldFunctionOnSet, MapThenFoldSet, SumDef, Pick
<1>2. g = SumDef(g, f, S)
    BY SumSolution, Zenon
<1> HIDE DEF g
<1> DEFINE N == {n \in Nat : \A s \in SUBSET S : Cardinality(s) = n => g[s] = h[s]}
<1>3. \A s \in SUBSET S : /\ g[s] = IF s = {} THEN 0 ELSE f[Pick(s)] + g[s \ {Pick(s)}]
                          /\ h[s] = IF s = {} THEN 0 ELSE f[Pick(s)] + h[s \ {Pick(s)}]
    BY <1>2 DEF SumDef
<1>4. \A s \in SUBSET S : IsFiniteSet(s) /\ Cardinality(s) \in Nat
    BY FS_Subset, FS_CardinalityType
<1>5. 0 \in N
    BY <1>3, <1>4, FS_EmptySet
<1>6. ASSUME NEW n \in Nat, n \in N PROVE n + 1 \in N
    <2> SUFFICES ASSUME NEW s \in SUBSET S, Cardinality(s) = n + 1 PROVE g[s] = h[s]
        OBVIOUS
    <2>1. s # {}
        BY FS_EmptySet
    <2>2. s \ {Pick(s)} \in SUBSET S /\ Cardinality(s \ {Pick(s)}) = n
        BY <1>4, <2>1, Smaller
    <2>3. g[s \ {Pick(s)}] = h[s \ {Pick(s)}]
        BY <1>6, <2>2
    <2> QED BY <1>3, <2>1, <2>3
<1> HIDE DEF N
<1>7. Nat \subseteq N
    BY <1>5, <1>6, Induction
<1>8. Cardinality(S) \in N
    BY <1>4, <1>7
<1> QED
    BY <1>1, <1>8 DEF N

(* The two cases of the sum. *)
LEMMA SumCases ==
    ASSUME NEW f, NEW S, IsFiniteSet(S)
    PROVE  SumFunctionOnSet(f, S) =
              IF S = {} THEN 0 ELSE f[Pick(S)] + SumFunctionOnSet(f, S \ {Pick(S)})
<1>1. PICK h : h = SumDef(h, f, S)
    BY SumSolution
<1>2. SumFunctionOnSet(f, S) = h[S]
    BY <1>1, SumIs
<1>3. h[S] = IF S = {} THEN 0 ELSE f[Pick(S)] + h[S \ {Pick(S)}]
    BY <1>1 DEF SumDef
<1>4. ASSUME S # {} PROVE SumFunctionOnSet(f, S \ {Pick(S)}) = h[S \ {Pick(S)}]
    <2>1. IsFiniteSet(S \ {Pick(S)}) /\ S \ {Pick(S)} \subseteq S
        BY <1>4, Smaller
    <2> QED BY <1>1, <2>1, SumIs
<1> QED
    BY <1>2, <1>3, <1>4

(* The sum over nothing. *)
LEMMA SumEmpty == \A f : SumFunctionOnSet(f, {}) = 0
BY SumCases, FS_EmptySet

(* A sum of integers is an integer, of naturals a natural. *)
LEMMA SumType ==
    ASSUME NEW f, NEW S, IsFiniteSet(S), \A x \in S : f[x] \in Int
    PROVE  /\ SumFunctionOnSet(f, S) \in Int
           /\ (\A x \in S : f[x] \in Nat) => SumFunctionOnSet(f, S) \in Nat
<1> DEFINE P(s) == /\ SumFunctionOnSet(f, s) \in Int
                   /\ (\A x \in S : f[x] \in Nat) => SumFunctionOnSet(f, s) \in Nat
           N == {n \in Nat : \A s \in SUBSET S : Cardinality(s) = n => P(s)}
<1>1. \A s \in SUBSET S : IsFiniteSet(s) /\ Cardinality(s) \in Nat
    BY FS_Subset, FS_CardinalityType
<1>2. 0 \in N
    <2>1. P({})
        BY SumEmpty
    <2>2. \A s \in SUBSET S : Cardinality(s) = 0 => s = {}
        BY <1>1, FS_EmptySet
    <2> HIDE DEF P
    <2> QED BY <2>1, <2>2
<1>3. ASSUME NEW n \in Nat, n \in N PROVE n + 1 \in N
    <2> SUFFICES ASSUME NEW s \in SUBSET S, Cardinality(s) = n + 1 PROVE P(s)
        OBVIOUS
    <2>1. s # {}
        BY FS_EmptySet
    <2>2. Pick(s) \in S /\ s \ {Pick(s)} \in SUBSET S /\ Cardinality(s \ {Pick(s)}) = n
        BY <1>1, <2>1, Smaller
    <2>3. P(s \ {Pick(s)})
        BY <1>3, <2>2
    <2>4. SumFunctionOnSet(f, s) = f[Pick(s)] + SumFunctionOnSet(f, s \ {Pick(s)})
        BY <1>1, <2>1, SumCases
    <2> QED BY <2>2, <2>3, <2>4
<1> HIDE DEF N, P
<1>4. Nat \subseteq N
    BY <1>2, <1>3, Induction
<1>5. Cardinality(S) \in N
    BY <1>1, <1>4
<1> QED
    BY <1>5 DEF N, P

(* Whichever element is taken out first, the sum is the same. *)
LEMMA SumRemove ==
    ASSUME NEW f, NEW S, IsFiniteSet(S), \A x \in S : f[x] \in Int, NEW y \in S
    PROVE  SumFunctionOnSet(f, S) = f[y] + SumFunctionOnSet(f, S \ {y})
<1> DEFINE Sig(s) == SumFunctionOnSet(f, s)
           P(s) == \A x \in s : Sig(s) = f[x] + Sig(s \ {x})
           N == {n \in Nat : \A s \in SUBSET S : Cardinality(s) = n => P(s)}
<1>1. \A s \in SUBSET S : IsFiniteSet(s) /\ Cardinality(s) \in Nat
    BY FS_Subset, FS_CardinalityType
<1>2. \A s \in SUBSET S : Sig(s) \in Int
    <2> SUFFICES ASSUME NEW s \in SUBSET S PROVE Sig(s) \in Int
        OBVIOUS
    <2>1. \A x \in s : f[x] \in Int
        OBVIOUS
    <2> QED BY <1>1, <2>1, SumType
<1>3. 0 \in N
    BY <1>1, FS_EmptySet
<1>4. ASSUME NEW n \in Nat, n \in N PROVE n + 1 \in N
    <2> SUFFICES ASSUME NEW s \in SUBSET S, Cardinality(s) = n + 1, NEW x \in s
                 PROVE  Sig(s) = f[x] + Sig(s \ {x})
        OBVIOUS
    <2> DEFINE p == Pick(s)
    <2>1. s # {}
        OBVIOUS
    <2>2. p \in s /\ Sig(s) = f[p] + Sig(s \ {p})
        BY <1>1, <2>1, Smaller, SumCases
    <2>3. CASE p = x
        BY <2>2, <2>3
    <2>4. CASE p # x
        <3>1. /\ Cardinality(s \ {p}) = n /\ s \ {p} \in SUBSET S
              /\ Cardinality(s \ {x}) = n /\ s \ {x} \in SUBSET S
            <4>1. IsFiniteSet(s)
                BY <1>1
            <4>2. p \in s
                BY <2>2
            <4> HIDE DEF p
            <4>3. /\ Cardinality(s \ {p}) = Cardinality(s) - 1
                  /\ Cardinality(s \ {x}) = Cardinality(s) - 1
                BY <4>1, <4>2, FS_RemoveElement, Zenon
            <4>4. Cardinality(s) - 1 = n
                OBVIOUS
            <4> QED BY <4>3, <4>4
        <3>2. Sig(s \ {p}) = f[x] + Sig((s \ {p}) \ {x})
            BY <1>4, <2>2, <2>4, <3>1
        <3>3. Sig(s \ {x}) = f[p] + Sig((s \ {x}) \ {p})
            BY <1>4, <2>2, <2>4, <3>1
        <3>4. (s \ {p}) \ {x} = (s \ {x}) \ {p}
            OBVIOUS
        <3>5. f[p] \in Int /\ f[x] \in Int /\ Sig((s \ {p}) \ {x}) \in Int
            BY <1>2, <2>2
        <3> DEFINE rest == Sig((s \ {p}) \ {x})
        <3>6. Sig((s \ {x}) \ {p}) = rest
            BY <3>4
        <3> HIDE DEF Sig, rest, p
        <3> QED
            BY <2>2, <3>2, <3>3, <3>5, <3>6 DEF rest
    <2> QED
        BY <2>3, <2>4
<1> HIDE DEF N, P
<1>5. Nat \subseteq N
    BY <1>3, <1>4, Induction
<1>6. Cardinality(S) \in N
    BY <1>1, <1>5
<1> QED
    BY <1>6 DEF N, P

(* The sum depends on the values at the elements only. *)
LEMMA SumAgree ==
    ASSUME NEW f, NEW g, NEW S, IsFiniteSet(S), \A x \in S : f[x] = g[x]
    PROVE  SumFunctionOnSet(f, S) = SumFunctionOnSet(g, S)
<1> DEFINE P(s) == SumFunctionOnSet(f, s) = SumFunctionOnSet(g, s)
           N == {n \in Nat : \A s \in SUBSET S : Cardinality(s) = n => P(s)}
<1>1. \A s \in SUBSET S : IsFiniteSet(s) /\ Cardinality(s) \in Nat
    BY FS_Subset, FS_CardinalityType
<1>2. 0 \in N
    <2>1. P({})
        BY SumEmpty
    <2>2. \A s \in SUBSET S : Cardinality(s) = 0 => s = {}
        BY <1>1, FS_EmptySet
    <2> HIDE DEF P
    <2> QED BY <2>1, <2>2
<1>3. ASSUME NEW n \in Nat, n \in N PROVE n + 1 \in N
    <2> SUFFICES ASSUME NEW s \in SUBSET S, Cardinality(s) = n + 1 PROVE P(s)
        OBVIOUS
    <2>1. s # {}
        BY FS_EmptySet
    <2>2. Pick(s) \in S /\ s \ {Pick(s)} \in SUBSET S /\ Cardinality(s \ {Pick(s)}) = n
        BY <1>1, <2>1, Smaller
    <2>3. P(s \ {Pick(s)})
        BY <1>3, <2>2
    <2>4. /\ SumFunctionOnSet(f, s) = f[Pick(s)] + SumFunctionOnSet(f, s \ {Pick(s)})
          /\ SumFunctionOnSet(g, s) = g[Pick(s)] + SumFunctionOnSet(g, s \ {Pick(s)})
        BY <1>1, <2>1, SumCases
    <2> QED BY <2>2, <2>3, <2>4
<1> HIDE DEF N, P
<1>4. Nat \subseteq N
    BY <1>2, <1>3, Induction
<1>5. Cardinality(S) \in N
    BY <1>1, <1>4
<1> QED
    BY <1>5 DEF N, P

(* With one element more. *)
LEMMA SumAdd ==
    ASSUME NEW f, NEW S, IsFiniteSet(S), NEW y, y \notin S,
           \A x \in S \cup {y} : f[x] \in Int
    PROVE  SumFunctionOnSet(f, S \cup {y}) = SumFunctionOnSet(f, S) + f[y]
<1> DEFINE T == S \cup {y}
<1>1. IsFiniteSet(T) /\ y \in T /\ T \ {y} = S /\ \A x \in T : f[x] \in Int
    BY FS_AddElement
<1> HIDE DEF T
<1>2. SumFunctionOnSet(f, T) = f[y] + SumFunctionOnSet(f, T \ {y})
    BY <1>1, SumRemove
<1>3. SumFunctionOnSet(f, S) \in Int /\ f[y] \in Int
    BY SumType
<1>4. SumFunctionOnSet(f, T) = f[y] + SumFunctionOnSet(f, S)
    BY <1>1, <1>2, Zenon
<1>5. SumFunctionOnSet(f, T) = SumFunctionOnSet(f, S) + f[y]
    BY <1>3, <1>4
<1> QED
    BY <1>5 DEF T

(* Changing the value of one element changes the sum by the difference. *)
LEMMA SumChange ==
    ASSUME NEW f, NEW g, NEW S, IsFiniteSet(S), NEW y \in S,
           \A x \in S : f[x] \in Int /\ g[x] \in Int,
           \A x \in S \ {y} : g[x] = f[x]
    PROVE  SumFunctionOnSet(g, S) = SumFunctionOnSet(f, S) + (g[y] - f[y])
<1>1. IsFiniteSet(S \ {y})
    BY FS_RemoveElement
<1>2. SumFunctionOnSet(f, S) = f[y] + SumFunctionOnSet(f, S \ {y})
    BY SumRemove
<1>3. SumFunctionOnSet(g, S) = g[y] + SumFunctionOnSet(g, S \ {y})
    BY SumRemove
<1>4. SumFunctionOnSet(g, S \ {y}) = SumFunctionOnSet(f, S \ {y})
    BY <1>1, SumAgree
<1>5. SumFunctionOnSet(f, S \ {y}) \in Int
    BY <1>1, SumType
<1> QED
    BY <1>2, <1>3, <1>4, <1>5

(* No element of a sum of naturals exceeds it. *)
LEMMA SumBounds ==
    ASSUME NEW f, NEW S, IsFiniteSet(S), \A x \in S : f[x] \in Nat, NEW y \in S
    PROVE  f[y] <= SumFunctionOnSet(f, S)
<1>1. IsFiniteSet(S \ {y})
    BY FS_RemoveElement
<1>2. SumFunctionOnSet(f, S) = f[y] + SumFunctionOnSet(f, S \ {y})
    BY SumRemove
<1>3. SumFunctionOnSet(f, S \ {y}) \in Nat
    BY <1>1, SumType
<1> QED
    BY <1>2, <1>3

(* A sum over indices, by the last of them. *)
LEMMA SumUpTo ==
    ASSUME NEW f, NEW n \in Nat, \A k \in 1..n + 1 : f[k] \in Int
    PROVE  SumFunctionOnSet(f, 1..n + 1) = SumFunctionOnSet(f, 1..n) + f[n + 1]
<1> DEFINE S == 1..n
           T == 1..n + 1
           m == n + 1
<1>1. IsFiniteSet(S)
    BY FS_Interval
<1>2. T = S \cup {m} /\ m \notin S /\ \A x \in S \cup {m} : f[x] \in Int
    OBVIOUS
<1> HIDE DEF S, T, m
<1>3. SumFunctionOnSet(f, S \cup {m}) = SumFunctionOnSet(f, S) + f[m]
    BY <1>1, <1>2, SumAdd
<1>4. SumFunctionOnSet(f, T) = SumFunctionOnSet(f, S) + f[m]
    BY <1>2, <1>3, Zenon
<1> QED
    BY <1>4 DEF S, T, m

(* A sum of zeros. *)
LEMMA SumZero ==
    ASSUME NEW f, NEW S, IsFiniteSet(S), \A x \in S : f[x] = 0
    PROVE  SumFunctionOnSet(f, S) = 0
<1> DEFINE P(s) == SumFunctionOnSet(f, s) = 0
           N == {n \in Nat : \A s \in SUBSET S : Cardinality(s) = n => P(s)}
<1>1. \A s \in SUBSET S : IsFiniteSet(s) /\ Cardinality(s) \in Nat
    BY FS_Subset, FS_CardinalityType
<1>2. 0 \in N
    <2>1. P({})
        BY SumEmpty
    <2>2. \A s \in SUBSET S : Cardinality(s) = 0 => s = {}
        BY <1>1, FS_EmptySet
    <2> HIDE DEF P
    <2> QED BY <2>1, <2>2
<1>3. ASSUME NEW n \in Nat, n \in N PROVE n + 1 \in N
    <2> SUFFICES ASSUME NEW s \in SUBSET S, Cardinality(s) = n + 1 PROVE P(s)
        OBVIOUS
    <2>1. s # {}
        BY FS_EmptySet
    <2>2. Pick(s) \in S /\ s \ {Pick(s)} \in SUBSET S /\ Cardinality(s \ {Pick(s)}) = n
        BY <1>1, <2>1, Smaller
    <2>3. P(s \ {Pick(s)})
        BY <1>3, <2>2
    <2>4. SumFunctionOnSet(f, s) = f[Pick(s)] + SumFunctionOnSet(f, s \ {Pick(s)})
        BY <1>1, <2>1, SumCases
    <2> QED BY <2>2, <2>3, <2>4
<1> HIDE DEF N, P
<1>4. Nat \subseteq N
    BY <1>2, <1>3, Induction
<1>5. Cardinality(S) \in N
    BY <1>1, <1>4
<1> QED
    BY <1>5 DEF N, P

(* A sum with one term that is not zero. *)
LEMMA SumSingle ==
    ASSUME NEW f, NEW S, IsFiniteSet(S), NEW y \in S, f[y] \in Int,
           \A x \in S \ {y} : f[x] = 0
    PROVE  SumFunctionOnSet(f, S) = f[y]
<1>1. IsFiniteSet(S \ {y})
    BY FS_RemoveElement
<1>2. \A x \in S : f[x] \in Int
    OBVIOUS
<1>3. SumFunctionOnSet(f, S) = f[y] + SumFunctionOnSet(f, S \ {y})
    BY <1>2, SumRemove
<1>4. SumFunctionOnSet(f, S \ {y}) = 0
    BY <1>1, SumZero
<1> QED
    BY <1>3, <1>4
=============================================================================
