------------------------------- MODULE Reward_proofs --------------------------
(***************************************************************************)
(* The reward of a block: what a header proves of it, and how it is        *)
(* divided.                                                                *)
(*                                                                         *)
(* Of Settlement, for every bundle, target and page size: the window       *)
(* select_window returns is a newest part of the shares and the one its    *)
(* definition without pages gives, and audit and allocate together account *)
(* for the whole gross reward, down to the truncated dust.                 *)
(*                                                                         *)
(* Of Candidate, for lists of transactions, outputs and claims of any      *)
(* length: two candidates validate_candidate accepts under one header have *)
(* the same transactions, and what they say is paid is the whole reward.   *)
(*                                                                         *)
(* Totals are sums over finite sets, Merkle trees and what claims leave    *)
(* are recursive functions on numbers.  What is said of them is proved by  *)
(* induction as the absence of a smallest counterexample: the natural      *)
(* numbers are well-founded (WellFoundedInduction).                        *)
(***************************************************************************)
EXTENDS Settlement, Candidate, FiniteSetTheorems, FunctionTheorems, SequenceTheorems,
        WellFoundedInduction, TLAPS

-------------------------------------------------------------------------------
(* Sums over finite sets. *)

\* Of numbers one is least.
LEMMA LeastNumber ==
  ASSUME NEW T \in SUBSET Nat, T # {}
  PROVE  \E x \in T : \A y \in T : x <= y
<1> DEFINE R == OpToRel(<, Nat)
<1>1. \A x, y \in Nat : <<y, x>> \in R <=> y < x
      BY DEF OpToRel
<1>2. IsWellFoundedOn(R, Nat)
      BY NatLessThanWellFounded
<1> HIDE DEF R
<1>3. PICK x \in T : \A y \in T : ~ (<<y, x>> \in R)
      BY <1>2, WFMin
<1>4. \A y \in T : y \in Nat /\ x \in Nat /\ ~(y < x)
      BY <1>1, <1>3
<1> QED
    BY <1>4

\* Among finite sets one is smallest: no proper subset of it is among them.  This
\* is the induction of the lemmas below.
LEMMA SmallestSet ==
  ASSUME NEW B, B # {}, \A s \in B : IsFiniteSet(s)
  PROVE  \E s \in B : \A t \in B : t \subseteq s => t = s
<1> DEFINE T == {Cardinality(s) : s \in B}
<1>1. \A s \in B : Cardinality(s) \in Nat
      BY FS_CardinalityType
<1>2. T \in SUBSET Nat /\ T # {}
      BY <1>1
<1> HIDE DEF T
<1>3. PICK n \in T : \A m \in T : n <= m
      BY <1>2, LeastNumber
<1>4. PICK s \in B : n = Cardinality(s)
      BY <1>3 DEF T
<1>5. ASSUME NEW t \in B, t \subseteq s PROVE t = s
  <2>1. Cardinality(t) <= Cardinality(s) /\ (Cardinality(t) = Cardinality(s) => t = s)
        BY <1>4, <1>5, FS_Subset
  <2>2. Cardinality(t) \in T
        BY <1>5 DEF T
  <2>3. Cardinality(s) <= Cardinality(t)
        BY <2>2, <1>3, <1>4
  <2> QED
      BY <2>1, <2>3, <1>1, <1>4
<1> QED
    BY <1>5

First(s) == CHOOSE x \in s : TRUE
Unfolds(f, S, g) ==
  g = [s \in SUBSET S |-> IF s = {} THEN 0 ELSE f[First(s)] + g[s \ {First(s)}]]

\* A sum is the value of the function that unfolds to it, an element at a time.
LEMMA SumIs ==
  ASSUME NEW f, NEW S
  PROVE  SumFunctionOnSet(f, S) = (CHOOSE g : Unfolds(f, S, g))[S]
BY DEF SumFunctionOnSet, FoldFunctionOnSet, MapThenFoldSet, Unfolds, First

\* What unfolds to the same values is the same.
LEMMA UnfoldsOnce ==
  ASSUME NEW f, NEW k, NEW S, NEW T, NEW g, NEW h, Unfolds(f, S, g), Unfolds(k, T, h),
         NEW s, s \subseteq S, s \subseteq T, IsFiniteSet(s), \A x \in s : f[x] = k[x]
  PROVE  g[s] = h[s]
<1> DEFINE B == {u \in SUBSET s : g[u] # h[u]}
<1>1. SUFFICES ASSUME B # {} PROVE FALSE
      OBVIOUS
<1>2. \A u \in B : IsFiniteSet(u)
      BY FS_Subset
<1>3. PICK u \in B : \A t \in B : t \subseteq u => t = u
  <2> HIDE DEF B
  <2> QED
      BY <1>1, <1>2, SmallestSet
<1>4. u \in SUBSET S /\ u \in SUBSET T
      OBVIOUS
<1>5. /\ g[u] = IF u = {} THEN 0 ELSE f[First(u)] + g[u \ {First(u)}]
      /\ h[u] = IF u = {} THEN 0 ELSE k[First(u)] + h[u \ {First(u)}]
      BY <1>4 DEF Unfolds
<1>6. u # {}
      BY <1>5
<1>7. First(u) \in u
      BY <1>6 DEF First
<1>8. g[u \ {First(u)}] = h[u \ {First(u)}]
  <2>1. u \ {First(u)} \notin B
        BY <1>3, <1>7
  <2>2. u \ {First(u)} \in SUBSET s
        BY <1>3
  <2> QED
      BY <2>1, <2>2
<1> QED
    BY <1>5, <1>6, <1>7, <1>8

\* There is a function that unfolds over all subsets of a finite set.
LEMMA UnfoldsAll ==
  ASSUME NEW f, NEW S, IsFiniteSet(S)
  PROVE  Unfolds(f, S, CHOOSE g : Unfolds(f, S, g))
<1> DEFINE B == {u \in SUBSET S : ~ \E g : Unfolds(f, u, g)}
           Tot(t) == (CHOOSE g : Unfolds(f, t, g))[t]
<1>1. SUFFICES ASSUME B # {} PROVE FALSE
  <2>1. S \in SUBSET S
        OBVIOUS
  <2>2. \E g : Unfolds(f, S, g)
        BY <1>1, <2>1
  <2> QED
      BY <2>2
<1>2. \A u \in B : IsFiniteSet(u)
      BY FS_Subset
<1>3. PICK u \in B : \A t \in B : t \subseteq u => t = u
  <2> HIDE DEF B
  <2> QED
      BY <1>1, <1>2, SmallestSet
<1>4. u \in SUBSET S /\ ~ \E g : Unfolds(f, u, g)
      OBVIOUS
<1>5. ASSUME NEW t \in SUBSET u, t # u PROVE Unfolds(f, t, CHOOSE g : Unfolds(f, t, g))
  <2>1. \E g : Unfolds(f, t, g)
        BY <1>3, <1>4, <1>5
  <2> QED
      BY <2>1
<1> DEFINE g == [s \in SUBSET u |-> IF s = {} THEN 0 ELSE f[First(s)] + Tot(s \ {First(s)})]
<1>6. ASSUME NEW s \in SUBSET u, s # {} PROVE g[s \ {First(s)}] = Tot(s \ {First(s)})
  <2>1. First(s) \in s
        BY <1>6 DEF First
  <2> DEFINE v == s \ {First(s)}
  <2>2. v \in SUBSET u /\ v # u
        BY <2>1
  <2> HIDE DEF v
  <2>3. PICK h : Unfolds(f, v, h) /\ Tot(v) = h[v]
        BY <2>2, <1>5
  <2>4. h[v] = IF v = {} THEN 0 ELSE f[First(v)] + h[v \ {First(v)}]
        BY <2>3 DEF Unfolds
  <2>5. CASE v = {}
    <3>1. g[v] = 0
          BY <2>2, <2>5
    <3> QED
        BY <2>3, <2>4, <2>5, <3>1 DEF v
  <2>6. CASE v # {}
    <3>1. First(v) \in v
          BY <2>6 DEF First
    <3> DEFINE w == v \ {First(v)}
    <3>2. w \in SUBSET u /\ w # u
          BY <2>2, <3>1
    <3> HIDE DEF w
    <3>3. PICK k : Unfolds(f, w, k) /\ Tot(w) = k[w]
          BY <3>2, <1>5
    <3>4. IsFiniteSet(w) /\ w \subseteq v
          BY <1>2, <1>3, <3>2, FS_Subset DEF w
    <3>5. h[w] = k[w]
      <4> HIDE DEF Tot
      <4> QED
          BY <2>3, <3>3, <3>4, UnfoldsOnce
    <3>6. g[v] = f[First(v)] + Tot(w)
      <4> HIDE DEF Tot
      <4> QED
          BY <2>2, <2>6 DEF w
    <3>7. h[v] = f[First(v)] + h[w]
          BY <2>4, <2>6 DEF w
    <3>8. g[v] = Tot(v)
      <4> HIDE DEF Tot, g
      <4> QED
          BY <2>3, <3>3, <3>5, <3>6, <3>7
    <3> QED
        BY <3>8 DEF v
  <2> QED
      BY <2>5, <2>6
<1>7. Unfolds(f, u, g)
  <2>1. g = [s \in SUBSET u |-> IF s = {} THEN 0 ELSE f[First(s)] + g[s \ {First(s)}]]
    <3>1. g = [s \in SUBSET u |-> IF s = {} THEN 0 ELSE f[First(s)] + Tot(s \ {First(s)})]
          OBVIOUS
    <3> HIDE DEF g, Tot
    <3> QED
        BY <3>1, <1>6
  <2> HIDE DEF g
  <2> QED
      BY <2>1 DEF Unfolds
<1> QED
    BY <1>4, <1>7

\* A sum is that of any element and of the others.
LEMMA SumUnfolds ==
  ASSUME NEW f, NEW S, IsFiniteSet(S)
  PROVE  SumFunctionOnSet(f, S) =
           IF S = {} THEN 0 ELSE f[First(S)] + SumFunctionOnSet(f, S \ {First(S)})
<1> DEFINE g == CHOOSE g : Unfolds(f, S, g)
           T == S \ {First(S)}
           h == CHOOSE h : Unfolds(f, T, h)
<1>1. Unfolds(f, S, g)
      BY UnfoldsAll
<1>2. SumFunctionOnSet(f, S) = g[S] /\ SumFunctionOnSet(f, T) = h[T]
      BY SumIs
<1>3. IsFiniteSet(T)
      BY FS_Subset
<1>4. Unfolds(f, T, h)
      BY <1>3, UnfoldsAll
<1>5. T \subseteq S
      OBVIOUS
<1> HIDE DEF g, h
<1>6. g[T] = h[T]
      BY <1>1, <1>3, <1>4, <1>5, UnfoldsOnce
<1>7. g[S] = IF S = {} THEN 0 ELSE f[First(S)] + g[T]
      BY <1>1 DEF Unfolds
<1> QED
    BY <1>2, <1>6, <1>7

\* The sum of nothing.
LEMMA SumEmpty == \A f : SumFunctionOnSet(f, {}) = 0
BY SumUnfolds, FS_EmptySet

\* The element a sum unfolds by, and the smaller set it leaves.
LEMMA FirstFacts ==
  ASSUME NEW S, S # {}, IsFiniteSet(S)
  PROVE  First(S) \in S /\ IsFiniteSet(S \ {First(S)}) /\ S \ {First(S)} # S
<1>1. First(S) \in S
      BY DEF First
<1>2. IsFiniteSet(S \ {First(S)})
      BY FS_Subset
<1> QED
    BY <1>1, <1>2

\* A sum depends on the values over its set only.
LEMMA SumSame ==
  ASSUME NEW S, IsFiniteSet(S), NEW f, NEW g, \A x \in S : f[x] = g[x]
  PROVE  SumFunctionOnSet(f, S) = SumFunctionOnSet(g, S)
<1>1. Unfolds(f, S, CHOOSE h : Unfolds(f, S, h))
      BY UnfoldsAll
<1>2. Unfolds(g, S, CHOOSE h : Unfolds(g, S, h))
      BY UnfoldsAll
<1>3. (CHOOSE h : Unfolds(f, S, h))[S] = (CHOOSE h : Unfolds(g, S, h))[S]
      BY <1>1, <1>2, UnfoldsOnce
<1> QED
    BY <1>3, SumIs

\* A sum of integers is an integer.
LEMMA SumInt ==
  ASSUME NEW S, IsFiniteSet(S), NEW f, \A x \in S : f[x] \in Int
  PROVE  SumFunctionOnSet(f, S) \in Int
<1> DEFINE B == {u \in SUBSET S : SumFunctionOnSet(f, u) \notin Int}
<1>1. SUFFICES ASSUME B # {} PROVE FALSE
  <2>1. S \in SUBSET S
        OBVIOUS
  <2> QED
      BY <1>1, <2>1
<1>2. \A u \in B : IsFiniteSet(u)
      BY FS_Subset
<1>3. PICK u \in B : \A t \in B : t \subseteq u => t = u
  <2> HIDE DEF B
  <2> QED
      BY <1>1, <1>2, SmallestSet
<1>4. u # {}
      BY SumEmpty
<1>5. /\ First(u) \in u /\ u \ {First(u)} # u
      /\ SumFunctionOnSet(f, u) = f[First(u)] + SumFunctionOnSet(f, u \ {First(u)})
      BY <1>2, <1>3, <1>4, FirstFacts, SumUnfolds
<1>6. SumFunctionOnSet(f, u \ {First(u)}) \in Int
      BY <1>3, <1>5
<1>7. f[First(u)] \in Int
      BY <1>5
<1> QED
    BY <1>5, <1>6, <1>7

\* A sum is that of any one element and of the others: the order is of no matter.
LEMMA SumWithoutAny ==
  ASSUME NEW S, IsFiniteSet(S), NEW f, \A x \in S : f[x] \in Int
  PROVE  \A x \in S : SumFunctionOnSet(f, S) = f[x] + SumFunctionOnSet(f, S \ {x})
<1> DEFINE Tot(u) == SumFunctionOnSet(f, u)
           B == {u \in SUBSET S : ~ \A x \in u : Tot(u) = f[x] + Tot(u \ {x})}
<1>1. SUFFICES ASSUME B # {} PROVE FALSE
  <2>1. S \in SUBSET S
        OBVIOUS
  <2> QED
      BY <1>1, <2>1
<1>2. \A u \in B : IsFiniteSet(u)
      BY FS_Subset
<1>3. PICK u \in B : \A t \in B : t \subseteq u => t = u
  <2> HIDE DEF B
  <2> QED
      BY <1>1, <1>2, SmallestSet
<1>4. PICK x \in u : Tot(u) # f[x] + Tot(u \ {x})
      OBVIOUS
<1>5. \A t \in SUBSET u : t # u => \A y \in t : Tot(t) = f[y] + Tot(t \ {y})
  <2> HIDE DEF Tot
  <2> QED
      BY <1>3
<1> DEFINE p == First(u)
           v == u \ {p}
           w == u \ {x}
           r == v \ {x}
<1>6. p \in u /\ v # u /\ Tot(u) = f[p] + Tot(v) /\ IsFiniteSet(v) /\ IsFiniteSet(r)
      BY <1>2, <1>3, <1>4, FirstFacts, SumUnfolds, FS_Subset
<1>7. CASE p = x
      BY <1>4, <1>6, <1>7
<1>8. CASE p # x
  <2>1. x \in v /\ p \in w /\ v \in SUBSET u /\ w \in SUBSET u /\ w # u /\ w \ {p} = r
        BY <1>4, <1>6, <1>8
  <2>2. Tot(v) = f[x] + Tot(r) /\ Tot(w) = f[p] + Tot(r)
    <3> HIDE DEF Tot
    <3> QED
        BY <2>1, <1>5, <1>6
  <2>3. Tot(r) \in Int
    <3>1. \A y \in r : f[y] \in Int
          BY <1>3
    <3> QED
        BY <1>6, <3>1, SumInt
  <2>4. f[x] \in Int /\ f[p] \in Int
        BY <1>3, <1>4, <1>6
  <2>5. Tot(u) = f[x] + Tot(w)
    <3> HIDE DEF Tot, p, v, w, r
    <3> QED
        BY <1>6, <2>2, <2>3, <2>4
  <2> QED
      BY <1>4, <2>5
<1> QED
    BY <1>7, <1>8

\* The same, with the types.
LEMMA SumWithout ==
  ASSUME NEW S, IsFiniteSet(S), NEW f, \A y \in S : f[y] \in Int, NEW x \in S
  PROVE  /\ SumFunctionOnSet(f, S) = f[x] + SumFunctionOnSet(f, S \ {x})
         /\ SumFunctionOnSet(f, S) \in Int /\ SumFunctionOnSet(f, S \ {x}) \in Int
<1>1. IsFiniteSet(S \ {x})
      BY FS_Subset
<1> QED
    BY <1>1, SumWithoutAny, SumInt

\* A sum over one more element.
LEMMA SumWith ==
  ASSUME NEW S, IsFiniteSet(S), NEW f, NEW x, x \notin S, \A y \in S \union {x} : f[y] \in Int
  PROVE  /\ SumFunctionOnSet(f, S \union {x}) = f[x] + SumFunctionOnSet(f, S)
         /\ SumFunctionOnSet(f, S \union {x}) \in Int /\ SumFunctionOnSet(f, S) \in Int
<1> DEFINE T == S \union {x}
<1>1. IsFiniteSet(T) /\ T \ {x} = S /\ x \in T
      BY FS_AddElement
<1> HIDE DEF T
<1>2. \A y \in T : f[y] \in Int
      BY DEF T
<1>3. /\ SumFunctionOnSet(f, T) = f[x] + SumFunctionOnSet(f, T \ {x})
      /\ SumFunctionOnSet(f, T) \in Int /\ SumFunctionOnSet(f, T \ {x}) \in Int
      BY <1>1, <1>2, SumWithout
<1> QED
    BY <1>1, <1>3 DEF T

\* A sum of a multiple and another sum.
LEMMA SumLinear ==
  ASSUME NEW S, IsFiniteSet(S), NEW c \in Int, NEW f, NEW g, NEW h,
         \A x \in S : f[x] \in Int /\ g[x] \in Int /\ h[x] = c * f[x] + g[x]
  PROVE  SumFunctionOnSet(h, S) = c * SumFunctionOnSet(f, S) + SumFunctionOnSet(g, S)
<1> DEFINE F(u) == SumFunctionOnSet(f, u)
           G(u) == SumFunctionOnSet(g, u)
           H(u) == SumFunctionOnSet(h, u)
           B == {u \in SUBSET S : H(u) # c * F(u) + G(u)}
<1>1. SUFFICES ASSUME B # {} PROVE FALSE
  <2>1. S \in SUBSET S
        OBVIOUS
  <2> QED
      BY <1>1, <2>1
<1>2. \A u \in B : IsFiniteSet(u)
      BY FS_Subset
<1>3. PICK u \in B : \A t \in B : t \subseteq u => t = u
  <2> HIDE DEF B
  <2> QED
      BY <1>1, <1>2, SmallestSet
<1>4. u \in SUBSET S /\ H(u) # c * F(u) + G(u) /\ IsFiniteSet(u)
      BY <1>2
<1>5. u # {}
  <2>1. F({}) = 0 /\ G({}) = 0 /\ H({}) = 0
        BY SumEmpty
  <2> HIDE DEF F, G, H
  <2>2. c * 0 = 0
        OBVIOUS
  <2>3. H({}) = c * F({}) + G({})
        BY <2>1, <2>2
  <2> QED
      BY <1>4, <2>3
<1> DEFINE p == First(u)
           v == u \ {p}
<1>6. p \in u /\ v # u /\ v \in SUBSET S
      BY <1>4, <1>5, FirstFacts
<1>7. f[p] \in Int /\ g[p] \in Int /\ h[p] = c * f[p] + g[p] /\ h[p] \in Int
      BY <1>4, <1>6
<1>8. F(u) = f[p] + F(v) /\ F(v) \in Int
      BY <1>4, <1>6, SumWithout
<1>9. G(u) = g[p] + G(v) /\ G(v) \in Int
      BY <1>4, <1>6, SumWithout
<1>10. H(u) = h[p] + H(v)
      BY <1>4, <1>6, SumWithout
<1>11. H(v) = c * F(v) + G(v)
  <2> HIDE DEF F, G, H
  <2> QED
      BY <1>3, <1>6
<1> HIDE DEF F, G, H, p, v
<1>12. c * (f[p] + F(v)) = c * f[p] + c * F(v)
      BY <1>7, <1>8
<1>13. c * f[p] \in Int /\ c * F(v) \in Int
      BY <1>7, <1>8
<1> QED
    BY <1>4, <1>7, <1>8, <1>9, <1>10, <1>11, <1>12, <1>13

\* A sum of greater terms is greater.
LEMMA SumMono ==
  ASSUME NEW S, IsFiniteSet(S), NEW f, NEW g,
         \A x \in S : f[x] \in Int /\ g[x] \in Int /\ f[x] <= g[x]
  PROVE  SumFunctionOnSet(f, S) <= SumFunctionOnSet(g, S)
<1> DEFINE F(u) == SumFunctionOnSet(f, u)
           G(u) == SumFunctionOnSet(g, u)
           B == {u \in SUBSET S : ~ (F(u) <= G(u))}
<1>1. SUFFICES ASSUME B # {} PROVE FALSE
  <2>1. S \in SUBSET S
        OBVIOUS
  <2> QED
      BY <1>1, <2>1
<1>2. \A u \in B : IsFiniteSet(u)
      BY FS_Subset
<1>3. PICK u \in B : \A t \in B : t \subseteq u => t = u
  <2> HIDE DEF B
  <2> QED
      BY <1>1, <1>2, SmallestSet
<1>4. u \in SUBSET S /\ ~ (F(u) <= G(u)) /\ IsFiniteSet(u)
      BY <1>2
<1>5. u # {}
  <2>1. F({}) = 0 /\ G({}) = 0
        BY SumEmpty
  <2> HIDE DEF F, G
  <2> QED
      BY <1>4, <2>1
<1> DEFINE p == First(u)
           v == u \ {p}
<1>6. p \in u /\ v # u /\ v \in SUBSET S
      BY <1>4, <1>5, FirstFacts
<1>7. f[p] \in Int /\ g[p] \in Int /\ f[p] <= g[p]
      BY <1>4, <1>6
<1>8. F(u) = f[p] + F(v) /\ F(v) \in Int
      BY <1>4, <1>6, SumWithout
<1>9. G(u) = g[p] + G(v) /\ G(v) \in Int
      BY <1>4, <1>6, SumWithout
<1>10. F(v) <= G(v)
  <2> HIDE DEF F, G
  <2> QED
      BY <1>3, <1>6
<1> HIDE DEF F, G, p, v
<1> QED
    BY <1>4, <1>7, <1>8, <1>9, <1>10

\* The sum of a constant.
LEMMA SumConstant ==
  ASSUME NEW S, IsFiniteSet(S), NEW c \in Int, NEW f, \A x \in S : f[x] = c
  PROVE  SumFunctionOnSet(f, S) = c * Cardinality(S)
<1> DEFINE F(u) == SumFunctionOnSet(f, u)
           B == {u \in SUBSET S : F(u) # c * Cardinality(u)}
<1>1. SUFFICES ASSUME B # {} PROVE FALSE
  <2>1. S \in SUBSET S
        OBVIOUS
  <2> QED
      BY <1>1, <2>1
<1>2. \A u \in B : IsFiniteSet(u)
      BY FS_Subset
<1>3. PICK u \in B : \A t \in B : t \subseteq u => t = u
  <2> HIDE DEF B
  <2> QED
      BY <1>1, <1>2, SmallestSet
<1>4. u \in SUBSET S /\ F(u) # c * Cardinality(u) /\ IsFiniteSet(u)
      BY <1>2
<1>5. u # {}
  <2>1. F({}) = 0 /\ Cardinality({}) = 0
        BY SumEmpty, FS_EmptySet
  <2> HIDE DEF F
  <2> QED
      BY <1>4, <2>1
<1> DEFINE p == First(u)
           v == u \ {p}
<1>6. p \in u /\ v # u /\ v \in SUBSET S
      BY <1>4, <1>5, FirstFacts
<1>7. f[p] = c
      BY <1>4, <1>6
<1>8. F(u) = f[p] + F(v) /\ F(v) \in Int
      BY <1>4, <1>6, SumWithout
<1>9. Cardinality(v) = Cardinality(u) - 1 /\ Cardinality(u) \in Nat
      BY <1>4, <1>6, FS_RemoveElement, FS_CardinalityType
<1>10. F(v) = c * Cardinality(v)
  <2> HIDE DEF F
  <2> QED
      BY <1>3, <1>6
<1> HIDE DEF F, p, v
<1>11. c * (Cardinality(u) - 1) = c * Cardinality(u) - c
      BY <1>9
<1>12. c * Cardinality(u) \in Int
      BY <1>9
<1> QED
    BY <1>4, <1>7, <1>8, <1>9, <1>10, <1>11, <1>12

\* A sum of naturals is a natural.
LEMMA SumNat ==
  ASSUME NEW S, IsFiniteSet(S), NEW f, \A x \in S : f[x] \in Nat
  PROVE  SumFunctionOnSet(f, S) \in Nat
<1> DEFINE zero == [x \in S |-> 0]
<1>1. SumFunctionOnSet(zero, S) = 0 * Cardinality(S)
      BY SumConstant
<1>2. Cardinality(S) \in Nat
      BY FS_CardinalityType
<1>3. SumFunctionOnSet(zero, S) <= SumFunctionOnSet(f, S)
      BY SumMono
<1>4. SumFunctionOnSet(f, S) \in Int
      BY SumInt
<1> HIDE DEF zero
<1> QED
    BY <1>1, <1>2, <1>3, <1>4

\* A sum of naturals over a part is at most the whole.
LEMMA SumSubset ==
  ASSUME NEW S, IsFiniteSet(S), NEW f, \A x \in S : f[x] \in Nat, NEW T, T \subseteq S
  PROVE  SumFunctionOnSet(f, T) <= SumFunctionOnSet(f, S)
<1> DEFINE F(u) == SumFunctionOnSet(f, u)
           B == {u \in SUBSET S : T \subseteq u /\ ~ (F(T) <= F(u))}
<1>1. SUFFICES ASSUME B # {} PROVE FALSE
  <2>1. S \in SUBSET S
        OBVIOUS
  <2> QED
      BY <1>1, <2>1
<1>2. \A u \in B : IsFiniteSet(u)
      BY FS_Subset
<1>3. PICK u \in B : \A t \in B : t \subseteq u => t = u
  <2> HIDE DEF B
  <2> QED
      BY <1>1, <1>2, SmallestSet
<1>4. u \in SUBSET S /\ T \subseteq u /\ ~ (F(T) <= F(u)) /\ IsFiniteSet(u)
      BY <1>2
<1>5. F(T) \in Int
  <2>1. IsFiniteSet(T) /\ \A x \in T : f[x] \in Int
        BY <1>4, FS_Subset
  <2> QED
      BY <2>1, SumInt
<1>6. T # u
      BY <1>4, <1>5
<1>7. PICK p \in u : p \notin T
      BY <1>4, <1>6
<1> DEFINE v == u \ {p}
<1>8. v # u /\ v \in SUBSET S /\ T \subseteq v
      BY <1>4, <1>7
<1>9. f[p] \in Nat
      BY <1>4
<1>10. F(u) = f[p] + F(v) /\ F(v) \in Int
      BY <1>4, <1>7, SumWithout
<1>11. F(T) <= F(v)
  <2> HIDE DEF F, v
  <2> QED
      BY <1>3, <1>8 DEF v
<1> HIDE DEF F, v
<1> QED
    BY <1>4, <1>5, <1>9, <1>10, <1>11

\* Summed by key, then over the keys, is summed at once.
LEMMA SumByKey ==
  ASSUME NEW S, IsFiniteSet(S), NEW f, \A x \in S : f[x] \in Int,
         NEW P, IsFiniteSet(P), NEW k, \A x \in S : k[x] \in P
  PROVE  SumFunctionOnSet([i \in P |-> SumFunctionOnSet(f, {x \in S : k[x] = i})], P)
           = SumFunctionOnSet(f, S)
<1> DEFINE F(u) == SumFunctionOnSet(f, u)
           Of(u, i) == {x \in u : k[x] = i}
           G(u) == [i \in P |-> F(Of(u, i))]
           All(u) == SumFunctionOnSet(G(u), P)
           B == {u \in SUBSET S : All(u) # F(u)}
<1>1. SUFFICES ASSUME B # {} PROVE FALSE
  <2>1. S \in SUBSET S
        OBVIOUS
  <2> QED
      BY <1>1, <2>1
<1>2. \A u \in B : IsFiniteSet(u)
      BY FS_Subset
<1>3. PICK u \in B : \A t \in B : t \subseteq u => t = u
  <2> HIDE DEF B
  <2> QED
      BY <1>1, <1>2, SmallestSet
<1>4. u \in SUBSET S /\ All(u) # F(u) /\ IsFiniteSet(u)
      BY <1>2
<1>5. ASSUME NEW t \in SUBSET u, NEW i \in P
      PROVE  IsFiniteSet(Of(t, i)) /\ G(t)[i] = F(Of(t, i)) /\ G(t)[i] \in Int
  <2>1. IsFiniteSet(Of(t, i))
        BY <1>4, FS_Subset
  <2>2. \A x \in Of(t, i) : f[x] \in Int
        BY <1>4
  <2> QED
      BY <2>1, <2>2, SumInt
<1>6. u # {}
  <2> SUFFICES ASSUME u = {} PROVE FALSE
      OBVIOUS
  <2>1. \A i \in P : G(u)[i] = 0
    <3>1. \A i \in P : Of(u, i) = {}
          OBVIOUS
    <3> QED
        BY <3>1, SumEmpty
  <2>2. All(u) = 0 * Cardinality(P) /\ Cardinality(P) \in Nat
        BY <2>1, SumConstant, FS_CardinalityType
  <2>3. F(u) = 0
        BY SumEmpty
  <2> HIDE DEF All, F
  <2> QED
      BY <1>4, <2>2, <2>3
<1>7. PICK p \in u : TRUE
      BY <1>6
<1> DEFINE v == u \ {p}
           j == k[p]
<1>8. v # u /\ v \in SUBSET S /\ v \in SUBSET u /\ j \in P /\ u \in SUBSET u
      BY <1>4, <1>7
<1>9. F(u) = f[p] + F(v) /\ F(v) \in Int /\ f[p] \in Int
      BY <1>4, <1>7, SumWithout
<1>10. G(u)[j] = f[p] + G(v)[j]
  <2>1. p \in Of(u, j) /\ Of(u, j) \ {p} = Of(v, j)
        BY <1>7
  <2>2. IsFiniteSet(Of(u, j)) /\ \A x \in Of(u, j) : f[x] \in Int
        BY <1>4, <1>5, <1>8
  <2>3. F(Of(u, j)) = f[p] + F(Of(v, j))
    <3>1. PICK X : X = Of(u, j)
          OBVIOUS
    <3>2. IsFiniteSet(X) /\ (\A x \in X : f[x] \in Int) /\ p \in X /\ X \ {p} = Of(v, j)
          BY <2>1, <2>2, <3>1
    <3>3. SumFunctionOnSet(f, X) = f[p] + SumFunctionOnSet(f, X \ {p})
          BY ONLY <3>2, SumWithout
    <3> HIDE DEF Of, j, v
    <3> QED
        BY <3>1, <3>2, <3>3
  <2> QED
      BY <1>5, <1>8, <2>3
<1>11. \A i \in P \ {j} : G(u)[i] = G(v)[i]
  <2>1. \A i \in P \ {j} : Of(u, i) = Of(v, i)
        OBVIOUS
  <2> HIDE DEF Of, F
  <2> QED
      BY <2>1
<1>12. /\ All(u) = G(u)[j] + SumFunctionOnSet(G(u), P \ {j})
       /\ All(v) = G(v)[j] + SumFunctionOnSet(G(v), P \ {j})
       /\ SumFunctionOnSet(G(v), P \ {j}) \in Int
  <2>1. \A i \in P : G(u)[i] \in Int /\ G(v)[i] \in Int
        BY <1>5, <1>8
  <2> HIDE DEF G, j
  <2> QED
      BY <1>8, <2>1, SumWithout
<1>13. SumFunctionOnSet(G(u), P \ {j}) = SumFunctionOnSet(G(v), P \ {j})
  <2>1. IsFiniteSet(P \ {j})
        BY FS_Subset
  <2> HIDE DEF G, j
  <2> QED
      BY <1>11, <2>1, SumSame
<1>14. All(v) = F(v)
  <2> HIDE DEF All, F, v
  <2> QED
      BY <1>3, <1>8
<1>15. G(v)[j] \in Int
      BY <1>5, <1>8
<1> HIDE DEF F, G, All, v, j
<1> QED
    BY <1>4, <1>9, <1>10, <1>12, <1>13, <1>14, <1>15

-------------------------------------------------------------------------------
(* The window. *)

\* The audit's first state has taken nothing.
LEMMA WindowInvInit == Init => WindowInv
<1> SUFFICES ASSUME Init PROVE WindowInv
    OBVIOUS
<1>1. bundle \in Bundle
      BY SettlementAssumption DEF Init
<1>2. bundle.factor \in Nat
      BY <1>1 DEF Bundle
<1> QED
    BY <1>1, <1>2 DEF Init, WindowInv, WindowIsNewest, TakenFromRows, Unselected, Rows, Ids

\* Steps outside the paging loop change neither the bundle nor what is taken.
LEMMA OutsideStep ==
  ASSUME WindowInv, Refuse \/ BeginWindow \/ BeginProp \/ AllocateRefused \/ Allocate
  PROVE  WindowInv'
<1>1. CASE Refuse
      BY <1>1 DEF Refuse, WindowInv, WindowIsNewest, TakenFromRows, Unselected, Rows, Ids,
                  Windowed, Older, KeysDistinct
<1>2. CASE BeginWindow
  <2>1. KeysDistinct
        BY <1>2 DEF BeginWindow, Sound, IdRepeated, TupleRepeated, KeysDistinct, Rows
  <2>2. bundle.factor \in Nat \ {0} /\ Unselected = Rows /\ Older = Rows
        BY <1>2 DEF BeginWindow, WindowInv, Bundle, Unselected, Older, Ids, Rows
  <2> QED
      BY <1>2, <2>1, <2>2 DEF BeginWindow, WindowInv, WindowIsNewest, TakenFromRows,
         Unselected, Rows, Ids, Windowed, Older, KeysDistinct
<1>3. CASE BeginProp
      BY <1>3 DEF BeginProp, WindowInv, WindowIsNewest, Windowed
<1>4. CASE AllocateRefused
      BY <1>4 DEF AllocateRefused, WindowInv, WindowIsNewest, TakenFromRows, Unselected,
                  Rows, Ids, Windowed, Older, KeysDistinct
<1>5. CASE Allocate
      BY <1>5 DEF Allocate, WindowInv, WindowIsNewest, TakenFromRows, Unselected,
                  Rows, Ids, Windowed, Older, KeysDistinct
<1> QED
    BY <1>1, <1>2, <1>3, <1>4, <1>5

\* A page that is read holds the newest rows left, and is empty only when none is.
LEMMA ReadPageStep ==
  ASSUME WindowInv, Windowed, ReadPage
  PROVE  WindowInv'
<1>1. PICK rows \in SUBSET Older :
        /\ IsPage(rows)
        /\ page' = rows
        /\ phase' = IF rows = {} THEN "allocate" ELSE "row"
      BY DEF ReadPage
<1>2. /\ Older = Unselected /\ bundle.page \in Nat \ {0} /\ bundle.factor \in Nat
      /\ UNCHANGED <<bundle, cursor, selected, total>>
      /\ phase = "page" /\ KeysDistinct /\ total < bundle.factor
      BY DEF ReadPage, WindowInv, Bundle
<1>3. rows = {} => Unselected = {}
      BY <1>1, <1>2, FS_EmptySet DEF IsPage
<1>4. \A r \in rows, s \in Unselected \ rows : s.tuple < r.tuple
      BY <1>1, <1>2 DEF IsPage
<1>5. Unselected' = Unselected /\ Windowed'
      BY <1>2 DEF Unselected, Rows, Ids, Windowed
<1> QED
    BY <1>1, <1>2, <1>3, <1>4, <1>5 DEF WindowInv, WindowIsNewest, TakenFromRows, Rows,
       KeysDistinct, Windowed

\* Taking the newest row of the page keeps the order, and pays in part only the
\* row that meets the target.
LEMMA TakeRowStep ==
  ASSUME WindowInv, Windowed, TakeRow
  PROVE  WindowInv'
<1>1. PICK r \in Newest(page) :
        /\ selected' = selected \union {Taken(r)}
        /\ total' = total + Contribution(r)
        /\ page' = page \ {r}
        /\ cursor' = IF page' = {} THEN r.tuple ELSE cursor
      BY DEF TakeRow
<1>2. /\ phase = "row" /\ KeysDistinct /\ total \in Nat /\ total < bundle.factor
      /\ UNCHANGED bundle /\ page \subseteq Unselected /\ TakenFromRows
      /\ selected \in SUBSET Selected
      /\ \A p \in page, s \in Unselected \ page : s.tuple < p.tuple
      /\ \A s \in selected, q \in Unselected : q.tuple < s.tuple
      /\ \A s \in selected : s.share = s.score
      BY DEF TakeRow, WindowInv, WindowIsNewest, Bundle
<1>3. /\ r \in page /\ r \in Unselected /\ r \in Rows /\ r \in Row
      /\ \A q \in page : q.tuple <= r.tuple
      BY <1>1, <1>2 DEF Newest, Unselected, Rows, WindowInv, Bundle
<1>4. \A q \in Rows : q.tuple \in Nat /\ q.id \in Nat
      BY DEF WindowInv, Bundle, Rows, Row
<1>5. bundle.factor \in Nat
      BY DEF WindowInv, Bundle
<1>6. /\ Contribution(r) \in Nat
      /\ Contribution(r) = r.score \/ total + Contribution(r) = bundle.factor
      /\ total + Contribution(r) \in Nat /\ total + Contribution(r) <= bundle.factor
      BY <1>2, <1>3, <1>5 DEF Contribution, Left, Row
<1>7. Taken(r) \in Selected
      BY <1>3, <1>6 DEF Taken, Selected, Row
<1>8. Ids' = Ids \union {r.id}
  <2>1. Taken(r).id = r.id
        BY DEF Taken
  <2>2. selected' = selected \union {Taken(r)}
        BY <1>1
  <2> QED
      BY <2>1, <2>2 DEF Ids
<1>9. Unselected' = Unselected \ {r}
      BY <1>2, <1>3, <1>8 DEF Unselected, Rows, KeysDistinct
<1>10. \A q \in Unselected' : q.tuple < r.tuple
  <2> SUFFICES ASSUME NEW q \in Unselected' PROVE q.tuple < r.tuple
      OBVIOUS
  <2>1. q \in Unselected /\ q # r /\ q \in Rows
        BY <1>9 DEF Unselected
  <2>2. CASE q \in page
        BY <2>1, <2>2, <1>2, <1>3, <1>4 DEF KeysDistinct
  <2>3. CASE q \notin page
        BY <2>1, <2>3, <1>2, <1>3
  <2> QED
      BY <2>2, <2>3
<1>11. \A s \in selected', q \in Unselected' : q.tuple < s.tuple
       BY <1>1, <1>2, <1>9, <1>10 DEF Taken
<1>12. \A s \in selected' : s.share # s.score =>
          total' = bundle.factor /\ \A t \in selected' : s.tuple <= t.tuple
  <2> SUFFICES ASSUME NEW s \in selected', s.share # s.score
               PROVE  total' = bundle.factor /\ \A t \in selected' : s.tuple <= t.tuple
      OBVIOUS
  <2>1. s = Taken(r)
        BY <1>1, <1>2
  <2>2. s.tuple = r.tuple /\ s.share = Contribution(r) /\ s.score = r.score
        BY <2>1 DEF Taken
  <2>3. total' = bundle.factor
        BY <1>1, <1>6, <2>2
  <2>4. ASSUME NEW t \in selected' PROVE s.tuple <= t.tuple
    <3>1. CASE t \in selected
      <4>1. r.tuple < t.tuple
            BY <1>2, <1>3, <3>1
      <4>2. t.tuple \in Nat
            BY <1>2, <3>1 DEF Selected
      <4> QED
          BY <4>1, <4>2, <2>2, <1>3, <1>4
    <3>2. CASE t = Taken(r)
          BY <3>2, <2>2, <1>3, <1>4 DEF Taken
    <3> QED
        BY <1>1, <3>1, <3>2
  <2> QED
      BY <2>3, <2>4
<1>13. TakenFromRows'
       BY <1>1, <1>2, <1>3 DEF TakenFromRows, Taken, Rows
<1>14. page' \subseteq Unselected'
       BY <1>1, <1>2, <1>9
<1>15. page' = {} => Older' = Unselected'
  <2> SUFFICES ASSUME page' = {} PROVE Older' = Unselected'
      OBVIOUS
  <2>1. Older' = {q \in Rows : q.tuple < r.tuple}
        BY <1>1, <1>2, <1>3, <1>4, SettlementAssumption DEF Older, Rows
  <2>2. ASSUME NEW q \in Rows, q.tuple < r.tuple PROVE q \in Unselected
    <3> SUFFICES ASSUME q.id \in Ids PROVE FALSE
        BY DEF Unselected
    <3>1. PICK s \in selected : s.id = q.id
          BY DEF Ids
    <3>2. s.tuple = q.tuple
          BY <3>1, <1>2 DEF TakenFromRows, KeysDistinct
    <3>3. r.tuple < s.tuple
          BY <1>2, <1>3
    <3> QED
        BY <3>2, <3>3, <2>2, <1>3, <1>4
  <2>3. ASSUME NEW q \in Rows, q.tuple < r.tuple PROVE q # r
        BY <2>3, <1>4
  <2>4. Unselected' \subseteq Rows
        BY <1>9 DEF Unselected
  <2> QED
      BY <2>1, <2>2, <2>3, <2>4, <1>9, <1>10
<1>16. \A p \in page', s \in Unselected' \ page' : s.tuple < p.tuple
       BY <1>1, <1>2, <1>9
<1>17. /\ phase' = "page" => page' = {} /\ total' # bundle.factor
       /\ phase' = "row" => page' # {} /\ total' # bundle.factor
       /\ phase' \in {"page", "row", "allocate"}
       /\ phase' = "allocate" => total' = bundle.factor
       BY <1>2 DEF TakeRow, Met
<1>18. cursor' \in Nat \union {None}
       BY <1>1, <1>3, <1>4 DEF WindowInv
<1>19. total' \in Nat /\ total' <= bundle.factor
       BY <1>1, <1>6
<1>20. selected' \in SUBSET Selected
       BY <1>1, <1>2, <1>7
<1>21. (Windowed <=> Windowed') /\ (KeysDistinct <=> KeysDistinct') /\ bundle' \in Bundle
       BY <1>2 DEF Windowed, KeysDistinct, Rows, WindowInv
<1>22. WindowIsNewest'
       BY <1>2, <1>11, <1>12, <1>17, <1>19 DEF WindowIsNewest
<1> QED
    BY <1>2, <1>5, <1>13, <1>14, <1>15, <1>16, <1>17, <1>18, <1>19, <1>20, <1>21, <1>22
    DEF WindowInv

\* Every step keeps the invariant; PROP bundles never enter the loop.
LEMMA WindowInvStep == WindowInv /\ [Next]_vars => WindowInv'
<1> SUFFICES ASSUME WindowInv, [Next]_vars PROVE WindowInv'
    OBVIOUS
<1>1. CASE Refuse \/ BeginWindow \/ BeginProp \/ AllocateRefused \/ Allocate
      BY <1>1, OutsideStep
<1>2. CASE ReadPage
  <2>1. CASE Windowed
        BY <1>2, <2>1, ReadPageStep
  <2>2. CASE ~Windowed
        BY <1>2, <2>2 DEF ReadPage, WindowInv, WindowIsNewest, Windowed
  <2> QED
      BY <2>1, <2>2
<1>3. CASE TakeRow
  <2>1. CASE Windowed
        BY <1>3, <2>1, TakeRowStep
  <2>2. CASE ~Windowed
        BY <1>3, <2>2 DEF TakeRow, WindowInv, WindowIsNewest, Windowed
  <2> QED
      BY <2>1, <2>2
<1>4. CASE UNCHANGED vars
      BY <1>4 DEF vars, WindowInv, WindowIsNewest, TakenFromRows, Unselected, Rows, Ids,
                  Windowed, Older, KeysDistinct
<1> QED
    BY <1>1, <1>2, <1>3, <1>4 DEF Next

\* Between pages the cursor separates the shares taken from the others; within a
\* page its rest is newer than all that were not read.
THEOREM WindowInvariance == Spec => []WindowInv
    BY WindowInvInit, WindowInvStep, PTL DEF Spec

\* The window of select_window is a newest part of the shares that stops at the
\* target, pays only its oldest share in part, and does not depend on the pages.
THEOREM WindowIsNewestHolds == Spec => []WindowIsNewest
<1>1. WindowInv => WindowIsNewest
      BY DEF WindowInv
<1> QED
    BY WindowInvInit, WindowInvStep, <1>1, PTL DEF Spec

-------------------------------------------------------------------------------
(* What is allocated adds up. *)

\* The image of a finite set is finite.
LEMMA ImageFinite ==
  ASSUME NEW S, IsFiniteSet(S), NEW f
  PROVE  IsFiniteSet({f[x] : x \in S})
<1> DEFINE T == {f[x] : x \in S}
           g == [x \in S |-> f[x]]
<1>1. g \in Surjection(S, T)
      BY DEF Surjection
<1> QED
    BY <1>1, FS_Surjection

\* A fraction of natural numbers, truncated.
LEMMA Truncated ==
  ASSUME NEW a \in Nat, NEW D \in Nat \ {0}
  PROVE  a \div D \in Nat /\ D * (a \div D) <= a /\ a <= D * (a \div D) + (D - 1)
OBVIOUS

\* Parts of a reward, each truncated once, leave less than one step each.
LEMMA TruncatedParts ==
  ASSUME NEW S, IsFiniteSet(S), S # {}, NEW R \in Nat, NEW D \in Nat \ {0}, NEW w,
         \A x \in S : w[x] \in Nat, SumFunctionOnSet(w, S) = D,
         NEW q, \A x \in S : q[x] = (R * w[x]) \div D
  PROVE  /\ \A x \in S : q[x] \in Nat
         /\ R - SumFunctionOnSet(q, S) \in 0..(Cardinality(S) - 1)
<1> DEFINE zero == [x \in S |-> 0]
           last == [x \in S |-> D - 1]
           paid == [x \in S |-> R * w[x]]
           low == [x \in S |-> D * q[x]]
           high == [x \in S |-> D * q[x] + (D - 1)]
           Q == SumFunctionOnSet(q, S)
           C == Cardinality(S)
<1>1. ASSUME NEW x \in S
      PROVE  /\ R * w[x] \in Nat /\ q[x] \in Nat
             /\ D * q[x] <= R * w[x] /\ R * w[x] <= D * q[x] + (D - 1)
  <2>1. R * w[x] \in Nat
        OBVIOUS
  <2> QED
      BY <2>1, Truncated
<1>2. C \in Nat \ {0} /\ Q \in Nat
      BY <1>1, SumNat, FS_CardinalityType, FS_EmptySet
<1>3. SumFunctionOnSet(zero, S) = 0
  <2>1. SumFunctionOnSet(zero, S) = 0 * C
        BY SumConstant
  <2> HIDE DEF zero, C
  <2> QED
      BY <2>1, <1>2
<1>4. SumFunctionOnSet(last, S) = (D - 1) * C
      BY SumConstant
<1>5. SumFunctionOnSet(paid, S) = R * D
  <2>1. \A x \in S : w[x] \in Int /\ zero[x] \in Int /\ paid[x] = R * w[x] + zero[x]
        BY <1>1
  <2>2. SumFunctionOnSet(paid, S) = R * SumFunctionOnSet(w, S) + SumFunctionOnSet(zero, S)
    <3>1. IsFiniteSet(S) /\ R \in Int
          OBVIOUS
    <3> HIDE DEF zero, paid
    <3> QED
        BY ONLY <2>1, <3>1, SumLinear
  <2>3. R * D \in Int
        OBVIOUS
  <2> HIDE DEF zero, paid
  <2> QED
      BY <2>2, <2>3, <1>3
<1>6. SumFunctionOnSet(low, S) = D * Q
  <2>1. \A x \in S : q[x] \in Int /\ zero[x] \in Int /\ low[x] = D * q[x] + zero[x]
        BY <1>1
  <2>2. SumFunctionOnSet(low, S) = D * SumFunctionOnSet(q, S) + SumFunctionOnSet(zero, S)
    <3>1. IsFiniteSet(S) /\ D \in Int
          OBVIOUS
    <3> HIDE DEF zero, low
    <3> QED
        BY ONLY <2>1, <3>1, SumLinear
  <2>3. D * Q \in Int
        BY <1>2
  <2> HIDE DEF zero, low
  <2> QED
      BY <2>2, <2>3, <1>3
<1>7. SumFunctionOnSet(high, S) = D * Q + (D - 1) * C
  <2>1. \A x \in S : q[x] \in Int /\ last[x] \in Int /\ high[x] = D * q[x] + last[x]
        BY <1>1
  <2>2. SumFunctionOnSet(high, S) = D * SumFunctionOnSet(q, S) + SumFunctionOnSet(last, S)
    <3>1. IsFiniteSet(S) /\ D \in Int
          OBVIOUS
    <3> HIDE DEF last, high
    <3> QED
        BY ONLY <2>1, <3>1, SumLinear
  <2> HIDE DEF last, high
  <2> QED
      BY <2>2, <1>4
<1>8. D * Q <= R * D /\ R * D <= D * Q + (D - 1) * C
  <2>1. \A x \in S : /\ low[x] \in Int /\ paid[x] \in Int /\ high[x] \in Int
                     /\ low[x] <= paid[x] /\ paid[x] <= high[x]
        BY <1>1
  <2> HIDE DEF low, paid, high
  <2>2. /\ SumFunctionOnSet(low, S) <= SumFunctionOnSet(paid, S)
        /\ SumFunctionOnSet(paid, S) <= SumFunctionOnSet(high, S)
        BY <2>1, SumMono
  <2> QED
      BY <2>2, <1>5, <1>6, <1>7
<1> HIDE DEF Q, C
<1>9. ASSUME NEW d \in Nat, NEW e \in Nat, NEW c \in Nat \ {0}, d * e <= (d - 1) * c, d > 0
      PROVE  e < c
  <2> SUFFICES ASSUME c <= e PROVE FALSE
      BY <1>9
  <2>1. d * c <= d * e
        BY <1>9
  <2>2. (d - 1) * c = d * c - c
        BY <1>9
  <2> QED
      BY <2>1, <2>2, <1>9
<1>10. Q <= R
  <2> SUFFICES ASSUME R + 1 <= Q PROVE FALSE
      BY <1>2
  <2>1. D * (R + 1) <= D * Q
        BY <1>2
  <2>2. D * (R + 1) = R * D + D
        OBVIOUS
  <2> QED
      BY <2>1, <2>2, <1>2, <1>8
<1>11. D * (R - Q) = R * D - D * Q
      BY <1>2
<1>12. D * (R - Q) <= (D - 1) * C
  <2>1. R * D \in Int /\ D * Q \in Int /\ (D - 1) * C \in Int
        BY <1>2
  <2> QED
      BY <2>1, <1>8, <1>11
<1>13. R - Q < C
      BY <1>2, <1>9, <1>10, <1>12
<1> QED
    BY <1>1, <1>2, <1>10, <1>13 DEF Q, C

-------------------------------------------------------------------------------
(* The audit's totals. *)

\* What is selected adds up to the total, and what allocate has returned is what it
\* computes from that, for a bundle that passed the checks.
AccountInv ==
  /\ bundle \in Bundles
  /\ phase \in {"start", "page", "row", "allocate", "done", "refused"}
  /\ phase \notin {"start", "refused"} => Sound
  /\ ~Windowed => page = {} /\ cursor = None /\ phase \notin {"page", "row"}
  /\ phase = "start" => selected = {} /\ total = 0
  /\ selected \subseteq Selected /\ IsFiniteSet(selected) /\ total = Contributions(selected)
  /\ phase = "done" =>
       /\ total > 0 /\ FinderLinked
       /\ amounts = [id \in Paid |-> AmountOf(id)]
       /\ dust = bundle.reward - SumFunction(amounts)

\* No row contributes nothing.
LEMMA ContributionsEmpty == Contributions({}) = 0
BY SumEmpty DEF Contributions, SumFunction

\* The contributions of a part of what is selected.
LEMMA ContributionsOver ==
  ASSUME NEW rows, IsFiniteSet(rows), NEW part, part \subseteq rows
  PROVE  Contributions(part) = SumFunctionOnSet([s \in rows |-> s.share], part)
<1>1. IsFiniteSet(part)
      BY FS_Subset
<1>2. Contributions(part) = SumFunctionOnSet([s \in part |-> s.share], part)
      BY DEF Contributions, SumFunction
<1> DEFINE f == [s \in part |-> s.share]
           g == [s \in rows |-> s.share]
<1>3. \A s \in part : f[s] = g[s]
      OBVIOUS
<1> HIDE DEF f, g
<1>4. SumFunctionOnSet(f, part) = SumFunctionOnSet(g, part)
      BY <1>1, <1>3, SumSame
<1> QED
    BY <1>2, <1>4 DEF f, g

\* What selected rows contribute is a natural number.
LEMMA ContributionsNat ==
  ASSUME NEW rows, IsFiniteSet(rows), rows \subseteq Selected
  PROVE  Contributions(rows) \in Nat
<1> DEFINE g == [s \in rows |-> s.share]
<1>1. \A s \in rows : g[s] \in Nat
      BY DEF Selected
<1>2. Contributions(rows) = SumFunctionOnSet(g, rows)
      BY ContributionsOver
<1> HIDE DEF g
<1> QED
    BY <1>1, <1>2, SumNat

\* One more row adds its contribution.
LEMMA ContributionsWith ==
  ASSUME NEW rows, IsFiniteSet(rows), rows \subseteq Selected, NEW s \in Selected, s \notin rows
  PROVE  /\ Contributions(rows \union {s}) = Contributions(rows) + s.share
         /\ IsFiniteSet(rows \union {s})
<1> DEFINE all == rows \union {s}
           g == [r \in all |-> r.share]
<1>1. IsFiniteSet(all)
      BY FS_AddElement
<1>2. rows \subseteq all /\ all \subseteq all /\ s \in all /\ g[s] = s.share
      OBVIOUS
<1>3. \A r \in rows \union {s} : g[r] \in Int
      BY DEF Selected
<1>4. Contributions(all) = SumFunctionOnSet(g, all)
      /\ Contributions(rows) = SumFunctionOnSet(g, rows)
      BY <1>1, <1>2, ContributionsOver
<1>5. /\ SumFunctionOnSet(g, rows \union {s}) = g[s] + SumFunctionOnSet(g, rows)
      /\ SumFunctionOnSet(g, rows) \in Int
  <2> HIDE DEF g
  <2> QED
      BY <1>3, SumWith
<1>6. g[s] \in Int
      BY <1>3
<1> HIDE DEF g
<1> QED
    BY <1>1, <1>2, <1>4, <1>5, <1>6

\* The checks depend on the bundle only.
LEMMA BundleStays ==
  ASSUME bundle' = bundle
  PROVE  (Sound <=> Sound') /\ (Windowed <=> Windowed') /\ Rows' = Rows
<1>1. Deducted' = Deducted
      BY DEF Deducted
<1> QED
    BY <1>1 DEF Sound, Windowed, Rows, Percent, IdRepeated, TupleRepeated

\* So does what allocate computes, on what is selected too.
LEMMA AllocationStays ==
  ASSUME UNCHANGED <<bundle, selected, total>>
  PROVE  /\ Paid' = Paid /\ (FinderLinked <=> FinderLinked')
         /\ [id \in Paid |-> AmountOf(id)]' = [id \in Paid |-> AmountOf(id)]
<1>1. Paid' = Paid /\ (FinderLinked <=> FinderLinked') /\ Percent' = Percent
      BY DEF Paid, FinderLinked, Candidates, Percent
<1>2. ASSUME NEW id PROVE AmountOf(id)' = AmountOf(id)
      BY <1>1 DEF AmountOf, ShareOf, FinderPart
<1> QED
    BY <1>1, <1>2

\* Nothing is selected at first.
LEMMA AccountInit == Init => AccountInv
<1> SUFFICES ASSUME Init PROVE AccountInv
    OBVIOUS
<1>1. selected = {} /\ total = 0 /\ IsFiniteSet(selected) /\ total = Contributions(selected)
      BY ContributionsEmpty, FS_EmptySet DEF Init
<1> QED
    BY <1>1 DEF Init, AccountInv

\* A PROP settlement selects every row in full and adds them up at once.
LEMMA BeginPropAccount ==
  ASSUME AccountInv, BeginProp
  PROVE  AccountInv'
<1>1. bundle.rows \subseteq Row /\ IsFiniteSet(bundle.rows)
      BY SettlementAssumption DEF AccountInv, Bundle
<1> DEFINE whole == [r \in bundle.rows |-> Whole(r)]
<1>2. selected' = {whole[r] : r \in bundle.rows}
      BY DEF BeginProp
<1>3. IsFiniteSet(selected')
  <2> HIDE DEF whole
  <2> QED
      BY <1>1, <1>2, ImageFinite
<1>4. selected' \subseteq Selected
  <2>1. \A r \in Row : Whole(r) \in Selected
        BY DEF Row, Whole, Selected
  <2> QED
      BY <1>1, <1>2, <2>1
<1>5. (Sound <=> Sound') /\ (Windowed <=> Windowed')
      BY BundleStays DEF BeginProp
<1>6. total' = Contributions(selected')
      BY DEF BeginProp
<1> QED
    BY <1>3, <1>4, <1>5, <1>6 DEF AccountInv, BeginProp

\* A row that is taken adds its contribution to the total, once.
LEMMA TakeRowAccount ==
  ASSUME AccountInv, WindowInv, TakeRow
  PROVE  AccountInv'
<1>0. Windowed /\ (Sound <=> Sound') /\ (Windowed <=> Windowed')
      BY BundleStays DEF TakeRow, AccountInv
<1>1. PICK r \in Newest(page) :
        /\ selected' = selected \union {Taken(r)}
        /\ total' = total + Contribution(r)
      BY DEF TakeRow
<1>2. /\ r \in Unselected /\ r \in Row
      /\ bundle.factor \in Nat /\ total \in Nat /\ total < bundle.factor
      BY <1>0, <1>1 DEF Newest, Unselected, Rows, WindowInv, Bundle, TakeRow
<1>3. Contribution(r) \in Nat
      BY <1>2 DEF Contribution, Left, Row
<1>4. Taken(r) \in Selected /\ Taken(r).share = Contribution(r)
      BY <1>2, <1>3 DEF Taken, Selected, Row
<1>5. Taken(r) \notin selected
      BY <1>2 DEF Taken, Unselected, Ids
<1>6. /\ Contributions(selected \union {Taken(r)}) = Contributions(selected) + Taken(r).share
      /\ IsFiniteSet(selected \union {Taken(r)})
      BY <1>4, <1>5, ContributionsWith DEF AccountInv
<1>7. total' = Contributions(selected') /\ IsFiniteSet(selected')
      BY <1>1, <1>4, <1>6 DEF AccountInv
<1>8. selected' \subseteq Selected
      BY <1>1, <1>4 DEF AccountInv
<1>9. phase' \in {"page", "row", "allocate"} /\ phase = "row" /\ bundle' = bundle
      BY DEF TakeRow
<1> QED
    BY <1>0, <1>7, <1>8, <1>9 DEF AccountInv

\* Every step keeps the account; allocate's results are those of the formula.
LEMMA AccountStep == AccountInv /\ WindowInv /\ [Next]_vars => AccountInv'
<1> SUFFICES ASSUME AccountInv, WindowInv, [Next]_vars PROVE AccountInv'
    OBVIOUS
<1>1. CASE Refuse
  <2>1. Windowed <=> Windowed'
        BY <1>1, BundleStays DEF Refuse
  <2> QED
      BY <1>1, <2>1 DEF Refuse, AccountInv
<1>2. CASE BeginWindow
  <2>1. (Sound <=> Sound') /\ (Windowed <=> Windowed')
        BY <1>2, BundleStays DEF BeginWindow
  <2> QED
      BY <1>2, <2>1 DEF BeginWindow, AccountInv
<1>3. CASE BeginProp
      BY <1>3, BeginPropAccount
<1>4. CASE ReadPage
  <2>1. (Sound <=> Sound') /\ (Windowed <=> Windowed') /\ bundle' = bundle
        BY <1>4, BundleStays DEF ReadPage
  <2>2. phase = "page" /\ phase' \in {"row", "allocate"} /\ UNCHANGED <<selected, total>>
        BY <1>4 DEF ReadPage
  <2> QED
      BY <2>1, <2>2 DEF AccountInv
<1>5. CASE TakeRow
      BY <1>5, TakeRowAccount
<1>6. CASE AllocateRefused
  <2>1. Windowed <=> Windowed'
        BY <1>6, BundleStays DEF AllocateRefused
  <2> QED
      BY <1>6, <2>1 DEF AllocateRefused, AccountInv
<1>7. CASE Allocate
  <2>1. (Sound <=> Sound') /\ (Windowed <=> Windowed')
        BY <1>7, BundleStays DEF Allocate
  <2>2. /\ (FinderLinked <=> FinderLinked')
        /\ [id \in Paid |-> AmountOf(id)]' = [id \in Paid |-> AmountOf(id)]
        BY <1>7, AllocationStays DEF Allocate
  <2> QED
      BY <1>7, <2>1, <2>2 DEF Allocate, AccountInv
<1>8. CASE UNCHANGED vars
  <2>1. (Sound <=> Sound') /\ (Windowed <=> Windowed')
        BY <1>8, BundleStays DEF vars
  <2>2. /\ (FinderLinked <=> FinderLinked')
        /\ [id \in Paid |-> AmountOf(id)]' = [id \in Paid |-> AmountOf(id)]
        BY <1>8, AllocationStays DEF vars
  <2> QED
      BY <1>8, <2>1, <2>2 DEF vars, AccountInv
<1> QED
    BY <1>1, <1>2, <1>3, <1>4, <1>5, <1>6, <1>7, <1>8 DEF Next

\* What is selected adds up to the total in every reachable state.
THEOREM AccountInvariance == Spec => []AccountInv
<1>1. WindowInv /\ AccountInv /\ [Next]_vars => WindowInv' /\ AccountInv'
      BY WindowInvStep, AccountStep
<1>2. Init => WindowInv /\ AccountInv
      BY WindowInvInit, AccountInit
<1> QED
    BY <1>1, <1>2, PTL DEF Spec

\* Types, and where the loops of select_window are: a page has rows left exactly
\* while they are taken, and a loop runs only below the target.
THEOREM TypeCorrect == Spec => []TypeOK
<1>1. ASSUME WindowInv, AccountInv PROVE TypeOK
  <2>1. total \in Nat
        BY <1>1, ContributionsNat DEF AccountInv
  <2>2. page \subseteq Unselected /\ cursor \in Nat \union {None}
        BY <1>1 DEF AccountInv, WindowInv
  <2>3. phase \in {"page", "row"} => Windowed /\ total < bundle.factor
        BY <1>1 DEF AccountInv, WindowInv
  <2>4. phase = "row" => page # {}
        BY <1>1, <2>3 DEF WindowInv
  <2>5. phase \in {"start", "page"} => page = {}
        BY <1>1 DEF AccountInv, WindowInv
  <2>6. /\ bundle \in Bundle /\ selected \subseteq Selected
        /\ phase \in {"start", "page", "row", "allocate", "done", "refused"}
        BY <1>1, SettlementAssumption DEF AccountInv
  <2> QED
      BY <2>1, <2>2, <2>3, <2>4, <2>5, <2>6 DEF TypeOK
<1> QED
    BY <1>1, WindowInvariance, AccountInvariance, PTL

\* The shares of the recipients add up to the total.
LEMMA SharesOfTotal ==
  ASSUME AccountInv
  PROVE  /\ IsFiniteSet(Paid)
         /\ \A id : ShareOf(id) \in Nat
         /\ SumFunctionOnSet([id \in Paid |-> ShareOf(id)], Paid) = total
<1> DEFINE key == [s \in selected |-> s.id]
           share == [s \in selected |-> s.share]
           Of(id) == {s \in selected : s.id = id}
           byKey == [id \in Paid |-> SumFunctionOnSet(share, {s \in selected : key[s] = id})]
<1>1. IsFiniteSet(selected) /\ selected \subseteq Selected /\ total = Contributions(selected)
      BY DEF AccountInv
<1>2. IsFiniteSet(Paid)
  <2>1. IsFiniteSet({key[s] : s \in selected})
        BY ONLY <1>1, ImageFinite
  <2>2. {key[s] : s \in selected} = {s.id : s \in selected}
        OBVIOUS
  <2>3. IsFiniteSet({bundle.finder} \ {None})
        BY FS_Singleton, FS_Subset
  <2> QED
      BY <2>1, <2>2, <2>3, FS_Union DEF Paid
<1>3. ASSUME NEW id
      PROVE  /\ ShareOf(id) \in Nat
             /\ ShareOf(id) = SumFunctionOnSet(share, {s \in selected : key[s] = id})
  <2>1. Of(id) \subseteq selected /\ IsFiniteSet(Of(id)) /\ Of(id) \subseteq Selected
        BY <1>1, FS_Subset
  <2>2. Of(id) = {s \in selected : key[s] = id}
        OBVIOUS
  <2>3. ShareOf(id) = Contributions(Of(id))
        BY DEF ShareOf
  <2>4. ShareOf(id) \in Nat
        BY <2>1, <2>3, ContributionsNat
  <2>5. Contributions(Of(id)) = SumFunctionOnSet(share, Of(id))
        BY <1>1, <2>1, ContributionsOver
  <2> QED
      BY <2>2, <2>3, <2>4, <2>5
<1>4. [id \in Paid |-> ShareOf(id)] = byKey
      BY <1>3
<1>5. /\ \A s \in selected : share[s] \in Int
      /\ \A s \in selected : key[s] \in Paid
      BY <1>1 DEF Selected, Paid
<1>6. SumFunctionOnSet(byKey, Paid) = SumFunctionOnSet(share, selected)
  <2> HIDE DEF key, share
  <2> QED
      BY ONLY <1>1, <1>2, <1>5, SumByKey
<1>7. SumFunctionOnSet(share, selected) = total
      BY <1>1, ContributionsOver
<1> HIDE DEF byKey, share, key
<1> QED
    BY <1>2, <1>3, <1>4, <1>6, <1>7

\* The finder's part is the policy's percentage of the total, and there is none
\* without a finder.
LEMMA FinderPartOfTotal ==
  ASSUME AccountInv, FinderLinked
  PROVE  /\ Percent \in 0..99
         /\ \A id : FinderPart(id) \in Nat
         /\ SumFunctionOnSet([id \in Paid |-> FinderPart(id)], Paid) = Percent * total
<1> DEFINE part == [id \in Paid |-> FinderPart(id)]
           zero == [id \in Paid |-> 0]
           rest == Paid \ {bundle.finder}
<1>1. bundle.policyPercent \in 0..99 /\ bundle.finder \in Nat \union {None} /\ None \notin Nat
      BY SettlementAssumption DEF AccountInv, Bundle
<1>2. Percent \in 0..99 /\ total \in Nat
      BY <1>1, ContributionsNat DEF Percent, AccountInv
<1>3. Percent * total \in Nat
      BY <1>2
<1>4. \A id : FinderPart(id) \in Nat
      BY <1>3 DEF FinderPart
<1>5. IsFiniteSet(Paid) /\ IsFiniteSet(rest)
      BY SharesOfTotal, FS_Subset
<1>6. SumFunctionOnSet(part, rest) = 0
  <2>1. \A id \in rest : part[id] = 0
        BY DEF FinderPart
  <2>2. SumFunctionOnSet(part, rest) = 0 * Cardinality(rest)
    <3> HIDE DEF part, rest
    <3> QED
        BY <1>5, <2>1, SumConstant
  <2>3. Cardinality(rest) \in Nat
        BY <1>5, FS_CardinalityType
  <2> HIDE DEF part, rest
  <2> QED
      BY <2>2, <2>3
<1>7. CASE bundle.finder # None
  <2>1. bundle.finder \in Paid /\ part[bundle.finder] = Percent * total
        BY <1>7 DEF Paid, FinderPart
  <2>2. \A id \in Paid : part[id] \in Int
        BY <1>4
  <2>3. SumFunctionOnSet(part, Paid) = part[bundle.finder] + SumFunctionOnSet(part, rest)
    <3> HIDE DEF part
    <3> QED
        BY <1>5, <2>1, <2>2, SumWithout
  <2> QED
      BY <1>2, <1>3, <1>4, <1>6, <2>1, <2>3
<1>8. CASE bundle.finder = None
  <2>1. Percent = 0
        BY <1>8 DEF FinderLinked, Percent
  <2>2. None \notin Paid
        BY <1>1, <1>8 DEF Paid, AccountInv, Selected
  <2>3. rest = Paid
        BY <1>8, <2>2
  <2> HIDE DEF rest, part
  <2>4. Percent * total = 0
        BY <2>1, <1>2
  <2> QED
      BY <1>2, <1>4, <1>6, <2>3, <2>4 DEF part
<1> QED
    BY <1>7, <1>8

\* What allocate returns is the reward, and the dust is below one step each.
LEMMA AllocatedIsReward ==
  ASSUME AccountInv, phase = "done"
  PROVE  /\ SumFunction(amounts) \in Nat
         /\ \A id \in DOMAIN amounts : amounts[id] \in Nat
         /\ dust = bundle.reward - SumFunction(amounts)
         /\ dust \in 0..(Cardinality(DOMAIN amounts) - 1)
<1> DEFINE share == [id \in Paid |-> ShareOf(id)]
           part == [id \in Paid |-> FinderPart(id)]
           w == [id \in Paid |-> (100 - Percent) * ShareOf(id) + FinderPart(id)]
           D == 100 * total
<1>1. /\ FinderLinked /\ total > 0 /\ total \in Nat /\ bundle.reward \in Nat
      /\ amounts = [id \in Paid |-> AmountOf(id)]
      /\ dust = bundle.reward - SumFunction(amounts)
      BY SettlementAssumption, ContributionsNat DEF AccountInv, Bundle
<1>2. /\ IsFiniteSet(Paid)
      /\ \A id : ShareOf(id) \in Nat
      /\ SumFunctionOnSet(share, Paid) = total
      BY SharesOfTotal
<1>3. /\ Percent \in 0..99
      /\ \A id : FinderPart(id) \in Nat
      /\ SumFunctionOnSet(part, Paid) = Percent * total
      BY <1>1, FinderPartOfTotal
<1>4. D \in Nat \ {0}
      BY <1>1
<1>5. ASSUME NEW id \in Paid PROVE w[id] \in Nat
      BY <1>2, <1>3
<1>6. SumFunctionOnSet(w, Paid) = D
  <2>1. \A id \in Paid : /\ share[id] \in Int /\ part[id] \in Int
                         /\ w[id] = (100 - Percent) * share[id] + part[id]
        BY <1>2, <1>3
  <2>2. 100 - Percent \in Int /\ IsFiniteSet(Paid)
        BY <1>2, <1>3
  <2> HIDE DEF share, part, w
  <2>3. SumFunctionOnSet(w, Paid) =
          (100 - Percent) * SumFunctionOnSet(share, Paid) + SumFunctionOnSet(part, Paid)
        BY ONLY <2>1, <2>2, SumLinear
  <2>4. (100 - Percent) * total + Percent * total = 100 * total
        BY <1>1, <1>3
  <2> QED
      BY <2>3, <2>4, <1>2, <1>3
<1>7. Paid # {}
  <2>1. \A f : SumFunctionOnSet(f, {}) = 0
        BY SumEmpty
  <2> QED
      BY <1>1, <1>2, <2>1
<1>8. \A id \in Paid : amounts[id] = (bundle.reward * w[id]) \div D
      BY <1>1 DEF AmountOf
<1>9. DOMAIN amounts = Paid /\ SumFunction(amounts) = SumFunctionOnSet(amounts, Paid)
      BY <1>1 DEF SumFunction
<1>10. /\ \A id \in Paid : amounts[id] \in Nat
       /\ bundle.reward - SumFunctionOnSet(amounts, Paid) \in 0..(Cardinality(Paid) - 1)
  <2> HIDE DEF w, D
  <2> QED
      BY ONLY <1>1, <1>2, <1>4, <1>5, <1>6, <1>7, <1>8, TruncatedParts
<1>11. SumFunctionOnSet(amounts, Paid) \in Nat
       BY <1>2, <1>10, SumNat
<1> QED
    BY <1>1, <1>9, <1>10, <1>11

\* Deductions, amounts and dust sum to the gross reward, no amount is negative and
\* the dust is below one step of the 24th decimal per recipient.
THEOREM ConservedHolds == Spec => []Conserved
<1>1. ASSUME AccountInv PROVE Conserved
  <2> SUFFICES ASSUME phase = "done"
               PROVE  /\ bundle.gross = Deducted + dust + SumFunction(amounts)
                      /\ \A id \in DOMAIN amounts : amounts[id] >= 0
                      /\ dust >= 0 /\ dust < Cardinality(DOMAIN amounts)
      BY DEF Conserved
  <2>1. AccountInv /\ phase = "done"
        BY <1>1
  <2>2. Sound /\ bundle \in Bundle /\ IsFiniteSet(bundle.deductions)
        BY <2>1, SettlementAssumption DEF AccountInv
  <2> DEFINE step == [d \in bundle.deductions |-> d.amount]
  <2>3. Deducted \in Nat
    <3>1. \A d \in bundle.deductions : step[d] \in Nat
          BY <2>2 DEF Bundle
    <3>2. Deducted = SumFunctionOnSet(step, bundle.deductions)
          BY DEF Deducted, SumFunction
    <3> HIDE DEF step
    <3> QED
        BY <2>2, <3>1, <3>2, SumNat
  <2>4. bundle.gross = bundle.reward + Deducted /\ bundle.reward \in Nat
        BY <2>2 DEF Sound, Bundle
  <2>5. /\ SumFunction(amounts) \in Nat
        /\ \A id \in DOMAIN amounts : amounts[id] \in Nat
        /\ dust = bundle.reward - SumFunction(amounts)
        /\ dust \in 0..(Cardinality(DOMAIN amounts) - 1)
        BY <2>1, AllocatedIsReward
  <2>6. bundle.gross = Deducted + dust + SumFunction(amounts)
        BY <2>3, <2>4, <2>5
  <2>7. dust >= 0 /\ dust < Cardinality(DOMAIN amounts)
    <3>1. Cardinality(DOMAIN amounts) \in Int
      <4>1. DOMAIN amounts = Paid
            BY <2>1 DEF AccountInv
      <4> QED
          BY <2>1, <4>1, SharesOfTotal, FS_CardinalityType
    <3> QED
        BY <2>5, <3>1
  <2> QED
      BY <2>5, <2>6, <2>7
<1> QED
    BY <1>1, AccountInvariance, PTL

-------------------------------------------------------------------------------
(* The window against its definition without pages. *)

\* The rows that are taken; until the target is met the total is their score, and
\* each contributes what the definition of the window gives it.
Counted == Rows \ Unselected

ScoreInv ==
  Windowed =>
    /\ total < bundle.factor => total = SumFunctionOnSet(Score, Counted)
    /\ total <= SumFunctionOnSet(Score, Counted)
    /\ selected \subseteq Reference

\* The lesser of two, as select_window's conditional takes it.
LEMMA LesserOfTwo ==
  ASSUME NEW a \in Int, NEW b \in Int
  PROVE  Min({a, b}) = IF a < b THEN a ELSE b
<1> DEFINE m == IF a < b THEN a ELSE b
<1>1. m \in {a, b} /\ \A y \in {a, b} : m <= y
      OBVIOUS
<1>2. \A x \in {a, b} : (\A y \in {a, b} : x <= y) => x = m
      OBVIOUS
<1> HIDE DEF m
<1> QED
    BY <1>1, <1>2 DEF Min, m

\* The reference window depends on the bundle only, what is counted on the rows
\* that are selected too.
LEMMA ReferenceStays ==
  ASSUME bundle' = bundle
  PROVE  Score' = Score /\ Reference' = Reference
BY DEF Score, Reference, NewerScore, Rows

LEMMA CountedStays ==
  ASSUME UNCHANGED <<bundle, selected>>
  PROVE  Counted' = Counted
BY DEF Counted, Unselected, Ids, Rows

\* The scores of a bundle are finitely many naturals.
LEMMA ScoresFinite ==
  ASSUME bundle \in Bundles
  PROVE  /\ bundle \in Bundle /\ IsFiniteSet(Rows) /\ Rows \subseteq Row
         /\ \A r \in Rows : Score[r] = r.score /\ Score[r] \in Nat
BY SettlementAssumption DEF Rows, Bundle, Row, Score

\* A row that is counted was taken, with its key.
LEMMA CountedIsTaken ==
  ASSUME WindowInv, Windowed, phase \in {"page", "row", "allocate", "done"},
         NEW q \in Counted
  PROVE  \E s \in selected : s.id = q.id /\ s.tuple = q.tuple
<1>1. q \in Rows /\ q.id \in Ids
      BY DEF Counted, Unselected
<1>2. PICK s \in selected : s.id = q.id
      BY <1>1 DEF Ids
<1>3. PICK r \in Rows : r.id = s.id /\ r.tuple = s.tuple
      BY DEF WindowInv, TakenFromRows
<1>4. r = q
      BY <1>1, <1>2, <1>3 DEF WindowInv, KeysDistinct
<1> QED
    BY <1>2, <1>3, <1>4

\* When a row is taken, those newer than it are exactly those counted.
LEMMA NewerAreCounted ==
  ASSUME WindowInv, Windowed, phase = "row", NEW r \in Newest(page)
  PROVE  Counted = {s \in Rows : s.tuple > r.tuple}
<1>1. /\ r \in page /\ r \in Unselected /\ r \in Rows
      /\ \A q \in page : q.tuple <= r.tuple
      /\ \A q \in Unselected \ page : q.tuple < r.tuple
      BY DEF Newest, WindowInv, Unselected
<1>2. \A q \in Rows : q.tuple \in Nat
      BY DEF WindowInv, Bundle, Rows, Row
<1>3. ASSUME NEW q \in Counted PROVE q \in Rows /\ q.tuple > r.tuple
  <2>1. PICK s \in selected : s.id = q.id /\ s.tuple = q.tuple
        BY CountedIsTaken
  <2>2. r.tuple < s.tuple
        BY <1>1 DEF WindowInv, WindowIsNewest
  <2> QED
      BY <2>1, <2>2, <1>1, <1>2 DEF Counted
<1>4. ASSUME NEW q \in Rows, q.tuple > r.tuple PROVE q \in Counted
  <2> SUFFICES ASSUME q \in Unselected PROVE FALSE
      BY DEF Counted
  <2>1. q.tuple <= r.tuple \/ q.tuple < r.tuple
        BY <1>1
  <2> QED
      BY <2>1, <1>1, <1>2, <1>4
<1> QED
    BY <1>3, <1>4

\* A row that is taken contributes what its definition says, for those newer than it
\* are exactly those counted.
LEMMA TakeRowScore ==
  ASSUME ScoreInv, AccountInv, WindowInv, TakeRow
  PROVE  ScoreInv'
<1>0. Windowed /\ (Windowed <=> Windowed') /\ bundle' = bundle /\ Rows' = Rows
      BY BundleStays DEF TakeRow, AccountInv
<1>1. PICK r \in Newest(page) :
        /\ selected' = selected \union {Taken(r)}
        /\ total' = total + Contribution(r)
      BY DEF TakeRow
<1>2. /\ phase = "row" /\ KeysDistinct /\ total \in Nat /\ total < bundle.factor
      /\ bundle.factor \in Nat
      BY <1>0 DEF TakeRow, WindowInv, Bundle
<1>3. r \in Unselected /\ r \in Rows /\ r \in Row /\ r.score \in Nat \ {0}
      BY <1>0, <1>1 DEF Newest, Unselected, Rows, WindowInv, Bundle, TakeRow, Row
<1>4. /\ IsFiniteSet(Rows) /\ IsFiniteSet(Counted) /\ Counted \subseteq Rows
      /\ \A q \in Rows : Score[q] = q.score /\ Score[q] \in Nat
      BY ScoresFinite, FS_Subset DEF AccountInv, Counted
<1>5. total = SumFunctionOnSet(Score, Counted)
      BY <1>0, <1>2 DEF ScoreInv
<1>6. NewerScore(r) = total
      BY <1>0, <1>1, <1>2, <1>5, NewerAreCounted DEF NewerScore
<1>7. Contribution(r) = Min({r.score, bundle.factor - total})
  <2>1. bundle.factor - total \in Int
        BY <1>2
  <2> QED
      BY <1>3, <2>1, LesserOfTwo DEF Contribution, Left
<1>8. Taken(r) \in Reference
      BY <1>2, <1>3, <1>6, <1>7 DEF Taken, Reference
<1>9. Counted' = Counted \union {r} /\ r \notin Counted
  <2>1. Taken(r).id = r.id
        BY DEF Taken
  <2>2. Ids' = Ids \union {r.id}
        BY <1>1, <2>1 DEF Ids
  <2>3. \A q \in Rows : q.id = r.id => q = r
        BY <1>2, <1>3 DEF KeysDistinct
  <2> QED
      BY <1>0, <1>3, <2>2, <2>3 DEF Counted, Unselected
<1>10. SumFunctionOnSet(Score, Counted \union {r}) = r.score + total
  <2>1. \A q \in Counted \union {r} : Score[q] \in Int
        BY <1>3, <1>4
  <2>2. SumFunctionOnSet(Score, Counted \union {r})
          = Score[r] + SumFunctionOnSet(Score, Counted)
        BY <1>4, <1>9, <2>1, SumWith
  <2> QED
      BY <2>2, <1>3, <1>4, <1>5
<1>11. SumFunctionOnSet(Score', Counted') = r.score + total
       BY <1>0, <1>9, <1>10, ReferenceStays
<1>12. /\ total' <= r.score + total
       /\ total' < bundle.factor => total' = r.score + total
       BY <1>1, <1>2, <1>3 DEF Contribution, Left
<1>13. selected' \subseteq Reference'
       BY <1>0, <1>1, <1>8, ReferenceStays DEF ScoreInv
<1> QED
    BY <1>0, <1>11, <1>12, <1>13 DEF ScoreInv

\* Every step keeps the window a part of the reference.
LEMMA ScoreStep ==
  AccountInv /\ WindowInv /\ ScoreInv /\ [Next]_vars => ScoreInv'
<1> SUFFICES ASSUME AccountInv, WindowInv, ScoreInv, [Next]_vars PROVE ScoreInv'
    OBVIOUS
<1>1. CASE TakeRow
      BY <1>1, TakeRowScore
<1>2. CASE BeginProp
  <2>1. ~Windowed'
        BY <1>2, BundleStays DEF BeginProp
  <2> QED
      BY <2>1 DEF ScoreInv
<1>3. CASE UNCHANGED <<bundle, selected, total>>
  <2>1. /\ (Windowed <=> Windowed') /\ Score' = Score /\ Reference' = Reference
        /\ Counted' = Counted
        BY <1>3, BundleStays, ReferenceStays, CountedStays
  <2> QED
      BY <1>3, <2>1 DEF ScoreInv
<1>4. TakeRow \/ BeginProp \/ UNCHANGED <<bundle, selected, total>>
      BY DEF Next, vars, Refuse, BeginWindow, ReadPage, AllocateRefused, Allocate
<1> QED
    BY <1>1, <1>2, <1>3, <1>4

\* An empty window is a part of the reference.
LEMMA ScoreInit == Init => ScoreInv
<1> SUFFICES ASSUME Init PROVE ScoreInv
    OBVIOUS
<1>1. Counted = {} /\ selected = {} /\ total = 0
      BY DEF Init, Counted, Unselected, Ids
<1>2. SumFunctionOnSet(Score, Counted) = 0
      BY <1>1, SumEmpty
<1> QED
    BY <1>1, <1>2 DEF ScoreInv

\* At the end every row of the reference window has been taken.
LEMMA ReferenceIsTaken ==
  ASSUME AccountInv, WindowInv, ScoreInv, Windowed, phase \in {"allocate", "done"}
  PROVE  Reference \subseteq selected
<1>1. /\ IsFiniteSet(Rows) /\ Counted \subseteq Rows /\ KeysDistinct
      /\ \A q \in Rows : Score[q] = q.score /\ Score[q] \in Nat /\ q.tuple \in Nat
      /\ bundle.factor \in Nat
      BY ScoresFinite DEF AccountInv, WindowInv, Counted, Row, Bundle
<1> SUFFICES ASSUME NEW e \in Reference PROVE e \in selected
    OBVIOUS
<1>2. PICK q \in Rows :
        /\ NewerScore(q) < bundle.factor
        /\ e = [id |-> q.id, tuple |-> q.tuple, score |-> q.score,
                share |-> Min({q.score, bundle.factor - NewerScore(q)})]
      BY DEF Reference
<1>3. q \notin Unselected
  <2> SUFFICES ASSUME q \in Unselected PROVE FALSE
      OBVIOUS
  <2>1. total = bundle.factor
        BY DEF WindowInv, WindowIsNewest
  <2> DEFINE newer == {s \in Rows : s.tuple > q.tuple}
  <2>2. Counted \subseteq newer
    <3> SUFFICES ASSUME NEW c \in Counted PROVE c \in newer
        OBVIOUS
    <3>1. PICK s \in selected : s.id = c.id /\ s.tuple = c.tuple
          BY CountedIsTaken
    <3>2. q.tuple < s.tuple
          BY DEF WindowInv, WindowIsNewest
    <3> QED
        BY <3>1, <3>2, <1>1
  <2>3. IsFiniteSet(newer) /\ (\A s \in newer : Score[s] \in Nat) /\ IsFiniteSet(Counted)
        BY <1>1, FS_Subset
  <2>4. SumFunctionOnSet(Score, Counted) <= SumFunctionOnSet(Score, newer)
    <3> HIDE DEF newer
    <3> QED
        BY <2>2, <2>3, SumSubset
  <2>5. SumFunctionOnSet(Score, Counted) \in Nat /\ SumFunctionOnSet(Score, newer) \in Nat
    <3>1. \A s \in Counted : Score[s] \in Nat
          BY <1>1
    <3> HIDE DEF newer
    <3> QED
        BY <2>3, <3>1, SumNat
  <2>6. bundle.factor <= SumFunctionOnSet(Score, Counted)
        BY <2>1 DEF ScoreInv
  <2>7. NewerScore(q) = SumFunctionOnSet(Score, newer)
        BY DEF NewerScore
  <2> HIDE DEF newer
  <2> QED
      BY <2>4, <2>5, <2>6, <2>7, <1>1, <1>2
<1>4. PICK s \in selected : s.id = q.id
      BY <1>3 DEF Unselected, Ids
<1>5. s \in Reference
      BY DEF ScoreInv
<1>6. PICK p \in Rows :
        s = [id |-> p.id, tuple |-> p.tuple, score |-> p.score,
             share |-> Min({p.score, bundle.factor - NewerScore(p)})]
      BY <1>5 DEF Reference
<1>7. p = q
      BY <1>1, <1>4, <1>6 DEF KeysDistinct
<1> QED
    BY <1>2, <1>6, <1>7

\* Whatever the pages, the window and its total are those of the definition: a
\* share contributes what the newer ones leave of the target, up to its score.
THEOREM WindowExactHolds == Spec => []WindowExact
<1>1. ASSUME AccountInv, WindowInv, ScoreInv PROVE WindowExact
  <2> SUFFICES ASSUME Windowed, phase \in {"allocate", "done"}
               PROVE  selected = Reference /\ total = Contributions(Reference)
      BY DEF WindowExact
  <2>1. selected = Reference
        BY <1>1, ReferenceIsTaken DEF ScoreInv
  <2> QED
      BY <1>1, <2>1 DEF AccountInv
<1>2. AccountInv /\ WindowInv /\ ScoreInv /\ [Next]_vars => ScoreInv' /\ AccountInv' /\ WindowInv'
      BY ScoreStep, AccountStep, WindowInvStep
<1>3. Init => AccountInv /\ WindowInv /\ ScoreInv
      BY AccountInit, WindowInvInit, ScoreInit
<1> QED
    BY <1>1, <1>2, <1>3, PTL DEF Spec
-------------------------------------------------------------------------------
(* Merkle trees                                                            *)

\* A list of distinct leaves, and one as long as another, are told apart by roots.
IsList(s) == \E T : s \in Seq(T)
Comparable(a, b) == (Distinct(a) /\ Distinct(b)) \/ Len(a) = Len(b)

LEMMA ParentsFacts ==
  ASSUME NEW s, IsList(s), Len(s) >= 1
  PROVE  /\ IsList(Parents(s)) /\ Len(s) \in Nat
         /\ Len(Parents(s)) = (Len(s) + 1) \div 2
         /\ \A i \in 1..Len(Parents(s)) :
              /\ 2 * i - 1 \in 1..Len(s)
              /\ Parents(s)[i] =
                   <<s[2 * i - 1], IF 2 * i <= Len(s) THEN s[2 * i] ELSE s[2 * i - 1]>>
<1>1. PICK T : s \in Seq(T)
      BY DEF IsList
<1> DEFINE n == Len(s)
           m == (n + 1) \div 2
           pair(i) == <<s[2 * i - 1], IF 2 * i <= n THEN s[2 * i] ELSE s[2 * i - 1]>>
<1>2. n \in Nat /\ \A i \in 1..n : s[i] \in T
      BY <1>1, LenProperties, ElementOfSeq
<1>3. m \in Nat /\ 2 * m <= n + 1
      BY <1>2
<1>4. Parents(s) = [i \in 1..m |-> pair(i)]
      BY DEF Parents
<1>5. ASSUME NEW i \in 1..m PROVE 2 * i - 1 \in 1..n /\ pair(i) \in T \X T
  <2>1. 2 * i - 1 \in 1..n
        BY <1>2, <1>3
  <2>2. 2 * i <= n => 2 * i \in 1..n
        BY <1>2, <1>3
  <2> QED
      BY <1>2, <2>1, <2>2
<1> HIDE DEF n, m, pair
<1>6. [i \in 1..m |-> pair(i)] \in Seq(T \X T) /\ Len([i \in 1..m |-> pair(i)]) = m
      BY <1>3, <1>5
<1> QED
    BY <1>2, <1>4, <1>5, <1>6 DEF IsList, n, m, pair

LEMMA ParentsDistinct ==
  ASSUME NEW s, IsList(s), Len(s) >= 1, Distinct(s)
  PROVE  Distinct(Parents(s))
<1>1. DOMAIN s = 1..Len(s) /\ Len(s) \in Nat
      BY LenProperties DEF IsList
<1>2. DOMAIN Parents(s) = 1..Len(Parents(s))
      BY ParentsFacts, LenProperties DEF IsList
<1> SUFFICES ASSUME NEW i \in 1..Len(Parents(s)), NEW j \in 1..Len(Parents(s)),
                    Parents(s)[i] = Parents(s)[j]
             PROVE  i = j
    BY <1>2 DEF Distinct, IsInjective
<1> DEFINE second(k) == IF 2 * k <= Len(s) THEN s[2 * k] ELSE s[2 * k - 1]
<1>6. ASSUME NEW k \in 1..Len(Parents(s))
      PROVE  2 * k - 1 \in 1..Len(s) /\ Parents(s)[k] = <<s[2 * k - 1], second(k)>>
      BY ParentsFacts
<1> HIDE DEF second
<1>3. 2 * i - 1 \in 1..Len(s) /\ 2 * j - 1 \in 1..Len(s) /\ s[2 * i - 1] = s[2 * j - 1]
  <2>1. <<s[2 * i - 1], second(i)>> = <<s[2 * j - 1], second(j)>>
        BY <1>6
  <2> QED
      BY <1>6, <2>1
<1>4. 2 * i - 1 = 2 * j - 1
      BY <1>1, <1>3 DEF Distinct, IsInjective
<1>5. i \in Int /\ j \in Int
      OBVIOUS
<1> QED
    BY <1>4, <1>5

\* From the parents their children can be told.
LEMMA ParentsInjective ==
  ASSUME NEW a, NEW b, IsList(a), IsList(b), Len(a) >= 1, Len(b) >= 1,
         Comparable(a, b), Parents(a) = Parents(b)
  PROVE  a = b
<1> DEFINE m == Len(Parents(a))
<1>1. /\ DOMAIN a = 1..Len(a) /\ Len(a) \in Nat /\ DOMAIN b = 1..Len(b) /\ Len(b) \in Nat
      BY LenProperties DEF IsList
<1>2. m = (Len(a) + 1) \div 2 /\ m = (Len(b) + 1) \div 2
      BY ParentsFacts
<1>3. m \in Nat /\ m >= 1 /\ Len(a) \in {2 * m - 1, 2 * m} /\ Len(b) \in {2 * m - 1, 2 * m}
  <2>1. ASSUME NEW n \in Nat, n >= 1, m = (n + 1) \div 2
        PROVE  m \in Nat /\ m >= 1 /\ n \in {2 * m - 1, 2 * m}
    <3> HIDE DEF m
    <3>1. m \in Nat /\ 2 * m <= n + 1 /\ n + 1 < 2 * m + 2
          BY <2>1
    <3> QED
        BY <2>1, <3>1
  <2> HIDE DEF m
  <2> QED
      BY <1>1, <1>2, <2>1
<1> HIDE DEF m
<1>4. ASSUME NEW i \in 1..m
      PROVE  /\ Parents(a)[i] = <<a[2 * i - 1], IF 2 * i <= Len(a) THEN a[2 * i] ELSE a[2 * i - 1]>>
             /\ Parents(a)[i] = <<b[2 * i - 1], IF 2 * i <= Len(b) THEN b[2 * i] ELSE b[2 * i - 1]>>
      BY ParentsFacts DEF m
<1>5. Len(a) = Len(b)
  <2>1. m \in 1..m
        BY <1>3
  <2>2. ASSUME Len(a) = 2 * m - 1, Len(b) = 2 * m, Distinct(b) PROVE FALSE
    <3>1. ~ (2 * m <= Len(a)) /\ 2 * m <= Len(b) /\ 2 * m \in 1..Len(b) /\ 2 * m - 1 \in 1..Len(b)
          BY <1>3, <2>2
    <3>2. b[2 * m] = b[2 * m - 1]
          BY <1>4, <2>1, <3>1
    <3>3. 2 * m = 2 * m - 1
          BY <1>1, <2>2, <3>1, <3>2 DEF Distinct, IsInjective
    <3> QED
        BY <1>3, <3>3
  <2>3. ASSUME Len(b) = 2 * m - 1, Len(a) = 2 * m, Distinct(a) PROVE FALSE
    <3>1. ~ (2 * m <= Len(b)) /\ 2 * m <= Len(a) /\ 2 * m \in 1..Len(a) /\ 2 * m - 1 \in 1..Len(a)
          BY <1>3, <2>3
    <3>2. a[2 * m] = a[2 * m - 1]
          BY <1>4, <2>1, <3>1
    <3>3. 2 * m = 2 * m - 1
          BY <1>1, <2>3, <3>1, <3>2 DEF Distinct, IsInjective
    <3> QED
        BY <1>3, <3>3
  <2> QED
      BY <1>3, <2>2, <2>3 DEF Comparable
<1>6. ASSUME NEW k \in 1..Len(a) PROVE a[k] = b[k]
  <2>1. PICK i \in 1..m : k = 2 * i - 1 \/ k = 2 * i
    <3> DEFINE i == (k + 1) \div 2
    <3>0. k \in Nat /\ k >= 1 /\ k <= Len(a)
          BY <1>1
    <3>1. k \in Nat /\ k >= 1 /\ k <= 2 * m
      <4> HIDE DEF i
      <4>1. Len(a) <= 2 * m
        <5>1. 2 * m \in Int /\ 2 * m - 1 <= 2 * m
              BY <1>3
        <5> QED
            BY <1>3, <5>1
      <4>2. Len(a) \in Int
            BY <1>1
      <4>3. 2 * m \in Int
            BY <1>3
      <4>4. k \in Int
            BY <3>0
      <4> QED
          BY <3>0, <4>1, <4>2, <4>3, <4>4
    <3>2. i \in Nat /\ 2 * i <= k + 1 /\ k + 1 < 2 * i + 2
          BY <3>1
    <3> HIDE DEF i
    <3>3. i \in 1..m /\ (k = 2 * i - 1 \/ k = 2 * i)
          BY <1>3, <3>1, <3>2
    <3> QED
        BY <3>3
  <2>2. CASE k = 2 * i - 1
        BY <1>4, <2>2
  <2>3. CASE k = 2 * i
        BY <1>4, <1>5, <2>3
  <2> QED
      BY <2>1, <2>2, <2>3
<1>7. PICK A : a \in Seq(A)
      BY DEF IsList
<1>8. PICK B : b \in Seq(B)
      BY DEF IsList
<1>9. a \in Seq(A \union B) /\ b \in Seq(A \union B)
      BY <1>7, <1>8, SeqMonotonic
<1> QED
    BY <1>5, <1>6, <1>9, SeqEqual

-------------------------------------------------------------------------------
(* Levels of a tree, as the function that climbs                           *)

Climbs(g, s, n) == g = [k \in 0..n |-> IF k = 0 THEN s ELSE Above(g[k - 1])]

LEMMA ClimbsOnce ==
  ASSUME NEW s, NEW m \in Nat, NEW n \in Nat, NEW g, NEW h, Climbs(g, s, m), Climbs(h, s, n),
         NEW k \in Nat, k <= m, k <= n
  PROVE  g[k] = h[k]
<1> DEFINE B == {i \in 0..k : g[i] # h[i]}
<1>1. SUFFICES ASSUME B # {} PROVE FALSE
      OBVIOUS
<1>2. B \in SUBSET Nat
      OBVIOUS
<1>3. PICK i \in B : \A j \in B : i <= j
  <2> HIDE DEF B
  <2> QED
      BY <1>1, <1>2, LeastNumber
<1>4. i \in 0..k /\ i \in 0..m /\ i \in 0..n /\ i \in Nat
      OBVIOUS
<1>5. /\ g[i] = IF i = 0 THEN s ELSE Above(g[i - 1])
      /\ h[i] = IF i = 0 THEN s ELSE Above(h[i - 1])
      BY <1>4 DEF Climbs
<1>6. i # 0
      BY <1>5
<1>7. i - 1 \in 0..k /\ ~ (i <= i - 1)
      BY <1>4, <1>6
<1>8. g[i - 1] = h[i - 1]
      BY <1>3, <1>7
<1> QED
    BY <1>5, <1>6, <1>8

LEMMA ClimbsAll ==
  ASSUME NEW s, NEW n \in Nat
  PROVE  \E g : Climbs(g, s, n)
<1> DEFINE B == {i \in Nat : ~ \E g : Climbs(g, s, i)}
<1>1. SUFFICES ASSUME B # {} PROVE FALSE
      OBVIOUS
<1>2. PICK i \in B : \A j \in B : i <= j
  <2>1. B \in SUBSET Nat
        OBVIOUS
  <2> HIDE DEF B
  <2> QED
      BY <1>1, <2>1, LeastNumber
<1>3. i \in Nat /\ ~ \E g : Climbs(g, s, i)
      OBVIOUS
<1>4. CASE i = 0
  <2> DEFINE g == [k \in 0..0 |-> s]
  <2>1. g = [k \in 0..0 |-> IF k = 0 THEN s ELSE Above(g[k - 1])]
        OBVIOUS
  <2> HIDE DEF g
  <2>2. Climbs(g, s, 0)
        BY <2>1 DEF Climbs
  <2> QED
      BY <1>3, <1>4, <2>2
<1>5. CASE i # 0
  <2>1. i - 1 \in Nat /\ ~ (i <= i - 1)
        BY <1>3, <1>5
  <2>2. i - 1 \notin B
        BY <1>2, <2>1
  <2>3. PICK h : Climbs(h, s, i - 1)
        BY <2>1, <2>2
  <2> DEFINE g == [k \in 0..i |-> IF k = i THEN Above(h[i - 1]) ELSE h[k]]
  <2>4. ASSUME NEW k \in 0..i
        PROVE  g[k] = IF k = 0 THEN s ELSE Above(g[k - 1])
    <3>1. CASE k = i
      <4>1. i - 1 \in 0..i /\ i - 1 # i
            BY <1>3, <1>5
      <4>2. g[i] = Above(h[i - 1]) /\ g[i - 1] = h[i - 1]
            BY <4>1, <3>1
      <4> HIDE DEF g
      <4> QED
          BY <1>5, <3>1, <4>2
    <3>2. CASE k # i
      <4>1. k \in 0..(i - 1) /\ (k # 0 => k - 1 \in 0..i /\ k - 1 # i)
            BY <1>3, <3>2
      <4>2. g[k] = h[k] /\ (k # 0 => g[k - 1] = h[k - 1])
            BY <3>2, <4>1
      <4>3. h[k] = IF k = 0 THEN s ELSE Above(h[k - 1])
            BY <2>3, <4>1 DEF Climbs
      <4> HIDE DEF g
      <4> QED
          BY <4>2, <4>3
    <3> QED
        BY <3>1, <3>2
  <2>5. g = [k \in 0..i |-> g[k]]
        OBVIOUS
  <2> HIDE DEF g
  <2>6. Climbs(g, s, i)
        BY <2>4, <2>5 DEF Climbs
  <2> QED
      BY <1>3, <2>6
<1> QED
    BY <1>4, <1>5

\* The levels above a list.
LEMMA LevelsUnfold ==
  ASSUME NEW s
  PROVE  /\ Levels(s)[0] = s
         /\ \A k \in Nat : Levels(s)[k + 1] = Above(Levels(s)[k])
<1> DEFINE L == [k \in Nat |-> (CHOOSE g : Climbs(g, s, k))[k]]
           Def(f) == f = [k \in Nat |-> IF k = 0 THEN s ELSE Above(f[k - 1])]
<1>1. ASSUME NEW k \in Nat PROVE L[k] = IF k = 0 THEN s ELSE Above(L[k - 1])
  <2>1. PICK g : g = (CHOOSE h : Climbs(h, s, k)) /\ Climbs(g, s, k) /\ L[k] = g[k]
        BY ClimbsAll
  <2> HIDE DEF L
  <2>2. g[k] = IF k = 0 THEN s ELSE Above(g[k - 1])
    <3>1. k \in 0..k
          OBVIOUS
    <3> QED
        BY <2>1, <3>1 DEF Climbs
  <2>3. CASE k = 0
        BY <2>1, <2>2, <2>3
  <2>4. CASE k # 0
    <3>1. k - 1 \in Nat
          BY <2>4
    <3>2. PICK h : h = (CHOOSE f : Climbs(f, s, k - 1)) /\ Climbs(h, s, k - 1) /\ L[k - 1] = h[k - 1]
          BY <3>1, ClimbsAll DEF L
    <3>3. k - 1 <= k /\ k - 1 <= k - 1
          BY <3>1
    <3>4. g[k - 1] = h[k - 1]
          BY <2>1, <3>1, <3>2, <3>3, ClimbsOnce
    <3> QED
        BY <2>1, <2>2, <2>4, <3>2, <3>4
  <2> QED
      BY <2>3, <2>4
<1>2. L = [k \in Nat |-> L[k]]
      OBVIOUS
<1> HIDE DEF L
<1>3. Def(L)
      BY <1>1, <1>2
<1>4. Def(CHOOSE f : Def(f))
  <2> HIDE DEF Def
  <2> QED
      BY <1>3
<1>5. Levels(s) = CHOOSE f : Def(f)
      BY DEF Levels
<1>6. Levels(s) = [k \in Nat |-> IF k = 0 THEN s ELSE Above(Levels(s)[k - 1])]
      BY <1>4, <1>5
<1>7. ASSUME NEW k \in Nat PROVE Levels(s)[k + 1] = Above(Levels(s)[k])
  <2>1. k + 1 \in Nat /\ k + 1 # 0 /\ (k + 1) - 1 = k
        OBVIOUS
  <2> QED
      BY <1>6, <2>1
<1> QED
    BY <1>6, <1>7

\* A climb of h rounds to the root.
Top(s, h) ==
  /\ h \in Nat /\ Len(Levels(s)[h]) = 1
  /\ \A k \in 0..h : IsList(Levels(s)[k]) /\ Len(Levels(s)[k]) >= 1
  /\ \A k \in Nat : k < h => Levels(s)[k + 1] = Parents(Levels(s)[k])

LEMMA ParentsFewer ==
  ASSUME NEW s, IsList(s), Len(s) >= 2
  PROVE  /\ Len(s) \in Nat /\ Len(Parents(s)) \in Nat
         /\ Len(Parents(s)) >= 1 /\ Len(Parents(s)) + 1 <= Len(s)
<1>1. Len(s) \in Nat
      BY LenProperties DEF IsList
<1>2. Len(s) >= 1
      BY <1>1
<1>3. Len(Parents(s)) = (Len(s) + 1) \div 2
      BY <1>2, ParentsFacts
<1>4. ASSUME NEW n \in Nat, n >= 2
      PROVE  (n + 1) \div 2 \in Nat /\ (n + 1) \div 2 >= 1 /\ (n + 1) \div 2 + 1 <= n
      BY <1>4
<1> QED
    BY <1>1, <1>3, <1>4

LEMMA LevelLists ==
  ASSUME NEW s, IsList(s), Len(s) >= 1, NEW k \in Nat
  PROVE  /\ IsList(Levels(s)[k]) /\ Len(Levels(s)[k]) \in Nat /\ Len(Levels(s)[k]) >= 1
         /\ Len(Levels(s)[k]) = 1 \/ Len(Levels(s)[k]) + k <= Len(s)
<1> DEFINE L == Levels(s)
           Good(i) == /\ IsList(L[i]) /\ Len(L[i]) \in Nat /\ Len(L[i]) >= 1
                      /\ Len(L[i]) = 1 \/ Len(L[i]) + i <= Len(s)
           B == {i \in Nat : ~ Good(i)}
<1>1. SUFFICES ASSUME B # {} PROVE FALSE
      OBVIOUS
<1>2. PICK i \in B : \A j \in B : i <= j
  <2>1. B \in SUBSET Nat
        OBVIOUS
  <2> HIDE DEF B
  <2> QED
      BY <1>1, <2>1, LeastNumber
<1>3. L[0] = s /\ \A j \in Nat : L[j + 1] = Above(L[j])
      BY LevelsUnfold
<1>4. Len(s) \in Nat
      BY LenProperties DEF IsList
<1>5. Good(0)
      BY <1>3, <1>4
<1>6. i \in Nat /\ ~ Good(i)
      OBVIOUS
<1> HIDE DEF Good, L
<1>7. i # 0
      BY <1>5, <1>6
<1>8. i - 1 \in Nat /\ ~ (i <= i - 1) /\ (i - 1) + 1 = i
      BY <1>6, <1>7
<1>9. Good(i - 1)
      BY <1>2, <1>8
<1>10. L[i] = Above(L[i - 1])
      BY <1>3, <1>8
<1> DEFINE below == L[i - 1]
<1>11. /\ IsList(below) /\ Len(below) \in Nat /\ Len(below) >= 1
       /\ Len(below) = 1 \/ Len(below) + (i - 1) <= Len(s)
      BY <1>9 DEF Good
<1> HIDE DEF below
<1> DEFINE len == Len(below)
<1>a. len \in Nat /\ len >= 1 /\ (len = 1 \/ len + (i - 1) <= Len(s))
      BY <1>11
<1> HIDE DEF len
<1>12. CASE len <= 1
  <2>1. len = 1
        BY <1>12, <1>a
  <2>2. L[i] = below
        BY <1>10, <1>12 DEF Above, below, len
  <2> QED
      BY <2>1, <2>2, <1>6, <1>11 DEF Good, len
<1>13. CASE ~ (len <= 1)
  <2>a. L[i] = Parents(below) /\ ~ (len <= 1)
        BY <1>10, <1>13 DEF Above, below, len
  <2>b. len >= 2 /\ len + (i - 1) <= Len(s)
        BY <2>a, <1>a
  <2>1. Len(below) >= 2 /\ L[i] = Parents(below) /\ Len(below) + (i - 1) <= Len(s)
        BY <2>a, <2>b DEF len
  <2>2. /\ Len(L[i]) \in Nat /\ Len(L[i]) >= 1 /\ Len(L[i]) + 1 <= Len(below)
        /\ IsList(L[i])
        BY <2>1, <1>11, ParentsFewer, ParentsFacts
  <2>3. Len(L[i]) + i <= Len(s)
        BY <2>1, <2>2, <1>4, <1>6, <1>11
  <2> QED
      BY <2>2, <2>3, <1>6 DEF Good
<1> QED
    BY <1>12, <1>13

\* The root is reached.
LEMMA HeightExists ==
  ASSUME NEW s, IsList(s), Len(s) >= 1
  PROVE  \E h : Top(s, h) /\ Merkle(s) = Levels(s)[h][1]
<1> DEFINE L == Levels(s)
           n == Len(s)
           Ends == {i \in Nat : Len(L[i]) = 1}
<1>1. n \in Nat /\ s # <<>>
      BY LenProperties DEF IsList
<1>2. \A k \in Nat : /\ IsList(L[k]) /\ Len(L[k]) \in Nat /\ Len(L[k]) >= 1
                     /\ Len(L[k]) = 1 \/ Len(L[k]) + k <= n
      BY LevelLists
<1>3. \A j \in Nat : L[j + 1] = Above(L[j])
      BY LevelsUnfold
<1> HIDE DEF L
<1>4. Len(L[n]) = 1
  <2>1. /\ Len(L[n]) \in Nat /\ Len(L[n]) >= 1
        /\ Len(L[n]) = 1 \/ Len(L[n]) + n <= n
        BY <1>1, <1>2
  <2> HIDE DEF n
  <2> QED
      BY <1>1, <2>1
<1>5. PICK h \in Ends : \A j \in Ends : h <= j
  <2>1. Ends \in SUBSET Nat /\ n \in Ends
        BY <1>1, <1>4
  <2> HIDE DEF Ends
  <2> QED
      BY <2>1, LeastNumber
<1>6. h \in Nat /\ Len(L[h]) = 1 /\ h <= n
      BY <1>1, <1>4, <1>5
<1>7. ASSUME NEW k \in Nat, k < h PROVE L[k + 1] = Parents(L[k])
  <2>1. k \notin Ends
        BY <1>5, <1>6, <1>7
  <2>2. Len(L[k]) # 1 /\ Len(L[k]) \in Nat /\ Len(L[k]) >= 1
        BY <1>2, <2>1
  <2> DEFINE len == Len(L[k])
  <2>3. ~ (len <= 1)
    <3>1. len # 1 /\ len \in Nat /\ len >= 1
          BY <2>2
    <3> HIDE DEF len
    <3> QED
        BY <3>1
  <2>4. ~ (Len(L[k]) <= 1)
        BY <2>3
  <2> QED
      BY <1>3, <1>7, <2>4 DEF Above
<1>8. ASSUME NEW k \in Nat, k >= h PROVE L[k] = L[h]
  <2> DEFINE B == {i \in Nat : i >= h /\ L[i] # L[h]}
  <2>1. SUFFICES ASSUME B # {} PROVE FALSE
        BY <1>8
  <2>2. PICK i \in B : \A j \in B : i <= j
    <3>1. B \in SUBSET Nat
          OBVIOUS
    <3> HIDE DEF B
    <3> QED
        BY <2>1, <3>1, LeastNumber
  <2>3. i \in Nat /\ i # h /\ i >= h /\ L[i] # L[h]
        OBVIOUS
  <2>4. i - 1 \in Nat /\ i - 1 >= h /\ ~ (i <= i - 1) /\ (i - 1) + 1 = i
        BY <1>6, <2>3
  <2>5. L[i - 1] = L[h]
        BY <2>2, <2>4
  <2>6. L[i] = Above(L[i - 1])
        BY <1>3, <2>4
  <2> QED
      BY <1>6, <2>3, <2>5, <2>6 DEF Above
<1>9. L[n] = L[h]
      BY <1>1, <1>6, <1>8
<1>10. Merkle(s) = L[n][1]
      BY <1>1 DEF Merkle, L
<1>11. Top(s, h)
  <2>1. \A k \in 0..h : k \in Nat
        BY <1>6
  <2> QED
      BY <1>2, <1>6, <1>7, <2>1 DEF Top, L
<1> QED
    BY <1>9, <1>10, <1>11 DEF L

LEMMA FirstParent ==
  ASSUME NEW s, IsList(s), Len(s) >= 1
  PROVE  \E x : Parents(s)[1] = <<s[1], x>>
<1>1. Len(s) \in Nat
      BY LenProperties DEF IsList
<1>2. 1 \in 1..Len(Parents(s))
  <2>1. Len(Parents(s)) = (Len(s) + 1) \div 2
        BY ParentsFacts
  <2>2. ASSUME NEW n \in Nat, n >= 1 PROVE 1 \in 1..((n + 1) \div 2)
        BY <2>2
  <2> QED
      BY <1>1, <2>1, <2>2
<1>3. 2 * 1 - 1 = 1
      OBVIOUS
<1> QED
    BY <1>2, <1>3, ParentsFacts

IsLeaf(t) == \E x : t = <<x>>

\* A leaf is no pair: from one root no tree is higher than another.
LEMMA TopsLevel ==
  ASSUME NEW a, NEW b, NEW g, NEW h, Top(a, g), Top(b, h), IsLeaf(a[1]),
         Levels(a)[g][1] = Levels(b)[h][1]
  PROVE  ~ (g < h)
<1> DEFINE K == Levels(a)
           L == Levels(b)
           B == {j \in 0..g : K[g - j][1] # L[h - j][1]}
<1>0. g \in Nat /\ h \in Nat /\ K[0] = a
      BY LevelsUnfold DEF Top
<1>1. SUFFICES ASSUME g < h PROVE FALSE
      OBVIOUS
<1>2. /\ \A k \in 0..g : IsList(K[k]) /\ Len(K[k]) >= 1
      /\ \A k \in 0..h : IsList(L[k]) /\ Len(L[k]) >= 1
      /\ \A k \in Nat : k < g => K[k + 1] = Parents(K[k])
      /\ \A k \in Nat : k < h => L[k + 1] = Parents(L[k])
      /\ K[g][1] = L[h][1]
      BY DEF Top
<1> HIDE DEF K, L
<1>3. B = {}
  <2>1. SUFFICES ASSUME B # {} PROVE FALSE
        OBVIOUS
  <2>2. PICK j \in B : \A i \in B : j <= i
    <3>1. B \in SUBSET Nat
          OBVIOUS
    <3> HIDE DEF B
    <3> QED
        BY <2>1, <3>1, LeastNumber
  <2>3. j \in 0..g /\ j \in Nat /\ K[g - j][1] # L[h - j][1]
        OBVIOUS
  <2>4. j # 0
    <3>1. g - 0 = g /\ h - 0 = h
          BY <1>0
    <3> QED
        BY <2>3, <3>1, <1>2
  <2> HIDE DEF B
  <2>5. j - 1 \in 0..g /\ ~ (j <= j - 1)
        BY <1>0, <2>3, <2>4
  <2>6. K[g - (j - 1)][1] = L[h - (j - 1)][1]
        BY <2>2, <2>5 DEF B
  <2> DEFINE k == g - j
             l == h - j
  <2>7. /\ k \in Nat /\ k < g /\ k \in 0..g /\ k + 1 = g - (j - 1)
        /\ l \in Nat /\ l < h /\ l \in 0..h /\ l + 1 = h - (j - 1)
        BY <1>0, <1>1, <2>3, <2>4
  <2> HIDE DEF k, l
  <2>8. Parents(K[k])[1] = Parents(L[l])[1]
        BY <1>2, <2>6, <2>7
  <2>9. PICK x : Parents(K[k])[1] = <<K[k][1], x>>
        BY <1>2, <2>7, FirstParent
  <2>10. PICK y : Parents(L[l])[1] = <<L[l][1], y>>
        BY <1>2, <2>7, FirstParent
  <2>11. K[k][1] = L[l][1]
    <3>1. <<K[k][1], x>> = <<L[l][1], y>>
          BY <2>8, <2>9, <2>10
    <3> QED
        BY <3>1
  <2> QED
      BY <2>3, <2>11 DEF k, l
<1>4. K[g - g][1] = L[h - g][1]
  <2>1. g \in 0..g
        BY <1>0
  <2> QED
      BY <1>3, <2>1
<1> DEFINE l == h - g - 1
<1>5. g - g = 0 /\ l \in Nat /\ l < h /\ l \in 0..h /\ l + 1 = h - g
      BY <1>0, <1>1
<1> HIDE DEF l
<1>6. PICK y : Parents(L[l])[1] = <<L[l][1], y>>
      BY <1>2, <1>5, FirstParent
<1>7. a[1] = <<L[l][1], y>>
      BY <1>0, <1>2, <1>4, <1>5, <1>6
<1>8. PICK x : a[1] = <<x>>
      BY DEF IsLeaf
<1>9. Len(<<x>>) = 1 /\ Len(<<L[l][1], y>>) = 2
      OBVIOUS
<1> QED
    BY <1>7, <1>8, <1>9

\* A root determines the list it is of, among lists of distinct leaves and among
\* lists of one length.
LEMMA TreeInjective ==
  ASSUME NEW a, NEW b, IsList(a), IsList(b), Len(a) >= 1, Len(b) >= 1,
         IsLeaf(a[1]), IsLeaf(b[1]), Comparable(a, b), Merkle(a) = Merkle(b)
  PROVE  a = b
<1> DEFINE K == Levels(a)
           L == Levels(b)
<1>1. PICK h : Top(a, h) /\ Merkle(a) = K[h][1]
      BY HeightExists
<1>2. PICK g : Top(b, g) /\ Merkle(b) = L[g][1]
      BY HeightExists
<1>3. h \in Nat /\ g \in Nat /\ K[h][1] = L[g][1]
      BY <1>1, <1>2 DEF Top
<1>4. ~ (h < g) /\ ~ (g < h)
      BY <1>1, <1>2, <1>3, TopsLevel
<1>5. g = h
      BY <1>3, <1>4
<1>6. /\ \A k \in 0..h : /\ IsList(K[k]) /\ Len(K[k]) >= 1
                         /\ IsList(L[k]) /\ Len(L[k]) >= 1
      /\ \A k \in Nat : k < h => K[k + 1] = Parents(K[k]) /\ L[k + 1] = Parents(L[k])
      /\ Len(K[h]) = 1 /\ Len(L[h]) = 1 /\ K[h][1] = L[h][1]
      /\ K[0] = a /\ L[0] = b
      BY <1>1, <1>2, <1>3, <1>5, LevelsUnfold DEF Top
<1> HIDE DEF K, L
<1>7. ASSUME NEW k \in 0..h PROVE Comparable(K[k], L[k])
  <2> DEFINE B == {i \in 0..h : ~ Comparable(K[i], L[i])}
  <2>1. SUFFICES ASSUME B # {} PROVE FALSE
        OBVIOUS
  <2>2. PICK i \in B : \A j \in B : i <= j
    <3>1. B \in SUBSET Nat
          OBVIOUS
    <3> HIDE DEF B
    <3> QED
        BY <2>1, <3>1, LeastNumber
  <2>3. i \in 0..h /\ i \in Nat /\ ~ Comparable(K[i], L[i])
        OBVIOUS
  <2>4. i # 0
        BY <1>6, <2>3
  <2> DEFINE j == i - 1
  <2>5. j \in 0..h /\ j \in Nat /\ j < h /\ j + 1 = i /\ ~ (i <= j)
        BY <1>3, <2>3, <2>4
  <2> HIDE DEF j
  <2>6. Comparable(K[j], L[j])
        BY <2>2, <2>5
  <2>7. K[i] = Parents(K[j]) /\ L[i] = Parents(L[j])
        BY <1>6, <2>5
  <2>8. IsList(K[j]) /\ Len(K[j]) >= 1 /\ IsList(L[j]) /\ Len(L[j]) >= 1
        BY <1>6, <2>5
  <2>9. CASE Distinct(K[j]) /\ Distinct(L[j])
        BY <2>3, <2>7, <2>8, <2>9, ParentsDistinct DEF Comparable
  <2>10. CASE Len(K[j]) = Len(L[j])
    <3>1. Len(K[i]) = Len(L[i])
          BY <2>7, <2>8, <2>10, ParentsFacts
    <3> QED
        BY <2>3, <3>1 DEF Comparable
  <2> QED
      BY <2>6, <2>9, <2>10 DEF Comparable
<1>8. ASSUME NEW k \in 0..h PROVE K[h - k] = L[h - k]
  <2> DEFINE B == {i \in 0..h : K[h - i] # L[h - i]}
  <2>1. SUFFICES ASSUME B # {} PROVE FALSE
        OBVIOUS
  <2>2. PICK i \in B : \A j \in B : i <= j
    <3>1. B \in SUBSET Nat
          OBVIOUS
    <3> HIDE DEF B
    <3> QED
        BY <2>1, <3>1, LeastNumber
  <2>3. i \in 0..h /\ i \in Nat /\ K[h - i] # L[h - i]
        OBVIOUS
  <2>4. i # 0
    <3>1. h - 0 = h /\ h \in 0..h
          BY <1>3
    <3>2. PICK S : K[h] \in Seq(S)
          BY <1>6, <3>1 DEF IsList
    <3>3. PICK T : L[h] \in Seq(T)
          BY <1>6, <3>1 DEF IsList
    <3>4. K[h] \in Seq(S \union T) /\ L[h] \in Seq(S \union T)
          BY <3>2, <3>3, SeqMonotonic
    <3>5. \A j \in 1..Len(K[h]) : K[h][j] = L[h][j]
          BY <1>6
    <3>6. K[h] = L[h]
          BY <1>6, <3>4, <3>5, SeqEqual
    <3> QED
        BY <2>3, <3>1, <3>6
  <2> HIDE DEF B
  <2>5. i - 1 \in 0..h /\ ~ (i <= i - 1)
        BY <1>3, <2>3, <2>4
  <2>6. K[h - (i - 1)] = L[h - (i - 1)]
        BY <2>2, <2>5 DEF B
  <2> DEFINE j == h - i
  <2>7. j \in 0..h /\ j \in Nat /\ j < h /\ j + 1 = h - (i - 1)
        BY <1>3, <2>3, <2>4
  <2> HIDE DEF j
  <2>8. Parents(K[j]) = Parents(L[j])
        BY <1>6, <2>6, <2>7
  <2>9. /\ IsList(K[j]) /\ Len(K[j]) >= 1 /\ IsList(L[j]) /\ Len(L[j]) >= 1
        /\ Comparable(K[j], L[j])
        BY <1>6, <1>7, <2>7
  <2>10. K[j] = L[j]
        BY <2>8, <2>9, ParentsInjective
  <2> QED
      BY <2>3, <2>10 DEF j
<1>9. h \in 0..h /\ h - h = 0
      BY <1>3
<1>10. K[0] = L[0]
      BY <1>8, <1>9
<1> QED
    BY <1>6, <1>10

-------------------------------------------------------------------------------
(* What is paid, counted *)

\* A bijection that is given by a function keeps the number.
LEMMA SameNumber ==
  ASSUME NEW S, NEW T, IsFiniteSet(S), NEW f \in [S -> T],
         \A x, y \in S : f[x] = f[y] => x = y,
         \A z \in T : \E x \in S : f[x] = z
  PROVE  IsFiniteSet(T) /\ Cardinality(T) = Cardinality(S)
<1>1. f \in Bijection(S, T)
      BY DEF Bijection, Injection, Surjection, IsInjective
<1>2. ExistsBijection(S, T)
      BY <1>1 DEF ExistsBijection
<1> QED
    BY <1>2, FS_Bijection

LEMMA CopiesNumber ==
  ASSUME NEW s, NEW o, IsList(s)
  PROVE  /\ IsFiniteSet({i \in DOMAIN s : s[i] = o}) /\ Copies(o, s) \in Nat
         /\ o \in ToSet(s) <=> Copies(o, s) # 0
<1> DEFINE S == {i \in DOMAIN s : s[i] = o}
<1>1. DOMAIN s = 1..Len(s) /\ Len(s) \in Int
      BY LenProperties DEF IsList
<1>2. IsFiniteSet(DOMAIN s)
      BY <1>1, FS_Interval
<1>3. IsFiniteSet(S)
      BY <1>2, FS_Subset
<1>4. Cardinality(S) \in Nat /\ (Cardinality(S) = 0 <=> S = {})
      BY <1>3, FS_CardinalityType, FS_EmptySet
<1>5. o \in ToSet(s) <=> S # {}
      BY DEF ToSet
<1> QED
    BY <1>3, <1>4, <1>5 DEF Copies

LEMMA CopiesJoined ==
  ASSUME NEW s, NEW t, NEW o, IsList(s), IsList(t)
  PROVE  IsList(s \o t) /\ Copies(o, s \o t) = Copies(o, s) + Copies(o, t)
<1>1. PICK T : s \in Seq(T) /\ t \in Seq(T)
  <2>1. PICK A, B : s \in Seq(A) /\ t \in Seq(B)
        BY DEF IsList
  <2>2. A \subseteq A \cup B /\ B \subseteq A \cup B
        OBVIOUS
  <2> HIDE DEF IsList
  <2>3. s \in Seq(A \cup B) /\ t \in Seq(A \cup B)
        BY <2>1, <2>2, SeqMonotonic
  <2> QED
      BY <2>3
<1> DEFINE u == s \o t
           m == Len(s)
           n == Len(t)
           A == {i \in 1..m : s[i] = o}
           B == {i \in 1..n : t[i] = o}
           C == {m + i : i \in B}
           D == {i \in 1..(m + n) : u[i] = o}
           f == [i \in B |-> m + i]
<1>2. /\ u \in Seq(T) /\ Len(u) = m + n
      /\ \A i \in 1..(m + n) : u[i] = IF i <= m THEN s[i] ELSE t[i - m]
      BY <1>1, ConcatProperties
<1>3. /\ m \in Nat /\ n \in Nat /\ DOMAIN s = 1..m /\ DOMAIN t = 1..n
      BY <1>1, LenProperties
<1>4. DOMAIN u = 1..(m + n)
      BY <1>2, LenProperties
<1>5. IsFiniteSet(A) /\ IsFiniteSet(B)
      BY <1>3, CopiesNumber
<1> HIDE DEF u, m, n
<1>6. IsFiniteSet(C) /\ Cardinality(C) = Cardinality(B)
  <2>1. f \in [B -> C]
        OBVIOUS
  <2>2. \A x, y \in B : f[x] = f[y] => x = y
        BY <1>3
  <2>3. \A z \in C : \E x \in B : f[x] = z
        OBVIOUS
  <2> HIDE DEF f, B, C
  <2> QED
      BY <1>5, <2>1, <2>2, <2>3, SameNumber
<1>7. D = A \cup C
  <2>1. ASSUME NEW i \in D PROVE i \in A \cup C
    <3>1. CASE i <= m
          BY <1>2, <1>3, <3>1
    <3>2. CASE ~ (i <= m)
      <4>1. i - m \in B
            BY <1>2, <1>3, <3>2
      <4>2. i = m + (i - m)
            BY <1>3
      <4> QED
          BY <4>1, <4>2
    <3> QED
        BY <3>1, <3>2
  <2>2. ASSUME NEW i \in A PROVE i \in D
        BY <1>2, <1>3
  <2>3. ASSUME NEW i \in B PROVE m + i \in D
    <3>1. m + i \in 1..(m + n) /\ ~ (m + i <= m) /\ (m + i) - m = i
          BY <1>3
    <3> QED
        BY <1>2, <3>1
  <2> QED
      BY <2>1, <2>2, <2>3
<1>8. A \cap C = {}
      BY <1>3
<1>9. Copies(o, s) = Cardinality(A) /\ Copies(o, t) = Cardinality(B) /\ Copies(o, u) = Cardinality(D)
      BY <1>3, <1>4 DEF Copies
<1>10. Cardinality(A) \in Nat /\ Cardinality(B) \in Nat
       BY <1>5, FS_CardinalityType
<1>11. Cardinality(D) = Cardinality(A) + Cardinality(C) - Cardinality(A \cap C)
  <2> HIDE DEF A, C, D
  <2> QED
      BY <1>5, <1>6, <1>7, FS_Union
<1>12. Cardinality(A \cap C) = 0
       BY <1>8, FS_EmptySet
<1>13. Cardinality(D) = Cardinality(A) + Cardinality(B)
  <2> HIDE DEF A, B, C, D
  <2> QED
      BY <1>6, <1>10, <1>11, <1>12
<1> HIDE DEF A, B, C, D
<1> QED
    BY <1>2, <1>9, <1>13 DEF u, IsList

LEMMA CopiesSingle ==
  ASSUME NEW e, NEW o
  PROVE  IsList(<<e>>) /\ Copies(o, <<e>>) = IF o = e THEN 1 ELSE 0
<1>1. <<e>> \in Seq({e}) /\ DOMAIN <<e>> = {1} /\ <<e>>[1] = e
      OBVIOUS
<1>2. {i \in DOMAIN <<e>> : <<e>>[i] = o} = IF o = e THEN {1} ELSE {}
      BY <1>1
<1>3. Cardinality({1}) = 1 /\ Cardinality({}) = 0
      BY FS_Singleton, FS_EmptySet
<1> QED
    BY <1>1, <1>2, <1>3 DEF Copies, IsList

\* Without its first copy of an output there is one copy less of it, and all of the others.
LEMMA CopiesRemoved ==
  ASSUME NEW s, NEW e, NEW o, IsList(s), e \in ToSet(s)
  PROVE  /\ IsList(RemoveFirst(s, e))
         /\ Copies(o, s) = Copies(o, RemoveFirst(s, e)) + Copies(o, <<e>>)
<1>1. PICK T : s \in Seq(T)
      BY DEF IsList
<1> DEFINE n == Len(s)
           I == {i \in 1..n : s[i] = e}
           k == Min(I)
           a == SubSeq(s, 1, k - 1)
           b == SubSeq(s, k + 1, n)
           h == SubSeq(s, 1, k)
<1>2. n \in Nat /\ DOMAIN s = 1..n /\ \A i \in 1..n : s[i] \in T
      BY <1>1, LenProperties, ElementOfSeq
<1>3. I # {} /\ I \in SUBSET Nat
      BY <1>2 DEF ToSet
<1>4. k \in I
  <2> HIDE DEF I
  <2>1. \E x \in I : \A y \in I : x <= y
        BY <1>3, LeastNumber
  <2> QED
      BY <2>1 DEF Min
<1>5. RemoveFirst(s, e) = a \o b
      BY <1>3 DEF RemoveFirst, RemoveAt, SelectInSeq
<1>6. k \in 1..n /\ s[k] = e /\ k \in Nat
      BY <1>4
<1> HIDE DEF k, n
<1>7. a \in Seq(T) /\ b \in Seq(T)
  <2>1. \A i \in 1..(k - 1) : s[i] \in T
        BY <1>2, <1>6
  <2>2. \A i \in (k + 1)..n : s[i] \in T
        BY <1>2, <1>6
  <2>3. 1 \in Int /\ k - 1 \in Int /\ k + 1 \in Int /\ n \in Int
        BY <1>2, <1>6
  <2> QED
      BY <2>1, <2>2, <2>3, SubSeqProperties
<1>8. h = a \o <<e>>
  <2>1. 1 \in 1..n /\ k \in 1..n
        BY <1>2, <1>6
  <2> QED
      BY <1>1, <1>6, <2>1, SubSeqRecursiveSecond DEF n
<1>9. h \o b = s
  <2>1. 1 \in 1..(n + 1) /\ k \in (1 - 1)..n /\ n \in k..n
        BY <1>2, <1>6
  <2>2. h \o b = SubSeq(s, 1, n)
        BY <1>1, <2>1, ConcatAdjacentSubSeq DEF n
  <2> QED
      BY <1>1, <2>2, SubSeqFull DEF n
<1>10. IsList(a) /\ IsList(b) /\ IsList(<<e>>)
       BY <1>7, CopiesSingle DEF IsList
<1> HIDE DEF a, b, h
<1>11. IsList(h) /\ Copies(o, h) = Copies(o, a) + Copies(o, <<e>>)
       BY <1>8, <1>10, CopiesJoined
<1>12. Copies(o, s) = Copies(o, h) + Copies(o, b)
       BY <1>9, <1>10, <1>11, CopiesJoined
<1>13. IsList(a \o b) /\ Copies(o, a \o b) = Copies(o, a) + Copies(o, b)
       BY <1>10, CopiesJoined
<1>14. Copies(o, a) \in Nat /\ Copies(o, b) \in Nat /\ Copies(o, <<e>>) \in Nat
       BY <1>10, CopiesNumber
<1> QED
    BY <1>5, <1>11, <1>12, <1>13, <1>14

\* What is left of the outputs when the first n claims have taken theirs.
Leaves(g, outs, claimed, n) ==
  g = [k \in 0..n |-> IF k = 0 THEN outs ELSE TakeOne(g[k - 1], claimed[k])]

LEMMA LeavesAll ==
  ASSUME NEW outs, NEW claimed, NEW n \in Nat
  PROVE  \E g : Leaves(g, outs, claimed, n)
<1> DEFINE B == {i \in Nat : ~ \E g : Leaves(g, outs, claimed, i)}
<1>1. SUFFICES ASSUME B # {} PROVE FALSE
      OBVIOUS
<1>2. PICK i \in B : \A j \in B : i <= j
  <2>1. B \in SUBSET Nat
        OBVIOUS
  <2> HIDE DEF B
  <2> QED
      BY <1>1, <2>1, LeastNumber
<1>3. i \in Nat /\ ~ \E g : Leaves(g, outs, claimed, i)
      OBVIOUS
<1>4. CASE i = 0
  <2> DEFINE g == [k \in 0..0 |-> outs]
  <2>1. g = [k \in 0..0 |-> IF k = 0 THEN outs ELSE TakeOne(g[k - 1], claimed[k])]
        OBVIOUS
  <2> HIDE DEF g
  <2>2. Leaves(g, outs, claimed, 0)
        BY <2>1 DEF Leaves
  <2> QED
      BY <1>3, <1>4, <2>2
<1>5. CASE i # 0
  <2>1. i - 1 \in Nat /\ ~ (i <= i - 1)
        BY <1>3, <1>5
  <2>2. i - 1 \notin B
        BY <1>2, <2>1
  <2>3. PICK h : Leaves(h, outs, claimed, i - 1)
        BY <2>1, <2>2
  <2> DEFINE g == [k \in 0..i |-> IF k = i THEN TakeOne(h[i - 1], claimed[i]) ELSE h[k]]
  <2>4. ASSUME NEW k \in 0..i
        PROVE  g[k] = IF k = 0 THEN outs ELSE TakeOne(g[k - 1], claimed[k])
    <3>1. CASE k = i
      <4>1. i - 1 \in 0..i /\ i - 1 # i
            BY <1>3, <1>5
      <4>2. g[i] = TakeOne(h[i - 1], claimed[i]) /\ g[i - 1] = h[i - 1]
            BY <4>1, <3>1
      <4> HIDE DEF g
      <4> QED
          BY <1>5, <3>1, <4>2
    <3>2. CASE k # i
      <4>1. k \in 0..(i - 1) /\ (k # 0 => k - 1 \in 0..i /\ k - 1 # i)
            BY <1>3, <3>2
      <4>2. g[k] = h[k] /\ (k # 0 => g[k - 1] = h[k - 1])
            BY <3>2, <4>1
      <4>3. h[k] = IF k = 0 THEN outs ELSE TakeOne(h[k - 1], claimed[k])
            BY <2>3, <4>1 DEF Leaves
      <4> HIDE DEF g
      <4> QED
          BY <4>2, <4>3
    <3> QED
        BY <3>1, <3>2
  <2>5. g = [k \in 0..i |-> g[k]]
        OBVIOUS
  <2> HIDE DEF g
  <2>6. Leaves(g, outs, claimed, i)
        BY <2>4, <2>5 DEF Leaves
  <2> QED
      BY <1>3, <2>6
<1> QED
    BY <1>4, <1>5

\* When the claims take every output, each output is claimed as often as it is there.
LEMMA ConsumeCounts ==
  ASSUME NEW outs, NEW claimed, IsList(outs), IsList(claimed), Consume(outs, claimed) = <<>>,
         NEW o
  PROVE  Copies(o, outs) = Copies(o, claimed)
<1> DEFINE n == Len(claimed)
           Def(f) == Leaves(f, outs, claimed, n)
           g == CHOOSE f : Def(f)
           Part(k) == SubSeq(claimed, 1, k)
<1>1. PICK T : claimed \in Seq(T)
      BY DEF IsList
<1>2. n \in Nat /\ \A i \in 1..n : claimed[i] \in T
      BY <1>1, LenProperties, ElementOfSeq
<1>3. Def(g)
  <2>1. \E f : Def(f)
        BY <1>2, LeavesAll
  <2> HIDE DEF Def
  <2> QED
      BY <2>1
<1>4. Consume(outs, claimed) = g[n]
      BY DEF Consume, Leaves
<1> HIDE DEF g, n
<1>5. /\ g[0] = outs
      /\ \A k \in 1..n : g[k] = TakeOne(g[k - 1], claimed[k])
  <2>1. 0 \in 0..n /\ \A k \in 1..n : k \in 0..n /\ k # 0
        BY <1>2
  <2> QED
      BY <1>3, <2>1 DEF Leaves
<1>6. g[n] # Nil
      BY <1>4, CandidateAssumption
<1>7. ASSUME NEW k \in 0..n PROVE g[k] # Nil
  <2> DEFINE B == {j \in 0..(n - k) : g[k + j] # Nil}
  <2>1. SUFFICES ASSUME g[k] = Nil PROVE FALSE
        OBVIOUS
  <2>2. B \in SUBSET Nat /\ n - k \in B
    <3>1. n - k \in 0..(n - k) /\ k + (n - k) = n
          BY <1>2
    <3> QED
        BY <1>6, <3>1
  <2>3. PICK j \in B : \A i \in B : j <= i
    <3> HIDE DEF B
    <3> QED
        BY <2>2, LeastNumber
  <2>4. j \in 0..(n - k) /\ g[k + j] # Nil
        OBVIOUS
  <2>5. j # 0
    <3>1. k + 0 = k
          BY <1>2
    <3> QED
        BY <2>1, <2>4, <3>1
  <2>6. j - 1 \in 0..(n - k) /\ ~ (j <= j - 1) /\ k + j \in 1..n /\ k + (j - 1) = (k + j) - 1
        BY <1>2, <2>4, <2>5
  <2>7. g[(k + j) - 1] = Nil
        BY <2>3, <2>6
  <2> QED
      BY <1>5, <2>4, <2>6, <2>7 DEF TakeOne
<1> DEFINE Kept(k) == IsList(g[k]) /\ Copies(o, g[k]) + Copies(o, Part(k)) = Copies(o, outs)
           B == {k \in 0..n : ~ Kept(k)}
<1>8. B = {}
  <2>1. SUFFICES ASSUME B # {} PROVE FALSE
        OBVIOUS
  <2>2. B \in SUBSET Nat
        BY <1>2
  <2>3. PICK k \in B : \A i \in B : k <= i
    <3> HIDE DEF B
    <3> QED
        BY <2>1, <2>2, LeastNumber
  <2>4. k \in 0..n /\ ~ Kept(k)
        OBVIOUS
  <2>5. k # 0
    <3>1. Part(0) = <<>>
          BY SubSeqEmpty
    <3>2. Copies(o, <<>>) = 0
      <4>1. {i \in DOMAIN <<>> : <<>>[i] = o} = {}
            OBVIOUS
      <4> QED
          BY <4>1, FS_EmptySet DEF Copies
    <3>3. Copies(o, outs) \in Nat
          BY CopiesNumber
    <3>4. Kept(0)
      <4> HIDE DEF Part
      <4> QED
          BY <1>5, <3>1, <3>2, <3>3
    <3> QED
        BY <2>4, <3>4
  <2>6. k - 1 \in 0..n /\ ~ (k <= k - 1) /\ k \in 1..n
        BY <1>2, <2>4, <2>5
  <2>7. Kept(k - 1)
    <3> HIDE DEF Kept
    <3> QED
        BY <2>3, <2>6
  <2> DEFINE e == claimed[k]
             left == g[k - 1]
  <2>8. left # Nil /\ g[k] # Nil /\ g[k] = TakeOne(left, e)
        BY <1>5, <1>7, <2>6
  <2>9. e \in ToSet(left) /\ g[k] = RemoveFirst(left, e)
        BY <2>8 DEF TakeOne
  <2>10. IsList(g[k]) /\ Copies(o, left) = Copies(o, g[k]) + Copies(o, <<e>>)
         BY <2>7, <2>9, CopiesRemoved
  <2>11. Part(k) = Part(k - 1) \o <<e>> /\ IsList(Part(k - 1)) /\ IsList(<<e>>)
    <3>1. 1 \in 1..n /\ k \in 1..n /\ 1 \in Int /\ k - 1 \in Int
          BY <1>2, <2>6
    <3>2. Part(k) = Part(k - 1) \o <<e>>
          BY <1>1, <3>1, SubSeqRecursiveSecond DEF n
    <3>3. \A i \in 1..(k - 1) : claimed[i] \in T
          BY <1>2, <2>6
    <3>4. Part(k - 1) \in Seq(T)
          BY <3>1, <3>3, SubSeqProperties
    <3> QED
        BY <3>2, <3>4, CopiesSingle DEF IsList
  <2> HIDE DEF Part
  <2>12. Copies(o, Part(k)) = Copies(o, Part(k - 1)) + Copies(o, <<e>>)
         BY <2>11, CopiesJoined
  <2>13. /\ Copies(o, g[k]) \in Nat /\ Copies(o, <<e>>) \in Nat
         /\ Copies(o, Part(k - 1)) \in Nat
         BY <2>10, <2>11, CopiesNumber
  <2> QED
      BY <2>4, <2>7, <2>10, <2>12, <2>13
<1>9. Kept(n)
      BY <1>2, <1>8
<1>10. Part(n) = claimed
       BY <1>1, SubSeqFull DEF n
<1>11. Copies(o, <<>>) = 0
  <2>1. {i \in DOMAIN <<>> : <<>>[i] = o} = {}
        OBVIOUS
  <2> QED
      BY <2>1, FS_EmptySet DEF Copies
<1>12. Copies(o, claimed) \in Nat
       BY CopiesNumber
<1>13. Copies(o, g[n]) + Copies(o, Part(n)) = Copies(o, outs) /\ g[n] = <<>>
       BY <1>4, <1>9
<1> HIDE DEF Part
<1> QED
    BY <1>10, <1>11, <1>12, <1>13

\* A list of the members of a finite set has each of them once.
LEMMA SetListed ==
  ASSUME NEW D, IsFiniteSet(D)
  PROVE  /\ SetToSeq(D) \in [1..Cardinality(D) -> D] /\ Cardinality(D) \in Nat
         /\ \A i, j \in 1..Cardinality(D) : SetToSeq(D)[i] = SetToSeq(D)[j] => i = j
         /\ \A x \in D : \E i \in 1..Cardinality(D) : SetToSeq(D)[i] = x
<1> DEFINE n == Cardinality(D)
           Good(f) == IsInjective(f)
           F == [1..n -> D]
           s == CHOOSE f \in F : Good(f)
<1>1. n \in Nat /\ ExistsBijection(1..n, D)
      BY FS_CardinalityType
<1>2. PICK b : b \in Bijection(1..n, D)
      BY <1>1 DEF ExistsBijection
<1>3. b \in F /\ Good(b)
      BY <1>2 DEF Bijection, Injection, IsInjective
<1>4. s \in F /\ Good(s)
  <2> HIDE DEF F, Good
  <2> QED
      BY <1>3
<1>5. SetToSeq(D) = s
      BY DEF SetToSeq
<1> HIDE DEF s, n
<1>6. s \in Injection(1..n, D)
      BY <1>4 DEF Injection
<1>7. IsFiniteSet(1..n) /\ Cardinality(1..n) = n
  <2>1. 1 \in Int /\ n \in Int /\ (1 > n => n = 0) /\ n - 1 + 1 = n
        BY <1>1
  <2> QED
      BY <2>1, FS_Interval
<1>8. Cardinality(1..n) = Cardinality(D)
      BY <1>7 DEF n
<1>9. s \in Surjection(1..n, D)
      BY <1>6, <1>8, FS_Injection
<1> QED
    BY <1>1, <1>4, <1>5, <1>9 DEF Surjection, IsInjective, n

\* Whoever consumes an output: what is paid and what is declared are all of them.
LEMMA ConsumedCounts ==
  ASSUME NEW outs, NEW direct, NEW ds, IsList(outs), IsList(direct), IsList(ds),
         \A i \in DOMAIN ds : ds[i].index \in DOMAIN outs,
         Consumed(outs, direct, ds), NEW o
  PROVE  LET D == {ds[i].index : i \in DOMAIN ds}
         IN  /\ IsFiniteSet(D)
             /\ Copies(o, outs) = Copies(o, direct) + Cardinality({i \in D : outs[i] = o})
<1> DEFINE D == {ds[i].index : i \in DOMAIN ds}
           n == Cardinality(D)
           s == SetToSeq(D)
           named == [i \in DOMAIN s |-> outs[s[i]]]
           I == {i \in 1..n : outs[s[i]] = o}
           E == {x \in D : outs[x] = o}
           f == [i \in I |-> s[i]]
<1>1. IsFiniteSet(D)
  <2>1. DOMAIN ds = 1..Len(ds) /\ Len(ds) \in Int
        BY LenProperties DEF IsList
  <2>2. IsFiniteSet(DOMAIN ds)
        BY <2>1, FS_Interval
  <2> DEFINE g == [i \in DOMAIN ds |-> ds[i].index]
  <2>3. D = {g[i] : i \in DOMAIN ds}
        OBVIOUS
  <2> HIDE DEF D, g
  <2> QED
      BY <2>2, <2>3, ImageFinite
<1>2. D = {d.index : d \in ToSet(ds)}
      BY DEF ToSet
<1> HIDE DEF D, s, n
<1>3. /\ n \in Nat /\ DOMAIN s = 1..n /\ \A i \in 1..n : s[i] \in D
      /\ \A i, j \in 1..n : s[i] = s[j] => i = j
      /\ \A x \in D : \E i \in 1..n : s[i] = x
      BY <1>1, SetListed DEF s, n
<1>4. Consume(outs, direct \o named) = <<>>
      BY <1>2 DEF Consumed, s
<1>5. D \subseteq DOMAIN outs
      BY DEF D
<1>6. IsList(named) /\ DOMAIN named = 1..n
  <2>1. \A i \in 1..n : outs[s[i]] \in ToSet(outs)
        BY <1>3, <1>5 DEF ToSet
  <2>2. named = [i \in 1..n |-> outs[s[i]]]
        BY <1>3
  <2>3. named \in Seq(ToSet(outs))
        BY <1>3, <2>1, <2>2
  <2> QED
      BY <1>3, <2>3 DEF IsList
<1>7. Copies(o, named) = Cardinality(I)
  <2>1. {i \in DOMAIN named : named[i] = o} = I
        BY <1>3, <1>6
  <2> QED
      BY <2>1 DEF Copies
<1>8. Cardinality(E) = Cardinality(I)
  <2>1. f \in [I -> E]
        BY <1>3
  <2>2. \A x, y \in I : f[x] = f[y] => x = y
        BY <1>3
  <2>3. \A z \in E : \E x \in I : f[x] = z
        BY <1>3
  <2>4. IsFiniteSet(I)
    <3>1. 1 \in Int /\ n \in Int
          BY <1>3
    <3>2. IsFiniteSet(1..n)
          BY <3>1, FS_Interval
    <3> QED
        BY <3>2, FS_Subset
  <2> HIDE DEF f, I, E
  <2> QED
      BY <2>1, <2>2, <2>3, <2>4, SameNumber
<1> HIDE DEF named, I, E
<1>9. IsList(direct \o named) /\ Copies(o, direct \o named) = Copies(o, direct) + Copies(o, named)
      BY <1>6, CopiesJoined
<1>10. Copies(o, outs) = Copies(o, direct \o named)
       BY <1>4, <1>9, ConsumeCounts
<1> QED
    BY <1>1, <1>7, <1>8, <1>9, <1>10 DEF D, E

\* What is declared are the commitments, and they pay nothing.
LEMMA DeclaredAre ==
  ASSUME NEW outs, NEW ds, DeclaredOk(outs, ds)
  PROVE  /\ {ds[i].index : i \in DOMAIN ds} = Commitments(outs)
         /\ \A i \in Commitments(outs) : outs[i][1] = 0
<1>1. ASSUME NEW i \in DOMAIN ds
      PROVE  /\ ds[i].index \in Commitments(outs)
             /\ outs[ds[i].index][1] = 0
  <2>1. /\ ds[i].index \in DOMAIN outs /\ outs[ds[i].index] = <<0, ds[i].script>>
        /\ CommitmentClass(ds[i].script) \in Allowed
        BY DEF DeclaredOk
  <2>2. CommitmentClass(ds[i].script) = "BIP141"
        BY <2>1, CandidateAssumption
  <2> QED
      BY <2>1, <2>2 DEF Commitments
<1>2. \A i \in Commitments(outs) : \E k \in DOMAIN ds : ds[k].index = i
      BY DEF DeclaredOk
<1> QED
    BY <1>1, <1>2

\* Each output that is not a commitment is paid as often as it is there.
LEMMA PaymentsCounted ==
  ASSUME NEW outs, NEW direct, NEW ds, IsList(outs), IsList(direct), IsList(ds),
         DeclaredOk(outs, ds), Consumed(outs, direct, ds), NEW o
  PROVE  Copies(o, direct) = IF CommitmentClass(o[2]) = Nil THEN Copies(o, outs) ELSE 0
<1> DEFINE D == {ds[i].index : i \in DOMAIN ds}
           E == {i \in D : outs[i] = o}
<1>1. \A i \in DOMAIN ds : ds[i].index \in DOMAIN outs
      BY DEF DeclaredOk
<1>2. IsFiniteSet(D) /\ Copies(o, outs) = Copies(o, direct) + Cardinality(E)
      BY <1>1, ConsumedCounts
<1>3. D = Commitments(outs)
      BY DeclaredAre
<1> HIDE DEF D
<1>4. Copies(o, outs) \in Nat /\ Copies(o, direct) \in Nat
      BY CopiesNumber
<1>5. CASE CommitmentClass(o[2]) = Nil
  <2>1. E = {}
        BY <1>3, <1>5, CandidateAssumption DEF Commitments
  <2>2. Cardinality(E) = 0
        BY <2>1, FS_EmptySet
  <2> HIDE DEF E
  <2> QED
      BY <1>2, <1>4, <1>5, <2>2
<1>6. CASE CommitmentClass(o[2]) # Nil
  <2>1. CommitmentClass(o[2]) = "BIP141"
        BY <1>6 DEF CommitmentClass
  <2>2. E = {i \in DOMAIN outs : outs[i] = o}
        BY <1>3, <2>1 DEF Commitments
  <2>3. Cardinality(E) = Copies(o, outs)
        BY <2>2 DEF Copies
  <2> HIDE DEF E
  <2> QED
      BY <1>2, <1>4, <1>6, <2>3
<1> QED
    BY <1>5, <1>6

\* A total is the total of each output's copies.
LEMMA SumOfCopies ==
  ASSUME NEW s, IsList(s), \A i \in DOMAIN s : s[i][1] \in Nat,
         NEW P, IsFiniteSet(P), ToSet(s) \subseteq P
  PROVE  /\ Sum(s) = SumFunctionOnSet([o \in P |-> IF o \in ToSet(s) THEN o[1] * Copies(o, s) ELSE 0], P)
         /\ Sum(s) \in Nat
<1> DEFINE S == DOMAIN s
           f == [i \in S |-> s[i][1]]
           Of(o) == {i \in S : s[i] = o}
           g == [o \in P |-> SumFunctionOnSet(f, Of(o))]
           h == [o \in P |-> IF o \in ToSet(s) THEN o[1] * Copies(o, s) ELSE 0]
<1>1. IsFiniteSet(S)
  <2>1. S = 1..Len(s) /\ Len(s) \in Int
        BY LenProperties DEF IsList
  <2> QED
      BY <2>1, FS_Interval
<1>2. Sum(s) = SumFunctionOnSet(f, S)
      BY DEF Sum, SumFunction
<1>3. \A i \in S : f[i] \in Nat /\ f[i] \in Int /\ s[i] \in P
      BY DEF ToSet
<1>4. SumFunctionOnSet(f, S) \in Nat
  <2> HIDE DEF f, S
  <2> QED
      BY <1>1, <1>3, SumNat
<1>5. SumFunctionOnSet(g, P) = SumFunctionOnSet(f, S)
  <2> HIDE DEF f, S
  <2> QED
      BY <1>1, <1>3, SumByKey
<1>6. ASSUME NEW o \in P PROVE g[o] = h[o]
  <2>1. g[o] = SumFunctionOnSet(f, Of(o))
        OBVIOUS
  <2>2. IsFiniteSet(Of(o)) /\ Cardinality(Of(o)) = Copies(o, s)
        BY CopiesNumber DEF Copies
  <2>3. CASE o \in ToSet(s)
    <3>1. \A i \in Of(o) : f[i] = o[1]
          OBVIOUS
    <3>2. o[1] \in Int
          BY <2>3 DEF ToSet
    <3> HIDE DEF f, Of, g
    <3>3. SumFunctionOnSet(f, Of(o)) = o[1] * Cardinality(Of(o))
          BY <2>2, <3>1, <3>2, SumConstant
    <3> QED
        BY <2>1, <2>2, <2>3, <3>3
  <2>4. CASE o \notin ToSet(s)
    <3>1. Of(o) = {}
          BY <2>4 DEF ToSet
    <3> HIDE DEF f, Of, g
    <3> QED
        BY <2>1, <2>4, <3>1, SumEmpty
  <2> QED
      BY <2>3, <2>4
<1>7. SumFunctionOnSet(g, P) = SumFunctionOnSet(h, P)
  <2> HIDE DEF g, h
  <2> QED
      BY <1>6, SumSame
<1> QED
    BY <1>2, <1>4, <1>5, <1>7

\* The payments and the outputs have the same total.
LEMMA PaidInFull ==
  ASSUME NEW outs, NEW direct, NEW ds, IsList(outs), direct \in Seq(ToSet(outs)), IsList(ds),
         \A i \in DOMAIN outs : outs[i][1] \in Nat,
         DeclaredOk(outs, ds), Consumed(outs, direct, ds)
  PROVE  Sum(direct) = Sum(outs) /\ Sum(outs) \in Nat
<1> DEFINE P == ToSet(outs)
           f == [o \in P |-> IF o \in ToSet(direct) THEN o[1] * Copies(o, direct) ELSE 0]
           g == [o \in P |-> IF o \in P THEN o[1] * Copies(o, outs) ELSE 0]
<1>1. IsList(direct)
      BY DEF IsList
<1>2. IsFiniteSet(P)
  <2>1. DOMAIN outs = 1..Len(outs) /\ Len(outs) \in Int
        BY LenProperties DEF IsList
  <2>2. IsFiniteSet(DOMAIN outs)
        BY <2>1, FS_Interval
  <2>3. P = {outs[i] : i \in DOMAIN outs}
        BY DEF ToSet
  <2> HIDE DEF P
  <2> QED
      BY <2>2, <2>3, ImageFinite
<1>3. \A i \in DOMAIN direct : direct[i] \in P
      BY LenProperties, ElementOfSeq
<1>4. \A o \in P : o[1] \in Nat
      BY DEF ToSet
<1>5. ToSet(direct) \subseteq P /\ \A i \in DOMAIN direct : direct[i][1] \in Nat
  <2> HIDE DEF P
  <2> QED
      BY <1>3, <1>4 DEF ToSet
<1>6. Sum(outs) = SumFunctionOnSet(g, P) /\ Sum(outs) \in Nat
      BY <1>2, SumOfCopies
<1>7. Sum(direct) = SumFunctionOnSet(f, P)
  <2> HIDE DEF P
  <2> QED
      BY <1>1, <1>2, <1>5, SumOfCopies
<1>8. ASSUME NEW o \in P PROVE f[o] = g[o]
  <2>1. /\ Copies(o, direct) = IF CommitmentClass(o[2]) = Nil THEN Copies(o, outs) ELSE 0
        /\ Copies(o, outs) \in Nat /\ Copies(o, direct) \in Nat
        BY <1>1, PaymentsCounted, CopiesNumber
  <2>2. o \in ToSet(direct) <=> Copies(o, direct) # 0
        BY <1>1, CopiesNumber
  <2>3. CASE CommitmentClass(o[2]) = Nil
    <3>1. f[o] = o[1] * Copies(o, direct)
          BY <1>4, <2>2
    <3> QED
        BY <2>1, <2>3, <3>1
  <2>4. CASE CommitmentClass(o[2]) # Nil
    <3>1. CommitmentClass(o[2]) = "BIP141"
          BY <2>4 DEF CommitmentClass
    <3>2. o[1] = 0
          BY <3>1, DeclaredAre DEF ToSet, Commitments
    <3>3. f[o] = 0
          BY <2>1, <2>2, <2>4
    <3> QED
        BY <2>1, <3>2, <3>3
  <2> QED
      BY <2>3, <2>4
<1>9. SumFunctionOnSet(f, P) = SumFunctionOnSet(g, P)
  <2> HIDE DEF f, g
  <2> QED
      BY <1>2, <1>8, SumSame
<1> QED
    BY <1>6, <1>7, <1>9
-------------------------------------------------------------------------------
(* What an accepted candidate is *)

\* The mined block: its coinbase has outputs of a value, and a height.
MinedOk ==
  /\ IsList(mined) /\ Len(mined) >= 1
  /\ \E outs, height, wit : /\ mined[1] = [base |-> [outs |-> outs, height |-> height], wit |-> wit]
                            /\ IsList(outs) /\ \A i \in DOMAIN outs : outs[i][1] \in Nat

\* What validate_candidate has checked of a candidate under the header.
Valid(c) ==
  LET outs == mined[1].base.outs
  IN /\ \E rest \in Seq(Txs), stack \in Stacks :
          c.txs = <<[base |-> mined[1].base, wit |-> stack]>> \o rest
     /\ TreeOk(Merkle(Txids(mined)), Txids(c.txs)) /\ WitnessOk(c.txs)
     /\ IsList(c.declared) /\ DeclaredOk(outs, c.declared)
     /\ c.direct \in Seq(ToSet(outs)) /\ Consumed(outs, c.direct, c.declared)
     /\ HeightOk(c.txs[1], c.height) /\ Sum(outs) = c.gross
     /\ c.height \in Heights /\ c.gross \in Nat

CandidateInv ==
  /\ accepted # {} => mined # <<>>
  /\ mined # <<>> => MinedOk
  /\ \A c \in accepted : Valid(c)

LEMMA BoundedIsSeq ==
  ASSUME NEW S, NEW n \in Nat, NEW s \in SeqOf(S, n)
  PROVE  s \in Seq(S)
<1>1. PICK m \in 0..n : s \in [1..m -> S]
      BY DEF SeqOf
<1>2. m \in Nat
      OBVIOUS
<1> QED
    BY <1>1, <1>2, SeqDef

\* The first of a list that begins with one, and the rest.
LEMMA Prefixed ==
  ASSUME NEW x, NEW S, NEW rest \in Seq(S)
  PROVE  LET s == <<x>> \o rest
         IN /\ IsList(s) /\ Len(s) = Len(rest) + 1 /\ Len(rest) \in Nat /\ Len(s) >= 1
            /\ DOMAIN s = 1..Len(s) /\ s[1] = x
            /\ \A i \in 1..Len(rest) : i + 1 \in 1..Len(s) /\ s[i + 1] = rest[i]
            /\ \A i \in 1..Len(s) : i > 1 => i - 1 \in 1..Len(rest) /\ s[i] = rest[i - 1]
<1> DEFINE s == <<x>> \o rest
           T == S \cup {x}
           n == Len(rest)
<1>1. <<x>> \in Seq(T) /\ Len(<<x>>) = 1 /\ <<x>>[1] = x
      OBVIOUS
<1>2. rest \in Seq(T) /\ n \in Nat
  <2>1. S \subseteq T
        OBVIOUS
  <2> QED
      BY <2>1, SeqMonotonic, LenProperties
<1> HIDE DEF T
<1>3. /\ s \in Seq(T) /\ Len(s) = 1 + n
      /\ \A i \in 1..(1 + n) : s[i] = IF i <= 1 THEN <<x>>[i] ELSE rest[i - 1]
      BY <1>1, <1>2, ConcatProperties
<1>4. DOMAIN s = 1..Len(s)
      BY <1>3, LenProperties
<1> HIDE DEF s, n
<1>5. Len(s) = n + 1 /\ Len(s) >= 1
      BY <1>2, <1>3
<1>6. s[1] = x
      BY <1>1, <1>2, <1>3
<1>7. ASSUME NEW i \in 1..n PROVE i + 1 \in 1..Len(s) /\ s[i + 1] = rest[i]
  <2>1. i + 1 \in 1..(1 + n) /\ ~ (i + 1 <= 1) /\ (i + 1) - 1 = i
        BY <1>2
  <2> QED
      BY <1>3, <1>5, <2>1
<1>8. ASSUME NEW i \in 1..Len(s), i > 1 PROVE i - 1 \in 1..n /\ s[i] = rest[i - 1]
  <2>1. i \in 1..(1 + n) /\ ~ (i <= 1) /\ i - 1 \in 1..n
        BY <1>2, <1>3, <1>8
  <2> QED
      BY <1>3, <2>1
<1> QED
    BY <1>2, <1>3, <1>4, <1>5, <1>6, <1>7, <1>8 DEF IsList, s, n

LEMMA MineStep ==
  ASSUME CandidateInv, Mine
  PROVE  CandidateInv'
<1>1. PICK rest \in SeqOf(Txs, MaxTxs), stack \in Stacks :
        \E outs \in SeqOf(Outputs(rest, stack), MaxOutputs), height \in Heights :
          mined' = <<[base |-> [outs |-> outs, height |-> height], wit |-> stack]>> \o rest
      BY DEF Mine
<1>2. PICK outs \in SeqOf(Outputs(rest, stack), MaxOutputs), height \in Heights :
        mined' = <<[base |-> [outs |-> outs, height |-> height], wit |-> stack]>> \o rest
      BY <1>1
<1>3. MaxTxs \in Nat /\ MaxOutputs \in Nat
      BY CandidateAssumption
<1>4. rest \in Seq(Txs) /\ outs \in Seq(Outputs(rest, stack))
      BY <1>3, BoundedIsSeq
<1>5. \A i \in DOMAIN outs : outs[i] \in Outputs(rest, stack)
      BY <1>4, LenProperties, ElementOfSeq
<1>6. ASSUME NEW o \in Outputs(rest, stack) PROVE o[1] \in Nat
  <2>1. o \in {<<1, <<p>>>> : p \in Payees}
          \/ o \in {<<v, <<root, IF stack \in {Nil, <<>>} THEN Nil ELSE stack[1]>>>> : v \in {0, 1}, root \in Roots(rest)}
        BY DEF Outputs
  <2> QED
      BY <2>1
<1> DEFINE coin == [base |-> [outs |-> outs, height |-> height], wit |-> stack]
<1> HIDE DEF coin
<1>7. IsList(mined') /\ Len(mined') >= 1 /\ mined'[1] = coin
  <2>1. mined' = <<coin>> \o rest
        BY <1>2 DEF coin
  <2> QED
      BY <1>4, <2>1, Prefixed
<1>8. MinedOk'
      BY <1>4, <1>5, <1>6, <1>7 DEF MinedOk, IsList, coin
<1>9. accepted = {} /\ accepted' = {}
      BY DEF Mine, CandidateInv
<1> QED
    BY <1>8, <1>9 DEF CandidateInv

LEMMA ValidateStep ==
  ASSUME CandidateInv, NEW rest \in SeqOf(Txs, MaxTxs), ValidateCandidate(rest)
  PROVE  CandidateInv'
<1> DEFINE outs == mined[1].base.outs
           txs(stack) == <<[mined[1] EXCEPT !.wit = stack]>> \o rest
<1>1. PICK stack \in Stacks, ds \in SeqOf(Declarations, MaxOutputs - 1),
           direct \in SeqOf(ToSet(outs), MaxOutputs), height \in Heights, gross \in 1..MaxOutputs :
        /\ WitnessOk(txs(stack)) /\ DeclaredOk(outs, ds) /\ Consumed(outs, direct, ds)
        /\ HeightOk(txs(stack)[1], height) /\ Sum(outs) = gross
        /\ accepted' = accepted \cup
             {[txs |-> txs(stack), height |-> height, gross |-> gross, direct |-> direct, declared |-> ds]}
      BY DEF ValidateCandidate
<1>2. mined # <<>> /\ mined' = mined /\ MinedOk
      BY DEF ValidateCandidate, CandidateInv
<1>3. [mined[1] EXCEPT !.wit = stack] = [base |-> mined[1].base, wit |-> stack]
      BY <1>2 DEF MinedOk
<1> DEFINE coin == [base |-> mined[1].base, wit |-> stack]
           t == <<coin>> \o rest
           c == [txs |-> t, height |-> height, gross |-> gross, direct |-> direct, declared |-> ds]
<1>4. txs(stack) = t
      BY <1>3
<1>5. rest \in Seq(Txs) /\ direct \in Seq(ToSet(outs))
  <2>1. MaxTxs \in Nat /\ MaxOutputs \in Nat
        BY CandidateAssumption
  <2> QED
      BY <2>1, BoundedIsSeq
<1>6. IsList(ds)
  <2>1. PICK m \in 0..(MaxOutputs - 1) : ds \in [1..m -> Declarations]
        BY DEF SeqOf
  <2>2. m \in Nat
        BY CandidateAssumption
  <2>3. ds \in Seq(Declarations)
        BY <2>1, <2>2, SeqDef
  <2> QED
      BY <2>3 DEF IsList
<1> HIDE DEF txs
<1>7. Txids(t) = Txids(<<mined[1]>> \o rest)
  <2> DEFINE u == <<mined[1]>> \o rest
  <2>1. /\ DOMAIN t = 1..(Len(rest) + 1) /\ t[1] = coin
        /\ \A i \in 1..(Len(rest) + 1) : i > 1 => t[i] = rest[i - 1]
        BY <1>5, Prefixed
  <2>2. /\ DOMAIN u = 1..(Len(rest) + 1) /\ u[1] = mined[1]
        /\ \A i \in 1..(Len(rest) + 1) : i > 1 => u[i] = rest[i - 1]
        BY <1>5, Prefixed
  <2>3. Len(rest) \in Nat
        BY <1>5, LenProperties
  <2>4. coin.base = mined[1].base
        OBVIOUS
  <2> DEFINE n == Len(rest)
  <2> HIDE DEF t, u, coin, n
  <2>5. ASSUME NEW i \in 1..(n + 1) PROVE t[i].base = u[i].base
    <3>1. CASE i = 1
          BY <2>1, <2>2, <2>4, <3>1
    <3>2. CASE i # 1
      <4>1. i > 1
            BY <2>3, <3>2 DEF n
      <4> QED
          BY <2>1, <2>2, <4>1 DEF n
    <3> QED
        BY <3>1, <3>2
  <2> QED
      BY <2>1, <2>2, <2>5 DEF Txids, Txid, u, n
<1>8. TreeOk(Merkle(Txids(mined)), Txids(t))
      BY <1>7 DEF ValidateCandidate
<1>9. gross \in Nat
      OBVIOUS
<1>10. /\ c.txs = t /\ c.height = height /\ c.gross = gross /\ c.direct = direct /\ c.declared = ds
       OBVIOUS
<1>11. /\ WitnessOk(t) /\ HeightOk(t[1], height) /\ DeclaredOk(outs, ds) /\ Consumed(outs, direct, ds)
       /\ Sum(outs) = gross /\ accepted' = accepted \cup {c}
       BY <1>1, <1>4
<1>12. \E r \in Seq(Txs), k \in Stacks : t = <<[base |-> mined[1].base, wit |-> k]>> \o r
       BY <1>5
<1> HIDE DEF c, t, coin
<1>13. Valid(c)
       BY <1>5, <1>6, <1>8, <1>9, <1>10, <1>11, <1>12 DEF Valid
<1>14. \A a \in accepted \cup {c} : Valid(a)
       BY <1>13 DEF CandidateInv
<1>15. \A a : Valid(a) => Valid(a)'
       BY <1>2 DEF Valid
<1> QED
    BY <1>2, <1>11, <1>14 DEF CandidateInv, Valid, MinedOk

\* Whatever is offered, what is accepted passed every check under the mined block's header.
THEOREM CandidateInvariance == CandidateSpec => []CandidateInv
<1>1. CandidateInit => CandidateInv
      BY DEF CandidateInit, CandidateInv
<1>2. CandidateInv /\ [CandidateNext]_candidateVars => CandidateInv'
  <2> SUFFICES ASSUME CandidateInv, [CandidateNext]_candidateVars PROVE CandidateInv'
      OBVIOUS
  <2>1. CASE Mine
        BY <2>1, MineStep
  <2>2. ASSUME NEW rest \in SeqOf(Txs, MaxTxs), ValidateCandidate(rest) PROVE CandidateInv'
        BY <2>2, ValidateStep
  <2>3. CASE UNCHANGED candidateVars
        BY <2>3 DEF CandidateInv, MinedOk, Valid, candidateVars
  <2> QED
      BY <2>1, <2>2, <2>3 DEF CandidateNext
<1> QED
    BY <1>1, <1>2, PTL DEF CandidateSpec

\* The transactions of a candidate that is valid.
LEMMA ValidTxs ==
  ASSUME NEW c, Valid(c), MinedOk
  PROVE  /\ IsList(c.txs) /\ Len(c.txs) \in Nat /\ Len(c.txs) >= 1 /\ DOMAIN c.txs = 1..Len(c.txs)
         /\ c.txs[1] = [base |-> mined[1].base, wit |-> c.txs[1].wit] /\ c.txs[1].wit \in Stacks
         /\ c.txs[1].base = mined[1].base
         /\ \A i \in DOMAIN c.txs : i > 1 => c.txs[i] \in Txs
<1>1. PICK rest \in Seq(Txs), stack \in Stacks :
        c.txs = <<[base |-> mined[1].base, wit |-> stack]>> \o rest
      BY DEF Valid
<1> DEFINE coin == [base |-> mined[1].base, wit |-> stack]
           t == <<coin>> \o rest
<1>2. coin.base = mined[1].base /\ coin.wit = stack /\ coin = [base |-> mined[1].base, wit |-> coin.wit]
      OBVIOUS
<1> HIDE DEF coin
<1>3. /\ IsList(t) /\ Len(t) = Len(rest) + 1 /\ Len(rest) \in Nat /\ Len(t) >= 1
      /\ DOMAIN t = 1..Len(t) /\ t[1] = coin
      /\ \A i \in 1..Len(t) : i > 1 => i - 1 \in 1..Len(rest) /\ t[i] = rest[i - 1]
      BY Prefixed
<1>4. \A i \in 1..Len(rest) : rest[i] \in Txs
      BY ElementOfSeq
<1>5. Len(t) \in Nat
      BY <1>3
<1>6. c.txs = t
      BY <1>1 DEF coin
<1> HIDE DEF t
<1> QED
    BY <1>2, <1>3, <1>4, <1>5, <1>6

\* What is checked of a candidate has the form the other properties read.
THEOREM CandidateTypeCorrect == CandidateSpec => []CandidateTypeOK
<1>1. CandidateInv => CandidateTypeOK
  <2> SUFFICES ASSUME CandidateInv, NEW c \in accepted
               PROVE  /\ \A i \in DOMAIN c.txs : i > 1 => c.txs[i] \in Txs
                      /\ c.txs[1].wit \in Stacks /\ c.height \in Heights /\ c.gross \in Nat
                      /\ Cardinality({d.index : d \in ToSet(c.declared)}) = Len(c.declared)
      BY DEF CandidateTypeOK, CandidateInv
  <2>1. Valid(c) /\ MinedOk
        BY DEF CandidateInv
  <2>2. Cardinality({d.index : d \in ToSet(c.declared)}) = Len(c.declared)
    <3> DEFINE ds == c.declared
               n == Len(ds)
               D == {d.index : d \in ToSet(ds)}
               f == [i \in 1..n |-> ds[i].index]
    <3>1. n \in Nat /\ DOMAIN ds = 1..n
          BY <2>1, LenProperties DEF Valid, IsList
    <3>2. \A i, j \in 1..n : f[i] = f[j] => i = j
          BY <2>1, <3>1 DEF Valid, DeclaredOk, DeclaredOnce
    <3>3. f \in [1..n -> D] /\ \A z \in D : \E i \in 1..n : f[i] = z
          BY <3>1 DEF ToSet
    <3>4. IsFiniteSet(1..n) /\ Cardinality(1..n) = n
      <4>1. 1 \in Int /\ n \in Int /\ (1 > n => n = 0) /\ n - 1 + 1 = n
            BY <3>1
      <4> QED
          BY <4>1, FS_Interval
    <3> HIDE DEF f, n, D
    <3>5. Cardinality(D) = n
          BY <3>2, <3>3, <3>4, SameNumber
    <3> QED
        BY <3>5 DEF D, n
  <2> QED
      BY <2>1, <2>2, ValidTxs DEF Valid
<1> QED
    BY <1>1, CandidateInvariance, PTL

\* A function on 1..n is a list of its values.
LEMMA ListOf ==
  ASSUME NEW n \in Nat, NEW f, f = [i \in 1..n |-> f[i]]
  PROVE  f \in Seq({f[i] : i \in 1..n}) /\ IsList(f) /\ Len(f) = n /\ DOMAIN f = 1..n
<1> DEFINE T == {f[i] : i \in 1..n}
<1>1. f \in [1..n -> T] /\ DOMAIN f = 1..n
      OBVIOUS
<1> HIDE DEF T
<1>2. f \in Seq(T)
      BY <1>1, SeqDef
<1>3. Len(f) = n
  <2>1. Len(f) \in Nat /\ 1..Len(f) = 1..n
        BY <1>1, <1>2, LenProperties
  <2> DEFINE m == Len(f)
  <2> HIDE DEF m
  <2>2. m \in Nat /\ 1..m = 1..n
        BY <2>1 DEF m
  <2>3. (m >= 1 => m \in 1..n) /\ (n >= 1 => n \in 1..m)
        BY <2>2
  <2>4. m = n
        BY <2>2, <2>3
  <2> QED
      BY <2>4 DEF m
<1> QED
    BY <1>1, <1>2, <1>3 DEF T, IsList

\* Two valid candidates have the same transactions apart from their witnesses.
LEMMA SameBases ==
  ASSUME NEW c, NEW d, Valid(c), Valid(d), MinedOk
  PROVE  Len(c.txs) = Len(d.txs) /\ \A i \in DOMAIN c.txs : c.txs[i].base = d.txs[i].base
<1> DEFINE a == Txids(c.txs)
           b == Txids(d.txs)
           m == Len(c.txs)
           n == Len(d.txs)
<1>1. /\ m \in Nat /\ m >= 1 /\ DOMAIN c.txs = 1..m
      /\ n \in Nat /\ n >= 1 /\ DOMAIN d.txs = 1..n
      BY ValidTxs
<1>2. a = [i \in 1..m |-> Txid(c.txs[i])] /\ b = [i \in 1..n |-> Txid(d.txs[i])]
      BY <1>1 DEF Txids
<1>3. Distinct(a) /\ Distinct(b) /\ Merkle(a) = Merkle(b)
      BY DEF Valid, TreeOk
<1> HIDE DEF a, b, m, n
<1>4. IsList(a) /\ Len(a) = m
  <2>1. a = [i \in 1..m |-> a[i]]
        BY <1>2
  <2> QED
      BY <1>1, <2>1, ListOf
<1>5. IsList(b) /\ Len(b) = n
  <2>1. b = [i \in 1..n |-> b[i]]
        BY <1>2
  <2> QED
      BY <1>1, <2>1, ListOf
<1>6. IsLeaf(a[1]) /\ IsLeaf(b[1])
      BY <1>1, <1>2 DEF IsLeaf, Txid
<1>7. a = b
      BY <1>1, <1>3, <1>4, <1>5, <1>6, TreeInjective DEF Comparable
<1>8. m = n
      BY <1>4, <1>5, <1>7
<1>9. ASSUME NEW i \in 1..m PROVE c.txs[i].base = d.txs[i].base
  <2>1. <<c.txs[i].base>> = <<d.txs[i].base>>
        BY <1>2, <1>7, <1>8 DEF Txid
  <2> QED
      BY <2>1
<1> QED
    BY <1>1, <1>8, <1>9 DEF m, n

\* A commitment binds the witnesses: of one root and one length there is one list of them.
LEMMA SameWitnesses ==
  ASSUME NEW s, NEW t, IsList(s), IsList(t), Len(s) = Len(t), Len(s) >= 1,
         WitnessRoot(s) = WitnessRoot(t)
  PROVE  \A i \in 2..Len(s) : s[i].base = t[i].base /\ s[i].wit = t[i].wit
<1> DEFINE n == Len(s) - 1
           p == [i \in 1..n |-> Full(s[i + 1])]
           q == [i \in 1..n |-> Full(t[i + 1])]
           zero == <<<<Nil>>>>
           a == zero \o p
           b == zero \o q
<1>1. n \in Nat /\ Len(s) = n + 1
  <2>1. Len(s) \in Nat
        BY LenProperties DEF IsList
  <2> QED
      BY <2>1
<1>2. WitnessRoot(s) = Merkle(a) /\ WitnessRoot(t) = Merkle(b)
      BY DEF WitnessRoot
<1> HIDE DEF n
<1>3. p \in Seq({p[i] : i \in 1..n}) /\ Len(p) = n
  <2>1. p = [i \in 1..n |-> p[i]]
        OBVIOUS
  <2> HIDE DEF p
  <2> QED
      BY <1>1, <2>1, ListOf
<1>4. q \in Seq({q[i] : i \in 1..n}) /\ Len(q) = n
  <2>1. q = [i \in 1..n |-> q[i]]
        OBVIOUS
  <2> HIDE DEF q
  <2> QED
      BY <1>1, <2>1, ListOf
<1> HIDE DEF p, q
<1>5. /\ IsList(a) /\ Len(a) = n + 1 /\ Len(a) >= 1 /\ a[1] = <<Nil>>
      /\ \A i \in 1..n : a[i + 1] = p[i]
      BY <1>3, Prefixed
<1>6. /\ IsList(b) /\ Len(b) = n + 1 /\ Len(b) >= 1 /\ b[1] = <<Nil>>
      /\ \A i \in 1..n : b[i + 1] = q[i]
      BY <1>4, Prefixed
<1>7. IsLeaf(<<Nil>>)
      BY DEF IsLeaf
<1> HIDE DEF a, b
<1>8. a = b
      BY <1>2, <1>5, <1>6, <1>7, TreeInjective DEF Comparable
<1>9. ASSUME NEW i \in 1..n PROVE p[i] = Full(s[i + 1]) /\ q[i] = Full(t[i + 1])
       BY DEF p, q
<1>10. ASSUME NEW i \in 2..Len(s) PROVE s[i].base = t[i].base /\ s[i].wit = t[i].wit
  <2>1. i - 1 \in 1..n /\ (i - 1) + 1 = i
        BY <1>1
  <2>2. Full(s[i]) = Full(t[i])
        BY <1>5, <1>6, <1>8, <1>9, <2>1
  <2>3. <<s[i].base, s[i].wit>> = <<t[i].base, t[i].wit>>
    <3>1. <<<<s[i].base, s[i].wit>>>> = <<<<t[i].base, t[i].wit>>>>
          BY <2>2 DEF Full
    <3> QED
        BY <3>1
  <2> QED
      BY <2>3
<1> QED
    BY <1>10

\* What two valid candidates share.
LEMMA SameCandidate ==
  ASSUME NEW c, NEW d, Valid(c), Valid(d), MinedOk
  PROVE  /\ Len(c.txs) = Len(d.txs)
         /\ \A i \in DOMAIN c.txs : i > 1 => c.txs[i] = d.txs[i]
         /\ c.txs[1].wit = d.txs[1].wit \/ c.txs[1].wit[1] = d.txs[1].wit[1]
<1> DEFINE s == c.txs
           t == d.txs
           n == Len(s)
           outs == mined[1].base.outs
           found == Commitments(outs)
<1>1. n \in Nat /\ n >= 1 /\ IsList(s) /\ IsList(t) /\ DOMAIN s = 1..n /\ s[1].base.outs = outs /\ t[1].base.outs = outs
      BY ValidTxs
<1>2. Len(t) = n /\ DOMAIN t = 1..n /\ \A i \in 1..n : s[i].base = t[i].base
      BY <1>1, SameBases, ValidTxs
<1>3. /\ \A i \in 1..n : i > 1 => s[i] \in Txs /\ t[i] \in Txs
      BY <1>1, <1>2, ValidTxs
<1>4. WitnessOk(s) /\ WitnessOk(t)
      BY DEF Valid
<1> HIDE DEF s, t, n, outs
<1>5. CASE found = {}
  <2>1. \A i \in 1..n : s[i].wit = Nil /\ t[i].wit = Nil
        BY <1>1, <1>2, <1>4, <1>5 DEF WitnessOk
  <2>2. \A i \in 1..n : i > 1 => s[i] = t[i]
        BY <1>2, <1>3, <2>1 DEF Txs
  <2>3. 1 \in 1..n
        BY <1>1
  <2> QED
      BY <1>1, <1>2, <2>1, <2>2, <2>3 DEF s, t, n
<1>6. CASE found # {}
  <2>1. Expected(s) = Expected(t)
        BY <1>1, <1>4, <1>6 DEF WitnessOk
  <2>2. <<WitnessRoot(s), s[1].wit[1]>> = <<WitnessRoot(t), t[1].wit[1]>>
        BY <2>1 DEF Expected
  <2>3. WitnessRoot(s) = WitnessRoot(t) /\ s[1].wit[1] = t[1].wit[1]
        BY <2>2
  <2>4. \A i \in 2..n : s[i].base = t[i].base /\ s[i].wit = t[i].wit
        BY <1>1, <1>2, <2>3, SameWitnesses DEF n
  <2>5. \A i \in 1..n : i > 1 => s[i] = t[i]
    <3>1. \A i \in 1..n : i > 1 => i \in 2..n
          BY <1>1
    <3> QED
        BY <1>3, <2>4, <3>1 DEF Txs
  <2> QED
      BY <1>1, <1>2, <2>3, <2>5 DEF s, t, n
<1> QED
    BY <1>5, <1>6

\* How often a valid candidate says an output is paid.
LEMMA ValidPayments ==
  ASSUME NEW c, Valid(c), MinedOk
  PROVE  LET outs == mined[1].base.outs
         IN /\ Sum(c.direct) = c.gross
            /\ \A o : Copies(o, c.direct) = IF CommitmentClass(o[2]) = Nil THEN Copies(o, outs) ELSE 0
<1> DEFINE outs == mined[1].base.outs
<1>1. IsList(outs) /\ \A i \in DOMAIN outs : outs[i][1] \in Nat
      BY DEF MinedOk
<1>2. /\ IsList(c.declared) /\ DeclaredOk(outs, c.declared)
      /\ c.direct \in Seq(ToSet(outs)) /\ Consumed(outs, c.direct, c.declared)
      /\ Sum(outs) = c.gross
      BY DEF Valid
<1>3. IsList(c.direct)
      BY <1>2 DEF IsList
<1> HIDE DEF outs
<1>4. Sum(c.direct) = c.gross
      BY <1>1, <1>2, PaidInFull
<1>5. \A o : Copies(o, c.direct) = IF CommitmentClass(o[2]) = Nil THEN Copies(o, outs) ELSE 0
      BY <1>1, <1>2, <1>3, PaymentsCounted
<1> QED
    BY <1>4, <1>5 DEF outs

\* Everything a candidate is accepted for follows from the header of the mined block:
\* validate_candidate takes no second list of transactions or payments under it.
THEOREM HeaderDeterminesHolds == CandidateSpec => []HeaderDeterminesCandidate
<1>1. CandidateInv => HeaderDeterminesCandidate
  <2> SUFFICES ASSUME CandidateInv, NEW c \in accepted, NEW d \in accepted
               PROVE  /\ Len(c.txs) = Len(d.txs)
                      /\ \A i \in DOMAIN c.txs : i > 1 => c.txs[i] = d.txs[i]
                      /\ c.txs[1].wit = d.txs[1].wit \/ c.txs[1].wit[1] = d.txs[1].wit[1]
                      /\ c.gross = d.gross /\ SameBag(c.direct, d.direct)
                      /\ c.height >= Activation /\ d.height >= Activation => c.height = d.height
      BY DEF HeaderDeterminesCandidate
  <2>1. Valid(c) /\ Valid(d) /\ MinedOk
        BY DEF CandidateInv
  <2>2. c.gross = d.gross
        BY <2>1 DEF Valid
  <2>3. SameBag(c.direct, d.direct)
        BY <2>1, ValidPayments DEF SameBag
  <2>4. c.height >= Activation /\ d.height >= Activation => c.height = d.height
    <3>1. c.txs[1].base = d.txs[1].base
          BY <2>1, ValidTxs
    <3> QED
        BY <2>1, <3>1 DEF Valid, HeightOk
  <2> QED
      BY <2>1, <2>2, <2>3, <2>4, SameCandidate
<1> QED
    BY <1>1, CandidateInvariance, PTL

\* The outputs of the coinbase that are no commitments are what an accepted candidate
\* pays, each once, and together they are the whole gross reward.
THEOREM PaymentsHold == CandidateSpec => []PaymentsAreTheReward
<1>1. CandidateInv => PaymentsAreTheReward
  <2> SUFFICES ASSUME CandidateInv, NEW c \in accepted
               PROVE  LET outs == mined[1].base.outs
                      IN /\ Sum(c.direct) = c.gross
                         /\ \A o \in ToSet(c.direct) \cup ToSet(outs) :
                              Copies(o, c.direct) = IF CommitmentClass(o[2]) = Nil THEN Copies(o, outs) ELSE 0
      BY DEF PaymentsAreTheReward
  <2>1. Valid(c) /\ MinedOk
        BY DEF CandidateInv
  <2> QED
      BY <2>1, ValidPayments
<1> QED
    BY <1>1, CandidateInvariance, PTL
===============================================================================
