------------------------- MODULE Publication_proofs -------------------------
(***************************************************************************)
(* Proofs about publishing, for every schedule of upgrades, expiry delta,  *)
(* confirmation depth, purse, fee, script and text the assumptions allow.  *)
(*                                                                         *)
(* TakenStaysMinable: transactionShell binds a pair to the epoch of its    *)
(* expiry height, and a node takes it only in the epoch of its next block; *)
(* the epochs are equal, so no upgrade lies between, and the epoch is the  *)
(* same at every height in between (IInv).                                 *)
(*                                                                         *)
(* FirstClaimWins: what the index has accepted after any set of inscrip-   *)
(* tions is described without running it (Indexed): the first authorised   *)
(* inscription of each burn, in the canonical order.  The description is   *)
(* proved by induction over the finite sets of inscriptions.               *)
(*                                                                         *)
(* StampsStayCounted: a block, a replaced block or a burn leaves what was  *)
(* already confirmed as the first claim of its burn (PInv, OInv).          *)
(*                                                                         *)
(* PaysItsWay: the publisher's coins are its purse and the change of its   *)
(* mined commits without what those commits spent, no coin of a live pair  *)
(* is spent twice and each pair balances (BInv); so summing the coins      *)
(* gives back the costs of the mined commits.                              *)
(***************************************************************************)
EXTENDS Publication, FiniteSetTheorems, WellFoundedInduction, TLAPS

(* -------------------------- finite sets, sums -------------------------- *)

\* A set of natural numbers that is not empty has a least element.
LEMMA LeastNat ==
  ASSUME NEW T, T \subseteq Nat, T # {}
  PROVE  \E n \in T : \A m \in T : n <= m
<1>1. PICK n \in T : \A m \in T : <<m, n>> \notin OpToRel(<, Nat)
  BY WFMin, NatLessThanWellFounded, Zenon
<1>2. \A m \in T : ~ (m < n)
  <2>1. \A m \in T : <<m, n>> \in Nat \X Nat
    OBVIOUS
  <2>. QED  BY <1>1, <2>1, Zenon DEF OpToRel
<1>. QED  BY <1>2

\* What is left of a finite set is smaller.
LEMMA Smaller ==
  ASSUME NEW s, IsFiniteSet(s), NEW x \in s
  PROVE  /\ IsFiniteSet(s \ {x})
         /\ Cardinality(s) \in Nat /\ Cardinality(s \ {x}) \in Nat
         /\ Cardinality(s \ {x}) = Cardinality(s) - 1
BY FS_RemoveElement, FS_CardinalityType

\* Induction over the subsets of a finite set: a family that has a set when it
\* has every smaller part of it has all of them.
LEMMA SubsetInduction ==
  ASSUME NEW S, IsFiniteSet(S), NEW F,
         \A t \in SUBSET S : (\A u \in SUBSET t : u # t => u \in F) => t \in F
  PROVE  \A t \in SUBSET S : t \in F
<1>. DEFINE Bad == {Cardinality(t) : t \in {u \in SUBSET S : u \notin F}}
<1>1. \A t \in SUBSET S : IsFiniteSet(t) /\ Cardinality(t) \in Nat
  BY FS_Subset, FS_CardinalityType
<1>2. Bad = {}
  <2>. SUFFICES ASSUME Bad # {} PROVE FALSE
    OBVIOUS
  <2>1. Bad \subseteq Nat
    BY <1>1
  <2>2. PICK n \in Bad : \A m \in Bad : n <= m
    BY <2>1, LeastNat
  <2>3. PICK t \in SUBSET S : t \notin F /\ n = Cardinality(t)
    BY <2>2
  <2>4. ASSUME NEW u \in SUBSET t, u # t PROVE u \in F
    <3>1. u \in SUBSET S /\ Cardinality(u) <= n /\ Cardinality(u) # n
      BY <1>1, <2>3, <2>4, FS_Subset
    <3>2. Cardinality(u) \in Nat /\ n \in Nat
      BY <1>1, <2>3, <3>1
    <3>3. Cardinality(u) \notin Bad
      BY <2>2, <3>1, <3>2
    <3>. QED  BY <3>1, <3>3
  <2>. QED  BY <2>3, <2>4
<1>. QED  BY <1>2

\* The same for one set, an element at a time.
LEMMA SetInduction ==
  ASSUME NEW S, IsFiniteSet(S), NEW F, {} \in F,
         \A t \in SUBSET S : \A x \in S \ t : t \in F => t \cup {x} \in F
  PROVE  S \in F
<1>1. ASSUME NEW t \in SUBSET S, \A u \in SUBSET t : u # t => u \in F
      PROVE  t \in F
  <2>1. CASE t = {}
    BY <2>1
  <2>2. CASE t # {}
    <3>1. PICK x \in t : TRUE
      BY <2>2
    <3>2. /\ t \ {x} \in SUBSET S /\ x \in S \ (t \ {x}) /\ (t \ {x}) \cup {x} = t
          /\ t \ {x} \in SUBSET t /\ t \ {x} # t
      BY <3>1
    <3>3. t \ {x} \in F
      BY <1>1, <3>2
    <3>4. (t \ {x}) \cup {x} \in F
      BY <3>2, <3>3
    <3>. QED  BY <3>2, <3>4
  <2>. QED  BY <2>1, <2>2
<1>2. \A t \in SUBSET S : t \in F
  BY <1>1, SubsetInduction
<1>. QED  BY <1>2

\* What a function makes of a finite set is finite.
LEMMA ImageIsFinite ==
  ASSUME NEW S, IsFiniteSet(S), NEW f
  PROVE  IsFiniteSet({f[x] : x \in S})
<1>. DEFINE F == {u \in SUBSET S : IsFiniteSet({f[x] : x \in u})}
<1>1. {} \in F
  <2>1. {f[x] : x \in {}} = {}
    OBVIOUS
  <2>. QED  BY <2>1, FS_EmptySet
<1>2. ASSUME NEW u \in SUBSET S, NEW x \in S \ u, u \in F PROVE u \cup {x} \in F
  <2>1. {f[y] : y \in u \cup {x}} = {f[y] : y \in u} \cup {f[x]}
    OBVIOUS
  <2>2. IsFiniteSet({f[y] : y \in u} \cup {f[x]})
    BY <1>2, FS_AddElement
  <2>. QED  BY <2>1, <2>2
<1>3. S \in F
  <2>. HIDE DEF F
  <2>. QED  BY <1>1, <1>2, SetInduction
<1>. QED  BY <1>3

\* The element of s that a fold over a set takes first.
first(s) == CHOOSE x \in s : TRUE

\* One unfolding of the sum of the weights of s, the rest being g's business.
sumStep(w, g, s) == IF s = {} THEN 0 ELSE w[first(s)] + g[s \ {first(s)}]

\* g gives the sum of the weights of every part of S.
Sums(w, g, S) == g = [s \in SUBSET S |-> sumStep(w, g, s)]

Weights(w, S) == IsFiniteSet(S) /\ \A x \in S : w[x] \in Nat

Agree(w, v, S) == \A x \in S : w[x] = v[x]

\* The sum of the weights of S.
Total(w, S) == SumFunction([x \in S |-> w[x]])

LEMMA FirstIsIn == ASSUME NEW s, s # {} PROVE first(s) \in s
BY DEF first

\* Two solutions agree where the weights do.
LEMMA SumsUnique ==
  ASSUME NEW S, NEW T, S \subseteq T, IsFiniteSet(S), NEW w, NEW v,
         Agree(w, v, S),
         NEW g, Sums(w, g, S), NEW h, Sums(v, h, T)
  PROVE  g[S] = h[S]
<1>. DEFINE F == {u \in SUBSET S : g[u] = h[u]}
<1>1. ASSUME NEW u \in SUBSET S, \A t \in SUBSET u : t # u => t \in F
      PROVE  u \in F
  <2>1. g[u] = sumStep(w, g, u) /\ h[u] = sumStep(v, h, u)
    BY DEF Sums
  <2>2. CASE u = {}
    BY <2>1, <2>2 DEF sumStep
  <2>3. CASE u # {}
    <3>1. first(u) \in u /\ u \ {first(u)} \in SUBSET u /\ u \ {first(u)} # u
      BY <2>3, FirstIsIn
    <3>2. g[u \ {first(u)}] = h[u \ {first(u)}] /\ w[first(u)] = v[first(u)]
      BY <1>1, <3>1 DEF Agree
    <3>. QED  BY <2>1, <2>3, <3>2 DEF sumStep
  <2>. QED  BY <2>2, <2>3
<1>2. \A u \in SUBSET S : u \in F
  <2>. HIDE DEF F
  <2>. QED  BY <1>1, SubsetInduction
<1>. QED  BY <1>2

\* The recursive definition of the sum has a solution.
LEMMA SumsExist ==
  ASSUME NEW w, NEW S, IsFiniteSet(S)
  PROVE  \E g : Sums(w, g, S)
<1>. DEFINE F == {u \in SUBSET S : \E g : Sums(w, g, u)}
            G(u) == CHOOSE g : Sums(w, g, u)
<1>1. ASSUME NEW u \in SUBSET S, \A t \in SUBSET u : t # u => t \in F
      PROVE  u \in F
  <2>1. PICK h : h = [s \in SUBSET u |-> IF s = {} THEN 0
                                         ELSE w[first(s)] + G(s \ {first(s)})[s \ {first(s)}]]
    OBVIOUS
  <2>2. ASSUME NEW s \in SUBSET u, s # u PROVE Sums(w, G(s), s)
    BY <1>1, <2>2
  <2>3. ASSUME NEW s \in SUBSET u, s # u PROVE h[s] = G(s)[s]
    <3>1. G(s)[s] = sumStep(w, G(s), s)
      BY <2>2, <2>3 DEF Sums
    <3>2. CASE s = {}
      BY <2>1, <3>1, <3>2 DEF sumStep
    <3>3. CASE s # {}
      <4>. DEFINE r == s \ {first(s)}
      <4>1. r \subseteq s /\ r \in SUBSET u /\ r # u /\ IsFiniteSet(r)
        BY <2>3, <3>3, FirstIsIn, FS_Subset
      <4>2. Sums(w, G(r), r) /\ Sums(w, G(s), s) /\ Agree(w, w, r)
        BY <2>2, <2>3, <4>1 DEF Agree
      <4>. HIDE DEF r, G
      <4>3. G(r)[r] = G(s)[r]
        BY <4>1, <4>2, SumsUnique
      <4>4. h[s] = w[first(s)] + G(r)[r]
        BY <2>1, <3>3 DEF r
      <4>5. G(s)[s] = w[first(s)] + G(s)[r]
        BY <3>1, <3>3 DEF r, sumStep
      <4>. QED  BY <4>3, <4>4, <4>5
    <3>. QED  BY <3>2, <3>3
  <2>4. ASSUME NEW s \in SUBSET u PROVE h[s] = sumStep(w, h, s)
    <3>1. CASE s = {}
      BY <2>1, <3>1 DEF sumStep
    <3>2. CASE s # {}
      <4>1. s \ {first(s)} \in SUBSET u /\ s \ {first(s)} # u
        BY <3>2, FirstIsIn
      <4>2. h[s \ {first(s)}] = G(s \ {first(s)})[s \ {first(s)}]
        BY <2>3, <4>1
      <4>. HIDE DEF G
      <4>. QED  BY <2>1, <3>2, <4>2 DEF sumStep
    <3>. QED  BY <3>1, <3>2
  <2>5. Sums(w, h, u)
    BY <2>1, <2>4, Zenon DEF Sums
  <2>. QED  BY <2>5
<1>2. \A u \in SUBSET S : u \in F
  <2>. HIDE DEF F
  <2>. QED  BY <1>1, SubsetInduction
<1>. QED  BY <1>2

\* A solution does not depend on the order in which elements are taken.
LEMMA SumsAnyOrder ==
  ASSUME NEW w, NEW S, Weights(w, S), NEW g, Sums(w, g, S)
  PROVE  \A u \in SUBSET S :
           g[u] \in Nat /\ \A x \in u : g[u] = w[x] + g[u \ {x}]
<1>. DEFINE Fine(u) == g[u] \in Nat /\ \A x \in u : g[u] = w[x] + g[u \ {x}]
            F == {u \in SUBSET S : Fine(u)}
<1>1. ASSUME NEW u \in SUBSET S, \A t \in SUBSET u : t # u => t \in F
      PROVE  u \in F
  <2>1. CASE u = {}
    BY <2>1 DEF Sums, sumStep
  <2>2. CASE u # {}
    <3>1. PICK y \in u : g[u] = w[y] + g[u \ {y}]
      BY <2>2, FirstIsIn DEF Sums, sumStep
    <3>2. \A x \in u : Fine(u \ {x}) /\ w[x] \in Nat
      BY <1>1 DEF Weights
    <3>3. g[u] \in Nat
      <4>1. g[u \ {y}] \in Nat /\ w[y] \in Nat
        BY <3>2, Zenon
      <4>. HIDE DEF Fine
      <4>. QED  BY <3>1, <4>1
    <3>4. ASSUME NEW x \in u, x # y PROVE g[u] = w[x] + g[u \ {x}]
      <4>1. x \in u \ {y} /\ y \in u \ {x} /\ (u \ {y}) \ {x} = (u \ {x}) \ {y}
        BY <3>4
      <4>2. /\ g[u \ {y}] = w[x] + g[(u \ {y}) \ {x}]
            /\ g[u \ {x}] = w[y] + g[(u \ {x}) \ {y}]
        BY <3>2, <4>1
      <4>3. g[(u \ {y}) \ {x}] \in Nat
        BY <1>1, <4>1
      <4>. HIDE DEF Fine
      <4>4. w[x] \in Nat /\ w[y] \in Nat
        BY <3>2
      <4>. PICK a, b, c : /\ a = w[x] /\ b = w[y]
                          /\ c = g[(u \ {y}) \ {x}]
        OBVIOUS
      <4>5. c = g[(u \ {x}) \ {y}]
        BY <4>1, Zenon
      <4>6. g[u] = b + (a + c) /\ g[u \ {x}] = b + c
        BY <3>1, <4>2, <4>5
      <4>7. a \in Nat /\ b \in Nat /\ c \in Nat /\ b + (a + c) = a + (b + c)
        BY <4>3, <4>4
      <4>. QED  BY <4>6, <4>7
    <3>. QED  BY <3>1, <3>3, <3>4
  <2>. QED  BY <2>1, <2>2
<1>2. \A u \in SUBSET S : u \in F
  <2>. HIDE DEF F
  <2>1. IsFiniteSet(S)
    BY DEF Weights
  <2>. QED  BY <1>1, <2>1, SubsetInduction
<1>. QED  BY <1>2

\* The sum that a fold computes is such a solution.
LEMMA TotalIsSum ==
  ASSUME NEW w, NEW S, IsFiniteSet(S)
  PROVE  \E v, g : Agree(v, w, S) /\ Sums(v, g, S) /\ Total(w, S) = g[S]
<1>. PICK v : v = [x \in S |-> w[x]]
  OBVIOUS
<1>1. Total(w, S) = SumFunction(v)
  BY DEF Total
<1>2. DOMAIN v = S
  OBVIOUS
<1>3. SumFunction(v) = (CHOOSE g : Sums(v, g, S))[S]
  BY <1>2 DEF SumFunction, SumFunctionOnSet, FoldFunctionOnSet, MapThenFoldSet, Sums, sumStep, first
<1>4. PICK g : g = CHOOSE f : Sums(v, f, S)
  OBVIOUS
<1>5. Sums(v, g, S)
  BY <1>4, SumsExist
<1>6. Agree(v, w, S)
  BY DEF Agree
<1>7. Total(w, S) = g[S]
  BY <1>1, <1>3, <1>4
<1>. QED  BY <1>5, <1>6, <1>7

\* The sum over a set, one element at a time.
LEMMA TotalOfNone == ASSUME NEW w PROVE Total(w, {}) = 0
<1>1. PICK v, g : Sums(v, g, {}) /\ Total(w, {}) = g[{}]
  BY TotalIsSum, FS_EmptySet
<1>. QED  BY <1>1 DEF Sums, sumStep

LEMMA TotalOfLess ==
  ASSUME NEW w, NEW T, Weights(w, T), NEW x \in T
  PROVE  /\ Total(w, T) \in Nat /\ Total(w, T \ {x}) \in Nat
         /\ Total(w, T) = Total(w, T \ {x}) + w[x]
<1>1. IsFiniteSet(T) /\ IsFiniteSet(T \ {x}) /\ T \ {x} \subseteq T /\ T \ {x} \in SUBSET T
  BY Smaller DEF Weights
<1>2. PICK a, g : /\ Agree(a, w, T \ {x}) /\ Sums(a, g, T \ {x})
                  /\ Total(w, T \ {x}) = g[T \ {x}]
  BY <1>1, TotalIsSum
<1>3. PICK b, h : Agree(b, w, T) /\ Sums(b, h, T) /\ Total(w, T) = h[T]
  BY <1>1, TotalIsSum
<1>4. Agree(a, b, T \ {x})
  BY <1>2, <1>3 DEF Agree
<1>5. g[T \ {x}] = h[T \ {x}]
  <2>. PICK u : u = T \ {x}
    OBVIOUS
  <2>1. u \subseteq T /\ IsFiniteSet(u) /\ Agree(a, b, u) /\ Sums(a, g, u)
    BY <1>1, <1>2, <1>4
  <2>2. Sums(b, h, T)
    BY <1>3
  <2>3. g[u] = h[u]
    BY ONLY <2>1, <2>2, SumsUnique
  <2>. QED  BY <2>3
<1>6. Weights(b, T)
  BY <1>3 DEF Weights, Agree
<1>7. \A u \in SUBSET T : h[u] \in Nat /\ \A y \in u : h[u] = b[y] + h[u \ {y}]
  <2>1. Sums(b, h, T)
    BY <1>3
  <2>. QED  BY ONLY <1>6, <2>1, SumsAnyOrder
<1>8. h[T \ {x}] \in Nat /\ h[T] \in Nat /\ h[T] = b[x] + h[T \ {x}]
  BY <1>1, <1>7
<1>9. b[x] = w[x] /\ w[x] \in Nat
  BY <1>3 DEF Weights, Agree
<1>. QED  BY <1>2, <1>3, <1>5, <1>8, <1>9

LEMMA TotalOfMore ==
  ASSUME NEW w, NEW S, Weights(w, S), NEW x, x \notin S, w[x] \in Nat
  PROVE  Total(w, S) \in Nat /\ Total(w, S \cup {x}) = Total(w, S) + w[x]
<1>1. Weights(w, S \cup {x}) /\ x \in S \cup {x} /\ (S \cup {x}) \ {x} = S
  BY FS_AddElement DEF Weights
<1>2. /\ Total(w, (S \cup {x}) \ {x}) \in Nat
      /\ Total(w, S \cup {x}) = Total(w, (S \cup {x}) \ {x}) + w[x]
  BY <1>1, TotalOfLess
<1>. QED  BY <1>1, <1>2

LEMMA TotalOfSame ==
  ASSUME NEW w, NEW v, NEW S, Agree(w, v, S)
  PROVE  Total(w, S) = Total(v, S)
<1>1. [x \in S |-> w[x]] = [x \in S |-> v[x]]
  BY DEF Agree
<1>. QED  BY <1>1 DEF Total

LEMMA TotalIsNat ==
  ASSUME NEW w, NEW S, Weights(w, S)
  PROVE  Total(w, S) \in Nat
<1>1. CASE S = {}
  BY <1>1, TotalOfNone
<1>2. CASE S # {}
  BY <1>2, TotalOfLess
<1>. QED  BY <1>1, <1>2

\* The sum over two sets that have nothing in common.
LEMMA TotalOfUnion ==
  ASSUME NEW w, NEW S, NEW T, Weights(w, S), Weights(w, T), S \cap T = {}
  PROVE  /\ Weights(w, S \cup T)
         /\ Total(w, S) \in Nat /\ Total(w, T) \in Nat
         /\ Total(w, S \cup T) = Total(w, S) + Total(w, T)
<1>1. Weights(w, S \cup T) /\ Total(w, S) \in Nat /\ Total(w, T) \in Nat
  BY TotalIsNat, FS_Union DEF Weights
<1>. DEFINE F == {u \in SUBSET T : Total(w, S \cup u) = Total(w, S) + Total(w, u)}
<1>2. {} \in F
  <2>1. S \cup {} = S /\ Total(w, {}) = 0
    BY TotalOfNone
  <2>. QED  BY <1>1, <2>1
<1>3. ASSUME NEW u \in SUBSET T, NEW x \in T \ u, u \in F PROVE u \cup {x} \in F
  <2>1. Weights(w, u) /\ x \notin u /\ w[x] \in Nat
    BY <1>3, FS_Subset DEF Weights
  <2>2. Total(w, u) \in Nat /\ Total(w, u \cup {x}) = Total(w, u) + w[x]
    BY <2>1, TotalOfMore
  <2>. PICK v : v = S \cup u
    OBVIOUS
  <2>3. Weights(w, v) /\ x \notin v
    BY <1>1, <2>1, FS_Union DEF Weights
  <2>4. Total(w, v) \in Nat /\ Total(w, v \cup {x}) = Total(w, v) + w[x]
    BY <2>1, <2>3, TotalOfMore
  <2>5. v \cup {x} = S \cup (u \cup {x}) /\ u \cup {x} \in SUBSET T
    OBVIOUS
  <2>6. Total(w, v) = Total(w, S) + Total(w, u)
    BY <1>3
  <2>7. Total(w, S \cup (u \cup {x})) = Total(w, S) + Total(w, u \cup {x})
    BY ONLY <1>1, <2>1, <2>2, <2>4, <2>5, <2>6
  <2>. QED  BY <2>5, <2>7
<1>4. T \in F
  <2>1. IsFiniteSet(T)
    BY DEF Weights
  <2>. HIDE DEF F
  <2>. QED  BY <1>2, <1>3, <2>1, SetInduction
<1>. QED  BY <1>1, <1>4

\* Part of a set weighs no more than the whole.
LEMMA TotalOfPart ==
  ASSUME NEW w, NEW S, NEW T, S \subseteq T, Weights(w, T)
  PROVE  /\ Total(w, S) \in Nat /\ Total(w, T) \in Nat
         /\ Total(w, S) <= Total(w, T)
<1>1. /\ Weights(w, S) /\ Weights(w, T \ S)
      /\ S \cap (T \ S) = {} /\ S \cup (T \ S) = T
  BY FS_Subset DEF Weights
<1>2. /\ Total(w, S) \in Nat /\ Total(w, T \ S) \in Nat
      /\ Total(w, S \cup (T \ S)) = Total(w, S) + Total(w, T \ S)
  BY <1>1, TotalOfUnion
<1>3. Total(w, T) = Total(w, S) + Total(w, T \ S)
  BY <1>1, <1>2
<1>. QED  BY <1>2, <1>3

(* -------------------------------- money -------------------------------- *)

\* Smaller weights make a smaller sum.
LEMMA TotalOfSmaller ==
  ASSUME NEW w, NEW v, NEW S, Weights(w, S), Weights(v, S), \A x \in S : w[x] <= v[x]
  PROVE  /\ Total(w, S) \in Nat /\ Total(v, S) \in Nat
         /\ Total(w, S) <= Total(v, S)
<1>. DEFINE F == {u \in SUBSET S : Total(w, u) <= Total(v, u)}
<1>1. {} \in F
  <2>1. Total(w, {}) = 0 /\ Total(v, {}) = 0
    BY TotalOfNone
  <2>. QED  BY <2>1
<1>2. ASSUME NEW u \in SUBSET S, NEW x \in S \ u, u \in F PROVE u \cup {x} \in F
  <2>1. Weights(w, u) /\ Weights(v, u) /\ x \notin u /\ w[x] \in Nat /\ v[x] \in Nat /\ w[x] <= v[x]
    BY FS_Subset DEF Weights
  <2>2. /\ Total(w, u) \in Nat /\ Total(w, u \cup {x}) = Total(w, u) + w[x]
        /\ Total(v, u) \in Nat /\ Total(v, u \cup {x}) = Total(v, u) + v[x]
    BY <2>1, TotalOfMore
  <2>3. Total(w, u) <= Total(v, u)
    BY <1>2
  <2>4. Total(w, u \cup {x}) <= Total(v, u \cup {x})
    BY <2>1, <2>2, <2>3
  <2>. QED  BY <2>4
<1>3. S \in F
  <2>1. IsFiniteSet(S)
    BY DEF Weights
  <2>. HIDE DEF F
  <2>. QED  BY <1>1, <1>2, <2>1, SetInduction
<1>. QED  BY <1>3, TotalIsNat

\* Coins that can be counted.
Money(S) == IsFiniteSet(S) /\ \A c \in S : c.value \in Nat

worth(S) == [c \in S |-> c.value]

LEMMA ValueIsTotal ==
  ASSUME NEW S, NEW T, S \subseteq T
  PROVE  value(S) = Total(worth(T), S)
<1>1. [c \in S |-> worth(T)[c]] = [c \in S |-> c.value]
  BY DEF worth
<1>. QED  BY <1>1 DEF value, Total

LEMMA MoneyWeighs ==
  ASSUME NEW S, NEW T, S \subseteq T, Money(T)
  PROVE  Weights(worth(T), S) /\ Money(S)
BY FS_Subset DEF Money, Weights, worth

LEMMA ValueOfNone == value({}) = 0 /\ Money({})
<1>1. value({}) = Total(worth({}), {})
  BY ValueIsTotal
<1>. QED  BY <1>1, TotalOfNone, FS_EmptySet DEF Money

LEMMA ValueOfUnion ==
  ASSUME NEW S, NEW T, Money(S), Money(T), S \cap T = {}
  PROVE  /\ Money(S \cup T) /\ value(S) \in Nat /\ value(T) \in Nat
         /\ value(S \cup T) = value(S) + value(T)
<1>1. Money(S \cup T)
  BY FS_Union DEF Money
<1>. PICK w : w = worth(S \cup T)
  OBVIOUS
<1>2. Weights(w, S) /\ Weights(w, T)
  BY <1>1, MoneyWeighs
<1>3. value(S) = Total(w, S) /\ value(T) = Total(w, T) /\ value(S \cup T) = Total(w, S \cup T)
  BY ValueIsTotal
<1>4. /\ Total(w, S) \in Nat /\ Total(w, T) \in Nat
      /\ Total(w, S \cup T) = Total(w, S) + Total(w, T)
  BY <1>2, TotalOfUnion
<1>. QED  BY <1>1, <1>3, <1>4

LEMMA ValueOfPart ==
  ASSUME NEW S, NEW T, S \subseteq T, Money(T)
  PROVE  /\ value(S) \in Nat /\ value(T) \in Nat /\ value(T \ S) \in Nat
         /\ value(T) = value(S) + value(T \ S)
         /\ Money(S) /\ Money(T \ S)
<1>1. Money(S) /\ Money(T \ S) /\ S \cap (T \ S) = {} /\ S \cup (T \ S) = T
  BY MoneyWeighs
<1>2. /\ value(S) \in Nat /\ value(T \ S) \in Nat
      /\ value(S \cup (T \ S)) = value(S) + value(T \ S)
  BY <1>1, ValueOfUnion
<1>3. value(T) = value(S) + value(T \ S)
  BY <1>1, <1>2
<1>. QED  BY <1>1, <1>2, <1>3

LEMMA ValueOfOne ==
  ASSUME NEW c, c.value \in Nat
  PROVE  Money({c}) /\ value({c}) = c.value
<1>1. Money({c})
  BY FS_Singleton DEF Money
<1>2. value({c}) = Total(worth({c}), {} \cup {c})
  BY ValueIsTotal
<1>3. Weights(worth({c}), {}) /\ worth({c})[c] = c.value
  BY FS_EmptySet DEF Weights, worth
<1>4. Total(worth({c}), {} \cup {c}) = Total(worth({c}), {}) + worth({c})[c]
  BY <1>3, TotalOfMore
<1>5. Total(worth({c}), {}) = 0
  BY TotalOfNone
<1>. QED  BY <1>1, <1>2, <1>3, <1>4, <1>5

LEMMA ValueOfMember ==
  ASSUME NEW S, Money(S), NEW c \in S
  PROVE  c.value \in Nat /\ c.value <= value(S)
<1>1. c.value \in Nat
  BY DEF Money
<1>2. value({c}) = c.value
  BY <1>1, ValueOfOne
<1>3. value({c}) \in Nat /\ value(S \ {c}) \in Nat /\ value(S) = value({c}) + value(S \ {c})
  BY ValueOfPart
<1>. QED  BY <1>1, <1>2, <1>3

(* --------------------------------- fees -------------------------------- *)

LEMMA MaxOfTwo ==
  ASSUME NEW a \in Int, NEW b \in Int
  PROVE  Max({a, b}) = IF a >= b THEN a ELSE b
<1>. PICK m : m = IF a >= b THEN a ELSE b
  OBVIOUS
<1>1. m \in {a, b} /\ \A x \in {a, b} : m >= x
  OBVIOUS
<1>2. \A n \in {a, b} : (\A x \in {a, b} : n >= x) => n = m
  OBVIOUS
<1>3. Max({a, b}) \in {a, b} /\ \A x \in {a, b} : Max({a, b}) >= x
  BY <1>1, Zenon DEF Max
<1>. QED  BY <1>2, <1>3

LEMMA MoreTimesMore ==
  ASSUME NEW m \in Nat, NEW a \in Nat, NEW b \in Nat, a <= b
  PROVE  m * a \in Nat /\ m * b \in Nat /\ m * a <= m * b
OBVIOUS

LEMMA SizeIsNat ==
  ASSUME NEW a \in Nat
  PROVE  inputSize(a) \in Nat /\ outputSize(a) \in Nat
<1>1. compactSize(a) \in {1, 3}
  BY DEF compactSize
<1>. HIDE DEF compactSize
<1>. QED  BY <1>1 DEF inputSize, outputSize

LEMMA LongerIsLarger ==
  ASSUME NEW a \in Nat, NEW b \in Nat, a <= b
  PROVE  inputSize(a) <= inputSize(b)
<1>1. compactSize(a) \in {1, 3} /\ compactSize(b) \in {1, 3} /\ compactSize(a) <= compactSize(b)
  BY DEF compactSize
<1>. HIDE DEF compactSize
<1>. QED  BY <1>1 DEF inputSize

\* Sizes that a fee can be computed from.
Sizes(s) == \E n \in Nat : s \in [1 .. n -> Nat]

sizeIn(s) == [i \in DOMAIN s |-> inputSize(s[i])]
sizeOut(s) == [i \in DOMAIN s |-> outputSize(s[i])]

LEMMA SizesWeigh ==
  ASSUME NEW s, Sizes(s)
  PROVE  /\ Weights(sizeIn(s), DOMAIN s) /\ Weights(sizeOut(s), DOMAIN s)
         /\ Total(sizeIn(s), DOMAIN s) \in Nat /\ Total(sizeOut(s), DOMAIN s) \in Nat
         /\ SumFunction([i \in DOMAIN s |-> inputSize(s[i])]) = Total(sizeIn(s), DOMAIN s)
         /\ SumFunction([i \in DOMAIN s |-> outputSize(s[i])]) = Total(sizeOut(s), DOMAIN s)
<1>1. PICK n \in Nat : s \in [1 .. n -> Nat]
  BY DEF Sizes
<1>2. IsFiniteSet(DOMAIN s)
  BY <1>1, FS_Interval
<1>3. \A i \in DOMAIN s : inputSize(s[i]) \in Nat /\ outputSize(s[i]) \in Nat
  <2>1. \A i \in DOMAIN s : s[i] \in Nat
    BY <1>1
  <2>. QED  BY <2>1, SizeIsNat
<1>4. Weights(sizeIn(s), DOMAIN s) /\ Weights(sizeOut(s), DOMAIN s)
  BY <1>2, <1>3 DEF Weights, sizeIn, sizeOut
<1>5. /\ [i \in DOMAIN s |-> sizeIn(s)[i]] = [i \in DOMAIN s |-> inputSize(s[i])]
      /\ [i \in DOMAIN s |-> sizeOut(s)[i]] = [i \in DOMAIN s |-> outputSize(s[i])]
  BY DEF sizeIn, sizeOut
<1>6. /\ SumFunction([i \in DOMAIN s |-> inputSize(s[i])]) = Total(sizeIn(s), DOMAIN s)
      /\ SumFunction([i \in DOMAIN s |-> outputSize(s[i])]) = Total(sizeOut(s), DOMAIN s)
  BY <1>5 DEF Total
<1>. QED  BY <1>4, <1>6, TotalIsNat

\* What the fee counts.
actions(a, b) ==
  Max({Max({divCeil(a, P2PKH_STANDARD_INPUT_SIZE), divCeil(b, P2PKH_STANDARD_OUTPUT_SIZE)}),
       GRACE_ACTIONS})

LEMMA FeeOfSizes ==
  ASSUME NEW ins, Sizes(ins), NEW outs, Sizes(outs)
  PROVE  conventionalFee(ins, outs)
           = MARGINAL_FEE * actions(Total(sizeIn(ins), DOMAIN ins), Total(sizeOut(outs), DOMAIN outs))
BY SizesWeigh DEF conventionalFee, logicalActions, actions

LEMMA ActionsGrow ==
  ASSUME NEW a \in Nat, NEW b \in Nat, NEW c \in Nat, a <= b
  PROVE  actions(a, c) \in Nat /\ actions(b, c) \in Nat /\ actions(a, c) <= actions(b, c)
<1>. PICK x, y, z : /\ x = divCeil(a, P2PKH_STANDARD_INPUT_SIZE) /\ y = divCeil(b, P2PKH_STANDARD_INPUT_SIZE)
                    /\ z = divCeil(c, P2PKH_STANDARD_OUTPUT_SIZE)
  OBVIOUS
<1>1. x \in Nat /\ y \in Nat /\ x <= y /\ z \in Nat
  BY DEF divCeil, P2PKH_STANDARD_INPUT_SIZE, P2PKH_STANDARD_OUTPUT_SIZE
<1>2. Max({x, z}) = (IF x >= z THEN x ELSE z) /\ Max({y, z}) = (IF y >= z THEN y ELSE z)
  BY <1>1, MaxOfTwo
<1>3. Max({x, z}) \in Nat /\ Max({y, z}) \in Nat /\ Max({x, z}) <= Max({y, z})
  BY <1>1, <1>2
<1>. PICK p, q : p = Max({x, z}) /\ q = Max({y, z})
  OBVIOUS
<1>6. p \in Int /\ q \in Int /\ 2 \in Int
  BY <1>3
<1>4. Max({p, 2}) = (IF p >= 2 THEN p ELSE 2) /\ Max({q, 2}) = (IF q >= 2 THEN q ELSE 2)
  BY ONLY <1>6, MaxOfTwo
<1>7. p \in Nat /\ q \in Nat /\ p <= q
  BY <1>3
<1>8. Max({p, 2}) \in Nat /\ Max({q, 2}) \in Nat /\ Max({p, 2}) <= Max({q, 2})
  BY ONLY <1>4, <1>7
<1>5. actions(a, c) = Max({p, 2}) /\ actions(b, c) = Max({q, 2})
  BY DEF actions, GRACE_ACTIONS
<1>. QED  BY <1>5, <1>8

\* Fees are amounts, and longer inputs pay no less.
LEMMA FeesGrow ==
  ASSUME NEW n \in Nat, NEW a \in [1 .. n -> Nat], NEW b \in [1 .. n -> Nat],
         \A i \in 1 .. n : a[i] <= b[i], NEW outs, Sizes(outs)
  PROVE  /\ conventionalFee(a, outs) \in Nat /\ conventionalFee(b, outs) \in Nat
         /\ conventionalFee(a, outs) <= conventionalFee(b, outs)
<1>1. Sizes(a) /\ Sizes(b) /\ DOMAIN a = 1 .. n /\ DOMAIN b = 1 .. n
  BY DEF Sizes
<1>. PICK ta, tb, tc : /\ ta = Total(sizeIn(a), 1 .. n) /\ tb = Total(sizeIn(b), 1 .. n)
                       /\ tc = Total(sizeOut(outs), DOMAIN outs)
  OBVIOUS
<1>2. /\ Weights(sizeIn(a), 1 .. n) /\ Weights(sizeIn(b), 1 .. n)
      /\ ta \in Nat /\ tb \in Nat /\ tc \in Nat
  BY <1>1, SizesWeigh
<1>3. \A i \in 1 .. n : sizeIn(a)[i] <= sizeIn(b)[i]
  <2>1. ASSUME NEW i \in 1 .. n PROVE inputSize(a[i]) <= inputSize(b[i])
    <3>1. a[i] \in Nat /\ b[i] \in Nat /\ a[i] <= b[i]
      OBVIOUS
    <3>. QED  BY ONLY <3>1, LongerIsLarger
  <2>. QED  BY <1>1, <2>1 DEF sizeIn
<1>4. ta <= tb
  BY <1>2, <1>3, TotalOfSmaller
<1>5. actions(ta, tc) \in Nat /\ actions(tb, tc) \in Nat /\ actions(ta, tc) <= actions(tb, tc)
  BY <1>2, <1>4, ActionsGrow
<1>6. /\ conventionalFee(a, outs) = MARGINAL_FEE * actions(ta, tc)
      /\ conventionalFee(b, outs) = MARGINAL_FEE * actions(tb, tc)
  BY <1>1, FeeOfSizes
<1>7. MARGINAL_FEE \in Nat
  BY InscribeAssumption
<1>8. /\ MARGINAL_FEE * actions(ta, tc) \in Nat /\ MARGINAL_FEE * actions(tb, tc) \in Nat
      /\ MARGINAL_FEE * actions(ta, tc) <= MARGINAL_FEE * actions(tb, tc)
  BY ONLY <1>5, <1>7, MoreTimesMore
<1>. QED  BY <1>6, <1>8

LEMMA FeeIsNat ==
  ASSUME NEW ins, Sizes(ins), NEW outs, Sizes(outs)
  PROVE  conventionalFee(ins, outs) \in Nat
<1>1. PICK n \in Nat : ins \in [1 .. n -> Nat]
  BY DEF Sizes
<1>2. \A i \in 1 .. n : ins[i] <= ins[i]
  BY <1>1
<1>. QED  BY <1>1, <1>2, FeesGrow

LEMMA SizesOfOutputs ==
  /\ Sizes(<<P2SH_SCRIPT>>) /\ Sizes(<<P2PKH_SCRIPT>>) /\ Sizes(<<P2SH_SCRIPT, P2PKH_SCRIPT>>)
BY DEF Sizes, P2SH_SCRIPT, P2PKH_SCRIPT

\* The grace actions cover a change output: it does not raise the fee.
LEMMA ChangeIsFree ==
  ASSUME NEW ins, Sizes(ins)
  PROVE  conventionalFee(ins, <<P2SH_SCRIPT, P2PKH_SCRIPT>>) = conventionalFee(ins, <<P2SH_SCRIPT>>)
<1>. PICK one, two, t : /\ one = <<P2SH_SCRIPT>> /\ two = <<P2SH_SCRIPT, P2PKH_SCRIPT>>
                        /\ t = Total(sizeIn(ins), DOMAIN ins)
  OBVIOUS
<1>1. DOMAIN one = {1} /\ DOMAIN two = {1} \cup {2} /\ Sizes(one) /\ Sizes(two)
  BY SizesOfOutputs
<1>2. sizeOut(one)[1] = 32 /\ sizeOut(two)[1] = 32 /\ sizeOut(two)[2] = 34
  BY DEF sizeOut, outputSize, compactSize, P2SH_SCRIPT, P2PKH_SCRIPT
<1>3. Weights(sizeOut(one), {}) /\ Weights(sizeOut(two), {}) /\ Weights(sizeOut(two), {1})
  <2>1. IsFiniteSet({}) /\ IsFiniteSet({1})
    BY FS_EmptySet, FS_Singleton
  <2>2. sizeOut(two)[1] \in Nat
    BY <1>2
  <2>. QED  BY ONLY <2>1, <2>2 DEF Weights
<1>4. Total(sizeOut(one), {}) = 0 /\ Total(sizeOut(two), {}) = 0
  BY TotalOfNone
<1>5. Total(sizeOut(one), {} \cup {1}) = 32 /\ Total(sizeOut(two), {} \cup {1}) = 32
  BY <1>2, <1>3, <1>4, TotalOfMore
<1>6. Total(sizeOut(two), {1} \cup {2}) = 66
  <2>1. {} \cup {1} = {1} /\ 2 \notin {1}
    OBVIOUS
  <2>2. Total(sizeOut(two), {1} \cup {2}) = Total(sizeOut(two), {1}) + sizeOut(two)[2]
    BY <1>2, <1>3, <2>1, TotalOfMore
  <2>. QED  BY <1>2, <1>5, <2>1, <2>2
<1>7. Total(sizeOut(one), DOMAIN one) = 32 /\ Total(sizeOut(two), DOMAIN two) = 66
  <2>1. {} \cup {1} = {1}
    OBVIOUS
  <2>. QED  BY <1>1, <1>5, <1>6, <2>1
<1>8. t \in Nat
  BY SizesWeigh
<1>9. actions(t, 32) = actions(t, 66)
  <2>. PICK x : x = divCeil(t, P2PKH_STANDARD_INPUT_SIZE)
    OBVIOUS
  <2>1. /\ x \in Nat /\ divCeil(32, P2PKH_STANDARD_OUTPUT_SIZE) = 1
        /\ divCeil(66, P2PKH_STANDARD_OUTPUT_SIZE) = 2
    BY <1>8 DEF divCeil, P2PKH_STANDARD_INPUT_SIZE, P2PKH_STANDARD_OUTPUT_SIZE
  <2>2. Max({x, 1}) = (IF x >= 1 THEN x ELSE 1) /\ Max({x, 2}) = (IF x >= 2 THEN x ELSE 2)
    BY <2>1, MaxOfTwo
  <2>. PICK p, q : p = Max({x, 1}) /\ q = Max({x, 2})
    OBVIOUS
  <2>3. Max({p, 2}) = (IF p >= 2 THEN p ELSE 2) /\ Max({q, 2}) = (IF q >= 2 THEN q ELSE 2)
    BY <2>1, <2>2, MaxOfTwo
  <2>4. Max({p, 2}) = Max({q, 2})
    BY <2>1, <2>2, <2>3
  <2>. QED  BY <2>1, <2>4 DEF actions, GRACE_ACTIONS
<1>10. /\ conventionalFee(ins, one) = MARGINAL_FEE * actions(t, 32)
       /\ conventionalFee(ins, two) = MARGINAL_FEE * actions(t, 66)
  BY <1>1, <1>7, FeeOfSizes
<1>. QED  BY <1>9, <1>10

(* ------------------------------- lengths ------------------------------- *)

\* Induction on the natural numbers, for a set.
LEMMA NatStepInduction ==
  ASSUME NEW F, 0 \in F, \A n \in Nat : n \in F => n + 1 \in F
  PROVE  \A n \in Nat : n \in F
<1>. DEFINE Bad == {n \in Nat : n \notin F}
<1>1. Bad = {}
  <2>. SUFFICES ASSUME Bad # {} PROVE FALSE
    OBVIOUS
  <2>1. PICK n \in Bad : \A m \in Bad : n <= m
    <3>1. Bad \subseteq Nat
      OBVIOUS
    <3>. HIDE DEF Bad
    <3>. QED  BY <3>1, LeastNat
  <2>2. n \in Nat /\ n # 0 /\ n - 1 \in Nat /\ (n - 1) + 1 = n
    BY <2>1
  <2>3. n - 1 \notin Bad
    BY <2>1, <2>2
  <2>4. n - 1 \in F
    BY <2>2, <2>3
  <2>5. n \in F
    BY <2>2, <2>4
  <2>. QED  BY <2>1, <2>5
<1>. QED  BY <1>1

LEMMA NatBelowInduction ==
  ASSUME NEW F, \A n \in Nat : (\A m \in Nat : m < n => m \in F) => n \in F
  PROVE  \A n \in Nat : n \in F
<1>. DEFINE Bad == {n \in Nat : n \notin F}
<1>1. Bad = {}
  <2>. SUFFICES ASSUME Bad # {} PROVE FALSE
    OBVIOUS
  <2>1. PICK n \in Bad : \A m \in Bad : n <= m
    <3>1. Bad \subseteq Nat
      OBVIOUS
    <3>. HIDE DEF Bad
    <3>. QED  BY <3>1, LeastNat
  <2>2. n \in Nat /\ n \notin F
    BY <2>1
  <2>3. ASSUME NEW m \in Nat, m < n PROVE m \in F
    BY <2>1, <2>2, <2>3
  <2>. QED  BY <2>2, <2>3
<1>. QED  BY <1>1

\* How many digits a number has, one unfolding at a time.
digitStep(g, n) == IF n < 10 THEN 1 ELSE 1 + g[n \div 10]
DigitsTo(g, n) == g = [m \in 0 .. n |-> digitStep(g, m)]

LEMMA TenthIsLess ==
  ASSUME NEW n \in Nat, ~ (n < 10)
  PROVE  n \div 10 \in Nat /\ n \div 10 < n
OBVIOUS

LEMMA DigitsToExist ==
  ASSUME NEW n \in Nat
  PROVE  \E g : DigitsTo(g, n)
<1>. DEFINE F == {m \in Nat : \E g : DigitsTo(g, m)}
<1>1. 0 \in F
  <2>. PICK g : g = [m \in 0 .. 0 |-> 1]
    OBVIOUS
  <2>1. DigitsTo(g, 0)
    BY DEF DigitsTo, digitStep
  <2>. QED  BY <2>1
<1>2. ASSUME NEW m \in Nat, m \in F PROVE m + 1 \in F
  <2>1. PICK g : DigitsTo(g, m)
    BY <1>2
  <2>2. PICK h : h = [i \in 0 .. m + 1 |-> IF i <= m THEN g[i] ELSE digitStep(g, i)]
    OBVIOUS
  <2>3. \A i \in 0 .. m : h[i] = g[i] /\ g[i] = digitStep(g, i)
    BY <2>1, <2>2 DEF DigitsTo
  <2>4. ASSUME NEW i \in 0 .. m + 1 PROVE h[i] = digitStep(h, i)
    <3>3. h[i] = digitStep(g, i)
      BY <2>2, <2>3
    <3>1. CASE i < 10
      BY <3>1, <3>3 DEF digitStep
    <3>2. CASE ~ (i < 10)
      <4>1. i \div 10 \in Nat /\ i \div 10 < i
        BY <3>2, TenthIsLess
      <4>2. i \div 10 \in 0 .. m
        BY <4>1
      <4>3. h[i \div 10] = g[i \div 10]
        BY <2>3, <4>2
      <4>. QED  BY <3>2, <3>3, <4>3 DEF digitStep
    <3>. QED  BY <3>1, <3>2
  <2>5. DigitsTo(h, m + 1)
    BY <2>2, <2>4, Zenon DEF DigitsTo
  <2>. QED  BY <2>5
<1>3. \A m \in Nat : m \in F
  <2>. HIDE DEF F
  <2>. QED  BY <1>1, <1>2, NatStepInduction
<1>. QED  BY <1>3

LEMMA DigitsToUnique ==
  ASSUME NEW n \in Nat, NEW g, DigitsTo(g, n), NEW m \in Nat, NEW h, DigitsTo(h, m)
  PROVE  \A i \in Nat : i <= n /\ i <= m => g[i] = h[i] /\ g[i] \in Nat
<1>. DEFINE F == {i \in Nat : i <= n /\ i <= m => g[i] = h[i] /\ g[i] \in Nat}
<1>1. ASSUME NEW i \in Nat, \A j \in Nat : j < i => j \in F PROVE i \in F
  <2>. SUFFICES ASSUME i <= n, i <= m PROVE g[i] = h[i] /\ g[i] \in Nat
    OBVIOUS
  <2>0. i \in 0 .. n /\ i \in 0 .. m
    OBVIOUS
  <2>1. g[i] = digitStep(g, i) /\ h[i] = digitStep(h, i)
    BY <2>0 DEF DigitsTo
  <2>2. CASE i < 10
    BY <2>1, <2>2 DEF digitStep
  <2>3. CASE ~ (i < 10)
    <3>1. i \div 10 \in Nat /\ i \div 10 < i
      BY <2>3, TenthIsLess
    <3>2. g[i \div 10] = h[i \div 10] /\ g[i \div 10] \in Nat
      BY <1>1, <3>1
    <3>. QED  BY <2>1, <2>3, <3>2 DEF digitStep
  <2>. QED  BY <2>2, <2>3
<1>2. \A i \in Nat : i \in F
  <2>. HIDE DEF F
  <2>. QED  BY <1>1, NatBelowInduction
<1>. QED  BY <1>2

LEMMA DigitsAreNat == \A n \in Nat : digits[n] \in Nat
<1>. DEFINE G(n) == CHOOSE g : DigitsTo(g, n)
<1>1. \A n \in Nat : DigitsTo(G(n), n)
  BY DigitsToExist
<1>2. PICK h : h = [n \in Nat |-> G(n)[n]]
  OBVIOUS
<1>3. ASSUME NEW n \in Nat PROVE h[n] = digitStep(h, n) /\ h[n] \in Nat
  <2>1. DigitsTo(G(n), n)
    BY <1>1
  <2>. HIDE DEF G
  <2>2. h[n] = G(n)[n] /\ G(n)[n] = digitStep(G(n), n)
    BY <1>2, <2>1 DEF DigitsTo
  <2>3. G(n)[n] \in Nat
    BY <2>1, DigitsToUnique
  <2>4. CASE n < 10
    BY <2>2, <2>3, <2>4 DEF digitStep
  <2>5. CASE ~ (n < 10)
    <3>. PICK m : m = n \div 10
      OBVIOUS
    <3>1. m \in Nat /\ m <= n /\ m <= m
      BY <2>5, TenthIsLess
    <3>2. DigitsTo(G(m), m)
      BY <1>1, <3>1
    <3>3. G(n)[m] = G(m)[m]
      BY <2>1, <3>1, <3>2, DigitsToUnique
    <3>4. h[m] = G(m)[m]
      BY <1>2, <3>1
    <3>. QED  BY <2>2, <2>3, <2>5, <3>3, <3>4 DEF digitStep
  <2>. QED  BY <2>4, <2>5
<1>4. h = [n \in Nat |-> IF n < 10 THEN 1 ELSE 1 + h[n \div 10]]
  <2>. HIDE DEF G
  <2>1. h = [n \in Nat |-> digitStep(h, n)]
    BY <1>2, <1>3
  <2>. QED  BY <2>1, Zenon DEF digitStep
<1>5. digits = [n \in Nat |-> IF n < 10 THEN 1 ELSE 1 + digits[n \div 10]]
  BY <1>4, Zenon DEF digits
<1>. DEFINE F == {n \in Nat : digits[n] \in Nat}
<1>7. ASSUME NEW n \in Nat, \A m \in Nat : m < n => m \in F PROVE n \in F
  <2>1. digits[n] = IF n < 10 THEN 1 ELSE 1 + digits[n \div 10]
    BY <1>5
  <2>2. CASE n < 10
    BY <2>1, <2>2
  <2>3. CASE ~ (n < 10)
    <3>1. n \div 10 \in F
      BY <1>7, <2>3, TenthIsLess
    <3>. QED  BY <2>1, <2>3, <3>1
  <2>. QED  BY <2>2, <2>3
<1>8. \A n \in Nat : n \in F
  <2>. HIDE DEF F
  <2>. QED  BY <1>7, NatBelowInduction
<1>. QED  BY <1>8

(* ------------------------------- scripts ------------------------------- *)

LEMMA ConcatBytes ==
  ASSUME NEW a \in Seq(Nat), NEW b \in Seq(Nat)
  PROVE  a \o b \in Seq(Nat) /\ Len(a \o b) = Len(a) + Len(b) /\ Len(a) \in Nat /\ Len(b) \in Nat
OBVIOUS

LEMMA OneByte ==
  ASSUME NEW b \in Nat
  PROVE  <<b>> \in Seq(Nat) /\ Len(<<b>>) = 1
OBVIOUS

LEMMA FilledBytes ==
  ASSUME NEW n \in Nat, NEW f \in [1 .. n -> Nat]
  PROVE  f \in Seq(Nat) /\ Len(f) = n
OBVIOUS

\* A short push is a header of one or two bytes and the bytes themselves.
pushBytes(n) == IF n < 76 THEN n + 1 ELSE n + 2

LEMMA PushIsBytes ==
  ASSUME NEW b \in Seq(Nat), Len(b) < 256
  PROVE  pushData(b) \in Seq(Nat) /\ Len(pushData(b)) = pushBytes(Len(b))
<1>. PICK n : n = Len(b)
  OBVIOUS
<1>1. CASE n < 76
  <2>1. pushData(b) = <<n>> \o b
    <3>1. Len(b) < OP_PUSHDATA1
      BY <1>1 DEF OP_PUSHDATA1
    <3>2. pushData(b) = <<Len(b)>> \o b
      BY <3>1, Zenon DEF pushData
    <3>. QED  BY <3>2
  <2>2. <<n>> \in Seq(Nat) /\ Len(<<n>>) = 1
    BY OneByte
  <2>. PICK h : h = <<n>>
    OBVIOUS
  <2>3. h \o b \in Seq(Nat) /\ Len(h \o b) = 1 + n
    BY <2>2, ConcatBytes
  <2>. QED  BY <1>1, <2>1, <2>3, SMT DEF pushBytes
<1>2. CASE ~(n < 76)
  <2>1. pushData(b) = <<76, n>> \o b
    <3>1. ~(Len(b) < OP_PUSHDATA1) /\ Len(b) <= 255
      BY <1>2 DEF OP_PUSHDATA1
    <3>2. pushData(b) = <<OP_PUSHDATA1, Len(b)>> \o b
      BY <3>1, Zenon DEF pushData
    <3>. QED  BY <3>2 DEF OP_PUSHDATA1
  <2>2. <<76, n>> \in Seq(Nat) /\ Len(<<76, n>>) = 2
    OBVIOUS
  <2>. PICK h : h = <<76, n>>
    OBVIOUS
  <2>3. h \o b \in Seq(Nat) /\ Len(h \o b) = 2 + n
    BY <2>2, ConcatBytes
  <2>. QED  BY <1>2, <2>1, <2>3, SMT DEF pushBytes
<1>. QED  BY <1>1, <1>2

LEMMA ConcatThree ==
  ASSUME NEW a \in Seq(Nat), NEW b \in Seq(Nat), NEW c \in Seq(Nat)
  PROVE  a \o b \o c \in Seq(Nat) /\ Len(a \o b \o c) = Len(a) + Len(b) + Len(c)
<1>1. a \o b \in Seq(Nat) /\ Len(a \o b) = Len(a) + Len(b)
  BY ConcatBytes
<1>. QED  BY <1>1, ConcatBytes

LEMMA KeyIsBytes == pushData(PublicKey) \in Seq(Nat) /\ Len(pushData(PublicKey)) = 34
<1>1. PublicKey \in Seq(Nat) /\ Len(PublicKey) = 33
  <2>1. PublicKey \in [1 .. 33 -> Nat]
    BY DEF PublicKey
  <2>. QED  BY <2>1, FilledBytes
<1>2. Len(PublicKey) < 256 /\ pushBytes(Len(PublicKey)) = 34
  BY <1>1 DEF pushBytes
<1>. QED  BY <1>1, <1>2, PushIsBytes

LEMMA CommitmentIsBytes ==
  ASSUME NEW k \in Texts
  PROVE  pushData(Commitment(k)) \in Seq(Nat) /\ Len(pushData(Commitment(k))) = 33
<1>1. 1000 * k + 500 \in Nat
  BY EnvelopeAssumption
<1>2. Commitment(k) \in Seq(Nat) /\ Len(Commitment(k)) = 32
  <2>1. Commitment(k) \in [1 .. 32 -> Nat]
    BY <1>1 DEF Commitment
  <2>. QED  BY <2>1, FilledBytes
<1>3. Len(Commitment(k)) < 256 /\ pushBytes(Len(Commitment(k))) = 33
  BY <1>2 DEF pushBytes
<1>. QED  BY <1>2, <1>3, PushIsBytes

LEMMA RedeemIsBytes ==
  ASSUME NEW k \in Texts
  PROVE  inscriptionRedeemScript(k) \in Seq(Nat) /\ Len(inscriptionRedeemScript(k)) = 77
<1>. DEFINE d == [i \in 1 .. INSCRIPTION_DROPS |-> OP_DROP]
<1>1. d \in Seq(Nat) /\ Len(d) = 8
  <2>1. d \in [1 .. 8 -> Nat]
    BY DEF INSCRIPTION_DROPS, OP_DROP
  <2>. QED  BY <2>1, FilledBytes
<1>2. /\ <<OP_CHECKSIGVERIFY>> \in Seq(Nat) /\ Len(<<OP_CHECKSIGVERIFY>>) = 1
      /\ <<OP_1>> \in Seq(Nat) /\ Len(<<OP_1>>) = 1
  BY OneByte DEF OP_CHECKSIGVERIFY, OP_1
<1>3. inscriptionRedeemScript(k)
        = pushData(PublicKey) \o <<OP_CHECKSIGVERIFY>> \o pushData(Commitment(k)) \o d \o <<OP_1>>
  BY Zenon DEF inscriptionRedeemScript
<1>0. PICK a, b, c, f, e : /\ a = pushData(PublicKey) /\ b = <<OP_CHECKSIGVERIFY>>
                           /\ c = pushData(Commitment(k)) /\ f = d /\ e = <<OP_1>>
  OBVIOUS
<1>4. /\ a \in Seq(Nat) /\ Len(a) = 34 /\ b \in Seq(Nat) /\ Len(b) = 1
      /\ c \in Seq(Nat) /\ Len(c) = 33 /\ f \in Seq(Nat) /\ Len(f) = 8
      /\ e \in Seq(Nat) /\ Len(e) = 1
  BY <1>0, <1>1, <1>2, KeyIsBytes, CommitmentIsBytes, Zenon
<1>5. inscriptionRedeemScript(k) = a \o b \o c \o f \o e
  BY <1>0, <1>3, Zenon
<1>6. /\ a \o b \o c \o f \o e \in Seq(Nat)
      /\ Len(a \o b \o c \o f \o e) = Len(a) + Len(b) + Len(c) + Len(f) + Len(e)
  <2>1. /\ a \in Seq(Nat) /\ b \in Seq(Nat) /\ c \in Seq(Nat) /\ f \in Seq(Nat)
        /\ e \in Seq(Nat)
    BY <1>4
  <2>2. a \o b \o c \in Seq(Nat) /\ Len(a \o b \o c) = Len(a) + Len(b) + Len(c)
    BY ONLY <2>1, ConcatThree
  <2>3. /\ (a \o b \o c) \o f \o e \in Seq(Nat)
        /\ Len((a \o b \o c) \o f \o e) = Len(a \o b \o c) + Len(f) + Len(e)
    BY ONLY <2>1, <2>2, ConcatThree
  <2>. QED  BY ONLY <2>2, <2>3
<1>7. Len(a) + Len(b) + Len(c) + Len(f) + Len(e) = 77
  BY ONLY <1>4
<1>. QED  BY <1>5, <1>6, <1>7, Zenon

LEMMA PayloadIsBytes ==
  ASSUME NEW k \in Texts
  PROVE  encodePayload(k) \in Seq(Nat)
<1>1. Text[k] # NotAStamp => bodyBytes(Text[k]) \in Nat
  <2>. SUFFICES ASSUME Text[k] # NotAStamp PROVE bodyBytes(Text[k]) \in Nat
    OBVIOUS
  <2>1. /\ Width[Text[k].p] \in Nat /\ Width[Text[k].mint] \in Nat /\ Width[Text[k].burn] \in Nat
        /\ Width[Text[k].to] \in Nat /\ digits[Text[k].amt] \in Nat
    BY EnvelopeAssumption, DigitsAreNat
  <2>. QED  BY <2>1 DEF bodyBytes
<1>. PICK n : n = IF Text[k] = NotAStamp THEN 1 ELSE bodyBytes(Text[k])
  OBVIOUS
<1>2. n \in Nat /\ k \in Nat
  BY <1>1, EnvelopeAssumption
<1>3. encodePayload(k) = [i \in 1 .. n |-> 1000 * k + i]
  BY DEF encodePayload
<1>4. \A i \in 1 .. n : 1000 * k + i \in Nat
  BY <1>2
<1>5. [i \in 1 .. n |-> 1000 * k + i] \in [1 .. n -> Nat]
  BY <1>4
<1>. QED  BY <1>2, <1>3, <1>5, FilledBytes

(* What FlattenSeq computes, one unfolding at a time. *)
flatStep(g, s, i) == IF i = 1 THEN s[i] ELSE g[i - 1] \o s[i]
Flattens(g, s, n) == g = [i \in 1 .. n |-> flatStep(g, s, i)]

LEMMA FlattensExists ==
  ASSUME NEW s, NEW n \in Nat
  PROVE  \E g : Flattens(g, s, n)
<1>. DEFINE F == {m \in Nat : \E g : Flattens(g, s, m)}
<1>1. 0 \in F
  <2>. PICK g : g = [i \in 1 .. 0 |-> 1]
    OBVIOUS
  <2>1. Flattens(g, s, 0)
    BY DEF Flattens
  <2>. QED  BY <2>1
<1>2. ASSUME NEW m \in Nat, m \in F PROVE m + 1 \in F
  <2>1. PICK g : Flattens(g, s, m)
    BY <1>2
  <2>2. PICK h : h = [i \in 1 .. m + 1 |-> IF i <= m THEN g[i] ELSE flatStep(g, s, i)]
    OBVIOUS
  <2>3. \A i \in 1 .. m : h[i] = g[i] /\ g[i] = flatStep(g, s, i)
    <3>1. ASSUME NEW i \in 1 .. m PROVE h[i] = g[i]
      BY <2>2
    <3>2. ASSUME NEW i \in 1 .. m PROVE g[i] = flatStep(g, s, i)
      BY <2>1, ZenonT(40) DEF Flattens
    <3>. QED  BY <3>1, <3>2
  <2>4. ASSUME NEW i \in 1 .. m + 1 PROVE h[i] = flatStep(h, s, i)
    <3>1. h[i] = flatStep(g, s, i)
      BY <2>2, <2>3
    <3>2. i = 1 \/ i - 1 \in 1 .. m
      OBVIOUS
    <3>. QED  BY <2>3, <3>1, <3>2 DEF flatStep
  <2>5. Flattens(h, s, m + 1)
    BY <2>2, <2>4, Zenon DEF Flattens
  <2>. QED  BY <2>5
<1>3. \A m \in Nat : m \in F
  <2>. HIDE DEF F
  <2>. QED  BY <1>1, <1>2, NatStepInduction
<1>. QED  BY <1>3

LEMMA FlattenIsBytes ==
  ASSUME NEW n \in Nat, NEW s \in [1 .. n -> Seq(Nat)]
  PROVE  FlattenSeq(s) \in Seq(Nat)
<1>1. Len(s) = n
  OBVIOUS
<1>2. CASE n = 0
  <2>1. FlattenSeq(s) = s
    BY <1>1, <1>2 DEF FlattenSeq
  <2>2. s \in [1 .. n -> Nat]
    BY <1>2
  <2>. QED  BY <2>1, <2>2, FilledBytes
<1>3. CASE n # 0
  <2>1. FlattenSeq(s) = (CHOOSE g : Flattens(g, s, n))[n]
    BY <1>1, <1>3 DEF FlattenSeq, Flattens, flatStep
  <2>2. PICK g : g = CHOOSE h : Flattens(h, s, n)
    OBVIOUS
  <2>3. Flattens(g, s, n)
    BY <2>2, FlattensExists
  <2>. DEFINE F == {m \in Nat : m \in 1 .. n => g[m] \in Seq(Nat)}
  <2>4. 0 \in F
    OBVIOUS
  <2>5. ASSUME NEW m \in Nat, m \in F PROVE m + 1 \in F
    <3>. SUFFICES ASSUME m + 1 \in 1 .. n PROVE g[m + 1] \in Seq(Nat)
      OBVIOUS
    <3>1. g[m + 1] = flatStep(g, s, m + 1) /\ s[m + 1] \in Seq(Nat)
      BY <2>3 DEF Flattens
    <3>2. CASE m = 0
      BY <3>1, <3>2 DEF flatStep
    <3>3. CASE m # 0
      <4>1. g[m] \in Seq(Nat)
        BY <2>5, <3>3
      <4>2. m + 1 # 1 /\ (m + 1) - 1 = m
        BY <3>3
      <4>3. g[m + 1] = g[(m + 1) - 1] \o s[m + 1]
        BY <3>1, <4>2 DEF flatStep
      <4>4. g[m + 1] = g[m] \o s[m + 1]
        BY <4>2, <4>3
      <4>. QED  BY <3>1, <4>1, <4>4, ConcatBytes
    <3>. QED  BY <3>2, <3>3
  <2>6. \A m \in Nat : m \in F
    <3>. HIDE DEF F
    <3>. QED  BY <2>4, <2>5, NatStepInduction
  <2>7. g[n] \in Seq(Nat)
    BY <1>3, <2>6
  <2>. QED  BY <2>1, <2>2, <2>7
<1>. QED  BY <1>2, <1>3

LEMMA PieceIsBytes ==
  ASSUME NEW body \in Seq(Nat), NEW m \in Nat \ {0}, NEW n \in Nat, m <= n + 1, n <= Len(body)
  PROVE  SubSeq(body, m, n) \in Seq(Nat) /\ Len(SubSeq(body, m, n)) = n - m + 1
OBVIOUS

\* Where a chunk ends that starts there.
chunkEnd(body, start) ==
  IF start + CHUNK_BYTES - 1 < Len(body) THEN start + CHUNK_BYTES - 1 ELSE Len(body)

LEMMA ChunkIsBytes ==
  ASSUME NEW body \in Seq(Nat), NEW start \in Nat \ {0}, start <= Len(body)
  PROVE  chunkAt(body, start) \in Seq(Nat)
<1>0. Len(body) \in Nat
  OBVIOUS
<1>1. PICK end \in Nat : /\ end = chunkEnd(body, start)
                         /\ end <= Len(body) /\ start <= end + 1 /\ end - start + 1 < 256
  BY <1>0 DEF CHUNK_BYTES, chunkEnd
<1>2. PICK piece : piece = SubSeq(body, start, end)
  OBVIOUS
<1>3. piece \in Seq(Nat) /\ Len(piece) < 256
  BY <1>1, <1>2, PieceIsBytes
<1>4. pushData(piece) \in Seq(Nat)
  BY <1>3, PushIsBytes
<1>5. PICK tag : tag = IF start = 1 THEN TAG_BODY ELSE TAG_CONTINUATION
  OBVIOUS
<1>6. tag \in Nat
  BY <1>5 DEF TAG_BODY, TAG_CONTINUATION
<1>7. chunkAt(body, start) = <<tag>> \o pushData(piece)
  BY <1>1, <1>2, <1>5, Zenon DEF chunkAt, chunkEnd
<1>. QED  BY <1>4, <1>6, <1>7, OneByte, ConcatBytes

\* Every chunk that is taken of a body starts inside it.
LEMMA ChunksStartInside ==
  ASSUME NEW body, Len(body) \in Nat, NEW j \in Nat \ {0}, j <= Cardinality(chunkStarts(body))
  PROVE  /\ 1 + (j - 1) * CHUNK_BYTES \in Nat \ {0}
         /\ 1 + (j - 1) * CHUNK_BYTES <= Len(body)
<1>. DEFINE S == chunkStarts(body)
<1>1. IsFiniteSet(S) /\ S \subseteq Nat /\ Cardinality(S) \in Nat
  <2>1. S \subseteq 1 .. Len(body)
    BY DEF chunkStarts
  <2>2. IsFiniteSet(1 .. Len(body))
    BY FS_Interval
  <2>. QED  BY <2>1, <2>2, FS_Subset, FS_CardinalityType
<1>2. ASSUME 1 + (j - 1) * CHUNK_BYTES > Len(body) PROVE FALSE
  <2>. DEFINE T == 1 .. j - 1
              f == [i \in S |-> 1 + (i - 1) \div CHUNK_BYTES]
  <2>1. IsFiniteSet(T) /\ Cardinality(T) = j - 1
    <3>. PICK m : m = j - 1
      OBVIOUS
    <3>1. m \in Nat /\ 1 \in Int /\ m \in Int /\ T = 1 .. m
      OBVIOUS
    <3>2. IsFiniteSet(1 .. m) /\ Cardinality(1 .. m) = m
      <4>1. IsFiniteSet(1 .. m) /\ Cardinality(1 .. m) = IF 1 > m THEN 0 ELSE m - 1 + 1
        BY ONLY <3>1, FS_Interval
      <4>. QED  BY <3>1, <4>1
    <3>. QED  BY <3>1, <3>2
  <2>2. ASSUME NEW i \in S
        PROVE  /\ f[i] \in T /\ i - 1 = CHUNK_BYTES * (f[i] - 1)
    <3>1. i \in 1 .. Len(body) /\ (i - 1) % CHUNK_BYTES = 0
      BY DEF chunkStarts
    <3>2. PICK q : q = (i - 1) \div CHUNK_BYTES
      OBVIOUS
    <3>3. q \in Nat /\ i - 1 = CHUNK_BYTES * q
      BY <3>1, <3>2 DEF CHUNK_BYTES
    <3>4. f[i] = 1 + q
      BY <3>2
    <3>5. q < j - 1
      BY <1>2, <3>1, <3>3 DEF CHUNK_BYTES
    <3>. QED  BY <3>3, <3>4, <3>5
  <2>3. f \in [S -> T]
    BY <2>2
  <2>4. Cardinality(T) < Cardinality(S)
    BY <1>1, <2>1
  <2>5. PICK x \in S, y \in S : x # y /\ f[x] = f[y]
    <3>. HIDE DEF S, T, f
    <3>. QED  BY <1>1, <2>1, <2>3, <2>4, FS_PigeonHole
  <2>6. x - 1 = y - 1 /\ x \in Nat /\ y \in Nat
    <3>1. x - 1 = CHUNK_BYTES * (f[x] - 1) /\ y - 1 = CHUNK_BYTES * (f[y] - 1)
      BY <2>2
    <3>. QED  BY <1>1, <2>5, <3>1
  <2>. QED  BY <2>5, <2>6
<1>. QED  BY <1>2 DEF CHUNK_BYTES

LEMMA EnvelopeIsBytes ==
  ASSUME NEW k \in Texts
  PROVE  encodeStamp(k) \in Seq(Nat)
<1>1. PICK body : body = encodePayload(k)
  OBVIOUS
<1>2. body \in Seq(Nat)
  BY <1>1, PayloadIsBytes
<1>3. PICK n : n = Cardinality(chunkStarts(body))
  OBVIOUS
<1>4. n \in Nat
  <2>1. chunkStarts(body) \subseteq 1 .. Len(body) /\ Len(body) \in Nat
    BY <1>2 DEF chunkStarts
  <2>2. IsFiniteSet(1 .. Len(body))
    BY <2>1, FS_Interval
  <2>. QED  BY <1>3, <2>1, <2>2, FS_Subset, FS_CardinalityType
<1>5. PICK chunks : chunks = [j \in 1 .. n |-> chunkAt(body, 1 + (j - 1) * CHUNK_BYTES)]
  OBVIOUS
<1>6. chunks \in [1 .. n -> Seq(Nat)]
  <2>1. ASSUME NEW j \in 1 .. n PROVE chunkAt(body, 1 + (j - 1) * CHUNK_BYTES) \in Seq(Nat)
    <3>1. j \in Nat \ {0} /\ j <= Cardinality(chunkStarts(body)) /\ Len(body) \in Nat
      BY <1>2, <1>3, <1>4
    <3>2. /\ 1 + (j - 1) * CHUNK_BYTES \in Nat \ {0}
          /\ 1 + (j - 1) * CHUNK_BYTES <= Len(body)
      BY ONLY <3>1, ChunksStartInside
    <3>. QED  BY <1>2, <3>2, ChunkIsBytes
  <2>. QED  BY <1>5, <2>1
<1>7. FlattenSeq(chunks) \in Seq(Nat)
  BY <1>4, <1>6, FlattenIsBytes
<1>8. pushData(ENVELOPE_MAGIC) \in Seq(Nat)
  <2>1. ENVELOPE_MAGIC \in Seq(Nat) /\ Len(ENVELOPE_MAGIC) < 256
    BY DEF ENVELOPE_MAGIC
  <2>. QED  BY <2>1, PushIsBytes
<1>9. pushData(CONTENT_TYPE) \in Seq(Nat)
  <2>1. CONTENT_TYPE \in [1 .. 16 -> Nat]
    BY DEF CONTENT_TYPE
  <2>2. CONTENT_TYPE \in Seq(Nat) /\ Len(CONTENT_TYPE) < 256
    <3>1. 16 \in Nat
      OBVIOUS
    <3>2. CONTENT_TYPE \in Seq(Nat) /\ Len(CONTENT_TYPE) = 16
      BY ONLY <2>1, <3>1, FilledBytes
    <3>. QED  BY <3>2
  <2>. QED  BY <2>2, PushIsBytes
<1>10. <<TAG_CONTENT_TYPE>> \in Seq(Nat)
  BY DEF TAG_CONTENT_TYPE
<1>11. encodeStamp(k) = pushData(ENVELOPE_MAGIC) \o <<TAG_CONTENT_TYPE>> \o pushData(CONTENT_TYPE)
                          \o FlattenSeq(chunks)
  BY <1>1, <1>3, <1>5, Zenon DEF encodeStamp, encodeEnvelope
<1>12. PICK a, b, c, d : /\ a = pushData(ENVELOPE_MAGIC) /\ b = <<TAG_CONTENT_TYPE>>
                         /\ c = pushData(CONTENT_TYPE) /\ d = FlattenSeq(chunks)
  OBVIOUS
<1>13. a \in Seq(Nat) /\ b \in Seq(Nat) /\ c \in Seq(Nat) /\ d \in Seq(Nat)
  BY <1>7, <1>8, <1>9, <1>10, <1>12, Zenon
<1>14. a \o b \o c \in Seq(Nat)
  BY ONLY <1>13, ConcatThree
<1>15. (a \o b \o c) \o d \in Seq(Nat)
  BY ONLY <1>13, <1>14, ConcatBytes
<1>. QED  BY <1>11, <1>12, <1>15, Zenon

\* A reveal's script is its envelope, the signature with one byte before it,
\* and the redeem script with two.
LEMMA ScriptSigLength ==
  ASSUME NEW k \in Texts, NEW n \in 0 .. 75
  PROVE  /\ Len(encodeStamp(k)) \in Nat
         /\ Len(inscriptionScriptSig(k, n)) = Len(encodeStamp(k)) + n + 80
<1>1. PICK a, b, c : /\ a = encodeStamp(k) /\ b = pushData(signatureOf(n))
                     /\ c = pushData(inscriptionRedeemScript(k))
  OBVIOUS
<1>2. a \in Seq(Nat)
  BY <1>1, EnvelopeIsBytes
<1>3. b \in Seq(Nat) /\ Len(b) = n + 1
  <2>1. signatureOf(n) \in [1 .. n -> Nat]
    BY DEF signatureOf
  <2>2. signatureOf(n) \in Seq(Nat) /\ Len(signatureOf(n)) = n
    BY <2>1, FilledBytes
  <2>3. pushData(signatureOf(n)) \in Seq(Nat) /\ Len(pushData(signatureOf(n))) = pushBytes(n)
    BY <2>2, PushIsBytes
  <2>. QED  BY <1>1, <2>3 DEF pushBytes
<1>4. c \in Seq(Nat) /\ Len(c) = 79
  <2>1. PICK redeem : redeem = inscriptionRedeemScript(k)
    OBVIOUS
  <2>2. redeem \in Seq(Nat) /\ Len(redeem) = 77
    BY <2>1, RedeemIsBytes
  <2>3. Len(redeem) < 256
    BY <2>2
  <2>4. pushData(redeem) \in Seq(Nat) /\ Len(pushData(redeem)) = pushBytes(Len(redeem))
    BY ONLY <2>2, <2>3, PushIsBytes
  <2>. QED  BY <1>1, <2>1, <2>2, <2>4 DEF pushBytes
<1>5. inscriptionScriptSig(k, n) = a \o b \o c
  BY <1>1, Zenon DEF inscriptionScriptSig
<1>6. Len(a \o b \o c) = Len(a) + Len(b) + Len(c) /\ Len(a) \in Nat
  <2>1. a \in Seq(Nat) /\ b \in Seq(Nat) /\ c \in Seq(Nat)
    BY <1>2, <1>3, <1>4
  <2>. QED  BY ONLY <2>1, ConcatThree
<1>. QED  BY <1>1, <1>3, <1>4, <1>5, <1>6

(* ------------------------------- funding ------------------------------- *)

\* A plan sets aside the fee of the longest reveal, which is at least the fee
\* of the reveal with a shorter signature.
LEMMA RevealFee ==
  ASSUME NEW k \in Texts
  PROVE  LET plan == planInscription(k) IN
         /\ plan.text = k /\ plan.dustZat = DUST
         /\ plan.revealFeeZat \in Nat /\ plan.commitOutputZat = DUST + plan.revealFeeZat
         /\ \A n \in 0 .. 73 :
              conventionalFee(<<Len(inscriptionScriptSig(k, n))>>, <<P2PKH_SCRIPT>>)
                <= plan.revealFeeZat
<1>. DEFINE sized(n) == Len(inscriptionScriptSig(k, n))
            plan == planInscription(k)
<1>1. ASSUME NEW n \in 0 .. 73
      PROVE  /\ sized(n) \in Nat /\ sized(73) \in Nat /\ sized(n) <= sized(73)
             /\ conventionalFee(<<sized(n)>>, <<P2PKH_SCRIPT>>) \in Nat
             /\ conventionalFee(<<sized(73)>>, <<P2PKH_SCRIPT>>) \in Nat
             /\ conventionalFee(<<sized(n)>>, <<P2PKH_SCRIPT>>)
                  <= conventionalFee(<<sized(73)>>, <<P2PKH_SCRIPT>>)
  <2>1. Len(encodeStamp(k)) \in Nat /\ sized(n) = Len(encodeStamp(k)) + n + 80
    <3>1. n \in 0 .. 75
      OBVIOUS
    <3>. QED  BY <3>1, ScriptSigLength
  <2>2. sized(73) = Len(encodeStamp(k)) + 73 + 80
    <3>1. 73 \in 0 .. 75
      OBVIOUS
    <3>. QED  BY <3>1, ScriptSigLength
  <2>. PICK s, t : s = sized(n) /\ t = sized(73)
    OBVIOUS
  <2>3. s \in Nat /\ t \in Nat /\ s <= t
    BY <2>1, <2>2
  <2>4. 1 \in Nat /\ <<s>> \in [1 .. 1 -> Nat] /\ <<t>> \in [1 .. 1 -> Nat]
        /\ \A i \in 1 .. 1 : <<s>>[i] <= <<t>>[i]
    BY <2>3
  <2>5. Sizes(<<P2PKH_SCRIPT>>)
    BY SizesOfOutputs
  <2>6. /\ conventionalFee(<<s>>, <<P2PKH_SCRIPT>>) \in Nat
        /\ conventionalFee(<<t>>, <<P2PKH_SCRIPT>>) \in Nat
        /\ conventionalFee(<<s>>, <<P2PKH_SCRIPT>>) <= conventionalFee(<<t>>, <<P2PKH_SCRIPT>>)
    BY ONLY <2>4, <2>5, FeesGrow
  <2>. QED  BY <2>3, <2>6
<1>2. plan.revealFeeZat = conventionalFee(<<sized(73)>>, <<P2PKH_SCRIPT>>)
  BY DEF planInscription, MAX_SIGNATURE_PUSH_BYTES
<1>3. plan.text = k /\ plan.dustZat = DUST /\ plan.commitOutputZat = DUST + plan.revealFeeZat
  BY DEF planInscription
<1>4. 73 \in 0 .. 73
  OBVIOUS
<1>5. \A n \in 0 .. 73 :
        conventionalFee(<<Len(inscriptionScriptSig(k, n))>>, <<P2PKH_SCRIPT>>)
          <= planInscription(k).revealFeeZat
  BY <1>1, <1>2
<1>6. planInscription(k).revealFeeZat \in Nat
  BY <1>1, <1>2, <1>4
<1>. QED  BY ONLY <1>3, <1>5, <1>6

\* The fee of a commit with n inputs, with or without change.
LEMMA CommitFees ==
  ASSUME NEW n \in Nat
  PROVE  /\ commitFee(n, <<P2SH_SCRIPT>>) \in Nat
         /\ commitFee(n, <<P2SH_SCRIPT, P2PKH_SCRIPT>>) = commitFee(n, <<P2SH_SCRIPT>>)
<1>. DEFINE ins == [i \in 1 .. n |-> P2PKH_SCRIPTSIG_BYTES]
<1>1. Sizes(ins)
  <2>1. P2PKH_SCRIPTSIG_BYTES \in Nat
    BY DEF P2PKH_SCRIPTSIG_BYTES, MAX_SIGNATURE_PUSH_BYTES
  <2>2. ins \in [1 .. n -> Nat]
    BY <2>1
  <2>. QED  BY <2>2 DEF Sizes
<1>. HIDE DEF ins
<1>2. /\ conventionalFee(ins, <<P2SH_SCRIPT>>) \in Nat
      /\ conventionalFee(ins, <<P2SH_SCRIPT, P2PKH_SCRIPT>>) = conventionalFee(ins, <<P2SH_SCRIPT>>)
  BY <1>1, SizesOfOutputs, FeeIsNat, ChangeIsFree
<1>. QED  BY <1>2 DEF commitFee, ins

\* What a commit that spends S for an output of out pays: fee and change.
Pays(out, S, fee, left) ==
  /\ S # {} /\ value(S) = out + left + fee
  /\ left \in Nat /\ fee \in Nat /\ (left = 0 \/ left >= DUST)
  /\ fee >= commitFee(Cardinality(S), <<P2SH_SCRIPT>>)
  /\ fee < commitFee(Cardinality(S), <<P2SH_SCRIPT>>) + DUST

\* The arithmetic of funding: v in the coins, o for the output, f the fee.
LEMMA Splits ==
  ASSUME NEW v \in Nat, NEW o \in Nat \ {0}, NEW f \in Nat, NEW d \in Nat \ {0}
  PROVE  /\ v - o - f >= d => v = o + (v - o - f) + f /\ v - o - f \in Nat /\ v >= o + f
         /\ v - o - f < d /\ v - o >= f => v = o + 0 + (v - o) /\ v - o \in Nat /\ v - o < f + d
         /\ v >= o + f <=> (v - o - f >= d \/ (v - o - f < d /\ v - o >= f))
OBVIOUS

LEMMA FundingIs ==
  ASSUME NEW plan, plan.commitOutputZat \in Nat \ {0}, NEW S, Money(S)
  PROVE  LET f == funding(plan, S) IN
         /\ f.funded <=> value(S) >= plan.commitOutputZat
                                       + commitFee(Cardinality(S), <<P2SH_SCRIPT>>)
         /\ f.funded => f.spent = S /\ Pays(plan.commitOutputZat, S, f.feeZat, f.changeZat)
<1>. PICK v, o, fee, f : /\ v = value(S) /\ o = plan.commitOutputZat
                         /\ fee = commitFee(Cardinality(S), <<P2SH_SCRIPT>>)
                         /\ f = funding(plan, S)
  OBVIOUS
<1>1. v \in Nat
  BY ValueOfUnion, ValueOfNone
<1>2. fee \in Nat /\ commitFee(Cardinality(S), <<P2SH_SCRIPT, P2PKH_SCRIPT>>) = fee
  BY FS_CardinalityType, CommitFees DEF Money
<1>3. o \in Nat \ {0} /\ DUST \in Nat \ {0}
  BY InscribeAssumption
<1>4. S = {} => v = 0
  BY ValueOfNone
<1>5. CASE v - o - fee >= DUST
  <2>1. f = [funded |-> TRUE, spent |-> S, feeZat |-> fee, changeZat |-> v - o - fee]
    <3>1. v - o - fee >= DUST /\ ~(v - o - fee < DUST)
      BY <1>1, <1>2, <1>3, <1>5
    <3>. PICK gap : gap = v - o - fee
      OBVIOUS
    <3>2. gap >= DUST /\ ~(gap < DUST)
      BY <3>1
    <3>3. f = CASE gap >= DUST ->
                     [funded |-> TRUE, spent |-> S, feeZat |-> fee, changeZat |-> gap]
                [] gap < DUST /\ v - o >= fee ->
                     [funded |-> TRUE, spent |-> S, feeZat |-> v - o, changeZat |-> 0]
                [] OTHER -> [funded |-> FALSE, spent |-> {}, feeZat |-> 0, changeZat |-> 0]
      BY <1>2, Zenon DEF funding
    <3>. QED  BY <3>2, <3>3
  <2>2. v = o + (v - o - fee) + fee /\ v - o - fee \in Nat /\ v >= o + fee
    BY <1>1, <1>2, <1>3, <1>5, Splits
  <2>3. S # {} /\ fee >= fee /\ fee < fee + DUST
    BY <1>1, <1>2, <1>3, <1>4, <1>5
  <2>. QED  BY <1>2, <1>5, <2>1, <2>2, <2>3 DEF Pays
<1>6. CASE v - o - fee < DUST /\ v - o >= fee
  <2>1. f = [funded |-> TRUE, spent |-> S, feeZat |-> v - o, changeZat |-> 0]
    BY <1>1, <1>2, <1>3, <1>6 DEF funding
  <2>2. v = o + 0 + (v - o) /\ v - o \in Nat /\ v - o < fee + DUST /\ v >= o + fee
    BY <1>1, <1>2, <1>3, <1>6, Splits
  <2>3. S # {}
    BY <1>1, <1>2, <1>3, <1>4, <1>6
  <2>. QED  BY <1>6, <2>1, <2>2, <2>3 DEF Pays
<1>7. CASE ~(v - o - fee >= DUST) /\ ~(v - o - fee < DUST /\ v - o >= fee)
  <2>1. ~(v >= o + fee)
    BY <1>1, <1>2, <1>3, <1>7, Splits
  <2>2. f = [funded |-> FALSE, spent |-> {}, feeZat |-> 0, changeZat |-> 0]
    BY <1>2, <1>7 DEF funding
  <2>. QED  BY <2>1, <2>2
<1>. QED  BY <1>5, <1>6, <1>7

\* What buildCommit gives back is funded by coins of the purse.
LEMMA CommitIs ==
  ASSUME NEW plan, plan.commitOutputZat \in Nat \ {0}, NEW S, Money(S)
  PROVE  LET c == buildCommit(plan, S) IN
         c.funded => c.spent \subseteq S /\ Pays(plan.commitOutputZat, c.spent, c.feeZat, c.changeZat)
<1>1. PICK T : T \subseteq S /\ buildCommit(plan, S) = funding(plan, T)
  <2>. PICK enough : enough = {n \in 1 .. Cardinality(S) : funding(plan, candidates(S, n)).funded}
    OBVIOUS
  <2>. PICK m : m = Min(enough)
    OBVIOUS
  <2>1. buildCommit(plan, S) = funding(plan, IF enough = {} THEN {} ELSE candidates(S, m))
    BY DEF buildCommit
  <2>2. candidates(S, m) \subseteq S /\ {} \subseteq S
    BY DEF candidates
  <2>3. CASE enough = {}
    BY <2>1, <2>2, <2>3
  <2>4. CASE enough # {}
    BY <2>1, <2>2, <2>4
  <2>. QED  BY <2>3, <2>4
<1>2. Money(T)
  BY <1>1, MoneyWeighs
<1>. QED  BY <1>1, <1>2, FundingIs

(* ------------------------------- the index ----------------------------- *)

\* What the order of the chain needs to be total.
Chain(items) ==
  /\ IsFiniteSet(items)
  /\ \A x \in items : x.height \in Int /\ x.txid \in Int
  /\ \A x, y \in items : x.txid = y.txid => x = y

LEMMA ChainPart ==
  ASSUME NEW items, Chain(items), NEW part, part \subseteq items
  PROVE  Chain(part)
BY FS_Subset DEF Chain

LEMMA OrderIsTotal ==
  ASSUME NEW items, Chain(items), NEW x \in items, NEW y \in items, NEW z \in items
  PROVE  /\ x = y \/ canonicalOrder(x, y) \/ canonicalOrder(y, x)
         /\ ~ (canonicalOrder(x, y) /\ canonicalOrder(y, x))
         /\ canonicalOrder(x, y) /\ canonicalOrder(y, z) => canonicalOrder(x, z)
BY DEF Chain, canonicalOrder

\* x is in items and everything else there comes before it.
IsLast(x, items) == x \in items /\ \A y \in items : y = x \/ canonicalOrder(y, x)

LEMMA LatestIsLast ==
  ASSUME NEW items, Chain(items), items # {}
  PROVE  IsLast(latest(items), items)
<1>. DEFINE F == {part \in SUBSET items : part # {} => \E x : IsLast(x, part)}
<1>1. {} \in F
  OBVIOUS
<1>2. ASSUME NEW part \in SUBSET items, NEW x \in items \ part, part \in F
      PROVE  part \cup {x} \in F
  <2>1. CASE part = {}
    BY <2>1 DEF IsLast
  <2>2. CASE part # {}
    <3>1. PICK y : IsLast(y, part)
      BY <1>2, <2>2
    <3>2. y \in items /\ x \in items
      BY <3>1 DEF IsLast
    <3>3. x = y \/ canonicalOrder(x, y) \/ canonicalOrder(y, x)
      BY <3>2, OrderIsTotal
    <3>4. CASE canonicalOrder(y, x)
      <4>1. \A z \in part : canonicalOrder(z, x)
        BY <3>1, <3>2, <3>4, OrderIsTotal DEF IsLast
      <4>2. IsLast(x, part \cup {x})
        BY <4>1 DEF IsLast
      <4>. QED  BY <4>2
    <3>5. CASE canonicalOrder(x, y)
      <4>1. IsLast(y, part \cup {x})
        BY <3>1, <3>5 DEF IsLast
      <4>. QED  BY <4>1
    <3>. QED  BY <1>2, <3>1, <3>3, <3>4, <3>5 DEF IsLast
  <2>. QED  BY <2>1, <2>2
<1>3. items \in F
  <2>1. IsFiniteSet(items)
    BY DEF Chain
  <2>. HIDE DEF F
  <2>. QED  BY <1>1, <1>2, <2>1, SetInduction
<1>4. \E x \in items : \A y \in items : y = x \/ canonicalOrder(y, x)
  BY <1>3 DEF IsLast
<1>5. latest(items) \in items /\ \A y \in items : y = latest(items) \/ canonicalOrder(y, latest(items))
  BY <1>4, Zenon DEF latest
<1>. QED  BY <1>5 DEF IsLast

LEMMA LatestIsIn ==
  ASSUME NEW items, Chain(items), items # {}
  PROVE  latest(items) \in items
BY LatestIsLast DEF IsLast

\* One unfolding of the index, the rest being idx's business.
indexStep(idx, s, f, t) ==
  IF s = {} THEN EmptySet
  ELSE indexOne(idx[s \ {latest(s)}], latest(s), carried(latest(s).script), f, t)

\* idx indexes every part of the items.
Indexes(idx, items, f, t) == idx = [s \in SUBSET items |-> indexStep(idx, s, f, t)]

LEMMA IndexUnique ==
  ASSUME NEW S, NEW T, S \subseteq T, Chain(S), NEW f, NEW t,
         NEW g, Indexes(g, S, f, t), NEW h, Indexes(h, T, f, t)
  PROVE  g[S] = h[S]
<1>. DEFINE F == {u \in SUBSET S : g[u] = h[u]}
<1>1. ASSUME NEW u \in SUBSET S, \A v \in SUBSET u : v # u => v \in F
      PROVE  u \in F
  <2>1. g[u] = indexStep(g, u, f, t) /\ h[u] = indexStep(h, u, f, t)
    BY DEF Indexes
  <2>2. CASE u = {}
    BY <2>1, <2>2 DEF indexStep
  <2>3. CASE u # {}
    <3>1. latest(u) \in u
      BY <2>3, ChainPart, LatestIsIn
    <3>2. g[u \ {latest(u)}] = h[u \ {latest(u)}]
      BY <1>1, <3>1
    <3>. QED  BY <2>1, <2>3, <3>2 DEF indexStep
  <2>. QED  BY <2>2, <2>3
<1>2. \A u \in SUBSET S : u \in F
  <2>1. IsFiniteSet(S)
    BY DEF Chain
  <2>. HIDE DEF F
  <2>. QED  BY <1>1, <2>1, SubsetInduction
<1>. QED  BY <1>2

LEMMA IndexExists ==
  ASSUME NEW S, Chain(S), NEW f, NEW t
  PROVE  \E g : Indexes(g, S, f, t)
<1>. DEFINE F == {u \in SUBSET S : \E g : Indexes(g, u, f, t)}
            G(u) == CHOOSE g : Indexes(g, u, f, t)
<1>1. ASSUME NEW u \in SUBSET S, \A v \in SUBSET u : v # u => v \in F
      PROVE  u \in F
  <2>. DEFINE rest(s) == s \ {latest(s)}
  <2>1. PICK h : h = [s \in SUBSET u |->
                       IF s = {} THEN EmptySet
                       ELSE indexOne(G(rest(s))[rest(s)], latest(s), carried(latest(s).script), f, t)]
    OBVIOUS
  <2>2. ASSUME NEW s \in SUBSET u, s # u PROVE Indexes(G(s), s, f, t)
    BY <1>1, <2>2
  <2>3. ASSUME NEW s \in SUBSET u, s # {}
        PROVE  latest(s) \in s /\ rest(s) \in SUBSET u /\ rest(s) # u /\ Chain(rest(s))
    <3>1. Chain(s) /\ latest(s) \in s
      BY <2>3, ChainPart, LatestIsIn
    <3>. QED  BY <3>1, ChainPart
  <2>4. ASSUME NEW s \in SUBSET u, s # u PROVE h[s] = G(s)[s]
    <3>1. G(s)[s] = indexStep(G(s), s, f, t)
      BY <2>2, <2>4 DEF Indexes
    <3>2. CASE s = {}
      BY <2>1, <3>1, <3>2 DEF indexStep
    <3>3. CASE s # {}
      <4>. PICK r : r = rest(s)
        OBVIOUS
      <4>1. r \subseteq s /\ r \in SUBSET u /\ r # u /\ Chain(r)
        BY <2>3, <3>3
      <4>2. Indexes(G(r), r, f, t) /\ Indexes(G(s), s, f, t)
        BY <2>2, <2>4, <4>1
      <4>. HIDE DEF G
      <4>3. G(r)[r] = G(s)[r]
        BY ONLY <4>1, <4>2, IndexUnique
      <4>4. h[s] = indexOne(G(r)[r], latest(s), carried(latest(s).script), f, t)
        BY <2>1, <3>3
      <4>5. G(s)[s] = indexOne(G(s)[r], latest(s), carried(latest(s).script), f, t)
        BY <3>1, <3>3 DEF indexStep
      <4>. QED  BY <4>3, <4>4, <4>5
    <3>. QED  BY <3>2, <3>3
  <2>5. ASSUME NEW s \in SUBSET u PROVE h[s] = indexStep(h, s, f, t)
    <3>1. CASE s = {}
      BY <2>1, <3>1 DEF indexStep
    <3>2. CASE s # {}
      <4>1. rest(s) \in SUBSET u /\ rest(s) # u
        BY <2>3, <3>2
      <4>2. h[rest(s)] = G(rest(s))[rest(s)]
        BY <2>4, <4>1
      <4>. HIDE DEF G
      <4>. QED  BY <2>1, <3>2, <4>2 DEF indexStep
    <3>. QED  BY <3>1, <3>2
  <2>6. Indexes(h, u, f, t)
    BY <2>1, <2>5, Zenon DEF Indexes
  <2>. QED  BY <2>6
<1>2. \A u \in SUBSET S : u \in F
  <2>1. IsFiniteSet(S)
    BY DEF Chain
  <2>. HIDE DEF F
  <2>. QED  BY <1>1, <2>1, SubsetInduction
<1>. QED  BY <1>2

\* What the code computes is what such a function says of all the items.
LEMMA IndexIsStep ==
  ASSUME NEW S, Chain(S), NEW f, NEW t
  PROVE  \E g : Indexes(g, S, f, t) /\ indexInscriptions(S, f, t) = g[S]
<1>1. indexInscriptions(S, f, t) = (CHOOSE g : Indexes(g, S, f, t))[S]
  BY DEF indexInscriptions, Indexes, indexStep
<1>2. PICK g : g = CHOOSE h : Indexes(h, S, f, t)
  OBVIOUS
<1>3. Indexes(g, S, f, t)
  BY <1>2, IndexExists
<1>. QED  BY <1>1, <1>2, <1>3

(* ------------------------------- claims -------------------------------- *)

\* A claim read on its own, with f final and the tip at t.
Valid(x, f, t) == verdict(x, carried(x.script), {}, f, t) = "accepted"
BurnOf(x) == carried(x.script).stamp.burn

LEMMA CarriedIsRead ==
  ASSUME NEW s \in DOMAIN Script
  PROVE  /\ carried(s).stamp = decodeStamp(Script[s])
         /\ carried(s).cited = cited(carried(s).stamp)
<1>. DEFINE read(n) == [script |-> n, stamp |-> decodeStamp(Script[n]),
                        found |-> entries(decodeStamp(Script[n])) # {},
                        cited |-> cited(decodeStamp(Script[n]))]
<1>1. Carried = {read(n) : n \in DOMAIN Script}
  BY Zenon DEF Carried
<1>2. \A n \in DOMAIN Script : read(n).script = n
  OBVIOUS
<1>3. \E r \in Carried : r.script = s
  BY <1>1, <1>2
<1>4. carried(s) \in Carried /\ carried(s).script = s
  BY <1>3, Zenon DEF carried
<1>5. carried(s) = read(s)
  <2>1. PICK n \in DOMAIN Script : carried(s) = read(n)
    BY <1>1, <1>4
  <2>2. n = s
    BY <1>2, <1>4, <2>1, Zenon
  <2>. QED  BY <2>1, <2>2, Zenon
<1>. QED  BY <1>5

\* That a burn has been claimed before is the last thing a verdict asks.
LEMMA VerdictWhenClaimed ==
  ASSUME NEW x, NEW f, NEW t, NEW claimed
  PROVE  verdict(x, carried(x.script), claimed, f, t) = "accepted"
           <=> Valid(x, f, t) /\ BurnOf(x) \notin claimed
BY DEF Valid, BurnOf, verdict

\* A claim that counts cites a burn of its mint, final and of its amount.
Cites(stamp, i, f) ==
  /\ i \in DOMAIN Burns /\ Burns[i].mint = stamp.mint /\ Burns[i].signature = stamp.burn
  /\ ~Burns[i].err /\ Burns[i].signature \in f /\ Burns[i].amountBase = stamp.amt

LEMMA ValidCites ==
  ASSUME NEW x, NEW f, NEW t, Valid(x, f, t), x.script \in DOMAIN Script
  PROVE  \E i : Cites(carried(x.script).stamp, i, f)
<1>. PICK read : read = carried(x.script)
  OBVIOUS
<1>1. read.cited = cited(read.stamp)
  BY CarriedIsRead
<1>2. /\ read.stamp # NotAStamp /\ read.cited # {}
      /\ ~Burns[Min(read.cited)].err /\ Burns[Min(read.cited)].signature \in f
      /\ Burns[Min(read.cited)].amountBase = read.stamp.amt
  BY DEF Valid, verdict
<1>3. read.cited \subseteq Nat /\ read.cited \subseteq DOMAIN Burns
  BY <1>1, InscriptionsAssumption DEF cited, entries
<1>4. PICK n \in read.cited : \A m \in read.cited : n <= m
  BY <1>2, <1>3, LeastNat
<1>5. Min(read.cited) \in read.cited
  BY <1>4 DEF Min
<1>6. /\ Burns[Min(read.cited)].signature = read.stamp.burn
      /\ Burns[Min(read.cited)].mint = read.stamp.mint
  BY <1>1, <1>2, <1>5 DEF cited, entries
<1>. QED  BY <1>2, <1>3, <1>5, <1>6 DEF Cites

(* ------------------------- what the index holds ------------------------ *)

Scripted(items) == \A x \in items : x.script \in DOMAIN Script

Claimed(s, f, t) == {BurnOf(x) : x \in {y \in s : Valid(y, f, t)}}

\* x is the first valid claim of its burn in s.
IsFirst(x, s, f, t) ==
  /\ x \in s /\ Valid(x, f, t)
  /\ \A y \in s : (Valid(y, f, t) /\ BurnOf(y) = BurnOf(x) /\ y # x) => canonicalOrder(x, y)

amounts == [i \in DOMAIN Burns |-> Burns[i].amountBase]

\* The burns of a mint that are final and claimed.
Counted(mint, claimed, f) ==
  {i \in DOMAIN Burns : /\ Burns[i].mint = mint /\ ~Burns[i].err
                        /\ Burns[i].signature \in f /\ Burns[i].signature \in claimed}

\* What the index of a part s of the items is.
Indexed(set, s, f, t) ==
  /\ set = [accepted |-> set.accepted, rejected |-> set.rejected, pending |-> set.pending,
            claimedBurns |-> set.claimedBurns, supplyByMint |-> set.supplyByMint]
  /\ set.claimedBurns = Claimed(s, f, t)
  /\ set.accepted = {x.txid : x \in {y \in s : IsFirst(y, s, f, t)}}
  /\ set.supplyByMint \in [Mints -> Nat]
  /\ \A m \in Mints : set.supplyByMint[m] <= Total(amounts, Counted(m, Claimed(s, f, t), f))

LEMMA AmountsWeigh ==
  ASSUME NEW part, part \subseteq DOMAIN Burns
  PROVE  Weights(amounts, part) /\ Total(amounts, part) \in Nat
<1>1. IsFiniteSet(DOMAIN Burns)
  BY InscriptionsAssumption, FS_Interval
<1>2. Weights(amounts, part)
  BY <1>1, InscriptionsAssumption, FS_Subset DEF Weights, amounts
<1>. QED  BY <1>2, TotalIsNat

\* A claim of a burn that nobody claimed before adds to the supply what was
\* burned, and a burn of that much to what counts as burned.
LEMMA SupplyStep ==
  ASSUME NEW mint, NEW f, NEW claimed, NEW i,
         i \in DOMAIN Burns, Burns[i].signature \in f, ~Burns[i].err,
         Burns[i].signature \notin claimed, Burns[i].mint = mint
  PROVE  Total(amounts, Counted(mint, claimed, f)) + Burns[i].amountBase
           <= Total(amounts, Counted(mint, claimed \cup {Burns[i].signature}, f))
<1>. PICK S, T : S = Counted(mint, claimed, f)
                 /\ T = Counted(mint, claimed \cup {Burns[i].signature}, f)
  OBVIOUS
<1>1. S \cup {i} \subseteq T /\ i \notin S /\ T \subseteq DOMAIN Burns /\ S \subseteq DOMAIN Burns
  BY DEF Counted
<1>2. Weights(amounts, S) /\ Weights(amounts, T) /\ amounts[i] = Burns[i].amountBase
      /\ amounts[i] \in Nat
  BY <1>1, AmountsWeigh, InscriptionsAssumption DEF amounts
<1>3. Total(amounts, S \cup {i}) = Total(amounts, S) + amounts[i]
  BY <1>1, <1>2, TotalOfMore
<1>4. Total(amounts, S \cup {i}) <= Total(amounts, T)
  BY <1>1, <1>2, TotalOfPart
<1>. QED  BY <1>2, <1>3, <1>4

LEMMA SupplyGrows ==
  ASSUME NEW mint, NEW f, NEW claimed, NEW more, claimed \subseteq more
  PROVE  /\ Total(amounts, Counted(mint, claimed, f)) \in Nat
         /\ Total(amounts, Counted(mint, more, f)) \in Nat
         /\ Total(amounts, Counted(mint, claimed, f)) <= Total(amounts, Counted(mint, more, f))
<1>. PICK S, T : S = Counted(mint, claimed, f) /\ T = Counted(mint, more, f)
  OBVIOUS
<1>1. S \subseteq T /\ T \subseteq DOMAIN Burns
  BY DEF Counted
<1>2. Weights(amounts, T)
  BY <1>1, AmountsWeigh
<1>3. Total(amounts, S) \in Nat /\ Total(amounts, T) \in Nat /\ Total(amounts, S) <= Total(amounts, T)
  BY <1>1, <1>2, TotalOfPart
<1>. QED  BY <1>3

LEMMA EmptyIsIndexed == ASSUME NEW f, NEW t PROVE Indexed(EmptySet, {}, f, t)
<1>. PICK set : set = EmptySet
  OBVIOUS
<1>1. /\ set.accepted = {} /\ set.claimedBurns = {} /\ set.supplyByMint = [m \in Mints |-> 0]
      /\ set = [accepted |-> set.accepted, rejected |-> set.rejected, pending |-> set.pending,
                claimedBurns |-> set.claimedBurns, supplyByMint |-> set.supplyByMint]
  BY DEF EmptySet
<1>2. Claimed({}, f, t) = {}
  BY DEF Claimed
<1>3. \A m \in Mints : set.supplyByMint[m] <= Total(amounts, Counted(m, Claimed({}, f, t), f))
  BY <1>1, SupplyGrows
<1>4. set.supplyByMint \in [Mints -> Nat]
  BY <1>1
<1>. QED  BY <1>1, <1>2, <1>3, <1>4 DEF Indexed

\* The next item of the order, and what it makes of the index.
LEMMA IndexedStep ==
  ASSUME NEW s, Chain(s), Scripted(s), NEW x, IsLast(x, s), NEW f, NEW t,
         NEW set, Indexed(set, s \ {x}, f, t)
  PROVE  Indexed(indexOne(set, x, carried(x.script), f, t), s, f, t)
<1>. PICK r : r = s \ {x}
  OBVIOUS
<1>. PICK stamp : stamp = carried(x.script).stamp
  OBVIOUS
<1>. PICK v : v = verdict(x, carried(x.script), set.claimedBurns, f, t)
  OBVIOUS
<1>. PICK new : new = indexOne(set, x, carried(x.script), f, t)
  OBVIOUS
<1>1. x \in s /\ x \notin r /\ s = r \cup {x} /\ x.script \in DOMAIN Script /\ BurnOf(x) = stamp.burn
  BY DEF IsLast, Scripted, BurnOf
<1>2. Indexed(set, r, f, t)
  OBVIOUS
<1>3. \A y \in r : canonicalOrder(y, x) /\ ~canonicalOrder(x, y) /\ y # x
  BY <1>1, OrderIsTotal DEF IsLast
<1>4. v = "accepted" <=> Valid(x, f, t) /\ BurnOf(x) \notin Claimed(r, f, t)
  <2>1. set.claimedBurns = Claimed(r, f, t)
    BY <1>2 DEF Indexed
  <2>2. verdict(x, carried(x.script), set.claimedBurns, f, t) = "accepted"
          <=> Valid(x, f, t) /\ BurnOf(x) \notin set.claimedBurns
    BY VerdictWhenClaimed
  <2>. QED  BY <2>1, <2>2
<1>5. new = filed(set, x, stamp, v)
  BY DEF indexOne
<1>11. set = [accepted |-> set.accepted, rejected |-> set.rejected, pending |-> set.pending,
              claimedBurns |-> set.claimedBurns, supplyByMint |-> set.supplyByMint]
  BY <1>2 DEF Indexed
<1>6. ASSUME NEW y \in r PROVE IsFirst(y, s, f, t) <=> IsFirst(y, r, f, t)
  BY <1>1, <1>3, <1>6 DEF IsFirst
<1>7. IsFirst(x, s, f, t) <=> v = "accepted"
  BY <1>1, <1>3, <1>4 DEF IsFirst, Claimed
<1>8. CASE v = "accepted"
  <2>1. PICK i : Cites(stamp, i, f)
    BY <1>1, <1>4, <1>8, ValidCites
  <2>2. /\ i \in DOMAIN Burns /\ Burns[i].mint = stamp.mint /\ Burns[i].signature = stamp.burn
        /\ ~Burns[i].err /\ Burns[i].signature \in f /\ Burns[i].amountBase = stamp.amt
    BY <2>1 DEF Cites
  <2>3. stamp.mint \in Mints /\ stamp.amt \in Nat
    BY <2>2, InscriptionsAssumption DEF Mints
  <2>4. new = [set EXCEPT !.accepted = @ \cup {x.txid}, !.claimedBurns = @ \cup {stamp.burn},
                          !.supplyByMint[stamp.mint] = @ + stamp.amt]
    BY <1>5, <1>8 DEF filed
  <2>5. /\ new.accepted = set.accepted \cup {x.txid}
        /\ new.claimedBurns = set.claimedBurns \cup {stamp.burn}
        /\ new.supplyByMint = [set.supplyByMint EXCEPT ![stamp.mint] = @ + stamp.amt]
        /\ new = [accepted |-> new.accepted, rejected |-> new.rejected, pending |-> new.pending,
                  claimedBurns |-> new.claimedBurns, supplyByMint |-> new.supplyByMint]
    BY <1>11, <2>4
  <2>6. Claimed(s, f, t) = Claimed(r, f, t) \cup {stamp.burn}
    BY <1>1, <1>4, <1>8 DEF Claimed
  <2>7. new.claimedBurns = Claimed(s, f, t)
    BY <1>2, <2>5, <2>6 DEF Indexed
  <2>8. new.accepted = {z.txid : z \in {y \in s : IsFirst(y, s, f, t)}}
    <3>1. {y \in s : IsFirst(y, s, f, t)} = {y \in r : IsFirst(y, r, f, t)} \cup {x}
      BY <1>1, <1>6, <1>7, <1>8
    <3>2. set.accepted = {z.txid : z \in {y \in r : IsFirst(y, r, f, t)}}
      BY <1>2 DEF Indexed
    <3>. PICK A : A = {y \in r : IsFirst(y, r, f, t)}
      OBVIOUS
    <3>3. {z.txid : z \in A \cup {x}} = {z.txid : z \in A} \cup {x.txid}
      OBVIOUS
    <3>. QED  BY <2>5, <3>1, <3>2, <3>3
  <2>9. set.supplyByMint \in [Mints -> Nat]
    BY <1>2 DEF Indexed
  <2>10. new.supplyByMint \in [Mints -> Nat]
    BY <2>3, <2>5, <2>9
  <2>11. ASSUME NEW m \in Mints
         PROVE  new.supplyByMint[m] <= Total(amounts, Counted(m, Claimed(s, f, t), f))
    <3>1. set.supplyByMint[m] <= Total(amounts, Counted(m, Claimed(r, f, t), f))
      BY <1>2 DEF Indexed
    <3>2. set.supplyByMint[m] \in Nat
      BY <2>9
    <3>3. /\ Total(amounts, Counted(m, Claimed(r, f, t), f)) \in Nat
          /\ Total(amounts, Counted(m, Claimed(s, f, t), f)) \in Nat
          /\ Total(amounts, Counted(m, Claimed(r, f, t), f))
               <= Total(amounts, Counted(m, Claimed(s, f, t), f))
      <4>1. Claimed(r, f, t) \subseteq Claimed(s, f, t)
        BY <2>6
      <4>. QED  BY <4>1, SupplyGrows
    <3>4. CASE m # stamp.mint
      <4>1. new.supplyByMint[m] = set.supplyByMint[m]
        BY <2>5, <2>9, <3>4
      <4>. QED  BY <3>1, <3>2, <3>3, <4>1
    <3>5. CASE m = stamp.mint
      <4>1. new.supplyByMint[m] = set.supplyByMint[m] + stamp.amt
        BY <2>5, <2>9, <3>5
      <4>2. Burns[i].signature \notin Claimed(r, f, t)
        BY <1>1, <1>4, <1>8, <2>2
      <4>3. Total(amounts, Counted(m, Claimed(r, f, t), f)) + Burns[i].amountBase
              <= Total(amounts, Counted(m, Claimed(r, f, t) \cup {Burns[i].signature}, f))
        BY <2>2, <3>5, <4>2, SupplyStep
      <4>4. Claimed(r, f, t) \cup {Burns[i].signature} = Claimed(s, f, t)
        BY <2>2, <2>6
      <4>5. Total(amounts, Counted(m, Claimed(r, f, t), f)) + stamp.amt
              <= Total(amounts, Counted(m, Claimed(s, f, t), f))
        BY <2>2, <4>3, <4>4
      <4>. QED  BY <2>3, <3>1, <3>2, <3>3, <4>1, <4>5
    <3>. QED  BY <3>4, <3>5
  <2>. QED  BY <2>5, <2>7, <2>8, <2>10, <2>11 DEF Indexed
<1>9. CASE v # "accepted"
  <2>1. /\ new.accepted = set.accepted /\ new.claimedBurns = set.claimedBurns
        /\ new.supplyByMint = set.supplyByMint
        /\ new = [accepted |-> new.accepted, rejected |-> new.rejected, pending |-> new.pending,
                  claimedBurns |-> new.claimedBurns, supplyByMint |-> new.supplyByMint]
    <3>1. new = (IF v = "pending" THEN [set EXCEPT !.pending = @ \cup {x.txid}]
                 ELSE [set EXCEPT !.rejected = @ \cup {[id |-> x.txid, reason |-> v]}])
      BY <1>5, <1>9 DEF filed
    <3>2. set = [accepted |-> set.accepted, rejected |-> set.rejected, pending |-> set.pending,
                 claimedBurns |-> set.claimedBurns, supplyByMint |-> set.supplyByMint]
      BY <1>2 DEF Indexed
    <3>. QED  BY <3>1, <3>2
  <2>2. Claimed(s, f, t) = Claimed(r, f, t)
    BY <1>1, <1>4, <1>9 DEF Claimed
  <2>3. {y \in s : IsFirst(y, s, f, t)} = {y \in r : IsFirst(y, r, f, t)}
    BY <1>1, <1>6, <1>7, <1>9
  <2>. QED  BY <1>2, <2>1, <2>2, <2>3 DEF Indexed
<1>10. Indexed(new, s, f, t)
  BY <1>8, <1>9
<1>. QED  BY <1>10

\* So the index of a chain is what the order of its claims makes it.
LEMMA IndexIsIndexed ==
  ASSUME NEW S, Chain(S), Scripted(S), NEW f, NEW t
  PROVE  Indexed(indexInscriptions(S, f, t), S, f, t)
<1>1. PICK g : Indexes(g, S, f, t) /\ indexInscriptions(S, f, t) = g[S]
  BY IndexIsStep
<1>. DEFINE F == {u \in SUBSET S : Indexed(g[u], u, f, t)}
<1>2. ASSUME NEW u \in SUBSET S, \A w \in SUBSET u : w # u => w \in F
      PROVE  u \in F
  <2>1. g[u] = indexStep(g, u, f, t)
    BY <1>1 DEF Indexes
  <2>2. CASE u = {}
    BY <2>1, <2>2, EmptyIsIndexed DEF indexStep
  <2>3. CASE u # {}
    <3>1. Chain(u) /\ Scripted(u) /\ IsLast(latest(u), u)
      BY <2>3, ChainPart, LatestIsLast DEF Scripted
    <3>. PICK x : x = latest(u)
      OBVIOUS
    <3>2. x \in u /\ IsLast(x, u)
      BY <3>1 DEF IsLast
    <3>3. Indexed(g[u \ {x}], u \ {x}, f, t)
      BY <1>2, <3>2
    <3>4. Indexed(indexOne(g[u \ {x}], x, carried(x.script), f, t), u, f, t)
      BY ONLY <3>1, <3>2, <3>3, IndexedStep
    <3>5. g[u] = indexOne(g[u \ {x}], x, carried(x.script), f, t)
      BY <2>1, <2>3 DEF indexStep
    <3>. QED  BY <3>4, <3>5
  <2>. QED  BY <2>2, <2>3
<1>3. \A u \in SUBSET S : u \in F
  <2>1. IsFiniteSet(S)
    BY DEF Chain
  <2>. HIDE DEF F
  <2>. QED  BY <1>2, <2>1, SubsetInduction
<1>. QED  BY <1>1, <1>3

\* If two heights are of one epoch, so is every height between them.
LEMMA SameEpoch ==
  ASSUME NEW a \in Nat, NEW b \in Nat, NEW h \in a .. b,
         upgradeForHeight(a) = upgradeForHeight(b)
  PROVE  upgradeForHeight(h) = upgradeForHeight(a)
<1>. DEFINE Active(x) == {n \in DOMAIN Upgrade : Upgrade[n] <= x}
<1>1. /\ DOMAIN Upgrade = 1 .. Len(Upgrade) /\ Len(Upgrade) \in Nat
      /\ \A n \in DOMAIN Upgrade : Upgrade[n] \in Nat
  BY InscribeAssumption
<1>2. IsFiniteSet(DOMAIN Upgrade)
  BY <1>1, FS_Interval
<1>3. IsFiniteSet(Active(b))
  BY <1>2, FS_Subset
<1>4. Active(a) \subseteq Active(h) /\ Active(h) \subseteq Active(b)
  BY <1>1
<1>5. Cardinality(Active(a)) = Cardinality(Active(b))
  BY DEF upgradeForHeight
<1>6. Active(a) = Active(b)
  BY <1>3, <1>4, <1>5, FS_Subset
<1>7. Active(h) = Active(a)
  BY <1>4, <1>6
<1>. QED  BY <1>7 DEF upgradeForHeight

\* A pair that can be mined at every height up to its expiry, seen from t.
Minable(pair, t) ==
  /\ {"branch", "expiryHeight"} \subseteq DOMAIN pair
  /\ \A h \in t + 1 .. pair.expiryHeight : pair.branch = upgradeForHeight(h)

\* The strengthening: of every pair ever made, mined or not.
IInv ==
  /\ tip \in Nat
  /\ Len(made) \in Nat /\ made = [i \in 1 .. Len(made) |-> made[i]]
  /\ \A i \in 1 .. Len(made) :
       made[i].expiryHeight \in Nat /\ Minable(made[i], tip)

LEMMA InitIInv == Init => IInv
BY PublicationAssumption DEF Init, IInv

LEMMA LengthOfFunction ==
  ASSUME NEW n \in Nat, NEW f, f = [i \in 1 .. n |-> f[i]]
  PROVE  Len(f) = n
<1>. DEFINE S == {f[i] : i \in 1 .. n}
<1>1. f \in [1 .. n -> S]
  OBVIOUS
<1>2. f \in Seq(S)
  BY <1>1
<1>3. Len(f) \in Nat /\ DOMAIN f = 1 .. Len(f)
  BY <1>2
<1>4. DOMAIN f = 1 .. n
  BY <1>1
<1>. HIDE DEF S
<1>. QED  BY <1>3, <1>4

\* Blocks write only where a pair was mined, and the tip only grows.
LEMMA ChainStep ==
  ASSUME IInv, tip' \in {tip, tip + 1},
         made' = [i \in 1 .. Len(made) |-> made'[i]],
         \A i \in 1 .. Len(made) :
           /\ DOMAIN made'[i] = DOMAIN made[i]
           /\ {"branch", "expiryHeight"} \subseteq DOMAIN made[i] =>
                /\ made'[i].branch = made[i].branch
                /\ made'[i].expiryHeight = made[i].expiryHeight
  PROVE  IInv'
<1>1. tip \in Nat /\ Len(made) \in Nat /\ tip' \in Nat
  BY DEF IInv
<1>2. Len(made') = Len(made)
  BY <1>1, LengthOfFunction
<1>3. ASSUME NEW i \in 1 .. Len(made')
      PROVE  made'[i].expiryHeight \in Nat /\ Minable(made'[i], tip')
  <2>1. made[i].expiryHeight \in Nat /\ Minable(made[i], tip)
    BY <1>2, <1>3 DEF IInv
  <2>2. /\ DOMAIN made'[i] = DOMAIN made[i]
        /\ made'[i].branch = made[i].branch
        /\ made'[i].expiryHeight = made[i].expiryHeight
    BY <1>2, <1>3, <2>1 DEF Minable
  <2>3. tip' + 1 .. made[i].expiryHeight \subseteq tip + 1 .. made[i].expiryHeight
    BY <1>1, <2>1
  <2>. QED  BY <2>1, <2>2, <2>3 DEF Minable
<1>4. Len(made') \in Nat /\ made' = [i \in 1 .. Len(made') |-> made'[i]]
  BY <1>1, <1>2
<1>. QED  BY <1>1, <1>3, <1>4 DEF IInv

LEMMA PublishStep ==
  ASSUME IInv, NEW k \in Stamp, Publish(k)
  PROVE  IInv'
<1>. DEFINE pair == buildStamp(Plan(k), coins, tip)
            new == handed(pair, 2 * Len(made) + 2, Reveal(k, 72).taken)
            S == {made[i] : i \in 1 .. Len(made)} \cup {new}
<1>1. tip \in Nat /\ Len(made) \in Nat /\ tip' = tip
  BY DEF IInv, Publish
<1>2. made \in Seq(S) /\ new \in S /\ made' = Append(made, new)
  <2>1. made \in [1 .. Len(made) -> S]
    BY DEF IInv
  <2>. QED  BY <1>1, <2>1 DEF Publish
<1>3. /\ Len(made') = Len(made) + 1
      /\ made' = [i \in 1 .. Len(made') |-> made'[i]]
      /\ \A i \in 1 .. Len(made) : made'[i] = made[i]
      /\ made'[Len(made) + 1] = new
  BY <1>1, <1>2
<1>4. /\ {"branch", "expiryHeight"} \subseteq DOMAIN pair
      /\ pair.expiryHeight = tip + DEFAULT_EXPIRY_DELTA
      /\ pair.branch = upgradeForHeight(tip + DEFAULT_EXPIRY_DELTA)
      /\ pair.branch = upgradeForHeight(tip + 1)
  BY DEF buildStamp, pairOf, transactionShell, Publish
<1>5. /\ {"branch", "expiryHeight"} \subseteq DOMAIN new
      /\ new.branch = pair.branch /\ new.expiryHeight = pair.expiryHeight
  BY <1>4 DEF handed
<1>6. ASSUME NEW h \in tip + 1 .. new.expiryHeight
      PROVE  new.branch = upgradeForHeight(h)
  <2>. DEFINE a == tip + 1
              b == tip + DEFAULT_EXPIRY_DELTA
  <2>1. a \in Nat /\ b \in Nat /\ h \in a .. b
    BY <1>1, <1>4, <1>5, <1>6, InscribeAssumption
  <2>2. upgradeForHeight(a) = upgradeForHeight(b)
    BY <1>4
  <2>. HIDE DEF a, b
  <2>3. upgradeForHeight(h) = upgradeForHeight(a)
    BY <2>1, <2>2, SameEpoch
  <2>. QED  BY <1>4, <1>5, <2>3 DEF a
<1>7. new.expiryHeight \in Nat /\ Minable(new, tip)
  BY <1>1, <1>4, <1>5, <1>6, InscribeAssumption DEF Minable
<1>8. ASSUME NEW i \in 1 .. Len(made')
      PROVE  made'[i].expiryHeight \in Nat /\ Minable(made'[i], tip')
  <2>1. CASE i \in 1 .. Len(made)
    BY <1>1, <1>3, <2>1 DEF IInv
  <2>2. CASE i = Len(made) + 1
    BY <1>1, <1>3, <1>7, <2>2
  <2>. QED  BY <1>1, <1>3, <2>1, <2>2
<1>. QED  BY <1>1, <1>3, <1>8 DEF IInv

LEMMA NextIInv == IInv /\ [Next]_vars => IInv'
<1>. SUFFICES ASSUME IInv, [Next]_vars PROVE IInv'
  OBVIOUS
<1>1. ASSUME NEW k \in Stamp, Publish(k) PROVE IInv'
  BY <1>1, PublishStep
<1>2. ASSUME NEW C \in SUBSET DOMAIN made, NEW R \in SUBSET DOMAIN made,
             NEW found, Mine(C, R, found)
      PROVE  IInv'
  <2>1. /\ tip' = tip + 1
        /\ made' = [i \in DOMAIN made |->
                      [made[i] EXCEPT !.commit = IF i \in C THEN tip' ELSE @,
                                      !.reveal = IF i \in R THEN tip' ELSE @]]
    BY <1>2 DEF Mine
  <2>2. DOMAIN made = 1 .. Len(made)
    BY DEF IInv
  <2>3. made' = [i \in 1 .. Len(made) |-> made'[i]]
    BY <2>1, <2>2
  <2>4. ASSUME NEW i \in 1 .. Len(made)
        PROVE  /\ DOMAIN made'[i] = DOMAIN made[i]
               /\ {"branch", "expiryHeight"} \subseteq DOMAIN made[i] =>
                    /\ made'[i].branch = made[i].branch
                    /\ made'[i].expiryHeight = made[i].expiryHeight
    BY <2>1, <2>2, <2>4
  <2>. QED  BY <2>1, <2>3, <2>4, ChainStep
<1>3. CASE Reorg
  <2>1. /\ tip' = tip
        /\ made' = [i \in DOMAIN made |->
                      [made[i] EXCEPT !.commit = IF @ = tip THEN Pool ELSE @,
                                      !.reveal = IF @ = tip THEN Pool ELSE @]]
    BY <1>3 DEF Reorg
  <2>2. DOMAIN made = 1 .. Len(made)
    BY DEF IInv
  <2>3. made' = [i \in 1 .. Len(made) |-> made'[i]]
    BY <2>1, <2>2
  <2>4. ASSUME NEW i \in 1 .. Len(made)
        PROVE  /\ DOMAIN made'[i] = DOMAIN made[i]
               /\ {"branch", "expiryHeight"} \subseteq DOMAIN made[i] =>
                    /\ made'[i].branch = made[i].branch
                    /\ made'[i].expiryHeight = made[i].expiryHeight
    BY <2>1, <2>2, <2>4
  <2>. QED  BY <2>1, <2>3, <2>4, ChainStep
<1>4. ASSUME NEW i \in DOMAIN Burns, Finalize(Burns[i].signature)
      PROVE  IInv'
  BY <1>4 DEF Finalize, IInv, Minable
<1>5. CASE UNCHANGED vars
  BY <1>5 DEF vars, IInv, Minable
<1>. QED  BY <1>1, <1>2, <1>3, <1>4, <1>5 DEF Next

\* What the node took can be mined in every block up to its expiry, wherever
\* upgrades fall (transactionShell).
THEOREM TakenStaysMinable == Spec => []StaysMinable
<1>1. IInv => StaysMinable
  BY DEF IInv, Minable, StaysMinable
<1>. QED  BY <1>1, InitIInv, NextIInv, PTL DEF Spec

(* ------------------------------- the pairs ----------------------------- *)

Fields == {"text", "built", "spent", "changeZat", "commitFeeZat", "totalZat", "expiryHeight",
           "branch", "txid", "commit", "reveal"}

\* Every pair ever made, as the blocks of the best chain have it.
PInv ==
  /\ tip \in StartTip .. MaxTip
  /\ \A i \in 1 .. Len(made) :
       /\ DOMAIN made[i] = Fields
       /\ made[i].txid = 2 * i /\ made[i].text \in Stamp
       /\ made[i].commit \in {Pool} \cup StartTip + 1 .. tip
       /\ made[i].reveal \in {Refused, Pool} \cup StartTip + 1 .. tip
       /\ made[i].reveal > 0 => made[i].commit \in 1 .. made[i].reveal

\* A pair of which only blocks have changed something.
Kept(m, n) ==
  /\ DOMAIN n = Fields
  /\ n.text = m.text /\ n.spent = m.spent /\ n.changeZat = m.changeZat
  /\ n.commitFeeZat = m.commitFeeZat /\ n.totalZat = m.totalZat /\ n.txid = m.txid
  /\ n.expiryHeight = m.expiryHeight /\ n.branch = m.branch

MineMakes(C, R) ==
  /\ Len(made') = Len(made)
  /\ \A i \in 1 .. Len(made) :
       /\ Kept(made[i], made'[i])
       /\ made'[i].commit = IF i \in C THEN tip + 1 ELSE made[i].commit
       /\ made'[i].reveal = IF i \in R THEN tip + 1 ELSE made[i].reveal

LEMMA MineMade ==
  ASSUME IInv, PInv, NEW C, NEW R, NEW found, Mine(C, R, found)
  PROVE  MineMakes(C, R)
<1>1. /\ Len(made) \in Nat /\ DOMAIN made = 1 .. Len(made) /\ tip' = tip + 1
      /\ made' = [i \in 1 .. Len(made) |->
                    [made[i] EXCEPT !.commit = IF i \in C THEN tip' ELSE @,
                                    !.reveal = IF i \in R THEN tip' ELSE @]]
  BY DEF IInv, Mine
<1>2. Len(made') = Len(made)
  BY <1>1, LengthOfFunction
<1>3. ASSUME NEW i \in 1 .. Len(made)
      PROVE  /\ Kept(made[i], made'[i])
             /\ made'[i].commit = IF i \in C THEN tip + 1 ELSE made[i].commit
             /\ made'[i].reveal = IF i \in R THEN tip + 1 ELSE made[i].reveal
  <2>. PICK m : m = made[i]
    OBVIOUS
  <2>1. DOMAIN m = Fields
    BY <1>3 DEF PInv
  <2>2. made'[i] = [m EXCEPT !.commit = IF i \in C THEN tip + 1 ELSE @,
                             !.reveal = IF i \in R THEN tip + 1 ELSE @]
    BY <1>1, <1>3
  <2>. QED  BY <2>1, <2>2 DEF Fields, Kept
<1>. QED  BY <1>2, <1>3 DEF MineMakes

ReorgMakes ==
  /\ Len(made') = Len(made)
  /\ \A i \in 1 .. Len(made) :
       /\ Kept(made[i], made'[i])
       /\ made'[i].commit = IF made[i].commit = tip THEN Pool ELSE made[i].commit
       /\ made'[i].reveal = IF made[i].reveal = tip THEN Pool ELSE made[i].reveal

LEMMA ReorgMade ==
  ASSUME IInv, PInv, Reorg
  PROVE  ReorgMakes
<1>1. /\ Len(made) \in Nat /\ DOMAIN made = 1 .. Len(made)
      /\ made' = [i \in 1 .. Len(made) |->
                    [made[i] EXCEPT !.commit = IF @ = tip THEN Pool ELSE @,
                                    !.reveal = IF @ = tip THEN Pool ELSE @]]
  BY DEF IInv, Reorg
<1>2. Len(made') = Len(made)
  BY <1>1, LengthOfFunction
<1>3. ASSUME NEW i \in 1 .. Len(made)
      PROVE  /\ Kept(made[i], made'[i])
             /\ made'[i].commit = IF made[i].commit = tip THEN Pool ELSE made[i].commit
             /\ made'[i].reveal = IF made[i].reveal = tip THEN Pool ELSE made[i].reveal
  <2>. PICK m : m = made[i]
    OBVIOUS
  <2>1. DOMAIN m = Fields
    BY <1>3 DEF PInv
  <2>2. made'[i] = [m EXCEPT !.commit = IF @ = tip THEN Pool ELSE @,
                             !.reveal = IF @ = tip THEN Pool ELSE @]
    BY <1>1, <1>3
  <2>. QED  BY <2>1, <2>2 DEF Fields, Kept
<1>. QED  BY <1>2, <1>3 DEF ReorgMakes

\* A new pair has what buildStamp gave it, and nothing of it is mined.
PublishMakes(k) ==
  LET pair == buildStamp(Plan(k), coins, tip)
      n == Len(made) + 1 IN
  /\ Len(made') = n
  /\ \A i \in 1 .. Len(made) : made'[i] = made[i]
  /\ DOMAIN made'[n] = Fields
  /\ made'[n].txid = 2 * n /\ made'[n].text = pair.text
  /\ made'[n].spent = pair.spent /\ made'[n].changeZat = pair.changeZat
  /\ made'[n].commitFeeZat = pair.commitFeeZat /\ made'[n].totalZat = pair.totalZat
  /\ made'[n].expiryHeight = pair.expiryHeight /\ made'[n].branch = pair.branch
  /\ made'[n].commit = Pool /\ made'[n].reveal \in {Pool, Refused}

LEMMA PublishMade ==
  ASSUME IInv, NEW k \in Stamp, Publish(k)
  PROVE  PublishMakes(k)
<1>. PICK pair : pair = buildStamp(Plan(k), coins, tip)
  OBVIOUS
<1>. PICK new : new = handed(pair, 2 * Len(made) + 2, Reveal(k, 72).taken)
  OBVIOUS
<1>. DEFINE S == {made[i] : i \in 1 .. Len(made)} \cup {new}
<1>1. Len(made) \in Nat /\ made' = Append(made, new)
  BY DEF IInv, Publish
<1>2. made \in Seq(S) /\ new \in S
  <2>1. made \in [1 .. Len(made) -> S]
    BY DEF IInv
  <2>. QED  BY <1>1, <2>1
<1>3. /\ Len(made') = Len(made) + 1
      /\ \A i \in 1 .. Len(made) : made'[i] = made[i]
      /\ made'[Len(made) + 1] = new
  BY <1>1, <1>2
<1>4. /\ DOMAIN pair = {"text", "built", "spent", "changeZat", "commitFeeZat", "totalZat",
                         "expiryHeight", "branch"}
  BY DEF buildStamp, pairOf
<1>5. /\ DOMAIN new = Fields
      /\ new.txid = 2 * Len(made) + 2 /\ new.text = pair.text
      /\ new.spent = pair.spent /\ new.changeZat = pair.changeZat
      /\ new.commitFeeZat = pair.commitFeeZat /\ new.totalZat = pair.totalZat
      /\ new.expiryHeight = pair.expiryHeight /\ new.branch = pair.branch
      /\ new.commit = Pool /\ new.reveal \in {Pool, Refused}
  BY <1>4 DEF handed, Fields
<1>6. 2 * Len(made) + 2 = 2 * (Len(made) + 1)
  BY <1>1
<1>. QED  BY <1>3, <1>5, <1>6 DEF PublishMakes

LEMMA PlanOfText ==
  ASSUME NEW k \in Stamp
  PROVE  Plan(k) = planInscription(k) /\ Plan(k).text = k
<1>1. \A n \in Stamp : planInscription(n).text = n
  BY DEF planInscription
<1>2. Plan(k) \in Plans /\ Plan(k).text = k
  <2>1. \E plan \in Plans : plan.text = k
    BY <1>1 DEF Plans
  <2>. QED  BY <2>1, Zenon DEF Plan
<1>. QED  BY <1>1, <1>2 DEF Plans

\* The heights of a pair after a block: commit c and reveal r before it.
LEMMA BlockHeights ==
  ASSUME NEW s \in Nat, NEW t \in Nat, NEW c \in {0} \cup s + 1 .. t,
         NEW r \in {-1, 0} \cup s + 1 .. t, r > 0 => c \in 1 .. r,
         NEW P, NEW Q, P => c = 0, Q => r = 0 /\ (c > 0 \/ P),
         NEW d, NEW e, d = (IF P THEN t + 1 ELSE c), e = (IF Q THEN t + 1 ELSE r),
         s <= t
  PROVE  /\ d \in {0} \cup s + 1 .. t + 1 /\ e \in {-1, 0} \cup s + 1 .. t + 1
         /\ e > 0 => d \in 1 .. e
<1>1. CASE P /\ Q
  BY <1>1
<1>2. CASE P /\ ~Q
  BY <1>2
<1>3. CASE ~P /\ Q
  BY <1>3
<1>4. CASE ~P /\ ~Q
  BY <1>4
<1>. QED  BY <1>1, <1>2, <1>3, <1>4

LEMMA InitPInv == Init => PInv
BY PublicationAssumption DEF Init, PInv

LEMMA NextPInv == IInv /\ PInv /\ [Next]_vars => PInv'
<1>. SUFFICES ASSUME IInv, PInv, [Next]_vars PROVE PInv'
  OBVIOUS
<1>0. tip \in Nat /\ StartTip \in Nat /\ Len(made) \in Nat /\ tip \in StartTip .. MaxTip
      /\ MaxTip \in Nat
  BY PublicationAssumption DEF IInv, PInv
<1>1. ASSUME NEW k \in Stamp, Publish(k) PROVE PInv'
  <2>1. PublishMakes(k) /\ tip' = tip
    BY <1>1, PublishMade DEF Publish
  <2>2. buildStamp(Plan(k), coins, tip).text = k
    BY PlanOfText DEF buildStamp, pairOf
  <2>. PICK n : n = Len(made) + 1
    OBVIOUS
  <2>3. /\ Len(made') = n /\ n \in Nat
        /\ \A i \in 1 .. Len(made) : made'[i] = made[i]
        /\ DOMAIN made'[n] = Fields
        /\ made'[n].txid = 2 * n /\ made'[n].text = k
        /\ made'[n].commit = Pool /\ made'[n].reveal \in {Pool, Refused}
    BY <1>0, <2>1, <2>2 DEF PublishMakes
  <2>4. \A i \in 1 .. n : i = n \/ i \in 1 .. Len(made)
    BY <1>0
  <2>5. ASSUME NEW i \in 1 .. n
        PROVE  /\ DOMAIN made'[i] = Fields
               /\ made'[i].txid = 2 * i /\ made'[i].text \in Stamp
               /\ made'[i].commit \in {Pool} \cup StartTip + 1 .. tip'
               /\ made'[i].reveal \in {Refused, Pool} \cup StartTip + 1 .. tip'
               /\ made'[i].reveal > 0 => made'[i].commit \in 1 .. made'[i].reveal
    <3>1. CASE i = n
      BY <2>3, <3>1 DEF Pool, Refused
    <3>2. CASE i \in 1 .. Len(made)
      BY <2>1, <2>3, <3>2 DEF PInv
    <3>. QED  BY <2>4, <3>1, <3>2
  <2>. QED  BY <1>0, <2>1, <2>3, <2>5 DEF PInv
<1>2. ASSUME NEW C \in SUBSET DOMAIN made, NEW R \in SUBSET DOMAIN made,
             NEW found, Mine(C, R, found)
      PROVE  PInv'
  <2>1. MineMakes(C, R) /\ tip' = tip + 1
    BY <1>2, MineMade DEF Mine
  <2>2. /\ \A i \in C : made[i].commit = Pool
        /\ \A i \in R : made[i].reveal = Pool /\ (made[i].commit > 0 \/ i \in C)
    BY <1>2 DEF Mine
  <2>3. ASSUME NEW i \in 1 .. Len(made)
        PROVE  /\ DOMAIN made'[i] = Fields
               /\ made'[i].txid = 2 * i /\ made'[i].text \in Stamp
               /\ made'[i].commit \in {Pool} \cup StartTip + 1 .. tip'
               /\ made'[i].reveal \in {Refused, Pool} \cup StartTip + 1 .. tip'
               /\ made'[i].reveal > 0 => made'[i].commit \in 1 .. made'[i].reveal
    <3>1. /\ made[i].txid = 2 * i /\ made[i].text \in Stamp
          /\ made[i].commit \in {Pool} \cup StartTip + 1 .. tip
          /\ made[i].reveal \in {Refused, Pool} \cup StartTip + 1 .. tip
          /\ made[i].reveal > 0 => made[i].commit \in 1 .. made[i].reveal
      BY <2>3 DEF PInv
    <3>2. /\ Kept(made[i], made'[i])
          /\ made'[i].commit = IF i \in C THEN tip + 1 ELSE made[i].commit
          /\ made'[i].reveal = IF i \in R THEN tip + 1 ELSE made[i].reveal
      BY <2>1, <2>3 DEF MineMakes
    <3>3. DOMAIN made'[i] = Fields /\ made'[i].txid = made[i].txid /\ made'[i].text = made[i].text
      BY <3>2 DEF Kept
    <3>4. i \in C => made[i].commit = 0
      BY <2>2 DEF Pool
    <3>5. i \in R => made[i].reveal = 0 /\ (made[i].commit > 0 \/ i \in C)
      BY <2>2 DEF Pool
    <3>. PICK c, r, d, e, t : /\ c = made[i].commit /\ r = made[i].reveal
                              /\ d = made'[i].commit /\ e = made'[i].reveal /\ t = tip
      OBVIOUS
    <3>8. /\ d \in {0} \cup StartTip + 1 .. t + 1 /\ e \in {-1, 0} \cup StartTip + 1 .. t + 1
          /\ e > 0 => d \in 1 .. e
      <4>1. /\ c \in {0} \cup StartTip + 1 .. t /\ r \in {-1, 0} \cup StartTip + 1 .. t
            /\ r > 0 => c \in 1 .. r
        BY <3>1 DEF Pool, Refused
      <4>2. d = (IF i \in C THEN t + 1 ELSE c) /\ e = (IF i \in R THEN t + 1 ELSE r)
        BY <3>2
      <4>3. (i \in C => c = 0) /\ (i \in R => r = 0 /\ (c > 0 \/ i \in C))
        BY <3>4, <3>5
      <4>4. t \in Nat /\ StartTip \in Nat /\ StartTip <= t
        BY <1>0
      <4>. QED  BY ONLY <4>1, <4>2, <4>3, <4>4, BlockHeights
    <3>. QED  BY <2>1, <3>1, <3>3, <3>8 DEF Pool, Refused
  <2>4. tip' \in StartTip .. MaxTip
    <3>1. tip < MaxTip
      BY <1>2 DEF Mine
    <3>. QED  BY <1>0, <2>1, <3>1
  <2>. QED  BY <2>1, <2>3, <2>4 DEF PInv, MineMakes
<1>3. CASE Reorg
  <2>1. ReorgMakes /\ tip' = tip /\ tip > StartTip
    BY <1>3, ReorgMade DEF Reorg
  <2>2. ASSUME NEW i \in 1 .. Len(made)
        PROVE  /\ DOMAIN made'[i] = Fields
               /\ made'[i].txid = 2 * i /\ made'[i].text \in Stamp
               /\ made'[i].commit \in {Pool} \cup StartTip + 1 .. tip'
               /\ made'[i].reveal \in {Refused, Pool} \cup StartTip + 1 .. tip'
               /\ made'[i].reveal > 0 => made'[i].commit \in 1 .. made'[i].reveal
    <3>1. /\ made[i].txid = 2 * i /\ made[i].text \in Stamp
          /\ made[i].commit \in {Pool} \cup StartTip + 1 .. tip
          /\ made[i].reveal \in {Refused, Pool} \cup StartTip + 1 .. tip
          /\ made[i].reveal > 0 => made[i].commit \in 1 .. made[i].reveal
      BY <2>2 DEF PInv
    <3>2. /\ Kept(made[i], made'[i])
          /\ made'[i].commit = IF made[i].commit = tip THEN Pool ELSE made[i].commit
          /\ made'[i].reveal = IF made[i].reveal = tip THEN Pool ELSE made[i].reveal
      BY <2>1, <2>2 DEF ReorgMakes
    <3>3. DOMAIN made'[i] = Fields /\ made'[i].txid = made[i].txid /\ made'[i].text = made[i].text
      BY <3>2 DEF Kept
    <3>. QED  BY <1>0, <2>1, <3>1, <3>2, <3>3 DEF Pool, Refused
  <2>. QED  BY <1>0, <2>1, <2>2 DEF PInv, ReorgMakes
<1>4. ASSUME NEW i \in DOMAIN Burns, Finalize(Burns[i].signature)
      PROVE  PInv'
  BY <1>4 DEF Finalize, PInv
<1>5. CASE UNCHANGED vars
  BY <1>5 DEF vars, PInv
<1>. QED  BY <1>1, <1>2, <1>3, <1>4, <1>5 DEF Next

(* --------------------------- what is inscribed ------------------------- *)

\* What others have inscribed: odd txids, each once, in the blocks there are.
OInv ==
  /\ IsFiniteSet(others)
  /\ \A o \in others : /\ o.height \in StartTip + 1 .. tip /\ o.script \in DOMAIN Script
                       /\ \E n \in Nat : o.txid = 2 * n + 1
  /\ \A x, y \in others : x.txid = y.txid => x = y

LEMMA InitOInv == Init => OInv
BY FS_EmptySet DEF Init, OInv

LEMMA NextOInv == PInv /\ OInv /\ [Next]_vars => OInv'
<1>. SUFFICES ASSUME PInv, OInv, [Next]_vars PROVE OInv'
  OBVIOUS
<1>0. tip \in Nat /\ StartTip \in Nat /\ StartTip <= tip
  BY PublicationAssumption DEF PInv
<1>1. ASSUME NEW k \in Stamp, Publish(k) PROVE OInv'
  BY <1>1 DEF Publish, OInv
<1>2. ASSUME NEW C \in SUBSET DOMAIN made, NEW R \in SUBSET DOMAIN made,
             NEW found \in {{}} \cup {{o} : o \in foreign}, Mine(C, R, found)
      PROVE  OInv'
  <2>1. /\ others' = others \cup found /\ tip' = tip + 1
        /\ \A item \in found : \A other \in others : item.txid # other.txid
    BY <1>2 DEF Mine
  <2>2. /\ IsFiniteSet(found)
        /\ \A x, y \in found : x = y
    BY FS_EmptySet, FS_Singleton
  <2>3. \A o \in found : /\ o.height = tip + 1 /\ o.script \in DOMAIN Script
                         /\ \E n \in Nat : o.txid = 2 * n + 1
    <3>1. ASSUME NEW o \in foreign
          PROVE  /\ o.height = tip + 1 /\ o.script \in DOMAIN Script
                 /\ \E n \in Nat : o.txid = 2 * n + 1
      <4>1. PICK p \in Others, n \in 0 .. MaxMade :
              o = [txid |-> 2 * n + 1, height |-> tip + 1, script |-> p.script, outputs |-> p.outputs]
        BY <3>1 DEF foreign
      <4>2. n \in Nat /\ o.txid = 2 * n + 1 /\ o.height = tip + 1 /\ o.script = p.script
        BY <4>1
      <4>. QED  BY <4>2, PublicationAssumption
    <3>. QED  BY <3>1
  <2>4. IsFiniteSet(others')
    BY <2>1, <2>2, FS_Union DEF OInv
  <2>5. \A o \in others' : /\ o.height \in StartTip + 1 .. tip' /\ o.script \in DOMAIN Script
                           /\ \E n \in Nat : o.txid = 2 * n + 1
    BY <1>0, <2>1, <2>3 DEF OInv
  <2>6. \A x, y \in others' : x.txid = y.txid => x = y
    BY <2>1, <2>2 DEF OInv
  <2>. QED  BY <2>4, <2>5, <2>6 DEF OInv
<1>3. CASE Reorg
  <2>1. others' = {item \in others : item.height # tip} /\ tip' = tip
    BY <1>3 DEF Reorg
  <2>2. IsFiniteSet(others')
    BY <2>1, FS_Subset DEF OInv
  <2>. QED  BY <2>1, <2>2 DEF OInv
<1>4. ASSUME NEW i \in DOMAIN Burns, Finalize(Burns[i].signature)
      PROVE  OInv'
  BY <1>4 DEF Finalize, OInv
<1>5. CASE UNCHANGED vars
  BY <1>5 DEF vars, OInv
<1>. QED  BY <1>1, <1>2, <1>3, <1>4, <1>5 DEF Next

\* The pairs whose reveal is on chain.
shown == {i \in DOMAIN made : made[i].reveal > 0}

LEMMA InscribedPair ==
  ASSUME IInv, PInv, NEW i \in shown
  PROVE  /\ i \in Nat /\ observed(made[i]).txid = 2 * i
         /\ observed(made[i]).height = made[i].reveal
         /\ made[i].reveal \in StartTip + 1 .. tip
         /\ observed(made[i]).script = made[i].text
         /\ made[i].text \in Stamp /\ made[i].text \in DOMAIN Script
<1>1. i \in 1 .. Len(made) /\ made[i].reveal > 0 /\ Len(made) \in Nat
  BY DEF shown, IInv
<1>2. /\ made[i].txid = 2 * i /\ made[i].text \in Stamp
      /\ made[i].reveal \in {Refused, Pool} \cup StartTip + 1 .. tip
  BY <1>1 DEF PInv
<1>3. /\ observed(made[i]).txid = made[i].txid /\ observed(made[i]).height = made[i].reveal
      /\ observed(made[i]).script = made[i].text
  BY DEF observed
<1>. QED  BY <1>1, <1>2, <1>3, PublicationAssumption DEF Refused, Pool

\* What is inscribed is a chain whose scripts the index can read.
LEMMA InscriptionsAreAChain ==
  ASSUME IInv, PInv, OInv
  PROVE  Chain(inscriptions) /\ Scripted(inscriptions)
<1>. PICK mine : mine = {observed(made[i]) : i \in shown}
  OBVIOUS
<1>1. inscriptions = others \cup mine
  BY DEF inscriptions, shown
<1>2. IsFiniteSet(mine)
  <2>1. DOMAIN made = 1 .. Len(made) /\ Len(made) \in Nat
    BY DEF IInv
  <2>2. IsFiniteSet(1 .. Len(made)) /\ shown \subseteq 1 .. Len(made)
    BY <2>1, FS_Interval DEF shown
  <2>3. IsFiniteSet(shown)
    BY <2>2, FS_Subset
  <2>. PICK seen : seen = [i \in shown |-> observed(made[i])]
    OBVIOUS
  <2>4. mine = {seen[i] : i \in shown}
    OBVIOUS
  <2>. QED  BY <2>3, <2>4, ImageIsFinite
<1>3. IsFiniteSet(inscriptions)
  BY <1>1, <1>2, FS_Union DEF OInv
<1>4. ASSUME NEW x \in mine
      PROVE  /\ x.height \in Int /\ x.script \in DOMAIN Script
             /\ \E n \in Nat : x.txid = 2 * n
             /\ \A y \in mine : x.txid = y.txid => x = y
  <2>1. PICK i \in shown : x = observed(made[i])
    OBVIOUS
  <2>2. /\ i \in Nat /\ x.txid = 2 * i /\ x.height = made[i].reveal
        /\ made[i].reveal \in StartTip + 1 .. tip
        /\ x.script = made[i].text /\ made[i].text \in DOMAIN Script
    BY <2>1, InscribedPair
  <2>3. ASSUME NEW y \in mine, x.txid = y.txid PROVE x = y
    <3>1. PICK j \in shown : y = observed(made[j])
      OBVIOUS
    <3>2. j \in Nat /\ y.txid = 2 * j
      BY <3>1, InscribedPair
    <3>3. i = j
      BY <2>2, <2>3, <3>2
    <3>. QED  BY <2>1, <3>1, <3>3
  <2>4. x.height \in Int
    BY <2>2, PublicationAssumption
  <2>. QED  BY <2>2, <2>3, <2>4
<1>5. ASSUME NEW x \in others
      PROVE  /\ x.height \in Int /\ x.script \in DOMAIN Script
             /\ \E n \in Nat : x.txid = 2 * n + 1
  <2>1. x.height \in StartTip + 1 .. tip
    BY DEF OInv
  <2>. QED  BY <2>1, PublicationAssumption DEF OInv
<1>6. \A x \in inscriptions : x.height \in Int /\ x.txid \in Int /\ x.script \in DOMAIN Script
  BY <1>1, <1>4, <1>5
<1>7. ASSUME NEW x \in inscriptions, NEW y \in inscriptions, x.txid = y.txid PROVE x = y
  <2>1. CASE x \in mine /\ y \in mine
    BY <1>4, <1>7, <2>1
  <2>2. CASE x \in others /\ y \in others
    BY <1>7, <2>2 DEF OInv
  <2>3. \A a \in mine, b \in others : a.txid # b.txid
    BY <1>4, <1>5
  <2>. QED  BY <1>1, <1>7, <2>1, <2>2, <2>3
<1>. QED  BY <1>3, <1>6, <1>7 DEF Chain, Scripted

LEMMA ClaimsAreValid ==
  ASSUME NEW x
  PROVE  validClaim(x) <=> Valid(x, final, tip)
BY DEF validClaim, Valid

LEMMA FirstClaimsCountInvariant ==
  ASSUME IInv, PInv, OInv
  PROVE  FirstClaimsCount
<1>. PICK items, set : items = inscriptions /\ set = stampSet
  OBVIOUS
<1>1. Indexed(set, items, final, tip)
  BY InscriptionsAreAChain, IndexIsIndexed DEF stampSet
<1>2. FirstValidClaimCounts
  <2>1. set.accepted = {x.txid : x \in {y \in items : IsFirst(y, items, final, tip)}}
    BY <1>1 DEF Indexed
  <2>2. ASSUME NEW x \in items
        PROVE  IsFirst(x, items, final, tip)
                 <=> /\ validClaim(x)
                     /\ \A y \in items :
                          (validClaim(y) /\ carried(y.script).stamp.burn = carried(x.script).stamp.burn
                             /\ y # x)
                            => canonicalOrder(x, y)
    BY ClaimsAreValid DEF IsFirst, BurnOf
  <2>. QED  BY <2>1, <2>2 DEF FirstValidClaimCounts
<1>3. SupplyIsBurned
  <2>. SUFFICES ASSUME NEW mint \in Mints
                PROVE  set.supplyByMint[mint]
                         <= LET burned == {i \in DOMAIN Burns : /\ Burns[i].mint = mint /\ ~Burns[i].err
                                                                /\ Burns[i].signature \in final}
                            IN SumFunction([i \in burned |-> Burns[i].amountBase])
    BY DEF SupplyIsBurned
  <2>. PICK burned : burned = {i \in DOMAIN Burns : /\ Burns[i].mint = mint /\ ~Burns[i].err
                                                    /\ Burns[i].signature \in final}
    OBVIOUS
  <2>. PICK claimed : claimed = Counted(mint, Claimed(items, final, tip), final)
    OBVIOUS
  <2>1. set.supplyByMint[mint] \in Nat /\ set.supplyByMint[mint] <= Total(amounts, claimed)
    BY <1>1 DEF Indexed
  <2>2. claimed \subseteq burned /\ burned \subseteq DOMAIN Burns
    BY DEF Counted
  <2>3. /\ Total(amounts, claimed) \in Nat /\ Total(amounts, burned) \in Nat
        /\ Total(amounts, claimed) <= Total(amounts, burned)
    BY <2>2, AmountsWeigh, TotalOfPart
  <2>4. Total(amounts, burned) = SumFunction([i \in burned |-> Burns[i].amountBase])
    <3>1. [i \in burned |-> amounts[i]] = [i \in burned |-> Burns[i].amountBase]
      BY <2>2 DEF amounts
    <3>. QED  BY <3>1 DEF Total
  <2>5. set.supplyByMint[mint] <= SumFunction([i \in burned |-> Burns[i].amountBase])
    BY <2>1, <2>3, <2>4
  <2>. QED  BY <2>5
<1>. QED  BY <1>2, <1>3 DEF FirstClaimsCount

\* Every pair ever made keeps its shape and its place: it stays minable until it
\* expires, each half lies in a block of the chain or in none, and what others
\* inscribe never carries the txid of one of its reveals (publishIssuance).
THEOREM PairsKeepShape == Spec => [](IInv /\ PInv /\ OInv)
<1>1. Init => IInv /\ PInv /\ OInv
  BY InitIInv, InitPInv, InitOInv
<1>2. (IInv /\ PInv /\ OInv) /\ [Next]_vars => (IInv /\ PInv /\ OInv)'
  BY NextIInv, NextPInv, NextOInv
<1>. QED  BY <1>1, <1>2, PTL DEF Spec

\* What counts is the first valid claim of every burn in the order of the
\* chain, and never more of a mint than was burned of it (indexInscriptions).
THEOREM FirstClaimWins == Spec => []FirstClaimsCount
<1>1. IInv /\ PInv /\ OInv => FirstClaimsCount
  BY FirstClaimsCountInvariant
<1>. QED  BY <1>1, PairsKeepShape, PTL

(* ------------------------- what goes on counting ----------------------- *)

LEMMA ValidIsDeep ==
  ASSUME NEW x, NEW f, NEW t \in Int, x.height \in Int, Valid(x, f, t)
  PROVE  t - x.height + 1 >= MinConfirmations
<1>1. ~ (t - x.height + 1 < MinConfirmations)
  BY DEF Valid, verdict
<1>. QED  BY <1>1, InscriptionsAssumption

LEMMA ValidIsFinal ==
  ASSUME NEW x, NEW f, NEW t, x.script \in DOMAIN Script, Valid(x, f, t)
  PROVE  BurnOf(x) \in f
<1>1. PICK i : Cites(carried(x.script).stamp, i, f)
  BY ValidCites
<1>. QED  BY <1>1 DEF Cites, BurnOf

\* A verdict asks of the moment only that the inscription is deep enough and
\* that the burn it cites is final.
LEMMA ValidInTime ==
  ASSUME NEW x, x.height \in Int, x.script \in DOMAIN Script,
         NEW f, NEW t \in Int, Valid(x, f, t),
         NEW g, NEW u \in Int, BurnOf(x) \in g, u - x.height + 1 >= MinConfirmations
  PROVE  Valid(x, g, u)
<1>. PICK read : read = carried(x.script)
  OBVIOUS
<1>1. read.cited = cited(read.stamp)
  BY CarriedIsRead
<1>2. read.stamp # NotAStamp /\ read.cited # {}
  BY DEF Valid, verdict
<1>3. read.cited \subseteq Nat
  BY <1>1, InscriptionsAssumption DEF cited, entries
<1>4. PICK n \in read.cited : \A m \in read.cited : n <= m
  BY <1>2, <1>3, LeastNat
<1>5. Min(read.cited) \in read.cited
  BY <1>4 DEF Min
<1>6. Burns[Min(read.cited)].signature \in g
  BY <1>1, <1>2, <1>5 DEF cited, entries, BurnOf
<1>7. ~ (u - x.height + 1 < MinConfirmations)
  BY InscriptionsAssumption
<1>. QED  BY <1>6, <1>7 DEF Valid, verdict

\* What a step may do to what is inscribed: it loses at most the last block,
\* what is new is in a new block, and no burn stops being final.
Extends(S, f, t, T, g, u) ==
  /\ f \subseteq g /\ t <= u
  /\ \A x \in S : x.height < t => x \in T
  /\ \A y \in T : y \in S \/ y.height > t

LEMMA FirstStaysFirst ==
  ASSUME MinConfirmations > 1,
         NEW S, Chain(S), Scripted(S), NEW T, Chain(T), Scripted(T),
         NEW f, NEW g, NEW t \in Int, NEW u \in Int, Extends(S, f, t, T, g, u),
         NEW x, IsFirst(x, S, f, t)
  PROVE  IsFirst(x, T, g, u)
<1>1. x \in S /\ Valid(x, f, t) /\ x.height \in Int /\ x.script \in DOMAIN Script
  BY DEF IsFirst, Chain, Scripted
<1>2. t - x.height + 1 >= MinConfirmations /\ BurnOf(x) \in f /\ MinConfirmations \in Nat
  BY <1>1, ValidIsDeep, ValidIsFinal, InscriptionsAssumption
<1>3. x \in T
  BY <1>1, <1>2 DEF Extends
<1>4. BurnOf(x) \in g /\ u - x.height + 1 >= MinConfirmations
  BY <1>1, <1>2 DEF Extends
<1>5. Valid(x, g, u)
  BY <1>1, <1>4, ValidInTime
<1>6. ASSUME NEW y \in T, Valid(y, g, u), BurnOf(y) = BurnOf(x), y # x
      PROVE  canonicalOrder(x, y)
  <2>1. y.height \in Int /\ y.script \in DOMAIN Script
    BY DEF Chain, Scripted
  <2>2. CASE y.height > x.height
    BY <2>2 DEF canonicalOrder
  <2>3. CASE ~ (y.height > x.height)
    <3>1. y \in S
      BY <1>1, <1>2, <2>1, <2>3 DEF Extends
    <3>2. t - y.height + 1 >= MinConfirmations /\ BurnOf(y) \in f
      BY <1>1, <1>2, <1>6, <2>1, <2>3
    <3>3. Valid(y, f, t)
      BY <1>6, <2>1, <3>2, ValidInTime
    <3>. QED  BY <1>6, <3>1, <3>3 DEF IsFirst
  <2>. QED  BY <2>2, <2>3
<1>. QED  BY <1>3, <1>5, <1>6 DEF IsFirst

LEMMA SameInscription ==
  ASSUME NEW m, NEW n, Kept(m, n), n.reveal = m.reveal
  PROVE  observed(n) = observed(m)
BY DEF Kept, observed

\* The inscriptions of the pairs after a step.
LEMMA InscriptionsExtend ==
  ASSUME IInv, PInv, OInv, IInv', PInv', [Next]_vars
  PROVE  Extends(inscriptions, final, tip, inscriptions', final', tip')
<1>. PICK mine : mine = {observed(made[i]) : i \in shown}
  OBVIOUS
<1>. PICK mine1 : mine1 = {observed(made'[i]) : i \in shown'}
  OBVIOUS
<1>1. inscriptions = others \cup mine /\ inscriptions' = others' \cup mine1
  BY DEF inscriptions, shown
<1>0. tip \in Nat /\ StartTip \in Nat /\ DOMAIN made = 1 .. Len(made) /\ Len(made) \in Nat
      /\ DOMAIN made' = 1 .. Len(made') /\ Len(made') \in Nat
  BY PublicationAssumption DEF IInv
<1>2. \A i \in shown : observed(made[i]).height = made[i].reveal /\ made[i].reveal > 0
  BY DEF observed, shown
<1>3. \A i \in shown' : observed(made'[i]).height = made'[i].reveal /\ made'[i].reveal > 0
  BY DEF observed, shown
<1>4. ASSUME NEW k \in Stamp, Publish(k)
      PROVE  Extends(inscriptions, final, tip, inscriptions', final', tip')
  <2>1. PublishMakes(k) /\ tip' = tip /\ final' = final /\ others' = others
    BY <1>4, PublishMade DEF Publish
  <2>2. /\ Len(made') = Len(made) + 1
        /\ \A i \in 1 .. Len(made) : made'[i] = made[i]
        /\ made'[Len(made) + 1].reveal \in {Pool, Refused}
    BY <2>1 DEF PublishMakes
  <2>3. shown' = shown
    BY <1>0, <2>2 DEF shown, Pool, Refused
  <2>4. \A i \in shown : made'[i] = made[i]
    BY <1>0, <2>2 DEF shown
  <2>5. mine1 = mine
    BY <2>3, <2>4
  <2>6. inscriptions' = inscriptions
    BY <1>1, <2>1, <2>5
  <2>7. \A y : y \in inscriptions' => y \in inscriptions
    BY <2>6
  <2>. QED  BY <1>0, <2>1, <2>6, <2>7 DEF Extends
<1>5. ASSUME NEW C \in SUBSET DOMAIN made, NEW R \in SUBSET DOMAIN made,
             NEW found \in {{}} \cup {{o} : o \in foreign}, Mine(C, R, found)
      PROVE  Extends(inscriptions, final, tip, inscriptions', final', tip')
  <2>1. MineMakes(C, R) /\ tip' = tip + 1 /\ final' = final /\ others' = others \cup found
    BY <1>5, MineMade DEF Mine
  <2>2. \A o \in found : o.height = tip + 1
    BY DEF foreign
  <2>3. \A i \in R : made[i].reveal = Pool
    BY <1>5 DEF Mine
  <2>4. ASSUME NEW i \in shown PROVE observed(made[i]) \in mine1
    <3>1. i \in 1 .. Len(made) /\ made[i].reveal > 0 /\ i \notin R
      BY <1>0, <2>3 DEF shown, Pool
    <3>2. Kept(made[i], made'[i]) /\ made'[i].reveal = made[i].reveal
      BY <2>1, <3>1 DEF MineMakes
    <3>3. observed(made'[i]) = observed(made[i])
      BY <3>2, SameInscription
    <3>4. i \in shown'
      BY <1>0, <2>1, <3>1, <3>2 DEF shown, MineMakes
    <3>. QED  BY <3>3, <3>4
  <2>5. ASSUME NEW i \in shown' PROVE observed(made'[i]) \in mine \/ observed(made'[i]).height > tip
    <3>1. i \in 1 .. Len(made) /\ made'[i].reveal > 0
      BY <1>0, <2>1 DEF shown, MineMakes
    <3>2. /\ Kept(made[i], made'[i])
          /\ made'[i].reveal = IF i \in R THEN tip + 1 ELSE made[i].reveal
      BY <2>1, <3>1 DEF MineMakes
    <3>3. CASE i \in R
      BY <1>0, <1>3, <3>2, <3>3
    <3>4. CASE i \notin R
      <4>1. observed(made'[i]) = observed(made[i]) /\ i \in shown
        BY <1>0, <3>1, <3>2, <3>4, SameInscription DEF shown
      <4>. QED  BY <4>1
    <3>. QED  BY <3>3, <3>4
  <2>6. mine \subseteq mine1 /\ \A y \in mine1 : y \in mine \/ y.height > tip
    BY <2>4, <2>5
  <2>. QED  BY <1>0, <1>1, <2>1, <2>2, <2>6 DEF Extends
<1>6. CASE Reorg
  <2>1. ReorgMakes /\ tip' = tip /\ final' = final
        /\ others' = {item \in others : item.height # tip} /\ tip > StartTip
    BY <1>6, ReorgMade DEF Reorg
  <2>2. ASSUME NEW i \in shown, observed(made[i]).height < tip PROVE observed(made[i]) \in mine1
    <3>1. i \in 1 .. Len(made) /\ made[i].reveal > 0 /\ made[i].reveal # tip
      BY <1>0, <1>2, <2>2 DEF shown
    <3>2. Kept(made[i], made'[i]) /\ made'[i].reveal = made[i].reveal
      BY <2>1, <3>1 DEF ReorgMakes
    <3>3. observed(made'[i]) = observed(made[i])
      BY <3>2, SameInscription
    <3>4. i \in shown'
      BY <1>0, <2>1, <3>1, <3>2 DEF shown, ReorgMakes
    <3>. QED  BY <3>3, <3>4
  <2>3. ASSUME NEW i \in shown' PROVE observed(made'[i]) \in mine
    <3>1. i \in 1 .. Len(made) /\ made'[i].reveal > 0
      BY <1>0, <2>1 DEF shown, ReorgMakes
    <3>2. /\ Kept(made[i], made'[i])
          /\ made'[i].reveal = IF made[i].reveal = tip THEN Pool ELSE made[i].reveal
      BY <2>1, <3>1 DEF ReorgMakes
    <3>3. made'[i].reveal = made[i].reveal
      BY <3>1, <3>2 DEF Pool
    <3>4. observed(made'[i]) = observed(made[i]) /\ i \in shown
      BY <1>0, <3>1, <3>2, <3>3, SameInscription DEF shown
    <3>. QED  BY <3>4
  <2>4. (\A x \in mine : x.height < tip => x \in mine1) /\ mine1 \subseteq mine
    BY <2>2, <2>3
  <2>. QED  BY <1>0, <1>1, <2>1, <2>4 DEF Extends
<1>7. ASSUME NEW i \in DOMAIN Burns, Finalize(Burns[i].signature)
      PROVE  Extends(inscriptions, final, tip, inscriptions', final', tip')
  <2>1. tip' = tip /\ final \subseteq final' /\ inscriptions' = inscriptions
    BY <1>7 DEF Finalize, inscriptions
  <2>. QED  BY <1>0, <2>1 DEF Extends
<1>8. CASE UNCHANGED vars
  <2>1. tip' = tip /\ final' = final /\ inscriptions' = inscriptions
    BY <1>8 DEF vars, inscriptions
  <2>. QED  BY <1>0, <2>1 DEF Extends
<1>. QED  BY <1>4, <1>5, <1>6, <1>7, <1>8 DEF Next

LEMMA ChainAlways == IInv /\ PInv /\ OInv => Chain(inscriptions) /\ Scripted(inscriptions)
BY InscriptionsAreAChain

LEMMA ChainAfter == (IInv /\ PInv /\ OInv => Chain(inscriptions) /\ Scripted(inscriptions))'
BY ChainAlways, PTL

LEMMA StampsStay ==
  ASSUME MinConfirmations > 1, IInv, PInv, OInv, IInv', PInv', OInv', [Next]_vars
  PROVE  stampSet.accepted \subseteq stampSet'.accepted
<1>. PICK S, T, f, g, t, u : /\ S = inscriptions /\ T = inscriptions' /\ f = final /\ g = final'
                             /\ t = tip /\ u = tip'
  OBVIOUS
<1>1. t \in Int /\ u \in Int /\ Extends(S, f, t, T, g, u)
  BY InscriptionsExtend DEF IInv
<1>2. Chain(S) /\ Scripted(S)
  BY InscriptionsAreAChain
<1>3. Chain(T) /\ Scripted(T)
  BY ChainAfter
<1>4. Indexed(indexInscriptions(S, f, t), S, f, t) /\ Indexed(indexInscriptions(T, g, u), T, g, u)
  BY <1>2, <1>3, IndexIsIndexed
<1>5. /\ stampSet.accepted = {x.txid : x \in {y \in S : IsFirst(y, S, f, t)}}
      /\ stampSet'.accepted = {x.txid : x \in {y \in T : IsFirst(y, T, g, u)}}
  BY <1>4 DEF stampSet, Indexed
<1>6. ASSUME NEW x \in S, IsFirst(x, S, f, t) PROVE x \in T /\ IsFirst(x, T, g, u)
  <2>1. IsFirst(x, T, g, u)
    BY <1>1, <1>2, <1>3, <1>6, FirstStaysFirst
  <2>. QED  BY <2>1 DEF IsFirst
<1>. QED  BY <1>5, <1>6

\* Where more than one confirmation is asked for, a stamp that counted goes on
\* counting: later blocks, one replaced block and later burns take nothing back.
THEOREM StampsStayCounted ==
  ASSUME MinConfirmations > 1
  PROVE  Spec => StampsOnlyGrow
<1>1. (IInv /\ PInv /\ OInv) /\ (IInv /\ PInv /\ OInv)' /\ [Next]_vars
        => [stampSet.accepted \subseteq stampSet'.accepted]_vars
  BY StampsStay
<1>. QED  BY <1>1, PairsKeepShape, PTL DEF Spec, StampsOnlyGrow

(* --------------------------------- books ------------------------------- *)

\* Everything that the sets f[i] of S have together.
Outs(f, S) == UNION {f[i] : i \in S}

Disjoint(f, S) == \A i, j \in S : i # j => f[i] \cap f[j] = {}

LEMMA OutsOf ==
  ASSUME NEW f, NEW S, NEW T
  PROVE  /\ Outs(f, {}) = {} /\ Outs(f, S \cup T) = Outs(f, S) \cup Outs(f, T)
         /\ S \subseteq T => Outs(f, S) \subseteq Outs(f, T)
         /\ \A i \in S : f[i] \subseteq Outs(f, S)
         /\ \A x \in Outs(f, S) : \E i \in S : x \in f[i]
BY Zenon DEF Outs

\* A purse P whose coins and whose change ch the mined pairs M spend as sp says
\* has X left.
Left(X, P, ch, sp, M) == X = (P \cup Outs(ch, M)) \ Outs(sp, M)

\* A block takes commits that spend coins there are.
LEMMA LeftAfterBlock ==
  ASSUME NEW X, NEW P, NEW ch, NEW sp, NEW M, NEW C, Left(X, P, ch, sp, M),
         M \cap C = {}, \A i \in C : ch[i] \cap P = {}, Disjoint(ch, M \cup C),
         \A i \in M : sp[i] \subseteq P \cup Outs(ch, M),
         \A i \in C : sp[i] \subseteq X
  PROVE  Left((X \ Outs(sp, C)) \cup Outs(ch, C), P, ch, sp, M \cup C)
<1>. PICK a, b, c, d : a = Outs(ch, M) /\ b = Outs(ch, C) /\ c = Outs(sp, M) /\ d = Outs(sp, C)
  OBVIOUS
<1>1. Outs(ch, M \cup C) = a \cup b /\ Outs(sp, M \cup C) = c \cup d
  BY OutsOf
<1>2. X = (P \cup a) \ c
  BY DEF Left
<1>3. c \subseteq P \cup a /\ d \subseteq X
  <2>1. \A x \in c : \E i \in M : x \in sp[i]
    BY OutsOf
  <2>2. \A x \in d : \E i \in C : x \in sp[i]
    BY OutsOf
  <2>. QED  BY <2>1, <2>2
<1>4. b \cap P = {} /\ b \cap a = {}
  <2>1. \A x \in a : \E i \in M : x \in ch[i]
    BY OutsOf
  <2>2. \A x \in b : \E i \in C : x \in ch[i]
    BY OutsOf
  <2>3. \A i \in C, j \in M : i # j /\ i \in M \cup C /\ j \in M \cup C
    OBVIOUS
  <2>4. \A i \in C, j \in M : ch[i] \cap ch[j] = {}
    BY <2>3 DEF Disjoint
  <2>. QED  BY <2>1, <2>2, <2>4
<1>5. (X \ d) \cup b = (P \cup (a \cup b)) \ (c \cup d)
  BY ONLY <1>2, <1>3, <1>4
<1>. QED  BY <1>1, <1>5 DEF Left

\* A block that is taken back gives back what its commits spent, and nothing
\* that is still mined spent their change.
LEMMA LeftAfterReorg ==
  ASSUME NEW X, NEW P, NEW ch, NEW sp, NEW K, NEW U, Left(X, P, ch, sp, K \cup U),
         K \cap U = {}, \A i \in U : ch[i] \cap P = {}, Disjoint(ch, K \cup U),
         \A i \in K \cup U : sp[i] \subseteq P \cup Outs(ch, K),
         Disjoint(sp, K \cup U)
  PROVE  Left((X \cup Outs(sp, U)) \ Outs(ch, U), P, ch, sp, K)
<1>. PICK a, b, c, d : a = Outs(ch, K) /\ b = Outs(ch, U) /\ c = Outs(sp, K) /\ d = Outs(sp, U)
  OBVIOUS
<1>1. Outs(ch, K \cup U) = a \cup b /\ Outs(sp, K \cup U) = c \cup d
  BY OutsOf
<1>2. X = (P \cup (a \cup b)) \ (c \cup d)
  BY <1>1 DEF Left
<1>. HIDE DEF Left
<1>3. \A i \in U, j \in K : i # j /\ i \in K \cup U /\ j \in K \cup U
  OBVIOUS
<1>4. \A x \in a : \E i \in K : x \in ch[i]
  BY OutsOf
<1>5. \A x \in b : \E i \in U : x \in ch[i]
  BY OutsOf
<1>6. \A x \in c : \E i \in K : x \in sp[i]
  BY OutsOf
<1>7. \A x \in d : \E i \in U : x \in sp[i]
  BY OutsOf
<1>8. b \cap P = {}
  BY <1>5
<1>9. b \cap a = {}
  <2>1. \A i \in U, j \in K : ch[i] \cap ch[j] = {}
    BY <1>3 DEF Disjoint
  <2>. QED  BY <1>4, <1>5, <2>1
<1>10. d \cap c = {}
  <2>1. \A i \in U, j \in K : sp[i] \cap sp[j] = {}
    BY <1>3 DEF Disjoint
  <2>. QED  BY <1>6, <1>7, <2>1
<1>11. c \subseteq P \cup a /\ d \subseteq P \cup a
  BY <1>6, <1>7
<1>12. (X \cup d) \ b = (P \cup a) \ c
  BY ONLY <1>2, <1>8, <1>9, <1>10, <1>11
<1>. QED  BY <1>12 DEF Left

\* Every pair of M spends what it costs, w, and its change.
Spending(M, ch, sp, w) ==
  \A i \in M : /\ Money(sp[i]) /\ Money(ch[i]) /\ w[i] \in Nat
               /\ value(sp[i]) = w[i] + value(ch[i])

\* When every pair spends what it costs and its change, all of them together do.
LEMMA CostsTogether ==
  ASSUME NEW M, IsFiniteSet(M), NEW ch, NEW sp, NEW w, Disjoint(ch, M), Disjoint(sp, M),
         Spending(M, ch, sp, w)
  PROVE  /\ Money(Outs(sp, M)) /\ Money(Outs(ch, M)) /\ Total(w, M) \in Nat
         /\ value(Outs(sp, M)) = Total(w, M) + value(Outs(ch, M))
<1>. DEFINE Fine(u) == /\ Money(Outs(sp, u)) /\ Money(Outs(ch, u)) /\ Total(w, u) \in Nat
                       /\ value(Outs(sp, u)) = Total(w, u) + value(Outs(ch, u))
            F == {u \in SUBSET M : Fine(u)}
<1>1. {} \in F
  <2>1. Outs(sp, {}) = {} /\ Outs(ch, {}) = {}
    BY OutsOf
  <2>2. Total(w, {}) = 0 /\ value({}) = 0 /\ Money({})
    BY TotalOfNone, ValueOfNone
  <2>3. 0 \in Nat /\ 0 = 0 + 0
    OBVIOUS
  <2>4. Fine({})
    BY ONLY <2>1, <2>2, <2>3, Zenon
  <2>. HIDE DEF Fine
  <2>. QED  BY <2>4
<1>2. ASSUME NEW u \in SUBSET M, NEW x \in M \ u, u \in F PROVE u \cup {x} \in F
  <2>1. Fine(u)
    BY <1>2
  <2>2. Outs(sp, u \cup {x}) = Outs(sp, u) \cup sp[x] /\ Outs(ch, u \cup {x}) = Outs(ch, u) \cup ch[x]
    BY Zenon DEF Outs
  <2>3. \A i \in u : i # x /\ i \in M
    OBVIOUS
  <2>4. Outs(sp, u) \cap sp[x] = {} /\ Outs(ch, u) \cap ch[x] = {}
    <3>1. /\ \A i \in u : sp[i] \cap sp[x] = {}
          /\ \A i \in u : ch[i] \cap ch[x] = {}
      BY <2>3 DEF Disjoint
    <3>2. \A y \in Outs(sp, u) : \E i \in u : y \in sp[i]
      BY OutsOf
    <3>3. \A y \in Outs(ch, u) : \E i \in u : y \in ch[i]
      BY OutsOf
    <3>. QED  BY <3>1, <3>2, <3>3
  <2>. PICK a, b, c, d : a = Outs(sp, u) /\ b = sp[x] /\ c = Outs(ch, u) /\ d = ch[x]
    OBVIOUS
  <2>5. /\ Money(a) /\ Money(b) /\ Money(c) /\ Money(d) /\ a \cap b = {} /\ c \cap d = {}
    BY <1>2, <2>1, <2>4 DEF Spending
  <2>6. /\ Money(a \cup b) /\ value(a) \in Nat /\ value(b) \in Nat
        /\ value(a \cup b) = value(a) + value(b)
    BY ONLY <2>5, ValueOfUnion
  <2>7. /\ Money(c \cup d) /\ value(c) \in Nat /\ value(d) \in Nat
        /\ value(c \cup d) = value(c) + value(d)
    BY ONLY <2>5, ValueOfUnion
  <2>8. Total(w, u) \in Nat /\ w[x] \in Nat /\ Total(w, u \cup {x}) = Total(w, u) + w[x]
    <3>1. IsFiniteSet(u) /\ \A i \in u : w[i] \in Nat
      BY FS_Subset DEF Spending
    <3>2. Weights(w, u) /\ x \notin u /\ w[x] \in Nat
      BY <1>2, <3>1 DEF Weights, Spending
    <3>. QED  BY <3>2, TotalOfMore
  <2>9. value(a) = Total(w, u) + value(c) /\ value(b) = w[x] + value(d)
    BY <1>2, <2>1 DEF Spending
  <2>10. value(a \cup b) = Total(w, u \cup {x}) + value(c \cup d)
    BY ONLY <2>6, <2>7, <2>8, <2>9
  <2>11. Fine(u \cup {x})
    <3>1. Outs(sp, u \cup {x}) = a \cup b /\ Outs(ch, u \cup {x}) = c \cup d
      BY <2>2
    <3>2. Total(w, u \cup {x}) \in Nat
      BY <2>8
    <3>. QED  BY ONLY <3>1, <3>2, <2>6, <2>7, <2>10, Zenon
  <2>. HIDE DEF Fine
  <2>. QED  BY <1>2, <2>11
<1>3. M \in F
  <2>. HIDE DEF F
  <2>. QED  BY <1>1, <1>2, SetInduction
<1>. QED  BY <1>3

\* What M pairs take comes from S; none of what they make is in P.
From(sp, M, S) == \A i \in M : sp[i] \subseteq S
Apart(ch, M, P) == \A i \in M : ch[i] \cap P = {}

\* The books balance: what is left and what the mined pairs cost is the purse.
LEMMA BooksBalance ==
  ASSUME NEW X, NEW P, NEW M, IsFiniteSet(M), NEW ch, NEW sp, NEW w,
         Left(X, P, ch, sp, M), Money(P), Disjoint(ch, M), Disjoint(sp, M),
         Apart(ch, M, P), From(sp, M, P \cup Outs(ch, M)), Spending(M, ch, sp, w)
  PROVE  /\ Money(X) /\ value(X) \in Nat /\ Total(w, M) \in Nat
         /\ value(X) + Total(w, M) = value(P)
<1>. PICK a, c : a = Outs(ch, M) /\ c = Outs(sp, M)
  OBVIOUS
<1>1. /\ Money(c) /\ Money(a) /\ Total(w, M) \in Nat
      /\ value(c) = Total(w, M) + value(a)
  BY CostsTogether
<1>2. c \subseteq P \cup a
  <2>1. \A x \in c : \E i \in M : x \in sp[i]
    BY OutsOf
  <2>. QED  BY <2>1 DEF From
<1>3. P \cap a = {}
  <2>1. \A x \in a : \E i \in M : x \in ch[i]
    BY OutsOf
  <2>. QED  BY <2>1 DEF Apart
<1>4. /\ Money(P \cup a) /\ value(P) \in Nat /\ value(a) \in Nat
      /\ value(P \cup a) = value(P) + value(a)
  BY <1>1, <1>3, ValueOfUnion
<1>5. /\ value(c) \in Nat /\ value((P \cup a) \ c) \in Nat
      /\ value(P \cup a) = value(c) + value((P \cup a) \ c) /\ Money((P \cup a) \ c)
  BY <1>2, <1>4, ValueOfPart
<1>6. X = (P \cup a) \ c
  BY DEF Left
<1>. QED  BY <1>1, <1>4, <1>5, <1>6

(* ------------------------------- the purse ----------------------------- *)

spentsOf(m) == [i \in DOMAIN m |-> m[i].spent]
changesOf(m) ==
  [i \in DOMAIN m |->
     IF m[i].changeZat = 0 THEN {} ELSE {[id |-> 100 + i, value |-> m[i].changeZat]}]
minedOf(m) == {i \in DOMAIN m : m[i].commit > 0}

\* A pair that is mined or still may be, at height t.
Live(m, t, i) == m[i].commit > 0 \/ (m[i].commit = 0 /\ t + 1 <= m[i].expiryHeight)

\* A pair spends what its output, its fee and its change come to.
Paid(pair) ==
  LET out == planInscription(pair.text).commitOutputZat
  IN /\ Money(pair.spent) /\ pair.totalZat = out + pair.commitFeeZat
     /\ Pays(out, pair.spent, pair.commitFeeZat, pair.changeZat)

\* The coins a mined pair spends come from the purse or from the change of a
\* pair in an earlier block.
Earlier(m, i) == {k \in minedOf(m) : m[k].commit < m[i].commit}
Sourced(P, m) ==
  \A i \in minedOf(m) : m[i].spent \subseteq P \cup Outs(changesOf(m), Earlier(m, i))

\* No two pairs that are mined or may be spend the same coin.
NoDoubleSpend(m, t) ==
  \A i, j \in DOMAIN m :
    i # j /\ Live(m, t, i) /\ Live(m, t, j) => m[i].spent \cap m[j].spent = {}

Books(P, X, m, t) ==
  /\ Left(X, P, changesOf(m), spentsOf(m), minedOf(m))
  /\ Sourced(P, m) /\ NoDoubleSpend(m, t)
  /\ \A i \in DOMAIN m : Paid(m[i])

\* Pairs numbered from one, with their heights.
Numbered(m, t, n) ==
  /\ DOMAIN m = 1 .. n
  /\ \A i \in 1 .. n : m[i].commit \in 0 .. t /\ m[i].expiryHeight \in Nat

LEMMA OutsSame ==
  ASSUME NEW f, NEW g, NEW S, \A i \in S : f[i] = g[i]
  PROVE  Outs(f, S) = Outs(g, S)
<1>1. {f[i] : i \in S} = {g[i] : i \in S}
  OBVIOUS
<1>. QED  BY <1>1, Zenon DEF Outs

\* Change is no coin of the purse, and every pair's change is a coin of its own.
LEMMA ChangesApart ==
  ASSUME NEW P \in Purse, NEW n \in Nat, NEW m, DOMAIN m = 1 .. n
  PROVE  /\ \A i \in 1 .. n : changesOf(m)[i] \cap P = {}
         /\ Disjoint(changesOf(m), 1 .. n)
<1>1. ASSUME NEW i \in 1 .. n, NEW c \in changesOf(m)[i] PROVE c.id = 100 + i
  <2>1. c = [id |-> 100 + i, value |-> m[i].changeZat]
    BY DEF changesOf
  <2>. QED  BY <2>1
<1>2. \A c \in P : c.id \in 0 .. 100
  BY PublicationAssumption
<1>3. ASSUME NEW i \in 1 .. n, NEW c \in changesOf(m)[i] PROVE c \notin P
  <2>1. c.id = 100 + i /\ i >= 1 /\ i \in Nat
    BY <1>1
  <2>2. c.id \notin 0 .. 100
    BY <2>1
  <2>. QED  BY <1>2, <2>2
<1>4. ASSUME NEW i \in 1 .. n, NEW j \in 1 .. n, i # j
      PROVE  changesOf(m)[i] \cap changesOf(m)[j] = {}
  <2>1. 100 + i # 100 + j
    BY <1>4
  <2>. QED  BY <1>1, <2>1
<1>. QED  BY <1>3, <1>4 DEF Disjoint

LEMMA KeptBooks ==
  ASSUME NEW L \in Nat, NEW m, NEW n, DOMAIN m = 1 .. L, DOMAIN n = 1 .. L,
         \A i \in 1 .. L : Kept(m[i], n[i])
  PROVE  /\ changesOf(n) = changesOf(m) /\ spentsOf(n) = spentsOf(m)
         /\ \A i \in 1 .. L : /\ n[i].spent = m[i].spent /\ n[i].expiryHeight = m[i].expiryHeight
                              /\ Paid(m[i]) => Paid(n[i])
<1>1. \A i \in 1 .. L : /\ n[i].text = m[i].text /\ n[i].spent = m[i].spent
                        /\ n[i].changeZat = m[i].changeZat
                        /\ n[i].commitFeeZat = m[i].commitFeeZat /\ n[i].totalZat = m[i].totalZat
                        /\ n[i].expiryHeight = m[i].expiryHeight
  BY DEF Kept
<1>2. changesOf(n) = changesOf(m) /\ spentsOf(n) = spentsOf(m)
  BY <1>1 DEF changesOf, spentsOf
<1>3. \A i \in 1 .. L : Paid(m[i]) => Paid(n[i])
  BY <1>1 DEF Paid
<1>. QED  BY <1>1, <1>2, <1>3

\* A block takes commits of pairs that wait and whose coins are there.
LEMMA BooksAfterBlock ==
  ASSUME NEW P \in Purse, NEW X, NEW L \in Nat, NEW t \in Nat, NEW m, NEW n, NEW C \in SUBSET (1 .. L),
         Numbered(m, t, L), DOMAIN n = 1 .. L, Books(P, X, m, t),
         \A i \in 1 .. L : /\ Kept(m[i], n[i])
                           /\ n[i].commit = IF i \in C THEN t + 1 ELSE m[i].commit,
         \A i \in C : m[i].commit = 0 /\ t + 1 <= m[i].expiryHeight /\ m[i].spent \subseteq X
  PROVE  Books(P, (X \ Outs(spentsOf(m), C)) \cup Outs(changesOf(m), C), n, t + 1)
<1>. DEFINE ch == changesOf(m)
            sp == spentsOf(m)
            M == minedOf(m)
<1>1. /\ changesOf(n) = ch /\ spentsOf(n) = sp
      /\ \A i \in 1 .. L : /\ n[i].spent = m[i].spent /\ n[i].expiryHeight = m[i].expiryHeight
                           /\ Paid(m[i]) => Paid(n[i])
  BY KeptBooks DEF Numbered
<1>2. \A i \in 1 .. L : m[i].commit \in 0 .. t /\ m[i].expiryHeight \in Nat
  BY DEF Numbered
<1>3. minedOf(n) = M \cup C /\ M \cap C = {} /\ M \subseteq 1 .. L
  <2>1. M = {i \in 1 .. L : m[i].commit > 0} /\ minedOf(n) = {i \in 1 .. L : n[i].commit > 0}
    BY DEF minedOf, Numbered
  <2>2. ASSUME NEW i \in 1 .. L
        PROVE  /\ n[i].commit > 0 <=> (i \in C \/ m[i].commit > 0)
               /\ i \in C => ~(m[i].commit > 0)
    <3>1. CASE i \in C
      <4>1. n[i].commit = t + 1 /\ m[i].commit = 0
        BY <3>1
      <4>. QED  BY <3>1, <4>1
    <3>2. CASE i \notin C
      <4>1. n[i].commit = m[i].commit
        BY <3>2
      <4>. QED  BY <3>2, <4>1
    <3>. QED  BY <3>1, <3>2
  <2>. QED  BY <2>1, <2>2
<1>4. \A i \in 1 .. L : sp[i] = m[i].spent
  BY DEF spentsOf, Numbered
<1>5. Left(X, P, ch, sp, M) /\ Sourced(P, m) /\ NoDoubleSpend(m, t) /\ \A i \in 1 .. L : Paid(m[i])
  BY DEF Books, Numbered
<1>6. (\A i \in 1 .. L : ch[i] \cap P = {}) /\ Disjoint(ch, 1 .. L)
  BY ChangesApart DEF Numbered
<1>7. ASSUME NEW i \in M PROVE sp[i] \subseteq P \cup Outs(ch, M)
  <2>1. sp[i] \subseteq P \cup Outs(ch, Earlier(m, i))
    BY <1>3, <1>4, <1>5 DEF Sourced
  <2>2. Earlier(m, i) \subseteq M
    BY DEF Earlier
  <2>3. Outs(ch, Earlier(m, i)) \subseteq Outs(ch, M)
    BY <2>2, OutsOf
  <2>. QED  BY <2>1, <2>3
<1>8. Left((X \ Outs(sp, C)) \cup Outs(ch, C), P, ch, sp, M \cup C)
  <2>1. Disjoint(ch, M \cup C) /\ \A i \in C : ch[i] \cap P = {}
    BY <1>3, <1>6 DEF Disjoint
  <2>2. \A i \in C : sp[i] \subseteq X
    BY <1>4
  <2>. HIDE DEF ch, sp, M
  <2>. QED  BY <1>3, <1>5, <1>7, <2>1, <2>2, LeftAfterBlock
<1>9. Sourced(P, n)
  <2>. SUFFICES ASSUME NEW i \in M \cup C
                PROVE  n[i].spent \subseteq P \cup Outs(ch, Earlier(n, i))
    BY <1>1, <1>3 DEF Sourced
  <2>0. i \in 1 .. L
    BY <1>3
  <2>1. CASE i \in M
    <3>1. n[i].commit = m[i].commit /\ m[i].commit > 0
      BY <1>3, <2>1 DEF minedOf
    <3>2. Earlier(m, i) \subseteq Earlier(n, i)
      <4>1. \A k \in Earlier(m, i) : k \in M \cup C /\ n[k].commit = m[k].commit
                                     /\ m[k].commit < m[i].commit
        BY <1>3 DEF Earlier
      <4>. QED  BY <1>3, <3>1, <4>1 DEF Earlier
    <3>3. m[i].spent \subseteq P \cup Outs(ch, Earlier(m, i))
      BY <1>5, <2>1 DEF Sourced
    <3>4. Outs(ch, Earlier(m, i)) \subseteq Outs(ch, Earlier(n, i))
      BY <3>2, OutsOf
    <3>. QED  BY <1>1, <2>0, <3>3, <3>4
  <2>2. CASE i \in C
    <3>1. n[i].commit = t + 1
      BY <2>0, <2>2
    <3>2. M \subseteq Earlier(n, i)
      <4>1. \A k \in M : k \in M \cup C /\ n[k].commit = m[k].commit /\ m[k].commit <= t
        BY <1>2, <1>3
      <4>2. \A k \in M : n[k].commit < n[i].commit
        BY <1>2, <1>3, <3>1, <4>1
      <4>. QED  BY <1>3, <4>2 DEF Earlier
    <3>3. X \subseteq P \cup Outs(ch, M)
      BY <1>5 DEF Left
    <3>4. Outs(ch, M) \subseteq Outs(ch, Earlier(n, i))
      BY <3>2, OutsOf
    <3>. QED  BY <1>1, <2>0, <2>2, <3>3, <3>4
  <2>. QED  BY <2>1, <2>2
<1>10. NoDoubleSpend(n, t + 1)
  <2>1. ASSUME NEW i \in 1 .. L, Live(n, t + 1, i) PROVE Live(m, t, i)
    <3>1. CASE i \in C
      BY <3>1 DEF Live
    <3>2. CASE i \notin C
      BY <1>1, <1>2, <2>1, <3>2 DEF Live
    <3>. QED  BY <3>1, <3>2
  <2>2. \A i, j \in 1 .. L : i # j /\ Live(m, t, i) /\ Live(m, t, j) => m[i].spent \cap m[j].spent = {}
    BY <1>5 DEF NoDoubleSpend, Numbered
  <2>. QED  BY <1>1, <2>1, <2>2 DEF NoDoubleSpend
<1>. QED  BY <1>1, <1>3, <1>5, <1>8, <1>9, <1>10 DEF Books

\* A block that is replaced: its commits wait again, and their coins are back.
LEMMA BooksAfterReorg ==
  ASSUME NEW P \in Purse, NEW X, NEW L \in Nat, NEW t \in Nat \ {0}, NEW m, NEW n,
         Numbered(m, t, L), DOMAIN n = 1 .. L, Books(P, X, m, t),
         \A i \in 1 .. L : /\ Kept(m[i], n[i])
                           /\ n[i].commit = IF m[i].commit = t THEN 0 ELSE m[i].commit,
         NEW U, U = {i \in 1 .. L : m[i].commit = t}
  PROVE  Books(P, (X \cup Outs(spentsOf(m), U)) \ Outs(changesOf(m), U), n, t)
<1>. DEFINE ch == changesOf(m)
            sp == spentsOf(m)
            K == minedOf(n)
<1>1. /\ changesOf(n) = ch /\ spentsOf(n) = sp
      /\ \A i \in 1 .. L : /\ n[i].spent = m[i].spent /\ n[i].expiryHeight = m[i].expiryHeight
                           /\ Paid(m[i]) => Paid(n[i])
  BY KeptBooks DEF Numbered
<1>2. \A i \in 1 .. L : m[i].commit \in 0 .. t /\ m[i].expiryHeight \in Nat
  BY DEF Numbered
<1>3. minedOf(m) = K \cup U /\ K \cap U = {} /\ K \subseteq 1 .. L
      /\ \A i \in K : n[i].commit = m[i].commit /\ m[i].commit < t
  BY <1>2 DEF minedOf, Numbered
<1>4. \A i \in 1 .. L : sp[i] = m[i].spent
  BY DEF spentsOf, Numbered
<1>5. Left(X, P, ch, sp, K \cup U) /\ Sourced(P, m) /\ NoDoubleSpend(m, t)
      /\ \A i \in 1 .. L : Paid(m[i])
  BY <1>3 DEF Books, Numbered
<1>6. (\A i \in 1 .. L : ch[i] \cap P = {}) /\ Disjoint(ch, 1 .. L)
  BY ChangesApart DEF Numbered
<1>7. ASSUME NEW i \in K \cup U PROVE Earlier(m, i) \subseteq K
  <2>1. i \in 1 .. L /\ m[i].commit <= t
    BY <1>2, <1>3
  <2>2. \A k \in Earlier(m, i) : k \in K \cup U /\ m[k].commit < m[i].commit
    BY <1>3 DEF Earlier
  <2>3. \A k \in U : k \in 1 .. L /\ m[k].commit = t
    OBVIOUS
  <2>. QED  BY <1>2, <2>1, <2>2, <2>3
<1>8. ASSUME NEW i \in K \cup U PROVE m[i].spent \subseteq P \cup Outs(ch, Earlier(m, i))
  BY <1>3, <1>5 DEF Sourced
<1>9. ASSUME NEW i \in K \cup U PROVE sp[i] \subseteq P \cup Outs(ch, K)
  <2>1. Outs(ch, Earlier(m, i)) \subseteq Outs(ch, K)
    BY <1>7, OutsOf
  <2>. QED  BY <1>3, <1>4, <1>8, <2>1
<1>10. \A i \in K \cup U : i \in 1 .. L /\ Live(m, t, i)
  <2>. SUFFICES ASSUME NEW i \in K \cup U PROVE i \in 1 .. L /\ m[i].commit > 0
    BY DEF Live
  <2>. QED  BY <1>3 DEF minedOf, Numbered
<1>11. Disjoint(sp, K \cup U)
  <2>. SUFFICES ASSUME NEW i \in K \cup U, NEW j \in K \cup U, i # j
                PROVE  sp[i] \cap sp[j] = {}
    BY DEF Disjoint
  <2>1. i \in 1 .. L /\ Live(m, t, i) /\ j \in 1 .. L /\ Live(m, t, j)
    BY <1>10
  <2>2. m[i].spent \cap m[j].spent = {}
    BY <1>5, <2>1 DEF NoDoubleSpend, Numbered
  <2>. QED  BY <1>4, <2>1, <2>2
<1>12. Left((X \cup Outs(sp, U)) \ Outs(ch, U), P, ch, sp, K)
  <2>1. Disjoint(ch, K \cup U) /\ \A i \in U : ch[i] \cap P = {}
    BY <1>6, <1>10 DEF Disjoint
  <2>. HIDE DEF ch, sp, K
  <2>. QED  BY <1>3, <1>5, <1>9, <1>11, <2>1, LeftAfterReorg
<1>13. Sourced(P, n)
  <2>. SUFFICES ASSUME NEW i \in K
                PROVE  n[i].spent \subseteq P \cup Outs(ch, Earlier(n, i))
    BY <1>1 DEF Sourced
  <2>1. Earlier(m, i) \subseteq Earlier(n, i)
    <3>1. \A k \in Earlier(m, i) : k \in K /\ m[k].commit < m[i].commit
      BY <1>7 DEF Earlier
    <3>. QED  BY <1>3, <3>1 DEF Earlier
  <2>2. Outs(ch, Earlier(m, i)) \subseteq Outs(ch, Earlier(n, i))
    BY <2>1, OutsOf
  <2>. QED  BY <1>1, <1>3, <1>8, <2>2
<1>14. NoDoubleSpend(n, t)
  <2>1. ASSUME NEW i \in 1 .. L, Live(n, t, i) PROVE Live(m, t, i)
    <3>1. CASE m[i].commit = t
      BY <3>1 DEF Live
    <3>2. CASE m[i].commit # t
      BY <1>1, <2>1, <3>2 DEF Live
    <3>. QED  BY <3>1, <3>2
  <2>2. \A i, j \in 1 .. L : i # j /\ Live(m, t, i) /\ Live(m, t, j) => m[i].spent \cap m[j].spent = {}
    BY <1>5 DEF NoDoubleSpend, Numbered
  <2>. QED  BY <1>1, <2>1, <2>2 DEF NoDoubleSpend
<1>. QED  BY <1>1, <1>5, <1>12, <1>13, <1>14 DEF Books

\* A new pair takes coins that no pair that waits has taken.
LEMMA BooksAfterPublish ==
  ASSUME NEW P, NEW X, NEW L \in Nat, NEW t \in Nat, NEW m, NEW n,
         Numbered(m, t, L), DOMAIN n = 1 .. L + 1, Books(P, X, m, t),
         \A i \in 1 .. L : n[i] = m[i],
         n[L + 1].commit = 0, Paid(n[L + 1]), n[L + 1].spent \subseteq X,
         \A i \in 1 .. L : m[i].commit = 0 /\ t + 1 <= m[i].expiryHeight
                             => n[L + 1].spent \cap m[i].spent = {}
  PROVE  Books(P, X, n, t)
<1>. DEFINE M == minedOf(m)
<1>1. /\ L + 1 \notin 1 .. L /\ L + 1 \in 1 .. L + 1
      /\ \A i \in 1 .. L + 1 : i \in 1 .. L \/ i = L + 1
      /\ 1 .. L \subseteq 1 .. L + 1
  OBVIOUS
<1>2. \A i \in 1 .. L : m[i].commit \in 0 .. t /\ m[i].expiryHeight \in Nat
  BY DEF Numbered
<1>3. minedOf(n) = M /\ M \subseteq 1 .. L
  BY <1>1 DEF minedOf, Numbered
<1>4. \A i \in 1 .. L : changesOf(n)[i] = changesOf(m)[i] /\ spentsOf(n)[i] = spentsOf(m)[i]
  BY <1>1 DEF changesOf, spentsOf, Numbered
<1>5. \A S \in SUBSET (1 .. L) : /\ Outs(changesOf(n), S) = Outs(changesOf(m), S)
                                 /\ Outs(spentsOf(n), S) = Outs(spentsOf(m), S)
  <2>. TAKE S \in SUBSET (1 .. L)
  <2>1. \A i \in S : changesOf(n)[i] = changesOf(m)[i] /\ spentsOf(n)[i] = spentsOf(m)[i]
    BY <1>4
  <2>. QED  BY <2>1, OutsSame
<1>6. Left(X, P, changesOf(m), spentsOf(m), M) /\ Sourced(P, m) /\ NoDoubleSpend(m, t)
      /\ \A i \in 1 .. L : Paid(m[i])
  BY DEF Books, Numbered
<1>7. Left(X, P, changesOf(n), spentsOf(n), minedOf(n))
  BY <1>3, <1>5, <1>6 DEF Left
<1>8. Sourced(P, n)
  <2>. SUFFICES ASSUME NEW i \in M
                PROVE  n[i].spent \subseteq P \cup Outs(changesOf(n), Earlier(n, i))
    BY <1>3 DEF Sourced
  <2>1. Earlier(n, i) = Earlier(m, i) /\ Earlier(m, i) \subseteq 1 .. L
    BY <1>3 DEF Earlier
  <2>2. m[i].spent \subseteq P \cup Outs(changesOf(m), Earlier(m, i))
    BY <1>6 DEF Sourced
  <2>. QED  BY <1>3, <1>5, <2>1, <2>2
<1>9. NoDoubleSpend(n, t)
  <2>. SUFFICES ASSUME NEW i \in 1 .. L + 1, NEW j \in 1 .. L + 1, i # j, Live(n, t, i), Live(n, t, j)
                PROVE  n[i].spent \cap n[j].spent = {}
    BY DEF NoDoubleSpend
  <2>1. ASSUME NEW k \in 1 .. L, Live(n, t, k) PROVE n[L + 1].spent \cap m[k].spent = {}
    <3>1. Live(m, t, k)
      BY <2>1 DEF Live
    <3>2. CASE m[k].commit > 0
      <4>1. k \in M
        BY <3>2 DEF minedOf, Numbered
      <4>2. m[k].spent \subseteq Outs(spentsOf(m), M)
        <5>1. spentsOf(m)[k] = m[k].spent
          BY DEF spentsOf, Numbered
        <5>. QED  BY <4>1, <5>1, OutsOf
      <4>3. X \cap Outs(spentsOf(m), M) = {}
        BY <1>6 DEF Left
      <4>. QED  BY <4>2, <4>3
    <3>3. CASE m[k].commit = 0 /\ t + 1 <= m[k].expiryHeight
      BY <3>3
    <3>. QED  BY <3>1, <3>2, <3>3 DEF Live
  <2>2. CASE i \in 1 .. L /\ j \in 1 .. L
    <3>1. Live(m, t, i) /\ Live(m, t, j)
      BY <2>2 DEF Live
    <3>. QED  BY <1>6, <2>2, <3>1 DEF NoDoubleSpend, Numbered
  <2>3. CASE i = L + 1 /\ j \in 1 .. L
    BY <2>1, <2>3
  <2>4. CASE i \in 1 .. L /\ j = L + 1
    BY <2>1, <2>4
  <2>. QED  BY <1>1, <2>2, <2>3, <2>4
<1>10. \A i \in DOMAIN n : Paid(n[i])
  BY <1>1, <1>6
<1>. QED  BY <1>7, <1>8, <1>9, <1>10 DEF Books

LEMMA SpentAndChange ==
  ASSUME NEW S \in SUBSET DOMAIN made
  PROVE  spends(S) = Outs(spentsOf(made), S) /\ changes(S) = Outs(changesOf(made), S)
<1>1. {made[i].spent : i \in S} = {spentsOf(made)[i] : i \in S}
  BY DEF spentsOf
<1>2. {change(i) : i \in S} = {changesOf(made)[i] : i \in S}
  <2>1. \A i \in S : change(i) = changesOf(made)[i]
    BY DEF change, changesOf
  <2>. QED  BY <2>1
<1>. QED  BY <1>1, <1>2, Zenon DEF spends, changes, Outs

LEMMA AppendedDomain ==
  ASSUME NEW s, Len(s) \in Nat, s = [i \in 1 .. Len(s) |-> s[i]], NEW x
  PROVE  DOMAIN Append(s, x) = 1 .. Len(s) + 1
<1>. DEFINE T == {s[i] : i \in 1 .. Len(s)} \cup {x}
<1>1. s \in Seq(T) /\ x \in T
  <2>1. s \in [1 .. Len(s) -> T]
    OBVIOUS
  <2>. QED  BY <2>1
<1>2. Append(s, x) \in Seq(T) /\ Len(Append(s, x)) = Len(s) + 1
  BY <1>1
<1>. QED  BY <1>2

(* --------------------------- what the purse has ------------------------ *)

LEMMA PlanIsNat ==
  ASSUME NEW k \in Stamp
  PROVE  planInscription(k).commitOutputZat \in Nat \ {0}
<1>1. k \in Texts
  BY PublicationAssumption
<1>2. /\ planInscription(k).revealFeeZat \in Nat
      /\ planInscription(k).commitOutputZat = DUST + planInscription(k).revealFeeZat
  BY <1>1, RevealFee
<1>. QED  BY <1>2, InscribeAssumption

LEMMA BooksAdd ==
  ASSUME NEW P \in Purse, NEW X, NEW L \in Nat, NEW t \in Nat, NEW m,
         Numbered(m, t, L), Books(P, X, m, t), \A i \in 1 .. L : m[i].text \in Stamp
  PROVE  /\ Money(X) /\ value(X) \in Nat
         /\ SumFunction([i \in minedOf(m) |-> m[i].totalZat]) \in Nat
         /\ value(X) + SumFunction([i \in minedOf(m) |-> m[i].totalZat]) = value(P)
<1>. DEFINE ch == changesOf(m)
            sp == spentsOf(m)
            M == minedOf(m)
            w == [i \in M |-> m[i].totalZat]
<1>1. M \subseteq 1 .. L /\ IsFiniteSet(M)
  <2>1. M \subseteq 1 .. L
    BY DEF minedOf, Numbered
  <2>. QED  BY <2>1, FS_Interval, FS_Subset
<1>2. Left(X, P, ch, sp, M) /\ Sourced(P, m) /\ NoDoubleSpend(m, t) /\ \A i \in 1 .. L : Paid(m[i])
  BY DEF Books, Numbered
<1>3. (\A i \in M : ch[i] \cap P = {}) /\ Disjoint(ch, M)
  <2>1. (\A i \in 1 .. L : ch[i] \cap P = {}) /\ Disjoint(ch, 1 .. L)
    BY ChangesApart DEF Numbered
  <2>. QED  BY <1>1, <2>1 DEF Disjoint
<1>4. ASSUME NEW i \in M PROVE sp[i] \subseteq P \cup Outs(ch, M)
  <2>1. sp[i] = m[i].spent /\ m[i].spent \subseteq P \cup Outs(ch, Earlier(m, i))
    BY <1>1, <1>2 DEF Sourced, spentsOf, Numbered
  <2>2. Outs(ch, Earlier(m, i)) \subseteq Outs(ch, M)
    <3>1. Earlier(m, i) \subseteq M
      BY DEF Earlier
    <3>. QED  BY <3>1, OutsOf
  <2>. QED  BY <2>1, <2>2
<1>5. Disjoint(sp, M)
  <2>1. \A i \in M : i \in 1 .. L /\ sp[i] = m[i].spent /\ Live(m, t, i)
    BY <1>1 DEF Live, minedOf, spentsOf, Numbered
  <2>. QED  BY <1>2, <2>1 DEF NoDoubleSpend, Disjoint, Numbered
<1>6. ASSUME NEW i \in M
      PROVE  /\ Money(sp[i]) /\ Money(ch[i]) /\ w[i] \in Nat
             /\ value(sp[i]) = w[i] + value(ch[i])
  <2>. PICK out, left, fee, S : /\ out = planInscription(m[i].text).commitOutputZat
                                /\ left = m[i].changeZat /\ fee = m[i].commitFeeZat /\ S = m[i].spent
    OBVIOUS
  <2>1. /\ Money(S) /\ m[i].totalZat = out + fee
        /\ value(S) = out + left + fee /\ left \in Nat /\ fee \in Nat
    BY <1>1, <1>2 DEF Paid, Pays
  <2>2. out \in Nat
    BY <1>1, PlanIsNat
  <2>3. Money(ch[i]) /\ value(ch[i]) = left
    <3>1. CASE left = 0
      <4>1. ch[i] = {}
        BY <1>1, <3>1 DEF changesOf, Numbered
      <4>. QED  BY <3>1, <4>1, ValueOfNone
    <3>2. CASE left # 0
      <4>1. ch[i] = {[id |-> 100 + i, value |-> left]}
        BY <1>1, <3>2 DEF changesOf, Numbered
      <4>. PICK c : c = [id |-> 100 + i, value |-> left]
        OBVIOUS
      <4>2. c.value = left /\ ch[i] = {c}
        BY <4>1
      <4>3. Money({c}) /\ value({c}) = c.value
        BY <2>1, <4>2, ValueOfOne
      <4>. QED  BY <4>2, <4>3
    <3>. QED  BY <3>1, <3>2
  <2>4. w[i] = out + fee /\ sp[i] = S
    BY <1>1, <2>1 DEF spentsOf, Numbered
  <2>. QED  BY <2>1, <2>2, <2>3, <2>4
<1>7. Money(P)
  <2>1. IsFiniteSet(P) /\ P \subseteq [id : 0 .. 100, value : Nat]
    BY PublicationAssumption
  <2>. QED  BY <2>1 DEF Money
<1>8. /\ Money(X) /\ value(X) \in Nat /\ Total(w, M) \in Nat
      /\ value(X) + Total(w, M) = value(P)
  <2>1. Spending(M, ch, sp, w)
    BY <1>6 DEF Spending
  <2>2. From(sp, M, P \cup Outs(ch, M)) /\ Apart(ch, M, P)
    BY <1>3, <1>4 DEF From, Apart
  <2>3. IsFiniteSet(M) /\ Left(X, P, ch, sp, M) /\ Disjoint(ch, M)
    BY <1>1, <1>2, <1>3
  <2>. HIDE DEF ch, sp, M, w
  <2>4. PICK a, b, N, v : a = ch /\ b = sp /\ N = M /\ v = w
    OBVIOUS
  <2>5. /\ IsFiniteSet(N) /\ Left(X, P, a, b, N) /\ Money(P) /\ Disjoint(a, N) /\ Disjoint(b, N)
        /\ Apart(a, N, P) /\ From(b, N, P \cup Outs(a, N))
        /\ Spending(N, a, b, v)
    BY ONLY <1>5, <1>7, <2>1, <2>2, <2>3, <2>4, Zenon
  <2>6. /\ Money(X) /\ value(X) \in Nat /\ Total(v, N) \in Nat
        /\ value(X) + Total(v, N) = value(P)
    BY ONLY <2>5, BooksBalance
  <2>. QED  BY ONLY <2>4, <2>6, Zenon
<1>9. Total(w, M) = SumFunction([i \in minedOf(m) |-> m[i].totalZat])
  <2>1. [i \in M |-> w[i]] = [i \in M |-> m[i].totalZat]
    OBVIOUS
  <2>. QED  BY <2>1 DEF Total
<1>. QED  BY <1>8, <1>9

\* The publisher's books: from the purse it started with, by way of the mined
\* pairs, to the coins it has.
BInv == \E P \in Purse : funds = value(P) /\ Books(P, coins, made, tip)

LEMMA PairsNumbered ==
  ASSUME IInv, PInv
  PROVE  /\ Len(made) \in Nat /\ tip \in Nat /\ Numbered(made, tip, Len(made))
         /\ \A i \in 1 .. Len(made) : made[i].text \in Stamp
<1>1. Len(made) \in Nat /\ tip \in Nat /\ DOMAIN made = 1 .. Len(made)
  BY DEF IInv
<1>2. ASSUME NEW i \in 1 .. Len(made)
      PROVE  made[i].commit \in 0 .. tip /\ made[i].expiryHeight \in Nat /\ made[i].text \in Stamp
  <2>1. made[i].commit \in {0} \cup StartTip + 1 .. tip /\ StartTip \in Nat
    BY PublicationAssumption DEF PInv, Pool
  <2>2. made[i].commit \in 0 .. tip
    BY <1>1, <2>1
  <2>. QED  BY <2>2 DEF IInv, PInv
<1>. QED  BY <1>1, <1>2 DEF Numbered

LEMMA CoinsAreMoney == IInv /\ PInv /\ BInv => Money(coins) /\ value(coins) \in Nat
BY PairsNumbered, BooksAdd DEF BInv

\* The new pair is paid for by coins there are.
LEMMA PublishPays ==
  ASSUME NEW k \in Stamp, Money(coins), buildStamp(Plan(k), coins, tip).built
  PROVE  /\ Paid(buildStamp(Plan(k), coins, tip))
         /\ buildStamp(Plan(k), coins, tip).spent \subseteq coins
<1>. PICK plan, c, pair : /\ plan = planInscription(k) /\ c = buildCommit(plan, coins)
                          /\ pair = buildStamp(Plan(k), coins, tip)
  OBVIOUS
<1>1. Plan(k) = plan /\ plan.text = k
  BY PlanOfText
<1>2. /\ plan.commitOutputZat \in Nat \ {0}
      /\ plan.commitOutputZat = DUST + plan.revealFeeZat /\ plan.dustZat = DUST
      /\ plan.revealFeeZat \in Nat
  <2>1. k \in Texts
    BY PublicationAssumption
  <2>. QED  BY <2>1, PlanIsNat, RevealFee
<1>3. /\ pair.text = k /\ pair.spent = c.spent /\ pair.changeZat = c.changeZat
      /\ pair.commitFeeZat = c.feeZat /\ pair.totalZat = c.feeZat + plan.revealFeeZat + plan.dustZat
      /\ pair.built => c.funded
  BY <1>1 DEF buildStamp, pairOf
<1>4. c.spent \subseteq coins /\ Pays(plan.commitOutputZat, c.spent, c.feeZat, c.changeZat)
  <2>1. c.funded
    BY <1>3
  <2>. QED  BY <1>2, <2>1, CommitIs
<1>5. Money(c.spent)
  BY <1>4, MoneyWeighs
<1>6. c.feeZat \in Nat
  BY <1>4 DEF Pays
<1>7. pair.totalZat = plan.commitOutputZat + pair.commitFeeZat
  <2>1. DUST \in Nat
    BY InscribeAssumption
  <2>. QED  BY <1>2, <1>3, <1>6, <2>1
<1>. QED  BY <1>3, <1>4, <1>5, <1>7 DEF Paid

LEMMA InitBInv == Init => BInv
<1>. SUFFICES ASSUME Init PROVE BInv
  OBVIOUS
<1>1. coins \in Purse /\ funds = value(coins) /\ made = << >>
  BY DEF Init
<1>2. DOMAIN made = {} /\ minedOf(made) = {}
  BY <1>1 DEF minedOf
<1>3. Left(coins, coins, changesOf(made), spentsOf(made), minedOf(made))
  BY <1>2, OutsOf DEF Left
<1>4. Books(coins, coins, made, tip)
  BY <1>2, <1>3 DEF Books, Sourced, NoDoubleSpend
<1>. QED  BY <1>1, <1>4 DEF BInv

LEMMA NextBInv == IInv /\ PInv /\ BInv /\ [Next]_vars => BInv'
<1>. SUFFICES ASSUME IInv, PInv, BInv, [Next]_vars PROVE BInv'
  OBVIOUS
<1>0. /\ Len(made) \in Nat /\ tip \in Nat /\ Numbered(made, tip, Len(made))
      /\ DOMAIN made = 1 .. Len(made)
  BY PairsNumbered DEF Numbered
<1>. PICK P \in Purse : funds = value(P) /\ Books(P, coins, made, tip)
  BY DEF BInv
<1>1. ASSUME NEW k \in Stamp, Publish(k) PROVE BInv'
  <2>. PICK n, pair, L : n = made' /\ pair = buildStamp(Plan(k), coins, tip) /\ L = Len(made)
    OBVIOUS
  <2>1. /\ UNCHANGED <<coins, funds, tip>> /\ pair.built /\ pair.spent \cap spoken = {}
        /\ PublishMakes(k)
    BY <1>1, PublishMade DEF Publish
  <2>2. Paid(pair) /\ pair.spent \subseteq coins
    BY <2>1, CoinsAreMoney, PublishPays
  <2>3. /\ Len(n) = L + 1 /\ \A i \in 1 .. L : n[i] = made[i]
        /\ n[L + 1].text = pair.text /\ n[L + 1].spent = pair.spent
        /\ n[L + 1].changeZat = pair.changeZat /\ n[L + 1].commitFeeZat = pair.commitFeeZat
        /\ n[L + 1].totalZat = pair.totalZat /\ n[L + 1].commit = 0
    BY <2>1 DEF PublishMakes, Pool
  <2>4. DOMAIN n = 1 .. L + 1
    BY <1>0, <1>1, AppendedDomain DEF Publish, IInv
  <2>5. Paid(n[L + 1])
    BY <2>2, <2>3 DEF Paid
  <2>6. ASSUME NEW i \in 1 .. L, made[i].commit = 0, tip + 1 <= made[i].expiryHeight
        PROVE  n[L + 1].spent \cap made[i].spent = {}
    <3>1. i \in {j \in DOMAIN made : waiting(j)}
      BY <1>0, <2>6 DEF waiting, alive, Pool
    <3>2. made[i].spent \subseteq spoken
      BY <3>1 DEF spoken
    <3>. QED  BY <2>1, <2>3, <3>2
  <2>7. Books(P, coins, n, tip)
    BY <1>0, <2>2, <2>3, <2>4, <2>5, <2>6, BooksAfterPublish
  <2>. QED  BY <2>1, <2>7 DEF BInv
<1>2. ASSUME NEW C \in SUBSET DOMAIN made, NEW R \in SUBSET DOMAIN made,
             NEW found, Mine(C, R, found)
      PROVE  BInv'
  <2>. PICK n, L, X : n = made' /\ L = Len(made) /\ X = coins'
    OBVIOUS
  <2>1. /\ tip' = tip + 1 /\ funds' = funds /\ X = (coins \ spends(C)) \cup changes(C)
        /\ \A i \in C : made[i].commit = Pool /\ minable(i) /\ made[i].spent \subseteq coins
        /\ MineMakes(C, R)
    BY <1>2, MineMade DEF Mine
  <2>2. DOMAIN n = 1 .. L
    BY <1>0, <1>2 DEF Mine
  <2>3. \A i \in 1 .. L : /\ Kept(made[i], n[i])
                          /\ n[i].commit = IF i \in C THEN tip + 1 ELSE made[i].commit
    BY <2>1 DEF MineMakes
  <2>4. \A i \in C : made[i].commit = 0 /\ tip + 1 <= made[i].expiryHeight /\ made[i].spent \subseteq coins
    BY <2>1 DEF minable, alive, Pool
  <2>5. spends(C) = Outs(spentsOf(made), C) /\ changes(C) = Outs(changesOf(made), C)
    BY SpentAndChange
  <2>6. Books(P, X, n, tip + 1)
    BY <1>0, <2>1, <2>2, <2>3, <2>4, <2>5, BooksAfterBlock
  <2>. QED  BY <2>1, <2>6 DEF BInv
<1>3. CASE Reorg
  <2>. PICK n, L, X, U : n = made' /\ L = Len(made) /\ X = coins' /\ U = {i \in 1 .. Len(made) : made[i].commit = tip}
    OBVIOUS
  <2>1. /\ tip' = tip /\ tip > StartTip /\ funds' = funds
        /\ X = (coins \cup spends(U)) \ changes(U) /\ ReorgMakes
    BY <1>0, <1>3, ReorgMade DEF Reorg
  <2>2. DOMAIN n = 1 .. L
    BY <1>0, <1>3 DEF Reorg
  <2>3. \A i \in 1 .. L : /\ Kept(made[i], n[i])
                          /\ n[i].commit = IF made[i].commit = tip THEN 0 ELSE made[i].commit
    BY <2>1 DEF ReorgMakes, Pool
  <2>4. spends(U) = Outs(spentsOf(made), U) /\ changes(U) = Outs(changesOf(made), U)
    BY <1>0, SpentAndChange
  <2>5. tip \in Nat \ {0}
    BY <1>0, <2>1, PublicationAssumption
  <2>6. Books(P, X, n, tip)
    BY <1>0, <2>1, <2>2, <2>3, <2>4, <2>5, BooksAfterReorg
  <2>. QED  BY <2>1, <2>6 DEF BInv
<1>4. ASSUME NEW i \in DOMAIN Burns, Finalize(Burns[i].signature)
      PROVE  BInv'
  BY <1>4 DEF Finalize, BInv
<1>5. CASE UNCHANGED vars
  BY <1>5 DEF vars, BInv
<1>. QED  BY <1>1, <1>2, <1>3, <1>4, <1>5 DEF Next

\* What the publisher has left and what its mined commits cost is its purse.
LEMMA CostLeaves == IInv /\ PInv /\ BInv => CostIsWhatLeaves /\ TypeOK
<1>. SUFFICES ASSUME IInv, PInv, BInv PROVE CostIsWhatLeaves /\ TypeOK
  OBVIOUS
<1>1. PICK P \in Purse : funds = value(P) /\ Books(P, coins, made, tip)
  BY DEF BInv
<1>2. /\ Money(coins) /\ value(coins) \in Nat
      /\ SumFunction([i \in minedOf(made) |-> made[i].totalZat]) \in Nat
      /\ value(coins) + SumFunction([i \in minedOf(made) |-> made[i].totalZat]) = value(P)
  BY <1>1, PairsNumbered, BooksAdd
<1>3. mined = minedOf(made)
  BY DEF mined, minedOf
<1>4. CostIsWhatLeaves
  BY <1>1, <1>2, <1>3 DEF CostIsWhatLeaves
<1>5. \A coin \in coins : coin.value \in 0 .. funds
  <2>1. value(coins) <= funds /\ funds \in Nat
    BY <1>1, <1>2
  <2>. SUFFICES ASSUME NEW coin \in coins PROVE coin.value \in 0 .. funds
    OBVIOUS
  <2>2. coin.value \in Nat /\ coin.value <= value(coins)
    BY <1>2, ValueOfMember
  <2>. QED  BY <1>2, <2>1, <2>2
<1>6. DOMAIN made = 1 .. Len(made)
  BY DEF IInv
<1>7. TypeOK
  BY <1>5, <1>6 DEF TypeOK, PInv
<1>. QED  BY <1>4, <1>7

(* ------------------------- the fees of signed pairs -------------------- *)

\* What a commit with c inputs owes when their signatures have x bytes.
owedBy(c, x, plan, left) ==
  conventionalFee([i \in 1 .. c |-> 1 + x + 1 + 33], outputs(plan, [changeZat |-> left]))

LEMMA TwoInOne ==
  ASSUME NEW a \in Nat, NEW b \in Nat
  PROVE  <<a>> \o <<b>> = <<a, b>>
<1>. PICK s, t, u, v : s = <<a>> /\ t = <<b>> /\ u = s \o t /\ v = <<a, b>>
  OBVIOUS
<1>1. s \in Seq(Nat) /\ Len(s) = 1 /\ s[1] = a /\ t \in Seq(Nat) /\ Len(t) = 1 /\ t[1] = b
  OBVIOUS
<1>2. u \in Seq(Nat) /\ Len(u) = 2 /\ u[1] = a /\ u[2] = b
  BY <1>1
<1>3. v \in Seq(Nat) /\ Len(v) = 2 /\ v[1] = a /\ v[2] = b
  OBVIOUS
<1>4. u = v
  <2>1. \A i \in 1 .. 2 : i = 1 \/ i = 2
    OBVIOUS
  <2>2. DOMAIN u = 1 .. 2 /\ DOMAIN v = 1 .. 2
    BY <1>2, <1>3
  <2>3. u = [i \in 1 .. 2 |-> u[i]] /\ v = [i \in 1 .. 2 |-> v[i]]
    BY <1>2, <1>3, <2>2
  <2>4. \A i \in 1 .. 2 : u[i] = v[i]
    <3>. TAKE i \in 1 .. 2
    <3>1. CASE i = 1
      BY <1>2, <1>3, <3>1
    <3>2. CASE i = 2
      BY <1>2, <1>3, <3>2
    <3>. QED  BY <2>1, <3>1, <3>2
  <2>. QED  BY ONLY <2>3, <2>4
<1>. QED  BY <1>4

\* A signed commit owes no more than its plan's fee, change or none.
LEMMA OwedBySize ==
  ASSUME NEW c \in Nat, NEW n \in 0 .. 73, NEW plan, NEW left \in Nat
  PROVE  /\ owedBy(c, n, plan, left) \in Nat
         /\ owedBy(c, n, plan, left) <= commitFee(c, <<P2SH_SCRIPT>>)
         /\ owedBy(c, 73, plan, left) = commitFee(c, <<P2SH_SCRIPT>>)
<1>. PICK ins, full : /\ ins = [i \in 1 .. c |-> 1 + n + 1 + 33]
                      /\ full = [i \in 1 .. c |-> 1 + 73 + 1 + 33]
  OBVIOUS
<1>. PICK outs : outs = outputs(plan, [changeZat |-> left])
  OBVIOUS
<1>1. outs = <<P2SH_SCRIPT>> \/ outs = <<P2SH_SCRIPT, P2PKH_SCRIPT>>
  <2>1. CASE left > 0
    <3>1. outs = <<P2SH_SCRIPT>> \o <<P2PKH_SCRIPT>>
      BY <2>1 DEF outputs
    <3>2. P2SH_SCRIPT \in Nat /\ P2PKH_SCRIPT \in Nat
      BY DEF P2SH_SCRIPT, P2PKH_SCRIPT
    <3>. QED  BY <3>1, <3>2, TwoInOne
  <2>2. CASE ~(left > 0)
    <3>1. outs = <<P2SH_SCRIPT>> \o << >>
      BY <2>2 DEF outputs
    <3>. QED  BY <3>1
  <2>. QED  BY <2>1, <2>2
<1>2. ins \in [1 .. c -> Nat] /\ full \in [1 .. c -> Nat] /\ \A i \in 1 .. c : ins[i] <= full[i]
  OBVIOUS
<1>3. Sizes(ins) /\ Sizes(full)
  BY <1>2 DEF Sizes
<1>4. \A s : Sizes(s) => conventionalFee(s, outs) = conventionalFee(s, <<P2SH_SCRIPT>>)
  <2>. TAKE s
  <2>. HAVE Sizes(s)
  <2>1. conventionalFee(s, <<P2SH_SCRIPT, P2PKH_SCRIPT>>) = conventionalFee(s, <<P2SH_SCRIPT>>)
    BY ChangeIsFree
  <2>. QED  BY <1>1, <2>1
<1>5. /\ conventionalFee(ins, <<P2SH_SCRIPT>>) \in Nat
      /\ conventionalFee(ins, <<P2SH_SCRIPT>>) <= conventionalFee(full, <<P2SH_SCRIPT>>)
  <2>1. Sizes(<<P2SH_SCRIPT>>)
    BY SizesOfOutputs
  <2>. QED  BY ONLY <1>2, <2>1, c \in Nat, FeesGrow
<1>6. commitFee(c, <<P2SH_SCRIPT>>) = conventionalFee(full, <<P2SH_SCRIPT>>)
  <2>1. P2PKH_SCRIPTSIG_BYTES = 1 + 73 + 1 + 33
    BY DEF P2PKH_SCRIPTSIG_BYTES, MAX_SIGNATURE_PUSH_BYTES
  <2>. QED  BY <2>1 DEF commitFee
<1>7. /\ conventionalFee(ins, outs) <= commitFee(c, <<P2SH_SCRIPT>>)
      /\ conventionalFee(full, outs) = commitFee(c, <<P2SH_SCRIPT>>)
      /\ conventionalFee(ins, outs) \in Nat
  BY <1>3, <1>4, <1>5, <1>6
<1>. QED  BY <1>7 DEF owedBy

LEMMA RevealOf ==
  ASSUME NEW k \in Stamp, NEW n \in SignatureBytes
  PROVE  Reveal(k, n).bytes = Len(inscriptionScriptSig(k, n))
<1>. DEFINE R(plan, x) ==
       LET signed == finalizeReveal(plan, x)
       IN [text |-> plan.text, length |-> x, fits |-> signed.fits, bytes |-> Len(signed.scriptSig),
           spells |-> decodeStamp(signed.scriptSig), taken |-> nodeAcceptsScript(signed.scriptSig)]
<1>1. Reveals = {R(plan, x) : plan \in Plans, x \in SignatureBytes}
  BY DEF Reveals
<1>2. \A plan, x : /\ R(plan, x).text = plan.text /\ R(plan, x).length = x
                   /\ R(plan, x).bytes = Len(inscriptionScriptSig(plan.text, x))
  BY DEF finalizeReveal
<1>. HIDE DEF R
<1>3. \E r \in Reveals : r.text = k /\ r.length = n
  <2>1. planInscription(k) \in Plans /\ planInscription(k).text = k
    BY DEF Plans, planInscription
  <2>2. R(planInscription(k), n) \in Reveals
    BY <1>1, <2>1
  <2>. QED  BY <1>2, <2>1, <2>2
<1>4. Reveal(k, n) \in Reveals /\ Reveal(k, n).text = k /\ Reveal(k, n).length = n
  BY <1>3, Zenon DEF Reveal
<1>. QED  BY <1>1, <1>2, <1>4

LEMMA FeesFit == IInv /\ PInv /\ BInv => FeesFitTheSignedPair
<1>. SUFFICES ASSUME IInv, PInv, BInv, NEW i \in DOMAIN made
              PROVE  LET pair == made[i]
                         plan == Plan(pair.text)
                         commitOwes(length) == conventionalFee(finalizeP2pkhInputs(pair, length),
                                                 outputs(plan, [changeZat |-> pair.changeZat]))
                         revealOwes(length) == conventionalFee(<<Reveal(pair.text, length).bytes>>,
                                                               <<P2PKH_SCRIPT>>)
                     IN /\ \A length \in SignatureBytes :
                             /\ pair.commitFeeZat >= commitOwes(length)
                             /\ buildReveal(plan).feeZat >= revealOwes(length)
                        /\ pair.commitFeeZat < commitOwes(MAX_SIGNATURE_PUSH_BYTES) + DUST
                        /\ pair.changeZat = 0 \/ pair.changeZat >= DUST
                        /\ value(pair.spent) = plan.commitOutputZat + pair.changeZat + pair.commitFeeZat
  BY Zenon DEF FeesFitTheSignedPair
<1>. PICK pair, k, plan, left, c, fee :
       /\ pair = made[i] /\ k = pair.text /\ plan = planInscription(k) /\ left = pair.changeZat
       /\ c = Cardinality(pair.spent) /\ fee = commitFee(c, <<P2SH_SCRIPT>>)
  OBVIOUS
<1>1. k \in Stamp /\ k \in Texts /\ Plan(k) = plan /\ Paid(pair)
  <2>1. i \in 1 .. Len(made) /\ k \in Stamp
    BY DEF IInv, PInv
  <2>2. Paid(pair)
    BY DEF BInv, Books
  <2>. QED  BY <2>1, <2>2, PlanOfText, PublicationAssumption
<1>2. /\ Money(pair.spent) /\ left \in Nat /\ (left = 0 \/ left >= DUST)
      /\ value(pair.spent) = plan.commitOutputZat + left + pair.commitFeeZat
      /\ pair.commitFeeZat >= fee /\ pair.commitFeeZat < fee + DUST /\ pair.commitFeeZat \in Nat
  BY <1>1 DEF Paid, Pays
<1>3. c \in Nat /\ fee \in Nat
  BY <1>2, FS_CardinalityType, CommitFees DEF Money
<1>. DEFINE owed(x) == owedBy(c, x, plan, left)
<1>4. ASSUME NEW n \in 0 .. 73 PROVE owed(n) <= fee /\ owed(73) = fee /\ owed(n) \in Nat
  <2>1. c \in Nat /\ left \in Nat
    BY <1>2, <1>3
  <2>2. /\ owedBy(c, n, plan, left) \in Nat
        /\ owedBy(c, n, plan, left) <= commitFee(c, <<P2SH_SCRIPT>>)
        /\ owedBy(c, 73, plan, left) = commitFee(c, <<P2SH_SCRIPT>>)
    BY ONLY <2>1, n \in 0 .. 73, OwedBySize
  <2>. QED  BY <2>2
<1>5. \A x : conventionalFee(finalizeP2pkhInputs(pair, x),
                            outputs(plan, [changeZat |-> pair.changeZat])) = owed(x)
  BY DEF finalizeP2pkhInputs, owedBy
<1>6. \A n \in SignatureBytes : n \in 0 .. 73
  BY DEF SignatureBytes
<1>7. ASSUME NEW n \in SignatureBytes
      PROVE  /\ pair.commitFeeZat >= owed(n)
             /\ buildReveal(plan).feeZat >= conventionalFee(<<Reveal(k, n).bytes>>, <<P2PKH_SCRIPT>>)
  <2>1. pair.commitFeeZat >= owed(n)
    <3>1. owed(n) <= fee /\ owed(n) \in Nat
      BY <1>4, <1>6
    <3>. HIDE DEF owed
    <3>. QED  BY <1>2, <1>3, <3>1
  <2>2. conventionalFee(<<Len(inscriptionScriptSig(k, n))>>, <<P2PKH_SCRIPT>>) <= plan.revealFeeZat
        /\ plan.revealFeeZat \in Nat /\ plan.commitOutputZat = DUST + plan.revealFeeZat
        /\ plan.dustZat = DUST
    BY <1>1, <1>6, RevealFee
  <2>3. buildReveal(plan).feeZat = plan.revealFeeZat
    <3>1. DUST \in Nat
      BY InscribeAssumption
    <3>. QED  BY <2>2, <3>1 DEF buildReveal
  <2>4. Reveal(k, n).bytes = Len(inscriptionScriptSig(k, n))
    BY <1>1, RevealOf
  <2>5. conventionalFee(<<Reveal(k, n).bytes>>, <<P2PKH_SCRIPT>>)
          = conventionalFee(<<Len(inscriptionScriptSig(k, n))>>, <<P2PKH_SCRIPT>>)
    BY <2>4
  <2>6. conventionalFee(<<Len(inscriptionScriptSig(k, n))>>, <<P2PKH_SCRIPT>>) \in Nat
    <3>1. Sizes(<<Len(inscriptionScriptSig(k, n))>>)
      <4>1. Len(inscriptionScriptSig(k, n)) \in Nat
        <5>1. n \in 0 .. 75
          BY <1>6
        <5>2. /\ Len(encodeStamp(k)) \in Nat
              /\ Len(inscriptionScriptSig(k, n)) = Len(encodeStamp(k)) + n + 80
          BY <1>1, <5>1, ScriptSigLength
        <5>. QED  BY <5>1, <5>2
      <4>. QED  BY <4>1 DEF Sizes
    <3>. QED  BY <3>1, SizesOfOutputs, FeeIsNat
  <2>. QED  BY <2>1, <2>2, <2>3, <2>5, <2>6
<1>8. pair.commitFeeZat < owed(73) + DUST
  <2>1. 73 \in 0 .. 73
    OBVIOUS
  <2>2. owed(73) = fee
    BY <1>4, <2>1
  <2>. QED  BY <1>2, <2>2
<1>9. MAX_SIGNATURE_PUSH_BYTES = 73
  BY DEF MAX_SIGNATURE_PUSH_BYTES
<1>. QED  BY <1>1, <1>2, <1>5, <1>7, <1>8, <1>9

(* --------------------------- the largest coins ------------------------- *)

\* Coins told apart by their ids.
Coins(S) ==
  /\ IsFiniteSet(S) /\ \A c \in S : c.id \in Nat /\ c.value \in Nat
  /\ \A c, d \in S : c.id = d.id => c = d

above(S, c) == {d \in S : larger(d, c)}

LEMMA LargerIsTotal ==
  ASSUME NEW S, Coins(S), NEW a \in S, NEW b \in S, NEW c \in S
  PROVE  /\ ~larger(a, a) /\ ~(larger(a, b) /\ larger(b, a))
         /\ larger(a, b) /\ larger(b, c) => larger(a, c)
         /\ a # b => larger(a, b) \/ larger(b, a)
<1>1. /\ a.id \in Nat /\ b.id \in Nat /\ c.id \in Nat
      /\ a.value \in Nat /\ b.value \in Nat /\ c.value \in Nat
      /\ a # b => a.id # b.id
  BY DEF Coins
<1>. QED  BY <1>1 DEF larger

\* Coins have a largest one.
LEMMA Greatest ==
  ASSUME NEW S, Coins(S), NEW T, T \subseteq S, T # {}
  PROVE  \E m \in T : \A c \in T : c # m => larger(m, c)
<1>. DEFINE F == {u \in SUBSET T : u = {} \/ \E m \in u : \A c \in u : c # m => larger(m, c)}
<1>1. {} \in F
  OBVIOUS
<1>2. ASSUME NEW u \in SUBSET T, NEW x \in T \ u, u \in F PROVE u \cup {x} \in F
  <2>. SUFFICES \E m \in u \cup {x} : \A c \in u \cup {x} : c # m => larger(m, c)
    OBVIOUS
  <2>1. CASE u = {}
    BY <2>1
  <2>2. CASE u # {}
    <3>1. PICK m \in u : \A c \in u : c # m => larger(m, c)
      BY <1>2, <2>2
    <3>2. x \in S /\ m \in S /\ x # m /\ u \subseteq S
      BY <3>1
    <3>3. CASE larger(m, x)
      BY <3>1, <3>3
    <3>4. CASE larger(x, m)
      <4>1. ASSUME NEW c \in u PROVE larger(x, c)
        <5>1. CASE c = m
          BY <3>4, <5>1
        <5>2. CASE c # m
          BY <3>1, <3>2, <3>4, <5>2, LargerIsTotal
        <5>. QED  BY <5>1, <5>2
      <4>. QED  BY <4>1
    <3>. QED  BY <3>2, <3>3, <3>4, LargerIsTotal
  <2>. QED  BY <2>1, <2>2
<1>3. IsFiniteSet(T)
  BY FS_Subset DEF Coins
<1>4. T \in F
  <2>. HIDE DEF F
  <2>. QED  BY <1>1, <1>2, <1>3, SetInduction
<1>. QED  BY <1>4

\* A larger coin has fewer above it.
LEMMA FewerAbove ==
  ASSUME NEW S, Coins(S), NEW a \in S, NEW b \in S, larger(a, b)
  PROVE  /\ Cardinality(above(S, a)) \in Nat /\ Cardinality(above(S, b)) \in Nat
         /\ Cardinality(above(S, a)) + 1 <= Cardinality(above(S, b))
<1>1. IsFiniteSet(above(S, a)) /\ IsFiniteSet(above(S, b))
  BY FS_Subset DEF above, Coins
<1>2. above(S, a) \cup {a} \subseteq above(S, b) /\ a \notin above(S, a)
  <2>1. \A d \in above(S, a) : d \in S /\ larger(d, a)
    BY DEF above
  <2>2. \A d \in above(S, a) : larger(d, b)
    BY <2>1, LargerIsTotal
  <2>. QED  BY <2>1, <2>2, LargerIsTotal DEF above
<1>3. /\ IsFiniteSet(above(S, a) \cup {a})
      /\ Cardinality(above(S, a) \cup {a}) = Cardinality(above(S, a)) + 1
  BY <1>1, <1>2, FS_AddElement
<1>4. Cardinality(above(S, a) \cup {a}) <= Cardinality(above(S, b))
  BY <1>1, <1>2, FS_Subset
<1>. QED  BY <1>1, <1>3, <1>4, FS_CardinalityType

LEMMA CandidatesAre ==
  ASSUME NEW S, NEW n
  PROVE  candidates(S, n) = {c \in S : Cardinality(above(S, c)) < n}
BY DEF candidates, above

\* A candidate is larger than every coin that is none.
LEMMA CandidatesAreLarger ==
  ASSUME NEW S, Coins(S), NEW n \in Nat, NEW c \in candidates(S, n), NEW d \in S \ candidates(S, n)
  PROVE  c \in S /\ larger(c, d)
<1>1. c \in S /\ Cardinality(above(S, c)) < n /\ ~(Cardinality(above(S, d)) < n)
  BY CandidatesAre
<1>2. c # d
  OBVIOUS
<1>3. ~larger(d, c)
  <2>. SUFFICES ASSUME larger(d, c) PROVE FALSE
    OBVIOUS
  <2>1. /\ Cardinality(above(S, d)) \in Nat /\ Cardinality(above(S, c)) \in Nat
        /\ Cardinality(above(S, d)) + 1 <= Cardinality(above(S, c))
    BY <1>1, FewerAbove
  <2>. QED  BY <1>1, <2>1
<1>. QED  BY <1>1, <1>2, <1>3, LargerIsTotal

\* The next candidate is the largest of the rest.
LEMMA OneMoreCandidate ==
  ASSUME NEW S, Coins(S), NEW n \in Nat, n < Cardinality(S),
         Cardinality(candidates(S, n)) = n
  PROVE  Cardinality(candidates(S, n + 1)) = n + 1
<1>. PICK T : T = candidates(S, n)
  OBVIOUS
<1>1. IsFiniteSet(S) /\ T \subseteq S /\ IsFiniteSet(T) /\ Cardinality(T) = n /\ S \ T # {}
  <2>1. IsFiniteSet(S) /\ T \subseteq S
    BY CandidatesAre DEF Coins
  <2>2. T # S
    OBVIOUS
  <2>. QED  BY <2>1, <2>2, FS_Subset
<1>2. PICK m \in S \ T : \A c \in S \ T : c # m => larger(m, c)
  <2>1. S \ T \subseteq S
    OBVIOUS
  <2>. QED  BY <1>1, <2>1, Greatest
<1>3. above(S, m) = T
  <2>1. ASSUME NEW d \in above(S, m) PROVE d \in T
    <3>1. d \in S /\ larger(d, m)
      BY DEF above
    <3>2. CASE d \in S \ T
      <4>1. d = m \/ larger(m, d)
        BY <1>2, <3>2
      <4>. QED  BY <1>2, <3>1, <4>1, LargerIsTotal
    <3>. QED  BY <3>1, <3>2
  <2>2. ASSUME NEW d \in T PROVE d \in above(S, m)
    BY <1>2, CandidatesAreLarger DEF above
  <2>. QED  BY <2>1, <2>2
<1>4. ASSUME NEW c \in S PROVE Cardinality(above(S, c)) < n + 1 <=> c \in T \cup {m}
  <2>0. Cardinality(above(S, c)) \in Nat
    BY FS_Subset, FS_CardinalityType DEF above, Coins
  <2>1. CASE c \in T
    <3>1. Cardinality(above(S, c)) < n
      BY <2>1, CandidatesAre
    <3>. QED  BY <2>0, <2>1, <3>1
  <2>2. CASE c = m
    BY <1>1, <1>3, <2>2
  <2>3. CASE c \notin T /\ c # m
    <3>1. larger(m, c)
      BY <1>2, <2>3
    <3>2. Cardinality(above(S, m)) + 1 <= Cardinality(above(S, c))
      BY <1>2, <3>1, FewerAbove
    <3>3. n + 1 <= Cardinality(above(S, c))
      BY <1>1, <1>3, <3>2
    <3>. QED  BY <2>0, <2>3, <3>3
  <2>. QED  BY <2>1, <2>2, <2>3
<1>5. candidates(S, n + 1) = T \cup {m}
  <2>1. candidates(S, n + 1) = {c \in S : Cardinality(above(S, c)) < n + 1}
    BY CandidatesAre
  <2>2. m \in S /\ T \subseteq S
    BY <1>1
  <2>. QED  BY <1>4, <2>1, <2>2
<1>. QED  BY <1>1, <1>2, <1>5, FS_AddElement

\* There are as many candidates as are asked for.
LEMMA CandidatesCount ==
  ASSUME NEW S, Coins(S), NEW n \in Nat, n <= Cardinality(S)
  PROVE  candidates(S, n) \subseteq S /\ Cardinality(candidates(S, n)) = n
<1>. DEFINE F == {x \in Nat : x <= Cardinality(S) => Cardinality(candidates(S, x)) = x}
<1>0. IsFiniteSet(S) /\ Cardinality(S) \in Nat
  BY FS_CardinalityType DEF Coins
<1>1. 0 \in F
  <2>1. \A c \in S : ~(Cardinality(above(S, c)) < 0)
    <3>. TAKE c \in S
    <3>1. Cardinality(above(S, c)) \in Nat
      BY <1>0, FS_Subset, FS_CardinalityType DEF above
    <3>. QED  BY <3>1
  <2>2. candidates(S, 0) = {}
    BY <2>1, CandidatesAre
  <2>. QED  BY <2>2, FS_EmptySet
<1>2. ASSUME NEW x \in Nat, x \in F PROVE x + 1 \in F
  <2>. SUFFICES ASSUME x + 1 <= Cardinality(S) PROVE Cardinality(candidates(S, x + 1)) = x + 1
    OBVIOUS
  <2>1. x < Cardinality(S) /\ Cardinality(candidates(S, x)) = x
    BY <1>0, <1>2
  <2>. QED  BY <2>1, OneMoreCandidate
<1>3. n \in F
  <2>. HIDE DEF F
  <2>. QED  BY <1>1, <1>2, NatStepInduction
<1>. QED  BY <1>3, CandidatesAre

LEMMA ValueOfMore ==
  ASSUME NEW u, Money(u), NEW x, x \notin u, x.value \in Nat
  PROVE  value(u) \in Nat /\ value(u \cup {x}) = value(u) + x.value
<1>1. Money({x}) /\ value({x}) = x.value
  BY ValueOfOne
<1>2. u \cap {x} = {}
  OBVIOUS
<1>. QED  BY <1>1, <1>2, ValueOfUnion

LEMMA OneTimesMore ==
  ASSUME NEW m \in Nat, NEW v \in Nat
  PROVE  m * v \in Nat /\ (m + 1) * v = m * v + v /\ 0 * v = 0
OBVIOUS

\* n coins of at least v have at least n times v, and of at most v at most.
LEMMA ValueBounds ==
  ASSUME NEW S, Money(S), NEW v \in Nat
  PROVE  /\ Cardinality(S) * v \in Nat /\ value(S) \in Nat
         /\ (\A c \in S : c.value >= v) => value(S) >= Cardinality(S) * v
         /\ (\A c \in S : c.value <= v) => value(S) <= Cardinality(S) * v
<1>. DEFINE Fine(u) == /\ (\A c \in u : c.value >= v) => value(u) >= Cardinality(u) * v
                       /\ (\A c \in u : c.value <= v) => value(u) <= Cardinality(u) * v
            F == {u \in SUBSET S : Fine(u)}
<1>1. {} \in F
  <2>1. value({}) = 0 /\ Cardinality({}) = 0 /\ 0 * v = 0
    BY ValueOfNone, FS_EmptySet, OneTimesMore
  <2>2. value({}) = Cardinality({}) * v /\ value({}) \in Nat
    BY <2>1
  <2>3. Fine({})
    BY <2>2
  <2>. QED  BY <2>3
<1>2. ASSUME NEW u \in SUBSET S, NEW x \in S \ u, u \in F PROVE u \cup {x} \in F
  <2>1. Money(u) /\ x.value \in Nat /\ x \notin u
    BY MoneyWeighs DEF Money
  <2>2. value(u) \in Nat /\ value(u \cup {x}) = value(u) + x.value
    BY <2>1, ValueOfMore
  <2>3. Cardinality(u) \in Nat /\ Cardinality(u \cup {x}) = Cardinality(u) + 1
    BY <2>1, FS_AddElement, FS_CardinalityType DEF Money
  <2>4. /\ Cardinality(u) * v \in Nat
        /\ (Cardinality(u) + 1) * v = Cardinality(u) * v + v
    BY <2>3, OneTimesMore
  <2>5. Cardinality(u \cup {x}) * v = Cardinality(u) * v + v
    BY <2>3, <2>4
  <2>. PICK a, b, p, q, y : /\ a = value(u) /\ b = value(u \cup {x}) /\ p = Cardinality(u) * v
                            /\ q = Cardinality(u \cup {x}) * v /\ y = x.value
    OBVIOUS
  <2>6. a \in Nat /\ p \in Nat /\ y \in Nat /\ b = a + y /\ q = p + v
    BY <2>1, <2>2, <2>4, <2>5
  <2>7. /\ (\A c \in u : c.value >= v) => a >= p
        /\ (\A c \in u : c.value <= v) => a <= p
    BY <1>2
  <2>8. /\ (\A c \in u \cup {x} : c.value >= v) => b >= q
        /\ (\A c \in u \cup {x} : c.value <= v) => b <= q
    <3>1. ASSUME \A c \in u \cup {x} : c.value >= v PROVE b >= q
      <4>1. a >= p /\ y >= v
        BY <2>7, <3>1
      <4>. QED  BY <2>6, <4>1
    <3>2. ASSUME \A c \in u \cup {x} : c.value <= v PROVE b <= q
      <4>1. a <= p /\ y <= v
        BY <2>7, <3>2
      <4>. QED  BY <2>6, <4>1
    <3>. QED  BY <3>1, <3>2
  <2>9. Fine(u \cup {x})
    BY <2>8
  <2>. HIDE DEF Fine
  <2>. QED  BY <2>9
<1>3. S \in F
  <2>1. IsFiniteSet(S)
    BY DEF Money
  <2>. HIDE DEF F
  <2>. QED  BY <1>1, <1>2, <2>1, SetInduction
<1>4. value(S) \in Nat /\ Cardinality(S) * v \in Nat
  <2>1. Cardinality(S) \in Nat
    BY FS_CardinalityType DEF Money
  <2>. QED  BY <2>1, OneTimesMore, ValueOfNone, ValueOfUnion
<1>. QED  BY <1>3, <1>4

\* Of two equally many coins those that are each worth as much are worth more.
LEMMA AsManyAsLarge ==
  ASSUME NEW A, Money(A), NEW B, Money(B), Cardinality(A) = Cardinality(B),
         \A a \in A, b \in B : a.value >= b.value
  PROVE  value(A) \in Nat /\ value(B) \in Nat /\ value(A) >= value(B)
<1>1. CASE A = {}
  <2>1. B = {}
    BY <1>1, FS_EmptySet DEF Money
  <2>. QED  BY <1>1, <2>1, ValueOfNone
<1>2. CASE A # {}
  <2>1. PICK v \in {a.value : a \in A} : \A x \in {a.value : a \in A} : v <= x
    <3>1. {a.value : a \in A} \subseteq Nat /\ {a.value : a \in A} # {}
      BY <1>2 DEF Money
    <3>. QED  BY <3>1, LeastNat
  <2>2. PICK a \in A : v = a.value
    OBVIOUS
  <2>3. v \in Nat /\ \A c \in A : c.value >= v
    BY <2>1, <2>2 DEF Money
  <2>4. \A c \in B : c.value <= v
    BY <2>2 DEF Money
  <2>5. /\ Cardinality(A) * v \in Nat /\ value(A) \in Nat /\ value(A) >= Cardinality(A) * v
    BY <2>3, ValueBounds
  <2>6. /\ value(B) \in Nat /\ value(B) <= Cardinality(B) * v
    BY <2>3, <2>4, ValueBounds
  <2>. QED  BY <2>5, <2>6
<1>. QED  BY <1>1, <1>2

\* The candidates are worth as much as any coins there are as many of.
LEMMA CandidatesAreMost ==
  ASSUME NEW S, Coins(S), NEW U, U \subseteq S
  PROVE  LET T == candidates(S, Cardinality(U)) IN
         /\ T \subseteq S /\ Cardinality(T) = Cardinality(U)
         /\ value(T) \in Nat /\ value(U) \in Nat /\ value(T) >= value(U)
<1>. PICK n, T : n = Cardinality(U) /\ T = candidates(S, n)
  OBVIOUS
<1>1. IsFiniteSet(S) /\ IsFiniteSet(U) /\ n \in Nat /\ n <= Cardinality(S)
  BY FS_Subset, FS_CardinalityType DEF Coins
<1>2. T \subseteq S /\ Cardinality(T) = n /\ IsFiniteSet(T)
  BY <1>1, CandidatesCount, FS_Subset
<1>3. Money(S) /\ Money(T) /\ Money(U)
  <2>1. Money(S)
    BY DEF Coins, Money
  <2>. QED  BY <1>2, <2>1, MoneyWeighs
<1>4. Cardinality(T \ U) = Cardinality(U \ T)
  <2>1. Cardinality(T \ U) = n - Cardinality(T \cap U)
    <3>1. Cardinality(T \ U) = Cardinality(T) - Cardinality(T \cap U)
      BY ONLY <1>2, FS_Difference
    <3>. QED  BY <1>2, <3>1
  <2>2. Cardinality(U \ T) = n - Cardinality(U \cap T)
    <3>1. Cardinality(U \ T) = Cardinality(U) - Cardinality(U \cap T)
      BY ONLY <1>1, FS_Difference
    <3>. QED  BY <3>1
  <2>3. T \cap U = U \cap T
    OBVIOUS
  <2>. QED  BY <2>1, <2>2, <2>3
<1>5. ASSUME NEW a \in T \ U, NEW b \in U \ T PROVE a.value >= b.value
  <2>1. b \in S \ candidates(S, n) /\ a \in candidates(S, n)
    OBVIOUS
  <2>2. a \in S /\ larger(a, b)
    BY <1>1, <2>1, CandidatesAreLarger
  <2>3. a.value \in Nat /\ b.value \in Nat
    BY <1>3, <2>2 DEF Money
  <2>. QED  BY <2>2, <2>3 DEF larger
<1>6. /\ T \cap U \subseteq T /\ T \ (T \cap U) = T \ U
      /\ T \cap U \subseteq U /\ U \ (T \cap U) = U \ T
  OBVIOUS
<1>7. /\ value(T \cap U) \in Nat /\ value(T) \in Nat /\ value(T \ U) \in Nat
      /\ value(T) = value(T \cap U) + value(T \ U) /\ Money(T \ U)
  BY <1>3, <1>6, ValueOfPart
<1>8. /\ value(U) \in Nat /\ value(U \ T) \in Nat
      /\ value(U) = value(T \cap U) + value(U \ T) /\ Money(U \ T)
  BY <1>3, <1>6, ValueOfPart
<1>9. value(T \ U) >= value(U \ T)
  BY <1>4, <1>5, <1>7, <1>8, AsManyAsLarge
<1>. QED  BY <1>2, <1>7, <1>8, <1>9

(* ---------------------------- finding a commit ------------------------- *)

\* The coins on the chain are told apart by their ids.
LEMMA CoinsAreApart == IInv /\ PInv /\ BInv => Coins(coins)
<1>. SUFFICES ASSUME IInv, PInv, BInv PROVE Coins(coins)
  OBVIOUS
<1>1. PICK P \in Purse : Books(P, coins, made, tip)
  BY DEF BInv
<1>2. Money(coins)
  BY CoinsAreMoney
<1>3. DOMAIN made = 1 .. Len(made) /\ Len(made) \in Nat /\ minedOf(made) \subseteq 1 .. Len(made)
  BY DEF IInv, minedOf
<1>4. \A c \in P : c.id \in 0 .. 100 /\ \A d \in P : c.id = d.id => c = d
  <2>1. P \subseteq [id : 0 .. 100, value : Nat] /\ \A c, d \in P : c.id = d.id => c = d
    BY PublicationAssumption
  <2>. QED  BY <2>1
<1>5. ASSUME NEW c \in coins
      PROVE  c \in P \/ \E i \in 1 .. Len(made) : c = [id |-> 100 + i, value |-> made[i].changeZat]
  <2>1. c \in P \/ c \in Outs(changesOf(made), minedOf(made))
    BY <1>1 DEF Books, Left
  <2>2. ASSUME c \in Outs(changesOf(made), minedOf(made))
        PROVE  \E i \in 1 .. Len(made) : c = [id |-> 100 + i, value |-> made[i].changeZat]
    <3>1. PICK i \in minedOf(made) : c \in changesOf(made)[i]
      BY <2>2, OutsOf
    <3>. QED  BY <1>3, <3>1 DEF changesOf
  <2>. QED  BY <2>1, <2>2
<1>6. ASSUME NEW c \in coins PROVE c.id \in Nat
  <2>1. CASE c \in P
    BY <1>4, <2>1
  <2>2. CASE c \notin P
    <3>1. PICK i \in 1 .. Len(made) : c = [id |-> 100 + i, value |-> made[i].changeZat]
      BY <1>5, <2>2
    <3>2. c.id = 100 + i /\ i \in Nat
      BY <1>3, <3>1
    <3>. QED  BY <3>2
  <2>. QED  BY <2>1, <2>2
<1>7. ASSUME NEW c \in coins, NEW d \in coins, c.id = d.id PROVE c = d
  <2>1. CASE c \in P /\ d \in P
    BY <1>4, <1>7, <2>1
  <2>2. CASE c \in P /\ d \notin P
    <3>1. PICK i \in 1 .. Len(made) : d = [id |-> 100 + i, value |-> made[i].changeZat]
      BY <1>5, <2>2
    <3>2. d.id = 100 + i /\ i >= 1 /\ i \in Nat /\ c.id \in 0 .. 100
      BY <1>3, <1>4, <2>2, <3>1
    <3>. QED  BY <1>7, <3>2
  <2>3. CASE c \notin P /\ d \in P
    <3>1. PICK i \in 1 .. Len(made) : c = [id |-> 100 + i, value |-> made[i].changeZat]
      BY <1>5, <2>3
    <3>2. c.id = 100 + i /\ i >= 1 /\ i \in Nat /\ d.id \in 0 .. 100
      BY <1>3, <1>4, <2>3, <3>1
    <3>. QED  BY <1>7, <3>2
  <2>4. CASE c \notin P /\ d \notin P
    <3>1. PICK i \in 1 .. Len(made) : c = [id |-> 100 + i, value |-> made[i].changeZat]
      BY <1>5, <2>4
    <3>2. PICK j \in 1 .. Len(made) : d = [id |-> 100 + j, value |-> made[j].changeZat]
      BY <1>5, <2>4
    <3>3. c.id = 100 + i /\ d.id = 100 + j /\ i \in Nat /\ j \in Nat
      BY <1>3, <3>1, <3>2
    <3>4. i = j
      <4>1. 100 + i = 100 + j
        BY <1>7, <3>3
      <4>. QED  BY ONLY <3>3, <4>1
    <3>. QED  BY <3>1, <3>2, <3>4
  <2>. QED  BY <2>1, <2>2, <2>3, <2>4
<1>. QED  BY <1>2, <1>6, <1>7 DEF Coins, Money

LEMMA SomeOf ==
  ASSUME NEW S, NEW U
  PROVE  U \in (SUBSET S) \ {{}} <=> U \subseteq S /\ U # {}
<1>1. U \in {{}} <=> U = {}
  BY Zenon
<1>2. U \in SUBSET S <=> U \subseteq S
  BY Zenon
<1>. QED  BY <1>1, <1>2, Zenon

\* A commit is found when some coins could fund one, and only then.
LEMMA CommitFound ==
  ASSUME NEW plan, plan.commitOutputZat \in Nat \ {0}, NEW S, Coins(S)
  PROVE  buildCommit(plan, S).funded
           <=> \E U \in (SUBSET S) \ {{}} :
                 value(U) >= plan.commitOutputZat + commitFee(Cardinality(U), <<P2SH_SCRIPT>>)
<1>. PICK enough : enough = {n \in 1 .. Cardinality(S) : funding(plan, candidates(S, n)).funded}
  OBVIOUS
<1>0. Money(S)
  BY DEF Coins, Money
<1>1. ASSUME buildCommit(plan, S).funded
      PROVE  \E U \in (SUBSET S) \ {{}} :
               value(U) >= plan.commitOutputZat + commitFee(Cardinality(U), <<P2SH_SCRIPT>>)
  <2>. PICK c, U : c = buildCommit(plan, S) /\ U = c.spent
    OBVIOUS
  <2>1. U \subseteq S /\ Pays(plan.commitOutputZat, U, c.feeZat, c.changeZat)
    BY <1>0, <1>1, CommitIs
  <2>. PICK v, o, f, fee, left : /\ v = value(U) /\ o = plan.commitOutputZat /\ f = c.feeZat
                                 /\ fee = commitFee(Cardinality(U), <<P2SH_SCRIPT>>) /\ left = c.changeZat
    OBVIOUS
  <2>2. U # {} /\ v = o + left + f /\ left \in Nat /\ f \in Nat /\ f >= fee /\ o \in Nat
    BY <2>1 DEF Pays
  <2>3. fee \in Nat
    <3>1. Cardinality(U) \in Nat
      BY <1>0, <2>1, FS_Subset, FS_CardinalityType DEF Money
    <3>. QED  BY <3>1, CommitFees
  <2>4. v >= o + fee
    BY <2>2, <2>3
  <2>5. U \in (SUBSET S) \ {{}}
    BY <2>1, <2>2, SomeOf, Zenon
  <2>6. value(U) >= plan.commitOutputZat + commitFee(Cardinality(U), <<P2SH_SCRIPT>>)
    BY <2>4
  <2>. QED  BY <2>5, <2>6
<1>2. ASSUME NEW U \in (SUBSET S) \ {{}},
             value(U) >= plan.commitOutputZat + commitFee(Cardinality(U), <<P2SH_SCRIPT>>)
      PROVE  buildCommit(plan, S).funded
  <2>. PICK n, T, m : n = Cardinality(U) /\ T = candidates(S, n) /\ m = Min(enough)
    OBVIOUS
  <2>1. n \in 1 .. Cardinality(S)
    <3>1. U \subseteq S /\ U # {} /\ IsFiniteSet(S)
      <4>1. U \subseteq S /\ U # {}
        BY SomeOf, Zenon
      <4>. QED  BY <4>1 DEF Coins
    <3>2. IsFiniteSet(U) /\ n <= Cardinality(S) /\ n # 0
      BY <3>1, FS_Subset, FS_EmptySet
    <3>. QED  BY <3>1, <3>2, FS_CardinalityType
  <2>2. /\ T \subseteq S /\ Cardinality(T) = n
        /\ value(T) \in Nat /\ value(U) \in Nat /\ value(T) >= value(U)
    BY CandidatesAreMost
  <2>3. funding(plan, T).funded
    <3>1. Money(T)
      BY <1>0, <2>2, MoneyWeighs
    <3>2. commitFee(n, <<P2SH_SCRIPT>>) \in Nat
      BY <2>1, CommitFees
    <3>. PICK v, u, o, fee : /\ v = value(T) /\ u = value(U) /\ o = plan.commitOutputZat
                             /\ fee = commitFee(n, <<P2SH_SCRIPT>>)
      OBVIOUS
    <3>3. v >= o + fee
      BY <1>2, <2>2, <3>2
    <3>4. value(T) >= plan.commitOutputZat + commitFee(Cardinality(T), <<P2SH_SCRIPT>>)
      BY <2>2, <3>3
    <3>. QED  BY <3>1, <3>4, FundingIs
  <2>4. n \in enough
    BY <2>1, <2>3
  <2>5. m \in enough
    <3>1. enough \subseteq Nat
      OBVIOUS
    <3>2. PICK x \in enough : \A y \in enough : x <= y
      BY <2>4, <3>1, LeastNat
    <3>3. Min(enough) \in enough
      BY <3>2, Zenon DEF Min
    <3>. QED  BY <3>3
  <2>6. buildCommit(plan, S) = funding(plan, IF enough = {} THEN {} ELSE candidates(S, m))
    BY DEF buildCommit
  <2>7. buildCommit(plan, S) = funding(plan, candidates(S, m))
    BY <2>4, <2>6
  <2>. QED  BY <2>5, <2>7
<1>. QED  BY <1>1, <1>2

LEMMA FundsFound == IInv /\ PInv /\ BInv => FundsWheneverPossible
<1>. SUFFICES ASSUME IInv, PInv, BInv, NEW k \in Stamp
              PROVE  buildCommit(Plan(k), coins).funded
                       <=> \E S \in (SUBSET coins) \ {{}} :
                             value(S) >= Plan(k).commitOutputZat
                                           + commitFee(Cardinality(S), <<P2SH_SCRIPT>>)
  BY DEF FundsWheneverPossible
<1>1. Plan(k) = planInscription(k) /\ Plan(k).commitOutputZat \in Nat \ {0}
  BY PlanOfText, PlanIsNat
<1>. QED  BY <1>1, CoinsAreApart, CommitFound

\* What a pair pays, for every purse, fee and text: the publisher's coins are
\* what it started with less what its mined commits were said to cost, whatever
\* blocks do; signed pairs pay the fee of their size; and a commit is found
\* whenever some coins could fund one (publishIssuance, buildCommit).
THEOREM PaysItsWay == Spec => []PairsPayTheirWay
<1>1. Init => BInv
  BY InitBInv
<1>2. IInv /\ PInv /\ BInv /\ [Next]_vars => BInv'
  BY NextBInv
<1>3. IInv /\ PInv /\ BInv => PairsPayTheirWay
  BY CostLeaves, FeesFit, FundsFound DEF PairsPayTheirWay
<1>. QED  BY <1>1, <1>2, <1>3, PairsKeepShape, PTL DEF Spec

=============================================================================
