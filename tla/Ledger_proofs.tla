---------------------------- MODULE Ledger_proofs ----------------------------
(***************************************************************************)
(* Proofs about Ledger, for every feed of transactions and publications.   *)
(* The inductive invariant IInv adds to the stated invariants that every   *)
(* accepted burn event is among the seen ones (this is what makes the      *)
(* duplicate test effective) and that the publication of a row commits to  *)
(* the row's own issuance (this is what keeps two rows apart).             *)
(***************************************************************************)
EXTENDS Ledger, LedgerReplay, FiniteSetTheorems, WellFoundedInduction, TLAPS

\* The publication a row was accepted with.
RowMatches(row) ==
  \E z \in zcash : publicationMatches(row.issuance, z) /\ z.txid = row.zcashTx

EventsSeen ==
  \A i \in 1 .. Len(accepted) : eventOf(accepted[i].issuance) \in seen

AllMatch == \A i \in 1 .. Len(accepted) : RowMatches(accepted[i])

IInv == TypeOK /\ EventsSeen /\ OneRowPerBurn /\ RowsAreBurned /\ AllMatch

-----------------------------------------------------------------------------

\* A set of natural numbers that is not empty has a least element.
LEMMA LeastNat ==
  ASSUME NEW T, T \subseteq Nat, T # {}
  PROVE  \E n \in T : \A m \in T : n <= m
<1>1. PICK n \in T : \A m \in T : <<m, n>> \notin OpToRel(<, Nat)
  BY WFMin, NatLessThanWellFounded, Zenon
<1>2. \A m \in T : ~ (m < n)
  <2>1. \A m \in T : <<m, n>> \in Nat \X Nat
    OBVIOUS
  <2>. QED  BY <1>1, <2>1, Zenon DEF OpToRel
<1>. QED  BY <1>2

\* The element of s that a fold over a set takes first.
first(s) == CHOOSE x \in s : TRUE

\* One unfolding of the sum of the amounts of s, the rest being g's business.
sumStep(g, s) == IF s = {} THEN 0 ELSE first(s).amount + g[s \ {first(s)}]

\* g gives the sum of the amounts of every set of the family D.
Sums(g, D) == g = [s \in D |-> sumStep(g, s)]

Amounts(S) == IsFiniteSet(S) /\ \A x \in S : x.amount \in Nat

Total(S) == MapThenSumSet(LAMBDA x : x.amount, S)

\* What is left of a finite set is smaller.
LEMMA Smaller ==
  ASSUME NEW s, IsFiniteSet(s), NEW x \in s
  PROVE  /\ IsFiniteSet(s \ {x})
         /\ Cardinality(s) \in Nat /\ Cardinality(s \ {x}) \in Nat
         /\ Cardinality(s \ {x}) = Cardinality(s) - 1
BY FS_RemoveElement, FS_CardinalityType

LEMMA FirstIsIn == ASSUME NEW s, s # {} PROVE first(s) \in s
BY DEF first

LEMMA TotalIsFold ==
  ASSUME NEW S
  PROVE  Total(S) = (CHOOSE g : Sums(g, SUBSET S))[S]
BY DEF Total, MapThenSumSet, MapThenFoldSet, Sums, sumStep, first

\* The recursive definition of the sum has a solution.
LEMMA SumsExist ==
  ASSUME NEW S, IsFiniteSet(S)
  PROVE  \E g : Sums(g, SUBSET S)
<1>. DEFINE D(n) == {s \in SUBSET S : Cardinality(s) < n}
            Bad == {n \in Nat : ~ \E g : Sums(g, D(n))}
<1>1. \A s \in SUBSET S : IsFiniteSet(s) /\ Cardinality(s) \in Nat
  BY FS_Subset, FS_CardinalityType
<1>2. ASSUME NEW n \in Nat, \E g : Sums(g, D(n))
      PROVE  \E g : Sums(g, D(n + 1))
  <2>1. PICK g : Sums(g, D(n))
    BY <1>2
  <2>2. PICK h : h = [s \in D(n + 1) |->
                        IF Cardinality(s) < n THEN g[s] ELSE sumStep(g, s)]
    OBVIOUS
  <2>3. ASSUME NEW s \in D(n + 1) PROVE h[s] = sumStep(h, s)
    <3>1. CASE s = {}
      BY <2>1, <2>2, <2>3, <3>1 DEF Sums, sumStep
    <3>2. CASE s # {}
      <4>. DEFINE t == s \ {first(s)}
      <4>1. s \in SUBSET S /\ Cardinality(s) < n + 1
        OBVIOUS
      <4>2. t \in SUBSET S /\ Cardinality(t) < n /\ Cardinality(t) < n + 1
        BY <1>1, <3>2, <4>1, FirstIsIn, Smaller
      <4>3. h[t] = g[t]
        BY <2>2, <4>2
      <4>4. sumStep(h, s) = sumStep(g, s)
        BY <4>3 DEF sumStep
      <4>5. CASE Cardinality(s) < n
        BY <2>1, <2>2, <4>1, <4>4, <4>5 DEF Sums
      <4>6. CASE ~ (Cardinality(s) < n)
        BY <2>2, <4>1, <4>4, <4>6
      <4>. QED  BY <4>5, <4>6
    <3>. QED  BY <3>1, <3>2
  <2>4. Sums(h, D(n + 1))
    BY <2>2, <2>3, Zenon DEF Sums
  <2>. QED  BY <2>4
<1>3. Bad = {}
  <2>. SUFFICES ASSUME Bad # {} PROVE FALSE
    OBVIOUS
  <2>1. PICK n \in Bad : \A m \in Bad : n <= m
    <3>. HIDE DEF D
    <3>. QED  BY LeastNat
  <2>2. n # 0
    <3>1. D(0) = {}
      BY <1>1
    <3>2. PICK g : g = [s \in {} |-> 0]
      OBVIOUS
    <3>3. Sums(g, {})
      BY <3>2 DEF Sums
    <3>. HIDE DEF D
    <3>. QED  BY <3>1, <3>3
  <2>. HIDE DEF D
  <2>3. n - 1 \in Nat /\ n - 1 \notin Bad /\ (n - 1) + 1 = n
    BY <2>1, <2>2
  <2>. QED  BY <1>2, <2>1, <2>3
<1>4. D(Cardinality(S) + 1) = SUBSET S
  BY <1>1, FS_Subset, FS_CardinalityType
<1>5. Cardinality(S) + 1 \in Nat
  BY FS_CardinalityType
<1>. HIDE DEF D
<1>6. \E g : Sums(g, D(Cardinality(S) + 1))
  BY <1>3, <1>5
<1>. QED  BY <1>4, <1>6, Zenon

\* A solution does not depend on the order in which elements are taken.
LEMMA SumsAnyOrder ==
  ASSUME NEW S, Amounts(S), NEW g, Sums(g, SUBSET S)
  PROVE  \A u \in SUBSET S :
           g[u] \in Nat /\ \A x \in u : g[u] = x.amount + g[u \ {x}]
<1>. DEFINE Fine(u) == g[u] \in Nat /\ \A x \in u : g[u] = x.amount + g[u \ {x}]
            Bad == {Cardinality(u) : u \in {v \in SUBSET S : ~ Fine(v)}}
<1>1. \A u \in SUBSET S : IsFiniteSet(u) /\ Cardinality(u) \in Nat
  BY FS_Subset, FS_CardinalityType DEF Amounts
<1>2. ASSUME NEW u \in SUBSET S,
             \A v \in SUBSET S : Cardinality(v) < Cardinality(u) => Fine(v)
      PROVE  Fine(u)
  <2>1. CASE u = {}
    BY <2>1 DEF Sums, sumStep
  <2>2. CASE u # {}
    <3>1. PICK y \in u : g[u] = y.amount + g[u \ {y}]
      BY <2>2, FirstIsIn DEF Sums, sumStep
    <3>2. \A x \in u : u \ {x} \in SUBSET S /\ Fine(u \ {x}) /\ x.amount \in Nat
      BY <1>1, <1>2, Smaller DEF Amounts
    <3>3. g[u] \in Nat
      <4>1. g[u \ {y}] \in Nat /\ y.amount \in Nat
        BY <3>2, Zenon
      <4>. HIDE DEF Fine
      <4>. QED  BY <3>1, <4>1
    <3>4. ASSUME NEW x \in u, x # y PROVE g[u] = x.amount + g[u \ {x}]
      <4>1. x \in u \ {y} /\ y \in u \ {x} /\ (u \ {y}) \ {x} = (u \ {x}) \ {y}
        BY <3>4
      <4>2. /\ g[u \ {y}] = x.amount + g[(u \ {y}) \ {x}]
            /\ g[u \ {x}] = y.amount + g[(u \ {x}) \ {y}]
        BY <3>2, <4>1
      <4>3. g[(u \ {y}) \ {x}] \in Nat
        <5>. PICK v : v = u \ {y}
          OBVIOUS
        <5>1. v \in SUBSET S /\ Cardinality(v) = Cardinality(u) - 1
          BY <1>1, Smaller
        <5>2. v \ {x} \in SUBSET S /\ Cardinality(v \ {x}) < Cardinality(u)
          BY <1>1, <4>1, <5>1, Smaller
        <5>. QED  BY <1>2, <5>2
      <4>. HIDE DEF Fine
      <4>4. x.amount \in Nat /\ y.amount \in Nat
        BY <3>2
      <4>. PICK a, b, c : /\ a = x.amount /\ b = y.amount
                          /\ c = g[(u \ {y}) \ {x}]
        OBVIOUS
      <4>5. c = g[(u \ {x}) \ {y}]
        BY <4>1, Zenon
      <4>6. g[u] = b + (a + c) /\ g[u \ {x}] = b + c
        BY <3>1, <4>2, <4>5
      <4>7. a \in Nat /\ b \in Nat /\ c \in Nat /\ b + (a + c) = a + (b + c)
        BY <4>3, <4>4
      <4>. QED  BY <4>6, <4>7
    <3>. QED  BY <3>1, <3>3, <3>4
  <2>. QED  BY <2>1, <2>2
<1>3. Bad = {}
  <2>. SUFFICES ASSUME Bad # {} PROVE FALSE
    OBVIOUS
  <2>. HIDE DEF Fine
  <2>1. Bad \subseteq Nat
    BY <1>1
  <2>2. PICK n \in Bad : \A m \in Bad : n <= m
    BY <2>1, LeastNat
  <2>3. PICK u \in SUBSET S : ~ Fine(u) /\ n = Cardinality(u)
    BY <2>2
  <2>4. \A v \in SUBSET S : Cardinality(v) < Cardinality(u) => Fine(v)
    BY <1>1, <2>2, <2>3
  <2>. QED  BY <1>2, <2>3, <2>4
<1>. QED  BY <1>3

LEMMA SumsTakeOne ==
  ASSUME NEW S, Amounts(S), NEW g, Sums(g, SUBSET S), NEW x \in S
  PROVE  g[S \ {x}] \in Nat /\ g[S] = x.amount + g[S \ {x}]
<1>1. \A u \in SUBSET S :
        g[u] \in Nat /\ \A y \in u : g[u] = y.amount + g[u \ {y}]
  BY SumsAnyOrder
<1>2. S \in SUBSET S /\ S \ {x} \in SUBSET S
  OBVIOUS
<1>. QED  BY <1>1, <1>2

\* Two solutions agree where both are defined.
LEMMA SumsUnique ==
  ASSUME NEW S, NEW T, Amounts(S), Amounts(T), S \subseteq T,
         NEW g, Sums(g, SUBSET S), NEW h, Sums(h, SUBSET T)
  PROVE  g[S] = h[S]
<1>. DEFINE Bad == {Cardinality(u) : u \in {v \in SUBSET S : g[v] # h[v]}}
<1>1. \A u \in SUBSET S :
        u \in SUBSET T /\ IsFiniteSet(u) /\ Cardinality(u) \in Nat
  BY FS_Subset, FS_CardinalityType DEF Amounts
<1>2. ASSUME NEW u \in SUBSET S,
             \A v \in SUBSET S : Cardinality(v) < Cardinality(u) => g[v] = h[v]
      PROVE  g[u] = h[u]
  <2>1. CASE u = {}
    BY <1>1, <2>1 DEF Sums, sumStep
  <2>2. CASE u # {}
    <3>1. g[u \ {first(u)}] = h[u \ {first(u)}]
      BY <1>1, <1>2, <2>2, FirstIsIn, Smaller
    <3>. QED  BY <1>1, <2>2, <3>1 DEF Sums, sumStep
  <2>. QED  BY <2>1, <2>2
<1>3. Bad = {}
  <2>. SUFFICES ASSUME Bad # {} PROVE FALSE
    OBVIOUS
  <2>1. Bad \subseteq Nat
    BY <1>1
  <2>2. PICK n \in Bad : \A m \in Bad : n <= m
    BY <2>1, LeastNat
  <2>3. PICK u \in SUBSET S : g[u] # h[u] /\ n = Cardinality(u)
    BY <2>2
  <2>4. \A v \in SUBSET S : Cardinality(v) < Cardinality(u) => g[v] = h[v]
    BY <1>1, <2>2, <2>3
  <2>. QED  BY <1>2, <2>3, <2>4
<1>. QED  BY <1>3

\* The sum over a set, one element at a time.
LEMMA TotalOfNone == Total({}) = 0
<1>1. PICK g : g = CHOOSE f : Sums(f, SUBSET {})
  OBVIOUS
<1>2. Sums(g, SUBSET {})
  BY <1>1, SumsExist, FS_EmptySet
<1>. QED  BY <1>1, <1>2, TotalIsFold DEF Sums, sumStep

LEMMA TotalOfMore ==
  ASSUME NEW S, Amounts(S), NEW x, x \notin S, x.amount \in Nat
  PROVE  Total(S) \in Nat /\ Total(S \cup {x}) = Total(S) + x.amount
<1>. PICK T : T = S \cup {x}
  OBVIOUS
<1>1. Amounts(T) /\ S \in SUBSET T /\ T \ {x} = S /\ x \in T
  BY FS_AddElement DEF Amounts
<1>2. PICK g : g = CHOOSE f : Sums(f, SUBSET S)
  OBVIOUS
<1>3. PICK h : h = CHOOSE f : Sums(f, SUBSET T)
  OBVIOUS
<1>4. Sums(g, SUBSET S) /\ Sums(h, SUBSET T)
  BY <1>1, <1>2, <1>3, SumsExist DEF Amounts
<1>5. Total(S) = g[S] /\ Total(T) = h[T]
  BY <1>2, <1>3, TotalIsFold
<1>6. g[S] = h[S]
  <2>1. S \subseteq T /\ Amounts(T)
    BY <1>1
  <2>. QED  BY <1>4, <2>1, SumsUnique, Zenon
<1>7. h[S] \in Nat /\ h[T] = x.amount + h[T \ {x}]
  <2>1. Amounts(T) /\ x \in T /\ T \ {x} = S
    BY <1>1
  <2>. QED  BY <1>4, <2>1, SumsTakeOne, Zenon
<1>8. x.amount + h[S] = h[S] + x.amount
  BY <1>7
<1>9. Total(T) = Total(S) + x.amount /\ Total(S) \in Nat
  BY <1>1, <1>5, <1>6, <1>7, <1>8, Zenon
<1>. QED  BY <1>9, Zenon

\* The winner of several publications is one of them, with the lowest txid.
LEMMA WinnerLeast ==
  ASSUME NEW S, S \subseteq ZcashPublication, S # {}
  PROVE  winner(S) \in S /\ \A y \in S : winner(S).txid <= y.txid
<1>. DEFINE T == {z.txid : z \in S}
<1>1. T \subseteq Nat /\ T # {}
  BY DEF ZcashPublication
<1>2. PICK n \in T : \A m \in T : n <= m
  BY <1>1, LeastNat
<1>3. \E z \in S : \A y \in S : z.txid <= y.txid
  BY <1>2
<1>. QED  BY <1>3 DEF winner

\* A valid burn stands for a well-formed issuance that describes it.
LEMMA ValidBurn ==
  ASSUME NEW tx \in CanonicalSolanaTx, complete(tx), valid(tx)
  PROVE  issuanceOf(tx) \in IssuanceFields /\ BurnOf(tx, issuanceOf(tx))
<1>1. /\ tx.burn \in BurnDecode /\ tx.signature \in Nat
      /\ tx.burn.amount > 0
      /\ tx.burn.authority \in tx.signers
      /\ tx.network = Source /\ tx.finalized /\ ~tx.failed
  BY DEF valid, validateBurn, CanonicalSolanaTx
<1>2. tx.intents[1].destination \in Destination
  BY BurnAssumption DEF valid, validateBurn, intentMatches
<1>3. authorityRole(tx) \in {"owner", "delegate"}
  BY DEF valid, validateBurn, authorityRole
<1>. QED
  BY <1>1, <1>2, <1>3 DEF issuanceOf, IssuanceFields, BurnDecode, BurnOf

LEMMA EventType ==
  ASSUME NEW x \in IssuanceFields
  PROVE  eventOf(x) \in Nat \X Nat
BY DEF eventOf, IssuanceFields

\* What an accepting step appends.
LEMMA AcceptShape ==
  ASSUME IInv, NEW tx \in Feed, Accept(tx)
  PROVE  \E row \in AcceptedIssuance :
           /\ accepted' = Append(accepted, row)
           /\ row.issuance = issuanceOf(tx)
           /\ \E z \in Matches(row.issuance) :
                /\ z.txid = row.zcashTx
                /\ \A y \in Matches(row.issuance) : z.txid <= y.txid
<1>. DEFINE x == issuanceOf(tx)
            z == winner(Matches(x))
<1>1. x \in IssuanceFields
  BY ValidBurn, InputAssumption DEF Accept
<1>2. Matches(x) \subseteq ZcashPublication /\ Matches(x) # {}
  BY InputAssumption DEF IInv, TypeOK, Matches, Accept
<1>3. z \in Matches(x) /\ \A y \in Matches(x) : z.txid <= y.txid
  BY <1>2, WinnerLeast
<1>4. z \in ZcashPublication
  BY <1>2, <1>3
<1>. HIDE DEF x, z
<1>5. acceptIssuance(x, z) \in AcceptedIssuance
  BY <1>1, <1>4 DEF acceptIssuance, AcceptedIssuance, ZcashPublication
<1>6. accepted' = Append(accepted, acceptIssuance(x, z))
  BY DEF Accept, filed, x, z
<1>7. /\ acceptIssuance(x, z).issuance = x
      /\ acceptIssuance(x, z).zcashTx = z.txid
  BY DEF acceptIssuance
<1>. QED  BY <1>3, <1>5, <1>6, <1>7 DEF x

\* What a step of the replay does to the files of transactions.
LEMMA IterateShape ==
  ASSUME IInv, NEW tx \in Feed, NEW what \in Outcome, Iterate(tx, what)
  PROVE  /\ replayed' \in Seq(Feed)
         /\ Len(replayed') = Len(replayed) + 1
         /\ replayed'[Len(replayed) + 1] = tx
         /\ outcome' = Append(outcome, what)
         /\ \A i \in 1 .. Len(replayed) : replayed'[i] = replayed[i]
BY DEF IInv, TypeOK, Iterate

LEMMA InitIInv == Init => IInv
<1>. SUFFICES ASSUME Init PROVE IInv
  OBVIOUS
<1>1. TypeOK
  BY DEF Init, TypeOK
<1>. QED
  BY <1>1 DEF Init, IInv, EventsSeen, OneRowPerBurn, RowsAreBurned, AllMatch

\* A step that files a transaction without accepting it.
LEMMA FiledIInv ==
  ASSUME IInv, NEW tx \in Feed, NEW what \in Outcome, Iterate(tx, what),
         UNCHANGED accepted, seen \subseteq seen', seen' \subseteq Nat \X Nat
  PROVE  IInv'
<1>1. TypeOK'
  BY IterateShape DEF IInv, TypeOK, Iterate
<1>2. EventsSeen' /\ OneRowPerBurn' /\ AllMatch'
  BY DEF IInv, EventsSeen, OneRowPerBurn, AllMatch, RowMatches, Iterate
<1>3. RowsAreBurned'
  <2>1. /\ \A i \in 1 .. Len(outcome) : outcome'[i] = outcome[i]
        /\ Len(outcome) = Len(replayed) /\ Len(replayed) \in Nat
    <3>1. outcome' = Append(outcome, what)
      BY IterateShape
    <3>. QED  BY <3>1 DEF IInv, TypeOK
  <2>2. /\ \A i \in 1 .. Len(replayed) : replayed'[i] = replayed[i]
        /\ Len(replayed') = Len(replayed) + 1
    BY IterateShape
  <2>3. ASSUME NEW i \in 1 .. Len(accepted)
        PROVE  \E j \in 1 .. Len(replayed') :
                 /\ outcome'[j] = "accepted"
                 /\ BurnOf(replayed'[j], accepted[i].issuance)
    <3>1. PICK j \in 1 .. Len(replayed) :
            outcome[j] = "accepted" /\ BurnOf(replayed[j], accepted[i].issuance)
      BY DEF IInv, RowsAreBurned
    <3>2. j \in 1 .. Len(replayed') /\ j \in 1 .. Len(outcome)
      BY <2>1, <2>2
    <3>3. outcome'[j] = "accepted" /\ replayed'[j] = replayed[j]
      BY <2>1, <2>2, <3>1, <3>2
    <3>. QED  BY <3>1, <3>2, <3>3
  <2>. QED  BY <2>3 DEF RowsAreBurned, BurnOf
<1>. QED  BY <1>1, <1>2, <1>3 DEF IInv

\* Accepting files a row that is new, burned and published.
LEMMA AcceptIInv ==
  ASSUME IInv, NEW tx \in Feed, Accept(tx)
  PROVE  IInv'
<1>1. PICK row \in AcceptedIssuance :
        /\ accepted' = Append(accepted, row)
        /\ row.issuance = issuanceOf(tx)
        /\ \E z \in Matches(row.issuance) : z.txid = row.zcashTx
  BY AcceptShape
<1>2. /\ Iterate(tx, "accepted")
      /\ eventOf(row.issuance) \notin seen
      /\ seen' = seen \cup {eventOf(row.issuance)}
      /\ BurnOf(tx, row.issuance) /\ "accepted" \in Outcome
  BY <1>1, ValidBurn, InputAssumption DEF Accept, alreadySeen, Outcome
<1>. PICK n : n = Len(accepted) + 1
  OBVIOUS
<1>3. /\ accepted \in Seq(AcceptedIssuance) /\ Len(accepted) \in Nat
      /\ Len(accepted') = n /\ accepted'[n] = row
      /\ \A i \in 1 .. Len(accepted) : accepted'[i] = accepted[i]
      /\ \A i \in 1 .. n : i = n \/ i \in 1 .. Len(accepted)
  BY <1>1 DEF IInv, TypeOK
<1>4. TypeOK'
  <2>1. eventOf(row.issuance) \in Nat \X Nat
    BY EventType DEF AcceptedIssuance
  <2>. QED  BY <1>1, <1>2, <1>3, <2>1, IterateShape DEF IInv, TypeOK, Iterate
<1>5. EventsSeen'
  BY <1>2, <1>3 DEF IInv, EventsSeen, eventOf
<1>6. OneRowPerBurn'
  <2>1. \A i \in 1 .. Len(accepted) :
          eventOf(accepted[i].issuance) # eventOf(row.issuance)
    BY <1>2 DEF IInv, EventsSeen
  <2>. QED  BY <1>3, <2>1 DEF IInv, OneRowPerBurn, eventOf
<1>7. AllMatch'
  <2>1. RowMatches(row)
    BY <1>1 DEF RowMatches, Matches
  <2>2. \A i \in 1 .. n : RowMatches(accepted'[i])
    BY <1>3, <2>1 DEF IInv, AllMatch
  <2>. QED  BY <1>2, <1>3, <2>2 DEF AllMatch, RowMatches, Iterate
<1>8. RowsAreBurned'
  <2>1. /\ outcome'[Len(replayed) + 1] = "accepted"
        /\ \A i \in 1 .. Len(replayed) : outcome'[i] = outcome[i]
        /\ Len(replayed) \in Nat
    BY <1>2, IterateShape DEF IInv, TypeOK
  <2>2. /\ \A i \in 1 .. Len(replayed) : replayed'[i] = replayed[i]
        /\ Len(replayed') = Len(replayed) + 1
        /\ replayed'[Len(replayed) + 1] = tx
    BY <1>2, IterateShape
  <2>3. ASSUME NEW i \in 1 .. Len(accepted')
        PROVE  \E j \in 1 .. Len(replayed') :
                 /\ outcome'[j] = "accepted"
                 /\ BurnOf(replayed'[j], accepted'[i].issuance)
    <3>1. CASE i = n
      BY <1>2, <1>3, <2>1, <2>2, <3>1
    <3>2. CASE i \in 1 .. Len(accepted)
      <4>1. PICK j \in 1 .. Len(replayed) :
              outcome[j] = "accepted" /\ BurnOf(replayed[j], accepted[i].issuance)
        BY <3>2 DEF IInv, RowsAreBurned
      <4>. QED  BY <1>3, <2>1, <2>2, <3>2, <4>1
    <3>. QED  BY <1>3, <3>1, <3>2
  <2>. QED  BY <2>3 DEF RowsAreBurned, BurnOf
<1>. QED  BY <1>4, <1>5, <1>6, <1>7, <1>8 DEF IInv

\* Sorting permutes the rows and leaves the rest alone.
LEMMA SortIInv == ASSUME IInv, Sort PROVE IInv'
<1>. PICK n : n = Len(accepted)
  OBVIOUS
<1>1. PICK p \in Bijection(1 .. n, 1 .. n) :
        accepted' = [i \in 1 .. n |-> accepted[p[i]]]
  BY DEF Sort
<1>2. /\ n \in Nat /\ p \in [1 .. n -> 1 .. n]
      /\ \A i, j \in 1 .. n : p[i] = p[j] => i = j
  BY <1>1 DEF Bijection, Injection, IsInjective, IInv, TypeOK
<1>3. /\ accepted' \in Seq(AcceptedIssuance) /\ Len(accepted') = n
      /\ \A i \in 1 .. n : accepted'[i] = accepted[p[i]] /\ p[i] \in 1 .. n
  <2>1. \A k \in 1 .. n : accepted[k] \in AcceptedIssuance
    BY DEF IInv, TypeOK
  <2>2. \A i \in 1 .. n : p[i] \in 1 .. n /\ accepted[p[i]] \in AcceptedIssuance
    BY <1>2, <2>1
  <2>3. accepted' \in [1 .. n -> AcceptedIssuance]
    BY <1>1, <2>2
  <2>. QED  BY <1>1, <1>2, <2>2, <2>3
<1>4. TypeOK'
  BY <1>3 DEF IInv, TypeOK, Sort
<1>5. EventsSeen'
  <2>1. \A i \in 1 .. n : eventOf(accepted'[i].issuance) \in seen
    BY <1>3 DEF IInv, EventsSeen
  <2>2. seen' = seen
    BY DEF Sort
  <2>. QED  BY <1>3, <2>1, <2>2 DEF EventsSeen, eventOf
<1>6. OneRowPerBurn'
  <2>1. \A i, j \in 1 .. n :
          eventOf(accepted'[i].issuance) = eventOf(accepted'[j].issuance) => i = j
    BY <1>2, <1>3 DEF IInv, OneRowPerBurn
  <2>. QED  BY <1>3, <2>1 DEF OneRowPerBurn, eventOf
<1>7. AllMatch'
  <2>1. \A i \in 1 .. n : RowMatches(accepted'[i])
    BY <1>2, <1>3 DEF IInv, AllMatch
  <2>. QED  BY <1>3, <2>1 DEF AllMatch, RowMatches, Sort
<1>8. RowsAreBurned'
  <2>1. replayed' = replayed /\ outcome' = outcome
    BY DEF Sort
  <2>2. \A i \in 1 .. n : \E j \in 1 .. Len(replayed) :
          outcome[j] = "accepted" /\ BurnOf(replayed[j], accepted'[i].issuance)
    BY <1>3 DEF IInv, RowsAreBurned
  <2>. QED  BY <1>3, <2>1, <2>2 DEF RowsAreBurned, BurnOf
<1>. QED  BY <1>4, <1>5, <1>6, <1>7, <1>8 DEF IInv

LEMMA NextIInv == IInv /\ [Next]_vars => IInv'
<1>. SUFFICES ASSUME IInv, [Next]_vars PROVE IInv'
  OBVIOUS
<1>1. ASSUME NEW tx \in Feed, RejectIncomplete(tx) PROVE IInv'
  BY <1>1, FiledIInv DEF RejectIncomplete, IInv, TypeOK, Outcome
<1>2. ASSUME NEW tx \in Feed, RejectInvalid(tx) PROVE IInv'
  BY <1>2, FiledIInv DEF RejectInvalid, IInv, TypeOK, Outcome
<1>3. ASSUME NEW tx \in Feed, RejectDuplicate(tx) PROVE IInv'
  BY <1>3, FiledIInv DEF RejectDuplicate, IInv, TypeOK, Outcome
<1>4. ASSUME NEW tx \in Feed, LeavePending(tx) PROVE IInv'
  <2>1. eventOf(issuanceOf(tx)) \in Nat \X Nat
    BY <1>4, ValidBurn, EventType, InputAssumption DEF LeavePending
  <2>2. PendingReason(issuanceOf(tx)) \subseteq Outcome
    BY DEF PendingReason, Outcome
  <2>3. PICK reason \in Outcome : Iterate(tx, reason)
    BY <1>4, <2>2 DEF LeavePending
  <2>. QED  BY <1>4, <2>1, <2>3, FiledIInv DEF LeavePending, IInv, TypeOK
<1>5. ASSUME NEW tx \in Feed, Accept(tx) PROVE IInv'
  BY <1>5, AcceptIInv
<1>6. CASE Sort
  BY <1>6, SortIInv
<1>7. CASE Tally
  <2>1. /\ accepted[counted + 1] \in AcceptedIssuance
        /\ counted + 1 \in 0 .. Len(accepted)
    BY <1>7 DEF Tally, IInv, TypeOK
  <2>2. units' \in [Mint -> Nat]
    <3>1. PICK x \in IssuanceFields : x = accepted[counted + 1].issuance
      BY <2>1 DEF AcceptedIssuance
    <3>2. x.mint \in Mint /\ x.amount \in Nat
      BY DEF IssuanceFields
    <3>3. units' = [units EXCEPT ![x.mint] = @ + x.amount]
      BY <1>7, <3>1 DEF Tally, addUnits
    <3>. QED  BY <3>2, <3>3 DEF IInv, TypeOK
  <2>3. TypeOK'
    BY <1>7, <2>1, <2>2 DEF Tally, IInv, TypeOK
  <2>. QED
    BY <1>7, <2>3
    DEF Tally, IInv, EventsSeen, OneRowPerBurn, RowsAreBurned, AllMatch,
        RowMatches
<1>8. CASE UNCHANGED vars
  BY <1>8
  DEF vars, IInv, TypeOK, EventsSeen, OneRowPerBurn, RowsAreBurned, AllMatch,
      RowMatches
<1>. QED  BY <1>1, <1>2, <1>3, <1>4, <1>5, <1>6, <1>7, <1>8 DEF Next

\* The strengthening is an invariant of every replay.
THEOREM Inductive == Spec => []IInv
BY InitIInv, NextIInv, PTL DEF Spec

\* Types (TypeOK) for every feed: in particular the tally stays in the rows.
THEOREM TypeCorrect == Spec => []TypeOK
<1>1. IInv => TypeOK
  BY DEF IInv
<1>. QED  BY <1>1, Inductive, PTL

\* No burn event is accepted twice, whatever copies of its transaction the
\* input holds (the duplicate_claim test of rebuildLedger).
THEOREM BurnsCountOnce == Spec => []OneRowPerBurn
<1>1. IInv => OneRowPerBurn
  BY DEF IInv
<1>. QED  BY <1>1, Inductive, PTL

\* Every accepted row is a finalized burn and has a confirmed publication, and
\* no publication serves two rows, because its commitment names one issuance.
THEOREM RowsBacked ==
  Spec => [](RowsAreBurned /\ RowsArePublished /\ OnePublicationPerRow)
<1>. SUFFICES ASSUME IInv
              PROVE  RowsAreBurned /\ RowsArePublished /\ OnePublicationPerRow
  BY Inductive, PTL
<1>1. RowsAreBurned
  BY DEF IInv
<1>2. RowsArePublished
  BY DEF IInv, AllMatch, RowMatches, RowsArePublished, PublicationOf,
         publicationMatches, deepEnough
<1>3. OnePublicationPerRow
  <2>. SUFFICES ASSUME NEW i \in 1 .. Len(accepted),
                       NEW j \in 1 .. Len(accepted),
                       accepted[i].zcashTx = accepted[j].zcashTx
                PROVE  i = j
    BY DEF OnePublicationPerRow
  <2>1. PICK y \in zcash : /\ publicationMatches(accepted[i].issuance, y)
                           /\ y.txid = accepted[i].zcashTx
    BY DEF IInv, AllMatch, RowMatches
  <2>2. PICK z \in zcash : /\ publicationMatches(accepted[j].issuance, z)
                           /\ z.txid = accepted[j].zcashTx
    BY DEF IInv, AllMatch, RowMatches
  <2>3. y = z
    BY <2>1, <2>2, InputAssumption DEF IInv, TypeOK
  <2>4. accepted[i].issuance = accepted[j].issuance
    BY <2>1, <2>2, <2>3 DEF publicationMatches
  <2>. QED  BY <2>4 DEF IInv, OneRowPerBurn
<1>. QED  BY <1>1, <1>2, <1>3

\* Everything RowsSound says of the accepted rows, together.
THEOREM RowsAreSound == Spec => []RowsSound
<1>1. TypeOK /\ RowsAreBurned /\ RowsArePublished /\ OnePublicationPerRow => RowsSound
  BY DEF RowsSound
<1>. QED
  BY <1>1, TypeCorrect, RowsBacked, PTL

-----------------------------------------------------------------------------

(***************************************************************************)
(* Two validators agree.  The rows are the published claims and the units  *)
(* their sum, so neither depends on the order of the feed.  The invariant  *)
(* Agreeing says this of the part that is replayed and of the rows that    *)
(* are counted; it rests on one fact about Solana.                         *)
(***************************************************************************)

\* tx is filed under its burn event: rebuildLedger reaches its seen test.
Claims(tx) == complete(tx) /\ valid(tx)

\* A signature is of one transaction: copies of it in a feed may differ in
\* what was known of them when they were read, not in what they burned.
OneBurnPerSignature ==
  \A tx, ty \in Feed :
    Claims(tx) /\ Claims(ty) /\ tx.signature = ty.signature =>
      issuanceOf(tx) = issuanceOf(ty)

\* A row, and a seen burn event, are those of a replayed claim.
RowsReplayed ==
  \A i \in 1 .. Len(accepted) : \E j \in 1 .. Len(replayed) :
    Claims(replayed[j]) /\ accepted[i].issuance = issuanceOf(replayed[j])

SeenReplayed ==
  \A e \in seen : \E j \in 1 .. Len(replayed) :
    Claims(replayed[j]) /\ e = eventOf(issuanceOf(replayed[j]))

\* A replayed claim that is published has a row.
ClaimsFiled ==
  \A j \in 1 .. Len(replayed) :
    Claims(replayed[j]) /\ Matches(issuanceOf(replayed[j])) # {} =>
      \E i \in 1 .. Len(accepted) :
        accepted[i].issuance = issuanceOf(replayed[j])

\* A row names the publication with the lowest txid.
LowestWins ==
  \A i \in 1 .. Len(accepted) : \A z \in Matches(accepted[i].issuance) :
    accepted[i].zcashTx <= z.txid

\* The issuances of the rows of a mint that the sum has covered.
Counted(m) ==
  {accepted[i].issuance :
     i \in {k \in 1 .. counted : accepted[k].issuance.mint = m}}

Tallied ==
  /\ phase = "replay" => counted = 0
  /\ \A m \in Mint : Amounts(Counted(m)) /\ units[m] = Total(Counted(m))

Agreeing == RowsReplayed /\ SeenReplayed /\ ClaimsFiled /\ LowestWins /\ Tallied

LEMMA InitAgreeing == Init => Agreeing
<1>. SUFFICES ASSUME Init PROVE Agreeing
  OBVIOUS
<1>1. \A m \in Mint : Counted(m) = {}
  <2>1. 1 .. counted = {}
    BY DEF Init
  <2>. QED  BY <2>1, Zenon DEF Counted
<1>2. Amounts({})
  BY FS_EmptySet DEF Amounts
<1>3. Tallied
  BY <1>1, <1>2, TotalOfNone DEF Init, Tallied
<1>. QED
  BY <1>3 DEF Init, Agreeing, RowsReplayed, SeenReplayed, ClaimsFiled, LowestWins

\* A step that files a transaction keeps what was replayed before it.
LEMMA FiledAgreeing ==
  ASSUME IInv, Agreeing, NEW tx \in Feed, NEW what \in Outcome,
         Iterate(tx, what), UNCHANGED accepted,
         \A e \in seen' : e \in seen \/ (Claims(tx) /\ e = eventOf(issuanceOf(tx))),
         Claims(tx) /\ Matches(issuanceOf(tx)) # {} =>
           \E i \in 1 .. Len(accepted) : accepted[i].issuance = issuanceOf(tx)
  PROVE  Agreeing'
<1>1. /\ Len(replayed') = Len(replayed) + 1 /\ Len(replayed) \in Nat
      /\ replayed'[Len(replayed) + 1] = tx
      /\ \A i \in 1 .. Len(replayed) : replayed'[i] = replayed[i]
  BY IterateShape DEF IInv, TypeOK
<1>2. /\ \A i \in 1 .. Len(replayed) : i \in 1 .. Len(replayed')
      /\ Len(replayed) + 1 \in 1 .. Len(replayed')
      /\ \A i \in 1 .. Len(replayed') :
           i \in 1 .. Len(replayed) \/ i = Len(replayed) + 1
  BY <1>1
<1>3. zcash' = zcash /\ units' = units /\ counted' = counted /\ phase' = phase
  BY DEF Iterate
<1>4. RowsReplayed'
  <2>1. ASSUME NEW i \in 1 .. Len(accepted)
        PROVE  \E j \in 1 .. Len(replayed') :
                 Claims(replayed'[j]) /\ accepted[i].issuance = issuanceOf(replayed'[j])
    <3>1. PICK j \in 1 .. Len(replayed) :
            Claims(replayed[j]) /\ accepted[i].issuance = issuanceOf(replayed[j])
      BY DEF Agreeing, RowsReplayed
    <3>. QED  BY <1>1, <1>2, <3>1
  <2>. QED  BY <2>1 DEF RowsReplayed, Claims, complete, valid, issuanceOf
<1>5. SeenReplayed'
  <2>1. ASSUME NEW e \in seen'
        PROVE  \E j \in 1 .. Len(replayed') :
                 Claims(replayed'[j]) /\ e = eventOf(issuanceOf(replayed'[j]))
    <3>1. CASE e \in seen
      <4>1. PICK j \in 1 .. Len(replayed) :
              Claims(replayed[j]) /\ e = eventOf(issuanceOf(replayed[j]))
        BY <3>1 DEF Agreeing, SeenReplayed
      <4>. QED  BY <1>1, <1>2, <4>1
    <3>2. CASE Claims(tx) /\ e = eventOf(issuanceOf(tx))
      BY <1>1, <1>2, <3>2
    <3>. QED  BY <3>1, <3>2
  <2>. QED  BY <2>1 DEF SeenReplayed, Claims, complete, valid, issuanceOf, eventOf
<1>6. ClaimsFiled'
  <2>1. ASSUME NEW j \in 1 .. Len(replayed'), Claims(replayed'[j]),
               Matches(issuanceOf(replayed'[j])) # {}
        PROVE  \E i \in 1 .. Len(accepted) :
                 accepted[i].issuance = issuanceOf(replayed'[j])
    BY <1>1, <1>2, <2>1 DEF Agreeing, ClaimsFiled
  <2>2. \A x : Matches(x)' = Matches(x)
    BY <1>3 DEF Matches
  <2>. QED  BY <1>3, <2>1 DEF ClaimsFiled, Claims, complete, valid, Matches
<1>7. LowestWins'
  BY <1>3 DEF Agreeing, LowestWins, Matches
<1>8. Tallied'
  <2>1. \A m : Counted(m)' = Counted(m)
    BY <1>3 DEF Counted
  <2>. QED  BY <1>3, <2>1 DEF Agreeing, Tallied
<1>. QED  BY <1>4, <1>5, <1>6, <1>7, <1>8 DEF Agreeing

LEMMA AcceptAgreeing ==
  ASSUME IInv, Agreeing, NEW tx \in Feed, Accept(tx)
  PROVE  Agreeing'
<1>1. PICK row \in AcceptedIssuance :
        /\ accepted' = Append(accepted, row)
        /\ row.issuance = issuanceOf(tx)
        /\ \E z \in Matches(row.issuance) :
             /\ z.txid = row.zcashTx
             /\ \A y \in Matches(row.issuance) : z.txid <= y.txid
  BY AcceptShape
<1>. PICK n, r : n = Len(accepted) + 1 /\ r = Len(replayed) + 1
  OBVIOUS
<1>2. /\ Len(accepted) \in Nat /\ Len(accepted') = n /\ accepted'[n] = row
      /\ \A i \in 1 .. Len(accepted) : accepted'[i] = accepted[i] /\ i \in 1 .. n
      /\ \A i \in 1 .. n : i = n \/ i \in 1 .. Len(accepted)
      /\ n \in 1 .. n
  BY <1>1 DEF IInv, TypeOK
<1>3. /\ Iterate(tx, "accepted") /\ "accepted" \in Outcome /\ Claims(tx)
      /\ seen' = seen \cup {eventOf(issuanceOf(tx))}
      /\ zcash' = zcash /\ units' = units /\ counted' = counted
      /\ phase' = "replay" /\ phase = "replay"
  BY DEF Accept, Claims, Iterate, Outcome
<1>4. /\ Len(replayed') = r /\ Len(replayed) \in Nat /\ replayed'[r] = tx
      /\ \A j \in 1 .. Len(replayed) : replayed'[j] = replayed[j]
  <2>1. Len(replayed) \in Nat
    BY DEF IInv, TypeOK
  <2>. QED  BY <1>3, <2>1, IterateShape
<1>5. /\ \A j \in 1 .. Len(replayed) : j \in 1 .. r
      /\ \A j \in 1 .. r : j = r \/ j \in 1 .. Len(replayed)
      /\ r \in 1 .. r
  BY <1>4
<1>6. RowsReplayed'
  <2>1. ASSUME NEW i \in 1 .. n
        PROVE  \E j \in 1 .. r :
                 Claims(replayed'[j]) /\ accepted'[i].issuance = issuanceOf(replayed'[j])
    <3>1. CASE i = n
      BY <1>1, <1>2, <1>3, <1>4, <1>5, <3>1
    <3>2. CASE i \in 1 .. Len(accepted)
      <4>1. PICK j \in 1 .. Len(replayed) :
              Claims(replayed[j]) /\ accepted[i].issuance = issuanceOf(replayed[j])
        BY <3>2 DEF Agreeing, RowsReplayed
      <4>. QED  BY <1>2, <1>4, <1>5, <3>2, <4>1
    <3>. QED  BY <1>2, <3>1, <3>2
  <2>. QED  BY <1>2, <1>4, <2>1 DEF RowsReplayed, Claims, complete, valid, issuanceOf
<1>7. SeenReplayed'
  <2>1. ASSUME NEW e \in seen'
        PROVE  \E j \in 1 .. r :
                 Claims(replayed'[j]) /\ e = eventOf(issuanceOf(replayed'[j]))
    <3>1. CASE e \in seen
      <4>1. PICK j \in 1 .. Len(replayed) :
              Claims(replayed[j]) /\ e = eventOf(issuanceOf(replayed[j]))
        BY <3>1 DEF Agreeing, SeenReplayed
      <4>. QED  BY <1>4, <1>5, <4>1
    <3>2. CASE e = eventOf(issuanceOf(tx))
      BY <1>3, <1>4, <1>5, <3>2
    <3>. QED  BY <1>3, <3>1, <3>2
  <2>. QED  BY <1>4, <2>1 DEF SeenReplayed, Claims, complete, valid, issuanceOf, eventOf
<1>8. ClaimsFiled'
  <2>1. ASSUME NEW j \in 1 .. r, Claims(replayed'[j]),
               Matches(issuanceOf(replayed'[j])) # {}
        PROVE  \E i \in 1 .. n :
                 accepted'[i].issuance = issuanceOf(replayed'[j])
    <3>1. CASE j = r
      BY <1>1, <1>2, <1>4, <3>1
    <3>2. CASE j \in 1 .. Len(replayed)
      <4>1. PICK i \in 1 .. Len(accepted) :
              accepted[i].issuance = issuanceOf(replayed[j])
        BY <1>4, <2>1, <3>2 DEF Agreeing, ClaimsFiled
      <4>. QED  BY <1>2, <1>4, <3>2, <4>1
    <3>. QED  BY <1>5, <3>1, <3>2
  <2>. QED
    BY <1>2, <1>3, <1>4, <2>1 DEF ClaimsFiled, Claims, complete, valid, Matches
<1>9. LowestWins'
  <2>1. \A i \in 1 .. n : \A z \in Matches(accepted'[i].issuance) :
          accepted'[i].zcashTx <= z.txid
    BY <1>1, <1>2 DEF Agreeing, LowestWins
  <2>. QED  BY <1>2, <1>3, <2>1 DEF LowestWins, Matches
<1>10. Tallied'
  <2>1. counted = 0
    BY <1>3 DEF Agreeing, Tallied
  <2>2. \A m \in Mint : Counted(m) = {} /\ Counted(m)' = {}
    BY <1>3, <2>1 DEF Counted
  <2>. QED  BY <1>3, <2>1, <2>2 DEF Agreeing, Tallied
<1>. QED  BY <1>6, <1>7, <1>8, <1>9, <1>10 DEF Agreeing

LEMMA SortAgreeing == ASSUME IInv, Agreeing, Sort PROVE Agreeing'
<1>. PICK n : n = Len(accepted)
  OBVIOUS
<1>1. PICK p \in Bijection(1 .. n, 1 .. n) :
        accepted' = [i \in 1 .. n |-> accepted[p[i]]]
  BY DEF Sort
<1>2. /\ \A i \in 1 .. n : p[i] \in 1 .. n /\ accepted'[i] = accepted[p[i]]
      /\ \A k \in 1 .. n : \E i \in 1 .. n : p[i] = k
      /\ Len(accepted') = n
  <2>1. n \in Nat
    BY DEF IInv, TypeOK
  <2>2. /\ p \in [1 .. n -> 1 .. n]
        /\ \A k \in 1 .. n : \E i \in 1 .. n : p[i] = k
    BY <1>1, Zenon DEF Bijection, Surjection
  <2>. QED  BY <1>1, <2>1, <2>2
<1>3. /\ zcash' = zcash /\ replayed' = replayed /\ seen' = seen
      /\ units' = units /\ counted' = counted
      /\ phase = "replay" /\ phase' = "tally"
  BY DEF Sort
<1>4. RowsReplayed'
  <2>1. ASSUME NEW i \in 1 .. n
        PROVE  \E j \in 1 .. Len(replayed) :
                 Claims(replayed[j]) /\ accepted'[i].issuance = issuanceOf(replayed[j])
    <3>1. PICK k \in 1 .. n : accepted'[i] = accepted[k]
      BY <1>2
    <3>. QED  BY <3>1 DEF Agreeing, RowsReplayed
  <2>. QED
    BY <1>2, <1>3, <2>1 DEF RowsReplayed, Claims, complete, valid, issuanceOf
<1>5. SeenReplayed'
  BY <1>3 DEF Agreeing, SeenReplayed, Claims, complete, valid, issuanceOf, eventOf
<1>6. ClaimsFiled'
  <2>1. ASSUME NEW j \in 1 .. Len(replayed), Claims(replayed[j]),
               Matches(issuanceOf(replayed[j])) # {}
        PROVE  \E i \in 1 .. n :
                 accepted'[i].issuance = issuanceOf(replayed[j])
    <3>1. PICK k \in 1 .. n : accepted[k].issuance = issuanceOf(replayed[j])
      BY <2>1 DEF Agreeing, ClaimsFiled
    <3>2. PICK i \in 1 .. n : p[i] = k
      BY <1>2
    <3>. QED  BY <1>2, <3>1, <3>2
  <2>. QED
    BY <1>2, <1>3, <2>1 DEF ClaimsFiled, Claims, complete, valid, Matches
<1>7. LowestWins'
  <2>1. \A i \in 1 .. n : \A z \in Matches(accepted'[i].issuance) :
          accepted'[i].zcashTx <= z.txid
    BY <1>2 DEF Agreeing, LowestWins
  <2>. QED  BY <1>2, <1>3, <2>1 DEF LowestWins, Matches
<1>8. Tallied'
  <2>1. counted = 0
    BY <1>3 DEF Agreeing, Tallied
  <2>2. \A m \in Mint : Counted(m) = {} /\ Counted(m)' = {}
    BY <1>3, <2>1 DEF Counted
  <2>. QED  BY <1>3, <2>2 DEF Agreeing, Tallied
<1>. QED  BY <1>4, <1>5, <1>6, <1>7, <1>8 DEF Agreeing

\* The tally adds a row that it has not covered yet.
LEMMA TallyAgreeing == ASSUME IInv, Agreeing, Tally PROVE Agreeing'
<1>. PICK k : k = counted + 1
  OBVIOUS
<1>1. /\ k \in 1 .. Len(accepted) /\ counted \in Nat /\ counted' = k
      /\ accepted[k] \in AcceptedIssuance
      /\ zcash' = zcash /\ replayed' = replayed /\ seen' = seen
      /\ accepted' = accepted /\ phase' = phase /\ phase = "tally"
  BY DEF Tally, IInv, TypeOK
<1>2. PICK x \in IssuanceFields : x = accepted[k].issuance
  BY <1>1 DEF AcceptedIssuance
<1>3. x.mint \in Mint /\ x.amount \in Nat
  BY DEF IssuanceFields
<1>4. units' = [units EXCEPT ![x.mint] = @ + x.amount] /\ units \in [Mint -> Nat]
  BY <1>2 DEF Tally, addUnits, IInv, TypeOK
<1>5. ASSUME NEW m \in Mint
      PROVE  Amounts(Counted(m)') /\ units'[m] = Total(Counted(m)')
  <2>1. Amounts(Counted(m)) /\ units[m] = Total(Counted(m))
    BY DEF Agreeing, Tallied
  <2>2. CASE m # x.mint
    <3>1. Counted(m)' = Counted(m)
      BY <1>1, <1>2, <2>2 DEF Counted
    <3>2. units'[m] = units[m]
      BY <1>3, <1>4, <2>2
    <3>. QED  BY <2>1, <3>1, <3>2
  <2>3. CASE m = x.mint
    <3>1. Counted(m)' = Counted(m) \cup {x}
      BY <1>1, <1>2, <2>3 DEF Counted
    <3>2. x \notin Counted(m)
      BY <1>1, <1>2 DEF Counted, IInv, OneRowPerBurn
    <3>3. Amounts(Counted(m) \cup {x})
      BY <1>3, <2>1, FS_AddElement DEF Amounts
    <3>4. Total(Counted(m) \cup {x}) = Total(Counted(m)) + x.amount
      BY <1>3, <2>1, <3>2, TotalOfMore
    <3>5. units'[m] = units[m] + x.amount
      BY <1>3, <1>4, <2>3
    <3>. QED  BY <2>1, <3>1, <3>3, <3>4, <3>5, Zenon
  <2>. QED  BY <2>2, <2>3
<1>6. Tallied'
  BY <1>1, <1>5 DEF Tallied
<1>7. RowsReplayed' /\ SeenReplayed' /\ ClaimsFiled' /\ LowestWins'
  BY <1>1
  DEF Agreeing, RowsReplayed, SeenReplayed, ClaimsFiled, LowestWins, Claims,
      complete, valid, Matches
<1>. QED  BY <1>6, <1>7 DEF Agreeing

LEMMA NextAgreeing ==
  ASSUME OneBurnPerSignature, IInv, Agreeing, [Next]_vars
  PROVE  Agreeing'
<1>1. ASSUME NEW tx \in Feed, RejectIncomplete(tx) PROVE Agreeing'
  BY <1>1, FiledAgreeing DEF RejectIncomplete, Claims, Outcome
<1>2. ASSUME NEW tx \in Feed, RejectInvalid(tx) PROVE Agreeing'
  BY <1>2, FiledAgreeing DEF RejectInvalid, Claims, Outcome
<1>3. ASSUME NEW tx \in Feed, RejectDuplicate(tx) PROVE Agreeing'
  <2>1. Claims(tx) /\ eventOf(issuanceOf(tx)) \in seen
    BY <1>3 DEF RejectDuplicate, Claims, alreadySeen
  <2>2. PICK j \in 1 .. Len(replayed) :
          /\ Claims(replayed[j])
          /\ eventOf(issuanceOf(tx)) = eventOf(issuanceOf(replayed[j]))
    BY <2>1 DEF Agreeing, SeenReplayed
  <2>3. replayed[j] \in Feed /\ replayed[j].signature = tx.signature
    BY <2>2 DEF IInv, TypeOK, eventOf, issuanceOf
  <2>4. issuanceOf(replayed[j]) = issuanceOf(tx)
    BY <2>1, <2>2, <2>3 DEF OneBurnPerSignature
  <2>5. Matches(issuanceOf(tx)) # {} =>
          \E i \in 1 .. Len(accepted) : accepted[i].issuance = issuanceOf(tx)
    BY <2>2, <2>4 DEF Agreeing, ClaimsFiled
  <2>. QED  BY <1>3, <2>5, FiledAgreeing DEF RejectDuplicate, Outcome
<1>4. ASSUME NEW tx \in Feed, LeavePending(tx) PROVE Agreeing'
  <2>1. PendingReason(issuanceOf(tx)) \subseteq Outcome
    BY DEF PendingReason, Outcome
  <2>2. PICK reason \in Outcome : Iterate(tx, reason)
    BY <1>4, <2>1 DEF LeavePending
  <2>. QED  BY <1>4, <2>2, FiledAgreeing DEF LeavePending, Claims
<1>5. ASSUME NEW tx \in Feed, Accept(tx) PROVE Agreeing'
  BY <1>5, AcceptAgreeing
<1>6. CASE Sort
  BY <1>6, SortAgreeing
<1>7. CASE Tally
  BY <1>7, TallyAgreeing
<1>8. CASE UNCHANGED vars
  <2>1. RowsReplayed' /\ SeenReplayed' /\ ClaimsFiled' /\ LowestWins'
    BY <1>8
    DEF vars, Agreeing, RowsReplayed, SeenReplayed, ClaimsFiled, LowestWins,
        Claims, complete, valid, Matches
  <2>2. \A m : Counted(m)' = Counted(m)
    BY <1>8 DEF vars, Counted
  <2>3. Tallied'
    BY <1>8, <2>2 DEF vars, Agreeing, Tallied
  <2>. QED  BY <2>1, <2>3 DEF Agreeing
<1>. QED  BY <1>1, <1>2, <1>3, <1>4, <1>5, <1>6, <1>7, <1>8 DEF Next

\* What two validators show is a function of the transactions and publications
\* they replay: the rows are the published claims, each with its lowest
\* publication, and the units of a mint the sum of its rows, whatever the order
\* of the feed and however often a transaction is in it (rebuildLedger).
THEOREM ValidatorsDoAgree ==
  ASSUME OneBurnPerSignature
  PROVE  Spec => []ValidatorsAgree
<1>1. Init => IInv /\ Agreeing
  BY InitIInv, InitAgreeing
<1>2. IInv /\ Agreeing /\ [Next]_vars => (IInv /\ Agreeing)'
  BY NextIInv, NextAgreeing
<1>3. ASSUME IInv, Agreeing PROVE ValidatorsAgree
  <2>0. Range(accepted) = {accepted[i] : i \in 1 .. Len(accepted)}
    BY <1>3 DEF Range, IInv, TypeOK
  <2>1. {row.issuance : row \in Range(accepted)} = Published
    <3>1. ASSUME NEW i \in 1 .. Len(accepted)
          PROVE  accepted[i].issuance \in Published
      <4>1. PICK j \in 1 .. Len(replayed) :
              /\ Claims(replayed[j])
              /\ accepted[i].issuance = issuanceOf(replayed[j])
        BY <1>3 DEF Agreeing, RowsReplayed
      <4>2. Matches(accepted[i].issuance) # {}
        BY <1>3 DEF IInv, AllMatch, RowMatches, Matches
      <4>3. replayed[j] \in Range(replayed)
        BY <1>3 DEF Range, IInv, TypeOK
      <4>. QED  BY <4>1, <4>2, <4>3 DEF Published, Claims
    <3>2. ASSUME NEW tx \in Range(replayed), Claims(tx),
                 Matches(issuanceOf(tx)) # {}
          PROVE  \E i \in 1 .. Len(accepted) : accepted[i].issuance = issuanceOf(tx)
      <4>1. PICK j \in 1 .. Len(replayed) : tx = replayed[j]
        BY <1>3 DEF Range, IInv, TypeOK
      <4>. QED  BY <1>3, <3>2, <4>1 DEF Agreeing, ClaimsFiled
    <3>. QED  BY <2>0, <3>1, <3>2 DEF Published, Claims
  <2>2. ReplayAgrees
    <3>1. \A row \in Range(accepted) : \A z \in Matches(row.issuance) :
            row.zcashTx <= z.txid
      BY <1>3, <2>0 DEF Agreeing, LowestWins
    <3>. QED  BY <2>1, <3>1 DEF ReplayAgrees
  <2>3. ASSUME counted = Len(accepted), NEW m \in Mint
        PROVE  units[m] = Total({x \in Published : x.mint = m})
    <3>1. Range(accepted) = {accepted[i] : i \in 1 .. counted}
      BY <2>0, <2>3
    <3>2. Counted(m) = {x \in Published : x.mint = m}
      BY <2>1, <3>1 DEF Counted
    <3>. QED  BY <1>3, <3>2 DEF Agreeing, Tallied
  <2>4. UnitsConserved
    BY <2>3 DEF UnitsConserved, Total
  <2>. QED  BY <2>2, <2>4 DEF ValidatorsAgree
<1>. QED  BY <1>1, <1>2, <1>3, PTL DEF Spec
-----------------------------------------------------------------------------

(***************************************************************************)
(* The ledger over time (LedgerReplay).  A publication that has reached    *)
(* the depth lies below every block that a shallower reorg replaces, so    *)
(* its burn keeps a match, whichever publication wins.                     *)
(***************************************************************************)

ChainTyped == tip \in Nat /\ chain \subseteq ZcashPublication

LEMMA ChainTypedAlways == ReplaySpec => []ChainTyped
<1>1. ReplayInit => ChainTyped
  BY DEF ReplayInit, ChainTyped
<1>2. ChainTyped /\ [ReplayNext]_replayVars => ChainTyped'
  <2>. SUFFICES ASSUME ChainTyped, [ReplayNext]_replayVars PROVE ChainTyped'
    OBVIOUS
  <2>1. ASSUME NEW issuance \in Burns, NEW txid \in Txid, Publish(issuance, txid)
        PROVE  ChainTyped'
    <3>1. issuance \in IssuanceFields /\ txid \in Nat /\ tip + 1 \in Nat
      BY ReplayAssumption DEF ChainTyped
    <3>2. issuance.destination \in Destination
      BY <3>1 DEF IssuanceFields
    <3>3. publication(issuance, txid, tip + 1) \in ZcashPublication
      BY <3>1, <3>2, BurnAssumption DEF publication, ZcashPublication
    <3>. QED  BY <2>1, <3>1, <3>3 DEF Publish, ChainTyped
  <2>2. CASE EmptyBlock
    BY <2>2 DEF EmptyBlock, ChainTyped
  <2>3. ASSUME NEW depth \in 1 .. MinConfirmations - 1, Reorg(depth)
        PROVE  ChainTyped'
    BY <2>3 DEF Reorg, ChainTyped
  <2>4. CASE UNCHANGED replayVars
    BY <2>4 DEF replayVars, ChainTyped
  <2>. QED  BY <2>1, <2>2, <2>3, <2>4 DEF ReplayNext
<1>. QED  BY <1>1, <1>2, PTL DEF ReplaySpec

\* A publication as it is reported at height h: only its depth is of h.
LEMMA ReportedMatches ==
  ASSUME ChainTyped, NEW b, NEW z \in chain, NEW h \in Nat,
         publicationMatches(b, [z EXCEPT !.confirmations = h - z.height + 1])
  PROVE  /\ z.height \in Nat /\ h - z.height + 1 >= MinConfirmations
         /\ \A k \in Nat : k >= h =>
              publicationMatches(b, [z EXCEPT !.confirmations = k - z.height + 1])
<1>1. z \in ZcashPublication /\ z.height \in Nat /\ MinConfirmations \in Nat
  BY BurnAssumption DEF ChainTyped, ZcashPublication
<1>2. ASSUME NEW k \in Nat
      PROVE  LET y == [z EXCEPT !.confirmations = k - z.height + 1]
             IN  /\ y.confirmations = k - z.height + 1
                 /\ y.network = z.network /\ y.payload = z.payload
                 /\ y.pays = z.pays /\ y.inBestChain = z.inBestChain
  BY <1>1 DEF ZcashPublication
<1>. QED  BY <1>1, <1>2 DEF publicationMatches, deepEnough

\* A burn with a match keeps one in every step.
LEMMA MatchStays ==
  ASSUME ChainTyped, [ReplayNext]_replayVars, NEW b, matches(b) # {}
  PROVE  matches(b)' # {}
<1>1. PICK z \in chain :
        publicationMatches(b, [z EXCEPT !.confirmations = tip - z.height + 1])
  BY DEF matches, reported
<1>2. /\ z.height \in Nat /\ tip \in Nat /\ MinConfirmations \in Nat
      /\ tip - z.height + 1 >= MinConfirmations
  BY <1>1, ReportedMatches, BurnAssumption DEF ChainTyped
<1>3. tip' \in Nat /\ tip' >= tip /\ z \in chain'
  <2>1. ASSUME NEW issuance \in Burns, NEW txid \in Txid, Publish(issuance, txid)
        PROVE  tip' \in Nat /\ tip' >= tip /\ z \in chain'
    BY <1>2, <2>1 DEF Publish
  <2>2. CASE EmptyBlock
    BY <1>2, <2>2 DEF EmptyBlock
  <2>3. ASSUME NEW depth \in 1 .. MinConfirmations - 1, Reorg(depth)
        PROVE  tip' \in Nat /\ tip' >= tip /\ z \in chain'
    BY <1>2, <2>3 DEF Reorg
  <2>4. CASE UNCHANGED replayVars
    BY <1>2, <2>4 DEF replayVars
  <2>. QED  BY <2>1, <2>2, <2>3, <2>4 DEF ReplayNext
<1>4. publicationMatches(b, [z EXCEPT !.confirmations = tip' - z.height + 1])
  BY <1>1, <1>2, <1>3, ReportedMatches
<1>5. [z EXCEPT !.confirmations = tip' - z.height + 1] \in reported(chain', tip')
  BY <1>3 DEF reported
<1>. QED  BY <1>4, <1>5 DEF matches

\* Racing publishers and shallow reorgs never take an accepted burn off the
\* ledger, and never count it twice (rebuildLedger run from scratch).
THEOREM AcceptedBurnsStay == ReplaySpec => AcceptedStays
<1>. DEFINE Stays ==
       /\ {row.issuance : row \in ledger} \subseteq
            {row.issuance : row \in ledger'}
       /\ \A row, other \in ledger' :
            row.issuance = other.issuance => row = other
<1>1. ASSUME ChainTyped, [ReplayNext]_replayVars PROVE Stays
  <2>1. \A b : acceptIssuance(b, winner(matches(b))).issuance = b
    BY DEF acceptIssuance
  <2>2. \A b : acceptIssuance(b, winner(matches(b)')).issuance = b
    BY DEF acceptIssuance
  <2>3. \A row \in ledger : row.issuance \in Burns /\ matches(row.issuance) # {}
    BY <2>1 DEF ledger
  <2>4. \A row \in ledger' :
          row = acceptIssuance(row.issuance, winner(matches(row.issuance)'))
    BY <2>2 DEF ledger
  <2>5. ASSUME NEW b \in Burns, matches(b) # {}
        PROVE  \E row \in ledger' : row.issuance = b
    <3>1. matches(b)' # {}
      BY <1>1, <2>5, MatchStays
    <3>. QED  BY <2>2, <3>1 DEF ledger
  <2>. QED  BY <2>3, <2>4, <2>5
<1>. QED  BY <1>1, ChainTypedAlways, PTL DEF ReplaySpec, AcceptedStays
=============================================================================
