------------------------- MODULE RegistryOrderProofs -------------------------
(***************************************************************************)
(* Registry implements Announcements: what its offers, epochs and barriers *)
(* come to is one queue of batches for each client, in the order of        *)
(* events.                                                                 *)
(*                                                                         *)
(* The mapping of Registry gives every owed event a place, a pair of       *)
(* numbers, and lists the batches by their places.  The proof goes up from *)
(* there: what listing a finite set is and how it follows a change of the  *)
(* set; what a change of the entries of a peer does to its queue (a batch  *)
(* behind all others, events withdrawn, a batch cut out, the first event   *)
(* told, barriers counted anew); and, for each action of Registry, which   *)
(* change it makes and which action of Announcements that is.              *)
(***************************************************************************)
EXTENDS RegistryProofs, FiniteSetTheorems, WellFoundedInduction

-----------------------------------------------------------------------------
(* Listing a finite set. *)

\* A strict total order of S, as a set of pairs, lists S as s.
Lists(s, n, S, R) ==
  /\ n \in Nat /\ s \in [1..n -> S]
  /\ \A x \in S : \E i \in 1..n : s[i] = x
  /\ \A i, j \in 1..n : <<s[i], s[j]>> \in R <=> i < j

\* The set has as many elements as its listing.
LEMMA ListedOnce ==
  ASSUME NEW S, NEW R, NEW n, NEW s, Lists(s, n, S, R)
  PROVE  /\ n \in Nat /\ s \in [1..n -> S]
         /\ \A i, j \in 1..n : s[i] = s[j] => i = j
         /\ IsFiniteSet(S) /\ Cardinality(S) = n
<1>1. n \in Nat /\ s \in [1..n -> S]
  BY DEF Lists
<1>2. ASSUME NEW i \in 1..n, NEW j \in 1..n, s[i] = s[j]
      PROVE  i = j
  <2>1. ~(i < j) /\ ~(j < i)
    <3>1. <<s[i], s[j]>> \in R <=> i < j
      BY DEF Lists
    <3>2. <<s[j], s[i]>> \in R <=> j < i
      BY DEF Lists
    <3>3. <<s[i], s[i]>> \in R <=> i < i
      BY DEF Lists
    <3> QED
      BY <1>1, <1>2, <3>1, <3>2, <3>3
  <2> QED
    BY <1>1, <2>1
<1>3. s \in Bijection(1..n, S)
  BY <1>1, <1>2 DEF Lists, Bijection, Injection, Surjection, IsInjective
<1>4. IsFiniteSet(1..n) /\ Cardinality(1..n) = n
  BY <1>1, FS_Interval
<1>5. IsFiniteSet(S) /\ Cardinality(S) = Cardinality(1..n)
  <2>1. ExistsBijection(1..n, S)
    BY <1>3 DEF ExistsBijection
  <2> QED
    BY <1>4, <2>1, FS_Bijection
<1> QED
  BY <1>1, <1>2, <1>4, <1>5

\* As many elements precede one as stand before it.
LEMMA ListedRank ==
  ASSUME NEW S, NEW R, NEW n, NEW s, Lists(s, n, S, R), NEW i \in 1..n
  PROVE  Cardinality({y \in S : <<y, s[i]>> \in R}) = i - 1
<1>1. /\ n \in Nat /\ s \in [1..n -> S]
      /\ \A j, k \in 1..n : s[j] = s[k] => j = k
  BY ListedOnce
<1> DEFINE T == {y \in S : <<y, s[i]>> \in R}
           f == [j \in 1..(i - 1) |-> s[j]]
<1>2. ASSUME NEW j \in 1..(i - 1)
      PROVE  j \in 1..n /\ f[j] = s[j] /\ f[j] \in T
  <2>1. j \in 1..n /\ j < i
    BY <1>1
  <2> QED
    BY <1>1, <2>1 DEF Lists
<1>3. ASSUME NEW y \in T
      PROVE  \E j \in 1..(i - 1) : f[j] = y
  <2>1. PICK j \in 1..n : s[j] = y
    BY DEF Lists
  <2>2. j < i
    BY <2>1 DEF Lists
  <2>3. j \in 1..(i - 1)
    BY <1>1, <2>1, <2>2
  <2> QED
    BY <2>1, <2>3
<1>4. f \in Bijection(1..(i - 1), T)
  <2>1. f \in [1..(i - 1) -> T]
    BY <1>2
  <2>2. \A j, k \in 1..(i - 1) : f[j] = f[k] => j = k
    BY <1>1, <1>2
  <2> HIDE DEF f, T
  <2> QED
    BY <1>3, <2>1, <2>2 DEF Bijection, Injection, Surjection, IsInjective
<1>5. Cardinality(T) = i - 1
  <2> HIDE DEF f, T
  <2>1. i - 1 \in Nat
    BY <1>1
  <2>2. IsFiniteSet(1..(i - 1)) /\ Cardinality(1..(i - 1)) = i - 1
    BY <2>1, FS_Interval
  <2>3. ExistsBijection(1..(i - 1), T)
    BY <1>4 DEF ExistsBijection
  <2>4. IsFiniteSet(T)
    BY <2>2, <2>3, FS_Bijection
  <2> QED
    BY <2>2, <2>3, FS_Bijection
<1> QED
  BY <1>5

\* Hence the element that stands at i is the one that so many precede.
LEMMA ListedAt ==
  ASSUME NEW S, NEW R, NEW n, NEW s, Lists(s, n, S, R), NEW i \in 1..n
  PROVE  s[i] = CHOOSE x \in S : Cardinality({y \in S : <<y, x>> \in R}) = i - 1
<1>1. n \in Nat /\ s \in [1..n -> S]
  BY ListedOnce
<1>2. Cardinality({y \in S : <<y, s[i]>> \in R}) = i - 1 /\ s[i] \in S
  BY <1>1, ListedRank
<1>3. ASSUME NEW x \in S, Cardinality({y \in S : <<y, x>> \in R}) = i - 1
      PROVE  x = s[i]
  <2>1. PICK j \in 1..n : s[j] = x
    BY DEF Lists
  <2>2. Cardinality({y \in S : <<y, s[j]>> \in R}) = j - 1
    BY ListedRank
  <2>3. j = i
    BY <1>1, <1>3, <2>1, <2>2
  <2> QED
    BY <2>1, <2>3
<1> QED
  BY <1>2, <1>3

\* A well-founded relation has minimal elements; stated without a parameter that
\* is an operator.
LEMMA MinimumIn ==
  \A R, S, T : IsWellFoundedOn(R, S) /\ T \subseteq S /\ T # {}
                 => \E x \in T : \A y \in T : <<y, x>> \notin R
<1> TAKE R, S, T
<1> QED
  BY WFMin

\* So has the order of the numbers.
LEMMA LessThanOnNat ==
  \E R : IsWellFoundedOn(R, Nat) /\ \A x, y \in Nat : <<x, y>> \in R <=> x < y
<1> DEFINE R == OpToRel(<, Nat)
<1>1. IsWellFoundedOn(R, Nat)
  BY NatLessThanWellFounded
<1>2. \A x, y \in Nat : <<x, y>> \in R <=> x < y
  BY DEF OpToRel
<1> QED
  BY <1>1, <1>2, Zenon

\* Hence a set of numbers has a least one.
LEMMA LeastNat ==
  ASSUME NEW T, T \subseteq Nat, T # {}
  PROVE  \E x \in T : \A y \in T : x <= y
<1>1. PICK R : IsWellFoundedOn(R, Nat) /\ \A x, y \in Nat : <<x, y>> \in R <=> x < y
  BY LessThanOnNat, Zenon
<1>2. PICK x \in T : \A y \in T : <<y, x>> \notin R
  <2>1. IsWellFoundedOn(R, Nat) /\ T \subseteq Nat /\ T # {}
    BY <1>1
  <2> QED
    BY <2>1, MinimumIn, ZenonT(60)
<1>3. ASSUME NEW y \in T
      PROVE  x <= y
  <2>1. ~(y < x)
    BY <1>1, <1>2, Zenon
  <2> QED
    BY <2>1
<1> QED
  BY <1>3

NatOrder == {x \in Nat \X Nat : x[1] < x[2]}

\* Whatever numbers are picked, they can be listed.
LEMMA NumbersListed ==
  ASSUME NEW top \in Nat, NEW picked \in SUBSET (1..top)
  PROVE  \E m, t : Lists(t, m, picked, NatOrder)
<1> DEFINE Fails(n) == \E K \in SUBSET (1..n) : ~\E m, t : Lists(t, m, K, NatOrder)
           T == {n \in Nat : Fails(n)}
<1>1. SUFFICES ASSUME T # {} PROVE FALSE
  BY Zenon
<1>2. PICK n \in T : \A k \in T : n <= k
  <2>1. T \subseteq Nat
    OBVIOUS
  <2> HIDE DEF T
  <2> QED
    BY <1>1, <2>1, LeastNat
<1>3. PICK K \in SUBSET (1..n) : ~\E m, t : Lists(t, m, K, NatOrder)
  BY <1>2
<1>4. n \in Nat
  BY <1>2
<1>5. K # {}
  <2> SUFFICES ASSUME K = {} PROVE FALSE
    OBVIOUS
  <2>1. Lists([i \in 1..0 |-> 0], 0, K, NatOrder)
    BY DEF Lists
  <2> QED
    BY <1>3, <2>1
<1>6. n > 0
  <2>1. PICK x \in K : x \in 1..n
    BY <1>5
  <2> QED
    BY <1>4, <2>1
<1>7. ~Fails(n - 1)
  <2>1. n - 1 \in Nat /\ ~(n <= n - 1)
    BY <1>4, <1>6
  <2>2. n - 1 \notin T
    <3> HIDE DEF T
    <3> QED
      BY <1>2, <2>1
  <2> QED
    BY <2>1, <2>2
<1>8. PICK m, t : Lists(t, m, K \ {n}, NatOrder)
  <2>1. K \ {n} \in SUBSET (1..(n - 1))
    BY <1>4, <1>6
  <2> QED
    BY <1>7, <2>1
<1>9. n \in K
  <2> SUFFICES ASSUME n \notin K PROVE FALSE
    OBVIOUS
  <2>1. K \ {n} = K
    OBVIOUS
  <2> QED
    BY <1>3, <1>8, <2>1
<1> DEFINE u == [i \in 1..(m + 1) |-> IF i <= m THEN t[i] ELSE n]
<1>10. Lists(u, m + 1, K, NatOrder)
  <2>1. /\ m \in Nat /\ t \in [1..m -> K \ {n}]
        /\ \A x \in K \ {n} : \E i \in 1..m : t[i] = x
        /\ \A i, j \in 1..m : <<t[i], t[j]>> \in NatOrder <=> i < j
    BY <1>8 DEF Lists
  <2>2. m + 1 \in Nat /\ u \in [1..(m + 1) -> K]
    BY <1>9, <2>1
  <2>3. ASSUME NEW x \in K
        PROVE  \E i \in 1..(m + 1) : u[i] = x
    <3>1. CASE x = n
      <4>1. u[m + 1] = n /\ m + 1 \in 1..(m + 1)
        BY <2>1
      <4> QED
        BY <3>1, <4>1
    <3>2. CASE x # n
      <4>1. PICK i \in 1..m : t[i] = x
        BY <2>1, <3>2
      <4>2. i \in 1..(m + 1) /\ u[i] = x
        BY <2>1, <4>1
      <4> QED
        BY <4>2
    <3> QED
      BY <3>1, <3>2
  <2>4. ASSUME NEW i \in 1..m
        PROVE  t[i] \in Nat /\ t[i] < n
    <3>1. t[i] \in 1..n /\ t[i] # n
      BY <2>1
    <3> QED
      BY <1>4, <3>1
  <2>5. ASSUME NEW i \in 1..(m + 1), NEW j \in 1..(m + 1)
        PROVE  <<u[i], u[j]>> \in NatOrder <=> i < j
    <3>1. CASE i <= m /\ j <= m
      BY <2>1, <3>1
    <3>2. CASE i <= m /\ j = m + 1
      <4>1. u[i] = t[i] /\ u[j] = n /\ i \in 1..m /\ i < j
        BY <2>1, <3>2
      <4> QED
        BY <1>4, <2>4, <4>1 DEF NatOrder
    <3>3. CASE i = m + 1
      <4>1. u[i] = n /\ u[j] \in Nat /\ u[j] <= n /\ ~(i < j)
        BY <1>4, <2>1, <2>4, <3>3
      <4> QED
        BY <1>4, <4>1 DEF NatOrder
    <3> QED
      BY <2>1, <3>1, <3>2, <3>3
  <2> HIDE DEF u
  <2> QED
    BY <2>2, <2>3, <2>5 DEF Lists
<1> QED
  BY <1>3, <1>10

-----------------------------------------------------------------------------
(* Batches in the order of their places. *)

Place == Nat \X Nat
PlaceOrder == {x \in Place \X Place : Precedes(x[1], x[2])}

\* A function from places to batches whose places are listed by s.
Orders(s, n, B) ==
  DOMAIN B \subseteq Place /\ Lists(s, n, DOMAIN B, PlaceOrder)

\* InSequence takes the batches in the order of the listing.
LEMMA SequenceIs ==
  ASSUME NEW B, NEW n, NEW s, Orders(s, n, B)
  PROVE  /\ n \in Nat /\ s \in [1..n -> DOMAIN B]
         /\ InSequence(B) = [j \in 1..n |-> B[s[j]]]
<1>1. /\ Lists(s, n, DOMAIN B, PlaceOrder) /\ DOMAIN B \subseteq Place
  BY DEF Orders
<1>2. n \in Nat /\ s \in [1..n -> DOMAIN B] /\ Cardinality(DOMAIN B) = n
  BY <1>1, ListedOnce
<1>3. ASSUME NEW x \in DOMAIN B
      PROVE  {y \in DOMAIN B : Precedes(y, x)}
               = {y \in DOMAIN B : <<y, x>> \in PlaceOrder}
  BY <1>1 DEF PlaceOrder
<1>4. ASSUME NEW j \in 1..n
      PROVE  s[j] = CHOOSE x \in DOMAIN B :
               Cardinality({y \in DOMAIN B : Precedes(y, x)}) = j - 1
  <2>1. s[j] = CHOOSE x \in DOMAIN B :
          Cardinality({y \in DOMAIN B : <<y, x>> \in PlaceOrder}) = j - 1
    BY <1>1, ListedAt
  <2>2. \A x : x \in DOMAIN B /\ Cardinality({y \in DOMAIN B : Precedes(y, x)}) = j - 1
          <=> x \in DOMAIN B
                /\ Cardinality({y \in DOMAIN B : <<y, x>> \in PlaceOrder}) = j - 1
    BY <1>3, Zenon
  <2> QED
    BY <2>1, <2>2, Zenon
<1>5. InSequence(B) = [j \in 1..n |->
        B[CHOOSE x \in DOMAIN B :
            Cardinality({y \in DOMAIN B : Precedes(y, x)}) = j - 1]]
  BY <1>2, Zenon DEF InSequence
<1>6. InSequence(B) = [j \in 1..n |-> B[s[j]]]
  BY <1>4, <1>5, Zenon
<1> QED
  BY <1>2, <1>6

Listable(B) == \E s, n : Orders(s, n, B)

\* Precedes orders places strictly and totally.
LEMMA PrecedesOrders ==
  ASSUME NEW x \in Place, NEW y \in Place
  PROVE  /\ <<x, y>> \in PlaceOrder <=> Precedes(x, y)
         /\ ~Precedes(x, x)
         /\ ~(Precedes(x, y) /\ Precedes(y, x))
         /\ x = y \/ Precedes(x, y) \/ Precedes(y, x)
<1>1. <<x, y>> \in PlaceOrder <=> Precedes(x, y)
  BY DEF PlaceOrder
<1>2. x[1] \in Nat /\ x[2] \in Nat /\ y[1] \in Nat /\ y[2] \in Nat
  BY DEF Place
<1>3. x[1] = y[1] /\ x[2] = y[2] => x = y
  BY DEF Place
<1> QED
  BY <1>1, <1>2, <1>3 DEF Precedes

\* B maps to V.
Into(B, V) == \A x \in DOMAIN B : B[x] \in V

\* The batches of an order are those of its places, one after the other.
LEMMA SequenceType ==
  ASSUME NEW V, NEW B, NEW n, NEW s, Orders(s, n, B), Into(B, V)
  PROVE  /\ InSequence(B) \in Seq(V)
         /\ Len(InSequence(B)) = n
         /\ \A j \in 1..n : InSequence(B)[j] = B[s[j]]
BY SequenceIs DEF Into

\* Nothing is listed as nothing.
LEMMA NothingListed ==
  ASSUME NEW B, DOMAIN B = {}
  PROVE  Listable(B) /\ InSequence(B) = <<>>
<1>1. Orders([i \in 1..0 |-> 0], 0, B)
  BY DEF Orders, Lists
<1>2. InSequence(B) = [j \in 1..0 |-> B[[i \in 1..0 |-> 0][j]]]
  BY <1>1, SequenceIs
<1> QED
  BY <1>1, <1>2 DEF Listable

\* C is B with batch b at place k, which comes after those of B.
EndsWith(C, B, k, b) ==
  /\ k \in Place /\ \A x \in DOMAIN B : Precedes(x, k)
  /\ DOMAIN C = DOMAIN B \cup {k}
  /\ C[k] = b /\ \A x \in DOMAIN B : C[x] = B[x]

\* A last place is appended.
LEMMA LastListed ==
  ASSUME NEW V, NEW B, Listable(B), Into(B, V),
         NEW k, NEW b \in V, b # {}, NEW C, EndsWith(C, B, k, b)
  PROVE  Listable(C) /\ InSequence(C) = Clients!Put(InSequence(B), b)
<1> USE DEF EndsWith
<1>1. PICK s, n : Orders(s, n, B)
  BY DEF Listable
<1>2. /\ n \in Nat /\ s \in [1..n -> DOMAIN B] /\ DOMAIN B \subseteq Place
      /\ \A x \in DOMAIN B : \E i \in 1..n : s[i] = x
      /\ \A i, j \in 1..n : <<s[i], s[j]>> \in PlaceOrder <=> i < j
  BY <1>1 DEF Orders, Lists
<1>3. k \notin DOMAIN B
  BY PrecedesOrders
<1> DEFINE t == [i \in 1..(n + 1) |-> IF i <= n THEN s[i] ELSE k]
<1>4. DOMAIN C = DOMAIN B \cup {k} /\ DOMAIN C \subseteq Place
  BY <1>2
<1>5. n + 1 \in Nat /\ t \in [1..(n + 1) -> DOMAIN C]
  BY <1>2, <1>4
<1>6. /\ \A i \in 1..n : i \in 1..(n + 1) /\ t[i] = s[i]
      /\ n + 1 \in 1..(n + 1) /\ t[n + 1] = k
  BY <1>2
<1>7. ASSUME NEW x \in DOMAIN C
      PROVE  \E i \in 1..(n + 1) : t[i] = x
  BY <1>2, <1>4, <1>6
<1>8. ASSUME NEW i \in 1..(n + 1), NEW j \in 1..(n + 1)
      PROVE  <<t[i], t[j]>> \in PlaceOrder <=> i < j
  <2>1. t[i] \in Place /\ t[j] \in Place
    BY <1>4, <1>5
  <2>2. CASE i <= n /\ j <= n
    BY <1>2, <2>2
  <2>3. CASE i <= n /\ j = n + 1
    <3>1. t[i] \in DOMAIN B /\ t[j] = k /\ i < j
      BY <1>2, <2>3
    <3> QED
      BY <2>1, <3>1, PrecedesOrders
  <2>4. CASE i = n + 1
    <3>1. t[i] = k /\ ~(i < j) /\ (t[j] \in DOMAIN B \/ t[j] = k)
      BY <1>2, <2>4
    <3> QED
      BY <2>1, <3>1, PrecedesOrders
  <2> QED
    BY <1>2, <2>2, <2>3, <2>4
<1> HIDE DEF t
<1>9. Orders(t, n + 1, C)
  BY <1>4, <1>5, <1>7, <1>8 DEF Orders, Lists
<1>10. /\ InSequence(B) \in Seq(V) /\ Len(InSequence(B)) = n
       /\ \A j \in 1..n : InSequence(B)[j] = B[s[j]]
  BY <1>1, SequenceType
<1>11. /\ InSequence(C) \in Seq(V) /\ Len(InSequence(C)) = n + 1
       /\ \A j \in 1..(n + 1) : InSequence(C)[j] = C[t[j]]
  <2>1. Into(C, V)
    BY DEF Into
  <2> QED
    BY <1>9, <2>1, SequenceType
<1>12. ASSUME NEW j \in 1..n
       PROVE  C[t[j]] = B[s[j]]
  BY <1>2, <1>3, <1>6
<1>13. C[t[n + 1]] = b
  BY <1>6
<1>14. InSequence(C) = Append(InSequence(B), b)
  <2> DEFINE q == InSequence(B)
             r == InSequence(C)
  <2>1. /\ q \in Seq(V) /\ Len(q) = n /\ r \in Seq(V) /\ Len(r) = n + 1
    BY <1>10, <1>11
  <2>2. \A j \in 1..n : r[j] = q[j]
    BY <1>2, <1>6, <1>10, <1>11, <1>12
  <2>3. r[n + 1] = b
    BY <1>6, <1>11, <1>13
  <2> HIDE DEF q, r
  <2>4. /\ Append(q, b) \in Seq(V) /\ Len(Append(q, b)) = n + 1
        /\ \A j \in 1..n : Append(q, b)[j] = q[j]
        /\ Append(q, b)[n + 1] = b
    BY <2>1, AppendProperties
  <2>5. ASSUME NEW j \in 1..(n + 1)
        PROVE  r[j] = Append(q, b)[j]
    BY <1>2, <2>2, <2>3, <2>4
  <2>6. r = Append(q, b)
    BY <2>1, <2>4, <2>5, SeqEqual
  <2> QED
    BY <2>6 DEF q, r
<1> QED
  BY <1>9, <1>14 DEF Listable, Clients!Put

\* C is B with batch b at place k.
Changes(C, B, k, b) ==
  DOMAIN C = DOMAIN B /\ \A x \in DOMAIN B : C[x] = IF x = k THEN b ELSE B[x]

\* A queue with b as its i-th batch.
Changed(q, i, b) == [q EXCEPT ![i] = b]

\* One batch is replaced.
LEMMA ChangedListed ==
  ASSUME NEW V, NEW B, NEW s, NEW n, Orders(s, n, B), Into(B, V),
         NEW i \in 1..n, NEW b \in V, NEW C, Changes(C, B, s[i], b)
  PROVE  Listable(C) /\ InSequence(C) = Changed(InSequence(B), i, b)
<1> USE DEF Changes
<1>1. Orders(s, n, C)
  BY DEF Orders
<1>2. /\ InSequence(B) \in Seq(V) /\ Len(InSequence(B)) = n
      /\ \A j \in 1..n : InSequence(B)[j] = B[s[j]]
  BY SequenceType
<1>3. /\ InSequence(C) \in Seq(V) /\ Len(InSequence(C)) = n
      /\ \A j \in 1..n : InSequence(C)[j] = C[s[j]]
  <2>1. Into(C, V)
    BY DEF Into
  <2> QED
    BY <1>1, <2>1, SequenceType
<1>4. /\ n \in Nat /\ s \in [1..n -> DOMAIN B]
      /\ \A j \in 1..n : s[j] = s[i] => j = i
  BY ListedOnce DEF Orders
<1>5. ASSUME NEW j \in 1..n
      PROVE  C[s[j]] = IF j = i THEN b ELSE B[s[j]]
  BY <1>4
<1>6. InSequence(C) = [InSequence(B) EXCEPT ![i] = b]
  <2> DEFINE q == InSequence(B)
             r == InSequence(C)
             u == [q EXCEPT ![i] = b]
  <2>1. /\ q \in Seq(V) /\ Len(q) = n /\ r \in Seq(V) /\ Len(r) = n
    BY <1>2, <1>3
  <2>2. ASSUME NEW j \in 1..n
        PROVE  r[j] = IF j = i THEN b ELSE q[j]
    BY <1>2, <1>3, <1>5
  <2> HIDE DEF q, r
  <2>3. u \in Seq(V) /\ Len(u) = n
    BY <2>1
  <2>4. \A j \in 1..n : u[j] = r[j]
    BY <2>1, <2>2
  <2> HIDE DEF u
  <2>5. r = u
    BY <2>1, <2>3, <2>4, SeqEqual
  <2> QED
    BY <2>5 DEF q, r, u
<1> QED
  BY <1>1, <1>6, Zenon DEF Listable, Changed

\* C is B without place k.
Lacks(C, B, k) ==
  DOMAIN C = DOMAIN B \ {k} /\ \A x \in DOMAIN C : C[x] = B[x]

\* A queue without its i-th batch.
Cut(q, i) == SubSeq(q, 1, i - 1) \o SubSeq(q, i + 1, Len(q))

\* One place is taken out.
LEMMA RemovedListed ==
  ASSUME NEW V, NEW B, NEW s, NEW n, Orders(s, n, B), Into(B, V),
         NEW i \in 1..n, NEW C, Lacks(C, B, s[i])
  PROVE  Listable(C) /\ InSequence(C) = Cut(InSequence(B), i)
<1> USE DEF Lacks
<1>1. /\ n \in Nat /\ s \in [1..n -> DOMAIN B] /\ DOMAIN B \subseteq Place
      /\ \A x \in DOMAIN B : \E j \in 1..n : s[j] = x
      /\ \A j, k \in 1..n : <<s[j], s[k]>> \in PlaceOrder <=> j < k
  BY DEF Orders, Lists
<1>2. \A j, k \in 1..n : s[j] = s[k] => j = k
  BY ListedOnce DEF Orders
<1> DEFINE t == [j \in 1..(n - 1) |-> IF j < i THEN s[j] ELSE s[j + 1]]
<1>3. /\ n - 1 \in Nat
      /\ \A j \in 1..(n - 1) : /\ j \in 1..n /\ j + 1 \in 1..n
                               /\ t[j] = s[IF j < i THEN j ELSE j + 1]
  BY <1>1
<1>4. DOMAIN C = DOMAIN B \ {s[i]} /\ DOMAIN C \subseteq Place
  BY <1>1
<1>5. t \in [1..(n - 1) -> DOMAIN C]
  <2>1. ASSUME NEW j \in 1..(n - 1)
        PROVE  t[j] \in DOMAIN C
    <3>1. PICK k \in 1..n : k = IF j < i THEN j ELSE j + 1
      BY <1>3
    <3>2. t[j] = s[k] /\ k # i
      BY <1>1, <1>3, <3>1
    <3> QED
      BY <1>1, <1>2, <1>4, <3>2
  <2> QED
    BY <2>1
<1>6. ASSUME NEW x \in DOMAIN C
      PROVE  \E j \in 1..(n - 1) : t[j] = x
  <2>1. PICK k \in 1..n : s[k] = x
    BY <1>1, <1>4
  <2>2. k # i
    BY <1>4, <2>1
  <2>3. CASE k < i
    <3>1. k \in 1..(n - 1)
      BY <1>1, <2>3
    <3> QED
      BY <2>1, <2>3, <3>1
  <2>4. CASE k > i
    <3>1. k - 1 \in 1..(n - 1) /\ ~(k - 1 < i) /\ (k - 1) + 1 = k
      BY <1>1, <2>4
    <3> QED
      BY <2>1, <3>1
  <2> QED
    BY <1>1, <2>2, <2>3, <2>4
<1>7. ASSUME NEW j \in 1..(n - 1), NEW k \in 1..(n - 1)
      PROVE  <<t[j], t[k]>> \in PlaceOrder <=> j < k
  <2>1. PICK a \in 1..n : a = IF j < i THEN j ELSE j + 1
    BY <1>3
  <2>2. PICK b \in 1..n : b = IF k < i THEN k ELSE k + 1
    BY <1>3
  <2>3. t[j] = s[a] /\ t[k] = s[b]
    BY <1>3, <2>1, <2>2
  <2>4. a < b <=> j < k
    BY <1>1, <2>1, <2>2
  <2> QED
    BY <1>1, <2>3, <2>4
<1> HIDE DEF t
<1>8. Orders(t, n - 1, C)
  BY <1>3, <1>4, <1>5, <1>6, <1>7 DEF Orders, Lists
<1> DEFINE q == InSequence(B)
           r == InSequence(C)
           u == SubSeq(q, 1, i - 1)
           v == SubSeq(q, i + 1, Len(q))
<1>9. /\ q \in Seq(V) /\ Len(q) = n
      /\ \A j \in 1..n : q[j] = B[s[j]]
  BY SequenceType
<1>10. /\ r \in Seq(V) /\ Len(r) = n - 1
       /\ \A j \in 1..(n - 1) : r[j] = C[t[j]]
  <2>1. Into(C, V)
    BY DEF Into
  <2> QED
    BY <1>8, <2>1, SequenceType
<1> HIDE DEF q, r
<1>11. \A j \in 1..n : q[j] \in V
  BY <1>9
<1>12. /\ u \in Seq(V) /\ Len(u) = i - 1
       /\ \A j \in 1..(i - 1) : u[j] = q[j]
  <2>1. \A j \in 1..(i - 1) : q[j] \in V
    BY <1>1, <1>11
  <2> QED
    BY <1>1, <2>1, SubSeqProperties
<1>13. /\ v \in Seq(V) /\ Len(v) = n - i
       /\ \A j \in 1..(n - i) : v[j] = q[i + j]
  <2>1. \A j \in (i + 1)..n : q[j] \in V
    BY <1>1, <1>11
  <2>2. /\ SubSeq(q, i + 1, n) \in Seq(V)
        /\ Len(SubSeq(q, i + 1, n)) = IF i + 1 <= n THEN n - (i + 1) + 1 ELSE 0
        /\ \A j \in 1..(n - (i + 1) + 1) :
             SubSeq(q, i + 1, n)[j] = q[(i + 1) + j - 1]
    BY <1>1, <2>1, SubSeqProperties
  <2>3. v = SubSeq(q, i + 1, n)
    BY <1>9
  <2>4. (IF i + 1 <= n THEN n - (i + 1) + 1 ELSE 0) = n - i
        /\ n - (i + 1) + 1 = n - i
        /\ \A j \in 1..(n - i) : (i + 1) + j - 1 = i + j
    BY <1>1
  <2> HIDE DEF v
  <2> QED
    BY <2>2, <2>3, <2>4
<1> HIDE DEF u, v
<1>14. /\ u \o v \in Seq(V) /\ Len(u \o v) = n - 1
       /\ \A j \in 1..(n - 1) :
            (u \o v)[j] = IF j <= i - 1 THEN u[j] ELSE v[j - (i - 1)]
  <2>1. /\ u \o v \in Seq(V) /\ Len(u \o v) = Len(u) + Len(v)
        /\ \A j \in 1..(Len(u) + Len(v)) :
             (u \o v)[j] = IF j <= Len(u) THEN u[j] ELSE v[j - Len(u)]
    BY <1>12, <1>13, ConcatProperties
  <2>2. Len(u) + Len(v) = n - 1 /\ Len(u) = i - 1
    BY <1>1, <1>12, <1>13
  <2> QED
    BY <2>1, <2>2
<1>15. ASSUME NEW j \in 1..(n - 1)
       PROVE  r[j] = (u \o v)[j]
  <2>1. PICK k \in 1..n : k = IF j < i THEN j ELSE j + 1
    BY <1>3
  <2>2. r[j] = q[k]
    <3>1. t[j] \in DOMAIN C /\ t[j] = s[k]
      BY <1>3, <1>5, <2>1 DEF t
    <3>2. C[t[j]] = B[s[k]]
      BY <3>1
    <3> QED
      BY <1>9, <1>10, <3>2
  <2>3. CASE j < i
    <3>1. j <= i - 1 /\ j \in 1..(i - 1) /\ k = j
      BY <1>1, <2>1, <2>3
    <3> QED
      BY <1>12, <1>14, <2>2, <3>1
  <2>4. CASE ~(j < i)
    <3>1. ~(j <= i - 1) /\ j - (i - 1) \in 1..(n - i) /\ k = i + (j - (i - 1))
      BY <1>1, <2>1, <2>4
    <3> QED
      BY <1>13, <1>14, <2>2, <3>1
  <2> QED
    BY <2>3, <2>4
<1>16. r = u \o v
  BY <1>10, <1>14, <1>15, SeqEqual
<1> QED
  BY <1>8, <1>16, Zenon DEF Listable, q, r, u, v, Cut

\* C is B with its places renamed in an order-preserving way.
Renames(C, B, f) ==
  /\ DOMAIN C \subseteq Place /\ f \in [DOMAIN C -> DOMAIN B]
  /\ \A x \in DOMAIN B : \E y \in DOMAIN C : f[y] = x
  /\ \A x, y \in DOMAIN C : Precedes(x, y) <=> Precedes(f[x], f[y])
  /\ \A x \in DOMAIN C : C[x] = B[f[x]]

\* The names of the places do not matter.
LEMMA RenamedListed ==
  ASSUME NEW V, NEW B, Listable(B), Into(B, V), NEW C, NEW f, Renames(C, B, f)
  PROVE  Listable(C) /\ InSequence(C) = InSequence(B)
<1> USE DEF Renames
<1>1. PICK s, n : Orders(s, n, B)
  BY DEF Listable
<1>2. /\ n \in Nat /\ s \in [1..n -> DOMAIN B] /\ DOMAIN B \subseteq Place
      /\ \A x \in DOMAIN B : \E j \in 1..n : s[j] = x
      /\ \A j, k \in 1..n : <<s[j], s[k]>> \in PlaceOrder <=> j < k
  BY <1>1 DEF Orders, Lists
<1> DEFINE t == [j \in 1..n |-> CHOOSE x \in DOMAIN C : f[x] = s[j]]
<1>3. ASSUME NEW j \in 1..n
      PROVE  t[j] \in DOMAIN C /\ f[t[j]] = s[j]
  <2>1. \E x \in DOMAIN C : f[x] = s[j]
    BY <1>2
  <2> QED
    BY <2>1
<1>4. t \in [1..n -> DOMAIN C]
  BY <1>3
<1> HIDE DEF t
<1>5. \A x, y \in DOMAIN C : f[x] = f[y] => x = y
  <2> SUFFICES ASSUME NEW x \in DOMAIN C, NEW y \in DOMAIN C, f[x] = f[y]
               PROVE  x = y
    OBVIOUS
  <2>1. f[x] \in Place /\ ~Precedes(f[x], f[x])
    BY <1>2, PrecedesOrders
  <2>2. ~Precedes(x, y) /\ ~Precedes(y, x)
    BY <2>1
  <2> QED
    BY <2>2, PrecedesOrders
<1>6. ASSUME NEW x \in DOMAIN C
      PROVE  \E j \in 1..n : t[j] = x
  <2>1. PICK j \in 1..n : s[j] = f[x]
    BY <1>2
  <2> QED
    BY <1>3, <1>5, <2>1
<1>7. ASSUME NEW j \in 1..n, NEW k \in 1..n
      PROVE  <<t[j], t[k]>> \in PlaceOrder <=> j < k
  <2>1. /\ t[j] \in Place /\ t[k] \in Place /\ s[j] \in Place /\ s[k] \in Place
        /\ t[j] \in DOMAIN C /\ t[k] \in DOMAIN C
    BY <1>2, <1>3
  <2>2. Precedes(t[j], t[k]) <=> Precedes(s[j], s[k])
    BY <1>3, <2>1
  <2>3. <<t[j], t[k]>> \in PlaceOrder <=> Precedes(t[j], t[k])
    BY <2>1, PrecedesOrders
  <2>4. <<s[j], s[k]>> \in PlaceOrder <=> Precedes(s[j], s[k])
    BY <2>1, PrecedesOrders
  <2>5. <<s[j], s[k]>> \in PlaceOrder <=> j < k
    BY <1>2
  <2> QED
    BY <2>2, <2>3, <2>4, <2>5
<1>8. Orders(t, n, C)
  BY <1>2, <1>4, <1>6, <1>7 DEF Orders, Lists
<1>9. InSequence(C) = [j \in 1..n |-> C[t[j]]]
  BY <1>8, SequenceIs
<1>10. InSequence(B) = [j \in 1..n |-> B[s[j]]]
  BY <1>1, SequenceIs
<1>11. \A j \in 1..n : C[t[j]] = B[s[j]]
  BY <1>3
<1> QED
  BY <1>8, <1>9, <1>10, <1>11 DEF Listable

\* The abstraction counts as the model does.
LEMMA SameCardinality == \A S : Clients!Cardinality(S) = Cardinality(S)
BY Zenon DEF Clients!Cardinality, Cardinality

\* The number listed at j is the one before which the abstraction counts j - 1.
LEMMA NumberAt ==
  \A kept, u, m : kept \in SUBSET Nat /\ Lists(u, m, kept, NatOrder) =>
    \A j \in 1..m :
      u[j] = CHOOSE i \in kept :
               Clients!Cardinality({k \in kept : k < i}) = j - 1
<1> SUFFICES ASSUME NEW kept, NEW u, NEW m, kept \in SUBSET Nat,
                    Lists(u, m, kept, NatOrder), NEW j \in 1..m
             PROVE  u[j] = CHOOSE i \in kept :
                      Clients!Cardinality({k \in kept : k < i}) = j - 1
  BY Zenon
<1>1. u[j] = CHOOSE x \in kept :
               Cardinality({y \in kept : <<y, x>> \in NatOrder}) = j - 1
  BY ListedAt
<1>2. ASSUME NEW i \in kept
      PROVE  Clients!Cardinality({k \in kept : k < i})
               = Cardinality({k \in kept : <<k, i>> \in NatOrder})
  <2>1. i \in Nat /\ \A k \in kept : k \in Nat
    OBVIOUS
  <2>2. {k \in kept : k < i} = {k \in kept : <<k, i>> \in NatOrder}
    BY <2>1 DEF NatOrder
  <2> QED
    BY <2>2, SameCardinality, Zenon
<1>3. \A i : i \in kept /\ Clients!Cardinality({k \in kept : k < i}) = j - 1
        <=> i \in kept /\ Cardinality({k \in kept : <<k, i>> \in NatOrder}) = j - 1
  BY <1>2, Zenon
<1> QED
  BY <1>1, <1>3, Zenon

\* What is left of a sequence without some events is the sequence of what is
\* left at each place.
LEMMA RestListed ==
  ASSUME NEW V, NEW B, Listable(B), Into(B, V), NEW events,
         NEW C, DOMAIN C = {y \in DOMAIN B : B[y] \ events # {}},
         \A x \in DOMAIN C : C[x] = B[x] \ events
  PROVE  /\ Listable(C)
         /\ InSequence(C) = Clients!Without(InSequence(B), events)
<1>1. PICK s, n : Orders(s, n, B)
  BY DEF Listable
<1>2. /\ n \in Nat /\ s \in [1..n -> DOMAIN B] /\ DOMAIN B \subseteq Place
      /\ \A x \in DOMAIN B : \E j \in 1..n : s[j] = x
      /\ \A j, k \in 1..n : <<s[j], s[k]>> \in PlaceOrder <=> j < k
  BY <1>1 DEF Orders, Lists
<1> DEFINE q == InSequence(B)
           rest == [i \in DOMAIN q |-> q[i] \ events]
           kept == {i \in DOMAIN q : rest[i] # {}}
<1>3. q = [j \in 1..n |-> B[s[j]]]
  BY <1>1, SequenceIs
<1>4. /\ DOMAIN q = 1..n /\ kept \in SUBSET (1..n)
      /\ \A i \in 1..n : rest[i] = B[s[i]] \ events
      /\ \A i \in 1..n : i \in kept <=> B[s[i]] \ events # {}
  BY <1>3
<1>5. Clients!Without(q, events) =
        [j \in 1..Clients!Cardinality(kept) |->
           rest[CHOOSE i \in kept :
                  Clients!Cardinality({k \in kept : k < i}) = j - 1]]
  BY Zenon DEF Clients!Without
<1> HIDE DEF q, rest, kept
<1>6. PICK m, u : Lists(u, m, kept, NatOrder)
  BY <1>2, <1>4, NumbersListed
<1>7. /\ m \in Nat /\ u \in [1..m -> kept] /\ Cardinality(kept) = m
      /\ \A i \in kept : \E j \in 1..m : u[j] = i
      /\ \A j, k \in 1..m : <<u[j], u[k]>> \in NatOrder <=> j < k
  <2>1. m \in Nat /\ u \in [1..m -> kept] /\ Cardinality(kept) = m
    BY <1>6, ListedOnce
  <2> QED
    BY <1>6, <2>1 DEF Lists
<1>8. \A j \in 1..m :
        u[j] = CHOOSE i \in kept :
                 Clients!Cardinality({k \in kept : k < i}) = j - 1
  <2>1. kept \in SUBSET Nat
    BY <1>2, <1>4
  <2> QED
    BY <1>6, <2>1, NumberAt, Zenon
<1>9. Clients!Without(q, events) = [j \in 1..m |-> rest[u[j]]]
  BY <1>5, <1>7, <1>8, SameCardinality, Zenon
<1> DEFINE t == [j \in 1..m |-> s[u[j]]]
<1>10. ASSUME NEW j \in 1..m
       PROVE  u[j] \in 1..n /\ u[j] \in kept /\ t[j] = s[u[j]] /\ t[j] \in DOMAIN C
              /\ C[t[j]] = rest[u[j]]
  <2>1. u[j] \in 1..n /\ u[j] \in kept
    BY <1>4, <1>7
  <2> QED
    BY <1>2, <1>4, <2>1
<1>11. t \in [1..m -> DOMAIN C]
  BY <1>10
<1>12. ASSUME NEW x \in DOMAIN C
       PROVE  \E j \in 1..m : t[j] = x
  <2>1. PICK i \in 1..n : s[i] = x
    BY <1>2
  <2>2. i \in kept
    BY <1>4, <2>1
  <2>3. PICK j \in 1..m : u[j] = i
    BY <1>7, <2>2
  <2> QED
    BY <2>1, <2>3
<1>13. ASSUME NEW j \in 1..m, NEW k \in 1..m
       PROVE  <<t[j], t[k]>> \in PlaceOrder <=> j < k
  <2>1. u[j] < u[k] <=> j < k
    <3>1. u[j] \in 1..n /\ u[k] \in 1..n /\ n \in Nat
      BY <1>2, <1>4, <1>7
    <3>2. <<u[j], u[k]>> \in NatOrder <=> j < k
      BY <1>7
    <3> QED
      BY <3>1, <3>2 DEF NatOrder
  <2> QED
    BY <1>2, <1>10, <2>1
<1> HIDE DEF t
<1>14. Orders(t, m, C)
  BY <1>2, <1>7, <1>11, <1>12, <1>13 DEF Orders, Lists
<1>15. InSequence(C) = [j \in 1..m |-> C[t[j]]]
  BY <1>14, SequenceIs
<1>16. InSequence(C) = [j \in 1..m |-> rest[u[j]]]
  BY <1>10, <1>15
<1>17. InSequence(C) = Clients!Without(q, events)
  BY <1>9, <1>16
<1> QED
  BY <1>14, <1>17 DEF Listable, q

-----------------------------------------------------------------------------
(* Batches of entries, pairs of a place and an event. *)

\* The batches of entries have their places and hold their events.
Gathers(B, E, W) ==
  /\ DOMAIN B \subseteq Place
  /\ \A k : k \in DOMAIN B <=> \E w \in W : <<k, w>> \in E
  /\ \A k \in DOMAIN B : B[k] = {w \in W : <<k, w>> \in E}
  /\ Into(B, SUBSET W)

LEMMA BatchesAre ==
  ASSUME NEW W, NEW E, E \subseteq Place \X W
  PROVE  Gathers(Batches(E), E, W)
<1>1. \A e \in E : e[1] \in Place /\ e[2] \in W /\ e = <<e[1], e[2]>>
  OBVIOUS
<1>2. DOMAIN Batches(E) = {e[1] : e \in E}
  BY DEF Batches
<1>3. DOMAIN Batches(E) \subseteq Place
  BY <1>1, <1>2
<1>4. ASSUME NEW k
      PROVE  k \in DOMAIN Batches(E) <=> \E w \in W : <<k, w>> \in E
  <2>1. ASSUME k \in DOMAIN Batches(E)
        PROVE  \E w \in W : <<k, w>> \in E
    <3>1. PICK e \in E : e[1] = k
      BY <1>2, <2>1
    <3> QED
      BY <1>1, <3>1
  <2>2. ASSUME NEW w \in W, <<k, w>> \in E
        PROVE  k \in DOMAIN Batches(E)
    BY <1>2, <2>2
  <2> QED
    BY <2>1, <2>2
<1>5. ASSUME NEW k \in DOMAIN Batches(E)
      PROVE  Batches(E)[k] = {w \in W : <<k, w>> \in E}
  <2>1. Batches(E)[k] = {e[2] : e \in {f \in E : f[1] = k}}
    BY <1>2 DEF Batches
  <2>2. ASSUME NEW e \in {f \in E : f[1] = k}
        PROVE  e[2] \in {w \in W : <<k, w>> \in E}
    <3>1. e \in E /\ e[1] = k
      OBVIOUS
    <3>2. e = <<k, e[2]>> /\ e[2] \in W
      BY <1>1, <3>1
    <3> QED
      BY <3>1, <3>2
  <2>3. ASSUME NEW w \in W, <<k, w>> \in E
        PROVE  w \in {e[2] : e \in {f \in E : f[1] = k}}
    <3>1. <<k, w>> \in {f \in E : f[1] = k} /\ <<k, w>>[2] = w
      BY <2>3
    <3> QED
      BY <3>1
  <2> QED
    BY <2>1, <2>2, <2>3
<1>6. Into(Batches(E), SUBSET W)
  BY <1>5 DEF Into
<1> QED
  BY <1>3, <1>4, <1>5, <1>6 DEF Gathers

\* The queue that entries make, when they can be listed.
Queue(E) == InSequence(Batches(E))
Queues(E) == Listable(Batches(E))

\* No entries make the empty queue.
LEMMA NothingQueued == Queues({}) /\ Queue({}) = <<>>
<1>1. DOMAIN Batches({}) = {}
  BY DEF Batches
<1> QED
  BY <1>1, NothingListed DEF Queue, Queues

\* E and F are entries with events in W, and F is E with batch at place k,
\* which comes after those of E,
Puts(F, E, k, batch, W) ==
  /\ E \subseteq Place \X W /\ F \subseteq Place \X W
  /\ k \in Place /\ batch \in SUBSET W
  /\ \A e \in E : Precedes(e[1], k)
  /\ \A h \in Place, w \in W :
       <<h, w>> \in F <=> <<h, w>> \in E \/ (h = k /\ w \in batch)

\* without some events,
Withdraws(F, E, events, W) ==
  /\ E \subseteq Place \X W /\ F \subseteq Place \X W
  /\ \A h \in Place, w \in W :
       <<h, w>> \in F <=> <<h, w>> \in E /\ w \notin events

\* without place k, where only e is,
Cuts(F, E, k, e, W) ==
  /\ E \subseteq Place \X W /\ F \subseteq Place \X W
  /\ k \in Place /\ e \in W /\ <<k, e>> \in E
  /\ \A w \in W : <<k, w>> \in E => w = e
  /\ \A h \in Place, w \in W : <<h, w>> \in F <=> <<h, w>> \in E /\ h # k

\* or without e at place k, which comes before all others.
Tells(F, E, k, e, W) ==
  /\ E \subseteq Place \X W /\ F \subseteq Place \X W
  /\ k \in Place /\ e \in W /\ <<k, e>> \in E
  /\ \A x \in E : x[1] = k \/ Precedes(k, x[1])
  /\ \A h \in Place, w \in W :
       <<h, w>> \in F <=> <<h, w>> \in E /\ ~(h = k /\ w = e)

\* The place an entry comes from when the first sync is gone.
Moved(h) == <<h[1], IF h[2] = 0 THEN 0 ELSE h[2] + 1>>

\* F is E, which has no first sync, with the later ones counted from one less.
Shifts(F, E, W) ==
  /\ E \subseteq Place \X W /\ F \subseteq Place \X W
  /\ \A x \in E : x[1][2] # 1
  /\ \A h \in Place, w \in W : <<h, w>> \in F <=> <<Moved(h), w>> \in E

\* Events that come at a place after all others are put at the end of the queue.
LEMMA PutQueued ==
  ASSUME NEW W, NEW E, Queues(E), NEW F, NEW k, NEW batch, Puts(F, E, k, batch, W)
  PROVE  Queues(F) /\ Queue(F) = Clients!Put(Queue(E), batch)
<1> USE DEF Puts
<1> DEFINE B == Batches(E)
           C == Batches(F)
<1>1. /\ DOMAIN B \subseteq Place
      /\ \A h : h \in DOMAIN B <=> \E w \in W : <<h, w>> \in E
      /\ \A h \in DOMAIN B : B[h] = {w \in W : <<h, w>> \in E}
      /\ Into(B, SUBSET W)
  BY BatchesAre DEF Gathers
<1>2. /\ DOMAIN C \subseteq Place
      /\ \A h : h \in DOMAIN C <=> \E w \in W : <<h, w>> \in F
      /\ \A h \in DOMAIN C : C[h] = {w \in W : <<h, w>> \in F}
  <2>1. Gathers(C, F, W)
    BY BatchesAre
  <2> HIDE DEF C
  <2> QED
    BY <2>1 DEF Gathers
<1>3. \A h \in DOMAIN B : Precedes(h, k)
  <2> SUFFICES ASSUME NEW h \in DOMAIN B PROVE Precedes(h, k)
    OBVIOUS
  <2>1. PICK w \in W : <<h, w>> \in E
    BY <1>1
  <2>2. Precedes(<<h, w>>[1], k)
    BY <2>1
  <2> QED
    BY <2>2
<1>4. CASE batch = {}
  <2>1. E = F
    BY <1>4
  <2> QED
    BY <1>4, <2>1 DEF Clients!Put
<1>5. CASE batch # {}
  <2>1. DOMAIN C = DOMAIN B \cup {k}
    BY <1>1, <1>2, <1>5
  <2>2. ~Precedes(k, k)
    BY PrecedesOrders
  <2>3. k \notin DOMAIN B
    BY <1>3, <2>2
  <2>4. C[k] = batch
    <3>1. \A w \in W : <<k, w>> \in F <=> w \in batch
      BY <1>1, <2>3
    <3> QED
      BY <1>2, <2>1, <3>1
  <2>5. ASSUME NEW h \in DOMAIN B
        PROVE  C[h] = B[h]
    <3>1. h \in Place /\ h # k
      BY <1>1, <2>3
    <3>2. \A w \in W : <<h, w>> \in F <=> <<h, w>> \in E
      BY <3>1
    <3> QED
      BY <1>1, <1>2, <2>1, <3>2
  <2>7. Listable(B)
    BY DEF Queues
  <2> HIDE DEF C, B
  <2> PICK V : V = SUBSET W
    OBVIOUS
  <2>8. Into(B, V) /\ batch \in V
    BY <1>1
  <2>9. EndsWith(C, B, k, batch)
    BY <1>3, <2>1, <2>4, <2>5 DEF EndsWith
  <2>10. Listable(C) /\ InSequence(C) = Clients!Put(InSequence(B), batch)
    BY <1>5, <2>7, <2>8, <2>9, LastListed
  <2> QED
    BY <2>10 DEF C, B, Queue, Queues
<1> QED
  BY <1>4, <1>5

\* Without some events the queue is what the abstraction leaves of it.
LEMMA RestQueued ==
  ASSUME NEW W, NEW E, Queues(E), NEW F, NEW events, Withdraws(F, E, events, W)
  PROVE  Queues(F) /\ Queue(F) = Clients!Without(Queue(E), events)
<1> USE DEF Withdraws
<1> DEFINE B == Batches(E)
           C == Batches(F)
<1>1. /\ DOMAIN B \subseteq Place
      /\ \A h : h \in DOMAIN B <=> \E w \in W : <<h, w>> \in E
      /\ \A h \in DOMAIN B : B[h] = {w \in W : <<h, w>> \in E}
      /\ Into(B, SUBSET W)
  BY BatchesAre DEF Gathers
<1>2. /\ DOMAIN C \subseteq Place
      /\ \A h : h \in DOMAIN C <=> \E w \in W : <<h, w>> \in F
      /\ \A h \in DOMAIN C : C[h] = {w \in W : <<h, w>> \in F}
  BY BatchesAre DEF Gathers
<1> HIDE DEF B, C
<1>3. ASSUME NEW h \in Place
      PROVE  /\ h \in DOMAIN C <=> h \in DOMAIN B /\ B[h] \ events # {}
             /\ h \in DOMAIN C => C[h] = B[h] \ events
  <2>1. h \in DOMAIN C => h \in DOMAIN B /\ B[h] \ events # {}
    BY <1>1, <1>2
  <2>2. h \in DOMAIN B /\ B[h] \ events # {} => h \in DOMAIN C
    BY <1>1, <1>2
  <2>3. h \in DOMAIN C => C[h] = B[h] \ events
    BY <1>1, <1>2, <2>1
  <2> QED
    BY <2>1, <2>2, <2>3
<1>4. DOMAIN C = {h \in DOMAIN B : B[h] \ events # {}}
  BY <1>1, <1>2, <1>3
<1>5. \A h \in DOMAIN C : C[h] = B[h] \ events
  BY <1>2, <1>3
<1>6. Listable(B)
  BY DEF Queues, B
<1>7. Listable(C) /\ InSequence(C) = Clients!Without(InSequence(B), events)
  BY <1>1, <1>4, <1>5, <1>6, RestListed
<1> QED
  BY <1>7 DEF B, C, Queue, Queues

\* Without its first batch a queue is its tail.
LEMMA CutFirst ==
  ASSUME NEW V, NEW q \in Seq(V), q # <<>>
  PROVE  Cut(q, 1) = Tail(q)
<1> DEFINE n == Len(q)
           u == SubSeq(q, 1, 0)
           v == SubSeq(q, 2, n)
<1>1. n \in Nat /\ n > 0 /\ \A j \in 1..n : q[j] \in V
  BY EmptySeq
<1>2. u \in Seq(V) /\ Len(u) = 0
  <2>1. \A j \in 1..0 : q[j] \in V
    OBVIOUS
  <2> QED
    BY <2>1, SubSeqProperties
<1>3. /\ v \in Seq(V) /\ Len(v) = n - 1
      /\ \A j \in 1..(n - 1) : v[j] = q[j + 1]
  <2>1. \A j \in 2..n : q[j] \in V
    BY <1>1
  <2> HIDE DEF n
  <2>2. /\ SubSeq(q, 2, n) \in Seq(V)
        /\ Len(SubSeq(q, 2, n)) = IF 2 <= n THEN n - 2 + 1 ELSE 0
        /\ \A j \in 1..(n - 2 + 1) : SubSeq(q, 2, n)[j] = q[2 + j - 1]
    BY <1>1, <2>1, SubSeqProperties
  <2> QED
    BY <1>1, <2>2
<1>4. /\ Tail(q) \in Seq(V) /\ Len(Tail(q)) = n - 1
      /\ \A j \in 1..(n - 1) : Tail(q)[j] = q[j + 1]
  BY HeadTailProperties
<1> HIDE DEF n, u, v
<1>5. /\ u \o v \in Seq(V) /\ Len(u \o v) = n - 1
      /\ \A j \in 1..(n - 1) : (u \o v)[j] = v[j]
  <2>1. /\ u \o v \in Seq(V) /\ Len(u \o v) = Len(u) + Len(v)
        /\ \A j \in 1..(Len(u) + Len(v)) :
             (u \o v)[j] = IF j <= Len(u) THEN u[j] ELSE v[j - Len(u)]
    BY <1>2, <1>3, ConcatProperties
  <2> QED
    BY <1>1, <1>2, <1>3, <2>1
<1>6. u \o v = Tail(q)
  BY <1>3, <1>4, <1>5, SeqEqual
<1>7. Cut(q, 1) = u \o v
  BY DEF Cut, u, v, n
<1> QED
  BY <1>6, <1>7

\* A queue without a batch that is e alone.
IsCut(r, q, e) == \E i \in DOMAIN q : q[i] = {e} /\ r = Cut(q, i)

\* The batch at one place is taken out of the queue.
LEMMA CutQueued ==
  ASSUME NEW W, NEW E, Queues(E), NEW F, NEW k, NEW e, Cuts(F, E, k, e, W)
  PROVE  /\ Queues(F)
         /\ IsCut(Queue(F), Queue(E), e)
<1> USE DEF Cuts, IsCut
<1> DEFINE B == Batches(E)
           C == Batches(F)
<1>1. Gathers(B, E, W) /\ Gathers(C, F, W) /\ Listable(B)
  BY BatchesAre DEF Queues
<1> HIDE DEF B, C
<1>2. PICK s, n : Orders(s, n, B)
  BY <1>1 DEF Listable
<1>3. /\ n \in Nat /\ s \in [1..n -> DOMAIN B]
      /\ \A x \in DOMAIN B : \E j \in 1..n : s[j] = x
  BY <1>2 DEF Orders, Lists
<1>4. k \in DOMAIN B /\ B[k] = {e}
  <2>1. k \in DOMAIN B
    BY <1>1 DEF Gathers
  <2>2. B[k] = {w \in W : <<k, w>> \in E}
    BY <1>1, <2>1 DEF Gathers
  <2> QED
    BY <2>1, <2>2
<1>5. PICK i \in 1..n : s[i] = k
  BY <1>3, <1>4
<1>6. Lacks(C, B, k)
  <2>1. DOMAIN C = DOMAIN B \ {k}
    BY <1>1 DEF Gathers
  <2>2. ASSUME NEW h \in DOMAIN C
        PROVE  C[h] = B[h]
    <3>1. h \in DOMAIN B /\ h # k /\ h \in Place
      BY <1>1, <2>1 DEF Gathers
    <3>2. \A w \in W : <<h, w>> \in F <=> <<h, w>> \in E
      BY <3>1
    <3> QED
      BY <1>1, <3>1, <3>2 DEF Gathers
  <2> QED
    BY <2>1, <2>2 DEF Lacks
<1>7. Into(B, SUBSET W)
  BY <1>1 DEF Gathers
<1>8. Listable(C) /\ InSequence(C) = Cut(InSequence(B), i)
  BY <1>2, <1>5, <1>6, <1>7, RemovedListed
<1>9. InSequence(B) = [j \in 1..n |-> B[s[j]]]
  BY <1>2, SequenceIs
<1>10. i \in DOMAIN InSequence(B) /\ InSequence(B)[i] = {e}
  BY <1>4, <1>5, <1>9
<1> QED
  BY <1>8, <1>10 DEF Queue, Queues, B, C

\* An event at the first place is in the first batch.
LEMMA ToldQueued ==
  ASSUME NEW W, NEW E, Queues(E), NEW F, NEW k, NEW e, Tells(F, E, k, e, W)
  PROVE  /\ Queues(F)
         /\ Queue(E) # <<>> /\ e \in Head(Queue(E))
         /\ Queue(F) = Clients!Rest(Queue(E), e)
<1> USE DEF Tells
<1> DEFINE B == Batches(E)
           C == Batches(F)
           q == InSequence(B)
<1>1. Gathers(B, E, W) /\ Gathers(C, F, W) /\ Listable(B)
  BY BatchesAre DEF Queues
<1> HIDE DEF B, C
<1>2. PICK s, n : Orders(s, n, B)
  BY <1>1 DEF Listable
<1>3. /\ n \in Nat /\ s \in [1..n -> DOMAIN B] /\ DOMAIN B \subseteq Place
      /\ \A x \in DOMAIN B : \E j \in 1..n : s[j] = x
      /\ \A i, j \in 1..n : <<s[i], s[j]>> \in PlaceOrder <=> i < j
  BY <1>2 DEF Orders, Lists
<1>4. k \in DOMAIN B /\ e \in B[k]
  BY <1>1 DEF Gathers
<1>5. PICK i \in 1..n : s[i] = k
  BY <1>3, <1>4
<1>6. i = 1
  <2> SUFFICES ASSUME i # 1 PROVE FALSE
    OBVIOUS
  <2>1. 1 \in 1..n /\ 1 < i /\ s[1] \in DOMAIN B /\ s[1] \in Place
    BY <1>3
  <2>2. <<s[1], k>> \in PlaceOrder
    BY <1>3, <1>5, <2>1
  <2>3. Precedes(s[1], k)
    BY <2>1, <2>2, PrecedesOrders
  <2>4. PICK w \in W : <<s[1], w>> \in E
    BY <1>1, <2>1 DEF Gathers
  <2>5. s[1] = k \/ Precedes(k, s[1])
    <3>1. <<s[1], w>>[1] = s[1]
      OBVIOUS
    <3> QED
      BY <2>4, <3>1
  <2> QED
    BY <2>1, <2>3, <2>5, PrecedesOrders
<1>7. Into(B, SUBSET W)
  BY <1>1 DEF Gathers
<1>8. /\ q \in Seq(SUBSET W) /\ Len(q) = n
      /\ \A j \in 1..n : q[j] = B[s[j]]
  <2> PICK V : V = SUBSET W
    OBVIOUS
  <2>1. InSequence(B) \in Seq(V) /\ Len(InSequence(B)) = n
        /\ \A j \in 1..n : InSequence(B)[j] = B[s[j]]
    BY <1>2, <1>7, SequenceType
  <2> QED
    BY <2>1
<1>9. q # <<>> /\ Head(q) = B[k]
  <2> HIDE DEF q
  <2> PICK V : V = SUBSET W
    OBVIOUS
  <2>1. q \in Seq(V) /\ Len(q) = n /\ n # 0 /\ q[1] = B[k]
    BY <1>3, <1>5, <1>6, <1>8
  <2>2. q # <<>>
    BY <2>1, EmptySeq
  <2>3. Head(q) = q[1]
    BY <2>1, <2>2, HeadTailProperties
  <2> QED
    BY <2>1, <2>2, <2>3
<1>10. CASE B[k] = {e}
  <2>1. Lacks(C, B, k)
    <3>1. DOMAIN C = DOMAIN B \ {k}
      <4>1. B[k] = {w \in W : <<k, w>> \in E}
        BY <1>1, <1>4 DEF Gathers
      <4>2. \A w \in W : <<k, w>> \in E => w = e
        BY <1>10, <4>1
      <4>3. ASSUME NEW h \in Place
            PROVE  h \in DOMAIN C <=> h \in DOMAIN B /\ h # k
        <5>1. \A w \in W : <<h, w>> \in F <=> <<h, w>> \in E /\ h # k
          BY <4>2
        <5>2. h \in DOMAIN C <=> \E w \in W : <<h, w>> \in F
          BY <1>1 DEF Gathers
        <5>3. h \in DOMAIN B <=> \E w \in W : <<h, w>> \in E
          BY <1>1 DEF Gathers
        <5> QED
          BY <5>1, <5>2, <5>3
      <4>4. DOMAIN B \subseteq Place /\ DOMAIN C \subseteq Place
        BY <1>1 DEF Gathers
      <4> QED
        BY <4>3, <4>4
    <3>2. ASSUME NEW h \in DOMAIN C
          PROVE  C[h] = B[h]
      <4>1. h \in DOMAIN B /\ h # k /\ h \in Place
        BY <1>1, <3>1 DEF Gathers
      <4>2. \A w \in W : <<h, w>> \in F <=> <<h, w>> \in E
        BY <4>1
      <4> QED
        BY <1>1, <4>1, <4>2 DEF Gathers
    <3> QED
      BY <3>1, <3>2 DEF Lacks
  <2>2. Listable(C) /\ InSequence(C) = Cut(InSequence(B), i)
    BY <1>2, <1>5, <1>7, <2>1, RemovedListed
  <2>3. Cut(InSequence(B), 1) = Tail(q)
    BY <1>8, <1>9, CutFirst
  <2>4. InSequence(C) = Clients!Rest(q, e)
    BY <1>6, <1>9, <1>10, <2>2, <2>3 DEF Clients!Rest
  <2> QED
    BY <1>4, <1>9, <2>2, <2>4 DEF Queue, Queues, B, C
<1>11. CASE B[k] # {e}
  <2>1. DOMAIN C = DOMAIN B
    <3>1. PICK w \in B[k] : w # e
      BY <1>4, <1>11
    <3>2. w \in W /\ <<k, w>> \in E
      BY <1>1, <1>4, <3>1 DEF Gathers
    <3>3. <<k, w>> \in F
      BY <3>1, <3>2
    <3> QED
      BY <1>1, <3>2, <3>3 DEF Gathers
  <2>2. Changes(C, B, k, B[k] \ {e})
    <3> SUFFICES ASSUME NEW h \in DOMAIN B
                 PROVE  C[h] = IF h = k THEN B[k] \ {e} ELSE B[h]
      BY <2>1 DEF Changes
    <3>1. C[h] = {w \in W : <<h, w>> \in F} /\ B[h] = {w \in W : <<h, w>> \in E}
      BY <1>1, <2>1 DEF Gathers
    <3>2. \A w \in W : <<h, w>> \in F <=> <<h, w>> \in E /\ ~(h = k /\ w = e)
      BY <1>3
    <3> QED
      BY <3>1, <3>2
  <2>3. B[k] \ {e} \in SUBSET W
    BY <1>4, <1>7 DEF Into
  <2>4. Listable(C) /\ InSequence(C) = Changed(InSequence(B), i, B[k] \ {e})
    BY <1>2, <1>5, <1>7, <2>2, <2>3, ChangedListed
  <2>5. InSequence(C) = Clients!Rest(q, e)
    <3>1. q[1] = B[k]
      BY <1>5, <1>6, <1>8
    <3>2. [q EXCEPT ![1] = B[k] \ {e}] = [q EXCEPT ![1] = @ \ {e}]
      BY <3>1
    <3> QED
      BY <1>6, <1>9, <1>11, <2>4, <3>2 DEF Clients!Rest, Changed
  <2> QED
    BY <1>4, <1>9, <2>4, <2>5 DEF Queue, Queues, B, C
<1> QED
  BY <1>10, <1>11

\* Counting the later syncs from one less does not change the queue.
LEMMA ShiftQueued ==
  ASSUME NEW W, NEW E, Queues(E), NEW F, Shifts(F, E, W)
  PROVE  Queues(F) /\ Queue(F) = Queue(E)
<1> USE DEF Shifts
<1> DEFINE B == Batches(E)
           C == Batches(F)
           f == [h \in DOMAIN C |-> Moved(h)]
<1>1. Gathers(B, E, W) /\ Gathers(C, F, W) /\ Listable(B)
  BY BatchesAre DEF Queues
<1> HIDE DEF B, C
<1>2. DOMAIN B \subseteq Place /\ DOMAIN C \subseteq Place
  BY <1>1 DEF Gathers
<1>3. ASSUME NEW h \in Place
      PROVE  /\ Moved(h) \in Place
             /\ h \in DOMAIN C <=> Moved(h) \in DOMAIN B
             /\ h \in DOMAIN C => C[h] = B[Moved(h)]
  <2>1. Moved(h) \in Place
    BY DEF Place, Moved
  <2>2. \A w \in W : <<h, w>> \in F <=> <<Moved(h), w>> \in E
    OBVIOUS
  <2>3. h \in DOMAIN C <=> \E w \in W : <<h, w>> \in F
    BY <1>1 DEF Gathers
  <2>4. Moved(h) \in DOMAIN B <=> \E w \in W : <<Moved(h), w>> \in E
    BY <1>1 DEF Gathers
  <2>5. h \in DOMAIN C <=> Moved(h) \in DOMAIN B
    BY <2>2, <2>3, <2>4
  <2>6. h \in DOMAIN C => C[h] = {w \in W : <<h, w>> \in F}
    BY <1>1 DEF Gathers
  <2>7. Moved(h) \in DOMAIN B =>
          B[Moved(h)] = {w \in W : <<Moved(h), w>> \in E}
    BY <1>1 DEF Gathers
  <2> QED
    BY <2>1, <2>2, <2>5, <2>6, <2>7
<1>4. f \in [DOMAIN C -> DOMAIN B] /\ \A h \in DOMAIN C : f[h] = Moved(h)
  BY <1>2, <1>3
<1> HIDE DEF f
<1>5. ASSUME NEW x \in DOMAIN B
      PROVE  \E y \in DOMAIN C : f[y] = x
  <2>1. PICK w \in W : <<x, w>> \in E
    BY <1>1 DEF Gathers
  <2>2. <<x, w>>[1][2] # 1
    BY <2>1
  <2>3. PICK a \in Nat, b \in Nat : x = <<a, b>>
    BY <1>2 DEF Place
  <2>4. PICK y : y = <<a, IF b = 0 THEN 0 ELSE b - 1>>
    OBVIOUS
  <2>5. y \in Place /\ Moved(y) = x
    BY <2>2, <2>3, <2>4 DEF Moved, Place
  <2>6. y \in DOMAIN C
    BY <1>3, <2>5
  <2> QED
    BY <1>4, <2>5, <2>6
<1>6. ASSUME NEW x \in Place, NEW y \in Place
      PROVE  Precedes(x, y) <=> Precedes(Moved(x), Moved(y))
  <2>1. PICK a \in Nat, b \in Nat : x = <<a, b>>
    BY DEF Place
  <2>2. PICK c \in Nat, d \in Nat : y = <<c, d>>
    BY DEF Place
  <2> QED
    BY <2>1, <2>2 DEF Precedes, Moved
<1>7. Renames(C, B, f)
  <2>1. \A x, y \in DOMAIN C : Precedes(x, y) <=> Precedes(f[x], f[y])
    BY <1>2, <1>4, <1>6
  <2>2. \A x \in DOMAIN C : C[x] = B[f[x]]
    BY <1>2, <1>3, <1>4
  <2> QED
    BY <1>2, <1>4, <1>5, <2>1, <2>2 DEF Renames
<1>8. Into(B, SUBSET W)
  BY <1>1 DEF Gathers
<1>9. Listable(C) /\ InSequence(C) = InSequence(B)
  BY <1>1, <1>7, <1>8, RenamedListed
<1> QED
  BY <1>9 DEF Queue, Queues, B, C

-----------------------------------------------------------------------------
(* The entries of a peer. *)

Event == {Clients!Done}
         \cup {Clients!Add(r, g) : r \in Registry, g \in Global}
         \cup {Clients!Remove(r, g) : r \in Registry, g \in Global}

\* A barrier waits for what was owed at its arrival, which was not later than
\* now and not before that of the barriers ahead of it.
Dated ==
  /\ \A p \in Peer : \A i \in DOMAIN syncs[p] :
       /\ syncs[p][i].limit <= epoch
       /\ \A j \in DOMAIN syncs[p] :
            i <= j => syncs[p][i].limit <= syncs[p][j].limit
  /\ \A r \in Registry, g \in Global :
       IsPending(offers[r][g]) => offers[r][g].epoch <= epoch

\* What a peer is owed can be listed.
Listed == \A p \in Peer : Queues(Entries(p))

OrderTypes == TableTypes /\ SyncTypes

OrderInv == Inv /\ SyncTypes /\ Dated /\ Listed

\* An offer that owes its event at place h, and a sync that waits there.
OffersAt(p, h, w) ==
  \E r \in Registry, g \in Global :
    /\ owner[r] = p /\ object[r] /\ IsPending(offers[r][g])
    /\ h = <<offers[r][g].epoch, 0>>
    /\ w = IF offers[r][g].state = "add_pending" THEN Clients!Add(r, g)
                                                 ELSE Clients!Remove(r, g)

AnswersAt(p, h, w) ==
  /\ w = Clients!Done
  /\ \E i \in DOMAIN syncs[p] : syncs[p][i].alive /\ h = <<syncs[p][i].limit, i>>

EntriesMeanAt(p) ==
  /\ Entries(p) \subseteq Place \X Event
  /\ \A h \in Place, w \in Event :
       <<h, w>> \in Entries(p) <=> OffersAt(p, h, w) \/ AnswersAt(p, h, w)

LEMMA EntriesMean == OrderTypes => \A p \in Peer : EntriesMeanAt(p)
<1> SUFFICES ASSUME OrderTypes, NEW p \in Peer PROVE EntriesMeanAt(p)
  OBVIOUS
<1>1. ASSUME NEW x \in OwedOffers(p)
      PROVE  \E h \in Place, w \in Event : x = <<h, w>> /\ OffersAt(p, h, w)
  <2>1. PICK y \in Pending(p) : object[y[1]] /\ x = <<<<EpochOf(y), 0>>, EventOf(y)>>
    BY DEF OwedOffers
  <2>2. PICK r \in Registry, g \in Global : y = <<r, g>>
    BY DEF Pending
  <2>3. owner[r] = p /\ object[r] /\ IsPending(offers[r][g])
    BY <2>1, <2>2 DEF Pending
  <2>4. offers[r][g].epoch \in Nat /\ EpochOf(y) = offers[r][g].epoch
    BY <2>2, BoundAssumption DEF OrderTypes, TableTypes, EpochOf
  <2>5. EventOf(y) = IF offers[r][g].state = "add_pending"
                     THEN Clients!Add(r, g) ELSE Clients!Remove(r, g)
    BY <2>2 DEF EventOf, Clients!Add, Clients!Remove
  <2>6. EventOf(y) \in Event
    BY <2>5 DEF Event
  <2>7. <<EpochOf(y), 0>> \in Place
    BY <2>4 DEF Place
  <2>8. OffersAt(p, <<EpochOf(y), 0>>, EventOf(y))
    BY <2>3, <2>4, <2>5 DEF OffersAt
  <2> QED
    BY <2>1, <2>6, <2>7, <2>8
<1>2. ASSUME NEW x \in OwedAnswers(p)
      PROVE  \E h \in Place, w \in Event : x = <<h, w>> /\ AnswersAt(p, h, w)
  <2>1. PICK i \in DOMAIN syncs[p] : /\ syncs[p][i].alive
                                     /\ x = <<<<syncs[p][i].limit, i>>, Clients!Done>>
    BY DEF OwedAnswers, Clients!Done
  <2>2. syncs[p] \in Seq(Barrier)
    BY DEF OrderTypes, SyncTypes
  <2>3. i \in Nat /\ syncs[p][i] \in Barrier
    BY <2>2
  <2>4. syncs[p][i].limit \in Nat
    BY <2>3, BoundAssumption DEF Barrier
  <2>5. <<syncs[p][i].limit, i>> \in Place /\ Clients!Done \in Event
    BY <2>3, <2>4 DEF Place, Event
  <2> QED
    BY <2>1, <2>5 DEF AnswersAt
<1>3. ASSUME NEW h \in Place, NEW w \in Event, OffersAt(p, h, w)
      PROVE  <<h, w>> \in Entries(p)
  <2>1. PICK r \in Registry, g \in Global :
          /\ owner[r] = p /\ object[r] /\ IsPending(offers[r][g])
          /\ h = <<offers[r][g].epoch, 0>>
          /\ w = IF offers[r][g].state = "add_pending" THEN Clients!Add(r, g)
                                                       ELSE Clients!Remove(r, g)
    BY <1>3 DEF OffersAt
  <2>2. PICK y \in Registry \X Global : y = <<r, g>>
    OBVIOUS
  <2>3. y \in Pending(p) /\ object[y[1]]
    BY <2>1, <2>2 DEF Pending
  <2>4. h = <<EpochOf(y), 0>> /\ w = EventOf(y)
    BY <2>1, <2>2 DEF EpochOf, EventOf, Clients!Add, Clients!Remove
  <2> QED
    BY <2>3, <2>4 DEF Entries, OwedOffers
<1>4. ASSUME NEW h \in Place, NEW w \in Event, AnswersAt(p, h, w)
      PROVE  <<h, w>> \in Entries(p)
  BY <1>4 DEF AnswersAt, Entries, OwedAnswers, Clients!Done
<1>5. Entries(p) \subseteq Place \X Event
  BY <1>1, <1>2 DEF Entries
<1>6. ASSUME NEW h \in Place, NEW w \in Event, <<h, w>> \in Entries(p)
      PROVE  OffersAt(p, h, w) \/ AnswersAt(p, h, w)
  <2>1. CASE <<h, w>> \in OwedOffers(p)
    <3>1. PICK k \in Place, v \in Event : <<h, w>> = <<k, v>> /\ OffersAt(p, k, v)
      BY <1>1, <2>1
    <3>2. h = k /\ w = v
      BY <3>1
    <3> QED
      BY <3>1, <3>2
  <2>2. CASE <<h, w>> \in OwedAnswers(p)
    <3>1. PICK k \in Place, v \in Event : <<h, w>> = <<k, v>> /\ AnswersAt(p, k, v)
      BY <1>2, <2>2
    <3>2. h = k /\ w = v
      BY <3>1
    <3> QED
      BY <3>1, <3>2
  <2> QED
    BY <1>6, <2>1, <2>2 DEF Entries
<1> QED
  BY <1>3, <1>4, <1>5, <1>6 DEF EntriesMeanAt

\* The same after a step.
LEMMA EntriesMeanNext ==
  (OrderTypes => \A p \in Peer : EntriesMeanAt(p))'
BY EntriesMean, PTL

PeerQueue(p) == Queue(Entries(p))

\* The queues of the abstraction are those of the entries.
LEMMA QueuedIs == Queued = [p \in Peer |-> PeerQueue(p)]
BY DEF Queued, PeerQueue, Queue

\* Offers that owe the same make the same entries,
LEMMA SameOffers ==
  ASSUME NEW q \in Peer,
         \A r \in Registry : owner'[r] = q /\ object'[r] <=> owner[r] = q /\ object[r],
         \A r \in Registry, g \in Global : owner[r] = q /\ object[r] =>
           /\ IsPending(offers'[r][g]) <=> IsPending(offers[r][g])
           /\ IsPending(offers[r][g]) => offers'[r][g] = offers[r][g]
  PROVE  \A h, w : OffersAt(q, h, w)' <=> OffersAt(q, h, w)
<1> SUFFICES ASSUME NEW h, NEW w
             PROVE  OffersAt(q, h, w)' <=> OffersAt(q, h, w)
  OBVIOUS
<1>1. ASSUME OffersAt(q, h, w) PROVE OffersAt(q, h, w)'
  <2>1. PICK r \in Registry, g \in Global :
          /\ owner[r] = q /\ object[r] /\ IsPending(offers[r][g])
          /\ h = <<offers[r][g].epoch, 0>>
          /\ w = IF offers[r][g].state = "add_pending" THEN Clients!Add(r, g)
                                                       ELSE Clients!Remove(r, g)
    BY <1>1 DEF OffersAt
  <2>2. /\ owner'[r] = q /\ object'[r] /\ IsPending(offers'[r][g])
        /\ offers'[r][g] = offers[r][g]
    BY <2>1
  <2> QED
    BY <2>1, <2>2 DEF OffersAt
<1>2. ASSUME OffersAt(q, h, w)' PROVE OffersAt(q, h, w)
  <2>1. PICK r \in Registry, g \in Global :
          /\ owner'[r] = q /\ object'[r] /\ IsPending(offers'[r][g])
          /\ h = <<offers'[r][g].epoch, 0>>
          /\ w = IF offers'[r][g].state = "add_pending" THEN Clients!Add(r, g)
                                                        ELSE Clients!Remove(r, g)
    BY <1>2 DEF OffersAt
  <2>2. /\ owner[r] = q /\ object[r] /\ IsPending(offers[r][g])
        /\ offers'[r][g] = offers[r][g]
    BY <2>1
  <2> QED
    BY <2>1, <2>2 DEF OffersAt
<1> QED
  BY <1>1, <1>2

\* barriers that stay make the same entries,
LEMMA SameAnswers ==
  ASSUME NEW q \in Peer, syncs'[q] = syncs[q]
  PROVE  \A h, w : AnswersAt(q, h, w)' <=> AnswersAt(q, h, w)
BY DEF AnswersAt

\* and the same entries make the same queue.
LEMMA SameQueue ==
  ASSUME OrderTypes, OrderTypes', NEW q \in Peer,
         \A h, w : OffersAt(q, h, w)' <=> OffersAt(q, h, w),
         \A h, w : AnswersAt(q, h, w)' <=> AnswersAt(q, h, w)
  PROVE  /\ Queues(Entries(q)) => Queues(Entries(q))'
         /\ PeerQueue(q)' = PeerQueue(q)
<1>1. EntriesMeanAt(q) /\ EntriesMeanAt(q)'
  BY EntriesMean, EntriesMeanNext
<1>2. PICK E : E = Entries(q)
  OBVIOUS
<1>3. PICK F : F = Entries(q)'
  OBVIOUS
<1>4. E = F
  <2>1. E \subseteq Place \X Event /\ F \subseteq Place \X Event
    BY <1>1, <1>2, <1>3 DEF EntriesMeanAt
  <2>2. \A h \in Place, w \in Event : <<h, w>> \in E <=> <<h, w>> \in F
    BY <1>1, <1>2, <1>3 DEF EntriesMeanAt
  <2> QED
    BY <2>1, <2>2
<1>5. Entries(q)' = Entries(q)
  BY <1>2, <1>3, <1>4
<1> QED
  BY <1>5 DEF PeerQueue, Queue, Queues

\* The queue of one peer changes, those of the others do not.
LEMMA OneQueue ==
  ASSUME NEW p \in Peer, \A q \in Peer \ {p} : PeerQueue(q)' = PeerQueue(q),
         NEW x, PeerQueue(p)' = x
  PROVE  Queued' = [Queued EXCEPT ![p] = x]
<1>1. Queued' = [q \in Peer |-> PeerQueue(q)']
  BY QueuedIs DEF Queued, PeerQueue, Queue
<1>2. Queued = [q \in Peer |-> PeerQueue(q)]
  BY QueuedIs
<1> QED
  BY <1>1, <1>2, Zenon

-----------------------------------------------------------------------------
(* Dates. *)

\* Epochs only grow, and an offer comes to owe an event at the present one.
LEMMA OffersNext ==
  ASSUME Inv, [Next]_vars
  PROVE  /\ epoch' = epoch \/ epoch' = epoch + 1
         /\ \A r \in Registry, g \in Global : IsPending(offers'[r][g]) =>
              offers'[r][g] = offers[r][g] \/ offers'[r][g].epoch = epoch'
<1> USE DEF Inv
<1> DEFINE Fresh == \A r \in Registry, g \in Global : IsPending(offers'[r][g]) =>
              offers'[r][g] = offers[r][g] \/ offers'[r][g].epoch = epoch'
<1> SUFFICES (epoch' = epoch \/ epoch' = epoch + 1) /\ Fresh
  OBVIOUS
<1>1. ASSUME UNCHANGED <<offers, epoch>>
      PROVE  epoch' = epoch /\ Fresh
  BY <1>1
<1>2. ASSUME NEW R \in SUBSET Registry, UnlinkAndCollect(R), epoch' = epoch
      PROVE  Fresh
  BY <1>2 DEF UnlinkAndCollect, Unlink, IsPending, NoOffer
<1>3. ASSUME NEW p \in Peer, NEW r \in Registry, Subscribe(p, r)
      PROVE  epoch' = epoch + 1 /\ Fresh
  BY <1>3 DEF Subscribe, TableTypes, IsPending, NoOffer
<1>4. ASSUME NEW p \in Peer, NEW r \in Registry, NEW g \in Global,
             AckGlobalRemove(p, r, g)
      PROVE  epoch' = epoch /\ Fresh
  BY <1>4 DEF AckGlobalRemove, TableTypes, IsPending, NoOffer
<1>5. CASE AddGlobal
  BY <1>5 DEF AddGlobal, TableTypes, IsPending
<1>6. ASSUME NEW g \in Global, RemoveGlobal(g)
      PROVE  epoch' = epoch + 1 /\ Fresh
  <2>1. epoch' = epoch + 1
    BY <1>6 DEF RemoveGlobal
  <2>2. ASSUME NEW r \in Registry
        PROVE  /\ offers'[r][g] = Retracted(offers[r][g], epoch')
               /\ \A h \in Global \ {g} : offers'[r][h] = offers[r][h]
    BY <1>6 DEF RemoveGlobal, TableTypes
  <2>3. ASSUME NEW offer, IsPending(Retracted(offer, epoch'))
        PROVE  Retracted(offer, epoch') = offer
               \/ Retracted(offer, epoch').epoch = epoch'
    BY <2>3 DEF Retracted, IsPending, NoOffer
  <2> QED
    BY <2>1, <2>2, <2>3
<1>7. ASSUME NEW p \in Peer, NEW r \in Registry, NEW g \in Global,
             SendOffer(p, r, g)
      PROVE  epoch' = epoch /\ Fresh
  BY <1>7 DEF SendOffer, Sent, Settled, TableTypes, IsPending
<1>8. ASSUME NEW p \in Peer, NEW r \in Registry,
             RemoveRegistry(p, r) \/ DropRegistry(p, r)
      PROVE  epoch' = epoch /\ Fresh
  BY <1>2, <1>8 DEF RemoveRegistry, DropRegistry
<1>9. ASSUME NEW p \in Peer, DestroyClient(p)
      PROVE  epoch' = epoch /\ Fresh
  <2>1. {r \in Registry : owner[r] = p} \in SUBSET Registry
    OBVIOUS
  <2> QED
    BY <1>2, <1>9, <2>1 DEF DestroyClient
<1>10. CASE UNCHANGED vars
  BY <1>1, <1>10 DEF vars, tableVars
<1>11. ASSUME NEW p \in Peer,
              \/ Connect(p) \/ Close(p) \/ Drain(p) \/ CompleteSync(p)
              \/ LoseCallback(p) \/ DropSync(p) \/ SendDone(p)
              \/ Block(p) \/ Skip(p)
       PROVE  epoch' = epoch /\ Fresh
  BY <1>1, <1>11 DEF Connect, Close, Drain, CompleteSync, LoseCallback, DropSync,
     SendDone, Block, Skip, tableVars
<1>12. CASE BeginPass \/ EndPass \/ AddGlobalFails
             \/ \E r \in Registry : LoseRegistry(r)
  BY <1>1, <1>12 DEF BeginPass, EndPass, AddGlobalFails, LoseRegistry, tableVars
<1> HIDE DEF Fresh
<1>13. CASE Publish
  BY <1>7, <1>8, <1>11, <1>12, <1>13 DEF Publish
<1> QED
  BY <1>3, <1>4, <1>5, <1>6, <1>8, <1>9, <1>10, <1>11, <1>12, <1>13 DEF Next

\* What the barriers of one peer wait for, up to epoch top.
InDates(bars, top) ==
  \A i \in DOMAIN bars :
    /\ bars[i].limit <= top
    /\ \A j \in DOMAIN bars : i <= j => bars[i].limit <= bars[j].limit

\* A later barrier waits for no less.
LEMMA AppendInDates ==
  ASSUME NEW bars \in Seq(Barrier), NEW top \in 0..MaxEpoch, InDates(bars, top),
         NEW new \in Barrier, new.limit = top
  PROVE  InDates(Append(bars, new), top)
<1>1. PICK more \in Seq(Barrier) :
        /\ more = Append(bars, new) /\ Len(more) = Len(bars) + 1
        /\ \A i \in 1..Len(bars) : more[i] = bars[i]
        /\ more[Len(bars) + 1] = new
  BY AppendProperties
<1>2. ASSUME NEW i \in 1..Len(bars) PROVE bars[i].limit \in Nat
  <2>1. bars[i] \in Barrier
    OBVIOUS
  <2> QED
    BY <2>1, BoundAssumption DEF Barrier
<1>3. top \in Nat
  BY BoundAssumption
<1>4. \A i \in 1..(Len(bars) + 1) : i \in 1..Len(bars) \/ i = Len(bars) + 1
  OBVIOUS
<1>5. ASSUME NEW i \in 1..(Len(bars) + 1)
      PROVE  more[i].limit <= top
  BY <1>1, <1>3, <1>4 DEF InDates
<1>6. ASSUME NEW i \in 1..(Len(bars) + 1), NEW j \in 1..(Len(bars) + 1), i <= j
      PROVE  more[i].limit <= more[j].limit
  <2>1. CASE j = Len(bars) + 1
    BY <1>1, <1>5, <2>1
  <2>2. CASE j # Len(bars) + 1
    <3>1. i \in 1..Len(bars) /\ j \in 1..Len(bars)
      BY <1>6, <2>2
    <3> QED
      BY <1>1, <1>6, <3>1 DEF InDates
  <2> QED
    BY <2>1, <2>2
<1>7. InDates(more, top)
  <2>1. DOMAIN more = 1..(Len(bars) + 1)
    BY <1>1
  <2> QED
    BY <1>5, <1>6, <2>1 DEF InDates
<1> QED
  BY <1>1, <1>7

\* The barriers behind the first are in order, too.
LEMMA TailInDates ==
  ASSUME NEW bars \in Seq(Barrier), bars # <<>>, NEW top, InDates(bars, top)
  PROVE  InDates(Tail(bars), top)
<1>1. PICK rest \in Seq(Barrier) :
        /\ rest = Tail(bars) /\ Len(rest) = Len(bars) - 1
        /\ \A i \in 1..Len(rest) : rest[i] = bars[i + 1]
  BY HeadTailProperties
<1>2. \A i \in 1..Len(rest) : i + 1 \in DOMAIN bars
  BY <1>1
<1>3. \A i, j \in 1..Len(rest) : i <= j => i + 1 <= j + 1
  OBVIOUS
<1>4. InDates(rest, top)
  BY <1>1, <1>2, <1>3 DEF InDates
<1> QED
  BY <1>1, <1>4

\* Barriers and offers stay in the order of the epochs.
LEMMA DatedNext ==
  ASSUME Inv, SyncTypes, Dated, [Next]_vars
  PROVE  Dated'
<1>1. epoch \in 0..MaxEpoch /\ (epoch' = epoch \/ epoch' = epoch + 1)
  BY OffersNext DEF Inv, TableTypes
<1>2. ASSUME NEW r \in Registry, NEW g \in Global, IsPending(offers'[r][g])
      PROVE  offers'[r][g].epoch <= epoch'
  <2>1. CASE offers'[r][g] = offers[r][g]
    <3>1. offers[r][g].epoch \in Nat /\ offers[r][g].epoch <= epoch
      BY <1>2, <2>1, BoundAssumption DEF Dated, Inv, TableTypes
    <3> QED
      BY <1>1, <2>1, <3>1, BoundAssumption
  <2>2. CASE offers'[r][g].epoch = epoch'
    BY <1>1, <2>2, BoundAssumption
  <2> QED
    BY <1>2, <2>1, <2>2, OffersNext
<1>3. \A p \in Peer : syncs[p] \in Seq(Barrier) /\ InDates(syncs[p], epoch)
  BY DEF SyncTypes, Dated, InDates
<1>4. ASSUME NEW p \in Peer, NEW bars \in Seq(Barrier), InDates(bars, epoch)
      PROVE  InDates(bars, epoch')
  <2>1. ASSUME NEW i \in DOMAIN bars PROVE bars[i].limit \in Nat
    <3>1. bars[i] \in Barrier
      OBVIOUS
    <3> QED
      BY <3>1, BoundAssumption DEF Barrier
  <2>2. epoch \in Nat
    BY <1>1, BoundAssumption
  <2> QED
    BY <1>1, <1>4, <2>1, <2>2 DEF InDates
<1>5. ASSUME NEW p \in Peer
      PROVE  InDates(syncs'[p], epoch')
  <2>1. CASE syncs'[p] = syncs[p]
    BY <1>3, <1>4, <2>1
  <2>2. ASSUME NEW q \in Peer, syncs' = [syncs EXCEPT ![q] = <<>>]
        PROVE  InDates(syncs'[p], epoch')
    <3>1. CASE p = q
      <4>1. syncs'[p] = <<>>
        BY <2>2, <3>1 DEF SyncTypes
      <4> QED
        BY <4>1 DEF InDates
    <3>2. CASE p # q
      BY <2>1, <2>2, <3>2 DEF SyncTypes
    <3> QED
      BY <3>1, <3>2
  <2>3. ASSUME NEW q \in Peer,
               syncs' = [syncs EXCEPT ![q] =
                           Append(@, [limit |-> epoch, alive |-> TRUE])]
        PROVE  InDates(syncs'[p], epoch')
    <3>1. CASE p = q
      <4>1. PICK bars : bars = Append(syncs[p], [limit |-> epoch, alive |-> TRUE])
        OBVIOUS
      <4>2. syncs'[p] = bars
        BY <2>3, <3>1, <4>1 DEF SyncTypes
      <4>3. PICK new \in Barrier : new = [limit |-> epoch, alive |-> TRUE]
        BY <1>1 DEF Barrier
      <4>4. bars = Append(syncs[p], new) /\ new.limit = epoch
        BY <4>1, <4>3
      <4>5. InDates(bars, epoch)
        BY <1>1, <1>3, <4>4, AppendInDates
      <4>6. bars \in Seq(Barrier)
        BY <1>3, <4>4, AppendProperties
      <4> QED
        BY <1>4, <4>2, <4>5, <4>6
    <3>2. CASE p # q
      BY <2>1, <2>3, <3>2 DEF SyncTypes
    <3> QED
      BY <3>1, <3>2
  <2>4. ASSUME NEW q \in Peer, LoseCallback(q)
        PROVE  InDates(syncs'[p], epoch')
    <3>1. CASE p = q
      <4>1. PICK i \in DOMAIN syncs[p] :
              syncs' = [syncs EXCEPT ![p][i].alive = FALSE]
        BY <2>4, <3>1 DEF LoseCallback
      <4>2. PICK bars : bars = syncs[p]
        OBVIOUS
      <4>3. PICK lost : lost = syncs'[p]
        OBVIOUS
      <4>4. lost = [bars EXCEPT ![i] = [bars[i] EXCEPT !.alive = FALSE]]
        BY <4>1, <4>2, <4>3 DEF SyncTypes
      <4>5. bars \in Seq(Barrier) /\ InDates(bars, epoch) /\ i \in DOMAIN bars
        BY <1>3, <4>1, <4>2
      <4>6. [bars[i] EXCEPT !.alive = FALSE] \in Barrier
            /\ [bars[i] EXCEPT !.alive = FALSE].limit = bars[i].limit
        <5>1. bars[i] \in Barrier
          BY <4>5
        <5> QED
          BY <5>1 DEF Barrier
      <4>7. /\ lost \in Seq(Barrier) /\ DOMAIN lost = DOMAIN bars
            /\ \A j \in DOMAIN bars : lost[j].limit = bars[j].limit
        BY <4>4, <4>5, <4>6
      <4>8. InDates(lost, epoch)
        BY <4>5, <4>7 DEF InDates
      <4> QED
        BY <1>4, <4>3, <4>7, <4>8
    <3>2. CASE p # q
      BY <2>1, <2>4, <3>2 DEF SyncTypes, LoseCallback
    <3> QED
      BY <3>1, <3>2
  <2>5. ASSUME NEW q \in Peer, syncs[q] # <<>>,
               syncs' = [syncs EXCEPT ![q] = Tail(@)]
        PROVE  InDates(syncs'[p], epoch')
    <3>1. CASE p = q
      <4>1. PICK bars : bars = Tail(syncs[p])
        OBVIOUS
      <4>2. syncs'[p] = bars
        BY <2>5, <3>1, <4>1 DEF SyncTypes
      <4>3. InDates(bars, epoch) /\ bars \in Seq(Barrier)
        BY <1>3, <2>5, <3>1, <4>1, TailInDates, HeadTailProperties
      <4> QED
        BY <1>4, <4>2, <4>3
    <3>2. CASE p # q
      BY <2>1, <2>5, <3>2 DEF SyncTypes
    <3> QED
      BY <3>1, <3>2
  <2> QED
    BY <2>1, <2>2, <2>3, <2>4, <2>5, SyncsNext
<1> QED
  BY <1>2, <1>5 DEF Dated, InDates

-----------------------------------------------------------------------------
(* One step. *)

\* A step of the model is one of the abstraction, or none.
Refines == Listed' /\ [Clients!Next]_(Clients!vars)

\* Where the entries of a peer are: not later than now, and its barriers behind
\* what was owed before.
LEMMA EntriesDated ==
  ASSUME OrderInv, NEW p \in Peer, NEW x \in Entries(p)
  PROVE  /\ x[1] \in Place /\ x[2] \in Event /\ x = <<x[1], x[2]>>
         /\ x[1][1] <= epoch
         /\ x[1][2] = 0 \/ x[1][2] \in DOMAIN syncs[p]
<1>1. EntriesMeanAt(p)
  BY EntriesMean DEF OrderInv, OrderTypes, Inv
<1>2. PICK h \in Place, w \in Event : x = <<h, w>>
  BY <1>1 DEF EntriesMeanAt
<1>3. OffersAt(p, h, w) \/ AnswersAt(p, h, w)
  BY <1>1, <1>2 DEF EntriesMeanAt
<1>4. CASE OffersAt(p, h, w)
  BY <1>2, <1>4 DEF OffersAt, OrderInv, Dated
<1>5. CASE AnswersAt(p, h, w)
  BY <1>2, <1>5 DEF AnswersAt, OrderInv, Dated
<1> QED
  BY <1>2, <1>3, <1>4, <1>5

\* A step that changes no queue and nothing else of the abstraction.
LEMMA QuietStep ==
  ASSUME OrderInv, UNCHANGED <<globals, nextName>>,
         ListeningPeers' = ListeningPeers, Announced' = Announced,
         \A q \in Peer : /\ Queues(Entries(q)) => Queues(Entries(q))'
                         /\ PeerQueue(q)' = PeerQueue(q)
  PROVE  Refines
<1>1. Listed'
  BY DEF OrderInv, Listed
<1>2. Queued' = Queued
  <2>1. Queued' = [q \in Peer |-> PeerQueue(q)']
    BY DEF Queued, PeerQueue, Queue
  <2>2. Queued = [q \in Peer |-> PeerQueue(q)]
    BY QueuedIs
  <2> QED
    BY <2>1, <2>2
<1>3. NamesUsed' = NamesUsed
  BY DEF NamesUsed
<1> QED
  BY <1>1, <1>2, <1>3 DEF Refines, Clients!vars

\* A step that leaves the barriers and the tables alone.
LEMMA IdleStep ==
  ASSUME OrderInv, OrderTypes', UNCHANGED <<syncs, tableVars>>
  PROVE  Refines
<1>1. UNCHANGED <<owner, object, offers, globals, removed, nextName, epoch, syncs>>
  BY DEF tableVars
<1>2. ListeningPeers' = ListeningPeers /\ Announced' = Announced
  BY <1>1 DEF ListeningPeers, Announced
<1>3. ASSUME NEW q \in Peer
      PROVE  /\ Queues(Entries(q)) => Queues(Entries(q))'
             /\ PeerQueue(q)' = PeerQueue(q)
  <2>1. \A h, w : OffersAt(q, h, w)' <=> OffersAt(q, h, w)
    BY <1>1 DEF OffersAt
  <2>2. \A h, w : AnswersAt(q, h, w)' <=> AnswersAt(q, h, w)
    BY <1>1 DEF AnswersAt
  <2> QED
    BY <2>1, <2>2, SameQueue DEF OrderInv, OrderTypes, Inv
<1> QED
  BY <1>1, <1>2, <1>3, QuietStep

\* A registry that is gone owes nothing, so its subscription is dropped unseen.
LEMMA DropRegistryRefines ==
  ASSUME OrderInv, OrderTypes', NEW p \in Peer, NEW r \in Registry,
         DropRegistry(p, r)
  PROVE  Refines
<1>1. /\ ~object[r] /\ Unlink({r}) /\ UNCHANGED <<globals, nextName, syncs>>
  BY DEF DropRegistry, UnlinkAndCollect
<1>2. \A q \in Registry : q # r =>
        owner'[q] = owner[q] /\ (object'[q] <=> object[q]) /\ offers'[q] = offers[q]
  BY <1>1 DEF Unlink
<1>3. ~object'[r]
  BY <1>1 DEF Unlink
<1>4. ListeningPeers' = ListeningPeers
  <2>1. ASSUME NEW q \in Registry
        PROVE  (IF object'[q] THEN owner'[q] ELSE NoPeer)
                 = IF object[q] THEN owner[q] ELSE NoPeer
    BY <1>1, <1>2, <1>3
  <2> QED
    BY <2>1 DEF ListeningPeers
<1>5. Announced' = Announced
  <2>1. ASSUME NEW x \in Registry \X Global
        PROVE  (/\ object'[x[1]]
                /\ offers'[x[1]][x[2]].state \in {"offered", "remove_pending"})
               <=> (/\ object[x[1]]
                    /\ offers[x[1]][x[2]].state \in {"offered", "remove_pending"})
    BY <1>1, <1>2, <1>3
  <2> QED
    BY <2>1 DEF Announced
<1>6. ASSUME NEW q \in Peer
      PROVE  /\ Queues(Entries(q)) => Queues(Entries(q))'
             /\ PeerQueue(q)' = PeerQueue(q)
  <2>1. \A s \in Registry : owner'[s] = q /\ object'[s] <=> owner[s] = q /\ object[s]
    BY <1>1, <1>2, <1>3
  <2>2. \A s \in Registry, g \in Global : owner[s] = q /\ object[s] =>
           /\ IsPending(offers'[s][g]) <=> IsPending(offers[s][g])
           /\ IsPending(offers[s][g]) => offers'[s][g] = offers[s][g]
    BY <1>1, <1>2
  <2>3. \A h, w : OffersAt(q, h, w)' <=> OffersAt(q, h, w)
    BY <2>1, <2>2, SameOffers
  <2>4. \A h, w : AnswersAt(q, h, w)' <=> AnswersAt(q, h, w)
    BY <1>1, SameAnswers
  <2> QED
    BY <2>3, <2>4, SameQueue DEF OrderInv, OrderTypes, Inv
<1> QED
  BY <1>1, <1>4, <1>5, <1>6, QuietStep

\* An acknowledged offer owed nothing any more.
LEMMA AckRefines ==
  ASSUME OrderInv, OrderTypes', NEW p \in Peer, NEW r \in Registry,
         NEW g \in Global, AckGlobalRemove(p, r, g)
  PROVE  Refines
<1>1. /\ offers[r][g].state = "removal_sent"
      /\ offers' = [offers EXCEPT ![r][g] = NoOffer]
      /\ UNCHANGED <<owner, object, globals, nextName, syncs>>
  BY DEF AckGlobalRemove
<1>2. /\ offers'[r][g] = NoOffer
      /\ \A s \in Registry, h \in Global : <<s, h>> # <<r, g>> =>
           offers'[s][h] = offers[s][h]
  BY <1>1 DEF OrderInv, Inv, TableTypes
<1>3. ListeningPeers' = ListeningPeers
  BY <1>1 DEF ListeningPeers
<1>4. Announced' = Announced
  <2>1. ASSUME NEW s \in Registry, NEW h \in Global
        PROVE  offers'[s][h].state \in {"offered", "remove_pending"}
               <=> offers[s][h].state \in {"offered", "remove_pending"}
    BY <1>1, <1>2 DEF NoOffer
  <2> QED
    BY <1>1, <2>1 DEF Announced
<1>5. ASSUME NEW q \in Peer
      PROVE  /\ Queues(Entries(q)) => Queues(Entries(q))'
             /\ PeerQueue(q)' = PeerQueue(q)
  <2>1. \A s \in Registry, h \in Global : owner[s] = q /\ object[s] =>
           /\ IsPending(offers'[s][h]) <=> IsPending(offers[s][h])
           /\ IsPending(offers[s][h]) => offers'[s][h] = offers[s][h]
    BY <1>1, <1>2 DEF NoOffer, IsPending
  <2>2. \A h, w : OffersAt(q, h, w)' <=> OffersAt(q, h, w)
    BY <1>1, <2>1, SameOffers
  <2>3. \A h, w : AnswersAt(q, h, w)' <=> AnswersAt(q, h, w)
    BY <1>1, SameAnswers
  <2> QED
    BY <2>2, <2>3, SameQueue DEF OrderInv, OrderTypes, Inv
<1> QED
  BY <1>1, <1>3, <1>4, <1>5, QuietStep

\* Only the queue of one peer changes.
LEMMA OnlyQueue ==
  ASSUME OrderInv, OrderTypes', NEW p \in Peer,
         \A q \in Peer \ {p} : \A h, w : OffersAt(q, h, w)' <=> OffersAt(q, h, w),
         \A q \in Peer \ {p} : syncs'[q] = syncs[q],
         NEW x, PeerQueue(p)' = x, Queues(Entries(p))'
  PROVE  Listed' /\ Queued' = [Queued EXCEPT ![p] = x]
<1>1. ASSUME NEW q \in Peer \ {p}
      PROVE  Queues(Entries(q))' /\ PeerQueue(q)' = PeerQueue(q)
  <2>1. \A h, w : AnswersAt(q, h, w)' <=> AnswersAt(q, h, w)
    BY SameAnswers
  <2>2. \A h, w : OffersAt(q, h, w)' <=> OffersAt(q, h, w)
    OBVIOUS
  <2> QED
    BY <2>1, <2>2, SameQueue DEF OrderInv, OrderTypes, Inv, Listed
<1>2. Listed'
  BY <1>1 DEF Listed
<1>3. Queued' = [Queued EXCEPT ![p] = x]
  BY <1>1, OneQueue
<1> QED
  BY <1>2, <1>3

\* The entries of a peer, before and after a step.
LEMMA EntriesStep ==
  ASSUME OrderInv, OrderTypes', NEW p \in Peer
  PROVE  /\ Entries(p) \subseteq Place \X Event /\ Queues(Entries(p))
         /\ Entries(p)' \subseteq Place \X Event
         /\ \A h \in Place, w \in Event :
              <<h, w>> \in Entries(p) <=> OffersAt(p, h, w) \/ AnswersAt(p, h, w)
         /\ \A h \in Place, w \in Event :
              <<h, w>> \in Entries(p)' <=> OffersAt(p, h, w)' \/ AnswersAt(p, h, w)'
BY EntriesMean, EntriesMeanNext
   DEF EntriesMeanAt, OrderInv, OrderTypes, Inv, Listed

\* The initial listing of a registry is one batch at the end of the queue.
LEMMA SubscribeRefines ==
  ASSUME OrderInv, OrderTypes', NEW p \in Peer, NEW r \in Registry,
         Subscribe(p, r)
  PROVE  Refines
<1>1. /\ owner[r] = NoPeer /\ p # NoPeer
      /\ owner' = [owner EXCEPT ![r] = p]
      /\ object' = [object EXCEPT ![r] = TRUE]
      /\ epoch' = epoch + 1 /\ epoch \in Nat
      /\ UNCHANGED <<globals, nextName, syncs>>
  BY SlotAssumption, BoundAssumption
     DEF Subscribe, OrderInv, Inv, TableTypes, Peer, NoPeer
<1>2. offers' = [offers EXCEPT ![r] = [g \in Global |->
        IF g \in globals /\ <<p, g>> \in Visible
        THEN [state |-> "add_pending", epoch |-> epoch'] ELSE NoOffer]]
  BY DEF Subscribe
<1>3. /\ ~object[r] /\ object'[r] /\ owner'[r] = p
      /\ \A s \in Registry : s # r => /\ owner'[s] = owner[s]
                                      /\ object'[s] <=> object[s]
                                      /\ offers'[s] = offers[s]
  BY <1>1, <1>2 DEF OrderInv, Inv, TableTypes, OwnersHold
<1>4. \A g \in Global : offers'[r][g] =
        IF g \in globals /\ <<p, g>> \in Visible
        THEN [state |-> "add_pending", epoch |-> epoch'] ELSE NoOffer
  BY <1>2 DEF OrderInv, Inv, TableTypes
<1> DEFINE visible == {g \in globals : <<p, g>> \in Visible}
           batch == Clients!Adds({r}, visible)
           k == <<epoch', 0>>
<1>5. /\ batch \in SUBSET Event /\ k \in Place
      /\ \A w : w \in batch <=> \E g \in Global :
           g \in globals /\ <<p, g>> \in Visible /\ w = Clients!Add(r, g)
  <2>1. globals \subseteq Global
    BY DEF OrderInv, Inv, TableTypes
  <2>2. k \in Place
    BY <1>1 DEF Place
  <2>3. ASSUME NEW w
        PROVE  w \in batch <=> \E g \in Global :
                 g \in globals /\ <<p, g>> \in Visible /\ w = Clients!Add(r, g)
    <3>1. batch = {Clients!Add(s, g) : s \in {r}, g \in visible}
      BY DEF Clients!Adds
    <3>2. ASSUME w \in batch
          PROVE  \E g \in Global :
                   g \in globals /\ <<p, g>> \in Visible /\ w = Clients!Add(r, g)
      <4>1. PICK s \in {r}, g \in visible : w = Clients!Add(s, g)
        BY <3>1, <3>2
      <4> QED
        BY <2>1, <4>1
    <3>3. ASSUME NEW g \in Global, g \in globals, <<p, g>> \in Visible
          PROVE  Clients!Add(r, g) \in batch
      BY <3>1, <3>3
    <3> QED
      BY <3>2, <3>3
  <2>4. batch \in SUBSET Event
    <3> HIDE DEF batch
    <3> SUFFICES ASSUME NEW w \in batch PROVE w \in Event
      OBVIOUS
    <3>1. PICK g \in Global : w = Clients!Add(r, g)
      BY <2>3
    <3> QED
      BY <3>1 DEF Event
  <2> HIDE DEF batch
  <2> QED
    BY <2>2, <2>3, <2>4
<1> HIDE DEF batch
<1>6. ASSUME NEW h, NEW w
      PROVE  OffersAt(p, h, w)' <=> OffersAt(p, h, w) \/ (h = k /\ w \in batch)
  <2>1. ASSUME OffersAt(p, h, w)
        PROVE  OffersAt(p, h, w)'
    <3>1. PICK s \in Registry, g \in Global :
            /\ owner[s] = p /\ object[s] /\ IsPending(offers[s][g])
            /\ h = <<offers[s][g].epoch, 0>>
            /\ w = IF offers[s][g].state = "add_pending" THEN Clients!Add(s, g)
                                                         ELSE Clients!Remove(s, g)
      BY <2>1 DEF OffersAt
    <3>2. s # r
      BY <1>1, <3>1
    <3> QED
      BY <1>3, <3>1, <3>2 DEF OffersAt
  <2>2. ASSUME h = k, w \in batch
        PROVE  OffersAt(p, h, w)'
    <3>1. PICK g \in Global :
            g \in globals /\ <<p, g>> \in Visible /\ w = Clients!Add(r, g)
      BY <1>5, <2>2
    <3>2. offers'[r][g] = [state |-> "add_pending", epoch |-> epoch']
      BY <1>4, <3>1
    <3> QED
      BY <1>3, <2>2, <3>1, <3>2 DEF OffersAt, IsPending
  <2>3. ASSUME OffersAt(p, h, w)'
        PROVE  OffersAt(p, h, w) \/ (h = k /\ w \in batch)
    <3>1. PICK s \in Registry, g \in Global :
            /\ owner'[s] = p /\ object'[s] /\ IsPending(offers'[s][g])
            /\ h = <<offers'[s][g].epoch, 0>>
            /\ w = IF offers'[s][g].state = "add_pending" THEN Clients!Add(s, g)
                                                          ELSE Clients!Remove(s, g)
      BY <2>3 DEF OffersAt
    <3>2. CASE s = r
      <4>1. /\ g \in globals /\ <<p, g>> \in Visible
            /\ offers'[r][g] = [state |-> "add_pending", epoch |-> epoch']
        BY <1>4, <3>1, <3>2 DEF IsPending, NoOffer
      <4> QED
        BY <1>5, <3>1, <3>2, <4>1
    <3>3. CASE s # r
      BY <1>3, <3>1, <3>3 DEF OffersAt
    <3> QED
      BY <3>2, <3>3
  <2> QED
    BY <2>1, <2>2, <2>3
<1>7. \A h, w : AnswersAt(p, h, w)' <=> AnswersAt(p, h, w)
  BY <1>1, SameAnswers
<1>8. PICK E : E = Entries(p)
  OBVIOUS
<1>9. PICK F : F = Entries(p)'
  OBVIOUS
<1>10. /\ E \subseteq Place \X Event /\ Queues(E) /\ F \subseteq Place \X Event
       /\ \A h \in Place, w \in Event :
            <<h, w>> \in F <=> <<h, w>> \in E \/ (h = k /\ w \in batch)
  BY <1>6, <1>7, <1>8, <1>9, EntriesStep
<1>11. \A e \in E : Precedes(e[1], k)
  BY <1>1, <1>8, EntriesDated DEF Precedes, Place
<1> HIDE DEF k
<1>12. Queues(F) /\ Queue(F) = Clients!Put(Queue(E), batch)
  <2>1. Puts(F, E, k, batch, Event)
    BY <1>5, <1>10, <1>11 DEF Puts
  <2> QED
    BY <1>10, <2>1, PutQueued
<1>13. ASSUME NEW q \in Peer \ {p}
       PROVE  \A h, w : OffersAt(q, h, w)' <=> OffersAt(q, h, w)
  <2>1. q # NoPeer
    BY SlotAssumption DEF Peer, NoPeer
  <2>2. \A s \in Registry : owner'[s] = q /\ object'[s] <=> owner[s] = q /\ object[s]
    BY <1>1, <1>3, <2>1
  <2>3. \A s \in Registry, g \in Global : owner[s] = q /\ object[s] =>
           /\ IsPending(offers'[s][g]) <=> IsPending(offers[s][g])
           /\ IsPending(offers[s][g]) => offers'[s][g] = offers[s][g]
    BY <1>3
  <2> QED
    BY <2>2, <2>3, SameOffers
<1>14. Listed' /\ Queued' = [Queued EXCEPT ![p] = Clients!Put(PeerQueue(p), batch)]
  <2>1. PeerQueue(p)' = Clients!Put(PeerQueue(p), batch) /\ Queues(Entries(p))'
    BY <1>8, <1>9, <1>12 DEF PeerQueue, Queue, Queues
  <2>2. \A q \in Peer \ {p} : syncs'[q] = syncs[q]
    BY <1>1
  <2> QED
    BY <1>13, <2>1, <2>2, OnlyQueue
<1>15. Clients!Subscribe(p, r)
  <2>1. ListeningPeers[r] = NoPeer
    BY <1>3 DEF ListeningPeers
  <2>2. ListeningPeers' = [ListeningPeers EXCEPT ![r] = p]
    <3>1. ASSUME NEW s \in Registry
          PROVE  (IF object'[s] THEN owner'[s] ELSE NoPeer)
                   = IF s = r THEN p ELSE IF object[s] THEN owner[s] ELSE NoPeer
      BY <1>3
    <3> QED
      BY <3>1 DEF ListeningPeers
  <2>3. Announced' = Announced
    <3>1. ASSUME NEW g \in Global
          PROVE  offers'[r][g].state \in {"add_pending", "none"}
      <4>1. CASE g \in globals /\ <<p, g>> \in Visible
        BY <1>4, <4>1
      <4>2. CASE ~(g \in globals /\ <<p, g>> \in Visible)
        <5>1. offers'[r][g] = NoOffer
          BY <1>4, <4>2
        <5> QED
          BY <5>1 DEF NoOffer
      <4> QED
        BY <4>1, <4>2
    <3>2. ASSUME NEW s \in Registry, NEW g \in Global
          PROVE  (/\ object'[s]
                  /\ offers'[s][g].state \in {"offered", "remove_pending"})
                 <=> (/\ object[s]
                      /\ offers[s][g].state \in {"offered", "remove_pending"})
      <4>1. CASE s = r
        BY <1>3, <3>1, <4>1
      <4>2. CASE s # r
        BY <1>3, <4>2
      <4> QED
        BY <4>1, <4>2
    <3> QED
      BY <3>2 DEF Announced
  <2>4. Queued[p] = PeerQueue(p)
    BY QueuedIs
  <2>5. NamesUsed' = NamesUsed /\ globals' = globals
    BY <1>1 DEF NamesUsed
  <2> QED
    BY <1>14, <2>1, <2>2, <2>3, <2>4, <2>5 DEF Clients!Subscribe, batch
<1> QED
  BY <1>14, <1>15 DEF Refines, Clients!Next

\* The answer to a sync is one batch at the end of the queue.
LEMMA CompleteSyncRefines ==
  ASSUME OrderInv, OrderTypes', NEW p \in Peer, CompleteSync(p)
  PROVE  Refines
<1>1. /\ syncs' = [syncs EXCEPT ![p] = Append(@, [limit |-> epoch, alive |-> TRUE])]
      /\ UNCHANGED <<owner, object, offers, globals, nextName>>
      /\ epoch \in Nat /\ epoch \in 0..MaxEpoch
  BY BoundAssumption DEF CompleteSync, tableVars, OrderInv, Inv, TableTypes
<1>2. PICK bars \in Seq(Barrier) : bars = syncs[p]
  BY DEF OrderInv, SyncTypes
<1>3. PICK more : more = syncs'[p]
  OBVIOUS
<1>4. PICK n \in Nat : n = Len(bars)
  OBVIOUS
<1>5. /\ Len(more) = n + 1 /\ DOMAIN more = 1..(n + 1) /\ DOMAIN bars = 1..n
      /\ \A i \in 1..n : more[i] = bars[i]
      /\ more[n + 1].limit = epoch /\ more[n + 1].alive
  <2>1. PICK new \in Barrier : new = [limit |-> epoch, alive |-> TRUE]
    BY <1>1 DEF Barrier
  <2>2. syncs'[p] = Append(bars, [limit |-> epoch, alive |-> TRUE])
    BY <1>1, <1>2 DEF OrderInv, SyncTypes
  <2>3. more = Append(bars, new)
    BY <1>3, <2>1, <2>2
  <2>4. /\ more \in Seq(Barrier) /\ Len(more) = n + 1
        /\ \A i \in 1..n : more[i] = bars[i]
        /\ more[n + 1] = new
    BY <1>4, <2>3, AppendProperties
  <2>5. new.limit = epoch /\ new.alive
    BY <2>1
  <2> QED
    BY <1>4, <2>4, <2>5
<1> DEFINE k == <<epoch, n + 1>>
           batch == {Clients!Done}
<1>6. ASSUME NEW h, NEW w
      PROVE  AnswersAt(p, h, w)' <=> AnswersAt(p, h, w) \/ (h = k /\ w \in batch)
  <2>1. AnswersAt(p, h, w) <=>
          w = Clients!Done /\ \E i \in 1..n : bars[i].alive /\ h = <<bars[i].limit, i>>
    BY <1>2, <1>5 DEF AnswersAt
  <2>2. AnswersAt(p, h, w)' <=>
          /\ w = Clients!Done
          /\ \E i \in 1..(n + 1) : more[i].alive /\ h = <<more[i].limit, i>>
    BY <1>3, <1>5 DEF AnswersAt
  <2>3. \A i \in 1..(n + 1) : i \in 1..n \/ i = n + 1
    OBVIOUS
  <2>4. n + 1 \in 1..(n + 1) /\ \A i \in 1..n : i \in 1..(n + 1)
    OBVIOUS
  <2>5. ASSUME NEW i \in 1..(n + 1), more[i].alive, h = <<more[i].limit, i>>
        PROVE  h = k \/ \E j \in 1..n : bars[j].alive /\ h = <<bars[j].limit, j>>
    BY <1>5, <2>3, <2>5
  <2>6. ASSUME NEW i \in 1..n, bars[i].alive, h = <<bars[i].limit, i>>
        PROVE  \E j \in 1..(n + 1) : more[j].alive /\ h = <<more[j].limit, j>>
    BY <1>5, <2>4, <2>6
  <2>7. h = k => \E j \in 1..(n + 1) : more[j].alive /\ h = <<more[j].limit, j>>
    BY <1>5, <2>4
  <2> QED
    BY <2>1, <2>2, <2>5, <2>6, <2>7
<1>7. ASSUME NEW q \in Peer
      PROVE  \A h, w : OffersAt(q, h, w)' <=> OffersAt(q, h, w)
  BY <1>1, SameOffers
<1>8. PICK E : E = Entries(p)
  OBVIOUS
<1>9. PICK F : F = Entries(p)'
  OBVIOUS
<1>10. /\ E \subseteq Place \X Event /\ Queues(E) /\ F \subseteq Place \X Event
       /\ \A h \in Place, w \in Event :
            <<h, w>> \in F <=> <<h, w>> \in E \/ (h = k /\ w \in batch)
  BY <1>6, <1>7, <1>8, <1>9, EntriesStep
<1>11. \A e \in E : Precedes(e[1], k)
  <2> SUFFICES ASSUME NEW e \in E PROVE Precedes(e[1], k)
    OBVIOUS
  <2>1. /\ e[1] \in Place /\ e[1][1] <= epoch
        /\ e[1][2] = 0 \/ e[1][2] \in DOMAIN bars
    BY <1>2, <1>8, EntriesDated
  <2>2. e[1][1] \in Nat /\ e[1][2] \in Nat /\ e[1][2] < n + 1
    BY <1>5, <2>1 DEF Place
  <2> QED
    BY <1>1, <2>1, <2>2 DEF Precedes
<1>12. batch \in SUBSET Event /\ batch # {} /\ k \in Place
  BY <1>1 DEF Event, Place
<1> HIDE DEF k, batch
<1>13. Queues(F) /\ Queue(F) = Clients!Put(Queue(E), batch)
  <2>1. Puts(F, E, k, batch, Event)
    BY <1>10, <1>11, <1>12 DEF Puts
  <2> QED
    BY <1>10, <2>1, PutQueued
<1>14. Listed' /\ Queued' = [Queued EXCEPT ![p] = Clients!Put(PeerQueue(p), batch)]
  <2>1. PeerQueue(p)' = Clients!Put(PeerQueue(p), batch) /\ Queues(Entries(p))'
    BY <1>8, <1>9, <1>13 DEF PeerQueue, Queue, Queues
  <2>2. \A q \in Peer \ {p} : syncs'[q] = syncs[q]
    BY <1>1 DEF OrderInv, SyncTypes
  <2> QED
    BY <1>7, <2>1, <2>2, OnlyQueue
<1>15. Clients!Sync(p)
  <2>1. ListeningPeers' = ListeningPeers /\ Announced' = Announced
    BY <1>1 DEF ListeningPeers, Announced
  <2>2. NamesUsed' = NamesUsed /\ globals' = globals
    BY <1>1 DEF NamesUsed
  <2>3. Clients!Put(PeerQueue(p), batch) = Append(Queued[p], {Clients!Done})
    BY <1>12, QueuedIs DEF Clients!Put, batch
  <2> QED
    BY <1>14, <2>1, <2>2, <2>3 DEF Clients!Sync
<1> QED
  BY <1>14, <1>15 DEF Refines, Clients!Next

\* The answer to a lost callback is taken out of the queue.
LEMMA LoseCallbackRefines ==
  ASSUME OrderInv, OrderTypes', NEW p \in Peer, LoseCallback(p)
  PROVE  Refines
<1>1. PICK i \in DOMAIN syncs[p] :
        /\ syncs[p][i].alive
        /\ syncs' = [syncs EXCEPT ![p][i].alive = FALSE]
        /\ UNCHANGED <<owner, object, offers, globals, nextName>>
  BY DEF LoseCallback, tableVars
<1>2. PICK bars \in Seq(Barrier) : bars = syncs[p]
  BY DEF OrderInv, SyncTypes
<1>3. PICK lost : lost = syncs'[p]
  OBVIOUS
<1>4. /\ DOMAIN lost = DOMAIN bars /\ i \in DOMAIN bars /\ bars[i].alive
      /\ \A j \in DOMAIN bars : lost[j].limit = bars[j].limit
      /\ \A j \in DOMAIN bars : j # i => lost[j] = bars[j]
      /\ ~lost[i].alive
  <2>1. lost = [bars EXCEPT ![i] = [bars[i] EXCEPT !.alive = FALSE]]
    BY <1>1, <1>2, <1>3 DEF OrderInv, SyncTypes
  <2>2. bars[i] \in Barrier
    BY <1>1, <1>2
  <2>3. [bars[i] EXCEPT !.alive = FALSE].limit = bars[i].limit
        /\ ~[bars[i] EXCEPT !.alive = FALSE].alive
    BY <2>2 DEF Barrier
  <2>4. /\ DOMAIN lost = DOMAIN bars /\ i \in DOMAIN bars /\ bars[i].alive
        /\ \A j \in DOMAIN bars : j # i => lost[j] = bars[j]
        /\ lost[i] = [bars[i] EXCEPT !.alive = FALSE]
    BY <1>1, <1>2, <2>1
  <2> QED
    BY <2>3, <2>4
<1>5. i \in Nat \ {0} /\ bars[i].limit \in Nat
  <2>1. bars[i] \in Barrier
    BY <1>4
  <2> QED
    BY <1>4, <2>1, BoundAssumption DEF Barrier
<1> DEFINE k == <<bars[i].limit, i>>
<1>6. ASSUME NEW h, NEW w
      PROVE  AnswersAt(p, h, w)' <=> AnswersAt(p, h, w) /\ h # k
  <2>1. AnswersAt(p, h, w) <=>
          /\ w = Clients!Done
          /\ \E j \in DOMAIN bars : bars[j].alive /\ h = <<bars[j].limit, j>>
    BY <1>2 DEF AnswersAt
  <2>2. AnswersAt(p, h, w)' <=>
          /\ w = Clients!Done
          /\ \E j \in DOMAIN bars : lost[j].alive /\ h = <<lost[j].limit, j>>
    BY <1>3, <1>4 DEF AnswersAt
  <2>3. ASSUME NEW j \in DOMAIN bars, lost[j].alive, h = <<lost[j].limit, j>>
        PROVE  j # i /\ bars[j].alive /\ h = <<bars[j].limit, j>> /\ h # k
    BY <1>4, <2>3
  <2>4. ASSUME NEW j \in DOMAIN bars, bars[j].alive, h = <<bars[j].limit, j>>, h # k
        PROVE  j # i /\ lost[j].alive /\ h = <<lost[j].limit, j>>
    BY <1>4, <2>4
  <2> QED
    BY <2>1, <2>2, <2>3, <2>4
<1>7. ASSUME NEW h, NEW w, OffersAt(p, h, w)
      PROVE  h # k
  BY <1>5, <1>7 DEF OffersAt
<1>8. ASSUME NEW q \in Peer
      PROVE  \A h, w : OffersAt(q, h, w)' <=> OffersAt(q, h, w)
  BY <1>1, SameOffers
<1>9. PICK E : E = Entries(p)
  OBVIOUS
<1>10. PICK F : F = Entries(p)'
  OBVIOUS
<1>11. /\ E \subseteq Place \X Event /\ Queues(E) /\ F \subseteq Place \X Event
       /\ \A h \in Place, w \in Event :
            <<h, w>> \in E <=> OffersAt(p, h, w) \/ AnswersAt(p, h, w)
       /\ \A h \in Place, w \in Event :
            <<h, w>> \in F <=> OffersAt(p, h, w)' \/ AnswersAt(p, h, w)'
  BY <1>9, <1>10, EntriesStep
<1>12. /\ k \in Place /\ Clients!Done \in Event /\ <<k, Clients!Done>> \in E
       /\ \A w \in Event : <<k, w>> \in E => w = Clients!Done
  <2>1. k \in Place /\ Clients!Done \in Event
    BY <1>5 DEF Place, Event
  <2>2. AnswersAt(p, k, Clients!Done)
    BY <1>2, <1>4 DEF AnswersAt
  <2>3. \A w \in Event : AnswersAt(p, k, w) => w = Clients!Done
    BY DEF AnswersAt
  <2> QED
    BY <1>7, <1>11, <2>1, <2>2, <2>3
<1> HIDE DEF k
<1>13. \A h \in Place, w \in Event : <<h, w>> \in F <=> <<h, w>> \in E /\ h # k
  BY <1>6, <1>7, <1>8, <1>11
<1>14. Queues(F) /\ IsCut(Queue(F), Queue(E), Clients!Done)
  <2>1. E \subseteq Place \X Event /\ Queues(E) /\ F \subseteq Place \X Event
    BY <1>11
  <2>2. Cuts(F, E, k, Clients!Done, Event)
    BY <1>12, <1>13, <2>1 DEF Cuts
  <2> QED
    BY <2>1, <2>2, CutQueued
<1>15. PICK j \in DOMAIN PeerQueue(p) :
         PeerQueue(p)[j] = {Clients!Done} /\ PeerQueue(p)' = Cut(PeerQueue(p), j)
  BY <1>9, <1>10, <1>14 DEF PeerQueue, Queue, IsCut
<1>16. Listed' /\ Queued' = [Queued EXCEPT ![p] = Cut(PeerQueue(p), j)]
  <2>1. Queues(Entries(p))'
    BY <1>10, <1>14 DEF Queues
  <2>2. \A q \in Peer \ {p} : syncs'[q] = syncs[q]
    BY <1>1 DEF OrderInv, SyncTypes
  <2> QED
    BY <1>8, <1>15, <2>1, <2>2, OnlyQueue
<1>17. Clients!CancelSync(p)
  <2>1. ListeningPeers' = ListeningPeers /\ Announced' = Announced
    BY <1>1 DEF ListeningPeers, Announced
  <2>2. NamesUsed' = NamesUsed /\ globals' = globals
    BY <1>1 DEF NamesUsed
  <2>3. Queued[p] = PeerQueue(p)
    BY QueuedIs
  <2> QED
    BY <1>15, <1>16, <2>1, <2>2, <2>3 DEF Clients!CancelSync, Cut
<1> QED
  BY <1>16, <1>17 DEF Refines, Clients!Next

\* Events are told apart by their kind, registry and global.
LEMMA EventsDiffer ==
  /\ \A r, g : Clients!Add(r, g) # Clients!Done /\ Clients!Remove(r, g) # Clients!Done
  /\ \A r, g, s, h : Clients!Add(r, g) # Clients!Remove(s, h)
  /\ \A r, g, s, h : Clients!Add(r, g) = Clients!Add(s, h) => r = s /\ g = h
  /\ \A r, g, s, h : Clients!Remove(r, g) = Clients!Remove(s, h) => r = s /\ g = h
<1>1. ASSUME NEW r, NEW g
      PROVE  /\ Clients!Add(r, g).kind = "global"
             /\ Clients!Add(r, g).registry = r /\ Clients!Add(r, g).global = g
  BY DEF Clients!Add
<1>2. ASSUME NEW r, NEW g
      PROVE  /\ Clients!Remove(r, g).kind = "global_remove"
             /\ Clients!Remove(r, g).registry = r
             /\ Clients!Remove(r, g).global = g
  BY DEF Clients!Remove
<1>3. Clients!Done.kind = "done"
  BY DEF Clients!Done
<1>4. \A r, g : Clients!Add(r, g) # Clients!Done /\ Clients!Remove(r, g) # Clients!Done
  BY <1>1, <1>2, <1>3
<1>5. \A r, g, s, h : Clients!Add(r, g) # Clients!Remove(s, h)
  BY <1>1, <1>2
<1>6. ASSUME NEW r, NEW g, NEW s, NEW h
      PROVE  /\ Clients!Add(r, g) = Clients!Add(s, h) => r = s /\ g = h
             /\ Clients!Remove(r, g) = Clients!Remove(s, h) => r = s /\ g = h
  BY <1>1, <1>2
<1> QED
  BY <1>4, <1>5, <1>6

\* All that registries R may be told.
EventsOf(R) == Clients!Adds(R, Global)
               \cup {Clients!Remove(r, g) : r \in R, g \in Global}

LEMMA EventsOfAre ==
  ASSUME NEW R \in SUBSET Registry, NEW r \in Registry, NEW g \in Global
  PROVE  /\ Clients!Add(r, g) \in EventsOf(R) <=> r \in R
         /\ Clients!Remove(r, g) \in EventsOf(R) <=> r \in R
         /\ Clients!Done \notin EventsOf(R)
<1>1. \A w : w \in EventsOf(R) <=>
        \E s \in R, h \in Global : w = Clients!Add(s, h) \/ w = Clients!Remove(s, h)
  BY DEF EventsOf, Clients!Adds
<1>2. ASSUME Clients!Add(r, g) \in EventsOf(R) PROVE r \in R
  <2>1. PICK s \in R, h \in Global :
          \/ Clients!Add(r, g) = Clients!Add(s, h)
          \/ Clients!Add(r, g) = Clients!Remove(s, h)
    BY <1>1, <1>2
  <2>2. r = s
    BY <2>1, EventsDiffer
  <2> QED
    BY <2>2
<1>3. ASSUME Clients!Remove(r, g) \in EventsOf(R) PROVE r \in R
  <2>1. PICK s \in R, h \in Global :
          \/ Clients!Remove(r, g) = Clients!Add(s, h)
          \/ Clients!Remove(r, g) = Clients!Remove(s, h)
    BY <1>1, <1>3
  <2>2. r = s
    BY <2>1, EventsDiffer
  <2> QED
    BY <2>2
<1>4. r \in R => Clients!Add(r, g) \in EventsOf(R)
                 /\ Clients!Remove(r, g) \in EventsOf(R)
  BY <1>1
<1>5. Clients!Done \notin EventsOf(R)
  BY <1>1, EventsDiffer
<1> QED
  BY <1>2, <1>3, <1>4, <1>5

\* Registries R lose their objects, the others stay as they are.
Loses(R) ==
  /\ \A r \in R : ~object'[r]
  /\ \A r \in Registry \ R : /\ owner'[r] = owner[r]
                             /\ object'[r] <=> object[r]
                             /\ offers'[r] = offers[r]

\* Then nothing is left of R.
LEMMA LostRegistries ==
  ASSUME NEW R \in SUBSET Registry, Loses(R)
  PROVE  /\ ListeningPeers' =
              [r \in Registry |-> IF r \in R THEN NoPeer ELSE ListeningPeers[r]]
         /\ Announced' = {pair \in Announced : pair[1] \notin R}
         /\ \A q \in Peer : \A h, w :
              OffersAt(q, h, w)' <=> OffersAt(q, h, w) /\ w \notin EventsOf(R)
<1>1. ASSUME NEW r \in Registry
      PROVE  (IF object'[r] THEN owner'[r] ELSE NoPeer)
               = IF r \in R THEN NoPeer ELSE IF object[r] THEN owner[r] ELSE NoPeer
  BY DEF Loses
<1>2. ListeningPeers' =
        [r \in Registry |-> IF r \in R THEN NoPeer ELSE ListeningPeers[r]]
  BY <1>1 DEF ListeningPeers
<1>3. ASSUME NEW r \in Registry, NEW g \in Global
      PROVE  (/\ object'[r]
              /\ offers'[r][g].state \in {"offered", "remove_pending"})
             <=> (/\ object[r] /\ r \notin R
                  /\ offers[r][g].state \in {"offered", "remove_pending"})
  BY DEF Loses
<1>4. Announced' = {pair \in Announced : pair[1] \notin R}
  BY <1>3 DEF Announced
<1>5. ASSUME NEW q \in Peer, NEW h, NEW w
      PROVE  OffersAt(q, h, w)' <=> OffersAt(q, h, w) /\ w \notin EventsOf(R)
  <2>1. ASSUME OffersAt(q, h, w)'
        PROVE  OffersAt(q, h, w) /\ w \notin EventsOf(R)
    <3>1. PICK r \in Registry, g \in Global :
            /\ owner'[r] = q /\ object'[r] /\ IsPending(offers'[r][g])
            /\ h = <<offers'[r][g].epoch, 0>>
            /\ w = IF offers'[r][g].state = "add_pending" THEN Clients!Add(r, g)
                                                          ELSE Clients!Remove(r, g)
      BY <2>1 DEF OffersAt
    <3>2. r \notin R
      BY <3>1 DEF Loses
    <3>3. owner[r] = q /\ object[r] /\ offers'[r] = offers[r]
      BY <3>1, <3>2 DEF Loses
    <3>4. OffersAt(q, h, w)
      BY <3>1, <3>3 DEF OffersAt
    <3> QED
      BY <3>1, <3>2, <3>4, EventsOfAre
  <2>2. ASSUME OffersAt(q, h, w), w \notin EventsOf(R)
        PROVE  OffersAt(q, h, w)'
    <3>1. PICK r \in Registry, g \in Global :
            /\ owner[r] = q /\ object[r] /\ IsPending(offers[r][g])
            /\ h = <<offers[r][g].epoch, 0>>
            /\ w = IF offers[r][g].state = "add_pending" THEN Clients!Add(r, g)
                                                         ELSE Clients!Remove(r, g)
      BY <2>2 DEF OffersAt
    <3>2. r \notin R
      BY <2>2, <3>1, EventsOfAre
    <3>3. owner'[r] = q /\ object'[r] /\ offers'[r] = offers[r]
      BY <3>1, <3>2 DEF Loses
    <3> QED
      BY <3>1, <3>3 DEF OffersAt
  <2> QED
    BY <2>1, <2>2
<1> QED
  BY <1>2, <1>4, <1>5

\* A live registry that goes takes along what it was owed, wherever in the queue.
LEMMA UnsubscribeStep ==
  ASSUME OrderInv, OrderTypes', NEW r \in Registry, object[r], Loses({r}),
         UNCHANGED <<globals, nextName, syncs>>
  PROVE  Refines
<1>1. PICK p \in Peer : p = owner[r]
  BY DEF OrderInv, Inv, OwnersHold, TableTypes
<1>2. p # NoPeer /\ ListeningPeers[r] = p
  BY <1>1, SlotAssumption DEF ListeningPeers, Peer, NoPeer
<1> DEFINE events == EventsOf({r})
<1>3. /\ ListeningPeers' =
           [s \in Registry |-> IF s \in {r} THEN NoPeer ELSE ListeningPeers[s]]
      /\ Announced' = {pair \in Announced : pair[1] \notin {r}}
      /\ \A q \in Peer : \A h, w :
           OffersAt(q, h, w)' <=> OffersAt(q, h, w) /\ w \notin events
  BY LostRegistries
<1>4. \A q \in Peer : \A h, w : AnswersAt(q, h, w)' <=> AnswersAt(q, h, w)
  BY SameAnswers
<1>5. ASSUME NEW h, NEW w, AnswersAt(p, h, w)
      PROVE  w \notin events
  <2>1. w = Clients!Done
    BY <1>5 DEF AnswersAt
  <2>2. Clients!Done \notin EventsOf({r})
    BY EventsDiffer DEF EventsOf, Clients!Adds
  <2> QED
    BY <2>1, <2>2
<1> HIDE DEF events
<1>6. PICK E : E = Entries(p)
  OBVIOUS
<1>7. PICK F : F = Entries(p)'
  OBVIOUS
<1>8. Queues(E) /\ Withdraws(F, E, events, Event)
  <2>1. /\ E \subseteq Place \X Event /\ Queues(E) /\ F \subseteq Place \X Event
        /\ \A h \in Place, w \in Event :
             <<h, w>> \in F <=> <<h, w>> \in E /\ w \notin events
    BY <1>3, <1>4, <1>5, <1>6, <1>7, EntriesStep
  <2> QED
    BY <2>1 DEF Withdraws
<1>9. Queues(F) /\ Queue(F) = Clients!Without(Queue(E), events)
  BY <1>8, RestQueued
<1>10. ASSUME NEW q \in Peer \ {p}
       PROVE  \A h, w : OffersAt(q, h, w)' <=> OffersAt(q, h, w)
  <2>1. \A s \in Registry : owner'[s] = q /\ object'[s] <=> owner[s] = q /\ object[s]
    BY <1>1 DEF Loses
  <2>2. \A s \in Registry, g \in Global : owner[s] = q /\ object[s] =>
           /\ IsPending(offers'[s][g]) <=> IsPending(offers[s][g])
           /\ IsPending(offers[s][g]) => offers'[s][g] = offers[s][g]
    BY <1>1 DEF Loses
  <2> QED
    BY <2>1, <2>2, SameOffers
<1>11. Listed' /\ Queued' = [Queued EXCEPT ![p] = Clients!Without(PeerQueue(p), events)]
  <2>1. /\ PeerQueue(p)' = Clients!Without(PeerQueue(p), events)
        /\ Queues(Entries(p))'
    BY <1>6, <1>7, <1>9 DEF PeerQueue, Queue, Queues
  <2> QED
    BY <1>10, <2>1, OnlyQueue
<1>12. Clients!Unsubscribe(r)
  <2>1. NamesUsed' = NamesUsed /\ globals' = globals
    BY DEF NamesUsed
  <2>2. Queued[p] = PeerQueue(p)
    BY QueuedIs
  <2>3. events = Clients!Adds({r}, Global) \cup {Clients!Remove(r, g) : g \in Global}
    BY DEF events, EventsOf
  <2>4. Queued' = [Queued EXCEPT ![ListeningPeers[r]] = Clients!Without(@,
          Clients!Adds({r}, Global) \cup {Clients!Remove(r, g) : g \in Global})]
    BY <1>2, <1>11, <2>2, <2>3
  <2>5. Clients!Forget({r})
    BY <1>3 DEF Clients!Forget
  <2> QED
    BY <1>2, <2>1, <2>4, <2>5, Zenon DEF Clients!Unsubscribe
<1> QED
  BY <1>11, <1>12 DEF Refines, Clients!Next

LEMMA LoseRegistryRefines ==
  ASSUME OrderInv, OrderTypes', NEW r \in Registry, LoseRegistry(r)
  PROVE  Refines
<1>1. object[r] /\ Loses({r})
  BY DEF LoseRegistry, Loses, OrderInv, Inv, TableTypes
<1> QED
  BY <1>1, UnsubscribeStep DEF LoseRegistry

LEMMA RemoveRegistryRefines ==
  ASSUME OrderInv, OrderTypes', NEW p \in Peer, NEW r \in Registry,
         RemoveRegistry(p, r)
  PROVE  Refines
<1>1. object[r] /\ Unlink({r}) /\ UNCHANGED <<globals, nextName, syncs>>
  BY DEF RemoveRegistry, UnlinkAndCollect
<1>2. Loses({r})
  BY <1>1 DEF Loses, Unlink
<1> QED
  BY <1>1, <1>2, UnsubscribeStep

\* A client that goes takes along its queue.
LEMMA DestroyClientRefines ==
  ASSUME OrderInv, OrderTypes', NEW p \in Peer, DestroyClient(p)
  PROVE  Refines
<1> DEFINE R == {r \in Registry : owner[r] = p}
<1>1. /\ Unlink(R) /\ UNCHANGED <<globals, nextName>>
      /\ syncs' = [syncs EXCEPT ![p] = <<>>]
  BY DEF DestroyClient, UnlinkAndCollect
<1>2. p # NoPeer
  BY SlotAssumption DEF Peer, NoPeer
<1>3. Loses(R)
  BY <1>1 DEF Loses, Unlink
<1>4. \A r \in Registry : owner'[r] # p
  BY <1>1, <1>2 DEF Unlink
<1>5. PICK S \in SUBSET Registry : S = R
  OBVIOUS
<1>6. /\ ListeningPeers' =
           [r \in Registry |-> IF r \in S THEN NoPeer ELSE ListeningPeers[r]]
      /\ Announced' = {pair \in Announced : pair[1] \notin S}
  BY <1>3, <1>5, LostRegistries
<1>7. PICK F : F = Entries(p)'
  OBVIOUS
<1>8. F = {}
  <2>1. \A h, w : ~OffersAt(p, h, w)'
    BY <1>4 DEF OffersAt
  <2>2. \A h, w : ~AnswersAt(p, h, w)'
    <3>1. syncs'[p] = <<>>
      BY <1>1 DEF OrderInv, SyncTypes
    <3> QED
      BY <3>1 DEF AnswersAt
  <2>3. /\ F \subseteq Place \X Event
        /\ \A h \in Place, w \in Event : <<h, w>> \notin F
    BY <1>7, <2>1, <2>2, EntriesStep
  <2> QED
    BY <2>3
<1>9. PeerQueue(p)' = <<>> /\ Queues(Entries(p))'
  BY <1>7, <1>8, NothingQueued DEF PeerQueue, Queue, Queues
<1>10. ASSUME NEW q \in Peer \ {p}
       PROVE  \A h, w : OffersAt(q, h, w)' <=> OffersAt(q, h, w)
  <2>1. q # NoPeer
    BY SlotAssumption DEF Peer, NoPeer
  <2>2. \A s \in Registry : owner'[s] = q /\ object'[s] <=> owner[s] = q /\ object[s]
    BY <1>3, <1>4 DEF Loses
  <2>3. \A s \in Registry, g \in Global : owner[s] = q /\ object[s] =>
           /\ IsPending(offers'[s][g]) <=> IsPending(offers[s][g])
           /\ IsPending(offers[s][g]) => offers'[s][g] = offers[s][g]
    BY <1>3 DEF Loses
  <2> QED
    BY <2>2, <2>3, SameOffers
<1>11. Listed' /\ Queued' = [Queued EXCEPT ![p] = <<>>]
  <2>1. \A q \in Peer \ {p} : syncs'[q] = syncs[q]
    BY <1>1 DEF OrderInv, SyncTypes
  <2> QED
    BY <1>9, <1>10, <2>1, OnlyQueue
<1>12. Clients!Disconnect(p)
  <2>1. NamesUsed' = NamesUsed /\ globals' = globals
    BY <1>1 DEF NamesUsed
  <2>2. ASSUME NEW r \in Registry
        PROVE  r \in Clients!RegistriesOf(p) <=> r \in S /\ object[r]
    BY <1>2, <1>5 DEF Clients!RegistriesOf, ListeningPeers
  <2>3. ListeningPeers' =
          [r \in Registry |-> IF r \in Clients!RegistriesOf(p) THEN NoPeer
                                                  ELSE ListeningPeers[r]]
    <3>1. \A r \in Registry : ~object[r] => ListeningPeers[r] = NoPeer
      BY DEF ListeningPeers
    <3> QED
      BY <1>6, <2>2, <3>1
  <2>4. Announced' = {pair \in Announced : pair[1] \notin Clients!RegistriesOf(p)}
    <3>1. \A pair \in Announced : pair[1] \in Registry /\ object[pair[1]]
      BY DEF Announced
    <3> QED
      BY <1>6, <2>2, <3>1
  <2>5. Clients!Forget(Clients!RegistriesOf(p))
    BY <2>3, <2>4 DEF Clients!Forget
  <2> QED
    BY <1>11, <2>1, <2>5 DEF Clients!Disconnect
<1> QED
  BY <1>11, <1>12 DEF Refines, Clients!Next

\* What the abstraction calls a client's registries are its live ones.
LEMMA RegistriesOfAre ==
  ASSUME NEW q \in Peer, NEW r \in Registry
  PROVE  r \in Clients!RegistriesOf(q) <=> owner[r] = q /\ object[r]
<1>1. q # NoPeer
  BY SlotAssumption DEF Peer, NoPeer
<1> QED
  BY <1>1 DEF Clients!RegistriesOf, ListeningPeers

\* A new global is announced behind all else to the registries that may see it.
LEMMA AddGlobalRefines ==
  ASSUME OrderInv, OrderTypes', AddGlobal
  PROVE  Refines
<1>1. PICK g \in Global : g = nextName
  BY DEF AddGlobal
<1>2. /\ nextName' = g + 1 /\ globals' = globals \cup {g}
      /\ epoch' = epoch + 1 /\ epoch \in Nat
      /\ UNCHANGED <<owner, object, syncs>>
  BY <1>1, BoundAssumption DEF AddGlobal, OrderInv, Inv, TableTypes
<1>3. offers' = [r \in Registry |->
        IF <<owner[r], g>> \in Visible
        THEN [offers[r] EXCEPT ![g] = [state |-> "add_pending", epoch |-> epoch']]
        ELSE offers[r]]
  BY <1>1 DEF AddGlobal
<1>4. \A r \in Registry : offers[r][g].state = "none"
  BY <1>1, BoundAssumption DEF OrderInv, Inv, NamesAreFresh, TableTypes, Global
<1>5. ASSUME NEW r \in Registry
      PROVE  /\ <<owner[r], g>> \in Visible =>
                  offers'[r][g] = [state |-> "add_pending", epoch |-> epoch']
             /\ <<owner[r], g>> \notin Visible => offers'[r][g] = offers[r][g]
             /\ \A h \in Global : h # g => offers'[r][h] = offers[r][h]
  BY <1>3 DEF OrderInv, Inv, TableTypes
<1> DEFINE k == <<epoch', 0>>
           Batch(q) == Clients!Adds(Clients!RegistriesOf(q), {g})
<1>6. ASSUME NEW q \in Peer, NEW w
      PROVE  w \in Batch(q) <=> \E r \in Registry : /\ owner[r] = q /\ object[r]
                                                    /\ w = Clients!Add(r, g)
  <2>1. Batch(q) = {Clients!Add(r, h) : r \in Clients!RegistriesOf(q), h \in {g}}
    BY DEF Clients!Adds
  <2>2. Clients!RegistriesOf(q) \subseteq Registry
    BY DEF Clients!RegistriesOf
  <2>3. ASSUME w \in Batch(q)
        PROVE  \E r \in Registry : owner[r] = q /\ object[r] /\ w = Clients!Add(r, g)
    <3>1. PICK r \in Clients!RegistriesOf(q), h \in {g} : w = Clients!Add(r, h)
      BY <2>1, <2>3
    <3>2. r \in Registry /\ owner[r] = q /\ object[r]
      BY <2>2, RegistriesOfAre
    <3> QED
      BY <3>1, <3>2
  <2>4. ASSUME NEW r \in Registry, owner[r] = q, object[r], w = Clients!Add(r, g)
        PROVE  w \in Batch(q)
    <3>1. r \in Clients!RegistriesOf(q)
      BY <2>4, RegistriesOfAre
    <3> QED
      BY <2>1, <2>4, <3>1
  <2> QED
    BY <2>3, <2>4
<1> HIDE DEF Batch
<1>7. \A q \in Peer : \A h, w : AnswersAt(q, h, w)' <=> AnswersAt(q, h, w)
  BY <1>2, SameAnswers
<1>8. ASSUME NEW q \in Peer, <<q, g>> \notin Visible
      PROVE  Queues(Entries(q))' /\ PeerQueue(q)' = PeerQueue(q)
  <2>1. \A r \in Registry, h \in Global : owner[r] = q /\ object[r] =>
           /\ IsPending(offers'[r][h]) <=> IsPending(offers[r][h])
           /\ IsPending(offers[r][h]) => offers'[r][h] = offers[r][h]
    BY <1>5, <1>8
  <2>2. \A h, w : OffersAt(q, h, w)' <=> OffersAt(q, h, w)
    BY <1>2, <2>1, SameOffers
  <2> QED
    BY <1>7, <2>2, SameQueue DEF OrderInv, OrderTypes, Inv, Listed
<1>9. ASSUME NEW q \in Peer, <<q, g>> \in Visible
      PROVE  Queues(Entries(q))'
             /\ PeerQueue(q)' = Clients!Put(PeerQueue(q), Batch(q))
  <2>1. ASSUME NEW h, NEW w
        PROVE  OffersAt(q, h, w)' <=> OffersAt(q, h, w) \/ (h = k /\ w \in Batch(q))
    <3>1. ASSUME OffersAt(q, h, w) PROVE OffersAt(q, h, w)'
      <4>1. PICK r \in Registry, x \in Global :
              /\ owner[r] = q /\ object[r] /\ IsPending(offers[r][x])
              /\ h = <<offers[r][x].epoch, 0>>
              /\ w = IF offers[r][x].state = "add_pending" THEN Clients!Add(r, x)
                                                           ELSE Clients!Remove(r, x)
        BY <3>1 DEF OffersAt
      <4>2. x # g
        BY <1>4, <4>1 DEF IsPending
      <4> QED
        BY <1>2, <1>5, <4>1, <4>2 DEF OffersAt
    <3>2. ASSUME h = k, w \in Batch(q) PROVE OffersAt(q, h, w)'
      <4>1. PICK r \in Registry :
              owner[r] = q /\ object[r] /\ w = Clients!Add(r, g)
        BY <1>6, <3>2
      <4>2. offers'[r][g] = [state |-> "add_pending", epoch |-> epoch']
        BY <1>5, <1>9, <4>1
      <4> QED
        BY <1>2, <3>2, <4>1, <4>2 DEF OffersAt, IsPending
    <3>3. ASSUME OffersAt(q, h, w)'
          PROVE  OffersAt(q, h, w) \/ (h = k /\ w \in Batch(q))
      <4>1. PICK r \in Registry, x \in Global :
              /\ owner'[r] = q /\ object'[r] /\ IsPending(offers'[r][x])
              /\ h = <<offers'[r][x].epoch, 0>>
              /\ w = IF offers'[r][x].state = "add_pending" THEN Clients!Add(r, x)
                                                            ELSE Clients!Remove(r, x)
        BY <3>3 DEF OffersAt
      <4>2. CASE x = g
        <5>1. offers'[r][g] = [state |-> "add_pending", epoch |-> epoch']
          BY <1>2, <1>5, <1>9, <4>1
        <5> QED
          BY <1>2, <1>6, <4>1, <4>2, <5>1
      <4>3. CASE x # g
        BY <1>2, <1>5, <4>1, <4>3 DEF OffersAt
      <4> QED
        BY <4>2, <4>3
    <3> QED
      BY <3>1, <3>2, <3>3
  <2>2. PICK E : E = Entries(q)
    OBVIOUS
  <2>3. PICK F : F = Entries(q)'
    OBVIOUS
  <2>4. /\ E \subseteq Place \X Event /\ Queues(E) /\ F \subseteq Place \X Event
        /\ \A h \in Place, w \in Event :
             <<h, w>> \in F <=> <<h, w>> \in E \/ (h = k /\ w \in Batch(q))
    BY <1>7, <2>1, <2>2, <2>3, EntriesStep
  <2>5. \A e \in E : Precedes(e[1], k)
    BY <1>2, <2>2, EntriesDated DEF Precedes, Place
  <2>6. k \in Place
    BY <1>2 DEF Place
  <2>7. Batch(q) \in SUBSET Event
    BY <1>6 DEF Event
  <2> HIDE DEF k
  <2>8. Puts(F, E, k, Batch(q), Event)
    BY <2>4, <2>5, <2>6, <2>7 DEF Puts
  <2>9. Queues(F) /\ Queue(F) = Clients!Put(Queue(E), Batch(q))
    BY <2>4, <2>8, PutQueued
  <2> QED
    BY <2>2, <2>3, <2>9 DEF PeerQueue, Queue, Queues
<1>10. Listed'
  BY <1>8, <1>9 DEF Listed
<1>11. Queued' = [q \in Peer |-> IF <<q, g>> \in Visible
                                 THEN Clients!Put(Queued[q], Batch(q)) ELSE Queued[q]]
  <2>1. Queued' = [q \in Peer |-> PeerQueue(q)']
    BY DEF Queued, PeerQueue, Queue
  <2>2. ASSUME NEW q \in Peer
        PROVE  PeerQueue(q)' = IF <<q, g>> \in Visible
                               THEN Clients!Put(Queued[q], Batch(q)) ELSE Queued[q]
    <3>1. Queued[q] = PeerQueue(q)
      BY QueuedIs
    <3> QED
      BY <1>8, <1>9, <3>1
  <2> QED
    BY <2>1, <2>2
<1>12. Clients!AddGlobal(g)
  <2>1. g \notin NamesUsed /\ NamesUsed' = NamesUsed \cup {g}
    BY <1>1, <1>2, BoundAssumption DEF NamesUsed, Global
  <2>2. ListeningPeers' = ListeningPeers
    BY <1>2 DEF ListeningPeers
  <2>3. Announced' = Announced
    <3>1. ASSUME NEW r \in Registry, NEW h \in Global
          PROVE  offers'[r][h].state \in {"offered", "remove_pending"}
                 <=> offers[r][h].state \in {"offered", "remove_pending"}
      <4>1. CASE h = g
        <5>1. offers'[r][g].state \in {"add_pending", "none"}
          <6>1. CASE <<owner[r], g>> \in Visible
            BY <1>5, <6>1
          <6>2. CASE <<owner[r], g>> \notin Visible
            BY <1>4, <1>5, <6>2
          <6> QED
            BY <6>1, <6>2
        <5> QED
          BY <1>4, <4>1, <5>1
      <4>2. CASE h # g
        BY <1>5, <4>2
      <4> QED
        BY <4>1, <4>2
    <3> QED
      BY <1>2, <3>1 DEF Announced
  <2> QED
    BY <1>2, <1>11, <2>1, <2>2, <2>3 DEF Clients!AddGlobal, Batch
<1> QED
  BY <1>10, <1>12 DEF Refines, Clients!Next

\* A full table spends a name and tells nobody.
LEMMA AddGlobalFailsRefines ==
  ASSUME OrderInv, OrderTypes', AddGlobalFails
  PROVE  Refines
<1>1. PICK g \in Global : g = nextName
  BY DEF AddGlobalFails
<1>2. nextName' = g + 1 /\ UNCHANGED <<syncs, owner, object, offers, globals>>
  BY <1>1 DEF AddGlobalFails
<1>3. ASSUME NEW q \in Peer
      PROVE  Queues(Entries(q))' /\ PeerQueue(q)' = PeerQueue(q)
  <2>1. \A h, w : OffersAt(q, h, w)' <=> OffersAt(q, h, w)
    BY <1>2 DEF OffersAt
  <2>2. \A h, w : AnswersAt(q, h, w)' <=> AnswersAt(q, h, w)
    BY <1>2 DEF AnswersAt
  <2> QED
    BY <2>1, <2>2, SameQueue DEF OrderInv, OrderTypes, Inv, Listed
<1>4. Queued' = Queued
  <2>1. Queued' = [q \in Peer |-> PeerQueue(q)']
    BY DEF Queued, PeerQueue, Queue
  <2> QED
    BY <1>3, <2>1, QueuedIs
<1>5. Listed'
  BY <1>3 DEF Listed
<1>6. Clients!SpendName(g)
  <2>1. g \notin NamesUsed /\ NamesUsed' = NamesUsed \cup {g}
    BY <1>1, <1>2, BoundAssumption DEF NamesUsed, Global
  <2>2. ListeningPeers' = ListeningPeers /\ Announced' = Announced
    BY <1>2 DEF ListeningPeers, Announced
  <2> QED
    BY <1>2, <1>4, <2>1, <2>2 DEF Clients!SpendName
<1> QED
  BY <1>5, <1>6 DEF Refines, Clients!Next

\* A removal withdraws what was not announced yet, and is told behind all else
\* to those that had been told of the global.
LEMMA RemoveGlobalRefines ==
  ASSUME OrderInv, OrderTypes', NEW g \in Global, RemoveGlobal(g)
  PROVE  Refines
<1>1. /\ g \in globals /\ globals' = globals \ {g}
      /\ epoch' = epoch + 1 /\ epoch \in Nat
      /\ UNCHANGED <<syncs, owner, object, nextName>>
  BY BoundAssumption DEF RemoveGlobal, OrderInv, Inv, TableTypes
<1>2. ASSUME NEW r \in Registry
      PROVE  /\ offers[r][g].state \in {"none", "add_pending", "offered"}
             /\ offers[r][g].state = "offered" =>
                  offers'[r][g] = [state |-> "remove_pending", epoch |-> epoch']
             /\ offers[r][g].state # "offered" => offers'[r][g].state = "none"
             /\ \A x \in Global : x # g => offers'[r][x] = offers[r][x]
  <2>1. offers[r][g].state \in OfferState
    BY DEF OrderInv, Inv, TableTypes
  <2>2. offers[r][g].state \in {"none", "add_pending", "offered"}
    BY <1>1, <2>1 DEF OrderInv, Inv, OffersAreCurrent, OfferState
  <2>3. /\ offers'[r][g] = Retracted(offers[r][g], epoch')
        /\ \A x \in Global : x # g => offers'[r][x] = offers[r][x]
    BY DEF RemoveGlobal, OrderInv, Inv, TableTypes
  <2> QED
    BY <2>2, <2>3 DEF Retracted, NoOffer
<1> DEFINE k == <<epoch', 0>>
           adds == Clients!Adds(Registry, {g})
           Batch(q) == {Clients!Remove(r, g) :
              r \in {s \in Clients!RegistriesOf(q) : <<s, g>> \in Announced}}
<1>3. ASSUME NEW w
      PROVE  w \in adds <=> \E r \in Registry : w = Clients!Add(r, g)
  <2>1. adds = {Clients!Add(r, h) : r \in Registry, h \in {g}}
    BY DEF Clients!Adds
  <2> QED
    BY <2>1
<1>4. ASSUME NEW q \in Peer, NEW w
      PROVE  w \in Batch(q) <=> \E r \in Registry :
               /\ owner[r] = q /\ object[r] /\ offers[r][g].state = "offered"
               /\ w = Clients!Remove(r, g)
  <2>1. ASSUME NEW r \in Registry
        PROVE  r \in Clients!RegistriesOf(q) /\ <<r, g>> \in Announced
               <=> owner[r] = q /\ object[r] /\ offers[r][g].state = "offered"
    <3>1. <<r, g>> \in Announced <=>
            object[r] /\ offers[r][g].state \in {"offered", "remove_pending"}
      BY DEF Announced
    <3>2. offers[r][g].state # "remove_pending"
      BY <1>2
    <3>3. r \in Clients!RegistriesOf(q) <=> owner[r] = q /\ object[r]
      BY RegistriesOfAre
    <3> QED
      BY <3>1, <3>2, <3>3
  <2>2. Clients!RegistriesOf(q) \subseteq Registry
    BY DEF Clients!RegistriesOf
  <2> QED
    BY <2>1, <2>2
<1> HIDE DEF adds, Batch
<1>5. \A q \in Peer : \A h, w : AnswersAt(q, h, w)' <=> AnswersAt(q, h, w)
  BY <1>1, SameAnswers
<1>6. ASSUME NEW q \in Peer, NEW h, NEW w
      PROVE  OffersAt(q, h, w)' <=>
               \/ OffersAt(q, h, w) /\ w \notin adds
               \/ h = k /\ w \in Batch(q)
  <2>1. ASSUME OffersAt(q, h, w), w \notin adds PROVE OffersAt(q, h, w)'
    <3>1. PICK r \in Registry, x \in Global :
            /\ owner[r] = q /\ object[r] /\ IsPending(offers[r][x])
            /\ h = <<offers[r][x].epoch, 0>>
            /\ w = IF offers[r][x].state = "add_pending" THEN Clients!Add(r, x)
                                                         ELSE Clients!Remove(r, x)
      BY <2>1 DEF OffersAt
    <3>2. x # g
      <4> SUFFICES ASSUME x = g PROVE FALSE
        OBVIOUS
      <4>1. offers[r][g].state = "add_pending"
        BY <1>2, <3>1 DEF IsPending
      <4>2. w = Clients!Add(r, g)
        BY <3>1, <4>1
      <4> QED
        BY <1>3, <2>1, <4>2
    <3> QED
      BY <1>1, <1>2, <3>1, <3>2 DEF OffersAt
  <2>2. ASSUME h = k, w \in Batch(q) PROVE OffersAt(q, h, w)'
    <3>1. PICK r \in Registry :
            /\ owner[r] = q /\ object[r] /\ offers[r][g].state = "offered"
            /\ w = Clients!Remove(r, g)
      BY <1>4, <2>2
    <3>2. offers'[r][g] = [state |-> "remove_pending", epoch |-> epoch']
      BY <1>2, <3>1
    <3> QED
      BY <1>1, <2>2, <3>1, <3>2 DEF OffersAt, IsPending
  <2>3. ASSUME OffersAt(q, h, w)'
        PROVE  \/ OffersAt(q, h, w) /\ w \notin adds
               \/ h = k /\ w \in Batch(q)
    <3>1. PICK r \in Registry, x \in Global :
            /\ owner'[r] = q /\ object'[r] /\ IsPending(offers'[r][x])
            /\ h = <<offers'[r][x].epoch, 0>>
            /\ w = IF offers'[r][x].state = "add_pending" THEN Clients!Add(r, x)
                                                          ELSE Clients!Remove(r, x)
      BY <2>3 DEF OffersAt
    <3>2. CASE x = g
      <4>1. offers[r][g].state = "offered"
        BY <1>2, <3>1, <3>2 DEF IsPending
      <4>2. offers'[r][g] = [state |-> "remove_pending", epoch |-> epoch']
        BY <1>2, <4>1
      <4> QED
        BY <1>1, <1>4, <3>1, <3>2, <4>1, <4>2
    <3>3. CASE x # g
      <4>1. OffersAt(q, h, w)
        BY <1>1, <1>2, <3>1, <3>3 DEF OffersAt
      <4>2. \A s \in Registry : w # Clients!Add(s, g)
        BY <3>1, <3>3, EventsDiffer
      <4> QED
        BY <1>3, <4>1, <4>2
    <3> QED
      BY <3>2, <3>3
  <2> QED
    BY <2>1, <2>2, <2>3
<1>7. ASSUME NEW q \in Peer
      PROVE  /\ Queues(Entries(q))'
             /\ PeerQueue(q)' =
                  Clients!Put(Clients!Without(PeerQueue(q), adds), Batch(q))
  <2>1. PICK D : D = Entries(q)
    OBVIOUS
  <2>2. PICK E : E = {x \in D : x[2] \notin adds}
    OBVIOUS
  <2>3. PICK F : F = Entries(q)'
    OBVIOUS
  <2>4. /\ D \subseteq Place \X Event /\ Queues(D) /\ F \subseteq Place \X Event
        /\ \A h \in Place, w \in Event :
             <<h, w>> \in D <=> OffersAt(q, h, w) \/ AnswersAt(q, h, w)
        /\ \A h \in Place, w \in Event :
             <<h, w>> \in F <=> OffersAt(q, h, w)' \/ AnswersAt(q, h, w)'
    BY <2>1, <2>3, EntriesStep
  <2>5. E \subseteq Place \X Event /\ Withdraws(E, D, adds, Event)
    BY <2>2, <2>4 DEF Withdraws
  <2>6. Queues(E) /\ Queue(E) = Clients!Without(Queue(D), adds)
    BY <2>4, <2>5, RestQueued
  <2>7. ASSUME NEW h, NEW w, AnswersAt(q, h, w)
        PROVE  w \notin adds
    <3>1. w = Clients!Done
      BY <2>7 DEF AnswersAt
    <3> QED
      BY <1>3, <3>1, EventsDiffer
  <2>8. \A h \in Place, w \in Event :
          <<h, w>> \in F <=> <<h, w>> \in E \/ (h = k /\ w \in Batch(q))
    <3> SUFFICES ASSUME NEW h \in Place, NEW w \in Event
                 PROVE  <<h, w>> \in F <=>
                          <<h, w>> \in E \/ (h = k /\ w \in Batch(q))
      OBVIOUS
    <3>1. <<h, w>> \in E <=> <<h, w>> \in D /\ w \notin adds
      BY <2>2
    <3>2. <<h, w>> \in D <=> OffersAt(q, h, w) \/ AnswersAt(q, h, w)
      BY <2>4
    <3>3. <<h, w>> \in F <=> OffersAt(q, h, w)' \/ AnswersAt(q, h, w)'
      BY <2>4
    <3> HIDE DEF k
    <3> QED
      BY <1>5, <1>6, <2>7, <3>1, <3>2, <3>3
  <2>9. \A e \in E : Precedes(e[1], k)
    BY <1>1, <2>1, <2>2, EntriesDated DEF Precedes, Place
  <2>10. k \in Place
    BY <1>1 DEF Place
  <2>11. Batch(q) \in SUBSET Event
    BY <1>4 DEF Event
  <2> HIDE DEF k
  <2>12. Puts(F, E, k, Batch(q), Event)
    BY <2>4, <2>5, <2>8, <2>9, <2>10, <2>11 DEF Puts
  <2>13. Queues(F) /\ Queue(F) = Clients!Put(Queue(E), Batch(q))
    BY <2>6, <2>12, PutQueued
  <2> QED
    BY <2>1, <2>3, <2>6, <2>13 DEF PeerQueue, Queue, Queues
<1>8. Listed'
  BY <1>7 DEF Listed
<1>9. Queued' = [q \in Peer |->
                   Clients!Put(Clients!Without(Queued[q], adds), Batch(q))]
  <2>1. Queued' = [q \in Peer |-> PeerQueue(q)']
    BY DEF Queued, PeerQueue, Queue
  <2>2. ASSUME NEW q \in Peer
        PROVE  PeerQueue(q)' =
                 Clients!Put(Clients!Without(Queued[q], adds), Batch(q))
    <3>1. Queued[q] = PeerQueue(q)
      BY QueuedIs
    <3> QED
      BY <1>7, <3>1
  <2> QED
    BY <2>1, <2>2
<1>10. Clients!RemoveGlobal(g)
  <2>1. NamesUsed' = NamesUsed
    BY <1>1 DEF NamesUsed
  <2>2. ListeningPeers' = ListeningPeers
    BY <1>1 DEF ListeningPeers
  <2>3. Announced' = Announced
    <3>1. ASSUME NEW r \in Registry, NEW x \in Global
          PROVE  offers'[r][x].state \in {"offered", "remove_pending"}
                 <=> offers[r][x].state \in {"offered", "remove_pending"}
      <4>1. CASE x = g /\ offers[r][g].state = "offered"
        BY <1>2, <4>1
      <4>2. CASE x = g /\ offers[r][g].state # "offered"
        <5>1. offers'[r][g].state = "none" /\ offers[r][g].state # "remove_pending"
          BY <1>2, <4>2
        <5> QED
          BY <4>2, <5>1
      <4>3. CASE x # g
        BY <1>2, <4>3
      <4> QED
        BY <4>1, <4>2, <4>3
    <3> QED
      BY <1>1, <3>1 DEF Announced
  <2> QED
    BY <1>1, <1>9, <2>1, <2>2, <2>3 DEF Clients!RemoveGlobal, adds, Batch
<1> QED
  BY <1>8, <1>10 DEF Refines, Clients!Next

\* When the first sync is gone, the entries of the others move up.
LEMMA FirstSyncGone ==
  ASSUME OrderInv, OrderTypes', NEW p \in Peer, syncs[p] # <<>>,
         syncs' = [syncs EXCEPT ![p] = Tail(@)], UNCHANGED <<owner, object, offers>>
  PROVE  \A h \in Place, w \in Event :
           <<h, w>> \in Entries(p)' <=> <<Moved(h), w>> \in Entries(p)
<1>1. PICK bars \in Seq(Barrier) : bars = syncs[p] /\ bars # <<>>
  BY DEF OrderInv, SyncTypes
<1>2. PICK rest : rest = syncs'[p]
  OBVIOUS
<1>3. PICK n \in Nat : n = Len(bars)
  OBVIOUS
<1>4. /\ DOMAIN bars = 1..n /\ DOMAIN rest = 1..(n - 1)
      /\ \A i \in 1..(n - 1) : rest[i] = bars[i + 1]
  <2>1. rest = Tail(bars)
    BY <1>1, <1>2 DEF OrderInv, SyncTypes
  <2>2. /\ Tail(bars) \in Seq(Barrier) /\ Len(Tail(bars)) = n - 1
        /\ \A i \in 1..(n - 1) : Tail(bars)[i] = bars[i + 1]
    BY <1>1, <1>3, HeadTailProperties
  <2> QED
    BY <1>3, <2>1, <2>2
<1> SUFFICES ASSUME NEW h \in Place, NEW w \in Event
             PROVE  <<h, w>> \in Entries(p)' <=> <<Moved(h), w>> \in Entries(p)
  OBVIOUS
<1>5. PICK a \in Nat, b \in Nat : h = <<a, b>>
  BY DEF Place
<1>6. PICK m \in Place : m = Moved(h) /\ m = <<a, IF b = 0 THEN 0 ELSE b + 1>>
  <2>1. Moved(h) = <<a, IF b = 0 THEN 0 ELSE b + 1>>
    BY <1>5 DEF Moved
  <2>2. (IF b = 0 THEN 0 ELSE b + 1) \in Nat
    OBVIOUS
  <2>3. Moved(h) \in Place
    BY <2>1, <2>2 DEF Place
  <2> QED
    BY <2>1, <2>3
<1>7. OffersAt(p, h, w)' <=> OffersAt(p, m, w)
  <2>1. OffersAt(p, h, w)' <=> OffersAt(p, h, w)
    BY SameOffers
  <2>2. \A r \in Registry, g \in Global :
          h = <<offers[r][g].epoch, 0>> <=> m = <<offers[r][g].epoch, 0>>
    BY <1>5, <1>6
  <2> QED
    BY <2>1, <2>2 DEF OffersAt
<1>8. AnswersAt(p, h, w)' <=> AnswersAt(p, m, w)
  <2>1. AnswersAt(p, m, w) <=>
          w = Clients!Done /\ \E i \in 1..n : bars[i].alive /\ m = <<bars[i].limit, i>>
    BY <1>1, <1>4 DEF AnswersAt
  <2>2. AnswersAt(p, h, w)' <=>
          /\ w = Clients!Done
          /\ \E i \in 1..(n - 1) : rest[i].alive /\ h = <<rest[i].limit, i>>
    BY <1>2, <1>4 DEF AnswersAt
  <2>3. ASSUME NEW i \in 1..(n - 1), rest[i].alive, h = <<rest[i].limit, i>>
        PROVE  \E j \in 1..n : bars[j].alive /\ m = <<bars[j].limit, j>>
    <3>1. /\ i + 1 \in 1..n /\ bars[i + 1].alive /\ rest[i].limit = bars[i + 1].limit
          /\ a = bars[i + 1].limit /\ b = i
      BY <1>4, <1>5, <2>3
    <3>2. m = <<bars[i + 1].limit, i + 1>>
      BY <1>6, <3>1
    <3> QED
      BY <3>1, <3>2
  <2>4. ASSUME NEW j \in 1..n, bars[j].alive, m = <<bars[j].limit, j>>
        PROVE  \E i \in 1..(n - 1) : rest[i].alive /\ h = <<rest[i].limit, i>>
    <3>1. b # 0 /\ j = b + 1 /\ a = bars[j].limit
      BY <1>5, <1>6, <2>4
    <3>2. b \in 1..(n - 1) /\ rest[b] = bars[j]
      BY <1>4, <1>5, <3>1
    <3>3. rest[b].alive /\ h = <<rest[b].limit, b>>
      BY <1>5, <2>4, <3>1, <3>2
    <3> QED
      BY <3>2, <3>3
  <2> QED
    BY <2>1, <2>2, <2>3, <2>4
<1>9. <<m, w>> \in Entries(p) <=> OffersAt(p, m, w) \/ AnswersAt(p, m, w)
  BY EntriesStep
<1>10. <<h, w>> \in Entries(p)' <=> OffersAt(p, h, w)' \/ AnswersAt(p, h, w)'
  BY EntriesStep
<1> QED
  BY <1>6, <1>7, <1>8, <1>9, <1>10

\* At the place of the first sync is its answer, if that is owed.
LEMMA FirstSyncPlace ==
  ASSUME OrderInv, NEW p \in Peer, syncs[p] # <<>>,
         NEW h \in Place, NEW w \in Event, <<h, w>> \in Entries(p), h[2] = 1
  PROVE  Head(syncs[p]).alive /\ h = <<Head(syncs[p]).limit, 1>> /\ w = Clients!Done
<1>1. OffersAt(p, h, w) \/ AnswersAt(p, h, w)
  BY EntriesMean DEF EntriesMeanAt, OrderInv, OrderTypes, Inv
<1>2. ~OffersAt(p, h, w)
  BY DEF OffersAt
<1>3. Head(syncs[p]) = syncs[p][1]
  BY DEF OrderInv, SyncTypes
<1> QED
  BY <1>1, <1>2, <1>3 DEF AnswersAt

\* A sync that lost its callback goes unseen.
LEMMA DropSyncRefines ==
  ASSUME OrderInv, OrderTypes', NEW p \in Peer, DropSync(p)
  PROVE  Refines
<1>1. /\ syncs[p] # <<>> /\ ~Head(syncs[p]).alive
      /\ syncs' = [syncs EXCEPT ![p] = Tail(@)]
      /\ UNCHANGED <<owner, object, offers, globals, nextName>>
  BY DEF DropSync, SyncIsNext, tableVars
<1>2. PICK E : E = Entries(p)
  OBVIOUS
<1>3. PICK F : F = Entries(p)'
  OBVIOUS
<1>4. /\ E \subseteq Place \X Event /\ Queues(E) /\ F \subseteq Place \X Event
      /\ \A h \in Place, w \in Event : <<h, w>> \in F <=> <<Moved(h), w>> \in E
  BY <1>1, <1>2, <1>3, EntriesStep, FirstSyncGone
<1>5. \A x \in E : x[1][2] # 1
  <2> SUFFICES ASSUME NEW x \in E, x[1][2] = 1 PROVE FALSE
    OBVIOUS
  <2>1. PICK h \in Place, w \in Event : x = <<h, w>>
    BY <1>4
  <2>2. h[2] = 1 /\ <<h, w>> \in Entries(p)
    BY <1>2, <2>1
  <2> QED
    BY <1>1, <2>2, FirstSyncPlace
<1>6. Queues(F) /\ Queue(F) = Queue(E)
  <2>1. Shifts(F, E, Event)
    BY <1>4, <1>5 DEF Shifts
  <2> QED
    BY <1>4, <2>1, ShiftQueued
<1>7. ASSUME NEW q \in Peer
      PROVE  /\ Queues(Entries(q)) => Queues(Entries(q))'
             /\ PeerQueue(q)' = PeerQueue(q)
  <2>1. CASE q = p
    BY <1>2, <1>3, <1>6, <2>1 DEF PeerQueue, Queue, Queues
  <2>2. CASE q # p
    <3>1. \A h, w : OffersAt(q, h, w)' <=> OffersAt(q, h, w)
      BY <1>1, SameOffers
    <3>2. syncs'[q] = syncs[q]
      BY <1>1, <2>2 DEF OrderInv, SyncTypes
    <3>3. \A h, w : AnswersAt(q, h, w)' <=> AnswersAt(q, h, w)
      BY <3>2, SameAnswers
    <3> QED
      BY <3>1, <3>3, SameQueue DEF OrderInv, OrderTypes, Inv
  <2> QED
    BY <2>1, <2>2
<1>8. ListeningPeers' = ListeningPeers /\ Announced' = Announced
  BY <1>1 DEF ListeningPeers, Announced
<1> QED
  BY <1>1, <1>7, <1>8, QuietStep

\* The queue of a peer is told event e.
TellsPeer(p, e) ==
  /\ Queued[p] # <<>> /\ e \in Head(Queued[p])
  /\ Queued' = [Queued EXCEPT ![p] = Clients!Rest(@, e)]

LEMMA ToldStep ==
  ASSUME NEW p \in Peer, NEW e, PeerQueue(p) # <<>>, e \in Head(PeerQueue(p)),
         Queued' = [Queued EXCEPT ![p] = Clients!Rest(PeerQueue(p), e)]
  PROVE  TellsPeer(p, e)
<1>1. Queued[p] = PeerQueue(p)
  BY QueuedIs
<1> QED
  BY <1>1 DEF TellsPeer

\* The answer to the first sync is told when it comes before all others.
LEMMA SendDoneRefines ==
  ASSUME OrderInv, OrderTypes', NEW p \in Peer, SendDone(p)
  PROVE  Refines
<1>1. /\ syncs[p] # <<>> /\ Head(syncs[p]).alive
      /\ \A x \in Pending(p) : EpochOf(x) > Head(syncs[p]).limit
      /\ syncs' = [syncs EXCEPT ![p] = Tail(@)]
      /\ UNCHANGED <<owner, object, offers, globals, nextName>>
  BY DEF SendDone, SyncIsNext, tableVars
<1>2. PICK bars \in Seq(Barrier) : bars = syncs[p] /\ 1 \in DOMAIN bars
  BY <1>1 DEF OrderInv, SyncTypes
<1>3. PICK top \in Nat :
        /\ top = Head(syncs[p]).limit /\ top = bars[1].limit /\ bars[1].alive
        /\ \A i \in DOMAIN bars : top <= bars[i].limit /\ bars[i].limit \in Nat
  <2>1. Head(syncs[p]) = bars[1]
    BY <1>1, <1>2
  <2>2. \A i \in DOMAIN bars : bars[i].limit \in Nat
    <3> SUFFICES ASSUME NEW i \in DOMAIN bars PROVE bars[i].limit \in Nat
      OBVIOUS
    <3>1. bars[i] \in Barrier
      OBVIOUS
    <3> QED
      BY <3>1, BoundAssumption DEF Barrier
  <2>3. \A i \in DOMAIN bars : bars[1].limit <= bars[i].limit
    <3>1. \A i \in DOMAIN bars : 1 <= i
      OBVIOUS
    <3> QED
      BY <1>2, <3>1 DEF OrderInv, Dated
  <2> QED
    BY <1>1, <1>2, <2>1, <2>2, <2>3
<1> DEFINE k == <<top, 1>>
           e == Clients!Done
<1>4. PICK E : E = Entries(p)
  OBVIOUS
<1>5. PICK F : F = Entries(p)'
  OBVIOUS
<1>6. PICK D : D = E \ {<<k, e>>}
  OBVIOUS
<1>7. /\ E \subseteq Place \X Event /\ Queues(E) /\ F \subseteq Place \X Event
      /\ \A h \in Place, w \in Event :
           <<h, w>> \in E <=> OffersAt(p, h, w) \/ AnswersAt(p, h, w)
  BY <1>4, <1>5, EntriesStep
<1>8. \A h \in Place, w \in Event : <<h, w>> \in F <=> <<Moved(h), w>> \in E
  BY <1>1, <1>4, <1>5, FirstSyncGone
<1>9. k \in Place /\ e \in Event /\ <<k, e>> \in E
  <2>1. k \in Place /\ e \in Event
    BY DEF Place, Event
  <2>2. AnswersAt(p, k, e)
    BY <1>2, <1>3 DEF AnswersAt
  <2> QED
    BY <1>7, <2>1, <2>2
<1>10. \A x \in E : x[1] = k \/ Precedes(k, x[1])
  <2> SUFFICES ASSUME NEW x \in E PROVE x[1] = k \/ Precedes(k, x[1])
    OBVIOUS
  <2>1. PICK h \in Place, w \in Event : x = <<h, w>>
    BY <1>7
  <2>2. CASE OffersAt(p, h, w)
    <3>1. PICK r \in Registry, g \in Global :
            /\ owner[r] = p /\ IsPending(offers[r][g])
            /\ h = <<offers[r][g].epoch, 0>>
      BY <2>2 DEF OffersAt
    <3>2. PICK y \in Pending(p) : y = <<r, g>>
      BY <3>1 DEF Pending
    <3>3. offers[r][g].epoch > top
      BY <1>1, <1>3, <3>2 DEF EpochOf
    <3>4. Precedes(k, h)
      BY <3>1, <3>3 DEF Precedes
    <3> QED
      BY <2>1, <3>4
  <2>3. CASE AnswersAt(p, h, w)
    <3>1. PICK i \in DOMAIN bars : h = <<bars[i].limit, i>>
      BY <1>2, <2>3 DEF AnswersAt
    <3>2. i \in Nat /\ (i = 1 \/ i > 1) /\ top <= bars[i].limit
          /\ bars[i].limit \in Nat
      BY <1>3, <3>1
    <3>3. CASE i = 1
      <4>1. h = k
        BY <1>3, <3>1, <3>3
      <4> QED
        BY <2>1, <4>1
    <3>4. CASE i > 1
      <4>1. Precedes(k, h)
        BY <3>1, <3>2, <3>4 DEF Precedes
      <4> QED
        BY <2>1, <4>1
    <3> QED
      BY <3>2, <3>3, <3>4
  <2>4. OffersAt(p, h, w) \/ AnswersAt(p, h, w)
    BY <1>7, <2>1
  <2> QED
    BY <2>2, <2>3, <2>4
<1>11. \A x \in D : x[1][2] # 1
  <2> SUFFICES ASSUME NEW x \in D, x[1][2] = 1 PROVE FALSE
    OBVIOUS
  <2>1. PICK h \in Place, w \in Event : x = <<h, w>>
    BY <1>6, <1>7
  <2>2. h[2] = 1 /\ <<h, w>> \in Entries(p)
    BY <1>4, <1>6, <2>1
  <2>3. h = k /\ w = e
    BY <1>1, <1>3, <2>2, FirstSyncPlace
  <2> QED
    BY <1>6, <2>1, <2>3
<1>12. \A h \in Place : Moved(h) \in Place /\ Moved(h) # k
  <2> SUFFICES ASSUME NEW h \in Place PROVE Moved(h) \in Place /\ Moved(h) # k
    OBVIOUS
  <2>1. PICK a \in Nat, b \in Nat : h = <<a, b>>
    BY DEF Place
  <2>2. PICK c \in Nat : c # 1 /\ Moved(h) = <<a, c>>
    <3>1. Moved(h) = <<a, IF b = 0 THEN 0 ELSE b + 1>>
      BY <2>1 DEF Moved
    <3>2. (IF b = 0 THEN 0 ELSE b + 1) \in Nat \ {1}
      OBVIOUS
    <3> QED
      BY <3>1, <3>2
  <2> QED
    BY <2>2 DEF Place
<1> HIDE DEF k, e
<1>13. Queues(D) /\ Queue(E) # <<>> /\ e \in Head(Queue(E))
       /\ Queue(D) = Clients!Rest(Queue(E), e)
  <2>1. D \subseteq Place \X Event
    BY <1>6, <1>7
  <2>2. \A h \in Place, w \in Event :
          <<h, w>> \in D <=> <<h, w>> \in E /\ ~(h = k /\ w = e)
    BY <1>6
  <2>3. Tells(D, E, k, e, Event)
    BY <1>7, <1>9, <1>10, <2>1, <2>2 DEF Tells
  <2> QED
    BY <1>7, <2>3, ToldQueued
<1>14. Queues(F) /\ Queue(F) = Queue(D)
  <2>1. D \subseteq Place \X Event
    BY <1>6, <1>7
  <2>2. \A h \in Place, w \in Event : <<h, w>> \in F <=> <<Moved(h), w>> \in D
    BY <1>6, <1>8, <1>12
  <2>3. Shifts(F, D, Event)
    BY <1>7, <1>11, <2>1, <2>2 DEF Shifts
  <2> QED
    BY <1>13, <2>3, ShiftQueued
<1>15. Listed' /\ Queued' = [Queued EXCEPT ![p] = Clients!Rest(PeerQueue(p), e)]
  <2>1. PeerQueue(p)' = Clients!Rest(PeerQueue(p), e) /\ Queues(Entries(p))'
    BY <1>4, <1>5, <1>13, <1>14 DEF PeerQueue, Queue, Queues
  <2>2. \A q \in Peer \ {p} : syncs'[q] = syncs[q]
    BY <1>1 DEF OrderInv, SyncTypes
  <2>3. \A q \in Peer \ {p} : \A h, w : OffersAt(q, h, w)' <=> OffersAt(q, h, w)
    BY <1>1, SameOffers
  <2> QED
    BY <2>1, <2>2, <2>3, OnlyQueue
<1>16. Clients!Tell(p)
  <2>1. ListeningPeers' = ListeningPeers /\ Announced' = Announced
    BY <1>1 DEF ListeningPeers, Announced
  <2>2. NamesUsed' = NamesUsed /\ globals' = globals
    BY <1>1 DEF NamesUsed
  <2>3. Queued[p] = PeerQueue(p) /\ PeerQueue(p) # <<>> /\ e \in Head(PeerQueue(p))
    BY <1>4, <1>13, QueuedIs DEF PeerQueue
  <2>4. e.kind = "done"
    BY DEF e, Clients!Done
  <2>5. TellsPeer(p, e)
    BY <1>15, <2>3, ToldStep
  <2> QED
    BY <2>1, <2>2, <2>4, <2>5 DEF Clients!Tell, TellsPeer
<1> QED
  BY <1>15, <1>16 DEF Refines, Clients!Next

\* The event owed longest is told, for that comes before the answer of any sync
\* unless that sync is next.
LEMMA SendOfferRefines ==
  ASSUME OrderInv, OrderTypes', NEW p \in Peer, NEW r \in Registry, NEW g \in Global,
         SendOffer(p, r, g)
  PROVE  Refines
<1>1. /\ ~SyncIsNext(p) /\ <<r, g>> \in NextPending(p)
      /\ owner[r] = p /\ object[r] /\ IsPending(offers[r][g])
      /\ offers' = [offers EXCEPT ![r][g] = Sent(offers[r][g])]
      /\ UNCHANGED <<owner, object, syncs, globals, nextName>>
  BY DEF SendOffer, NextPending, Pending
<1>2. /\ offers'[r][g] = Sent(offers[r][g])
      /\ \A s \in Registry, h \in Global :
           <<s, h>> # <<r, g>> => offers'[s][h] = offers[s][h]
  BY <1>1 DEF OrderInv, Inv, TableTypes
<1>3. /\ ~IsPending(offers'[r][g])
      /\ offers[r][g].state = "add_pending" => offers'[r][g].state = "offered"
      /\ offers[r][g].state # "add_pending" => offers'[r][g].state = "removal_sent"
  BY <1>2 DEF Sent, Settled, IsPending
<1>4. PICK since \in Nat : since = offers[r][g].epoch
  BY BoundAssumption DEF OrderInv, Inv, TableTypes
<1>5. PICK e \in Event :
        e = IF offers[r][g].state = "add_pending" THEN Clients!Add(r, g)
                                                  ELSE Clients!Remove(r, g)
  <2>1. Clients!Add(r, g) \in Event /\ Clients!Remove(r, g) \in Event
    BY DEF Event
  <2> QED
    BY <2>1
<1>6. PICK k \in Place : k = <<since, 0>>
  BY DEF Place
<1>7. ASSUME NEW h, NEW w
      PROVE  OffersAt(p, h, w)' <=> OffersAt(p, h, w) /\ ~(h = k /\ w = e)
  <2>1. ASSUME OffersAt(p, h, w)' PROVE OffersAt(p, h, w) /\ w # e
    <3>1. PICK s \in Registry, f \in Global :
            /\ owner'[s] = p /\ object'[s] /\ IsPending(offers'[s][f])
            /\ h = <<offers'[s][f].epoch, 0>>
            /\ w = IF offers'[s][f].state = "add_pending" THEN Clients!Add(s, f)
                                                          ELSE Clients!Remove(s, f)
      BY <2>1 DEF OffersAt
    <3>2. <<s, f>> # <<r, g>>
      BY <1>3, <3>1
    <3>3. offers'[s][f] = offers[s][f]
      BY <1>2, <3>2
    <3>4. OffersAt(p, h, w)
      BY <1>1, <3>1, <3>3 DEF OffersAt
    <3>5. w # e
      <4>1. /\ Clients!Add(s, f) # Clients!Add(r, g)
            /\ Clients!Remove(s, f) # Clients!Remove(r, g)
            /\ Clients!Add(s, f) # Clients!Remove(r, g)
            /\ Clients!Remove(s, f) # Clients!Add(r, g)
        BY <3>2, EventsDiffer
      <4> QED
        BY <1>5, <3>1, <4>1
    <3> QED
      BY <3>4, <3>5
  <2>2. ASSUME OffersAt(p, h, w), ~(h = k /\ w = e) PROVE OffersAt(p, h, w)'
    <3>1. PICK s \in Registry, f \in Global :
            /\ owner[s] = p /\ object[s] /\ IsPending(offers[s][f])
            /\ h = <<offers[s][f].epoch, 0>>
            /\ w = IF offers[s][f].state = "add_pending" THEN Clients!Add(s, f)
                                                         ELSE Clients!Remove(s, f)
      BY <2>2 DEF OffersAt
    <3>2. <<s, f>> # <<r, g>>
      <4> SUFFICES ASSUME s = r, f = g PROVE FALSE
        OBVIOUS
      <4>1. h = k
        BY <1>4, <1>6, <3>1
      <4>2. w = e
        BY <1>5, <3>1
      <4> QED
        BY <2>2, <4>1, <4>2
    <3>3. offers'[s][f] = offers[s][f]
      BY <1>2, <3>2
    <3> QED
      BY <1>1, <3>1, <3>3 DEF OffersAt
  <2> QED
    BY <2>1, <2>2
<1>8. ASSUME NEW h, NEW w, AnswersAt(p, h, w)
      PROVE  w # e
  <2>1. Clients!Add(r, g) # Clients!Done /\ Clients!Remove(r, g) # Clients!Done
    BY EventsDiffer
  <2> QED
    BY <1>5, <1>8, <2>1 DEF AnswersAt
<1>9. ASSUME NEW h, NEW w
      PROVE  AnswersAt(p, h, w)' <=> AnswersAt(p, h, w)
  BY <1>1 DEF AnswersAt
<1>10. PICK E : E = Entries(p)
  OBVIOUS
<1>11. PICK F : F = Entries(p)'
  OBVIOUS
<1>12. /\ E \subseteq Place \X Event /\ Queues(E) /\ F \subseteq Place \X Event
       /\ \A h \in Place, w \in Event :
            <<h, w>> \in E <=> OffersAt(p, h, w) \/ AnswersAt(p, h, w)
       /\ \A h \in Place, w \in Event :
            <<h, w>> \in F <=> OffersAt(p, h, w)' \/ AnswersAt(p, h, w)'
  BY <1>10, <1>11, EntriesStep
<1>13. \A h \in Place, w \in Event :
         <<h, w>> \in F <=> <<h, w>> \in E /\ ~(h = k /\ w = e)
  BY <1>7, <1>8, <1>9, <1>12
<1>14. <<k, e>> \in E
  <2>1. OffersAt(p, k, e)
    BY <1>1, <1>4, <1>5, <1>6 DEF OffersAt
  <2> QED
    BY <1>12, <2>1
<1>15. ASSUME NEW s \in Registry, NEW f \in Global, owner[s] = p,
              IsPending(offers[s][f])
       PROVE  offers[s][f].epoch \in Nat /\ since <= offers[s][f].epoch
  <2>1. offers[s][f].epoch \in Nat
    BY BoundAssumption DEF OrderInv, Inv, TableTypes
  <2>2. PICK y \in Pending(p) : y = <<s, f>>
    BY <1>15 DEF Pending
  <2>3. EpochOf(<<r, g>>) <= EpochOf(y)
    BY <1>1, <2>2 DEF NextPending
  <2> QED
    BY <1>4, <2>1, <2>2, <2>3 DEF EpochOf
<1>16. ASSUME NEW i \in DOMAIN syncs[p]
       PROVE  /\ i \in Nat \ {0}
              /\ syncs[p][i].limit \in Nat /\ since <= syncs[p][i].limit
  <2>1. PICK bars \in Seq(Barrier) : bars = syncs[p]
    BY DEF OrderInv, SyncTypes
  <2>2. /\ i \in Nat \ {0} /\ 1 \in DOMAIN bars /\ 1 <= i /\ bars # <<>>
        /\ bars[i] \in Barrier /\ bars[1] \in Barrier /\ Head(bars) = bars[1]
    BY <2>1
  <2>3. bars[i].limit \in Nat /\ bars[1].limit \in Nat
    BY <2>2, BoundAssumption DEF Barrier
  <2>4. bars[1].limit <= bars[i].limit
    BY <2>1, <2>2 DEF OrderInv, Dated
  <2>5. PICK y \in Pending(p) : ~(EpochOf(y) > bars[1].limit)
    BY <1>1, <2>1, <2>2 DEF SyncIsNext
  <2>6. PICK s \in Registry, f \in Global : y = <<s, f>>
    BY <2>5 DEF Pending
  <2>7. owner[s] = p /\ IsPending(offers[s][f])
    BY <2>5, <2>6 DEF Pending
  <2>8. offers[s][f].epoch \in Nat /\ since <= offers[s][f].epoch
    BY <1>15, <2>7
  <2>9. ~(offers[s][f].epoch > bars[1].limit)
    BY <2>5, <2>6 DEF EpochOf
  <2> QED
    BY <2>1, <2>2, <2>3, <2>4, <2>8, <2>9
<1>17. \A x \in E : x[1] = k \/ Precedes(k, x[1])
  <2> SUFFICES ASSUME NEW x \in E PROVE x[1] = k \/ Precedes(k, x[1])
    OBVIOUS
  <2>1. PICK h \in Place, w \in Event : x = <<h, w>>
    BY <1>12
  <2> SUFFICES h = k \/ Precedes(k, h)
    BY <2>1
  <2>2. CASE OffersAt(p, h, w)
    <3>1. PICK s \in Registry, f \in Global :
            /\ owner[s] = p /\ IsPending(offers[s][f])
            /\ h = <<offers[s][f].epoch, 0>>
      BY <2>2 DEF OffersAt
    <3>2. offers[s][f].epoch \in Nat /\ since <= offers[s][f].epoch
      BY <1>15, <3>1
    <3> QED
      BY <1>6, <3>1, <3>2 DEF Precedes
  <2>3. CASE AnswersAt(p, h, w)
    <3>1. PICK i \in DOMAIN syncs[p] : h = <<syncs[p][i].limit, i>>
      BY <2>3 DEF AnswersAt
    <3>2. /\ i \in Nat \ {0}
          /\ syncs[p][i].limit \in Nat /\ since <= syncs[p][i].limit
      BY <1>16
    <3> QED
      BY <1>6, <3>1, <3>2 DEF Precedes
  <2> QED
    BY <1>12, <2>1, <2>2, <2>3
<1>18. /\ Queues(F) /\ Queue(E) # <<>> /\ e \in Head(Queue(E))
       /\ Queue(F) = Clients!Rest(Queue(E), e)
  <2>1. E \subseteq Place \X Event /\ Queues(E) /\ F \subseteq Place \X Event
    BY <1>12
  <2>2. Tells(F, E, k, e, Event)
    BY <1>13, <1>14, <1>17, <2>1 DEF Tells
  <2> QED
    BY <2>1, <2>2, ToldQueued
<1>19. Listed' /\ TellsPeer(p, e)
  <2>1. PeerQueue(p)' = Clients!Rest(PeerQueue(p), e) /\ Queues(Entries(p))'
    BY <1>10, <1>11, <1>18 DEF PeerQueue, Queue, Queues
  <2>2. \A q \in Peer \ {p} : syncs'[q] = syncs[q]
    BY <1>1
  <2>3. ASSUME NEW q \in Peer \ {p}
        PROVE  \A h, w : OffersAt(q, h, w)' <=> OffersAt(q, h, w)
    <3>1. \A s \in Registry : owner'[s] = q /\ object'[s] <=> owner[s] = q /\ object[s]
      BY <1>1
    <3>2. \A s \in Registry, f \in Global : owner[s] = q /\ object[s] =>
             /\ IsPending(offers'[s][f]) <=> IsPending(offers[s][f])
             /\ IsPending(offers[s][f]) => offers'[s][f] = offers[s][f]
      BY <1>1, <1>2
    <3> QED
      BY <3>1, <3>2, SameOffers
  <2>4. Listed' /\ Queued' = [Queued EXCEPT ![p] = Clients!Rest(PeerQueue(p), e)]
    BY <2>1, <2>2, <2>3, OnlyQueue
  <2>5. PeerQueue(p) # <<>> /\ e \in Head(PeerQueue(p))
    BY <1>10, <1>18 DEF PeerQueue
  <2> QED
    BY <2>4, <2>5, ToldStep
<1>20. /\ ListeningPeers' = ListeningPeers
       /\ NamesUsed' = NamesUsed /\ globals' = globals
  BY <1>1 DEF ListeningPeers, NamesUsed
<1>21. CASE offers[r][g].state = "add_pending"
  <2>1. e = Clients!Add(r, g) /\ e.kind = "global" /\ e.registry = r /\ e.global = g
    BY <1>5, <1>21 DEF Clients!Add
  <2>2. g \in globals
    BY <1>21 DEF OrderInv, Inv, OffersAreCurrent
  <2>3. <<r, g>> \notin Announced
    BY <1>21 DEF Announced
  <2>4. Announced' = Announced \cup {<<r, g>>}
    <3> SUFFICES ASSUME NEW s \in Registry, NEW f \in Global
                 PROVE  <<s, f>> \in Announced' <=>
                          <<s, f>> \in Announced \/ <<s, f>> = <<r, g>>
      BY DEF Announced
    <3>1. CASE <<s, f>> = <<r, g>>
      BY <1>1, <1>3, <1>21, <3>1 DEF Announced
    <3>2. CASE <<s, f>> # <<r, g>>
      <4>1. offers'[s][f] = offers[s][f]
        BY <1>2, <3>2
      <4> QED
        BY <1>1, <3>2, <4>1 DEF Announced
    <3> QED
      BY <3>1, <3>2
  <2>5. Clients!Tell(p)
    BY <1>19, <1>20, <2>1, <2>2, <2>3, <2>4 DEF Clients!Tell, TellsPeer
  <2> QED
    BY <1>19, <2>5 DEF Refines, Clients!Next
<1>22. CASE offers[r][g].state # "add_pending"
  <2>1. /\ e = Clients!Remove(r, g)
        /\ e.kind = "global_remove" /\ e.registry = r /\ e.global = g
    BY <1>5, <1>22 DEF Clients!Remove
  <2>2. <<r, g>> \in Announced
    BY <1>1, <1>22 DEF Announced, IsPending
  <2>3. Announced' = Announced \ {<<r, g>>}
    <3> SUFFICES ASSUME NEW s \in Registry, NEW f \in Global
                 PROVE  <<s, f>> \in Announced' <=>
                          <<s, f>> \in Announced /\ <<s, f>> # <<r, g>>
      BY DEF Announced
    <3>1. CASE <<s, f>> = <<r, g>>
      BY <1>1, <1>3, <1>22, <3>1 DEF Announced
    <3>2. CASE <<s, f>> # <<r, g>>
      <4>1. offers'[s][f] = offers[s][f]
        BY <1>2, <3>2
      <4> QED
        BY <1>1, <3>2, <4>1 DEF Announced
    <3> QED
      BY <3>1, <3>2
  <2>4. Clients!Tell(p)
    BY <1>19, <1>20, <2>1, <2>2, <2>3 DEF Clients!Tell, TellsPeer
  <2> QED
    BY <1>19, <2>4 DEF Refines, Clients!Next
<1> QED
  BY <1>21, <1>22

-----------------------------------------------------------------------------
(* The refinement. *)

\* Nothing is owed at first.
LEMMA InitOrdered == Init => OrderInv /\ Clients!Init
<1> SUFFICES ASSUME Init PROVE OrderInv /\ Clients!Init
  OBVIOUS
<1>1. Inv
  BY InitInv
<1>2. SyncTypes
  BY DEF Init, SyncTypes
<1>3. Dated
  BY DEF Init, Dated, IsPending, NoOffer
<1>4. ASSUME NEW p \in Peer
      PROVE  Queues(Entries(p)) /\ PeerQueue(p) = <<>>
  <2>1. Pending(p) = {}
    BY DEF Init, Pending, IsPending, NoOffer
  <2>2. OwedOffers(p) = {}
    BY <2>1 DEF OwedOffers
  <2>3. OwedAnswers(p) = {}
    BY DEF Init, OwedAnswers
  <2>4. Entries(p) = {}
    BY <2>2, <2>3 DEF Entries
  <2> QED
    BY <2>4, NothingQueued DEF PeerQueue
<1>5. Queued = [p \in Peer |-> <<>>]
  BY <1>4, QueuedIs
<1>6. /\ NamesUsed = {} /\ Announced = {}
      /\ ListeningPeers = [r \in Registry |-> NoPeer]
  BY DEF Init, NamesUsed, Announced, ListeningPeers
<1>7. OrderInv
  BY <1>1, <1>2, <1>3, <1>4 DEF OrderInv, Listed
<1>8. Clients!Init
  BY <1>5, <1>6 DEF Init, Clients!Init
<1> QED
  BY <1>7, <1>8

\* Every step keeps the order and is one of the abstraction, or none.
LEMMA OrderNext ==
  OrderInv /\ [Next]_vars => OrderInv' /\ [Clients!Next]_(Clients!vars)
<1> SUFFICES ASSUME OrderInv, [Next]_vars
             PROVE  OrderInv' /\ [Clients!Next]_(Clients!vars)
  OBVIOUS
<1>1. Inv /\ SyncTypes /\ Dated
  BY DEF OrderInv
<1>2. Inv'
  BY <1>1, NextInv
<1>3. SyncTypes'
  BY <1>1, SyncTypesNext DEF Inv
<1>4. Dated'
  BY <1>1, DatedNext
<1>5. OrderTypes'
  BY <1>2, <1>3 DEF OrderTypes, Inv
<1> SUFFICES Refines
  BY <1>2, <1>3, <1>4 DEF OrderInv, Refines
<1>6. ASSUME NEW p \in Peer, Connect(p) \/ Close(p) \/ Drain(p) \/ Block(p) \/ Skip(p)
      PROVE  Refines
  <2>1. UNCHANGED <<syncs, tableVars>>
    BY <1>6 DEF Connect, Close, Drain, Block, Skip
  <2> QED
    BY <1>5, <2>1, IdleStep
<1>7. CASE BeginPass \/ EndPass \/ UNCHANGED vars
  <2>1. UNCHANGED <<syncs, tableVars>>
    BY <1>7 DEF BeginPass, EndPass, vars
  <2> QED
    BY <1>5, <2>1, IdleStep
<1>8. ASSUME NEW p \in Peer,
             \/ DestroyClient(p) \/ CompleteSync(p) \/ LoseCallback(p)
             \/ DropSync(p) \/ SendDone(p)
      PROVE  Refines
  BY <1>5, <1>8, DestroyClientRefines, CompleteSyncRefines, LoseCallbackRefines,
     DropSyncRefines, SendDoneRefines
<1>9. ASSUME NEW p \in Peer, NEW r \in Registry,
             Subscribe(p, r) \/ RemoveRegistry(p, r) \/ DropRegistry(p, r)
      PROVE  Refines
  BY <1>5, <1>9, SubscribeRefines, RemoveRegistryRefines, DropRegistryRefines
<1>10. ASSUME NEW p \in Peer, NEW r \in Registry, NEW g \in Global,
              AckGlobalRemove(p, r, g) \/ SendOffer(p, r, g)
       PROVE  Refines
  BY <1>5, <1>10, AckRefines, SendOfferRefines
<1>11. ASSUME NEW r \in Registry, LoseRegistry(r)
       PROVE  Refines
  BY <1>5, <1>11, LoseRegistryRefines
<1>12. CASE AddGlobal \/ AddGlobalFails
  BY <1>5, <1>12, AddGlobalRefines, AddGlobalFailsRefines
<1>13. ASSUME NEW g \in Global, RemoveGlobal(g)
       PROVE  Refines
  BY <1>5, <1>13, RemoveGlobalRefines
<1>14. CASE Publish
  BY <1>6, <1>7, <1>8, <1>9, <1>10, <1>14 DEF Publish
<1> QED
  BY <1>6, <1>7, <1>8, <1>9, <1>10, <1>11, <1>12, <1>13, <1>14 DEF Next

\* The announcements, removals and answers owed to a peer are always those of
\* some queue in the order of events: barriers wait for epochs that do not
\* decrease, and no epoch is later than the present one.
THEOREM OrderInvariance == Spec => []OrderInv
BY InitOrdered, OrderNext, PTL DEF Spec

\* What offers, epochs and limits come to is one queue for each client: every
\* step of publishNext tells the client an event of its first batch, and every
\* other step of the registry appends a batch, withdraws what was not sent, or
\* leaves the queues alone.
THEOREM OrderRefined == Spec => InOrder
<1>1. Init => OrderInv /\ Clients!Init
  BY InitOrdered
<1>2. OrderInv /\ [Next]_vars => OrderInv' /\ [Clients!Next]_(Clients!vars)
  BY OrderNext
<1> QED
  BY <1>1, <1>2, PTL DEF Spec, InOrder, Clients!Spec
=============================================================================
