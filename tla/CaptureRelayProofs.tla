------------------------- MODULE CaptureRelayProofs -------------------------
(***************************************************************************)
(* Proofs about CaptureRelay, for either shell, any marker and limit and   *)
(* any number of commands: first what the filters keep of a sequence and   *)
(* of a concatenation, then what the relay retains of what it has taken    *)
(* in, then where the last marker is in what was shown, and the invariant  *)
(* that holds relay, pipe and shell together.                              *)
(***************************************************************************)
EXTENDS CaptureRelay, FiniteSetTheorems, SequenceTheorems, TLAPS

\* A nonempty set of numbers has a least element: the induction principle in
\* the form that takes a set.
LEMMA Least ==
  ASSUME NEW T \in SUBSET Nat, T # {}
  PROVE  \E x \in T : \A y \in T : x <= y
<1> DEFINE R == {ss \in Nat \X Nat : ss[1] < ss[2]}
<1>1. IsWellFoundedOn(R, Nat)
  BY NatLessThanWellFounded DEF OpToRel
<1>2. \A x, y \in Nat : x < y => <<x, y>> \in R
  OBVIOUS
<1> HIDE DEF R
<1>3. PICK x \in T : \A y \in T : ~(<<y, x>> \in R)
  BY <1>1, WFMin
<1>4. \A y \in T : ~(y < x)
  BY <1>2, <1>3
<1> QED
  BY <1>4

\* Max of a nonempty set of numbers below a bound.
LEMMA MaxOf ==
  ASSUME NEW n \in Nat, NEW T \in SUBSET (0 .. n), T # {}
  PROVE  Max(T) \in T /\ \A y \in T : y <= Max(T)
<1> DEFINE U == {n - x : x \in T}
<1>1. U \subseteq Nat
  OBVIOUS
<1>0. U # {}
  OBVIOUS
<1>2. PICK u \in U : \A v \in U : u <= v
  BY <1>0, <1>1, Least
<1>3. PICK x \in T : u = n - x
  BY <1>2
<1>4. \A y \in T : n - y \in U /\ y \in Nat /\ x \in Nat
  OBVIOUS
<1>5. \A y \in T : x >= y
  BY <1>2, <1>3, <1>4
<1>6. \E z \in T : \A y \in T : z >= y
  BY <1>5
<1> QED
  BY <1>6 DEF Max

-----------------------------------------------------------------------------
(***************************************************************************)
(* Positions.  Rank and Nth are inverse to each other between a set of     *)
(* positions and 1 .. its cardinality.                                     *)
(***************************************************************************)

\* K is a set of positions of a sequence of n elements.
Positions(K, n) == \A i \in K : i \in Nat /\ 1 <= i /\ i <= n
Rank(K, k) == Cardinality({i \in K : i <= k})
Nth(K, j) == CHOOSE k \in K : Rank(K, k) = j

\* Rank counts up by one at each position of K and only there.
LEMMA RankFacts ==
  ASSUME NEW n \in Nat, NEW K, Positions(K, n)
  PROVE  /\ IsFiniteSet(K) /\ Cardinality(K) \in 0 .. n
         /\ Rank(K, 0) = 0 /\ Rank(K, n) = Cardinality(K)
         /\ \A k \in Nat : Rank(K, k) \in 0 .. Cardinality(K)
         /\ \A k \in Nat : Rank(K, k + 1) = IF k + 1 \in K THEN Rank(K, k) + 1 ELSE Rank(K, k)
<1>0. \A i \in K : i \in Nat /\ 1 <= i /\ i <= n
  BY DEF Positions
<1>a. K \in SUBSET (1 .. n)
  BY <1>0
<1>1. IsFiniteSet(K) /\ Cardinality(K) <= n
  <2>1. IsFiniteSet(1 .. n) /\ Cardinality(1 .. n) = n
    BY FS_Interval
  <2> QED
    BY <1>a, <2>1, FS_Subset
<1>2. Cardinality(K) \in Nat
  BY <1>1, FS_CardinalityType
<1>3. \A k : IsFiniteSet({i \in K : i <= k}) /\ Rank(K, k) \in Nat /\ Rank(K, k) <= Cardinality(K)
  <2> TAKE k
  <2>1. {i \in K : i <= k} \in SUBSET K
    OBVIOUS
  <2> QED
    BY <1>1, <2>1, FS_Subset, FS_CardinalityType DEF Rank
<1>4. Rank(K, 0) = 0
  <2>1. {i \in K : i <= 0} = {}
    BY <1>0
  <2> QED
    BY <2>1, FS_EmptySet DEF Rank
<1>5. Rank(K, n) = Cardinality(K)
  <2>1. {i \in K : i <= n} = K
    BY <1>0
  <2> QED
    BY <2>1 DEF Rank
<1>6. ASSUME NEW k \in Nat
      PROVE  Rank(K, k + 1) = IF k + 1 \in K THEN Rank(K, k) + 1 ELSE Rank(K, k)
  <2>1. CASE k + 1 \in K
    <3>1. {i \in K : i <= k + 1} = {i \in K : i <= k} \cup {k + 1}
      BY <1>0, <2>1
    <3>2. k + 1 \notin {i \in K : i <= k}
      OBVIOUS
    <3> QED
      BY <1>3, <2>1, <3>1, <3>2, FS_AddElement DEF Rank
  <2>2. CASE k + 1 \notin K
    <3>1. {i \in K : i <= k + 1} = {i \in K : i <= k}
      BY <1>0, <2>2
    <3> QED
      BY <2>2, <3>1 DEF Rank
  <2> QED
    BY <2>1, <2>2
<1>7. Cardinality(K) \in 0 .. n
  BY <1>1, <1>2
<1>8. ASSUME NEW k \in Nat PROVE Rank(K, k) \in 0 .. Cardinality(K)
  <2>1. Rank(K, k) \in Nat /\ Rank(K, k) <= Cardinality(K)
    BY <1>3
  <2> QED
    BY <1>2, <2>1
<1> QED
  BY <1>1, <1>4, <1>5, <1>6, <1>7, <1>8

\* Rank grows strictly at the positions of K.
LEMMA RankMonotone ==
  ASSUME NEW n \in Nat, NEW K, Positions(K, n), NEW k \in Nat, NEW l \in K, k < l
  PROVE  Rank(K, k) < Rank(K, l)
<1> DEFINE A == {i \in K : i <= k}
           B == {i \in K : i <= l}
<1>1. IsFiniteSet(K) /\ B \in SUBSET K /\ A \in SUBSET (B \ {l}) /\ l \in B
  BY RankFacts DEF Positions
<1>2. IsFiniteSet(B) /\ IsFiniteSet(B \ {l}) /\ Cardinality(B \ {l}) = Cardinality(B) - 1
  BY <1>1, FS_Subset, FS_RemoveElement
<1>3. Cardinality(A) <= Cardinality(B) - 1
  BY <1>1, <1>2, FS_Subset
<1>4. Rank(K, k) = Cardinality(A) /\ Rank(K, l) = Cardinality(B)
  BY DEF Rank
<1>5. l \in Nat
  BY DEF Positions
<1>6. Rank(K, k) \in Nat /\ Rank(K, l) \in Nat
  BY <1>5, RankFacts
<1> QED
  BY <1>3, <1>4, <1>6

\* Every number up to the cardinality is the rank of one position.
LEMMA NthRank ==
  ASSUME NEW n \in Nat, NEW K, Positions(K, n)
  PROVE  /\ \A j \in 1 .. Cardinality(K) : Nth(K, j) \in K /\ Rank(K, Nth(K, j)) = j
         /\ \A k \in K : Rank(K, k) \in 1 .. Cardinality(K) /\ Nth(K, Rank(K, k)) = k
<1>1. ASSUME NEW j \in 1 .. Cardinality(K) PROVE Nth(K, j) \in K /\ Rank(K, Nth(K, j)) = j
  <2> DEFINE T == {m \in Nat : Rank(K, m) >= j}
  <2>1. n \in T
    BY RankFacts
  <2>2. PICK m \in T : \A i \in T : m <= i
    BY <2>1, Least
  <2>3. m # 0
    BY RankFacts
  <2>4. m - 1 \in Nat /\ m - 1 \notin T /\ (m - 1) + 1 = m
    BY <2>2, <2>3
  <2>5. /\ Rank(K, m - 1) \in Nat
        /\ Rank(K, m) = IF m \in K THEN Rank(K, m - 1) + 1 ELSE Rank(K, m - 1)
    BY <2>4, RankFacts
  <2>6. m \in K /\ Rank(K, m) = j
    BY <2>4, <2>5
  <2> QED
    BY <2>6 DEF Nth
<1>2. ASSUME NEW k \in K PROVE Rank(K, k) \in 1 .. Cardinality(K) /\ Nth(K, Rank(K, k)) = k
  <2>0. \A i \in K : i \in Nat /\ 0 < i
    BY DEF Positions
  <2>1. Rank(K, k) > Rank(K, 0) /\ Rank(K, 0) = 0 /\ Rank(K, k) \in 0 .. Cardinality(K)
        /\ Cardinality(K) \in Nat
    BY <2>0, RankFacts, RankMonotone
  <2>2. Rank(K, k) \in 1 .. Cardinality(K)
    BY <2>1
  <2>3. Nth(K, Rank(K, k)) \in K /\ Rank(K, Nth(K, Rank(K, k))) = Rank(K, k)
    BY <1>1, <2>2
  <2>4. \A i \in K : Rank(K, i) = Rank(K, k) => i = k
    <3> SUFFICES ASSUME NEW i \in K, i # k PROVE Rank(K, i) # Rank(K, k)
      OBVIOUS
    <3>1. Rank(K, i) \in Nat /\ Rank(K, k) \in Nat /\ (i < k \/ k < i) /\ i \in Nat /\ k \in Nat
      BY <2>0, RankFacts
    <3> QED
      BY <3>1, RankMonotone
  <2> QED
    BY <2>2, <2>3, <2>4
<1> QED
  BY <1>1, <1>2

\* A function on 1 .. n is a sequence of n elements.
LEMMA FcnSeq ==
  ASSUME NEW S, NEW n \in Nat, NEW f \in [1 .. n -> S]
  PROVE  f \in Seq(S) /\ Len(f) = n
<1>1. f \in Seq(S)
  BY SeqDef
<1> QED
  BY <1>1, LenProperties

\* What At returns, by rank.
LEMMA AtFacts ==
  ASSUME NEW S, NEW s \in Seq(S), NEW K, Positions(K, Len(s))
  PROVE  /\ At(s, K) \in Seq(S) /\ Len(At(s, K)) = Cardinality(K)
         /\ Cardinality(K) \in 0 .. Len(s)
         /\ \A j \in 1 .. Cardinality(K) : Nth(K, j) \in K /\ At(s, K)[j] = s[Nth(K, j)]
         /\ \A k \in K : Rank(K, k) \in 1 .. Cardinality(K) /\ At(s, K)[Rank(K, k)] = s[k]
<1> DEFINE c == Cardinality(K)
<1>1. Len(s) \in Nat /\ c \in 0 .. Len(s) /\ c \in Nat
  BY RankFacts, LenProperties
<1>2. \A j \in 1 .. c : Nth(K, j) \in K /\ Rank(K, Nth(K, j)) = j
  BY <1>1, NthRank
<1>3. \A k \in K : Rank(K, k) \in 1 .. c /\ Nth(K, Rank(K, k)) = k
  BY <1>1, NthRank
<1>4. \A k \in K : s[k] \in S
  BY ElementOfSeq, <1>1 DEF Positions
<1>5. At(s, K) = [j \in 1 .. c |-> s[Nth(K, j)]]
  BY DEF At, Nth, Rank
<1> HIDE DEF c
<1>6. At(s, K) \in [1 .. c -> S]
  BY <1>2, <1>4, <1>5
<1>7. At(s, K) \in Seq(S) /\ Len(At(s, K)) = c
  BY <1>1, <1>6, FcnSeq
<1>8. \A j \in 1 .. c : At(s, K)[j] = s[Nth(K, j)]
  BY <1>5
<1>9. \A k \in K : At(s, K)[Rank(K, k)] = s[k]
  BY <1>3, <1>8
<1> QED
  BY <1>1, <1>2, <1>3, <1>7, <1>8, <1>9 DEF c

\* At is the only sequence with that property.
LEMMA AtUnique ==
  ASSUME NEW S, NEW s \in Seq(S), NEW K, Positions(K, Len(s)),
         NEW t \in Seq(S), Len(t) = Cardinality(K), \A k \in K : t[Rank(K, k)] = s[k]
  PROVE  At(s, K) = t
<1>1. At(s, K) \in Seq(S) /\ Len(At(s, K)) = Len(t)
  BY AtFacts
<1>2. ASSUME NEW j \in 1 .. Len(t) PROVE At(s, K)[j] = t[j]
  <2>1. Nth(K, j) \in K /\ At(s, K)[j] = s[Nth(K, j)]
    BY AtFacts
  <2>2. Rank(K, Nth(K, j)) = j
    BY NthRank, LenProperties
  <2> QED
    BY <2>1, <2>2
<1> QED
  BY <1>1, <1>2, SeqEqual

\* A set and its image under an injection have as many elements.
LEMMA SameCardinality ==
  ASSUME NEW A, IsFiniteSet(A), NEW B, NEW f \in [A -> B],
         \A x, y \in A : f[x] = f[y] => x = y, \A z \in B : \E x \in A : f[x] = z
  PROVE  IsFiniteSet(B) /\ Cardinality(B) = Cardinality(A)
<1>1. f \in Bijection(A, B)
  BY DEF Bijection, Injection, IsInjective, Surjection
<1> QED
  BY <1>1, FS_Bijection DEF ExistsBijection

\* The positions of L, moved behind n others.
Moved(L, n) == {n + l : l \in L}

\* Moving positions keeps their ranks.
LEMMA MovedFacts ==
  ASSUME NEW m \in Nat, NEW L, Positions(L, m), NEW n \in Nat
  PROVE  /\ IsFiniteSet(Moved(L, n)) /\ Cardinality(Moved(L, n)) = Cardinality(L)
         /\ \A i \in Moved(L, n) : i \in Nat /\ n < i /\ i <= n + m
<1> DEFINE f == [l \in L |-> n + l]
<1>0. \A l \in L : l \in Nat /\ 1 <= l /\ l <= m
  BY DEF Positions
<1>1. f \in [L -> Moved(L, n)]
  BY DEF Moved
<1>2. \A x, y \in L : f[x] = f[y] => x = y
  BY <1>0
<1>3. \A z \in Moved(L, n) : \E x \in L : f[x] = z
  BY DEF Moved
<1>4. IsFiniteSet(L)
  BY RankFacts
<1> HIDE DEF f
<1>5. IsFiniteSet(Moved(L, n)) /\ Cardinality(Moved(L, n)) = Cardinality(L)
  BY <1>1, <1>2, <1>3, <1>4, SameCardinality
<1>6. \A i \in Moved(L, n) : i \in Nat /\ n < i /\ i <= n + m
  BY <1>0 DEF Moved
<1> QED
  BY <1>5, <1>6

\* Disjoint sets of positions count together.
LEMMA CountBoth ==
  ASSUME NEW A, NEW B, IsFiniteSet(A), IsFiniteSet(B), \A x \in A : x \notin B
  PROVE  Cardinality(A \cup B) = Cardinality(A) + Cardinality(B)
<1>1. A \cap B = {}
  OBVIOUS
<1>2. Cardinality(A \cap B) = 0
  BY <1>1, FS_EmptySet
<1>3. Cardinality(A) \in Nat /\ Cardinality(B) \in Nat
  BY FS_CardinalityType
<1>4. Cardinality(A \cup B) = Cardinality(A) + Cardinality(B) - Cardinality(A \cap B)
  BY FS_Union
<1> QED
  BY <1>2, <1>3, <1>4

\* Selecting from a concatenation is selecting from each part.
LEMMA AtConcat ==
  ASSUME NEW S, NEW s \in Seq(S), NEW t \in Seq(S),
         NEW K, Positions(K, Len(s)), NEW L, Positions(L, Len(t))
  PROVE  At(s \o t, K \cup Moved(L, Len(s))) = At(s, K) \o At(t, L)
<1> DEFINE n == Len(s)
           J == K \cup Moved(L, n)
           u == At(s, K) \o At(t, L)
<1>0. n \in Nat /\ Len(t) \in Nat
  BY LenProperties
<1>a. \A k \in K : k \in Nat /\ 1 <= k /\ k <= n
  BY DEF Positions
<1>b. \A l \in L : l \in Nat /\ 1 <= l /\ l <= Len(t)
  BY DEF Positions
<1>c. IsFiniteSet(K) /\ IsFiniteSet(L)
  BY <1>0, RankFacts
<1>d. /\ s \o t \in Seq(S) /\ Len(s \o t) = n + Len(t)
      /\ \A i \in 1 .. n + Len(t) : (s \o t)[i] = IF i <= n THEN s[i] ELSE t[i - n]
  BY ConcatProperties
<1>e. /\ At(s, K) \in Seq(S) /\ Len(At(s, K)) = Cardinality(K) /\ Cardinality(K) \in Nat
      /\ At(t, L) \in Seq(S) /\ Len(At(t, L)) = Cardinality(L) /\ Cardinality(L) \in Nat
  BY <1>c, AtFacts, FS_CardinalityType
<1>f. /\ u \in Seq(S) /\ Len(u) = Cardinality(K) + Cardinality(L)
      /\ \A i \in 1 .. Cardinality(K) + Cardinality(L) :
           u[i] = IF i <= Cardinality(K) THEN At(s, K)[i] ELSE At(t, L)[i - Cardinality(K)]
  <2> DEFINE a == At(s, K)
             b == At(t, L)
  <2>1. a \in Seq(S) /\ b \in Seq(S) /\ Len(a) = Cardinality(K) /\ Len(b) = Cardinality(L)
    BY <1>e
  <2> HIDE DEF a, b
  <2>2. /\ a \o b \in Seq(S) /\ Len(a \o b) = Len(a) + Len(b)
        /\ \A i \in 1 .. Len(a) + Len(b) : (a \o b)[i] = IF i <= Len(a) THEN a[i] ELSE b[i - Len(a)]
    BY <2>1, ConcatProperties
  <2> QED
    BY <2>1, <2>2, Zenon DEF a, b
<1>g. /\ IsFiniteSet(Moved(L, n)) /\ Cardinality(Moved(L, n)) = Cardinality(L)
      /\ \A i \in Moved(L, n) : i \in Nat /\ n < i /\ i <= n + Len(t)
  BY <1>0, MovedFacts
<1>1. Positions(J, Len(s \o t))
  BY <1>0, <1>a, <1>d, <1>g DEF Positions
<1>2. Cardinality(J) = Cardinality(K) + Cardinality(L)
  <2>1. \A x \in K : x \notin Moved(L, n)
    BY <1>0, <1>a, <1>g
  <2> QED
    BY <1>c, <1>g, <2>1, CountBoth
<1>3. ASSUME NEW k \in K PROVE u[Rank(J, k)] = (s \o t)[k]
  <2>1. {i \in J : i <= k} = {i \in K : i <= k}
    BY <1>0, <1>a, <1>g
  <2>2. Rank(J, k) = Rank(K, k)
    BY <2>1 DEF Rank
  <2>3. Rank(K, k) \in 1 .. Cardinality(K) /\ At(s, K)[Rank(K, k)] = s[k]
    BY AtFacts
  <2>4. u[Rank(K, k)] = s[k]
    BY <1>e, <1>f, <2>3
  <2>5. (s \o t)[k] = s[k]
    BY <1>0, <1>a, <1>d
  <2> QED
    BY <2>2, <2>4, <2>5
<1>4. ASSUME NEW l \in L PROVE u[Rank(J, n + l)] = (s \o t)[n + l]
  <2> DEFINE M == {m \in L : m <= l}
  <2>1. Positions(M, Len(t))
    BY <1>b DEF Positions
  <2>2. IsFiniteSet(Moved(M, n)) /\ Cardinality(Moved(M, n)) = Rank(L, l)
    BY <1>0, <2>1, MovedFacts DEF Rank
  <2>3. {i \in J : i <= n + l} = K \cup Moved(M, n)
    BY <1>0, <1>a, <1>b DEF Moved
  <2>4. \A x \in K : x \notin Moved(M, n)
    BY <1>0, <1>a, <1>b DEF Moved
  <2>5. Rank(J, n + l) = Cardinality(K) + Rank(L, l)
    BY <1>c, <2>2, <2>3, <2>4, CountBoth DEF Rank
  <2>6. Rank(L, l) \in 1 .. Cardinality(L) /\ At(t, L)[Rank(L, l)] = t[l]
    BY AtFacts
  <2>7. u[Cardinality(K) + Rank(L, l)] = t[l]
    BY <1>e, <1>f, <2>6
  <2>8. (s \o t)[n + l] = t[l]
    BY <1>0, <1>b, <1>d
  <2> QED
    BY <2>5, <2>7, <2>8
<1>5. \A i \in J : u[Rank(J, i)] = (s \o t)[i]
  <2> SUFFICES ASSUME NEW i \in J PROVE u[Rank(J, i)] = (s \o t)[i]
    OBVIOUS
  <2>1. i \in K \/ \E l \in L : i = n + l
    BY DEF Moved
  <2> QED
    BY <1>3, <1>4, <2>1
<1> DEFINE w == s \o t
<1>6. /\ w \in Seq(S) /\ Positions(J, Len(w)) /\ u \in Seq(S) /\ Len(u) = Cardinality(J)
      /\ \A i \in J : u[Rank(J, i)] = w[i]
  BY <1>1, <1>2, <1>5, <1>d, <1>f
<1> HIDE DEF J, u, w
<1>7. At(w, J) = u
  BY <1>6, AtUnique
<1> QED
  BY <1>7 DEF J, u, w

\* Selecting L from what was selected with a larger K is selecting L at once.
LEMMA AtNested ==
  ASSUME NEW S, NEW s \in Seq(S), NEW K, Positions(K, Len(s)), NEW L, \A l \in L : l \in K
  PROVE  At(At(s, K), {Rank(K, l) : l \in L}) = At(s, L)
<1> DEFINE J == {Rank(K, l) : l \in L}
           u == At(s, L)
<1>0. Len(s) \in Nat
  BY LenProperties
<1>a. \A k \in K : k \in Nat /\ 1 <= k /\ k <= Len(s)
  BY DEF Positions
<1>b. Positions(L, Len(s))
  BY <1>a DEF Positions
<1>c. IsFiniteSet(K) /\ IsFiniteSet(L) /\ Cardinality(K) \in Nat
  BY <1>0, <1>b, RankFacts
<1>d. /\ At(s, K) \in Seq(S) /\ Len(At(s, K)) = Cardinality(K)
      /\ \A k \in K : Rank(K, k) \in 1 .. Cardinality(K) /\ At(s, K)[Rank(K, k)] = s[k]
  BY AtFacts
<1>e. /\ u \in Seq(S) /\ Len(u) = Cardinality(L)
      /\ \A l \in L : u[Rank(L, l)] = s[l]
  BY <1>b, AtFacts
<1>1. Positions(J, Len(At(s, K)))
  BY <1>c, <1>d DEF Positions
<1>2. \A x, y \in K : x < y => Rank(K, x) < Rank(K, y)
  BY <1>0, <1>a, RankMonotone
<1>3. ASSUME NEW M, \A m \in M : m \in L
      PROVE  Cardinality({Rank(K, m) : m \in M}) = Cardinality(M)
  <2> DEFINE f == [m \in M |-> Rank(K, m)]
             B == {Rank(K, m) : m \in M}
  <2>1. M \in SUBSET L /\ IsFiniteSet(M)
    BY <1>c, <1>3, FS_Subset
  <2>2. f \in [M -> B] /\ \A z \in B : \E x \in M : f[x] = z
    OBVIOUS
  <2>3. ASSUME NEW x \in M, NEW y \in M, f[x] = f[y] PROVE x = y
    <3>1. x \in K /\ y \in K /\ x \in Nat /\ y \in Nat /\ Rank(K, x) = Rank(K, y)
      BY <1>3, <1>a, <2>3
    <3>2. Rank(K, x) \in Nat /\ Rank(K, y) \in Nat
      BY <1>c, <1>d, <3>1
    <3> QED
      BY <1>2, <3>1, <3>2
  <2> HIDE DEF f, B
  <2>4. Cardinality(B) = Cardinality(M)
    BY <2>1, <2>2, <2>3, SameCardinality
  <2> QED
    BY <2>4 DEF B
<1>4. Cardinality(J) = Cardinality(L)
  BY <1>3
<1>5. ASSUME NEW l \in L PROVE u[Rank(J, Rank(K, l))] = At(s, K)[Rank(K, l)]
  <2> DEFINE M == {m \in L : m <= l}
  <2>1. ASSUME NEW m \in L PROVE Rank(K, m) <= Rank(K, l) <=> m <= l
    <3>1. m \in Nat /\ l \in Nat /\ m \in K /\ l \in K
      BY <1>a
    <3>2. Rank(K, m) \in Nat /\ Rank(K, l) \in Nat
      BY <1>c, <1>d, <3>1
    <3>3. m < l \/ m = l \/ l < m
      BY <3>1
    <3> QED
      BY <1>2, <3>1, <3>2, <3>3
  <2>2. {j \in J : j <= Rank(K, l)} = {Rank(K, m) : m \in M}
    BY <2>1
  <2>3. Rank(J, Rank(K, l)) = Cardinality(M)
    BY <1>3, <2>2 DEF Rank
  <2>4. Rank(J, Rank(K, l)) = Rank(L, l)
    BY <2>3 DEF Rank
  <2> QED
    BY <1>d, <1>e, <2>4
<1>6. \A j \in J : u[Rank(J, j)] = At(s, K)[j]
  BY <1>5
<1> HIDE DEF J, u
<1>7. At(At(s, K), J) = u
  BY <1>1, <1>4, <1>6, <1>d, <1>e, AtUnique
<1> QED
  BY <1>7 DEF J, u

-----------------------------------------------------------------------------
(***************************************************************************)
(* What the relay does to the stream: the filters, the limit and what the  *)
(* properties compare.                                                     *)
(***************************************************************************)

TextAt(s) == {i \in DOMAIN s : s[i][1] \in {"prompt", "echo", "text", "name"}}
KeptAt(s) == {i \in DOMAIN s : /\ s[i][1] # "head"
                               /\ ~(s[i][1] = "tail" /\ i > 1 /\ s[i - 1][1] = "head")}

LEMMA PositionSets ==
  ASSUME NEW S, NEW s \in Seq(S)
  PROVE  /\ Positions(TextAt(s), Len(s)) /\ Positions(KeptAt(s), Len(s))
         /\ Text(s) = At(s, TextAt(s)) /\ Filtered(s) = At(s, KeptAt(s))
<1>1. Len(s) \in Nat /\ DOMAIN s = 1 .. Len(s)
  BY LenProperties
<1>2. Positions(TextAt(s), Len(s)) /\ Positions(KeptAt(s), Len(s))
  BY <1>1 DEF Positions, TextAt, KeptAt
<1> QED
  BY <1>2 DEF Text, Filtered, TextAt, KeptAt

\* The text of a concatenation.
LEMMA TextConcat ==
  ASSUME NEW S, NEW s \in Seq(S), NEW t \in Seq(S)
  PROVE  /\ Text(s) \in Seq(S) /\ Text(t) \in Seq(S)
         /\ Text(s \o t) = Text(s) \o Text(t)
<1> DEFINE n == Len(s)
<1>1. /\ n \in Nat /\ Len(t) \in Nat /\ DOMAIN s = 1 .. n /\ DOMAIN t = 1 .. Len(t)
      /\ s \o t \in Seq(S) /\ Len(s \o t) = n + Len(t)
      /\ \A i \in 1 .. n + Len(t) : (s \o t)[i] = IF i <= n THEN s[i] ELSE t[i - n]
  BY LenProperties, ConcatProperties
<1>2. DOMAIN (s \o t) = 1 .. n + Len(t)
  BY <1>1, LenProperties
<1>3. TextAt(s \o t) = TextAt(s) \cup Moved(TextAt(t), n)
  <2>1. ASSUME NEW i \in TextAt(s \o t) PROVE i \in TextAt(s) \cup Moved(TextAt(t), n)
    <3>1. i \in 1 .. n + Len(t) /\ (s \o t)[i][1] \in {"prompt", "echo", "text", "name"}
      BY <1>2, <2>1 DEF TextAt
    <3>2. CASE i <= n
      BY <1>1, <3>1, <3>2 DEF TextAt
    <3>3. CASE ~(i <= n)
      <4>1. i - n \in 1 .. Len(t) /\ (s \o t)[i] = t[i - n] /\ i = n + (i - n)
        BY <1>1, <3>1, <3>3
      <4>2. i - n \in TextAt(t)
        BY <1>1, <3>1, <4>1 DEF TextAt
      <4> QED
        BY <4>1, <4>2 DEF Moved
    <3> QED
      BY <3>2, <3>3
  <2>2. ASSUME NEW i \in TextAt(s) PROVE i \in TextAt(s \o t)
    <3>1. i \in 1 .. n /\ i \in 1 .. n + Len(t) /\ i <= n
      BY <1>1, <2>2 DEF TextAt
    <3>2. (s \o t)[i] = s[i]
      BY <1>1, <3>1
    <3> QED
      BY <1>2, <2>2, <3>1, <3>2 DEF TextAt
  <2>3. ASSUME NEW i \in Moved(TextAt(t), n) PROVE i \in TextAt(s \o t)
    <3>1. PICK l \in TextAt(t) : i = n + l
      BY <2>3 DEF Moved
    <3>2. l \in 1 .. Len(t) /\ t[l][1] \in {"prompt", "echo", "text", "name"}
      BY <1>1 DEF TextAt
    <3>3. i \in 1 .. n + Len(t) /\ ~(i <= n) /\ i - n = l
      BY <1>1, <3>1, <3>2
    <3>4. (s \o t)[i] = t[l]
      BY <1>1, <3>3
    <3> QED
      BY <1>2, <3>2, <3>3, <3>4 DEF TextAt
  <2> QED
    BY <2>1, <2>2, <2>3
<1>4. Positions(TextAt(s), Len(s)) /\ Positions(TextAt(t), Len(t))
  BY PositionSets
<1>5. At(s \o t, TextAt(s) \cup Moved(TextAt(t), n)) = At(s, TextAt(s)) \o At(t, TextAt(t))
  <2>1. ASSUME NEW K, Positions(K, Len(s)), NEW L, Positions(L, Len(t))
        PROVE  At(s \o t, K \cup Moved(L, Len(s))) = At(s, K) \o At(t, L)
    BY <2>1, AtConcat, SMTT(90)
  <2> QED
    BY <1>4, <2>1, Zenon
<1>6. /\ Text(s) = At(s, TextAt(s)) /\ Text(t) = At(t, TextAt(t))
      /\ Text(s \o t) = At(s \o t, TextAt(s \o t))
  BY <1>1, PositionSets
<1> QED
  BY <1>3, <1>4, <1>5, <1>6, AtFacts

\* The filters leave the text alone, take out every first part, add nothing.
LEMMA FilteredFacts ==
  ASSUME NEW S, NEW s \in Seq(S)
  PROVE  /\ Filtered(s) \in Seq(S) /\ Len(Filtered(s)) <= Len(s)
         /\ Text(Filtered(s)) = Text(s)
         /\ \A i \in 1 .. Len(Filtered(s)) :
              Filtered(s)[i][1] # "head" /\ \E j \in 1 .. Len(s) : Filtered(s)[i] = s[j]
<1> DEFINE K == KeptAt(s)
           c == Cardinality(K)
           f == Filtered(s)
<1>0. Len(s) \in Nat /\ DOMAIN s = 1 .. Len(s)
  BY LenProperties
<1>1. Positions(K, Len(s)) /\ f = At(s, K) /\ Text(s) = At(s, TextAt(s))
  BY PositionSets
<1>2. /\ f \in Seq(S) /\ Len(f) = c /\ c \in 0 .. Len(s)
      /\ \A j \in 1 .. c : Nth(K, j) \in K /\ f[j] = s[Nth(K, j)]
      /\ \A k \in K : Rank(K, k) \in 1 .. c /\ f[Rank(K, k)] = s[k]
  BY <1>1, AtFacts
<1>3. \A j \in 1 .. c : Rank(K, Nth(K, j)) = j
  BY <1>0, <1>1, NthRank
<1>4. DOMAIN f = 1 .. c
  BY <1>2, LenProperties
<1>5. \A k \in K : k \in 1 .. Len(s) /\ s[k][1] # "head"
  BY <1>0 DEF KeptAt
<1>6. \A l \in TextAt(s) : l \in K
  BY DEF TextAt, KeptAt
<1>7. TextAt(f) = {Rank(K, l) : l \in TextAt(s)}
  <2>1. ASSUME NEW j \in TextAt(f) PROVE \E l \in TextAt(s) : j = Rank(K, l)
    <3>1. j \in 1 .. c /\ f[j][1] \in {"prompt", "echo", "text", "name"}
      BY <1>4, <2>1 DEF TextAt
    <3>2. Nth(K, j) \in K /\ f[j] = s[Nth(K, j)] /\ Rank(K, Nth(K, j)) = j
      BY <1>2, <1>3, <3>1
    <3>3. Nth(K, j) \in TextAt(s)
      BY <1>0, <1>5, <3>1, <3>2 DEF TextAt
    <3> QED
      BY <3>2, <3>3
  <2>2. ASSUME NEW l \in TextAt(s) PROVE Rank(K, l) \in TextAt(f)
    <3>1. Rank(K, l) \in 1 .. c /\ f[Rank(K, l)] = s[l]
      BY <1>2, <1>6
    <3> QED
      BY <1>4, <2>2, <3>1 DEF TextAt
  <2> QED
    BY <2>1, <2>2
<1>8. At(f, {Rank(K, l) : l \in TextAt(s)}) = At(s, TextAt(s))
  BY <1>1, <1>6, AtNested
<1>9. Text(f) = At(f, TextAt(f))
  BY <1>2, PositionSets
<1>10. Text(f) = Text(s)
  BY <1>1, <1>7, <1>8, <1>9
<1>11. \A i \in 1 .. Len(f) : f[i][1] # "head" /\ \E j \in 1 .. Len(s) : f[i] = s[j]
  BY <1>2, <1>5
<1> HIDE DEF f, K, c
<1>12. f \in Seq(S) /\ Len(f) <= Len(s)
  BY <1>0, <1>2
<1> QED
  BY <1>10, <1>11, <1>12 DEF f

\* The limit keeps the end of a sequence.
LEMMA LastOfFacts ==
  ASSUME NEW S, NEW s \in Seq(S), NEW n \in Nat
  PROVE  /\ LastOf(s, n) \in Seq(S) /\ Len(LastOf(s, n)) <= n /\ Len(LastOf(s, n)) <= Len(s)
         /\ \E u \in Seq(S) : s = u \o LastOf(s, n)
         /\ Len(s) <= n => LastOf(s, n) = s
<1>0. Len(s) \in Nat
  BY LenProperties
<1>1. CASE Len(s) <= n
  <2>1. << >> \in Seq(S) /\ s = << >> \o s
    BY EmptySeq, ConcatEmptySeq
  <2>2. LastOf(s, n) = s
    BY <1>1 DEF LastOf
  <2>3. \E u \in Seq(S) : s = u \o s
    BY <2>1
  <2> QED
    BY <1>0, <1>1, <2>2, <2>3
<1>2. CASE ~(Len(s) <= n)
  <2> DEFINE k == Len(s) - n
             t == SubSeq(s, k + 1, Len(s))
             u == SubSeq(s, 1, k)
  <2>1. k \in Nat /\ k <= Len(s) /\ k + 1 \in 1 .. Len(s) + 1 /\ Len(s) - k = n
    BY <1>0, <1>2
  <2>2. LastOf(s, n) = t
    BY <1>0, <1>2 DEF LastOf
  <2>3. \A i \in 1 .. Len(s) : s[i] \in S
    BY ElementOfSeq
  <2>4. t \in Seq(S) /\ Len(t) = n
    <3>1. \A i \in k + 1 .. Len(s) : s[i] \in S
      BY <1>0, <2>1, <2>3
    <3>2. t \in Seq(S) /\ Len(t) = IF k + 1 <= Len(s) THEN Len(s) - (k + 1) + 1 ELSE 0
      BY <1>0, <2>1, <3>1, SubSeqProperties
    <3> QED
      BY <1>0, <2>1, <3>2
  <2>5. u \in Seq(S)
    <3>1. \A i \in 1 .. k : s[i] \in S
      BY <1>0, <2>1, <2>3
    <3> QED
      BY <2>1, <3>1, SubSeqProperties
  <2>6. u \o t = s
    <3>1. SubSeq(s, 1, k) \o SubSeq(s, k + 1, Len(s)) = SubSeq(s, 1, Len(s))
      <4>1. 1 \in 1 .. Len(s) + 1 /\ k \in 1 - 1 .. Len(s) /\ Len(s) \in k .. Len(s)
        BY <1>0, <2>1
      <4> QED
        BY <4>1, ConcatAdjacentSubSeq, Zenon
    <3> QED
      BY <3>1, SubSeqFull
  <2> HIDE DEF t, u, k
  <2>7. Len(t) <= n /\ Len(t) <= Len(s)
    BY <1>0, <1>2, <2>4
  <2> QED
    BY <1>2, <2>2, <2>4, <2>5, <2>6, <2>7
<1> QED
  BY <1>1, <1>2

LEMMA Associative == \A a, b, c \in Seq(Symbol) : (a \o b) \o c = a \o (b \o c)
BY ConcatAssociative

\* The relay has taken in x since the marker and retains out of it: nothing
\* but symbols of x that are no first part, the end of its text, and all of
\* its text while x is within the limit.
Retains(out, x) ==
  /\ Len(out) <= Len(x)
  /\ \E u \in Seq(Symbol) : Text(x) = u \o Text(out)
  /\ Len(x) <= MaxOutput => Text(out) = Text(x)
  /\ \A i \in 1 .. Len(out) : out[i][1] # "head" /\ \E j \in 1 .. Len(x) : out[i] = x[j]

\* What appendLocked retains of a further value.
LEMMA RetainsMore ==
  ASSUME NEW out \in Seq(Symbol), NEW x \in Seq(Symbol), NEW v \in Seq(Symbol), Retains(out, x)
  PROVE  /\ Appended(out, v) \in Seq(Symbol) /\ Len(Appended(out, v)) <= MaxOutput
         /\ Retains(Appended(out, v), x \o v)
<1> DEFINE f == Filtered(v)
           w == out \o f
           r == LastOf(w, MaxOutput)
           y == x \o v
<1>0. MaxOutput \in Nat
  BY CaptureAssumption
<1>1. /\ f \in Seq(Symbol) /\ Len(f) <= Len(v) /\ Text(f) = Text(v)
      /\ \A i \in 1 .. Len(f) : f[i][1] # "head" /\ \E j \in 1 .. Len(v) : f[i] = v[j]
  BY FilteredFacts
<1>2. Appended(out, v) = r
  BY DEF Appended
<1> HIDE DEF f
<1>3. Len(out) \in Nat /\ Len(f) \in Nat /\ Len(x) \in Nat /\ Len(v) \in Nat
  BY <1>1, LenProperties
<1>4. /\ w \in Seq(Symbol) /\ Len(w) = Len(out) + Len(f)
      /\ \A i \in 1 .. Len(out) + Len(f) : w[i] = IF i <= Len(out) THEN out[i] ELSE f[i - Len(out)]
  BY <1>1, ConcatProperties
<1>5. /\ y \in Seq(Symbol) /\ Len(y) = Len(x) + Len(v)
      /\ \A i \in 1 .. Len(x) + Len(v) : y[i] = IF i <= Len(x) THEN x[i] ELSE v[i - Len(x)]
  BY ConcatProperties
<1>6. /\ Text(w) = Text(out) \o Text(v) /\ Text(y) = Text(x) \o Text(v)
      /\ Text(out) \in Seq(Symbol) /\ Text(v) \in Seq(Symbol) /\ Text(x) \in Seq(Symbol)
  <2>1. Text(w) = Text(out) \o Text(f)
    BY <1>1, TextConcat, Zenon
  <2>2. Text(y) = Text(x) \o Text(v)
    BY TextConcat, Zenon
  <2>3. Text(out) \in Seq(Symbol) /\ Text(v) \in Seq(Symbol) /\ Text(x) \in Seq(Symbol)
    BY TextConcat, Zenon
  <2> QED
    BY <1>1, <2>1, <2>2, <2>3
<1>7. \A i \in 1 .. Len(w) : w[i][1] # "head" /\ \E j \in 1 .. Len(y) : w[i] = y[j]
  <2> SUFFICES ASSUME NEW i \in 1 .. Len(w)
               PROVE  w[i][1] # "head" /\ \E j \in 1 .. Len(y) : w[i] = y[j]
    OBVIOUS
  <2>1. CASE i <= Len(out)
    <3>1. i \in 1 .. Len(out) /\ w[i] = out[i]
      BY <1>3, <1>4, <2>1
    <3>2. PICK j \in 1 .. Len(x) : out[i] = x[j]
      BY <3>1 DEF Retains
    <3>3. j \in 1 .. Len(y) /\ y[j] = x[j]
      BY <1>3, <1>5
    <3>4. out[i][1] # "head"
      BY <3>1 DEF Retains
    <3> QED
      BY <3>1, <3>2, <3>3, <3>4
  <2>2. CASE ~(i <= Len(out))
    <3>1. i - Len(out) \in 1 .. Len(f) /\ w[i] = f[i - Len(out)]
      BY <1>3, <1>4, <2>2
    <3>2. PICK j \in 1 .. Len(v) : f[i - Len(out)] = v[j]
      BY <1>1, <3>1
    <3>3. Len(x) + j \in 1 .. Len(y) /\ y[Len(x) + j] = v[j]
      <4>1. Len(x) + j \in 1 .. Len(x) + Len(v) /\ ~(Len(x) + j <= Len(x)) /\ Len(x) + j - Len(x) = j
        BY <1>3
      <4> QED
        BY <1>5, <4>1
    <3>4. f[i - Len(out)][1] # "head"
      BY <1>1, <3>1
    <3> QED
      BY <3>1, <3>2, <3>3, <3>4
  <2> QED
    BY <2>1, <2>2
<1> HIDE DEF w, y
<1>8. /\ r \in Seq(Symbol) /\ Len(r) <= MaxOutput /\ Len(r) <= Len(w)
      /\ \E u \in Seq(Symbol) : w = u \o r
      /\ Len(w) <= MaxOutput => r = w
  BY <1>0, <1>4, LastOfFacts
<1> HIDE DEF r
<1>9. Len(r) <= Len(y) /\ Len(r) \in Nat
  BY <1>1, <1>3, <1>4, <1>5, <1>8, LenProperties DEF Retains
<1>10. PICK u1 \in Seq(Symbol) : w = u1 \o r
  BY <1>8
<1>11. PICK u2 \in Seq(Symbol) : Text(x) = u2 \o Text(out)
  BY DEF Retains
<1>12. Text(w) = Text(u1) \o Text(r) /\ Text(u1) \in Seq(Symbol) /\ Text(r) \in Seq(Symbol)
  BY <1>8, <1>10, TextConcat
<1>13. \E u \in Seq(Symbol) : Text(y) = u \o Text(r)
  <2>1. Text(y) = (u2 \o Text(out)) \o Text(v)
    BY <1>6, <1>11
  <2>3. (u2 \o Text(out)) \o Text(v) = u2 \o (Text(out) \o Text(v))
    BY <1>6, Associative, Zenon
  <2>4. (u2 \o Text(u1)) \o Text(r) = u2 \o (Text(u1) \o Text(r))
    BY <1>12, Associative, Zenon
  <2>5. u2 \o Text(u1) \in Seq(Symbol)
    BY <1>12, ConcatProperties
  <2>6. Text(y) = (u2 \o Text(u1)) \o Text(r)
    BY <1>6, <1>12, <2>1, <2>3, <2>4
  <2> QED
    BY <2>5, <2>6
<1>14. Len(y) <= MaxOutput => Text(r) = Text(y)
  <2> SUFFICES ASSUME Len(y) <= MaxOutput PROVE Text(r) = Text(y)
    OBVIOUS
  <2>1. Len(x) <= MaxOutput /\ Len(w) <= MaxOutput
    BY <1>0, <1>1, <1>3, <1>4, <1>5 DEF Retains
  <2>2. Text(out) = Text(x) /\ r = w
    BY <1>8, <2>1 DEF Retains
  <2> QED
    BY <1>6, <2>2
<1>15. ASSUME NEW i \in 1 .. Len(r)
       PROVE  r[i][1] # "head" /\ \E j \in 1 .. Len(y) : r[i] = y[j]
  <2>1. /\ Len(w) = Len(u1) + Len(r) /\ Len(u1) \in Nat
        /\ \A k \in 1 .. Len(u1) + Len(r) : w[k] = IF k <= Len(u1) THEN u1[k] ELSE r[k - Len(u1)]
    BY <1>8, <1>10, ConcatProperties, LenProperties
  <2>2. Len(u1) + i \in 1 .. Len(w) /\ ~(Len(u1) + i <= Len(u1)) /\ Len(u1) + i - Len(u1) = i
    BY <1>9, <2>1
  <2>3. w[Len(u1) + i] = r[i]
    BY <2>1, <2>2
  <2> QED
    BY <1>7, <2>2, <2>3
<1>16. Retains(r, y)
  BY <1>9, <1>13, <1>14, <1>15 DEF Retains
<1> QED
  BY <1>2, <1>8, <1>16 DEF y

-----------------------------------------------------------------------------
(***************************************************************************)
(* Types.                                                                  *)
(***************************************************************************)

\* A part of a sequence.
LEMMA PartOf ==
  ASSUME NEW S, NEW s \in Seq(S), NEW m \in 1 .. Len(s) + 1, NEW n \in m - 1 .. Len(s)
  PROVE  /\ SubSeq(s, m, n) \in Seq(S) /\ Len(SubSeq(s, m, n)) = n - m + 1
         /\ \A i \in 1 .. n - m + 1 : SubSeq(s, m, n)[i] = s[m + i - 1]
<1>1. Len(s) \in Nat /\ m \in Int /\ n \in Int
  BY LenProperties
<1>2. \A i \in m .. n : s[i] \in S
  BY <1>1, ElementOfSeq
<1>3. /\ SubSeq(s, m, n) \in Seq(S)
      /\ Len(SubSeq(s, m, n)) = IF m <= n THEN n - m + 1 ELSE 0
      /\ \A i \in 1 .. n - m + 1 : SubSeq(s, m, n)[i] = s[m + i - 1]
  BY <1>1, <1>2, SubSeqProperties
<1> QED
  BY <1>1, <1>3

LEMMA SymbolType ==
  /\ \A n \in Nat : /\ <<"prompt", n>> \in Symbol /\ <<"echo", n>> \in Symbol
                    /\ <<"text", n>> \in Symbol /\ <<"head", n>> \in Symbol
                    /\ <<"tail", n>> \in Symbol /\ <<"name", n>> \in Symbol
  /\ Marker \in Seq(Symbol) /\ Len(Marker) = MarkerLength
<1>1. Marker \in [1 .. MarkerLength -> Symbol] /\ MarkerLength \in Nat
  BY CaptureAssumption DEF Marker, Symbol
<1>2. Marker \in Seq(Symbol) /\ Len(Marker) = MarkerLength
  BY <1>1, FcnSeq
<1>3. \A n \in Nat : /\ <<"prompt", n>> \in Symbol /\ <<"echo", n>> \in Symbol
                     /\ <<"text", n>> \in Symbol /\ <<"head", n>> \in Symbol
                     /\ <<"tail", n>> \in Symbol /\ <<"name", n>> \in Symbol
  BY DEF Symbol
<1> QED
  BY <1>2, <1>3

\* What is left behind the last marker is an end of the sequence.
LEMMA AfterMarkersType ==
  ASSUME NEW s \in Seq(Symbol)
  PROVE  AfterMarkers(s) \in Seq(Symbol)
<1> DEFINE T == MarkersIn(s)
<1>0. Len(s) \in Nat /\ MarkerLength \in Nat /\ MarkerLength > 0
  BY CaptureAssumption, LenProperties
<1>1. CASE T = {}
  BY <1>1 DEF AfterMarkers
<1>2. CASE T # {}
  <2>1. \A i \in T : i \in 1 .. Len(s) /\ i + MarkerLength \in 1 .. Len(s) + 1
    BY <1>0 DEF MarkersIn
  <2>2. T \in SUBSET (0 .. Len(s))
    BY <1>0, <2>1
  <2>3. Max(T) \in T
    BY <1>0, <1>2, <2>2, MaxOf
  <2>4. Max(T) + MarkerLength \in 1 .. Len(s) + 1 /\ Len(s) \in Max(T) + MarkerLength - 1 .. Len(s)
    BY <1>0, <2>1, <2>3
  <2>5. AfterMarkers(s) = SubSeq(s, Max(T) + MarkerLength, Len(s))
    BY <1>2 DEF AfterMarkers
  <2> QED
    BY <2>4, <2>5, PartOf
<1> QED
  BY <1>1, <1>2

LEMMA AppendedType ==
  ASSUME NEW out \in Seq(Symbol), NEW v \in Seq(Symbol)
  PROVE  Appended(out, v) \in Seq(Symbol) /\ Len(Appended(out, v)) <= MaxOutput
<1>1. Filtered(v) \in Seq(Symbol) /\ MaxOutput \in Nat
  BY FilteredFacts, CaptureAssumption
<1>2. out \o Filtered(v) \in Seq(Symbol)
  BY <1>1, ConcatProperties
<1> QED
  BY <1>1, <1>2, LastOfFacts DEF Appended

\* How much of the rest is ready: all but what may begin the next marker.
ReadyOf(rest) == IF Len(rest) <= KeepBack THEN 0 ELSE Len(rest) - KeepBack

LEMMA ReadyFacts ==
  ASSUME NEW rest \in Seq(Symbol)
  PROVE  /\ ReadyOf(rest) \in 0 .. Len(rest)
         /\ SubSeq(rest, 1, ReadyOf(rest)) \in Seq(Symbol)
         /\ Len(SubSeq(rest, 1, ReadyOf(rest))) = ReadyOf(rest)
         /\ \A i \in 1 .. ReadyOf(rest) : SubSeq(rest, 1, ReadyOf(rest))[i] = rest[i]
         /\ SubSeq(rest, ReadyOf(rest) + 1, Len(rest)) \in Seq(Symbol)
         /\ Len(SubSeq(rest, ReadyOf(rest) + 1, Len(rest))) = Len(rest) - ReadyOf(rest)
         /\ \A i \in 1 .. Len(rest) - ReadyOf(rest) :
              SubSeq(rest, ReadyOf(rest) + 1, Len(rest))[i] = rest[ReadyOf(rest) + i]
         /\ Len(rest) - ReadyOf(rest) < MarkerLength
         /\ ReadyOf(rest) = 0 \/ Len(rest) - ReadyOf(rest) = KeepBack
<1> DEFINE r == ReadyOf(rest)
<1>0. Len(rest) \in Nat /\ MarkerLength \in Nat /\ KeepBack \in Nat /\ KeepBack = MarkerLength - 1
  BY CaptureAssumption, LenProperties DEF KeepBack
<1>1. r \in 0 .. Len(rest) /\ Len(rest) - r < MarkerLength /\ (r = 0 \/ Len(rest) - r = KeepBack)
  BY <1>0 DEF ReadyOf
<1> HIDE DEF r
<1>2. 1 \in 1 .. Len(rest) + 1 /\ r \in 1 - 1 .. Len(rest) /\ r - 1 + 1 = r
  BY <1>0, <1>1
<1>3. /\ SubSeq(rest, 1, r) \in Seq(Symbol) /\ Len(SubSeq(rest, 1, r)) = r - 1 + 1
      /\ \A i \in 1 .. r - 1 + 1 : SubSeq(rest, 1, r)[i] = rest[1 + i - 1]
  BY <1>2, PartOf
<1>4. \A i \in 1 .. r : SubSeq(rest, 1, r)[i] = rest[i]
  <2> SUFFICES ASSUME NEW i \in 1 .. r PROVE SubSeq(rest, 1, r)[i] = rest[i]
    OBVIOUS
  <2>1. 1 + i - 1 = i /\ i \in 1 .. r - 1 + 1
    BY <1>1
  <2> QED
    BY <1>3, <2>1
<1>5. r + 1 \in 1 .. Len(rest) + 1 /\ Len(rest) \in r + 1 - 1 .. Len(rest)
      /\ Len(rest) - (r + 1) + 1 = Len(rest) - r
  BY <1>0, <1>1
<1>6. /\ SubSeq(rest, r + 1, Len(rest)) \in Seq(Symbol)
      /\ Len(SubSeq(rest, r + 1, Len(rest))) = Len(rest) - (r + 1) + 1
      /\ \A i \in 1 .. Len(rest) - (r + 1) + 1 : SubSeq(rest, r + 1, Len(rest))[i] = rest[r + 1 + i - 1]
  BY <1>5, PartOf
<1>7. \A i \in 1 .. Len(rest) - r : SubSeq(rest, r + 1, Len(rest))[i] = rest[r + i]
  <2> SUFFICES ASSUME NEW i \in 1 .. Len(rest) - r PROVE SubSeq(rest, r + 1, Len(rest))[i] = rest[r + i]
    OBVIOUS
  <2>1. r + 1 + i - 1 = r + i
    BY <1>0, <1>1
  <2> QED
    BY <1>5, <1>6, <2>1
<1>8. Len(SubSeq(rest, 1, r)) = r /\ Len(SubSeq(rest, r + 1, Len(rest))) = Len(rest) - r
  BY <1>2, <1>3, <1>5, <1>6
<1> QED
  BY <1>1, <1>3, <1>4, <1>6, <1>7, <1>8, Zenon DEF r

\* The fields of the relay have their types.
RelayTyped ==
  /\ pending \in Seq(Symbol) /\ Len(pending) < MarkerLength
  /\ output \in Seq(Symbol) /\ Len(output) <= MaxOutput /\ active \in BOOLEAN

LEMMA EmptyTyped ==
  << >> \in Seq(Symbol) /\ Len(<< >>) = 0 /\ 0 < MarkerLength /\ 0 <= MaxOutput
BY EmptySeq, CaptureAssumption

LEMMA FeedTyped ==
  ASSUME RelayTyped, NEW v \in Seq(Symbol), FeedLocked(v)
  PROVE  RelayTyped'
<1> DEFINE all == pending \o v
           rest == AfterMarkers(all)
           found == MarkersIn(all) # {}
           base == IF found THEN << >> ELSE output
           r == ReadyOf(rest)
<1>1. /\ active' = (active \/ found)
      /\ output' = IF active' /\ r > 0 THEN Appended(base, SubSeq(rest, 1, r)) ELSE base
      /\ pending' = SubSeq(rest, r + 1, Len(rest))
  BY DEF FeedLocked, ReadyOf
<1>2. base \in Seq(Symbol) /\ Len(base) <= MaxOutput
  BY EmptyTyped DEF RelayTyped
<1>3. rest \in Seq(Symbol)
  <2>1. all \in Seq(Symbol)
    BY ConcatProperties DEF RelayTyped
  <2> QED
    BY <2>1, AfterMarkersType
<1>4. active' \in BOOLEAN
  BY <1>1 DEF RelayTyped
<1> HIDE DEF base, rest, found
<1>5. SubSeq(rest, 1, r) \in Seq(Symbol)
  BY <1>3, ReadyFacts
<1>6. pending' \in Seq(Symbol) /\ Len(pending') < MarkerLength
  BY <1>1, <1>3, ReadyFacts
<1>7. output' \in Seq(Symbol) /\ Len(output') <= MaxOutput
  BY <1>1, <1>2, <1>5, AppendedType
<1> QED
  BY <1>4, <1>6, <1>7 DEF RelayTyped

LEMMA ResetTyped ==
  ASSUME Reset PROVE RelayTyped'
BY EmptyTyped DEF Reset, RelayTyped

LEMMA SnapshotTyped ==
  ASSUME RelayTyped, Snapshot
  PROVE  RelayTyped' /\ Flushed \in Seq(Symbol)
<1>1. Flushed \in Seq(Symbol) /\ Len(Flushed) <= MaxOutput
  BY AppendedType DEF Flushed, RelayTyped
<1>2. pending' \in Seq(Symbol) /\ Len(pending') < MarkerLength
  BY EmptyTyped DEF Snapshot, RelayTyped
<1> QED
  BY <1>1, <1>2 DEF Snapshot, RelayTyped

\* The rest of TypeOK.
ShellTyped ==
  /\ pc \in {"prompt", "reset", "mark", "run", "read"}
  /\ number \in 0 .. MaxCommands /\ failed \in BOOLEAN
  /\ pipe \in Seq(Symbol) /\ own \in Seq(Symbol) /\ ref \in Seq(Symbol)
  /\ disorder \in BOOLEAN /\ late \subseteq {"reset", "read"}
  /\ answer \in [value : Seq(Symbol), drained : BOOLEAN, own : Seq(Symbol), number : Nat]

LEMMA TypeParts == TypeOK <=> RelayTyped /\ ShellTyped
BY DEF TypeOK, RelayTyped, ShellTyped

\* What a command prints at a time.
Piece(n) == {<< <<"text", n>> >>, << <<"name", n>> >>, << <<"head", n>>, <<"tail", n>> >>}

\* The kinds of what a command prints.
PrintedBy(n) == {<<"text", n>>, <<"name", n>>, <<"head", n>>, <<"tail", n>>}

LEMMA PieceTyped ==
  ASSUME NEW n \in Nat
  PROVE  /\ \A piece \in Piece(n) : piece \in Seq(Symbol)
         /\ << <<"prompt", n>>, <<"echo", n>> >> \in Seq(Symbol)
<1>1. \A a, b \in Symbol : <<a>> \in Seq(Symbol) /\ <<a, b>> \in Seq(Symbol)
  OBVIOUS
<1>2. /\ <<"text", n>> \in Symbol /\ <<"name", n>> \in Symbol /\ <<"head", n>> \in Symbol
      /\ <<"tail", n>> \in Symbol /\ <<"prompt", n>> \in Symbol /\ <<"echo", n>> \in Symbol
  BY SymbolType
<1> QED
  BY <1>1, <1>2, Zenon DEF Piece

LEMMA NextTyped == TypeOK /\ [Next]_vars => TypeOK'
<1> SUFFICES ASSUME RelayTyped, ShellTyped, [Next]_vars PROVE RelayTyped' /\ ShellTyped'
  BY TypeParts DEF TypeOK, RelayTyped, ShellTyped
<1>0. MaxCommands \in Nat /\ number \in Nat
  BY CaptureAssumption DEF ShellTyped
<1>1. CASE FeedReader
  <2>1. PICK n \in 1 .. Len(pipe) :
          /\ FeedLocked(SubSeq(pipe, 1, n))
          /\ pipe' = SubSeq(pipe, n + 1, Len(pipe))
          /\ ref' = ref \o SubSeq(pipe, 1, n)
          /\ UNCHANGED <<pc, number, failed, late, own, answer, disorder>>
    BY <1>1 DEF FeedReader
  <2>2. pipe \in Seq(Symbol) /\ ref \in Seq(Symbol) /\ Len(pipe) \in Nat
    BY LenProperties DEF ShellTyped
  <2>3. 1 \in 1 .. Len(pipe) + 1 /\ n \in 1 - 1 .. Len(pipe)
        /\ n + 1 \in 1 .. Len(pipe) + 1 /\ Len(pipe) \in n + 1 - 1 .. Len(pipe)
    BY <2>2
  <2>4. SubSeq(pipe, 1, n) \in Seq(Symbol) /\ SubSeq(pipe, n + 1, Len(pipe)) \in Seq(Symbol)
    BY <2>2, <2>3, PartOf
  <2>5. RelayTyped'
    BY <2>1, <2>4, FeedTyped
  <2>6. pipe' \in Seq(Symbol) /\ ref' \in Seq(Symbol)
    BY <2>1, <2>2, <2>4, ConcatProperties
  <2> QED
    BY <2>1, <2>5, <2>6 DEF ShellTyped
<1>2. CASE EnterCommand
  <2>1. number' \in 0 .. MaxCommands /\ number' \in Nat
    BY <1>0, <1>2 DEF EnterCommand
  <2>2. pipe' \in Seq(Symbol)
    BY <1>2, <2>1, PieceTyped, ConcatProperties DEF EnterCommand, Show, ShellTyped
  <2> QED
    BY <1>2, <2>1, <2>2, EmptyTyped DEF EnterCommand, RelayTyped, ShellTyped, relay
<1>3. CASE CommandPrints
  <2>1. PICK piece \in Piece(number) :
          own' = own \o piece /\ pipe' = pipe \o piece
    BY <1>3 DEF CommandPrints, Piece, Show
  <2>2. own' \in Seq(Symbol) /\ pipe' \in Seq(Symbol)
    BY <1>0, <2>1, PieceTyped, ConcatProperties DEF ShellTyped
  <2> QED
    BY <1>3, <2>2 DEF CommandPrints, RelayTyped, ShellTyped, relay
<1>4. CASE CommandEnds
  BY <1>4 DEF CommandEnds, RelayTyped, ShellTyped, relay
<1>5. CASE ResetAnswered
  <2>1. RelayTyped'
    BY <1>5, ResetTyped DEF ResetAnswered
  <2> QED
    BY <1>5, <2>1, EmptyTyped DEF ResetAnswered, ShellTyped
<1>6. CASE PrintMarker
  <2>1. pipe' \in Seq(Symbol)
    BY <1>6, SymbolType, ConcatProperties DEF PrintMarker, Show, ShellTyped
  <2> QED
    BY <1>6, <2>1 DEF PrintMarker, RelayTyped, ShellTyped, relay
<1>7. CASE ReadAnswered
  <2>1. RelayTyped' /\ Flushed \in Seq(Symbol)
    BY <1>7, SnapshotTyped DEF ReadAnswered
  <2>2. WithoutEcho(Flushed) \in Seq(Symbol)
    BY <2>1, HeadTailProperties DEF WithoutEcho
  <2>3. answer' \in [value : Seq(Symbol), drained : BOOLEAN, own : Seq(Symbol), number : Nat]
    BY <1>0, <1>7, <2>2 DEF ReadAnswered, ShellTyped
  <2> QED
    BY <1>7, <2>1, <2>3 DEF ReadAnswered, ShellTyped
<1>8. CASE Timeout
  BY <1>8 DEF Timeout, RelayTyped, ShellTyped, relay
<1>9. CASE LateReset
  <2>1. RelayTyped'
    BY <1>9, ResetTyped DEF LateReset
  <2> QED
    BY <1>9, <2>1, EmptyTyped DEF LateReset, ShellTyped
<1>10. CASE LateRead
  <2>1. RelayTyped'
    BY <1>10, SnapshotTyped DEF LateRead
  <2> QED
    BY <1>10, <2>1 DEF LateRead, ShellTyped
<1>11. CASE UNCHANGED vars
  BY <1>11 DEF vars, relay, RelayTyped, ShellTyped
<1> QED
  BY <1>1, <1>2, <1>3, <1>4, <1>5, <1>6, <1>7, <1>8, <1>9, <1>10, <1>11 DEF Next

LEMMA InitTyped == Init => TypeOK
<1>1. NoAnswer \in [value : Seq(Symbol), drained : BOOLEAN, own : Seq(Symbol), number : Nat]
  BY EmptyTyped DEF NoAnswer
<1>2. Init => RelayTyped
  BY EmptyTyped DEF Init, RelayTyped
<1>3. Init => ShellTyped
  <2> SUFFICES ASSUME Init PROVE ShellTyped
    OBVIOUS
  <2>1. number \in 0 .. MaxCommands /\ pc = "prompt" /\ failed = FALSE /\ disorder = FALSE
    BY CaptureAssumption DEF Init
  <2>2. pipe = << >> /\ own = << >> /\ ref = << >> /\ late = {} /\ answer = NoAnswer
    BY DEF Init
  <2> QED
    BY <1>1, <2>1, <2>2, EmptyTyped DEF ShellTyped
<1> QED
  BY <1>2, <1>3, TypeParts

\* The relay never retains more than MaxOutputBytes and never keeps back as
\* much as a marker, for either shell, any marker, any cutting of the stream
\* into chunks and any order of late requests.
THEOREM RelayTypes == Spec => []TypeOK
BY InitTyped, NextTyped, PTL DEF Spec

-----------------------------------------------------------------------------
(***************************************************************************)
(* Parts of the stream.                                                    *)
(***************************************************************************)

\* The marks in s are those of one marker behind its first k symbols.
MarkAt(k, s) ==
  \A i \in 1 .. Len(s) :
    IF i \in k + 1 .. k + MarkerLength THEN s[i] = <<"mark", i - k>> ELSE s[i][1] # "mark"

\* s is the end of t.
Ends(s, t) ==
  Len(s) <= Len(t) /\ \A i \in 1 .. Len(s) : s[i] = t[Len(t) - Len(s) + i]

\* A sequence that agrees with a part of another one is that part.
LEMMA IsPart ==
  ASSUME NEW S, NEW s \in Seq(S), NEW t \in Seq(S), NEW a \in Nat, a + Len(s) <= Len(t),
         \A i \in 1 .. Len(s) : s[i] = t[a + i]
  PROVE  s = SubSeq(t, a + 1, a + Len(s))
<1>0. Len(s) \in Nat /\ Len(t) \in Nat
  BY LenProperties
<1> DEFINE m == a + 1
           n == a + Len(s)
           u == SubSeq(t, m, n)
<1>1. m \in 1 .. Len(t) + 1 /\ n \in m - 1 .. Len(t) /\ n - m + 1 = Len(s)
  BY <1>0
<1>2. \A i \in 1 .. Len(s) : m + i - 1 = a + i
  BY <1>0
<1> HIDE DEF m, n
<1>3. u \in Seq(S) /\ Len(u) = n - m + 1 /\ \A i \in 1 .. n - m + 1 : u[i] = t[m + i - 1]
  BY <1>1, PartOf
<1>4. Len(u) = Len(s) /\ \A i \in 1 .. Len(s) : u[i] = s[i]
  BY <1>1, <1>2, <1>3
<1> HIDE DEF u
<1>5. u = s
  BY <1>3, <1>4, SeqEqual
<1> QED
  BY <1>5 DEF u, m, n

\* The part behind the first a symbols, up to the b-th.
LEMMA PartBetween ==
  ASSUME NEW t \in Seq(Symbol), NEW a \in Nat, NEW b \in Nat, a <= b, b <= Len(t)
  PROVE  /\ SubSeq(t, a + 1, b) \in Seq(Symbol) /\ Len(SubSeq(t, a + 1, b)) = b - a
         /\ \A i \in 1 .. b - a : SubSeq(t, a + 1, b)[i] = t[a + i]
<1>0. Len(t) \in Nat
  BY LenProperties
<1> DEFINE m == a + 1
<1>1. /\ m \in 1 .. Len(t) + 1 /\ b \in m - 1 .. Len(t)
      /\ b - m + 1 = b - a /\ \A i \in 1 .. b - a : m + i - 1 = a + i
  BY <1>0
<1> HIDE DEF m
<1>2. /\ SubSeq(t, m, b) \in Seq(Symbol) /\ Len(SubSeq(t, m, b)) = b - m + 1
      /\ \A i \in 1 .. b - m + 1 : SubSeq(t, m, b)[i] = t[m + i - 1]
  BY <1>1, PartOf
<1>3. Len(SubSeq(t, m, b)) = b - a /\ \A i \in 1 .. b - a : SubSeq(t, m, b)[i] = t[a + i]
  BY <1>1, <1>2
<1> QED
  BY <1>2, <1>3 DEF m

\* Adjacent parts.
LEMMA PartsJoin ==
  ASSUME NEW t \in Seq(Symbol), NEW a \in Nat, NEW b \in Nat, NEW c \in Nat,
         a <= b, b <= c, c <= Len(t)
  PROVE  SubSeq(t, a + 1, b) \o SubSeq(t, b + 1, c) = SubSeq(t, a + 1, c)
<1>0. Len(t) \in Nat
  BY LenProperties
<1> DEFINE m == a + 1
<1>1. m \in 1 .. Len(t) + 1 /\ b \in m - 1 .. Len(t) /\ c \in b .. Len(t)
  BY <1>0
<1> HIDE DEF m
<1>2. SubSeq(t, m, b) \o SubSeq(t, b + 1, c) = SubSeq(t, m, c)
  BY <1>1, ConcatAdjacentSubSeq, Zenon
<1> QED
  BY <1>2 DEF m

\* The end of a concatenation.
LEMMA EndsConcat ==
  ASSUME NEW s \in Seq(Symbol), NEW t \in Seq(Symbol), NEW v \in Seq(Symbol), Ends(s, t)
  PROVE  Ends(s \o v, t \o v)
<1>0. Len(s) \in Nat /\ Len(t) \in Nat /\ Len(v) \in Nat
  BY LenProperties
<1>1. /\ Len(s \o v) = Len(s) + Len(v)
      /\ \A i \in 1 .. Len(s) + Len(v) : (s \o v)[i] = IF i <= Len(s) THEN s[i] ELSE v[i - Len(s)]
  BY ConcatProperties
<1>2. /\ Len(t \o v) = Len(t) + Len(v)
      /\ \A i \in 1 .. Len(t) + Len(v) : (t \o v)[i] = IF i <= Len(t) THEN t[i] ELSE v[i - Len(t)]
  BY ConcatProperties
<1>3. ASSUME NEW i \in 1 .. Len(s) + Len(v)
      PROVE  (s \o v)[i] = (t \o v)[Len(t) - Len(s) + i]
  <2> DEFINE j == Len(t) - Len(s) + i
  <2>1. j \in 1 .. Len(t) + Len(v) /\ (i <= Len(s) <=> j <= Len(t)) /\ j - Len(t) = i - Len(s)
    BY <1>0 DEF Ends
  <2>2. CASE i <= Len(s)
    <3>1. i \in 1 .. Len(s)
      BY <1>0, <2>2
    <3>2. (s \o v)[i] = s[i] /\ (t \o v)[j] = t[j]
      BY <1>1, <1>2, <2>1, <2>2
    <3> QED
      BY <3>1, <3>2 DEF Ends
  <2>3. CASE ~(i <= Len(s))
    <3>1. (s \o v)[i] = v[i - Len(s)] /\ (t \o v)[j] = v[j - Len(t)]
      BY <1>1, <1>2, <2>1, <2>3
    <3> QED
      BY <2>1, <3>1
  <2> QED
    BY <2>2, <2>3
<1>4. Len(t \o v) - Len(s \o v) = Len(t) - Len(s) /\ Len(s \o v) <= Len(t \o v)
  BY <1>0, <1>1, <1>2 DEF Ends
<1> QED
  BY <1>1, <1>3, <1>4 DEF Ends

\* Where a marker begins in the end of a stream with one marker.
LEMMA MarkersInEnd ==
  ASSUME NEW s \in Seq(Symbol), NEW t \in Seq(Symbol), NEW k \in Nat, MarkAt(k, t), Ends(s, t)
  PROVE  \A i \in Nat : i \in MarkersIn(s) <=>
           i >= 1 /\ Len(t) - Len(s) + i = k + 1 /\ k + MarkerLength <= Len(t)
<1> DEFINE d == Len(t) - Len(s)
           M == MarkerLength
<1>0. Len(s) \in Nat /\ Len(t) \in Nat /\ d \in Nat /\ M \in Nat /\ M >= 1 /\ Len(t) = d + Len(s)
  BY CaptureAssumption, LenProperties DEF Ends
<1>1. \A i \in 1 .. Len(s) : s[i] = t[d + i]
  BY DEF Ends
<1>2. \A i \in 1 .. Len(t) : IF i \in k + 1 .. k + M THEN t[i] = <<"mark", i - k>> ELSE t[i][1] # "mark"
  BY DEF MarkAt
<1>3. Marker \in Seq(Symbol) /\ Len(Marker) = M /\ \A j \in 1 .. M : Marker[j] = <<"mark", j>>
  BY SymbolType DEF Marker
<1> HIDE DEF d, M
<1>4. ASSUME NEW i \in Nat, i >= 1, i <= Len(s) - M + 1
      PROVE  /\ SubSeq(s, i, i + M - 1) \in Seq(Symbol) /\ Len(SubSeq(s, i, i + M - 1)) = M
             /\ \A j \in 1 .. M : SubSeq(s, i, i + M - 1)[j] = t[d + i + j - 1]
  <2> DEFINE n == i + M - 1
  <2>1. i \in 1 .. Len(s) + 1 /\ n \in i - 1 .. Len(s) /\ n - i + 1 = M
    BY <1>0, <1>4
  <2> HIDE DEF n
  <2>2. /\ SubSeq(s, i, n) \in Seq(Symbol) /\ Len(SubSeq(s, i, n)) = n - i + 1
        /\ \A j \in 1 .. n - i + 1 : SubSeq(s, i, n)[j] = s[i + j - 1]
    BY <2>1, PartOf
  <2>3. ASSUME NEW j \in 1 .. M PROVE SubSeq(s, i, n)[j] = t[d + i + j - 1]
    <3>1. i + j - 1 \in 1 .. Len(s) /\ d + (i + j - 1) = d + i + j - 1
      BY <1>0, <1>4
    <3> QED
      BY <1>1, <2>1, <2>2, <3>1
  <2> QED
    BY <2>1, <2>2, <2>3 DEF n
<1>5. ASSUME NEW i \in Nat, i \in MarkersIn(s)
      PROVE  i >= 1 /\ d + i = k + 1 /\ k + M <= Len(t)
  <2>1. i >= 1 /\ i <= Len(s) - M + 1 /\ SubSeq(s, i, i + M - 1) = Marker
    BY <1>0, <1>5 DEF MarkersIn, M
  <2> DEFINE q == d + i
             u == SubSeq(s, i, i + M - 1)
  <2>2. 1 \in 1 .. M /\ d + i + 1 - 1 = q /\ q \in 1 .. Len(t) /\ q \in Nat
    BY <1>0, <2>1
  <2>3. \A j \in 1 .. M : u[j] = t[d + i + j - 1]
    BY <1>4, <2>1
  <2>4. u = Marker
    BY <2>1
  <2> HIDE DEF u
  <2>5. u[1] = t[d + i + 1 - 1]
    BY <2>2, <2>3
  <2> HIDE DEF q
  <2>6. t[q] = <<"mark", 1>>
    BY <1>3, <2>2, <2>4, <2>5
  <2>7. CASE q \in k + 1 .. k + M
    <3>1. t[q] = <<"mark", q - k>>
      BY <1>2, <2>2, <2>7
    <3>2. q - k = 1
      BY <2>6, <3>1
    <3> QED
      BY <1>0, <2>1, <2>2, <3>2 DEF q
  <2>8. CASE ~(q \in k + 1 .. k + M)
    <3>1. t[q][1] # "mark"
      BY <1>2, <2>2, <2>8
    <3> QED
      BY <2>6, <3>1
  <2> QED
    BY <2>7, <2>8
<1>6. ASSUME NEW i \in Nat, i >= 1, d + i = k + 1, k + M <= Len(t)
      PROVE  i \in MarkersIn(s)
  <2>1. i <= Len(s) - M + 1
    BY <1>0, <1>6
  <2> DEFINE u == SubSeq(s, i, i + M - 1)
  <2>2. u \in Seq(Symbol) /\ Len(u) = M /\ \A j \in 1 .. M : u[j] = t[d + i + j - 1]
    BY <1>4, <1>6, <2>1
  <2> HIDE DEF u
  <2>3. ASSUME NEW j \in 1 .. M PROVE u[j] = Marker[j]
    <3>1. d + i + j - 1 = k + j /\ k + j \in 1 .. Len(t) /\ k + j \in k + 1 .. k + M /\ k + j - k = j
      BY <1>0, <1>6
    <3>2. t[k + j] = <<"mark", j>>
      BY <1>2, <3>1
    <3> QED
      BY <1>3, <2>2, <3>1, <3>2
  <2>4. u = Marker
    BY <1>3, <2>2, <2>3, SeqEqual
  <2>5. i \in 1 .. (Len(s) - M + 1)
    BY <1>0, <1>6, <2>1
  <2> QED
    BY <2>4, <2>5 DEF MarkersIn, u, M
<1> QED
  BY <1>5, <1>6 DEF d, M

\* The end behind the marker, when the marker is in it, and otherwise all.
LEMMA AfterMarkersInEnd ==
  ASSUME NEW s \in Seq(Symbol), NEW t \in Seq(Symbol), NEW k \in Nat, MarkAt(k, t), Ends(s, t)
  PROVE  IF Len(t) - Len(s) <= k /\ k + MarkerLength <= Len(t)
         THEN /\ MarkersIn(s) # {} /\ AfterMarkers(s) \in Seq(Symbol)
              /\ Len(AfterMarkers(s)) = Len(t) - (k + MarkerLength)
              /\ Ends(AfterMarkers(s), t)
              /\ AfterMarkers(s) = SubSeq(t, k + MarkerLength + 1, Len(t))
         ELSE MarkersIn(s) = {} /\ AfterMarkers(s) = s
<1> DEFINE d == Len(t) - Len(s)
           M == MarkerLength
<1>0. Len(s) \in Nat /\ Len(t) \in Nat /\ d \in Nat /\ M \in Nat /\ M >= 1 /\ Len(t) = d + Len(s)
  BY CaptureAssumption, LenProperties DEF Ends
<1>1. \A i \in Nat : i \in MarkersIn(s) <=> i >= 1 /\ d + i = k + 1 /\ k + M <= Len(t)
  BY MarkersInEnd
<1>2. \A i \in MarkersIn(s) : i \in Nat
  BY <1>0 DEF MarkersIn
<1> HIDE DEF d, M
<1>3. CASE d <= k /\ k + M <= Len(t)
  <2> DEFINE i0 == k + 1 - d
  <2>1. i0 \in Nat /\ i0 >= 1 /\ d + i0 = k + 1
    BY <1>0, <1>3
  <2>2. i0 \in MarkersIn(s) /\ \A i \in MarkersIn(s) : i = i0
    BY <1>0, <1>1, <1>2, <1>3, <2>1
  <2> HIDE DEF i0
  <2>3. Max(MarkersIn(s)) = i0
    <3>1. \A i \in MarkersIn(s) : i \in 0 .. i0
      BY <2>1, <2>2
    <3> QED
      BY <2>1, <2>2, <3>1, MaxOf
  <2>4. AfterMarkers(s) = SubSeq(s, i0 + M, Len(s))
    BY <2>2, <2>3 DEF AfterMarkers, M
  <2> DEFINE u == SubSeq(s, i0 + M, Len(s))
             m == i0 + M
  <2>5. /\ m \in 1 .. Len(s) + 1 /\ Len(s) \in m - 1 .. Len(s)
        /\ Len(s) - m + 1 = Len(t) - (k + M) /\ Len(t) - (k + M) \in Nat
    BY <1>0, <1>3, <2>1
  <2> HIDE DEF m
  <2>6. /\ SubSeq(s, m, Len(s)) \in Seq(Symbol) /\ Len(SubSeq(s, m, Len(s))) = Len(s) - m + 1
        /\ \A i \in 1 .. Len(s) - m + 1 : SubSeq(s, m, Len(s))[i] = s[m + i - 1]
    BY <2>5, PartOf
  <2>7. /\ u \in Seq(Symbol) /\ Len(u) = Len(t) - (k + M)
        /\ \A i \in 1 .. Len(u) : u[i] = s[i0 + M + i - 1]
    BY <2>5, <2>6 DEF m
  <2> HIDE DEF u
  <2>8. ASSUME NEW i \in 1 .. Len(u) PROVE u[i] = t[k + M + i]
    <3>1. i0 + M + i - 1 \in 1 .. Len(s) /\ d + (i0 + M + i - 1) = k + M + i
      BY <1>0, <1>3, <2>1, <2>7
    <3>2. s[i0 + M + i - 1] = t[d + (i0 + M + i - 1)]
      BY <3>1 DEF Ends, d
    <3> QED
      BY <2>7, <3>1, <3>2
  <2>9. Ends(u, t)
    <3>1. Len(u) <= Len(t) /\ \A i \in 1 .. Len(u) : Len(t) - Len(u) + i = k + M + i
      BY <1>0, <2>5, <2>7
    <3> QED
      BY <2>8, <3>1 DEF Ends
  <2>10. u = SubSeq(t, k + M + 1, Len(t))
    <3>1. k + M \in Nat /\ k + M + Len(u) = Len(t) /\ k + M + Len(u) <= Len(t)
      BY <1>0, <2>5, <2>7
    <3>2. u = SubSeq(t, k + M + 1, k + M + Len(u))
      BY <2>7, <2>8, <3>1, IsPart
    <3> QED
      BY <3>1, <3>2
  <2>11. AfterMarkers(s) = u
    BY <2>4 DEF u
  <2> QED
    BY <1>3, <2>2, <2>7, <2>9, <2>10, <2>11 DEF d, M
<1>4. CASE ~(d <= k /\ k + M <= Len(t))
  <2>1. MarkersIn(s) = {}
    BY <1>0, <1>1, <1>2, <1>4
  <2>2. AfterMarkers(s) = s
    BY <2>1 DEF AfterMarkers
  <2> QED
    BY <1>4, <2>1, <2>2 DEF d, M
<1> QED
  BY <1>3, <1>4

\* Taking in the first r symbols of the rest of the stream t behind its first
\* a symbols, what came before being retained in base.
LEMMA TakeIn ==
  ASSUME NEW t \in Seq(Symbol), NEW rest \in Seq(Symbol), NEW base \in Seq(Symbol),
         NEW a \in Nat, a + Len(rest) <= Len(t), Ends(rest, t),
         Retains(base, SubSeq(t, a + 1, Len(t) - Len(rest))),
         NEW r \in 0 .. Len(rest), NEW head \in Seq(Symbol), Len(head) = r,
         \A i \in 1 .. r : head[i] = rest[i],
         NEW end \in Seq(Symbol), Len(end) = Len(rest) - r,
         \A i \in 1 .. Len(rest) - r : end[i] = rest[r + i]
  PROVE  /\ Ends(end, t) /\ a + Len(end) <= Len(t)
         /\ Retains(IF r > 0 THEN Appended(base, head) ELSE base,
                    SubSeq(t, a + 1, Len(t) - Len(end)))
<1> DEFINE b == Len(t) - Len(rest)
           c == b + r
<1>0. /\ Len(t) \in Nat /\ Len(rest) \in Nat /\ b \in Nat /\ c \in Nat /\ a <= b /\ b <= c
      /\ c <= Len(t) /\ c = Len(t) - Len(end) /\ Len(end) \in Nat /\ Len(t) = b + Len(rest)
  BY LenProperties
<1>1. \A i \in 1 .. Len(rest) : rest[i] = t[b + i]
  BY DEF Ends
<1> HIDE DEF b
<1>2. Ends(end, t) /\ a + Len(end) <= Len(t)
  <2>1. ASSUME NEW i \in 1 .. Len(end) PROVE end[i] = t[Len(t) - Len(end) + i]
    <3>1. r + i \in 1 .. Len(rest) /\ b + (r + i) = Len(t) - Len(end) + i
      BY <1>0
    <3> QED
      BY <1>1, <3>1
  <2> QED
    BY <1>0, <2>1 DEF Ends
<1>3. ASSUME NEW i \in 1 .. r PROVE head[i] = t[b + i]
  <2>1. i \in 1 .. Len(rest)
    BY <1>0
  <2> QED
    BY <1>1, <2>1
<1>4. head = SubSeq(t, b + 1, c)
  <2>1. b + Len(head) <= Len(t)
    BY <1>0
  <2>2. head = SubSeq(t, b + 1, b + Len(head))
    BY <1>0, <1>3, <2>1, IsPart
  <2> QED
    BY <2>2
<1> HIDE DEF c
<1>5. /\ SubSeq(t, a + 1, b) \in Seq(Symbol)
      /\ SubSeq(t, a + 1, b) \o SubSeq(t, b + 1, c) = SubSeq(t, a + 1, c)
  <2>1. b \in Nat /\ c \in Nat /\ a <= b /\ b <= c /\ b <= Len(t) /\ c <= Len(t)
    BY <1>0
  <2>2. SubSeq(t, a + 1, b) \in Seq(Symbol)
    BY <2>1, PartBetween, Zenon
  <2>3. SubSeq(t, a + 1, b) \o SubSeq(t, b + 1, c) = SubSeq(t, a + 1, c)
    BY <2>1, PartsJoin, Zenon
  <2> QED
    BY <2>2, <2>3
<1>6. CASE r > 0
  <2> DEFINE x == SubSeq(t, a + 1, b)
  <2>1. Retains(base, x)
    BY DEF b
  <2> HIDE DEF x
  <2>2. Retains(Appended(base, head), x \o head)
    BY <1>5, <2>1, RetainsMore DEF x
  <2>3. x \o head = SubSeq(t, a + 1, Len(t) - Len(end))
    BY <1>0, <1>4, <1>5 DEF x
  <2> QED
    BY <1>2, <1>6, <2>2, <2>3
<1>7. CASE ~(r > 0)
  <2>1. Len(end) = Len(rest)
    BY <1>0, <1>7
  <2> QED
    BY <1>2, <1>7, <2>1
<1> QED
  BY <1>6, <1>7

-----------------------------------------------------------------------------
(***************************************************************************)
(* The relay and the stream, while resets are in order.                    *)
(***************************************************************************)

\* No marker since the reset: nothing is retained, and the end of the stream
\* that may begin a marker is kept back.
Waiting ==
  /\ active = FALSE /\ output = << >> /\ Ends(pending, ref)
  /\ Len(pending) = KeepBack \/ Len(pending) = Len(ref)

\* A marker behind the first k symbols has come.
Holding(k) ==
  /\ active = TRUE /\ Ends(pending, ref) /\ k + MarkerLength + Len(pending) <= Len(ref)
  /\ Retains(output, SubSeq(ref, k + MarkerLength + 1, Len(ref) - Len(pending)))

RelayFollows(k) ==
  IF k + MarkerLength <= Len(ref) THEN Holding(k) ELSE Waiting

\* Nothing is retained of nothing.
LEMMA RetainsNothing ==
  ASSUME NEW t \in Seq(Symbol), NEW a \in Nat, a <= Len(t)
  PROVE  Retains(<< >>, SubSeq(t, a + 1, a))
<1>1. SubSeq(t, a + 1, a) = << >>
  BY SubSeqEmpty
<1>2. << >> \in Seq(Symbol) /\ Len(<< >>) = 0
  BY EmptySeq
<1>3. Text(<< >>) \in Seq(Symbol)
  BY <1>2, TextConcat
<1>4. Text(<< >>) = << >> \o Text(<< >>)
  BY <1>3, ConcatEmptySeq
<1> DEFINE e == << >>
<1>5. Len(e) = 0 /\ e \in Seq(Symbol) /\ Text(e) = e \o Text(e)
  BY <1>2, <1>4
<1> HIDE DEF e
<1>6. Retains(e, e)
  <2>1. \E u \in Seq(Symbol) : Text(e) = u \o Text(e)
    BY <1>5
  <2>2. \A i \in 1 .. Len(e) : FALSE
    BY <1>5
  <2>3. Len(e) <= Len(e)
    BY <1>5
  <2> QED
    BY <2>1, <2>2, <2>3, Zenon DEF Retains
<1> QED
  BY <1>1, <1>6 DEF e

\* A chunk, however the stream is cut, keeps the relay at the stream.
LEMMA FeedFollows ==
  ASSUME RelayTyped, ref \in Seq(Symbol), NEW v \in Seq(Symbol), FeedLocked(v),
         ref' = ref \o v, NEW k \in Nat, MarkAt(k, ref'), RelayFollows(k)
  PROVE  RelayFollows(k)'
<1> DEFINE all == pending \o v
           rest == AfterMarkers(all)
           found == MarkersIn(all) # {}
           base == IF found THEN << >> ELSE output
           r == ReadyOf(rest)
           M == MarkerLength
           t == ref'
           head == SubSeq(rest, 1, r)
           end == SubSeq(rest, r + 1, Len(rest))
<1>1. /\ active' = (active \/ found)
      /\ output' = IF active' /\ r > 0 THEN Appended(base, head) ELSE base
      /\ pending' = end
  BY DEF FeedLocked, ReadyOf
<1>2. /\ all \in Seq(Symbol) /\ Len(all) = Len(pending) + Len(v)
      /\ t \in Seq(Symbol) /\ Len(t) = Len(ref) + Len(v)
  BY ConcatProperties DEF RelayTyped
<1>3. /\ Len(pending) \in Nat /\ Len(v) \in Nat /\ Len(ref) \in Nat /\ M \in Nat /\ M >= 1
      /\ KeepBack = M - 1 /\ Len(pending) < M
  BY LenProperties, CaptureAssumption DEF RelayTyped, KeepBack
<1>4. Ends(pending, ref)
  BY DEF RelayFollows, Waiting, Holding
<1>5. Ends(all, t)
  BY <1>4, EndsConcat DEF RelayTyped
<1> HIDE DEF M, t, all
<1>6. IF Len(t) - Len(all) <= k /\ k + M <= Len(t)
      THEN /\ found /\ rest \in Seq(Symbol) /\ Len(rest) = Len(t) - (k + M)
           /\ Ends(rest, t)
      ELSE ~found /\ rest = all
  BY <1>2, <1>5, AfterMarkersInEnd DEF t, M
<1>7. rest \in Seq(Symbol)
  BY <1>2, <1>6
<1> HIDE DEF rest
<1>8. /\ r \in 0 .. Len(rest) /\ head \in Seq(Symbol) /\ Len(head) = r
      /\ \A i \in 1 .. r : head[i] = rest[i]
      /\ end \in Seq(Symbol) /\ Len(end) = Len(rest) - r
      /\ \A i \in 1 .. Len(rest) - r : end[i] = rest[r + i]
      /\ Len(rest) - r < M /\ (r = 0 \/ Len(rest) - r = KeepBack)
  BY <1>7, ReadyFacts DEF M
<1>81. /\ Len(rest) \in Nat /\ r \in 0 .. Len(rest) /\ Len(end) = Len(rest) - r
       /\ Len(rest) - r < M /\ (r = 0 \/ Len(rest) - r = KeepBack)
  BY <1>7, <1>8, LenProperties
<1> HIDE DEF r, head, end
<1>9. ASSUME k + M <= Len(t), Ends(rest, t), k + M + Len(rest) <= Len(t), active' = TRUE,
             base \in Seq(Symbol), Retains(base, SubSeq(t, k + M + 1, Len(t) - Len(rest)))
      PROVE  Holding(k)'
  <2>1. output' = IF r > 0 THEN Appended(base, head) ELSE base
    BY <1>1, <1>9
  <2> HIDE DEF base
  <2>2. k + M \in Nat
    BY <1>3
  <2>3. /\ Ends(end, t) /\ k + M + Len(end) <= Len(t)
        /\ Retains(output', SubSeq(t, k + M + 1, Len(t) - Len(end)))
    BY <1>2, <1>7, <1>8, <1>9, <2>1, <2>2, TakeIn
  <2> QED
    BY <1>1, <1>9, <2>3 DEF Holding, t, M
<1>10. CASE k + M <= Len(ref)
  <2>1. Holding(k)
    BY <1>10 DEF RelayFollows, M
  <2>2. /\ active = TRUE /\ k + M + Len(pending) <= Len(ref)
        /\ Retains(output, SubSeq(ref, k + M + 1, Len(ref) - Len(pending)))
    BY <2>1 DEF Holding, M
  <2>3. k + M <= Len(t) /\ ~(Len(t) - Len(all) <= k) /\ k + M + Len(all) <= Len(t)
        /\ Len(t) - Len(all) = Len(ref) - Len(pending)
    BY <1>2, <1>3, <1>10, <2>2
  <2>4. ~found /\ rest = all
    BY <1>6, <2>3
  <2>5. base = output /\ base \in Seq(Symbol) /\ active' = TRUE
    BY <1>1, <2>2, <2>4 DEF RelayTyped
  <2> DEFINE b == Len(ref) - Len(pending)
             a == k + M
             x == SubSeq(ref, a + 1, b)
  <2>6. /\ a \in Nat /\ b \in Nat /\ a <= b /\ b <= Len(ref) /\ b = Len(t) - Len(rest) /\ b <= Len(t)
    <3>1. Len(rest) = Len(all)
      BY <2>4
    <3> QED
      BY <1>2, <1>3, <2>2, <2>3, <3>1
  <2>7. Retains(output, x)
    BY <2>2
  <2> HIDE DEF a, b
  <2>8. x \in Seq(Symbol) /\ Len(x) = b - a /\ \A i \in 1 .. b - a : x[i] = ref[a + i]
    BY <2>6, PartBetween
  <2> HIDE DEF x
  <2>9. ASSUME NEW i \in 1 .. Len(x) PROVE x[i] = t[a + i]
    <3>1. a + i \in 1 .. Len(ref) + Len(v) /\ a + i <= Len(ref)
      BY <1>3, <2>6, <2>8
    <3>2. t[a + i] = ref[a + i]
      BY <3>1, ConcatProperties DEF t
    <3> QED
      BY <2>8, <3>2
  <2>10. x = SubSeq(t, a + 1, b)
    <3>1. a + Len(x) = b /\ a + Len(x) <= Len(t)
      BY <1>2, <1>3, <2>6, <2>8
    <3>2. x = SubSeq(t, a + 1, a + Len(x))
      BY <1>2, <2>6, <2>8, <2>9, <3>1, IsPart
    <3> QED
      BY <3>1, <3>2
  <2>11. Retains(base, SubSeq(t, k + M + 1, Len(t) - Len(rest)))
    BY <2>5, <2>6, <2>7, <2>10 DEF a
  <2>12. Holding(k)'
    BY <1>5, <1>9, <2>3, <2>4, <2>5, <2>11
  <2> QED
    BY <2>3, <2>12 DEF RelayFollows, t, M
<1>11. CASE ~(k + M <= Len(ref))
  <2>1. Waiting
    BY <1>11 DEF RelayFollows, M
  <2>2. active = FALSE /\ output = << >> /\ (Len(pending) = KeepBack \/ Len(pending) = Len(ref))
    BY <2>1 DEF Waiting
  <2>3. Len(t) - Len(all) <= k
    BY <1>2, <1>3, <1>11, <2>2
  <2>4. CASE k + M <= Len(t)
    <3>1. found /\ Len(rest) = Len(t) - (k + M) /\ Ends(rest, t)
      BY <1>6, <2>3, <2>4
    <3>2. base = << >> /\ base \in Seq(Symbol) /\ active' = TRUE
      BY <1>1, <2>2, <3>1, EmptySeq
    <3>3. k + M \in Nat /\ Len(t) - Len(rest) = k + M /\ k + M + Len(rest) <= Len(t)
      BY <1>2, <1>3, <2>4, <3>1
    <3>4. Retains(base, SubSeq(t, k + M + 1, Len(t) - Len(rest)))
      BY <1>2, <2>4, <3>2, <3>3, RetainsNothing
    <3>5. Holding(k)'
      BY <1>9, <2>4, <3>1, <3>2, <3>3, <3>4
    <3> QED
      BY <2>4, <3>5 DEF RelayFollows, t, M
  <2>5. CASE ~(k + M <= Len(t))
    <3>1. ~found /\ rest = all
      BY <1>6, <2>5
    <3>2. active' = FALSE /\ output' = << >>
      BY <1>1, <2>2, <3>1
    <3>3. Ends(end, t)
      <4>1. \A i \in 1 .. Len(all) : all[i] = t[Len(t) - Len(all) + i]
        BY <1>5 DEF Ends
      <4>2. ASSUME NEW i \in 1 .. Len(end) PROVE end[i] = t[Len(t) - Len(end) + i]
        <5>1. /\ r + i \in 1 .. Len(all) /\ Len(t) - Len(all) + (r + i) = Len(t) - Len(end) + i
              /\ i \in 1 .. Len(rest) - r
          <6>1. Len(rest) = Len(all)
            BY <3>1
          <6> QED
            BY <1>2, <1>3, <1>81, <6>1
        <5> QED
          BY <1>8, <3>1, <4>1, <5>1
      <4>3. Len(end) <= Len(t)
        BY <1>2, <1>3, <1>5, <1>8, <3>1 DEF Ends
      <4> QED
        BY <4>2, <4>3 DEF Ends
    <3>4. Len(end) = KeepBack \/ Len(end) = Len(t)
      <4>1. Len(rest) = Len(all)
        BY <3>1
      <4>2. Len(all) = Len(pending) + Len(v) /\ Len(t) = Len(ref) + Len(v)
        BY <1>2
      <4>3. CASE r = 0 /\ Len(pending) = KeepBack
        BY <1>3, <1>81, <4>1, <4>2, <4>3
      <4>4. CASE r = 0 /\ Len(pending) = Len(ref)
        BY <1>3, <1>81, <4>1, <4>2, <4>4
      <4> QED
        BY <1>81, <2>2, <4>3, <4>4
    <3>5. Waiting'
      BY <1>1, <3>2, <3>3, <3>4 DEF Waiting, KeepBack, t
    <3> QED
      BY <2>5, <3>5 DEF RelayFollows, t, M
  <2> QED
    BY <2>4, <2>5
<1> QED
  BY <1>10, <1>11

\* A snapshot takes in what was kept back, and the answer is what is retained.
LEMMA SnapshotFollows ==
  ASSUME RelayTyped, ref \in Seq(Symbol), Snapshot, ref' = ref, NEW k \in Nat, RelayFollows(k)
  PROVE  /\ RelayFollows(k)' /\ Flushed \in Seq(Symbol)
         /\ IF k + MarkerLength <= Len(ref)
            THEN Retains(Flushed, SubSeq(ref, k + MarkerLength + 1, Len(ref)))
            ELSE Flushed = << >>
<1> DEFINE M == MarkerLength
           a == k + M
           e == << >>
           r == Len(pending)
<1>0. /\ pending \in Seq(Symbol) /\ output \in Seq(Symbol) /\ Flushed \in Seq(Symbol)
  BY SnapshotTyped DEF RelayTyped
<1>1. r \in Nat /\ r \in 0 .. Len(pending) /\ Len(ref) \in Nat /\ a \in Nat
  BY <1>0, LenProperties, CaptureAssumption
<1>2. e \in Seq(Symbol) /\ Len(e) = 0 /\ Len(e) = Len(pending) - r /\ (pending # e <=> r > 0)
  BY <1>0, <1>1, EmptySeq, EmptyTyped
<1>3. CASE a <= Len(ref)
  <2>1. Holding(k)
    BY <1>3 DEF RelayFollows
  <2>2. /\ active = TRUE /\ Ends(pending, ref) /\ a + Len(pending) <= Len(ref)
        /\ Retains(output, SubSeq(ref, a + 1, Len(ref) - Len(pending)))
    BY <2>1 DEF Holding
  <2>3. /\ \A i \in 1 .. r : pending[i] = pending[i]
        /\ \A i \in 1 .. Len(pending) - r : e[i] = pending[r + i]
    BY <1>1
  <2>4. Flushed = IF r > 0 THEN Appended(output, pending) ELSE output
    BY <1>2, <2>2 DEF Flushed
  <2>5. active' = TRUE /\ output' = Flushed /\ pending' = e
    BY <2>2 DEF Snapshot
  <2> HIDE DEF e, a, r
  <2>6. /\ Ends(e, ref) /\ a + Len(e) <= Len(ref)
        /\ Retains(Flushed, SubSeq(ref, a + 1, Len(ref) - Len(e)))
    <3>1. Len(pending) = r
      BY DEF r
    <3> QED
      BY <1>0, <1>1, <1>2, <2>2, <2>3, <2>4, <3>1, TakeIn
  <2>7. Len(ref) - Len(e) = Len(ref)
    BY <1>1, <1>2
  <2>8. Holding(k)'
    BY <2>5, <2>6 DEF Holding, a
  <2> QED
    BY <1>0, <1>3, <2>6, <2>7, <2>8 DEF RelayFollows, a
<1>4. CASE ~(a <= Len(ref))
  <2>1. Waiting
    BY <1>4 DEF RelayFollows
  <2>2. Flushed = << >> /\ pending' = pending /\ output' = output /\ active' = active
    BY <2>1 DEF Waiting, Flushed, Snapshot
  <2>3. Waiting'
    BY <2>1, <2>2 DEF Waiting, KeepBack
  <2> QED
    BY <1>0, <1>4, <2>2, <2>3 DEF RelayFollows
<1> QED
  BY <1>3, <1>4

-----------------------------------------------------------------------------
(***************************************************************************)
(* The shell and the stream, while resets are in order.                    *)
(***************************************************************************)

\* All that was shown since the last reset was answered.
Shown == ref \o pipe

\* No part of s is of a marker.
Unmarked(s) == \A i \in 1 .. Len(s) : s[i][1] # "mark"

\* What was shown holds at most the marker behind its first k symbols, whole;
\* when the adapter is to print it, none.  A command runs behind the marker
\* in Zsh, and before the reset in Bash, which reads with nothing behind it.
ShellFollows(k) ==
  /\ MarkAt(k, Shown)
  /\ k >= Len(Shown) \/ k + MarkerLength <= Len(Shown)
  /\ pc = "mark" => k >= Len(Shown)
  /\ Shell = "zsh" /\ pc \in {"run", "read"} =>
       Len(Shown) = k + MarkerLength + Len(own) /\ Ends(own, Shown)
  /\ Shell = "bash" /\ pc = "read" => Len(Shown) = k + MarkerLength

\* own is of the current command, and empty until it runs.
OwnOutput ==
  /\ \A i \in 1 .. Len(own) : own[i] \in PrintedBy(number)
  /\ Shell = "zsh" /\ pc \in {"reset", "mark"} => own = << >>

\* The first of two parts has the marks of the whole.
LEMMA MarkFirst ==
  ASSUME NEW s \in Seq(Symbol), NEW v \in Seq(Symbol), NEW k \in Nat, MarkAt(k, s \o v)
  PROVE  MarkAt(k, s)
<1>0. Len(s) \in Nat /\ Len(v) \in Nat
  BY LenProperties
<1>1. Len(s \o v) = Len(s) + Len(v) /\ \A i \in 1 .. Len(s) : (s \o v)[i] = s[i]
  BY <1>0, ConcatProperties
<1> DEFINE t == s \o v
<1>2. Len(t) = Len(s) + Len(v) /\ (\A i \in 1 .. Len(s) : t[i] = s[i]) /\ MarkAt(k, t)
  BY <1>1
<1> HIDE DEF t
<1>3. ASSUME NEW i \in 1 .. Len(s)
      PROVE  IF i \in k + 1 .. k + MarkerLength THEN s[i] = <<"mark", i - k>> ELSE s[i][1] # "mark"
  <2>1. i \in 1 .. Len(t)
    BY <1>0, <1>2
  <2> QED
    BY <1>2, <2>1 DEF MarkAt
<1> QED
  BY <1>3 DEF MarkAt

\* Showing what is not of a marker.
LEMMA MarkMore ==
  ASSUME NEW s \in Seq(Symbol), NEW v \in Seq(Symbol), Unmarked(v), NEW k \in Nat, MarkAt(k, s)
  PROVE  /\ k + MarkerLength <= Len(s) => MarkAt(k, s \o v)
         /\ k >= Len(s) => MarkAt(Len(s \o v), s \o v)
<1> DEFINE M == MarkerLength
           t == s \o v
           n == Len(t)
<1>0. Len(s) \in Nat /\ Len(v) \in Nat /\ M \in Nat /\ n \in Nat
  BY LenProperties, ConcatProperties, CaptureAssumption
<1>1. /\ n = Len(s) + Len(v)
      /\ \A i \in 1 .. Len(s) + Len(v) : t[i] = IF i <= Len(s) THEN s[i] ELSE v[i - Len(s)]
  BY ConcatProperties
<1> HIDE DEF t
<1>2. ASSUME NEW i \in 1 .. n, ~(i <= Len(s)) PROVE t[i][1] # "mark"
  <2>1. t[i] = v[i - Len(s)] /\ i - Len(s) \in 1 .. Len(v)
    BY <1>0, <1>1, <1>2
  <2> QED
    BY <2>1 DEF Unmarked
<1>3. ASSUME NEW i \in 1 .. n, i <= Len(s)
      PROVE  /\ t[i] = s[i]
             /\ IF i \in k + 1 .. k + M THEN s[i] = <<"mark", i - k>> ELSE s[i][1] # "mark"
  <2>1. t[i] = s[i] /\ i \in 1 .. Len(s)
    BY <1>0, <1>1, <1>3
  <2> QED
    BY <2>1 DEF MarkAt, M
<1> HIDE DEF n, M
<1>4. ASSUME k + M <= Len(s) PROVE MarkAt(k, t)
  <2> SUFFICES ASSUME NEW i \in 1 .. n
               PROVE  IF i \in k + 1 .. k + M THEN t[i] = <<"mark", i - k>> ELSE t[i][1] # "mark"
    BY DEF MarkAt, n, M
  <2>1. CASE i <= Len(s)
    BY <1>3, <2>1
  <2>2. CASE ~(i <= Len(s))
    <3>1. i \notin k + 1 .. k + M
      BY <1>0, <1>4, <2>2
    <3> QED
      BY <1>2, <2>2, <3>1
  <2> QED
    BY <2>1, <2>2
<1>5. ASSUME k >= Len(s) PROVE MarkAt(n, t)
  <2> SUFFICES ASSUME NEW i \in 1 .. n
               PROVE  IF i \in n + 1 .. n + M THEN t[i] = <<"mark", i - n>> ELSE t[i][1] # "mark"
    BY DEF MarkAt, n, M
  <2>1. i \notin n + 1 .. n + M
    BY <1>0
  <2>2. CASE i <= Len(s)
    <3>1. i \notin k + 1 .. k + M
      BY <1>0, <1>5, <2>2
    <3> QED
      BY <1>3, <2>1, <2>2, <3>1
  <2>3. CASE ~(i <= Len(s))
    BY <1>2, <2>1, <2>3
  <2> QED
    BY <2>2, <2>3
<1> QED
  BY <1>4, <1>5 DEF t, n, M

\* Showing the marker.
LEMMA MarkNew ==
  ASSUME NEW s \in Seq(Symbol), NEW k \in Nat, MarkAt(k, s), k >= Len(s)
  PROVE  MarkAt(Len(s), s \o Marker)
<1> DEFINE M == MarkerLength
           t == s \o Marker
           n == Len(s)
<1>0. n \in Nat /\ M \in Nat /\ Marker \in Seq(Symbol) /\ Len(Marker) = M
  BY LenProperties, SymbolType, CaptureAssumption
<1>1. /\ Len(t) = n + M
      /\ \A i \in 1 .. n + M : t[i] = IF i <= n THEN s[i] ELSE Marker[i - n]
  BY <1>0, ConcatProperties
<1>2. \A i \in 1 .. n : IF i \in k + 1 .. k + M THEN s[i] = <<"mark", i - k>> ELSE s[i][1] # "mark"
  BY DEF MarkAt
<1>3. \A j \in 1 .. M : Marker[j] = <<"mark", j>>
  BY DEF Marker
<1>4. k >= n
  OBVIOUS
<1> HIDE DEF t, n, M
<1>5. ASSUME NEW i \in 1 .. n + M
      PROVE  IF i \in n + 1 .. n + M THEN t[i] = <<"mark", i - n>> ELSE t[i][1] # "mark"
  <2>1. CASE i <= n
    <3>1. i \in 1 .. n /\ i \notin n + 1 .. n + M /\ i \notin k + 1 .. k + M
      BY <1>0, <1>4, <2>1
    <3>2. t[i] = s[i]
      BY <1>1, <2>1
    <3> QED
      BY <1>2, <3>1, <3>2
  <2>2. CASE ~(i <= n)
    <3>1. i \in n + 1 .. n + M /\ i - n \in 1 .. M
      BY <1>0, <2>2
    <3>2. t[i] = Marker[i - n]
      BY <1>1, <2>2
    <3> QED
      BY <1>3, <3>1, <3>2
  <2> QED
    BY <2>1, <2>2
<1> QED
  BY <1>1, <1>5 DEF MarkAt, t, n, M

\* What the two streams have in common.
LEMMA ShownFacts ==
  ASSUME ShellTyped
  PROVE  /\ Shown \in Seq(Symbol) /\ Len(Shown) = Len(ref) + Len(pipe)
         /\ Len(ref) \in Nat /\ Len(pipe) \in Nat /\ Len(Shown) \in Nat
         /\ \A i \in 1 .. Len(ref) : Shown[i] = ref[i]
<1>1. ref \in Seq(Symbol) /\ pipe \in Seq(Symbol)
  BY DEF ShellTyped
<1>2. Len(ref) \in Nat /\ Len(pipe) \in Nat
  BY <1>1, LenProperties
<1>3. /\ ref \o pipe \in Seq(Symbol) /\ Len(ref \o pipe) = Len(ref) + Len(pipe)
      /\ \A i \in 1 .. Len(ref) + Len(pipe) :
           (ref \o pipe)[i] = IF i <= Len(ref) THEN ref[i] ELSE pipe[i - Len(ref)]
  BY <1>1, ConcatProperties
<1> QED
  BY <1>2, <1>3 DEF Shown

\* Showing anything puts it behind what was shown.
LEMMA ShowConcat ==
  ASSUME ShellTyped, NEW v \in Seq(Symbol), Show(v), ref' = ref
  PROVE  Shown' = Shown \o v
BY Associative DEF ShellTyped, Show, Shown

\* Showing what is not of a marker.
LEMMA ShowMore ==
  ASSUME ShellTyped, NEW v \in Seq(Symbol), Unmarked(v), Show(v), UNCHANGED <<relay, ref>>,
         NEW k \in Nat, ShellFollows(k), RelayFollows(k)
  PROVE  \E n \in Nat :
           /\ MarkAt(n, Shown') /\ RelayFollows(n)'
           /\ n >= Len(Shown') \/ n + MarkerLength <= Len(Shown')
           /\ k + MarkerLength <= Len(Shown) => n = k
<1> DEFINE t == Shown \o v
           M == MarkerLength
<1>0. /\ Shown \in Seq(Symbol) /\ Len(Shown) = Len(ref) + Len(pipe) /\ Len(Shown) \in Nat
      /\ Len(ref) \in Nat /\ Len(pipe) \in Nat /\ M \in Nat /\ M >= 1 /\ Len(v) \in Nat
  BY ShownFacts, LenProperties, CaptureAssumption
<1>1. Len(t) = Len(Shown) + Len(v) /\ Len(t) \in Nat
  <2> DEFINE s == Shown
  <2>1. s \in Seq(Symbol)
    BY <1>0
  <2> HIDE DEF s
  <2>2. Len(s \o v) = Len(s) + Len(v)
    BY <2>1, ConcatProperties
  <2> QED
    BY <1>0, <2>2 DEF s
<1>2. MarkAt(k, Shown) /\ (k >= Len(Shown) \/ k + M <= Len(Shown))
  BY DEF ShellFollows
<1>3. Shown' = t
  BY ShowConcat
<1>4. (k + M <= Len(Shown) => MarkAt(k, t)) /\ (k >= Len(Shown) => MarkAt(Len(t), t))
  BY <1>0, <1>2, MarkMore
<1> HIDE DEF t
<1>5. CASE k + M <= Len(Shown)
  <2>1. k + M <= Len(t)
    BY <1>0, <1>1, <1>5
  <2>2. RelayFollows(k)'
    BY DEF RelayFollows, Holding, Waiting, KeepBack, relay
  <2>3. MarkAt(k, Shown') /\ k + M <= Len(Shown')
    BY <1>3, <1>4, <1>5, <2>1
  <2> WITNESS k \in Nat
  <2> QED
    BY <2>2, <2>3 DEF M
<1>6. CASE ~(k + M <= Len(Shown))
  <2>1. k >= Len(Shown)
    BY <1>2, <1>6
  <2>0. PICK n \in Nat : n = Len(t)
    BY <1>1
  <2>2. ~(k + M <= Len(ref)) /\ ~(n + M <= Len(ref))
    BY <1>0, <1>1, <2>0, <2>1
  <2>3. n >= Len(t)
    BY <1>1, <2>0
  <2>4. MarkAt(n, Shown') /\ n >= Len(Shown')
    BY <1>3, <1>4, <2>0, <2>1, <2>3
  <2>5. RelayFollows(n)'
    <3>1. Waiting
      BY <2>2 DEF RelayFollows, M
    <3>2. Waiting'
      BY <3>1 DEF Waiting, KeepBack, relay
    <3>3. ~(n + MarkerLength <= Len(ref'))
      BY <2>2 DEF M
    <3> QED
      BY <3>2, <3>3 DEF RelayFollows
  <2> WITNESS n \in Nat
  <2> QED
    BY <1>6, <2>4, <2>5 DEF M
<1> QED
  BY <1>5, <1>6

\* What commands and prompts show is not of a marker.
LEMMA PieceUnmarked ==
  ASSUME NEW n \in Nat
  PROVE  /\ \A piece \in Piece(n) :
              /\ Unmarked(piece)
              /\ \A i \in 1 .. Len(piece) : piece[i] \in PrintedBy(n)
         /\ Unmarked(<< <<"prompt", n>>, <<"echo", n>> >>)
<1>1. ASSUME NEW kind \in {"text", "name"}, NEW piece, piece = << <<kind, n>> >>
      PROVE  /\ Unmarked(piece)
             /\ \A i \in 1 .. Len(piece) : piece[i] \in PrintedBy(n)
  <2>1. Len(piece) = 1 /\ piece[1] = <<kind, n>>
    BY <1>1
  <2> QED
    BY <2>1 DEF Unmarked, PrintedBy
<1>2. ASSUME NEW piece, piece = << <<"head", n>>, <<"tail", n>> >>
      PROVE  /\ Unmarked(piece)
             /\ \A i \in 1 .. Len(piece) : piece[i] \in PrintedBy(n)
  <2>1. Len(piece) = 2 /\ piece[1] = <<"head", n>> /\ piece[2] = <<"tail", n>>
    BY <1>2
  <2> QED
    BY <2>1 DEF Unmarked, PrintedBy
<1>3. ASSUME NEW piece, piece = << <<"prompt", n>>, <<"echo", n>> >>
      PROVE  Unmarked(piece)
  <2>1. Len(piece) = 2 /\ piece[1] = <<"prompt", n>> /\ piece[2] = <<"echo", n>>
    BY <1>3
  <2> QED
    BY <2>1 DEF Unmarked
<1> QED
  BY <1>1, <1>2, <1>3 DEF Piece

Followed == \E k \in Nat : ShellFollows(k) /\ RelayFollows(k)

\* A chunk moves along the stream.
LEMMA FeedFollowed ==
  ASSUME RelayTyped, ShellTyped, FeedReader, Followed
  PROVE  Followed'
<1>1. PICK k \in Nat : ShellFollows(k) /\ RelayFollows(k)
  BY DEF Followed
<1>2. PICK n \in 1 .. Len(pipe) :
        /\ FeedLocked(SubSeq(pipe, 1, n)) /\ pipe' = SubSeq(pipe, n + 1, Len(pipe))
        /\ ref' = ref \o SubSeq(pipe, 1, n) /\ UNCHANGED <<pc, own>>
  BY DEF FeedReader
<1> DEFINE v == SubSeq(pipe, 1, n)
           w == SubSeq(pipe, n + 1, Len(pipe))
<1>3. ref \in Seq(Symbol) /\ pipe \in Seq(Symbol) /\ Len(pipe) \in Nat
  BY LenProperties DEF ShellTyped
<1>4. v \in Seq(Symbol) /\ w \in Seq(Symbol) /\ v \o w = pipe
  <2> DEFINE z == 0
             c == Len(pipe)
  <2>1. z \in Nat /\ n \in Nat /\ c \in Nat /\ z <= n /\ n <= c /\ c <= Len(pipe) /\ n <= Len(pipe)
    BY <1>3
  <2>2. z + 1 = 1 /\ SubSeq(pipe, 1, c) = pipe
    BY <1>3, SubSeqFull
  <2> HIDE DEF z, c
  <2>3. SubSeq(pipe, z + 1, n) \in Seq(Symbol)
    BY <1>3, <2>1, PartBetween
  <2>4. SubSeq(pipe, n + 1, c) \in Seq(Symbol)
    BY <1>3, <2>1, PartBetween
  <2>5. SubSeq(pipe, z + 1, n) \o SubSeq(pipe, n + 1, c) = SubSeq(pipe, z + 1, c)
    BY <1>3, <2>1, PartsJoin
  <2> QED
    BY <2>2, <2>3, <2>4, <2>5 DEF c
<1>5. FeedLocked(v) /\ ref' = ref \o v /\ pipe' = w
  BY <1>2
<1> HIDE DEF v, w
<1>6. Shown' = Shown
  <2>1. (ref \o v) \o w = ref \o (v \o w)
    BY <1>3, <1>4, Associative
  <2> QED
    BY <1>4, <1>5, <2>1 DEF Shown
<1>7. MarkAt(k, ref')
  <2> DEFINE s == ref \o v
  <2>1. s \in Seq(Symbol)
    BY <1>3, <1>4, ConcatProperties
  <2>2. MarkAt(k, s \o w)
    BY <1>1, <1>5, <1>6 DEF ShellFollows, Shown
  <2> HIDE DEF s
  <2>3. MarkAt(k, s)
    BY <1>4, <2>1, <2>2, MarkFirst
  <2> QED
    BY <1>5, <2>3 DEF s
<1>8. RelayFollows(k)'
  BY <1>1, <1>3, <1>4, <1>5, <1>7, FeedFollows
<1>9. ShellFollows(k)'
  BY <1>1, <1>2, <1>6 DEF ShellFollows
<1> QED
  BY <1>8, <1>9 DEF Followed

\* The prompt and the typed line are shown behind all.
LEMMA EnterFollowed ==
  ASSUME RelayTyped, ShellTyped, EnterCommand, Followed
  PROVE  Followed'
<1>1. PICK k \in Nat : ShellFollows(k) /\ RelayFollows(k)
  BY DEF Followed
<1> DEFINE v == << <<"prompt", number'>>, <<"echo", number'>> >>
<1>2. number' \in Nat /\ Show(v) /\ UNCHANGED <<relay, ref>> /\ pc' \in {"reset", "run"}
      /\ (Shell = "zsh" => pc' = "reset")
  BY CaptureAssumption DEF EnterCommand, ShellTyped
<1>3. v \in Seq(Symbol) /\ Unmarked(v)
  BY <1>2, PieceTyped, PieceUnmarked
<1> HIDE DEF v
<1>4. PICK n \in Nat :
        /\ MarkAt(n, Shown') /\ RelayFollows(n)'
        /\ n >= Len(Shown') \/ n + MarkerLength <= Len(Shown')
        /\ k + MarkerLength <= Len(Shown) => n = k
  BY <1>1, <1>2, <1>3, ShowMore
<1>5. ShellFollows(n)'
  BY <1>2, <1>4 DEF ShellFollows
<1> QED
  BY <1>4, <1>5 DEF Followed

\* What the command prints is shown behind all, and behind the marker in Zsh.
LEMMA PrintsFollowed ==
  ASSUME RelayTyped, ShellTyped, CommandPrints, Followed
  PROVE  Followed'
<1>1. PICK k \in Nat : ShellFollows(k) /\ RelayFollows(k)
  BY DEF Followed
<1>2. PICK v \in Piece(number) : own' = own \o v /\ Show(v)
  BY DEF CommandPrints, Piece
<1>3. number \in Nat /\ UNCHANGED <<relay, ref>> /\ pc = "run" /\ pc' = "run"
  BY CaptureAssumption DEF CommandPrints, ShellTyped
<1>4. v \in Seq(Symbol) /\ Unmarked(v)
  BY <1>3, PieceTyped, PieceUnmarked
<1>5. PICK n \in Nat :
        /\ MarkAt(n, Shown') /\ RelayFollows(n)'
        /\ n >= Len(Shown') \/ n + MarkerLength <= Len(Shown')
        /\ k + MarkerLength <= Len(Shown) => n = k
  BY <1>1, <1>2, <1>3, <1>4, ShowMore
<1>6. ASSUME Shell = "zsh"
      PROVE  Len(Shown') = n + MarkerLength + Len(own') /\ Ends(own', Shown')
  <2> DEFINE s == Shown
             M == MarkerLength
  <2>1. s \in Seq(Symbol) /\ Len(s) \in Nat /\ M \in Nat
    BY ShownFacts, CaptureAssumption
  <2>2. own \in Seq(Symbol) /\ Len(own) \in Nat /\ Len(v) \in Nat
    BY <1>4, LenProperties DEF ShellTyped
  <2>3. Len(s) = k + M + Len(own) /\ Ends(own, s)
    BY <1>1, <1>3, <1>6 DEF ShellFollows
  <2>4. Shown' = s \o v
    BY <1>2, <1>3, <1>4, ShowConcat
  <2>5. n = k
    BY <1>5, <2>1, <2>2, <2>3
  <2> HIDE DEF s, M
  <2>6. Len(s \o v) = Len(s) + Len(v) /\ Len(own \o v) = Len(own) + Len(v)
    BY <1>4, <2>1, <2>2, ConcatProperties
  <2>7. Ends(own \o v, s \o v)
    BY <1>4, <2>1, <2>2, <2>3, EndsConcat
  <2>8. Len(s \o v) = n + M + Len(own \o v)
    BY <2>1, <2>2, <2>3, <2>5, <2>6
  <2> QED
    BY <1>2, <2>4, <2>7, <2>8 DEF M
<1>7. ShellFollows(n)'
  BY <1>3, <1>5, <1>6 DEF ShellFollows
<1> QED
  BY <1>5, <1>7 DEF Followed

\* A reset that overtakes no marker: what is in the pipe is shown anew.
LEMMA ResetFollowed ==
  ASSUME ShellTyped, ResetAnswered, ~disorder'
  PROVE  Followed'
<1>1. /\ pending' = << >> /\ output' = << >> /\ active' = FALSE /\ ref' = << >>
      /\ pc' = "mark" /\ pipe' = pipe
  BY DEF ResetAnswered, Reset
<1>2. pipe \in Seq(Symbol) /\ Len(pipe) \in Nat /\ DOMAIN pipe = 1 .. Len(pipe)
  BY LenProperties DEF ShellTyped
<1>3. Unmarked(pipe)
  BY <1>2 DEF ResetAnswered, Unmarked
<1>4. Shown' = pipe
  BY <1>1, <1>2, ConcatEmptySeq DEF Shown
<1>5. PICK k \in Nat : k = Len(pipe)
  BY <1>2
<1>6. MarkAt(k, pipe) /\ k >= Len(pipe)
  <2>1. ASSUME NEW i \in 1 .. Len(pipe) PROVE i \notin k + 1 .. k + MarkerLength
    BY <1>2, <1>5, CaptureAssumption
  <2>2. \A i \in 1 .. Len(pipe) : pipe[i][1] # "mark"
    BY <1>3 DEF Unmarked
  <2>3. MarkAt(k, pipe)
    BY <2>1, <2>2 DEF MarkAt
  <2> QED
    BY <1>2, <1>5, <2>3
<1>7. ShellFollows(k)'
  BY <1>1, <1>4, <1>6 DEF ShellFollows
<1>8. RelayFollows(k)'
  <2>1. Len(<< >>) = 0
    BY EmptyTyped
  <2>2. Ends(<< >>, << >>)
    BY <2>1 DEF Ends
  <2>3. Waiting'
    BY <1>1, <2>1, <2>2 DEF Waiting, KeepBack
  <2>4. ~(k + MarkerLength <= Len(ref'))
    BY <1>1, <2>1, CaptureAssumption
  <2> QED
    BY <2>3, <2>4 DEF RelayFollows
<1> QED
  BY <1>7, <1>8 DEF Followed

\* The marker comes behind all that was shown, none of it of a marker.
LEMMA MarkerFollowed ==
  ASSUME ShellTyped, OwnOutput, PrintMarker, Followed
  PROVE  Followed'
<1>1. PICK k \in Nat : ShellFollows(k) /\ RelayFollows(k)
  BY DEF Followed
<1> DEFINE s == Shown
           M == MarkerLength
<1>2. /\ s \in Seq(Symbol) /\ Len(s) \in Nat /\ Len(s) = Len(ref) + Len(pipe)
      /\ Len(ref) \in Nat /\ Len(pipe) \in Nat /\ M \in Nat /\ M >= 1
  BY ShownFacts, CaptureAssumption
<1>3. MarkAt(k, s) /\ k >= Len(s)
  BY <1>1 DEF ShellFollows, PrintMarker
<1>4. /\ Show(Marker) /\ UNCHANGED <<relay, ref>> /\ pc = "mark" /\ own' = own
      /\ pc' \in {"run", "read", "prompt"}
  BY DEF PrintMarker
<1>5. Marker \in Seq(Symbol) /\ Len(Marker) = M
  BY SymbolType
<1>6. Shown' = s \o Marker
  BY <1>4, <1>5, ShowConcat
<1>7. PICK n \in Nat : n = Len(s)
  BY <1>2
<1> HIDE DEF s, M
<1>8. MarkAt(n, s \o Marker)
  BY <1>2, <1>3, <1>7, MarkNew
<1>9. Len(s \o Marker) = n + M
  <2>1. Len(s \o Marker) = Len(s) + Len(Marker)
    BY <1>2, <1>5, ConcatProperties
  <2> QED
    BY <1>5, <1>7, <2>1
<1>10. MarkAt(n, Shown') /\ Len(Shown') = n + M /\ n + M <= Len(Shown')
  BY <1>2, <1>6, <1>8, <1>9
<1>11. ASSUME Shell = "zsh"
       PROVE  Len(Shown') = n + M + Len(own') /\ Ends(own', Shown')
  <2>1. own' = << >>
    BY <1>4, <1>11 DEF OwnOutput
  <2>2. Len(<< >>) = 0
    BY EmptyTyped
  <2>3. Len(Shown') = n + M + Len(own')
    BY <1>2, <1>10, <2>1, <2>2
  <2>4. Ends(own', Shown')
    BY <1>2, <1>10, <2>1, <2>2 DEF Ends
  <2> QED
    BY <2>3, <2>4
<1>12. ShellFollows(n)'
  BY <1>4, <1>10, <1>11 DEF ShellFollows, M
<1>13. RelayFollows(n)'
  <2>1. ~(k + M <= Len(ref)) /\ ~(n + M <= Len(ref))
    BY <1>2, <1>3, <1>7
  <2>2. Waiting
    BY <1>1, <2>1 DEF RelayFollows, M
  <2>3. Waiting'
    BY <1>4, <2>2 DEF Waiting, KeepBack, relay
  <2>4. ~(n + M <= Len(ref'))
    BY <1>4, <2>1
  <2> QED
    BY <2>3, <2>4 DEF RelayFollows, M
<1> QED
  BY <1>12, <1>13 DEF Followed

\* A read, answered or late, leaves the stream.
LEMMA ReadFollowed ==
  ASSUME RelayTyped, ShellTyped, Snapshot, UNCHANGED <<ref, pipe, own>>, Followed,
         pc' = pc \/ pc' = "prompt"
  PROVE  Followed'
<1>1. PICK k \in Nat : ShellFollows(k) /\ RelayFollows(k)
  BY DEF Followed
<1>2. RelayFollows(k)'
  BY <1>1, SnapshotFollows DEF ShellTyped
<1>3. ShellFollows(k)'
  BY <1>1 DEF ShellFollows, Shown
<1> QED
  BY <1>2, <1>3 DEF Followed

\* The shell goes on by itself.
LEMMA PauseFollowed ==
  ASSUME UNCHANGED <<relay, ref, pipe, own>>, Followed,
         \/ pc' = pc \/ pc' = "prompt"
         \/ pc = "run" /\ ((pc' = "read" /\ Shell = "zsh") \/ pc' = "reset")
  PROVE  Followed'
<1>1. PICK k \in Nat : ShellFollows(k) /\ RelayFollows(k)
  BY DEF Followed
<1>2. RelayFollows(k)'
  BY <1>1 DEF RelayFollows, Holding, Waiting, KeepBack, relay
<1>3. ShellFollows(k)'
  BY <1>1 DEF ShellFollows, Shown
<1> QED
  BY <1>2, <1>3 DEF Followed

\* The text behind a first symbol that no filter touches.
LEMMA TextTail ==
  ASSUME NEW s \in Seq(Symbol), s # << >>, s[1][1] = "name"
  PROVE  Tail(s) \in Seq(Symbol) /\ Text(s) # << >> /\ Text(s)[1] = s[1]
         /\ Text(Tail(s)) = Tail(Text(s))
<1> DEFINE h == << s[1] >>
           r == Tail(s)
<1>1. /\ Len(s) \in Nat \ {0} /\ r \in Seq(Symbol) /\ Len(r) \in Nat /\ Len(r) = Len(s) - 1
      /\ \A i \in 1 .. Len(r) : r[i] = s[i + 1]
  BY HeadTailProperties, LenProperties, EmptySeq
<1>2. s[1] \in Symbol
  BY <1>1, ElementOfSeq
<1>3. h \in Seq(Symbol) /\ Len(h) = 1 /\ h[1] = s[1] /\ DOMAIN h = 1 .. 1
  BY <1>2
<1> HIDE DEF h, r
<1>4. ASSUME NEW v \in Seq(Symbol)
      PROVE  /\ Len(v) \in Nat /\ h \o v \in Seq(Symbol) /\ Len(h \o v) = 1 + Len(v)
             /\ (h \o v)[1] = s[1] /\ \A i \in 1 .. Len(v) : (h \o v)[i + 1] = v[i]
  <2>1. Len(v) \in Nat
    BY LenProperties
  <2>2. /\ h \o v \in Seq(Symbol) /\ Len(h \o v) = Len(h) + Len(v)
        /\ \A i \in 1 .. Len(h) + Len(v) :
             (h \o v)[i] = IF i <= Len(h) THEN h[i] ELSE v[i - Len(h)]
    BY <1>3, ConcatProperties
  <2> DEFINE w == h \o v
  <2> HIDE DEF w
  <2>3. \A i \in 1 .. 1 + Len(v) : w[i] = IF i <= 1 THEN h[i] ELSE v[i - 1]
    BY <1>3, <2>2 DEF w
  <2>4. w[1] = s[1] /\ \A i \in 1 .. Len(v) : w[i + 1] = v[i]
    <3>1. 1 \in 1 .. 1 + Len(v) /\ \A i \in 1 .. Len(v) : /\ i + 1 \in 1 .. 1 + Len(v)
                                                         /\ ~(i + 1 <= 1) /\ (i + 1) - 1 = i
      BY <2>1
    <3>2. w[1] = h[1]
      BY <2>3, <3>1
    <3>3. ASSUME NEW i \in 1 .. Len(v) PROVE w[i + 1] = v[i]
      <4>1. w[i + 1] = v[(i + 1) - 1]
        BY <2>3, <3>1
      <4> QED
        BY <3>1, <4>1
    <3> QED
      BY <1>3, <3>2, <3>3
  <2> QED
    BY <1>3, <2>1, <2>2, <2>4 DEF w
<1>5. s = h \o r
  <2>1. /\ h \o r \in Seq(Symbol) /\ Len(h \o r) = Len(s) /\ (h \o r)[1] = s[1]
        /\ \A i \in 1 .. Len(r) : (h \o r)[i + 1] = s[i + 1]
    BY <1>1, <1>4
  <2>2. ASSUME NEW i \in 1 .. Len(s) PROVE (h \o r)[i] = s[i]
    <3>1. CASE i = 1
      BY <2>1, <3>1
    <3>2. CASE i # 1
      <4> DEFINE l == i - 1
      <4>1. l \in 1 .. Len(r) /\ l + 1 = i
        BY <1>1, <3>2
      <4> HIDE DEF l
      <4>2. (h \o r)[l + 1] = s[l + 1]
        BY <2>1, <4>1
      <4> QED
        BY <4>1, <4>2
    <3> QED
      BY <3>1, <3>2
  <2> QED
    BY <2>1, <2>2, SeqEqual
<1>6. Text(h) = h
  <2>1. TextAt(h) = {1}
    BY <1>3 DEF TextAt
  <2>2. Positions({1}, Len(h)) /\ Text(h) = At(h, {1})
    BY <1>3, <2>1, PositionSets
  <2>3. /\ At(h, {1}) \in Seq(Symbol) /\ Len(At(h, {1})) = Cardinality({1})
        /\ \A j \in 1 .. Cardinality({1}) : Nth({1}, j) \in {1} /\ At(h, {1})[j] = h[Nth({1}, j)]
    BY <1>3, <2>2, AtFacts
  <2>4. Cardinality({1}) = 1
    BY FS_Singleton
  <2>5. Len(At(h, {1})) = 1 /\ At(h, {1})[1] = h[1]
    BY <2>3, <2>4
  <2>6. \A i \in 1 .. 1 : At(h, {1})[i] = h[i]
    BY <2>5
  <2> QED
    BY <1>3, <2>2, <2>3, <2>5, <2>6, SeqEqual
<1> DEFINE u == Text(r)
           w == h \o u
<1>7. u \in Seq(Symbol) /\ Text(s) = w
  <2>1. Text(r) \in Seq(Symbol) /\ Text(h \o r) = Text(h) \o Text(r)
    BY <1>1, <1>3, TextConcat
  <2> QED
    BY <1>5, <1>6, <2>1
<1> HIDE DEF u
<1>8. /\ Len(u) \in Nat /\ w \in Seq(Symbol) /\ Len(w) = 1 + Len(u) /\ w[1] = s[1]
      /\ \A i \in 1 .. Len(u) : w[i + 1] = u[i]
  BY <1>4, <1>7
<1> HIDE DEF w
<1>9. w # << >>
  BY <1>8, EmptySeq
<1>10. /\ Tail(w) \in Seq(Symbol) /\ Len(Tail(w)) = Len(w) - 1
       /\ \A i \in 1 .. Len(Tail(w)) : Tail(w)[i] = w[i + 1]
  BY <1>8, <1>9, HeadTailProperties
<1>11. Len(Tail(w)) = Len(u) /\ \A i \in 1 .. Len(u) : Tail(w)[i] = u[i]
  BY <1>8, <1>10
<1>12. Tail(w) = u
  BY <1>7, <1>10, <1>11, SeqEqual
<1> QED
  BY <1>1, <1>7, <1>8, <1>9, <1>12 DEF u, r

\* What a read that is answered returns.
LEMMA ReadIs ==
  ASSUME RelayTyped, ShellTyped, OwnOutput, Followed, ReadAnswered
  PROVE  /\ \A i \in 1 .. Len(Flushed) : Flushed[i] \in {"text", "name", "tail"} \X {number}
         /\ Flushed \in Seq(Symbol)
         /\ \/ WithoutEcho(Flushed) = Flushed
            \/ /\ Flushed # << >> /\ Flushed[1] = <<"name", number>>
               /\ WithoutEcho(Flushed) = Tail(Flushed)
         /\ Shell = "zsh" /\ pipe = << >> /\ Len(own) <= MaxOutput => Text(Flushed) = Text(own)
<1>1. PICK k \in Nat : ShellFollows(k) /\ RelayFollows(k)
  BY DEF Followed
<1>2. pc = "read" /\ Snapshot /\ ref' = ref
  BY DEF ReadAnswered
<1> DEFINE M == MarkerLength
           a == k + M
           b == Len(ref)
           f == Flushed
           s == Shown
           x == SubSeq(ref, a + 1, b)
<1>3. /\ ref \in Seq(Symbol) /\ own \in Seq(Symbol) /\ Len(own) \in Nat /\ a \in Nat /\ b \in Nat
      /\ Len(pipe) \in Nat /\ Len(s) = b + Len(pipe) /\ Len(s) \in Nat
      /\ \A i \in 1 .. b : s[i] = ref[i]
  BY ShownFacts, LenProperties, CaptureAssumption DEF ShellTyped
<1>4. f \in Seq(Symbol) /\ IF a <= b THEN Retains(f, x) ELSE f = << >>
  BY <1>1, <1>2, <1>3, SnapshotFollows
<1>5. Shell = "zsh" \/ Shell = "bash"
  BY CaptureAssumption
<1>6. Shell = "zsh" => Len(s) = a + Len(own) /\ Ends(own, s)
  BY <1>1, <1>2 DEF ShellFollows
<1>7. Shell = "bash" => Len(s) = a
  BY <1>1, <1>2 DEF ShellFollows
<1>8. Len(<< >>) = 0 /\ Len(f) \in Nat
  BY <1>4, EmptyTyped, LenProperties
<1>9. pipe = << >> => Len(pipe) = 0
  BY <1>8
<1> HIDE DEF a, b, f, s
<1>10. ASSUME a <= b
       PROVE  /\ x \in Seq(Symbol) /\ Len(x) = b - a
              /\ \A i \in 1 .. b - a : x[i] = ref[a + i]
  <2>1. b <= Len(ref)
    BY <1>3 DEF b
  <2> QED
    BY <1>3, <1>10, <2>1, PartBetween
<1> HIDE DEF x
<1>11. ASSUME a <= b, Shell = "zsh", NEW i \in 1 .. Len(x)
       PROVE  i \in 1 .. Len(own) /\ x[i] = own[i]
  <2>1. /\ i \in 1 .. b - a /\ a + i \in 1 .. b /\ i \in 1 .. Len(own)
        /\ Len(s) - Len(own) + i = a + i
    <3>1. Len(x) = b - a /\ Len(s) = a + Len(own)
      BY <1>6, <1>10, <1>11
    <3> QED
      BY <1>3, <1>11, <3>1
  <2>2. own[i] = s[a + i]
    BY <1>6, <1>11, <2>1 DEF Ends
  <2> QED
    BY <1>3, <1>10, <1>11, <2>1, <2>2
<1>12. ASSUME NEW i \in 1 .. Len(f) PROVE f[i] \in {"text", "name", "tail"} \X {number}
  <2>1. a <= b
    BY <1>4, <1>8
  <2>2. Len(f) <= Len(x) /\ f[i][1] # "head" /\ \E j \in 1 .. Len(x) : f[i] = x[j]
    BY <1>4, <2>1 DEF Retains
  <2>3. Shell = "zsh"
    BY <1>3, <1>5, <1>7, <1>8, <1>10, <2>1, <2>2
  <2>4. PICK j \in 1 .. Len(x) : f[i] = x[j]
    BY <2>2
  <2>5. j \in 1 .. Len(own) /\ f[i] = own[j]
    BY <1>11, <2>1, <2>3, <2>4
  <2>6. f[i] \in PrintedBy(number)
    BY <2>5 DEF OwnOutput
  <2> QED
    BY <2>2, <2>6 DEF PrintedBy
<1>13. \/ WithoutEcho(f) = f
       \/ f # << >> /\ f[1] = <<"name", number>> /\ WithoutEcho(f) = Tail(f)
  <2>1. f # << >> => 1 \in 1 .. Len(f)
    BY <1>4, <1>8, EmptySeq
  <2>2. f # << >> => f[1] # <<"echo", number>>
    BY <1>12, <2>1
  <2> QED
    BY <2>2 DEF WithoutEcho
<1>14. ASSUME Shell = "zsh", pipe = << >>, Len(own) <= MaxOutput PROVE Text(f) = Text(own)
  <2>1. Len(s) = a + Len(own) /\ Len(s) = b /\ a <= b /\ b - a = Len(own)
    <3>1. Len(s) = a + Len(own) /\ Len(pipe) = 0
      BY <1>6, <1>9, <1>14
    <3> QED
      BY <1>3, <3>1
  <2>2. x \in Seq(Symbol) /\ Len(x) = Len(own)
    BY <1>10, <2>1
  <2>3. \A i \in 1 .. Len(own) : x[i] = own[i]
    BY <1>11, <1>14, <2>1, <2>2
  <2>4. x = own
    BY <1>3, <2>2, <2>3, SeqEqual
  <2> QED
    BY <1>4, <1>14, <2>1, <2>4 DEF Retains
<1> QED
  BY <1>4, <1>12, <1>13, <1>14 DEF f

-----------------------------------------------------------------------------
(***************************************************************************)
(* The inductive invariant.                                                *)
(***************************************************************************)

Ordered == ~disorder => "reset" \notin late /\ Followed

CaptureInv == TypeOK /\ OwnOutput /\ Ordered

LEMMA NextOwn ==
  ASSUME ShellTyped, OwnOutput, [Next]_vars
  PROVE  OwnOutput'
<1>1. CASE EnterCommand
  <2>1. own' = << >> /\ Len(<< >>) = 0
    BY <1>1, EmptyTyped DEF EnterCommand
  <2> QED
    BY <2>1 DEF OwnOutput
<1>2. CASE CommandPrints
  <2>1. PICK v \in Piece(number) : own' = own \o v
    BY <1>2 DEF CommandPrints, Piece
  <2>2. number \in Nat /\ number' = number /\ pc' = "run"
    BY <1>2, CaptureAssumption DEF CommandPrints, ShellTyped
  <2> DEFINE K == PrintedBy(number)
  <2>3. v \in Seq(Symbol) /\ \A i \in 1 .. Len(v) : v[i] \in K
    BY <2>2, PieceTyped, PieceUnmarked
  <2>4. own \in Seq(Symbol) /\ \A i \in 1 .. Len(own) : own[i] \in K
    BY DEF ShellTyped, OwnOutput
  <2> HIDE DEF K
  <2>5. /\ Len(own) \in Nat /\ Len(v) \in Nat /\ Len(own \o v) = Len(own) + Len(v)
        /\ \A i \in 1 .. Len(own) + Len(v) :
             (own \o v)[i] = IF i <= Len(own) THEN own[i] ELSE v[i - Len(own)]
    BY <2>3, <2>4, ConcatProperties, LenProperties
  <2>6. ASSUME NEW i \in 1 .. Len(own) + Len(v) PROVE (own \o v)[i] \in K
    <3>1. CASE i <= Len(own)
      BY <2>4, <2>5, <3>1
    <3>2. CASE ~(i <= Len(own))
      <4>1. i - Len(own) \in 1 .. Len(v)
        BY <2>5, <3>2
      <4> QED
        BY <2>3, <2>5, <3>2, <4>1
    <3> QED
      BY <3>1, <3>2
  <2>7. \A i \in 1 .. Len(own') : own'[i] \in K
    BY <2>1, <2>5, <2>6
  <2> QED
    BY <2>2, <2>7 DEF OwnOutput, K
<1>3. CASE CommandEnds
  BY <1>3 DEF CommandEnds, OwnOutput
<1>4. CASE FeedReader \/ PrintMarker \/ LateReset \/ LateRead \/ ReadAnswered \/ UNCHANGED vars
  BY <1>4 DEF FeedReader, PrintMarker, LateReset, LateRead, ReadAnswered, vars, OwnOutput
<1>5. CASE ResetAnswered \/ Timeout
  BY <1>5 DEF ResetAnswered, Timeout, OwnOutput
<1> QED
  BY <1>1, <1>2, <1>3, <1>4, <1>5 DEF Next

LEMMA NextOrdered ==
  ASSUME RelayTyped, ShellTyped, OwnOutput, Ordered, [Next]_vars
  PROVE  Ordered'
<1> SUFFICES ASSUME ~disorder' PROVE "reset" \notin late' /\ Followed'
  BY DEF Ordered
<1>0. disorder \in BOOLEAN /\ disorder' \in BOOLEAN
  <2>1. TypeOK'
    BY NextTyped, TypeParts
  <2> QED
    BY <2>1 DEF ShellTyped, TypeOK
<1>1. ~disorder
  BY <1>0 DEF Next, vars, FeedReader, EnterCommand, CommandPrints, CommandEnds, ResetAnswered,
              PrintMarker, ReadAnswered, Timeout, LateReset, LateRead
<1>2. "reset" \notin late /\ Followed
  BY <1>1 DEF Ordered
<1>3. CASE FeedReader
  BY <1>2, <1>3, FeedFollowed DEF FeedReader
<1>4. CASE EnterCommand
  BY <1>2, <1>4, EnterFollowed DEF EnterCommand
<1>5. CASE CommandPrints
  BY <1>2, <1>5, PrintsFollowed DEF CommandPrints
<1>6. CASE CommandEnds
  <2>1. \/ pc' = pc \/ pc' = "prompt"
        \/ pc = "run" /\ ((pc' = "read" /\ Shell = "zsh") \/ pc' = "reset")
    BY <1>6, CaptureAssumption DEF CommandEnds
  <2> QED
    BY <1>2, <1>6, <2>1, PauseFollowed DEF CommandEnds
<1>7. CASE ResetAnswered
  BY <1>2, <1>7, ResetFollowed DEF ResetAnswered
<1>8. CASE PrintMarker
  BY <1>2, <1>8, MarkerFollowed DEF PrintMarker
<1>9. CASE ReadAnswered
  BY <1>2, <1>9, ReadFollowed DEF ReadAnswered
<1>10. CASE Timeout
  <2>1. pc = "read" /\ pc' = "prompt" /\ late' = late \cup {"read"}
    BY <1>10 DEF Timeout
  <2>2. UNCHANGED <<relay, ref, pipe, own>>
    BY <1>10 DEF Timeout
  <2> QED
    BY <1>2, <2>1, <2>2, PauseFollowed
<1>11. CASE LateReset
  BY <1>2, <1>11 DEF LateReset
<1>12. CASE LateRead
  BY <1>2, <1>12, ReadFollowed DEF LateRead
<1>13. CASE UNCHANGED vars
  BY <1>2, <1>13, PauseFollowed DEF vars
<1> QED
  BY <1>3, <1>4, <1>5, <1>6, <1>7, <1>8, <1>9, <1>10, <1>11, <1>12, <1>13 DEF Next

LEMMA CaptureInductive ==
  /\ Init => CaptureInv
  /\ CaptureInv /\ [Next]_vars => CaptureInv'
<1>1. ASSUME Init PROVE OwnOutput /\ Ordered
  <2>1. /\ own = << >> /\ ref = << >> /\ pipe = << >> /\ late = {} /\ pc = "prompt"
        /\ active = FALSE /\ output = << >> /\ pending = << >>
    BY <1>1 DEF Init
  <2>2. Len(<< >>) = 0 /\ << >> \o << >> = << >>
    BY EmptyTyped, ConcatEmptySeq
  <2>3. OwnOutput
    BY <2>1, <2>2 DEF OwnOutput
  <2>4. ShellFollows(0)
    BY <2>1, <2>2 DEF ShellFollows, Shown, MarkAt
  <2>5. Waiting
    BY <2>1, <2>2 DEF Waiting, Ends
  <2>6. RelayFollows(0)
    BY <2>1, <2>2, <2>5, CaptureAssumption DEF RelayFollows
  <2>7. Followed
    BY <2>4, <2>6 DEF Followed
  <2> QED
    BY <2>1, <2>3, <2>7 DEF Ordered
<1>2. Init => TypeOK
  BY InitTyped
<1>3. ASSUME CaptureInv, [Next]_vars PROVE CaptureInv'
  <2>1. RelayTyped /\ ShellTyped /\ OwnOutput /\ Ordered
    BY <1>3, TypeParts DEF CaptureInv
  <2>2. TypeOK'
    BY <1>3, NextTyped DEF CaptureInv
  <2>3. OwnOutput'
    BY <1>3, <2>1, NextOwn
  <2>4. Ordered'
    BY <1>3, <2>1, NextOrdered
  <2> QED
    BY <2>2, <2>3, <2>4 DEF CaptureInv
<1> QED
  BY <1>1, <1>2, <1>3 DEF CaptureInv

-----------------------------------------------------------------------------
(***************************************************************************)
(* The properties.                                                         *)
(***************************************************************************)

\* The end of a concatenation is a suffix of it.
LEMMA SuffixOfConcat ==
  ASSUME NEW S, NEW u \in Seq(S), NEW s \in Seq(S)
  PROVE  IsSuffix(s, u \o s)
<1> DEFINE t == u \o s
           n == Len(s)
           p == Reverse(s)
           q == Reverse(t)
<1>0. n \in Nat /\ Len(u) \in Nat /\ t \in Seq(S)
  BY LenProperties, ConcatProperties
<1>1. /\ Len(t) = Len(u) + n
      /\ \A i \in 1 .. Len(u) + n : t[i] = IF i <= Len(u) THEN u[i] ELSE s[i - Len(u)]
  BY ConcatProperties
<1> HIDE DEF t
<1>2. \A i \in 1 .. n : s[i] \in S
  BY ElementOfSeq
<1>3. \A i \in 1 .. Len(t) : t[i] \in S
  BY <1>0, ElementOfSeq
<1>4. p \in Seq(S) /\ Len(p) = n /\ \A i \in 1 .. n : p[i] = s[(n - i) + 1]
  <2>1. \A i \in 1 .. n : (n - i) + 1 \in 1 .. n
    BY <1>0
  <2>2. p \in [1 .. n -> S]
    BY <1>2, <2>1 DEF Reverse
  <2>3. \A i \in 1 .. n : p[i] = s[(n - i) + 1]
    BY DEF Reverse
  <2> QED
    BY <1>0, <2>2, <2>3, FcnSeq
<1> DEFINE N == Len(t)
<1>5. N \in Nat /\ N = Len(u) + n
  BY <1>0, <1>1
<1>6. q \in Seq(S) /\ Len(q) = N /\ \A i \in 1 .. N : q[i] = t[(N - i) + 1]
  <2>1. \A i \in 1 .. N : (N - i) + 1 \in 1 .. N
    BY <1>5
  <2>2. q \in [1 .. N -> S]
    BY <1>3, <2>1 DEF Reverse
  <2>3. \A i \in 1 .. N : q[i] = t[(N - i) + 1]
    BY DEF Reverse
  <2> QED
    BY <1>5, <2>2, <2>3, FcnSeq
<1> HIDE DEF p, q, N, n
<1>7. ASSUME NEW i \in 1 .. n PROVE q[i] = p[i]
  <2>1. /\ i \in 1 .. N /\ (N - i) + 1 \in 1 .. Len(u) + n /\ ~((N - i) + 1 <= Len(u))
        /\ (N - i) + 1 - Len(u) = (n - i) + 1
    BY <1>0, <1>5
  <2>2. t[(N - i) + 1] = s[(n - i) + 1]
    <3> DEFINE j == (N - i) + 1
    <3>1. j \in 1 .. Len(u) + Len(s) /\ ~(j <= Len(u)) /\ j - Len(u) = (n - i) + 1
      BY <1>0, <1>5, <2>1 DEF n
    <3> HIDE DEF j
    <3>2. t[j] = s[j - Len(u)]
      BY <1>1, <3>1 DEF n
    <3> QED
      BY <3>1, <3>2 DEF j
  <2> QED
    BY <1>4, <1>6, <2>1, <2>2
<1>8. SubSeq(p, 1, Len(p)) = SubSeq(q, 1, Len(p)) /\ Len(p) <= Len(q)
  <2>1. SubSeq(p, 1, Len(p)) = p
    BY <1>4, SubSeqFull
  <2>2. n <= Len(q) /\ 1 \in 1 .. Len(q) + 1 /\ n \in 1 - 1 .. Len(q) /\ n - 1 + 1 = n
    BY <1>0, <1>5, <1>6
  <2>3. /\ SubSeq(q, 1, n) \in Seq(S) /\ Len(SubSeq(q, 1, n)) = n - 1 + 1
        /\ \A i \in 1 .. n - 1 + 1 : SubSeq(q, 1, n)[i] = q[1 + i - 1]
    BY <1>6, <2>2, PartOf
  <2>4. \A i \in 1 .. n : SubSeq(q, 1, n)[i] = p[i]
    <3>1. \A i \in 1 .. n : 1 + i - 1 = i
      BY <1>0
    <3> QED
      BY <1>7, <2>2, <2>3, <3>1
  <2>5. SubSeq(q, 1, n) = p
    BY <1>4, <2>2, <2>3, <2>4, SeqEqual
  <2> QED
    BY <1>4, <2>1, <2>2, <2>5
<1> QED
  BY <1>8 DEF IsSuffix, IsPrefix, p, q, t

\* What the relay holds, by the invariant.
LEMMA FollowedMatches ==
  ASSUME RelayTyped, ShellTyped, Followed
  PROVE  /\ active <=> MarkersIn(ref) # {}
         /\ active => LET held == Text(output \o pending)
                          shown == Text(AfterMarkers(ref))
                      IN  /\ IsSuffix(held, shown)
                          /\ Len(AfterMarkers(ref)) <= MaxOutput => held = shown
<1>1. PICK k \in Nat : ShellFollows(k) /\ RelayFollows(k)
  BY DEF Followed
<1>2. /\ ref \in Seq(Symbol) /\ pipe \in Seq(Symbol) /\ pending \in Seq(Symbol)
      /\ output \in Seq(Symbol) /\ Len(ref) \in Nat /\ Len(pending) \in Nat
  BY LenProperties DEF RelayTyped, ShellTyped
<1>3. MarkAt(k, ref)
  BY <1>1, <1>2, MarkFirst DEF ShellFollows, Shown
<1>4. Ends(ref, ref)
  <2>1. \A i \in 1 .. Len(ref) : Len(ref) - Len(ref) + i = i
    BY <1>2
  <2> QED
    BY <1>2, <2>1 DEF Ends
<1> DEFINE M == MarkerLength
           a == k + M
           b == Len(ref) - Len(pending)
           c == Len(ref)
           t == AfterMarkers(ref)
<1>5. M \in Nat /\ a \in Nat /\ Len(ref) - Len(ref) <= k
  BY <1>2, CaptureAssumption
<1>6. IF a <= Len(ref) THEN MarkersIn(ref) # {} /\ t = SubSeq(ref, a + 1, c) ELSE MarkersIn(ref) = {}
  BY <1>2, <1>3, <1>4, <1>5, AfterMarkersInEnd
<1>7. CASE ~(a <= Len(ref))
  <2>1. active = FALSE
    BY <1>1, <1>7 DEF RelayFollows, Waiting
  <2> QED
    BY <1>6, <1>7, <2>1
<1>8. CASE a <= Len(ref)
  <2> DEFINE x == SubSeq(ref, a + 1, b)
  <2>1. active = TRUE /\ Ends(pending, ref) /\ a + Len(pending) <= Len(ref) /\ Retains(output, x)
    BY <1>1, <1>8 DEF RelayFollows, Holding
  <2>2. /\ a \in Nat /\ b \in Nat /\ c \in Nat /\ a <= b /\ b <= c /\ c <= Len(ref) /\ b <= Len(ref)
        /\ b + Len(pending) = c /\ b + Len(pending) <= Len(ref)
    BY <1>2, <1>5, <2>1
  <2>3. \A i \in 1 .. Len(pending) : pending[i] = ref[b + i]
    BY <2>1 DEF Ends
  <2> HIDE DEF a, b
  <2>4. pending = SubSeq(ref, b + 1, c)
    <3>1. pending = SubSeq(ref, b + 1, b + Len(pending))
      BY <1>2, <2>2, <2>3, IsPart
    <3> QED
      BY <2>2, <3>1
  <2>41. t = SubSeq(ref, a + 1, c)
    BY <1>6, <1>8
  <2> HIDE DEF c, t
  <2>5. x \in Seq(Symbol) /\ Len(x) = b - a
    BY <1>2, <2>2, PartBetween
  <2>6. t = x \o pending
    <3>1. SubSeq(ref, a + 1, b) \o SubSeq(ref, b + 1, c) = SubSeq(ref, a + 1, c)
      BY <1>2, <2>2, PartsJoin
    <3> QED
      BY <2>4, <2>41, <3>1
  <2> HIDE DEF x
  <2> DEFINE P == Text(pending)
             O == Text(output)
             X == Text(x)
  <2>7. P \in Seq(Symbol) /\ O \in Seq(Symbol) /\ X \in Seq(Symbol)
    BY <1>2, <2>5, TextConcat
  <2>8. Text(output \o pending) = O \o P
    BY <1>2, TextConcat
  <2>9. Text(x \o pending) = X \o P
    BY <1>2, <2>5, TextConcat
  <2>10. PICK u \in Seq(Symbol) : X = u \o O
    BY <2>1 DEF Retains
  <2>11. Len(x) <= MaxOutput => O = X
    BY <2>1 DEF Retains
  <2>12. Len(t) = Len(x) + Len(pending)
    BY <1>2, <2>5, <2>6, ConcatProperties
  <2> HIDE DEF P, O, X
  <2>13. X \o P = u \o (O \o P) /\ O \o P \in Seq(Symbol)
    BY <2>7, <2>10, Associative, ConcatProperties
  <2>14. IsSuffix(O \o P, X \o P)
    BY <2>13, SuffixOfConcat
  <2>15. Len(t) <= MaxOutput => O \o P = X \o P
    <3>1. Len(t) <= MaxOutput => Len(x) <= MaxOutput
      BY <1>2, <2>2, <2>5, <2>12, CaptureAssumption
    <3> QED
      BY <2>11, <3>1
  <2> QED
    BY <1>6, <1>8, <2>1, <2>6, <2>8, <2>9, <2>14, <2>15 DEF t
<1> QED
  BY <1>7, <1>8

\* However the stream is cut into chunks, and with late reads between them,
\* the relay holds the end of what followed the last marker: the invariant of
\* Feed, appendLocked and Snapshot together, for both shells.
THEOREM StreamHeld == Spec => []RelayMatchesStream
<1>1. CaptureInv => RelayMatchesStream
  <2> SUFFICES ASSUME RelayTyped, ShellTyped, Ordered, ~disorder
               PROVE  /\ active <=> MarkersIn(ref) # {}
                      /\ active => LET held == Text(output \o pending)
                                       shown == Text(AfterMarkers(ref))
                                   IN  /\ IsSuffix(held, shown)
                                       /\ Len(AfterMarkers(ref)) <= MaxOutput => held = shown
    BY TypeParts DEF CaptureInv, RelayMatchesStream
  <2>1. Followed
    BY DEF Ordered
  <2> QED
    BY <2>1, FollowedMatches
<1> QED
  BY <1>1, CaptureInductive, PTL DEF Spec

\* An answer stays, and what is out of order stays so.
LEMMA AnswerStays ==
  ASSUME ShellTyped, [Next]_vars
  PROVE  /\ disorder => disorder'
         /\ answer' = answer \/ ReadAnswered
<1>1. disorder \in BOOLEAN
  BY DEF ShellTyped
<1> QED
  BY <1>1 DEF Next, vars, FeedReader, EnterCommand, CommandPrints, CommandEnds, ResetAnswered,
              PrintMarker, ReadAnswered, Timeout, LateReset, LateRead

\* A read returns nothing but output of the command that failed, while resets
\* are in order, for both shells.
THEOREM ReadsAreOwn == Spec => []ReadsOwnOutput
<1>1. Init => ReadsOwnOutput
  <2>1. Init => DOMAIN answer.value = {}
    BY EmptySeq DEF Init, NoAnswer
  <2> QED
    BY <2>1 DEF ReadsOwnOutput
<1>2. CaptureInv /\ ReadsOwnOutput /\ [Next]_vars => ReadsOwnOutput'
  <2> SUFFICES ASSUME RelayTyped, ShellTyped, OwnOutput, Ordered, ReadsOwnOutput, [Next]_vars,
                      ~disorder'
               PROVE  \A i \in DOMAIN answer'.value :
                        answer'.value[i] \in {"text", "name", "tail"} \X {answer'.number}
    BY TypeParts DEF CaptureInv, ReadsOwnOutput
  <2>1. ~disorder /\ (answer' = answer \/ ReadAnswered)
    BY AnswerStays
  <2>2. CASE answer' = answer
    BY <2>1, <2>2 DEF ReadsOwnOutput
  <2>3. CASE ReadAnswered
    <3>1. Followed
      BY <2>1 DEF Ordered
    <3> DEFINE f == Flushed
               K == {"text", "name", "tail"} \X {number}
    <3>2. /\ \A i \in 1 .. Len(f) : f[i] \in K
          /\ f \in Seq(Symbol)
          /\ WithoutEcho(f) = f \/ (f # << >> /\ WithoutEcho(f) = Tail(f))
      BY <2>3, <3>1, ReadIs
    <3>3. answer'.value = WithoutEcho(f) /\ answer'.number = number
      BY <2>3 DEF ReadAnswered
    <3> HIDE DEF f
    <3>4. CASE WithoutEcho(f) = f
      <4>1. DOMAIN f = 1 .. Len(f)
        BY <3>2, LenProperties
      <4> QED
        BY <3>2, <3>3, <3>4, <4>1
    <3>5. CASE f # << >> /\ WithoutEcho(f) = Tail(f)
      <4>1. /\ Tail(f) \in Seq(Symbol) /\ Len(Tail(f)) = Len(f) - 1 /\ Len(f) \in Nat
            /\ \A i \in 1 .. Len(Tail(f)) : Tail(f)[i] = f[i + 1]
        BY <3>2, <3>5, HeadTailProperties, LenProperties
      <4>2. DOMAIN Tail(f) = 1 .. Len(Tail(f))
        BY <4>1, LenProperties
      <4>3. \A i \in 1 .. Len(Tail(f)) : i + 1 \in 1 .. Len(f)
        BY <4>1
      <4>4. \A i \in DOMAIN Tail(f) : Tail(f)[i] \in K
        BY <3>2, <4>1, <4>2, <4>3
      <4> QED
        BY <3>3, <3>5, <4>4
    <3> QED
      BY <3>2, <3>4, <3>5
  <2> QED
    BY <2>1, <2>2, <2>3
<1> QED
  BY <1>1, <1>2, CaptureInductive, PTL DEF Spec

\* In Zsh, which marks before the command runs, a read returns all text of the
\* command that failed once it has reached the relay, but for one copy of the
\* typed line that begins it.  In Bash, which marks when the command has ended,
\* it does not.
THEOREM ZshReadsOutput == ASSUME Shell = "zsh" PROVE Spec => []AvailableOutputIsRead
<1>1. Init => AvailableOutputIsRead
  BY DEF Init, NoAnswer, AvailableOutputIsRead
<1>2. CaptureInv /\ AvailableOutputIsRead /\ [Next]_vars => AvailableOutputIsRead'
  <2> SUFFICES ASSUME RelayTyped, ShellTyped, OwnOutput, Ordered, AvailableOutputIsRead, [Next]_vars,
                      ~disorder', answer'.drained, Len(answer'.own) <= MaxOutput
               PROVE  \/ Text(answer'.value) = Text(answer'.own)
                      \/ /\ Text(answer'.own) # << >>
                         /\ Text(answer'.own)[1] = <<"name", answer'.number>>
                         /\ Text(answer'.value) = Tail(Text(answer'.own))
    BY TypeParts DEF CaptureInv, AvailableOutputIsRead, Text, At
  <2>1. ~disorder /\ (answer' = answer \/ ReadAnswered)
    BY AnswerStays
  <2>2. CASE answer' = answer
    BY <2>1, <2>2 DEF AvailableOutputIsRead
  <2>3. CASE ReadAnswered
    <3>1. Followed
      BY <2>1 DEF Ordered
    <3> DEFINE f == Flushed
               g == WithoutEcho(Flushed)
    <3>2. /\ f \in Seq(Symbol)
          /\ g = f \/ (f # << >> /\ f[1] = <<"name", number>> /\ g = Tail(f))
          /\ pipe = << >> /\ Len(own) <= MaxOutput => Text(f) = Text(own)
      BY <2>3, <3>1, ReadIs
    <3>3. /\ answer'.value = g /\ answer'.own = own /\ answer'.number = number
          /\ answer'.drained <=> pipe = << >>
      BY <2>3 DEF ReadAnswered
    <3> HIDE DEF f, g
    <3>4. Text(f) = Text(own)
      BY <3>2, <3>3
    <3>5. CASE f # << >> /\ f[1] = <<"name", number>> /\ g = Tail(f)
      <4>1. Text(f) # << >> /\ Text(f)[1] = f[1] /\ Text(Tail(f)) = Tail(Text(f))
        BY <3>2, <3>5, TextTail
      <4> QED
        BY <3>3, <3>4, <3>5, <4>1
    <3> QED
      BY <3>2, <3>3, <3>4, <3>5
  <2> QED
    BY <2>1, <2>2, <2>3
<1> QED
  BY <1>1, <1>2, CaptureInductive, PTL DEF Spec

=============================================================================
