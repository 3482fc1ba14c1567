--------------------------- MODULE SequenceLemmas ---------------------------
(***************************************************************************)
(* What the proofs need about numbers, lists and recursion: induction and  *)
(* definition by recursion, stated with sets and functions, least and      *)
(* greatest numbers, the listing of a finite set in an order, and logs     *)
(* with their prefixes.                                                    *)
(***************************************************************************)
EXTENDS Integers, Sequences, SequencesExt, SequenceTheorems, FiniteSetTheorems,
        WellFoundedInduction, TLAPS

\* The least of some numbers.
LEMMA LeastNumber ==
    ASSUME NEW T, T \subseteq Nat, T # {}
    PROVE  \E x \in T : \A y \in T : x <= y
<1>1. PICK x \in T : \A y \in T : ~ (<<y, x>> \in OpToRel(<, Nat))
  BY NatLessThanWellFounded, WFMin
<1>2. ASSUME NEW y \in T PROVE x <= y
  <2>1. x \in Nat /\ y \in Nat
    OBVIOUS
  <2>2. ~(y < x)
    BY <1>1, <2>1 DEF OpToRel
  <2> QED BY <2>1, <2>2
<1> QED BY <1>2

\* Induction over a set.
LEMMA NatSetInduction ==
    ASSUME NEW S, 0 \in S, \A n \in Nat : n \in S => n + 1 \in S
    PROVE  Nat \subseteq S
<1> DEFINE T == Nat \ S
<1>1. SUFFICES ASSUME T # {} PROVE FALSE
  OBVIOUS
<1>2. T \subseteq Nat
  OBVIOUS
<1>3. PICK x \in T : \A y \in T : x <= y
  <2> HIDE DEF T
  <2> QED BY <1>1, <1>2, LeastNumber
<1>4. x \in Nat /\ x # 0
  OBVIOUS
<1>5. x - 1 \in Nat /\ x - 1 < x /\ (x - 1) + 1 = x
  BY <1>4
<1>6. x - 1 \in S
  BY <1>3, <1>5
<1> QED BY <1>5, <1>6

\* g runs from `first` through N steps, with values in T.
RunsThrough(g, T, first, N, step) ==
    /\ g \in [0..N -> T]
    /\ g[0] = first
    /\ \A n \in 1..N : g[n] = step[<<n, g[n - 1]>>]

\* A function that is defined step by step exists.
LEMMA RecursionExists ==
    ASSUME NEW T, NEW first \in T, NEW N \in Nat, NEW step \in [(1..N) \X T -> T]
    PROVE  \E g : RunsThrough(g, T, first, N, step)
<1> DEFINE Upto(m) == \E g \in [0..m -> T] :
                          /\ g[0] = first
                          /\ \A n \in 1..m : g[n] = step[<<n, g[n - 1]>>]
           S == {m \in Nat : m <= N => Upto(m)}
<1>1. 0 \in S
  <2> DEFINE g == [n \in 0..0 |-> first]
  <2>1. g \in [0..0 -> T] /\ g[0] = first /\ 1..0 = {}
    OBVIOUS
  <2> HIDE DEF g
  <2>2. Upto(0)
    BY <2>1
  <2> QED BY <2>2
<1>2. ASSUME NEW m \in Nat, m \in S
      PROVE  m + 1 \in S
  <2>1. SUFFICES ASSUME m + 1 <= N PROVE Upto(m + 1)
    OBVIOUS
  <2>2. PICK g \in [0..m -> T] :
             g[0] = first /\ \A n \in 1..m : g[n] = step[<<n, g[n - 1]>>]
    BY <1>2, <2>1
  <2> DEFINE next == step[<<m + 1, g[m]>>]
             h == [n \in 0..m + 1 |-> IF n = m + 1 THEN next ELSE g[n]]
  <2>3. next \in T
    <3>1. m + 1 \in 1..N /\ g[m] \in T
      BY <2>1, <2>2
    <3>2. <<m + 1, g[m]>> \in (1..N) \X T
      BY <3>1
    <3> QED BY <3>2
  <2>4. h \in [0..m + 1 -> T] /\ h[0] = first /\ h[m + 1] = next
        /\ \A n \in 0..m : h[n] = g[n]
    BY <2>2, <2>3
  <2>5. \A n \in 1..m + 1 : h[n] = step[<<n, h[n - 1]>>]
    <3> HIDE DEF h
    <3> TAKE n \in 1..m + 1
    <3>1. CASE n = m + 1
      BY <2>4, <3>1
    <3>2. CASE n # m + 1
      <4>1. n \in 1..m /\ n - 1 \in 0..m /\ n \in 0..m
        BY <3>2
      <4> QED BY <2>2, <2>4, <4>1
    <3> QED BY <3>1, <3>2
  <2> HIDE DEF h
  <2> QED BY <2>4, <2>5
<1>3. Nat \subseteq S
  <2> HIDE DEF S
  <2> QED BY <1>1, <1>2, NatSetInduction
<1> QED BY <1>3 DEF RunsThrough

-----------------------------------------------------------------------------
\* The greatest of some numbers up to n.
LEMMA GreatestExists ==
    ASSUME NEW n \in Nat, NEW S \in SUBSET 1..n, S # {}
    PROVE  \E i \in S : \A j \in S : j <= i
<1> DEFINE T == {n - i : i \in S}
<1>1. T \subseteq Nat /\ T # {}
  <2>1. \A i \in S : i \in 1..n /\ n - i \in Nat
    OBVIOUS
  <2> QED BY <2>1
<1>2. PICK k \in T : \A m \in T : k <= m
  <2> HIDE DEF T
  <2> QED BY <1>1, LeastNumber
<1>3. PICK i \in S : k = n - i
  BY <1>2
<1>4. \A j \in S : n - i <= n - j
  BY <1>2, <1>3
<1>5. i \in 1..n /\ \A j \in S : j \in 1..n
  OBVIOUS
<1> QED BY <1>4, <1>5

-----------------------------------------------------------------------------
\* The pairs of R order T: no pair both ways, one way for any two elements, and
\* one after the other.
Orders(R, T) ==
  /\ \A t, u \in T : ~(<<t, u>> \in R /\ <<u, t>> \in R)
  /\ \A t, u \in T : t # u => <<t, u>> \in R \/ <<u, t>> \in R
  /\ \A t, u, v \in T : <<t, u>> \in R /\ <<u, v>> \in R => <<t, v>> \in R

\* A finite set can be listed in any order of its elements: each stands behind
\* those that come before it.
LEMMA ListingExists ==
  ASSUME NEW T, IsFiniteSet(T), NEW R, Orders(R, T)
  PROVE  \E s \in SetToSeqs(T) : \A i, j \in DOMAIN s : i < j => <<s[i], s[j]>> \in R
<1> DEFINE n == Cardinality(T)
           UpTo(t) == {u \in T : u = t \/ <<u, t>> \in R}
           rank == [t \in T |-> Cardinality(UpTo(t))]
<1>1. n \in Nat /\ IsFiniteSet(1..n) /\ Cardinality(1..n) = n
  <2>1. n \in Nat
    BY FS_CardinalityType
  <2>2. 1 \in Int /\ n \in Int
    BY <2>1
  <2> HIDE DEF n
  <2> QED BY <2>1, <2>2, FS_Interval
<1>2. ASSUME NEW t \in T
      PROVE  IsFiniteSet(UpTo(t)) /\ Cardinality(UpTo(t)) \in 1..n
  <2>1. UpTo(t) \in SUBSET T /\ t \in UpTo(t)
    OBVIOUS
  <2> HIDE DEF UpTo
  <2>2. IsFiniteSet(UpTo(t)) /\ Cardinality(UpTo(t)) <= n
    BY <2>1, FS_Subset
  <2>3. Cardinality(UpTo(t)) \in Nat /\ Cardinality(UpTo(t)) # 0
    BY <2>1, <2>2, FS_CardinalityType, FS_EmptySet
  <2> HIDE DEF n
  <2> QED BY <1>1, <2>2, <2>3
<1>3. ASSUME NEW t \in T, NEW u \in T, <<t, u>> \in R
      PROVE  rank[t] < rank[u]
  <2>1. UpTo(t) \in SUBSET UpTo(u) /\ u \in UpTo(u) /\ u \notin UpTo(t)
    BY <1>3 DEF Orders
  <2>2. IsFiniteSet(UpTo(u)) /\ Cardinality(UpTo(u)) \in Nat /\ Cardinality(UpTo(t)) \in Nat
    <3> HIDE DEF n, UpTo
    <3> QED BY <1>1, <1>2
  <2>3. Cardinality(UpTo(t)) <= Cardinality(UpTo(u))
        /\ Cardinality(UpTo(t)) # Cardinality(UpTo(u))
    <3> HIDE DEF UpTo
    <3> QED BY <2>1, <2>2, FS_Subset
  <2>4. rank[t] = Cardinality(UpTo(t)) /\ rank[u] = Cardinality(UpTo(u))
    BY DEF rank
  <2> HIDE DEF UpTo, rank
  <2> QED BY <2>2, <2>3, <2>4
<1>4. rank \in [T -> 1..n]
  BY <1>2
<1> HIDE DEF rank
<1>5. \A t, u \in T : rank[t] = rank[u] => t = u
  <2> SUFFICES ASSUME NEW t \in T, NEW u \in T, t # u
               PROVE  rank[t] # rank[u]
    OBVIOUS
  <2>1. rank[t] < rank[u] \/ rank[u] < rank[t]
    BY <1>3 DEF Orders
  <2>2. rank[t] \in Nat /\ rank[u] \in Nat
    BY <1>1, <1>4
  <2> QED BY <2>1, <2>2
<1>6. \A k \in 1..n : \E t \in T : rank[t] = k
  <2>1. rank \in Injection(T, 1..n)
    BY <1>4, <1>5 DEF Injection, IsInjective
  <2>2. rank \in Surjection(T, 1..n)
    <3> HIDE DEF n
    <3>1. n = Cardinality(T)
      BY DEF n
    <3> QED BY <1>1, <2>1, <3>1, FS_Injection
  <2> QED BY <2>2 DEF Surjection
<1> DEFINE s == [k \in 1..n |-> CHOOSE t \in T : rank[t] = k]
<1>7. \A k \in 1..n : s[k] \in T /\ rank[s[k]] = k
  BY <1>6
<1>8. s \in [1..n -> T] /\ DOMAIN s = 1..n
  BY <1>7
<1> HIDE DEF s
<1>9. s \in SetToSeqs(T)
  <2>1. \A i, j \in 1..n : i # j => s[i] # s[j]
    BY <1>7
  <2> QED BY <1>8, <2>1 DEF SetToSeqs
<1>10. ASSUME NEW i \in 1..n, NEW j \in 1..n, i < j
       PROVE  <<s[i], s[j]>> \in R
  <2> SUFFICES ASSUME <<s[i], s[j]>> \notin R
               PROVE  FALSE
    OBVIOUS
  <2>1. s[i] \in T /\ s[j] \in T /\ rank[s[i]] = i /\ rank[s[j]] = j
    BY <1>7
  <2>2. i \in Nat /\ j \in Nat /\ i # j
    BY <1>1, <1>10
  <2>3. <<s[j], s[i]>> \in R
    BY <2>1, <2>2 DEF Orders
  <2>4. j < i
    BY <1>3, <2>1, <2>3
  <2> QED BY <1>10, <2>2, <2>4
<1> QED BY <1>8, <1>9, <1>10

\* A listing without repetitions lists everything.
LEMMA ListingCovers ==
  ASSUME NEW T, IsFiniteSet(T), NEW s \in SetToSeqs(T)
  PROVE  /\ s \in [1..Cardinality(T) -> T] /\ Cardinality(T) \in Nat
         /\ s \in Seq(T) /\ Len(s) = Cardinality(T)
         /\ \A i, j \in 1..Cardinality(T) : s[i] = s[j] => i = j
         /\ \A t \in T : \E i \in 1..Cardinality(T) : s[i] = t
<1> DEFINE n == Cardinality(T)
<1>1. s \in [1..n -> T] /\ \A i, j \in 1..n : s[i] = s[j] => i = j
  BY DEF SetToSeqs
<1>2. n \in Nat /\ IsFiniteSet(1..n) /\ Cardinality(1..n) = n
  <2>1. n \in Nat
    BY FS_CardinalityType
  <2>2. 1 \in Int /\ n \in Int
    BY <2>1
  <2> HIDE DEF n
  <2> QED BY <2>1, <2>2, FS_Interval
<1>3. s \in Injection(1..n, T)
  BY <1>1 DEF Injection, IsInjective
<1>4. s \in Surjection(1..n, T)
  BY <1>2, <1>3, FS_Injection
<1>5. \A t \in T : \E i \in 1..n : s[i] = t
  BY <1>4 DEF Surjection
<1>6. s \in Seq(T) /\ Len(s) = n
  <2> HIDE DEF n
  <2> QED BY <1>1, <1>2
<1> QED BY <1>1, <1>2, <1>5, <1>6

\* A finite set can be listed by a key.
LEMMA ListedByKey ==
  ASSUME NEW T, IsFiniteSet(T), NEW key, \A t \in T : key[t] \in Nat
  PROVE  \E s \in SetToSeqs(T) : \A i, j \in DOMAIN s : i < j => key[s[i]] <= key[s[j]]
<1> DEFINE n == Cardinality(T)
<1>1. n \in Nat /\ ExistsBijection(1..n, T)
  BY FS_CardinalityType
<1> HIDE DEF n
<1>2. PICK f : f \in Bijection(1..n, T)
  BY <1>1 DEF ExistsBijection
<1>3. /\ f \in [1..n -> T]
      /\ \A i, j \in 1..n : f[i] = f[j] => i = j
      /\ \A g \in T : \E i \in 1..n : f[i] = g
  BY <1>2 DEF Bijection, Injection, Surjection, IsInjective
<1> DEFINE place == [g \in T |-> CHOOSE i \in 1..n : f[i] = g]
           R == {p \in T \X T :
                    \/ key[p[1]] < key[p[2]]
                    \/ key[p[1]] = key[p[2]] /\ place[p[1]] < place[p[2]]}
<1>4. \A g \in T : place[g] \in Nat /\ f[place[g]] = g
  BY <1>3
<1>5. ASSUME NEW g \in T, NEW h \in T
      PROVE  <<g, h>> \in R <=> \/ key[g] < key[h]
                                \/ (key[g] = key[h] /\ place[g] < place[h])
  <2>1. <<g, h>> \in T \X T /\ <<g, h>>[1] = g /\ <<g, h>>[2] = h
    OBVIOUS
  <2> HIDE DEF place
  <2> QED BY <2>1
<1> HIDE DEF place, R
<1>6. Orders(R, T)
  <2>1. \A g, h \in T : g # h => place[g] # place[h]
    BY <1>4
  <2>2. \A g, h \in T : ~(<<g, h>> \in R /\ <<h, g>> \in R)
    <3> SUFFICES ASSUME NEW g \in T, NEW h \in T,
                        <<g, h>> \in R, <<h, g>> \in R
                 PROVE  FALSE
      OBVIOUS
    <3>1. key[g] \in Nat /\ key[h] \in Nat /\ place[g] \in Nat /\ place[h] \in Nat
      BY <1>4
    <3>2. key[g] < key[h] \/ (key[g] = key[h] /\ place[g] < place[h])
      BY <1>5
    <3>3. key[h] < key[g] \/ (key[h] = key[g] /\ place[h] < place[g])
      BY <1>5
    <3> QED BY <3>1, <3>2, <3>3
  <2>3. \A g, h \in T : g # h => <<g, h>> \in R \/ <<h, g>> \in R
    <3> SUFFICES ASSUME NEW g \in T, NEW h \in T, g # h
                 PROVE  <<g, h>> \in R \/ <<h, g>> \in R
      OBVIOUS
    <3>1. key[g] \in Nat /\ key[h] \in Nat /\ place[g] \in Nat /\ place[h] \in Nat
          /\ place[g] # place[h]
      BY <1>4, <2>1
    <3>2. \/ key[g] < key[h] \/ (key[g] = key[h] /\ place[g] < place[h])
          \/ key[h] < key[g] \/ (key[h] = key[g] /\ place[h] < place[g])
      BY <3>1
    <3> QED BY <1>5, <3>2
  <2>4. \A g, h, i \in T : <<g, h>> \in R /\ <<h, i>> \in R => <<g, i>> \in R
    <3> SUFFICES ASSUME NEW g \in T, NEW h \in T, NEW i \in T,
                        <<g, h>> \in R, <<h, i>> \in R
                 PROVE  <<g, i>> \in R
      OBVIOUS
    <3>1. /\ key[g] \in Nat /\ key[h] \in Nat /\ key[i] \in Nat
          /\ place[g] \in Nat /\ place[h] \in Nat /\ place[i] \in Nat
      BY <1>4
    <3>2. key[g] < key[h] \/ (key[g] = key[h] /\ place[g] < place[h])
      BY <1>5
    <3>3. key[h] < key[i] \/ (key[h] = key[i] /\ place[h] < place[i])
      BY <1>5
    <3>4. key[g] < key[i] \/ (key[g] = key[i] /\ place[g] < place[i])
      BY <3>1, <3>2, <3>3
    <3> QED BY <1>5, <3>4
  <2> QED BY <2>2, <2>3, <2>4 DEF Orders
<1>7. PICK s \in SetToSeqs(T) : \A i, j \in DOMAIN s : i < j => <<s[i], s[j]>> \in R
  BY <1>6, ListingExists
<1>8. \A i \in DOMAIN s : s[i] \in T
  BY <1>7 DEF SetToSeqs
<1>9. \A i, j \in DOMAIN s : i < j => key[s[i]] <= key[s[j]]
  <2> SUFFICES ASSUME NEW i \in DOMAIN s, NEW j \in DOMAIN s, i < j
               PROVE  key[s[i]] <= key[s[j]]
    OBVIOUS
  <2>1. s[i] \in T /\ s[j] \in T /\ <<s[i], s[j]>> \in R
    BY <1>7, <1>8
  <2>2. key[s[i]] \in Nat /\ key[s[j]] \in Nat
    BY <2>1
  <2>3. key[s[i]] < key[s[j]] \/ key[s[i]] = key[s[j]]
    BY <1>5, <2>1
  <2> QED BY <2>2, <2>3
<1> QED BY <1>7, <1>9

-----------------------------------------------------------------------------
(* Logs and their prefixes.                                                *)

IsLog(L) == \E S : L \in Seq(S)

\* K is L as it was before the last events were appended.
Before(K, L) ==
  /\ IsLog(K) /\ IsLog(L)
  /\ Len(K) \in Nat /\ Len(L) \in Nat /\ Len(K) <= Len(L)
  /\ DOMAIN K = 1..Len(K) /\ DOMAIN L = 1..Len(L)
  /\ \A i \in 1..Len(K) : K[i] = L[i]

LEMMA LogIs ==
  ASSUME NEW L, IsLog(L)
  PROVE  Before(L, L) /\ SubSeq(L, 1, Len(L)) = L
<1>1. PICK S : L \in Seq(S)
  BY DEF IsLog
<1> QED BY <1>1, SubSeqFull, LenProperties DEF Before, IsLog

LEMMA PrefixIs ==
  ASSUME NEW L, IsLog(L), NEW n \in 0..Len(L)
  PROVE  Before(SubSeq(L, 1, n), L) /\ Len(SubSeq(L, 1, n)) = n
<1>1. PICK S : L \in Seq(S)
  BY DEF IsLog
<1>2. Len(L) \in Nat /\ DOMAIN L = 1..Len(L) /\ \A i \in 1..n : L[i] \in S
  BY <1>1, LenProperties, ElementOfSeq
<1> DEFINE K == SubSeq(L, 1, n)
<1>3. K \in Seq(S) /\ Len(K) = n /\ \A i \in 1..n : K[i] = L[i]
  <2>1. 1 \in Int /\ n \in Int
    BY <1>2
  <2>2. /\ K \in Seq(S)
        /\ Len(K) = IF 1 <= n THEN n - 1 + 1 ELSE 0
        /\ \A i \in 1..n - 1 + 1 : K[i] = L[1 + i - 1]
    BY <1>2, <2>1, SubSeqProperties
  <2> HIDE DEF K
  <2> QED BY <1>2, <2>2
<1> HIDE DEF K
<1>4. DOMAIN K = 1..n
  BY <1>3, LenProperties
<1> QED BY <1>1, <1>2, <1>3, <1>4 DEF Before, IsLog, K

LEMMA AppendIs ==
  ASSUME NEW L, IsLog(L), NEW e
  PROVE  LET M == Append(L, e)
         IN  /\ Before(L, M) /\ Len(M) = Len(L) + 1 /\ M[Len(L) + 1] = e
             /\ IsLog(M) /\ Len(L) \in Nat
<1>1. PICK S : L \in Seq(S)
  BY DEF IsLog
<1> DEFINE T == S \cup {e}
           M == Append(L, e)
<1>2. L \in Seq(T)
  BY <1>1, LenProperties, ElementOfSeq
<1>3. M \in Seq(T) /\ Len(M) = Len(L) + 1 /\ (\A i \in 1..Len(L) : M[i] = L[i])
      /\ M[Len(L) + 1] = e
  <2> HIDE DEF T
  <2>1. e \in T
    BY DEF T
  <2> QED BY <1>2, <2>1, AppendProperties
<1> HIDE DEF T, M
<1>4. Len(L) \in Nat /\ DOMAIN L = 1..Len(L) /\ DOMAIN M = 1..Len(M)
  BY <1>2, <1>3, LenProperties
<1> QED BY <1>2, <1>3, <1>4 DEF Before, IsLog, M

\* Two logs with the same events are one.
LEMMA SamePrefix ==
  ASSUME NEW K, NEW L, Before(K, L), NEW n \in 0..Len(K)
  PROVE  SubSeq(K, 1, n) = SubSeq(L, 1, n)
<1>1. PICK S : K \in Seq(S)
  BY DEF Before, IsLog
<1>2. PICK T : L \in Seq(T)
  BY DEF Before, IsLog
<1>3. n \in 0..Len(L) /\ IsLog(K) /\ IsLog(L)
  BY DEF Before
<1>4. /\ IsLog(SubSeq(K, 1, n)) /\ Len(SubSeq(K, 1, n)) = n
      /\ DOMAIN SubSeq(K, 1, n) = 1..n
      /\ \A i \in 1..n : SubSeq(K, 1, n)[i] = K[i]
  BY <1>3, PrefixIs DEF Before
<1>5. /\ IsLog(SubSeq(L, 1, n)) /\ Len(SubSeq(L, 1, n)) = n
      /\ DOMAIN SubSeq(L, 1, n) = 1..n
      /\ \A i \in 1..n : SubSeq(L, 1, n)[i] = L[i]
  BY <1>3, PrefixIs DEF Before
<1>6. \A i \in 1..n : SubSeq(K, 1, n)[i] = SubSeq(L, 1, n)[i]
  <2>1. \A i \in 1..n : i \in 1..Len(K)
    BY DEF Before
  <2> QED BY <1>4, <1>5, <2>1 DEF Before
<1> DEFINE P == SubSeq(K, 1, n)
           Q == SubSeq(L, 1, n)
<1>7. PICK U : P \in Seq(U)
  BY <1>4 DEF IsLog
<1>8. PICK V : Q \in Seq(V)
  BY <1>5 DEF IsLog
<1>9. P \in Seq(U \cup V) /\ Q \in Seq(U \cup V)
  <2> HIDE DEF P, Q
  <2> QED BY <1>7, <1>8, LenProperties, ElementOfSeq
<1>10. Len(P) = Len(Q) /\ \A i \in 1..Len(P) : P[i] = Q[i]
  BY <1>4, <1>5, <1>6
<1>11. P = Q
  <2> HIDE DEF P, Q
  <2> QED BY <1>9, <1>10, SeqEqual
<1> QED BY <1>11

LEMMA BeforeTransitive ==
  ASSUME NEW J, NEW K, NEW L, Before(J, K), Before(K, L)
  PROVE  Before(J, L)
BY DEF Before
=============================================================================
