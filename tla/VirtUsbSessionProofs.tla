------------------------ MODULE VirtUsbSessionProofs ------------------------
(***************************************************************************)
(* The programs of user space: what they leave behind, who has the URBs,   *)
(* and the order in which a backend gets them.                             *)
(***************************************************************************)
EXTENDS VirtUsbSession, FiniteSetTheorems, WellFoundedInduction, NaturalsInduction,
        TLAPS

\* The lists and the places of the URBs agree.
ListsAgree ==
    /\ IsInjective(pending) /\ Range(pending) = {u \in Urbs : urb[u].at = "pending"}
    /\ IsInjective(submitted)
    /\ Range(submitted) = {u \in Urbs : urb[u].at \in {"pending", "active"}}

\* Of two URBs of one device the one submitted first is served first.
InOrder ==
    \A u, v \in Urbs :
        urb[u].dev = urb[v].dev /\ Ahead(submitted, u, v) =>
            urb[u].at = "active" \/ Ahead(pending, u, v)

\* A URB in the backend is for a bound file, and a fetched one is what the
\* program of that file has at hand.
Served ==
    \A u \in Urbs :
        /\ urb[u].at \in {"pending", "active"} => urb[u].dev \in bound
        /\ urb[u].at = "active" =>
              pc[urb[u].dev] \in {"handle", "back"} /\ cur[urb[u].dev] = u

\* A file that is bound is open.
BoundOpen == \A p \in bound : pc[p] \notin {"open", "done", "killed"}

\* A device outside the registry is attached to no port.
OutsideDetached == \A d \in Devices : life[d] # "registered" => peer[d] = NoPort

\* A program that has its device in the registry has recorded this and has yet
\* to pass its label out.
WillDestroy ==
    \A p \in Procs : life[p] = "registered" =>
        "created" \in did[p] /\ pc[p] \notin {"open", "create", "close", "done"}

SessionInv ==
    /\ TypeOK
    /\ ListsAgree
    /\ InOrder
    /\ Served
    /\ BoundOpen
    /\ OutsideDetached
    /\ WillDestroy

-----------------------------------------------------------------------------
(* Lists.                                                                  *)

\* A set of numbers that is not empty has a least one.
LEMMA Least ==
    ASSUME NEW T, T \subseteq Nat, T # {}
    PROVE  \E i \in T : \A j \in T : ~(j < i)
<1> DEFINE R == OpToRel(<, Nat)
<1>1. IsWellFoundedOn(R, Nat)
  BY NatLessThanWellFounded
<1>2. \A i, j \in Nat : i < j => <<i, j>> \in R
  BY DEF OpToRel
<1> HIDE DEF R
<1>3. PICK i \in T : \A j \in T : ~(<<j, i>> \in R)
  BY <1>1, WFMin
<1> QED
  BY <1>2, <1>3

\* How many members of K are at most i.
Rank(K, i) == Cardinality({k \in K : k <= i})

\* Ranks count the members of a set of positions without a gap.
LEMMA RankFacts ==
    ASSUME NEW n \in Nat, NEW K, K \subseteq 1..n
    PROVE  /\ Cardinality(K) \in Nat
           /\ \A i \in K : Rank(K, i) \in 1..Cardinality(K)
           /\ \A i, j \in K : i < j => Rank(K, i) < Rank(K, j)
           /\ \A j \in 1..Cardinality(K) : \E i \in K : Rank(K, i) = j
<1> DEFINE B(i) == {k \in K : k <= i}
<1>0. \A k \in K : k \in Int /\ 1 <= k /\ k <= n
  OBVIOUS
<1>1. IsFiniteSet(1..n) /\ IsFiniteSet(K)
  <2>1. IsFiniteSet(1..n)
    BY FS_Interval
  <2> QED
    BY <2>1, FS_Subset
<1>2. \A i \in 0..n :
          /\ IsFiniteSet(B(i)) /\ Rank(K, i) \in Nat /\ Rank(K, i) = Cardinality(B(i))
          /\ Rank(K, i) <= Cardinality(K) /\ Cardinality(K) \in Nat
  <2>1. ASSUME NEW i \in 0..n
        PROVE  /\ IsFiniteSet(B(i)) /\ Cardinality(B(i)) \in Nat
               /\ Cardinality(B(i)) <= Cardinality(K) /\ Cardinality(K) \in Nat
    <3>1. B(i) \subseteq K
      OBVIOUS
    <3> HIDE DEF B
    <3> QED
      BY <1>1, <3>1, FS_Subset, FS_CardinalityType
  <2> QED
    BY <2>1 DEF Rank
<1>3. ASSUME NEW i \in 0..n, i + 1 \in K
      PROVE  Rank(K, i + 1) = Rank(K, i) + 1
  <2>1. B(i + 1) = B(i) \cup {i + 1} /\ i + 1 \notin B(i) /\ i + 1 \in 0..n
    <3>1. i \in Int /\ i + 1 \in 0..n /\ \A k \in Int : k <= i + 1 <=> k <= i \/ k = i + 1
      BY <1>0, <1>3
    <3>2. ~(i + 1 <= i)
      BY <3>1
    <3> QED
      BY <1>0, <1>3, <3>1, <3>2
  <2>2. IsFiniteSet(B(i)) /\ Rank(K, i) = Cardinality(B(i))
        /\ Rank(K, i + 1) = Cardinality(B(i + 1))
    BY <1>2, <2>1
  <2> HIDE DEF B
  <2> QED
    BY <2>1, <2>2, FS_AddElement
<1>4. ASSUME NEW i \in 0..n, i + 1 \in 0..n, i + 1 \notin K
      PROVE  Rank(K, i + 1) = Rank(K, i)
  <2>1. B(i + 1) = B(i)
    <3>1. \A k \in Int : k <= i + 1 <=> k <= i \/ k = i + 1
      BY <1>4
    <3> QED
      BY <1>0, <1>4, <3>1
  <2> QED
    BY <2>1 DEF Rank
<1>5. ASSUME NEW i \in 0..n, NEW j \in K, i < j
      PROVE  Rank(K, i) < Rank(K, j)
  <2>1. B(i) \subseteq B(j) /\ j \in B(j) /\ j \notin B(i) /\ j \in 0..n
    <3>1. /\ \A k \in K : k <= i => k <= j
          /\ j <= j /\ ~(j <= i) /\ j \in 0..n
      BY <1>0, <1>5
    <3> QED
      BY <3>1, Zenon
  <2>2. /\ IsFiniteSet(B(j))
        /\ Rank(K, i) = Cardinality(B(i)) /\ Rank(K, j) = Cardinality(B(j))
    BY <1>2, <2>1
  <2> HIDE DEF B
  <2>3. PICK C, D : C = B(i) /\ D = B(j)
    OBVIOUS
  <2>4. /\ Cardinality(C) \in Nat /\ Cardinality(D) \in Nat
        /\ Cardinality(C) <= Cardinality(D)
        /\ Cardinality(C) = Cardinality(D) => C = D
    BY <2>1, <2>2, <2>3, FS_Subset, FS_CardinalityType
  <2> QED
    BY <2>1, <2>2, <2>3, <2>4
<1>6. Rank(K, 0) = 0 /\ Rank(K, n) = Cardinality(K)
  <2>1. B(0) = {} /\ B(n) = K
    <3>1. \A k \in K : ~(k <= 0) /\ k <= n
      BY <1>0
    <3> QED
      BY <3>1, Zenon
  <2> QED
    BY <2>1, FS_EmptySet DEF Rank
<1>7. ASSUME NEW i \in K PROVE Rank(K, i) \in 1..Cardinality(K)
  <2>1. i \in 0..n /\ 0 < i /\ 0 \in 0..n
    BY <1>0
  <2>2. /\ Rank(K, i) \in Nat /\ Cardinality(K) \in Nat /\ Rank(K, i) <= Cardinality(K)
        /\ 0 < Rank(K, i)
    BY <1>2, <1>5, <1>6, <2>1
  <2> QED
    BY <2>2
<1>8. ASSUME NEW j \in 1..Cardinality(K) PROVE \E i \in K : Rank(K, i) = j
  <2> DEFINE T == {i \in 0..n : Rank(K, i) >= j}
  <2>1. T \subseteq Nat /\ n \in T
    BY <1>2, <1>6
  <2>2. PICK i \in T : \A k \in T : ~(k < i)
    BY <2>1, Least
  <2>3. i \in 0..n /\ Rank(K, i) >= j /\ Cardinality(K) \in Nat
    BY <1>2, <2>2
  <2>4. i # 0
    BY <1>6, <2>3
  <2>5. PICK h \in 0..n : i = h + 1 /\ h < i
    BY <2>3, <2>4
  <2>6. ~(Rank(K, h) >= j) /\ Rank(K, h) \in Nat /\ Rank(K, i) \in Nat
    BY <1>2, <2>2, <2>3, <2>5
  <2>7. h + 1 \in K /\ Rank(K, i) = Rank(K, h) + 1
    BY <1>3, <1>4, <2>3, <2>5, <2>6
  <2> QED
    BY <2>3, <2>5, <2>6, <2>7
<1> QED
  BY <1>1, <1>5, <1>7, <1>8, FS_CardinalityType

\* list_del keeps the other entries, once each and in their order.
LEMMA WithoutFacts ==
    ASSUME NEW S, NEW s \in Seq(S), NEW us
    PROVE  /\ Without(s, us) \in Seq(S)
           /\ Range(Without(s, us)) = Range(s) \ us
           /\ IsInjective(s) => IsInjective(Without(s, us))
           /\ \A u, v : Ahead(Without(s, us), u, v) <=>
                           Ahead(s, u, v) /\ u \notin us /\ v \notin us
<1> DEFINE K == {i \in DOMAIN s : s[i] \notin us}
           n(j) == CHOOSE i \in K : Rank(K, i) = j
           w == [j \in 1..Cardinality(K) |-> s[n(j)]]
<1>1. Without(s, us) = w
  BY DEF Without, Rank
<1>2. Len(s) \in Nat /\ DOMAIN s = 1..Len(s) /\ K \subseteq 1..Len(s)
  OBVIOUS
<1> DEFINE m == Cardinality(K)
<1>3. /\ m \in Nat
      /\ \A i \in K : Rank(K, i) \in 1..m
      /\ \A i, j \in K : i < j => Rank(K, i) < Rank(K, j)
      /\ \A j \in 1..m : \E i \in K : Rank(K, i) = j
  BY <1>2, RankFacts
<1>4. \A j \in 1..m : n(j) \in K /\ Rank(K, n(j)) = j
  BY <1>3
<1>5. \A i \in K : i \in DOMAIN s /\ i \in Nat /\ s[i] \notin us /\ s[i] \in S
  BY <1>2
<1>6. \A i \in DOMAIN s : s[i] \notin us => i \in K
  OBVIOUS
<1>7. DOMAIN w = 1..m /\ \A j \in 1..m : w[j] = s[n(j)]
  OBVIOUS
<1>8. w \in Seq(S)
  <2>1. w \in [1..m -> S]
    BY <1>4, <1>5
  <2> HIDE DEF K, n, w, m
  <2> QED
    BY <1>3, <2>1
<1> HIDE DEF K, n, w, m
<1>9. \A i \in K : n(Rank(K, i)) = i
  <2> SUFFICES ASSUME NEW i \in K PROVE n(Rank(K, i)) = i
    OBVIOUS
  <2>1. PICK k \in K : k = n(Rank(K, i)) /\ Rank(K, k) = Rank(K, i)
    BY <1>3, <1>4
  <2>2. k \in Nat /\ i \in Nat /\ Rank(K, i) \in Int
    BY <1>3, <1>5
  <2>3. ~(k < i) /\ ~(i < k)
    BY <1>3, <2>1, <2>2
  <2> QED
    BY <2>1, <2>2, <2>3
<1>10. \A j, k \in 1..m : j < k => n(j) < n(k)
  <2> SUFFICES ASSUME NEW j \in 1..m, NEW k \in 1..m, j < k PROVE n(j) < n(k)
    OBVIOUS
  <2>1. PICK a \in K : a = n(j) /\ Rank(K, a) = j
    BY <1>4
  <2>2. PICK b \in K : b = n(k) /\ Rank(K, b) = k
    BY <1>4
  <2>3. a \in Nat /\ b \in Nat /\ j \in Int /\ k \in Int
    BY <1>5
  <2>4. ~(b < a) /\ a # b
    BY <1>3, <2>1, <2>2, <2>3
  <2> QED
    BY <2>1, <2>2, <2>3, <2>4
<1>11. Range(w) = Range(s) \ us
  <2>1. ASSUME NEW j \in 1..m PROVE w[j] \in Range(s) \ us
    BY <1>4, <1>5, <1>7 DEF Range
  <2>2. ASSUME NEW i \in DOMAIN s, s[i] \notin us PROVE s[i] \in Range(w)
    <3>1. i \in K /\ Rank(K, i) \in 1..m /\ n(Rank(K, i)) = i
      BY <1>3, <1>6, <1>9, <2>2
    <3>2. w[Rank(K, i)] = s[i]
      BY <1>7, <3>1
    <3> QED
      BY <1>7, <3>1, <3>2 DEF Range
  <2> QED
    BY <1>7, <2>1, <2>2 DEF Range
<1>12. ASSUME IsInjective(s) PROVE IsInjective(w)
  <2> SUFFICES ASSUME NEW j \in 1..m, NEW k \in 1..m, w[j] = w[k] PROVE j = k
    BY <1>7 DEF IsInjective
  <2>1. n(j) = n(k)
    BY <1>4, <1>5, <1>7, <1>12 DEF IsInjective
  <2> QED
    BY <1>4, <2>1
<1>13. ASSUME NEW u, NEW v, Ahead(w, u, v)
       PROVE  Ahead(s, u, v) /\ u \notin us /\ v \notin us
  <2>1. PICK j \in 1..m, k \in 1..m : j < k /\ w[j] = u /\ w[k] = v
    BY <1>7, <1>13 DEF Ahead
  <2>2. /\ n(j) < n(k) /\ s[n(j)] = u /\ s[n(k)] = v
        /\ n(j) \in K /\ n(k) \in K
    BY <1>4, <1>7, <1>10, <2>1
  <2> QED
    BY <1>5, <2>2 DEF Ahead
<1>14. ASSUME NEW u, NEW v, Ahead(s, u, v), u \notin us, v \notin us
       PROVE  Ahead(w, u, v)
  <2>1. PICK i \in DOMAIN s, k \in DOMAIN s : i < k /\ s[i] = u /\ s[k] = v
    BY <1>14 DEF Ahead
  <2>2. i \in K /\ k \in K
    BY <1>6, <1>14, <2>1
  <2>3. /\ Rank(K, i) < Rank(K, k) /\ Rank(K, i) \in 1..m /\ Rank(K, k) \in 1..m
        /\ w[Rank(K, i)] = u /\ w[Rank(K, k)] = v
    BY <1>3, <1>7, <1>9, <2>1, <2>2
  <2> QED
    BY <1>7, <2>3 DEF Ahead
<1> QED
  BY <1>1, <1>8, <1>11, <1>12, <1>13, <1>14

\* An entry put behind the others (list_add_tail), and one put before them
\* (list_move).
LEMMA AddFacts ==
    ASSUME NEW S, NEW s \in Seq(S), NEW x \in S, x \notin Range(s)
    PROVE  /\ Append(s, x) \in Seq(S) /\ <<x>> \o s \in Seq(S)
           /\ Range(Append(s, x)) = Range(s) \cup {x}
           /\ Range(<<x>> \o s) = Range(s) \cup {x}
           /\ IsInjective(s) => IsInjective(Append(s, x)) /\ IsInjective(<<x>> \o s)
           /\ \A u, v : Ahead(Append(s, x), u, v) <=>
                           Ahead(s, u, v) \/ (u \in Range(s) /\ v = x)
           /\ \A u, v : Ahead(<<x>> \o s, u, v) <=>
                           Ahead(s, u, v) \/ (u = x /\ v \in Range(s))
<1> DEFINE n == Len(s)
           a == Append(s, x)
           b == <<x>> \o s
<1>1. n \in Nat /\ DOMAIN s = 1..n /\ \A i \in 1..n : s[i] \in S /\ s[i] # x
  BY DEF Range
<1>2. /\ a \in Seq(S) /\ DOMAIN a = 1..(n + 1)
      /\ \A i \in 1..n : a[i] = s[i]
      /\ a[n + 1] = x
  OBVIOUS
<1>3. /\ b \in Seq(S) /\ DOMAIN b = 1..(n + 1)
      /\ \A i \in 1..n : b[i + 1] = s[i]
      /\ b[1] = x
  OBVIOUS
<1> HIDE DEF n, a, b
<1>4. \A i \in 1..(n + 1) : i \in 1..n \/ i = n + 1
  BY <1>1
<1>5. \A i \in 1..(n + 1) : i = 1 \/ \E j \in 1..n : i = j + 1
  <2> SUFFICES ASSUME NEW i \in 1..(n + 1), i # 1 PROVE \E j \in 1..n : i = j + 1
    OBVIOUS
  <2>1. i - 1 \in 1..n /\ i = (i - 1) + 1
    BY <1>1
  <2> QED
    BY <2>1
<1>6. \A i \in 1..n : i \in 1..(n + 1) /\ i + 1 \in 1..(n + 1)
  BY <1>1
<1>7. n + 1 \in 1..(n + 1) /\ 1 \in 1..(n + 1)
  BY <1>1
<1>8. Range(a) = Range(s) \cup {x} /\ Range(b) = Range(s) \cup {x}
  <2>1. \A y : (\E i \in 1..(n + 1) : a[i] = y) <=> (\E i \in 1..n : s[i] = y) \/ y = x
    BY <1>2, <1>4, <1>6, <1>7
  <2>2. \A y : (\E i \in 1..(n + 1) : b[i] = y) <=> (\E i \in 1..n : s[i] = y) \/ y = x
    BY <1>3, <1>5, <1>6, <1>7
  <2>3. /\ \A y : y \in Range(a) <=> \E i \in 1..(n + 1) : a[i] = y
        /\ \A y : y \in Range(b) <=> \E i \in 1..(n + 1) : b[i] = y
        /\ \A y : y \in Range(s) <=> \E i \in 1..n : s[i] = y
    BY <1>1, <1>2, <1>3, Zenon DEF Range
  <2> QED
    BY <2>1, <2>2, <2>3
<1>9. ASSUME IsInjective(s) PROVE IsInjective(a) /\ IsInjective(b)
  <2>1. \A i, j \in 1..n : s[i] = s[j] => i = j
    BY <1>1, <1>9 DEF IsInjective
  <2>2. \A i, j \in 1..(n + 1) : a[i] = a[j] => i = j
    BY <1>1, <1>2, <1>4, <2>1
  <2>3. \A i, j \in 1..(n + 1) : b[i] = b[j] => i = j
    <3>1. \A h \in 1..n : b[h + 1] # b[1]
      BY <1>1, <1>3
    <3>2. \A h, k \in 1..n : b[h + 1] = b[k + 1] => h = k
      BY <1>3, <2>1
    <3> QED
      BY <1>5, <3>1, <3>2
  <2> QED
    BY <1>2, <1>3, <2>2, <2>3 DEF IsInjective
<1>10. ASSUME NEW u, NEW v
       PROVE  Ahead(a, u, v) <=> Ahead(s, u, v) \/ (u \in Range(s) /\ v = x)
  <2>1. ASSUME Ahead(a, u, v) PROVE Ahead(s, u, v) \/ (u \in Range(s) /\ v = x)
    <3>1. PICK i \in 1..(n + 1), j \in 1..(n + 1) : i < j /\ a[i] = u /\ a[j] = v
      BY <1>2, <2>1 DEF Ahead
    <3>2. i \in 1..n /\ s[i] = u
      BY <1>1, <1>2, <3>1
    <3>3. CASE j = n + 1
      BY <1>1, <1>2, <3>1, <3>2, <3>3 DEF Range
    <3>4. CASE j \in 1..n
      BY <1>1, <1>2, <3>1, <3>2, <3>4 DEF Ahead
    <3> QED
      BY <1>4, <3>3, <3>4
  <2>2. ASSUME Ahead(s, u, v) PROVE Ahead(a, u, v)
    BY <1>1, <1>2, <1>6, <2>2 DEF Ahead
  <2>3. ASSUME u \in Range(s), v = x PROVE Ahead(a, u, v)
    <3>1. PICK i \in 1..n : s[i] = u
      BY <1>1, <2>3 DEF Range
    <3>2. i < n + 1 /\ i \in DOMAIN a /\ n + 1 \in DOMAIN a
      BY <1>1, <1>2
    <3> QED
      BY <1>2, <2>3, <3>1, <3>2 DEF Ahead
  <2> QED
    BY <2>1, <2>2, <2>3
<1>11. ASSUME NEW u, NEW v
       PROVE  Ahead(b, u, v) <=> Ahead(s, u, v) \/ (u = x /\ v \in Range(s))
  <2>1. ASSUME Ahead(b, u, v) PROVE Ahead(s, u, v) \/ (u = x /\ v \in Range(s))
    <3>1. PICK i \in 1..(n + 1), j \in 1..(n + 1) : i < j /\ b[i] = u /\ b[j] = v
      BY <1>3, <2>1 DEF Ahead
    <3>2. PICK k \in 1..n : j = k + 1 /\ s[k] = v
      BY <1>1, <1>3, <1>5, <3>1
    <3>3. CASE i = 1
      BY <1>1, <1>3, <3>1, <3>2, <3>3 DEF Range
    <3>4. CASE \E h \in 1..n : i = h + 1
      <4>1. PICK h \in 1..n : i = h + 1
        BY <3>4
      <4>2. h < k /\ s[h] = u
        BY <1>1, <1>3, <3>1, <3>2, <4>1
      <4> QED
        BY <1>1, <3>2, <4>2 DEF Ahead
    <3> QED
      BY <1>5, <3>3, <3>4
  <2>2. ASSUME Ahead(s, u, v) PROVE Ahead(b, u, v)
    <3>1. PICK i \in 1..n, j \in 1..n : i < j /\ s[i] = u /\ s[j] = v
      BY <1>1, <2>2 DEF Ahead
    <3>2. i + 1 < j + 1 /\ i + 1 \in DOMAIN b /\ j + 1 \in DOMAIN b
      BY <1>1, <1>3, <3>1
    <3> QED
      BY <1>3, <3>1, <3>2 DEF Ahead
  <2>3. ASSUME u = x, v \in Range(s) PROVE Ahead(b, u, v)
    <3>1. PICK j \in 1..n : s[j] = v
      BY <1>1, <2>3 DEF Range
    <3>2. 1 < j + 1 /\ 1 \in DOMAIN b /\ j + 1 \in DOMAIN b
      BY <1>1, <1>3
    <3> QED
      BY <1>3, <2>3, <3>1, <3>2 DEF Ahead
  <2> QED
    BY <2>1, <2>2, <2>3
<1> QED
  BY <1>2, <1>3, <1>8, <1>9, <1>10, <1>11 DEF a, b

-----------------------------------------------------------------------------
(* The queues.                                                             *)

Places == {AtHost} \cup [at : {"resolved", "pending", "active"},
                         port : Ports, dev : Devices]

UrbType == urb \in [Urbs -> Places] /\ pending \in Seq(Urbs) /\ submitted \in Seq(Urbs)

UrbInv == UrbType /\ ListsAgree /\ InOrder

\* The lists hold URBs, and nothing is ahead of itself.
LEMMA ListFacts ==
    ASSUME UrbInv
    PROVE  /\ \A u \in Urbs : u \in Range(pending) <=> urb[u].at = "pending"
           /\ \A u \in Urbs : u \in Range(submitted) <=> urb[u].at \in {"pending", "active"}
           /\ \A u, v : Ahead(pending, u, v) =>
                 u \in Range(pending) /\ v \in Range(pending) /\ u # v
           /\ \A u, v : Ahead(submitted, u, v) =>
                 u \in Range(submitted) /\ v \in Range(submitted) /\ u # v
<1>1. ASSUME NEW s \in Seq(Urbs), IsInjective(s), NEW u, NEW v, Ahead(s, u, v)
      PROVE  u \in Range(s) /\ v \in Range(s) /\ u # v
  <2>1. PICK i \in DOMAIN s, j \in DOMAIN s : i < j /\ s[i] = u /\ s[j] = v
    BY <1>1 DEF Ahead
  <2>2. i \in Int /\ j \in Int
    BY <2>1
  <2> QED
    BY <1>1, <2>1, <2>2 DEF Range, IsInjective
<1> QED
  BY <1>1 DEF UrbInv, UrbType, ListsAgree

\* A step that leaves the lists alone may change an URB that is in none.
LEMMA ElsewhereKeeps ==
    ASSUME UrbInv, NEW u \in Urbs, NEW r \in Places,
           urb[u].at \notin {"pending", "active"}, r.at \notin {"pending", "active"},
           urb' = [urb EXCEPT ![u] = r], UNCHANGED <<pending, submitted>>
    PROVE  UrbInv'
<1>1. UrbType'
  BY DEF UrbInv, UrbType
<1>2. \A x \in Urbs : urb'[x] = IF x = u THEN r ELSE urb[x]
  BY DEF UrbInv, UrbType
<1>3. ListsAgree'
  BY <1>2 DEF UrbInv, ListsAgree
<1>4. InOrder'
  <2>1. u \notin Range(submitted)
    BY ListFacts
  <2> SUFFICES ASSUME NEW x \in Urbs, NEW y \in Urbs, urb'[x].dev = urb'[y].dev,
                      Ahead(submitted, x, y)
               PROVE  urb'[x].at = "active" \/ Ahead(pending, x, y)
    BY DEF InOrder
  <2>2. x # u /\ y # u
    BY <2>1, ListFacts
  <2> QED
    BY <1>2, <2>2 DEF UrbInv, InOrder
<1> QED
  BY <1>1, <1>3, <1>4 DEF UrbInv

\* The step leaves the queues alone.
LEMMA QueuesUnchanged ==
    ASSUME UrbInv, UNCHANGED urbVars
    PROVE  UrbInv'
BY DEF UrbInv, UrbType, ListsAgree, InOrder, urbVars

\* URBs go back to the host: completion, cancellation, the end of a binding.
LEMMA ReturnKeeps ==
    ASSUME UrbInv, NEW us, Return(us)
    PROVE  UrbInv' /\ \A u \in Urbs : urb'[u] = IF u \in us THEN AtHost ELSE urb[u]
<1>1. \A u \in Urbs : urb'[u] = IF u \in us THEN AtHost ELSE urb[u]
  BY DEF Return
<1>2. pending' = Without(pending, us) /\ submitted' = Without(submitted, us)
  BY DEF Return
<1>3. pending \in Seq(Urbs) /\ submitted \in Seq(Urbs)
  BY DEF UrbInv, UrbType
<1>4. /\ pending' \in Seq(Urbs) /\ Range(pending') = Range(pending) \ us
      /\ IsInjective(pending) => IsInjective(pending')
      /\ \A u, v : Ahead(pending', u, v) <=>
                      Ahead(pending, u, v) /\ u \notin us /\ v \notin us
  BY <1>2, <1>3, WithoutFacts
<1>5. /\ submitted' \in Seq(Urbs) /\ Range(submitted') = Range(submitted) \ us
      /\ IsInjective(submitted) => IsInjective(submitted')
      /\ \A u, v : Ahead(submitted', u, v) <=>
                      Ahead(submitted, u, v) /\ u \notin us /\ v \notin us
  BY <1>2, <1>3, WithoutFacts
<1>6. AtHost.at = "host" /\ AtHost \in Places
  BY DEF AtHost, Places
<1>7. UrbType'
  BY <1>4, <1>5, <1>6 DEF UrbInv, UrbType, Return
<1>8. ListsAgree'
  BY <1>1, <1>4, <1>5, <1>6 DEF UrbInv, ListsAgree
<1>9. InOrder'
  BY <1>1, <1>4, <1>5 DEF UrbInv, InOrder
<1> QED
  BY <1>1, <1>7, <1>8, <1>9 DEF UrbInv

\* A fetch takes a pending request of the device, the first of them.
LEMMA TakeKeeps ==
    ASSUME UrbInv, NEW p \in Procs, TakeFirst(p)
    PROVE  /\ UrbInv'
           /\ \E u \in Urbs :
                 /\ urb[u].at = "pending" /\ urb[u].dev = p
                 /\ urb'[u].at = "active" /\ urb'[u].dev = p
                 /\ \A v \in Urbs \ {u} : urb'[v] = urb[v]
                 /\ cur' = [cur EXCEPT ![p] = u]
<1>1. PICK i \in FirstPending(p) :
          /\ urb' = [urb EXCEPT ![pending[i]].at = "active"]
          /\ pending' = Without(pending, {pending[i]})
          /\ cur' = [cur EXCEPT ![p] = pending[i]]
          /\ UNCHANGED submitted
  BY DEF TakeFirst
<1>2. PICK w : w = pending[i]
  OBVIOUS
<1>3. pending \in Seq(Urbs) /\ submitted \in Seq(Urbs) /\ urb \in [Urbs -> Places]
  BY DEF UrbInv, UrbType
<1>4. /\ i \in DOMAIN pending /\ i \in Nat /\ w \in Urbs
      /\ urb[w].dev = p /\ \A j \in 1..(i - 1) : urb[pending[j]].dev # p
  BY <1>1, <1>2, <1>3 DEF FirstPending
<1>5. w \in Range(pending) /\ urb[w].at = "pending"
  <2>1. w \in Range(pending)
    BY <1>2, <1>4 DEF Range
  <2> QED
    BY <1>4, <2>1, ListFacts
<1>6. urb[w] \in [at : {"resolved", "pending", "active"}, port : Ports, dev : Devices]
  BY <1>3, <1>4, <1>5 DEF Places, AtHost
<1>7. /\ urb'[w] = [urb[w] EXCEPT !.at = "active"]
      /\ \A v \in Urbs \ {w} : urb'[v] = urb[v]
      /\ DOMAIN urb' = Urbs
  BY <1>1, <1>2, <1>3, <1>4
<1>8. urb'[w].at = "active" /\ urb'[w].dev = urb[w].dev /\ urb'[w] \in Places
  BY <1>6, <1>7 DEF Places
<1>9. /\ pending' \in Seq(Urbs) /\ Range(pending') = Range(pending) \ {w}
      /\ IsInjective(pending) => IsInjective(pending')
      /\ \A u, v : Ahead(pending', u, v) <=>
                      Ahead(pending, u, v) /\ u # w /\ v # w
  <2>1. PICK us : us = {w}
    OBVIOUS
  <2>2. pending' = Without(pending, us)
    BY <1>1, <1>2, <2>1
  <2>3. /\ pending' \in Seq(Urbs) /\ Range(pending') = Range(pending) \ us
        /\ IsInjective(pending) => IsInjective(pending')
        /\ \A u, v : Ahead(pending', u, v) <=>
                        Ahead(pending, u, v) /\ u \notin us /\ v \notin us
    BY <1>3, <2>2, WithoutFacts
  <2> QED
    BY <2>1, <2>3
<1>10. UrbType'
  <2>1. urb' = [v \in Urbs |-> urb'[v]] /\ \A v \in Urbs : urb'[v] \in Places
    BY <1>1, <1>3, <1>7, <1>8
  <2>2. urb' \in [Urbs -> Places]
    BY <2>1
  <2> QED
    BY <1>1, <1>3, <1>9, <2>2 DEF UrbType
<1>11. ListsAgree'
  <2>1. Range(pending') = {u \in Urbs : urb'[u].at = "pending"}
    BY <1>7, <1>8, <1>9 DEF UrbInv, ListsAgree
  <2>2. Range(submitted') = {u \in Urbs : urb'[u].at \in {"pending", "active"}}
    BY <1>1, <1>5, <1>7, <1>8 DEF UrbInv, ListsAgree
  <2> QED
    BY <1>1, <1>9, <2>1, <2>2 DEF UrbInv, ListsAgree
<1>12. InOrder'
  <2> SUFFICES ASSUME NEW u \in Urbs, NEW v \in Urbs, urb'[u].dev = urb'[v].dev,
                      Ahead(submitted, u, v)
               PROVE  urb'[u].at = "active" \/ Ahead(pending', u, v)
    BY <1>1 DEF InOrder
  <2>1. urb[u].dev = urb[v].dev
    BY <1>7, <1>8
  <2>2. urb[u].at = "active" \/ Ahead(pending, u, v)
    BY <2>1 DEF UrbInv, InOrder
  <2>3. CASE urb[u].at = "active" \/ u = w
    BY <1>7, <1>8, <2>3
  <2>4. CASE Ahead(pending, u, v) /\ u # w /\ v # w
    BY <1>9, <2>4
  <2>5. ~(Ahead(pending, u, v) /\ v = w)
    <3> SUFFICES ASSUME Ahead(pending, u, v), v = w PROVE FALSE
      OBVIOUS
    <3>1. PICK h \in DOMAIN pending, j \in DOMAIN pending :
              h < j /\ pending[h] = u /\ pending[j] = v
      BY DEF Ahead
    <3>2. j = i
      BY <1>2, <1>4, <3>1 DEF UrbInv, ListsAgree, IsInjective
    <3>3. h \in 1..(i - 1)
      BY <1>3, <1>4, <3>1, <3>2
    <3> QED
      BY <1>4, <2>1, <3>1, <3>3
  <2> QED
    BY <2>2, <2>3, <2>4, <2>5
<1> QED
  BY <1>1, <1>2, <1>4, <1>5, <1>7, <1>8, <1>10, <1>11, <1>12 DEF UrbInv

\* The fetched request of a program goes back to the head of the list: it is the
\* only one that the program has, so no request of its device is before it.
LEMMA BackKeeps ==
    ASSUME UrbInv, Served, NEW p \in Procs, Holds(p), NEW w \in Urbs, w = cur[p],
           urb' = [urb EXCEPT ![w].at = "pending"], pending' = <<w>> \o pending,
           UNCHANGED submitted
    PROVE  /\ UrbInv'
           /\ urb'[w].at = "pending" /\ urb'[w].dev = urb[w].dev
           /\ \A v \in Urbs \ {w} : urb'[v] = urb[v]
<1>1. pending \in Seq(Urbs) /\ submitted \in Seq(Urbs) /\ urb \in [Urbs -> Places]
  BY DEF UrbInv, UrbType
<1>2. urb[w].at = "active" /\ urb[w].dev = p
  BY DEF Holds
<1>3. urb[w] \in [at : {"resolved", "pending", "active"}, port : Ports, dev : Devices]
  BY <1>1, <1>2 DEF Places, AtHost
<1>4. /\ urb'[w] = [urb[w] EXCEPT !.at = "pending"]
      /\ \A v \in Urbs \ {w} : urb'[v] = urb[v]
  BY <1>1
<1>5. urb'[w].at = "pending" /\ urb'[w].dev = urb[w].dev /\ urb'[w] \in Places
  BY <1>3, <1>4 DEF Places
<1>6. w \notin Range(pending)
  BY <1>2, ListFacts
<1>7. /\ pending' \in Seq(Urbs) /\ Range(pending') = Range(pending) \cup {w}
      /\ IsInjective(pending) => IsInjective(pending')
      /\ \A u, v : Ahead(pending', u, v) <=>
                      Ahead(pending, u, v) \/ (u = w /\ v \in Range(pending))
  BY <1>1, <1>6, AddFacts
<1>8. UrbType'
  <2>1. urb' = [v \in Urbs |-> urb'[v]] /\ \A v \in Urbs : urb'[v] \in Places
    BY <1>1, <1>4, <1>5
  <2>2. urb' \in [Urbs -> Places]
    BY <2>1
  <2> QED
    BY <1>1, <1>7, <2>2 DEF UrbType
<1>9. ListsAgree'
  <2>1. Range(pending') = {u \in Urbs : urb'[u].at = "pending"}
    BY <1>4, <1>5, <1>7 DEF UrbInv, ListsAgree
  <2>2. Range(submitted') = {u \in Urbs : urb'[u].at \in {"pending", "active"}}
    BY <1>2, <1>4, <1>5 DEF UrbInv, ListsAgree
  <2> QED
    BY <1>7, <2>1, <2>2 DEF UrbInv, ListsAgree
<1>10. InOrder'
  <2> SUFFICES ASSUME NEW u \in Urbs, NEW v \in Urbs, urb'[u].dev = urb'[v].dev,
                      Ahead(submitted, u, v)
               PROVE  urb'[u].at = "active" \/ Ahead(pending', u, v)
    BY DEF InOrder
  <2>1. urb[u].dev = urb[v].dev
    BY <1>4, <1>5
  <2>2. urb[u].at = "active" \/ Ahead(pending, u, v)
    BY <2>1 DEF UrbInv, InOrder
  <2>3. CASE Ahead(pending, u, v)
    BY <1>7, <2>3
  <2>4. CASE urb[u].at = "active" /\ u # w
    BY <1>4, <2>4
  <2>5. CASE u = w
    <3>1. v # w /\ urb[v].at \in {"pending", "active"} /\ urb[v].dev = p
      BY <1>2, <2>1, <2>5, ListFacts
    <3>2. urb[v].at # "active"
      BY <3>1 DEF Served
    <3>3. v \in Range(pending)
      BY <3>1, <3>2, ListFacts
    <3> QED
      BY <1>7, <2>5, <3>3
  <2> QED
    BY <2>2, <2>3, <2>4, <2>5
<1> QED
  BY <1>4, <1>5, <1>8, <1>9, <1>10 DEF UrbInv

\* A submission puts the URB behind the others of both lists.
LEMMA QueueKeeps ==
    ASSUME UrbInv, NEW w \in Urbs, urb[w].at = "resolved",
           urb' = [urb EXCEPT ![w].at = "pending"],
           pending' = Append(pending, w), submitted' = Append(submitted, w)
    PROVE  /\ UrbInv'
           /\ urb'[w].at = "pending" /\ urb'[w].dev = urb[w].dev
           /\ \A v \in Urbs \ {w} : urb'[v] = urb[v]
<1>1. pending \in Seq(Urbs) /\ submitted \in Seq(Urbs) /\ urb \in [Urbs -> Places]
  BY DEF UrbInv, UrbType
<1>2. urb[w] \in [at : {"resolved", "pending", "active"}, port : Ports, dev : Devices]
  BY <1>1 DEF Places, AtHost
<1>3. /\ urb'[w] = [urb[w] EXCEPT !.at = "pending"]
      /\ \A v \in Urbs \ {w} : urb'[v] = urb[v]
  BY <1>1
<1>4. urb'[w].at = "pending" /\ urb'[w].dev = urb[w].dev /\ urb'[w] \in Places
  BY <1>2, <1>3 DEF Places
<1>5. w \notin Range(pending) /\ w \notin Range(submitted)
  BY ListFacts
<1>6. /\ pending' \in Seq(Urbs) /\ Range(pending') = Range(pending) \cup {w}
      /\ IsInjective(pending) => IsInjective(pending')
      /\ \A u, v : Ahead(pending', u, v) <=>
                      Ahead(pending, u, v) \/ (u \in Range(pending) /\ v = w)
  <2>1. PICK a, s : a = pending' /\ s = pending
    OBVIOUS
  <2>2. s \in Seq(Urbs) /\ w \notin Range(s) /\ a = Append(s, w)
    BY <1>1, <1>5, <2>1
  <2>3. /\ a \in Seq(Urbs) /\ Range(a) = Range(s) \cup {w}
        /\ IsInjective(s) => IsInjective(a)
        /\ \A u, v : Ahead(a, u, v) <=>
                        Ahead(s, u, v) \/ (u \in Range(s) /\ v = w)
    BY <2>2, AddFacts
  <2> QED
    BY <2>1, <2>3
<1>7. /\ submitted' \in Seq(Urbs) /\ Range(submitted') = Range(submitted) \cup {w}
      /\ IsInjective(submitted) => IsInjective(submitted')
      /\ \A u, v : Ahead(submitted', u, v) <=>
                      Ahead(submitted, u, v) \/ (u \in Range(submitted) /\ v = w)
  <2>1. PICK a, s : a = submitted' /\ s = submitted
    OBVIOUS
  <2>2. s \in Seq(Urbs) /\ w \notin Range(s) /\ a = Append(s, w)
    BY <1>1, <1>5, <2>1
  <2>3. /\ a \in Seq(Urbs) /\ Range(a) = Range(s) \cup {w}
        /\ IsInjective(s) => IsInjective(a)
        /\ \A u, v : Ahead(a, u, v) <=>
                        Ahead(s, u, v) \/ (u \in Range(s) /\ v = w)
    BY <2>2, AddFacts
  <2> QED
    BY <2>1, <2>3
<1>8. UrbType'
  <2>1. urb' = [v \in Urbs |-> urb'[v]] /\ \A v \in Urbs : urb'[v] \in Places
    BY <1>1, <1>3, <1>4
  <2>2. urb' \in [Urbs -> Places]
    BY <2>1
  <2> QED
    BY <1>6, <1>7, <2>2 DEF UrbType
<1>9. ListsAgree'
  <2>1. Range(pending') = {u \in Urbs : urb'[u].at = "pending"}
    BY <1>3, <1>4, <1>6 DEF UrbInv, ListsAgree
  <2>2. Range(submitted') = {u \in Urbs : urb'[u].at \in {"pending", "active"}}
    BY <1>3, <1>4, <1>7 DEF UrbInv, ListsAgree
  <2> QED
    BY <1>6, <1>7, <2>1, <2>2 DEF UrbInv, ListsAgree
<1>10. InOrder'
  <2> SUFFICES ASSUME NEW u \in Urbs, NEW v \in Urbs, urb'[u].dev = urb'[v].dev,
                      Ahead(submitted', u, v)
               PROVE  urb'[u].at = "active" \/ Ahead(pending', u, v)
    BY DEF InOrder
  <2>1. CASE Ahead(submitted, u, v)
    <3>1. u # w /\ v # w
      BY <1>5, <2>1, ListFacts
    <3>2. urb[u].at = "active" \/ Ahead(pending, u, v)
      BY <1>3, <2>1, <3>1 DEF UrbInv, InOrder
    <3> QED
      BY <1>3, <1>6, <3>1, <3>2
  <2>2. CASE u \in Range(submitted) /\ v = w
    <3>1. u # w /\ urb[u].at \in {"pending", "active"}
      BY <1>5, <2>2, ListFacts
    <3>2. CASE urb[u].at = "active"
      BY <1>3, <3>1, <3>2
    <3>3. CASE urb[u].at = "pending"
      BY <1>6, <2>2, <3>3, ListFacts
    <3> QED
      BY <3>1, <3>2, <3>3
  <2> QED
    BY <1>7, <2>1, <2>2
<1> QED
  BY <1>3, <1>4, <1>8, <1>9, <1>10 DEF UrbInv

\* When a binding ends, what was queued for it is back at the host.
LEMMA ReleaseKeeps ==
    ASSUME UrbInv, Served, NEW p \in Procs, ReleaseOwner(p)
    PROVE  /\ UrbInv'
           /\ \A u \in Urbs : urb'[u].at \in {"pending", "active"} =>
                 urb'[u] = urb[u] /\ urb[u].dev # p
           /\ \A u \in Urbs : urb'[u] \in {urb[u], AtHost}
<1>1. AtHost.at = "host"
  BY DEF AtHost
<1>2. CASE p \in bound
  <2>1. Return(Queued(p))
    BY <1>2 DEF ReleaseOwner
  <2>2. PICK us : us = Queued(p)
    OBVIOUS
  <2>3. Return(us)
    BY <2>1, <2>2
  <2>4. UrbInv' /\ \A u \in Urbs : urb'[u] = IF u \in us THEN AtHost ELSE urb[u]
    BY <2>3, ReturnKeeps
  <2> QED
    BY <1>1, <2>2, <2>4 DEF Queued
<1>3. CASE p \notin bound
  <2>1. UNCHANGED urbVars
    BY <1>3 DEF ReleaseOwner
  <2> QED
    BY <1>3, <2>1, QueuesUnchanged DEF Served, urbVars
<1> QED
  BY <1>2, <1>3

-----------------------------------------------------------------------------
(* Ports and devices.                                                      *)

TopologyType ==
    /\ life \in [Devices -> {"new", "registered", "destroyed"}]
    /\ peer \in [Devices -> Ports \cup {NoPort}]
    /\ signaling \subseteq Devices /\ was_reset \subseteq Devices
    /\ powered \subseteq Ports /\ change \subseteq Ports /\ enabled \subseteq Ports

TopologyInv == TopologyType /\ OutsideDetached

\* The step leaves ports and devices alone.
LEMMA TopologyUnchanged ==
    ASSUME TopologyInv, UNCHANGED topologyVars
    PROVE  TopologyInv' /\ life' = life
BY DEF TopologyInv, TopologyType, OutsideDetached, topologyVars

\* A change of attachment, signaling or power leaves the flags of ports flags.
LEMMA RewireTypes ==
    ASSUME TopologyType, NEW pr \in [Devices -> Ports \cup {NoPort}],
           NEW sig, sig \subseteq Devices, NEW pow, pow \subseteq Ports,
           Rewire(pr, sig, pow), life' \in [Devices -> {"new", "registered", "destroyed"}]
    PROVE  TopologyType' /\ peer' = pr
<1>1. ConnectedPorts(peer, signaling, powered) \subseteq Ports
  BY DEF TopologyType, ConnectedPorts
<1>2. ConnectedPorts(pr, sig, pow) \subseteq Ports
  BY DEF ConnectedPorts
<1>3. change' \subseteq Ports /\ enabled' \subseteq Ports /\ was_reset' \subseteq Devices
  BY <1>1, <1>2 DEF TopologyType, Rewire
<1> QED
  BY <1>3 DEF TopologyType, Rewire

\* virtusb_device_create of a device that is in no port.
LEMMA CreateDevice ==
    ASSUME TopologyInv, NEW d \in Devices, DoCreate(d)
    PROVE  TopologyInv' /\ \A x \in Devices \ {d} : life'[x] = life[x]
<1>1. /\ life' \in [Devices -> {"new", "registered", "destroyed"}]
      /\ life'[d] = "registered" /\ \A x \in Devices \ {d} : life'[x] = life[x]
  BY DEF TopologyInv, TopologyType, DoCreate
<1>2. TopologyType' /\ peer' = peer
  BY <1>1, RewireTypes DEF TopologyInv, TopologyType, DoCreate
<1> QED
  BY <1>1, <1>2 DEF TopologyInv, OutsideDetached

\* virtusb_device_attach of a device in the registry.
LEMMA AttachDevice ==
    ASSUME TopologyInv, NEW d \in Devices, NEW n \in Ports, Found(d), DoAttach(d, n)
    PROVE  TopologyInv' /\ life' = life
<1>1. PICK pr : pr = [peer EXCEPT ![d] = n]
  OBVIOUS
<1>2. /\ pr \in [Devices -> Ports \cup {NoPort}]
      /\ \A x \in Devices \ {d} : pr[x] = peer[x]
  BY <1>1 DEF TopologyInv, TopologyType
<1>3. Rewire(pr, signaling, powered) /\ life' = life
  BY <1>1 DEF DoAttach
<1>4. TopologyType' /\ peer' = pr
  BY <1>2, <1>3, RewireTypes DEF TopologyInv, TopologyType
<1> QED
  BY <1>2, <1>3, <1>4 DEF TopologyInv, OutsideDetached, Found

\* virtusb_device_set_connection_signaling.
LEMMA ConnectDevice ==
    ASSUME TopologyInv, NEW d \in Devices, NEW b \in BOOLEAN, DoConnection(d, b)
    PROVE  TopologyInv' /\ life' = life
<1>1. PICK sig : sig = IF b THEN signaling \cup {d} ELSE signaling \ {d}
  OBVIOUS
<1>2. sig \subseteq Devices
  BY <1>1 DEF TopologyInv, TopologyType
<1>3. Rewire(peer, sig, powered) /\ life' = life
  BY <1>1 DEF DoConnection
<1>4. TopologyType' /\ peer' = peer
  BY <1>2, <1>3, RewireTypes DEF TopologyInv, TopologyType
<1> QED
  BY <1>3, <1>4 DEF TopologyInv, OutsideDetached

\* virtusb_device_detach.
LEMMA DetachDevice ==
    ASSUME TopologyInv, NEW d \in Devices, DoDetach(d)
    PROVE  TopologyInv' /\ life' = life
<1>1. PICK pr : pr = [peer EXCEPT ![d] = NoPort]
  OBVIOUS
<1>2. /\ pr \in [Devices -> Ports \cup {NoPort}] /\ pr[d] = NoPort
      /\ \A x \in Devices \ {d} : pr[x] = peer[x]
  BY <1>1 DEF TopologyInv, TopologyType
<1>3. Rewire(pr, signaling, powered) /\ life' = life
  BY <1>1 DEF DoDetach
<1>4. TopologyType' /\ peer' = pr
  BY <1>2, <1>3, RewireTypes DEF TopologyInv, TopologyType
<1> QED
  BY <1>2, <1>3, <1>4 DEF TopologyInv, OutsideDetached

\* virtusb_device_destroy detaches the device first.
LEMMA DestroyDevice ==
    ASSUME TopologyInv, NEW d \in Devices, DoDestroy(d)
    PROVE  /\ TopologyInv' /\ life'[d] = "destroyed"
           /\ \A x \in Devices \ {d} : life'[x] = life[x]
<1>1. PICK pr : pr = [peer EXCEPT ![d] = NoPort]
  OBVIOUS
<1>2. /\ pr \in [Devices -> Ports \cup {NoPort}] /\ pr[d] = NoPort
      /\ \A x \in Devices \ {d} : pr[x] = peer[x]
  BY <1>1 DEF TopologyInv, TopologyType
<1>3. PICK sig : sig = IF peer[d] = NoPort THEN signaling ELSE signaling \ {d}
  OBVIOUS
<1>4. sig \subseteq Devices
  BY <1>3 DEF TopologyInv, TopologyType
<1>5. Rewire(pr, sig, powered) /\ life' = [life EXCEPT ![d] = "destroyed"]
  BY <1>1, <1>3 DEF DoDestroy
<1>6. /\ life' \in [Devices -> {"new", "registered", "destroyed"}]
      /\ life'[d] = "destroyed" /\ \A x \in Devices \ {d} : life'[x] = life[x]
  BY <1>5 DEF TopologyInv, TopologyType
<1>7. TopologyType' /\ peer' = pr
  BY <1>2, <1>4, <1>5, <1>6, RewireTypes DEF TopologyInv, TopologyType
<1> QED
  BY <1>2, <1>6, <1>7 DEF TopologyInv, OutsideDetached

-----------------------------------------------------------------------------
(* The programs.                                                           *)

ProcType ==
    /\ pc \in [Procs -> Pcs]
    /\ did \in [Procs -> SUBSET {"created", "attached", "registered", "connected",
                                 "configured"}]
    /\ cur \in [Procs -> Urbs \cup {NoUrb}] /\ stop \subseteq Procs
    /\ bound \subseteq Procs

WorldType == program \in Programs /\ known \subseteq Ports /\ commands \in 0..MaxCommands

\* The invariant, part by part.
LEMMA Parts ==
    SessionInv <=> /\ UrbInv /\ TopologyInv /\ ProcType /\ WorldType
                   /\ Served /\ BoundOpen /\ WillDestroy
BY DEF SessionInv, TypeOK, UrbInv, UrbType, Places, TopologyInv, TopologyType, ProcType,
       WorldType

\* The same after a step.
LEMMA PartsAfter ==
    SessionInv' <=> /\ UrbInv' /\ TopologyInv' /\ ProcType' /\ WorldType'
                    /\ Served' /\ BoundOpen' /\ WillDestroy'
BY Parts, PTL

\* The other processes are where they were.
Others(p) ==
    \A q \in Procs \ {p} : pc'[q] = pc[q] /\ did'[q] = did[q] /\ cur'[q] = cur[q]

\* A step of a program that has no request at hand and releases none.
LEMMA IdleServed ==
    ASSUME Served, ProcType, NEW p \in Procs, Others(p),
           pc[p] \notin {"handle", "back"}, UNCHANGED urb, bound \subseteq bound'
    PROVE  Served'
<1> SUFFICES ASSUME NEW u \in Urbs
             PROVE  /\ urb[u].at \in {"pending", "active"} => urb[u].dev \in bound'
                    /\ urb[u].at = "active" =>
                          pc'[urb[u].dev] \in {"handle", "back"} /\ cur'[urb[u].dev] = u
  BY DEF Served
<1>1. urb[u].at \in {"pending", "active"} => urb[u].dev \in bound
  BY DEF Served
<1>2. ASSUME urb[u].at = "active"
      PROVE  pc'[urb[u].dev] \in {"handle", "back"} /\ cur'[urb[u].dev] = u
  <2>1. pc[urb[u].dev] \in {"handle", "back"} /\ cur[urb[u].dev] = u /\ urb[u].dev \in Procs
    BY <1>1, <1>2 DEF Served, ProcType
  <2> QED
    BY <2>1 DEF Others
<1> QED
  BY <1>1, <1>2

\* A step that leaves the program's device where it is, or takes it out of the
\* registry, and in which the program only moves.
LEMMA StaysRecorded ==
    ASSUME WillDestroy, NEW p \in Procs, Others(p),
           \A q \in Procs \ {p} : life'[q] = "registered" => life[q] = "registered",
           life'[p] = "registered" =>
               "created" \in did'[p] /\ pc'[p] \notin {"open", "create", "close", "done"}
    PROVE  WillDestroy'
<1> SUFFICES ASSUME NEW q \in Procs, life'[q] = "registered"
             PROVE  "created" \in did'[q] /\ pc'[q] \notin {"open", "create", "close", "done"}
  BY DEF WillDestroy
<1>1. CASE q = p
  BY <1>1
<1>2. CASE q # p
  BY <1>2 DEF WillDestroy, Others
<1> QED
  BY <1>1, <1>2

\* A file stays bound only while its program has it open.
LEMMA StaysOpen ==
    ASSUME BoundOpen, ProcType, NEW p \in Procs, Others(p), bound' \subseteq bound \cup {p},
           p \in bound' => pc'[p] \notin {"open", "done", "killed"}
    PROVE  BoundOpen'
<1> SUFFICES ASSUME NEW q \in bound' PROVE pc'[q] \notin {"open", "done", "killed"}
  BY DEF BoundOpen
<1>1. CASE q = p
  BY <1>1
<1>2. CASE q # p
  BY <1>2 DEF BoundOpen, Others, ProcType
<1> QED
  BY <1>1, <1>2

\* A program goes on, and what its variables record stays.
LEMMA AdvanceMoves ==
    ASSUME ProcType, NEW p \in Procs, NEW x \in Pcs, Advance(p, x), bound' \subseteq Procs
    PROVE  ProcType' /\ Others(p) /\ pc'[p] = x /\ did'[p] = did[p]
BY DEF ProcType, Advance, Goto, Others

\* A program goes on and records what it has done.
LEMMA SucceedMoves ==
    ASSUME ProcType, NEW p \in Procs, NEW x \in Pcs, bound' \subseteq Procs,
           NEW f \in {"created", "attached", "registered", "connected", "configured"},
           Succeed(p, f, x)
    PROVE  ProcType' /\ Others(p) /\ pc'[p] = x /\ did'[p] = did[p] \cup {f}
<1>1. /\ did' = [did EXCEPT ![p] = did[p] \cup {f}] /\ pc' = [pc EXCEPT ![p] = x]
      /\ cur' = cur /\ stop' = stop
  BY DEF Succeed, Goto, Record
<1>2. did[p] \cup {f} \in SUBSET {"created", "attached", "registered", "connected",
                                  "configured"}
  BY DEF ProcType
<1>3. did' \in [Procs -> SUBSET {"created", "attached", "registered", "connected",
                                 "configured"}]
  BY <1>1, <1>2 DEF ProcType
<1>4. pc' \in [Procs -> Pcs] /\ pc'[p] = x /\ did'[p] = did[p] \cup {f}
  BY <1>1 DEF ProcType
<1>5. Others(p)
  BY <1>1 DEF ProcType, Others
<1> QED
  BY <1>1, <1>3, <1>4, <1>5 DEF ProcType

\* A step of a program that has no request at hand and leaves the queues alone.
LEMMA SetupKeeps ==
    ASSUME SessionInv, NEW p \in Procs, Others(p), pc[p] \notin {"handle", "back"},
           UNCHANGED <<urbVars, worldVars>>, ProcType', TopologyInv',
           bound \subseteq bound', bound' \subseteq bound \cup {p},
           p \in bound' => pc'[p] \notin {"open", "done", "killed"},
           \A q \in Procs \ {p} : life'[q] = "registered" => life[q] = "registered",
           life'[p] = "registered" =>
               "created" \in did'[p] /\ pc'[p] \notin {"open", "create", "close", "done"}
    PROVE  SessionInv'
<1>1. UrbInv' /\ UNCHANGED urb
  BY Parts, QueuesUnchanged DEF urbVars
<1>2. WorldType'
  BY Parts DEF WorldType, worldVars
<1>3. Served'
  BY <1>1, Parts, IdleServed
<1>4. BoundOpen' /\ WillDestroy'
  BY Parts, StaysOpen, StaysRecorded
<1> QED
  BY <1>1, <1>2, <1>3, <1>4, PartsAfter

\* A step of a program in which a binding ends.
LEMMA ReleaseStep ==
    ASSUME SessionInv, NEW p \in Procs, Others(p), ReleaseOwner(p), ProcType',
           UNCHANGED <<topologyVars, worldVars>>,
           life[p] = "registered" =>
               "created" \in did'[p] /\ pc'[p] \notin {"open", "create", "close", "done"}
    PROVE  SessionInv'
<1>1. /\ UrbInv'
      /\ \A u \in Urbs : urb'[u].at \in {"pending", "active"} =>
            urb'[u] = urb[u] /\ urb[u].dev # p
  BY Parts, ReleaseKeeps
<1>2. bound' = bound \ {p}
  BY DEF ReleaseOwner
<1>3. WorldType' /\ TopologyInv' /\ life' = life
  BY Parts, TopologyUnchanged DEF WorldType, worldVars
<1>4. Served'
  <2> SUFFICES ASSUME NEW u \in Urbs, urb'[u].at \in {"pending", "active"}
               PROVE  /\ urb'[u].dev \in bound'
                      /\ urb'[u].at = "active" =>
                            /\ pc'[urb'[u].dev] \in {"handle", "back"}
                            /\ cur'[urb'[u].dev] = u
    BY DEF Served
  <2>1. urb'[u] = urb[u] /\ urb[u].dev # p
    BY <1>1
  <2>2. urb[u].dev \in bound /\ urb[u].dev \in Procs \ {p}
    BY <2>1, Parts DEF Served, ProcType
  <2>3. urb[u].at = "active" => pc[urb[u].dev] \in {"handle", "back"} /\ cur[urb[u].dev] = u
    BY Parts DEF Served
  <2> QED
    BY <1>2, <2>1, <2>2, <2>3 DEF Others
<1>5. BoundOpen'
  BY <1>2, Parts, StaysOpen
<1>6. WillDestroy'
  BY <1>3, Parts, StaysRecorded
<1> QED
  BY <1>1, <1>3, <1>4, <1>5, <1>6, PartsAfter

\* virtusb_open.
LEMMA OpenKeeps ==
    ASSUME SessionInv, NEW p \in Procs, Open(p)
    PROVE  SessionInv'
<1>1. pc[p] = "open" /\ UNCHANGED <<topologyVars, bound, urbVars, worldVars>>
  BY DEF Open, At
<1>2. PICK x \in {"create", "done"} : Advance(p, x)
  BY DEF Open
<1>3. x \in Pcs
  BY DEF Pcs
<1>4. ProcType' /\ Others(p)
  BY <1>1, <1>2, <1>3, Parts, AdvanceMoves DEF ProcType
<1>5. TopologyInv' /\ life' = life
  BY <1>1, Parts, TopologyUnchanged
<1>6. p \notin bound /\ life[p] # "registered"
  BY <1>1, Parts DEF BoundOpen, WillDestroy
<1> QED
  BY <1>1, <1>4, <1>5, <1>6, SetupKeeps

\* virtusb_device_create: the program has recorded a device that it has created.
LEMMA CreateKeeps ==
    ASSUME SessionInv, NEW p \in Procs, Create(p)
    PROVE  SessionInv'
<1>1. pc[p] = "create" /\ UNCHANGED <<bound, urbVars, worldVars>>
  BY DEF Create, At
<1>2. bound' \subseteq Procs
  BY <1>1, Parts DEF ProcType
<1>3. p \in Devices /\ Procs \subseteq Devices /\ {"attach", "close"} \subseteq Pcs
  BY DEF Devices, Pcs
<1>4. CASE DoCreate(p) /\ Succeed(p, "created", "attach")
  <2>1. ProcType' /\ Others(p) /\ pc'[p] = "attach" /\ "created" \in did'[p]
    BY <1>2, <1>3, <1>4, Parts, SucceedMoves
  <2>2. TopologyInv' /\ \A x \in Devices \ {p} : life'[x] = life[x]
    BY <1>3, <1>4, Parts, CreateDevice
  <2> QED
    BY <1>1, <1>3, <2>1, <2>2, SetupKeeps
<1>5. CASE UNCHANGED topologyVars /\ Advance(p, "close")
  <2>1. ProcType' /\ Others(p) /\ pc'[p] = "close"
    BY <1>2, <1>3, <1>5, Parts, AdvanceMoves
  <2>2. TopologyInv' /\ life' = life /\ life[p] # "registered"
    BY <1>1, <1>5, Parts, TopologyUnchanged DEF WillDestroy
  <2> QED
    BY <1>1, <2>1, <2>2, SetupKeeps
<1> QED
  BY <1>4, <1>5 DEF Create

\* virtusb_device_attach.
LEMMA AttachKeeps ==
    ASSUME SessionInv, NEW p \in Procs, Attach(p)
    PROVE  SessionInv'
<1>1. pc[p] = "attach" /\ UNCHANGED <<bound, urbVars, worldVars>>
  BY DEF Attach, At
<1>2. bound' \subseteq Procs
  BY <1>1, Parts DEF ProcType
<1>3. p \in Devices /\ PortOf[p] \in Ports /\ {"register", "disconnect"} \subseteq Pcs
  BY SessionAssumption DEF Devices, Pcs, OutSteps
<1>4. life[p] = "registered" => "created" \in did[p]
  BY Parts DEF WillDestroy
<1>5. CASE MayAttach(p, PortOf[p])
  <2>1. DoAttach(p, PortOf[p]) /\ Succeed(p, "attached", "register") /\ Found(p)
    BY <1>5 DEF Attach, MayAttach
  <2>2. ProcType' /\ Others(p) /\ pc'[p] = "register" /\ did[p] \subseteq did'[p]
    BY <1>2, <1>3, <2>1, Parts, SucceedMoves
  <2>3. TopologyInv' /\ life' = life
    BY <1>3, <2>1, Parts, AttachDevice
  <2> QED
    BY <1>1, <1>4, <2>2, <2>3, SetupKeeps
<1>6. CASE ~MayAttach(p, PortOf[p])
  <2>1. UNCHANGED topologyVars /\ Advance(p, "disconnect")
    BY <1>6 DEF Attach, Fail, Advance
  <2>2. ProcType' /\ Others(p) /\ pc'[p] = "disconnect" /\ did'[p] = did[p]
    BY <1>2, <1>3, <2>1, Parts, AdvanceMoves
  <2>3. TopologyInv' /\ life' = life
    BY <2>1, Parts, TopologyUnchanged
  <2> QED
    BY <1>1, <1>4, <2>2, <2>3, SetupKeeps
<1> QED
  BY <1>5, <1>6

\* virtusb_backend_register.
LEMMA RegisterKeeps ==
    ASSUME SessionInv, NEW p \in Procs, Register(p)
    PROVE  SessionInv'
<1>1. pc[p] \in {"register", "rebind"} /\ UNCHANGED <<topologyVars, urbVars, worldVars>>
  BY DEF Register
<1>2. TopologyInv' /\ life' = life
  BY <1>1, Parts, TopologyUnchanged
<1>3. {"verify3", "connect", "disconnect"} \subseteq Pcs
  BY DEF Pcs, OutSteps
<1>4. life[p] = "registered" => "created" \in did[p]
  BY Parts DEF WillDestroy
<1>5. CASE MayRegister(p)
  <2>1. PICK x \in {"verify3", "connect"} : Succeed(p, "registered", x)
    BY <1>5 DEF Register
  <2>2. bound' = bound \cup {p} /\ bound' \subseteq Procs
    BY <1>5, Parts DEF Register, ProcType
  <2>3. ProcType' /\ Others(p) /\ pc'[p] = x /\ did[p] \subseteq did'[p]
    BY <1>3, <2>1, <2>2, Parts, SucceedMoves
  <2> QED
    BY <1>1, <1>2, <1>4, <2>1, <2>2, <2>3, SetupKeeps
<1>6. CASE ~MayRegister(p)
  <2>1. bound' = bound /\ Advance(p, "disconnect")
    BY <1>6 DEF Register, Fail, Advance
  <2>2. bound' \subseteq Procs
    BY <2>1, Parts DEF ProcType
  <2>3. ProcType' /\ Others(p) /\ pc'[p] = "disconnect" /\ did'[p] = did[p]
    BY <1>3, <2>1, <2>2, Parts, AdvanceMoves
  <2> QED
    BY <1>1, <1>2, <1>4, <2>1, <2>3, SetupKeeps
<1> QED
  BY <1>5, <1>6

\* virtusb_device_connect.
LEMMA ConnectKeeps ==
    ASSUME SessionInv, NEW p \in Procs, Connect(p)
    PROVE  SessionInv'
<1>1. pc[p] = "connect" /\ UNCHANGED <<bound, urbVars, worldVars>>
  BY DEF Connect, At
<1>2. bound' \subseteq Procs
  BY <1>1, Parts DEF ProcType
<1>3. p \in Devices /\ {"fault", "check", "disconnect"} \subseteq Pcs
  BY DEF Devices, Pcs, OutSteps
<1>4. life[p] = "registered" => "created" \in did[p]
  BY Parts DEF WillDestroy
<1>5. CASE Found(p)
  <2>1. PICK x \in {"fault", "check"} : Succeed(p, "connected", x)
    BY <1>5 DEF Connect
  <2>2. PICK b \in BOOLEAN : DoConnection(p, b)
    BY <1>5, Zenon DEF Connect
  <2>3. ProcType' /\ Others(p) /\ pc'[p] = x /\ did[p] \subseteq did'[p]
    BY <1>2, <1>3, <2>1, Parts, SucceedMoves
  <2>4. TopologyInv' /\ life' = life
    BY <1>3, <2>2, Parts, ConnectDevice
  <2> QED
    BY <1>1, <1>4, <2>1, <2>3, <2>4, SetupKeeps
<1>6. CASE ~Found(p)
  <2>1. UNCHANGED topologyVars /\ Advance(p, "disconnect")
    BY <1>6 DEF Connect, Fail, Advance
  <2>2. ProcType' /\ Others(p) /\ pc'[p] = "disconnect" /\ did'[p] = did[p]
    BY <1>2, <1>3, <2>1, Parts, AdvanceMoves
  <2>3. TopologyInv' /\ life' = life
    BY <2>1, Parts, TopologyUnchanged
  <2> QED
    BY <1>1, <1>4, <2>2, <2>3, SetupKeeps
<1> QED
  BY <1>5, <1>6

\* A program that looks at something and goes on: the head of the loop and the
\* checks of virtusb-test-backend-unregister.
LEMMA LookKeeps ==
    ASSUME SessionInv, NEW p \in Procs, pc[p] \in {"check", "verify1", "verify2", "verify3"},
           NEW x \in {"call", "verify1", "disconnect", "unbind", "rebind"}, Advance(p, x),
           UNCHANGED <<topologyVars, bound, urbVars, worldVars>>
    PROVE  SessionInv'
<1>1. x \in Pcs
  BY DEF Pcs, OutSteps
<1>2. ProcType' /\ Others(p) /\ pc'[p] = x /\ did'[p] = did[p]
  BY <1>1, Parts, AdvanceMoves DEF ProcType
<1>3. TopologyInv' /\ life' = life
  BY Parts, TopologyUnchanged
<1>4. life[p] = "registered" => "created" \in did[p]
  BY Parts DEF WillDestroy
<1> QED
  BY <1>2, <1>3, <1>4, SetupKeeps

\* The head of the loop.
LEMMA CheckKeeps ==
    ASSUME SessionInv, NEW p \in Procs, Check(p)
    PROVE  SessionInv'
<1>1. pc[p] = "check" /\ UNCHANGED <<topologyVars, bound, urbVars, worldVars>>
  BY DEF Check, At
<1>2. PICK x \in {"call", "verify1", "disconnect", "unbind", "rebind"} : Advance(p, x)
  BY Zenon DEF Check
<1> QED
  BY <1>1, <1>2, LookKeeps

\* verify_port.
LEMMA VerifyKeeps ==
    ASSUME SessionInv, NEW p \in Procs, Verify(p)
    PROVE  SessionInv'
<1>1. /\ pc[p] \in {"verify1", "verify2", "verify3"}
      /\ UNCHANGED <<topologyVars, bound, urbVars, worldVars>>
  BY DEF Verify
<1>2. PICK x \in {"call", "verify1", "disconnect", "unbind", "rebind"} : Advance(p, x)
  <2>1. At(p, "verify1") \/ At(p, "verify2") \/ At(p, "verify3")
    BY <1>1 DEF At
  <2>2. DEFINE y == CASE At(p, "verify1") -> "unbind"
                      [] At(p, "verify2") -> "rebind"
                      [] At(p, "verify3") -> "disconnect"
  <2>3. y \in {"unbind", "rebind", "disconnect"}
    BY <2>1, Zenon
  <2>4. Advance(p, y) \/ Fail(p)
    BY DEF Verify
  <2>5. Fail(p) => Advance(p, "disconnect")
    BY DEF Fail, Advance
  <2> HIDE DEF y
  <2> QED
    BY <2>3, <2>4, <2>5
<1> QED
  BY <1>1, <1>2, LookKeeps

\* A program that takes a request has it at hand.
LEMMA TakeStep ==
    ASSUME SessionInv, NEW p \in Procs, pc[p] \in {"call", "wait", "fault"},
           NEW x \in {"handle", "back"}, TakeFirst(p), Goto(p, x),
           UNCHANGED <<did, stop, topologyVars, bound, worldVars>>
    PROVE  SessionInv'
<1>1. UrbInv'
  BY Parts, TakeKeeps
<1>2. PICK w \in Urbs :
          /\ urb[w].at = "pending" /\ urb[w].dev = p
          /\ urb'[w].at = "active" /\ urb'[w].dev = p
          /\ \A v \in Urbs \ {w} : urb'[v] = urb[v]
          /\ cur' = [cur EXCEPT ![p] = w]
  BY Parts, TakeKeeps
<1>3. x \in Pcs
  BY DEF Pcs
<1>4. ProcType' /\ Others(p) /\ pc'[p] = x /\ did'[p] = did[p] /\ cur'[p] = w
  BY <1>2, <1>3, Parts DEF ProcType, Goto, Others
<1>5. TopologyInv' /\ life' = life /\ WorldType'
  BY Parts, TopologyUnchanged DEF WorldType, worldVars
<1>6. Served'
  <2> SUFFICES ASSUME NEW u \in Urbs
               PROVE  /\ urb'[u].at \in {"pending", "active"} => urb'[u].dev \in bound
                      /\ urb'[u].at = "active" =>
                            /\ pc'[urb'[u].dev] \in {"handle", "back"}
                            /\ cur'[urb'[u].dev] = u
    BY DEF Served
  <2>1. CASE u = w
    BY <1>2, <1>4, <2>1, Parts DEF Served
  <2>2. CASE u # w
    <3>1. urb'[u] = urb[u]
      BY <1>2, <2>2
    <3>2. urb[u].at \in {"pending", "active"} => urb[u].dev \in bound /\ urb[u].dev \in Procs
      BY Parts DEF Served, ProcType
    <3>3. urb[u].at = "active" =>
              pc[urb[u].dev] \in {"handle", "back"} /\ cur[urb[u].dev] = u
      BY Parts DEF Served
    <3> QED
      BY <1>4, <3>1, <3>2, <3>3 DEF Others
  <2> QED
    BY <2>1, <2>2
<1>7. BoundOpen'
  BY <1>4, Parts, StaysOpen
<1>8. WillDestroy'
  <2>1. life[p] = "registered" => "created" \in did[p]
    BY Parts DEF WillDestroy
  <2> QED
    BY <1>4, <1>5, <2>1, Parts, StaysRecorded
<1> QED
  BY <1>1, <1>4, <1>5, <1>6, <1>7, <1>8, PartsAfter

\* VIRTUSB_IOCTL_TRANSFER_FETCH.
LEMMA FetchKeeps ==
    ASSUME SessionInv, NEW p \in Procs, Fetch(p)
    PROVE  SessionInv'
<1>1. UNCHANGED <<did, stop, topologyVars, bound, worldVars>>
  BY DEF Fetch
<1>2. CASE pc[p] \in {"call", "wait"} /\ TakeFirst(p) /\ Goto(p, "handle")
  BY <1>1, <1>2, TakeStep
<1>3. CASE At(p, "call") /\ Goto(p, "wait") /\ UNCHANGED <<cur, urbVars>>
  <2>1. Advance(p, "wait") /\ pc[p] = "call" /\ "wait" \in Pcs
    BY <1>1, <1>3 DEF Advance, At, Pcs
  <2>2. ProcType' /\ Others(p) /\ pc'[p] = "wait" /\ did'[p] = did[p]
    BY <1>1, <2>1, Parts, AdvanceMoves DEF ProcType
  <2>3. TopologyInv' /\ life' = life
    BY <1>1, Parts, TopologyUnchanged
  <2>4. life[p] = "registered" => "created" \in did[p]
    BY Parts DEF WillDestroy
  <2> QED
    BY <1>1, <1>3, <2>1, <2>2, <2>3, <2>4, SetupKeeps
<1> QED
  BY <1>2, <1>3 DEF Fetch

\* The fetch that faults takes its request first.
LEMMA FaultKeeps ==
    ASSUME SessionInv, NEW p \in Procs, Fault(p)
    PROVE  SessionInv'
BY TakeStep DEF Fault, At

\* A program is done with the request that it has fetched.
LEMMA DoneStep ==
    ASSUME SessionInv, NEW p \in Procs, pc[p] \in {"handle", "back"},
           UrbInv', ProcType', Others(p), UNCHANGED <<topologyVars, bound, worldVars>>,
           pc'[p] \in {"check", "disconnect", "call"}, did[p] \subseteq did'[p],
           \A u \in Urbs : urb'[u].at = "active" => urb'[u] = urb[u] /\ urb[u].dev # p,
           \A u \in Urbs : urb'[u].at = "pending" =>
               urb'[u].dev = urb[u].dev /\ urb[u].at \in {"pending", "active"}
    PROVE  SessionInv'
<1>1. TopologyInv' /\ life' = life /\ WorldType'
  BY Parts, TopologyUnchanged DEF WorldType, worldVars
<1>2. Served'
  <2> SUFFICES ASSUME NEW u \in Urbs
               PROVE  /\ urb'[u].at \in {"pending", "active"} => urb'[u].dev \in bound
                      /\ urb'[u].at = "active" =>
                            /\ pc'[urb'[u].dev] \in {"handle", "back"}
                            /\ cur'[urb'[u].dev] = u
    BY DEF Served
  <2>1. CASE urb'[u].at = "active"
    <3>1. urb'[u] = urb[u] /\ urb[u].dev # p /\ urb[u].at = "active"
      BY <2>1
    <3>2. /\ urb[u].dev \in bound /\ urb[u].dev \in Procs
          /\ pc[urb[u].dev] \in {"handle", "back"} /\ cur[urb[u].dev] = u
      BY <3>1, Parts DEF Served, ProcType
    <3> QED
      BY <3>1, <3>2 DEF Others
  <2>2. CASE urb'[u].at = "pending"
    BY <2>2, Parts DEF Served
  <2> QED
    BY <2>1, <2>2
<1>3. BoundOpen'
  BY Parts, StaysOpen
<1>4. WillDestroy'
  <2>1. life[p] = "registered" => "created" \in did[p]
    BY Parts DEF WillDestroy
  <2> QED
    BY <1>1, <2>1, Parts, StaysRecorded
<1> QED
  BY <1>1, <1>2, <1>3, <1>4, PartsAfter

\* What a program has at hand, if the host has not taken it back.
LEMMA AtHand ==
    ASSUME SessionInv, NEW p \in Procs
    PROVE  Holds(p) => cur[p] \in Urbs
BY Parts DEF ProcType, Holds

\* The request is completed, or its completion fails.
LEMMA HandleKeeps ==
    ASSUME SessionInv, NEW p \in Procs, Handle(p)
    PROVE  SessionInv'
<1>1. /\ pc[p] = "handle" /\ cur' = [cur EXCEPT ![p] = NoUrb] /\ stop' = stop
      /\ UNCHANGED <<topologyVars, bound, worldVars>>
  BY DEF Handle, At
<1>2. PICK x \in {"check", "disconnect"} : Goto(p, x)
  BY DEF Handle
<1>3. did' = did \/ Record(p, "configured")
  BY DEF Handle
<1>4. /\ did[p] \subseteq did'[p] /\ \A q \in Procs \ {p} : did'[q] = did[q]
      /\ did' \in [Procs -> SUBSET {"created", "attached", "registered", "connected",
                                    "configured"}]
  <2>1. did[p] \cup {"configured"} \in
            SUBSET {"created", "attached", "registered", "connected", "configured"}
    BY Parts DEF ProcType
  <2>2. CASE did' = did
    BY <2>2, Parts DEF ProcType
  <2>3. CASE Record(p, "configured")
    <3>1. did' = [did EXCEPT ![p] = did[p] \cup {"configured"}]
      BY <2>3 DEF Record
    <3> QED
      BY <2>1, <3>1, Parts DEF ProcType
  <2> QED
    BY <1>3, <2>2, <2>3
<1>5. /\ pc' = [pc EXCEPT ![p] = x] /\ x \in Pcs
      /\ pc \in [Procs -> Pcs] /\ cur \in [Procs -> Urbs \cup {NoUrb}]
      /\ stop \subseteq Procs /\ bound \subseteq Procs
  BY <1>2, Parts DEF Goto, Pcs, OutSteps, ProcType
<1>6. ProcType' /\ Others(p) /\ pc'[p] = x
  BY <1>1, <1>4, <1>5 DEF ProcType, Others
<1>7. /\ UrbInv'
      /\ \A u \in Urbs : urb'[u].at = "active" => urb'[u] = urb[u] /\ urb[u].dev # p
      /\ \A u \in Urbs : urb'[u].at = "pending" => urb'[u] = urb[u]
  <2>1. CASE Holds(p)
    <3>1. PICK us : us = {cur[p]}
      OBVIOUS
    <3>2. Return(us)
      BY <2>1, <3>1 DEF Handle, Complete
    <3>3. UrbInv' /\ \A u \in Urbs : urb'[u] = IF u \in us THEN AtHost ELSE urb[u]
      BY <3>2, Parts, ReturnKeeps
    <3>4. AtHost.at = "host"
      BY DEF AtHost
    <3>5. \A u \in Urbs : urb[u].at = "active" /\ urb[u].dev = p => u \in us
      BY <3>1, Parts DEF Served
    <3> QED
      BY <3>3, <3>4, <3>5
  <2>2. CASE ~Holds(p)
    <3>1. UNCHANGED urbVars
      BY <2>2 DEF Handle, Complete
    <3>2. UrbInv' /\ urb' = urb
      BY <3>1, Parts, QueuesUnchanged DEF urbVars
    <3>3. \A u \in Urbs : urb[u].at = "active" => urb[u].dev # p
      BY <2>2, SessionAssumption, Parts DEF Holds, Served
    <3> QED
      BY <3>2, <3>3
  <2> QED
    BY <2>1, <2>2
<1> QED
  BY <1>1, <1>4, <1>6, <1>7, DoneStep

\* The request is put back, or is gone.
LEMMA RollbackKeeps ==
    ASSUME SessionInv, NEW p \in Procs, Rollback(p)
    PROVE  SessionInv'
<1>1. /\ pc[p] = "back" /\ cur' = [cur EXCEPT ![p] = NoUrb]
      /\ pc' = [pc EXCEPT ![p] = "call"]
      /\ UNCHANGED <<did, stop, submitted, topologyVars, bound, worldVars>>
  BY DEF Rollback, At, Goto
<1>2. "call" \in Pcs
  BY DEF Pcs
<1>3. ProcType' /\ Others(p) /\ pc'[p] = "call" /\ did' = did
  BY <1>1, <1>2, Parts DEF ProcType, Others
<1>4. /\ UrbInv'
      /\ \A u \in Urbs : urb'[u].at = "active" => urb'[u] = urb[u] /\ urb[u].dev # p
      /\ \A u \in Urbs : urb'[u].at = "pending" =>
            urb'[u].dev = urb[u].dev /\ urb[u].at \in {"pending", "active"}
  <2>1. CASE Holds(p)
    <3>1. PICK w : w = cur[p]
      OBVIOUS
    <3>2. w \in Urbs /\ urb[w].at = "active"
      BY <2>1, <3>1, AtHand DEF Holds
    <3>3. urb' = [urb EXCEPT ![w].at = "pending"] /\ pending' = <<w>> \o pending
      BY <2>1, <3>1 DEF Rollback
    <3>4. /\ UrbInv' /\ urb'[w].at = "pending" /\ urb'[w].dev = urb[w].dev
          /\ \A v \in Urbs \ {w} : urb'[v] = urb[v]
      BY <1>1, <2>1, <3>1, <3>2, <3>3, Parts, BackKeeps
    <3>5. \A u \in Urbs : urb[u].at = "active" /\ urb[u].dev = p => u = w
      BY <3>1, Parts DEF Served
    <3> QED
      BY <3>2, <3>4, <3>5
  <2>2. CASE ~Holds(p)
    <3>1. UNCHANGED urbVars
      BY <1>1, <2>2 DEF Rollback, urbVars
    <3>2. UrbInv' /\ urb' = urb
      BY <3>1, Parts, QueuesUnchanged DEF urbVars
    <3>3. \A u \in Urbs : urb[u].at = "active" => urb[u].dev # p
      BY <2>2, SessionAssumption, Parts DEF Holds, Served
    <3> QED
      BY <3>2, <3>3
  <2> QED
    BY <2>1, <2>2
<1> QED
  BY <1>1, <1>3, <1>4, DoneStep

\* virtusb_backend_unregister in virtusb-test-backend-unregister.
LEMMA UnbindKeeps ==
    ASSUME SessionInv, NEW p \in Procs, Unbind(p)
    PROVE  SessionInv'
<1>1. /\ pc[p] = "unbind" /\ ReleaseOwner(p) /\ pc' = [pc EXCEPT ![p] = "verify2"]
      /\ did' = [did EXCEPT ![p] = did[p] \ {"registered"}]
      /\ UNCHANGED <<cur, stop, topologyVars, worldVars>>
  BY DEF Unbind, At, Goto
<1>2. "verify2" \in Pcs /\ bound' = bound \ {p}
  BY <1>1 DEF Pcs, ReleaseOwner
<1>3. did[p] \ {"registered"} \in
          SUBSET {"created", "attached", "registered", "connected", "configured"}
  BY Parts DEF ProcType
<1>4. /\ pc \in [Procs -> Pcs] /\ cur' \in [Procs -> Urbs \cup {NoUrb}]
      /\ did \in [Procs -> SUBSET {"created", "attached", "registered", "connected",
                                   "configured"}]
      /\ stop' \subseteq Procs /\ bound' \subseteq Procs
  BY <1>1, <1>2, Parts DEF ProcType
<1>5. did' \in [Procs -> SUBSET {"created", "attached", "registered", "connected",
                                 "configured"}]
  BY <1>1, <1>3, <1>4
<1>6. ProcType' /\ Others(p) /\ pc'[p] = "verify2" /\ did'[p] = did[p] \ {"registered"}
  BY <1>1, <1>2, <1>4, <1>5 DEF ProcType, Others
<1>7. life[p] = "registered" => "created" \in did[p]
  BY Parts DEF WillDestroy
<1> QED
  BY <1>1, <1>6, <1>7, ReleaseStep

\* Every program destroys a device that it has recorded.
LEMMA UndoesCreated ==
    ASSUME WorldType, NEW p \in Procs, "created" \in did[p]
    PROVE  Undoes(p, "created")
<1>1. program[p] \in {"device", "unregister", "rollback"}
  BY SessionAssumption DEF WorldType
<1>2. "created" # "registered" /\ "device" # "unregister" /\ "device" # "rollback"
      /\ "unregister" # "rollback"
  OBVIOUS
<1>3. program[p] = "device" \/ program[p] = "unregister" \/ program[p] = "rollback"
  BY <1>1
<1> QED
  BY <1>2, <1>3, Zenon DEF Undoes

\* The label out, call by call.
LEMMA OutKeeps ==
    ASSUME SessionInv, NEW p \in Procs, Out(p)
    PROVE  SessionInv'
<1>1. UNCHANGED worldVars
  BY DEF Out
<1>2. /\ p \in Devices /\ Procs \subseteq Devices
      /\ {"detach", "unregister", "destroy", "close"} \subseteq Pcs
  BY DEF Devices, Pcs, OutSteps
<1>3. bound \subseteq Procs
  BY Parts DEF ProcType
<1>4. life[p] = "registered" => "created" \in did[p]
  BY Parts DEF WillDestroy
<1>5. CASE /\ At(p, "disconnect") /\ Advance(p, "detach")
           /\ IF Undoes(p, "connected") /\ Found(p) THEN DoConnection(p, FALSE)
              ELSE UNCHANGED topologyVars
           /\ UNCHANGED <<bound, urbVars>>
  <2>1. pc[p] = "disconnect" /\ bound' = bound
    BY <1>5, Zenon DEF At
  <2>2. ProcType' /\ Others(p) /\ pc'[p] = "detach" /\ did'[p] = did[p]
    BY <1>2, <1>3, <1>5, <2>1, Parts, AdvanceMoves
  <2>3. TopologyInv' /\ life' = life
    <3>1. (\E b \in BOOLEAN : DoConnection(p, b)) \/ UNCHANGED topologyVars
      BY <1>5, Zenon
    <3> QED
      BY <1>2, <3>1, Parts, ConnectDevice, TopologyUnchanged
  <2> QED
    BY <1>1, <1>4, <1>5, <2>1, <2>2, <2>3, SetupKeeps
<1>6. CASE /\ At(p, "detach") /\ Advance(p, "unregister")
           /\ IF Undoes(p, "attached") /\ Found(p) THEN DoDetach(p)
              ELSE UNCHANGED topologyVars
           /\ UNCHANGED <<bound, urbVars>>
  <2>1. pc[p] = "detach" /\ bound' = bound
    BY <1>6, Zenon DEF At
  <2>2. ProcType' /\ Others(p) /\ pc'[p] = "unregister" /\ did'[p] = did[p]
    BY <1>2, <1>3, <1>6, <2>1, Parts, AdvanceMoves
  <2>3. TopologyInv' /\ life' = life
    BY <1>2, <1>6, Parts, DetachDevice, TopologyUnchanged
  <2> QED
    BY <1>1, <1>4, <1>6, <2>1, <2>2, <2>3, SetupKeeps
<1>7. CASE /\ At(p, "unregister") /\ Advance(p, "destroy")
           /\ IF Undoes(p, "registered") THEN ReleaseOwner(p)
              ELSE UNCHANGED <<bound, urbVars>>
           /\ UNCHANGED topologyVars
  <2>1. pc[p] = "unregister" /\ bound' \subseteq bound
    BY <1>7 DEF At, ReleaseOwner
  <2>2. ProcType' /\ Others(p) /\ pc'[p] = "destroy" /\ did'[p] = did[p]
    BY <1>2, <1>3, <1>7, <2>1, Parts, AdvanceMoves
  <2>3. TopologyInv' /\ life' = life
    BY <1>7, Parts, TopologyUnchanged
  <2>4. CASE ReleaseOwner(p)
    BY <1>1, <1>4, <1>7, <2>2, <2>4, ReleaseStep
  <2>5. CASE UNCHANGED <<bound, urbVars>>
    BY <1>1, <1>4, <2>1, <2>2, <2>3, <2>5, SetupKeeps
  <2> QED
    BY <1>7, <2>4, <2>5
<1>8. CASE /\ At(p, "destroy") /\ Advance(p, "close")
           /\ IF Undoes(p, "created") /\ Found(p) THEN DoDestroy(p)
              ELSE UNCHANGED topologyVars
           /\ UNCHANGED <<bound, urbVars>>
  <2>1. pc[p] = "destroy" /\ bound' = bound
    BY <1>8, Zenon DEF At
  <2>2. ProcType' /\ Others(p) /\ pc'[p] = "close"
    BY <1>2, <1>3, <1>8, <2>1, Parts, AdvanceMoves
  <2>3. /\ TopologyInv' /\ life'[p] # "registered"
        /\ \A q \in Procs \ {p} : life'[q] = life[q]
    <3>1. CASE Found(p)
      <4>1. DoDestroy(p)
        BY <1>4, <1>8, <3>1, Parts, UndoesCreated DEF Found
      <4> QED
        BY <1>2, <4>1, Parts, DestroyDevice
    <3>2. CASE ~Found(p)
      BY <1>8, <3>2, Parts, TopologyUnchanged DEF Found
    <3> QED
      BY <3>1, <3>2
  <2> QED
    BY <1>1, <1>8, <2>1, <2>2, <2>3, SetupKeeps
<1> QED
  BY <1>5, <1>6, <1>7, <1>8 DEF Out

\* virtusb_close releases the file.
LEMMA CloseKeeps ==
    ASSUME SessionInv, NEW p \in Procs, Close(p)
    PROVE  SessionInv'
<1>1. /\ pc[p] = "close" /\ ReleaseOwner(p) /\ Advance(p, "done") /\ "done" \in Pcs
      /\ UNCHANGED <<topologyVars, worldVars>>
  BY DEF Close, At, Pcs
<1>2. bound' \subseteq Procs
  BY <1>1, Parts DEF ReleaseOwner, ProcType
<1>3. ProcType' /\ Others(p)
  BY <1>1, <1>2, Parts, AdvanceMoves
<1>4. life[p] # "registered"
  BY <1>1, Parts DEF WillDestroy
<1> QED
  BY <1>1, <1>3, <1>4, ReleaseStep

\* The file of a process that is killed is released.
LEMMA KillKeeps ==
    ASSUME SessionInv, NEW p \in Procs, Kill(p)
    PROVE  SessionInv'
<1>1. /\ ReleaseOwner(p) /\ pc' = [pc EXCEPT ![p] = "killed"] /\ "killed" \in Pcs
      /\ cur' = [cur EXCEPT ![p] = NoUrb] /\ UNCHANGED <<did, stop, topologyVars, worldVars>>
      /\ bound' = bound \ {p}
  BY DEF Kill, Goto, Pcs, ReleaseOwner
<1>2. ProcType' /\ Others(p) /\ pc'[p] = "killed" /\ did'[p] = did[p]
  BY <1>1, Parts DEF ProcType, Others
<1>3. life[p] = "registered" => "created" \in did[p]
  BY Parts DEF WillDestroy
<1> QED
  BY <1>1, <1>2, <1>3, ReleaseStep

\* A signal takes a program out of its sleep and changes nothing else.
LEMMA SignalKeeps ==
    ASSUME SessionInv, NEW p \in Procs, Signal(p)
    PROVE  SessionInv'
<1>1. /\ stop' = stop \cup {p} /\ "check" \in Pcs
      /\ UNCHANGED <<did, cur, topologyVars, bound, urbVars, worldVars>>
  BY DEF Signal, Pcs
<1>2. TopologyInv' /\ life' = life
  BY <1>1, Parts, TopologyUnchanged
<1>3. CASE At(p, "wait")
  <2>1. pc[p] = "wait" /\ pc' = [pc EXCEPT ![p] = "check"]
    BY <1>3 DEF Signal, At, Goto
  <2>2. ProcType' /\ Others(p) /\ pc'[p] = "check" /\ did'[p] = did[p]
    BY <1>1, <2>1, Parts DEF ProcType, Others
  <2>3. life[p] = "registered" => "created" \in did[p]
    BY Parts DEF WillDestroy
  <2> QED
    BY <1>1, <1>2, <2>1, <2>2, <2>3, SetupKeeps
<1>4. CASE ~At(p, "wait")
  <2>1. pc' = pc
    BY <1>4 DEF Signal
  <2>2. ProcType' /\ WorldType'
    BY <1>1, <2>1, Parts DEF ProcType, WorldType, worldVars
  <2>3. UrbInv' /\ urb' = urb
    BY <1>1, Parts, QueuesUnchanged DEF urbVars
  <2>4. Served' /\ BoundOpen' /\ WillDestroy'
    BY <1>1, <1>2, <2>1, <2>3, Parts DEF Served, BoundOpen, WillDestroy
  <2> QED
    BY <1>2, <2>2, <2>3, <2>4, PartsAfter
<1> QED
  BY <1>3, <1>4

\* A program's step.
LEMMA ProcKeeps ==
    ASSUME SessionInv, NEW p \in Procs, ProcStep(p) \/ Signal(p) \/ Kill(p)
    PROVE  SessionInv'
BY OpenKeeps, CreateKeeps, AttachKeeps, RegisterKeeps, ConnectKeeps, CheckKeeps,
   FetchKeeps, HandleKeeps, FaultKeeps, RollbackKeeps, VerifyKeeps, UnbindKeeps, OutKeeps,
   CloseKeeps, SignalKeeps, KillKeeps DEF ProcStep

-----------------------------------------------------------------------------
(* virtusbctl and the host.                                                *)

\* A step of somebody else that leaves the programs and the queues alone and
\* puts no program's device into the registry.
LEMMA AsideKeeps ==
    ASSUME SessionInv, UNCHANGED <<program, procVars, bound, urbVars>>,
           commands' \in 0..MaxCommands, known' \subseteq Ports, TopologyInv',
           \A q \in Procs : life'[q] = "registered" => life[q] = "registered"
    PROVE  SessionInv'
<1>1. UrbInv' /\ urb' = urb
  BY Parts, QueuesUnchanged DEF urbVars
<1>2. pc' = pc /\ did' = did /\ cur' = cur /\ stop' = stop /\ bound' = bound
  BY DEF procVars
<1>3. ProcType' /\ WorldType'
  BY <1>2, Parts DEF ProcType, WorldType
<1>4. Served' /\ BoundOpen' /\ WillDestroy'
  BY <1>1, <1>2, Parts DEF Served, BoundOpen, WillDestroy
<1> QED
  BY <1>1, <1>3, <1>4, PartsAfter

\* virtusbctl, command by command: it creates only devices of its own.
LEMMA CtlKeeps ==
    ASSUME SessionInv, Ctl
    PROVE  SessionInv'
<1>1. /\ UNCHANGED <<program, procVars, bound, urbVars>>
      /\ commands' \in 0..MaxCommands /\ known' \subseteq Ports
  <2>1. Command
    BY DEF Ctl, CtlCreate, CtlDetach, CtlDestroy, CtlConnection, CtlAttach, CtlPower
  <2>2. commands \in 0..MaxCommands /\ MaxCommands \in Nat /\ known \subseteq Ports
    BY Parts, SessionAssumption DEF WorldType
  <2> QED
    BY <2>1, <2>2 DEF Command
<1>2. Procs \subseteq Devices /\ TopologyInv
  BY Parts DEF Devices
<1>3. TopologyInv' /\ \A q \in Procs : life'[q] = "registered" => life[q] = "registered"
  <2>1. ASSUME NEW d \in Devices, CtlCreate(d)
        PROVE  TopologyInv' /\ \A q \in Procs : life'[q] = life[q]
    <3>1. d \notin Procs /\ DoCreate(d)
      BY <2>1, SessionAssumption DEF CtlCreate
    <3> QED
      BY <1>2, <3>1, CreateDevice
  <2>2. ASSUME NEW d \in Devices, CtlDetach(d) PROVE TopologyInv' /\ life' = life
    BY <1>2, <2>2, DetachDevice DEF CtlDetach
  <2>3. ASSUME NEW d \in Devices, NEW b \in BOOLEAN, CtlDestroy(d, b)
        PROVE  /\ TopologyInv'
               /\ \A q \in Procs : life'[q] = "registered" => life[q] = "registered"
    <3>1. DoDestroy(d)
      BY <2>3 DEF CtlDestroy
    <3>2. /\ TopologyInv' /\ life'[d] = "destroyed"
          /\ \A x \in Devices \ {d} : life'[x] = life[x]
      BY <1>2, <3>1, DestroyDevice
    <3> QED
      BY <1>2, <3>2
  <2>4. ASSUME NEW d \in Devices, NEW b \in BOOLEAN, CtlConnection(d, b)
        PROVE  TopologyInv' /\ life' = life
    BY <1>2, <2>4, ConnectDevice DEF CtlConnection
  <2>5. ASSUME NEW d \in Devices, NEW n \in Ports, CtlAttach(d, n)
        PROVE  TopologyInv' /\ life' = life
    BY <1>2, <2>5, AttachDevice DEF CtlAttach, MayAttach
  <2>6. ASSUME NEW n \in Ports, NEW b \in BOOLEAN, CtlPower(n, b)
        PROVE  TopologyInv' /\ life' = life
    <3>1. PICK pow : pow = IF b THEN powered \cup {n} ELSE powered \ {n}
      OBVIOUS
    <3>2. pow \subseteq Ports /\ Rewire(peer, signaling, pow) /\ life' = life
      BY <1>2, <2>6, <3>1 DEF CtlPower, TopologyInv, TopologyType
    <3>3. TopologyType' /\ peer' = peer
      BY <1>2, <3>2, RewireTypes DEF TopologyInv, TopologyType
    <3> QED
      BY <1>2, <3>2, <3>3 DEF TopologyInv, OutsideDetached
  <2> QED
    BY <2>1, <2>2, <2>3, <2>4, <2>5, <2>6 DEF Ctl
<1> QED
  BY <1>1, <1>3, AsideKeeps

\* The hub driver.
LEMMA HubKeeps ==
    ASSUME SessionInv, NEW n \in Ports, HubDisconnect(n) \/ HubConnect(n)
    PROVE  SessionInv'
<1>1. UNCHANGED <<program, procVars, bound, urbVars>> /\ commands' = commands
  BY DEF HubDisconnect, HubConnect, HostUnchanged
<1>2. commands \in 0..MaxCommands /\ known \subseteq Ports /\ TopologyInv
  BY Parts DEF WorldType
<1>3. known' \subseteq Ports
  BY <1>2 DEF HubDisconnect, HubConnect
<1>4. TopologyInv' /\ life' = life
  <2>1. CASE HubDisconnect(n)
    BY <1>2, <2>1, TopologyUnchanged DEF HubDisconnect
  <2>2. CASE HubConnect(n)
    <3>1. /\ change' = change \ {n} /\ UNCHANGED <<life, peer, signaling, powered>>
          /\ enabled' \subseteq Ports /\ was_reset' \subseteq Devices
      BY <1>2, <2>2 DEF HubConnect, TopologyInv, TopologyType
    <3> QED
      BY <1>2, <3>1 DEF TopologyInv, TopologyType, OutsideDetached
  <2> QED
    BY <2>1, <2>2
<1> QED
  BY <1>1, <1>2, <1>3, <1>4, AsideKeeps

\* A step of the host that moves its URBs only.
LEMMA HostStep ==
    ASSUME SessionInv, UNCHANGED <<topologyVars, known>>, HostUnchanged, UrbInv', Served'
    PROVE  SessionInv'
<1>1. TopologyInv' /\ life' = life
  BY Parts, TopologyUnchanged
<1>2. pc' = pc /\ did' = did /\ cur' = cur /\ stop' = stop /\ bound' = bound
  BY DEF HostUnchanged, procVars
<1>3. ProcType' /\ WorldType'
  BY <1>2, Parts DEF ProcType, WorldType, HostUnchanged
<1>4. BoundOpen' /\ WillDestroy'
  BY <1>1, <1>2, Parts DEF BoundOpen, WillDestroy
<1> QED
  BY <1>1, <1>3, <1>4, PartsAfter

\* The first half of urb_enqueue.
LEMMA ResolveKeeps ==
    ASSUME SessionInv, NEW u \in Urbs, NEW n \in Ports, Resolve(u, n)
    PROVE  SessionInv'
<1>1. PICK d \in Devices :
          urb' = [urb EXCEPT ![u] = [at |-> "resolved", port |-> n, dev |-> d]]
  BY DEF Resolve
<1>2. /\ urb[u].at = "host" /\ UNCHANGED <<topologyVars, known, pending, submitted>>
      /\ HostUnchanged
  BY DEF Resolve
<1>3. PICK r : r = [at |-> "resolved", port |-> n, dev |-> d]
  OBVIOUS
<1>4. r \in Places /\ r.at = "resolved" /\ urb' = [urb EXCEPT ![u] = r]
  BY <1>1, <1>3 DEF Places
<1>5. UrbInv'
  BY <1>2, <1>4, Parts, ElsewhereKeeps
<1>6. Served'
  <2>1. urb'[u].at = "resolved" /\ \A v \in Urbs \ {u} : urb'[v] = urb[v]
    BY <1>4, Parts DEF UrbInv, UrbType
  <2>2. pc' = pc /\ cur' = cur /\ bound' = bound
    BY <1>2 DEF HostUnchanged, procVars
  <2> QED
    BY <2>1, <2>2, Parts DEF Served
<1> QED
  BY <1>2, <1>5, <1>6, HostStep

\* The second half of urb_enqueue: virtusb_backend_submit.
LEMMA SubmitKeeps ==
    ASSUME SessionInv, NEW u \in Urbs, Submit(u)
    PROVE  SessionInv'
<1>1. urb[u].at = "resolved" /\ UNCHANGED <<topologyVars, known>> /\ HostUnchanged
  BY DEF Submit
<1>2. pc' = pc /\ cur' = cur /\ bound' = bound
  BY <1>1 DEF HostUnchanged, procVars
<1>3. UrbInv' /\ Served'
  <2>1. CASE urb[u].dev \in bound
    <3>1. /\ urb' = [urb EXCEPT ![u].at = "pending"]
          /\ pending' = Append(pending, u) /\ submitted' = Append(submitted, u)
      BY <2>1 DEF Submit
    <3>2. /\ UrbInv' /\ urb'[u].at = "pending" /\ urb'[u].dev = urb[u].dev
          /\ \A v \in Urbs \ {u} : urb'[v] = urb[v]
      BY <1>1, <3>1, Parts, QueueKeeps
    <3> QED
      BY <1>2, <2>1, <3>2, Parts DEF Served
  <2>2. CASE urb[u].dev \notin bound
    <3>1. urb' = [urb EXCEPT ![u] = AtHost] /\ UNCHANGED <<pending, submitted>>
      BY <2>2 DEF Submit
    <3>2. AtHost \in Places /\ AtHost.at = "host"
      BY DEF Places, AtHost
    <3>3. UrbInv'
      BY <1>1, <3>1, <3>2, Parts, ElsewhereKeeps
    <3>4. urb'[u] = AtHost /\ \A v \in Urbs \ {u} : urb'[v] = urb[v]
      BY <3>1, Parts DEF UrbInv, UrbType
    <3> QED
      BY <1>2, <3>2, <3>3, <3>4, Parts DEF Served
  <2> QED
    BY <2>1, <2>2
<1> QED
  BY <1>1, <1>3, HostStep

\* virtusb_hcd_urb_dequeue.
LEMMA CancelKeeps ==
    ASSUME SessionInv, NEW u \in Urbs, Cancel(u)
    PROVE  SessionInv'
<1>1. Return({u}) /\ UNCHANGED <<topologyVars, known>> /\ HostUnchanged
  BY DEF Cancel
<1>2. PICK us : us = {u}
  OBVIOUS
<1>3. Return(us)
  BY <1>1, <1>2
<1>4. UrbInv' /\ \A v \in Urbs : urb'[v] = IF v \in us THEN AtHost ELSE urb[v]
  BY <1>3, Parts, ReturnKeeps
<1>5. AtHost.at = "host"
  BY DEF AtHost
<1>6. pc' = pc /\ cur' = cur /\ bound' = bound
  BY <1>1 DEF HostUnchanged, procVars
<1>7. Served'
  BY <1>4, <1>5, <1>6, Parts DEF Served
<1> QED
  BY <1>1, <1>4, <1>7, HostStep

-----------------------------------------------------------------------------
(* The theorems.                                                           *)

\* Nothing is open, created or queued.
LEMMA InitEstablishes == Init => SessionInv
<1> SUFFICES ASSUME Init PROVE SessionInv
  OBVIOUS
<1>1. AtHost.at = "host" /\ AtHost \in Places
  BY DEF AtHost, Places
<1>2. UrbType
  BY <1>1 DEF Init, UrbType
<1>3. Range(pending) = {} /\ Range(submitted) = {}
      /\ IsInjective(pending) /\ IsInjective(submitted)
      /\ \A u, v : ~Ahead(submitted, u, v)
  BY DEF Init, Range, IsInjective, Ahead
<1>4. \A u \in Urbs : urb[u].at = "host"
  BY <1>1 DEF Init
<1>5. UrbInv
  BY <1>2, <1>3, <1>4 DEF UrbInv, ListsAgree, InOrder
<1>6. TopologyInv
  BY DEF Init, TopologyInv, TopologyType, OutsideDetached
<1>7. ProcType /\ WorldType
  <2>1. "open" \in Pcs /\ MaxCommands \in Nat
    BY SessionAssumption DEF Pcs
  <2> QED
    BY <2>1 DEF Init, ProcType, WorldType
<1>8. Served /\ BoundOpen /\ WillDestroy
  <2>1. Procs \subseteq Devices
    BY DEF Devices
  <2> QED
    BY <1>4, <2>1 DEF Init, Served, BoundOpen, WillDestroy
<1> QED
  BY <1>5, <1>6, <1>7, <1>8, Parts

\* Every step keeps the invariant.
LEMMA NextKeeps == SessionInv /\ [Next]_vars => SessionInv'
<1> SUFFICES ASSUME SessionInv, [Next]_vars PROVE SessionInv'
  OBVIOUS
<1>1. CASE \E p \in Procs : ProcStep(p) \/ Signal(p) \/ Kill(p)
  BY <1>1, ProcKeeps
<1>2. CASE Ctl
  BY <1>2, CtlKeeps
<1>3. CASE \E n \in Ports : HubDisconnect(n) \/ HubConnect(n)
  BY <1>3, HubKeeps
<1>4. CASE \E u \in Urbs : Submit(u) \/ Cancel(u) \/ \E n \in Ports : Resolve(u, n)
  BY <1>4, SubmitKeeps, CancelKeeps, ResolveKeeps
<1>5. CASE UNCHANGED vars
  <2>1. /\ UNCHANGED <<program, procVars, bound, urbVars, topologyVars>>
        /\ commands' = commands /\ known' = known
    BY <1>5 DEF vars, worldVars
  <2>2. TopologyInv' /\ life' = life /\ WorldType
    BY <2>1, Parts, TopologyUnchanged
  <2> QED
    BY <2>1, <2>2, AsideKeeps DEF WorldType
<1> QED
  BY <1>1, <1>2, <1>3, <1>4, <1>5 DEF Next

\* The inductive invariant: whatever the programs, virtusbctl and the host do,
\* and whoever is killed, lists and places of the URBs agree, and every URB in
\* the backend is for a bound file whose program has it at hand once fetched.
THEOREM SessionInvariance == Spec => []SessionInv
BY InitEstablishes, NextKeeps, PTL DEF Spec

\* Type correctness: every variable keeps its shape.
THEOREM TypeCorrect == Spec => []TypeOK
<1>1. SessionInv => TypeOK
  BY DEF SessionInv
<1> QED
  BY <1>1, SessionInvariance, PTL

\* A program that has ended leaves no device in the registry or in a port, no
\* bound file and no URB queued (the label out of the programs under tools/).
THEOREM LeavesNothing == Spec => []CleanExit
<1>1. SessionInv => CleanExit
  <2> SUFFICES ASSUME SessionInv, NEW p \in Procs, pc[p] = "done"
               PROVE  /\ life[p] # "registered" /\ peer[p] = NoPort
                      /\ p \notin bound /\ Queued(p) = {}
    BY DEF CleanExit, At
  <2>1. p \in Devices /\ life[p] # "registered" /\ p \notin bound
    BY DEF SessionInv, WillDestroy, BoundOpen, Devices
  <2>2. peer[p] = NoPort
    BY <2>1 DEF SessionInv, OutsideDetached
  <2>3. Queued(p) = {}
    BY <2>1 DEF SessionInv, Served, Queued
  <2> QED
    BY <2>1, <2>2, <2>3
<1> QED
  BY <1>1, SessionInvariance, PTL

\* What is queued has a bound file, and what was fetched is in the hands of a live
\* program (virtusb_backend_release_owner, the loops of the programs).
THEOREM FetchedInLiveHands == Spec => []FetchedIsHandled
<1>1. SessionInv => FetchedIsHandled
  <2> SUFFICES ASSUME SessionInv, NEW u \in Urbs
               PROVE  /\ urb[u].at \in {"pending", "active"} => urb[u].dev \in bound
                      /\ urb[u].at = "active" =>
                            \E p \in Procs : pc[p] \in {"handle", "back"} /\ cur[p] = u
                                             /\ Holds(p)
    BY DEF FetchedIsHandled
  <2>1. urb[u].at \in {"pending", "active"} => urb[u].dev \in bound
    BY DEF SessionInv, Served
  <2>2. ASSUME urb[u].at = "active"
        PROVE  \E p \in Procs : pc[p] \in {"handle", "back"} /\ cur[p] = u /\ Holds(p)
    <3>1. urb[u].dev \in Procs
      BY <2>1, <2>2 DEF SessionInv, TypeOK
    <3>2. pc[urb[u].dev] \in {"handle", "back"} /\ cur[urb[u].dev] = u
      BY <2>2 DEF SessionInv, Served
    <3>3. Holds(urb[u].dev)
      BY <2>2, <3>2, SessionAssumption DEF Holds
    <3> QED
      BY <3>1, <3>2, <3>3
  <2> QED
    BY <2>1, <2>2
<1> QED
  BY <1>1, SessionInvariance, PTL

\* A backend gets the URBs of its device in the order of their submission, though
\* a faulting fetch puts one back (virtusb_backend_fetch_rollback).
THEOREM OrderKept == Spec => []FetchOrder
<1>1. SessionInv => FetchOrder
  BY DEF SessionInv, ListsAgree, InOrder, FetchOrder
<1> QED
  BY <1>1, SessionInvariance, PTL
=============================================================================
