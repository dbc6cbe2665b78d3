------------------------- MODULE DdtpDeliveryProofs -------------------------
(***************************************************************************)
(* Which events of a sequence are the first reports of their crc32, and    *)
(* what it is to list them in order: the facts that the proofs about the   *)
(* server and about the path of its records rest on.  crc gives each       *)
(* record its crc32; what is not in its domain is no record.               *)
(***************************************************************************)
EXTENDS Naturals, Sequences, FiniteSets, FiniteSetTheorems, TLAPS

(* The crc32 values among the events of t, and the places of their first   *)
(* reports.                                                                *)
Seen(t, crc) == {crc[t[n]] : n \in {m \in DOMAIN t : t[m] \in DOMAIN crc}}
FirstIn(t, crc) ==
  {n \in DOMAIN t :
     /\ t[n] \in DOMAIN crc
     /\ \A m \in 1 .. n - 1 : t[m] \in DOMAIN crc => crc[t[m]] # crc[t[n]]}

(* q lists the first reports of t.                                         *)
Lists(q, t, crc) ==
  /\ Len(q) = Cardinality(FirstIn(t, crc))
  /\ \A n \in FirstIn(t, crc) : q[Cardinality({m \in FirstIn(t, crc) : m <= n})] = t[n]

LEMMA FirstInFinite ==
  ASSUME NEW crc, NEW S, DOMAIN crc \subseteq S, NEW t \in Seq(S)
  PROVE  IsFiniteSet(FirstIn(t, crc)) /\ FirstIn(t, crc) \subseteq 1 .. Len(t)
<1>1. FirstIn(t, crc) \subseteq 1 .. Len(t)
  BY DEF FirstIn
<1>2. IsFiniteSet(1 .. Len(t))
  BY FS_Interval
<1> QED
  BY <1>1, <1>2, FS_Subset

LEMMA SeenAppend ==
  ASSUME NEW crc, NEW S, DOMAIN crc \subseteq S, NEW t \in Seq(S), NEW e \in S
  PROVE  Seen(Append(t, e), crc) = Seen(t, crc) \cup (IF e \in DOMAIN crc THEN {crc[e]} ELSE {})
<1> DEFINE u == Append(t, e)
<1>1. /\ DOMAIN u = 1 .. Len(t) + 1 /\ DOMAIN t = 1 .. Len(t) /\ Len(t) \in Nat
      /\ \A n \in DOMAIN t : u[n] = t[n]
      /\ u[Len(t) + 1] = e
  OBVIOUS
<1>2. DOMAIN u = DOMAIN t \cup {Len(t) + 1}
  BY <1>1
<1> HIDE DEF u
<1>3. Seen(u, crc) = Seen(t, crc) \cup (IF e \in DOMAIN crc THEN {crc[e]} ELSE {})
  BY <1>1, <1>2 DEF Seen
<1> QED
  BY <1>3 DEF u

(* A report of a new crc is a first report; another event is none.         *)
LEMMA FirstInAppend ==
  ASSUME NEW crc, NEW S, DOMAIN crc \subseteq S, NEW t \in Seq(S), NEW e \in S
  PROVE  FirstIn(Append(t, e), crc) =
           IF e \in DOMAIN crc /\ crc[e] \notin Seen(t, crc)
             THEN FirstIn(t, crc) \cup {Len(t) + 1} ELSE FirstIn(t, crc)
<1> DEFINE u == Append(t, e)
<1>1. /\ DOMAIN u = 1 .. Len(t) + 1 /\ DOMAIN t = 1 .. Len(t) /\ Len(t) \in Nat
      /\ \A n \in 1 .. Len(t) : u[n] = t[n]
      /\ u[Len(t) + 1] = e
  OBVIOUS
<1> HIDE DEF u
<1>2. ASSUME NEW n \in 1 .. Len(t)
      PROVE  n \in FirstIn(u, crc) <=> n \in FirstIn(t, crc)
  <2>1. \A m \in 1 .. n - 1 : m \in 1 .. Len(t)
    BY <1>1
  <2> QED
    BY <1>1, <2>1 DEF FirstIn
<1>3. Len(t) + 1 \in FirstIn(u, crc) <=> e \in DOMAIN crc /\ crc[e] \notin Seen(t, crc)
  <2>1. (Len(t) + 1) - 1 = Len(t)
    BY <1>1
  <2> QED
    BY <1>1, <2>1 DEF FirstIn, Seen
<1>4. FirstIn(t, crc) \subseteq 1 .. Len(t) /\ FirstIn(u, crc) \subseteq 1 .. Len(t) + 1
  BY <1>1 DEF FirstIn
<1>5. \A n \in 1 .. Len(t) + 1 : n \in 1 .. Len(t) \/ n = Len(t) + 1
  BY <1>1
<1>6. Len(t) + 1 \notin 1 .. Len(t)
  BY <1>1
<1>7. FirstIn(u, crc) = IF e \in DOMAIN crc /\ crc[e] \notin Seen(t, crc)
                     THEN FirstIn(t, crc) \cup {Len(t) + 1} ELSE FirstIn(t, crc)
  <2> DEFINE New == e \in DOMAIN crc /\ crc[e] \notin Seen(t, crc)
             U == FirstIn(u, crc)
             T == FirstIn(t, crc)
             last == Len(t) + 1
  <2> HIDE DEF New, U, T, last
  <2>1. \A n \in 1 .. Len(t) : n \in U <=> n \in T
    BY <1>2 DEF U, T
  <2>2. last \in U <=> New
    BY <1>3 DEF U, New, last
  <2>3. T \subseteq 1 .. Len(t) /\ \A n \in U : n \in 1 .. Len(t) \/ n = last
    BY <1>4, <1>5 DEF U, T, last
  <2>4. CASE New
    <3>1. \A n : n \in U <=> n \in T \cup {last}
      BY <2>1, <2>2, <2>3, <2>4
    <3>2. U = T \cup {last}
      BY <3>1
    <3> QED
      BY <2>4, <3>2 DEF New, U, T, last
  <2>5. CASE ~New
    <3>1. \A n : n \in U <=> n \in T
      BY <2>1, <2>2, <2>3, <2>5
    <3>2. U = T
      BY <3>1
    <3> QED
      BY <2>5, <3>2 DEF New, U, T
  <2> QED
    BY <2>4, <2>5
<1> QED
  BY <1>7 DEF u

(* An event that is no first report leaves the list as it is.              *)
LEMMA ListsOld ==
  ASSUME NEW crc, NEW S, DOMAIN crc \subseteq S, NEW t \in Seq(S), NEW e \in S,
         NEW q \in Seq(DOMAIN crc), Lists(q, t, crc),
         e \in DOMAIN crc => crc[e] \in Seen(t, crc)
  PROVE  Lists(q, Append(t, e), crc)
<1>1. FirstIn(Append(t, e), crc) = FirstIn(t, crc)
  BY FirstInAppend
<1>2. \A n \in FirstIn(t, crc) : Append(t, e)[n] = t[n]
  BY FirstInFinite
<1> QED
  BY <1>1, <1>2 DEF Lists

(* A first report goes to the end of the list.                             *)
LEMMA ListsNew ==
  ASSUME NEW crc, NEW S, DOMAIN crc \subseteq S, NEW t \in Seq(S), NEW r \in DOMAIN crc,
         NEW q \in Seq(DOMAIN crc), Lists(q, t, crc),
         crc[r] \notin Seen(t, crc)
  PROVE  Lists(Append(q, r), Append(t, r), crc)
<1> DEFINE u == Append(t, r)
           p == Append(q, r)
           F == FirstIn(t, crc)
           G == FirstIn(u, crc)
<1>1. r \in S
  OBVIOUS
<1>2. G = F \cup {Len(t) + 1} /\ Len(t) + 1 \notin F /\ F \subseteq 1 .. Len(t)
  BY <1>1, FirstInAppend, FirstInFinite
<1>3. IsFiniteSet(F)
  BY FirstInFinite
<1>4. Cardinality(G) = Cardinality(F) + 1 /\ Cardinality(F) \in Nat
  BY <1>2, <1>3, FS_AddElement, FS_CardinalityType
<1>5. Len(q) = Cardinality(F) /\ \A n \in F : q[Cardinality({m \in F : m <= n})] = t[n]
  BY DEF Lists
<1>6. /\ Len(p) = Len(q) + 1 /\ p[Len(q) + 1] = r /\ \A k \in 1 .. Len(q) : p[k] = q[k]
      /\ u[Len(t) + 1] = r /\ \A n \in 1 .. Len(t) : u[n] = t[n]
      /\ Len(t) \in Nat /\ Len(q) \in Nat
  OBVIOUS
<1> HIDE DEF u, p, F, G
<1>7. ASSUME NEW n \in F
      PROVE  p[Cardinality({m \in G : m <= n})] = u[n]
  <2>1. {m \in G : m <= n} = {m \in F : m <= n}
    BY <1>2, <1>6
  <2>2. {m \in F : m <= n} \subseteq F /\ {m \in F : m <= n} # {}
    BY <1>2
  <2>3. Cardinality({m \in F : m <= n}) \in 1 .. Cardinality(F)
    <3>1. IsFiniteSet({m \in F : m <= n})
      BY <1>3, <2>2, FS_Subset
    <3>2. Cardinality({m \in F : m <= n}) <= Cardinality(F)
      BY <1>3, <2>2, FS_Subset
    <3>3. Cardinality({m \in F : m <= n}) # 0
      BY <3>1, <2>2, FS_EmptySet
    <3>4. Cardinality({m \in F : m <= n}) \in Nat
      BY <3>1, FS_CardinalityType
    <3> QED
      BY <3>2, <3>3, <3>4, <1>4
  <2>4. PICK k \in 1 .. Len(q) : k = Cardinality({m \in F : m <= n})
    BY <1>5, <2>3
  <2>5. q[k] = t[n]
    BY <1>5, <2>4
  <2>6. p[k] = q[k] /\ u[n] = t[n]
    BY <1>2, <1>6
  <2>7. Cardinality({m \in G : m <= n}) = k
    BY <2>1, <2>4
  <2> QED
    BY <2>5, <2>6, <2>7
<1>8. {m \in G : m <= Len(t) + 1} = G
  <2>1. \A m \in 1 .. Len(t) : m <= Len(t) + 1
    BY <1>6
  <2>2. Len(t) + 1 <= Len(t) + 1
    BY <1>6
  <2>3. \A m \in G : m <= Len(t) + 1
    BY <1>2, <2>1, <2>2
  <2> QED
    BY <2>3
<1>9. p[Cardinality({m \in G : m <= Len(t) + 1})] = u[Len(t) + 1]
  BY <1>4, <1>5, <1>6, <1>8
<1>10. Lists(p, u, crc)
  BY <1>2, <1>4, <1>5, <1>6, <1>7, <1>9 DEF Lists, G
<1> QED
  BY <1>10 DEF p, u

(* Among finitely many places every rank up to their number is taken.      *)
LEMMA EveryRank ==
  ASSUME NEW L \in Nat, NEW F \in SUBSET (1 .. L), NEW k \in 1 .. Cardinality(F)
  PROVE  \E n \in F : Cardinality({m \in F : m <= n}) = k
<1> DEFINE upTo(n) == {m \in F : m <= n}
           rank == [n \in F |-> Cardinality(upTo(n))]
           range == {rank[n] : n \in F}
<1>1. IsFiniteSet(F) /\ Cardinality(F) \in Nat
  <2>1. IsFiniteSet(1 .. L) /\ F \subseteq 1 .. L
    BY FS_Interval
  <2>2. IsFiniteSet(F)
    BY <2>1, FS_Subset
  <2> QED
    BY <2>2, FS_CardinalityType
<1>2. ASSUME NEW n \in F
      PROVE  /\ IsFiniteSet(upTo(n))
             /\ rank[n] = Cardinality(upTo(n)) /\ rank[n] \in 1 .. Cardinality(F)
  <2>1. upTo(n) \subseteq F /\ n \in upTo(n)
    OBVIOUS
  <2>2. IsFiniteSet(upTo(n)) /\ Cardinality(upTo(n)) <= Cardinality(F)
    BY <1>1, <2>1, FS_Subset
  <2>3. Cardinality(upTo(n)) \in Nat /\ Cardinality(upTo(n)) # 0
    BY <2>1, <2>2, FS_CardinalityType, FS_EmptySet
  <2>4. rank[n] = Cardinality(upTo(n))
    OBVIOUS
  <2> HIDE DEF upTo, rank
  <2> QED
    BY <1>1, <2>2, <2>3, <2>4
<1>3. ASSUME NEW a \in F, NEW b \in F, a < b
      PROVE  rank[a] # rank[b]
  <2>1. upTo(a) \subseteq upTo(b) /\ b \in upTo(b) /\ b \notin upTo(a)
    <3>1. a \in Nat /\ b \in Nat /\ ~(b <= a) /\ b <= b
      BY <1>3
    <3>2. \A m \in F : m <= a => m <= b
      BY <1>3
    <3> QED
      BY <3>1, <3>2
  <2>2. upTo(a) # upTo(b)
    BY <2>1
  <2> HIDE DEF upTo, rank
  <2>3. Cardinality(upTo(a)) # Cardinality(upTo(b))
    BY <1>2, <2>1, <2>2, FS_Subset
  <2> QED
    BY <1>2, <2>3
<1>4. \A a, b \in F : a < b \/ b < a \/ a = b
  OBVIOUS
<1>5. rank \in Surjection(F, range)
  BY Zenon DEF Surjection
<1>6. \A a, b \in F : rank[a] = rank[b] => a = b
  <2> HIDE DEF rank
  <2> QED
    BY <1>3, <1>4
<1>7. rank \in Bijection(F, range)
  <2>1. rank \in Injection(F, range)
    <3>1. rank \in [F -> range]
      BY <1>5 DEF Surjection
    <3> HIDE DEF rank, range
    <3> QED
      BY <1>6, <3>1 DEF Injection, IsInjective
  <2> QED
    BY <1>5, <2>1 DEF Bijection
<1>8. ExistsBijection(F, range)
  BY <1>7 DEF ExistsBijection
<1>9. range \subseteq 1 .. Cardinality(F)
  <2> HIDE DEF rank
  <2> QED
    BY <1>2
<1> HIDE DEF rank, range
<1>10. IsFiniteSet(range) /\ Cardinality(range) = Cardinality(F)
  BY <1>1, <1>8, FS_Bijection
<1>11. Cardinality(1 .. Cardinality(F)) = Cardinality(F) /\ IsFiniteSet(1 .. Cardinality(F))
  BY <1>1, FS_Interval
<1>12. range = 1 .. Cardinality(F)
  BY <1>9, <1>10, <1>11, FS_Subset
<1>13. PICK n \in F : rank[n] = k
  BY <1>12 DEF range
<1> QED
  BY <1>2, <1>13 DEF upTo

(* Of a list of which p has been sent and q is queued, the head of q is    *)
(* the first report whose turn it is.                                      *)
LEMMA NextInRank ==
  ASSUME NEW crc, NEW S, DOMAIN crc \subseteq S, NEW t \in Seq(S),
         NEW p \in Seq(DOMAIN crc), NEW q \in Seq(DOMAIN crc), q # <<>>, Lists(p \o q, t, crc)
  PROVE  \E n \in FirstIn(t, crc) :
           Cardinality({m \in FirstIn(t, crc) : m <= n}) = Len(p) + 1 /\ t[n] = Head(q)
<1> DEFINE F == FirstIn(t, crc)
           k == Len(p) + 1
           rank(n) == Cardinality({m \in F : m <= n})
<1>1. k \in 1 .. Len(p \o q) /\ (p \o q)[k] = Head(q)
  OBVIOUS
<1>2. Len(p \o q) = Cardinality(F) /\ \A n \in F : (p \o q)[rank(n)] = t[n]
  BY DEF Lists
<1>3. Len(t) \in Nat /\ F \in SUBSET (1 .. Len(t))
  BY FirstInFinite
<1> HIDE DEF F, k
<1>4. PICK n \in F : rank(n) = k
  BY <1>1, <1>2, <1>3, EveryRank
<1>5. t[n] = Head(q)
  BY <1>1, <1>2, <1>4
<1> QED
  BY <1>4, <1>5 DEF F, k

(* No two records of a list have the same crc.                             *)
LEMMA ListedOnce ==
  ASSUME NEW crc, NEW S, DOMAIN crc \subseteq S, NEW t \in Seq(S), NEW q, Lists(q, t, crc),
         NEW i \in 1 .. Len(q), NEW j \in 1 .. Len(q), crc[q[i]] = crc[q[j]]
  PROVE  i = j
<1> DEFINE F == FirstIn(t, crc)
           rank(n) == Cardinality({m \in F : m <= n})
<1>1. Len(q) = Cardinality(F) /\ \A n \in F : q[rank(n)] = t[n]
  BY DEF Lists
<1>2. Len(t) \in Nat /\ F \in SUBSET (1 .. Len(t))
  BY FirstInFinite
<1>3. ASSUME NEW a \in F, NEW b \in F, a < b
      PROVE  crc[t[a]] # crc[t[b]]
  <2>1. a \in 1 .. b - 1
    BY <1>2, <1>3
  <2> QED
    BY <2>1 DEF FirstIn
<1>4. \A k \in 1 .. Len(q) : \E n \in F : rank(n) = k
  <2> HIDE DEF F
  <2> QED
    BY <1>1, <1>2, EveryRank
<1>5. PICK a \in F : rank(a) = i
  BY <1>4
<1>6. PICK b \in F : rank(b) = j
  BY <1>4
<1>7. crc[t[a]] = crc[t[b]]
  BY <1>1, <1>5, <1>6
<1>8. a = b
  <2> HIDE DEF F
  <2>1. a < b \/ b < a \/ a = b
    BY <1>2
  <2> QED
    BY <1>3, <1>7, <2>1
<1> QED
  BY <1>5, <1>6, <1>8

(* A place that is left out of finitely many: those below it keep their    *)
(* rank, and those above it come one earlier.                              *)
RankIn(F, n) == Cardinality({m \in F : m <= n})

LEMMA WithoutOne ==
  ASSUME NEW L \in Nat, NEW F \in SUBSET (1 .. L), NEW z \in F, NEW n \in F
  PROVE  /\ RankIn(F, n) \in 1 .. Cardinality(F) /\ RankIn(F, z) \in 1 .. Cardinality(F)
         /\ Cardinality(F) \in Nat
         /\ n < z => RankIn(F \ {z}, n) = RankIn(F, n) /\ RankIn(F, n) < RankIn(F, z)
         /\ z < n => RankIn(F \ {z}, n) = RankIn(F, n) - 1 /\ RankIn(F, z) < RankIn(F, n)
<1> DEFINE upTo(k) == {m \in F : m <= k}
<1>1. IsFiniteSet(F) /\ Cardinality(F) \in Nat
  <2>1. IsFiniteSet(1 .. L) /\ F \subseteq 1 .. L
    BY FS_Interval
  <2>2. IsFiniteSet(F)
    BY <2>1, FS_Subset
  <2> QED
    BY <2>2, FS_CardinalityType
<1>2. ASSUME NEW k \in F
      PROVE  /\ IsFiniteSet(upTo(k)) /\ k \in upTo(k)
             /\ RankIn(F, k) = Cardinality(upTo(k)) /\ RankIn(F, k) \in 1 .. Cardinality(F)
  <2>1. upTo(k) \subseteq F /\ k \in upTo(k)
    OBVIOUS
  <2>2. IsFiniteSet(upTo(k)) /\ Cardinality(upTo(k)) <= Cardinality(F)
    BY <1>1, <2>1, FS_Subset
  <2>3. Cardinality(upTo(k)) \in Nat /\ Cardinality(upTo(k)) # 0
    BY <2>1, <2>2, FS_CardinalityType, FS_EmptySet
  <2>4. RankIn(F, k) = Cardinality(upTo(k))
    BY DEF RankIn
  <2> HIDE DEF upTo
  <2> QED
    BY <1>1, <2>1, <2>2, <2>3, <2>4
<1>3. ASSUME NEW a \in F, NEW b \in F, a < b
      PROVE  RankIn(F, a) < RankIn(F, b)
  <2>1. upTo(a) \subseteq upTo(b) /\ b \notin upTo(a)
    <3>1. a \in Nat /\ b \in Nat /\ ~(b <= a)
      BY <1>3
    <3>2. \A m \in F : m <= a => m <= b
      BY <1>3
    <3> QED
      BY <3>1, <3>2
  <2>2. upTo(a) # upTo(b)
    BY <1>2, <2>1
  <2> HIDE DEF upTo
  <2>3. Cardinality(upTo(a)) <= Cardinality(upTo(b)) /\ Cardinality(upTo(a)) # Cardinality(upTo(b))
    BY <1>2, <2>1, <2>2, FS_Subset
  <2> QED
    BY <1>1, <1>2, <2>3
<1>4. RankIn(F \ {z}, n) = Cardinality(upTo(n) \ {z})
  <2>1. {m \in F \ {z} : m <= n} = upTo(n) \ {z}
    OBVIOUS
  <2> HIDE DEF upTo
  <2> QED
    BY <2>1 DEF RankIn
<1>5. /\ n < z => z \notin upTo(n)
      /\ z < n => z \in upTo(n)
  OBVIOUS
<1> HIDE DEF upTo
<1>6. /\ z \in upTo(n) => RankIn(F \ {z}, n) = Cardinality(upTo(n)) - 1
      /\ z \notin upTo(n) => RankIn(F \ {z}, n) = Cardinality(upTo(n))
  BY <1>2, <1>4, FS_RemoveElement
<1> QED
  BY <1>1, <1>2, <1>3, <1>5, <1>6

LEMMA NothingTaken ==
  ASSUME NEW crc
  PROVE  Seen(<<>>, crc) = {} /\ Lists(<<>> \o <<>>, <<>>, crc)
<1>1. FirstIn(<<>>, crc) = {} /\ Seen(<<>>, crc) = {}
  BY DEF FirstIn, Seen
<1>2. Cardinality({}) = 0 /\ <<>> \o <<>> = <<>>
  BY FS_EmptySet
<1> QED
  BY <1>1, <1>2 DEF Lists
=============================================================================
