--------------------------- MODULE Telemetry_proofs ---------------------------
(***************************************************************************)
(* Proofs, for every number of events, lines, names and every end of the   *)
(* process, of what the telemetry buffer owes to an event that was put.    *)
(***************************************************************************)
EXTENDS TelemetryProperties, FiniteSetTheorems, TLAPS

-----------------------------------------------------------------------------
(* Sets in order. *)

(* R is a strict total order on S. *)
Orders(R, S) ==
    /\ \A x \in S : <<x, x>> \notin R
    /\ \A x, y, z \in S : <<x, y>> \in R /\ <<y, z>> \in R => <<x, z>> \in R
    /\ \A x, y \in S : x = y \/ <<x, y>> \in R \/ <<y, x>> \in R

Below(S, R, x) == {y \in S : <<y, x>> \in R}

(* The finite set S in the order R: every element once, the smaller first. *)
LEMMA OrderedIs ==
    ASSUME NEW S, IsFiniteSet(S), NEW R, Orders(R, S)
    PROVE  /\ Cardinality(S) \in Nat
           /\ Ordered(S, R) \in [1..Cardinality(S) -> S]
           /\ \A x \in S : \E i \in 1..Cardinality(S) : Ordered(S, R)[i] = x
           /\ \A i, j \in 1..Cardinality(S) : i < j => <<Ordered(S, R)[i], Ordered(S, R)[j]>> \in R
           /\ \A i \in 1..Cardinality(S) : Cardinality(Below(S, R, Ordered(S, R)[i])) = i - 1
<1> DEFINE n == Cardinality(S)
           rank(x) == Cardinality(Below(S, R, x))
<1>1. n \in Nat
    BY FS_CardinalityType
<1>2. \A x \in S : IsFiniteSet(Below(S, R, x)) /\ rank(x) \in 0..(n - 1)
    <2> TAKE x \in S
    <2>1. Below(S, R, x) \subseteq S \ {x}
        BY DEF Below, Orders
    <2>2. IsFiniteSet(S \ {x}) /\ Cardinality(S \ {x}) = n - 1
        BY FS_RemoveElement
    <2>3. IsFiniteSet(Below(S, R, x)) /\ rank(x) <= Cardinality(S \ {x})
        BY <2>1, <2>2, FS_Subset
    <2>4. rank(x) \in Nat
        BY <2>3, FS_CardinalityType
    <2> QED BY <1>1, <2>2, <2>3, <2>4
<1>3. \A x, y \in S : <<x, y>> \in R => rank(x) < rank(y)
    <2> SUFFICES ASSUME NEW x \in S, NEW y \in S, <<x, y>> \in R
                 PROVE  rank(x) < rank(y)
        OBVIOUS
    <2>1. Below(S, R, x) \subseteq Below(S, R, y)
        BY DEF Below, Orders
    <2>2. x \in Below(S, R, y) /\ x \notin Below(S, R, x)
        BY DEF Below, Orders
    <2>3. rank(x) <= rank(y) /\ rank(x) # rank(y)
        BY <1>2, <2>1, <2>2, FS_Subset
    <2>4. rank(x) \in Int /\ rank(y) \in Int
        BY <1>2
    <2> QED BY <2>3, <2>4
<1>4. \A x, y \in S : rank(x) = rank(y) => x = y
    <2> SUFFICES ASSUME NEW x \in S, NEW y \in S, rank(x) = rank(y), x # y
                 PROVE  FALSE
        OBVIOUS
    <2>1. <<x, y>> \in R \/ <<y, x>> \in R
        BY DEF Orders
    <2>2. rank(x) < rank(y) \/ rank(y) < rank(x)
        BY <1>3, <2>1
    <2>3. rank(x) \in Int /\ rank(y) \in Int
        BY <1>2
    <2> HIDE DEF rank
    <2> QED BY <2>2, <2>3
<1> DEFINE f == [x \in S |-> rank(x) + 1]
<1>5. f \in Injection(S, 1..n)
    <2>1. \A x \in S : f[x] = rank(x) + 1
        OBVIOUS
    <2>2. \A x \in S : f[x] \in 1..n
        BY <1>1, <1>2
    <2>3. f \in [S -> 1..n]
        BY <2>2
    <2>4. \A x, y \in S : f[x] = f[y] => x = y
        BY <1>2, <1>4, <2>1
    <2> QED BY <2>3, <2>4 DEF Injection, IsInjective
<1>6. f \in Surjection(S, 1..n)
    <2>1. IsFiniteSet(1..n) /\ Cardinality(1..n) = n
        BY <1>1, FS_Interval
    <2> QED BY <1>5, <2>1, FS_Injection
<1>7. \A i \in 1..n : \E x \in S : rank(x) = i - 1
    <2> TAKE i \in 1..n
    <2>1. PICK x \in S : f[x] = i
        BY <1>6 DEF Surjection
    <2>2. rank(x) + 1 = i
        BY <2>1
    <2> QED BY <1>2, <2>2
<1> DEFINE o == Ordered(S, R)
<1>8. \A i \in 1..n : o[i] = CHOOSE x \in S : rank(x) = i - 1
    BY DEF Ordered, Below
<1>9. \A i \in 1..n : o[i] \in S /\ rank(o[i]) = i - 1
    BY <1>7, <1>8
<1>10. o \in [1..n -> S]
    BY <1>9 DEF Ordered
<1>11. \A x \in S : \E i \in 1..n : o[i] = x
    <2> TAKE x \in S
    <2>1. rank(x) + 1 \in 1..n
        BY <1>1, <1>2
    <2>2. rank(o[rank(x) + 1]) = rank(x)
        BY <1>2, <1>9, <2>1
    <2> QED BY <1>4, <1>9, <2>1, <2>2
<1>12. \A i, j \in 1..n : i < j => <<o[i], o[j]>> \in R
    <2> SUFFICES ASSUME NEW i \in 1..n, NEW j \in 1..n, i < j
                 PROVE  <<o[i], o[j]>> \in R
        OBVIOUS
    <2>1. o[i] \in S /\ o[j] \in S /\ rank(o[i]) = i - 1 /\ rank(o[j]) = j - 1
        BY <1>9
    <2>2. CASE <<o[j], o[i]>> \in R
        <3>1. rank(o[j]) < rank(o[i])
            BY <1>3, <2>1, <2>2
        <3> QED BY <2>1, <3>1
    <2> QED BY <2>1, <2>2 DEF Orders
<1> QED BY <1>1, <1>9, <1>10, <1>11, <1>12

(* The elements of a sequence at the indices K, in their order. *)
Rising(K) == Ordered(K, {ij \in K \X K : ij[1] < ij[2]})

LEMMA PickedIs ==
    ASSUME NEW T, NEW q \in Seq(T), NEW K, K \subseteq DOMAIN q
    PROVE  /\ Cardinality(K) \in Nat
           /\ Rising(K) \in [1..Cardinality(K) -> K]
           /\ \A k \in K : \E i \in 1..Cardinality(K) : Rising(K)[i] = k
           /\ \A i, j \in 1..Cardinality(K) : i < j => Rising(K)[i] < Rising(K)[j]
           /\ \A i \in 1..Cardinality(K) : Picked(q, K)[i] = q[Rising(K)[i]]
           /\ Picked(q, K) \in Seq(T)
           /\ Len(Picked(q, K)) = Cardinality(K)
<1> DEFINE n == Cardinality(K)
           R == {ij \in K \X K : ij[1] < ij[2]}
           o == Rising(K)
<1>1. K \subseteq Nat /\ IsFiniteSet(K) /\ n \in Nat
    <2>1. Len(q) \in Nat /\ DOMAIN q = 1..Len(q)
        OBVIOUS
    <2>2. IsFiniteSet(1..Len(q))
        BY <2>1, FS_Interval
    <2>3. IsFiniteSet(K)
        BY <2>1, <2>2, FS_Subset
    <2> QED BY <2>1, <2>3, FS_CardinalityType
<1>2. \A i, j \in K : <<i, j>> \in R <=> i < j
    OBVIOUS
<1>3. Orders(R, K)
    <2> HIDE DEF R
    <2>1. \A x \in K : <<x, x>> \notin R
        BY <1>1, <1>2
    <2>2. \A x, y, z \in K : <<x, y>> \in R /\ <<y, z>> \in R => <<x, z>> \in R
        BY <1>1, <1>2
    <2>3. \A x, y \in K : x = y \/ <<x, y>> \in R \/ <<y, x>> \in R
        <3> TAKE x \in K, y \in K
        <3>1. x \in Nat /\ y \in Nat
            BY <1>1
        <3>2. x = y \/ x < y \/ y < x
            BY <3>1
        <3> QED BY <1>2, <3>2
    <2> QED BY <2>1, <2>2, <2>3 DEF Orders
<1>4. o = Ordered(K, R)
    BY DEF Rising
<1>5. /\ o \in [1..n -> K]
      /\ \A k \in K : \E i \in 1..n : o[i] = k
      /\ \A i, j \in 1..n : i < j => <<o[i], o[j]>> \in R
    <2> HIDE DEF R
    <2> QED BY <1>1, <1>3, <1>4, OrderedIs
<1>6. \A i, j \in 1..n : i < j => o[i] < o[j]
    <2> HIDE DEF R, o
    <2> QED BY <1>2, <1>5
<1>7. Picked(q, K) = [i \in DOMAIN o |-> q[o[i]]]
    BY DEF Picked, Rising
<1>8. Picked(q, K) = [i \in 1..n |-> q[o[i]]]
    <2> HIDE DEF o, R
    <2> QED BY <1>5, <1>7
<1>9. \A i \in 1..n : q[o[i]] \in T
    <2> HIDE DEF o, R
    <2> QED BY <1>5
<1>10. Picked(q, K) \in [1..n -> T]
    <2> HIDE DEF o, R
    <2> QED BY <1>8, <1>9
<1>11. Picked(q, K) \in Seq(T) /\ Len(Picked(q, K)) = n
    BY <1>1, <1>10
<1>12. \A i \in 1..n : Picked(q, K)[i] = q[o[i]]
    <2> HIDE DEF o, R, n
    <2> QED BY <1>8
<1> HIDE DEF R
<1> QED BY <1>1, <1>5, <1>6, <1>11, <1>12

LEMMA LeastOfNat ==
    ASSUME NEW S, S \subseteq Nat, S # {}
    PROVE  Min(S) \in S /\ \A n \in S : Min(S) <= n
<1>1. PICK m \in S : \A n \in S : <<n, m>> \notin OpToRel(<, Nat)
    BY NatLessThanWellFounded, WFMin
<1>2. \A n \in S : m <= n
    <2> TAKE n \in S
    <2>1. <<n, m>> \in Nat \X Nat /\ <<n, m>>[1] = n /\ <<n, m>>[2] = m
        OBVIOUS
    <2>2. ~(n < m)
        BY <1>1, <2>1 DEF OpToRel
    <2> QED BY <2>2
<1> QED BY <1>1, <1>2 DEF Min

LEMMA GreatestOfNat ==
    ASSUME NEW N \in Nat, NEW S, S \subseteq 0..N, S # {}
    PROVE  Max(S) \in S /\ \A n \in S : n <= Max(S)
<1> DEFINE B == {m \in 0..N : \A n \in S : n <= m}
<1>1. N \in B
    OBVIOUS
<1>2. Min(B) \in B /\ \A m \in B : Min(B) <= m
    BY <1>1, LeastOfNat
<1>3. \E s \in S : \A n \in S : s >= n
    <2> SUFFICES ASSUME Min(B) \notin S
                 PROVE  FALSE
        BY <1>2
    <2> DEFINE m == Min(B)
    <2>1. m \in 0..N /\ \A n \in S : n <= m
        BY <1>2
    <2>2. \A n \in S : n <= m - 1
        BY <2>1
    <2>3. m - 1 \in 0..N
        <3>1. PICK n \in S : TRUE
            OBVIOUS
        <3>2. n <= m - 1 /\ n \in 0..N
            BY <2>2, <3>1
        <3> HIDE DEF m
        <3> QED BY <2>1, <3>2
    <2>4. m - 1 \in B
        BY <2>2, <2>3
    <2>5. m <= m - 1
        BY <1>2, <2>4
    <2> HIDE DEF m
    <2> QED BY <2>1, <2>5
<1> QED BY <1>3 DEF Max

-----------------------------------------------------------------------------
(* What a buffer holds, by files instead of places in the queue. *)

Entries(b) == {b.queue[k] : k \in DOMAIN b.queue}

(* A queue lists a file once, no offset is beyond the end of its file, and *)
(* only files have lines.                                                  *)
Distinct(q) == \A k, l \in DOMAIN q : q[k].path = q[l].path => k = l
Sound(b) ==
    /\ b \in Buffer
    /\ Distinct(b.queue)
    /\ \A x \in Entries(b) : x.path \in b.files /\ x.off <= Len(b.line[x.path])
    /\ \A p \in Path \ b.files : b.line[p] = <<>>

LEMMA BufferIs ==
    ASSUME NEW b
    PROVE  b \in Buffer <=>
              /\ b = [files |-> b.files, line |-> b.line, queue |-> b.queue,
                      pending |-> b.pending]
              /\ b.files \subseteq Path /\ b.line \in [Path -> Seq(Line)]
              /\ b.queue \in Seq(Entry) /\ b.pending \in Nat
BY DEF Buffer

LEMMA EntryIs ==
    ASSUME NEW b \in Buffer
    PROVE  /\ Entries(b) \subseteq Entry
           /\ \A x \in Entries(b) : x.path \in Path /\ x.off \in Nat
           /\ \A k \in DOMAIN b.queue : /\ b.queue[k] \in Entries(b)
                                        /\ b.queue[k].path \in Path /\ b.queue[k].off \in Nat
                                        /\ b.line[b.queue[k].path] \in Seq(Line)
           /\ Len(b.queue) \in Nat /\ DOMAIN b.queue = 1..Len(b.queue)
           /\ \A p : Listed(b, p) <=> \E x \in Entries(b) : x.path = p
<1>1. \A k \in DOMAIN b.queue : b.queue[k] \in Entry
    BY DEF Buffer
<1>2. \A x \in Entry : x.path \in Path /\ x.off \in Nat
    BY DEF Entry
<1>3. b.line \in [Path -> Seq(Line)] /\ b.queue \in Seq(Entry)
    BY DEF Buffer
<1> QED BY <1>1, <1>2, <1>3 DEF Entries, Listed

(* Line j of file p is still to be read. *)
Open(b, p, j) ==
    \E x \in Entries(b) : x.path = p /\ x.off < j /\ j <= Len(b.line[p])

LEMMA UnreadIs ==
    ASSUME NEW b \in Buffer
    PROVE  /\ \A k, j : <<k, j>> \in Unread(b) <=>
                  /\ k \in DOMAIN b.queue /\ j \in Nat
                  /\ b.queue[k].off < j /\ j <= Len(b.line[b.queue[k].path])
           /\ \A p \in Unread(b) : p = <<p[1], p[2]>> /\ p[1] \in Nat /\ p[2] \in Nat
           /\ IsFiniteSet(Unread(b))
<1> DEFINE of(k) == {k} \X ((b.queue[k].off + 1)..Len(b.line[b.queue[k].path]))
           D == DOMAIN b.queue
           parts == {of(k) : k \in D}
<1>1. Unread(b) = UNION parts
    BY DEF Unread
<1>2. \A k \in D : b.queue[k].off \in Nat /\ Len(b.line[b.queue[k].path]) \in Nat
    BY EntryIs
<1>3. \A k \in D : \A m, j : <<m, j>> \in of(k) <=>
          m = k /\ j \in (b.queue[k].off + 1)..Len(b.line[b.queue[k].path])
    OBVIOUS
<1>4. \A k \in D : \A j : j \in (b.queue[k].off + 1)..Len(b.line[b.queue[k].path]) <=>
          j \in Nat /\ b.queue[k].off < j /\ j <= Len(b.line[b.queue[k].path])
    <2> TAKE k \in D
    <2> TAKE j
    <2>1. b.queue[k].off \in Nat /\ Len(b.line[b.queue[k].path]) \in Nat
        BY <1>2
    <2> QED BY <2>1
<1>5. \A k \in D : \A p \in of(k) : p = <<p[1], p[2]>> /\ p[1] = k /\ p[2] \in Nat
    <2> TAKE k \in D
    <2> TAKE p \in of(k)
    <2>1. p = <<p[1], p[2]>> /\ p[1] = k /\ p[2] \in (b.queue[k].off + 1)..Len(b.line[b.queue[k].path])
        OBVIOUS
    <2> HIDE DEF of, D
    <2> QED BY <1>4, <2>1
<1>6. D \subseteq Nat
    BY EntryIs
<1>7. \A k, j : <<k, j>> \in Unread(b) <=>
          /\ k \in D /\ j \in Nat
          /\ b.queue[k].off < j /\ j <= Len(b.line[b.queue[k].path])
    <2> TAKE k, j
    <2> HIDE DEF of, D
    <2>1. <<k, j>> \in Unread(b) <=> \E m \in D : <<k, j>> \in of(m)
        BY <1>1
    <2> QED BY <1>3, <1>4, <2>1
<1>8. \A p \in Unread(b) : p = <<p[1], p[2]>> /\ p[1] \in Nat /\ p[2] \in Nat
    <2> TAKE p \in Unread(b)
    <2> HIDE DEF of, D
    <2>1. PICK m \in D : p \in of(m)
        BY <1>1
    <2> QED BY <1>5, <1>6, <2>1
<1>9. IsFiniteSet(parts)
    <2> DEFINE f == [k \in D |-> of(k)]
    <2>1. f \in Surjection(D, parts)
        <3> HIDE DEF of, D
        <3> QED BY DEF Surjection
    <2>2. IsFiniteSet(D)
        BY EntryIs, FS_Interval
    <2> HIDE DEF f, parts, D
    <2> QED BY <2>1, <2>2, FS_Surjection
<1>10. \A T \in parts : IsFiniteSet(T)
    <2> SUFFICES ASSUME NEW k \in D
                 PROVE  IsFiniteSet(of(k))
        OBVIOUS
    <2>1. IsFiniteSet({k})
        BY FS_Singleton
    <2>2. IsFiniteSet((b.queue[k].off + 1)..Len(b.line[b.queue[k].path]))
        <3>1. b.queue[k].off + 1 \in Int /\ Len(b.line[b.queue[k].path]) \in Int
            BY <1>2
        <3> QED BY <3>1, FS_Interval
    <2> QED BY <2>1, <2>2, FS_Product
<1>11. IsFiniteSet(Unread(b))
    <2> HIDE DEF parts
    <2> QED BY <1>1, <1>9, <1>10, FS_UNION
<1> HIDE DEF of, parts
<1> QED BY <1>7, <1>8, <1>11

(* Line j of file p is e. *)
Holds(b, p, j, e) == j \in 1..Len(b.line[p]) /\ b.line[p][j] = e

(* Events in files that are in no queue. *)
OrphansOf(b) ==
    {e \in Event : \E p \in b.files : \E j \in Nat : ~Listed(b, p) /\ Holds(b, p, j, e)}

LEMMA DueIs ==
    ASSUME NEW b \in Buffer
    PROVE  \A e : e \in Due(b) <=>
              e \in Event /\ \E x \in Entries(b) : \E j \in Nat : x.off < j /\ Holds(b, x.path, j, e)
<1> TAKE e
<1>1. ASSUME e \in Due(b)
      PROVE  e \in Event /\ \E x \in Entries(b) : \E j \in Nat : x.off < j /\ Holds(b, x.path, j, e)
    <2>1. PICK p \in Unread(b) : LineAt(b, p) = e /\ e \in Event
        BY <1>1 DEF Due, Waiting
    <2>2. p = <<p[1], p[2]>>
        BY UnreadIs
    <2>3. /\ p[1] \in DOMAIN b.queue /\ p[2] \in Nat
          /\ b.queue[p[1]].off < p[2] /\ p[2] <= Len(b.line[b.queue[p[1]].path])
        BY <2>1, <2>2, UnreadIs, SMTT(30)
    <2> DEFINE x == b.queue[p[1]]
    <2>4. x \in Entries(b) /\ x.off \in Nat /\ Len(b.line[x.path]) \in Nat
        BY <2>3, EntryIs, SMTT(30)
    <2>5. b.line[x.path][p[2]] = e
        BY <2>1 DEF LineAt
    <2>6. p[2] \in 1..Len(b.line[x.path]) /\ x.off < p[2]
        BY <2>3, <2>4
    <2> HIDE DEF x
    <2> QED BY <2>1, <2>3, <2>4, <2>5, <2>6 DEF Holds
<1>2. ASSUME e \in Event, NEW x \in Entries(b), NEW j \in Nat, x.off < j, Holds(b, x.path, j, e)
      PROVE  e \in Due(b)
    <2>1. PICK k \in DOMAIN b.queue : x = b.queue[k]
        BY DEF Entries
    <2>2. j <= Len(b.line[x.path]) /\ b.line[x.path][j] = e
        BY <1>2, EntryIs DEF Holds
    <2>3. <<k, j>> \in Unread(b)
        BY <1>2, <2>1, <2>2, UnreadIs
    <2>4. LineAt(b, <<k, j>>) = e
        BY <2>1, <2>2 DEF LineAt
    <2> QED BY <1>2, <2>3, <2>4 DEF Due, Waiting
<1> QED BY <1>1, <1>2

LEMMA OnDiskIs ==
    ASSUME NEW b \in Buffer
    PROVE  \A e : e \in EventsOnDisk(b) <=>
              e \in Event /\ \E p \in b.files : \E j \in Nat : Holds(b, p, j, e)
<1> TAKE e
<1>1. \A p \in b.files : b.line[p] \in Seq(Line)
    BY DEF Buffer
<1>2. \A p \in b.files : e \in Range(b.line[p]) <=> \E j \in Nat : Holds(b, p, j, e)
    <2> TAKE p \in b.files
    <2>1. Len(b.line[p]) \in Nat /\ DOMAIN b.line[p] = 1..Len(b.line[p])
        BY <1>1
    <2> QED BY <2>1 DEF Range, Holds
<1> DEFINE all == UNION {Range(b.line[p]) : p \in b.files}
<1>3. e \in all <=> \E p \in b.files : e \in Range(b.line[p])
    OBVIOUS
<1>4. EventsOnDisk(b) = Event \cap all
    BY Zenon DEF EventsOnDisk
<1> HIDE DEF all
<1> QED BY <1>2, <1>3, <1>4

LEMMA SkippedIs ==
    ASSUME NEW b \in Buffer
    PROVE  \A e : e \in Skipped(b) <=>
              e \in Event /\ \E x \in Entries(b) : \E j \in Nat : j <= x.off /\ Holds(b, x.path, j, e)
<1>1. \A x \in Entries(b) : Len(b.line[x.path]) \in Nat /\ DOMAIN b.line[x.path] = 1..Len(b.line[x.path])
    BY EntryIs DEF Buffer
<1> QED BY <1>1 DEF Skipped, Entries, Holds

(* On the disk an event waits, is in front of an offset or is an orphan. *)
LEMMA OnDiskSplits ==
    ASSUME NEW b, Sound(b)
    PROVE  /\ EventsOnDisk(b) \subseteq Due(b) \cup OrphansOf(b) \cup Skipped(b)
           /\ Due(b) \cup OrphansOf(b) \cup Skipped(b) \subseteq EventsOnDisk(b)
           /\ EventsOnDisk(b) \subseteq Event
<1>1. b \in Buffer /\ \A x \in Entries(b) : x.path \in b.files /\ x.off \in Nat
    BY EntryIs DEF Sound
<1>2. ASSUME NEW e \in EventsOnDisk(b)
      PROVE  e \in Due(b) \cup OrphansOf(b) \cup Skipped(b)
    <2>1. e \in Event
        BY <1>1, OnDiskIs
    <2>2. PICK p \in b.files : \E j \in Nat : Holds(b, p, j, e)
        BY <1>1, OnDiskIs
    <2>3. PICK j \in Nat : Holds(b, p, j, e)
        BY <2>2
    <2>4. CASE ~Listed(b, p)
        BY <2>1, <2>3, <2>4 DEF OrphansOf
    <2>5. CASE Listed(b, p)
        <3>1. PICK x \in Entries(b) : x.path = p
            BY <1>1, <2>5, EntryIs
        <3>2. x.off < j \/ j <= x.off
            BY <1>1
        <3> QED BY <1>1, <2>1, <2>3, <3>1, <3>2, DueIs, SkippedIs
    <2> QED BY <2>4, <2>5
<1>3. Due(b) \subseteq EventsOnDisk(b)
    BY <1>1, DueIs, OnDiskIs
<1>4. Skipped(b) \subseteq EventsOnDisk(b)
    BY <1>1, SkippedIs, OnDiskIs
<1>5. OrphansOf(b) \subseteq EventsOnDisk(b)
    BY <1>1, OnDiskIs DEF OrphansOf
<1>6. EventsOnDisk(b) \subseteq Event
    BY <1>1, OnDiskIs
<1> QED BY <1>2, <1>3, <1>4, <1>5, <1>6

-----------------------------------------------------------------------------
(* d is b without some of the files in its queue. *)
Keeping(b, d) ==
    /\ Sound(d)
    /\ d.files \subseteq b.files
    /\ \A x : x \in Entries(d) <=> x \in Entries(b) /\ x.path \in d.files
    /\ \A p \in d.files : d.line[p] = b.line[p]
    /\ \A p \in b.files : p \notin d.files => Listed(b, p)

LEMMA KeepsItself ==
    ASSUME NEW b, Sound(b)
    PROVE  Keeping(b, b)
BY DEF Keeping, Sound

LEMMA KeepsTwice ==
    ASSUME NEW b, NEW c, NEW d, Sound(b), Keeping(b, c), Keeping(c, d)
    PROVE  Keeping(b, d)
<1>1. b \in Buffer /\ c \in Buffer /\ d \in Buffer
    BY DEF Keeping, Sound
<1>2. \A p \in b.files : p \notin d.files => Listed(b, p)
    <2> SUFFICES ASSUME NEW p \in b.files, p \notin d.files, p \in c.files
                 PROVE  Listed(b, p)
        BY DEF Keeping
    <2>1. PICK x \in Entries(c) : x.path = p
        BY <1>1, EntryIs DEF Keeping
    <2> QED BY <1>1, <2>1, EntryIs DEF Keeping
<1> QED BY <1>2 DEF Keeping

LEMMA KeepingEvents ==
    ASSUME NEW b, NEW d, Sound(b), Keeping(b, d)
    PROVE  /\ Due(d) \subseteq Due(b)
           /\ OrphansOf(d) = OrphansOf(b)
           /\ Skipped(d) \subseteq Skipped(b)
<1>1. b \in Buffer /\ d \in Buffer
    BY DEF Keeping, Sound
<1>2. \A x \in Entries(d) : /\ x \in Entries(b)
                            /\ \A j, e : Holds(d, x.path, j, e) <=> Holds(b, x.path, j, e)
    BY DEF Keeping, Holds
<1>3. \A p \in d.files : \A j, e : Holds(d, p, j, e) <=> Holds(b, p, j, e)
    BY DEF Keeping, Holds
<1>4. \A p \in b.files : ~Listed(b, p) <=> p \in d.files /\ ~Listed(d, p)
    BY <1>1, EntryIs DEF Keeping
<1>5. Due(d) \subseteq Due(b)
    BY <1>1, <1>2, DueIs
<1>6. Skipped(d) \subseteq Skipped(b)
    BY <1>1, <1>2, SkippedIs
<1>7. OrphansOf(d) = OrphansOf(b)
    BY <1>3, <1>4 DEF OrphansOf, Keeping
<1> QED BY <1>5, <1>6, <1>7

LEMMA CountIs ==
    ASSUME NEW b \in Buffer, NEW S
    PROVE  CountLines(b, S) \in Nat
<1> DEFINE C == {p \in Unread(b) : b.queue[p[1]].path \in S}
<1>1. C \subseteq Unread(b) /\ IsFiniteSet(Unread(b))
    BY UnreadIs
<1>2. IsFiniteSet(C)
    BY <1>1, FS_Subset
<1> QED BY <1>2, FS_CardinalityType DEF CountLines

LEMMA RemovedIs ==
    ASSUME NEW b \in Buffer, NEW S
    PROVE  /\ Removed(b, S) \in Buffer
           /\ Removed(b, S).files = b.files \ S
           /\ Removed(b, S).queue = b.queue
           /\ Removed(b, S).pending = b.pending
           /\ \A p \in Path : Removed(b, S).line[p] = IF p \in S THEN <<>> ELSE b.line[p]
<1> DEFINE l == [p \in Path |-> IF p \in S THEN <<>> ELSE b.line[p]]
<1>1. \A p \in Path : l[p] = IF p \in S THEN <<>> ELSE b.line[p]
    OBVIOUS
<1>2. \A p \in Path : l[p] \in Seq(Line)
    BY DEF Buffer
<1>3. l \in [Path -> Seq(Line)]
    BY <1>2
<1>4. Removed(b, S) = [b EXCEPT !.files = @ \ S, !.line = l]
    BY DEF Removed
<1> HIDE DEF l
<1>5. Removed(b, S).files = b.files \ S /\ Removed(b, S).line = l /\ Removed(b, S).queue = b.queue
      /\ Removed(b, S).pending = b.pending /\ Removed(b, S) \in Buffer
    BY <1>3, <1>4 DEF Buffer
<1> QED BY <1>1, <1>5

LEMMA DropIs ==
    ASSUME NEW b \in Buffer, NEW S
    PROVE  /\ Drop(b, S) \in Buffer
           /\ Drop(b, S).files = b.files \ S
           /\ Drop(b, S).queue = Picked(b.queue, Outside(b, S))
           /\ Drop(b, S).pending = Monus(b.pending, CountLines(b, S))
           /\ \A p \in Path : Drop(b, S).line[p] = IF p \in S THEN <<>> ELSE b.line[p]
           /\ \A x : x \in Entries(Drop(b, S)) <=> x \in Entries(b) /\ x.path \notin S
           /\ Distinct(b.queue) => Distinct(Drop(b, S).queue)
<1> DEFINE d == Drop(b, S)
           r == Removed(b, S)
           K == Outside(b, S)
           n == Cardinality(K)
           o == Rising(K)
<1>1. r \in Buffer /\ r.files = b.files \ S /\ r.queue = b.queue /\ r.pending = b.pending
      /\ \A p \in Path : r.line[p] = IF p \in S THEN <<>> ELSE b.line[p]
    BY RemovedIs
<1>2. K \subseteq DOMAIN b.queue /\ b.queue \in Seq(Entry)
    BY DEF Outside, Buffer
<1>3. /\ n \in Nat /\ o \in [1..n -> K]
      /\ \A k \in K : \E i \in 1..n : o[i] = k
      /\ \A i, j \in 1..n : i < j => o[i] < o[j]
      /\ \A i \in 1..n : Picked(b.queue, K)[i] = b.queue[o[i]]
      /\ Picked(b.queue, K) \in Seq(Entry) /\ Len(Picked(b.queue, K)) = n
    <2> HIDE DEF K
    <2> DEFINE q == b.queue
    <2>1. q \in Seq(Entry) /\ K \subseteq DOMAIN q
        BY <1>2
    <2> HIDE DEF q
    <2>2. n \in Nat /\ o \in [1..n -> K]
        BY <2>1, PickedIs
    <2>3. \A k \in K : \E i \in 1..n : o[i] = k
        BY <2>1, PickedIs
    <2>4. \A i, j \in 1..n : i < j => o[i] < o[j]
        BY <2>1, PickedIs
    <2>5. \A i \in 1..n : Picked(q, K)[i] = q[o[i]]
        BY <2>1, PickedIs
    <2>6. Picked(q, K) \in Seq(Entry) /\ Len(Picked(q, K)) = n
        BY <2>1, PickedIs
    <2> QED BY <2>2, <2>3, <2>4, <2>5, <2>6 DEF q
<1>4. Monus(b.pending, CountLines(b, S)) \in Nat
    <2>1. b.pending \in Nat /\ CountLines(b, S) \in Nat
        BY CountIs DEF Buffer
    <2> QED BY <2>1 DEF Monus
<1>5. d = [r EXCEPT !.queue = Picked(b.queue, K), !.pending = Monus(b.pending, CountLines(b, S))]
    BY <1>1 DEF Drop
<1>6. /\ d \in Buffer /\ d.files = r.files /\ d.line = r.line /\ d.queue = Picked(b.queue, K)
      /\ d.pending = Monus(b.pending, CountLines(b, S))
    <2> HIDE DEF d, r, K, n, o
    <2> QED BY <1>1, <1>3, <1>4, <1>5 DEF Buffer
<1>7. DOMAIN d.queue = 1..n /\ \A i \in 1..n : d.queue[i] = b.queue[o[i]] /\ o[i] \in K
    <2> HIDE DEF d, r, K, n, o
    <2> QED BY <1>3, <1>6
<1>8. \A x : x \in Entries(d) <=> x \in Entries(b) /\ x.path \notin S
    <2> TAKE x
    <2>1. x \in Entries(d) <=> \E i \in 1..n : x = b.queue[o[i]]
        <3> HIDE DEF d, K, n, o
        <3> QED BY <1>7 DEF Entries
    <2>2. (\E i \in 1..n : x = b.queue[o[i]]) <=> \E k \in K : x = b.queue[k]
        <3> HIDE DEF d, K, n, o
        <3> QED BY <1>3, <1>7
    <2>3. (\E k \in K : x = b.queue[k]) <=> x \in Entries(b) /\ x.path \notin S
        BY DEF Outside, Entries
    <2> QED BY <2>1, <2>2, <2>3
<1>9. Distinct(b.queue) => Distinct(d.queue)
    <2> SUFFICES ASSUME Distinct(b.queue), NEW i \in 1..n, NEW j \in 1..n,
                        d.queue[i].path = d.queue[j].path
                 PROVE  i = j
        BY <1>7 DEF Distinct
    <2>1. o[i] = o[j]
        <3> HIDE DEF d, K, n, o
        <3> QED BY <1>2, <1>7 DEF Distinct
    <2>2. ~(i < j) /\ ~(j < i)
        <3> HIDE DEF d, K, n, o
        <3>1. o[i] \in Nat /\ o[j] \in Nat
            BY <1>2, <1>7, EntryIs
        <3> QED BY <1>3, <2>1, <3>1
    <2>3. i \in Nat /\ j \in Nat
        <3> HIDE DEF n
        <3> QED BY <1>3
    <2> HIDE DEF n
    <2> QED BY <2>2, <2>3
<1> QED BY <1>1, <1>6, <1>8, <1>9

LEMMA DropKeeps ==
    ASSUME NEW b, Sound(b), NEW S, \A p \in S : Listed(b, p)
    PROVE  Keeping(b, Drop(b, S))
<1> DEFINE d == Drop(b, S)
<1>1. b \in Buffer /\ b.files \subseteq Path
    BY DEF Sound, Buffer
<1>2. /\ d \in Buffer /\ d.files = b.files \ S
      /\ \A p \in Path : d.line[p] = IF p \in S THEN <<>> ELSE b.line[p]
      /\ \A x : x \in Entries(d) <=> x \in Entries(b) /\ x.path \notin S
      /\ Distinct(d.queue)
    BY <1>1, DropIs DEF Sound
<1> HIDE DEF d
<1>3. \A x \in Entries(d) : x.path \in d.files /\ d.line[x.path] = b.line[x.path]
    BY <1>1, <1>2 DEF Sound
<1>4. Sound(d)
    BY <1>2, <1>3 DEF Sound
<1>5. \A x : x \in Entries(d) <=> x \in Entries(b) /\ x.path \in d.files
    BY <1>2 DEF Sound
<1>6. \A p \in d.files : d.line[p] = b.line[p]
    BY <1>1, <1>2
<1>7. \A p \in b.files : p \notin d.files => Listed(b, p)
    BY <1>2
<1> QED BY <1>2, <1>4, <1>5, <1>6, <1>7 DEF Keeping, d

LEMMA FirstListed ==
    ASSUME NEW b \in Buffer, NEW k \in 0..Len(b.queue)
    PROVE  \A p \in FirstPaths(b, k) : Listed(b, p)
<1>1. Len(b.queue) \in Nat /\ DOMAIN b.queue = 1..Len(b.queue)
    BY EntryIs
<1>2. \A i \in 1..k : i \in DOMAIN b.queue
    BY <1>1
<1> QED BY <1>2 DEF FirstPaths, Listed

LEMMA NothingBehind ==
    ASSUME NEW b \in Buffer
    PROVE  TotalLines(b, Len(b.queue)) = 0
<1> DEFINE L == Len(b.queue)
           parts == {{i} \X DOMAIN b.line[b.queue[i].path] : i \in (L + 1)..L}
<1>1. L \in Nat
    BY EntryIs
<1>2. (L + 1)..L = {}
    <2> HIDE DEF L
    <2> QED BY <1>1
<1>3. parts = {}
    BY <1>2
<1>4. UNION parts = {}
    BY <1>3
<1> QED BY <1>4, FS_EmptySet DEF TotalLines

LEMMA BytesFit ==
    ASSUME NEW b \in Buffer
    PROVE  LET k == Min({i \in 0..Len(b.queue) : TotalLines(b, i) <= MaxTotal})
           IN  /\ k \in 0..Len(b.queue)
               /\ TotalLines(b, k) <= MaxTotal
               /\ DropBytes(b) = Drop(b, FirstPaths(b, k))
<1> DEFINE N == {i \in 0..Len(b.queue) : TotalLines(b, i) <= MaxTotal}
<1>1. Len(b.queue) \in N
    BY NothingBehind, EntryIs, BufferAssumption
<1>2. N \subseteq Nat
    BY EntryIs
<1>3. Min(N) \in N
    <2> HIDE DEF N
    <2> QED BY <1>1, <1>2, LeastOfNat
<1> QED BY <1>3 DEF DropBytes

LEMMA CountFits ==
    ASSUME NEW b \in Buffer
    PROVE  DropCount(b) = b \/ \E k \in 0..Len(b.queue) : DropCount(b) = Drop(b, FirstPaths(b, k))
<1> DEFINE N == {k \in 0..Len(b.queue) :
              \/ k = Len(b.queue)
              \/ Monus(b.pending, CountLines(b, FirstPaths(b, k))) <= MaxEvents}
<1>1. Len(b.queue) \in N
    BY EntryIs
<1>2. N \subseteq Nat
    BY EntryIs
<1>3. Min(N) \in N
    <2> HIDE DEF N
    <2> QED BY <1>1, <1>2, LeastOfNat
<1>4. DropCount(b) = IF MaxEvents = 0 THEN b ELSE Drop(b, FirstPaths(b, Min(N)))
    BY DEF DropCount
<1>5. Min(N) \in 0..Len(b.queue)
    BY <1>3
<1> HIDE DEF N
<1> QED BY <1>4, <1>5

(* Retention takes listed files and nothing else. *)
LEMMA StaleKeeps ==
    ASSUME NEW b, Sound(b), NEW old
    PROVE  Keeping(b, DropStale(b, old))
<1> DEFINE S == {b.queue[k].path : k \in DOMAIN b.queue} \cap old
<1>1. \A p \in S : Listed(b, p)
    BY DEF Listed
<1>2. DropStale(b, old) = Drop(b, S)
    BY DEF DropStale
<1> HIDE DEF S
<1> QED BY <1>1, <1>2, DropKeeps

LEMMA BytesKeeps ==
    ASSUME NEW b, Sound(b)
    PROVE  Keeping(b, DropBytes(b))
<1>1. b \in Buffer
    BY DEF Sound
<1>2. PICK k \in 0..Len(b.queue) : DropBytes(b) = Drop(b, FirstPaths(b, k))
    BY <1>1, BytesFit
<1> QED BY <1>1, <1>2, FirstListed, DropKeeps

LEMMA CountKeeps ==
    ASSUME NEW b, Sound(b)
    PROVE  Keeping(b, DropCount(b))
<1>1. b \in Buffer
    BY DEF Sound
<1>2. CASE DropCount(b) = b
    BY <1>2, KeepsItself
<1>3. ASSUME NEW k \in 0..Len(b.queue), DropCount(b) = Drop(b, FirstPaths(b, k))
      PROVE  Keeping(b, DropCount(b))
    BY <1>1, <1>3, FirstListed, DropKeeps
<1> QED BY <1>1, <1>2, <1>3, CountFits

LEMMA PrunedKeeps ==
    ASSUME NEW b, Sound(b), NEW old
    PROVE  Keeping(b, Pruned(b, old))
<1> DEFINE c == DropStale(b, old \ {Active})
           d == DropBytes(c)
<1>1. Keeping(b, c) /\ Sound(c)
    BY StaleKeeps DEF Keeping
<1>2. Keeping(c, d) /\ Sound(d)
    BY <1>1, BytesKeeps DEF Keeping
<1>3. Keeping(d, DropCount(d))
    BY <1>2, CountKeeps
<1>4. Pruned(b, old) = DropCount(d)
    BY DEF Pruned
<1> HIDE DEF c, d
<1> QED BY <1>1, <1>2, <1>3, <1>4, KeepsTwice

-----------------------------------------------------------------------------
(* put. *)

LEMMA LinesAre ==
    /\ Event \subseteq Line /\ Event \subseteq Nat /\ Torn \in Line /\ Garbage \in Line
    /\ Torn \notin Event /\ Garbage \notin Event /\ Torn # Garbage
BY BufferAssumption DEF Line, Event, Torn, Garbage

LEMMA ActiveIs == Active \in Path /\ Active.kind = "active"
BY DEF Path, Active

LEMMA WrittenIs ==
    ASSUME NEW b \in Buffer, NEW l \in Line
    PROVE  /\ Written(b, l) \in Buffer
           /\ Written(b, l).files = b.files \cup {Active}
           /\ Written(b, l).queue = b.queue
           /\ Written(b, l).pending = b.pending
           /\ \A p \in Path : p # Active => Written(b, l).line[p] = b.line[p]
           /\ \/ /\ Len(Written(b, l).line[Active]) = Len(b.line[Active])
                 /\ \E j \in 1..Len(b.line[Active]) : b.line[Active][j] = Torn
              \/ /\ Len(Written(b, l).line[Active]) = Len(b.line[Active]) + 1
                 /\ Written(b, l).line[Active][Len(b.line[Active]) + 1] = l
           /\ \A j \in 1..Len(b.line[Active]) : \A e \in Event :
                 Written(b, l).line[Active][j] = e <=> b.line[Active][j] = e
<1> DEFINE old == b.line[Active]
           glued == [old EXCEPT ![Len(old)] = IF l = Torn THEN Torn ELSE Garbage]
           torn == old # <<>> /\ old[Len(old)] = Torn
           new == IF torn THEN glued ELSE Append(old, l)
           w == Written(b, l)
<1>1. old \in Seq(Line) /\ Len(old) \in Nat
    BY ActiveIs DEF Buffer
<1>2. ASSUME torn
      PROVE  /\ glued \in Seq(Line) /\ Len(glued) = Len(old) /\ Len(old) \in 1..Len(old)
             /\ \A j \in 1..Len(old) : \A e \in Event : glued[j] = e <=> old[j] = e
    <2>1. Len(old) \in 1..Len(old)
        <3> HIDE DEF old
        <3> QED BY <1>1, <1>2
    <2>2. glued \in Seq(Line) /\ Len(glued) = Len(old)
        <3> DEFINE v == IF l = Torn THEN Torn ELSE Garbage
        <3>1. v \in Line
            BY LinesAre
        <3>2. glued = [old EXCEPT ![Len(old)] = v]
            OBVIOUS
        <3> HIDE DEF old, glued, v
        <3> QED BY <1>1, <2>1, <3>1, <3>2
    <2>3. glued[Len(old)] \in {Torn, Garbage} /\ old[Len(old)] = Torn
        <3> HIDE DEF old
        <3> QED BY <1>1, <1>2, <2>1
    <2>4. \A j \in 1..Len(old) : j # Len(old) => glued[j] = old[j]
        <3> HIDE DEF old
        <3> QED BY <1>1
    <2> HIDE DEF old, glued
    <2> QED BY <2>1, <2>2, <2>3, <2>4, LinesAre
<1>3. /\ Append(old, l) \in Seq(Line) /\ Len(Append(old, l)) = Len(old) + 1
      /\ Append(old, l)[Len(old) + 1] = l
      /\ \A j \in 1..Len(old) : Append(old, l)[j] = old[j]
    <2> HIDE DEF old
    <2> QED BY <1>1
<1>4. /\ new \in Seq(Line)
      /\ \/ Len(new) = Len(old) /\ \E j \in 1..Len(old) : old[j] = Torn
         \/ Len(new) = Len(old) + 1 /\ new[Len(old) + 1] = l
      /\ \A j \in 1..Len(old) : \A e \in Event : new[j] = e <=> old[j] = e
    <2>1. CASE torn
        <3>1. new = glued
            BY <2>1
        <3>2. old[Len(old)] = Torn
            BY <2>1
        <3>3. /\ glued \in Seq(Line) /\ Len(glued) = Len(old) /\ Len(old) \in 1..Len(old)
              /\ \A j \in 1..Len(old) : \A e \in Event : glued[j] = e <=> old[j] = e
            BY <1>2, <2>1
        <3> HIDE DEF old, glued, new, torn
        <3> QED BY <3>1, <3>2, <3>3
    <2>2. CASE ~torn
        <3>1. new = Append(old, l)
            BY <2>2
        <3> HIDE DEF old, new
        <3> QED BY <1>3, <3>1
    <2> QED BY <2>1, <2>2
<1>5. w = [b EXCEPT !.files = @ \cup {Active}, !.line = [@ EXCEPT ![Active] = new]]
    BY DEF Written
<1> HIDE DEF new, w
<1>6. /\ w.files = b.files \cup {Active} /\ w.queue = b.queue /\ w.pending = b.pending
      /\ w.line = [b.line EXCEPT ![Active] = new]
    BY <1>5 DEF Buffer
<1>7. w.line[Active] = new /\ \A p \in Path : p # Active => w.line[p] = b.line[p]
    BY <1>6, ActiveIs DEF Buffer
<1>8. w \in Buffer
    BY <1>4, <1>5, ActiveIs DEF Buffer
<1>9. w = Written(b, l)
    BY DEF w
<1> HIDE DEF old
<1>10. /\ \/ Len(w.line[Active]) = Len(old) /\ \E j \in 1..Len(old) : old[j] = Torn
          \/ Len(w.line[Active]) = Len(old) + 1 /\ w.line[Active][Len(old) + 1] = l
       /\ \A j \in 1..Len(old) : \A e \in Event : w.line[Active][j] = e <=> old[j] = e
    BY <1>4, <1>7
<1> QED BY <1>6, <1>7, <1>8, <1>9, <1>10 DEF old

LEMMA WrittenHolds ==
    ASSUME NEW b \in Buffer, NEW l \in Line, NEW p \in Path, NEW j, NEW e \in Event
    PROVE  /\ Holds(b, p, j, e) => Holds(Written(b, l), p, j, e)
           /\ Holds(Written(b, l), p, j, e) /\ ~Holds(b, p, j, e) =>
                 p = Active /\ e = l /\ j = Len(b.line[Active]) + 1
<1> DEFINE w == Written(b, l)
           n == Len(b.line[Active])
<1>1. n \in Nat
    BY ActiveIs DEF Buffer
<1>2. CASE p # Active
    <2>1. w.line[p] = b.line[p]
        BY <1>2, WrittenIs
    <2> QED BY <1>2, <2>1 DEF Holds
<1>3. CASE p = Active
    <2> HIDE DEF w
    <2>1. /\ \/ Len(w.line[Active]) = n
             \/ Len(w.line[Active]) = n + 1 /\ w.line[Active][n + 1] = l
          /\ \A i \in 1..n : w.line[Active][i] = e <=> b.line[Active][i] = e
        BY WrittenIs DEF w
    <2> HIDE DEF n
    <2>2. Holds(b, p, j, e) <=> j \in 1..n /\ b.line[Active][j] = e
        BY <1>3 DEF Holds, n
    <2>3. Holds(w, p, j, e) <=> j \in 1..Len(w.line[Active]) /\ w.line[Active][j] = e
        BY <1>3 DEF Holds
    <2>4. Holds(b, p, j, e) => Holds(w, p, j, e)
        BY <1>1, <2>1, <2>2, <2>3
    <2>5. Holds(w, p, j, e) /\ ~Holds(b, p, j, e) => j = n + 1 /\ e = l
        BY <1>1, <2>1, <2>2, <2>3
    <2> QED BY <1>3, <2>4, <2>5 DEF w, n
<1> QED BY <1>2, <1>3

NewEntry == [path |-> Active, off |-> 0]

LEMMA AppendedIs ==
    ASSUME NEW b, Sound(b), NEW e \in Event
    PROVE  /\ Sound(Appended(b, e))
           /\ Appended(b, e).files = b.files \cup {Active}
           /\ Appended(b, e).line = Written(b, e).line
           /\ Appended(b, e).pending = b.pending + 1
           /\ Appended(b, e).queue = IF Listed(b, Active) THEN b.queue ELSE Append(b.queue, NewEntry)
           /\ \A x : x \in Entries(Appended(b, e)) <=>
                        x \in Entries(b) \/ (~Listed(b, Active) /\ x = NewEntry)
<1> DEFINE w == Written(b, e)
           q == IF Listed(b, Active) THEN b.queue ELSE Append(b.queue, NewEntry)
           a == Appended(b, e)
<1>1. b \in Buffer /\ e \in Line
    BY LinesAre DEF Sound
<1>2. /\ w \in Buffer /\ w.files = b.files \cup {Active} /\ w.queue = b.queue
      /\ w.pending = b.pending
      /\ \A p \in Path : p # Active => w.line[p] = b.line[p]
      /\ Len(w.line[Active]) = Len(b.line[Active]) \/ Len(w.line[Active]) = Len(b.line[Active]) + 1
    BY <1>1, WrittenIs
<1>3. a = [w EXCEPT !.queue = q, !.pending = b.pending + 1]
    BY <1>2 DEF Appended, NewEntry
<1>4. b.queue \in Seq(Entry) /\ NewEntry \in Entry /\ b.pending \in Nat
    BY <1>1, ActiveIs DEF Buffer, NewEntry, Entry
<1>5. q \in Seq(Entry)
    BY <1>4
<1> HIDE DEF a, q, w
<1>6. /\ a \in Buffer /\ a.files = b.files \cup {Active} /\ a.line = w.line /\ a.queue = q
      /\ a.pending = b.pending + 1
    <2> DEFINE c == b.pending + 1
    <2>1. c \in Nat
        BY <1>4
    <2>2. a = [w EXCEPT !.queue = q, !.pending = c]
        BY <1>3
    <2> HIDE DEF c
    <2>3. a \in Buffer /\ a.files = w.files /\ a.line = w.line /\ a.queue = q /\ a.pending = c
        BY <1>2, <1>5, <2>1, <2>2 DEF Buffer
    <2> QED BY <1>2, <2>3 DEF c
<1>7. \A x : x \in Entries(a) <=> x \in Entries(b) \/ (~Listed(b, Active) /\ x = NewEntry)
    <2>1. CASE Listed(b, Active)
        BY <1>6, <2>1 DEF Entries, q
    <2>2. CASE ~Listed(b, Active)
        <3>1. /\ DOMAIN a.queue = 1..(Len(b.queue) + 1)
              /\ \A k \in 1..Len(b.queue) : a.queue[k] = b.queue[k]
              /\ a.queue[Len(b.queue) + 1] = NewEntry
            BY <1>4, <1>6, <2>2 DEF q
        <3>2. DOMAIN b.queue = 1..Len(b.queue) /\ Len(b.queue) \in Nat
            BY <1>4
        <3>3. \A k \in DOMAIN a.queue : k \in DOMAIN b.queue \/ k = Len(b.queue) + 1
            BY <3>1, <3>2
        <3>4. Len(b.queue) + 1 \in DOMAIN a.queue /\ DOMAIN b.queue \subseteq DOMAIN a.queue
            BY <3>1, <3>2
        <3> QED BY <2>2, <3>1, <3>2, <3>3, <3>4 DEF Entries
    <2> QED BY <2>1, <2>2
<1>8. Distinct(a.queue)
    <2>1. CASE Listed(b, Active)
        BY <1>6, <2>1 DEF q, Sound
    <2>2. CASE ~Listed(b, Active)
        <3>1. /\ DOMAIN a.queue = 1..(Len(b.queue) + 1)
              /\ \A k \in 1..Len(b.queue) : a.queue[k] = b.queue[k]
              /\ a.queue[Len(b.queue) + 1] = NewEntry
            BY <1>4, <1>6, <2>2 DEF q
        <3>2. DOMAIN b.queue = 1..Len(b.queue) /\ Len(b.queue) \in Nat
            BY <1>4
        <3>3. \A k \in DOMAIN b.queue : b.queue[k].path # Active
            BY <2>2 DEF Listed
        <3>4. NewEntry.path = Active
            BY DEF NewEntry
        <3> SUFFICES ASSUME NEW k \in DOMAIN a.queue, NEW m \in DOMAIN a.queue,
                            a.queue[k].path = a.queue[m].path
                     PROVE  k = m
            BY DEF Distinct
        <3>5. /\ k \in DOMAIN b.queue \/ k = Len(b.queue) + 1
              /\ m \in DOMAIN b.queue \/ m = Len(b.queue) + 1
            BY <3>1, <3>2
        <3> QED BY <3>1, <3>2, <3>3, <3>4, <3>5 DEF Sound, Distinct
    <2> QED BY <2>1, <2>2
<1>9. \A p \in Path : Len(b.line[p]) <= Len(w.line[p])
    <2> TAKE p \in Path
    <2>1. Len(b.line[p]) \in Nat
        BY <1>1 DEF Buffer
    <2> QED BY <1>2, <2>1
<1>10. \A x \in Entries(a) : x.path \in a.files /\ x.off <= Len(a.line[x.path])
    <2> TAKE x \in Entries(a)
    <2>1. x \in Entries(b) \/ x = NewEntry
        BY <1>7
    <2>2. CASE x \in Entries(b)
        <3>1. x.path \in b.files /\ x.off <= Len(b.line[x.path]) /\ x.path \in Path /\ x.off \in Nat
            BY <1>1, <2>2, EntryIs DEF Sound
        <3>2. Len(b.line[x.path]) \in Nat /\ Len(w.line[x.path]) \in Nat
            BY <1>1, <1>2, <3>1 DEF Buffer
        <3> QED BY <1>6, <1>9, <3>1, <3>2
    <2>3. CASE x = NewEntry
        <3>1. x.path = Active /\ x.off = 0
            BY <2>3 DEF NewEntry
        <3>2. Len(w.line[Active]) \in Nat
            BY <1>2, ActiveIs DEF Buffer
        <3> QED BY <1>6, <3>1, <3>2
    <2> QED BY <2>1, <2>2, <2>3
<1>11. \A p \in Path \ a.files : a.line[p] = <<>>
    BY <1>2, <1>6 DEF Sound
<1> QED BY <1>6, <1>7, <1>8, <1>10, <1>11 DEF Sound, a, q, w

(* a holds what b holds, as due as it was there, and perhaps e, due. *)
Gains(b, a, e) ==
    /\ Sound(a)
    /\ Due(b) \subseteq Due(a)
    /\ Due(a) \subseteq Due(b) \cup OrphansOf(b) \cup {e}
    /\ OrphansOf(b) \subseteq Due(a) \cup OrphansOf(a)
    /\ OrphansOf(a) \subseteq OrphansOf(b)
    /\ Skipped(a) \subseteq Skipped(b)
    /\ EventsOnDisk(a) \subseteq EventsOnDisk(b) \cup {e}
    /\ e \in EventsOnDisk(a) => e \in Due(a) \cup EventsOnDisk(b)

LEMMA AppendedGains ==
    ASSUME NEW b, Sound(b), NEW e \in Event
    PROVE  Gains(b, Appended(b, e), e)
<1> DEFINE a == Appended(b, e)
<1>1. b \in Buffer /\ e \in Line
    BY LinesAre DEF Sound
<1>2. /\ Sound(a) /\ a.files = b.files \cup {Active} /\ a.line = Written(b, e).line
      /\ \A x : x \in Entries(a) <=> x \in Entries(b) \/ (~Listed(b, Active) /\ x = NewEntry)
    BY AppendedIs
<1> HIDE DEF a
<1>3. a \in Buffer /\ NewEntry.path = Active /\ NewEntry.off = 0 /\ b.files \subseteq Path
    BY <1>1, <1>2 DEF Sound, NewEntry, Buffer
<1>4. \A p, j, f : Holds(a, p, j, f) <=> Holds(Written(b, e), p, j, f)
    BY <1>2 DEF Holds
<1>5. \A p \in Path : \A j : \A f \in Event : Holds(b, p, j, f) => Holds(a, p, j, f)
    BY <1>1, <1>4, WrittenHolds
<1>6. \A p \in Path : \A j : \A f \in Event : Holds(a, p, j, f) /\ ~Holds(b, p, j, f) =>
          p = Active /\ f = e /\ j = Len(b.line[Active]) + 1
    BY <1>1, <1>4, WrittenHolds
<1>7. \A x \in Entries(a) : x.path \in Path /\ x.off \in Nat
    BY <1>3, EntryIs
<1>8. \A x \in Entries(b) : x.path \in Path /\ x.off \in Nat /\ x.off <= Len(b.line[x.path])
    BY <1>1, EntryIs DEF Sound
<1>9. Due(b) \subseteq Due(a)
    <2> SUFFICES ASSUME NEW f \in Due(b) PROVE f \in Due(a)
        OBVIOUS
    <2>1. f \in Event
        BY <1>1, DueIs
    <2>2. PICK x \in Entries(b) : \E j \in Nat : x.off < j /\ Holds(b, x.path, j, f)
        BY <1>1, DueIs
    <2>3. PICK j \in Nat : x.off < j /\ Holds(b, x.path, j, f)
        BY <2>2
    <2>4. x \in Entries(a) /\ Holds(a, x.path, j, f)
        BY <1>2, <1>5, <1>8, <2>1, <2>3
    <2> QED BY <1>3, <2>1, <2>3, <2>4, DueIs
<1>10. Listed(a, Active) /\ \A p : p # Active => (Listed(a, p) <=> Listed(b, p))
    BY <1>1, <1>2, <1>3, EntryIs
<1>11. OrphansOf(b) \subseteq Due(a) \cup OrphansOf(a)
    <2> SUFFICES ASSUME NEW f \in OrphansOf(b), f \notin OrphansOf(a) PROVE f \in Due(a)
        OBVIOUS
    <2>1. f \in Event
        BY DEF OrphansOf
    <2>2. PICK p \in b.files : \E j \in Nat : ~Listed(b, p) /\ Holds(b, p, j, f)
        BY DEF OrphansOf
    <2>3. PICK j \in Nat : ~Listed(b, p) /\ Holds(b, p, j, f)
        BY <2>2
    <2>4. Holds(a, p, j, f)
        BY <1>3, <1>5, <2>1, <2>3
    <2>5. p = Active
        BY <1>2, <1>10, <2>1, <2>3, <2>4 DEF OrphansOf
    <2>6. NewEntry \in Entries(a) /\ NewEntry.off < j
        BY <1>2, <1>3, <2>3, <2>5 DEF Holds
    <2> QED BY <1>3, <2>1, <2>4, <2>5, <2>6, DueIs
<1>12. Due(a) \subseteq Due(b) \cup OrphansOf(b) \cup {e}
    <2> SUFFICES ASSUME NEW f \in Due(a), f # e PROVE f \in Due(b) \cup OrphansOf(b)
        OBVIOUS
    <2>1. f \in Event
        BY <1>3, DueIs
    <2>2. PICK x \in Entries(a) : \E j \in Nat : x.off < j /\ Holds(a, x.path, j, f)
        BY <1>3, DueIs
    <2>3. PICK j \in Nat : x.off < j /\ Holds(a, x.path, j, f)
        BY <2>2
    <2>4. Holds(b, x.path, j, f)
        BY <1>6, <1>7, <2>1, <2>3
    <2>5. CASE x \in Entries(b)
        BY <1>1, <2>1, <2>3, <2>4, <2>5, DueIs
    <2>6. CASE x = NewEntry /\ ~Listed(b, Active)
        <3>1. Active \in b.files
            <4>1. b.line[Active] # <<>>
                BY <1>3, <2>4, <2>6 DEF Holds
            <4> QED BY <4>1, ActiveIs DEF Sound
        <3> QED BY <1>3, <2>1, <2>4, <2>6, <3>1 DEF OrphansOf
    <2> QED BY <1>2, <2>5, <2>6
<1>13. OrphansOf(a) \subseteq OrphansOf(b)
    <2> SUFFICES ASSUME NEW f \in OrphansOf(a) PROVE f \in OrphansOf(b)
        OBVIOUS
    <2>1. f \in Event
        BY DEF OrphansOf
    <2>2. PICK p \in a.files : \E j \in Nat : ~Listed(a, p) /\ Holds(a, p, j, f)
        BY DEF OrphansOf
    <2>3. PICK j \in Nat : ~Listed(a, p) /\ Holds(a, p, j, f)
        BY <2>2
    <2>4. p # Active /\ p \in b.files /\ ~Listed(b, p)
        BY <1>2, <1>10, <2>3
    <2>5. Holds(b, p, j, f)
        BY <1>3, <1>6, <2>1, <2>3, <2>4
    <2> QED BY <2>1, <2>4, <2>5 DEF OrphansOf
<1>14. Skipped(a) \subseteq Skipped(b)
    <2> SUFFICES ASSUME NEW f \in Skipped(a) PROVE f \in Skipped(b)
        OBVIOUS
    <2>1. f \in Event
        BY <1>3, SkippedIs
    <2>2. PICK x \in Entries(a) : \E j \in Nat : j <= x.off /\ Holds(a, x.path, j, f)
        BY <1>3, SkippedIs
    <2>3. PICK j \in Nat : j <= x.off /\ Holds(a, x.path, j, f)
        BY <2>2
    <2>4. x # NewEntry
        BY <1>3, <2>3 DEF Holds
    <2>5. x \in Entries(b)
        BY <1>2, <2>4
    <2>6. Holds(b, x.path, j, f)
        <3>1. x.off <= Len(b.line[x.path]) /\ Len(b.line[x.path]) \in Nat /\ x.off \in Nat
            BY <1>1, <1>8, <2>5 DEF Buffer
        <3>2. ~(x.path = Active /\ j = Len(b.line[Active]) + 1)
            BY <2>3, <3>1
        <3> QED BY <1>6, <1>7, <2>1, <2>3, <3>2
    <2> QED BY <1>1, <2>1, <2>3, <2>5, <2>6, SkippedIs
<1>15. EventsOnDisk(a) \subseteq EventsOnDisk(b) \cup {e}
    BY <1>9, <1>12, <1>13, <1>14, <1>2, OnDiskSplits
<1>16. e \in EventsOnDisk(a) => e \in Due(a) \cup EventsOnDisk(b)
    BY <1>13, <1>14, <1>2, OnDiskSplits
<1> QED BY <1>2, <1>9, <1>11, <1>12, <1>13, <1>14, <1>15, <1>16 DEF Gains, a

(* An append that raises. *)
LEMMA FailedIs ==
    ASSUME NEW b, Sound(b), NEW torn \in BOOLEAN
    PROVE  /\ Sound(AppendFailed(b, torn))
           /\ AppendFailed(b, torn).files = IF torn THEN b.files \cup {Active} ELSE b.files
           /\ AppendFailed(b, torn).line = IF torn THEN Written(b, Torn).line ELSE b.line
           /\ AppendFailed(b, torn).queue = b.queue
<1> DEFINE w == Written(b, Torn)
           c == b.pending + 1
           a == AppendFailed(b, torn)
<1>1. b \in Buffer /\ Torn \in Line /\ b.pending \in Nat /\ c \in Nat
    BY LinesAre DEF Sound, Buffer
<1>2. /\ w \in Buffer /\ w.files = b.files \cup {Active} /\ w.queue = b.queue
      /\ \A p \in Path : p # Active => w.line[p] = b.line[p]
      /\ Len(w.line[Active]) = Len(b.line[Active]) \/ Len(w.line[Active]) = Len(b.line[Active]) + 1
    BY <1>1, WrittenIs
<1>3. a = [(IF torn THEN w ELSE b) EXCEPT !.pending = c]
    <2>1. w.pending = b.pending
        BY <1>1, WrittenIs
    <2> QED BY <2>1 DEF AppendFailed
<1> HIDE DEF a, c, w
<1>4. /\ a \in Buffer /\ a.files = (IF torn THEN w.files ELSE b.files)
      /\ a.line = (IF torn THEN w.line ELSE b.line) /\ a.queue = b.queue
    <2>1. CASE torn
        BY <1>1, <1>2, <1>3, <2>1 DEF Buffer
    <2>2. CASE ~torn
        BY <1>1, <1>2, <1>3, <2>2 DEF Buffer
    <2> QED BY <2>1, <2>2
<1>5. Entries(a) = Entries(b) /\ Distinct(a.queue)
    BY <1>4 DEF Entries, Sound
<1>6. \A p \in Path : Len(b.line[p]) <= Len(a.line[p]) /\ Len(b.line[p]) \in Nat /\ Len(a.line[p]) \in Nat
    <2> TAKE p \in Path
    <2>1. Len(b.line[p]) \in Nat /\ Len(a.line[p]) \in Nat
        BY <1>1, <1>4 DEF Buffer
    <2>2. Len(w.line[p]) = Len(b.line[p]) \/ Len(w.line[p]) = Len(b.line[p]) + 1
        BY <1>2
    <2> QED BY <1>4, <2>1, <2>2
<1>7. \A x \in Entries(a) : x.path \in a.files /\ x.off <= Len(a.line[x.path])
    <2> TAKE x \in Entries(a)
    <2>1. x.path \in b.files /\ x.off <= Len(b.line[x.path]) /\ x.path \in Path /\ x.off \in Nat
        BY <1>1, <1>5, EntryIs DEF Sound
    <2> QED BY <1>2, <1>4, <1>6, <2>1
<1>8. \A p \in Path \ a.files : a.line[p] = <<>>
    BY <1>2, <1>4 DEF Sound
<1> QED BY <1>2, <1>4, <1>5, <1>7, <1>8 DEF Sound, a, w

LEMMA FailedGains ==
    ASSUME NEW b, Sound(b), NEW torn \in BOOLEAN, NEW e \in Event
    PROVE  Gains(b, AppendFailed(b, torn), e) /\ EventsOnDisk(AppendFailed(b, torn)) \subseteq EventsOnDisk(b)
<1> DEFINE a == AppendFailed(b, torn)
<1>1. b \in Buffer /\ Torn \in Line /\ Torn \notin Event /\ b.files \subseteq Path
    BY LinesAre DEF Sound, Buffer
<1>2. /\ Sound(a) /\ a.files = (IF torn THEN b.files \cup {Active} ELSE b.files)
      /\ a.line = (IF torn THEN Written(b, Torn).line ELSE b.line) /\ a.queue = b.queue
    BY FailedIs
<1> HIDE DEF a
<1>3. a \in Buffer /\ Entries(a) = Entries(b) /\ (\A p : Listed(a, p) <=> Listed(b, p))
    BY <1>2 DEF Sound, Entries, Listed
<1>4. \A p \in Path : \A j : \A f \in Event : Holds(a, p, j, f) <=> Holds(b, p, j, f)
    <2> TAKE p \in Path
    <2> TAKE j
    <2> TAKE f \in Event
    <2>1. CASE torn
        <3>1. Holds(a, p, j, f) <=> Holds(Written(b, Torn), p, j, f)
            BY <1>2, <2>1 DEF Holds
        <3> QED BY <1>1, <3>1, WrittenHolds
    <2>2. CASE ~torn
        BY <1>2, <2>2 DEF Holds
    <2> QED BY <2>1, <2>2
<1>5. \A x \in Entries(b) : x.path \in Path
    BY <1>1, EntryIs
<1>6. Due(a) = Due(b)
    BY <1>1, <1>3, <1>4, <1>5, DueIs
<1>7. Skipped(a) = Skipped(b)
    BY <1>1, <1>3, <1>4, <1>5, SkippedIs
<1>8. OrphansOf(a) = OrphansOf(b)
    <2>1. \A f \in Event, j \in Nat : ~Holds(b, Active, j, f) \/ Active \in b.files
        <3> TAKE f \in Event, j \in Nat
        <3>1. CASE Active \notin b.files
            <4>1. b.line[Active] = <<>>
                BY <3>1, ActiveIs DEF Sound
            <4> QED BY <4>1 DEF Holds
        <3> QED BY <3>1
    <2>2. \A p \in a.files : p \in Path /\ (p \in b.files \/ p = Active)
        BY <1>1, <1>2, ActiveIs
    <2>3. b.files \subseteq a.files
        BY <1>2
    <2> QED BY <1>1, <1>3, <1>4, <2>1, <2>2, <2>3 DEF OrphansOf
<1>9. EventsOnDisk(a) \subseteq EventsOnDisk(b)
    BY <1>2, <1>6, <1>7, <1>8, OnDiskSplits
<1> QED BY <1>2, <1>6, <1>7, <1>8, <1>9 DEF Gains, a

(* Rotation renames the active file, in the directory and in the queue. *)
Renamed(x, name) == IF x.path = Active THEN [x EXCEPT !.path = name] ELSE x

LEMMA RotatedIs ==
    ASSUME NEW b, Sound(b), NEW name \in Path, name \notin b.files, MustRotate(b)
    PROVE  /\ Sound(Rotated(b, name))
           /\ Rotated(b, name).files = (b.files \ {Active}) \cup {name}
           /\ Rotated(b, name).pending = b.pending
           /\ \A p \in Path : Rotated(b, name).line[p] =
                 IF p = Active THEN <<>> ELSE IF p = name THEN b.line[Active] ELSE b.line[p]
           /\ DOMAIN Rotated(b, name).queue = DOMAIN b.queue
           /\ \A k \in DOMAIN b.queue : Rotated(b, name).queue[k] = Renamed(b.queue[k], name)
           /\ \A x : x \in Entries(Rotated(b, name)) <=> \E y \in Entries(b) : x = Renamed(y, name)
<1> DEFINE r == Rotated(b, name)
           q == [k \in DOMAIN b.queue |-> Renamed(b.queue[k], name)]
           l == [b.line EXCEPT ![name] = b.line[Active], ![Active] = <<>>]
<1>1. b \in Buffer /\ Active \in b.files /\ name # Active /\ b.files \subseteq Path
    BY DEF Sound, MustRotate, Buffer
<1>2. r = [b EXCEPT !.files = (@ \ {Active}) \cup {name}, !.line = l, !.queue = q]
    BY DEF Rotated, Renamed
<1>3. \A x \in Entry : Renamed(x, name) \in Entry /\ Renamed(x, name).off = x.off
                       /\ Renamed(x, name).path = IF x.path = Active THEN name ELSE x.path
    BY DEF Renamed, Entry
<1>4. b.queue \in Seq(Entry) /\ b.line \in [Path -> Seq(Line)]
    BY <1>1 DEF Buffer
<1>5. DOMAIN q = DOMAIN b.queue /\ \A k \in DOMAIN b.queue : q[k] = Renamed(b.queue[k], name)
    OBVIOUS
<1>6. q \in Seq(Entry)
    BY <1>3, <1>4
<1>7. \A p \in Path : l[p] = IF p = Active THEN <<>> ELSE IF p = name THEN b.line[Active] ELSE b.line[p]
    BY <1>1, <1>4, ActiveIs
<1>8. l \in [Path -> Seq(Line)]
    BY <1>4, ActiveIs
<1> HIDE DEF r, q, l
<1>9. /\ r \in Buffer /\ r.files = (b.files \ {Active}) \cup {name} /\ r.line = l /\ r.queue = q
      /\ r.pending = b.pending
    <2> DEFINE F == (b.files \ {Active}) \cup {name}
    <2>1. F \subseteq Path /\ r = [b EXCEPT !.files = F, !.line = l, !.queue = q]
        BY <1>1, <1>2
    <2> HIDE DEF F
    <2>2. r \in Buffer /\ r.files = F /\ r.line = l /\ r.queue = q /\ r.pending = b.pending
        BY <1>1, <1>6, <1>8, <2>1 DEF Buffer
    <2> QED BY <2>2 DEF F
<1>10. \A x : x \in Entries(r) <=> \E y \in Entries(b) : x = Renamed(y, name)
    BY <1>5, <1>9 DEF Entries
<1>11. \A k \in DOMAIN b.queue : b.queue[k] \in Entry /\ b.queue[k].path # name
    BY <1>1, EntryIs DEF Sound
<1>12. Distinct(r.queue)
    <2> SUFFICES ASSUME NEW k \in DOMAIN b.queue, NEW m \in DOMAIN b.queue, q[k].path = q[m].path
                 PROVE  k = m
        BY <1>5, <1>9 DEF Distinct
    <2>1. b.queue[k].path = b.queue[m].path
        BY <1>3, <1>5, <1>11
    <2> QED BY <2>1 DEF Sound, Distinct
<1>13. \A x \in Entries(r) : x.path \in r.files /\ x.off <= Len(r.line[x.path])
    <2> TAKE x \in Entries(r)
    <2>1. PICK y \in Entries(b) : x = Renamed(y, name)
        BY <1>10
    <2>2. y \in Entry /\ y.path \in b.files /\ y.off <= Len(b.line[y.path]) /\ y.path \in Path
        BY <1>1, EntryIs DEF Sound
    <2>3. x.off = y.off /\ x.path = IF y.path = Active THEN name ELSE y.path
        BY <1>3, <2>1, <2>2
    <2>4. CASE y.path = Active
        BY <1>1, <1>7, <1>9, <2>2, <2>3, <2>4
    <2>5. CASE y.path # Active
        BY <1>7, <1>9, <2>2, <2>3, <2>5
    <2> QED BY <2>4, <2>5
<1>14. \A p \in Path \ r.files : r.line[p] = <<>>
    BY <1>7, <1>9 DEF Sound
<1> QED BY <1>5, <1>7, <1>9, <1>10, <1>12, <1>13, <1>14 DEF Sound, r

LEMMA RotatedEvents ==
    ASSUME NEW b, Sound(b), NEW name \in Path, name \notin b.files, MustRotate(b)
    PROVE  /\ Due(Rotated(b, name)) = Due(b)
           /\ OrphansOf(Rotated(b, name)) = OrphansOf(b)
           /\ Skipped(Rotated(b, name)) = Skipped(b)
<1> DEFINE r == Rotated(b, name)
           to(p) == IF p = Active THEN name ELSE p
<1>1. b \in Buffer /\ Active \in b.files /\ name # Active /\ b.files \subseteq Path
    BY DEF Sound, MustRotate, Buffer
<1>2. /\ Sound(r) /\ r.files = (b.files \ {Active}) \cup {name}
      /\ \A p \in Path : r.line[p] =
            IF p = Active THEN <<>> ELSE IF p = name THEN b.line[Active] ELSE b.line[p]
      /\ \A x : x \in Entries(r) <=> \E y \in Entries(b) : x = Renamed(y, name)
    BY RotatedIs
<1> HIDE DEF r
<1>3. r \in Buffer
    BY <1>2 DEF Sound
<1>4. \A p \in b.files : \A j, f : Holds(r, to(p), j, f) <=> Holds(b, p, j, f)
    <2> TAKE p \in b.files
    <2>1. r.line[to(p)] = b.line[p]
        BY <1>1, <1>2
    <2> QED BY <2>1 DEF Holds
<1>5. \A p \in b.files : to(p) \in r.files
    BY <1>2
<1>6. \A p \in r.files : \E o \in b.files : p = to(o)
    BY <1>1, <1>2
<1>7. \A y \in Entries(b) : /\ y.path \in b.files /\ y.off \in Nat
                            /\ Renamed(y, name).path = to(y.path)
                            /\ Renamed(y, name).off = y.off
    <2> TAKE y \in Entries(b)
    <2>1. y \in Entry /\ y.path \in b.files
        BY <1>1, EntryIs DEF Sound
    <2> QED BY <2>1 DEF Renamed, Entry
<1>8. \A p \in b.files : Listed(r, to(p)) <=> Listed(b, p)
    <2> TAKE p \in b.files
    <2>1. Listed(r, to(p)) <=> \E x \in Entries(r) : x.path = to(p)
        BY <1>3, EntryIs
    <2>2. (\E x \in Entries(r) : x.path = to(p)) <=> \E y \in Entries(b) : to(y.path) = to(p)
        <3> HIDE DEF to
        <3> QED BY <1>2, <1>7
    <2>3. \A y \in Entries(b) : y.path # name
        BY <1>7
    <2>4. (\E y \in Entries(b) : to(y.path) = to(p)) <=> \E y \in Entries(b) : y.path = p
        BY <1>1, <2>3
    <2> HIDE DEF to
    <2> QED BY <1>1, <2>1, <2>2, <2>4, EntryIs
<1> HIDE DEF to
<1>9. ASSUME NEW f
      PROVE  f \in Due(r) <=> f \in Due(b)
    <2>1. f \in Due(r) <=> f \in Event /\ \E x \in Entries(r) : \E j \in Nat : x.off < j /\ Holds(r, x.path, j, f)
        BY <1>3, DueIs
    <2>2. f \in Due(b) <=> f \in Event /\ \E x \in Entries(b) : \E j \in Nat : x.off < j /\ Holds(b, x.path, j, f)
        BY <1>1, DueIs
    <2>3. ASSUME NEW y \in Entries(b), NEW j \in Nat
          PROVE  y.off < j /\ Holds(b, y.path, j, f) <=> Renamed(y, name).off < j /\ Holds(r, Renamed(y, name).path, j, f)
        BY <1>4, <1>7
    <2> QED BY <1>2, <2>1, <2>2, <2>3
<1>10. ASSUME NEW f
       PROVE  f \in Skipped(r) <=> f \in Skipped(b)
    <2>1. f \in Skipped(r) <=> f \in Event /\ \E x \in Entries(r) : \E j \in Nat : j <= x.off /\ Holds(r, x.path, j, f)
        BY <1>3, SkippedIs
    <2>2. f \in Skipped(b) <=> f \in Event /\ \E x \in Entries(b) : \E j \in Nat : j <= x.off /\ Holds(b, x.path, j, f)
        BY <1>1, SkippedIs
    <2>3. ASSUME NEW y \in Entries(b), NEW j \in Nat
          PROVE  j <= y.off /\ Holds(b, y.path, j, f) <=> j <= Renamed(y, name).off /\ Holds(r, Renamed(y, name).path, j, f)
        BY <1>4, <1>7
    <2> QED BY <1>2, <2>1, <2>2, <2>3
<1>11. OrphansOf(r) = OrphansOf(b)
    <2>1. ASSUME NEW p \in b.files, NEW j \in Nat, NEW f
          PROVE  ~Listed(b, p) /\ Holds(b, p, j, f) <=> ~Listed(r, to(p)) /\ Holds(r, to(p), j, f)
        BY <1>4, <1>8
    <2>2. ASSUME NEW f \in Event
          PROVE  (\E p \in b.files : \E j \in Nat : ~Listed(b, p) /\ Holds(b, p, j, f))
                 <=> \E p \in r.files : \E j \in Nat : ~Listed(r, p) /\ Holds(r, p, j, f)
        BY <1>5, <1>6, <2>1
    <2> QED BY <2>2 DEF OrphansOf
<1> QED BY <1>9, <1>10, <1>11 DEF r

-----------------------------------------------------------------------------
(* restore. *)
LEMMA RestoreWrittenIs ==
    ASSUME NEW b, Sound(b), NEW batch \in Seq(Event), NEW name \in Path, name \notin b.files
    PROVE  /\ Sound(RestoreWritten(b, batch, name))
           /\ RestoreWritten(b, batch, name).files = b.files \cup {name}
           /\ RestoreWritten(b, batch, name).queue = b.queue
           /\ RestoreWritten(b, batch, name).pending = b.pending
           /\ \A p \in Path : RestoreWritten(b, batch, name).line[p] =
                                 IF p = name THEN batch ELSE b.line[p]
<1> DEFINE w == RestoreWritten(b, batch, name)
           l == [b.line EXCEPT ![name] = batch]
           F == b.files \cup {name}
<1>1. b \in Buffer /\ b.files \subseteq Path /\ b.line \in [Path -> Seq(Line)]
    BY DEF Sound, Buffer
<1>2. batch \in Seq(Line)
    <2>1. Event \subseteq Line
        BY LinesAre
    <2>2. \A i \in 1..Len(batch) : batch[i] \in Line
        BY <2>1
    <2> QED BY <2>2
<1>3. F \subseteq Path /\ l \in [Path -> Seq(Line)]
      /\ \A p \in Path : l[p] = IF p = name THEN batch ELSE b.line[p]
    BY <1>1, <1>2
<1>4. w = [b EXCEPT !.files = F, !.line = l]
    BY DEF RestoreWritten
<1> HIDE DEF w, l, F
<1>5. w \in Buffer /\ w.files = F /\ w.queue = b.queue /\ w.pending = b.pending /\ w.line = l
    BY <1>1, <1>3, <1>4 DEF Buffer
<1>6. Entries(w) = Entries(b) /\ Distinct(w.queue)
    BY <1>5 DEF Entries, Sound
<1>7. \A x \in Entries(w) : x.path \in w.files /\ x.off <= Len(w.line[x.path])
    BY <1>1, <1>3, <1>5, <1>6 DEF Sound, F
<1>8. \A p \in Path \ w.files : w.line[p] = <<>>
    BY <1>3, <1>5 DEF Sound, F
<1> QED BY <1>3, <1>5, <1>6, <1>7, <1>8 DEF Sound, w, F

LEMMA RestoreWrittenEvents ==
    ASSUME NEW b, Sound(b), NEW batch \in Seq(Event), NEW name \in Path, name \notin b.files
    PROVE  /\ Due(RestoreWritten(b, batch, name)) = Due(b)
           /\ OrphansOf(RestoreWritten(b, batch, name)) = OrphansOf(b) \cup Range(batch)
           /\ Skipped(RestoreWritten(b, batch, name)) = Skipped(b)
<1> DEFINE w == RestoreWritten(b, batch, name)
<1>1. /\ Sound(w) /\ w.files = b.files \cup {name} /\ w.queue = b.queue
      /\ \A p \in Path : w.line[p] = IF p = name THEN batch ELSE b.line[p]
    BY RestoreWrittenIs
<1> HIDE DEF w
<1>2. b \in Buffer /\ w \in Buffer /\ b.files \subseteq Path
    BY <1>1 DEF Sound, Buffer
<1>3. Entries(w) = Entries(b) /\ (\A p : Listed(w, p) <=> Listed(b, p))
    BY <1>1 DEF Entries, Listed
<1>4. \A p \in b.files : \A j, f : Holds(w, p, j, f) <=> Holds(b, p, j, f)
    BY <1>1, <1>2 DEF Holds
<1>5. \A x \in Entries(b) : x.path \in b.files
    BY DEF Sound
<1>6. Due(w) = Due(b)
    BY <1>2, <1>3, <1>4, <1>5, DueIs
<1>7. Skipped(w) = Skipped(b)
    BY <1>2, <1>3, <1>4, <1>5, SkippedIs
<1>8. \A f : (\E j \in Nat : Holds(w, name, j, f)) <=> f \in Range(batch)
    <2> TAKE f
    <2>1. w.line[name] = batch /\ Len(batch) \in Nat /\ DOMAIN batch = 1..Len(batch)
        BY <1>1
    <2> QED BY <2>1 DEF Holds, Range
<1>9. ~Listed(w, name)
    BY <1>2, <1>3, <1>5, EntryIs
<1>10. \A f \in Range(batch) : f \in Event
    BY DEF Range
<1>11. OrphansOf(w) = OrphansOf(b) \cup Range(batch)
    <2>1. ASSUME NEW f \in Event
          PROVE  (\E p \in w.files : \E j \in Nat : ~Listed(w, p) /\ Holds(w, p, j, f))
                 <=> \/ \E p \in b.files : \E j \in Nat : ~Listed(b, p) /\ Holds(b, p, j, f)
                     \/ f \in Range(batch)
        <3>1. (\E p \in w.files : \E j \in Nat : ~Listed(w, p) /\ Holds(w, p, j, f))
              <=> \/ \E p \in b.files : \E j \in Nat : ~Listed(w, p) /\ Holds(w, p, j, f)
                  \/ \E j \in Nat : ~Listed(w, name) /\ Holds(w, name, j, f)
            BY <1>1
        <3> QED BY <1>3, <1>4, <1>8, <1>9, <3>1
    <2> QED BY <1>10, <2>1 DEF OrphansOf
<1> QED BY <1>6, <1>7, <1>11 DEF w

FrontEntry(name) == [path |-> name, off |-> 0]

LEMMA RestoredIs ==
    ASSUME NEW b, Sound(b), NEW batch \in Seq(Event), NEW name \in Path, name \notin b.files
    PROVE  /\ Sound(Restored(b, batch, name))
           /\ Restored(b, batch, name).files = b.files \cup {name}
           /\ Restored(b, batch, name).pending = b.pending + Len(batch)
           /\ \A p \in Path : Restored(b, batch, name).line[p] =
                                 IF p = name THEN batch ELSE b.line[p]
           /\ Len(Restored(b, batch, name).queue) = Len(b.queue) + 1
           /\ Restored(b, batch, name).queue[1] = FrontEntry(name)
           /\ \A k \in 1..Len(b.queue) : Restored(b, batch, name).queue[k + 1] = b.queue[k]
           /\ \A x : x \in Entries(Restored(b, batch, name)) <=>
                        x \in Entries(b) \/ x = FrontEntry(name)
<1> DEFINE w == RestoreWritten(b, batch, name)
           first == FrontEntry(name)
           q == <<first>> \o b.queue
           c == b.pending + Len(batch)
           r == Restored(b, batch, name)
<1>1. /\ Sound(w) /\ w.files = b.files \cup {name} /\ w.queue = b.queue /\ w.pending = b.pending
      /\ \A p \in Path : w.line[p] = IF p = name THEN batch ELSE b.line[p]
    BY RestoreWrittenIs
<1>2. b \in Buffer /\ w \in Buffer /\ b.files \subseteq Path /\ b.queue \in Seq(Entry) /\ b.pending \in Nat
    BY <1>1 DEF Sound, Buffer
<1>3. first \in Entry /\ first.path = name /\ first.off = 0 /\ c \in Nat
    BY <1>2 DEF Entry, FrontEntry
<1>4. r = [w EXCEPT !.queue = q, !.pending = c]
    BY <1>1 DEF Restored, FrontEntry
<1> HIDE DEF w, first, r, c
<1>5. /\ q \in Seq(Entry) /\ Len(q) = Len(b.queue) + 1 /\ q[1] = first
      /\ \A k \in 1..Len(b.queue) : q[k + 1] = b.queue[k]
    BY <1>2, <1>3
<1> HIDE DEF q
<1>6. r \in Buffer /\ r.files = w.files /\ r.line = w.line /\ r.queue = q /\ r.pending = c
    BY <1>2, <1>3, <1>4, <1>5 DEF Buffer
<1>7. /\ DOMAIN q = 1..(Len(b.queue) + 1) /\ Len(b.queue) \in Nat /\ DOMAIN b.queue = 1..Len(b.queue)
      /\ \A k \in DOMAIN q : k = 1 \/ (k - 1 \in DOMAIN b.queue /\ q[k] = b.queue[k - 1])
    <2>1. Len(b.queue) \in Nat /\ DOMAIN b.queue = 1..Len(b.queue) /\ DOMAIN q = 1..(Len(b.queue) + 1)
        BY <1>2, <1>5
    <2>2. \A k \in DOMAIN q : k = 1 \/ (k - 1 \in DOMAIN b.queue /\ q[k] = b.queue[k - 1])
        <3> TAKE k \in DOMAIN q
        <3>1. k = 1 \/ (k - 1 \in 1..Len(b.queue) /\ (k - 1) + 1 = k)
            BY <2>1
        <3> QED BY <1>5, <2>1, <3>1
    <2> QED BY <2>1, <2>2
<1>8. \A x : x \in Entries(r) <=> x \in Entries(b) \/ x = first
    <2>1. \A k \in DOMAIN b.queue : k + 1 \in DOMAIN q /\ q[k + 1] = b.queue[k]
        BY <1>5, <1>7
    <2>2. 1 \in DOMAIN q
        BY <1>7
    <2>3. \A x : x \in Entries(r) <=> \E k \in DOMAIN q : x = q[k]
        BY <1>6 DEF Entries
    <2>4. \A x : x \in Entries(b) <=> \E k \in DOMAIN b.queue : x = b.queue[k]
        BY DEF Entries
    <2>5. \A x : (\E k \in DOMAIN q : x = q[k]) => x \in Entries(b) \/ x = first
        BY <1>5, <1>7, <2>4
    <2>6. \A x : x \in Entries(b) \/ x = first => \E k \in DOMAIN q : x = q[k]
        <3>1. \A x : x \in Entries(b) => \E k \in DOMAIN q : x = q[k]
            BY <2>1, <2>4
        <3>2. first = q[1]
            BY <1>5
        <3> QED BY <2>2, <3>1, <3>2
    <2> QED BY <2>3, <2>5, <2>6
<1>9. \A k \in DOMAIN b.queue : b.queue[k].path # name
    BY <1>2, EntryIs DEF Sound
<1>10. Distinct(r.queue)
    <2> SUFFICES ASSUME NEW k \in DOMAIN q, NEW m \in DOMAIN q, q[k].path = q[m].path
                 PROVE  k = m
        BY <1>6 DEF Distinct
    <2>1. k \in Nat /\ m \in Nat
        BY <1>7
    <2>2. CASE k = 1 \/ m = 1
        BY <1>3, <1>5, <1>7, <1>9, <2>2
    <2>3. CASE k # 1 /\ m # 1
        <3>1. k - 1 = m - 1
            BY <1>7, <2>3 DEF Sound, Distinct
        <3> QED BY <2>1, <3>1
    <2> QED BY <2>2, <2>3
<1>11. \A x \in Entries(r) : x.path \in r.files /\ x.off <= Len(r.line[x.path])
    <2>1. \A x \in Entries(w) : x.path \in w.files /\ x.off <= Len(w.line[x.path])
        BY <1>1 DEF Sound
    <2>2. Entries(w) = Entries(b)
        BY <1>1 DEF Entries
    <2>3. Len(w.line[name]) \in Nat
        BY <1>2 DEF Buffer
    <2> QED BY <1>1, <1>3, <1>6, <1>8, <2>1, <2>2, <2>3
<1>12. \A p \in Path \ r.files : r.line[p] = <<>>
    BY <1>1, <1>6 DEF Sound
<1> QED BY <1>1, <1>5, <1>6, <1>8, <1>10, <1>11, <1>12 DEF Sound, r, first, c

LEMMA RestoredEvents ==
    ASSUME NEW b, Sound(b), NEW batch \in Seq(Event), NEW name \in Path, name \notin b.files
    PROVE  /\ Due(Restored(b, batch, name)) = Due(b) \cup Range(batch)
           /\ OrphansOf(Restored(b, batch, name)) = OrphansOf(b)
           /\ Skipped(Restored(b, batch, name)) = Skipped(b)
<1> DEFINE r == Restored(b, batch, name)
           first == FrontEntry(name)
<1>1. /\ Sound(r) /\ r.files = b.files \cup {name}
      /\ \A p \in Path : r.line[p] = IF p = name THEN batch ELSE b.line[p]
      /\ \A x : x \in Entries(r) <=> x \in Entries(b) \/ x = first
    <2> HIDE DEF r
    <2>1. Sound(r) /\ r.files = b.files \cup {name}
        BY RestoredIs DEF r
    <2>2. \A p \in Path : r.line[p] = IF p = name THEN batch ELSE b.line[p]
        BY RestoredIs DEF r
    <2>3. \A x : x \in Entries(r) <=> x \in Entries(b) \/ x = first
        BY RestoredIs DEF r
    <2> QED BY <2>1, <2>2, <2>3
<1>2. first.path = name /\ first.off = 0
    BY DEF FrontEntry
<1> HIDE DEF r, first
<1>3. b \in Buffer /\ r \in Buffer /\ b.files \subseteq Path
    BY <1>1 DEF Sound, Buffer
<1>4. \A p \in b.files : \A j, f : Holds(r, p, j, f) <=> Holds(b, p, j, f)
    BY <1>1, <1>3 DEF Holds
<1>5. \A x \in Entries(b) : x.path \in b.files
    BY DEF Sound
<1>6. \A f : (\E j \in Nat : Holds(r, name, j, f)) <=> f \in Range(batch)
    <2> TAKE f
    <2>1. r.line[name] = batch /\ Len(batch) \in Nat /\ DOMAIN batch = 1..Len(batch)
        BY <1>1
    <2> QED BY <2>1 DEF Holds, Range
<1>7. \A j, f : Holds(r, name, j, f) => j \in Nat /\ 0 < j
    BY DEF Holds
<1>8. \A f \in Range(batch) : f \in Event
    BY DEF Range
<1>9. ASSUME NEW f
      PROVE  f \in Due(r) <=> f \in Due(b) \cup Range(batch)
    <2>1. f \in Due(r) <=> f \in Event /\ \E x \in Entries(r) : \E j \in Nat : x.off < j /\ Holds(r, x.path, j, f)
        BY <1>3, DueIs
    <2>2. f \in Due(b) <=> f \in Event /\ \E x \in Entries(b) : \E j \in Nat : x.off < j /\ Holds(r, x.path, j, f)
        BY <1>3, <1>4, <1>5, DueIs
    <2>3. f \in Range(batch) <=> \E j \in Nat : first.off < j /\ Holds(r, first.path, j, f)
        BY <1>2, <1>6, <1>7
    <2> QED BY <1>1, <1>8, <2>1, <2>2, <2>3
<1>10. ASSUME NEW f
       PROVE  f \in Skipped(r) <=> f \in Skipped(b)
    <2>1. f \in Skipped(r) <=> f \in Event /\ \E x \in Entries(r) : \E j \in Nat : j <= x.off /\ Holds(r, x.path, j, f)
        BY <1>3, SkippedIs
    <2>2. f \in Skipped(b) <=> f \in Event /\ \E x \in Entries(b) : \E j \in Nat : j <= x.off /\ Holds(r, x.path, j, f)
        BY <1>3, <1>4, <1>5, SkippedIs
    <2>3. ~\E j \in Nat : j <= first.off /\ Holds(r, first.path, j, f)
        BY <1>2, <1>7
    <2> QED BY <1>1, <2>1, <2>2, <2>3
<1>11. \A p \in b.files : Listed(r, p) <=> Listed(b, p)
    <2> TAKE p \in b.files
    <2>1. p # name
        OBVIOUS
    <2> QED BY <1>1, <1>2, <1>3, <2>1, EntryIs
<1>12. Listed(r, name)
    BY <1>1, <1>2, <1>3, EntryIs
<1>13. OrphansOf(r) = OrphansOf(b)
    <2>1. ASSUME NEW f \in Event
          PROVE  (\E p \in r.files : \E j \in Nat : ~Listed(r, p) /\ Holds(r, p, j, f))
                 <=> \E p \in b.files : \E j \in Nat : ~Listed(b, p) /\ Holds(b, p, j, f)
        <3>1. (\E p \in r.files : \E j \in Nat : ~Listed(r, p) /\ Holds(r, p, j, f))
              <=> \E p \in b.files : \E j \in Nat : ~Listed(r, p) /\ Holds(r, p, j, f)
            BY <1>1, <1>12
        <3> QED BY <1>4, <1>11, <3>1
    <2> QED BY <2>1 DEF OrphansOf
<1> QED BY <1>9, <1>10, <1>13 DEF r

-----------------------------------------------------------------------------
(* take. *)
LEMMA WaitingIs ==
    ASSUME NEW b \in Buffer
    PROVE  /\ IsFiniteSet(Waiting(b))
           /\ \A p \in Waiting(b) : /\ p = <<p[1], p[2]>> /\ p[1] \in Nat /\ p[2] \in Nat
                                    /\ p[1] \in DOMAIN b.queue
                                    /\ b.queue[p[1]].off < p[2]
                                    /\ p[2] <= Len(b.line[b.queue[p[1]].path])
                                    /\ LineAt(b, p) \in Event
           /\ \A k \in DOMAIN b.queue, j \in Nat :
                 /\ b.queue[k].off < j /\ j <= Len(b.line[b.queue[k].path])
                 /\ b.line[b.queue[k].path][j] \in Event
                 => <<k, j>> \in Waiting(b)
<1>1. Waiting(b) \subseteq Unread(b) /\ IsFiniteSet(Unread(b))
    BY UnreadIs DEF Waiting
<1>2. IsFiniteSet(Waiting(b))
    BY <1>1, FS_Subset
<1>3. \A p \in Waiting(b) : /\ p = <<p[1], p[2]>> /\ p[1] \in Nat /\ p[2] \in Nat
                            /\ p[1] \in DOMAIN b.queue
                            /\ b.queue[p[1]].off < p[2]
                            /\ p[2] <= Len(b.line[b.queue[p[1]].path])
                            /\ LineAt(b, p) \in Event
    <2> TAKE p \in Waiting(b)
    <2>1. p \in Unread(b) /\ LineAt(b, p) \in Event
        BY DEF Waiting
    <2>2. p = <<p[1], p[2]>> /\ p[1] \in Nat /\ p[2] \in Nat
        BY <2>1, UnreadIs
    <2>3. <<p[1], p[2]>> \in Unread(b)
        BY <2>1, <2>2
    <2> QED BY <2>1, <2>2, <2>3, UnreadIs
<1>4. \A k \in DOMAIN b.queue, j \in Nat :
         /\ b.queue[k].off < j /\ j <= Len(b.line[b.queue[k].path])
         /\ b.line[b.queue[k].path][j] \in Event
         => <<k, j>> \in Waiting(b)
    <2> SUFFICES ASSUME NEW k \in DOMAIN b.queue, NEW j \in Nat,
                        b.queue[k].off < j, j <= Len(b.line[b.queue[k].path]),
                        b.line[b.queue[k].path][j] \in Event
                 PROVE  <<k, j>> \in Waiting(b)
        OBVIOUS
    <2>1. <<k, j>> \in Unread(b)
        BY UnreadIs
    <2>2. LineAt(b, <<k, j>>) = b.line[b.queue[k].path][j]
        BY DEF LineAt
    <2> QED BY <2>1, <2>2 DEF Waiting
<1> QED BY <1>2, <1>3, <1>4

LEMMA EarlierOrders ==
    ASSUME NEW b \in Buffer, NEW P, P \subseteq Waiting(b)
    PROVE  Orders(Earlier(P), P)
<1>1. \A p \in P : p = <<p[1], p[2]>> /\ p[1] \in Nat /\ p[2] \in Nat
    BY WaitingIs
<1>2. \A p, q \in P : <<p, q>> \in Earlier(P) <=> Before(p, q)
    BY DEF Earlier
<1>3. \A p \in P : ~Before(p, p)
    BY <1>1 DEF Before
<1>4. \A p, q, r \in P : Before(p, q) /\ Before(q, r) => Before(p, r)
    BY <1>1 DEF Before
<1>5. \A p, q \in P : p = q \/ Before(p, q) \/ Before(q, p)
    <2> TAKE p \in P, q \in P
    <2>1. /\ p = <<p[1], p[2]>> /\ p[1] \in Nat /\ p[2] \in Nat
          /\ q = <<q[1], q[2]>> /\ q[1] \in Nat /\ q[2] \in Nat
        BY <1>1
    <2>2. \/ p[1] < q[1] \/ q[1] < p[1]
          \/ (p[1] = q[1] /\ p[2] < q[2]) \/ (p[1] = q[1] /\ q[2] < p[2])
          \/ (p[1] = q[1] /\ p[2] = q[2])
        BY <2>1
    <2> QED BY <2>1, <2>2 DEF Before
<1> QED BY <1>2, <1>3, <1>4, <1>5 DEF Orders

Ahead(b, p) == {q \in Waiting(b) : Before(q, p)}
UpTo(b, k) == {p \in Waiting(b) : p[1] <= k}

(* A batch is the front of what waits. *)
LEMMA ReadIs ==
    ASSUME NEW b \in Buffer, NEW n \in Nat
    PROVE  /\ Read(b, n) \subseteq Waiting(b) /\ IsFiniteSet(Read(b, n))
           /\ \A p \in Waiting(b), q \in Read(b, n) : Before(p, q) => p \in Read(b, n)
<1>1. Read(b, n) = {p \in Waiting(b) : Cardinality(Ahead(b, p)) < n}
    BY DEF Read, Ahead
<1>2. IsFiniteSet(Waiting(b)) /\ Read(b, n) \subseteq Waiting(b)
    BY <1>1, WaitingIs
<1>3. IsFiniteSet(Read(b, n))
    BY <1>2, FS_Subset
<1>4. ASSUME NEW p \in Waiting(b), NEW q \in Read(b, n), Before(p, q)
      PROVE  p \in Read(b, n)
    <2>1. Ahead(b, p) \subseteq Ahead(b, q)
        <3> SUFFICES ASSUME NEW r \in Waiting(b), Before(r, p) PROVE Before(r, q)
            BY DEF Ahead
        <3>1. r[1] \in Nat /\ p[1] \in Nat /\ q[1] \in Nat /\ r[2] \in Nat /\ p[2] \in Nat /\ q[2] \in Nat
            BY <1>2, WaitingIs
        <3> QED BY <1>4, <3>1 DEF Before
    <2>2. Ahead(b, q) \subseteq Waiting(b)
        BY DEF Ahead
    <2>3. IsFiniteSet(Ahead(b, q))
        BY <1>2, <2>2, FS_Subset
    <2>4. IsFiniteSet(Ahead(b, p)) /\ Cardinality(Ahead(b, p)) <= Cardinality(Ahead(b, q))
        BY <2>1, <2>3, FS_Subset
    <2>5. Cardinality(Ahead(b, p)) \in Nat /\ Cardinality(Ahead(b, q)) \in Nat
        BY <2>3, <2>4, FS_CardinalityType
    <2>6. Cardinality(Ahead(b, q)) < n
        BY <1>1
    <2>7. Cardinality(Ahead(b, p)) < n
        BY <2>4, <2>5, <2>6
    <2> QED BY <1>1, <2>7
<1> QED BY <1>2, <1>3, <1>4

(* Subsets of 1..N with the smaller numbers of their members. *)
LEMMA FrontIs ==
    ASSUME NEW N \in Nat, NEW K, K \subseteq 1..N,
           \A k \in K : \A i \in 1..N : i <= k => i \in K
    PROVE  Cardinality(K) \in 0..N /\ K = 1..Cardinality(K)
<1>1. CASE K = {}
    <2>1. Cardinality(K) = 0
        BY <1>1, FS_EmptySet
    <2> QED BY <1>1, <2>1
<1>2. CASE K # {}
    <2>1. K \subseteq 0..N
        OBVIOUS
    <2>2. Max(K) \in K /\ \A k \in K : k <= Max(K)
        BY <1>2, <2>1, GreatestOfNat
    <2> DEFINE m == Max(K)
    <2>3. m \in 1..N
        BY <2>2
    <2> HIDE DEF m
    <2>4. K = 1..m
        <3>1. \A k \in K : k \in 1..m
            BY <2>2, <2>3 DEF m
        <3>2. \A k \in 1..m : k \in K
            BY <2>2, <2>3 DEF m
        <3> QED BY <3>1, <3>2
    <2>5. Cardinality(1..m) = m
        BY <2>3, FS_Interval
    <2> QED BY <2>3, <2>4, <2>5
<1> QED BY <1>1, <1>2

LEMMA PoppedIs ==
    ASSUME NEW b \in Buffer, NEW n \in Nat
    PROVE  /\ Popped(b, n) \in 0..Len(b.queue)
           /\ \A p \in Waiting(b) : p[1] <= Popped(b, n) => p \in Read(b, n)
           /\ \A p \in Waiting(b) : p[1] > Popped(b, n) + 1 => p \notin Read(b, n)
<1> DEFINE L == Len(b.queue)
           K == {k \in 1..L : Cardinality(UpTo(b, k)) < n}
           c == Popped(b, n)
<1>1. L \in Nat /\ DOMAIN b.queue = 1..L
    BY EntryIs
<1>2. c = Cardinality(K)
    BY <1>1 DEF Popped, UpTo
<1>3. \A k \in Nat : IsFiniteSet(UpTo(b, k)) /\ Cardinality(UpTo(b, k)) \in Nat
    <2> TAKE k \in Nat
    <2>1. UpTo(b, k) \subseteq Waiting(b) /\ IsFiniteSet(Waiting(b))
        BY WaitingIs DEF UpTo
    <2>2. IsFiniteSet(UpTo(b, k))
        BY <2>1, FS_Subset
    <2> QED BY <2>2, FS_CardinalityType
<1>4. \A k \in K : \A i \in 1..L : i <= k => i \in K
    <2> SUFFICES ASSUME NEW k \in K, NEW i \in 1..L, i <= k
                 PROVE  i \in K
        OBVIOUS
    <2>1. UpTo(b, i) \subseteq UpTo(b, k)
        <3> SUFFICES ASSUME NEW p \in Waiting(b), p[1] <= i PROVE p[1] <= k
            BY DEF UpTo
        <3>1. p[1] \in Nat /\ i \in Nat /\ k \in Nat
            BY <1>1, WaitingIs
        <3> QED BY <3>1
    <2>2. k \in Nat /\ i \in Nat
        BY <1>1
    <2>3. Cardinality(UpTo(b, i)) <= Cardinality(UpTo(b, k))
        BY <1>3, <2>1, <2>2, FS_Subset
    <2>4. Cardinality(UpTo(b, i)) \in Nat /\ Cardinality(UpTo(b, k)) \in Nat
        BY <1>3, <2>2
    <2>5. Cardinality(UpTo(b, k)) < n
        OBVIOUS
    <2>6. Cardinality(UpTo(b, i)) < n
        BY <2>3, <2>4, <2>5
    <2> QED BY <2>6
<1>5. K \subseteq 1..L
    OBVIOUS
<1>6. c \in 0..L /\ K = 1..c
    <2> HIDE DEF K, L, c
    <2> QED BY <1>1, <1>2, <1>4, <1>5, FrontIs
<1>7. Read(b, n) = {p \in Waiting(b) : Cardinality(Ahead(b, p)) < n}
    BY DEF Read, Ahead
<1>8. ASSUME NEW p \in Waiting(b)
      PROVE  /\ IsFiniteSet(Ahead(b, p)) /\ Cardinality(Ahead(b, p)) \in Nat
             /\ p[1] \in 1..L
    <2>1. Ahead(b, p) \subseteq Waiting(b) /\ IsFiniteSet(Waiting(b)) /\ p[1] \in 1..L
        BY <1>1, WaitingIs DEF Ahead
    <2>2. IsFiniteSet(Ahead(b, p))
        BY <2>1, FS_Subset
    <2> QED BY <2>1, <2>2, FS_CardinalityType
<1>9. ASSUME NEW p \in Waiting(b), p[1] <= c
      PROVE  p \in Read(b, n)
    <2>1. p[1] \in K
        <3> HIDE DEF K, L, c
        <3> QED BY <1>1, <1>6, <1>8, <1>9
    <2>2. Cardinality(UpTo(b, p[1])) < n
        BY <2>1
    <2>3. Ahead(b, p) \subseteq UpTo(b, p[1])
        <3> SUFFICES ASSUME NEW q \in Waiting(b), Before(q, p) PROVE q[1] <= p[1]
            BY DEF Ahead, UpTo
        <3>1. p[1] \in Nat /\ q[1] \in Nat
            BY WaitingIs
        <3> QED BY <3>1 DEF Before
    <2>4. p[1] \in Nat
        BY WaitingIs
    <2>5. /\ Cardinality(Ahead(b, p)) <= Cardinality(UpTo(b, p[1]))
          /\ Cardinality(UpTo(b, p[1])) \in Nat /\ Cardinality(Ahead(b, p)) \in Nat
        BY <1>3, <1>8, <2>3, <2>4, FS_Subset
    <2>6. Cardinality(Ahead(b, p)) < n
        BY <2>2, <2>5
    <2> QED BY <1>7, <2>6
<1>10. ASSUME NEW p \in Waiting(b), p[1] > c + 1
       PROVE  p \notin Read(b, n)
    <2>1. c + 1 \in 1..L /\ c + 1 \in Nat /\ c + 1 \notin K
        <3> HIDE DEF K, L, c
        <3> QED BY <1>1, <1>6, <1>8, <1>10
    <2>2. ~(Cardinality(UpTo(b, c + 1)) < n)
        BY <2>1
    <2>3. UpTo(b, c + 1) \subseteq Ahead(b, p)
        <3> SUFFICES ASSUME NEW q \in Waiting(b), q[1] <= c + 1 PROVE Before(q, p)
            BY DEF Ahead, UpTo
        <3>1. p[1] \in Nat /\ q[1] \in Nat
            BY WaitingIs
        <3> HIDE DEF c
        <3>2. q[1] < p[1]
            BY <1>10, <2>1, <3>1
        <3> QED BY <3>2 DEF Before
    <2>4. /\ Cardinality(UpTo(b, c + 1)) <= Cardinality(Ahead(b, p))
          /\ Cardinality(UpTo(b, c + 1)) \in Nat /\ Cardinality(Ahead(b, p)) \in Nat
        <3> HIDE DEF c
        <3> QED BY <1>3, <1>8, <2>1, <2>3, FS_Subset
    <2>5. ~(Cardinality(Ahead(b, p)) < n)
        <3> HIDE DEF c
        <3> QED BY <2>2, <2>4
    <2> QED BY <1>7, <2>5
<1> QED BY <1>6, <1>9, <1>10

Turn(b, n) == Ordered(Read(b, n), Earlier(Read(b, n)))

(* The batch has every event read, in the order of the places. *)
LEMMA BatchIs ==
    ASSUME NEW b \in Buffer, NEW n \in Nat
    PROVE  /\ Cardinality(Read(b, n)) \in Nat
           /\ Turn(b, n) \in [1..Cardinality(Read(b, n)) -> Read(b, n)]
           /\ \A p \in Read(b, n) : \E i \in 1..Cardinality(Read(b, n)) : Turn(b, n)[i] = p
           /\ \A i, j \in 1..Cardinality(Read(b, n)) :
                 i < j => Before(Turn(b, n)[i], Turn(b, n)[j])
           /\ \A i \in 1..Cardinality(Read(b, n)) : Batch(b, n)[i] = LineAt(b, Turn(b, n)[i])
           /\ Batch(b, n) \in Seq(Event)
           /\ Len(Batch(b, n)) = Cardinality(Read(b, n))
<1> DEFINE P == Read(b, n)
           m == Cardinality(P)
           o == Turn(b, n)
<1>1. P \subseteq Waiting(b) /\ IsFiniteSet(P)
    BY ReadIs
<1>2. Orders(Earlier(P), P)
    BY <1>1, EarlierOrders
<1>3. o = Ordered(P, Earlier(P))
    BY DEF Turn
<1> HIDE DEF P, o
<1>4. m \in Nat /\ o \in [1..m -> P]
    BY <1>1, <1>2, <1>3, OrderedIs
<1>5. \A p \in P : \E i \in 1..m : o[i] = p
    BY <1>1, <1>2, <1>3, OrderedIs
<1>6. \A i, j \in 1..m : i < j => <<o[i], o[j]>> \in Earlier(P)
    BY <1>1, <1>2, <1>3, OrderedIs
<1>7. \A p, q \in P : <<p, q>> \in Earlier(P) => Before(p, q)
    BY DEF Earlier
<1> HIDE DEF m
<1>8. \A i, j \in 1..m : i < j => Before(o[i], o[j])
    BY <1>4, <1>6, <1>7
<1> DEFINE s == Batch(b, n)
<1>9. s = [i \in DOMAIN o |-> LineAt(b, o[i])]
    BY DEF Batch, o, Turn
<1>10. \A p \in P : LineAt(b, p) \in Event
    BY <1>1, WaitingIs
<1> HIDE DEF s
<1>11. DOMAIN s = 1..m /\ \A i \in 1..m : s[i] = LineAt(b, o[i])
    BY <1>4, <1>9
<1>12. \A i \in 1..m : s[i] \in Event
    BY <1>4, <1>10, <1>11
<1>13. s \in [1..m -> Event]
    BY <1>9, <1>11, <1>12
<1>14. s \in Seq(Event) /\ Len(s) = m
    BY <1>4, <1>13
<1> QED BY <1>4, <1>5, <1>8, <1>11, <1>14 DEF P, m, o, s

LEMMA BatchEvents ==
    ASSUME NEW b \in Buffer, NEW n \in Nat
    PROVE  \A e : e \in Range(Batch(b, n)) <=> \E p \in Read(b, n) : LineAt(b, p) = e
<1> DEFINE s == Batch(b, n)
           m == Cardinality(Read(b, n))
           o == Turn(b, n)
<1>1. DOMAIN s = 1..m
    <2>1. s \in Seq(Event) /\ Len(s) = m
        BY BatchIs
    <2> HIDE DEF s, m
    <2> QED BY <2>1
<1>2. \A i \in 1..m : s[i] = LineAt(b, o[i])
    BY BatchIs
<1>3. \A p \in Read(b, n) : \E i \in 1..m : o[i] = p
    BY BatchIs
<1>4. o \in [1..m -> Read(b, n)]
    BY BatchIs
<1> HIDE DEF s, m, o
<1>5. \A e : e \in Range(s) <=> \E i \in 1..m : s[i] = e
    BY <1>1 DEF Range
<1> QED BY <1>2, <1>3, <1>4, <1>5 DEF s

(* In the file where the batch fills up the offset parts what was read from *)
(* what waits.                                                             *)
LEMMA OffsetIs ==
    ASSUME NEW b, Sound(b), NEW n \in Nat, NEW k \in DOMAIN b.queue
    PROVE  /\ Offset(b, n, k) \in Nat
           /\ b.queue[k].off <= Offset(b, n, k)
           /\ Offset(b, n, k) <= Len(b.line[b.queue[k].path])
           /\ \A p \in Waiting(b) : p[1] = k => (p \in Read(b, n) <=> p[2] <= Offset(b, n, k))
           /\ \/ Offset(b, n, k) = b.queue[k].off
              \/ \E p \in Read(b, n) : p[1] = k /\ p[2] = Offset(b, n, k)
<1> DEFINE x == b.queue[k]
           N == Len(b.line[x.path])
           lines == {p[2] : p \in {q \in Read(b, n) : q[1] = k}}
           S == {x.off} \cup lines
           v == Offset(b, n, k)
<1>1. b \in Buffer /\ x \in Entries(b) /\ x.off \in Nat /\ x.off <= N /\ N \in Nat
    BY EntryIs DEF Sound
<1>2. Read(b, n) \subseteq Waiting(b)
    BY <1>1, ReadIs
<1>3. \A p \in Waiting(b) : /\ p = <<p[1], p[2]>> /\ p[1] \in Nat /\ p[2] \in Nat
                            /\ p[1] = k => x.off < p[2] /\ p[2] <= N
    BY <1>1, WaitingIs
<1>4. \A j \in lines : j \in Nat /\ x.off < j /\ j <= N
    <2> TAKE j \in lines
    <2>1. PICK p \in Read(b, n) : p[1] = k /\ j = p[2]
        OBVIOUS
    <2> HIDE DEF N, x
    <2> QED BY <1>2, <1>3, <2>1
<1>5. S \subseteq 0..N /\ S # {}
    <2> HIDE DEF lines, N, x
    <2> QED BY <1>1, <1>4
<1>6. v = Max(S)
    BY DEF Offset
<1>7. v \in S /\ \A j \in S : j <= v
    <2> HIDE DEF S, N, v
    <2> QED BY <1>1, <1>5, <1>6, GreatestOfNat
<1>8. v \in Nat /\ x.off <= v /\ v <= N
    <2> HIDE DEF lines, N, x, v
    <2> QED BY <1>1, <1>4, <1>7
<1>9. ASSUME NEW p \in Waiting(b), p[1] = k, p \in Read(b, n)
      PROVE  p[2] <= v
    <2>1. p[2] \in lines
        BY <1>9
    <2> HIDE DEF lines, v
    <2> QED BY <1>7, <2>1
<1>10. v = x.off \/ \E p \in Read(b, n) : p[1] = k /\ p[2] = v
    BY <1>7
<1>11. ASSUME NEW p \in Waiting(b), p[1] = k, p[2] <= v
       PROVE  p \in Read(b, n)
    <2> HIDE DEF v, x, N
    <2>1. x.off < p[2] /\ p[2] \in Nat
        BY <1>3, <1>11
    <2>2. v # x.off
        BY <1>1, <1>8, <1>11, <2>1
    <2>3. PICK q \in Read(b, n) : q[1] = k /\ q[2] = v
        BY <1>10, <2>2
    <2>4. q = <<q[1], q[2]>> /\ p = <<p[1], p[2]>> /\ q[1] \in Nat
        BY <1>2, <1>3, <2>3
    <2>5. p[2] = v \/ p[2] < v
        BY <1>8, <1>11, <2>1
    <2>6. CASE p[2] = v
        <3>1. p = q
            BY <1>11, <2>3, <2>4, <2>6
        <3> QED BY <2>3, <3>1
    <2>7. CASE p[2] < v
        <3>1. Before(p, q)
            BY <1>11, <2>3, <2>7 DEF Before
        <3> QED BY <1>1, <2>3, <3>1, ReadIs
    <2> QED BY <2>5, <2>6, <2>7
<1> HIDE DEF v, x, N
<1>12. \A p \in Waiting(b) : p[1] = k => (p \in Read(b, n) <=> p[2] <= v)
    BY <1>9, <1>11
<1> QED BY <1>8, <1>10, <1>12 DEF v, x, N

(* What is emptied when the first k files were read to their end. *)
Emptied(b, k) ==
    (FirstPaths(b, k) \cap {Active}) \cup (IF RemovesOpenFile THEN FirstPaths(b, k) ELSE {})

LEMMA ConsumedIs ==
    ASSUME NEW b, Sound(b), NEW k \in 0..Len(b.queue)
    PROVE  /\ Consumed(b, k) \in Buffer
           /\ Consumed(b, k).files = (b.files \ Emptied(b, k)) \cup (FirstPaths(b, k) \cap {Active})
           /\ Consumed(b, k).queue = b.queue
           /\ Consumed(b, k).pending = b.pending
           /\ \A p \in Path : Consumed(b, k).line[p] = IF p \in Emptied(b, k) THEN <<>> ELSE b.line[p]
           /\ \A p \in Path \ Consumed(b, k).files : Consumed(b, k).line[p] = <<>>
           /\ Consumed(b, k).files \subseteq b.files
<1> DEFINE S == FirstPaths(b, k)
           Z == Emptied(b, k)
           r == Removed(b, Z)
           c == Consumed(b, k)
           F == (b.files \ Z) \cup (S \cap {Active})
<1>1. b \in Buffer /\ b.files \subseteq Path
    BY DEF Sound, Buffer
<1>2. /\ r \in Buffer /\ r.files = b.files \ Z /\ r.queue = b.queue /\ r.pending = b.pending
      /\ \A p \in Path : r.line[p] = IF p \in Z THEN <<>> ELSE b.line[p]
    BY <1>1, RemovedIs
<1>3. S \subseteq b.files
    BY <1>1, FirstListed, EntryIs DEF Sound
<1>4. F \subseteq Path /\ F \subseteq b.files
    BY <1>1, <1>3
<1>5. c = [r EXCEPT !.files = F]
    BY <1>2 DEF Consumed, Emptied
<1> HIDE DEF r, c, F
<1>6. c \in Buffer /\ c.files = F /\ c.queue = r.queue /\ c.pending = r.pending /\ c.line = r.line
    BY <1>2, <1>4, <1>5 DEF Buffer
<1>7. \A p \in Path \ F : c.line[p] = <<>>
    BY <1>2, <1>6 DEF F, Sound
<1> HIDE DEF Z, S
<1> QED BY <1>2, <1>4, <1>6, <1>7 DEF c, F, Z, S

LEMMA TakenQueue ==
    ASSUME NEW b, Sound(b), NEW n \in Nat
    PROVE  /\ Taken(b, n) \in Buffer
           /\ Taken(b, n).files = Consumed(b, Popped(b, n)).files
           /\ Taken(b, n).line = Consumed(b, Popped(b, n)).line
           /\ Taken(b, n).pending = Monus(b.pending, Len(Batch(b, n)))
           /\ Len(Taken(b, n).queue) = Len(b.queue) - Popped(b, n)
           /\ \A k \in 1..(Len(b.queue) - Popped(b, n)) :
                 /\ Popped(b, n) + k \in DOMAIN b.queue
                 /\ Taken(b, n).queue[k].path = b.queue[Popped(b, n) + k].path
                 /\ Taken(b, n).queue[k].off = IF k = 1 THEN Offset(b, n, Popped(b, n) + 1)
                                               ELSE b.queue[Popped(b, n) + k].off
<1> DEFINE c == Popped(b, n)
           w == Consumed(b, c)
           L == Len(b.queue)
           q == [k \in 1..(L - c) |->
                    IF k = 1 THEN [b.queue[c + 1] EXCEPT !.off = Offset(b, n, c + 1)]
                    ELSE b.queue[c + k]]
           g == Monus(b.pending, Len(Batch(b, n)))
           t == Taken(b, n)
<1>1. b \in Buffer /\ L \in Nat /\ c \in 0..L /\ DOMAIN b.queue = 1..L
    BY PoppedIs, EntryIs DEF Sound
<1>2. w \in Buffer /\ w.queue = b.queue /\ w.pending = b.pending
    BY <1>1, ConsumedIs
<1>3. g \in Nat
    <2>1. b.pending \in Nat /\ Len(Batch(b, n)) \in Nat
        BY <1>1, BatchIs DEF Buffer
    <2> QED BY <2>1 DEF Monus
<1>4. t = [w EXCEPT !.queue = q, !.pending = g]
    BY <1>2 DEF Taken
<1> HIDE DEF w, g, t
<1>5. \A k \in 1..(L - c) : c + k \in 1..L
    <2> HIDE DEF L, c
    <2> QED BY <1>1
<1>6. \A k \in 1..(L - c) : q[k] = IF k = 1 THEN [b.queue[c + 1] EXCEPT !.off = Offset(b, n, c + 1)]
                                   ELSE b.queue[c + k]
    OBVIOUS
<1>7. DOMAIN q = 1..(L - c)
    OBVIOUS
<1>8. \A k \in 1..(L - c) : b.queue[c + k] \in Entry
    BY <1>1, <1>5, EntryIs
<1>9. \A k \in 1..(L - c) : /\ q[k] \in Entry /\ q[k].path = b.queue[c + k].path
                            /\ q[k].off = IF k = 1 THEN Offset(b, n, c + 1) ELSE b.queue[c + k].off
    <2> TAKE k \in 1..(L - c)
    <2> HIDE DEF q
    <2>1. b.queue[c + k] \in Entry
        BY <1>8
    <2>2. CASE k # 1
        BY <1>6, <2>1, <2>2
    <2>3. CASE k = 1
        <3>1. c + k = c + 1 /\ c + 1 \in DOMAIN b.queue
            BY <1>1, <1>5, <2>3
        <3> DEFINE v == Offset(b, n, c + 1)
                   x == b.queue[c + 1]
        <3>2. v \in Nat
            BY <3>1, OffsetIs
        <3>3. q[k] = [x EXCEPT !.off = v] /\ x \in Entry
            BY <1>6, <2>1, <2>3, <3>1
        <3> HIDE DEF v, x
        <3>4. q[k] \in Entry /\ q[k].path = x.path /\ q[k].off = v
            BY <3>2, <3>3 DEF Entry
        <3> QED BY <2>3, <3>1, <3>4 DEF v, x
    <2> QED BY <2>2, <2>3
<1> HIDE DEF q, c, L
<1>10. q \in [1..(L - c) -> Entry] /\ L - c \in Nat
    <2>1. L - c \in Nat
        BY <1>1
    <2>2. q = [k \in 1..(L - c) |-> q[k]]
        BY DEF q
    <2> QED BY <1>9, <2>1, <2>2
<1>11. q \in Seq(Entry) /\ Len(q) = L - c
    BY <1>7, <1>10
<1>12. /\ t \in Buffer /\ t.files = w.files /\ t.line = w.line /\ t.queue = q /\ t.pending = g
    BY <1>2, <1>3, <1>4, <1>11 DEF Buffer
<1>13. \A k \in 1..(L - c) : /\ c + k \in DOMAIN b.queue
                             /\ t.queue[k].path = b.queue[c + k].path
                             /\ t.queue[k].off = IF k = 1 THEN Offset(b, n, c + 1) ELSE b.queue[c + k].off
    BY <1>1, <1>5, <1>9, <1>12
<1> QED BY <1>11, <1>12, <1>13 DEF t, w, g, q, c, L

LEMMA TakenIs ==
    ASSUME NEW b, Sound(b), NEW n \in Nat
    PROVE  /\ Sound(Taken(b, n))
           /\ \A k \in DOMAIN Taken(b, n).queue :
                 Taken(b, n).line[Taken(b, n).queue[k].path] = b.line[Taken(b, n).queue[k].path]
<1> DEFINE c == Popped(b, n)
           w == Consumed(b, c)
           L == Len(b.queue)
           t == Taken(b, n)
<1>1. b \in Buffer /\ L \in Nat /\ c \in 0..L /\ DOMAIN b.queue = 1..L /\ b.files \subseteq Path
    BY PoppedIs, EntryIs DEF Sound, Buffer
<1>2. /\ w.files = (b.files \ Emptied(b, c)) \cup (FirstPaths(b, c) \cap {Active})
      /\ \A p \in Path : w.line[p] = IF p \in Emptied(b, c) THEN <<>> ELSE b.line[p]
      /\ \A p \in Path \ w.files : w.line[p] = <<>>
    BY <1>1, ConsumedIs
<1>3. /\ t \in Buffer /\ t.files = w.files /\ t.line = w.line /\ Len(t.queue) = L - c
      /\ \A k \in 1..(L - c) :
            /\ c + k \in DOMAIN b.queue
            /\ t.queue[k].path = b.queue[c + k].path
            /\ t.queue[k].off = IF k = 1 THEN Offset(b, n, c + 1) ELSE b.queue[c + k].off
    BY TakenQueue
<1> HIDE DEF t, w, c, L
<1>4. DOMAIN t.queue = 1..(L - c)
    BY <1>3, EntryIs
<1>5. \A k \in 1..(L - c) : b.queue[c + k].path \notin FirstPaths(b, c)
    <2> SUFFICES ASSUME NEW k \in 1..(L - c), NEW i \in 1..c, b.queue[c + k].path = b.queue[i].path
                 PROVE  FALSE
        BY DEF FirstPaths
    <2>1. c + k \in DOMAIN b.queue /\ i \in DOMAIN b.queue
        BY <1>1, <1>3
    <2>2. c + k = i
        BY <2>1 DEF Sound, Distinct
    <2> QED BY <1>1, <2>2
<1>6. Emptied(b, c) \subseteq FirstPaths(b, c)
    BY DEF Emptied
<1>7. \A k \in 1..(L - c) : /\ t.queue[k].path \in b.files /\ t.queue[k].path \in Path
                            /\ t.queue[k].path \notin Emptied(b, c)
                            /\ t.line[t.queue[k].path] = b.line[t.queue[k].path]
    <2> TAKE k \in 1..(L - c)
    <2>1. b.queue[c + k] \in Entries(b)
        BY <1>1, <1>3, EntryIs
    <2>2. b.queue[c + k].path \in b.files /\ b.queue[c + k].path \in Path
        BY <1>1, <2>1, EntryIs DEF Sound
    <2> QED BY <1>2, <1>3, <1>5, <1>6, <2>2
<1>8. \A k \in 1..(L - c) : t.queue[k].off <= Len(b.line[t.queue[k].path])
    <2> TAKE k \in 1..(L - c)
    <2>1. c + k \in DOMAIN b.queue /\ t.queue[k].path = b.queue[c + k].path
        BY <1>3
    <2>2. CASE k = 1
        <3>1. t.queue[k].off = Offset(b, n, c + k)
            BY <1>3, <2>2
        <3> QED BY <2>1, <3>1, OffsetIs
    <2>3. CASE k # 1
        <3>1. t.queue[k].off = b.queue[c + k].off
            BY <1>3, <2>3
        <3>2. b.queue[c + k] \in Entries(b)
            BY <1>1, <2>1, EntryIs
        <3> QED BY <2>1, <3>1, <3>2 DEF Sound
    <2> QED BY <2>2, <2>3
<1>9. Distinct(t.queue)
    <2> SUFFICES ASSUME NEW k \in 1..(L - c), NEW m \in 1..(L - c), t.queue[k].path = t.queue[m].path
                 PROVE  k = m
        BY <1>4 DEF Distinct
    <2>1. c + k = c + m
        BY <1>3 DEF Sound, Distinct
    <2> QED BY <1>1, <2>1
<1>10. \A x \in Entries(t) : x.path \in t.files /\ x.off <= Len(t.line[x.path])
    <2> TAKE x \in Entries(t)
    <2>1. PICK k \in 1..(L - c) : x = t.queue[k]
        BY <1>4 DEF Entries
    <2> QED BY <1>2, <1>3, <1>7, <1>8, <2>1
<1>11. Sound(t)
    BY <1>2, <1>3, <1>9, <1>10 DEF Sound
<1> QED BY <1>4, <1>7, <1>11 DEF t

(* What waits behind a batch is what waited and was not read. *)
LEMMA TakenPlaces ==
    ASSUME NEW b, Sound(b), NEW n \in Nat
    PROVE  /\ DOMAIN Taken(b, n).queue = 1..(Len(b.queue) - Popped(b, n))
           /\ \A k \in DOMAIN Taken(b, n).queue : \A j \in Nat :
                 <<k, j>> \in Waiting(Taken(b, n)) <=>
                    /\ <<Popped(b, n) + k, j>> \in Waiting(b)
                    /\ <<Popped(b, n) + k, j>> \notin Read(b, n)
           /\ \A k \in DOMAIN Taken(b, n).queue : \A j \in Nat :
                 LineAt(Taken(b, n), <<k, j>>) = LineAt(b, <<Popped(b, n) + k, j>>)
           /\ \A p \in Waiting(b) : p \notin Read(b, n) =>
                 /\ p[1] - Popped(b, n) \in DOMAIN Taken(b, n).queue
                 /\ p = <<Popped(b, n) + (p[1] - Popped(b, n)), p[2]>>
<1> DEFINE c == Popped(b, n)
           L == Len(b.queue)
           t == Taken(b, n)
<1>1. b \in Buffer /\ L \in Nat /\ c \in 0..L /\ DOMAIN b.queue = 1..L
    BY PoppedIs, EntryIs DEF Sound
<1>2. /\ t \in Buffer /\ Len(t.queue) = L - c
      /\ \A k \in 1..(L - c) :
            /\ c + k \in DOMAIN b.queue
            /\ t.queue[k].path = b.queue[c + k].path
            /\ t.queue[k].off = IF k = 1 THEN Offset(b, n, c + 1) ELSE b.queue[c + k].off
    BY TakenQueue
<1>3. \A k \in DOMAIN t.queue : t.line[t.queue[k].path] = b.line[t.queue[k].path]
    BY TakenIs
<1>4. /\ \A p \in Waiting(b) : p[1] <= c => p \in Read(b, n)
      /\ \A p \in Waiting(b) : p[1] > c + 1 => p \notin Read(b, n)
    BY <1>1, PoppedIs
<1> HIDE DEF t, c, L
<1>5. DOMAIN t.queue = 1..(L - c)
    BY <1>2, EntryIs
<1>6. ASSUME NEW k \in DOMAIN t.queue, NEW j \in Nat
      PROVE  LineAt(t, <<k, j>>) = LineAt(b, <<c + k, j>>)
    BY <1>2, <1>3, <1>5 DEF LineAt
<1>7. ASSUME NEW p \in Waiting(b), p \notin Read(b, n)
      PROVE  p[1] - c \in DOMAIN t.queue /\ p = <<c + (p[1] - c), p[2]>>
    <2>1. p = <<p[1], p[2]>> /\ p[1] \in 1..L
        BY <1>1, WaitingIs
    <2>2. ~(p[1] <= c)
        BY <1>4, <1>7
    <2> QED BY <1>1, <1>5, <2>1, <2>2
<1>8. ASSUME NEW k \in DOMAIN t.queue, NEW j \in Nat
      PROVE  <<k, j>> \in Waiting(t) <=> <<c + k, j>> \in Waiting(b) /\ <<c + k, j>> \notin Read(b, n)
    <2> DEFINE p == <<c + k, j>>
    <2>1. /\ c + k \in DOMAIN b.queue /\ t.queue[k].path = b.queue[c + k].path
          /\ k \in Nat /\ k >= 1 /\ c \in Nat
        BY <1>1, <1>2, <1>5, SMTT(30)
    <2>2. p[1] = c + k /\ p[2] = j
        OBVIOUS
    <2>3. <<k, j>> \in Waiting(t) <=>
             /\ t.queue[k].off < j /\ j <= Len(b.line[b.queue[c + k].path])
             /\ b.line[b.queue[c + k].path][j] \in Event
        <3>1. <<k, j>>[1] = k /\ <<k, j>>[2] = j
            OBVIOUS
        <3>2. <<k, j>> \in Waiting(t) =>
                 /\ t.queue[k].off < j /\ j <= Len(t.line[t.queue[k].path])
                 /\ LineAt(t, <<k, j>>) \in Event
            BY <1>2, <3>1, WaitingIs
        <3>3. LineAt(t, <<k, j>>) = t.line[t.queue[k].path][j]
            BY <3>1 DEF LineAt
        <3>4. t.line[t.queue[k].path] = b.line[b.queue[c + k].path]
            BY <1>3, <2>1
        <3> QED BY <1>2, <3>2, <3>3, <3>4, WaitingIs
    <2>4. p \in Waiting(b) <=>
             /\ b.queue[c + k].off < j /\ j <= Len(b.line[b.queue[c + k].path])
             /\ b.line[b.queue[c + k].path][j] \in Event
        <3>1. p \in Waiting(b) =>
                 /\ b.queue[c + k].off < j /\ j <= Len(b.line[b.queue[c + k].path])
                 /\ LineAt(b, p) \in Event
            BY <1>1, <2>2, WaitingIs
        <3>2. LineAt(b, p) = b.line[b.queue[c + k].path][j]
            BY <2>2 DEF LineAt
        <3> QED BY <1>1, <2>1, <3>1, <3>2, WaitingIs
    <2> HIDE DEF p
    <2>5. CASE k = 1
        <3>1. t.queue[k].off = Offset(b, n, c + k)
            BY <1>2, <1>5, <2>5
        <3>2. /\ b.queue[c + k].off <= Offset(b, n, c + k) /\ Offset(b, n, c + k) \in Nat
              /\ p \in Waiting(b) => (p \in Read(b, n) <=> j <= Offset(b, n, c + k))
            BY <2>1, <2>2, OffsetIs
        <3>3. b.queue[c + k].off \in Nat
            BY <1>1, <2>1, EntryIs
        <3>4. Offset(b, n, c + k) < j => b.queue[c + k].off < j
            BY <3>2, <3>3
        <3>5. ~(j <= Offset(b, n, c + k)) <=> Offset(b, n, c + k) < j
            BY <3>2
        <3> QED BY <2>3, <2>4, <3>1, <3>2, <3>4, <3>5 DEF p
    <2>6. CASE k # 1
        <3>1. t.queue[k].off = b.queue[c + k].off
            BY <1>2, <1>5, <2>6
        <3>2. p \in Waiting(b) => p \notin Read(b, n)
            BY <1>1, <1>4, <2>1, <2>2, <2>6
        <3> QED BY <2>3, <2>4, <3>1, <3>2 DEF p
    <2> QED BY <2>5, <2>6
<1> QED BY <1>5, <1>6, <1>7, <1>8 DEF t, c, L

LEMMA TakenEvents ==
    ASSUME NEW b, Sound(b), NEW n \in Nat
    PROVE  /\ Due(b) = Due(Taken(b, n)) \cup Range(Batch(b, n))
           /\ OrphansOf(b) \subseteq OrphansOf(Taken(b, n))
           /\ Skipped(Taken(b, n)) \subseteq Skipped(b) \cup Range(Batch(b, n))
<1> DEFINE c == Popped(b, n)
           L == Len(b.queue)
           t == Taken(b, n)
           w == Consumed(b, c)
<1>1. b \in Buffer /\ L \in Nat /\ c \in 0..L /\ DOMAIN b.queue = 1..L /\ b.files \subseteq Path
    BY PoppedIs, EntryIs DEF Sound, Buffer
<1>2. Sound(t) /\ t \in Buffer
    BY TakenIs DEF Sound
<1>3. /\ DOMAIN t.queue = 1..(L - c)
      /\ \A k \in DOMAIN t.queue : \A j \in Nat :
            <<k, j>> \in Waiting(t) <=> <<c + k, j>> \in Waiting(b) /\ <<c + k, j>> \notin Read(b, n)
      /\ \A k \in DOMAIN t.queue : \A j \in Nat : LineAt(t, <<k, j>>) = LineAt(b, <<c + k, j>>)
      /\ \A p \in Waiting(b) : p \notin Read(b, n) =>
            p[1] - c \in DOMAIN t.queue /\ p = <<c + (p[1] - c), p[2]>>
    BY TakenPlaces
<1>4. Read(b, n) \subseteq Waiting(b)
    BY <1>1, ReadIs
<1>5. \A e : e \in Range(Batch(b, n)) <=> \E p \in Read(b, n) : LineAt(b, p) = e
    BY <1>1, BatchEvents
<1>6. /\ \A k \in 1..(L - c) :
            /\ c + k \in DOMAIN b.queue
            /\ t.queue[k].path = b.queue[c + k].path
            /\ t.queue[k].off = IF k = 1 THEN Offset(b, n, c + 1) ELSE b.queue[c + k].off
      /\ t.files = w.files /\ t.line = w.line
    BY TakenQueue
<1>7. \A k \in DOMAIN t.queue : t.line[t.queue[k].path] = b.line[t.queue[k].path]
    BY TakenIs
<1>8. /\ w.files = (b.files \ Emptied(b, c)) \cup (FirstPaths(b, c) \cap {Active})
      /\ \A p \in Path : w.line[p] = IF p \in Emptied(b, c) THEN <<>> ELSE b.line[p]
    BY <1>1, ConsumedIs
<1> HIDE DEF t, c, L, w
<1>9. \A e \in Due(b) : e \in Due(t) \cup Range(Batch(b, n))
    <2> SUFFICES ASSUME NEW p \in Waiting(b), LineAt(b, p) \notin Range(Batch(b, n))
                 PROVE  LineAt(b, p) \in Due(t)
        BY DEF Due
    <2>1. p \notin Read(b, n)
        BY <1>5
    <2>2. p[1] - c \in DOMAIN t.queue /\ p = <<c + (p[1] - c), p[2]>> /\ p[2] \in Nat
        BY <1>1, <1>3, <2>1, WaitingIs
    <2>3. <<p[1] - c, p[2]>> \in Waiting(t) /\ LineAt(t, <<p[1] - c, p[2]>>) = LineAt(b, p)
        BY <1>3, <2>1, <2>2
    <2> QED BY <2>3 DEF Due
<1>10. \A e \in Range(Batch(b, n)) : e \in Due(b)
    BY <1>4, <1>5 DEF Due
<1>11. \A e \in Due(t) : e \in Due(b)
    <2> SUFFICES ASSUME NEW p \in Waiting(t)
                 PROVE  LineAt(t, p) \in Due(b)
        BY DEF Due
    <2>1. p = <<p[1], p[2]>> /\ p[1] \in DOMAIN t.queue /\ p[2] \in Nat
        BY <1>2, WaitingIs
    <2>2. <<c + p[1], p[2]>> \in Waiting(b) /\ LineAt(t, p) = LineAt(b, <<c + p[1], p[2]>>)
        BY <1>3, <2>1
    <2> QED BY <2>2 DEF Due
<1>12. Emptied(b, c) \subseteq FirstPaths(b, c) /\ \A p \in FirstPaths(b, c) : Listed(b, p)
    BY <1>1, FirstListed DEF Emptied, L
<1>13. \A p : Listed(t, p) => Listed(b, p)
    BY <1>3, <1>6 DEF Listed
<1>14. OrphansOf(b) \subseteq OrphansOf(t)
    <2>1. ASSUME NEW p \in b.files, ~Listed(b, p)
          PROVE  p \in t.files /\ ~Listed(t, p) /\ t.line[p] = b.line[p]
        BY <1>1, <1>6, <1>8, <1>12, <1>13, <2>1
    <2>2. ASSUME NEW p \in b.files, ~Listed(b, p)
          PROVE  p \in t.files /\ ~Listed(t, p) /\ \A j, e : Holds(b, p, j, e) => Holds(t, p, j, e)
        BY <2>1, <2>2 DEF Holds
    <2> QED BY <2>2 DEF OrphansOf
<1>15. ASSUME NEW e \in Skipped(t), e \notin Skipped(b)
       PROVE  e \in Range(Batch(b, n))
    <2>1. e \in Event
        BY <1>2, SkippedIs
    <2>2. PICK x \in Entries(t) : \E j \in Nat : j <= x.off /\ Holds(t, x.path, j, e)
        BY <1>2, SkippedIs
    <2>3. PICK j \in Nat : j <= x.off /\ Holds(t, x.path, j, e)
        BY <2>2
    <2>4. PICK k \in DOMAIN t.queue : x = t.queue[k]
        BY DEF Entries
    <2>5. c + k \in DOMAIN b.queue /\ x.path = b.queue[c + k].path
        BY <1>3, <1>6, <2>4
    <2>6. b.queue[c + k] \in Entries(b) /\ b.queue[c + k].off \in Nat
        BY <1>1, <2>5, EntryIs
    <2>7. Holds(b, x.path, j, e)
        BY <1>7, <2>3, <2>4 DEF Holds
    <2>8. ~(j <= b.queue[c + k].off)
        BY <1>1, <1>15, <2>1, <2>5, <2>6, <2>7, SkippedIs
    <2>9. k = 1 /\ x.off = Offset(b, n, c + 1)
        BY <1>3, <1>6, <2>3, <2>4, <2>8
    <2>10. /\ b.queue[c + 1].off < j /\ j <= Len(b.line[b.queue[c + 1].path])
           /\ b.line[b.queue[c + 1].path][j] = e
        <3>1. Len(b.line[x.path]) \in Nat
            BY <1>1, <2>5, EntryIs, SMTT(30)
        <3> QED BY <2>5, <2>6, <2>7, <2>8, <2>9, <3>1 DEF Holds
    <2> DEFINE p == <<c + 1, j>>
    <2>11. p[1] = c + 1 /\ p[2] = j
        OBVIOUS
    <2>12. p \in Waiting(b)
        BY <1>1, <2>1, <2>5, <2>9, <2>10, WaitingIs
    <2>13. LineAt(b, p) = e
        BY <2>10, <2>11 DEF LineAt
    <2> HIDE DEF p
    <2>14. p \in Read(b, n)
        BY <2>3, <2>5, <2>9, <2>11, <2>12, OffsetIs
    <2> QED BY <1>5, <2>13, <2>14
<1>16. Due(b) = Due(t) \cup Range(Batch(b, n))
    BY <1>9, <1>10, <1>11
<1> QED BY <1>14, <1>15, <1>16 DEF t

-----------------------------------------------------------------------------
(* A start. *)
LEMMA PathIs ==
    /\ IsFiniteSet(Path)
    /\ \A p \in Path : /\ p.kind \in {"active", "rotated", "restore"} /\ p.sec \in Nat /\ p.n \in Nat
                       /\ p.kind = "active" => p = Active
    /\ \A p, q \in Path : p.kind = q.kind /\ p.sec = q.sec /\ p.n = q.n => p = q
<1> DEFINE T == [kind : {"rotated", "restore"}, sec : 0..MaxSecond, n : 0..1]
           U == {"rotated", "restore"} \X ((0..MaxSecond) \X (0..1))
           f == [p \in T |-> <<p.kind, <<p.sec, p.n>>>>]
<1>1. Path = {Active} \cup T
    BY DEF Path
<1>2. \A p, q \in T : p.kind = q.kind /\ p.sec = q.sec /\ p.n = q.n => p = q
    OBVIOUS
<1>3. \A p \in T : p.kind \in {"rotated", "restore"} /\ p.sec \in 0..MaxSecond /\ p.n \in 0..1
    OBVIOUS
<1> HIDE DEF T
<1>4. IsFiniteSet(U)
    <2>1. IsFiniteSet({"rotated", "restore"})
        <3>1. IsFiniteSet({"rotated"} \cup {"restore"})
            BY FS_Singleton, FS_Union
        <3>2. {"rotated"} \cup {"restore"} = {"rotated", "restore"}
            OBVIOUS
        <3> QED BY <3>1, <3>2
    <2>2. IsFiniteSet(0..MaxSecond) /\ IsFiniteSet(0..1)
        <3>1. 0 \in Int /\ 1 \in Int /\ MaxSecond \in Int
            BY BufferAssumption
        <3>2. IsFiniteSet(0..MaxSecond)
            BY <3>1, FS_Interval
        <3>3. IsFiniteSet(0..1)
            BY <3>1, FS_Interval
        <3> QED BY <3>2, <3>3
    <2>3. IsFiniteSet((0..MaxSecond) \X (0..1))
        BY <2>2, FS_Product
    <2> QED BY <2>1, <2>3, FS_Product
<1>5. f \in Injection(T, U)
    <2>1. \A p \in T : f[p] = <<p.kind, <<p.sec, p.n>>>>
        OBVIOUS
    <2>2. f \in [T -> U]
        BY <1>3
    <2> HIDE DEF f
    <2>3. \A p, q \in T : f[p] = f[q] => p = q
        BY <1>2, <2>1
    <2> QED BY <2>2, <2>3 DEF Injection, IsInjective
<1>6. IsFiniteSet(T)
    <2> HIDE DEF f, U
    <2> QED BY <1>4, <1>5, FS_Injection
<1>7. IsFiniteSet(Path)
    BY <1>1, <1>6, FS_Singleton, FS_Union
<1>8. Active.kind = "active" /\ Active.sec = 0 /\ Active.n = 0
    BY DEF Active
<1>9. \A p \in Path : /\ p.kind \in {"active", "rotated", "restore"} /\ p.sec \in Nat /\ p.n \in Nat
                      /\ p.kind = "active" => p = Active
    BY <1>1, <1>3, <1>8
<1>10. \A p, q \in Path : p.kind = q.kind /\ p.sec = q.sec /\ p.n = q.n => p = q
    BY <1>1, <1>2, <1>3, <1>8
<1> QED BY <1>7, <1>9, <1>10

Rank(kind) == [restore |-> 0, rotated |-> 1, active |-> 2][kind]

LEMMA NamesOrder ==
    ASSUME NEW F, F \subseteq Path
    PROVE  Orders({pq \in F \X F : NameBefore(pq[1], pq[2])}, F)
<1> DEFINE R == {pq \in F \X F : NameBefore(pq[1], pq[2])}
<1>1. \A p, q \in F : <<p, q>> \in R <=> NameBefore(p, q)
    OBVIOUS
<1>2. Rank("restore") = 0 /\ Rank("rotated") = 1 /\ Rank("active") = 2
    BY DEF Rank
<1>3. \A p \in Path : Rank(p.kind) \in Nat /\ p.sec \in Nat /\ p.n \in Nat
    BY <1>2, PathIs
<1>4. \A p, q \in Path : Rank(p.kind) = Rank(q.kind) => p.kind = q.kind
    BY <1>2, PathIs
<1>5. \A p, q : NameBefore(p, q) <=>
         \/ Rank(p.kind) < Rank(q.kind)
         \/ p.kind = q.kind /\ p.sec < q.sec
         \/ p.kind = q.kind /\ p.sec = q.sec /\ p.n > q.n
    BY DEF NameBefore, Rank
<1> HIDE DEF R
<1>6. \A p \in F : ~NameBefore(p, p)
    BY <1>3, <1>5
<1>7. \A p, q, r \in F : NameBefore(p, q) /\ NameBefore(q, r) => NameBefore(p, r)
    <2> TAKE p, q, r \in F
    <2>1. /\ Rank(p.kind) \in Nat /\ p.sec \in Nat /\ p.n \in Nat
          /\ Rank(q.kind) \in Nat /\ q.sec \in Nat /\ q.n \in Nat
          /\ Rank(r.kind) \in Nat /\ r.sec \in Nat /\ r.n \in Nat
        BY <1>3
    <2> QED BY <1>5, <2>1
<1>8. \A p, q \in F : p = q \/ NameBefore(p, q) \/ NameBefore(q, p)
    <2> TAKE p, q \in F
    <2>1. /\ Rank(p.kind) \in Nat /\ p.sec \in Nat /\ p.n \in Nat
          /\ Rank(q.kind) \in Nat /\ q.sec \in Nat /\ q.n \in Nat
        BY <1>3
    <2>2. Rank(p.kind) < Rank(q.kind) \/ Rank(q.kind) < Rank(p.kind) \/ p.kind = q.kind
        BY <1>4, <2>1
    <2>3. \/ p.sec < q.sec \/ q.sec < p.sec \/ (p.sec = q.sec /\ p.n > q.n)
          \/ (p.sec = q.sec /\ q.n > p.n) \/ (p.sec = q.sec /\ q.n = p.n)
        BY <2>1
    <2> QED BY <1>5, <2>2, <2>3, PathIs
<1>9. Orders(R, F)
    <2>1. \A x \in F : <<x, x>> \notin R
        BY <1>1, <1>6
    <2>2. \A x, y, z \in F : <<x, y>> \in R /\ <<y, z>> \in R => <<x, z>> \in R
        BY <1>1, <1>7
    <2>3. \A x, y \in F : x = y \/ <<x, y>> \in R \/ <<y, x>> \in R
        BY <1>1, <1>8
    <2> QED BY <2>1, <2>2, <2>3 DEF Orders
<1> QED BY <1>9 DEF R

(* Without a usable queue every file is read from its start. *)
LEMMA DiscoveredIs ==
    ASSUME NEW b \in Buffer
    PROVE  /\ Discovered(b) \in Seq(Entry)
           /\ Distinct(Discovered(b))
           /\ \A x : (\E k \in DOMAIN Discovered(b) : x = Discovered(b)[k])
                     <=> \E p \in b.files : x = FrontEntry(p)
<1> DEFINE F == b.files
           R == {pq \in F \X F : NameBefore(pq[1], pq[2])}
           m == Cardinality(F)
           o == Ordered(F, R)
           d == Discovered(b)
<1>1. F \subseteq Path /\ IsFiniteSet(F)
    <2>1. F \subseteq Path
        BY DEF Buffer
    <2> QED BY <2>1, PathIs, FS_Subset
<1>2. Orders(R, F)
    BY <1>1, NamesOrder
<1>3. d = [k \in DOMAIN o |-> FrontEntry(o[k])]
    BY DEF Discovered, FrontEntry
<1> HIDE DEF F, R, o, d
<1>4. m \in Nat /\ o \in [1..m -> F]
    BY <1>1, <1>2, OrderedIs DEF o
<1>5. \A p \in F : \E i \in 1..m : o[i] = p
    BY <1>1, <1>2, OrderedIs DEF o
<1>6. \A i, j \in 1..m : i < j => <<o[i], o[j]>> \in R
    BY <1>1, <1>2, OrderedIs DEF o
<1> HIDE DEF m
<1>7. \A p \in F : FrontEntry(p) \in Entry /\ FrontEntry(p).path = p
    BY <1>1 DEF FrontEntry, Entry
<1>8. DOMAIN d = 1..m /\ \A i \in 1..m : d[i] = FrontEntry(o[i])
    BY <1>3, <1>4
<1>9. \A i \in 1..m : d[i] \in Entry
    BY <1>4, <1>7, <1>8
<1>10. d \in Seq(Entry)
    <2>1. d \in [1..m -> Entry]
        BY <1>3, <1>8, <1>9
    <2> QED BY <1>4, <2>1
<1>11. Distinct(d)
    <2> SUFFICES ASSUME NEW i \in 1..m, NEW j \in 1..m, d[i].path = d[j].path
                 PROVE  i = j
        BY <1>8 DEF Distinct
    <2>1. o[i] = o[j] /\ o[i] \in F
        BY <1>4, <1>7, <1>8
    <2>2. ~(i < j) /\ ~(j < i)
        BY <1>2, <1>6, <2>1 DEF Orders
    <2> QED BY <1>4, <2>2
<1>12. ASSUME NEW x
       PROVE  (\E k \in DOMAIN d : x = d[k]) <=> \E p \in F : x = FrontEntry(p)
    BY <1>4, <1>5, <1>8
<1> QED BY <1>10, <1>11, <1>12 DEF d, F

Reset(b, x) == IF x.off > Len(b.line[x.path]) THEN [x EXCEPT !.off = 0] ELSE x

LEMMA StillThereIs ==
    ASSUME NEW b \in Buffer, NEW old \in Seq(Entry), Distinct(old)
    PROVE  /\ StillThere(b, old) \in Seq(Entry)
           /\ Distinct(StillThere(b, old))
           /\ \A x : (\E k \in DOMAIN StillThere(b, old) : x = StillThere(b, old)[k])
                     <=> \E i \in DOMAIN old : old[i].path \in b.files /\ x = Reset(b, old[i])
           /\ StillThere(b, old) = <<>> <=> \A i \in DOMAIN old : old[i].path \notin b.files
<1> DEFINE K == {k \in DOMAIN old : old[k].path \in b.files}
           kept == Picked(old, K)
           m == Cardinality(K)
           o == Rising(K)
           s == StillThere(b, old)
<1>1. K \subseteq DOMAIN old /\ DOMAIN old = 1..Len(old) /\ Len(old) \in Nat
    OBVIOUS
<1>2. \A k \in DOMAIN old : old[k] \in Entry
    OBVIOUS
<1>3. s = [k \in DOMAIN kept |-> Reset(b, kept[k])]
    BY DEF StillThere, Reset
<1>4. \A k \in K : old[k].path \in b.files
    OBVIOUS
<1>5. \A k \in DOMAIN old : k \in K <=> old[k].path \in b.files
    OBVIOUS
<1> HIDE DEF K, s, kept, o
<1>6. m \in Nat /\ o \in [1..m -> K]
    BY <1>1, PickedIs DEF o
<1>7. \A k \in K : \E i \in 1..m : o[i] = k
    BY <1>1, PickedIs DEF o
<1>8. \A i, j \in 1..m : i < j => o[i] < o[j]
    BY <1>1, PickedIs DEF o
<1>9. \A i \in 1..m : kept[i] = old[o[i]]
    BY <1>1, PickedIs DEF o, kept
<1>10. kept \in Seq(Entry) /\ Len(kept) = m
    BY <1>1, PickedIs DEF o, kept
<1> HIDE DEF m
<1>11. DOMAIN s = 1..m /\ \A i \in 1..m : s[i] = Reset(b, old[o[i]]) /\ o[i] \in K
    BY <1>3, <1>6, <1>9, <1>10
<1>12. \A x \in Entry : Reset(b, x) \in Entry /\ Reset(b, x).path = x.path
    BY DEF Reset, Entry
<1>13. \A i \in 1..m : o[i] \in DOMAIN old /\ old[o[i]] \in Entry
    BY <1>1, <1>2, <1>11
<1>14. s \in Seq(Entry)
    <2>1. \A i \in 1..m : s[i] \in Entry
        BY <1>11, <1>12, <1>13
    <2>2. s \in [1..m -> Entry]
        BY <1>3, <1>11, <2>1
    <2> QED BY <1>6, <2>2
<1>15. Distinct(s)
    <2> SUFFICES ASSUME NEW i \in 1..m, NEW j \in 1..m, s[i].path = s[j].path
                 PROVE  i = j
        BY <1>11 DEF Distinct
    <2>1. old[o[i]].path = old[o[j]].path
        BY <1>11, <1>12, <1>13
    <2>2. o[i] = o[j] /\ o[i] \in Nat
        BY <1>1, <1>13, <2>1 DEF Distinct
    <2>3. ~(i < j) /\ ~(j < i)
        BY <1>8, <2>2
    <2> QED BY <1>6, <2>3
<1>16. ASSUME NEW x
       PROVE  (\E k \in DOMAIN s : x = s[k]) <=> \E i \in DOMAIN old : old[i].path \in b.files /\ x = Reset(b, old[i])
    <2>1. (\E k \in DOMAIN s : x = s[k]) <=> \E i \in 1..m : x = Reset(b, old[o[i]])
        BY <1>11
    <2>2. (\E i \in 1..m : x = Reset(b, old[o[i]])) <=> \E k \in K : x = Reset(b, old[k])
        BY <1>7, <1>11
    <2> QED BY <1>1, <1>5, <2>1, <2>2
<1>17. s = <<>> <=> m = 0
    BY <1>6, <1>11, <1>14
<1>18. m = 0 <=> \A i \in DOMAIN old : old[i].path \notin b.files
    <2>1. m = 0 => \A k \in K : FALSE
        BY <1>7
    <2>2. m # 0 => \E k \in K : TRUE
        <3> SUFFICES ASSUME m # 0 PROVE \E k \in K : TRUE
            OBVIOUS
        <3>1. 1 \in 1..m
            BY <1>6
        <3> QED BY <1>11, <3>1
    <2> QED BY <1>1, <1>5, <2>1, <2>2
<1> QED BY <1>14, <1>15, <1>16, <1>17, <1>18 DEF s

LEMMA LoadedIs ==
    ASSUME NEW b \in Buffer, \A p \in Path \ b.files : b.line[p] = <<>>,
           NEW old \in Seq(Entry), Distinct(old)
    PROVE  /\ Sound(Loaded(b, old))
           /\ Loaded(b, old).files = b.files
           /\ Loaded(b, old).line = b.line
           /\ Loaded(b, old).pending = Cardinality(Unread(Loaded(b, old)))
           /\ StillThere(b, old) = <<>> <=> \A i \in DOMAIN old : old[i].path \notin b.files
           /\ StillThere(b, old) = <<>> =>
                 \A x : x \in Entries(Loaded(b, old)) <=> \E p \in b.files : x = FrontEntry(p)
           /\ StillThere(b, old) # <<>> =>
                 \A x : x \in Entries(Loaded(b, old)) <=>
                           \E i \in DOMAIN old : old[i].path \in b.files /\ x = Reset(b, old[i])
<1> DEFINE s == StillThere(b, old)
           d == Discovered(b)
           q == IF s # <<>> THEN s ELSE d
           c == [b EXCEPT !.queue = q]
           n == Cardinality(Unread(c))
           l == Loaded(b, old)
<1>1. /\ s \in Seq(Entry) /\ Distinct(s)
      /\ \A x : (\E k \in DOMAIN s : x = s[k])
                   <=> \E i \in DOMAIN old : old[i].path \in b.files /\ x = Reset(b, old[i])
      /\ s = <<>> <=> \A i \in DOMAIN old : old[i].path \notin b.files
    BY StillThereIs
<1>2. /\ d \in Seq(Entry) /\ Distinct(d)
      /\ \A x : (\E k \in DOMAIN d : x = d[k]) <=> \E p \in b.files : x = FrontEntry(p)
    BY DiscoveredIs
<1> HIDE DEF s, d
<1>3. q \in Seq(Entry) /\ Distinct(q)
    BY <1>1, <1>2
<1>4. l = [b EXCEPT !.queue = q, !.pending = n]
    BY DEF Loaded, s, d
<1> HIDE DEF q, n, l
<1>5. c \in Buffer /\ c.queue = q /\ c.line = b.line /\ c.files = b.files
    BY <1>3 DEF Buffer
<1>6. n \in Nat
    BY <1>5, UnreadIs, FS_CardinalityType DEF n
<1> HIDE DEF c
<1>7. l \in Buffer /\ l.queue = q /\ l.line = b.line /\ l.files = b.files /\ l.pending = n
    BY <1>3, <1>4, <1>6 DEF Buffer
<1>8. Unread(l) = Unread(c)
    BY <1>5, <1>7 DEF Unread
<1>9. \A x : x \in Entries(l) <=> \E k \in DOMAIN q : x = q[k]
    BY <1>7 DEF Entries
<1>10. s = <<>> => \A x : x \in Entries(l) <=> \E p \in b.files : x = FrontEntry(p)
    BY <1>2, <1>9 DEF q
<1>11. s # <<>> => \A x : x \in Entries(l) <=>
                      \E i \in DOMAIN old : old[i].path \in b.files /\ x = Reset(b, old[i])
    BY <1>1, <1>9 DEF q
<1>12. \A p \in b.files : Len(b.line[p]) \in Nat
    BY DEF Buffer
<1>13. \A x \in Entries(l) : x.path \in l.files /\ x.off <= Len(l.line[x.path])
    <2> TAKE x \in Entries(l)
    <2>1. CASE s = <<>>
        <3>1. PICK p \in b.files : x = FrontEntry(p)
            BY <1>10, <2>1
        <3>2. x.path = p /\ x.off = 0
            BY <3>1 DEF FrontEntry
        <3> QED BY <1>7, <1>12, <3>2
    <2>2. CASE s # <<>>
        <3>1. PICK i \in DOMAIN old : old[i].path \in b.files /\ x = Reset(b, old[i])
            BY <1>11, <2>2
        <3>2. old[i] \in Entry
            OBVIOUS
        <3>4. old[i].off \in Nat
            BY <3>2 DEF Entry
        <3>3. x.path = old[i].path /\ (x.off = 0 \/ ~(x.off > Len(b.line[old[i].path]))) /\ x.off \in Nat
            BY <3>1, <3>2, <3>4 DEF Reset, Entry
        <3> QED BY <1>7, <1>12, <3>1, <3>3
    <2> QED BY <2>1, <2>2
<1>14. Sound(l)
    BY <1>3, <1>7, <1>13 DEF Sound
<1>15. l.pending = Cardinality(Unread(l))
    BY <1>7, <1>8 DEF n
<1> QED BY <1>1, <1>7, <1>10, <1>11, <1>14, <1>15 DEF l, s

-----------------------------------------------------------------------------
(* The shape of the states: types, sound queues, and no event before its   *)
(* put.                                                                    *)
Known == 1..made
Shape ==
    /\ TelemetryTypeOK
    /\ Sound(buf)
    /\ Distinct(saved)
    /\ EventsOnDisk(buf) \subseteq Known
    /\ Range(hand) \subseteq Known
    /\ ~running => deaths # 0 /\ hand = <<>>

LEMMA EmptyIs ==
    /\ Sound(EmptyBuffer)
    /\ EventsOnDisk(EmptyBuffer) = {}
    /\ EmptyBuffer.files = {} /\ EmptyBuffer.queue = <<>> /\ EmptyBuffer.pending = 0
<1> DEFINE l == [p \in Path |-> <<>>]
           b == EmptyBuffer
<1>1. l \in [Path -> Seq(Line)] /\ \A p \in Path : l[p] = <<>>
    OBVIOUS
<1>2. b = [files |-> {}, line |-> l, queue |-> <<>>, pending |-> 0]
    BY DEF EmptyBuffer
<1> HIDE DEF l, b
<1>3. b.files = {} /\ b.line = l /\ b.queue = <<>> /\ b.pending = 0 /\ b \in Buffer
    BY <1>1, <1>2 DEF Buffer
<1>4. Entries(b) = {} /\ Distinct(b.queue)
    BY <1>3 DEF Entries, Distinct
<1>5. Sound(b)
    BY <1>1, <1>3, <1>4 DEF Sound
<1>6. EventsOnDisk(b) = {}
    BY <1>3, OnDiskIs
<1> QED BY <1>3, <1>5, <1>6 DEF b

LEMMA ShapeInit == Init => Shape
<1> SUFFICES ASSUME Init PROVE Shape
    OBVIOUS
<1>1. buf \in Buffer /\ saved \in Seq(Entry) /\ hand \in Seq(Event)
    BY EmptyIs DEF Init, Sound
<1>2. 1..made = {}
    BY DEF Init
<1>5. 0 \in 0..MaxSecond /\ 0 \in 0..MaxDeath /\ 0 \in 0..MaxEvent
    BY BufferAssumption, TelemetryAssumption
<1>6. sec \in 0..MaxSecond /\ deaths \in 0..MaxDeath /\ made \in 0..MaxEvent
    BY <1>5, ZenonT(30) DEF Init
<1>7. /\ got \subseteq 1..made /\ pruned \subseteq 1..made /\ lost \subseteq 1..made
      /\ retried \subseteq 1..made /\ vain \subseteq 1..made
    BY ZenonT(30) DEF Init
<1>8. mode \in Modes /\ running \in BOOLEAN /\ flushing \in BOOLEAN /\ stale \subseteq Path
      /\ failed \in BOOLEAN /\ discovered \in BOOLEAN
    BY ZenonT(30) DEF Init
<1>3. TelemetryTypeOK
    BY <1>1, <1>6, <1>7, <1>8 DEF TelemetryTypeOK
<1>4. Range(hand) = {} /\ Distinct(saved)
    BY DEF Init, Range, Distinct
<1> QED BY <1>3, <1>4, EmptyIs DEF Init, Shape

LEMMA NameIs ==
    ASSUME Shape, NEW kind \in {"rotated", "restore"}, NEW name, NameFor(kind, name)
    PROVE  /\ name \in Path /\ name \notin buf.files /\ name # Active
           /\ sec' \in 0..MaxSecond
<1>1. sec' \in 0..MaxSecond
    BY DEF NameFor
<1>2. name = FreeName(buf, kind, sec') /\ name \notin buf.files
    BY DEF NameFor, NameIsFree
<1>3. PICK i \in 0..1 : name = [kind |-> kind, sec |-> sec', n |-> i]
    BY <1>2 DEF FreeName
<1>4. name \in [kind : {"rotated", "restore"}, sec : 0..MaxSecond, n : 0..1]
    BY <1>1, <1>3
<1>5. name.kind = kind /\ kind # "active"
    BY <1>3
<1> QED BY <1>1, <1>2, <1>4, <1>5, ActiveIs DEF Path

(* A rotation moves the lines and the queue together. *)
LEMMA GrownIs ==
    ASSUME Shape, NEW a, Sound(a), a.files \subseteq buf.files \cup {Active},
           NEW name \in Path, RotationName(a, name)
    PROVE  /\ Sound(Rotated(a, name))
           /\ Due(Rotated(a, name)) = Due(a)
           /\ OrphansOf(Rotated(a, name)) = OrphansOf(a)
           /\ Skipped(Rotated(a, name)) = Skipped(a)
           /\ sec' \in 0..MaxSecond
<1>1. CASE MustRotate(a)
    <2>1. NameFor("rotated", name)
        BY <1>1 DEF RotationName
    <2>2. name \notin a.files /\ sec' \in 0..MaxSecond
        BY <2>1, NameIs
    <2> QED BY <1>1, <2>2, RotatedIs, RotatedEvents
<1>2. CASE ~MustRotate(a)
    <2>1. Rotated(a, name) = a /\ sec' = sec
        BY <1>2 DEF Rotated, RotationName
    <2> QED BY <2>1 DEF Shape, TelemetryTypeOK
<1> QED BY <1>1, <1>2

(* A put in all: nothing leaves the buffer but what is listed as pruned. *)
LEMMA PutOfIs ==
    ASSUME Shape, NEW e \in Event, e \notin EventsOnDisk(buf), made' = e,
           NEW a, Gains(buf, a, e), a.files \subseteq buf.files \cup {Active}, PutOf(a)
    PROVE  /\ Sound(buf')
           /\ Due(buf) \subseteq Due(buf') \cup pruned'
           /\ Due(buf') \subseteq Due(buf) \cup OrphansOf(buf) \cup {e}
           /\ OrphansOf(buf) \subseteq Due(buf') \cup OrphansOf(buf') \cup pruned'
           /\ OrphansOf(buf') \subseteq OrphansOf(buf)
           /\ Skipped(buf') \subseteq Skipped(buf)
           /\ EventsOnDisk(buf') \subseteq EventsOnDisk(buf) \cup {e}
           /\ e \in Due(buf') \cup pruned' \cup lost'
           /\ pruned \subseteq pruned' /\ pruned' \subseteq pruned \cup EventsOnDisk(buf) \cup {e}
           /\ lost \subseteq lost' /\ lost' \subseteq lost \cup {e}
           /\ stale' \subseteq Path
           /\ sec' \in 0..MaxSecond
<1>1. PICK name \in Path :
         /\ RotationName(a, name)
         /\ Keeps(Pruned(Rotated(a, name), stale))
         /\ pruned' = pruned \cup (Due(Rotated(a, name)) \ Due(Pruned(Rotated(a, name), stale)))
         /\ lost' = IF IsOn(a, made') THEN lost ELSE lost \cup {made'}
    BY DEF PutOf
<1> DEFINE g == Rotated(a, name)
           k == Pruned(g, stale)
<1>2. /\ Sound(a)
      /\ Due(buf) \subseteq Due(a)
      /\ Due(a) \subseteq Due(buf) \cup OrphansOf(buf) \cup {e}
      /\ OrphansOf(buf) \subseteq Due(a) \cup OrphansOf(a)
      /\ OrphansOf(a) \subseteq OrphansOf(buf)
      /\ Skipped(a) \subseteq Skipped(buf)
      /\ EventsOnDisk(a) \subseteq EventsOnDisk(buf) \cup {e}
      /\ e \in EventsOnDisk(a) => e \in Due(a) \cup EventsOnDisk(buf)
    BY DEF Gains
<1>3. /\ Sound(g) /\ Due(g) = Due(a) /\ OrphansOf(g) = OrphansOf(a) /\ Skipped(g) = Skipped(a)
      /\ sec' \in 0..MaxSecond
    BY <1>1, <1>2, GrownIs
<1>4. Keeping(g, k)
    BY <1>3, PrunedKeeps
<1>5. Due(k) \subseteq Due(g) /\ OrphansOf(k) = OrphansOf(g) /\ Skipped(k) \subseteq Skipped(g) /\ Sound(k)
    BY <1>3, <1>4, KeepingEvents DEF Keeping
<1>6. buf' = k /\ stale' = stale \cap k.files /\ pruned' = pruned \cup (Due(g) \ Due(k))
    BY <1>1 DEF Keeps
<1>7. lost' = IF e \in EventsOnDisk(a) THEN lost ELSE lost \cup {e}
    BY <1>1 DEF IsOn
<1> HIDE DEF g, k
<1>8. Sound(buf') /\ Due(buf') = Due(k) /\ OrphansOf(buf') = OrphansOf(k)
      /\ Skipped(buf') = Skipped(k) /\ EventsOnDisk(buf') = EventsOnDisk(k)
    BY <1>5, <1>6
<1>9. /\ EventsOnDisk(k) \subseteq Due(k) \cup OrphansOf(k) \cup Skipped(k)
      /\ Due(a) \cup OrphansOf(a) \cup Skipped(a) \subseteq EventsOnDisk(a)
    BY <1>2, <1>5, OnDiskSplits
<1>10. EventsOnDisk(buf') \subseteq EventsOnDisk(buf) \cup {e}
    BY <1>2, <1>3, <1>5, <1>8, <1>9
<1>11. e \in Due(buf') \cup pruned' \cup lost'
    BY <1>2, <1>3, <1>6, <1>7, <1>8
<1>12. pruned' \subseteq pruned \cup EventsOnDisk(buf) \cup {e}
    BY <1>2, <1>3, <1>6, <1>9
<1>13. stale' \subseteq Path
    BY <1>6 DEF Shape, TelemetryTypeOK
<1>14. Due(buf) \subseteq Due(buf') \cup pruned'
    BY <1>2, <1>3, <1>6, <1>8
<1>15. OrphansOf(buf) \subseteq Due(buf') \cup OrphansOf(buf') \cup pruned'
    BY <1>2, <1>3, <1>5, <1>6, <1>8
<1>16. Due(buf') \subseteq Due(buf) \cup OrphansOf(buf) \cup {e}
    BY <1>2, <1>3, <1>5, <1>8
<1>17. OrphansOf(buf') \subseteq OrphansOf(buf) /\ Skipped(buf') \subseteq Skipped(buf)
    BY <1>2, <1>3, <1>5, <1>8
<1>18. pruned \subseteq pruned' /\ lost \subseteq lost' /\ lost' \subseteq lost \cup {e}
    BY <1>6, <1>7
<1> QED BY <1>3, <1>8, <1>10, <1>11, <1>12, <1>13, <1>14, <1>15, <1>16, <1>17, <1>18

LEMMA ConsumedEvents ==
    ASSUME NEW b, Sound(b), NEW k \in 0..Len(b.queue)
    PROVE  EventsOnDisk(Consumed(b, k)) \subseteq EventsOnDisk(b)
<1> DEFINE c == Consumed(b, k)
<1>1. b \in Buffer
    BY DEF Sound
<1>2. c \in Buffer /\ c.files \subseteq b.files
      /\ \A p \in Path : c.line[p] = IF p \in Emptied(b, k) THEN <<>> ELSE b.line[p]
    BY ConsumedIs
<1> HIDE DEF c
<1> SUFFICES ASSUME NEW e \in EventsOnDisk(c) PROVE e \in EventsOnDisk(b)
    BY DEF c
<1>3. PICK p \in c.files : \E j \in Nat : Holds(c, p, j, e)
    BY <1>2, OnDiskIs
<1>4. PICK j \in Nat : Holds(c, p, j, e)
    BY <1>3
<1>5. p \in Path /\ p \in b.files
    BY <1>1, <1>2, <1>3 DEF Buffer
<1>6. c.line[p] = b.line[p]
    BY <1>2, <1>4, <1>5 DEF Holds
<1>7. Holds(b, p, j, e) /\ e \in Event
    BY <1>2, <1>4, <1>6, OnDiskIs DEF Holds
<1> QED BY <1>1, <1>5, <1>7, OnDiskIs

(* A process that ends leaves its files and nothing in memory. *)
LEMMA DeadIs ==
    ASSUME NEW b \in Buffer, \A p \in Path \ b.files : b.line[p] = <<>>
    PROVE  LET d == [b EXCEPT !.queue = <<>>, !.pending = 0]
           IN  /\ Sound(d)
               /\ d.files = b.files /\ d.line = b.line /\ d.queue = <<>>
               /\ EventsOnDisk(d) = EventsOnDisk(b)
               /\ Entries(d) = {}
<1> DEFINE d == [b EXCEPT !.queue = <<>>, !.pending = 0]
           q == <<>>
<1>0. q \in Seq(Entry) /\ 0 \in Nat
    OBVIOUS
<1>5. d = [b EXCEPT !.queue = q, !.pending = 0] /\ q = <<>>
    OBVIOUS
<1> HIDE DEF d, q
<1>1. d \in Buffer /\ d.files = b.files /\ d.line = b.line /\ d.queue = <<>>
    BY <1>0, <1>5 DEF Buffer
<1>2. Entries(d) = {} /\ Distinct(d.queue)
    BY <1>1 DEF Entries, Distinct
<1>3. Sound(d)
    BY <1>1, <1>2 DEF Sound
<1>4. EventsOnDisk(d) = EventsOnDisk(b)
    BY <1>1 DEF EventsOnDisk
<1> QED BY <1>1, <1>2, <1>3, <1>4 DEF d

LEMMA DiesIs ==
    ASSUME Shape, NEW b \in Buffer, \A p \in Path \ b.files : b.line[p] = <<>>, DiesWith(b)
    PROVE  /\ Sound(buf') /\ buf'.files = b.files /\ buf'.line = b.line /\ buf'.queue = <<>>
           /\ EventsOnDisk(buf') = EventsOnDisk(b)
           /\ Entries(buf') = {}
           /\ running /\ running' = FALSE
           /\ deaths' \in 0..MaxDeath /\ deaths' # 0
           /\ hand' = <<>> /\ Range(hand') = {}
           /\ saved' = saved /\ mode' = mode /\ discovered' = discovered
           /\ flushing' = FALSE
           /\ stale' \subseteq Path
<1>1. buf' = [b EXCEPT !.queue = <<>>, !.pending = 0]
    BY DEF DiesWith
<1>2. Sound(buf') /\ buf'.files = b.files /\ buf'.line = b.line /\ buf'.queue = <<>>
      /\ EventsOnDisk(buf') = EventsOnDisk(b) /\ Entries(buf') = {}
    BY <1>1, DeadIs
<1>3. deaths \in 0..MaxDeath /\ stale \subseteq Path
    BY DEF Shape, TelemetryTypeOK
<1>4. deaths' \in 0..MaxDeath /\ deaths' # 0
    BY <1>3, TelemetryAssumption DEF DiesWith
<1>5. stale' \subseteq Path
    BY <1>3 DEF DiesWith
<1>6. hand' = <<>> /\ Range(hand') = {}
    BY DEF DiesWith, Range
<1> QED BY <1>2, <1>4, <1>5, <1>6 DEF DiesWith

(* The event a put is about is new. *)
LEMMA ProducedIs ==
    ASSUME Shape, Produces
    PROVE  /\ made' \in Event /\ made' \in 0..MaxEvent /\ made' = made + 1
           /\ made' \notin Known
           /\ made' \notin EventsOnDisk(buf)
           /\ 1..made' = Known \cup {made'}
           /\ running
<1>1. made \in Nat /\ MaxEvent \in Nat /\ made < MaxEvent /\ made' = made + 1 /\ running
    BY BufferAssumption DEF Shape, TelemetryTypeOK, Produces
<1>2. made' \in Event /\ made' \in 0..MaxEvent
    BY <1>1 DEF Event
<1>3. made' \notin Known /\ 1..made' = Known \cup {made'}
    BY <1>1 DEF Known
<1>4. made' \notin EventsOnDisk(buf)
    BY <1>3 DEF Shape
<1> QED BY <1>1, <1>2, <1>3, <1>4

(* A put that does not die, whether its write succeeds or not. *)
LEMMA PutIs ==
    ASSUME Shape, Put \/ PutFails
    PROVE  /\ Produces
           /\ Sound(buf')
           /\ Due(buf) \subseteq Due(buf') \cup pruned'
           /\ Due(buf') \subseteq Due(buf) \cup OrphansOf(buf) \cup {made'}
           /\ OrphansOf(buf) \subseteq Due(buf') \cup OrphansOf(buf') \cup pruned'
           /\ OrphansOf(buf') \subseteq OrphansOf(buf)
           /\ Skipped(buf') \subseteq Skipped(buf)
           /\ EventsOnDisk(buf') \subseteq EventsOnDisk(buf) \cup {made'}
           /\ made' \in Due(buf') \cup pruned' \cup lost'
           /\ pruned \subseteq pruned' /\ pruned' \subseteq pruned \cup EventsOnDisk(buf) \cup {made'}
           /\ lost \subseteq lost' /\ lost' \subseteq lost \cup {made'}
           /\ stale' \subseteq Path
           /\ sec' \in 0..MaxSecond
           /\ UNCHANGED <<mode, running, hand, flushing, deaths, got, retried, discovered, vain>>
           /\ saved' = buf'.queue \/ (saved' = saved /\ failed')
           /\ failed' \in BOOLEAN
           /\ failed => failed'
           /\ ~failed' => Put
<1>1. Sound(buf) /\ failed \in BOOLEAN
    BY DEF Shape, TelemetryTypeOK
<1>2. Produces
    BY DEF Put, PutFails
<1> DEFINE e == made'
<1>3. e \in Event /\ e \notin EventsOnDisk(buf)
    BY <1>2, ProducedIs
<1>4. PICK a : Gains(buf, a, e) /\ a.files \subseteq buf.files \cup {Active} /\ PutOf(a)
    <2>1. CASE Put
        <3>1. PutOf(Appended(buf, e))
            BY <2>1 DEF Put
        <3>2. Gains(buf, Appended(buf, e), e)
            BY <1>1, <1>3, AppendedGains
        <3>3. Appended(buf, e).files = buf.files \cup {Active}
            BY <1>1, <1>3, AppendedIs
        <3> QED BY <3>1, <3>2, <3>3
    <2>2. CASE PutFails
        <3>1. PICK torn \in BOOLEAN : PutOf(AppendFailed(buf, torn))
            BY <2>2 DEF PutFails
        <3>2. Gains(buf, AppendFailed(buf, torn), e)
            BY <1>1, <1>3, FailedGains
        <3>3. AppendFailed(buf, torn).files \subseteq buf.files \cup {Active}
            BY <1>1, FailedIs
        <3> QED BY <3>1, <3>2, <3>3
    <2> QED BY <2>1, <2>2
<1>5. /\ UNCHANGED <<mode, running, hand, flushing, deaths, got, retried, discovered, vain>>
      /\ saved' = buf'.queue \/ (saved' = saved /\ failed')
      /\ failed' \in BOOLEAN
      /\ failed => failed'
      /\ ~failed' => Put
    BY <1>1 DEF Put, PutFails, WritesState, WriteFails
<1>6. e = made'
    OBVIOUS
<1> HIDE DEF e
<1>7. Sound(buf')
    BY <1>3, <1>4, <1>6, PutOfIs
<1>8. Due(buf) \subseteq Due(buf') \cup pruned'
    BY <1>3, <1>4, <1>6, PutOfIs
<1>9. Due(buf') \subseteq Due(buf) \cup OrphansOf(buf) \cup {e}
    BY <1>3, <1>4, <1>6, PutOfIs
<1>10. OrphansOf(buf) \subseteq Due(buf') \cup OrphansOf(buf') \cup pruned'
    BY <1>3, <1>4, <1>6, PutOfIs
<1>11. OrphansOf(buf') \subseteq OrphansOf(buf)
    BY <1>3, <1>4, <1>6, PutOfIs
<1>12. Skipped(buf') \subseteq Skipped(buf)
    BY <1>3, <1>4, <1>6, PutOfIs
<1>13. EventsOnDisk(buf') \subseteq EventsOnDisk(buf) \cup {e}
    BY <1>3, <1>4, <1>6, PutOfIs
<1>14. e \in Due(buf') \cup pruned' \cup lost'
    BY <1>3, <1>4, <1>6, PutOfIs
<1>15. pruned \subseteq pruned' /\ pruned' \subseteq pruned \cup EventsOnDisk(buf) \cup {e}
    BY <1>3, <1>4, <1>6, PutOfIs
<1>16. lost \subseteq lost' /\ lost' \subseteq lost \cup {e}
    BY <1>3, <1>4, <1>6, PutOfIs
<1>17. stale' \subseteq Path /\ sec' \in 0..MaxSecond
    BY <1>3, <1>4, <1>6, PutOfIs
<1> QED BY <1>2, <1>5, <1>6, <1>7, <1>8, <1>9, <1>10, <1>11, <1>12, <1>13, <1>14, <1>15,
           <1>16, <1>17

(* A failed send whose batch is restored. *)
LEMMA RestoredAgain ==
    ASSUME Shape, ExportFails
    PROVE  /\ Sound(buf')
           /\ Due(buf) \cup Range(hand) \subseteq Due(buf') \cup pruned'
           /\ Due(buf') \subseteq Due(buf) \cup Range(hand)
           /\ OrphansOf(buf') = OrphansOf(buf)
           /\ Skipped(buf') \subseteq Skipped(buf)
           /\ pruned \subseteq pruned' /\ pruned' \subseteq pruned \cup Due(buf) \cup Range(hand)
           /\ stale' \subseteq Path
           /\ sec' \in 0..MaxSecond
           /\ saved' = buf'.queue \/ (saved' = saved /\ failed')
           /\ failed' \in BOOLEAN
           /\ failed => failed'
<1>1. PICK name \in Path :
         /\ NameFor("restore", name)
         /\ Keeps(Pruned(Restored(buf, hand, name), stale))
         /\ WritesState
         /\ pruned' = pruned \cup (Due(Restored(buf, hand, name))
                                     \ Due(Pruned(Restored(buf, hand, name), stale)))
    BY DEF ExportFails
<1> DEFINE r == Restored(buf, hand, name)
           k == Pruned(r, stale)
<1>2. Sound(buf) /\ hand \in Seq(Event) /\ failed \in BOOLEAN /\ stale \subseteq Path
    BY DEF Shape, TelemetryTypeOK
<1>3. name \notin buf.files /\ sec' \in 0..MaxSecond
    BY <1>1, NameIs
<1>4. Sound(r)
    BY <1>2, <1>3, RestoredIs
<1>5. Due(r) = Due(buf) \cup Range(hand) /\ OrphansOf(r) = OrphansOf(buf) /\ Skipped(r) = Skipped(buf)
    BY <1>2, <1>3, RestoredEvents
<1>6. Keeping(r, k)
    BY <1>4, PrunedKeeps
<1>7. Due(k) \subseteq Due(r) /\ OrphansOf(k) = OrphansOf(r) /\ Skipped(k) \subseteq Skipped(r) /\ Sound(k)
    BY <1>4, <1>6, KeepingEvents DEF Keeping
<1>8. buf' = k /\ stale' = stale \cap k.files /\ pruned' = pruned \cup (Due(r) \ Due(k))
    BY <1>1 DEF Keeps
<1>9. /\ saved' = buf'.queue \/ (saved' = saved /\ failed')
      /\ failed' \in BOOLEAN
      /\ failed => failed'
    BY <1>1, <1>2 DEF WritesState, WriteFails
<1> HIDE DEF r, k
<1>10. Due(buf) \cup Range(hand) \subseteq Due(buf') \cup pruned'
    BY <1>5, <1>7, <1>8
<1> QED BY <1>2, <1>3, <1>5, <1>7, <1>8, <1>9, <1>10

(* A batch taken. *)
LEMMA RoomIs ==
    ASSUME Shape
    PROVE  Room \in Nat /\ Room >= 1
BY TelemetryAssumption DEF Room

LEMMA TakeIs ==
    ASSUME Shape, Take
    PROVE  /\ Sound(buf')
           /\ buf' = Taken(buf, Room)
           /\ hand' = Batch(buf, Room) /\ hand' \in Seq(Event)
           /\ Due(buf) = Due(buf') \cup Range(hand')
           /\ OrphansOf(buf) \subseteq OrphansOf(buf')
           /\ EventsOnDisk(buf') \subseteq EventsOnDisk(buf)
           /\ Skipped(buf') \subseteq Skipped(buf) \cup Range(hand')
           /\ saved' = buf'.queue \/ (saved' = saved /\ failed')
           /\ failed' \in BOOLEAN
           /\ failed => failed'
           /\ stale' \subseteq Path /\ flushing' \in BOOLEAN
           /\ running /\ hand = <<>>
<1> DEFINE n == Room
<1>1. n \in Nat
    BY RoomIs
<1>2. Sound(buf) /\ failed \in BOOLEAN /\ stale \subseteq Path /\ flushing \in BOOLEAN
    BY DEF Shape, TelemetryTypeOK
<1>3. buf' = Taken(buf, n) /\ hand' = Batch(buf, n) /\ stale' = stale \cap Taken(buf, n).files
      /\ running /\ hand = <<>>
    BY DEF Take, Keeps, MayTake
<1>4. buf \in Buffer
    BY <1>2 DEF Sound
<1> HIDE DEF n
<1>5. Sound(buf')
    BY <1>1, <1>2, <1>3, TakenIs
<1>6. hand' \in Seq(Event)
    BY <1>1, <1>3, <1>4, BatchIs
<1>7. Due(buf) = Due(buf') \cup Range(hand')
    BY <1>1, <1>2, <1>3, TakenEvents
<1>8. OrphansOf(buf) \subseteq OrphansOf(buf')
    BY <1>1, <1>2, <1>3, TakenEvents
<1>9. Skipped(buf') \subseteq Skipped(buf) \cup Range(hand')
    BY <1>1, <1>2, <1>3, TakenEvents
<1>10. /\ buf'.files = Consumed(buf, Popped(buf, n)).files
       /\ buf'.line = Consumed(buf, Popped(buf, n)).line
    BY <1>1, <1>2, <1>3, TakenQueue
<1>11. Popped(buf, n) \in 0..Len(buf.queue)
    BY <1>1, <1>4, PoppedIs
<1>12. EventsOnDisk(buf') = EventsOnDisk(Consumed(buf, Popped(buf, n)))
    BY <1>10 DEF EventsOnDisk
<1>13. EventsOnDisk(Consumed(buf, Popped(buf, n))) \subseteq EventsOnDisk(buf)
    BY <1>2, <1>11, ConsumedEvents
<1>14. /\ saved' = buf'.queue \/ (saved' = saved /\ failed')
       /\ failed' \in BOOLEAN
       /\ failed => failed'
       /\ flushing' \in BOOLEAN
    BY <1>2 DEF Take, WritesState, WriteFails
<1> QED BY <1>2, <1>3, <1>5, <1>6, <1>7, <1>8, <1>9, <1>12, <1>13, <1>14 DEF n

-----------------------------------------------------------------------------
(* The shape survives every step. *)
LEMMA ShapePut == Shape /\ (Put \/ PutFails) => Shape'
<1> SUFFICES ASSUME Shape, Put \/ PutFails PROVE Shape'
    OBVIOUS
<1>1. Shape /\ Produces /\ made' \in 0..MaxEvent /\ 1..made' = Known \cup {made'}
    BY PutIs, ProducedIs
<1>2. Sound(buf') /\ EventsOnDisk(buf') \subseteq EventsOnDisk(buf) \cup {made'}
    BY PutIs
<1>3. /\ UNCHANGED <<mode, running, hand, flushing, deaths, got, retried, discovered, vain>>
      /\ saved' = buf'.queue \/ saved' = saved
      /\ failed' \in BOOLEAN
    BY PutIs
<1>4. stale' \subseteq Path /\ sec' \in 0..MaxSecond
    BY PutIs
<1>5. pruned' \subseteq pruned \cup EventsOnDisk(buf) \cup {made'} /\ lost' \subseteq lost \cup {made'}
    BY PutIs
<1>6. buf' \in Buffer /\ Distinct(buf'.queue) /\ buf'.queue \in Seq(Entry)
    BY <1>2 DEF Sound, Buffer
<1>7. saved' \in Seq(Entry) /\ Distinct(saved')
    BY <1>3, <1>6 DEF Shape, TelemetryTypeOK
<1>8. /\ got' \subseteq 1..made' /\ pruned' \subseteq 1..made' /\ lost' \subseteq 1..made'
      /\ retried' \subseteq 1..made' /\ vain' \subseteq 1..made'
    BY <1>1, <1>3, <1>5 DEF Shape, TelemetryTypeOK, Known
<1>9. mode' \in Modes /\ running' \in BOOLEAN /\ hand' \in Seq(Event) /\ flushing' \in BOOLEAN
      /\ deaths' \in 0..MaxDeath /\ discovered' \in BOOLEAN
    BY <1>3 DEF Shape, TelemetryTypeOK
<1>10. TelemetryTypeOK'
    BY <1>1, <1>3, <1>4, <1>6, <1>7, <1>8, <1>9 DEF TelemetryTypeOK
<1>11. EventsOnDisk(buf') \subseteq 1..made'
    BY <1>1, <1>2 DEF Shape
<1>12. Range(hand') \subseteq 1..made'
    BY <1>1, <1>3 DEF Shape
<1>13. ~running' => deaths' # 0 /\ hand' = <<>>
    BY <1>3 DEF Shape
<1> QED BY <1>2, <1>7, <1>10, <1>11, <1>12, <1>13 DEF Shape, Known

(* What is left to show of a step in which the process dies. *)
LEMMA ShapeDead ==
    ASSUME Shape, NEW b \in Buffer, \A p \in Path \ b.files : b.line[p] = <<>>, DiesWith(b),
           made' \in 0..MaxEvent, sec' \in 0..MaxSecond, failed' \in BOOLEAN,
           EventsOnDisk(b) \subseteq 1..made',
           got' \subseteq 1..made', pruned' \subseteq 1..made', lost' \subseteq 1..made',
           retried' \subseteq 1..made', vain' \subseteq 1..made'
    PROVE  Shape'
<1>1. /\ Sound(buf')
      /\ EventsOnDisk(buf') = EventsOnDisk(b)
      /\ running' = FALSE
      /\ deaths' \in 0..MaxDeath /\ deaths' # 0
      /\ hand' = <<>> /\ Range(hand') = {}
      /\ saved' = saved /\ mode' = mode /\ discovered' = discovered
      /\ flushing' = FALSE
      /\ stale' \subseteq Path
    BY DiesIs
<1>2. mode' \in Modes /\ discovered' \in BOOLEAN /\ saved' \in Seq(Entry) /\ Distinct(saved')
    BY <1>1 DEF Shape, TelemetryTypeOK
<1>5. flushing' \in BOOLEAN /\ running' \in BOOLEAN
    BY <1>1
<1>6. hand' \in Seq(Event)
    BY <1>1
<1>3. buf' \in Buffer
    BY <1>1 DEF Sound
<1>4. TelemetryTypeOK'
    BY <1>1, <1>2, <1>3, <1>5, <1>6 DEF TelemetryTypeOK
<1> QED BY <1>1, <1>2, <1>4 DEF Shape, Known

LEMMA SameHistory ==
    ASSUME Shape
    PROVE  /\ got \subseteq 1..made /\ pruned \subseteq 1..made /\ lost \subseteq 1..made
           /\ retried \subseteq 1..made /\ vain \subseteq 1..made
           /\ made \in 0..MaxEvent /\ sec \in 0..MaxSecond /\ failed \in BOOLEAN
           /\ EventsOnDisk(buf) \subseteq 1..made /\ Range(hand) \subseteq 1..made
           /\ Sound(buf) /\ buf \in Buffer /\ (\A p \in Path \ buf.files : buf.line[p] = <<>>)
           /\ Len(buf.queue) \in Nat
BY EntryIs DEF Shape, TelemetryTypeOK, Known, Sound

(* Where put dies. *)
LEMMA PutDiesIs ==
    ASSUME Shape, PutDies
    PROVE  /\ Produces
           /\ \E b : /\ DiesWith(b) /\ Sound(b)
                     /\ EventsOnDisk(b) \subseteq EventsOnDisk(buf) \cup {made'}
                     /\ Due(buf) \cup OrphansOf(buf) \subseteq EventsOnDisk(b) \cup pruned'
                     /\ made' \in EventsOnDisk(b) \cup pruned' \cup lost'
           /\ pruned \subseteq pruned' /\ pruned' \subseteq pruned \cup EventsOnDisk(buf) \cup {made'}
           /\ lost \cup Range(hand) \subseteq lost' /\ lost' \subseteq lost \cup Range(hand) \cup {made'}
           /\ sec' \in 0..MaxSecond
           /\ UNCHANGED <<got, retried, failed, vain>>
<1> DEFINE e == made'
           a == Appended(buf, e)
<1>1. Produces /\ UNCHANGED <<got, retried, failed, vain>>
    BY DEF PutDies
<1>2. PICK name \in Path :
         /\ RotationName(a, name)
         /\ \E b \in {a, Rotated(a, name), Pruned(Rotated(a, name), stale)} :
               /\ DiesWith(b)
               /\ pruned' = pruned \cup (Due(Rotated(a, name)) \ Due(b))
         /\ lost' = lost \cup Range(hand) \cup (IF IsOn(a, e) THEN {} ELSE {e})
    BY DEF PutDies
<1> DEFINE g == Rotated(a, name)
           k == Pruned(g, stale)
<1>3. PICK b \in {a, g, k} : DiesWith(b) /\ pruned' = pruned \cup (Due(g) \ Due(b))
    BY <1>2
<1>4. Sound(buf) /\ e \in Event /\ e \notin EventsOnDisk(buf)
    BY <1>1, ProducedIs, SameHistory
<1>5. Gains(buf, a, e) /\ a.files \subseteq buf.files \cup {Active}
    BY <1>4, AppendedGains, AppendedIs
<1>6. /\ Sound(a)
      /\ Due(buf) \subseteq Due(a)
      /\ OrphansOf(buf) \subseteq Due(a) \cup OrphansOf(a)
      /\ EventsOnDisk(a) \subseteq EventsOnDisk(buf) \cup {e}
      /\ e \in EventsOnDisk(a) => e \in Due(a)
    BY <1>4, <1>5 DEF Gains
<1>7. /\ Sound(g) /\ Due(g) = Due(a) /\ OrphansOf(g) = OrphansOf(a) /\ Skipped(g) = Skipped(a)
      /\ sec' \in 0..MaxSecond
    BY <1>2, <1>5, <1>6, GrownIs
<1>8. Keeping(g, k)
    BY <1>7, PrunedKeeps
<1>9. Due(k) \subseteq Due(g) /\ OrphansOf(k) = OrphansOf(g) /\ Skipped(k) \subseteq Skipped(g) /\ Sound(k)
    BY <1>7, <1>8, KeepingEvents DEF Keeping
<1>10. lost' = lost \cup Range(hand) \cup (IF e \in EventsOnDisk(a) THEN {} ELSE {e})
    BY <1>2 DEF IsOn
<1> HIDE DEF a, g, k
<1>11. /\ Sound(b) /\ Due(b) \subseteq Due(a) /\ OrphansOf(b) = OrphansOf(a)
       /\ Skipped(b) \subseteq Skipped(a) /\ pruned' = pruned \cup (Due(a) \ Due(b))
    BY <1>3, <1>6, <1>7, <1>9
<1>12. /\ EventsOnDisk(b) \subseteq Due(b) \cup OrphansOf(b) \cup Skipped(b)
       /\ Due(b) \cup OrphansOf(b) \subseteq EventsOnDisk(b)
    BY <1>11, OnDiskSplits
<1>13. Due(a) \cup OrphansOf(a) \cup Skipped(a) \subseteq EventsOnDisk(a)
    BY <1>6, OnDiskSplits
<1>14. EventsOnDisk(b) \subseteq EventsOnDisk(buf) \cup {e}
    BY <1>6, <1>11, <1>12, <1>13
<1>15. Due(buf) \cup OrphansOf(buf) \subseteq EventsOnDisk(b) \cup pruned'
    BY <1>6, <1>11, <1>12
<1>16. e \in EventsOnDisk(b) \cup pruned' \cup lost'
    BY <1>6, <1>10, <1>11, <1>12
<1>17. pruned \subseteq pruned' /\ pruned' \subseteq pruned \cup EventsOnDisk(buf) \cup {e}
    BY <1>6, <1>11, <1>13
<1>18. lost \cup Range(hand) \subseteq lost' /\ lost' \subseteq lost \cup Range(hand) \cup {e}
    BY <1>10
<1>19. DiesWith(b)
    BY <1>3
<1> HIDE DEF e
<1>20. \E c : /\ DiesWith(c) /\ Sound(c)
              /\ EventsOnDisk(c) \subseteq EventsOnDisk(buf) \cup {e}
              /\ Due(buf) \cup OrphansOf(buf) \subseteq EventsOnDisk(c) \cup pruned'
              /\ e \in EventsOnDisk(c) \cup pruned' \cup lost'
    BY <1>11, <1>14, <1>15, <1>16, <1>19
<1> QED BY <1>1, <1>7, <1>17, <1>18, <1>20 DEF e

LEMMA ShapePutDies == Shape /\ PutDies => Shape'
<1> SUFFICES ASSUME Shape, PutDies PROVE Shape'
    OBVIOUS
<1>1. Produces /\ made' \in 0..MaxEvent /\ 1..made' = Known \cup {made'}
    BY PutDiesIs, ProducedIs
<1>2. PICK b : DiesWith(b) /\ Sound(b) /\ EventsOnDisk(b) \subseteq EventsOnDisk(buf) \cup {made'}
    BY PutDiesIs
<1>3. /\ pruned' \subseteq pruned \cup EventsOnDisk(buf) \cup {made'}
      /\ lost' \subseteq lost \cup Range(hand) \cup {made'}
      /\ sec' \in 0..MaxSecond
      /\ UNCHANGED <<got, retried, failed, vain>>
    BY PutDiesIs
<1>4. /\ got' \subseteq 1..made' /\ pruned' \subseteq 1..made' /\ lost' \subseteq 1..made'
      /\ retried' \subseteq 1..made' /\ vain' \subseteq 1..made' /\ failed' \in BOOLEAN
      /\ EventsOnDisk(b) \subseteq 1..made'
    BY <1>1, <1>2, <1>3, SameHistory DEF Known
<1>5. b \in Buffer /\ \A p \in Path \ b.files : b.line[p] = <<>>
    BY <1>2 DEF Sound
<1> QED BY <1>1, <1>2, <1>3, <1>4, <1>5, ShapeDead

LEMMA TornIs ==
    ASSUME NEW b, Sound(b)
    PROVE  Sound(Written(b, Torn)) /\ EventsOnDisk(Written(b, Torn)) = EventsOnDisk(b)
<1> DEFINE w == Written(b, Torn)
<1>1. b \in Buffer /\ Torn \in Line /\ Torn \notin Event
    BY BufferAssumption DEF Sound, Line, Torn, Event
<1>2. AppendFailed(b, TRUE) = [w EXCEPT !.pending = @ + 1]
    BY DEF AppendFailed
<1>3. w \in Buffer /\ w.files = b.files \cup {Active} /\ w.queue = b.queue
    BY <1>1, WrittenIs
<1>4. AppendFailed(b, TRUE).queue = w.queue /\ AppendFailed(b, TRUE).files = w.files
      /\ AppendFailed(b, TRUE).line = w.line /\ Sound(AppendFailed(b, TRUE))
    <2>1. AppendFailed(b, TRUE).line = Written(b, Torn).line
        BY FailedIs
    <2>2. AppendFailed(b, TRUE).files = b.files \cup {Active}
        BY FailedIs
    <2>3. AppendFailed(b, TRUE).queue = b.queue
        BY FailedIs
    <2>4. Sound(AppendFailed(b, TRUE))
        BY FailedIs
    <2> QED BY <1>3, <2>1, <2>2, <2>3, <2>4
<1> HIDE DEF w
<1>5. Sound(w)
    BY <1>3, <1>4 DEF Sound, Entries
<1>6. \A p \in Path : \A j : \A e \in Event : Holds(w, p, j, e) <=> Holds(b, p, j, e)
    BY <1>1, WrittenHolds DEF w
<1>7. \A e : e \in EventsOnDisk(w) => e \in EventsOnDisk(b)
    <2> SUFFICES ASSUME NEW e \in EventsOnDisk(w) PROVE e \in EventsOnDisk(b)
        OBVIOUS
    <2>1. e \in Event /\ \E p \in w.files : \E j \in Nat : Holds(w, p, j, e)
        BY <1>3, OnDiskIs
    <2>2. PICK p \in w.files : \E j \in Nat : Holds(w, p, j, e)
        BY <2>1
    <2>3. PICK j \in Nat : Holds(w, p, j, e)
        BY <2>2
    <2>4. p \in Path
        BY <1>3 DEF Buffer
    <2>5. Holds(b, p, j, e)
        BY <1>6, <2>1, <2>3, <2>4
    <2>6. p \in b.files
        BY <2>4, <2>5 DEF Sound, Holds
    <2> QED BY <1>1, <2>1, <2>5, <2>6, OnDiskIs
<1>8. \A e : e \in EventsOnDisk(b) => e \in EventsOnDisk(w)
    <2> SUFFICES ASSUME NEW e \in EventsOnDisk(b) PROVE e \in EventsOnDisk(w)
        OBVIOUS
    <2>1. e \in Event /\ \E p \in b.files : \E j \in Nat : Holds(b, p, j, e)
        BY <1>1, OnDiskIs
    <2>2. PICK p \in b.files : \E j \in Nat : Holds(b, p, j, e)
        BY <2>1
    <2>3. PICK j \in Nat : Holds(b, p, j, e)
        BY <2>2
    <2>4. p \in Path
        BY <1>1 DEF Buffer
    <2>5. Holds(w, p, j, e)
        BY <1>6, <2>1, <2>3, <2>4
    <2> QED BY <1>3, <2>1, <2>2, <2>5, OnDiskIs
<1> QED BY <1>5, <1>7, <1>8 DEF w

LEMMA PutTearsIs ==
    ASSUME Shape, PutTears
    PROVE  /\ Produces
           /\ DiesWith(Written(buf, Torn)) /\ Sound(Written(buf, Torn))
           /\ EventsOnDisk(Written(buf, Torn)) = EventsOnDisk(buf)
           /\ failed' = TRUE
           /\ lost' = lost \cup Range(hand) \cup {made'}
           /\ UNCHANGED <<sec, got, pruned, retried, vain>>
<1>1. Sound(buf)
    BY SameHistory
<1>2. Sound(Written(buf, Torn)) /\ EventsOnDisk(Written(buf, Torn)) = EventsOnDisk(buf)
    BY <1>1, TornIs
<1> QED BY <1>2 DEF PutTears, WriteFails

LEMMA ShapePutTears == Shape /\ PutTears => Shape'
<1> SUFFICES ASSUME Shape, PutTears PROVE Shape'
    OBVIOUS
<1> DEFINE b == Written(buf, Torn)
<1>1. Produces /\ made' \in 0..MaxEvent /\ 1..made' = Known \cup {made'}
    BY PutTearsIs, ProducedIs
<1>2. /\ DiesWith(b) /\ Sound(b) /\ EventsOnDisk(b) = EventsOnDisk(buf) /\ failed' = TRUE
      /\ lost' = lost \cup Range(hand) \cup {made'}
      /\ UNCHANGED <<sec, got, pruned, retried, vain>>
    BY PutTearsIs
<1> HIDE DEF b
<1>3. /\ got' \subseteq 1..made' /\ pruned' \subseteq 1..made' /\ lost' \subseteq 1..made'
      /\ retried' \subseteq 1..made' /\ vain' \subseteq 1..made' /\ failed' \in BOOLEAN
      /\ sec' \in 0..MaxSecond
      /\ EventsOnDisk(b) \subseteq 1..made'
    BY <1>1, <1>2, SameHistory DEF Known
<1>4. b \in Buffer /\ \A p \in Path \ b.files : b.line[p] = <<>>
    BY <1>2 DEF Sound
<1> QED BY <1>1, <1>2, <1>3, <1>4, ShapeDead

LEMMA EmptyHand == <<>> \in Seq(Event) /\ Range(<<>>) = {}
<1>1. <<>> \in Seq(Event)
    OBVIOUS
<1> QED BY <1>1 DEF Range

LEMMA ShapeTake == Shape /\ Take => Shape'
<1> SUFFICES ASSUME Shape, Take PROVE Shape'
    OBVIOUS
<1>1. /\ Sound(buf') /\ hand' \in Seq(Event)
      /\ Due(buf) = Due(buf') \cup Range(hand')
      /\ EventsOnDisk(buf') \subseteq EventsOnDisk(buf)
      /\ saved' = buf'.queue \/ saved' = saved
      /\ failed' \in BOOLEAN
      /\ stale' \subseteq Path /\ flushing' \in BOOLEAN
      /\ running
    BY TakeIs
<1>2. UNCHANGED <<mode, running, sec, deaths, made, got, pruned, lost, retried, discovered, vain>>
    BY DEF Take
<1>3. buf' \in Buffer /\ Distinct(buf'.queue) /\ buf'.queue \in Seq(Entry)
    BY <1>1 DEF Sound, Buffer
<1>4. saved' \in Seq(Entry) /\ Distinct(saved')
    BY <1>1, <1>3 DEF Shape, TelemetryTypeOK
<1>5. TelemetryTypeOK'
    BY <1>1, <1>2, <1>3, <1>4 DEF Shape, TelemetryTypeOK
<1>6. Due(buf) \subseteq 1..made /\ EventsOnDisk(buf) \subseteq 1..made
    BY OnDiskSplits, SameHistory
<1> QED BY <1>1, <1>2, <1>4, <1>5, <1>6 DEF Shape, Known

LEMMA TakeDiesIs ==
    ASSUME Shape, TakeDies
    PROVE  /\ hand = <<>>
           /\ \E k \in 1..Popped(buf, Room) :
                 /\ k \in 0..Len(buf.queue)
                 /\ DiesWith(Consumed(buf, k))
                 /\ lost' = lost \cup (EventsOnDisk(buf) \ EventsOnDisk(Consumed(buf, k)))
                 /\ EventsOnDisk(Consumed(buf, k)) \subseteq EventsOnDisk(buf)
                 /\ Consumed(buf, k) \in Buffer
                 /\ \A p \in Path \ Consumed(buf, k).files : Consumed(buf, k).line[p] = <<>>
           /\ UNCHANGED <<sec, made, got, pruned, retried, failed, vain>>
<1>1. PICK k \in 1..Popped(buf, Room) :
         /\ DiesWith(Consumed(buf, k))
         /\ lost' = lost \cup (EventsOnDisk(buf) \ EventsOnDisk(Consumed(buf, k)))
    BY DEF TakeDies
<1>2. Popped(buf, Room) \in 0..Len(buf.queue) /\ Sound(buf)
    BY RoomIs, SameHistory, PoppedIs
<1>3. k \in 0..Len(buf.queue)
    BY <1>2, SameHistory
<1>4. EventsOnDisk(Consumed(buf, k)) \subseteq EventsOnDisk(buf)
    BY <1>2, <1>3, ConsumedEvents
<1>5. Consumed(buf, k) \in Buffer
    BY <1>2, <1>3, ConsumedIs
<1>6. \A p \in Path \ Consumed(buf, k).files : Consumed(buf, k).line[p] = <<>>
    BY <1>2, <1>3, ConsumedIs
<1> QED BY <1>1, <1>3, <1>4, <1>5, <1>6 DEF TakeDies, MayTake

LEMMA ShapeTakeDies == Shape /\ TakeDies => Shape'
<1> SUFFICES ASSUME Shape, TakeDies PROVE Shape'
    OBVIOUS
<1>1. PICK k \in 1..Popped(buf, Room) :
         /\ DiesWith(Consumed(buf, k))
         /\ lost' = lost \cup (EventsOnDisk(buf) \ EventsOnDisk(Consumed(buf, k)))
         /\ EventsOnDisk(Consumed(buf, k)) \subseteq EventsOnDisk(buf)
         /\ Consumed(buf, k) \in Buffer
         /\ \A p \in Path \ Consumed(buf, k).files : Consumed(buf, k).line[p] = <<>>
    BY TakeDiesIs
<1>2. UNCHANGED <<sec, made, got, pruned, retried, failed, vain>>
    BY TakeDiesIs
<1> DEFINE b == Consumed(buf, k)
<1> HIDE DEF b
<1>3. /\ got' \subseteq 1..made' /\ pruned' \subseteq 1..made' /\ lost' \subseteq 1..made'
      /\ retried' \subseteq 1..made' /\ vain' \subseteq 1..made' /\ failed' \in BOOLEAN
      /\ made' \in 0..MaxEvent /\ sec' \in 0..MaxSecond
      /\ EventsOnDisk(b) \subseteq 1..made'
    BY <1>1, <1>2, SameHistory DEF b
<1>4. b \in Buffer /\ (\A p \in Path \ b.files : b.line[p] = <<>>) /\ DiesWith(b)
    BY <1>1 DEF b
<1> QED BY <1>3, <1>4, ShapeDead

(* A batch that has left the hand, however its send went. *)
LEMMA ShapeSent ==
    Shape /\ (Exported \/ SentInVain \/ RestoreFails \/ FlushStarts \/ DayPasses) => Shape'
<1> SUFFICES ASSUME Shape, Exported \/ SentInVain \/ RestoreFails \/ FlushStarts \/ DayPasses
             PROVE  Shape'
    OBVIOUS
<1>1. UNCHANGED <<mode, running, buf, saved, sec, deaths, made, pruned, discovered>>
    BY DEF Exported, SentInVain, RestoreFails, FlushStarts, DayPasses, SendRaises, bookkeeping
<1>2. hand' = <<>> \/ hand' = hand
    BY DEF Exported, SentInVain, RestoreFails, FlushStarts, DayPasses, SendRaises, bookkeeping
<1>3. flushing' \in BOOLEAN /\ failed' \in BOOLEAN
    BY DEF Exported, SentInVain, RestoreFails, FlushStarts, DayPasses, SendRaises, bookkeeping,
           WriteFails, Shape, TelemetryTypeOK
<1>4. stale' = stale \/ stale' = buf.files \ {Active}
    BY DEF Exported, SentInVain, RestoreFails, FlushStarts, DayPasses
<1>5. /\ got' \in {got, got \cup Range(hand)} /\ vain' \in {vain, vain \cup Range(hand)}
      /\ lost' \in {lost, lost \cup Range(hand)} /\ retried' \in {retried, retried \cup Range(hand)}
    BY DEF Exported, SentInVain, RestoreFails, FlushStarts, DayPasses, SendRaises, bookkeeping
<1>6. stale' \subseteq Path
    BY <1>4 DEF Shape, TelemetryTypeOK, Buffer
<1>7. /\ got' \subseteq 1..made' /\ pruned' \subseteq 1..made' /\ lost' \subseteq 1..made'
      /\ retried' \subseteq 1..made' /\ vain' \subseteq 1..made'
    BY <1>1, <1>5, SameHistory
<1>8. hand \in Seq(Event) /\ Range(hand) \subseteq 1..made /\ made' = made
    BY <1>1, SameHistory DEF Shape, TelemetryTypeOK
<1>9. hand' \in Seq(Event) /\ Range(hand') \subseteq 1..made' /\ (hand = <<>> => hand' = <<>>)
    <2>1. CASE hand' = <<>>
        <3>1. hand' \in Seq(Event) /\ Range(hand') = {}
            BY <2>1, EmptyHand
        <3> QED BY <2>1, <3>1
    <2>2. CASE hand' = hand
        BY <1>8, <2>2
    <2> QED BY <1>2, <2>1, <2>2
<1>10. TelemetryTypeOK'
    BY <1>1, <1>3, <1>6, <1>7, <1>9 DEF Shape, TelemetryTypeOK
<1> QED BY <1>1, <1>9, <1>10 DEF Shape, Known

LEMMA ShapeRestored == Shape /\ ExportFails => Shape'
<1> SUFFICES ASSUME Shape, ExportFails PROVE Shape'
    OBVIOUS
<1>1. /\ Sound(buf')
      /\ Due(buf') \subseteq Due(buf) \cup Range(hand)
      /\ OrphansOf(buf') = OrphansOf(buf)
      /\ Skipped(buf') \subseteq Skipped(buf)
      /\ pruned' \subseteq pruned \cup Due(buf) \cup Range(hand)
      /\ stale' \subseteq Path
      /\ sec' \in 0..MaxSecond
      /\ saved' = buf'.queue \/ saved' = saved
      /\ failed' \in BOOLEAN
    BY RestoredAgain
<1>2. /\ UNCHANGED <<mode, running, deaths, made, lost, discovered, vain>>
      /\ running /\ hand' = <<>> /\ flushing' = FALSE
      /\ got' \in {got, got \cup Range(hand)} /\ retried' = retried \cup Range(hand)
    BY DEF ExportFails, SendRaises
<1>3. buf' \in Buffer /\ Distinct(buf'.queue) /\ buf'.queue \in Seq(Entry)
    BY <1>1 DEF Sound, Buffer
<1>4. saved' \in Seq(Entry) /\ Distinct(saved')
    BY <1>1, <1>3 DEF Shape, TelemetryTypeOK
<1>5. /\ EventsOnDisk(buf') \subseteq Due(buf') \cup OrphansOf(buf') \cup Skipped(buf')
      /\ Due(buf) \cup OrphansOf(buf) \cup Skipped(buf) \subseteq EventsOnDisk(buf)
    BY <1>1, OnDiskSplits, SameHistory
<1>6. EventsOnDisk(buf') \subseteq 1..made
    BY <1>1, <1>5, SameHistory
<1>7. /\ got' \subseteq 1..made' /\ pruned' \subseteq 1..made' /\ lost' \subseteq 1..made'
      /\ retried' \subseteq 1..made' /\ vain' \subseteq 1..made'
    BY <1>1, <1>2, <1>5, SameHistory
<1>8. hand' \in Seq(Event) /\ Range(hand') = {} /\ flushing' \in BOOLEAN
    <2>1. hand' \in Seq(Event) /\ Range(hand') = {}
        BY <1>2, EmptyHand
    <2> QED BY <1>2, <2>1
<1>9. TelemetryTypeOK'
    BY <1>1, <1>2, <1>3, <1>4, <1>7, <1>8 DEF Shape, TelemetryTypeOK
<1> QED BY <1>1, <1>2, <1>4, <1>6, <1>8, <1>9 DEF Shape, Known

LEMMA RestoreDiesIs ==
    ASSUME Shape, RestoreDies
    PROVE  \E b : /\ DiesWith(b) /\ Sound(b)
                  /\ EventsOnDisk(b) = EventsOnDisk(buf) \cup Range(hand)
                  /\ sec' \in 0..MaxSecond
                  /\ UNCHANGED <<made, got, pruned, lost, retried, failed, vain>>
<1>1. PICK name \in Path : NameFor("restore", name) /\ DiesWith(RestoreWritten(buf, hand, name))
    BY DEF RestoreDies
<1> DEFINE b == RestoreWritten(buf, hand, name)
<1>2. Sound(buf) /\ hand \in Seq(Event)
    BY SameHistory DEF Shape, TelemetryTypeOK
<1>3. name \notin buf.files /\ sec' \in 0..MaxSecond
    BY <1>1, NameIs
<1>4. Sound(b)
    BY <1>2, <1>3, RestoreWrittenIs
<1>5. Due(b) = Due(buf) /\ OrphansOf(b) = OrphansOf(buf) \cup Range(hand) /\ Skipped(b) = Skipped(buf)
    BY <1>2, <1>3, RestoreWrittenEvents
<1>6. DiesWith(b) /\ UNCHANGED <<made, got, pruned, lost, retried, failed, vain>>
    BY <1>1 DEF RestoreDies
<1> HIDE DEF b
<1>7. EventsOnDisk(b) = Due(b) \cup OrphansOf(b) \cup Skipped(b)
    BY <1>4, OnDiskSplits
<1>8. EventsOnDisk(buf) = Due(buf) \cup OrphansOf(buf) \cup Skipped(buf)
    BY <1>2, OnDiskSplits
<1>9. EventsOnDisk(b) = EventsOnDisk(buf) \cup Range(hand)
    BY <1>5, <1>7, <1>8
<1> QED BY <1>3, <1>4, <1>6, <1>9

LEMMA ShapeRestoreDies == Shape /\ RestoreDies => Shape'
<1> SUFFICES ASSUME Shape, RestoreDies PROVE Shape'
    OBVIOUS
<1>1. PICK b : /\ DiesWith(b) /\ Sound(b)
               /\ EventsOnDisk(b) = EventsOnDisk(buf) \cup Range(hand)
               /\ sec' \in 0..MaxSecond
               /\ UNCHANGED <<made, got, pruned, lost, retried, failed, vain>>
    BY RestoreDiesIs
<1>2. /\ got' \subseteq 1..made' /\ pruned' \subseteq 1..made' /\ lost' \subseteq 1..made'
      /\ retried' \subseteq 1..made' /\ vain' \subseteq 1..made' /\ failed' \in BOOLEAN
      /\ made' \in 0..MaxEvent
      /\ EventsOnDisk(b) \subseteq 1..made'
    BY <1>1, SameHistory
<1>3. b \in Buffer /\ \A p \in Path \ b.files : b.line[p] = <<>>
    BY <1>1 DEF Sound
<1> QED BY <1>1, <1>2, <1>3, ShapeDead

LEMMA ShapeDies == Shape /\ Dies => Shape'
<1> SUFFICES ASSUME Shape, Dies PROVE Shape'
    OBVIOUS
<1>1. DiesWith(buf) /\ lost' = lost \cup Range(hand)
      /\ UNCHANGED <<sec, made, got, pruned, retried, failed, vain>>
    BY DEF Dies
<1>2. /\ got' \subseteq 1..made' /\ pruned' \subseteq 1..made' /\ lost' \subseteq 1..made'
      /\ retried' \subseteq 1..made' /\ vain' \subseteq 1..made' /\ failed' \in BOOLEAN
      /\ made' \in 0..MaxEvent /\ sec' \in 0..MaxSecond
      /\ EventsOnDisk(buf) \subseteq 1..made'
    BY <1>1, SameHistory
<1>3. buf \in Buffer /\ \A p \in Path \ buf.files : buf.line[p] = <<>>
    BY SameHistory
<1> QED BY <1>1, <1>2, <1>3, ShapeDead

LEMMA StartsIs ==
    ASSUME Shape, Starts
    PROVE  /\ ~running /\ running' = TRUE /\ hand = <<>>
           /\ Sound(buf') /\ buf' = Loaded(buf, saved)
           /\ EventsOnDisk(buf') = EventsOnDisk(buf)
           /\ lost' = lost \cup (Skipped(buf') \ (got \cup pruned))
           /\ stale' \subseteq Path
           /\ saved' = buf'.queue \/ (saved' = saved /\ failed')
           /\ failed' \in BOOLEAN /\ discovered' \in BOOLEAN
           /\ failed => failed'
           /\ UNCHANGED <<mode, hand, flushing, sec, deaths, made, got, pruned, retried, vain>>
<1>1. buf' = Loaded(buf, saved) /\ stale' = stale \cap Loaded(buf, saved).files
      /\ running' = TRUE /\ ~running /\ lost' = lost \cup (Skipped(buf') \ (got \cup pruned))
      /\ UNCHANGED <<mode, hand, flushing, sec, deaths, made, got, pruned, retried, vain>>
    BY DEF Starts, Keeps
<1>2. saved \in Seq(Entry) /\ Distinct(saved) /\ hand = <<>> /\ stale \subseteq Path
      /\ failed \in BOOLEAN /\ discovered \in BOOLEAN
    BY <1>1 DEF Shape, TelemetryTypeOK
<1>3. Sound(buf')
    BY <1>1, <1>2, SameHistory, LoadedIs
<1>4. buf'.files = buf.files
    BY <1>1, <1>2, SameHistory, LoadedIs
<1>5. buf'.line = buf.line
    BY <1>1, <1>2, SameHistory, LoadedIs
<1>6. EventsOnDisk(buf') = EventsOnDisk(buf)
    BY <1>4, <1>5 DEF EventsOnDisk
<1>7. (saved' = buf'.queue \/ (saved' = saved /\ failed')) /\ failed' \in BOOLEAN /\ (failed => failed')
    BY <1>2 DEF Starts, WritesState, WriteFails
<1>8. discovered' \in BOOLEAN
    BY <1>2 DEF Starts
<1>9. stale' \subseteq Path
    BY <1>1, <1>2
<1> QED BY <1>1, <1>2, <1>3, <1>6, <1>7, <1>8, <1>9

LEMMA ShapeStarts == Shape /\ Starts => Shape'
<1> SUFFICES ASSUME Shape, Starts PROVE Shape'
    OBVIOUS
<1>1. /\ running' = TRUE /\ hand = <<>>
      /\ Sound(buf')
      /\ EventsOnDisk(buf') = EventsOnDisk(buf)
      /\ lost' = lost \cup (Skipped(buf') \ (got \cup pruned))
      /\ stale' \subseteq Path
      /\ saved' = buf'.queue \/ saved' = saved
      /\ failed' \in BOOLEAN /\ discovered' \in BOOLEAN
      /\ UNCHANGED <<mode, hand, flushing, sec, deaths, made, got, pruned, retried, vain>>
    BY StartsIs
<1>2. buf' \in Buffer /\ Distinct(buf'.queue) /\ buf'.queue \in Seq(Entry)
    BY <1>1 DEF Sound, Buffer
<1>3. saved' \in Seq(Entry) /\ Distinct(saved')
    BY <1>1, <1>2 DEF Shape, TelemetryTypeOK
<1>4. Skipped(buf') \subseteq EventsOnDisk(buf)
    BY <1>1, OnDiskSplits
<1>5. lost' \subseteq 1..made'
    BY <1>1, <1>4, SameHistory
<1>6. TelemetryTypeOK'
    BY <1>1, <1>2, <1>3, <1>5 DEF Shape, TelemetryTypeOK
<1> QED BY <1>1, <1>3, <1>6 DEF Shape, Known

LEMMA ShapeNext == Shape /\ [Next]_vars => Shape'
<1> SUFFICES ASSUME Shape, [Next]_vars PROVE Shape'
    OBVIOUS
<1>1. CASE UNCHANGED vars
    BY <1>1 DEF vars, bookkeeping, Shape, TelemetryTypeOK, Known
<1>2. CASE Put \/ PutFails
    BY <1>2, ShapePut
<1>3. CASE PutDies
    BY <1>3, ShapePutDies
<1>4. CASE PutTears
    BY <1>4, ShapePutTears
<1>5. CASE DayPasses \/ FlushStarts \/ Exported \/ SentInVain \/ RestoreFails
    BY <1>5, ShapeSent
<1>6. CASE Take
    BY <1>6, ShapeTake
<1>7. CASE TakeDies
    BY <1>7, ShapeTakeDies
<1>8. CASE ExportFails
    BY <1>8, ShapeRestored
<1>9. CASE RestoreDies
    BY <1>9, ShapeRestoreDies
<1>10. CASE Dies
    BY <1>10, ShapeDies
<1>11. CASE Starts
    BY <1>11, ShapeStarts
<1> QED BY <1>1, <1>2, <1>3, <1>4, <1>5, <1>6, <1>7, <1>8, <1>9, <1>10, <1>11 DEF Next

LEMMA ShapeAlways == Spec => []Shape
BY ShapeInit, ShapeNext, PTL DEF Spec

-----------------------------------------------------------------------------
(* Where every event is.  While the process runs, an event that is not     *)
(* accounted for otherwise is due or in a file that is in no queue, and in *)
(* no such file before the first trouble; once it has ended, the event is  *)
(* somewhere on the disk.                                                  *)
Gone == got \cup pruned \cup lost \cup vain \cup Range(hand)
Balance ==
    /\ running => Known \subseteq Gone \cup Due(buf) \cup OrphansOf(buf)
    /\ running /\ NeverDied /\ ~failed => Known \subseteq Gone \cup Due(buf)
    /\ ~running => Known \subseteq Gone \cup EventsOnDisk(buf)

LEMMA BalanceInit == Init => Balance
<1> SUFFICES ASSUME Init PROVE Balance
    OBVIOUS
<1>1. Known = {} /\ running = TRUE
    BY DEF Init, Known
<1> QED BY <1>1 DEF Balance

(* What is left to show of a step in which the process dies. *)
LEMMA BalanceDead ==
    ASSUME Shape, NEW b \in Buffer, \A p \in Path \ b.files : b.line[p] = <<>>, DiesWith(b),
           1..made' \subseteq got' \cup pruned' \cup lost' \cup vain' \cup EventsOnDisk(b)
    PROVE  Balance'
<1>1. running' = FALSE /\ EventsOnDisk(buf') = EventsOnDisk(b)
    BY DiesIs
<1> QED BY <1>1 DEF Balance, Known, Gone

LEMMA BalanceNext == Shape /\ Balance /\ [Next]_vars => Balance'
<1> SUFFICES ASSUME Shape, Balance, [Next]_vars PROVE Balance'
    OBVIOUS
<1>1. CASE UNCHANGED vars
    BY <1>1 DEF vars, bookkeeping, Balance, Known, Gone, NeverDied
<1>2. CASE Put \/ PutFails
    <2>1. /\ running /\ 1..made' = Known \cup {made'}
        BY <1>2, PutIs, ProducedIs
    <2>2. /\ Due(buf) \subseteq Due(buf') \cup pruned'
          /\ OrphansOf(buf) \subseteq Due(buf') \cup OrphansOf(buf') \cup pruned'
          /\ made' \in Due(buf') \cup pruned' \cup lost'
          /\ pruned \subseteq pruned' /\ lost \subseteq lost'
          /\ failed => failed'
        BY <1>2, PutIs
    <2>3. UNCHANGED <<mode, running, hand, flushing, deaths, got, retried, discovered, vain>>
        BY <1>2, PutIs
    <2>4. failed \in BOOLEAN /\ failed' \in BOOLEAN
        BY <1>2, PutIs, SameHistory
    <2> QED BY <2>1, <2>2, <2>3, <2>4 DEF Balance, Known, Gone, NeverDied
<1>3. CASE PutDies
    <2>1. running /\ 1..made' = Known \cup {made'}
        BY <1>3, PutDiesIs, ProducedIs
    <2>2. PICK b : /\ DiesWith(b) /\ Sound(b)
                   /\ Due(buf) \cup OrphansOf(buf) \subseteq EventsOnDisk(b) \cup pruned'
                   /\ made' \in EventsOnDisk(b) \cup pruned' \cup lost'
        BY <1>3, PutDiesIs
    <2>3. /\ pruned \subseteq pruned' /\ lost \cup Range(hand) \subseteq lost'
          /\ UNCHANGED <<got, retried, failed, vain>>
        BY <1>3, PutDiesIs
    <2>4. 1..made' \subseteq got' \cup pruned' \cup lost' \cup vain' \cup EventsOnDisk(b)
        BY <2>1, <2>2, <2>3 DEF Balance, Gone
    <2>5. b \in Buffer /\ \A p \in Path \ b.files : b.line[p] = <<>>
        BY <2>2 DEF Sound
    <2> QED BY <2>2, <2>4, <2>5, BalanceDead
<1>4. CASE PutTears
    <2> DEFINE b == Written(buf, Torn)
    <2>1. running /\ 1..made' = Known \cup {made'}
        BY <1>4, PutTearsIs, ProducedIs
    <2>2. /\ DiesWith(b) /\ Sound(b)
          /\ EventsOnDisk(b) = EventsOnDisk(buf)
          /\ lost' = lost \cup Range(hand) \cup {made'}
          /\ UNCHANGED <<sec, got, pruned, retried, vain>>
        BY <1>4, PutTearsIs
    <2> HIDE DEF b
    <2>3. Due(buf) \cup OrphansOf(buf) \subseteq EventsOnDisk(buf)
        BY OnDiskSplits, SameHistory
    <2>4. 1..made' \subseteq got' \cup pruned' \cup lost' \cup vain' \cup EventsOnDisk(b)
        BY <2>1, <2>2, <2>3 DEF Balance, Gone
    <2>5. b \in Buffer /\ \A p \in Path \ b.files : b.line[p] = <<>>
        BY <2>2 DEF Sound
    <2> QED BY <2>2, <2>4, <2>5, BalanceDead
<1>5. CASE DayPasses \/ FlushStarts \/ Exported \/ SentInVain \/ RestoreFails
    <2>1. UNCHANGED <<running, buf, deaths, made>>
        BY <1>5 DEF Exported, SentInVain, RestoreFails, FlushStarts, DayPasses, SendRaises, bookkeeping
    <2>2. failed' = failed \/ failed' = TRUE
        BY <1>5 DEF Exported, SentInVain, RestoreFails, FlushStarts, DayPasses, SendRaises,
                    bookkeeping, WriteFails
    <2>3. got \cup pruned \cup lost \cup vain \cup Range(hand)
            \subseteq got' \cup pruned' \cup lost' \cup vain' \cup Range(hand')
        BY <1>5 DEF Exported, SentInVain, RestoreFails, FlushStarts, DayPasses, SendRaises, bookkeeping
    <2> QED BY <2>1, <2>2, <2>3 DEF Balance, Known, Gone, NeverDied
<1>6. CASE Take
    <2>1. /\ hand = <<>>
          /\ Due(buf) = Due(buf') \cup Range(hand')
          /\ OrphansOf(buf) \subseteq OrphansOf(buf')
          /\ failed => failed'
        BY <1>6, TakeIs
    <2>2. UNCHANGED <<running, deaths, made, got, pruned, lost, vain>>
        BY <1>6 DEF Take
    <2>3. Range(hand) = {}
        BY <2>1, EmptyHand
    <2>4. failed \in BOOLEAN /\ failed' \in BOOLEAN /\ running
        BY <1>6, TakeIs, SameHistory
    <2> QED BY <2>1, <2>2, <2>3, <2>4 DEF Balance, Known, Gone, NeverDied
<1>7. CASE TakeDies
    <2>1. PICK k \in 1..Popped(buf, Room) :
             /\ DiesWith(Consumed(buf, k))
             /\ lost' = lost \cup (EventsOnDisk(buf) \ EventsOnDisk(Consumed(buf, k)))
             /\ Consumed(buf, k) \in Buffer
             /\ \A p \in Path \ Consumed(buf, k).files : Consumed(buf, k).line[p] = <<>>
        BY <1>7, TakeDiesIs
    <2>2. hand = <<>> /\ UNCHANGED <<sec, made, got, pruned, retried, failed, vain>>
        BY <1>7, TakeDiesIs
    <2>3. Range(hand) = {} /\ running
        BY <2>1, <2>2, EmptyHand DEF DiesWith
    <2>4. Due(buf) \cup OrphansOf(buf) \subseteq EventsOnDisk(buf)
        BY OnDiskSplits, SameHistory
    <2>5. 1..made' \subseteq got' \cup pruned' \cup lost' \cup vain' \cup EventsOnDisk(Consumed(buf, k))
        BY <2>1, <2>2, <2>3, <2>4 DEF Balance, Known, Gone
    <2> QED BY <2>1, <2>5, BalanceDead
<1>8. CASE ExportFails
    <2>1. /\ Due(buf) \cup Range(hand) \subseteq Due(buf') \cup pruned'
          /\ OrphansOf(buf') = OrphansOf(buf)
          /\ pruned \subseteq pruned'
          /\ failed => failed'
          /\ failed' \in BOOLEAN /\ failed \in BOOLEAN
        BY <1>8, RestoredAgain, SameHistory
    <2>2. /\ UNCHANGED <<mode, running, deaths, made, lost, discovered, vain>>
          /\ got' \in {got, got \cup Range(hand)}
          /\ running
        BY <1>8 DEF ExportFails, SendRaises
    <2> QED BY <2>1, <2>2 DEF Balance, Known, Gone, NeverDied
<1>9. CASE RestoreDies
    <2>1. PICK b : /\ DiesWith(b) /\ Sound(b)
                   /\ EventsOnDisk(b) = EventsOnDisk(buf) \cup Range(hand)
                   /\ UNCHANGED <<made, got, pruned, lost, retried, failed, vain>>
        BY <1>9, RestoreDiesIs
    <2>2. Due(buf) \cup OrphansOf(buf) \subseteq EventsOnDisk(buf) /\ running
        BY <2>1, OnDiskSplits, SameHistory DEF DiesWith
    <2>3. 1..made' \subseteq got' \cup pruned' \cup lost' \cup vain' \cup EventsOnDisk(b)
        BY <2>1, <2>2 DEF Balance, Known, Gone
    <2>4. b \in Buffer /\ \A p \in Path \ b.files : b.line[p] = <<>>
        BY <2>1 DEF Sound
    <2> QED BY <2>1, <2>3, <2>4, BalanceDead
<1>10. CASE Dies
    <2>1. DiesWith(buf) /\ lost' = lost \cup Range(hand)
          /\ UNCHANGED <<sec, made, got, pruned, retried, failed, vain>>
        BY <1>10 DEF Dies
    <2>2. Due(buf) \cup OrphansOf(buf) \subseteq EventsOnDisk(buf) /\ running
        BY <2>1, OnDiskSplits, SameHistory DEF DiesWith
    <2>3. 1..made' \subseteq got' \cup pruned' \cup lost' \cup vain' \cup EventsOnDisk(buf)
        BY <2>1, <2>2 DEF Balance, Known, Gone
    <2>4. buf \in Buffer /\ \A p \in Path \ buf.files : buf.line[p] = <<>>
        BY SameHistory
    <2> QED BY <2>1, <2>3, <2>4, BalanceDead
<1>11. CASE Starts
    <2>1. /\ ~running /\ running' = TRUE /\ hand = <<>>
          /\ Sound(buf')
          /\ EventsOnDisk(buf') = EventsOnDisk(buf)
          /\ lost' = lost \cup (Skipped(buf') \ (got \cup pruned))
          /\ UNCHANGED <<mode, hand, flushing, sec, deaths, made, got, pruned, retried, vain>>
        BY <1>11, StartsIs
    <2>2. EventsOnDisk(buf') \subseteq Due(buf') \cup OrphansOf(buf') \cup Skipped(buf')
        BY <2>1, OnDiskSplits
    <2>3. deaths # 0
        BY <2>1 DEF Shape
    <2>4. 1..made \subseteq got \cup pruned \cup lost' \cup vain \cup Range(hand)
                              \cup Due(buf') \cup OrphansOf(buf')
        BY <2>1, <2>2 DEF Balance, Known, Gone
    <2> QED BY <2>1, <2>3, <2>4 DEF Balance, Known, Gone, NeverDied
<1> QED BY <1>1, <1>2, <1>3, <1>4, <1>5, <1>6, <1>7, <1>8, <1>9, <1>10, <1>11 DEF Next

LEMMA BalanceAlways == Spec => [](Shape /\ Balance)
<1>1. Init => Shape /\ Balance
    BY ShapeInit, BalanceInit
<1>2. Shape /\ Balance /\ [Next]_vars => (Shape /\ Balance)'
    BY ShapeNext, BalanceNext
<1> QED BY <1>1, <1>2, PTL DEF Spec

LEMMA BalanceAccounts == Shape /\ Balance => Accounted
<1> SUFFICES ASSUME Shape, Balance PROVE Accounted
    OBVIOUS
<1>1. Due(buf) \cup OrphansOf(buf) \subseteq EventsOnDisk(buf)
    BY OnDiskSplits, SameHistory
<1>2. ~running => ~NeverDied
    BY DEF Shape, NeverDied
<1>3. running \in BOOLEAN
    BY DEF Shape, TelemetryTypeOK
<1> QED BY <1>1, <1>2, <1>3 DEF Balance, Known, Gone, Accounted, InHand, Queued

(* Buffer, history and memory keep their types: a line is an event or a    *)
(* damaged one, an event has been put before anything is said of it.       *)
THEOREM StatesAreTyped == Spec => []TelemetryTypeOK
<1>1. Shape => TelemetryTypeOK
    BY DEF Shape
<1> QED BY <1>1, ShapeAlways, PTL

(* Every event that was put is waiting, in the exporter's hand, stored,    *)
(* removed by retention or lost in one of the ways the code has.           *)
THEOREM EventsAreAccountedFor == Spec => []Accounted
BY BalanceAlways, BalanceAccounts, PTL

-----------------------------------------------------------------------------
(* No event waits in two places.                                           *)

(* e is to be read in line j of file p. *)
WaitsAt(b, p, j, e) ==
    /\ Holds(b, p, j, e)
    /\ \E x \in Entries(b) : x.path = p /\ x.off < j
Once(b) ==
    \A e \in Event : \A p, q \in Path : \A i, j \in Nat :
        WaitsAt(b, p, i, e) /\ WaitsAt(b, q, j, e) => p = q /\ i = j

(* An active file that fell out of the queue holds no event. *)
Quiet(b) == Listed(b, Active) \/ \A e \in Event : \A j : ~Holds(b, Active, j, e)

LEMMA DueWaits ==
    ASSUME NEW b \in Buffer
    PROVE  \A e : e \in Due(b) <=> e \in Event /\ \E p \in Path : \E j \in Nat : WaitsAt(b, p, j, e)
<1> TAKE e
<1>1. \A x \in Entries(b) : x.path \in Path
    BY EntryIs
<1>2. e \in Due(b) <=> e \in Event /\ \E x \in Entries(b) : \E j \in Nat : x.off < j /\ Holds(b, x.path, j, e)
    BY DueIs
<1> QED BY <1>1, <1>2 DEF WaitsAt

LEMMA NothingOnce ==
    ASSUME NEW b \in Buffer, b.queue = <<>>
    PROVE  Once(b)
<1>1. Entries(b) = {}
    BY DEF Entries
<1> QED BY <1>1 DEF Once, WaitsAt

LEMMA OnceFewer ==
    ASSUME NEW b, NEW d, Once(b),
           \A p \in Path : \A j \in Nat : \A e \in Event : WaitsAt(d, p, j, e) => WaitsAt(b, p, j, e)
    PROVE  Once(d)
BY DEF Once

LEMMA KeptOnce ==
    ASSUME NEW b, NEW d, Sound(b), Keeping(b, d)
    PROVE  /\ Once(b) => Once(d)
           /\ Quiet(b) => Quiet(d)
<1>1. /\ b \in Buffer /\ d \in Buffer
      /\ \A x : x \in Entries(d) <=> x \in Entries(b) /\ x.path \in d.files
      /\ \A p \in d.files : d.line[p] = b.line[p]
      /\ \A p \in Path \ d.files : d.line[p] = <<>>
    BY DEF Keeping, Sound
<1>2. \A p \in Path : \A j : \A e \in Event : Holds(d, p, j, e) => p \in d.files /\ Holds(b, p, j, e)
    BY <1>1 DEF Holds
<1>3. \A p \in Path : \A j \in Nat : \A e \in Event : WaitsAt(d, p, j, e) => WaitsAt(b, p, j, e)
    BY <1>1, <1>2 DEF WaitsAt
<1>4. Once(b) => Once(d)
    BY <1>3, OnceFewer
<1>5. ASSUME Quiet(b) PROVE Quiet(d)
    <2>1. CASE Active \in d.files /\ Listed(b, Active)
        BY <1>1, <2>1, EntryIs DEF Quiet
    <2>2. CASE ~(Active \in d.files /\ Listed(b, Active))
        BY <1>2, <1>5, <2>2, ActiveIs DEF Quiet
    <2> QED BY <2>1, <2>2
<1> QED BY <1>4, <1>5

LEMMA AppendedOnce ==
    ASSUME NEW b, Sound(b), Once(b), Quiet(b), NEW e \in Event, e \notin EventsOnDisk(b)
    PROVE  /\ Once(Appended(b, e)) /\ Quiet(Appended(b, e))
           /\ Due(Appended(b, e)) \subseteq Due(b) \cup {e}
<1> DEFINE a == Appended(b, e)
           n == Len(b.line[Active]) + 1
<1>1. b \in Buffer /\ e \in Line /\ Active \in Path
    BY ActiveIs DEF Sound, Line
<1>2. a \in Buffer /\ Distinct(a.queue)
    BY AppendedIs DEF Sound
<1>3. a.line = Written(b, e).line
    BY AppendedIs
<1>4. \A x : x \in Entries(a) <=> x \in Entries(b) \/ (~Listed(b, Active) /\ x = NewEntry)
    BY AppendedIs
<1> HIDE DEF a, n
<1>5. \A p \in Path : \A j : \A f \in Event : Holds(a, p, j, f) /\ ~Holds(b, p, j, f) =>
                                                   p = Active /\ f = e /\ j = n
    <2> TAKE p \in Path
    <2> TAKE j
    <2> TAKE f \in Event
    <2>1. Holds(Written(b, e), p, j, f) /\ ~Holds(b, p, j, f) => p = Active /\ f = e /\ j = n
        BY <1>1, WrittenHolds DEF n
    <2>2. Holds(a, p, j, f) <=> Holds(Written(b, e), p, j, f)
        BY <1>3 DEF Holds
    <2> QED BY <2>1, <2>2
<1>6. \A p \in Path : \A j \in Nat : ~Holds(b, p, j, e)
    <2> SUFFICES ASSUME NEW p \in Path, NEW j \in Nat, Holds(b, p, j, e) PROVE FALSE
        OBVIOUS
    <2>1. p \in b.files
        BY DEF Sound, Holds
    <2> QED BY <1>1, <2>1, OnDiskIs
<1>7. NewEntry.path = Active
    BY DEF NewEntry
<1>8. \A p \in Path : \A j \in Nat : \A f \in Event :
         WaitsAt(a, p, j, f) => WaitsAt(b, p, j, f) \/ (p = Active /\ f = e /\ j = n)
    <2> SUFFICES ASSUME NEW p \in Path, NEW j \in Nat, NEW f \in Event, WaitsAt(a, p, j, f),
                        ~(p = Active /\ f = e /\ j = n)
                 PROVE  WaitsAt(b, p, j, f)
        OBVIOUS
    <2>1. Holds(b, p, j, f)
        BY <1>5 DEF WaitsAt
    <2>2. PICK x \in Entries(a) : x.path = p /\ x.off < j
        BY DEF WaitsAt
    <2>3. CASE x \in Entries(b)
        BY <2>1, <2>2, <2>3 DEF WaitsAt
    <2>4. CASE ~Listed(b, Active) /\ x = NewEntry
        BY <1>7, <2>1, <2>2, <2>4 DEF Quiet
    <2> QED BY <1>4, <2>3, <2>4
<1>9. Once(a)
    <2> SUFFICES ASSUME NEW f \in Event, NEW p \in Path, NEW q \in Path, NEW i \in Nat, NEW j \in Nat,
                        WaitsAt(a, p, i, f), WaitsAt(a, q, j, f)
                 PROVE  p = q /\ i = j
        BY DEF Once
    <2>1. CASE f = e
        <3>1. ~WaitsAt(b, p, i, f) /\ ~WaitsAt(b, q, j, f)
            BY <1>6, <2>1 DEF WaitsAt
        <3> QED BY <1>8, <3>1
    <2>2. CASE f # e
        <3>1. WaitsAt(b, p, i, f) /\ WaitsAt(b, q, j, f)
            BY <1>8, <2>2
        <3> QED BY <3>1 DEF Once
    <2> QED BY <2>1, <2>2
<1>10. Listed(a, Active)
    <2>1. Listed(a, Active) <=> \E x \in Entries(a) : x.path = Active
        BY <1>2, EntryIs
    <2>2. Listed(b, Active) <=> \E x \in Entries(b) : x.path = Active
        BY <1>1, EntryIs
    <2> QED BY <1>4, <1>7, <2>1, <2>2
<1>11. Due(a) \subseteq Due(b) \cup {e}
    <2> SUFFICES ASSUME NEW f \in Due(a), f # e PROVE f \in Due(b)
        OBVIOUS
    <2>1. f \in Event /\ \E p \in Path : \E j \in Nat : WaitsAt(a, p, j, f)
        BY <1>2, DueWaits
    <2>2. \E p \in Path : \E j \in Nat : WaitsAt(b, p, j, f)
        BY <1>8, <2>1
    <2> QED BY <1>1, <2>1, <2>2, DueWaits
<1> QED BY <1>9, <1>10, <1>11 DEF a, Quiet

LEMMA FailedOnce ==
    ASSUME NEW b, Sound(b), Once(b), Quiet(b), NEW torn \in BOOLEAN
    PROVE  /\ Once(AppendFailed(b, torn)) /\ Quiet(AppendFailed(b, torn))
           /\ Due(AppendFailed(b, torn)) \subseteq Due(b)
<1> DEFINE a == AppendFailed(b, torn)
<1>1. b \in Buffer /\ Torn \in Line /\ Torn \notin Event /\ Active \in Path
    BY BufferAssumption, ActiveIs DEF Sound, Line, Torn, Event
<1>2. a \in Buffer
    BY FailedIs DEF Sound
<1>3. a.line = IF torn THEN Written(b, Torn).line ELSE b.line
    BY FailedIs
<1>4. a.queue = b.queue
    BY FailedIs
<1> HIDE DEF a
<1>5. Entries(a) = Entries(b)
    BY <1>4 DEF Entries
<1>6. \A p \in Path : \A j : \A f \in Event : Holds(a, p, j, f) => Holds(b, p, j, f)
    <2> TAKE p \in Path
    <2> TAKE j
    <2> TAKE f \in Event
    <2>1. Holds(Written(b, Torn), p, j, f) => Holds(b, p, j, f)
        BY <1>1, WrittenHolds
    <2> QED BY <1>3, <2>1 DEF Holds
<1>7. \A p \in Path : \A j \in Nat : \A f \in Event : WaitsAt(a, p, j, f) => WaitsAt(b, p, j, f)
    BY <1>5, <1>6 DEF WaitsAt
<1>8. Once(a)
    BY <1>7, OnceFewer
<1>9. Listed(a, Active) <=> Listed(b, Active)
    BY <1>4 DEF Listed
<1>10. Quiet(a)
    BY <1>1, <1>6, <1>9 DEF Quiet
<1>11. Due(a) \subseteq Due(b)
    <2> SUFFICES ASSUME NEW f \in Due(a) PROVE f \in Due(b)
        OBVIOUS
    <2>1. f \in Event /\ \E p \in Path : \E j \in Nat : WaitsAt(a, p, j, f)
        BY <1>2, DueWaits
    <2> QED BY <1>1, <1>7, <2>1, DueWaits
<1> QED BY <1>8, <1>10, <1>11 DEF a

LEMMA RotatedOnce ==
    ASSUME NEW b, Sound(b), NEW name \in Path, name \notin b.files, MustRotate(b)
    PROVE  /\ Once(b) => Once(Rotated(b, name))
           /\ Quiet(Rotated(b, name))
<1> DEFINE r == Rotated(b, name)
           was(p) == IF p = name THEN Active ELSE p
<1>1. b \in Buffer /\ Active \in Path /\ Active \in b.files
    BY ActiveIs DEF Sound, MustRotate
<1>2. \A p \in Path : r.line[p] = IF p = Active THEN <<>> ELSE IF p = name THEN b.line[Active] ELSE b.line[p]
    BY RotatedIs
<1>3. \A x : x \in Entries(r) <=> \E y \in Entries(b) : x = Renamed(y, name)
    BY RotatedIs
<1> HIDE DEF r
<1>4. \A y \in Entries(b) : /\ Renamed(y, name).off = y.off
                            /\ Renamed(y, name).path = IF y.path = Active THEN name ELSE y.path
                            /\ y.path # name
    BY <1>1, EntryIs DEF Renamed, Entry, Sound
<1>5. \A p \in Path : \A j \in Nat : \A e \in Event :
         WaitsAt(r, p, j, e) => p # Active /\ WaitsAt(b, was(p), j, e)
    <2> SUFFICES ASSUME NEW p \in Path, NEW j \in Nat, NEW e \in Event, WaitsAt(r, p, j, e)
                 PROVE  p # Active /\ WaitsAt(b, was(p), j, e)
        OBVIOUS
    <2>1. PICK x \in Entries(r) : x.path = p /\ x.off < j
        BY DEF WaitsAt
    <2>2. PICK y \in Entries(b) : x = Renamed(y, name)
        BY <1>3, <2>1
    <2>3. p # Active
        BY <1>2 DEF WaitsAt, Holds
    <2>4. y.off < j /\ y.path = was(p)
        BY <1>4, <2>1, <2>2, <2>3
    <2>5. Holds(b, was(p), j, e)
        BY <1>2, <2>3 DEF WaitsAt, Holds
    <2> QED BY <2>3, <2>4, <2>5 DEF WaitsAt
<1>6. Once(b) => Once(r)
    <2> SUFFICES ASSUME Once(b), NEW f \in Event, NEW p \in Path, NEW q \in Path, NEW i \in Nat, NEW j \in Nat,
                        WaitsAt(r, p, i, f), WaitsAt(r, q, j, f)
                 PROVE  p = q /\ i = j
        BY DEF Once
    <2>1. was(p) \in Path /\ was(q) \in Path
        BY <1>1
    <2>2. p # Active /\ q # Active /\ was(p) = was(q) /\ i = j
        BY <1>5, <2>1 DEF Once
    <2> QED BY <2>2
<1>7. Quiet(r)
    BY <1>1, <1>2 DEF Quiet, Holds
<1> QED BY <1>6, <1>7 DEF r

LEMMA RestoredOnce ==
    ASSUME NEW b, Sound(b), NEW batch \in Seq(Event), NEW name \in Path, name \notin b.files, name # Active,
           Once(b), Quiet(b), Due(b) \cap Range(batch) = {},
           \A i, j \in 1..Len(batch) : batch[i] = batch[j] => i = j
    PROVE  Once(Restored(b, batch, name)) /\ Quiet(Restored(b, batch, name))
<1> DEFINE r == Restored(b, batch, name)
<1>1. b \in Buffer /\ Active \in Path
    BY ActiveIs DEF Sound
<1>2. r \in Buffer
    BY RestoredIs DEF Sound
<1>3. \A p \in Path : r.line[p] = IF p = name THEN batch ELSE b.line[p]
    BY RestoredIs
<1>4. \A x : x \in Entries(r) <=> x \in Entries(b) \/ x = FrontEntry(name)
    BY RestoredIs
<1> HIDE DEF r
<1>5. FrontEntry(name).path = name
    BY DEF FrontEntry
<1>6. \A p \in Path : \A j \in Nat : \A e \in Event :
         WaitsAt(r, p, j, e) => \/ p # name /\ WaitsAt(b, p, j, e)
                                \/ p = name /\ j \in 1..Len(batch) /\ batch[j] = e
    BY <1>3, <1>4, <1>5 DEF WaitsAt, Holds
<1>7. \A p \in Path : \A j \in Nat : \A e \in Event : WaitsAt(b, p, j, e) => e \notin Range(batch)
    BY <1>1, DueWaits
<1>8. \A j \in 1..Len(batch) : batch[j] \in Range(batch)
    BY DEF Range
<1>9. Once(r)
    <2> SUFFICES ASSUME NEW f \in Event, NEW p \in Path, NEW q \in Path, NEW i \in Nat, NEW j \in Nat,
                        WaitsAt(r, p, i, f), WaitsAt(r, q, j, f)
                 PROVE  p = q /\ i = j
        BY DEF Once
    <2>1. CASE f \in Range(batch)
        BY <1>6, <1>7, <2>1
    <2>2. CASE f \notin Range(batch)
        <3>1. WaitsAt(b, p, i, f) /\ WaitsAt(b, q, j, f)
            BY <1>6, <1>8, <2>2
        <3> QED BY <3>1 DEF Once
    <2> QED BY <2>1, <2>2
<1>10. Quiet(r)
    <2>1. Listed(b, Active) => Listed(r, Active)
        BY <1>1, <1>2, <1>4, EntryIs
    <2> QED BY <1>1, <1>3, <2>1 DEF Quiet, Holds
<1> QED BY <1>9, <1>10 DEF r

(* Different places hold different events. *)
LEMMA OncePlaces ==
    ASSUME NEW b, Sound(b), Once(b), NEW p \in Waiting(b), NEW q \in Waiting(b),
           LineAt(b, p) = LineAt(b, q)
    PROVE  p = q
<1>1. b \in Buffer /\ Distinct(b.queue)
    BY DEF Sound
<1> DEFINE x == b.queue[p[1]]
           y == b.queue[q[1]]
           e == LineAt(b, p)
<1>2. /\ p = <<p[1], p[2]>> /\ p[2] \in Nat /\ p[1] \in DOMAIN b.queue
      /\ x.off < p[2] /\ p[2] <= Len(b.line[x.path]) /\ e \in Event
    BY <1>1, WaitingIs
<1>3. /\ q = <<q[1], q[2]>> /\ q[2] \in Nat /\ q[1] \in DOMAIN b.queue
      /\ y.off < q[2] /\ q[2] <= Len(b.line[y.path])
    BY <1>1, WaitingIs
<1>4. /\ x \in Entries(b) /\ x.path \in Path /\ x.off \in Nat /\ Len(b.line[x.path]) \in Nat
      /\ y \in Entries(b) /\ y.path \in Path /\ y.off \in Nat /\ Len(b.line[y.path]) \in Nat
    <2>1. \A k \in DOMAIN b.queue : /\ b.queue[k] \in Entries(b)
                                    /\ b.queue[k].path \in Path /\ b.queue[k].off \in Nat
                                    /\ b.line[b.queue[k].path] \in Seq(Line)
        BY <1>1, EntryIs
    <2>2. /\ x \in Entries(b) /\ x.path \in Path /\ x.off \in Nat /\ b.line[x.path] \in Seq(Line)
        BY <1>2, <2>1
    <2>3. /\ y \in Entries(b) /\ y.path \in Path /\ y.off \in Nat /\ b.line[y.path] \in Seq(Line)
        BY <1>3, <2>1
    <2> HIDE DEF x, y
    <2> QED BY <2>2, <2>3
<1>5. b.line[x.path][p[2]] = e /\ b.line[y.path][q[2]] = e
    BY DEF LineAt
<1>6. x.path = y.path => p[1] = q[1]
    BY <1>1, <1>2, <1>3 DEF Distinct
<1> HIDE DEF x, y, e
<1>7. WaitsAt(b, x.path, p[2], e)
    BY <1>2, <1>4, <1>5 DEF WaitsAt, Holds
<1>8. WaitsAt(b, y.path, q[2], e)
    BY <1>3, <1>4, <1>5 DEF WaitsAt, Holds
<1>9. x.path = y.path /\ p[2] = q[2]
    BY <1>2, <1>3, <1>4, <1>7, <1>8 DEF Once
<1> QED BY <1>2, <1>3, <1>6, <1>9

LEMMA TakenOnce ==
    ASSUME NEW b, Sound(b), Once(b), Quiet(b), NEW n \in Nat
    PROVE  /\ Once(Taken(b, n)) /\ Quiet(Taken(b, n))
           /\ Due(Taken(b, n)) \cap Range(Batch(b, n)) = {}
           /\ \A i, j \in 1..Len(Batch(b, n)) : Batch(b, n)[i] = Batch(b, n)[j] => i = j
<1> DEFINE t == Taken(b, n)
           c == Popped(b, n)
           L == Len(b.queue)
<1>1. b \in Buffer /\ L \in Nat /\ c \in 0..L
    BY PoppedIs, EntryIs DEF Sound
<1>2. /\ Sound(t) /\ t \in Buffer
      /\ \A k \in DOMAIN t.queue : t.line[t.queue[k].path] = b.line[t.queue[k].path]
    BY TakenIs DEF Sound
<1>3. /\ Len(t.queue) = L - c
      /\ \A k \in 1..(L - c) :
            /\ c + k \in DOMAIN b.queue
            /\ t.queue[k].path = b.queue[c + k].path
            /\ t.queue[k].off = IF k = 1 THEN Offset(b, n, c + 1) ELSE b.queue[c + k].off
    BY TakenQueue
<1>4. \A k \in DOMAIN b.queue : b.queue[k].off <= Offset(b, n, k) /\ b.queue[k] \in Entries(b)
                                /\ b.queue[k].off \in Nat /\ Offset(b, n, k) \in Nat
    BY <1>1, OffsetIs, EntryIs
<1>5. DOMAIN t.queue = 1..(L - c)
    BY <1>2, <1>3, EntryIs
<1>6. t.line = Consumed(b, c).line
    BY TakenQueue
<1>7. \A p \in Path : Consumed(b, c).line[p] = IF p \in Emptied(b, c) THEN <<>> ELSE b.line[p]
    BY <1>1, ConsumedIs
<1>8. \A k \in DOMAIN t.queue : \A j \in Nat :
         <<k, j>> \in Waiting(t) <=> <<c + k, j>> \in Waiting(b) /\ <<c + k, j>> \notin Read(b, n)
    BY TakenPlaces
<1>9. \A k \in DOMAIN t.queue : \A j \in Nat : LineAt(t, <<k, j>>) = LineAt(b, <<c + k, j>>)
    <2> SUFFICES ASSUME NEW k \in DOMAIN t.queue, NEW j \in Nat
                 PROVE  b.line[t.queue[k].path][j] = b.line[b.queue[c + k].path][j]
        BY <1>2 DEF LineAt
    <2> HIDE DEF t, c, L
    <2> QED BY <1>3, <1>5
<1> HIDE DEF t, c, L
<1>10. \A x \in Entries(t) : \E y \in Entries(b) : y.path = x.path /\ y.off <= x.off /\ y.off \in Nat
                                                   /\ x.off \in Nat
    <2> TAKE x \in Entries(t)
    <2>1. PICK k \in DOMAIN t.queue : x = t.queue[k]
        BY DEF Entries
    <2>2. k \in 1..(L - c) /\ k \in Nat
        BY <1>1, <1>5
    <2>3. /\ c + k \in DOMAIN b.queue /\ x.path = b.queue[c + k].path
          /\ x.off = IF k = 1 THEN Offset(b, n, c + 1) ELSE b.queue[c + k].off
        BY <1>3, <2>1, <2>2
    <2>4. k = 1 => Offset(b, n, c + k) = Offset(b, n, c + 1)
        OBVIOUS
    <2>5. b.queue[c + k].off <= x.off /\ b.queue[c + k].off \in Nat /\ x.off \in Nat
          /\ b.queue[c + k] \in Entries(b)
        BY <1>4, <2>3, <2>4
    <2> QED BY <2>3, <2>5
<1>11. \A p \in Path : \A j : \A e \in Event : Holds(t, p, j, e) => Holds(b, p, j, e)
    BY <1>6, <1>7 DEF Holds
<1>12. \A p \in Path : \A j \in Nat : \A e \in Event : WaitsAt(t, p, j, e) => WaitsAt(b, p, j, e)
    BY <1>10, <1>11 DEF WaitsAt
<1>13. Once(t)
    BY <1>12, OnceFewer
<1>14. Quiet(t)
    <2>1. CASE ~Listed(b, Active)
        BY <1>11, <2>1, ActiveIs DEF Quiet
    <2>2. CASE Listed(b, Active)
        <3>1. PICK m \in DOMAIN b.queue : b.queue[m].path = Active
            BY <2>2 DEF Listed
        <3>2. m \in 1..L
            BY <1>1, <3>1, EntryIs DEF L
        <3>3. CASE m <= c
            <4>1. m \in 1..c
                BY <1>1, <3>2, <3>3
            <4>2. Active \in Emptied(b, c)
                BY <3>1, <4>1 DEF Emptied, FirstPaths
            <4> QED BY <1>6, <1>7, <4>2, ActiveIs DEF Quiet, Holds
        <3>4. CASE m > c
            <4>1. m - c \in 1..(L - c) /\ c + (m - c) = m
                BY <1>1, <3>2, <3>4
            <4>2. t.queue[m - c].path = Active
                BY <1>3, <3>1, <4>1
            <4> QED BY <1>5, <4>1, <4>2 DEF Quiet, Listed
        <3> QED BY <1>1, <3>2, <3>3, <3>4
    <2> QED BY <2>1, <2>2
<1>15. Due(t) \cap Range(Batch(b, n)) = {}
    <2> SUFFICES ASSUME NEW e \in Due(t), e \in Range(Batch(b, n)) PROVE FALSE
        OBVIOUS
    <2>1. PICK p \in Waiting(t) : LineAt(t, p) = e
        BY DEF Due
    <2>2. p = <<p[1], p[2]>> /\ p[1] \in DOMAIN t.queue /\ p[2] \in Nat
        BY <1>2, WaitingIs
    <2> DEFINE w == <<c + p[1], p[2]>>
    <2>3. w \in Waiting(b) /\ w \notin Read(b, n)
        BY <1>8, <2>1, <2>2
    <2>4. LineAt(b, w) = e
        BY <1>9, <2>1, <2>2
    <2>5. PICK q \in Read(b, n) : LineAt(b, q) = e
        BY <1>1, BatchEvents
    <2>6. q \in Waiting(b)
        BY <1>1, <2>5, ReadIs
    <2> HIDE DEF w
    <2>7. q = w
        BY <2>3, <2>4, <2>5, <2>6, OncePlaces
    <2> QED BY <2>3, <2>5, <2>7
<1>16. ASSUME NEW i \in 1..Len(Batch(b, n)), NEW j \in 1..Len(Batch(b, n)),
              Batch(b, n)[i] = Batch(b, n)[j]
       PROVE  i = j
    <2> DEFINE m == Cardinality(Read(b, n))
               f == Turn(b, n)
    <2>1. m \in Nat /\ Len(Batch(b, n)) = m
        BY <1>1, BatchIs
    <2>2. f \in [1..m -> Read(b, n)]
        BY <1>1, BatchIs
    <2>3. \A k, l \in 1..m : k < l => Before(f[k], f[l])
        BY <1>1, BatchIs
    <2>4. \A k \in 1..m : Batch(b, n)[k] = LineAt(b, f[k])
        BY <1>1, BatchIs
    <2>5. Read(b, n) \subseteq Waiting(b)
        BY <1>1, ReadIs
    <2> HIDE DEF m, f
    <2>6. f[i] \in Waiting(b) /\ f[j] \in Waiting(b) /\ LineAt(b, f[i]) = LineAt(b, f[j])
        BY <1>16, <2>1, <2>2, <2>4, <2>5
    <2>7. f[i] = f[j]
        BY <2>6, OncePlaces
    <2>8. ~Before(f[i], f[i]) /\ ~Before(f[j], f[j])
        <3>1. f[i][1] \in Nat /\ f[i][2] \in Nat /\ f[j][1] \in Nat /\ f[j][2] \in Nat
            BY <1>1, <2>6, WaitingIs
        <3> QED BY <3>1 DEF Before
    <2>9. ~(i < j) /\ ~(j < i)
        BY <2>1, <2>3, <2>7, <2>8
    <2> QED BY <2>1, <2>9
<1> QED BY <1>13, <1>14, <1>15, <1>16 DEF t

(* While the process has not died, an event waits once or is in the hand   *)
(* once, and what the server has is neither but after a failed send.       *)
Unique ==
    NeverDied =>
        /\ Once(buf)
        /\ Quiet(buf)
        /\ Due(buf) \cap Range(hand) = {}
        /\ \A i, j \in 1..Len(hand) : hand[i] = hand[j] => i = j
        /\ (Due(buf) \cup Range(hand)) \cap got \subseteq retried

LEMMA UniqueInit == Init => Unique
<1> SUFFICES ASSUME Init PROVE Unique
    OBVIOUS
<1>1. buf \in Buffer /\ buf.queue = <<>> /\ EventsOnDisk(buf) = {} /\ Sound(buf) /\ buf.files = {}
    BY EmptyIs DEF Init, Sound
<1>2. Once(buf)
    BY <1>1, NothingOnce
<1>3. Due(buf) = {}
    BY <1>1, OnDiskSplits
<1>4. Quiet(buf)
    BY <1>1, ActiveIs DEF Quiet, Sound, Holds
<1>5. hand = <<>> /\ got = {}
    BY DEF Init
<1> QED BY <1>2, <1>3, <1>4, <1>5, EmptyHand DEF Unique

(* One operation of the buffer, from its first write to the pruning. *)
LEMMA PutOnce ==
    ASSUME Shape, Unique, NeverDied, Put \/ PutFails
    PROVE  Once(buf') /\ Quiet(buf') /\ Due(buf') \subseteq Due(buf) \cup {made'}
<1> DEFINE e == made'
<1>1. Sound(buf) /\ Once(buf) /\ Quiet(buf)
    BY SameHistory DEF Unique
<1>2. e \in Event /\ e \notin EventsOnDisk(buf)
    BY PutIs, ProducedIs
<1>3. PICK a : /\ Sound(a) /\ Once(a) /\ Quiet(a) /\ Due(a) \subseteq Due(buf) \cup {e}
               /\ a.files \subseteq buf.files \cup {Active}
               /\ PutOf(a)
    <2>1. CASE Put
        <3> DEFINE a == Appended(buf, e)
        <3>1. Sound(a)
            BY <1>1, <1>2, AppendedIs
        <3>2. Once(a) /\ Quiet(a) /\ Due(a) \subseteq Due(buf) \cup {e}
            BY <1>1, <1>2, AppendedOnce
        <3>3. a.files = buf.files \cup {Active}
            BY <1>1, <1>2, AppendedIs
        <3>4. PutOf(a)
            BY <2>1 DEF Put
        <3> QED BY <3>1, <3>2, <3>3, <3>4
    <2>2. CASE PutFails
        <3>1. PICK torn \in BOOLEAN : PutOf(AppendFailed(buf, torn))
            BY <2>2 DEF PutFails
        <3> DEFINE a == AppendFailed(buf, torn)
        <3>2. Sound(a)
            BY <1>1, FailedIs
        <3>3. Once(a) /\ Quiet(a) /\ Due(a) \subseteq Due(buf)
            BY <1>1, FailedOnce
        <3>4. a.files = IF torn THEN buf.files \cup {Active} ELSE buf.files
            BY <1>1, FailedIs
        <3>5. a.files \subseteq buf.files \cup {Active}
            BY <3>4
        <3> QED BY <3>1, <3>2, <3>3, <3>5
    <2> QED BY <2>1, <2>2
<1>4. PICK name \in Path : /\ RotationName(a, name)
                           /\ buf' = Pruned(Rotated(a, name), stale)
    BY <1>3 DEF PutOf, Keeps
<1> DEFINE g == Rotated(a, name)
<1>5. Sound(g) /\ Due(g) = Due(a)
    BY <1>3, <1>4, GrownIs
<1>6. Once(g) /\ Quiet(g)
    <2>1. CASE MustRotate(a)
        <3>1. NameFor("rotated", name)
            BY <1>4, <2>1 DEF RotationName
        <3>2. name \notin a.files
            BY <1>3, <3>1, NameIs
        <3> QED BY <1>3, <2>1, <3>2, RotatedOnce
    <2>2. CASE ~MustRotate(a)
        BY <1>3, <2>2 DEF Rotated
    <2> QED BY <2>1, <2>2
<1> HIDE DEF g, e
<1>7. Keeping(g, buf')
    BY <1>4, <1>5, PrunedKeeps DEF g
<1>8. Due(buf') \subseteq Due(g)
    BY <1>5, <1>7, KeepingEvents
<1>9. Once(buf') /\ Quiet(buf')
    BY <1>5, <1>6, <1>7, KeptOnce
<1> QED BY <1>3, <1>5, <1>8, <1>9 DEF e

LEMMA RestoredOnceAgain ==
    ASSUME Shape, Unique, NeverDied, ExportFails
    PROVE  Once(buf') /\ Quiet(buf')
<1>1. /\ Sound(buf) /\ Once(buf) /\ Quiet(buf) /\ hand \in Seq(Event)
      /\ Due(buf) \cap Range(hand) = {}
      /\ \A i, j \in 1..Len(hand) : hand[i] = hand[j] => i = j
    BY SameHistory DEF Unique, Shape, TelemetryTypeOK
<1>2. PICK name \in Path : /\ NameFor("restore", name)
                           /\ buf' = Pruned(Restored(buf, hand, name), stale)
    BY DEF ExportFails, Keeps
<1> DEFINE r == Restored(buf, hand, name)
<1>3. name \notin buf.files /\ name # Active
    BY <1>2, NameIs
<1>4. Sound(r)
    BY <1>1, <1>3, RestoredIs
<1>5. Once(r) /\ Quiet(r)
    BY <1>1, <1>3, RestoredOnce
<1> HIDE DEF r
<1>6. Keeping(r, buf')
    BY <1>2, <1>4, PrunedKeeps DEF r
<1> QED BY <1>4, <1>5, <1>6, KeptOnce

LEMMA UniqueNext == Shape /\ Unique /\ [Next]_vars => Unique'
<1> SUFFICES ASSUME Shape, Unique, [Next]_vars, NeverDied'
             PROVE  /\ Once(buf') /\ Quiet(buf')
                    /\ Due(buf') \cap Range(hand') = {}
                    /\ \A i, j \in 1..Len(hand') : hand'[i] = hand'[j] => i = j
                    /\ (Due(buf') \cup Range(hand')) \cap got' \subseteq retried'
    BY DEF Unique
<1>1. CASE UNCHANGED vars
    BY <1>1 DEF vars, bookkeeping, Unique, NeverDied
<1>2. CASE Put \/ PutFails
    <2>1. NeverDied /\ UNCHANGED <<hand, got, retried>>
        BY <1>2, PutIs DEF NeverDied
    <2>2. Once(buf') /\ Quiet(buf') /\ Due(buf') \subseteq Due(buf) \cup {made'}
        BY <1>2, <2>1, PutOnce
    <2>3. made' \notin Known
        BY <1>2, PutIs, ProducedIs
    <2>4. Range(hand) \subseteq Known /\ got \subseteq Known
        BY DEF Shape, TelemetryTypeOK, Known
    <2> QED BY <2>1, <2>2, <2>3, <2>4 DEF Unique
<1>3. CASE DayPasses \/ FlushStarts
    BY <1>3 DEF DayPasses, FlushStarts, bookkeeping, Unique, NeverDied
<1>4. CASE Exported \/ SentInVain \/ RestoreFails
    <2>1. UNCHANGED <<buf, deaths>> /\ hand' = <<>>
        BY <1>4 DEF Exported, SentInVain, RestoreFails, SendRaises
    <2>2. \/ got' = got /\ retried' = retried
          \/ got' = got \cup Range(hand) /\ retried' = retried
          \/ got' \subseteq got \cup Range(hand) /\ retried' = retried \cup Range(hand)
        BY <1>4 DEF Exported, SentInVain, RestoreFails, SendRaises
    <2>3. Range(hand') = {} /\ 1..Len(hand') = {}
        BY <2>1, EmptyHand
    <2> QED BY <2>1, <2>2, <2>3 DEF Unique, NeverDied
<1>5. CASE Take
    <2>1. NeverDied /\ UNCHANGED <<got, retried>>
        BY <1>5 DEF Take, NeverDied
    <2>2. /\ buf' = Taken(buf, Room) /\ hand' = Batch(buf, Room)
          /\ Due(buf) = Due(buf') \cup Range(hand')
        BY <1>5, TakeIs
    <2>3. Room \in Nat /\ Sound(buf) /\ Once(buf) /\ Quiet(buf)
        BY <2>1, RoomIs, SameHistory DEF Unique
    <2> DEFINE n == Room
    <2> HIDE DEF n
    <2>4. Once(buf') /\ Quiet(buf')
        BY <2>2, <2>3, TakenOnce DEF n
    <2>5. Due(buf') \cap Range(hand') = {}
        BY <2>2, <2>3, TakenOnce DEF n
    <2>6. \A i, j \in 1..Len(hand') : hand'[i] = hand'[j] => i = j
        BY <2>2, <2>3, TakenOnce DEF n
    <2> QED BY <2>1, <2>2, <2>4, <2>5, <2>6 DEF Unique
<1>6. CASE ExportFails
    <2>1. NeverDied /\ hand' = <<>> /\ got' \subseteq got \cup Range(hand) /\ retried' = retried \cup Range(hand)
        BY <1>6 DEF ExportFails, SendRaises, NeverDied
    <2>2. Once(buf') /\ Quiet(buf')
        BY <1>6, <2>1, RestoredOnceAgain
    <2>3. Due(buf') \subseteq Due(buf) \cup Range(hand)
        BY <1>6, RestoredAgain
    <2>4. Range(hand') = {} /\ 1..Len(hand') = {}
        BY <2>1, EmptyHand
    <2> QED BY <2>1, <2>2, <2>3, <2>4 DEF Unique
<1>7. CASE PutDies \/ PutTears \/ TakeDies \/ RestoreDies \/ Dies
    <2>1. \E b : DiesWith(b)
        BY <1>7 DEF PutDies, PutTears, TakeDies, RestoreDies, Dies
    <2>2. deaths' = deaths + 1 /\ deaths \in Nat
        BY <2>1 DEF DiesWith, Shape, TelemetryTypeOK
    <2> QED BY <2>2 DEF NeverDied
<1>8. CASE Starts
    <2>1. deaths # 0 /\ deaths' = deaths
        BY <1>8 DEF Starts, Shape
    <2> QED BY <2>1 DEF NeverDied
<1> QED BY <1>1, <1>2, <1>3, <1>4, <1>5, <1>6, <1>7, <1>8 DEF Next

LEMMA UniqueAlways == Spec => [](Shape /\ Unique)
<1>1. Init => Shape /\ Unique
    BY ShapeInit, UniqueInit
<1>2. Shape /\ Unique /\ [Next]_vars => (Shape /\ Unique)'
    BY ShapeNext, UniqueNext
<1> QED BY <1>1, <1>2, PTL DEF Spec

(* Rotation, retention and partial reads never offer an event again: only  *)
(* a failed send or a restart does.                                        *)
THEOREM EventsLeaveOnce == Spec => []NeverTwice
<1>1. Unique => NeverTwice
    BY DEF Unique, NeverTwice, Queued, InHand
<1> QED BY <1>1, UniqueAlways, PTL

-----------------------------------------------------------------------------
(* The count of the lines to be read, by the names of their files.         *)
Spot(b, p) == <<b.queue[p[1]].path, p[2]>>
Spots(b) == {s \in Path \X Nat : Open(b, s[1], s[2])}

LEMMA SpotsOf ==
    ASSUME NEW b \in Buffer, Distinct(b.queue), NEW U, U \subseteq Unread(b)
    PROVE  /\ IsFiniteSet(U) /\ IsFiniteSet({Spot(b, p) : p \in U})
           /\ Cardinality({Spot(b, p) : p \in U}) = Cardinality(U)
<1> DEFINE T == {Spot(b, p) : p \in U}
           f == [p \in U |-> Spot(b, p)]
<1>1. IsFiniteSet(U)
    BY UnreadIs, FS_Subset
<1>2. \A p \in U : p = <<p[1], p[2]>> /\ p[1] \in DOMAIN b.queue
    <2> TAKE p \in U
    <2>1. p \in Unread(b) /\ p = <<p[1], p[2]>>
        BY UnreadIs
    <2>2. <<p[1], p[2]>> \in Unread(b)
        BY <2>1
    <2> QED BY <2>1, <2>2, UnreadIs
<1>3. \A p, q \in U : Spot(b, p) = Spot(b, q) => p = q
    <2> SUFFICES ASSUME NEW p \in U, NEW q \in U, Spot(b, p) = Spot(b, q) PROVE p = q
        OBVIOUS
    <2>1. b.queue[p[1]].path = b.queue[q[1]].path /\ p[2] = q[2]
        BY DEF Spot
    <2>2. p[1] = q[1]
        BY <1>2, <2>1 DEF Distinct
    <2> QED BY <1>2, <2>1, <2>2
<1>6. /\ f \in [U -> T]
      /\ \A p \in U : f[p] = Spot(b, p)
      /\ \A t \in T : \E p \in U : f[p] = t
    OBVIOUS
<1> HIDE DEF f, T
<1>4. f \in Surjection(U, T) /\ f \in Injection(U, T)
    <2>1. f \in Surjection(U, T)
        BY <1>6 DEF Surjection
    <2>2. f \in Injection(U, T)
        BY <1>3, <1>6 DEF Injection, IsInjective
    <2> QED BY <2>1, <2>2
<1>5. IsFiniteSet(T) /\ Cardinality(T) = Cardinality(U)
    BY <1>1, <1>4, FS_Surjection
<1> QED BY <1>1, <1>5 DEF T

LEMMA SpotsAre ==
    ASSUME NEW b \in Buffer, Distinct(b.queue)
    PROVE  /\ IsFiniteSet(Spots(b))
           /\ Cardinality(Unread(b)) = Cardinality(Spots(b))
           /\ \A S : CountLines(b, S) = Cardinality({s \in Spots(b) : s[1] \in S})
<1>1. ASSUME NEW S
      PROVE  {Spot(b, p) : p \in {q \in Unread(b) : b.queue[q[1]].path \in S}}
                = {s \in Spots(b) : s[1] \in S}
    <2>1. ASSUME NEW p \in Unread(b), b.queue[p[1]].path \in S
          PROVE  Spot(b, p) \in {s \in Spots(b) : s[1] \in S}
        <3>1. p = <<p[1], p[2]>> /\ p[2] \in Nat
            BY UnreadIs
        <3>2. <<p[1], p[2]>> \in Unread(b)
            BY <2>1, <3>1
        <3>3. p[1] \in DOMAIN b.queue /\ b.queue[p[1]].off < p[2]
              /\ p[2] <= Len(b.line[b.queue[p[1]].path])
            BY <3>2, UnreadIs
        <3>4. b.queue[p[1]] \in Entries(b) /\ b.queue[p[1]].path \in Path
            BY <3>3, EntryIs
        <3>5. Open(b, b.queue[p[1]].path, p[2])
            BY <3>3, <3>4 DEF Open
        <3> QED BY <2>1, <3>1, <3>4, <3>5 DEF Spots, Spot
    <2>2. ASSUME NEW s \in Spots(b), s[1] \in S
          PROVE  \E p \in {q \in Unread(b) : b.queue[q[1]].path \in S} : s = Spot(b, p)
        <3>1. s = <<s[1], s[2]>> /\ s[1] \in Path /\ s[2] \in Nat
            BY DEF Spots
        <3>2. PICK x \in Entries(b) : x.path = s[1] /\ x.off < s[2] /\ s[2] <= Len(b.line[s[1]])
            BY DEF Spots, Open
        <3>3. PICK k \in DOMAIN b.queue : x = b.queue[k]
            BY DEF Entries
        <3> DEFINE p == <<k, s[2]>>
        <3>4. p \in Unread(b)
            BY <3>1, <3>2, <3>3, UnreadIs
        <3>5. p[1] = k /\ p[2] = s[2]
            OBVIOUS
        <3> HIDE DEF p
        <3>6. Spot(b, p) = s /\ b.queue[p[1]].path \in S
            BY <2>2, <3>1, <3>2, <3>3, <3>5 DEF Spot
        <3> QED BY <3>4, <3>6
    <2> QED BY <2>1, <2>2
<1>2. ASSUME NEW S PROVE CountLines(b, S) = Cardinality({s \in Spots(b) : s[1] \in S})
    <2> DEFINE U == {q \in Unread(b) : b.queue[q[1]].path \in S}
    <2>1. U \subseteq Unread(b)
        OBVIOUS
    <2>2. CountLines(b, S) = Cardinality(U)
        BY DEF CountLines
    <2>3. {Spot(b, p) : p \in U} = {s \in Spots(b) : s[1] \in S}
        BY <1>1
    <2> HIDE DEF U
    <2> QED BY <2>1, <2>2, <2>3, SpotsOf
<1>3. {Spot(b, p) : p \in Unread(b)} = Spots(b)
    <2>1. \A q \in Unread(b) : b.queue[q[1]].path \in Path
        <3> TAKE q \in Unread(b)
        <3>1. q = <<q[1], q[2]>>
            BY UnreadIs
        <3>2. <<q[1], q[2]>> \in Unread(b)
            BY <3>1
        <3>3. q[1] \in DOMAIN b.queue
            BY <3>2, UnreadIs
        <3> QED BY <3>3, EntryIs
    <2>2. {q \in Unread(b) : b.queue[q[1]].path \in Path} = Unread(b)
        BY <2>1
    <2>3. {s \in Spots(b) : s[1] \in Path} = Spots(b)
        BY DEF Spots
    <2> QED BY <1>1, <2>2, <2>3
<1>4. IsFiniteSet(Spots(b)) /\ Cardinality(Unread(b)) = Cardinality(Spots(b))
    BY <1>3, SpotsOf
<1> QED BY <1>2, <1>4

(* The count in the buffer is that of the lines, or smaller. *)
Counts(b) == b.pending = Cardinality(Spots(b))
Undercounts(b) == b.pending <= Cardinality(Spots(b))

LEMMA CountsIs ==
    ASSUME NEW b \in Buffer, Distinct(b.queue)
    PROVE  /\ Cardinality(Spots(b)) \in Nat
           /\ Counts(b) <=> b.pending = Cardinality(Unread(b))
           /\ Undercounts(b) <=> b.pending <= Cardinality(Unread(b))
           /\ Counts(b) => Undercounts(b)
<1>1. Cardinality(Spots(b)) \in Nat /\ b.pending \in Nat
    BY SpotsAre, FS_CardinalityType DEF Buffer
<1>2. Cardinality(Unread(b)) = Cardinality(Spots(b))
    BY SpotsAre
<1> QED BY <1>1, <1>2 DEF Counts, Undercounts

LEMMA DropCounts ==
    ASSUME NEW b, Sound(b), NEW S
    PROVE  /\ Counts(b) => Counts(Drop(b, S))
           /\ Undercounts(b) => Undercounts(Drop(b, S))
<1> DEFINE d == Drop(b, S)
           G == {s \in Spots(b) : s[1] \in S}
<1>1. b \in Buffer /\ Distinct(b.queue)
    BY DEF Sound
<1>2. /\ d \in Buffer
      /\ d.pending = Monus(b.pending, CountLines(b, S))
      /\ \A p \in Path : d.line[p] = IF p \in S THEN <<>> ELSE b.line[p]
      /\ \A x : x \in Entries(d) <=> x \in Entries(b) /\ x.path \notin S
    BY <1>1, DropIs
<1> HIDE DEF d
<1>3. Spots(d) = Spots(b) \ G
    <2>1. \A p \in Path : \A j \in Nat : Open(d, p, j) <=> p \notin S /\ Open(b, p, j)
        BY <1>2 DEF Open
    <2> QED BY <2>1 DEF Spots
<1>4. IsFiniteSet(Spots(b)) /\ CountLines(b, S) = Cardinality(G)
    BY <1>1, SpotsAre
<1>5. Spots(b) \cap G = G /\ G \subseteq Spots(b)
    OBVIOUS
<1> HIDE DEF G
<1>6. Cardinality(Spots(d)) = Cardinality(Spots(b)) - Cardinality(G)
    BY <1>3, <1>4, <1>5, FS_Difference
<1>7. Cardinality(G) \in Nat /\ Cardinality(Spots(b)) \in Nat /\ Cardinality(G) <= Cardinality(Spots(b))
    BY <1>4, <1>5, FS_Subset, FS_CardinalityType
<1>8. b.pending \in Nat
    BY <1>1 DEF Buffer
<1>9. d.pending = IF b.pending > Cardinality(G) THEN b.pending - Cardinality(G) ELSE 0
    BY <1>2, <1>4 DEF Monus
<1>10. Counts(b) => Counts(d)
    BY <1>6, <1>7, <1>8, <1>9 DEF Counts
<1>11. Undercounts(b) => Undercounts(d)
    BY <1>6, <1>7, <1>8, <1>9 DEF Undercounts
<1> QED BY <1>10, <1>11 DEF d

LEMMA PrunedCounts ==
    ASSUME NEW b, Sound(b), NEW old
    PROVE  /\ Counts(b) => Counts(Pruned(b, old))
           /\ Undercounts(b) => Undercounts(Pruned(b, old))
<1> DEFINE c == DropStale(b, old \ {Active})
           d == DropBytes(c)
<1>1. Sound(c)
    BY StaleKeeps DEF Keeping
<1>2. c \in Buffer
    BY <1>1 DEF Sound
<1>3. (Counts(b) => Counts(c)) /\ (Undercounts(b) => Undercounts(c))
    BY DropCounts DEF DropStale
<1> HIDE DEF c
<1>4. \E k \in 0..Len(c.queue) : d = Drop(c, FirstPaths(c, k))
    BY <1>2, BytesFit
<1>5. (Counts(c) => Counts(d)) /\ (Undercounts(c) => Undercounts(d))
    BY <1>1, <1>4, DropCounts
<1>6. Sound(d)
    BY <1>1, BytesKeeps DEF Keeping
<1>7. d \in Buffer
    BY <1>6 DEF Sound
<1> HIDE DEF d
<1>8. DropCount(d) = d \/ \E k \in 0..Len(d.queue) : DropCount(d) = Drop(d, FirstPaths(d, k))
    BY <1>7, CountFits
<1>9. (Counts(d) => Counts(DropCount(d))) /\ (Undercounts(d) => Undercounts(DropCount(d)))
    BY <1>6, <1>8, DropCounts
<1>10. Pruned(b, old) = DropCount(d)
    BY DEF Pruned, c, d
<1> QED BY <1>3, <1>5, <1>9, <1>10

LEMMA RotatedCounts ==
    ASSUME NEW b, Sound(b), NEW name \in Path, name \notin b.files, MustRotate(b)
    PROVE  /\ Counts(b) => Counts(Rotated(b, name))
           /\ Undercounts(b) => Undercounts(Rotated(b, name))
<1> DEFINE r == Rotated(b, name)
<1>1. b \in Buffer /\ Distinct(b.queue)
    BY DEF Sound
<1>2. Sound(r)
    BY RotatedIs
<1>3. r \in Buffer /\ Distinct(r.queue)
    BY <1>2 DEF Sound
<1>4. r.pending = b.pending
    BY RotatedIs
<1>5. \A p \in Path : r.line[p] = IF p = Active THEN <<>> ELSE IF p = name THEN b.line[Active] ELSE b.line[p]
    BY RotatedIs
<1>6. DOMAIN r.queue = DOMAIN b.queue
    BY RotatedIs
<1>7. \A k \in DOMAIN b.queue : r.queue[k] = Renamed(b.queue[k], name)
    BY RotatedIs
<1> HIDE DEF r
<1>8. \A k \in DOMAIN b.queue : r.queue[k].off = b.queue[k].off
                                /\ r.line[r.queue[k].path] = b.line[b.queue[k].path]
    <2> TAKE k \in DOMAIN b.queue
    <2>1. b.queue[k] \in Entry /\ b.queue[k].path \in Path /\ b.queue[k].path \in b.files
        BY <1>1, EntryIs DEF Sound
    <2>2. r.queue[k].off = b.queue[k].off
          /\ r.queue[k].path = IF b.queue[k].path = Active THEN name ELSE b.queue[k].path
        BY <1>7, <2>1 DEF Renamed, Entry
    <2>3. Active \in b.files
        BY DEF MustRotate
    <2> QED BY <1>5, <2>1, <2>2, <2>3
<1>9. Unread(r) = Unread(b)
    BY <1>6, <1>8 DEF Unread
<1>10. Counts(b) => Counts(r)
    BY <1>1, <1>3, <1>4, <1>9, CountsIs
<1>11. Undercounts(b) => Undercounts(r)
    BY <1>1, <1>3, <1>4, <1>9, CountsIs
<1> QED BY <1>10, <1>11 DEF r

LEMMA RestoredCounts ==
    ASSUME NEW b, Sound(b), NEW batch \in Seq(Event), NEW name \in Path, name \notin b.files
    PROVE  /\ Counts(b) => Counts(Restored(b, batch, name))
           /\ Undercounts(b) => Undercounts(Restored(b, batch, name))
<1> DEFINE r == Restored(b, batch, name)
           G == {name} \X (1..Len(batch))
<1>1. b \in Buffer /\ Distinct(b.queue) /\ Len(batch) \in Nat
    BY DEF Sound
<1>2. r.pending = b.pending + Len(batch)
    BY RestoredIs
<1>3. \A p \in Path : r.line[p] = IF p = name THEN batch ELSE b.line[p]
    BY RestoredIs
<1>4. \A x : x \in Entries(r) <=> x \in Entries(b) \/ x = FrontEntry(name)
    BY RestoredIs
<1> HIDE DEF r
<1>5. FrontEntry(name).path = name /\ FrontEntry(name).off = 0
    BY DEF FrontEntry
<1>6. \A x \in Entries(b) : x.path # name /\ x.path \in Path
    BY <1>1, EntryIs DEF Sound
<1>7. \A p \in Path : \A j \in Nat : Open(r, p, j) <=> \/ Open(b, p, j)
                                                       \/ p = name /\ 0 < j /\ j <= Len(batch)
    <2> TAKE p \in Path
    <2> TAKE j \in Nat
    <2>1. CASE p = name
        BY <1>3, <1>4, <1>5, <1>6, <2>1 DEF Open
    <2>2. CASE p # name
        BY <1>3, <1>4, <1>5, <1>6, <2>2 DEF Open
    <2> QED BY <2>1, <2>2
<1>8. Spots(r) = Spots(b) \cup G
    <2>1. \A s : s \in Spots(r) <=> s \in Spots(b) \/ s \in G
        <3> TAKE s
        <3>1. s \in G <=> s \in Path \X Nat /\ s[1] = name /\ 0 < s[2] /\ s[2] <= Len(batch)
            BY <1>1
        <3> HIDE DEF G
        <3> QED BY <1>7, <3>1 DEF Spots
    <2> QED BY <2>1
<1>9. Spots(b) \cap G = {}
    BY <1>6 DEF Spots, Open
<1>10. IsFiniteSet(G) /\ Cardinality(G) = Len(batch)
    <2>1. 1 \in Int /\ Len(batch) \in Int
        BY <1>1
    <2> DEFINE n == Len(batch)
    <2>5. n \in Int /\ n \in Nat
        BY <1>1
    <2> HIDE DEF n
    <2>6. IsFiniteSet(1..n) /\ Cardinality(1..n) = IF 1 > n THEN 0 ELSE n - 1 + 1
        BY <2>1, <2>5, FS_Interval
    <2>2. IsFiniteSet(1..Len(batch)) /\ Cardinality(1..Len(batch)) = Len(batch)
        BY <2>5, <2>6 DEF n
    <2>3. IsFiniteSet({name}) /\ Cardinality({name}) = 1
        BY FS_Singleton
    <2> DEFINE A == {name}
               I == 1..Len(batch)
    <2>4. IsFiniteSet(A \X I) /\ Cardinality(A \X I) = Cardinality(A) * Cardinality(I)
        <3> HIDE DEF A, I
        <3>1. IsFiniteSet(A) /\ IsFiniteSet(I)
            BY <2>2, <2>3 DEF A, I
        <3> QED BY <3>1, FS_Product
    <2> QED BY <1>1, <2>2, <2>3, <2>4
<1>11. IsFiniteSet(Spots(b))
    BY <1>1, SpotsAre
<1> HIDE DEF G
<1>12. Cardinality(Spots(r)) = Cardinality(Spots(b)) + Len(batch) - 0
    <2>1. Cardinality(Spots(b) \cup G) = Cardinality(Spots(b)) + Cardinality(G) - Cardinality(Spots(b) \cap G)
        BY <1>10, <1>11, FS_Union
    <2> QED BY <1>8, <1>9, <1>10, <2>1, FS_EmptySet
<1>13. Cardinality(Spots(b)) \in Nat /\ b.pending \in Nat
    BY <1>1, <1>11, FS_CardinalityType DEF Buffer
<1>14. Counts(b) => Counts(r)
    BY <1>1, <1>2, <1>12, <1>13 DEF Counts
<1>15. Undercounts(b) => Undercounts(r)
    BY <1>1, <1>2, <1>12, <1>13 DEF Undercounts
<1> QED BY <1>14, <1>15 DEF r

(* No line is damaged, as long as no write has failed. *)
Clean(b) == \A p \in Path : \A j \in 1..Len(b.line[p]) : b.line[p][j] \in Event

(* A file in no queue is empty. *)
Vacant(b, p) == Listed(b, p) \/ b.line[p] = <<>>

LEMMA CleanFewer ==
    ASSUME NEW b, NEW d, Clean(b), \A p \in Path : d.line[p] = b.line[p] \/ d.line[p] = <<>>
    PROVE  Clean(d)
BY DEF Clean

LEMMA KeptClean ==
    ASSUME NEW b, NEW d, Sound(b), Keeping(b, d)
    PROVE  /\ Clean(b) => Clean(d)
           /\ \A p \in Path : Vacant(b, p) => Vacant(d, p)
<1>1. /\ b \in Buffer /\ d \in Buffer
      /\ \A x : x \in Entries(d) <=> x \in Entries(b) /\ x.path \in d.files
      /\ \A p \in d.files : d.line[p] = b.line[p]
      /\ \A p \in Path \ d.files : d.line[p] = <<>>
    BY DEF Keeping, Sound
<1>2. \A p : Listed(b, p) <=> \E x \in Entries(b) : x.path = p
    BY <1>1, EntryIs
<1>3. \A p : Listed(d, p) <=> \E x \in Entries(d) : x.path = p
    BY <1>1, EntryIs
<1>4. Clean(b) => Clean(d)
    BY <1>1, CleanFewer
<1>5. \A p \in Path : Vacant(b, p) => Vacant(d, p)
    BY <1>1, <1>2, <1>3 DEF Vacant
<1> QED BY <1>4, <1>5

LEMMA AppendedClean ==
    ASSUME NEW b, Sound(b), Clean(b), NEW e \in Event
    PROVE  /\ Clean(Appended(b, e))
           /\ \A p \in Path : Vacant(b, p) => Vacant(Appended(b, e), p)
           /\ Undercounts(b) => Undercounts(Appended(b, e))
           /\ Counts(b) /\ Vacant(b, Active) => Counts(Appended(b, e))
<1> DEFINE a == Appended(b, e)
           n == Len(b.line[Active]) + 1
           s == <<Active, n>>
           w == Written(b, e)
<1>1. b \in Buffer /\ e \in Line /\ Active \in Path /\ Torn \notin Event /\ Distinct(b.queue)
    BY BufferAssumption, ActiveIs DEF Sound, Line, Torn, Event
<1>2. a \in Buffer /\ Distinct(a.queue)
    BY AppendedIs DEF Sound
<1>3. a.line = w.line
    BY AppendedIs
<1>4. a.pending = b.pending + 1
    BY AppendedIs
<1>5. \A x : x \in Entries(a) <=> x \in Entries(b) \/ (~Listed(b, Active) /\ x = NewEntry)
    BY AppendedIs
<1>6. \A p \in Path : p # Active => w.line[p] = b.line[p]
    BY <1>1, WrittenIs
<1>7. \/ \E j \in 1..Len(b.line[Active]) : b.line[Active][j] = Torn
      \/ Len(w.line[Active]) = n /\ w.line[Active][n] = e
    BY <1>1, WrittenIs
<1>8. \A j \in 1..Len(b.line[Active]) : \A f \in Event : w.line[Active][j] = f <=> b.line[Active][j] = f
    BY <1>1, WrittenIs
<1>9. Len(b.line[Active]) \in Nat /\ n \in Nat
    BY <1>1 DEF Buffer
<1>10. Len(w.line[Active]) = n /\ w.line[Active][n] = e
    BY <1>1, <1>7 DEF Clean
<1> HIDE DEF a, w
<1>11. \A p \in Path : p # Active => a.line[p] = b.line[p]
    BY <1>3, <1>6
<1>12. Len(a.line[Active]) = n /\ a.line[Active][n] = e
       /\ \A j \in 1..Len(b.line[Active]) : \A f \in Event : a.line[Active][j] = f <=> b.line[Active][j] = f
    BY <1>3, <1>8, <1>10
<1>13. Clean(a)
    <2> SUFFICES ASSUME NEW p \in Path, NEW j \in 1..Len(a.line[p]) PROVE a.line[p][j] \in Event
        BY DEF Clean
    <2>1. CASE p # Active
        BY <1>11, <2>1 DEF Clean
    <2>2. CASE p = Active /\ j = n
        BY <1>12, <2>2
    <2>3. CASE p = Active /\ j # n
        <3>1. j \in 1..Len(b.line[Active])
            BY <1>9, <1>12, <2>3
        <3>2. b.line[Active][j] \in Event
            BY <1>1, <3>1 DEF Clean
        <3> QED BY <1>12, <2>3, <3>1, <3>2
    <2> QED BY <2>1, <2>2, <2>3
<1>14. NewEntry.path = Active /\ NewEntry.off = 0
    BY DEF NewEntry
<1>15. \A p : Listed(b, p) <=> \E x \in Entries(b) : x.path = p
    BY <1>1, EntryIs
<1>16. \A p : Listed(a, p) <=> \E x \in Entries(a) : x.path = p
    BY <1>2, EntryIs
<1>17. Listed(a, Active)
    BY <1>5, <1>14, <1>15, <1>16
<1>18. \A p \in Path : Vacant(b, p) => Vacant(a, p)
    BY <1>5, <1>11, <1>15, <1>16, <1>17 DEF Vacant
<1>19. \A x \in Entries(b) : x.off \in Nat /\ x.off <= Len(b.line[x.path])
    BY <1>1, EntryIs DEF Sound
<1>20. \A p \in Path : \A j \in Nat : Open(b, p, j) => Open(a, p, j)
    <2> SUFFICES ASSUME NEW p \in Path, NEW j \in Nat, Open(b, p, j) PROVE Open(a, p, j)
        OBVIOUS
    <2>1. PICK x \in Entries(b) : x.path = p /\ x.off < j /\ j <= Len(b.line[p])
        BY DEF Open
    <2>2. j <= Len(a.line[p])
        BY <1>9, <1>11, <1>12, <2>1
    <2> QED BY <1>5, <2>1, <2>2 DEF Open
<1>21. Open(a, Active, n)
    <2>1. PICK x \in Entries(a) : x.path = Active
        BY <1>16, <1>17
    <2>2. x.off < n
        BY <1>5, <1>9, <1>14, <1>19, <2>1
    <2> QED BY <1>9, <1>12, <2>1, <2>2 DEF Open
<1>22. ~Open(b, Active, n)
    BY <1>9 DEF Open
<1>23. Spots(b) \cup {s} \subseteq Spots(a) /\ s \notin Spots(b)
    BY <1>1, <1>9, <1>20, <1>21, <1>22 DEF Spots
<1>24. IsFiniteSet(Spots(a)) /\ IsFiniteSet(Spots(b))
    BY <1>1, <1>2, SpotsAre
<1> HIDE DEF s
<1>25. IsFiniteSet(Spots(b) \cup {s}) /\ Cardinality(Spots(b) \cup {s}) = Cardinality(Spots(b)) + 1
    BY <1>23, <1>24, FS_AddElement
<1>26. Cardinality(Spots(a)) \in Nat /\ Cardinality(Spots(b)) \in Nat /\ b.pending \in Nat
    BY <1>1, <1>24, FS_CardinalityType DEF Buffer
<1>27. Cardinality(Spots(b)) + 1 <= Cardinality(Spots(a))
    BY <1>23, <1>24, <1>25, FS_Subset
<1>28. Undercounts(b) => Undercounts(a)
    BY <1>4, <1>26, <1>27 DEF Undercounts
<1>29. Vacant(b, Active) => Spots(a) \subseteq Spots(b) \cup {s}
    <2> SUFFICES ASSUME Vacant(b, Active), NEW z \in Spots(a), z \notin Spots(b) PROVE z = s
        OBVIOUS
    <2> DEFINE p == z[1]
               j == z[2]
    <2>1. z = <<p, j>> /\ p \in Path /\ j \in Nat /\ Open(a, p, j) /\ ~Open(b, p, j)
        BY DEF Spots
    <2> HIDE DEF p, j
    <2>2. PICK x \in Entries(a) : x.path = p /\ x.off < j /\ j <= Len(a.line[p])
        BY <2>1 DEF Open
    <2>3. CASE p # Active
        <3>1. x \in Entries(b)
            BY <1>5, <1>14, <2>2, <2>3
        <3> QED BY <1>11, <2>1, <2>2, <2>3, <3>1 DEF Open
    <2>4. CASE p = Active
        <3>1. j <= n /\ 0 < j
            BY <1>5, <1>12, <1>14, <1>19, <2>1, <2>2, <2>4
        <3>2. CASE x \in Entries(b)
            <4>1. ~(j <= Len(b.line[p]))
                BY <2>1, <2>2, <3>2 DEF Open
            <4> QED BY <1>9, <2>1, <2>4, <3>1, <4>1 DEF s
        <3>3. CASE ~Listed(b, Active)
            <4>1. b.line[Active] = <<>>
                BY <3>3 DEF Vacant
            <4>2. n = 1
                BY <4>1
            <4> QED BY <2>1, <2>4, <3>1, <4>2 DEF s
        <3> QED BY <1>5, <2>2, <3>2, <3>3
    <2> QED BY <2>3, <2>4
<1>30. Counts(b) /\ Vacant(b, Active) => Counts(a)
    <2> SUFFICES ASSUME Counts(b), Vacant(b, Active) PROVE Counts(a)
        OBVIOUS
    <2>1. Spots(a) = Spots(b) \cup {s}
        BY <1>23, <1>29
    <2> QED BY <1>4, <1>25, <1>26, <2>1 DEF Counts
<1> QED BY <1>13, <1>18, <1>28, <1>30 DEF a

LEMMA RotatedClean ==
    ASSUME NEW b, Sound(b), NEW name \in Path, name \notin b.files, MustRotate(b)
    PROVE  /\ Clean(b) => Clean(Rotated(b, name))
           /\ Vacant(Rotated(b, name), Active)
           /\ \A p \in Path : Vacant(b, p) /\ Vacant(b, Active) => Vacant(Rotated(b, name), p)
<1> DEFINE r == Rotated(b, name)
<1>1. b \in Buffer /\ Active \in Path /\ Active \in b.files /\ name # Active
    BY ActiveIs DEF Sound, MustRotate
<1>2. \A p \in Path : r.line[p] = IF p = Active THEN <<>> ELSE IF p = name THEN b.line[Active] ELSE b.line[p]
    BY RotatedIs
<1>3. \A x : x \in Entries(r) <=> \E y \in Entries(b) : x = Renamed(y, name)
    BY RotatedIs
<1>4. r \in Buffer
    BY RotatedIs DEF Sound
<1> HIDE DEF r
<1>5. \A y \in Entries(b) : Renamed(y, name).path = IF y.path = Active THEN name ELSE y.path
    BY <1>1, EntryIs DEF Renamed, Entry
<1>6. \A p : Listed(b, p) <=> \E x \in Entries(b) : x.path = p
    BY <1>1, EntryIs
<1>7. \A p : Listed(r, p) <=> \E x \in Entries(r) : x.path = p
    BY <1>4, EntryIs
<1>8. Clean(b) => Clean(r)
    <2> SUFFICES ASSUME Clean(b), NEW p \in Path, NEW j \in 1..Len(r.line[p]) PROVE r.line[p][j] \in Event
        BY DEF Clean
    <2>1. CASE p = Active
        BY <1>2, <2>1
    <2>2. CASE p = name /\ p # Active
        BY <1>1, <1>2, <2>2 DEF Clean
    <2>3. CASE p # name /\ p # Active
        BY <1>2, <2>3 DEF Clean
    <2> QED BY <2>1, <2>2, <2>3
<1>9. Vacant(r, Active)
    BY <1>1, <1>2 DEF Vacant
<1>10. ASSUME NEW p \in Path, Vacant(b, p), Vacant(b, Active)
       PROVE  Vacant(r, p)
    <2>1. CASE p = name
        <3>1. CASE Listed(b, Active)
            BY <1>3, <1>5, <1>6, <1>7, <2>1, <3>1 DEF Vacant
        <3>2. CASE ~Listed(b, Active)
            BY <1>1, <1>2, <1>10, <2>1, <3>2 DEF Vacant
        <3> QED BY <3>1, <3>2
    <2>2. CASE p # name /\ p # Active
        <3>1. CASE Listed(b, p)
            BY <1>3, <1>5, <1>6, <1>7, <2>2, <3>1 DEF Vacant
        <3>2. CASE ~Listed(b, p)
            BY <1>2, <1>10, <2>2, <3>2 DEF Vacant
        <3> QED BY <3>1, <3>2
    <2> QED BY <1>9, <2>1, <2>2
<1> QED BY <1>8, <1>9, <1>10 DEF r

LEMMA RestoredClean ==
    ASSUME NEW b, Sound(b), NEW batch \in Seq(Event), NEW name \in Path, name \notin b.files
    PROVE  /\ Clean(b) => Clean(Restored(b, batch, name))
           /\ \A p \in Path : Vacant(b, p) => Vacant(Restored(b, batch, name), p)
<1> DEFINE r == Restored(b, batch, name)
<1>1. b \in Buffer
    BY DEF Sound
<1>2. \A p \in Path : r.line[p] = IF p = name THEN batch ELSE b.line[p]
    BY RestoredIs
<1>3. \A x : x \in Entries(r) <=> x \in Entries(b) \/ x = FrontEntry(name)
    BY RestoredIs
<1>4. r \in Buffer
    BY RestoredIs DEF Sound
<1> HIDE DEF r
<1>5. FrontEntry(name).path = name
    BY DEF FrontEntry
<1>6. \A p : Listed(b, p) <=> \E x \in Entries(b) : x.path = p
    BY <1>1, EntryIs
<1>7. \A p : Listed(r, p) <=> \E x \in Entries(r) : x.path = p
    BY <1>4, EntryIs
<1>8. \A j \in 1..Len(batch) : batch[j] \in Event
    OBVIOUS
<1>9. Clean(b) => Clean(r)
    BY <1>2, <1>8 DEF Clean
<1>10. \A p \in Path : Vacant(b, p) => Vacant(r, p)
    BY <1>2, <1>3, <1>5, <1>6, <1>7 DEF Vacant
<1> QED BY <1>9, <1>10 DEF r

LEMMA ConsumedClean ==
    ASSUME NEW b, Sound(b), NEW k \in 0..Len(b.queue), Clean(b)
    PROVE  Clean(Consumed(b, k))
<1>1. \A p \in Path : Consumed(b, k).line[p] = IF p \in Emptied(b, k) THEN <<>> ELSE b.line[p]
    BY ConsumedIs
<1> QED BY <1>1, CleanFewer

LEMMA UnreadWaits ==
    ASSUME NEW b \in Buffer, Clean(b)
    PROVE  Unread(b) = Waiting(b)
<1> SUFFICES ASSUME NEW p \in Unread(b) PROVE LineAt(b, p) \in Event
    BY DEF Waiting
<1>1. p = <<p[1], p[2]>> /\ p[2] \in Nat
    BY UnreadIs
<1>2. <<p[1], p[2]>> \in Unread(b)
    BY <1>1
<1>3. /\ p[1] \in DOMAIN b.queue /\ b.queue[p[1]].off < p[2]
      /\ p[2] <= Len(b.line[b.queue[p[1]].path])
    BY <1>2, UnreadIs
<1>4. b.queue[p[1]].path \in Path /\ b.queue[p[1]].off \in Nat /\ b.line[b.queue[p[1]].path] \in Seq(Line)
    BY <1>3, EntryIs
<1>5. p[2] \in 1..Len(b.line[b.queue[p[1]].path])
    BY <1>1, <1>3, <1>4
<1> QED BY <1>4, <1>5 DEF Clean, LineAt

LEMMA TakenLines ==
    ASSUME NEW b, Sound(b), NEW n \in Nat
    PROVE  /\ \A p \in Path : Taken(b, n).line[p] =
                 IF p \in Emptied(b, Popped(b, n)) THEN <<>> ELSE b.line[p]
           /\ \A p \in Path : /\ Vacant(b, p)
                              /\ RemovesOpenFile \/ p = Active
                              => Vacant(Taken(b, n), p)
<1> DEFINE t == Taken(b, n)
           c == Popped(b, n)
           L == Len(b.queue)
<1>1. b \in Buffer /\ L \in Nat /\ c \in 0..L
    BY PoppedIs, EntryIs DEF Sound
<1>2. t \in Buffer
    BY TakenIs DEF Sound
<1>3. /\ Len(t.queue) = L - c
      /\ \A k \in 1..(L - c) :
            /\ c + k \in DOMAIN b.queue
            /\ t.queue[k].path = b.queue[c + k].path
    BY TakenQueue
<1>4. t.line = Consumed(b, c).line
    BY TakenQueue
<1>5. \A p \in Path : Consumed(b, c).line[p] = IF p \in Emptied(b, c) THEN <<>> ELSE b.line[p]
    BY <1>1, ConsumedIs
<1> HIDE DEF t
<1>6. \A p \in Path : t.line[p] = IF p \in Emptied(b, c) THEN <<>> ELSE b.line[p]
    BY <1>4, <1>5
<1>7. DOMAIN t.queue = 1..(L - c)
    BY <1>2, <1>3, EntryIs
<1> HIDE DEF c
<1>8. ASSUME NEW p \in Path, Vacant(b, p), RemovesOpenFile \/ p = Active
      PROVE  Vacant(t, p)
    <2>1. CASE ~Listed(b, p)
        BY <1>6, <1>8, <2>1 DEF Vacant
    <2>2. CASE Listed(b, p)
        <3>1. PICK m \in DOMAIN b.queue : b.queue[m].path = p
            BY <2>2 DEF Listed
        <3>2. m \in 1..L
            BY <1>1, <3>1, EntryIs DEF L
        <3> HIDE DEF L
        <3>3. CASE m <= c
            <4>1. m \in 1..c
                BY <1>1, <3>2, <3>3
            <4>2. p \in FirstPaths(b, c)
                BY <3>1, <4>1 DEF FirstPaths
            <4>3. p \in Emptied(b, c)
                BY <1>8, <4>2 DEF Emptied
            <4> QED BY <1>6, <4>3 DEF Vacant
        <3>4. CASE m > c
            <4>1. m - c \in 1..(L - c) /\ c + (m - c) = m
                BY <1>1, <3>2, <3>4
            <4>2. t.queue[m - c].path = p
                BY <1>3, <3>1, <4>1
            <4> QED BY <1>7, <4>1, <4>2 DEF Vacant, Listed
        <3> QED BY <1>1, <3>2, <3>3, <3>4
    <2> QED BY <2>1, <2>2
<1> QED BY <1>6, <1>8 DEF t, c

LEMMA TakenCounts ==
    ASSUME NEW b, Sound(b), NEW n \in Nat, Clean(b)
    PROVE  /\ Clean(Taken(b, n))
           /\ Counts(b) => Counts(Taken(b, n))
           /\ Undercounts(b) => Undercounts(Taken(b, n))
<1> DEFINE t == Taken(b, n)
           c == Popped(b, n)
           m == Len(Batch(b, n))
           R == Read(b, n)
           W == Waiting(b) \ R
           to(p) == <<c + p[1], p[2]>>
           f == [p \in Waiting(t) |-> to(p)]
<1>1. b \in Buffer /\ Distinct(b.queue) /\ c \in Nat
    BY PoppedIs, EntryIs DEF Sound
<1>2. t \in Buffer /\ Distinct(t.queue)
    BY TakenIs DEF Sound
<1>3. t.pending = Monus(b.pending, m)
    BY TakenQueue
<1>4. \A p \in Path : t.line[p] = IF p \in Emptied(b, c) THEN <<>> ELSE b.line[p]
    BY TakenLines
<1>5. m = Cardinality(R)
    BY <1>1, BatchIs
<1>6. R \subseteq Waiting(b) /\ IsFiniteSet(R)
    BY <1>1, ReadIs
<1>7. \A k \in DOMAIN t.queue : \A j \in Nat : <<k, j>> \in Waiting(t) <=>
                 <<c + k, j>> \in Waiting(b) /\ <<c + k, j>> \notin R
    BY TakenPlaces
<1>8. \A p \in Waiting(b) : p \notin R => /\ p[1] - c \in DOMAIN t.queue
                                          /\ p = <<c + (p[1] - c), p[2]>>
    BY TakenPlaces
<1> HIDE DEF t, c, m, R
<1>9. Clean(t)
    BY <1>4, CleanFewer
<1>10. \A p \in Waiting(t) : p = <<p[1], p[2]>> /\ p[1] \in DOMAIN t.queue /\ p[1] \in Nat /\ p[2] \in Nat
    BY <1>2, WaitingIs
<1>11. \A p \in Waiting(t) : to(p) \in W
    <2> TAKE p \in Waiting(t)
    <2>1. p = <<p[1], p[2]>> /\ p[1] \in DOMAIN t.queue /\ p[2] \in Nat
        BY <1>10
    <2> QED BY <1>7, <2>1
<1>12. \A w \in W : \E p \in Waiting(t) : to(p) = w
    <2> TAKE w \in W
    <2>1. w[1] - c \in DOMAIN t.queue /\ w = <<c + (w[1] - c), w[2]>> /\ w[2] \in Nat
        BY <1>1, <1>8, WaitingIs
    <2> DEFINE k == w[1] - c
               p == <<k, w[2]>>
    <2>2. k \in DOMAIN t.queue /\ w = <<c + k, w[2]>>
        BY <2>1
    <2> HIDE DEF k
    <2>3. p \in Waiting(t)
        BY <1>7, <2>1, <2>2
    <2>4. to(p) = w
        BY <2>2
    <2> QED BY <2>3, <2>4
<1>13. \A p, q \in Waiting(t) : to(p) = to(q) => p = q
    <2> SUFFICES ASSUME NEW p \in Waiting(t), NEW q \in Waiting(t), to(p) = to(q) PROVE p = q
        OBVIOUS
    <2>1. c + p[1] = c + q[1] /\ p[2] = q[2]
        OBVIOUS
    <2>2. p[1] = q[1]
        BY <1>1, <1>10, <2>1
    <2> QED BY <1>10, <2>1, <2>2
<1>14. f \in [Waiting(t) -> W] /\ (\A p \in Waiting(t) : f[p] = to(p))
    BY <1>11
<1> HIDE DEF f
<1>15. f \in Surjection(Waiting(t), W) /\ f \in Injection(Waiting(t), W)
    <2>1. f \in Surjection(Waiting(t), W)
        BY <1>12, <1>14 DEF Surjection
    <2>2. f \in Injection(Waiting(t), W)
        BY <1>13, <1>14 DEF Injection, IsInjective
    <2> QED BY <2>1, <2>2
<1> HIDE DEF to
<1>16. IsFiniteSet(Waiting(t)) /\ IsFiniteSet(Waiting(b))
    BY <1>1, <1>2, WaitingIs
<1> HIDE DEF W
<1>17. Cardinality(Waiting(t)) = Cardinality(W)
    BY <1>15, <1>16, FS_Surjection
<1>18. Cardinality(W) = Cardinality(Waiting(b)) - Cardinality(R)
    <2>1. Waiting(b) \cap R = R
        BY <1>6
    <2> QED BY <1>16, <2>1, FS_Difference DEF W
<1>19. Unread(t) = Waiting(t) /\ Unread(b) = Waiting(b)
    BY <1>1, <1>2, <1>9, UnreadWaits
<1>20. /\ Cardinality(Waiting(b)) \in Nat /\ Cardinality(R) \in Nat /\ b.pending \in Nat
       /\ Cardinality(R) <= Cardinality(Waiting(b))
    BY <1>1, <1>6, <1>16, FS_CardinalityType, FS_Subset DEF Buffer
<1>21. t.pending = IF b.pending > Cardinality(R) THEN b.pending - Cardinality(R) ELSE 0
    BY <1>3, <1>5 DEF Monus
<1>22. ASSUME Counts(b) PROVE Counts(t)
    <2>1. b.pending = Cardinality(Waiting(b))
        BY <1>1, <1>19, <1>22, CountsIs
    <2>2. t.pending = Cardinality(Waiting(t))
        BY <1>17, <1>18, <1>20, <1>21, <2>1
    <2> QED BY <1>2, <1>19, <2>2, CountsIs
<1>23. ASSUME Undercounts(b) PROVE Undercounts(t)
    <2>1. b.pending <= Cardinality(Waiting(b))
        BY <1>1, <1>19, <1>23, CountsIs
    <2>2. t.pending <= Cardinality(Waiting(t))
        BY <1>17, <1>18, <1>20, <1>21, <2>1
    <2> QED BY <1>2, <1>19, <2>2, CountsIs
<1> QED BY <1>9, <1>22, <1>23 DEF t

(* While every write succeeds, no line is damaged and the count is never   *)
(* too high; it is right until the process ends for the first time.        *)
Counted ==
    ~failed =>
        /\ Clean(buf)
        /\ running => Undercounts(buf)
        /\ NeverDied => Counts(buf) /\ Vacant(buf, Active)

LEMMA CountedInit == Init => Counted
<1> SUFFICES ASSUME Init PROVE Counted
    OBVIOUS
<1>1. Sound(buf) /\ buf.files = {} /\ buf.queue = <<>> /\ buf.pending = 0
    BY EmptyIs DEF Init
<1>2. buf \in Buffer /\ Distinct(buf.queue) /\ \A p \in Path : buf.line[p] = <<>>
    BY <1>1 DEF Sound
<1>3. Clean(buf) /\ Vacant(buf, Active)
    BY <1>2, ActiveIs DEF Clean, Vacant
<1>4. Spots(buf) = {}
    BY <1>1, <1>2 DEF Spots, Open, Entries
<1>5. Counts(buf)
    BY <1>1, <1>4, FS_EmptySet DEF Counts
<1> QED BY <1>2, <1>3, <1>5, CountsIs DEF Counted

LEMMA PutCounts ==
    ASSUME Shape, Counted, Put, ~failed
    PROVE  /\ Clean(buf')
           /\ Undercounts(buf')
           /\ NeverDied => Counts(buf') /\ Vacant(buf', Active)
<1> DEFINE e == made'
           a == Appended(buf, e)
<1>1. Sound(buf) /\ running /\ e \in Event
    BY SameHistory, PutIs, ProducedIs
<1>2. Clean(buf) /\ Undercounts(buf) /\ (NeverDied => Counts(buf) /\ Vacant(buf, Active))
    BY <1>1 DEF Counted
<1>3. PICK name \in Path : /\ RotationName(a, name)
                           /\ buf' = Pruned(Rotated(a, name), stale)
    BY DEF Put, PutOf, Keeps
<1> DEFINE g == Rotated(a, name)
<1>4. Sound(a)
    BY <1>1, AppendedIs
<1>5. a.files = buf.files \cup {Active}
    BY <1>1, AppendedIs
<1>6. Clean(a)
    BY <1>1, <1>2, AppendedClean
<1>7. Undercounts(a)
    BY <1>1, <1>2, AppendedClean
<1>8. NeverDied => Counts(a)
    BY <1>1, <1>2, AppendedClean
<1>9. NeverDied => Vacant(a, Active)
    BY <1>1, <1>2, ActiveIs, AppendedClean
<1>10. Sound(g)
    BY <1>3, <1>4, <1>5, GrownIs
<1> HIDE DEF a
<1>11. Clean(g) /\ Undercounts(g) /\ (NeverDied => Counts(g) /\ Vacant(g, Active))
    <2>1. CASE MustRotate(a)
        <3>1. NameFor("rotated", name)
            BY <1>3, <2>1 DEF RotationName
        <3>2. name \notin a.files
            BY <1>5, <3>1, NameIs
        <3>3. Clean(g) /\ Vacant(g, Active)
            BY <1>4, <1>6, <2>1, <3>2, RotatedClean
        <3>4. Undercounts(g) /\ (NeverDied => Counts(g))
            BY <1>4, <1>7, <1>8, <2>1, <3>2, RotatedCounts
        <3> QED BY <3>3, <3>4
    <2>2. CASE ~MustRotate(a)
        BY <1>6, <1>7, <1>8, <1>9, <2>2 DEF Rotated
    <2> QED BY <2>1, <2>2
<1> HIDE DEF g
<1>12. Keeping(g, buf')
    BY <1>3, <1>10, PrunedKeeps DEF g
<1>13. Clean(buf')
    BY <1>10, <1>11, <1>12, KeptClean
<1>14. NeverDied => Vacant(buf', Active)
    BY <1>10, <1>11, <1>12, KeptClean, ActiveIs
<1>15. Undercounts(buf') /\ (NeverDied => Counts(buf'))
    BY <1>3, <1>10, <1>11, PrunedCounts DEF g
<1> QED BY <1>13, <1>14, <1>15

LEMMA RestoreCounts ==
    ASSUME Shape, Counted, ExportFails, ~failed
    PROVE  /\ Clean(buf')
           /\ Undercounts(buf')
           /\ NeverDied => Counts(buf') /\ Vacant(buf', Active)
<1>1. Sound(buf) /\ running /\ hand \in Seq(Event)
    BY SameHistory DEF ExportFails, SendRaises, Shape, TelemetryTypeOK
<1>2. Clean(buf) /\ Undercounts(buf) /\ (NeverDied => Counts(buf) /\ Vacant(buf, Active))
    BY <1>1 DEF Counted
<1>3. PICK name \in Path : /\ NameFor("restore", name)
                           /\ buf' = Pruned(Restored(buf, hand, name), stale)
    BY DEF ExportFails, Keeps
<1> DEFINE r == Restored(buf, hand, name)
<1>4. name \notin buf.files
    BY <1>3, NameIs
<1>5. Sound(r)
    BY <1>1, <1>4, RestoredIs
<1>6. Clean(r)
    BY <1>1, <1>2, <1>4, RestoredClean
<1>7. NeverDied => Vacant(r, Active)
    BY <1>1, <1>2, <1>4, RestoredClean, ActiveIs
<1>8. Undercounts(r) /\ (NeverDied => Counts(r))
    BY <1>1, <1>2, <1>4, RestoredCounts
<1> HIDE DEF r
<1>9. Keeping(r, buf')
    BY <1>3, <1>5, PrunedKeeps DEF r
<1>10. Clean(buf')
    BY <1>5, <1>6, <1>9, KeptClean
<1>11. NeverDied => Vacant(buf', Active)
    BY <1>5, <1>7, <1>9, KeptClean, ActiveIs
<1>12. Undercounts(buf') /\ (NeverDied => Counts(buf'))
    BY <1>3, <1>5, <1>8, PrunedCounts DEF r
<1> QED BY <1>10, <1>11, <1>12

(* What is left to show of a step in which the process dies. *)
LEMMA CountedDead ==
    ASSUME Shape, NEW b \in Buffer, \A p \in Path \ b.files : b.line[p] = <<>>, DiesWith(b),
           ~failed' => Clean(b)
    PROVE  Counted'
<1>1. running' = FALSE /\ deaths' # 0
    BY DiesIs
<1>2. buf'.line = b.line
    BY DiesIs
<1>3. Clean(b) => Clean(buf')
    BY <1>2 DEF Clean
<1> QED BY <1>1, <1>3 DEF Counted, NeverDied

LEMMA PutDiesClean ==
    ASSUME Shape, PutDies, Clean(buf)
    PROVE  \E b : Sound(b) /\ DiesWith(b) /\ Clean(b)
<1> DEFINE e == made'
           a == Appended(buf, e)
<1>1. PICK name \in Path :
         /\ RotationName(a, name)
         /\ \E b \in {a, Rotated(a, name), Pruned(Rotated(a, name), stale)} : DiesWith(b)
    BY DEF PutDies
<1> DEFINE g == Rotated(a, name)
           k == Pruned(g, stale)
<1>2. Sound(buf) /\ e \in Event
    BY SameHistory, PutDiesIs, ProducedIs
<1>3. Sound(a)
    BY <1>2, AppendedIs
<1>4. a.files = buf.files \cup {Active}
    BY <1>2, AppendedIs
<1>5. Clean(a)
    BY <1>2, AppendedClean
<1>6. Sound(g)
    BY <1>1, <1>3, <1>4, GrownIs
<1> HIDE DEF a
<1>7. Clean(g)
    <2>1. CASE MustRotate(a)
        <3>1. NameFor("rotated", name)
            BY <1>1, <2>1 DEF RotationName
        <3>2. name \notin a.files
            BY <1>4, <3>1, NameIs
        <3> QED BY <1>3, <1>5, <2>1, <3>2, RotatedClean
    <2>2. CASE ~MustRotate(a)
        BY <1>5, <2>2 DEF Rotated
    <2> QED BY <2>1, <2>2
<1>8. Keeping(g, k)
    BY <1>6, PrunedKeeps
<1> HIDE DEF g
<1>9. Clean(k) /\ Sound(k)
    BY <1>6, <1>7, <1>8, KeptClean DEF Keeping
<1> QED BY <1>1, <1>3, <1>5, <1>6, <1>7, <1>9 DEF g

LEMMA CountedNext == Shape /\ Counted /\ [Next]_vars => Counted'
<1> SUFFICES ASSUME Shape, Counted, [Next]_vars PROVE Counted'
    OBVIOUS
<1>0. failed \in BOOLEAN /\ running \in BOOLEAN /\ deaths \in Nat
    BY DEF Shape, TelemetryTypeOK
<1>1. CASE UNCHANGED vars
    BY <1>1 DEF vars, bookkeeping, Counted, NeverDied
<1>2. CASE Put
    <2>1. failed => failed'
        BY <1>2, PutIs
    <2>2. deaths' = deaths
        BY <1>2 DEF Put
    <2>3. ~failed => Clean(buf') /\ Undercounts(buf')
                     /\ (NeverDied => Counts(buf') /\ Vacant(buf', Active))
        BY <1>2, PutCounts
    <2> QED BY <2>1, <2>2, <2>3 DEF Counted, NeverDied
<1>3. CASE PutFails \/ RestoreFails \/ PutTears
    BY <1>3 DEF PutFails, RestoreFails, PutTears, WriteFails, Counted
<1>4. CASE PutDies
    <2>1. failed' = failed
        BY <1>4 DEF PutDies
    <2>2. CASE failed'
        BY <2>2 DEF Counted
    <2>3. CASE ~failed'
        <3>1. PICK b : Sound(b) /\ DiesWith(b) /\ Clean(b)
            BY <1>4, <2>1, <2>3, PutDiesClean DEF Counted
        <3>2. b \in Buffer /\ \A p \in Path \ b.files : b.line[p] = <<>>
            BY <3>1 DEF Sound
        <3> QED BY <3>1, <3>2, CountedDead
    <2> QED BY <2>2, <2>3
<1>5. CASE DayPasses \/ FlushStarts \/ Exported \/ SentInVain
    BY <1>5 DEF DayPasses, FlushStarts, Exported, SentInVain, bookkeeping, Counted, NeverDied
<1>6. CASE Take
    <2>1. buf' = Taken(buf, Room) /\ (failed => failed') /\ Sound(buf) /\ Room \in Nat /\ running
        BY <1>6, TakeIs, RoomIs, SameHistory
    <2>2. deaths' = deaths
        BY <1>6 DEF Take
    <2> DEFINE n == Room
    <2> HIDE DEF n
    <2>3. Clean(buf) => Clean(buf') /\ (Undercounts(buf) => Undercounts(buf')) /\ (Counts(buf) => Counts(buf'))
        BY <2>1, TakenCounts DEF n
    <2>4. Vacant(buf, Active) => Vacant(buf', Active)
        BY <2>1, TakenLines, ActiveIs DEF n
    <2> QED BY <2>1, <2>2, <2>3, <2>4 DEF Counted, NeverDied
<1>7. CASE TakeDies
    <2>1. PICK k \in 1..Popped(buf, Room) :
             /\ k \in 0..Len(buf.queue)
             /\ DiesWith(Consumed(buf, k))
             /\ Consumed(buf, k) \in Buffer
             /\ \A p \in Path \ Consumed(buf, k).files : Consumed(buf, k).line[p] = <<>>
        BY <1>7, TakeDiesIs
    <2>2. failed' = failed
        BY <1>7, TakeDiesIs
    <2>3. Clean(buf) => Clean(Consumed(buf, k))
        BY <2>1, SameHistory, ConsumedClean
    <2> QED BY <2>1, <2>2, <2>3, CountedDead DEF Counted
<1>8. CASE ExportFails
    <2>1. failed => failed'
        BY <1>8, RestoredAgain
    <2>2. deaths' = deaths
        BY <1>8 DEF ExportFails
    <2>3. ~failed => Clean(buf') /\ Undercounts(buf')
                     /\ (NeverDied => Counts(buf') /\ Vacant(buf', Active))
        BY <1>8, RestoreCounts
    <2> QED BY <2>1, <2>2, <2>3 DEF Counted, NeverDied
<1>9. CASE RestoreDies
    <2>1. PICK name \in Path : NameFor("restore", name) /\ DiesWith(RestoreWritten(buf, hand, name))
        BY <1>9 DEF RestoreDies
    <2> DEFINE b == RestoreWritten(buf, hand, name)
    <2>2. Sound(buf) /\ hand \in Seq(Event)
        BY SameHistory DEF Shape, TelemetryTypeOK
    <2>3. name \notin buf.files
        BY <2>1, NameIs
    <2>4. Sound(b)
        BY <2>2, <2>3, RestoreWrittenIs
    <2>5. \A p \in Path : b.line[p] = IF p = name THEN hand ELSE buf.line[p]
        BY <2>2, <2>3, RestoreWrittenIs
    <2>6. DiesWith(b) /\ failed' = failed
        BY <1>9, <2>1 DEF RestoreDies
    <2> HIDE DEF b
    <2>7. \A j \in 1..Len(hand) : hand[j] \in Event
        BY <2>2
    <2>8. Clean(buf) => Clean(b)
        BY <2>5, <2>7 DEF Clean
    <2>9. b \in Buffer /\ \A p \in Path \ b.files : b.line[p] = <<>>
        BY <2>4 DEF Sound
    <2> QED BY <2>6, <2>8, <2>9, CountedDead DEF Counted
<1>10. CASE Dies
    <2>1. DiesWith(buf) /\ failed' = failed
        BY <1>10 DEF Dies
    <2> QED BY <2>1, SameHistory, CountedDead DEF Counted
<1>11. CASE Starts
    <2>1. /\ deaths # 0 /\ deaths' = deaths /\ (failed => failed')
          /\ Sound(buf')
        BY <1>11, StartsIs DEF Shape
    <2>2. saved \in Seq(Entry) /\ Distinct(saved) /\ buf' = Loaded(buf, saved)
        BY <1>11, StartsIs DEF Shape, TelemetryTypeOK
    <2>3. buf'.line = buf.line
        BY <2>2, SameHistory, LoadedIs
    <2>4. buf'.pending = Cardinality(Unread(buf'))
        BY <2>2, SameHistory, LoadedIs
    <2>5. buf' \in Buffer /\ Distinct(buf'.queue)
        BY <2>1 DEF Sound
    <2>6. Undercounts(buf')
        BY <2>4, <2>5, CountsIs
    <2>7. Clean(buf) => Clean(buf')
        BY <2>3 DEF Clean
    <2> QED BY <2>1, <2>6, <2>7 DEF Counted, NeverDied
<1> QED BY <1>1, <1>2, <1>3, <1>4, <1>5, <1>6, <1>7, <1>8, <1>9, <1>10, <1>11 DEF Next

LEMMA CountedAlways == Spec => [](Shape /\ Counted)
<1>1. Init => Shape /\ Counted
    BY ShapeInit, CountedInit
<1>2. Shape /\ Counted /\ [Next]_vars => (Shape /\ Counted)'
    BY ShapeNext, CountedNext
<1> QED BY <1>1, <1>2, PTL DEF Spec

(* The count that paces the exporter and max_events is the number of lines *)
(* in the queue, or smaller once the process has been started again.       *)
THEOREM CountIsRight == Spec => []PendingIsRight
<1>1. Shape /\ Counted => PendingIsRight
    <2> SUFFICES ASSUME Shape, Counted, running, ~failed
                 PROVE  /\ buf.pending <= Cardinality(Unread(buf))
                        /\ NeverDied => buf.pending = Cardinality(Unread(buf))
        BY DEF PendingIsRight
    <2>1. buf \in Buffer /\ Distinct(buf.queue)
        BY DEF Shape, Sound
    <2> QED BY <2>1, CountsIs DEF Counted
<1> QED BY <1>1, CountedAlways, PTL

-----------------------------------------------------------------------------
(* The lines on the disk, in the queue or not.                             *)
DiskLines(b) == UNION {{p} \X DOMAIN b.line[p] : p \in b.files}
Within(b) == IsFiniteSet(DiskLines(b)) /\ Cardinality(DiskLines(b)) <= MaxTotal

LEMMA DiskLinesAre ==
    ASSUME NEW b \in Buffer
    PROVE  \A z : z \in DiskLines(b) <=>
              \E p \in b.files : \E j \in 1..Len(b.line[p]) : z = <<p, j>>
<1>1. \A p \in b.files : b.line[p] \in Seq(Line)
    BY DEF Buffer
<1>2. \A p \in b.files : DOMAIN b.line[p] = 1..Len(b.line[p])
    BY <1>1
<1> QED BY <1>2 DEF DiskLines

LEMMA FewerWithin ==
    ASSUME NEW b, Sound(b), Within(b), NEW d, Sound(d),
           \A p \in Path : d.line[p] = b.line[p] \/ d.line[p] = <<>>
    PROVE  Within(d)
<1>1. b \in Buffer /\ d \in Buffer /\ d.files \subseteq Path /\ b.files \subseteq Path
    BY DEF Sound, Buffer
<1>2. DiskLines(d) \subseteq DiskLines(b)
    <2> SUFFICES ASSUME NEW z \in DiskLines(d) PROVE z \in DiskLines(b)
        OBVIOUS
    <2>1. PICK p \in d.files : \E j \in 1..Len(d.line[p]) : z = <<p, j>>
        BY <1>1, DiskLinesAre
    <2>2. d.line[p] # <<>>
        BY <2>1
    <2>3. d.line[p] = b.line[p] /\ p \in b.files
        BY <1>1, <2>1, <2>2 DEF Sound
    <2> QED BY <1>1, <2>1, <2>3, DiskLinesAre
<1>3. /\ IsFiniteSet(DiskLines(d)) /\ Cardinality(DiskLines(d)) <= Cardinality(DiskLines(b))
    BY <1>2, FS_Subset DEF Within
<1>4. Cardinality(DiskLines(d)) \in Nat /\ Cardinality(DiskLines(b)) \in Nat
    BY <1>3, FS_CardinalityType DEF Within
<1> QED BY <1>3, <1>4, BufferAssumption DEF Within

(* The lines behind the first k files of the queue. *)
Behind(b, k) == UNION {{i} \X DOMAIN b.line[b.queue[i].path] : i \in (k + 1)..Len(b.queue)}

LEMMA BehindIs ==
    ASSUME NEW b \in Buffer, NEW k \in 0..Len(b.queue)
    PROVE  /\ \A i \in (k + 1)..Len(b.queue) : \A j \in 1..Len(b.line[b.queue[i].path]) :
                 <<i, j>> \in Behind(b, k)
           /\ IsFiniteSet(Behind(b, k))
           /\ Cardinality(Behind(b, k)) = TotalLines(b, k)
<1> DEFINE D == (k + 1)..Len(b.queue)
           of(i) == {i} \X DOMAIN b.line[b.queue[i].path]
           parts == {of(i) : i \in D}
<1>1. Len(b.queue) \in Nat /\ k \in Nat /\ D \subseteq DOMAIN b.queue
    BY EntryIs
<1>2. \A i \in D : b.line[b.queue[i].path] \in Seq(Line)
    BY <1>1, EntryIs
<1>3. \A i \in D : DOMAIN b.line[b.queue[i].path] = 1..Len(b.line[b.queue[i].path])
                   /\ Len(b.line[b.queue[i].path]) \in Nat
    <2> TAKE i \in D
    <2> DEFINE s == b.line[b.queue[i].path]
    <2>1. s \in Seq(Line)
        BY <1>2
    <2> HIDE DEF s, D
    <2>2. DOMAIN s = 1..Len(s) /\ Len(s) \in Nat
        BY <2>1
    <2> QED BY <2>2 DEF s
<1>4. Behind(b, k) = UNION parts
    BY DEF Behind
<1>5. \A i \in D : \A j \in 1..Len(b.line[b.queue[i].path]) : <<i, j>> \in Behind(b, k)
    BY <1>3, <1>4
<1>6. IsFiniteSet(parts)
    <2> DEFINE f == [i \in D |-> of(i)]
    <2>1. f \in Surjection(D, parts)
        <3> HIDE DEF of, D
        <3> QED BY DEF Surjection
    <2>2. IsFiniteSet(D)
        <3>1. k + 1 \in Int /\ Len(b.queue) \in Int
            BY <1>1
        <3> QED BY <3>1, FS_Interval
    <2> HIDE DEF f, parts, D
    <2> QED BY <2>1, <2>2, FS_Surjection
<1>7. \A T \in parts : IsFiniteSet(T)
    <2> SUFFICES ASSUME NEW i \in D PROVE IsFiniteSet(of(i))
        OBVIOUS
    <2>1. IsFiniteSet({i})
        BY FS_Singleton
    <2>2. IsFiniteSet(DOMAIN b.line[b.queue[i].path])
        <3> DEFINE n == Len(b.line[b.queue[i].path])
        <3>1. n \in Int /\ 1 \in Int /\ DOMAIN b.line[b.queue[i].path] = 1..n
            BY <1>3
        <3> HIDE DEF n
        <3>2. IsFiniteSet(1..n)
            BY <3>1, FS_Interval
        <3> QED BY <3>1, <3>2
    <2> QED BY <2>1, <2>2, FS_Product
<1>8. IsFiniteSet(Behind(b, k))
    <2> HIDE DEF parts
    <2> QED BY <1>4, <1>6, <1>7, FS_UNION
<1>9. TotalLines(b, k) = Cardinality(Behind(b, k))
    BY DEF TotalLines, Behind
<1> HIDE DEF of, parts
<1> QED BY <1>5, <1>8, <1>9

(* When every file with lines is in the queue, dropping the first files    *)
(* leaves the lines behind them.                                           *)
LEMMA DroppedWithin ==
    ASSUME NEW b, Sound(b), \A p \in Path : Vacant(b, p),
           NEW k \in 0..Len(b.queue), TotalLines(b, k) <= MaxTotal
    PROVE  Within(Drop(b, FirstPaths(b, k)))
<1> DEFINE S == FirstPaths(b, k)
           d == Drop(b, S)
           W == Behind(b, k)
           at(w) == <<b.queue[w[1]].path, w[2]>>
           T == {at(w) : w \in W}
           f == [w \in W |-> at(w)]
<1>1. b \in Buffer /\ Len(b.queue) \in Nat /\ k \in Nat
    BY EntryIs DEF Sound
<1>2. /\ d \in Buffer
      /\ d.files = b.files \ S
      /\ \A p \in Path : d.line[p] = IF p \in S THEN <<>> ELSE b.line[p]
    BY <1>1, DropIs
<1>3. d.files \subseteq Path /\ b.files \subseteq Path
    BY <1>1, <1>2 DEF Buffer
<1>4. IsFiniteSet(W) /\ Cardinality(W) <= MaxTotal
    BY <1>1, BehindIs
<1>5. DOMAIN b.queue = 1..Len(b.queue)
    BY <1>1, EntryIs
<1>6. f \in Surjection(W, T)
    <2>1. f \in [W -> T] /\ \A t \in T : \E w \in W : f[w] = t
        OBVIOUS
    <2> HIDE DEF f, T, W
    <2> QED BY <2>1 DEF Surjection
<1> HIDE DEF d, f
<1>7. DiskLines(d) \subseteq T
    <2> SUFFICES ASSUME NEW z \in DiskLines(d) PROVE z \in T
        OBVIOUS
    <2>1. PICK p \in d.files : \E j \in 1..Len(d.line[p]) : z = <<p, j>>
        BY <1>2, DiskLinesAre
    <2>2. PICK j \in 1..Len(d.line[p]) : z = <<p, j>>
        BY <2>1
    <2>3. p \in Path /\ p \notin S /\ d.line[p] = b.line[p]
        BY <1>2, <1>3, <2>1
    <2>4. Listed(b, p)
        BY <2>2, <2>3 DEF Vacant
    <2>5. PICK i \in DOMAIN b.queue : b.queue[i].path = p
        BY <2>4 DEF Listed
    <2>6. i \notin 1..k
        BY <2>3, <2>5 DEF FirstPaths
    <2>7. i \in (k + 1)..Len(b.queue)
        BY <1>1, <1>5, <2>5, <2>6
    <2>8. j \in 1..Len(b.line[b.queue[i].path])
        BY <2>2, <2>3, <2>5
    <2>9. <<i, j>> \in W
        BY <1>1, <2>7, <2>8, BehindIs
    <2>10. at(<<i, j>>) = z
        BY <2>2, <2>5
    <2> HIDE DEF at, W
    <2> QED BY <2>9, <2>10
<1> HIDE DEF T, W
<1>8. IsFiniteSet(T) /\ Cardinality(T) <= Cardinality(W)
    BY <1>4, <1>6, FS_Surjection
<1>9. IsFiniteSet(DiskLines(d)) /\ Cardinality(DiskLines(d)) <= Cardinality(T)
    BY <1>7, <1>8, FS_Subset
<1>10. Cardinality(T) \in Nat /\ Cardinality(W) \in Nat /\ Cardinality(DiskLines(d)) \in Nat /\ MaxTotal \in Nat
    BY <1>4, <1>8, <1>9, FS_CardinalityType, BufferAssumption
<1>11. Within(d)
    BY <1>4, <1>8, <1>9, <1>10 DEF Within
<1> QED BY <1>11 DEF d

LEMMA PrunedWithin ==
    ASSUME NEW b, Sound(b), \A p \in Path : Vacant(b, p), NEW old
    PROVE  Within(Pruned(b, old)) /\ \A p \in Path : Vacant(Pruned(b, old), p)
<1> DEFINE c == DropStale(b, old \ {Active})
           d == DropBytes(c)
<1>1. Keeping(b, c)
    BY StaleKeeps
<1>2. Sound(c)
    BY <1>1 DEF Keeping
<1> HIDE DEF c
<1>3. \A p \in Path : Vacant(c, p)
    BY <1>1, KeptClean
<1>4. c \in Buffer
    BY <1>2 DEF Sound
<1>5. \E k \in 0..Len(c.queue) : TotalLines(c, k) <= MaxTotal /\ d = Drop(c, FirstPaths(c, k))
    BY <1>4, BytesFit
<1>6. Keeping(c, d)
    BY <1>2, BytesKeeps
<1>7. Sound(d)
    BY <1>6 DEF Keeping
<1> HIDE DEF d
<1>8. Within(d)
    BY <1>2, <1>3, <1>5, DroppedWithin
<1>9. Keeping(b, Pruned(b, old))
    BY PrunedKeeps
<1>10. \A p \in Path : Vacant(Pruned(b, old), p)
    BY <1>9, KeptClean
<1>11. d \in Buffer
    BY <1>7 DEF Sound
<1>12. \A p \in Path : DropCount(d).line[p] = d.line[p] \/ DropCount(d).line[p] = <<>>
    <2>1. CASE DropCount(d) = d
        BY <2>1
    <2>2. CASE \E k \in 0..Len(d.queue) : DropCount(d) = Drop(d, FirstPaths(d, k))
        BY <1>11, <2>2, DropIs
    <2> QED BY <1>11, <2>1, <2>2, CountFits
<1>13. Pruned(b, old) = DropCount(d)
    BY DEF Pruned, c, d
<1>14. Sound(DropCount(d))
    BY <1>9, <1>13 DEF Keeping
<1>15. Within(DropCount(d))
    BY <1>7, <1>8, <1>12, <1>14, FewerWithin
<1> QED BY <1>10, <1>13, <1>15

(* Until the process ends or a write fails, where files can be removed     *)
(* while they are open, every file with lines is in the queue and their    *)
(* lines are within the limit.                                             *)
Bounded ==
    NeverDied /\ ~failed /\ RemovesOpenFile =>
        /\ \A p \in Path : Vacant(buf, p)
        /\ Within(buf)

LEMMA BoundedInit == Init => Bounded
<1> SUFFICES ASSUME Init PROVE Bounded
    OBVIOUS
<1>1. Sound(buf) /\ buf.files = {}
    BY EmptyIs DEF Init
<1>2. \A p \in Path : buf.line[p] = <<>>
    BY <1>1 DEF Sound
<1>3. \A p \in Path : Vacant(buf, p)
    BY <1>2 DEF Vacant
<1>4. DiskLines(buf) = {}
    BY <1>1 DEF DiskLines
<1>5. Within(buf)
    BY <1>4, FS_EmptySet, BufferAssumption DEF Within
<1> QED BY <1>3, <1>5 DEF Bounded

LEMMA PutWithin ==
    ASSUME Shape, Counted, Put, ~failed, \A p \in Path : Vacant(buf, p)
    PROVE  (\A p \in Path : Vacant(buf', p)) /\ Within(buf')
<1> DEFINE e == made'
           a == Appended(buf, e)
<1>1. Sound(buf) /\ e \in Event /\ Clean(buf)
    BY SameHistory, PutIs, ProducedIs DEF Counted
<1>2. PICK name \in Path : /\ RotationName(a, name)
                           /\ buf' = Pruned(Rotated(a, name), stale)
    BY DEF Put, PutOf, Keeps
<1> DEFINE g == Rotated(a, name)
<1>3. Sound(a)
    BY <1>1, AppendedIs
<1>4. a.files = buf.files \cup {Active}
    BY <1>1, AppendedIs
<1>5. \A p \in Path : Vacant(a, p)
    BY <1>1, AppendedClean
<1>6. Sound(g)
    BY <1>2, <1>3, <1>4, GrownIs
<1> HIDE DEF a
<1>7. \A p \in Path : Vacant(g, p)
    <2>1. CASE MustRotate(a)
        <3>1. NameFor("rotated", name)
            BY <1>2, <2>1 DEF RotationName
        <3>2. name \notin a.files
            BY <1>4, <3>1, NameIs
        <3> QED BY <1>3, <1>5, <2>1, <3>2, ActiveIs, RotatedClean
    <2>2. CASE ~MustRotate(a)
        BY <1>5, <2>2 DEF Rotated
    <2> QED BY <2>1, <2>2
<1> HIDE DEF g
<1> QED BY <1>2, <1>6, <1>7, PrunedWithin DEF g

LEMMA RestoreWithin ==
    ASSUME Shape, ExportFails, \A p \in Path : Vacant(buf, p)
    PROVE  (\A p \in Path : Vacant(buf', p)) /\ Within(buf')
<1>1. Sound(buf) /\ hand \in Seq(Event)
    BY SameHistory DEF Shape, TelemetryTypeOK
<1>2. PICK name \in Path : /\ NameFor("restore", name)
                           /\ buf' = Pruned(Restored(buf, hand, name), stale)
    BY DEF ExportFails, Keeps
<1> DEFINE r == Restored(buf, hand, name)
<1>3. name \notin buf.files
    BY <1>2, NameIs
<1>4. Sound(r)
    BY <1>1, <1>3, RestoredIs
<1>5. \A p \in Path : Vacant(r, p)
    BY <1>1, <1>3, RestoredClean
<1> HIDE DEF r
<1> QED BY <1>2, <1>4, <1>5, PrunedWithin DEF r

LEMMA BoundedNext == Shape /\ Counted /\ Bounded /\ [Next]_vars => Bounded'
<1> SUFFICES ASSUME Shape, Counted, Bounded, [Next]_vars PROVE Bounded'
    OBVIOUS
<1>0. failed \in BOOLEAN /\ deaths \in Nat /\ Sound(buf)
    BY SameHistory DEF Shape, TelemetryTypeOK
<1>1. CASE UNCHANGED vars
    BY <1>1 DEF vars, bookkeeping, Bounded, NeverDied
<1>2. CASE Put
    <2>1. (failed => failed') /\ deaths' = deaths
        BY <1>2, PutIs
    <2> QED BY <1>2, <2>1, PutWithin DEF Bounded, NeverDied
<1>3. CASE PutFails \/ RestoreFails
    BY <1>3 DEF PutFails, RestoreFails, WriteFails, Bounded
<1>4. CASE PutDies \/ PutTears \/ TakeDies \/ RestoreDies \/ Dies
    <2>1. \E b : DiesWith(b)
        BY <1>4 DEF PutDies, PutTears, TakeDies, RestoreDies, Dies
    <2>2. deaths' = deaths + 1
        BY <2>1 DEF DiesWith
    <2> QED BY <1>0, <2>2 DEF Bounded, NeverDied
<1>5. CASE DayPasses \/ FlushStarts \/ Exported \/ SentInVain
    BY <1>5 DEF DayPasses, FlushStarts, Exported, SentInVain, bookkeeping, Bounded, NeverDied
<1>6. CASE Take
    <2>1. buf' = Taken(buf, Room) /\ (failed => failed') /\ Sound(buf') /\ Room \in Nat
        BY <1>6, TakeIs, RoomIs
    <2>2. deaths' = deaths
        BY <1>6 DEF Take
    <2> DEFINE n == Room
    <2> HIDE DEF n
    <2>3. \A p \in Path : buf'.line[p] = buf.line[p] \/ buf'.line[p] = <<>>
        BY <1>0, <2>1, TakenLines DEF n
    <2>4. \A p \in Path : RemovesOpenFile /\ Vacant(buf, p) => Vacant(buf', p)
        BY <1>0, <2>1, TakenLines DEF n
    <2>5. Within(buf) => Within(buf')
        BY <1>0, <2>1, <2>3, FewerWithin
    <2> QED BY <2>1, <2>2, <2>4, <2>5 DEF Bounded, NeverDied
<1>7. CASE ExportFails
    <2>1. (failed => failed') /\ deaths' = deaths
        BY <1>7, RestoredAgain DEF ExportFails
    <2> QED BY <1>7, <2>1, RestoreWithin DEF Bounded, NeverDied
<1>8. CASE Starts
    BY <1>8, StartsIs DEF Bounded, NeverDied, Shape
<1> QED BY <1>1, <1>2, <1>3, <1>4, <1>5, <1>6, <1>7, <1>8 DEF Next

(* The lines on the disk, read and unread, stay within max_total_bytes:    *)
(* what retention leaves behind when it stops is all there is, because no  *)
(* line is in a file outside the queue.                                    *)
THEOREM DiskStaysBounded == Spec => []DiskIsBounded
<1>1. Bounded => DiskIsBounded
    BY DEF Bounded, Within, DiskLines, DiskIsBounded
<1>2. Init => Shape /\ Counted /\ Bounded
    BY ShapeInit, CountedInit, BoundedInit
<1>3. (Shape /\ Counted /\ Bounded) /\ [Next]_vars => (Shape /\ Counted /\ Bounded)'
    BY ShapeNext, CountedNext, BoundedNext
<1> QED BY <1>1, <1>2, <1>3, PTL DEF Spec

-----------------------------------------------------------------------------
(* The order in which files are read, and what the state file says of it.  *)
(* Behind a file that is not read to its end nothing has been read, but    *)
(* for a batch of n lines that was put back in front of everything.  The   *)
(* active file is the last.                                                *)
LastActive(s) == \A k, l \in DOMAIN s : s[k].path = Active => l <= k
Done(b, x) == x.off = Len(b.line[x.path])
InOrder(b, s, n) ==
    \A i, l \in DOMAIN s :
        i < l /\ s[i].path \in b.files /\ s[l].path \in b.files /\ s[l].off > 0 =>
            \/ Done(b, s[i])
            \/ i = 1 /\ s[1].off = 0 /\ Len(b.line[s[1].path]) = n

(* Without a batch in front it is in order with one of any size. *)
LEMMA MoreInOrder ==
    ASSUME NEW b, NEW s, InOrder(b, s, 0), NEW n
    PROVE  InOrder(b, s, n)
BY DEF InOrder, Done

(* The lines of the last file do not matter. *)
LEMMA InOrderSame ==
    ASSUME NEW b, NEW s \in Seq(Entry), NEW n, InOrder(b, s, n), LastActive(s), NEW d,
           \A k \in DOMAIN s : s[k].path \in d.files =>
               /\ s[k].path \in b.files
               /\ s[k].path # Active => d.line[s[k].path] = b.line[s[k].path]
    PROVE  InOrder(d, s, n)
<1> SUFFICES ASSUME NEW i \in DOMAIN s, NEW l \in DOMAIN s,
                    i < l, s[i].path \in d.files, s[l].path \in d.files, s[l].off > 0
             PROVE  \/ Done(d, s[i])
                    \/ i = 1 /\ s[1].off = 0 /\ Len(d.line[s[1].path]) = n
    BY DEF InOrder
<1>1. i \in Nat /\ l \in Nat
    OBVIOUS
<1>2. s[i].path # Active
    BY <1>1 DEF LastActive
<1>3. d.line[s[i].path] = b.line[s[i].path]
    BY <1>2
<1>4. \/ Done(b, s[i])
      \/ i = 1 /\ s[1].off = 0 /\ Len(b.line[s[1].path]) = n
    BY DEF InOrder
<1> QED BY <1>3, <1>4 DEF Done

LEMMA EntryOf ==
    ASSUME NEW s \in Seq(Entry), NEW k \in DOMAIN s
    PROVE  s[k] \in Entry /\ s[k].path \in Path /\ s[k].off \in Nat
<1>1. s[k] \in Entry
    OBVIOUS
<1> QED BY <1>1 DEF Entry

(* t has some entries of s, in their order, of files that in d are as they *)
(* were; an offset beyond the end may start again.                         *)
Thins(b, s, d, t) ==
    \E m \in Nat :
        /\ DOMAIN t = 1..m
        /\ \E o \in [1..m -> DOMAIN s] :
              /\ \A i, j \in 1..m : i < j => o[i] < o[j]
              /\ \A i \in 1..m :
                    /\ t[i].path = s[o[i]].path
                    /\ \/ t[i].off = s[o[i]].off
                       \/ t[i].off = 0 /\ s[o[i]].off > Len(b.line[s[o[i]].path])
        /\ \A i \in 1..m : t[i].path \in d.files =>
               t[i].path \in b.files /\ d.line[t[i].path] = b.line[t[i].path]

LEMMA ThinnedInOrder ==
    ASSUME NEW b \in Buffer, NEW s \in Seq(Entry), NEW n, InOrder(b, s, n), LastActive(s),
           NEW d, NEW t, Thins(b, s, d, t)
    PROVE  LastActive(t) /\ InOrder(d, t, n)
<1>0. PICK m \in Nat :
         /\ DOMAIN t = 1..m
         /\ \E o \in [1..m -> DOMAIN s] :
               /\ \A i, j \in 1..m : i < j => o[i] < o[j]
               /\ \A i \in 1..m :
                     /\ t[i].path = s[o[i]].path
                     /\ \/ t[i].off = s[o[i]].off
                        \/ t[i].off = 0 /\ s[o[i]].off > Len(b.line[s[o[i]].path])
         /\ \A i \in 1..m : t[i].path \in d.files =>
                t[i].path \in b.files /\ d.line[t[i].path] = b.line[t[i].path]
    BY DEF Thins
<1>01. PICK o \in [1..m -> DOMAIN s] :
          /\ \A i, j \in 1..m : i < j => o[i] < o[j]
          /\ \A i \in 1..m :
                /\ t[i].path = s[o[i]].path
                /\ \/ t[i].off = s[o[i]].off
                   \/ t[i].off = 0 /\ s[o[i]].off > Len(b.line[s[o[i]].path])
    BY <1>0
<1>1. \A i \in 1..m : o[i] \in DOMAIN s /\ o[i] \in Nat /\ 1 <= o[i]
    OBVIOUS
<1>2. LastActive(t)
    <2> SUFFICES ASSUME NEW k \in 1..m, NEW l \in 1..m, t[k].path = Active PROVE l <= k
        BY <1>0 DEF LastActive
    <2>1. o[l] <= o[k]
        BY <1>0, <1>01, <1>1 DEF LastActive
    <2>2. o[k] \in Nat /\ o[l] \in Nat /\ ~(o[k] < o[l])
        BY <1>1, <2>1
    <2>3. ~(k < l)
        BY <1>01, <2>2
    <2> QED BY <2>3
<1>3. ASSUME NEW i \in 1..m, NEW l \in 1..m, i < l,
             t[i].path \in d.files, t[l].path \in d.files, t[l].off > 0
      PROVE  \/ Done(d, t[i])
             \/ i = 1 /\ t[1].off = 0 /\ Len(d.line[t[1].path]) = n
    <2>1. o[i] < o[l] /\ o[i] \in DOMAIN s /\ o[l] \in DOMAIN s
        BY <1>01, <1>1, <1>3
    <2>2. s[o[l]].path \in b.files /\ s[o[i]].path \in b.files /\ s[o[l]].off > 0
        <3>1. t[l].off = s[o[l]].off
            BY <1>01, <1>3
        <3> QED BY <1>0, <1>01, <1>3, <3>1
    <2>3. \/ Done(b, s[o[i]])
          \/ o[i] = 1 /\ s[1].off = 0 /\ Len(b.line[s[1].path]) = n
        BY <2>1, <2>2 DEF InOrder
    <2>4. t[i].path = s[o[i]].path /\ d.line[t[i].path] = b.line[s[o[i]].path]
        BY <1>0, <1>01, <1>3
    <2>5. s[o[i]] \in Entry /\ s[o[i]].path \in Path /\ s[o[i]].off \in Nat
        BY <2>1, EntryOf
    <2>6. Len(b.line[s[o[i]].path]) \in Nat
        BY <2>5 DEF Buffer
    <2>7. CASE Done(b, s[o[i]])
        <3>1. t[i].off = s[o[i]].off
            BY <1>01, <2>5, <2>6, <2>7 DEF Done
        <3> QED BY <2>4, <2>7, <3>1 DEF Done
    <2>8. CASE o[i] = 1 /\ s[1].off = 0 /\ Len(b.line[s[1].path]) = n
        <3>1. i = 1
            <4>1. ~(1 < i)
                BY <1>01, <1>1, <2>8
            <4> QED BY <4>1
        <3>2. t[1].off = 0
            BY <1>01, <2>8, <3>1
        <3> QED BY <2>4, <2>8, <3>1, <3>2
    <2> QED BY <2>3, <2>7, <2>8
<1> QED BY <1>0, <1>2, <1>3 DEF InOrder

LEMMA DroppedInOrder ==
    ASSUME NEW b \in Buffer, NEW n, InOrder(b, b.queue, n), LastActive(b.queue), NEW S
    PROVE  LET d == Drop(b, S) IN LastActive(d.queue) /\ InOrder(d, d.queue, n)
<1> DEFINE d == Drop(b, S)
           K == Outside(b, S)
           m == Cardinality(K)
           o == Rising(K)
           t == d.queue
<1>1. /\ d \in Buffer
      /\ d.files = b.files \ S
      /\ d.queue = Picked(b.queue, K)
      /\ \A p \in Path : d.line[p] = IF p \in S THEN <<>> ELSE b.line[p]
    BY DropIs
<1>2. b.queue \in Seq(Entry) /\ K \subseteq DOMAIN b.queue
    BY DEF Outside, Buffer
<1> HIDE DEF d, K, o
<1>3. m \in Nat /\ o \in [1..m -> K]
    BY <1>2, PickedIs DEF o
<1>4. \A i, j \in 1..m : i < j => o[i] < o[j]
    BY <1>2, PickedIs DEF o
<1>5. \A i \in 1..m : t[i] = b.queue[o[i]]
    BY <1>1, <1>2, PickedIs DEF o
<1>6. t \in Seq(Entry) /\ Len(t) = m
    BY <1>1, <1>2, PickedIs DEF o
<1> HIDE DEF m
<1>7. DOMAIN t = 1..m
    BY <1>6
<1>8. o \in [1..m -> DOMAIN b.queue]
    BY <1>2, <1>3
<1>9. \A i \in 1..m : t[i] \in Entry /\ t[i].path \in Path
    BY <1>6, <1>7, EntryOf
<1>10. \A i \in 1..m : t[i].path \in d.files => t[i].path \in b.files /\ d.line[t[i].path] = b.line[t[i].path]
    BY <1>1, <1>9
<1>11. \A i \in 1..m : t[i].path = b.queue[o[i]].path /\ t[i].off = b.queue[o[i]].off
    BY <1>5
<1> HIDE DEF t
<1>12. LastActive(t) /\ InOrder(d, t, n)
    <2>1. Thins(b, b.queue, d, t)
        BY <1>3, <1>4, <1>7, <1>8, <1>10, <1>11 DEF Thins
    <2> QED BY <1>2, <2>1, ThinnedInOrder
<1> QED BY <1>12 DEF d, t

LEMMA PrunedInOrder ==
    ASSUME NEW b, Sound(b), NEW n, InOrder(b, b.queue, n), LastActive(b.queue), NEW old
    PROVE  LET d == Pruned(b, old) IN LastActive(d.queue) /\ InOrder(d, d.queue, n)
<1> DEFINE c == DropStale(b, old \ {Active})
           d == DropBytes(c)
<1>1. b \in Buffer
    BY DEF Sound
<1>2. Sound(c)
    BY StaleKeeps DEF Keeping
<1>3. c \in Buffer
    BY <1>2 DEF Sound
<1>4. LastActive(c.queue) /\ InOrder(c, c.queue, n)
    BY <1>1, DroppedInOrder DEF DropStale
<1> HIDE DEF c
<1>5. \E k \in 0..Len(c.queue) : d = Drop(c, FirstPaths(c, k))
    BY <1>3, BytesFit
<1>6. LastActive(d.queue) /\ InOrder(d, d.queue, n)
    BY <1>3, <1>4, <1>5, DroppedInOrder
<1>7. Sound(d)
    BY <1>2, BytesKeeps DEF Keeping
<1>8. d \in Buffer
    BY <1>7 DEF Sound
<1> HIDE DEF d
<1> DEFINE f == DropCount(d)
<1>9. f = d \/ \E k \in 0..Len(d.queue) : f = Drop(d, FirstPaths(d, k))
    BY <1>8, CountFits
<1>10. LastActive(f.queue) /\ InOrder(f, f.queue, n)
    BY <1>6, <1>8, <1>9, DroppedInOrder
<1>11. Pruned(b, old) = f
    BY DEF Pruned, c, d
<1> QED BY <1>10, <1>11

LEMMA AppendedInOrder ==
    ASSUME NEW b, Sound(b), NEW e \in Event, NEW n, InOrder(b, b.queue, n), LastActive(b.queue)
    PROVE  LET a == Appended(b, e)
           IN  /\ LastActive(a.queue) /\ InOrder(a, a.queue, n)
               /\ InOrder(a, b.queue, n)
<1> DEFINE a == Appended(b, e)
           s == b.queue
           t == a.queue
<1>1. b \in Buffer /\ e \in Line /\ Active \in Path
    BY ActiveIs DEF Sound, Line
<1>2. a.files = b.files \cup {Active}
    BY AppendedIs
<1>3. a.line = Written(b, e).line
    BY AppendedIs
<1>4. t = IF Listed(b, Active) THEN s ELSE Append(s, NewEntry)
    BY AppendedIs
<1>5. \A p \in Path : p # Active => a.line[p] = b.line[p]
    BY <1>1, <1>3, WrittenIs
<1>6. s \in Seq(Entry)
    BY <1>1 DEF Buffer
<1>7. \A k \in DOMAIN s : s[k] \in Entry /\ s[k].path \in Path /\ s[k].path \in b.files
    BY <1>1, EntryIs DEF Sound, Entries, Buffer
<1> HIDE DEF a, t
<1>8. InOrder(a, s, n)
    BY <1>5, <1>6, <1>7, InOrderSame
<1>9. CASE Listed(b, Active)
    BY <1>4, <1>8, <1>9 DEF a, t
<1>10. CASE ~Listed(b, Active)
    <2>1. t = Append(s, NewEntry) /\ NewEntry \in Entry /\ NewEntry.off = 0
        BY <1>1, <1>4, <1>10 DEF NewEntry, Entry
    <2>2. Len(s) \in Nat /\ DOMAIN s = 1..Len(s)
        BY <1>6
    <2>3. DOMAIN t = 1..(Len(s) + 1)
        BY <1>6, <2>1
    <2>4. \A k \in 1..Len(s) : t[k] = s[k]
        BY <1>6, <2>1
    <2>5. t[Len(s) + 1] = NewEntry
        BY <1>6, <2>1
    <2>6. \A k \in 1..Len(s) : s[k].path # Active
        BY <1>10, <2>2 DEF Listed
    <2>7. LastActive(t)
        BY <2>2, <2>3, <2>4, <2>6 DEF LastActive
    <2>8. InOrder(a, t, n)
        <3> SUFFICES ASSUME NEW i \in 1..(Len(s) + 1), NEW l \in 1..(Len(s) + 1), i < l,
                            t[i].path \in a.files, t[l].path \in a.files, t[l].off > 0
                     PROVE  \/ Done(a, t[i])
                            \/ i = 1 /\ t[1].off = 0 /\ Len(a.line[t[1].path]) = n
            BY <2>3 DEF InOrder
        <3>1. l # Len(s) + 1
            BY <2>1, <2>5
        <3>2. i \in 1..Len(s) /\ l \in 1..Len(s) /\ 1 \in 1..Len(s)
            BY <2>2, <3>1
        <3>3. t[i] = s[i] /\ t[l] = s[l] /\ t[1] = s[1]
            BY <2>4, <3>2
        <3>4. i \in DOMAIN s /\ l \in DOMAIN s
            BY <2>2, <3>2
        <3> QED BY <1>8, <3>3, <3>4 DEF InOrder
    <2> QED BY <1>8, <2>7, <2>8 DEF a, t
<1> QED BY <1>9, <1>10

LEMMA RotatedInOrder ==
    ASSUME NEW b, Sound(b), NEW name \in Path, name \notin b.files, MustRotate(b),
           NEW n, InOrder(b, b.queue, n), LastActive(b.queue)
    PROVE  LET r == Rotated(b, name)
           IN  LastActive(r.queue) /\ InOrder(r, r.queue, n)
<1> DEFINE r == Rotated(b, name)
           s == b.queue
           t == r.queue
<1>1. b \in Buffer /\ Active \in Path /\ Active \in b.files /\ name # Active
    BY ActiveIs DEF Sound, MustRotate
<1>2. \A p \in Path : r.line[p] = IF p = Active THEN <<>> ELSE IF p = name THEN b.line[Active] ELSE b.line[p]
    BY RotatedIs
<1>3. DOMAIN t = DOMAIN s
    BY RotatedIs
<1>4. \A k \in DOMAIN s : t[k] = Renamed(s[k], name)
    BY RotatedIs
<1>5. s \in Seq(Entry) /\ DOMAIN s = 1..Len(s)
    BY <1>1 DEF Buffer
<1>6. \A k \in DOMAIN s : s[k] \in Entry /\ s[k].path \in Path /\ s[k].path \in b.files
    BY <1>1, EntryIs DEF Sound, Entries, Buffer
<1> HIDE DEF r, t
<1>7. \A k \in DOMAIN s : t[k].off = s[k].off /\ t[k].path = IF s[k].path = Active THEN name ELSE s[k].path
    BY <1>4, <1>6 DEF Renamed, Entry
<1>8. \A k \in DOMAIN s : r.line[t[k].path] = b.line[s[k].path]
    BY <1>1, <1>2, <1>6, <1>7
<1>9. LastActive(t)
    BY <1>1, <1>3, <1>7 DEF LastActive
<1>10. InOrder(r, t, n)
    <2> SUFFICES ASSUME NEW i \in DOMAIN s, NEW l \in DOMAIN s, i < l, t[l].off > 0
                 PROVE  \/ Done(r, t[i])
                        \/ i = 1 /\ t[1].off = 0 /\ Len(r.line[t[1].path]) = n
        BY <1>3 DEF InOrder
    <2>1. \/ Done(b, s[i])
          \/ i = 1 /\ s[1].off = 0 /\ Len(b.line[s[1].path]) = n
        BY <1>6, <1>7 DEF InOrder
    <2> QED BY <1>7, <1>8, <2>1 DEF Done
<1> QED BY <1>9, <1>10 DEF r, t

(* A batch goes back in front when everything before an offset is read; it *)
(* is of full size, or nothing is read at all.                             *)
LEMMA RestoredInOrder ==
    ASSUME NEW b, Sound(b), NEW batch \in Seq(Event), NEW name \in Path, name \notin b.files,
           name # Active, InOrder(b, b.queue, 0), LastActive(b.queue),
           NEW n, Len(batch) = n \/ \A x \in Entries(b) : x.off = 0
    PROVE  LET r == Restored(b, batch, name)
           IN  LastActive(r.queue) /\ InOrder(r, r.queue, n)
<1> DEFINE r == Restored(b, batch, name)
           s == b.queue
           t == r.queue
<1>1. b \in Buffer
    BY DEF Sound
<1>2. s \in Seq(Entry) /\ DOMAIN s = 1..Len(s) /\ Len(s) \in Nat
    BY <1>1 DEF Buffer
<1>3. \A k \in DOMAIN s : s[k] \in Entries(b) /\ s[k].path \in Path /\ s[k].path \in b.files /\ s[k].off \in Nat
    BY <1>1, EntryIs DEF Sound
<1>4. Len(t) = Len(s) + 1
    BY RestoredIs
<1>5. t[1] = FrontEntry(name)
    BY RestoredIs
<1>6. \A k \in 1..Len(s) : t[k + 1] = s[k]
    BY RestoredIs
<1>7. \A p \in Path : r.line[p] = IF p = name THEN batch ELSE b.line[p]
    BY RestoredIs
<1>8. r \in Buffer
    BY RestoredIs DEF Sound
<1> HIDE DEF r
<1>9. t \in Seq(Entry)
    BY <1>8 DEF Buffer
<1>10. DOMAIN t = 1..(Len(s) + 1)
    <2> HIDE DEF t
    <2> QED BY <1>4, <1>9
<1> HIDE DEF t
<1>11. \A k \in 2..(Len(s) + 1) : k - 1 \in DOMAIN s /\ t[k] = s[k - 1]
    <2> TAKE k \in 2..(Len(s) + 1)
    <2> DEFINE m == k - 1
    <2>1. m \in 1..Len(s) /\ k = m + 1
        BY <1>2
    <2> HIDE DEF m
    <2>2. t[k] = s[m] /\ m \in DOMAIN s
        BY <1>2, <1>6, <2>1
    <2> QED BY <2>2 DEF m
<1>12. FrontEntry(name).path = name /\ FrontEntry(name).off = 0
    BY DEF FrontEntry
<1>13. LastActive(t)
    <2> SUFFICES ASSUME NEW k \in 1..(Len(s) + 1), NEW l \in 1..(Len(s) + 1), t[k].path = Active PROVE l <= k
        BY <1>10 DEF LastActive
    <2>1. k # 1
        BY <1>5, <1>12
    <2>2. k \in 2..(Len(s) + 1)
        BY <1>2, <2>1
    <2>3. CASE l = 1
        BY <1>2, <2>3
    <2>4. CASE l # 1
        <3>1. l \in 2..(Len(s) + 1)
            BY <1>2, <2>4
        <3>2. k - 1 \in DOMAIN s /\ l - 1 \in DOMAIN s /\ s[k - 1].path = Active
            BY <1>11, <2>2, <3>1
        <3>3. l - 1 <= k - 1
            BY <3>2 DEF LastActive
        <3> QED BY <1>2, <3>3
    <2> QED BY <2>3, <2>4
<1>14. InOrder(r, t, n)
    <2> SUFFICES ASSUME NEW i \in 1..(Len(s) + 1), NEW l \in 1..(Len(s) + 1), i < l, t[l].off > 0
                 PROVE  \/ Done(r, t[i])
                        \/ i = 1 /\ t[1].off = 0 /\ Len(r.line[t[1].path]) = n
        BY <1>10 DEF InOrder
    <2>1. l \in 2..(Len(s) + 1)
        BY <1>2
    <2>2. l - 1 \in DOMAIN s /\ t[l] = s[l - 1] /\ s[l - 1].off > 0
        BY <1>11, <2>1
    <2>3. s[l - 1].off # 0
        BY <1>3, <2>2
    <2>4. Len(batch) = n
        BY <1>3, <2>2, <2>3
    <2>5. CASE i = 1
        <3>1. t[1].off = 0 /\ t[1].path = name
            BY <1>5, <1>12
        <3>2. r.line[name] = batch
            BY <1>7
        <3> QED BY <2>4, <2>5, <3>1, <3>2
    <2>6. CASE i # 1
        <3>1. i \in 2..(Len(s) + 1)
            BY <1>2, <2>6
        <3>2. i - 1 \in DOMAIN s /\ t[i] = s[i - 1] /\ i - 1 < l - 1
            BY <1>2, <1>11, <3>1
        <3> DEFINE j == i - 1
                   m == l - 1
        <3>3. j \in DOMAIN s /\ m \in DOMAIN s /\ j < m /\ s[m].off > 0 /\ t[i] = s[j]
            BY <2>2, <3>2
        <3> HIDE DEF j, m
        <3>4. \/ Done(b, s[j])
              \/ j = 1 /\ s[1].off = 0 /\ Len(b.line[s[1].path]) = 0
            BY <1>3, <3>3 DEF InOrder
        <3>5. Done(b, s[j])
            BY <3>4 DEF Done
        <3>6. r.line[s[j].path] = b.line[s[j].path]
            BY <1>3, <1>7, <3>3
        <3> QED BY <3>3, <3>5, <3>6 DEF Done
    <2> QED BY <2>5, <2>6
<1> QED BY <1>13, <1>14 DEF r, t

(* A batch is full, or it is everything that waits. *)
LEMMA RoomUsed ==
    ASSUME NEW b \in Buffer, NEW n \in Nat
    PROVE  Cardinality(Read(b, n)) = n \/ Cardinality(Waiting(b)) < n
<1> DEFINE S == Waiting(b)
           R == Earlier(S)
           N == Cardinality(S)
           o == Ordered(S, R)
           rank(p) == Cardinality(Below(S, R, p))
<1>1. IsFiniteSet(S)
    BY WaitingIs
<1>2. Orders(R, S)
    BY EarlierOrders
<1>3. Read(b, n) = {p \in S : rank(p) < n}
    <2>1. \A p \in S : Below(S, R, p) = {q \in S : Before(q, p)}
        BY DEF Below, Earlier
    <2> QED BY <2>1 DEF Read
<1> HIDE DEF S, R, o
<1>4. N \in Nat /\ o \in [1..N -> S]
    BY <1>1, <1>2, OrderedIs DEF o
<1>5. \A x \in S : \E i \in 1..N : o[i] = x
    BY <1>1, <1>2, OrderedIs DEF o
<1>6. \A i \in 1..N : rank(o[i]) = i - 1
    BY <1>1, <1>2, OrderedIs DEF o
<1> HIDE DEF N, rank
<1>7. CASE n <= N
    <2> DEFINE f == [i \in 1..n |-> o[i]]
               T == Read(b, n)
    <2>1. \A i \in 1..n : i \in 1..N /\ o[i] \in T
        <3> TAKE i \in 1..n
        <3>1. i \in 1..N
            BY <1>4, <1>7
        <3>2. o[i] \in S /\ rank(o[i]) = i - 1
            BY <1>4, <1>6, <3>1
        <3>3. rank(o[i]) < n
            BY <3>2
        <3> QED BY <1>3, <3>1, <3>2, <3>3
    <2>2. \A x \in T : \E i \in 1..n : o[i] = x
        <3> TAKE x \in T
        <3>1. x \in S /\ rank(x) < n
            BY <1>3
        <3>2. PICK i \in 1..N : o[i] = x
            BY <1>5, <3>1
        <3>3. i - 1 < n
            BY <1>6, <3>1, <3>2
        <3>4. i \in 1..n
            BY <1>4, <3>2, <3>3
        <3> QED BY <3>2, <3>4
    <2>3. \A i, j \in 1..n : o[i] = o[j] => i = j
        <3> SUFFICES ASSUME NEW i \in 1..n, NEW j \in 1..n, o[i] = o[j] PROVE i = j
            OBVIOUS
        <3>1. i - 1 = j - 1
            BY <1>6, <2>1
        <3> QED BY <3>1
    <2>4. f \in [1..n -> T] /\ \A i \in 1..n : f[i] = o[i]
        BY <2>1
    <2> HIDE DEF f, T
    <2>5. f \in Surjection(1..n, T)
        BY <2>2, <2>4 DEF Surjection
    <2>6. f \in Injection(1..n, T)
        BY <2>3, <2>4 DEF Injection, IsInjective
    <2>7. IsFiniteSet(1..n) /\ Cardinality(1..n) = n
        <3>1. 1 \in Int /\ n \in Int
            OBVIOUS
        <3> QED BY <3>1, FS_Interval
    <2>8. Cardinality(T) = n
        BY <2>5, <2>6, <2>7, FS_Surjection
    <2> QED BY <2>8 DEF T
<1>8. CASE N < n
    BY <1>8 DEF N, S
<1> QED BY <1>4, <1>7, <1>8

(* A batch that is not full has read every file to its end. *)
LEMMA ShortBatch ==
    ASSUME NEW b \in Buffer, NEW n \in Nat
    PROVE  Len(Batch(b, n)) = n \/ Popped(b, n) = Len(b.queue)
<1>1. Len(Batch(b, n)) = Cardinality(Read(b, n))
    BY BatchIs
<1>2. CASE Cardinality(Waiting(b)) < n
    <2>1. IsFiniteSet(Waiting(b))
        BY WaitingIs
    <2> DEFINE U(k) == {p \in Waiting(b) : p[1] <= k}
               D == DOMAIN b.queue
    <2>2. \A k \in D : Cardinality(U(k)) < n
        <3> TAKE k \in D
        <3>1. U(k) \subseteq Waiting(b)
            OBVIOUS
        <3> DEFINE V == U(k)
        <3> HIDE DEF U
        <3>2. IsFiniteSet(V) /\ Cardinality(V) <= Cardinality(Waiting(b))
            BY <2>1, <3>1, FS_Subset
        <3>3. Cardinality(V) \in Nat /\ Cardinality(Waiting(b)) \in Nat
            BY <2>1, <3>2, FS_CardinalityType
        <3> QED BY <1>2, <3>2, <3>3
    <2>3. {k \in D : Cardinality(U(k)) < n} = D
        BY <2>2
    <2>4. Popped(b, n) = Cardinality(D)
        BY <2>3 DEF Popped
    <2>5. Len(b.queue) \in Nat /\ D = 1..Len(b.queue)
        BY EntryIs
    <2> DEFINE L == Len(b.queue)
    <2>6. L \in Nat /\ D = 1..L
        BY <2>5
    <2> HIDE DEF L, D
    <2>7. Cardinality(1..L) = L
        <3>1. 1 \in Int /\ L \in Int
            BY <2>6
        <3> QED BY <2>6, <3>1, FS_Interval
    <2> QED BY <2>4, <2>6, <2>7 DEF L
<1>3. CASE Cardinality(Read(b, n)) = n
    BY <1>1, <1>3
<1> QED BY <1>2, <1>3, RoomUsed

(* A file with exactly n lines, all events and none of them read, gives    *)
(* the whole next batch.                                                   *)
LEMMA FullFront ==
    ASSUME NEW b, Sound(b), Clean(b), NEW n \in Nat \ {0}, 1 \in DOMAIN b.queue,
           b.queue[1].off = 0, Len(b.line[b.queue[1].path]) = n
    PROVE  Popped(b, n) = 0 /\ Offset(b, n, 1) = n
<1> DEFINE p == b.queue[1].path
           P == {<<1, j>> : j \in 1..n}
<1>1. b \in Buffer /\ p \in Path
    BY EntryIs DEF Sound
<1>2. \A j \in 1..n : <<1, j>> \in Waiting(b)
    <2> TAKE j \in 1..n
    <2>1. b.line[p][j] \in Event
        BY <1>1 DEF Clean
    <2> QED BY <1>1, <2>1, WaitingIs
<1>3. \A q \in Waiting(b) : q = <<q[1], q[2]>> /\ q[1] \in Nat /\ q[2] \in Nat /\ 1 <= q[1]
                            /\ (q[1] = 1 => 1 <= q[2] /\ q[2] <= n)
    <2> TAKE q \in Waiting(b)
    <2>1. /\ q = <<q[1], q[2]>> /\ q[1] \in Nat /\ q[2] \in Nat /\ q[1] \in DOMAIN b.queue
          /\ b.queue[q[1]].off < q[2] /\ q[2] <= Len(b.line[b.queue[q[1]].path])
        BY <1>1, WaitingIs
    <2>2. 1 <= q[1]
        BY <1>1, <2>1, EntryIs
    <2>3. q[1] = 1 => 1 <= q[2] /\ q[2] <= n
        BY <2>1
    <2> QED BY <2>1, <2>2, <2>3
<1> DEFINE f == [j \in 1..n |-> <<1, j>>]
<1>4. \A m \in 0..n : IsFiniteSet({<<1, j>> : j \in 1..m}) /\ Cardinality({<<1, j>> : j \in 1..m}) = m
    <2> TAKE m \in 0..n
    <2> DEFINE I == 1..m
               O == {1}
    <2>1. {<<1, j>> : j \in 1..m} = O \X I
        OBVIOUS
    <2>2. IsFiniteSet(I) /\ Cardinality(I) = m
        <3>1. 1 \in Int /\ m \in Int /\ m \in Nat
            OBVIOUS
        <3> QED BY <3>1, FS_Interval
    <2>3. IsFiniteSet(O) /\ Cardinality(O) = 1
        BY FS_Singleton
    <2> HIDE DEF I, O
    <2>4. IsFiniteSet(O \X I) /\ Cardinality(O \X I) = 1 * m
        BY <2>2, <2>3, FS_Product
    <2>5. 1 * m = m
        OBVIOUS
    <2> QED BY <2>1, <2>4, <2>5
<1>5. IsFiniteSet(Waiting(b))
    BY <1>1, WaitingIs
<1>6. Popped(b, n) = 0
    <2> DEFINE K == {k \in DOMAIN b.queue : Cardinality({q \in Waiting(b) : q[1] <= k}) < n}
    <2>1. \A k \in DOMAIN b.queue : k \notin K
        <3> SUFFICES ASSUME NEW k \in DOMAIN b.queue
                     PROVE  ~(Cardinality({q \in Waiting(b) : q[1] <= k}) < n)
            OBVIOUS
        <3> DEFINE V == {q \in Waiting(b) : q[1] <= k}
                   F == {<<1, j>> : j \in 1..n}
        <3>1. k \in Nat /\ 1 <= k
            BY <1>1, EntryIs
        <3>2. F \subseteq V
            BY <1>2, <3>1
        <3>3. V \subseteq Waiting(b)
            OBVIOUS
        <3>40. n \in 0..n
            OBVIOUS
        <3>4. Cardinality(F) = n
            BY <1>4, <3>40
        <3> HIDE DEF V, F
        <3>5. IsFiniteSet(V)
            BY <1>5, <3>3, FS_Subset
        <3>6. Cardinality(F) <= Cardinality(V) /\ Cardinality(V) \in Nat
            BY <3>2, <3>5, FS_Subset, FS_CardinalityType
        <3>7. ~(Cardinality(V) < n)
            BY <3>4, <3>6
        <3> QED BY <3>7 DEF V
    <2>2. K = {}
        BY <2>1
    <2>3. Popped(b, n) = Cardinality(K)
        BY DEF Popped
    <2> QED BY <2>2, <2>3, FS_EmptySet
<1>7. <<1, n>> \in Read(b, n)
    <2> DEFINE w == <<1, n>>
               A == {q \in Waiting(b) : Before(q, w)}
               m == n - 1
               F == {<<1, j>> : j \in 1..m}
    <2>1. w \in Waiting(b) /\ w[1] = 1 /\ w[2] = n
        BY <1>2
    <2>2. A \subseteq F
        <3> SUFFICES ASSUME NEW q \in Waiting(b), Before(q, w) PROVE q \in F
            OBVIOUS
        <3>1. q = <<q[1], q[2]>> /\ q[1] \in Nat /\ q[2] \in Nat /\ 1 <= q[1]
              /\ (q[1] = 1 => 1 <= q[2] /\ q[2] <= n)
            BY <1>3
        <3>2. q[1] < 1 \/ (q[1] = 1 /\ q[2] < n)
            BY <2>1 DEF Before
        <3>3. q[1] = 1 /\ q[2] \in 1..m
            BY <3>1, <3>2
        <3> QED BY <3>1, <3>3
    <2>3. m \in 0..n
        OBVIOUS
    <2>4. IsFiniteSet(F) /\ Cardinality(F) = m
        BY <1>4, <2>3
    <2> HIDE DEF A, F, w
    <2>5. IsFiniteSet(A) /\ Cardinality(A) <= Cardinality(F)
        BY <2>2, <2>4, FS_Subset
    <2>6. Cardinality(A) \in Nat
        BY <2>5, FS_CardinalityType
    <2>7. Cardinality(A) < n
        BY <2>4, <2>5, <2>6
    <2> QED BY <2>1, <2>7 DEF Read, A, w
<1>8. Offset(b, n, 1) = n
    <2>1. Offset(b, n, 1) \in Nat /\ Offset(b, n, 1) <= n
        BY OffsetIs
    <2>2. \A q \in Waiting(b) : q[1] = 1 => (q \in Read(b, n) <=> q[2] <= Offset(b, n, 1))
        BY OffsetIs
    <2>3. <<1, n>> \in Waiting(b)
        BY <1>2
    <2>4. n <= Offset(b, n, 1)
        BY <1>7, <2>2, <2>3
    <2> QED BY <2>1, <2>4
<1> QED BY <1>6, <1>8

LEMMA TakenInOrder ==
    ASSUME NEW b, Sound(b), Clean(b), NEW n \in Nat \ {0},
           InOrder(b, b.queue, n), LastActive(b.queue)
    PROVE  LET t == Taken(b, n)
           IN  /\ LastActive(t.queue) /\ InOrder(t, t.queue, 0)
               /\ Len(Batch(b, n)) = n \/ Entries(t) = {}
<1> DEFINE t == Taken(b, n)
           s == b.queue
           u == t.queue
           c == Popped(b, n)
<1>1. b \in Buffer /\ n \in Nat
    BY DEF Sound
<1>2. c \in 0..Len(s)
    BY <1>1, PoppedIs
<1>3. Len(s) \in Nat /\ DOMAIN s = 1..Len(s)
    BY <1>1, EntryIs
<1>4. DOMAIN u = 1..(Len(s) - c)
    BY <1>1, TakenPlaces
<1>5. \A k \in 1..(Len(s) - c) :
         /\ c + k \in DOMAIN s /\ u[k].path = s[c + k].path
         /\ u[k].off = IF k = 1 THEN Offset(b, n, c + 1) ELSE s[c + k].off
    BY <1>1, TakenQueue
<1>6. \A k \in DOMAIN u : t.line[u[k].path] = b.line[u[k].path]
    BY <1>1, TakenIs
<1>7. \A k \in DOMAIN s : /\ s[k].path \in Path /\ s[k].path \in b.files /\ s[k].off \in Nat
                          /\ Len(b.line[s[k].path]) \in Nat
    BY <1>1, EntryIs DEF Sound
<1>8. \A k \in DOMAIN s : /\ Offset(b, n, k) \in Nat /\ s[k].off <= Offset(b, n, k)
                          /\ Offset(b, n, k) <= Len(b.line[s[k].path])
    <2> TAKE k \in DOMAIN s
    <2>1. Offset(b, n, k) \in Nat
        BY <1>1, OffsetIs
    <2>2. s[k].off <= Offset(b, n, k)
        BY <1>1, OffsetIs
    <2>3. Offset(b, n, k) <= Len(b.line[s[k].path])
        BY <1>1, OffsetIs
    <2> QED BY <2>1, <2>2, <2>3
<1>9. 1 \in DOMAIN s /\ s[1].off = 0 /\ Len(b.line[s[1].path]) = n => c = 0 /\ Offset(b, n, 1) = n
    BY FullFront
<1>10. Len(Batch(b, n)) = n \/ Entries(t) = {}
    <2> SUFFICES ASSUME Len(Batch(b, n)) # n PROVE Entries(t) = {}
        OBVIOUS
    <2>1. c = Len(s)
        BY <1>1, ShortBatch
    <2>2. \A k : k \notin 1..(Len(s) - c)
        BY <1>3, <2>1
    <2>3. DOMAIN u = {}
        BY <1>4, <2>2
    <2> QED BY <2>3 DEF Entries
<1> HIDE DEF t, u, c
<1>11. LastActive(u)
    <2> SUFFICES ASSUME NEW k \in 1..(Len(s) - c), NEW l \in 1..(Len(s) - c), u[k].path = Active PROVE l <= k
        BY <1>4 DEF LastActive
    <2>1. c + k \in DOMAIN s /\ c + l \in DOMAIN s /\ s[c + k].path = Active
        BY <1>5
    <2>2. c + l <= c + k
        BY <2>1 DEF LastActive
    <2> QED BY <1>2, <1>3, <2>2
<1>12. InOrder(t, u, 0)
    <2> SUFFICES ASSUME NEW i \in 1..(Len(s) - c), NEW l \in 1..(Len(s) - c), i < l, u[l].off > 0
                 PROVE  Done(t, u[i])
        BY <1>4 DEF InOrder
    <2> DEFINE I == c + i
               L == c + l
    <2>1. I \in DOMAIN s /\ L \in DOMAIN s /\ I < L /\ l # 1
        BY <1>2, <1>3, <1>5
    <2>2. s[L].off > 0
        BY <1>5, <2>1
    <2>3. u[i].path = s[I].path /\ u[i].off = IF i = 1 THEN Offset(b, n, c + 1) ELSE s[I].off
        BY <1>5
    <2>4. i = 1 => I = c + 1
        OBVIOUS
    <2>5. I = 1 => c = 0 /\ i = 1
        BY <1>2, <1>3
    <2>6. t.line[u[i].path] = b.line[s[I].path]
        BY <1>4, <1>6, <2>3
    <2> HIDE DEF I, L
    <2>7. \/ Done(b, s[I])
          \/ I = 1 /\ s[1].off = 0 /\ Len(b.line[s[1].path]) = n
        BY <1>7, <2>1, <2>2 DEF InOrder
    <2>8. CASE Done(b, s[I])
        <3>1. s[I].off = Len(b.line[s[I].path])
            BY <2>8 DEF Done
        <3>2. Offset(b, n, I) = s[I].off
            BY <1>7, <1>8, <2>1, <3>1
        <3>3. u[i].off = s[I].off
            BY <2>3, <2>4, <3>2
        <3> QED BY <2>6, <3>1, <3>3 DEF Done
    <2>9. CASE I = 1 /\ s[1].off = 0 /\ Len(b.line[s[1].path]) = n
        <3>1. c = 0 /\ Offset(b, n, 1) = n /\ i = 1
            BY <1>9, <2>1, <2>5, <2>9
        <3>2. u[i].off = n
            BY <2>3, <3>1
        <3> QED BY <2>6, <2>9, <3>2 DEF Done
    <2> QED BY <2>7, <2>8, <2>9
<1> QED BY <1>10, <1>11, <1>12 DEF t, u

(* A start keeps the order: of the state file, or of the names. *)
LEMMA StillThereThins ==
    ASSUME NEW b \in Buffer, NEW s \in Seq(Entry)
    PROVE  Thins(b, s, b, StillThere(b, s))
<1> DEFINE K == {k \in DOMAIN s : s[k].path \in b.files}
           m == Cardinality(K)
           o == Rising(K)
           kept == Picked(s, K)
           t == StillThere(b, s)
<1>1. K \subseteq DOMAIN s
    OBVIOUS
<1>2. t = [k \in DOMAIN kept |->
              IF kept[k].off > Len(b.line[kept[k].path]) THEN [kept[k] EXCEPT !.off = 0]
              ELSE kept[k]]
    BY DEF StillThere
<1>3. \A k \in K : s[k].path \in b.files
    OBVIOUS
<1> HIDE DEF K, o, kept, t
<1>4. m \in Nat /\ o \in [1..m -> K]
    BY <1>1, PickedIs DEF o
<1>5. \A i, j \in 1..m : i < j => o[i] < o[j]
    BY <1>1, PickedIs DEF o
<1>6. \A i \in 1..m : kept[i] = s[o[i]]
    BY <1>1, PickedIs DEF o, kept
<1>7. kept \in Seq(Entry) /\ Len(kept) = m
    BY <1>1, PickedIs DEF kept
<1> HIDE DEF m
<1>8. DOMAIN kept = 1..m
    BY <1>7
<1>9. \A i \in 1..m : o[i] \in DOMAIN s /\ o[i] \in K
    BY <1>1, <1>4
<1>10. ASSUME NEW i \in 1..m
       PROVE  /\ t[i].path = s[o[i]].path
              /\ \/ t[i].off = s[o[i]].off
                 \/ t[i].off = 0 /\ s[o[i]].off > Len(b.line[s[o[i]].path])
    <2>1. kept[i] = s[o[i]] /\ s[o[i]] \in Entry
        BY <1>6, <1>9, EntryOf
    <2>2. t[i] = IF kept[i].off > Len(b.line[kept[i].path]) THEN [kept[i] EXCEPT !.off = 0] ELSE kept[i]
        BY <1>2, <1>8
    <2>3. [s[o[i]] EXCEPT !.off = 0].path = s[o[i]].path /\ [s[o[i]] EXCEPT !.off = 0].off = 0
        BY <2>1 DEF Entry
    <2> QED BY <2>1, <2>2, <2>3
<1>11. DOMAIN t = 1..m
    BY <1>2, <1>8
<1>12. o \in [1..m -> DOMAIN s]
    BY <1>1, <1>4
<1> QED BY <1>4, <1>5, <1>10, <1>11, <1>12 DEF Thins, t

LEMMA DiscoveredOrder ==
    ASSUME NEW b \in Buffer, NEW n
    PROVE  LastActive(Discovered(b)) /\ InOrder(b, Discovered(b), n)
<1> DEFINE F == b.files
           R == {pq \in F \X F : NameBefore(pq[1], pq[2])}
           N == Cardinality(F)
           o == Ordered(F, R)
           t == Discovered(b)
<1>1. F \subseteq Path
    BY DEF Buffer
<1>2. IsFiniteSet(F)
    BY <1>1, PathIs, FS_Subset
<1>3. Orders(R, F)
    BY <1>1, NamesOrder
<1>4. t = [k \in DOMAIN o |-> [path |-> o[k], off |-> 0]]
    BY DEF Discovered
<1>5. \A p, q \in F : <<p, q>> \in R => NameBefore(p, q)
    OBVIOUS
<1> HIDE DEF R, F, t
<1>6. N \in Nat /\ o \in [1..N -> F]
    BY <1>2, <1>3, OrderedIs
<1>7. \A i, j \in 1..N : i < j => <<o[i], o[j]>> \in R
    BY <1>2, <1>3, OrderedIs
<1> HIDE DEF N, o
<1>8. DOMAIN t = 1..N /\ \A k \in 1..N : t[k].path = o[k] /\ t[k].off = 0 /\ o[k] \in F
    BY <1>4, <1>6
<1>9. LastActive(t)
    <2> SUFFICES ASSUME NEW k \in 1..N, NEW l \in 1..N, t[k].path = Active, k < l PROVE FALSE
        BY <1>6, <1>8 DEF LastActive
    <2>1. NameBefore(o[k], o[l]) /\ o[k] = Active /\ o[l] \in Path
        BY <1>1, <1>5, <1>7, <1>8
    <2>2. o[l].kind \in {"active", "rotated", "restore"} /\ (o[l].kind = "active" => o[l] = Active)
        BY <2>1, PathIs
    <2>3. Active.kind = "active" /\ Active.sec = 0 /\ Active.n = 0
        BY DEF Active
    <2> QED BY <2>1, <2>2, <2>3 DEF NameBefore
<1>10. InOrder(b, t, n)
    BY <1>8 DEF InOrder
<1> QED BY <1>9, <1>10 DEF t

LEMMA LoadedInOrder ==
    ASSUME NEW b \in Buffer, NEW s \in Seq(Entry), NEW n, InOrder(b, s, n), LastActive(s)
    PROVE  LET d == Loaded(b, s) IN LastActive(d.queue) /\ InOrder(d, d.queue, n)
<1> DEFINE d == Loaded(b, s)
           q == IF StillThere(b, s) # <<>> THEN StillThere(b, s) ELSE Discovered(b)
<1>1. d = [b EXCEPT !.queue = q, !.pending = Cardinality(Unread([b EXCEPT !.queue = q]))]
    BY DEF Loaded
<1> HIDE DEF d, q
<1>2. d.queue = q /\ d.files = b.files /\ d.line = b.line
    BY <1>1, BufferIs
<1>3. LastActive(q) /\ InOrder(b, q, n)
    <2>1. LastActive(StillThere(b, s)) /\ InOrder(b, StillThere(b, s), n)
        BY StillThereThins, ThinnedInOrder
    <2> QED BY <2>1, DiscoveredOrder DEF q
<1>4. InOrder(d, q, n)
    BY <1>2, <1>3 DEF InOrder, Done
<1> QED BY <1>2, <1>3, <1>4 DEF d

(* An event in a line of the active file that a start would read: no       *)
(* offset for it is as far, or one is beyond the end and starts again.     *)
Unseen(b, s, j, e) ==
    /\ Holds(b, Active, j, e)
    /\ \A k \in DOMAIN s : s[k].path = Active => s[k].off < j \/ s[k].off > Len(b.line[Active])

(* It has never been taken: it is nowhere else, nor in the batch h.        *)
Novel(b, s, h) ==
    \A e \in Event : \A j : Unseen(b, s, j, e) =>
        /\ e \notin Range(h)
        /\ \A p \in Path : \A i : Holds(b, p, i, e) => p = Active /\ i = j

(* With d and t there is no event more on the disk or to be read there.    *)
Dims(b, s, d, t) ==
    /\ \A p \in Path : \A i : \A e \in Event : Holds(d, p, i, e) => Holds(b, p, i, e)
    /\ \A j : \A e \in Event : Unseen(d, t, j, e) => Unseen(b, s, j, e)

LEMMA DimmedNovel ==
    ASSUME NEW b, NEW s, NEW h, Novel(b, s, h), NEW d, NEW t, Dims(b, s, d, t)
    PROVE  Novel(d, t, h)
BY DEF Novel, Dims

LEMMA EmptyNovel ==
    ASSUME NEW d, d.line[Active] = <<>>, NEW t, NEW h
    PROVE  Novel(d, t, h)
<1>1. \A j : j \notin 1..Len(d.line[Active])
    OBVIOUS
<1> QED BY <1>1 DEF Novel, Unseen, Holds

LEMMA FewerLinesDim ==
    ASSUME NEW b \in Buffer, NEW s \in Seq(Entry), NEW t \in Seq(Entry), NEW d,
           \A p \in Path : d.line[p] = b.line[p] \/ d.line[p] = <<>>,
           d.line[Active] # <<>> =>
               \A k \in DOMAIN s : s[k].path = Active =>
                   \/ s[k].off > Len(b.line[Active])
                   \/ \E l \in DOMAIN t : /\ t[l].path = Active /\ s[k].off <= t[l].off
                                          /\ t[l].off <= Len(b.line[Active])
    PROVE  Dims(b, s, d, t)
<1>1. \A i : i \notin 1..Len(<<>>)
    OBVIOUS
<1>2. \A p \in Path : \A i : \A e \in Event : Holds(d, p, i, e) => d.line[p] = b.line[p] /\ Holds(b, p, i, e)
    BY <1>1 DEF Holds
<1>3. Active \in Path
    BY ActiveIs
<1>4. ASSUME NEW j, NEW e \in Event, Unseen(d, t, j, e) PROVE Unseen(b, s, j, e)
    <2>1. Holds(d, Active, j, e)
        BY <1>4 DEF Unseen
    <2>2. d.line[Active] = b.line[Active] /\ Holds(b, Active, j, e)
        BY <1>2, <1>3, <2>1
    <2>3. j \in 1..Len(b.line[Active]) /\ d.line[Active] # <<>>
        <3>1. j \in 1..Len(d.line[Active])
            BY <2>1 DEF Holds
        <3> QED BY <1>1, <2>2, <3>1
    <2>4. Len(b.line[Active]) \in Nat
        BY <1>3 DEF Buffer
    <2>5. ASSUME NEW k \in DOMAIN s, s[k].path = Active
          PROVE  s[k].off < j \/ s[k].off > Len(b.line[Active])
        <3>1. CASE s[k].off > Len(b.line[Active])
            BY <3>1
        <3>2. CASE \E l \in DOMAIN t : /\ t[l].path = Active /\ s[k].off <= t[l].off
                                       /\ t[l].off <= Len(b.line[Active])
            <4>1. PICK l \in DOMAIN t : /\ t[l].path = Active /\ s[k].off <= t[l].off
                                        /\ t[l].off <= Len(b.line[Active])
                BY <3>2
            <4>2. t[l].off \in Nat /\ s[k].off \in Nat
                BY EntryOf
            <4>3. t[l].off < j \/ t[l].off > Len(b.line[Active])
                BY <1>4, <2>2, <4>1 DEF Unseen
            <4> QED BY <2>3, <2>4, <4>1, <4>2, <4>3
        <3> QED BY <2>3, <2>5, <3>1, <3>2
    <2> QED BY <2>2, <2>5 DEF Unseen
<1> QED BY <1>2, <1>4 DEF Dims

(* The same offsets, for fewer lines. *)
LEMMA SameOffsetsDim ==
    ASSUME NEW b \in Buffer, NEW s \in Seq(Entry), NEW d,
           \A p \in Path : d.line[p] = b.line[p] \/ d.line[p] = <<>>
    PROVE  Dims(b, s, d, s)
<1>1. \A k \in DOMAIN s : s[k].off \in Nat
    BY EntryOf
<1>2. Len(b.line[Active]) \in Nat
    BY ActiveIs DEF Buffer
<1>3. \A k \in DOMAIN s : s[k].path = Active =>
          \/ s[k].off > Len(b.line[Active])
          \/ \E l \in DOMAIN s : /\ s[l].path = Active /\ s[k].off <= s[l].off
                                 /\ s[l].off <= Len(b.line[Active])
    BY <1>1, <1>2
<1> QED BY <1>3, FewerLinesDim

LEMMA KeptLines ==
    ASSUME NEW b, Sound(b), NEW d, Keeping(b, d)
    PROVE  \A p \in Path : d.line[p] = b.line[p] \/ d.line[p] = <<>>
BY DEF Keeping, Sound

LEMMA KeptDim ==
    ASSUME NEW b, Sound(b), NEW d, Keeping(b, d)
    PROVE  Dims(b, b.queue, d, d.queue)
<1>1. b \in Buffer /\ d \in Buffer
    BY DEF Sound, Keeping
<1>2. b.queue \in Seq(Entry) /\ d.queue \in Seq(Entry)
    BY <1>1 DEF Buffer
<1>3. \A p \in Path : d.line[p] = b.line[p] \/ d.line[p] = <<>>
    BY KeptLines
<1>4. ASSUME d.line[Active] # <<>>, NEW k \in DOMAIN b.queue, b.queue[k].path = Active
      PROVE  \E l \in DOMAIN d.queue : /\ d.queue[l].path = Active
                                       /\ b.queue[k].off <= d.queue[l].off
                                       /\ d.queue[l].off <= Len(b.line[Active])
    <2>1. Active \in d.files
        BY <1>4, ActiveIs DEF Keeping, Sound
    <2>2. b.queue[k] \in Entries(b)
        BY <1>4 DEF Entries
    <2>3. b.queue[k] \in Entries(d)
        BY <1>4, <2>1, <2>2 DEF Keeping
    <2>4. PICK l \in DOMAIN d.queue : d.queue[l] = b.queue[k]
        BY <2>3 DEF Entries
    <2>5. b.queue[k].off <= Len(b.line[Active])
        BY <1>4, <2>2 DEF Sound
    <2>6. b.queue[k].off \in Nat
        BY <1>2, <1>4, EntryOf
    <2> QED BY <1>4, <2>4, <2>5, <2>6
<1> QED BY <1>1, <1>2, <1>3, <1>4, FewerLinesDim

LEMMA LoadedDim ==
    ASSUME NEW b \in Buffer, \A p \in Path \ b.files : b.line[p] = <<>>,
           NEW s \in Seq(Entry), Distinct(s)
    PROVE  Dims(b, s, Loaded(b, s), Loaded(b, s).queue)
<1> DEFINE d == Loaded(b, s)
<1>1. Sound(d) /\ d.files = b.files /\ d.line = b.line
    BY LoadedIs
<1>2. StillThere(b, s) = <<>> <=> \A i \in DOMAIN s : s[i].path \notin b.files
    BY LoadedIs
<1>3. StillThere(b, s) # <<>> =>
         \A x : x \in Entries(d) <=> \E i \in DOMAIN s : s[i].path \in b.files /\ x = Reset(b, s[i])
    BY LoadedIs
<1> HIDE DEF d
<1>4. d.queue \in Seq(Entry)
    BY <1>1 DEF Sound, Buffer
<1>5. ASSUME d.line[Active] # <<>>, NEW k \in DOMAIN s, s[k].path = Active
      PROVE  \/ s[k].off > Len(b.line[Active])
             \/ \E l \in DOMAIN d.queue : /\ d.queue[l].path = Active
                                          /\ s[k].off <= d.queue[l].off
                                          /\ d.queue[l].off <= Len(b.line[Active])
    <2> SUFFICES ASSUME ~(s[k].off > Len(b.line[Active]))
                 PROVE  \E l \in DOMAIN d.queue : /\ d.queue[l].path = Active
                                                  /\ s[k].off <= d.queue[l].off
                                                  /\ d.queue[l].off <= Len(b.line[Active])
        OBVIOUS
    <2>1. Active \in b.files
        BY <1>1, <1>5, ActiveIs
    <2>2. Reset(b, s[k]) = s[k]
        BY <1>5 DEF Reset
    <2>3. s[k] \in Entries(d)
        BY <1>2, <1>3, <1>5, <2>1, <2>2
    <2>4. PICK l \in DOMAIN d.queue : d.queue[l] = s[k]
        BY <2>3 DEF Entries
    <2>5. s[k].off \in Nat /\ Len(b.line[Active]) \in Nat
        BY EntryOf, ActiveIs DEF Buffer
    <2> QED BY <1>5, <2>4, <2>5
<1>6. \A p \in Path : d.line[p] = b.line[p] \/ d.line[p] = <<>>
    BY <1>1
<1> QED BY <1>4, <1>5, <1>6, FewerLinesDim DEF d

LEMMA HeldIsOnDisk ==
    ASSUME NEW b, Sound(b), NEW p \in Path, NEW i, NEW e \in Event, Holds(b, p, i, e)
    PROVE  p \in b.files /\ i \in Nat /\ e \in EventsOnDisk(b)
<1>1. b \in Buffer /\ i \in Nat
    BY DEF Sound, Holds
<1>2. p \in b.files
    <2> SUFFICES ASSUME p \notin b.files PROVE FALSE
        OBVIOUS
    <2>1. b.line[p] = <<>>
        BY DEF Sound
    <2>2. i \in 1..0
        BY <2>1 DEF Holds
    <2> QED BY <2>2
<1> QED BY <1>1, <1>2, OnDiskIs

LEMMA AppendedNovel ==
    ASSUME NEW b, Sound(b), Clean(b), NEW e \in Event, e \notin EventsOnDisk(b),
           NEW h, e \notin Range(h), Novel(b, b.queue, h)
    PROVE  LET a == Appended(b, e)
           IN  Novel(a, a.queue, h) /\ Novel(a, b.queue, h)
<1> DEFINE a == Appended(b, e)
           s == b.queue
           N == Len(b.line[Active])
<1>1. b \in Buffer /\ e \in Line /\ Active \in Path
    BY ActiveIs DEF Sound, Line
<1>2. a.line = Written(b, e).line
    BY AppendedIs
<1>3. a.queue = IF Listed(b, Active) THEN s ELSE Append(s, NewEntry)
    BY AppendedIs
<1>4. Len(a.line[Active]) = N + 1
    <2>1. \A j \in 1..N : b.line[Active][j] # Torn
        BY <1>1, LinesAre DEF Clean
    <2> QED BY <1>1, <1>2, <2>1, WrittenIs
<1>5. \A p \in Path : \A i : \A f \in Event : Holds(a, p, i, f) =>
          Holds(b, p, i, f) \/ (p = Active /\ f = e /\ i = N + 1)
    <2> TAKE p \in Path
    <2> TAKE i
    <2> TAKE f \in Event
    <2>1. Holds(a, p, i, f) <=> Holds(Written(b, e), p, i, f)
        BY <1>2 DEF Holds
    <2> QED BY <1>1, <2>1, WrittenHolds
<1> HIDE DEF a
<1>6. N \in Nat
    BY <1>1 DEF Buffer
<1>7. \A k \in DOMAIN s : /\ s[k].path = Active => Listed(b, Active) /\ s[k].off <= N
                          /\ s[k].off \in Nat
    <2> TAKE k \in DOMAIN s
    <2>1. s[k] \in Entries(b)
        BY DEF Entries
    <2> QED BY <1>1, <2>1, EntryIs DEF Sound, Listed
<1>8. ASSUME NEW t, t = a.queue \/ t = s, NEW f \in Event, NEW j, Unseen(a, t, j, f)
      PROVE  f \notin Range(h) /\ \A p \in Path : \A i : Holds(a, p, i, f) => p = Active /\ i = j
    <2>1. Holds(a, Active, j, f)
        BY <1>8 DEF Unseen
    <2>2. CASE Holds(b, Active, j, f)
        <3>1. \A k \in DOMAIN s : s[k].path = Active => s[k].off < j \/ s[k].off > N
            <4> SUFFICES ASSUME NEW k \in DOMAIN s, s[k].path = Active PROVE s[k].off < j
                OBVIOUS
            <4>1. t = s
                BY <1>3, <1>7, <1>8
            <4>2. s[k].off < j \/ s[k].off > N + 1
                BY <1>4, <1>8, <4>1 DEF Unseen
            <4>3. s[k].off <= N /\ s[k].off \in Nat
                BY <1>7
            <4> QED BY <1>6, <4>2, <4>3
        <3>2. Unseen(b, s, j, f)
            BY <2>2, <3>1 DEF Unseen
        <3>3. f \in EventsOnDisk(b)
            BY <1>1, <2>2, HeldIsOnDisk
        <3>4. f # e
            BY <3>3
        <3>5. f \notin Range(h) /\ \A p \in Path : \A i : Holds(b, p, i, f) => p = Active /\ i = j
            BY <3>2 DEF Novel
        <3> QED BY <1>5, <3>4, <3>5
    <2>3. CASE ~Holds(b, Active, j, f)
        <3>1. f = e /\ j = N + 1
            BY <1>1, <1>5, <2>1, <2>3
        <3>2. \A p \in Path : \A i : ~Holds(b, p, i, e)
            BY HeldIsOnDisk
        <3> QED BY <1>5, <3>1, <3>2
    <2> QED BY <2>2, <2>3
<1>9. Novel(a, a.queue, h) /\ Novel(a, s, h)
    BY <1>8 DEF Novel
<1> QED BY <1>9 DEF a

LEMMA RestoredNovel ==
    ASSUME NEW b, Sound(b), NEW batch \in Seq(Event), NEW name \in Path, name \notin b.files,
           name # Active, Novel(b, b.queue, batch)
    PROVE  /\ Novel(RestoreWritten(b, batch, name), b.queue, <<>>)
           /\ Novel(Restored(b, batch, name), Restored(b, batch, name).queue, <<>>)
<1> DEFINE w == RestoreWritten(b, batch, name)
           r == Restored(b, batch, name)
           s == b.queue
<1>1. b \in Buffer /\ Active \in Path
    BY ActiveIs DEF Sound
<1>2. \A p \in Path : w.line[p] = IF p = name THEN batch ELSE b.line[p]
    BY RestoreWrittenIs
<1>3. \A p \in Path : r.line[p] = IF p = name THEN batch ELSE b.line[p]
    BY RestoredIs
<1>4. r \in Buffer
    BY RestoredIs DEF Sound
<1>5. Len(r.queue) = Len(s) + 1
    BY RestoredIs
<1>6. \A k \in 1..Len(s) : r.queue[k + 1] = s[k]
    BY RestoredIs
<1> HIDE DEF w, r
<1>7. Len(s) \in Nat /\ DOMAIN s = 1..Len(s)
    BY <1>1, EntryIs
<1>8. DOMAIN r.queue = 1..(Len(s) + 1)
    BY <1>4, <1>5, EntryIs
<1>9. \A k \in DOMAIN s : k + 1 \in DOMAIN r.queue /\ r.queue[k + 1] = s[k]
    BY <1>6, <1>7, <1>8
<1>10. \A i : i \notin DOMAIN <<>>
    OBVIOUS
<1>11. Range(<<>>) = {}
    BY EmptyHand
<1>12. ASSUME NEW d, d = w \/ d = r, NEW e \in Event, NEW j,
              \A p \in Path : d.line[p] = IF p = name THEN batch ELSE b.line[p],
              Unseen(b, s, j, e)
       PROVE  e \notin Range(<<>>) /\ \A p \in Path : \A i : Holds(d, p, i, e) => p = Active /\ i = j
    <2>1. e \notin Range(batch)
        BY <1>12 DEF Novel
    <2>2. \A i \in 1..Len(batch) : batch[i] # e
        BY <2>1 DEF Range
    <2>3. \A i : ~Holds(d, name, i, e)
        BY <1>12, <2>2 DEF Holds
    <2>4. \A p \in Path : \A i : Holds(d, p, i, e) => Holds(b, p, i, e)
        <3> SUFFICES ASSUME NEW p \in Path, NEW i, Holds(d, p, i, e) PROVE Holds(b, p, i, e)
            OBVIOUS
        <3>1. p # name
            BY <2>3
        <3> QED BY <1>12, <3>1 DEF Holds
    <2> QED BY <1>11, <1>12, <2>4 DEF Novel
<1>13. w.line[Active] = b.line[Active] /\ r.line[Active] = b.line[Active]
    BY <1>1, <1>2, <1>3
<1>14. \A j : \A e \in Event : Unseen(w, s, j, e) => Unseen(b, s, j, e)
    BY <1>13 DEF Unseen, Holds
<1>15. \A j : \A e \in Event : Unseen(r, r.queue, j, e) => Unseen(b, s, j, e)
    <2> SUFFICES ASSUME NEW j, NEW e \in Event, Unseen(r, r.queue, j, e) PROVE Unseen(b, s, j, e)
        OBVIOUS
    <2>1. Holds(b, Active, j, e)
        BY <1>13 DEF Unseen, Holds
    <2>2. ASSUME NEW k \in DOMAIN s, s[k].path = Active
          PROVE  s[k].off < j \/ s[k].off > Len(b.line[Active])
        <3> DEFINE l == k + 1
        <3>1. l \in DOMAIN r.queue /\ r.queue[l] = s[k]
            BY <1>9
        <3> HIDE DEF l
        <3> QED BY <1>13, <2>2, <3>1 DEF Unseen
    <2> QED BY <2>1, <2>2 DEF Unseen
<1>16. Novel(w, s, <<>>)
    BY <1>2, <1>12, <1>14 DEF Novel
<1>17. Novel(r, r.queue, <<>>)
    BY <1>3, <1>12, <1>15 DEF Novel
<1> QED BY <1>16, <1>17 DEF w, r

LEMMA TakenNovel ==
    ASSUME NEW b, Sound(b), NEW n \in Nat, NEW h, Novel(b, b.queue, h)
    PROVE  Novel(Taken(b, n), Taken(b, n).queue, Batch(b, n))
<1> DEFINE t == Taken(b, n)
           u == t.queue
           s == b.queue
           c == Popped(b, n)
<1>1. b \in Buffer /\ Active \in Path
    BY ActiveIs DEF Sound
<1>2. c \in 0..Len(s)
    BY <1>1, PoppedIs
<1>3. Len(s) \in Nat /\ DOMAIN s = 1..Len(s)
    BY <1>1, EntryIs
<1>4. DOMAIN u = 1..(Len(s) - c)
    BY TakenPlaces
<1>5. \A k \in 1..(Len(s) - c) :
         /\ c + k \in DOMAIN s /\ u[k].path = s[c + k].path
         /\ u[k].off = IF k = 1 THEN Offset(b, n, c + 1) ELSE s[c + k].off
    BY TakenQueue
<1>6. \A p \in Path : t.line[p] = IF p \in Emptied(b, c) THEN <<>> ELSE b.line[p]
    BY TakenLines
<1>7. t \in Buffer
    BY TakenQueue
<1>8. \A k \in DOMAIN s : /\ s[k].off \in Nat /\ s[k].path \in Path
                          /\ s[k].off <= Len(b.line[s[k].path])
    BY <1>1, EntryIs DEF Sound
<1>9. \A k \in DOMAIN s : s[k].off <= Offset(b, n, k) /\ Offset(b, n, k) \in Nat
    BY OffsetIs
<1>10. \A k \in DOMAIN s : Offset(b, n, k) <= Len(b.line[s[k].path])
    BY OffsetIs
<1>11. \A k \in DOMAIN s : k <= c /\ s[k].path = Active => t.line[Active] = <<>>
    <2> SUFFICES ASSUME NEW k \in DOMAIN s, k <= c, s[k].path = Active PROVE Active \in Emptied(b, c)
        BY <1>1, <1>6
    <2>1. k \in 1..c
        BY <1>2, <1>3
    <2> QED BY <2>1 DEF Emptied, FirstPaths
<1> HIDE DEF t, u, c
<1>12. u \in Seq(Entry) /\ s \in Seq(Entry)
    BY <1>1, <1>7 DEF Buffer, u
<1>13. ASSUME t.line[Active] # <<>>, NEW k \in DOMAIN s, s[k].path = Active
       PROVE  \E l \in DOMAIN u : /\ u[l].path = Active /\ s[k].off <= u[l].off
                                  /\ u[l].off <= Len(b.line[Active])
    <2>1. c < k
        BY <1>2, <1>3, <1>11, <1>13
    <2> DEFINE l == k - c
    <2>2. l \in 1..(Len(s) - c) /\ k = c + l /\ (l = 1 => c + 1 = k)
        BY <1>2, <1>3, <2>1
    <2> HIDE DEF l
    <2>3. u[l].path = Active /\ u[l].off = IF l = 1 THEN Offset(b, n, k) ELSE s[k].off
        BY <1>5, <1>13, <2>2
    <2>4. s[k].off <= u[l].off /\ u[l].off <= Len(b.line[Active])
        BY <1>8, <1>9, <1>10, <1>13, <2>3
    <2> QED BY <1>4, <2>2, <2>3, <2>4
<1>14. \A p \in Path : t.line[p] = b.line[p] \/ t.line[p] = <<>>
    BY <1>6
<1>15. Dims(b, s, t, u)
    BY <1>1, <1>12, <1>13, <1>14, FewerLinesDim
<1>16. Novel(t, u, h)
    BY <1>15, DimmedNovel
<1>17. ASSUME NEW e \in Event, NEW j, Unseen(t, u, j, e), e \in Range(Batch(b, n)) PROVE FALSE
    <2>1. PICK p \in Read(b, n) : LineAt(b, p) = e
        BY <1>1, <1>17, BatchEvents
    <2>2. p \in Waiting(b)
        BY <1>1, <2>1, ReadIs
    <2>3. /\ p[1] \in Nat /\ p[2] \in Nat /\ p[1] \in DOMAIN s
          /\ s[p[1]].off < p[2] /\ p[2] <= Len(b.line[s[p[1]].path])
        BY <1>1, <2>2, WaitingIs
    <2> DEFINE q == s[p[1]].path
    <2>4. q \in Path /\ Holds(b, q, p[2], e)
        <3>1. p[2] \in 1..Len(b.line[q])
            BY <1>8, <2>3
        <3> QED BY <1>8, <2>1, <2>3, <3>1 DEF Holds, LineAt
    <2>5. Unseen(b, s, j, e)
        BY <1>15, <1>17 DEF Dims
    <2>6. q = Active /\ p[2] = j
        BY <2>4, <2>5 DEF Novel
    <2>7. Holds(t, Active, j, e)
        BY <1>17 DEF Unseen
    <2>8. t.line[Active] # <<>>
        <3> SUFFICES ASSUME t.line[Active] = <<>> PROVE FALSE
            OBVIOUS
        <3>1. j \in 1..0
            BY <2>7 DEF Holds
        <3> QED BY <3>1
    <2>9. t.line[Active] = b.line[Active]
        BY <1>1, <1>14, <2>8
    <2>10. ~(p[1] <= c)
        BY <1>11, <2>3, <2>6, <2>8
    <2>11. ~(p[1] > c + 1)
        BY <1>1, <2>1, <2>2, PoppedIs DEF c
    <2>12. p[1] = c + 1
        BY <1>2, <2>3, <2>10, <2>11
    <2>13. 1 \in 1..(Len(s) - c)
        BY <1>2, <1>3, <2>3, <2>12
    <2>14. u[1].path = Active /\ u[1].off = Offset(b, n, p[1])
        BY <1>5, <2>6, <2>12, <2>13
    <2>15. p[2] <= Offset(b, n, p[1])
        BY <2>1, <2>2, <2>3, OffsetIs
    <2>16. Offset(b, n, p[1]) <= Len(b.line[Active]) /\ Offset(b, n, p[1]) \in Nat
        BY <1>9, <1>10, <2>3, <2>6
    <2>17. u[1].off < j \/ u[1].off > Len(t.line[Active])
        BY <1>4, <1>17, <2>13, <2>14 DEF Unseen
    <2>18. Len(b.line[Active]) \in Nat
        BY <1>1 DEF Buffer
    <2> QED BY <2>3, <2>6, <2>9, <2>14, <2>15, <2>16, <2>17, <2>18
<1>18. Novel(t, u, Batch(b, n))
    BY <1>16, <1>17 DEF Novel
<1> QED BY <1>18 DEF t, u

(* A process that starts with b and the state file s finds e: in a file    *)
(* that s does not list, or behind the offset listed.                      *)
Recovers(b, s, e) ==
    \E p \in b.files : \E j \in Nat :
        /\ Holds(b, p, j, e)
        /\ \A k \in DOMAIN s : s[k].path = p => s[k].off < j \/ s[k].off > Len(b.line[p])

(* s is not ahead of the queue of b. *)
Agrees(b, s) ==
    \A k \in DOMAIN s : s[k].path \in b.files =>
        \E y \in Entries(b) : y.path = s[k].path /\ s[k].off <= y.off

LEMMA ResumeFinds ==
    ASSUME NEW b \in Buffer, \A p \in Path \ b.files : b.line[p] = <<>>,
           NEW s \in Seq(Entry), Distinct(s), NEW e \in Event, Recovers(b, s, e)
    PROVE  \/ e \in Due(Loaded(b, s))
           \/ \E p \in b.files : e \in Range(b.line[p]) /\ \A k \in DOMAIN s : s[k].path # p
<1> DEFINE d == Loaded(b, s)
<1>1. PICK p \in b.files : \E j \in Nat :
         /\ Holds(b, p, j, e)
         /\ \A k \in DOMAIN s : s[k].path = p => s[k].off < j \/ s[k].off > Len(b.line[p])
    BY DEF Recovers
<1>2. PICK j \in Nat :
         /\ Holds(b, p, j, e)
         /\ \A k \in DOMAIN s : s[k].path = p => s[k].off < j \/ s[k].off > Len(b.line[p])
    BY <1>1
<1>3. p \in Path /\ Len(b.line[p]) \in Nat
    BY DEF Buffer
<1>4. CASE \E k \in DOMAIN s : s[k].path = p
    <2>1. PICK k \in DOMAIN s : s[k].path = p
        BY <1>4
    <2>2. StillThere(b, s) # <<>>
        BY <2>1, LoadedIs
    <2>3. Reset(b, s[k]) \in Entries(d)
        BY <2>1, <2>2, LoadedIs
    <2>4. Sound(d) /\ d.line = b.line
        BY LoadedIs
    <2> DEFINE x == Reset(b, s[k])
    <2>5. s[k] \in Entry /\ s[k].off \in Nat
        BY EntryOf
    <2>6. x.path = p /\ x.off < j
        <3>1. 0 < j
            BY <1>2 DEF Holds
        <3>2. [s[k] EXCEPT !.off = 0].path = s[k].path /\ [s[k] EXCEPT !.off = 0].off = 0
            BY <2>5 DEF Entry
        <3> QED BY <1>2, <2>1, <2>5, <3>1, <3>2 DEF Reset
    <2> HIDE DEF d, x
    <2>7. Holds(d, x.path, j, e)
        BY <1>2, <2>4, <2>6 DEF Holds
    <2>8. e \in Due(d)
        BY <2>3, <2>4, <2>6, <2>7, DueIs DEF Sound, x
    <2> QED BY <2>8 DEF d
<1>5. CASE \A k \in DOMAIN s : s[k].path # p
    <2>1. e \in Range(b.line[p])
        BY <1>2, <1>3 DEF Holds, Range
    <2> QED BY <1>5, <2>1
<1> QED BY <1>4, <1>5

LEMMA WaitingRecovers ==
    ASSUME NEW b, Sound(b), NEW s \in Seq(Entry), Agrees(b, s),
           NEW e \in Due(b) \cup OrphansOf(b)
    PROVE  Recovers(b, s, e)
<1>1. b \in Buffer
    BY DEF Sound
<1>2. CASE e \in Due(b)
    <2>1. PICK x \in Entries(b) : \E j \in Nat : x.off < j /\ Holds(b, x.path, j, e)
        BY <1>1, <1>2, DueIs
    <2>2. PICK j \in Nat : x.off < j /\ Holds(b, x.path, j, e)
        BY <2>1
    <2>3. x.path \in b.files /\ x.off \in Nat
        BY <1>1, EntryIs DEF Sound
    <2>4. ASSUME NEW k \in DOMAIN s, s[k].path = x.path PROVE s[k].off < j
        <3>1. PICK y \in Entries(b) : y.path = s[k].path /\ s[k].off <= y.off
            BY <2>3, <2>4 DEF Agrees
        <3>2. y = x
            BY <2>4, <3>1 DEF Sound, Distinct, Entries
        <3>3. s[k].off \in Nat
            BY EntryOf
        <3> QED BY <2>2, <2>3, <3>1, <3>2, <3>3
    <2> QED BY <2>2, <2>3, <2>4 DEF Recovers
<1>3. CASE e \in OrphansOf(b)
    <2>1. PICK p \in b.files : \E j \in Nat : ~Listed(b, p) /\ Holds(b, p, j, e)
        BY <1>3 DEF OrphansOf
    <2>2. \A k \in DOMAIN s : s[k].path # p
        <3> SUFFICES ASSUME NEW k \in DOMAIN s, s[k].path = p PROVE FALSE
            OBVIOUS
        <3>1. \E y \in Entries(b) : y.path = p
            BY DEF Agrees
        <3> QED BY <1>1, <2>1, <3>1, EntryIs
    <2> QED BY <2>1, <2>2 DEF Recovers
<1> QED BY <1>2, <1>3

LEMMA AgreesItself ==
    ASSUME NEW b, Sound(b)
    PROVE  Agrees(b, b.queue)
<1>1. b \in Buffer
    BY DEF Sound
<1>2. \A k \in DOMAIN b.queue : b.queue[k] \in Entries(b) /\ b.queue[k].off <= b.queue[k].off
    BY <1>1, EntryIs
<1> QED BY <1>2 DEF Agrees

LEMMA KeptAgrees ==
    ASSUME NEW b, NEW d, Keeping(b, d), NEW s, Agrees(b, s)
    PROVE  Agrees(d, s)
BY DEF Agrees, Keeping

LEMMA AppendedAgrees ==
    ASSUME NEW b, Sound(b), NEW e \in Event
    PROVE  Agrees(Appended(b, e), b.queue)
<1>1. b \in Buffer
    BY DEF Sound
<1>2. \A k \in DOMAIN b.queue : b.queue[k] \in Entries(b) /\ b.queue[k].off <= b.queue[k].off
    BY <1>1, EntryIs
<1>3. \A x \in Entries(b) : x \in Entries(Appended(b, e))
    BY AppendedIs
<1> QED BY <1>2, <1>3 DEF Agrees

LEMMA RotatedAgrees ==
    ASSUME NEW b, Sound(b), NEW name \in Path, name \notin b.files, MustRotate(b),
           NEW s, Agrees(b, s), \A k \in DOMAIN s : s[k].path # name
    PROVE  Agrees(Rotated(b, name), s)
<1> DEFINE r == Rotated(b, name)
<1>1. r.files = (b.files \ {Active}) \cup {name}
    BY RotatedIs
<1>2. \A y \in Entries(b) : Renamed(y, name) \in Entries(r)
    BY RotatedIs
<1> HIDE DEF r
<1>3. ASSUME NEW k \in DOMAIN s, s[k].path \in r.files
      PROVE  \E y \in Entries(r) : y.path = s[k].path /\ s[k].off <= y.off
    <2>1. s[k].path \in b.files /\ s[k].path # Active
        BY <1>1, <1>3
    <2>2. PICK y \in Entries(b) : y.path = s[k].path /\ s[k].off <= y.off
        BY <2>1 DEF Agrees
    <2>3. Renamed(y, name) = y
        BY <2>1, <2>2 DEF Renamed
    <2> QED BY <1>2, <2>2, <2>3
<1> QED BY <1>3 DEF Agrees, r

(* take dies when it has removed k files: what it read of them and did not *)
(* remove is found again, and nothing that is on the disk is taken for     *)
(* read.                                                                   *)
LEMMA ConsumedRecovers ==
    ASSUME NEW b, Sound(b), Clean(b), NEW n \in Nat \ {0}, InOrder(b, b.queue, n),
           LastActive(b.queue), NEW h, Novel(b, b.queue, h),
           NEW k \in 1..Popped(b, n), k \in 0..Len(b.queue),
           NEW e \in Due(b) \cup OrphansOf(b), e \in EventsOnDisk(Consumed(b, k))
    PROVE  Recovers(Consumed(b, k), b.queue, e)
<1> DEFINE d == Consumed(b, k)
           s == b.queue
<1>1. b \in Buffer /\ s \in Seq(Entry)
    BY DEF Sound, Buffer
<1>2. d \in Buffer
    BY ConsumedIs
<1>3. d.files = (b.files \ Emptied(b, k)) \cup (FirstPaths(b, k) \cap {Active})
    BY ConsumedIs
<1>4. \A p \in Path : d.line[p] = IF p \in Emptied(b, k) THEN <<>> ELSE b.line[p]
    BY ConsumedIs
<1>5. d.files \subseteq b.files
    BY ConsumedIs
<1>6. b.files \subseteq Path
    BY <1>1 DEF Buffer
<1>7. \A p \in Emptied(b, k) : \E i \in 1..k : s[i].path = p
    BY DEF Emptied, FirstPaths
<1>8. \A i \in DOMAIN s : /\ s[i].path \in b.files /\ s[i].off \in Nat /\ i \in Nat /\ 1 <= i
                          /\ Len(b.line[s[i].path]) \in Nat
    BY <1>1, EntryIs DEF Sound
<1>9. DOMAIN s = 1..Len(s) /\ Len(s) \in Nat
    BY <1>1, EntryIs
<1>10. Popped(b, n) \in Nat
    BY <1>1, PoppedIs
<1>11. k \in Nat /\ 1 <= k /\ k <= Popped(b, n) /\ k <= Len(s)
    BY <1>9, <1>10
<1>12. e \in Event
    BY <1>1, DueIs DEF OrphansOf
<1> SUFFICES ASSUME ~Recovers(d, s, e) PROVE FALSE
    BY DEF d
<1>13. PICK q \in d.files : \E i \in Nat : Holds(d, q, i, e)
    BY <1>2, OnDiskIs
<1> HIDE DEF d
<1>14. PICK i \in Nat : Holds(d, q, i, e)
    BY <1>13
<1>15. q \notin Emptied(b, k)
    <2> SUFFICES ASSUME q \in Emptied(b, k) PROVE FALSE
        OBVIOUS
    <2>1. d.line[q] = <<>>
        BY <1>4, <1>5, <1>6
    <2>2. i \in 1..0
        BY <1>14, <2>1 DEF Holds
    <2> QED BY <2>2
<1>16. d.line[q] = b.line[q] /\ Holds(b, q, i, e) /\ 1 <= i
    <2>1. d.line[q] = b.line[q]
        BY <1>4, <1>5, <1>6, <1>15
    <2> QED BY <1>14, <2>1 DEF Holds
<1>17. PICK l \in DOMAIN s : s[l].path = q /\ ~(s[l].off < i)
    BY <1>14 DEF Recovers
<1>18. s[l].off > 0
    BY <1>8, <1>16, <1>17
<1>19. CASE e \in OrphansOf(b)
    <2>1. PICK p \in b.files : \E j \in Nat : ~Listed(b, p) /\ Holds(b, p, j, e)
        BY <1>19 DEF OrphansOf
    <2>2. PICK j \in Nat : ~Listed(b, p) /\ Holds(b, p, j, e)
        BY <2>1
    <2>3. \A m \in DOMAIN s : s[m].path # p
        BY <2>2 DEF Listed
    <2>4. p \notin Emptied(b, k)
        BY <1>7, <1>9, <1>11, <2>3
    <2>5. p \in d.files /\ d.line[p] = b.line[p]
        BY <1>3, <1>4, <1>6, <2>4
    <2>6. Holds(d, p, j, e)
        BY <2>2, <2>5 DEF Holds
    <2> QED BY <2>3, <2>5, <2>6 DEF Recovers
<1>20. CASE e \in Due(b)
    <2>1. PICK x \in Entries(b) : \E j \in Nat : x.off < j /\ Holds(b, x.path, j, e)
        BY <1>1, <1>20, DueIs
    <2>2. PICK j \in Nat : x.off < j /\ Holds(b, x.path, j, e)
        BY <2>1
    <2>3. PICK m \in DOMAIN s : s[m] = x
        BY DEF Entries
    <2> DEFINE p == s[m].path
    <2>4. s[m].off < j /\ Holds(b, p, j, e) /\ j <= Len(b.line[p])
        BY <2>2, <2>3 DEF Holds
    <2>5. \A r \in DOMAIN s : s[r].path = p => r = m
        BY DEF Sound, Distinct
    <2>6. p \in Emptied(b, k)
        <3> SUFFICES ASSUME p \notin Emptied(b, k) PROVE FALSE
            OBVIOUS
        <3>1. p \in b.files
            BY <1>8
        <3>2. p \in d.files /\ d.line[p] = b.line[p]
            BY <1>3, <1>4, <1>6, <3>1
        <3>3. Holds(d, p, j, e)
            BY <2>4, <3>2 DEF Holds
        <3>4. \A r \in DOMAIN s : s[r].path = p => s[r].off < j
            BY <2>4, <2>5
        <3> QED BY <3>2, <3>3, <3>4 DEF Recovers
    <2>7. m <= k /\ q # p
        <3>1. PICK r \in 1..k : s[r].path = p
            BY <1>7, <2>6
        <3>2. r \in DOMAIN s
            BY <1>9, <1>11
        <3> QED BY <1>11, <1>15, <2>5, <2>6, <3>1, <3>2
    <2>8. CASE RemovesOpenFile
        <3>1. ~(l <= k)
            <4> SUFFICES ASSUME l <= k PROVE FALSE
                OBVIOUS
            <4>1. l \in 1..k
                BY <1>8, <1>11
            <4>2. q \in FirstPaths(b, k)
                BY <1>17, <4>1 DEF FirstPaths
            <4> QED BY <1>15, <2>8, <4>2 DEF Emptied
        <3>2. m < l
            BY <1>8, <1>11, <2>7, <3>1
        <3>3. \/ Done(b, s[m])
              \/ m = 1 /\ s[1].off = 0 /\ Len(b.line[s[1].path]) = n
            BY <1>8, <1>18, <3>2 DEF InOrder
        <3>4. CASE Done(b, s[m])
            BY <1>8, <2>4, <3>4 DEF Done
        <3>5. CASE m = 1 /\ s[1].off = 0 /\ Len(b.line[s[1].path]) = n
            <4>1. Popped(b, n) = 0
                BY <3>5, FullFront
            <4> QED BY <1>11, <4>1
        <3> QED BY <3>3, <3>4, <3>5
    <2>9. CASE ~RemovesOpenFile
        <3>1. p = Active
            BY <2>6, <2>9 DEF Emptied
        <3>2. Unseen(b, s, j, e)
            BY <2>4, <2>5, <3>1 DEF Unseen
        <3>3. q \in Path
            BY <1>5, <1>6
        <3>4. q = Active
            BY <1>12, <1>16, <3>2, <3>3 DEF Novel
        <3> QED BY <2>7, <3>1, <3>4
    <2> QED BY <2>8, <2>9
<1> QED BY <1>19, <1>20

-----------------------------------------------------------------------------
(* Whenever no write has failed, the state file is the queue, files are    *)
(* read in order, what stands in the active file behind the offset has     *)
(* never been taken, and a process that has ended is found with all it had *)
(* on the disk.                                                            *)
Front == IF hand = <<>> THEN Room ELSE 0
Resumable ==
    ~failed =>
        /\ running => saved = buf.queue
        /\ LastActive(saved)
        /\ InOrder(buf, saved, Front)
        /\ hand # <<>> /\ Len(hand) # Room => \A x \in Entries(buf) : x.off = 0
        /\ Novel(buf, saved, hand)
        /\ ~running => \A e \in EventsOnDisk(buf) \ Gone : Recovers(buf, saved, e)

LEMMA ResumableInit == Init => Resumable
<1> SUFFICES ASSUME Init PROVE Resumable
    OBVIOUS
<1>1. Sound(buf) /\ Entries(buf) = {} /\ buf.queue = <<>> /\ running = TRUE /\ saved = <<>> /\ hand = <<>>
    BY EmptyIs DEF Init, Entries
<1>2. \A p \in Path : buf.line[p] = <<>>
    BY <1>1, EmptyIs DEF Init, Sound
<1>3. LastActive(saved) /\ InOrder(buf, saved, Front)
    BY <1>1 DEF LastActive, InOrder
<1>4. Novel(buf, saved, hand)
    BY <1>2, ActiveIs, EmptyNovel
<1> QED BY <1>1, <1>3, <1>4 DEF Resumable

LEMMA RoomInOrder ==
    ASSUME NEW b, NEW s, InOrder(b, s, Front)
    PROVE  InOrder(b, s, Room)
<1>1. CASE hand = <<>>
    BY <1>1 DEF Front
<1>2. CASE hand # <<>>
    BY <1>2, MoreInOrder DEF Front
<1> QED BY <1>1, <1>2

LEMMA NovelAlone ==
    ASSUME NEW b, NEW s, NEW h, Novel(b, s, h)
    PROVE  Novel(b, s, <<>>)
BY EmptyHand DEF Novel

LEMMA OnDiskWaits ==
    ASSUME Shape, Balance, running, NEW e \in EventsOnDisk(buf), e \notin Gone
    PROVE  e \in Event /\ e \in Due(buf) \cup OrphansOf(buf)
BY DEF Shape, Balance, EventsOnDisk

(* What is left to show of a step in which the process dies. *)
LEMMA ResumableDead ==
    ASSUME Shape, Resumable, NEW b \in Buffer, \A p \in Path \ b.files : b.line[p] = <<>>,
           DiesWith(b), failed \in BOOLEAN, failed' \in BOOLEAN, failed => failed',
           ~failed' =>
               /\ InOrder(b, saved, Room)
               /\ Novel(b, saved, <<>>)
               /\ \A e \in EventsOnDisk(b) \ (got' \cup pruned' \cup lost' \cup vain') : Recovers(b, saved, e)
    PROVE  Resumable'
<1> SUFFICES ASSUME ~failed' PROVE Resumable'
    BY DEF Resumable
<1>1. /\ buf'.files = b.files /\ buf'.line = b.line /\ EventsOnDisk(buf') = EventsOnDisk(b)
      /\ running' = FALSE /\ hand' = <<>> /\ Range(hand') = {} /\ saved' = saved /\ mode' = mode
    BY DiesIs
<1>2. Front' = Room
    BY <1>1 DEF Front, Room
<1>3. LastActive(saved') /\ InOrder(buf', saved', Front')
    BY <1>1, <1>2 DEF Resumable, InOrder, Done
<1>4. Novel(buf', saved', hand')
    BY <1>1 DEF Novel, Unseen, Holds
<1>5. \A e \in EventsOnDisk(buf') \ Gone' : Recovers(buf', saved', e)
    BY <1>1 DEF Gone, Recovers, Holds
<1> QED BY <1>1, <1>3, <1>4, <1>5 DEF Resumable

(* put, as far as the state file: the rotation and the pruning leave the   *)
(* files in order, and the new line is new.                                *)
LEMMA PutInOrder ==
    ASSUME Shape, NEW e \in Event, NEW name \in Path, RotationName(Appended(buf, e), name),
           NEW n, InOrder(buf, buf.queue, n), LastActive(buf.queue)
    PROVE  LET a == Appended(buf, e)
               g == Rotated(a, name)
               k == Pruned(g, stale)
           IN  /\ LastActive(k.queue) /\ InOrder(k, k.queue, n)
               /\ Sound(a) /\ Sound(g) /\ Sound(k)
               /\ Keeping(g, k)
               /\ InOrder(a, buf.queue, n)
               /\ MustRotate(a) => name \notin a.files
<1> DEFINE a == Appended(buf, e)
           g == Rotated(a, name)
           k == Pruned(g, stale)
<1>1. Sound(buf)
    BY SameHistory
<1>2. Sound(a)
    BY <1>1, AppendedIs
<1>3. a.files = buf.files \cup {Active}
    BY <1>1, AppendedIs
<1>4. Sound(g)
    BY <1>2, <1>3, GrownIs
<1>5. LastActive(a.queue) /\ InOrder(a, a.queue, n)
    BY <1>1, AppendedInOrder
<1>6. InOrder(a, buf.queue, n)
    BY <1>1, AppendedInOrder
<1> HIDE DEF a
<1>7. MustRotate(a) => name \notin a.files
    <2> SUFFICES ASSUME MustRotate(a) PROVE name \notin a.files
        OBVIOUS
    <2>1. NameFor("rotated", name)
        BY DEF RotationName, a
    <2> QED BY <1>3, <2>1, NameIs
<1>8. LastActive(g.queue) /\ InOrder(g, g.queue, n)
    <2>1. CASE MustRotate(a)
        BY <1>2, <1>5, <1>7, <2>1, RotatedInOrder
    <2>2. CASE ~MustRotate(a)
        BY <1>5, <2>2 DEF Rotated
    <2> QED BY <2>1, <2>2
<1> HIDE DEF g
<1>9. Keeping(g, k)
    BY <1>4, PrunedKeeps
<1>10. LastActive(k.queue) /\ InOrder(k, k.queue, n)
    BY <1>4, <1>8, PrunedInOrder
<1> HIDE DEF k
<1>11. Sound(k)
    BY <1>9 DEF Keeping
<1> QED BY <1>2, <1>4, <1>6, <1>7, <1>9, <1>10, <1>11 DEF a, g, k

LEMMA RotatedActive ==
    ASSUME NEW a, Sound(a), NEW name \in Path, name \notin a.files, MustRotate(a)
    PROVE  Rotated(a, name).line[Active] = <<>>
BY ActiveIs, RotatedIs DEF Sound

(* The new line is new, and the state file of before does not skip it. *)
LEMMA PutNovel ==
    ASSUME NEW b, Sound(b), Clean(b), NEW e \in Event, e \notin EventsOnDisk(b),
           NEW h, e \notin Range(h), Novel(b, b.queue, h),
           NEW a, a = Appended(b, e), Sound(a), NEW name \in Path, MustRotate(a) => name \notin a.files,
           NEW g, g = Rotated(a, name), Sound(g), NEW k, Keeping(g, k)
    PROVE  /\ Novel(k, k.queue, h)
           /\ Novel(a, b.queue, h) /\ Novel(g, b.queue, h) /\ Novel(k, b.queue, h)
<1>1. Novel(a, a.queue, h)
    BY AppendedNovel
<1>2. Novel(a, b.queue, h)
    BY AppendedNovel
<1>3. Novel(g, g.queue, h) /\ Novel(g, b.queue, h)
    <2>1. CASE MustRotate(a)
        <3>1. g.line[Active] = <<>>
            BY <2>1, RotatedActive
        <3> QED BY <3>1, EmptyNovel
    <2>2. CASE ~MustRotate(a)
        BY <1>1, <1>2, <2>2 DEF Rotated
    <2> QED BY <2>1, <2>2
<1>4. Novel(k, k.queue, h)
    <2>1. Dims(g, g.queue, k, k.queue)
        BY KeptDim
    <2> QED BY <1>3, <2>1, DimmedNovel
<1>5. Novel(k, b.queue, h)
    <2>1. \A p \in Path : k.line[p] = g.line[p] \/ k.line[p] = <<>>
        BY KeptLines
    <2>2. g \in Buffer /\ b.queue \in Seq(Entry)
        BY DEF Sound, Buffer
    <2>3. Dims(g, b.queue, k, b.queue)
        BY <2>1, <2>2, SameOffsetsDim
    <2> QED BY <1>3, <2>3, DimmedNovel
<1> QED BY <1>2, <1>3, <1>4, <1>5

(* Offsets of 0 stay, and so do those of a new file. *)
LEMMA PutOffsets ==
    ASSUME NEW b, Sound(b), NEW e \in Event, \A x \in Entries(b) : x.off = 0,
           NEW a, a = Appended(b, e), Sound(a), NEW name \in Path, MustRotate(a) => name \notin a.files,
           NEW g, g = Rotated(a, name), NEW k, Keeping(g, k)
    PROVE  \A x \in Entries(k) : x.off = 0
<1>1. \A x \in Entries(a) : x.off = 0
    <2> SUFFICES ASSUME NEW x \in Entries(a) PROVE x.off = 0
        OBVIOUS
    <2>1. x \in Entries(b) \/ x = NewEntry
        BY AppendedIs
    <2>2. NewEntry.off = 0
        BY DEF NewEntry
    <2> QED BY <2>1, <2>2
<1>2. \A x \in Entries(g) : x.off = 0
    <2>1. CASE MustRotate(a)
        <3> SUFFICES ASSUME NEW x \in Entries(g) PROVE x.off = 0
            OBVIOUS
        <3>1. PICK y \in Entries(a) : x = Renamed(y, name)
            BY <2>1, RotatedIs
        <3>2. y \in Entry
            <4>1. a \in Buffer
                BY DEF Sound
            <4> QED BY <4>1, EntryIs
        <3>3. Renamed(y, name).off = y.off
            BY <3>2 DEF Renamed, Entry
        <3> QED BY <1>1, <3>1, <3>3
    <2>2. CASE ~MustRotate(a)
        BY <1>1, <2>2 DEF Rotated
    <2> QED BY <2>1, <2>2
<1> QED BY <1>2 DEF Keeping

(* Where put dies, nothing lies but what a start finds with the state file *)
(* of before, or what was read before.                                     *)
LEMMA PutDiesResumes ==
    ASSUME Shape, Clean(buf), PutDies, NEW n, InOrder(buf, buf.queue, n), LastActive(buf.queue),
           Novel(buf, buf.queue, hand)
    PROVE  \E b : /\ DiesWith(b) /\ Sound(b)
                  /\ InOrder(b, buf.queue, n) /\ Novel(b, buf.queue, hand) /\ Agrees(b, buf.queue)
                  /\ Skipped(b) \subseteq Skipped(buf)
                  /\ Due(buf) \cup OrphansOf(buf) \subseteq Due(b) \cup OrphansOf(b) \cup pruned'
<1> DEFINE e == made'
           s == buf.queue
           a == Appended(buf, e)
<1>1. PICK name \in Path :
         /\ RotationName(a, name)
         /\ \E b \in {a, Rotated(a, name), Pruned(Rotated(a, name), stale)} :
               DiesWith(b) /\ pruned' = pruned \cup (Due(Rotated(a, name)) \ Due(b))
    BY DEF PutDies
<1> DEFINE g == Rotated(a, name)
           k == Pruned(g, stale)
<1>2. PICK b \in {a, g, k} : DiesWith(b) /\ pruned' = pruned \cup (Due(g) \ Due(b))
    BY <1>1
<1>3. Sound(buf) /\ e \in Event /\ e \notin EventsOnDisk(buf) /\ e \notin Range(hand)
    <2>1. Produces
        BY PutDiesIs
    <2>2. e \notin Known /\ Range(hand) \subseteq Known
        BY <2>1, ProducedIs DEF Shape
    <2> QED BY <2>1, <2>2, ProducedIs, SameHistory
<1>4. InOrder(a, s, n) /\ Sound(a) /\ Sound(g) /\ Sound(k) /\ Keeping(g, k)
      /\ (MustRotate(a) => name \notin a.files)
    BY <1>1, <1>3, PutInOrder
<1>5. /\ Due(buf) \subseteq Due(a) /\ OrphansOf(buf) \subseteq Due(a) \cup OrphansOf(a)
      /\ Skipped(a) \subseteq Skipped(buf)
    BY <1>3, AppendedGains DEF Gains
<1>6. a.files = buf.files \cup {Active}
    BY <1>3, AppendedIs
<1>7. Due(g) = Due(a) /\ OrphansOf(g) = OrphansOf(a) /\ Skipped(g) = Skipped(a)
    BY <1>1, <1>4, <1>6, GrownIs
<1>8. Agrees(a, s)
    BY <1>3, AppendedAgrees
<1>9. a = Appended(buf, e) /\ g = Rotated(a, name)
    OBVIOUS
<1> HIDE DEF a, k
<1>10. Due(k) \subseteq Due(g) /\ OrphansOf(k) = OrphansOf(g) /\ Skipped(k) \subseteq Skipped(g)
    BY <1>4, KeepingEvents
<1>11. s \in Seq(Entry) /\ \A i \in DOMAIN s : s[i].path \in Path /\ s[i].path \in buf.files
    BY <1>3, EntryIs DEF Sound, Buffer
<1>12. InOrder(g, s, n) /\ Agrees(g, s)
    <2>1. CASE MustRotate(a)
        <3>1. \A i \in DOMAIN s : s[i].path # name
            BY <1>4, <1>6, <1>11, <2>1
        <3>2. g.files = (a.files \ {Active}) \cup {name}
            BY <1>4, <2>1, RotatedIs
        <3>3. \A p \in Path : p # Active /\ p # name => g.line[p] = a.line[p]
            BY <1>4, <2>1, RotatedIs
        <3> HIDE DEF g
        <3>4. \A i \in DOMAIN s : s[i].path \in g.files =>
                  /\ s[i].path \in a.files
                  /\ s[i].path # Active => g.line[s[i].path] = a.line[s[i].path]
            BY <1>11, <3>1, <3>2, <3>3
        <3>5. InOrder(g, s, n)
            BY <1>4, <1>11, <3>4, InOrderSame
        <3>6. Agrees(g, s)
            BY <1>4, <1>8, <2>1, <3>1, RotatedAgrees DEF g
        <3> QED BY <3>5, <3>6
    <2>2. CASE ~MustRotate(a)
        BY <1>4, <1>8, <2>2 DEF Rotated
    <2> QED BY <2>1, <2>2
<1> HIDE DEF g
<1>13. InOrder(k, s, n) /\ Agrees(k, s)
    <2>1. \A i \in DOMAIN s : s[i].path \in k.files =>
              /\ s[i].path \in g.files
              /\ s[i].path # Active => k.line[s[i].path] = g.line[s[i].path]
        BY <1>4 DEF Keeping
    <2>2. InOrder(k, s, n)
        BY <1>11, <1>12, <2>1, InOrderSame
    <2>3. Agrees(k, s)
        BY <1>4, <1>12, KeptAgrees
    <2> QED BY <2>2, <2>3
<1>14. Novel(a, s, hand)
    BY <1>3, <1>4, <1>9, PutNovel
<1>15. Novel(g, s, hand)
    BY <1>3, <1>4, <1>9, PutNovel
<1>16. Novel(k, s, hand)
    BY <1>3, <1>4, <1>9, PutNovel
<1>17. Sound(b) /\ InOrder(b, s, n) /\ Novel(b, s, hand) /\ Agrees(b, s)
    BY <1>2, <1>4, <1>8, <1>12, <1>13, <1>14, <1>15, <1>16
<1>18. OrphansOf(b) = OrphansOf(a) /\ Skipped(b) \subseteq Skipped(a)
    BY <1>2, <1>7, <1>10
<1>19. Due(buf) \cup OrphansOf(buf) \subseteq Due(b) \cup OrphansOf(b) \cup pruned'
    BY <1>2, <1>5, <1>7, <1>18
<1>20. Skipped(b) \subseteq Skipped(buf)
    BY <1>5, <1>18
<1> QED BY <1>2, <1>17, <1>19, <1>20

LEMMA ResumableWhilePutting ==
    ASSUME Shape, Counted, Resumable, Put
    PROVE  Resumable'
<1>0. (failed => failed') /\ failed \in BOOLEAN /\ failed' \in BOOLEAN
    BY PutIs, SameHistory
<1> SUFFICES ASSUME ~failed' PROVE Resumable'
    BY DEF Resumable
<1>1. /\ Clean(buf) /\ running /\ saved = buf.queue /\ LastActive(saved) /\ InOrder(buf, saved, Front)
      /\ (hand # <<>> /\ Len(hand) # Room => \A x \in Entries(buf) : x.off = 0)
      /\ Novel(buf, saved, hand)
    BY <1>0, PutIs, ProducedIs DEF Resumable, Counted
<1> DEFINE e == made'
           a == Appended(buf, e)
<1>2. PICK name \in Path : RotationName(a, name) /\ buf' = Pruned(Rotated(a, name), stale)
    BY DEF Put, PutOf, Keeps
<1> DEFINE g == Rotated(a, name)
           k == Pruned(g, stale)
<1>3. Sound(buf) /\ e \in Event /\ e \notin EventsOnDisk(buf) /\ e \notin Range(hand)
    <2>1. Produces
        BY PutIs
    <2>2. e \notin Known /\ Range(hand) \subseteq Known
        BY <2>1, ProducedIs DEF Shape
    <2> QED BY <2>1, <2>2, ProducedIs, SameHistory
<1>4. /\ Sound(a) /\ Sound(g) /\ Keeping(g, k) /\ (MustRotate(a) => name \notin a.files)
      /\ LastActive(k.queue) /\ InOrder(k, k.queue, Front)
    BY <1>1, <1>2, <1>3, PutInOrder
<1>5. a = Appended(buf, e) /\ g = Rotated(a, name)
    OBVIOUS
<1>6. buf' = k
    BY <1>2
<1> HIDE DEF a, g, k
<1>7. Novel(k, k.queue, hand)
    BY <1>1, <1>3, <1>4, <1>5, PutNovel
<1>8. (\A x \in Entries(buf) : x.off = 0) => \A x \in Entries(k) : x.off = 0
    BY <1>3, <1>4, <1>5, PutOffsets
<1>9. saved' = k.queue /\ hand' = hand /\ running' = running /\ mode' = mode
    BY <1>0, <1>6, PutIs
<1>10. Front' = Front /\ Room' = Room
    BY <1>9 DEF Front, Room
<1> QED BY <1>1, <1>4, <1>6, <1>7, <1>8, <1>9, <1>10 DEF Resumable

LEMMA ResumableWhileTaking ==
    ASSUME Shape, Counted, Resumable, Take
    PROVE  Resumable'
<1>0. (failed => failed') /\ failed \in BOOLEAN /\ failed' \in BOOLEAN
    BY TakeIs, SameHistory
<1> SUFFICES ASSUME ~failed' PROVE Resumable'
    BY DEF Resumable
<1> DEFINE n == Room
<1>1. /\ running /\ hand = <<>> /\ buf' = Taken(buf, n) /\ hand' = Batch(buf, n) /\ saved' = buf'.queue
    BY <1>0, TakeIs
<1>2. Front = n /\ n \in Nat \ {0}
    BY <1>1, RoomIs DEF Front
<1>3. Clean(buf) /\ saved = buf.queue /\ LastActive(saved) /\ InOrder(buf, saved, n) /\ Novel(buf, saved, hand)
    BY <1>0, <1>1, <1>2 DEF Resumable, Counted
<1>4. running' = running /\ mode' = mode
    BY DEF Take
<1>5. Room' = n
    BY <1>4 DEF Room
<1> HIDE DEF n
<1>6. LastActive(buf'.queue) /\ InOrder(buf', buf'.queue, 0) /\ (Len(hand') = n \/ Entries(buf') = {})
    BY <1>1, <1>2, <1>3, SameHistory, TakenInOrder
<1>7. Novel(buf', buf'.queue, hand')
    BY <1>1, <1>2, <1>3, SameHistory, TakenNovel
<1>8. InOrder(buf', buf'.queue, Front')
    <2>1. CASE hand' = <<>>
        BY <1>6, <2>1, MoreInOrder DEF Front
    <2>2. CASE hand' # <<>>
        BY <1>6, <2>2 DEF Front
    <2> QED BY <2>1, <2>2
<1>9. Entries(buf)' = Entries(buf')
    BY DEF Entries
<1> QED BY <1>1, <1>4, <1>5, <1>6, <1>7, <1>8 DEF Resumable

LEMMA ResumableWhileRestoring ==
    ASSUME Shape, Resumable, ExportFails
    PROVE  Resumable'
<1>0. (failed => failed') /\ failed \in BOOLEAN /\ failed' \in BOOLEAN
    BY RestoredAgain, SameHistory
<1> SUFFICES ASSUME ~failed' PROVE Resumable'
    BY DEF Resumable
<1>1. running /\ hand # <<>> /\ hand' = <<>> /\ hand \in Seq(Event) /\ running' = running /\ mode' = mode
    BY DEF ExportFails, SendRaises, Shape, TelemetryTypeOK
<1>2. PICK name \in Path : /\ NameFor("restore", name)
                           /\ buf' = Pruned(Restored(buf, hand, name), stale)
    BY DEF ExportFails, Keeps
<1>3. saved' = buf'.queue
    BY <1>0, RestoredAgain
<1>4. /\ saved = buf.queue /\ LastActive(saved) /\ InOrder(buf, saved, 0) /\ Novel(buf, saved, hand)
      /\ (Len(hand) = Room \/ \A x \in Entries(buf) : x.off = 0)
    BY <1>0, <1>1 DEF Resumable, Front
<1>5. name \notin buf.files /\ name # Active /\ Sound(buf)
    BY <1>2, NameIs, SameHistory
<1> DEFINE r == Restored(buf, hand, name)
           n == Room
<1>6. Sound(r)
    BY <1>1, <1>5, RestoredIs
<1>7. LastActive(r.queue) /\ InOrder(r, r.queue, n)
    <2> HIDE DEF n
    <2>1. Len(hand) = n \/ \A x \in Entries(buf) : x.off = 0
        BY <1>4 DEF n
    <2> QED BY <1>1, <1>4, <1>5, <2>1, RestoredInOrder
<1>8. Novel(r, r.queue, <<>>)
    BY <1>1, <1>4, <1>5, RestoredNovel
<1> HIDE DEF r
<1>9. Keeping(r, buf')
    BY <1>2, <1>6, PrunedKeeps DEF r
<1>10. LastActive(buf'.queue) /\ InOrder(buf', buf'.queue, n)
    BY <1>2, <1>6, <1>7, PrunedInOrder DEF r
<1>11. Dims(r, r.queue, buf', buf'.queue)
    BY <1>6, <1>9, KeptDim
<1>12. Novel(buf', buf'.queue, <<>>)
    BY <1>8, <1>11, DimmedNovel
<1>13. Front' = n
    BY <1>1 DEF Front, Room
<1> QED BY <1>1, <1>3, <1>10, <1>12, <1>13 DEF Resumable

LEMMA ResumableAtStart ==
    ASSUME Shape, Resumable, Starts
    PROVE  Resumable'
<1>0. (failed => failed') /\ failed \in BOOLEAN /\ failed' \in BOOLEAN
    BY StartsIs, SameHistory
<1> SUFFICES ASSUME ~failed' PROVE Resumable'
    BY DEF Resumable
<1>1. /\ ~running /\ running' = TRUE /\ hand = <<>> /\ hand' = hand /\ mode' = mode
      /\ buf' = Loaded(buf, saved)
    BY StartsIs
<1>2. saved' = buf'.queue
    BY <1>0, StartsIs
<1>3. LastActive(saved) /\ InOrder(buf, saved, Front) /\ Novel(buf, saved, hand)
    BY <1>0 DEF Resumable
<1>4. saved \in Seq(Entry) /\ Distinct(saved)
    BY DEF Shape, TelemetryTypeOK
<1>5. Front' = Front
    BY <1>1 DEF Front, Room
<1> DEFINE n == Front
<1> HIDE DEF n
<1>6. LastActive(buf'.queue) /\ InOrder(buf', buf'.queue, n)
    BY <1>1, <1>3, <1>4, SameHistory, LoadedInOrder DEF n
<1>7. Dims(buf, saved, buf', buf'.queue)
    BY <1>1, <1>4, SameHistory, LoadedDim
<1>8. Novel(buf', buf'.queue, hand)
    BY <1>3, <1>7, DimmedNovel
<1> QED BY <1>1, <1>2, <1>5, <1>6, <1>8 DEF Resumable, n

LEMMA ResumableOnceSent ==
    ASSUME Shape, Resumable, DayPasses \/ FlushStarts \/ Exported \/ SentInVain
    PROVE  Resumable'
<1>1. UNCHANGED <<running, buf, saved, failed, mode>> /\ running \in BOOLEAN /\ failed \in BOOLEAN
    BY DEF DayPasses, FlushStarts, Exported, SentInVain, bookkeeping, Shape, TelemetryTypeOK
<1>2. CASE DayPasses \/ FlushStarts
    <2>1. UNCHANGED <<hand, got, pruned, lost, vain>>
        BY <1>2 DEF DayPasses, FlushStarts, bookkeeping
    <2> QED BY <1>1, <2>1 DEF Resumable, Front, Room, Gone
<1>3. CASE Exported \/ SentInVain
    <2>1. running /\ hand' = <<>>
        BY <1>3 DEF Exported, SentInVain
    <2> SUFFICES ASSUME ~failed PROVE Resumable'
        BY <1>1 DEF Resumable
    <2>2. saved = buf.queue /\ LastActive(saved) /\ InOrder(buf, saved, Room) /\ Novel(buf, saved, <<>>)
        BY <2>1, RoomInOrder, NovelAlone DEF Resumable
    <2>3. Front' = Room
        BY <1>1, <2>1 DEF Front, Room
    <2> QED BY <1>1, <2>1, <2>2, <2>3 DEF Resumable
<1> QED BY <1>2, <1>3

(* The process dies outside an operation. *)
LEMMA ResumableAtDeath ==
    ASSUME Shape, Balance, Resumable, Dies
    PROVE  Resumable'
<1>1. /\ DiesWith(buf) /\ lost' = lost \cup Range(hand)
      /\ UNCHANGED <<sec, made, got, pruned, retried, failed, vain>>
    BY DEF Dies
<1>2. failed \in BOOLEAN /\ Sound(buf) /\ running
    BY <1>1, SameHistory DEF DiesWith
<1>3. ASSUME ~failed'
      PROVE  /\ InOrder(buf, saved, Room)
             /\ Novel(buf, saved, <<>>)
             /\ \A e \in EventsOnDisk(buf) \ (got' \cup pruned' \cup lost' \cup vain') : Recovers(buf, saved, e)
    <2>1. saved = buf.queue /\ saved \in Seq(Entry) /\ InOrder(buf, saved, Front) /\ Novel(buf, saved, hand)
        BY <1>1, <1>2, <1>3 DEF Resumable, Sound, Buffer
    <2>2. Agrees(buf, saved)
        BY <1>2, <2>1, AgreesItself
    <2>3. ASSUME NEW e \in EventsOnDisk(buf) \ (got' \cup pruned' \cup lost' \cup vain')
          PROVE  Recovers(buf, saved, e)
        <3>1. e \notin Gone
            BY <1>1, <2>3 DEF Gone
        <3>2. e \in Due(buf) \cup OrphansOf(buf)
            BY <1>2, <3>1, OnDiskWaits
        <3> QED BY <1>2, <2>1, <2>2, <3>2, WaitingRecovers
    <2> QED BY <2>1, <2>3, RoomInOrder, NovelAlone
<1> QED BY <1>1, <1>2, <1>3, SameHistory, ResumableDead

LEMMA ResumableIfPutDies ==
    ASSUME Shape, Counted, Balance, Resumable, PutDies
    PROVE  Resumable'
<1>0. failed' = failed /\ failed \in BOOLEAN /\ running
    BY PutDiesIs, ProducedIs, SameHistory
<1>1. CASE failed
    BY <1>0, <1>1 DEF Resumable
<1>2. CASE ~failed
    <2>1. /\ saved = buf.queue /\ saved \in Seq(Entry) /\ LastActive(saved) /\ InOrder(buf, saved, Front)
          /\ Novel(buf, saved, hand) /\ Clean(buf)
        BY <1>0, <1>2 DEF Resumable, Counted, Shape, TelemetryTypeOK
    <2>2. InOrder(buf, saved, Room)
        BY <2>1, RoomInOrder
    <2>3. PICK b : /\ DiesWith(b) /\ Sound(b)
                   /\ InOrder(b, saved, Room) /\ Novel(b, saved, hand) /\ Agrees(b, saved)
                   /\ Skipped(b) \subseteq Skipped(buf)
                   /\ Due(buf) \cup OrphansOf(buf) \subseteq Due(b) \cup OrphansOf(b) \cup pruned'
        BY <2>1, <2>2, PutDiesResumes
    <2>4. /\ pruned \subseteq pruned' /\ lost \cup Range(hand) \subseteq lost'
          /\ UNCHANGED <<got, retried, failed, vain>>
        BY PutDiesIs
    <2>5. ASSUME NEW e \in EventsOnDisk(b) \ (got' \cup pruned' \cup lost' \cup vain')
          PROVE  Recovers(b, saved, e)
        <3>1. e \in Due(b) \cup OrphansOf(b)
            <4>1. CASE e \in Skipped(b)
                <5>1. e \in EventsOnDisk(buf)
                    BY <2>3, <4>1, OnDiskSplits, SameHistory
                <5>2. e \notin Gone
                    BY <2>4, <2>5 DEF Gone
                <5>3. e \in Due(buf) \cup OrphansOf(buf)
                    BY <1>0, <5>1, <5>2, OnDiskWaits
                <5> QED BY <2>3, <2>5, <5>3
            <4>2. CASE e \notin Skipped(b)
                BY <2>3, <2>5, <4>2, OnDiskSplits
            <4> QED BY <4>1, <4>2
        <3> QED BY <2>1, <2>3, <3>1, WaitingRecovers
    <2>6. Novel(b, saved, <<>>)
        BY <2>3, NovelAlone
    <2>7. b \in Buffer /\ \A p \in Path \ b.files : b.line[p] = <<>>
        BY <2>3 DEF Sound
    <2> QED BY <1>0, <2>3, <2>5, <2>6, <2>7, ResumableDead
<1> QED BY <1>1, <1>2

LEMMA ResumableIfTakeDies ==
    ASSUME Shape, Counted, Balance, Resumable, TakeDies
    PROVE  Resumable'
<1>0. failed' = failed /\ failed \in BOOLEAN /\ hand = <<>>
    BY TakeDiesIs, SameHistory
<1>1. CASE failed
    BY <1>0, <1>1 DEF Resumable
<1>2. CASE ~failed
    <2>1. PICK k \in 1..Popped(buf, Room) :
             /\ k \in 0..Len(buf.queue)
             /\ DiesWith(Consumed(buf, k))
             /\ lost' = lost \cup (EventsOnDisk(buf) \ EventsOnDisk(Consumed(buf, k)))
             /\ EventsOnDisk(Consumed(buf, k)) \subseteq EventsOnDisk(buf)
             /\ Consumed(buf, k) \in Buffer
             /\ \A p \in Path \ Consumed(buf, k).files : Consumed(buf, k).line[p] = <<>>
        BY TakeDiesIs
    <2>2. UNCHANGED <<sec, made, got, pruned, retried, failed, vain>>
        BY TakeDiesIs
    <2> DEFINE n == Room
               b == Consumed(buf, k)
    <2>3. running /\ Sound(buf) /\ n \in Nat \ {0}
        BY <2>1, RoomIs, SameHistory DEF DiesWith
    <2>4. /\ saved = buf.queue /\ saved \in Seq(Entry) /\ LastActive(saved) /\ InOrder(buf, saved, n)
          /\ Novel(buf, saved, hand) /\ Clean(buf)
        BY <1>0, <1>2, <2>3 DEF Resumable, Counted, Shape, TelemetryTypeOK, Front
    <2>5. b.files \subseteq buf.files
          /\ \A p \in Path : b.line[p] = IF p \in Emptied(buf, k) THEN <<>> ELSE buf.line[p]
        BY <2>1, <2>3, ConsumedIs
    <2>6. \A p \in Emptied(buf, k) : p \in b.files => p = Active
        BY <2>1, <2>3, ConsumedIs
    <2>7. \A i \in DOMAIN saved : saved[i].path \in Path
        BY <2>4, EntryOf
    <2> HIDE DEF n
    <2>8. ASSUME NEW e \in EventsOnDisk(b) \ (got' \cup pruned' \cup lost' \cup vain')
          PROVE  Recovers(b, saved, e)
        <3>1. e \in EventsOnDisk(buf) /\ e \notin Gone
            BY <1>0, <2>1, <2>2, <2>8, EmptyHand DEF Gone
        <3>2. e \in Due(buf) \cup OrphansOf(buf)
            BY <2>3, <3>1, OnDiskWaits
        <3> QED BY <2>1, <2>3, <2>4, <2>8, <3>2, ConsumedRecovers DEF n
    <2> HIDE DEF b
    <2>9. InOrder(b, saved, n)
        BY <2>4, <2>5, <2>6, <2>7, InOrderSame
    <2>10. Novel(b, saved, hand)
        <3>1. buf \in Buffer /\ \A p \in Path : b.line[p] = buf.line[p] \/ b.line[p] = <<>>
            BY <2>3, <2>5 DEF Sound
        <3>2. Dims(buf, saved, b, saved)
            BY <2>4, <3>1, SameOffsetsDim
        <3> QED BY <2>4, <3>2, DimmedNovel
    <2>11. DiesWith(b) /\ b \in Buffer /\ \A p \in Path \ b.files : b.line[p] = <<>>
        BY <2>1 DEF b
    <2> QED BY <1>0, <2>8, <2>9, <2>10, <2>11, NovelAlone, ResumableDead DEF n
<1> QED BY <1>1, <1>2

LEMMA ResumableIfRestoreDies ==
    ASSUME Shape, Balance, Resumable, RestoreDies
    PROVE  Resumable'
<1>1. PICK name \in Path : NameFor("restore", name) /\ DiesWith(RestoreWritten(buf, hand, name))
    BY DEF RestoreDies
<1>2. UNCHANGED <<made, got, pruned, lost, retried, failed, vain>>
    BY DEF RestoreDies
<1> DEFINE b == RestoreWritten(buf, hand, name)
<1>3. Sound(buf) /\ hand \in Seq(Event) /\ failed \in BOOLEAN /\ running
    BY <1>1, SameHistory DEF Shape, TelemetryTypeOK, DiesWith
<1>4. name \notin buf.files /\ name # Active
    BY <1>1, NameIs
<1>5. Sound(b)
    BY <1>3, <1>4, RestoreWrittenIs
<1>6. b.files = buf.files \cup {name}
    BY <1>3, <1>4, RestoreWrittenIs
<1>7. \A p \in Path : b.line[p] = IF p = name THEN hand ELSE buf.line[p]
    BY <1>3, <1>4, RestoreWrittenIs
<1>8. ASSUME ~failed'
      PROVE  /\ InOrder(b, saved, Room)
             /\ Novel(b, saved, <<>>)
             /\ \A e \in EventsOnDisk(b) \ (got' \cup pruned' \cup lost' \cup vain') : Recovers(b, saved, e)
    <2>1. /\ saved = buf.queue /\ saved \in Seq(Entry) /\ LastActive(saved) /\ InOrder(buf, saved, Room)
          /\ Novel(buf, saved, hand)
        BY <1>2, <1>3, <1>8, RoomInOrder DEF Resumable, Shape, TelemetryTypeOK
    <2>2. \A i \in DOMAIN saved : saved[i].path \in Path /\ saved[i].path \in buf.files /\ saved[i].path # name
        BY <1>3, <1>4, <2>1, EntryIs DEF Sound
    <2>3. Novel(b, saved, <<>>)
        BY <1>3, <1>4, <2>1, RestoredNovel
    <2> HIDE DEF b
    <2>4. InOrder(b, saved, Room)
        BY <1>7, <2>1, <2>2, InOrderSame
    <2>5. ASSUME NEW e \in EventsOnDisk(b), e \notin got \cup pruned \cup lost \cup vain
          PROVE  Recovers(b, saved, e)
        <3>1. PICK p \in b.files : \E j \in Nat : Holds(b, p, j, e)
            BY <1>5, OnDiskIs DEF Sound
        <3>2. PICK j \in Nat : Holds(b, p, j, e)
            BY <3>1
        <3>3. CASE p = name
            BY <2>2, <3>2, <3>3 DEF Recovers
        <3>4. CASE p # name
            <4>1. p \in buf.files /\ p \in Path
                BY <1>3, <1>6, <3>4 DEF Sound, Buffer
            <4>2. Holds(buf, p, j, e)
                BY <1>7, <3>2, <3>4, <4>1 DEF Holds
            <4>3. e \in Event
                BY <2>5 DEF EventsOnDisk
            <4>4. e \in EventsOnDisk(buf)
                BY <1>3, <4>1, <4>2, <4>3, HeldIsOnDisk
            <4>5. CASE e \in Range(hand)
                <5>1. PICK i \in DOMAIN hand : hand[i] = e
                    BY <4>5 DEF Range
                <5>2. i \in Nat /\ i \in 1..Len(hand)
                    BY <1>3
                <5>3. Holds(b, name, i, e)
                    BY <1>7, <5>1, <5>2 DEF Holds
                <5> QED BY <1>6, <2>2, <5>2, <5>3 DEF Recovers
            <4>6. CASE e \notin Range(hand)
                <5>1. e \in Due(buf) \cup OrphansOf(buf)
                    BY <1>3, <2>5, <4>4, <4>6, OnDiskWaits DEF Gone
                <5>2. Agrees(buf, saved)
                    BY <1>3, <2>1, AgreesItself
                <5>3. Recovers(buf, saved, e)
                    BY <1>3, <2>1, <5>1, <5>2, WaitingRecovers
                <5>4. PICK q \in buf.files : \E i \in Nat :
                         /\ Holds(buf, q, i, e)
                         /\ \A k \in DOMAIN saved : saved[k].path = q =>
                                saved[k].off < i \/ saved[k].off > Len(buf.line[q])
                    BY <5>3 DEF Recovers
                <5>5. q \in Path /\ q # name
                    BY <1>3, <1>4, <5>4 DEF Sound, Buffer
                <5>6. b.line[q] = buf.line[q] /\ q \in b.files
                    BY <1>6, <1>7, <5>5
                <5> QED BY <5>4, <5>6 DEF Recovers, Holds
            <4> QED BY <4>5, <4>6
        <3> QED BY <3>3, <3>4
    <2> QED BY <1>2, <2>3, <2>4, <2>5
<1>9. DiesWith(b) /\ b \in Buffer /\ \A p \in Path \ b.files : b.line[p] = <<>>
    BY <1>1, <1>5 DEF Sound
<1> HIDE DEF b
<1>10. failed' = failed
    BY <1>2
<1> QED BY <1>3, <1>8, <1>9, <1>10, ResumableDead

LEMMA ResumableNext == Shape /\ Counted /\ Balance /\ Resumable /\ [Next]_vars => Resumable'
<1> SUFFICES ASSUME Shape, Counted, Balance, Resumable, [Next]_vars PROVE Resumable'
    OBVIOUS
<1>1. CASE UNCHANGED vars
    BY <1>1 DEF vars, bookkeeping, Resumable, Front, Room, Gone
<1>2. CASE Put
    BY <1>2, ResumableWhilePutting
<1>3. CASE PutFails \/ PutTears \/ RestoreFails
    BY <1>3 DEF PutFails, PutTears, RestoreFails, WriteFails, Resumable
<1>4. CASE PutDies
    BY <1>4, ResumableIfPutDies
<1>5. CASE DayPasses \/ FlushStarts \/ Exported \/ SentInVain
    BY <1>5, ResumableOnceSent
<1>6. CASE Take
    BY <1>6, ResumableWhileTaking
<1>7. CASE TakeDies
    BY <1>7, ResumableIfTakeDies
<1>8. CASE ExportFails
    BY <1>8, ResumableWhileRestoring
<1>9. CASE RestoreDies
    BY <1>9, ResumableIfRestoreDies
<1>10. CASE Dies
    BY <1>10, ResumableAtDeath
<1>11. CASE Starts
    BY <1>11, ResumableAtStart
<1> QED BY <1>1, <1>2, <1>3, <1>4, <1>5, <1>6, <1>7, <1>8, <1>9, <1>10, <1>11 DEF Next

LEMMA ResumableFinds == Shape /\ Balance /\ Resumable => ResumeSkipsNothing
<1> SUFFICES ASSUME Shape, Balance, Resumable, ~failed,
                    NEW e \in EventsOnDisk(buf), e \notin Gone
             PROVE  \/ e \in Due(Loaded(buf, saved))
                    \/ \E p \in buf.files : /\ e \in Range(buf.line[p])
                                            /\ \A k \in DOMAIN saved : saved[k].path # p
    BY DEF ResumeSkipsNothing, Gone, InHand
<1>1. /\ e \in Event /\ Sound(buf) /\ buf \in Buffer /\ (\A p \in Path \ buf.files : buf.line[p] = <<>>)
      /\ saved \in Seq(Entry) /\ Distinct(saved) /\ running \in BOOLEAN
    BY SameHistory DEF EventsOnDisk, Shape, TelemetryTypeOK
<1>2. Recovers(buf, saved, e)
    <2>1. CASE running
        <3>1. e \in Due(buf) \cup OrphansOf(buf) /\ saved = buf.queue
            BY <2>1, OnDiskWaits DEF Resumable
        <3>2. Agrees(buf, saved)
            BY <1>1, <3>1, AgreesItself
        <3> QED BY <1>1, <3>1, <3>2, WaitingRecovers
    <2>2. CASE ~running
        BY <2>2 DEF Resumable
    <2> QED BY <2>1, <2>2
<1> QED BY <1>1, <1>2, ResumeFinds

(* As long as every write succeeds, a process that starts now, wherever the *)
(* last one died, finds every event still due in its queue, unless the file *)
(* of the event is not in the state file at all: no offset skips an event   *)
(* that was not taken.                                                      *)
THEOREM ResumeFindsAll == Spec => []ResumeSkipsNothing
<1>1. Init => Shape /\ Counted /\ Balance /\ Resumable
    BY ShapeInit, CountedInit, BalanceInit, ResumableInit
<1>2. (Shape /\ Counted /\ Balance /\ Resumable) /\ [Next]_vars => (Shape /\ Counted /\ Balance /\ Resumable)'
    BY ShapeNext, CountedNext, BalanceNext, ResumableNext
<1> QED BY <1>1, <1>2, ResumableFinds, PTL DEF Spec
=============================================================================
