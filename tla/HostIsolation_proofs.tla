------------------------ MODULE HostIsolation_proofs ------------------------
(***************************************************************************)
(* Proofs, for any number of isolations, ends of the process and failures, *)
(* and for both firewalls, that no order of commands and timers cuts the   *)
(* manager off and that the state file tells of the rules that stand.      *)
(***************************************************************************)
EXTENDS HostIsolation, Integers, SequenceTheorems, WellFoundedInduction, TLAPS

(* The first element that is e leaves, the others keep their order. *)
LEMMA LeastOfNat ==
    ASSUME NEW S, S \subseteq Nat, S # {}
    PROVE  Min(S) \in S /\ \A n \in S : Min(S) <= n
<1>1. PICK m \in S : \A n \in S : <<n, m>> \notin OpToRel(<, Nat)
  BY NatLessThanWellFounded, WFMin
<1>2. \A n \in S : m <= n
  <2> TAKE n \in S
  <2>1. <<n, m>> \in Nat \X Nat /\ <<n, m>>[1] = n /\ <<n, m>>[2] = m
    OBVIOUS
  <2>2. ~(n < m)
    BY <1>1, <2>1 DEF OpToRel
  <2> QED
    BY <2>2
<1> QED
  BY <1>1, <1>2 DEF Min

Leaves(c, i, d) ==
    /\ d \in Seq({"drop", "allow"})
    /\ Len(d) = Len(c) - 1
    /\ \A j \in 1 .. Len(d) : d[j] = IF j < i THEN c[j] ELSE c[j + 1]

LEMMA FirstLeaves ==
    ASSUME NEW c \in Seq({"drop", "allow"}), NEW e
    PROVE  \/ /\ \A i \in 1 .. Len(c) : c[i] # e
              /\ RemoveFirst(c, e) = c
           \/ \E i \in 1 .. Len(c) :
                /\ c[i] = e
                /\ \A j \in 1 .. Len(c) : c[j] = e => i <= j
                /\ Leaves(c, i, RemoveFirst(c, e))
<1>1. CASE \A i \in 1 .. Len(c) : c[i] # e
  BY <1>1 DEF RemoveFirst
<1>2. CASE \E i \in 1 .. Len(c) : c[i] = e
  <2> DEFINE I == {i \in 1 .. Len(c) : c[i] = e}
             i == Min(I)
  <2>1. I \subseteq Nat /\ I # {}
    BY <1>2
  <2>2. RemoveFirst(c, e) = SubSeq(c, 1, i - 1) \o SubSeq(c, i + 1, Len(c))
    BY <1>2 DEF RemoveFirst, RemoveAt, SelectInSeq
  <2>3. i \in I /\ \A j \in I : i <= j
    <3> HIDE DEF I
    <3> QED
      BY <2>1, LeastOfNat
  <2>4. /\ i \in 1 .. Len(c) /\ c[i] = e
        /\ \A j \in 1 .. Len(c) : c[j] = e => i <= j
    BY <2>3
  <2> HIDE DEF i
  <2> DEFINE front == SubSeq(c, 1, i - 1)
             back == SubSeq(c, i + 1, Len(c))
  <2>5. /\ front \in Seq({"drop", "allow"}) /\ Len(front) = i - 1
        /\ \A j \in 1 .. i - 1 : front[j] = c[j]
    BY <2>4, SubSeqProperties
  <2>6. /\ back \in Seq({"drop", "allow"}) /\ Len(back) = Len(c) - i
        /\ \A j \in 1 .. Len(c) - i : back[j] = c[i + j]
    BY <2>4, SubSeqProperties
  <2> HIDE DEF front, back
  <2>7. /\ front \o back \in Seq({"drop", "allow"})
        /\ Len(front \o back) = Len(c) - 1
        /\ \A j \in 1 .. Len(c) - 1 :
              (front \o back)[j] = IF j < i THEN front[j] ELSE back[j - (i - 1)]
    <3>1. Len(front) + Len(back) = Len(c) - 1 /\ Len(front) = i - 1
      BY <2>4, <2>5, <2>6
    <3>2. \A j \in 1 .. Len(c) - 1 : j <= i - 1 <=> j < i
      BY <2>4
    <3> QED
      BY <2>5, <2>6, <3>1, <3>2, ConcatProperties
  <2>8. ASSUME NEW j \in 1 .. Len(c) - 1
        PROVE  (front \o back)[j] = IF j < i THEN c[j] ELSE c[j + 1]
    <3>1. CASE j < i
      <4>1. j \in 1 .. i - 1
        BY <2>4, <3>1
      <4> QED
        BY <2>5, <2>7, <3>1, <4>1
    <3>2. CASE j >= i
      <4>1. /\ j - (i - 1) \in 1 .. Len(c) - i /\ i + (j - (i - 1)) = j + 1
            /\ ~(j < i)
        BY <2>4, <3>2
      <4> QED
        BY <2>6, <2>7, <4>1
    <3>3. j < i \/ j >= i
      BY <2>4
    <3> QED
      BY <3>1, <3>2, <3>3
  <2>9. Leaves(c, i, front \o back)
    BY <2>7, <2>8 DEF Leaves
  <2> QED
    BY <2>2, <2>4, <2>9 DEF front, back
<1> QED
  BY <1>1, <1>2

-----------------------------------------------------------------------------
LEMMA Prepends ==
    ASSUME NEW c \in Seq({"drop", "allow"}), NEW r \in {"drop", "allow"}
    PROVE  /\ <<r>> \o c \in Seq({"drop", "allow"})
           /\ Len(<<r>> \o c) = Len(c) + 1
           /\ (<<r>> \o c)[1] = r
           /\ \A j \in 2 .. Len(c) + 1 : (<<r>> \o c)[j] = c[j - 1]
OBVIOUS
-----------------------------------------------------------------------------
(* What a thread has to do: the steps that may follow one another, given the *)
(* record it will write.  Rules are only applied for an isolation, and a     *)
(* timer is only started for one with an end.                                *)
Order(r) ==
    {<<"unallow", "undrop">>, <<"truncate", "write">>}
        \cup (IF r.iso THEN {<<"undrop", "drop">>, <<"drop", "allow">>, <<"allow", "truncate">>,
                             <<"allow", "unallow">>}
                       ELSE {<<"undrop", "truncate">>})
        \cup (IF r.until # 0 THEN {<<"allow", "arm">>, <<"arm", "truncate">>} ELSE {})

Orderly(s, r) ==
    /\ \A i \in 1 .. Len(s) - 1 : <<s[i], s[i + 1]>> \in Order(r)
    /\ s # <<>> => s[Len(s)] \in {"write", "undrop"}

Typed ==
    /\ IsolationTypeOK
    /\ \A t \in Thread : Orderly(todo[t], writes[t])
    /\ ~alive => Quiet

LEMMA GoesOn ==
    ASSUME NEW s \in Seq(Step), s # <<>>, NEW r, Orderly(s, r)
    PROVE  /\ Head(s) \in Step /\ Head(s) = s[1] /\ Tail(s) \in Seq(Step) /\ Orderly(Tail(s), r)
           /\ Tail(s) = <<>> => Head(s) \in {"write", "undrop"}
           /\ Tail(s) # <<>> => /\ <<Head(s), Head(Tail(s))>> \in Order(r)
                               /\ Head(Tail(s)) = s[2]
<1>1. /\ Len(s) \in Nat \ {0} /\ Head(s) \in Step /\ Head(s) = s[1] /\ Tail(s) \in Seq(Step)
      /\ Len(Tail(s)) = Len(s) - 1 /\ \A i \in 1 .. Len(Tail(s)) : Tail(s)[i] = s[i + 1]
  BY HeadTailProperties, EmptySeq
<1>2. Orderly(Tail(s), r)
  <2>1. ASSUME NEW i \in 1 .. Len(Tail(s)) - 1
        PROVE  <<Tail(s)[i], Tail(s)[i + 1]>> \in Order(r)
    <3>1. /\ i + 1 \in 1 .. Len(s) - 1
          /\ Tail(s)[i] = s[i + 1] /\ Tail(s)[i + 1] = s[(i + 1) + 1]
      BY <1>1
    <3> QED
      BY <3>1 DEF Orderly
  <2>2. ASSUME Tail(s) # <<>> PROVE Tail(s)[Len(Tail(s))] \in {"write", "undrop"}
    <3>1. Tail(s)[Len(Tail(s))] = s[Len(s)]
      BY <1>1, <2>2, EmptySeq
    <3> QED
      BY <3>1 DEF Orderly
  <2> QED
    BY <2>1, <2>2 DEF Orderly
<1>3. Tail(s) = <<>> => Len(s) = 1
  BY <1>1
<1>4. Tail(s) = <<>> => Head(s) \in {"write", "undrop"}
  BY <1>1, <1>3 DEF Orderly
<1>5. Tail(s) # <<>> => 1 \in 1 .. Len(s) - 1 /\ Head(Tail(s)) = s[1 + 1]
  BY <1>1, EmptySeq
<1>6. Tail(s) # <<>> => <<s[1], s[1 + 1]>> \in Order(r)
  BY <1>5 DEF Orderly
<1>7. Tail(s) # <<>> => <<Head(s), Head(Tail(s))>> \in Order(r) /\ Head(Tail(s)) = s[2]
  <2>1. /\ Tail(s) # <<>> => Head(Tail(s)) = s[1 + 1]
        /\ Head(s) = s[1] /\ 1 + 1 = 2
    BY <1>1, <1>5
  <2> QED
    BY <1>6, <2>1
<1> QED
  BY <1>1, <1>2, <1>4, <1>7

(* The lists are put together from lists that begin with a and end with z. *)
Track(s, r, a, z) ==
    /\ s \in Seq(Step) /\ s # <<>> /\ Len(s) \in Nat \ {0}
    /\ s[1] = a /\ s[Len(s)] = z
    /\ \A i \in 1 .. Len(s) - 1 : <<s[i], s[i + 1]>> \in Order(r)

LEMMA Tracks ==
    ASSUME NEW r
    PROVE  /\ Track(RemoveRules, r, "unallow", "undrop")
           /\ Track(SaveState, r, "truncate", "write")
           /\ r.iso => Track(ApplyRules, r, "drop", "allow")
           /\ Track(<<"arm">>, r, "arm", "arm") /\ Track(<<"allow">>, r, "allow", "allow")
<1>1. Track(RemoveRules, r, "unallow", "undrop")
  <2>1. <<"unallow", "undrop">> \in Order(r)
    BY DEF Order
  <2> QED
    BY <2>1 DEF Track, RemoveRules, Step
<1>2. Track(SaveState, r, "truncate", "write")
  <2>1. <<"truncate", "write">> \in Order(r)
    BY DEF Order
  <2> QED
    BY <2>1 DEF Track, SaveState, Step
<1>3. r.iso => Track(ApplyRules, r, "drop", "allow")
  <2>1. r.iso => <<"drop", "allow">> \in Order(r)
    BY DEF Order
  <2> QED
    BY <2>1 DEF Track, ApplyRules, Step
<1>4. Track(<<"arm">>, r, "arm", "arm")
  BY DEF Track, Step
<1>5. Track(<<"allow">>, r, "allow", "allow")
  BY DEF Track, Step
<1> QED
  BY <1>1, <1>2, <1>3, <1>4, <1>5

LEMMA TracksJoin ==
    ASSUME NEW r, NEW a, NEW b, NEW c, NEW z, NEW s, NEW t,
           Track(s, r, a, b), Track(t, r, c, z), <<b, c>> \in Order(r)
    PROVE  Track(s \o t, r, a, z)
<1> DEFINE st == s \o t
           n == Len(s)
           k == Len(t)
<1>1. /\ s \in Seq(Step) /\ t \in Seq(Step) /\ n \in Nat \ {0} /\ k \in Nat \ {0}
      /\ s[1] = a /\ s[n] = b /\ t[1] = c /\ t[k] = z
      /\ \A i \in 1 .. n - 1 : <<s[i], s[i + 1]>> \in Order(r)
      /\ \A i \in 1 .. k - 1 : <<t[i], t[i + 1]>> \in Order(r)
  BY DEF Track
<1>2. /\ st \in Seq(Step) /\ Len(st) = n + k
      /\ \A i \in 1 .. n + k : st[i] = IF i <= n THEN s[i] ELSE t[i - n]
  BY <1>1, ConcatProperties
<1> HIDE DEF st, n, k
<1>3. st[1] = a /\ st[n + k] = z /\ st[n] = b /\ st[n + 1] = c
  <2>1. /\ 1 \in 1 .. n + k /\ n \in 1 .. n + k /\ n + 1 \in 1 .. n + k /\ n + k \in 1 .. n + k
        /\ 1 <= n /\ n <= n /\ ~(n + 1 <= n) /\ ~(n + k <= n)
        /\ (n + 1) - n = 1 /\ (n + k) - n = k
    BY <1>1
  <2> QED
    BY <1>1, <1>2, <2>1
<1>4. ASSUME NEW i \in 1 .. n + k - 1 PROVE <<st[i], st[i + 1]>> \in Order(r)
  <2>1. CASE i < n
    <3>1. i \in 1 .. n - 1 /\ i \in 1 .. n + k /\ i + 1 \in 1 .. n + k /\ i <= n /\ i + 1 <= n
      BY <1>1, <2>1
    <3> QED
      BY <1>1, <1>2, <3>1
  <2>2. CASE i = n
    BY <1>3, <2>2
  <2>3. CASE i > n
    <3>1. /\ i - n \in 1 .. k - 1 /\ i \in 1 .. n + k /\ i + 1 \in 1 .. n + k
          /\ ~(i <= n) /\ ~(i + 1 <= n) /\ (i + 1) - n = (i - n) + 1
      BY <1>1, <2>3
    <3>2. st[i] = t[i - n] /\ st[i + 1] = t[(i - n) + 1]
      BY <1>2, <3>1
    <3> QED
      BY <1>1, <3>1, <3>2
  <2> QED
    BY <1>1, <2>1, <2>2, <2>3
<1>5. Track(st, r, a, z)
  <2>1. st # <<>> /\ Len(st) \in Nat \ {0}
    BY <1>1, <1>2
  <2>2. st[Len(st)] = z /\ \A i \in 1 .. Len(st) - 1 : <<st[i], st[i + 1]>> \in Order(r)
    BY <1>1, <1>2, <1>3, <1>4
  <2> QED
    BY <1>2, <1>3, <2>1, <2>2 DEF Track
<1> QED
  BY <1>5 DEF st

LEMMA TrackIsOrderly ==
    ASSUME NEW s, NEW r, NEW a, NEW z \in {"write", "undrop"}, Track(s, r, a, z)
    PROVE  s \in Seq(Step) /\ s # <<>> /\ Head(s) = a /\ Orderly(s, r)
<1>1. Head(s) = s[1]
  BY HeadTailProperties DEF Track
<1> QED
  BY <1>1 DEF Track, Orderly

LEMMA LiftingIsOrderly ==
    ASSUME NEW r, ~r.iso
    PROVE  /\ RemoveRules \o SaveState \in Seq(Step) /\ RemoveRules \o SaveState # <<>>
           /\ Head(RemoveRules \o SaveState) = "unallow"
           /\ Orderly(RemoveRules \o SaveState, r)
<1>1. <<"undrop", "truncate">> \in Order(r)
  BY DEF Order
<1>2. Track(RemoveRules \o SaveState, r, "unallow", "write")
  BY <1>1, Tracks, TracksJoin
<1> QED
  BY <1>2, TrackIsOrderly

LEMMA RevertingIsOrderly ==
    ASSUME NEW r, r.iso
    PROVE  /\ RemoveRules \in Seq(Step) /\ RemoveRules # <<>>
           /\ Orderly(RemoveRules, r)
           /\ Head(RemoveRules) = "unallow"
           /\ <<>> \o RemoveRules = RemoveRules
           /\ <<"allow">> \o RemoveRules \in Seq(Step) /\ <<"allow">> \o RemoveRules # <<>>
           /\ Orderly(<<"allow">> \o RemoveRules, r)
           /\ Head(<<"allow">> \o RemoveRules) = "allow"
           /\ (<<"allow">> \o RemoveRules)[2] = "unallow"
<1>1. <<"allow", "unallow">> \in Order(r)
  BY DEF Order
<1>2. /\ Track(<<"allow">> \o RemoveRules, r, "allow", "undrop")
      /\ (<<"allow">> \o RemoveRules)[2] = "unallow"
  <2> DEFINE one == <<"allow">>
  <2>1. Len(one) = 1
    OBVIOUS
  <2>2. Track(one, r, "allow", "allow") /\ Track(RemoveRules, r, "unallow", "undrop")
    BY Tracks
  <2> HIDE DEF one
  <2>3. Track(one \o RemoveRules, r, "allow", "undrop")
    BY <1>1, <2>2, TracksJoin
  <2>4. (one \o RemoveRules)[2] = "unallow"
    <3>1. /\ one \in Seq(Step) /\ RemoveRules \in Seq(Step) /\ Len(RemoveRules) \in Nat \ {0}
          /\ RemoveRules[1] = "unallow"
      BY <2>2 DEF Track
    <3>2. 2 \in 1 .. Len(one) + Len(RemoveRules) /\ ~(2 <= Len(one)) /\ 2 - Len(one) = 1
      BY <2>1, <3>1
    <3> QED
      BY <3>1, <3>2, ConcatProperties
  <2> QED
    BY <2>3, <2>4 DEF one
<1>3. Track(RemoveRules, r, "unallow", "undrop")
  BY Tracks
<1>4. <<>> \o RemoveRules = RemoveRules
  BY <1>3, ConcatEmptySeq DEF Track
<1>5. /\ RemoveRules \in Seq(Step) /\ RemoveRules # <<>> /\ Orderly(RemoveRules, r)
      /\ Head(RemoveRules) = "unallow"
  BY <1>3, TrackIsOrderly
<1>6. /\ <<"allow">> \o RemoveRules \in Seq(Step) /\ <<"allow">> \o RemoveRules # <<>>
      /\ Orderly(<<"allow">> \o RemoveRules, r) /\ Head(<<"allow">> \o RemoveRules) = "allow"
  BY <1>2, TrackIsOrderly
<1> QED
  BY <1>2, <1>4, <1>5, <1>6

LEMMA IsolatingIsOrderly ==
    ASSUME NEW timed \in BOOLEAN, NEW r, r.iso, timed => r.until # 0
    PROVE  /\ StepsOfIsolate(timed) \in Seq(Step) /\ StepsOfIsolate(timed) # <<>>
           /\ Orderly(StepsOfIsolate(timed), r)
           /\ Head(StepsOfIsolate(timed)) = IF disk.iso THEN "unallow" ELSE "drop"
<1> DEFINE first == IF disk.iso THEN "unallow" ELSE "drop"
           rules == (IF disk.iso THEN RemoveRules ELSE <<>>) \o ApplyRules
           timer == IF timed THEN <<"arm">> ELSE <<>>
<1>1. Track(rules, r, first, "allow")
  <2>1. <<"undrop", "drop">> \in Order(r)
    BY DEF Order
  <2>2. CASE disk.iso
    BY <2>1, <2>2, Tracks, TracksJoin
  <2>3. CASE ~disk.iso
    <3>1. Track(ApplyRules, r, "drop", "allow")
      BY Tracks
    <3>2. <<>> \o ApplyRules = ApplyRules
      BY <3>1, ConcatEmptySeq DEF Track
    <3> QED
      BY <2>3, <3>1, <3>2
  <2> QED
    BY <2>2, <2>3
<1> HIDE DEF rules, first
<1>2. Track(rules \o timer, r, first, IF timed THEN "arm" ELSE "allow")
  <2>1. CASE timed
    <3>1. <<"allow", "arm">> \in Order(r)
      BY <2>1 DEF Order
    <3> QED
      BY <1>1, <2>1, <3>1, Tracks, TracksJoin
  <2>2. CASE ~timed
    <3>1. rules \o <<>> = rules
      BY <1>1, ConcatEmptySeq DEF Track
    <3> QED
      BY <1>1, <2>2, <3>1
  <2> QED
    BY <2>1, <2>2
<1>3. <<IF timed THEN "arm" ELSE "allow", "truncate">> \in Order(r)
  BY DEF Order
<1> HIDE DEF timer
<1>4. Track((rules \o timer) \o SaveState, r, first, "write")
  BY <1>2, <1>3, Tracks, TracksJoin
<1>5. StepsOfIsolate(timed) = (rules \o timer) \o SaveState
  BY DEF StepsOfIsolate, rules, timer
<1>6. StepsOfIsolate(timed) \in Seq(Step) /\ StepsOfIsolate(timed) # <<>>
      /\ Orderly(StepsOfIsolate(timed), r) /\ Head(StepsOfIsolate(timed)) = first
  BY <1>4, <1>5, TrackIsOrderly
<1> QED
  BY <1>6 DEF first

-----------------------------------------------------------------------------
(* Types. *)
LEMMA ChainTyped ==
    ASSUME Typed, NEW rule \in {"drop", "allow"}
    PROVE  Inserted(rule) \in Seq({"drop", "allow"}) /\ Deleted(rule) \in Seq({"drop", "allow"})
<1>1. chain \in Seq({"drop", "allow"})
  BY DEF Typed, IsolationTypeOK
<1>2. Inserted(rule) \in Seq({"drop", "allow"})
  BY <1>1, Prepends DEF Inserted
<1>3. RemoveFirst(chain, rule) \in Seq({"drop", "allow"})
  BY <1>1, FirstLeaves DEF Leaves
<1> QED
  BY <1>2, <1>3 DEF Deleted

LEMMA HeadTells ==
    ASSUME Typed, NEW t \in Thread, Busy(t)
    PROVE  /\ Head(todo[t]) \in Step
           /\ Tail(todo[t]) \in Seq(Step) /\ Orderly(Tail(todo[t]), writes[t])
           /\ Tail(todo[t]) = <<>> => Head(todo[t]) \in {"write", "undrop"}
           /\ Tail(todo[t]) # <<>> =>
                <<Head(todo[t]), Head(Tail(todo[t]))>> \in Order(writes[t])
           /\ Tail(todo[t]) # <<>> => Head(Tail(todo[t])) = todo[t][2]
           /\ Head(todo[t]) \in {"drop", "allow"} => writes[t].iso
           /\ Head(todo[t]) = "arm" => writes[t].until # 0
<1>1. todo[t] \in Seq(Step) /\ todo[t] # <<>> /\ Orderly(todo[t], writes[t])
  BY DEF Typed, IsolationTypeOK, Busy
<1>2. writes[t] \in Record
  BY DEF Typed, IsolationTypeOK
<1>3. /\ Head(todo[t]) \in Step /\ Tail(todo[t]) \in Seq(Step)
      /\ Orderly(Tail(todo[t]), writes[t])
      /\ Tail(todo[t]) = <<>> => Head(todo[t]) \in {"write", "undrop"}
      /\ Tail(todo[t]) # <<>> =>
            /\ <<Head(todo[t]), Head(Tail(todo[t]))>> \in Order(writes[t])
            /\ Head(Tail(todo[t])) = todo[t][2]
  BY <1>1, GoesOn
<1>4. /\ Head(todo[t]) \in {"drop", "allow"} => writes[t].iso
      /\ Head(todo[t]) = "arm" => writes[t].until # 0
  BY <1>2, <1>3 DEF Order, Record
<1> QED
  BY <1>3, <1>4

LEMMA GoesTyped ==
    ASSUME Typed, NEW t \in Thread, Busy(t), Goes(t), writes' = writes
    PROVE  /\ todo' \in [Thread -> Seq(Step)]
           /\ \A u \in Thread : Orderly(todo'[u], writes'[u])
           /\ todo'[t] = Tail(todo[t]) /\ \A u \in Thread \ {t} : todo'[u] = todo[u]
<1>1. todo \in [Thread -> Seq(Step)] /\ \A u \in Thread : Orderly(todo[u], writes[u])
  BY DEF Typed, IsolationTypeOK
<1>2. todo'[t] = Tail(todo[t]) /\ \A u \in Thread \ {t} : todo'[u] = todo[u]
  BY <1>1 DEF Goes
<1>3. todo' \in [Thread -> Seq(Step)]
  BY <1>1, HeadTells DEF Goes
<1>4. \A u \in Thread : Orderly(todo'[u], writes'[u])
  BY <1>1, <1>2, HeadTells
<1> QED
  BY <1>2, <1>3, <1>4

LEMMA StartsTyped ==
    ASSUME Typed, NEW t \in Thread, NEW s \in Seq(Step), NEW r \in Record, Orderly(s, r),
           Starts(t, s, r)
    PROVE  /\ todo' \in [Thread -> Seq(Step)] /\ writes' \in [Thread -> Record]
           /\ \A u \in Thread : Orderly(todo'[u], writes'[u])
           /\ todo'[t] = s /\ writes'[t] = r
           /\ \A u \in Thread \ {t} : todo'[u] = todo[u] /\ writes'[u] = writes[u]
           /\ raced' \in BOOLEAN
<1>1. /\ todo \in [Thread -> Seq(Step)] /\ writes \in [Thread -> Record]
      /\ \A u \in Thread : Orderly(todo[u], writes[u]) /\ raced \in BOOLEAN
  BY DEF Typed, IsolationTypeOK
<1>2. /\ todo' = [todo EXCEPT ![t] = s] /\ writes' = [writes EXCEPT ![t] = r]
      /\ raced' = (raced \/ \E u \in Thread \ {t} : Busy(u))
  BY DEF Starts
<1>3. /\ todo' \in [Thread -> Seq(Step)] /\ writes' \in [Thread -> Record]
      /\ todo'[t] = s /\ writes'[t] = r
      /\ \A u \in Thread \ {t} : todo'[u] = todo[u] /\ writes'[u] = writes[u]
  BY <1>1, <1>2
<1>4. raced' \in BOOLEAN
  BY <1>1, <1>2
<1> QED
  BY <1>1, <1>3, <1>4

LEMMA RevertsTyped ==
    ASSUME Typed, NEW t \in Thread, NEW s \in Seq(Step), Orderly(s, writes[t]),
           todo' = [todo EXCEPT ![t] = s], writes' = writes
    PROVE  /\ todo' \in [Thread -> Seq(Step)]
           /\ \A u \in Thread : Orderly(todo'[u], writes'[u])
           /\ todo'[t] = s /\ \A u \in Thread \ {t} : todo'[u] = todo[u]
BY DEF Typed, IsolationTypeOK

LEMMA TypedInit == Init => Typed
<1> SUFFICES ASSUME Init PROVE Typed
  OBVIOUS
<1>1. Free \in Record
  BY DEF Free, Record
<1>2. <<>> \in Seq({"drop", "allow"}) /\ <<>> \in Seq(Step)
  OBVIOUS
<1>3. IsolationTypeOK
  <2>1. /\ backend \in Backends /\ alive \in BOOLEAN /\ chain \in Seq({"drop", "allow"})
        /\ disk \in Record /\ armed \subseteq Isolation /\ due \subseteq Isolation
    BY <1>1, <1>2 DEF Init
  <2>2. todo \in [Thread -> Seq(Step)] /\ writes \in [Thread -> Record]
    BY <1>1, <1>2 DEF Init
  <2>3. issued \in 0..MaxIsolate /\ deaths \in 0..MaxDeath /\ failures \in 0..MaxFailure
    BY IsolationAssumption DEF Init
  <2>4. promise \in {0} \cup Isolation /\ {cut, raced, stuck, refused} \subseteq BOOLEAN
    BY DEF Init
  <2> QED
    BY <2>1, <2>2, <2>3, <2>4 DEF IsolationTypeOK
<1>4. \A t \in Thread : Orderly(todo[t], writes[t])
  BY DEF Init, Orderly
<1> QED
  BY <1>3, <1>4 DEF Typed, Init

LEMMA TypedNext == Typed /\ [Next]_vars => Typed'
<1> SUFFICES ASSUME Typed, [Next]_vars PROVE Typed'
  OBVIOUS
<1> USE DEF Typed, IsolationTypeOK
<1>0. /\ Main \in Thread /\ Isolation \subseteq Thread /\ MaxIsolate \in Nat
      /\ Cleared(disk) \in Record /\ ~Cleared(disk).iso /\ Free \in Record
  BY IsolationAssumption DEF Thread, Main, Cleared, Record, Free, Isolation
<1>1. ASSUME NEW timed \in BOOLEAN, Isolate(timed) PROVE Typed'
  <2> DEFINE r == [iso |-> TRUE, until |-> IF timed THEN issued' ELSE 0]
  <2>1. issued' \in 0 .. MaxIsolate /\ issued' \in Isolation
    BY <1>0, <1>1 DEF Isolate, Isolation
  <2>2. r \in Record /\ r.iso /\ (timed => r.until # 0)
    BY <2>1 DEF Record, Isolation
  <2>3. Starts(Main, StepsOfIsolate(timed), r)
    BY <1>1 DEF Isolate
  <2> HIDE DEF r
  <2>4. StepsOfIsolate(timed) \in Seq(Step) /\ Orderly(StepsOfIsolate(timed), r)
    BY <2>2, IsolatingIsOrderly
  <2>5. /\ todo' \in [Thread -> Seq(Step)] /\ writes' \in [Thread -> Record]
        /\ \A u \in Thread : Orderly(todo'[u], writes'[u])
        /\ raced' \in BOOLEAN
    BY <1>0, <2>2, <2>3, <2>4, StartsTyped
  <2>6. alive' /\ UNCHANGED <<backend, alive, chain, disk, armed, due, deaths, cut, stuck,
                             refused, failures>> /\ promise' = 0
    BY <1>1 DEF Isolate, Commanded
  <2> QED
    BY <2>1, <2>5, <2>6
<1>2. ASSUME NEW t \in Thread, alive, Starts(t, RemoveRules \o SaveState, Cleared(disk)),
             promise' \in {0, promise},
             UNCHANGED <<backend, alive, chain, disk, armed, due, issued, deaths, cut,
                         stuck, refused, failures>>
      PROVE  Typed'
  <2>1. RemoveRules \o SaveState \in Seq(Step) /\ Orderly(RemoveRules \o SaveState, Cleared(disk))
    BY <1>0, LiftingIsOrderly
  <2>2. /\ todo' \in [Thread -> Seq(Step)] /\ writes' \in [Thread -> Record]
        /\ \A u \in Thread : Orderly(todo'[u], writes'[u])
        /\ raced' \in BOOLEAN
    BY <1>0, <1>2, <2>1, StartsTyped
  <2> QED
    BY <1>2, <2>2
<1>3. ASSUME Restore PROVE Typed'
  BY <1>0, <1>2, <1>3 DEF Restore, Commanded
<1>4. ASSUME NEW g \in Isolation, TimerFires(g) PROVE Typed'
  BY <1>0, <1>2, <1>4 DEF TimerFires
<1>5. ASSUME NEW t \in Thread, Applies(t) \/ Arms(t) \/ Undoes(t) \/ UndoFails(t)
                               \/ Truncates(t) \/ Writes(t)
      PROVE  Typed'
  <2>1. alive /\ Busy(t) /\ Goes(t) /\ writes' = writes /\ alive' = alive
    BY <1>5 DEF Applies, Arms, Undoes, UndoFails, Truncates, Writes, At
  <2>2. todo' \in [Thread -> Seq(Step)] /\ \A u \in Thread : Orderly(todo'[u], writes'[u])
    BY <2>1, GoesTyped
  <2>3. chain' \in Seq({"drop", "allow"})
    <3>1. CASE Applies(t)
      <4>1. Head(todo[t]) \in {"drop", "allow"} /\ chain' = Inserted(Head(todo[t]))
        BY <3>1 DEF Applies, At
      <4> QED
        BY <4>1, ChainTyped
    <3>2. CASE Undoes(t)
      BY <3>2, ChainTyped DEF Undoes
    <3> QED
      BY <1>5, <3>1, <3>2 DEF Arms, UndoFails, Truncates, Writes
  <2>4. disk' \in Record
    BY <1>0, <1>5 DEF Applies, Arms, Undoes, UndoFails, Truncates, Writes
  <2>5. armed' \subseteq Isolation
    <3>1. Arms(t) => writes[t].until # 0 /\ writes[t].until \in {0} \cup Isolation
      BY HeadTells DEF Arms, At, Record
    <3> QED
      BY <1>5, <3>1 DEF Applies, Arms, Undoes, UndoFails, Truncates, Writes
  <2>6. promise' \in {0} \cup Isolation
    BY <1>0, <1>5 DEF Applies, Arms, Undoes, UndoFails, Truncates, Writes, history, Isolation
  <2>7. failures' \in 0 .. MaxFailure /\ {cut', raced', stuck', refused'} \subseteq BOOLEAN
    <3>1. failures' = failures \/ (failures < MaxFailure /\ failures' = failures + 1)
      BY <1>5 DEF Applies, Arms, Undoes, UndoFails, Truncates, Writes
    <3>2. failures' \in 0 .. MaxFailure
      BY <3>1, IsolationAssumption
    <3>3. cut' = cut /\ raced' = raced /\ refused' = refused /\ (stuck' = stuck \/ stuck' = TRUE)
      BY <1>5 DEF Applies, Arms, Undoes, UndoFails, Truncates, Writes, history
    <3> QED
      BY <3>2, <3>3
  <2>8. UNCHANGED <<backend, due, issued, deaths>>
    BY <1>5 DEF Applies, Arms, Undoes, UndoFails, Truncates, Writes
  <2> QED
    BY <2>1, <2>2, <2>3, <2>4, <2>5, <2>6, <2>7, <2>8
<1>6. ASSUME NEW t \in Thread, ApplyFails(t) PROVE Typed'
  <2> DEFINE s == (IF Head(todo[t]) = "drop" THEN <<"allow">> ELSE <<>>) \o RemoveRules
  <2>1. /\ alive /\ Busy(t) /\ Head(todo[t]) \in {"drop", "allow"}
        /\ todo' = [todo EXCEPT ![t] = s] /\ writes' = writes
        /\ chain' \in {chain, Inserted(Head(todo[t]))}
        /\ failures' = failures + 1 /\ failures < MaxFailure /\ refused' = TRUE
        /\ UNCHANGED <<backend, alive, disk, writes, armed, due, issued, deaths,
                       promise, cut, raced, stuck>>
    BY <1>6 DEF ApplyFails, At
  <2>2. s \in Seq(Step) /\ Orderly(s, writes[t])
    BY <2>1, HeadTells, RevertingIsOrderly
  <2> HIDE DEF s
  <2>3. todo' \in [Thread -> Seq(Step)] /\ \A u \in Thread : Orderly(todo'[u], writes'[u])
    BY <2>1, <2>2, RevertsTyped
  <2>4. chain' \in Seq({"drop", "allow"})
    BY <2>1, ChainTyped
  <2>5. failures' \in 0 .. MaxFailure
    BY <2>1, IsolationAssumption
  <2> QED
    BY <2>1, <2>3, <2>4, <2>5
<1>7. ASSUME NEW t \in Thread, SaveFails(t) PROVE Typed'
  <2> DEFINE s == IF writes[t].iso THEN RemoveRules ELSE <<>>
  <2>1. /\ alive /\ todo' = [todo EXCEPT ![t] = s] /\ writes' = writes
        /\ failures' = failures + 1 /\ failures < MaxFailure
        /\ armed' = armed \ {t}
        /\ UNCHANGED <<backend, alive, chain, disk, writes, due, issued, deaths,
                       history>>
    BY <1>7 DEF SaveFails, At
  <2>2. s \in Seq(Step) /\ Orderly(s, writes[t])
    BY RevertingIsOrderly DEF Orderly
  <2> HIDE DEF s
  <2>3. todo' \in [Thread -> Seq(Step)] /\ \A u \in Thread : Orderly(todo'[u], writes'[u])
    BY <2>1, <2>2, RevertsTyped
  <2>4. failures' \in 0 .. MaxFailure
    BY <2>1, IsolationAssumption
  <2> QED
    BY <2>1, <2>3, <2>4 DEF history
<1>8. ASSUME NEW g \in Isolation, DeadlinePasses(g) PROVE Typed'
  BY <1>8 DEF DeadlinePasses, history, Quiet, Busy
<1>9. ASSUME NEW reboot \in BOOLEAN, Dies(reboot) PROVE Typed'
  <2>1. /\ todo' = [t \in Thread |-> <<>>] /\ armed' = {} /\ chain' \in {<<>>, chain}
        /\ deaths' = deaths + 1 /\ deaths < MaxDeath /\ cut' = (cut \/ ~Quiet) /\ ~alive'
        /\ UNCHANGED <<backend, disk, writes, due, issued, promise, raced, stuck,
                       refused, failures>>
    BY <1>9 DEF Dies
  <2>2. /\ todo' \in [Thread -> Seq(Step)] /\ \A u \in Thread : Orderly(todo'[u], writes'[u])
        /\ Quiet'
    BY <2>1 DEF Orderly, Quiet, Busy
  <2>3. deaths' \in 0 .. MaxDeath
    BY <2>1, IsolationAssumption
  <2>4. chain' \in Seq({"drop", "allow"})
    <3>1. <<>> \in Seq({"drop", "allow"})
      OBVIOUS
    <3> QED
      BY <2>1, <3>1
  <2>5. cut' \in BOOLEAN
    BY <2>1
  <2>6. alive' = FALSE /\ armed' \subseteq Isolation
    BY <1>9, <2>1 DEF Dies
  <2> QED
    BY <2>1, <2>2, <2>3, <2>4, <2>5, <2>6
<1>10. ASSUME Boots PROVE Typed'
  <2>1. /\ alive' /\ armed' \subseteq Isolation
        /\ UNCHANGED <<backend, chain, disk, due, issued, deaths, promise, cut,
                       stuck, refused, failures>>
    BY <1>10 DEF Boots, Record
  <2>2. CASE Starts(Main, RemoveRules \o SaveState, Cleared(disk))
    <3>1. RemoveRules \o SaveState \in Seq(Step) /\ Orderly(RemoveRules \o SaveState, Cleared(disk))
      BY <1>0, LiftingIsOrderly
    <3>2. /\ todo' \in [Thread -> Seq(Step)] /\ writes' \in [Thread -> Record]
          /\ \A u \in Thread : Orderly(todo'[u], writes'[u])
          /\ raced' \in BOOLEAN
      BY <1>0, <2>2, <3>1, StartsTyped
    <3> QED
      BY <2>1, <3>2
  <2>3. CASE UNCHANGED <<todo, writes, raced>>
    BY <2>1, <2>3
  <2> QED
    BY <1>10, <2>2, <2>3 DEF Boots
<1>11. CASE UNCHANGED vars
  BY <1>11 DEF vars, history, Quiet, Busy
<1> QED
  BY <1>1, <1>3, <1>4, <1>5, <1>6, <1>7, <1>8, <1>9, <1>10, <1>11 DEF Next, ThreadNext

(* The tables, the file and the lists of steps are what they should be,      *)
(* whatever fails and whenever the process ends.                             *)
THEOREM IsolationTyped == Spec => []IsolationTypeOK
<1>1. Typed => IsolationTypeOK
  BY DEF Typed
<1> QED
  BY <1>1, TypedInit, TypedNext, PTL DEF Spec

-----------------------------------------------------------------------------
(* Threads that will add an exception next, and those that will add one or   *)
(* remove the blocking rule, at the latest after their next step.            *)
Adding == {t \in Thread : Busy(t) /\ Head(todo[t]) = "allow"}
Owing == {t \in Thread : Busy(t) /\ Head(todo[t]) \in {"allow", "unallow", "undrop"}}

Once(c) == \A i, j \in 1 .. Len(c) : c[i] = c[j] => i = j

(* Unless a process ended between two steps, and whatever races: a blocking  *)
(* rule at the head of the chain of iptables, from which nothing is ever     *)
(* removed, is about to get its exception, as long as none was refused; and  *)
(* the rules of netsh, as long as all can be removed, stand once each, a     *)
(* blocking one without exception only while a thread owes one or the        *)
(* removal.                                                                  *)
Covered ==
    ~cut =>
        /\ backend = "iptables" /\ ~refused /\ chain # <<>> /\ Head(chain) = "drop" => Adding # {}
        /\ backend = "netsh" /\ ~stuck =>
              /\ Once(chain)
              /\ "drop" \in ToSet(chain) /\ "allow" \notin ToSet(chain) => Owing # {}

LEMMA MembersOf ==
    ASSUME NEW c \in Seq({"drop", "allow"}), NEW r
    PROVE  r \in ToSet(c) <=> \E i \in 1 .. Len(c) : c[i] = r
BY DEF ToSet

LEMMA OnceMore ==
    ASSUME NEW c \in Seq({"drop", "allow"}), NEW r \in {"drop", "allow"},
           Once(c), r \notin ToSet(c)
    PROVE  Once(<<r>> \o c)
<1> DEFINE new == <<r>> \o c
<1>1. /\ Len(new) = Len(c) + 1 /\ new[1] = r
      /\ \A j \in 2 .. Len(c) + 1 : new[j] = c[j - 1]
  BY Prepends
<1>2. \A j \in 1 .. Len(c) : c[j] # r
  BY MembersOf
<1> HIDE DEF new
<1>3. ASSUME NEW i \in 1 .. Len(new), NEW j \in 1 .. Len(new), new[i] = new[j] PROVE i = j
  <2>1. CASE i = 1
    BY <1>1, <1>2, <1>3, <2>1
  <2>2. CASE j = 1
    BY <1>1, <1>2, <1>3, <2>2
  <2>3. CASE i # 1 /\ j # 1
    <3>1. /\ i \in 2 .. Len(c) + 1 /\ j \in 2 .. Len(c) + 1
          /\ i - 1 \in 1 .. Len(c) /\ j - 1 \in 1 .. Len(c)
      BY <1>1, <2>3
    <3>2. i - 1 = j - 1
      BY <1>1, <1>3, <3>1 DEF Once
    <3> QED
      BY <3>1, <3>2
  <2> QED
    BY <2>1, <2>2, <2>3
<1> QED
  BY <1>3 DEF Once, new

LEMMA OnceLess ==
    ASSUME NEW c \in Seq({"drop", "allow"}), NEW r, Once(c)
    PROVE  Once(RemoveFirst(c, r)) /\ r \notin ToSet(RemoveFirst(c, r))
<1>1. CASE /\ \A i \in 1 .. Len(c) : c[i] # r
           /\ RemoveFirst(c, r) = c
  BY <1>1, MembersOf
<1>2. CASE \E i \in 1 .. Len(c) : c[i] = r /\ Leaves(c, i, RemoveFirst(c, r))
  <2> DEFINE new == RemoveFirst(c, r)
  <2>1. PICK i \in 1 .. Len(c) : c[i] = r /\ Leaves(c, i, new)
    BY <1>2
  <2> HIDE DEF new
  <2> DEFINE o(j) == IF j < i THEN j ELSE j + 1
  <2>2. /\ new \in Seq({"drop", "allow"})
        /\ \A j \in 1 .. Len(new) : o(j) \in 1 .. Len(c) /\ o(j) # i /\ new[j] = c[o(j)]
    BY <2>1 DEF Leaves
  <2>3. \A j, k \in 1 .. Len(new) : o(j) = o(k) => j = k
    BY <2>1
  <2> HIDE DEF o
  <2>4. Once(new)
    BY <2>2, <2>3 DEF Once
  <2>5. \A j \in 1 .. Len(new) : new[j] # r
    BY <2>1, <2>2 DEF Once
  <2>6. r \notin ToSet(new)
    BY <2>2, <2>5, MembersOf
  <2> QED
    BY <2>4, <2>6 DEF new
<1> QED
  BY <1>1, <1>2, FirstLeaves

LEMMA CoveredInit == Init => Covered
<1> SUFFICES ASSUME Init PROVE Covered
  OBVIOUS
<1>1. chain = <<>>
  BY DEF Init
<1>2. Once(<<>>) /\ "drop" \notin ToSet(<<>>)
  BY DEF Once, ToSet
<1> QED
  BY <1>1, <1>2 DEF Covered

(* The rules stand as they did, and whoever owed owes.                       *)
LEMMA StillCovered ==
    ASSUME Covered, UNCHANGED <<backend, chain>>, Owing \subseteq Owing',
           Adding \subseteq Adding', ~cut' => ~cut,
           ~refused' => ~refused, backend = "netsh" => (~stuck' => ~stuck)
    PROVE  Covered'
BY DEF Covered

(* Thread t alone has moved.                                                 *)
Moves(t) == \A u \in Thread \ {t} : todo'[u] = todo[u]

LEMMA OthersOwe ==
    ASSUME NEW t \in Thread, Moves(t)
    PROVE  /\ Owing' \ {t} = Owing \ {t}
           /\ t \in Owing' <=> todo'[t] # <<>> /\ Head(todo'[t]) \in {"allow", "unallow", "undrop"}
           /\ t \in Owing <=> todo[t] # <<>> /\ Head(todo[t]) \in {"allow", "unallow", "undrop"}
           /\ Adding' \ {t} = Adding \ {t}
           /\ t \in Adding' <=> todo'[t] # <<>> /\ Head(todo'[t]) = "allow"
           /\ t \in Adding <=> todo[t] # <<>> /\ Head(todo[t]) = "allow"
BY DEF Moves, Owing, Adding, Busy

(* A thread that was not about to add or remove a rule for others moves.     *)
LEMMA OthersStillOwe ==
    ASSUME NEW t \in Thread, Moves(t)
    PROVE  /\ (~Busy(t) \/ Head(todo[t]) \notin {"allow", "unallow", "undrop"}) => Owing \subseteq Owing'
           /\ (~Busy(t) \/ Head(todo[t]) # "allow") => Adding \subseteq Adding'
BY OthersOwe DEF Busy

LEMMA HeadOfPrepended ==
    ASSUME NEW c \in Seq({"drop", "allow"}), NEW r \in {"drop", "allow"}
    PROVE  <<r>> \o c # <<>> /\ Head(<<r>> \o c) = r
<1> DEFINE new == <<r>> \o c
<1>1. new \in Seq({"drop", "allow"}) /\ Len(new) = Len(c) + 1 /\ Len(c) \in Nat /\ new[1] = r
  BY Prepends
<1> HIDE DEF new
<1>2. new # <<>>
  BY <1>1, EmptySeq
<1>3. Head(new) = new[1]
  BY <1>1, <1>2, HeadTailProperties
<1> QED
  BY <1>1, <1>2, <1>3 DEF new

LEMMA InsertedOnce ==
    ASSUME chain \in Seq({"drop", "allow"}), Once(chain), backend = "netsh",
           NEW rule \in {"drop", "allow"}
    PROVE  Once(Inserted(rule)) /\ rule \in ToSet(Inserted(rule))
<1>1. CASE rule \in ToSet(chain)
  BY <1>1 DEF Inserted
<1>2. CASE rule \notin ToSet(chain)
  <2>1. Inserted(rule) = <<rule>> \o chain
    BY <1>2 DEF Inserted
  <2>2. /\ <<rule>> \o chain \in Seq({"drop", "allow"})
        /\ 1 \in 1 .. Len(<<rule>> \o chain) /\ (<<rule>> \o chain)[1] = rule
    BY Prepends
  <2>3. rule \in ToSet(<<rule>> \o chain)
    BY <2>2, MembersOf
  <2> QED
    BY <1>2, <2>1, <2>3, OnceMore
<1> QED
  BY <1>1, <1>2

LEMMA CoveredWhenApplied ==
    ASSUME Typed, Covered, NEW t \in Thread, Applies(t)
    PROVE  Covered'
<1> DEFINE rule == Head(todo[t])
<1>1. /\ alive /\ Busy(t) /\ rule \in {"drop", "allow"} /\ Goes(t) /\ writes' = writes
      /\ chain' = Inserted(rule) /\ UNCHANGED <<backend, cut, stuck, refused>>
  BY DEF Applies, At, history
<1>2. todo'[t] = Tail(todo[t]) /\ Moves(t)
  BY <1>1, GoesTyped DEF Moves
<1>3. rule = "drop" => t \in Adding' /\ t \in Owing'
  <2>1. Tail(todo[t]) # <<>> /\ <<rule, Head(Tail(todo[t]))>> \in Order(writes[t])
    BY <1>1, HeadTells
  <2>2. rule = "drop" => Head(Tail(todo[t])) = "allow"
    BY <2>1 DEF Order
  <2> QED
    BY <1>2, <2>1, <2>2, OthersOwe
<1>4. chain \in Seq({"drop", "allow"})
  BY DEF Typed, IsolationTypeOK
<1>5. ASSUME backend = "iptables" PROVE Head(chain') = rule
  <2>1. chain' = <<rule>> \o chain
    BY <1>1, <1>5 DEF Inserted
  <2> QED
    BY <1>1, <1>4, <2>1, HeadOfPrepended
<1>6. ASSUME backend = "netsh", Once(chain)
      PROVE  Once(chain') /\ rule \in ToSet(chain')
  BY <1>1, <1>4, <1>6, InsertedOnce
<1> HIDE DEF rule
<1>7. ASSUME ~cut', ~refused', backend' = "iptables", Head(chain') = "drop" PROVE Adding' # {}
  BY <1>1, <1>3, <1>5, <1>7
<1>8. ASSUME ~cut', ~stuck', backend' = "netsh"
      PROVE  /\ Once(chain')
             /\ "drop" \in ToSet(chain') /\ "allow" \notin ToSet(chain') => Owing' # {}
  <2>1. backend = "netsh" /\ Once(chain)
    BY <1>1, <1>8 DEF Covered
  <2>2. Once(chain') /\ rule \in ToSet(chain')
    BY <1>6, <2>1
  <2>3. rule = "drop" => Owing' # {}
    BY <1>3
  <2> QED
    BY <1>1, <2>2, <2>3
<1> QED
  BY <1>7, <1>8 DEF Covered

(* Whether or not the rule got in, its thread now adds the exception or      *)
(* takes everything back.                                                    *)
LEMMA CoveredWhenApplyFails ==
    ASSUME Typed, Covered, NEW t \in Thread, ApplyFails(t)
    PROVE  Covered'
<1> DEFINE rule == Head(todo[t])
<1>1. /\ Busy(t) /\ rule \in {"drop", "allow"} /\ refused' /\ UNCHANGED <<backend, cut, stuck>>
      /\ todo' = [todo EXCEPT ![t] = (IF rule = "drop" THEN <<"allow">> ELSE <<>>) \o RemoveRules]
      /\ chain' \in {chain, Inserted(rule)}
  BY DEF ApplyFails, At
<1>2. todo'[t] = (IF rule = "drop" THEN <<"allow">> ELSE <<>>) \o RemoveRules
  BY <1>1 DEF Typed, IsolationTypeOK
<1>3. todo'[t] # <<>> /\ Head(todo'[t]) \in {"allow", "unallow"}
  BY <1>2 DEF RemoveRules
<1>4. t \in Owing'
  BY <1>3 DEF Owing, Busy
<1>5. chain \in Seq({"drop", "allow"})
  BY DEF Typed, IsolationTypeOK
<1>6. ASSUME ~cut', ~stuck', backend' = "netsh" PROVE Once(chain')
  <2>1. backend = "netsh" /\ Once(chain)
    BY <1>1, <1>6 DEF Covered
  <2> HIDE DEF rule
  <2> QED
    BY <1>1, <1>5, <2>1, InsertedOnce
<1> QED
  BY <1>1, <1>4, <1>6 DEF Covered

LEMMA CoveredWhenUndone ==
    ASSUME Typed, Covered, NEW t \in Thread, Undoes(t)
    PROVE  Covered'
<1> DEFINE step == Head(todo[t])
           rule == IF step = "unallow" THEN "allow" ELSE "drop"
<1>1. /\ backend = "netsh" /\ alive /\ Busy(t) /\ step \in {"unallow", "undrop"} /\ Goes(t)
      /\ writes' = writes /\ chain' = RemoveFirst(chain, rule)
      /\ UNCHANGED <<backend, cut, stuck, refused>>
  BY DEF Undoes, At, history, Deleted
<1>2. todo'[t] = Tail(todo[t]) /\ Moves(t)
  BY <1>1, GoesTyped DEF Moves
<1>3. step = "unallow" => t \in Owing'
  <2>1. step = "unallow" =>
           Tail(todo[t]) # <<>> /\ <<step, Head(Tail(todo[t]))>> \in Order(writes[t])
    BY <1>1, HeadTells
  <2>2. step = "unallow" => Head(Tail(todo[t])) = "undrop"
    BY <2>1 DEF Order
  <2> QED
    BY <1>2, <2>1, <2>2, OthersOwe
<1>4. chain \in Seq({"drop", "allow"})
  BY DEF Typed, IsolationTypeOK
<1>5. step = "unallow" \/ rule = "drop"
  BY <1>1
<1> HIDE DEF rule
<1>6. ASSUME Once(chain) PROVE Once(chain') /\ rule \notin ToSet(chain')
  BY <1>1, <1>4, <1>6, OnceLess
<1>7. ASSUME ~cut', ~stuck'
      PROVE  /\ Once(chain')
             /\ "drop" \in ToSet(chain') /\ "allow" \notin ToSet(chain') => Owing' # {}
  <2>1. Once(chain)
    BY <1>1, <1>7 DEF Covered
  <2>2. Once(chain') /\ rule \notin ToSet(chain')
    BY <1>6, <2>1
  <2>3. step = "unallow" => Owing' # {}
    BY <1>3
  <2> QED
    BY <1>5, <2>2, <2>3
<1> QED
  BY <1>1, <1>7 DEF Covered

LEMMA CoveredNext == Typed /\ Covered /\ [Next]_vars => Covered'
<1> SUFFICES ASSUME Typed, Covered, [Next]_vars PROVE Covered'
  OBVIOUS
<1>0. Main \in Thread /\ Isolation \subseteq Thread
  BY DEF Thread
<1>1. ASSUME NEW t \in Thread, ~Busy(t), NEW s, NEW r, Starts(t, s, r),
             UNCHANGED <<backend, chain, cut, stuck, refused>>
      PROVE  Covered'
  <2>1. Moves(t)
    BY <1>1 DEF Moves, Starts, Typed, IsolationTypeOK
  <2>2. Owing \subseteq Owing' /\ Adding \subseteq Adding'
    BY <1>1, <2>1, OthersStillOwe
  <2> QED
    BY <1>1, <2>2, StillCovered
<1>2. ASSUME NEW timed \in BOOLEAN, Isolate(timed) PROVE Covered'
  BY <1>0, <1>1, <1>2 DEF Isolate, Commanded
<1>3. ASSUME Restore PROVE Covered'
  BY <1>0, <1>1, <1>3 DEF Restore, Commanded
<1>4. ASSUME NEW g \in Isolation, TimerFires(g) PROVE Covered'
  BY <1>0, <1>1, <1>4 DEF TimerFires
<1>5. ASSUME NEW t \in Thread, Arms(t) \/ Truncates(t) \/ Writes(t) \/ SaveFails(t)
      PROVE  Covered'
  <2>1. /\ Head(todo[t]) \in {"arm", "truncate", "write"}
        /\ UNCHANGED <<backend, chain, cut, stuck, refused>>
    BY <1>5 DEF Arms, Truncates, Writes, SaveFails, At, history
  <2>2. Moves(t)
    BY <1>5 DEF Arms, Truncates, Writes, SaveFails, Goes, Moves, Typed, IsolationTypeOK
  <2>3. Owing \subseteq Owing' /\ Adding \subseteq Adding'
    BY <2>1, <2>2, OthersStillOwe
  <2> QED
    BY <2>1, <2>3, StillCovered
<1>6. ASSUME NEW t \in Thread, ApplyFails(t) PROVE Covered'
  BY <1>6, CoveredWhenApplyFails
<1>11. ASSUME NEW t \in Thread, UndoFails(t) PROVE Covered'
  <2>1. /\ alive /\ Busy(t) /\ Head(todo[t]) \in {"unallow", "undrop"} /\ Goes(t)
        /\ stuck' /\ UNCHANGED <<backend, chain, writes, cut, refused>>
    BY <1>11 DEF UndoFails, At
  <2>2. Moves(t)
    BY <2>1, GoesTyped DEF Moves
  <2>3. Adding \subseteq Adding'
    BY <2>1, <2>2, OthersStillOwe
  <2> QED
    BY <2>1, <2>3 DEF Covered
<1>7. ASSUME NEW g \in Isolation, DeadlinePasses(g) PROVE Covered'
  <2>1. UNCHANGED <<backend, chain, todo, cut, stuck, refused>>
    BY <1>7 DEF DeadlinePasses, history
  <2>2. Owing \subseteq Owing' /\ Adding \subseteq Adding'
    BY <2>1 DEF Owing, Adding, Busy
  <2> QED
    BY <2>1, <2>2, StillCovered
<1>8. ASSUME NEW reboot \in BOOLEAN, Dies(reboot) PROVE Covered'
  <2>1. SUFFICES ASSUME ~cut' PROVE Covered'
    BY DEF Covered
  <2>2. /\ Quiet /\ ~cut /\ UNCHANGED <<backend, stuck, refused>>
        /\ chain' = IF reboot /\ backend = "iptables" THEN <<>> ELSE chain
    BY <1>8, <2>1 DEF Dies
  <2>3. Owing = {} /\ Adding = {}
    BY <2>2 DEF Quiet, Owing, Adding
  <2>4. Owing \subseteq Owing' /\ Adding \subseteq Adding'
    BY <2>3
  <2>5. CASE chain' = chain
    BY <2>1, <2>2, <2>4, <2>5, StillCovered
  <2>6. CASE chain' = <<>> /\ backend = "iptables"
    BY <2>2, <2>6 DEF Covered
  <2> QED
    BY <2>2, <2>5, <2>6
<1>9. ASSUME Boots PROVE Covered'
  <2>1. ~Busy(Main) /\ UNCHANGED <<backend, chain, cut, stuck, refused>>
    BY <1>0, <1>9 DEF Boots, Typed, Quiet
  <2>2. CASE UNCHANGED todo
    <3>1. Owing \subseteq Owing' /\ Adding \subseteq Adding'
      BY <2>2 DEF Owing, Adding, Busy
    <3> QED
      BY <2>1, <3>1, StillCovered
  <2>3. CASE Starts(Main, RemoveRules \o SaveState, Cleared(disk))
    BY <1>0, <1>1, <2>1, <2>3
  <2> QED
    BY <1>9, <2>2, <2>3 DEF Boots
<1>10. CASE UNCHANGED vars
  <2>1. /\ Owing \subseteq Owing' /\ Adding \subseteq Adding'
        /\ UNCHANGED <<backend, chain, cut, stuck, refused>>
    BY <1>10 DEF vars, history, Owing, Adding, Busy
  <2> QED
    BY <2>1, StillCovered
<1> QED
  BY <1>2, <1>3, <1>4, <1>5, <1>6, <1>7, <1>8, <1>9, <1>10, <1>11,
     CoveredWhenApplied, CoveredWhenUndone DEF Next, ThreadNext

-----------------------------------------------------------------------------
(* Where nothing was cut short, raced or stuck, a thread works alone and     *)
(* finds the rules as its next step expects them; when it is done, the rules *)
(* are both there and in the file, or not there.                             *)
Whole == <<"allow", "drop">>

Finds(step, second, r) ==
    /\ step = "unallow" => chain \in {<<>>, <<"drop">>, <<"allow">>, Whole}
    /\ step = "undrop" => chain \in {<<>>, <<"drop">>}
    /\ step = "drop" => chain = <<>>
    /\ step = "allow" => chain = <<"drop">> \/ (chain = <<>> /\ second = "unallow")
    /\ step \in {"arm", "truncate", "write"} => chain = IF r.iso THEN Whole ELSE <<>>

Rests == chain = <<>> \/ (chain = Whole /\ disk.iso)

Works(t) == Finds(Head(todo[t]), todo[t][2], writes[t])

Alone ==
    Undisturbed =>
        /\ \A t, u \in Thread : Busy(t) /\ Busy(u) => t = u
        /\ Quiet => Rests
        /\ \A t \in Thread : Busy(t) => Works(t)

LEMMA FewRules ==
    /\ RemoveFirst(<<>>, "allow") = <<>> /\ RemoveFirst(<<>>, "drop") = <<>>
    /\ RemoveFirst(<<"drop">>, "drop") = <<>> /\ RemoveFirst(<<"drop">>, "allow") = <<"drop">>
    /\ RemoveFirst(<<"allow">>, "allow") = <<>>
    /\ RemoveFirst(Whole, "allow") = <<"drop">>
    /\ Whole = <<"allow">> \o <<"drop">> /\ <<"allow">> \o <<>> = <<"allow">>
    /\ <<"drop">> \o <<>> = <<"drop">>
<1>1. /\ <<>> \in Seq({"drop", "allow"}) /\ <<"drop">> \in Seq({"drop", "allow"})
      /\ <<"allow">> \in Seq({"drop", "allow"}) /\ Whole \in Seq({"drop", "allow"})
  BY DEF Whole
<1>2. ASSUME NEW e PROVE RemoveFirst(<<>>, e) = <<>>
  <2>1. \A i \in 1 .. Len(<<>>) : FALSE
    OBVIOUS
  <2> QED
    BY <1>1, <2>1, FirstLeaves
<1>3. ASSUME NEW e \in {"drop", "allow"} PROVE RemoveFirst(<<e>>, e) = <<>>
  <2> DEFINE one == <<e>>
  <2>1. one \in Seq({"drop", "allow"}) /\ Len(one) = 1 /\ one[1] = e
    OBVIOUS
  <2> HIDE DEF one
  <2>2. \E i \in 1 .. Len(one) : Leaves(one, i, RemoveFirst(one, e))
    BY <2>1, FirstLeaves
  <2>3. RemoveFirst(one, e) \in Seq({"drop", "allow"}) /\ Len(RemoveFirst(one, e)) = 0
    BY <2>1, <2>2 DEF Leaves
  <2>4. RemoveFirst(one, e) = <<>>
    BY <2>3, EmptySeq
  <2> QED
    BY <2>4 DEF one
<1>5. RemoveFirst(<<"drop">>, "allow") = <<"drop">>
  <2>1. \A i \in 1 .. Len(<<"drop">>) : <<"drop">>[i] # "allow"
    OBVIOUS
  <2> QED
    BY <1>1, <2>1, FirstLeaves
<1>6. RemoveFirst(Whole, "allow") = <<"drop">>
  <2> DEFINE rest == RemoveFirst(Whole, "allow")
  <2>1. Len(Whole) = 2 /\ Whole[1] = "allow" /\ Whole[2] = "drop"
    BY DEF Whole
  <2>2. \E i \in 1 .. Len(Whole) : Whole[i] = "allow" /\ Leaves(Whole, i, rest)
    BY <1>1, <2>1, FirstLeaves
  <2> HIDE DEF rest
  <2>3. Leaves(Whole, 1, rest)
    BY <2>1, <2>2
  <2>4. rest \in Seq({"drop", "allow"}) /\ Len(rest) = 1 /\ rest[1] = "drop"
    BY <2>1, <2>3 DEF Leaves
  <2>5. rest = <<"drop">>
    BY <2>4
  <2> QED
    BY <2>5 DEF rest
<1>7. Whole = <<"allow">> \o <<"drop">> /\ <<"allow">> \o <<>> = <<"allow">>
      /\ <<"drop">> \o <<>> = <<"drop">>
  BY DEF Whole
<1> QED
  BY <1>2, <1>3, <1>5, <1>6, <1>7

LEMMA AloneInit == Init => Alone
BY DEF Init, Alone, Busy, Rests

(* Thread t, alone at work, has taken a step.                                *)
LEMMA AloneGoesOn ==
    ASSUME NEW t \in Thread, Moves(t), \A u \in Thread \ {t} : ~Busy(u),
           todo'[t] = <<>> => chain' = <<>> \/ (chain' = Whole /\ disk'.iso),
           todo'[t] # <<>> =>
              LET step == Head(todo'[t])
                  second == todo'[t][2]
              IN /\ step = "unallow" => chain' \in {<<>>, <<"drop">>, <<"allow">>, Whole}
                 /\ step = "undrop" => chain' \in {<<>>, <<"drop">>}
                 /\ step = "drop" => chain' = <<>>
                 /\ step = "allow" => chain' = <<"drop">> \/ (chain' = <<>> /\ second = "unallow")
                 /\ step \in {"arm", "truncate", "write"} =>
                        chain' = IF writes'[t].iso THEN Whole ELSE <<>>
    PROVE  Alone'
<1>1. \A u \in Thread \ {t} : todo'[u] = <<>>
  BY DEF Moves, Busy
<1>2. \A u, v \in Thread : todo'[u] # <<>> /\ todo'[v] # <<>> => u = v
  BY <1>1
<1>3. (\A u \in Thread : todo'[u] = <<>>) => Rests'
  BY DEF Rests, Whole
<1>4. \A u \in Thread : todo'[u] # <<>> => Works(u)'
  <2> SUFFICES ASSUME todo'[t] # <<>> PROVE Works(t)'
    BY <1>1
  <2> QED
    BY DEF Works, Finds, Whole
<1> QED
  BY <1>2, <1>3, <1>4 DEF Alone, Busy, Quiet

LEMMA AloneNext == Typed /\ Alone /\ [Next]_vars => Alone'
<1> SUFFICES ASSUME Typed, Alone, [Next]_vars, Undisturbed' PROVE Alone'
  BY DEF Alone
<1>0. /\ Main \in Thread /\ Isolation \subseteq Thread
      /\ todo \in [Thread -> Seq(Step)] /\ writes \in [Thread -> Record]
  BY DEF Thread, Typed, IsolationTypeOK
<1>1. ASSUME NEW t \in Thread, ~Busy(t), NEW s, NEW r, Starts(t, s, r), Undisturbed,
             UNCHANGED <<chain, disk>>, s # <<>>,
             Head(s) = "unallow" \/ (Head(s) = "drop" /\ ~disk.iso)
      PROVE  Alone'
  <2>1. \A u \in Thread \ {t} : ~Busy(u)
    BY <1>1 DEF Starts, Undisturbed
  <2>2. Rests
    BY <1>1, <2>1 DEF Alone, Quiet
  <2>3. Moves(t) /\ todo'[t] = s
    BY <1>0, <1>1 DEF Starts, Moves
  <2>4. Head(s) \notin {"undrop", "allow", "arm", "truncate", "write"}
    BY <1>1
  <2> QED
    BY <1>1, <2>1, <2>2, <2>3, <2>4, AloneGoesOn DEF Rests
<1>2. ASSUME NEW timed \in BOOLEAN, Isolate(timed) PROVE Alone'
  <2> DEFINE r == [iso |-> TRUE, until |-> IF timed THEN issued' ELSE 0]
  <2>1. issued' # 0
    BY <1>2, IsolationAssumption DEF Isolate, Typed, IsolationTypeOK
  <2>2. r.iso /\ (timed => r.until # 0)
    BY <2>1
  <2>3. Starts(Main, StepsOfIsolate(timed), r)
    BY <1>2 DEF Isolate
  <2> HIDE DEF r
  <2>4. /\ StepsOfIsolate(timed) # <<>>
        /\ Head(StepsOfIsolate(timed)) = IF disk.iso THEN "unallow" ELSE "drop"
    BY <2>2, IsolatingIsOrderly
  <2>5. ~Busy(Main) /\ UNCHANGED <<chain, disk>> /\ ~cut /\ ~stuck
    BY <1>2 DEF Isolate, Commanded, Undisturbed
  <2>6. Undisturbed
    BY <2>3, <2>5 DEF Starts, Undisturbed
  <2> QED
    BY <1>0, <1>1, <2>3, <2>4, <2>5, <2>6
<1>3. ASSUME NEW t \in Thread, ~Busy(t), Starts(t, RemoveRules \o SaveState, Cleared(disk)),
             UNCHANGED <<chain, disk, cut, stuck>>
      PROVE  Alone'
  <2>1. ~Cleared(disk).iso
    BY DEF Cleared, Typed, IsolationTypeOK, Record
  <2>2. RemoveRules \o SaveState # <<>> /\ Head(RemoveRules \o SaveState) = "unallow"
    BY <2>1, LiftingIsOrderly
  <2>3. Undisturbed
    BY <1>3 DEF Starts, Undisturbed
  <2> QED
    BY <1>1, <1>3, <2>2, <2>3
<1>4. ASSUME Restore PROVE Alone'
  BY <1>0, <1>3, <1>4 DEF Restore, Commanded
<1>5. ASSUME NEW g \in Isolation, TimerFires(g) PROVE Alone'
  BY <1>0, <1>3, <1>5 DEF TimerFires
<1>6. ASSUME NEW t \in Thread, alive, Busy(t), UNCHANGED <<writes, cut, stuck, raced>>
      PROVE  /\ Undisturbed /\ \A u \in Thread \ {t} : ~Busy(u)
             /\ Finds(Head(todo[t]), todo[t][2], writes[t])
  BY <1>6 DEF Alone, Undisturbed, Works
<1>7. ASSUME NEW t \in Thread, Busy(t), Goes(t), UNCHANGED writes
      PROVE  Moves(t) /\ todo'[t] = Tail(todo[t])
  BY <1>7, GoesTyped DEF Moves
<1>8. ASSUME NEW t \in Thread, Applies(t) PROVE Alone'
  <2> DEFINE rule == Head(todo[t])
             next == Head(Tail(todo[t]))
  <2>1. /\ alive /\ Busy(t) /\ rule \in {"drop", "allow"} /\ Goes(t)
        /\ chain' = Inserted(rule) /\ UNCHANGED <<disk, writes, cut, stuck, raced>>
    BY <1>8 DEF Applies, At, history
  <2>2. \A u \in Thread \ {t} : ~Busy(u)
    BY <1>6, <2>1
  <2>3. Moves(t) /\ todo'[t] = Tail(todo[t])
    BY <1>7, <2>1
  <2>4. /\ Tail(todo[t]) # <<>> /\ <<rule, next>> \in Order(writes[t]) /\ writes[t].iso
        /\ next = todo[t][2]
    BY <2>1, HeadTells
  <2>5. /\ rule = "drop" => next = "allow"
        /\ rule = "allow" => next \in {"arm", "truncate", "unallow"}
    BY <2>4 DEF Order
  <2>6. Finds(rule, next, writes[t])
    BY <1>6, <2>1, <2>4
  <2>7. rule = "drop" => chain' = <<"drop">>
    <3>1. rule = "drop" => chain = <<>> /\ "drop" \notin ToSet(<<>>)
      BY <2>6 DEF Finds, ToSet
    <3> QED
      BY <2>1, <3>1, FewRules DEF Inserted
  <2>8. rule = "allow" => \/ chain = <<"drop">> /\ chain' = Whole
                          \/ chain = <<>> /\ next = "unallow" /\ chain' = <<"allow">>
    <3>1. "allow" \notin ToSet(<<>>) /\ "allow" \notin ToSet(<<"drop">>)
      BY DEF ToSet
    <3>2. rule = "allow" => chain = <<"drop">> \/ (chain = <<>> /\ next = "unallow")
      BY <2>6 DEF Finds
    <3>3. rule = "allow" => chain' = <<"allow">> \o chain
      BY <2>1, <3>1, <3>2 DEF Inserted
    <3>4. <<"allow">> \o <<"drop">> = Whole /\ <<"allow">> \o <<>> = <<"allow">>
      BY FewRules
    <3> QED
      BY <3>2, <3>3, <3>4
  <2>9. CASE rule = "drop"
    BY <2>2, <2>3, <2>4, <2>5, <2>7, <2>9, AloneGoesOn
  <2>10. CASE rule = "allow"
    BY <2>1, <2>2, <2>3, <2>4, <2>5, <2>8, <2>10, AloneGoesOn
  <2> QED
    BY <2>1, <2>9, <2>10
<1>9. ASSUME NEW t \in Thread, ApplyFails(t) PROVE Alone'
  <2> DEFINE rule == Head(todo[t])
  <2>1. /\ alive /\ Busy(t) /\ rule \in {"drop", "allow"}
        /\ todo' = [todo EXCEPT ![t] =
                       (IF rule = "drop" THEN <<"allow">> ELSE <<>>) \o RemoveRules]
        /\ chain' \in {chain, Inserted(rule)} /\ UNCHANGED <<disk, writes, cut, stuck, raced>>
    BY <1>9 DEF ApplyFails, At
  <2>2. \A u \in Thread \ {t} : ~Busy(u)
    BY <1>6, <2>1
  <2>3. /\ Moves(t)
        /\ todo'[t] = (IF rule = "drop" THEN <<"allow">> ELSE <<>>) \o RemoveRules
    BY <1>0, <2>1 DEF Moves
  <2>4. writes[t].iso
    BY <2>1, HeadTells
  <2>5. Finds(rule, todo[t][2], writes[t])
    BY <1>6, <2>1
  <2>6. "allow" \notin ToSet(<<>>) /\ "allow" \notin ToSet(<<"drop">>) /\ "drop" \notin ToSet(<<>>)
    BY DEF ToSet
  <2>7. CASE rule = "drop"
    <3>1. chain' \in {<<>>, <<"drop">>}
      BY <2>1, <2>5, <2>6, <2>7, FewRules DEF Finds, Inserted
    <3>2. /\ todo'[t] # <<>> /\ Head(todo'[t]) = "allow" /\ todo'[t][2] = "unallow"
      BY <2>3, <2>4, <2>7, RevertingIsOrderly
    <3> QED
      BY <2>2, <2>3, <3>1, <3>2, AloneGoesOn
  <2>8. CASE rule = "allow"
    <3>1. chain' \in {<<>>, <<"drop">>, <<"allow">>, Whole}
      BY <2>1, <2>5, <2>6, <2>8, FewRules DEF Finds, Inserted
    <3>2. todo'[t] # <<>> /\ Head(todo'[t]) = "unallow"
      BY <2>3, <2>4, <2>8, RevertingIsOrderly
    <3> QED
      BY <2>2, <2>3, <3>1, <3>2, AloneGoesOn
  <2> QED
    BY <2>1, <2>7, <2>8
<1>10. ASSUME NEW t \in Thread, Undoes(t) PROVE Alone'
  <2> DEFINE step == Head(todo[t])
             next == Head(Tail(todo[t]))
  <2>1. /\ alive /\ Busy(t) /\ step \in {"unallow", "undrop"} /\ Goes(t)
        /\ chain' = RemoveFirst(chain, IF step = "unallow" THEN "allow" ELSE "drop")
        /\ UNCHANGED <<disk, writes, cut, stuck, raced>>
    BY <1>10 DEF Undoes, At, history, Deleted
  <2>2. \A u \in Thread \ {t} : ~Busy(u)
    BY <1>6, <2>1
  <2>3. Moves(t) /\ todo'[t] = Tail(todo[t])
    BY <1>7, <2>1
  <2>4. /\ Tail(todo[t]) # <<>> => <<step, next>> \in Order(writes[t])
        /\ step = "unallow" => Tail(todo[t]) # <<>>
    BY <2>1, HeadTells
  <2>5. Tail(todo[t]) # <<>> =>
           /\ step = "unallow" => next = "undrop"
           /\ step = "undrop" => next = "drop" \/ (next = "truncate" /\ ~writes[t].iso)
    BY <2>4 DEF Order
  <2>6. Finds(step, todo[t][2], writes[t])
    BY <1>6, <2>1
  <2>7. CASE step = "unallow"
    <3>1. chain' \in {<<>>, <<"drop">>}
      BY <2>1, <2>6, <2>7, FewRules DEF Finds
    <3> QED
      BY <2>2, <2>3, <2>4, <2>5, <2>7, <3>1, AloneGoesOn
  <2>8. CASE step = "undrop"
    <3>1. chain' = <<>>
      BY <2>1, <2>6, <2>8, FewRules DEF Finds
    <3> QED
      BY <2>1, <2>2, <2>3, <2>5, <2>8, <3>1, AloneGoesOn
  <2> QED
    BY <2>1, <2>7, <2>8
<1>11. ASSUME NEW t \in Thread, UndoFails(t) PROVE Alone'
  BY <1>11 DEF UndoFails, Undisturbed
<1>12. ASSUME NEW t \in Thread, Arms(t) \/ Truncates(t) \/ Writes(t) PROVE Alone'
  <2> DEFINE step == Head(todo[t])
             next == Head(Tail(todo[t]))
  <2>1. /\ alive /\ Busy(t) /\ step \in {"arm", "truncate", "write"} /\ Goes(t)
        /\ UNCHANGED <<chain, writes, cut, stuck, raced>>
        /\ step = "write" => disk' = writes[t]
    BY <1>12 DEF Arms, Truncates, Writes, At, history
  <2>2. \A u \in Thread \ {t} : ~Busy(u)
    BY <1>6, <2>1
  <2>3. Moves(t) /\ todo'[t] = Tail(todo[t])
    BY <1>7, <2>1
  <2>4. /\ Tail(todo[t]) # <<>> => <<step, next>> \in Order(writes[t])
        /\ Tail(todo[t]) = <<>> => step = "write"
    BY <2>1, HeadTells
  <2>5. Tail(todo[t]) # <<>> => next \in {"truncate", "write"}
    BY <2>1, <2>4 DEF Order
  <2>6. chain = IF writes[t].iso THEN Whole ELSE <<>>
    BY <1>6, <2>1 DEF Finds
  <2> QED
    BY <2>1, <2>2, <2>3, <2>4, <2>5, <2>6, AloneGoesOn
<1>13. ASSUME NEW t \in Thread, SaveFails(t) PROVE Alone'
  <2>1. /\ alive /\ Busy(t) /\ Head(todo[t]) \in {"truncate", "write"}
        /\ todo' = [todo EXCEPT ![t] = IF writes[t].iso THEN RemoveRules ELSE <<>>]
        /\ UNCHANGED <<chain, disk, writes, cut, stuck, raced>>
    BY <1>13 DEF SaveFails, At, history
  <2>2. \A u \in Thread \ {t} : ~Busy(u)
    BY <1>6, <2>1
  <2>3. Moves(t) /\ todo'[t] = IF writes[t].iso THEN RemoveRules ELSE <<>>
    BY <1>0, <2>1 DEF Moves
  <2>4. chain = IF writes[t].iso THEN Whole ELSE <<>>
    BY <1>6, <2>1 DEF Finds
  <2>5. writes[t].iso => RemoveRules # <<>> /\ Head(RemoveRules) = "unallow"
    BY RevertingIsOrderly
  <2> QED
    BY <2>1, <2>2, <2>3, <2>4, <2>5, AloneGoesOn
<1>14. ASSUME UNCHANGED <<chain, disk, todo, writes, cut, stuck, raced>> PROVE Alone'
  <2>1. UNCHANGED Undisturbed
    BY <1>14 DEF Undisturbed
  <2> QED
    BY <1>14, <2>1 DEF Alone, Busy, Quiet, Rests, Works, Finds
<1>15. ASSUME NEW g \in Isolation, DeadlinePasses(g) PROVE Alone'
  BY <1>14, <1>15 DEF DeadlinePasses, history
<1>16. ASSUME NEW reboot \in BOOLEAN, Dies(reboot) PROVE Alone'
  <2>1. /\ Quiet /\ Undisturbed /\ chain' \in {<<>>, chain} /\ disk' = disk
        /\ \A u \in Thread : todo'[u] = <<>>
    BY <1>16 DEF Dies, Undisturbed
  <2>2. Rests
    BY <2>1 DEF Alone
  <2>3. Rests'
    BY <2>1, <2>2 DEF Rests
  <2> QED
    BY <2>1, <2>3 DEF Alone, Busy
<1>17. ASSUME Boots PROVE Alone'
  <2>1. ~Busy(Main) /\ UNCHANGED <<chain, disk, cut, stuck>>
    BY <1>0, <1>17 DEF Boots, Typed, Quiet
  <2>2. \/ Starts(Main, RemoveRules \o SaveState, Cleared(disk))
        \/ UNCHANGED <<todo, writes, raced>>
    BY <1>17 DEF Boots
  <2> QED
    BY <1>0, <1>3, <1>14, <2>1, <2>2
<1>18. CASE UNCHANGED vars
  BY <1>14, <1>18 DEF vars, history
<1> QED
  BY <1>2, <1>4, <1>5, <1>8, <1>9, <1>10, <1>11, <1>12, <1>13, <1>15, <1>16, <1>17, <1>18
     DEF Next, ThreadNext

-----------------------------------------------------------------------------
LEMMA CoveredIsReachable ==
    ASSUME Typed, Quiet, ~cut, Covered, IF backend = "iptables" THEN ~refused ELSE ~stuck
    PROVE  Reachable
<1>1. Owing = {} /\ Adding = {}
  BY DEF Quiet, Owing, Adding
<1>2. chain \in Seq({"drop", "allow"}) /\ backend \in {"iptables", "netsh"}
  BY IsolationAssumption DEF Typed, IsolationTypeOK
<1>3. CASE backend = "netsh"
  BY <1>1, <1>3 DEF Covered, Reachable, Blocks
<1>4. CASE backend = "iptables"
  <2> SUFFICES ASSUME Blocks PROVE Head(chain) = "allow"
    BY <1>4 DEF Reachable
  <2>1. chain # <<>>
    BY <1>2, MembersOf DEF Blocks
  <2>2. Head(chain) \in {"drop", "allow"}
    BY <1>2, <2>1, HeadTailProperties, EmptySeq
  <2>3. Head(chain) # "drop"
    BY <1>1, <1>4, <2>1 DEF Covered
  <2> QED
    BY <2>2, <2>3
<1> QED
  BY <1>2, <1>3, <1>4

(* isolate_host, restore_isolation, the timers and the failures of their     *)
(* calls leave the manager reachable whenever no thread is at work.          *)
THEOREM ManagerIsReachable == Spec => []ManagerStaysReachable
<1>1. Typed /\ Covered => ManagerStaysReachable
  BY CoveredIsReachable DEF ManagerStaysReachable
<1> QED
  BY <1>1, TypedInit, TypedNext, CoveredInit, CoveredNext, PTL DEF Spec

(* Blocking rules stand once, and only while the state file says so: what    *)
(* isolate_host applied, one restore or the timer takes back.                *)
THEOREM IsolationIsRecorded == Spec => []NothingForgotten
<1>1. Alone => NothingForgotten
  <2> SUFFICES ASSUME Alone, Quiet, Undisturbed, Blocks
               PROVE  /\ disk.iso
                      /\ \A i, j \in DOMAIN chain :
                            chain[i] = "drop" /\ chain[j] = "drop" => i = j
    BY DEF NothingForgotten
  <2>1. "drop" \notin ToSet(<<>>)
    BY DEF ToSet
  <2>2. chain = Whole /\ disk.iso
    BY <2>1 DEF Alone, Rests, Blocks
  <2> QED
    BY <2>2 DEF Whole
<1> QED
  BY <1>1, TypedInit, TypedNext, AloneInit, AloneNext, PTL DEF Spec
=============================================================================
