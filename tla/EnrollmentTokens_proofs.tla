------------------------ MODULE EnrollmentTokens_proofs ------------------------
(***************************************************************************)
(* Proofs of what the server promises about tokens: each is used once,     *)
(* stays consumed, and is not lost.                                        *)
(***************************************************************************)
EXTENDS Enrollment_proofs

(* The handler of p redeems a token. *)
Redeems(p) == worker[p].host # Nobody

(* p writes the temporary file of f, which has content c. *)
Holds(p, f, c) == worker[p].holds = "tmp" /\ tmp[f] = c

(* What a redemption knows that no other one runs beside: its token has no   *)
(* bundle yet, and what it will save misses no consumed token.               *)
Redemption(p) ==
    LET w == worker[p] IN
    /\ bundles[w.token] = 0
    /\ Consumed \subseteq w.consumed
    /\ w.at = "last" => w.token \in Consumed
    /\ w.files = <<"consumed">> =>
        /\ w.at = "dump" => Holds(p, "consumed", Truncated)
        /\ w.at = "replace" => Holds(p, "consumed", Whole(w.consumed))

OneByOne ==
    overlap # "enrolls" =>
        /\ \A p, q \in Port : Redeems(p) /\ Redeems(q) => p = q
        /\ \A p \in Port : Redeems(p) => Redemption(p)
        /\ \A t \in Token : bundles[t] <= 1 /\ (bundles[t] # 0 => t \in Consumed)

(* Only the handler of p changes, apart from what others hold. *)
OnlyMoves(p) ==
    \A q \in Port \ {p} :
        /\ worker'[q].at = worker[q].at /\ worker'[q].host = worker[q].host
        /\ worker'[q].token = worker[q].token
        /\ worker'[q].files = worker[q].files
        /\ worker'[q].issued = worker[q].issued
        /\ worker'[q].consumed = worker[q].consumed

LEMMA Moves ==
    ASSUME TypeInv, NEW p \in Port, NEW w, worker' = [worker EXCEPT ![p] = w]
    PROVE  /\ worker'[p] = w /\ OnlyMoves(p)
           /\ \A q \in Port \ {p} : worker'[q] = worker[q]
BY DEF TypeInv, EnrollmentTypeOK, OnlyMoves

LEMMA IdleRedeemsNot == Idle.host = Nobody /\ Idle.at = "idle" /\ Idle.holds = "none"
BY DEF Idle

(* A step of p that disturbs no other redemption. *)
LEMMA StaysOneByOne ==
    ASSUME TypeInv, OneByOne, NEW p \in Port, OnlyMoves(p),
           overlap' # "enrolls" => overlap # "enrolls",
           overlap' # "enrolls" =>
             /\ Redeems(p)' => Redemption(p)'
             /\ \/ \A q \in Port \ {p} : ~Redeems(q)
                \/ /\ ~Redeems(p)' /\ UNCHANGED bundles
                   /\ live'["consumed"] = live["consumed"]
                   /\ tmp'["consumed"] = tmp["consumed"]
                   /\ \A q \in Port \ {p} : worker[q].files = <<"consumed">> =>
                          worker'[q].holds = worker[q].holds
             /\ \A t \in Token : bundles'[t] <= 1 /\ (bundles'[t] # 0 => t \in Consumed')
    PROVE  OneByOne'
<1> SUFFICES ASSUME overlap' # "enrolls"
             PROVE  /\ \A q, r \in Port : Redeems(q)' /\ Redeems(r)' => q = r
                    /\ \A q \in Port : Redeems(q)' => Redemption(q)'
  BY DEF OneByOne
<1>1. /\ \A q, r \in Port : Redeems(q) /\ Redeems(r) => q = r
      /\ \A q \in Port : Redeems(q) => Redemption(q)
  BY DEF OneByOne
<1>2. \A q \in Port \ {p} : Redeems(q)' <=> Redeems(q)
  BY DEF OnlyMoves, Redeems
<1>3. CASE \A q \in Port \ {p} : ~Redeems(q)
  BY <1>2, <1>3
<1>4. CASE /\ ~Redeems(p)' /\ UNCHANGED bundles
           /\ live'["consumed"] = live["consumed"]
           /\ tmp'["consumed"] = tmp["consumed"]
           /\ \A q \in Port \ {p} : worker[q].files = <<"consumed">> =>
                  worker'[q].holds = worker[q].holds
  <2>1. ASSUME NEW q \in Port \ {p}, Redeems(q)'
        PROVE  Redemption(q)'
    <3>1. Redemption(q)
      BY <1>1, <1>2, <2>1
    <3>2. Consumed' = Consumed
      BY <1>4 DEF Consumed
    <3> QED
      BY <1>4, <3>1, <3>2 DEF Redemption, Holds, OnlyMoves
  <2> QED
    BY <1>1, <1>2, <1>4, <2>1
<1> QED
  BY <1>3, <1>4

(* ... which ends in particular when p refuses or has answered. *)
LEMMA StopsOneByOne ==
    ASSUME TypeInv, OneByOne, NEW p \in Port,
           worker' = [worker EXCEPT ![p] = Idle],
           UNCHANGED <<live, tmp, bundles, overlap>>
    PROVE  OneByOne'
<1>1. worker'[p] = Idle /\ OnlyMoves(p) /\ \A q \in Port \ {p} : worker'[q] = worker[q]
  BY Moves
<1>2. ~Redeems(p)'
  BY <1>1, IdleRedeemsNot DEF Redeems
<1>3. overlap' # "enrolls" =>
          \A t \in Token : bundles'[t] <= 1 /\ (bundles'[t] # 0 => t \in Consumed')
  BY DEF OneByOne, Consumed
<1> QED
  BY <1>1, <1>2, <1>3, StaysOneByOne

LEMMA OthersStop == (* a redemption that runs alone *)
    ASSUME TypeInv, OneByOne, overlap # "enrolls", NEW p \in Port, Redeems(p)
    PROVE  /\ \A q \in Port \ {p} : ~Redeems(q)
           /\ Redemption(p)
BY DEF OneByOne

-----------------------------------------------------------------------------
LEMMA StartsOneByOne ==
    ASSUME TypeInv, OneByOne, NEW p \in Port, EnrollStarts(p) \/ MintStarts(p)
    PROVE  OneByOne'
<1>1. UNCHANGED <<live, tmp, bundles>> /\ Consumed' = Consumed /\ worker[p] = Idle
  BY DEF EnrollStarts, MintStarts, disk, Consumed
<1>2. overlap' # "enrolls" =>
          /\ overlap # "enrolls"
          /\ \A t \in Token : bundles'[t] <= 1 /\ (bundles'[t] # 0 => t \in Consumed')
  <2>1. overlap' = overlap \/ Overlapped(p, Nobody) \/ Overlapped(p, Head(inbox[p]).host)
    BY DEF EnrollStarts, MintStarts
  <2>2. overlap' # "enrolls" => overlap # "enrolls"
    BY <2>1 DEF Overlapped
  <2> QED
    BY <1>1, <2>2 DEF OneByOne
<1>3. CASE MintStarts(p)
  <2>1. PICK t, ts : worker' = [worker EXCEPT ![p] =
                 [Idle EXCEPT !.at = "open", !.token = t, !.files = <<"issued">>,
                              !.issued = ts]]
    BY <1>3 DEF MintStarts
  <2> DEFINE w == [Idle EXCEPT !.at = "open", !.token = t, !.files = <<"issued">>,
                               !.issued = ts]
  <2>2. w.host = Nobody
    BY DEF Idle
  <2> HIDE DEF w
  <2>3. worker'[p] = w /\ OnlyMoves(p) /\ \A q \in Port \ {p} : worker'[q] = worker[q]
    BY <2>1, Moves DEF w
  <2>4. ~Redeems(p)'
    BY <2>2, <2>3 DEF Redeems
  <2> QED
    BY <1>1, <1>2, <2>3, <2>4, StaysOneByOne
<1>4. CASE EnrollStarts(p)
  <2> DEFINE r == Head(inbox[p])
             w == [Idle EXCEPT !.at = "load", !.host = r.host, !.token = r.token,
                               !.try = r.try, !.consumed = Consumed]
  <2>1. CASE Refuses(p, w) /\ UNCHANGED overlap
    BY <1>1, <2>1, StopsOneByOne DEF Refuses, Stops
  <2>2. CASE /\ r.token \notin Consumed /\ worker' = [worker EXCEPT ![p] = w]
             /\ Overlapped(p, r.host)
    <3>1. r.host \in Host /\ r.host # Nobody /\ r.token \in Token
      <4>1. inbox[p] # <<>>
        BY <1>4 DEF EnrollStarts
      <4> QED
        BY <4>1, RequestTyped, EnrollmentAssumption DEF Request
    <3>2. w.at = "load" /\ w.host = r.host /\ w.token = r.token /\ w.consumed = Consumed
      BY DEF Idle
    <3> HIDE DEF w, r
    <3>3. worker'[p] = w /\ OnlyMoves(p) /\ \A q \in Port \ {p} : worker'[q] = worker[q]
      BY <2>2, Moves
    <3>4. ASSUME overlap' # "enrolls"
          PROVE  Redemption(p)' /\ \A q \in Port \ {p} : ~Redeems(q)
      <4>1. bundles'[r.token] = 0
        BY <1>1, <1>2, <2>2, <3>1, <3>4 DEF OneByOne, Consumed
      <4>2. Redemption(p)'
        BY <1>1, <3>2, <3>3, <4>1 DEF Redemption
      <4>3. \A q \in Port \ {p} : worker[q] = Idle \/ worker[q].host = Nobody
        BY <2>2, <3>1, <3>4 DEF Overlapped
      <4> QED
        BY <4>2, <4>3, IdleRedeemsNot DEF Redeems
    <3> QED
      BY <1>2, <3>3, <3>4, StaysOneByOne
  <2> QED
    BY <1>4, <2>1, <2>2 DEF EnrollStarts
<1> QED
  BY <1>3, <1>4

(* What LoadsIssued and FindsOwner leave in the handler's record. *)
LEMMA LooksUp ==
    ASSUME TypeInv, NEW p \in Port, LoadsIssued(p) \/ FindsOwner(p)
    PROVE  \/ Refuses(p, worker[p])
           \/ /\ OnlyMoves(p) /\ \A q \in Port \ {p} : worker'[q] = worker[q]
              /\ worker'[p].host = worker[p].host /\ worker'[p].token = worker[p].token
              /\ worker[p].consumed \subseteq worker'[p].consumed
              /\ worker'[p].at \in {"owner", "open"} /\ UNCHANGED host
              /\ worker'[p].at = "owner" =>
                    /\ worker[p].at = "load" /\ worker'[p].issued = LoadIssued
              /\ worker'[p].at = "open" =>
                    \/ worker[p].at = "load" /\ worker'[p].files = <<"consumed">>
                    \/ /\ worker[p].at = "owner" /\ worker'[p].files = <<"issued", "consumed">>
                       /\ worker'[p].issued = worker[p].issued \ {worker[p].token}
<1> DEFINE w == worker[p]
<1>1. w \in Worker
  BY DEF TypeInv, EnrollmentTypeOK
<1>2. CASE LoadsIssued(p) /\ worker' = [worker EXCEPT ![p].at = "owner", ![p].issued = LoadIssued]
           /\ UNCHANGED host
  <2> DEFINE v == [w EXCEPT !.at = "owner", !.issued = LoadIssued]
  <2>1. worker' = [worker EXCEPT ![p] = v] /\ w.at = "load"
    BY <1>2 DEF LoadsIssued
  <2> HIDE DEF w
  <2>2. v.at = "owner" /\ v.issued = LoadIssued /\ v.host = w.host /\ v.token = w.token
        /\ v.consumed = w.consumed
    BY <1>1 DEF Worker
  <2> HIDE DEF v
  <2>3. worker'[p] = v /\ OnlyMoves(p) /\ \A q \in Port \ {p} : worker'[q] = worker[q]
    BY <2>1, Moves
  <2> QED
    BY <1>2, <2>1, <2>2, <2>3 DEF w
<1>3. CASE LoadsIssued(p) /\ UNCHANGED host
           /\ worker' = [worker EXCEPT ![p].at = "open",
                                       ![p].consumed = @ \cup {w.token},
                                       ![p].files = <<"consumed">>]
  <2> DEFINE us == w.consumed \cup {w.token}
             v == [w EXCEPT !.at = "open", !.consumed = us, !.files = <<"consumed">>]
  <2>1. worker' = [worker EXCEPT ![p] = v] /\ w.at = "load"
    BY <1>3 DEF LoadsIssued
  <2>4. w.consumed \subseteq us
    OBVIOUS
  <2> HIDE DEF w, us
  <2>2. v.at = "open" /\ v.files = <<"consumed">> /\ v.host = w.host /\ v.token = w.token
        /\ v.consumed = us
    BY <1>1 DEF Worker
  <2> HIDE DEF v
  <2>3. worker'[p] = v /\ OnlyMoves(p) /\ \A q \in Port \ {p} : worker'[q] = worker[q]
    BY <2>1, Moves
  <2> QED
    BY <1>3, <2>1, <2>2, <2>3, <2>4 DEF w
<1>4. CASE FindsOwner(p) /\ UNCHANGED host
           /\ worker' = [worker EXCEPT ![p].at = "open",
                                       ![p].issued = @ \ {w.token},
                                       ![p].consumed = @ \cup {w.token},
                                       ![p].files = <<"issued", "consumed">>]
  <2> DEFINE us == w.consumed \cup {w.token}
             ts == w.issued \ {w.token}
             v == [w EXCEPT !.at = "open", !.issued = ts, !.consumed = us,
                            !.files = <<"issued", "consumed">>]
  <2>1. worker' = [worker EXCEPT ![p] = v] /\ w.at = "owner"
    BY <1>4 DEF FindsOwner
  <2>4. w.consumed \subseteq us /\ ts = worker[p].issued \ {worker[p].token}
    OBVIOUS
  <2> HIDE DEF w, us, ts
  <2>2. v.at = "open" /\ v.files = <<"issued", "consumed">> /\ v.host = w.host
        /\ v.token = w.token /\ v.consumed = us /\ v.issued = ts
    BY <1>1 DEF Worker
  <2> HIDE DEF v
  <2>3. worker'[p] = v /\ OnlyMoves(p) /\ \A q \in Port \ {p} : worker'[q] = worker[q]
    BY <2>1, Moves
  <2> QED
    BY <1>4, <2>1, <2>2, <2>3, <2>4 DEF w
<1> QED
  BY <1>2, <1>3, <1>4 DEF LoadsIssued, FindsOwner

LEMMA LooksOneByOne ==
    ASSUME TypeInv, OneByOne, NEW p \in Port, LoadsIssued(p) \/ FindsOwner(p)
    PROVE  OneByOne'
<1>1. UNCHANGED <<live, tmp, bundles, overlap>> /\ Consumed' = Consumed
  BY DEF LoadsIssued, FindsOwner, disk, Consumed
<1>2. CASE Refuses(p, worker[p])
  BY <1>1, <1>2, StopsOneByOne DEF Refuses, Stops
<1>3. CASE ~Refuses(p, worker[p])
  <2>1. /\ OnlyMoves(p) /\ worker'[p].host = worker[p].host
        /\ worker'[p].token = worker[p].token
        /\ worker[p].consumed \subseteq worker'[p].consumed
        /\ worker'[p].at \in {"owner", "open"}
    BY <1>3, LooksUp
  <2>2. Redeems(p)' <=> Redeems(p)
    BY <2>1 DEF Redeems
  <2>3. Redemption(p) => Redemption(p)'
    BY <1>1, <2>1 DEF Redemption
  <2>4. worker[p].at \in {"load", "owner"} /\ Shape(worker[p])
    BY DEF LoadsIssued, FindsOwner, TypeInv
  <2>5. Redeems(p)
    BY <2>4 DEF Shape, Saving, Redeems
  <2>6. overlap' # "enrolls" =>
          \A t \in Token : bundles'[t] <= 1 /\ (bundles'[t] # 0 => t \in Consumed')
    BY <1>1 DEF OneByOne
  <2> QED
    BY <1>1, <2>1, <2>2, <2>3, <2>5, <2>6, OthersStop, StaysOneByOne
<1> QED
  BY <1>2, <1>3

(* What a handler that saves has before it. *)
LEMMA SavesWhat ==
    ASSUME TypeInv, NEW p \in Port, worker[p].at \in Saving
    PROVE  LET w == worker[p]
               f == Head(w.files)
           IN /\ w \in Worker
              /\ f = "issued" \/ (f = "consumed" /\ w.files = <<"consumed">>)
              /\ w.files = <<"consumed">> => f = "consumed" /\ Redeems(p)
              /\ w.host = Nobody => w.files = <<"issued">> /\ f = "issued"
              /\ Payload(w) = Whole(IF f = "issued" THEN w.issued \ expired ELSE w.consumed)
<1> DEFINE w == worker[p]
<1>1. w \in Worker /\ Shape(w) /\ w.at \in Saving
  BY DEF TypeInv, EnrollmentTypeOK
<1> HIDE DEF w
<1>2. w.files \in Plan /\ (w.host = Nobody => w.files = <<"issued">>)
  BY <1>1 DEF Shape, Saving
<1>3. /\ Head(w.files) = "issued" \/ (Head(w.files) = "consumed" /\ w.files = <<"consumed">>)
      /\ w.files = <<"consumed">> => Head(w.files) = "consumed"
      /\ w.files = <<"issued">> => Head(w.files) = "issued" /\ w.files # <<"consumed">>
  BY <1>2, PlanSteps DEF Plan
<1> QED
  BY <1>1, <1>2, <1>3 DEF w, Payload, Redeems

LEMMA OpensOneByOne ==
    ASSUME TypeInv, OneByOne, NEW p \in Port, Opens(p)
    PROVE  OneByOne' /\ Consumed' = Consumed
<1> DEFINE w == worker[p]
           f == Head(w.files)
           v == [w EXCEPT !.at = "dump", !.holds = "tmp"]
<1>1. /\ tmp' = [tmp EXCEPT ![f] = Truncated] /\ worker' = [worker EXCEPT ![p] = v]
      /\ UNCHANGED <<live, bundles, overlap>> /\ Consumed' = Consumed /\ w.at \in Saving
  BY DEF Opens, Consumed, Saving
<1>2. tmp \in [File -> Content] /\ f \in File
  BY <1>1, SavedFile DEF TypeInv, EnrollmentTypeOK
<1>3. /\ w \in Worker /\ (f = "issued" \/ (f = "consumed" /\ w.files = <<"consumed">>))
      /\ w.files = <<"consumed">> => f = "consumed" /\ Redeems(p)
      /\ w.host = Nobody => f = "issued"
  BY <1>1, SavesWhat
<1>4. /\ v.at = "dump" /\ v.holds = "tmp" /\ v.host = w.host /\ v.token = w.token
      /\ v.files = w.files /\ v.consumed = w.consumed
  <2> HIDE DEF w
  <2> QED
    BY <1>3 DEF Worker
<1> HIDE DEF v
<1>5. worker'[p] = v /\ OnlyMoves(p) /\ \A q \in Port \ {p} : worker'[q] = worker[q]
  BY <1>1, Moves
<1>6. Redemption(p) => Redemption(p)'
  <2>1. f = "consumed" => tmp'["consumed"] = Truncated
    BY <1>1, <1>2
  <2> QED
    BY <1>1, <1>3, <1>4, <1>5, <2>1 DEF Redemption, Holds
<1>7. overlap' # "enrolls" =>
          \A t \in Token : bundles'[t] <= 1 /\ (bundles'[t] # 0 => t \in Consumed')
  BY <1>1 DEF OneByOne
<1>8. Redeems(p)' <=> Redeems(p)
  BY <1>4, <1>5 DEF Redeems
<1>9. CASE Redeems(p)
  BY <1>1, <1>5, <1>6, <1>7, <1>9, OthersStop, StaysOneByOne
<1>10. CASE ~Redeems(p)
  <2>1. f = "issued"
    BY <1>3, <1>10 DEF Redeems
  <2>2. tmp'["consumed"] = tmp["consumed"]
    BY <1>1, <1>2, <2>1 DEF File
  <2> QED
    BY <1>1, <1>5, <1>7, <1>8, <1>10, <2>2, StaysOneByOne
<1> QED
  BY <1>1, <1>9, <1>10

(* A write puts the payload there, and nothing else, when the file was just  *)
(* truncated.                                                                *)
LEMMA WritesOver == ASSUME NEW c PROVE Overwritten(Truncated, c) = {c}
BY DEF Overwritten, Truncated

LEMMA DumpsOneByOne ==
    ASSUME TypeInv, OneByOne, NEW p \in Port, Dumps(p)
    PROVE  OneByOne' /\ (overlap' # "enrolls" => Consumed' = Consumed)
<1> DEFINE w == worker[p]
           f == Head(w.files)
           v == [w EXCEPT !.at = "replace"]
<1>1. /\ w.at = "dump" /\ worker' = [worker EXCEPT ![p] = v]
      /\ UNCHANGED <<bundles, overlap>> /\ w.at \in Saving
  BY DEF Dumps, Saving
<1>2. tmp \in [File -> Content] /\ live \in [File -> Content] /\ f \in File
  BY <1>1, SavedFile DEF TypeInv, EnrollmentTypeOK
<1>3. /\ w \in Worker /\ (f = "issued" \/ (f = "consumed" /\ w.files = <<"consumed">>))
      /\ w.files = <<"consumed">> => f = "consumed" /\ Redeems(p)
      /\ w.host = Nobody => f = "issued"
      /\ f = "consumed" => Payload(w) = Whole(w.consumed)
  BY <1>1, SavesWhat
<1>4. /\ v.at = "replace" /\ v.holds = w.holds /\ v.host = w.host /\ v.token = w.token
      /\ v.files = w.files /\ v.consumed = w.consumed
  <2> HIDE DEF w
  <2> QED
    BY <1>3 DEF Worker
<1> HIDE DEF v
<1>5. worker'[p] = v /\ OnlyMoves(p) /\ \A q \in Port \ {p} : worker'[q] = worker[q]
  BY <1>1, Moves
<1>6. Redeems(p)' <=> Redeems(p)
  BY <1>4, <1>5 DEF Redeems
<1>7. CASE f = "issued"
  <2>1. tmp'["consumed"] = tmp["consumed"] /\ live'["consumed"] = live["consumed"]
    BY <1>2, <1>7 DEF Dumps, File
  <2>2. Consumed' = Consumed
    BY <2>1 DEF Consumed
  <2>3. Redemption(p) => Redemption(p)'
    BY <1>1, <1>3, <1>4, <1>5, <1>7, <2>2 DEF Redemption
  <2>4. overlap' # "enrolls" =>
          \A t \in Token : bundles'[t] <= 1 /\ (bundles'[t] # 0 => t \in Consumed')
    BY <1>1, <2>2 DEF OneByOne
  <2>5. CASE Redeems(p)
    BY <1>1, <1>5, <2>2, <2>3, <2>4, <2>5, OthersStop, StaysOneByOne
  <2>6. CASE ~Redeems(p)
    BY <1>1, <1>5, <1>6, <2>1, <2>2, <2>4, <2>6, StaysOneByOne
  <2> QED
    BY <2>5, <2>6
<1>8. CASE f = "consumed" /\ w.files = <<"consumed">>
  <2>1. Redeems(p)
    BY <1>3, <1>8
  <2>2. ASSUME overlap' # "enrolls"
        PROVE  /\ Consumed' = Consumed /\ Redemption(p)'
               /\ \A q \in Port \ {p} : ~Redeems(q)
    <3>1. Redemption(p) /\ \A q \in Port \ {p} : ~Redeems(q)
      BY <1>1, <2>1, <2>2, OthersStop
    <3>2. w.holds = "tmp" /\ tmp["consumed"] = Truncated
      BY <1>1, <1>8, <3>1 DEF Redemption, Holds
    <3>3. tmp' = [tmp EXCEPT !["consumed"] = Whole(w.consumed)] /\ UNCHANGED live
      BY <1>3, <1>8, <3>2, WritesOver DEF Dumps
    <3>4. tmp'["consumed"] = Whole(w.consumed) /\ Consumed' = Consumed
      BY <1>2, <1>8, <3>3 DEF Consumed
    <3> QED
      BY <1>1, <1>4, <1>5, <3>1, <3>2, <3>4 DEF Redemption, Holds
  <2>3. overlap' # "enrolls" =>
          \A t \in Token : bundles'[t] <= 1 /\ (bundles'[t] # 0 => t \in Consumed')
    BY <1>1, <2>2 DEF OneByOne
  <2> QED
    BY <1>1, <1>5, <2>2, <2>3, StaysOneByOne
<1> QED
  BY <1>3, <1>7, <1>8

LEMMA ReplacesOneByOne ==
    ASSUME TypeInv, OneByOne, NEW p \in Port, Replaces(p)
    PROVE  OneByOne' /\ (overlap' # "enrolls" => Consumed \subseteq Consumed')
<1> DEFINE w == worker[p]
           f == Head(w.files)
<1>1. /\ w.at = "replace" /\ w.at \in Saving
      /\ live' = [live EXCEPT ![f] = tmp[f]] /\ tmp' = [tmp EXCEPT ![f] = Absent]
      /\ UNCHANGED <<bundles, overlap>>
  BY DEF Replaces, Saving
<1>2. tmp \in [File -> Content] /\ live \in [File -> Content] /\ f \in File
  BY <1>1, SavedFile DEF TypeInv, EnrollmentTypeOK
<1>3. /\ w \in Worker /\ (f = "issued" \/ (f = "consumed" /\ w.files = <<"consumed">>))
      /\ w.files = <<"consumed">> => f = "consumed" /\ Redeems(p)
      /\ w.host = Nobody => f = "issued" /\ w.files = <<"issued">>
  BY <1>1, SavesWhat
<1>4. /\ worker'[p].at = IF w.files = <<"issued", "consumed">> THEN "open" ELSE "last"
      /\ worker'[p].host = w.host /\ worker'[p].token = w.token
      /\ worker'[p].consumed = w.consumed
      /\ OnlyMoves(p)
      /\ \A q \in Port \ {p} : worker'[q].holds = worker[q].holds \/ Head(worker[q].files) = f
  BY ReplacesHandlers DEF OnlyMoves
<1>5. Redeems(p)' <=> Redeems(p)
  BY <1>4 DEF Redeems
<1>6. w.files \in Plan /\ (Redeems(p) => w.files # <<"issued">> /\ w.token \in w.consumed)
  BY <1>1 DEF TypeInv, Shape, Redeems
<1>7. CASE f = "issued"
  <2>1. tmp'["consumed"] = tmp["consumed"] /\ live'["consumed"] = live["consumed"]
    BY <1>1, <1>2, <1>7 DEF File
  <2>2. Consumed' = Consumed
    BY <2>1 DEF Consumed
  <2>3. Redemption(p) /\ Redeems(p) => Redemption(p)'
    <3>1. Redeems(p) => worker'[p].at = "open"
      BY <1>3, <1>4, <1>6, <1>7 DEF Plan
    <3> QED
      BY <1>1, <1>4, <2>2, <3>1 DEF Redemption
  <2>4. overlap' # "enrolls" =>
          \A t \in Token : bundles'[t] <= 1 /\ (bundles'[t] # 0 => t \in Consumed')
    BY <1>1, <2>2 DEF OneByOne
  <2>5. CASE Redeems(p)
    BY <1>1, <1>4, <2>2, <2>3, <2>4, <2>5, OthersStop, StaysOneByOne
  <2>6. CASE ~Redeems(p)
    <3>1. \A q \in Port \ {p} : worker[q].files = <<"consumed">> =>
              worker'[q].holds = worker[q].holds
      BY <1>4, <1>7, PlanSteps
    <3> QED
      BY <1>1, <1>4, <1>5, <2>1, <2>2, <2>4, <2>6, <3>1, StaysOneByOne
  <2> QED
    BY <2>5, <2>6
<1>8. CASE f = "consumed" /\ w.files = <<"consumed">>
  <2>1. Redeems(p) /\ w.token \in w.consumed /\ worker'[p].at = "last"
    BY <1>3, <1>4, <1>6, <1>8, PlanSteps
  <2>2. ASSUME overlap' # "enrolls"
        PROVE  /\ Consumed \subseteq Consumed' /\ Redemption(p)'
               /\ \A q \in Port \ {p} : ~Redeems(q)
    <3>1. Redemption(p) /\ \A q \in Port \ {p} : ~Redeems(q)
      BY <1>1, <2>1, <2>2, OthersStop
    <3>2. tmp["consumed"] = Whole(w.consumed) /\ Consumed \subseteq w.consumed
          /\ bundles[w.token] = 0
      BY <1>1, <1>8, <3>1 DEF Redemption, Holds
    <3>3. Consumed' = w.consumed
      BY <1>1, <1>2, <1>8, <3>2 DEF Consumed, Whole
    <3>4. Redemption(p)'
      BY <1>1, <1>4, <2>1, <3>2, <3>3 DEF Redemption
    <3> QED
      BY <3>1, <3>2, <3>3, <3>4
  <2>3. overlap' # "enrolls" =>
          \A t \in Token : bundles'[t] <= 1 /\ (bundles'[t] # 0 => t \in Consumed')
    BY <1>1, <2>2 DEF OneByOne
  <2> QED
    BY <1>1, <1>4, <2>2, <2>3, StaysOneByOne
<1> QED
  BY <1>3, <1>7, <1>8

LEMMA EnrollsOneByOne ==
    ASSUME TypeInv, OneByOne, NEW p \in Port, Enrolls(p)
    PROVE  OneByOne'
<1> DEFINE w == worker[p]
<1>1. /\ w.at = "last" /\ Redeems(p) /\ UNCHANGED <<live, tmp, overlap>>
      /\ worker' = [worker EXCEPT ![p] = Idle]
      /\ bundles' = [bundles EXCEPT ![w.token] = @ + 1] /\ Consumed' = Consumed
  BY DEF Enrolls, Stops, disk, Consumed, Redeems
<1>2. worker'[p] = Idle /\ OnlyMoves(p)
  BY <1>1, Moves
<1>3. ~Redeems(p)'
  BY <1>2, IdleRedeemsNot DEF Redeems
<1>4. bundles \in [Token -> Nat] /\ w.token \in Token
  BY <1>1 DEF TypeInv, EnrollmentTypeOK, Shape
<1>5. ASSUME overlap' # "enrolls"
      PROVE  /\ \A q \in Port \ {p} : ~Redeems(q)
             /\ \A t \in Token : bundles'[t] <= 1 /\ (bundles'[t] # 0 => t \in Consumed')
  <2>1. Redemption(p) /\ \A q \in Port \ {p} : ~Redeems(q)
    BY <1>1, <1>5, OthersStop
  <2>2. bundles[w.token] = 0 /\ w.token \in Consumed
    BY <1>1, <2>1 DEF Redemption
  <2>3. \A t \in Token : bundles'[t] = IF t = w.token THEN 1 ELSE bundles[t]
    BY <1>1, <1>4, <2>2
  <2>4. \A t \in Token : bundles[t] <= 1 /\ (bundles[t] # 0 => t \in Consumed)
    BY <1>1, <1>5 DEF OneByOne
  <2> QED
    BY <1>1, <2>1, <2>2, <2>3, <2>4
<1> QED
  BY <1>1, <1>2, <1>3, <1>5, StaysOneByOne

LEMMA OneByOneInit == Init => OneByOne
BY IdleRedeemsNot DEF Init, OneByOne, Redeems

(* Each step but the saves leaves the consumed tokens as they are. *)
LEMMA OneByOneNext ==
    ASSUME TypeInv, OneByOne, [Next]_vars
    PROVE  OneByOne' /\ (overlap' # "enrolls" => Consumed \subseteq Consumed')
<1>1. CASE UNCHANGED server
  BY <1>1 DEF server, disk, OneByOne, Redeems, Redemption, Consumed, Holds
<1>2. ASSUME NEW p \in Port,
             \/ EnrollStarts(p) \/ LoadsIssued(p) \/ FindsOwner(p) \/ MintStarts(p)
             \/ SaveFails(p) \/ Mints(p) \/ Enrolls(p) \/ LastFails(p)
      PROVE OneByOne' /\ (overlap' # "enrolls" => Consumed \subseteq Consumed')
  <2>1. Consumed' = Consumed
    BY <1>2 DEF EnrollStarts, LoadsIssued, FindsOwner, MintStarts, SaveFails, Mints,
                Enrolls, LastFails, Consumed, disk
  <2>2. CASE SaveFails(p) \/ Mints(p) \/ LastFails(p)
    BY <2>1, <2>2, StopsOneByOne DEF SaveFails, Mints, LastFails, Refuses, Stops, disk
  <2> QED
    BY <1>2, <2>1, <2>2, StartsOneByOne, LooksOneByOne, EnrollsOneByOne
<1>3. ASSUME NEW p \in Port, Opens(p) \/ Dumps(p) \/ Replaces(p)
      PROVE OneByOne' /\ (overlap' # "enrolls" => Consumed \subseteq Consumed')
  BY <1>3, OpensOneByOne, DumpsOneByOne, ReplacesOneByOne
<1>4. CASE ServerDies
  <2>1. /\ UNCHANGED <<live, bundles, overlap>> /\ Consumed' = Consumed
        /\ worker' = [q \in Port |-> Idle]
    BY <1>4 DEF ServerDies, disk, Consumed
  <2>2. \A q \in Port : ~Redeems(q)'
    BY <2>1, IdleRedeemsNot DEF Redeems
  <2> QED
    BY <2>1, <2>2 DEF OneByOne
<1>5. ASSUME NEW t \in Minted, Expires(t)
      PROVE OneByOne' /\ (overlap' # "enrolls" => Consumed \subseteq Consumed')
  BY <1>5 DEF Expires, disk, OneByOne, Redeems, Redemption, Consumed, Holds
<1>6. CASE HostNext /\ ~UNCHANGED server
  <2>1. UNCHANGED <<live, tmp, worker, bundles, overlap>>
    BY ZenonT(40), <1>6 DEF HostNext, CliStarts, TriesAgain, GivesUp, OpensIdentity, WritesIdentity,
                OpensPointer, WritesPointer, SavesAgain, SavedAgain, CliDies, Posts, Step,
                server, disk
  <2> QED
    BY <2>1 DEF OneByOne, Redeems, Redemption, Consumed, Holds
<1> QED
  BY <1>1, <1>2, <1>3, <1>4, <1>5, <1>6 DEF Next, ServerNext, vars

(* One token, one bundle: while no two redemptions run side by side, a       *)
(* redemption that reaches the bundle has its token among the consumed ones, *)
(* and one that starts finds it there (server/enrollment.py, enroll).        *)
THEOREM OneUse == Spec => []SingleUse
<1>1. TypeInv /\ OneByOne => SingleUse
  BY DEF OneByOne, SingleUse
<1> QED
  BY <1>1, TypeInit, TypeNext, OneByOneInit, OneByOneNext, PTL DEF Spec

(* No save, crash or failure makes a consumed token good again, with the     *)
(* same exception (_save_consumed).                                          *)
THEOREM ConsumedIsKept == Spec => ConsumedStays
<1>1. TypeInv /\ OneByOne /\ [Next]_vars =>
          [overlap' # "enrolls" => Consumed \subseteq Consumed']_vars
  BY OneByOneNext
<1> QED
  BY <1>1, TypeInit, TypeNext, OneByOneInit, OneByOneNext, PTL DEF Spec, ConsumedStays

-----------------------------------------------------------------------------
(* With a tokens file, every token a user has was listed there first. *)
LoggedIsListed == logged => handed \subseteq log

(* The tokens that must still be good. *)
Good == handed \ (expired \cup Consumed \cup lostAt)

(* What a handler that runs alone has read, and is about to save, misses none *)
(* of them, apart from the token it redeems; and a mint's own token is there. *)
Keeps(p) ==
    LET w == worker[p]
        saves == w.at \in Saving /\ Head(w.files) = "issued"
        own == IF w.host = Nobody THEN {} ELSE {w.token}
        new == IF w.host = Nobody THEN {w.token} ELSE {}
    IN
    /\ w.at = "owner" => Good \subseteq w.issued
    /\ saves => Good \subseteq w.issued \cup own /\ new \subseteq w.issued
    /\ saves /\ w.at = "dump" => Holds(p, "issued", Truncated)
    /\ saves /\ w.at = "replace" =>
        /\ Good \subseteq tmp["issued"].tokens \cup own
        /\ new \subseteq tmp["issued"].tokens
    /\ w.host = Nobody => w.token \notin handed
    /\ w.at = "last" => new \subseteq live["issued"].tokens

Alone ==
    ~logged /\ overlap = "none" =>
        /\ \A p, q \in Port : worker[p] # Idle /\ worker[q] # Idle => p = q
        /\ \A t \in Good : \/ t \in live["issued"].tokens
                           \/ \E p \in Port : Between(worker[p]) /\ worker[p].token = t
        /\ \A p \in Port : worker[p] # Idle => Keeps(p)

LEMMA BetweenWorks == ASSUME NEW w, Between(w) PROVE w # Idle
BY DEF Between, Idle, Saving

(* The state as the only handler that runs finds it. *)
LEMMA Solo ==
    ASSUME Alone, ~logged, overlap = "none", NEW p \in Port, worker[p] # Idle
    PROVE  /\ \A q \in Port \ {p} : worker[q] = Idle
           /\ Keeps(p)
           /\ \A t \in Good : \/ t \in live["issued"].tokens
                              \/ Between(worker[p]) /\ worker[p].token = t
BY BetweenWorks DEF Alone

LEMMA Nobodys ==
    ASSUME Alone, ~logged, overlap = "none", \A q \in Port : worker[q] = Idle
    PROVE  Good \subseteq live["issued"].tokens
BY BetweenWorks DEF Alone

LEMMA GoodShrinks ==
    ASSUME handed' = handed, expired \subseteq expired', lostAt \subseteq lostAt',
           Consumed \subseteq Consumed'
    PROVE  Good' \subseteq Good
BY DEF Good

(* A step of the only handler. *)
LEMMA StaysAlone ==
    ASSUME Alone, NEW p \in Port,
           \A q \in Port \ {p} : worker[q] = Idle => worker'[q] = Idle,
           ~logged' /\ overlap' = "none" =>
             /\ \A q \in Port \ {p} : worker[q] = Idle
             /\ \A t \in Good' : \/ t \in live'["issued"].tokens
                                 \/ Between(worker[p])' /\ worker'[p].token = t
             /\ worker'[p] # Idle => Keeps(p)'
    PROVE  Alone'
BY DEF Alone

LEMMA AloneUnmoved ==
    ASSUME Alone, UNCHANGED <<logged, overlap, live, tmp, worker, handed, expired, lostAt>>
    PROVE  Alone'
BY DEF Alone, Good, Consumed, Keeps, Holds, Between

LEMMA StartsAlone ==
    ASSUME TypeInv, Alone, NEW p \in Port, EnrollStarts(p) \/ MintStarts(p)
    PROVE  Alone'
<1>1. /\ UNCHANGED <<logged, live, tmp, handed, expired, lostAt>> /\ worker[p] = Idle
      /\ Consumed' = Consumed
  BY DEF EnrollStarts, MintStarts, disk, Consumed
<1>2. Good' = Good
  BY <1>1 DEF Good
<1>3. ASSUME NEW h, Overlapped(p, h), overlap' = "none"
      PROVE  overlap = "none" /\ \A q \in Port : worker[q] = Idle
  <2> DEFINE others == {worker[q] : q \in {q \in Port \ {p} : worker[q] # Idle}}
  <2>1. overlap = "none" /\ others = {}
    BY <1>3 DEF Overlapped
  <2> QED
    BY <1>1, <2>1
<1>4. ASSUME NEW h, Overlapped(p, h), overlap' = "none", ~logged'
      PROVE  /\ Good \subseteq live["issued"].tokens
             /\ \A q \in Port : worker[q] = Idle
             /\ LoadIssued = live["issued"].tokens \ expired
             /\ Good \cap expired = {}
  <2>1. overlap = "none" /\ \A q \in Port : worker[q] = Idle
    BY <1>3, <1>4
  <2>2. LoadIssued = live["issued"].tokens \ expired
    BY <1>1, <1>4 DEF LoadIssued, FromTokensFile
  <2> QED
    BY <1>1, <1>4, <2>1, <2>2, Nobodys DEF Good
<1>5. CASE MintStarts(p)
  <2>1. PICK t \in Minted \ drawn : worker' = [worker EXCEPT ![p] =
                 [Idle EXCEPT !.at = "open", !.token = t, !.files = <<"issued">>,
                              !.issued = LoadIssued \cup {t}]]
    BY <1>5 DEF MintStarts
  <2> DEFINE ts == LoadIssued \cup {t}
             w == [Idle EXCEPT !.at = "open", !.token = t, !.files = <<"issued">>,
                               !.issued = ts]
  <2>2. w.host = Nobody /\ w.at = "open" /\ w.token = t /\ w.issued = ts
    BY DEF Idle
  <2> HIDE DEF w
  <2>3. worker'[p] = w /\ \A q \in Port \ {p} : worker'[q] = worker[q]
    BY <2>1, Moves DEF w
  <2>4. t \notin handed'
    BY <1>1 DEF TypeInv, EnrollmentTypeOK
  <2>5. ASSUME overlap' = "none", ~logged'
        PROVE  Keeps(p)' /\ \A q \in Port : worker[q] = Idle
    <3>1. Good \subseteq ts /\ \A q \in Port : worker[q] = Idle
      <4>1. Overlapped(p, Nobody)
        BY <1>5 DEF MintStarts
      <4> QED
        BY <1>4, <2>5, <4>1
    <3> QED
      BY <1>2, <2>2, <2>3, <2>4, <3>1 DEF Keeps
  <2>6. overlap' = "none" /\ ~logged' => Good' \subseteq live'["issued"].tokens
    <3>1. Overlapped(p, Nobody)
      BY <1>5 DEF MintStarts
    <3> QED
      BY <1>1, <1>2, <1>4, <3>1
  <2> QED
    BY <2>3, <2>5, <2>6, StaysAlone
<1>6. CASE EnrollStarts(p)
  <2> DEFINE r == Head(inbox[p])
             w == [Idle EXCEPT !.at = "load", !.host = r.host, !.token = r.token,
                               !.try = r.try, !.consumed = Consumed]
  <2>1. CASE Refuses(p, w) /\ UNCHANGED overlap
    <3>1. worker' = worker
      BY <1>1, <2>1 DEF Refuses, Stops, TypeInv, EnrollmentTypeOK
    <3> QED
      BY <1>1, <2>1, <3>1, AloneUnmoved
  <2>2. CASE worker' = [worker EXCEPT ![p] = w] /\ Overlapped(p, r.host)
    <3>1. r.host # Nobody
      <4>1. inbox[p] # <<>>
        BY <1>6 DEF EnrollStarts
      <4> QED
        BY <4>1, RequestTyped, EnrollmentAssumption DEF Request
    <3>2. w.at = "load" /\ w.host = r.host
      BY DEF Idle
    <3> HIDE DEF w, r
    <3>3. worker'[p] = w /\ \A q \in Port \ {p} : worker'[q] = worker[q]
      BY <2>2, Moves
    <3>4. Keeps(p)'
      BY <3>1, <3>2, <3>3 DEF Keeps, Saving
    <3>5. overlap' = "none" /\ ~logged' =>
              /\ Good' \subseteq live'["issued"].tokens
              /\ \A q \in Port : worker[q] = Idle
      BY <1>1, <1>2, <1>4, <2>2
    <3> QED
      BY <3>3, <3>4, <3>5, StaysAlone
  <2> QED
    BY <1>6, <2>1, <2>2 DEF EnrollStarts
<1> QED
  BY <1>5, <1>6

(* A handler that ends without having redeemed anything since its last save. *)
LEMMA EndsAlone ==
    ASSUME TypeInv, Alone, NEW p \in Port, worker[p] # Idle,
           worker' = [worker EXCEPT ![p] = Idle],
           UNCHANGED <<logged, overlap, live>>, Good' \subseteq Good,
           Between(worker[p]) => worker[p].token \notin Good'
    PROVE  Alone'
<1>1. worker'[p] = Idle /\ \A q \in Port \ {p} : worker'[q] = worker[q]
  BY Moves
<1>2. ~logged' /\ overlap' = "none" =>
        /\ \A q \in Port \ {p} : worker[q] = Idle
        /\ Good' \subseteq live'["issued"].tokens
  BY Solo
<1> QED
  BY <1>1, <1>2, StaysAlone

LEMMA LooksAlone ==
    ASSUME TypeInv, Alone, NEW p \in Port, LoadsIssued(p) \/ FindsOwner(p)
    PROVE  Alone'
<1>1. /\ UNCHANGED <<logged, live, tmp, handed, expired, lostAt, overlap>>
      /\ Consumed' = Consumed /\ worker[p].at \in {"load", "owner"}
  BY DEF LoadsIssued, FindsOwner, disk, Consumed
<1>2. Good' = Good /\ ~Between(worker[p]) /\ worker[p] # Idle
  BY <1>1 DEF Good, Between, Saving, Idle
<1>3. CASE Refuses(p, worker[p])
  BY <1>1, <1>2, <1>3, EndsAlone DEF Refuses, Stops
<1>4. CASE ~Refuses(p, worker[p])
  <2>1. /\ \A q \in Port \ {p} : worker'[q] = worker[q]
        /\ worker'[p].host = worker[p].host /\ worker'[p].token = worker[p].token
        /\ worker'[p].at \in {"owner", "open"}
        /\ worker'[p].at = "owner" =>
              /\ worker[p].at = "load" /\ worker'[p].issued = LoadIssued
        /\ worker'[p].at = "open" =>
              \/ worker[p].at = "load" /\ worker'[p].files = <<"consumed">>
              \/ /\ worker[p].at = "owner" /\ worker'[p].files = <<"issued", "consumed">>
                 /\ worker'[p].issued = worker[p].issued \ {worker[p].token}
    BY <1>4, LooksUp
  <2>2. worker[p].host # Nobody
    BY <1>1, <1>2 DEF TypeInv, Shape, Saving
  <2>3. ASSUME ~logged', overlap' = "none"
        PROVE  /\ \A q \in Port \ {p} : worker[q] = Idle
               /\ Good' \subseteq live'["issued"].tokens
               /\ Keeps(p)'
    <3>1. /\ \A q \in Port \ {p} : worker[q] = Idle
          /\ Keeps(p) /\ Good \subseteq live["issued"].tokens
      BY <1>1, <1>2, <2>3, Solo
    <3>2. LoadIssued = live["issued"].tokens \ expired /\ Good \cap expired = {}
      BY <1>1, <2>3 DEF LoadIssued, FromTokensFile, Good
    <3>3. worker[p].at = "owner" => Good \subseteq worker[p].issued
      BY <3>1 DEF Keeps
    <3>4. CASE worker'[p].at = "owner"
      BY <1>1, <1>2, <2>1, <2>2, <3>1, <3>2, <3>4 DEF Keeps, Saving
    <3>5. CASE worker'[p].at = "open" /\ worker'[p].files = <<"consumed">>
      BY <1>1, <1>2, <2>1, <2>2, <3>1, <3>5, PlanSteps DEF Keeps
    <3>6. CASE /\ worker[p].at = "owner" /\ worker'[p].at = "open"
               /\ worker'[p].issued = worker[p].issued \ {worker[p].token}
      BY <1>1, <1>2, <2>1, <2>2, <3>1, <3>3, <3>6 DEF Keeps
    <3> QED
      BY <2>1, <3>4, <3>5, <3>6, <3>1, <1>1, <1>2
  <2> QED
    BY <1>1, <2>1, <2>3, StaysAlone
<1> QED
  BY <1>3, <1>4

LEMMA OpensAlone ==
    ASSUME TypeInv, OneByOne, Alone, NEW p \in Port, Opens(p)
    PROVE  Alone'
<1> DEFINE w == worker[p]
           f == Head(w.files)
           v == [w EXCEPT !.at = "dump", !.holds = "tmp"]
<1>1. /\ tmp' = [tmp EXCEPT ![f] = Truncated] /\ worker' = [worker EXCEPT ![p] = v]
      /\ UNCHANGED <<logged, live, handed, expired, lostAt, overlap>>
      /\ w.at = "open" /\ w.at \in Saving
  BY DEF Opens, Saving
<1>10. w # Idle
  BY <1>1, IdleRedeemsNot
<1>2. tmp \in [File -> Content] /\ f \in File
  BY <1>1, SavedFile DEF TypeInv, EnrollmentTypeOK
<1>3. w \in Worker
  BY <1>1, SavesWhat
<1>4. /\ v.at = "dump" /\ v.holds = "tmp" /\ v.host = w.host /\ v.token = w.token
      /\ v.files = w.files /\ v.issued = w.issued
  <2> HIDE DEF w
  <2> QED
    BY <1>3 DEF Worker
<1> HIDE DEF v
<1>5. worker'[p] = v /\ \A q \in Port \ {p} : worker'[q] = worker[q]
  BY <1>1, Moves
<1>6. Good' = Good
  BY <1>1 DEF Good, Consumed
<1>7. Between(worker[p])' <=> Between(worker[p])
  BY <1>1, <1>4, <1>5 DEF Between, Saving
<1>8. tmp'[f] = Truncated
  BY <1>1, <1>2
<1>9. ASSUME ~logged', overlap' = "none"
      PROVE  /\ \A q \in Port \ {p} : worker[q] = Idle
             /\ \A t \in Good' : \/ t \in live'["issued"].tokens
                                 \/ Between(worker[p])' /\ worker'[p].token = t
             /\ Keeps(p)'
  <2>1. /\ \A q \in Port \ {p} : worker[q] = Idle
        /\ Keeps(p)
        /\ \A t \in Good : \/ t \in live["issued"].tokens
                           \/ Between(worker[p]) /\ worker[p].token = t
    BY <1>1, <1>9, <1>10, Solo
  <2>2. Keeps(p)'
    BY <1>1, <1>4, <1>5, <1>6, <1>8, <2>1 DEF Keeps, Holds
  <2> QED
    BY <1>1, <1>4, <1>5, <1>6, <1>7, <2>1, <2>2
<1> QED
  BY <1>5, <1>9, StaysAlone

LEMMA DumpsAlone ==
    ASSUME TypeInv, OneByOne, Alone, NEW p \in Port, Dumps(p)
    PROVE  Alone'
<1> DEFINE w == worker[p]
           f == Head(w.files)
           v == [w EXCEPT !.at = "replace"]
<1>1. /\ worker' = [worker EXCEPT ![p] = v]
      /\ UNCHANGED <<logged, handed, expired, lostAt, overlap>>
      /\ w.at = "dump" /\ w.at \in Saving /\ w # Idle
  BY DEF Dumps, Saving, Idle
<1>2. tmp \in [File -> Content] /\ f \in File
  BY <1>1, SavedFile DEF TypeInv, EnrollmentTypeOK
<1>3. /\ w \in Worker /\ (f = "issued" \/ (f = "consumed" /\ w.files = <<"consumed">>))
      /\ w.files = <<"consumed">> => f = "consumed" /\ Redeems(p)
      /\ f = "issued" => Payload(w) = Whole(w.issued \ expired)
  BY <1>1, SavesWhat
<1>4. /\ v.at = "replace" /\ v.host = w.host /\ v.token = w.token
      /\ v.files = w.files /\ v.issued = w.issued
  <2> HIDE DEF w
  <2> QED
    BY <1>3 DEF Worker
<1> HIDE DEF v
<1>5. worker'[p] = v /\ \A q \in Port \ {p} : worker'[q] = worker[q]
  BY <1>1, Moves
<1>7. Between(worker[p])' <=> Between(worker[p])
  BY <1>1, <1>4, <1>5 DEF Between, Saving
<1>9. ASSUME ~logged', overlap' = "none"
      PROVE  /\ \A q \in Port \ {p} : worker[q] = Idle
             /\ \A t \in Good' : \/ t \in live'["issued"].tokens
                                 \/ Between(worker[p])' /\ worker'[p].token = t
             /\ Keeps(p)'
  <2>1. /\ \A q \in Port \ {p} : worker[q] = Idle
        /\ Keeps(p)
        /\ \A t \in Good : \/ t \in live["issued"].tokens
                           \/ Between(worker[p]) /\ worker[p].token = t
    BY <1>1, <1>9, Solo
  <2>2. w.holds = "tmp" /\ (f = "issued" => tmp["issued"] = Truncated)
    <3>1. CASE f = "issued"
      BY <1>1, <2>1, <3>1 DEF Keeps, Holds
    <3>2. CASE f = "consumed" /\ w.files = <<"consumed">>
      <4>1. overlap # "enrolls" /\ Redeems(p)
        BY <1>1, <1>3, <1>9, <3>2
      <4>2. Redemption(p)
        BY <4>1, OthersStop
      <4> QED
        BY <1>1, <3>2, <4>2, PlanSteps DEF Redemption, Holds
    <3> QED
      BY <1>3, <3>1, <3>2
  <2>3. UNCHANGED live
    BY <2>2 DEF Dumps
  <2>4. Good' = Good
    BY <1>1, <2>3 DEF Good, Consumed
  <2>5. Keeps(p)'
    <3>1. CASE f # "issued"
      BY <1>1, <1>4, <1>5, <2>1, <3>1 DEF Keeps
    <3>2. CASE f = "issued"
      <4>1. tmp' = [tmp EXCEPT !["issued"] = Whole(w.issued \ expired)]
        BY <1>3, <2>2, <3>2, WritesOver DEF Dumps
      <4>2. tmp'["issued"].tokens = w.issued \ expired
        BY <1>2, <3>2, <4>1 DEF Whole
      <4>3. Good \cap expired = {} /\ (w.token \notin handed => w.token \notin expired)
        BY DEF Good, TypeInv, EnrollmentTypeOK
      <4>4. w.host = Nobody => w.token \notin handed /\ w.token \in w.issued
        BY <1>1, <2>1, <3>2 DEF Keeps
      <4>5. w.host # Nobody => Good \subseteq w.issued \cup {w.token}
        BY <1>1, <2>1, <3>2 DEF Keeps
      <4>6. w.host = Nobody => Good \subseteq w.issued
        BY <1>1, <2>1, <3>2 DEF Keeps
      <4> QED
        BY <1>1, <1>4, <1>5, <2>4, <3>2, <4>2, <4>3, <4>4, <4>5, <4>6 DEF Keeps, Saving
    <3> QED
      BY <3>1, <3>2
  <2> QED
    BY <1>1, <1>4, <1>5, <1>7, <2>1, <2>3, <2>4, <2>5
<1> QED
  BY <1>5, <1>9, StaysAlone

LEMMA ReplacesAlone ==
    ASSUME TypeInv, OneByOne, OneByOne', Alone, NEW p \in Port, Replaces(p)
    PROVE  Alone'
<1> DEFINE w == worker[p]
           f == Head(w.files)
<1>1. /\ w.at = "replace" /\ w.at \in Saving /\ w # Idle
      /\ live' = [live EXCEPT ![f] = tmp[f]]
      /\ UNCHANGED <<logged, handed, expired, lostAt, overlap>>
  BY DEF Replaces, Saving, Idle
<1>2. live \in [File -> Content] /\ f \in File
  BY <1>1, SavedFile DEF TypeInv, EnrollmentTypeOK
<1>3. /\ w \in Worker /\ (f = "issued" \/ (f = "consumed" /\ w.files = <<"consumed">>))
      /\ w.files = <<"consumed">> => f = "consumed" /\ Redeems(p)
      /\ w.host = Nobody => f = "issued" /\ w.files = <<"issued">>
  BY <1>1, SavesWhat
<1>4. /\ worker'[p].at = IF w.files = <<"issued", "consumed">> THEN "open" ELSE "last"
      /\ worker'[p].host = w.host /\ worker'[p].token = w.token
      /\ worker'[p].files = Tail(w.files)
  BY ReplacesHandlers
<1>5. ASSUME NEW q \in Port \ {p}, worker[q] = Idle PROVE worker'[q] = Idle
  <2>1. \A f0 : q \notin Holders(p, f0, "tmp") /\ q \notin Holders(p, f0, "live")
    BY <1>5, IdleRedeemsNot DEF Holders
  <2>2. worker'[q] = CASE q = p -> worker'[p]
             [] q \in Holders(p, f, "tmp") -> [worker[q] EXCEPT !.holds = "live"]
             [] q \in Holders(p, f, "live") -> [worker[q] EXCEPT !.holds = "gone"]
             [] OTHER -> worker[q]
    BY DEF Replaces
  <2> QED
    BY <1>5, <2>1, <2>2
<1>6. w.files \in Plan /\ (w.host # Nobody => w.files # <<"issued">>)
  BY <1>1 DEF TypeInv, Shape
<1>9. ASSUME ~logged', overlap' = "none"
      PROVE  /\ \A q \in Port \ {p} : worker[q] = Idle
             /\ \A t \in Good' : \/ t \in live'["issued"].tokens
                                 \/ Between(worker[p])' /\ worker'[p].token = t
             /\ Keeps(p)'
  <2>1. /\ \A q \in Port \ {p} : worker[q] = Idle
        /\ Keeps(p)
        /\ \A t \in Good : \/ t \in live["issued"].tokens
                           \/ Between(worker[p]) /\ worker[p].token = t
    BY <1>1, <1>9, Solo
  <2>2. Good' \subseteq Good /\ handed' = handed
    <3>1. Consumed \subseteq Consumed'
      BY <1>1, <1>9, ReplacesOneByOne
    <3> QED
      BY <1>1, <3>1, GoodShrinks
  <2>3. CASE f = "consumed" /\ w.files = <<"consumed">>
    <3>1. w.host # Nobody /\ worker'[p].at = "last"
      BY <1>3, <1>4, <2>3, PlanSteps DEF Redeems
    <3>2. Keeps(p)'
      BY <1>4, <3>1 DEF Keeps, Saving
    <3>3. w.token \in Consumed'
      <4>1. Redeems(p)' /\ overlap' # "enrolls"
        BY <1>4, <1>9, <3>1 DEF Redeems
      <4>2. Redemption(p)'
        BY <4>1 DEF OneByOne
      <4> QED
        BY <1>4, <3>1, <4>2 DEF Redemption
    <3>4. w.token \notin Good'
      BY <3>3 DEF Good
    <3>5. live'["issued"] = live["issued"]
      BY <1>1, <1>2, <2>3 DEF File
    <3> QED
      BY <2>1, <2>2, <3>2, <3>4, <3>5
  <2>4. CASE f = "issued" /\ w.host # Nobody
    <3>1. /\ w.files = <<"issued", "consumed">> /\ worker'[p].at = "open"
          /\ worker'[p].files = <<"consumed">>
      BY <1>3, <1>4, <1>6, <2>4, PlanSteps DEF Plan
    <3>2. live'["issued"] = tmp["issued"] /\ Good \subseteq tmp["issued"].tokens \cup {w.token}
      BY <1>1, <1>2, <2>1, <2>4 DEF Keeps
    <3>3. w.token \in Good => Between(worker[p])'
      BY <1>4, <3>1 DEF Between, Saving, Good, TypeInv, EnrollmentTypeOK
    <3>4. Keeps(p)'
      BY <1>4, <2>4, <3>1, PlanSteps DEF Keeps
    <3> QED
      BY <1>4, <2>1, <2>2, <3>2, <3>3, <3>4
  <2>5. CASE f = "issued" /\ w.host = Nobody
    <3>1. worker'[p].at = "last"
      BY <1>3, <1>4, <2>5, PlanSteps
    <3>2. /\ live'["issued"] = tmp["issued"] /\ Good \subseteq tmp["issued"].tokens
          /\ w.token \in tmp["issued"].tokens /\ w.token \notin handed
      BY <1>1, <1>2, <2>1, <2>5 DEF Keeps
    <3>3. Keeps(p)'
      BY <1>4, <2>2, <2>5, <3>1, <3>2 DEF Keeps, Saving
    <3> QED
      BY <2>1, <2>2, <3>2, <3>3
  <2> QED
    BY <1>3, <2>3, <2>4, <2>5
<1> QED
  BY <1>5, <1>9, StaysAlone

LEMMA StopsAlone ==
    ASSUME TypeInv, Alone, NEW p \in Port,
           SaveFails(p) \/ Mints(p) \/ Enrolls(p) \/ LastFails(p)
    PROVE  Alone'
<1>1. /\ worker' = [worker EXCEPT ![p] = Idle] /\ UNCHANGED <<logged, overlap, live, expired>>
      /\ Consumed' = Consumed /\ worker[p] # Idle
  BY DEF SaveFails, Mints, Enrolls, LastFails, Refuses, Stops, disk, Consumed, Idle, Saving
<1>2. CASE ~Mints(p)
  <2>1. UNCHANGED handed /\ lostAt \subseteq lostAt'
    BY <1>2 DEF SaveFails, Enrolls, LastFails
  <2>2. Good' \subseteq Good
    BY <1>1, <2>1, GoodShrinks
  <2>3. Between(worker[p]) => worker[p].token \notin Good'
    <3>1. Between(worker[p]) => worker[p].token \in lostAt'
      BY <1>2 DEF SaveFails, Enrolls, LastFails, Between, Saving
    <3> QED
      BY <3>1 DEF Good
  <2> QED
    BY <1>1, <2>2, <2>3, EndsAlone
<1>3. CASE Mints(p)
  <2>1. /\ worker[p].at = "last" /\ worker[p].host = Nobody /\ ~Between(worker[p])
        /\ handed' = handed \cup {worker[p].token} /\ UNCHANGED lostAt
    BY <1>3 DEF Mints, Between, Saving
  <2>2. worker'[p] = Idle /\ \A q \in Port \ {p} : worker'[q] = worker[q]
    BY <1>1, Moves
  <2>3. Good' \subseteq Good \cup {worker[p].token}
    BY <1>1, <2>1 DEF Good
  <2>4. ASSUME ~logged', overlap' = "none"
        PROVE  /\ \A q \in Port \ {p} : worker[q] = Idle
               /\ Good' \subseteq live'["issued"].tokens
    <3>1. /\ \A q \in Port \ {p} : worker[q] = Idle
          /\ Good \subseteq live["issued"].tokens /\ Keeps(p)
      BY <1>1, <2>1, <2>4, Solo
    <3>2. worker[p].token \in live["issued"].tokens
      BY <2>1, <3>1 DEF Keeps
    <3> QED
      BY <1>1, <2>3, <3>1, <3>2
  <2> QED
    BY <2>2, <2>4, StaysAlone
<1> QED
  BY <1>2, <1>3

LEMMA AloneInit == Init => Alone /\ LoggedIsListed
BY DEF Init, Alone, Good, LoggedIsListed

LEMMA ListedNext ==
    ASSUME LoggedIsListed, [Next]_vars PROVE LoggedIsListed'
<1>1. \/ UNCHANGED <<logged, log, handed>>
      \/ \E p \in Port : Mints(p)
  <2>1. CASE ServerNext
    BY ZenonT(40), <2>1 DEF ServerNext, EnrollStarts, LoadsIssued, FindsOwner, MintStarts, Opens, Dumps,
                Replaces, SaveFails, Enrolls, LastFails, ServerDies, Expires, disk
  <2>2. HostNext => UNCHANGED <<logged, log, handed>>
    BY ZenonT(40) DEF HostNext, CliStarts, TriesAgain, GivesUp, OpensIdentity, WritesIdentity,
           OpensPointer, WritesPointer, SavesAgain, SavedAgain, CliDies, Posts, Step,
           server, disk
  <2> QED
    BY <2>1, <2>2 DEF Next, vars, server, disk
<1> QED
  BY <1>1 DEF Mints, LoggedIsListed

LEMMA AloneNext ==
    ASSUME TypeInv, OneByOne, OneByOne', Alone, [Next]_vars
    PROVE  Alone'
<1>2. ASSUME NEW p \in Port,
             \/ EnrollStarts(p) \/ LoadsIssued(p) \/ FindsOwner(p) \/ MintStarts(p)
             \/ Opens(p) \/ Dumps(p) \/ Replaces(p) \/ SaveFails(p)
             \/ Mints(p) \/ Enrolls(p) \/ LastFails(p)
      PROVE Alone'
  BY <1>2, StartsAlone, LooksAlone, OpensAlone, DumpsAlone, ReplacesAlone, StopsAlone
<1>3. CASE ServerDies
  <2>1. /\ UNCHANGED <<logged, overlap, live, handed, expired>> /\ Consumed' = Consumed
        /\ worker' = [q \in Port |-> Idle] /\ lostAt \subseteq lostAt'
        /\ \A q \in Port : Between(worker[q]) => worker[q].token \in lostAt'
    BY <1>3 DEF ServerDies, disk, Consumed
  <2>2. Good' \subseteq Good /\ \A q \in Port : worker'[q] = Idle
    BY <2>1, GoodShrinks
  <2>3. \A q \in Port : Between(worker[q]) => worker[q].token \notin Good'
    BY <2>1 DEF Good
  <2> QED
    BY <2>1, <2>2, <2>3 DEF Alone
<1>4. ASSUME NEW t \in Minted, Expires(t) PROVE Alone'
  <2>1. /\ UNCHANGED <<logged, overlap, live, tmp, handed, lostAt, worker>>
        /\ expired \subseteq expired' /\ Consumed' = Consumed
    BY <1>4 DEF Expires, disk, Consumed
  <2>2. Good' \subseteq Good
    BY <2>1, GoodShrinks
  <2>3. ASSUME NEW p \in Port, Keeps(p) PROVE Keeps(p)'
    BY <2>1, <2>2, <2>3 DEF Keeps, Holds
  <2>4. \A p \in Port : Between(worker[p])' <=> Between(worker[p])
    BY <2>1 DEF Between
  <2> QED
    BY <2>1, <2>2, <2>3, <2>4 DEF Alone
<1>5. CASE HostNext \/ UNCHANGED vars
  <2>1. UNCHANGED <<logged, overlap, live, tmp, worker, handed, expired, lostAt>>
    BY ZenonT(40), <1>5 DEF HostNext, CliStarts, TriesAgain, GivesUp, OpensIdentity, WritesIdentity,
                OpensPointer, WritesPointer, SavesAgain, SavedAgain, CliDies, Posts, Step,
                server, disk, vars
  <2> QED
    BY <2>1, AloneUnmoved
<1> QED
  BY <1>2, <1>3, <1>4, <1>5 DEF Next, ServerNext

(* A token in a user's hands is found by the loaders until it is consumed or *)
(* expires, with the exceptions NoTokenVanishes names: the tokens file lists *)
(* it, or else no save of the issued tokens drops it (_save_issued after     *)
(* _load_issued, by the only handler that runs).                             *)
THEOREM TokensAreKept == Spec => []NoTokenVanishes
<1>1. TypeInv /\ Alone /\ LoggedIsListed => NoTokenVanishes
  <2> SUFFICES ASSUME Alone, LoggedIsListed, NEW t \in handed \ expired,
                      t \notin Consumed, t \notin LoadIssued
               PROVE  ~logged /\ \/ t \in lostAt
                                 \/ \E p \in Port : Between(worker[p]) /\ worker[p].token = t
                                 \/ overlap # "none"
    BY DEF NoTokenVanishes
  <2>1. ~logged
    BY DEF LoggedIsListed, LoadIssued, FromTokensFile
  <2>2. t \notin live["issued"].tokens
    BY DEF LoadIssued
  <2> QED
    BY <2>1, <2>2 DEF Alone, Good
<1> QED
  BY <1>1, TypeInit, TypeNext, OneByOneInit, OneByOneNext, AloneInit, AloneNext,
     ListedNext, PTL DEF Spec
=============================================================================
