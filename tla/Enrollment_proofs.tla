------------------------- MODULE Enrollment_proofs -------------------------
(***************************************************************************)
(* Proofs, for every number of hosts, tokens, listeners and runs, of       *)
(* safety properties of Enrollment.                                        *)
(***************************************************************************)
EXTENDS EnrollmentProperties, TLAPS

Plan == {<<"issued">>, <<"consumed">>, <<"issued", "consumed">>}

(* What the fields of a handler have to do with each other. *)
Shape(w) ==
    /\ w.at = "idle" => w = Idle
    /\ w.at # "idle" => w.token \in Token
    /\ w.at \in Saving => w.files \in Plan
    /\ w.holds = "none" <=> w.at \notin {"dump", "replace"}
    /\ w.host = Nobody /\ w.at # "idle" =>
        /\ w.at \in Saving \cup {"last"}
        /\ w.at \in Saving => w.files = <<"issued">>
        /\ w.token \in drawn
    /\ w.host # Nobody /\ w.at \in Saving =>
        w.files # <<"issued">> /\ w.token \in w.consumed

(* A CLI at work has a directory, one that waits has a token to send again. *)
HasDir(h) ==
    /\ cli[h].at # "idle" => cli[h].dir \in Dir
    /\ cli[h].at \in {"first", "second"} => cli[h].token \in Token /\ cli[h].port \in Port

TypeInv ==
    /\ EnrollmentTypeOK
    /\ \A p \in Port : Shape(worker[p])
    /\ \A h \in Host : HasDir(h)

LEMMA TypeInit == Init => TypeInv
<1> SUFFICES ASSUME Init PROVE TypeInv
  OBVIOUS
<1> USE EnrollmentAssumption
<1>1. Idle \in Worker /\ NoCli \in Cli
  BY DEF Idle, Worker, NoCli, Cli, File, Saving
<1>2. Absent \in Content
  BY DEF Absent, Content, Text
<1>3. EnrollmentTypeOK
  BY <1>1, <1>2 DEF Init, EnrollmentTypeOK, IdentityFile
<1>4. \A p \in Port : Shape(worker[p])
  BY DEF Init, Shape, Idle, Saving
<1>5. \A h \in Host : HasDir(h)
  BY DEF Init, HasDir, NoCli
<1> QED
  BY <1>3, <1>4, <1>5 DEF TypeInv

(* What a refusal leaves. *)
LEMMA RefusesTyped ==
    ASSUME TypeInv, NEW p \in Port, NEW w, Refuses(p, w)
    PROVE  /\ worker' \in [Port -> Worker]
           /\ worker' = [worker EXCEPT ![p] = Idle]
           /\ cli' \in [Host -> Cli]
           /\ \A h \in Host : HasDir(h)'
           /\ UNCHANGED <<runs, tries, dir, pointer, cliDeaths, reported, lab>>
<1>1. Idle \in Worker /\ NoCli \in Cli
  BY EnrollmentAssumption DEF Idle, Worker, NoCli, Cli, File, Saving
<1>2. worker' = [worker EXCEPT ![p] = Idle] /\ worker' \in [Port -> Worker]
  BY <1>1 DEF Refuses, Stops, TypeInv, EnrollmentTypeOK
<1>3. cli' \in [Host -> Cli] /\ \A h \in Host : HasDir(h)'
  <2>1. CASE Waits(w)
    <3>1. cli' = [cli EXCEPT ![w.host] = NoCli] /\ w.host \in Host
      BY <2>1 DEF Refuses, Waits
    <3>2. \A h \in Host : cli'[h] = IF h = w.host THEN NoCli ELSE cli[h]
      BY <3>1 DEF TypeInv, EnrollmentTypeOK
    <3> QED
      BY <1>1, <3>1, <3>2 DEF TypeInv, EnrollmentTypeOK, HasDir, NoCli
  <2>2. CASE ~Waits(w)
    BY <2>2 DEF Refuses, TypeInv, EnrollmentTypeOK, HasDir
  <2> QED
    BY <2>1, <2>2
<1> QED
  BY <1>2, <1>3 DEF Refuses

(* One handler moves on; the others keep their shape. *)
LEMMA MovesTyped ==
    ASSUME TypeInv, NEW p \in Port, drawn \subseteq drawn',
           worker'[p] \in Worker, Shape(worker[p])',
           worker' = [worker EXCEPT ![p] = worker'[p]]
    PROVE  /\ worker' \in [Port -> Worker]
           /\ \A q \in Port : Shape(worker[q])'
<1>1. worker' \in [Port -> Worker]
  BY DEF TypeInv, EnrollmentTypeOK
<1>2. ASSUME NEW q \in Port, q # p PROVE Shape(worker[q])'
  <2>1. worker'[q] = worker[q] /\ Shape(worker[q])
    BY <1>2 DEF TypeInv, EnrollmentTypeOK
  <2> QED
    BY <2>1 DEF Shape
<1> QED
  BY <1>1, <1>2

LEMMA IdleTyped == Idle \in Worker /\ NoCli \in Cli /\ Idle.at = "idle"
BY EnrollmentAssumption DEF Idle, Worker, NoCli, Cli, File, Saving

LEMMA ContentTyped ==
    /\ {Absent, Truncated, Torn} \subseteq Content
    /\ \A ts \in SUBSET Token : Whole(ts) \in Content
BY DEF Absent, Truncated, Torn, Whole, Content, Text

LEMMA PlanTyped == Plan \subseteq Seq(File) /\ <<>> \in Seq(File)
BY DEF Plan, File

(* The records a handler goes through. *)
LEMMA OwnerTyped ==
    ASSUME NEW w \in Worker, NEW ts \in SUBSET Token
    PROVE  [w EXCEPT !.at = "owner", !.issued = ts] \in Worker
BY DEF Worker

Request == [host : Host, token : Token, try : Nat]

LEMMA RequestTyped ==
    ASSUME TypeInv, NEW p \in Port, inbox[p] # <<>>
    PROVE  Head(inbox[p]) \in Request /\ Tail(inbox[p]) \in Seq(Request)
<1>1. inbox[p] \in Seq(Request)
  BY DEF TypeInv, EnrollmentTypeOK, Request
<1> QED
  BY <1>1

(* A handler refuses: types hold if they do for what else it changed. *)
LEMMA RefusalTyped ==
    ASSUME TypeInv, NEW p \in Port, NEW w, Refuses(p, w),
           inbox' \in [Port -> Seq(Request)],
           mishaps' \in 0..MaxMishaps, lostAt' \subseteq Minted,
           UNCHANGED <<logged, disk, drawn, expired, handed, bundles, overlap>>
    PROVE  TypeInv'
<1>1. /\ worker' \in [Port -> Worker] /\ worker' = [worker EXCEPT ![p] = Idle]
      /\ cli' \in [Host -> Cli] /\ \A h \in Host : HasDir(h)'
      /\ UNCHANGED <<runs, tries, dir, pointer, cliDeaths, reported, lab>>
  BY RefusesTyped
<1>2. worker'[p] = Idle
  BY <1>1 DEF TypeInv, EnrollmentTypeOK
<1>3. Shape(worker[p])'
  BY <1>2, IdleTyped DEF Shape, Saving, Idle
<1>4. \A q \in Port : Shape(worker[q])'
  BY <1>1, <1>2, <1>3, IdleTyped, MovesTyped
<1> QED
  BY <1>1, <1>4 DEF TypeInv, EnrollmentTypeOK, disk, Request

(* A handler moves on. *)
LEMMA MoveTyped ==
    ASSUME TypeInv, NEW p \in Port,
           worker'[p] \in Worker, Shape(worker[p])',
           worker' = [worker EXCEPT ![p] = worker'[p]],
           overlap' \in {"none", "mixed", "enrolls"},
           inbox' \in [Port -> Seq(Request)],
           live' \in [File -> Content], tmp' \in [File -> Content],
           log' \subseteq drawn', drawn \subseteq drawn', drawn' \subseteq Minted,
           handed \subseteq handed', handed' \subseteq drawn',
           UNCHANGED <<logged, expired, mishaps, bundles, lostAt, host>>
    PROVE  TypeInv'
<1>1. worker' \in [Port -> Worker] /\ \A q \in Port : Shape(worker[q])'
  BY MovesTyped
<1> QED
  BY <1>1 DEF TypeInv, EnrollmentTypeOK, host, HasDir, Request

(* Types of the redemption's first steps. *)
LEMMA LooksTyped ==
    ASSUME TypeInv, NEW p \in Port,
           EnrollStarts(p) \/ LoadsIssued(p) \/ FindsOwner(p)
    PROVE  TypeInv'
<1>1. worker[p] \in Worker
  BY DEF TypeInv, EnrollmentTypeOK
<1>0. Shape(worker[p])
  BY DEF TypeInv
<1>2. LoadIssued \subseteq Token /\ Consumed \subseteq Token
  BY DEF LoadIssued, FromTokensFile, Consumed, TypeInv, EnrollmentTypeOK, File, Content, Token
<1>3. /\ inbox \in [Port -> Seq(Request)] /\ mishaps \in 0..MaxMishaps
      /\ live \in [File -> Content] /\ tmp \in [File -> Content]
      /\ log \subseteq drawn /\ drawn \subseteq Minted /\ handed \subseteq drawn
      /\ lostAt \subseteq Minted /\ overlap \in {"none", "mixed", "enrolls"}
  BY DEF TypeInv, EnrollmentTypeOK, Request
<1>5. CASE EnrollStarts(p)
  <2> DEFINE r == Head(inbox[p])
             w == [Idle EXCEPT !.at = "load", !.host = r.host, !.token = r.token,
                               !.try = r.try, !.consumed = Consumed]
  <2>1. inbox[p] # <<>> /\ inbox[p] \in Seq([host : Host, token : Token, try : Nat])
    BY <1>5 DEF EnrollStarts, TypeInv, EnrollmentTypeOK
  <2>2. r \in Request /\ Tail(inbox[p]) \in Seq(Request)
    BY <2>1, RequestTyped
  <2>3. inbox' \in [Port -> Seq(Request)]
    BY <1>5, <2>2 DEF EnrollStarts, TypeInv, EnrollmentTypeOK, Request
  <2>4. CASE r.token \in Consumed
    <3>1. Refuses(p, w) /\ UNCHANGED overlap
      BY <1>5, <2>4 DEF EnrollStarts
    <3> QED
      BY <1>3, <1>5, <2>3, <3>1, RefusalTyped DEF EnrollStarts
  <2>5. CASE r.token \notin Consumed
    <3>1. worker' = [worker EXCEPT ![p] = w] /\ UNCHANGED host /\ Overlapped(p, r.host)
      BY <1>5, <2>5 DEF EnrollStarts
    <3>2. worker'[p] = w /\ worker' = [worker EXCEPT ![p] = worker'[p]]
      BY <3>1 DEF TypeInv, EnrollmentTypeOK
    <3>3. w \in Worker
      BY <2>2, <1>2, PlanTyped DEF Worker, Idle, Saving, Request
    <3>4. Shape(worker[p])'
      <4>1. w.at = "load" /\ w.host = r.host /\ w.token = r.token /\ w.holds = "none"
        BY DEF Idle
      <4>2. r.host \in Host /\ r.token \in Token
        BY <2>2 DEF Request
      <4> HIDE DEF w, r
      <4> QED
        BY <3>2, <4>1, <4>2, EnrollmentAssumption DEF Shape, Saving
    <3>5. overlap' \in {"none", "mixed", "enrolls"}
      BY <3>1 DEF Overlapped, TypeInv, EnrollmentTypeOK
    <3> QED
      BY <1>3, <1>5, <2>3, <3>1, <3>2, <3>3, <3>4, <3>5, MoveTyped DEF EnrollStarts, disk
  <2> QED
    BY <2>4, <2>5
<1>6. CASE LoadsIssued(p)
  <2> DEFINE w == worker[p]
  <2>1. w.at = "load" /\ w.host # Nobody /\ inbox' = inbox
    BY <1>0, <1>6 DEF LoadsIssued, Shape, Saving
  <2>2. CASE Refuses(p, w) /\ UNCHANGED overlap
    BY <1>3, <1>6, <2>1, <2>2, RefusalTyped DEF LoadsIssued
  <2>3. CASE w.token \in LoadIssued /\ UNCHANGED host
          /\ worker' = [worker EXCEPT ![p].at = "owner", ![p].issued = LoadIssued]
    <3>1. worker'[p] = [w EXCEPT !.at = "owner", !.issued = LoadIssued]
      BY <2>3 DEF TypeInv, EnrollmentTypeOK
    <3>2. worker'[p] \in Worker /\ worker' = [worker EXCEPT ![p] = worker'[p]]
      <4>1. worker'[p] \in Worker
        BY <1>1, <1>2, <3>1, OwnerTyped
      <4> QED
        BY <2>3, <3>1, <4>1
    <3>3. Shape(worker[p])'
      BY <1>0, <1>1, <2>1, <3>1 DEF Shape, Worker, Saving
    <3> QED
      BY <1>3, <1>6, <2>1, <2>3, <3>2, <3>3, MoveTyped DEF LoadsIssued, disk
  <2>4. CASE w.token \in Static /\ UNCHANGED host
          /\ worker' = [worker EXCEPT ![p].at = "open",
                                      ![p].consumed = @ \cup {w.token},
                                      ![p].files = <<"consumed">>]
    <3>1. worker'[p] = [w EXCEPT !.at = "open", !.consumed = @ \cup {w.token},
                                 !.files = <<"consumed">>]
      BY <2>4 DEF TypeInv, EnrollmentTypeOK
    <3>2. worker'[p] \in Worker /\ worker' = [worker EXCEPT ![p] = worker'[p]]
      <4> DEFINE us == w.consumed \cup {w.token}
      <4>1. us \in SUBSET Token
        BY <1>1, <2>4 DEF Worker, Token
      <4>2. worker'[p] \in Worker
        <5>1. worker'[p] = [w EXCEPT !.at = "open", !.consumed = us, !.files = <<"consumed">>]
          BY <3>1
        <5>2. w \in Worker /\ <<"consumed">> \in Seq(File)
          BY <1>1, PlanTyped DEF Plan
        <5> HIDE DEF us, w
        <5> QED
          BY <4>1, <5>1, <5>2 DEF Worker, Saving
      <4> QED
        BY <2>4, <3>1, <4>2
    <3>3. Shape(worker[p])'
      BY <1>0, <1>1, <2>1, <3>1 DEF Shape, Worker, Saving, Plan
    <3> QED
      BY <1>3, <1>6, <2>1, <2>4, <3>2, <3>3, MoveTyped DEF LoadsIssued, disk
  <2> QED
    BY <1>6, <2>2, <2>3, <2>4 DEF LoadsIssued
<1>7. CASE FindsOwner(p)
  <2> DEFINE w == worker[p]
  <2>1. w.at = "owner" /\ w.host # Nobody /\ inbox' = inbox /\ UNCHANGED overlap
    BY <1>0, <1>7 DEF FindsOwner, Shape, Saving
  <2>2. CASE w.token \notin LoadIssued
    BY <1>3, <1>7, <2>1, <2>2, RefusalTyped DEF FindsOwner
  <2>3. CASE w.token \in LoadIssued
    <3>1. /\ worker' = [worker EXCEPT ![p].at = "open",
                                      ![p].issued = @ \ {w.token},
                                      ![p].consumed = @ \cup {w.token},
                                      ![p].files = <<"issued", "consumed">>]
          /\ UNCHANGED host
      BY <1>7, <2>3 DEF FindsOwner
    <3>2. worker'[p] = [w EXCEPT !.at = "open", !.issued = @ \ {w.token},
                                 !.consumed = @ \cup {w.token},
                                 !.files = <<"issued", "consumed">>]
      BY <3>1 DEF TypeInv, EnrollmentTypeOK
    <3>3. worker'[p] \in Worker /\ worker' = [worker EXCEPT ![p] = worker'[p]]
      <4> DEFINE ts == w.issued \ {w.token}
                 us == w.consumed \cup {w.token}
      <4>1. ts \in SUBSET Token /\ us \in SUBSET Token
        BY <1>1, <1>2, <2>3 DEF Worker
      <4>2. worker'[p] \in Worker
        <5>1. worker'[p] = [w EXCEPT !.at = "open", !.issued = ts, !.consumed = us,
                                     !.files = <<"issued", "consumed">>]
          BY <3>2
        <5>2. w \in Worker /\ <<"issued", "consumed">> \in Seq(File)
          BY <1>1, PlanTyped DEF Plan
        <5> HIDE DEF ts, us, w
        <5> QED
          BY <4>1, <5>1, <5>2 DEF Worker, Saving
      <4> QED
        BY <3>1, <3>2, <4>2
    <3>4. Shape(worker[p])'
      BY <1>0, <1>1, <2>1, <3>2 DEF Shape, Worker, Saving, Plan
    <3> QED
      BY <1>3, <1>7, <2>1, <3>1, <3>3, <3>4, MoveTyped DEF FindsOwner, disk
  <2> QED
    BY <2>2, <2>3
<1> QED
  BY <1>5, <1>6, <1>7

LEMMA MintStartsTyped ==
    ASSUME TypeInv, NEW p \in Port, MintStarts(p)
    PROVE  TypeInv'
<1>1. PICK t \in Minted \ drawn :
          /\ drawn' = drawn \cup {t}
          /\ worker' = [worker EXCEPT ![p] =
                 [Idle EXCEPT !.at = "open", !.token = t, !.files = <<"issued">>,
                              !.issued = LoadIssued \cup {t}]]
  BY DEF MintStarts
<1> DEFINE ts == LoadIssued \cup {t}
           w == [Idle EXCEPT !.at = "open", !.token = t, !.files = <<"issued">>, !.issued = ts]
<1>2. ts \subseteq Token
  BY DEF LoadIssued, FromTokensFile, Consumed, TypeInv, EnrollmentTypeOK, File, Content, Token
<1>3. worker'[p] = w /\ worker' = [worker EXCEPT ![p] = worker'[p]]
  BY <1>1 DEF TypeInv, EnrollmentTypeOK
<1>4. w \in Worker
  <2> HIDE DEF ts
  <2>1. t \in Token /\ <<"issued">> \in Seq(File)
    BY PlanTyped DEF Token, Plan
  <2> QED
    BY <1>2, <2>1, PlanTyped DEF Worker, Idle, Saving
<1>5. Shape(worker[p])'
  <2>1. /\ w.at = "open" /\ w.host = Nobody /\ w.token = t /\ w.holds = "none"
        /\ w.files = <<"issued">>
    BY DEF Idle
  <2>2. t \in Token /\ t \in drawn'
    BY <1>1 DEF Token
  <2> HIDE DEF w
  <2> QED
    BY <1>3, <2>1, <2>2 DEF Shape, Saving, Plan
<1>6. overlap' \in {"none", "mixed", "enrolls"}
  BY DEF MintStarts, Overlapped, TypeInv, EnrollmentTypeOK
<1>7. /\ drawn \subseteq drawn' /\ drawn' \subseteq Minted
      /\ UNCHANGED <<logged, live, tmp, log, expired, inbox, mishaps, handed, bundles,
                     lostAt, host>>
  BY <1>1 DEF MintStarts, TypeInv, EnrollmentTypeOK, disk
<1>8. /\ log \subseteq drawn /\ handed \subseteq drawn
      /\ live \in [File -> Content] /\ tmp \in [File -> Content]
      /\ inbox \in [Port -> Seq(Request)]
  BY DEF TypeInv, EnrollmentTypeOK, Request
<1> HIDE DEF w
<1> QED
  BY <1>3, <1>4, <1>5, <1>6, <1>7, <1>8, MoveTyped

(* The file a handler saves. *)
LEMMA SavedFile ==
    ASSUME TypeInv, NEW p \in Port, worker[p].at \in Saving
    PROVE  /\ worker[p] \in Worker /\ worker[p].files \in Plan
           /\ Head(worker[p].files) \in File
           /\ \A c : c \in Overwritten(tmp[Head(worker[p].files)], Payload(worker[p]))
                      \cup Overwritten(live[Head(worker[p].files)], Payload(worker[p]))
                      => c \in Content
<1>1. worker[p] \in Worker /\ worker[p].files \in Plan
  BY DEF TypeInv, EnrollmentTypeOK, Shape
<1>2. Head(worker[p].files) \in File
  BY <1>1 DEF Plan, File
<1>3. worker[p].issued \subseteq Token /\ worker[p].consumed \subseteq Token
  BY <1>1 DEF Worker
<1>4. Payload(worker[p]) \in Content
  BY <1>3, ContentTyped DEF Payload
<1> QED
  BY <1>1, <1>2, <1>4, ContentTyped DEF Overwritten

LEMMA WritesTyped ==
    ASSUME TypeInv, NEW p \in Port, Opens(p) \/ Dumps(p)
    PROVE  TypeInv'
<1> DEFINE w == worker[p]
           f == Head(w.files)
<1>0. w.at \in Saving
  BY DEF Opens, Dumps, Saving
<1>1. w \in Worker /\ w.files \in Plan /\ f \in File /\ Shape(w)
  BY <1>0, SavedFile DEF TypeInv
<1>2. /\ log \subseteq drawn /\ drawn \subseteq Minted /\ handed \subseteq drawn
      /\ live \in [File -> Content] /\ tmp \in [File -> Content]
      /\ inbox \in [Port -> Seq(Request)] /\ overlap \in {"none", "mixed", "enrolls"}
  BY DEF TypeInv, EnrollmentTypeOK, Request
<1>3. CASE Opens(p)
  <2>1. /\ worker'[p] = [w EXCEPT !.at = "dump", !.holds = "tmp"]
        /\ worker' = [worker EXCEPT ![p] = worker'[p]]
    BY <1>3 DEF Opens, TypeInv, EnrollmentTypeOK
  <2>2. worker'[p] \in Worker /\ Shape(worker[p])'
    <3>1. UNCHANGED drawn
      BY <1>3 DEF Opens
    <3> HIDE DEF w
    <3>2. worker'[p] \in Worker
      BY <1>1, <2>1 DEF Worker, Saving
    <3>3. /\ worker'[p].at = "dump" /\ worker'[p].holds = "tmp"
          /\ worker'[p].files = w.files /\ worker'[p].token = w.token
          /\ worker'[p].host = w.host /\ worker'[p].consumed = w.consumed
      BY <1>1, <2>1 DEF Worker
    <3> QED
      BY <1>0, <1>1, <3>1, <3>2, <3>3 DEF Shape, Saving, Idle
  <2>3. tmp' \in [File -> Content]
    BY <1>2, <1>3, ContentTyped DEF Opens
  <2> QED
    BY <1>2, <1>3, <2>1, <2>2, <2>3, MoveTyped DEF Opens
<1>4. CASE Dumps(p)
  <2>1. /\ worker'[p] = [w EXCEPT !.at = "replace"]
        /\ worker' = [worker EXCEPT ![p] = worker'[p]]
    BY <1>4 DEF Dumps, TypeInv, EnrollmentTypeOK
  <2>2. worker'[p] \in Worker /\ Shape(worker[p])'
    <3>1. UNCHANGED drawn /\ w.at = "dump"
      BY <1>4 DEF Dumps
    <3> HIDE DEF w
    <3>2. worker'[p] \in Worker
      BY <1>1, <2>1 DEF Worker, Saving
    <3>3. /\ worker'[p].at = "replace" /\ worker'[p].holds = w.holds
          /\ worker'[p].files = w.files /\ worker'[p].token = w.token
          /\ worker'[p].host = w.host /\ worker'[p].consumed = w.consumed
      BY <1>1, <2>1 DEF Worker
    <3> QED
      BY <1>0, <1>1, <3>1, <3>2, <3>3 DEF Shape, Saving, Idle
  <2>3. live' \in [File -> Content] /\ tmp' \in [File -> Content]
    BY <1>0, <1>2, <1>4, SavedFile DEF Dumps
  <2> QED
    BY <1>2, <1>4, <2>1, <2>2, <2>3, MoveTyped DEF Dumps
<1> QED
  BY <1>3, <1>4

LEMMA PlanSteps ==
    /\ Len(<<"issued", "consumed">>) = 2 /\ Tail(<<"issued", "consumed">>) = <<"consumed">>
    /\ Len(<<"issued">>) = 1 /\ Tail(<<"issued">>) = <<>> /\ Head(<<"issued">>) = "issued"
    /\ Len(<<"consumed">>) = 1 /\ Tail(<<"consumed">>) = <<>>
    /\ Head(<<"consumed">>) = "consumed" /\ Head(<<"issued", "consumed">>) = "issued"
    /\ <<"issued", "consumed">> \notin {<<"issued">>, <<"consumed">>}
    /\ <<"issued">> # <<"consumed">>
OBVIOUS

(* os.replace moves on the handler and what the others hold. *)
LEMMA ReplacesHandlers ==
    ASSUME TypeInv, NEW p \in Port, Replaces(p)
    PROVE  /\ worker' \in [Port -> Worker]
           /\ \A q \in Port : Shape(worker[q])'
           /\ worker'[p].at = IF worker[p].files = <<"issued", "consumed">>
                              THEN "open" ELSE "last"
           /\ worker'[p].files = Tail(worker[p].files) /\ worker'[p].holds = "none"
           /\ \A q \in Port \ {p} :
                /\ worker'[q].at = worker[q].at /\ worker'[q].files = worker[q].files
                /\ worker'[q].holds \in {worker[q].holds, "live", "gone"}
                /\ worker'[q].holds = worker[q].holds
                     \/ (worker[q].at \in {"dump", "replace"}
                            /\ Head(worker[q].files) = Head(worker[p].files))
           /\ \A q \in Port :
                /\ worker'[q].host = worker[q].host /\ worker'[q].token = worker[q].token
                /\ worker'[q].try = worker[q].try
                /\ worker'[q].issued = worker[q].issued
                /\ worker'[q].consumed = worker[q].consumed
<1> DEFINE w == worker[p]
           f == Head(w.files)
           next == [w EXCEPT !.at = IF Len(w.files) > 1 THEN "open" ELSE "last",
                             !.files = Tail(@), !.holds = "none"]
<1>1. /\ w.at = "replace" /\ drawn' = drawn
      /\ worker' = [q \in Port |->
             CASE q = p -> next
               [] q \in Holders(p, f, "tmp") -> [worker[q] EXCEPT !.holds = "live"]
               [] q \in Holders(p, f, "live") -> [worker[q] EXCEPT !.holds = "gone"]
               [] OTHER -> worker[q]]
  BY DEF Replaces
<1>2. w \in Worker /\ w.files \in Plan /\ Shape(w)
  BY <1>1, SavedFile DEF Saving, TypeInv
<1> HIDE DEF w
<1>3. /\ w.files = <<"issued", "consumed">> =>
             Len(w.files) = 2 /\ Tail(w.files) = <<"consumed">>
      /\ w.files # <<"issued", "consumed">> => Len(w.files) = 1 /\ Tail(w.files) = <<>>
  BY <1>2, PlanSteps, Zenon DEF Plan
<1>4. Tail(w.files) \in Seq(File)
  BY <1>3, PlanTyped DEF Plan
<1>5. next \in Worker
  <2> DEFINE at == IF Len(w.files) > 1 THEN "open" ELSE "last"
             files == Tail(w.files)
  <2>1. next = [w EXCEPT !.at = at, !.files = files, !.holds = "none"]
    OBVIOUS
  <2>2. at \in {"open", "last"} /\ files \in Seq(File)
    BY <1>4
  <2> HIDE DEF at, files, next
  <2> QED
    BY <1>2, <2>1, <2>2 DEF Worker, Saving
<1>6. /\ next.at = IF w.files = <<"issued", "consumed">> THEN "open" ELSE "last"
      /\ next.files = Tail(w.files) /\ next.holds = "none"
      /\ next.host = w.host /\ next.token = w.token /\ next.try = w.try
      /\ next.issued = w.issued /\ next.consumed = w.consumed
  <2> DEFINE at == IF Len(w.files) > 1 THEN "open" ELSE "last"
             files == Tail(w.files)
  <2>1. next = [w EXCEPT !.at = at, !.files = files, !.holds = "none"]
    OBVIOUS
  <2>2. at = IF w.files = <<"issued", "consumed">> THEN "open" ELSE "last"
    <3>1. CASE w.files = <<"issued", "consumed">>
      BY <1>3, <3>1
    <3>2. CASE w.files # <<"issued", "consumed">>
      BY <1>3, <3>2
    <3> QED
      BY <3>1, <3>2
  <2> HIDE DEF at, files, next
  <2>3. /\ next.at = at /\ next.files = files /\ next.holds = "none"
        /\ next.host = w.host /\ next.token = w.token /\ next.try = w.try
        /\ next.issued = w.issued /\ next.consumed = w.consumed
    BY <1>2, <2>1 DEF Worker
  <2>4. next.files = Tail(w.files)
    BY <2>3 DEF files
  <2>5. next.at = IF w.files = <<"issued", "consumed">> THEN "open" ELSE "last"
    BY <2>2, <2>3, Zenon
  <2> QED
    BY <2>3, <2>4, <2>5, Zenon
<1>7. worker'[p] = next /\ Shape(worker[p])'
  <2> HIDE DEF next
  <2>1. worker'[p] = next
    BY <1>1 DEF Holders
  <2>2. CASE w.files = <<"issued", "consumed">>
    <3>1. /\ worker'[p].at = "open" /\ worker'[p].files = <<"consumed">>
          /\ worker'[p].holds = "none" /\ worker'[p].host = w.host
          /\ worker'[p].token = w.token /\ worker'[p].consumed = w.consumed
      BY <1>3, <1>6, <2>1, <2>2
    <3>2. w.host # Nobody /\ w.token \in w.consumed /\ w.token \in Token
      <4>1. w.files # <<"issued">>
        BY <2>2
      <4> QED
        BY <1>1, <1>2, <4>1 DEF Shape, Saving, w
    <3> QED
      BY <2>1, <3>1, <3>2, PlanSteps DEF Shape, Saving, Plan
  <2>3. CASE w.files # <<"issued", "consumed">>
    <3>1. /\ worker'[p].at = "last" /\ worker'[p].holds = "none"
          /\ worker'[p].host = w.host /\ worker'[p].token = w.token
      BY <1>6, <2>1, <2>3
    <3>2. w.token \in Token /\ (w.host = Nobody => w.token \in drawn')
      BY <1>1, <1>2 DEF Shape, w
    <3> QED
      BY <2>1, <3>1, <3>2 DEF Shape, Saving
  <2> QED
    BY <2>2, <2>3
<1>8. ASSUME NEW q \in Port \ {p}
      PROVE  /\ worker'[q] \in Worker /\ Shape(worker[q])'
             /\ worker'[q].at = worker[q].at /\ worker'[q].files = worker[q].files
             /\ worker'[q].holds \in {worker[q].holds, "live", "gone"}
             /\ worker'[q].holds = worker[q].holds
                     \/ (worker[q].at \in {"dump", "replace"} /\ Head(worker[q].files) = f)
             /\ worker'[q].host = worker[q].host /\ worker'[q].token = worker[q].token
             /\ worker'[q].try = worker[q].try
             /\ worker'[q].issued = worker[q].issued
             /\ worker'[q].consumed = worker[q].consumed
  <2> DEFINE v == worker[q]
  <2>1. v \in Worker /\ Shape(v)
    BY DEF TypeInv, EnrollmentTypeOK
  <2>2. CASE q \in Holders(p, f, "tmp") \/ q \in Holders(p, f, "live")
    <3>1. v.at \in {"dump", "replace"} /\ Head(v.files) = f
      BY <2>1, <2>2 DEF Holders, Shape
    <3>2. PICK h \in {"live", "gone"} : worker'[q] = [v EXCEPT !.holds = h]
      BY <1>1, <2>2
    <3> HIDE DEF v
    <3>3. /\ worker'[q].at = v.at /\ worker'[q].files = v.files
          /\ worker'[q].holds = h /\ worker'[q].host = v.host
          /\ worker'[q].token = v.token /\ worker'[q].try = v.try
          /\ worker'[q].issued = v.issued /\ worker'[q].consumed = v.consumed
          /\ worker'[q] \in Worker
      BY <2>1, <3>2 DEF Worker
    <3>4. Shape(worker[q])'
      BY <1>1, <2>1, <3>1, <3>3 DEF Shape, Saving
    <3> QED
      BY <3>1, <3>3, <3>4 DEF v
  <2>3. CASE ~(q \in Holders(p, f, "tmp") \/ q \in Holders(p, f, "live"))
    <3>1. worker'[q] = v
      BY <1>1, <2>3
    <3>2. Shape(worker[q])'
      <4>1. drawn' = drawn
        BY <1>1
      <4> QED
        BY <2>1, <3>1, <4>1 DEF Shape
    <3> QED
      BY <2>1, <3>1, <3>2
  <2> QED
    BY <2>2, <2>3
<1>9. worker' \in [Port -> Worker]
  <2> HIDE DEF next
  <2>1. \A q \in Port : worker'[q] \in Worker
    BY <1>5, <1>7, <1>8
  <2>2. worker' = [q \in Port |-> worker'[q]]
    BY <1>1
  <2> QED
    BY <2>1, <2>2
<1>10. \A q \in Port : Shape(worker[q])'
  <2> HIDE DEF next
  <2> QED
    BY <1>7, <1>8
<1> HIDE DEF next
<1> QED
  BY <1>6, <1>7, <1>8, <1>9, <1>10 DEF w

LEMMA ReplacesTyped ==
    ASSUME TypeInv, NEW p \in Port, Replaces(p)
    PROVE  TypeInv'
<1>1. worker' \in [Port -> Worker] /\ \A q \in Port : Shape(worker[q])'
  BY ReplacesHandlers
<1>2. worker[p].at \in Saving
  BY DEF Replaces, Saving
<1>3. live' \in [File -> Content] /\ tmp' \in [File -> Content]
  BY <1>2, SavedFile, ContentTyped DEF Replaces, TypeInv, EnrollmentTypeOK
<1> QED
  BY <1>1, <1>3 DEF Replaces, TypeInv, EnrollmentTypeOK, host, HasDir

LEMMA FailsTyped ==
    ASSUME TypeInv, NEW p \in Port, SaveFails(p) \/ LastFails(p)
    PROVE  TypeInv'
<1>1. inbox' \in [Port -> Seq(Request)]
  BY DEF SaveFails, LastFails, TypeInv, EnrollmentTypeOK, Request
<1>2. mishaps' \in 0..MaxMishaps
  BY EnrollmentAssumption DEF SaveFails, LastFails, Mishap, TypeInv, EnrollmentTypeOK
<1>3. lostAt' \subseteq Minted
  BY DEF SaveFails, LastFails, Between, TypeInv, EnrollmentTypeOK
<1>4. Refuses(p, worker[p])
  BY DEF SaveFails, LastFails
<1> QED
  BY <1>1, <1>2, <1>3, <1>4, RefusalTyped DEF SaveFails, LastFails, disk

LEMMA MintsTyped ==
    ASSUME TypeInv, NEW p \in Port, Mints(p)
    PROVE  TypeInv'
<1>1. worker' = [worker EXCEPT ![p] = Idle]
  BY DEF Mints, Stops
<1>2. worker'[p] = Idle
  BY <1>1 DEF TypeInv, EnrollmentTypeOK
<1>3. Shape(worker[p])'
  BY <1>2, IdleTyped DEF Shape, Saving, Idle
<1>4. worker[p].token \in drawn
  BY DEF Mints, TypeInv, Shape
<1>5. /\ log \subseteq drawn /\ drawn \subseteq Minted /\ handed \subseteq drawn
      /\ live \in [File -> Content] /\ tmp \in [File -> Content]
      /\ inbox \in [Port -> Seq(Request)] /\ overlap \in {"none", "mixed", "enrolls"}
  BY DEF TypeInv, EnrollmentTypeOK, Request
<1>6. log' \subseteq drawn /\ handed \subseteq handed' /\ handed' \subseteq drawn
  BY <1>4, <1>5 DEF Mints
<1> QED
  BY <1>1, <1>2, <1>3, <1>5, <1>6, IdleTyped, MoveTyped DEF Mints

LEMMA AnsweredTyped ==
    ASSUME TypeInv, NEW h \in Host, cli[h].at \in {"first", "second"}
    PROVE  LET c == [NoCli EXCEPT !.at = "identity", !.dir = cli[h].dir]
           IN c \in Cli /\ c.at = "identity" /\ c.dir = cli[h].dir /\ c.dir \in Dir
<1> DEFINE d == cli[h].dir
           c == [NoCli EXCEPT !.at = "identity", !.dir = d]
<1>1. d \in Dir
  BY DEF TypeInv, HasDir
<1> HIDE DEF d
<1>2. c \in Cli /\ c.at = "identity" /\ c.dir = d
  BY <1>1, IdleTyped DEF Cli, NoCli
<1> QED
  BY <1>1, <1>2 DEF d

LEMMA EnrollsTyped ==
    ASSUME TypeInv, NEW p \in Port, Enrolls(p)
    PROVE  TypeInv'
<1> DEFINE w == worker[p]
<1>1. worker' = [worker EXCEPT ![p] = Idle]
  BY DEF Enrolls, Stops
<1>2. worker'[p] = Idle
  BY <1>1 DEF TypeInv, EnrollmentTypeOK
<1>3. Shape(worker[p])'
  BY <1>2, IdleTyped DEF Shape, Saving, Idle
<1>4. worker' \in [Port -> Worker] /\ \A q \in Port : Shape(worker[q])'
  <2>1. drawn' = drawn
    BY DEF Enrolls, disk
  <2> QED
    BY <1>1, <1>2, <1>3, <2>1, IdleTyped, MovesTyped
<1>5. cli' \in [Host -> Cli] /\ \A h \in Host : HasDir(h)'
  <2>1. CASE Waits(w)
    <3> DEFINE c == [NoCli EXCEPT !.at = "identity", !.dir = cli[w.host].dir]
    <3>1. w.host \in Host /\ cli[w.host].at \in {"first", "second"}
      BY <2>1 DEF Waits
    <3>2. cli' = [cli EXCEPT ![w.host] = c]
      BY <2>1 DEF Enrolls
    <3>3. c \in Cli /\ c.dir \in Dir /\ c.at = "identity"
      BY <3>1, AnsweredTyped
    <3> HIDE DEF c
    <3>4. \A h \in Host : cli'[h] = IF h = w.host THEN c ELSE cli[h]
      BY <3>2 DEF TypeInv, EnrollmentTypeOK
    <3> QED
      BY <3>1, <3>2, <3>3, <3>4 DEF TypeInv, EnrollmentTypeOK, HasDir
  <2>2. CASE ~Waits(w)
    BY <2>2 DEF Enrolls, TypeInv, EnrollmentTypeOK, HasDir
  <2> QED
    BY <2>1, <2>2
<1>6. bundles' \in [Token -> Nat]
  <2>1. bundles' = [bundles EXCEPT ![w.token] = @ + 1]
    BY DEF Enrolls
  <2>2. bundles \in [Token -> Nat] /\ w.token \in Token
    BY DEF Enrolls, TypeInv, EnrollmentTypeOK, Shape
  <2>3. bundles[w.token] + 1 \in Nat
    BY <2>2
  <2> QED
    BY <2>1, <2>2, <2>3
<1> QED
  BY <1>4, <1>5, <1>6 DEF Enrolls, disk, TypeInv, EnrollmentTypeOK

LEMMA ServerTyped ==
    ASSUME TypeInv, ServerDies \/ \E t \in Minted : Expires(t)
    PROVE  TypeInv'
<1>1. CASE ServerDies
  <2>1. worker' \in [Port -> Worker] /\ \A q \in Port : Shape(worker[q])'
    <3>1. worker' = [q \in Port |-> Idle]
      BY <1>1 DEF ServerDies
    <3>2. \A q \in Port : Shape(worker[q])'
      <4> TAKE q \in Port
      <4>1. worker'[q] = Idle
        BY <3>1
      <4> QED
        BY <4>1, IdleTyped DEF Shape, Saving, Idle
    <3> QED
      BY <3>1, <3>2, IdleTyped
  <2>2. inbox' \in [Port -> Seq([host : Host, token : Token, try : Nat])]
    BY <1>1 DEF ServerDies
  <2>3. mishaps' \in 0..MaxMishaps
    BY <1>1, EnrollmentAssumption DEF ServerDies, Mishap, TypeInv, EnrollmentTypeOK
  <2>4. lostAt' \subseteq Minted
    BY <1>1 DEF ServerDies, Between, TypeInv, EnrollmentTypeOK
  <2> QED
    BY <1>1, <2>1, <2>2, <2>3, <2>4 DEF ServerDies, disk, host, TypeInv, EnrollmentTypeOK, HasDir
<1>2. ASSUME NEW t \in Minted, Expires(t) PROVE TypeInv'
  BY <1>2 DEF Expires, disk, host, TypeInv, EnrollmentTypeOK, HasDir, Shape
<1> QED
  BY <1>1, <1>2

-----------------------------------------------------------------------------
(* A CLI that posts. *)
LEMMA PostsTyped ==
    ASSUME TypeInv, NEW h \in Host, NEW c \in Cli, c.token \in Token, c.port \in Port,
           c.dir \in Dir, Posts(h, c), runs' \in [Host -> 0..MaxRuns],
           UNCHANGED <<dir, pointer, cliDeaths, reported, lab>>
    PROVE  TypeInv'
<1> DEFINE r == [host |-> h, token |-> c.token, try |-> tries[h] + 1]
<1>1. /\ tries' = [tries EXCEPT ![h] = @ + 1]
      /\ cli' = [cli EXCEPT ![h] = c]
      /\ inbox' = [inbox EXCEPT ![c.port] = Append(@, r)]
      /\ UNCHANGED <<logged, live, tmp, log, drawn, expired, worker, mishaps, handed,
                     bundles, lostAt, overlap>>
  BY DEF Posts, disk
<1>2. tries' \in [Host -> Nat] /\ r \in Request
  <2>1. tries[h] \in Nat /\ tries \in [Host -> Nat]
    BY DEF TypeInv, EnrollmentTypeOK
  <2>2. tries[h] + 1 \in Nat
    BY <2>1
  <2> QED
    BY <1>1, <2>1, <2>2 DEF Request
<1>3. inbox' \in [Port -> Seq(Request)]
  <2> HIDE DEF r
  <2>1. inbox[c.port] \in Seq(Request) /\ inbox \in [Port -> Seq(Request)]
    BY DEF TypeInv, EnrollmentTypeOK, Request
  <2>2. Append(inbox[c.port], r) \in Seq(Request)
    BY <1>2, <2>1
  <2> QED
    BY <1>1, <2>1, <2>2
<1>4. cli' \in [Host -> Cli] /\ \A g \in Host : HasDir(g)'
  <2>1. cli \in [Host -> Cli]
    BY DEF TypeInv, EnrollmentTypeOK
  <2>2. \A g \in Host : cli'[g] = IF g = h THEN c ELSE cli[g]
    BY <1>1, <2>1
  <2> QED
    BY <1>1, <2>1, <2>2 DEF TypeInv, HasDir
<1>5. \A q \in Port : Shape(worker[q])'
  BY <1>1 DEF Shape, TypeInv
<1> QED
  BY <1>1, <1>2, <1>3, <1>4, <1>5 DEF TypeInv, EnrollmentTypeOK, Request

(* A CLI that goes on at work on its directory, or ends. *)
LEMMA WorksTyped ==
    ASSUME TypeInv, NEW h \in Host, NEW c \in Cli, c.at # "idle" => c.dir \in Dir,
           c.at \notin {"first", "second"},
           cli' = [cli EXCEPT ![h] = c],
           dir' \in [Host -> [Dir -> IdentityFile]],
           pointer' \in [Host -> {0} \cup Dir],
           cliDeaths' \in [Host -> 0..MaxCliDeaths],
           reported' \in [Host -> SUBSET Dir], lab' \in [Host -> SUBSET Dir],
           UNCHANGED <<server, runs, tries>>
    PROVE  TypeInv'
<1>1. cli' \in [Host -> Cli] /\ \A g \in Host : HasDir(g)'
  <2>1. cli \in [Host -> Cli]
    BY DEF TypeInv, EnrollmentTypeOK
  <2>2. \A g \in Host : cli'[g] = IF g = h THEN c ELSE cli[g]
    BY <2>1
  <2> QED
    BY <2>1, <2>2 DEF TypeInv, HasDir
<1>2. \A q \in Port : Shape(worker[q])'
  BY DEF Shape, TypeInv, server
<1> QED
  BY <1>1, <1>2 DEF TypeInv, EnrollmentTypeOK, server, disk

LEMMA NextStage ==
    ASSUME TypeInv, NEW h \in Host, cli[h].at # "idle",
           NEW at \in {"json", "pointer", "aim", "spoil", "respoil"}
    PROVE  LET c == [cli[h] EXCEPT !.at = at]
           IN c \in Cli /\ c.at = at /\ c.dir = cli[h].dir /\ c.dir \in Dir
              /\ [cli EXCEPT ![h].at = at] = [cli EXCEPT ![h] = c]
<1> DEFINE v == cli[h]
           c == [v EXCEPT !.at = at]
<1>1. v \in Cli /\ v.dir \in Dir
  BY DEF TypeInv, EnrollmentTypeOK, HasDir
<1>2. [cli EXCEPT ![h].at = at] = [cli EXCEPT ![h] = c]
  OBVIOUS
<1> HIDE DEF v
<1>3. c \in Cli /\ c.at = at /\ c.dir = v.dir
  BY <1>1 DEF Cli
<1> QED
  BY <1>1, <1>2, <1>3 DEF v

LEMMA HostTyped ==
    ASSUME TypeInv, NEW h \in Host,
           \/ CliStarts(h) \/ TriesAgain(h) \/ GivesUp(h)
           \/ OpensIdentity(h) \/ WritesIdentity(h)
           \/ OpensPointer(h) \/ WritesPointer(h)
           \/ SavesAgain(h) \/ SavedAgain(h) \/ CliDies(h)
    PROVE  TypeInv'
<1>1. /\ cli \in [Host -> Cli] /\ dir \in [Host -> [Dir -> IdentityFile]]
      /\ pointer \in [Host -> {0} \cup Dir] /\ cliDeaths \in [Host -> 0..MaxCliDeaths]
      /\ reported \in [Host -> SUBSET Dir] /\ lab \in [Host -> SUBSET Dir]
      /\ runs \in [Host -> 0..MaxRuns] /\ handed \subseteq Token
  BY DEF TypeInv, EnrollmentTypeOK, Token
<1>2. NoCli \in Cli /\ NoCli.at = "idle"
  BY IdleTyped DEF NoCli
<1>3. CASE CliStarts(h)
  <2>1. PICK t \in handed \cup Static, p \in Port, d \in Free(h) :
            Posts(h, [at |-> "first", token |-> t, port |-> p, dir |-> d])
    BY <1>3 DEF CliStarts
  <2> DEFINE c == [at |-> "first", token |-> t, port |-> p, dir |-> d]
  <2>2. runs' \in [Host -> 0..MaxRuns] /\ 1 \in Dir
    <3>1. runs[h] \in 0..MaxRuns /\ runs[h] < MaxRuns
      BY <1>1, <1>3 DEF CliStarts
    <3>2. runs[h] + 1 \in 0..MaxRuns /\ 1 \in Dir
      BY <3>1, EnrollmentAssumption DEF Dir
    <3>3. runs' = [runs EXCEPT ![h] = @ + 1]
      BY <1>3 DEF CliStarts
    <3> QED
      BY <1>1, <3>2, <3>3
  <2>3. d \in Dir /\ t \in Token
    BY <1>1, <2>2 DEF Free, Token
  <2>4. c \in Cli /\ c.token \in Token /\ c.port \in Port /\ c.dir \in Dir
    BY <2>3 DEF Cli
  <2>5. UNCHANGED <<dir, pointer, cliDeaths, reported, lab>>
    BY <1>3 DEF CliStarts
  <2> HIDE DEF c
  <2>6. Posts(h, c)
    BY <2>1 DEF c
  <2> QED
    BY <2>2, <2>4, <2>5, <2>6, PostsTyped
<1>5. CASE GivesUp(h)
  BY <1>1, <1>2, <1>5, WorksTyped DEF GivesUp
<1>6. ASSUME NEW at \in {"identity", "json", "spoil"}, NEW c \in {"torn", "whole"},
             NEW next \in {"json", "pointer", "respoil"}, Step(h, at, next, c)
      PROVE TypeInv'
  <2>1. /\ cli[h].at = at /\ cli' = [cli EXCEPT ![h].at = next]
        /\ dir' = [dir EXCEPT ![h][cli[h].dir] = c]
        /\ UNCHANGED <<server, runs, tries, pointer, cliDeaths, reported, lab>>
    BY <1>6 DEF Step
  <2> DEFINE k == [cli[h] EXCEPT !.at = next]
  <2>2. k \in Cli /\ k.dir \in Dir /\ k.at = next /\ cli' = [cli EXCEPT ![h] = k]
    BY <2>1, NextStage
  <2>3. dir' \in [Host -> [Dir -> IdentityFile]]
    BY <1>1, <2>1 DEF IdentityFile
  <2> HIDE DEF k
  <2> QED
    BY <1>1, <2>1, <2>2, <2>3, WorksTyped
<1>7. CASE OpensPointer(h)
  <2> DEFINE k == [cli[h] EXCEPT !.at = "aim"]
  <2>1. k \in Cli /\ k.dir \in Dir /\ k.at = "aim" /\ cli' = [cli EXCEPT ![h] = k]
    BY <1>7, NextStage DEF OpensPointer
  <2>2. pointer' \in [Host -> {0} \cup Dir]
    BY <1>1, <1>7 DEF OpensPointer
  <2> HIDE DEF k
  <2> QED
    BY <1>1, <1>7, <2>1, <2>2, WorksTyped DEF OpensPointer
<1>8. CASE WritesPointer(h)
  <2>1. cli[h].dir \in Dir /\ cli[h].at = "aim"
    BY <1>8 DEF WritesPointer, TypeInv, HasDir
  <2>2. pointer' \in [Host -> {0} \cup Dir]
    BY <1>1, <1>8, <2>1 DEF WritesPointer
  <2>3. CASE /\ cli' = [cli EXCEPT ![h].at = "spoil"]
             /\ lab' = [lab EXCEPT ![h] = @ \cup {cli[h].dir}]
             /\ UNCHANGED reported
    <3> DEFINE k == [cli[h] EXCEPT !.at = "spoil"]
    <3>1. k \in Cli /\ k.dir \in Dir /\ k.at = "spoil" /\ cli' = [cli EXCEPT ![h] = k]
      BY <2>1, <2>3, NextStage
    <3>2. lab' \in [Host -> SUBSET Dir]
      BY <1>1, <2>1, <2>3
    <3> HIDE DEF k
    <3> QED
      BY <1>1, <1>8, <2>2, <2>3, <3>1, <3>2, WorksTyped DEF WritesPointer
  <2>4. CASE /\ cli' = [cli EXCEPT ![h] = NoCli]
             /\ reported' = [reported EXCEPT ![h] = @ \cup {cli[h].dir}]
             /\ UNCHANGED lab
    <3>1. reported' \in [Host -> SUBSET Dir]
      BY <1>1, <2>1, <2>4
    <3> QED
      BY <1>1, <1>2, <1>8, <2>2, <2>4, <3>1, WorksTyped DEF WritesPointer
  <2> QED
    BY <1>8, <2>3, <2>4 DEF WritesPointer
<1>9. CASE SavedAgain(h)
  <2>1. cli[h].dir \in Dir /\ cli[h].at = "respoil"
    BY <1>9 DEF SavedAgain, TypeInv, HasDir
  <2>2. dir' \in [Host -> [Dir -> IdentityFile]]
    BY <1>1, <1>9 DEF SavedAgain, IdentityFile
  <2>3. reported' \in [Host -> SUBSET Dir]
    BY <1>1, <1>9, <2>1 DEF SavedAgain
  <2> QED
    BY <1>1, <1>2, <1>9, <2>2, <2>3, WorksTyped DEF SavedAgain
<1>10. CASE CliDies(h)
  <2>1. cliDeaths[h] \in 0..MaxCliDeaths /\ cliDeaths[h] < MaxCliDeaths
    BY <1>1, <1>10 DEF CliDies
  <2>2. cliDeaths[h] + 1 \in 0..MaxCliDeaths
    BY <2>1, EnrollmentAssumption
  <2>3. cliDeaths' \in [Host -> 0..MaxCliDeaths]
    BY <1>1, <1>10, <2>2 DEF CliDies
  <2> QED
    BY <1>1, <1>2, <1>10, <2>3, WorksTyped DEF CliDies
<1>11. CASE OpensIdentity(h)
  BY <1>6, <1>11 DEF OpensIdentity
<1>12. CASE WritesIdentity(h)
  BY <1>6, <1>12 DEF WritesIdentity
<1>13. CASE SavesAgain(h)
  BY <1>6, <1>13 DEF SavesAgain
<1>14. CASE TriesAgain(h)
  <2>1. cli[h].at = "first" /\ Posts(h, [cli[h] EXCEPT !.at = "second"])
        /\ UNCHANGED <<runs, dir, pointer, cliDeaths, reported, lab>>
    BY <1>14 DEF TriesAgain
  <2> DEFINE v == cli[h]
             c == [v EXCEPT !.at = "second"]
  <2>2. v \in Cli /\ v.dir \in Dir /\ v.token \in Token /\ v.port \in Port
    BY <1>1, <2>1 DEF TypeInv, HasDir
  <2> HIDE DEF v
  <2>3. c \in Cli /\ c.dir \in Dir /\ c.token \in Token /\ c.port \in Port
    BY <2>2 DEF Cli
  <2>4. Posts(h, c)
    BY <2>1 DEF v
  <2> HIDE DEF c
  <2> QED
    BY <1>1, <2>1, <2>3, <2>4, PostsTyped
<1> QED
  BY <1>3, <1>5, <1>7, <1>8, <1>9, <1>10, <1>11, <1>12, <1>13, <1>14

LEMMA TypeNext == TypeInv /\ [Next]_vars => TypeInv'
<1> SUFFICES ASSUME TypeInv, [Next]_vars PROVE TypeInv'
  OBVIOUS
<1>1. CASE UNCHANGED vars
  BY <1>1 DEF vars, server, host, disk, TypeInv, EnrollmentTypeOK, Shape, HasDir
<1>2. CASE ServerNext
  BY <1>2, LooksTyped, MintStartsTyped, WritesTyped, ReplacesTyped, FailsTyped,
     MintsTyped, EnrollsTyped, ServerTyped DEF ServerNext
<1>3. CASE HostNext
  BY <1>3, HostTyped DEF HostNext
<1> QED
  BY <1>1, <1>2, <1>3 DEF Next

(* Every variable keeps its type, and a handler or a CLI has what its stage  *)
(* calls for.                                                                *)
THEOREM EnrollmentTyped == Spec => []TypeInv
<1> QED
  BY TypeInit, TypeNext, PTL DEF Spec

-----------------------------------------------------------------------------
(* The directories the agent may be sent to, now or by what was reported. *)
Started(h) == reported[h] \cup lab[h] \cup ({pointer[h]} \ {0})

(* Directory d can be read, or its saving with --enroll-insecure is the excuse. *)
Fine(h, d) == dir[h][d] = "whole" \/ d \in lab[h]

(* What the stage of a host's CLI says about its files.  The plain name is   *)
(* the first one taken, and it is what the agent falls back to while the     *)
(* pointer is torn: so it must be fine when the only CLI killed was killed   *)
(* at the pointer.                                                           *)
Files(h) ==
    LET c == cli[h] IN
    /\ c.at \in {"first", "second", "identity"} => dir[h][c.dir] = "absent"
    /\ c.at = "json" => dir[h][c.dir] = "torn"
    /\ c.at \in {"first", "second", "identity", "json"} => c.dir \notin Started(h)
    /\ c.at \in {"pointer", "aim"} => dir[h][c.dir] = "whole"
    /\ c.at \in {"spoil", "respoil"} =>
          dir[h][c.dir] # "absent" /\ c.dir \in lab[h] /\ pointer[h] = c.dir
    /\ \A d \in Started(h) : dir[h][d] # "absent" /\ Fine(h, d)
    /\ dir[h][1] = "absent" => \A d \in Dir : dir[h][d] = "absent"
    /\ dir[h][1] = "absent" /\ c.at # "idle" => c.dir = 1
    /\ cliDeaths[h] = 0 => \A d \in Dir :
          dir[h][d] = "absent" \/ Fine(h, d) \/ (c.at = "json" /\ c.dir = d)
    /\ pointer[h] = 0 /\ reported[h] # {} => c.at = "aim" \/ cliDeaths[h] >= 1
    /\ pointer[h] = 0 /\ cliDeaths[h] = 1 /\ reported[h] # {} /\ c.at # "aim" => Fine(h, 1)

AllFiles == \A h \in Host : Files(h)

LEMMA FilesInit == Init => AllFiles
<1> SUFFICES ASSUME Init, NEW h \in Host PROVE Files(h)
  BY DEF AllFiles
<1>1. /\ cli[h] = NoCli /\ reported[h] = {} /\ lab[h] = {} /\ pointer[h] = 0
      /\ \A d \in Dir : dir[h][d] = "absent"
  BY DEF Init
<1> QED
  BY <1>1 DEF Files, Started, Fine, NoCli

(* The host's own variables, with their types. *)
LEMMA HostTypes ==
    ASSUME TypeInv, NEW h \in Host
    PROVE  /\ cli[h] \in Cli /\ dir[h] \in [Dir -> IdentityFile]
           /\ reported[h] \subseteq Dir /\ lab[h] \subseteq Dir
           /\ pointer[h] \in {0} \cup Dir /\ cliDeaths[h] \in Nat
           /\ cli[h].at # "idle" => cli[h].dir \in Dir
           /\ 0 \notin Dir
BY DEF TypeInv, EnrollmentTypeOK, HasDir, Dir

(* A step that changes nothing but where the CLI stands. *)
LEMMA FilesAnswered ==
    ASSUME TypeInv, NEW h \in Host, Files(h),
           dir'[h] = dir[h], pointer'[h] = pointer[h], cliDeaths'[h] = cliDeaths[h],
           reported'[h] = reported[h], lab'[h] = lab[h],
           \/ cli'[h] = cli[h]
           \/ /\ cli[h].at \in {"first", "second"}
              /\ \/ cli'[h].at = "idle"
                 \/ /\ cli'[h].at \in {"second", "identity"}
                    /\ cli'[h].dir = cli[h].dir
    PROVE  Files(h)'
<1>1. Started(h)' = Started(h) /\ \A d : Fine(h, d)' <=> Fine(h, d)
  BY DEF Started, Fine
<1>2. CASE cli'[h] = cli[h]
  BY <1>1, <1>2 DEF Files
<1>3. CASE cli[h].at \in {"first", "second"} /\ cli'[h].at = "idle"
  BY <1>1, <1>3 DEF Files
<1>4. CASE /\ cli[h].at \in {"first", "second"}
           /\ cli'[h].at \in {"second", "identity"} /\ cli'[h].dir = cli[h].dir
  BY <1>1, <1>4 DEF Files
<1> QED
  BY <1>2, <1>3, <1>4

LEMMA ServerOnHosts ==
    ASSUME TypeInv, ServerNext, NEW h \in Host
    PROVE  /\ UNCHANGED <<dir, pointer, cliDeaths, reported, lab>>
           /\ \/ cli'[h] = cli[h]
              \/ /\ cli[h].at \in {"first", "second"}
                 /\ \/ cli'[h].at = "idle"
                    \/ cli'[h].at = "identity" /\ cli'[h].dir = cli[h].dir
<1>1. ASSUME NEW p \in Port, NEW w, Refuses(p, w)
      PROVE  /\ UNCHANGED <<dir, pointer, cliDeaths, reported, lab>>
             /\ cli'[h] = cli[h] \/ (cli[h].at \in {"first", "second"} /\ cli'[h].at = "idle")
  <2>1. CASE Waits(w)
    <3>1. cli' = [cli EXCEPT ![w.host] = NoCli] /\ cli[w.host].at \in {"first", "second"}
      BY <1>1, <2>1 DEF Refuses, Waits
    <3>2. cli'[h] = IF h = w.host THEN NoCli ELSE cli[h]
      BY <3>1 DEF TypeInv, EnrollmentTypeOK
    <3> QED
      BY <1>1, <3>1, <3>2 DEF Refuses, NoCli
  <2>2. CASE ~Waits(w)
    BY <1>1, <2>2 DEF Refuses
  <2> QED
    BY <2>1, <2>2
<1>2. ASSUME NEW p \in Port, Enrolls(p)
      PROVE  /\ UNCHANGED <<dir, pointer, cliDeaths, reported, lab>>
             /\ \/ cli'[h] = cli[h]
                \/ /\ cli[h].at \in {"first", "second"}
                   /\ cli'[h].at = "identity" /\ cli'[h].dir = cli[h].dir
  <2> DEFINE w == worker[p]
             k == [NoCli EXCEPT !.at = "identity", !.dir = cli[w.host].dir]
  <2>1. CASE Waits(w)
    <3>1. cli' = [cli EXCEPT ![w.host] = k] /\ w.host \in Host
          /\ cli[w.host].at \in {"first", "second"}
      BY <1>2, <2>1 DEF Enrolls, Waits
    <3>2. k.at = "identity" /\ k.dir = cli[w.host].dir
      BY DEF NoCli
    <3> HIDE DEF k
    <3>3. cli'[h] = IF h = w.host THEN k ELSE cli[h]
      BY <3>1 DEF TypeInv, EnrollmentTypeOK
    <3> QED
      BY <1>2, <3>1, <3>2, <3>3 DEF Enrolls
  <2>2. CASE ~Waits(w)
    BY <1>2, <2>2 DEF Enrolls
  <2> QED
    BY <2>1, <2>2
<1>4. ASSUME NEW p \in Port,
             \/ EnrollStarts(p) \/ LoadsIssued(p) \/ FindsOwner(p) \/ MintStarts(p)
             \/ Opens(p) \/ Dumps(p) \/ Replaces(p) \/ SaveFails(p)
             \/ Mints(p) \/ LastFails(p)
      PROVE UNCHANGED host \/ \E w : Refuses(p, w)
  BY <1>4 DEF EnrollStarts, LoadsIssued, FindsOwner, MintStarts, Opens, Dumps, Replaces,
              SaveFails, Mints, LastFails
<1>5. ServerDies \/ (\E t \in Minted : Expires(t)) => UNCHANGED host
  BY DEF ServerDies, Expires
<1>6. UNCHANGED host => UNCHANGED <<cli, dir, pointer, cliDeaths, reported, lab>>
  BY DEF host
<1> QED
  BY <1>1, <1>2, <1>4, <1>5, <1>6 DEF ServerNext

(* What the CLI's own steps do to its host. *)
LEMMA StepDoes ==
    ASSUME TypeInv, NEW h \in Host, NEW at, NEW next, NEW c, Step(h, at, next, c),
           at # "idle"
    PROVE  /\ cli[h].at = at /\ cli'[h].at = next /\ cli'[h].dir = cli[h].dir
           /\ cli[h].dir \in Dir
           /\ \A d \in Dir : dir'[h][d] = IF d = cli[h].dir THEN c ELSE dir[h][d]
           /\ UNCHANGED <<pointer, cliDeaths, reported, lab>>
<1> DEFINE v == cli[h]
<1>1. v \in Cli /\ v.dir \in Dir /\ dir[h] \in [Dir -> IdentityFile]
      /\ cli \in [Host -> Cli] /\ dir \in [Host -> [Dir -> IdentityFile]]
  BY DEF Step, TypeInv, EnrollmentTypeOK, HasDir
<1>2. cli'[h] = [v EXCEPT !.at = next] /\ dir'[h] = [dir[h] EXCEPT ![v.dir] = c]
  BY <1>1 DEF Step
<1> HIDE DEF v
<1>3. [v EXCEPT !.at = next].at = next /\ [v EXCEPT !.at = next].dir = v.dir
  BY <1>1 DEF Cli
<1>4. \A d \in Dir : dir'[h][d] = IF d = v.dir THEN c ELSE dir[h][d]
  BY <1>1, <1>2
<1>5. v.at = at /\ UNCHANGED <<pointer, cliDeaths, reported, lab>>
  BY DEF Step, v
<1> QED
  BY <1>1, <1>2, <1>3, <1>4, <1>5 DEF v

LEMMA StartsFiles ==
    ASSUME TypeInv, NEW h \in Host, Files(h), CliStarts(h)
    PROVE  Files(h)'
<1>1. PICK t \in handed \cup Static, p \in Port, d \in Free(h) :
          Posts(h, [at |-> "first", token |-> t, port |-> p, dir |-> d])
  BY DEF CliStarts
<1>2. cli'[h].at = "first" /\ cli'[h].dir = d
  BY <1>1 DEF Posts, TypeInv, EnrollmentTypeOK
<1>3. UNCHANGED <<dir, pointer, cliDeaths, reported, lab>> /\ cli[h].at = "idle"
  BY DEF CliStarts
<1>4. dir[h][d] = "absent" /\ (dir[h][1] = "absent" => d = 1)
  BY DEF Free
<1>5. Started(h)' = Started(h) /\ \A e : Fine(h, e)' <=> Fine(h, e)
  BY <1>3 DEF Started, Fine
<1>6. d \notin Started(h)
  BY <1>4 DEF Files
<1> QED
  BY <1>2, <1>3, <1>4, <1>5, <1>6 DEF Files

LEMMA IdentityFiles ==
    ASSUME TypeInv, NEW h \in Host, Files(h), OpensIdentity(h) \/ WritesIdentity(h)
    PROVE  Files(h)'
<1> DEFINE c == cli[h].dir
<1>0. /\ reported[h] \subseteq Dir /\ lab[h] \subseteq Dir /\ 0 \notin Dir
      /\ pointer[h] \in {0} \cup Dir
  BY HostTypes
<1>1. CASE OpensIdentity(h)
  <2>1. /\ cli[h].at = "identity" /\ cli'[h].at = "json" /\ cli'[h].dir = c /\ c \in Dir
        /\ \A d \in Dir : dir'[h][d] = IF d = c THEN "torn" ELSE dir[h][d]
        /\ UNCHANGED <<pointer, cliDeaths, reported, lab>>
    BY <1>1, StepDoes DEF OpensIdentity
  <2>2. c \notin Started(h) /\ Started(h)' = Started(h) /\ Started(h) \subseteq Dir
        /\ dir[h][c] = "absent"
    BY <1>0, <2>1 DEF Files, Started
  <2>3. \A d \in Dir : d # c => (Fine(h, d)' <=> Fine(h, d)) /\ dir'[h][d] = dir[h][d]
    BY <2>1 DEF Fine
  <2>4. dir'[h][1] = "absent" => 1 # c
    BY <2>1
  <2>5. 1 \in Dir
    BY <2>1, EnrollmentAssumption DEF Dir
  <2>6. dir[h][1] # "absent" \/ c = 1
    BY <2>1 DEF Files
  <2>7. ~Fine(h, c)
    BY <2>2 DEF Fine, Started
  <2> HIDE DEF c
  <2> QED
    BY <2>1, <2>2, <2>3, <2>4, <2>5, <2>6, <2>7 DEF Files
<1>2. CASE WritesIdentity(h)
  <2>1. /\ cli[h].at = "json" /\ cli'[h].at = "pointer" /\ cli'[h].dir = c /\ c \in Dir
        /\ \A d \in Dir : dir'[h][d] = IF d = c THEN "whole" ELSE dir[h][d]
        /\ UNCHANGED <<pointer, cliDeaths, reported, lab>>
    BY <1>2, StepDoes DEF WritesIdentity
  <2>2. c \notin Started(h) /\ Started(h)' = Started(h) /\ Started(h) \subseteq Dir
        /\ dir[h][c] = "torn"
    BY <1>0, <2>1 DEF Files, Started
  <2>3. \A d \in Dir : d # c => (Fine(h, d)' <=> Fine(h, d)) /\ dir'[h][d] = dir[h][d]
    BY <2>1 DEF Fine
  <2>4. dir'[h][c] = "whole" /\ \A d \in Dir : d = c => Fine(h, d)'
    BY <2>1 DEF Fine
  <2>5. 1 \in Dir
    BY <2>1, EnrollmentAssumption DEF Dir
  <2>6. dir[h][1] # "absent"
    BY <2>1, <2>2 DEF Files
  <2> HIDE DEF c
  <2>7. \A d \in Started(h)' : dir'[h][d] # "absent" /\ Fine(h, d)'
    BY <2>2, <2>3 DEF Files
  <2>8. \A d \in Dir : Fine(h, d) => Fine(h, d)'
    BY <2>3, <2>4
  <2>9. \A d \in Dir : cliDeaths[h] = 0 =>
            dir[h][d] = "absent" \/ Fine(h, d) \/ d = c
    BY <2>1 DEF Files, c
  <2>10. \A d \in Dir : cliDeaths[h] = 0 => dir'[h][d] = "absent" \/ Fine(h, d)'
    BY <2>3, <2>4, <2>8, <2>9
  <2>11. dir'[h][1] # "absent"
    BY <2>1, <2>5, <2>6
  <2> QED
    BY <2>1, <2>4, <2>5, <2>7, <2>8, <2>10, <2>11 DEF Files
<1> QED
  BY <1>1, <1>2

LEMMA PointerFiles ==
    ASSUME TypeInv, NEW h \in Host, Files(h), OpensPointer(h) \/ WritesPointer(h)
    PROVE  Files(h)'
<1> DEFINE v == cli[h]
           c == v.dir
<1>0. /\ reported[h] \subseteq Dir /\ lab[h] \subseteq Dir /\ 0 \notin Dir
      /\ pointer[h] \in {0} \cup Dir /\ v \in Cli /\ c \in Dir /\ cliDeaths[h] \in Nat
      /\ 1 \in Dir
  <2>1. v.at # "idle"
    BY DEF OpensPointer, WritesPointer
  <2>2. c \in Dir
    BY <2>1, HostTypes
  <2>3. 1 \in Dir
    BY <2>2, EnrollmentAssumption DEF Dir
  <2> QED
    BY <2>2, <2>3, HostTypes
<1>1. CASE OpensPointer(h)
  <2>1. /\ v.at = "pointer" /\ cli' = [cli EXCEPT ![h].at = "aim"]
        /\ pointer' = [pointer EXCEPT ![h] = 0]
        /\ UNCHANGED <<dir, cliDeaths, reported, lab>>
    BY <1>1 DEF OpensPointer
  <2>2. cli'[h].at = "aim" /\ cli'[h].dir = c
    <3>1. cli'[h] = [v EXCEPT !.at = "aim"]
      BY <2>1 DEF TypeInv, EnrollmentTypeOK
    <3> HIDE DEF v
    <3> QED
      BY <1>0, <3>1 DEF Cli
  <2>3. pointer'[h] = 0
    BY <2>1 DEF TypeInv, EnrollmentTypeOK
  <2>4. Started(h)' \subseteq Started(h) /\ \A d : Fine(h, d)' <=> Fine(h, d)
    BY <2>1, <2>3 DEF Started, Fine
  <2>5. dir[h][c] = "whole" /\ dir[h][1] # "absent"
    BY <1>0, <2>1 DEF Files
  <2> HIDE DEF v, c
  <2> QED
    BY <1>0, <2>1, <2>2, <2>3, <2>4, <2>5 DEF Files, v
<1>2. CASE WritesPointer(h)
  <2>1. /\ v.at = "aim" /\ pointer'[h] = c /\ UNCHANGED <<dir, cliDeaths>>
    BY <1>2 DEF WritesPointer, TypeInv, EnrollmentTypeOK
  <2>2. dir[h][c] = "whole" /\ dir[h][1] # "absent"
    BY <1>0, <2>1 DEF Files
  <2>3. \/ /\ cli'[h].at = "spoil" /\ cli'[h].dir = c
           /\ lab'[h] = lab[h] \cup {c} /\ UNCHANGED reported
        \/ /\ cli'[h].at = "idle" /\ reported'[h] = reported[h] \cup {c}
           /\ UNCHANGED lab
    <3>1. CASE /\ cli' = [cli EXCEPT ![h].at = "spoil"]
               /\ lab' = [lab EXCEPT ![h] = @ \cup {c}]
               /\ UNCHANGED reported
      <4>1. cli'[h] = [v EXCEPT !.at = "spoil"] /\ lab'[h] = lab[h] \cup {c}
        BY <3>1 DEF TypeInv, EnrollmentTypeOK
      <4> HIDE DEF v
      <4>2. [v EXCEPT !.at = "spoil"].at = "spoil" /\ [v EXCEPT !.at = "spoil"].dir = v.dir
        BY <1>0 DEF Cli
      <4> QED
        BY <3>1, <4>1, <4>2
    <3>2. CASE /\ cli' = [cli EXCEPT ![h] = NoCli]
               /\ reported' = [reported EXCEPT ![h] = @ \cup {c}]
               /\ UNCHANGED lab
      <4>1. cli'[h] = NoCli /\ reported'[h] = reported[h] \cup {c}
        BY <3>2 DEF TypeInv, EnrollmentTypeOK
      <4> QED
        BY <3>2, <4>1 DEF NoCli
    <3> QED
      BY <1>2, <3>1, <3>2 DEF WritesPointer
  <2>4. c \in Started(h)' /\ \A d \in Started(h)' : d = c \/ d \in Started(h)
    BY <1>0, <2>1, <2>3 DEF Started
  <2>5. \A d \in Dir : Fine(h, d) => Fine(h, d)'
    BY <2>1, <2>3 DEF Fine
  <2>6. /\ \A d \in Dir : d = c => Fine(h, d)'
        /\ pointer'[h] # 0 /\ Started(h) \subseteq Dir
    BY <1>0, <2>1, <2>2 DEF Fine, Started
  <2>7. \A d \in Dir : cliDeaths[h] = 0 => dir[h][d] = "absent" \/ Fine(h, d)
    BY <2>1 DEF Files
  <2>8. \A d \in Started(h) : dir[h][d] # "absent" /\ Fine(h, d)
    BY DEF Files
  <2> HIDE DEF c
  <2>9. \A d \in Started(h)' : dir'[h][d] # "absent" /\ Fine(h, d)'
    BY <1>0, <2>1, <2>2, <2>4, <2>5, <2>6, <2>8
  <2>10. lab'[h] = lab[h] \cup {c} => c \in lab'[h]
    OBVIOUS
  <2> QED
    BY <2>1, <2>2, <2>3, <2>5, <2>6, <2>7, <2>9, <2>10 DEF Files
<1> QED
  BY <1>1, <1>2

LEMMA SpoilFiles ==
    ASSUME TypeInv, NEW h \in Host, Files(h), SavesAgain(h) \/ SavedAgain(h)
    PROVE  Files(h)'
<1> DEFINE c == cli[h].dir
<1>0. /\ reported[h] \subseteq Dir /\ lab[h] \subseteq Dir /\ 0 \notin Dir
      /\ pointer[h] \in {0} \cup Dir /\ c \in Dir /\ 1 \in Dir
  <2>1. cli[h].at # "idle"
    BY DEF SavesAgain, SavedAgain, Step
  <2>2. c \in Dir
    BY <2>1, HostTypes
  <2>3. 1 \in Dir
    BY <2>2, EnrollmentAssumption DEF Dir
  <2> QED
    BY <2>2, <2>3, HostTypes
<1>1. PICK x \in {"torn", "spoilt"} :
        /\ cli[h].at \in {"spoil", "respoil"}
        /\ \A d \in Dir : dir'[h][d] = IF d = c THEN x ELSE dir[h][d]
        /\ UNCHANGED <<pointer, cliDeaths, lab>>
        /\ \/ cli'[h].at = "respoil" /\ cli'[h].dir = c /\ UNCHANGED reported
           \/ cli'[h].at = "idle" /\ reported'[h] = reported[h] \cup {c}
  <2>1. CASE SavesAgain(h)
    BY <2>1, StepDoes DEF SavesAgain
  <2>2. CASE SavedAgain(h)
    <3>1. /\ cli[h].at = "respoil" /\ cli'[h] = NoCli
          /\ reported'[h] = reported[h] \cup {c}
          /\ UNCHANGED <<pointer, cliDeaths, lab>>
      BY <2>2 DEF SavedAgain, TypeInv, EnrollmentTypeOK
    <3>2. dir'[h] = [dir[h] EXCEPT ![c] = "spoilt"] /\ dir[h] \in [Dir -> IdentityFile]
      BY <2>2 DEF SavedAgain, TypeInv, EnrollmentTypeOK
    <3>3. \A d \in Dir : dir'[h][d] = IF d = c THEN "spoilt" ELSE dir[h][d]
      BY <3>2
    <3> QED
      BY <3>1, <3>3 DEF NoCli
  <2> QED
    BY <2>1, <2>2
<1>2. c \in lab[h] /\ pointer[h] = c /\ dir[h][c] # "absent"
  BY <1>1 DEF Files
<1>3. \A d \in Dir : Fine(h, d)' <=> Fine(h, d)
  BY <1>1, <1>2 DEF Fine
<1>4. Started(h)' = Started(h) /\ Started(h) \subseteq Dir
  BY <1>0, <1>1, <1>2 DEF Started
<1>5. \A d \in Dir : dir'[h][d] = "absent" <=> dir[h][d] = "absent"
  BY <1>1, <1>2
<1>6. c # 0 /\ dir[h][1] # "absent"
  BY <1>0, <1>2 DEF Files
<1>7. \A d \in Dir : cliDeaths[h] = 0 => dir[h][d] = "absent" \/ Fine(h, d)
  BY <1>1 DEF Files
<1> HIDE DEF c
<1> QED
  BY <1>0, <1>1, <1>2, <1>3, <1>4, <1>5, <1>6, <1>7 DEF Files

LEMMA DiesFiles ==
    ASSUME TypeInv, NEW h \in Host, Files(h), CliDies(h)
    PROVE  Files(h)'
<1>1. /\ cli'[h].at = "idle" /\ cliDeaths'[h] = cliDeaths[h] + 1
      /\ cli[h].at \notin {"idle", "first", "second"}
      /\ UNCHANGED <<dir, pointer, reported, lab>> /\ cliDeaths[h] \in Nat
  BY DEF CliDies, NoCli, TypeInv, EnrollmentTypeOK
<1>2. Started(h)' = Started(h) /\ \A d : Fine(h, d)' <=> Fine(h, d)
  BY <1>1 DEF Started, Fine
<1>3. cliDeaths'[h] # 0 /\ cliDeaths'[h] >= 1 /\ (cliDeaths'[h] = 1 => cliDeaths[h] = 0)
  BY <1>1
<1>4. pointer[h] = 0 /\ cliDeaths[h] = 0 /\ reported[h] # {} => Fine(h, 1)
  <2> SUFFICES ASSUME pointer[h] = 0, cliDeaths[h] = 0, NEW d \in reported[h]
               PROVE Fine(h, 1)
    OBVIOUS
  <2>1. d \in Dir /\ d \in Started(h)
    BY HostTypes DEF Started
  <2>2. 1 \in Dir /\ dir[h][1] # "absent"
    BY <2>1, EnrollmentAssumption DEF Files, Dir
  <2>3. cli[h].at = "aim"
    BY DEF Files
  <2> QED
    BY <2>2, <2>3 DEF Files
<1> QED
  BY <1>1, <1>2, <1>3, <1>4 DEF Files

LEMMA FilesNext ==
    ASSUME TypeInv, [Next]_vars, AllFiles
    PROVE  AllFiles'
<1> SUFFICES ASSUME NEW h \in Host, Files(h) PROVE Files(h)'
  BY DEF AllFiles
<1>1. CASE ServerNext
  BY <1>1, ServerOnHosts, FilesAnswered
<1>2. CASE UNCHANGED vars
  BY <1>2, FilesAnswered DEF vars, host
<1>3. ASSUME NEW g \in Host,
             \/ CliStarts(g) \/ TriesAgain(g) \/ GivesUp(g)
             \/ OpensIdentity(g) \/ WritesIdentity(g)
             \/ OpensPointer(g) \/ WritesPointer(g)
             \/ SavesAgain(g) \/ SavedAgain(g) \/ CliDies(g)
      PROVE Files(h)'
  <2>1. CASE g # h
    <3>1. /\ dir'[h] = dir[h] /\ pointer'[h] = pointer[h] /\ cliDeaths'[h] = cliDeaths[h]
          /\ reported'[h] = reported[h] /\ lab'[h] = lab[h] /\ cli'[h] = cli[h]
      BY <1>3, <2>1 DEF CliStarts, TriesAgain, GivesUp, OpensIdentity, WritesIdentity,
         OpensPointer, WritesPointer, SavesAgain, SavedAgain, CliDies, Posts, Step,
         TypeInv, EnrollmentTypeOK
    <3> QED
      BY <3>1, FilesAnswered
  <2>2. CASE g = h /\ (TriesAgain(h) \/ GivesUp(h))
    <3>1. UNCHANGED <<dir, pointer, cliDeaths, reported, lab>>
          /\ cli[h].at \in {"first", "second"}
      BY <2>2 DEF TriesAgain, GivesUp
    <3>2. CASE GivesUp(h)
      <4>1. cli'[h].at = "idle"
        BY <3>2 DEF GivesUp, NoCli, TypeInv, EnrollmentTypeOK
      <4> QED
        BY <3>1, <4>1, FilesAnswered
    <3>3. CASE TriesAgain(h)
      <4> DEFINE v == cli[h]
      <4>1. cli'[h] = [v EXCEPT !.at = "second"] /\ v \in Cli
        BY <3>3 DEF TriesAgain, Posts, TypeInv, EnrollmentTypeOK
      <4> HIDE DEF v
      <4>2. cli'[h].at = "second" /\ cli'[h].dir = v.dir
        BY <4>1 DEF Cli
      <4> QED
        BY <3>1, <4>2, FilesAnswered DEF v
    <3> QED
      BY <2>2, <3>2, <3>3
  <2>3. CASE g = h /\ ~(TriesAgain(h) \/ GivesUp(h))
    BY <1>3, <2>3, StartsFiles, IdentityFiles, PointerFiles, SpoilFiles, DiesFiles
  <2> QED
    BY <2>1, <2>2, <2>3
<1> QED
  BY <1>1, <1>2, <1>3 DEF Next, HostNext

(* The agent of a host that reported an enrollment finds a readable identity *)
(* at every start: active.json names a directory whose identity.json is      *)
(* whole, and when it is torn the plain name is (_run_enrollment).           *)
THEOREM IdentityIsKept == Spec => []KeepsItsIdentity
<1>1. TypeInv /\ AllFiles => KeepsItsIdentity
  <2> SUFFICES ASSUME TypeInv, NEW h \in Named, h \in Host, Files(h),
                      reported[h] \ lab[h] # {}, Resolved(h) \notin lab[h],
                      cliDeaths[h] = 0 \/ (cli[h].at = "idle" /\ cliDeaths[h] = 1)
               PROVE  Resolved(h) # 0 /\ dir[h][Resolved(h)] = "whole"
    BY EnrollmentAssumption DEF KeepsItsIdentity, AllFiles
  <2>1. CASE pointer[h] # 0
    <3>1. pointer[h] \in Started(h)
      BY <2>1 DEF Started
    <3>2. dir[h][pointer[h]] # "absent" /\ Fine(h, pointer[h])
      BY <3>1 DEF Files
    <3>3. Resolved(h) = pointer[h]
      BY <2>1, <3>2 DEF Resolved
    <3> QED
      BY <2>1, <3>2, <3>3 DEF Fine
  <2>2. CASE pointer[h] = 0
    <3>1. PICK d \in reported[h] : TRUE
      OBVIOUS
    <3>2. d \in Dir /\ d \in Started(h)
      BY HostTypes DEF Started
    <3>3. 1 \in Dir /\ dir[h][1] # "absent"
      BY <3>2, EnrollmentAssumption DEF Files, Dir
    <3>4. Fine(h, 1)
      <4>1. CASE cliDeaths[h] = 0
        <5>1. cli[h].at = "aim"
          BY <2>2, <3>1, <4>1 DEF Files
        <5> QED
          BY <3>3, <4>1, <5>1 DEF Files
      <4>2. CASE cli[h].at = "idle" /\ cliDeaths[h] = 1
        BY <2>2, <3>1, <4>2 DEF Files
      <4> QED
        BY <4>1, <4>2
    <3>5. Resolved(h) = 1
      BY <2>2, <3>3 DEF Resolved
    <3> QED
      BY <3>4, <3>5 DEF Fine
  <2> QED
    BY <2>1, <2>2
<1> QED
  BY <1>1, TypeInit, TypeNext, FilesInit, FilesNext, PTL DEF Spec
=============================================================================
