-------------------------- MODULE AgentHost_proofs --------------------------
(***************************************************************************)
(* Proofs, for every value of the constants, of the safety properties of   *)
(* the three parts of AgentHost: its processes, its files and its loop.    *)
(***************************************************************************)
EXTENDS AgentHost, FiniteSetTheorems, TLAPS

(* A step of the agent is a step of each part, or leaves the part alone. *)
LEMMA StepOfParts ==
    ASSUME [Next]_vars
    PROVE  [ProcessesNext]_processVars /\ [FilesNext]_fileVars /\ [LoopNext]_loopVars
BY DEF Next, vars

-----------------------------------------------------------------------------
(* The processes.                                                          *)
(*                                                                         *)
(* Who has the lock file open, who holds its inode and who runs agree, in  *)
(* every state; and as long as no release has robbed another process, all  *)
(* descriptors are of the file the path names.                             *)

LockMatches ==
    /\ stage \in [Procs -> {"down", "starting", "opened", "running", "unlocked"}]
    /\ opened \in [Procs -> Inodes \cup {None}]
    /\ owner \in [Inodes -> Procs \cup {None}]
    /\ inodes \in 0 .. MaxInode
    /\ name \in 1 .. inodes \cup {None}
    /\ \A p \in Procs : opened[p] # None <=> stage[p] \in {"opened", "running"}
    /\ \A p \in Procs : stage[p] = "running" => owner[opened[p]] = p
    /\ \A i \in Inodes, p \in Procs : owner[i] = p => stage[p] = "running" /\ opened[p] = i

OneFile == ~robbed => \A p \in Procs : opened[p] \in {name, None}

(* A session is one of a running process and continues the chain at its    *)
(* last line.                                                              *)
SessionsFollow ==
    /\ \A p \in Procs : prev[p] # None => stage[p] = "running"
    /\ ~robbed => \A p \in Procs : prev[p] # None =>
           IF audit = <<>> THEN prev[p] = Genesis
           ELSE audit[Len(audit)].whole => prev[p] = audit[Len(audit)].hash

Line == [whole : BOOLEAN, prev : Int \cup {None}, hash : Int \cup {None}]

AuditTyped ==
    /\ audit \in Seq(Line)
    /\ prev \in [Procs -> Int \cup {None}]
    /\ records \in Int
    /\ ~ended => audit # <<>>

LEMMA OneRuns ==
    ASSUME LockMatches, OneFile, ~robbed,
           NEW p \in Procs, NEW q \in Procs, stage[p] = "running", stage[q] = "running"
    PROVE  p = q
BY DEF LockMatches, OneFile

LEMMA LockNext ==
    LockMatches /\ [ProcessesNext]_processVars => LockMatches'
<1> SUFFICES ASSUME LockMatches, [ProcessesNext]_processVars PROVE LockMatches'
  OBVIOUS
<1> USE ProcessAssumption DEF LockMatches, Inodes
<1>0. CASE UNCHANGED processVars
  BY <1>0 DEF processVars
<1>1. ASSUME NEW p \in Procs, StartedByHand(p) \/ EnrollmentIsRefused(p)
      PROVE  LockMatches'
  BY <1>1 DEF StartedByHand, EnrollmentIsRefused, lockVars
<1>2. ASSUME NEW p \in Procs, OpensLock(p) PROVE LockMatches'
  BY <1>2 DEF OpensLock
<1>3. ASSUME NEW p \in Procs, TakesLock(p) PROVE LockMatches'
  BY <1>3 DEF TakesLock
<1>4. ASSUME NEW p \in Procs, FindsLockTaken(p) PROVE LockMatches'
  BY <1>4 DEF FindsLockTaken
<1>5. ASSUME NEW p \in Procs, Unlocks(p) \/ Dies(p) \/ ReExecs(p) PROVE LockMatches'
  <2>1. /\ opened' = [opened EXCEPT ![p] = None]
        /\ \E st \in {"down", "starting", "unlocked"} : stage' = [stage EXCEPT ![p] = st]
        /\ UNCHANGED <<name, inodes>>
    BY <1>5 DEF Unlocks, Dies, ReExecs
  <2>2. /\ owner' \in [Inodes -> Procs \cup {None}]
        /\ \A i \in Inodes : owner'[i] = IF owner[i] = p THEN None ELSE owner[i]
    BY <1>5 DEF Unlocks, Dies, ReExecs, Unheld
  <2>3. \A q \in Procs : opened'[q] # None <=> stage'[q] \in {"opened", "running"}
    BY <2>1
  <2>4. \A q \in Procs : stage'[q] = "running" => owner'[opened'[q]] = q
    BY <2>1, <2>2
  <2>5. \A i \in Inodes, q \in Procs :
            owner'[i] = q => stage'[q] = "running" /\ opened'[q] = i
    BY <2>1, <2>2
  <2> QED
    BY <2>1, <2>2, <2>3, <2>4, <2>5
<1>6. ASSUME NEW p \in Procs, Removes(p) PROVE LockMatches'
  BY <1>6 DEF Removes
<1>7. ASSUME NEW p \in Procs,
             SessionOpens(p) \/ SessionCloses(p) \/ Appends(p) \/ AppendFails(p)
      PROVE  LockMatches'
  BY <1>7 DEF SessionOpens, SessionCloses, Appends, AppendFails, lifeVars, lockVars
<1> QED
  BY <1>0, <1>1, <1>2, <1>3, <1>4, <1>5, <1>6, <1>7 DEF ProcessesNext, Goes

LEMMA OneFileNext ==
    LockMatches /\ OneFile /\ [ProcessesNext]_processVars => OneFile'
<1> SUFFICES ASSUME LockMatches, OneFile, [ProcessesNext]_processVars PROVE OneFile'
  OBVIOUS
<1> USE ProcessAssumption DEF LockMatches, OneFile, Inodes
<1>0. CASE UNCHANGED processVars
  BY <1>0 DEF processVars
<1>1. ASSUME NEW p \in Procs, StartedByHand(p) \/ EnrollmentIsRefused(p)
      PROVE  OneFile'
  BY <1>1 DEF StartedByHand, EnrollmentIsRefused, lockVars
<1>2. ASSUME NEW p \in Procs, OpensLock(p) PROVE OneFile'
  BY <1>2 DEF OpensLock
<1>3. ASSUME NEW p \in Procs,
             TakesLock(p) \/ FindsLockTaken(p) \/ Unlocks(p) \/ Dies(p) \/ ReExecs(p)
      PROVE  OneFile'
  BY <1>3 DEF TakesLock, FindsLockTaken, Unlocks, Dies, ReExecs
<1>4. ASSUME NEW p \in Procs, Removes(p) PROVE OneFile'
  BY <1>4 DEF Removes
<1>5. ASSUME NEW p \in Procs,
             SessionOpens(p) \/ SessionCloses(p) \/ Appends(p) \/ AppendFails(p)
      PROVE  OneFile'
  BY <1>5 DEF SessionOpens, SessionCloses, Appends, AppendFails, lifeVars, lockVars
<1> QED
  BY <1>0, <1>1, <1>2, <1>3, <1>4, <1>5 DEF ProcessesNext, Goes

LEMMA TailHashTyped == AuditTyped => TailHash \in Int \cup {None}
<1> SUFFICES ASSUME AuditTyped PROVE TailHash \in Int \cup {None}
  OBVIOUS
<1>1. CASE audit = <<>>
  BY <1>1 DEF TailHash, Genesis
<1>2. CASE audit # <<>>
  <2>1. audit[Len(audit)] \in Line
    BY <1>2 DEF AuditTyped
  <2> QED
    BY <2>1 DEF TailHash, Genesis, Line
<1> QED
  BY <1>1, <1>2

(* What a write leaves at the end of the log, and of the chain: it is      *)
(* enough that the line continues it, unless it is glued to a torn one.    *)
LEMMA WrittenLine ==
    ASSUME AuditTyped, NEW line \in Line, audit' = Written(line)
    PROVE  /\ audit' \in Seq(Line) /\ audit' # <<>>
           /\ audit'[Len(audit')] = IF ended THEN line ELSE Garbage
<1>1. CASE ended
  BY <1>1 DEF AuditTyped, Written
<1>2. CASE ~ended
  <2>1. Garbage \in Line
    BY DEF Garbage, Line
  <2>2. Len(audit) \in 1 .. Len(audit) /\ audit' = [audit EXCEPT ![Len(audit)] = Garbage]
    BY <1>2 DEF AuditTyped, Written
  <2> HIDE DEF Garbage
  <2>3. audit' \in Seq(Line) /\ Len(audit') = Len(audit)
    BY <2>1, <2>2 DEF AuditTyped
  <2>4. audit'[Len(audit)] = Garbage
    BY <2>2 DEF AuditTyped
  <2> QED
    BY <1>2, <2>2, <2>3, <2>4
<1> QED
  BY <1>1, <1>2

LEMMA WrittenChain ==
    ASSUME AuditTyped, ChainLinks, NEW line \in Line, audit' = Written(line),
           line.whole => IF audit = <<>> THEN line.prev = Genesis
                         ELSE audit[Len(audit)].whole => line.prev = audit[Len(audit)].hash
    PROVE  ChainLinks'
<1> USE DEF AuditTyped
<1> SUFFICES ASSUME NEW i \in 1 .. Len(audit'),
                    audit'[i].whole, i > 1 => audit'[i - 1].whole
             PROVE  audit'[i].prev = IF i = 1 THEN Genesis ELSE audit'[i - 1].hash
  BY DEF ChainLinks
<1>1. CASE ended
  <2>1. /\ Len(audit') = Len(audit) + 1
        /\ audit'[Len(audit) + 1] = line
        /\ \A j \in 1 .. Len(audit) : audit'[j] = audit[j]
    BY <1>1 DEF Written
  <2>2. CASE i \in 1 .. Len(audit)
    <3>1. audit'[i] = audit[i] /\ (i > 1 => i - 1 \in 1 .. Len(audit))
      BY <2>1, <2>2
    <3> QED
      BY <2>1, <2>2, <3>1 DEF ChainLinks
  <2>3. CASE i = Len(audit) + 1
    <3>1. CASE audit = <<>>
      BY <2>1, <2>3, <3>1
    <3>2. CASE audit # <<>>
      <4>1. Len(audit) \in 1 .. Len(audit) /\ i - 1 = Len(audit) /\ i # 1
        BY <2>3, <3>2
      <4> QED
        BY <2>1, <2>3, <3>2, <4>1
    <3> QED
      BY <3>1, <3>2
  <2> QED
    BY <2>1, <2>2, <2>3
<1>2. CASE ~ended
  <2>1. /\ Len(audit') = Len(audit) /\ Len(audit) \in Nat \ {0}
        /\ ~audit'[Len(audit)].whole
        /\ \A j \in 1 .. Len(audit) - 1 : audit'[j] = audit[j]
    BY <1>2 DEF Written, Garbage
  <2>2. i \in 1 .. Len(audit) - 1 /\ (i > 1 => i - 1 \in 1 .. Len(audit) - 1)
    BY <2>1
  <2> QED
    BY <2>1, <2>2 DEF ChainLinks
<1> QED
  BY <1>1, <1>2

LEMMA AuditTypedNext ==
    AuditTyped /\ [ProcessesNext]_processVars => AuditTyped'
<1> SUFFICES ASSUME AuditTyped, [ProcessesNext]_processVars PROVE AuditTyped'
  OBVIOUS
<1> USE DEF auditVars
<1>0. CASE UNCHANGED processVars
  BY <1>0 DEF processVars, AuditTyped
<1>1. ASSUME NEW p \in Procs,
             StartedByHand(p) \/ EnrollmentIsRefused(p) \/ OpensLock(p) \/ TakesLock(p)
             \/ FindsLockTaken(p) \/ Unlocks(p) \/ Removes(p) \/ Dies(p) \/ ReExecs(p)
             \/ SessionCloses(p)
      PROVE  AuditTyped'
  BY <1>1 DEF StartedByHand, EnrollmentIsRefused, OpensLock, TakesLock, FindsLockTaken,
              Unlocks, Removes, Dies, ReExecs, SessionCloses, AuditTyped
<1>2. ASSUME NEW p \in Procs, SessionOpens(p) PROVE AuditTyped'
  BY <1>2, TailHashTyped DEF SessionOpens, AuditTyped
<1>3. ASSUME NEW p \in Procs, RecordOf(p) \notin Line PROVE FALSE
  BY <1>3 DEF RecordOf, Line, AuditTyped
<1>4. Garbage \in Line
  BY DEF Garbage, Line
<1>5. ASSUME NEW p \in Procs, Appends(p) PROVE AuditTyped'
  <2>1. audit' \in Seq(Line)
    BY <1>3, <1>5, WrittenLine DEF Appends
  <2> QED
    BY <1>5, <2>1 DEF Appends, AuditTyped
<1>6. ASSUME NEW p \in Procs, AppendFails(p) PROVE AuditTyped'
  <2>1. audit' \in Seq(Line) /\ audit' # <<>>
    BY <1>3, <1>4, <1>6, WrittenLine DEF AppendFails
  <2> QED
    BY <1>6, <2>1 DEF AppendFails, AuditTyped
<1> QED
  BY <1>0, <1>1, <1>2, <1>5, <1>6 DEF ProcessesNext, Goes

(* The steps of a session, while its process is the only one. *)
LEMMA SessionsFollowNext ==
    LockMatches /\ OneFile /\ AuditTyped /\ SessionsFollow /\ [ProcessesNext]_processVars
        => SessionsFollow'
<1> SUFFICES ASSUME LockMatches, OneFile, AuditTyped, SessionsFollow,
                    [ProcessesNext]_processVars
             PROVE  SessionsFollow'
  OBVIOUS
<1>t. stage \in [Procs -> {"down", "starting", "opened", "running", "unlocked"}]
      /\ prev \in [Procs -> Int \cup {None}]
  BY DEF LockMatches, AuditTyped
<1> USE <1>t DEF SessionsFollow
<1>0. CASE UNCHANGED processVars
  BY <1>0 DEF processVars
<1>1. ASSUME NEW p \in Procs,
             StartedByHand(p) \/ EnrollmentIsRefused(p) \/ OpensLock(p) \/ TakesLock(p)
             \/ FindsLockTaken(p)
      PROVE  SessionsFollow'
  BY <1>1 DEF StartedByHand, EnrollmentIsRefused, OpensLock, TakesLock, FindsLockTaken,
              lockVars, auditVars
<1>2. ASSUME NEW p \in Procs, Unlocks(p) \/ Dies(p) \/ ReExecs(p) PROVE SessionsFollow'
  BY <1>2 DEF Unlocks, Dies, ReExecs
<1>3. ASSUME NEW p \in Procs, Removes(p) PROVE SessionsFollow'
  BY <1>3 DEF Removes, auditVars
<1>4. ASSUME NEW p \in Procs, SessionOpens(p) PROVE SessionsFollow'
  BY <1>4 DEF SessionOpens, lifeVars, lockVars, TailHash
<1>5. ASSUME NEW p \in Procs, SessionCloses(p) PROVE SessionsFollow'
  BY <1>5 DEF SessionCloses, lifeVars, lockVars
<1>6. ASSUME NEW p \in Procs, prev[p] # None, ~robbed, NEW q \in Procs, prev[q] # None
      PROVE  q = p
  BY <1>6, OneRuns
<1>7. Garbage \in Line /\ \A p \in Procs : RecordOf(p) \in Line
  BY DEF Garbage, RecordOf, Line, AuditTyped
<1>8. ASSUME NEW p \in Procs, Appends(p) PROVE SessionsFollow'
  <2>1. /\ audit' # <<>>
        /\ audit'[Len(audit')] = IF ended THEN RecordOf(p) ELSE Garbage
    BY <1>7, <1>8, WrittenLine DEF Appends
  <2>2. audit'[Len(audit')].whole => audit'[Len(audit')].hash = records + 1
    BY <2>1 DEF RecordOf, Garbage
  <2>3. prev[p] # None /\ prev' = [prev EXCEPT ![p] = records + 1]
        /\ UNCHANGED <<stage, robbed>>
    BY <1>8 DEF Appends, lockVars
  <2> QED
    BY <1>6, <2>1, <2>2, <2>3
<1>9. ASSUME NEW p \in Procs, AppendFails(p) PROVE SessionsFollow'
  <2>1. prev[p] # None /\ prev' = [prev EXCEPT ![p] = None] /\ UNCHANGED <<stage, robbed>>
    BY <1>9 DEF AppendFails, lifeVars, lockVars
  <2> QED
    BY <1>6, <2>1
<1> QED
  BY <1>0, <1>1, <1>2, <1>3, <1>4, <1>5, <1>8, <1>9 DEF ProcessesNext, Goes

Chained == ~robbed => ChainLinks

LEMMA ChainedNext ==
    AuditTyped /\ SessionsFollow /\ Chained /\ [ProcessesNext]_processVars => Chained'
<1> SUFFICES ASSUME AuditTyped, SessionsFollow, Chained, [ProcessesNext]_processVars,
                    ~robbed'
             PROVE  ChainLinks'
  BY DEF Chained
<1>a. ASSUME UNCHANGED audit, ~robbed PROVE ChainLinks'
  BY <1>a DEF Chained, ChainLinks
<1>0. CASE UNCHANGED processVars
  BY <1>0, <1>a DEF processVars
<1>1. ASSUME NEW p \in Procs,
             StartedByHand(p) \/ EnrollmentIsRefused(p) \/ OpensLock(p) \/ TakesLock(p)
             \/ FindsLockTaken(p) \/ Unlocks(p) \/ Dies(p) \/ ReExecs(p)
             \/ SessionOpens(p) \/ SessionCloses(p)
      PROVE  ChainLinks'
  BY <1>1, <1>a
     DEF StartedByHand, EnrollmentIsRefused, OpensLock, TakesLock, FindsLockTaken,
         Unlocks, Dies, ReExecs, SessionOpens, SessionCloses, lockVars, auditVars
<1>2. ASSUME NEW p \in Procs, Appends(p) \/ AppendFails(p) PROVE ChainLinks'
  <2>1. prev[p] # None /\ ~robbed /\ ChainLinks
    BY <1>2 DEF Appends, AppendFails, lockVars, Chained
  <2>2. PICK line \in {Garbage, RecordOf(p)} : audit' = Written(line)
    BY <1>2 DEF Appends, AppendFails
  <2>3. line \in Line
    <3>1. Garbage \in Line /\ RecordOf(p) \in Line
      BY DEF Garbage, RecordOf, Line, AuditTyped
    <3> QED
      BY <2>2, <3>1
  <2>4. line.whole => line.prev = prev[p]
    BY <2>2 DEF Garbage, RecordOf
  <2> QED
    BY <2>1, <2>2, <2>3, <2>4, WrittenChain DEF SessionsFollow
<1>3. ASSUME NEW p \in Procs, Removes(p) PROVE ChainLinks'
  <2>1. ~robbed
    BY <1>3 DEF Removes
  <2> QED
    BY <1>3, <1>a, <2>1 DEF Removes, auditVars
<1> QED
  BY <1>0, <1>1, <1>2, <1>3 DEF ProcessesNext, Goes

ProcessesMatch ==
    LockMatches /\ OneFile /\ AuditTyped /\ SessionsFollow /\ Chained

LEMMA OneWriter == ProcessesMatch => OneWriterOneChain
<1> SUFFICES ASSUME ProcessesMatch, ~robbed
             PROVE  Cardinality(Running) <= 1 /\ ChainLinks
  BY DEF OneWriterOneChain
<1>1. CASE Running = {}
  BY <1>1, FS_EmptySet DEF ProcessesMatch, Chained
<1>2. ASSUME NEW p \in Running PROVE Cardinality(Running) = 1
  <2>1. Running = {p}
    BY <1>2, OneRuns DEF Running, ProcessesMatch
  <2> QED
    BY <2>1, FS_Singleton
<1> QED
  BY <1>1, <1>2 DEF ProcessesMatch, Chained

(* As long as no release has removed a lock file another process had open, *)
(* one agent runs and its audit log is one chain, however many processes,  *)
(* starts, kills, restarts and torn writes there are.                      *)
THEOREM OneAgentOneChain == Spec => []OneWriterOneChain
<1>1. Init => ProcessesMatch
  BY ProcessAssumption
     DEF Init, ProcessesInit, ProcessesMatch, LockMatches, OneFile, AuditTyped,
         SessionsFollow, Chained, ChainLinks, Inodes
<1>2. ProcessesMatch /\ [Next]_vars => ProcessesMatch'
  BY StepOfParts, LockNext, OneFileNext, AuditTypedNext, SessionsFollowNext, ChainedNext
     DEF ProcessesMatch
<1> QED
  BY <1>1, <1>2, OneWriter, PTL DEF Spec

-----------------------------------------------------------------------------
(* The loop: what becomes of detections.                                   *)
(*                                                                         *)
(* The invariant orders the three places a detection can be in, and bounds *)
(* them by the number handed out last; adjacency alone would not survive   *)
(* the loss of the one in hand.                                            *)

Ascends(s) == \A i, j \in 1 .. Len(s) : i < j => s[i] < s[j]
Below(s, t) == \A i \in 1 .. Len(s), j \in 1 .. Len(t) : s[i] < t[j]
UpTo(s, n) == \A i \in 1 .. Len(s) : s[i] <= n

DetectionsTyped ==
    /\ wire \in Seq(Int) /\ hand \in Seq(Int) /\ queue \in Seq(Int)
    /\ detections \in Int /\ overflows \in Int /\ faults \in Int
    /\ Len(hand) <= 1

DetectionsOrdered ==
    /\ Ascends(wire) /\ Ascends(queue)
    /\ Below(wire, hand) /\ Below(wire, queue) /\ Below(hand, queue)
    /\ UpTo(wire, detections) /\ UpTo(hand, detections) /\ UpTo(queue, detections)

DetectionsCounted ==
    detections <= Len(wire) + Len(hand) + Len(queue) + overflows + faults

DetectionsKept == DetectionsTyped /\ DetectionsOrdered /\ DetectionsCounted

(* The end of one sequence moved to the front of the next. *)
LEMMA TailOfAscending ==
    ASSUME NEW s \in Seq(Int), s # <<>>, Ascends(s), NEW n \in Int, UpTo(s, n)
    PROVE  /\ Head(s) \in Int /\ Tail(s) \in Seq(Int) /\ Len(Tail(s)) = Len(s) - 1
           /\ Ascends(Tail(s)) /\ UpTo(Tail(s), n) /\ Head(s) <= n
           /\ Below(<<Head(s)>>, Tail(s))
           /\ \A i \in 1 .. Len(Tail(s)) : i + 1 \in 1 .. Len(s) /\ Tail(s)[i] = s[i + 1]
<1>1. /\ Tail(s) \in Seq(Int) /\ Len(Tail(s)) = Len(s) - 1 /\ Len(s) \in Nat \ {0}
      /\ Head(s) = s[1] /\ s[1] \in Int
      /\ \A i \in 1 .. Len(s) - 1 : Tail(s)[i] = s[i + 1]
  OBVIOUS
<1>2. \A i \in 1 .. Len(Tail(s)) : i + 1 \in 1 .. Len(s) /\ Tail(s)[i] = s[i + 1]
  BY <1>1
<1>3. Ascends(Tail(s)) /\ UpTo(Tail(s), n) /\ Head(s) <= n
  BY <1>1, <1>2 DEF Ascends, UpTo
<1>4. Below(<<Head(s)>>, Tail(s))
  BY <1>1, <1>2 DEF Ascends, Below
<1> QED
  BY <1>1, <1>2, <1>3, <1>4

LEMMA ConcatAscends ==
    ASSUME NEW s \in Seq(Int), NEW t \in Seq(Int), Ascends(s), Ascends(t), Below(s, t)
    PROVE  /\ s \o t \in Seq(Int) /\ Len(s \o t) = Len(s) + Len(t)
           /\ Ascends(s \o t)
<1>1. /\ s \o t \in Seq(Int) /\ Len(s \o t) = Len(s) + Len(t)
      /\ Len(s) \in Nat /\ Len(t) \in Nat
      /\ \A i \in 1 .. Len(s) : (s \o t)[i] = s[i]
      /\ \A i \in 1 .. Len(s) + Len(t) : i > Len(s) =>
             i - Len(s) \in 1 .. Len(t) /\ (s \o t)[i] = t[i - Len(s)]
  OBVIOUS
<1>2. ASSUME NEW i \in 1 .. Len(s \o t), NEW j \in 1 .. Len(s \o t), i < j
      PROVE  (s \o t)[i] < (s \o t)[j]
  <2>1. CASE j <= Len(s)
    <3>1. i \in 1 .. Len(s) /\ j \in 1 .. Len(s)
      BY <1>1, <1>2, <2>1
    <3> QED
      BY <1>1, <1>2, <3>1 DEF Ascends
  <2>2. CASE i <= Len(s) /\ j > Len(s)
    <3>1. i \in 1 .. Len(s) /\ j - Len(s) \in 1 .. Len(t)
      BY <1>1, <2>2
    <3>2. (s \o t)[i] = s[i] /\ (s \o t)[j] = t[j - Len(s)]
      BY <1>1, <2>2, <3>1
    <3> QED
      BY <3>1, <3>2 DEF Below
  <2>3. CASE i > Len(s)
    <3>1. /\ i - Len(s) \in 1 .. Len(t) /\ j - Len(s) \in 1 .. Len(t)
          /\ i - Len(s) < j - Len(s)
      BY <1>1, <1>2, <2>3
    <3>2. (s \o t)[i] = t[i - Len(s)] /\ (s \o t)[j] = t[j - Len(s)]
      BY <1>1, <1>2, <2>3
    <3> QED
      BY <3>1, <3>2 DEF Ascends
  <2> QED
    BY <1>1, <1>2, <2>1, <2>2, <2>3
<1> QED
  BY <1>1, <1>2 DEF Ascends

LEMMA DetectionsKeptImplies == DetectionsKept => OneLossPerFault
<1> SUFFICES ASSUME DetectionsKept PROVE OneLossPerFault
  OBVIOUS
<1> USE DEF DetectionsKept, DetectionsTyped, DetectionsOrdered, DetectionsCounted
<1>1. Ascends(hand)
  BY DEF Ascends
<1>2. wire \o hand \in Seq(Int) /\ Len(wire \o hand) = Len(wire) + Len(hand)
      /\ Ascends(wire \o hand)
  BY <1>1, ConcatAscends
<1>3. Below(wire \o hand, queue)
  BY DEF Below
<1>4. /\ Len((wire \o hand) \o queue) = Len(wire) + Len(hand) + Len(queue)
      /\ Ascends((wire \o hand) \o queue)
  BY ZenonT(40), <1>2, <1>3, ConcatAscends
<1> DEFINE out == wire \o hand \o queue
<1>5. \A i \in 1 .. Len(out) - 1 : out[i] < out[i + 1]
  BY <1>4 DEF Ascends
<1>6. detections - Len(out) <= overflows + faults
  BY <1>4
<1> QED
  BY <1>5, <1>6 DEF OneLossPerFault

(* A session that is closed after a failed send has nothing in hand.       *)
HandHeld == hand # <<>> => forwarder = "alive"

LEMMA HandHeldNext == HandHeld /\ [LoopNext]_loopVars => HandHeld'
BY DEF HandHeld, LoopNext, loopVars, sessionVars, Emits, ForwarderTakes, ForwarderSends,
       ForwarderFails, Connects, IsAuthenticated, SessionBreaks, SessionIsClosed,
       SessionEndsNow, Starts, Finishes

LEMMA DetectionsKeptNext ==
    HandHeld /\ DetectionsKept /\ [LoopNext]_loopVars => DetectionsKept'
<1> SUFFICES ASSUME HandHeld, DetectionsKept, [LoopNext]_loopVars PROVE DetectionsKept'
  OBVIOUS
<1> USE DEF DetectionsKept, DetectionsTyped, DetectionsOrdered, DetectionsCounted
<1>a. ASSUME UNCHANGED <<wire, hand, queue, detections, overflows>>,
             faults' \in {faults, faults + 1}
      PROVE  DetectionsKept'
  BY <1>a DEF Ascends, Below, UpTo
<1>0. CASE UNCHANGED loopVars
  BY <1>0, <1>a DEF loopVars
<1>1. CASE Emits
  <2>1. CASE Len(queue) < QueueSize
    <3>1. /\ queue' = Append(queue, detections + 1) /\ detections' = detections + 1
          /\ UNCHANGED <<wire, hand, overflows, faults>>
      BY <1>1, <2>1 DEF Emits
    <3>2. /\ queue' \in Seq(Int) /\ Len(queue') = Len(queue) + 1
          /\ queue'[Len(queue) + 1] = detections + 1
          /\ \A i \in 1 .. Len(queue) : queue'[i] = queue[i]
      BY <3>1
    <3>e. /\ \A i \in 1 .. Len(wire) : wire[i] \in Int /\ wire[i] <= detections
          /\ \A i \in 1 .. Len(hand) : hand[i] \in Int /\ hand[i] <= detections
          /\ \A i \in 1 .. Len(queue) : queue[i] \in Int /\ queue[i] <= detections
      BY DEF UpTo
    <3>3. Ascends(queue') /\ UpTo(queue', detections')
      BY <3>1, <3>2, <3>e DEF Ascends, UpTo
    <3>n. \A j \in 1 .. Len(queue') : \/ j \in 1 .. Len(queue) /\ queue'[j] = queue[j]
                                      \/ queue'[j] = detections + 1
      BY <3>2
    <3>4. Below(wire, queue') /\ Below(hand, queue')
      <4>1. ASSUME NEW i \in 1 .. Len(wire), NEW j \in 1 .. Len(queue')
            PROVE  wire[i] < queue'[j]
        BY <3>n, <3>e DEF Below
      <4>2. ASSUME NEW i \in 1 .. Len(hand), NEW j \in 1 .. Len(queue')
            PROVE  hand[i] < queue'[j]
        BY <3>n, <3>e DEF Below
      <4> QED
        BY <4>1, <4>2 DEF Below
    <3>5. UpTo(wire, detections') /\ UpTo(hand, detections')
      BY <3>1, <3>e DEF UpTo
    <3>6. DetectionsOrdered'
      BY <3>1, <3>3, <3>4, <3>5
    <3> QED
      BY <3>1, <3>2, <3>6
  <2>2. CASE ~(Len(queue) < QueueSize)
    BY <1>1, <2>2 DEF Emits, Ascends, Below, UpTo
  <2> QED
    BY <2>1, <2>2
<1>2. CASE ForwarderTakes
  <2>1. /\ hand = <<>> /\ queue # <<>> /\ hand' = <<Head(queue)>> /\ queue' = Tail(queue)
        /\ UNCHANGED <<wire, detections, overflows, faults>>
    BY <1>2 DEF ForwarderTakes
  <2>2. /\ Head(queue) \in Int /\ queue' \in Seq(Int) /\ Len(queue') = Len(queue) - 1
        /\ Ascends(queue') /\ UpTo(queue', detections) /\ Head(queue) <= detections
        /\ Below(hand', queue')
        /\ \A i \in 1 .. Len(queue') : i + 1 \in 1 .. Len(queue) /\ queue'[i] = queue[i + 1]
    BY <2>1, TailOfAscending
  <2>3. Below(wire, queue')
    BY <2>2 DEF Below
  <2>4. hand' \in Seq(Int) /\ Len(hand') = 1 /\ hand'[1] = queue[1] /\ 1 \in 1 .. Len(queue)
    BY <2>1, <2>2
  <2>5. Below(wire, hand') /\ UpTo(hand', detections)
    BY <2>1, <2>2, <2>4 DEF Below, UpTo
  <2>6. DetectionsOrdered'
    BY <2>1, <2>2, <2>3, <2>5
  <2> QED
    BY <2>1, <2>2, <2>4, <2>6
<1>3. CASE ForwarderSends
  <2>1. /\ wire' = wire \o hand /\ hand' = <<>>
        /\ UNCHANGED <<queue, detections, overflows, faults>>
    BY <1>3 DEF ForwarderSends
  <2>2. Ascends(hand)
    BY DEF Ascends
  <2>3. wire' \in Seq(Int) /\ Len(wire') = Len(wire) + Len(hand) /\ Ascends(wire')
    BY <2>1, <2>2, ConcatAscends
  <2>p. \A i \in 1 .. Len(wire') :
            \/ i \in 1 .. Len(wire) /\ wire'[i] = wire[i]
            \/ i - Len(wire) \in 1 .. Len(hand) /\ wire'[i] = hand[i - Len(wire)]
    BY <2>1, <2>3
  <2>4. Below(wire', queue) /\ UpTo(wire', detections)
    BY <2>p DEF Below, UpTo
  <2>5. Below(wire', hand') /\ Below(hand', queue) /\ UpTo(hand', detections)
    BY <2>1 DEF Below, UpTo
  <2>6. DetectionsOrdered'
    BY <2>1, <2>3, <2>4, <2>5
  <2> QED
    BY <2>1, <2>3, <2>6
<1>4. CASE ForwarderFails \/ SessionBreaks
  <2>1. /\ hand' = <<>> /\ faults' = faults + 1
        /\ UNCHANGED <<wire, queue, detections, overflows>>
    BY <1>4 DEF ForwarderFails, SessionBreaks, SessionEndsNow
  <2>2. DetectionsOrdered'
    BY <2>1 DEF Below, UpTo
  <2> QED
    BY <2>1, <2>2
<1>5. CASE Connects \/ IsAuthenticated
  BY <1>5, <1>a DEF Connects, IsAuthenticated
<1>6. ASSUME NEW t \in Tasks, Starts(t) \/ Finishes(t) PROVE DetectionsKept'
  BY <1>6, <1>a DEF Starts, Finishes
<1>7. CASE SessionIsClosed
  BY <1>7, <1>a DEF HandHeld, SessionIsClosed, SessionEndsNow
<1> QED
  BY <1>0, <1>1, <1>2, <1>3, <1>4, <1>5, <1>6, <1>7 DEF LoopNext

(* The forwarder sends detections in the order they were emitted and none  *)
(* twice, across sessions; each fault costs at most one of them, and each  *)
(* overflow the one that met it.                                           *)
THEOREM DetectionsInOrder == Spec => []OneLossPerFault
<1>1. Init => HandHeld /\ DetectionsKept
  BY DEF Init, LoopInit, HandHeld, DetectionsKept, DetectionsTyped, DetectionsOrdered,
         DetectionsCounted, Ascends, Below, UpTo
<1> QED
  BY <1>1, StepOfParts, HandHeldNext, DetectionsKeptNext, DetectionsKeptImplies, PTL DEF Spec

-----------------------------------------------------------------------------
(* The files: whose signing key it is.                                     *)
(*                                                                         *)
(* A file that gives nothing is the only one a command may rewrite without *)
(* keeping its signing key, and then it writes what the session has.  The  *)
(* key itself may be in a file of an identity, so the invariant says of    *)
(* the configured values that they are paths or given keys, and of the     *)
(* files that they hold given keys.                                        *)

Config == UNION {[keys -> FileValues] : keys \in SUBSET FileKeys}

Bundles ==
    [bundle : {"none", "torn", "whole"}, key : {"k1", "k2", "k3", Absent},
     cert : {"c1", "c2", Absent}]

FilesTyped ==
    /\ {disk, local} \subseteq Config \cup {Unreadable, Absent}
    /\ session \in Config \cup {Absent}
    /\ dirs \in [Dirs -> Bundles]
    /\ pointer \in Dirs \cup {Absent}

KeysAreGiven ==
    /\ Absent \in given /\ \A d \in Dirs : dirs[d].key \in given
    /\ Value(Read(disk), "signing") \in Dirs \cup given
    /\ session # Absent => Value(session, "signing") \in Dirs \cup given
    /\ Read(local) # Empty =>
           /\ Read(disk) # Empty
           /\ Value(Read(disk), "signing") = Value(Read(local), "signing")

LEMMA ConfigIsNoFault ==
    ASSUME NEW config \in Config
    PROVE  config # Unreadable /\ config # Absent /\ Read(config) = config
<1>1. PICK keys \in SUBSET FileKeys : config \in [keys -> FileValues]
  BY DEF Config
<1>2. {Unreadable, Absent} \cap [keys -> FileValues] = {}
  BY FilesAssumption
<1> QED
  BY <1>1, <1>2 DEF Read

LEMMA EmptyIsConfig == Empty \in Config
<1>1. Empty \in [{} -> FileValues]
  BY DEF Empty
<1> QED
  BY <1>1 DEF Config

LEMMA HandWritesConfigs == WrittenByHand \subseteq Config \cup {Unreadable, Absent}
<1>1. /\ [signing |-> "k3"] \in [{"signing"} -> FileValues]
      /\ [signing |-> "k3", identity_dir |-> "root"]
             \in [{"signing", "identity_dir"} -> FileValues]
      /\ [client_name |-> "one", tamper |-> "allow"]
             \in [{"client_name", "tamper"} -> FileValues]
  BY DEF FileValues, Dirs
<1>2. /\ {"signing"} \in SUBSET FileKeys /\ {"signing", "identity_dir"} \in SUBSET FileKeys
      /\ {"client_name", "tamper"} \in SUBSET FileKeys
  BY DEF FileKeys
<1>3. {[signing |-> "k3"], [signing |-> "k3", identity_dir |-> "root"],
       [client_name |-> "one", tamper |-> "allow"]} \subseteq Config
  BY <1>1, <1>2 DEF Config
<1> QED
  BY <1>3 DEF WrittenByHand

LEMMA ReadIsConfig ==
    ASSUME NEW file \in Config \cup {Unreadable, Absent}
    PROVE  Read(file) \in Config
BY EmptyIsConfig DEF Read

LEMMA RuntimeIsConfig ==
    ASSUME NEW file \in Config \cup {Unreadable, Absent}
    PROVE  LET d == Resolve(Read(file))
           IN /\ RuntimeOf(file) \in Config
              /\ Value(RuntimeOf(file), "signing") =
                     IF d # Absent /\ dirs[d].bundle = "whole" THEN d
                     ELSE Value(Read(file), "signing")
              /\ d \in Dirs \cup {Absent}
<1> DEFINE d == Resolve(Read(file))
<1>1. Read(file) \in Config
  BY ReadIsConfig
<1>2. d \in Dirs \cup {Absent}
  BY DEF Resolve, Exists, Dirs
<1>3. CASE ~(d # Absent /\ dirs[d].bundle = "whole")
  <2>1. RuntimeOf(file) = Read(file)
    BY <1>3 DEF RuntimeOf
  <2> QED
    BY <1>1, <1>2, <1>3, <2>1
<1>4. CASE d # Absent /\ dirs[d].bundle = "whole"
  <2>0. d \in Dirs
    BY <1>2, <1>4
  <2> DEFINE all == Over(Overlay(d), Read(file))
             own == {"signing", "tls_client_cert", "client_name"}
  <2>1. RuntimeOf(file) = all
    BY <1>4 DEF RuntimeOf
  <2>2. PICK keys \in SUBSET FileKeys : Read(file) \in [keys -> FileValues]
    BY <1>1 DEF Config
  <2> HIDE DEF d
  <2>3. Overlay(d) \in [own -> FileValues] /\ Overlay(d).signing = d
    BY <2>0 DEF Overlay, FileValues, Dirs
  <2>4. all \in [own \cup keys -> FileValues] /\ all["signing"] = d
    BY <2>2, <2>3 DEF Over
  <2>5. own \cup keys \in SUBSET FileKeys
    BY <2>2 DEF FileKeys
  <2> HIDE DEF own, all
  <2>6. all \in Config
    BY <2>4, <2>5 DEF Config
  <2>7. "signing" \in DOMAIN all
    BY <2>4 DEF own
  <2> QED
    BY <1>2, <1>4, <2>1, <2>4, <2>6, <2>7 DEF Value, d
<1> QED
  BY <1>3, <1>4

(* A diff that is accepted has values for some keys, none of them          *)
(* protected.                                                              *)
LEMMA AcceptedKeys ==
    ASSUME NEW diff \in Diffs, NEW remove, Accepts(diff, remove)
    PROVE  \E ks \in (SUBSET FileKeys) \ {{}} :
               /\ "signing" \notin ks
               /\ DOMAIN diff = ks
               /\ [k \in DOMAIN diff |-> Coerced(diff[k])] \in [ks -> FileValues]
<1>1. diff # [plain |-> "text_of_b", signing |-> "k3"]
  BY DEF Accepts, ProtectedKeys
<1>2. PICK p \in Sendable : diff = [k \in {p[1]} |-> p[2]]
  BY <1>1 DEF Diffs
<1>3. DOMAIN diff = {p[1]} /\ diff[p[1]] = p[2]
  BY <1>2
<1>4. p[1] \notin {"unknown", "signing"} /\ p[2] # "wrong_type"
  BY <1>3 DEF Accepts, ProtectedKeys
<1>5. /\ p[1] \in FileKeys \ {"signing"}
      /\ Coerced(p[2]) \in FileValues
  BY <1>4 DEF Sendable, FileKeys, FileValues, Coerced, Dirs
<1> QED
  BY <1>3, <1>5

(* What update_config writes is a configuration that is not empty, with    *)
(* the signing key of the one it changes.                                  *)
LEMMA UpdateKeepsTheKey ==
    ASSUME NEW base \in Config, NEW diff \in Diffs, NEW remove,
           Accepts(diff, remove)
    PROVE  LET kept == [k \in DOMAIN base \ remove |-> base[k]]
               new == Over([k \in DOMAIN diff |-> Coerced(diff[k])], kept)
           IN new \in Config /\ new # Empty /\ Value(new, "signing") = Value(base, "signing")
<1> DEFINE kept == [k \in DOMAIN base \ remove |-> base[k]]
           coerced == [k \in DOMAIN diff |-> Coerced(diff[k])]
           new == Over(coerced, kept)
<1>1. PICK keys \in SUBSET FileKeys : base \in [keys -> FileValues]
  BY DEF Config
<1>2. PICK ks \in (SUBSET FileKeys) \ {{}} :
          "signing" \notin ks /\ DOMAIN diff = ks /\ coerced \in [ks -> FileValues]
  BY AcceptedKeys
<1>3. "signing" \notin remove
  BY DEF Accepts, ProtectedKeys
<1>5. kept \in [keys \ remove -> FileValues]
  BY <1>1
<1>6. /\ new \in [ks \cup (keys \ remove) -> FileValues]
      /\ \A k \in (keys \ remove) \ ks : new[k] = base[k]
  <2>1. DOMAIN coerced = ks /\ DOMAIN kept = keys \ remove
    BY <1>2, <1>1
  <2>2. new = [k \in ks \cup (keys \ remove) |-> IF k \in ks THEN coerced[k] ELSE kept[k]]
    BY <2>1 DEF Over
  <2>3. \A k \in keys \ remove : kept[k] = base[k]
    BY <1>1
  <2> HIDE DEF coerced, kept, new
  <2> QED
    BY <1>2, <1>5, <2>2, <2>3
<1> HIDE DEF coerced, kept, new
<1>7. new \in Config
  <2>1. ks \cup (keys \ remove) \in SUBSET FileKeys
    BY <1>1, <1>2
  <2> QED
    BY <1>6, <2>1 DEF Config
<1>8. new # Empty
  <2>1. DOMAIN new # {}
    BY <1>2, <1>6
  <2> QED
    BY <2>1 DEF Empty
<1>9. Value(new, "signing") = Value(base, "signing")
  <2>1. "signing" \in DOMAIN new <=> "signing" \in keys
    BY <1>2, <1>3, <1>6
  <2>2. "signing" \in keys => new["signing"] = base["signing"]
    BY <1>2, <1>3, <1>6
  <2>3. DOMAIN base = keys
    BY <1>1
  <2> QED
    BY <2>1, <2>2, <2>3 DEF Value
<1> QED
  BY <1>7, <1>8, <1>9 DEF new, coerced, kept

LEMMA KeysNext ==
    FilesTyped /\ KeysAreGiven /\ [FilesNext]_fileVars => FilesTyped' /\ KeysAreGiven'
<1> SUFFICES ASSUME FilesTyped, KeysAreGiven, [FilesNext]_fileVars
             PROVE  FilesTyped' /\ KeysAreGiven'
  OBVIOUS
<1>1. CASE UNCHANGED <<disk, dirs, pointer, session, local, given>>
  BY <1>1 DEF FilesTyped, KeysAreGiven
<1>2. CASE SessionStarts
  <2>1. session' = Runtime /\ UNCHANGED <<disk, dirs, pointer, local, given>>
    BY <1>2 DEF SessionStarts, host
  <2>2. Runtime \in Config /\ Value(Runtime, "signing") \in Dirs \cup given
    BY RuntimeIsConfig DEF FilesTyped, KeysAreGiven, Runtime
  <2> QED
    BY <2>1, <2>2 DEF FilesTyped, KeysAreGiven
<1>3. CASE SessionEnds
  BY <1>3 DEF SessionEnds, host, history, FilesTyped, KeysAreGiven
<1>4. CASE UpdatesConfig
  <2>0. session # Absent
    BY <1>4 DEF UpdatesConfig
  <2> DEFINE base == IF Read(disk) = Empty THEN session ELSE disk
  <2>1. base \in Config
    BY <2>0 DEF FilesTyped, Read
  <2>2. /\ Value(base, "signing") \in Dirs \cup given
        /\ Read(disk) # Empty => Read(disk) = base
    <3>1. CASE Read(disk) = Empty
      BY <2>0, <3>1 DEF KeysAreGiven
    <3>2. CASE Read(disk) # Empty
      BY <3>2 DEF KeysAreGiven, Read
    <3> QED
      BY <3>1, <3>2
  <2>3. PICK diff \in Diffs, remove \in Removals :
            /\ Accepts(diff, remove)
            /\ disk' = Over([k \in DOMAIN diff |-> Coerced(diff[k])],
                            [k \in DOMAIN base \ remove |-> base[k]])
    BY <1>4 DEF UpdatesConfig
  <2>4. UNCHANGED <<dirs, pointer, session, local, given>>
    BY <1>4 DEF UpdatesConfig
  <2> HIDE DEF base
  <2>5. disk' \in Config /\ disk' # Empty /\ Value(disk', "signing") = Value(base, "signing")
    BY <2>1, <2>3, UpdateKeepsTheKey
  <2>6. Read(disk') = disk'
    BY <2>5, ConfigIsNoFault
  <2> QED
    BY <2>2, <2>4, <2>5, <2>6 DEF FilesTyped, KeysAreGiven
<1>5. CASE EditsConfig
  <2>1. /\ disk' \in Config \cup {Unreadable, Absent} /\ local' = disk'
        /\ given' = given \cup {SigningKey(Read(disk'))}
        /\ UNCHANGED <<dirs, pointer, session>>
    BY <1>5, HandWritesConfigs DEF EditsConfig, ByHand
  <2>2. Value(Read(disk'), "signing") \in Dirs \cup given'
    BY <2>1 DEF SigningKey
  <2> QED
    BY <2>1, <2>2 DEF FilesTyped, KeysAreGiven
<1>6. CASE GetsIdentity
  <2>1. /\ dirs' = [dirs EXCEPT !["one"] = Identity("k2")]
        /\ pointer' = "one" /\ given' = given \cup {"k2"}
        /\ UNCHANGED <<disk, session, local>>
    BY <1>6 DEF GetsIdentity, ByHand
  <2>2. Identity("k2") \in Bundles /\ Identity("k2").key = "k2"
    BY DEF Identity, Bundles
  <2>3. dirs' \in [Dirs -> Bundles] /\ \A d \in Dirs : dirs'[d].key \in given'
    BY <2>1, <2>2 DEF FilesTyped, KeysAreGiven, Dirs
  <2> QED
    BY <2>1, <2>3 DEF FilesTyped, KeysAreGiven, Dirs
<1>7. CASE EditsIdentity
  <2>1. PICK d \in Dirs :
            /\ \/ dirs' = [dirs EXCEPT ![d].key = "k3"]
               \/ dirs' = [dirs EXCEPT ![d].cert = "c2"]
               \/ dirs' = [dirs EXCEPT ![d].bundle = "torn"]
               \/ dirs' = [dirs EXCEPT ![d] = NoIdentity]
            /\ given' = given \cup {dirs'[d].key}
    BY <1>7 DEF EditsIdentity, ByHand
  <2>2. UNCHANGED <<disk, pointer, session, local>>
    BY <1>7 DEF EditsIdentity, ByHand
  <2>3. dirs' \in [Dirs -> Bundles] /\ \A e \in Dirs \ {d} : dirs'[e] = dirs[e]
    BY <2>1 DEF FilesTyped, Bundles, NoIdentity
  <2>4. \A e \in Dirs : dirs'[e].key \in given'
    BY <2>1, <2>3 DEF KeysAreGiven
  <2> QED
    BY <2>1, <2>2, <2>3, <2>4 DEF FilesTyped, KeysAreGiven
<1>8. CASE EditsPointer
  <2>1. pointer' \in Dirs \cup {Absent} /\ UNCHANGED <<disk, dirs, session, local, given>>
    BY <1>8 DEF EditsPointer, ByHand, Dirs
  <2> QED
    BY <2>1 DEF FilesTyped, KeysAreGiven
<1>9. CASE SessionFails \/ TriggersUpdate \/ HealthChecks \/ EditsBinary \/ SpoilsBaseline
  BY <1>1, <1>9 DEF SessionFails, TriggersUpdate, HealthChecks, MakesBaseline, EditsBinary,
         SpoilsBaseline, ByHand, host, history
<1>10. CASE UNCHANGED fileVars
  BY <1>1, <1>10 DEF fileVars
<1> QED
  BY <1>2, <1>3, <1>4, <1>5, <1>6, <1>7, <1>8, <1>9, <1>10 DEF FilesNext

LEMMA KeysInit == Init => FilesTyped /\ KeysAreGiven
<1> SUFFICES ASSUME Init PROVE FilesTyped /\ KeysAreGiven
  OBVIOUS
<1>1. /\ disk \in Config \cup {Unreadable, Absent} /\ local = disk /\ session = Absent
      /\ dirs \in {NoDirs, Legacy, [Legacy EXCEPT !["one"] = Identity("k2")]}
      /\ pointer \in Dirs \cup {Absent}
      /\ given = {SigningKey(Read(disk)), Absent} \cup {dirs[d].key : d \in Dirs}
  BY HandWritesConfigs DEF Init, FilesInit, Dirs
<1>2. NoIdentity \in Bundles /\ Identity("k1") \in Bundles /\ Identity("k2") \in Bundles
  BY DEF NoIdentity, Identity, Bundles
<1>3. dirs \in [Dirs -> Bundles]
  BY <1>1, <1>2 DEF NoDirs, Legacy
<1>4. Value(Read(disk), "signing") \in Dirs \cup given
  BY <1>1 DEF SigningKey
<1> QED
  BY <1>1, <1>3, <1>4 DEF FilesTyped, KeysAreGiven

LEMMA KeysSuffice == FilesTyped /\ KeysAreGiven => ProtectedIsLocal
<1> SUFFICES ASSUME FilesTyped, KeysAreGiven PROVE ProtectedIsLocal
  OBVIOUS
<1>1. Value(Runtime, "signing") \in Dirs \cup given
  BY RuntimeIsConfig DEF FilesTyped, KeysAreGiven, Runtime
<1>2. SigningKey(Runtime) \in given
  BY <1>1 DEF SigningKey, KeysAreGiven
<1>3. ASSUME Read(local) # Empty, SameNames(disk, local)
      PROVE  Value(Runtime, "signing") = Value(RuntimeOf(local), "signing")
  <2>1. Resolve(Read(disk)) = Resolve(Read(local))
    BY <1>3 DEF SameNames, Resolve
  <2>2. Value(Read(disk), "signing") = Value(Read(local), "signing")
    BY <1>3 DEF KeysAreGiven
  <2>3. disk \in Config \cup {Unreadable, Absent} /\ local \in Config \cup {Unreadable, Absent}
    BY DEF FilesTyped
  <2> DEFINE d == Resolve(Read(disk))
  <2>4. /\ Value(RuntimeOf(disk), "signing") =
               IF d # Absent /\ dirs[d].bundle = "whole" THEN d
               ELSE Value(Read(disk), "signing")
        /\ Value(RuntimeOf(local), "signing") =
               IF d # Absent /\ dirs[d].bundle = "whole" THEN d
               ELSE Value(Read(local), "signing")
    BY <2>1, <2>3, RuntimeIsConfig
  <2> QED
    BY <2>2, <2>4 DEF Runtime
<1> QED
  BY <1>2, <1>3 DEF ProtectedIsLocal

(* PROTECTED_CONFIG_KEYS, "no modificables en remoto": whichever identity  *)
(* of the host a command chooses and however the file was rewritten, lost  *)
(* or restored, the key the next session verifies commands with was given  *)
(* on this host; and it is configured as the file last written by hand     *)
(* says, as long as what names the identity is as in that file.            *)
THEOREM SigningKeyStaysLocal == Spec => []ProtectedIsLocal
BY KeysInit, StepOfParts, KeysNext, KeysSuffice, PTL DEF Spec

-----------------------------------------------------------------------------
(* The files: what an alarm means.                                         *)
(*                                                                         *)
(* A component nobody touched since a session made a baseline is as that   *)
(* baseline has it: replacing the key in an identity changes nothing that  *)
(* is hashed, and whoever changes what is hashed touches it.               *)

OfFiles(f) == f = [b \in BaselineFiles |-> f[b]]

BaselinesTyped == OfFiles(baseline) /\ OfFiles(origin) /\ OfFiles(touched)

BaselinesKnown ==
    /\ BaselinesTyped
    /\ \A f \in BaselineFiles : baseline[f] # Absent =>
           /\ "snapshot" \in DOMAIN baseline[f]
           /\ baseline[f].snapshot = origin[f].snapshot
           /\ origin[f].by \in {"session", "health_check"}
           /\ origin[f].by = "session" => \A label \in DOMAIN Now \ touched[f] : Same(f, label)

NowByLabel ==
    /\ {"binary", "signing"} \subseteq DOMAIN Now
    /\ DOMAIN Now \subseteq {"binary", "signing", "config", "cert"}
    /\ "config" \in DOMAIN Now <=> disk # Absent
    /\ "cert" \in DOMAIN Now <=> CertOf(Runtime) # Absent
    /\ Now["binary"] = binary /\ Now["signing"] = Value(Runtime, "signing")
    /\ disk # Absent => Now["config"] = disk
    /\ CertOf(Runtime) # Absent => Now["cert"] = CertOf(Runtime)

LEMMA NowIs == NowByLabel
<1> DEFINE labels == {"binary", "signing"}
               \cup (IF disk # Absent THEN {"config"} ELSE {})
               \cup (IF CertOf(Runtime) # Absent THEN {"cert"} ELSE {})
           value(label) == CASE label = "binary" -> binary
                             [] label = "signing" -> Value(Runtime, "signing")
                             [] label = "config" -> disk
                             [] label = "cert" -> CertOf(Runtime)
<1>1. Now = [label \in labels |-> value(label)]
  BY DEF Now, Snapshot
<1>2. DOMAIN Now = labels /\ \A label \in labels : Now[label] = value(label)
  BY <1>1
<1>3. /\ value("binary") = binary /\ value("signing") = Value(Runtime, "signing")
      /\ value("config") = disk /\ value("cert") = CertOf(Runtime)
  OBVIOUS
<1> HIDE DEF value
<1> QED
  BY <1>2, <1>3 DEF NowByLabel

(* A step that touches what it changes, of what is watched, keeps the      *)
(* baselines it does not make.                                             *)
LEMMA TouchedIsKept ==
    ASSUME BaselinesKnown, UNCHANGED <<baseline, origin>>,
           NEW labels, Touches(labels),
           binary' = binary \/ "binary" \in labels,
           disk' = disk \/ "config" \in labels,
           Value(Runtime, "signing")' = Value(Runtime, "signing") \/ "signing" \in labels,
           CertOf(Runtime)' = CertOf(Runtime) \/ "cert" \in labels
    PROVE  BaselinesKnown'
<1>0. NowByLabel /\ NowByLabel'
  BY NowIs, PTL
<1>1. BaselinesTyped'
  BY DEF BaselinesKnown, BaselinesTyped, OfFiles, Touches
<1>2. ASSUME NEW f \in BaselineFiles, baseline[f] # Absent, origin[f].by = "session",
             NEW label \in DOMAIN Now', label \notin touched'[f]
      PROVE  label \in DOMAIN origin[f].snapshot /\ Now'[label] = origin[f].snapshot[label]
  <2>1. label \notin touched[f] /\ label \notin labels
    BY <1>2 DEF Touches
  <2>2. label \in DOMAIN Now /\ Now'[label] = Now[label]
    <3>1. label \in {"binary", "signing", "config", "cert"}
      BY <1>0, <1>2 DEF NowByLabel
    <3>2. CASE label \in {"binary", "signing"}
      BY <1>0, <2>1, <3>2 DEF NowByLabel
    <3>3. CASE label = "config"
      BY <1>0, <1>2, <2>1, <3>3 DEF NowByLabel
    <3>4. CASE label = "cert"
      BY <1>0, <1>2, <2>1, <3>4 DEF NowByLabel
    <3> QED
      BY <3>1, <3>2, <3>3, <3>4
  <2>3. Same(f, label)
    BY <1>2, <2>1, <2>2 DEF BaselinesKnown
  <2> QED
    BY <2>2, <2>3 DEF Same
<1>3. ASSUME NEW f \in BaselineFiles, baseline[f] # Absent, origin[f].by = "session"
      PROVE  \A label \in DOMAIN Now' \ touched'[f] : Same(f, label)'
  BY <1>2, <1>3 DEF Same
<1> QED
  BY <1>1, <1>3 DEF BaselinesKnown

LEMMA NowStays == ASSUME UNCHANGED <<host>> PROVE Now' = Now
BY DEF host, Now, Runtime, RuntimeOf, Resolve, Exists, Snapshot, CertOf

LEMMA NothingWatchedChanges ==
    ASSUME BaselinesKnown, UNCHANGED <<baseline, origin, touched>>,
           UNCHANGED <<host>>
    PROVE  BaselinesKnown'
<1>1. Now' = Now
  BY NowStays
<1> QED
  BY <1>1 DEF BaselinesKnown, BaselinesTyped, Same

LEMMA BaselineMade ==
    ASSUME BaselinesKnown, NEW f \in BaselineFiles,
           NEW by \in {"session", "health_check"}, NEW snapshot,
           MakesBaseline(f, snapshot, by), by = "session" => snapshot = Now,
           UNCHANGED <<host>>
    PROVE  BaselinesKnown'
<1>1. Now' = Now
  BY NowStays
<1>2. BaselinesTyped'
  BY DEF BaselinesKnown, BaselinesTyped, OfFiles, MakesBaseline
<1>3. /\ baseline'[f] = [snapshot |-> snapshot, sound |-> TRUE]
      /\ origin'[f] = [snapshot |-> snapshot, by |-> by]
  BY DEF BaselinesKnown, BaselinesTyped, OfFiles, MakesBaseline
<1>4. /\ "snapshot" \in DOMAIN baseline'[f] /\ baseline'[f].snapshot = snapshot
      /\ origin'[f].snapshot = snapshot /\ origin'[f].by = by
  BY <1>3
<1>5. ASSUME NEW g \in BaselineFiles, g # f
      PROVE  baseline'[g] = baseline[g] /\ origin'[g] = origin[g] /\ touched'[g] = touched[g]
  BY <1>5 DEF BaselinesKnown, BaselinesTyped, OfFiles, MakesBaseline
<1>6. ASSUME NEW g \in BaselineFiles, baseline'[g] # Absent
      PROVE  /\ "snapshot" \in DOMAIN baseline'[g]
             /\ baseline'[g].snapshot = origin'[g].snapshot
             /\ origin'[g].by \in {"session", "health_check"}
             /\ origin'[g].by = "session" =>
                    \A label \in DOMAIN Now' \ touched'[g] : Same(g, label)'
  <2>1. CASE g = f
    BY <1>1, <1>4, <2>1 DEF Same
  <2>2. CASE g # f
    BY <1>1, <1>5, <1>6, <2>2 DEF Same, BaselinesKnown
  <2> QED
    BY <2>1, <2>2
<1> QED
  BY <1>2, <1>6 DEF BaselinesKnown

LEMMA BaselinesNext ==
    FilesTyped /\ BaselinesKnown /\ [FilesNext]_fileVars => BaselinesKnown'
<1> SUFFICES ASSUME FilesTyped, BaselinesKnown, [FilesNext]_fileVars PROVE BaselinesKnown'
  OBVIOUS
<1>f. \A config : BaselineFile(config) \in BaselineFiles
  BY DEF BaselineFile, BaselineFiles
<1>1. CASE SessionStarts
  <2> DEFINE f == BaselineFile(Runtime)
  <2>1. CASE baseline[f] = Absent \/ (alarm' /\ AllowsRebaseline(Runtime))
    <3>1. MakesBaseline(f, Now, "session") /\ UNCHANGED <<host>>
      BY <1>1, <2>1 DEF SessionStarts
    <3> QED
      BY <1>f, <3>1, BaselineMade
  <2>2. CASE ~(baseline[f] = Absent \/ (alarm' /\ AllowsRebaseline(Runtime)))
    BY <1>1, <2>2, NothingWatchedChanges DEF SessionStarts
  <2> QED
    BY <2>1, <2>2
<1>2. CASE HealthChecks
  <2>1. /\ MakesBaseline(BaselineFile(Read(disk)), Snapshot(Read(disk)), "health_check")
        /\ UNCHANGED <<host>>
    BY <1>2 DEF HealthChecks
  <2> QED
    BY <1>f, <2>1, BaselineMade
<1>3. CASE UpdatesConfig \/ EditsConfig
  <2>1. Touches({"config", "signing", "cert"}) /\ UNCHANGED <<binary, baseline, origin>>
    BY <1>3 DEF UpdatesConfig, EditsConfig, ByHand
  <2> QED
    BY <2>1, TouchedIsKept
<1>4. CASE TriggersUpdate \/ EditsBinary
  <2>1. Touches({"binary"}) /\ UNCHANGED <<disk, dirs, pointer, baseline, origin>>
    BY <1>4 DEF TriggersUpdate, EditsBinary, ByHand
  <2>2. Runtime' = Runtime /\ CertOf(Runtime)' = CertOf(Runtime)
    BY <2>1 DEF Runtime, RuntimeOf, Resolve, Exists, CertOf
  <2> QED
    BY <2>1, <2>2, TouchedIsKept
<1>5. CASE GetsIdentity \/ EditsPointer
  <2>1. Touches({"cert", "signing"}) /\ UNCHANGED <<disk, binary, baseline, origin>>
    BY <1>5 DEF GetsIdentity, EditsPointer, ByHand
  <2> QED
    BY <2>1, TouchedIsKept
<1>6. CASE EditsIdentity
  <2>0. UNCHANGED <<disk, pointer, binary, baseline, origin>>
    BY <1>6 DEF EditsIdentity, ByHand
  <2>1. PICK d \in Dirs :
            \/ Touches({}) /\ dirs' = [dirs EXCEPT ![d].key = "k3"]
            \/ Touches({"cert"}) /\ dirs' = [dirs EXCEPT ![d].cert = "c2"]
            \/ Touches({"cert", "signing"})
    BY <1>6 DEF EditsIdentity, ByHand
  <2>2. ASSUME \A e \in Dirs : dirs'[e].bundle = dirs[e].bundle
        PROVE  Runtime' = Runtime
    BY <2>0, <2>2 DEF Runtime, RuntimeOf, Resolve, Exists
  <2>3. CASE Touches({}) /\ dirs' = [dirs EXCEPT ![d].key = "k3"]
    <3>1. \A e \in Dirs : dirs'[e].bundle = dirs[e].bundle /\ dirs'[e].cert = dirs[e].cert
      BY <2>3 DEF FilesTyped, Bundles
    <3>2. Runtime' = Runtime /\ CertOf(Runtime)' = CertOf(Runtime)
      BY <2>2, <3>1 DEF CertOf
    <3> QED
      BY <2>0, <2>3, <3>2, TouchedIsKept
  <2>4. CASE Touches({"cert"}) /\ dirs' = [dirs EXCEPT ![d].cert = "c2"]
    <3>1. \A e \in Dirs : dirs'[e].bundle = dirs[e].bundle
      BY <2>4 DEF FilesTyped, Bundles
    <3> QED
      BY <2>0, <2>2, <2>4, <3>1, TouchedIsKept
  <2>5. CASE Touches({"cert", "signing"})
    BY <2>0, <2>5, TouchedIsKept
  <2> QED
    BY <2>1, <2>3, <2>4, <2>5
<1>7. CASE SpoilsBaseline
  <2>1. Touches({}) /\ UNCHANGED <<host, origin>>
    BY <1>7 DEF SpoilsBaseline, ByHand
  <2>2. PICK f \in BaselineFiles :
            /\ baseline[f] # Absent
            /\ \/ baseline' = [baseline EXCEPT ![f] = Absent]
               \/ baseline' = [baseline EXCEPT ![f].sound = FALSE]
    BY <1>7 DEF SpoilsBaseline
  <2>3. Now' = Now
    BY <2>1, NowStays
  <2>4. BaselinesTyped'
    BY <2>1, <2>2 DEF BaselinesKnown, BaselinesTyped, OfFiles, Touches
  <2>5. "snapshot" \in DOMAIN baseline[f]
    BY <2>2 DEF BaselinesKnown
  <2>6. ASSUME NEW g \in BaselineFiles, baseline'[g] # Absent
        PROVE  /\ "snapshot" \in DOMAIN baseline'[g]
               /\ baseline'[g].snapshot = baseline[g].snapshot
               /\ baseline[g] # Absent /\ touched'[g] = touched[g]
    <3>1. CASE g = f
      BY <2>1, <2>2, <2>5, <2>6, <3>1 DEF BaselinesKnown, BaselinesTyped, OfFiles, Touches
    <3>2. CASE g # f
      <4>1. baseline'[g] = baseline[g]
        BY <2>2, <3>2 DEF BaselinesKnown, BaselinesTyped, OfFiles
      <4> QED
        BY <2>1, <2>6, <4>1 DEF BaselinesKnown, Touches
    <3> QED
      BY <3>1, <3>2
  <2> QED
    BY <2>1, <2>3, <2>4, <2>6 DEF BaselinesKnown, Same
<1>8. CASE SessionFails \/ SessionEnds
  BY <1>8, NothingWatchedChanges DEF SessionFails, SessionEnds, history
<1>9. CASE UNCHANGED fileVars
  BY <1>9, NothingWatchedChanges DEF fileVars, host
<1> QED
  BY <1>1, <1>2, <1>3, <1>4, <1>5, <1>6, <1>7, <1>8, <1>9 DEF FilesNext

LEMMA AlarmIsOfChange ==
    BaselinesKnown /\ [FilesNext]_fileVars =>
        (session = Absent /\ session' # Absent =>
             LET f == BaselineFile(session') IN
             baseline[f] # Absent =>
                 /\ alarm' \/ \A label \in touched[f] \cap DOMAIN Now : Same(f, label)
                 /\ alarm' => \/ touched[f] # {} \/ ~baseline[f].sound
                              \/ origin[f].by = "health_check")
<1> DEFINE f == BaselineFile(session')
<1> SUFFICES ASSUME BaselinesKnown, [FilesNext]_fileVars,
                    session = Absent, session' # Absent, baseline[f] # Absent
             PROVE  /\ alarm' \/ \A label \in touched[f] \cap DOMAIN Now : Same(f, label)
                    /\ alarm' => \/ touched[f] # {} \/ ~baseline[f].sound
                                 \/ origin[f].by = "health_check"
  OBVIOUS
<1>0. f \in BaselineFiles
  BY DEF BaselineFile, BaselineFiles
<1>1. SessionStarts
  BY DEF FilesNext, fileVars, SessionFails, SessionEnds, UpdatesConfig, TriggersUpdate,
         HealthChecks, EditsConfig, EditsBinary, GetsIdentity, EditsIdentity, EditsPointer,
         SpoilsBaseline, ByHand
<1>2. alarm' = TamperedWith(f)
  BY <1>1 DEF SessionStarts
<1> HIDE DEF f
<1>3. baseline[f].snapshot = origin[f].snapshot /\ origin[f].by \in {"session", "health_check"}
  BY <1>0 DEF BaselinesKnown
<1>4. ASSUME ~TamperedWith(f) PROVE \A label \in DOMAIN Now : Same(f, label)
  BY <1>3, <1>4 DEF TamperedWith, Differences, Same
<1>5. ASSUME TamperedWith(f), touched[f] = {}, baseline[f].sound, origin[f].by = "session"
      PROVE  FALSE
  <2>1. \A label \in DOMAIN Now : Same(f, label)
    BY <1>0, <1>5 DEF BaselinesKnown
  <2> QED
    BY <1>3, <1>5, <2>1 DEF TamperedWith, Differences, Same
<1> QED
  BY <1>2, <1>3, <1>4, <1>5

(* "Detecta modificación no autorizada de los componentes del agente", of  *)
(* what is hashed: when a session finds its baseline, no alarm means that  *)
(* every watched component that may have been touched is as it was, or is  *)
(* gone; an alarm, that one was touched, or the baseline was, or that      *)
(* health_check made it without the identity.                              *)
THEOREM AlarmTellsChange == Spec => AlarmMeansChange
<1>1. Init => BaselinesKnown
  BY DEF Init, FilesInit, BaselinesKnown, BaselinesTyped, OfFiles
<1> QED
  BY <1>1, KeysInit, StepOfParts, KeysNext, BaselinesNext, AlarmIsOfChange, PTL
     DEF Spec, AlarmMeansChange
=============================================================================
