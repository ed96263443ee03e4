-------------------- MODULE ControlPlaneDelivery_proofs ---------------------
(***************************************************************************)
(* Proofs, for every value of the constants, of how ControlPlane gets a    *)
(* command to the agent: the futures of the REST calls, the pending        *)
(* records and the sends, what happens after a TTL.  They build on the     *)
(* type invariant of ControlPlane_proofs.                                  *)
(***************************************************************************)
EXTENDS ControlPlane_proofs, FiniteSetTheorems

(* The types the proofs below need of a state. *)
LEMMA Types ==
    ASSUME TypeOK
    PROVE  /\ records \in [Cmd -> CmdState \cup {"absent"}]
           /\ disk \in [Cmd -> CmdState \cup {"absent"}]
           /\ caller \in [Cmd -> CallState]
           /\ fut \in [Cmd -> {"none", "open", "set"}]
           /\ sends \subseteq Send
           /\ active \in Session \cup {None}
           /\ hand \in [Session -> HandState]
           /\ todo \in [Session -> SUBSET Cmd]
           /\ link \in [Session -> {"unused", "up", "down"}]
           /\ down \in [Session -> Seq(Cmd)]
           /\ up \in [Session -> Seq(Frame)]
           /\ \A x \in sends : x.cmd \in Cmd /\ x.by \in Session \cup {None}
BY DEF TypeOK, QueueTypeOK, Send

-----------------------------------------------------------------------------
(* The futures of the REST calls.                                          *)
(*                                                                         *)
(* EveryFutureHasItsCall is not inductive: when a send of a REST call      *)
(* returns, its call leaves "sending", so there must have been no other    *)
(* send of that call.                                                      *)

OneSendPerCall ==
    \A x, y \in sends : x.cmd = y.cmd /\ x.by = None /\ y.by = None => x = y

CallsMatch == EveryFutureHasItsCall /\ OneSendPerCall

LEMMA CallsMatchNext ==
    TypeOK /\ CallsMatch /\ [Next]_vars => CallsMatch'
<1> SUFFICES ASSUME TypeOK, CallsMatch, [Next]_vars PROVE CallsMatch'
  OBVIOUS
<1> USE Types, NoneIsNeither
        DEF CallsMatch, EveryFutureHasItsCall, OneSendPerCall
<1>0. ASSUME UNCHANGED <<sends, caller, fut>> PROVE CallsMatch'
  BY <1>0
<1>1. ASSUME NEW m \in Cmd, Issue(m) PROVE CallsMatch'
  <2>1. caller[m] = "idle" /\ fut[m] # "open"
        /\ \A x \in sends : x.cmd = m => x.by # None
    BY <1>1 DEF Issue
  <2>2. CASE IssueOffline(m)
    BY <2>1, <2>2 DEF IssueOffline
  <2>3. CASE IssueOnline(m)
    <3> DEFINE new == [cmd |-> m, via |-> active, by |-> None]
    <3>0. sends' = sends \cup {new} /\ new.cmd = m /\ new.by = None
      BY <2>3 DEF IssueOnline, BeginSend
    <3> HIDE DEF new
    <3>1. PICK x : sends' = sends \cup {x} /\ x.cmd = m /\ x.by = None
      BY <3>0
    <3> QED
      BY <2>1, <2>3, <3>1 DEF IssueOnline
  <2> QED
    BY <1>1, <2>2, <2>3 DEF Issue
<1>2. ASSUME NEW m \in Cmd, CallAnswered(m) \/ CallTimesOut(m) PROVE CallsMatch'
  BY <1>2 DEF CallAnswered, CallTimesOut
<1>3. ASSUME NEW x \in sends, SendReturns(x) \/ SendRaises(x) PROVE CallsMatch'
  <2>1. sends' = sends \ {x} /\ x.cmd \in Cmd
    BY <1>3 DEF SendReturns, SendRaises
  <2>2. CASE x.by # None
    BY <1>3, <2>1, <2>2 DEF SendReturns, SendRaises
  <2>3. CASE x.by = None
    <3>1. /\ caller[x.cmd] = "sending"
          /\ \A y \in sends' : y.cmd = x.cmd => y.by # None
      BY <2>1, <2>3
    <3>2. CASE SendReturns(x)
      BY <2>1, <2>3, <3>1, <3>2 DEF SendReturns
    <3>3. CASE SendRaises(x)
      BY <2>1, <2>3, <3>1, <3>3 DEF SendRaises
    <3> QED
      BY <1>3, <3>2, <3>3
  <2> QED
    BY <2>2, <2>3
<1>4. ASSUME NEW s \in Session, HandlerNext(s) PROVE CallsMatch'
  <2>1. CASE Register(s) \/ AuthFails(s) \/ StartDispatch(s) \/ AckRaises(s)
             \/ DispatchDone(s) \/ ServerNotices(s)
    BY <2>1, <1>0 DEF Register, AuthFails, StartDispatch, AckRaises, DispatchDone,
                      ServerNotices
  <2>2. ASSUME NEW m \in Cmd, VisitExpired(s, m) \/ VisitSkipped(s, m)
        PROVE  CallsMatch'
    BY <2>2, <1>0 DEF VisitExpired, VisitSkipped
  <2>3. ASSUME NEW m \in Cmd, VisitPending(s, m) PROVE CallsMatch'
    <3> DEFINE new == [cmd |-> m, via |-> active, by |-> s]
    <3>0. sends' = sends \cup {new} /\ new.by = s
      BY <2>3 DEF VisitPending, BeginSend
    <3> HIDE DEF new
    <3>1. PICK x : sends' = sends \cup {x} /\ x.by = s
      BY <3>0
    <3> QED
      BY <2>3, <3>1 DEF VisitPending
  <2>4. CASE ServerReceives(s)
    <3>1. /\ \A m \in Cmd : fut'[m] = fut[m] \/ (fut[m] = "open" /\ fut'[m] = "set")
          /\ UNCHANGED <<sends, caller>>
      BY <2>4 DEF ServerReceives
    <3> QED
      BY <3>1
  <2> QED
    BY <1>4, <2>1, <2>2, <2>3, <2>4 DEF HandlerNext
<1>5. CASE ServerRestarts
  BY <1>5 DEF ServerRestarts
<1>6. ASSUME NEW s \in Session, LinkBreaks(s) \/ Connect(s) PROVE CallsMatch'
  BY <1>6, <1>0 DEF LinkBreaks, Connect, serverVars
<1>7. ASSUME NEW m \in Cmd, AgentNext(m) \/ Expires(m) PROVE CallsMatch'
  BY <1>7, <1>0 DEF AgentNext, AgentIgnores, AgentRejects, AgentFindsExpired,
       AgentAccepts, AgentSendRaises, AgentStarts, AgentAbandons, AgentResponds,
       Expires, serverVars
<1>8. CASE Prune \/ AgentNotices \/ AgentRestarts \/ UNCHANGED vars
  BY <1>8, <1>0 DEF Prune, AgentNotices, AgentRestarts, vars, serverVars
<1> QED
  BY <1>1, <1>2, <1>3, <1>4, <1>5, <1>6, <1>7, <1>8 DEF Next, CallNext

LEMMA CallsMatchInvariant == Spec => []CallsMatch
<1>1. Init => CallsMatch
  BY DEF Init, CallsMatch, EveryFutureHasItsCall, OneSendPerCall
<1> QED
  BY <1>1, TypeInvariant, CallsMatchNext, PTL DEF Spec

(* pending_requests holds exactly the futures some REST call will take out *)
(* again, and every call that waits has its future, whatever the order of  *)
(* the response, the end of the send, the time-out and restarts.           *)
THEOREM FuturesAreOwned == Spec => []EveryFutureHasItsCall
<1>1. CallsMatch => EveryFutureHasItsCall
  BY DEF CallsMatch
<1> QED
  BY <1>1, CallsMatchInvariant, PTL

-----------------------------------------------------------------------------
(* The records and their files.                                            *)
(*                                                                         *)
(* That nothing is sent again needs two facts about every state: a command *)
(* that was not issued has no record and no file, and, as long as files    *)
(* can be written, what a restart reads is what the server knew.           *)

IdleIsAbsent ==
    \A m \in Cmd : caller[m] = "idle" => records[m] = "absent" /\ disk[m] = "absent"

DiskIsCurrent == ~DiskMayFail => disk = records

(* A mark changes one record that exists, and its file. *)
LEMMA MarkEffect ==
    ASSUME QueueTypeOK, NEW m \in Cmd, NEW st, Mark(m, st)
    PROVE  /\ \A k \in Cmd : \/ records'[k] = records[k] /\ disk'[k] = disk[k]
                             \/ k = m /\ records[k] # "absent" /\ records'[k] = st
           /\ records[m] # "absent" => records'[m] = st
           /\ DiskIsCurrent => DiskIsCurrent'
BY DEF QueueTypeOK, Mark, Persist, queueVars, DiskIsCurrent

(* No frame puts a record back to pending. *)
MarkedInStep ==
    \E m \in Cmd : \E st \in CmdState \ {"pending"} : Mark(m, st)

LEMMA FrameState ==
    ASSUME TypeOK, NEW s \in Session, ServerReceives(s)
    PROVE  MarkedInStep
<1> DEFINE f == Head(up[s])
<1>1. f \in Frame
  BY Types DEF ServerReceives
<1>2. f.cmd \in Cmd /\ f.kind \in FrameKind
  BY <1>1 DEF Frame
<1>3. StateOf(f.kind) \in CmdState \ {"pending"}
  BY <1>2 DEF StateOf, FrameKind, CmdState, Terminal
<1>4. Mark(f.cmd, StateOf(f.kind))
  BY DEF ServerReceives
<1> QED
  BY <1>2, <1>3, <1>4 DEF MarkedInStep

(* Besides the enqueue and a restart, records change by marks only, and no *)
(* other step issues a command.                                            *)
Marks ==
    /\ UNCHANGED <<records, disk>> \/ MarkedInStep
    /\ \A m \in Cmd : caller'[m] = "idle" <=> caller[m] = "idle"

LEMMA RecordsNext ==
    ASSUME TypeOK, CallsMatch, [Next]_vars
    PROVE  (\E m \in Cmd : Issue(m)) \/ ServerRestarts \/ Marks
<1> SUFFICES ASSUME ~(\E m \in Cmd : Issue(m)), ~ServerRestarts
             PROVE  Marks
  OBVIOUS
<1> USE Types, NoneIsNeither DEF queueVars, serverVars
<1>0. ASSUME UNCHANGED <<records, disk, caller>> PROVE Marks
  BY <1>0 DEF Marks
<1>1. ASSUME NEW m \in Cmd, CallNext(m) PROVE Marks
  BY <1>1 DEF CallNext, CallAnswered, CallTimesOut, Marks
<1>2. ASSUME NEW x \in sends, SendReturns(x) \/ SendRaises(x) PROVE Marks
  <2>1. x.cmd \in Cmd /\ "sent" \in CmdState \ {"pending"}
    BY DEF CmdState
  <2>2. x.by = None => caller[x.cmd] = "sending"
    BY DEF CallsMatch, EveryFutureHasItsCall
  <2>3. \A m \in Cmd : caller'[m] = "idle" <=> caller[m] = "idle"
    BY <1>2, <2>1, <2>2 DEF SendReturns, SendRaises
  <2>4. CASE SendReturns(x)
    BY <2>1, <2>3, <2>4 DEF SendReturns, Marks, MarkedInStep
  <2>5. CASE SendRaises(x)
    BY <2>3, <2>5 DEF SendRaises, Marks
  <2> QED
    BY <1>2, <2>4, <2>5
<1>3. ASSUME NEW s \in Session, HandlerNext(s) PROVE Marks
  <2>1. CASE Register(s) \/ AuthFails(s) \/ StartDispatch(s) \/ AckRaises(s)
             \/ DispatchDone(s) \/ ServerNotices(s)
    BY <2>1, <1>0 DEF Register, AuthFails, StartDispatch, AckRaises, DispatchDone,
                      ServerNotices
  <2>2. ASSUME NEW m \in Cmd, VisitExpired(s, m) PROVE Marks
    BY <2>2 DEF VisitExpired, Expire, CmdState, Terminal, Marks, MarkedInStep
  <2>3. ASSUME NEW m \in Cmd, VisitSkipped(s, m) \/ VisitPending(s, m) PROVE Marks
    BY <2>3, <1>0 DEF VisitSkipped, VisitPending
  <2>4. CASE ServerReceives(s)
    BY <2>4, FrameState DEF ServerReceives, Marks
  <2> QED
    BY <1>3, <2>1, <2>2, <2>3, <2>4 DEF HandlerNext
<1>4. ASSUME NEW s \in Session, LinkBreaks(s) \/ Connect(s) PROVE Marks
  BY <1>4, <1>0 DEF LinkBreaks, Connect
<1>5. ASSUME NEW m \in Cmd, AgentNext(m) \/ Expires(m) PROVE Marks
  BY <1>5, <1>0 DEF AgentNext, AgentIgnores, AgentRejects, AgentFindsExpired,
       AgentAccepts, AgentSendRaises, AgentStarts, AgentAbandons, AgentResponds,
       Expires, TTLPasses
<1>6. CASE Prune \/ AgentNotices \/ AgentRestarts \/ UNCHANGED vars
  BY <1>6, <1>0 DEF Prune, AgentNotices, AgentRestarts, vars
<1> QED
  BY <1>1, <1>2, <1>3, <1>4, <1>5, <1>6 DEF Next

(* What is new among the sends. *)
LEMMA SendsNext ==
    ASSUME TypeOK, CallsMatch, IdleIsAbsent, [Next]_vars,
           NEW x \in sends' \ sends
    PROVE  records[x.cmd] \in {"absent", "pending"}
<1> USE Types, NoneIsNeither DEF queueVars, serverVars
<1>1. ASSUME NEW m \in Cmd, CallNext(m) PROVE records[x.cmd] \in {"absent", "pending"}
  BY <1>1 DEF CallNext, Issue, IssueOffline, IssueOnline, BeginSend, CallAnswered,
              CallTimesOut, IdleIsAbsent
<1>2. ASSUME NEW y \in sends, SendReturns(y) \/ SendRaises(y) PROVE FALSE
  BY <1>2 DEF SendReturns, SendRaises
<1>3. ASSUME NEW s \in Session, HandlerNext(s)
      PROVE  records[x.cmd] \in {"absent", "pending"}
  BY <1>3 DEF HandlerNext, Register, AuthFails, StartDispatch, AckRaises,
              VisitExpired, VisitSkipped, VisitPending, BeginSend, DispatchDone,
              ServerReceives, ServerNotices
<1>4. ASSUME NEW s \in Session, LinkBreaks(s) \/ Connect(s) PROVE FALSE
  BY <1>4 DEF LinkBreaks, Connect
<1>5. ASSUME NEW m \in Cmd, AgentNext(m) \/ Expires(m) PROVE FALSE
  BY <1>5 DEF AgentNext, AgentIgnores, AgentRejects, AgentFindsExpired,
       AgentAccepts, AgentSendRaises, AgentStarts, AgentAbandons, AgentResponds,
       Expires
<1>6. CASE Prune \/ ServerRestarts \/ AgentNotices \/ AgentRestarts \/ UNCHANGED vars
  BY <1>6 DEF Prune, ServerRestarts, AgentNotices, AgentRestarts, vars
<1> QED
  BY <1>1, <1>2, <1>3, <1>4, <1>5, <1>6 DEF Next

QueueMatches == IdleIsAbsent /\ DiskIsCurrent

LEMMA QueueMatchesNext ==
    TypeOK /\ CallsMatch /\ QueueMatches /\ [Next]_vars => QueueMatches'
<1> SUFFICES ASSUME TypeOK, CallsMatch, QueueMatches, [Next]_vars PROVE QueueMatches'
  OBVIOUS
<1> USE Types DEF QueueMatches
<1>0. QueueTypeOK
  BY DEF TypeOK
<1>1. ASSUME NEW m \in Cmd, Issue(m) PROVE QueueMatches'
  <2>1. IdleIsAbsent'
    BY <1>1 DEF Issue, IssueOffline, IssueOnline, Enqueue, Persist, IdleIsAbsent
  <2>2. DiskIsCurrent'
    BY <1>1 DEF Issue, Enqueue, Persist, DiskIsCurrent
  <2> QED
    BY <2>1, <2>2
<1>2. CASE ServerRestarts
  BY <1>2 DEF ServerRestarts, Load, IdleIsAbsent, DiskIsCurrent
<1>3. CASE Marks
  <2>1. CASE UNCHANGED <<records, disk>>
    BY <1>3, <2>1 DEF Marks, IdleIsAbsent, DiskIsCurrent
  <2>2. CASE MarkedInStep
    BY <1>0, <1>3, <2>2, MarkEffect DEF Marks, MarkedInStep, IdleIsAbsent
  <2> QED
    BY <1>3, <2>1, <2>2 DEF Marks
<1> QED
  BY <1>1, <1>2, <1>3, RecordsNext

LEMMA QueueMatchesInvariant == Spec => []QueueMatches
<1>1. Init => QueueMatches
  BY DEF Init, QueueInit, QueueMatches, IdleIsAbsent, DiskIsCurrent
<1> QED
  BY <1>1, TypeInvariant, CallsMatchInvariant, QueueMatchesNext, PTL DEF Spec

(* Once a send has been confirmed the command is never pending again and   *)
(* never put on a connection again, not even by a server that restarts     *)
(* from its files (provided they could be written).                        *)
THEOREM SentOnce == Spec => NoRedispatch
<1>1. ASSUME TypeOK, CallsMatch, QueueMatches, [Next]_vars
      PROVE  [\A m \in Cmd :
                (~DiskMayFail /\ records[m] \notin {"absent", "pending"}) =>
                    /\ records'[m] # "pending"
                    /\ \A x \in sends' \ sends : x.cmd # m]_vars
  <2> SUFFICES ASSUME NEW m \in Cmd, ~DiskMayFail,
                      records[m] \notin {"absent", "pending"}
               PROVE  records'[m] # "pending" /\ \A x \in sends' \ sends : x.cmd # m
    OBVIOUS
  <2> USE <1>1
  <2>0. QueueTypeOK /\ IdleIsAbsent /\ disk = records
    BY DEF TypeOK, QueueMatches, DiskIsCurrent
  <2>1. \A x \in sends' \ sends : x.cmd # m
    BY <2>0, SendsNext
  <2>2. ASSUME NEW k \in Cmd, Issue(k) PROVE records'[m] # "pending"
    BY <2>0, <2>2, Types DEF Issue, Enqueue, IdleIsAbsent
  <2>3. ASSUME ServerRestarts PROVE records'[m] # "pending"
    BY <2>0, <2>3 DEF ServerRestarts, Load
  <2>4. ASSUME Marks PROVE records'[m] # "pending"
    <3>1. CASE UNCHANGED <<records, disk>>
      BY <3>1
    <3>2. CASE MarkedInStep
      <4>1. PICK k \in Cmd, st \in CmdState \ {"pending"} : Mark(k, st)
        BY <3>2 DEF MarkedInStep
      <4> QED
        BY <2>0, <4>1, MarkEffect
    <3> QED
      BY <2>4, <3>1, <3>2 DEF Marks
  <2> QED
    BY <2>1, <2>2, <2>3, <2>4, RecordsNext
<1> QED
  BY <1>1, TypeInvariant, CallsMatchInvariant, QueueMatchesInvariant, PTL
     DEF Spec, NoRedispatch

-----------------------------------------------------------------------------
(* The pending records.                                                    *)
(*                                                                         *)
(* NothingStranded says where the handler has to have got; the invariant   *)
(* says what holds on the way: a pending record is one the handler of the  *)
(* registered session has still to visit, or one whose send goes to that   *)
(* very session.  (A send to an earlier session may raise, and would leave *)
(* the record pending.)                                                    *)

TodoIsDispatched ==
    \A s \in Session :
        /\ todo[s] # {} => hand[s] = "dispatch"
        /\ link[s] = "unused" => hand[s] = "unused"

QueueIsVisited ==
    (active # None /\ hand[active] \in {"dispatch", "loop"} /\ link[active] = "up")
        => \A m \in Cmd : records[m] = "pending" =>
               \/ m \in todo[active]
               \/ \E x \in sends : x.cmd = m /\ x.via = active

Visited == TodoIsDispatched /\ QueueIsVisited

LEMMA TodoNext ==
    TypeOK /\ TodoIsDispatched /\ [Next]_vars => TodoIsDispatched'
<1> SUFFICES ASSUME TypeOK, TodoIsDispatched, [Next]_vars PROVE TodoIsDispatched'
  OBVIOUS
<1> USE Types DEF TodoIsDispatched
<1>0. ASSUME UNCHANGED <<todo, hand, link>> PROVE TodoIsDispatched'
  BY <1>0
<1>1. ASSUME NEW m \in Cmd, CallNext(m) \/ AgentNext(m) \/ Expires(m)
      PROVE  TodoIsDispatched'
  BY <1>1, <1>0
     DEF CallNext, Issue, CallAnswered, CallTimesOut, AgentNext, AgentIgnores,
         AgentRejects, AgentFindsExpired, AgentAccepts, AgentSendRaises,
         AgentStarts, AgentAbandons, AgentResponds, Expires, serverVars, linkVars
<1>2. ASSUME NEW x \in sends, SendReturns(x) \/ SendRaises(x) PROVE TodoIsDispatched'
  BY <1>2, <1>0 DEF SendReturns, SendRaises, linkVars
<1>3. ASSUME NEW s \in Session, HandlerNext(s) PROVE TodoIsDispatched'
  <2>1. CASE Register(s) \/ AuthFails(s) \/ AckRaises(s) \/ StartDispatch(s)
             \/ DispatchDone(s) \/ ServerNotices(s)
    BY ZenonT(40), <2>1 DEF Register, AuthFails, AckRaises, StartDispatch, DispatchDone,
                ServerNotices, linkVars
  <2>2. ASSUME NEW m \in Cmd,
               VisitExpired(s, m) \/ VisitSkipped(s, m) \/ VisitPending(s, m)
        PROVE  TodoIsDispatched'
    BY <2>2 DEF VisitExpired, VisitSkipped, VisitPending, Visiting, linkVars
  <2>3. CASE ServerReceives(s)
    BY <2>3, <1>0 DEF ServerReceives
  <2> QED
    BY <1>3, <2>1, <2>2, <2>3 DEF HandlerNext
<1>4. ASSUME NEW s \in Session, LinkBreaks(s) \/ Connect(s) PROVE TodoIsDispatched'
  BY <1>4 DEF LinkBreaks, Connect, serverVars
<1>5. CASE Prune \/ ServerRestarts \/ AgentNotices \/ AgentRestarts \/ UNCHANGED vars
  BY <1>5, <1>0 DEF Prune, ServerRestarts, AgentNotices, AgentRestarts, vars, serverVars,
                   linkVars
<1> QED
  BY <1>1, <1>2, <1>3, <1>4, <1>5 DEF Next

LEMMA QueueIsVisitedNext ==
    TypeOK /\ QueueIsVisited /\ [Next]_vars => QueueIsVisited'
<1> SUFFICES ASSUME TypeOK, QueueIsVisited, [Next]_vars PROVE QueueIsVisited'
  OBVIOUS
<1> USE Types, NoneIsNeither DEF QueueIsVisited, queueVars, serverVars, linkVars
<1>0. QueueTypeOK
  BY DEF TypeOK
<1>a. ASSUME UNCHANGED <<records, active, hand, todo, sends, link>>
      PROVE  QueueIsVisited'
  BY <1>a
<1>b. ASSUME active' = None PROVE QueueIsVisited'
  BY <1>b
<1>1. ASSUME NEW m \in Cmd, Issue(m) PROVE QueueIsVisited'
  <2>1. CASE IssueOffline(m)
    BY <1>1, <1>b, <2>1 DEF Issue, IssueOffline
  <2>2. CASE IssueOnline(m)
    <3> DEFINE new == [cmd |-> m, via |-> active, by |-> None]
    <3>1. sends' = sends \cup {new} /\ new.cmd = m /\ new.via = active
      BY <2>2 DEF IssueOnline, BeginSend
    <3>2. \A k \in Cmd : k # m => records'[k] = records[k]
      BY <1>1 DEF Issue, Enqueue
    <3> HIDE DEF new
    <3> QED
      BY <1>1, <3>1, <3>2 DEF Issue
  <2> QED
    BY <1>1, <2>1, <2>2 DEF Issue
<1>2. ASSUME NEW m \in Cmd, CallAnswered(m) \/ CallTimesOut(m) PROVE QueueIsVisited'
  BY <1>2, <1>a DEF CallAnswered, CallTimesOut
<1>3. ASSUME NEW x \in sends, SendReturns(x) PROVE QueueIsVisited'
  <2>1. \A k \in Cmd : records'[k] = "pending" => records[k] = "pending" /\ k # x.cmd
    <3>1. Mark(x.cmd, "sent") /\ x.cmd \in Cmd
      BY <1>3 DEF SendReturns
    <3>2. /\ \A k \in Cmd : k # x.cmd => records'[k] = records[k]
          /\ records'[x.cmd] # "pending"
      BY <3>1 DEF Mark
    <3> QED
      BY <3>1, <3>2
  <2> QED
    BY <1>3, <2>1 DEF SendReturns
<1>4. ASSUME NEW x \in sends, SendRaises(x) PROVE QueueIsVisited'
  BY <1>4 DEF SendRaises
<1>5. ASSUME NEW s \in Session, HandlerNext(s) PROVE QueueIsVisited'
  <2>1. CASE Register(s) \/ AuthFails(s) \/ AckRaises(s) \/ DispatchDone(s)
    BY <2>1 DEF Register, AuthFails, AckRaises, DispatchDone
  <2>2. CASE StartDispatch(s)
    <3>1. \A k \in Cmd : records[k] = "pending" => k \in NonTerminal
      BY DEF NonTerminal, Terminal
    <3> QED
      BY <2>2, <3>1 DEF StartDispatch
  <2>3. ASSUME NEW m \in Cmd, VisitExpired(s, m) PROVE QueueIsVisited'
    <3>1. \A k \in Cmd : records'[k] = "pending" => records[k] = "pending" /\ k # m
      BY <1>0, <2>3, MarkEffect DEF VisitExpired, Expire
    <3>2. todo'[s] = todo[s] \ {m} /\ \A t \in Session \ {s} : todo'[t] = todo[t]
      BY <2>3 DEF VisitExpired, Visiting
    <3> QED
      BY <2>3, <3>1, <3>2 DEF VisitExpired
  <2>4. ASSUME NEW m \in Cmd, VisitSkipped(s, m) PROVE QueueIsVisited'
    BY <2>4 DEF VisitSkipped, Visiting
  <2>5. ASSUME NEW m \in Cmd, VisitPending(s, m) PROVE QueueIsVisited'
    <3> DEFINE new == [cmd |-> m, via |-> active, by |-> s]
    <3>1. sends' = sends \cup {new} /\ new.cmd = m /\ new.via = active
      BY <2>5 DEF VisitPending, BeginSend
    <3>2. todo'[s] = todo[s] \ {m} /\ \A t \in Session \ {s} : todo'[t] = todo[t]
      BY <2>5 DEF VisitPending, Visiting
    <3>3. UNCHANGED <<records, active, hand, link>>
      BY <2>5 DEF VisitPending
    <3> HIDE DEF new
    <3> QED
      BY ZenonT(40), <3>1, <3>2, <3>3
  <2>6. CASE ServerReceives(s)
    <3>1. \A k \in Cmd : records'[k] = "pending" => records[k] = "pending"
      BY <1>0, <2>6, FrameState, MarkEffect DEF MarkedInStep
    <3> QED
      BY <2>6, <3>1 DEF ServerReceives
  <2>7. CASE ServerNotices(s)
    BY <2>7, <1>b DEF ServerNotices
  <2> QED
    BY <1>5, <2>1, <2>2, <2>3, <2>4, <2>5, <2>6, <2>7 DEF HandlerNext
<1>6. ASSUME NEW s \in Session, LinkBreaks(s) \/ Connect(s) PROVE QueueIsVisited'
  BY <1>6 DEF LinkBreaks, Connect
<1>7. ASSUME NEW m \in Cmd, AgentNext(m) \/ Expires(m) PROVE QueueIsVisited'
  BY <1>7, <1>a DEF AgentNext, AgentIgnores, AgentRejects, AgentFindsExpired,
       AgentAccepts, AgentSendRaises, AgentStarts, AgentAbandons, AgentResponds,
       Expires, TTLPasses
<1>8. CASE Prune \/ ServerRestarts
  BY <1>8, <1>b DEF Prune, ServerRestarts
<1>9. CASE AgentNotices \/ UNCHANGED vars
  BY <1>9, <1>a DEF AgentNotices, vars
<1>10. CASE AgentRestarts
  BY <1>10 DEF AgentRestarts
<1> QED
  BY <1>1, <1>2, <1>3, <1>4, <1>5, <1>6, <1>7, <1>8, <1>9, <1>10 DEF Next, CallNext

(* While the registered session of the agent is up and its handler is past *)
(* dispatch_pending, no command is left behind in the queue: a record that *)
(* is pending is one whose send is under way.                              *)
THEOREM QueueIsServed == Spec => []NothingStranded
<1>1. Init => Visited
  BY DEF Init, Visited, TodoIsDispatched, QueueIsVisited
<1>2. TypeOK /\ Visited /\ [Next]_vars => Visited'
  BY TodoNext, QueueIsVisitedNext DEF Visited
<1>3. TypeOK /\ Visited => NothingStranded
  BY Types DEF Visited, TodoIsDispatched, QueueIsVisited, NothingStranded
<1> QED
  BY <1>1, <1>2, <1>3, TypeInvariant, PTL DEF Spec

-----------------------------------------------------------------------------
(* After the TTL.                                                          *)

(* What the agent has in hand before its start, it has accepted. *)
JobIsAccepted == \A m \in Cmd : Accepted(m) => m \in accepted

LEMMA JobIsAcceptedNext ==
    TypeOK /\ JobIsAccepted /\ [Next]_vars => JobIsAccepted'
<1> SUFFICES ASSUME TypeOK, JobIsAccepted, [Next]_vars PROVE JobIsAccepted'
  OBVIOUS
<1> USE NoneIsNeither DEF JobIsAccepted, Accepted, Idle, agentVars, history
<1>1. ASSUME NEW m \in Cmd, CallNext(m) \/ Expires(m) PROVE JobIsAccepted'
  BY <1>1 DEF CallNext, Issue, CallAnswered, CallTimesOut, Expires
<1>2. ASSUME NEW x \in sends, SendReturns(x) \/ SendRaises(x) PROVE JobIsAccepted'
  BY <1>2 DEF SendReturns, SendRaises
<1>3. ASSUME NEW s \in Session, HandlerNext(s) PROVE JobIsAccepted'
  BY <1>3 DEF HandlerNext, Register, AuthFails, StartDispatch, AckRaises,
              VisitExpired, VisitSkipped, VisitPending, DispatchDone,
              ServerReceives, ServerNotices
<1>4. ASSUME NEW s \in Session, LinkBreaks(s) \/ Connect(s) PROVE JobIsAccepted'
  BY <1>4 DEF LinkBreaks, Connect
<1>5. ASSUME NEW m \in Cmd, AgentNext(m) PROVE JobIsAccepted'
  BY <1>5 DEF AgentNext, AgentIgnores, AgentRejects, AgentFindsExpired,
       AgentAccepts, AgentSendRaises, AgentStarts, AgentAbandons, AgentResponds
<1>6. CASE Prune \/ ServerRestarts \/ AgentNotices \/ AgentRestarts \/ UNCHANGED vars
  BY <1>6 DEF Prune, ServerRestarts, AgentNotices, AgentRestarts, vars
<1> QED
  BY <1>1, <1>2, <1>3, <1>4, <1>5, <1>6 DEF Next

(* The agent never starts a command that it had not accepted by the time   *)
(* its TTL passed, and accepts none after it.                              *)
THEOREM ExpiredIsNotStarted == Spec => NoStartAfterExpiry
<1>1. Init => JobIsAccepted
  BY NoneIsNeither DEF Init, JobIsAccepted, Accepted, Idle
<1>2. ASSUME TypeOK, JobIsAccepted, [Next]_vars
      PROVE  [\A m \in late \ accepted : runs'[m] = runs[m] /\ m \notin accepted']_vars
  <2> SUFFICES ASSUME NEW m \in late \ accepted
               PROVE  runs'[m] = runs[m] /\ m \notin accepted'
    OBVIOUS
  <2>0. m \in Cmd /\ runs \in [Cmd -> Nat]
    BY <1>2 DEF TypeOK, QueueTypeOK
  <2>a. ASSUME UNCHANGED <<runs, accepted>>
        PROVE  runs'[m] = runs[m] /\ m \notin accepted'
    BY <2>a
  <2>1. ASSUME NEW k \in Cmd, AgentAccepts(k)
        PROVE  runs'[m] = runs[m] /\ m \notin accepted'
    BY <2>1 DEF AgentAccepts
  <2>2. ASSUME NEW k \in Cmd, AgentStarts(k)
        PROVE  runs'[m] = runs[m] /\ m \notin accepted'
    BY <1>2, <2>0, <2>2 DEF AgentStarts, JobIsAccepted, Accepted
  <2>3. ASSUME NEW k \in Cmd,
               CallNext(k) \/ Expires(k) \/ AgentIgnores(k) \/ AgentRejects(k)
               \/ AgentFindsExpired(k) \/ AgentSendRaises(k) \/ AgentAbandons(k)
               \/ AgentResponds(k)
        PROVE  UNCHANGED <<runs, accepted>>
    BY <2>3 DEF CallNext, Issue, CallAnswered, CallTimesOut, Expires, AgentIgnores,
                AgentRejects, AgentFindsExpired, AgentSendRaises, AgentAbandons,
                AgentResponds, history
  <2>4. ASSUME NEW x \in sends, SendReturns(x) \/ SendRaises(x)
        PROVE  UNCHANGED <<runs, accepted>>
    BY <2>4 DEF SendReturns, SendRaises, history
  <2>5. ASSUME NEW s \in Session, HandlerNext(s) \/ LinkBreaks(s) \/ Connect(s)
        PROVE  UNCHANGED <<runs, accepted>>
    BY <2>5 DEF HandlerNext, Register, AuthFails, StartDispatch, AckRaises,
                VisitExpired, VisitSkipped, VisitPending, DispatchDone,
                ServerReceives, ServerNotices, LinkBreaks, Connect, history
  <2>6. ASSUME Prune \/ ServerRestarts \/ AgentNotices \/ AgentRestarts
               \/ UNCHANGED vars
        PROVE  UNCHANGED <<runs, accepted>>
    BY <2>6 DEF Prune, ServerRestarts, AgentNotices, AgentRestarts, vars, history
  <2> QED
    BY <1>2, <2>a, <2>1, <2>2, <2>3, <2>4, <2>5, <2>6 DEF Next, AgentNext
<1> QED
  BY <1>1, <1>2, TypeInvariant, JobIsAcceptedNext, PTL DEF Spec, NoStartAfterExpiry

-----------------------------------------------------------------------------
(* The contract.                                                           *)
(*                                                                         *)
(* A step of the control plane is a step of CommandContract, or leaves its *)
(* variables alone, as long as no id has left the window of the agent.     *)
(* The state the mapping needs besides: no frame on its way to the agent   *)
(* is about a command that was not issued.                                 *)

Issued == {m \in Cmd : caller[m] # "idle"}
Current == {m \in Cmd : job = [cmd |-> m, phase |-> "accepted"]}

OnlyIssuedIsSent == \A s \in Session : \A i \in DOMAIN down[s] : down[s][i] \in Issued

(* Only Issue issues, one command. *)
LEMMA IssuedNext ==
    ASSUME TypeOK, CallsMatch, [Next]_vars
    PROVE  Issued' = Issued \/ \E m \in Cmd : Issue(m) /\ Issued' = Issued \cup {m}
<1> USE Types DEF Issued
<1>1. ASSUME NEW m \in Cmd, Issue(m) PROVE Issued' = Issued \cup {m}
  BY <1>1 DEF Issue, IssueOffline, IssueOnline
<1>2. ASSUME ServerRestarts PROVE Issued' = Issued
  BY <1>2 DEF ServerRestarts
<1>3. ASSUME Marks PROVE Issued' = Issued
  BY <1>3 DEF Marks
<1> QED
  BY <1>1, <1>2, <1>3, RecordsNext

(* Frames that are taken, dropped or added leave only issued ones. *)
LEMMA DownKept ==
    ASSUME TypeOK, OnlyIssuedIsSent, Issued \subseteq Issued',
           \A s \in Session : \/ down'[s] \in {down[s], <<>>}
                              \/ down[s] # <<>> /\ down'[s] = Tail(down[s])
    PROVE  OnlyIssuedIsSent'
<1> SUFFICES ASSUME NEW s \in Session, NEW i \in DOMAIN down'[s]
             PROVE  down'[s][i] \in Issued'
  BY DEF OnlyIssuedIsSent
<1>1. down[s] \in Seq(Cmd)
  BY Types
<1>2. CASE down'[s] = down[s]
  BY <1>2 DEF OnlyIssuedIsSent
<1>3. CASE down'[s] = Tail(down[s]) /\ down[s] # <<>>
  <2>1. i + 1 \in DOMAIN down[s] /\ down'[s][i] = down[s][i + 1]
    BY <1>1, <1>3
  <2> QED
    BY <2>1 DEF OnlyIssuedIsSent
<1>4. down'[s] # <<>>
  OBVIOUS
<1> QED
  BY <1>2, <1>3, <1>4

LEMMA DownAdded ==
    ASSUME TypeOK, OnlyIssuedIsSent, Issued \subseteq Issued',
           NEW s \in Session, NEW m \in Cmd, m \in Issued', ToAgent(s, m)
    PROVE  OnlyIssuedIsSent'
<1> SUFFICES ASSUME NEW t \in Session, NEW i \in DOMAIN down'[t]
             PROVE  down'[t][i] \in Issued'
  BY DEF OnlyIssuedIsSent
<1>1. down[t] \in Seq(Cmd) /\ down'[t] \in {down[t], Append(down[t], m)}
  BY Types DEF ToAgent
<1>2. (i \in DOMAIN down[t] /\ down'[t][i] = down[t][i]) \/ down'[t][i] = m
  <2>1. CASE down'[t] = down[t]
    BY <2>1
  <2>2. CASE down'[t] = Append(down[t], m)
    <3>1. i = Len(down[t]) + 1 \/ i \in 1..Len(down[t])
      BY <1>1, <2>2
    <3> QED
      BY <1>1, <2>2, <3>1
  <2> QED
    BY <1>1, <2>1, <2>2
<1> QED
  BY <1>2 DEF OnlyIssuedIsSent

LEMMA OnlyIssuedNext ==
    TypeOK /\ CallsMatch /\ QueueMatches /\ OnlyIssuedIsSent /\ [Next]_vars
        => OnlyIssuedIsSent'
<1> SUFFICES ASSUME TypeOK, CallsMatch, QueueMatches, OnlyIssuedIsSent, [Next]_vars
             PROVE  OnlyIssuedIsSent'
  OBVIOUS
<1> USE Types, NoneIsNeither DEF linkVars
<1>0. Issued \subseteq Issued'
  BY IssuedNext
<1>a. ASSUME UNCHANGED down PROVE OnlyIssuedIsSent'
  BY <1>a, <1>0, DownKept
<1>1. ASSUME NEW m \in Cmd, CallNext(m) PROVE OnlyIssuedIsSent'
  <2>1. CASE Issue(m)
    <3>1. m \in Issued'
      BY <2>1 DEF Issue, IssueOffline, IssueOnline, Issued
    <3>2. CASE IssueOffline(m)
      BY <3>2, <1>a DEF IssueOffline
    <3>3. CASE IssueOnline(m)
      BY <1>0, <3>1, <3>3, DownAdded DEF IssueOnline, BeginSend
    <3> QED
      BY <2>1, <3>2, <3>3 DEF Issue
  <2> QED
    BY <1>1, <1>a, <2>1 DEF CallNext, CallAnswered, CallTimesOut
<1>2. ASSUME NEW x \in sends, SendReturns(x) \/ SendRaises(x) PROVE OnlyIssuedIsSent'
  BY <1>2, <1>a DEF SendReturns, SendRaises
<1>3. ASSUME NEW s \in Session, HandlerNext(s) PROVE OnlyIssuedIsSent'
  <2>1. ASSUME NEW m \in Cmd, VisitPending(s, m) PROVE OnlyIssuedIsSent'
    <3>1. m \in Issued'
      BY <1>0, <2>1 DEF VisitPending, QueueMatches, IdleIsAbsent, Issued
    <3> QED
      BY <1>0, <2>1, <3>1, DownAdded DEF VisitPending, BeginSend
  <2> QED
    BY <1>3, <1>a, <2>1
       DEF HandlerNext, Register, AuthFails, StartDispatch, AckRaises, VisitExpired,
           VisitSkipped, DispatchDone, ServerReceives, ServerNotices
<1>4. ASSUME NEW s \in Session, LinkBreaks(s) \/ Connect(s) PROVE OnlyIssuedIsSent'
  BY <1>4, <1>a DEF LinkBreaks, Connect
<1>5. ASSUME NEW m \in Cmd, AgentNext(m) PROVE OnlyIssuedIsSent'
  <2>1. CASE \/ AgentIgnores(m) \/ AgentRejects(m) \/ AgentFindsExpired(m)
             \/ AgentAccepts(m)
    BY <1>0, <2>1, DownKept DEF AgentIgnores, AgentRejects, AgentFindsExpired,
                                AgentAccepts, Consume, Take
  <2>2. CASE AgentSendRaises(m) \/ AgentAbandons(m)
    BY <1>0, <2>2, DownKept DEF AgentSendRaises, AgentAbandons, SessionEnds
  <2> QED
    BY <1>5, <1>a, <2>1, <2>2 DEF AgentNext, AgentStarts, AgentResponds
<1>6. ASSUME NEW m \in Cmd, Expires(m) PROVE OnlyIssuedIsSent'
  BY <1>6, <1>a DEF Expires
<1>7. CASE AgentNotices \/ AgentRestarts
  BY <1>0, <1>7, DownKept DEF AgentNotices, SessionEnds, AgentRestarts
<1>8. CASE Prune \/ ServerRestarts \/ UNCHANGED vars
  BY <1>8, <1>a DEF Prune, ServerRestarts, vars
<1> QED
  BY <1>1, <1>2, <1>3, <1>4, <1>5, <1>6, <1>7, <1>8 DEF Next

LEMMA OnlyIssuedInvariant == Spec => []OnlyIssuedIsSent
<1>1. Init => OnlyIssuedIsSent
  BY DEF Init, OnlyIssuedIsSent
<1> QED
  BY <1>1, TypeInvariant, CallsMatchInvariant, QueueMatchesInvariant, OnlyIssuedNext,
     PTL DEF Spec

(* Whatever the server writes in its records is a report of the contract,  *)
(* when nothing else changes: a record that is justified is backed.        *)
LEMMA Reported ==
    ASSUME TypeOK', Justified', Issued' = Issued,
           UNCHANGED <<late, dedup, accepted, refused, runs>>, Current' = Current
    PROVE  Contract!Report
<1>1. records' \in [Cmd -> Contract!State]
  BY DEF TypeOK, QueueTypeOK, CmdState, Terminal, Contract!State
<1>2. ASSUME NEW m \in Cmd PROVE Contract!Backed(m, records'[m])
  <2>1. Backed(m, records'[m])
    BY DEF Justified, Backed
  <2>2. records'[m] \in Contract!State
    BY <1>1
  <2> QED
    BY <2>1, <2>2 DEF Backed, Contract!Backed, Contract!State
<1>3. Seen' = Seen
  BY DEF Seen
<1> QED
  BY <1>1, <1>2, <1>3 DEF Contract!Report, Issued, Current

(* A new id joins the window, and nothing leaves it. *)
LEMMA RememberDecides ==
    ASSUME TypeOK, NEW m \in Cmd, Remember(m), evicted' = {}
    PROVE  m \notin Seen /\ Seen' = Seen \cup {m}
<1>1. dedup \in Seq(Cmd) /\ dedup' = Append(dedup, m) /\ m \notin Seen
  BY ControlAssumption DEF TypeOK, Remember
<1>2. Len(dedup') = Len(dedup) + 1 /\ dedup'[Len(dedup) + 1] = m
  BY <1>1
<1>3. \A i \in DOMAIN dedup : i \in DOMAIN dedup' /\ dedup'[i] = dedup[i]
  BY <1>1
<1>4. \A i \in DOMAIN dedup' : i \in DOMAIN dedup \/ i = Len(dedup) + 1
  BY <1>1
<1>5. Len(dedup) + 1 \in DOMAIN dedup'
  BY <1>1
<1> QED
  BY <1>1, <1>2, <1>3, <1>4, <1>5 DEF Seen

(* The steps of the agent. *)
LEMMA AgentImplements ==
    ASSUME TypeOK, TypeOK', Justified', CallsMatch, OnlyIssuedIsSent, evicted' = {},
           [Next]_vars, NEW m \in Cmd, AgentNext(m)
    PROVE  Contract!Next
<1> USE Types, NoneIsNeither
<1>0. Issued' = Issued /\ UNCHANGED <<records, late>>
  BY DEF AgentNext, AgentIgnores, AgentRejects, AgentFindsExpired, AgentAccepts,
         AgentSendRaises, AgentStarts, AgentAbandons, AgentResponds, queueVars,
         serverVars, Issued
<1>1. ASSUME Take(m) PROVE m \in Issued /\ Current = {} /\ job = Idle
  <2>1. down[cli] # <<>> /\ cli \in Session /\ m = Head(down[cli]) /\ job = Idle
    BY <1>1 DEF Take, TypeOK
  <2>2. 1 \in DOMAIN down[cli] /\ Head(down[cli]) = down[cli][1]
    BY <2>1
  <2> QED
    BY <2>1, <2>2 DEF OnlyIssuedIsSent, Current, Idle
<1>2. ASSUME Take(m), Remember(m) PROVE Contract!Decide(m) <=> UNCHANGED runs
  BY <1>0, <1>1, <1>2, RememberDecides DEF Contract!Decide, Issued, Current
<1>3. CASE AgentIgnores(m)
  <2>1. Current' = Current
    BY <1>3 DEF AgentIgnores, agentVars, Current
  <2> QED
    BY <1>0, <1>3, <2>1, Reported DEF AgentIgnores, agentVars, history, Contract!Next
<1>4. CASE AgentRejects(m)
  <2>1. Current' = Current
    BY <1>4 DEF AgentRejects, Current
  <2>2. Contract!Refuse(m)
    BY <1>2, <1>4, <2>1 DEF AgentRejects, Contract!Refuse, Current
  <2> QED
    BY <2>2 DEF Contract!Next
<1>5. CASE AgentFindsExpired(m) \/ AgentSendRaises(m)
  <2>1. Current' = Current
    BY <1>5 DEF AgentFindsExpired, AgentSendRaises, Current
  <2>2. Contract!Discard(m)
    BY <1>2, <1>5, <2>1
       DEF AgentFindsExpired, AgentSendRaises, Contract!Discard, Current
  <2> QED
    BY <2>2 DEF Contract!Next
<1>6. CASE AgentAccepts(m)
  <2>1. Current' = {m}
    BY <1>6 DEF AgentAccepts, Current
  <2>2. Contract!TakeOn(m)
    BY <1>2, <1>6, <2>1 DEF AgentAccepts, Contract!TakeOn, Current
  <2> QED
    BY <2>2 DEF Contract!Next
<1>7. CASE AgentStarts(m)
  <2>1. m \in Current /\ Current' = {}
    BY <1>7 DEF AgentStarts, Current
  <2>2. Seen' = Seen
    BY <1>7 DEF AgentStarts, Seen
  <2>3. Contract!Start(m)
    BY <1>0, <1>7, <2>1, <2>2 DEF AgentStarts, Contract!Start, Issued, Current
  <2> QED
    BY <2>3 DEF Contract!Next
<1>8. CASE AgentAbandons(m)
  <2>1. Current' = {} /\ Seen' = Seen
    BY <1>8 DEF AgentAbandons, Current, Idle, Seen
  <2>2. Contract!GiveUp
    BY <1>0, <1>8, <2>1 DEF AgentAbandons, history, Contract!GiveUp, Issued, Current
  <2> QED
    BY <2>2 DEF Contract!Next
<1>9. CASE AgentResponds(m)
  <2>1. Current' = Current
    BY <1>9 DEF AgentResponds, Current, Idle
  <2> QED
    BY <1>0, <1>9, <2>1, Reported DEF AgentResponds, history, Contract!Next
<1> QED
  BY <1>3, <1>4, <1>5, <1>6, <1>7, <1>8, <1>9 DEF AgentNext

(* Every step, as long as no id leaves the window. *)
LEMMA StepImplements ==
    ASSUME TypeOK, TypeOK', Justified', CallsMatch, QueueMatches, OnlyIssuedIsSent,
           evicted' = {}, [Next]_vars
    PROVE  [Contract!Next]_(Contract!vars)
<1> USE Types, NoneIsNeither DEF history
<1>0. ASSUME Issued' = Issued, Current' = Current,
             UNCHANGED <<late, dedup, accepted, refused, runs>>
      PROVE  Contract!Next
  BY <1>0, Reported DEF Contract!Next
<1>c. ASSUME UNCHANGED job PROVE Current' = Current
  BY <1>c DEF Current
<1>1. ASSUME NEW m \in Cmd, Issue(m) PROVE Contract!Next
  <2>1. m \notin Issued /\ Issued' = Issued \cup {m}
    BY <1>1 DEF Issue, IssueOffline, IssueOnline, Issued
  <2>2. /\ records' = [records EXCEPT ![m] = "pending"]
        /\ Seen' = Seen /\ Current' = Current
        /\ UNCHANGED <<late, accepted, refused, runs>>
    BY <1>1 DEF Issue, Enqueue, agentVars, Seen, Current
  <2>3. Contract!Issue(m)
    BY <2>1, <2>2 DEF Contract!Issue, Issued, Current
  <2> QED
    BY <2>3 DEF Contract!Next
<1>2. ASSUME NEW m \in Cmd, Expires(m) PROVE Contract!Next
  <2>1. m \in Issued /\ Issued' = Issued
    BY <1>2 DEF Expires, serverVars, Issued
  <2>2. /\ late' = late \cup {m}
        /\ Seen' = Seen /\ Current' = Current
        /\ UNCHANGED <<records, accepted, refused, runs>>
    BY <1>2 DEF Expires, TTLPasses, agentVars, Seen, Current
  <2>3. Contract!Lapse(m)
    BY <2>1, <2>2 DEF Contract!Lapse, Issued, Current
  <2> QED
    BY <2>3 DEF Contract!Next
<1>3. CASE AgentRestarts
  <2>1. Seen' = {} /\ Current' = {} /\ Issued' = Issued
    BY <1>3 DEF AgentRestarts, Seen, Current, Idle, serverVars, Issued
  <2>2. Contract!AgentReboots
    BY <1>3, <2>1 DEF AgentRestarts, queueVars, Contract!AgentReboots, Issued, Current
  <2> QED
    BY <2>2 DEF Contract!Next
<1>4. ASSUME ~(\E m \in Cmd : Issue(m)),
             UNCHANGED <<late, job, dedup, accepted, refused, runs>>
      PROVE  Contract!Next
  BY <1>0, <1>c, <1>4, IssuedNext
<1>5. ASSUME ~(\E m \in Cmd : Issue(m)),
             ~(\E m \in Cmd : Expires(m) \/ AgentNext(m)), ~AgentRestarts
      PROVE  UNCHANGED <<late, job, dedup, accepted, refused, runs>>
  <2> USE DEF agentVars, queueVars
  <2>1. ASSUME NEW m \in Cmd, CallNext(m)
        PROVE  UNCHANGED <<late, job, dedup, accepted, refused, runs>>
    BY <1>5, <2>1 DEF CallNext, CallAnswered, CallTimesOut
  <2>2. ASSUME NEW x \in sends, SendReturns(x) \/ SendRaises(x)
        PROVE  UNCHANGED <<late, job, dedup, accepted, refused, runs>>
    BY <2>2 DEF SendReturns, SendRaises, Mark
  <2>3. ASSUME NEW s \in Session, HandlerNext(s)
        PROVE  UNCHANGED <<late, job, dedup, accepted, refused, runs>>
    BY <2>3 DEF HandlerNext, Register, AuthFails, StartDispatch, AckRaises,
                VisitExpired, VisitSkipped, VisitPending, DispatchDone,
                ServerReceives, ServerNotices, Expire, Mark
  <2>4. ASSUME NEW s \in Session, LinkBreaks(s) \/ Connect(s)
        PROVE  UNCHANGED <<late, job, dedup, accepted, refused, runs>>
    BY <2>4 DEF LinkBreaks, Connect
  <2>5. ASSUME Prune \/ ServerRestarts \/ AgentNotices \/ UNCHANGED vars
        PROVE  UNCHANGED <<late, job, dedup, accepted, refused, runs>>
    BY <2>5 DEF Prune, ServerRestarts, Load, AgentNotices, vars
  <2> QED
    BY <1>5, <2>1, <2>2, <2>3, <2>4, <2>5 DEF Next
<1> QED
  BY <1>1, <1>2, <1>3, <1>4, <1>5, AgentImplements

LEMMA ContractInit == Init => Contract!Init
BY NoneIsNeither DEF Init, QueueInit, Contract!Init, Seen, Idle

(* The control plane implements the contract in every behaviour in which   *)
(* no id leaves the window of _is_duplicate_message: the agent decides on  *)
(* a command at most once per life of its process and takes none on after  *)
(* its TTL, and the server reports only what happened.                     *)
THEOREM ContractIsKept == Spec /\ [](evicted = {}) => ImplementsContract
<1>1. TypeOK /\ CallsMatch /\ QueueMatches /\ OnlyIssuedIsSent /\ [Next]_vars
      /\ TypeOK' /\ Justified' /\ (evicted = {})'
        => [Contract!Next]_(Contract!vars)
  BY StepImplements
<1> QED
  BY <1>1, ContractInit, TypeInvariant, CallsMatchInvariant, QueueMatchesInvariant,
     OnlyIssuedInvariant, ClaimsAreJustified, PTL
     DEF Spec, ImplementsContract, Contract!Spec

(* An id leaves the window only when it is full of other ids: never, when  *)
(* it has room for all that are issued.                                    *)

WindowIsWide ==
    MaxCmd <= DedupMax => Cardinality(Seen) = Len(dedup) /\ evicted = {}

LEMMA SeenIsFinite ==
    ASSUME TypeOK
    PROVE  /\ Seen \subseteq Cmd /\ IsFiniteSet(Seen) /\ Cardinality(Seen) \in Nat
           /\ IsFiniteSet(Cmd) /\ Cardinality(Cmd) = MaxCmd
<1>1. Seen \subseteq Cmd
  BY DEF TypeOK, Seen
<1>2. IsFiniteSet(Cmd) /\ Cardinality(Cmd) = MaxCmd
  BY MaxCmdAssumption, FS_Interval DEF Cmd
<1>3. IsFiniteSet(Seen)
  BY <1>1, <1>2, FS_Subset
<1> QED
  BY <1>1, <1>2, <1>3, FS_CardinalityType

LEMMA WindowNext ==
    TypeOK /\ WindowIsWide /\ [Next]_vars => WindowIsWide'
<1> SUFFICES ASSUME TypeOK, WindowIsWide, [Next]_vars, MaxCmd <= DedupMax
             PROVE  Cardinality(Seen') = Len(dedup') /\ evicted' = {}
  BY DEF WindowIsWide
<1> DEFINE Wide == Cardinality(Seen') = Len(dedup') /\ evicted' = {}
<1>0. Cardinality(Seen) = Len(dedup) /\ evicted = {} /\ dedup \in Seq(Cmd)
  BY DEF WindowIsWide, TypeOK
<1>a. ASSUME UNCHANGED <<dedup, evicted>> PROVE Wide
  BY <1>0, <1>a DEF Seen
<1>1. ASSUME NEW m \in Cmd, Remember(m) PROVE Wide
  <2>1. m \notin Seen
    BY <1>1 DEF Remember
  <2>2. Cardinality(Seen \cup {m}) = Len(dedup) + 1
    BY <1>0, <2>1, SeenIsFinite, FS_AddElement
  <2>3. Seen \cup {m} \subseteq Cmd
    BY SeenIsFinite
  <2>4. Cardinality(Seen \cup {m}) <= MaxCmd
    BY <2>3, SeenIsFinite, FS_Subset
  <2>5. Len(dedup) < DedupMax
    BY <1>0, <2>2, <2>4, MaxCmdAssumption, ControlAssumption
  <2>6. evicted' = evicted /\ dedup' = Append(dedup, m)
    BY <1>0, <1>1, <2>5, ControlAssumption DEF Remember
  <2>7. Seen' = Seen \cup {m}
    BY <1>0, <1>1, <2>6, RememberDecides
  <2> QED
    BY <1>0, <2>2, <2>6, <2>7
<1>2. CASE AgentRestarts
  <2>1. dedup' = <<>> /\ Seen' = {} /\ evicted' = evicted
    BY <1>2 DEF AgentRestarts, Seen, history
  <2> QED
    BY <1>0, <2>1, FS_EmptySet
<1>3. ASSUME NEW m \in Cmd, AgentNext(m) PROVE Wide
  BY <1>3, <1>a, <1>1 DEF AgentNext, AgentIgnores, AgentRejects, AgentFindsExpired,
       AgentAccepts, AgentSendRaises, AgentStarts, AgentAbandons, AgentResponds,
       agentVars, history
<1>4. ASSUME NEW m \in Cmd, CallNext(m) \/ Expires(m) PROVE Wide
  BY <1>4, <1>a DEF CallNext, Issue, CallAnswered, CallTimesOut, Expires,
       agentVars, history
<1>5. ASSUME NEW x \in sends, SendReturns(x) \/ SendRaises(x) PROVE Wide
  BY <1>5, <1>a DEF SendReturns, SendRaises, agentVars, history
<1>6. ASSUME NEW s \in Session, HandlerNext(s) \/ LinkBreaks(s) \/ Connect(s)
      PROVE  Wide
  BY <1>6, <1>a
     DEF HandlerNext, Register, AuthFails, StartDispatch, AckRaises, VisitExpired,
         VisitSkipped, VisitPending, DispatchDone, ServerReceives, ServerNotices,
         LinkBreaks, Connect, agentVars, history
<1>7. CASE Prune \/ ServerRestarts \/ AgentNotices \/ UNCHANGED vars
  BY <1>7, <1>a DEF Prune, ServerRestarts, AgentNotices, vars, agentVars, history
<1> QED
  BY <1>2, <1>3, <1>4, <1>5, <1>6, <1>7 DEF Next

(* With a window that has room for every command issued, the control plane *)
(* implements the contract, whatever breaks, restarts or is delayed.       *)
THEOREM WideWindowKeepsContract ==
    ASSUME MaxCmd <= DedupMax
    PROVE  Spec => ImplementsContract
<1>1. Init => WindowIsWide
  <2>1. ASSUME Init PROVE Seen = {} /\ dedup = <<>> /\ evicted = {}
    BY <2>1 DEF Init, Seen
  <2> QED
    BY <2>1, FS_EmptySet DEF WindowIsWide
<1>2. WindowIsWide => evicted = {}
  BY DEF WindowIsWide
<1> QED
  BY <1>1, <1>2, TypeInvariant, WindowNext, ContractIsKept, PTL DEF Spec
=============================================================================
