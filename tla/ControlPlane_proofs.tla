------------------------ MODULE ControlPlane_proofs -------------------------
(***************************************************************************)
(* Proofs, for every value of the constants, of safety properties of       *)
(* ControlPlane.                                                           *)
(***************************************************************************)
EXTENDS ControlPlaneProperties, TLAPS

(* The sessions and commands are positive numbers; None is neither. *)
LEMMA NoneIsNeither ==
    /\ None \notin Session
    /\ None \notin Cmd
    /\ Session \subseteq Nat
    /\ Cmd \subseteq Nat
BY ControlAssumption, MaxCmdAssumption DEF None, Session, Cmd

-----------------------------------------------------------------------------
(* Type correctness.                                                       *)

LEMMA TypeInit == Init => TypeOK
BY ControlAssumption, MaxCmdAssumption
   DEF Init, QueueInit, TypeOK, QueueTypeOK, Cmd, CmdState, Session, None, HandState,
       CallState, Job, Idle

(* mark, enqueue and a restart leave every record and file in a state of   *)
(* the life cycle.                                                         *)
LEMMA MarkTyped ==
    ASSUME QueueTypeOK, NEW m \in Cmd, NEW st \in CmdState, Mark(m, st)
    PROVE  QueueTypeOK'
BY DEF QueueTypeOK, Mark, Persist, queueVars

LEMMA EnqueueTyped ==
    ASSUME QueueTypeOK, NEW m \in Cmd, Enqueue(m)
    PROVE  QueueTypeOK'
BY DEF QueueTypeOK, Enqueue, Persist, CmdState

(* A frame joins the right queue. *)
LEMMA ToAgentTyped ==
    ASSUME down \in [Session -> Seq(Cmd)], NEW s \in Session, NEW m \in Cmd,
           ToAgent(s, m)
    PROVE  down' \in [Session -> Seq(Cmd)]
BY DEF ToAgent

LEMMA ToServerTyped ==
    ASSUME up \in [Session -> Seq(Frame)], NEW s \in Session, NEW m \in Cmd,
           NEW kind \in FrameKind, ToServer(s, m, kind)
    PROVE  up' \in [Session -> Seq(Frame)]
<1>1. [cmd |-> m, kind |-> kind] \in Frame
  BY DEF Frame
<1> QED
  BY <1>1 DEF ToServer

LEMMA RememberTyped ==
    ASSUME dedup \in Seq(Cmd), evicted \subseteq Cmd, NEW m \in Cmd, Remember(m)
    PROVE  dedup' \in Seq(Cmd) /\ evicted' \subseteq Cmd
<1>1. CASE Len(dedup) < DedupMax
  BY <1>1, ControlAssumption DEF Remember
<1>2. CASE Len(dedup) >= DedupMax
  <2>1. dedup # <<>>
    BY <1>2, ControlAssumption
  <2>2. Tail(dedup) \in Seq(Cmd) /\ Head(dedup) \in Cmd
    BY <2>1
  <2> QED
    BY <1>2, <2>2, ControlAssumption DEF Remember
<1> QED
  BY <1>1, <1>2, ControlAssumption

(* TypeOK is not inductive: the agent writes its frames to the session     *)
(* "cli", which must exist while it is busy.                               *)
JobHasSession == job # Idle => cli # None

LEMMA JobHasSessionNext ==
    TypeOK /\ JobHasSession /\ [Next]_vars => JobHasSession'
<1> SUFFICES ASSUME TypeOK, JobHasSession, [Next]_vars PROVE JobHasSession'
  OBVIOUS
<1> USE NoneIsNeither DEF JobHasSession, agentVars
<1>1. ASSUME NEW m \in Cmd, CallNext(m) \/ Expires(m) PROVE JobHasSession'
  BY <1>1 DEF CallNext, Issue, CallAnswered, CallTimesOut, Expires
<1>2. ASSUME NEW x \in sends, SendReturns(x) \/ SendRaises(x) PROVE JobHasSession'
  BY <1>2 DEF SendReturns, SendRaises
<1>3. ASSUME NEW s \in Session, HandlerNext(s) PROVE JobHasSession'
  BY <1>3 DEF HandlerNext, Register, AuthFails, StartDispatch, AckRaises,
              VisitExpired, VisitSkipped, VisitPending, DispatchDone,
              ServerReceives, ServerNotices
<1>4. ASSUME NEW s \in Session, LinkBreaks(s) \/ Connect(s) PROVE JobHasSession'
  BY <1>4 DEF LinkBreaks, Connect
<1>5. CASE Prune \/ ServerRestarts
  BY <1>5 DEF Prune, ServerRestarts
<1>6. ASSUME NEW m \in Cmd, AgentNext(m) PROVE JobHasSession'
  BY <1>6 DEF AgentNext, AgentIgnores, AgentRejects, AgentFindsExpired, AgentAccepts,
              AgentSendRaises, AgentStarts, AgentAbandons, AgentResponds, Take, Idle
<1>7. CASE AgentNotices \/ AgentRestarts
  BY <1>7 DEF AgentNotices, AgentRestarts
<1>8. CASE UNCHANGED vars
  BY <1>8 DEF vars
<1> QED
  BY <1>1, <1>2, <1>3, <1>4, <1>5, <1>6, <1>7, <1>8 DEF Next

LEMMA SessionEndsTyped ==
    ASSUME down \in [Session -> Seq(Cmd)], SessionEnds
    PROVE  down' \in [Session -> Seq(Cmd)] /\ cli' = None
<1> DEFINE empty == <<>>
<1>1. empty \in Seq(Cmd)
  OBVIOUS
<1>2. down' = [down EXCEPT ![cli] = empty]
  BY DEF SessionEnds
<1> HIDE DEF empty
<1>3. down' \in [Session -> Seq(Cmd)]
  BY <1>1, <1>2
<1> QED
  BY <1>3 DEF SessionEnds

(* Every step keeps the types. *)
LEMMA TypeNext == TypeOK /\ JobHasSession /\ [Next]_vars => TypeOK'
<1> SUFFICES ASSUME TypeOK, JobHasSession, [Next]_vars PROVE TypeOK'
  OBVIOUS
<1> USE NoneIsNeither DEF TypeOK, serverVars, linkVars, agentVars, history, bounds
<1>1. ASSUME NEW m \in Cmd, CallNext(m) PROVE TypeOK'
  <2>1. CASE Issue(m)
    <3>1. QueueTypeOK'
      BY <2>1, EnqueueTyped DEF Issue
    <3>2. CASE IssueOffline(m)
      BY <2>1, <3>1, <3>2 DEF Issue, IssueOffline, CallState
    <3>3. CASE IssueOnline(m)
      <4>1. active \in Session /\ ToAgent(active, m)
        BY <3>3 DEF IssueOnline, BeginSend
      <4>2. sends' \subseteq Send
        BY <3>3, <4>1 DEF IssueOnline, BeginSend, Send
      <4>3. down' \in [Session -> Seq(Cmd)]
        BY <4>1, ToAgentTyped
      <4> QED
        BY <2>1, <3>1, <3>3, <4>2, <4>3 DEF Issue, IssueOnline, CallState
    <3> QED
      BY <2>1, <3>2, <3>3 DEF Issue
  <2>2. CASE CallAnswered(m)
    BY <2>2 DEF CallAnswered, CallState, queueVars, QueueTypeOK
  <2>3. CASE CallTimesOut(m)
    BY <2>3 DEF CallTimesOut, CallState, queueVars, QueueTypeOK
  <2> QED
    BY <1>1, <2>1, <2>2, <2>3 DEF CallNext
<1>2. ASSUME NEW x \in sends, SendReturns(x) PROVE TypeOK'
  <2>1. x.cmd \in Cmd /\ "sent" \in CmdState
    BY DEF Send, CmdState
  <2>2. QueueTypeOK'
    BY <1>2, <2>1, MarkTyped DEF SendReturns
  <2> QED
    BY <1>2, <2>1, <2>2 DEF SendReturns, CallState
<1>3. ASSUME NEW x \in sends, SendRaises(x) PROVE TypeOK'
  <2>1. x.cmd \in Cmd
    BY DEF Send
  <2>2. caller' \in [Cmd -> CallState]
    BY <1>3, <2>1 DEF SendRaises, CallState
  <2>3. fut' \in [Cmd -> {"none", "open", "set"}]
    BY <1>3, <2>1 DEF SendRaises
  <2> QED
    BY <1>3, <2>2, <2>3 DEF SendRaises, queueVars, QueueTypeOK
<1>4. ASSUME NEW s \in Session, HandlerNext(s) PROVE TypeOK'
  <2>1. CASE Register(s)
    BY <2>1 DEF Register, HandState, queueVars, QueueTypeOK
  <2>2. CASE AuthFails(s)
    BY <2>2 DEF AuthFails, HandState, queueVars, QueueTypeOK
  <2>3. CASE StartDispatch(s)
    <3>1. todo' \in [Session -> SUBSET Cmd]
      BY <2>3 DEF StartDispatch, NonTerminal
    <3>2. hand' \in [Session -> HandState]
      BY <2>3 DEF StartDispatch, HandState
    <3> QED
      BY <2>3, <3>1, <3>2 DEF StartDispatch, queueVars, QueueTypeOK
  <2>4. CASE AckRaises(s)
    BY <2>4 DEF AckRaises, HandState, queueVars, QueueTypeOK
  <2>5. ASSUME NEW m \in Cmd,
               VisitExpired(s, m) \/ VisitSkipped(s, m) \/ VisitPending(s, m)
        PROVE  TypeOK'
    <3>1. todo' \in [Session -> SUBSET Cmd]
      BY SMTT(30), <2>5 DEF VisitExpired, VisitSkipped, VisitPending, Visiting
    <3>2. CASE VisitExpired(s, m)
      <4>1. QueueTypeOK'
        BY <3>2, MarkTyped DEF VisitExpired, Expire, CmdState, Terminal
      <4> QED
        BY <3>1, <3>2, <4>1 DEF VisitExpired
    <3>3. CASE VisitSkipped(s, m)
      BY <3>1, <3>3 DEF VisitSkipped, queueVars, QueueTypeOK
    <3>4. CASE VisitPending(s, m)
      <4>1. active \in Session /\ ToAgent(active, m)
        BY <3>4 DEF VisitPending, BeginSend
      <4>2. sends' \subseteq Send
        BY <3>4, <4>1 DEF VisitPending, BeginSend, Send
      <4>3. down' \in [Session -> Seq(Cmd)]
        BY <4>1, ToAgentTyped
      <4> QED
        BY <3>1, <3>4, <4>2, <4>3 DEF VisitPending, queueVars, QueueTypeOK
    <3> QED
      BY <2>5, <3>2, <3>3, <3>4
  <2>6. CASE DispatchDone(s)
    BY <2>6 DEF DispatchDone, HandState, queueVars, QueueTypeOK
  <2>7. CASE ServerReceives(s)
    <3> DEFINE f == Head(up[s])
    <3>1. f \in Frame /\ Tail(up[s]) \in Seq(Frame)
      BY <2>7 DEF ServerReceives
    <3>2. f.cmd \in Cmd /\ f.kind \in FrameKind
      BY <3>1 DEF Frame
    <3>3. StateOf(f.kind) \in CmdState
      BY <3>2 DEF StateOf, FrameKind, CmdState, Terminal
    <3>4. Mark(f.cmd, StateOf(f.kind))
      BY <2>7 DEF ServerReceives
    <3>5. QueueTypeOK'
      BY <3>2, <3>3, <3>4, MarkTyped
    <3>6. fut' \in [Cmd -> {"none", "open", "set"}]
      BY <2>7 DEF ServerReceives
    <3>7. up' \in [Session -> Seq(Frame)]
      BY <2>7, <3>1 DEF ServerReceives
    <3> QED
      BY <2>7, <3>5, <3>6, <3>7 DEF ServerReceives
  <2>8. CASE ServerNotices(s)
    <3>1. up' \in [Session -> Seq(Frame)]
      BY <2>8 DEF ServerNotices
    <3> QED
      BY <2>8, <3>1 DEF ServerNotices, HandState, queueVars, QueueTypeOK
  <2> QED
    BY <1>4, <2>1, <2>2, <2>3, <2>4, <2>5, <2>6, <2>7, <2>8 DEF HandlerNext
<1>5. ASSUME NEW s \in Session, LinkBreaks(s) \/ Connect(s) PROVE TypeOK'
  BY <1>5 DEF LinkBreaks, Connect, HandState, queueVars, QueueTypeOK
<1>6. CASE Prune
  BY <1>6 DEF Prune, queueVars, QueueTypeOK
<1>7. CASE ServerRestarts
  BY <1>7, ControlAssumption
     DEF ServerRestarts, Load, HandState, CallState, QueueTypeOK
<1>8. ASSUME NEW m \in Cmd, AgentNext(m) PROVE TypeOK'
  <2> USE DEF queueVars, QueueTypeOK
  <2>1. ASSUME Take(m)
        PROVE  cli \in Session /\ Tail(down[cli]) \in Seq(Cmd)
    BY <2>1 DEF Take
  <2>2. ASSUME Take(m), Consume PROVE down' \in [Session -> Seq(Cmd)]
    BY <2>1, <2>2 DEF Consume
  <2>3. CASE AgentIgnores(m)
    BY <2>2, <2>3 DEF AgentIgnores
  <2>4. CASE AgentRejects(m)
    <3>1. up' \in [Session -> Seq(Frame)]
      BY <2>1, <2>4, ToServerTyped DEF AgentRejects, FrameKind
    <3> QED
      BY <2>2, <2>4, <3>1, RememberTyped DEF AgentRejects
  <2>5. CASE AgentFindsExpired(m)
    <3>1. up' \in [Session -> Seq(Frame)]
      BY <2>1, <2>5, ToServerTyped DEF AgentFindsExpired, FrameKind
    <3> QED
      BY <2>2, <2>5, <3>1, RememberTyped DEF AgentFindsExpired
  <2>6. CASE AgentAccepts(m)
    <3>1. up' \in [Session -> Seq(Frame)]
      BY <2>1, <2>6, ToServerTyped DEF AgentAccepts, FrameKind
    <3>2. job' \in Job
      BY <2>6 DEF AgentAccepts, Job
    <3> QED
      BY <2>2, <2>6, <3>1, <3>2, RememberTyped DEF AgentAccepts
  <2>7. CASE AgentSendRaises(m)
    BY <2>7, SessionEndsTyped, RememberTyped DEF AgentSendRaises
  <2>8. CASE AgentStarts(m)
    <3>0. cli \in Session
      BY <2>8 DEF AgentStarts, JobHasSession, Idle
    <3>1. up' \in [Session -> Seq(Frame)]
      BY <2>8, <3>0, ToServerTyped DEF AgentStarts, FrameKind
    <3>2. job' \in Job /\ runs' \in [Cmd -> Nat]
      BY <2>8 DEF AgentStarts, Job
    <3> QED
      BY <2>8, <3>1, <3>2 DEF AgentStarts
  <2>9. CASE AgentAbandons(m)
    BY <2>9, SessionEndsTyped DEF AgentAbandons, Job
  <2>10. CASE AgentResponds(m)
    <3>0. cli \in Session
      BY <2>10 DEF AgentResponds, JobHasSession, Idle
    <3>1. up' \in [Session -> Seq(Frame)]
      <4>1. PICK kind \in Outcomes : ToServer(cli, m, kind)
        BY <2>10 DEF AgentResponds
      <4>2. kind \in FrameKind
        BY ControlAssumption DEF FrameKind
      <4> QED
        BY <3>0, <4>1, <4>2, ToServerTyped
    <3> QED
      BY <2>10, <3>1 DEF AgentResponds, Job
  <2> QED
    BY <1>8, <2>3, <2>4, <2>5, <2>6, <2>7, <2>8, <2>9, <2>10 DEF AgentNext
<1>9. ASSUME NEW m \in Cmd, Expires(m) PROVE TypeOK'
  BY <1>9 DEF Expires, TTLPasses, QueueTypeOK
<1>10. CASE AgentNotices
  BY <1>10, SessionEndsTyped DEF AgentNotices, queueVars, QueueTypeOK
<1>11. CASE AgentRestarts
  BY SMTT(30), <1>11, ControlAssumption DEF AgentRestarts, Job, queueVars, QueueTypeOK
<1>12. CASE UNCHANGED vars
  BY <1>12 DEF vars, queueVars, QueueTypeOK
<1> QED
  BY <1>1, <1>2, <1>3, <1>4, <1>5, <1>6, <1>7, <1>8, <1>9, <1>10, <1>11, <1>12 DEF Next

LEMMA TypeInvariant == Spec => [](TypeOK /\ JobHasSession)
<1>1. Init => JobHasSession
  BY DEF Init, JobHasSession
<1> QED
  BY <1>1, TypeInit, TypeNext, JobHasSessionNext, PTL DEF Spec

(* Type correctness: the types of all the tables, queues and sessions of   *)
(* both processes hold in every reachable state.                           *)
THEOREM TypeCorrect == Spec => []TypeOK
BY TypeInvariant, PTL

-----------------------------------------------------------------------------
(* At most one execution per life of the agent process.                    *)
(*                                                                         *)
(* AtMostOncePerBoot is not inductive: it does not say that a command the  *)
(* agent has accepted and not started was not run before.  The             *)
(* strengthening accounts for it: what has been started, with what is      *)
(* about to be, never exceeds the earlier lives of the process and one     *)
(* more if the present one remembers the command.                          *)

Accepted(m) == job = [cmd |-> m, phase |-> "accepted"]

Accounted(m) ==
    runs[m] + (IF Accepted(m) THEN 1 ELSE 0) <= boots + (IF m \in Seen THEN 1 ELSE 0)

RunsAccounted == \A m \in Cmd \ evicted : Accounted(m)

LEMMA AccountedImplies ==
    TypeOK /\ RunsAccounted => AtMostOncePerBoot
<1> SUFFICES ASSUME TypeOK, RunsAccounted, NEW m \in Cmd \ evicted
             PROVE  runs[m] <= boots + 1
  BY DEF AtMostOncePerBoot
<1>1. runs[m] \in Nat /\ boots \in Nat
  BY ControlAssumption DEF TypeOK
<1> QED
  BY <1>1 DEF RunsAccounted, Accounted

(* The window of the agent: a new id is in it, and whatever leaves it is   *)
(* counted as evicted.                                                     *)
LEMMA RememberKeeps ==
    ASSUME dedup \in Seq(Cmd), NEW m \in Cmd, Remember(m)
    PROVE  /\ m \notin Seen
           /\ m \in Seen'
           /\ evicted \subseteq evicted'
           /\ \A k \in Seen : k \in Seen' \/ k \in evicted'
<1>1. CASE Len(dedup) < DedupMax
  <2>1. dedup' = Append(dedup, m) /\ evicted' = evicted /\ m \notin Seen
    BY <1>1, ControlAssumption DEF Remember
  <2>2. Len(dedup') = Len(dedup) + 1 /\ dedup'[Len(dedup) + 1] = m
    BY <2>1
  <2>3. \A i \in DOMAIN dedup : i \in DOMAIN dedup' /\ dedup'[i] = dedup[i]
    BY <2>1
  <2>4. Len(dedup) + 1 \in DOMAIN dedup'
    BY <2>1
  <2> QED
    BY <2>1, <2>2, <2>3, <2>4 DEF Seen
<1>2. CASE Len(dedup) >= DedupMax
  <2>0. dedup # <<>> /\ Len(dedup) \in Nat \ {0}
    BY <1>2, ControlAssumption
  <2>1. /\ dedup' = Append(Tail(dedup), m)
        /\ evicted' = evicted \cup {Head(dedup)}
        /\ m \notin Seen
    BY <1>2, ControlAssumption DEF Remember
  <2>2. /\ Tail(dedup) \in Seq(Cmd)
        /\ Len(Tail(dedup)) = Len(dedup) - 1
        /\ Head(dedup) = dedup[1]
        /\ \A i \in 1..(Len(dedup) - 1) : Tail(dedup)[i] = dedup[i + 1]
    BY <2>0
  <2>3. DOMAIN dedup' = 1..Len(dedup) /\ dedup'[Len(dedup)] = m
    BY <2>0, <2>1, <2>2
  <2>4. ASSUME NEW i \in DOMAIN dedup, i # 1
        PROVE  i - 1 \in DOMAIN dedup' /\ dedup'[i - 1] = dedup[i]
    <3>1. i \in Nat /\ i - 1 \in 1..(Len(dedup) - 1)
      BY <2>4, <2>0
    <3>2. Tail(dedup)[i - 1] = dedup[i]
      BY <3>1, <2>2
    <3> QED
      BY <3>1, <3>2, <2>0, <2>1, <2>2, <2>3
  <2>5. m \in Seen'
    BY <2>0, <2>3 DEF Seen
  <2>6. ASSUME NEW k \in Seen PROVE k \in Seen' \/ k \in evicted'
    <3>1. PICK i \in DOMAIN dedup : k = dedup[i]
      BY DEF Seen
    <3>2. CASE i = 1
      BY <3>1, <3>2, <2>1, <2>2
    <3>3. CASE i # 1
      BY <3>1, <3>3, <2>4 DEF Seen
    <3> QED
      BY <3>2, <3>3
  <2> QED
    BY <2>1, <2>5, <2>6
<1> QED
  BY <1>1, <1>2, ControlAssumption

LEMMA RunsAccountedNext ==
    TypeOK /\ JobHasSession /\ RunsAccounted /\ [Next]_vars => RunsAccounted'
<1> SUFFICES ASSUME TypeOK, RunsAccounted, [Next]_vars,
                    NEW k \in Cmd \ evicted'
             PROVE  Accounted(k)'
  BY DEF RunsAccounted
<1>0. runs \in [Cmd -> Nat] /\ boots \in Nat /\ dedup \in Seq(Cmd) /\ None \notin Cmd
  BY ControlAssumption, NoneIsNeither DEF TypeOK
<1>a. ASSUME UNCHANGED <<runs, boots, job, dedup, evicted>> PROVE Accounted(k)'
  BY <1>a DEF RunsAccounted, Accounted, Accepted, Seen
(* The command in hand is dropped: less is accounted for. *)
<1>b. ASSUME UNCHANGED <<runs, boots, dedup, evicted>>, job' = Idle
      PROVE  Accounted(k)'
  <2>1. ~Accepted(k)'
    BY <1>b, <1>0 DEF Accepted, Idle
  <2> QED
    BY <1>b, <1>0, <2>1 DEF RunsAccounted, Accounted, Seen
(* A new id enters the window, its command is not in hand. *)
<1>c. ASSUME NEW m \in Cmd, Remember(m), UNCHANGED <<runs, boots>>, job = Idle,
             job' = Idle \/ job' = [cmd |-> m, phase |-> "accepted"]
      PROVE  Accounted(k)'
  <2>1. /\ m \notin Seen /\ m \in Seen'
        /\ k \notin evicted
        /\ k \in Seen => k \in Seen'
    BY <1>0, <1>c, RememberKeeps
  <2>2. Accounted(k) /\ ~Accepted(k)
    BY <2>1, <1>c, <1>0 DEF RunsAccounted, Accepted, Idle
  <2>3. Accepted(k)' => k = m
    BY <1>c, <1>0 DEF Accepted, Idle
  <2> QED
    BY <1>0, <1>c, <2>1, <2>2, <2>3 DEF Accounted
<1>1. ASSUME NEW m \in Cmd, CallNext(m) \/ Expires(m) PROVE Accounted(k)'
  BY <1>1, <1>a DEF CallNext, Issue, CallAnswered, CallTimesOut, Expires, agentVars,
                    history, bounds
<1>2. ASSUME NEW x \in sends, SendReturns(x) \/ SendRaises(x) PROVE Accounted(k)'
  BY <1>2, <1>a DEF SendReturns, SendRaises, agentVars, history, bounds
<1>3. ASSUME NEW s \in Session, HandlerNext(s) PROVE Accounted(k)'
  BY <1>3, <1>a DEF HandlerNext, Register, AuthFails, StartDispatch, AckRaises,
              VisitExpired, VisitSkipped, VisitPending, DispatchDone,
              ServerReceives, ServerNotices, agentVars, history, bounds
<1>4. ASSUME NEW s \in Session, LinkBreaks(s) \/ Connect(s) PROVE Accounted(k)'
  BY <1>4, <1>a DEF LinkBreaks, Connect, agentVars, history, bounds
<1>5. CASE Prune \/ ServerRestarts
  BY <1>5, <1>a DEF Prune, ServerRestarts, agentVars, history, bounds
<1>6. ASSUME NEW m \in Cmd, AgentNext(m) PROVE Accounted(k)'
  <2>1. CASE AgentIgnores(m)
    BY <2>1, <1>a DEF AgentIgnores, agentVars, history, bounds
  <2>2. CASE AgentRejects(m) \/ AgentFindsExpired(m) \/ AgentAccepts(m)
             \/ AgentSendRaises(m)
    BY <2>2, <1>c DEF AgentRejects, AgentFindsExpired, AgentAccepts,
                      AgentSendRaises, Take, bounds
  <2>3. CASE AgentStarts(m)
    <3>1. /\ UNCHANGED <<boots, dedup, evicted>>
          /\ runs' = [runs EXCEPT ![m] = @ + 1]
          /\ Accepted(m) /\ ~Accepted(m)'
      BY <2>3 DEF AgentStarts, Accepted, bounds
    <3>2. Accepted(k) => k = m
      BY <3>1 DEF Accepted
    <3>3. Accepted(k)' => FALSE
      BY <2>3 DEF AgentStarts, Accepted
    <3> QED
      BY <1>0, <3>1, <3>2, <3>3 DEF RunsAccounted, Accounted, Seen
  <2>4. CASE AgentAbandons(m) \/ AgentResponds(m)
    BY <2>4, <1>b DEF AgentAbandons, AgentResponds, bounds, history
  <2> QED
    BY <1>6, <2>1, <2>2, <2>3, <2>4 DEF AgentNext
<1>7. CASE AgentNotices
  BY <1>7, <1>a DEF AgentNotices, history, bounds
<1>8. CASE AgentRestarts
  <2>1. /\ UNCHANGED <<runs, evicted>>
        /\ boots' = boots + 1
        /\ job' = Idle
        /\ dedup' = <<>>
    BY <1>8 DEF AgentRestarts, history
  <2>2. ~Accepted(k)' /\ k \notin Seen'
    BY <1>0, <2>1 DEF Accepted, Idle, Seen
  <2>3. runs[k] <= boots + 1
    BY <1>0, <2>1 DEF RunsAccounted, Accounted
  <2> QED
    BY <1>0, <2>1, <2>2, <2>3 DEF Accounted
<1>9. CASE UNCHANGED vars
  BY <1>9, <1>a DEF vars, agentVars, history, bounds
<1> QED
  BY <1>1, <1>2, <1>3, <1>4, <1>5, <1>6, <1>7, <1>8, <1>9 DEF Next

(* An id that stays in the window is executed at most once per life of the *)
(* agent process, however the server repeats itself: two handlers          *)
(* dispatching the same record, a send that fails after it was delivered,  *)
(* a server that reloads an old state.                                     *)
THEOREM AtMostOnce == Spec => []AtMostOncePerBoot
<1>1. Init => RunsAccounted
  BY ControlAssumption, NoneIsNeither
     DEF Init, RunsAccounted, Accounted, Accepted, Idle, Seen
<1> QED
  BY <1>1, TypeInvariant, RunsAccountedNext, AccountedImplies, PTL DEF Spec

-----------------------------------------------------------------------------
(* No claim without its cause.                                             *)
(*                                                                         *)
(* Justified is about the records and files of the server.  What they are  *)
(* overwritten with is on its way in a frame, and what the agent will send *)
(* depends on the command it has in hand: the strengthening covers those.  *)

FramesBacked ==
    \A s \in Session : \A i \in DOMAIN up[s] :
        Backed(up[s][i].cmd, StateOf(up[s][i].kind))

JobRan == \A m \in Cmd : job = [cmd |-> m, phase |-> "running"] => runs[m] > 0

Evidence == Justified /\ FramesBacked /\ JobRan

(* History is only added to. *)
Grows ==
    /\ late \subseteq late'
    /\ accepted \subseteq accepted'
    /\ refused \subseteq refused'
    /\ \A m \in Cmd : runs[m] > 0 => runs'[m] > 0

LEMMA HistoryGrows == TypeOK /\ [Next]_vars => Grows
<1> SUFFICES ASSUME TypeOK, [Next]_vars PROVE Grows
  OBVIOUS
<1>0. runs \in [Cmd -> Nat]
  BY DEF TypeOK
<1>a. ASSUME late' = late, UNCHANGED <<accepted, refused, runs>> PROVE Grows
  BY <1>a DEF Grows
<1>1. ASSUME NEW m \in Cmd, CallNext(m) \/ Expires(m) PROVE Grows
  BY <1>1 DEF CallNext, Issue, Enqueue, CallAnswered, CallTimesOut, Expires,
              TTLPasses, history, queueVars, Grows
<1>2. ASSUME NEW x \in sends, SendReturns(x) \/ SendRaises(x) PROVE Grows
  BY <1>2, <1>a DEF SendReturns, SendRaises, Mark, history, queueVars
<1>3. ASSUME NEW s \in Session, HandlerNext(s) PROVE Grows
  BY <1>3, <1>a DEF HandlerNext, Register, AuthFails, StartDispatch, AckRaises,
              VisitExpired, VisitSkipped, VisitPending, DispatchDone,
              ServerReceives, ServerNotices, Expire, Mark, history, queueVars
<1>4. ASSUME NEW s \in Session, LinkBreaks(s) \/ Connect(s) PROVE Grows
  BY <1>4, <1>a DEF LinkBreaks, Connect, history, queueVars
<1>5. CASE Prune \/ ServerRestarts
  BY <1>5, <1>a DEF Prune, ServerRestarts, Load, history, queueVars
<1>6. ASSUME NEW m \in Cmd, AgentNext(m) PROVE Grows
  BY <1>0, <1>6 DEF AgentNext, AgentIgnores, AgentRejects, AgentFindsExpired,
              AgentAccepts, AgentSendRaises, AgentStarts, AgentAbandons,
              AgentResponds, history, queueVars, Grows
<1>7. CASE AgentNotices \/ AgentRestarts
  BY <1>7, <1>a DEF AgentNotices, AgentRestarts, history, queueVars
<1>8. CASE UNCHANGED vars
  BY <1>8, <1>a DEF vars, history, queueVars
<1> QED
  BY <1>1, <1>2, <1>3, <1>4, <1>5, <1>6, <1>7, <1>8 DEF Next

LEMMA BackedGrows ==
    ASSUME Grows, NEW m \in Cmd, NEW st, Backed(m, st)
    PROVE  Backed(m, st)'
BY DEF Grows, Backed

(* A mark with a backed state, and a reload, keep the records justified. *)
LEMMA MarkJustified ==
    ASSUME QueueTypeOK, Justified, Grows,
           NEW m \in Cmd, NEW st, Backed(m, st)', Mark(m, st)
    PROVE  Justified'
<1> SUFFICES ASSUME NEW k \in Cmd
             PROVE  Backed(k, records[k])' /\ Backed(k, disk[k])'
  BY DEF Justified
<1>1. PICK r, d : r = records[k] /\ d = disk[k]
  OBVIOUS
<1>2. Backed(k, r)' /\ Backed(k, d)'
  BY <1>1, BackedGrows DEF Justified
<1>3. records'[k] = r \/ (k = m /\ records'[k] = st)
  BY <1>1 DEF Mark, queueVars, QueueTypeOK
<1>4. disk'[k] = d \/ (k = m /\ disk'[k] = st)
  BY <1>1 DEF Mark, Persist, queueVars, QueueTypeOK
<1> QED
  BY <1>2, <1>3, <1>4 DEF Backed

LEMMA RecordsKeptJustified ==
    ASSUME Justified, Grows, UNCHANGED <<records, disk>>
    PROVE  Justified'
<1> SUFFICES ASSUME NEW k \in Cmd
             PROVE  Backed(k, records[k])' /\ Backed(k, disk[k])'
  BY DEF Justified
<1>1. Backed(k, records[k]) /\ Backed(k, disk[k])
  BY DEF Justified
<1> QED
  BY <1>1 DEF Grows, Backed

(* Frames stay backed when none is added, and when the one that is added   *)
(* is.                                                                     *)
LEMMA FramesKeptBacked ==
    ASSUME TypeOK, FramesBacked, Grows,
           \A s \in Session : \/ up'[s] \in {up[s], <<>>}
                              \/ up[s] # <<>> /\ up'[s] = Tail(up[s])
    PROVE  FramesBacked'
<1> SUFFICES ASSUME NEW s \in Session, NEW i \in DOMAIN up'[s]
             PROVE  Backed(up[s][i].cmd, StateOf(up[s][i].kind))'
  BY DEF FramesBacked
<1>1. up[s] \in Seq(Frame)
  BY DEF TypeOK
<1>2. \E j \in DOMAIN up[s] : up'[s][i] = up[s][j]
  <2>1. CASE up'[s] = up[s]
    BY <2>1
  <2>2. CASE up'[s] = Tail(up[s]) /\ up[s] # <<>>
    BY <1>1, <2>2
  <2>3. up'[s] # <<>>
    OBVIOUS
  <2> QED
    BY <2>1, <2>2, <2>3
<1>3. PICK j \in DOMAIN up[s] : up'[s][i] = up[s][j]
  BY <1>2
<1>4. PICK m, st : m = up[s][j].cmd /\ st = StateOf(up[s][j].kind)
  OBVIOUS
<1>5. m \in Cmd /\ Backed(m, st)
  <2>1. up[s][j] \in Frame
    BY <1>1
  <2> QED
    BY <2>1, <1>4 DEF FramesBacked, Frame
<1>6. Backed(m, st)'
  BY <1>5, BackedGrows
<1> QED
  BY <1>3, <1>4, <1>6 DEF StateOf, Backed

LEMMA FrameAddedBacked ==
    ASSUME TypeOK, FramesBacked, Grows,
           NEW s \in Session, NEW m \in Cmd, NEW kind \in FrameKind,
           Backed(m, StateOf(kind))', ToServer(s, m, kind)
    PROVE  FramesBacked'
<1> SUFFICES ASSUME NEW t \in Session, NEW i \in DOMAIN up'[t]
             PROVE  Backed(up[t][i].cmd, StateOf(up[t][i].kind))'
  BY DEF FramesBacked
<1> DEFINE f == [cmd |-> m, kind |-> kind]
<1>1. up \in [Session -> Seq(Frame)] /\ up[t] \in Seq(Frame) /\ f \in Frame
  BY DEF TypeOK, Frame
<1>2. up'[t] = up[t] \/ up'[t] = Append(up[t], f)
  BY <1>1 DEF ToServer
<1>3. (i \in DOMAIN up[t] /\ up'[t][i] = up[t][i]) \/ up'[t][i] = f
  <2>1. CASE up'[t] = up[t]
    BY <2>1
  <2>2. CASE up'[t] = Append(up[t], f)
    <3>1. /\ Len(up[t]) \in Nat
          /\ DOMAIN up'[t] = 1..(Len(up[t]) + 1)
          /\ DOMAIN up[t] = 1..Len(up[t])
      BY <1>1, <2>2
    <3>2. CASE i = Len(up[t]) + 1
      BY <1>1, <2>2, <3>2
    <3>3. CASE i \in 1..Len(up[t])
      BY <1>1, <2>2, <3>1, <3>3
    <3> QED
      BY <3>1, <3>2, <3>3
  <2> QED
    BY <1>2, <2>1, <2>2
<1>4. CASE up'[t][i] = f
  <2>1. up'[t][i].cmd = m /\ up'[t][i].kind = kind
    BY <1>4
  <2> QED
    BY <2>1 DEF StateOf, Backed
<1>5. CASE i \in DOMAIN up[t] /\ up'[t][i] = up[t][i]
  <2>1. PICK k, st : k = up[t][i].cmd /\ st = StateOf(up[t][i].kind)
    OBVIOUS
  <2>2. k \in Cmd /\ Backed(k, st)
    <3>1. up[t][i] \in Frame
      BY <1>1, <1>5
    <3> QED
      BY <1>5, <2>1, <3>1 DEF FramesBacked, Frame
  <2>3. Backed(k, st)'
    BY <2>2, BackedGrows
  <2> QED
    BY <1>5, <2>1, <2>3 DEF StateOf, Backed
<1> QED
  BY <1>3, <1>4, <1>5

LEMMA EvidenceNext ==
    TypeOK /\ TypeOK' /\ JobHasSession /\ Evidence /\ [Next]_vars => Evidence'
<1> SUFFICES ASSUME TypeOK, TypeOK', JobHasSession, Evidence, [Next]_vars
             PROVE  Evidence'
  OBVIOUS
<1>0. /\ Justified /\ FramesBacked /\ JobRan /\ Grows
      /\ QueueTypeOK /\ up \in [Session -> Seq(Frame)] /\ runs \in [Cmd -> Nat]
  BY HistoryGrows DEF Evidence, TypeOK
(* Steps that touch one of the three parts, or none. *)
<1>r. ASSUME UNCHANGED <<records, disk>> PROVE Justified'
  BY <1>0, <1>r, RecordsKeptJustified
<1>f. ASSUME UNCHANGED up PROVE FramesBacked'
  BY <1>0, <1>f, FramesKeptBacked
<1>j. ASSUME UNCHANGED job \/ job' = Idle PROVE JobRan'
  BY <1>0, <1>j, NoneIsNeither DEF JobRan, Grows, Idle
<1>1. ASSUME NEW m \in Cmd, CallNext(m) PROVE Evidence'
  <2>1. CASE Issue(m)
    <3>1. Justified'
      <4> SUFFICES ASSUME NEW k \in Cmd
                   PROVE  Backed(k, records[k])' /\ Backed(k, disk[k])'
        BY DEF Justified
      <4>1. PICK r, d : r = records[k] /\ d = disk[k]
        OBVIOUS
      <4>2. Backed(k, r)' /\ Backed(k, d)'
        BY <1>0, <4>1, BackedGrows DEF Justified
      <4>3. records'[k] \in {r, "pending"} /\ disk'[k] \in {d, "pending"}
        BY <1>0, <2>1, <4>1 DEF Issue, Enqueue, Persist, QueueTypeOK
      <4> QED
        BY <4>2, <4>3 DEF Backed
    <3> QED
      BY <2>1, <3>1, <1>f, <1>j DEF Issue, agentVars, Evidence
  <2>2. CASE CallAnswered(m) \/ CallTimesOut(m)
    BY <2>2, <1>r, <1>f, <1>j
       DEF CallAnswered, CallTimesOut, queueVars, linkVars, agentVars, Evidence
  <2> QED
    BY <1>1, <2>1, <2>2 DEF CallNext
<1>2. ASSUME NEW x \in sends, SendReturns(x) PROVE Evidence'
  <2>1. x.cmd \in Cmd /\ Backed(x.cmd, "sent")'
    BY DEF TypeOK, Send, Backed
  <2>2. Justified'
    BY <1>0, <1>2, <2>1, MarkJustified DEF SendReturns
  <2> QED
    BY <1>2, <2>2, <1>f, <1>j DEF SendReturns, linkVars, agentVars, Evidence
<1>3. ASSUME NEW x \in sends, SendRaises(x) PROVE Evidence'
  BY <1>3, <1>r, <1>f, <1>j DEF SendRaises, queueVars, linkVars, agentVars, Evidence
<1>4. ASSUME NEW s \in Session, HandlerNext(s) PROVE Evidence'
  <2>1. CASE Register(s) \/ AuthFails(s) \/ StartDispatch(s) \/ AckRaises(s)
             \/ DispatchDone(s)
    BY <2>1, <1>r, <1>f, <1>j
       DEF Register, AuthFails, StartDispatch, AckRaises, DispatchDone, queueVars,
           linkVars, agentVars, Evidence
  <2>2. ASSUME NEW m \in Cmd, VisitExpired(s, m) PROVE Evidence'
    <3>1. Backed(m, "expired")'
      BY <1>0, <2>2 DEF VisitExpired, Backed, Grows
    <3>2. Justified'
      BY <1>0, <2>2, <3>1, MarkJustified DEF VisitExpired, Expire
    <3> QED
      BY <2>2, <3>2, <1>f, <1>j DEF VisitExpired, linkVars, agentVars, Evidence
  <2>3. ASSUME NEW m \in Cmd, VisitSkipped(s, m) \/ VisitPending(s, m)
        PROVE  Evidence'
    BY <2>3, <1>r, <1>f, <1>j
       DEF VisitSkipped, VisitPending, queueVars, linkVars, agentVars, Evidence
  <2>4. CASE ServerReceives(s)
    <3>1. PICK m, st : m = Head(up[s]).cmd /\ st = StateOf(Head(up[s]).kind)
      OBVIOUS
    <3>2. m \in Cmd /\ Backed(m, st)
      <4>1. up[s] \in Seq(Frame) /\ up[s] # <<>>
        BY <1>0, <2>4 DEF ServerReceives
      <4>2. 1 \in DOMAIN up[s] /\ Head(up[s]) = up[s][1] /\ up[s][1] \in Frame
        BY <4>1
      <4> QED
        BY <1>0, <3>1, <4>2 DEF FramesBacked, Frame
    <3>3. Backed(m, st)' /\ Mark(m, st)
      BY <1>0, <2>4, <3>1, <3>2, BackedGrows DEF ServerReceives
    <3>4. Justified'
      BY <1>0, <3>2, <3>3, MarkJustified
    <3>5. \A t \in Session : \/ up'[t] \in {up[t], <<>>}
                             \/ up[t] # <<>> /\ up'[t] = Tail(up[t])
      BY <1>0, <2>4 DEF ServerReceives
    <3>6. FramesBacked'
      BY <1>0, <3>5, FramesKeptBacked
    <3> QED
      BY <2>4, <3>4, <3>6, <1>j DEF ServerReceives, agentVars, Evidence
  <2>5. CASE ServerNotices(s)
    <3>1. FramesBacked'
      BY <1>0, <2>5, FramesKeptBacked DEF ServerNotices
    <3> QED
      BY <2>5, <3>1, <1>r, <1>j DEF ServerNotices, queueVars, agentVars, Evidence
  <2> QED
    BY <1>4, <2>1, <2>2, <2>3, <2>4, <2>5 DEF HandlerNext
<1>5. ASSUME NEW s \in Session, LinkBreaks(s) \/ Connect(s) PROVE Evidence'
  BY <1>5, <1>r, <1>f, <1>j DEF LinkBreaks, Connect, queueVars, agentVars, Evidence
<1>6. CASE Prune
  BY <1>6, <1>r, <1>f, <1>j DEF Prune, queueVars, linkVars, agentVars, Evidence
<1>7. CASE ServerRestarts
  <2>1. Justified'
    <3> SUFFICES ASSUME NEW k \in Cmd
                 PROVE  Backed(k, records[k])' /\ Backed(k, disk[k])'
      BY DEF Justified
    <3>1. Backed(k, disk[k]) /\ records' = disk /\ disk' = disk
      BY <1>0, <1>7 DEF Justified, ServerRestarts, Load
    <3> QED
      BY <1>0, <3>1 DEF Grows, Backed
  <2>2. FramesBacked'
    BY <1>7 DEF ServerRestarts, FramesBacked
  <2> QED
    BY <1>7, <2>1, <2>2, <1>j DEF ServerRestarts, agentVars, Evidence
<1>8. ASSUME NEW m \in Cmd, AgentNext(m) PROVE Evidence'
  <2>0. Justified'
    BY <1>8, <1>r DEF AgentNext, AgentIgnores, AgentRejects, AgentFindsExpired,
                      AgentAccepts, AgentSendRaises, AgentStarts, AgentAbandons,
                      AgentResponds, queueVars
  <2>1. CASE AgentIgnores(m) \/ AgentSendRaises(m) \/ AgentAbandons(m)
    BY <2>0, <2>1, <1>f, <1>j DEF AgentIgnores, AgentSendRaises, AgentAbandons,
                                  agentVars, Evidence
  <2>2. CASE AgentRejects(m)
    <3>1. Backed(m, StateOf("rejected"))'
      BY <2>2 DEF AgentRejects, StateOf, Backed
    <3>2. cli \in Session
      BY <2>2 DEF AgentRejects, Take, TypeOK
    <3>3. FramesBacked'
      BY <1>0, <2>2, <3>1, <3>2, FrameAddedBacked DEF AgentRejects, FrameKind
    <3> QED
      BY <2>0, <2>2, <3>3, <1>j DEF AgentRejects, Evidence
  <2>3. CASE AgentFindsExpired(m)
    <3>1. Backed(m, StateOf("expired"))'
      BY <1>0, <2>3 DEF AgentFindsExpired, StateOf, Backed, Grows
    <3>2. cli \in Session
      BY <2>3 DEF AgentFindsExpired, Take, TypeOK
    <3>3. FramesBacked'
      BY <1>0, <2>3, <3>1, <3>2, FrameAddedBacked DEF AgentFindsExpired, FrameKind
    <3> QED
      BY <2>0, <2>3, <3>3, <1>j DEF AgentFindsExpired, Evidence
  <2>4. CASE AgentAccepts(m)
    <3>1. Backed(m, StateOf("ack"))'
      BY <2>4 DEF AgentAccepts, StateOf, Backed
    <3>2. cli \in Session
      BY <2>4 DEF AgentAccepts, Take, TypeOK
    <3>3. FramesBacked'
      BY <1>0, <2>4, <3>1, <3>2, FrameAddedBacked DEF AgentAccepts, FrameKind
    <3>4. JobRan'
      BY <2>4 DEF AgentAccepts, JobRan
    <3> QED
      BY <2>0, <3>3, <3>4 DEF Evidence
  <2>5. CASE AgentStarts(m)
    <3>1. runs'[m] > 0
      BY <1>0, <2>5 DEF AgentStarts
    <3>2. Backed(m, StateOf("running"))'
      BY <3>1 DEF StateOf, Backed
    <3>3. cli \in Session
      BY <2>5 DEF AgentStarts, JobHasSession, Idle, TypeOK
    <3>4. FramesBacked'
      <4>1. CASE m \in LongRunning
        BY <1>0, <2>5, <3>2, <3>3, <4>1, FrameAddedBacked DEF AgentStarts, FrameKind
      <4>2. CASE m \notin LongRunning
        BY <2>5, <4>2, <1>f DEF AgentStarts
      <4> QED
        BY <4>1, <4>2
    <3>5. JobRan'
      BY <2>5, <3>1 DEF AgentStarts, JobRan
    <3> QED
      BY <2>0, <3>4, <3>5 DEF Evidence
  <2>6. CASE AgentResponds(m)
    <3>1. PICK kind \in Outcomes : ToServer(cli, m, kind)
      BY <2>6 DEF AgentResponds
    <3>2. kind \in {"success", "error"} /\ kind \in FrameKind
      BY ControlAssumption DEF FrameKind
    <3>3. runs[m] > 0
      BY <1>0, <2>6 DEF AgentResponds, JobRan
    <3>4. Backed(m, StateOf(kind))'
      BY <1>0, <3>2, <3>3 DEF StateOf, Backed, Grows
    <3>5. cli \in Session
      BY <2>6 DEF AgentResponds, JobHasSession, Idle, TypeOK
    <3>6. FramesBacked'
      BY <1>0, <3>1, <3>2, <3>4, <3>5, FrameAddedBacked
    <3> QED
      BY <2>0, <2>6, <3>6, <1>j DEF AgentResponds, Evidence
  <2> QED
    BY <1>8, <2>1, <2>2, <2>3, <2>4, <2>5, <2>6 DEF AgentNext
<1>9. ASSUME NEW m \in Cmd, Expires(m) PROVE Evidence'
  BY <1>9, <1>r, <1>f, <1>j DEF Expires, TTLPasses, linkVars, agentVars, Evidence
<1>10. CASE AgentNotices \/ AgentRestarts
  BY <1>10, <1>r, <1>f, <1>j DEF AgentNotices, AgentRestarts, queueVars, Evidence
<1>11. CASE UNCHANGED vars
  BY <1>11, <1>r, <1>f, <1>j DEF vars, queueVars, linkVars, agentVars, Evidence
<1> QED
  BY <1>1, <1>2, <1>3, <1>4, <1>5, <1>6, <1>7, <1>8, <1>9, <1>10, <1>11 DEF Next

(* The server's records, and the files a later server reads, never claim   *)
(* an acceptance, an execution, a rejection or an expiry that did not      *)
(* happen, whatever order marks arrive in and whichever process restarts.  *)
THEOREM ClaimsAreJustified == Spec => []Justified
<1>1. Init => Evidence
  BY NoneIsNeither DEF Init, QueueInit, Evidence, Justified, Backed, FramesBacked,
                       JobRan, Idle
<1>2. Evidence => Justified
  BY DEF Evidence
<1> QED
  BY <1>1, <1>2, TypeInvariant, TypeNext, EvidenceNext, PTL DEF Spec
=============================================================================
