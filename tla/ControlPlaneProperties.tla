----------------------- MODULE ControlPlaneProperties -----------------------
(***************************************************************************)
(* What is asked of ControlPlane: invariants, properties of steps, the     *)
(* contract it implements, and what must eventually happen.                *)
(***************************************************************************)
EXTENDS ControlPlane

(* What the agent must have done, or the clock, for a record to be in a    *)
(* state.                                                                  *)
Backed(m, st) ==
    /\ st = "acked" => m \in accepted
    /\ st \in {"running", "completed", "failed"} => runs[m] > 0
    /\ st = "rejected" => m \in refused
    /\ st = "expired" => m \in late

(* No record claims what did not happen, in memory or on the disk a later  *)
(* server process will read: no result without an execution, no rejection  *)
(* without the agent's refusal, no expiry before expires_at.  Marks come   *)
(* late, twice and out of order (ServerReceives, SendReturns, Expire), and *)
(* survive restarts of both ends.                                          *)
Justified == \A m \in Cmd : Backed(m, records[m]) /\ Backed(m, disk[m])

(* A process of the agent runs a command at most once, however often the   *)
(* server sends it, as long as its id has not left the window of           *)
(* _is_duplicate_message.                                                  *)
AtMostOncePerBoot == \A m \in Cmd \ evicted : runs[m] <= boots + 1

(* pending_requests holds exactly the futures some REST call will take     *)
(* out again, and a call that waits has a future to wait for: the entry is *)
(* made before the send, removed by the response, by the time-out and by a *)
(* failed send, in any order.                                              *)
EveryFutureHasItsCall ==
    \A m \in Cmd :
        /\ fut[m] = "open" => caller[m] \in {"sending", "waiting"}
        /\ caller[m] = "waiting" => fut[m] \in {"open", "set"}
        /\ caller[m] = "sending" <=> \E x \in sends : x.cmd = m /\ x.by = None

(* While the registered session of the agent is up and its handler is past *)
(* dispatch_pending, no command is left behind in the queue: a pending     *)
(* record is one whose send is under way.  Commands are enqueued while     *)
(* sessions register, dispatch and break.                                  *)
NothingStranded ==
    (active # None /\ hand[active] = "loop" /\ link[active] = "up")
        => \A m \in Cmd : records[m] = "pending" => \E x \in sends : x.cmd = m

(* Once a send has been confirmed the command is never pending again and   *)
(* never put on a connection again, not even by a server that restarts     *)
(* from its files (provided the files could be written).                   *)
NoRedispatch ==
    [][\A m \in Cmd :
          (~DiskMayFail /\ records[m] \notin {"absent", "pending"}) =>
              /\ records'[m] # "pending"
              /\ \A x \in sends' \ sends : x.cmd # m]_vars

(* The agent never starts a command that it had not accepted by the time   *)
(* its TTL passed.                                                         *)
NoStartAfterExpiry ==
    [][\A m \in late \ accepted : runs'[m] = runs[m] /\ m \notin accepted']_vars

-----------------------------------------------------------------------------
Contract == INSTANCE CommandContract WITH
    issued <- {m \in Cmd : caller[m] # "idle"},
    lapsed <- late,
    decided <- Seen,
    current <- {m \in Cmd : job = [cmd |-> m, phase |-> "accepted"]},
    taken <- accepted,
    claim <- records

(* The control plane implements the contract (with a window that no id     *)
(* leaves).                                                                *)
ImplementsContract == Contract!Spec

-----------------------------------------------------------------------------
(* Fairness.  A suspended send ends (uvicorn's keepalive closes a dead     *)
(* connection), wait_for has a time limit, a runnable task runs, and the   *)
(* agent keeps serving and reconnecting.  Nothing makes users issue        *)
(* commands, clocks pass an expires_at, connections break, /health prune   *)
(* or processes restart.                                                   *)
Fairness ==
    /\ \A x \in Send : WF_vars(SendReturns(x) \/ SendRaises(x))
    /\ \A m \in Cmd : WF_vars(CallAnswered(m) \/ CallTimesOut(m))
    /\ \A s \in Session : WF_vars(HandlerNext(s))
    /\ WF_vars(\E m \in Cmd : AgentNext(m))
    /\ WF_vars(AgentNotices)
    /\ WF_vars(\E s \in Session : Connect(s))

FairSpec == Spec /\ Fairness

(* Every REST call that has sent its command returns to its user. *)
EveryCallReturns ==
    \A m \in Cmd : caller[m] \in {"sending", "waiting"} ~>
                   caller[m] \notin {"sending", "waiting"}

(* A command that is in the queue when its agent registers leaves the      *)
(* state pending, unless that connection breaks or its registration is     *)
(* lost.                                                                   *)
QueueDrains ==
    \A m \in Cmd, s \in Session :
        (active = s /\ hand[s] = "acking" /\ records[m] = "pending") ~>
        (records[m] # "pending" \/ link[s] = "down" \/ active # s)

(* A command that was sent is decided on by the agent, unless a connection *)
(* breaks or a process restarts.                                           *)
SentIsDecided ==
    \A m \in Cmd : records[m] = "sent" ~>
        \/ m \in accepted \cup refused \cup late
        \/ \E s \in Session : link[s] = "down"

-----------------------------------------------------------------------------
(* What the repository says of itself and the code does not keep. *)

(* "Estados terminales: ya no se reenvían ni reintentan", at the end of    *)
(* the life cycle: a terminal record stays what it is.                     *)
TerminalIsFinal ==
    [][\A m \in Cmd : records[m] \in Terminal => records'[m] = records[m]]_vars
=============================================================================
