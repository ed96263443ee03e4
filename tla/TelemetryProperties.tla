------------------------- MODULE TelemetryProperties -------------------------
(***************************************************************************)
(* What the buffer and its two consumers owe to an event that was put, and *)
(* the fairness under which it leaves the agent.                           *)
(***************************************************************************)
EXTENDS Telemetry

NeverDied == deaths = 0
Queued == Due(buf)
InHand == Range(hand)
Orphans ==   \* events in files that are in no queue
    Event \cap UNION {Range(buf.line[p]) : p \in {q \in buf.files : ~Listed(buf, q)}}

(* An event that was put is waiting, in the hand of the exporter, stored   *)
(* by the server, removed by retention or lost in one of the ways the code *)
(* has: its write failed, its batch was in the memory of a process that    *)
(* ended, its frame went to a dead connection.  Until the process ends or  *)
(* a write fails "waiting" means in the queue; after that it may also mean *)
(* in a file that only a listing of the directory finds again.  take,      *)
(* restore, rotation and pruning lose none.                                *)
Accounted ==
    1..made \subseteq got \cup pruned \cup lost \cup vain \cup InHand \cup
        (IF NeverDied /\ ~failed THEN Queued ELSE EventsOnDisk(buf))

(* Two files must agree: whatever the state file says, a process that      *)
(* starts now finds every event still due in its queue, unless the event's *)
(* file is not in the state file at all.  No offset skips an event that    *)
(* was not taken.  (State files that could not be written do.)             *)
ResumeSkipsNothing ==
    ~failed =>
        \A e \in EventsOnDisk(buf) \ (got \cup pruned \cup lost \cup vain \cup InHand) :
            \/ e \in Due(Loaded(buf, saved))
            \/ \E p \in buf.files :
                  /\ e \in Range(buf.line[p])
                  /\ \A k \in DOMAIN saved : saved[k].path # p

(* The count that paces the exporter and drives max_events is the number   *)
(* of lines in the queue, across rotation, retention and partial reads, as *)
(* long as every write succeeds; after a restart it may be too small,      *)
(* because put adopts an active file that fell out of the queue and counts *)
(* only its own line.                                                      *)
PendingIsRight ==
    running /\ ~failed =>
        /\ buf.pending <= Cardinality(Unread(buf))
        /\ NeverDied => buf.pending = Cardinality(Unread(buf))

(* The directory stays within max_total_bytes, where files can be removed  *)
(* while they are read and no process ended in the middle of an operation. *)
DiskIsBounded ==
    NeverDied /\ ~failed /\ RemovesOpenFile =>
        Cardinality(UNION {{p} \X DOMAIN buf.line[p] : p \in buf.files}) <= MaxTotal

(* An event leaves again only if its send raised or the agent restarted.   *)
NeverTwice == NeverDied => (Queued \cup InHand) \cap got \subseteq retried

(* Events reach the server for the first time in the order of their puts,  *)
(* through rotation, failed batches and restarts that find their queue.    *)
FirstInFirstOut ==
    [][~discovered' /\ ~failed' =>
          \A e \in got' \ got : \A f \in got : f < e]_vars

(* The exporter runs, the agent is started again, and a server that is     *)
(* asked for ever answers some day.  The data plane does not depend on the *)
(* WebSocket.                                                              *)
Fairness ==
    /\ WF_vars(Take)
    /\ SF_vars(Exported)
    /\ WF_vars(Starts)

FairSpec == Spec /\ Fairness

(* With the data plane on no event waits for ever, except in a file that   *)
(* fell out of the queue when the process ended.                           *)
Drains ==
    mode = "otlp" =>
        \A e \in Event :
            e \in Queued ~> e \in got \cup pruned \cup lost \cup Orphans

(* The docstring of flush_to_ws promises that only events whose send was   *)
(* confirmed leave the buffer: while every write succeeds, none is lost    *)
(* without having been sent.                                               *)
OnlyConfirmedLeave == lost = {}
=============================================================================
