------------------------------ MODULE Telemetry ------------------------------
(***************************************************************************)
(* The telemetry of an agent on its way to the server: the disk buffer     *)
(* (TelemetryBuffer), the OTLP exporter (colsoft_tools/data_plane.py) or,  *)
(* with the data plane switched off, the flush over the WebSocket after    *)
(* auth_ack (ws_tools_client_embedded.py).                                 *)
(*                                                                         *)
(* Producers, exporter and flush are tasks of one asyncio loop: put, take  *)
(* and restore run to their end, only the send of a batch is an await.     *)
(* The process may die anywhere, also between two files of one operation:  *)
(* the actions named ...Dies leave what is on the disk at that point.      *)
(***************************************************************************)
EXTENDS TelemetryBuffer

CONSTANTS
    BatchSize,   \* batch_size of the data plane
    Modes,       \* bound: "otlp" (data plane on), "ws" (off)
    DiskMayFail, \* one write (a line, the state, a restored batch) may raise
    MaxDeath     \* bound: ends of the agent process

ASSUME TelemetryAssumption ==
    /\ BatchSize \in Nat \ {0}
    /\ Modes \subseteq {"otlp", "ws"}
    /\ DiskMayFail \in BOOLEAN
    /\ MaxDeath \in Nat

VARIABLES
    mode,       \* data_plane_enabled
    running,    \* the process runs
    buf,        \* the buffer: files, and in memory queue and count
    saved,      \* the queue in buffer.state.json
    hand,       \* the batch taken and not yet sent or restored
    flushing,   \* flush_to_ws is in its loop
    stale,      \* files older than max_age_days
    sec,        \* the second of the last file name
    deaths,
    \* history, read by the properties only
    made,       \* events put so far
    got,        \* events the server has stored
    pruned,     \* events retention removed
    lost,       \* events gone from the disk that nobody will send
    vain,       \* events written to a connection that was already dead
    retried,    \* events whose send raised
    failed,     \* a write has raised
    discovered  \* a start listed the directory for want of a queue

bookkeeping == <<made, got, pruned, lost, vain, retried, failed, discovered>>
vars == <<mode, running, buf, saved, hand, flushing, stale, sec, deaths,
          bookkeeping>>

TelemetryTypeOK ==
    /\ mode \in Modes
    /\ running \in BOOLEAN
    /\ buf \in Buffer
    /\ saved \in Seq(Entry)
    /\ hand \in Seq(Event)
    /\ flushing \in BOOLEAN
    /\ stale \subseteq Path
    /\ sec \in 0..MaxSecond
    /\ deaths \in 0..MaxDeath
    /\ made \in 0..MaxEvent
    /\ got \subseteq 1..made /\ pruned \subseteq 1..made /\ lost \subseteq 1..made
    /\ retried \subseteq 1..made /\ vain \subseteq 1..made
    /\ failed \in BOOLEAN
    /\ discovered \in BOOLEAN

Init ==
    /\ mode \in Modes
    /\ running = TRUE
    /\ buf = EmptyBuffer
    /\ saved = <<>>
    /\ hand = <<>>
    /\ flushing = FALSE
    /\ stale = {}
    /\ sec = 0
    /\ deaths = 0
    /\ made = 0
    /\ got = {}
    /\ pruned = {}
    /\ lost = {}
    /\ vain = {}
    /\ retried = {}
    /\ failed = FALSE
    /\ discovered = FALSE

-----------------------------------------------------------------------------
(* A write raises; bound: the first one that does is the last. *)
WriteFails == DiskMayFail /\ ~failed /\ failed' = TRUE

(* The buffer becomes b, with the files it names. *)
Keeps(b) ==
    /\ buf' = b
    /\ stale' = stale \cap b.files

(* _write_state: a failed write is ignored. *)
WritesState ==
    \/ saved' = buf'.queue /\ UNCHANGED failed
    \/ WriteFails /\ UNCHANGED saved

(* The process ends with b on the disk; what was in memory is gone.        *)
DiesWith(b) ==
    /\ running
    /\ deaths < MaxDeath
    /\ deaths' = deaths + 1
    /\ running' = FALSE
    /\ buf' = [b EXCEPT !.queue = <<>>, !.pending = 0]
    /\ stale' = stale \cap b.files
    /\ hand' = <<>>
    /\ flushing' = FALSE
    /\ UNCHANGED <<mode, saved, discovered>>

(* A file is named in the second of the last one or in the next. *)
NameFor(kind, name) ==
    /\ sec' \in {sec, sec + 1} \cap 0..MaxSecond
    /\ NameIsFree(buf, kind, sec')
    /\ name = FreeName(buf, kind, sec')

(* The name under which the active file of b, if it is full, is put away. *)
RotationName(b, name) ==
    IF MustRotate(b) THEN NameFor("rotated", name)
    ELSE name = Active /\ UNCHANGED sec

Produces == running /\ made < MaxEvent /\ made' = made + 1
IsOn(b, e) == e \in EventsOnDisk(b)

(* put: append, rotate, prune, write the state. *)
PutOf(appended) ==
    \E name \in Path :
        /\ RotationName(appended, name)
        /\ LET grown == Rotated(appended, name)
               kept == Pruned(grown, stale)
           IN  /\ Keeps(kept)
               /\ pruned' = pruned \cup (Due(grown) \ Due(kept))
               /\ lost' = IF IsOn(appended, made') THEN lost ELSE lost \cup {made'}

Put ==
    /\ Produces
    /\ PutOf(Appended(buf, made'))
    /\ WritesState
    /\ UNCHANGED <<mode, running, hand, flushing, deaths, got, retried,
                   discovered, vain>>

(* The append raises, with or without half a line on the disk. *)
PutFails ==
    /\ Produces
    /\ \E torn \in BOOLEAN : PutOf(AppendFailed(buf, torn))
    /\ saved' = buf'.queue
    /\ WriteFails
    /\ UNCHANGED <<mode, running, hand, flushing, deaths, got, retried,
                   discovered, vain>>

(* put dies behind the append, the rotation or the pruning. *)
PutDies ==
    /\ Produces
    /\ \E name \in Path :
          LET appended == Appended(buf, made')
              grown == Rotated(appended, name)
          IN  /\ RotationName(appended, name)
              /\ \E b \in {appended, grown, Pruned(grown, stale)} :
                    /\ DiesWith(b)
                    /\ pruned' = pruned \cup (Due(grown) \ Due(b))
              /\ lost' = lost \cup Range(hand)
                              \cup (IF IsOn(appended, made') THEN {} ELSE {made'})
    /\ UNCHANGED <<got, retried, failed, vain>>

(* put dies with half of its line written. *)
PutTears ==
    /\ Produces
    /\ WriteFails
    /\ DiesWith(Written(buf, Torn))
    /\ lost' = lost \cup Range(hand) \cup {made'}
    /\ UNCHANGED <<sec, got, pruned, retried, vain>>

DayPasses ==
    /\ stale' = buf.files \ {Active}
    /\ stale' # stale
    /\ UNCHANGED <<mode, running, buf, saved, hand, flushing, sec, deaths,
                   bookkeeping>>

-----------------------------------------------------------------------------
(* DataPlaneExporter.run_forever takes a batch every few seconds,          *)
(* flush_to_ws one event after the other until none is left.               *)

Room == IF mode = "otlp" THEN BatchSize ELSE 1
MayTake == running /\ hand = <<>> /\ (mode = "otlp" \/ flushing)

(* auth_ack *)
FlushStarts ==
    /\ running
    /\ mode = "ws"
    /\ ~flushing
    /\ flushing' = TRUE
    /\ UNCHANGED <<mode, running, buf, saved, hand, stale, sec, deaths, bookkeeping>>

(* Variant: the exporter waits for a full batch. *)
TakeFullOnly ==
    /\ MayTake
    /\ buf.pending >= Room
    /\ hand' = Batch(buf, Room)
    /\ flushing' = (flushing /\ hand' # <<>>)
    /\ Keeps(Taken(buf, Room))
    /\ WritesState
    /\ UNCHANGED <<mode, running, sec, deaths, made, got, pruned, lost, retried,
                   discovered, vain>>

Take ==
    /\ MayTake
    /\ hand' = Batch(buf, Room)
    /\ flushing' = (flushing /\ hand' # <<>>)
    /\ Keeps(Taken(buf, Room))
    /\ WritesState
    /\ UNCHANGED <<mode, running, sec, deaths, made, got, pruned, lost, retried,
                   discovered, vain>>

(* take dies when some files it has read are gone. *)
TakeDies ==
    /\ MayTake
    /\ \E k \in 1..Popped(buf, Room) :
          /\ DiesWith(Consumed(buf, k))
          /\ lost' = lost \cup (EventsOnDisk(buf) \ EventsOnDisk(Consumed(buf, k)))
    /\ UNCHANGED <<sec, made, got, pruned, retried, failed, vain>>

(* The server answers below 300, or the frame is sent and arrives.  A      *)
(* failure of /v1/metrics behind /v1/logs is only logged.                  *)
Exported ==
    /\ running
    /\ hand # <<>>
    /\ got' = got \cup Range(hand)
    /\ hand' = <<>>
    /\ UNCHANGED <<mode, running, buf, saved, flushing, stale, sec, deaths, made,
                   pruned, lost, retried, failed, discovered, vain>>

(* A frame that ws.send_str accepts on a connection that is already dead. *)
SentInVain ==
    /\ running
    /\ mode = "ws"
    /\ hand # <<>>
    /\ vain' = vain \cup Range(hand)
    /\ hand' = <<>>
    /\ UNCHANGED <<mode, running, buf, saved, flushing, stale, sec, deaths, made,
                   got, pruned, lost, retried, failed, discovered>>

(* The send raises, before or after the server has stored the batch, and   *)
(* the batch is restored.                                                  *)
SendRaises ==
    /\ running
    /\ hand # <<>>
    /\ got' \in {got, got \cup Range(hand)}
    /\ retried' = retried \cup Range(hand)
    /\ flushing' = FALSE
    /\ hand' = <<>>

ExportFails ==
    /\ SendRaises
    /\ \E name \in Path :
          /\ NameFor("restore", name)
          /\ LET restored == Restored(buf, hand, name)
                 kept == Pruned(restored, stale)
             IN  /\ Keeps(kept)
                 /\ WritesState
                 /\ pruned' = pruned \cup (Due(restored) \ Due(kept))
    /\ UNCHANGED <<mode, running, deaths, made, lost, discovered, vain>>

(* restore cannot write its file. *)
RestoreFails ==
    /\ SendRaises
    /\ WriteFails
    /\ lost' = lost \cup Range(hand)
    /\ UNCHANGED <<mode, running, buf, saved, stale, sec, deaths, made, pruned,
                   discovered, vain>>

RestoreDies ==
    /\ hand # <<>>
    /\ \E name \in Path :
          /\ NameFor("restore", name)
          /\ DiesWith(RestoreWritten(buf, hand, name))
    /\ UNCHANGED <<made, got, pruned, lost, retried, failed, vain>>

-----------------------------------------------------------------------------
(* A crash, or a stop: cancelling the exporter in its send raises          *)
(* CancelledError, which no "except Exception" restores the batch for.     *)
Dies ==
    /\ DiesWith(buf)
    /\ lost' = lost \cup Range(hand)
    /\ UNCHANGED <<sec, made, got, pruned, retried, failed, vain>>

(* Events in front of the offset of their file. *)
Skipped(b) ==
    {e \in Event : \E k \in DOMAIN b.queue : \E j \in DOMAIN b.line[b.queue[k].path] :
                        j <= b.queue[k].off /\ b.line[b.queue[k].path][j] = e}

(* The process starts again: _load_state. *)
Starts ==
    /\ ~running
    /\ running' = TRUE
    /\ Keeps(Loaded(buf, saved))
    /\ WritesState
    /\ lost' = lost \cup (Skipped(buf') \ (got \cup pruned))
    /\ discovered' = (discovered \/ (StillThere(buf, saved) = <<>> /\ buf.files # {}))
    /\ UNCHANGED <<mode, hand, flushing, sec, deaths, made, got, pruned, retried,
                   vain>>

Next ==
    \/ Put \/ PutFails \/ PutDies \/ PutTears
    \/ DayPasses
    \/ FlushStarts \/ Take \/ TakeDies
    \/ Exported \/ SentInVain \/ ExportFails \/ RestoreFails \/ RestoreDies
    \/ Dies \/ Starts

Spec == Init /\ [][Next]_vars
=============================================================================
