--------------------------- MODULE TelemetryBuffer ---------------------------
(***************************************************************************)
(* The disk buffer of the agent's telemetry                                *)
(* (colsoft_tools/telemetry_buffer.py): JSONL files, the queue of          *)
(* (path, offset) that says which lines are still to be read, and a        *)
(* counter.  A buffer is a record; every operation is a function from      *)
(* buffers to buffers, so that Telemetry.tla can make a step of it, or cut *)
(* it where the process dies.                                              *)
(*                                                                         *)
(* A line is the number of its event, Garbage (terminated, unreadable) or  *)
(* Torn (the last line of a file, with no newline).  Offsets count lines;  *)
(* all lines have the same size.                                           *)
(***************************************************************************)
EXTENDS Integers, Sequences, FiniteSets, FiniteSetsExt, Functions

CONSTANTS
    MaxEvent,       \* bound: events produced
    MaxSecond,      \* bound: seconds in which files are named
    MaxFile,        \* max_file_bytes, in lines
    MaxTotal,       \* max_total_bytes, in lines
    MaxEvents,      \* max_events, 0 for no limit
    RemovesOpenFile \* os.remove works on a file that is open (not on Windows)

ASSUME BufferAssumption ==
    /\ MaxEvent \in Nat
    /\ MaxSecond \in Nat
    /\ MaxFile \in Nat \ {0}
    /\ MaxTotal \in Nat
    /\ MaxTotal >= MaxFile
    /\ MaxEvents \in Nat
    /\ RemovesOpenFile \in BOOLEAN

Event == 1..MaxEvent
Garbage == 0
Torn == -1
Line == Event \cup {Garbage, Torn}

(* buffer.jsonl, buffer.<second>[-n].jsonl, buffer.restore.<second>[-n].jsonl; *)
(* n = 0 stands for the name without a number.                             *)
Active == [kind |-> "active", sec |-> 0, n |-> 0]
Path == {Active} \cup [kind : {"rotated", "restore"}, sec : 0..MaxSecond, n : 0..1]
Entry == [path : Path, off : Nat]
Buffer == [files : SUBSET Path, line : [Path -> Seq(Line)], queue : Seq(Entry),
           pending : Nat]

EmptyBuffer == [files |-> {}, line |-> [p \in Path |-> <<>>], queue |-> <<>>,
                pending |-> 0]

-----------------------------------------------------------------------------
(* The elements of a finite set S in the order R, a set of pairs, and the   *)
(* elements of q at the indices in K.                                      *)
Ordered(S, R) ==
    [i \in 1..Cardinality(S) |->
        CHOOSE x \in S : Cardinality({y \in S : <<y, x>> \in R}) = i - 1]
Picked(q, K) ==
    LET order == Ordered(K, {ij \in K \X K : ij[1] < ij[2]})
    IN  [i \in DOMAIN order |-> q[order[i]]]

-----------------------------------------------------------------------------
(* What a buffer holds.  <<k, j>> is the place of line j of the k-th file   *)
(* in the queue; places are read in this order.                            *)
LineAt(b, p) == b.line[b.queue[p[1]].path][p[2]]
Before(p, q) == p[1] < q[1] \/ (p[1] = q[1] /\ p[2] < q[2])
Earlier(P) == {pq \in P \X P : Before(pq[1], pq[2])}

(* Those still to be read, and those of them that hold an event. *)
Unread(b) ==
    UNION {{k} \X ((b.queue[k].off + 1)..Len(b.line[b.queue[k].path])) : k \in DOMAIN b.queue}
Waiting(b) == {p \in Unread(b) : LineAt(b, p) \in Event}
Due(b) == {LineAt(b, p) : p \in Waiting(b)}
EventsOnDisk(b) == Event \cap UNION {Range(b.line[p]) : p \in b.files}

(* Lines to be read in the files S, and lines behind the first k files. *)
CountLines(b, S) == Cardinality({p \in Unread(b) : b.queue[p[1]].path \in S})
TotalLines(b, k) ==
    Cardinality(UNION {{i} \X DOMAIN b.line[b.queue[i].path] : i \in (k + 1)..Len(b.queue)})

Listed(b, p) == \E k \in DOMAIN b.queue : b.queue[k].path = p
Monus(x, y) == IF x > y THEN x - y ELSE 0

(* Names are taken with the first number that is free. *)
FreeName(b, kind, s) ==
    [kind |-> kind, sec |-> s,
     n |-> IF [kind |-> kind, sec |-> s, n |-> 0] \in b.files THEN 1 ELSE 0]
NameIsFree(b, kind, s) == FreeName(b, kind, s) \notin b.files

(* os.remove of a set of paths. *)
Removed(b, S) ==
    [b EXCEPT !.files = @ \ S,
              !.line = [p \in Path |-> IF p \in S THEN <<>> ELSE @[p]]]

-----------------------------------------------------------------------------
(* put, up to the rotation.  A line written behind a torn one is glued to  *)
(* it.                                                                     *)
Written(b, line) ==
    LET old == b.line[Active]
    IN  [b EXCEPT !.files = @ \cup {Active},
                  !.line[Active] = IF old # <<>> /\ old[Len(old)] = Torn
                                   THEN [old EXCEPT ![Len(old)] = IF line = Torn THEN Torn
                                                                  ELSE Garbage]
                                   ELSE Append(old, line)]

Appended(b, e) ==
    [Written(b, e) EXCEPT
        !.queue = IF Listed(b, Active) THEN @
                  ELSE Append(@, [path |-> Active, off |-> 0]),
        !.pending = @ + 1]

(* The write raises, with nothing or half a line on the disk; put counts   *)
(* the event all the same.                                                 *)
AppendFailed(b, torn) ==
    [(IF torn THEN Written(b, Torn) ELSE b) EXCEPT !.pending = @ + 1]

MustRotate(b) == Active \in b.files /\ Len(b.line[Active]) >= MaxFile

(* Variant: the queue keeps the old name of the file. *)
RotatedUnlisted(b, name) ==
    IF ~MustRotate(b) THEN b
    ELSE [b EXCEPT
            !.files = (@ \ {Active}) \cup {name},
            !.line = [@ EXCEPT ![name] = b.line[Active], ![Active] = <<>>]]

(* _rotate_if_needed *)
Rotated(b, name) ==
    IF ~MustRotate(b) THEN b
    ELSE [b EXCEPT
            !.files = (@ \ {Active}) \cup {name},
            !.line = [@ EXCEPT ![name] = b.line[Active], ![Active] = <<>>],
            !.queue = [k \in DOMAIN @ |->
                         IF @[k].path = Active THEN [@[k] EXCEPT !.path = name]
                         ELSE @[k]]]

Outside(b, S) == {k \in DOMAIN b.queue : b.queue[k].path \notin S}

(* Variant: dropped lines stay counted. *)
DropUncounted(b, S) ==
    [Removed(b, S) EXCEPT !.queue = Picked(@, Outside(b, S))]

(* _drop_path, for a set of paths *)
Drop(b, S) ==
    [Removed(b, S) EXCEPT
        !.queue = Picked(@, Outside(b, S)),
        !.pending = Monus(@, CountLines(b, S))]

FirstPaths(b, k) == {b.queue[i].path : i \in 1..k}
From(b, k) == SubSeq(b.queue, k + 1, Len(b.queue))

DropStale(b, stale) ==
    Drop(b, {b.queue[k].path : k \in DOMAIN b.queue} \cap stale)

(* Whole files go from the front while there are too many bytes, then      *)
(* while there are too many events.                                        *)
DropBytes(b) ==
    Drop(b, FirstPaths(b, Min({k \in 0..Len(b.queue) :
                                 TotalLines(b, k) <= MaxTotal})))

DropCount(b) ==
    IF MaxEvents = 0 THEN b
    ELSE Drop(b, FirstPaths(b, Min({k \in 0..Len(b.queue) :
              \/ k = Len(b.queue)
              \/ Monus(b.pending, CountLines(b, FirstPaths(b, k))) <= MaxEvents})))

(* Variant: the limit of bytes is checked before the new lines are there. *)
PrunedStaleOnly(b, stale) == DropCount(DropStale(b, stale \ {Active}))

(* _prune *)
Pruned(b, stale) == DropCount(DropBytes(DropStale(b, stale \ {Active})))

-----------------------------------------------------------------------------
(* take (_read_front with consume).  A file whose end is read before the   *)
(* batch is full is popped and removed, the active one emptied; the file   *)
(* in which the batch fills up keeps the offset behind the last event.     *)

Read(b, n) == {p \in Waiting(b) : Cardinality({q \in Waiting(b) : Before(q, p)}) < n}
Batch(b, n) ==
    LET order == Ordered(Read(b, n), Earlier(Read(b, n)))
    IN  [i \in DOMAIN order |-> LineAt(b, order[i])]
Popped(b, n) ==
    Cardinality({k \in DOMAIN b.queue : Cardinality({p \in Waiting(b) : p[1] <= k}) < n})

(* The offset behind the last event read of the k-th file. *)
Offset(b, n, k) == Max({b.queue[k].off} \cup {p[2] : p \in {q \in Read(b, n) : q[1] = k}})

(* Files read to their end.  The file is still open when it is removed. *)
Consumed(b, k) ==
    LET S == FirstPaths(b, k)
    IN  [Removed(b, (S \cap {Active}) \cup (IF RemovesOpenFile THEN S ELSE {}))
            EXCEPT !.files = @ \cup (S \cap {Active})]

(* Variant: a file is dropped with what the batch had no room for. *)
TakenWholeFiles(b, n) ==
    LET c == Popped(b, n)
        k == Min({c + 1, Len(b.queue)})
    IN  [Consumed(b, k) EXCEPT
            !.queue = From(b, k),
            !.pending = Monus(@, Len(Batch(b, n)))]

(* Variant: the offset inside a file is not kept. *)
TakenWithoutOffset(b, n) ==
    LET c == Popped(b, n)
    IN  [Consumed(b, c) EXCEPT
            !.queue = From(b, c),
            !.pending = Monus(@, Len(Batch(b, n)))]

Taken(b, n) ==
    LET c == Popped(b, n)
    IN  [Consumed(b, c) EXCEPT
            !.queue = [k \in 1..(Len(@) - c) |->
                         IF k = 1 THEN [@[c + 1] EXCEPT !.off = Offset(b, n, c + 1)]
                         ELSE @[c + k]],
            !.pending = Monus(@, Len(Batch(b, n)))]

(* restore, up to the pruning: a file of its own, written whole or not at  *)
(* all (a restore file cut short by a crash is not modelled).              *)
RestoreWritten(b, batch, name) ==
    [b EXCEPT !.files = @ \cup {name}, !.line[name] = batch]

(* Variant: a restored batch goes to the end of the queue. *)
RestoredLast(b, batch, name) ==
    [RestoreWritten(b, batch, name) EXCEPT
        !.queue = Append(@, [path |-> name, off |-> 0]),
        !.pending = @ + Len(batch)]

Restored(b, batch, name) ==
    [RestoreWritten(b, batch, name) EXCEPT
        !.queue = <<[path |-> name, off |-> 0]>> \o @,
        !.pending = @ + Len(batch)]

-----------------------------------------------------------------------------
(* _load_state.  The names of a kind are sorted as strings: "-1" comes     *)
(* before ".jsonl".                                                        *)

NameBefore(p, q) ==
    LET rank == [restore |-> 0, rotated |-> 1, active |-> 2]
    IN  \/ rank[p.kind] < rank[q.kind]
        \/ p.kind = q.kind /\ p.sec < q.sec
        \/ p.kind = q.kind /\ p.sec = q.sec /\ p.n > q.n

Discovered(b) ==
    LET paths == Ordered(b.files, {pq \in b.files \X b.files : NameBefore(pq[1], pq[2])})
    IN  [k \in DOMAIN paths |-> [path |-> paths[k], off |-> 0]]

(* Variant: an offset beyond the end of its file is kept. *)
StillThereUnchecked(b, saved) == Picked(saved, {k \in DOMAIN saved : saved[k].path \in b.files})

(* The entries of the state file whose file exists; an offset beyond the   *)
(* end of its file starts again at 0.                                      *)
StillThere(b, saved) ==
    LET kept == Picked(saved, {k \in DOMAIN saved : saved[k].path \in b.files})
    IN  [k \in DOMAIN kept |->
            IF kept[k].off > Len(b.line[kept[k].path]) THEN [kept[k] EXCEPT !.off = 0]
            ELSE kept[k]]

Loaded(b, saved) ==
    LET listed == StillThere(b, saved)
        q == IF listed # <<>> THEN listed ELSE Discovered(b)
    IN  [b EXCEPT !.queue = q, !.pending = Cardinality(Unread([b EXCEPT !.queue = q]))]
=============================================================================
