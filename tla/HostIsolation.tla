---------------------------- MODULE HostIsolation ----------------------------
(***************************************************************************)
(* isolate_host, restore_isolation and their timers                        *)
(* (colsoft_tools/remediation.py): three places must agree, the firewall,  *)
(* the state file and the threads that sleep until an isolation ends.      *)
(*                                                                         *)
(* Commands run on the event loop, one at a time; every timed isolation    *)
(* has a thread of its own.  Threads switch at each call of iptables or    *)
(* netsh and around each write of the file, so a thread is the list of     *)
(* those steps it has still to do.  The file is opened with "w": between   *)
(* truncation and write it reads as no state.                              *)
(*                                                                         *)
(* The rules are two: "drop" (block everything) and "allow" (except the    *)
(* manager and loopback), applied in this order and removed in the other.  *)
(* iptables inserts at the head of a chain whose first match decides, and  *)
(* refuses every removal: _remove_rules turns "-I CHAIN 1 ..." into        *)
(* "-D CHAIN 1 ...", with a position and a rule.  netsh has one policy,    *)
(* rules that override it and deletes every rule of a name, so that one    *)
(* copy stands for all.                                                    *)
(***************************************************************************)
EXTENDS Naturals, SequencesExt

CONSTANTS
    MaxIsolate,      \* bound: isolate_host commands
    MaxDeath,        \* bound: ends of the agent process
    Backends,        \* "iptables" (Linux), "netsh" (Windows)
    MaxFailure       \* bound: calls of the firewall tool that report an error,
                     \* and writes of the file that raise

ASSUME IsolationAssumption ==
    /\ MaxIsolate \in Nat
    /\ MaxDeath \in Nat
    /\ Backends \subseteq {"iptables", "netsh"}
    /\ MaxFailure \in Nat

Isolation == 1..MaxIsolate
Main == 0                        \* the event loop; g is the timer of isolation g
Thread == {Main} \cup Isolation
Free == [iso |-> FALSE, until |-> 0]
Record ==                        \* until 0: no end
    {r \in [iso : BOOLEAN, until : {0} \cup Isolation] : r.until # 0 => r.iso}
Step == {"drop", "allow", "unallow", "undrop", "arm", "truncate", "write"}

RemoveRules == <<"unallow", "undrop">>
ApplyRules == <<"drop", "allow">>
SaveState == <<"truncate", "write">>

VARIABLES
    backend,
    alive,    \* the agent process runs
    chain,    \* the firewall's rules, the head is matched first
    disk,     \* the state file
    todo,     \* what each thread has still to do
    writes,   \* the record each thread will write
    armed,    \* isolations whose timer exists
    due,      \* isolations whose deadline has passed
    issued,   \* isolate_host commands so far
    deaths,
    failures,
    \* history, read by the properties only
    promise,  \* the isolation last reported OK and not ended by command
    cut,      \* a process ended between two steps
    raced,    \* a timer and a command were busy at the same time
    stuck,    \* a rule could not be removed
    refused   \* a rule could not be inserted

history == <<promise, cut, raced, stuck, refused>>
vars == <<backend, alive, chain, disk, todo, writes, armed, due, issued, deaths,
          failures, history>>

IsolationTypeOK ==
    /\ backend \in Backends
    /\ alive \in BOOLEAN
    /\ chain \in Seq({"drop", "allow"})
    /\ disk \in Record
    /\ todo \in [Thread -> Seq(Step)]
    /\ writes \in [Thread -> Record]
    /\ armed \subseteq Isolation
    /\ due \subseteq Isolation
    /\ issued \in 0..MaxIsolate
    /\ deaths \in 0..MaxDeath
    /\ failures \in 0..MaxFailure
    /\ promise \in {0} \cup Isolation
    /\ {cut, raced, stuck, refused} \subseteq BOOLEAN

Init ==
    /\ backend \in Backends
    /\ alive = TRUE
    /\ chain = <<>>
    /\ disk = Free
    /\ todo = [t \in Thread |-> <<>>]
    /\ writes = [t \in Thread |-> Free]
    /\ armed = {}
    /\ due = {}
    /\ issued = 0
    /\ deaths = 0
    /\ failures = 0
    /\ promise = 0
    /\ cut = FALSE /\ raced = FALSE /\ stuck = FALSE /\ refused = FALSE

-----------------------------------------------------------------------------
Busy(t) == todo[t] # <<>>
Quiet == \A t \in Thread : ~Busy(t)

(* Thread t starts, to do "steps" and to write record r. *)
Starts(t, steps, r) ==
    /\ todo' = [todo EXCEPT ![t] = steps]
    /\ writes' = [writes EXCEPT ![t] = r]
    /\ raced' = (raced \/ \E u \in Thread \ {t} : Busy(u))

At(t, step) == alive /\ Busy(t) /\ Head(todo[t]) = step
Goes(t) == todo' = [todo EXCEPT ![t] = Tail(@)]

Blocks == "drop" \in ToSet(chain)
Reachable ==
    Blocks => IF backend = "iptables" THEN Head(chain) = "allow"
                                      ELSE "allow" \in ToSet(chain)

Inserted(rule) ==
    IF backend = "netsh" /\ rule \in ToSet(chain) THEN chain ELSE <<rule>> \o chain

Deleted(rule) == RemoveFirst(chain, rule)

Cleared(r) == [r EXCEPT !.iso = FALSE, !.until = 0]

(* Commands come over the connection to the manager. *)
Commanded == alive /\ ~Busy(Main) /\ Reachable

(* Variant: the rules of an isolation still in force are not removed. *)
StepsOfIsolateOnTop(timed) ==
    ApplyRules \o (IF timed THEN <<"arm">> ELSE <<>>) \o SaveState

(* The timer is started once all rules are in, before the file is written. *)
StepsOfIsolate(timed) ==
    (IF disk.iso THEN RemoveRules ELSE <<>>) \o ApplyRules
        \o (IF timed THEN <<"arm">> ELSE <<>>) \o SaveState

(* isolate_host, with or without a duration. *)
Isolate(timed) ==
    /\ Commanded
    /\ issued < MaxIsolate
    /\ issued' = issued + 1
    /\ Starts(Main, StepsOfIsolate(timed),
              [iso |-> TRUE, until |-> IF timed THEN issued' ELSE 0])
    /\ promise' = 0
    /\ UNCHANGED <<backend, alive, chain, disk, armed, due, deaths, cut, stuck,
                   refused, failures>>

(* restore_isolation *)
Restore ==
    /\ Commanded
    /\ disk.iso
    /\ Starts(Main, RemoveRules \o SaveState, Cleared(disk))
    /\ promise' = 0
    /\ UNCHANGED <<backend, alive, chain, disk, armed, due, issued, deaths, cut,
                   stuck, refused, failures>>

-----------------------------------------------------------------------------
(* Steps of a thread. *)

Applies(t) ==
    /\ At(t, "drop") \/ At(t, "allow")
    /\ Goes(t)
    /\ chain' = Inserted(Head(todo[t]))
    /\ UNCHANGED <<backend, alive, disk, writes, armed, due, issued, deaths,
                   history, failures>>

(* Variant: the rules of a failed isolation stay. *)
ApplyFailsUnreverted(t) ==
    /\ failures < MaxFailure
    /\ failures' = failures + 1
    /\ At(t, "drop") \/ At(t, "allow")
    /\ todo' = [todo EXCEPT ![t] = IF Head(@) = "drop" THEN <<"allow">> ELSE <<>>]
    /\ chain' \in {chain, Inserted(Head(todo[t]))}
    /\ refused' = TRUE
    /\ UNCHANGED <<backend, alive, disk, writes, armed, due, issued, deaths,
                   promise, cut, raced, stuck>>

(* A rule is refused, or a warning passes for a refusal: the other rules   *)
(* are still applied, all are removed again and the command fails without  *)
(* touching the file.                                                      *)
ApplyFails(t) ==
    /\ failures < MaxFailure
    /\ failures' = failures + 1
    /\ At(t, "drop") \/ At(t, "allow")
    /\ todo' = [todo EXCEPT ![t] =
                   (IF Head(@) = "drop" THEN <<"allow">> ELSE <<>>) \o RemoveRules]
    /\ chain' \in {chain, Inserted(Head(todo[t]))}
    /\ refused' = TRUE
    /\ UNCHANGED <<backend, alive, disk, writes, armed, due, issued, deaths,
                   promise, cut, raced, stuck>>

Arms(t) ==
    /\ At(t, "arm")
    /\ Goes(t)
    /\ armed' = armed \cup {writes[t].until}
    /\ UNCHANGED <<backend, alive, chain, disk, writes, due, issued, deaths,
                   history, failures>>

Undoes(t) ==
    /\ backend = "netsh"
    /\ At(t, "unallow") \/ At(t, "undrop")
    /\ Goes(t)
    /\ chain' = Deleted(IF Head(todo[t]) = "unallow" THEN "allow" ELSE "drop")
    /\ UNCHANGED <<backend, alive, disk, writes, armed, due, issued, deaths,
                   history, failures>>

(* The error is collected, the other steps follow all the same. *)
UndoFails(t) ==
    /\ \/ backend = "iptables" /\ UNCHANGED failures
       \/ backend = "netsh" /\ failures < MaxFailure /\ failures' = failures + 1
    /\ At(t, "unallow") \/ At(t, "undrop")
    /\ Goes(t)
    /\ stuck' = TRUE
    /\ UNCHANGED <<backend, alive, chain, disk, writes, armed, due, issued,
                   deaths, promise, cut, raced, refused>>

Truncates(t) ==
    /\ At(t, "truncate")
    /\ Goes(t)
    /\ disk' = Free
    /\ UNCHANGED <<backend, alive, chain, writes, armed, due, issued, deaths,
                   history, failures>>

(* The last step: a timer's thread ends, isolate_host returns OK. *)
Writes(t) ==
    /\ At(t, "write")
    /\ Goes(t)
    /\ disk' = writes[t]
    /\ armed' = armed \ {t}
    /\ promise' = IF t = Main /\ writes[t].iso THEN issued ELSE promise
    /\ UNCHANGED <<backend, alive, chain, writes, due, issued, deaths, cut,
                   raced, stuck, refused, failures>>

(* _save_state returns False, with the file as it was or truncated: only   *)
(* isolate_host looks at it and takes its rules back, not its timer.       *)
SaveFails(t) ==
    /\ failures < MaxFailure
    /\ failures' = failures + 1
    /\ At(t, "truncate") \/ At(t, "write")
    /\ todo' = [todo EXCEPT ![t] = IF writes[t].iso THEN RemoveRules ELSE <<>>]
    /\ armed' = armed \ {t}
    /\ UNCHANGED <<backend, alive, chain, disk, writes, due, issued, deaths,
                   history>>

-----------------------------------------------------------------------------
DeadlinePasses(g) ==
    /\ g \in (armed \cup {disk.until}) \ due
    /\ due' = due \cup {g}
    /\ UNCHANGED <<backend, alive, chain, disk, todo, writes, armed, issued,
                   deaths, history, failures>>

(* The timer of g wakes up: it takes back its rules, that is, one copy of  *)
(* rules that every isolation has, and clears the state, whoever wrote it. *)
TimerFires(g) ==
    /\ alive
    /\ g \in armed \cap due
    /\ ~Busy(g)
    /\ Starts(g, RemoveRules \o SaveState, Cleared(disk))
    /\ promise' = IF promise = g THEN 0 ELSE promise
    /\ UNCHANGED <<backend, alive, chain, disk, armed, due, issued, deaths, cut,
                   stuck, refused, failures>>

(* The agent process ends; threads are daemons.  A reboot empties the      *)
(* tables of iptables, the rules of netsh persist.                         *)
Dies(reboot) ==
    /\ alive
    /\ deaths < MaxDeath
    /\ deaths' = deaths + 1
    /\ alive' = FALSE
    /\ todo' = [t \in Thread |-> <<>>]
    /\ armed' = {}
    /\ cut' = (cut \/ ~Quiet)
    /\ chain' = IF reboot /\ backend = "iptables" THEN <<>> ELSE chain
    /\ UNCHANGED <<backend, disk, writes, due, issued, promise, raced, stuck,
                   refused, failures>>

(* Variant: an isolation that ended while the agent was down is kept. *)
BootsUnresumed ==
    /\ ~alive
    /\ alive' = TRUE
    /\ armed' = {disk.until} \ ({0} \cup due)
    /\ UNCHANGED <<backend, chain, disk, todo, writes, due, issued, deaths, history,
                   failures>>

(* resume_isolation_timer: an isolation that has ended is taken back, one  *)
(* that has not gets a timer again.                                        *)
Boots ==
    /\ ~alive
    /\ alive' = TRUE
    /\ IF disk.iso /\ disk.until \in due
       THEN Starts(Main, RemoveRules \o SaveState, Cleared(disk))
       ELSE UNCHANGED <<todo, writes, raced>>
    /\ armed' = {disk.until} \ ({0} \cup due)
    /\ UNCHANGED <<backend, chain, disk, due, issued, deaths, promise, cut,
                   stuck, refused, failures>>

-----------------------------------------------------------------------------
ThreadNext(t) ==
    \/ Applies(t) \/ ApplyFails(t) \/ Arms(t)
    \/ Undoes(t) \/ UndoFails(t)
    \/ Truncates(t) \/ Writes(t) \/ SaveFails(t)

Next ==
    \/ \E timed \in BOOLEAN : Isolate(timed)
    \/ Restore
    \/ \E t \in Thread : ThreadNext(t)
    \/ \E g \in Isolation : DeadlinePasses(g) \/ TimerFires(g)
    \/ \E reboot \in BOOLEAN : Dies(reboot)
    \/ Boots

Spec == Init /\ [][Next]_vars

-----------------------------------------------------------------------------
(* Whenever no thread is at work, the manager is reachable: blocking rules *)
(* never stand without their exceptions, in whatever order commands, old   *)
(* timers and failures of the tools met.  A process that ends between two  *)
(* steps can cut the host off.  So can, on Linux, a rule that is refused,  *)
(* for what was inserted stays; and on Windows one that cannot be removed. *)
ManagerStaysReachable ==
    Quiet /\ ~cut /\ (IF backend = "iptables" THEN ~refused ELSE ~stuck) => Reachable

(* No process ended between two steps, every removal worked, and no timer  *)
(* was at work beside a command: each of these can leave copies of the     *)
(* rules that the file does not tell of.                                   *)
Undisturbed == ~cut /\ ~stuck /\ ~raced

(* A blocked host knows that it is blocked, and one restore is enough:     *)
(* blocking rules stand only while the file says so, and once.  On Linux   *)
(* that is so until the first removal, which is refused.                   *)
NothingForgotten ==
    Quiet /\ Undisturbed /\ Blocks =>
        /\ disk.iso
        /\ \A i, j \in DOMAIN chain : chain[i] = "drop" /\ chain[j] = "drop" => i = j

(* Timers keep running, their threads go on and the agent is restarted.    *)
Fairness ==
    /\ \A t \in Thread : WF_vars(ThreadNext(t))
    /\ \A g \in Isolation : WF_vars(DeadlinePasses(g)) /\ WF_vars(TimerFires(g))
    /\ WF_vars(Boots)

FairSpec == Spec /\ Fairness

(* An isolation recorded with a duration ends: by its timer, by the one of *)
(* the next process, by command, or because another takes its place.  On   *)
(* Linux its rules stay whatever ends it, and are excepted as stuck.       *)
TimedIsolationEnds ==
    \A g \in Isolation :
        LET mine == [iso |-> TRUE, until |-> g]
        IN  disk = mine ~> ~Blocks \/ disk # mine \/ ~Undisturbed

(* docs/telemetry-json-rdo.md gives expires_at as the end of an isolation, *)
(* null when it has none: an isolation reported OK stands until then or    *)
(* until a command ends it.                                                *)
StandsUntilItsEnd ==
    ~raced /\ promise # 0 /\ promise \notin due => Blocks
=============================================================================
