------------------------------ MODULE Enrollment ------------------------------
(***************************************************************************)
(* Enrollment: one-use tokens on the server (server/enrollment.py), two    *)
(* listeners in one process (server/tls_runtime.py), and the agent's CLI,  *)
(* which turns a token into the identity the agent starts with             *)
(* (colsoft_tools/enrollment.py, _run_enrollment).                         *)
(*                                                                         *)
(* A handler never awaits, so a listener serves one request at a time; the *)
(* two listeners are threads and share the token files without a lock.     *)
(* Every file operation is a step of its own: another thread, or the end   *)
(* of the process, can come between any two.  A save opens <file>.tmp with *)
(* "w", writes it and renames it over <file>.  The name of the temporary   *)
(* file is fixed, so two threads that save the same file hold one inode.   *)
(* Keys, certificates and the owner's ids are data and left out.           *)
(***************************************************************************)
EXTENDS Naturals, Sequences, FiniteSets

CONSTANTS
    Host,            \* machines that enroll
    Minted,          \* the tokens mint_enrollment_token can draw
    Static,          \* tokens of the environment (ENROLLMENT_TOKENS)
    Port,            \* listeners: control and bootstrap
    Named,           \* machines whose config_client.json has the name they use
    MaxRuns,         \* bound: runs of the CLI on a host
    MaxMishaps,      \* bound: ends of the server process and calls that raise
    MaxExpired,      \* bound: tokens that expire
    MaxCliDeaths,    \* bound: ends of a CLI between two steps, per host
    NoToken, NoPort, \* what an idle worker or CLI has in these fields
    Nobody           \* the host of a mint

ASSUME EnrollmentAssumption ==
    /\ Minted \cap Static = {}
    /\ NoToken \notin Minted \cup Static
    /\ Nobody \notin Host
    /\ NoPort \notin Port
    /\ Named \subseteq Host
    /\ MaxRuns \in Nat /\ MaxExpired \in Nat
    /\ MaxMishaps \in Nat /\ MaxCliDeaths \in Nat

Token == Minted \cup Static
File == {"issued", "consumed"}
Text == {"absent", "empty", "torn", "whole"}
Content == [text : Text, tokens : SUBSET Token]
Absent == [text |-> "absent", tokens |-> {}]
Truncated == [text |-> "empty", tokens |-> {}]
Torn == [text |-> "torn", tokens |-> {}]
Whole(ts) == [text |-> "whole", tokens |-> ts]

(* Directories enrollment/<name>, <name>_xxxxxx, ...; 1 has the plain name. *)
Dir == 1..MaxRuns
IdentityFile == {"absent", "torn", "whole", "spoilt"}  \* spoilt: PEMs lost
Saving == {"open", "dump", "replace"}
Worker ==
    [at : {"idle", "load", "owner", "last"} \cup Saving,
     host : Host \cup {Nobody}, token : Token \cup {NoToken}, try : Nat,
     issued : SUBSET Token, consumed : SUBSET Token,
     files : Seq(File), holds : {"none", "tmp", "live", "gone"}]
Idle ==
    [at |-> "idle", host |-> Nobody, token |-> NoToken, try |-> 0,
     issued |-> {}, consumed |-> {}, files |-> <<>>, holds |-> "none"]
Cli ==
    [at : {"idle", "first", "second", "identity", "json", "pointer", "aim",
           "spoil", "respoil"},
     token : Token \cup {NoToken}, port : Port \cup {NoPort}, dir : Dir \cup {0}]

VARIABLES
    logged,    \* ENROLLMENT_TOKENS_FILE is configured, and appended to
    live, tmp, \* each token file, and its temporary file
    log,       \* minted tokens with a line in ENROLLMENT_TOKENS_FILE
    drawn,     \* tokens minted so far, handed out or not
    expired,   \* tokens whose time has passed
    inbox,     \* per listener, the requests not yet taken up
    worker,    \* per listener, the handler that runs
    mishaps,
    cli,       \* per host, the run of --enroll
    runs,      \* runs so far
    tries,     \* POSTs so far
    dir,       \* identity.json of every directory
    pointer,   \* active.json: a directory, 0 if there is none or it is torn
    cliDeaths,
    \* history, read by the properties only
    handed,    \* minted tokens a user was given
    bundles,   \* per token, identities built for it
    reported,  \* per host, the directories reported as provisioned
    lab,       \* per host, those written with --enroll-insecure
    lostAt,    \* tokens whose redemption stopped between its two saves
    overlap    \* handlers that ran side by side: "none", "mixed" (a mint took
               \* part in every overlap) or "enrolls" (two redemptions)

disk == <<live, tmp, log>>
server == <<logged, disk, drawn, expired, inbox, worker, mishaps, handed,
            bundles, lostAt, overlap>>
host == <<cli, runs, tries, dir, pointer, cliDeaths, reported, lab>>
vars == <<server, host>>

EnrollmentTypeOK ==
    /\ logged \in BOOLEAN
    /\ live \in [File -> Content]
    /\ tmp \in [File -> Content]
    /\ log \subseteq drawn /\ drawn \subseteq Minted /\ expired \subseteq handed
    /\ inbox \in [Port -> Seq([host : Host, token : Token, try : Nat])]
    /\ worker \in [Port -> Worker]
    /\ mishaps \in 0..MaxMishaps
    /\ cli \in [Host -> Cli]
    /\ runs \in [Host -> 0..MaxRuns]
    /\ tries \in [Host -> Nat]
    /\ dir \in [Host -> [Dir -> IdentityFile]]
    /\ pointer \in [Host -> {0} \cup Dir]
    /\ cliDeaths \in [Host -> 0..MaxCliDeaths]
    /\ handed \subseteq drawn
    /\ bundles \in [Token -> Nat]
    /\ reported \in [Host -> SUBSET Dir] /\ lab \in [Host -> SUBSET Dir]
    /\ lostAt \subseteq Minted
    /\ overlap \in {"none", "mixed", "enrolls"}

NoCli == [at |-> "idle", token |-> NoToken, port |-> NoPort, dir |-> 0]

Init ==
    /\ logged \in BOOLEAN
    /\ live = [f \in File |-> Absent] /\ tmp = [f \in File |-> Absent]
    /\ log = {} /\ drawn = {} /\ expired = {}
    /\ inbox = [p \in Port |-> <<>>]
    /\ worker = [p \in Port |-> Idle]
    /\ mishaps = 0
    /\ cli = [h \in Host |-> NoCli]
    /\ runs = [h \in Host |-> 0] /\ tries = [h \in Host |-> 0]
    /\ dir = [h \in Host |-> [d \in Dir |-> "absent"]]
    /\ pointer = [h \in Host |-> 0]
    /\ cliDeaths = [h \in Host |-> 0]
    /\ handed = {} /\ bundles = [t \in Token |-> 0]
    /\ reported = [h \in Host |-> {}] /\ lab = [h \in Host |-> {}]
    /\ lostAt = {} /\ overlap = "none"

-----------------------------------------------------------------------------
(* The token files as the loaders read them: what does not parse is empty. *)
(* So is, in the code, a file that exists and cannot be read just then:    *)
(* that read error is not modelled.                                        *)

Consumed == live["consumed"].tokens

(* Lines of consumed tokens are skipped, "consumed" lines always are. *)
FromTokensFile == IF logged THEN log \ Consumed ELSE {}

LoadIssued == (FromTokensFile \cup live["issued"].tokens) \ expired

Mishap == mishaps < MaxMishaps /\ mishaps' = mishaps + 1

(* The handler of listener p stops, whatever it answered. *)
Stops(p) == worker' = [worker EXCEPT ![p] = Idle]

(* Host h is waiting for the answer to this very request. *)
Waits(w) ==
    w.host \in Host /\ cli[w.host].at \in {"first", "second"}
                    /\ tries[w.host] = w.try

(* 403 or 500: the CLI ends; nobody reads an answer given too late. *)
Refuses(p, w) ==
    /\ Stops(p)
    /\ IF Waits(w) THEN cli' = [cli EXCEPT ![w.host] = NoCli] ELSE UNCHANGED cli
    /\ UNCHANGED <<runs, tries, dir, pointer, cliDeaths, reported, lab>>

(* How the handler that starts on p, for host h, meets the other threads. *)
Overlapped(p, h) ==
    LET others == {worker[q] : q \in {q \in Port \ {p} : worker[q] # Idle}} IN
    overlap' =
        IF h # Nobody /\ \E w \in others : w.host # Nobody THEN "enrolls"
        ELSE IF others # {} /\ overlap = "none" THEN "mixed"
        ELSE overlap

(* enroll: _consume_token reads the consumed tokens. *)
EnrollStarts(p) ==
    LET r == Head(inbox[p])
        w == [Idle EXCEPT !.at = "load", !.host = r.host, !.token = r.token,
                          !.try = r.try, !.consumed = Consumed]
    IN
    /\ worker[p] = Idle /\ inbox[p] # <<>>
    /\ inbox' = [inbox EXCEPT ![p] = Tail(@)]
    /\ \/ /\ r.token \in Consumed
          /\ Refuses(p, w)
          /\ UNCHANGED overlap
       \/ /\ r.token \notin Consumed
          /\ worker' = [worker EXCEPT ![p] = w]
          /\ Overlapped(p, r.host)
          /\ UNCHANGED host
    /\ UNCHANGED <<logged, disk, drawn, expired, mishaps, handed, bundles,
                   lostAt>>

(* ... then the issued ones; a static token goes straight to the second save. *)
LoadsIssued(p) ==
    LET w == worker[p] IN
    /\ w.at = "load"
    /\ \/ /\ w.token \in LoadIssued
          /\ worker' = [worker EXCEPT ![p].at = "owner", ![p].issued = LoadIssued]
          /\ UNCHANGED host
       \/ /\ w.token \in Static \ LoadIssued
          /\ worker' = [worker EXCEPT ![p].at = "open",
                                      ![p].consumed = @ \cup {w.token},
                                      ![p].files = <<"consumed">>]
          /\ UNCHANGED host
       \/ /\ w.token \notin LoadIssued \cup Static
          /\ Refuses(p, w)
    /\ UNCHANGED <<logged, disk, drawn, expired, inbox, mishaps, handed,
                   bundles, lostAt, overlap>>

(* Variant: the consumed tokens are never saved. *)
FindsOwnerForgetting(p) ==
    LET w == worker[p] IN
    /\ w.at = "owner"
    /\ w.token \in LoadIssued
    /\ worker' = [worker EXCEPT ![p].at = "open",
                                ![p].issued = @ \ {w.token},
                                ![p].files = <<"issued">>]
    /\ UNCHANGED <<logged, disk, drawn, expired, inbox, mishaps, handed,
                   bundles, lostAt, overlap, host>>

(* _issued_owner loads the issued tokens again. *)
FindsOwner(p) ==
    LET w == worker[p] IN
    /\ w.at = "owner"
    /\ IF w.token \in LoadIssued
       THEN /\ worker' = [worker EXCEPT ![p].at = "open",
                                        ![p].issued = @ \ {w.token},
                                        ![p].consumed = @ \cup {w.token},
                                        ![p].files = <<"issued", "consumed">>]
            /\ UNCHANGED host
       ELSE Refuses(p, w)
    /\ UNCHANGED <<logged, disk, drawn, expired, inbox, mishaps, handed,
                   bundles, lostAt, overlap>>

(* Variant: the file is saved with the new token alone. *)
MintStartsAfresh(p) ==
    /\ worker[p] = Idle
    /\ \E t \in Minted \ drawn :
        /\ drawn' = drawn \cup {t}
        /\ worker' = [worker EXCEPT ![p] =
               [Idle EXCEPT !.at = "open", !.token = t, !.files = <<"issued">>,
                            !.issued = {t}]]
    /\ Overlapped(p, Nobody)
    /\ UNCHANGED <<logged, disk, expired, inbox, mishaps, handed, bundles,
                   lostAt, host>>

(* mint_enrollment_token draws a token and loads the issued ones. *)
MintStarts(p) ==
    /\ worker[p] = Idle
    /\ \E t \in Minted \ drawn :
        /\ drawn' = drawn \cup {t}
        /\ worker' = [worker EXCEPT ![p] =
               [Idle EXCEPT !.at = "open", !.token = t, !.files = <<"issued">>,
                            !.issued = LoadIssued \cup {t}]]
    /\ Overlapped(p, Nobody)
    /\ UNCHANGED <<logged, disk, expired, inbox, mishaps, handed, bundles,
                   lostAt, host>>

-----------------------------------------------------------------------------
(* _atomic_write_json of the first file the handler has still to save. *)

(* The threads, p apart, that hold the file handle "old" of file f. *)
Holders(p, f, old) ==
    {q \in Port \ {p} : /\ worker[q].holds = old
                        /\ Head(worker[q].files) = f}

(* Variant: the file itself is opened for writing. *)
OpensInPlace(p) ==
    LET f == Head(worker[p].files) IN
    /\ worker[p].at = "open"
    /\ tmp' = [tmp EXCEPT ![f] = Truncated]
    /\ live' = [live EXCEPT ![f] = Truncated]
    /\ worker' = [worker EXCEPT ![p].at = "dump", ![p].holds = "tmp"]
    /\ UNCHANGED <<logged, log, drawn, expired, inbox, mishaps, handed,
                   bundles, lostAt, overlap, host>>

(* open(tmp, "w"): one inode for every thread that opened it. *)
Opens(p) ==
    LET f == Head(worker[p].files) IN
    /\ worker[p].at = "open"
    /\ tmp' = [tmp EXCEPT ![f] = Truncated]
    /\ worker' = [worker EXCEPT ![p].at = "dump", ![p].holds = "tmp"]
    /\ UNCHANGED <<logged, live, log, drawn, expired, inbox, mishaps,
                   handed, bundles, lostAt, overlap, host>>

Payload(w) ==
    Whole(IF Head(w.files) = "issued" THEN w.issued \ expired ELSE w.consumed)

(* What a write from offset 0 leaves in a file: over the text of another     *)
(* thread, the new text or, when that was longer, a mixture of the two.      *)
Overwritten(c, new) ==
    IF c.text \in {"absent", "empty"} THEN {new} ELSE {new, Torn}

(* dump: into the inode opened, wherever its name has gone since. *)
Dumps(p) ==
    LET w == worker[p]
        f == Head(w.files)
    IN
    /\ w.at = "dump"
    /\ \/ w.holds = "tmp" /\ UNCHANGED live
          /\ \E c \in Overwritten(tmp[f], Payload(w)) : tmp' = [tmp EXCEPT ![f] = c]
       \/ w.holds = "live" /\ UNCHANGED tmp
          /\ \E c \in Overwritten(live[f], Payload(w)) : live' = [live EXCEPT ![f] = c]
       \/ w.holds = "gone" /\ UNCHANGED <<live, tmp>>
    /\ worker' = [worker EXCEPT ![p].at = "replace"]
    /\ UNCHANGED <<logged, log, drawn, expired, inbox, mishaps, handed,
                   bundles, lostAt, overlap, host>>

(* os.replace: on to the next file, or to what follows the saves.  Threads   *)
(* that hold the moved inode now hold the live file, and those that held the *)
(* live file hold one without a name.                                        *)
Replaces(p) ==
    LET w == worker[p]
        f == Head(w.files)
    IN
    /\ w.at = "replace" /\ tmp[f].text # "absent"
    /\ live' = [live EXCEPT ![f] = tmp[f]]
    /\ tmp' = [tmp EXCEPT ![f] = Absent]
    /\ worker' = [q \in Port |->
           CASE q = p ->
                  [w EXCEPT !.at = IF Len(w.files) > 1 THEN "open" ELSE "last",
                            !.files = Tail(@), !.holds = "none"]
             [] q \in Holders(p, f, "tmp") -> [worker[q] EXCEPT !.holds = "live"]
             [] q \in Holders(p, f, "live") -> [worker[q] EXCEPT !.holds = "gone"]
             [] OTHER -> worker[q]]
    /\ UNCHANGED <<logged, log, drawn, expired, inbox, mishaps, handed,
                   bundles, lostAt, overlap, host>>

(* A redemption with the issued tokens saved and the consumed ones not. *)
Between(w) == w.at \in Saving /\ w.files = <<"consumed">> /\ w.token \in Minted

(* open, dump or replace raises: the disk refuses, or another thread has     *)
(* moved the temporary file.                                                 *)
SaveFails(p) ==
    LET w == worker[p] IN
    /\ w.at \in Saving
    /\ \/ w.at = "replace" /\ tmp[Head(w.files)].text = "absent" /\ UNCHANGED mishaps
       \/ Mishap
    /\ Refuses(p, w)
    /\ lostAt' = lostAt \cup IF Between(w) THEN {w.token} ELSE {}
    /\ UNCHANGED <<logged, disk, drawn, expired, inbox, handed, bundles, overlap>>

(* mint: the line in the tokens file, taken to be written whole, and the     *)
(* token to the user.                                                        *)
Mints(p) ==
    LET w == worker[p] IN
    /\ w.at = "last" /\ w.host = Nobody
    /\ log' = log \cup IF logged THEN {w.token} ELSE {}
    /\ handed' = handed \cup {w.token}
    /\ Stops(p)
    /\ UNCHANGED <<logged, live, tmp, drawn, expired, inbox, mishaps,
                   bundles, lostAt, overlap, host>>

(* enroll: the line in the tokens file, which no loader reads, the bundle    *)
(* and the inventory.                                                        *)
Enrolls(p) ==
    LET w == worker[p] IN
    /\ w.at = "last" /\ w.host # Nobody
    /\ bundles' = [bundles EXCEPT ![w.token] = @ + 1]
    /\ Stops(p)
    /\ IF Waits(w)
       THEN cli' = [cli EXCEPT ![w.host] = [NoCli EXCEPT !.at = "identity",
                                                         !.dir = cli[w.host].dir]]
       ELSE UNCHANGED cli
    /\ UNCHANGED <<logged, disk, drawn, expired, inbox, mishaps, handed,
                   lostAt, overlap, runs, tries, dir, pointer, cliDeaths,
                   reported, lab>>

(* The line cannot be appended, the bundle cannot be built, or the Bearer is *)
(* not the token's owner.                                                    *)
LastFails(p) ==
    /\ worker[p].at = "last" /\ Mishap
    /\ Refuses(p, worker[p])
    /\ UNCHANGED <<logged, disk, drawn, expired, inbox, handed, bundles, lostAt,
                   overlap>>

(* The server process ends: requests and handlers go, files stay. *)
ServerDies ==
    /\ Mishap
    /\ worker' = [p \in Port |-> Idle]
    /\ inbox' = [p \in Port |-> <<>>]
    /\ lostAt' = lostAt \cup
           {worker[p].token : p \in {p \in Port : Between(worker[p])}}
    /\ UNCHANGED <<logged, disk, drawn, expired, handed, bundles, overlap, host>>

(* A token in a user's hands reaches its expires_at. *)
Expires(t) ==
    /\ t \in handed \ expired /\ Cardinality(expired) < MaxExpired
    /\ expired' = expired \cup {t}
    /\ UNCHANGED <<logged, disk, drawn, inbox, worker, mishaps, handed,
                   bundles, lostAt, overlap, host>>

-----------------------------------------------------------------------------
(* The CLI on host h (_run_enrollment, enroll). *)

(* Sends the token once more; "at" says on which of the two paths. *)
Posts(h, c) ==
    /\ tries' = [tries EXCEPT ![h] = @ + 1]
    /\ cli' = [cli EXCEPT ![h] = c]
    /\ inbox' = [inbox EXCEPT ![c.port] =
           Append(@, [host |-> h, token |-> c.token, try |-> tries[h] + 1])]
    /\ UNCHANGED <<logged, disk, drawn, expired, worker, mishaps, handed,
                   bundles, lostAt, overlap>>

(* Variant: the plain name, taken or not. *)
FreeOrNot(h) == {1}

(* allocate_identity_dir: the plain name, or a new suffix when it is taken. *)
Free(h) ==
    IF dir[h][1] = "absent" THEN {1} ELSE {d \in Dir : dir[h][d] = "absent"}

(* --enroll: with a token somebody was given, on one of the listeners. *)
CliStarts(h) ==
    /\ cli[h].at = "idle" /\ runs[h] < MaxRuns
    /\ runs' = [runs EXCEPT ![h] = @ + 1]
    /\ \E t \in handed \cup Static, p \in Port, d \in Free(h) :
          Posts(h, [at |-> "first", token |-> t, port |-> p, dir |-> d])
    /\ UNCHANGED <<dir, pointer, cliDeaths, reported, lab>>

(* requests.post raises: no connection, no answer in time, or a lost one.    *)
(* After /api/enroll comes /enroll, after /enroll the end.                   *)
TriesAgain(h) ==
    /\ cli[h].at = "first"
    /\ Posts(h, [cli[h] EXCEPT !.at = "second"])
    /\ UNCHANGED <<runs, dir, pointer, cliDeaths, reported, lab>>

(* ... or the CLI is killed while it waits. *)
GivesUp(h) ==
    /\ cli[h].at \in {"first", "second"}
    /\ cli' = [cli EXCEPT ![h] = NoCli]
    /\ UNCHANGED <<server, runs, tries, dir, pointer, cliDeaths, reported, lab>>

(* Host h's CLI goes from "at" to "next" and leaves file content c. *)
Step(h, at, next, c) ==
    /\ cli[h].at = at
    /\ cli' = [cli EXCEPT ![h].at = next]
    /\ dir' = [dir EXCEPT ![h][cli[h].dir] = c]
    /\ UNCHANGED <<server, runs, tries, pointer, cliDeaths, reported, lab>>

(* save_identity: the PEM files, then identity.json, opened with "w". *)
OpensIdentity(h) == Step(h, "identity", "json", "torn")
WritesIdentity(h) == Step(h, "json", "pointer", "whole")

(* write_active_identity_pointer; a run with --enroll-insecure goes on, the  *)
(* others report.                                                            *)
OpensPointer(h) ==
    /\ cli[h].at = "pointer"
    /\ pointer' = [pointer EXCEPT ![h] = 0]
    /\ cli' = [cli EXCEPT ![h].at = "aim"]
    /\ UNCHANGED <<server, runs, tries, dir, cliDeaths, reported, lab>>

WritesPointer(h) ==
    LET c == cli[h] IN
    /\ c.at = "aim"
    /\ pointer' = [pointer EXCEPT ![h] = c.dir]
    /\ \/ /\ cli' = [cli EXCEPT ![h].at = "spoil"]
          /\ lab' = [lab EXCEPT ![h] = @ \cup {c.dir}]
          /\ UNCHANGED reported
       \/ /\ cli' = [cli EXCEPT ![h] = NoCli]
          /\ reported' = [reported EXCEPT ![h] = @ \cup {c.dir}]
          /\ UNCHANGED lab
    /\ UNCHANGED <<server, runs, tries, dir, cliDeaths>>

(* --enroll-insecure saves the bundle again.  The first save put the paths   *)
(* of the PEM files into it, and the second writes those paths as PEMs.      *)
SavesAgain(h) == Step(h, "spoil", "respoil", "torn")

SavedAgain(h) ==
    LET c == cli[h] IN
    /\ c.at = "respoil"
    /\ dir' = [dir EXCEPT ![h][c.dir] = "spoilt"]
    /\ reported' = [reported EXCEPT ![h] = @ \cup {c.dir}]
    /\ cli' = [cli EXCEPT ![h] = NoCli]
    /\ UNCHANGED <<server, runs, tries, pointer, cliDeaths, lab>>

(* The CLI is killed at work on its files: they stay as they are. *)
CliDies(h) ==
    /\ cli[h].at \notin {"idle", "first", "second"} /\ cliDeaths[h] < MaxCliDeaths
    /\ cliDeaths' = [cliDeaths EXCEPT ![h] = @ + 1]
    /\ cli' = [cli EXCEPT ![h] = NoCli]
    /\ UNCHANGED <<server, runs, tries, dir, pointer, reported, lab>>

(* resolve_identity_dir, by which the agent finds its identity: active.json, *)
(* then the plain name; 0 if there is none.                                  *)
Resolved(h) ==
    CASE pointer[h] # 0 /\ dir[h][pointer[h]] # "absent" -> pointer[h]
      [] OTHER -> IF h \in Named /\ dir[h][1] # "absent" THEN 1 ELSE 0

-----------------------------------------------------------------------------
ServerNext ==
    \/ \E p \in Port :
        \/ EnrollStarts(p) \/ LoadsIssued(p) \/ FindsOwner(p) \/ MintStarts(p)
        \/ Opens(p) \/ Dumps(p) \/ Replaces(p) \/ SaveFails(p)
        \/ Mints(p) \/ Enrolls(p) \/ LastFails(p)
    \/ ServerDies
    \/ \E t \in Minted : Expires(t)

HostNext ==
    \E h \in Host :
        \/ CliStarts(h) \/ TriesAgain(h) \/ GivesUp(h)
        \/ OpensIdentity(h) \/ WritesIdentity(h)
        \/ OpensPointer(h) \/ WritesPointer(h)
        \/ SavesAgain(h) \/ SavedAgain(h) \/ CliDies(h)

Next == ServerNext \/ HostNext

Spec == Init /\ [][Next]_vars
=============================================================================
