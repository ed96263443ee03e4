----------------------------- MODULE AgentFiles -----------------------------
(***************************************************************************)
(* The files an agent is made of and who writes them: config_client.json   *)
(* (config_manager, update_config), the directories of enrolled identities *)
(* of which one is laid over it (resolve_identity_dir,                     *)
(* load_runtime_config), the program (trigger_update) and the baselines of *)
(* hashes they are compared with (TamperMonitor).                          *)
(*                                                                         *)
(* A configuration is a function from the keys it has to values; a file    *)
(* that does not parse is Unreadable.  The name of a directory stands for  *)
(* the path of a file in it: certs/signing.pub as the value of signing,    *)
(* certs/agent.crt as that of tls_client_cert.  A file's hash is its       *)
(* content.  The agent runs in the directory of its config_client.json     *)
(* (TamperMonitor looks for it nowhere else), with ROBIN_IDENTITY_DIR, an  *)
(* identity no file could change, unset, and over TLS.                     *)
(***************************************************************************)
EXTENDS Integers, FiniteSets

CONSTANTS
    MaxChange,    \* changes of files by hand or by a command (bound)
    Unreadable,
    Absent

Dirs == {"one", "root"}        \* "root" is enrollment/ itself
BaselineFiles == {"usual", "other"}

VARIABLES
    disk,        \* config_client.json
    dirs,        \* [Dirs -> identity.json "none", "torn" or "whole", and the contents of
                 \*          certs/signing.pub and certs/agent.crt, or Absent]
    pointer,     \* the directory active.json names, or Absent
    binary,      \* the program, a version
    baseline,    \* [BaselineFiles -> [snapshot, sound]; Absent when load_baseline gives none]
    session,     \* the configuration of the WebSocket session, Absent without one
    alarm,       \* the last session start put security.tamper_detected in the buffer
    changes,
    \* history
    origin,      \* the snapshot a baseline was made of, and who made it
    touched,     \* what somebody may have changed since a baseline was made
    local,       \* config_client.json as last written by hand
    given        \* signing keys this host was given by hand or by an enrollment

fileVars == <<disk, dirs, pointer, binary, baseline, session, alarm, changes,
              origin, touched, local, given>>
host == <<disk, dirs, pointer, binary>>
history == <<origin, touched, local, given>>

FileKeys == {"plain", "signing", "tls_client_cert", "identity_dir", "client_name", "tamper"}
FileValues == {"b", "k3", "allow", "other"} \cup Dirs

(* What is no configuration differs from all that are, and from what is in *)
(* one.                                                                    *)
ASSUME FilesAssumption ==
    /\ Unreadable # Absent
    /\ \A keys \in SUBSET FileKeys : {Unreadable, Absent} \cap [keys -> FileValues] = {}
    /\ {Unreadable, Absent} \cap FileValues = {}

Empty == [k \in {} |-> Absent]
WrittenByHand ==
    {[signing |-> "k3"], [signing |-> "k3", identity_dir |-> "root"],
     [client_name |-> "one", tamper |-> "allow"], Unreadable, Absent}

NoIdentity == [bundle |-> "none", key |-> Absent, cert |-> Absent]
Identity(key) == [bundle |-> "whole", key |-> key, cert |-> "c1"]
NoDirs == [d \in Dirs |-> NoIdentity]
Legacy == [NoDirs EXCEPT !["root"] = Identity("k1")]

-----------------------------------------------------------------------------
(* Reading *)

(* load_config: a file that cannot be read is an empty configuration. *)
Read(file) == IF file \in {Unreadable, Absent} THEN Empty ELSE file
Value(config, k) == IF k \in DOMAIN config THEN config[k] ELSE Absent

(* The keys and values of one configuration laid over another. *)
Over(new, old) ==
    [k \in DOMAIN new \cup DOMAIN old |-> IF k \in DOMAIN new THEN new[k] ELSE old[k]]

(* resolve_identity_dir: the directory the configuration names, the one     *)
(* active.json names, the one of the client's name, enrollment/ itself: the *)
(* first that has an identity.json.                                         *)
Exists(d) == d \in Dirs /\ dirs[d].bundle # "none"
Resolve(config) ==
    IF Exists(Value(config, "identity_dir")) THEN Value(config, "identity_dir")
    ELSE IF Exists(pointer) THEN pointer
    ELSE IF Exists(Value(config, "client_name")) THEN Value(config, "client_name")
    ELSE IF Exists("root") THEN "root" ELSE Absent

Overlay(d) == [signing |-> d, tls_client_cert |-> d, client_name |-> "one"]

(* load_runtime_config, merge_runtime_config: the identity lies over what   *)
(* the file says, unless its identity.json does not parse.                  *)
RuntimeOf(file) ==
    LET d == Resolve(Read(file))
    IN  IF d # Absent /\ dirs[d].bundle = "whole" THEN Over(Overlay(d), Read(file))
                                                  ELSE Read(file)
Runtime == RuntimeOf(disk)

(* The key a session verifies commands with: a PEM or the file of a path. *)
SigningKey(config) ==
    LET value == Value(config, "signing")
    IN  IF value \in Dirs THEN dirs[value].key ELSE value

CertOf(config) ==
    LET value == Value(config, "tls_client_cert")
    IN  IF value \in Dirs THEN dirs[value].cert ELSE Absent

(* _monitored_paths, compute_snapshot: a component without a file has no    *)
(* label; of the signing key the configured value is hashed, for an         *)
(* enrolled host the path, and not the file it names.                       *)
Snapshot(config) ==
    [label \in {"binary", "signing"}
               \cup (IF disk # Absent THEN {"config"} ELSE {})
               \cup (IF CertOf(config) # Absent THEN {"cert"} ELSE {}) |->
        CASE label = "binary" -> binary
          [] label = "signing" -> Value(config, "signing")
          [] label = "config" -> disk
          [] label = "cert" -> CertOf(config)]

Now == Snapshot(Runtime)

(* The settings tamper.baseline_file and tamper.allow_rebaseline. *)
BaselineFile(config) == IF Value(config, "tamper") = "other" THEN "other" ELSE "usual"
AllowsRebaseline(config) == Value(config, "tamper") = "allow"

(* Variant: hashes of values are not compared. *)
DifferencesOfFiles(now, then) ==
    {label \in DOMAIN now \ {"signing"} : label \notin DOMAIN then \/ now[label] # then[label]}

(* check: components there are now that are new, or have another hash. *)
Differences(now, then) ==
    {label \in DOMAIN now : label \notin DOMAIN then \/ now[label] # then[label]}

TamperedWith(f) ==
    /\ baseline[f] # Absent
    /\ Differences(Now, baseline[f].snapshot) # {} \/ ~baseline[f].sound

(* save_baseline *)
MakesBaseline(f, snapshot, by) ==
    /\ baseline' = [baseline EXCEPT ![f] = [snapshot |-> snapshot, sound |-> TRUE]]
    /\ origin' = [origin EXCEPT ![f] = [snapshot |-> snapshot, by |-> by]]
    /\ touched' = [touched EXCEPT ![f] = {}]

FilesInit ==
    /\ disk \in WrittenByHand
    /\ \/ dirs \in {NoDirs, Legacy} /\ pointer = Absent
       \/ dirs = [Legacy EXCEPT !["one"] = Identity("k2")] /\ pointer = "one"
    /\ binary = 1
    /\ baseline = [f \in BaselineFiles |-> Absent]
    /\ session = Absent
    /\ alarm = FALSE
    /\ changes = 0
    /\ origin = [f \in BaselineFiles |-> Absent]
    /\ touched = [f \in BaselineFiles |-> {}]
    /\ local = disk
    /\ given = {SigningKey(Read(disk)), Absent} \cup {dirs[d].key : d \in Dirs}

-----------------------------------------------------------------------------
(* The session *)

(* client_session reads the configuration and calls verify_and_rebaseline;  *)
(* without a baseline there is nothing to compare with.                     *)
SessionStarts ==
    LET f == BaselineFile(Runtime) IN
    /\ session = Absent
    /\ session' = Runtime
    /\ alarm' = TamperedWith(f)
    /\ IF baseline[f] = Absent \/ (alarm' /\ AllowsRebaseline(Runtime))
       THEN MakesBaseline(f, Now, "session")
       ELSE UNCHANGED <<baseline, origin, touched>>
    /\ UNCHANGED <<host, changes, local, given>>

(* The baseline cannot be written: the exception leaves client_session      *)
(* before it connects, and before the event of what was found.              *)
SessionFails ==
    LET f == BaselineFile(Runtime) IN
    /\ session = Absent
    /\ baseline[f] = Absent \/ (TamperedWith(f) /\ AllowsRebaseline(Runtime))
    /\ alarm' = FALSE
    /\ UNCHANGED <<host, baseline, session, changes, history>>

SessionEnds ==
    /\ session # Absent
    /\ session' = Absent
    /\ UNCHANGED <<host, baseline, alarm, changes, history>>

-----------------------------------------------------------------------------
(* Commands *)

(* What a sender may write: one key or two, with a value of the right type, *)
(* the text of one, or another; and one key to remove.  "unknown" is not in *)
(* CONFIG_SCHEMA.                                                           *)
Sendable ==
    {<<"plain", "text_of_b">>, <<"plain", "wrong_type">>, <<"unknown", "k3">>,
     <<"signing", "k3">>, <<"identity_dir", "root">>, <<"client_name", "one">>,
     <<"tamper", "allow">>, <<"tamper", "other">>}
Diffs ==
    {[k \in {p[1]} |-> p[2]] : p \in Sendable} \cup {[plain |-> "text_of_b", signing |-> "k3"]}
Removals == {{}, {"signing"}, {"identity_dir"}, {"tamper"}}
ProtectedKeys == {"signing", "tls_client_cert"}

Touches(labels) ==
    touched' = [f \in BaselineFiles |-> IF baseline[f] = Absent THEN {} ELSE touched[f] \cup labels]

(* _coerce *)
Coerced(value) == IF value = "text_of_b" THEN "b" ELSE value

(* Variant: protected keys may be removed. *)
AcceptsRemoval(diff, remove) ==
    \A k \in DOMAIN diff : k # "unknown" /\ k \notin ProtectedKeys /\ diff[k] # "wrong_type"

(* validate_config_diff: one key that is unknown, protected or of a wrong   *)
(* type rejects the whole diff.                                             *)
Accepts(diff, remove) ==
    /\ \A k \in DOMAIN diff : k # "unknown" /\ k \notin ProtectedKeys /\ diff[k] # "wrong_type"
    /\ remove \cap ProtectedKeys = {}

(* apply_config_diff on the file, or on the configuration of the session    *)
(* when the file gives nothing; the new file replaces the old one whole.    *)
(* identity_dir, client_name and tamper are not protected: which identity   *)
(* the next session has, and what it compares, a command can change.        *)
UpdatesConfig ==
    /\ session # Absent /\ changes < MaxChange
    /\ \E diff \in Diffs, remove \in Removals :
        LET base == IF Read(disk) = Empty THEN session ELSE disk
            kept == [k \in DOMAIN base \ remove |-> base[k]]
        IN /\ Accepts(diff, remove)
           /\ disk' = Over([k \in DOMAIN diff |-> Coerced(diff[k])], kept)
    /\ changes' = changes + 1
    /\ Touches({"config", "signing", "cert"})
    /\ UNCHANGED <<dirs, pointer, binary, baseline, session, alarm, origin, local, given>>

(* trigger_update runs the script of auto_update, which replaces the        *)
(* program or fails before it did, whatever its return code.  An update by  *)
(* url changes nothing: urlretrieve has no parameter timeout, the call      *)
(* raises and the answer is an error (download_update).                     *)
TriggersUpdate ==
    /\ session # Absent /\ changes < MaxChange
    /\ binary' = binary + 1
    /\ changes' = changes + 1
    /\ Touches({"binary"})
    /\ UNCHANGED <<disk, dirs, pointer, baseline, session, alarm, origin, local, given>>

(* health_check reports the state of the baseline, and makes it when there  *)
(* is none, of the file as it is: the identity does not lie over it.        *)
HealthChecks ==
    LET f == BaselineFile(Read(disk)) IN
    /\ session # Absent /\ baseline[f] = Absent
    /\ MakesBaseline(f, Snapshot(Read(disk)), "health_check")
    /\ UNCHANGED <<host, session, alarm, changes, local, given>>

-----------------------------------------------------------------------------
(* The host *)

ByHand(labels) ==
    /\ changes < MaxChange
    /\ changes' = changes + 1
    /\ Touches(labels)
    /\ UNCHANGED <<session, alarm, origin>>

EditsConfig ==
    /\ ByHand({"config", "signing", "cert"})
    /\ disk' \in WrittenByHand \ {disk}
    /\ local' = disk'
    /\ given' = given \cup {SigningKey(Read(disk'))}
    /\ UNCHANGED <<dirs, pointer, binary, baseline>>

EditsBinary ==
    /\ ByHand({"binary"})
    /\ binary' = binary + 1
    /\ UNCHANGED <<disk, dirs, pointer, baseline, local, given>>

(* --enroll: a directory of its own, which active.json names from then on. *)
GetsIdentity ==
    /\ ByHand({"cert", "signing"})
    /\ dirs["one"].bundle = "none"
    /\ dirs' = [dirs EXCEPT !["one"] = Identity("k2")]
    /\ pointer' = "one"
    /\ given' = given \cup {"k2"}
    /\ UNCHANGED <<disk, binary, baseline, local>>

(* A file of an identity is replaced in place, damaged or removed. *)
EditsIdentity ==
    /\ \E d \in Dirs :
        /\ dirs[d].bundle # "none"
        /\ \/ ByHand({}) /\ dirs' = [dirs EXCEPT ![d].key = "k3"]
           \/ ByHand({"cert"}) /\ dirs' = [dirs EXCEPT ![d].cert = "c2"]
           \/ ByHand({"cert", "signing"}) /\ dirs' = [dirs EXCEPT ![d].bundle = "torn"]
           \/ ByHand({"cert", "signing"}) /\ dirs' = [dirs EXCEPT ![d] = NoIdentity]
        /\ given' = given \cup {dirs'[d].key}
    /\ UNCHANGED <<disk, pointer, binary, baseline, local>>

(* active.json is written by hand, or lost. *)
EditsPointer ==
    /\ ByHand({"cert", "signing"})
    /\ pointer' \in {"one", Absent} \ {pointer}
    /\ UNCHANGED <<disk, dirs, binary, baseline, local, given>>

(* A baseline is lost or unreadable, or its fingerprint is not its own. *)
SpoilsBaseline ==
    /\ ByHand({})
    /\ \E f \in BaselineFiles :
        /\ baseline[f] # Absent
        /\ baseline' = [baseline EXCEPT ![f] = Absent]
           \/ baseline' = [baseline EXCEPT ![f].sound = FALSE]
    /\ UNCHANGED <<host, local, given>>

FilesNext ==
    \/ SessionStarts \/ SessionFails \/ SessionEnds
    \/ UpdatesConfig \/ TriggersUpdate \/ HealthChecks
    \/ EditsConfig \/ EditsBinary \/ GetsIdentity \/ EditsIdentity \/ EditsPointer \/ SpoilsBaseline

-----------------------------------------------------------------------------
Same(f, label) ==
    /\ label \in DOMAIN origin[f].snapshot
    /\ Now[label] = origin[f].snapshot[label]

(* "Detecta modificación no autorizada de los componentes del agente", of   *)
(* what is hashed: when a session finds the baseline its configuration      *)
(* names, no alarm means that every watched component somebody may have     *)
(* touched since it was made is as it was then, or is gone; an alarm means  *)
(* that something watched was touched, or the baseline itself was, or that  *)
(* health_check made it, which does not see what a session sees.  A signing *)
(* key replaced in its file touches nothing that is watched, so it alone    *)
(* raises no alarm; commands touch components like anybody else.            *)
AlarmMeansChange ==
    [][session = Absent /\ session' # Absent =>
         LET f == BaselineFile(session') IN
         baseline[f] # Absent =>
             /\ alarm' \/ \A label \in touched[f] \cap DOMAIN Now : Same(f, label)
             /\ alarm' => \/ touched[f] # {} \/ ~baseline[f].sound
                          \/ origin[f].by = "health_check"]_fileVars

(* What names an identity in a file. *)
SameNames(a, b) ==
    \A k \in {"identity_dir", "client_name"} : Value(Read(a), k) = Value(Read(b), k)

(* PROTECTED_CONFIG_KEYS, "no modificables en remoto".  The key the next    *)
(* session verifies commands with is one this host was given, by hand or by *)
(* an enrollment, whichever identity a command chooses and whatever was     *)
(* written, lost or rewritten from a session before.  And as long as the    *)
(* file names the identity it named when it was last written by hand, the   *)
(* configured key is the one that file leads to, unless it gave nothing.    *)
ProtectedIsLocal ==
    /\ SigningKey(Runtime) \in given
    /\ Read(local) # Empty /\ SameNames(disk, local) =>
           Value(Runtime, "signing") = Value(RuntimeOf(local), "signing")
=============================================================================
