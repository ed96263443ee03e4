------------------------ MODULE EnrollmentProperties ------------------------
(***************************************************************************)
(* What enrollment must guarantee, and mutated forms of its definitions.   *)
(***************************************************************************)
EXTENDS Enrollment

(* One token, one identity ("token de un solo uso", enrollment.py:11), at    *)
(* whichever instant the server process ends and however often a host        *)
(* retries; unless the two listeners ran two redemptions side by side, each  *)
(* of which then saves the consumed tokens without the other's.              *)
SingleUse == overlap # "enrolls" => \A t \in Token : bundles[t] <= 1

(* A consumed token stays consumed through every save and every crash, with  *)
(* the same exception.                                                       *)
ConsumedStays == [][overlap' # "enrolls" => Consumed \subseteq Consumed']_vars

(* A token a user was given stays good until it expires or is consumed:      *)
(* always with a tokens file; without one, except when the server stopped    *)
(* between the two saves of its redemption or handlers ran side by side.     *)
NoTokenVanishes ==
    \A t \in handed \ expired :
        \/ t \in Consumed \cup LoadIssued
        \/ ~logged /\ \/ t \in lostAt
                      \/ \E p \in Port : Between(worker[p]) /\ worker[p].token = t
                      \/ overlap # "none"

(* Once a run has reported success, the agent of that host finds a readable  *)
(* identity at every start: while other runs go on, and also at rest after   *)
(* one run that was killed at work on its files.  Directories saved with     *)
(* --enroll-insecure are not counted: they are written twice, the second     *)
(* time in place.                                                            *)
KeepsItsIdentity ==
    \A h \in Named :
        (/\ reported[h] \ lab[h] # {} /\ Resolved(h) \notin lab[h]
         /\ cliDeaths[h] = 0 \/ (cli[h].at = "idle" /\ cliDeaths[h] = 1))
        => Resolved(h) # 0 /\ dir[h][Resolved(h)] = "whole"
=============================================================================
