----------------------------- MODULE MCEnrollment -----------------------------
(* Values for the constants of the enrollment runs. *)
EXTENDS EnrollmentProperties, TLC

CONSTANTS h1, m1, m2, s1, control, bootstrap

Renamed == Permutations(Minted) \cup Permutations(Port)
=============================================================================
