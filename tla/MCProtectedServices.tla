-------------------------- MODULE MCProtectedServices --------------------------
(* Two rotations would only repeat the first; one mishap anywhere in the run,  *)
(* and one poll beyond the first, let every branch be taken.                   *)
EXTENDS ProtectedServices
CONSTANTS s1, s2, s3
MCHosts == {s1, s2, s3}
MCFlashHosts == {s1, s2}
=============================================================================
