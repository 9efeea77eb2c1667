-------------------------- MODULE MCGitCheckpoints --------------------------
(* GitCheckpoints for TLC: names of files and requests.                     *)
EXTENDS GitCheckpoints

CONSTANTS f1, c1
=============================================================================
