---------------------------- MODULE MCReviewAgent ----------------------------
(* ReviewAgent for TLC: the first iteration changes no file and may be         *)
(* approved, and a later one then takes its place in the history. Commits are  *)
(* interchangeable, yet no symmetry is declared: it is unsound for liveness.   *)
EXTENDS ReviewAgent

FirstUnchanged == {1}
=============================================================================
