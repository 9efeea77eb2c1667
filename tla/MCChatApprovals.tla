-------------------------- MODULE MCChatApprovals ---------------------------
(* ChatApprovals for TLC: requests, git and other actions as model values.    *)
EXTENDS ChatApprovals
CONSTANTS c1, c2, push, create
=============================================================================
