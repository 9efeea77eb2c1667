---------------------------- MODULE ChatApprovals ----------------------------
(***************************************************************************)
(* The approvals of one chat session, across requests: the proposal that    *)
(* is stored with the session, the question that a reader of the transcript *)
(* may infer, and the ActionRecord behind an approved git tool.  A proposal *)
(* is approved by POST /chat/:id/confirm-action (chatConfirmActionRun.ts)   *)
(* or by a "yes" in POST /chat (chatMessageApprovals.ts), and refused by    *)
(* decline-action or by any other message.  A confirmed git tool goes       *)
(* through runVerifiedChatAction(); everything else runs directly.          *)
(*                                                                          *)
(* The session file is read and written synchronously, so what happens      *)
(* between two awaits of real I/O is one action.  The stream of a turn and  *)
(* the planner are the subject of ChatTurn, the store under several callers *)
(* that of DeliveryActions.                                                 *)
(***************************************************************************)
EXTENDS Integers, FiniteSets

CONSTANTS
    Client,         \* requests of the session that may be served at once
    Verified,       \* approvable calls of git tools, one per approval id
    Direct,         \* approvable calls of all other tools
    None,           \* no proposal, no question
    MaxRequests,    \* bound on the messages, clicks and prepared proposals
    MaxEdits,       \* bound on changes of the world by somebody else
    MaxCrashes      \* bound on deaths of the daemon

Action == Verified \cup Direct

ASSUME NoneAssumption == None \notin Action
ASSUME KindsAssumption == Verified \cap Direct = {}
ASSUME BoundsAssumption == MaxRequests \in Nat /\ MaxEdits \in Nat /\ MaxCrashes \in Nat

VARIABLES
    stored,         \* approvalProposal of the session
    asked,          \* what inferPendingAction() makes of the last answer
    record,         \* the status of the ActionRecord of a verified action
    shown,          \* the actions whose expected result the repository shows
    req,            \* the requests: where each stands, and on which action
    seen,           \* did a re-read confirm the action of the request meanwhile?
    answers,        \* approvals and refusals of the last stored proposal
    wrote,          \* verified actions whose tool has reported success
    overlapped,     \* verified actions that two requests have carried out at once
    unrecorded,     \* verified actions whose last execution left no trace in the record
    spent           \* requests, edits and crashes so far

vars == <<stored, asked, record, shown, req, seen, answers, wrote, overlapped,
          unrecorded, spent>>

session == <<stored, asked, answers>>
ghosts  == <<seen, wrote, overlapped, unrecorded>>

Bounds == [requests |-> MaxRequests, edits |-> MaxEdits, crashes |-> MaxCrashes]

Choice   == Action \cup {None}
InFlight == {"executing", "verifying"}
Statuses == InFlight \cup {"none", "awaiting", "verified", "failed", "unverified", "stale"}
Carrying == {"resuming", "proposing", "retrying", "approving", "executing", "verifying"}

Request ==
    [pc : Carrying \cup {"idle", "arrived", "setup", "running", "reading", "outcome", "planning"},
     via : {"ask", "no", "yes", "click"},
     act : Choice, todo : SUBSET (Verified \X InFlight), ok : BOOLEAN]

TypeOK ==
    /\ stored \in Choice /\ asked \in Choice
    /\ record \in [Verified -> Statuses]
    /\ shown \in SUBSET Action
    /\ req \in [Client -> Request]
    /\ \A c \in Client : req[c].pc \in Carrying \cup {"reading"} => req[c].act \in Verified
    /\ \A c \in Client : req[c].pc \in {"setup", "running", "outcome"} => req[c].act \in Action
    /\ seen \in [Client -> BOOLEAN]
    /\ answers \in Nat
    /\ wrote \in SUBSET Verified /\ overlapped \in SUBSET Verified
    /\ unrecorded \in SUBSET Verified
    /\ spent \in [requests : 0..MaxRequests, edits : 0..MaxEdits, crashes : 0..MaxCrashes]

Idle == [pc |-> "idle", via |-> "click", act |-> None, todo |-> {}, ok |-> FALSE]

Init ==
    /\ stored = None /\ asked = None
    /\ record = [a \in Verified |-> "none"]
    /\ shown = {}
    /\ req = [c \in Client |-> Idle]
    /\ seen = [c \in Client |-> FALSE]
    /\ answers = 0
    /\ wrote = {} /\ overlapped = {} /\ unrecorded = {}
    /\ spent = [requests |-> 0, edits |-> 0, crashes |-> 0]

----------------------------------------------------------------------------

Move(c, pc, act, todo, ok) ==
    req' = [req EXCEPT ![c] =
               [pc |-> pc, via |-> req[c].via, act |-> act, todo |-> todo, ok |-> ok]]

Goto(c, pc)  == Move(c, pc, req[c].act, {}, FALSE)
Tell(c, ok)  == Move(c, "outcome", req[c].act, {}, ok)
Start(c, pc, via, a) ==
    req' = [req EXCEPT ![c] = [pc |-> pc, via |-> via, act |-> a, todo |-> {}, ok |-> FALSE]]
End(c)       == req' = [req EXCEPT ![c] = Idle]
Charge(what) == spent[what] < Bounds[what] /\ spent' = [spent EXCEPT ![what] = @ + 1]

\* setStoredApprovalProposal() and clearStoredApprovalProposal()
Place(a)   == stored' = a /\ answers' = IF a = None THEN answers ELSE 0
TakeStored == stored' = None /\ answers' = IF stored = None THEN answers ELSE answers + 1

Save(a, status) == record' = [record EXCEPT ![a] = status]

----------------------------------------------------------------------------
(* POST /chat: a message, and what it makes of a pending proposal.          *)

Say(c, via) ==
    /\ req[c].pc = "idle"
    /\ Charge("requests")
    /\ Start(c, "arrived", via, None)
    /\ UNCHANGED <<session, record, shown, ghosts>>

Pending(c) ==
    IF stored = None /\ req[c].via = "yes" THEN asked ELSE stored

\* A client that is gone (left) gets as far as the first event.
Answer(c, left) ==
    /\ req[c].pc = "arrived" /\ Pending(c) # None
    /\ TakeStored
    /\ \/ left /\ End(c) /\ UNCHANGED asked
       \/ ~left /\ req[c].via = "no" /\ End(c) /\ asked' = None
       \/ ~left /\ req[c].via = "ask" /\ Goto(c, "planning") /\ UNCHANGED asked
       \/ /\ ~left /\ req[c].via = "yes" /\ UNCHANGED asked
          /\ Move(c, "running", Pending(c), {}, FALSE)
    /\ UNCHANGED <<record, shown, ghosts, spent>>

NothingPending(c) ==
    /\ req[c].pc = "arrived" /\ Pending(c) = None
    /\ Goto(c, "planning")
    /\ UNCHANGED <<session, record, shown, ghosts, spent>>

\* The planner concludes; its proposal is stored.  The answer joins the
\* transcript, but not when the route of a continuation returns at "done".
Conclude(c) ==
    /\ req[c].pc = "planning"
    /\ \E a \in Choice : Place(a)
    /\ IF req[c].via = "click" THEN UNCHANGED asked ELSE asked' \in Choice
    /\ End(c)
    /\ UNCHANGED <<record, shown, ghosts, spent>>

PlanFails(c) ==
    /\ req[c].pc = "planning"
    /\ asked' \in {asked} \cup (IF req[c].via = "click" THEN {} ELSE {None})
    /\ End(c)
    /\ UNCHANGED <<stored, answers, record, shown, ghosts, spent>>

----------------------------------------------------------------------------
(* POST /chat/:id/confirm-action and decline-action.                        *)

Resolved == IF stored # None THEN stored ELSE asked

\* Mutant of Click: the proposal is cleared by the end of the run only.
ClickUncleared(c) ==
    /\ req[c].pc = "idle" /\ Resolved # None
    /\ Charge("requests")
    /\ UNCHANGED stored /\ answers' = IF stored = None THEN answers ELSE answers + 1
    /\ Start(c, "setup", "click", Resolved)
    /\ seen' = [seen EXCEPT ![c] = FALSE]
    /\ UNCHANGED <<asked, record, shown, wrote, overlapped, unrecorded>>

\* The proposal is cleared before the runtime is set up and the tool runs.
Click(c) ==
    /\ req[c].pc = "idle" /\ Resolved # None
    /\ Charge("requests")
    /\ TakeStored
    /\ Start(c, "setup", "click", Resolved)
    /\ seen' = [seen EXCEPT ![c] = FALSE]
    /\ UNCHANGED <<asked, record, shown, wrote, overlapped, unrecorded>>

\* Mutant of SetUp: every approved tool is taken for a git tool.
SetUpVerified(c) ==
    /\ req[c].pc = "setup"
    /\ Goto(c, "reading") \/ End(c)
    /\ UNCHANGED <<session, record, shown, ghosts, spent>>

\* The credential, the runtime and, for a git tool, the baseline it will be
\* verified against; each may fail, and then the approval is gone.
SetUp(c) ==
    /\ req[c].pc = "setup"
    /\ \/ Goto(c, IF req[c].act \in Verified THEN "reading" ELSE "running")
       \/ End(c)
    /\ UNCHANGED <<session, record, shown, ghosts, spent>>

Decline ==
    /\ stored # None
    /\ TakeStored
    /\ asked' = None
    /\ UNCHANGED <<record, shown, req, ghosts, spent>>

\* A workflow page stores a proposal of its own.
Prepare(a) ==
    /\ Charge("requests")
    /\ Place(a)
    /\ UNCHANGED <<asked, record, shown, req, ghosts>>

----------------------------------------------------------------------------
(* A tool that runs directly: streamAndPersistConfirmedAction().  It is cut *)
(* short when the transcript cannot be written, or the client of /chat is   *)
(* gone before it hears of the tool.                                        *)

Run(c, ok, cut) ==
    /\ req[c].pc = "running"
    /\ shown' = IF ok THEN shown \cup {req[c].act} ELSE shown
    /\ asked' = IF cut THEN asked ELSE None
    /\ \/ cut /\ End(c)
       \/ ~cut /\ req[c].via = "yes" /\ Goto(c, "planning")
       \/ ~cut /\ req[c].via = "click" /\ Tell(c, ok)
    /\ UNCHANGED <<stored, answers, record, ghosts, spent>>

----------------------------------------------------------------------------
(* A git tool: runVerifiedChatAction() over DeliveryActionRuntime.          *)

\* Mutant of Retries: a write that was not verified is taken for no write.
RetriesUnverified(status) == status \in {"failed", "unverified"}

Retries(status) == status = "failed"

\* The request carries out the action, or verifies its record.
Touches(r, a) == r.pc \in Carrying /\ (r.act = a \/ \E s \in InFlight : <<a, s>> \in r.todo)

\* What the record of an earlier approval with this id allows.
Dispatch(c) ==
    LET a == req[c].act
    IN /\ req[c].pc = "reading"
       /\ \/ record[a] = "none" /\ Goto(c, "proposing")
          \/ Retries(record[a]) /\ Goto(c, "retrying")
          \/ /\ record[a] \in InFlight
             /\ Move(c, "resuming", a, {p \in Verified \X InFlight : record[p[1]] = p[2]}, FALSE)
          \/ record[a] = "verified" /\ Tell(c, TRUE)
          \/ /\ record[a] \notin InFlight \cup {"none", "verified"} /\ ~Retries(record[a])
             /\ Tell(c, FALSE)
       /\ overlapped' = overlapped \cup
             {b \in Verified : Touches(req'[c], b) /\ \E d \in Client \ {c} : Touches(req[d], b)}
       /\ UNCHANGED <<session, record, shown, seen, wrote, unrecorded, spent>>

\* propose(): the insert fails when the row is there by now.
Propose(c, denied) ==
    /\ req[c].pc = "proposing"
    /\ IF record[req[c].act] = "none"
         THEN Save(req[c].act, IF denied THEN "failed" ELSE "awaiting")
         ELSE UNCHANGED record
    /\ \/ record[req[c].act] # "none" /\ End(c)
       \/ record[req[c].act] = "none" /\ denied /\ Tell(c, FALSE)
       \/ record[req[c].act] = "none" /\ ~denied /\ Goto(c, "approving")
    /\ UNCHANGED <<session, shown, ghosts, spent>>

Retry(c, denied) ==
    /\ req[c].pc = "retrying"
    /\ Save(req[c].act, IF denied THEN "failed" ELSE "awaiting")
    /\ IF denied THEN Tell(c, FALSE) ELSE Goto(c, "approving")
    /\ UNCHANGED <<session, shown, ghosts, spent>>

\* approveStreaming(): the row says executing before the tool starts.
Approve(c, denied) ==
    /\ req[c].pc = "approving"
    /\ Save(req[c].act, IF denied THEN "stale" ELSE "executing")
    /\ IF denied THEN Tell(c, FALSE) ELSE Goto(c, "executing")
    /\ UNCHANGED <<session, shown, ghosts, spent>>

\* The tool reports success or failure; the repository shows what it shows.
Execute(c, ok) ==
    LET a == req[c].act
    IN /\ req[c].pc = "executing"
       /\ shown' \in {shown, shown \cup {a}}
       /\ wrote' = IF ok THEN wrote \cup {a} ELSE wrote
       /\ asked' = None
       /\ Save(a, IF ok THEN "verifying" ELSE "failed")
       /\ unrecorded' = IF ok THEN unrecorded \ {a} ELSE unrecorded
       /\ IF ok THEN Goto(c, "verifying") ELSE Tell(c, FALSE)
       /\ UNCHANGED <<stored, answers, seen, overlapped, spent>>

\* The tool has run, but an append to the transcript throws through
\* approveStreaming(): the row says executing, without executedAt, for good.
ExecuteUnrecorded(c, ok) ==
    LET a == req[c].act
    IN /\ req[c].pc = "executing"
       /\ shown' \in {shown, shown \cup {a}}
       /\ wrote' = IF ok THEN wrote \cup {a} ELSE wrote
       /\ unrecorded' = unrecorded \cup {a}
       /\ End(c)
       /\ UNCHANGED <<session, record, seen, overlapped, spent>>

\* Mutant of Confirms: what the tool reported is believed.
ConfirmsReport(a, read) == read

\* The bounded re-read: only what the repository shows is confirmed.
Confirms(a, read) == read /\ a \in shown

Sight(a, confirmed) ==
    seen' = [d \in Client |-> seen[d] \/ (confirmed /\ a \in shown /\ req[d].act = a)]

Verify(c, read) ==
    LET a == req[c].act
    IN /\ req[c].pc = "verifying"
       /\ Save(a, IF Confirms(a, read) THEN "verified" ELSE "unverified")
       /\ Tell(c, Confirms(a, read))
       /\ Sight(a, Confirms(a, read))
       /\ UNCHANGED <<session, shown, wrote, overlapped, unrecorded, spent>>

\* Mutant of Remaining: the list is never worked off.
RemainingAll(todo, p) == todo

Remaining(todo, p) == todo \ {p}

\* resumeVerification(): all rows that were in flight, one after the other; a
\* row without executedAt that cannot be confirmed counts as interrupted.
Resume(c, p, read) ==
    LET rest   == Remaining(req[c].todo, p)
        status == IF Confirms(p[1], read) THEN "verified"
                  ELSE IF p[2] = "executing" THEN "failed" ELSE "unverified"
    IN /\ req[c].pc = "resuming" /\ p \in req[c].todo
       /\ Save(p[1], status)
       /\ Sight(p[1], Confirms(p[1], read))
       /\ IF rest = {} THEN Tell(c, record'[req[c].act] = "verified")
                       ELSE Move(c, "resuming", req[c].act, rest, FALSE)
       /\ UNCHANGED <<session, shown, wrote, overlapped, unrecorded, spent>>

----------------------------------------------------------------------------
(* streamConfirmedActionOutcome(): the next proposal of the workflow, its   *)
(* end, a recovery, or the planner goes on.                                 *)

Outcome(c) ==
    /\ req[c].pc = "outcome"
    /\ \/ req[c].ok /\ \E a \in Choice : Place(a) /\ End(c)
       \/ ~req[c].ok /\ Place(None) /\ End(c)
       \/ Goto(c, "planning") /\ UNCHANGED <<stored, answers>>
    /\ UNCHANGED <<asked, record, shown, ghosts, spent>>

----------------------------------------------------------------------------
(* The world: the repository changes, the daemon dies and starts again.     *)

Edit(a) ==
    /\ Charge("edits")
    /\ shown' \in {shown \ {a}, shown \cup {a}}
    /\ UNCHANGED <<session, record, req, ghosts>>

\* The session and the records are on disk.  A tool that runs may take effect.
Crash ==
    LET cut == {req[c].act : c \in {d \in Client : req[d].pc \in {"running", "executing"}}}
    IN /\ Charge("crashes")
       /\ req' = [c \in Client |-> Idle]
       /\ \E landed \in SUBSET cut :
             shown' = shown \cup landed
       /\ unrecorded' = unrecorded \cup
             {req[c].act : c \in {d \in Client : req[d].pc = "executing"}}
       /\ UNCHANGED <<session, record, seen, wrote, overlapped>>

----------------------------------------------------------------------------

Step(c) ==
    \/ \E left \in BOOLEAN : Answer(c, left)
    \/ NothingPending(c) \/ Conclude(c) \/ PlanFails(c) \/ SetUp(c)
    \/ \E ok, cut \in BOOLEAN : Run(c, ok, cut)
    \/ Dispatch(c)
    \/ \E denied \in BOOLEAN : Propose(c, denied) \/ Retry(c, denied) \/ Approve(c, denied)
    \/ \E ok \in BOOLEAN : Execute(c, ok) \/ ExecuteUnrecorded(c, ok) \/ Verify(c, ok)
    \/ \E p \in Verified \X InFlight, read \in BOOLEAN : Resume(c, p, read)
    \/ Outcome(c)

Next ==
    \/ \E c \in Client : Step(c) \/ Click(c) \/ \E via \in {"ask", "no", "yes"} : Say(c, via)
    \/ Decline \/ Crash
    \/ \E a \in Action : Prepare(a) \/ Edit(a)

Spec == Init /\ [][Next]_vars

\* What a request awaits is answered, or fails.
FairSpec == Spec /\ \A c \in Client : WF_vars(Step(c))

----------------------------------------------------------------------------
(* What an approval is worth.                                               *)

\* A stored proposal is approved or refused once, by one of the requests that
\* find it: not by two clicks, and not by a click and a message.  (A click that
\* finds none may still infer the question from the transcript.)
ProposalAnsweredOnce == answers <= 1

\* A git tool that has reported success is not run again for another approval
\* with the same id: duplicates replay the verified record, and records that
\* were executed and failed verification are never re-run
\* (chatVerifiedActionRuntime.ts 11-14).  It is run again in two cases: two
\* requests carried it out at once, or its last execution left no trace in the
\* record, because the daemon died or the transcript could not be written while
\* the row said executing; a re-read that does not confirm such a row makes it
\* failed without executedAt, which the next approval retries.
WritesNotRepeated ==
    [][\A c \in Client :
          req[c].pc = "approving" /\ req'[c].pc = "executing" /\ req[c].act \in wrote
             => req[c].act \in overlapped \cup unrecorded]_vars

\* A git action that is answered with success was confirmed by a re-read while
\* the request was served (chatVerifiedActionRuntime.ts 50: "true only when the
\* re-read confirmed the write"), or the repository shows its result anyway.
OkIsConfirmed ==
    [][\A c \in Client :
          req[c].pc # "outcome" /\ req'[c].pc = "outcome" /\ req'[c].act \in Verified
             /\ req'[c].ok => seen'[c] \/ req[c].act \in shown]_vars

\* A git action is answered with success when a re-read has confirmed it while
\* the request was served, or when its record was verified already; an execution
\* that was cut short, or is in the hands of another request, is no success.
OkIsConfirmedOnce ==
    [][\A c \in Client :
          req[c].pc # "outcome" /\ req'[c].pc = "outcome" /\ req'[c].act \in Verified
             /\ req'[c].ok => seen'[c] \/ record[req[c].act] = "verified"]_vars

\* A confirmed action is answered, whatever its record has been through.
ClicksAreAnswered ==
    \A c \in Client : (req[c].pc # "idle" /\ req[c].via = "click") ~> req[c].pc = "idle"
=============================================================================
