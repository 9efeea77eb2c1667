----------------------------- MODULE ReviewAgent -----------------------------
(* The hosted review service (packages/review-agent): replicas that receive    *)
(* webhooks for one pull request, each with its own in-memory queue and one    *)
(* worker, over one shared history row.                                        *)
(*                                                                             *)
(* A replica's worker awaits one request after the other; an action is the     *)
(* code between two awaits with the effect of the request that was awaited,    *)
(* and pc names that request. A request that fails, or whose replica dies, may *)
(* have taken effect.                                                          *)
(*                                                                             *)
(* Abstracted: what a review says. Its summary may be empty (no threads), its  *)
(* findings are posted by one step after the summary, and the decision is any  *)
(* that decideReviewOutcome can reach. handle() passes no base commit, so a    *)
(* changed file never has hunks, context confidence is below high, and only    *)
(* an iteration without changed files can be approved.                         *)
EXTENDS Naturals, Sequences, FiniteSets

CONSTANTS
    Replicas,
    Commits,        \* source commits a webhook may name: the queue's keys
    MaxIteration,   \* bound: iterations of the pull request
    Unchanged,      \* iterations without changed files
    DoneLimit,      \* doneLimit: keys a queue remembers
    MaxEvents,      \* bound: webhooks accepted
    MaxFaults,      \* bound: failed requests and dead replicas
    NoJob

ASSUME ReviewAgentAssumption ==
    /\ NoJob \notin Commits
    /\ MaxIteration \in Nat /\ DoneLimit \in Nat /\ MaxEvents \in Nat /\ MaxFaults \in Nat
    /\ Unchanged \subseteq 1..MaxIteration

Iterations == 1..MaxIteration

VARIABLES
    head,       \* the newest iteration of the pull request, 0 before the first
    threads,    \* summary threads posted for each iteration
    approved,   \* iterations whose review voted for the pull request
    last,       \* lastIterationId of the history row, 0 for no row
    audited,    \* the iteration of the history row, if the row names its approval
    pc,         \* the request each worker awaits
    pending,    \* keys of IdempotentQueue.pending, oldest first
    done,       \* IdempotentQueue.done, oldest first
    job,        \* IdempotentQueue.inFlight
    latest,     \* handle(): the iteration it reviews
    decision,   \* handle(): decision.autoApprove
    \* history
    events,     \* webhooks queued
    faults,
    overlaps,   \* reviews started while another replica was reviewing
    announced,  \* newest iteration at each webhook that was queued
    recorded    \* iterations whose review was written to the history

queueVars == <<pending, done, job>>
remoteVars == <<head, threads, approved, last, recorded, audited>>
vars == <<remoteVars, pc, queueVars, latest, decision, events, faults, overlaps, announced>>

Requests == {"iterations", "history", "reviewing", "posting", "inline", "approving", "recording"}
Working(r) == pc[r] \in Requests
Goto(r, step) == pc' = [pc EXCEPT ![r] = step]
Held(s) == {s[i] : i \in 1..Len(s)}

\* hasSeen(): keys that enqueue() drops.
Seen(r, c) == c \in Held(done[r]) \/ c \in Held(pending[r]) \/ c = job[r]

Fault == faults < MaxFaults /\ faults' = faults + 1

-----------------------------------------------------------------------------
(* The requests that change something outside the replica                      *)

CreateThread(r) ==
    /\ pc[r] = "posting"
    /\ threads' = [threads EXCEPT ![latest[r]] = @ + 1]
    /\ UNCHANGED <<head, approved, last, recorded, audited>>

ApprovePullRequest(r) ==
    /\ pc[r] = "approving"
    /\ approved' = approved \cup {latest[r]}
    /\ UNCHANGED <<head, threads, last, recorded, audited>>

\* upsertEntity(row, "Replace"): autoApprovedAt and autoApprovalActor of an earlier
\* review are gone.
UpsertHistory(r) ==
    /\ pc[r] = "recording"
    /\ last' = latest[r]
    /\ recorded' = recorded \cup {latest[r]}
    /\ audited' = IF decision[r] THEN {latest[r]} ELSE {}
    /\ UNCHANGED <<head, threads, approved>>

\* A request nobody saw the answer of.
Unanswered(r) ==
    CreateThread(r) \/ ApprovePullRequest(r) \/ UpsertHistory(r) \/ UNCHANGED remoteVars

-----------------------------------------------------------------------------
(* IdempotentQueue                                                             *)

\* enqueue() behind POST /webhooks/ado/pr, answered 202. The event may be late
\* or redelivered, and any replica may receive it.
Deliver(r, c) ==
    /\ pc[r] # "off"
    /\ events < MaxEvents
    /\ ~Seen(r, c)
    /\ pending' = [pending EXCEPT ![r] = Append(@, c)]
    /\ events' = events + 1
    /\ announced' = announced \cup {head}
    /\ UNCHANGED <<remoteVars, pc, done, job, latest, decision, faults, overlaps>>

\* start(): the oldest pending key goes in flight and handle() sends its first request.
Take(r) ==
    /\ pc[r] = "idle" /\ pending[r] # <<>>
    /\ job' = [job EXCEPT ![r] = Head(pending[r])]
    /\ pending' = [pending EXCEPT ![r] = Tail(@)]
    /\ Goto(r, "iterations")
    /\ overlaps' = IF \E q \in Replicas \ {r} : Working(q) THEN overlaps + 1 ELSE overlaps
    /\ UNCHANGED <<remoteVars, done, latest, decision, events, faults, announced>>

\* Mutant of Trimmed: one key too many is kept.
TrimmedLate(s) == IF Len(s) > DoneLimit + 1 THEN Tail(s) ELSE s

\* The finally of start(): the key is done however the handler ended, and the
\* oldest key beyond the limit is forgotten.
Trimmed(s) == IF Len(s) > DoneLimit THEN Tail(s) ELSE s

Close(r) ==
    /\ done' = [done EXCEPT ![r] = Trimmed(Append(@, job[r]))]
    /\ job' = [job EXCEPT ![r] = NoJob]
    /\ Goto(r, "idle")
    /\ latest' = [latest EXCEPT ![r] = 0]
    /\ decision' = [decision EXCEPT ![r] = FALSE]
    /\ UNCHANGED <<pending, events, overlaps, announced>>

-----------------------------------------------------------------------------
(* ReviewService.handle                                                        *)

\* Mutants of ReadIterations: the first of the list; a list in no order.
ReadFirstIteration(r) ==
    /\ pc[r] = "iterations" /\ head > 0
    /\ latest' = [latest EXCEPT ![r] = 1]
    /\ Goto(r, "history")
    /\ UNCHANGED <<remoteVars, queueVars, decision, events, faults, overlaps, announced>>

ReadSomeIteration(r) ==
    /\ pc[r] = "iterations"
    /\ \E i \in 1..head : latest' = [latest EXCEPT ![r] = i]
    /\ Goto(r, "history")
    /\ UNCHANGED <<remoteVars, queueVars, decision, events, faults, overlaps, announced>>

\* getPullRequestIterations(): the last one, if there is one.
ReadIterations(r) ==
    /\ pc[r] = "iterations"
    /\ \/ head = 0 /\ Close(r)
       \/ /\ head > 0
          /\ latest' = [latest EXCEPT ![r] = head]
          /\ Goto(r, "history")
          /\ UNCHANGED <<queueVars, decision, events, overlaps, announced>>
    /\ UNCHANGED <<remoteVars, faults>>

\* Mutant of AlreadyReviewed: off by one.
ReviewedLater(r) == last > latest[r]

AlreadyReviewed(r) == last = latest[r]

\* getHistory(): an iteration that was reviewed is left alone.
ReadHistory(r) ==
    /\ pc[r] = "history"
    /\ \/ AlreadyReviewed(r) /\ Close(r)
       \/ /\ ~AlreadyReviewed(r)
          /\ Goto(r, "reviewing")
          /\ UNCHANGED <<queueVars, latest, decision, events, overlaps, announced>>
    /\ UNCHANGED <<remoteVars, faults>>

\* decideReviewOutcome(): low risk, enabled, by the model, and high confidence.
MayApprove(r) == latest[r] \in Unchanged

AfterThreads(approves) == IF approves THEN "approving" ELSE "recording"

\* listConventions(), buildCloudContext() and runReviewPlanner() have answered.
Review(r) ==
    /\ pc[r] = "reviewing"
    /\ \E approves \in BOOLEAN, silent \in BOOLEAN :
         /\ approves => MayApprove(r)
         /\ decision' = [decision EXCEPT ![r] = approves]
         /\ Goto(r, IF silent THEN AfterThreads(approves) ELSE "posting")
    /\ UNCHANGED <<remoteVars, queueVars, latest, events, faults, overlaps, announced>>

PostSummary(r) ==
    /\ CreateThread(r)
    /\ Goto(r, "inline")
    /\ UNCHANGED <<queueVars, latest, decision, events, faults, overlaps, announced>>

PostFindings(r) ==
    /\ pc[r] = "inline"
    /\ Goto(r, AfterThreads(decision[r]))
    /\ UNCHANGED <<remoteVars, queueVars, latest, decision, events, faults, overlaps, announced>>

\* Mutant of Approve: an approval that failed stays the decision.
ApproveRegardless(r) ==
    /\ pc[r] = "approving"
    /\ \/ ApprovePullRequest(r) /\ UNCHANGED faults
       \/ Fault /\ Unanswered(r)
    /\ Goto(r, "recording")
    /\ UNCHANGED <<queueVars, latest, decision, events, overlaps, announced>>

\* The vote names the pull request, not the iteration. A failure is caught and
\* turns the decision into needs_human_review.
Approve(r) ==
    /\ pc[r] = "approving"
    /\ \/ ApprovePullRequest(r) /\ UNCHANGED <<decision, faults>>
       \/ /\ Fault /\ Unanswered(r)
          /\ decision' = [decision EXCEPT ![r] = FALSE]
    /\ Goto(r, "recording")
    /\ UNCHANGED <<queueVars, latest, events, overlaps, announced>>

Record(r) ==
    /\ UpsertHistory(r)
    /\ Close(r)
    /\ UNCHANGED faults

\* Any other request fails: handle() rejects and the handler of the queue logs it.
Fails(r) ==
    /\ Working(r) /\ pc[r] # "approving"
    /\ Fault /\ Unanswered(r)
    /\ Close(r)

-----------------------------------------------------------------------------
(* The world around the service                                                *)

\* A replica is stopped by scaling in, a deployment or a fault: its queue is gone.
Crash(r) ==
    /\ pc[r] # "off"
    /\ Fault
    /\ IF Working(r) THEN Unanswered(r) ELSE UNCHANGED remoteVars
    /\ Goto(r, "off")
    /\ pending' = [pending EXCEPT ![r] = <<>>]
    /\ done' = [done EXCEPT ![r] = <<>>]
    /\ job' = [job EXCEPT ![r] = NoJob]
    /\ latest' = [latest EXCEPT ![r] = 0]
    /\ decision' = [decision EXCEPT ![r] = FALSE]
    /\ UNCHANGED <<events, overlaps, announced>>

Boot(r) ==
    /\ pc[r] = "off"
    /\ Goto(r, "idle")
    /\ UNCHANGED <<remoteVars, queueVars, latest, decision, events, faults, overlaps, announced>>

\* The author pushes: a new iteration. Votes and threads stay.
Push ==
    /\ head < MaxIteration
    /\ head' = head + 1
    /\ UNCHANGED <<threads, approved, last, recorded, audited, pc, queueVars, latest,
                   decision, events, faults, overlaps, announced>>

Init ==
    /\ head = 0
    /\ threads = [i \in Iterations |-> 0]
    /\ approved = {} /\ recorded = {} /\ audited = {} /\ announced = {}
    /\ last = 0
    /\ pc = [r \in Replicas |-> "off"]
    /\ pending = [r \in Replicas |-> <<>>]
    /\ done = [r \in Replicas |-> <<>>]
    /\ job = [r \in Replicas |-> NoJob]
    /\ latest = [r \in Replicas |-> 0]
    /\ decision = [r \in Replicas |-> FALSE]
    /\ events = 0 /\ faults = 0 /\ overlaps = 0

\* What a live worker does when its request is answered.
Work(r) ==
    \/ Take(r) \/ ReadIterations(r) \/ ReadHistory(r) \/ Review(r)
    \/ PostSummary(r) \/ PostFindings(r) \/ Approve(r) \/ Record(r)

Next ==
    \/ \E r \in Replicas :
        \/ Work(r) \/ Fails(r) \/ Crash(r) \/ Boot(r)
        \/ \E c \in Commits : Deliver(r, c)
    \/ Push

Spec == Init /\ [][Next]_vars

\* Every request settles and the event loop resumes the worker. Nothing obliges
\* anybody to push, to send a webhook or to start a replica.
FairSpec == Spec /\ \A r \in Replicas : WF_vars(Work(r))

-----------------------------------------------------------------------------
Steps == Requests \cup {"off", "idle"}

TypeOK ==
    /\ head \in 0..MaxIteration
    /\ threads \in [Iterations -> Nat]
    /\ approved \subseteq Iterations
    /\ last \in 0..MaxIteration
    /\ pc \in [Replicas -> Steps]
    /\ pending \in [Replicas -> Seq(Commits)]
    /\ done \in [Replicas -> Seq(Commits)]
    /\ job \in [Replicas -> Commits \cup {NoJob}]
    /\ latest \in [Replicas -> 0..MaxIteration]
    /\ decision \in [Replicas -> BOOLEAN]
    /\ events \in Nat /\ faults \in Nat /\ overlaps \in Nat
    /\ announced \subseteq 0..MaxIteration
    /\ recorded \subseteq Iterations
    /\ audited \subseteq Iterations
    /\ \A r \in Replicas :
         /\ Len(done[r]) <= DoneLimit
         /\ Working(r) <=> job[r] # NoJob
         /\ pc[r] \in Requests \ {"iterations"} => latest[r] \in Iterations

\* An iteration is reviewed again only for a failure or for two replicas at work
\* at once, and each of these costs one review at most: neither a redelivery, a
\* late event, a key the queue has forgotten nor a restart posts a second review
\* of what the history knows.
ReviewsCharged == \A i \in Iterations : threads[i] <= 1 + faults + overlaps

\* The history never goes back to an older iteration while one replica works at a
\* time, whatever fails or restarts and in whatever order webhooks arrive.
HistoryNeverGoesBack == [][last' >= last \/ overlaps > 0]_vars

\* A webhook that was queued is acted on: some iteration at least as new as the
\* one it announced gets into the history, unless a request fails or a replica
\* dies. Replicas that overtake each other lose none.
QueuedIsReviewed ==
    \A i \in Iterations :
        i \in announced ~> ((\E j \in recorded : j >= i) \/ faults > 0)

\* The history claims no approval that was not given: the row names an approval only
\* of the iteration it is about, and only if the vote for it was cast, though the
\* request to vote may fail with or without effect, the replica may die before the
\* row, and another replica may write the row in between (reviewService.ts 123-164).
AuditIsTrue == audited \subseteq approved \cap {last}

\* "When the Review Agent auto-approves a PR, it must write an audit record" and
\* "Every auto-approval has an auditable decision record"
\* (docs/conversation-git-agent-optimization.md:903 and :1049): an approval that was
\* given is named by the history, or the review that gave it is still under way.
ApprovalsAudited ==
    \A i \in approved : i \in audited \/ \E r \in Replicas : Working(r) /\ latest[r] = i
=============================================================================
