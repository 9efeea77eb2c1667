-------------------------- MODULE DeliveryActions --------------------------
(***************************************************************************)
(* The delivery action runtime of packages/core/src/delivery/actions: the  *)
(* persisted lifecycle Proposal -> Approval -> Execution -> Re-read ->     *)
(* Verification of every remote write MergePilot makes.                    *)
(*                                                                         *)
(* One operation of DeliveryActionRuntime is a sequence of actions cut at  *)
(* its awaits.  What a handler read before an await it keeps in `req` and  *)
(* uses after it, as the code does: store.updateStatus rewrites the whole  *)
(* row from that snapshot, with no comparison against the stored row.      *)
(***************************************************************************)
EXTENDS Integers, FiniteSets

CONSTANTS
    Action,         \* idempotency keys; actionId maps each to one record
    Creations,      \* actions that create their target (predicate: exists)
    Deletions,      \* actions that delete their target (predicate: not_exists)
    Client,         \* concurrent callers: HTTP requests and confirmed chat tools
    Api,            \* the runtime operations the callers use
    Faults,         \* what may go wrong around the runtime
    MaxClock,       \* bound on the clock
    MaxEdits,       \* bound on changes other people make to the target
    MaxRetries,     \* bound on calls of retry
    Attempts        \* verifier attempts (6 in the code)

Operations == {"propose", "approve", "stream", "retry", "reject", "resume"}

FaultKinds == {"crash", "refused", "lost", "partial", "read_error",
               "read_throw", "callback"}

ASSUME ActionAssumption == /\ Creations \subseteq Action
                           /\ Deletions \subseteq Action
                           /\ Creations \cap Deletions = {}
ASSUME ClientAssumption == IsFiniteSet(Client)
ASSUME ApiAssumption == Api \subseteq Operations /\ Faults \subseteq FaultKinds
ASSUME BoundAssumption == /\ MaxClock \in Nat \ {0}
                          /\ MaxEdits \in Nat
                          /\ MaxRetries \in Nat
                          /\ Attempts \in Nat \ {0}

VARIABLES
    store,          \* the delivery_actions table, one row per action id
    req,            \* what each caller is in the middle of
    writesEnabled,  \* the kill switch: process memory, on after a restart
    clock,          \* Date.now()
    rev,            \* the target's revision at the remote
    shown,          \* shown[a]: the expected result of a holds at the remote
    late,           \* late[a]: writes still under way whose caller is gone
    landed,         \* landed[a]: how often the write of a took effect (history)
    claims,         \* claims[a]: approvals turned into an execution (history)
    evidence,       \* evidence[a]: shown[a] was true at some time (history)
    edits, retries  \* counters for the bounds

vars == <<store, req, writesEnabled, clock, rev, shown, late, landed, claims,
          evidence, edits, retries>>
remote == <<rev, shown, late, landed, evidence, edits>>

-----------------------------------------------------------------------------
(* Records and requests                                                    *)

None == "none"
Unset == 0          \* approvedAt and executedAt before they are written
Unseen == -1        \* no basedOn entry, or no observation of it

Statuses == {"absent", "proposed", "awaiting_approval", "executing",
             "verifying", "verified", "rejected", "stale", "failed"}
Terminal == {"verified", "rejected", "stale", "failed"}
InFlight == {"executing", "verifying"}
FailureKinds == {None, "transport", "verification", "policy", "expired",
                 "interrupted"}

Record == [status : Statuses, approvedAt : Nat, executedAt : Nat,
           failure : FailureKinds, expiresAt : Nat, basedOn : Nat \cup {Unseen},
           target : Nat, predicates : BOOLEAN, resolved : BOOLEAN]

Absent == [status |-> "absent", approvedAt |-> Unset, executedAt |-> Unset,
           failure |-> None, expiresAt |-> 0, basedOn |-> Unseen,
           target |-> 0, predicates |-> FALSE, resolved |-> FALSE]

Steps == {"idle", "called", "loaded", "context", "observed", "claimed",
          "sent", "answered", "verifying", "judged"}
Writes == {None, "flying", "applied", "partial", "failed"}
Verdicts == {None, "verified", "contradicted", "timeout"}

Request == [pc : Steps, op : Operations \cup {None}, id : Action \cup {None},
            rec : Record, enabled : BOOLEAN, seen : Nat \cup {Unseen},
            now : Nat, write : Writes, tries : Nat, verdict : Verdicts,
            todo : [Action -> Record],
            since : Nat, wasOn : BOOLEAN]  \* history: rev and switch since the call

Idle == [pc |-> "idle", op |-> None, id |-> None, rec |-> Absent,
         enabled |-> FALSE, seen |-> Unseen, now |-> 0, write |-> None,
         tries |-> 0, verdict |-> None, todo |-> [a \in Action |-> Absent],
         since |-> 0, wasOn |-> FALSE]

Become(c, q) == req' = [req EXCEPT ![c] = q]
Finish(c) == Become(c, Idle)
Save(a, r) == store' = [store EXCEPT ![a] = r]

\* Mutant of Failed: the two columns swapped.
FailedSwapped(r, kind) == [r EXCEPT !.status = kind, !.failure = "failed"]

Failed(r, kind) == [r EXCEPT !.status = "failed", !.failure = kind]

(* approve, once the policy agreed: the row as it is executed.             *)

\* Mutants of Executing: no approval recorded; executedAt written too early.
ExecutingUnsigned(r, now) == [r EXCEPT !.status = "executing"]
ExecutingEarly(r, now) ==
    [r EXCEPT !.status = "executing", !.approvedAt = now, !.executedAt = now]

Executing(r, now) == [r EXCEPT !.status = "executing", !.approvedAt = now]

At(c, step) == req[c].pc = step

TypeOK ==
    /\ store \in [Action -> Record]
    /\ req \in [Client -> Request]
    /\ \A c \in Client : req[c].pc # "idle" => req[c].id \in Action
    /\ writesEnabled \in BOOLEAN
    /\ clock \in Nat /\ rev \in Nat /\ edits \in Nat /\ retries \in Nat
    /\ shown \in [Action -> BOOLEAN]
    /\ evidence \in [Action -> BOOLEAN]
    /\ late \in [Action -> Nat]
    /\ landed \in [Action -> Nat]
    /\ claims \in [Action -> Nat]

-----------------------------------------------------------------------------
(* DeliveryActionPolicy.evaluate.  autoApproveRisk is never passed, so the *)
(* verdict is deny or "approve"; idempotencyUsed is always false.  Only    *)
(* basedOn is compared, and an artifact that could not be read is not      *)
(* stale.                                                                  *)

Moved(r, seen) == r.basedOn # Unseen /\ seen # Unseen /\ seen # r.basedOn

\* Mutant of Denies: the based-on revision is not compared.
DeniesUnchecked(r, enabled, seen, now) ==
    \/ ~enabled
    \/ r.expiresAt <= now
    \/ ~r.predicates
    \/ r.status \in {"verified", "executing", "verifying"}

Denies(r, enabled, seen, now) ==
    \/ ~enabled
    \/ r.expiresAt <= now
    \/ ~r.predicates
    \/ r.status \in {"verified", "executing", "verifying"}
    \/ Moved(r, seen)

(* ActionVerifier.evaluatePredicate on the one predicate that matters for  *)
(* each kind of action.                                                    *)

Condition(a) == IF a \in Creations THEN "exists"
                ELSE IF a \in Deletions THEN "not_exists" ELSE "field_eq"

\* Mutant of Judge: any artifact that can be read satisfies the predicate.
JudgeReadable(cond, obs) ==
    CASE obs = "thrown"    -> "pending"
      [] obs = "undefined" -> IF cond = "field_eq" THEN "contradicted" ELSE "pending"
      [] OTHER             -> "satisfied"

Judge(cond, obs) ==
    CASE obs = "thrown"    -> "pending"
      [] obs = "undefined" -> IF cond = "not_exists" THEN "satisfied"
                              ELSE IF cond = "exists" THEN "pending"
                              ELSE "contradicted"
      [] obs = "present"   -> IF cond = "exists" THEN "satisfied"
                              ELSE IF cond = "not_exists" THEN "contradicted"
                              ELSE "pending"
      [] obs = "expected"  -> "satisfied"

(* What readArtifact returns for a's artifact.  The Azure DevOps readers   *)
(* turn every error into undefined; a branch read rejects instead.  A      *)
(* record whose created id was never resolved still reads id 0.            *)
Sees(a) ==
    CASE a \in Creations -> IF shown[a] THEN "present" ELSE "undefined"
      [] a \in Deletions -> IF shown[a] THEN "undefined" ELSE "present"
      [] OTHER           -> IF shown[a] THEN "expected" ELSE "present"

Observations(a, r) ==
    (IF a \in Creations /\ ~r.resolved THEN {"undefined"} ELSE {Sees(a)})
    \cup (IF "read_error" \in Faults THEN {"undefined"} ELSE {})
    \cup (IF "read_throw" \in Faults THEN {"thrown"} ELSE {})

-----------------------------------------------------------------------------
(* Callers                                                                 *)

Expiries == 2 .. MaxClock + 1

Begin(c, step, op, a, r) ==
    Become(c, [Idle EXCEPT !.pc = step, !.op = op, !.id = a, !.rec = r,
                           !.since = rev, !.wasOn = writesEnabled])

(* propose: the record is built, then store.get runs.  The caller has read *)
(* the target's revision, and names one it saw in basedOn, or none.        *)
CallPropose(c, a) ==
    /\ "propose" \in Api /\ At(c, "idle")
    /\ IF store[a].status # "absent"
       THEN Begin(c, "loaded", "propose", a, store[a])
       ELSE \E e \in Expiries, b \in {Unseen} \cup (0 .. rev), p \in BOOLEAN :
              Begin(c, "loaded", "propose", a,
                    [Absent EXCEPT !.status = "proposed", !.expiresAt = e,
                                   !.basedOn = b, !.target = rev,
                                   !.predicates = p])
    /\ UNCHANGED <<store, writesEnabled, clock, claims, retries, remote>>

(* approve and approveStreaming: store.get(id).                            *)
CallApprove(c, a) ==
    /\ At(c, "idle")
    /\ \E op \in {"approve", "stream"} \cap Api : Begin(c, "loaded", op, a, store[a])
    /\ UNCHANGED <<store, writesEnabled, clock, claims, retries, remote>>

(* Both callers of retry first read the row themselves and call it only    *)
(* for a failed record that has no executedAt.                             *)
CallRetry(c, a) ==
    /\ "retry" \in Api /\ At(c, "idle")
    /\ store[a].status = "failed" /\ store[a].executedAt = Unset
    /\ retries < MaxRetries
    /\ retries' = retries + 1
    /\ Begin(c, "called", "retry", a, Absent)
    /\ UNCHANGED <<store, writesEnabled, clock, claims, remote>>

CallReject(c, a) ==
    /\ "reject" \in Api /\ At(c, "idle")
    /\ Begin(c, "loaded", "reject", a, store[a])
    /\ UNCHANGED <<store, writesEnabled, clock, claims, retries, remote>>

(* runVerifiedChatAction finds its record in flight and resumes the        *)
(* verification of every record in flight: listInFlight.                   *)
CallResume(c, a) ==
    /\ "resume" \in Api /\ At(c, "idle")
    /\ store[a].status \in InFlight
    /\ Become(c, [Idle EXCEPT
                     !.pc = "loaded", !.op = "resume", !.id = a,
                     !.todo = [b \in Action |-> IF store[b].status \in InFlight
                                                THEN store[b] ELSE Absent]])
    /\ UNCHANGED <<store, writesEnabled, clock, claims, retries, remote>>

-----------------------------------------------------------------------------
(* propose, approve, retry: up to the decision                             *)

(* Enter policyContext: the kill switch is read, then the artifact reads   *)
(* are awaited.                                                            *)
EnterContext(c, r) ==
    /\ Become(c, [req[c] EXCEPT !.pc = "context", !.rec = r,
                                !.enabled = writesEnabled, !.now = clock])
    /\ UNCHANGED <<store, writesEnabled, clock, claims, retries, remote>>

Return(c) ==
    /\ Finish(c)
    /\ UNCHANGED <<store, writesEnabled, clock, claims, retries, remote>>

SaveAndReturn(c, r) ==
    /\ Save(req[c].id, r)
    /\ Finish(c)
    /\ UNCHANGED <<writesEnabled, clock, claims, retries, remote>>

(* An existing record stays authoritative: propose returns it unchanged.   *)
CheckProposal(c) ==
    /\ At(c, "loaded") /\ req[c].op = "propose"
    /\ IF req[c].rec.status = "proposed" THEN EnterContext(c, req[c].rec)
                                         ELSE Return(c)

(* Only an awaiting_approval record can be approved; an expired one fails. *)

\* Mutant of Approvable: what failed before it was executed may be approved again.
ApprovableAgain(r) ==
    r.status = "awaiting_approval" \/ (r.status = "failed" /\ r.executedAt = Unset)

Approvable(r) == r.status = "awaiting_approval"

CheckApproval(c) ==
    LET r == req[c].rec IN
    /\ At(c, "loaded") /\ req[c].op \in {"approve", "stream"}
    /\ IF ~Approvable(r) THEN Return(c)
       ELSE IF r.expiresAt <= clock THEN SaveAndReturn(c, Failed(r, "expired"))
       ELSE EnterContext(c, r)

LoadRetry(c) ==
    /\ At(c, "called")
    /\ Become(c, [req[c] EXCEPT !.pc = "loaded", !.rec = store[req[c].id]])
    /\ UNCHANGED <<store, writesEnabled, clock, claims, retries, remote>>

RetryRefused(r) == r.executedAt # Unset \/ r.status \in InFlight

(* retry: the same row goes back to awaiting_approval with a new expiry    *)
(* and corrected predicates; basedOn is kept.                              *)
CheckRetry(c) ==
    LET r == req[c].rec IN
    /\ At(c, "loaded") /\ req[c].op = "retry"
    /\ IF RetryRefused(r) THEN Return(c)
       ELSE \E e \in Expiries :
              EnterContext(c, [r EXCEPT !.status = "awaiting_approval",
                                        !.failure = None, !.expiresAt = e,
                                        !.predicates = TRUE])

(* reject: a missing or terminal record is left alone, anything else is    *)
(* overwritten, in flight or not.                                          *)

\* Mutant of Rejectable: the terminal statuses are forgotten.
RejectableAlways(r) == r.status # "absent"

Rejectable(r) == r.status \notin Terminal \cup {"absent"}

DoReject(c) ==
    LET r == req[c].rec IN
    /\ At(c, "loaded") /\ req[c].op = "reject"
    /\ IF Rejectable(r) THEN SaveAndReturn(c, [r EXCEPT !.status = "rejected"])
                        ELSE Return(c)

(* The transport's reads of basedOn and target answer.                     *)
ReadRevision(c) ==
    /\ At(c, "context")
    /\ \E seen \in {rev} \cup (IF "read_error" \in Faults THEN {Unseen} ELSE {}) :
         Become(c, [req[c] EXCEPT !.pc = "observed", !.seen = seen])
    /\ UNCHANGED <<store, writesEnabled, clock, claims, retries, remote>>

(* A read that rejects makes the operation throw; nothing is written.      *)
ReadThrows(c) ==
    /\ "read_throw" \in Faults
    /\ At(c, "context")
    /\ Return(c)

Denied(c) == Denies(req[c].rec, req[c].enabled, req[c].seen, clock)

(* propose inserts the row.  The primary key makes a second insert throw.  *)
DecideProposal(c) ==
    LET r == req[c].rec IN
    /\ At(c, "observed") /\ req[c].op = "propose"
    /\ IF store[req[c].id].status # "absent" THEN Return(c)
       ELSE IF Denied(c) THEN SaveAndReturn(c, Failed(r, "policy"))
       ELSE SaveAndReturn(c, [r EXCEPT !.status = "awaiting_approval"])

(* approve writes stale, or executing with approvedAt.                     *)
DecideApproval(c) ==
    LET r == req[c].rec
        executing == Executing(r, req[c].now)
    IN
    /\ At(c, "observed") /\ req[c].op \in {"approve", "stream"}
    /\ IF Denied(c)
       THEN SaveAndReturn(c, [r EXCEPT !.status = "stale", !.failure = "policy"])
       ELSE /\ Save(req[c].id, executing)
            /\ Become(c, [req[c] EXCEPT !.pc = "claimed", !.rec = executing,
                                        !.enabled = FALSE])
            /\ claims' = [claims EXCEPT ![req[c].id] = @ + 1]
            /\ UNCHANGED <<writesEnabled, clock, retries, remote>>

(* retry writes failed, or the re-proposed row.                            *)
DecideRetry(c) ==
    LET r == req[c].rec IN
    /\ At(c, "observed") /\ req[c].op = "retry"
    /\ SaveAndReturn(c, IF Denied(c) THEN Failed(r, "policy") ELSE r)

-----------------------------------------------------------------------------
(* Execution                                                               *)

(* executor.execute, or the streaming callback, starts the remote write.   *)
(* Its own expiry and ALREADY_RAN checks cannot refuse: approve passes the *)
(* `now` it tested the expiry with and a record marked "approved".         *)
Send(c) ==
    /\ At(c, "claimed")
    /\ Become(c, [req[c] EXCEPT !.pc = "sent", !.write = "flying"])
    /\ UNCHANGED <<store, writesEnabled, clock, claims, retries, remote>>

(* One write of a takes effect at the remote.  It may have no visible      *)
(* effect (HTTP success alone).  Creating an artifact moves no revision.   *)
Land(a, late1) ==
    /\ landed' = [landed EXCEPT ![a] = @ + 1]
    /\ rev' = IF a \in Creations THEN rev ELSE rev + 1
    /\ \E effective \in BOOLEAN :
         /\ shown' = [shown EXCEPT ![a] = @ \/ effective]
         /\ evidence' = [evidence EXCEPT ![a] = @ \/ effective]
    /\ late' = late1
    /\ UNCHANGED <<store, writesEnabled, clock, claims, retries, edits>>

RemoteApplies(c) ==
    /\ At(c, "sent") /\ req[c].write = "flying"
    /\ \E w \in {"applied"} \cup (Faults \cap {"partial"}) :
         Become(c, [req[c] EXCEPT !.write = w])
    /\ Land(req[c].id, late)

RemoteRefuses(c) ==
    /\ "refused" \in Faults
    /\ At(c, "sent") /\ req[c].write = "flying"
    /\ Become(c, [req[c] EXCEPT !.write = "failed"])
    /\ UNCHANGED <<store, writesEnabled, clock, claims, retries, remote>>

Strand(c) == IF req[c].write = "flying" THEN 1 ELSE 0

(* The connection fails: the caller sees an error whether or not the write *)
(* has landed or will.                                                     *)

\* Mutant of LoseAnswer: the executor sends the write again.
LoseAnswerResend(c) ==
    /\ "lost" \in Faults
    /\ At(c, "sent") /\ req[c].write \in {"flying", "applied"}
    /\ Become(c, [req[c] EXCEPT !.write = "flying"])
    /\ late' = [late EXCEPT ![req[c].id] = @ + Strand(c)]
    /\ UNCHANGED <<store, writesEnabled, clock, claims, retries,
                   rev, shown, landed, evidence, edits>>

LoseAnswer(c) ==
    /\ "lost" \in Faults
    /\ At(c, "sent") /\ req[c].write \in {"flying", "applied"}
    /\ Become(c, [req[c] EXCEPT !.write = "failed"])
    /\ late' = [late EXCEPT ![req[c].id] = @ + Strand(c)]
    /\ UNCHANGED <<store, writesEnabled, clock, claims, retries,
                   rev, shown, landed, evidence, edits>>

(* The streaming callback throws after the tool ran (the transcript write  *)
(* failed) or its consumer went away: nothing more is recorded.            *)
CallbackThrows(c) ==
    /\ "callback" \in Faults
    /\ At(c, "sent") /\ req[c].op = "stream" /\ req[c].write # "flying"
    /\ Return(c)

(* The write answered: verifying with executedAt, or failed without it.    *)
Answered(c) ==
    LET r == req[c].rec
        verifying == [r EXCEPT !.status = "verifying", !.executedAt = req[c].now,
                               !.resolved = (req[c].id \in Creations)]
    IN
    /\ At(c, "sent") /\ req[c].write \in {"applied", "partial", "failed"}
    /\ IF req[c].write = "applied"
       THEN /\ Save(req[c].id, verifying)
            /\ Become(c, [Idle EXCEPT !.pc = "verifying", !.op = req[c].op,
                                      !.id = req[c].id, !.rec = verifying])
            /\ UNCHANGED <<writesEnabled, clock, claims, retries, remote>>
       ELSE SaveAndReturn(c, Failed(r, "transport"))

LateLands(a) ==
    /\ late[a] > 0
    /\ Land(a, [late EXCEPT ![a] = @ - 1])
    /\ UNCHANGED req

LateDropped(a) ==
    /\ late[a] > 0
    /\ late' = [late EXCEPT ![a] = @ - 1]
    /\ UNCHANGED <<store, req, writesEnabled, clock, claims, retries,
                   rev, shown, landed, evidence, edits>>

-----------------------------------------------------------------------------
(* Verification                                                            *)

(* resumeVerification takes the next record of its list, or returns.       *)
ResumeNext(c) ==
    LET left == {b \in Action : req[c].todo[b].status # "absent"} IN
    /\ At(c, "loaded") /\ req[c].op = "resume"
    /\ IF left = {} THEN Return(c)
       ELSE \E b \in left :
              /\ Become(c, [req[c] EXCEPT !.pc = "verifying", !.id = b,
                                          !.rec = req[c].todo[b],
                                          !.todo = [@ EXCEPT ![b] = Absent]])
              /\ UNCHANGED <<store, writesEnabled, clock, claims, retries, remote>>

(* One attempt of ActionVerifier.verify: re-read, judge, give up after the *)
(* last attempt.                                                           *)

\* Mutant of Tried: the attempt is not counted.
TriedForgotten(n) == n

Tried(n) == n + 1

VerifyAttempt(c) ==
    LET Conclude(v) == Become(c, [req[c] EXCEPT !.pc = "judged", !.verdict = v])
        Judges(obs, j) == Judge(Condition(req[c].id), obs) = j
    IN
    /\ At(c, "verifying")
    /\ \E obs \in Observations(req[c].id, req[c].rec) :
         \/ Judges(obs, "satisfied") /\ Conclude("verified")
         \/ Judges(obs, "contradicted") /\ Conclude("contradicted")
         \/ /\ Judges(obs, "pending")
            /\ IF Tried(req[c].tries) < Attempts
               THEN Become(c, [req[c] EXCEPT !.tries = Tried(@)])
               ELSE Conclude("timeout")
    /\ UNCHANGED <<store, writesEnabled, clock, claims, retries, remote>>

(* Why an unverified record failed.                                        *)
Unverified(c) ==
    IF req[c].op # "resume" \/ req[c].rec.executedAt # Unset
    THEN "verification" ELSE "interrupted"

(* The verdict is written; resumeVerification goes on to its next record.  *)
WriteVerdict(c) ==
    LET r == req[c].rec IN
    /\ At(c, "judged")
    /\ Save(req[c].id, IF req[c].verdict = "verified"
                       THEN [r EXCEPT !.status = "verified"]
                       ELSE Failed(r, Unverified(c)))
    /\ IF req[c].op = "resume"
       THEN Become(c, [req[c] EXCEPT !.pc = "loaded", !.rec = Absent,
                                     !.tries = 0, !.verdict = None])
       ELSE Finish(c)
    /\ UNCHANGED <<writesEnabled, clock, claims, retries, remote>>

-----------------------------------------------------------------------------
(* The world around the runtime                                            *)

SetWritesEnabled ==
    /\ writesEnabled' = ~writesEnabled
    /\ req' = [c \in Client |-> IF req[c].pc = "idle" THEN req[c]
                  ELSE [req[c] EXCEPT !.wasOn = @ \/ ~writesEnabled]]
    /\ UNCHANGED <<store, clock, claims, retries, remote>>

Tick ==
    /\ clock < MaxClock
    /\ clock' = clock + 1
    /\ UNCHANGED <<store, req, writesEnabled, claims, retries, remote>>

(* Somebody else changes the target: it moves on, and what a wanted may    *)
(* become true or false.                                                   *)
ExternalEdit ==
    /\ edits < MaxEdits
    /\ edits' = edits + 1
    /\ rev' = rev + 1
    /\ \E a \in Action, s \in BOOLEAN :
         /\ shown' = [shown EXCEPT ![a] = s]
         /\ evidence' = [evidence EXCEPT ![a] = @ \/ s]
    /\ UNCHANGED <<store, req, writesEnabled, clock, claims, retries, late, landed>>

(* The daemon dies: only SQLite survives.  Writes under way go on.         *)
Flying(c, a) == req[c].id = a /\ req[c].write = "flying"

Crash ==
    /\ "crash" \in Faults
    /\ req' = [c \in Client |-> Idle]
    /\ late' = [a \in Action |-> late[a] + Cardinality({c \in Client : Flying(c, a)})]
    /\ writesEnabled' = TRUE
    /\ UNCHANGED <<store, clock, claims, retries, rev, shown, landed, evidence, edits>>

-----------------------------------------------------------------------------

Init ==
    /\ store = [a \in Action |-> Absent]
    /\ req = [c \in Client |-> Idle]
    /\ writesEnabled = TRUE
    /\ clock = 1
    /\ rev = 0
    /\ shown = [a \in Action |-> FALSE]
    /\ evidence = [a \in Action |-> FALSE]
    /\ late = [a \in Action |-> 0]
    /\ landed = [a \in Action |-> 0]
    /\ claims = [a \in Action |-> 0]
    /\ edits = 0
    /\ retries = 0

Call(c) == \E a \in Action : \/ CallPropose(c, a) \/ CallApprove(c, a)
                             \/ CallRetry(c, a)   \/ CallReject(c, a)
                             \/ CallResume(c, a)

Handle(c) == \/ CheckProposal(c) \/ CheckApproval(c) \/ LoadRetry(c)
             \/ CheckRetry(c) \/ DoReject(c) \/ ReadRevision(c) \/ ReadThrows(c)
             \/ DecideProposal(c) \/ DecideApproval(c) \/ DecideRetry(c)
             \/ Send(c) \/ Answered(c) \/ CallbackThrows(c)
             \/ ResumeNext(c) \/ VerifyAttempt(c) \/ WriteVerdict(c)

Remote(c) == RemoteApplies(c) \/ RemoteRefuses(c) \/ LoseAnswer(c)

Late == \E a \in Action : LateLands(a) \/ LateDropped(a)

Next == \/ \E c \in Client : Call(c) \/ Handle(c) \/ Remote(c)
        \/ Late
        \/ SetWritesEnabled \/ Tick \/ ExternalEdit \/ Crash

Spec == Init /\ [][Next]_vars

(* A handler that was started runs on, and the remote answers: the event   *)
(* loop resumes every settled await and fetch settles.  Nothing obliges a  *)
(* caller to call, nor the daemon to resume anything after a crash.        *)
Fairness == \A c \in Client : WF_vars(Handle(c) \/ Remote(c))

FairSpec == Spec /\ Fairness
-----------------------------------------------------------------------------
(* Properties                                                              *)

\* Writes of a that took effect or still may.
FlyingWrites(a) == Cardinality({c \in Client : Flying(c, a)})
Outstanding(a) == landed[a] + late[a] + FlyingWrites(a)

(* No remote write without its own approval: executing, losing the answer, *)
(* crashing, retrying and resuming never send a write that no approval was *)
(* spent on (resumeVerification "never re-executes a write").              *)
WritesCharged == \A a \in Action : Outstanding(a) <= claims[a]

(* approve executes only what the policy allowed: the kill switch was on   *)
(* at some moment of the request, the record carries predicates and had    *)
(* not expired, and its base revision is not one the target had already    *)
(* left when the request came in, unless the re-read failed.               *)
Licensed(q) ==
    /\ q.wasOn /\ q.rec.predicates /\ q.now < q.rec.expiresAt
    /\ \/ q.rec.basedOn = Unseen
       \/ q.seen = Unseen
       \/ q.since <= q.rec.basedOn

ExecutionIsLicensed ==
    \A c \in Client : req[c].pc \in {"claimed", "sent"} => Licensed(req[c])

(* executedAt is recorded only for a write that took effect: the retry     *)
(* guard and the recovery message both rest on it.                         *)
ExecutedAtIsTrue ==
    \A a \in Action : store[a].executedAt # Unset => landed[a] > 0

(* A verified record is one whose expected result the remote showed at     *)
(* some time; HTTP success alone never verifies.                           *)
VerifiedHasEvidence ==
    \A a \in Action : store[a].status = "verified" => evidence[a]

(* Where a failed read returns undefined, it passes for the absence that a *)
(* deletion expects: these actions may verify unread.                      *)
BlindActions == IF "read_error" \in Faults THEN Deletions ELSE {}

(* Whatever fails, only a deletion is verified without evidence, and only  *)
(* where reads fail: no other record is, and no callback, crash, lost      *)
(* answer or resumed verification makes up for a re-read.                  *)
VerifiedUnlessBlind ==
    \A a \in Action : store[a].status = "verified" => evidence[a] \/ a \in BlindActions

(* The ledger names the approval of every write that took effect.          *)
MutationHasApproval ==
    \A a \in Action : landed[a] > 0 => store[a].approvedAt # Unset

(* One logical write reaches the remote at most once.                      *)
AtMostOnce == \A a \in Action : Outstanding(a) <= 1

(* While requests do not overlap, one logical write reaches the remote     *)
(* once, and once more at most for every retry.                            *)
RetriesPayForWrites == \A a \in Action : Outstanding(a) <= 1 + retries

(* However requests overlap, at most every caller executes what propose or *)
(* one retry laid open: the row they all compared with is overwritten once.*)
OverlapsPayForWrites ==
    \A a \in Action : Outstanding(a) <= Cardinality(Client) * (1 + retries)

(* A row is settled when it is terminal and no retry may lay it open again. *)
Retryable(r) == r.status = "failed" /\ r.executedAt = Unset
Settled(r) == r.status \in Terminal /\ ~Retryable(r)

(* Nobody decides on a settled row: however many requests overlap, one is  *)
(* overwritten only by a request that still holds the row as it was before *)
(* it settled.  So a rejection, a verdict or a stale mark is lost to what  *)
(* was already under way, and to nothing that is started afterwards.       *)
SettledYieldsToStale ==
    [][\A a \in Action : Settled(store[a]) /\ store'[a] # store[a] =>
         \E c \in Client : /\ req[c].pc # "idle" /\ req[c].id = a
                           /\ req'[c] # req[c]
                           /\ ~Settled(req[c].rec)]_vars

(* An execution that was started does not stay in flight.                  *)
InFlightSettles ==
    \A a \in Action : (store[a].status \in InFlight) ~> (store[a].status \notin InFlight)
-----------------------------------------------------------------------------
(* The runtime implements WriteLedger.  The mapping forgets requests and   *)
(* awaits: an approval is unspent while its caller holds it at "claimed",  *)
(* and a write is on its way with its caller or without.  A failed read    *)
(* passes for the absence that a deletion expects.                         *)
Claimed(c, a) == req[c].pc = "claimed" /\ req[c].id = a
PermitsBar == [a \in Action |-> Cardinality({c \in Client : Claimed(c, a)})]
SendingBar == [a \in Action |-> late[a] + FlyingWrites(a)]
ToldOf(r) == [executed |-> r.executedAt # Unset, verified |-> r.status = "verified"]
ToldBar == [a \in Action |-> ToldOf(store[a])]

Ledger == INSTANCE WriteLedger WITH
    Blind <- BlindActions, granted <- claims, permits <- PermitsBar,
    sending <- SendingBar, seen <- evidence, told <- ToldBar

(* Every step of the runtime is one the ledger allows: an approval buys at *)
(* most one write, and what the table says of a write the remote has shown.*)
ImplementsLedger == Ledger!LedgerSpec
=============================================================================
