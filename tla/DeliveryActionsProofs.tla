----------------------- MODULE DeliveryActionsProofs -----------------------
(* Theorems about the delivery action runtime, for every set of actions    *)
(* and callers, every bound and every combination of faults.               *)
EXTENDS DeliveryActions, FiniteSetTheorems, TLAPS

-----------------------------------------------------------------------------
(* Types                                                                   *)

LEMMA IdleType == Idle \in Request
BY SMT DEF Idle, Request, Absent, Record, Statuses, FailureKinds, Steps, Writes,
       Verdicts, Operations, Unset, Unseen, None

LEMMA StrandedType ==
    \A a \in Action : Cardinality({c \in Client : Flying(c, a)}) \in Nat
<1> SUFFICES ASSUME NEW a \in Action
             PROVE  Cardinality({c \in Client : Flying(c, a)}) \in Nat
    OBVIOUS
<1>1. IsFiniteSet({c \in Client : Flying(c, a)})
    BY ClientAssumption, FS_Subset
<1> QED
    BY <1>1, FS_CardinalityType

(* The rows the runtime writes are records.                                *)
LEMMA RowType ==
    ASSUME NEW r \in Record
    PROVE  /\ \A kind \in FailureKinds : Failed(r, kind) \in Record
           /\ \A now \in Nat : Executing(r, now) \in Record
           /\ \A s \in Statuses : [r EXCEPT !.status = s] \in Record
           /\ \A s \in Statuses, kind \in FailureKinds :
                [r EXCEPT !.status = s, !.failure = kind] \in Record
           /\ \A e \in Nat : [r EXCEPT !.status = "awaiting_approval",
                                !.failure = None, !.expiresAt = e,
                                !.predicates = TRUE] \in Record
           /\ \A now \in Nat, b \in BOOLEAN :
                [r EXCEPT !.status = "verifying", !.executedAt = now,
                          !.resolved = b] \in Record
BY DEF Failed, Executing, Record, Statuses, FailureKinds, None

(* The three ways in which a handler's step ends keep the types.           *)
LEMMA ReturnType ==
    ASSUME TypeOK, NEW c \in Client, Return(c)
    PROVE  TypeOK'
BY IdleType DEF TypeOK, Return, Idle, Finish, Become, remote

LEMMA SaveAndReturnType ==
    ASSUME TypeOK, NEW c \in Client, NEW r \in Record, SaveAndReturn(c, r)
    PROVE  TypeOK'
BY IdleType DEF TypeOK, SaveAndReturn, Idle, Finish, Become, Save, remote

(* A handler's step that only replaces its own request keeps the types.    *)
LEMMA BecomeType ==
    ASSUME TypeOK, NEW c \in Client, NEW q \in Request, Become(c, q),
           q.pc # "idle" => q.id \in Action,
           UNCHANGED <<store, writesEnabled, clock, claims, retries, remote>>
    PROVE  TypeOK'
BY DEF TypeOK, Become, remote

LEMMA EnterContextType ==
    ASSUME TypeOK, NEW c \in Client, NEW r \in Record, EnterContext(c, r),
           req[c].id \in Action
    PROVE  TypeOK'
<1> DEFINE q == [req[c] EXCEPT !.pc = "context", !.rec = r,
                               !.enabled = writesEnabled, !.now = clock]
<1>1. req[c] \in Request /\ writesEnabled \in BOOLEAN /\ clock \in Nat
    BY DEF TypeOK
<1>2. q \in Request /\ q.id \in Action
    BY <1>1 DEF Request, Steps
<1>3. Become(c, q) /\ UNCHANGED <<store, writesEnabled, clock, claims, retries, remote>>
    BY DEF EnterContext
<1> HIDE DEF q
<1> QED
    BY <1>2, <1>3, BecomeType

(* Starting an operation, which for retry also counts it.                  *)
LEMMA BeginType ==
    ASSUME TypeOK, NEW c \in Client, NEW a \in Action,
           NEW step \in Steps, NEW op \in Operations, NEW r \in Record,
           Begin(c, step, op, a, r), retries' \in Nat,
           UNCHANGED <<store, writesEnabled, clock, claims, remote>>
    PROVE  TypeOK'
<1> DEFINE q == [Idle EXCEPT !.pc = step, !.op = op, !.id = a, !.rec = r,
                             !.since = rev, !.wasOn = writesEnabled]
<1>1. q \in Request /\ q.id \in Action
    BY IdleType DEF TypeOK, Request
<1>2. Become(c, q)
    BY DEF Begin
<1> HIDE DEF q
<1> QED
    BY <1>1, <1>2 DEF TypeOK, Become, remote

LEMMA CallType ==
    ASSUME TypeOK, NEW c \in Client, Call(c)
    PROVE  TypeOK'
<1>1. PICK a \in Action : \/ CallPropose(c, a) \/ CallApprove(c, a)
                          \/ CallRetry(c, a)   \/ CallReject(c, a)
                          \/ CallResume(c, a)
    BY DEF Call
<1>2. store[a] \in Record /\ rev \in Nat /\ retries \in Nat
    BY DEF TypeOK
<1>3. Absent \in Record
    BY IdleType DEF Idle, Request
<1>5. CASE CallPropose(c, a)
  <2>1. CASE store[a].status # "absent"
    BY <1>2, <1>5, <2>1, BeginType DEF CallPropose, Steps, Operations
  <2>2. CASE store[a].status = "absent"
    <3>1. PICK e \in Expiries, b \in {Unseen} \cup (0 .. rev), p \in BOOLEAN :
            Begin(c, "loaded", "propose", a,
                  [Absent EXCEPT !.status = "proposed", !.expiresAt = e,
                                 !.basedOn = b, !.target = rev,
                                 !.predicates = p])
      BY <1>5, <2>2 DEF CallPropose
    <3> DEFINE r == [Absent EXCEPT !.status = "proposed", !.expiresAt = e,
                                   !.basedOn = b, !.target = rev,
                                   !.predicates = p]
    <3>2. e \in Nat /\ b \in Nat \cup {Unseen}
      BY <1>2, BoundAssumption DEF Expiries, Unseen
    <3>3. r \in Record
      BY <1>2, <1>3, <3>2 DEF Record, Statuses
    <3>4. Begin(c, "loaded", "propose", a, r)
      BY <3>1
    <3>5. UNCHANGED <<store, writesEnabled, clock, claims, retries, remote>>
      BY <1>5 DEF CallPropose
    <3> HIDE DEF r
    <3> QED
      BY <1>2, <3>3, <3>4, <3>5, BeginType DEF Steps, Operations
  <2> QED
    BY <2>1, <2>2
<1>6. CASE CallApprove(c, a)
  <2>1. PICK op \in {"approve", "stream"} \cap Api :
          Begin(c, "loaded", op, a, store[a])
    BY <1>6 DEF CallApprove
  <2>2. UNCHANGED <<store, writesEnabled, clock, claims, retries, remote>>
    BY <1>6 DEF CallApprove
  <2>3. op \in Operations /\ "loaded" \in Steps
    BY <2>1 DEF Operations, Steps
  <2>4. Begin(c, "loaded", op, a, store[a]) /\ retries' \in Nat
    BY <1>2, <2>1, <2>2
  <2> QED
    BY <1>2, <2>2, <2>3, <2>4, BeginType
<1>7. CASE CallRetry(c, a)
    BY <1>2, <1>3, <1>7, BeginType DEF CallRetry, Steps, Operations
<1>8. CASE CallReject(c, a)
    BY <1>2, <1>8, BeginType DEF CallReject, Steps, Operations
<1>9. CASE CallResume(c, a)
  <2> DEFINE list == [b \in Action |-> IF store[b].status \in InFlight
                                       THEN store[b] ELSE Absent]
             q == [Idle EXCEPT !.pc = "loaded", !.op = "resume", !.id = a,
                               !.todo = list]
  <2>1. list \in [Action -> Record]
    BY <1>3 DEF TypeOK
  <2>2. q \in Request
    BY <2>1, IdleType DEF Request, Steps, Operations
  <2>3. q.id \in Action
    BY IdleType DEF Request
  <2> HIDE DEF list
  <2>4. Become(c, q) /\ UNCHANGED <<store, writesEnabled, clock, claims, retries, remote>>
    BY <1>9 DEF CallResume, list
  <2> QED
    BY <2>2, <2>3, <2>4, BecomeType
<1> QED
    BY <1>1, <1>5, <1>6, <1>7, <1>8, <1>9

LEMMA DecideType ==
    ASSUME TypeOK, NEW c \in Client,
           \/ CheckProposal(c) \/ CheckApproval(c) \/ LoadRetry(c)
           \/ CheckRetry(c) \/ DoReject(c) \/ ReadRevision(c) \/ ReadThrows(c)
           \/ DecideProposal(c) \/ DecideApproval(c) \/ DecideRetry(c)
    PROVE  TypeOK'
<1> DEFINE r == req[c].rec
<1>1. /\ req[c] \in Request /\ r \in Record /\ req[c].now \in Nat
      /\ rev \in Nat
    BY DEF TypeOK, Request
<1>a. req[c].id \in Action
    BY DEF TypeOK, At, CheckProposal, CheckApproval, LoadRetry, CheckRetry,
           DoReject, ReadRevision, ReadThrows, DecideProposal, DecideApproval,
           DecideRetry
<1>2. CASE CheckProposal(c)
    BY <1>a, <1>1, <1>2, ReturnType, EnterContextType DEF CheckProposal
<1>3. CASE CheckApproval(c)
  <2>1. Failed(r, "expired") \in Record
    BY <1>1, RowType DEF FailureKinds
  <2> QED
    BY <1>a, <1>1, <1>3, <2>1, ReturnType, SaveAndReturnType, EnterContextType
    DEF CheckApproval
<1>4. CASE LoadRetry(c)
  <2>1. store[req[c].id] \in Record
    BY <1>a DEF TypeOK
  <2> DEFINE q == [req[c] EXCEPT !.pc = "loaded", !.rec = store[req[c].id]]
  <2>2. q \in Request /\ q.id \in Action
    BY <1>a, <1>1, <2>1 DEF Request, Steps
  <2> QED
    BY <1>4, <2>2, BecomeType DEF LoadRetry
<1>5. CASE CheckRetry(c)
  <2>1. CASE RetryRefused(r)
    BY <1>5, <2>1, ReturnType DEF CheckRetry
  <2>2. CASE ~RetryRefused(r)
    <3>1. PICK e \in Expiries :
            EnterContext(c, [r EXCEPT !.status = "awaiting_approval",
                                      !.failure = None, !.expiresAt = e,
                                      !.predicates = TRUE])
      BY <1>5, <2>2 DEF CheckRetry
    <3>2. e \in Nat
      BY BoundAssumption DEF Expiries
    <3> QED
      BY <1>a, <1>1, <3>1, <3>2, RowType, EnterContextType
  <2> QED
    BY <2>1, <2>2
<1>6. CASE DoReject(c)
  <2>1. [r EXCEPT !.status = "rejected"] \in Record
    BY <1>1, RowType DEF Statuses
  <2> QED
    BY <1>6, <2>1, ReturnType, SaveAndReturnType DEF DoReject
<1>7. CASE ReadRevision(c)
  <2>1. PICK seen \in {rev} \cup {Unseen} :
          Become(c, [req[c] EXCEPT !.pc = "observed", !.seen = seen])
    BY <1>7 DEF ReadRevision
  <2> DEFINE q == [req[c] EXCEPT !.pc = "observed", !.seen = seen]
  <2>2. q \in Request /\ q.id \in Action
    BY <1>a, <1>1, <2>1 DEF Request, Steps
  <2> QED
    BY <1>7, <2>1, <2>2, BecomeType DEF ReadRevision
<1>8. CASE ReadThrows(c)
    BY <1>8, ReturnType DEF ReadThrows
<1>9. CASE DecideProposal(c)
  <2>1. /\ Failed(r, "policy") \in Record
        /\ [r EXCEPT !.status = "awaiting_approval"] \in Record
    BY <1>1, RowType DEF FailureKinds, Statuses
  <2> QED
    BY <1>9, <2>1, ReturnType, SaveAndReturnType DEF DecideProposal
<1>10. CASE DecideApproval(c)
  <2> DEFINE executing == Executing(r, req[c].now)
             q == [req[c] EXCEPT !.pc = "claimed", !.rec = executing,
                                 !.enabled = FALSE]
  <2>1. /\ executing \in Record
        /\ [r EXCEPT !.status = "stale", !.failure = "policy"] \in Record
    BY <1>1, RowType DEF FailureKinds, Statuses
  <2>2. q \in Request /\ q.id \in Action
    <3> HIDE DEF executing
    <3> QED BY <1>a, <1>1, <2>1 DEF Request, Steps
  <2>3. CASE Denied(c)
    BY <1>10, <2>1, <2>3, SaveAndReturnType DEF DecideApproval
  <2>4. CASE ~Denied(c)
    <3>1. /\ Save(req[c].id, executing) /\ Become(c, q)
          /\ claims' = [claims EXCEPT ![req[c].id] = @ + 1]
          /\ UNCHANGED <<writesEnabled, clock, retries, remote>>
      BY <1>10, <2>4 DEF DecideApproval
    <3> HIDE DEF executing, q
    <3> QED
      BY <1>a, <2>1, <2>2, <3>1 DEF TypeOK, Save, Become, remote
  <2> QED
    BY <2>3, <2>4
<1>11. CASE DecideRetry(c)
  <2>1. Failed(r, "policy") \in Record
    BY <1>1, RowType DEF FailureKinds
  <2> QED
    BY <1>1, <1>11, <2>1, SaveAndReturnType DEF DecideRetry
<1> QED
    BY <1>2, <1>3, <1>4, <1>5, <1>6, <1>7, <1>8, <1>9, <1>10, <1>11

(* Every write landing keeps the types.                                    *)
LEMMA LandType ==
    ASSUME TypeOK, NEW a \in Action, NEW late1 \in [Action -> Nat],
           Land(a, late1), req' \in [Client -> Request],
           \A c \in Client : req'[c].pc # "idle" => req'[c].id \in Action
    PROVE  TypeOK'
BY DEF TypeOK, Land

LEMMA ExecuteType ==
    ASSUME TypeOK, NEW c \in Client,
           \/ Send(c) \/ Answered(c) \/ CallbackThrows(c)
           \/ RemoteApplies(c) \/ RemoteRefuses(c) \/ LoseAnswer(c)
    PROVE  TypeOK'
<1> DEFINE r == req[c].rec
<1>1. /\ req[c] \in Request /\ r \in Record /\ req[c].now \in Nat
      /\ req[c].id \in Action /\ req[c].op \in Operations \cup {None}
      /\ req[c].pc # "idle"
    BY DEF TypeOK, Request, At, Send, Answered, CallbackThrows, RemoteApplies,
           RemoteRefuses, LoseAnswer
<1>2. CASE Send(c)
  <2> DEFINE q == [req[c] EXCEPT !.pc = "sent", !.write = "flying"]
  <2>1. q \in Request /\ q.id \in Action
    BY <1>1 DEF Request, Steps, Writes
  <2> QED
    BY <1>2, <2>1, BecomeType DEF Send
<1>3. CASE Answered(c)
  <2> DEFINE verifying == [r EXCEPT !.status = "verifying",
                                    !.executedAt = req[c].now,
                                    !.resolved = (req[c].id \in Creations)]
             q == [Idle EXCEPT !.pc = "verifying", !.op = req[c].op,
                               !.id = req[c].id, !.rec = verifying]
  <2>1. verifying \in Record /\ Failed(r, "transport") \in Record
    <3>1. (req[c].id \in Creations) \in BOOLEAN
      OBVIOUS
    <3>2. verifying \in Record
      BY <1>1, <3>1, RowType, Zenon
    <3> QED
      BY <1>1, <3>2, RowType DEF FailureKinds
  <2>2. q \in Request /\ q.id \in Action
    <3> HIDE DEF verifying
    <3> QED BY <1>1, <2>1, IdleType DEF Request, Steps
  <2>3. CASE req[c].write = "applied"
    <3>1. /\ Save(req[c].id, verifying) /\ Become(c, q)
          /\ UNCHANGED <<writesEnabled, clock, claims, retries, remote>>
      BY <1>3, <2>3 DEF Answered
    <3> HIDE DEF verifying, q
    <3> QED
      BY <1>1, <2>1, <2>2, <3>1 DEF TypeOK, Save, Become, remote
  <2>4. CASE req[c].write # "applied"
    BY <1>3, <2>1, <2>4, SaveAndReturnType DEF Answered
  <2> QED
    BY <2>3, <2>4
<1>4. CASE CallbackThrows(c)
    BY <1>4, ReturnType DEF CallbackThrows
<1>5. CASE RemoteApplies(c)
  <2>1. PICK w \in {"applied", "partial"} :
          Become(c, [req[c] EXCEPT !.write = w])
    BY <1>5 DEF RemoteApplies
  <2> DEFINE q == [req[c] EXCEPT !.write = w]
  <2>2. q \in Request /\ q.id \in Action
    BY <1>1 DEF Request, Writes
  <2>3. Become(c, q) /\ Land(req[c].id, late)
    BY <1>5, <2>1 DEF RemoteApplies
  <2> HIDE DEF q
  <2>4. /\ req' \in [Client -> Request]
        /\ \A d \in Client : req'[d].pc # "idle" => req'[d].id \in Action
    BY <2>2, <2>3 DEF Become, TypeOK
  <2>5. late \in [Action -> Nat]
    BY DEF TypeOK
  <2> QED
    BY <1>1, <2>3, <2>4, <2>5, LandType
<1>6. CASE RemoteRefuses(c)
  <2> DEFINE q == [req[c] EXCEPT !.write = "failed"]
  <2>1. q \in Request /\ q.id \in Action
    BY <1>1 DEF Request, Writes
  <2> QED
    BY <1>6, <2>1, BecomeType DEF RemoteRefuses
<1>7. CASE LoseAnswer(c)
  <2> DEFINE q == [req[c] EXCEPT !.write = "failed"]
  <2>1. q \in Request /\ q.id \in Action
    BY <1>1 DEF Request, Writes
  <2>2. /\ Become(c, q) /\ late' = [late EXCEPT ![req[c].id] = @ + Strand(c)]
        /\ UNCHANGED <<store, writesEnabled, clock, claims, retries,
                       rev, shown, landed, evidence, edits>>
    BY <1>7 DEF LoseAnswer
  <2>3. Strand(c) \in Nat
    BY DEF Strand
  <2> HIDE DEF q
  <2> QED
    BY <1>1, <2>1, <2>2, <2>3 DEF TypeOK, Become
<1> QED
    BY <1>2, <1>3, <1>4, <1>5, <1>6, <1>7

LEMMA VerifyType ==
    ASSUME TypeOK, NEW c \in Client,
           ResumeNext(c) \/ VerifyAttempt(c) \/ WriteVerdict(c)
    PROVE  TypeOK'
<1> DEFINE r == req[c].rec
<1>1. /\ req[c] \in Request /\ r \in Record /\ Absent \in Record
      /\ req[c].id \in Action /\ req[c].tries \in Nat
      /\ req[c].todo \in [Action -> Record]
    BY IdleType DEF TypeOK, Request, Idle, At, ResumeNext, VerifyAttempt, WriteVerdict
<1>2. CASE ResumeNext(c)
  <2>1. CASE Return(c)
    BY <2>1, ReturnType
  <2>2. CASE ~Return(c)
    <3>1. PICK b \in Action :
            /\ Become(c, [req[c] EXCEPT !.pc = "verifying", !.id = b,
                                        !.rec = req[c].todo[b],
                                        !.todo = [@ EXCEPT ![b] = Absent]])
            /\ UNCHANGED <<store, writesEnabled, clock, claims, retries, remote>>
      BY <1>2, <2>2 DEF ResumeNext
    <3> DEFINE rest == [req[c].todo EXCEPT ![b] = Absent]
               q == [req[c] EXCEPT !.pc = "verifying", !.id = b,
                                   !.rec = req[c].todo[b], !.todo = rest]
    <3>2. rest \in [Action -> Record] /\ req[c].todo[b] \in Record
      BY <1>1
    <3>3. q \in Request /\ q.id \in Action
      <4> HIDE DEF rest
      <4> QED BY <1>1, <3>2 DEF Request, Steps
    <3>4. Become(c, q)
      BY <3>1
    <3> HIDE DEF q
    <3> QED
      BY <3>1, <3>3, <3>4, BecomeType
  <2> QED
    BY <2>1, <2>2
<1>3. CASE VerifyAttempt(c)
  <2> DEFINE q(v) == [req[c] EXCEPT !.pc = "judged", !.verdict = v]
             again == [req[c] EXCEPT !.tries = Tried(@)]
  <2>1. /\ \A v \in Verdicts : q(v) \in Request /\ q(v).id \in Action
        /\ again \in Request /\ again.id \in Action
    <3>1. ASSUME NEW v \in Verdicts PROVE q(v) \in Request /\ q(v).id \in Action
      BY <1>1 DEF Request, Steps
    <3>2. Tried(req[c].tries) \in Nat
      BY <1>1 DEF Tried
    <3>3. again \in Request /\ again.id \in Action
      BY <1>1, <3>2 DEF Request
    <3> QED
      BY <3>1, <3>3
  <2>2. /\ \/ \E v \in Verdicts : Become(c, q(v))
           \/ Become(c, again)
        /\ UNCHANGED <<store, writesEnabled, clock, claims, retries, remote>>
    BY <1>3 DEF VerifyAttempt, Verdicts
  <2> HIDE DEF q, again
  <2> QED
    BY <2>1, <2>2, BecomeType
<1>4. CASE WriteVerdict(c)
  <2> DEFINE row == IF req[c].verdict = "verified"
                    THEN [r EXCEPT !.status = "verified"]
                    ELSE Failed(r, Unverified(c))
             q == IF req[c].op = "resume"
                  THEN [req[c] EXCEPT !.pc = "loaded", !.rec = Absent,
                                      !.tries = 0, !.verdict = None]
                  ELSE Idle
  <2>1. row \in Record
    BY <1>1, RowType DEF Statuses, FailureKinds, Unverified
  <2>2. q \in Request /\ (q.pc # "idle" => q.id \in Action)
    BY <1>1, IdleType DEF Idle, Request, Steps, Verdicts
  <2>3. /\ Save(req[c].id, row) /\ Become(c, q)
        /\ UNCHANGED <<writesEnabled, clock, claims, retries, remote>>
    BY <1>4 DEF WriteVerdict, Finish
  <2> HIDE DEF row, q
  <2> QED
    BY <1>1, <2>1, <2>2, <2>3 DEF TypeOK, Save, Become, remote
<1> QED
    BY <1>2, <1>3, <1>4

LEMMA WorldType ==
    ASSUME TypeOK, Late \/ SetWritesEnabled \/ Tick \/ ExternalEdit \/ Crash
    PROVE  TypeOK'
<1>1. CASE Late
  <2>1. PICK a \in Action : LateLands(a) \/ LateDropped(a)
    BY <1>1 DEF Late
  <2> DEFINE late1 == [late EXCEPT ![a] = @ - 1]
  <2>2. late1 \in [Action -> Nat]
    BY <2>1 DEF TypeOK, LateLands, LateDropped
  <2>3. CASE LateLands(a)
    BY <2>2, <2>3, LandType DEF LateLands, TypeOK
  <2>4. CASE LateDropped(a)
    BY <2>2, <2>4 DEF LateDropped, TypeOK
  <2> QED
    BY <2>1, <2>3, <2>4
<1>2. CASE SetWritesEnabled
  <2> DEFINE q(c) == [req[c] EXCEPT !.wasOn = @ \/ ~writesEnabled]
  <2>1. ASSUME NEW c \in Client
        PROVE  /\ q(c) \in Request /\ q(c).id = req[c].id
               /\ q(c).pc = req[c].pc /\ req[c] \in Request
    <3>1. req[c] \in Request /\ (req[c].wasOn \/ ~writesEnabled) \in BOOLEAN
      BY DEF TypeOK
    <3> QED
      BY <3>1 DEF Request
  <2>2. req' = [c \in Client |-> IF req[c].pc = "idle" THEN req[c] ELSE q(c)]
    BY <1>2 DEF SetWritesEnabled
  <2> HIDE DEF q
  <2> QED
    BY <1>2, <2>1, <2>2 DEF SetWritesEnabled, TypeOK, remote
<1>3. CASE Tick
    BY <1>3 DEF Tick, TypeOK, remote
<1>4. CASE ExternalEdit
    BY <1>4 DEF ExternalEdit, TypeOK
<1>5. CASE Crash
    BY <1>5, IdleType, StrandedType DEF Crash, TypeOK, Idle
<1> QED
    BY <1>1, <1>2, <1>3, <1>4, <1>5

LEMMA TypeStep == TypeOK /\ [Next]_vars => TypeOK'
<1> SUFFICES ASSUME TypeOK, [Next]_vars PROVE TypeOK'
    OBVIOUS
<1>1. CASE UNCHANGED vars
    BY <1>1 DEF vars, TypeOK
<1>2. CASE \E c \in Client : Call(c) \/ Handle(c) \/ Remote(c)
    BY <1>2, CallType, DecideType, ExecuteType, VerifyType DEF Handle, Remote
<1>3. CASE Late \/ SetWritesEnabled \/ Tick \/ ExternalEdit \/ Crash
    BY <1>3, WorldType
<1> QED
    BY <1>1, <1>2, <1>3 DEF Next

LEMMA TypeInit == Init => TypeOK
BY IdleType DEF Init, TypeOK, Idle, Request

(* Every row, request and counter of the runtime has its type, whatever    *)
(* the callers interleave and whatever fails.                              *)
THEOREM TypeCorrect == Spec => []TypeOK
BY TypeInit, TypeStep, PTL DEF Spec

-----------------------------------------------------------------------------
(* executedAt is recorded only for writes that took effect                 *)

(* What an operation carries in its snapshots is as true as the table:     *)
(* updateStatus writes them back whole.                                    *)
Wrote(r, a) == r.executedAt # Unset => landed[a] > 0

ExecutedInv ==
    /\ \A a \in Action : Wrote(store[a], a)
    /\ \A c \in Client : req[c].pc # "idle" =>
         /\ Wrote(req[c].rec, req[c].id)
         /\ \A b \in Action : Wrote(req[c].todo[b], b)
         /\ req[c].write = "applied" => /\ req[c].pc = "sent"
                                        /\ landed[req[c].id] > 0

(* A request that carries only true snapshots.                             *)
Truthful(q) ==
    q.pc # "idle" =>
      /\ Wrote(q.rec, q.id)
      /\ \A b \in Action : Wrote(q.todo[b], b)
      /\ q.write = "applied" => q.pc = "sent" /\ landed[q.id] > 0

LEMMA AbsentWrote == \A a \in Action : Wrote(Absent, a)
BY DEF Wrote, Absent

(* A step that saves at most one true row and leaves one truthful request. *)
LEMMA ExecutedKept ==
    ASSUME TypeOK, ExecutedInv, NEW c \in Client, NEW q, Become(c, q),
           Truthful(q), UNCHANGED landed,
           \/ UNCHANGED store
           \/ \E r : Save(req[c].id, r) /\ Wrote(r, req[c].id)
    PROVE  ExecutedInv'
BY DEF TypeOK, ExecutedInv, Truthful, Wrote, Become, Save

LEMMA ExecutedReturn ==
    ASSUME TypeOK, ExecutedInv, NEW c \in Client,
           \/ Return(c)
           \/ \E r : SaveAndReturn(c, r) /\ Wrote(r, req[c].id)
    PROVE  ExecutedInv'
<1>1. Truthful(Idle) /\ Become(c, Idle) /\ UNCHANGED landed
    BY DEF Truthful, Idle, Return, SaveAndReturn, Finish, remote
<1> QED
    BY <1>1, ExecutedKept DEF Return, SaveAndReturn

(* Only Answered changes executedAt.                                       *)
LEMMA RowExecuted ==
    ASSUME NEW r \in Record
    PROVE  /\ \A kind \in FailureKinds : Failed(r, kind).executedAt = r.executedAt
           /\ \A now \in Nat : Executing(r, now).executedAt = r.executedAt
           /\ \A s \in Statuses : [r EXCEPT !.status = s].executedAt = r.executedAt
           /\ \A s \in Statuses, kind \in FailureKinds :
                [r EXCEPT !.status = s, !.failure = kind].executedAt = r.executedAt
           /\ \A e \in Nat : [r EXCEPT !.status = "awaiting_approval",
                                !.failure = None, !.expiresAt = e,
                                !.predicates = TRUE].executedAt = r.executedAt
BY DEF Failed, Executing, Record

LEMMA ExecutedCall ==
    ASSUME TypeOK, ExecutedInv, NEW c \in Client, Call(c)
    PROVE  ExecutedInv'
<1>1. PICK a \in Action : \/ CallPropose(c, a) \/ CallApprove(c, a)
                          \/ CallRetry(c, a)   \/ CallReject(c, a)
                          \/ CallResume(c, a)
    BY DEF Call
<1>2. UNCHANGED store /\ UNCHANGED landed
    BY <1>1 DEF CallPropose, CallApprove, CallRetry, CallReject, CallResume, remote
<1>3. ASSUME NEW step \in Steps, NEW op \in Operations, NEW r,
             Wrote(r, a), Begin(c, step, op, a, r)
      PROVE  ExecutedInv'
  <2> DEFINE q == [Idle EXCEPT !.pc = step, !.op = op, !.id = a, !.rec = r,
                               !.since = rev, !.wasOn = writesEnabled]
  <2>1. Truthful(q)
    BY <1>3, AbsentWrote DEF Truthful, Idle, None
  <2>2. Become(c, q)
    BY <1>3 DEF Begin
  <2> HIDE DEF q
  <2> QED
    BY <1>2, <2>1, <2>2, ExecutedKept
<1>4. Wrote(store[a], a) /\ Wrote(Absent, a)
    BY AbsentWrote DEF ExecutedInv
<1>5. CASE CallPropose(c, a)
  <2>1. \A e, b, p : Wrote([Absent EXCEPT !.status = "proposed", !.expiresAt = e,
                                          !.basedOn = b, !.target = rev,
                                          !.predicates = p], a)
    BY DEF Wrote, Absent
  <2>2. \E r : Wrote(r, a) /\ Begin(c, "loaded", "propose", a, r)
    BY <1>4, <1>5, <2>1 DEF CallPropose
  <2> QED
    BY <1>3, <2>2 DEF Steps, Operations
<1>6. CASE CallApprove(c, a) \/ CallRetry(c, a) \/ CallReject(c, a)
  <2>1. \E step \in Steps, op \in Operations : \E r :
          Wrote(r, a) /\ Begin(c, step, op, a, r)
    BY <1>4, <1>6 DEF CallApprove, CallRetry, CallReject, Steps, Operations
  <2> QED
    BY <1>3, <2>1
<1>7. CASE CallResume(c, a)
  <2> DEFINE list == [b \in Action |-> IF store[b].status \in InFlight
                                       THEN store[b] ELSE Absent]
             q == [Idle EXCEPT !.pc = "loaded", !.op = "resume", !.id = a,
                               !.todo = list]
  <2>1. \A b \in Action : Wrote(list[b], b)
    BY AbsentWrote DEF ExecutedInv
  <2>2. Truthful(q)
    BY <2>1, AbsentWrote DEF Truthful, Idle, None
  <2>3. Become(c, q)
    BY <1>7 DEF CallResume
  <2> HIDE DEF q
  <2> QED
    BY <1>2, <2>2, <2>3, ExecutedKept
<1> QED
    BY <1>1, <1>5, <1>6, <1>7

LEMMA ExecutedDecide ==
    ASSUME TypeOK, ExecutedInv, NEW c \in Client,
           \/ CheckProposal(c) \/ CheckApproval(c) \/ LoadRetry(c)
           \/ CheckRetry(c) \/ DoReject(c) \/ ReadRevision(c) \/ ReadThrows(c)
           \/ DecideProposal(c) \/ DecideApproval(c) \/ DecideRetry(c)
    PROVE  ExecutedInv'
<1> DEFINE r == req[c].rec
           a == req[c].id
<1>1. /\ req[c] \in Request /\ r \in Record /\ req[c].now \in Nat
      /\ a \in Action /\ req[c].pc \notin {"idle", "sent"}
    BY DEF TypeOK, Request, At, CheckProposal, CheckApproval, LoadRetry,
           CheckRetry, DoReject, ReadRevision, ReadThrows, DecideProposal,
           DecideApproval, DecideRetry
<1>2. Wrote(r, a) /\ Truthful(req[c]) /\ Wrote(store[a], a)
    BY <1>1 DEF ExecutedInv, Truthful
<1>3. ASSUME NEW r1, r1.executedAt = r.executedAt, SaveAndReturn(c, r1)
      PROVE  ExecutedInv'
    BY <1>2, <1>3, ExecutedReturn DEF Wrote
<1>4. ASSUME NEW r1, r1.executedAt = r.executedAt, EnterContext(c, r1)
      PROVE  ExecutedInv'
  <2> DEFINE q == [req[c] EXCEPT !.pc = "context", !.rec = r1,
                                 !.enabled = writesEnabled, !.now = clock]
  <2>1. Truthful(q)
    BY <1>1, <1>2, <1>4 DEF Truthful, Wrote, Request
  <2>2. Become(c, q) /\ UNCHANGED store /\ UNCHANGED landed
    BY <1>4 DEF EnterContext, remote
  <2> HIDE DEF q
  <2> QED
    BY <2>1, <2>2, ExecutedKept
<1>5. CASE CheckProposal(c) \/ CheckApproval(c) \/ CheckRetry(c) \/ DoReject(c)
  <2>1. /\ Failed(r, "expired").executedAt = r.executedAt
        /\ [r EXCEPT !.status = "rejected"].executedAt = r.executedAt
    BY <1>1, RowExecuted DEF FailureKinds, Statuses
  <2>2. \A e \in Expiries : [r EXCEPT !.status = "awaiting_approval",
                               !.failure = None, !.expiresAt = e,
                               !.predicates = TRUE].executedAt = r.executedAt
    BY <1>1, RowExecuted, BoundAssumption DEF Expiries
  <2>3. \/ Return(c)
        \/ \E r1 : r1.executedAt = r.executedAt
                   /\ (SaveAndReturn(c, r1) \/ EnterContext(c, r1))
    BY <1>5, <2>1, <2>2 DEF CheckProposal, CheckApproval, CheckRetry, DoReject
  <2> QED
    BY <1>3, <1>4, <2>3, ExecutedReturn
<1>6. CASE LoadRetry(c)
  <2> DEFINE q == [req[c] EXCEPT !.pc = "loaded", !.rec = store[a]]
  <2>1. Truthful(q)
    BY <1>1, <1>2 DEF Truthful, Request
  <2>2. Become(c, q) /\ UNCHANGED store /\ UNCHANGED landed
    BY <1>6 DEF LoadRetry, remote
  <2> HIDE DEF q
  <2> QED
    BY <2>1, <2>2, ExecutedKept
<1>7. CASE ReadRevision(c)
  <2>1. PICK seen \in Nat \cup {Unseen} :
          Become(c, [req[c] EXCEPT !.pc = "observed", !.seen = seen])
    BY <1>7 DEF ReadRevision, TypeOK
  <2> DEFINE q == [req[c] EXCEPT !.pc = "observed", !.seen = seen]
  <2>2. Truthful(q)
    BY <1>1, <1>2 DEF Truthful, Request
  <2>3. Become(c, q) /\ UNCHANGED store /\ UNCHANGED landed
    BY <1>7, <2>1 DEF ReadRevision, remote
  <2> HIDE DEF q
  <2> QED
    BY <2>2, <2>3, ExecutedKept
<1>8. CASE ReadThrows(c)
    BY <1>8, ExecutedReturn DEF ReadThrows
<1>9. CASE DecideProposal(c) \/ DecideRetry(c) \/ (DecideApproval(c) /\ Denied(c))
  <2>1. /\ Failed(r, "policy").executedAt = r.executedAt
        /\ [r EXCEPT !.status = "awaiting_approval"].executedAt = r.executedAt
        /\ [r EXCEPT !.status = "stale", !.failure = "policy"].executedAt
             = r.executedAt
    BY <1>1, RowExecuted DEF FailureKinds, Statuses
  <2>2. \/ Return(c)
        \/ \E r1 : r1.executedAt = r.executedAt /\ SaveAndReturn(c, r1)
    BY <1>9, <2>1 DEF DecideProposal, DecideRetry, DecideApproval
  <2> QED
    BY <1>3, <2>2, ExecutedReturn
<1>10. CASE DecideApproval(c) /\ ~Denied(c)
  <2> DEFINE r1 == Executing(r, req[c].now)
             q == [req[c] EXCEPT !.pc = "claimed", !.rec = r1, !.enabled = FALSE]
  <2>1. r1.executedAt = r.executedAt
    BY <1>1, RowExecuted
  <2>2. Save(a, r1) /\ Become(c, q) /\ UNCHANGED landed
    BY <1>10 DEF DecideApproval, remote
  <2> HIDE DEF r1
  <2>3. Truthful(q) /\ Wrote(r1, a)
    BY <1>1, <1>2, <2>1 DEF Truthful, Wrote, Request
  <2> HIDE DEF q
  <2> QED
    BY <2>2, <2>3, ExecutedKept
<1> QED
    BY <1>5, <1>6, <1>7, <1>8, <1>9, <1>10

(* Writes that land keep every claim that a write landed.                  *)
LEMMA LandMore ==
    ASSUME TypeOK, NEW a \in Action, NEW late1, Land(a, late1)
    PROVE  /\ \A b \in Action : landed[b] > 0 => landed'[b] > 0
           /\ landed'[a] > 0 /\ UNCHANGED store
BY DEF TypeOK, Land

LEMMA ExecutedExecute ==
    ASSUME TypeOK, ExecutedInv, NEW c \in Client,
           \/ Send(c) \/ Answered(c) \/ CallbackThrows(c)
           \/ RemoteApplies(c) \/ RemoteRefuses(c) \/ LoseAnswer(c)
    PROVE  ExecutedInv'
<1> DEFINE r == req[c].rec
           a == req[c].id
<1>1. /\ req[c] \in Request /\ r \in Record /\ a \in Action /\ req[c].pc # "idle"
    BY DEF TypeOK, Request, At, Send, Answered, CallbackThrows, RemoteApplies,
           RemoteRefuses, LoseAnswer
<1>2. Wrote(r, a) /\ Truthful(req[c])
    BY <1>1 DEF ExecutedInv, Truthful
<1>3. CASE Send(c) \/ RemoteRefuses(c) \/ LoseAnswer(c)
  <2>1. \A w \in {"flying", "failed"} : Truthful([req[c] EXCEPT !.write = w])
    BY <1>1, <1>2 DEF Truthful, Request
  <2>2. Truthful([req[c] EXCEPT !.pc = "sent", !.write = "flying"])
    BY <1>1, <1>2 DEF Truthful, Request
  <2>3. /\ \E q : Truthful(q) /\ Become(c, q)
        /\ UNCHANGED store /\ UNCHANGED landed
    BY <1>3, <2>1, <2>2 DEF Send, RemoteRefuses, LoseAnswer, remote
  <2> QED
    BY <2>3, ExecutedKept
<1>4. CASE CallbackThrows(c)
    BY <1>4, ExecutedReturn DEF CallbackThrows
<1>5. CASE Answered(c) /\ req[c].write = "applied"
  <2> DEFINE r1 == [r EXCEPT !.status = "verifying", !.executedAt = req[c].now,
                             !.resolved = (a \in Creations)]
             q == [Idle EXCEPT !.pc = "verifying", !.op = req[c].op,
                               !.id = a, !.rec = r1]
  <2>1. landed[a] > 0
    BY <1>1, <1>2, <1>5 DEF Truthful
  <2>2. Save(a, r1) /\ Become(c, q) /\ UNCHANGED landed
    BY <1>5 DEF Answered, remote
  <2> HIDE DEF r1
  <2>3. Truthful(q) /\ Wrote(r1, a)
    BY <2>1, AbsentWrote DEF Truthful, Wrote, Idle, None
  <2> HIDE DEF q
  <2> QED
    BY <2>2, <2>3, ExecutedKept
<1>6. CASE Answered(c) /\ req[c].write # "applied"
  <2>1. Failed(r, "transport").executedAt = r.executedAt
    BY <1>1, RowExecuted DEF FailureKinds
  <2> QED
    BY <1>2, <1>6, <2>1, ExecutedReturn DEF Answered, Wrote
<1>7. CASE RemoteApplies(c)
  <2>1. PICK w : Become(c, [req[c] EXCEPT !.write = w])
    BY <1>7 DEF RemoteApplies
  <2> DEFINE q == [req[c] EXCEPT !.write = w]
  <2>2. /\ q.pc = req[c].pc /\ q.id = a /\ q.rec = r /\ q.todo = req[c].todo
    BY <1>1 DEF Request
  <2>3. Become(c, q) /\ q.pc = "sent"
    BY <1>7, <2>1, <2>2 DEF RemoteApplies, At
  <2>4. /\ \A b \in Action : landed[b] > 0 => landed'[b] > 0
        /\ landed'[a] > 0 /\ UNCHANGED store
    BY <1>1, <1>7, LandMore DEF RemoteApplies
  <2> HIDE DEF q
  <2>5. \A b \in Action : Wrote(store[b], b)'
    BY <2>4 DEF ExecutedInv, Wrote
  <2>6. ASSUME NEW d \in Client, d # c, req'[d].pc # "idle"
        PROVE  Truthful(req[d])'
    <3>1. req'[d] = req[d] /\ req[d].id \in Action /\ Truthful(req[d])
      BY <2>3, <2>6 DEF Become, TypeOK, ExecutedInv, Truthful
    <3> QED
      BY <2>4, <3>1 DEF Truthful, Wrote
  <2>7. Truthful(req[c])'
    <3>1. req'[c] = q
      BY <2>3 DEF Become, TypeOK
    <3> QED
      BY <1>1, <1>2, <2>2, <2>3, <2>4, <3>1 DEF Truthful, Wrote
  <2> QED
    BY <2>5, <2>6, <2>7 DEF ExecutedInv, Truthful
<1> QED
    BY <1>3, <1>4, <1>5, <1>6, <1>7

LEMMA ExecutedVerify ==
    ASSUME TypeOK, ExecutedInv, NEW c \in Client,
           ResumeNext(c) \/ VerifyAttempt(c) \/ WriteVerdict(c)
    PROVE  ExecutedInv'
<1> DEFINE r == req[c].rec
           a == req[c].id
<1>1. /\ req[c] \in Request /\ r \in Record /\ a \in Action
      /\ req[c].pc \notin {"idle", "sent"}
      /\ req[c].todo \in [Action -> Record]
    BY DEF TypeOK, Request, At, ResumeNext, VerifyAttempt, WriteVerdict
<1>2. Wrote(r, a) /\ Truthful(req[c])
    BY <1>1 DEF ExecutedInv, Truthful
<1>3. CASE ResumeNext(c) /\ ~Return(c)
  <2>1. PICK b \in Action :
          /\ Become(c, [req[c] EXCEPT !.pc = "verifying", !.id = b,
                                      !.rec = req[c].todo[b],
                                      !.todo = [@ EXCEPT ![b] = Absent]])
          /\ UNCHANGED <<store, writesEnabled, clock, claims, retries, remote>>
    BY <1>3 DEF ResumeNext
  <2> DEFINE q == [req[c] EXCEPT !.pc = "verifying", !.id = b,
                                 !.rec = req[c].todo[b],
                                 !.todo = [@ EXCEPT ![b] = Absent]]
  <2>2. req[c].write # "applied"
    BY <1>1, <1>2 DEF Truthful
  <2>3. Truthful(q)
    BY <1>1, <1>2, <2>2, AbsentWrote DEF Truthful, Request
  <2>4. Become(c, q) /\ UNCHANGED store /\ UNCHANGED landed
    BY <2>1 DEF remote
  <2> HIDE DEF q
  <2> QED
    BY <2>3, <2>4, ExecutedKept
<1>4. CASE Return(c)
    BY <1>4, ExecutedReturn
<1>5. CASE VerifyAttempt(c)
  <2> DEFINE q(v) == [req[c] EXCEPT !.pc = "judged", !.verdict = v]
             again == [req[c] EXCEPT !.tries = Tried(@)]
  <2>1. Truthful(again) /\ \A v : Truthful(q(v))
    BY <1>1, <1>2 DEF Truthful, Request
  <2>2. /\ (\E v : Become(c, q(v))) \/ Become(c, again)
        /\ UNCHANGED store /\ UNCHANGED landed
    BY <1>5 DEF VerifyAttempt, remote
  <2> HIDE DEF q, again
  <2> QED
    BY <2>1, <2>2, ExecutedKept
<1>6. CASE WriteVerdict(c)
  <2> DEFINE row == IF req[c].verdict = "verified"
                    THEN [r EXCEPT !.status = "verified"]
                    ELSE Failed(r, Unverified(c))
             q == IF req[c].op = "resume"
                  THEN [req[c] EXCEPT !.pc = "loaded", !.rec = Absent,
                                      !.tries = 0, !.verdict = None]
                  ELSE Idle
  <2>1. row.executedAt = r.executedAt
    BY <1>1, RowExecuted DEF Statuses, FailureKinds, Unverified
  <2>2. Save(a, row) /\ Become(c, q) /\ UNCHANGED landed
    BY <1>6 DEF WriteVerdict, Finish, remote
  <2> HIDE DEF row
  <2>3. Wrote(row, a)
    BY <1>2, <2>1 DEF Wrote
  <2>4. Truthful(q)
    BY <1>1, <1>2, AbsentWrote DEF Truthful, Request, Idle
  <2> HIDE DEF q
  <2> QED
    BY <2>2, <2>3, <2>4, ExecutedKept
<1> QED
    BY <1>3, <1>4, <1>5, <1>6

LEMMA ExecutedWorld ==
    ASSUME TypeOK, ExecutedInv,
           Late \/ SetWritesEnabled \/ Tick \/ ExternalEdit \/ Crash
    PROVE  ExecutedInv'
<1>1. CASE Late
  <2>1. PICK a \in Action : LateLands(a) \/ LateDropped(a)
    BY <1>1 DEF Late
  <2>2. /\ \A b \in Action : landed[b] > 0 => landed'[b] > 0
        /\ UNCHANGED <<store, req>>
    BY <2>1, LandMore DEF LateLands, LateDropped
  <2>3. \A c \in Client : req[c].pc # "idle" => req[c].id \in Action
    BY DEF TypeOK
  <2> QED
    BY <2>2, <2>3 DEF ExecutedInv, Wrote
<1>2. CASE SetWritesEnabled
  <2>1. ASSUME NEW c \in Client
        PROVE  /\ req'[c].pc = req[c].pc /\ req'[c].id = req[c].id
               /\ req'[c].rec = req[c].rec /\ req'[c].todo = req[c].todo
               /\ req'[c].write = req[c].write
    BY <1>2 DEF SetWritesEnabled, TypeOK, Request
  <2>2. UNCHANGED store /\ UNCHANGED landed
    BY <1>2 DEF SetWritesEnabled, remote
  <2> QED
    BY <2>1, <2>2 DEF ExecutedInv, Wrote
<1>3. CASE Tick \/ ExternalEdit
  <2>1. UNCHANGED <<store, req, landed>>
    BY <1>3 DEF Tick, ExternalEdit, remote
  <2> QED
    BY <2>1 DEF ExecutedInv, Wrote
<1>4. CASE Crash
    BY <1>4 DEF Crash, ExecutedInv, Wrote, Idle
<1> QED
    BY <1>1, <1>2, <1>3, <1>4

LEMMA ExecutedStep == TypeOK /\ ExecutedInv /\ [Next]_vars => ExecutedInv'
<1> SUFFICES ASSUME TypeOK, ExecutedInv, [Next]_vars PROVE ExecutedInv'
    OBVIOUS
<1>1. CASE UNCHANGED vars
    BY <1>1 DEF vars, ExecutedInv, Wrote
<1>2. CASE \E c \in Client : Call(c) \/ Handle(c) \/ Remote(c)
    BY <1>2, ExecutedCall, ExecutedDecide, ExecutedExecute, ExecutedVerify
    DEF Handle, Remote
<1>3. CASE Late \/ SetWritesEnabled \/ Tick \/ ExternalEdit \/ Crash
    BY <1>3, ExecutedWorld
<1> QED
    BY <1>1, <1>2, <1>3 DEF Next

(* executedAt in the table always means that the write took effect: what   *)
(* the retry guard refuses is rightly refused.                             *)
THEOREM ExecutedAtCorrect == Spec => []ExecutedAtIsTrue
<1>1. Init => ExecutedInv
    BY AbsentWrote DEF Init, ExecutedInv, Idle
<1>2. ExecutedInv => ExecutedAtIsTrue
    BY DEF ExecutedInv, ExecutedAtIsTrue, Wrote
<1> QED
    BY <1>1, <1>2, TypeInit, TypeStep, ExecutedStep, PTL DEF Spec

-----------------------------------------------------------------------------
(* Nothing is executed that the policy would have refused                  *)

(* What a request in flight has established so far, at a revision and with *)
(* a position of the kill switch.                                          *)
Sound(q, current, on) ==
    /\ q.since <= current
    /\ q.pc \in {"called", "loaded"} /\ q.op # "resume" => (on => q.wasOn)
    /\ q.pc \in {"context", "observed"} =>
         /\ q.enabled => q.wasOn
         /\ q.op \in {"approve", "stream"} => q.now < q.rec.expiresAt
    /\ q.pc = "observed" => q.seen = Unseen \/ q.since <= q.seen
    /\ q.pc \in {"claimed", "sent"} => Licensed(q)

LicenseInv == \A c \in Client : Sound(req[c], rev, writesEnabled)

(* A step of one caller that moves the revision only forward.              *)
LEMMA SoundKept ==
    ASSUME TypeOK, LicenseInv, NEW c \in Client, NEW q, Become(c, q),
           rev' \in Nat, rev <= rev', UNCHANGED writesEnabled,
           Sound(q, rev', writesEnabled)
    PROVE  LicenseInv'
<1> SUFFICES ASSUME NEW d \in Client PROVE Sound(req[d], rev, writesEnabled)'
    BY DEF LicenseInv
<1>1. CASE d = c
    BY <1>1 DEF Become, TypeOK, Sound, Licensed
<1>2. CASE d # c
  <2>1. /\ req'[d] = req[d] /\ Sound(req[d], rev, writesEnabled)
        /\ req[d].since \in Nat /\ rev \in Nat
    BY <1>2 DEF Become, TypeOK, LicenseInv, Request
  <2> QED
    BY <2>1 DEF Sound, Licensed
<1> QED
    BY <1>1, <1>2

(* Where Sound has nothing to say about a request but its start.           *)
LEMMA SoundQuiet ==
    ASSUME NEW q, NEW n \in Nat, NEW on, q.since <= n,
           q.pc \in {"idle", "verifying", "judged"}
           \/ (q.pc = "loaded" /\ q.op = "resume")
    PROVE  Sound(q, n, on)
BY DEF Sound

LEMMA LicenseReturn ==
    ASSUME TypeOK, LicenseInv, NEW c \in Client,
           Return(c) \/ \E r : SaveAndReturn(c, r)
    PROVE  LicenseInv'
<1>1. /\ Become(c, Idle) /\ UNCHANGED <<rev, writesEnabled>> /\ rev \in Nat
    BY DEF Return, SaveAndReturn, Finish, remote, TypeOK
<1>2. Idle.since = 0 /\ Idle.pc = "idle"
    BY DEF Idle
<1> QED
    BY <1>1, <1>2, SoundQuiet, SoundKept

LEMMA LicenseCall ==
    ASSUME TypeOK, LicenseInv, NEW c \in Client, Call(c)
    PROVE  LicenseInv'
<1>1. PICK a \in Action : \/ CallPropose(c, a) \/ CallApprove(c, a)
                          \/ CallRetry(c, a)   \/ CallReject(c, a)
                          \/ CallResume(c, a)
    BY DEF Call
<1>2. UNCHANGED <<rev, writesEnabled>> /\ rev \in Nat
    BY <1>1 DEF CallPropose, CallApprove, CallRetry, CallReject, CallResume,
                remote, TypeOK
<1>3. ASSUME NEW step \in {"called", "loaded"}, NEW op, NEW r,
             Begin(c, step, op, a, r)
      PROVE  LicenseInv'
  <2> DEFINE q == [Idle EXCEPT !.pc = step, !.op = op, !.id = a, !.rec = r,
                               !.since = rev, !.wasOn = writesEnabled]
  <2>1. q.since = rev /\ q.pc = step /\ q.wasOn = writesEnabled
    BY DEF Idle
  <2>2. Become(c, q)
    BY <1>3 DEF Begin
  <2> HIDE DEF q
  <2>3. Sound(q, rev, writesEnabled)
    BY <1>2, <2>1 DEF Sound
  <2> QED
    BY <1>2, <2>2, <2>3, SoundKept
<1>4. CASE \/ CallPropose(c, a) \/ CallApprove(c, a)
           \/ CallRetry(c, a) \/ CallReject(c, a)
  <2>1. \E step \in {"called", "loaded"} : \E op, r : Begin(c, step, op, a, r)
    BY <1>4 DEF CallPropose, CallApprove, CallRetry, CallReject
  <2> QED
    BY <1>3, <2>1
<1>5. CASE CallResume(c, a)
  <2> DEFINE q == [Idle EXCEPT
                     !.pc = "loaded", !.op = "resume", !.id = a,
                     !.todo = [b \in Action |-> IF store[b].status \in InFlight
                                                THEN store[b] ELSE Absent]]
  <2>1. q.since = 0 /\ q.pc = "loaded" /\ q.op = "resume"
    BY DEF Idle
  <2>2. Become(c, q)
    BY <1>5 DEF CallResume
  <2> HIDE DEF q
  <2> QED
    BY <1>2, <2>1, <2>2, SoundQuiet, SoundKept
<1> QED
    BY <1>1, <1>4, <1>5

LEMMA LicenseDecide ==
    ASSUME TypeOK, LicenseInv, NEW c \in Client,
           \/ CheckProposal(c) \/ CheckApproval(c) \/ LoadRetry(c)
           \/ CheckRetry(c) \/ DoReject(c) \/ ReadRevision(c) \/ ReadThrows(c)
           \/ DecideProposal(c) \/ DecideApproval(c) \/ DecideRetry(c)
    PROVE  LicenseInv'
<1> DEFINE r == req[c].rec
<1>1. /\ req[c] \in Request /\ r \in Record /\ rev \in Nat /\ clock \in Nat
      /\ req[c].since \in Nat /\ Sound(req[c], rev, writesEnabled)
    BY DEF TypeOK, Request, LicenseInv
<1>2. UNCHANGED <<rev, writesEnabled>>
    BY DEF CheckProposal, CheckApproval, LoadRetry, CheckRetry, DoReject,
           ReadRevision, ReadThrows, DecideProposal, DecideApproval,
           DecideRetry, Return, SaveAndReturn, EnterContext, remote
<1>3. ASSUME NEW r1, EnterContext(c, r1), req[c].pc = "loaded",
             req[c].op # "resume",
             req[c].op \in {"approve", "stream"} => clock < r1.expiresAt
      PROVE  LicenseInv'
  <2> DEFINE q == [req[c] EXCEPT !.pc = "context", !.rec = r1,
                                 !.enabled = writesEnabled, !.now = clock]
  <2>1. Become(c, q)
    BY <1>3 DEF EnterContext
  <2>2. Sound(q, rev, writesEnabled)
    BY <1>1, <1>3 DEF Sound, Request
  <2> HIDE DEF q
  <2> QED
    BY <1>1, <1>2, <2>1, <2>2, SoundKept
<1>4. CASE CheckProposal(c) \/ CheckApproval(c) \/ CheckRetry(c) \/ DoReject(c)
  <2>1. r.expiresAt \in Nat
    BY <1>1 DEF Record
  <2>2. req[c].pc = "loaded" /\ req[c].op # "resume"
    BY <1>4 DEF CheckProposal, CheckApproval, CheckRetry, DoReject, At
  <2>3. \/ Return(c)
        \/ \E r1 : SaveAndReturn(c, r1)
        \/ \E r1 : /\ EnterContext(c, r1)
                   /\ req[c].op \in {"approve", "stream"} => clock < r1.expiresAt
    <3>1. CASE CheckProposal(c)
      BY <3>1 DEF CheckProposal
    <3>2. CASE CheckApproval(c)
      BY <1>1, <2>1, <3>2 DEF CheckApproval
    <3>3. CASE CheckRetry(c)
      BY <3>3 DEF CheckRetry
    <3>4. CASE DoReject(c)
      BY <3>4 DEF DoReject
    <3> QED
      BY <1>4, <3>1, <3>2, <3>3, <3>4
  <2> QED
    BY <1>3, <2>2, <2>3, LicenseReturn
<1>5. CASE LoadRetry(c)
  <2> DEFINE q == [req[c] EXCEPT !.pc = "loaded", !.rec = store[req[c].id]]
  <2>1. Become(c, q)
    BY <1>5 DEF LoadRetry
  <2>2. Sound(q, rev, writesEnabled)
    BY <1>1, <1>5 DEF Sound, Request, LoadRetry, At
  <2> HIDE DEF q
  <2> QED
    BY <1>1, <1>2, <2>1, <2>2, SoundKept
<1>6. CASE ReadRevision(c)
  <2>1. PICK seen \in {rev, Unseen} :
          Become(c, [req[c] EXCEPT !.pc = "observed", !.seen = seen])
    BY <1>6 DEF ReadRevision
  <2> DEFINE q == [req[c] EXCEPT !.pc = "observed", !.seen = seen]
  <2>2. Sound(q, rev, writesEnabled)
    BY <1>1, <1>6, <2>1 DEF Sound, Request, ReadRevision, At
  <2>3. Become(c, q)
    BY <2>1
  <2> HIDE DEF q
  <2> QED
    BY <1>1, <1>2, <2>2, <2>3, SoundKept
<1>7. CASE ReadThrows(c) \/ DecideProposal(c) \/ DecideRetry(c)
           \/ (DecideApproval(c) /\ Denied(c))
  <2>1. Return(c) \/ \E r1 : SaveAndReturn(c, r1)
    BY <1>7 DEF ReadThrows, DecideProposal, DecideRetry, DecideApproval
  <2> QED
    BY <2>1, LicenseReturn
<1>8. CASE DecideApproval(c) /\ ~Denied(c)
  <2> DEFINE q == [req[c] EXCEPT !.pc = "claimed", !.rec = Executing(r, req[c].now),
                                 !.enabled = FALSE]
  <2>1. /\ req[c].wasOn /\ r.predicates
        /\ req[c].now < r.expiresAt
        /\ \/ r.basedOn = Unseen
           \/ req[c].seen = Unseen
           \/ req[c].since <= r.basedOn
    BY <1>1, <1>8 DEF Sound, DecideApproval, At, Denied, Denies, Moved
  <2>2. /\ Executing(r, req[c].now).predicates = r.predicates
        /\ Executing(r, req[c].now).expiresAt = r.expiresAt
        /\ Executing(r, req[c].now).basedOn = r.basedOn
    BY <1>1 DEF Executing, Record
  <2>3. /\ q.pc = "claimed" /\ q.wasOn = req[c].wasOn /\ q.now = req[c].now
        /\ q.seen = req[c].seen /\ q.since = req[c].since
        /\ q.rec = Executing(r, req[c].now)
    BY <1>1 DEF Request
  <2>4. Become(c, q)
    BY <1>8 DEF DecideApproval
  <2> HIDE DEF q
  <2>5. Sound(q, rev, writesEnabled)
    BY <1>1, <2>1, <2>2, <2>3 DEF Sound, Licensed
  <2> QED
    BY <1>1, <1>2, <2>4, <2>5, SoundKept
<1> QED
    BY <1>4, <1>5, <1>6, <1>7, <1>8

LEMMA LicenseExecute ==
    ASSUME TypeOK, LicenseInv, NEW c \in Client,
           \/ Send(c) \/ Answered(c) \/ CallbackThrows(c)
           \/ RemoteApplies(c) \/ RemoteRefuses(c) \/ LoseAnswer(c)
    PROVE  LicenseInv'
<1>1. /\ req[c] \in Request /\ rev \in Nat /\ req[c].id \in Action
      /\ req[c].since \in Nat /\ Sound(req[c], rev, writesEnabled)
      /\ UNCHANGED writesEnabled
    BY DEF TypeOK, Request, LicenseInv, At, Send, Answered, CallbackThrows,
           RemoteApplies, RemoteRefuses, LoseAnswer, Return, SaveAndReturn, Land
<1>2. ASSUME NEW q, Become(c, q), rev' \in Nat, rev <= rev',
             req[c].pc \in {"claimed", "sent"}, q.pc = "sent",
             q.wasOn = req[c].wasOn, q.rec = req[c].rec, q.now = req[c].now,
             q.seen = req[c].seen, q.since = req[c].since
      PROVE  LicenseInv'
  <2>1. Sound(q, rev', writesEnabled)
    BY <1>1, <1>2 DEF Sound, Licensed
  <2> QED
    BY <1>1, <1>2, <2>1, SoundKept
<1>3. CASE Send(c) \/ RemoteRefuses(c) \/ LoseAnswer(c)
  <2>1. /\ \E w : Become(c, [req[c] EXCEPT !.pc = "sent", !.write = w])
        /\ req[c].pc \in {"claimed", "sent"} /\ UNCHANGED rev
    <3>1. CASE Send(c)
      BY <3>1 DEF Send, At, remote
    <3>2. CASE RemoteRefuses(c) \/ LoseAnswer(c)
      <4>1. [req[c] EXCEPT !.write = "failed"]
              = [req[c] EXCEPT !.pc = "sent", !.write = "failed"]
        BY <1>1, <3>2 DEF RemoteRefuses, LoseAnswer, At, Request
      <4> QED
        BY <3>2, <4>1 DEF RemoteRefuses, LoseAnswer, At, remote
    <3> QED
      BY <1>3, <3>1, <3>2
  <2>2. PICK w : Become(c, [req[c] EXCEPT !.pc = "sent", !.write = w])
    BY <2>1
  <2> DEFINE q == [req[c] EXCEPT !.pc = "sent", !.write = w]
  <2>3. /\ q.pc = "sent" /\ q.wasOn = req[c].wasOn /\ q.rec = req[c].rec
        /\ q.now = req[c].now /\ q.seen = req[c].seen /\ q.since = req[c].since
    BY <1>1 DEF Request
  <2>4. Become(c, q)
    BY <2>2
  <2> HIDE DEF q
  <2> QED
    BY <1>1, <1>2, <2>1, <2>3, <2>4
<1>4. CASE CallbackThrows(c) \/ (Answered(c) /\ req[c].write # "applied")
  <2>1. Return(c) \/ \E r : SaveAndReturn(c, r)
    BY <1>4 DEF CallbackThrows, Answered
  <2> QED
    BY <2>1, LicenseReturn
<1>5. CASE Answered(c) /\ req[c].write = "applied"
  <2>1. PICK r : Become(c, [Idle EXCEPT !.pc = "verifying", !.op = req[c].op,
                                        !.id = req[c].id, !.rec = r])
    BY <1>5 DEF Answered
  <2> DEFINE q == [Idle EXCEPT !.pc = "verifying", !.op = req[c].op,
                               !.id = req[c].id, !.rec = r]
  <2>2. q.since = 0 /\ q.pc = "verifying"
    BY DEF Idle
  <2>3. Become(c, q) /\ UNCHANGED rev
    BY <1>5, <2>1 DEF Answered, remote
  <2> HIDE DEF q
  <2> QED
    BY <1>1, <2>2, <2>3, SoundQuiet, SoundKept
<1>6. CASE RemoteApplies(c)
  <2>1. PICK w : Become(c, [req[c] EXCEPT !.write = w])
    BY <1>6 DEF RemoteApplies
  <2> DEFINE q == [req[c] EXCEPT !.write = w]
  <2>2. /\ q.pc = "sent" /\ q.wasOn = req[c].wasOn /\ q.rec = req[c].rec
        /\ q.now = req[c].now /\ q.seen = req[c].seen /\ q.since = req[c].since
    BY <1>1, <1>6 DEF Request, RemoteApplies, At
  <2>3. Become(c, q)
    BY <2>1
  <2>4. rev' \in Nat /\ rev <= rev' /\ req[c].pc = "sent"
    BY <1>1, <1>6 DEF RemoteApplies, Land, At
  <2> HIDE DEF q
  <2> QED
    BY <1>2, <2>2, <2>3, <2>4
<1> QED
    BY <1>3, <1>4, <1>5, <1>6

LEMMA LicenseVerify ==
    ASSUME TypeOK, LicenseInv, NEW c \in Client,
           ResumeNext(c) \/ VerifyAttempt(c) \/ WriteVerdict(c)
    PROVE  LicenseInv'
<1>1. /\ req[c] \in Request /\ rev \in Nat /\ req[c].since \in Nat
      /\ req[c].since <= rev
    BY DEF TypeOK, Request, LicenseInv, Sound
<1>2. UNCHANGED <<rev, writesEnabled>>
    BY DEF ResumeNext, VerifyAttempt, WriteVerdict, Return, remote
<1>3. CASE \E r : Return(c) \/ SaveAndReturn(c, r)
    BY <1>3, LicenseReturn
<1>4. CASE ResumeNext(c) /\ ~Return(c)
  <2>1. PICK b \in Action :
          Become(c, [req[c] EXCEPT !.pc = "verifying", !.id = b,
                                   !.rec = req[c].todo[b],
                                   !.todo = [@ EXCEPT ![b] = Absent]])
    BY <1>4 DEF ResumeNext
  <2> DEFINE q == [req[c] EXCEPT !.pc = "verifying", !.id = b,
                                 !.rec = req[c].todo[b],
                                 !.todo = [@ EXCEPT ![b] = Absent]]
  <2>2. q.pc = "verifying" /\ q.since = req[c].since /\ Become(c, q)
    BY <1>1, <2>1 DEF Request
  <2> HIDE DEF q
  <2> QED
    BY <1>1, <1>2, <2>2, SoundQuiet, SoundKept
<1>5. CASE VerifyAttempt(c)
  <2> DEFINE q(v) == [req[c] EXCEPT !.pc = "judged", !.verdict = v]
             again == [req[c] EXCEPT !.tries = Tried(@)]
  <2>1. /\ \A v : q(v).pc = "judged" /\ q(v).since = req[c].since
        /\ again.pc = "verifying" /\ again.since = req[c].since
    BY <1>1, <1>5 DEF Request, VerifyAttempt, At
  <2>2. (\E v : Become(c, q(v))) \/ Become(c, again)
    BY <1>5 DEF VerifyAttempt
  <2> HIDE DEF q, again
  <2> QED
    BY <1>1, <1>2, <2>1, <2>2, SoundQuiet, SoundKept
<1>6. CASE WriteVerdict(c)
  <2> DEFINE q == IF req[c].op = "resume"
                  THEN [req[c] EXCEPT !.pc = "loaded", !.rec = Absent,
                                      !.tries = 0, !.verdict = None]
                  ELSE Idle
  <2>1. /\ q.since <= rev
        /\ q.pc = "idle" \/ (q.pc = "loaded" /\ q.op = "resume")
    BY <1>1 DEF Request, Idle
  <2>2. Become(c, q)
    BY <1>6 DEF WriteVerdict, Finish
  <2> HIDE DEF q
  <2> QED
    BY <1>1, <1>2, <2>1, <2>2, SoundQuiet, SoundKept
<1> QED
    BY <1>3, <1>4, <1>5, <1>6

LEMMA LicenseWorld ==
    ASSUME TypeOK, LicenseInv,
           Late \/ SetWritesEnabled \/ Tick \/ ExternalEdit \/ Crash
    PROVE  LicenseInv'
<1>1. CASE Late \/ Tick \/ ExternalEdit
  <2>1. /\ rev \in Nat /\ rev' \in Nat /\ rev <= rev'
        /\ UNCHANGED <<req, writesEnabled>>
    BY <1>1 DEF Late, LateLands, LateDropped, Land, Tick, ExternalEdit, remote, TypeOK
  <2>2. \A c \in Client : req[c].since \in Nat
    BY DEF TypeOK, Request
  <2> QED
    BY <2>1, <2>2 DEF LicenseInv, Sound, Licensed
<1>2. CASE SetWritesEnabled
  <2> SUFFICES ASSUME NEW c \in Client
               PROVE  Sound(req[c], rev, writesEnabled)'
    BY DEF LicenseInv
  <2>1. UNCHANGED rev /\ writesEnabled' = ~writesEnabled
    BY <1>2 DEF SetWritesEnabled, remote
  <2>2. Sound(req[c], rev, writesEnabled) /\ req[c] \in Request
    BY DEF LicenseInv, TypeOK
  <2>3. CASE req[c].pc = "idle"
    BY <1>2, <2>1, <2>2, <2>3 DEF SetWritesEnabled, Sound
  <2>4. CASE req[c].pc # "idle"
    <3> DEFINE q == [req[c] EXCEPT !.wasOn = @ \/ ~writesEnabled]
    <3>1. /\ q.pc = req[c].pc /\ q.op = req[c].op /\ q.rec = req[c].rec
          /\ q.now = req[c].now /\ q.seen = req[c].seen /\ q.since = req[c].since
          /\ q.enabled = req[c].enabled
          /\ q.wasOn = (req[c].wasOn \/ ~writesEnabled)
      BY <2>2 DEF Request
    <3>2. req'[c] = q
      BY <1>2, <2>4 DEF SetWritesEnabled
    <3> HIDE DEF q
    <3> QED
      BY <2>1, <2>2, <3>1, <3>2 DEF Sound, Licensed
  <2> QED
    BY <2>3, <2>4
<1>3. CASE Crash
  <2>1. rev \in Nat /\ UNCHANGED rev /\ \A c \in Client : req'[c] = Idle
    BY <1>3 DEF Crash, TypeOK
  <2> QED
    BY <2>1 DEF LicenseInv, Sound, Idle
<1> QED
    BY <1>1, <1>2, <1>3

LEMMA LicenseStep == TypeOK /\ LicenseInv /\ [Next]_vars => LicenseInv'
<1> SUFFICES ASSUME TypeOK, LicenseInv, [Next]_vars PROVE LicenseInv'
    OBVIOUS
<1>1. CASE UNCHANGED vars
    BY <1>1 DEF vars, LicenseInv, Sound, Licensed
<1>2. CASE \E c \in Client : Call(c) \/ Handle(c) \/ Remote(c)
    BY <1>2, LicenseCall, LicenseDecide, LicenseExecute, LicenseVerify
    DEF Handle, Remote
<1>3. CASE Late \/ SetWritesEnabled \/ Tick \/ ExternalEdit \/ Crash
    BY <1>3, LicenseWorld
<1> QED
    BY <1>1, <1>2, <1>3 DEF Next

(* Every execution was licensed while its request ran: kill switch, expiry, *)
(* predicates and base revision, for any interleaving of callers.          *)
THEOREM ExecutionLicensed == Spec => []ExecutionIsLicensed
<1>1. Init => LicenseInv
    BY DEF Init, LicenseInv, Sound, Idle
<1>2. LicenseInv => ExecutionIsLicensed
    BY DEF LicenseInv, Sound, ExecutionIsLicensed
<1> QED
    BY <1>1, <1>2, TypeInit, TypeStep, LicenseStep, PTL DEF Spec
-----------------------------------------------------------------------------
(* One request at a time                                                   *)

(* updateStatus compares nothing with the row it overwrites, so the rest   *)
(* is promised while no two requests of the runtime overlap.               *)
Alone == \A c, d \in Client : req[c].pc # "idle" /\ req[d].pc # "idle" => c = d

(* A request that still holds the row as table t has it: a retry one that  *)
(* is not settled, an approval one nobody has decided, an execution and a  *)
(* verification the one they wrote or listed.                              *)
Current(q, t) ==
    /\ q.pc = "called" => q.op = "retry" /\ Retryable(t[q.id])
    /\ q.pc = "loaded" /\ q.op \in {"approve", "stream", "reject", "retry"} =>
         q.rec = t[q.id] /\ (q.op = "retry" => Retryable(q.rec))
    /\ q.pc \in {"context", "observed"} =>
         \/ q.op = "propose"
         \/ q.op \in {"approve", "stream"} /\ q.rec = t[q.id] /\ Approvable(q.rec) /\ q.now # 0
         \/ /\ q.op = "retry" /\ Retryable(t[q.id]) /\ Approvable(q.rec)
            /\ q.rec.approvedAt = t[q.id].approvedAt
    /\ q.pc \in {"claimed", "sent"} =>
         q.rec = t[q.id] /\ q.rec.status = "executing" /\ q.rec.approvedAt # Unset
    /\ q.pc \in {"verifying", "judged"} =>
         /\ q.rec = t[q.id] /\ q.rec.status \in InFlight
         /\ q.todo[q.id].status = "absent"
    /\ q.pc # "idle" => \A b \in Action : q.todo[b].status # "absent" =>
         q.todo[b] = t[b] /\ t[b].status \in InFlight
    /\ q.write = "flying" => q.pc = "sent"

(* An action may be executed again: nobody has decided it, or a retry is   *)
(* under way.                                                              *)
Undecided(r) == r.status = "absent" \/ Approvable(r)
Retrying(q, a) == q.pc # "idle" /\ q.op = "retry" /\ q.id = a
Renewable(a) == Undecided(store[a]) \/ \E c \in Client : Retrying(req[c], a)
One(b) == IF b THEN 1 ELSE 0

Booked(r) == r.status # "absent" /\ r.approvedAt # Unset

SerialInv ==
    /\ clock # 0
    /\ \A a \in Action : /\ landed[a] > 0 \/ late[a] > 0 => Booked(store[a])
                         /\ claims[a] + One(Renewable(a)) <= 1 + retries
    /\ \A c \in Client : Current(req[c], store)

LEMMA RetriedNow ==
    ASSUME TypeOK, SerialInv, NEW c \in Client, NEW a \in Action
    PROVE  claims[a] + One(Undecided(store[a]) \/ Retrying(req[c], a)) <= 1 + retries
<1>1. claims[a] \in Nat /\ retries \in Nat
    BY DEF TypeOK
<1>2. claims[a] + One(Renewable(a)) <= 1 + retries
    BY DEF SerialInv
<1>3. Undecided(store[a]) \/ Retrying(req[c], a) => Renewable(a)
    BY DEF Renewable
<1> QED BY <1>1, <1>2, <1>3 DEF One

(* A step of the one caller that touches the row of one action.            *)
SerialMove(c, q, a, r) ==
    /\ Become(c, q) /\ clock' = clock /\ retries' >= retries
    /\ \A d \in Client \ {c} : req[d].pc = "idle"
    /\ Current(q, store')
    /\ store' = [store EXCEPT ![a] = r]
    /\ \A b \in Action \ {a} : /\ claims'[b] = claims[b]
                               /\ landed'[b] = landed[b] /\ late'[b] = late[b]
                               /\ Retrying(q, b) => Retrying(req[c], b)
    /\ landed'[a] > 0 \/ late'[a] > 0 => Booked(r)
    /\ claims'[a] + One(Undecided(r) \/ Retrying(q, a)) <= 1 + retries'

LEMMA SerialKept ==
    ASSUME TypeOK, TypeOK', SerialInv, NEW c \in Client, NEW q, NEW a \in Action, NEW r,
           SerialMove(c, q, a, r)
    PROVE  SerialInv'
<1>0. /\ Become(c, q) /\ clock' = clock /\ retries' >= retries
      /\ \A d \in Client \ {c} : req[d].pc = "idle"
      /\ Current(q, store')
      /\ store' = [store EXCEPT ![a] = r]
      /\ \A b \in Action \ {a} : /\ claims'[b] = claims[b]
                                 /\ landed'[b] = landed[b] /\ late'[b] = late[b]
                                 /\ Retrying(q, b) => Retrying(req[c], b)
      /\ landed'[a] > 0 \/ late'[a] > 0 => Booked(r)
      /\ claims'[a] + One(Undecided(r) \/ Retrying(q, a)) <= 1 + retries'
      BY DEF SerialMove
<1>1. req'[c] = q /\ \A d \in Client \ {c} : req'[d].pc = "idle"
    BY <1>0 DEF Become, TypeOK
<1>2. store'[a] = r /\ \A b \in Action \ {a} : store'[b] = store[b]
    BY <1>0 DEF TypeOK
<1>3. ASSUME NEW d \in Client PROVE Current(req'[d], store')
  <2>1. CASE d = c
    BY <1>0, <1>1, <2>1
  <2>2. CASE d # c
    <3>1. req'[d] = req[d] /\ req[d].pc = "idle" /\ Current(req[d], store)
      BY <1>0, <2>2 DEF Become, TypeOK, SerialInv
    <3> QED BY <3>1 DEF Current
  <2> QED BY <2>1, <2>2
<1>4. \A b \in Action : landed'[b] > 0 \/ late'[b] > 0 => Booked(store'[b])
    BY <1>0, <1>2 DEF SerialInv
<1>5. ASSUME NEW b \in Action PROVE claims'[b] + One(Renewable(b)') <= 1 + retries'
  <2>1. Renewable(b)' <=> Undecided(store'[b]) \/ Retrying(q, b)
    BY <1>1 DEF Renewable, Undecided, Approvable, Retrying
  <2>2. CASE b = a
    BY <1>0, <1>2, <2>1, <2>2 DEF One
  <2>3. CASE b # a
    <3>1. claims[b] + One(Undecided(store[b]) \/ Retrying(req[c], b)) <= 1 + retries
      BY RetriedNow
    <3>2. Renewable(b)' => Undecided(store[b]) \/ Retrying(req[c], b)
      BY <1>0, <1>2, <2>1, <2>3
    <3>3. claims[b] \in Nat /\ retries \in Nat /\ retries' \in Nat /\ claims'[b] = claims[b]
      BY <1>0, <2>3 DEF TypeOK
    <3> QED BY <1>0, <3>1, <3>2, <3>3 DEF One
  <2> QED BY <2>2, <2>3
<1>6. clock' # 0
    BY <1>0 DEF SerialInv
<1> QED BY <1>3, <1>4, <1>5, <1>6 DEF SerialInv

(* A step of the one caller that only moves its request on.                *)
LEMMA SerialQuiet ==
    ASSUME TypeOK, TypeOK', SerialInv, NEW c \in Client, NEW q, Become(c, q),
           \A d \in Client \ {c} : req[d].pc = "idle",
           UNCHANGED <<store, clock, claims, retries, landed, late>>,
           Current(q, store),
           \A b \in Action : Retrying(q, b) => Retrying(req[c], b)
    PROVE  SerialInv'
<1>1. CASE Action = {}
  <2>1. \A d \in Client : req'[d] = q \/ req'[d] = req[d]
    BY DEF Become, TypeOK
  <2>2. \A d \in Client : Current(req'[d], store')
    BY <2>1 DEF SerialInv
  <2>3. clock' # 0
    BY DEF SerialInv
  <2> QED BY <1>1, <2>2, <2>3 DEF SerialInv
<1>2. ASSUME NEW a \in Action PROVE SerialInv'
  <2>1. /\ store' = [store EXCEPT ![a] = store[a]] /\ retries' >= retries
        /\ claims' = claims /\ landed' = landed /\ late' = late /\ clock' = clock
    BY DEF TypeOK
  <2>2. claims[a] + One(Undecided(store[a]) \/ Retrying(req[c], a)) <= 1 + retries
    BY RetriedNow
  <2>3. claims'[a] + One(Undecided(store[a]) \/ Retrying(q, a)) <= 1 + retries'
    <3>1. claims[a] \in Nat /\ retries \in Nat /\ claims'[a] = claims[a] /\ retries' = retries
      BY DEF TypeOK
    <3>2. Retrying(q, a) => Retrying(req[c], a)
      OBVIOUS
    <3>3. One(Undecided(store[a]) \/ Retrying(q, a))
            <= One(Undecided(store[a]) \/ Retrying(req[c], a))
      BY <3>2 DEF One
    <3>4. \A b : One(b) \in Nat
      BY DEF One
    <3> QED BY <2>2, <3>1, <3>3, <3>4
  <2>4. landed'[a] > 0 \/ late'[a] > 0 => Booked(store[a])
    BY <2>1 DEF SerialInv
  <2>5. Current(q, store')
    OBVIOUS
  <2>6. \A b \in Action \ {a} : /\ claims'[b] = claims[b]
                               /\ landed'[b] = landed[b] /\ late'[b] = late[b]
                               /\ Retrying(q, b) => Retrying(req[c], b)
    BY <2>1
  <2>7. ASSUME NEW r, r = store[a] PROVE SerialInv'
    <3>1. /\ store' = [store EXCEPT ![a] = r] /\ clock' = clock /\ retries' >= retries
          /\ landed'[a] > 0 \/ late'[a] > 0 => Booked(r)
          /\ claims'[a] + One(Undecided(r) \/ Retrying(q, a)) <= 1 + retries'
      BY <2>1, <2>3, <2>4, <2>7
    <3>2. SerialMove(c, q, a, r)
      BY <2>5, <2>6, <2>7, <3>1 DEF SerialMove
    <3> QED BY <3>2, SerialKept
  <2> QED BY <2>7
<1> QED BY <1>1, <1>2

(* A step of the one caller that writes its row and returns.               *)
LEMMA SerialSave ==
    ASSUME TypeOK, TypeOK', SerialInv, NEW c \in Client, req[c].id \in Action,
           \A d \in Client \ {c} : req[d].pc = "idle",
           NEW r, SaveAndReturn(c, r), r.status # "absent",
           \/ store[req[c].id].status = "absent"
           \/ r.approvedAt = store[req[c].id].approvedAt,
           Approvable(r) => Undecided(store[req[c].id]) \/ req[c].op = "retry",
           req[c].pc # "idle"
    PROVE  SerialInv'
<1> DEFINE a == req[c].id
<1>1. /\ Become(c, Idle) /\ store' = [store EXCEPT ![a] = r]
      /\ claims' = claims /\ landed' = landed /\ late' = late
      /\ clock' = clock /\ retries' = retries
    BY DEF SaveAndReturn, Finish, Save, remote
<1>2. Current(Idle, store') /\ \A b : ~Retrying(Idle, b)
    BY DEF Idle, Current, Retrying, None
<1>3. landed'[a] > 0 \/ late'[a] > 0 => Booked(r)
    BY <1>1 DEF SerialInv, Booked
<1>4. claims[a] + One(Undecided(store[a]) \/ Retrying(req[c], a)) <= 1 + retries
    BY RetriedNow
<1>5. Undecided(r) \/ Retrying(Idle, a) => Undecided(store[a]) \/ Retrying(req[c], a)
    BY <1>2 DEF Undecided, Retrying
<1>6. claims[a] \in Nat /\ retries \in Nat
    BY DEF TypeOK
<1>7. claims'[a] + One(Undecided(r) \/ Retrying(Idle, a)) <= 1 + retries'
    BY <1>1, <1>4, <1>5, <1>6 DEF One
<1>8. retries' >= retries
    BY <1>1, <1>6
<1>9. /\ \A b \in Action \ {a} : /\ claims'[b] = claims[b]
                                 /\ landed'[b] = landed[b] /\ late'[b] = late[b]
                                 /\ Retrying(Idle, b) => Retrying(req[c], b)
    BY <1>1, <1>2
<1>10. SerialMove(c, Idle, a, r)
    BY <1>1, <1>2, <1>3, <1>7, <1>8, <1>9 DEF SerialMove
<1> QED BY <1>10, SerialKept

(* Nobody but c has a request under way.                                   *)
Solo(c) == \A d \in Client \ {c} : req[d].pc = "idle"

(* A step of c that only moves its request on to q.                        *)
Moves(c, q) ==
    /\ Become(c, q) /\ Solo(c)
    /\ UNCHANGED <<store, clock, claims, retries, landed, late>>
    /\ Current(q, store)
    /\ \A b \in Action : Retrying(q, b) => Retrying(req[c], b)

LEMMA MovesKeeps ==
    ASSUME TypeOK, TypeOK', SerialInv, NEW c \in Client, NEW q, Moves(c, q)
    PROVE  SerialInv'
BY SerialQuiet DEF Moves, Solo

(* A step of c that writes row r and returns.                              *)
Leaves(c, r) ==
    /\ SaveAndReturn(c, r) /\ Solo(c) /\ req[c].pc # "idle" /\ r.status # "absent"
    /\ \/ store[req[c].id].status = "absent"
       \/ r.approvedAt = store[req[c].id].approvedAt
    /\ Approvable(r) => Undecided(store[req[c].id]) \/ req[c].op = "retry"

LEMMA LeavesKeeps ==
    ASSUME TypeOK, TypeOK', SerialInv, NEW c \in Client, NEW r, Leaves(c, r)
    PROVE  SerialInv'
BY SerialSave DEF Leaves, Solo, TypeOK

LEMMA SerialReturn ==
    ASSUME TypeOK, TypeOK', SerialInv, NEW c \in Client, Solo(c), Return(c)
    PROVE  SerialInv'
<1>1. Current(Idle, store) /\ \A b : ~Retrying(Idle, b)
    BY DEF Idle, Current, Retrying, None
<1>2. Moves(c, Idle)
    BY <1>1 DEF Moves, Return, Finish, remote
<1> QED BY <1>2, MovesKeeps

LEMMA SerialCall ==
    ASSUME TypeOK, TypeOK', SerialInv, NEW c \in Client, Solo(c), Call(c)
    PROVE  SerialInv'
<1>1. PICK a \in Action : \/ CallPropose(c, a) \/ CallApprove(c, a)
                          \/ CallRetry(c, a)   \/ CallReject(c, a)
                          \/ CallResume(c, a)
    BY DEF Call
<1>2. UNCHANGED <<store, clock, claims, landed, late>>
    BY <1>1 DEF CallPropose, CallApprove, CallRetry, CallReject, CallResume, remote
<1> DEFINE q(step, op, r) == [Idle EXCEPT !.pc = step, !.op = op, !.id = a, !.rec = r,
                                          !.since = rev, !.wasOn = writesEnabled]
<1>3. \A step, op, r : /\ q(step, op, r).pc = step /\ q(step, op, r).op = op
                       /\ q(step, op, r).id = a /\ q(step, op, r).rec = r
                       /\ q(step, op, r).write # "flying"
                       /\ \A b \in Action : q(step, op, r).todo[b].status = "absent"
    BY DEF Idle, Absent, None
<1>4. \A step, op, r : Begin(c, step, op, a, r) => Become(c, q(step, op, r))
    BY DEF Begin
<1> HIDE DEF q
<1>5. CASE CallPropose(c, a)
  <2>1. PICK r : Begin(c, "loaded", "propose", a, r)
    BY <1>5 DEF CallPropose
  <2>2. Current(q("loaded", "propose", r), store)
    BY <1>3 DEF Current
  <2>3. retries' = retries
    BY <1>5 DEF CallPropose
  <2>4. Moves(c, q("loaded", "propose", r))
    BY <1>2, <1>3, <1>4, <2>1, <2>2, <2>3 DEF Moves, Retrying
  <2> QED BY <2>4, MovesKeeps
<1>6. CASE CallApprove(c, a) \/ CallReject(c, a)
  <2>1. PICK op \in {"approve", "stream", "reject"} : Begin(c, "loaded", op, a, store[a])
    BY <1>6 DEF CallApprove, CallReject
  <2>2. Current(q("loaded", op, store[a]), store)
    BY <1>3 DEF Current
  <2>3. Moves(c, q("loaded", op, store[a]))
    BY <1>2, <1>3, <1>4, <1>6, <2>1, <2>2 DEF Moves, Retrying, CallApprove, CallReject
  <2> QED BY <2>3, MovesKeeps
<1>7. CASE CallRetry(c, a)
  <2> DEFINE p == q("called", "retry", Absent)
  <2>1. Become(c, p) /\ retries' = retries + 1 /\ Retryable(store[a])
    BY <1>4, <1>7 DEF CallRetry, Retryable
  <2>2. Current(p, store')
    BY <1>2, <1>3, <2>1 DEF Current
  <2>3. \A b \in Action \ {a} : ~Retrying(p, b)
    BY <1>3 DEF Retrying
  <2>4. ~Undecided(store[a])
    BY <2>1 DEF Undecided, Approvable, Retryable
  <2>5. claims[a] + One(Undecided(store[a]) \/ Retrying(req[c], a)) <= 1 + retries
    BY RetriedNow
  <2>6. claims'[a] + One(Undecided(store[a]) \/ Retrying(p, a)) <= 1 + retries'
    <3>1. claims[a] \in Nat /\ retries \in Nat /\ claims'[a] = claims[a]
      BY <1>2 DEF TypeOK
    <3>2. \A b : One(b) \in {0, 1}
      BY DEF One
    <3>3. ~Retrying(req[c], a)
      BY <1>7 DEF Retrying, CallRetry, At
    <3>4. One(Undecided(store[a]) \/ Retrying(req[c], a)) = 0
      BY <2>4, <3>3 DEF One
    <3> QED BY <2>1, <2>5, <3>1, <3>2, <3>4
  <2>7. store' = [store EXCEPT ![a] = store[a]] /\ retries' >= retries
    BY <1>2, <2>1 DEF TypeOK
  <2>8. landed'[a] > 0 \/ late'[a] > 0 => Booked(store[a])
    BY <1>2 DEF SerialInv
  <2>9. SerialMove(c, p, a, store[a])
    BY <1>2, <2>1, <2>2, <2>3, <2>6, <2>7, <2>8 DEF SerialMove, Solo
  <2> QED BY <2>9, SerialKept
<1>8. CASE CallResume(c, a)
  <2> DEFINE list == [b \in Action |-> IF store[b].status \in InFlight
                                       THEN store[b] ELSE Absent]
             p == [Idle EXCEPT !.pc = "loaded", !.op = "resume", !.id = a,
                               !.todo = list]
  <2>1. \A b \in Action : list[b].status # "absent" =>
            list[b] = store[b] /\ store[b].status \in InFlight
    BY DEF Absent
  <2>2. /\ p.pc = "loaded" /\ p.op = "resume" /\ p.todo = list /\ p.write # "flying"
        /\ Become(c, p)
    BY <1>8 DEF Idle, CallResume, None
  <2> HIDE DEF list, p
  <2>3. Current(p, store)
    BY <2>1, <2>2 DEF Current
  <2>4. Moves(c, p)
    BY <1>2, <1>8, <2>2, <2>3 DEF Moves, Retrying, CallResume
  <2> QED BY <2>4, MovesKeeps
<1> QED BY <1>1, <1>5, <1>6, <1>7, <1>8

LEMMA SerialDecide ==
    ASSUME TypeOK, TypeOK', SerialInv, NEW c \in Client, Solo(c),
           \/ CheckProposal(c) \/ CheckApproval(c) \/ LoadRetry(c)
           \/ CheckRetry(c) \/ DoReject(c) \/ ReadRevision(c) \/ ReadThrows(c)
           \/ DecideProposal(c) \/ DecideApproval(c) \/ DecideRetry(c)
    PROVE  SerialInv'
<1> DEFINE r == req[c].rec
           a == req[c].id
<1>1. /\ req[c] \in Request /\ r \in Record /\ req[c].now \in Nat /\ a \in Action
      /\ req[c].pc \in {"called", "loaded", "context", "observed"}
      /\ store[a] \in Record /\ clock # 0
    BY DEF TypeOK, Request, At, CheckProposal, CheckApproval, LoadRetry, CheckRetry,
           DoReject, ReadRevision, ReadThrows, DecideProposal, DecideApproval,
           DecideRetry, SerialInv
<1>2. /\ Current(req[c], store) /\ req[c].write # "flying"
      /\ \A b \in Action : req[c].todo[b].status # "absent" =>
           req[c].todo[b] = store[b] /\ store[b].status \in InFlight
    <2>1. Current(req[c], store)
      BY <1>1 DEF SerialInv
    <2> QED BY <1>1, <2>1 DEF Current
<1>3. ASSUME NEW r1, EnterContext(c, r1),
             \/ req[c].op = "propose"
             \/ req[c].op \in {"approve", "stream"} /\ r1 = store[a] /\ Approvable(r1)
             \/ /\ req[c].op = "retry" /\ Retryable(store[a]) /\ Approvable(r1)
                /\ r1.approvedAt = store[a].approvedAt
      PROVE  SerialInv'
  <2> DEFINE q == [req[c] EXCEPT !.pc = "context", !.rec = r1,
                                 !.enabled = writesEnabled, !.now = clock]
  <2>1. /\ q.pc = "context" /\ q.rec = r1 /\ q.now = clock /\ q.op = req[c].op /\ q.id = a
        /\ q.todo = req[c].todo /\ q.write = req[c].write
    BY <1>1 DEF Request
  <2>2. Become(c, q) /\ UNCHANGED <<store, clock, claims, retries, landed, late>>
    BY <1>3 DEF EnterContext, remote
  <2> HIDE DEF q
  <2>3. Current(q, store)
    BY <1>1, <1>2, <1>3, <2>1 DEF Current
  <2>4. Moves(c, q)
    BY <1>1, <2>1, <2>2, <2>3 DEF Moves, Retrying
  <2> QED BY <2>4, MovesKeeps
<1>4. CASE CheckProposal(c)
    BY <1>3, <1>4, SerialReturn DEF CheckProposal
<1>5. CASE CheckApproval(c)
  <2>1. r = store[a]
    BY <1>2, <1>5 DEF Current, CheckApproval, At
  <2>2. CASE Approvable(r) /\ SaveAndReturn(c, Failed(r, "expired"))
    <3>1. /\ Failed(r, "expired").status = "failed"
          /\ Failed(r, "expired").approvedAt = r.approvedAt
      BY <1>1 DEF Failed, Record
    <3>2. Leaves(c, Failed(r, "expired"))
      BY <1>1, <2>1, <2>2, <3>1 DEF Leaves, Approvable, Terminal
    <3> QED BY <3>2, LeavesKeeps
  <2>3. CASE Approvable(r) /\ EnterContext(c, r)
    BY <1>3, <1>5, <2>1, <2>3 DEF CheckApproval
  <2> QED BY <1>5, <2>2, <2>3, SerialReturn DEF CheckApproval
<1>6. CASE LoadRetry(c)
  <2> DEFINE q == [req[c] EXCEPT !.pc = "loaded", !.rec = store[a]]
  <2>1. /\ q.pc = "loaded" /\ q.rec = store[a] /\ q.op = req[c].op /\ q.id = a
        /\ q.todo = req[c].todo /\ q.write = req[c].write
    BY <1>1 DEF Request
  <2>2. Become(c, q) /\ UNCHANGED <<store, clock, claims, retries, landed, late>>
    BY <1>6 DEF LoadRetry, remote
  <2> HIDE DEF q
  <2>3. req[c].op = "retry" /\ Retryable(store[a])
    BY <1>2, <1>6 DEF Current, LoadRetry, At
  <2>4. Current(q, store)
    BY <1>2, <2>1, <2>3 DEF Current
  <2>5. Moves(c, q)
    BY <1>1, <2>1, <2>2, <2>4 DEF Moves, Retrying
  <2> QED BY <2>5, MovesKeeps
<1>7. CASE CheckRetry(c)
  <2>1. r = store[a] /\ Retryable(r) /\ req[c].op = "retry"
    BY <1>2, <1>7 DEF Current, CheckRetry, At
  <2>2. CASE Return(c)
    BY <2>2, SerialReturn
  <2>3. CASE ~Return(c)
    <3>1. PICK e \in Expiries :
            EnterContext(c, [r EXCEPT !.status = "awaiting_approval", !.failure = None,
                                      !.expiresAt = e, !.predicates = TRUE])
      BY <1>7, <2>3 DEF CheckRetry
    <3> DEFINE r1 == [r EXCEPT !.status = "awaiting_approval", !.failure = None,
                               !.expiresAt = e, !.predicates = TRUE]
    <3>2. r1.status = "awaiting_approval" /\ r1.approvedAt = r.approvedAt
      BY <1>1 DEF Record
    <3>3. EnterContext(c, r1)
      BY <3>1
    <3> HIDE DEF r1
    <3>4. Approvable(r1) /\ Retryable(store[a]) /\ r1.approvedAt = store[a].approvedAt
      BY <2>1, <3>2 DEF Approvable
    <3> QED BY <1>3, <2>1, <3>3, <3>4
  <2> QED BY <2>2, <2>3
<1>8. CASE DoReject(c)
  <2> DEFINE r1 == [r EXCEPT !.status = "rejected"]
  <2>1. r = store[a]
    BY <1>2, <1>8 DEF Current, DoReject, At
  <2>2. r1.status = "rejected" /\ r1.approvedAt = r.approvedAt
    BY <1>1 DEF Record
  <2>3. CASE Rejectable(r) /\ SaveAndReturn(c, r1)
    <3> HIDE DEF r1
    <3>1. Leaves(c, r1)
      BY <1>1, <2>1, <2>2, <2>3 DEF Leaves, Approvable, Rejectable
    <3> QED BY <3>1, LeavesKeeps
  <2> QED BY <1>8, <2>3, SerialReturn DEF DoReject
<1>9. CASE ReadRevision(c)
  <2>1. PICK seen : Become(c, [req[c] EXCEPT !.pc = "observed", !.seen = seen])
    BY <1>9 DEF ReadRevision
  <2> DEFINE q == [req[c] EXCEPT !.pc = "observed", !.seen = seen]
  <2>2. /\ q.pc = "observed" /\ q.rec = r /\ q.op = req[c].op /\ q.id = a
        /\ q.now = req[c].now /\ q.todo = req[c].todo /\ q.write = req[c].write
    BY <1>1 DEF Request
  <2>3. Become(c, q) /\ UNCHANGED <<store, clock, claims, retries, landed, late>>
    BY <1>9, <2>1 DEF ReadRevision, remote
  <2> HIDE DEF q
  <2>4. req[c].pc = "context"
    BY <1>9 DEF ReadRevision, At
  <2>5. Current(q, store)
    BY <1>2, <2>2, <2>4 DEF Current
  <2>6. Moves(c, q)
    BY <1>1, <2>2, <2>3, <2>5 DEF Moves, Retrying
  <2> QED BY <2>6, MovesKeeps
<1>10. CASE ReadThrows(c)
    BY <1>10, SerialReturn DEF ReadThrows
<1>11. CASE DecideProposal(c)
  <2> DEFINE r1 == Failed(r, "policy")
             r2 == [r EXCEPT !.status = "awaiting_approval"]
  <2>1. r1.status = "failed" /\ r2.status = "awaiting_approval"
    BY <1>1 DEF Failed, Record
  <2>2. ASSUME NEW row \in {r1, r2}, store[a].status = "absent", SaveAndReturn(c, row)
        PROVE  SerialInv'
    <3> HIDE DEF r1, r2
    <3>1. Leaves(c, row)
      BY <1>1, <2>1, <2>2 DEF Leaves, Approvable, Terminal, Undecided
    <3> QED BY <3>1, LeavesKeeps
  <2> QED BY <1>11, <2>2, SerialReturn DEF DecideProposal
<1>12. CASE DecideRetry(c)
  <2> DEFINE r1 == Failed(r, "policy")
  <2>1. /\ r1.status = "failed" /\ r1.approvedAt = r.approvedAt
    BY <1>1 DEF Failed, Record
  <2>2. /\ req[c].op = "retry" /\ Retryable(store[a]) /\ Approvable(r)
        /\ r.approvedAt = store[a].approvedAt
    BY <1>2, <1>12 DEF Current, DecideRetry, At
  <2>3. ASSUME NEW row \in {r1, r}, SaveAndReturn(c, row) PROVE SerialInv'
    <3> HIDE DEF r1
    <3>1. Leaves(c, row)
      BY <1>1, <2>1, <2>2, <2>3 DEF Leaves, Approvable
    <3> QED BY <3>1, LeavesKeeps
  <2> QED BY <1>12, <2>3 DEF DecideRetry
<1>13. CASE DecideApproval(c)
  <2>1. /\ r = store[a] /\ Approvable(r) /\ req[c].now # 0
        /\ req[c].op \in {"approve", "stream"}
    BY <1>2, <1>13 DEF Current, DecideApproval, At
  <2>2. CASE Denied(c)
    <3> DEFINE r1 == [r EXCEPT !.status = "stale", !.failure = "policy"]
    <3>1. r1.status = "stale" /\ r1.approvedAt = r.approvedAt /\ SaveAndReturn(c, r1)
      BY <1>1, <1>13, <2>2 DEF DecideApproval, Record
    <3> HIDE DEF r1
    <3>2. Leaves(c, r1)
      BY <1>1, <2>1, <3>1 DEF Leaves, Approvable, Terminal
    <3> QED BY <3>2, LeavesKeeps
  <2>3. CASE ~Denied(c)
    <3> DEFINE r1 == Executing(r, req[c].now)
               q == [req[c] EXCEPT !.pc = "claimed", !.rec = r1, !.enabled = FALSE]
    <3>1. /\ Save(a, r1) /\ Become(c, q)
          /\ claims' = [claims EXCEPT ![a] = @ + 1]
          /\ UNCHANGED <<clock, retries, landed, late>>
      BY <1>13, <2>3 DEF DecideApproval, remote
    <3>2. r1.status = "executing" /\ r1.approvedAt = req[c].now
      BY <1>1 DEF Executing, Record
    <3>3. /\ q.pc = "claimed" /\ q.rec = r1 /\ q.op = req[c].op /\ q.id = a
          /\ q.todo = req[c].todo /\ q.write = req[c].write
      BY <1>1 DEF Request
    <3> HIDE DEF r1, q
    <3>4. store' = [store EXCEPT ![a] = r1] /\ store'[a] = r1
          /\ \A b \in Action \ {a} : store'[b] = store[b]
      BY <1>1, <3>1 DEF Save, TypeOK
    <3>5. req[c].todo[a].status = "absent"
      BY <1>1, <1>2, <2>1 DEF Approvable, InFlight
    <3>6. Current(q, store')
      BY <1>1, <1>2, <2>1, <3>2, <3>3, <3>4, <3>5 DEF Current, Unset
    <3>7. ~Undecided(r1) /\ \A b : ~Retrying(q, b)
      BY <2>1, <3>2, <3>3 DEF Undecided, Approvable, Retrying
    <3>8. claims[a] + One(Undecided(store[a]) \/ Retrying(req[c], a)) <= 1 + retries
      BY <1>1, RetriedNow
    <3>9. claims'[a] + One(Undecided(r1) \/ Retrying(q, a)) <= 1 + retries'
      <4>1. Undecided(store[a])
        BY <2>1 DEF Undecided
      <4>2. claims[a] \in Nat /\ retries \in Nat /\ claims'[a] = claims[a] + 1
        BY <1>1, <3>1 DEF TypeOK
      <4>3. /\ One(Undecided(store[a]) \/ Retrying(req[c], a)) = 1
            /\ One(Undecided(r1) \/ Retrying(q, a)) = 0
        BY <3>7, <4>1 DEF One
      <4> QED BY <3>1, <3>8, <4>2, <4>3
    <3>10. Booked(r1)
      BY <2>1, <3>2 DEF Booked, Unset
    <3>11. /\ \A b \in Action \ {a} : claims'[b] = claims[b]
           /\ retries' >= retries /\ landed' = landed /\ late' = late
      BY <1>1, <3>1 DEF TypeOK
    <3>12. SerialMove(c, q, a, r1)
      BY <3>1, <3>4, <3>6, <3>7, <3>9, <3>10, <3>11 DEF SerialMove, Solo
    <3> QED BY <1>1, <3>12, SerialKept
  <2> QED BY <2>2, <2>3
<1> QED
    BY <1>4, <1>5, <1>6, <1>7, <1>8, <1>9, <1>10, <1>11, <1>12, <1>13

LEMMA SerialExecute ==
    ASSUME TypeOK, TypeOK', SerialInv, NEW c \in Client, Solo(c),
           \/ Send(c) \/ Answered(c) \/ CallbackThrows(c)
           \/ RemoteApplies(c) \/ RemoteRefuses(c) \/ LoseAnswer(c)
    PROVE  SerialInv'
<1> DEFINE r == req[c].rec
           a == req[c].id
<1>1. /\ req[c] \in Request /\ r \in Record /\ a \in Action
      /\ req[c].pc \in {"claimed", "sent"} /\ store[a] \in Record
    BY DEF TypeOK, Request, At, Send, Answered, CallbackThrows, RemoteApplies,
           RemoteRefuses, LoseAnswer
<1>2. /\ r = store[a] /\ r.status = "executing" /\ r.approvedAt # Unset
      /\ \A b \in Action : req[c].todo[b].status # "absent" =>
           req[c].todo[b] = store[b] /\ store[b].status \in InFlight
    <2>1. Current(req[c], store)
      BY <1>1 DEF SerialInv
    <2> QED BY <1>1, <2>1 DEF Current
<1>3. ~Undecided(store[a]) /\ Booked(store[a])
    BY <1>2 DEF Undecided, Approvable, Booked
<1>4. claims[a] + One(Undecided(store[a]) \/ Retrying(req[c], a)) <= 1 + retries
    BY <1>1, RetriedNow
<1>5. claims[a] \in Nat /\ retries \in Nat
    BY <1>1 DEF TypeOK
\* A request that is still at "sent" with another write.
<1>6. ASSUME NEW q, q.pc = "sent", q.rec = r, q.op = req[c].op, q.id = a,
             q.todo = req[c].todo
      PROVE  /\ Current(q, store)
             /\ \A b \in Action : Retrying(q, b) => Retrying(req[c], b)
    BY <1>1, <1>2, <1>6 DEF Current, Retrying
\* The write of a may land or be late: its row says who approved it.
<1>7. ASSUME NEW q, Become(c, q), q.pc = "sent", q.rec = r, q.op = req[c].op, q.id = a,
             q.todo = req[c].todo, UNCHANGED <<store, clock, claims, retries>>,
             \A b \in Action \ {a} : landed'[b] = landed[b] /\ late'[b] = late[b]
      PROVE  SerialInv'
  <2>1. /\ Current(q, store')
        /\ \A b \in Action : Retrying(q, b) => Retrying(req[c], b)
    BY <1>6, <1>7
  <2>2. store' = [store EXCEPT ![a] = store[a]] /\ retries' >= retries
    BY <1>1, <1>5, <1>7 DEF TypeOK
  <2>3. claims'[a] + One(Undecided(store[a]) \/ Retrying(q, a)) <= 1 + retries'
    <3>1. Undecided(store[a]) \/ Retrying(q, a) => Undecided(store[a]) \/ Retrying(req[c], a)
      BY <1>1, <2>1
    <3>2. One(Undecided(store[a]) \/ Retrying(q, a))
            <= One(Undecided(store[a]) \/ Retrying(req[c], a))
      BY <3>1 DEF One
    <3>3. \A b : One(b) \in Nat
      BY DEF One
    <3> QED BY <1>4, <1>5, <1>7, <3>2, <3>3
  <2>4. SerialMove(c, q, a, store[a])
    BY <1>1, <1>3, <1>7, <2>1, <2>2, <2>3 DEF SerialMove, Solo
  <2> QED BY <1>1, <2>4, SerialKept
<1>8. CASE Send(c)
  <2> DEFINE q == [req[c] EXCEPT !.pc = "sent", !.write = "flying"]
  <2>1. /\ q.pc = "sent" /\ q.rec = r /\ q.op = req[c].op /\ q.id = a
        /\ q.todo = req[c].todo
    BY <1>1 DEF Request
  <2>2. Become(c, q) /\ UNCHANGED <<store, clock, claims, retries, landed, late>>
    BY <1>8 DEF Send, remote
  <2> HIDE DEF q
  <2> QED BY <1>7, <2>1, <2>2
<1>9. CASE RemoteApplies(c) \/ RemoteRefuses(c) \/ LoseAnswer(c)
  <2>1. PICK w : Become(c, [req[c] EXCEPT !.write = w])
    BY <1>9 DEF RemoteApplies, RemoteRefuses, LoseAnswer
  <2> DEFINE q == [req[c] EXCEPT !.write = w]
  <2>2. /\ q.pc = "sent" /\ q.rec = r /\ q.op = req[c].op /\ q.id = a
        /\ q.todo = req[c].todo
    BY <1>1, <1>9 DEF Request, RemoteApplies, RemoteRefuses, LoseAnswer, At
  <2>3. /\ UNCHANGED <<store, clock, claims, retries>>
        /\ \A b \in Action \ {a} : landed'[b] = landed[b] /\ late'[b] = late[b]
    BY <1>1, <1>9 DEF RemoteApplies, RemoteRefuses, LoseAnswer, Land, remote, TypeOK
  <2>4. Become(c, q)
    BY <2>1
  <2> HIDE DEF q
  <2> QED BY <1>7, <2>2, <2>3, <2>4
<1>10. CASE CallbackThrows(c)
    BY <1>10, SerialReturn DEF CallbackThrows
<1>11. CASE Answered(c) /\ req[c].write # "applied"
  <2> DEFINE r1 == Failed(r, "transport")
  <2>1. r1.status = "failed" /\ r1.approvedAt = r.approvedAt /\ SaveAndReturn(c, r1)
    BY <1>1, <1>11 DEF Failed, Record, Answered
  <2> HIDE DEF r1
  <2>2. Leaves(c, r1)
    BY <1>1, <1>2, <1>3, <2>1 DEF Leaves, Approvable
  <2> QED BY <2>2, LeavesKeeps
<1>12. CASE Answered(c) /\ req[c].write = "applied"
  <2> DEFINE r1 == [r EXCEPT !.status = "verifying", !.executedAt = req[c].now,
                             !.resolved = (a \in Creations)]
             q == [Idle EXCEPT !.pc = "verifying", !.op = req[c].op, !.id = a, !.rec = r1]
  <2>1. Save(a, r1) /\ Become(c, q) /\ UNCHANGED <<clock, claims, retries, landed, late>>
    BY <1>12 DEF Answered, remote
  <2>2. r1.status = "verifying" /\ r1.approvedAt = r.approvedAt
    BY <1>1 DEF Record
  <2> HIDE DEF r1
  <2>3. /\ q.pc = "verifying" /\ q.rec = r1 /\ q.op = req[c].op /\ q.id = a
        /\ q.write # "flying" /\ \A b \in Action : q.todo[b].status = "absent"
    BY DEF Idle, Absent, None
  <2> HIDE DEF q
  <2>4. store' = [store EXCEPT ![a] = r1] /\ store'[a] = r1
    BY <1>1, <2>1 DEF Save, TypeOK
  <2>5. Current(q, store')
    BY <1>1, <2>2, <2>3, <2>4 DEF Current, InFlight
  <2>6. \A b \in Action : Retrying(q, b) => Retrying(req[c], b)
    BY <1>1, <2>3 DEF Retrying
  <2>7. ~Undecided(r1) /\ Booked(r1)
    BY <1>2, <2>2 DEF Undecided, Approvable, Booked
  <2>8. claims'[a] + One(Undecided(r1) \/ Retrying(q, a)) <= 1 + retries'
    <3>1. Undecided(r1) \/ Retrying(q, a) => Undecided(store[a]) \/ Retrying(req[c], a)
      BY <1>1, <2>6, <2>7
    <3>2. One(Undecided(r1) \/ Retrying(q, a))
            <= One(Undecided(store[a]) \/ Retrying(req[c], a))
      BY <3>1 DEF One
    <3>3. \A b : One(b) \in Nat
      BY DEF One
    <3> QED BY <1>4, <1>5, <2>1, <3>2, <3>3
  <2>9. retries' >= retries
    BY <1>5, <2>1
  <2>10. SerialMove(c, q, a, r1)
    BY <1>3, <2>1, <2>4, <2>5, <2>6, <2>7, <2>8, <2>9 DEF SerialMove, Solo
  <2> QED BY <1>1, <2>10, SerialKept
<1> QED BY <1>8, <1>9, <1>10, <1>11, <1>12

LEMMA SerialVerify ==
    ASSUME TypeOK, TypeOK', SerialInv, NEW c \in Client, Solo(c),
           ResumeNext(c) \/ VerifyAttempt(c) \/ WriteVerdict(c)
    PROVE  SerialInv'
<1> DEFINE r == req[c].rec
           a == req[c].id
<1>1. /\ req[c] \in Request /\ r \in Record /\ a \in Action /\ store[a] \in Record
      /\ req[c].pc \in {"loaded", "verifying", "judged"}
      /\ req[c].todo \in [Action -> Record]
    BY DEF TypeOK, Request, At, ResumeNext, VerifyAttempt, WriteVerdict
<1>2. /\ Current(req[c], store) /\ req[c].write # "flying"
      /\ \A b \in Action : req[c].todo[b].status # "absent" =>
           req[c].todo[b] = store[b] /\ store[b].status \in InFlight
    <2>1. Current(req[c], store)
      BY <1>1 DEF SerialInv
    <2> QED BY <1>1, <2>1 DEF Current
<1>3. CASE ResumeNext(c) /\ ~Return(c)
  <2>1. PICK b \in {b \in Action : req[c].todo[b].status # "absent"} :
          /\ Become(c, [req[c] EXCEPT !.pc = "verifying", !.id = b,
                                      !.rec = req[c].todo[b],
                                      !.todo = [@ EXCEPT ![b] = Absent]])
          /\ UNCHANGED <<store, writesEnabled, clock, claims, retries, remote>>
    BY <1>3 DEF ResumeNext
  <2> DEFINE rest == [req[c].todo EXCEPT ![b] = Absent]
             q == [req[c] EXCEPT !.pc = "verifying", !.id = b,
                                 !.rec = req[c].todo[b], !.todo = rest]
  <2>2. /\ rest[b].status = "absent" /\ \A d \in Action \ {b} : rest[d] = req[c].todo[d]
    BY <1>1 DEF Absent
  <2>3. Become(c, q) /\ UNCHANGED <<store, clock, claims, retries, landed, late>>
    BY <2>1 DEF remote
  <2> HIDE DEF rest
  <2>4. /\ q.pc = "verifying" /\ q.id = b /\ q.rec = req[c].todo[b] /\ q.todo = rest
        /\ q.op = req[c].op /\ q.write = req[c].write
    BY <1>1 DEF Request
  <2> HIDE DEF q
  <2>5. Current(q, store)
    BY <1>1, <1>2, <2>1, <2>2, <2>4 DEF Current
  <2>6. req[c].op = "resume"
    BY <1>3 DEF ResumeNext
  <2>7. Moves(c, q)
    BY <2>3, <2>4, <2>5, <2>6 DEF Moves, Retrying
  <2> QED BY <2>7, MovesKeeps
<1>4. CASE Return(c)
    BY <1>4, SerialReturn
<1>5. CASE VerifyAttempt(c)
  <2> DEFINE q(v) == [req[c] EXCEPT !.pc = "judged", !.verdict = v]
             again == [req[c] EXCEPT !.tries = Tried(@)]
  <2>1. PICK p : /\ Become(c, p)
                 /\ p = again \/ \E v : p = q(v)
    BY <1>5 DEF VerifyAttempt
  <2>2. /\ p.pc \in {"verifying", "judged"} /\ p.id = a /\ p.rec = r
        /\ p.todo = req[c].todo /\ p.op = req[c].op /\ p.write = req[c].write
    BY <1>1, <1>5, <2>1 DEF Request, VerifyAttempt, At
  <2> HIDE DEF q, again
  <2>3. UNCHANGED <<store, clock, claims, retries, landed, late>>
    BY <1>5 DEF VerifyAttempt, remote
  <2>4. req[c].pc = "verifying"
    BY <1>5 DEF VerifyAttempt, At
  <2>5. Current(p, store)
    BY <1>2, <2>2, <2>4 DEF Current
  <2>6. Moves(c, p)
    BY <1>1, <2>1, <2>2, <2>3, <2>5 DEF Moves, Retrying
  <2> QED BY <2>6, MovesKeeps
<1>6. CASE WriteVerdict(c)
  <2> DEFINE row == IF req[c].verdict = "verified"
                    THEN [r EXCEPT !.status = "verified"]
                    ELSE Failed(r, Unverified(c))
             q == [req[c] EXCEPT !.pc = "loaded", !.rec = Absent,
                                 !.tries = 0, !.verdict = None]
  <2>1. /\ r = store[a] /\ r.status \in InFlight /\ req[c].todo[a].status = "absent"
    BY <1>2, <1>6 DEF Current, WriteVerdict, At
  <2>2. row.status \in {"verified", "failed"} /\ row.approvedAt = r.approvedAt
    BY <1>1 DEF Failed, Record
  <2> HIDE DEF row
  <2>3. ~Undecided(row) /\ ~Undecided(store[a]) /\ row.status # "absent"
    BY <2>1, <2>2 DEF Undecided, Approvable, InFlight
  <2>4. CASE req[c].op # "resume"
    <3>1. SaveAndReturn(c, row)
      BY <1>6, <2>4 DEF WriteVerdict, SaveAndReturn, row
    <3>2. Leaves(c, row)
      BY <1>1, <2>1, <2>2, <2>3, <3>1 DEF Leaves, Undecided
    <3> QED BY <3>2, LeavesKeeps
  <2>5. CASE req[c].op = "resume"
    <3>1. Save(a, row) /\ Become(c, q) /\ UNCHANGED <<clock, claims, retries, landed, late>>
      BY <1>6, <2>5 DEF WriteVerdict, row, remote
    <3>2. /\ q.pc = "loaded" /\ q.op = "resume" /\ q.todo = req[c].todo
          /\ q.write = req[c].write
      BY <1>1, <2>5 DEF Request
    <3> HIDE DEF q
    <3>3. store' = [store EXCEPT ![a] = row] /\ store'[a] = row
          /\ \A b \in Action \ {a} : store'[b] = store[b]
      BY <1>1, <3>1 DEF Save, TypeOK
    <3>4. Current(q, store')
      BY <1>1, <1>2, <2>1, <3>2, <3>3 DEF Current
    <3>5. \A b : ~Retrying(q, b) /\ ~Retrying(req[c], b)
      BY <2>5, <3>2 DEF Retrying
    <3>6. claims[a] + One(Undecided(store[a]) \/ Retrying(req[c], a)) <= 1 + retries
      BY <1>1, RetriedNow
    <3>7. claims[a] \in Nat /\ retries \in Nat
      BY <1>1 DEF TypeOK
    <3>8. One(Undecided(row) \/ Retrying(q, a))
            = One(Undecided(store[a]) \/ Retrying(req[c], a))
      BY <2>3, <3>5 DEF One
    <3>9. claims'[a] + One(Undecided(row) \/ Retrying(q, a)) <= 1 + retries'
      BY <3>1, <3>6, <3>8
    <3>10. landed'[a] > 0 \/ late'[a] > 0 => Booked(row)
      BY <1>1, <2>1, <2>2, <2>3, <3>1 DEF SerialInv, Booked
    <3>11. retries' >= retries
      BY <3>1, <3>7
    <3>12. SerialMove(c, q, a, row)
      BY <2>3, <3>1, <3>3, <3>4, <3>5, <3>9, <3>10, <3>11 DEF SerialMove, Solo
    <3> QED BY <1>1, <3>12, SerialKept
  <2> QED BY <2>4, <2>5
<1> QED BY <1>3, <1>4, <1>5, <1>6

\* Requests that hold what they held, or are gone.
LEMMA SerialRests ==
    ASSUME TypeOK, SerialInv, UNCHANGED <<store, claims, retries>>, clock' # 0,
           \A c \in Client :
              \/ req'[c] = Idle
              \/ /\ req'[c].pc = req[c].pc /\ req'[c].op = req[c].op
                 /\ req'[c].id = req[c].id /\ req'[c].rec = req[c].rec
                 /\ req'[c].todo = req[c].todo /\ req'[c].write = req[c].write
                 /\ req'[c].now = req[c].now,
           \A a \in Action : landed'[a] > 0 \/ late'[a] > 0 => Booked(store[a])
    PROVE  SerialInv'
<1>1. ASSUME NEW c \in Client PROVE Current(req'[c], store')
  <2>1. CASE req'[c] = Idle
    BY <2>1 DEF Current, Idle, None
  <2>2. CASE req'[c] # Idle
    <3>1. /\ req'[c].pc = req[c].pc /\ req'[c].op = req[c].op
          /\ req'[c].id = req[c].id /\ req'[c].rec = req[c].rec
          /\ req'[c].todo = req[c].todo /\ req'[c].write = req[c].write
          /\ req'[c].now = req[c].now /\ store' = store
      BY <2>2
    <3>2. Current(req[c], store)
      BY DEF SerialInv
    <3> QED BY <3>1, <3>2 DEF Current
  <2> QED BY <2>1, <2>2
<1>2. ASSUME NEW a \in Action PROVE claims'[a] + One(Renewable(a)') <= 1 + retries'
  <2>1. Renewable(a)' => Renewable(a)
    <3>1. \A c \in Client : Retrying(req'[c], a) => Retrying(req[c], a)
      BY DEF Retrying, Idle
    <3>2. Renewable(a)' <=> Undecided(store'[a]) \/ \E c \in Client : Retrying(req'[c], a)
      BY DEF Renewable, Undecided, Approvable, Retrying
    <3> QED BY <3>1, <3>2 DEF Renewable
  <2>2. One(Renewable(a)') <= One(Renewable(a)) /\ One(Renewable(a)) \in Nat
        /\ One(Renewable(a)') \in Nat
    BY <2>1 DEF One
  <2>3. claims[a] + One(Renewable(a)) <= 1 + retries
    BY DEF SerialInv
  <2>4. claims[a] \in Nat /\ retries \in Nat /\ claims'[a] = claims[a] /\ retries' = retries
    BY DEF TypeOK
  <2> QED BY <2>2, <2>3, <2>4
<1>3. \A a \in Action : landed'[a] > 0 \/ late'[a] > 0 => Booked(store'[a])
    OBVIOUS
<1> QED BY <1>1, <1>2, <1>3 DEF SerialInv, One

LEMMA SerialWorld ==
    ASSUME TypeOK, SerialInv,
           Late \/ SetWritesEnabled \/ Tick \/ ExternalEdit \/ Crash
    PROVE  SerialInv'
<1>1. UNCHANGED <<store, claims, retries>>
    BY DEF Late, LateLands, LateDropped, Land, SetWritesEnabled, Tick, ExternalEdit, Crash
<1>2. clock' # 0
  <2>1. clock \in Nat /\ clock # 0
    BY DEF TypeOK, SerialInv
  <2> QED BY <2>1 DEF Late, LateLands, LateDropped, Land, SetWritesEnabled, Tick,
                      ExternalEdit, Crash
<1>3. ASSUME NEW c \in Client
      PROVE  \/ req'[c] = Idle
             \/ /\ req'[c].pc = req[c].pc /\ req'[c].op = req[c].op
                /\ req'[c].id = req[c].id /\ req'[c].rec = req[c].rec
                /\ req'[c].todo = req[c].todo /\ req'[c].write = req[c].write
                /\ req'[c].now = req[c].now
  <2>1. CASE SetWritesEnabled
    BY <2>1 DEF SetWritesEnabled, TypeOK, Request
  <2>2. CASE Crash
    BY <2>2 DEF Crash
  <2>3. CASE Late \/ Tick \/ ExternalEdit
    BY <2>3 DEF Late, LateLands, LateDropped, Tick, ExternalEdit
  <2> QED BY <2>1, <2>2, <2>3
<1>4. ASSUME NEW a \in Action, landed'[a] > 0 \/ late'[a] > 0 PROVE Booked(store[a])
  <2>1. landed[a] > 0 \/ late[a] > 0 => Booked(store[a])
    BY DEF SerialInv
  <2>2. landed[a] \in Nat /\ late[a] \in Nat
    BY DEF TypeOK
  <2>3. CASE Late
    <3>1. PICK b \in Action : LateLands(b) \/ LateDropped(b)
      BY <2>3 DEF Late
    <3>2. landed'[a] > 0 \/ late'[a] > 0 => landed[a] > 0 \/ late[a] > 0
      BY <2>2, <3>1 DEF LateLands, LateDropped, Land, TypeOK
    <3> QED BY <1>4, <2>1, <3>2
  <2>4. CASE SetWritesEnabled \/ Tick \/ ExternalEdit
    BY <1>4, <2>1, <2>4 DEF SetWritesEnabled, Tick, ExternalEdit, remote
  <2>5. CASE Crash
    <3> DEFINE flying == {c \in Client : Flying(c, a)}
    <3>1. landed'[a] = landed[a] /\ late'[a] = late[a] + Cardinality(flying)
      BY <2>5 DEF Crash
    <3>2. CASE flying = {}
      <4>1. Cardinality(flying) = 0
        BY <3>2, FS_EmptySet
      <4> HIDE DEF flying
      <4> QED BY <1>4, <2>1, <2>2, <3>1, <4>1
    <3>3. CASE flying # {}
      <4>1. PICK c \in Client : Flying(c, a)
        BY <3>3
      <4>2. Current(req[c], store)
        BY DEF SerialInv
      <4>3. req[c].pc = "sent"
        BY <4>1, <4>2 DEF Flying, Current
      <4> QED BY <4>1, <4>2, <4>3 DEF Flying, Current, Booked
    <3> QED BY <3>2, <3>3
  <2> QED BY <2>3, <2>4, <2>5
<1> QED BY <1>1, <1>2, <1>3, <1>4, SerialRests

LEMMA SerialStep ==
    ASSUME TypeOK, TypeOK', SerialInv, Alone, Alone', [Next]_vars
    PROVE  SerialInv'
<1>1. CASE UNCHANGED vars
  <2>1. /\ UNCHANGED <<store, req, claims, retries, landed, late>> /\ clock' # 0
    BY <1>1 DEF vars, SerialInv
  <2>2. \A a \in Action : landed'[a] > 0 \/ late'[a] > 0 => Booked(store[a])
    BY <2>1 DEF SerialInv
  <2> QED BY <2>1, <2>2, SerialRests
<1>2. ASSUME NEW c \in Client, Call(c) \/ Handle(c) \/ Remote(c) PROVE SerialInv'
  <2>1. CASE Call(c)
    <3>1. PICK a \in Action : \/ CallPropose(c, a) \/ CallApprove(c, a)
                              \/ CallRetry(c, a)   \/ CallReject(c, a)
                              \/ CallResume(c, a)
      BY <2>1 DEF Call
    <3>2. /\ req' = [req EXCEPT ![c] = req'[c]]
          /\ req'[c].pc \in {"called", "loaded"}
      <4>1. ASSUME NEW step \in {"called", "loaded"}, NEW op, NEW r, Begin(c, step, op, a, r)
            PROVE  /\ req' = [req EXCEPT ![c] = req'[c]]
                   /\ req'[c].pc \in {"called", "loaded"}
        BY <4>1 DEF Begin, Become, Idle, TypeOK
      <4>2. CASE ~CallResume(c, a)
        BY <3>1, <4>1, <4>2 DEF CallPropose, CallApprove, CallRetry, CallReject
      <4>3. CASE CallResume(c, a)
        BY <4>3 DEF CallResume, Become, Idle, TypeOK
      <4> QED BY <4>2, <4>3
    <3>3. \A d \in Client \ {c} : req'[d] = req[d]
      BY <3>2 DEF TypeOK
    <3>4. Solo(c)
      BY <3>2, <3>3 DEF Alone, Solo
    <3> QED BY <2>1, <3>4, SerialCall
  <2>2. CASE Handle(c) \/ Remote(c)
    <3>1. req[c].pc # "idle"
      BY <2>2 DEF Handle, Remote, At, CheckProposal, CheckApproval, LoadRetry, CheckRetry,
                  DoReject, ReadRevision, ReadThrows, DecideProposal, DecideApproval,
                  DecideRetry, Send, Answered, CallbackThrows, ResumeNext, VerifyAttempt,
                  WriteVerdict, RemoteApplies, RemoteRefuses, LoseAnswer
    <3>2. Solo(c)
      BY <3>1 DEF Alone, Solo
    <3> QED BY <2>2, <3>2, SerialDecide, SerialExecute, SerialVerify DEF Handle, Remote
  <2> QED BY <1>2, <2>1, <2>2
<1>3. CASE Late \/ SetWritesEnabled \/ Tick \/ ExternalEdit \/ Crash
    BY <1>3, SerialWorld
<1> QED BY <1>1, <1>2, <1>3 DEF Next

LEMMA SerialInit == Init => SerialInv
<1> SUFFICES ASSUME Init PROVE SerialInv
    OBVIOUS
<1>1. \A c \in Client : Current(req[c], store)
    BY DEF Init, Current, Idle, None
<1>2. \A a \in Action : claims[a] + One(Renewable(a)) <= 1 + retries
    BY DEF Init, One
<1> QED BY <1>1, <1>2 DEF Init, SerialInv

LEMMA SerialNext ==
    TypeOK /\ SerialInv /\ Alone /\ Alone' /\ [Next]_vars
      => TypeOK' /\ SerialInv'
BY TypeStep, SerialStep

(* While no two requests overlap, the ledger names the approval of every   *)
(* write that took effect, whatever failed, crashed or came late.          *)
THEOREM MutationsAreApproved == Spec /\ []Alone => []MutationHasApproval
<1>1. TypeOK /\ SerialInv => MutationHasApproval
    BY DEF SerialInv, Booked, MutationHasApproval
<1> QED BY <1>1, TypeInit, SerialInit, SerialNext, PTL DEF Spec

(* An action is executed once, and once more at most for every retry.      *)
ClaimsPaid == \A a \in Action : claims[a] <= 1 + retries

LEMMA ClaimsArePaid == Spec /\ []Alone => []ClaimsPaid
<1>1. TypeOK /\ SerialInv => ClaimsPaid
  <2> SUFFICES ASSUME TypeOK, SerialInv, NEW a \in Action PROVE claims[a] <= 1 + retries
    BY DEF ClaimsPaid
  <2>1. claims[a] + One(Renewable(a)) <= 1 + retries
    BY DEF SerialInv
  <2>2. One(Renewable(a)) \in Nat /\ claims[a] \in Nat /\ retries \in Nat
    BY DEF One, TypeOK
  <2> QED BY <2>1, <2>2
<1> QED BY <1>1, TypeInit, SerialInit, SerialNext, PTL DEF Spec
-----------------------------------------------------------------------------
(* Settled rows                                                            *)

(* What a request holds when it comes to write: a row that was not settled *)
(* when the request read it.                                               *)
Dated(q) ==
    /\ q.pc \in {"context", "observed"} /\ q.op # "propose" => Approvable(q.rec)
    /\ q.pc \in {"claimed", "sent"} => q.rec.status = "executing"
    /\ q.pc \in {"verifying", "judged"} => q.rec.status \in InFlight
    /\ \A b \in Action : q.todo[b].status # "absent" => q.todo[b].status \in InFlight

DatedInv == \A c \in Client : Dated(req[c])

Yields == \A a \in Action : Settled(store[a]) /\ store'[a] # store[a] =>
            \E c \in Client : /\ req[c].pc # "idle" /\ req[c].id = a
                              /\ req'[c] # req[c]
                              /\ ~Settled(req[c].rec)

LEMMA DatedYields == SettledYieldsToStale <=> [][Yields]_vars
BY DEF SettledYieldsToStale, Yields

LEMMA DatedIdle == Dated(Idle)
BY DEF Dated, Idle, Absent

LEMMA OpenRows ==
    ASSUME NEW r, r.status \notin Terminal \/ Approvable(r)
    PROVE  ~Settled(r)
BY DEF Settled, Approvable, Terminal

(* A step of c that leaves the table alone.                                *)
LEMMA DatedQuiet ==
    ASSUME TypeOK, DatedInv, NEW c \in Client, NEW q, Become(c, q), Dated(q),
           store' = store
    PROVE  DatedInv' /\ Yields
BY DEF DatedInv, Yields, Become, TypeOK

(* A step of c that writes its row and moves on to q.                      *)
DatedWrite(c, q, r) ==
    /\ Become(c, q) /\ Dated(q) /\ q.pc # req[c].pc
    /\ Save(req[c].id, r) /\ req[c].pc # "idle"
    /\ ~Settled(req[c].rec) \/ ~Settled(store[req[c].id])

LEMMA DatedSave ==
    ASSUME TypeOK, DatedInv, NEW c \in Client, NEW q, NEW r, DatedWrite(c, q, r)
    PROVE  DatedInv' /\ Yields
<1>1. /\ Become(c, q) /\ Dated(q) /\ q.pc # req[c].pc
      /\ store' = [store EXCEPT ![req[c].id] = r] /\ req[c].pc # "idle"
      /\ ~Settled(req[c].rec) \/ ~Settled(store[req[c].id])
    BY DEF DatedWrite, Save
<1>2. req'[c] = q /\ \A d \in Client \ {c} : req'[d] = req[d]
    BY <1>1 DEF Become, TypeOK
<1>3. DatedInv'
  <2> SUFFICES ASSUME NEW d \in Client PROVE Dated(req'[d])
    BY DEF DatedInv, Dated
  <2> QED BY <1>1, <1>2 DEF DatedInv
<1>4. Yields
  <2> SUFFICES ASSUME NEW a \in Action, Settled(store[a]), store'[a] # store[a]
               PROVE  /\ req[c].id = a /\ req'[c] # req[c] /\ ~Settled(req[c].rec)
    BY <1>1 DEF Yields
  <2>1. req[c].id = a
    BY <1>1 DEF TypeOK
  <2>2. req'[c] # req[c]
    BY <1>1, <1>2
  <2> QED BY <1>1, <2>1, <2>2
<1> QED BY <1>3, <1>4

LEMMA DatedReturn ==
    ASSUME TypeOK, DatedInv, NEW c \in Client, Return(c)
    PROVE  DatedInv' /\ Yields
BY DatedQuiet, DatedIdle DEF Return, Finish

LEMMA DatedSaveAndReturn ==
    ASSUME TypeOK, DatedInv, NEW c \in Client, NEW r, SaveAndReturn(c, r),
           req[c].pc # "idle",
           ~Settled(req[c].rec) \/ ~Settled(store[req[c].id])
    PROVE  DatedInv' /\ Yields
<1>1. Idle.pc = "idle"
    BY DEF Idle
<1>2. DatedWrite(c, Idle, r)
    BY <1>1, DatedIdle DEF DatedWrite, SaveAndReturn, Finish
<1> QED BY <1>2, DatedSave

LEMMA DatedCall ==
    ASSUME TypeOK, DatedInv, NEW c \in Client, Call(c)
    PROVE  DatedInv' /\ Yields
<1>1. PICK a \in Action : \/ CallPropose(c, a) \/ CallApprove(c, a)
                          \/ CallRetry(c, a)   \/ CallReject(c, a)
                          \/ CallResume(c, a)
    BY DEF Call
<1>2. store' = store
    BY <1>1 DEF CallPropose, CallApprove, CallRetry, CallReject, CallResume, remote
<1>3. ASSUME NEW step \in {"called", "loaded"}, NEW op, NEW r, Begin(c, step, op, a, r)
      PROVE  DatedInv' /\ Yields
  <2> DEFINE q == [Idle EXCEPT !.pc = step, !.op = op, !.id = a, !.rec = r,
                               !.since = rev, !.wasOn = writesEnabled]
  <2>1. Dated(q)
    BY DEF Dated, Idle, Absent
  <2> QED BY <1>2, <1>3, <2>1, DatedQuiet DEF Begin
<1>4. CASE \/ CallPropose(c, a) \/ CallApprove(c, a)
           \/ CallRetry(c, a) \/ CallReject(c, a)
  <2>1. \E step \in {"called", "loaded"} : \E op, r : Begin(c, step, op, a, r)
    BY <1>4 DEF CallPropose, CallApprove, CallRetry, CallReject
  <2> QED BY <1>3, <2>1
<1>5. CASE CallResume(c, a)
  <2> DEFINE q == [Idle EXCEPT
                     !.pc = "loaded", !.op = "resume", !.id = a,
                     !.todo = [b \in Action |-> IF store[b].status \in InFlight
                                                THEN store[b] ELSE Absent]]
  <2>1. Dated(q)
    BY DEF Dated, Idle, Absent
  <2> QED BY <1>2, <1>5, <2>1, DatedQuiet DEF CallResume
<1> QED BY <1>1, <1>4, <1>5

(* propose, approve, retry and reject.                                     *)
LEMMA DatedDecide ==
    ASSUME TypeOK, DatedInv, NEW c \in Client,
           \/ CheckProposal(c) \/ CheckApproval(c) \/ LoadRetry(c) \/ CheckRetry(c)
           \/ DoReject(c) \/ ReadRevision(c) \/ ReadThrows(c)
           \/ DecideProposal(c) \/ DecideApproval(c) \/ DecideRetry(c)
    PROVE  DatedInv' /\ Yields
<1> DEFINE q == req[c]
<1>1. Dated(q) /\ q \in Request
    BY DEF DatedInv, TypeOK
<1>2. ASSUME NEW r, EnterContext(c, r), q.op # "propose" => Approvable(r)
      PROVE  DatedInv' /\ Yields
  <2> DEFINE p == [q EXCEPT !.pc = "context", !.rec = r, !.enabled = writesEnabled, !.now = clock]
  <2>1. Dated(p)
    BY <1>1, <1>2 DEF Dated, Request
  <2> QED BY <1>2, <2>1, DatedQuiet DEF EnterContext
<1>3. CASE CheckProposal(c)
    BY <1>2, <1>3, DatedReturn DEF CheckProposal
<1>4. CASE CheckApproval(c)
  <2>1. q.pc # "idle" /\ (Approvable(q.rec) => ~Settled(q.rec))
    BY <1>4, OpenRows DEF CheckApproval, At
  <2> QED BY <1>2, <1>4, <2>1, DatedReturn, DatedSaveAndReturn DEF CheckApproval
<1>5. CASE LoadRetry(c)
  <2> DEFINE p == [q EXCEPT !.pc = "loaded", !.rec = store[q.id]]
  <2>1. Dated(p)
    BY <1>1 DEF Dated, Request
  <2> QED BY <1>5, <2>1, DatedQuiet DEF LoadRetry
<1>6. CASE CheckRetry(c)
  <2>1. CASE RetryRefused(q.rec)
    BY <1>6, <2>1, DatedReturn DEF CheckRetry
  <2>2. CASE ~RetryRefused(q.rec)
    <3>1. PICK e \in Expiries :
            EnterContext(c, [q.rec EXCEPT !.status = "awaiting_approval",
                                          !.failure = None, !.expiresAt = e,
                                          !.predicates = TRUE])
      BY <1>6, <2>2 DEF CheckRetry
    <3>2. Approvable([q.rec EXCEPT !.status = "awaiting_approval",
                                   !.failure = None, !.expiresAt = e,
                                   !.predicates = TRUE])
      BY <1>1 DEF Approvable, Request, Record
    <3> QED BY <1>2, <3>1, <3>2
  <2> QED BY <2>1, <2>2
<1>7. CASE DoReject(c)
  <2>1. q.pc # "idle" /\ (Rejectable(q.rec) => ~Settled(q.rec))
    BY <1>7, OpenRows DEF DoReject, At, Rejectable
  <2> QED BY <1>7, <2>1, DatedReturn, DatedSaveAndReturn DEF DoReject
<1>8. CASE ReadRevision(c)
  <2>1. PICK seen \in {rev} \cup {Unseen} :
          Become(c, [q EXCEPT !.pc = "observed", !.seen = seen])
    BY <1>8 DEF ReadRevision
  <2>2. Dated([q EXCEPT !.pc = "observed", !.seen = seen])
    BY <1>1, <1>8 DEF Dated, Request, ReadRevision, At
  <2> QED BY <1>8, <2>1, <2>2, DatedQuiet DEF ReadRevision
<1>9. CASE ReadThrows(c)
    BY <1>9, DatedReturn DEF ReadThrows
<1>10. CASE DecideProposal(c)
  <2>1. q.pc # "idle" /\ (store[q.id].status = "absent" => ~Settled(store[q.id]))
    BY <1>10, OpenRows DEF DecideProposal, At, Terminal
  <2> QED BY <1>10, <2>1, DatedReturn, DatedSaveAndReturn DEF DecideProposal
<1>11. CASE DecideApproval(c)
  <2> DEFINE r == Executing(q.rec, q.now)
             p == [q EXCEPT !.pc = "claimed", !.rec = r, !.enabled = FALSE]
  <2>1. q.pc = "observed" /\ ~Settled(q.rec)
    BY <1>1, <1>11, OpenRows DEF Dated, DecideApproval, At
  <2>2. CASE Denied(c)
    BY <1>11, <2>1, <2>2, DatedSaveAndReturn DEF DecideApproval
  <2>3. CASE ~Denied(c)
    <3>1. Dated(p)
      BY <1>1 DEF Dated, Request, Record, Executing
    <3>2. p.pc # q.pc
      BY <1>1, <2>1 DEF Request
    <3>3. DatedWrite(c, p, r)
      BY <1>11, <2>1, <2>3, <3>1, <3>2 DEF DatedWrite, DecideApproval
    <3> QED BY <3>3, DatedSave
  <2> QED BY <2>2, <2>3
<1>12. CASE DecideRetry(c)
  <2>1. q.pc = "observed" /\ ~Settled(q.rec)
    BY <1>1, <1>12, OpenRows DEF Dated, DecideRetry, At
  <2> QED BY <1>12, <2>1, DatedSaveAndReturn DEF DecideRetry
<1> QED BY <1>3, <1>4, <1>5, <1>6, <1>7, <1>8, <1>9, <1>10, <1>11, <1>12

(* The write itself, with or without its answer.                           *)
LEMMA DatedExecute ==
    ASSUME TypeOK, DatedInv, NEW c \in Client,
           Send(c) \/ Answered(c) \/ CallbackThrows(c) \/ Remote(c)
    PROVE  DatedInv' /\ Yields
<1> DEFINE q == req[c]
<1>1. Dated(q) /\ q \in Request /\ q.rec \in Record
    BY DEF DatedInv, TypeOK, Request
<1>2. CASE Send(c)
  <2>1. Dated([q EXCEPT !.pc = "sent", !.write = "flying"])
    BY <1>1, <1>2 DEF Dated, Request, Send, At
  <2> QED BY <1>2, <2>1, DatedQuiet DEF Send
<1>3. CASE CallbackThrows(c)
    BY <1>3, DatedReturn DEF CallbackThrows
<1>4. CASE Remote(c)
  <2>1. PICK w \in Writes : Become(c, [q EXCEPT !.write = w])
    BY <1>4 DEF Remote, RemoteApplies, RemoteRefuses, LoseAnswer, Writes
  <2>2. Dated([q EXCEPT !.write = w])
    BY <1>1 DEF Dated, Request
  <2>3. store' = store
    BY <1>4 DEF Remote, RemoteApplies, RemoteRefuses, LoseAnswer, Land, remote
  <2> QED BY <2>1, <2>2, <2>3, DatedQuiet
<1>5. CASE Answered(c)
  <2>1. q.pc = "sent" /\ ~Settled(q.rec)
    BY <1>1, <1>5, OpenRows DEF Dated, Answered, At, Terminal
  <2>2. CASE q.write = "applied"
    <3> DEFINE row == [q.rec EXCEPT !.status = "verifying", !.executedAt = q.now,
                                    !.resolved = (q.id \in Creations)]
               p == [Idle EXCEPT !.pc = "verifying", !.op = q.op, !.id = q.id, !.rec = row]
    <3>1. row.status = "verifying"
      BY <1>1 DEF Record
    <3> HIDE DEF row
    <3>2. Dated(p) /\ p.pc = "verifying"
      BY <3>1 DEF Dated, Idle, InFlight, Absent
    <3>3. Become(c, p) /\ Save(q.id, row)
      BY <1>5, <2>2 DEF Answered, row
    <3>4. DatedWrite(c, p, row)
      BY <2>1, <3>2, <3>3 DEF DatedWrite
    <3> QED BY <3>4, DatedSave
  <2>3. CASE q.write # "applied"
    BY <1>5, <2>1, <2>3, DatedSaveAndReturn DEF Answered
  <2> QED BY <2>2, <2>3
<1> QED BY <1>2, <1>3, <1>4, <1>5

(* Verification and its verdict, resumed or not.                           *)
LEMMA DatedVerify ==
    ASSUME TypeOK, DatedInv, NEW c \in Client,
           ResumeNext(c) \/ VerifyAttempt(c) \/ WriteVerdict(c)
    PROVE  DatedInv' /\ Yields
<1> DEFINE q == req[c]
<1>1. Dated(q) /\ q \in Request /\ q.todo \in [Action -> Record]
    BY DEF DatedInv, TypeOK, Request
<1>2. CASE ResumeNext(c)
  <2> DEFINE left == {b \in Action : q.todo[b].status # "absent"}
  <2>1. CASE left = {}
    BY <1>2, <2>1, DatedReturn DEF ResumeNext
  <2>2. CASE left # {}
    <3>1. PICK b \in left :
            /\ Become(c, [q EXCEPT !.pc = "verifying", !.id = b, !.rec = q.todo[b],
                                   !.todo = [q.todo EXCEPT ![b] = Absent]])
            /\ UNCHANGED <<store, writesEnabled, clock, claims, retries, remote>>
      BY <1>1, <1>2, <2>2 DEF ResumeNext
    <3> DEFINE p == [q EXCEPT !.pc = "verifying", !.id = b, !.rec = q.todo[b],
                              !.todo = [q.todo EXCEPT ![b] = Absent]]
    <3>2. p.pc = "verifying" /\ p.rec = q.todo[b] /\ p.todo = [q.todo EXCEPT ![b] = Absent]
      BY <1>1 DEF Request
    <3>3. q.todo[b].status \in InFlight
      BY <1>1 DEF Dated
    <3>4. ASSUME NEW d \in Action, p.todo[d].status # "absent"
          PROVE  p.todo[d].status \in InFlight
      BY <1>1, <3>2, <3>4 DEF Dated, Absent
    <3>5. Dated(p)
      BY <3>2, <3>3, <3>4 DEF Dated
    <3> QED BY <3>1, <3>5, DatedQuiet
  <2> QED BY <2>1, <2>2
<1>3. CASE VerifyAttempt(c)
  <2>1. \/ \E v \in Verdicts : Become(c, [q EXCEPT !.pc = "judged", !.verdict = v])
        \/ Become(c, [q EXCEPT !.tries = Tried(q.tries)])
    BY <1>1, <1>3 DEF VerifyAttempt, Verdicts, Request
  <2>2. /\ \A v \in Verdicts : Dated([q EXCEPT !.pc = "judged", !.verdict = v])
        /\ Dated([q EXCEPT !.tries = Tried(q.tries)])
    BY <1>1, <1>3 DEF Dated, Request, VerifyAttempt, At
  <2> QED BY <1>3, <2>1, <2>2, DatedQuiet DEF VerifyAttempt
<1>4. CASE WriteVerdict(c)
  <2> DEFINE row == IF q.verdict = "verified" THEN [q.rec EXCEPT !.status = "verified"]
                                              ELSE Failed(q.rec, Unverified(c))
             p == [q EXCEPT !.pc = "loaded", !.rec = Absent, !.tries = 0, !.verdict = None]
  <2>1. q.pc = "judged" /\ ~Settled(q.rec)
    BY <1>1, <1>4, OpenRows DEF Dated, WriteVerdict, At, InFlight, Terminal
  <2>2. Save(q.id, row)
    BY <1>4 DEF WriteVerdict
  <2> HIDE DEF row
  <2>3. CASE q.op = "resume"
    <3>1. Dated(p) /\ p.pc = "loaded"
      BY <1>1 DEF Dated, Request
    <3>2. DatedWrite(c, p, row)
      BY <1>4, <2>1, <2>2, <2>3, <3>1 DEF DatedWrite, WriteVerdict
    <3> QED BY <3>2, DatedSave
  <2>4. CASE q.op # "resume"
    <3>1. SaveAndReturn(c, row)
      BY <1>4, <2>2, <2>4 DEF WriteVerdict, SaveAndReturn
    <3> QED BY <2>1, <3>1, DatedSaveAndReturn
  <2> QED BY <2>3, <2>4
<1> QED BY <1>2, <1>3, <1>4

LEMMA DatedWorld ==
    ASSUME TypeOK, DatedInv,
           \/ Late \/ SetWritesEnabled \/ Tick \/ ExternalEdit \/ Crash
           \/ UNCHANGED vars
    PROVE  DatedInv' /\ Yields
<1>1. store' = store
    BY DEF Late, LateLands, LateDropped, Land, SetWritesEnabled, Tick, ExternalEdit,
           Crash, remote, vars
<1>2. ASSUME NEW c \in Client PROVE Dated(req'[c])
  <2>1. Dated(req[c]) /\ req[c] \in Request
    BY DEF DatedInv, TypeOK
  <2>2. CASE Crash
    BY <2>2, DatedIdle DEF Crash
  <2>3. CASE SetWritesEnabled
    <3>1. \/ req'[c] = req[c]
          \/ req'[c] = [req[c] EXCEPT !.wasOn = req[c].wasOn \/ ~writesEnabled]
      BY <2>3 DEF SetWritesEnabled
    <3>2. /\ req'[c].pc = req[c].pc /\ req'[c].op = req[c].op
          /\ req'[c].rec = req[c].rec /\ req'[c].todo = req[c].todo
      BY <2>1, <3>1 DEF Request
    <3> QED BY <2>1, <3>2 DEF Dated
  <2>4. CASE Late \/ Tick \/ ExternalEdit \/ UNCHANGED vars
    BY <2>1, <2>4 DEF Late, LateLands, LateDropped, Tick, ExternalEdit, vars
  <2> QED BY <2>2, <2>3, <2>4
<1> QED BY <1>1, <1>2 DEF DatedInv, Dated, Yields

LEMMA DatedStep == TypeOK /\ DatedInv /\ [Next]_vars => DatedInv' /\ Yields
<1> SUFFICES ASSUME TypeOK, DatedInv, [Next]_vars PROVE DatedInv' /\ Yields
    OBVIOUS
<1>1. ASSUME NEW c \in Client, Call(c) \/ Handle(c) \/ Remote(c)
      PROVE  DatedInv' /\ Yields
    BY <1>1, DatedCall, DatedDecide, DatedExecute, DatedVerify DEF Handle
<1>2. CASE Late \/ SetWritesEnabled \/ Tick \/ ExternalEdit \/ Crash \/ UNCHANGED vars
    BY <1>2, DatedWorld
<1> QED BY <1>1, <1>2 DEF Next

(* However many requests overlap and whatever fails, a settled row changes *)
(* only under a request that read it before it was settled.                *)
THEOREM SettledRowsYield == Spec => SettledYieldsToStale
<1>1. Init => DatedInv
    BY DatedIdle DEF Init, DatedInv
<1>2. TypeOK /\ DatedInv /\ [Next]_vars => DatedInv' /\ [Yields]_vars
    BY DatedStep
<1>3. Spec => [][Yields]_vars
    BY <1>1, <1>2, TypeInit, TypeStep, PTL DEF Spec
<1> QED BY <1>3, DatedYields
=============================================================================
