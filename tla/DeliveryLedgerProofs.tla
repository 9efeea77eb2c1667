------------------------ MODULE DeliveryLedgerProofs ------------------------
(* Every step of the delivery action runtime is a step of WriteLedger or   *)
(* leaves the ledger alone, for every set of actions, callers and faults.  *)
EXTENDS DeliveryActionsProofs

LedgerStep == [Ledger!LedgerNext]_(Ledger!ledger)

(* What a may be told to be verified by.                                   *)
Known(a) == evidence[a] \/ a \in BlindActions

(* A request at rest in the ledger: no approval to spend, no write of its  *)
(* own on the way.                                                         *)
Resting(q) == q.pc # "claimed" /\ q.write # "flying"

(* A verdict in hand is as true as a row, a retried row is never saved as  *)
(* verified, and only a request that was sent has a write on the way.      *)
Judged(q) ==
    /\ q.pc = "judged" /\ q.verdict = "verified" => Known(q.id)
    /\ q.pc \in {"context", "observed"} /\ q.op = "retry" =>
         q.rec.status = "awaiting_approval"
    /\ q.write = "flying" => q.pc = "sent"

EvidenceInv ==
    /\ \A a \in Action : shown[a] => evidence[a]
    /\ \A a \in Action : store[a].status = "verified" => Known(a)
    /\ \A c \in Client : Judged(req[c])

Sayable(r, a) == Wrote(r, a) /\ (r.status = "verified" => Known(a))

-----------------------------------------------------------------------------
(* Counting callers                                                        *)

Claimants(a) == {c \in Client : Claimed(c, a)}
Senders(a) == {c \in Client : Flying(c, a)}

LEMMA BarsCount ==
    /\ PermitsBar = [a \in Action |-> Cardinality(Claimants(a))]
    /\ PermitsBar' = [a \in Action |-> Cardinality(Claimants(a))']
    /\ SendingBar = [a \in Action |-> late[a] + Cardinality(Senders(a))]
    /\ SendingBar' = [a \in Action |-> late'[a] + Cardinality(Senders(a))']
BY DEF PermitsBar, SendingBar, FlyingWrites, Claimants, Senders

LEMMA CallersAreFinite ==
    \A a \in Action : IsFiniteSet(Claimants(a)) /\ IsFiniteSet(Senders(a))
BY ClientAssumption, FS_Subset DEF Claimants, Senders

LEMMA CountTypes ==
    \A a \in Action : Cardinality(Claimants(a)) \in Nat
                      /\ Cardinality(Senders(a)) \in Nat
BY CallersAreFinite, FS_CardinalityType

(* Nobody but c moves.                                                     *)
LEMMA OthersStay ==
    ASSUME TypeOK, NEW c \in Client, NEW q, Become(c, q)
    PROVE  req'[c] = q /\ \A d \in Client \ {c} : req'[d] = req[d]
BY DEF TypeOK, Become

LEMMA PermitsStay ==
    ASSUME TypeOK, NEW c \in Client, NEW q, Become(c, q),
           req[c].pc # "claimed", q.pc # "claimed"
    PROVE  PermitsBar' = PermitsBar
<1>1. ASSUME NEW a \in Action PROVE Claimants(a)' = Claimants(a)
    BY OthersStay DEF Claimed, Claimants
<1> QED
    BY <1>1, BarsCount

LEMMA FlyingStay ==
    ASSUME TypeOK, NEW c \in Client, NEW q, Become(c, q),
           req[c].write # "flying", q.write # "flying"
    PROVE  \A a \in Action : Cardinality(Senders(a))' = Cardinality(Senders(a))
<1>1. ASSUME NEW a \in Action PROVE Senders(a)' = Senders(a)
    BY OthersStay DEF Flying, Senders
<1> QED
    BY <1>1

(* c takes an approval, or spends it.                                      *)
LEMMA PermitTaken ==
    ASSUME TypeOK, NEW c \in Client, NEW q, Become(c, q), q.id \in Action,
           req[c].pc # "claimed", q.pc = "claimed"
    PROVE  PermitsBar' = [PermitsBar EXCEPT ![q.id] = @ + 1]
<1>1. \A a \in Action \ {q.id} : Claimants(a)' = Claimants(a)
    BY OthersStay DEF Claimed, Claimants
<1>2. c \notin Claimants(q.id) /\ Claimants(q.id)' = Claimants(q.id) \cup {c}
    BY OthersStay DEF Claimed, Claimants
<1>3. Cardinality(Claimants(q.id))' = Cardinality(Claimants(q.id)) + 1
    BY <1>2, CallersAreFinite, FS_AddElement
<1> QED
    BY <1>1, <1>3, BarsCount

LEMMA PermitSpent ==
    ASSUME TypeOK, NEW c \in Client, NEW q, Become(c, q),
           NEW a \in Action, req[c].id = a,
           req[c].pc = "claimed", q.pc # "claimed"
    PROVE  /\ PermitsBar' = [PermitsBar EXCEPT ![a] = @ - 1]
           /\ PermitsBar[a] > 0
<1>1. \A b \in Action \ {a} : Claimants(b)' = Claimants(b)
    BY OthersStay DEF Claimed, Claimants
<1>2. c \in Claimants(a) /\ Claimants(a)' = Claimants(a) \ {c}
    BY OthersStay DEF Claimed, Claimants
<1>3. /\ Cardinality(Claimants(a) \ {c}) = Cardinality(Claimants(a)) - 1
      /\ Cardinality(Claimants(a)) # 0
    BY <1>2, CallersAreFinite, FS_RemoveElement, FS_EmptySet
<1>4. Cardinality(Claimants(a))' = Cardinality(Claimants(a)) - 1
    BY <1>2, <1>3
<1> QED
    BY <1>1, <1>3, <1>4, BarsCount, CountTypes

(* c's write leaves, or ends.                                              *)
LEMMA WriteLeaves ==
    ASSUME TypeOK, NEW c \in Client, NEW q, Become(c, q), q.id \in Action,
           req[c].write # "flying", q.write = "flying"
    PROVE  \A b \in Action : Cardinality(Senders(b))' =
             IF b = q.id THEN Cardinality(Senders(b)) + 1
                         ELSE Cardinality(Senders(b))
<1>1. \A b \in Action \ {q.id} : Senders(b)' = Senders(b)
    BY OthersStay DEF Flying, Senders
<1>2. c \notin Senders(q.id) /\ Senders(q.id)' = Senders(q.id) \cup {c}
    BY OthersStay DEF Flying, Senders
<1>3. Cardinality(Senders(q.id))' = Cardinality(Senders(q.id)) + 1
    BY <1>2, CallersAreFinite, FS_AddElement
<1> QED
    BY <1>1, <1>3

LEMMA WriteEnds ==
    ASSUME TypeOK, NEW c \in Client, NEW q, Become(c, q),
           NEW a \in Action, req[c].id = a,
           req[c].write = "flying", q.write # "flying"
    PROVE  /\ \A b \in Action : Cardinality(Senders(b))' =
                IF b = a THEN Cardinality(Senders(b)) - 1
                                 ELSE Cardinality(Senders(b))
           /\ Cardinality(Senders(a)) > 0
<1>1. \A b \in Action \ {a} : Senders(b)' = Senders(b)
    BY OthersStay DEF Flying, Senders
<1>2. c \in Senders(a) /\ Senders(a)' = Senders(a) \ {c}
    BY OthersStay DEF Flying, Senders
<1>3. /\ Cardinality(Senders(a) \ {c}) = Cardinality(Senders(a)) - 1
      /\ Cardinality(Senders(a)) # 0
    BY <1>2, CallersAreFinite, FS_RemoveElement, FS_EmptySet
<1>4. Cardinality(Senders(a))' = Cardinality(Senders(a)) - 1
    BY <1>2, <1>3
<1> QED
    BY <1>1, <1>3, <1>4, CountTypes

-----------------------------------------------------------------------------
(* Steps that the ledger sees as a row written, or not at all              *)

SeesNothing == UNCHANGED <<claims, late, landed, evidence, shown>>

LEMMA ToldSayable ==
    ASSUME NEW r \in Record, NEW a \in Action, Sayable(r, a)
    PROVE  ToldOf(r) \in Ledger!Entry /\ Ledger!True(a, ToldOf(r))
BY DEF ToldOf, Sayable, Wrote, Known, Ledger!Entry, Ledger!True

LEMMA ToldRow ==
    ASSUME TypeOK, NEW a \in Action, NEW r, Save(a, r)
    PROVE  ToldBar' = [ToldBar EXCEPT ![a] = ToldOf(r)]
BY DEF ToldBar, Save, TypeOK

(* A row that is saved tells no more than is so.                           *)
LEMMA RowTold ==
    ASSUME TypeOK, NEW a \in Action, NEW r \in Record, Save(a, r), Sayable(r, a)
    PROVE  Ledger!Tell(a)
BY ToldSayable, ToldRow DEF Ledger!Tell

LEMMA RestingStep ==
    ASSUME TypeOK, EvidenceInv, NEW c \in Client, NEW q, Become(c, q),
           Resting(req[c]), Resting(q), Judged(q), SeesNothing,
           \/ UNCHANGED store
           \/ /\ req[c].id \in Action
              /\ \E r \in Record : Save(req[c].id, r) /\ Sayable(r, req[c].id)
    PROVE  EvidenceInv' /\ LedgerStep
<1>1. PermitsBar' = PermitsBar /\ SendingBar' = SendingBar
    BY PermitsStay, FlyingStay, BarsCount DEF Resting, SeesNothing
<1>2. EvidenceInv'
  <2>1. \A a \in Action : Known(a)' = Known(a)
    BY DEF Known, SeesNothing
  <2>2. \A d \in Client : Judged(req[d])'
    BY OthersStay DEF Judged, EvidenceInv, Known, SeesNothing
  <2>3. \A a \in Action : store'[a].status = "verified" => Known(a)
    BY DEF EvidenceInv, Sayable, Save, TypeOK
  <2> QED
    BY <2>1, <2>2, <2>3 DEF EvidenceInv, SeesNothing
<1>3. CASE UNCHANGED store
  <2>1. ToldBar' = ToldBar
    BY <1>3 DEF ToldBar, ToldOf
  <2> QED
    BY <1>1, <1>2, <2>1 DEF LedgerStep, Ledger!ledger, SeesNothing
<1>4. CASE /\ req[c].id \in Action
           /\ \E r \in Record : Save(req[c].id, r) /\ Sayable(r, req[c].id)
  <2>1. Ledger!Tell(req[c].id)
    BY <1>4, RowTold
  <2>2. Ledger!Write(req[c].id)
    BY <1>1, <2>1 DEF Ledger!Write, SeesNothing
  <2> QED
    BY <1>2, <1>4, <2>2 DEF LedgerStep, Ledger!LedgerNext
<1> QED
    BY <1>3, <1>4

LEMMA ReturnStep ==
    ASSUME TypeOK, EvidenceInv, NEW c \in Client, Resting(req[c]),
           req[c].id \in Action,
           \/ Return(c)
           \/ \E r \in Record : SaveAndReturn(c, r) /\ Sayable(r, req[c].id)
    PROVE  EvidenceInv' /\ LedgerStep
<1>1. Become(c, Idle) /\ SeesNothing
    BY DEF Return, SaveAndReturn, Finish, remote, SeesNothing
<1>2. Resting(Idle) /\ Judged(Idle)
    BY DEF Resting, Judged, Idle, None
<1> QED
    BY <1>1, <1>2, RestingStep DEF Return, SaveAndReturn

LEMMA CallStep ==
    ASSUME TypeOK, EvidenceInv, NEW c \in Client, Call(c)
    PROVE  EvidenceInv' /\ LedgerStep
<1>1. PICK a \in Action : \/ CallPropose(c, a) \/ CallApprove(c, a)
                          \/ CallRetry(c, a)   \/ CallReject(c, a)
                          \/ CallResume(c, a)
    BY DEF Call
<1>2. req[c].pc = "idle" /\ SeesNothing /\ UNCHANGED store
    BY <1>1 DEF CallPropose, CallApprove, CallRetry, CallReject, CallResume,
                At, remote, SeesNothing
<1>3. Resting(req[c])
    BY <1>2 DEF EvidenceInv, Judged, Resting
<1>4. ASSUME NEW step \in {"loaded", "called"}, NEW op, NEW r,
             Begin(c, step, op, a, r)
      PROVE  EvidenceInv' /\ LedgerStep
  <2> DEFINE q == [Idle EXCEPT !.pc = step, !.op = op, !.id = a, !.rec = r,
                               !.since = rev, !.wasOn = writesEnabled]
  <2>1. Resting(q) /\ Judged(q) /\ Become(c, q)
    BY <1>4 DEF Resting, Judged, Idle, None, Begin
  <2> HIDE DEF q
  <2> QED
    BY <1>2, <1>3, <2>1, RestingStep
<1>5. CASE CallResume(c, a)
  <2> DEFINE q == [Idle EXCEPT !.pc = "loaded", !.op = "resume", !.id = a,
                     !.todo = [b \in Action |-> IF store[b].status \in InFlight
                                                THEN store[b] ELSE Absent]]
  <2>1. Resting(q) /\ Judged(q) /\ Become(c, q)
    BY <1>5 DEF Resting, Judged, Idle, None, CallResume
  <2> HIDE DEF q
  <2> QED
    BY <1>2, <1>3, <2>1, RestingStep
<1>6. CASE CallPropose(c, a) \/ CallApprove(c, a) \/ CallRetry(c, a) \/ CallReject(c, a)
  <2>1. \E step \in {"loaded", "called"}, op \in Operations : \E r :
          Begin(c, step, op, a, r)
    BY <1>6 DEF CallPropose, CallApprove, CallRetry, CallReject, Operations
  <2> QED
    BY <1>4, <2>1
<1> QED
    BY <1>1, <1>5, <1>6

LEMMA DecideStep ==
    ASSUME TypeOK, ExecutedInv, EvidenceInv, NEW c \in Client,
           \/ CheckProposal(c) \/ CheckApproval(c) \/ LoadRetry(c)
           \/ CheckRetry(c) \/ DoReject(c) \/ ReadRevision(c) \/ ReadThrows(c)
           \/ DecideProposal(c) \/ DecideRetry(c)
           \/ (DecideApproval(c) /\ Denied(c))
    PROVE  EvidenceInv' /\ LedgerStep
<1> DEFINE r == req[c].rec
           a == req[c].id
<1>1. /\ req[c] \in Request /\ r \in Record /\ a \in Action
      /\ req[c].pc \in {"called", "loaded", "context", "observed"}
    BY DEF TypeOK, Request, At, CheckProposal, CheckApproval, LoadRetry,
           CheckRetry, DoReject, ReadRevision, ReadThrows, DecideProposal,
           DecideApproval, DecideRetry
<1>2. Resting(req[c]) /\ Judged(req[c]) /\ Wrote(r, a)
    BY <1>1 DEF Resting, EvidenceInv, Judged, ExecutedInv
<1>3. ASSUME NEW r1 \in Record, r1.executedAt = r.executedAt,
             r1.status # "verified", SaveAndReturn(c, r1)
      PROVE  EvidenceInv' /\ LedgerStep
    BY <1>1, <1>2, <1>3, ReturnStep DEF Wrote, Sayable
<1>4. ASSUME NEW r1, EnterContext(c, r1),
             req[c].op = "retry" => r1.status = "awaiting_approval"
      PROVE  EvidenceInv' /\ LedgerStep
  <2> DEFINE q == [req[c] EXCEPT !.pc = "context", !.rec = r1,
                                 !.enabled = writesEnabled, !.now = clock]
  <2>1. Resting(q) /\ Judged(q)
    BY <1>1, <1>2, <1>4 DEF Resting, Judged, Request
  <2>2. Become(c, q) /\ UNCHANGED store /\ SeesNothing
    BY <1>4 DEF EnterContext, remote, SeesNothing
  <2> HIDE DEF q
  <2> QED
    BY <1>2, <2>1, <2>2, RestingStep
<1>5. /\ Failed(r, "expired") \in Record /\ Failed(r, "policy") \in Record
      /\ [r EXCEPT !.status = "rejected"] \in Record
      /\ [r EXCEPT !.status = "awaiting_approval"] \in Record
      /\ [r EXCEPT !.status = "stale", !.failure = "policy"] \in Record
    BY <1>1, RowType DEF FailureKinds, Statuses
<1>6. \A r1 \in {Failed(r, "expired"), Failed(r, "policy"),
                 [r EXCEPT !.status = "rejected"],
                 [r EXCEPT !.status = "awaiting_approval"],
                 [r EXCEPT !.status = "stale", !.failure = "policy"]} :
        r1.executedAt = r.executedAt /\ r1.status # "verified"
    BY <1>1 DEF Failed, Record
<1>7. CASE CheckProposal(c)
    BY <1>2, <1>1, <1>4, <1>7, ReturnStep DEF CheckProposal
<1>8. CASE CheckApproval(c) \/ DoReject(c)
    BY <1>1, <1>2, <1>3, <1>4, <1>5, <1>6, <1>8, ReturnStep
    DEF CheckApproval, DoReject
<1>9. CASE CheckRetry(c)
  <2>1. \A e : [r EXCEPT !.status = "awaiting_approval", !.failure = None,
                         !.expiresAt = e, !.predicates = TRUE].status
               = "awaiting_approval"
    BY <1>1 DEF Record
  <2>2. Return(c) \/ \E r1 : EnterContext(c, r1) /\ r1.status = "awaiting_approval"
    BY <1>9, <2>1 DEF CheckRetry
  <2> QED
    BY <1>1, <1>2, <1>4, <2>2, ReturnStep
<1>10. CASE LoadRetry(c)
  <2> DEFINE q == [req[c] EXCEPT !.pc = "loaded", !.rec = store[a]]
  <2>1. Resting(q) /\ Judged(q)
    BY <1>1, <1>2 DEF Resting, Judged, Request
  <2>2. Become(c, q) /\ UNCHANGED store /\ SeesNothing
    BY <1>10 DEF LoadRetry, remote, SeesNothing
  <2> HIDE DEF q
  <2> QED
    BY <1>2, <2>1, <2>2, RestingStep
<1>11. CASE ReadRevision(c)
  <2>1. PICK seen : Become(c, [req[c] EXCEPT !.pc = "observed", !.seen = seen])
    BY <1>11 DEF ReadRevision
  <2> DEFINE q == [req[c] EXCEPT !.pc = "observed", !.seen = seen]
  <2>2. Resting(q) /\ Judged(q)
    BY <1>1, <1>2, <1>11 DEF Resting, Judged, Request, ReadRevision, At
  <2>3. Become(c, q) /\ UNCHANGED store /\ SeesNothing
    BY <1>11, <2>1 DEF ReadRevision, remote, SeesNothing
  <2> HIDE DEF q
  <2> QED
    BY <1>2, <2>2, <2>3, RestingStep
<1>12. CASE ReadThrows(c)
    BY <1>1, <1>2, <1>12, ReturnStep DEF ReadThrows
<1>13. CASE DecideProposal(c) \/ (DecideApproval(c) /\ Denied(c))
    BY <1>1, <1>2, <1>3, <1>5, <1>6, <1>13, ReturnStep
    DEF DecideProposal, DecideApproval
<1>14. CASE DecideRetry(c)
  <2>1. r.status = "awaiting_approval"
    BY <1>2, <1>14 DEF DecideRetry, At, Judged
  <2> QED
    BY <1>1, <1>3, <1>5, <1>6, <1>14, <2>1 DEF DecideRetry
<1> QED
    BY <1>7, <1>8, <1>9, <1>10, <1>11, <1>12, <1>13, <1>14

-----------------------------------------------------------------------------
(* Steps that grant, start, land or lose a write                           *)

(* The invariant after a step of c that saves nothing verified.            *)
LEMMA EvidenceKept ==
    ASSUME TypeOK, EvidenceInv, NEW c \in Client, NEW q, Become(c, q), Judged(q),
           \A a \in Action : evidence[a] => evidence'[a],
           \A a \in Action : shown'[a] => evidence'[a],
           \A a \in Action : store'[a].status = "verified" => Known(a),
           \A d \in Client : req[d].pc = "judged" => req[d].id \in Action,
           q.pc # "judged"
    PROVE  EvidenceInv'
<1>1. \A a \in Action : Known(a) => Known(a)'
    BY DEF Known
<1>2. \A d \in Client : Judged(req[d])'
    BY <1>1, OthersStay DEF Judged, EvidenceInv
<1> QED
    BY <1>1, <1>2 DEF EvidenceInv

LEMMA JudgedHasAction ==
    ASSUME TypeOK
    PROVE  \A d \in Client : req[d].pc = "judged" => req[d].id \in Action
BY DEF TypeOK

LEMMA GrantStep ==
    ASSUME TypeOK, ExecutedInv, EvidenceInv, NEW c \in Client,
           DecideApproval(c), ~Denied(c)
    PROVE  EvidenceInv' /\ LedgerStep
<1> DEFINE r == req[c].rec
           a == req[c].id
           r1 == Executing(r, req[c].now)
           q == [req[c] EXCEPT !.pc = "claimed", !.rec = r1, !.enabled = FALSE]
<1>1. /\ req[c] \in Request /\ r \in Record /\ a \in Action
      /\ req[c].now \in Nat /\ req[c].pc = "observed"
    BY DEF TypeOK, Request, At, DecideApproval
<1>2. req[c].write # "flying" /\ Wrote(r, a)
    BY <1>1 DEF EvidenceInv, Judged, ExecutedInv
<1>3. /\ Save(a, r1) /\ Become(c, q)
      /\ claims' = [claims EXCEPT ![a] = @ + 1]
      /\ UNCHANGED <<late, landed, evidence, shown>>
    BY DEF DecideApproval, remote
<1>4. /\ r1 \in Record /\ r1.status = "executing" /\ r1.executedAt = r.executedAt
    BY <1>1, RowType DEF Executing, Record
<1> HIDE DEF r1
<1>5. /\ q.pc = "claimed" /\ q.id = a /\ q.write = req[c].write
    BY <1>1 DEF Request
<1> HIDE DEF q
<1>6. EvidenceInv'
  <2>1. \A b \in Action : store'[b].status = "verified" => Known(b)
    BY <1>3, <1>4 DEF Save, TypeOK, EvidenceInv
  <2>2. Judged(q)
    BY <1>2, <1>5 DEF Judged
  <2> QED
    BY <1>3, <1>5, <2>1, <2>2, EvidenceKept, JudgedHasAction DEF EvidenceInv
<1>7. PermitsBar' = [PermitsBar EXCEPT ![a] = @ + 1]
    BY <1>1, <1>3, <1>5, PermitTaken
<1>8. SendingBar' = SendingBar
    BY <1>2, <1>3, <1>5, FlyingStay, BarsCount
<1>9. Ledger!Tell(a)
    BY <1>1, <1>2, <1>3, <1>4, RowTold DEF Sayable, Wrote
<1>10. Ledger!Grant(a)
    BY <1>3, <1>7, <1>8, <1>9 DEF Ledger!Grant
<1> QED
    BY <1>1, <1>6, <1>10 DEF LedgerStep, Ledger!LedgerNext

LEMMA BeginStep ==
    ASSUME TypeOK, EvidenceInv, NEW c \in Client, Send(c)
    PROVE  EvidenceInv' /\ LedgerStep
<1> DEFINE a == req[c].id
           q == [req[c] EXCEPT !.pc = "sent", !.write = "flying"]
<1>1. req[c] \in Request /\ a \in Action /\ req[c].pc = "claimed"
    BY DEF TypeOK, At, Send
<1>2. req[c].write # "flying"
    BY <1>1 DEF EvidenceInv, Judged
<1>3. Become(c, q) /\ UNCHANGED <<store, claims, late, landed, evidence, shown>>
    BY DEF Send, remote
<1>4. q.pc = "sent" /\ q.id = a /\ q.write = "flying"
    BY <1>1 DEF Request
<1> HIDE DEF q
<1>5. EvidenceInv'
  <2>1. Judged(q)
    BY <1>4 DEF Judged
  <2> QED
    BY <1>3, <1>4, <2>1, EvidenceKept, JudgedHasAction DEF EvidenceInv
<1>6. /\ PermitsBar' = [PermitsBar EXCEPT ![a] = @ - 1]
      /\ PermitsBar[a] > 0
    BY <1>1, <1>3, <1>4, PermitSpent
<1>7. SendingBar' = [SendingBar EXCEPT ![a] = @ + 1]
  <2>1. \A b \in Action : Cardinality(Senders(b))' =
          IF b = a THEN Cardinality(Senders(b)) + 1 ELSE Cardinality(Senders(b))
    BY <1>1, <1>2, <1>3, <1>4, WriteLeaves
  <2> QED
    BY <1>1, <1>3, <2>1, BarsCount, CountTypes DEF TypeOK
<1>8. ToldBar' = ToldBar
    BY <1>3 DEF ToldBar, ToldOf
<1>9. Ledger!Begin(a)
    BY <1>3, <1>6, <1>7, <1>8 DEF Ledger!Begin
<1> QED
    BY <1>1, <1>5, <1>9 DEF LedgerStep, Ledger!LedgerNext

(* A write that lands is one the ledger has on its way.                    *)
LEMMA LandStep ==
    ASSUME TypeOK, NEW a \in Action, NEW late1, Land(a, late1),
           SendingBar' = [SendingBar EXCEPT ![a] = @ - 1], SendingBar[a] > 0,
           PermitsBar' = PermitsBar
    PROVE  /\ LedgerStep
           /\ \A b \in Action : evidence[b] => evidence'[b]
           /\ (\A b \in Action : shown[b] => evidence[b])
                => \A b \in Action : shown'[b] => evidence'[b]
<1>1. PICK effective \in BOOLEAN :
        /\ shown' = [shown EXCEPT ![a] = @ \/ effective]
        /\ evidence' = [evidence EXCEPT ![a] = @ \/ effective]
    BY DEF Land
<1>2. ToldBar' = ToldBar /\ landed' = [landed EXCEPT ![a] = @ + 1]
      /\ UNCHANGED claims
    BY DEF ToldBar, ToldOf, Land
<1>3. Ledger!Land(a)
    BY <1>1, <1>2 DEF Ledger!Land
<1>4. \A b \in Action : evidence[b] => evidence'[b]
    BY <1>1 DEF TypeOK
<1>5. (\A b \in Action : shown[b] => evidence[b])
        => \A b \in Action : shown'[b] => evidence'[b]
    BY <1>1 DEF TypeOK
<1> QED
    BY <1>3, <1>4, <1>5 DEF LedgerStep, Ledger!LedgerNext

LEMMA LoseStep ==
    ASSUME NEW a \in Action, SendingBar' = [SendingBar EXCEPT ![a] = @ - 1],
           SendingBar[a] > 0, PermitsBar' = PermitsBar,
           UNCHANGED <<store, claims, landed, evidence>>
    PROVE  LedgerStep
<1>1. ToldBar' = ToldBar
    BY DEF ToldBar, ToldOf
<1>2. Ledger!Lose(a)
    BY <1>1 DEF Ledger!Lose
<1> QED
    BY <1>2 DEF LedgerStep, Ledger!LedgerNext

LEMMA RemoteStep ==
    ASSUME TypeOK, EvidenceInv, NEW c \in Client, Remote(c)
    PROVE  EvidenceInv' /\ LedgerStep
<1>1. /\ req[c] \in Request /\ req[c].id \in Action /\ req[c].pc = "sent"
    BY DEF TypeOK, At, Remote, RemoteApplies, RemoteRefuses, LoseAnswer
<1>2. PICK a \in Action : a = req[c].id
    BY <1>1
<1>3. PICK w : /\ Become(c, [req[c] EXCEPT !.write = w])
               /\ w \in {"applied", "partial", "failed"}
               /\ RemoteApplies(c) \/ RemoteRefuses(c) => req[c].write = "flying"
    BY DEF Remote, RemoteApplies, RemoteRefuses, LoseAnswer
<1> DEFINE q == [req[c] EXCEPT !.write = w]
<1>4. q.pc = "sent" /\ q.id = a /\ q.write # "flying" /\ Become(c, q)
    BY <1>1, <1>2, <1>3 DEF Request
<1> HIDE DEF q
<1>5. PermitsBar' = PermitsBar /\ Judged(q)
    BY <1>1, <1>4, PermitsStay DEF Judged
<1>6. CASE req[c].write = "flying" /\ late' = late
  <2>1. /\ \A b \in Action : Cardinality(Senders(b))' =
             IF b = a THEN Cardinality(Senders(b)) - 1 ELSE Cardinality(Senders(b))
        /\ Cardinality(Senders(a)) > 0
    BY <1>2, <1>4, <1>6, WriteEnds
  <2>2. SendingBar' = [SendingBar EXCEPT ![a] = @ - 1] /\ SendingBar[a] > 0
    BY <1>6, <2>1, BarsCount, CountTypes DEF TypeOK
  <2>3. CASE RemoteApplies(c)
    <3>1. Land(a, late)
      BY <1>2, <2>3 DEF RemoteApplies
    <3>2. /\ LedgerStep /\ UNCHANGED store
          /\ \A b \in Action : evidence[b] => evidence'[b]
          /\ \A b \in Action : shown'[b] => evidence'[b]
      BY <1>5, <2>2, <3>1, LandStep DEF EvidenceInv, Land
    <3> QED
      BY <1>4, <1>5, <3>2, EvidenceKept, JudgedHasAction DEF EvidenceInv
  <2>4. CASE RemoteRefuses(c) \/ LoseAnswer(c)
    <3>1. UNCHANGED <<store, claims, landed, evidence, shown>>
      BY <2>4 DEF RemoteRefuses, LoseAnswer, remote
    <3>2. LedgerStep
      BY <1>5, <2>2, <3>1, LoseStep
    <3> QED
      BY <1>4, <1>5, <3>1, <3>2, EvidenceKept, JudgedHasAction DEF EvidenceInv
  <2> QED
    BY <2>3, <2>4 DEF Remote
<1>7. CASE LoseAnswer(c)
  <2>1. UNCHANGED <<store, claims, landed, evidence, shown>>
        /\ late' = [late EXCEPT ![a] = @ + Strand(c)]
    BY <1>2, <1>7 DEF LoseAnswer
  <2>2. SendingBar' = SendingBar
    <3>1. CASE req[c].write = "flying"
      <4>1. \A b \in Action : Cardinality(Senders(b))' =
              IF b = a THEN Cardinality(Senders(b)) - 1 ELSE Cardinality(Senders(b))
        BY <1>2, <1>4, <3>1, WriteEnds
      <4> QED
        BY <2>1, <3>1, <4>1, BarsCount, CountTypes DEF TypeOK, Strand
    <3>2. CASE req[c].write # "flying"
      BY <1>4, <2>1, <3>2, FlyingStay, BarsCount DEF TypeOK, Strand
    <3> QED
      BY <3>1, <3>2
  <2>3. ToldBar' = ToldBar
    BY <2>1 DEF ToldBar, ToldOf
  <2>4. LedgerStep
    BY <1>5, <2>1, <2>2, <2>3 DEF LedgerStep, Ledger!ledger
  <2> QED
    BY <1>4, <1>5, <2>1, <2>4, EvidenceKept, JudgedHasAction DEF EvidenceInv
<1>8. RemoteApplies(c) \/ RemoteRefuses(c) => late' = late
    BY DEF RemoteApplies, RemoteRefuses, Land, remote
<1> QED
    BY <1>3, <1>6, <1>7, <1>8 DEF Remote

LEMMA AnswerStep ==
    ASSUME TypeOK, ExecutedInv, EvidenceInv, NEW c \in Client,
           Answered(c) \/ CallbackThrows(c)
    PROVE  EvidenceInv' /\ LedgerStep
<1> DEFINE r == req[c].rec
           a == req[c].id
<1>1. /\ req[c] \in Request /\ r \in Record /\ a \in Action
      /\ req[c].now \in Nat /\ req[c].pc = "sent" /\ req[c].write # "flying"
    BY DEF TypeOK, Request, At, Answered, CallbackThrows
<1>2. Resting(req[c]) /\ Wrote(r, a)
    BY <1>1 DEF Resting, ExecutedInv
<1>3. CASE CallbackThrows(c)
    BY <1>1, <1>2, <1>3, ReturnStep DEF CallbackThrows
<1>4. CASE Answered(c) /\ req[c].write # "applied"
  <2>1. /\ Failed(r, "transport") \in Record
        /\ Failed(r, "transport").executedAt = r.executedAt
    BY <1>1, RowType, RowExecuted DEF FailureKinds
  <2>2. Failed(r, "transport").status = "failed"
    BY <1>1 DEF Failed, Record
  <2> QED
    BY <1>1, <1>2, <1>4, <2>1, <2>2, ReturnStep DEF Answered, Sayable, Wrote
<1>5. CASE Answered(c) /\ req[c].write = "applied"
  <2> DEFINE r1 == [r EXCEPT !.status = "verifying", !.executedAt = req[c].now,
                             !.resolved = (a \in Creations)]
             q == [Idle EXCEPT !.pc = "verifying", !.op = req[c].op,
                               !.id = a, !.rec = r1]
  <2>1. landed[a] > 0
    BY <1>1, <1>5 DEF ExecutedInv
  <2>2. Save(a, r1) /\ Become(c, q) /\ SeesNothing
    BY <1>5 DEF Answered, remote, SeesNothing
  <2>3. r1 \in Record /\ r1.status = "verifying"
    <3>1. (a \in Creations) \in BOOLEAN
      OBVIOUS
    <3>2. r1 \in Record
      BY <1>1, <3>1, RowType
    <3> QED
      BY <1>1, <3>2 DEF Record
  <2> HIDE DEF r1
  <2>4. Resting(q) /\ Judged(q) /\ Sayable(r1, a)
    BY <2>1, <2>3 DEF Resting, Judged, Sayable, Wrote, Idle, None
  <2> HIDE DEF q
  <2> QED
    BY <1>1, <1>2, <2>2, <2>3, <2>4, RestingStep
<1> QED
    BY <1>3, <1>4, <1>5

-----------------------------------------------------------------------------
(* Verification                                                            *)

(* What satisfies the verifier is an effect that was seen, or an absence.  *)
LEMMA SatisfiedIsKnown ==
    ASSUME EvidenceInv, NEW a \in Action, NEW r, NEW obs \in Observations(a, r),
           Judge(Condition(a), obs) = "satisfied"
    PROVE  Known(a)
<1>1. obs \in {"undefined", "present", "expected", "thrown"}
    BY DEF Observations, Sees
<1>2. shown[a] => Known(a)
    BY DEF EvidenceInv, Known
<1>3. CASE a \in Creations
  <2>1. Condition(a) = "exists"
    BY <1>3, ActionAssumption DEF Condition
  <2>2. obs \in {"present", "expected"}
    BY <1>1, <2>1 DEF Judge
  <2>3. obs = Sees(a)
    BY <2>2 DEF Observations
  <2> QED
    BY <1>2, <1>3, <2>2, <2>3, ActionAssumption DEF Sees
<1>4. CASE a \notin Creations /\ a \in Deletions
  <2>1. Condition(a) = "not_exists"
    BY <1>4 DEF Condition
  <2>2. obs \in {"undefined", "expected"}
    BY <1>1, <2>1 DEF Judge
  <2> QED
    BY <1>2, <1>4, <2>2 DEF Observations, Sees, Known, BlindActions
<1>5. CASE a \notin Creations /\ a \notin Deletions
  <2>1. Condition(a) = "field_eq"
    BY <1>5 DEF Condition
  <2>2. obs = "expected"
    BY <1>1, <2>1 DEF Judge
  <2> QED
    BY <1>2, <1>5, <2>2 DEF Observations, Sees
<1> QED
    BY <1>3, <1>4, <1>5

LEMMA VerifyStep ==
    ASSUME TypeOK, ExecutedInv, EvidenceInv, NEW c \in Client,
           ResumeNext(c) \/ VerifyAttempt(c) \/ WriteVerdict(c)
    PROVE  EvidenceInv' /\ LedgerStep
<1> DEFINE r == req[c].rec
           a == req[c].id
<1>1. /\ req[c] \in Request /\ r \in Record /\ a \in Action
      /\ req[c].pc \in {"loaded", "verifying", "judged"}
      /\ req[c].todo \in [Action -> Record]
    BY DEF TypeOK, Request, At, ResumeNext, VerifyAttempt, WriteVerdict
<1>2. Resting(req[c]) /\ Judged(req[c]) /\ Wrote(r, a)
    BY <1>1 DEF Resting, EvidenceInv, Judged, ExecutedInv
<1>3. CASE Return(c)
    BY <1>1, <1>2, <1>3, ReturnStep
<1>4. CASE ResumeNext(c) /\ ~Return(c)
  <2>1. PICK b \in Action :
          /\ Become(c, [req[c] EXCEPT !.pc = "verifying", !.id = b,
                                      !.rec = req[c].todo[b],
                                      !.todo = [@ EXCEPT ![b] = Absent]])
          /\ UNCHANGED <<store, writesEnabled, clock, claims, retries, remote>>
    BY <1>4 DEF ResumeNext
  <2> DEFINE q == [req[c] EXCEPT !.pc = "verifying", !.id = b,
                                 !.rec = req[c].todo[b],
                                 !.todo = [@ EXCEPT ![b] = Absent]]
  <2>2. Resting(q) /\ Judged(q)
    BY <1>1, <1>2 DEF Resting, Judged, Request
  <2>3. Become(c, q) /\ UNCHANGED store /\ SeesNothing
    BY <2>1 DEF remote, SeesNothing
  <2> HIDE DEF q
  <2> QED
    BY <1>2, <2>2, <2>3, RestingStep
<1>5. CASE VerifyAttempt(c)
  <2> DEFINE q(v) == [req[c] EXCEPT !.pc = "judged", !.verdict = v]
             again == [req[c] EXCEPT !.tries = Tried(@)]
  <2>1. req[c].pc = "verifying" /\ UNCHANGED store /\ SeesNothing
    BY <1>5 DEF VerifyAttempt, At, remote, SeesNothing
  <2>2. Resting(again) /\ Judged(again)
    BY <1>1, <1>2, <2>1 DEF Resting, Judged, Request
  <2>3. ASSUME NEW v, v = "verified" => Known(a), Become(c, q(v))
        PROVE  EvidenceInv' /\ LedgerStep
    <3>1. Resting(q(v)) /\ Judged(q(v))
      BY <1>1, <1>2, <2>1, <2>3 DEF Resting, Judged, Request
    <3> HIDE DEF q
    <3> QED
      BY <1>2, <2>1, <2>3, <3>1, RestingStep
  <2>4. \/ Become(c, again)
        \/ \E v : Become(c, q(v)) /\ (v = "verified" => Known(a))
    <3>1. PICK obs \in Observations(a, r) :
            \/ Judge(Condition(a), obs) = "satisfied" /\ Become(c, q("verified"))
            \/ Become(c, q("contradicted"))
            \/ Become(c, again) \/ Become(c, q("timeout"))
      BY <1>5 DEF VerifyAttempt
    <3>2. Judge(Condition(a), obs) = "satisfied" => Known(a)
      BY <1>1, SatisfiedIsKnown
    <3> HIDE DEF q, again
    <3> QED
      BY <3>1, <3>2
  <2> HIDE DEF q, again
  <2> QED
    BY <1>2, <2>1, <2>2, <2>3, <2>4, RestingStep
<1>6. CASE WriteVerdict(c)
  <2> DEFINE row == IF req[c].verdict = "verified"
                    THEN [r EXCEPT !.status = "verified"]
                    ELSE Failed(r, Unverified(c))
             q == IF req[c].op = "resume"
                  THEN [req[c] EXCEPT !.pc = "loaded", !.rec = Absent,
                                      !.tries = 0, !.verdict = None]
                  ELSE Idle
  <2>1. row \in Record /\ row.executedAt = r.executedAt
    BY <1>1, RowType, RowExecuted DEF Statuses, FailureKinds, Unverified
  <2>2. row.status = "verified" => Known(a)
    BY <1>1, <1>2, <1>6 DEF WriteVerdict, At, Judged, Failed, Record
  <2>3. Save(a, row) /\ Become(c, q) /\ SeesNothing
    BY <1>6 DEF WriteVerdict, Finish, remote, SeesNothing
  <2> HIDE DEF row
  <2>4. Sayable(row, a)
    BY <1>2, <2>1, <2>2 DEF Sayable, Wrote
  <2>5. Resting(q) /\ Judged(q)
    BY <1>1, <1>2 DEF Resting, Judged, Request, Idle, None
  <2> HIDE DEF q
  <2> QED
    BY <1>1, <1>2, <2>1, <2>3, <2>4, <2>5, RestingStep
<1> QED
    BY <1>3, <1>4, <1>5, <1>6

-----------------------------------------------------------------------------
(* The world around the runtime                                            *)

LEMMA LateStep ==
    ASSUME TypeOK, EvidenceInv, Late
    PROVE  EvidenceInv' /\ LedgerStep
<1>1. PICK a \in Action : LateLands(a) \/ LateDropped(a)
    BY DEF Late
<1>2. /\ UNCHANGED <<req, store>> /\ late' = [late EXCEPT ![a] = @ - 1]
      /\ late[a] > 0
    BY <1>1 DEF LateLands, LateDropped, Land
<1>3. \A b \in Action : /\ Claimants(b)' = Claimants(b)
                        /\ Senders(b)' = Senders(b)
    BY <1>2 DEF Claimants, Senders, Claimed, Flying
<1>4. /\ PermitsBar' = PermitsBar
      /\ SendingBar' = [SendingBar EXCEPT ![a] = @ - 1] /\ SendingBar[a] > 0
    BY <1>2, <1>3, BarsCount, CountTypes DEF TypeOK
<1>5. /\ LedgerStep
      /\ \A b \in Action : evidence[b] => evidence'[b]
      /\ \A b \in Action : shown'[b] => evidence'[b]
  <2>1. CASE LateLands(a)
    BY <1>4, <2>1, LandStep DEF LateLands, EvidenceInv
  <2>2. CASE LateDropped(a)
    <3>1. UNCHANGED <<store, claims, landed, evidence, shown>>
      BY <2>2 DEF LateDropped
    <3> QED
      BY <1>4, <3>1, LoseStep DEF EvidenceInv
  <2> QED
    BY <1>1, <2>1, <2>2
<1>6. EvidenceInv'
    BY <1>2, <1>5, JudgedHasAction DEF EvidenceInv, Judged, Known
<1> QED
    BY <1>5, <1>6

LEMMA WorldStep ==
    ASSUME TypeOK, EvidenceInv, SetWritesEnabled \/ Tick \/ ExternalEdit \/ Crash
    PROVE  EvidenceInv' /\ LedgerStep
<1>1. CASE SetWritesEnabled \/ Tick
  <2>1. SeesNothing /\ UNCHANGED store
    BY <1>1 DEF SetWritesEnabled, Tick, remote, SeesNothing
  <2>2. ASSUME NEW d \in Client
        PROVE  /\ req'[d].pc = req[d].pc /\ req'[d].id = req[d].id
               /\ req'[d].write = req[d].write /\ req'[d].rec = req[d].rec
               /\ req'[d].op = req[d].op /\ req'[d].verdict = req[d].verdict
    BY <1>1 DEF SetWritesEnabled, Tick, TypeOK, Request
  <2>3. \A b \in Action : /\ Claimants(b)' = Claimants(b)
                          /\ Senders(b)' = Senders(b)
    BY <2>2 DEF Claimants, Senders, Claimed, Flying
  <2>4. /\ PermitsBar' = PermitsBar /\ SendingBar' = SendingBar
        /\ ToldBar' = ToldBar
    BY <2>1, <2>3, BarsCount DEF SeesNothing, ToldBar, ToldOf
  <2>5. EvidenceInv'
    BY <2>1, <2>2 DEF EvidenceInv, Judged, Known, SeesNothing
  <2> QED
    BY <2>1, <2>4, <2>5 DEF LedgerStep, Ledger!ledger, SeesNothing
<1>2. CASE ExternalEdit
  <2>1. PICK a \in Action, s \in BOOLEAN :
          /\ shown' = [shown EXCEPT ![a] = s]
          /\ evidence' = [evidence EXCEPT ![a] = @ \/ s]
    BY <1>2 DEF ExternalEdit
  <2>2. UNCHANGED <<store, req, claims, late, landed>>
    BY <1>2 DEF ExternalEdit
  <2>3. \A b \in Action : /\ Claimants(b)' = Claimants(b)
                          /\ Senders(b)' = Senders(b)
    BY <2>2 DEF Claimants, Senders, Claimed, Flying
  <2>4. /\ PermitsBar' = PermitsBar /\ SendingBar' = SendingBar
        /\ ToldBar' = ToldBar
    BY <2>2, <2>3, BarsCount DEF ToldBar, ToldOf
  <2>5. EvidenceInv'
    BY <2>1, <2>2, JudgedHasAction DEF EvidenceInv, Judged, Known, TypeOK
  <2>6. CASE s
    <3>1. evidence' = [evidence EXCEPT ![a] = TRUE]
      BY <2>1, <2>6
    <3>2. Ledger!Appear(a)
      BY <2>2, <2>4, <3>1 DEF Ledger!Appear
    <3> QED
      BY <2>5, <3>2 DEF LedgerStep, Ledger!LedgerNext
  <2>7. CASE ~s
    <3>1. evidence' = evidence
      BY <2>1, <2>7 DEF TypeOK
    <3> QED
      BY <2>2, <2>4, <2>5, <3>1 DEF LedgerStep, Ledger!ledger
  <2> QED
    BY <2>6, <2>7
<1>3. CASE Crash
  <2>1. /\ req' = [d \in Client |-> Idle]
        /\ UNCHANGED <<store, claims, shown, landed, evidence>>
        /\ late' = [b \in Action |-> late[b] + Cardinality(Senders(b))]
    BY <1>3 DEF Crash, Senders
  <2>2. \A b \in Action : Claimants(b)' = {} /\ Senders(b)' = {}
    BY <2>1 DEF Claimants, Senders, Claimed, Flying, Idle, None
  <2>3. \A b \in Action : Cardinality(Claimants(b))' = 0
                          /\ Cardinality(Senders(b))' = 0
    BY <2>2, FS_EmptySet
  <2>4. /\ PermitsBar' = [b \in Action |-> 0] /\ SendingBar' = SendingBar
        /\ ToldBar' = ToldBar
    BY <2>1, <2>3, BarsCount, CountTypes DEF TypeOK, ToldBar, ToldOf
  <2>5. Ledger!Forget
    BY <2>1, <2>4 DEF Ledger!Forget
  <2>6. EvidenceInv'
    BY <2>1 DEF EvidenceInv, Judged, Known, Idle, None
  <2> QED
    BY <2>5, <2>6 DEF LedgerStep, Ledger!LedgerNext
<1> QED
    BY <1>1, <1>2, <1>3

-----------------------------------------------------------------------------
(* The runtime implements the ledger                                       *)

LEMMA NextStep ==
    TypeOK /\ ExecutedInv /\ EvidenceInv /\ [Next]_vars => EvidenceInv' /\ LedgerStep
<1> SUFFICES ASSUME TypeOK, ExecutedInv, EvidenceInv, [Next]_vars
             PROVE  EvidenceInv' /\ LedgerStep
    OBVIOUS
<1>1. CASE UNCHANGED vars
  <2>1. UNCHANGED <<store, req, claims, late, landed, shown, evidence>>
    BY <1>1 DEF vars
  <2>2. \A b \in Action : /\ Claimants(b)' = Claimants(b)
                          /\ Senders(b)' = Senders(b)
    BY <2>1 DEF Claimants, Senders, Claimed, Flying
  <2>3. /\ PermitsBar' = PermitsBar /\ SendingBar' = SendingBar
        /\ ToldBar' = ToldBar
    BY <2>1, <2>2, BarsCount DEF ToldBar, ToldOf
  <2>4. EvidenceInv'
    BY <2>1 DEF EvidenceInv, Judged, Known
  <2> QED
    BY <2>1, <2>3, <2>4 DEF LedgerStep, Ledger!ledger
<1>2. CASE \E c \in Client : Call(c) \/ Handle(c) \/ Remote(c)
    BY <1>2, CallStep, DecideStep, GrantStep, BeginStep, RemoteStep, AnswerStep,
       VerifyStep DEF Handle
<1>3. CASE Late \/ SetWritesEnabled \/ Tick \/ ExternalEdit \/ Crash
    BY <1>3, LateStep, WorldStep
<1> QED
    BY <1>1, <1>2, <1>3 DEF Next

LEMMA InitStep == Init => ExecutedInv /\ EvidenceInv /\ Ledger!LedgerInit
<1> SUFFICES ASSUME Init PROVE ExecutedInv /\ EvidenceInv /\ Ledger!LedgerInit
    OBVIOUS
<1>1. ExecutedInv
    BY AbsentWrote DEF Init, ExecutedInv, Idle
<1>2. EvidenceInv
    BY DEF Init, EvidenceInv, Judged, Idle, Absent, None
<1>3. \A a \in Action : Claimants(a) = {} /\ Senders(a) = {}
    BY DEF Init, Claimants, Senders, Claimed, Flying, Idle, None
<1>4. PermitsBar = [a \in Action |-> 0] /\ SendingBar = [a \in Action |-> 0]
  <2>1. \A a \in Action : Cardinality(Claimants(a)) = 0 /\ Cardinality(Senders(a)) = 0
    BY <1>3, FS_EmptySet
  <2> QED
    BY <2>1, BarsCount DEF Init
<1>5. ToldBar = [a \in Action |-> Ledger!Blank]
    BY DEF Init, ToldBar, ToldOf, Absent, Ledger!Blank
<1>6. Ledger!LedgerInit
    BY <1>4, <1>5 DEF Init, Ledger!LedgerInit
<1> QED
    BY <1>1, <1>2, <1>6

(* The runtime is an implementation of the write ledger: each approval buys*)
(* at most one write, through every race, retry, crash and late answer.    *)
THEOREM LedgerImplemented == Spec => ImplementsLedger
BY InitStep, NextStep, ExecutedStep, TypeInit, TypeStep, PTL
DEF Spec, ImplementsLedger, LedgerStep, Ledger!LedgerSpec

(* No remote write without an approval of its own.                         *)
THEOREM WritesAreCharged == Spec => []WritesCharged
<1>1. TypeOK /\ Ledger!Charged => WritesCharged
  <2> SUFFICES ASSUME TypeOK, Ledger!Charged, NEW a \in Action
               PROVE  Outstanding(a) <= claims[a]
    BY DEF WritesCharged
  <2>1. PermitsBar[a] + SendingBar[a] + landed[a] <= claims[a]
    BY DEF Ledger!Charged
  <2>2. /\ Cardinality(Claimants(a)) + (late[a] + Cardinality(Senders(a))) + landed[a]
             <= claims[a]
        /\ FlyingWrites(a) = Cardinality(Senders(a))
    BY <2>1, BarsCount DEF FlyingWrites, Senders
  <2> QED
    BY <2>2, CountTypes DEF Outstanding, TypeOK
<1> QED
    BY <1>1, LedgerImplemented, Ledger!LedgerIsSound, TypeInit, TypeStep, PTL
    DEF Spec, ImplementsLedger

(* While no two requests overlap, a logical write reaches the remote once, *)
(* and once more at most for every retry: through lost answers, crashes,   *)
(* late writes and resumed verifications.                                  *)
THEOREM RetriesPay == Spec /\ []Alone => []RetriesPayForWrites
<1>1. TypeOK /\ WritesCharged /\ ClaimsPaid => RetriesPayForWrites
  <2> SUFFICES ASSUME TypeOK, WritesCharged, ClaimsPaid, NEW a \in Action
               PROVE  Outstanding(a) <= 1 + retries
    BY DEF RetriesPayForWrites
  <2>1. FlyingWrites(a) \in Nat
    BY CountTypes DEF FlyingWrites, Senders
  <2>2. Outstanding(a) \in Nat /\ claims[a] \in Nat /\ retries \in Nat
    BY <2>1 DEF Outstanding, TypeOK
  <2>3. Outstanding(a) <= claims[a] /\ claims[a] <= 1 + retries
    BY DEF WritesCharged, ClaimsPaid
  <2> QED
    BY <2>2, <2>3
<1> QED
    BY <1>1, WritesAreCharged, ClaimsArePaid, TypeInit, TypeStep, PTL DEF Spec

(* While no two requests overlap and nobody retries, a logical write       *)
(* reaches the remote at most once, whatever fails, crashes or comes late: *)
(* DoubleApproval needs its overlap.                                       *)
THEOREM WritesOnce ==
    ASSUME "retry" \notin Api
    PROVE  Spec /\ []Alone => []AtMostOnce
<1>1. [Next]_vars => retries' = retries
  <2>1. ASSUME NEW c \in Client, Call(c) PROVE retries' = retries
    BY <2>1 DEF Call, CallPropose, CallApprove, CallRetry, CallReject, CallResume
  <2>2. ASSUME NEW c \in Client, Handle(c) PROVE retries' = retries
    BY <2>2 DEF Handle, EnterContext, Return, SaveAndReturn, CheckProposal, CheckApproval,
                LoadRetry, CheckRetry, DoReject, ReadRevision, ReadThrows, DecideProposal,
                DecideApproval, DecideRetry, Send, Answered, CallbackThrows, ResumeNext,
                VerifyAttempt, WriteVerdict
  <2>3. ASSUME NEW c \in Client, Remote(c) PROVE retries' = retries
    BY <2>3 DEF Remote, RemoteApplies, RemoteRefuses, LoseAnswer, Land
  <2>4. CASE Late \/ SetWritesEnabled \/ Tick \/ ExternalEdit \/ Crash \/ UNCHANGED vars
    BY <2>4 DEF Late, LateLands, LateDropped, Land, SetWritesEnabled, Tick, ExternalEdit,
                Crash, vars
  <2> QED BY <2>1, <2>2, <2>3, <2>4 DEF Next
<1>2. retries = 0 /\ RetriesPayForWrites => AtMostOnce
    BY DEF RetriesPayForWrites, AtMostOnce
<1>3. Init => retries = 0
    BY DEF Init
<1>4. Spec => [](retries = 0)
  <2>1. retries = 0 /\ [Next]_vars => (retries = 0)'
    BY <1>1
  <2> QED BY <1>3, <2>1, PTL DEF Spec
<1> QED BY <1>2, <1>4, RetriesPay, PTL

(* A verified record is one whose effect the remote showed, under every    *)
(* fault and for every action, but for a deletion where reads may fail: of *)
(* that one UnreadDeletion shows that it is not so.                        *)
THEOREM VerifiedIsEvident == Spec => []VerifiedUnlessBlind
<1>1. EvidenceInv => VerifiedUnlessBlind
    BY DEF EvidenceInv, Known, VerifiedUnlessBlind
<1> QED
    BY <1>1, InitStep, NextStep, ExecutedStep, TypeInit, TypeStep, PTL DEF Spec
-----------------------------------------------------------------------------
(* Overlapping requests                                                    *)

(* Every write of an approvable row is due to propose, which finds the row *)
(* absent once, or to a retry.  Each then lets every caller that reads the *)
(* row before it is decided execute it: updateStatus compares nothing.     *)
Everyone == Cardinality(Client)

Approving(q, a) ==
    /\ q.pc \in {"loaded", "context", "observed"} /\ q.op \in {"approve", "stream"}
    /\ q.id = a /\ Approvable(q.rec)

Retriers(a) == {c \in Client : Retrying(req[c], a)}
Approvers(a) == {c \in Client : Approving(req[c], a)}

(* Rows that propose and retries under way may still lay open, and who may *)
(* execute the one that is open, or was.                                   *)
Due(a) == Cardinality(Retriers(a)) + One(store[a].status = "absent")
Chances(a) == IF Approvable(store[a]) THEN Everyone ELSE Cardinality(Approvers(a))

Afforded(a) ==
    claims[a] + Chances(a) + Everyone * Due(a) <= Everyone * (1 + retries)

Held(q) ==
    /\ q.pc \in {"context", "observed"} => q.op = "propose" \/ Approvable(q.rec)
    /\ q.pc \in {"claimed", "sent", "verifying", "judged"} => q.op # "retry"

OverlapInv == /\ \A a \in Action : Afforded(a)
              /\ \A c \in Client : Held(req[c])

LEMMA CountMoved ==
    ASSUME NEW S, NEW T, IsFiniteSet(S), IsFiniteSet(T), NEW c, S \ {c} = T \ {c}
    PROVE  /\ Cardinality(S) \in Nat /\ Cardinality(T) \in Nat
           /\ Cardinality(T) + One(c \in S) = Cardinality(S) + One(c \in T)
<1>1. Cardinality(S) \in Nat /\ Cardinality(T) \in Nat
    BY FS_CardinalityType
<1>2. CASE c \in S /\ c \notin T
    BY <1>1, <1>2, FS_RemoveElement, S \ {c} = T DEF One
<1>3. CASE c \notin S /\ c \in T
    BY <1>1, <1>3, FS_RemoveElement, T \ {c} = S DEF One
<1>4. CASE (c \in S) <=> (c \in T)
  <2>1. S = T
    BY <1>4
  <2> QED BY <1>1, <2>1 DEF One
<1> QED BY <1>1, <1>2, <1>3, <1>4

LEMMA CountsOfCallers ==
    ASSUME NEW a \in Action
    PROVE  /\ Everyone \in Nat
           /\ IsFiniteSet(Retriers(a)) /\ IsFiniteSet(Approvers(a))
           /\ Cardinality(Retriers(a)) \in Nat /\ Cardinality(Approvers(a)) \in Nat
           /\ Cardinality(Approvers(a)) <= Everyone
           /\ Due(a) \in Nat /\ Chances(a) \in Nat /\ Chances(a) <= Everyone
<1>1. Retriers(a) \subseteq Client /\ Approvers(a) \subseteq Client
    BY DEF Retriers, Approvers
<1>2. /\ IsFiniteSet(Retriers(a)) /\ IsFiniteSet(Approvers(a))
      /\ Cardinality(Approvers(a)) <= Everyone
    BY <1>1, ClientAssumption, FS_Subset DEF Everyone
<1>3. /\ Everyone \in Nat
      /\ Cardinality(Retriers(a)) \in Nat /\ Cardinality(Approvers(a)) \in Nat
    BY <1>2, ClientAssumption, FS_CardinalityType DEF Everyone
<1>4. One(store[a].status = "absent") \in Nat
    BY DEF One
<1> QED BY <1>2, <1>3, <1>4 DEF Due, Chances

LEMMA CountsNow ==
    ASSUME NEW a \in Action
    PROVE  /\ Due(a)' \in Nat /\ Chances(a)' \in Nat /\ Chances(a)' <= Everyone
           /\ IsFiniteSet(Retriers(a)') /\ IsFiniteSet(Approvers(a)')
           /\ Cardinality(Approvers(a)') \in Nat /\ Cardinality(Approvers(a)') <= Everyone
<1>1. Retriers(a)' \subseteq Client /\ Approvers(a)' \subseteq Client
    BY DEF Retriers, Approvers
<1>2. /\ IsFiniteSet(Retriers(a)') /\ IsFiniteSet(Approvers(a)')
      /\ Cardinality(Approvers(a)') <= Everyone
    BY <1>1, ClientAssumption, FS_Subset DEF Everyone
<1>3. /\ Everyone \in Nat
      /\ Cardinality(Retriers(a)') \in Nat /\ Cardinality(Approvers(a)') \in Nat
    BY <1>2, ClientAssumption, FS_CardinalityType DEF Everyone
<1>4. One(store'[a].status = "absent") \in Nat
    BY DEF One
<1>5. Due(a)' = Cardinality(Retriers(a)') + One(store'[a].status = "absent")
    BY DEF Due, One
<1>6. Chances(a)' = IF Approvable(store'[a]) THEN Everyone ELSE Cardinality(Approvers(a)')
    BY DEF Chances, Approvable, Everyone
<1> QED BY <1>2, <1>3, <1>4, <1>5, <1>6

LEMMA Scaled ==
    ASSUME NEW n \in Nat, NEW x \in Nat, NEW y \in Nat, NEW u \in Nat, NEW v \in Nat,
           x + y <= u + v
    PROVE  n * x + n * y <= n * u + n * v
<1>1. n * (x + y) = n * x + n * y /\ n * (u + v) = n * u + n * v
    OBVIOUS
<1> DEFINE d == (u + v) - (x + y)
<1>2. d \in Nat /\ u + v = (x + y) + d
    OBVIOUS
<1>3. n * (u + v) = n * (x + y) + n * d
    BY <1>2
<1>4. n * d \in Nat /\ n * x \in Nat /\ n * y \in Nat /\ n * u \in Nat /\ n * v \in Nat
      /\ n * (x + y) \in Nat
    BY <1>2
<1> HIDE DEF d
<1> QED BY <1>1, <1>3, <1>4

LEMMA Paid ==
    ASSUME NEW n \in Nat, NEW d \in Nat, NEW e \in Nat, NEW k \in Nat, NEW l \in Nat,
           NEW p \in Nat, NEW q \in Nat, NEW g \in Nat, NEW h \in Nat,
           p + g + n * d <= n * (1 + k), h <= n, e + k <= d + l,
           q + h <= p + g \/ (q = p /\ e + k + 1 <= d + l)
    PROVE  q + h + n * e <= n * (1 + l)
<1>1. /\ n * (1 + k) = n + n * k /\ n * (1 + l) = n + n * l /\ n * (k + 1) = n * k + n
      /\ n * d \in Nat /\ n * e \in Nat /\ n * k \in Nat /\ n * l \in Nat
    OBVIOUS
<1>2. CASE q + h <= p + g
  <2>1. n * e + n * k <= n * d + n * l
    BY Scaled
  <2> QED BY <1>1, <1>2, <2>1
<1>3. CASE q = p /\ e + (k + 1) <= d + l
  <2>1. n * e + n * (k + 1) <= n * d + n * l
    BY <1>3, Scaled, k + 1 \in Nat
  <2> QED BY <1>1, <1>3, <2>1
<1> QED BY <1>2, <1>3

(* What was afforded stays so while nothing more is due than retries paid, *)
(* and a row is laid open at the price of one that was due.                *)
LEMMA AffordedStays ==
    ASSUME TypeOK, TypeOK', NEW a \in Action, Afforded(a),
           Due(a)' + retries <= Due(a) + retries',
           \/ claims'[a] + Chances(a)' <= claims[a] + Chances(a)
           \/ claims'[a] = claims[a] /\ Due(a)' + retries + 1 <= Due(a) + retries'
    PROVE  Afforded(a)'
<1>1. /\ claims[a] \in Nat /\ claims'[a] \in Nat /\ retries \in Nat /\ retries' \in Nat
      /\ Everyone \in Nat /\ Due(a) \in Nat /\ Due(a)' \in Nat
      /\ Chances(a) \in Nat /\ Chances(a)' \in Nat /\ Chances(a)' <= Everyone
    BY CountsOfCallers, CountsNow DEF TypeOK
<1>2. claims[a] + Chances(a) + Everyone * Due(a) <= Everyone * (1 + retries)
    BY DEF Afforded
<1>3. Afforded(a)' <=> claims'[a] + Chances(a)' + Everyone * Due(a)'
                         <= Everyone * (1 + retries')
    BY DEF Afforded, Everyone
<1> QED BY <1>1, <1>2, <1>3, Paid

LEMMA CallersCounted ==
    ASSUME TypeOK, NEW c \in Client, NEW q, Become(c, q), NEW a \in Action
    PROVE  /\ Cardinality(Retriers(a)') + One(Retrying(req[c], a))
                = Cardinality(Retriers(a)) + One(Retrying(q, a))
           /\ Cardinality(Approvers(a)') + One(Approving(req[c], a))
                = Cardinality(Approvers(a)) + One(Approving(q, a))
<1>1. req'[c] = q /\ \A d \in Client \ {c} : req'[d] = req[d]
    BY OthersStay
<1>2. /\ Retriers(a)' = {d \in Client : Retrying(req'[d], a)}
      /\ Approvers(a)' = {d \in Client : Approving(req'[d], a)}
    BY DEF Retriers, Approvers, Retrying, Approving, Approvable
<1>3. /\ Retriers(a) \ {c} = Retriers(a)' \ {c}
      /\ Approvers(a) \ {c} = Approvers(a)' \ {c}
    BY <1>1, <1>2 DEF Retriers, Approvers
<1>4. /\ c \in Retriers(a) <=> Retrying(req[c], a)
      /\ c \in Retriers(a)' <=> Retrying(q, a)
      /\ c \in Approvers(a) <=> Approving(req[c], a)
      /\ c \in Approvers(a)' <=> Approving(q, a)
    BY <1>1, <1>2 DEF Retriers, Approvers
<1>5. /\ Cardinality(Retriers(a)') + One(c \in Retriers(a))
           = Cardinality(Retriers(a)) + One(c \in Retriers(a)')
      /\ Cardinality(Approvers(a)') + One(c \in Approvers(a))
           = Cardinality(Approvers(a)) + One(c \in Approvers(a)')
    BY <1>3, CountMoved, CountsOfCallers, CountsNow
<1> QED BY <1>4, <1>5 DEF One

LEMMA DueNow ==
    ASSUME NEW a \in Action
    PROVE  /\ Due(a)' = Cardinality(Retriers(a)') + One(store'[a].status = "absent")
           /\ Chances(a)' = IF Approvable(store'[a]) THEN Everyone
                                                     ELSE Cardinality(Approvers(a)')
BY DEF Due, Chances, One, Approvable, Everyone

LEMMA HeldNow ==
    ASSUME TypeOK, OverlapInv, NEW c \in Client, NEW q, Become(c, q), Held(q)
    PROVE  \A d \in Client : Held(req'[d])
BY OthersStay DEF OverlapInv

(* A step of c that moves its request on to q and writes no row.           *)
MovesOn(c, q) ==
    /\ Become(c, q) /\ Held(q)
    /\ UNCHANGED <<store, claims, retries>>
    /\ \A b \in Action : /\ Retrying(q, b) => Retrying(req[c], b)
                         /\ Approving(q, b) => Approving(req[c], b) \/ Approvable(store[b])

LEMMA MovingOn ==
    ASSUME TypeOK, TypeOK', OverlapInv, NEW c \in Client, NEW q, MovesOn(c, q)
    PROVE  OverlapInv'
<1>1. Become(c, q) /\ Held(q) /\ UNCHANGED <<store, claims, retries>>
    BY DEF MovesOn
<1>2. ASSUME NEW a \in Action PROVE Afforded(a)'
  <2>1. /\ Retrying(q, a) => Retrying(req[c], a)
        /\ Approving(q, a) => Approving(req[c], a) \/ Approvable(store[a])
    BY DEF MovesOn
  <2>2. One(Retrying(q, a)) <= One(Retrying(req[c], a))
    BY <2>1 DEF One
  <2>3. ~Approvable(store[a]) => One(Approving(q, a)) <= One(Approving(req[c], a))
    BY <2>1 DEF One
  <2>4. \A b : One(b) \in Nat
    BY DEF One
  <2>5. /\ Cardinality(Retriers(a)) \in Nat /\ Cardinality(Approvers(a)) \in Nat
        /\ Cardinality(Retriers(a)') \in Nat /\ Cardinality(Approvers(a)') \in Nat
    BY CountsOfCallers, CountsNow, CountMoved
  <2>6. Cardinality(Retriers(a)') <= Cardinality(Retriers(a))
    BY <1>1, <2>2, <2>4, <2>5, CallersCounted
  <2>7. ~Approvable(store[a]) => Cardinality(Approvers(a)') <= Cardinality(Approvers(a))
    BY <1>1, <2>3, <2>4, <2>5, CallersCounted
  <2>8. store'[a] = store[a]
    BY <1>1
  <2>9. Due(a)' <= Due(a)
    BY <2>4, <2>5, <2>6, <2>8, DueNow DEF Due
  <2>10. Chances(a)' <= Chances(a)
    BY <2>5, <2>7, <2>8, DueNow, CountsOfCallers DEF Chances
  <2>11. claims'[a] = claims[a] /\ claims[a] \in Nat /\ retries' = retries /\ retries \in Nat
    BY <1>1 DEF TypeOK
  <2>12. Afforded(a) /\ Due(a) \in Nat /\ Due(a)' \in Nat
         /\ Chances(a) \in Nat /\ Chances(a)' \in Nat
    BY CountsOfCallers, CountsNow DEF OverlapInv
  <2> QED BY <2>9, <2>10, <2>11, <2>12, AffordedStays
<1>3. \A d \in Client : Held(req'[d])
    BY <1>1, HeldNow
<1> QED BY <1>2, <1>3 DEF OverlapInv, Held, Approvable

(* A step of c that writes row r of a.  A row is laid open by a propose    *)
(* that found none or by a retry, and spent by a caller that holds it.     *)
WritesRow(c, q, a, r) ==
    /\ Become(c, q) /\ Held(q)
    /\ store' = [store EXCEPT ![a] = r] /\ r.status # "absent"
    /\ retries' = retries
    /\ \A b \in Action : ~Retrying(q, b) /\ ~Approving(q, b)
    /\ Approvable(r) => store[a].status = "absent" \/ Retrying(req[c], a)
    /\ \/ claims' = claims
       \/ /\ claims' = [claims EXCEPT ![a] = @ + 1]
          /\ Approving(req[c], a) /\ ~Approvable(r)

LEMMA WritingRow ==
    ASSUME TypeOK, TypeOK', OverlapInv, NEW c \in Client, NEW q, NEW a \in Action, NEW r,
           WritesRow(c, q, a, r)
    PROVE  OverlapInv'
<1>1. /\ Become(c, q) /\ Held(q)
      /\ store'[a] = r /\ \A b \in Action \ {a} : store'[b] = store[b]
      /\ retries' = retries /\ r.status # "absent"
      /\ \A b \in Action : ~Retrying(q, b) /\ ~Approving(q, b)
      /\ Approvable(r) => store[a].status = "absent" \/ Retrying(req[c], a)
    BY DEF WritesRow, TypeOK
<1>2. \A b : One(b) \in Nat
    BY DEF One
<1>3. ASSUME NEW b \in Action
      PROVE  /\ Cardinality(Retriers(b)) \in Nat /\ Cardinality(Approvers(b)) \in Nat
             /\ Cardinality(Retriers(b)') \in Nat /\ Cardinality(Approvers(b)') \in Nat
             /\ Cardinality(Retriers(b)') + One(Retrying(req[c], b)) = Cardinality(Retriers(b))
             /\ Cardinality(Approvers(b)') + One(Approving(req[c], b)) = Cardinality(Approvers(b))
             /\ claims[b] \in Nat /\ retries \in Nat
             /\ Afforded(b) /\ Due(b) \in Nat /\ Due(b)' \in Nat
             /\ Chances(b) \in Nat /\ Chances(b)' \in Nat
             /\ Cardinality(Approvers(b)) <= Everyone /\ Everyone \in Nat
  <2>1. One(Retrying(q, b)) = 0 /\ One(Approving(q, b)) = 0
    BY <1>1 DEF One
  <2>2. /\ Cardinality(Retriers(b)) \in Nat /\ Cardinality(Approvers(b)) \in Nat
        /\ Cardinality(Retriers(b)') \in Nat /\ Cardinality(Approvers(b)') \in Nat
    BY CountsOfCallers, CountsNow, CountMoved
  <2>3. /\ Cardinality(Retriers(b)') + One(Retrying(req[c], b)) = Cardinality(Retriers(b))
        /\ Cardinality(Approvers(b)') + One(Approving(req[c], b)) = Cardinality(Approvers(b))
    BY <1>1, <2>1, <2>2, CallersCounted
  <2> QED BY <2>2, <2>3, CountsOfCallers, CountsNow DEF OverlapInv, TypeOK
<1>4. ASSUME NEW b \in Action \ {a} PROVE Afforded(b)'
  <2>1. store'[b] = store[b] /\ claims'[b] = claims[b]
    BY <1>1 DEF WritesRow, TypeOK
  <2>2. Due(b)' <= Due(b)
    BY <1>2, <1>3, <2>1, DueNow DEF Due
  <2>3. Chances(b)' <= Chances(b)
    BY <1>2, <1>3, <2>1, DueNow DEF Chances
  <2> QED BY <1>1, <1>3, <2>1, <2>2, <2>3, AffordedStays
<1>5. CASE Approvable(r)
  <2>1. claims'[a] = claims[a]
    BY <1>5 DEF WritesRow
  <2>2. One(r.status = "absent") = 0
    BY <1>1 DEF One
  <2>3. One(store[a].status = "absent") + One(Retrying(req[c], a)) >= 1
    BY <1>1, <1>5 DEF One
  <2>4. Due(a)' + 1 <= Due(a)
    BY <1>1, <1>2, <1>3, <2>2, <2>3, DueNow DEF Due
  <2>5. Afforded(a)'
    BY <1>1, <1>3, <2>1, <2>4, AffordedStays
  <2> QED BY <1>1, <1>4, <2>5, HeldNow DEF OverlapInv, Held, Approvable
<1>6. CASE ~Approvable(r)
  <2>1. One(r.status = "absent") = 0
    BY <1>1 DEF One
  <2>2. Due(a)' <= Due(a)
    BY <1>1, <1>2, <1>3, <2>1, DueNow DEF Due
  <2>3. Chances(a)' = Cardinality(Approvers(a)')
    BY <1>1, <1>6, DueNow
  <2>4. Cardinality(Approvers(a)) <= Chances(a)
    BY <1>3 DEF Chances
  <2>5. claims'[a] + Chances(a)' <= claims[a] + Chances(a)
    <3>1. CASE claims' = claims
      BY <1>2, <1>3, <2>3, <2>4, <3>1
    <3>2. CASE claims' # claims
      <4>1. claims'[a] = claims[a] + 1 /\ One(Approving(req[c], a)) = 1
        BY <3>2 DEF WritesRow, TypeOK, One
      <4> QED BY <1>3, <2>3, <2>4, <4>1
    <3> QED BY <3>1, <3>2
  <2>6. Afforded(a)'
    BY <1>1, <1>3, <2>2, <2>5, AffordedStays
  <2> QED BY <1>1, <1>4, <2>6, HeldNow DEF OverlapInv, Held, Approvable
<1> QED BY <1>5, <1>6

LEMMA IdleRests == Held(Idle) /\ \A b : ~Retrying(Idle, b) /\ ~Approving(Idle, b)
BY DEF Idle, Held, Retrying, Approving

LEMMA OverlapReturn ==
    ASSUME TypeOK, TypeOK', OverlapInv, NEW c \in Client, Return(c)
    PROVE  OverlapInv'
<1>1. MovesOn(c, Idle)
    BY IdleRests DEF MovesOn, Return, Finish, remote
<1> QED BY <1>1, MovingOn

\* A handler that writes its row and returns: laid open only if it was due.
LEMMA OverlapSave ==
    ASSUME TypeOK, TypeOK', OverlapInv, NEW c \in Client, req[c].id \in Action,
           NEW r, SaveAndReturn(c, r), r.status # "absent",
           \/ ~Approvable(r)
           \/ store[req[c].id].status = "absent" \/ Retrying(req[c], req[c].id)
    PROVE  OverlapInv'
<1>1. /\ Become(c, Idle) /\ store' = [store EXCEPT ![req[c].id] = r]
      /\ claims' = claims /\ retries' = retries
    BY DEF SaveAndReturn, Finish, Save
<1>2. WritesRow(c, Idle, req[c].id, r)
    BY <1>1, IdleRests DEF WritesRow
<1> QED BY <1>2, WritingRow

LEMMA OverlapCall ==
    ASSUME TypeOK, TypeOK', OverlapInv, NEW c \in Client, Call(c)
    PROVE  OverlapInv'
<1>1. PICK a \in Action : \/ CallPropose(c, a) \/ CallApprove(c, a)
                          \/ CallRetry(c, a)   \/ CallReject(c, a)
                          \/ CallResume(c, a)
    BY DEF Call
<1>2. UNCHANGED <<store, claims>> /\ req[c].pc = "idle"
    BY <1>1 DEF CallPropose, CallApprove, CallRetry, CallReject, CallResume, At
<1> DEFINE q(step, op, r) == [Idle EXCEPT !.pc = step, !.op = op, !.id = a, !.rec = r,
                                          !.since = rev, !.wasOn = writesEnabled]
<1>3. \A step, op, r : /\ q(step, op, r).pc = step /\ q(step, op, r).op = op
                       /\ q(step, op, r).id = a /\ q(step, op, r).rec = r
    BY DEF Idle
<1>4. \A step, op, r : Begin(c, step, op, a, r) => Become(c, q(step, op, r))
    BY DEF Begin
<1> HIDE DEF q
<1>5. CASE CallPropose(c, a)
  <2>1. PICK r : Begin(c, "loaded", "propose", a, r)
    BY <1>5 DEF CallPropose
  <2>2. retries' = retries
    BY <1>5 DEF CallPropose
  <2>3. MovesOn(c, q("loaded", "propose", r))
    BY <1>2, <1>3, <1>4, <2>1, <2>2 DEF MovesOn, Retrying, Approving, Held
  <2> QED BY <2>3, MovingOn
<1>6. CASE CallApprove(c, a) \/ CallReject(c, a)
  <2>1. PICK op \in {"approve", "stream", "reject"} : Begin(c, "loaded", op, a, store[a])
    BY <1>6 DEF CallApprove, CallReject
  <2>2. MovesOn(c, q("loaded", op, store[a]))
    BY <1>2, <1>3, <1>4, <1>6, <2>1
    DEF MovesOn, Retrying, Approving, Held, CallApprove, CallReject
  <2> QED BY <2>2, MovingOn
<1>7. CASE CallRetry(c, a)
  <2> DEFINE p == q("called", "retry", Absent)
  <2>1. Become(c, p) /\ retries' = retries + 1
    BY <1>4, <1>7 DEF CallRetry
  <2>2. /\ p.pc = "called" /\ p.op = "retry" /\ p.id = a
    BY <1>3
  <2> HIDE DEF p
  <2>3. Held(p) /\ \A b \in Action : ~Approving(p, b) /\ (Retrying(p, b) => b = a)
    BY <2>2 DEF Held, Approving, Retrying
  <2>4. ASSUME NEW b \in Action PROVE Afforded(b)'
    <3>1. \A t : One(t) \in {0, 1}
      BY DEF One
    <3>2. One(Approving(p, b)) = 0 /\ One(Retrying(p, b)) \in {0, 1}
      BY <2>3, <3>1 DEF One
    <3>3. /\ Cardinality(Retriers(b)) \in Nat /\ Cardinality(Approvers(b)) \in Nat
          /\ Cardinality(Retriers(b)') \in Nat /\ Cardinality(Approvers(b)') \in Nat
      BY CountsOfCallers, CountsNow, CountMoved
    <3>4. /\ Cardinality(Retriers(b)') <= Cardinality(Retriers(b)) + 1
          /\ Cardinality(Approvers(b)') <= Cardinality(Approvers(b))
      BY <2>1, <3>1, <3>2, <3>3, CallersCounted
    <3>5. Due(b)' <= Due(b) + 1
      BY <1>2, <3>1, <3>3, <3>4, DueNow DEF Due
    <3>6. Chances(b)' <= Chances(b)
      BY <1>2, <3>3, <3>4, DueNow, CountsOfCallers DEF Chances
    <3>7. /\ claims[b] \in Nat /\ claims'[b] = claims[b] /\ retries \in Nat
          /\ Afforded(b) /\ Due(b) \in Nat /\ Due(b)' \in Nat
          /\ Chances(b) \in Nat /\ Chances(b)' \in Nat
      BY <1>2, CountsOfCallers, CountsNow DEF OverlapInv, TypeOK
    <3> QED BY <2>1, <3>5, <3>6, <3>7, AffordedStays
  <2> QED BY <2>1, <2>3, <2>4, HeldNow DEF OverlapInv, Held, Approvable
<1>8. CASE CallResume(c, a)
  <2>1. PICK todo : Become(c, [Idle EXCEPT !.pc = "loaded", !.op = "resume", !.id = a,
                                           !.todo = todo])
    BY <1>8 DEF CallResume
  <2> DEFINE p == [Idle EXCEPT !.pc = "loaded", !.op = "resume", !.id = a, !.todo = todo]
  <2>2. p.pc = "loaded" /\ p.op = "resume" /\ Become(c, p)
    BY <2>1 DEF Idle
  <2> HIDE DEF p
  <2>3. MovesOn(c, p)
    BY <1>2, <1>8, <2>2 DEF MovesOn, Retrying, Approving, Held, CallResume
  <2> QED BY <2>3, MovingOn
<1> QED BY <1>1, <1>5, <1>6, <1>7, <1>8

LEMMA OverlapDecide ==
    ASSUME TypeOK, TypeOK', OverlapInv, NEW c \in Client,
           \/ CheckProposal(c) \/ CheckApproval(c) \/ LoadRetry(c)
           \/ CheckRetry(c) \/ DoReject(c) \/ ReadRevision(c) \/ ReadThrows(c)
           \/ DecideProposal(c) \/ DecideApproval(c) \/ DecideRetry(c)
    PROVE  OverlapInv'
<1> DEFINE r == req[c].rec
           a == req[c].id
<1>1. /\ req[c] \in Request /\ r \in Record /\ a \in Action
      /\ req[c].pc \in {"called", "loaded", "context", "observed"}
      /\ Held(req[c])
    BY DEF TypeOK, Request, At, CheckProposal, CheckApproval, LoadRetry, CheckRetry,
           DoReject, ReadRevision, ReadThrows, DecideProposal, DecideApproval,
           DecideRetry, OverlapInv
<1>2. ASSUME NEW r1, EnterContext(c, r1), At(c, "loaded"),
             req[c].op = "propose" \/ Approvable(r1),
             req[c].op \in {"approve", "stream"} => r1 = r
      PROVE  OverlapInv'
  <2> DEFINE q == [req[c] EXCEPT !.pc = "context", !.rec = r1,
                                 !.enabled = writesEnabled, !.now = clock]
  <2>1. q.pc = "context" /\ q.rec = r1 /\ q.op = req[c].op /\ q.id = a
    BY <1>1 DEF Request
  <2>2. Become(c, q) /\ UNCHANGED <<store, claims, retries>>
    BY <1>2 DEF EnterContext
  <2> HIDE DEF q
  <2>3. MovesOn(c, q)
    BY <1>1, <1>2, <2>1, <2>2 DEF MovesOn, Retrying, Approving, Held, At
  <2> QED BY <2>3, MovingOn
<1>3. CASE CheckProposal(c)
    BY <1>2, <1>3, OverlapReturn DEF CheckProposal
<1>4. CASE CheckApproval(c)
  <2>1. CASE SaveAndReturn(c, Failed(r, "expired"))
    <3>1. Failed(r, "expired").status = "failed"
      BY <1>1 DEF Failed, Record
    <3> QED BY <1>1, <2>1, <3>1, OverlapSave DEF Approvable
  <2>2. CASE Approvable(r) /\ EnterContext(c, r)
    BY <1>2, <1>4, <2>2 DEF CheckApproval
  <2> QED BY <1>4, <2>1, <2>2, OverlapReturn DEF CheckApproval
<1>5. CASE LoadRetry(c)
  <2> DEFINE q == [req[c] EXCEPT !.pc = "loaded", !.rec = store[a]]
  <2>1. q.pc = "loaded" /\ q.rec = store[a] /\ q.op = req[c].op /\ q.id = a
    BY <1>1 DEF Request
  <2>2. Become(c, q) /\ UNCHANGED <<store, claims, retries>>
    BY <1>5 DEF LoadRetry
  <2> HIDE DEF q
  <2>3. MovesOn(c, q)
    BY <1>1, <2>1, <2>2 DEF MovesOn, Retrying, Approving, Held
  <2> QED BY <2>3, MovingOn
<1>6. CASE CheckRetry(c)
  <2>1. CASE ~Return(c)
    <3>1. PICK e \in Expiries :
            EnterContext(c, [r EXCEPT !.status = "awaiting_approval", !.failure = None,
                                      !.expiresAt = e, !.predicates = TRUE])
      BY <1>6, <2>1 DEF CheckRetry
    <3> DEFINE r1 == [r EXCEPT !.status = "awaiting_approval", !.failure = None,
                               !.expiresAt = e, !.predicates = TRUE]
    <3>2. Approvable(r1) /\ EnterContext(c, r1)
      BY <1>1, <3>1 DEF Record, Approvable
    <3> HIDE DEF r1
    <3>3. req[c].op = "retry" /\ At(c, "loaded")
      BY <1>6 DEF CheckRetry
    <3> QED BY <1>2, <3>2, <3>3
  <2> QED BY <2>1, OverlapReturn
<1>7. CASE DoReject(c)
  <2>1. [r EXCEPT !.status = "rejected"].status = "rejected"
    BY <1>1 DEF Record
  <2>2. CASE SaveAndReturn(c, [r EXCEPT !.status = "rejected"])
    BY <1>1, <2>1, <2>2, OverlapSave DEF Approvable
  <2> QED BY <1>7, <2>2, OverlapReturn DEF DoReject
<1>8. CASE ReadRevision(c)
  <2>1. PICK seen : Become(c, [req[c] EXCEPT !.pc = "observed", !.seen = seen])
    BY <1>8 DEF ReadRevision
  <2> DEFINE q == [req[c] EXCEPT !.pc = "observed", !.seen = seen]
  <2>2. q.pc = "observed" /\ q.rec = r /\ q.op = req[c].op /\ q.id = a /\ Become(c, q)
    BY <1>1, <2>1 DEF Request
  <2> HIDE DEF q
  <2>3. req[c].pc = "context" /\ UNCHANGED <<store, claims, retries>>
    BY <1>8 DEF ReadRevision, At
  <2>4. MovesOn(c, q)
    BY <1>1, <2>2, <2>3 DEF MovesOn, Retrying, Approving, Held
  <2> QED BY <2>4, MovingOn
<1>9. CASE ReadThrows(c)
    BY <1>9, OverlapReturn DEF ReadThrows
<1>10. CASE DecideProposal(c)
  <2> DEFINE r1 == Failed(r, "policy")
             r2 == [r EXCEPT !.status = "awaiting_approval"]
  <2>1. r1.status = "failed" /\ r2.status = "awaiting_approval"
    BY <1>1 DEF Failed, Record
  <2>2. ASSUME NEW row \in {r1, r2}, store[a].status = "absent", SaveAndReturn(c, row)
        PROVE  OverlapInv'
    <3>1. row.status # "absent"
      BY <2>1, <2>2
    <3> HIDE DEF r1, r2
    <3> QED BY <1>1, <2>2, <3>1, OverlapSave
  <2> QED BY <1>10, <2>2, OverlapReturn DEF DecideProposal
<1>11. CASE DecideRetry(c)
  <2> DEFINE r1 == Failed(r, "policy")
  <2>1. r1.status = "failed" /\ r.status = "awaiting_approval"
    BY <1>1, <1>11 DEF Failed, Record, Held, Approvable, DecideRetry, At
  <2>2. Retrying(req[c], a)
    BY <1>11 DEF DecideRetry, At, Retrying
  <2>3. ASSUME NEW row \in {r1, r}, SaveAndReturn(c, row) PROVE OverlapInv'
    <3>1. row.status # "absent"
      BY <2>1, <2>3
    <3> HIDE DEF r1
    <3> QED BY <1>1, <2>2, <2>3, <3>1, OverlapSave
  <2> QED BY <1>11, <2>3 DEF DecideRetry
<1>12. CASE DecideApproval(c)
  <2>1. CASE Denied(c)
    <3> DEFINE r1 == [r EXCEPT !.status = "stale", !.failure = "policy"]
    <3>1. r1.status = "stale" /\ SaveAndReturn(c, r1)
      BY <1>1, <1>12, <2>1 DEF DecideApproval, Record
    <3> HIDE DEF r1
    <3> QED BY <1>1, <3>1, OverlapSave DEF Approvable
  <2>2. CASE ~Denied(c)
    <3> DEFINE r1 == Executing(r, req[c].now)
               q == [req[c] EXCEPT !.pc = "claimed", !.rec = r1, !.enabled = FALSE]
    <3>1. /\ Save(a, r1) /\ Become(c, q)
          /\ claims' = [claims EXCEPT ![a] = @ + 1] /\ retries' = retries
      BY <1>12, <2>2 DEF DecideApproval
    <3>2. r1.status = "executing" /\ q.pc = "claimed" /\ q.op = req[c].op
      BY <1>1 DEF Executing, Record, Request
    <3> HIDE DEF r1, q
    <3>3. Approving(req[c], a) /\ req[c].op # "retry"
      BY <1>1, <1>12 DEF DecideApproval, At, Held, Approving
    <3>4. WritesRow(c, q, a, r1)
      BY <3>1, <3>2, <3>3 DEF WritesRow, Save, Held, Retrying, Approving, Approvable
    <3> QED BY <1>1, <3>4, WritingRow
  <2> QED BY <2>1, <2>2
<1> QED BY <1>3, <1>4, <1>5, <1>6, <1>7, <1>8, <1>9, <1>10, <1>11, <1>12

LEMMA OverlapExecute ==
    ASSUME TypeOK, TypeOK', OverlapInv, NEW c \in Client,
           \/ Send(c) \/ Answered(c) \/ CallbackThrows(c) \/ Remote(c)
    PROVE  OverlapInv'
<1> DEFINE r == req[c].rec
           a == req[c].id
<1>1. /\ req[c] \in Request /\ r \in Record /\ a \in Action
      /\ req[c].pc \in {"claimed", "sent"} /\ Held(req[c]) /\ req[c].op # "retry"
    BY DEF TypeOK, Request, At, Send, Answered, CallbackThrows, Remote, RemoteApplies,
           RemoteRefuses, LoseAnswer, OverlapInv, Held
<1>2. CASE Send(c) \/ Remote(c)
  <2> DEFINE sent(w) == [req[c] EXCEPT !.pc = "sent", !.write = w]
             told(w) == [req[c] EXCEPT !.write = w]
  <2>1. PICK q : /\ Become(c, q)
                 /\ \E w : q = sent(w) \/ q = told(w)
    <3>1. \E w : Become(c, sent(w)) \/ Become(c, told(w))
      BY <1>2 DEF Send, Remote, RemoteApplies, RemoteRefuses, LoseAnswer
    <3> HIDE DEF sent, told
    <3> QED BY <3>1
  <2>2. q.op = req[c].op /\ q.id = a /\ q.pc \in {"claimed", "sent"}
    BY <1>1, <2>1 DEF Request
  <2> HIDE DEF sent, told
  <2>3. UNCHANGED <<store, claims, retries>>
    BY <1>2 DEF Send, Remote, RemoteApplies, RemoteRefuses, LoseAnswer, Land
  <2>4. MovesOn(c, q)
    BY <1>1, <2>1, <2>2, <2>3 DEF MovesOn, Retrying, Approving, Held
  <2> QED BY <2>4, MovingOn
<1>3. CASE CallbackThrows(c)
    BY <1>3, OverlapReturn DEF CallbackThrows
<1>4. CASE Answered(c) /\ req[c].write # "applied"
  <2>1. Failed(r, "transport").status = "failed"
    BY <1>1 DEF Failed, Record
  <2> QED BY <1>1, <1>4, <2>1, OverlapSave DEF Answered, Approvable
<1>5. CASE Answered(c) /\ req[c].write = "applied"
  <2> DEFINE r1 == [r EXCEPT !.status = "verifying", !.executedAt = req[c].now,
                             !.resolved = (a \in Creations)]
             q == [Idle EXCEPT !.pc = "verifying", !.op = req[c].op, !.id = a, !.rec = r1]
  <2>1. /\ Save(a, r1) /\ Become(c, q) /\ UNCHANGED <<claims, retries>>
        /\ r1.status = "verifying" /\ q.pc = "verifying" /\ q.op = req[c].op
    BY <1>1, <1>5 DEF Answered, Record, Idle
  <2> HIDE DEF r1, q
  <2>2. WritesRow(c, q, a, r1)
    BY <1>1, <2>1 DEF WritesRow, Save, Held, Retrying, Approving, Approvable
  <2> QED BY <1>1, <2>2, WritingRow
<1> QED BY <1>2, <1>3, <1>4, <1>5

LEMMA OverlapVerify ==
    ASSUME TypeOK, TypeOK', OverlapInv, NEW c \in Client,
           ResumeNext(c) \/ VerifyAttempt(c) \/ WriteVerdict(c)
    PROVE  OverlapInv'
<1> DEFINE r == req[c].rec
           a == req[c].id
<1>1. /\ req[c] \in Request /\ r \in Record /\ a \in Action /\ Held(req[c])
    BY DEF TypeOK, Request, At, ResumeNext, VerifyAttempt, WriteVerdict, OverlapInv
<1>2. CASE Return(c)
    BY <1>2, OverlapReturn
<1>3. CASE ResumeNext(c) /\ ~Return(c)
  <2>1. PICK b \in Action :
          Become(c, [req[c] EXCEPT !.pc = "verifying", !.id = b,
                                   !.rec = req[c].todo[b], !.todo = [@ EXCEPT ![b] = Absent]])
    BY <1>3 DEF ResumeNext
  <2> DEFINE q == [req[c] EXCEPT !.pc = "verifying", !.id = b,
                                 !.rec = req[c].todo[b], !.todo = [@ EXCEPT ![b] = Absent]]
  <2>2. q.pc = "verifying" /\ q.op = req[c].op /\ Become(c, q)
    BY <1>1, <2>1 DEF Request
  <2> HIDE DEF q
  <2>3. req[c].op = "resume" /\ UNCHANGED <<store, claims, retries>>
    BY <1>3 DEF ResumeNext
  <2>4. MovesOn(c, q)
    BY <2>2, <2>3 DEF MovesOn, Retrying, Approving, Held
  <2> QED BY <2>4, MovingOn
<1>4. CASE VerifyAttempt(c)
  <2> DEFINE q(v) == [req[c] EXCEPT !.pc = "judged", !.verdict = v]
             again == [req[c] EXCEPT !.tries = Tried(@)]
  <2>1. PICK p : /\ Become(c, p)
                 /\ p = again \/ \E v : p = q(v)
    BY <1>4 DEF VerifyAttempt
  <2>2. req[c].pc = "verifying" /\ UNCHANGED <<store, claims, retries>>
    BY <1>4 DEF VerifyAttempt, At
  <2>3. p.pc \in {"verifying", "judged"} /\ p.op = req[c].op
    BY <1>1, <2>1, <2>2 DEF Request
  <2> HIDE DEF q, again
  <2>4. MovesOn(c, p)
    BY <1>1, <2>1, <2>2, <2>3 DEF MovesOn, Retrying, Approving, Held
  <2> QED BY <2>4, MovingOn
<1>5. CASE WriteVerdict(c)
  <2> DEFINE row == IF req[c].verdict = "verified"
                    THEN [r EXCEPT !.status = "verified"]
                    ELSE Failed(r, Unverified(c))
             next == [req[c] EXCEPT !.pc = "loaded", !.rec = Absent,
                                    !.tries = 0, !.verdict = None]
             q == IF req[c].op = "resume" THEN next ELSE Idle
  <2>1. row.status \in {"verified", "failed"}
    BY <1>1 DEF Failed, Record
  <2>2. req[c].op = "resume" => next.pc = "loaded" /\ next.op = "resume"
    BY <1>1 DEF Request
  <2>3. Held(q) /\ \A b \in Action : ~Retrying(q, b) /\ ~Approving(q, b)
    BY <2>2, IdleRests DEF Held, Retrying, Approving
  <2>4. Save(a, row) /\ Become(c, q) /\ UNCHANGED <<claims, retries>>
    BY <1>5 DEF WriteVerdict, Finish
  <2> HIDE DEF row, q
  <2>5. WritesRow(c, q, a, row)
    BY <2>1, <2>3, <2>4 DEF WritesRow, Save, Approvable
  <2> QED BY <1>1, <2>5, WritingRow
<1> QED BY <1>2, <1>3, <1>4, <1>5

\* Requests that hold what they held, or are gone.
LEMMA OverlapRests ==
    ASSUME TypeOK, TypeOK', OverlapInv, UNCHANGED <<store, claims, retries>>,
           \A c \in Client :
              \/ req'[c] = Idle
              \/ /\ req'[c].pc = req[c].pc /\ req'[c].op = req[c].op
                 /\ req'[c].id = req[c].id /\ req'[c].rec = req[c].rec
    PROVE  OverlapInv'
<1>1. ASSUME NEW c \in Client
      PROVE  /\ Held(req'[c])
             /\ \A a \in Action : /\ Retrying(req'[c], a) => Retrying(req[c], a)
                                  /\ Approving(req'[c], a) => Approving(req[c], a)
  <2>1. CASE req'[c] = Idle
    BY <2>1, IdleRests
  <2>2. CASE req'[c] # Idle
    BY <2>2 DEF Held, Retrying, Approving, OverlapInv
  <2> QED BY <2>1, <2>2
<1>2. ASSUME NEW a \in Action PROVE Afforded(a)'
  <2>1. /\ Retriers(a)' = {c \in Client : Retrying(req'[c], a)}
        /\ Approvers(a)' = {c \in Client : Approving(req'[c], a)}
    BY DEF Retriers, Approvers, Retrying, Approving, Approvable
  <2>2. Retriers(a)' \subseteq Retriers(a) /\ Approvers(a)' \subseteq Approvers(a)
    BY <1>1, <2>1 DEF Retriers, Approvers
  <2>3. /\ Cardinality(Retriers(a)') <= Cardinality(Retriers(a))
        /\ Cardinality(Approvers(a)') <= Cardinality(Approvers(a))
    BY <2>2, CountsOfCallers, FS_Subset
  <2>4. /\ Cardinality(Retriers(a)) \in Nat /\ Cardinality(Approvers(a)) \in Nat
        /\ Cardinality(Retriers(a)') \in Nat /\ Cardinality(Approvers(a)') \in Nat
    BY CountsOfCallers, CountsNow, CountMoved
  <2>5. Due(a)' <= Due(a)
    <3>1. One(store[a].status = "absent") \in Nat
      BY DEF One
    <3> QED BY <2>3, <2>4, <3>1, DueNow DEF Due
  <2>6. Chances(a)' <= Chances(a)
    BY <2>3, <2>4, DueNow, CountsOfCallers DEF Chances
  <2>7. /\ claims[a] \in Nat /\ claims'[a] = claims[a] /\ retries \in Nat
        /\ Afforded(a) /\ Due(a) \in Nat /\ Due(a)' \in Nat
        /\ Chances(a) \in Nat /\ Chances(a)' \in Nat /\ retries' = retries
    BY CountsOfCallers, CountsNow DEF OverlapInv, TypeOK
  <2> QED BY <2>5, <2>6, <2>7, AffordedStays
<1> QED BY <1>1, <1>2 DEF OverlapInv, Held, Approvable

LEMMA OverlapStep ==
    TypeOK /\ TypeOK' /\ OverlapInv /\ [Next]_vars => OverlapInv'
<1> SUFFICES ASSUME TypeOK, TypeOK', OverlapInv, [Next]_vars PROVE OverlapInv'
    OBVIOUS
<1>1. CASE UNCHANGED vars
    BY <1>1, OverlapRests DEF vars
<1>2. ASSUME NEW c \in Client, Call(c) \/ Handle(c) \/ Remote(c) PROVE OverlapInv'
    BY <1>2, OverlapCall, OverlapDecide, OverlapExecute, OverlapVerify DEF Handle
<1>3. CASE Late \/ SetWritesEnabled \/ Tick \/ ExternalEdit \/ Crash
  <2>1. UNCHANGED <<store, claims, retries>>
    BY <1>3 DEF Late, LateLands, LateDropped, Land, SetWritesEnabled, Tick, ExternalEdit,
                Crash
  <2>2. ASSUME NEW c \in Client
        PROVE  \/ req'[c] = Idle
               \/ /\ req'[c].pc = req[c].pc /\ req'[c].op = req[c].op
                  /\ req'[c].id = req[c].id /\ req'[c].rec = req[c].rec
    <3>1. CASE SetWritesEnabled
      BY <3>1 DEF SetWritesEnabled, TypeOK, Request
    <3>2. CASE Crash
      BY <3>2 DEF Crash
    <3>3. CASE Late \/ Tick \/ ExternalEdit
      BY <3>3 DEF Late, LateLands, LateDropped, Tick, ExternalEdit
    <3> QED BY <1>3, <3>1, <3>2, <3>3
  <2> QED BY <2>1, <2>2, OverlapRests
<1> QED BY <1>1, <1>2, <1>3 DEF Next

LEMMA OverlapInit == Init => OverlapInv
<1> SUFFICES ASSUME Init PROVE OverlapInv
    OBVIOUS
<1>1. \A c \in Client : Held(req[c])
    BY IdleRests DEF Init
<1>2. ASSUME NEW a \in Action PROVE Afforded(a)
  <2>1. Retriers(a) = {} /\ Approvers(a) = {}
    BY IdleRests DEF Init, Retriers, Approvers
  <2>2. Cardinality(Retriers(a)) = 0 /\ Cardinality(Approvers(a)) = 0
    BY <2>1, FS_EmptySet
  <2>3. /\ claims[a] = 0 /\ retries = 0 /\ store[a].status = "absent"
    BY DEF Init, Absent
  <2>4. One(store[a].status = "absent") = 1 /\ ~Approvable(store[a])
    BY <2>3 DEF One, Approvable
  <2>5. Due(a) = 1 /\ Chances(a) = 0
    BY <2>2, <2>4 DEF Due, Chances
  <2> QED BY <2>3, <2>5, CountsOfCallers DEF Afforded
<1> QED BY <1>1, <1>2 DEF OverlapInv

(* However requests overlap, a logical write reaches the remote at most as *)
(* often as there are callers for propose and for each retry: the daemon's *)
(* concurrency bounds what the lost updates of updateStatus can do.        *)
THEOREM OverlapsPay == Spec => []OverlapsPayForWrites
<1>1. TypeOK /\ WritesCharged /\ OverlapInv => OverlapsPayForWrites
  <2> SUFFICES ASSUME TypeOK, WritesCharged, OverlapInv, NEW a \in Action
               PROVE  Outstanding(a) <= Everyone * (1 + retries)
    BY DEF OverlapsPayForWrites, Everyone
  <2>1. FlyingWrites(a) \in Nat
    BY CountTypes DEF FlyingWrites, Senders
  <2>2. Outstanding(a) \in Nat /\ claims[a] \in Nat /\ retries \in Nat
    BY <2>1 DEF Outstanding, TypeOK
  <2>3. /\ Outstanding(a) <= claims[a]
        /\ claims[a] + Chances(a) + Everyone * Due(a) <= Everyone * (1 + retries)
    BY DEF WritesCharged, OverlapInv, Afforded
  <2>4. /\ Everyone \in Nat /\ Due(a) \in Nat /\ Chances(a) \in Nat
        /\ Everyone * Due(a) \in Nat /\ Everyone * (1 + retries) \in Nat
    BY <2>2, CountsOfCallers
  <2> QED BY <2>2, <2>3, <2>4
<1> QED
    BY <1>1, WritesAreCharged, OverlapInit, OverlapStep, TypeInit, TypeStep, PTL DEF Spec
=============================================================================
