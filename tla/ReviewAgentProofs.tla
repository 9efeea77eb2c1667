-------------------------- MODULE ReviewAgentProofs --------------------------
(* Theorems about ReviewAgent, for every set of replicas and of commits, every *)
(* pull request and every bound.                                               *)
EXTENDS ReviewAgent, FiniteSetTheorems, TLAPS

\* The iteration a worker reviews is one it has read.
Known(r) == pc[r] \in Requests \ {"iterations"}

\* While no two replicas work at once, the only worker is ahead of the history.
AloneAndAhead ==
    overlaps = 0 =>
        /\ \A q, r \in Replicas : Working(q) /\ Working(r) => q = r
        /\ \A r \in Replicas : Known(r) => last <= latest[r]

\* No iteration is recorded or reviewed before it exists.
Existing == last <= head /\ \A r \in Replicas : latest[r] <= head

OrderInv == TypeOK /\ Existing /\ AloneAndAhead
-----------------------------------------------------------------------------
\* The queue forgets down to its limit.
LEMMA TrimmedType ==
    ASSUME NEW s \in Seq(Commits), NEW c \in Commits, Len(s) <= DoneLimit
    PROVE  Trimmed(Append(s, c)) \in Seq(Commits) /\ Len(Trimmed(Append(s, c))) <= DoneLimit
<1>1. Append(s, c) \in Seq(Commits) /\ Len(Append(s, c)) = Len(s) + 1
    OBVIOUS
<1>2. CASE Len(Append(s, c)) > DoneLimit
    <2>1. Append(s, c) # <<>>
        BY <1>1
    <2>2. Tail(Append(s, c)) \in Seq(Commits) /\ Len(Tail(Append(s, c))) = Len(Append(s, c)) - 1
        BY <1>1, <2>1
    <2> QED BY <1>1, <1>2, <2>2, ReviewAgentAssumption DEF Trimmed
<1>3. CASE ~(Len(Append(s, c)) > DoneLimit)
    BY <1>1, <1>3, ReviewAgentAssumption DEF Trimmed
<1> QED BY <1>2, <1>3

\* The variables of other replicas and of the queue that a worker's end leaves typed.
LocalTypes ==
    /\ pc \in [Replicas -> Steps]
    /\ pending \in [Replicas -> Seq(Commits)]
    /\ done \in [Replicas -> Seq(Commits)]
    /\ job \in [Replicas -> Commits \cup {NoJob}]
    /\ latest \in [Replicas -> 0..MaxIteration]
    /\ decision \in [Replicas -> BOOLEAN]
    /\ \A r \in Replicas :
         /\ Len(done[r]) <= DoneLimit
         /\ Working(r) <=> job[r] # NoJob
         /\ Known(r) => latest[r] \in Iterations

RemoteTypes ==
    /\ head \in 0..MaxIteration
    /\ threads \in [Iterations -> Nat]
    /\ approved \subseteq Iterations
    /\ last \in 0..MaxIteration
    /\ recorded \subseteq Iterations
    /\ audited \subseteq Iterations

LEMMA TypeParts ==
    TypeOK <=> /\ LocalTypes /\ RemoteTypes
               /\ events \in Nat /\ faults \in Nat /\ overlaps \in Nat
               /\ announced \subseteq 0..MaxIteration
BY DEF TypeOK, LocalTypes, RemoteTypes, Known

LEMMA TypePartsNext ==
    TypeOK' <=> /\ LocalTypes' /\ RemoteTypes'
                /\ events' \in Nat /\ faults' \in Nat /\ overlaps' \in Nat
                /\ announced' \subseteq 0..MaxIteration
BY DEF TypeOK, LocalTypes, RemoteTypes, Known, Working

LEMMA CloseTypes ==
    ASSUME TypeOK, NEW r \in Replicas, Working(r), Close(r)
    PROVE  LocalTypes'
<1>1. job[r] \in Commits /\ done[r] \in Seq(Commits) /\ Len(done[r]) <= DoneLimit
    BY DEF TypeOK
<1>2. Trimmed(Append(done[r], job[r])) \in Seq(Commits)
      /\ Len(Trimmed(Append(done[r], job[r]))) <= DoneLimit
    BY <1>1, TrimmedType
<1>3. /\ pc' \in [Replicas -> Steps] /\ done' \in [Replicas -> Seq(Commits)]
      /\ job' \in [Replicas -> Commits \cup {NoJob}]
      /\ latest' \in [Replicas -> 0..MaxIteration] /\ decision' \in [Replicas -> BOOLEAN]
    BY <1>2, ReviewAgentAssumption DEF Close, Goto, TypeOK, Steps
<1>4. \A q \in Replicas : Len(done'[q]) <= DoneLimit
    BY <1>2 DEF Close, TypeOK
<1>5. \A q \in Replicas : Working(q)' <=> job'[q] # NoJob
    BY DEF Close, Goto, TypeOK, Working, Requests, Steps
<1>6. \A q \in Replicas : Known(q)' => latest'[q] \in Iterations
    BY DEF Close, Goto, TypeOK, Known, Requests, Steps
<1>7. pending' = pending
    BY DEF Close
<1> QED BY <1>3, <1>4, <1>5, <1>6, <1>7 DEF LocalTypes, TypeOK

LEMMA RemoteStep ==
    ASSUME TypeOK, NEW r \in Replicas, Unanswered(r)
    PROVE  RemoteTypes'
<1>1. CASE UNCHANGED remoteVars
    BY <1>1 DEF remoteVars, TypeOK, RemoteTypes
<1>2. ASSUME pc[r] \in {"posting", "approving", "recording"} PROVE latest[r] \in Iterations
    BY <1>2 DEF TypeOK, Requests
<1>3. CASE CreateThread(r)
    BY <1>2, <1>3 DEF CreateThread, TypeOK, RemoteTypes
<1>4. CASE ApprovePullRequest(r)
    BY <1>2, <1>4 DEF ApprovePullRequest, TypeOK, RemoteTypes
<1>5. CASE UpsertHistory(r)
    BY <1>2, <1>5 DEF UpsertHistory, TypeOK, RemoteTypes, Iterations
<1> QED BY <1>1, <1>3, <1>4, <1>5 DEF Unanswered

\* A worker goes on to another request of the same review.
LEMMA GoOnTypes ==
    ASSUME TypeOK, NEW r \in Replicas, Working(r), NEW s \in Requests, Goto(r, s),
           UNCHANGED queueVars,
           latest' \in [Replicas -> 0..MaxIteration], decision' \in [Replicas -> BOOLEAN],
           s # "iterations" => latest'[r] \in Iterations,
           \A q \in Replicas \ {r} : latest'[q] = latest[q]
    PROVE  LocalTypes'
<1>1. pc' \in [Replicas -> Steps] /\ pc'[r] = s /\ \A q \in Replicas \ {r} : pc'[q] = pc[q]
    BY DEF Goto, TypeOK, Steps
<1>2. \A q \in Replicas : Working(q)' <=> Working(q)
    BY <1>1 DEF Working
<1>3. \A q \in Replicas : Known(q)' => latest'[q] \in Iterations
    BY <1>1 DEF Known, TypeOK
<1> QED BY <1>1, <1>2, <1>3 DEF queueVars, LocalTypes, TypeOK

LEMMA TypeStep == ASSUME TypeOK, [Next]_vars PROVE TypeOK'
<1> USE ReviewAgentAssumption
<1>1. ASSUME UNCHANGED remoteVars PROVE RemoteTypes'
    BY <1>1 DEF remoteVars, RemoteTypes, TypeOK
<1>2. ASSUME NEW r \in Replicas, Take(r) PROVE TypeOK'
    <2>1. pending[r] \in Seq(Commits) /\ pending[r] # <<>>
        BY <1>2 DEF Take, TypeOK
    <2>2. Head(pending[r]) \in Commits /\ Tail(pending[r]) \in Seq(Commits)
        BY <2>1
    <2>3. /\ pc' \in [Replicas -> Steps] /\ job' \in [Replicas -> Commits \cup {NoJob}]
          /\ pending' \in [Replicas -> Seq(Commits)]
        BY <1>2, <2>2 DEF Take, Goto, TypeOK, Steps, Requests
    <2>4. \A q \in Replicas : (Working(q)' <=> job'[q] # NoJob)
        BY <1>2, <2>2 DEF Take, Goto, TypeOK, Working, Requests
    <2>5. \A q \in Replicas : Known(q)' => latest'[q] \in Iterations
        BY <1>2 DEF Take, Goto, TypeOK, Known, Requests
    <2>6. LocalTypes'
        BY <1>2, <2>3, <2>4, <2>5 DEF Take, LocalTypes, TypeOK
    <2>7. overlaps' \in Nat
        BY <1>2 DEF Take, TypeOK
    <2> QED BY <1>1, <1>2, <2>6, <2>7, TypeParts, TypePartsNext DEF Take
<1>3. ASSUME NEW r \in Replicas, ReadIterations(r) PROVE TypeOK'
    <2>1. Working(r)
        BY <1>3 DEF ReadIterations, Working, Requests
    <2>2. CASE Close(r)
        BY <1>1, <1>3, <2>1, <2>2, CloseTypes, TypeParts, TypePartsNext DEF ReadIterations, Close
    <2>3. CASE ~Close(r)
        <3>1. /\ head > 0 /\ latest' = [latest EXCEPT ![r] = head] /\ Goto(r, "history")
              /\ UNCHANGED <<queueVars, decision, events, overlaps, announced>>
            BY <1>3, <2>3 DEF ReadIterations
        <3>2. head \in Iterations
            BY <3>1 DEF TypeOK, Iterations
        <3>3. LocalTypes'
            BY <2>1, <3>1, <3>2, GoOnTypes DEF TypeOK, Requests, Iterations
        <3> QED BY <1>1, <1>3, <3>1, <3>3, TypeParts, TypePartsNext DEF ReadIterations
    <2> QED BY <2>2, <2>3
<1>4. ASSUME NEW r \in Replicas, ReadHistory(r) PROVE TypeOK'
    <2>1. Working(r) /\ latest[r] \in Iterations
        BY <1>4 DEF ReadHistory, Working, Requests, TypeOK
    <2>2. CASE Close(r)
        BY <1>1, <1>4, <2>1, <2>2, CloseTypes, TypeParts, TypePartsNext DEF ReadHistory, Close
    <2>3. CASE ~Close(r)
        <3>1. /\ Goto(r, "reviewing")
              /\ UNCHANGED <<queueVars, latest, decision, events, overlaps, announced>>
            BY <1>4, <2>3 DEF ReadHistory
        <3>2. LocalTypes'
            BY <2>1, <3>1, GoOnTypes DEF TypeOK, Requests
        <3> QED BY <1>1, <1>4, <3>1, <3>2, TypeParts, TypePartsNext DEF ReadHistory
    <2> QED BY <2>2, <2>3
<1>5. ASSUME NEW r \in Replicas, Review(r) PROVE TypeOK'
    <2>1. Working(r) /\ latest[r] \in Iterations
        BY <1>5 DEF Review, Working, Requests, TypeOK
    <2>2. PICK s \in Requests \ {"iterations"} :
             Goto(r, s) /\ decision' \in [Replicas -> BOOLEAN]
        BY <1>5 DEF Review, AfterThreads, Requests, TypeOK
    <2>3. LocalTypes'
        BY <1>5, <2>1, <2>2, GoOnTypes DEF Review, TypeOK
    <2> QED BY <1>1, <1>5, <2>3, TypeParts, TypePartsNext DEF Review
<1>6. ASSUME NEW r \in Replicas, PostSummary(r) PROVE TypeOK'
    <2>1. Working(r) /\ latest[r] \in Iterations
        BY <1>6 DEF PostSummary, CreateThread, Working, Requests, TypeOK
    <2>2. LocalTypes'
        BY <1>6, <2>1, GoOnTypes DEF PostSummary, TypeOK, Requests
    <2>3. RemoteTypes'
        BY <1>6, RemoteStep DEF PostSummary, Unanswered
    <2> QED BY <1>6, <2>2, <2>3, TypeParts, TypePartsNext DEF PostSummary
<1>7. ASSUME NEW r \in Replicas, PostFindings(r) PROVE TypeOK'
    <2>1. Working(r) /\ latest[r] \in Iterations
        BY <1>7 DEF PostFindings, Working, Requests, TypeOK
    <2>2. AfterThreads(decision[r]) \in Requests \ {"iterations"}
        BY DEF AfterThreads, Requests
    <2>3. LocalTypes'
        BY <1>7, <2>1, <2>2, GoOnTypes DEF PostFindings, TypeOK
    <2> QED BY <1>1, <1>7, <2>3, TypeParts, TypePartsNext DEF PostFindings
<1>8. ASSUME NEW r \in Replicas, Approve(r) PROVE TypeOK'
    <2>1. Working(r) /\ latest[r] \in Iterations
        BY <1>8 DEF Approve, Working, Requests, TypeOK
    <2>2. CASE UNCHANGED <<decision, faults>>
        <3>1. decision' \in [Replicas -> BOOLEAN] /\ faults' \in Nat
            BY <2>2 DEF TypeOK
        <3>2. LocalTypes'
            BY <1>8, <2>1, <3>1, GoOnTypes DEF Approve, TypeOK, Requests
        <3>3. RemoteTypes'
            BY <1>8, RemoteStep DEF Approve, Unanswered
        <3> QED BY <1>8, <3>1, <3>2, <3>3, TypeParts, TypePartsNext DEF Approve
    <2>3. CASE Fault /\ Unanswered(r) /\ decision' = [decision EXCEPT ![r] = FALSE]
        <3>1. decision' \in [Replicas -> BOOLEAN]
            BY <2>3 DEF TypeOK
        <3>2. faults' \in Nat
            BY <2>3 DEF Fault, TypeOK
        <3>3. LocalTypes'
            BY <1>8, <2>1, <3>1, GoOnTypes DEF Approve, TypeOK, Requests
        <3>4. RemoteTypes'
            BY <2>3, RemoteStep
        <3> QED BY <1>8, <3>2, <3>3, <3>4, TypeParts, TypePartsNext DEF Approve
    <2> QED BY <1>8, <2>2, <2>3 DEF Approve
<1>9. ASSUME NEW r \in Replicas, Record(r) PROVE TypeOK'
    <2>1. Working(r)
        BY <1>9 DEF Record, UpsertHistory, Working, Requests
    <2>2. LocalTypes' /\ RemoteTypes'
        BY <1>9, <2>1, CloseTypes, RemoteStep DEF Record, Unanswered
    <2> QED BY <1>9, <2>2, TypeParts, TypePartsNext DEF Record, Close
<1>10. ASSUME NEW r \in Replicas, Fails(r) PROVE TypeOK'
    <2>1. LocalTypes' /\ RemoteTypes'
        BY <1>10, CloseTypes, RemoteStep DEF Fails
    <2>2. faults' \in Nat
        BY <1>10 DEF Fails, Fault, TypeOK
    <2> QED BY <1>10, <2>1, <2>2, TypeParts, TypePartsNext DEF Fails, Close
<1>11. ASSUME NEW r \in Replicas, Crash(r) PROVE TypeOK'
    <2>1. RemoteTypes'
        BY <1>1, <1>11, RemoteStep DEF Crash
    <2>2. <<>> \in Seq(Commits) /\ Len(<<>>) = 0
        OBVIOUS
    <2>3. /\ pc' \in [Replicas -> Steps] /\ pending' \in [Replicas -> Seq(Commits)]
          /\ done' \in [Replicas -> Seq(Commits)]
          /\ job' \in [Replicas -> Commits \cup {NoJob}]
          /\ latest' \in [Replicas -> 0..MaxIteration] /\ decision' \in [Replicas -> BOOLEAN]
        BY <1>11, <2>2 DEF Crash, Goto, TypeOK, Steps
    <2>4. \A q \in Replicas :
            /\ Len(done'[q]) <= DoneLimit
            /\ Working(q)' <=> job'[q] # NoJob
            /\ Known(q)' => latest'[q] \in Iterations
        BY <1>11, <2>2 DEF Crash, Goto, TypeOK, Working, Known, Requests
    <2>5. faults' \in Nat
        BY <1>11 DEF Crash, Fault, TypeOK
    <2> QED BY <1>11, <2>1, <2>3, <2>4, <2>5, TypeParts, TypePartsNext DEF Crash, LocalTypes
<1>12. ASSUME NEW r \in Replicas, Boot(r) PROVE TypeOK'
    <2>1. pc' \in [Replicas -> Steps]
        BY <1>12 DEF Boot, Goto, TypeOK, Steps
    <2>2. \A q \in Replicas : (Working(q)' <=> Working(q)) /\ (Known(q)' <=> Known(q))
        BY <1>12 DEF Boot, Goto, TypeOK, Working, Known, Requests
    <2>3. LocalTypes'
        BY <1>12, <2>1, <2>2 DEF Boot, LocalTypes, TypeOK, queueVars, Known
    <2> QED BY <1>1, <1>12, <2>3, TypeParts, TypePartsNext DEF Boot
<1>13. ASSUME NEW r \in Replicas, NEW c \in Commits, Deliver(r, c) PROVE TypeOK'
    <2>1. pending' \in [Replicas -> Seq(Commits)]
        BY <1>13 DEF Deliver, TypeOK
    <2>2. LocalTypes'
        BY <1>13, <2>1 DEF Deliver, LocalTypes, TypeOK, Working, Known
    <2>3. /\ events' \in Nat /\ announced' \subseteq 0..MaxIteration
          /\ faults' = faults /\ overlaps' = overlaps
        BY <1>13 DEF Deliver, TypeOK
    <2>4. RemoteTypes'
        BY <1>1, <1>13 DEF Deliver
    <2> QED BY <2>2, <2>3, <2>4, TypeParts, TypePartsNext
<1>14. CASE Push
    <2>1. LocalTypes'
        BY <1>14 DEF Push, LocalTypes, TypeOK, queueVars, Working, Known
    <2>2. RemoteTypes'
        BY <1>14 DEF Push, RemoteTypes, TypeOK
    <2> QED BY <1>14, <2>1, <2>2, TypeParts, TypePartsNext DEF Push
<1>15. CASE UNCHANGED vars
    <2>1. LocalTypes'
        BY <1>15 DEF vars, LocalTypes, TypeOK, queueVars, Working, Known
    <2> QED BY <1>1, <1>15, <2>1, TypeParts, TypePartsNext DEF vars
<1> QED BY <1>2, <1>3, <1>4, <1>5, <1>6, <1>7, <1>8, <1>9, <1>10, <1>11, <1>12, <1>13,
           <1>14, <1>15 DEF Next, Work

LEMMA TypeInit == Init => TypeOK
<1> SUFFICES ASSUME Init PROVE TypeOK OBVIOUS
<1>1. <<>> \in Seq(Commits) /\ Len(<<>>) = 0
    OBVIOUS
<1> QED BY <1>1, ReviewAgentAssumption DEF Init, TypeOK, Steps, Working, Requests

\* The state of the service stays well formed: a worker has a key in flight exactly
\* while it awaits a request, knows its iteration after the first, and the queue
\* remembers no more keys than its limit.
THEOREM ReviewTypeCorrect == Spec => []TypeOK
<1>1. TypeOK /\ [Next]_vars => TypeOK'
    BY TypeStep
<1> QED BY <1>1, TypeInit, PTL DEF Spec

-----------------------------------------------------------------------------
\* What OrderInv looks at, of every replica but one.
OthersStay(r) ==
    /\ \A q \in Replicas \ {r} : pc'[q] = pc[q] /\ latest'[q] = latest[q]
    /\ head' = head /\ overlaps' = overlaps

\* A worker goes on with its review.
LEMMA OrderGoesOn ==
    ASSUME OrderInv, TypeOK', NEW r \in Replicas, Working(r), OthersStay(r), last' = last,
           \/ Known(r) /\ latest'[r] = latest[r]
           \/ latest'[r] = head
    PROVE  OrderInv'
<1>1. latest'[r] <= head /\ (overlaps = 0 => last <= latest'[r])
    BY DEF OrderInv, Existing, AloneAndAhead, TypeOK
<1>2. Existing'
    BY <1>1 DEF OrderInv, Existing, OthersStay
<1>3. \A q \in Replicas : Working(q)' => Working(q)
    BY DEF OthersStay, Working
<1>4. \A q \in Replicas \ {r} : Known(q)' => Known(q)
    BY DEF OthersStay, Known
<1>5. AloneAndAhead'
    BY <1>1, <1>3, <1>4 DEF OrderInv, AloneAndAhead, OthersStay
<1> QED BY <1>2, <1>5 DEF OrderInv

\* A replica stops working, after it may have written its iteration to the history.
LEMMA OrderEnds ==
    ASSUME OrderInv, TypeOK', NEW r \in Replicas, OthersStay(r), ~Working(r)',
           latest'[r] = 0, last' = last \/ (Known(r) /\ last' = latest[r])
    PROVE  OrderInv' /\ (last' >= last \/ overlaps > 0)
<1>1. last' <= head /\ 0 <= head /\ (overlaps = 0 => last <= last')
    BY DEF OrderInv, Existing, AloneAndAhead, TypeOK
<1>2. Existing'
    BY <1>1 DEF OrderInv, Existing, OthersStay
<1>3. ~Known(r)'
    BY DEF Known, Working
<1>4. \A q \in Replicas \ {r} : Working(q)' = Working(q) /\ (Known(q)' => Known(q) /\ Working(q))
    BY DEF OthersStay, Known, Working
<1>5. ASSUME overlaps = 0, NEW q \in Replicas, Known(q)' PROVE last' <= latest'[q]
    <2>1. q # r /\ Known(q) /\ Working(q) /\ latest'[q] = latest[q]
        BY <1>3, <1>4, <1>5 DEF OthersStay
    <2>2. ~Known(r)
        BY <1>5, <2>1 DEF OrderInv, AloneAndAhead, Known, Working
    <2> QED BY <1>5, <2>1, <2>2 DEF OrderInv, AloneAndAhead
<1>6. AloneAndAhead'
    BY <1>4, <1>5 DEF OrderInv, AloneAndAhead, OthersStay
<1>7. last' >= last \/ overlaps > 0
    BY <1>1 DEF OrderInv, TypeOK
<1> QED BY <1>2, <1>6, <1>7 DEF OrderInv

\* What a request that nobody saw the answer of did to the history.
LEMMA UnansweredHistory ==
    ASSUME NEW r \in Replicas, Unanswered(r)
    PROVE  head' = head /\ (last' = last \/ (pc[r] = "recording" /\ last' = latest[r]))
BY DEF Unanswered, CreateThread, ApprovePullRequest, UpsertHistory, remoteVars

LEMMA CloseEnds ==
    ASSUME TypeOK, NEW r \in Replicas, Close(r), head' = head
    PROVE  OthersStay(r) /\ ~Working(r)' /\ latest'[r] = 0
BY DEF Close, Goto, OthersStay, Working, Requests, TypeOK

LEMMA OrderStep ==
    ASSUME OrderInv, [Next]_vars
    PROVE  OrderInv' /\ (last' >= last \/ overlaps > 0)
<1>1. TypeOK /\ TypeOK'
    BY TypeStep DEF OrderInv
<1>2. last >= last
    BY <1>1 DEF TypeOK
<1>3. ASSUME NEW r \in Replicas, Take(r) PROVE OrderInv' /\ last' = last
    <2>1. last' = last /\ head' = head /\ latest' = latest
        BY <1>3 DEF Take, remoteVars
    <2>2. pc' = [pc EXCEPT ![r] = "iterations"]
        BY <1>3 DEF Take, Goto
    <2>3. overlaps' = 0 => overlaps = 0 /\ \A q \in Replicas \ {r} : ~Working(q)
        BY <1>1, <1>3 DEF Take, TypeOK
    <2>4. \A q \in Replicas \ {r} : Working(q)' => Working(q)
        BY <1>1, <2>2 DEF Working, TypeOK
    <2>5. \A q \in Replicas : Known(q)' => Known(q)
        BY <1>1, <2>2 DEF Known, TypeOK
    <2>6. AloneAndAhead'
        BY <2>1, <2>3, <2>4, <2>5 DEF OrderInv, AloneAndAhead
    <2> QED BY <1>1, <2>1, <2>6 DEF OrderInv, Existing
<1>4. ASSUME NEW r \in Replicas, Close(r), UNCHANGED remoteVars
      PROVE  OrderInv' /\ (last' >= last \/ overlaps > 0)
    BY <1>1, <1>4, CloseEnds, OrderEnds DEF remoteVars
<1>5. ASSUME NEW r \in Replicas, ReadIterations(r), ~Close(r) PROVE OrderInv' /\ last' = last
    BY <1>1, <1>5, OrderGoesOn
    DEF ReadIterations, Goto, OthersStay, remoteVars, Working, Requests, TypeOK
<1>6. ASSUME NEW r \in Replicas, ReadHistory(r), ~Close(r) PROVE OrderInv' /\ last' = last
    BY <1>1, <1>6, OrderGoesOn
    DEF ReadHistory, Goto, OthersStay, remoteVars, Working, Known, Requests, TypeOK
<1>7. ASSUME NEW r \in Replicas, Review(r) \/ PostSummary(r) \/ PostFindings(r) \/ Approve(r)
      PROVE  OrderInv' /\ last' = last
    <2>1. Working(r) /\ Known(r)
        BY <1>7 DEF Review, PostSummary, CreateThread, PostFindings, Approve, Working, Known,
                    Requests
    <2>2. latest' = latest /\ overlaps' = overlaps
        BY <1>7 DEF Review, PostSummary, PostFindings, Approve
    <2>3. \A q \in Replicas \ {r} : pc'[q] = pc[q]
        BY <1>1, <1>7 DEF Review, PostSummary, PostFindings, Approve, Goto, TypeOK
    <2>4. last' = last /\ head' = head
        BY <1>7, UnansweredHistory
        DEF Review, PostSummary, CreateThread, PostFindings, Approve, ApprovePullRequest,
            Unanswered, remoteVars
    <2> QED BY <1>1, <2>1, <2>2, <2>3, <2>4, OrderGoesOn DEF OthersStay
<1>8. ASSUME NEW r \in Replicas, Record(r) \/ Fails(r)
      PROVE  OrderInv' /\ (last' >= last \/ overlaps > 0)
    <2>1. Close(r) /\ Unanswered(r)
        BY <1>8 DEF Record, Fails, Unanswered
    <2>2. head' = head /\ (last' = last \/ (Known(r) /\ last' = latest[r]))
        BY <2>1, UnansweredHistory DEF Known, Requests
    <2> QED BY <1>1, <2>1, <2>2, CloseEnds, OrderEnds
<1>9. ASSUME NEW r \in Replicas, Crash(r)
      PROVE  OrderInv' /\ (last' >= last \/ overlaps > 0)
    <2>1. head' = head /\ (last' = last \/ (Known(r) /\ last' = latest[r]))
        BY <1>9, UnansweredHistory DEF Crash, remoteVars, Known, Requests
    <2>2. OthersStay(r) /\ ~Working(r)' /\ latest'[r] = 0
        BY <1>1, <1>9, <2>1 DEF Crash, Goto, OthersStay, Working, Requests, TypeOK
    <2> QED BY <1>1, <2>1, <2>2, OrderEnds
<1>10. ASSUME last' = last, head' >= head, latest' = latest, overlaps' = overlaps,
              \A q \in Replicas : Working(q)' = Working(q) /\ (Known(q)' => Known(q))
       PROVE  OrderInv'
    BY <1>1, <1>10 DEF OrderInv, Existing, AloneAndAhead, TypeOK
<1>11. ASSUME NEW r \in Replicas, Boot(r) PROVE OrderInv' /\ last' = last
    <2>1. \A q \in Replicas : Working(q)' = Working(q) /\ (Known(q)' => Known(q))
        BY <1>1, <1>11 DEF Boot, Goto, Working, Known, Requests, TypeOK
    <2> QED BY <1>1, <1>10, <1>11, <2>1 DEF Boot, remoteVars, TypeOK
<1>12. ASSUME NEW r \in Replicas, NEW c \in Commits, Deliver(r, c) PROVE OrderInv' /\ last' = last
    <2>1. \A q \in Replicas : Working(q)' = Working(q) /\ (Known(q)' => Known(q))
        BY <1>12 DEF Deliver, Working, Known
    <2> QED BY <1>1, <1>10, <1>12, <2>1 DEF Deliver, remoteVars, TypeOK
<1>13. ASSUME Push \/ UNCHANGED vars PROVE OrderInv' /\ last' = last
    <2>1. \A q \in Replicas : Working(q)' = Working(q) /\ (Known(q)' => Known(q))
        BY <1>13 DEF Push, vars, Working, Known
    <2> QED BY <1>1, <1>10, <1>13, <2>1 DEF Push, vars, remoteVars, TypeOK
<1>14. ASSUME NEW r \in Replicas, ReadIterations(r) \/ ReadHistory(r)
       PROVE  OrderInv' /\ (last' >= last \/ overlaps > 0)
    BY <1>2, <1>4, <1>5, <1>6, <1>14 DEF ReadIterations, ReadHistory
<1> QED BY <1>2, <1>3, <1>7, <1>8, <1>9, <1>11, <1>12, <1>13, <1>14 DEF Next, Work

LEMMA OrderInit == Init => OrderInv
<1> SUFFICES ASSUME Init PROVE OrderInv OBVIOUS
<1>1. \A r \in Replicas : ~Working(r) /\ ~Known(r)
    BY DEF Init, Working, Known, Requests
<1> QED BY <1>1, TypeInit DEF Init, OrderInv, Existing, AloneAndAhead

\* As long as no two replicas have worked at once, the history never goes back to
\* an older iteration: a worker that knows its iteration is ahead of the row it
\* will replace, and of nobody else's.
THEOREM HistoryIsMonotone == Spec => HistoryNeverGoesBack
<1>1. OrderInv /\ [Next]_vars => OrderInv' /\ [last' >= last \/ overlaps > 0]_vars
    BY OrderStep
<1> QED BY <1>1, OrderInit, PTL DEF Spec, HistoryNeverGoesBack
-----------------------------------------------------------------------------
\* A worker that votes has decided to approve; one that is about to record an approval
\* has voted for the iteration it reviewed.
AuditInv ==
    /\ \A r \in Replicas : pc[r] = "approving" => decision[r]
    /\ \A r \in Replicas : pc[r] = "recording" /\ decision[r] => latest[r] \in approved
    /\ AuditIsTrue

\* What one worker does for AuditInv, as long as votes stay and the row is true.
LEMMA AuditMoves ==
    ASSUME AuditInv, NEW r \in Replicas, AuditIsTrue', approved \subseteq approved',
           pc'[r] = "approving" => decision'[r],
           pc'[r] = "recording" /\ decision'[r] => latest'[r] \in approved',
           \A q \in Replicas \ {r} : /\ pc'[q] = pc[q] /\ latest'[q] = latest[q]
                                     /\ decision'[q] = decision[q]
    PROVE  AuditInv'
BY DEF AuditInv

\* A request that was answered, or was not, leaves a true row.
LEMMA AuditRequest ==
    ASSUME AuditInv, NEW r \in Replicas, Unanswered(r)
    PROVE  AuditIsTrue' /\ approved \subseteq approved'
<1>1. CASE CreateThread(r) \/ ApprovePullRequest(r) \/ UNCHANGED remoteVars
    BY <1>1 DEF CreateThread, ApprovePullRequest, remoteVars, AuditInv, AuditIsTrue
<1>2. CASE UpsertHistory(r)
    BY <1>2 DEF UpsertHistory, AuditInv, AuditIsTrue
<1> QED BY <1>1, <1>2 DEF Unanswered

LEMMA AuditStep == ASSUME TypeOK, AuditInv, [Next]_vars PROVE AuditInv'
<1>1. ASSUME NEW r \in Replicas, Take(r) \/ ReadIterations(r) \/ ReadHistory(r) \/ Boot(r)
      PROVE  AuditInv'
    <2>1. pc'[r] # "recording" /\ pc'[r] # "approving"
        BY <1>1 DEF Take, ReadIterations, ReadHistory, Boot, Close, Goto, TypeOK
    <2>2. \A q \in Replicas \ {r} : /\ pc'[q] = pc[q] /\ latest'[q] = latest[q]
                                    /\ decision'[q] = decision[q]
        BY <1>1 DEF Take, ReadIterations, ReadHistory, Boot, Close, Goto, TypeOK
    <2>3. UNCHANGED <<approved, audited, last>>
        BY <1>1 DEF Take, ReadIterations, ReadHistory, Boot, remoteVars
    <2> QED BY <2>1, <2>2, <2>3, AuditMoves DEF AuditInv, AuditIsTrue
<1>2. ASSUME NEW r \in Replicas, Review(r) PROVE AuditInv'
    <2>1. /\ pc'[r] = "approving" => decision'[r]
          /\ pc'[r] = "recording" => ~decision'[r]
        BY <1>2 DEF Review, AfterThreads, Goto, TypeOK
    <2>2. \A q \in Replicas \ {r} : /\ pc'[q] = pc[q] /\ latest'[q] = latest[q]
                                    /\ decision'[q] = decision[q]
        BY <1>2 DEF Review, Goto, TypeOK
    <2> QED BY <1>2, <2>1, <2>2, AuditMoves DEF Review, remoteVars, AuditInv, AuditIsTrue
<1>3. ASSUME NEW r \in Replicas, PostSummary(r) \/ PostFindings(r) PROVE AuditInv'
    <2>1. /\ pc'[r] = "approving" => decision'[r]
          /\ pc'[r] = "recording" => ~decision'[r]
        BY <1>3 DEF PostSummary, CreateThread, PostFindings, AfterThreads, Goto, TypeOK
    <2>2. /\ \A q \in Replicas \ {r} : pc'[q] = pc[q]
          /\ latest' = latest /\ decision' = decision
        BY <1>3 DEF PostSummary, PostFindings, Goto, TypeOK
    <2>3. UNCHANGED <<approved, audited, last>>
        BY <1>3 DEF PostSummary, CreateThread, PostFindings, remoteVars
    <2> QED BY <2>1, <2>2, <2>3, AuditMoves DEF AuditInv, AuditIsTrue
<1>4. ASSUME NEW r \in Replicas, Approve(r) PROVE AuditInv'
    <2>1. /\ pc[r] = "approving" /\ pc'[r] = "recording" /\ latest' = latest
          /\ \A q \in Replicas \ {r} : pc'[q] = pc[q]
        BY <1>4 DEF Approve, Goto, ApprovePullRequest, TypeOK
    <2>2. AuditIsTrue' /\ approved \subseteq approved'
        BY <1>4, AuditRequest DEF Approve, Unanswered
    <2>3. CASE decision' = [decision EXCEPT ![r] = FALSE]
        BY <2>1, <2>2, <2>3, AuditMoves DEF TypeOK
    <2>4. CASE ApprovePullRequest(r) /\ UNCHANGED decision
        <3>1. latest'[r] \in approved'
            BY <2>1, <2>4 DEF ApprovePullRequest
        <3> QED BY <2>1, <2>2, <2>4, <3>1, AuditMoves
    <2> QED BY <1>4, <2>3, <2>4 DEF Approve
<1>5. ASSUME NEW r \in Replicas, Record(r) \/ Fails(r) PROVE AuditInv'
    <2>1. AuditIsTrue' /\ approved \subseteq approved'
        BY <1>5, AuditRequest DEF Record, Fails, Unanswered
    <2>2. /\ pc'[r] = "idle"
          /\ \A q \in Replicas \ {r} : /\ pc'[q] = pc[q] /\ latest'[q] = latest[q]
                                       /\ decision'[q] = decision[q]
        BY <1>5 DEF Record, Fails, Close, Goto, TypeOK
    <2> QED BY <2>1, <2>2, AuditMoves
<1>6. ASSUME NEW r \in Replicas, Crash(r) PROVE AuditInv'
    <2>1. AuditIsTrue' /\ approved \subseteq approved'
        BY <1>6, AuditRequest DEF Crash, Unanswered
    <2>2. /\ pc'[r] = "off"
          /\ \A q \in Replicas \ {r} : /\ pc'[q] = pc[q] /\ latest'[q] = latest[q]
                                       /\ decision'[q] = decision[q]
        BY <1>6 DEF Crash, Goto, TypeOK
    <2> QED BY <2>1, <2>2, AuditMoves
<1>7. ASSUME NEW r \in Replicas, NEW c \in Commits, Deliver(r, c) PROVE AuditInv'
    BY <1>7 DEF Deliver, AuditInv, AuditIsTrue, remoteVars
<1>8. ASSUME Push \/ UNCHANGED vars PROVE AuditInv'
    BY <1>8 DEF Push, vars, AuditInv, AuditIsTrue, remoteVars, queueVars
<1> QED BY <1>1, <1>2, <1>3, <1>4, <1>5, <1>6, <1>7, <1>8 DEF Next, Work

\* The history claims an approval only of the iteration it is about and only if the
\* vote was cast, for any number of replicas and whatever fails, dies or overlaps.
THEOREM AuditsAreTrue == Spec => []AuditIsTrue
<1>1. Init => AuditInv
    BY DEF Init, AuditInv, AuditIsTrue
<1>2. TypeOK /\ AuditInv /\ [Next]_vars => TypeOK' /\ AuditInv'
    BY TypeStep, AuditStep
<1>3. AuditInv => AuditIsTrue
    BY DEF AuditInv
<1> QED BY <1>1, <1>2, <1>3, TypeInit, PTL DEF Spec
-----------------------------------------------------------------------------
\* Threads of an iteration are counted together with the reviews of it that are
\* to be expected without another fault or overlap: one for every worker that has
\* not got past posting to it ...
Pends(r, i) ==
    /\ Working(r)
    /\ ~(latest[r] = i /\ pc[r] \in {"inline", "approving", "recording"})

Open(i) == {r \in Replicas : Pends(r, i)}

\* ... and one if nobody works and the next worker may post to it,
Due(i) == last < i /\ \A r \in Replicas : ~Working(r)

\* but for one worker that the history row, or the iteration it has read, keeps
\* from posting to i, unless an older iteration is written over that row first.
Eased(r, i, row) ==
    \/ row >= i /\ (pc[r] = "iterations" \/ (Known(r) /\ latest[r] > i))
    \/ row = i /\ pc[r] = "history" /\ latest[r] = i

Relieved(i) == \E r \in Replicas : Eased(r, i, last)

One(b) == IF b THEN 1 ELSE 0

Charged(i) ==
    threads[i] + Cardinality(Open(i)) + One(Due(i))
      <= 1 + faults + overlaps + One(Relieved(i))

ChargeInv == \A i \in Iterations : IsFiniteSet(Open(i)) /\ Charged(i)

\* What Charged(i) sees of all replicas but r.
Others(r, i) == Open(i) \ {r}
Company(r) == \E q \in Replicas \ {r} : Working(q)
EasedThere(r, i, row) == \E q \in Replicas \ {r} : Eased(q, i, row)

LEMMA EasedThereFacts ==
    ASSUME NEW r \in Replicas, NEW i \in Iterations, NEW row \in Nat, EasedThere(r, i, row)
    PROVE  Company(r) /\ row >= i /\ EasedThere(r, i, i)
BY ReviewAgentAssumption DEF EasedThere, Eased, Company, Working, Known, Requests, Iterations

LEMMA CountOne ==
    ASSUME NEW r \in Replicas, NEW i, IsFiniteSet(Open(i))
    PROVE  /\ IsFiniteSet(Others(r, i)) /\ Cardinality(Others(r, i)) \in Nat
           /\ Cardinality(Open(i)) = Cardinality(Others(r, i)) + One(Pends(r, i))
<1>1. IsFiniteSet(Others(r, i)) /\ Cardinality(Others(r, i)) \in Nat
    BY FS_Subset, FS_CardinalityType DEF Others
<1>2. CASE Pends(r, i)
    <2>1. r \in Open(i)
        BY <1>2 DEF Open
    <2>2. Cardinality(Others(r, i)) = Cardinality(Open(i)) - 1
        BY <2>1, FS_RemoveElement DEF Others
    <2> QED BY <1>1, <1>2, <2>2, FS_CardinalityType DEF One
<1>3. CASE ~Pends(r, i)
    <2>1. Others(r, i) = Open(i)
        BY <1>3 DEF Open, Others
    <2> QED BY <1>1, <1>3, <2>1 DEF One
<1> QED BY <1>1, <1>2, <1>3

\* When only r moves, the others count as before.
LEMMA CountNext ==
    ASSUME NEW r \in Replicas, NEW i, IsFiniteSet(Open(i)),
           \A q \in Replicas \ {r} : pc'[q] = pc[q] /\ latest'[q] = latest[q]
    PROVE  /\ IsFiniteSet(Open(i)')
           /\ Cardinality(Open(i)') = Cardinality(Others(r, i)) + One(Pends(r, i)')
<1>1. IsFiniteSet(Others(r, i)) /\ Cardinality(Others(r, i)) \in Nat
    BY CountOne
<1>2. \A q \in Replicas \ {r} : Pends(q, i)' <=> Pends(q, i)
    BY DEF Pends, Working
<1>3. Open(i)' \ {r} = Others(r, i)
    BY <1>2 DEF Open, Others
<1>4. CASE Pends(r, i)'
    <2>1. Open(i)' = Others(r, i) \cup {r} /\ r \notin Others(r, i)
        BY <1>3, <1>4 DEF Open, Others
    <2>2. IsFiniteSet(Open(i)') /\ Cardinality(Open(i)') = Cardinality(Others(r, i)) + 1
        BY <1>1, <2>1, FS_AddElement
    <2> QED BY <1>4, <2>2 DEF One
<1>5. CASE ~Pends(r, i)'
    <2>1. Open(i)' = Others(r, i)
        BY <1>3, <1>5 DEF Open
    <2> QED BY <1>1, <1>5, <2>1 DEF One
<1> QED BY <1>4, <1>5

LEMMA OthersNext ==
    ASSUME NEW r \in Replicas, NEW i,
           \A q \in Replicas \ {r} : pc'[q] = pc[q] /\ latest'[q] = latest[q]
    PROVE  /\ Due(i)' <=> last' < i /\ ~Working(r)' /\ ~Company(r)
           /\ Relieved(i)'
                 <=> Eased(r, i, last)' \/ EasedThere(r, i, last')
<1>1. \A q \in Replicas \ {r} : (Working(q)' <=> Working(q)) /\ (Known(q)' <=> Known(q))
    BY DEF Working, Known
<1>2. Due(i)' <=> last' < i /\ ~Working(r)' /\ ~Company(r)
    BY <1>1 DEF Due, Company
<1>3. \A q \in Replicas \ {r} : Eased(q, i, last)' <=> Eased(q, i, last')
    BY <1>1 DEF Eased
<1> QED BY <1>2, <1>3 DEF EasedThere, Relieved

LEMMA OthersNow ==
    ASSUME NEW r \in Replicas, NEW i
    PROVE  /\ Due(i) <=> last < i /\ ~Working(r) /\ ~Company(r)
           /\ Relieved(i)
                 <=> Eased(r, i, last) \/ EasedThere(r, i, last)
BY DEF Due, Company, EasedThere, Relieved

\* r moves, at the cost of a fault or an overlap or at none: it is enough that what
\* it adds and frees balances.
LEMMA Balance ==
    ASSUME TypeOK, TypeOK', NEW r \in Replicas, NEW i \in Iterations,
           IsFiniteSet(Open(i)), Charged(i),
           \A q \in Replicas \ {r} : pc'[q] = pc[q] /\ latest'[q] = latest[q],
           threads'[i] + One(Pends(r, i)') + One(last' < i /\ ~Working(r)' /\ ~Company(r))
               + faults + overlaps + One(Eased(r, i, last) \/ EasedThere(r, i, last))
             <= threads[i] + One(Pends(r, i)) + One(last < i /\ ~Working(r) /\ ~Company(r))
               + faults' + overlaps' + One(Eased(r, i, last)' \/ EasedThere(r, i, last'))
    PROVE  IsFiniteSet(Open(i)') /\ Charged(i)'
<1> DEFINE n == Cardinality(Others(r, i))
<1>1. n \in Nat /\ Cardinality(Open(i)) = n + One(Pends(r, i))
    BY CountOne
<1>2. IsFiniteSet(Open(i)') /\ Cardinality(Open(i)') = n + One(Pends(r, i)')
    BY CountNext
<1>3. /\ One(Due(i)) = One(last < i /\ ~Working(r) /\ ~Company(r))
      /\ One(Relieved(i))
           = One(Eased(r, i, last) \/ EasedThere(r, i, last))
    BY OthersNow DEF One
<1>4. /\ One(Due(i)') = One(last' < i /\ ~Working(r)' /\ ~Company(r))
      /\ One(Relieved(i)')
           = One(Eased(r, i, last)' \/ EasedThere(r, i, last'))
    BY OthersNext DEF One
<1>5. /\ threads[i] \in Nat /\ threads'[i] \in Nat
      /\ faults \in Nat /\ faults' \in Nat /\ overlaps \in Nat /\ overlaps' \in Nat
    BY DEF TypeOK
<1>6. \A b : One(b) \in Nat
    BY DEF One
<1>7. threads[i] + (n + One(Pends(r, i))) + One(last < i /\ ~Working(r) /\ ~Company(r))
        <= 1 + faults + overlaps + One(Eased(r, i, last) \/ EasedThere(r, i, last))
    BY <1>1, <1>3 DEF Charged
<1> HIDE DEF n
<1>8. threads'[i] + (n + One(Pends(r, i)')) + One(last' < i /\ ~Working(r)' /\ ~Company(r))
        <= 1 + faults' + overlaps' + One(Eased(r, i, last)' \/ EasedThere(r, i, last'))
    BY <1>1, <1>5, <1>6, <1>7
<1>9. Charged(i)' <=>
        threads'[i] + Cardinality(Open(i)') + One(Due(i)')
          <= 1 + faults' + overlaps' + One(Relieved(i)')
    BY DEF Charged, One
<1> QED BY <1>2, <1>4, <1>8, <1>9

\* A review goes on: it posts at most once and stays eased.
LEMMA ChargeGoesOn ==
    ASSUME TypeOK, TypeOK', NEW r \in Replicas, NEW i \in Iterations,
           IsFiniteSet(Open(i)), Charged(i),
           \A q \in Replicas \ {r} : pc'[q] = pc[q] /\ latest'[q] = latest[q],
           Working(r), Working(r)', last' = last, faults' >= faults, overlaps' = overlaps,
           threads'[i] + One(Pends(r, i)') <= threads[i] + One(Pends(r, i)),
           Eased(r, i, last) => Eased(r, i, last)'
    PROVE  IsFiniteSet(Open(i)') /\ Charged(i)'
<1>1. One(last' < i /\ ~Working(r)' /\ ~Company(r)) = 0
    BY DEF One
<1>2. One(Eased(r, i, last) \/ EasedThere(r, i, last))
        <= One(Eased(r, i, last)' \/ EasedThere(r, i, last'))
    BY DEF One
<1>3. \A b : One(b) \in Nat
    BY DEF One
<1>4. /\ threads[i] \in Nat /\ threads'[i] \in Nat
      /\ faults \in Nat /\ faults' \in Nat /\ overlaps \in Nat /\ overlaps' \in Nat
    BY DEF TypeOK
<1>5. threads'[i] + One(Pends(r, i)') + One(last' < i /\ ~Working(r)' /\ ~Company(r))
          + faults + overlaps + One(Eased(r, i, last) \/ EasedThere(r, i, last))
        <= threads[i] + One(Pends(r, i)) + One(last < i /\ ~Working(r) /\ ~Company(r))
          + faults' + overlaps' + One(Eased(r, i, last)' \/ EasedThere(r, i, last'))
    BY <1>1, <1>2, <1>3, <1>4
<1> QED BY <1>5, Balance

\* A replica that stops working may have written its iteration to the history or,
\* when it failed, have posted to it; without a fault it has closed its key before
\* any review or written the row.
Settles(r, i) ==
    /\ last' = last \/ (pc[r] = "recording" /\ last' = latest[r])
    /\ \/ threads'[i] = threads[i]
       \/ threads'[i] = threads[i] + 1 /\ pc[r] = "posting" /\ latest[r] = i
    /\ \/ faults' = faults + 1
       \/ /\ faults' = faults /\ threads'[i] = threads[i]
          /\ Pends(r, i) \/ (pc[r] = "recording" /\ last' = latest[r])

LEMMA ChargeEnds ==
    ASSUME TypeOK, TypeOK', NEW r \in Replicas, NEW i \in Iterations,
           IsFiniteSet(Open(i)), Charged(i),
           \A q \in Replicas \ {r} : pc'[q] = pc[q] /\ latest'[q] = latest[q],
           ~Working(r)', overlaps' = overlaps, Settles(r, i)
    PROVE  IsFiniteSet(Open(i)') /\ Charged(i)'
<1>1. ~Pends(r, i)' /\ ~Eased(r, i, last)'
    BY DEF Pends, Eased, Working, Known, Requests
<1>2. EasedThere(r, i, last) => Company(r) /\ last >= i /\ EasedThere(r, i, i)
    BY EasedThereFacts DEF TypeOK
<1>3. Eased(r, i, last) => Pends(r, i) /\ last >= i
    <2>1. latest[r] \in Nat /\ last \in Nat /\ i \in Nat
        BY ReviewAgentAssumption DEF TypeOK, Iterations
    <2> QED BY <2>1 DEF Eased, Pends, Working, Known, Requests
<1>4. pc[r] = "posting" /\ latest[r] = i => Pends(r, i) /\ ~Eased(r, i, last)
    BY ReviewAgentAssumption
    DEF Eased, Pends, Working, Known, Requests, TypeOK, Iterations
<1>5. Company(r) => ~(last' < i /\ ~Working(r)' /\ ~Company(r))
    OBVIOUS
<1>6. pc[r] = "recording" => /\ latest[r] \in Iterations
                             /\ latest[r] # i => Pends(r, i)
                             /\ Eased(r, i, last) => latest[r] > i
    BY DEF TypeOK, Pends, Eased, Working, Known, Requests
<1>7. /\ threads[i] \in Nat /\ threads'[i] \in Nat /\ i \in Nat
      /\ faults \in Nat /\ faults' \in Nat /\ overlaps \in Nat /\ last \in Nat
    BY ReviewAgentAssumption DEF TypeOK, Iterations
<1> DEFINE worked == Working(r) company == Company(r)
           pends == Pends(r, i) eased == Eased(r, i, last)
           there == EasedThere(r, i, last) thereNext == EasedThere(r, i, last')
<1>0. /\ last' = last \/ (pc[r] = "recording" /\ last' = latest[r])
      /\ \/ threads'[i] = threads[i]
         \/ threads'[i] = threads[i] + 1 /\ pc[r] = "posting" /\ latest[r] = i
      /\ \/ faults' = faults + 1
         \/ /\ faults' = faults /\ threads'[i] = threads[i]
            /\ pends \/ (pc[r] = "recording" /\ last' = latest[r])
    BY DEF Settles
<1>8. CASE last' = last
    <2>1. thereNext <=> there
        BY <1>8
    <2> QED
      <3>1. threads'[i] + 0 + One(last' < i /\ ~Working(r)' /\ ~company)
              + faults + overlaps + One(eased \/ there)
            <= threads[i] + One(pends) + One(last < i /\ ~worked /\ ~company)
              + faults' + overlaps' + One(FALSE \/ thereNext)
        BY <1>0, <1>1, <1>2, <1>3, <1>4, <1>6, <1>7, <1>8, <2>1 DEF One
      <3> QED BY <1>1, <3>1, Balance DEF One
<1>9. CASE pc[r] = "recording" /\ last' = latest[r]
    <2>1. CASE latest[r] = i
        <3>1. there => thereNext
            BY <1>2, <1>9, <2>1
        <3>2. threads'[i] + 0 + One(last' < i /\ ~Working(r)' /\ ~company)
                + faults + overlaps + One(eased \/ there)
              <= threads[i] + One(pends) + One(last < i /\ ~worked /\ ~company)
                + faults' + overlaps' + One(FALSE \/ thereNext)
          BY <1>0, <1>1, <1>3, <1>6, <1>7, <1>9, <2>1, <3>1 DEF One
        <3> QED BY <1>1, <3>2, Balance DEF One
    <2>2. CASE latest[r] # i
        <3>1. latest[r] \in Nat /\ pends
            BY <1>6, <1>9, <2>2 DEF Iterations
        <3>2. threads'[i] + 0 + One(last' < i /\ ~Working(r)' /\ ~company)
                + faults + overlaps + One(eased \/ there)
              <= threads[i] + One(pends) + One(last < i /\ ~worked /\ ~company)
                + faults' + overlaps' + One(FALSE \/ thereNext)
          BY <1>0, <1>1, <1>2, <1>3, <1>6, <1>7, <1>9, <2>2, <3>1 DEF One
        <3> QED BY <1>1, <3>2, Balance DEF One
    <2> QED BY <2>1, <2>2
<1> QED BY <1>0, <1>8, <1>9

\* A worker takes a key: alone it is eased or due, and in company it is charged.
LEMMA ChargeTakes ==
    ASSUME TypeOK, TypeOK', NEW r \in Replicas, NEW i \in Iterations,
           IsFiniteSet(Open(i)), Charged(i), Take(r)
    PROVE  IsFiniteSet(Open(i)') /\ Charged(i)'
<1>1. /\ \A q \in Replicas \ {r} : pc'[q] = pc[q] /\ latest'[q] = latest[q]
      /\ pc'[r] = "iterations" /\ threads' = threads /\ last' = last /\ faults' = faults
      /\ overlaps' = overlaps + One(Company(r))
    BY DEF Take, Goto, remoteVars, TypeOK, Company, One
<1>2. Pends(r, i)' /\ Working(r)' /\ (Eased(r, i, last)' <=> last >= i)
    BY <1>1 DEF Pends, Eased, Working, Known, Requests
<1>3. ~Working(r) /\ ~Pends(r, i) /\ ~Eased(r, i, last)
    BY DEF Take, Pends, Eased, Working, Known, Requests
<1>4. EasedThere(r, i, last) => Company(r)
    BY EasedThereFacts DEF TypeOK
<1>5. EasedThere(r, i, last') <=> EasedThere(r, i, last)
    BY <1>1
<1>6. /\ threads[i] \in Nat /\ i \in Nat /\ faults \in Nat /\ overlaps \in Nat /\ last \in Nat
    BY ReviewAgentAssumption DEF TypeOK, Iterations
<1> DEFINE company == Company(r) there == EasedThere(r, i, last)
<1>7. threads'[i] + 1 + 0 + faults + overlaps + One(FALSE \/ there)
        <= threads[i] + 0 + One(last < i /\ ~FALSE /\ ~company)
          + faults' + overlaps' + One((last >= i) \/ there)
    BY <1>1, <1>4, <1>6 DEF One
<1> QED BY <1>1, <1>2, <1>3, <1>5, <1>7, Balance DEF One

\* Nobody works more or less than before.
LEMMA ChargeRests ==
    ASSUME TypeOK, NEW i \in Iterations, IsFiniteSet(Open(i)), Charged(i),
           \A q \in Replicas : \/ pc'[q] = pc[q] /\ latest'[q] = latest[q]
                               \/ ~Working(q) /\ ~Working(q)',
           UNCHANGED <<threads, last, overlaps>>, faults' >= faults, faults' \in Nat
    PROVE  IsFiniteSet(Open(i)') /\ Charged(i)'
<1>1. \A q \in Replicas : /\ Working(q)' <=> Working(q)
                          /\ Pends(q, i)' <=> Pends(q, i)
                          /\ Eased(q, i, last)' <=> Eased(q, i, last)
    BY DEF Working, Pends, Eased, Known, Requests
<1>2. Open(i)' = Open(i)
    BY <1>1 DEF Open
<1>3. (Due(i)' <=> Due(i)) /\ (Relieved(i)' <=> Relieved(i))
    BY <1>1 DEF Due, Relieved
<1>4. Cardinality(Open(i)) \in Nat /\ threads[i] \in Nat /\ faults \in Nat /\ overlaps \in Nat
    BY FS_CardinalityType DEF TypeOK
<1>5. One(Due(i)') = One(Due(i))
      /\ One(Relieved(i)') = One(Relieved(i))
    BY <1>3 DEF One
<1>6. Charged(i)' <=>
        threads'[i] + Cardinality(Open(i)') + One(Due(i)')
          <= 1 + faults' + overlaps' + One(Relieved(i)')
    BY DEF Charged, One
<1>7. \A b : One(b) \in Nat
    BY DEF One
<1>8. threads[i] + Cardinality(Open(i)) + One(Due(i))
        <= 1 + faults + overlaps + One(Relieved(i))
    BY DEF Charged
<1> QED BY <1>2, <1>4, <1>5, <1>6, <1>7, <1>8

LEMMA ChargeStep ==
    ASSUME OrderInv, TypeOK', NEW i \in Iterations, IsFiniteSet(Open(i)), Charged(i), [Next]_vars
    PROVE  IsFiniteSet(Open(i)') /\ Charged(i)'
<1>1. TypeOK /\ last <= head
    BY DEF OrderInv, Existing
<1>2. /\ threads[i] \in Nat /\ i \in Nat /\ faults \in Nat /\ overlaps \in Nat
      /\ last \in Nat /\ head \in Nat
    BY <1>1, ReviewAgentAssumption DEF TypeOK, Iterations
<1>3. ASSUME NEW r \in Replicas, ReadIterations(r) PROVE IsFiniteSet(Open(i)') /\ Charged(i)'
    <2>1. /\ pc[r] = "iterations" /\ UNCHANGED <<threads, last, faults, overlaps>>
          /\ \A q \in Replicas \ {r} : pc'[q] = pc[q] /\ latest'[q] = latest[q]
        BY <1>1, <1>3 DEF ReadIterations, remoteVars, Close, Goto, TypeOK
    <2>2. Working(r) /\ Pends(r, i)
        BY <2>1 DEF Working, Pends, Requests
    <2>3. CASE Close(r)
        <3>1. ~Working(r)'
            BY <1>1, <2>3 DEF Close, Goto, Working, Requests, TypeOK
        <3>2. Settles(r, i)
            BY <2>1, <2>2 DEF Settles
        <3> QED BY <1>1, <2>1, <2>2, <3>1, <3>2, ChargeEnds
    <2>4. CASE ~Close(r)
        <3>1. pc'[r] = "history" /\ latest'[r] = head
            BY <1>1, <1>3, <2>4 DEF ReadIterations, Goto, TypeOK
        <3>2. Working(r)' /\ Pends(r, i)'
            BY <3>1 DEF Working, Pends, Requests
        <3>3. Eased(r, i, last) => Eased(r, i, last)'
            BY <1>1, <1>2, <2>1, <3>1 DEF Eased, Known, Requests
        <3>4. threads'[i] + One(Pends(r, i)') <= threads[i] + One(Pends(r, i))
            BY <1>2, <2>1, <2>2, <3>2 DEF One
        <3>5. faults' >= faults
            BY <1>2, <2>1
        <3> QED BY <1>1, <2>1, <2>2, <3>2, <3>3, <3>4, <3>5, ChargeGoesOn
    <2> QED BY <2>3, <2>4
<1>4. ASSUME NEW r \in Replicas, ReadHistory(r) PROVE IsFiniteSet(Open(i)') /\ Charged(i)'
    <2>1. /\ pc[r] = "history" /\ UNCHANGED <<threads, last, faults, overlaps>>
          /\ \A q \in Replicas \ {r} : pc'[q] = pc[q] /\ latest'[q] = latest[q]
        BY <1>1, <1>4 DEF ReadHistory, remoteVars, Close, Goto, TypeOK
    <2>2. Working(r) /\ Pends(r, i)
        BY <2>1 DEF Working, Pends, Requests
    <2>3. CASE Close(r)
        <3>1. ~Working(r)'
            BY <1>1, <2>3 DEF Close, Goto, Working, Requests, TypeOK
        <3>2. Settles(r, i)
            BY <2>1, <2>2 DEF Settles
        <3> QED BY <1>1, <2>1, <2>2, <3>1, <3>2, ChargeEnds
    <2>4. CASE ~Close(r)
        <3>1. pc'[r] = "reviewing" /\ latest'[r] = latest[r] /\ last # latest[r]
            BY <1>1, <1>4, <2>4 DEF ReadHistory, AlreadyReviewed, Goto, TypeOK
        <3>2. Working(r)' /\ Pends(r, i)'
            BY <3>1 DEF Working, Pends, Requests
        <3>3. Eased(r, i, last) => Eased(r, i, last)'
            BY <1>2, <2>1, <3>1 DEF Eased, Known, Requests
        <3>4. threads'[i] + One(Pends(r, i)') <= threads[i] + One(Pends(r, i))
            BY <1>2, <2>1, <2>2, <3>2 DEF One
        <3>5. faults' >= faults
            BY <1>2, <2>1
        <3> QED BY <1>1, <2>1, <2>2, <3>2, <3>3, <3>4, <3>5, ChargeGoesOn
    <2> QED BY <2>3, <2>4
<1>5. ASSUME NEW r \in Replicas, Review(r) \/ PostSummary(r) \/ PostFindings(r) \/ Approve(r)
      PROVE  IsFiniteSet(Open(i)') /\ Charged(i)'
    <2>1. /\ latest' = latest /\ overlaps' = overlaps /\ last' = last
          /\ \A q \in Replicas \ {r} : pc'[q] = pc[q]
        BY <1>1, <1>5, UnansweredHistory
        DEF Review, PostSummary, PostFindings, Approve, CreateThread, ApprovePullRequest,
            Unanswered, remoteVars, Goto, TypeOK
    <2>2. /\ pc[r] \in {"reviewing", "posting", "inline", "approving"}
          /\ pc'[r] \in {"posting", "inline", "approving", "recording"}
          /\ pc[r] \in {"posting", "inline", "approving"} => pc'[r] # "posting"
        BY <1>1, <1>5
        DEF Review, PostSummary, PostFindings, Approve, CreateThread, AfterThreads, Goto, TypeOK
    <2>3. Working(r) /\ Working(r)'
        BY <2>2 DEF Working, Requests
    <2>4. Eased(r, i, last) => Eased(r, i, last)'
        BY <2>1, <2>2 DEF Eased, Known, Requests
    <2>5. \/ threads' = threads
          \/ pc[r] = "posting" /\ pc'[r] = "inline"
             /\ threads' = [threads EXCEPT ![latest[r]] = @ + 1]
        BY <1>1, <1>5
        DEF Review, PostSummary, PostFindings, Approve, CreateThread, ApprovePullRequest,
            UpsertHistory, Unanswered, remoteVars, Goto, TypeOK
    <2>6. Pends(r, i)' => Pends(r, i)
        BY <2>1, <2>2, <2>3 DEF Pends
    <2>7. CASE threads' = threads
        <3>1. threads'[i] + One(Pends(r, i)') <= threads[i] + One(Pends(r, i))
            BY <1>2, <2>6, <2>7 DEF One
        <3> QED BY <1>1, <1>2, <2>1, <2>3, <2>4, <3>1, ChargeGoesOn, <1>5
                DEF Review, PostSummary, PostFindings, Approve, Fault
    <2>8. CASE pc[r] = "posting" /\ pc'[r] = "inline"
               /\ threads' = [threads EXCEPT ![latest[r]] = @ + 1]
        <3>1. latest[r] = i => Pends(r, i) /\ ~Pends(r, i)'
            BY <2>1, <2>3, <2>8 DEF Pends
        <3>2. threads'[i] = IF latest[r] = i THEN threads[i] + 1 ELSE threads[i]
            BY <1>1, <2>8 DEF TypeOK
        <3>3. threads'[i] + One(Pends(r, i)') <= threads[i] + One(Pends(r, i))
            BY <1>2, <2>6, <3>1, <3>2 DEF One
        <3> QED BY <1>1, <1>2, <2>1, <2>3, <2>4, <3>3, ChargeGoesOn, <1>5
                DEF Review, PostSummary, PostFindings, Approve, Fault
    <2> QED BY <2>5, <2>7, <2>8
<1>6. ASSUME NEW r \in Replicas, Unanswered(r)
      PROVE  /\ last' = last \/ (pc[r] = "recording" /\ last' = latest[r])
             /\ \/ threads'[i] = threads[i]
                \/ threads'[i] = threads[i] + 1 /\ pc[r] = "posting" /\ latest[r] = i
    <2>1. last' = last \/ (pc[r] = "recording" /\ last' = latest[r])
        BY <1>6, UnansweredHistory
    <2>2. \/ threads' = threads
          \/ pc[r] = "posting" /\ threads' = [threads EXCEPT ![latest[r]] = @ + 1]
        BY <1>6 DEF Unanswered, CreateThread, ApprovePullRequest, UpsertHistory, remoteVars
    <2> QED BY <1>1, <2>1, <2>2 DEF TypeOK
<1>7. ASSUME NEW r \in Replicas, Record(r) PROVE IsFiniteSet(Open(i)') /\ Charged(i)'
    <2>1. /\ pc[r] = "recording" /\ last' = latest[r] /\ UNCHANGED <<threads, faults, overlaps>>
          /\ \A q \in Replicas \ {r} : pc'[q] = pc[q] /\ latest'[q] = latest[q]
          /\ ~Working(r)'
        BY <1>1, <1>7 DEF Record, UpsertHistory, Close, Goto, Working, Requests, TypeOK
    <2>2. Settles(r, i)
        BY <2>1 DEF Settles
    <2> QED BY <1>1, <2>1, <2>2, ChargeEnds
<1>8. ASSUME NEW r \in Replicas, Fails(r) PROVE IsFiniteSet(Open(i)') /\ Charged(i)'
    <2>1. /\ Unanswered(r) /\ faults' = faults + 1 /\ overlaps' = overlaps /\ ~Working(r)'
          /\ \A q \in Replicas \ {r} : pc'[q] = pc[q] /\ latest'[q] = latest[q]
        BY <1>1, <1>8 DEF Fails, Fault, Close, Goto, Working, Requests, TypeOK
    <2>2. Settles(r, i)
        BY <1>6, <2>1 DEF Settles
    <2> QED BY <1>1, <2>1, <2>2, ChargeEnds
<1>9. ASSUME NEW r \in Replicas, Crash(r) PROVE IsFiniteSet(Open(i)') /\ Charged(i)'
    <2>1. /\ faults' = faults + 1 /\ overlaps' = overlaps /\ ~Working(r)'
          /\ \A q \in Replicas \ {r} : pc'[q] = pc[q] /\ latest'[q] = latest[q]
        BY <1>1, <1>9 DEF Crash, Fault, Goto, Working, Requests, TypeOK
    <2>2. /\ last' = last \/ (pc[r] = "recording" /\ last' = latest[r])
          /\ \/ threads'[i] = threads[i]
             \/ threads'[i] = threads[i] + 1 /\ pc[r] = "posting" /\ latest[r] = i
        BY <1>6, <1>9 DEF Crash, remoteVars
    <2>3. Settles(r, i)
        BY <2>1, <2>2 DEF Settles
    <2> QED BY <1>1, <2>1, <2>3, ChargeEnds
<1>10. ASSUME NEW r \in Replicas,
              Boot(r) \/ (\E c \in Commits : Deliver(r, c)) \/ Push \/ UNCHANGED vars
       PROVE  IsFiniteSet(Open(i)') /\ Charged(i)'
    <2>1. UNCHANGED <<threads, last, overlaps, faults>>
        BY <1>10 DEF Boot, Deliver, Push, vars, remoteVars
    <2>2. \A q \in Replicas : \/ pc'[q] = pc[q] /\ latest'[q] = latest[q]
                              \/ ~Working(q) /\ ~Working(q)'
        BY <1>1, <1>10
        DEF Boot, Deliver, Push, vars, remoteVars, Goto, Working, Requests, TypeOK
    <2> QED BY <1>1, <1>2, <2>1, <2>2, ChargeRests
<1>11. ASSUME Push \/ UNCHANGED vars PROVE IsFiniteSet(Open(i)') /\ Charged(i)'
    <2>1. UNCHANGED <<threads, last, overlaps, faults, pc, latest>>
        BY <1>11 DEF Push, vars, remoteVars
    <2> QED BY <1>1, <1>2, <2>1, ChargeRests
<1> QED BY <1>1, <1>3, <1>4, <1>5, <1>7, <1>8, <1>9, <1>10, <1>11, ChargeTakes DEF Next, Work

\* An iteration is reviewed at most once, once more for every failed request or
\* dead replica, and once more for every review that was started while another was
\* under way; whatever the queues have forgotten and the row was overwritten with.
THEOREM ReviewsAreCharged == Spec => []ReviewsCharged
<1>1. Init => ChargeInv
    <2> SUFFICES ASSUME Init, NEW i \in Iterations PROVE IsFiniteSet(Open(i)) /\ Charged(i)
        BY DEF ChargeInv
    <2>1. Open(i) = {}
        BY DEF Init, Open, Pends, Working, Requests
    <2>2. IsFiniteSet(Open(i)) /\ Cardinality(Open(i)) = 0
        BY <2>1, FS_EmptySet
    <2> QED BY <2>2 DEF Init, Charged, One
<1>2. OrderInv /\ ChargeInv /\ [Next]_vars => OrderInv' /\ ChargeInv'
    <2> SUFFICES ASSUME OrderInv, ChargeInv, [Next]_vars PROVE OrderInv' /\ ChargeInv'
        OBVIOUS
    <2>1. OrderInv'
        BY OrderStep
    <2>2. ASSUME NEW i \in Iterations PROVE IsFiniteSet(Open(i)') /\ Charged(i)'
        BY <2>1, ChargeStep DEF ChargeInv, OrderInv
    <2> QED BY <2>1, <2>2 DEF ChargeInv
<1>3. OrderInv /\ ChargeInv => ReviewsCharged
    <2> SUFFICES ASSUME OrderInv, ChargeInv, NEW i \in Iterations
                 PROVE  threads[i] <= 1 + faults + overlaps
        BY DEF ReviewsCharged
    <2>1. /\ threads[i] \in Nat /\ faults \in Nat /\ overlaps \in Nat
          /\ IsFiniteSet(Open(i)) /\ Cardinality(Open(i)) \in Nat /\ One(Due(i)) \in Nat
        BY FS_CardinalityType DEF OrderInv, TypeOK, ChargeInv, One
    <2>2. Relieved(i) => Open(i) # {}
        BY ReviewAgentAssumption DEF Relieved, Eased, Open, Pends, Working, Known, Requests, Iterations,
           OrderInv, TypeOK
    <2>3. Open(i) # {} => Cardinality(Open(i)) # 0
        BY <2>1, FS_EmptySet
    <2>4. One(Relieved(i)) <= Cardinality(Open(i))
        BY <2>1, <2>2, <2>3 DEF One
    <2>5. One(Relieved(i)) \in Nat
        BY DEF One
    <2>6. threads[i] + Cardinality(Open(i)) + One(Due(i))
            <= 1 + faults + overlaps + One(Relieved(i))
        BY DEF ChargeInv, Charged
    <2> QED BY <2>1, <2>4, <2>5, <2>6
<1> QED BY <1>1, <1>2, <1>3, OrderInit, PTL DEF Spec
=============================================================================
