------------------------- MODULE ChatApprovalsProofs -------------------------
(* Theorems about ChatApprovals, for every set of requests and actions and    *)
(* every bound.                                                               *)
EXTENDS ChatApprovals, TLAPS

SessionOK == stored \in Choice /\ asked \in Choice /\ answers \in Nat
RecordOK  == record \in [Verified -> Statuses]
ReqOK     ==
    /\ req \in [Client -> Request]
    /\ \A c \in Client : req[c].pc \in Carrying \cup {"reading"} => req[c].act \in Verified
    /\ \A c \in Client : req[c].pc \in {"setup", "running", "outcome"} => req[c].act \in Action
GhostsOK  ==
    /\ seen \in [Client -> BOOLEAN]
    /\ wrote \in SUBSET Verified /\ overlapped \in SUBSET Verified
    /\ unrecorded \in SUBSET Verified
SpentOK   == spent \in [requests : 0..MaxRequests, edits : 0..MaxEdits, crashes : 0..MaxCrashes]

\* A request may be in this state.
Fits(r) ==
    /\ r \in Request
    /\ r.pc \in Carrying \cup {"reading"} => r.act \in Verified
    /\ r.pc \in {"setup", "running", "outcome"} => r.act \in Action

LEMMA TypeParts == TypeOK <=> SessionOK /\ RecordOK /\ ReqOK /\ GhostsOK /\ SpentOK /\ shown \in SUBSET Action
BY DEF TypeOK, SessionOK, RecordOK, ReqOK, GhostsOK, SpentOK

LEMMA TypePartsNext ==
    SessionOK' /\ RecordOK' /\ ReqOK' /\ GhostsOK' /\ SpentOK' /\ shown' \in SUBSET Action => TypeOK'
BY DEF TypeOK, SessionOK, RecordOK, ReqOK, GhostsOK, SpentOK
-----------------------------------------------------------------------------
(* What the helpers do.                                                        *)

LEMMA IdleFits == Fits(Idle)
BY DEF Fits, Idle, Request, Carrying, Choice

LEMMA RequestChanges ==
    ASSUME ReqOK, NEW c \in Client, NEW r, Fits(r), req' = [req EXCEPT ![c] = r]
    PROVE  ReqOK' /\ req'[c] = r /\ \A d \in Client \ {c} : req'[d] = req[d]
<1>1. req' \in [Client -> Request]
    BY DEF ReqOK, Fits
<1>2. \A d \in Client : req'[d] = IF d = c THEN r ELSE req[d]
    BY DEF ReqOK
<1> QED BY <1>1, <1>2 DEF ReqOK, Fits

LEMMA MoveFits ==
    ASSUME ReqOK, NEW c \in Client, NEW pc, NEW act, NEW todo, NEW ok,
           Move(c, pc, act, todo, ok),
           Fits([pc |-> pc, via |-> req[c].via, act |-> act, todo |-> todo, ok |-> ok])
    PROVE  /\ ReqOK'
           /\ req'[c] = [pc |-> pc, via |-> req[c].via, act |-> act, todo |-> todo, ok |-> ok]
           /\ \A d \in Client \ {c} : req'[d] = req[d]
BY RequestChanges DEF Move

LEMMA GotoFits ==
    ASSUME ReqOK, NEW c \in Client, NEW pc, Goto(c, pc),
           \/ pc \in Carrying \cup {"reading"} /\ req[c].act \in Verified
           \/ pc \in {"setup", "running"} /\ req[c].act \in Action
           \/ pc \in {"idle", "arrived", "planning"}
    PROVE  /\ ReqOK'
           /\ req'[c] = [pc |-> pc, via |-> req[c].via, act |-> req[c].act, todo |-> {}, ok |-> FALSE]
           /\ \A d \in Client \ {c} : req'[d] = req[d]
<1>1. req[c].via \in {"ask", "no", "yes", "click"} /\ req[c].act \in Choice
    BY DEF ReqOK, Request
<1>2. Fits([pc |-> pc, via |-> req[c].via, act |-> req[c].act, todo |-> {}, ok |-> FALSE])
    BY <1>1 DEF Fits, Request, Carrying, Action
<1> QED BY <1>2, MoveFits DEF Goto

LEMMA TellFits ==
    ASSUME ReqOK, NEW c \in Client, NEW ok \in BOOLEAN, Tell(c, ok), req[c].act \in Action
    PROVE  /\ ReqOK'
           /\ req'[c] = [pc |-> "outcome", via |-> req[c].via, act |-> req[c].act, todo |-> {}, ok |-> ok]
           /\ \A d \in Client \ {c} : req'[d] = req[d]
<1>1. req[c].via \in {"ask", "no", "yes", "click"} /\ req[c].act \in Choice
    BY DEF ReqOK, Request
<1>2. Fits([pc |-> "outcome", via |-> req[c].via, act |-> req[c].act, todo |-> {}, ok |-> ok])
    BY <1>1 DEF Fits, Request, Carrying
<1> QED BY <1>2, MoveFits DEF Tell

LEMMA StartFits ==
    ASSUME ReqOK, NEW c \in Client, NEW pc, NEW via \in {"ask", "no", "yes", "click"}, NEW a \in Choice,
           Start(c, pc, via, a), pc = "arrived" \/ (pc = "setup" /\ a \in Action)
    PROVE  /\ ReqOK'
           /\ req'[c] = [pc |-> pc, via |-> via, act |-> a, todo |-> {}, ok |-> FALSE]
           /\ \A d \in Client \ {c} : req'[d] = req[d]
<1>1. Fits([pc |-> pc, via |-> via, act |-> a, todo |-> {}, ok |-> FALSE])
    BY DEF Fits, Request, Carrying
<1> QED BY <1>1, RequestChanges DEF Start

LEMMA EndFits ==
    ASSUME ReqOK, NEW c \in Client, End(c)
    PROVE  ReqOK' /\ req'[c] = Idle /\ \A d \in Client \ {c} : req'[d] = req[d]
BY IdleFits, RequestChanges DEF End

LEMMA SaveFits ==
    ASSUME RecordOK, NEW a \in Verified, NEW status \in Statuses, Save(a, status)
    PROVE  RecordOK' /\ record'[a] = status /\ \A b \in Verified \ {a} : record'[b] = record[b]
BY DEF RecordOK, Save

LEMMA ChargeFits ==
    ASSUME SpentOK, NEW what \in {"requests", "edits", "crashes"}, Charge(what)
    PROVE  SpentOK'
<1> USE BoundsAssumption DEF SpentOK, Charge, Bounds
<1>1. CASE what = "requests"
    BY <1>1
<1>2. CASE what = "edits"
    BY <1>2
<1>3. CASE what = "crashes"
    BY <1>3
<1> QED BY <1>1, <1>2, <1>3

LEMMA SessionFits ==
    ASSUME SessionOK
    PROVE  /\ TakeStored => stored' \in Choice /\ answers' \in Nat
           /\ \A a \in Choice : Place(a) => stored' \in Choice /\ answers' \in Nat
BY DEF SessionOK, TakeStored, Place, Choice
-----------------------------------------------------------------------------
(* Type correctness.                                                           *)

LEMMA MessagesAreTyped ==
    ASSUME TypeOK, NEW c \in Client,
           \/ \E via \in {"ask", "no", "yes"} : Say(c, via)
           \/ \E left \in BOOLEAN : Answer(c, left)
           \/ NothingPending(c) \/ Conclude(c) \/ PlanFails(c)
    PROVE  TypeOK'
<1>1. SessionOK /\ RecordOK /\ ReqOK /\ GhostsOK /\ SpentOK /\ shown \in SUBSET Action
    BY TypeParts
<1>2. ASSUME NEW via \in {"ask", "no", "yes"}, Say(c, via)
      PROVE  TypeOK'
    <2>1. ReqOK'
        BY <1>1, <1>2, StartFits DEF Say, Choice
    <2>2. SpentOK'
        BY <1>1, <1>2, ChargeFits DEF Say
    <2> QED BY <1>1, <1>2, <2>1, <2>2, TypePartsNext DEF Say, SessionOK, RecordOK, GhostsOK, session, ghosts
<1>3. ASSUME NEW left \in BOOLEAN, Answer(c, left)
      PROVE  TypeOK'
    <2>1. Pending(c) \in Action
        BY <1>1, <1>3 DEF Answer, Pending, SessionOK, Choice
    <2>2. ReqOK'
        <3>1. CASE End(c)
            BY <1>1, <3>1, EndFits
        <3>2. CASE Goto(c, "planning")
            BY <1>1, <3>2, GotoFits
        <3>3. CASE Move(c, "running", Pending(c), {}, FALSE)
            <4>1. req[c].via \in {"ask", "no", "yes", "click"}
                BY <1>1 DEF ReqOK, Request
            <4>2. Fits([pc |-> "running", via |-> req[c].via, act |-> Pending(c),
                        todo |-> {}, ok |-> FALSE])
                BY <2>1, <4>1 DEF Fits, Request, Carrying, Choice
            <4> QED BY <1>1, <3>3, <4>2, MoveFits
        <3> QED BY <1>3, <3>1, <3>2, <3>3 DEF Answer
    <2>3. SessionOK'
        BY <1>1, <1>3, SessionFits DEF Answer, SessionOK, Choice
    <2> QED BY <1>1, <1>3, <2>2, <2>3, TypePartsNext DEF Answer, RecordOK, GhostsOK, SpentOK, ghosts
<1>4. CASE NothingPending(c)
    <2>1. ReqOK'
        BY <1>1, <1>4, GotoFits DEF NothingPending
    <2> QED BY <1>1, <1>4, <2>1, TypePartsNext
            DEF NothingPending, SessionOK, RecordOK, GhostsOK, SpentOK, session, ghosts
<1>5. CASE Conclude(c)
    <2>1. ReqOK'
        BY <1>1, <1>5, EndFits DEF Conclude
    <2>2. SessionOK'
        BY <1>1, <1>5, SessionFits DEF Conclude, SessionOK, Choice
    <2> QED BY <1>1, <1>5, <2>1, <2>2, TypePartsNext DEF Conclude, RecordOK, GhostsOK, SpentOK, ghosts
<1>6. CASE PlanFails(c)
    <2>1. ReqOK'
        BY <1>1, <1>6, EndFits DEF PlanFails
    <2> QED BY <1>1, <1>6, <2>1, TypePartsNext
            DEF PlanFails, SessionOK, Choice, RecordOK, GhostsOK, SpentOK, ghosts
<1> QED BY <1>2, <1>3, <1>4, <1>5, <1>6

LEMMA ClicksAreTyped ==
    ASSUME TypeOK, NEW c \in Client, Click(c) \/ SetUp(c) \/ Outcome(c)
    PROVE  TypeOK'
<1>1. SessionOK /\ RecordOK /\ ReqOK /\ GhostsOK /\ SpentOK /\ shown \in SUBSET Action
    BY TypeParts
<1>2. CASE Click(c)
    <2>1. Resolved \in Action
        BY <1>1, <1>2 DEF Click, Resolved, SessionOK, Choice
    <2>2. ReqOK'
        BY <1>1, <1>2, <2>1, StartFits DEF Click, Choice
    <2>3. SessionOK' /\ SpentOK'
        BY <1>1, <1>2, SessionFits, ChargeFits DEF Click, SessionOK
    <2>4. GhostsOK'
        BY <1>1, <1>2 DEF Click, GhostsOK
    <2> QED BY <1>1, <1>2, <2>2, <2>3, <2>4, TypePartsNext DEF Click, RecordOK
<1>3. CASE SetUp(c)
    <2>1. req[c].act \in Action
        BY <1>1, <1>3 DEF SetUp, ReqOK
    <2>2. ReqOK'
        <3>1. CASE req[c].act \in Verified
            BY <1>1, <1>3, <3>1, GotoFits, EndFits DEF SetUp
        <3>2. CASE req[c].act \notin Verified
            BY <1>1, <1>3, <2>1, <3>2, GotoFits, EndFits DEF SetUp
        <3> QED BY <3>1, <3>2
    <2> QED BY <1>1, <1>3, <2>2, TypePartsNext
            DEF SetUp, SessionOK, RecordOK, GhostsOK, SpentOK, session, ghosts
<1>4. CASE Outcome(c)
    <2>1. ReqOK'
        BY <1>1, <1>4, EndFits, GotoFits DEF Outcome
    <2>2. SessionOK'
        BY <1>1, <1>4, SessionFits DEF Outcome, SessionOK, Choice
    <2> QED BY <1>1, <1>4, <2>1, <2>2, TypePartsNext DEF Outcome, RecordOK, GhostsOK, SpentOK, ghosts
<1> QED BY <1>2, <1>3, <1>4

LEMMA WorldIsTyped ==
    ASSUME TypeOK, Decline \/ Crash \/ \E a \in Action : Prepare(a) \/ Edit(a)
    PROVE  TypeOK'
<1>1. SessionOK /\ RecordOK /\ ReqOK /\ GhostsOK /\ SpentOK /\ shown \in SUBSET Action
    BY TypeParts
<1>2. CASE Decline
    <2>1. SessionOK'
        BY <1>1, <1>2, SessionFits DEF Decline, SessionOK, Choice
    <2> QED BY <1>1, <1>2, <2>1, TypePartsNext DEF Decline, RecordOK, ReqOK, GhostsOK, SpentOK, ghosts
<1>3. CASE Crash
    <2>1. ReqOK'
        BY <1>1, <1>3, IdleFits DEF Crash, ReqOK, Fits
    <2>2. shown' \in SUBSET Action
        <3>1. {req[d].act : d \in {e \in Client : req[e].pc \in {"running", "executing"}}} \subseteq Action
            BY <1>1 DEF ReqOK, Carrying, Action
        <3> QED BY <1>1, <1>3, <3>1 DEF Crash
    <2>3. GhostsOK'
        <3>1. {req[d].act : d \in {e \in Client : req[e].pc = "executing"}} \subseteq Verified
            BY <1>1 DEF ReqOK, Carrying
        <3> QED BY <1>1, <1>3, <3>1 DEF Crash, GhostsOK
    <2>4. SpentOK'
        BY <1>1, <1>3, ChargeFits DEF Crash
    <2> QED BY <1>1, <1>3, <2>1, <2>2, <2>3, <2>4, TypePartsNext DEF Crash, SessionOK, RecordOK, session
<1>4. ASSUME NEW a \in Action, Prepare(a)
      PROVE  TypeOK'
    <2>1. SessionOK' /\ SpentOK'
        BY <1>1, <1>4, SessionFits, ChargeFits DEF Prepare, SessionOK, Choice
    <2> QED BY <1>1, <1>4, <2>1, TypePartsNext DEF Prepare, RecordOK, ReqOK, GhostsOK, ghosts
<1>5. ASSUME NEW a \in Action, Edit(a)
      PROVE  TypeOK'
    <2>1. SpentOK'
        BY <1>1, <1>5, ChargeFits DEF Edit
    <2> QED BY <1>1, <1>5, <2>1, TypePartsNext DEF Edit, SessionOK, RecordOK, ReqOK, GhostsOK, session, ghosts
<1> QED BY <1>2, <1>3, <1>4, <1>5

\* What a git tool does to its own request: act is verified, and stays.
LEMMA VerifiedKept ==
    ASSUME ReqOK, NEW c \in Client, req[c].pc \in Carrying \cup {"reading"}
    PROVE  req[c].act \in Verified /\ req[c].act \in Action
BY DEF ReqOK, Action

LEMMA RunIsTyped ==
    ASSUME TypeOK, NEW c \in Client, NEW ok \in BOOLEAN, NEW left \in BOOLEAN, Run(c, ok, left)
    PROVE  TypeOK'
<1>1. SessionOK /\ RecordOK /\ ReqOK /\ GhostsOK /\ SpentOK /\ shown \in SUBSET Action
    BY TypeParts
<1>2. req[c].act \in Action
    BY <1>1 DEF Run, ReqOK
<1>3. ReqOK'
    BY <1>1, <1>2, EndFits, GotoFits, TellFits DEF Run
<1>4. SessionOK' /\ shown' \in SUBSET Action
    BY <1>1, <1>2 DEF Run, SessionOK, Choice
<1> QED BY <1>1, <1>3, <1>4, TypePartsNext DEF Run, RecordOK, GhostsOK, SpentOK, ghosts

LEMMA DispatchIsTyped ==
    ASSUME TypeOK, NEW c \in Client, Dispatch(c)
    PROVE  TypeOK'
<1>1. SessionOK /\ RecordOK /\ ReqOK /\ GhostsOK /\ SpentOK /\ shown \in SUBSET Action
    BY TypeParts
<1> DEFINE flying == {p \in Verified \X InFlight : record[p[1]] = p[2]}
<1>2. req[c].act \in Verified /\ req[c].act \in Action
    BY <1>1, VerifiedKept DEF Dispatch
<1>3. ReqOK'
    <2>1. CASE Goto(c, "proposing") \/ Goto(c, "retrying")
        BY <1>1, <1>2, <2>1, GotoFits DEF Carrying
    <2>2. CASE Move(c, "resuming", req[c].act, flying, FALSE)
        <3>1. req[c].via \in {"ask", "no", "yes", "click"} /\ req[c].act \in Choice
            BY <1>1 DEF ReqOK, Request
        <3>2. flying \in SUBSET (Verified \X InFlight)
            OBVIOUS
        <3> HIDE DEF flying
        <3>3. Fits([pc |-> "resuming", via |-> req[c].via, act |-> req[c].act,
                    todo |-> flying, ok |-> FALSE])
            BY <1>2, <3>1, <3>2 DEF Fits, Request, Carrying
        <3> QED BY <1>1, <2>2, <3>3, MoveFits
    <2>3. CASE Tell(c, TRUE) \/ Tell(c, FALSE)
        BY <1>1, <1>2, <2>3, TellFits
    <2> QED BY <2>1, <2>2, <2>3 DEF Dispatch
<1>4. GhostsOK'
    BY <1>1 DEF Dispatch, GhostsOK
<1> QED BY <1>1, <1>3, <1>4, TypePartsNext DEF Dispatch, SessionOK, RecordOK, SpentOK, session

LEMMA ProposalsAreTyped ==
    ASSUME TypeOK, NEW c \in Client, NEW denied \in BOOLEAN,
           Propose(c, denied) \/ Retry(c, denied) \/ Approve(c, denied)
    PROVE  TypeOK'
<1>1. SessionOK /\ RecordOK /\ ReqOK /\ GhostsOK /\ SpentOK /\ shown \in SUBSET Action
    BY TypeParts
<1>2. req[c].act \in Verified /\ req[c].act \in Action
    BY <1>1, VerifiedKept DEF Propose, Retry, Approve, Carrying
<1>3. ReqOK'
    BY <1>1, <1>2, GotoFits, TellFits, EndFits DEF Propose, Retry, Approve, Carrying
<1>4. RecordOK'
    BY <1>1, <1>2, SaveFits DEF Propose, Retry, Approve, RecordOK, Statuses, InFlight
<1> QED BY <1>1, <1>3, <1>4, TypePartsNext
        DEF Propose, Retry, Approve, SessionOK, GhostsOK, SpentOK, session, ghosts

LEMMA WritesAreTyped ==
    ASSUME TypeOK, NEW c \in Client, NEW ok \in BOOLEAN, Execute(c, ok) \/ ExecuteUnrecorded(c, ok) \/ Verify(c, ok)
    PROVE  TypeOK'
<1>1. SessionOK /\ RecordOK /\ ReqOK /\ GhostsOK /\ SpentOK /\ shown \in SUBSET Action
    BY TypeParts
<1>2. req[c].act \in Verified /\ req[c].act \in Action
    BY <1>1, VerifiedKept DEF Execute, ExecuteUnrecorded, Verify, Carrying
<1>3. CASE Execute(c, ok)
    <2>1. ReqOK'
        BY <1>1, <1>2, <1>3, GotoFits, TellFits DEF Execute, Carrying
    <2>2. RecordOK'
        BY <1>1, <1>2, <1>3, SaveFits DEF Execute, Statuses, InFlight
    <2>3. SessionOK' /\ GhostsOK' /\ shown' \in SUBSET Action
        BY <1>1, <1>2, <1>3 DEF Execute, SessionOK, Choice, GhostsOK
    <2> QED BY <1>1, <1>3, <2>1, <2>2, <2>3, TypePartsNext DEF Execute, SpentOK
<1>4. CASE Verify(c, ok)
    <2>1. Confirms(req[c].act, ok) \in BOOLEAN
        BY DEF Confirms
    <2>2. ReqOK'
        BY <1>1, <1>2, <1>4, <2>1, TellFits DEF Verify
    <2>3. RecordOK'
        BY <1>1, <1>2, <1>4, SaveFits DEF Verify, Statuses
    <2>4. GhostsOK'
        BY <1>1, <1>4 DEF Verify, Sight, GhostsOK
    <2> QED BY <1>1, <1>4, <2>2, <2>3, <2>4, TypePartsNext DEF Verify, SessionOK, SpentOK, session
<1>5. CASE ExecuteUnrecorded(c, ok)
    <2>1. ReqOK'
        BY <1>1, <1>5, EndFits DEF ExecuteUnrecorded
    <2>2. GhostsOK' /\ shown' \in SUBSET Action
        BY <1>1, <1>2, <1>5 DEF ExecuteUnrecorded, GhostsOK
    <2> QED BY <1>1, <1>5, <2>1, <2>2, TypePartsNext
            DEF ExecuteUnrecorded, SessionOK, RecordOK, SpentOK, session
<1> QED BY <1>3, <1>4, <1>5

LEMMA ResumeIsTyped ==
    ASSUME TypeOK, NEW c \in Client, NEW p \in Verified \X InFlight, NEW read \in BOOLEAN,
           Resume(c, p, read)
    PROVE  TypeOK'
<1>1. SessionOK /\ RecordOK /\ ReqOK /\ GhostsOK /\ SpentOK /\ shown \in SUBSET Action
    BY TypeParts
<1>2. req[c].act \in Verified /\ req[c].act \in Action /\ p[1] \in Verified
    BY <1>1, VerifiedKept DEF Resume, Carrying
<1> DEFINE rest == Remaining(req[c].todo, p)
<1>3. ReqOK'
    <2>1. rest \in SUBSET (Verified \X InFlight)
        BY <1>1 DEF Remaining, ReqOK, Request
    <2>2. CASE rest = {}
        BY <1>1, <1>2, <2>2, TellFits DEF Resume
    <2>3. CASE rest # {}
        <3>1. req[c].via \in {"ask", "no", "yes", "click"} /\ req[c].act \in Choice
            BY <1>1 DEF ReqOK, Request
        <3>2. Move(c, "resuming", req[c].act, rest, FALSE)
            BY <2>3 DEF Resume
        <3> HIDE DEF rest
        <3>3. Fits([pc |-> "resuming", via |-> req[c].via, act |-> req[c].act,
                    todo |-> rest, ok |-> FALSE])
            BY <1>2, <2>1, <3>1 DEF Fits, Request, Carrying
        <3> QED BY <1>1, <3>2, <3>3, MoveFits
    <2> QED BY <2>2, <2>3
<1>4. RecordOK'
    BY <1>1, <1>2, SaveFits DEF Resume, Statuses
<1>5. GhostsOK'
    BY <1>1 DEF Resume, Sight, GhostsOK
<1> QED BY <1>1, <1>3, <1>4, <1>5, TypePartsNext DEF Resume, SessionOK, SpentOK, session

LEMMA TypeStep ==
    ASSUME TypeOK, [Next]_vars
    PROVE  TypeOK'
<1>1. CASE UNCHANGED vars
    BY <1>1 DEF TypeOK, vars
<1>2. CASE Next
    BY <1>2, MessagesAreTyped, ClicksAreTyped, WorldIsTyped, RunIsTyped, DispatchIsTyped,
       ProposalsAreTyped, WritesAreTyped, ResumeIsTyped DEF Next, Step
<1> QED BY <1>1, <1>2

\* The types of the session, the records and the requests: a request that
\* carries out an action has a git tool, one that runs or answers a tool has one.
THEOREM TypeCorrect == Spec => []TypeOK
<1>1. Init => TypeOK
    <2> SUFFICES ASSUME Init PROVE TypeOK
        OBVIOUS
    <2>1. SessionOK /\ GhostsOK /\ shown \in SUBSET Action
        BY DEF Init, SessionOK, GhostsOK, Choice
    <2>2. RecordOK
        BY DEF Init, RecordOK, Statuses
    <2>3. ReqOK
        BY IdleFits DEF Init, ReqOK, Fits
    <2>4. SpentOK
        BY BoundsAssumption DEF Init, SpentOK
    <2> QED BY <2>1, <2>2, <2>3, <2>4, TypeParts
<1>2. TypeOK /\ [Next]_vars => TypeOK'
    BY TypeStep
<1> QED BY <1>1, <1>2, PTL DEF Spec
-----------------------------------------------------------------------------
(* The proposal of a session.                                                  *)

\* A proposal that is still stored has no answer yet.
AnswersInv == answers \in {0, 1} /\ (stored # None => answers = 0)

LEMMA AnswersStep ==
    ASSUME AnswersInv, [Next]_vars
    PROVE  AnswersInv'
<1>1. ASSUME TakeStored \/ \E a \in Choice : Place(a)
      PROVE  AnswersInv'
    BY <1>1 DEF AnswersInv, TakeStored, Place
<1>2. ASSUME UNCHANGED <<stored, answers>>
      PROVE  AnswersInv'
    BY <1>2 DEF AnswersInv
<1>3. CASE UNCHANGED vars
    BY <1>2, <1>3 DEF vars
<1>4. ASSUME NEW c \in Client, Step(c)
      PROVE  AnswersInv'
    <2>1. CASE \E left \in BOOLEAN : Answer(c, left)
        BY <1>1, <2>1 DEF Answer
    <2>2. CASE Conclude(c)
        BY <1>1, <2>2 DEF Conclude
    <2>3. CASE Outcome(c)
        BY <1>1, <1>2, <2>3 DEF Outcome, Choice
    <2>4. CASE NothingPending(c) \/ PlanFails(c) \/ SetUp(c) \/ Dispatch(c)
        BY <1>2, <2>4 DEF NothingPending, PlanFails, SetUp, Dispatch, session
    <2>5. CASE \E ok, left \in BOOLEAN : Run(c, ok, left)
        BY <1>2, <2>5 DEF Run
    <2>6. CASE \E denied \in BOOLEAN : Propose(c, denied) \/ Retry(c, denied) \/ Approve(c, denied)
        BY <1>2, <2>6 DEF Propose, Retry, Approve, session
    <2>7. CASE \E ok \in BOOLEAN : Execute(c, ok) \/ ExecuteUnrecorded(c, ok) \/ Verify(c, ok)
        BY <1>2, <2>7 DEF Execute, ExecuteUnrecorded, Verify, session
    <2>8. CASE \E p \in Verified \X InFlight, read \in BOOLEAN : Resume(c, p, read)
        BY <1>2, <2>8 DEF Resume, session
    <2> QED BY <1>4, <2>1, <2>2, <2>3, <2>4, <2>5, <2>6, <2>7, <2>8 DEF Step
<1>5. ASSUME NEW c \in Client, Click(c) \/ \E via \in {"ask", "no", "yes"} : Say(c, via)
      PROVE  AnswersInv'
    BY <1>1, <1>2, <1>5 DEF Click, Say, session
<1>6. CASE Decline \/ Crash
    BY <1>1, <1>2, <1>6 DEF Decline, Crash, session
<1>7. ASSUME NEW a \in Action, Prepare(a) \/ Edit(a)
      PROVE  AnswersInv'
    BY <1>1, <1>2, <1>7 DEF Prepare, Edit, session, Choice
<1> QED BY <1>3, <1>4, <1>5, <1>6, <1>7 DEF Next

\* However clicks, messages and refusals interleave, a stored proposal is
\* approved or refused by one of them.
THEOREM ProposalsAreAnsweredOnce == Spec => []ProposalAnsweredOnce
<1>1. Init => AnswersInv
    BY DEF Init, AnswersInv
<1>2. AnswersInv /\ [Next]_vars => AnswersInv'
    BY AnswersStep
<1>3. AnswersInv => ProposalAnsweredOnce
    BY DEF AnswersInv, ProposalAnsweredOnce
<1> QED BY <1>1, <1>2, <1>3, PTL DEF Spec
-----------------------------------------------------------------------------
(* One write for all approvals of a git tool.                                  *)

\* The request is on its way to the write of the action, or is writing.
Heads(r, a) == r.pc \in {"proposing", "retrying", "approving", "executing"} /\ r.act = a

Alone == Verified \ overlapped

Clean == Alone \ unrecorded

OnlyResumesHaveLists == \A c \in Client : req[c].pc # "resuming" => req[c].todo = {}

OneCarries ==
    \A a \in Alone : \A c, d \in Client :
        Touches(req[c], a) /\ Touches(req[d], a) => c = d

\* What was written rests: no request heads for it, and no list says that it
\* was cut short.
WrittenRests ==
    \A a \in Clean \cap wrote :
        /\ record[a] \in {"verifying", "verified", "unverified"}
        /\ \A c \in Client : ~Heads(req[c], a) /\ <<a, "executing">> \notin req[c].todo

RepeatInv == OnlyResumesHaveLists /\ OneCarries /\ WrittenRests

\* The request of c goes on, gives up or ends, and touches nothing new.
Steady(c) ==
    /\ \A d \in Client \ {c} : req'[d] = req[d]
    /\ req'[c].pc # "resuming" => req'[c].todo = {}
    /\ req'[c].todo \subseteq req[c].todo
    /\ \A a \in Verified : Touches(req'[c], a) => Touches(req[c], a)
    /\ \A a \in Verified : Heads(req'[c], a) => Heads(req[c], a)

LEMMA SteadyWithout ==
    ASSUME NEW c \in Client, \A d \in Client \ {c} : req'[d] = req[d],
           req'[c].todo = {},
           req'[c].pc \in Carrying =>
               /\ req[c].pc \in Carrying /\ req'[c].act = req[c].act
               /\ Heads(req'[c], req[c].act) => Heads(req[c], req[c].act)
    PROVE  Steady(c)
BY DEF Steady, Touches, Heads, Carrying

\* What stays so when a request is steady.
LEMMA SteadyKeeps ==
    ASSUME RepeatInv, NEW c \in Client, Steady(c), UNCHANGED overlapped
    PROVE  /\ OnlyResumesHaveLists' /\ OneCarries'
           /\ Clean' \cap wrote' \subseteq Clean \cap wrote
              /\ (\A b \in Clean \cap wrote : record'[b] \in {"verifying", "verified", "unverified"})
              => WrittenRests'
<1>1. OnlyResumesHaveLists'
    BY DEF RepeatInv, OnlyResumesHaveLists, Steady
<1>2. Alone' = Alone /\ Alone \subseteq Verified /\ Clean \subseteq Verified
    BY DEF Alone, Clean
<1>3. OneCarries'
    <2> SUFFICES ASSUME NEW a \in Alone, NEW d \in Client, NEW e \in Client,
                        Touches(req'[d], a), Touches(req'[e], a)
                 PROVE  d = e
        BY <1>2 DEF OneCarries
    <2>1. Touches(req[d], a) /\ Touches(req[e], a)
        BY <1>2 DEF Steady
    <2> QED BY <2>1 DEF RepeatInv, OneCarries
<1>4. ASSUME Clean' \cap wrote' \subseteq Clean \cap wrote,
             \A b \in Clean \cap wrote : record'[b] \in {"verifying", "verified", "unverified"}
      PROVE  WrittenRests'
    <2> SUFFICES ASSUME NEW a \in Clean \cap wrote, NEW d \in Client
                 PROVE  ~Heads(req'[d], a) /\ <<a, "executing">> \notin req'[d].todo
        BY <1>2, <1>4 DEF WrittenRests
    <2>1. ~Heads(req[d], a) /\ <<a, "executing">> \notin req[d].todo
        BY DEF RepeatInv, WrittenRests
    <2> QED BY <1>2, <2>1 DEF Steady
<1> QED BY <1>1, <1>3, <1>4

LEMMA NothingCarried ==
    ASSUME TypeOK, RepeatInv, NEW c \in Client, Steady(c),
           UNCHANGED <<overlapped, unrecorded, wrote, record>>
    PROVE  RepeatInv'
BY SteadyKeeps DEF RepeatInv, WrittenRests, Clean, Alone

LEMMA RepeatTalk ==
    ASSUME TypeOK, RepeatInv, NEW c \in Client,
           \/ \E via \in {"ask", "no", "yes"} : Say(c, via)
           \/ \E left \in BOOLEAN : Answer(c, left)
           \/ NothingPending(c) \/ Conclude(c) \/ PlanFails(c)
           \/ Click(c) \/ SetUp(c) \/ Outcome(c)
           \/ \E ok, left \in BOOLEAN : Run(c, ok, left)
    PROVE  RepeatInv'
<1>1. UNCHANGED <<overlapped, unrecorded, wrote, record>>
    BY DEF Say, Answer, NothingPending, Conclude, PlanFails, Click, SetUp, Outcome, Run, ghosts
<1>2. c \in DOMAIN req /\ DOMAIN req = Client
    BY DEF TypeOK
<1>3. ASSUME NEW r, req' = [req EXCEPT ![c] = r], r.todo = {}, r.pc \notin Carrying
      PROVE  Steady(c)
    <2>1. req'[c] = r /\ \A d \in Client \ {c} : req'[d] = req[d]
        BY <1>2, <1>3
    <2> QED BY <1>3, <2>1, SteadyWithout
<1>4. ASSUME NEW pc, pc \notin Carrying, NEW act, NEW ok, Move(c, pc, act, {}, ok)
      PROVE  Steady(c)
    <2> DEFINE r == [pc |-> pc, via |-> req[c].via, act |-> act, todo |-> {}, ok |-> ok]
    <2>1. req' = [req EXCEPT ![c] = r]
        BY <1>4 DEF Move
    <2>2. r.todo = {} /\ r.pc \notin Carrying
        BY <1>4
    <2> HIDE DEF r
    <2> QED BY <1>3, <2>1, <2>2
<1>5. ASSUME NEW pc, pc \notin Carrying, NEW via, NEW act, Start(c, pc, via, act)
      PROVE  Steady(c)
    <2> DEFINE r == [pc |-> pc, via |-> via, act |-> act, todo |-> {}, ok |-> FALSE]
    <2>1. req' = [req EXCEPT ![c] = r]
        BY <1>5 DEF Start
    <2>2. r.todo = {} /\ r.pc \notin Carrying
        BY <1>5
    <2> HIDE DEF r
    <2> QED BY <1>3, <2>1, <2>2
<1>6. ASSUME End(c)
      PROVE  Steady(c)
    <2>1. req' = [req EXCEPT ![c] = Idle]
        BY <1>6 DEF End
    <2>2. Idle.todo = {} /\ Idle.pc \notin Carrying
        BY DEF Idle, Carrying
    <2> QED BY <1>3, <2>1, <2>2
<1>7. Steady(c)
    <2>1. ASSUME NEW pc \in {"planning", "running", "reading"}, Goto(c, pc)
          PROVE  Steady(c)
        BY <1>4, <2>1 DEF Goto, Carrying
    <2>2. ASSUME NEW ok, Tell(c, ok)
          PROVE  Steady(c)
        BY <1>4, <2>2 DEF Tell, Carrying
    <2>3. CASE Click(c) \/ \E via \in {"ask", "no", "yes"} : Say(c, via)
        BY <1>5, <2>3 DEF Click, Say, Carrying
    <2>4. CASE \E left \in BOOLEAN : Answer(c, left)
        <3>1. End(c) \/ Goto(c, "planning") \/ Move(c, "running", Pending(c), {}, FALSE)
            BY <2>4 DEF Answer
        <3> QED BY <1>4, <1>6, <2>1, <3>1 DEF Carrying
    <2>5. CASE NothingPending(c) \/ Conclude(c) \/ PlanFails(c) \/ Outcome(c)
        BY <1>6, <2>1, <2>5 DEF NothingPending, Conclude, PlanFails, Outcome
    <2>6. CASE SetUp(c)
        <3>1. Goto(c, "reading") \/ Goto(c, "running") \/ End(c)
            BY <2>6 DEF SetUp
        <3> QED BY <1>6, <2>1, <3>1
    <2>7. CASE \E ok, left \in BOOLEAN : Run(c, ok, left)
        BY <1>6, <2>1, <2>2, <2>7 DEF Run
    <2> QED BY <2>3, <2>4, <2>5, <2>6, <2>7
<1> QED BY <1>1, <1>7, NothingCarried

\* A request that heads for the write has not written.
LEMMA HeadingIsUnwritten ==
    ASSUME RepeatInv, NEW c \in Client, NEW a, Heads(req[c], a)
    PROVE  a \notin Clean \cap wrote
BY DEF RepeatInv, WrittenRests

LEMMA RepeatPropose ==
    ASSUME TypeOK, RepeatInv, NEW c \in Client, NEW denied \in BOOLEAN,
           Propose(c, denied) \/ Retry(c, denied) \/ Approve(c, denied)
    PROVE  RepeatInv'
<1> DEFINE a == req[c].act
<1>1. ReqOK /\ RecordOK
    BY TypeParts
<1>2. a \in Verified /\ a \in Action
    BY <1>1, VerifiedKept DEF Propose, Retry, Approve, Carrying
<1>3. UNCHANGED <<overlapped, unrecorded, wrote>>
    BY DEF Propose, Retry, Approve, ghosts
<1>4. Heads(req[c], a) /\ req[c].pc \in Carrying
    BY DEF Heads, Propose, Retry, Approve, Carrying
<1>5. Steady(c)
    <2>1. CASE End(c)
        <3>1. req'[c] = Idle /\ \A d \in Client \ {c} : req'[d] = req[d]
            BY <1>1, <2>1, EndFits
        <3> QED BY <3>1, SteadyWithout DEF Idle, Carrying
    <2>2. CASE Tell(c, FALSE)
        <3>1. /\ req'[c] = [pc |-> "outcome", via |-> req[c].via, act |-> a, todo |-> {}, ok |-> FALSE]
              /\ \A d \in Client \ {c} : req'[d] = req[d]
            BY <1>1, <1>2, <2>2, TellFits
        <3> QED BY <3>1, SteadyWithout DEF Carrying
    <2>3. ASSUME NEW pc \in {"approving", "executing"}, Goto(c, pc)
          PROVE  Steady(c)
        <3>1. /\ req'[c] = [pc |-> pc, via |-> req[c].via, act |-> a, todo |-> {}, ok |-> FALSE]
              /\ \A d \in Client \ {c} : req'[d] = req[d]
            BY <1>1, <1>2, <2>3, GotoFits DEF Carrying
        <3> QED BY <1>4, <3>1, SteadyWithout
    <2> QED BY <2>1, <2>2, <2>3 DEF Propose, Retry, Approve
<1>6. \A b \in Verified \ {a} : record'[b] = record[b]
    BY <1>1, <1>2, SaveFits DEF Propose, Retry, Approve, Save, RecordOK
<1>7. ASSUME NEW b \in Clean \cap wrote
      PROVE  record'[b] \in {"verifying", "verified", "unverified"}
    <2>1. b # a
        BY <1>4, HeadingIsUnwritten
    <2>2. b \in Verified /\ record[b] \in {"verifying", "verified", "unverified"}
        BY DEF Clean, Alone, RepeatInv, WrittenRests
    <2> QED BY <1>6, <2>1, <2>2
<1>8. Clean' \cap wrote' \subseteq Clean \cap wrote
    BY <1>3 DEF Clean, Alone
<1> QED BY <1>3, <1>5, <1>7, <1>8, SteadyKeeps DEF RepeatInv

LEMMA RepeatExecute ==
    ASSUME TypeOK, RepeatInv, NEW c \in Client, NEW ok \in BOOLEAN, Execute(c, ok)
    PROVE  RepeatInv'
<1> DEFINE a == req[c].act
<1>1. ReqOK /\ RecordOK
    BY TypeParts
<1>2. a \in Verified /\ a \in Action
    BY <1>1, VerifiedKept DEF Execute, Carrying
<1>3. UNCHANGED overlapped
    BY DEF Execute
<1>4. Heads(req[c], a) /\ Touches(req[c], a) /\ req[c].pc \in Carrying
    BY DEF Heads, Touches, Execute, Carrying
<1>5. CASE ~ok
    <2>1. /\ req'[c] = [pc |-> "outcome", via |-> req[c].via, act |-> a, todo |-> {}, ok |-> FALSE]
          /\ \A d \in Client \ {c} : req'[d] = req[d]
        BY <1>1, <1>2, <1>5, TellFits DEF Execute
    <2>2. Steady(c)
        BY <2>1, SteadyWithout DEF Carrying
    <2>3. \A b \in Verified \ {a} : record'[b] = record[b]
        BY <1>1, <1>2, <1>5, SaveFits DEF Execute, Statuses
    <2>4. ASSUME NEW b \in Clean \cap wrote
          PROVE  record'[b] \in {"verifying", "verified", "unverified"}
        <3>1. b # a
            BY <1>4, HeadingIsUnwritten
        <3>2. b \in Verified /\ record[b] \in {"verifying", "verified", "unverified"}
            BY DEF Clean, Alone, RepeatInv, WrittenRests
        <3> QED BY <2>3, <3>1, <3>2
    <2>5. Clean' \cap wrote' \subseteq Clean \cap wrote
        BY <1>5 DEF Execute, Clean, Alone
    <2> QED BY <1>3, <2>2, <2>4, <2>5, SteadyKeeps DEF RepeatInv
<1>6. CASE ok
    <2>1. /\ req'[c] = [pc |-> "verifying", via |-> req[c].via, act |-> a, todo |-> {}, ok |-> FALSE]
          /\ \A d \in Client \ {c} : req'[d] = req[d]
        BY <1>1, <1>2, <1>6, GotoFits DEF Execute, Carrying
    <2>2. Steady(c)
        BY <1>4, <2>1, SteadyWithout DEF Heads
    <2>3. record'[a] = "verifying" /\ \A b \in Verified \ {a} : record'[b] = record[b]
        BY <1>1, <1>2, <1>6, SaveFits DEF Execute, Statuses, InFlight
    <2>4. wrote' = wrote \cup {a} /\ Clean' \subseteq Clean \cup {a} /\ Clean' \subseteq Alone
        BY <1>3, <1>6 DEF Execute, Clean, Alone
    <2>5. WrittenRests'
        <3> SUFFICES ASSUME NEW b \in Alone, b \in Clean \cup {a}, b \in wrote \cup {a}
                     PROVE  /\ record'[b] \in {"verifying", "verified", "unverified"}
                            /\ \A d \in Client : ~Heads(req'[d], b) /\ <<b, "executing">> \notin req'[d].todo
            BY <2>4 DEF WrittenRests
        <3>1. CASE b = a
            <4>1. ASSUME NEW d \in Client \ {c}
                  PROVE  ~Heads(req[d], b) /\ <<b, "executing">> \notin req[d].todo
                <5>1. ~Touches(req[d], b)
                    BY <1>4, <3>1 DEF RepeatInv, OneCarries
                <5>2. <<b, "executing">> \in req[d].todo => req[d].pc \in Carrying
                    BY DEF RepeatInv, OnlyResumesHaveLists, Carrying
                <5> QED BY <5>1, <5>2 DEF Touches, Heads, Carrying, InFlight
            <4> QED BY <2>1, <2>3, <3>1, <4>1 DEF Heads
        <3>2. CASE b # a
            <4>1. b \in Verified /\ b \in Clean \cap wrote
                BY <3>2 DEF Clean, Alone
            <4>2. record[b] \in {"verifying", "verified", "unverified"}
                BY <4>1 DEF RepeatInv, WrittenRests
            <4>3. \A d \in Client : ~Heads(req[d], b) /\ <<b, "executing">> \notin req[d].todo
                BY <4>1 DEF RepeatInv, WrittenRests
            <4> QED BY <2>2, <2>3, <3>2, <4>1, <4>2, <4>3 DEF Steady
        <3> QED BY <3>1, <3>2
    <2> QED BY <1>3, <2>2, <2>5, SteadyKeeps DEF RepeatInv
<1> QED BY <1>5, <1>6

LEMMA RepeatVerify ==
    ASSUME TypeOK, RepeatInv, NEW c \in Client, NEW read \in BOOLEAN, Verify(c, read)
    PROVE  RepeatInv'
<1> DEFINE a == req[c].act
<1>1. ReqOK /\ RecordOK
    BY TypeParts
<1>2. a \in Verified /\ a \in Action
    BY <1>1, VerifiedKept DEF Verify, Carrying
<1>3. /\ req'[c] = [pc |-> "outcome", via |-> req[c].via, act |-> a, todo |-> {}, ok |-> Confirms(a, read)]
      /\ \A d \in Client \ {c} : req'[d] = req[d]
    BY <1>1, <1>2, TellFits DEF Verify, Confirms
<1>4. Steady(c)
    BY <1>3, SteadyWithout DEF Carrying
<1>5. record'[a] \in {"verified", "unverified"} /\ \A b \in Verified \ {a} : record'[b] = record[b]
    BY <1>1, <1>2, SaveFits DEF Verify, Statuses
<1>6. ASSUME NEW b \in Clean \cap wrote
      PROVE  record'[b] \in {"verifying", "verified", "unverified"}
    BY <1>5 DEF Clean, Alone, RepeatInv, WrittenRests
<1>7. Clean' \cap wrote' \subseteq Clean \cap wrote
    BY DEF Verify, Clean, Alone
<1> QED BY <1>4, <1>6, <1>7, SteadyKeeps DEF RepeatInv, Verify

LEMMA RepeatUnrecorded ==
    ASSUME TypeOK, RepeatInv, NEW c \in Client, NEW ok \in BOOLEAN, ExecuteUnrecorded(c, ok)
    PROVE  RepeatInv'
<1>1. ReqOK
    BY TypeParts
<1>2. Steady(c)
    <2>1. req'[c] = Idle /\ \A d \in Client \ {c} : req'[d] = req[d]
        BY <1>1, EndFits DEF ExecuteUnrecorded
    <2> QED BY <2>1, SteadyWithout DEF Idle, Carrying
<1>3. Clean' \cap wrote' \subseteq Clean \cap wrote
    BY DEF ExecuteUnrecorded, Clean, Alone
<1>4. \A b \in Clean \cap wrote : record'[b] \in {"verifying", "verified", "unverified"}
    BY DEF ExecuteUnrecorded, RepeatInv, WrittenRests
<1> QED BY <1>2, <1>3, <1>4, SteadyKeeps DEF RepeatInv, ExecuteUnrecorded

LEMMA RepeatResume ==
    ASSUME TypeOK, RepeatInv, NEW c \in Client, NEW p \in Verified \X InFlight,
           NEW read \in BOOLEAN, Resume(c, p, read)
    PROVE  RepeatInv'
<1> DEFINE rest == Remaining(req[c].todo, p)
           status == IF Confirms(p[1], read) THEN "verified"
                     ELSE IF p[2] = "executing" THEN "failed" ELSE "unverified"
<1>1. ReqOK /\ RecordOK
    BY TypeParts
<1>2. req[c].act \in Verified /\ req[c].act \in Action /\ p[1] \in Verified
    BY <1>1, VerifiedKept DEF Resume, Carrying
<1>3. Steady(c)
    <2>1. CASE rest = {}
        <3>1. PICK told \in BOOLEAN : Tell(c, told)
            BY <2>1 DEF Resume
        <3>2. /\ req'[c] = [pc |-> "outcome", via |-> req[c].via, act |-> req[c].act,
                            todo |-> {}, ok |-> told]
              /\ \A d \in Client \ {c} : req'[d] = req[d]
            BY <1>1, <1>2, <3>1, TellFits
        <3> QED BY <3>2, SteadyWithout DEF Carrying
    <2>2. CASE rest # {}
        <3>1. Move(c, "resuming", req[c].act, rest, FALSE)
            BY <2>2 DEF Resume
        <3>2. rest \subseteq req[c].todo
            BY DEF Remaining
        <3> HIDE DEF rest
        <3>3. /\ req'[c] = [pc |-> "resuming", via |-> req[c].via, act |-> req[c].act,
                            todo |-> rest, ok |-> FALSE]
              /\ \A d \in Client \ {c} : req'[d] = req[d]
            BY <1>1, <3>1 DEF Move, ReqOK
        <3> QED BY <3>2, <3>3 DEF Steady, Touches, Heads, Resume
    <2> QED BY <2>1, <2>2
<1>4. Save(p[1], status)
    BY DEF Resume
<1>5. status \in Statuses
    BY DEF Statuses
<1>6. ASSUME NEW b \in Clean \cap wrote
      PROVE  record'[b] \in {"verifying", "verified", "unverified"}
    <2>1. b \in Verified /\ record[b] \in {"verifying", "verified", "unverified"}
        BY DEF Clean, Alone, RepeatInv, WrittenRests
    <2>2. b = p[1] => p[2] # "executing"
        <3>1. <<b, "executing">> \notin req[c].todo
            BY DEF RepeatInv, WrittenRests
        <3>2. p = <<p[1], p[2]>> /\ p \in req[c].todo
            BY DEF Resume
        <3> QED BY <3>1, <3>2
    <2>3. b = p[1] => status \in {"verified", "unverified"}
        BY <2>2
    <2> HIDE DEF status
    <2> QED BY <1>1, <1>2, <1>4, <1>5, <2>1, <2>3, SaveFits
<1>7. UNCHANGED <<overlapped, unrecorded, wrote>>
    BY DEF Resume
<1>8. Clean' \cap wrote' \subseteq Clean \cap wrote
    BY <1>7 DEF Clean, Alone
<1> QED BY <1>3, <1>6, <1>7, <1>8, SteadyKeeps DEF RepeatInv

LEMMA RepeatDispatch ==
    ASSUME TypeOK, RepeatInv, NEW c \in Client, Dispatch(c)
    PROVE  RepeatInv'
<1> DEFINE a == req[c].act
           flying == {p \in Verified \X InFlight : record[p[1]] = p[2]}
<1>1. ReqOK /\ RecordOK
    BY TypeParts
<1>2. a \in Verified /\ a \in Action
    BY <1>1, VerifiedKept DEF Dispatch
<1>3. /\ \A d \in Client \ {c} : req'[d] = req[d]
      /\ \/ req'[c].pc = "proposing" /\ req'[c].todo = {} /\ record[a] = "none"
         \/ req'[c].pc = "retrying" /\ req'[c].todo = {} /\ record[a] = "failed"
         \/ req'[c].pc = "resuming" /\ req'[c].todo = flying
         \/ req'[c].pc = "outcome" /\ req'[c].todo = {}
      /\ req'[c].act = a
    <2> DEFINE Reached(pc, todo) ==
            /\ \A d \in Client \ {c} : req'[d] = req[d]
            /\ req'[c].pc = pc /\ req'[c].todo = todo /\ req'[c].act = a
    <2>1. ASSUME NEW pc \in {"proposing", "retrying"}, Goto(c, pc)
          PROVE  Reached(pc, {})
        <3>1. /\ req'[c] = [pc |-> pc, via |-> req[c].via, act |-> a, todo |-> {}, ok |-> FALSE]
              /\ \A d \in Client \ {c} : req'[d] = req[d]
            BY <1>1, <1>2, <2>1, GotoFits DEF Carrying
        <3> QED BY <3>1
    <2>2. ASSUME Move(c, "resuming", a, flying, FALSE)
          PROVE  Reached("resuming", flying)
        <3> HIDE DEF flying
        <3> QED BY <1>1, <2>2 DEF Move, ReqOK
    <2>3. ASSUME NEW ok \in BOOLEAN, Tell(c, ok)
          PROVE  Reached("outcome", {})
        <3>1. /\ req'[c] = [pc |-> "outcome", via |-> req[c].via, act |-> a, todo |-> {}, ok |-> ok]
              /\ \A d \in Client \ {c} : req'[d] = req[d]
            BY <1>1, <1>2, <2>3, TellFits
        <3> QED BY <3>1
    <2>4. \/ record[a] = "none" /\ Goto(c, "proposing")
          \/ record[a] = "failed" /\ Goto(c, "retrying")
          \/ Move(c, "resuming", a, flying, FALSE)
          \/ \E ok \in BOOLEAN : Tell(c, ok)
        BY DEF Dispatch, Retries
    <2> HIDE DEF flying
    <2> QED BY <2>1, <2>2, <2>3, <2>4
<1>4. /\ UNCHANGED <<record, wrote, unrecorded>>
      /\ overlapped' = overlapped \cup
             {b \in Verified : Touches(req'[c], b) /\ \E d \in Client \ {c} : Touches(req[d], b)}
    BY DEF Dispatch
<1>5. Clean' \subseteq Clean /\ Alone' \subseteq Alone /\ Alone \subseteq Verified
    BY <1>4 DEF Clean, Alone
<1>6. OnlyResumesHaveLists'
    BY <1>3 DEF RepeatInv, OnlyResumesHaveLists
<1>7. OneCarries'
    <2> SUFFICES ASSUME NEW b \in Alone', NEW d \in Client, NEW e \in Client,
                        Touches(req'[d], b), Touches(req'[e], b), d # e
                 PROVE  FALSE
        BY DEF OneCarries
    <2>1. b \in Alone /\ b \in Verified /\ b \notin overlapped'
        BY <1>5 DEF Alone
    <2>2. CASE d # c /\ e # c
        BY <1>3, <2>1, <2>2 DEF RepeatInv, OneCarries
    <2>3. CASE d = c
        BY <1>3, <1>4, <2>1, <2>3
    <2>4. CASE e = c
        BY <1>3, <1>4, <2>1, <2>4
    <2> QED BY <2>2, <2>3, <2>4
<1>8. WrittenRests'
    <2> SUFFICES ASSUME NEW b \in Clean \cap wrote, NEW d \in Client
                 PROVE  /\ record[b] \in {"verifying", "verified", "unverified"}
                        /\ ~Heads(req'[d], b) /\ <<b, "executing">> \notin req'[d].todo
        BY <1>4, <1>5 DEF WrittenRests
    <2>1. /\ record[b] \in {"verifying", "verified", "unverified"}
          /\ ~Heads(req[d], b) /\ <<b, "executing">> \notin req[d].todo
        BY DEF RepeatInv, WrittenRests
    <2>2. CASE d = c
        <3>1. ~Heads(req'[c], b)
            BY <1>3, <2>1 DEF Heads
        <3>2. <<b, "executing">> \notin flying
            BY <2>1
        <3> HIDE DEF flying
        <3> QED BY <1>3, <2>1, <2>2, <3>1, <3>2
    <2> QED BY <1>3, <2>1, <2>2
<1> QED BY <1>6, <1>7, <1>8 DEF RepeatInv

LEMMA RepeatWorld ==
    ASSUME TypeOK, RepeatInv, Decline \/ Crash \/ \E a \in Action : Prepare(a) \/ Edit(a)
    PROVE  RepeatInv'
<1>1. CASE Crash
    <2>1. /\ \A c \in Client : req'[c].pc = "idle" /\ req'[c].todo = {}
          /\ UNCHANGED <<record, wrote, overlapped>> /\ unrecorded \subseteq unrecorded'
        BY <1>1 DEF Crash, Idle
    <2>2. Clean' \subseteq Clean
        BY <2>1 DEF Clean, Alone
    <2>3. \A c \in Client, a \in Verified : ~Touches(req'[c], a) /\ ~Heads(req'[c], a)
        BY <2>1 DEF Touches, Heads, Carrying
    <2>4. OnlyResumesHaveLists'
        BY <2>1 DEF OnlyResumesHaveLists
    <2>5. OneCarries'
        BY <2>3 DEF OneCarries, Alone
    <2>6. WrittenRests'
        <3> SUFFICES ASSUME NEW a \in Clean' \cap wrote
                     PROVE  /\ record'[a] \in {"verifying", "verified", "unverified"}
                            /\ \A c \in Client : ~Heads(req'[c], a) /\ <<a, "executing">> \notin req'[c].todo
            BY <2>1 DEF WrittenRests
        <3>1. record'[a] \in {"verifying", "verified", "unverified"}
            BY <2>1, <2>2 DEF RepeatInv, WrittenRests
        <3> QED BY <2>1, <2>3, <3>1 DEF Clean, Alone
    <2> QED BY <2>4, <2>5, <2>6 DEF RepeatInv
<1>2. CASE Decline \/ \E a \in Action : Prepare(a) \/ Edit(a)
    <2>1. UNCHANGED <<req, record, wrote, overlapped, unrecorded>>
        BY <1>2 DEF Decline, Prepare, Edit, ghosts
    <2> QED BY <2>1 DEF RepeatInv, OnlyResumesHaveLists, OneCarries, WrittenRests, Clean, Alone
<1> QED BY <1>1, <1>2

LEMMA RepeatStep ==
    ASSUME TypeOK, RepeatInv, [Next]_vars
    PROVE  RepeatInv'
<1>1. CASE UNCHANGED vars
    BY <1>1 DEF vars, RepeatInv, OnlyResumesHaveLists, OneCarries, WrittenRests, Clean, Alone
<1>2. CASE Next
    BY <1>2, RepeatTalk, RepeatPropose, RepeatExecute, RepeatUnrecorded, RepeatVerify, RepeatResume,
       RepeatDispatch, RepeatWorld DEF Next, Step
<1> QED BY <1>1, <1>2

\* A git tool that has reported success runs again for a later approval of the
\* same call in two cases only: two requests carried it out at once, or its last
\* execution left no trace in the record, because the daemon died or an append to
\* the transcript threw.
THEOREM WritesAreNotRepeated == Spec => WritesNotRepeated
<1>1. Init => RepeatInv
    BY DEF Init, RepeatInv, OnlyResumesHaveLists, OneCarries, WrittenRests, Touches, Carrying, Idle
<1>2. TypeOK /\ RepeatInv /\ [Next]_vars => RepeatInv'
    BY RepeatStep
<1>3. TypeOK /\ RepeatInv /\ [Next]_vars =>
          [\A c \in Client :
              req[c].pc = "approving" /\ req'[c].pc = "executing" /\ req[c].act \in wrote
                 => req[c].act \in overlapped \cup unrecorded]_vars
    <2> SUFFICES ASSUME TypeOK, RepeatInv, NEW c \in Client,
                        req[c].pc = "approving", req[c].act \in wrote
                 PROVE  req[c].act \in overlapped \cup unrecorded
        OBVIOUS
    <2>1. Heads(req[c], req[c].act)
        BY DEF Heads
    <2>2. req[c].act \notin Clean
        BY <2>1, HeadingIsUnwritten
    <2> QED BY <2>2 DEF Clean, Alone, TypeOK
<1>4. Spec => []TypeOK
    BY TypeCorrect
<1> QED BY <1>1, <1>2, <1>3, <1>4, PTL DEF Spec, WritesNotRepeated
-----------------------------------------------------------------------------
(* What a success says.                                                        *)

\* A click runs no git tool directly.
DirectInv ==
    \A c \in Client : req[c].pc = "running" /\ req[c].via = "click" => req[c].act \notin Verified

\* Only a "yes" and the set-up of a click make a request run.
LEMMA RunningComesFrom ==
    ASSUME TypeOK, NEW c \in Client, Step(c),
           req'[c].pc = "running", req'[c].via = "click"
    PROVE  req'[c].act \notin Verified
<1>1. ReqOK
    BY TypeParts
<1>2. ASSUME NEW pc, NEW act, NEW todo, NEW ok \in BOOLEAN, Move(c, pc, act, todo, ok)
      PROVE  pc = "running" /\ req[c].via = "click" /\ req'[c].act = act
    <2>1. req'[c] = [pc |-> pc, via |-> req[c].via, act |-> act, todo |-> todo, ok |-> ok]
        BY <1>1, <1>2 DEF Move, ReqOK
    <2> QED BY <2>1
<1>3. ~End(c)
    BY <1>1 DEF End, Idle, ReqOK
<1>4. ASSUME NEW ok \in BOOLEAN, Tell(c, ok)
      PROVE  FALSE
    BY <1>2, <1>4 DEF Tell
<1>5. ASSUME NEW pc, Goto(c, pc)
      PROVE  pc = "running" /\ req'[c].act = req[c].act
    BY <1>2, <1>5 DEF Goto
<1>6. ASSUME NEW left \in BOOLEAN, Answer(c, left)
      PROVE  FALSE
    <2>1. End(c) \/ Goto(c, "planning")
          \/ (req[c].via = "yes" /\ Move(c, "running", Pending(c), {}, FALSE))
        BY <1>6 DEF Answer
    <2>2. CASE Goto(c, "planning")
        BY <1>5, <2>2
    <2>3. CASE req[c].via = "yes" /\ Move(c, "running", Pending(c), {}, FALSE)
        BY <1>2, <2>3
    <2> QED BY <1>3, <2>1, <2>2, <2>3
<1>7. ASSUME NothingPending(c) \/ Conclude(c) \/ PlanFails(c) \/ Outcome(c)
      PROVE  FALSE
    BY <1>3, <1>5, <1>7 DEF NothingPending, Conclude, PlanFails, Outcome
<1>8. CASE SetUp(c)
    BY <1>3, <1>5, <1>8 DEF SetUp
<1>9. ASSUME NEW ok \in BOOLEAN, NEW left \in BOOLEAN, Run(c, ok, left)
      PROVE  FALSE
    BY <1>3, <1>4, <1>5, <1>9 DEF Run
<1>10. ASSUME Dispatch(c)
       PROVE  FALSE
    <2> DEFINE flying == {p \in Verified \X InFlight : record[p[1]] = p[2]}
    <2>1. \/ \E pc \in {"proposing", "retrying"} : Goto(c, pc)
          \/ Move(c, "resuming", req[c].act, flying, FALSE)
          \/ \E ok \in BOOLEAN : Tell(c, ok)
        BY <1>10 DEF Dispatch
    <2> HIDE DEF flying
    <2>2. CASE Move(c, "resuming", req[c].act, flying, FALSE)
        BY <1>2, <2>2
    <2> QED BY <1>4, <1>5, <2>1, <2>2
<1>11. ASSUME NEW denied \in BOOLEAN, Propose(c, denied) \/ Retry(c, denied) \/ Approve(c, denied)
       PROVE  FALSE
    <2>1. \/ End(c) \/ \E ok \in BOOLEAN : Tell(c, ok)
          \/ \E pc \in {"approving", "executing"} : Goto(c, pc)
        BY <1>11 DEF Propose, Retry, Approve
    <2> QED BY <1>3, <1>4, <1>5, <2>1
<1>12. ASSUME NEW ok \in BOOLEAN, Execute(c, ok) \/ ExecuteUnrecorded(c, ok) \/ Verify(c, ok)
       PROVE  FALSE
    <2>1. Goto(c, "verifying") \/ \E ok2 \in BOOLEAN : Tell(c, ok2)
        <3>1. Confirms(req[c].act, ok) \in BOOLEAN
            BY DEF Confirms
        <3> QED BY <1>3, <1>12, <3>1 DEF Execute, ExecuteUnrecorded, Verify
    <2> QED BY <1>4, <1>5, <2>1
<1>13. ASSUME NEW p \in Verified \X InFlight, NEW read \in BOOLEAN, Resume(c, p, read)
       PROVE  FALSE
    BY <1>2, <1>4, <1>13 DEF Resume
<1> QED BY <1>6, <1>7, <1>8, <1>9, <1>10, <1>11, <1>12, <1>13 DEF Step

\* A step leaves the requests of the others alone.
LEMMA OthersStay ==
    ASSUME TypeOK, NEW c \in Client, NEW d \in Client \ {c},
           Step(c) \/ Click(c) \/ \E via \in {"ask", "no", "yes"} : Say(c, via)
    PROVE  req'[d] = req[d]
<1>1. ReqOK
    BY TypeParts
<1>2. ASSUME NEW r, req' = [req EXCEPT ![c] = r]
      PROVE  req'[d] = req[d]
    BY <1>1, <1>2 DEF ReqOK
<1>3. ASSUME NEW pc, NEW act, NEW todo, NEW ok, Move(c, pc, act, todo, ok)
      PROVE  req'[d] = req[d]
    BY <1>1, <1>3 DEF ReqOK, Move
<1>4. ASSUME NEW pc, NEW via, NEW a, Start(c, pc, via, a)
      PROVE  req'[d] = req[d]
    BY <1>1, <1>4 DEF ReqOK, Start
<1>5. ASSUME NEW pc, Goto(c, pc)
      PROVE  req'[d] = req[d]
    BY <1>3, <1>5 DEF Goto
<1>6. ASSUME NEW ok, Tell(c, ok)
      PROVE  req'[d] = req[d]
    BY <1>3, <1>6 DEF Tell
<1>7. ASSUME End(c)
      PROVE  req'[d] = req[d]
    BY <1>2, <1>7 DEF End
<1>8. ASSUME Click(c) \/ \E via \in {"ask", "no", "yes"} : Say(c, via)
      PROVE  req'[d] = req[d]
    BY <1>4, <1>8 DEF Click, Say
<1>9. ASSUME \/ \E left \in BOOLEAN : Answer(c, left)
             \/ NothingPending(c) \/ Conclude(c) \/ PlanFails(c) \/ SetUp(c) \/ Outcome(c)
      PROVE  req'[d] = req[d]
    BY <1>3, <1>5, <1>7, <1>9 DEF Answer, NothingPending, Conclude, PlanFails, SetUp, Outcome
<1>10. ASSUME \E ok, left \in BOOLEAN : Run(c, ok, left)
       PROVE  req'[d] = req[d]
    BY <1>5, <1>6, <1>7, <1>10 DEF Run
<1>11. ASSUME Dispatch(c)
       PROVE  req'[d] = req[d]
    BY <1>3, <1>5, <1>6, <1>11 DEF Dispatch
<1>12. ASSUME \E denied \in BOOLEAN : Propose(c, denied) \/ Retry(c, denied) \/ Approve(c, denied)
       PROVE  req'[d] = req[d]
    BY <1>5, <1>6, <1>7, <1>12 DEF Propose, Retry, Approve
<1>13. ASSUME \E ok \in BOOLEAN : Execute(c, ok) \/ ExecuteUnrecorded(c, ok) \/ Verify(c, ok)
       PROVE  req'[d] = req[d]
    BY <1>5, <1>6, <1>7, <1>13 DEF Execute, ExecuteUnrecorded, Verify
<1>14. ASSUME \E p \in Verified \X InFlight, read \in BOOLEAN : Resume(c, p, read)
       PROVE  req'[d] = req[d]
    BY <1>3, <1>6, <1>14 DEF Resume
<1> QED BY <1>8, <1>9, <1>10, <1>11, <1>12, <1>13, <1>14 DEF Step

LEMMA DirectStep ==
    ASSUME TypeOK, DirectInv, [Next]_vars
    PROVE  DirectInv'
<1>1. ReqOK
    BY TypeParts
<1>2. CASE UNCHANGED req
    BY <1>2 DEF DirectInv
<1>3. ASSUME NEW c \in Client,
             Step(c) \/ Click(c) \/ \E via \in {"ask", "no", "yes"} : Say(c, via)
      PROVE  DirectInv'
    <2>1. \A d \in Client \ {c} : req'[d] = req[d]
        BY <1>3, OthersStay
    <2>2. req'[c].pc = "running" /\ req'[c].via = "click" => req'[c].act \notin Verified
        <3>1. CASE Step(c)
            BY <3>1, RunningComesFrom
        <3>2. CASE Click(c) \/ \E via \in {"ask", "no", "yes"} : Say(c, via)
            <4>1. ASSUME NEW pc, NEW via, NEW a, Start(c, pc, via, a)
                  PROVE  req'[c].pc = pc
                BY <1>1, <4>1 DEF Start, ReqOK
            <4> QED BY <3>2, <4>1 DEF Click, Say
        <3> QED BY <1>3, <3>1, <3>2
    <2> QED BY <2>1, <2>2 DEF DirectInv
<1>4. CASE Crash
    BY <1>4 DEF Crash, DirectInv, Idle
<1>5. CASE Decline \/ \E a \in Action : Prepare(a) \/ Edit(a)
    BY <1>2, <1>5 DEF Decline, Prepare, Edit
<1> QED BY <1>2, <1>3, <1>4, <1>5 DEF Next, vars

\* The step that tells a request how its git tool ended.
LEMMA SuccessIsSeen ==
    ASSUME TypeOK, DirectInv, NEW c \in Client, Step(c), req[c].pc # "outcome",
           req'[c].pc = "outcome", req'[c].act \in Verified, req'[c].ok
    PROVE  seen'[c] \/ record[req[c].act] = "verified"
<1>1. ReqOK /\ RecordOK /\ GhostsOK
    BY TypeParts
<1>2. ASSUME NEW pc, NEW act, NEW todo, NEW ok \in BOOLEAN, Move(c, pc, act, todo, ok)
      PROVE  pc = "outcome" /\ ok /\ act \in Verified
    <2>1. req'[c] = [pc |-> pc, via |-> req[c].via, act |-> act, todo |-> todo, ok |-> ok]
        BY <1>1, <1>2 DEF Move, ReqOK
    <2> QED BY <2>1
<1>3. ~End(c)
    BY <1>1 DEF End, Idle, ReqOK
<1>4. ASSUME NEW ok \in BOOLEAN, Tell(c, ok)
      PROVE  ok /\ req[c].act \in Verified
    BY <1>2, <1>4 DEF Tell
<1>5. ASSUME NEW pc, Goto(c, pc)
      PROVE  FALSE
    BY <1>2, <1>5 DEF Goto
<1>6. ASSUME NEW left \in BOOLEAN, Answer(c, left)
      PROVE  FALSE
    <2>1. \/ End(c) \/ Goto(c, "planning")
          \/ Move(c, "running", Pending(c), {}, FALSE)
        BY <1>6 DEF Answer
    <2>2. CASE Move(c, "running", Pending(c), {}, FALSE)
        BY <1>2, <2>2
    <2> QED BY <1>3, <1>5, <2>1, <2>2
<1>7. ASSUME NothingPending(c) \/ Conclude(c) \/ PlanFails(c) \/ SetUp(c) \/ Outcome(c)
      PROVE  FALSE
    BY <1>3, <1>5, <1>7 DEF NothingPending, Conclude, PlanFails, SetUp, Outcome
<1>8. ASSUME NEW ok \in BOOLEAN, NEW left \in BOOLEAN, Run(c, ok, left)
      PROVE  FALSE
    <2>1. req[c].pc = "running" /\ req[c].via = "click" /\ Tell(c, ok)
        BY <1>3, <1>5, <1>8 DEF Run
    <2> QED BY <1>4, <2>1 DEF DirectInv
<1>9. CASE Dispatch(c)
    <2> DEFINE flying == {p \in Verified \X InFlight : record[p[1]] = p[2]}
    <2>1. \/ \E pc \in {"proposing", "retrying"} : Goto(c, pc)
          \/ Move(c, "resuming", req[c].act, flying, FALSE)
          \/ record[req[c].act] = "verified" /\ Tell(c, TRUE)
          \/ Tell(c, FALSE)
        BY <1>9 DEF Dispatch
    <2> HIDE DEF flying
    <2>2. CASE Move(c, "resuming", req[c].act, flying, FALSE)
        BY <1>2, <2>2
    <2>3. CASE Tell(c, FALSE)
        BY <1>4, <2>3
    <2> QED BY <1>5, <2>1, <2>2, <2>3
<1>10. ASSUME NEW denied \in BOOLEAN, Propose(c, denied) \/ Retry(c, denied) \/ Approve(c, denied)
       PROVE  FALSE
    <2>1. \/ End(c) \/ Tell(c, FALSE)
          \/ \E pc \in {"approving", "executing"} : Goto(c, pc)
        BY <1>10 DEF Propose, Retry, Approve
    <2>2. CASE Tell(c, FALSE)
        BY <1>4, <2>2
    <2> QED BY <1>3, <1>5, <2>1, <2>2
<1>11. ASSUME NEW ok \in BOOLEAN, Execute(c, ok) \/ ExecuteUnrecorded(c, ok)
       PROVE  FALSE
    <2>1. Goto(c, "verifying") \/ Tell(c, FALSE) \/ End(c)
        BY <1>11 DEF Execute, ExecuteUnrecorded
    <2>2. CASE Tell(c, FALSE)
        BY <1>4, <2>2
    <2> QED BY <1>3, <1>5, <2>1, <2>2
<1>12. ASSUME NEW read \in BOOLEAN, Verify(c, read)
       PROVE  seen'[c]
    <2>1. Confirms(req[c].act, read) \in BOOLEAN
        BY DEF Confirms
    <2>2. Confirms(req[c].act, read)
        BY <1>4, <1>12, <2>1 DEF Verify
    <2> QED BY <1>12, <2>2 DEF Verify, Sight, Confirms
<1>13. ASSUME NEW p \in Verified \X InFlight, NEW read \in BOOLEAN, Resume(c, p, read)
       PROVE  seen'[c] \/ record[req[c].act] = "verified"
    <2> DEFINE rest == Remaining(req[c].todo, p)
               told == record'[req[c].act] = "verified"
    <2>1. Tell(c, told)
        <3>1. CASE rest = {}
            BY <1>13, <3>1 DEF Resume
        <3>2. CASE rest # {}
            <4>1. Move(c, "resuming", req[c].act, rest, FALSE)
                BY <1>13, <3>2 DEF Resume
            <4> HIDE DEF rest
            <4> QED BY <1>2, <4>1
        <3> QED BY <3>1, <3>2
    <2>2. told /\ req[c].act \in Verified
        <3>1. told \in BOOLEAN
            OBVIOUS
        <3> HIDE DEF told
        <3> QED BY <1>4, <2>1, <3>1
    <2>3. CASE req[c].act # p[1]
        BY <1>1, <1>13, <2>2, <2>3 DEF Resume, Save, RecordOK
    <2>4. CASE req[c].act = p[1]
        <3>1. record'[p[1]] = IF Confirms(p[1], read) THEN "verified"
                              ELSE IF p[2] = "executing" THEN "failed" ELSE "unverified"
            BY <1>1, <1>13 DEF Resume, Save, RecordOK
        <3>2. Confirms(p[1], read)
            BY <2>2, <2>4, <3>1
        <3> QED BY <1>13, <2>4, <3>2 DEF Resume, Sight, Confirms
    <2> QED BY <2>3, <2>4
<1> QED BY <1>6, <1>7, <1>8, <1>9, <1>10, <1>11, <1>12, <1>13 DEF Step

\* Only a step of the request itself takes it to its outcome.
LEMMA OutcomesComeFromSteps ==
    ASSUME TypeOK, Next, NEW c \in Client, req[c].pc # "outcome", req'[c].pc = "outcome"
    PROVE  Step(c)
<1>1. ReqOK
    BY TypeParts
<1>2. ASSUME NEW d \in Client \ {c},
             Step(d) \/ Click(d) \/ \E via \in {"ask", "no", "yes"} : Say(d, via)
      PROVE  FALSE
    BY <1>2, OthersStay
<1>3. ASSUME Click(c) \/ \E via \in {"ask", "no", "yes"} : Say(c, via)
      PROVE  FALSE
    <2>1. ASSUME NEW pc, NEW via, NEW a, Start(c, pc, via, a)
          PROVE  req'[c].pc = pc
        BY <1>1, <2>1 DEF Start, ReqOK
    <2> QED BY <1>3, <2>1 DEF Click, Say
<1>4. ASSUME Decline \/ Crash \/ \E a \in Action : Prepare(a) \/ Edit(a)
      PROVE  FALSE
    BY <1>4 DEF Decline, Crash, Prepare, Edit, Idle
<1> QED BY <1>2, <1>3, <1>4 DEF Next

\* Whatever a request has been through, a git tool is answered with success
\* when a re-read confirmed it meanwhile or its record was verified before.
THEOREM SuccessIsConfirmedOnce == Spec => OkIsConfirmedOnce
<1>1. Init => DirectInv
    BY DEF Init, DirectInv, Idle
<1>2. TypeOK /\ DirectInv /\ [Next]_vars => DirectInv'
    BY DirectStep
<1>3. TypeOK /\ DirectInv /\ [Next]_vars =>
          [\A c \in Client :
              req[c].pc # "outcome" /\ req'[c].pc = "outcome" /\ req'[c].act \in Verified
                 /\ req'[c].ok => seen'[c] \/ record[req[c].act] = "verified"]_vars
    <2> SUFFICES ASSUME TypeOK, DirectInv, Next, NEW c \in Client, req[c].pc # "outcome",
                        req'[c].pc = "outcome", req'[c].act \in Verified, req'[c].ok
                 PROVE  seen'[c] \/ record[req[c].act] = "verified"
        OBVIOUS
    <2>1. Step(c)
        BY OutcomesComeFromSteps
    <2> QED BY <2>1, SuccessIsSeen
<1>4. Spec => []TypeOK
    BY TypeCorrect
<1> QED BY <1>1, <1>2, <1>3, <1>4, PTL DEF Spec, OkIsConfirmedOnce

-----------------------------------------------------------------------------
\* What a verified record is worth.

VerifiedIsShown == \A a \in Verified : record[a] = "verified" => a \in shown

LEMMA ShownStep ==
    ASSUME TypeOK, VerifiedIsShown, MaxEdits = 0, [Next]_vars
    PROVE  VerifiedIsShown'
<1>1. \A a \in Action : ~Edit(a)
    BY DEF Edit, Charge, Bounds, TypeOK
<1>2. shown \subseteq shown'
    <2>1. ASSUME NEW c \in Client, Step(c) PROVE shown \subseteq shown'
        BY <2>1 DEF Step, Answer, NothingPending, Conclude, PlanFails, SetUp, Run, Dispatch,
                  Propose, Retry, Approve, Execute, ExecuteUnrecorded, Verify, Resume, Outcome
    <2> QED BY <1>1, <2>1 DEF Next, vars, Click, Say, Decline, Crash, Prepare
<1>3. ASSUME NEW a \in Verified, record'[a] = "verified", record[a] # "verified"
      PROVE  a \in shown'
    <2>1. record' # record
        BY <1>3
    <2>2. PICK c \in Client : Step(c)
        BY <1>1, <2>1 DEF Next, vars, Click, Say, Decline, Crash, Prepare
    <2>3. ASSUME NEW b \in Verified, NEW status, Save(b, status) PROVE a = b /\ status = "verified"
        BY <1>3, <2>3 DEF Save, TypeOK
    <2>4. CASE \E denied \in BOOLEAN : Propose(c, denied) \/ Retry(c, denied) \/ Approve(c, denied)
        <3>1. req[c].act \in Verified
            BY <2>4 DEF Propose, Retry, Approve, TypeOK, Carrying
        <3>2. PICK status \in {"failed", "awaiting", "stale", "executing"} : Save(req[c].act, status)
            BY <2>1, <2>4 DEF Propose, Retry, Approve
        <3> QED BY <2>3, <3>1, <3>2
    <2>5. ASSUME NEW ok \in BOOLEAN, Execute(c, ok) PROVE FALSE
        <3>1. req[c].act \in Verified
            BY <2>5 DEF Execute, TypeOK, Carrying
        <3>2. PICK status \in {"failed", "verifying"} : Save(req[c].act, status)
            BY <2>5 DEF Execute
        <3> QED BY <2>3, <3>1, <3>2
    <2>6. ASSUME NEW ok \in BOOLEAN, Verify(c, ok) PROVE a \in shown'
        <3>1. req[c].act \in Verified
            BY <2>6 DEF Verify, TypeOK, Carrying
        <3>2. a = req[c].act /\ Confirms(req[c].act, ok)
            BY <2>3, <2>6, <3>1 DEF Verify
        <3> QED BY <1>2, <3>2 DEF Confirms
    <2>7. ASSUME NEW p \in Verified \X InFlight, NEW read \in BOOLEAN, Resume(c, p, read)
          PROVE  a \in shown'
        <3>1. a = p[1] /\ Confirms(p[1], read)
            BY <2>3, <2>7 DEF Resume
        <3> QED BY <1>2, <3>1 DEF Confirms
    <2> QED BY <2>1, <2>2, <2>4, <2>5, <2>6, <2>7
            DEF Step, Answer, NothingPending, Conclude, PlanFails, SetUp, Run, Dispatch,
                ExecuteUnrecorded, Outcome
<1> QED BY <1>2, <1>3 DEF VerifiedIsShown

LEMMA OutcomeIsOfAct ==
    ASSUME TypeOK, NEW c \in Client, Step(c), req[c].pc # "outcome", req'[c].pc = "outcome"
    PROVE  req'[c].act = req[c].act
<1>1. ReqOK
    BY TypeParts
<1>2. ASSUME NEW pc, NEW act, NEW todo, NEW ok, Move(c, pc, act, todo, ok)
      PROVE  req'[c].pc = pc /\ req'[c].act = act
    BY <1>1, <1>2 DEF Move, ReqOK
<1>3. ~End(c)
    BY <1>1 DEF End, Idle, ReqOK
<1>4. ASSUME NEW pc, Goto(c, pc) PROVE req'[c].act = req[c].act
    BY <1>2, <1>4 DEF Goto
<1>5. ASSUME NEW ok, Tell(c, ok) PROVE req'[c].act = req[c].act
    BY <1>2, <1>5 DEF Tell
<1>6. ASSUME NEW pc \in {"resuming", "running"}, NEW act, NEW todo, Move(c, pc, act, todo, FALSE)
      PROVE  FALSE
    BY <1>2, <1>6
<1>7. CASE (\E left \in BOOLEAN : Answer(c, left)) \/ NothingPending(c) \/ Conclude(c)
           \/ PlanFails(c) \/ SetUp(c) \/ Outcome(c)
    BY <1>3, <1>4, <1>6, <1>7 DEF Answer, NothingPending, Conclude, PlanFails, SetUp, Outcome
<1>8. CASE \E ok, left \in BOOLEAN : Run(c, ok, left)
    BY <1>3, <1>4, <1>5, <1>8 DEF Run
<1>9. CASE Dispatch(c)
    BY <1>3, <1>4, <1>5, <1>6, <1>9 DEF Dispatch
<1>10. CASE \E denied \in BOOLEAN : Propose(c, denied) \/ Retry(c, denied) \/ Approve(c, denied)
    BY <1>3, <1>4, <1>5, <1>10 DEF Propose, Retry, Approve
<1>11. CASE \E ok \in BOOLEAN : Execute(c, ok) \/ ExecuteUnrecorded(c, ok) \/ Verify(c, ok)
    BY <1>3, <1>4, <1>5, <1>11 DEF Execute, ExecuteUnrecorded, Verify
<1>12. ASSUME NEW p \in Verified \X InFlight, NEW read \in BOOLEAN, Resume(c, p, read)
       PROVE  req'[c].act = req[c].act
    <2> DEFINE rest == Remaining(req[c].todo, p)
               told == record'[req[c].act] = "verified"
    <2>1. Tell(c, told) \/ Move(c, "resuming", req[c].act, rest, FALSE)
        BY <1>12 DEF Resume
    <2> HIDE DEF rest, told
    <2> QED BY <1>5, <1>6, <2>1
<1> QED BY <1>7, <1>8, <1>9, <1>10, <1>11, <1>12 DEF Step

\* While nobody else changes the repository, a git action is answered with
\* success only if a re-read confirmed it or its result still shows: what
\* ReplayedApproval finds needs the change from outside.
THEOREM SuccessIsConfirmed ==
    ASSUME MaxEdits = 0
    PROVE  Spec => OkIsConfirmed
<1> DEFINE Once == \A c \in Client :
                     req[c].pc # "outcome" /\ req'[c].pc = "outcome" /\ req'[c].act \in Verified
                       /\ req'[c].ok => seen'[c] \/ record[req[c].act] = "verified"
           Shown == \A c \in Client :
                     req[c].pc # "outcome" /\ req'[c].pc = "outcome" /\ req'[c].act \in Verified
                       /\ req'[c].ok => seen'[c] \/ req[c].act \in shown
<1>1. Spec => []VerifiedIsShown
    <2>1. TypeOK /\ VerifiedIsShown /\ [Next]_vars => VerifiedIsShown'
        BY ShownStep
    <2>2. Init => VerifiedIsShown
        BY DEF Init, VerifiedIsShown
    <2> QED BY <2>1, <2>2, TypeCorrect, PTL DEF Spec
<1>2. Spec => [][Once]_vars
    BY SuccessIsConfirmedOnce DEF OkIsConfirmedOnce
<1>3. TypeOK /\ VerifiedIsShown /\ [Next]_vars /\ [Once]_vars => [Shown]_vars
    <2> SUFFICES ASSUME TypeOK, VerifiedIsShown, Next, Once, NEW c \in Client,
                        req[c].pc # "outcome", req'[c].pc = "outcome",
                        req'[c].act \in Verified, req'[c].ok
                 PROVE  seen'[c] \/ req[c].act \in shown
        OBVIOUS
    <2>1. req'[c].act = req[c].act
        BY OutcomesComeFromSteps, OutcomeIsOfAct
    <2> QED BY <2>1 DEF VerifiedIsShown
<1> HIDE DEF Once, Shown
<1>4. Spec => [][Shown]_vars
    BY <1>1, <1>2, <1>3, TypeCorrect, PTL DEF Spec
<1> QED BY <1>4 DEF OkIsConfirmed, Shown
=============================================================================
