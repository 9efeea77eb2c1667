------------------------------ MODULE ChatTurn ------------------------------
(***************************************************************************)
(* One turn of the chat: POST /chat (routes/chat.routes.ts), from the       *)
(* accepted message to the end of the event stream.  Three activities of    *)
(* one process interleave at their awaits:                                  *)
(*   - the narrator, which streams the opening narrative (two attempts);    *)
(*   - the run of the session (chatSessionRun.ts, chatMessageApprovals.ts,  *)
(*     ChatPlanner.run), which plans at once, waits at the first-tool gate  *)
(*     and puts its events in a queue;                                      *)
(*   - the route, which waits for the narrative, opens the gate and then    *)
(*     forwards the queue to the stream and to the persisted timeline.      *)
(* The user may disconnect, cancel or confirm at any time.  What happens    *)
(* between two awaits is one action.                                        *)
(***************************************************************************)
EXTENDS Integers, Sequences

CONSTANTS
    Messages,   \* what the user may write: "ask", "yes" or "no"
    MaxSteps    \* plannerMaxSteps, the bound on the planner's decisions

ASSUME StepsAssumption == MaxSteps \in Nat

VARIABLES
    request,    \* the message, and whether a model is configured
    proposal,   \* approvalProposal of the stored session: left by an earlier turn
                \* ("old"), of this turn ("new"), none but asked for in the last
                \* answer of the transcript ("asked"), or "none"
    narrator,   \* the stream of each attempt: "idle", "streaming" or "over"
    opening,    \* currentNarrativeAttempt, openingNarrativeText, openingNarrativeError
    route,      \* where the handler of the request stands
    gate,       \* firstToolGate
    run,        \* where the session's run stands
    step,       \* decisions the planner has taken
    gated,      \* does the planner still have to pass the gate?
    confirmed,  \* confirmedOnce
    broken,     \* did the run end by an exception?
    queue,      \* plannerEvents: the events, closed, failure
    active,     \* the route's flag that the turn is still wanted
    entry,      \* the session's entry in ActiveChatSessions and its resolver
    runtime,    \* the prewarmed runtime: "warm", "claimed" or "closed"
    timeline,   \* the events of the turn in its stream and its persisted timeline
    awaiting,   \* awaitingApproval of the stream's turn envelope
    ran         \* tools the planner chose to run, and approved tools run

plan == <<step, gated, confirmed, broken, ran>>

vars == <<request, proposal, narrator, opening, route, gate, run, plan, queue, active,
          entry, runtime, timeline, awaiting>>

Terminal == {"done", "error", "cancelled"}
Ends     == {"finished", "failed", "stopped"}
Events   == {"tool", "approval", "resolved"} \cup Terminal
Told     == {timeline[i] : i \in DOMAIN timeline}

TypeOK ==
    /\ request \in [message : Messages, configured : BOOLEAN]
    /\ proposal \in {"none", "old", "asked", "new"}
    /\ narrator \in [1..2 -> {"idle", "streaming", "over"}]
    /\ opening \in [attempt : 1..2, text : BOOLEAN, error : BOOLEAN]
    /\ route \in {"opening", "forwarding", "over"}
    /\ gate \in {"closed", "open", "rejected"}
    /\ run \in {"persisting", "linking", "finding", "starting", "approving", "planning",
                "gated", "tool", "approved", "waiting", "closing", "over", "aborted"}
    /\ step \in 0..MaxSteps
    /\ gated \in BOOLEAN /\ confirmed \in BOOLEAN /\ broken \in BOOLEAN
    /\ queue \in [events : Seq(Events), closed : BOOLEAN, failed : BOOLEAN]
    /\ active \in BOOLEAN
    /\ entry \in {"none", "idle", "waiting"}
    /\ runtime \in {"warm", "claimed", "closed"}
    /\ timeline \in Seq({"narrative", "tool", "requested", "resolved"} \cup Ends)
    /\ awaiting \in BOOLEAN
    /\ ran \in [chosen : Nat, approved : Nat]

\* The handler runs up to its first await: the opening narrative streams, the
\* user's message is being saved, turn.started is in the timeline.  A new
\* session already has its entry and no proposal.
Init ==
    /\ request \in [message : Messages, configured : BOOLEAN]
    /\ entry \in {"none", "idle"}
    /\ proposal \in (IF entry = "none" THEN {"none", "old", "asked"} ELSE {"none"})
    /\ narrator = [a \in 1..2 |-> IF a = 2 THEN "idle"
                               ELSE IF request.configured THEN "streaming" ELSE "over"]
    /\ opening = [attempt |-> 1, text |-> FALSE, error |-> FALSE]
    /\ route = "opening" /\ gate = "closed"
    /\ run = "persisting" /\ step = 0 /\ gated = TRUE /\ confirmed = FALSE
    /\ broken = FALSE
    /\ queue = [events |-> <<>>, closed |-> FALSE, failed |-> FALSE]
    /\ active = TRUE
    /\ runtime = "warm"
    /\ timeline = <<>> /\ awaiting = FALSE
    /\ ran = [chosen |-> 0, approved |-> 0]

----------------------------------------------------------------------------
(* The stream: timelineProjection() and the envelope's awaitingApproval.    *)

MarkOf == [narrative |-> "narrative", tool |-> "tool", approval |-> "requested",
           resolved |-> "resolved", done |-> "finished", error |-> "failed",
           cancelled |-> "stopped"]

Send(e) ==
    /\ timeline' = IF e = "done" /\ awaiting THEN timeline ELSE Append(timeline, MarkOf[e])
    /\ awaiting' = ((awaiting \/ e = "approval") /\ e # "resolved")

\* ActiveChatSessions.cancel() by a turn that is no longer wanted: a run that
\* waits for a confirmation is answered with false, and stops.
DropEntry ==
    /\ entry' = "none"
    /\ run' = IF entry = "waiting" THEN "closing" ELSE run

\* Mutant of Dispose: a runtime nobody claimed is left to whoever comes.
DisposeNone == UNCHANGED runtime

\* disposeUnusedPrewarmedRuntime()
Dispose == runtime' = IF runtime = "warm" THEN "closed" ELSE runtime

----------------------------------------------------------------------------
(* The narrator.  Every event is checked against the current attempt.       *)

\* Mutant of Heard: a turn that is no longer wanted is still narrated.
HeardAfterStop(a) == a = opening.attempt

Heard(a) == active /\ a = opening.attempt

Speak(a) ==
    /\ narrator[a] = "streaming"
    /\ IF Heard(a)
         THEN /\ opening' = [opening EXCEPT !.text = TRUE]
              /\ IF opening.text THEN UNCHANGED <<timeline, awaiting>>
                                 ELSE Send("narrative")
              /\ UNCHANGED narrator
         ELSE /\ narrator' = [narrator EXCEPT ![a] = "over"]
              /\ UNCHANGED <<opening, timeline, awaiting>>
    /\ UNCHANGED <<request, proposal, route, gate, run, plan,
                   queue, active, entry, runtime>>

FallSilent(a) ==
    /\ narrator[a] = "streaming"
    /\ narrator' = [narrator EXCEPT ![a] = "over"]
    /\ \/ UNCHANGED opening
       \/ a = opening.attempt /\ opening' = [opening EXCEPT !.error = TRUE]
    /\ UNCHANGED <<request, proposal, route, gate, run, plan, queue,
                   active, entry, runtime, timeline, awaiting>>

----------------------------------------------------------------------------
(* The route.  The narrative settles or its deadline passes; then one       *)
(* corrective attempt, a failed turn, or the open gate.                     *)

\* Mutant of Narrated: a stream without visible text counts as a narrative.
NarratedSilently(settled) == settled /\ ~opening.error

Narrated(settled) ==
    /\ settled
    /\ ~opening.error
    /\ request.configured => opening.text

MayRetry == active /\ request.configured /\ opening.attempt = 1

\* Mutant of Settled: no deadline.
SettledOnly(settled) ==
    route = "opening" /\ settled /\ narrator[opening.attempt] = "over"

Settled(settled) ==
    /\ route = "opening"
    /\ settled <=> narrator[opening.attempt] = "over"

Reprompt(settled) ==
    /\ Settled(settled)
    /\ MayRetry /\ ~Narrated(settled)
    /\ opening' = [attempt |-> 2, text |-> FALSE, error |-> FALSE]
    /\ narrator' = [narrator EXCEPT ![2] = "streaming"]
    /\ UNCHANGED <<request, proposal, route, gate, run, plan, queue,
                   active, entry, runtime, timeline, awaiting>>

\* The catch block: the error event is sent whether or not the turn is active.
TurnFails ==
    /\ active' = FALSE
    /\ DropEntry
    /\ Send("error")
    /\ Dispose
    /\ route' = "over"

OpeningFails(settled) ==
    /\ Settled(settled)
    /\ ~Narrated(settled) /\ ~MayRetry
    /\ gate' = "rejected"
    /\ TurnFails
    /\ UNCHANGED <<request, proposal, narrator, opening, plan, queue>>

OpenGate ==
    /\ Settled(TRUE)
    /\ Narrated(TRUE)
    /\ IF active THEN gate' = "open" /\ route' = "forwarding"
                 ELSE gate' = gate /\ route' = "over"
    /\ UNCHANGED <<request, proposal, narrator, opening, run, plan, queue,
                   active, entry, runtime, timeline, awaiting>>

Forward ==
    /\ route = "forwarding" /\ queue.events # <<>>
    /\ LET e == Head(queue.events)
       IN /\ queue' = [queue EXCEPT !.events = Tail(@)]
          /\ IF active THEN Send(e) ELSE UNCHANGED <<timeline, awaiting>>
          /\ active' = (active /\ e \notin Terminal)
          /\ route' = IF active' THEN route ELSE "over"
    /\ UNCHANGED <<request, proposal, narrator, opening, gate, run, plan, entry, runtime>>

QueueFails ==
    /\ route = "forwarding" /\ queue.events = <<>> /\ queue.failed
    /\ TurnFails
    /\ UNCHANGED <<request, proposal, narrator, opening, gate, plan, queue>>

QueueEnds ==
    /\ route = "forwarding" /\ queue.events = <<>> /\ queue.closed /\ ~queue.failed
    /\ active' = FALSE
    /\ route' = "over"
    /\ Dispose
    /\ UNCHANGED <<request, proposal, narrator, opening, gate, run,
                   plan, queue, entry, timeline, awaiting>>

----------------------------------------------------------------------------
(* The run of the session.  An event it yields is queued while the turn is  *)
(* active; otherwise the generator is returned, and only its finally runs.  *)

Yield(es, next) ==
    IF active THEN /\ queue' = [queue EXCEPT !.events = @ \o es]
                   /\ run' = next
              ELSE /\ run' = "closing"
                   /\ UNCHANGED queue

EndQueue(failed) ==
    queue' = [events |-> queue.events, closed |-> TRUE, failed |-> failed]

RouteKept ==
    UNCHANGED <<request, narrator, opening, route, gate, active, timeline, awaiting>>

\* The user's message is saved, or cannot be.
Persisted ==
    /\ run = "persisting"
    /\ \/ active  /\ run' = "linking" /\ UNCHANGED queue
       \/ ~active /\ run' = "over" /\ EndQueue(FALSE)
       \/ run' = "over" /\ EndQueue(TRUE)
    /\ UNCHANGED <<proposal, plan, entry, runtime>> /\ RouteKept

\* The project link is resolved, or cannot be; then the runtime is claimed, and a
\* session that has no entry is looked up.
Claim ==
    /\ run = "linking"
    /\ \/ /\ active
          /\ runtime' = "claimed"
          /\ run' = IF entry = "none" THEN "finding" ELSE "starting"
          /\ UNCHANGED queue
       \/ ~active /\ run' = "over" /\ EndQueue(FALSE) /\ UNCHANGED runtime
       \/ run' = "over" /\ EndQueue(TRUE) /\ UNCHANGED runtime
    /\ UNCHANGED <<proposal, plan, entry>> /\ RouteKept

\* The session is there; or it is not, or the read throws: then the run ends with
\* the runtime in its hands.
Found ==
    /\ run = "finding"
    /\ \/ run' = "starting" /\ entry' = "idle" /\ UNCHANGED <<queue, proposal>>
       \/ /\ run' = "aborted" /\ proposal' = "none"
          /\ queue' = [events |-> queue.events \o (IF active THEN <<"error">> ELSE <<>>),
                       closed |-> TRUE, failed |-> FALSE]
          /\ UNCHANGED entry
       \/ run' = "aborted" /\ EndQueue(TRUE) /\ UNCHANGED <<entry, proposal>>
    /\ UNCHANGED <<plan, runtime>> /\ RouteKept

\* The session is read and saved, and the runtime is there.  A session that cannot
\* be read or saved ends the run with the runtime in its hands; a runtime that
\* cannot be set up leaves nothing to close.  Neither has entered the try.
Started ==
    /\ run = "starting"
    /\ \/ run' = "approving" /\ UNCHANGED <<queue, runtime>>
       \/ run' = "aborted" /\ EndQueue(TRUE) /\ UNCHANGED runtime
       \/ run' = "over" /\ EndQueue(TRUE) /\ runtime' = "closed"
    /\ UNCHANGED <<proposal, plan, entry>> /\ RouteKept

\* handleChatMessageApproval(): the stored proposal is taken first, whatever
\* the message then makes of it.
Pending == proposal = "old" \/ (proposal = "asked" /\ request.message = "yes")

NoProposal ==
    /\ run = "approving" /\ ~Pending
    /\ run' = "planning"
    /\ UNCHANGED <<proposal, plan, queue, entry, runtime>> /\ RouteKept

\* Mutant of TakeProposal: after a refusal the planner goes on.
TakeAndPlan ==
    /\ run = "approving" /\ Pending
    /\ proposal' = "none"
    /\ IF request.message = "yes" THEN Yield(<<"resolved", "tool">>, "approved")
                                 ELSE Yield(<<"resolved">>, "planning")
    /\ ran' = IF request.message = "yes" /\ active
                THEN [ran EXCEPT !.approved = @ + 1] ELSE ran
    /\ UNCHANGED <<step, gated, confirmed, broken, entry, runtime>> /\ RouteKept

TakeProposal ==
    /\ run = "approving" /\ Pending
    /\ proposal' = "none"
    /\ \/ request.message = "no"           /\ Yield(<<"resolved", "done">>, "closing")
       \/ request.message = "yes"          /\ Yield(<<"resolved", "tool">>, "approved")
       \/ request.message \notin {"yes", "no"} /\ Yield(<<"resolved">>, "planning")
    /\ ran' = IF request.message = "yes" /\ active
                THEN [ran EXCEPT !.approved = @ + 1] ELSE ran
    /\ UNCHANGED <<step, gated, confirmed, broken, entry, runtime>> /\ RouteKept

\* The approved tool has ended; the continuation is given no gate.
ApprovedDone ==
    /\ run = "approved"
    /\ Yield(<<>>, "planning")
    /\ gated' = FALSE
    /\ UNCHANGED <<proposal, step, confirmed, broken, entry, runtime, ran>> /\ RouteKept

\* Mutant of RunTool: the tool runs before the stream is told of it.
RunToolFirst ==
    /\ Yield(<<"tool">>, "tool")
    /\ ran' = [ran EXCEPT !.chosen = @ + 1]

\* A decision of the model.  A tool that only reads waits at the gate.
RunTool ==
    /\ Yield(<<"tool">>, "tool")
    /\ ran' = IF active THEN [ran EXCEPT !.chosen = @ + 1] ELSE ran

\* Mutant of Decides: no bound on the steps.
DecidesForever == run = "planning" /\ request.configured

Decides == run = "planning" /\ request.configured /\ step < MaxSteps

DecideTool ==
    /\ Decides
    /\ step' = step + 1
    /\ IF gated THEN run' = "gated" /\ UNCHANGED <<queue, ran>> ELSE RunTool
    /\ UNCHANGED <<proposal, gated, confirmed, broken, entry, runtime>> /\ RouteKept

\* A call that is refused, deferred or repeated, or an answer that is none: the
\* model is told and decides again.
Nudge ==
    /\ Decides
    /\ step' = step + 1
    /\ UNCHANGED <<proposal, run, gated, confirmed, broken, queue, entry, runtime, ran>>
    /\ RouteKept

PassGate ==
    /\ run = "gated"
    /\ \/ gate = "open" /\ RunTool /\ gated' = FALSE /\ UNCHANGED broken
       \/ /\ gate = "rejected" /\ run' = "closing" /\ broken' = TRUE
          /\ UNCHANGED <<queue, gated, ran>>
    /\ UNCHANGED <<proposal, step, confirmed, entry, runtime>> /\ RouteKept

ToolDone ==
    /\ run = "tool"
    /\ Yield(<<>>, "planning")
    /\ UNCHANGED <<proposal, plan, entry, runtime>> /\ RouteKept

\* Mutants of Conclude: the proposal is not stored; its card is not shown.
ConcludeUnstored(new) ==
    /\ run = "planning"
    /\ new => Decides
    /\ proposal' = "none"
    /\ Yield(IF new THEN <<"approval", "done">> ELSE <<"done">>, "closing")
    /\ UNCHANGED <<step, gated, confirmed, broken, entry, runtime, ran>> /\ RouteKept

ConcludeUnshown(new) ==
    /\ run = "planning"
    /\ new => Decides
    /\ proposal' = IF new THEN "new" ELSE "none"
    /\ Yield(<<"done">>, "closing")
    /\ UNCHANGED <<step, gated, confirmed, broken, entry, runtime, ran>> /\ RouteKept

\* A conclusion: the proposal is stored before the stream hears of it.
Conclude(new) ==
    /\ run = "planning"
    /\ new => Decides
    /\ proposal' = IF new THEN "new" ELSE "none"
    /\ Yield(IF new THEN <<"approval", "done">> ELSE <<"done">>, "closing")
    /\ UNCHANGED <<plan, entry, runtime>> /\ RouteKept

ModelFails ==
    /\ Decides
    /\ \/ Yield(<<"error">>, "closing") /\ UNCHANGED broken
       \/ run' = "closing" /\ broken' = TRUE /\ UNCHANGED queue
    /\ UNCHANGED <<proposal, step, gated, confirmed, entry, runtime, ran>> /\ RouteKept

\* A risky answer without a tool: the run waits for POST /chat/:id/confirm.
\* Without an entry waitForConfirm() answers false at once.
AskConfirm ==
    /\ Decides /\ ran.chosen = 0 /\ ~confirmed
    /\ step' = step + 1
    /\ IF entry # "none" /\ active
         THEN entry' = "waiting" /\ run' = "waiting" /\ UNCHANGED queue
         ELSE Yield(<<"cancelled">>, "closing") /\ UNCHANGED entry
    /\ UNCHANGED <<proposal, gated, confirmed, broken, runtime, ran>> /\ RouteKept

\* The finally of runChatSessionTurn(), then the end of the queue.
Close ==
    /\ run = "closing"
    /\ run' = "over"
    /\ runtime' = "closed"
    /\ entry' = "none"
    /\ EndQueue(broken)
    /\ UNCHANGED <<proposal, plan>> /\ RouteKept

----------------------------------------------------------------------------
(* The user.                                                                *)

Confirm ==
    /\ entry = "waiting"
    /\ entry' = "idle"
    /\ confirmed' = TRUE
    /\ Yield(<<>>, "planning")
    /\ UNCHANGED <<proposal, step, gated, broken, runtime, ran>> /\ RouteKept

Cancel ==
    /\ entry # "none"
    /\ entry' = "none"
    /\ IF entry = "waiting" THEN Yield(<<"cancelled">>, "closing")
                            ELSE UNCHANGED <<queue, run>>
    /\ UNCHANGED <<proposal, plan, runtime>> /\ RouteKept

\* The client is gone, or its Stop has aborted the request.
Disconnect ==
    /\ active
    /\ active' = FALSE
    /\ DropEntry
    /\ Dispose
    /\ Send("cancelled")
    /\ UNCHANGED <<request, proposal, narrator, opening, route, gate, plan, queue>>

----------------------------------------------------------------------------

Narrate == \E a \in 1..2 : Speak(a) \/ FallSilent(a)

Serve ==
    \/ \E settled \in BOOLEAN : Reprompt(settled) \/ OpeningFails(settled)
    \/ OpenGate \/ Forward \/ QueueFails \/ QueueEnds

Run ==
    \/ Persisted \/ Claim \/ Found \/ Started \/ NoProposal \/ TakeProposal \/ ApprovedDone
    \/ DecideTool \/ Nudge \/ PassGate \/ ToolDone \/ ModelFails \/ AskConfirm \/ Close
    \/ \E new \in BOOLEAN : Conclude(new)

Next == Narrate \/ Serve \/ Run \/ Confirm \/ Cancel \/ Disconnect

Spec == Init /\ [][Next]_vars

\* The deadline fires, what the queue holds is forwarded, and models, tools
\* and stores answer or fail.  Nothing is assumed of the user or the narrator.
FairSpec == Spec /\ WF_vars(Serve) /\ WF_vars(Run)

----------------------------------------------------------------------------
(* What a turn owes its user.                                               *)

\* No tool the planner chooses runs before the user can see why: the attempt
\* that opened the gate was heard and had not failed (chat.routes.ts 408-415,
\* 497-545; chatPlanner.ts 411-418), however the planner, the two narrators and
\* the deadline interleave.  A planner that continues an approved action is
\* given no gate, and chooses freely.
NarrativeBeforeAction ==
    ran.chosen > 0 /\ ran.approved = 0 =>
        "narrative" \in Told /\ opening.text /\ ~opening.error

\* The timeline of a turn has one end and nothing after it, but for one case:
\* a turn the user stopped may still be reported as failed, when its opening or
\* its run fails afterwards (chat.routes.ts 567-588, which looks at nothing).
EndedStreamsAreSilent ==
    \A i, j \in DOMAIN timeline :
        i < j /\ timeline[i] \in Ends =>
            timeline[i] = "stopped" /\ timeline[j] = "failed" /\ j = Len(timeline)

\* What the stream says of a pending approval is what the run did of it: a "yes"
\* ran it once, a "no" ran nothing at all, any other message did not run it.
AnswerIsObeyed ==
    "resolved" \in Told =>
        /\ ran.approved = IF request.message = "yes" THEN 1 ELSE 0
        /\ request.message = "no" => ran.chosen = 0

\* A card that asks for an approval can be answered: the proposal it shows is
\* the stored one, for as long as the card stands (chatPlannerPersistence.ts).
CardHasProposal == awaiting => proposal = "new"

\* A turn that was stopped, failed or answered starts no further tool.
StoppedTurnsActNoMore == [][~active => ran' = ran]_vars

\* Every turn comes to an end the timeline shows, or to a card, or waits for a
\* confirmation: whatever the narrator, the model and the user do.
EveryTurnIsAnswered ==
    <>[](run = "waiting" \/ (route = "over" /\ (awaiting \/ Told \cap Ends # {})))

\* A proposal that was stored is shown, unless the turn was stopped or failed in
\* between: then it stays stored, and the next "yes" runs what was never shown.
ProposalIsShown == proposal = "new" ~> (awaiting \/ Told \cap {"stopped", "failed"} # {})

\* The user left while the planner waited at the gate and the opening could be
\* heard: chat.routes.ts 543 returns, and nobody settles the gate.
Stranded == run = "gated" /\ gate = "closed" /\ route = "over"

\* The run ended between its claim and its try: the session was not found, or
\* could not be read or saved (chatSessionRun.ts 63-65, 76, 86).
Aborted == run = "aborted"

\* The runtime of the turn, its processes and connections, is closed once the turn
\* is over (chatSessionRun.ts 35-37, 146-149; chat.routes.ts 384-387), but for three
\* turns whose runtime nobody ever closes: one stranded at the gate, and one that
\* did not find, or could not read or save, its session.  A turn that waits for a
\* confirmation keeps its runtime.
RuntimeIsReleasedOrStranded ==
    <>[](runtime = "closed" \/ run = "waiting" \/ Stranded \/ Aborted)
=============================================================================
