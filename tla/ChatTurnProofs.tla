---------------------------- MODULE ChatTurnProofs ----------------------------
(* Theorems about ChatTurn, for every set of messages and every bound on the   *)
(* planner's steps.                                                            *)
EXTENDS ChatTurn, TLAPS

Marks  == {"narrative", "tool", "requested", "resolved"} \cup Ends
Queued == {queue.events[i] : i \in DOMAIN queue.events}
-----------------------------------------------------------------------------
(* What the helpers do.                                                        *)

\* A mark of the timeline, or none, for each event of the stream.
LEMMA SendEffect ==
    ASSUME TypeOK, NEW e \in Events \cup {"narrative"}, Send(e)
    PROVE  /\ timeline' \in Seq(Marks)
           /\ awaiting' \in BOOLEAN
           /\ \/ timeline' = timeline
              \/ \E x \in Marks : timeline' = Append(timeline, x)
<1>1. MarkOf[e] \in Marks
    BY DEF Events, Terminal, Marks, Ends, MarkOf
<1>2. timeline \in Seq(Marks) /\ awaiting \in BOOLEAN
    BY DEF TypeOK, Marks, Ends
<1>3. awaiting' \in BOOLEAN
    BY <1>2 DEF Send
<1> QED BY <1>1, <1>2, <1>3 DEF Send

\* Events join the queue only while the turn is wanted.
LEMMA YieldEffect ==
    ASSUME TypeOK, NEW es \in Seq(Events), NEW next, Yield(es, next)
    PROVE  /\ queue' \in [events : Seq(Events), closed : BOOLEAN, failed : BOOLEAN]
           /\ run' = IF active THEN next ELSE "closing"
           /\ Queued' \subseteq Queued \cup {es[i] : i \in DOMAIN es}
           /\ ~active => queue' = queue
<1>1. queue.events \in Seq(Events)
    BY DEF TypeOK
<1>2. CASE active
    <2>1. queue' = [queue EXCEPT !.events = @ \o es] /\ run' = next
        BY <1>2 DEF Yield
    <2>2. queue'.events = queue.events \o es
        BY <2>1 DEF TypeOK
    <2>3. ASSUME NEW i \in DOMAIN (queue.events \o es)
          PROVE  (queue.events \o es)[i] \in Queued \cup {es[k] : k \in DOMAIN es}
        <3>1. CASE i <= Len(queue.events)
            BY <1>1, <2>3, <3>1 DEF Queued
        <3>2. CASE i > Len(queue.events)
            <4>1. i - Len(queue.events) \in DOMAIN es
                BY <1>1, <2>3, <3>2
            <4>2. (queue.events \o es)[i] = es[i - Len(queue.events)]
                BY <1>1, <2>3, <3>2
            <4> QED BY <4>1, <4>2
        <3> QED BY <1>1, <2>3, <3>1, <3>2
    <2>5. Queued' \subseteq Queued \cup {es[i] : i \in DOMAIN es}
        <3>1. Queued' = {(queue.events \o es)[i] : i \in DOMAIN (queue.events \o es)}
            BY <2>2 DEF Queued
        <3> QED BY <2>3, <3>1
    <2>4. queue' \in [events : Seq(Events), closed : BOOLEAN, failed : BOOLEAN]
        <3>1. queue.events \o es \in Seq(Events)
            BY <1>1
        <3>2. queue \in [events : Seq(Events), closed : BOOLEAN, failed : BOOLEAN]
            BY DEF TypeOK
        <3> QED BY <2>1, <3>1, <3>2
    <2> QED BY <1>2, <2>1, <2>4, <2>5
<1>3. CASE ~active
    BY <1>3 DEF Yield, TypeOK, Queued
<1> QED BY <1>2, <1>3

\* The queue, when the run yields nothing or ends.
LEMMA YieldNothing ==
    ASSUME TypeOK, NEW next, Yield(<<>>, next)
    PROVE  queue' = queue /\ run' = IF active THEN next ELSE "closing"
<1>1. queue.events \o <<>> = queue.events
    BY DEF TypeOK
<1> QED BY <1>1 DEF Yield, TypeOK

\* The run and the user leave what belongs to the route.
LEMMA RunKeepsRoute ==
    ASSUME Run \/ Confirm \/ Cancel
    PROVE  RouteKept
BY DEF Run, Confirm, Cancel, RouteKept, Persisted, Claim, Found, Started, NoProposal,
       TakeProposal, ApprovedDone, DecideTool, Nudge, PassGate, ToolDone, ModelFails, AskConfirm, Close,
       Conclude

\* The narrator, the route and a disconnection leave what belongs to the run, but
\* for a run that waited for a confirmation.
LEMMA RouteKeepsRun ==
    ASSUME TypeOK, Narrate \/ Serve \/ Disconnect
    PROVE  /\ UNCHANGED <<request, proposal, plan>>
           /\ run' = run \/ (entry = "waiting" /\ run' = "closing")
           /\ (entry' = entry /\ run' = run) \/ entry' = "none"
BY DEF Narrate, Serve, Disconnect, Speak, FallSilent, Reprompt, OpeningFails, OpenGate, Forward,
       QueueFails, QueueEnds, TurnFails, DropEntry, plan
-----------------------------------------------------------------------------
(* Every variable keeps its type.                                              *)

LEMMA TypeInit ==
    Init => TypeOK
<1> SUFFICES ASSUME Init PROVE TypeOK
    OBVIOUS
<1>1. narrator \in [1..2 -> {"idle", "streaming", "over"}]
    BY DEF Init
<1>2. request \in [message : Messages, configured : BOOLEAN]
    BY DEF Init
<1>3. queue \in [events : Seq(Events), closed : BOOLEAN, failed : BOOLEAN]
    BY DEF Init
<1>4. proposal \in {"none", "old", "asked", "new"} /\ entry \in {"none", "idle", "waiting"}
    BY DEF Init
<1>5. opening \in [attempt : 1..2, text : BOOLEAN, error : BOOLEAN]
    BY DEF Init
<1>6. ran \in [chosen : Nat, approved : Nat] /\ step \in 0..MaxSteps
    BY StepsAssumption DEF Init
<1>7. timeline \in Seq({"narrative", "tool", "requested", "resolved"} \cup Ends)
    BY DEF Init
<1>8. /\ run = "persisting" /\ route = "opening" /\ gate = "closed" /\ runtime = "warm"
      /\ gated = TRUE /\ confirmed = FALSE /\ broken = FALSE /\ active = TRUE
      /\ awaiting = FALSE
    BY DEF Init
<1> QED BY <1>1, <1>2, <1>3, <1>4, <1>5, <1>6, <1>7, <1>8 DEF TypeOK

\* TurnFails, Disconnect: the type of what both change.
LEMMA FailureTypes ==
    ASSUME TypeOK, NEW e \in {"error", "cancelled"}, DropEntry, Send(e), Dispose
    PROVE  /\ run' \in {run, "closing"} /\ entry' = "none"
           /\ timeline' \in Seq(Marks) /\ awaiting' \in BOOLEAN
           /\ runtime' \in {runtime, "closed"}
<1>1. e \in Events \cup {"narrative"}
    BY DEF Events, Terminal
<1> QED BY <1>1, SendEffect DEF DropEntry, Dispose

LEMMA EndQueueType ==
    ASSUME TypeOK, NEW failed \in BOOLEAN, EndQueue(failed)
    PROVE  queue' \in [events : Seq(Events), closed : BOOLEAN, failed : BOOLEAN]
<1>1. queue.events \in Seq(Events)
    BY DEF TypeOK
<1> QED BY <1>1 DEF EndQueue

LEMMA TypeNarrate ==
    ASSUME TypeOK, Narrate
    PROVE  TypeOK'
<1>1. PICK a \in 1..2 : Speak(a) \/ FallSilent(a)
    BY DEF Narrate
<1>2. CASE Speak(a)
    <2>1. timeline' \in Seq(Marks) /\ awaiting' \in BOOLEAN
        <3>1. CASE UNCHANGED <<timeline, awaiting>>
            BY <3>1 DEF TypeOK, Marks
        <3>2. CASE Send("narrative")
            BY <3>2, SendEffect
        <3> QED BY <1>2, <3>1, <3>2 DEF Speak
    <2>2. opening' \in [attempt : 1..2, text : BOOLEAN, error : BOOLEAN]
        BY <1>2 DEF Speak, TypeOK
    <2>3. narrator' \in [1..2 -> {"idle", "streaming", "over"}]
        BY <1>2 DEF Speak, TypeOK
    <2> QED BY <1>2, <2>1, <2>2, <2>3 DEF Speak, TypeOK, plan, Marks
<1>3. CASE FallSilent(a)
    <2>1. narrator' \in [1..2 -> {"idle", "streaming", "over"}]
        BY <1>3 DEF FallSilent, TypeOK
    <2>2. opening' \in [attempt : 1..2, text : BOOLEAN, error : BOOLEAN]
        BY <1>3 DEF FallSilent, TypeOK
    <2> QED BY <1>3, <2>1, <2>2 DEF FallSilent, TypeOK, plan
<1> QED BY <1>1, <1>2, <1>3

LEMMA TypeServe ==
    ASSUME TypeOK, Serve
    PROVE  TypeOK'
<1>1. ASSUME NEW settled \in BOOLEAN, Reprompt(settled)
      PROVE  TypeOK'
    <2>1. narrator' \in [1..2 -> {"idle", "streaming", "over"}]
        BY <1>1 DEF Reprompt, TypeOK
    <2> QED BY <1>1, <2>1 DEF Reprompt, TypeOK, plan
<1>2. ASSUME NEW settled \in BOOLEAN, OpeningFails(settled)
      PROVE  TypeOK'
    <2>1. DropEntry /\ Send("error") /\ Dispose
        BY <1>2 DEF OpeningFails, TurnFails
    <2>2. /\ run' \in {run, "closing"} /\ entry' = "none"
          /\ timeline' \in Seq(Marks) /\ awaiting' \in BOOLEAN
          /\ runtime' \in {runtime, "closed"}
        BY <2>1, FailureTypes
    <2>3. /\ active' = FALSE /\ route' = "over" /\ gate' = "rejected"
          /\ UNCHANGED <<request, proposal, narrator, step, gated, confirmed, broken, queue, ran>>
          /\ opening' = opening
        BY <1>2 DEF OpeningFails, TurnFails, plan
    <2>4. /\ run' \in {"persisting", "linking", "finding", "starting", "approving", "planning",
                       "gated", "tool", "approved", "waiting", "closing", "over", "aborted"}
          /\ runtime' \in {"warm", "claimed", "closed"}
        BY <2>2 DEF TypeOK
    <2> QED BY <2>2, <2>3, <2>4 DEF TypeOK, Marks
<1>3. CASE OpenGate
    BY <1>3 DEF OpenGate, TypeOK, plan
<1>4. CASE Forward
    <2>1. Head(queue.events) \in Events /\ Tail(queue.events) \in Seq(Events)
        BY <1>4 DEF Forward, TypeOK
    <2>2. timeline' \in Seq(Marks) /\ awaiting' \in BOOLEAN
        <3>1. CASE UNCHANGED <<timeline, awaiting>>
            BY <3>1 DEF TypeOK, Marks
        <3>2. CASE Send(Head(queue.events))
            BY <2>1, <3>2, SendEffect
        <3> QED BY <1>4, <3>1, <3>2 DEF Forward
    <2>3. queue' \in [events : Seq(Events), closed : BOOLEAN, failed : BOOLEAN]
        BY <1>4, <2>1 DEF Forward, TypeOK
    <2>4. active' \in BOOLEAN /\ route' \in {"forwarding", "over"}
        BY <1>4 DEF Forward, TypeOK
    <2> QED BY <1>4, <2>2, <2>3, <2>4 DEF Forward, TypeOK, plan, Marks
<1>5. CASE QueueFails
    <2>1. DropEntry /\ Send("error") /\ Dispose
        BY <1>5 DEF QueueFails, TurnFails
    <2>2. /\ run' \in {run, "closing"} /\ entry' = "none"
          /\ timeline' \in Seq(Marks) /\ awaiting' \in BOOLEAN
          /\ runtime' \in {runtime, "closed"}
        BY <2>1, FailureTypes
    <2>3. /\ active' \in BOOLEAN /\ route' \in {"opening", "forwarding", "over"}
          /\ gate' \in {"closed", "open", "rejected"}
          /\ UNCHANGED <<request, proposal, narrator, step, gated, confirmed, broken, queue, ran>>
          /\ opening' = opening
        BY <1>5 DEF QueueFails, TurnFails, plan, TypeOK
    <2>4. /\ run' \in {"persisting", "linking", "finding", "starting", "approving", "planning",
                       "gated", "tool", "approved", "waiting", "closing", "over", "aborted"}
          /\ runtime' \in {"warm", "claimed", "closed"}
        BY <2>2 DEF TypeOK
    <2> QED BY <2>2, <2>3, <2>4 DEF TypeOK, Marks
<1>6. CASE QueueEnds
    <2>1. active' \in BOOLEAN /\ runtime' \in {"warm", "claimed", "closed"} /\ route' = "over"
        BY <1>6 DEF QueueEnds, Dispose, TypeOK
    <2> QED BY <1>6, <2>1 DEF QueueEnds, TypeOK, plan
<1> QED BY <1>1, <1>2, <1>3, <1>4, <1>5, <1>6 DEF Serve

LEMMA TypeRun ==
    ASSUME TypeOK, Run \/ Confirm \/ Cancel
    PROVE  TypeOK'
<1> DEFINE RunTypes ==
        /\ proposal \in {"none", "old", "asked", "new"}
        /\ run \in {"persisting", "linking", "finding", "starting", "approving", "planning",
                    "gated", "tool", "approved", "waiting", "closing", "over", "aborted"}
        /\ step \in 0..MaxSteps
        /\ gated \in BOOLEAN /\ confirmed \in BOOLEAN /\ broken \in BOOLEAN
        /\ queue \in [events : Seq(Events), closed : BOOLEAN, failed : BOOLEAN]
        /\ entry \in {"none", "idle", "waiting"}
        /\ runtime \in {"warm", "claimed", "closed"}
        /\ ran \in [chosen : Nat, approved : Nat]
<1> SUFFICES RunTypes'
    BY RunKeepsRoute DEF RouteKept, TypeOK
<1>0. RunTypes
    BY DEF TypeOK
<1>1. CASE Persisted
    BY <1>0, <1>1, EndQueueType DEF Persisted, plan
<1>2. CASE Claim
    BY <1>0, <1>2, EndQueueType DEF Claim, plan
<1>3. CASE Started
    BY <1>0, <1>3, EndQueueType DEF Started, plan
<1>18. CASE Found
    <2>1. queue.events \o <<"error">> \in Seq(Events) /\ queue.events \o <<>> \in Seq(Events)
        <3>1. queue.events \in Seq(Events)
            BY DEF TypeOK
        <3>2. <<"error">> \in Seq(Events)
            BY DEF Events, Terminal
        <3> QED BY <3>1, <3>2
    <2>2. queue' \in [events : Seq(Events), closed : BOOLEAN, failed : BOOLEAN]
        <3>1. CASE EndQueue(TRUE)
            BY <3>1, EndQueueType
        <3>2. CASE queue' = [events |-> queue.events \o (IF active THEN <<"error">> ELSE <<>>),
                             closed |-> TRUE, failed |-> FALSE]
            BY <2>1, <3>2
        <3>3. CASE queue' = queue
            BY <1>0, <3>3
        <3> QED BY <1>18, <3>1, <3>2, <3>3 DEF Found
    <2> QED BY <1>0, <1>18, <2>2 DEF Found, plan
<1>4. CASE NoProposal
    BY <1>0, <1>4 DEF NoProposal, plan
<1>5. CASE TakeProposal
    <2>1. <<"resolved">> \in Seq(Events) /\ <<"resolved", "done">> \in Seq(Events)
          /\ <<"resolved", "tool">> \in Seq(Events)
        BY DEF Events, Terminal
    <2>2. /\ queue' \in [events : Seq(Events), closed : BOOLEAN, failed : BOOLEAN]
          /\ run' \in {"closing", "approved", "planning"}
        BY <1>5, <2>1, YieldEffect DEF TakeProposal, plan
    <2> QED BY <1>0, <1>5, <2>2 DEF TakeProposal, plan
<1>6. CASE ApprovedDone
    BY <1>0, <1>6, YieldNothing DEF ApprovedDone, plan
<1>7. ASSUME RunTool
      PROVE  /\ queue' \in [events : Seq(Events), closed : BOOLEAN, failed : BOOLEAN]
             /\ run' \in {"tool", "closing"}
             /\ ran' \in [chosen : Nat, approved : Nat]
    <2>1. <<"tool">> \in Seq(Events)
        BY DEF Events
    <2>2. /\ queue' \in [events : Seq(Events), closed : BOOLEAN, failed : BOOLEAN]
          /\ run' \in {"tool", "closing"}
        BY <1>7, <2>1, YieldEffect DEF RunTool
    <2>3. ran' \in [chosen : Nat, approved : Nat]
        BY <1>0, <1>7 DEF RunTool
    <2> QED BY <2>2, <2>3
<1>8. CASE DecideTool
    BY <1>0, <1>7, <1>8, StepsAssumption DEF DecideTool, Decides, plan
<1>9. CASE Nudge
    BY <1>0, <1>9, StepsAssumption DEF Nudge, Decides, plan
<1>10. CASE PassGate
    BY <1>0, <1>7, <1>10 DEF PassGate, plan
<1>11. CASE ToolDone
    BY <1>0, <1>11, YieldNothing DEF ToolDone, plan
<1>12. CASE ModelFails
    <2>1. <<"error">> \in Seq(Events)
        BY DEF Events, Terminal
    <2> QED BY <1>0, <1>12, <2>1, YieldEffect DEF ModelFails, plan
<1>13. CASE AskConfirm
    <2>1. <<"cancelled">> \in Seq(Events)
        BY DEF Events, Terminal
    <2>2. CASE Yield(<<"cancelled">>, "closing") /\ UNCHANGED entry
        <3>1. /\ queue' \in [events : Seq(Events), closed : BOOLEAN, failed : BOOLEAN]
              /\ run' = "closing"
            BY <2>1, <2>2, YieldEffect
        <3> QED BY <1>0, <1>13, <2>2, <3>1, StepsAssumption DEF AskConfirm, Decides
    <2>3. CASE entry' = "waiting" /\ run' = "waiting" /\ UNCHANGED queue
        BY <1>0, <1>13, <2>3, StepsAssumption DEF AskConfirm, Decides
    <2> QED BY <1>13, <2>2, <2>3 DEF AskConfirm
<1>14. CASE Close
    BY <1>0, <1>14, EndQueueType DEF Close, plan
<1>15. ASSUME NEW new \in BOOLEAN, Conclude(new)
       PROVE  RunTypes'
    <2>1. <<"done">> \in Seq(Events) /\ <<"approval", "done">> \in Seq(Events)
        BY DEF Events, Terminal
    <2>2. /\ queue' \in [events : Seq(Events), closed : BOOLEAN, failed : BOOLEAN]
          /\ run' = "closing"
        BY <1>15, <2>1, YieldEffect DEF Conclude, plan
    <2> QED BY <1>0, <1>15, <2>2 DEF Conclude, plan
<1>16. CASE Confirm
    BY <1>0, <1>16, YieldNothing DEF Confirm, plan
<1>17. CASE Cancel
    <2>1. <<"cancelled">> \in Seq(Events)
        BY DEF Events, Terminal
    <2> QED BY <1>0, <1>17, <2>1, YieldEffect DEF Cancel, plan
<1> QED BY <1>1, <1>2, <1>3, <1>4, <1>5, <1>6, <1>8, <1>9, <1>10, <1>11, <1>12, <1>13, <1>14,
           <1>15, <1>16, <1>17, <1>18 DEF Run

LEMMA TypeStep ==
    TypeOK /\ [Next]_vars => TypeOK'
<1> SUFFICES ASSUME TypeOK, [Next]_vars PROVE TypeOK'
    OBVIOUS
<1>1. CASE Disconnect
    <2>1. DropEntry /\ Send("cancelled") /\ Dispose
        BY <1>1 DEF Disconnect
    <2>2. /\ run' \in {run, "closing"} /\ entry' = "none"
          /\ timeline' \in Seq(Marks) /\ awaiting' \in BOOLEAN
          /\ runtime' \in {runtime, "closed"}
        BY <2>1, FailureTypes
    <2>3. /\ active' \in BOOLEAN /\ route' \in {"opening", "forwarding", "over"}
          /\ gate' \in {"closed", "open", "rejected"}
          /\ UNCHANGED <<request, proposal, narrator, step, gated, confirmed, broken, queue, ran>>
          /\ opening' = opening
        BY <1>1 DEF Disconnect, plan, TypeOK
    <2>4. /\ run' \in {"persisting", "linking", "finding", "starting", "approving", "planning",
                       "gated", "tool", "approved", "waiting", "closing", "over", "aborted"}
          /\ runtime' \in {"warm", "claimed", "closed"}
        BY <2>2 DEF TypeOK
    <2> QED BY <2>2, <2>3, <2>4 DEF TypeOK, Marks
<1>2. CASE UNCHANGED vars
    BY <1>2 DEF TypeOK, vars, plan
<1> QED BY <1>1, <1>2, TypeNarrate, TypeServe, TypeRun DEF Next

\* Type correctness: every variable keeps its type, for every set of messages and
\* every bound on the planner's steps.
THEOREM TypeCorrect == Spec => []TypeOK
<1> QED BY TypeInit, TypeStep, PTL DEF Spec
-----------------------------------------------------------------------------
(* The timeline of a turn has one end, or a failure after the user's stop.     *)

\* While the turn is wanted nothing has ended; until the route is over, only the
\* user's stop has, and it is the last mark.
EndsInv ==
    /\ active => Told \cap Ends = {}
    /\ route # "over" => \A i \in DOMAIN timeline :
                           timeline[i] \in Ends => timeline[i] = "stopped" /\ i = Len(timeline)
    /\ EndedStreamsAreSilent

\* A mark is added while nothing has ended, or a failure by a route not yet over.
LEMMA AddMark ==
    ASSUME TypeOK, EndsInv, NEW x \in Marks, timeline' = Append(timeline, x),
           \/ active /\ (x \in Ends => ~active')
                    /\ (x \in Ends /\ route' # "over" => x = "stopped")
           \/ route # "over" /\ x = "failed" /\ route' = "over" /\ ~active'
    PROVE  EndsInv'
<1>1. /\ timeline \in Seq(Marks) /\ Len(timeline) \in Nat /\ DOMAIN timeline = 1..Len(timeline)
      /\ DOMAIN timeline' = 1..(Len(timeline) + 1) /\ Len(timeline') = Len(timeline) + 1
      /\ timeline'[Len(timeline) + 1] = x
      /\ \A i \in 1..Len(timeline) : timeline'[i] = timeline[i]
    BY DEF TypeOK, Marks
<1>2. CASE /\ active /\ (x \in Ends => ~active')
           /\ (x \in Ends /\ route' # "over" => x = "stopped")
    <2>1. \A i \in 1..Len(timeline) : timeline[i] \notin Ends
        BY <1>1, <1>2 DEF EndsInv, Told
    <2>2. \A i \in DOMAIN timeline' : timeline'[i] \in Ends => i = Len(timeline') /\ x \in Ends
        BY <1>1, <2>1
    <2>3. (Told \cap Ends = {})' \/ x \in Ends
        BY <2>2 DEF Told, Ends
    <2>4. EndedStreamsAreSilent'
        <3> SUFFICES ASSUME NEW i \in DOMAIN timeline', NEW j \in DOMAIN timeline',
                            i < j, timeline'[i] \in Ends
                     PROVE  FALSE
            BY DEF EndedStreamsAreSilent, Ends
        <3> QED BY <1>1, <2>2
    <2> QED BY <1>1, <1>2, <2>2, <2>3, <2>4 DEF EndsInv, Ends
<1>3. CASE route # "over" /\ x = "failed" /\ route' = "over" /\ ~active'
    <2>1. \A i \in 1..Len(timeline) :
            timeline[i] \in Ends => timeline[i] = "stopped" /\ i = Len(timeline)
        BY <1>1, <1>3 DEF EndsInv
    <2>2. EndedStreamsAreSilent'
        <3> SUFFICES ASSUME NEW i \in DOMAIN timeline', NEW j \in DOMAIN timeline',
                            i < j, timeline'[i] \in Ends
                     PROVE  timeline'[i] = "stopped" /\ timeline'[j] = "failed"
                            /\ j = Len(timeline')
            BY DEF EndedStreamsAreSilent, Ends
        <3>1. i \in 1..(Len(timeline) + 1) /\ j \in 1..(Len(timeline) + 1)
            BY <1>1
        <3>2. i \in 1..Len(timeline)
            BY <1>1, <3>1
        <3>3. timeline'[i] = timeline[i]
            BY <1>1, <3>2
        <3>4. timeline[i] = "stopped" /\ i = Len(timeline)
            BY <2>1, <3>2, <3>3
        <3>5. j = Len(timeline) + 1
            BY <1>1, <3>1, <3>4
        <3> QED BY <1>1, <1>3, <3>3, <3>4, <3>5
    <2> QED BY <1>3, <2>2 DEF EndsInv
<1> QED BY <1>2, <1>3

LEMMA KeepMarks ==
    ASSUME EndsInv, timeline' = timeline, active' => active, route' # "over" => route # "over"
    PROVE  EndsInv'
BY DEF EndsInv, EndedStreamsAreSilent, Told, Ends

LEMMA EndsStep ==
    ASSUME TypeOK, EndsInv, [Next]_vars
    PROVE  EndsInv'
<1>1. ASSUME NEW a \in 1..2, Speak(a)
      PROVE  EndsInv'
    <2>1. CASE Send("narrative") /\ active
        <3>1. timeline' = Append(timeline, "narrative")
            BY <2>1 DEF Send, MarkOf
        <3> QED BY <1>1, <2>1, <3>1, AddMark DEF Marks, Ends
    <2>2. CASE timeline' = timeline
        BY <1>1, <2>2, KeepMarks DEF Speak
    <2> QED BY <1>1, <2>1, <2>2 DEF Speak, Heard
<1>2. ASSUME NEW a \in 1..2, FallSilent(a)
      PROVE  EndsInv'
    BY <1>2, KeepMarks DEF FallSilent
<1>3. ASSUME NEW settled \in BOOLEAN, Reprompt(settled)
      PROVE  EndsInv'
    BY <1>3, KeepMarks DEF Reprompt
<1>4. ASSUME route # "over", TurnFails
      PROVE  EndsInv'
    <2>1. timeline' = Append(timeline, "failed")
        BY <1>4 DEF TurnFails, Send, MarkOf
    <2> QED BY <1>4, <2>1, AddMark DEF TurnFails, Marks, Ends
<1>5. ASSUME NEW settled \in BOOLEAN, OpeningFails(settled)
      PROVE  EndsInv'
    BY <1>4, <1>5 DEF OpeningFails, Settled
<1>6. CASE OpenGate
    BY <1>6, KeepMarks DEF OpenGate, Settled
<1>7. CASE Forward
    <2> DEFINE e == Head(queue.events)
    <2>1. e \in Events /\ active' = (active /\ e \notin Terminal)
          /\ (route' = IF active' THEN route ELSE "over") /\ route # "over"
        BY <1>7 DEF Forward, TypeOK
    <2>2. CASE timeline' = timeline
        BY <2>1, <2>2, KeepMarks DEF TypeOK
    <2>3. CASE active /\ timeline' = Append(timeline, MarkOf[e])
        <3>1. MarkOf[e] \in Marks /\ (MarkOf[e] \in Ends => e \in Terminal)
            BY <2>1 DEF Events, Terminal, Marks, Ends, MarkOf
        <3> HIDE DEF e
        <3> QED BY <2>1, <2>3, <3>1, AddMark
    <2> QED BY <1>7, <2>2, <2>3 DEF Forward, Send
<1>8. CASE QueueFails
    BY <1>4, <1>8 DEF QueueFails
<1>9. CASE QueueEnds
    BY <1>9, KeepMarks DEF QueueEnds
<1>10. CASE Run \/ Confirm \/ Cancel
    BY <1>10, RunKeepsRoute, KeepMarks DEF RouteKept
<1>11. CASE Disconnect
    <2>1. timeline' = Append(timeline, "stopped") /\ active /\ ~active'
        BY <1>11 DEF Disconnect, Send, MarkOf
    <2> QED BY <2>1, AddMark DEF Marks, Ends
<1>12. CASE UNCHANGED vars
    BY <1>12, KeepMarks DEF vars
<1> QED BY <1>1, <1>2, <1>3, <1>5, <1>6, <1>7, <1>8, <1>9, <1>10, <1>11, <1>12
       DEF Next, Narrate, Serve

\* The timeline of a turn has one end and nothing after it, or a failure after the
\* user's stop: for every interleaving, message and number of steps.
THEOREM StreamsEndOnce == Spec => []EndedStreamsAreSilent
<1>1. Init => EndsInv
    BY DEF Init, EndsInv, EndedStreamsAreSilent, Told
<1>2. TypeOK /\ EndsInv /\ [Next]_vars => EndsInv'
    BY EndsStep
<1>3. EndsInv => EndedStreamsAreSilent
    BY DEF EndsInv
<1> QED BY <1>1, <1>2, <1>3, TypeCorrect, PTL DEF Spec
-----------------------------------------------------------------------------
(* No tool the planner chooses runs before the narrative.                      *)

\* The gate opens on a narrative that is over; whoever does not wait at it has
\* passed it, or continues an approved action.
NarrativeInv ==
    /\ opening.text => "narrative" \in Told
    /\ gate = "open" => /\ route # "opening" /\ narrator[opening.attempt] = "over"
                        /\ ~opening.error /\ (request.configured => opening.text)
    /\ ~gated => gate = "open" \/ ran.approved > 0
    /\ run = "approved" => ran.approved > 0
    /\ run = "gated" \/ ran.chosen > 0 => request.configured
    /\ ran.chosen > 0 => gate = "open" \/ ran.approved > 0

LEMMA ToldAdds ==
    ASSUME TypeOK, NEW x \in Marks, timeline' = Append(timeline, x)
    PROVE  Told' = Told \cup {x}
<1>1. /\ timeline \in Seq(Marks) /\ Len(timeline) \in Nat
      /\ DOMAIN timeline = 1..Len(timeline) /\ DOMAIN timeline' = 1..(Len(timeline) + 1)
      /\ \A i \in 1..Len(timeline) : timeline'[i] = timeline[i]
      /\ timeline'[Len(timeline) + 1] = x
    BY DEF TypeOK, Marks
<1>2. Told \subseteq Told' /\ x \in Told'
    BY <1>1 DEF Told
<1>3. ASSUME NEW i \in 1..(Len(timeline) + 1)
      PROVE  timeline'[i] \in Told \cup {x}
    <2>1. i \in 1..Len(timeline) \/ i = Len(timeline) + 1
        BY <1>1
    <2> QED BY <1>1, <2>1 DEF Told
<1>4. Told' \subseteq Told \cup {x}
    BY <1>1, <1>3 DEF Told
<1> QED BY <1>2, <1>4

LEMMA ToldGrows ==
    ASSUME TypeOK, timeline' = timeline \/ \E x \in Marks : timeline' = Append(timeline, x)
    PROVE  Told \subseteq Told'
<1>1. CASE timeline' = timeline
    BY <1>1 DEF Told
<1> QED BY <1>1, ToldAdds

\* Whatever the route does, but for the narrative itself.
LEMMA RouteKeepsTold ==
    ASSUME TypeOK, Serve \/ Disconnect
    PROVE  Told \subseteq Told'
<1>1. ASSUME NEW e \in Events, Send(e)
      PROVE  Told \subseteq Told'
    BY <1>1, SendEffect, ToldGrows
<1>2. "error" \in Events /\ "cancelled" \in Events
    BY DEF Events, Terminal
<1>3. CASE Forward
    <2>1. Head(queue.events) \in Events
        BY <1>3 DEF Forward, TypeOK
    <2> QED BY <1>1, <1>3, <2>1, ToldGrows DEF Forward
<1>4. CASE timeline' = timeline
    BY <1>4, ToldGrows
<1>5. CASE TurnFails \/ Disconnect
    BY <1>1, <1>2, <1>5 DEF TurnFails, Disconnect
<1> QED BY <1>3, <1>4, <1>5
        DEF Serve, Reprompt, OpeningFails, OpenGate, QueueFails, QueueEnds

\* What the run does of the gate and of tools.
LEMMA ToolStep ==
    ASSUME TypeOK, NarrativeInv, Run \/ Confirm \/ Cancel
    PROVE  /\ gated' = gated \/ gate = "open" \/ ran.approved > 0
           /\ ran'.approved = ran.approved \/ (ran'.approved > 0 /\ ran'.chosen = ran.chosen)
           /\ run' = "approved" => ran'.approved > 0
           /\ run' = "gated" => request.configured
           /\ ran'.chosen = ran.chosen \/ (request.configured
                                           /\ (gate = "open" \/ ran.approved > 0))
<1> DEFINE Same == gated' = gated /\ ran' = ran /\ run' \notin {"approved", "gated"}
<1>1. CASE Persisted \/ Claim \/ Found \/ Started \/ NoProposal \/ Nudge \/ Close
    BY <1>1 DEF Persisted, Claim, Found, Started, NoProposal, Nudge, Close, plan, Decides
<1>2. CASE TakeProposal
    <2>1. ran \in [chosen : Nat, approved : Nat]
        BY DEF TypeOK
    <2>2. gated' = gated
        BY <1>2 DEF TakeProposal
    <2>3. CASE request.message = "yes" /\ active
        <3>1. ran'.approved = ran.approved + 1 /\ ran'.chosen = ran.chosen
            BY <1>2, <2>1, <2>3 DEF TakeProposal
        <3>2. run' # "gated"
            BY <1>2, <2>3 DEF TakeProposal, Yield
        <3> QED BY <2>1, <2>2, <3>1, <3>2
    <2>4. CASE ~(request.message = "yes" /\ active)
        BY <1>2, <2>2, <2>4 DEF TakeProposal, Yield
    <2> QED BY <2>3, <2>4
<1>3. CASE ApprovedDone
    BY <1>3 DEF ApprovedDone, NarrativeInv, Yield, TypeOK
<1>4. ASSUME RunTool, request.configured, gate = "open" \/ ran.approved > 0
      PROVE  /\ ran'.approved = ran.approved /\ run' \notin {"approved", "gated"}
    BY <1>4 DEF RunTool, Yield, TypeOK
<1>5. CASE DecideTool
    BY <1>4, <1>5 DEF DecideTool, Decides, NarrativeInv, TypeOK
<1>6. CASE PassGate
    BY <1>4, <1>6 DEF PassGate, NarrativeInv, TypeOK
<1>7. CASE ToolDone \/ ModelFails \/ AskConfirm \/ Confirm \/ Cancel
    BY <1>7 DEF ToolDone, ModelFails, AskConfirm, Confirm, Cancel, Yield, plan, NarrativeInv
<1>8. ASSUME NEW new \in BOOLEAN, Conclude(new)
      PROVE  Same
    BY <1>8 DEF Conclude, Yield, plan
<1> QED BY <1>1, <1>2, <1>3, <1>5, <1>6, <1>7, <1>8 DEF Run

LEMMA NarrativeStep ==
    ASSUME TypeOK, NarrativeInv, [Next]_vars
    PROVE  NarrativeInv'
<1>1. ASSUME NEW a \in 1..2, Speak(a)
      PROVE  NarrativeInv'
    <2>1. CASE Heard(a)
        <3>1. gate # "open"
            BY <1>1, <2>1 DEF NarrativeInv, Speak, Heard
        <3>2. "narrative" \in Told'
            <4>1. CASE opening.text
                BY <1>1, <2>1, <4>1 DEF Speak, NarrativeInv, Told
            <4>2. CASE ~opening.text
                <5>1. timeline' = Append(timeline, "narrative")
                    BY <1>1, <2>1, <4>2 DEF Speak, Send, MarkOf
                <5>2. timeline \in Seq(Marks) /\ "narrative" \in Marks
                    BY DEF TypeOK, Marks
                <5>3. Len(timeline) + 1 \in DOMAIN timeline'
                      /\ timeline'[Len(timeline) + 1] = "narrative"
                    BY <5>1, <5>2
                <5> QED BY <5>3 DEF Told
            <4> QED BY <4>1, <4>2
        <3> QED BY <1>1, <3>1, <3>2 DEF NarrativeInv, Speak, plan
    <2>2. CASE ~Heard(a)
        BY <1>1, <2>2 DEF NarrativeInv, Speak, plan, TypeOK, Told
    <2> QED BY <2>1, <2>2
<1>2. ASSUME NEW a \in 1..2, FallSilent(a)
      PROVE  NarrativeInv'
    <2>1. gate = "open" => a # opening.attempt
        BY <1>2 DEF NarrativeInv, FallSilent
    <2>2. opening' = opening \/ (gate # "open" /\ opening'.text = opening.text)
        BY <1>2, <2>1 DEF FallSilent, TypeOK
    <2>3. gate = "open" => narrator'[opening.attempt] = "over"
        BY <1>2 DEF NarrativeInv, FallSilent, TypeOK
    <2> QED BY <1>2, <2>1, <2>2, <2>3 DEF NarrativeInv, FallSilent, plan, Told
<1>3. CASE Serve \/ Disconnect
    <2>1. Told \subseteq Told'
        BY <1>3, RouteKeepsTold
    <2>2. /\ UNCHANGED <<request, proposal, plan>>
          /\ run' = run \/ (entry = "waiting" /\ run' = "closing")
        BY <1>3, RouteKeepsRun
    <2>3. \/ opening' = opening /\ narrator' = narrator
          \/ ~opening'.text /\ gate' = gate /\ gate # "open"
        <3>1. ASSUME NEW settled \in BOOLEAN, Reprompt(settled)
              PROVE  ~opening'.text /\ gate' = gate /\ gate # "open"
            BY <3>1 DEF Reprompt, Settled, NarrativeInv
        <3> QED BY <1>3, <3>1 DEF Serve, Disconnect, OpeningFails, OpenGate, Forward, QueueFails,
                                  QueueEnds
    <2>4. \/ gate' = gate /\ (route # "opening" => route' # "opening")
          \/ gate # "open" /\ gate' # "open"
          \/ gate' = "open" /\ OpenGate /\ route' = "forwarding"
        <3>1. ASSUME NEW settled \in BOOLEAN, OpeningFails(settled)
              PROVE  gate # "open" /\ gate' # "open"
            BY <3>1 DEF OpeningFails, Settled, NarrativeInv
        <3>2. CASE Forward \/ QueueEnds \/ Disconnect
            BY <3>2 DEF Forward, QueueEnds, Disconnect
        <3>3. CASE QueueFails
            BY <3>3 DEF QueueFails, TurnFails
        <3>4. ASSUME NEW settled \in BOOLEAN, Reprompt(settled)
              PROVE  gate' = gate /\ route' = route
            BY <3>4 DEF Reprompt
        <3>5. CASE OpenGate
            BY <3>5 DEF OpenGate, Settled
        <3> QED BY <1>3, <3>1, <3>2, <3>3, <3>4, <3>5 DEF Serve
    <2>5. OpenGate => /\ narrator[opening.attempt] = "over" /\ ~opening.error
                      /\ (request.configured => opening.text)
                      /\ opening' = opening /\ narrator' = narrator
        BY DEF OpenGate, Settled, Narrated
    <2>6. gate = "open" => gate' = "open"
        BY <2>4, <1>3 DEF NarrativeInv
    <2> QED BY <2>1, <2>2, <2>3, <2>4, <2>5, <2>6 DEF NarrativeInv, plan
<1>4. CASE Run \/ Confirm \/ Cancel
    <2>1. UNCHANGED <<request, narrator, opening, route, gate, active, timeline>>
        BY <1>4, RunKeepsRoute DEF RouteKept
    <2>2. /\ gated' = gated \/ gate = "open" \/ ran.approved > 0
          /\ ran'.approved = ran.approved \/ (ran'.approved > 0 /\ ran'.chosen = ran.chosen)
          /\ run' = "approved" => ran'.approved > 0
          /\ run' = "gated" => request.configured
          /\ ran'.chosen = ran.chosen \/ (request.configured
                                          /\ (gate = "open" \/ ran.approved > 0))
        BY <1>4, ToolStep
    <2> QED BY <2>1, <2>2 DEF NarrativeInv, Told
<1>5. CASE UNCHANGED vars
    BY <1>5 DEF vars, plan, NarrativeInv, Told
<1> QED BY <1>1, <1>2, <1>3, <1>4, <1>5 DEF Next, Narrate

\* No tool the planner chooses runs before the user can see why.
THEOREM NarrativeComesFirst == Spec => []NarrativeBeforeAction
<1>1. Init => NarrativeInv
    BY DEF Init, NarrativeInv
<1>2. TypeOK /\ NarrativeInv /\ [Next]_vars => NarrativeInv'
    BY NarrativeStep
<1>3. TypeOK /\ NarrativeInv => NarrativeBeforeAction
    BY DEF NarrativeInv, NarrativeBeforeAction, TypeOK
<1> QED BY <1>1, <1>2, <1>3, TypeCorrect, PTL DEF Spec
-----------------------------------------------------------------------------
(* A stopped turn starts no tool.                                              *)

\* Once a turn was stopped, failed or answered, no tool runs for it any more.
THEOREM StoppedTurnsRest == Spec => StoppedTurnsActNoMore
<1>1. ASSUME TypeOK, [Next]_vars, ~active
      PROVE  ran' = ran
    <2>1. CASE Narrate \/ Serve \/ Disconnect
        BY <1>1, <2>1, RouteKeepsRun DEF plan
    <2>2. CASE Run \/ Confirm \/ Cancel
        BY <1>1, <2>2 DEF Run, Confirm, Cancel, Persisted, Claim, Found, Started, NoProposal,
                          TakeProposal, ApprovedDone, RunTool, DecideTool, Nudge, PassGate,
                          ToolDone, ModelFails, AskConfirm, Close, Conclude, plan
    <2>3. CASE UNCHANGED vars
        BY <2>3 DEF vars, plan
    <2> QED BY <1>1, <2>1, <2>2, <2>3 DEF Next
<1>2. TypeOK /\ [Next]_vars => [~active => ran' = ran]_vars
    BY <1>1
<1> QED BY <1>2, TypeCorrect, PTL DEF Spec, StoppedTurnsActNoMore
-----------------------------------------------------------------------------
(* Cards and answers.                                                          *)

Resolved == "resolved" \in Told \cup Queued
Early    == {"persisting", "linking", "finding", "starting", "approving"}

\* A card, shown or queued, is the run's last word and its proposal is stored;
\* an answer, shown or queued, is what the run did.
ApprovalInv ==
    /\ entry = "waiting" => run = "waiting"
    /\ awaiting \/ "approval" \in Queued => proposal = "new" /\ run \in {"closing", "over"}
    /\ run \in Early => ~Resolved /\ ran.chosen = 0 /\ ran.approved = 0
    /\ Resolved => /\ ran.approved = IF request.message = "yes" THEN 1 ELSE 0
                   /\ request.message = "no" => ran.chosen = 0 /\ run \in {"closing", "over"}

\* The stream only moves what the queue holds.
LEMMA StreamMoves ==
    ASSUME TypeOK, Narrate \/ Serve \/ Disconnect
    PROVE  /\ Queued' \subseteq Queued
           /\ awaiting' => awaiting \/ "approval" \in Queued
           /\ "resolved" \in Told' => "resolved" \in Told \cup Queued
<1>1. ASSUME NEW e \in Events \cup {"narrative"}, Send(e)
      PROVE  /\ awaiting' => awaiting \/ e = "approval"
             /\ "resolved" \in Told' => "resolved" \in Told \/ e = "resolved"
    <2>1. MarkOf[e] \in Marks /\ (MarkOf[e] = "resolved" => e = "resolved")
        BY DEF Events, Terminal, Marks, Ends, MarkOf
    <2>2. Told' = Told \/ Told' = Told \cup {MarkOf[e]}
        BY <1>1, <2>1, ToldAdds DEF Send, Told
    <2> QED BY <1>1, <2>1, <2>2 DEF Send
<1>2. {"error", "cancelled", "narrative"} \subseteq Events \cup {"narrative"}
    BY DEF Events, Terminal
<1>3. CASE Forward
    <2> DEFINE e == Head(queue.events)
    <2>1. queue.events \in Seq(Events) /\ queue.events # <<>> /\ queue'.events = Tail(queue.events)
        BY <1>3 DEF Forward, TypeOK
    <2>2. e \in Events /\ e \in Queued
        BY <2>1 DEF Queued
    <2>3. Queued' \subseteq Queued
        BY <2>1 DEF Queued
    <2>4. CASE Send(e)
        <3> HIDE DEF e
        <3> QED BY <1>1, <2>2, <2>3, <2>4
    <2>5. CASE UNCHANGED <<timeline, awaiting>>
        BY <2>3, <2>5 DEF Told
    <2> QED BY <1>3, <2>4, <2>5 DEF Forward
<1>4. CASE UNCHANGED <<timeline, awaiting, queue>>
    BY <1>4 DEF Told, Queued
<1>5. CASE queue' = queue /\ (Send("error") \/ Send("cancelled") \/ Send("narrative"))
    BY <1>1, <1>2, <1>5 DEF Queued
<1>6. CASE Narrate
    BY <1>4, <1>5, <1>6 DEF Narrate, Speak, FallSilent
<1>7. CASE Serve
    BY <1>3, <1>4, <1>5, <1>7 DEF Serve, Reprompt, OpeningFails, OpenGate, QueueFails, QueueEnds,
                                  TurnFails
<1>8. CASE Disconnect
    BY <1>5, <1>8 DEF Disconnect
<1> QED BY <1>6, <1>7, <1>8

LEMMA YieldOne ==
    ASSUME TypeOK, NEW e \in Events, NEW next, Yield(<<e>>, next)
    PROVE  Queued' \subseteq Queued \cup {e} /\ run' = IF active THEN next ELSE "closing"
<1>1. <<e>> \in Seq(Events) /\ {<<e>>[i] : i \in DOMAIN <<e>>} = {e}
    OBVIOUS
<1>2. /\ run' = IF active THEN next ELSE "closing"
      /\ Queued' \subseteq Queued \cup {<<e>>[i] : i \in DOMAIN <<e>>}
    BY <1>1, YieldEffect
<1> QED BY <1>1, <1>2

LEMMA YieldTwo ==
    ASSUME TypeOK, NEW d \in Events, NEW e \in Events, NEW next, Yield(<<d, e>>, next)
    PROVE  Queued' \subseteq Queued \cup {d, e} /\ run' = IF active THEN next ELSE "closing"
<1>1. <<d, e>> \in Seq(Events) /\ {<<d, e>>[i] : i \in DOMAIN <<d, e>>} = {d, e}
    OBVIOUS
<1>2. /\ run' = IF active THEN next ELSE "closing"
      /\ Queued' \subseteq Queued \cup {<<d, e>>[i] : i \in DOMAIN <<d, e>>}
    BY <1>1, YieldEffect
<1> QED BY <1>1, <1>2

\* A step of the planner or of the user that shows no card and gives no answer.
LEMMA PlainStep ==
    ASSUME ApprovalInv, RouteKept, run \notin Early, run' \notin Early,
           ran'.approved = ran.approved,
           \/ run \notin {"closing", "over"}
           \/ run' = "over" /\ proposal' = proposal /\ ran' = ran,
           entry' = "waiting" => run' = "waiting",
           Queued' \subseteq Queued \cup (Events \ {"resolved", "approval"})
    PROVE  ApprovalInv'
<1>1. UNCHANGED <<request, timeline, awaiting>> /\ Told' = Told
    BY DEF RouteKept, Told
<1>2. /\ Resolved' => Resolved
      /\ (awaiting \/ "approval" \in Queued)' => awaiting \/ "approval" \in Queued
    BY <1>1 DEF Resolved
<1> QED BY <1>1, <1>2 DEF ApprovalInv

LEMMA ApprovalStep ==
    ASSUME TypeOK, ApprovalInv, [Next]_vars
    PROVE  ApprovalInv'
<1>1. CASE Narrate \/ Serve \/ Disconnect
    <2>1. /\ UNCHANGED <<request, proposal, ran>>
          /\ run' = run \/ (entry = "waiting" /\ run' = "closing")
          /\ (entry' = entry /\ run' = run) \/ entry' = "none"
        BY <1>1, RouteKeepsRun DEF plan
    <2>2. /\ Resolved' => Resolved
          /\ (awaiting \/ "approval" \in Queued)' => awaiting \/ "approval" \in Queued
        BY <1>1, StreamMoves DEF Resolved
    <2>3. run' \in Early => run \in Early
        BY <2>1 DEF Early
    <2> QED BY <2>1, <2>2, <2>3 DEF ApprovalInv
<1>2. CASE Found
    <2>1. /\ UNCHANGED <<request, timeline, awaiting, ran>> /\ Told' = Told
          /\ run = "finding" /\ run' \in {"starting", "aborted"}
          /\ entry' = "waiting" => entry = "waiting"
        BY <1>2 DEF Found, plan, RouteKept, Told
    <2>2. ~Resolved /\ ran.chosen = 0 /\ ran.approved = 0 /\ ~awaiting
          /\ "approval" \notin Queued /\ entry # "waiting"
        BY <2>1 DEF ApprovalInv, Early
    <2>3. Queued' \subseteq Queued \cup {"error"}
        <3>1. queue.events \in Seq(Events) /\ <<"error">> \in Seq({"error"})
            BY DEF TypeOK
        <3>2. CASE queue'.events = queue.events
            BY <3>2 DEF Queued
        <3>3. CASE queue'.events = queue.events \o <<"error">>
            <4>1. ASSUME NEW i \in DOMAIN queue'.events
                  PROVE  queue'.events[i] \in Queued \cup {"error"}
                BY <3>1, <3>3, <4>1 DEF Queued
            <4> QED BY <4>1 DEF Queued
        <3>4. queue.events \o <<>> = queue.events
            BY <3>1
        <3>5. \/ queue' = queue
              \/ queue'.events = queue.events
              \/ queue'.events = queue.events \o (IF active THEN <<"error">> ELSE <<>>)
            <4> DEFINE es == queue.events \o (IF active THEN <<"error">> ELSE <<>>)
            <4>1. \/ queue' = queue
                  \/ queue' = [events |-> queue.events, closed |-> TRUE, failed |-> TRUE]
                  \/ queue' = [events |-> es, closed |-> TRUE, failed |-> FALSE]
                BY <1>2, Zenon DEF Found, EndQueue
            <4> HIDE DEF es
            <4>2. queue' = queue \/ queue'.events = queue.events \/ queue'.events = es
                BY <4>1
            <4> QED BY <4>2, Zenon DEF es
        <3>6. CASE active
            BY <3>2, <3>3, <3>5, <3>6
        <3>7. CASE ~active
            BY <3>2, <3>4, <3>5, <3>7
        <3> QED BY <3>6, <3>7
    <2> QED BY <2>1, <2>2, <2>3 DEF ApprovalInv, Resolved
<1>3. CASE Persisted \/ Claim \/ Started \/ NoProposal
    <2>1. /\ UNCHANGED <<request, timeline, awaiting, ran, proposal>> /\ Told' = Told
          /\ queue'.events = queue.events /\ Queued' = Queued /\ run \in Early
          /\ entry' = "waiting" => entry = "waiting"
        BY <1>3 DEF Persisted, Claim, Started, NoProposal, plan, RouteKept, Told, EndQueue, Queued,
                    Early
    <2> QED BY <2>1 DEF ApprovalInv, Resolved, Early
<1>4. CASE TakeProposal
    <2>1. /\ UNCHANGED <<request, timeline, awaiting, entry>> /\ Told' = Told
          /\ run = "approving" /\ proposal' = "none"
        BY <1>4 DEF TakeProposal, RouteKept, Told
    <2>2. /\ ~Resolved /\ ran.chosen = 0 /\ ran.approved = 0 /\ ~awaiting
          /\ "approval" \notin Queued /\ entry # "waiting"
        BY <2>1 DEF ApprovalInv, Early
    <2>3. {"resolved", "done", "tool"} \subseteq Events
        BY DEF Events, Terminal
    <2>4. Queued' \subseteq Queued \cup {"resolved", "done", "tool"}
        <3>1. CASE Yield(<<"resolved", "done">>, "closing")
            BY <2>3, <3>1, YieldTwo
        <3>2. CASE Yield(<<"resolved", "tool">>, "approved")
            BY <2>3, <3>2, YieldTwo
        <3>3. CASE Yield(<<"resolved">>, "planning")
            BY <2>3, <3>3, YieldOne
        <3> QED BY <1>4, <3>1, <3>2, <3>3 DEF TakeProposal
    <2>5. CASE active
        <3>1. /\ request.message = "no" => run' = "closing"
              /\ run' \notin Early
            BY <1>4, <2>5 DEF TakeProposal, Yield, Early
        <3>2. /\ ran'.chosen = 0
              /\ ran'.approved = IF request.message = "yes" THEN 1 ELSE 0
            BY <1>4, <2>2, <2>5 DEF TakeProposal, TypeOK
        <3> QED BY <2>1, <2>2, <2>4, <3>1, <3>2 DEF ApprovalInv
    <2>6. CASE ~active
        <3>1. queue' = queue /\ run' = "closing" /\ ran' = ran
            BY <1>4, <2>6 DEF TakeProposal, Yield
        <3>2. ~Resolved'
            BY <2>1, <2>2, <3>1 DEF Resolved, Queued
        <3> QED BY <2>1, <2>2, <2>4, <3>1, <3>2 DEF ApprovalInv, Early
    <2> QED BY <2>5, <2>6
<1>5. ASSUME RunTool
      PROVE  /\ ran'.approved = ran.approved /\ run' \in {"tool", "closing"}
             /\ Queued' \subseteq Queued \cup {"tool"}
    <2>1. ran'.approved = ran.approved
        BY <1>5 DEF RunTool, TypeOK
    <2> QED BY <1>5, <2>1, YieldOne DEF RunTool, Events
<1>6. {"tool", "error", "cancelled"} \subseteq Events
    BY DEF Events, Terminal
<1>7. CASE DecideTool
    BY <1>5, <1>6, <1>7, PlainStep DEF DecideTool, Decides, Early, Queued, ApprovalInv
<1>8. CASE PassGate
    BY <1>5, <1>6, <1>8, PlainStep DEF PassGate, Early, Queued, ApprovalInv
<1>9. CASE ApprovedDone \/ ToolDone
    BY <1>9, YieldNothing, PlainStep DEF ApprovedDone, ToolDone, plan, Early, Queued, ApprovalInv
<1>10. CASE Nudge
    BY <1>10, PlainStep DEF Nudge, Decides, Early, Queued, ApprovalInv
<1>11. CASE ModelFails
    <2>1. run' = "closing" /\ Queued' \subseteq Queued \cup {"error"}
        <3>1. CASE Yield(<<"error">>, "closing")
            BY <1>6, <3>1, YieldOne
        <3>2. CASE run' = "closing" /\ queue' = queue
            BY <3>2 DEF Queued
        <3> QED BY <1>11, <3>1, <3>2 DEF ModelFails
    <2> QED BY <1>6, <1>11, <2>1, PlainStep DEF ModelFails, Decides, Early, ApprovalInv
<1>13. CASE AskConfirm
    <2>1. /\ run' = "waiting" \/ (run' = "closing" /\ entry' = entry)
          /\ Queued' \subseteq Queued \cup {"cancelled"}
        <3>1. CASE Yield(<<"cancelled">>, "closing") /\ UNCHANGED entry
            BY <1>6, <3>1, YieldOne
        <3>2. CASE run' = "waiting" /\ queue' = queue
            BY <3>2 DEF Queued
        <3> QED BY <1>13, <3>1, <3>2 DEF AskConfirm
    <2> QED BY <1>6, <1>13, <2>1, PlainStep DEF AskConfirm, Decides, Early, ApprovalInv
<1>14. CASE Close
    BY <1>14, PlainStep DEF Close, EndQueue, plan, Early, Queued
<1>15. ASSUME NEW new \in BOOLEAN, Conclude(new)
       PROVE  ApprovalInv'
    <2>1. /\ UNCHANGED <<request, timeline, awaiting, entry, ran>> /\ Told' = Told
          /\ run = "planning" /\ proposal' = IF new THEN "new" ELSE "none"
        BY <1>15 DEF Conclude, RouteKept, Told, plan
    <2>2. ~awaiting /\ "approval" \notin Queued /\ entry # "waiting"
        BY <2>1 DEF ApprovalInv
    <2>3. {"done", "approval"} \subseteq Events
        BY DEF Events, Terminal
    <2>4. /\ run' = "closing" /\ Queued' \subseteq Queued \cup {"approval", "done"}
          /\ ~new => Queued' \subseteq Queued \cup {"done"}
        <3>1. CASE new
            <4>1. Yield(<<"approval", "done">>, "closing")
                BY <1>15, <3>1 DEF Conclude
            <4> QED BY <2>3, <3>1, <4>1, YieldTwo
        <3>2. CASE ~new
            <4>1. Yield(<<"done">>, "closing")
                BY <1>15, <3>2 DEF Conclude
            <4> QED BY <2>3, <4>1, YieldOne
        <3> QED BY <3>1, <3>2
    <2>5. Resolved' => Resolved
        BY <2>1, <2>4 DEF Resolved
    <2> QED BY <2>1, <2>2, <2>4, <2>5 DEF ApprovalInv, Early
<1>16. CASE Confirm
    BY <1>16, YieldNothing, PlainStep DEF Confirm, Early, Queued, ApprovalInv
<1>17. CASE Cancel
    <2>1. CASE entry = "waiting"
        <3>1. run' = "closing" /\ Queued' \subseteq Queued \cup {"cancelled"}
            BY <1>6, <1>17, <2>1, YieldOne DEF Cancel
        <3> QED BY PlainStep, <1>6, <1>17, <2>1, <3>1 DEF Cancel, plan, Early, ApprovalInv
    <2>2. CASE entry # "waiting"
        BY <1>17, <2>2 DEF Cancel, plan, RouteKept, ApprovalInv, Resolved, Told, Queued
    <2> QED BY <2>1, <2>2
<1>18. CASE UNCHANGED vars
    BY <1>18 DEF vars, plan, ApprovalInv, Resolved, Told, Queued
<1> QED BY <1>1, <1>2, <1>3, <1>4, <1>7, <1>8, <1>9, <1>10, <1>11, <1>13, <1>14, <1>15, <1>16, <1>17,
           <1>18 DEF Next, Run

LEMMA ApprovalInit ==
    Init => ApprovalInv
BY DEF Init, ApprovalInv, Resolved, Told, Queued, Early

LEMMA ApprovalHolds == Spec => []ApprovalInv
<1>1. TypeOK /\ ApprovalInv /\ [Next]_vars => ApprovalInv'
    BY ApprovalStep
<1> QED BY <1>1, ApprovalInit, TypeCorrect, PTL DEF Spec

\* A card that stands can be answered: its proposal is the stored one.
THEOREM CardsCanBeAnswered == Spec => []CardHasProposal
<1>1. ApprovalInv => CardHasProposal
    BY DEF ApprovalInv, CardHasProposal
<1> QED BY <1>1, ApprovalHolds, PTL

\* What the stream says of a pending approval is what the run did of it.
THEOREM AnswersAreObeyed == Spec => []AnswerIsObeyed
<1>1. ApprovalInv => AnswerIsObeyed
    BY DEF ApprovalInv, Resolved, AnswerIsObeyed
<1> QED BY <1>1, ApprovalHolds, PTL
=============================================================================
