------------------------------ MODULE TaskQueue ------------------------------
(* The daemon's task queue (packages/core/src/queue.ts) with the processes     *)
(* that open it (packages/daemon/src/server.ts, bin.ts).                       *)
(*                                                                             *)
(* A daemon process keeps the whole store in memory and rewrites tasks.json    *)
(* after every change. One loop picks the oldest queued task, awaits its       *)
(* runner and records the outcome. Code between two awaits runs alone in its   *)
(* process, so an action is one such stretch; "top" is the head of the loop,   *)
(* reached without an await, at which the same process does nothing else.      *)
(* Several processes may share the file: buildApp() starts the queue before    *)
(* startServer() learns whether the port is free. stop() is left out: only     *)
(* app.close() calls it, and the daemon leaves by process.exit (server.ts:161).*)
(*                                                                             *)
(* Abstracted: payload, result and steps of a task (a step is the save it      *)
(* causes), the 100 ms poll (the wake it polls for), the wall clock (createdAt *)
(* never decreases along the insertion order, which breaks its ties).          *)
EXTENDS Naturals, FiniteSets

CONSTANTS
    Tasks,        \* tasks that may be submitted
    Procs,        \* daemon processes over one data directory
    MaxFaults,    \* bound: kills, failed saves, failed reads and overlapping boots
    NoTask, NoProc, Corrupt

ASSUME TaskQueueAssumption ==
    /\ NoTask \notin Tasks
    /\ NoProc \notin Procs
    /\ MaxFaults \in Nat
    /\ IsFiniteSet(Tasks)
    /\ IsFiniteSet(Procs)

Unfinished == {"queued", "running"}
Finished == {"succeeded", "failed"}

\* A row of store.tasks: position 0 is no row, else the insertion position.
TaskRow == [status : {"absent"} \cup Unfinished \cup Finished, pos : Nat]
Stores == [Tasks -> TaskRow]
Empty == [t \in Tasks |-> [status |-> "absent", pos |-> 0]]

ASSUME CorruptAssumption == Corrupt \notin Stores

VARIABLES
    disk,        \* tasks.json: a store, or Corrupt
    mem,         \* this.store of each process
    pc,          \* where each process is
    cur,         \* the task whose runner a process awaits
    wake,        \* this.wake
    listening,   \* the process that holds the port
    faults,
    \* history
    accepted,    \* tasks answered 202
    reported,    \* the status of the done event of each task
    runs,        \* times the runner of a task was called
    kills,       \* times a process died while it awaited the runner of a task
    lost,        \* a process has loaded an empty store in place of the file
    overlaps     \* times a process booted beside a live one

procVars == <<mem, pc, cur, wake>>
history == <<accepted, reported, runs, kills, lost, overlaps>>
vars == <<disk, procVars, listening, faults, history>>

Up(p) == pc[p] # "off"
NoneUp == \A p \in Procs : ~Up(p)
Queued(st) == {t \in Tasks : st[t].status = "queued"}

\* nextQueued(): the oldest queued task.
Oldest(st) == {t \in Queued(st) : \A u \in Queued(st) : st[t].pos <= st[u].pos}

SetStatus(st, t, s) == [st EXCEPT ![t].status = s]

\* Mutant of ResetRunning: a task left running stays so.
ResetNothing(st) == st

\* start(): tasks left running go back to the queue.
ResetRunning(st) ==
    [t \in Tasks |-> IF st[t].status = "running" THEN [st[t] EXCEPT !.status = "queued"]
                                                 ELSE st[t]]

\* submit(): the new row comes after every row of the store.
Inserted(st, t) ==
    [st EXCEPT ![t] = [status |-> "queued",
                       pos |-> 1 + Cardinality({u \in Tasks : st[u].status # "absent"})]]

\* load(): an unreadable file is an empty store, and so is one whose read throws.
Load(d) == {Empty} \cup ({d} \ {Corrupt})

-----------------------------------------------------------------------------
\* save(): writeFileSync truncates and writes. It succeeds, or it throws (full
\* disk, locked file) or is cut short, and may then leave an unreadable file.
Save(st) == disk' = st /\ UNCHANGED faults
Interrupted == disk' \in {disk, Corrupt}
Fault == faults < MaxFaults /\ faults' = faults + 1
SaveThrows == Fault /\ Interrupted

\* Mutant of Die: the task it was running is not forgotten.
DieHolding(p) ==
    /\ pc' = [pc EXCEPT ![p] = "off"]
    /\ mem' = [mem EXCEPT ![p] = Empty]
    /\ wake' = [wake EXCEPT ![p] = FALSE]
    /\ listening' = IF listening = p THEN NoProc ELSE listening
    /\ kills' = [t \in Tasks |-> IF t = cur[p] THEN kills[t] + 1 ELSE kills[t]]
    /\ UNCHANGED <<cur, accepted, reported, runs, lost, overlaps>>

\* The process is gone: what it held in memory, its runner and its port with it.
Die(p) ==
    /\ pc' = [pc EXCEPT ![p] = "off"]
    /\ mem' = [mem EXCEPT ![p] = Empty]
    /\ cur' = [cur EXCEPT ![p] = NoTask]
    /\ wake' = [wake EXCEPT ![p] = FALSE]
    /\ listening' = IF listening = p THEN NoProc ELSE listening
    /\ kills' = [t \in Tasks |-> IF t = cur[p] THEN kills[t] + 1 ELSE kills[t]]
    /\ UNCHANGED <<accepted, reported, runs, lost, overlaps>>

\* new TaskQueue(runner): the constructor reads the file. A boot beside a live
\* process is what ensureRunning does when /healthz is slow to answer.
Boot(p) ==
    /\ ~Up(p)
    /\ overlaps' = IF NoneUp THEN overlaps ELSE overlaps + 1
    /\ \E st \in Load(disk) :
          /\ mem' = [mem EXCEPT ![p] = st]
          /\ lost' = (lost \/ st # disk)
          /\ IF NoneUp /\ disk \in {st, Corrupt} THEN UNCHANGED faults ELSE Fault
    /\ pc' = [pc EXCEPT ![p] = "loaded"]
    /\ UNCHANGED <<disk, cur, wake, listening, accepted, reported, runs, kills>>

\* start(): reset, save, enter the loop. A throw ends buildApp() and the process.
Start(p) ==
    /\ pc[p] = "loaded"
    /\ \/ /\ mem' = [mem EXCEPT ![p] = ResetRunning(@)]
          /\ Save(ResetRunning(mem[p]))
          /\ pc' = [pc EXCEPT ![p] = "top"]
          /\ UNCHANGED <<cur, wake, listening, history>>
       \/ SaveThrows /\ Die(p)

\* loop(): the oldest queued task is set running, saved and handed to the runner.
\* nextQueued() is outside the try: a throw rejects the worker, which nobody
\* awaits, and the unhandled rejection ends the process.
PickTask(p) ==
    /\ pc[p] = "top"
    /\ \E t \in Oldest(mem[p]) :
       \/ /\ mem' = [mem EXCEPT ![p] = SetStatus(@, t, "running")]
          /\ Save(SetStatus(mem[p], t, "running"))
          /\ pc' = [pc EXCEPT ![p] = "busy"]
          /\ cur' = [cur EXCEPT ![p] = t]
          /\ runs' = [runs EXCEPT ![t] = @ + 1]
          /\ UNCHANGED <<wake, listening, accepted, reported, kills, lost, overlaps>>
       \/ SaveThrows /\ Die(p)

\* loop(): nothing queued, wait for a wake.
Sleep(p) ==
    /\ pc[p] = "top"
    /\ Queued(mem[p]) = {}
    /\ wake' = [wake EXCEPT ![p] = FALSE]
    /\ pc' = [pc EXCEPT ![p] = "asleep"]
    /\ UNCHANGED <<disk, mem, cur, listening, faults, history>>

WakeUp(p) ==
    /\ pc[p] = "asleep" /\ wake[p]
    /\ pc' = [pc EXCEPT ![p] = "top"]
    /\ UNCHANGED <<disk, mem, cur, wake, listening, faults, history>>

\* addStep(): every step of the runner rewrites the file from memory. A throw
\* reaches the runner, which fails or goes on (runValidationCommand catches it).
Step(p) ==
    /\ pc[p] = "busy"
    /\ Save(mem[p]) \/ SaveThrows
    /\ UNCHANGED <<procVars, listening, history>>

\* Mutant of Record: the outcome is not saved.
RecordUnsaved(p, s) ==
    /\ mem' = [mem EXCEPT ![p] = SetStatus(@, cur[p], s)]
    /\ reported' = [reported EXCEPT ![cur[p]] = s]
    /\ pc' = [pc EXCEPT ![p] = "top"]
    /\ cur' = [cur EXCEPT ![p] = NoTask]
    /\ UNCHANGED <<disk, wake, listening, accepted, runs, kills, lost, overlaps>>

\* setStatus(id, s) and emit("done"): back to the head of the loop.
Record(p, s) ==
    /\ mem' = [mem EXCEPT ![p] = SetStatus(@, cur[p], s)]
    /\ disk' = SetStatus(mem[p], cur[p], s)
    /\ reported' = [reported EXCEPT ![cur[p]] = s]
    /\ pc' = [pc EXCEPT ![p] = "top"]
    /\ cur' = [cur EXCEPT ![p] = NoTask]
    /\ UNCHANGED <<wake, listening, accepted, runs, kills, lost, overlaps>>

\* The runner settles. The save of a success is inside the try, so its throw
\* records the task failed; a throw in the catch rejects the worker.
RunnerSettles(p) ==
    /\ pc[p] = "busy"
    /\ \/ \E s \in Finished : Record(p, s) /\ UNCHANGED faults
       \/ Fault /\ Record(p, "failed")
       \/ SaveThrows /\ Die(p)

\* The id of a submission is new to every store.
Fresh(t) ==
    /\ t \notin accepted /\ runs[t] = 0
    /\ \A q \in Procs : mem[q][t].status = "absent"
    /\ disk # Corrupt => disk[t].status = "absent"

\* Mutant of Submit: the row is not saved.
SubmitUnsaved(p, t) ==
    /\ listening = p
    /\ pc[p] \in {"busy", "asleep"}
    /\ Fresh(t)
    /\ mem' = [mem EXCEPT ![p] = Inserted(@, t)]
    /\ wake' = [wake EXCEPT ![p] = TRUE]
    /\ accepted' = accepted \cup {t}
    /\ UNCHANGED <<disk, pc, cur, listening, faults, reported, runs, kills, lost, overlaps>>

\* POST /tasks/submit-pipeline. When the save throws the answer is 500, yet the
\* row stays in memory and nothing wakes the loop.
Submit(p, t) ==
    /\ listening = p
    /\ pc[p] \in {"busy", "asleep"}
    /\ Fresh(t)
    /\ mem' = [mem EXCEPT ![p] = Inserted(@, t)]
    /\ \/ /\ Save(Inserted(mem[p], t))
          /\ wake' = [wake EXCEPT ![p] = TRUE]
          /\ accepted' = accepted \cup {t}
       \/ SaveThrows /\ UNCHANGED <<wake, accepted>>
    /\ UNCHANGED <<pc, cur, listening, reported, runs, kills, lost, overlaps>>

\* app.listen(): the port is taken, or EADDRINUSE and process.exit(1).
Listen(p) ==
    /\ pc[p] \in {"busy", "asleep"}
    /\ listening # p
    /\ \/ /\ listening = NoProc
          /\ listening' = p
          /\ UNCHANGED <<disk, procVars, faults, history>>
       \/ /\ listening # NoProc
          /\ Die(p)
          /\ UNCHANGED <<disk, faults>>

\* /shutdown, a kill or a power loss, perhaps in the middle of a save.
Crash(p) ==
    /\ Up(p)
    /\ Fault /\ Interrupted
    /\ Die(p)

Init ==
    /\ disk = Empty
    /\ mem = [p \in Procs |-> Empty]
    /\ pc = [p \in Procs |-> "off"]
    /\ cur = [p \in Procs |-> NoTask]
    /\ wake = [p \in Procs |-> FALSE]
    /\ listening = NoProc
    /\ faults = 0
    /\ accepted = {}
    /\ reported = [t \in Tasks |-> "none"]
    /\ runs = [t \in Tasks |-> 0]
    /\ kills = [t \in Tasks |-> 0]
    /\ lost = FALSE
    /\ overlaps = 0

\* What a live process does of itself.
Work(p) == Start(p) \/ PickTask(p) \/ Sleep(p) \/ WakeUp(p) \/ RunnerSettles(p) \/ Listen(p)

Next ==
    \E p \in Procs :
        \/ Boot(p) \/ Work(p) \/ Step(p) \/ Crash(p)
        \/ \E t \in Tasks : Submit(p, t)

Spec == Init /\ [][Next]_vars

\* The next command line call or desktop launch, when no daemon is up.
Restart == NoneUp /\ \E p \in Procs : Boot(p)

\* A runner settles (its commands and requests have timeouts), the event loop
\* resumes what is due, and when no daemon is up one is started again.
FairSpec == Spec /\ WF_vars(Restart) /\ \A p \in Procs : WF_vars(Work(p))

-----------------------------------------------------------------------------
TypeOK ==
    /\ disk \in Stores \cup {Corrupt}
    /\ mem \in [Procs -> Stores]
    /\ pc \in [Procs -> {"off", "loaded", "top", "busy", "asleep"}]
    /\ cur \in [Procs -> Tasks \cup {NoTask}]
    /\ wake \in [Procs -> BOOLEAN]
    /\ listening \in Procs \cup {NoProc}
    /\ faults \in 0..MaxFaults
    /\ accepted \subseteq Tasks
    /\ reported \in [Tasks -> Finished \cup {"none"}]
    /\ runs \in [Tasks -> Nat]
    /\ kills \in [Tasks -> Nat]
    /\ lost \in BOOLEAN
    /\ overlaps \in Nat
    /\ \A p \in Procs : pc[p] = "busy" <=> cur[p] # NoTask

\* A task runs again only for a death in the middle of its run or for a second
\* daemon that loaded it too, and each of these costs one run at most: no restart
\* at another time, no failed save and no failed submission repeats its writes
\* (the pull request and the build the runner starts).
RunsCharged == \A t \in Tasks : runs[t] <= 1 + kills[t] + overlaps

\* One daemon at a time, and the store was never empty in place of the file.
Undisturbed == ~lost /\ overlaps = 0

\* What a client was told survives every restart of the only daemon: an accepted
\* task is in the file, and a task reported finished is finished there, with the
\* status that was reported.
AnswersAreDurable ==
    disk # Corrupt /\ Undisturbed =>
        \A t \in Tasks :
            /\ t \in accepted => disk[t].status # "absent"
            /\ reported[t] # "none" => disk[t].status = reported[t]

\* Every accepted task ends, across restarts of the only daemon: no wake of the
\* loop is lost and no interrupted task is left running.
AcceptedEnds ==
    \A t \in Tasks : t \in accepted ~> (reported[t] # "none" \/ ~Undisturbed)

\* "Reset any tasks that were mid-run when the process was killed" (queue.ts:81):
\* what start() puts back in the queue no live process is running.
ResetIsOfInterrupted ==
    [][\A p, q \in Procs, t \in Tasks :
         pc[p] = "loaded" /\ mem[p][t].status = "running" /\ mem'[p][t].status = "queued"
           => cur[q] # t]_vars
-----------------------------------------------------------------------------
\* The queue implements TaskBoard. The mapping forgets the processes, the store
\* each of them holds and the file: the board is spoilt by a second daemon beside
\* a live one, or by an empty store in place of a file that could not be read.
Running == {cur[p] : p \in Procs} \ {NoTask}

Board == INSTANCE TaskBoard WITH
    Verdicts <- Finished, taken <- accepted, active <- Running, started <- runs,
    told <- reported, spoilt <- ~Undisturbed

\* Every step of the queue is one the board allows: across kills, failed saves and
\* restarts one task runs at a time, and one that was reported is not run again.
ImplementsBoard == Board!BoardSpec
=============================================================================
