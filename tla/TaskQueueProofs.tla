--------------------------- MODULE TaskQueueProofs ---------------------------
(* Theorems about TaskQueue, for every set of tasks, every finite set of       *)
(* daemon processes and every bound on faults.                                 *)
EXTENDS TaskQueue, FiniteSetTheorems, TLAPS

\* The copies of a task that can still be run: a process that holds it unfinished
\* and is not running it, and the file when it is the only holder left.
Holds(p, t) == mem[p][t].status \in Unfinished
Idle(t) == {p \in Procs : Holds(p, t) /\ cur[p] # t}
OnlyOnDisk(t) ==
    IF disk # Corrupt /\ disk[t].status \in Unfinished /\ \A p \in Procs : ~Holds(p, t)
    THEN 1 ELSE 0

\* Each run, and each run still possible, is paid for.
CopiesCharged ==
    \A t \in Tasks :
        runs[t] + Cardinality(Idle(t)) + OnlyOnDisk(t) <= 1 + kills[t] + overlaps

\* A dead process holds nothing.
OffIsEmpty == \A p \in Procs : pc[p] = "off" => mem[p] = Empty

ChargeInv == TypeOK /\ OffIsEmpty /\ CopiesCharged

\* A store that agrees with every answer given so far.
Faithful(st) ==
    \A t \in Tasks :
        /\ t \in accepted => st[t].status # "absent"
        /\ reported[t] # "none" => st[t].status = reported[t]

DurableInv ==
    Undisturbed =>
        /\ \A p, q \in Procs : Up(p) /\ Up(q) => p = q
        /\ \A p \in Procs : Up(p) => Faithful(mem[p])
        /\ disk # Corrupt => Faithful(disk)
-----------------------------------------------------------------------------
\* The operators on stores keep them stores.
LEMMA StoreTypes ==
    ASSUME NEW st \in Stores, NEW t \in Tasks, NEW s \in Unfinished \cup Finished
    PROVE  /\ SetStatus(st, t, s) \in Stores
           /\ ResetRunning(st) \in Stores
           /\ Inserted(st, t) \in Stores
           /\ Empty \in Stores
           /\ \A d \in Stores \cup {Corrupt} : Load(d) \subseteq Stores
<1>1. SetStatus(st, t, s) \in Stores
    BY DEF SetStatus, Stores, TaskRow
<1>2. ResetRunning(st) \in Stores
    BY DEF ResetRunning, Stores, TaskRow, Unfinished
<1>3. Inserted(st, t) \in Stores
    <2>1. {u \in Tasks : st[u].status # "absent"} \in SUBSET Tasks
        OBVIOUS
    <2>2. Cardinality({u \in Tasks : st[u].status # "absent"}) \in Nat
        BY <2>1, FS_Subset, FS_CardinalityType, TaskQueueAssumption
    <2> QED BY <2>2 DEF Inserted, Stores, TaskRow, Unfinished
<1>4. Empty \in Stores
    BY DEF Empty, Stores, TaskRow
<1> QED BY <1>1, <1>2, <1>3, <1>4 DEF Load

\* The type invariant is inductive.
LEMMA TypeInit == Init => TypeOK
<1> SUFFICES ASSUME Init PROVE TypeOK OBVIOUS
<1>1. Empty \in Stores
    BY DEF Empty, Stores, TaskRow
<1>2. /\ disk \in Stores
      /\ mem \in [Procs -> Stores]
      /\ pc \in [Procs -> {"off", "loaded", "top", "busy", "asleep"}]
      /\ cur \in [Procs -> Tasks \cup {NoTask}]
      /\ wake \in [Procs -> BOOLEAN]
    BY <1>1 DEF Init
<1>3. /\ reported \in [Tasks -> Finished \cup {"none"}]
      /\ runs \in [Tasks -> Nat]
      /\ kills \in [Tasks -> Nat]
    BY DEF Init
<1>4. \A p \in Procs : pc[p] = "busy" <=> cur[p] # NoTask
    BY DEF Init
<1>5. faults \in 0..MaxFaults /\ overlaps \in Nat
    BY TaskQueueAssumption DEF Init
<1> QED BY <1>2, <1>3, <1>4, <1>5 DEF Init, TypeOK

\* What a death does to the state of the other variables' types.
LEMMA DieTypes ==
    ASSUME TypeOK, NEW p \in Procs, Die(p),
           disk' \in Stores \cup {Corrupt}, faults' \in 0..MaxFaults
    PROVE  TypeOK'
<1>1. Empty \in Stores
    BY DEF Empty, Stores, TaskRow
<1>2. mem' \in [Procs -> Stores] /\ pc' \in [Procs -> {"off", "loaded", "top", "busy", "asleep"}]
    BY <1>1 DEF Die, TypeOK
<1>3. cur' \in [Procs -> Tasks \cup {NoTask}] /\ wake' \in [Procs -> BOOLEAN]
    BY DEF Die, TypeOK
<1>4. kills' \in [Tasks -> Nat]
    BY DEF Die, TypeOK
<1>5. \A q \in Procs : pc'[q] = "busy" <=> cur'[q] # NoTask
    BY DEF Die, TypeOK
<1> QED BY <1>2, <1>3, <1>4, <1>5 DEF Die, TypeOK

LEMMA FaultTypes == ASSUME TypeOK, Fault PROVE faults' \in 0..MaxFaults
BY TaskQueueAssumption DEF TypeOK, Fault

LEMMA TypeStep == ASSUME TypeOK, [Next]_vars PROVE TypeOK'
<1> USE TaskQueueAssumption
<1>1. ASSUME NEW p \in Procs, Boot(p) PROVE TypeOK'
    <2>1. PICK st \in Load(disk) :
              /\ mem' = [mem EXCEPT ![p] = st]
              /\ lost' = (lost \/ st # disk)
              /\ IF NoneUp /\ disk \in {st, Corrupt} THEN UNCHANGED faults ELSE Fault
        BY <1>1 DEF Boot
    <2>2. Empty \in Stores
        BY DEF Empty, Stores, TaskRow
    <2>3. st \in Stores
        BY <2>2 DEF Load, TypeOK
    <2>4. faults' \in 0..MaxFaults
        BY <2>1, FaultTypes DEF TypeOK
    <2>5. overlaps' \in Nat
        BY <1>1 DEF Boot, TypeOK
    <2>6. lost' \in BOOLEAN /\ mem' \in [Procs -> Stores]
        BY <2>1, <2>3 DEF TypeOK
    <2>7. cur[p] = NoTask
        BY <1>1 DEF Boot, Up, TypeOK
    <2> QED BY <1>1, <2>4, <2>5, <2>6, <2>7 DEF Boot, TypeOK, Up
<1>2. ASSUME NEW p \in Procs, Start(p) PROVE TypeOK'
    <2>1. CASE SaveThrows /\ Die(p)
        BY <2>1, DieTypes, FaultTypes DEF SaveThrows, Interrupted, TypeOK
    <2>2. CASE ~(SaveThrows /\ Die(p))
        <3>1. ResetRunning(mem[p]) \in Stores
            BY DEF ResetRunning, TypeOK, Stores, TaskRow, Unfinished
        <3> QED BY <1>2, <2>2, <3>1 DEF Start, Save, TypeOK, history
    <2> QED BY <2>1, <2>2
<1>3. ASSUME NEW p \in Procs, PickTask(p) PROVE TypeOK'
    <2>1. CASE SaveThrows /\ Die(p)
        BY <2>1, DieTypes, FaultTypes DEF SaveThrows, Interrupted, TypeOK
    <2>2. CASE ~(SaveThrows /\ Die(p))
        <3>1. PICK t \in Oldest(mem[p]) :
                /\ mem' = [mem EXCEPT ![p] = SetStatus(@, t, "running")]
                /\ Save(SetStatus(mem[p], t, "running"))
                /\ pc' = [pc EXCEPT ![p] = "busy"]
                /\ cur' = [cur EXCEPT ![p] = t]
                /\ runs' = [runs EXCEPT ![t] = @ + 1]
                /\ UNCHANGED <<wake, listening, accepted, reported, kills, lost, overlaps>>
            BY <1>3, <2>2 DEF PickTask
        <3>2. t \in Tasks
            BY <3>1 DEF Oldest, Queued
        <3>3. SetStatus(mem[p], t, "running") \in Stores
            BY <3>2, StoreTypes DEF TypeOK, Unfinished
        <3>4. mem' \in [Procs -> Stores] /\ disk' \in Stores /\ faults' = faults
            BY <3>1, <3>3 DEF TypeOK, Save
        <3>5. cur' \in [Procs -> Tasks \cup {NoTask}] /\ runs' \in [Tasks -> Nat]
            BY <3>1, <3>2 DEF TypeOK
        <3>6. \A q \in Procs : pc'[q] = "busy" <=> cur'[q] # NoTask
            BY <3>1, <3>2 DEF TypeOK
        <3>7. pc' \in [Procs -> {"off", "loaded", "top", "busy", "asleep"}]
            BY <3>1 DEF TypeOK
        <3> QED BY <3>1, <3>4, <3>5, <3>6, <3>7 DEF TypeOK
    <2> QED BY <2>1, <2>2
<1>4. ASSUME NEW p \in Procs, Sleep(p) PROVE TypeOK'
    BY <1>4 DEF Sleep, TypeOK, history
<1>5. ASSUME NEW p \in Procs, WakeUp(p) PROVE TypeOK'
    BY <1>5 DEF WakeUp, TypeOK, history
<1>6. ASSUME NEW p \in Procs, Step(p) PROVE TypeOK'
    <2>1. disk' \in Stores \cup {Corrupt} /\ faults' \in 0..MaxFaults
        BY <1>6, FaultTypes DEF Step, Save, SaveThrows, Interrupted, TypeOK
    <2> QED BY <1>6, <2>1 DEF Step, TypeOK, history, procVars
<1>7. ASSUME NEW p \in Procs, RunnerSettles(p) PROVE TypeOK'
    <2>1. CASE SaveThrows /\ Die(p)
        BY <2>1, DieTypes, FaultTypes DEF SaveThrows, Interrupted, TypeOK
    <2>2. CASE ~(SaveThrows /\ Die(p))
        <3>1. PICK s \in Finished : Record(p, s) /\ faults' \in 0..MaxFaults
            BY <1>7, <2>2, FaultTypes DEF RunnerSettles, Finished, TypeOK
        <3>2. cur[p] \in Tasks
            BY <1>7 DEF RunnerSettles, TypeOK
        <3>3. SetStatus(mem[p], cur[p], s) \in Stores
            BY <3>2, StoreTypes DEF TypeOK
        <3>4. mem' \in [Procs -> Stores] /\ disk' \in Stores
            BY <3>1, <3>3 DEF Record, TypeOK
        <3>5. reported' \in [Tasks -> Finished \cup {"none"}]
            BY <3>1, <3>2 DEF Record, TypeOK
        <3>6. \A q \in Procs : pc'[q] = "busy" <=> cur'[q] # NoTask
            BY <3>1 DEF Record, TypeOK
        <3> QED BY <3>1, <3>4, <3>5, <3>6 DEF Record, TypeOK
    <2> QED BY <2>1, <2>2
<1>8. ASSUME NEW p \in Procs, NEW t \in Tasks, Submit(p, t) PROVE TypeOK'
    <2>1. Inserted(mem[p], t) \in Stores
        BY StoreTypes DEF TypeOK, Unfinished
    <2>2. disk' \in Stores \cup {Corrupt} /\ faults' \in 0..MaxFaults
        BY <1>8, <2>1, FaultTypes DEF Submit, Save, SaveThrows, Interrupted, TypeOK
    <2>3. mem' \in [Procs -> Stores] /\ wake' \in [Procs -> BOOLEAN] /\ accepted' \subseteq Tasks
        BY <1>8, <2>1 DEF Submit, TypeOK
    <2> QED BY <1>8, <2>2, <2>3 DEF Submit, TypeOK
<1>9. ASSUME NEW p \in Procs, Listen(p) PROVE TypeOK'
    <2>1. CASE Die(p) /\ UNCHANGED <<disk, faults>>
        BY <2>1, DieTypes DEF TypeOK
    <2>2. CASE ~(Die(p) /\ UNCHANGED <<disk, faults>>)
        BY <1>9, <2>2 DEF Listen, TypeOK, procVars, history
    <2> QED BY <2>1, <2>2
<1>10. ASSUME NEW p \in Procs, Crash(p) PROVE TypeOK'
    BY <1>10, DieTypes, FaultTypes DEF Crash, Interrupted, TypeOK
<1>11. CASE UNCHANGED vars
    BY <1>11 DEF vars, procVars, history, TypeOK
<1> QED BY <1>1, <1>2, <1>3, <1>4, <1>5, <1>6, <1>7, <1>8, <1>9, <1>10, <1>11 DEF Next, Work

\* The state of the queue stays well formed.
THEOREM QueueTypeCorrect == Spec => []TypeOK
<1>1. TypeOK /\ [Next]_vars => TypeOK'
    BY TypeStep
<1> QED BY <1>1, TypeInit, PTL DEF Spec
-----------------------------------------------------------------------------
\* Sets of processes are finite: what adding or removing one does to their size.
LEMMA ProcSets ==
    ASSUME NEW S \in SUBSET Procs, NEW p \in Procs
    PROVE  /\ Cardinality(S) \in Nat
           /\ Cardinality(S \cup {p}) \in Nat
           /\ Cardinality(S \cup {p}) <= Cardinality(S) + 1
           /\ Cardinality(S \ {p}) \in Nat
           /\ p \in S => Cardinality(S \ {p}) + 1 = Cardinality(S)
           /\ p \notin S => S \ {p} = S
<1>1. IsFiniteSet(S) /\ IsFiniteSet(S \cup {p}) /\ IsFiniteSet(S \ {p})
    BY FS_Subset, TaskQueueAssumption
<1>2. Cardinality(S) \in Nat /\ Cardinality(S \cup {p}) \in Nat /\ Cardinality(S \ {p}) \in Nat
    BY <1>1, FS_CardinalityType
<1> QED BY <1>1, <1>2, FS_AddElement, FS_RemoveElement

LEMMA IdleIsProcs == \A t : Idle(t) \in SUBSET Procs /\ OnlyOnDisk(t) \in {0, 1}
BY DEF Idle, OnlyOnDisk

\* After a save by a process that is still up, the file is not the only holder.
LEMMA SavedIsHeld ==
    ASSUME NEW p \in Procs, disk' = mem'[p], NEW t
    PROVE  OnlyOnDisk(t)' = 0
BY DEF OnlyOnDisk, Holds

\* An interrupted save adds no copy.
LEMMA InterruptedHolds ==
    ASSUME NEW t, disk' \in {disk, Corrupt},
           \A q \in Procs : Holds(q, t)' <=> Holds(q, t)
    PROVE  OnlyOnDisk(t)' <= OnlyOnDisk(t)
BY DEF OnlyOnDisk

\* A death in mid-run is charged; a death at another time moves a copy at most
\* from the process to the file.
LEMMA ChargedDie ==
    ASSUME ChargeInv, NEW p \in Procs, Die(p), disk' \in {disk, Corrupt}
    PROVE  CopiesCharged'
<1> SUFFICES ASSUME NEW t \in Tasks
             PROVE  (runs[t] + Cardinality(Idle(t)) + OnlyOnDisk(t) <= 1 + kills[t] + overlaps)'
    BY DEF CopiesCharged
<1>1. runs[t] + Cardinality(Idle(t)) + OnlyOnDisk(t) <= 1 + kills[t] + overlaps
    BY DEF ChargeInv, CopiesCharged
<1>2. /\ runs[t] \in Nat /\ kills[t] \in Nat /\ overlaps \in Nat
      /\ runs' = runs /\ overlaps' = overlaps
      /\ kills'[t] = IF t = cur[p] THEN kills[t] + 1 ELSE kills[t]
    BY DEF ChargeInv, TypeOK, Die
<1>3. mem'[p] = Empty /\ \A q \in Procs : q # p => mem'[q] = mem[q] /\ cur'[q] = cur[q]
    BY DEF Die, ChargeInv, TypeOK
<1>4. ~Holds(p, t)'
    BY <1>3 DEF Holds, Empty, Unfinished
<1>5. Idle(t)' = Idle(t) \ {p}
    BY <1>3, <1>4 DEF Idle, Holds
<1>6. /\ Cardinality(Idle(t)) \in Nat
      /\ Cardinality(Idle(t) \ {p}) \in Nat
      /\ p \in Idle(t) => Cardinality(Idle(t) \ {p}) + 1 = Cardinality(Idle(t))
      /\ p \notin Idle(t) => Idle(t) \ {p} = Idle(t)
    BY IdleIsProcs, ProcSets
<1>7. OnlyOnDisk(t) \in {0, 1} /\ OnlyOnDisk(t)' \in {0, 1}
    BY DEF OnlyOnDisk
<1>8. CASE p \in Idle(t)
    BY <1>1, <1>2, <1>5, <1>6, <1>7, <1>8
<1>9. CASE cur[p] = t
    <2>1. p \notin Idle(t)
        BY <1>9 DEF Idle
    <2> QED BY <1>1, <1>2, <1>5, <1>6, <1>7, <1>9, <2>1
<1>10. CASE p \notin Idle(t) /\ cur[p] # t
    <2>1. ~Holds(p, t)
        BY <1>10 DEF Idle
    <2>2. OnlyOnDisk(t)' <= OnlyOnDisk(t)
        BY <1>3, <1>4, <2>1, InterruptedHolds DEF Holds
    <2> QED BY <1>1, <1>2, <1>5, <1>6, <1>7, <1>10, <2>2
<1> QED BY <1>8, <1>9, <1>10

LEMMA ChargedInit == Init => ChargeInv
<1> SUFFICES ASSUME Init PROVE ChargeInv OBVIOUS
<1>1. TypeOK /\ OffIsEmpty
    BY TypeInit DEF Init, OffIsEmpty
<1>2. ASSUME NEW t \in Tasks
      PROVE  runs[t] + Cardinality(Idle(t)) + OnlyOnDisk(t) <= 1 + kills[t] + overlaps
    <2>1. \A p \in Procs : ~Holds(p, t)
        BY DEF Init, Holds, Empty, Unfinished
    <2>2. disk[t].status \notin Unfinished
        BY DEF Init, Empty, Unfinished
    <2>3. Idle(t) = {}
        BY <2>1 DEF Idle
    <2> QED BY <2>2, <2>3, FS_EmptySet DEF Init, OnlyOnDisk
<1> QED BY <1>1, <1>2 DEF ChargeInv, CopiesCharged

\* A step in which every copy keeps its holder: the counters do not move, the
\* idle holders are the same and the file is no new holder.
LEMMA ChargedSame ==
    ASSUME ChargeInv, UNCHANGED <<runs, kills, overlaps>>,
           \A t \in Tasks : Idle(t)' = Idle(t) /\ OnlyOnDisk(t)' <= OnlyOnDisk(t)
    PROVE  CopiesCharged'
<1> SUFFICES ASSUME NEW t \in Tasks
             PROVE  (runs[t] + Cardinality(Idle(t)) + OnlyOnDisk(t) <= 1 + kills[t] + overlaps)'
    BY DEF CopiesCharged
<1>1. runs[t] + Cardinality(Idle(t)) + OnlyOnDisk(t) <= 1 + kills[t] + overlaps
    BY DEF ChargeInv, CopiesCharged
<1>2. runs[t] \in Nat /\ kills[t] \in Nat /\ overlaps \in Nat
    BY DEF ChargeInv, TypeOK
<1>3. \A S \in SUBSET Procs : Cardinality(S) \in Nat
    BY FS_Subset, FS_CardinalityType, TaskQueueAssumption
<1>4. Cardinality(Idle(t)) \in Nat
    BY <1>3, IdleIsProcs
<1>5. OnlyOnDisk(t) \in {0, 1} /\ OnlyOnDisk(t)' \in {0, 1}
    BY DEF OnlyOnDisk
<1> QED BY <1>1, <1>2, <1>4, <1>5

\* A boot beside a live process makes one more copy of what the file holds; a
\* boot with no process up moves the copy of the file to the process.
LEMMA ChargedBoot == ASSUME ChargeInv, NEW p \in Procs, Boot(p) PROVE CopiesCharged'
<1> SUFFICES ASSUME NEW t \in Tasks
             PROVE  (runs[t] + Cardinality(Idle(t)) + OnlyOnDisk(t) <= 1 + kills[t] + overlaps)'
    BY DEF CopiesCharged
<1>1. runs[t] + Cardinality(Idle(t)) + OnlyOnDisk(t) <= 1 + kills[t] + overlaps
    BY DEF ChargeInv, CopiesCharged
<1>2. /\ runs[t] \in Nat /\ kills[t] \in Nat /\ overlaps \in Nat
      /\ runs' = runs /\ kills' = kills /\ cur' = cur /\ disk' = disk
    BY DEF ChargeInv, TypeOK, Boot
<1>3. /\ mem'[p] = Empty \/ (disk # Corrupt /\ mem'[p] = disk)
      /\ \A q \in Procs : q # p => mem'[q] = mem[q]
    <2>1. PICK st \in Load(disk) : mem' = [mem EXCEPT ![p] = st]
        BY DEF Boot
    <2>2. mem'[p] = st /\ \A q \in Procs : q # p => mem'[q] = mem[q]
        BY <2>1 DEF ChargeInv, TypeOK
    <2>3. st = Empty \/ (disk # Corrupt /\ st = disk)
        BY DEF Load
    <2> QED BY <2>2, <2>3
<1>4. mem[p] = Empty /\ cur[p] = NoTask
    BY DEF Boot, Up, ChargeInv, OffIsEmpty, TypeOK
<1>5. ~Holds(p, t)
    BY <1>4 DEF Holds, Empty, Unfinished
<1>6. Idle(t)' \in {Idle(t), Idle(t) \cup {p}}
    <2>1. \A q \in Procs : q # p => (q \in Idle(t)' <=> q \in Idle(t))
        BY <1>2, <1>3 DEF Idle, Holds
    <2>2. p \notin Idle(t)
        BY <1>5 DEF Idle
    <2>3. Idle(t) \in SUBSET Procs /\ Idle(t)' \in SUBSET Procs
        BY DEF Idle
    <2> QED BY <2>1, <2>2, <2>3
<1>7. /\ Cardinality(Idle(t)) \in Nat
      /\ Cardinality(Idle(t) \cup {p}) \in Nat
      /\ Cardinality(Idle(t) \cup {p}) <= Cardinality(Idle(t)) + 1
    BY IdleIsProcs, ProcSets
<1>8. OnlyOnDisk(t) \in {0, 1} /\ OnlyOnDisk(t)' \in {0, 1}
    BY DEF OnlyOnDisk
<1>8a. Cardinality(Idle(t)') \in Nat /\ Cardinality(Idle(t)') <= Cardinality(Idle(t)) + 1
    <2>1. CASE Idle(t)' = Idle(t)
        BY <1>7, <2>1
    <2>2. CASE Idle(t)' = Idle(t) \cup {p}
        BY <1>7, <2>2
    <2> QED BY <1>6, <2>1, <2>2
<1>9. OnlyOnDisk(t)' <= OnlyOnDisk(t)
    BY <1>2, <1>3, <1>5 DEF OnlyOnDisk, Holds
<1>10. CASE \E q \in Procs : Up(q)
    <2>1. overlaps' = overlaps + 1
        BY <1>10 DEF Boot, NoneUp
    <2> QED BY <1>1, <1>2, <1>7, <1>8, <1>9, <1>8a, <2>1
<1>11. CASE \A q \in Procs : ~Up(q)
    <2>1. \A q \in Procs : ~Holds(q, t)
        BY <1>11 DEF Up, ChargeInv, OffIsEmpty, Holds, Empty, Unfinished
    <2>2. overlaps' = overlaps
        BY <1>11 DEF Boot, NoneUp
    <2>3. CASE Holds(p, t)'
        <3>1. disk # Corrupt /\ disk[t].status \in Unfinished
            BY <2>3, <1>3 DEF Holds, Empty, Unfinished
        <3>2. OnlyOnDisk(t) = 1 /\ OnlyOnDisk(t)' = 0
            BY <2>1, <2>3, <3>1 DEF OnlyOnDisk
        <3> QED BY <1>1, <1>2, <1>7, <1>8a, <2>2, <3>2
    <2>4. CASE ~Holds(p, t)'
        <3>1. Idle(t)' = Idle(t)
            BY <1>5, <1>6, <2>4 DEF Idle
        <3> QED BY <1>1, <1>2, <1>7, <1>8, <1>9, <2>2, <3>1
    <2> QED BY <2>3, <2>4
<1> QED BY <1>10, <1>11

\* The picked task turns from a copy into a run.
LEMMA ChargedPick == ASSUME ChargeInv, NEW p \in Procs, PickTask(p) PROVE CopiesCharged'
<1>1. CASE SaveThrows /\ Die(p)
    BY <1>1, ChargedDie DEF SaveThrows, Interrupted
<1>2. CASE ~(SaveThrows /\ Die(p))
    <2>1. PICK t \in Oldest(mem[p]) :
            /\ mem' = [mem EXCEPT ![p] = SetStatus(@, t, "running")]
            /\ Save(SetStatus(mem[p], t, "running"))
            /\ cur' = [cur EXCEPT ![p] = t]
            /\ runs' = [runs EXCEPT ![t] = @ + 1]
            /\ UNCHANGED <<kills, overlaps>>
        BY <1>2 DEF PickTask
    <2>2. t \in Tasks /\ mem[p][t].status = "queued" /\ cur[p] = NoTask /\ NoTask \notin Tasks
        BY <2>1, TaskQueueAssumption DEF Oldest, Queued, PickTask, ChargeInv, TypeOK
    <2>3. /\ mem'[p] = SetStatus(mem[p], t, "running")
          /\ disk' = mem'[p]
          /\ cur'[p] = t
          /\ \A q \in Procs : q # p => mem'[q] = mem[q] /\ cur'[q] = cur[q]
        BY <2>1 DEF Save, ChargeInv, TypeOK
    <2>4. \A u : OnlyOnDisk(u)' = 0
        BY <2>3, SavedIsHeld
    <2> SUFFICES ASSUME NEW u \in Tasks
                 PROVE  (runs[u] + Cardinality(Idle(u)) + OnlyOnDisk(u) <= 1 + kills[u] + overlaps)'
        BY DEF CopiesCharged
    <2>5. runs[u] + Cardinality(Idle(u)) + OnlyOnDisk(u) <= 1 + kills[u] + overlaps
        BY DEF ChargeInv, CopiesCharged
    <2>6. /\ runs[u] \in Nat /\ kills[u] \in Nat /\ overlaps \in Nat
          /\ kills' = kills /\ overlaps' = overlaps
          /\ runs'[u] = IF u = t THEN runs[u] + 1 ELSE runs[u]
        BY <2>1 DEF ChargeInv, TypeOK
    <2>7. /\ Cardinality(Idle(u)) \in Nat
          /\ Cardinality(Idle(u) \ {p}) \in Nat
          /\ p \in Idle(u) => Cardinality(Idle(u) \ {p}) + 1 = Cardinality(Idle(u))
        BY IdleIsProcs, ProcSets
    <2>8. OnlyOnDisk(u) \in {0, 1}
        BY DEF OnlyOnDisk
    <2>9. CASE u = t
        <3>1. p \in Idle(t)
            BY <2>2 DEF Idle, Holds, Unfinished
        <3>2. Idle(t)' = Idle(t) \ {p}
            BY <2>3 DEF Idle, Holds
        <3> QED BY <2>4, <2>5, <2>6, <2>7, <2>8, <2>9, <3>1, <3>2
    <2>10. CASE u # t
        <3>1. mem'[p][u] = mem[p][u]
            BY <2>3, <2>10 DEF SetStatus, ChargeInv, TypeOK, Stores
        <3>2. cur[p] # u /\ cur'[p] # u
            BY <2>2, <2>3, <2>10
        <3>3. Idle(u)' = Idle(u)
            BY <2>3, <3>1, <3>2 DEF Idle, Holds
        <3> QED BY <2>4, <2>5, <2>6, <2>7, <2>8, <2>10, <3>3
    <2> QED BY <2>9, <2>10
<1> QED BY <1>1, <1>2

\* A settled run is no longer a copy.
LEMMA ChargedSettle == ASSUME ChargeInv, NEW p \in Procs, RunnerSettles(p) PROVE CopiesCharged'
<1>1. CASE SaveThrows /\ Die(p)
    BY <1>1, ChargedDie DEF SaveThrows, Interrupted
<1>2. CASE ~(SaveThrows /\ Die(p))
    <2>1. PICK s \in Finished : Record(p, s)
        BY <1>2 DEF RunnerSettles, Finished
    <2>2. /\ mem'[p] = SetStatus(mem[p], cur[p], s) /\ disk' = mem'[p]
          /\ cur'[p] = NoTask /\ cur[p] \in Tasks /\ NoTask \notin Tasks
          /\ \A q \in Procs : q # p => mem'[q] = mem[q] /\ cur'[q] = cur[q]
        BY <2>1, TaskQueueAssumption DEF Record, RunnerSettles, ChargeInv, TypeOK
    <2>3. \A u : OnlyOnDisk(u)' = 0
        BY <2>2, SavedIsHeld
    <2>4. ASSUME NEW u \in Tasks PROVE Idle(u)' = Idle(u)
        <3>1. CASE u = cur[p]
            <4>1. mem'[p][u].status = s
                BY <2>2, <3>1 DEF SetStatus, ChargeInv, TypeOK, Stores, TaskRow
            <4>2. p \notin Idle(u) /\ p \notin Idle(u)'
                BY <3>1, <4>1 DEF Idle, Holds, Finished, Unfinished
            <4> QED BY <2>2, <4>2 DEF Idle, Holds
        <3>2. CASE u # cur[p]
            <4>1. mem'[p][u] = mem[p][u]
                BY <2>2, <3>2 DEF SetStatus, ChargeInv, TypeOK, Stores
            <4> QED BY <2>2, <3>2, <4>1 DEF Idle, Holds
        <3> QED BY <3>1, <3>2
    <2>5. \A u \in Tasks : Idle(u)' = Idle(u) /\ OnlyOnDisk(u)' <= OnlyOnDisk(u)
        BY <2>3, <2>4 DEF OnlyOnDisk
    <2> QED BY <2>1, <2>5, ChargedSame DEF Record
<1> QED BY <1>1, <1>2

\* A submitted task is the first copy of an id that never ran.
LEMMA ChargedSubmit ==
    ASSUME ChargeInv, NEW p \in Procs, NEW t \in Tasks, Submit(p, t) PROVE CopiesCharged'
<1>1. /\ mem'[p] = Inserted(mem[p], t) /\ cur' = cur
      /\ \A q \in Procs : q # p => mem'[q] = mem[q]
    BY DEF Submit, ChargeInv, TypeOK
<1>2. disk' \in {mem'[p], disk, Corrupt}
    BY <1>1 DEF Submit, Save, SaveThrows, Interrupted
<1>3. \A u \in Tasks : u # t => mem'[p][u] = mem[p][u]
    BY <1>1 DEF Inserted, ChargeInv, TypeOK, Stores
<1> SUFFICES ASSUME NEW u \in Tasks
             PROVE  (runs[u] + Cardinality(Idle(u)) + OnlyOnDisk(u) <= 1 + kills[u] + overlaps)'
    BY DEF CopiesCharged
<1>4. runs[u] + Cardinality(Idle(u)) + OnlyOnDisk(u) <= 1 + kills[u] + overlaps
    BY DEF ChargeInv, CopiesCharged
<1>5. /\ runs[u] \in Nat /\ kills[u] \in Nat /\ overlaps \in Nat
      /\ runs' = runs /\ kills' = kills /\ overlaps' = overlaps
    BY DEF ChargeInv, TypeOK, Submit
<1>6. /\ Cardinality(Idle(u)) \in Nat
      /\ Cardinality(Idle(u) \cup {p}) \in Nat
      /\ Cardinality(Idle(u) \cup {p}) <= Cardinality(Idle(u)) + 1
    BY IdleIsProcs, ProcSets
<1>7. OnlyOnDisk(u) \in {0, 1} /\ OnlyOnDisk(u)' \in {0, 1}
    BY DEF OnlyOnDisk
<1>8. CASE u = t
    <2>1. \A q \in Procs : ~Holds(q, t)
        BY DEF Submit, Fresh, Holds, Unfinished
    <2>2. Idle(t) = {}
        BY <2>1 DEF Idle
    <2>3. Idle(t)' \in {Idle(t), Idle(t) \cup {p}}
        <3>1. \A q \in Procs : q # p => (q \in Idle(t)' <=> q \in Idle(t))
            BY <1>1 DEF Idle, Holds
        <3> QED BY <2>2, <3>1 DEF Idle
    <2>4. mem'[p][t].status = "queued"
        BY <1>1 DEF Inserted, ChargeInv, TypeOK, Stores, TaskRow
    <2>5. OnlyOnDisk(t)' = 0
        BY <2>4 DEF OnlyOnDisk, Holds, Unfinished
    <2>6. runs[t] = 0 /\ Cardinality(Idle(t)) = 0
        BY <2>2, FS_EmptySet DEF Submit, Fresh
    <2>7. Cardinality(Idle(t)') \in Nat /\ Cardinality(Idle(t)') <= 1
        BY <1>6, <1>8, <2>3, <2>6
    <2> QED BY <1>5, <1>8, <2>5, <2>6, <2>7
<1>9. CASE u # t
    <2>1. \A q \in Procs : Holds(q, u)' <=> Holds(q, u)
        BY <1>1, <1>3, <1>9 DEF Holds
    <2>2. Idle(u)' = Idle(u)
        BY <1>1, <2>1 DEF Idle
    <2>3. OnlyOnDisk(u)' <= OnlyOnDisk(u)
        <3>1. CASE disk' = mem'[p]
            BY <1>7, <3>1, SavedIsHeld
        <3>2. CASE disk' \in {disk, Corrupt}
            BY <2>1, <3>2, InterruptedHolds
        <3> QED BY <1>2, <3>1, <3>2
    <2> QED BY <1>4, <1>5, <1>6, <1>7, <2>2, <2>3
<1> QED BY <1>8, <1>9

\* One step per action.
LEMMA ChargedStep == ASSUME ChargeInv, [Next]_vars PROVE ChargeInv'
<1>1. TypeOK'
    BY TypeStep DEF ChargeInv
<1>2. OffIsEmpty'
    <2>1. ASSUME NEW p \in Procs, Boot(p) PROVE OffIsEmpty'
        BY <2>1 DEF Boot, ChargeInv, OffIsEmpty, TypeOK
    <2>2. ASSUME NEW p \in Procs, Die(p) PROVE OffIsEmpty'
        BY <2>2 DEF Die, ChargeInv, OffIsEmpty, TypeOK
    <2>3. ASSUME NEW p \in Procs, Start(p) \/ PickTask(p) \/ RunnerSettles(p), ~Die(p)
          PROVE  OffIsEmpty'
        BY <2>3 DEF Start, PickTask, RunnerSettles, Record, ChargeInv, OffIsEmpty, TypeOK
    <2>4. ASSUME NEW p \in Procs, Sleep(p) \/ WakeUp(p) \/ Step(p) PROVE OffIsEmpty'
        BY <2>4 DEF Sleep, WakeUp, Step, procVars, ChargeInv, OffIsEmpty, TypeOK
    <2>5. ASSUME NEW p \in Procs, NEW t \in Tasks, Submit(p, t) PROVE OffIsEmpty'
        BY <2>5 DEF Submit, ChargeInv, OffIsEmpty, TypeOK
    <2>6. ASSUME NEW p \in Procs, Listen(p), ~Die(p) PROVE OffIsEmpty'
        BY <2>6 DEF Listen, procVars, ChargeInv, OffIsEmpty
    <2>7. CASE UNCHANGED vars
        BY <2>7 DEF vars, procVars, ChargeInv, OffIsEmpty
    <2> QED BY <2>1, <2>2, <2>3, <2>4, <2>5, <2>6, <2>7 DEF Next, Work, Crash
<1>3. CopiesCharged'
    <2>1. ASSUME NEW p \in Procs, Start(p) PROVE CopiesCharged'
        <3>1. CASE SaveThrows /\ Die(p)
            BY <3>1, ChargedDie DEF SaveThrows, Interrupted
        <3>2. CASE ~(SaveThrows /\ Die(p))
            <4>1. /\ mem'[p] = ResetRunning(mem[p]) /\ disk' = mem'[p] /\ cur' = cur
                  /\ \A q \in Procs : q # p => mem'[q] = mem[q]
                BY <2>1, <3>2 DEF Start, Save, ChargeInv, TypeOK
            <4>2. \A u \in Tasks, q \in Procs : Holds(q, u)' <=> Holds(q, u)
                <5>1. ASSUME NEW u \in Tasks PROVE Holds(p, u)' <=> Holds(p, u)
                    <6>1. mem[p][u] \in TaskRow
                        BY DEF ChargeInv, TypeOK, Stores
                    <6>2. mem'[p][u] = IF mem[p][u].status = "running"
                                       THEN [mem[p][u] EXCEPT !.status = "queued"]
                                       ELSE mem[p][u]
                        BY <4>1 DEF ResetRunning
                    <6> QED BY <6>1, <6>2 DEF Holds, Unfinished, TaskRow
                <5> QED BY <4>1, <5>1 DEF Holds
            <4>3. \A u \in Tasks : Idle(u)' = Idle(u)
                BY <4>1, <4>2 DEF Idle
            <4>4. \A u : OnlyOnDisk(u)' <= OnlyOnDisk(u)
                BY <4>1, SavedIsHeld DEF OnlyOnDisk
            <4> QED BY <2>1, <3>2, <4>3, <4>4, ChargedSame DEF Start, history
        <3> QED BY <3>1, <3>2
    <2>2. ASSUME UNCHANGED <<mem, cur, runs, kills, overlaps>>, disk' \in {disk, Corrupt}
          PROVE  CopiesCharged'
        <3>1. \A u : Idle(u)' = Idle(u) /\ OnlyOnDisk(u)' <= OnlyOnDisk(u)
            BY <2>2 DEF Idle, Holds, OnlyOnDisk
        <3> QED BY <2>2, <3>1, ChargedSame
    <2>3. ASSUME NEW p \in Procs, Sleep(p) \/ WakeUp(p) PROVE CopiesCharged'
        BY <2>2, <2>3 DEF Sleep, WakeUp, history
    <2>4. ASSUME NEW p \in Procs, Step(p) PROVE CopiesCharged'
        <3>1. CASE disk' = mem[p]
            <4>1. mem' = mem /\ cur' = cur
                BY <2>4 DEF Step, procVars
            <4>2. \A u : Idle(u)' = Idle(u)
                BY <4>1 DEF Idle, Holds
            <4>3. \A u : OnlyOnDisk(u)' <= OnlyOnDisk(u)
                BY <3>1, <4>1, SavedIsHeld DEF OnlyOnDisk
            <4> QED BY <2>4, <4>2, <4>3, ChargedSame DEF Step, history
        <3>2. CASE disk' \in {disk, Corrupt}
            BY <2>2, <2>4, <3>2 DEF Step, procVars, history
        <3> QED BY <2>4, <3>1, <3>2 DEF Step, Save, SaveThrows, Interrupted
    <2>5. ASSUME NEW p \in Procs, Listen(p) PROVE CopiesCharged'
        BY <2>2, <2>5, ChargedDie DEF Listen, procVars, history
    <2>6. ASSUME NEW p \in Procs, Crash(p) PROVE CopiesCharged'
        BY <2>6, ChargedDie DEF Crash, Interrupted
    <2>7. CASE UNCHANGED vars
        BY <2>2, <2>7 DEF vars, procVars, history
    <2> QED BY <2>1, <2>3, <2>4, <2>5, <2>6, <2>7, ChargedBoot, ChargedPick,
               ChargedSettle, ChargedSubmit DEF Next, Work
<1> QED BY <1>1, <1>2, <1>3 DEF ChargeInv

\* The runs of a task are paid for: one, one more for each death of a daemon in
\* the middle of its run, one more for each daemon started beside a live one.
THEOREM RunsAreCharged == Spec => []RunsCharged
<1>1. ChargeInv /\ [Next]_vars => ChargeInv'
    BY ChargedStep
<1>2. ChargeInv => RunsCharged
    <2> SUFFICES ASSUME ChargeInv, NEW t \in Tasks PROVE runs[t] <= 1 + kills[t] + overlaps
        BY DEF RunsCharged
    <2>1. runs[t] + Cardinality(Idle(t)) + OnlyOnDisk(t) <= 1 + kills[t] + overlaps
        BY DEF ChargeInv, CopiesCharged
    <2>2. runs[t] \in Nat /\ kills[t] \in Nat /\ overlaps \in Nat
        BY DEF ChargeInv, TypeOK
    <2>3. Cardinality(Idle(t)) \in Nat /\ OnlyOnDisk(t) \in {0, 1}
        BY IdleIsProcs, FS_Subset, FS_CardinalityType, TaskQueueAssumption
    <2> QED BY <2>1, <2>2, <2>3
<1> QED BY <1>1, <1>2, ChargedInit, PTL DEF Spec
-----------------------------------------------------------------------------
\* The only daemon's memory and the file agree with every answer. Nothing but the
\* file crosses a restart, so the invariant speaks of the file as well.
LEMMA DurableDie ==
    ASSUME TypeOK, DurableInv, NEW p \in Procs, Die(p), disk' \in {disk, Corrupt}
    PROVE  DurableInv'
<1>1. UNCHANGED <<accepted, reported, lost, overlaps>>
    BY DEF Die
<1>2. \A q \in Procs : Up(q)' => q # p /\ Up(q) /\ mem'[q] = mem[q]
    BY DEF Die, Up, TypeOK
<1> QED BY <1>1, <1>2 DEF DurableInv, Undisturbed, Faithful

LEMMA DurableStep == ASSUME TypeOK, DurableInv, [Next]_vars PROVE DurableInv'
<1>1. ASSUME NEW p \in Procs, Boot(p) PROVE DurableInv'
    <2> SUFFICES ASSUME Undisturbed'
                 PROVE  /\ \A q, r \in Procs : Up(q)' /\ Up(r)' => q = r
                        /\ \A q \in Procs : Up(q)' => Faithful(mem[q])'
                        /\ disk' # Corrupt => Faithful(disk)'
        BY DEF DurableInv
    <2>1. disk # Corrupt /\ ~lost /\ mem'[p] = disk
        <3>1. PICK st \in Load(disk) :
                  mem' = [mem EXCEPT ![p] = st] /\ lost' = (lost \/ st # disk)
            BY <1>1 DEF Boot
        <3>2. ~lost /\ st = disk
            BY <3>1 DEF Undisturbed
        <3>3. Empty # Corrupt
            BY CorruptAssumption DEF Empty, Stores, TaskRow
        <3>4. disk # Corrupt
            BY <3>2, <3>3 DEF Load
        <3> QED BY <3>1, <3>2, <3>4 DEF TypeOK
    <2>2. overlaps' = 0 /\ overlaps \in Nat
        BY DEF Undisturbed, TypeOK
    <2>3. overlaps = 0 /\ \A q \in Procs : ~Up(q)
        BY <1>1, <2>2 DEF Boot, NoneUp
    <2>4. \A q \in Procs : Up(q)' => q = p
        BY <1>1, <2>3 DEF Boot, Up, TypeOK
    <2>5. mem'[p] = disk /\ disk' = disk /\ UNCHANGED <<accepted, reported>>
        BY <1>1, <2>1 DEF Boot
    <2>6. Faithful(disk)
        BY <2>1, <2>3 DEF DurableInv, Undisturbed
    <2> QED BY <2>4, <2>5, <2>6 DEF Faithful
\* A step of p that leaves a store faithful in its memory, and in the file the
\* same store, the old one or none.
<1>2. ASSUME NEW p \in Procs, Up(p), UNCHANGED <<lost, overlaps>>,
             \A q \in Procs : (Up(q)' => Up(q)) /\ (q # p => mem'[q] = mem[q]),
             Undisturbed => Faithful(mem[p])',
             \/ disk' = mem'[p]
             \/ disk' \in {disk, Corrupt} /\ UNCHANGED <<accepted, reported>>
      PROVE  DurableInv'
    <2> SUFFICES ASSUME Undisturbed
                 PROVE  /\ \A q, r \in Procs : Up(q)' /\ Up(r)' => q = r
                        /\ \A q \in Procs : Up(q)' => Faithful(mem[q])'
                        /\ disk' # Corrupt => Faithful(disk)'
        BY <1>2 DEF DurableInv, Undisturbed
    <2>1. \A q, r \in Procs : Up(q)' /\ Up(r)' => q = r
        BY <1>2 DEF DurableInv
    <2>2. \A q \in Procs : Up(q)' => q = p
        BY <1>2 DEF DurableInv
    <2>3. disk' # Corrupt => Faithful(disk)'
        <3>1. CASE disk' = mem'[p]
            BY <1>2, <3>1 DEF Faithful
        <3>2. CASE disk' \in {disk, Corrupt} /\ UNCHANGED <<accepted, reported>>
            BY <3>2 DEF DurableInv, Faithful
        <3> QED BY <1>2, <3>1, <3>2
    <2> QED BY <1>2, <2>1, <2>2, <2>3
<1>3. ASSUME NEW p \in Procs, Start(p) PROVE DurableInv'
    <2>1. CASE SaveThrows /\ Die(p)
        BY <2>1, DurableDie DEF SaveThrows, Interrupted
    <2>2. CASE ~(SaveThrows /\ Die(p))
        <3>1. /\ mem'[p] = ResetRunning(mem[p]) /\ disk' = mem'[p] /\ Up(p)
              /\ UNCHANGED <<lost, overlaps, accepted, reported>>
              /\ \A q \in Procs : (Up(q)' => Up(q)) /\ (q # p => mem'[q] = mem[q])
            BY <1>3, <2>2 DEF Start, Save, TypeOK, Up, history
        <3>2. ASSUME Undisturbed PROVE Faithful(mem[p])'
            <4>1. Faithful(mem[p])
                BY <3>1, <3>2 DEF DurableInv
            <4>2. ASSUME NEW t \in Tasks
                  PROVE  /\ t \in accepted' => mem'[p][t].status # "absent"
                         /\ reported'[t] # "none" => mem'[p][t].status = reported'[t]
                <5>1. mem[p][t] \in TaskRow /\ reported[t] \in Finished \cup {"none"}
                    BY DEF TypeOK, Stores
                <5>2. mem'[p][t] = IF mem[p][t].status = "running"
                                   THEN [mem[p][t] EXCEPT !.status = "queued"] ELSE mem[p][t]
                    BY <3>1 DEF ResetRunning
                <5> QED BY <3>1, <4>1, <5>1, <5>2 DEF Faithful, TaskRow, Finished
            <4> QED BY <4>2 DEF Faithful
        <3> QED BY <1>2, <3>1, <3>2
    <2> QED BY <2>1, <2>2
<1>4. ASSUME NEW p \in Procs, PickTask(p) PROVE DurableInv'
    <2>1. CASE SaveThrows /\ Die(p)
        BY <2>1, DurableDie DEF SaveThrows, Interrupted
    <2>2. CASE ~(SaveThrows /\ Die(p))
        <3>1. PICK t \in Oldest(mem[p]) :
                /\ mem' = [mem EXCEPT ![p] = SetStatus(@, t, "running")]
                /\ Save(SetStatus(mem[p], t, "running"))
                /\ pc' = [pc EXCEPT ![p] = "busy"]
                /\ UNCHANGED <<lost, overlaps, accepted, reported>>
            BY <1>4, <2>2 DEF PickTask
        <3>2. t \in Tasks /\ mem[p][t].status = "queued" /\ Up(p)
            BY <1>4, <3>1 DEF Oldest, Queued, PickTask, Up
        <3>3. /\ mem'[p] = SetStatus(mem[p], t, "running") /\ disk' = mem'[p]
              /\ \A q \in Procs : (Up(q)' => Up(q)) /\ (q # p => mem'[q] = mem[q])
            BY <3>1, <3>2 DEF Save, TypeOK, Up
        <3>4. ASSUME Undisturbed PROVE Faithful(mem[p])'
            <4>1. Faithful(mem[p])
                BY <3>2, <3>4 DEF DurableInv
            <4>2. reported[t] = "none"
                BY <3>2, <4>1 DEF Faithful, TypeOK, Finished
            <4>3. /\ \A u \in Tasks : u # t => mem'[p][u] = mem[p][u]
                  /\ mem'[p][t].status = "running"
                BY <3>2, <3>3 DEF SetStatus, TypeOK, Stores, TaskRow
            <4> QED BY <3>1, <4>1, <4>2, <4>3 DEF Faithful
        <3> QED BY <1>2, <3>1, <3>2, <3>3, <3>4
    <2> QED BY <2>1, <2>2
<1>5. ASSUME NEW p \in Procs, RunnerSettles(p) PROVE DurableInv'
    <2>1. CASE SaveThrows /\ Die(p)
        BY <2>1, DurableDie DEF SaveThrows, Interrupted
    <2>2. CASE ~(SaveThrows /\ Die(p))
        <3>1. PICK s \in Finished : Record(p, s)
            BY <1>5, <2>2 DEF RunnerSettles, Finished
        <3>2. /\ mem'[p] = SetStatus(mem[p], cur[p], s) /\ disk' = mem'[p]
              /\ cur[p] \in Tasks /\ Up(p)
              /\ UNCHANGED <<lost, overlaps, accepted>>
              /\ \A q \in Procs : (Up(q)' => Up(q)) /\ (q # p => mem'[q] = mem[q])
            BY <1>5, <3>1 DEF Record, RunnerSettles, TypeOK, Up
        <3>3. ASSUME Undisturbed PROVE Faithful(mem[p])'
            <4>1. Faithful(mem[p])
                BY <3>2, <3>3 DEF DurableInv
            <4>2. /\ \A u \in Tasks : u # cur[p] =>
                        mem'[p][u] = mem[p][u] /\ reported'[u] = reported[u]
                  /\ mem'[p][cur[p]].status = s /\ reported'[cur[p]] = s
                BY <3>1, <3>2 DEF Record, SetStatus, TypeOK, Stores, TaskRow
            <4> QED BY <3>2, <4>1, <4>2 DEF Faithful, Finished
        <3> QED BY <1>2, <3>2, <3>3
    <2> QED BY <2>1, <2>2
<1>6. ASSUME NEW p \in Procs, NEW t \in Tasks, Submit(p, t) PROVE DurableInv'
    <2>1. /\ mem'[p] = Inserted(mem[p], t) /\ Up(p)
          /\ UNCHANGED <<lost, overlaps, reported>>
          /\ accepted' \subseteq accepted \cup {t}
          /\ \A q \in Procs : (Up(q)' => Up(q)) /\ (q # p => mem'[q] = mem[q])
        BY <1>6 DEF Submit, TypeOK, Up
    <2>2. \/ disk' = mem'[p]
          \/ disk' \in {disk, Corrupt} /\ UNCHANGED <<accepted, reported>>
        BY <1>6, <2>1 DEF Submit, Save, SaveThrows, Interrupted
    <2>3. ASSUME Undisturbed PROVE Faithful(mem[p])'
        <3>1. Faithful(mem[p])
            BY <2>1, <2>3 DEF DurableInv
        <3>2. reported[t] = "none"
            BY <1>6, <3>1 DEF Submit, Fresh, Faithful, TypeOK, Finished
        <3>3. /\ \A u \in Tasks : u # t => mem'[p][u] = mem[p][u]
              /\ mem'[p][t].status = "queued"
            BY <2>1 DEF Inserted, TypeOK, Stores, TaskRow
        <3> QED BY <2>1, <3>1, <3>2, <3>3 DEF Faithful
    <2> QED BY <1>2, <2>1, <2>2, <2>3
<1>7. ASSUME NEW p \in Procs, Step(p) PROVE DurableInv'
    <2>1. /\ Up(p) /\ UNCHANGED <<mem, pc, lost, overlaps, accepted, reported>>
          /\ disk' \in {mem'[p], disk, Corrupt}
        BY <1>7 DEF Step, procVars, history, Up, Save, SaveThrows, Interrupted
    <2>2. Undisturbed => Faithful(mem[p])'
        BY <2>1 DEF DurableInv, Faithful
    <2> QED BY <1>2, <2>1, <2>2 DEF Up
<1>8. ASSUME NEW p \in Procs, Crash(p) PROVE DurableInv'
    BY <1>8, DurableDie DEF Crash, Interrupted
<1>9. ASSUME UNCHANGED <<disk, mem, lost, overlaps, accepted, reported>>,
             \A q \in Procs : Up(q)' <=> Up(q)
      PROVE  DurableInv'
    BY <1>9 DEF DurableInv, Undisturbed, Faithful
<1>10. ASSUME NEW p \in Procs, Listen(p) PROVE DurableInv'
    <2>1. CASE Die(p) /\ UNCHANGED <<disk, faults>>
        BY <2>1, DurableDie
    <2>2. CASE ~(Die(p) /\ UNCHANGED <<disk, faults>>)
        BY <1>9, <1>10, <2>2 DEF Listen, procVars, history, Up
    <2> QED BY <2>1, <2>2
<1>11. ASSUME NEW p \in Procs, Sleep(p) \/ WakeUp(p) PROVE DurableInv'
    BY <1>9, <1>11 DEF Sleep, WakeUp, history, Up, TypeOK
<1>12. CASE UNCHANGED vars
    BY <1>9, <1>12 DEF vars, procVars, history, Up
<1> QED BY <1>1, <1>3, <1>4, <1>5, <1>6, <1>7, <1>8, <1>10, <1>11, <1>12 DEF Next, Work

\* What a client was told of a task survives every restart of the only daemon.
THEOREM AnswersSurvive == Spec => []AnswersAreDurable
<1>1. TypeOK /\ DurableInv /\ [Next]_vars => (TypeOK /\ DurableInv)'
    BY TypeStep, DurableStep
<1>2. Init => TypeOK /\ DurableInv
    BY TypeInit DEF Init, DurableInv, Up, Faithful, Empty
<1>3. DurableInv => AnswersAreDurable
    BY DEF DurableInv, AnswersAreDurable, Faithful
<1> QED BY <1>1, <1>2, <1>3, PTL DEF Spec
-----------------------------------------------------------------------------
\* The queue implements the board: a process that awaits a runner holds its task
\* as running, so no process runs a task that was reported.
RunInv ==
    \A p \in Procs : pc[p] = "busy" => mem[p][cur[p]].status = "running"

LEMMA RunDie ==
    ASSUME TypeOK, RunInv, NEW p \in Procs, Die(p)
    PROVE  RunInv'
BY DEF TypeOK, RunInv, Die

LEMMA RunStep == ASSUME TypeOK, RunInv, [Next]_vars PROVE RunInv'
<1>1. ASSUME NEW p \in Procs,
             \A q \in Procs \ {p} : pc'[q] = pc[q] /\ cur'[q] = cur[q] /\ mem'[q] = mem[q],
             pc'[p] = "busy" => mem'[p][cur'[p]].status = "running"
      PROVE  RunInv'
    BY <1>1 DEF RunInv
<1>2. ASSUME NEW p \in Procs, PickTask(p) PROVE RunInv'
    <2>1. CASE SaveThrows /\ Die(p)
        BY <2>1, RunDie
    <2>2. CASE ~(SaveThrows /\ Die(p))
        <3>1. PICK t \in Oldest(mem[p]) :
                /\ mem' = [mem EXCEPT ![p] = SetStatus(@, t, "running")]
                /\ pc' = [pc EXCEPT ![p] = "busy"]
                /\ cur' = [cur EXCEPT ![p] = t]
            BY <1>2, <2>2 DEF PickTask
        <3>2. t \in Tasks
            BY <3>1 DEF Oldest, Queued
        <3>3. mem'[p][t].status = "running" /\ cur'[p] = t
            BY <3>1, <3>2 DEF SetStatus, TypeOK, Stores, TaskRow
        <3> QED BY <1>1, <3>1, <3>3 DEF TypeOK
    <2> QED BY <2>1, <2>2
<1>3. ASSUME NEW p \in Procs, NEW t \in Tasks, Submit(p, t) PROVE RunInv'
    <2>1. /\ mem' = [mem EXCEPT ![p] = Inserted(@, t)] /\ UNCHANGED <<pc, cur>>
          /\ mem[p][t].status = "absent"
        BY <1>3 DEF Submit, Fresh
    <2>2. \A u \in Tasks : u # t => mem'[p][u] = mem[p][u]
        BY <2>1 DEF Inserted, TypeOK, Stores
    <2>3. pc[p] = "busy" => cur[p] \in Tasks /\ cur[p] # t
        BY <2>1 DEF RunInv, TypeOK
    <2> QED BY <1>1, <2>1, <2>2, <2>3 DEF TypeOK, RunInv
<1>4. ASSUME NEW p \in Procs, Boot(p) \/ Start(p) PROVE RunInv'
    <2>1. CASE SaveThrows /\ Die(p)
        BY <2>1, RunDie
    <2>2. CASE ~(SaveThrows /\ Die(p))
        <3>1. /\ \A q \in Procs \ {p} : pc'[q] = pc[q] /\ cur'[q] = cur[q] /\ mem'[q] = mem[q]
              /\ pc'[p] # "busy"
            BY <1>4, <2>2 DEF Boot, Start, TypeOK
        <3> QED BY <1>1, <3>1
    <2> QED BY <2>1, <2>2
<1>5. ASSUME NEW p \in Procs, RunnerSettles(p) PROVE RunInv'
    <2>1. CASE SaveThrows /\ Die(p)
        BY <2>1, RunDie
    <2>2. ASSUME NEW s, Record(p, s) PROVE RunInv'
        <3>1. /\ \A q \in Procs \ {p} : pc'[q] = pc[q] /\ cur'[q] = cur[q] /\ mem'[q] = mem[q]
              /\ pc'[p] # "busy"
            BY <2>2 DEF Record, TypeOK
        <3> QED BY <1>1, <3>1
    <2> QED BY <1>5, <2>1, <2>2 DEF RunnerSettles
<1>6. ASSUME NEW p \in Procs, Sleep(p) \/ WakeUp(p) PROVE RunInv'
    <2>1. /\ \A q \in Procs \ {p} : pc'[q] = pc[q] /\ cur'[q] = cur[q] /\ mem'[q] = mem[q]
          /\ pc'[p] # "busy"
        BY <1>6 DEF Sleep, WakeUp, TypeOK
    <2> QED BY <1>1, <2>1
<1>7. CASE UNCHANGED <<mem, pc, cur>>
    BY <1>7 DEF RunInv
<1>8. ASSUME NEW p \in Procs, Listen(p) \/ Step(p) \/ Crash(p) PROVE RunInv'
    <2>1. CASE Die(p)
        BY <2>1, RunDie
    <2>2. CASE ~Die(p)
        BY <1>7, <1>8, <2>2 DEF Listen, Step, Crash, procVars
    <2> QED BY <2>1, <2>2
<1>9. CASE UNCHANGED vars
    BY <1>7, <1>9 DEF vars, procVars
<1> QED BY <1>2, <1>3, <1>4, <1>5, <1>6, <1>8, <1>9 DEF Next, Work

BoardStep == [Board!BoardNext]_(Board!board)

\* While one daemon is up, what runs is what it runs.
LEMMA RunningIs ==
    ASSUME TypeOK, DurableInv, Undisturbed, NEW p \in Procs, Up(p),
           \A q \in Procs \ {p} : cur'[q] = cur[q]
    PROVE  /\ Running = {cur[p]} \ {NoTask}
           /\ Running' = {cur'[p]} \ {NoTask}
<1>1. \A q \in Procs \ {p} : cur[q] = NoTask
    BY DEF TypeOK, DurableInv, Up
<1> QED BY <1>1 DEF Running

\* A step that clients and the runner see nothing of.
LEMMA BoardRests ==
    ASSUME UNCHANGED <<cur, accepted, reported, runs, lost, overlaps>>
    PROVE  BoardStep
BY DEF BoardStep, Board!board, Running, Undisturbed

\* A death cuts the run short.
LEMMA BoardDie ==
    ASSUME TypeOK, DurableInv, Undisturbed, NEW p \in Procs, Up(p), Die(p)
    PROVE  BoardStep
<1>1. /\ cur' = [cur EXCEPT ![p] = NoTask]
      /\ UNCHANGED <<accepted, reported, runs, lost, overlaps>>
    BY DEF Die
<1>2. Running' = {}
    BY <1>1, RunningIs DEF TypeOK
<1>3. Undisturbed'
    BY <1>1 DEF Undisturbed
<1>4. Board!Interrupt
    BY <1>1, <1>2 DEF Board!Interrupt
<1> QED BY <1>3, <1>4 DEF BoardStep, Board!BoardNext, Board!Kept

\* The board takes, begins and ends tasks as the only daemon does.
LEMMA BoardPick ==
    ASSUME TypeOK, DurableInv, Undisturbed, NEW p \in Procs, PickTask(p)
    PROVE  BoardStep
<1>0. Up(p)
    BY DEF PickTask, Up
<1>1. CASE Die(p)
    BY <1>0, <1>1, BoardDie
<1>2. CASE ~Die(p)
    <2>1. PICK t \in Oldest(mem[p]) :
            /\ cur' = [cur EXCEPT ![p] = t] /\ runs' = [runs EXCEPT ![t] = @ + 1]
            /\ UNCHANGED <<accepted, reported, lost, overlaps>>
        BY <1>2 DEF PickTask
    <2>2. t \in Tasks /\ mem[p][t].status = "queued"
        BY <2>1 DEF Oldest, Queued
    <2>3. reported[t] = "none"
        <3>1. Faithful(mem[p])
            BY <1>0 DEF DurableInv
        <3>2. reported[t] \in Finished \cup {"none"}
            BY <2>2 DEF TypeOK
        <3> QED BY <2>2, <3>1, <3>2 DEF Faithful, Finished
    <2>4. cur[p] = NoTask /\ cur'[p] = t /\ t # NoTask
        BY <2>1, <2>2, TaskQueueAssumption DEF PickTask, TypeOK
    <2>5. Running = {} /\ Running' = {t}
        BY <1>0, <2>1, <2>4, RunningIs
    <2>6. Undisturbed'
        BY <2>1 DEF Undisturbed
    <2>7. Board!Begin(t)
        BY <2>1, <2>3, <2>5 DEF Board!Begin
    <2> QED BY <2>2, <2>6, <2>7 DEF BoardStep, Board!BoardNext, Board!Kept
<1> QED BY <1>1, <1>2

LEMMA BoardSettle ==
    ASSUME TypeOK, DurableInv, RunInv, Undisturbed, NEW p \in Procs, RunnerSettles(p)
    PROVE  BoardStep
<1>0. Up(p) /\ pc[p] = "busy"
    BY DEF RunnerSettles, Up
<1>1. CASE Die(p)
    BY <1>0, <1>1, BoardDie
<1>2. CASE ~Die(p)
    <2>1. PICK s \in Finished : Record(p, s)
        BY <1>2 DEF RunnerSettles, Finished
    <2>2. /\ cur' = [cur EXCEPT ![p] = NoTask]
          /\ reported' = [reported EXCEPT ![cur[p]] = s]
          /\ UNCHANGED <<accepted, runs, lost, overlaps>>
        BY <2>1 DEF Record
    <2>3. cur[p] \in Tasks /\ cur'[p] = NoTask
        BY <1>0, <2>2 DEF TypeOK
    <2>4. reported[cur[p]] = "none"
        <3>1. Faithful(mem[p]) /\ mem[p][cur[p]].status = "running"
            BY <1>0 DEF DurableInv, RunInv
        <3>2. reported[cur[p]] \in Finished \cup {"none"}
            BY <2>3 DEF TypeOK
        <3> QED BY <2>3, <3>1, <3>2 DEF Faithful, Finished
    <2>5. Running = {cur[p]} /\ Running' = {}
        BY <1>0, <2>2, <2>3, RunningIs, TaskQueueAssumption
    <2>6. Undisturbed'
        BY <2>2 DEF Undisturbed
    <2>7. Board!End(cur[p], s)
        BY <2>2, <2>4, <2>5 DEF Board!End
    <2> QED BY <2>1, <2>3, <2>6, <2>7 DEF BoardStep, Board!BoardNext, Board!Kept
<1> QED BY <1>1, <1>2

LEMMA BoardSubmit ==
    ASSUME TypeOK, DurableInv, Undisturbed, NEW p \in Procs, NEW t \in Tasks, Submit(p, t)
    PROVE  BoardStep
<1>1. UNCHANGED <<cur, reported, runs, lost, overlaps>>
    BY DEF Submit
<1>2. CASE accepted' = accepted
    BY <1>1, <1>2, BoardRests
<1>3. CASE accepted' = accepted \cup {t}
    <2>1. t \notin accepted /\ runs[t] = 0 /\ mem[p][t].status = "absent"
        BY DEF Submit, Fresh
    <2>2. reported[t] = "none"
        <3>1. Faithful(mem[p])
            BY DEF DurableInv, Submit, Up
        <3>2. reported[t] \in Finished \cup {"none"}
            BY DEF TypeOK
        <3> QED BY <2>1, <3>1, <3>2 DEF Faithful, Finished
    <2>3. Running' = Running /\ Undisturbed'
        BY <1>1 DEF Running, Undisturbed
    <2>4. Board!Take(t)
        BY <1>1, <1>3, <2>1, <2>2, <2>3 DEF Board!Take
    <2> QED BY <2>3, <2>4 DEF BoardStep, Board!BoardNext, Board!Kept
<1> QED BY <1>2, <1>3 DEF Submit

LEMMA BoardNextStep == ASSUME TypeOK, DurableInv, RunInv, [Next]_vars PROVE BoardStep
<1>1. CASE ~Undisturbed'
    BY <1>1 DEF BoardStep, Board!BoardNext, Board!Spoil
<1>2. CASE Undisturbed' /\ ~Undisturbed
    <2>1. lost => lost'
        BY DEF Next, Work, vars, history, procVars, Boot, Start, Die, PickTask, Sleep, WakeUp,
               RunnerSettles, Record, Listen, Step, Crash, Submit
    <2>2. overlaps' = overlaps \/ overlaps' = overlaps + 1
        BY DEF Next, Work, vars, history, procVars, Boot, Start, Die, PickTask, Sleep, WakeUp,
               RunnerSettles, Record, Listen, Step, Crash, Submit
    <2> QED BY <1>2, <2>1, <2>2 DEF Undisturbed, TypeOK
<1>3. CASE Undisturbed' /\ Undisturbed
    <2>1. ASSUME NEW p \in Procs, Boot(p) PROVE BoardStep
        <3>1. UNCHANGED <<cur, accepted, reported, runs>>
            BY <2>1 DEF Boot
        <3>2. lost \in BOOLEAN /\ lost' \in BOOLEAN /\ ~lost /\ ~lost' /\ overlaps' = overlaps
            BY <1>3, <2>1 DEF Undisturbed, Boot, TypeOK
        <3> QED BY <3>1, <3>2, BoardRests
    <2>2. ASSUME NEW p \in Procs, Start(p) \/ Listen(p) \/ Crash(p) PROVE BoardStep
        <3>1. CASE Die(p)
            <4>1. Up(p)
                BY <2>2 DEF Start, Listen, Crash, Up
            <4> QED BY <1>3, <3>1, <4>1, BoardDie
        <3>2. CASE ~Die(p)
            <4>1. UNCHANGED <<cur, accepted, reported, runs, lost, overlaps>>
                BY <2>2, <3>2 DEF Start, Listen, Crash, history, procVars
            <4> QED BY <4>1, BoardRests
        <3> QED BY <3>1, <3>2
    <2>3. ASSUME NEW p \in Procs, Sleep(p) \/ WakeUp(p) \/ Step(p) PROVE BoardStep
        BY <2>3, BoardRests DEF Sleep, WakeUp, Step, history, procVars
    <2>4. CASE UNCHANGED vars
        BY <2>4, BoardRests DEF vars, history, procVars
    <2> QED BY <1>3, <2>1, <2>2, <2>3, <2>4, BoardPick, BoardSettle, BoardSubmit DEF Next, Work
<1> QED BY <1>1, <1>2, <1>3

\* The queue keeps what TaskBoard promises: with one daemon at a time and no file
\* lost, tasks run one by one, a verdict comes out of a run and is the last word,
\* whatever is killed, restarted or cannot be saved.
THEOREM QueueKeepsItsBoard == Spec => ImplementsBoard
<1>1. TypeOK /\ DurableInv /\ RunInv /\ [Next]_vars => (TypeOK /\ DurableInv /\ RunInv)'
    BY TypeStep, DurableStep, RunStep
<1>2. Init => TypeOK /\ DurableInv /\ RunInv
    BY TypeInit DEF Init, DurableInv, Up, Faithful, Empty, RunInv
<1>3. Init => Board!BoardInit
    <2>1. Init => Running = {}
        BY DEF Init, Running
    <2> QED BY <2>1 DEF Init, Board!BoardInit, Undisturbed
<1>4. TypeOK /\ DurableInv /\ RunInv /\ [Next]_vars => [Board!BoardNext]_(Board!board)
    BY BoardNextStep DEF BoardStep
<1> QED BY <1>1, <1>2, <1>3, <1>4, PTL DEF Spec, ImplementsBoard, Board!BoardSpec

\* One daemon at a time: what start() puts back in the queue nobody is running.
\* SecondDaemon shows that it takes a second daemon to break it.
THEOREM ResetsAreOfInterrupted == Spec /\ [](overlaps = 0) => ResetIsOfInterrupted
<1> DEFINE Lone == \A p, q \in Procs : Up(p) /\ Up(q) => p = q
           Resets == \A p, q \in Procs, t \in Tasks :
                       pc[p] = "loaded" /\ mem[p][t].status = "running"
                         /\ mem'[p][t].status = "queued" => cur[q] # t
<1>1. ASSUME TypeOK, Lone, overlaps = 0, (overlaps = 0)', [Next]_vars PROVE Lone'
    <2>1. ASSUME NEW p \in Procs, Boot(p) PROVE Lone'
        <3>1. \A q \in Procs : ~Up(q)
            BY <1>1, <2>1 DEF Boot, NoneUp, TypeOK
        <3>2. \A q \in Procs \ {p} : ~Up(q)'
            BY <1>1, <2>1, <3>1 DEF Boot, Up, TypeOK
        <3> QED BY <3>2
    <2>2. ASSUME \A q \in Procs : Up(q)' => Up(q) PROVE Lone'
        BY <1>1, <2>2
    <2>3. ASSUME NEW p \in Procs, Die(p) PROVE Lone'
        BY <1>1, <2>2, <2>3 DEF Die, Up, TypeOK
    <2>4. ASSUME NEW p \in Procs, Start(p) \/ PickTask(p) \/ Listen(p) \/ Crash(p)
          PROVE  Lone'
        BY <1>1, <2>2, <2>3, <2>4 DEF Start, PickTask, Listen, Crash, Up, TypeOK, procVars
    <2>5. ASSUME NEW p \in Procs, RunnerSettles(p) PROVE Lone'
        BY <1>1, <2>2, <2>3, <2>5 DEF RunnerSettles, Record, Up, TypeOK
    <2>6. ASSUME NEW p \in Procs,
                 Sleep(p) \/ WakeUp(p) \/ Step(p) \/ \E t \in Tasks : Submit(p, t)
          PROVE  Lone'
        BY <1>1, <2>2, <2>6 DEF Sleep, WakeUp, Step, Submit, Up, TypeOK, procVars
    <2>7. CASE UNCHANGED vars
        BY <2>2, <2>7 DEF vars, procVars, Up
    <2> QED BY <1>1, <2>1, <2>4, <2>5, <2>6, <2>7 DEF Next, Work
<1>2. TypeOK /\ Lone => Resets
    <2> SUFFICES ASSUME TypeOK, Lone, NEW p \in Procs, NEW q \in Procs, NEW t \in Tasks,
                        pc[p] = "loaded", cur[q] = t
                 PROVE  FALSE
        OBVIOUS
    <2>1. pc[q] = "busy"
        BY TaskQueueAssumption DEF TypeOK
    <2>2. Up(p) /\ Up(q)
        BY <2>1 DEF Up
    <2> QED BY <2>1, <2>2
<1>3. Init => Lone
    BY DEF Init, Up
<1>4. TypeOK /\ Lone => [Resets]_vars
    BY <1>2
<1> HIDE DEF Lone, Resets
<1>5. TypeOK /\ [Next]_vars => TypeOK'
    BY TypeStep
<1>6. TypeOK /\ Lone /\ overlaps = 0 /\ (overlaps = 0)' /\ [Next]_vars => Lone'
    BY <1>1
<1>7. Spec /\ [](overlaps = 0) => []TypeOK /\ []Lone
    BY <1>3, <1>5, <1>6, TypeInit, PTL DEF Spec
<1>8. Spec /\ [](overlaps = 0) => [][Resets]_vars
    BY <1>4, <1>7, PTL
<1> QED BY <1>8 DEF ResetIsOfInterrupted, Resets
=============================================================================
