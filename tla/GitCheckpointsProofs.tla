------------------------ MODULE GitCheckpointsProofs ------------------------
(***************************************************************************)
(* Theorems about GitCheckpoints, for all files, contents, requests and     *)
(* bounds: the types, that an applied checkpoint restores what it vouches   *)
(* for, and that what a confirmed tool overwrites is kept somewhere.        *)
(***************************************************************************)
EXTENDS GitCheckpoints, TLAPS

----------------------------------------------------------------------------
(* Types                                                                    *)

\* The tool of a request has its argument.
Armed(r) == r.tool = "apply" => r.target \in Stamp

TypeInv == TypeOK /\ \A c \in Client : Armed(req[c])

LEMMA NoFileType == NoTree \in Tree /\ NoFile \in Checkpoint
BY DEF NoTree, NoFile, Tree, Value, Checkpoint

LEMMA IdleType == Idle \in Request /\ Armed(Idle)
BY NoFileType, BoundAssumption DEF Idle, Request, Tools, Stamp, Armed

LEMMA InitTyped == Init => TypeInv
<1> SUFFICES ASSUME Init PROVE TypeInv
  OBVIOUS
<1>1. req \in [Client -> Request] /\ \A c \in Client : Armed(req[c])
  BY IdleType DEF Init
<1>2. saved \in [Stamp -> Checkpoint] /\ now \in Stamp
  BY NoFileType, BoundAssumption DEF Init, Stamp
<1>3. made \in Commit /\ head \in 1..made /\ tree \in [Commit -> Tree]
  BY BoundAssumption DEF Init, Commit
<1>4. index \in Tree /\ work \in Tree
  BY <1>3 DEF Init, Commit
<1>5. spent \in [calls : 0..MaxCalls, edits : 0..MaxEdits]
  BY BudgetAssumption DEF Init
<1> QED
  BY <1>1, <1>2, <1>3, <1>4, <1>5 DEF TypeInv, TypeOK

LEMMA TouchedType ==
    ASSUME NEW r \in Request, Armed(r)
    PROVE  Touched(r) \in Request /\ Armed(Touched(r))
<1>1. Disturbed \subseteq File
  BY DEF Disturbed
<1>2. r.pc # "idle" => r.touched \cup Disturbed \in SUBSET File
  BY <1>1 DEF Request
<1> QED
  BY <1>2 DEF Touched, Request, Armed

\* A turn, or the developer's step, leaves requests behind.
LEMMA TurnTyped ==
    ASSUME TypeInv, NEW c \in Client, NEW r, r \in Request, Armed(r), Turn(c, r)
    PROVE  req' \in [Client -> Request] /\ \A d \in Client : Armed(req'[d])
BY TouchedType DEF TypeInv, TypeOK, Turn

LEMMA PlannedType ==
    ASSUME NEW r \in Request, Armed(r), NEW plan \in SUBSET File,
           NEW pc \in {"listing", "resetting", "patching", "applied"}
    PROVE  Planned(r, pc, plan) \in Request /\ Armed(Planned(r, pc, plan))
BY DEF Planned, Request, Armed

LEMMA MaskType == ASSUME NEW x \in Value PROVE Mask(x) \in Value
BY ContentAssumption DEF Mask, Value

LEMMA SnapshotType ==
    ASSUME TypeOK, NEW h \in Commit \cup {0}, NEW read \in BOOLEAN
    PROVE  Snapshot(h, read) \in Checkpoint
<1>1. ASSUME NEW t \in Tree, NEW files
      PROVE  /\ [f \in File |-> IF f \in files THEN t[f] ELSE Absent] \in Tree
             /\ [f \in File |-> IF f \in files THEN Mask(t[f]) ELSE Absent] \in Tree
  <2>1. Absent \in Value /\ \A f \in File : t[f] \in Value /\ Mask(t[f]) \in Value
    BY MaskType DEF Tree, Value
  <2> QED
    BY <2>1 DEF Tree
<1> DEFINE files == IF read THEN Changed ELSE {}
           plain == IF read /\ h # 0 THEN Plain(h) ELSE {}
           from  == [f \in File |-> IF f \in files THEN Mask(index[f]) ELSE Absent]
           to    == [f \in File |-> IF f \in files THEN Mask(work[f]) ELSE Absent]
           was   == [f \in File |-> IF f \in plain THEN work[f] ELSE Absent]
<1>2. Changed \subseteq File /\ Plain(h) \subseteq File
  BY DEF Changed, Plain
<1>3. files \in SUBSET File /\ plain \in SUBSET File
  BY <1>2
<1> HIDE DEF files, plain
<1>4. index \in Tree /\ work \in Tree
  BY DEF TypeOK
<1>5. from \in Tree /\ to \in Tree /\ was \in Tree
  BY <1>1, <1>4
<1>6. Snapshot(h, read) = [head |-> h, files |-> files, from |-> from, to |-> to,
                          read |-> read, plain |-> plain, was |-> was]
  BY DEF Snapshot, files, plain
<1> HIDE DEF from, to, was
<1> QED
  BY <1>3, <1>5, <1>6 DEF Checkpoint

LEMMA BeginType ==
    ASSUME NEW r \in Request, Armed(r), NEW ck \in Checkpoint
    PROVE  Begin(r, ck) \in Request /\ Armed(Begin(r, ck))
BY IdleType DEF Begin, Request, Armed

LEMMA HeadType == ASSUME TypeOK PROVE head \in Commit /\ tree[head] \in Tree
<1>1. made \in 1..MaxCommits /\ head \in 1..made /\ MaxCommits \in Nat
  BY BoundAssumption DEF TypeOK, Commit
<1>2. head \in 1..MaxCommits
  BY <1>1
<1> QED
  BY <1>2 DEF TypeOK, Commit

LEMMA BackType ==
    ASSUME TypeOK, NEW files, NEW t \in Tree
    PROVE  Back(files, t) \in Tree
<1>1. \A f \in File : tree[head][f] \in Value /\ t[f] \in Value
  BY HeadType DEF Tree
<1> QED
  BY <1>1 DEF Back, Tree

RepoType ==
    /\ tree \in [Commit -> Tree] /\ made \in Commit /\ head \in 1..made
    /\ index \in Tree /\ work \in Tree

LEMMA CommittedType == ASSUME TypeOK, Committed PROVE RepoType'
<1>1. made \in 1..MaxCommits /\ MaxCommits \in Nat /\ made < MaxCommits
  BY BoundAssumption DEF TypeOK, Committed, Commit
<1>2. made + 1 \in Commit /\ made + 1 \in 1..(made + 1)
  BY <1>1 DEF Commit
<1>3. tree' \in [Commit -> Tree]
  BY DEF TypeOK, Committed
<1> QED
  BY <1>2, <1>3 DEF TypeOK, Committed, RepoType

LEMMA SetType ==
    ASSUME NEW t \in Tree, NEW u \in Tree, NEW f
    PROVE  [t EXCEPT ![f] = u[f]] \in Tree
BY DEF Tree

LEMMA RestType ==
    ASSUME TypeOK, UNCHANGED <<saved, now, spent>>
    PROVE  /\ saved' \in [Stamp -> Checkpoint] /\ now' \in Stamp
           /\ spent' \in [calls : 0..MaxCalls, edits : 0..MaxEdits]
BY DEF TypeOK

LEMMA CallTyped ==
    ASSUME TypeInv, NEW c \in Client, Confirm(c)
    PROVE  TypeInv'
<1>1. PICK tool \in Tools, f \in File \cup {Absent}, s \in Stamp \cup {0}, t \in Stamp :
          (tool = "apply" => s \in Stamp) /\ Call(c, tool, f, s, t)
  BY DEF Confirm, Tools
<1> DEFINE r == [pc |-> "head", tool |-> tool, file |-> f, target |-> s, id |-> t, head |-> 0,
                 ck |-> NoFile, plan |-> {}, touched |-> {}]
<1>2. r \in Request /\ Armed(r)
  BY <1>1, NoFileType DEF Request, Armed
<1>3. Turn(c, r)
  BY <1>1 DEF Call
<1> HIDE DEF r
<1>4. req' \in [Client -> Request] /\ \A d \in Client : Armed(req'[d])
  BY <1>2, <1>3, TurnTyped
<1>5. spent' \in [calls : 0..MaxCalls, edits : 0..MaxEdits]
  BY <1>1, BudgetAssumption DEF Call, TypeInv, TypeOK
<1> QED
  BY <1>1, <1>4, <1>5 DEF Call, repo, TypeInv, TypeOK

LEMMA StepTyped ==
    ASSUME TypeInv, NEW c \in Client, Step(c)
    PROVE  TypeInv'
<1> DEFINE r == req[c]
<1>0. TypeOK /\ r \in Request /\ Armed(r) /\ Armed(Idle)
  BY IdleType DEF TypeInv, TypeOK
<1>a. ASSUME NEW q \in Request, Armed(q), Turn(c, q), RepoType', UNCHANGED <<saved, now, spent>>
      PROVE  TypeInv'
  BY <1>0, <1>a, TurnTyped, RestType DEF TypeInv, TypeOK, RepoType
<1>b. ASSUME UNCHANGED repo PROVE RepoType'
  BY <1>0, <1>b DEF repo, TypeOK, RepoType
<1>c. tree[head] \in Tree
  BY <1>0, HeadType
<1>1. CASE ReadHead(c)
  <2>1. PICK h \in {head, 0} : Turn(c, WithHead(r, h))
    BY <1>1 DEF ReadHead
  <2>2. h \in Commit \cup {0}
    BY <1>0, HeadType
  <2>3. WithHead(r, h) \in Request /\ Armed(WithHead(r, h))
    BY <1>0, <2>2 DEF WithHead, Request, Armed
  <2>4. RepoType' /\ UNCHANGED <<saved, now, spent>>
    BY <1>1, <1>b DEF ReadHead, repo
  <2> QED
    BY <2>1, <2>3, <2>4, <1>a
<1>2. CASE TakeCheckpoint(c)
  <2>1. saved' \in [Stamp -> Checkpoint]
    <3>1. r.head \in Commit \cup {0}
      BY <1>0 DEF Request
    <3>2. \A read \in BOOLEAN : Snapshot(r.head, read) \in Checkpoint
      BY <1>0, <3>1, SnapshotType
    <3> QED
      BY <1>0, <1>2, <3>2, NoFileType DEF TakeCheckpoint, TypeOK
  <2>2. \E q \in Request : Armed(q) /\ Turn(c, q)
    <3>1. CASE Turn(c, Idle)
      BY <3>1, IdleType
    <3>2. CASE Turn(c, Begin(r, IF r.tool = "apply" THEN saved'[r.target] ELSE NoFile))
      <4>1. (IF r.tool = "apply" THEN saved'[r.target] ELSE NoFile) \in Checkpoint
        BY <1>0, <2>1, NoFileType DEF Armed
      <4> QED
        BY <1>0, <3>2, <4>1, BeginType
    <3> QED
      BY <1>2, <3>1, <3>2 DEF TakeCheckpoint
  <2>3. req' \in [Client -> Request] /\ \A d \in Client : Armed(req'[d])
    BY <2>2, TurnTyped
  <2> QED
    BY <1>0, <1>2, <2>1, <2>3 DEF TakeCheckpoint, repo, TypeInv, TypeOK
<1>3. CASE CheckHead(c)
  <2>1. RepoType' /\ UNCHANGED <<saved, now, spent>>
    BY <1>3, <1>b DEF CheckHead, repo
  <2>2. r.ck.files \in SUBSET File
    BY <1>0 DEF Request, Checkpoint
  <2>3. \A pc \in {"listing", "resetting"} :
            Planned(r, pc, r.ck.files) \in Request /\ Armed(Planned(r, pc, r.ck.files))
    BY <1>0, <2>2, PlannedType
  <2>4. (IF r.ck.files = {} THEN "listing" ELSE "resetting") \in {"listing", "resetting"}
    OBVIOUS
  <2> QED
    BY <1>3, <2>1, <2>3, <2>4, <1>a, IdleType DEF CheckHead
<1>4. CASE ListStatus(c)
  <2>1. RepoType' /\ UNCHANGED <<saved, now, spent>>
    BY <1>4, <1>b DEF ListStatus, repo
  <2>2. \A plan \in {Listed, {}} : plan \in SUBSET File
    BY DEF Listed
  <2>3. \A plan \in {Listed, {}} : \A pc \in {"applied", "resetting"} :
            Planned(r, pc, plan) \in Request /\ Armed(Planned(r, pc, plan))
    BY <1>0, <2>2, PlannedType
  <2> QED
    BY <1>4, <2>1, <2>3, <1>a DEF ListStatus
<1>5. CASE Reset(c)
  <2>1. UNCHANGED <<tree, made, head, saved, now, spent>>
    BY <1>5 DEF Reset
  <2>2. work' \in Tree /\ index' \in Tree
    BY <1>0, <1>5, BackType DEF Reset, TypeOK
  <2>3. RepoType'
    BY <1>0, <2>1, <2>2 DEF RepoType, TypeOK
  <2>4. r.plan \in SUBSET File
    BY <1>0 DEF Request
  <2>5. \A pc \in {"applied", "patching"} :
            Planned(r, pc, r.plan) \in Request /\ Armed(Planned(r, pc, r.plan))
    BY <1>0, <2>4, PlannedType
  <2> QED
    BY <1>5, <2>1, <2>3, <2>5, <1>a, IdleType DEF Reset
<1>6. CASE Patch(c)
  <2>1. UNCHANGED <<tree, made, head, index, saved, now, spent>> /\ work' \in Tree
    BY <1>0, <1>6 DEF Patch, TypeOK
  <2>2. RepoType'
    BY <1>0, <2>1 DEF RepoType, TypeOK
  <2>3. Planned(r, "applied", r.plan) \in Request /\ Armed(Planned(r, "applied", r.plan))
    BY <1>0, PlannedType DEF Request
  <2> QED
    BY <1>6, <2>1, <2>2, <2>3, <1>a, IdleType DEF Patch
<1>7. CASE RunRestore(c)
  <2>1. work' \in Tree
    BY <1>0, <1>7, SetType DEF RunRestore, TypeOK
  <2>2. RepoType'
    BY <1>0, <1>7, <2>1 DEF RunRestore, TypeOK, RepoType
  <2> QED
    BY <1>7, <2>2, <1>a, IdleType DEF RunRestore
<1>8. CASE RunUnstage(c)
  <2>1. index' \in Tree
    BY <1>0, <1>8, <1>c, SetType DEF RunUnstage, TypeOK
  <2>2. RepoType'
    BY <1>0, <1>8, <2>1 DEF RunUnstage, TypeOK, RepoType
  <2> QED
    BY <1>8, <2>2, <1>a, IdleType DEF RunUnstage
<1>9. CASE RunAdd(c)
  <2>1. index' \in Tree
    BY <1>0, <1>9, SetType DEF RunAdd, TypeOK
  <2>2. RepoType'
    BY <1>0, <1>9, <2>1 DEF RunAdd, TypeOK, RepoType
  <2> QED
    BY <1>9, <2>2, <1>a, IdleType DEF RunAdd
<1>10. CASE RunCommit(c)
  BY <1>0, <1>10, <1>a, CommittedType, IdleType DEF RunCommit
<1>11. CASE Refused(c)
  BY <1>11, <1>a, <1>b, IdleType DEF Refused, repo
<1> QED
  BY <1>1, <1>2, <1>3, <1>4, <1>5, <1>6, <1>7, <1>8, <1>9, <1>10, <1>11 DEF Step

LEMMA ActTyped ==
    ASSUME TypeInv, Act, RepoType'
    PROVE  TypeInv'
<1>1. req' \in [Client -> Request] /\ \A d \in Client : Armed(req'[d])
  BY TouchedType DEF Act, TypeInv, TypeOK
<1>2. spent' \in [calls : 0..MaxCalls, edits : 0..MaxEdits]
  BY BudgetAssumption DEF Act, TypeInv, TypeOK
<1> QED
  BY <1>1, <1>2 DEF Act, TypeInv, TypeOK, RepoType

LEMMA DeveloperTyped ==
    ASSUME TypeInv, Developer
    PROVE  TypeInv'
<1>0. TypeOK
  BY DEF TypeInv
<1>1. ASSUME NEW f \in File, Stage(f) PROVE TypeInv'
  <2>1. index' \in Tree
    BY <1>0, <1>1, SetType DEF Stage, TypeOK
  <2> QED
    BY <1>0, <1>1, <2>1, ActTyped DEF Stage, TypeOK, RepoType
<1>2. ASSUME NEW f \in File, NEW x \in Value, Edit(f, x) PROVE TypeInv'
  <2>1. work' \in Tree
    BY <1>0, <1>2 DEF Edit, TypeOK, Tree
  <2> QED
    BY <1>0, <1>2, <2>1, ActTyped DEF Edit, TypeOK, RepoType
<1>3. CASE Commits
  BY <1>0, <1>3, ActTyped, CommittedType DEF Commits
<1>4. ASSUME NEW n \in Commit, Switch(n) PROVE TypeInv'
  <2>1. tree[n] \in Tree
    BY <1>0 DEF TypeOK
  <2>2. work' \in Tree /\ index' \in Tree
    BY <1>0, <1>4, <2>1 DEF Switch, TypeOK, Tree
  <2>3. head' \in 1..made
    BY <1>0, <1>4 DEF Switch, TypeOK, Commit
  <2> QED
    BY <1>0, <1>4, <2>2, <2>3, ActTyped DEF Switch, TypeOK, RepoType
<1> QED
  BY <1>1, <1>2, <1>3, <1>4 DEF Developer

LEMMA TypeStep == TypeInv /\ [Next]_vars => TypeInv'
<1> SUFFICES ASSUME TypeInv, [Next]_vars PROVE TypeInv'
  OBVIOUS
<1>1. CASE Crash
  <2>1. req' \in [Client -> Request] /\ \A d \in Client : Armed(req'[d])
    BY <1>1, IdleType DEF Crash
  <2> QED
    BY <1>1, <2>1 DEF Crash, repo, TypeInv, TypeOK
<1>2. CASE UNCHANGED vars
  BY <1>2 DEF vars, repo, TypeInv, TypeOK
<1> QED
  BY <1>1, <1>2, CallTyped, StepTyped, DeveloperTyped DEF Next

\* TypeOK holds in every reachable state, for all constants: commits that exist, a
\* tree in HEAD, index and worktree, and checkpoints and requests as the code builds
\* them.
THEOREM TypeCorrect == Spec => []TypeOK
<1>1. TypeInv => TypeOK
  BY DEF TypeInv
<1> QED
  BY <1>1, InitTyped, TypeStep, PTL DEF Spec

----------------------------------------------------------------------------
(* The inductive invariant                                                  *)

\* What a checkpoint vouches for is as it was: the patch leads from the file in the
\* checkpoint's HEAD to the file of the working tree, or there was no change.
CkOK(ck, t, m) ==
    /\ ck.head \in 0..m
    /\ ck.plain # {} => ck.head # 0
    /\ \A f \in ck.plain :
          IF f \in ck.files THEN ck.from[f] = Mask(t[ck.head][f]) /\ ck.to[f] = Mask(ck.was[f])
                            ELSE ck.was[f] = t[ck.head][f]

\* An apply is still at the HEAD of its checkpoint, as far as untouched files tell;
\* between reset and patch its files are as in HEAD; afterwards they are restored.
Restoring(r, t, h, w) ==
    /\ r.pc \in {"listing", "resetting", "patching"} =>
          /\ r.ck.head # 0
          /\ \A f \in File \ r.touched : t[h][f] = t[r.ck.head][f]
    /\ r.pc = "listing" => r.ck.files = {}
    /\ r.pc \in {"resetting", "patching"} => r.ck.files = {} \/ r.plan = r.ck.files
    /\ r.pc = "patching" => /\ r.ck.files # {}
                            /\ \A f \in r.ck.files \ r.touched : w[f] = t[h][f]
    /\ r.pc = "applied" =>
          \A f \in (r.plan \cap r.ck.plain) \ r.touched : w[f] = r.ck.was[f] \/ Masked(r.ck, f)

\* The checkpoint that was read has the changes of a tracked file, masked.
Patches(ck, f, i, w) ==
    ck.read /\ i # Absent =>
        w = i \/ (f \in ck.files /\ ck.from[f] = Mask(i) /\ ck.to[f] = Mask(w))

\* Between its hook and its first write, the checkpoint of a tool has the changes of
\* the files that nobody touched.
Guarded(r, i, w, sv) ==
    r.pc \in {"acting", "checking", "listing", "resetting"} =>
        \A f \in File \ r.touched : Patches(sv[r.id], f, i[f], w[f])

ReqOK(c) ==
    /\ CkOK(req[c].ck, tree, made)
    /\ req[c].head \in 0..made
    /\ Restoring(req[c], tree, head, work)
    /\ Guarded(req[c], index, work, saved)

Saved == \A s \in Stamp : CkOK(saved[s], tree, made)

Inv == TypeInv /\ Saved /\ \A c \in Client : ReqOK(c)

----------------------------------------------------------------------------
(* What others do to a request and to a checkpoint                          *)

\* Commits do not change.
Frozen == made \in Nat /\ made' \in Nat /\ made <= made' /\ \A n \in 1..made : tree'[n] = tree[n]

\* A file that is replaced says what git says now, or that it does not know.
Filed ==
    \A s \in Stamp : \/ saved'[s] = saved[s]
                     \/ ~saved'[s].read
                     \/ /\ UNCHANGED repo
                        /\ \A f \in File : Patches(saved'[s], f, index[f], work[f])

LEMMA CkKept ==
    ASSUME NEW ck, NEW t, NEW u, NEW m \in Nat, NEW k \in Nat, m <= k,
           \A n \in 1..m : u[n] = t[n], CkOK(ck, t, m)
    PROVE  CkOK(ck, u, k)
<1>1. ck.head \in 0..m /\ ck.head \in 0..k
  BY DEF CkOK
<1>2. ck.head # 0 => u[ck.head] = t[ck.head]
  BY <1>1
<1> QED
  BY <1>1, <1>2 DEF CkOK

LEMMA NoFileOK == ASSUME NEW t, NEW m \in Nat PROVE CkOK(NoFile, t, m)
BY DEF CkOK, NoFile

LEMMA IdleOK ==
    ASSUME NEW c \in Client, made' \in Nat, req'[c] = Idle
    PROVE  ReqOK(c)'
<1>1. CkOK(NoFile, tree', made')
  BY NoFileOK
<1> QED
  BY <1>1 DEF ReqOK, Idle, Restoring, Guarded

LEMMA Bystander ==
    ASSUME TypeOK, NEW d \in Client, ReqOK(d), req'[d] = Touched(req[d]), Frozen, Filed
    PROVE  ReqOK(d)'
<1> DEFINE r == req[d]
           q == req'[d]
<1>0. r \in Request /\ r.ck \in Checkpoint /\ r.id \in Stamp
  BY DEF TypeOK, Request
<1>1. q.ck = r.ck /\ q.pc = r.pc /\ q.id = r.id /\ q.plan = r.plan /\ q.head = r.head
  BY DEF Touched
<1>2. CkOK(q.ck, tree', made') /\ q.head \in 0..made'
  <2>1. CkOK(r.ck, tree', made')
    BY CkKept DEF Frozen, ReqOK
  <2> QED
    BY <1>1, <2>1 DEF ReqOK, Frozen
<1>3. ASSUME r.pc # "idle"
      PROVE  \A f \in File \ q.touched :
                 /\ f \notin r.touched
                 /\ work'[f] = work[f] /\ index'[f] = index[f]
                 /\ tree'[head'][f] = tree[head][f]
  BY <1>3 DEF Touched, Disturbed
<1>4. CASE r.pc = "idle"
  BY <1>1, <1>2, <1>4 DEF ReqOK, Restoring, Guarded
<1>5. CASE r.pc # "idle"
  <2>1. r.ck.head # 0 => tree'[r.ck.head] = tree[r.ck.head]
    BY DEF ReqOK, CkOK, Frozen
  <2>2. Restoring(q, tree', head', work')
    <3>1. Restoring(r, tree, head, work)
      BY DEF ReqOK
    <3>2. r.plan \subseteq File /\ r.ck.files \subseteq File
      BY <1>0 DEF Request, Checkpoint
    <3> HIDE DEF r, q
    <3> QED
      BY <1>1, <1>3, <1>5, <2>1, <3>1, <3>2 DEF Restoring
  <2>3. Guarded(q, index', work', saved')
    <3>1. Guarded(r, index, work, saved)
      BY DEF ReqOK
    <3>2. CASE saved'[r.id] = saved[r.id]
      <4> HIDE DEF r, q
      <4> QED
        BY <1>1, <1>3, <1>5, <3>1, <3>2 DEF Guarded
    <3>3. CASE ~saved'[r.id].read
      <4> HIDE DEF r, q
      <4> QED
        BY <1>1, <3>3 DEF Guarded, Patches
    <3>4. CASE UNCHANGED repo /\ \A f \in File : Patches(saved'[r.id], f, index[f], work[f])
      <4> HIDE DEF r, q
      <4> QED
        BY <1>1, <3>4 DEF Guarded, repo
    <3> QED
      BY <1>0, <3>2, <3>3, <3>4 DEF Filed
  <2> QED
    BY <1>2, <2>2, <2>3 DEF ReqOK
<1> QED
  BY <1>4, <1>5

LEMMA SavedStays ==
    ASSUME Saved, Frozen, UNCHANGED saved
    PROVE  Saved' /\ Filed
<1>1. \A s \in Stamp : CkOK(saved[s], tree', made')
  BY CkKept DEF Saved, Frozen
<1> QED
  BY <1>1 DEF Saved, Filed

LEMMA StillFrozen == ASSUME TypeOK, UNCHANGED <<tree, made>> PROVE Frozen
BY DEF TypeOK, Frozen, Commit

LEMMA CommitFrozen == ASSUME TypeOK, Committed PROVE Frozen
<1>1. made \in Nat
  BY DEF TypeOK, Commit
<1>2. \A n \in 1..made : n # made + 1
  BY <1>1
<1>3. \A n \in 1..made : n \in Commit
  BY BoundAssumption DEF TypeOK, Commit
<1> QED
  BY <1>1, <1>2, <1>3 DEF TypeOK, Committed, Frozen

\* After a turn of c only the request of c is to be looked at.
LEMMA TurnOK ==
    ASSUME Inv, NEW c \in Client, NEW r, Turn(c, r), Frozen, Filed, ReqOK(c)'
    PROVE  \A d \in Client : ReqOK(d)'
<1> SUFFICES ASSUME NEW d \in Client, d # c PROVE ReqOK(d)'
  OBVIOUS
<1>1. req'[d] = Touched(req[d])
  BY DEF Turn
<1> QED
  BY <1>1, Bystander DEF Inv, TypeInv

LEMMA TurnIdle ==
    ASSUME Inv, NEW c \in Client, Turn(c, Idle), Frozen, Filed
    PROVE  \A d \in Client : ReqOK(d)'
<1>1. req'[c] = Idle /\ made' \in Nat
  BY DEF Turn, Frozen
<1>2. ReqOK(c)'
  BY <1>1, IdleOK
<1> QED
  BY <1>2, TurnOK, IdleType

----------------------------------------------------------------------------
(* The steps of a request                                                   *)

LEMMA SnapshotOK ==
    ASSUME TypeOK, NEW h \in 0..made, NEW read \in BOOLEAN
    PROVE  /\ CkOK(Snapshot(h, read), tree, made)
           /\ Snapshot(h, read).read = read
           /\ \A f \in File : Patches(Snapshot(h, read), f, index[f], work[f])
<1> DEFINE ck == Snapshot(h, read)
<1>1. /\ ck.head = h /\ ck.read = read
      /\ ck.files = IF read THEN Changed ELSE {}
      /\ ck.plain = IF read /\ h # 0 THEN Plain(h) ELSE {}
      /\ \A f \in ck.files : f \in File => ck.from[f] = Mask(index[f]) /\ ck.to[f] = Mask(work[f])
      /\ \A f \in ck.plain : f \in File => ck.was[f] = work[f]
  BY DEF Snapshot
<1>2. Changed \subseteq File /\ Plain(h) \subseteq File
  BY DEF Changed, Plain
<1> HIDE DEF ck
<1>3. CkOK(ck, tree, made)
  BY <1>1, <1>2 DEF CkOK, Plain, Changed
<1>4. ASSUME NEW f \in File PROVE Patches(ck, f, index[f], work[f])
  BY <1>1, <1>4 DEF Patches, Changed
<1> QED
  BY <1>1, <1>3, <1>4 DEF ck

LEMMA CallKept ==
    ASSUME Inv, NEW c \in Client, Confirm(c)
    PROVE  Saved' /\ \A d \in Client : ReqOK(d)'
<1>1. PICK tool \in Tools, f \in File \cup {Absent}, s \in Stamp \cup {0}, t \in Stamp :
          Call(c, tool, f, s, t)
  BY DEF Confirm, Tools
<1> DEFINE r == [pc |-> "head", tool |-> tool, file |-> f, target |-> s, id |-> t, head |-> 0,
                 ck |-> NoFile, plan |-> {}, touched |-> {}]
<1>2. Turn(c, r) /\ UNCHANGED <<repo, saved>>
  BY <1>1 DEF Call
<1>3. Frozen /\ Filed /\ Saved'
  BY <1>2, StillFrozen, SavedStays DEF Inv, TypeInv, repo
<1>4. req'[c] = r /\ CkOK(NoFile, tree', made') /\ made' \in Nat
  BY <1>2, <1>3, NoFileOK DEF Turn, Frozen
<1>5. ReqOK(c)'
  BY <1>4 DEF ReqOK, Restoring, Guarded
<1> HIDE DEF r
<1> QED
  BY <1>2, <1>3, <1>5, TurnOK

LEMMA ReadHeadKept ==
    ASSUME Inv, NEW c \in Client, ReadHead(c)
    PROVE  Saved' /\ \A d \in Client : ReqOK(d)'
<1>1. PICK h \in {head, 0} : Turn(c, WithHead(req[c], h))
  BY DEF ReadHead
<1>2. TypeOK /\ UNCHANGED <<repo, saved>>
  BY DEF ReadHead, Inv, TypeInv
<1>3. Frozen /\ Filed /\ Saved'
  BY <1>2, StillFrozen, SavedStays DEF Inv, repo
<1>4. req'[c] = WithHead(req[c], h) /\ h \in 0..made'
  BY <1>1, <1>2 DEF Turn, TypeOK, repo, Commit
<1>5. req'[c].ck = req[c].ck /\ req'[c].pc = "diff" /\ req'[c].head = h
  BY <1>4 DEF WithHead
<1>6. CkOK(req[c].ck, tree, made)
  BY DEF Inv, ReqOK
<1>7. ReqOK(c)'
  BY <1>2, <1>4, <1>5, <1>6 DEF ReqOK, Restoring, Guarded, repo
<1> QED
  BY <1>1, <1>3, <1>7, TurnOK

LEMMA TakeCheckpointKept ==
    ASSUME Inv, NEW c \in Client, TakeCheckpoint(c)
    PROVE  Saved' /\ \A d \in Client : ReqOK(d)'
<1> DEFINE r == req[c]
<1>1. TypeOK /\ UNCHANGED repo /\ r \in Request /\ r.id \in Stamp /\ r.head \in 0..made /\ Armed(r)
  BY DEF TakeCheckpoint, Inv, TypeInv, TypeOK, Request, ReqOK
<1>2. Frozen /\ made \in Nat /\ made' = made /\ tree' = tree
  BY <1>1, StillFrozen DEF repo, Frozen
<1>3. saved \in [Stamp -> Checkpoint] /\ \A s \in Stamp : CkOK(saved[s], tree, made)
  BY <1>1 DEF TypeOK, Inv, Saved
<1>4. ASSUME NEW read \in BOOLEAN,
             saved' = [saved EXCEPT ![r.id] = Snapshot(r.head, read)],
             Turn(c, Begin(r, IF r.tool = "apply" THEN saved'[r.target] ELSE NoFile))
      PROVE  Saved' /\ \A d \in Client : ReqOK(d)'
  <2> DEFINE ck == IF r.tool = "apply" THEN saved'[r.target] ELSE NoFile
             q  == Begin(r, ck)
  <2>1. /\ saved'[r.id] = Snapshot(r.head, read)
        /\ \A s \in Stamp : s # r.id => saved'[s] = saved[s]
    BY <1>1, <1>3, <1>4
  <2>2. /\ CkOK(saved'[r.id], tree, made) /\ saved'[r.id].read = read
        /\ \A f \in File : Patches(saved'[r.id], f, index[f], work[f])
    BY <1>1, <2>1, SnapshotOK
  <2>3. \A s \in Stamp : CkOK(saved'[s], tree', made')
    BY <1>2, <1>3, <2>1, <2>2
  <2>4. Saved'
    BY <2>3 DEF Saved
  <2>5. Filed
    BY <1>1, <2>1, <2>2 DEF Filed
  <2>6. CkOK(ck, tree', made')
    BY <1>1, <1>2, <2>3, NoFileOK DEF Armed
  <2>7. req'[c] = q
    BY <1>4 DEF Turn
  <2>8. CASE q = Idle
    BY <1>2, <1>4, <2>4, <2>5, <2>8, TurnIdle
  <2>9. CASE q # Idle
    <3>1. q.pc \in {"checking", "acting"} /\ q.ck = ck /\ q.head = 0 /\ q.id = r.id
      BY <2>9 DEF Begin
    <3>2. Guarded(q, index', work', saved')
      <4> HIDE DEF q, r, ck
      <4> QED
        BY <1>1, <2>2, <3>1 DEF Guarded, repo
    <3>3. Restoring(q, tree', head', work')
      <4> HIDE DEF q
      <4> QED
        BY <3>1 DEF Restoring
    <3>4. ReqOK(c)'
      <4> HIDE DEF q, ck
      <4> QED
        BY <1>2, <2>6, <2>7, <3>1, <3>2, <3>3 DEF ReqOK
    <3> QED
      BY <1>2, <1>4, <2>4, <2>5, <3>4, TurnOK
  <2> QED
    BY <2>8, <2>9
<1>5. ASSUME saved' \in {saved, [saved EXCEPT ![r.id] = NoFile]}, Turn(c, Idle)
      PROVE  Saved' /\ \A d \in Client : ReqOK(d)'
  <2>1. \A s \in Stamp : saved'[s] = saved[s] \/ saved'[s] = NoFile
    BY <1>3, <1>5
  <2>2. ~NoFile.read /\ CkOK(NoFile, tree, made)
    BY <1>2, NoFileOK DEF NoFile
  <2>3. Saved'
    BY <1>2, <1>3, <2>1, <2>2 DEF Saved
  <2>4. Filed
    BY <2>1, <2>2 DEF Filed
  <2> QED
    BY <1>2, <1>5, <2>3, <2>4, TurnIdle
<1> QED
  BY <1>4, <1>5 DEF TakeCheckpoint

\* The request after a step of apply that changes its place and its plan.
LEMMA PlannedOK ==
    ASSUME Inv, NEW c \in Client, NEW pc, NEW plan, Frozen,
           req'[c] = Planned(req[c], pc, plan),
           Restoring(Planned(req[c], pc, plan), tree', head', work'),
           Guarded(Planned(req[c], pc, plan), index', work', saved')
    PROVE  ReqOK(c)'
<1>1. req'[c].ck = req[c].ck /\ req'[c].head = 0
  BY DEF Planned
<1>2. CkOK(req[c].ck, tree, made)
  BY DEF Inv, ReqOK
<1>3. CkOK(req'[c].ck, tree', made')
  BY <1>1, <1>2, CkKept DEF Frozen
<1> QED
  BY <1>1, <1>3 DEF ReqOK, Frozen

\* A step of apply that leaves the repository alone keeps the guard.
LEMMA StillGuarded ==
    ASSUME NEW c \in Client, ReqOK(c), UNCHANGED <<repo, saved>>,
           req[c].pc \in {"checking", "listing", "resetting"}, NEW pc, NEW plan
    PROVE  Guarded(Planned(req[c], pc, plan), index', work', saved')
BY DEF ReqOK, Guarded, Planned, repo

LEMMA CheckHeadKept ==
    ASSUME Inv, NEW c \in Client, CheckHead(c)
    PROVE  Saved' /\ \A d \in Client : ReqOK(d)'
<1> DEFINE r == req[c]
           pc == IF r.ck.files = {} THEN "listing" ELSE "resetting"
<1>1. TypeOK /\ UNCHANGED <<repo, saved>> /\ r.pc = "checking" /\ ReqOK(c)
  BY DEF CheckHead, Inv, TypeInv
<1>2. Frozen /\ Filed /\ Saved'
  BY <1>1, StillFrozen, SavedStays DEF Inv, repo
<1>3. ASSUME SameHead(r.ck), Turn(c, Planned(r, pc, r.ck.files))
      PROVE  \A d \in Client : ReqOK(d)'
  <2>1. req'[c] = Planned(r, pc, r.ck.files)
    BY <1>3 DEF Turn
  <2>2. Restoring(Planned(r, pc, r.ck.files), tree', head', work')
    BY <1>1, <1>3 DEF Restoring, Planned, SameHead, repo
  <2>3. Guarded(Planned(r, pc, r.ck.files), index', work', saved')
    BY <1>1, StillGuarded
  <2> HIDE DEF pc
  <2>4. ReqOK(c)'
    BY <1>2, <2>1, <2>2, <2>3, PlannedOK
  <2> QED
    BY <1>2, <1>3, <2>4, TurnOK
<1>4. CASE Turn(c, Idle)
  BY <1>2, <1>4, TurnIdle
<1> QED
  BY <1>2, <1>3, <1>4 DEF CheckHead

LEMMA ListStatusKept ==
    ASSUME Inv, NEW c \in Client, ListStatus(c)
    PROVE  Saved' /\ \A d \in Client : ReqOK(d)'
<1> DEFINE r == req[c]
<1>1. TypeOK /\ UNCHANGED <<repo, saved>> /\ r.pc = "listing" /\ ReqOK(c)
  BY DEF ListStatus, Inv, TypeInv
<1>2. Frozen /\ Filed /\ Saved'
  BY <1>1, StillFrozen, SavedStays DEF Inv, repo
<1>3. PICK plan \in {Listed, {}} :
          Turn(c, Planned(r, IF plan = {} THEN "applied" ELSE "resetting", plan))
  BY DEF ListStatus
<1> DEFINE pc == IF plan = {} THEN "applied" ELSE "resetting"
<1>4. req'[c] = Planned(r, pc, plan)
  BY <1>3 DEF Turn
<1>5. Restoring(r, tree, head, work)
  BY <1>1 DEF ReqOK
<1>6. Restoring(Planned(r, pc, plan), tree', head', work')
  BY <1>1, <1>5 DEF Restoring, Planned, repo
<1>7. Guarded(Planned(r, pc, plan), index', work', saved')
  BY <1>1, StillGuarded
<1> HIDE DEF pc
<1>8. ReqOK(c)'
  BY <1>2, <1>4, <1>6, <1>7, PlannedOK
<1> QED
  BY <1>2, <1>3, <1>8, TurnOK DEF pc

LEMMA ResetKept ==
    ASSUME Inv, NEW c \in Client, Reset(c)
    PROVE  Saved' /\ \A d \in Client : ReqOK(d)'
<1> DEFINE r == req[c]
           pc == IF r.ck.files = {} THEN "applied" ELSE "patching"
<1>1. TypeOK /\ UNCHANGED <<tree, made, head, saved>> /\ r.pc = "resetting" /\ ReqOK(c)
  BY DEF Reset, Inv, TypeInv
<1>2. Frozen /\ Filed /\ Saved'
  BY <1>1, StillFrozen, SavedStays DEF Inv
<1>3. ASSUME work' = Back(r.plan, work), index' = Back(r.plan, index), Turn(c, Planned(r, pc, r.plan))
      PROVE  \A d \in Client : ReqOK(d)'
  <2>1. req'[c] = Planned(r, pc, r.plan)
    BY <1>3 DEF Turn
  <2>2. r.plan \subseteq File /\ r.ck.plain \subseteq File /\ r.ck.files \subseteq File
    BY <1>1 DEF TypeOK, Request, Checkpoint
  <2>3. \A f \in File : /\ work'[f] = IF f \in r.plan THEN tree[head][f] ELSE work[f]
                        /\ index'[f] = IF f \in r.plan THEN tree[head][f] ELSE index[f]
    BY <1>3 DEF Back
  <2>4. Restoring(r, tree, head, work) /\ CkOK(r.ck, tree, made)
    BY <1>1 DEF ReqOK
  <2>5. Restoring(Planned(r, pc, r.plan), tree', head', work')
    BY <1>1, <2>2, <2>3, <2>4 DEF Restoring, Planned, CkOK
  <2>6. Guarded(Planned(r, pc, r.plan), index', work', saved')
    BY DEF Guarded, Planned
  <2> HIDE DEF pc
  <2>7. ReqOK(c)'
    BY <1>2, <2>1, <2>5, <2>6, PlannedOK
  <2> QED
    BY <1>2, <1>3, <2>7, TurnOK
<1>4. CASE Turn(c, Idle)
  BY <1>2, <1>4, TurnIdle
<1> QED
  BY <1>2, <1>3, <1>4 DEF Reset

LEMMA PatchKept ==
    ASSUME Inv, NEW c \in Client, Patch(c)
    PROVE  Saved' /\ \A d \in Client : ReqOK(d)'
<1> DEFINE r == req[c]
<1>1. TypeOK /\ UNCHANGED <<tree, made, head, index, saved>> /\ r.pc = "patching" /\ ReqOK(c)
  BY DEF Patch, Inv, TypeInv
<1>2. Frozen /\ Filed /\ Saved'
  BY <1>1, StillFrozen, SavedStays DEF Inv
<1>3. ASSUME \A f \in File : IF f \in r.ck.files THEN Patched(f, r.ck) ELSE work'[f] = work[f],
             Turn(c, Planned(r, "applied", r.plan))
      PROVE  \A d \in Client : ReqOK(d)'
  <2>1. req'[c] = Planned(r, "applied", r.plan)
    BY <1>3 DEF Turn
  <2>2. r.plan \subseteq File /\ r.ck.plain \subseteq File /\ r.ck.files \subseteq File
    BY <1>1 DEF TypeOK, Request, Checkpoint
  <2>3. Restoring(r, tree, head, work) /\ CkOK(r.ck, tree, made)
    BY <1>1 DEF ReqOK
  <2>4. ASSUME NEW f \in (r.plan \cap r.ck.plain) \ r.touched, ~Masked(r.ck, f)
        PROVE  work'[f] = r.ck.was[f]
    <3>1. tree[head][f] = tree[r.ck.head][f]
      BY <1>1, <2>2, <2>3, <2>4 DEF Restoring
    <3>2. CASE f \in r.ck.files
      <4>1. work[f] = tree[head][f] /\ r.ck.from[f] = Mask(work[f]) /\ r.ck.to[f] = Mask(r.ck.was[f])
        BY <1>1, <2>3, <2>4, <3>1, <3>2 DEF Restoring, CkOK
      <4>2. r.ck.from[f] = work[f] /\ r.ck.to[f] = r.ck.was[f]
        BY <2>4, <3>2, <4>1 DEF Masked, Mask
      <4> QED
        BY <1>3, <2>2, <2>4, <3>2, <4>2 DEF Patched
    <3>3. CASE f \notin r.ck.files
      <4>1. r.ck.files = {} \/ r.plan = r.ck.files
        BY <1>1, <2>3 DEF Restoring
      <4>2. r.ck.files = {}
        BY <2>4, <3>3, <4>1
      <4> QED
        BY <1>1, <2>3, <4>2 DEF Restoring
    <3> QED
      BY <3>2, <3>3
  <2>5. Restoring(Planned(r, "applied", r.plan), tree', head', work')
    BY <2>4 DEF Restoring, Planned
  <2>6. Guarded(Planned(r, "applied", r.plan), index', work', saved')
    BY DEF Guarded, Planned
  <2>7. ReqOK(c)'
    BY <1>2, <2>1, <2>5, <2>6, PlannedOK
  <2> QED
    BY <1>2, <1>3, <2>7, TurnOK
<1>4. CASE Turn(c, Idle)
  BY <1>2, <1>4, TurnIdle
<1> QED
  BY <1>2, <1>3, <1>4 DEF Patch

\* The other tools end with their only command.
LEMMA HandlerKept ==
    ASSUME Inv, NEW c \in Client,
           RunRestore(c) \/ RunUnstage(c) \/ RunAdd(c) \/ RunCommit(c) \/ Refused(c)
    PROVE  Saved' /\ \A d \in Client : ReqOK(d)'
<1>1. TypeOK
  BY DEF Inv, TypeInv
<1>2. Turn(c, Idle) /\ UNCHANGED saved
  BY DEF RunRestore, RunUnstage, RunAdd, RunCommit, Refused
<1>3. Frozen
  BY <1>1, StillFrozen, CommitFrozen DEF RunRestore, RunUnstage, RunAdd, RunCommit, Refused, repo
<1>4. Saved' /\ Filed
  BY <1>2, <1>3, SavedStays DEF Inv
<1> QED
  BY <1>2, <1>3, <1>4, TurnIdle

LEMMA DeveloperKept ==
    ASSUME Inv, Developer
    PROVE  Saved' /\ \A d \in Client : ReqOK(d)'
<1>1. TypeOK
  BY DEF Inv, TypeInv
<1>2. Act
  BY DEF Developer, Stage, Edit, Commits, Switch
<1>3. Frozen
  BY <1>1, StillFrozen, CommitFrozen DEF Developer, Stage, Edit, Commits, Switch
<1>4. Saved' /\ Filed
  BY <1>2, <1>3, SavedStays DEF Inv, Act
<1>5. ASSUME NEW d \in Client PROVE ReqOK(d)'
  <2>1. req'[d] = Touched(req[d])
    BY <1>2 DEF Act
  <2> QED
    BY <1>1, <1>3, <1>4, <2>1, Bystander DEF Inv
<1> QED
  BY <1>4, <1>5

LEMMA InitOK == Init => Inv
<1> SUFFICES ASSUME Init PROVE Inv
  OBVIOUS
<1>1. TypeInv /\ made \in Nat
  BY InitTyped DEF Init, Commit
<1>2. CkOK(NoFile, tree, made)
  BY <1>1, NoFileOK
<1>3. Saved
  BY <1>2 DEF Init, Saved
<1>4. ASSUME NEW c \in Client PROVE ReqOK(c)
  <2>1. req[c] = Idle
    BY DEF Init
  <2> QED
    BY <1>1, <1>2, <2>1 DEF ReqOK, Idle, Restoring, Guarded
<1> QED
  BY <1>1, <1>3, <1>4 DEF Inv

LEMMA StepOK == Inv /\ [Next]_vars => Inv'
<1> SUFFICES ASSUME Inv, [Next]_vars PROVE Inv'
  OBVIOUS
<1>1. TypeInv'
  BY TypeStep DEF Inv
<1>2. Saved' /\ \A d \in Client : ReqOK(d)'
  <2>1. ASSUME NEW c \in Client, Confirm(c) \/ Step(c) PROVE Saved' /\ \A d \in Client : ReqOK(d)'
    BY <2>1, CallKept, ReadHeadKept, TakeCheckpointKept, CheckHeadKept, ListStatusKept, ResetKept,
       PatchKept, HandlerKept DEF Step
  <2>2. CASE Crash
    <3>1. Frozen /\ Saved'
      BY <2>2, StillFrozen, SavedStays DEF Inv, TypeInv, Crash, repo
    <3>2. ASSUME NEW d \in Client PROVE ReqOK(d)'
      <4>1. req'[d] = Idle /\ made' \in Nat
        BY <2>2, <3>1 DEF Crash, Frozen
      <4> QED
        BY <4>1, IdleOK
    <3> QED
      BY <3>1, <3>2
  <2>3. CASE UNCHANGED vars
    BY <2>3 DEF Inv, Saved, ReqOK, vars, repo
  <2> QED
    BY <2>1, <2>2, <2>3, DeveloperKept DEF Next
<1> QED
  BY <1>1, <1>2 DEF Inv

LEMMA InvHolds == Spec => []Inv
BY InitOK, StepOK, PTL DEF Spec

----------------------------------------------------------------------------

\* However developer and tools interleave with an apply that answers ok, every file it
\* restored is what it was at the checkpoint, as AppliedRestores says.
THEOREM AppliesRestore == Spec => []AppliedRestores
<1>1. Inv => AppliedRestores
  BY DEF Inv, ReqOK, Restoring, AppliedRestores
<1> QED
  BY <1>1, InvHolds, PTL

\* Only three git commands write to the working tree for a request that moves.
LEMMA WritersAreFew ==
    ASSUME Inv, [Next]_vars, NEW c \in Client, NEW f \in File,
           req'[c].pc # req[c].pc, work'[f] # work[f]
    PROVE  Step(c) /\ (RunRestore(c) \/ Reset(c) \/ Patch(c))
<1>1. ASSUME NEW d \in Client, Step(d), d # c PROVE FALSE
  <2>1. \E r : Turn(d, r)
    BY <1>1 DEF Step, ReadHead, TakeCheckpoint, CheckHead, ListStatus, Reset, Patch, RunRestore,
                RunUnstage, RunAdd, RunCommit, Refused
  <2>2. req'[c] = Touched(req[c])
    BY <1>1, <2>1 DEF Turn
  <2> QED
    BY <2>2 DEF Touched
<1>2. CASE Step(c)
  BY <1>2 DEF Step, ReadHead, TakeCheckpoint, CheckHead, ListStatus, RunUnstage, RunAdd,
              RunCommit, Committed, Refused, repo
<1>3. CASE Developer
  <2>1. req'[c] = Touched(req[c])
    BY <1>3 DEF Developer, Stage, Edit, Commits, Switch, Act
  <2> QED
    BY <2>1 DEF Touched
<1>4. CASE Crash \/ UNCHANGED vars
  BY <1>4 DEF Crash, vars, repo
<1>5. ASSUME NEW d \in Client, Confirm(d) PROVE FALSE
  BY <1>5 DEF Confirm, Call, repo
<1> QED
  BY <1>1, <1>2, <1>3, <1>4, <1>5 DEF Next

\* What such a command overwrites can be restored, or is not saved.
KeptByStep(c, f) ==
    \/ \E base \in {tree[head][f], index'[f]} : Restorable(f, saved[req[c].id], base)
    \/ NotSaved(f, saved[req[c].id])

LEMMA GuardedIsKept ==
    ASSUME NEW c \in Client, NEW f \in File, Patches(saved[req[c].id], f, index[f], work[f]),
           index'[f] = index[f] \/ index'[f] = tree[head][f]
    PROVE  KeptByStep(c, f)
<1>1. CASE index'[f] = index[f]
  BY <1>1 DEF KeptByStep, Patches, Restorable, NotSaved, Mask
<1>2. CASE index'[f] = tree[head][f] /\ index'[f] # index[f]
  BY <1>2 DEF KeptByStep, NotSaved
<1> QED
  BY <1>1, <1>2

LEMMA StepKeepsWork ==
    ASSUME Inv, [Next]_vars, NEW c \in Client, NEW f \in File,
           req'[c].pc # req[c].pc, work'[f] # work[f], f \notin req[c].touched
    PROVE  KeptByStep(c, f)
<1>1. RunRestore(c) \/ Reset(c) \/ Patch(c)
  BY WritersAreFew
<1>2. Restoring(req[c], tree, head, work) /\ Guarded(req[c], index, work, saved)
  BY DEF Inv, ReqOK
<1>3. CASE RunRestore(c)
  <2>1. Patches(saved[req[c].id], f, index[f], work[f]) /\ index'[f] = index[f]
    BY <1>2, <1>3 DEF Guarded, RunRestore, Acting
  <2> QED
    BY <2>1, GuardedIsKept
<1>4. CASE Reset(c)
  <2>1. Patches(saved[req[c].id], f, index[f], work[f])
    BY <1>2, <1>4 DEF Guarded, Reset
  <2>2. index'[f] = index[f] \/ index'[f] = tree[head][f]
    BY <1>4 DEF Reset, Back
  <2> QED
    BY <2>1, <2>2, GuardedIsKept
<1>5. CASE Patch(c)
  <2>1. work[f] = tree[head][f]
    BY <1>2, <1>5 DEF Restoring, Patch
  <2> QED
    BY <2>1 DEF KeptByStep, Restorable
<1> QED
  BY <1>1, <1>3, <1>4, <1>5

\* However tools and developer interleave, a confirmed tool overwrites only work that
\* can be restored from HEAD or the index with its checkpoint, but for a file that
\* others changed after the checkpoint had read it, and for what NotSaved lists.
THEOREM OverwrittenIsKept == Spec => WorkIsKept
<1>1. Inv /\ [Next]_vars =>
          [\A c \in Client, f \in File :
              req'[c].pc # req[c].pc /\ work'[f] # work[f] /\ f \notin req[c].touched
              => \/ \E base \in {tree[head][f], index'[f]} : Restorable(f, saved[req[c].id], base)
                 \/ NotSaved(f, saved[req[c].id])]_vars
  BY StepKeepsWork DEF KeptByStep
<1> QED
  BY <1>1, InvHolds, PTL DEF Spec, WorkIsKept
=============================================================================
