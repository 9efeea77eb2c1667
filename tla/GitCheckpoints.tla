--------------------------- MODULE GitCheckpoints ---------------------------
(***************************************************************************)
(* The confirmed git tools of the chat and the checkpoints taken before     *)
(* them.  A confirmed tool that needs approval first runs the hook of       *)
(* createChatToolExecutor(), createGitCheckpoint(), and then its handler;   *)
(* git_checkpoint is that function itself.  git_checkpoint_apply restores a *)
(* checkpoint: HEAD check, status, `git restore`, `git apply`.  Each git    *)
(* command is a subprocess that is awaited, so that other requests and the  *)
(* developer, who works in the same repository, may act between any two.    *)
(*                                                                          *)
(* A file is its content.  A checkpoint keeps `git diff`: the changes of    *)
(* tracked files since they were staged, as runCommand() returns them, with *)
(* secrets masked.  A file with a secret shows it in every hunk.            *)
(***************************************************************************)
EXTENDS Integers, FiniteSets

CONSTANTS
    File,
    Content,        \* what a file may contain
    Absent,         \* no such file
    Secrets,        \* contents that redact() changes
    Redacted,       \* what it makes of them
    Client,         \* confirmed tools that may run at once
    MaxCommits,     \* bound on the commits of the repository
    MaxStamp,       \* bound on the clock, in the milliseconds of checkpoint ids
    MaxCalls,       \* bound on the calls
    MaxEdits        \* bound on what the developer does

ASSUME ContentAssumption == Secrets \subseteq Content /\ Redacted \in Content \ Secrets
ASSUME AbsentAssumption == Absent \notin Content
ASSUME BoundAssumption == MaxCommits \in Nat \ {0} /\ MaxStamp \in Nat \ {0}
ASSUME BudgetAssumption == MaxCalls \in Nat /\ MaxEdits \in Nat

Value  == Content \cup {Absent}
Tree   == [File -> Value]
Commit == 1..MaxCommits
Stamp  == 1..MaxStamp

VARIABLES
    tree,       \* the tree of each commit
    made,       \* the number of commits made
    head,       \* HEAD
    index,      \* the staging area
    work,       \* the working tree
    saved,      \* checkpoints/<id>.json
    now,        \* the clock
    req,        \* the confirmed tools: where each stands, and what it has read
    spent       \* calls and edits so far

repo == <<tree, made, head, index, work>>
vars == <<repo, saved, now, req, spent>>

\* A checkpoint: HEAD, or 0 if it could not be read, and the diff.  `read`, `plain`
\* and `was` are history: was the diff read, which files does it vouch for (tracked,
\* and as in HEAD in the index), and what were these in the working tree.
Checkpoint ==
    [head : Commit \cup {0}, files : SUBSET File, from : Tree, to : Tree,
     read : BOOLEAN, was : Tree, plain : SUBSET File]

NoTree  == [f \in File |-> Absent]
NoFile  == [head |-> 0, files |-> {}, from |-> NoTree, to |-> NoTree,
            read |-> FALSE, was |-> NoTree, plain |-> {}]

Tools == {"checkpoint", "apply", "restore", "unstage", "add", "commit"}

\* `touched` is history: the files that others have changed since the checkpoint
\* before the tool was taken.
Request ==
    [pc : {"idle", "head", "diff", "acting", "checking", "listing", "resetting",
           "patching", "applied"},
     tool : Tools, file : File \cup {Absent}, target : Stamp \cup {0}, id : Stamp, head : Commit \cup {0},
     ck : Checkpoint, plan : SUBSET File, touched : SUBSET File]

Idle == [pc |-> "idle", tool |-> "checkpoint", file |-> Absent, target |-> 0, id |-> 1,
         head |-> 0, ck |-> NoFile, plan |-> {}, touched |-> {}]

TypeOK ==
    /\ tree \in [Commit -> Tree] /\ made \in Commit /\ head \in 1..made
    /\ index \in Tree /\ work \in Tree
    /\ saved \in [Stamp -> Checkpoint] /\ now \in Stamp
    /\ req \in [Client -> Request]
    /\ spent \in [calls : 0..MaxCalls, edits : 0..MaxEdits]

\* A developer's repository: nothing staged, files may be modified or untracked.
Init ==
    /\ tree \in [Commit -> Tree]
    /\ made \in Commit /\ head = made
    /\ \A n \in Commit : n > made => tree[n] = tree[made]
    /\ index = tree[head] /\ work \in Tree
    /\ saved = [s \in Stamp |-> NoFile] /\ now = 1
    /\ req = [c \in Client |-> Idle]
    /\ spent = [calls |-> 0, edits |-> 0]

----------------------------------------------------------------------------
(* What git says of the repository                                          *)

Mask(x) == IF x \in Secrets THEN Redacted ELSE x

\* Mutant of Changed: `git diff --cached`.
ChangedStaged == {f \in File : index[f] # Absent /\ index[f] # tree[head][f]}

\* git diff: tracked files that are not as staged.
Changed == {f \in File : index[f] # Absent /\ work[f] # index[f]}

\* git status pairs a file staged as deleted with an equal one staged as new, and
\* pathsFromPorcelainStatus() keeps the name behind the arrow.
RenamedAway(f) ==
    /\ index[f] = Absent
    /\ \E g \in File : tree[head][g] = Absent /\ index[g] = tree[head][f]

Listed == {f \in File : (index[f] # tree[head][f] \/ f \in Changed) /\ ~RenamedAway(f)}

Plain(h) == {f \in File : index[f] # Absent /\ index[f] = tree[h][f]}

----------------------------------------------------------------------------
(* Requests                                                                 *)

\* What a step changes in the repository touches the files of the other requests.
Disturbed == {f \in File : \/ work'[f] # work[f] \/ index'[f] # index[f]
                           \/ tree'[head'][f] # tree[head][f]}

Touched(r) ==
    IF r.pc = "idle" THEN r
    ELSE [pc |-> r.pc, tool |-> r.tool, file |-> r.file, target |-> r.target, id |-> r.id,
          head |-> r.head, ck |-> r.ck, plan |-> r.plan,
          touched |-> r.touched \cup Disturbed]

\* The request of c becomes r; Idle, when the tool has answered.
Turn(c, r) == req' = [d \in Client |-> IF d = c THEN r ELSE Touched(req[d])]

Planned(r, pc, plan) ==
    [pc |-> pc, tool |-> r.tool, file |-> r.file, target |-> r.target, id |-> r.id,
     head |-> 0, ck |-> r.ck, plan |-> plan, touched |-> r.touched]

\* confirm-action or a typed "yes" for a tool and its argument; the id is the time in
\* milliseconds.
Call(c, tool, f, s, t) ==
    /\ req[c].pc \in {"idle", "applied"}
    /\ spent.calls < MaxCalls
    /\ spent' = [calls |-> spent.calls + 1, edits |-> spent.edits]
    /\ t \in Stamp /\ now <= t /\ t <= now + 1
    /\ now' = t
    /\ UNCHANGED <<repo, saved>>
    /\ Turn(c, [pc |-> "head", tool |-> tool, file |-> f, target |-> s, id |-> t, head |-> 0,
                ck |-> NoFile, plan |-> {}, touched |-> {}])

\* git rev-parse HEAD; a failure counts as "".
WithHead(r, h) ==
    [pc |-> "diff", tool |-> r.tool, file |-> r.file, target |-> r.target, id |-> r.id, head |-> h,
     ck |-> r.ck, plan |-> {}, touched |-> r.touched]

ReadHead(c) ==
    /\ req[c].pc = "head"
    /\ UNCHANGED <<repo, saved, now, spent>>
    /\ \E h \in {head, 0} : Turn(c, WithHead(req[c], h))

\* git diff --binary; a failure counts as no change.
Snapshot(h, read) ==
    LET files == IF read THEN Changed ELSE {}
        plain == IF read /\ h # 0 THEN Plain(h) ELSE {}
    IN [head |-> h, files |-> files,
        from |-> [f \in File |-> IF f \in files THEN Mask(index[f]) ELSE Absent],
        to |-> [f \in File |-> IF f \in files THEN Mask(work[f]) ELSE Absent],
        read |-> read, plain |-> plain,
        was |-> [f \in File |-> IF f \in plain THEN work[f] ELSE Absent]]

\* The handler after the hook.  git_checkpoint has none, git_checkpoint_apply reads
\* its checkpoint, without which, or without HEAD and diff in it, it fails.
Begin(r, ck) ==
    IF r.tool = "checkpoint" \/ (r.tool = "apply" /\ ck = NoFile) THEN Idle
    ELSE [pc |-> IF r.tool = "apply" THEN "checking" ELSE "acting",
          tool |-> r.tool, file |-> r.file, target |-> r.target, id |-> r.id, head |-> 0,
          ck |-> ck, plan |-> {}, touched |-> {}]

\* The checkpoint is written in the step that has its diff; a failed write leaves
\* the file as it was or unreadable, and the tool does not run.
TakeCheckpoint(c) ==
    LET r == req[c]
    IN /\ r.pc = "diff"
       /\ UNCHANGED <<repo, now, spent>>
       /\ \/ \E read \in BOOLEAN :
                /\ saved' = [saved EXCEPT ![r.id] = Snapshot(r.head, read)]
                /\ Turn(c, Begin(r, IF r.tool = "apply" THEN saved'[r.target] ELSE NoFile))
          \/ /\ saved' \in {saved, [saved EXCEPT ![r.id] = NoFile]}
             /\ Turn(c, Idle)

----------------------------------------------------------------------------
(* git_checkpoint_apply                                                     *)

\* Mutant of SameHead: any HEAD will do.
AnyHead(ck) == ck.head # 0

SameHead(ck) == ck.head # 0 /\ head = ck.head

\* A HEAD that cannot be read is a mismatch too.
CheckHead(c) ==
    LET ck == req[c].ck
    IN /\ req[c].pc = "checking"
       /\ UNCHANGED <<repo, saved, now, spent>>
       /\ \/ /\ SameHead(ck)
             /\ Turn(c, Planned(req[c], IF ck.files = {} THEN "listing" ELSE "resetting", ck.files))
          \/ Turn(c, Idle)

\* git status, for a checkpoint without changes; a failure counts as nothing to do.
ListStatus(c) ==
    /\ req[c].pc = "listing"
    /\ UNCHANGED <<repo, saved, now, spent>>
    /\ \E plan \in {Listed, {}} :
           Turn(c, Planned(req[c], IF plan = {} THEN "applied" ELSE "resetting", plan))

\* git restore --staged --worktree: every path is known to the index or to HEAD.
\* One that fails may have written some of the files.
Known(f) == index[f] # Absent \/ tree[head][f] # Absent

Back(files, t) == [f \in File |-> IF f \in files THEN tree[head][f] ELSE t[f]]

Reset(c) ==
    LET r == req[c]
    IN /\ r.pc = "resetting"
       /\ UNCHANGED <<tree, made, head, saved, now, spent>>
       /\ \/ /\ \A f \in r.plan : Known(f)
             /\ work' = Back(r.plan, work) /\ index' = Back(r.plan, index)
             /\ Turn(c, Planned(r, IF r.ck.files = {} THEN "applied" ELSE "patching", r.plan))
          \/ /\ \E files \in SUBSET r.plan : work' = Back(files, work)
             /\ UNCHANGED index
             /\ Turn(c, Idle)

\* git apply: all files or none.  A file that is what the patch was made from
\* becomes what it was made to; on another one the hunks may still fit.
Patched(f, ck) ==
    IF work[f] = ck.from[f] THEN work'[f] = ck.to[f]
                            ELSE Absent \notin {work[f], ck.to[f], work'[f]}

Patch(c) ==
    LET ck == req[c].ck
    IN /\ req[c].pc = "patching"
       /\ UNCHANGED <<tree, made, head, index, saved, now, spent>>
       /\ \/ /\ work' \in Tree
             /\ \A f \in File : IF f \in ck.files THEN Patched(f, ck) ELSE work'[f] = work[f]
             /\ Turn(c, Planned(req[c], "applied", req[c].plan))
          \/ UNCHANGED work /\ Turn(c, Idle)

----------------------------------------------------------------------------
(* The other tools that write to the index or the working tree              *)

Acting(c, tool) == req[c].pc = "acting" /\ req[c].tool = tool

\* git restore, from the index
RunRestore(c) ==
    LET f == req[c].file
    IN /\ Acting(c, "restore") /\ index[f] # Absent
       /\ work' = [work EXCEPT ![f] = index[f]]
       /\ UNCHANGED <<tree, made, head, index, saved, now, spent>>
       /\ Turn(c, Idle)

\* git restore --staged
RunUnstage(c) ==
    LET f == req[c].file
    IN /\ Acting(c, "unstage") /\ Known(f)
       /\ index' = [index EXCEPT ![f] = tree[head][f]]
       /\ UNCHANGED <<tree, made, head, work, saved, now, spent>>
       /\ Turn(c, Idle)

RunAdd(c) ==
    LET f == req[c].file
    IN /\ Acting(c, "add") /\ (index[f] # Absent \/ work[f] # Absent)
       /\ index' = [index EXCEPT ![f] = work[f]]
       /\ UNCHANGED <<tree, made, head, work, saved, now, spent>>
       /\ Turn(c, Idle)

\* Mutant of Committed: HEAD moves to a commit that is not there.
CommittedTwice ==
    /\ made < MaxCommits
    /\ made' = made /\ head' = made + 1
    /\ tree' = [tree EXCEPT ![made + 1] = index]
    /\ UNCHANGED <<index, work>>

Committed ==
    /\ made < MaxCommits
    /\ made' = made + 1 /\ head' = made + 1
    /\ tree' = [tree EXCEPT ![made + 1] = index]
    /\ UNCHANGED <<index, work>>

RunCommit(c) ==
    /\ Acting(c, "commit")
    /\ Committed
    /\ UNCHANGED <<saved, now, spent>>
    /\ Turn(c, Idle)

\* git refuses: an unknown path, nothing to commit, a locked index.
Refused(c) ==
    /\ req[c].pc = "acting"
    /\ UNCHANGED <<repo, saved, now, spent>>
    /\ Turn(c, Idle)

----------------------------------------------------------------------------
(* The developer                                                            *)

Act ==
    /\ spent.edits < MaxEdits
    /\ spent' = [calls |-> spent.calls, edits |-> spent.edits + 1]
    /\ req' = [c \in Client |-> Touched(req[c])]
    /\ UNCHANGED <<saved, now>>

Edit(f, x) ==
    /\ work' = [work EXCEPT ![f] = x]
    /\ UNCHANGED <<tree, made, head, index>> /\ Act

Stage(f) ==
    /\ index' = [index EXCEPT ![f] = work[f]]
    /\ UNCHANGED <<tree, made, head, work>> /\ Act

Commits == Committed /\ Act

\* git switch, which refuses to overwrite a change.
Switch(n) ==
    LET moved == {f \in File : tree[n][f] # tree[head][f]}
    IN /\ n <= made
       /\ \A f \in moved : index[f] = tree[head][f] /\ work[f] = index[f]
       /\ head' = n
       /\ index' = [f \in File |-> IF f \in moved THEN tree[n][f] ELSE index[f]]
       /\ work' = [f \in File |-> IF f \in moved THEN tree[n][f] ELSE work[f]]
       /\ UNCHANGED <<tree, made>> /\ Act

\* The daemon dies with its requests.
Crash ==
    /\ req' = [c \in Client |-> Idle]
    /\ UNCHANGED <<repo, saved, now, spent>>

----------------------------------------------------------------------------
Step(c) ==
    \/ ReadHead(c) \/ TakeCheckpoint(c)
    \/ CheckHead(c) \/ ListStatus(c) \/ Reset(c) \/ Patch(c)
    \/ RunRestore(c) \/ RunUnstage(c) \/ RunAdd(c) \/ RunCommit(c) \/ Refused(c)

Confirm(c) ==
    \E t \in Stamp :
        \/ \E tool \in {"checkpoint", "commit"} : Call(c, tool, Absent, 0, t)
        \/ \E tool \in {"restore", "unstage", "add"}, f \in File : Call(c, tool, f, 0, t)
        \/ \E s \in Stamp : Call(c, "apply", Absent, s, t)

Developer ==
    \/ \E f \in File : Stage(f) \/ \E x \in Value : Edit(f, x)
    \/ Commits
    \/ \E n \in Commit : Switch(n)

Next == (\E c \in Client : Confirm(c) \/ Step(c)) \/ Developer \/ Crash

Spec == Init /\ [][Next]_vars

----------------------------------------------------------------------------
(* Properties                                                               *)

Masked(ck, f) == f \in ck.files /\ Redacted \in {ck.from[f], ck.to[f]}

\* A git_checkpoint_apply that answers ok has brought every file it set out to
\* restore back to what it was at the checkpoint, if the checkpoint vouches for the
\* file and nobody touched it meanwhile; a secret is the price of the masking.
AppliedRestores ==
    \A c \in Client : req[c].pc = "applied" =>
        \A f \in (req[c].plan \cap req[c].ck.plain) \ req[c].touched :
            work[f] = req[c].ck.was[f] \/ Masked(req[c].ck, f)

\* The file is what it is in base, or the patch of the checkpoint makes it from that.
Restorable(f, ck, base) ==
    work[f] = base \/ (f \in ck.files /\ ck.from[f] = base /\ ck.to[f] = work[f])

\* What a checkpoint does not keep: everything, if the diff could not be read; files
\* that are not tracked; staged changes, which a reset of the index throws away; and
\* a file with a secret, of which there is only the masked text.
NotSaved(f, ck) ==
    \/ ~ck.read
    \/ index[f] = Absent
    \/ index[f] # tree[head][f] /\ index'[f] # index[f]
    \/ Secrets \cap {index[f], work[f]} # {}

\* What a confirmed tool overwrites or deletes in the working tree can be restored
\* from HEAD, or from what is left in the index, with the patch of the checkpoint
\* that was taken before the tool.  It is lost in the cases of NotSaved, none of which
\* stops the tool, and when somebody else changed the file, in the working tree, the
\* index or HEAD, after the checkpoint had read it.
WorkIsKept ==
    [][\A c \in Client, f \in File :
          req'[c].pc # req[c].pc /\ work'[f] # work[f] /\ f \notin req[c].touched
          => \/ \E base \in {tree[head][f], index'[f]} : Restorable(f, saved[req[c].id], base)
             \/ NotSaved(f, saved[req[c].id])]_vars
=============================================================================
