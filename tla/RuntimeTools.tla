------------------------------ MODULE RuntimeTools ------------------------------
(***************************************************************************)
(* The edit, check and commit tools of one RuntimeToolService.  A caller is *)
(* a thread that makes one tool call after another (a model may ask for    *)
(* several calls in one turn); the callers share the Worktree, its Git     *)
(* index and the class-wide edit lock.                                     *)
(*                                                                         *)
(* A file's content is the number of the write it comes from, 0 before the *)
(* first: a hash is equal exactly when the number is.  Being absent is one *)
(* of those contents.  The calls of WorktreeGuard.verify_ownership and the *)
(* validation of arguments change nothing and may refuse any call.         *)
(* audit_events is only ever appended to, and nothing reads it.            *)
(***************************************************************************)
EXTENDS Naturals, Sequences

CONSTANTS
    Callers,
    Files,
    Assigned,     \* the files WorkerAssignment.assigned_paths matches
    CheckFiles,   \* the files the processes of approved checks write
    MaxVersions,  \* bound on the writes to the Worktree
    None

ASSUME RuntimeToolsAssumption ==
    /\ Assigned \subseteq Files
    /\ CheckFiles \subseteq Files
    /\ MaxVersions \in Nat
    /\ None \notin Callers

VARIABLES
    content,   \* what each file of the Worktree holds
    versions,  \* number of the last write
    ofChecks,  \* the writes made by processes of checks
    index,     \* the Git index
    commits,   \* the commits of the worker's branch, as trees
    lock,      \* RuntimeToolService._edit_lock
    pc,        \* where the call of each caller is
    patch,     \* the files a patch changes, and the contents it expects
    unread,    \* the files of the patch whose hash is still to be compared
    seen,      \* the contents at the status a commit was judged by
    running,   \* live processes of the check of each caller
    output,    \* those of them that hold its output pipes open
    strays     \* whether processes of checks that were answered live on

edits == <<content, versions, ofChecks>>
git   == <<index, commits>>
check == <<running, output, strays>>
vars  == <<edits, git, lock, pc, patch, unread, seen, check>>

Processes == {"command", "child"}
Contents  == [Files -> 0 .. MaxVersions]
Locked    == {"hashing", "hashed", "fits"}
NoFile    == [f \in Files |-> 0]
NoPatch   == [files |-> {}, expected |-> NoFile]

Goto(c, step) == pc' = [pc EXCEPT ![c] = step]

Init ==
    /\ content = NoFile
    /\ versions = 0
    /\ ofChecks = {}
    /\ index = NoFile
    /\ commits = <<NoFile>>
    /\ lock = None
    /\ pc = [c \in Callers |-> "idle"]
    /\ patch = [c \in Callers |-> NoPatch]
    /\ unread = [c \in Callers |-> {}]
    /\ seen = [c \in Callers |-> NoFile]
    /\ running = [c \in Callers |-> {}]
    /\ output = [c \in Callers |-> {}]
    /\ strays = FALSE

(***************************************************************************)
(* apply_file_patch                                                        *)
(***************************************************************************)

\* The caller has read the files it changes; the contents may move on
\* before the call gets the lock.
CallPatch(c) ==
    /\ pc[c] = "idle"
    /\ \E files \in (SUBSET Files) \ {{}} :
          /\ patch' = [patch EXCEPT ![c] = [files |-> files, expected |-> content]]
          /\ unread' = [unread EXCEPT ![c] = files]
    /\ Goto(c, "waiting")
    /\ UNCHANGED <<edits, git, lock, seen, check>>

\* Mutant of TakeLock: the edit runs without the lock.
EnterWithoutLock(c) ==
    /\ pc[c] = "waiting"
    /\ Goto(c, "hashing")
    /\ UNCHANGED <<edits, git, lock, patch, unread, seen, check>>

TakeLock(c) ==
    /\ pc[c] = "waiting"
    /\ lock = None
    /\ lock' = c
    /\ Goto(c, "hashing")
    /\ UNCHANGED <<edits, git, patch, unread, seen, check>>

\* The `with` block ends, by the end of the call or by an exception.
LeavePatch(c) ==
    /\ lock' = None
    /\ Goto(c, "idle")
    /\ patch' = [patch EXCEPT ![c] = NoPatch]
    /\ unread' = [unread EXCEPT ![c] = {}]
    /\ UNCHANGED <<git, seen, check>>

\* The file is in the assigned scope and has the expected hash.
HashMatches(c) ==
    /\ pc[c] = "hashing"
    /\ \E f \in unread[c] \cap Assigned :
          /\ content[f] = patch[c].expected[f]
          /\ unread' = [unread EXCEPT ![c] = @ \ {f}]
          /\ Goto(c, IF unread[c] = {f} THEN "hashed" ELSE "hashing")
    /\ UNCHANGED <<edits, git, lock, patch, seen, check>>

\* git apply --check
PatchFits(c) ==
    /\ pc[c] = "hashed"
    /\ Goto(c, "fits")
    /\ UNCHANGED <<edits, git, lock, patch, unread, seen, check>>

\* Any of the comparisons, or git apply --check, refuses the patch.
RefusePatch(c) ==
    /\ pc[c] \in {"hashing", "hashed"}
    /\ LeavePatch(c)
    /\ UNCHANGED edits

\* git apply.  One that fails (or is killed after ten seconds) may have
\* written some of the files.
ApplyPatch(c) ==
    /\ pc[c] = "fits"
    /\ versions < MaxVersions
    /\ \E written \in SUBSET patch[c].files :
          /\ content' = [f \in Files |-> IF f \in written THEN versions + 1 ELSE content[f]]
          /\ versions' = IF written = {} THEN versions ELSE versions + 1
    /\ LeavePatch(c)
    /\ UNCHANGED ofChecks

\* The bound on writes is used up: only the failure that writes nothing.
ApplyNothing(c) ==
    /\ pc[c] = "fits"
    /\ versions = MaxVersions
    /\ LeavePatch(c)
    /\ UNCHANGED edits

(***************************************************************************)
(* run_check.  The command leads a session of its own; a child of it may   *)
(* hold the pipes open after the command is gone, or close them.           *)
(***************************************************************************)
StartCheck(c) ==
    /\ pc[c] = "idle"
    /\ running' = [running EXCEPT ![c] = {"command"}]
    /\ output' = [output EXCEPT ![c] = {"command"}]
    /\ Goto(c, "collecting")
    /\ UNCHANGED <<edits, git, lock, patch, unread, seen, strays>>

Spawn(c) ==
    /\ "command" \in running[c]
    /\ running' = [running EXCEPT ![c] = Processes]
    /\ \E open \in {output[c], output[c] \cup {"child"}} :
          output' = [output EXCEPT ![c] = open]
    /\ UNCHANGED <<edits, git, lock, pc, patch, unread, seen, strays>>

ExitProcess(c) ==
    /\ \E p \in running[c] :
          /\ running' = [running EXCEPT ![c] = @ \ {p}]
          /\ output' = [output EXCEPT ![c] = @ \ {p}]
    /\ UNCHANGED <<edits, git, lock, pc, patch, unread, seen, strays>>

CloseOutput(c) ==
    /\ \E p \in output[c] : output' = [output EXCEPT ![c] = @ \ {p}]
    /\ UNCHANGED <<edits, git, lock, pc, patch, unread, seen, running, strays>>

StrayExits ==
    /\ strays
    /\ strays' = FALSE
    /\ UNCHANGED <<edits, git, lock, pc, patch, unread, seen, running, output>>

\* A process of a check writes a file: a formatter, a cache, a test's output.
CheckWrites ==
    /\ strays \/ \E c \in Callers : running[c] # {}
    /\ versions < MaxVersions
    /\ \E f \in CheckFiles : content' = [content EXCEPT ![f] = versions + 1]
    /\ versions' = versions + 1
    /\ ofChecks' = ofChecks \cup {versions + 1}
    /\ UNCHANGED <<git, lock, pc, patch, unread, seen, check>>

\* Both pipes are at their end.
OutputEnds(c) ==
    /\ pc[c] = "collecting"
    /\ output[c] = {}
    /\ Goto(c, "ending")
    /\ UNCHANGED <<edits, git, lock, patch, unread, seen, check>>

\* Mutant of Deadline: only a command that still runs is given up.
DeadlineOfCommand(c) ==
    /\ pc[c] = "collecting"
    /\ "command" \in running[c]
    /\ running' = [running EXCEPT ![c] = {}]
    /\ output' = [output EXCEPT ![c] = {}]
    /\ Goto(c, "ending")
    /\ UNCHANGED <<edits, git, lock, patch, unread, seen, strays>>

\* The deadline passes before the end of the output was read:
\* _terminate_process kills the group, unless the command is gone.
Deadline(c) ==
    /\ pc[c] = "collecting"
    /\ IF "command" \in running[c]
       THEN /\ running' = [running EXCEPT ![c] = {}]
            /\ output' = [output EXCEPT ![c] = {}]
       ELSE UNCHANGED <<running, output>>
    /\ Goto(c, "ending")
    /\ UNCHANGED <<edits, git, lock, patch, unread, seen, strays>>

\* process.wait(timeout=5) returns, or raises while the command still runs;
\* what is left of the group stays behind either way.
EndCheck(c) ==
    /\ pc[c] = "ending"
    /\ strays' = (strays \/ running[c] # {})
    /\ running' = [running EXCEPT ![c] = {}]
    /\ output' = [output EXCEPT ![c] = {}]
    /\ Goto(c, "idle")
    /\ UNCHANGED <<edits, git, lock, patch, unread, seen>>

(***************************************************************************)
(* git_commit                                                              *)
(***************************************************************************)
HeadTree == commits[Len(commits)]

\* git status: files whose index or content differs from HEAD
Changed == {f \in Files : content[f] # HeadTree[f] \/ index[f] # HeadTree[f]}

\* Mutant of Judge: the scope of the changed files is not looked at.
JudgeAnyScope(c) ==
    /\ pc[c] = "idle"
    /\ Changed # {}
    /\ seen' = [seen EXCEPT ![c] = content]
    /\ Goto(c, "judged")
    /\ UNCHANGED <<edits, git, lock, patch, unread, check>>

\* The status finds changes, all of them in the assigned scope.  Without
\* changes, or with one outside the scope, the call ends here.
Judge(c) ==
    /\ pc[c] = "idle"
    /\ Changed # {}
    /\ Changed \subseteq Assigned
    /\ seen' = [seen EXCEPT ![c] = content]
    /\ Goto(c, "judged")
    /\ UNCHANGED <<edits, git, lock, patch, unread, check>>

\* git add --all
AddAll(c) ==
    /\ pc[c] = "judged"
    /\ index' = content
    /\ Goto(c, "added")
    /\ UNCHANGED <<edits, commits, lock, patch, unread, seen, check>>

\* Mutant of Commit: an empty commit is allowed.
CommitEmpty(c) ==
    /\ pc[c] = "added"
    /\ commits' = Append(commits, index)
    /\ Goto(c, "committed")
    /\ UNCHANGED <<edits, index, lock, patch, unread, seen, check>>

\* Mutant of Commit: its exit code is not looked at.
CommitUnchecked(c) ==
    /\ pc[c] = "added"
    /\ commits' \in {commits, Append(commits, index)}
    /\ Goto(c, "committed")
    /\ UNCHANGED <<edits, index, lock, patch, unread, seen, check>>

\* git commit, which refuses an index equal to HEAD
Commit(c) ==
    /\ pc[c] = "added"
    /\ index # HeadTree
    /\ commits' = Append(commits, index)
    /\ Goto(c, "committed")
    /\ UNCHANGED <<edits, index, lock, patch, unread, seen, check>>

LeaveCommit(c) ==
    /\ seen' = [seen EXCEPT ![c] = NoFile]
    /\ Goto(c, "idle")
    /\ UNCHANGED <<edits, git, lock, patch, unread, check>>

\* git rev-parse HEAD: the commit that is HEAD now is the answer.
Report(c) ==
    /\ pc[c] = "committed"
    /\ LeaveCommit(c)

\* A Git command fails or takes longer than ten seconds.
CommitFails(c) ==
    /\ pc[c] \in {"judged", "added"}
    /\ LeaveCommit(c)

-----------------------------------------------------------------------------

Call(c) == CallPatch(c) \/ StartCheck(c) \/ Judge(c)

Step(c) ==
    \/ TakeLock(c) \/ HashMatches(c) \/ PatchFits(c) \/ RefusePatch(c)
    \/ ApplyPatch(c) \/ ApplyNothing(c)
    \/ OutputEnds(c) \/ Deadline(c) \/ EndCheck(c)
    \/ AddAll(c) \/ Commit(c) \/ Report(c) \/ CommitFails(c)

CheckProcess(c) == Spawn(c) \/ ExitProcess(c) \/ CloseOutput(c)

Next ==
    \/ \E c \in Callers : Call(c) \/ Step(c) \/ CheckProcess(c)
    \/ CheckWrites
    \/ StrayExits

\* A thread that can go on does; the deadline passes.  Nothing is assumed of
\* the processes of a check, nor of who gets the lock next.
Fairness == \A c \in Callers : WF_vars(Step(c))

Spec     == Init /\ [][Next]_vars
FairSpec == Spec /\ Fairness

-----------------------------------------------------------------------------

Typed ==
    /\ content \in Contents
    /\ versions \in 0 .. MaxVersions
    /\ ofChecks \subseteq 1 .. versions
    /\ index \in Contents
    /\ commits \in Seq(Contents) \ {<<>>}
    /\ lock \in Callers \cup {None}
    /\ pc \in [Callers -> {"idle", "waiting", "collecting", "ending",
                           "judged", "added", "committed"} \cup Locked]
    /\ patch \in [Callers -> [files : SUBSET Files, expected : Contents]]
    /\ unread \in [Callers -> SUBSET Files]
    /\ seen \in [Callers -> Contents]
    /\ running \in [Callers -> SUBSET Processes]
    /\ output \in [Callers -> SUBSET Processes]
    /\ strays \in BOOLEAN

\* The types of the variables; and, as git refuses an empty commit, no more
\* commits than writes.
TypeOK == Typed /\ Len(commits) <= versions + 1

\* No edit is lost between the comparison of the hashes and git apply: what a
\* patch overwrites is what its caller expected there, or what a process of a
\* check wrote meanwhile; never another caller's patch.
NoLostEdit ==
    [][\A f \in Files :
         content'[f] # content[f] /\ versions' \notin ofChecks' =>
           \E c \in Callers :
              /\ pc[c] = "fits" /\ pc'[c] = "idle"
              /\ f \in patch[c].files \cap Assigned
              /\ content[f] = patch[c].expected[f] \/ content[f] \in ofChecks]_vars

Atomic == INSTANCE AtomicEdits

\* Hashing file by file and writing later is one atomic step to the tool calls
\* of all threads: when git apply runs, every file of the patch, and not only
\* those it goes on to change, is as its caller read it.
ImplementsAtomicEdits == Atomic!Spec

\* A file outside the assignment enters a commit only if it was changed after
\* the status by which that commit was judged: whatever the status shows is
\* refused, also when an earlier call that failed has left it in the index.
ScopeJudged ==
    [][\A f \in Files \ Assigned :
         LET tree == commits'[Len(commits')] IN
           tree[f] # HeadTree[f] =>
              \E c \in Callers : pc[c] = "added" /\ pc'[c] = "committed"
                                 /\ tree[f] > seen[c][f]]_vars

\* The commit git_commit answers with, HEAD when it asks for it, holds
\* everything the status saw, or something newer, even when other calls stage
\* and commit in between.
ReportedCommitHasChanges ==
    \A c \in Callers :
       pc[c] = "committed" => \A f \in Files : HeadTree[f] >= seen[c][f]

\* A call that got the lock, started a check or passed the status comes to an
\* end, whatever the processes of checks do, and the lock is given back.
CallsReturn ==
    /\ \A c \in Callers : pc[c] \notin {"idle", "waiting"} ~> pc[c] = "idle"
    /\ lock # None ~> lock = None

=============================================================================
