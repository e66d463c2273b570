--------------------------- MODULE RuntimeToolsProofs ---------------------------
(***************************************************************************)
(* Proofs about RuntimeTools, for any number of callers, files and writes. *)
(***************************************************************************)
EXTENDS RuntimeTools, TLAPS

-----------------------------------------------------------------------------
(* Types *)

\* The initial contents and the patch of no file are well-formed.
LEMMA NoPatchTyped ==
    /\ NoFile \in Contents
    /\ NoPatch \in [files : SUBSET Files, expected : Contents]
BY RuntimeToolsAssumption DEF NoFile, NoPatch, Contents

\* Every variable has its type: in particular HEAD is always a tree.
LEMMA TypedInductive ==
    ASSUME Typed, [Next]_vars
    PROVE  Typed'
<1> USE RuntimeToolsAssumption
<1>1. CASE UNCHANGED vars
  BY <1>1 DEF Typed, vars, edits, git, check
<1>2. CASE CheckWrites
  BY <1>2 DEF CheckWrites, Typed, Contents, git, check
<1>3. CASE StrayExits
  BY <1>3 DEF StrayExits, Typed, edits, git
<1>4. ASSUME NEW c \in Callers, Call(c)
      PROVE  Typed'
  <2>1. CASE CallPatch(c)
    BY <2>1 DEF CallPatch, Goto, Typed, edits, git, check
  <2>2. CASE StartCheck(c)
    BY <2>2 DEF StartCheck, Goto, Typed, edits, git, Processes
  <2>3. CASE Judge(c)
    BY <2>3 DEF Judge, Goto, Typed, edits, git, check
  <2> QED BY <1>4, <2>1, <2>2, <2>3 DEF Call
<1>5. ASSUME NEW c \in Callers, CheckProcess(c)
      PROVE  Typed'
  <2>1. CASE Spawn(c)
    <3>1. PICK open \in {output[c], output[c] \cup {"child"}} :
             output' = [output EXCEPT ![c] = open]
      BY <2>1 DEF Spawn
    <3>2. open \subseteq Processes
      BY DEF Typed, Processes
    <3>3. output' \in [Callers -> SUBSET Processes]
      BY <3>1, <3>2 DEF Typed
    <3> QED
      BY <2>1, <3>3 DEF Spawn, Typed, edits, git
  <2>2. CASE ExitProcess(c)
    BY <2>2 DEF ExitProcess, Typed, edits, git
  <2>3. CASE CloseOutput(c)
    BY <2>3 DEF CloseOutput, Typed, edits, git
  <2> QED BY <1>5, <2>1, <2>2, <2>3 DEF CheckProcess
<1>6. ASSUME NEW c \in Callers, Step(c)
      PROVE  Typed'
  <2>1. CASE TakeLock(c)
    BY <2>1 DEF TakeLock, Goto, Typed, Locked, edits, git, check
  <2>2. CASE HashMatches(c)
    BY <2>2 DEF HashMatches, Goto, Typed, Locked, edits, git, check
  <2>3. CASE PatchFits(c)
    BY <2>3 DEF PatchFits, Goto, Typed, Locked, edits, git, check
  <2>4. CASE RefusePatch(c)
    BY <2>4, NoPatchTyped DEF RefusePatch, LeavePatch, Goto, Typed, edits, git, check
  <2>5. CASE ApplyPatch(c)
    <3>1. PICK written \in SUBSET patch[c].files :
             /\ content' = [f \in Files |-> IF f \in written THEN versions + 1 ELSE content[f]]
             /\ versions' = IF written = {} THEN versions ELSE versions + 1
      BY <2>5 DEF ApplyPatch
    <3>2. content' \in Contents /\ versions' \in 0 .. MaxVersions /\ versions <= versions'
      BY <2>5, <3>1 DEF ApplyPatch, Typed, Contents
    <3>3. ofChecks' \subseteq 1 .. versions'
      BY <2>5, <3>2 DEF ApplyPatch, Typed
    <3> QED
      BY <2>5, <3>2, <3>3, NoPatchTyped DEF ApplyPatch, LeavePatch, Goto, Typed, git, check
  <2>6. CASE ApplyNothing(c)
    BY <2>6, NoPatchTyped DEF ApplyNothing, LeavePatch, Goto, Typed, edits, git, check
  <2>7. CASE OutputEnds(c)
    BY <2>7 DEF OutputEnds, Goto, Typed, edits, git, check
  <2>8. CASE Deadline(c)
    BY <2>8 DEF Deadline, Goto, Typed, edits, git
  <2>9. CASE EndCheck(c)
    BY <2>9 DEF EndCheck, Goto, Typed, edits, git
  <2>10. CASE AddAll(c)
    BY <2>10 DEF AddAll, Goto, Typed, edits, check
  <2>11. CASE Commit(c)
    BY <2>11 DEF Commit, Goto, Typed, edits, check
  <2>12. CASE Report(c) \/ CommitFails(c)
    <3>1. LeaveCommit(c)
      BY <2>12 DEF Report, CommitFails
    <3>2. seen' \in [Callers -> Contents]
      BY <3>1, NoPatchTyped DEF LeaveCommit, Typed
    <3> QED
      BY <3>1, <3>2 DEF LeaveCommit, Goto, Typed, edits, git, check
  <2> QED
    BY <1>6, <2>1, <2>2, <2>3, <2>4, <2>5, <2>6, <2>7, <2>8, <2>9, <2>10, <2>11, <2>12 DEF Step
<1> QED
  BY <1>1, <1>2, <1>3, <1>4, <1>5, <1>6 DEF Next

LEMMA TypedInitially ==
    ASSUME Init
    PROVE  Typed
<1>1. commits \in Seq(Contents) \ {<<>>}
  BY NoPatchTyped DEF Init
<1>2. versions \in 0 .. MaxVersions /\ ofChecks \subseteq 1 .. versions
  BY RuntimeToolsAssumption DEF Init
<1> QED
  BY <1>1, <1>2, NoPatchTyped DEF Init, Typed

\* The variables of the tool server have their types in every reachable state.
THEOREM TypesCorrect == Spec => []Typed
BY TypedInitially, TypedInductive, PTL DEF Spec

-----------------------------------------------------------------------------
(* The edit lock and the hashes *)

\* What the loop over the files of a patch has established so far.  A caller
\* between the comparison and git apply holds the lock; the files it has
\* compared are in scope, and hold what it expects or what a check wrote
\* since.
Expected(c, f) ==
    /\ f \in Assigned
    /\ content[f] = patch[c].expected[f] \/ content[f] \in ofChecks

PatchInv ==
    \A c \in Callers :
       /\ pc[c] \in Locked => lock = c
       /\ pc[c] = "waiting" => unread[c] = patch[c].files
       /\ pc[c] \in {"hashed", "fits"} => unread[c] = {}
       /\ pc[c] \in Locked => \A f \in patch[c].files \ unread[c] : Expected(c, f)

\* The steps that touch neither a patch nor the files.
LEMMA OtherStepsKeepPatches ==
    ASSUME Typed, PatchInv, NEW c \in Callers,
           NEW step \in {"idle", "collecting", "ending", "judged", "added", "committed"},
           Goto(c, step), pc[c] \notin Locked,
           UNCHANGED <<content, ofChecks, lock, patch, unread>>
    PROVE  PatchInv'
BY DEF Typed, PatchInv, Goto, Locked, Expected

\* Whoever ends a patch call gives the lock back; no one else can be past it.
LEMMA LeavePatchKeepsPatches ==
    ASSUME Typed, PatchInv, NEW c \in Callers, pc[c] \in Locked, LeavePatch(c)
    PROVE  PatchInv'
<1>1. lock = c /\ \A d \in Callers \ {c} : pc[d] \notin Locked
  BY DEF PatchInv
<1>2. pc' = [pc EXCEPT ![c] = "idle"] /\ \A d \in Callers \ {c} : pc'[d] = pc[d]
  BY DEF LeavePatch, Goto, Typed
<1>3. \A d \in Callers : pc'[d] \notin Locked
  BY <1>1, <1>2 DEF Typed, Locked
<1>4. \A d \in Callers \ {c} : unread'[d] = unread[d] /\ patch'[d] = patch[d]
  BY DEF LeavePatch, Typed
<1>5. pc'[c] = "idle"
  BY <1>2 DEF Typed
<1> QED
  BY <1>2, <1>3, <1>4, <1>5 DEF PatchInv, Locked

LEMMA PatchInvInductive ==
    ASSUME Typed, PatchInv, [Next]_vars
    PROVE  PatchInv'
<1>1. CASE UNCHANGED vars
  BY <1>1 DEF PatchInv, Expected, vars, edits
<1>2. CASE CheckWrites
  <2>1. PICK g \in CheckFiles : content' = [content EXCEPT ![g] = versions + 1]
    BY <1>2 DEF CheckWrites
  <2>2. \A f \in Files : content'[f] = content[f] \/ content'[f] \in ofChecks'
    BY <1>2, <2>1 DEF CheckWrites, Typed, Contents
  <2>3. ofChecks \subseteq ofChecks' /\ UNCHANGED <<pc, lock, patch, unread>>
    BY <1>2 DEF CheckWrites
  <2>4. \A c \in Callers : patch[c].files \subseteq Files
    BY DEF Typed
  <2> QED
    BY <2>2, <2>3, <2>4 DEF PatchInv, Expected
<1>3. CASE StrayExits
  BY <1>3 DEF StrayExits, PatchInv, Expected, edits
<1>4. ASSUME NEW c \in Callers, Call(c)
      PROVE  PatchInv'
  <2>1. CASE CallPatch(c)
    BY <2>1 DEF CallPatch, Goto, Typed, PatchInv, Expected, Locked, edits
  <2>2. CASE StartCheck(c) \/ Judge(c)
    BY <2>2, OtherStepsKeepPatches DEF StartCheck, Judge, Locked, edits
  <2> QED BY <1>4, <2>1, <2>2 DEF Call
<1>5. ASSUME NEW c \in Callers, CheckProcess(c)
      PROVE  PatchInv'
  BY <1>5 DEF CheckProcess, Spawn, ExitProcess, CloseOutput, PatchInv, Expected, edits
<1>6. ASSUME NEW c \in Callers, Step(c)
      PROVE  PatchInv'
  <2>1. CASE TakeLock(c)
    <3>1. \A d \in Callers : pc[d] \notin Locked
      BY <2>1, RuntimeToolsAssumption DEF TakeLock, PatchInv
    <3> QED
      BY <2>1, <3>1 DEF TakeLock, Goto, Typed, PatchInv, Expected, Locked, edits
  <2>2. CASE HashMatches(c)
    <3>1. PICK f \in unread[c] \cap Assigned :
             /\ content[f] = patch[c].expected[f]
             /\ unread' = [unread EXCEPT ![c] = @ \ {f}]
             /\ Goto(c, IF unread[c] = {f} THEN "hashed" ELSE "hashing")
      BY <2>2 DEF HashMatches
    <3>2. lock = c /\ Expected(c, f)
      BY <2>2, <3>1 DEF HashMatches, PatchInv, Locked, Expected
    <3>3. UNCHANGED <<content, ofChecks, lock, patch>> /\ pc[c] = "hashing"
      BY <2>2 DEF HashMatches, edits
    <3>4. ASSUME NEW d \in Callers, d # c
          PROVE  pc'[d] = pc[d] /\ unread'[d] = unread[d]
      BY <3>1, <3>4 DEF Goto, Typed
    <3>5. /\ pc'[c] \in {"hashing", "hashed"}
          /\ unread'[c] = unread[c] \ {f}
          /\ pc'[c] = "hashed" => unread'[c] = {}
      BY <3>1 DEF Goto, Typed
    <3> QED
      BY <3>2, <3>3, <3>4, <3>5 DEF PatchInv, Expected, Locked
  <2>3. CASE PatchFits(c)
    BY <2>3 DEF PatchFits, Goto, Typed, PatchInv, Expected, Locked, edits
  <2>4. CASE RefusePatch(c) \/ ApplyPatch(c) \/ ApplyNothing(c)
    BY <2>4, LeavePatchKeepsPatches DEF RefusePatch, ApplyPatch, ApplyNothing, Locked
  <2>5. CASE OutputEnds(c) \/ Deadline(c) \/ EndCheck(c)
    BY <2>5, OtherStepsKeepPatches DEF OutputEnds, Deadline, EndCheck, Locked, edits
  <2>6. CASE AddAll(c) \/ Commit(c)
    BY <2>6, OtherStepsKeepPatches DEF AddAll, Commit, Locked, edits
  <2>7. CASE Report(c) \/ CommitFails(c)
    BY <2>7, OtherStepsKeepPatches DEF Report, CommitFails, LeaveCommit, Locked, edits
  <2> QED
    BY <1>6, <2>1, <2>2, <2>3, <2>4, <2>5, <2>6, <2>7 DEF Step
<1> QED
  BY <1>1, <1>2, <1>3, <1>4, <1>5, <1>6 DEF Next

\* apply_file_patch never loses another caller's edit: the lock makes the
\* comparison of the hashes hold until git apply writes.
THEOREM EditsAreNotLost == Spec => NoLostEdit
<1> DEFINE Kept == \A f \in Files :
             content'[f] # content[f] /\ versions' \notin ofChecks' =>
               \E c \in Callers :
                  /\ pc[c] = "fits" /\ pc'[c] = "idle"
                  /\ f \in patch[c].files \cap Assigned
                  /\ content[f] = patch[c].expected[f] \/ content[f] \in ofChecks
<1>1. Init => PatchInv
  BY DEF Init, PatchInv, Locked
<1>2. ASSUME Typed, PatchInv, [Next]_vars
      PROVE  Kept
  <2> SUFFICES ASSUME NEW f \in Files,
                      content'[f] # content[f], versions' \notin ofChecks'
               PROVE  \E c \in Callers :
                         /\ pc[c] = "fits" /\ pc'[c] = "idle"
                         /\ f \in patch[c].files \cap Assigned
                         /\ content[f] = patch[c].expected[f] \/ content[f] \in ofChecks
    OBVIOUS
  <2>1. \E c \in Callers : ApplyPatch(c)
    BY <1>2 DEF Next, vars, edits, Call, Step, CheckProcess, CallPatch, StartCheck, Judge,
           TakeLock, HashMatches, PatchFits, RefusePatch, ApplyNothing, OutputEnds,
           Deadline, EndCheck, AddAll, Commit, Report, CommitFails, LeaveCommit,
           Spawn, ExitProcess, CloseOutput, StrayExits, CheckWrites
  <2>2. PICK c \in Callers : ApplyPatch(c)
    BY <2>1
  <2>3. f \in patch[c].files
    BY <1>2, <2>2 DEF ApplyPatch, Typed, Contents
  <2>4. pc[c] = "fits" /\ pc'[c] = "idle"
    BY <1>2, <2>2 DEF ApplyPatch, LeavePatch, Goto, Typed
  <2>5. Expected(c, f)
    <3>1. unread[c] = {}
      BY <1>2, <2>4 DEF PatchInv
    <3> QED
      BY <1>2, <2>3, <2>4, <3>1 DEF PatchInv, Locked
  <2> QED
    BY <2>3, <2>4, <2>5 DEF Expected
<1>3. Typed /\ PatchInv /\ [Next]_vars => PatchInv'
  BY PatchInvInductive
<1>4. Typed /\ PatchInv /\ [Next]_vars => Kept
  BY <1>2
<1>5. Typed /\ PatchInv /\ [Next]_vars => [Kept]_vars
  BY <1>4
<1> QED
  BY <1>1, <1>3, <1>5, TypesCorrect, PTL DEF Spec, NoLostEdit

-----------------------------------------------------------------------------
(* The atomic edit *)

Patching == {"waiting"} \cup Locked

\* Only a call to apply_file_patch has a patch, and that one names a file.
PatchKept ==
    \A c \in Callers :
       /\ pc[c] \notin Patching => patch[c] = NoPatch
       /\ pc[c] \in Patching => patch[c].files # {}

\* The patch of no call, here and in AtomicEdits.
LEMMA SameNoPatch == Atomic!NoPatch = NoPatch
BY DEF NoPatch, NoFile, Atomic!NoPatch, Atomic!NoFile

LEMMA PatchKeptInductive ==
    ASSUME Typed, PatchKept, [Next]_vars
    PROVE  PatchKept'
<1>1. CASE UNCHANGED vars \/ CheckWrites \/ StrayExits
  BY <1>1 DEF vars, CheckWrites, StrayExits, PatchKept
<1>2. ASSUME NEW c \in Callers, CallPatch(c)
      PROVE  PatchKept'
  <2>1. PICK files \in (SUBSET Files) \ {{}} :
           patch' = [patch EXCEPT ![c] = [files |-> files, expected |-> content]]
    BY <1>2 DEF CallPatch
  <2>2. \A d \in Callers \ {c} : patch'[d] = patch[d] /\ pc'[d] = pc[d]
    BY <1>2, <2>1 DEF CallPatch, Goto, Typed
  <2>3. patch'[c].files = files /\ pc'[c] = "waiting"
    BY <1>2, <2>1 DEF CallPatch, Goto, Typed
  <2> QED
    BY <2>1, <2>2, <2>3 DEF PatchKept, Patching
<1>3. ASSUME NEW c \in Callers, LeavePatch(c)
      PROVE  PatchKept'
  BY <1>3 DEF LeavePatch, Goto, Typed, PatchKept, Patching, Locked
<1>4. ASSUME NEW c \in Callers, NEW step \in Patching, Goto(c, step),
             pc[c] \in Patching, UNCHANGED patch
      PROVE  PatchKept'
  BY <1>4 DEF Goto, Typed, PatchKept
<1>5. ASSUME NEW c \in Callers,
             NEW step \in {"idle", "collecting", "ending", "judged", "added", "committed"},
             Goto(c, step), pc[c] \notin Patching, UNCHANGED patch
      PROVE  PatchKept'
  BY <1>5 DEF Goto, Typed, PatchKept, Patching, Locked
<1>6. ASSUME NEW c \in Callers, Call(c)
      PROVE  PatchKept'
  <2>1. CASE StartCheck(c) \/ Judge(c)
    BY <2>1, <1>5 DEF StartCheck, Judge, Patching, Locked
  <2> QED
    BY <1>6, <2>1, <1>2 DEF Call
<1>7. ASSUME NEW c \in Callers, CheckProcess(c)
      PROVE  PatchKept'
  BY <1>7 DEF CheckProcess, Spawn, ExitProcess, CloseOutput, PatchKept
<1>8. ASSUME NEW c \in Callers, Step(c)
      PROVE  PatchKept'
  <2>1. CASE TakeLock(c) \/ PatchFits(c)
    BY <2>1, <1>4 DEF TakeLock, PatchFits, Patching, Locked
  <2>2. CASE HashMatches(c)
    <3>1. PICK step \in Patching : Goto(c, step)
      BY <2>2 DEF HashMatches, Patching, Locked
    <3> QED
      BY <2>2, <3>1, <1>4 DEF HashMatches, Patching, Locked
  <2>3. CASE RefusePatch(c) \/ ApplyPatch(c) \/ ApplyNothing(c)
    BY <2>3, <1>3 DEF RefusePatch, ApplyPatch, ApplyNothing
  <2>4. CASE OutputEnds(c) \/ Deadline(c) \/ EndCheck(c)
    BY <2>4, <1>5 DEF OutputEnds, Deadline, EndCheck, Patching, Locked
  <2>5. CASE AddAll(c) \/ Commit(c)
    BY <2>5, <1>5 DEF AddAll, Commit, Patching, Locked
  <2>6. CASE Report(c) \/ CommitFails(c)
    BY <2>6, <1>5 DEF Report, CommitFails, LeaveCommit, Patching, Locked
  <2> QED
    BY <1>8, <2>1, <2>2, <2>3, <2>4, <2>5, <2>6 DEF Step
<1> QED
  BY <1>1, <1>6, <1>7, <1>8 DEF Next

\* A git apply that writes something is the abstract edit: the comparisons of
\* all its files still hold.  One that writes nothing is a refusal.
LEMMA ApplyingIsAnEdit ==
    ASSUME Typed, PatchInv, PatchKept, NEW c \in Callers, ApplyPatch(c)
    PROVE  Atomic!Edit(c) \/ Atomic!Refuse(c)
<1>1. PICK written \in SUBSET patch[c].files :
         /\ content' = [f \in Files |-> IF f \in written THEN versions + 1 ELSE content[f]]
         /\ versions' = IF written = {} THEN versions ELSE versions + 1
  BY DEF ApplyPatch
<1>2. patch' = [patch EXCEPT ![c] = Atomic!NoPatch] /\ UNCHANGED ofChecks
  BY SameNoPatch DEF ApplyPatch, LeavePatch
<1>3. CASE written = {}
  <2>1. content' = content /\ versions' = versions
    BY <1>1, <1>3 DEF Typed, Contents
  <2> QED
    BY <1>2, <2>1 DEF Atomic!Refuse
<1>4. CASE written # {}
  <2>1. patch[c].files # {} /\ \A f \in patch[c].files : f \in Assigned /\ Atomic!AsRead(c, f)
    BY DEF ApplyPatch, PatchInv, PatchKept, Patching, Locked, Expected, Atomic!AsRead
  <2>2. /\ \E some \in (SUBSET patch[c].files) \ {{}} :
              content' = [f \in Files |-> IF f \in some THEN versions + 1 ELSE content[f]]
        /\ versions' = versions + 1
    BY <1>1, <1>4
  <2> QED
    BY <1>2, <2>1, <2>2 DEF Atomic!Edit
<1> QED
  BY <1>3, <1>4

\* A call that is made, refused or fails asks or gives up; CheckWrites is the
\* same; and all other steps touch nothing the specification speaks of.
LEMMA StepIsAtomic ==
    ASSUME Typed, PatchInv, PatchKept, [Next]_vars
    PROVE  [Atomic!Next]_(Atomic!vars)
<1> USE DEF Atomic!Next
<1>1. CASE UNCHANGED <<content, versions, ofChecks, patch>>
  BY <1>1 DEF Atomic!vars
<1>2. CASE CheckWrites
  BY <1>2 DEF CheckWrites, Atomic!CheckWrites
<1>3. ASSUME NEW c \in Callers, CallPatch(c)
      PROVE  Atomic!Ask(c)
  <2>1. patch[c] = Atomic!NoPatch
    BY <1>3, SameNoPatch DEF CallPatch, PatchKept, Patching, Locked
  <2> QED
    BY <1>3, <2>1 DEF CallPatch, edits, Atomic!Ask
<1>4. ASSUME NEW c \in Callers, RefusePatch(c) \/ ApplyNothing(c)
      PROVE  Atomic!Refuse(c)
  BY <1>4, SameNoPatch DEF RefusePatch, ApplyNothing, LeavePatch, edits, Atomic!Refuse
<1>5. \/ UNCHANGED <<content, versions, ofChecks, patch>>
      \/ CheckWrites
      \/ \E c \in Callers : CallPatch(c) \/ RefusePatch(c) \/ ApplyNothing(c) \/ ApplyPatch(c)
  BY DEF Next, vars, edits, Call, Step, CheckProcess, StartCheck, Judge, TakeLock,
         HashMatches, PatchFits, OutputEnds, Deadline, EndCheck, AddAll, Commit, Report,
         CommitFails, LeaveCommit, Spawn, ExitProcess, CloseOutput, StrayExits
<1> QED
  BY <1>1, <1>2, <1>3, <1>4, <1>5, ApplyingIsAnEdit

\* apply_file_patch compares and writes its files one by one, in any number of
\* threads, and is nevertheless one atomic edit.
THEOREM EditsAreAtomic == Spec => ImplementsAtomicEdits
<1>1. Init => PatchInv /\ PatchKept
  BY DEF Init, PatchInv, PatchKept, Patching, Locked
<1>2. Init => Atomic!Init
  BY SameNoPatch DEF Init, NoFile, Atomic!Init, Atomic!NoFile
<1>3. Typed /\ PatchInv /\ [Next]_vars => PatchInv'
  BY PatchInvInductive
<1>4. Typed /\ PatchKept /\ [Next]_vars => PatchKept'
  BY PatchKeptInductive
<1>5. Typed /\ PatchInv /\ PatchKept /\ [Next]_vars => [Atomic!Next]_(Atomic!vars)
  BY StepIsAtomic
<1> QED
  BY <1>1, <1>2, <1>3, <1>4, <1>5, TypesCorrect, PTL DEF Spec, ImplementsAtomicEdits, Atomic!Spec

-----------------------------------------------------------------------------
(* Commits *)

\* HEAD is a tree of contents, and appending a commit makes it HEAD.
LEMMA HeadTyped ==
    ASSUME Typed
    PROVE  HeadTree \in Contents
BY DEF Typed, HeadTree

\* The commits lag behind the index, the index behind the Worktree.
Ordered ==
    \A f \in Files :
       HeadTree[f] <= index[f] /\ index[f] <= content[f] /\ content[f] <= versions

\* How far what a commit has seen has come: into the Worktree, the index, HEAD.
SeenBy(c) ==
    /\ pc[c] \in {"judged", "added"} =>
          \A f \in Files \ Assigned : seen[c][f] <= HeadTree[f]
    /\ pc[c] = "judged" => \A f \in Files : seen[c][f] <= content[f]
    /\ pc[c] = "added" => \A f \in Files : seen[c][f] <= index[f]
    /\ pc[c] = "committed" => \A f \in Files : seen[c][f] <= HeadTree[f]

SeenInv == \A c \in Callers : SeenBy(c)

\* A step writes, stages, commits, or leaves all three alone.
LEMMA FourKindsOfStep ==
    ASSUME [Next]_vars
    PROVE  \/ UNCHANGED <<content, index, commits, versions>>
           \/ UNCHANGED <<index, commits>> /\ (CheckWrites \/ \E c \in Callers : ApplyPatch(c))
           \/ \E c \in Callers : AddAll(c)
           \/ \E c \in Callers : Commit(c)
BY DEF Next, vars, edits, git, Call, Step, CheckProcess, CallPatch, StartCheck, Judge,
       TakeLock, HashMatches, PatchFits, RefusePatch, ApplyPatch, ApplyNothing, LeavePatch,
       OutputEnds, Deadline, EndCheck, AddAll, Commit, Report, CommitFails, LeaveCommit,
       Spawn, ExitProcess, CloseOutput, StrayExits, CheckWrites

\* Nothing goes back to an older content: not in the Worktree, the index or HEAD.
LEMMA ContentsGrow ==
    ASSUME Typed, Ordered, [Next]_vars
    PROVE  /\ Ordered'
           /\ \A f \in Files : /\ content[f] <= content'[f]
                               /\ index[f] <= index'[f]
                               /\ HeadTree[f] <= HeadTree'[f]
<1> USE RuntimeToolsAssumption
<1>0. HeadTree \in Contents /\ content \in Contents /\ index \in Contents /\ versions \in Nat
  BY HeadTyped DEF Typed
<1>1. CASE UNCHANGED <<content, index, commits, versions>>
  BY <1>0, <1>1 DEF Ordered, HeadTree, Contents
<1>2. CASE UNCHANGED <<index, commits>> /\ (CheckWrites \/ \E c \in Callers : ApplyPatch(c))
  <2>1. \A f \in Files : content[f] <= content'[f] /\ content'[f] <= versions'
    <3>1. CASE CheckWrites
      BY <1>0, <3>1 DEF CheckWrites, Ordered, Contents
    <3>2. ASSUME NEW c \in Callers, ApplyPatch(c)
          PROVE  \A f \in Files : content[f] <= content'[f] /\ content'[f] <= versions'
      BY <1>0, <3>2 DEF ApplyPatch, Ordered, Contents
    <3> QED BY <1>2, <3>1, <3>2
  <2>2. HeadTree' = HeadTree
    BY <1>2 DEF HeadTree
  <2>3. versions' \in Nat /\ content' \in Contents
    BY TypedInductive DEF Typed
  <2> QED
    BY <1>0, <1>2, <2>1, <2>2, <2>3 DEF Ordered, Contents
<1>3. ASSUME NEW c \in Callers, AddAll(c)
      PROVE  /\ Ordered'
             /\ \A f \in Files : /\ content[f] <= content'[f]
                                 /\ index[f] <= index'[f]
                                 /\ HeadTree[f] <= HeadTree'[f]
  <2>1. index' = content /\ UNCHANGED <<content, versions>> /\ HeadTree' = HeadTree
    BY <1>3 DEF AddAll, edits, HeadTree
  <2> QED
    BY <1>0, <2>1 DEF Ordered, Contents
<1>4. ASSUME NEW c \in Callers, Commit(c)
      PROVE  /\ Ordered'
             /\ \A f \in Files : /\ content[f] <= content'[f]
                                 /\ index[f] <= index'[f]
                                 /\ HeadTree[f] <= HeadTree'[f]
  <2>1. HeadTree' = index
    BY <1>4 DEF Commit, Typed, HeadTree
  <2>2. UNCHANGED <<content, versions, index>>
    BY <1>4 DEF Commit, edits
  <2> QED
    BY <1>0, <2>1, <2>2 DEF Ordered, Contents
<1> QED
  BY <1>1, <1>2, <1>3, <1>4, FourKindsOfStep

\* A caller whose commit does not move keeps its facts, as contents grow.
LEMMA SeenFrame ==
    ASSUME Typed, Ordered, SeenInv, [Next]_vars, NEW c \in Callers,
           pc'[c] = pc[c], seen'[c] = seen[c]
    PROVE  SeenBy(c)'
<1>1. /\ HeadTree \in Contents /\ content \in Contents /\ index \in Contents
      /\ seen \in [Callers -> Contents]
  BY HeadTyped DEF Typed
<1>2. HeadTree' \in Contents /\ content' \in Contents /\ index' \in Contents
  BY TypedInductive, HeadTyped DEF Typed, HeadTree
<1>3. \A f \in Files :
         /\ seen[c][f] <= content[f] => seen[c][f] <= content'[f]
         /\ seen[c][f] <= index[f] => seen[c][f] <= index'[f]
         /\ seen[c][f] <= HeadTree[f] => seen[c][f] <= HeadTree'[f]
  BY <1>1, <1>2, ContentsGrow, RuntimeToolsAssumption DEF Contents
<1> QED
  BY <1>3 DEF SeenInv, SeenBy

LEMMA SeenInductive ==
    ASSUME Typed, Ordered, SeenInv, [Next]_vars
    PROVE  SeenInv'
<1>0. ASSUME NEW c \in Callers, SeenBy(c)',
             \A d \in Callers \ {c} : pc'[d] = pc[d] /\ seen'[d] = seen[d]
      PROVE  SeenInv'
  <2>1. ASSUME NEW d \in Callers \ {c}
        PROVE  SeenBy(d)'
    BY <1>0, <2>1, SeenFrame
  <2> QED
    BY <1>0, <2>1 DEF SeenInv
<1>1. ASSUME NEW c \in Callers, Judge(c)
      PROVE  SeenInv'
  <2>1. /\ UNCHANGED <<content, index, commits>>
        /\ pc'[c] = "judged" /\ seen'[c] = content
        /\ \A d \in Callers \ {c} : pc'[d] = pc[d] /\ seen'[d] = seen[d]
    BY <1>1 DEF Judge, Goto, Typed, edits, git
  <2>2. \A f \in Files \ Assigned : content[f] = HeadTree[f]
    BY <1>1 DEF Judge, Changed
  <2>3. HeadTree' = HeadTree /\ content \in Contents
    BY <2>1 DEF HeadTree, Typed
  <2>4. \A f \in Files : content[f] <= content[f]
    BY <2>3, RuntimeToolsAssumption DEF Contents
  <2>5. \A f \in Files \ Assigned : content[f] <= HeadTree'[f]
    BY <2>2, <2>3, <2>4
  <2>6. SeenBy(c)'
    BY <2>1, <2>4, <2>5 DEF SeenBy
  <2> QED
    BY <1>0, <2>1, <2>6
<1>2. ASSUME NEW c \in Callers, AddAll(c)
      PROVE  SeenInv'
  <2>1. /\ index' = content /\ UNCHANGED <<commits, seen>>
        /\ pc[c] = "judged" /\ pc'[c] = "added"
        /\ \A d \in Callers \ {c} : pc'[d] = pc[d]
    BY <1>2 DEF AddAll, Goto, Typed
  <2>2. SeenBy(c) /\ HeadTree' = HeadTree
    BY <2>1 DEF SeenInv, HeadTree
  <2>3. SeenBy(c)'
    BY <2>1, <2>2 DEF SeenBy
  <2> QED
    BY <1>0, <2>1, <2>3
<1>3. ASSUME NEW c \in Callers, Commit(c)
      PROVE  SeenInv'
  <2>1. /\ HeadTree' = index /\ UNCHANGED seen
        /\ pc[c] = "added" /\ pc'[c] = "committed"
        /\ \A d \in Callers \ {c} : pc'[d] = pc[d]
    BY <1>3 DEF Commit, Goto, Typed, HeadTree
  <2>2. SeenBy(c)
    BY DEF SeenInv
  <2>3. SeenBy(c)'
    BY <2>1, <2>2 DEF SeenBy
  <2> QED
    BY <1>0, <2>1, <2>3
<1>4. ASSUME NEW c \in Callers, Report(c) \/ CommitFails(c)
      PROVE  SeenInv'
  <2>1. /\ pc'[c] = "idle"
        /\ \A d \in Callers \ {c} : pc'[d] = pc[d] /\ seen'[d] = seen[d]
    BY <1>4 DEF Report, CommitFails, LeaveCommit, Goto, Typed
  <2>2. SeenBy(c)'
    BY <2>1 DEF SeenBy
  <2> QED
    BY <1>0, <2>1, <2>2
<1>5. ASSUME UNCHANGED <<pc, seen>>
      PROVE  SeenInv'
  BY <1>5, SeenFrame DEF SeenInv
<1>6. ASSUME NEW c \in Callers,
             NEW step \in {"idle", "waiting", "collecting", "ending"} \cup Locked,
             Goto(c, step), UNCHANGED seen
      PROVE  SeenInv'
  <2>1. /\ pc'[c] \notin {"judged", "added", "committed"}
        /\ \A d \in Callers \ {c} : pc'[d] = pc[d]
    BY <1>6 DEF Goto, Typed, Locked
  <2>2. SeenBy(c)'
    BY <2>1 DEF SeenBy
  <2> QED
    BY <1>0, <1>6, <2>1, <2>2
<1>7. \/ UNCHANGED <<pc, seen>>
      \/ \E c \in Callers : Judge(c) \/ AddAll(c) \/ Commit(c) \/ Report(c) \/ CommitFails(c)
      \/ \E c \in Callers, step \in {"idle", "waiting", "collecting", "ending"} \cup Locked :
            Goto(c, step) /\ UNCHANGED seen
  <2>1. ASSUME NEW c \in Callers, HashMatches(c)
        PROVE  \E step \in Locked : Goto(c, step) /\ UNCHANGED seen
    BY <2>1 DEF HashMatches, Locked
  <2>2. ASSUME NEW c \in Callers, ~HashMatches(c), Step(c)
        PROVE  \/ AddAll(c) \/ Commit(c) \/ Report(c) \/ CommitFails(c)
               \/ \E step \in {"idle", "waiting", "collecting", "ending"} \cup Locked :
                     Goto(c, step) /\ UNCHANGED seen
    BY <2>2 DEF Step, TakeLock, PatchFits, RefusePatch, ApplyPatch, ApplyNothing,
                LeavePatch, OutputEnds, Deadline, EndCheck, Locked
  <2>3. ASSUME NEW c \in Callers, Call(c)
        PROVE  \/ Judge(c)
               \/ \E step \in {"waiting", "collecting"} : Goto(c, step) /\ UNCHANGED seen
    BY <2>3 DEF Call, CallPatch, StartCheck
  <2>4. ASSUME NEW c \in Callers, CheckProcess(c)
        PROVE  UNCHANGED <<pc, seen>>
    BY <2>4 DEF CheckProcess, Spawn, ExitProcess, CloseOutput
  <2> QED
    BY <2>1, <2>2, <2>3, <2>4 DEF Next, vars, CheckWrites, StrayExits
<1> QED
  BY <1>1, <1>2, <1>3, <1>4, <1>5, <1>6, <1>7

CommitInv == Typed /\ Ordered /\ SeenInv

LEMMA CommitInvHolds == Spec => []CommitInv
<1>1. Init => Typed /\ Ordered /\ SeenInv
  <2> SUFFICES ASSUME Init PROVE Ordered /\ SeenInv
    BY RuntimeToolsAssumption, TypedInitially
  <2>1. HeadTree = NoFile
    BY DEF Init, HeadTree
  <2> QED
    BY <2>1 DEF Init, Ordered, SeenInv, SeenBy, NoFile
<1>2. CommitInv /\ [Next]_vars => CommitInv'
  BY TypedInductive, ContentsGrow, SeenInductive DEF CommitInv
<1> QED
  BY <1>1, <1>2, PTL DEF Spec, CommitInv

\* Whatever commits and failures interleave, the commit that git_commit answers
\* with holds all that its status saw.
THEOREM ReportsAreComplete == Spec => []ReportedCommitHasChanges
<1>1. CommitInv => ReportedCommitHasChanges
  <2> SUFFICES ASSUME CommitInv, NEW c \in Callers, pc[c] = "committed", NEW f \in Files
               PROVE  HeadTree[f] >= seen[c][f]
    BY DEF ReportedCommitHasChanges
  <2> QED
    BY HeadTyped, RuntimeToolsAssumption DEF CommitInv, SeenInv, SeenBy, Typed, Contents
<1> QED
  BY <1>1, CommitInvHolds, PTL

\* A file outside the assignment is committed only when it changed after the
\* status that judged the commit.
THEOREM ScopeIsJudged == Spec => ScopeJudged
<1> DEFINE Kept == \A f \in Files \ Assigned :
         LET tree == commits'[Len(commits')] IN
           tree[f] # HeadTree[f] =>
              \E c \in Callers : pc[c] = "added" /\ pc'[c] = "committed"
                                 /\ tree[f] > seen[c][f]
<1>1. ASSUME CommitInv, [Next]_vars
      PROVE  Kept
  <2> SUFFICES ASSUME NEW f \in Files \ Assigned,
                      commits'[Len(commits')][f] # HeadTree[f]
               PROVE  \E c \in Callers : pc[c] = "added" /\ pc'[c] = "committed"
                                         /\ commits'[Len(commits')][f] > seen[c][f]
    OBVIOUS
  <2>1. PICK c \in Callers : Commit(c)
    BY <1>1, FourKindsOfStep DEF AddAll, HeadTree
  <2>2. pc[c] = "added" /\ pc'[c] = "committed"
    BY <1>1, <2>1 DEF Commit, Goto, CommitInv, Typed
  <2>3. commits'[Len(commits')] = index
    BY <1>1, <2>1 DEF Commit, CommitInv, Typed
  <2>4. HeadTree[f] <= index[f] /\ seen[c][f] <= HeadTree[f]
    BY <1>1, <2>2 DEF CommitInv, Ordered, SeenInv, SeenBy
  <2>5. HeadTree[f] \in Nat /\ index[f] \in Nat /\ seen[c][f] \in Nat
    BY <1>1, HeadTyped, RuntimeToolsAssumption DEF CommitInv, Typed, Contents
  <2> QED
    BY <2>2, <2>3, <2>4, <2>5
<1>2. CommitInv /\ [Next]_vars => [Kept]_vars
  BY <1>1
<1> QED
  BY <1>2, CommitInvHolds, PTL DEF Spec, ScopeJudged

-----------------------------------------------------------------------------
(* The number of commits *)

\* What is not staged is newer than all that is, and what is staged but not
\* committed newer than all of HEAD.
Newer ==
    \A f, g \in Files :
       /\ content[g] > index[g] => content[g] > index[f]
       /\ index[g] > HeadTree[g] => index[g] > HeadTree[f]

\* Some file of HEAD has been written as often as HEAD has commits on the base.
Counted == Len(commits) <= 1 \/ \E f \in Files : Len(commits) <= HeadTree[f] + 1

CountInv == Typed /\ Ordered /\ Newer /\ Counted

LEMMA CountInductive ==
    ASSUME CountInv, [Next]_vars
    PROVE  CountInv'
<1>1. /\ HeadTree \in Contents /\ content \in Contents /\ index \in Contents /\ versions \in Nat
      /\ Len(commits) \in Nat \ {0}
  BY HeadTyped, RuntimeToolsAssumption DEF CountInv, Typed
<1>2. Typed' /\ Ordered'
  BY TypedInductive, ContentsGrow DEF CountInv
<1>3. CASE UNCHANGED <<content, index, commits, versions>>
  <2>1. HeadTree' = HeadTree
    BY <1>3 DEF HeadTree
  <2> QED
    BY <1>2, <1>3, <2>1 DEF CountInv, Newer, Counted
<1>4. CASE UNCHANGED <<index, commits>> /\ (CheckWrites \/ \E c \in Callers : ApplyPatch(c))
  <2>1. HeadTree' = HeadTree /\ Counted'
    BY <1>4 DEF HeadTree, CountInv, Counted
  <2>2. \A f \in Files : content'[f] = content[f] \/ content'[f] = versions + 1
    BY <1>1, <1>4 DEF CheckWrites, ApplyPatch, Contents
  <2>3. \A f \in Files : index[f] <= versions
    BY <1>1, RuntimeToolsAssumption DEF CountInv, Ordered, Contents
  <2>4. Newer'
    <3> SUFFICES ASSUME NEW f \in Files, NEW g \in Files
                 PROVE  /\ content'[g] > index[g] => content'[g] > index[f]
                        /\ index[g] > HeadTree[g] => index[g] > HeadTree[f]
      BY <1>4, <2>1 DEF Newer
    <3>1. content[g] > index[g] => content[g] > index[f]
      BY DEF CountInv, Newer
    <3>2. content'[g] = versions + 1 => content'[g] > index[f]
      BY <1>1, <2>3, RuntimeToolsAssumption DEF Contents
    <3>3. index[g] > HeadTree[g] => index[g] > HeadTree[f]
      BY DEF CountInv, Newer
    <3> QED
      BY <2>2, <3>1, <3>2, <3>3
  <2> QED
    BY <1>2, <2>1, <2>4 DEF CountInv
<1>5. ASSUME NEW c \in Callers, AddAll(c) PROVE CountInv'
  <2>1. index' = content /\ UNCHANGED <<content, commits>> /\ HeadTree' = HeadTree
    BY <1>5 DEF AddAll, edits, HeadTree
  <2>2. Newer'
    <3> SUFFICES ASSUME NEW f \in Files, NEW g \in Files, content[g] > HeadTree[g]
                 PROVE  content[g] > HeadTree[f]
      BY <1>1, <2>1, RuntimeToolsAssumption DEF Newer, Contents
    <3>1. /\ HeadTree[f] <= index[f] /\ index[g] <= content[g]
          /\ content[g] > index[g] => content[g] > index[f]
          /\ index[g] > HeadTree[g] => index[g] > HeadTree[f]
      BY DEF CountInv, Ordered, Newer
    <3> QED
      BY <1>1, <3>1, RuntimeToolsAssumption DEF Contents
  <2> QED
    BY <1>2, <2>1, <2>2 DEF CountInv, Counted
<1>6. ASSUME NEW c \in Callers, Commit(c) PROVE CountInv'
  <2>1. /\ index # HeadTree /\ HeadTree' = index /\ Len(commits') = Len(commits) + 1
        /\ UNCHANGED <<content, index>>
    BY <1>6 DEF CountInv, Typed, Commit, edits, HeadTree
  <2>2. PICK g \in Files : index[g] # HeadTree[g]
    BY <1>1, <2>1 DEF Contents
  <2>3. \A f \in Files : index[g] > HeadTree[f]
    BY <1>1, <2>2, RuntimeToolsAssumption DEF CountInv, Ordered, Newer, Contents
  <2>4. Len(commits) <= index[g]
    BY <1>1, <2>2, <2>3, RuntimeToolsAssumption DEF CountInv, Counted, Contents
  <2>5. Counted'
    BY <1>1, <2>1, <2>4, RuntimeToolsAssumption DEF Counted, Contents
  <2>6. Newer'
    <3> SUFFICES ASSUME NEW f \in Files, NEW h \in Files
                 PROVE  /\ content[h] > index[h] => content[h] > index[f]
                        /\ ~ index[h] > index[h]
      BY <2>1 DEF Newer
    <3>1. content[h] > index[h] => content[h] > index[f]
      BY DEF CountInv, Newer
    <3>2. index[h] \in Nat
      BY <1>1 DEF Contents
    <3> QED
      BY <3>1, <3>2
  <2> QED
    BY <1>2, <2>5, <2>6 DEF CountInv
<1> QED
  BY <1>3, <1>4, <1>5, <1>6, FourKindsOfStep

\* As git refuses an empty commit, every commit stands for a write of its own,
\* however many callers commit the same changes.
THEOREM CommitsAreCounted == Spec => []TypeOK
<1>1. Init => CountInv
  <2> SUFFICES ASSUME Init PROVE Ordered /\ Newer /\ Counted
    BY TypedInitially DEF CountInv
  <2>1. HeadTree = NoFile /\ Len(commits) = 1
    BY DEF Init, HeadTree
  <2> QED
    BY <2>1 DEF Init, Ordered, Newer, Counted, NoFile
<1>2. CountInv => TypeOK
  <2> SUFFICES ASSUME CountInv PROVE Len(commits) <= versions + 1
    BY DEF CountInv, TypeOK
  <2>1. /\ HeadTree \in Contents /\ content \in Contents /\ index \in Contents
        /\ versions \in Nat /\ Len(commits) \in Nat
    BY HeadTyped, RuntimeToolsAssumption DEF CountInv, Typed
  <2>2. \A f \in Files : HeadTree[f] \in Nat /\ HeadTree[f] <= versions
    BY <2>1, RuntimeToolsAssumption DEF CountInv, Ordered, Contents
  <2>3. Counted
    BY DEF CountInv
  <2> QED
    BY <2>1, <2>2, <2>3 DEF Counted
<1> QED
  BY <1>1, <1>2, CountInductive, PTL DEF Spec

=============================================================================
