------------------------------- MODULE AtomicEdits -------------------------------
(***************************************************************************)
(* What apply_file_patch promises the threads of one tool server: a patch  *)
(* is compared and written in one step.  Whoever asks for a patch has read *)
(* all the files it names; when it is written every one of them, those it  *)
(* fails to write included, still holds what was read, or what a process   *)
(* of a check wrote since.  RuntimeTools, which hashes the files one by    *)
(* one and runs git apply after that, implements this specification.       *)
(***************************************************************************)
EXTENDS Naturals

CONSTANTS Callers, Files, Assigned, CheckFiles

VARIABLES
    content,   \* the write each file comes from
    versions,  \* number of the last write
    ofChecks,  \* the writes made by processes of checks
    patch      \* what each caller asks for: files, and the contents it read

vars == <<content, versions, ofChecks, patch>>

NoFile  == [f \in Files |-> 0]
NoPatch == [files |-> {}, expected |-> NoFile]

Init ==
    /\ content = NoFile /\ versions = 0 /\ ofChecks = {}
    /\ patch = [c \in Callers |-> NoPatch]

Ask(c) ==
    /\ patch[c] = NoPatch
    /\ \E files \in (SUBSET Files) \ {{}} :
          patch' = [patch EXCEPT ![c] = [files |-> files, expected |-> content]]
    /\ UNCHANGED <<content, versions, ofChecks>>

Refuse(c) ==
    /\ patch' = [patch EXCEPT ![c] = NoPatch]
    /\ UNCHANGED <<content, versions, ofChecks>>

\* Nobody but a check has touched the file since c read it.
AsRead(c, f) == content[f] = patch[c].expected[f] \/ content[f] \in ofChecks

\* The comparison and the write, of which git apply may leave a part out.
Edit(c) ==
    /\ patch[c].files # {}
    /\ \A f \in patch[c].files : f \in Assigned /\ AsRead(c, f)
    /\ \E written \in (SUBSET patch[c].files) \ {{}} :
          content' = [f \in Files |-> IF f \in written THEN versions + 1 ELSE content[f]]
    /\ versions' = versions + 1
    /\ patch' = [patch EXCEPT ![c] = NoPatch]
    /\ UNCHANGED ofChecks

CheckWrites ==
    /\ \E f \in CheckFiles : content' = [content EXCEPT ![f] = versions + 1]
    /\ versions' = versions + 1
    /\ ofChecks' = ofChecks \cup {versions + 1}
    /\ UNCHANGED patch

Next == (\E c \in Callers : Ask(c) \/ Refuse(c) \/ Edit(c)) \/ CheckWrites

Spec == Init /\ [][Next]_vars

=============================================================================
