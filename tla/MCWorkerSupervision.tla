-------------------------- MODULE MCWorkerSupervision --------------------------
(* Small instances of WorkerSupervision: a run of two steps, the second of    *)
(* which depends on the first, and the results providers may report.          *)
EXTENDS WorkerSupervision

CONSTANTS f1, f2,          \* the files of the two assignments
          cli1, cli2, lib   \* sessions

OwnFile(w) == IF w = 1 THEN {f1} ELSE {f2}

OwnPaths == [w \in Workers |-> OwnFile(w)]

StepDependencies == [w \in Workers |-> IF w = 2 THEN {1} ELSE {}]

Route == [p \in 1 .. 4 |->
             [stage |-> Pipeline[p], status |-> "completed", sequence |-> p]]

Good(w) == [run |-> Run, worker |-> w, task |-> w, status |-> "completed",
            commit |-> TRUE, files |-> OwnFile(w), trace |-> Route,
            errors |-> FALSE]

NoReview(w)   == [Good(w) EXCEPT !.trace = SubSeq(Route, 1, 3)]
OutOfScope(w) == [Good(w) EXCEPT !.files = {f1, f2} \ OwnFile(w)]
Other(w)      == Good(NumWorkers + 1 - w)
Stray(w)      == [Good(w) EXCEPT !.run = OtherRun]

\* In its own name, a provider may report work, skip a phase or mistake the run;
\* or that of worker 1 reports the work of worker 2, which reports it as well.
OwnClaims    == [w \in Workers |-> {Good(w), IF w = 1 THEN NoReview(w) ELSE Stray(w)}]
OthersClaims == [w \in Workers |-> {IF w = 1 THEN Other(w) ELSE Good(w)}]
OneClaim     == [w \in Workers |-> {Good(w)}]
ScopeClaims  == [w \in Workers |-> {Good(w), OutOfScope(w)}]

=============================================================================
