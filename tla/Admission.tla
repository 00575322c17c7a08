------------------------------ MODULE Admission ------------------------------
(* Admission of one generated task: _collect_admission runs the suites of    *)
(* its three snapshots repeatedly, each time in a container of its own       *)
(* (tasks/admission_docker.py), and validate_task_admission judges the       *)
(* evidence (tasks/admission.py).                                            *)
EXTENDS Naturals, Sequences

CONSTANTS
    Tests,          \* the canonical tests of a suite
    Repetitions,
    Behaviours,     \* required run -> what its executions may come to
    ProblemChoices  \* what the reviews may have found

ASSUME AdmissionAssumption ==
    /\ Repetitions \in Nat /\ Repetitions >= 3
    /\ ProblemChoices \subseteq SUBSET
         {"collision", "source", "license", "use", "redistribution", "leak", "image"}

(* A result: the exit status of timeout(1), whether the suite was killed for *)
(* its time, and its report, which gives each test's status, is missing, or  *)
(* is not one of the canonical tests. Failures and errors count alike.       *)
Statuses == {"passed", "failed", "skipped"}
Reports == [Tests -> Statuses]
Missing == [t \in Tests |-> "missing"]
ForeignReport == [t \in Tests |-> "foreign"]
TimedOut == 124   \* the status taken for a timeout
Killed == 137     \* what timeout --signal=KILL exits with when it has to kill

(* A suite may write its report and be killed before it exits.               *)
Executions ==
    {result \in [exit : {0, 1, TimedOut, Killed}, killed : BOOLEAN,
                 report : Reports \union {Missing, ForeignReport}] :
        result.killed <=> result.exit = Killed}

ASSUME BehavioursAssumption == Behaviours \subseteq [1 .. 5 -> SUBSET Executions]

NoAnswer == [kind |-> "nothing"]
Error == [kind |-> "error"]

RequiredRuns == <<<<"clean", "regression">>, <<"buggy", "target">>, <<"buggy", "regression">>,
                  <<"reference", "target">>, <<"reference", "regression">>>>
CleanRegression == 1
BuggyTarget == 2
BuggyRegression == 3
ReferenceTarget == 4
ReferenceRegression == 5

VARIABLES
    does,         \* required run -> what its executions may come to
    expectation,  \* what the task says of the buggy snapshot's regression
    problems,     \* what the reviews found
    run,          \* the required run being executed
    step,         \* where its current attempt is
    container,    \* what the attempt's container holds, whether a suite ran in it
    answer,       \* what the attempt will return or raise
    evidence,     \* required run -> the results so far
    left,         \* a container was not removed
    verdict

task == <<does, expectation, problems>>
admissionVars == <<task, run, step, container, answer, evidence, left, verdict>>

NoContainer == [holds |-> {}, used |-> FALSE]
Verdicts == {"admitted", "rejected", "error"}

AdmissionInit ==
    /\ does \in Behaviours /\ expectation \in {"passes", "fails"}
    /\ problems \in ProblemChoices
    /\ run = 1 /\ step = "start" /\ container = NoContainer /\ answer = NoAnswer
    /\ evidence = [r \in 1 .. 5 |-> <<>>]
    /\ left = FALSE /\ verdict = "none"

-----------------------------------------------------------------------------
(* The verdict                                                               *)

Count(result, status) == {t \in Tests : result.report[t] = status}

IsPass(result) ==
    result.exit = 0 /\ Count(result, "passed") # {} /\ Count(result, "failed") = {}

IsTestFailure(result) == result.exit # 0 /\ Count(result, "failed") # {}

AllPass(runs) == runs # <<>> /\ \A i \in DOMAIN runs : IsPass(runs[i])
AllFail(runs) == runs # <<>> /\ \A i \in DOMAIN runs : IsTestFailure(runs[i])

(* The gates, each of which is checked whatever the others find.             *)
Gates(e) ==
    [insufficient |-> \A r \in 1 .. 5 : Len(e[r]) >= Repetitions,
     clean_regression |-> AllPass(e[CleanRegression]),
     buggy_target |-> AllFail(e[BuggyTarget]),
     buggy_regression |-> IF expectation = "passes" THEN AllPass(e[BuggyRegression])
                                                    ELSE AllFail(e[BuggyRegression]),
     reference_target |-> AllPass(e[ReferenceTarget]),
     reference_regression |-> AllPass(e[ReferenceRegression])]

Failures(e) == problems \union {gate \in DOMAIN Gates(e) : ~Gates(e)[gate]}

-----------------------------------------------------------------------------
(* One attempt: a fresh container, the snapshot, the hidden tests for the    *)
(* target suite, a directory for the report, the suite, the report.          *)

Snapshot == RequiredRuns[run][1]
IsTarget == RequiredRuns[run][2] = "target"

Start ==
    /\ verdict = "none" /\ run <= 5 /\ step = "start"
    /\ container' = NoContainer /\ step' = "upload"
    /\ UNCHANGED <<task, run, answer, evidence, left, verdict>>

(* Without a handle nothing is removed, though the container may exist.      *)
StartFails ==
    /\ verdict = "none" /\ run <= 5 /\ step = "start"
    /\ verdict' = "error" /\ left' \in {left, TRUE}
    /\ UNCHANGED <<task, run, step, container, answer, evidence>>

UploadSnapshot ==
    /\ verdict = "none" /\ step = "upload"
    /\ container' = [container EXCEPT !.holds = @ \union {Snapshot}]
    /\ step' = IF IsTarget THEN "hidden" ELSE "mkdir"
    /\ UNCHANGED <<task, run, answer, evidence, left, verdict>>

UploadHidden ==
    /\ verdict = "none" /\ step = "hidden"
    /\ container' = [container EXCEPT !.holds = @ \union {"hidden"}]
    /\ step' = "mkdir"
    /\ UNCHANGED <<task, run, answer, evidence, left, verdict>>

MakeDirectory ==
    /\ verdict = "none" /\ step = "mkdir"
    /\ step' = "suite"
    /\ UNCHANGED <<task, run, container, answer, evidence, left, verdict>>

RunSuite ==
    /\ verdict = "none" /\ step = "suite"
    /\ container' = [container EXCEPT !.used = TRUE]
    /\ \E result \in does[run] :
         IF result.exit = TimedOut THEN answer' = Error /\ step' = "remove"
                                   ELSE answer' = result /\ step' = "report"
    /\ UNCHANGED <<task, run, evidence, left, verdict>>

(* The answer is the result just run, or what its report makes of it.        *)
ReadReport ==
    /\ verdict = "none" /\ step = "report"
    /\ answer' = IF answer.report \in {Missing, ForeignReport} THEN Error ELSE answer
    /\ step' = "remove"
    /\ UNCHANGED <<task, run, container, evidence, left, verdict>>

(* A call to Docker fails, or a command of the preparation does.             *)
AttemptFails ==
    /\ verdict = "none" /\ step \in {"upload", "hidden", "mkdir", "suite", "report"}
    /\ answer' = Error /\ step' = "remove"
    /\ UNCHANGED <<task, run, container, evidence, left, verdict>>

(* Raising, or keeping the result and going on.                              *)
Deliver_KeepsPartial ==
    /\ evidence' = IF answer = Error THEN evidence ELSE [evidence EXCEPT ![run] = Append(@, answer)]
    /\ run' = IF answer = Error \/ Len(evidence[run]) + 1 = Repetitions THEN run + 1 ELSE run
    /\ step' = "start"
    /\ UNCHANGED verdict

Deliver ==
    IF answer = Error
    THEN verdict' = "error" /\ UNCHANGED <<run, step, evidence>>
    ELSE /\ evidence' = [evidence EXCEPT ![run] = Append(@, answer)]
         /\ run' = IF Len(evidence[run]) + 1 = Repetitions THEN run + 1 ELSE run
         /\ step' = "start"
         /\ UNCHANGED verdict

(* The finally clause.                                                       *)
Remove ==
    /\ verdict = "none" /\ step = "remove"
    /\ Deliver
    /\ answer' = NoAnswer
    /\ UNCHANGED <<task, container, left>>

RemoveFails ==
    /\ verdict = "none" /\ step = "remove"
    /\ left' = TRUE /\ verdict' = "error"
    /\ UNCHANGED <<task, run, step, container, answer, evidence>>

Judge ==
    /\ verdict = "none" /\ run = 6
    /\ verdict' = IF Failures(evidence) = {} THEN "admitted" ELSE "rejected"
    /\ UNCHANGED <<task, run, step, container, answer, evidence, left>>

AdmissionNext ==
    \/ Start \/ StartFails \/ UploadSnapshot \/ UploadHidden \/ MakeDirectory \/ RunSuite
    \/ ReadReport \/ AttemptFails \/ Remove \/ RemoveFails \/ Judge

AdmissionSpec == AdmissionInit /\ [][AdmissionNext]_admissionVars

-----------------------------------------------------------------------------
(* Properties                                                                *)

(* The values of the variables.                                              *)
AdmissionTypeOK ==
    /\ does \in [1 .. 5 -> SUBSET Executions] /\ expectation \in {"passes", "fails"}
    /\ run \in 1 .. 6
    /\ step \in {"start", "upload", "hidden", "mkdir", "suite", "report", "remove"}
    /\ container.holds \subseteq {"clean", "buggy", "reference", "hidden"}
    /\ container.used \in BOOLEAN
    /\ answer \in {NoAnswer, Error} \union Executions
    /\ \A r \in 1 .. 5 : \A i \in DOMAIN evidence[r] : evidence[r][i] \in Executions
    /\ left \in BOOLEAN /\ verdict \in {"none"} \union Verdicts

(* Every execution a verdict rests on had a container of its own, which held *)
(* the right snapshot and, for the target suite only, the hidden tests.      *)
AttemptsAreIndependent ==
    step = "suite" /\ verdict = "none" =>
        container = [holds |-> {Snapshot} \union (IF IsTarget THEN {"hidden"} ELSE {}),
                     used |-> FALSE]

(* What the task promises of a required run.                                 *)
Promised(r, result) ==
    IF r = BuggyTarget \/ (r = BuggyRegression /\ expectation = "fails")
    THEN result.exit # 0 /\ \E t \in Tests : result.report[t] = "failed"
    ELSE /\ result.exit = 0
         /\ \A t \in Tests : result.report[t] # "failed"
         /\ \E t \in Tests : result.report[t] = "passed"

(* An admitted task was never seen to break its promises; a task that always *)
(* keeps them, and that the reviews found nothing against, is not rejected.  *)
VerdictIsTrue ==
    /\ verdict = "admitted" =>
         /\ problems = {}
         /\ \A r \in 1 .. 5 : \A i \in DOMAIN evidence[r] : Promised(r, evidence[r][i])
    /\ verdict = "rejected" =>
         \/ problems # {}
         \/ \E r \in 1 .. 5 : \E result \in does[r] : ~Promised(r, result)

(* A breakdown of one attempt decides nothing about the task: a verdict      *)
(* rests on every repetition, each with a report of the canonical tests.     *)
BreakdownsDecideNothing ==
    verdict \in {"admitted", "rejected"} =>
        \A r \in 1 .. 5 : /\ Len(evidence[r]) = Repetitions
                          /\ \A i \in DOMAIN evidence[r] : evidence[r][i].report \in Reports

(* A verdict leaves no container behind.                                     *)
VerdictsLeaveNothing == verdict \in {"admitted", "rejected"} => ~left

(* A verdict rests on independent executions of the task that all took       *)
(* place: it says what they showed, no breakdown of Docker decides it, and   *)
(* no container outlives it.                                                 *)
AdmissionIsSound ==
    /\ AttemptsAreIndependent
    /\ VerdictIsTrue
    /\ BreakdownsDecideNothing
    /\ VerdictsLeaveNothing

(* "The reference repair passes target and regression suites": by the        *)
(* verifier's measure, in which every canonical test must have passed.       *)
AdmittedTasksAreSolvable ==
    verdict = "admitted" =>
        \A r \in {ReferenceTarget, ReferenceRegression} : \A i \in DOMAIN evidence[r] :
            \A t \in Tests : evidence[r][i].report[t] = "passed"

(* "The buggy snapshot reproducibly fails at least one canonical test": the  *)
(* same one in every repetition.                                             *)
SomeTestFailsReproducibly ==
    verdict = "admitted" =>
        \E t \in Tests : \A i \in DOMAIN evidence[BuggyTarget] :
            evidence[BuggyTarget][i].report[t] = "failed"

(* "admission suite timed out": a suite that was killed for its time is an   *)
(* error and never evidence.                                                 *)
TimeoutsAreErrors ==
    \A r \in 1 .. 5 : \A i \in DOMAIN evidence[r] : ~evidence[r][i].killed
=============================================================================
