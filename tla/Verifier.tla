------------------------------- MODULE Verifier -------------------------------
(***************************************************************************)
(* One verification of a patch: Verifier.verify of verifier/pipeline.py    *)
(* driving DockerVerifierSandbox of verifier/docker.py.                    *)
(*                                                                         *)
(* The patch is first applied in a validation container; then every suite  *)
(* of the manifest runs in a fresh container of its own, where the patch   *)
(* is applied again and the hidden tests are uploaded.  A test process may *)
(* leave others behind, which go on writing until the container is paused. *)
(* Every Docker operation may fail, the removals of the cleanup too, and a *)
(* removal may fail although it took effect.  One action is one Docker     *)
(* operation, or one judgement of the pipeline on the answers it has.      *)
(***************************************************************************)
EXTENDS Integers, Sequences, FiniteSets

CONSTANTS
    SuiteNames,   \* names of the manifest's suites, in the order they run
    HiddenTests   \* does the manifest have a hidden-test bundle

ASSUME ManifestAssumption ==
    /\ SuiteNames \in Seq(STRING)
    /\ HiddenTests \in BOOLEAN
    /\ \E i \in DOMAIN SuiteNames : SuiteNames[i] = "target"
    /\ \A i, j \in DOMAIN SuiteNames :
          SuiteNames[i] = SuiteNames[j] => i = j

VARIABLES
    pc,          \* where verify() is
    box,         \* box[0]: the validation container, box[i]: that of suite i
    validation,  \* _validation_container is not None
    suite,       \* index of the suite that runs, or runs next
    exit,        \* exit status of the last suite command
    junit,       \* JUnit evidence read from the last suite container
    error,       \* exception in flight out of run_suite: NoError, or how
                 \* long its message is
    outcomes,    \* suite_results
    result,      \* the VerificationResult so far: its failure kind, or passed
    raised,      \* the except handler itself raised
    fault        \* history: an infrastructure operation has failed

vars == <<pc, box, validation, suite, exit, junit, error, outcomes, result,
          raised, fault>>

SuiteCount == Len(SuiteNames)
Suites == 1 .. SuiteCount

Locations == {"inspect", "create", "baseline", "entries", "apply", "paths",
              "suites", "spawn", "prepare", "reapply", "stage", "execute",
              "pause", "read", "discard", "judge", "close", "return", "done"}

(* created: Docker made the container and then failed to start it. *)
Present == {"created", "running", "paused"}
Lives == Present \cup {"absent", "removed"}

(* What is at the evidence path.  unreadable: not a regular file, or over    *)
(* max_junit_bytes.  malformed: JUnitParseError.  unrepresentable: any other *)
(* exception, such as a test id longer than the result models allow.         *)
Evidence == {"absent", "unreadable", "malformed", "unrepresentable",
             "failing", "passing"}
Unusable == {"absent", "malformed"}

Boxes == [life : Lives, patched : BOOLEAN, hidden : BOOLEAN, ran : BOOLEAN,
          evidence : Evidence]

(* 0, a test failure, a status of 124, and a command killed by the time limit *)
(* (timeout --signal=KILL exits with 137).                                    *)
ExitCodes == {0, 1, 124, 137}
TimedOut(code) == code = 124

(* VerificationResult.detail holds 4000 characters; a long text is longer. *)
Lengths == {"short", "long"}
NoError == "none"

Rejections == {"patch_policy", "unsafe_repository_entry", "patch_apply"}
TestFailures == {"target_tests", "regression_tests", "test_timeout"}
InfrastructureKinds == {"verifier_configuration", "sandbox_infrastructure"}
NoResult == "none"
Results == Rejections \cup TestFailures \cup InfrastructureKinds
           \cup {"passed", NoResult}

(* A SuiteVerification: what it was judged from, and the verdict. *)
Outcomes == [exit : ExitCodes, junit : Evidence, passed : BOOLEAN]

EmptyBox == [life |-> "absent", patched |-> FALSE, hidden |-> FALSE,
             ran |-> FALSE, evidence |-> "absent"]

-----------------------------------------------------------------------------
Init ==
    /\ pc = "inspect"
    /\ box = [i \in 0 .. SuiteCount |-> EmptyBox]
    /\ validation = FALSE
    /\ suite = 1
    /\ exit = 0
    /\ junit = "absent"
    /\ error = NoError
    /\ outcomes = <<>>
    /\ result = NoResult
    /\ raised = FALSE
    /\ fault = FALSE

Goto(loc) == pc' = loc

(* A Docker operation succeeds, or fails. *)
Healthy == UNCHANGED fault
Faulty == fault' = TRUE

SetLife(i, life) == box' = [box EXCEPT ![i].life = life]

(* container.remove(force=True).  Docker answers 404 for a container that is *)
(* gone already, and a removal whose answer is lost may have taken effect.   *)
Removed(i) == box[i].life \in Present /\ SetLife(i, "removed")
RemovalFails(i) == SetLife(i, box[i].life) \/ SetLife(i, "removed")

(* The except clauses of verify().  The handler of infrastructure errors     *)
(* puts the whole message into the result, whose detail is bounded: a long   *)
(* message makes the handler itself raise, and verify() has no answer.       *)
Handle(message) ==
    /\ result' = IF message = "long" THEN result ELSE "sandbox_infrastructure"
    /\ raised' = (message = "long")

(* An operation of verify() itself raises SandboxInfrastructureError. *)
Fail ==
    /\ Faulty
    /\ Handle("short")
    /\ Goto("close")

(* An operation inside run_suite raises: its container is discarded first. *)
FailInSuite(message) ==
    /\ Faulty
    /\ error' = message
    /\ Goto("discard")

(* _failure(): a detail over the limit makes the result's own constructor    *)
(* raise, and the generic handler turns that into an infrastructure error.   *)
Reject(kind, detail) ==
    /\ result' = IF detail = "short" THEN kind ELSE "sandbox_infrastructure"
    /\ Goto("close")

-----------------------------------------------------------------------------
(* The patch-validation phase *)

(* The static policy needs no sandbox. *)
InspectPatch ==
    /\ pc = "inspect"
    /\ \/ Goto("create") /\ UNCHANGED result
       \/ result' = "patch_policy" /\ Goto("return")
    /\ UNCHANGED <<box, validation, suite, exit, junit, error, outcomes,
                   raised, fault>>

(* When the factory raises there is no sandbox, and nothing to close. *)
Create ==
    /\ pc = "create"
    /\ \/ /\ SetLife(0, "running") /\ validation' = TRUE
          /\ Healthy
          /\ Goto("baseline") /\ UNCHANGED <<result, raised>>
       \/ /\ SetLife(0, "absent") \/ SetLife(0, "created")
          /\ Faulty /\ UNCHANGED validation
          /\ Handle("short") /\ Goto("return")
    /\ UNCHANGED <<suite, exit, junit, error, outcomes>>

(* start() closes the sandbox it could not prepare and re-raises; when that  *)
(* close fails its own error is the one that leaves.                         *)
Baseline ==
    /\ pc = "baseline"
    /\ \/ /\ Healthy
          /\ Goto("entries") /\ UNCHANGED <<box, validation, result, raised>>
       \/ /\ Faulty /\ validation' = FALSE /\ Goto("return")
          /\ \/ Removed(0) /\ \E message \in Lengths : Handle(message)
             \/ RemovalFails(0) /\ Handle("short")
    /\ UNCHANGED <<suite, exit, junit, error, outcomes>>

InspectEntries ==
    /\ pc = "entries"
    /\ \/ Fail
       \/ /\ \E detail \in Lengths : Reject("unsafe_repository_entry", detail)
          /\ Healthy /\ UNCHANGED raised
       \/ Goto("apply") /\ Healthy /\ UNCHANGED <<result, raised>>
    /\ UNCHANGED <<box, validation, suite, exit, junit, error, outcomes>>

(* git apply --check, then git apply. *)
ApplyPatch ==
    /\ pc = "apply"
    /\ \/ Fail /\ UNCHANGED box
       \/ /\ \E detail \in Lengths : Reject("patch_apply", detail)
          /\ Healthy /\ UNCHANGED <<box, raised>>
       \/ /\ box' = [box EXCEPT ![0].patched = TRUE]
          /\ Goto("paths") /\ Healthy /\ UNCHANGED <<result, raised>>
    /\ UNCHANGED <<validation, suite, exit, junit, error, outcomes>>

(* The paths Git says were changed are put to the policy again. *)
ChangedPaths ==
    /\ pc = "paths"
    /\ \/ Fail
       \/ Reject("patch_policy", "short") /\ Healthy /\ UNCHANGED raised
       \/ Goto("suites") /\ Healthy /\ UNCHANGED <<result, raised>>
    /\ UNCHANGED <<box, validation, suite, exit, junit, error, outcomes>>

-----------------------------------------------------------------------------
(* One suite: DockerVerifierSandbox.run_suite *)

SuitesLeft == suite <= SuiteCount

(* A failed removal keeps the reference, for close() to try again. *)
DisposeValidation ==
    \/ /\ validation /\ Removed(0) /\ validation' = FALSE
       /\ Healthy /\ Goto("spawn") /\ UNCHANGED <<result, raised>>
    \/ validation /\ RemovalFails(0) /\ Fail /\ UNCHANGED validation
    \/ /\ ~validation
       /\ Healthy /\ Goto("spawn") /\ UNCHANGED <<box, validation, result, raised>>

BeginSuite ==
    /\ pc = "suites" /\ SuitesLeft
    /\ DisposeValidation
    /\ UNCHANGED <<suite, exit, junit, error, outcomes>>

(* The new container is not yet inside the try that would remove it. *)
SpawnSuite ==
    /\ pc = "spawn"
    /\ \/ /\ SetLife(suite, "running")
          /\ Healthy /\ Goto("prepare") /\ UNCHANGED <<result, raised>>
       \/ /\ SetLife(suite, "absent") \/ SetLife(suite, "created")
          /\ Fail
    /\ UNCHANGED <<validation, suite, exit, junit, error, outcomes>>

PrepareSuite ==
    /\ pc = "prepare"
    /\ \/ Healthy /\ Goto("reapply") /\ UNCHANGED error
       \/ \E message \in Lengths : FailInSuite(message)
    /\ UNCHANGED <<box, validation, suite, exit, junit, outcomes, result, raised>>

(* The approved patch must apply again, whatever the reason that it does not. *)
Reapply(applied) ==
    \/ applied /\ Healthy /\ Goto("stage") /\ UNCHANGED error
    \/ ~applied /\ FailInSuite("short")

ReapplyPatch ==
    /\ pc = "reapply"
    /\ \E applied \in BOOLEAN :
          /\ box' = [box EXCEPT ![suite].patched = applied]
          /\ Reapply(applied)
    /\ UNCHANGED <<validation, suite, exit, junit, outcomes, result, raised>>

(* The staging root, then the hidden tests, are uploaded. *)
StageTests ==
    /\ pc = "stage"
    /\ \/ /\ box' = [box EXCEPT ![suite].hidden = HiddenTests]
          /\ Healthy /\ Goto("execute") /\ UNCHANGED error
       \/ /\ \E uploaded \in {FALSE, HiddenTests} :
                box' = [box EXCEPT ![suite].hidden = uploaded]
          /\ FailInSuite("short")
    /\ UNCHANGED <<validation, suite, exit, junit, outcomes, result, raised>>

ExecuteSuite ==
    /\ pc = "execute"
    /\ \E evidence \in Evidence, code \in ExitCodes :
          /\ box' = [box EXCEPT ![suite] =
                        [@ EXCEPT !.ran = TRUE, !.evidence = evidence]]
          /\ \/ exit' = code /\ Healthy /\ Goto("pause") /\ UNCHANGED error
             \/ FailInSuite("short") /\ UNCHANGED exit
    /\ UNCHANGED <<validation, suite, junit, outcomes, result, raised>>

(* A process the tests left behind rewrites the evidence. *)
Scribble ==
    /\ \E i \in Suites, evidence \in Evidence :
          /\ box[i].life = "running" /\ box[i].ran
          /\ box' = [box EXCEPT ![i].evidence = evidence]
    /\ UNCHANGED <<pc, validation, suite, exit, junit, error, outcomes, result,
                   raised, fault>>

Frozen_NotYet == SetLife(suite, "running")
Frozen == SetLife(suite, "paused")

PauseSuite ==
    /\ pc = "pause"
    /\ \/ Frozen /\ Healthy /\ Goto("read") /\ UNCHANGED error
       \/ /\ SetLife(suite, "running") \/ SetLife(suite, "paused")
          /\ FailInSuite("short")
    /\ UNCHANGED <<validation, suite, exit, junit, outcomes, result, raised>>

(* Evidence that is not a small regular file raises the same exception as a  *)
(* daemon that does not answer; a missing file is evidence of its own.       *)
ReadEvidence ==
    /\ pc = "read"
    /\ \/ FailInSuite("short") /\ UNCHANGED junit
       \/ /\ box[suite].evidence = "unreadable"
          /\ error' = "short" /\ Healthy /\ Goto("discard") /\ UNCHANGED junit
       \/ /\ box[suite].evidence # "unreadable"
          /\ junit' = box[suite].evidence
          /\ Healthy /\ Goto("discard") /\ UNCHANGED error
    /\ UNCHANGED <<box, validation, suite, exit, outcomes, result, raised>>

DiscardFails_Quiet == RemovalFails(suite) /\ Faulty /\ UNCHANGED error

(* The finally clause of run_suite: a failed removal raises, unless an       *)
(* earlier exception is in flight; either way the container is forgotten.    *)
DiscardFails ==
    /\ RemovalFails(suite)
    /\ Faulty
    /\ error' = IF error = NoError THEN "short" ELSE error

DiscardSuite ==
    /\ pc = "discard"
    /\ \/ Removed(suite) /\ Healthy /\ UNCHANGED error
       \/ DiscardFails
    /\ Goto("judge")
    /\ UNCHANGED <<validation, suite, exit, junit, outcomes, result, raised>>

-----------------------------------------------------------------------------
(* The pipeline's judgement *)

(* An exception left run_suite. *)
UnwindSuite ==
    /\ pc = "judge" /\ error # NoError
    /\ Handle(error)
    /\ Goto("close")
    /\ UNCHANGED <<box, validation, suite, exit, junit, error, outcomes, fault>>

SuitePassed == exit = 0 /\ ~TimedOut(exit) /\ junit = "passing"

NextSuite_Retries ==
    suite' = (IF exit = 0 THEN suite + 1 ELSE suite) /\ Goto("suites") /\ UNCHANGED result
NextSuite == suite' = suite + 1 /\ Goto("suites") /\ UNCHANGED result

(* A suite that exits with 0 owes usable evidence. *)
Misconfigured == exit = 0 /\ junit \in Unusable

(* _evaluate_suite.  Evidence the result models cannot hold makes it raise. *)
EvaluateSuite ==
    /\ pc = "judge" /\ error = NoError
    /\ \/ /\ junit = "unrepresentable"
          /\ result' = "sandbox_infrastructure" /\ Goto("close")
          /\ UNCHANGED <<outcomes, suite>>
       \/ /\ junit # "unrepresentable"
          /\ outcomes' = Append(outcomes, [exit |-> exit, junit |-> junit,
                                           passed |-> SuitePassed])
          /\ \/ /\ Misconfigured
                /\ result' = "verifier_configuration" /\ Goto("close")
                /\ UNCHANGED suite
             \/ ~Misconfigured /\ NextSuite
    /\ UNCHANGED <<box, validation, exit, junit, error, raised, fault>>

Failed == {i \in DOMAIN outcomes : ~outcomes[i].passed}

FailureKind(i) ==
    IF TimedOut(outcomes[i].exit) THEN "test_timeout"
    ELSE IF SuiteNames[i] = "regression" THEN "regression_tests"
    ELSE "target_tests"

Verdict_LastFailure ==
    IF Failed = {} THEN "passed"
    ELSE FailureKind(CHOOSE i \in Failed : \A j \in Failed : j <= i)

(* The first suite that failed names the failure. *)
Verdict ==
    IF Failed = {} THEN "passed"
    ELSE FailureKind(CHOOSE i \in Failed : \A j \in Failed : i <= j)

Conclude ==
    /\ pc = "suites" /\ ~SuitesLeft
    /\ result' = Verdict
    /\ Goto("close")
    /\ UNCHANGED <<box, validation, suite, exit, junit, error, outcomes, raised,
                   fault>>

(* A container that could not be removed replaces whatever was decided. *)
CloseFails == RemovalFails(0) /\ Faulty /\ result' = "sandbox_infrastructure"

Close ==
    /\ pc = "close"
    /\ \/ ~validation /\ Healthy /\ UNCHANGED <<box, result>>
       \/ validation /\ Removed(0) /\ Healthy /\ UNCHANGED result
       \/ validation /\ CloseFails
    /\ validation' = FALSE
    /\ Goto("return")
    /\ UNCHANGED <<suite, exit, junit, error, outcomes, raised>>

Return ==
    /\ pc = "return"
    /\ Goto("done")
    /\ UNCHANGED <<box, validation, suite, exit, junit, error, outcomes, result,
                   raised, fault>>

Done == pc = "done" /\ UNCHANGED vars

Next ==
    \/ InspectPatch \/ Create \/ Baseline \/ InspectEntries \/ ApplyPatch
    \/ ChangedPaths \/ BeginSuite \/ SpawnSuite \/ PrepareSuite \/ ReapplyPatch
    \/ StageTests \/ ExecuteSuite \/ Scribble \/ PauseSuite \/ ReadEvidence
    \/ DiscardSuite \/ UnwindSuite \/ EvaluateSuite \/ Conclude \/ Close
    \/ Return \/ Done

Spec == Init /\ [][Next]_vars

-----------------------------------------------------------------------------
(* Properties *)

(* The type invariant: verify()'s locals, the sandbox's two references and   *)
(* the containers stay in their ranges.                                      *)
TypeOK ==
    /\ pc \in Locations
    /\ box \in [0 .. SuiteCount -> Boxes]
    /\ validation \in BOOLEAN
    /\ suite \in 1 .. SuiteCount + 1
    /\ exit \in ExitCodes
    /\ junit \in Evidence
    /\ error \in Lengths \cup {NoError}
    /\ outcomes \in Seq(Outcomes) /\ Len(outcomes) <= SuiteCount
    /\ result \in Results
    /\ raised \in BOOLEAN
    /\ fault \in BOOLEAN

(* A pass is earned: every suite ran, in a container of its own holding the  *)
(* approved patch and the hidden tests, exited with 0 and left evidence that *)
(* every expected test passed; every container is gone and no Docker         *)
(* operation failed on the way.                                              *)
PassIsEarned ==
    pc = "done" /\ result = "passed" /\ ~raised =>
        /\ ~fault
        /\ Len(outcomes) = SuiteCount
        /\ \A i \in Suites :
              /\ outcomes[i].exit = 0 /\ outcomes[i].junit = "passing"
              /\ box[i].ran /\ box[i].patched /\ box[i].hidden = HiddenTests
        /\ \A i \in DOMAIN box : box[i].life = "removed"

(* Hidden tests are never on the machine together with a container that has  *)
(* run Git on the raw patch: they only enter a suite container that holds    *)
(* the approved patch, after the validation container is gone.               *)
HiddenTestsIsolated ==
    \A i \in DOMAIN box : box[i].hidden =>
        i # 0 /\ box[i].patched /\ box[0].life = "removed"

(* Suites are isolated from one another and from the validation: there are   *)
(* never two containers, even when removals fail.                            *)
AtMostOneContainer ==
    \A i, j \in DOMAIN box :
        box[i].life \in Present /\ box[j].life \in Present => i = j

(* A suite is judged on evidence that nothing changed after it was read: no  *)
(* process the tests left behind gets between the read and the verdict.      *)
EvidenceFrozen ==
    /\ \A i \in DOMAIN outcomes : outcomes[i].junit = box[i].evidence
    /\ pc = "judge" /\ error = NoError => junit = box[suite].evidence

(* A container that outlives the verification is reported, as an             *)
(* infrastructure error or as the exception of an infrastructure error.      *)
LeakIsReported ==
    pc = "done" /\ (\E i \in DOMAIN box : box[i].life \in Present) =>
        raised \/ result \in InfrastructureKinds

(* A verdict on the patch names what happened: the rejections come before    *)
(* any suite; test failures come after all suites and name the first that    *)
(* failed; regression_tests implies that the suites before it passed; an     *)
(* unusable report of a suite that exited with 0 is never held against it.   *)
VerdictMatchesEvidence ==
    pc = "done" /\ ~raised =>
        /\ result \in Rejections => \A i \in Suites : box[i].life = "absent"
        /\ result \in TestFailures =>
              /\ Len(outcomes) = SuiteCount
              /\ \A i \in Suites : ~(outcomes[i].exit = 0 /\ outcomes[i].junit \in Unusable)
              /\ \E i \in Suites :
                    /\ \A j \in 1 .. i - 1 : outcomes[j].passed
                    /\ ~outcomes[i].passed
                    /\ result = FailureKind(i)

(* No suite sees what another suite or the patch's validation left behind:   *)
(* hidden tests meet only patched containers of their own, one container     *)
(* exists at a time, and what is judged was frozen before.                   *)
SuitesAreApart ==
    /\ HiddenTestsIsolated
    /\ AtMostOneContainer
    /\ EvidenceFrozen

(* The answer is what happened: a pass was earned by every suite, a failure  *)
(* names the phase or the suite that failed first, and a container that      *)
(* could not be removed is told.                                             *)
AnswerIsTrue ==
    /\ PassIsEarned
    /\ VerdictMatchesEvidence
    /\ LeakIsReported

-----------------------------------------------------------------------------
(* verify() keeps the contract its caller relies on: with the verdict taken  *)
(* when it returns, each of its steps is a step of VerifierContract or none. *)
Status ==
    IF pc # "done" THEN "pending"
    ELSE IF raised THEN "exception"
    ELSE IF result = "passed" THEN "passed"
    ELSE IF result \in InfrastructureKinds THEN "infrastructure_error"
    ELSE "agent_failure"

Contract == INSTANCE VerifierContract WITH
    SuiteCount <- SuiteCount,
    tally <- [i \in DOMAIN outcomes |-> outcomes[i].passed],
    healthy <- ~fault,
    verdict <- Status

KeepsContract == Contract!ContractSpec

-----------------------------------------------------------------------------
(* What the documentation says and verify() does not do. *)

(* docs/ARCHITECTURE.md:286: "Agent-caused resource exhaustion is not        *)
(* reclassified as infrastructure failure."  A verification in which no      *)
(* infrastructure operation failed is not reported as a failure of the       *)
(* sandbox infrastructure.                                                   *)
AgentFailuresStayAgentFailures ==
    pc = "done" /\ result = "sandbox_infrastructure" => fault

(* docs/ARCHITECTURE.md:177: verification "then emits `pass`,                *)
(* `agent_failure`, or `infrastructure_error` with structured evidence": it  *)
(* always answers, and never raises into its caller.                         *)
VerifyAnswers == pc = "done" => ~raised
=============================================================================
