-------------------------------- MODULE Scoring --------------------------------
(***************************************************************************)
(* How the collector turns the rollouts of one task into rewards and       *)
(* evaluation records: _reward, _suite_fraction and _evaluation_record of  *)
(* rollouts/collector.py, over every trajectory and verification the       *)
(* runner and the verifier can give it.                                    *)
(***************************************************************************)
EXTENDS Reward, Sequences

CONSTANTS
    ConfigChoices,   \* reward weights an experiment may configure
    GroupSize,       \* candidates scored per task
    CostFractions    \* shares of invalid actions, steps and tokens considered

ASSUME ScoringAssumption ==
    /\ ConfigChoices \subseteq RewardConfigs
    /\ GroupSize \in Nat
    /\ CostFractions \subseteq Fractions

VARIABLES
    weights,    \* RolloutCollectionConfig.reward
    baseline,   \* runtime.baseline_target_pass_fraction
    scored      \* one entry per candidate: signals, reward and record

vars == <<weights, baseline, scored>>

(* What _reward reads of a trajectory.  infrastructure: the reasons           *)
(* infrastructure_error and policy_error; budget: the four budget reasons.    *)
Trajectories ==
    [reason : {"budget", "infrastructure", "other"}, has_patch : BOOLEAN,
     invalid_actions : CostFractions, steps : CostFractions, tokens : CostFractions]

(* A SuiteVerification: a report, when there is one, tells how many of its   *)
(* cases passed; a suite that passed has a report in which all of them did.  *)
NoReport == -1
Suites == {suite \in [passed : BOOLEAN, fraction : Fractions \cup {NoReport}] :
              suite.passed => suite.fraction = Scale}
NoSuite == [passed |-> FALSE, fraction |-> NoReport]

(* Verifier.verify's answers.  violation: the failure kind is patch_policy   *)
(* or unsafe_repository_entry.  A rejection has no suites and a verdict has  *)
(* both; an infrastructure error may have some.                              *)
Answers ==
    [status : {"none", "pass", "agent_failure", "infrastructure_error"},
     violation : BOOLEAN, accepted : BOOLEAN, regression : Suites, target : Suites]

Unverified == [status |-> "none", violation |-> FALSE, accepted |-> FALSE,
               regression |-> NoSuite, target |-> NoSuite]

Rejections == {v \in Answers : /\ v.status = "agent_failure"
                               /\ v.violation \/ v.accepted
                               /\ v.regression = NoSuite /\ v.target = NoSuite}

BothPassed(v) == v.regression.passed /\ v.target.passed

Verdicts == {v \in Answers : /\ ~v.violation /\ v.accepted
                             /\ v.status = IF BothPassed(v) THEN "pass"
                                                            ELSE "agent_failure"}

Breakdowns == {v \in Answers : /\ v.status = "infrastructure_error"
                               /\ ~v.violation /\ v.accepted}

(* Only a patch with a changed path and a hunk is accepted, so an empty one  *)
(* is always rejected by the patch policy.                                   *)
Verifications(trajectory) ==
    IF trajectory.reason = "infrastructure" THEN {Unverified}
    ELSE IF trajectory.has_patch THEN Rejections \cup Verdicts \cup Breakdowns
    ELSE {v \in Rejections : ~v.accepted}

(* _suite_fraction: a suite that did not pass never counts as complete, even *)
(* when every case of its report passed.                                     *)
SuiteFraction(suite) ==
    IF suite.fraction = NoReport \/ (~suite.passed /\ suite.fraction = Scale)
    THEN 0
    ELSE suite.fraction

InfrastructureError(trajectory, verification) ==
    \/ trajectory.reason = "infrastructure"
    \/ verification.status \in {"none", "infrastructure_error"}

ValidPatch(trajectory, verification) ==
    trajectory.has_patch /\ verification.accepted

(* The signals of _reward. *)
Signals(trajectory, verification) ==
    LET target == SuiteFraction(verification.target)
    IN  [target |-> target,
         progress |-> target - baseline,
         regression |-> SuiteFraction(verification.regression),
         valid_patch |-> ValidPatch(trajectory, verification),
         policy_violation |-> verification.violation,
         invalid_actions |-> trajectory.invalid_actions,
         steps |-> trajectory.steps,
         tokens |-> trajectory.tokens,
         budget_exhausted |-> trajectory.reason = "budget",
         infrastructure_error |-> InfrastructureError(trajectory, verification)]

(* _evaluation_record, what the report reads of it. *)
Record(trajectory, verification) ==
    [success |-> verification.status = "pass",
     infrastructure_error |-> InfrastructureError(trajectory, verification),
     policy_violation |-> verification.violation,
     valid_patch |-> ValidPatch(trajectory, verification)]

Scores ==
    [reward : [eligible : BOOLEAN, success : BOOLEAN, total : Int],
     record : [success : BOOLEAN, infrastructure_error : BOOLEAN,
               policy_violation : BOOLEAN, valid_patch : BOOLEAN]]

Score(trajectory, verification) ==
    [reward |-> Reward(Signals(trajectory, verification), weights),
     record |-> Record(trajectory, verification)]

Init ==
    /\ weights \in {w \in ConfigChoices : SuccessDominates(w)}
    /\ baseline \in Fractions
    /\ scored = <<>>

CandidatesLeft_OneMore == Len(scored) <= GroupSize
CandidatesLeft == Len(scored) < GroupSize

ScoreCandidate ==
    /\ CandidatesLeft
    /\ \E trajectory \in Trajectories : \E verification \in Verifications(trajectory) :
          scored' = Append(scored, Score(trajectory, verification))
    /\ UNCHANGED <<weights, baseline>>

Done == ~CandidatesLeft /\ UNCHANGED vars

Next == ScoreCandidate \/ Done

Spec == Init /\ [][Next]_vars

-----------------------------------------------------------------------------
(* Properties *)

(* The type invariant: the configuration in use was accepted by its          *)
(* validator, and a group never has more than group_size candidates.         *)
TypeOK ==
    /\ weights \in ConfigChoices /\ SuccessDominates(weights)
    /\ baseline \in Fractions
    /\ scored \in Seq(Scores)
    /\ Len(scored) <= GroupSize

Eligible == {i \in DOMAIN scored : scored[i].reward.eligible}

(* Within a group the rewards order the rollouts as the experiment means     *)
(* them to: a violation of the patch policy scores below every other         *)
(* failure, and every failure below every success, whatever partial          *)
(* progress, cost and penalties add.                                         *)
RewardsRank ==
    \A i, j \in Eligible :
        /\ scored[i].record.success /\ ~scored[j].record.success =>
              scored[i].reward.total > scored[j].reward.total
        /\ scored[i].record.policy_violation /\ ~scored[j].record.policy_violation =>
              scored[i].reward.total < scored[j].reward.total

(* Reward and evaluation record are computed separately from the same        *)
(* verification and never disagree on what was achieved or on whether the    *)
(* infrastructure is to blame.                                               *)
RewardAgreesWithRecord ==
    \A i \in DOMAIN scored :
        /\ scored[i].reward.success <=> scored[i].record.success
        /\ scored[i].reward.eligible <=> ~scored[i].record.infrastructure_error

(* Scores order rollouts as their records do: a success above every failure, *)
(* a breach of the patch policy below all others, and never a reward for     *)
(* what the record calls a failure.                                          *)
ScoresAreRight == RewardsRank /\ RewardAgreesWithRecord
=============================================================================
