---------------------------- MODULE LearningProofs ----------------------------
(* What holds of what becomes of rollouts, component by component: of their  *)
(* rewards (Scoring), for all accepted weights, every baseline and every     *)
(* resolution of the fractions; of the stores that keep them (Store), for    *)
(* any number of writers, contents and names; of the fine-tuning that learns *)
(* from them (SFT), for any rollouts, of whatever kinds, and any number of   *)
(* preparations and runs; of the conversations that are trained on           *)
(* (Conversation), for any sizes of issues, replies and observations, any    *)
(* number of steps, and any bound that leaves room for the floors; and of    *)
(* the comparison of two methods (Evaluation), for any records of any tasks, *)
(* and any number of draws.                                                  *)
EXTENDS MCLearning, FiniteSetTheorems, WellFoundedInduction, TLAPS

-----------------------------------------------------------------------------
(* Rewards rank violations below other failures and failures below           *)
(* successes.                                                                *)

(* A share of an amount is between nothing and the whole amount. *)
LEMMA Share ==
    ASSUME NEW amount \in Nat, NEW whole \in Nat, NEW share \in 0 .. whole
    PROVE  /\ amount * share \in 0 .. amount * whole
           /\ amount * whole \in Nat
<1>1. amount * share >= 0
  OBVIOUS
<1>2. amount * (whole - share) >= 0
  OBVIOUS
<1>3. amount * (whole - share) = amount * whole - amount * share
  OBVIOUS
<1>4. QED
  BY <1>1, <1>2, <1>3

(* An accepted configuration, in the units of a total: the bonus outweighs   *)
(* everything a failure may earn and a success may lose.                     *)
Floor(w) == Unit(w.success_bonus) - Unit(w.target_progress) - Unit(w.cost)
            - Unit(w.invalid_action) - Unit(w.budget_exhausted)
Ceiling(w) == Unit(w.target_progress) + Unit(w.regression) + Unit(w.valid_patch)

(* Every weight counts as a natural number of units. *)
LEMMA UnitType ==
    ASSUME NEW weight \in Nat
    PROVE  Unit(weight) \in Nat
BY ScaleAssumption, Share DEF ScaleAssumption, Unit

LEMMA AcceptedFloor ==
    ASSUME NEW w \in RewardConfigs, SuccessDominates(w)
    PROVE  Floor(w) > Ceiling(w)
<1> DEFINE surplus == w.success_bonus - (w.target_progress + w.cost + w.invalid_action
                          + w.budget_exhausted)
                      - (w.target_progress + w.regression + w.valid_patch)
<1>1. /\ w.success_bonus \in Nat /\ w.target_progress \in Nat /\ w.regression \in Nat
      /\ w.valid_patch \in Nat /\ w.cost \in Nat /\ w.invalid_action \in Nat
      /\ w.budget_exhausted \in Nat
  BY DEF RewardConfigs
<1>2. surplus \in Nat /\ surplus > 0
  BY <1>1 DEF SuccessDominates
<1>3. 2 * Scale \in Nat /\ 2 * Scale > 0
  BY ScaleAssumption DEF ScaleAssumption
<1>4. 2 * Scale * surplus > 0
  <2> HIDE DEF surplus
  <2>1. QED
    BY <1>2, <1>3
<1>5. Floor(w) - Ceiling(w) = 2 * Scale * surplus
  BY <1>1, <1>3 DEF Floor, Ceiling, Unit
<1>6. /\ Unit(w.success_bonus) \in Nat /\ Unit(w.target_progress) \in Nat
      /\ Unit(w.regression) \in Nat /\ Unit(w.valid_patch) \in Nat /\ Unit(w.cost) \in Nat
      /\ Unit(w.invalid_action) \in Nat /\ Unit(w.budget_exhausted) \in Nat
  BY <1>1, UnitType
<1>7. Floor(w) \in Int /\ Ceiling(w) \in Int
  BY <1>6 DEF Floor, Ceiling
<1> HIDE DEF surplus
<1>8. QED
  BY <1>4, <1>5, <1>7, <1>2, <1>3

(* No component of a reward is worth more than its whole weight. *)
LEMMA Components ==
    ASSUME NEW w \in RewardConfigs, NEW s \in RewardSignals
    PROVE  /\ 2 * w.target_progress * s.progress \in -Unit(w.target_progress) .. Unit(w.target_progress)
           /\ 2 * w.regression * s.regression \in 0 .. Unit(w.regression)
           /\ When(s.valid_patch, Unit(w.valid_patch)) \in 0 .. Unit(w.valid_patch)
           /\ 2 * w.invalid_action * s.invalid_actions \in 0 .. Unit(w.invalid_action)
           /\ w.cost * NormalizedCost(s) \in 0 .. Unit(w.cost)
           /\ When(s.budget_exhausted, Unit(w.budget_exhausted)) \in 0 .. Unit(w.budget_exhausted)
<1>1. /\ w.success_bonus \in Nat /\ w.target_progress \in Nat /\ w.regression \in Nat
      /\ w.valid_patch \in Nat /\ w.cost \in Nat /\ w.invalid_action \in Nat
      /\ w.budget_exhausted \in Nat
  BY DEF RewardConfigs
<1>2. Scale \in Nat /\ Scale > 0
  BY ScaleAssumption DEF ScaleAssumption
<1>3. /\ s.progress \in -Scale .. Scale /\ s.regression \in 0 .. Scale
      /\ s.invalid_actions \in 0 .. Scale /\ s.steps \in 0 .. Scale /\ s.tokens \in 0 .. Scale
  BY DEF RewardSignals, Fractions
<1>4. ASSUME NEW amount \in Nat, NEW share \in 0 .. Scale
      PROVE  2 * amount * share \in 0 .. Unit(amount)
  <2>1. amount * share \in 0 .. amount * Scale /\ amount * Scale \in Nat
    BY <1>2, Share
  <2>2. 2 * amount * share = 2 * (amount * share) /\ Unit(amount) = 2 * (amount * Scale)
    BY <1>2 DEF Unit
  <2>3. QED
    BY <2>1, <2>2
<1>5. 2 * w.target_progress * s.progress \in -Unit(w.target_progress) .. Unit(w.target_progress)
  <2>1. CASE s.progress >= 0
    <3>1. 2 * w.target_progress * s.progress \in 0 .. Unit(w.target_progress)
      BY <1>1, <1>2, <1>3, <1>4, <2>1
    <3>2. QED
      BY <3>1, <1>1, UnitType
  <2>2. CASE s.progress < 0
    <3>1. -s.progress \in 0 .. Scale
      BY <1>2, <1>3, <2>2
    <3>2. 2 * w.target_progress * (-s.progress) \in 0 .. Unit(w.target_progress)
      BY <1>1, <1>4, <3>1
    <3>3. 2 * w.target_progress * (-s.progress) = -(2 * w.target_progress * s.progress)
      BY <1>1, <1>2, <1>3
    <3>4. 2 * w.target_progress * s.progress \in Int
      BY <1>1, <1>2, <1>3
    <3>5. QED
      BY <3>2, <3>3, <3>4, <1>1, UnitType
  <2>3. QED
    BY <1>2, <1>3, <2>1, <2>2
<1>6. w.cost * NormalizedCost(s) \in 0 .. Unit(w.cost)
  <2>1. NormalizedCost(s) \in 0 .. 2 * Scale /\ 2 * Scale \in Nat
    BY <1>2, <1>3 DEF NormalizedCost
  <2>2. w.cost * NormalizedCost(s) \in 0 .. w.cost * (2 * Scale)
    BY <1>1, <2>1, Share
  <2>3. w.cost * (2 * Scale) = Unit(w.cost)
    BY <1>1, <1>2 DEF Unit
  <2>4. QED
    BY <2>2, <2>3
<1>7. /\ 2 * w.regression * s.regression \in 0 .. Unit(w.regression)
      /\ 2 * w.invalid_action * s.invalid_actions \in 0 .. Unit(w.invalid_action)
  BY <1>1, <1>3, <1>4
<1>8. ASSUME NEW condition, NEW amount \in Nat
      PROVE  When(condition, Unit(amount)) \in 0 .. Unit(amount)
  BY UnitType DEF When
<1>9. QED
  BY <1>1, <1>5, <1>6, <1>7, <1>8

(* Where the total of a success, of a violation and of any other failure lies. *)
LEMMA TotalRange ==
    ASSUME NEW w \in RewardConfigs, NEW s \in RewardSignals
    PROVE  /\ Total(s, w) \in Int
           /\ Success(s) => Total(s, w) >= Floor(w)
           /\ ~Success(s) => Total(s, w) <= Ceiling(w)
           /\ s.policy_violation => Total(s, w) <= Ceiling(w) - Unit(w.success_bonus)
           /\ ~s.policy_violation => Total(s, w) >= Floor(w) - Unit(w.success_bonus)
<1>1. /\ Unit(w.success_bonus) \in Nat /\ Unit(w.target_progress) \in Nat
      /\ Unit(w.regression) \in Nat /\ Unit(w.valid_patch) \in Nat /\ Unit(w.cost) \in Nat
      /\ Unit(w.invalid_action) \in Nat /\ Unit(w.budget_exhausted) \in Nat
  BY UnitType DEF RewardConfigs
<1> DEFINE p == 2 * w.target_progress * s.progress
           r == 2 * w.regression * s.regression
           v == When(s.valid_patch, Unit(w.valid_patch))
           i == 2 * w.invalid_action * s.invalid_actions
           c == w.cost * NormalizedCost(s)
           b == When(s.budget_exhausted, Unit(w.budget_exhausted))
           gain == When(Success(s), Unit(w.success_bonus))
           loss == When(s.policy_violation, Unit(w.success_bonus))
<1>2. /\ p \in -Unit(w.target_progress) .. Unit(w.target_progress)
      /\ r \in 0 .. Unit(w.regression) /\ v \in 0 .. Unit(w.valid_patch)
      /\ i \in 0 .. Unit(w.invalid_action) /\ c \in 0 .. Unit(w.cost)
      /\ b \in 0 .. Unit(w.budget_exhausted)
  BY Components
<1>3. /\ Success(s) => gain = Unit(w.success_bonus) /\ loss = 0
      /\ ~Success(s) => gain = 0
      /\ s.policy_violation => gain = 0 /\ loss = Unit(w.success_bonus)
      /\ ~s.policy_violation => loss = 0
      /\ gain \in {0, Unit(w.success_bonus)} /\ loss \in {0, Unit(w.success_bonus)}
  BY DEF Success, When
<1>4. Total(s, w) = gain + p + r + v - loss - i - c - b
  BY DEF Total
<1> HIDE DEF p, r, v, i, c, b, gain, loss
<1>5. QED
  BY <1>1, <1>2, <1>3, <1>4 DEF Floor, Ceiling

-----------------------------------------------------------------------------
(* From totals to scores *)

(* Every score of the group is one the collector could give. *)
Earned == \A i \in DOMAIN scored :
    \E trajectory \in Trajectories : \E verification \in Verifications(trajectory) :
        scored[i] = Score(trajectory, verification)

ScoringInv == TypeOK /\ Earned

(* A suite's fraction is complete exactly when the suite passed. *)
LEMMA CompleteFraction ==
    ASSUME NEW suite \in Suites
    PROVE  /\ SuiteFraction(suite) \in Fractions
           /\ suite.passed <=> SuiteFraction(suite) = Scale
BY ScaleAssumption DEF ScaleAssumption, Suites, SuiteFraction, NoReport, Fractions

(* The suite that did not run is a suite that did not pass. *)
LEMMA NoSuiteFacts == NoSuite \in Suites /\ ~NoSuite.passed
BY DEF NoSuite, Suites, NoReport

(* What verify() may answer. *)
LEMMA VerificationFacts ==
    ASSUME NEW trajectory \in Trajectories, NEW v \in Verifications(trajectory)
    PROVE  /\ v.target \in Suites /\ v.regression \in Suites
           /\ v.violation \in BOOLEAN /\ v.accepted \in BOOLEAN
           /\ v.status \in {"none", "pass", "agent_failure", "infrastructure_error"}
           /\ v.status = "pass" => /\ v.target.passed /\ v.regression.passed
                                   /\ trajectory.has_patch /\ v.accepted /\ ~v.violation
                                   /\ trajectory.reason # "infrastructure"
           /\ v.status = "agent_failure" => ~(v.target.passed /\ v.regression.passed)
<1>1. CASE v = Unverified
  BY <1>1, NoSuiteFacts DEF Unverified
<1>2. CASE v \in Rejections
  BY <1>2, NoSuiteFacts DEF Rejections, Answers
<1>3. CASE v \in Verdicts /\ trajectory.has_patch /\ trajectory.reason # "infrastructure"
  BY <1>3 DEF Verdicts, Answers, BothPassed
<1>4. CASE v \in Breakdowns
  BY <1>4 DEF Breakdowns, Answers
<1>5. QED
  BY <1>1, <1>2, <1>3, <1>4 DEF Verifications

(* The signals computed from a trajectory and its verification are valid. *)
LEMMA SignalsType ==
    ASSUME TypeOK, NEW trajectory \in Trajectories, NEW v \in Verifications(trajectory)
    PROVE  Signals(trajectory, v) \in RewardSignals
<1>1. /\ v.target \in Suites /\ v.regression \in Suites
      /\ v.violation \in BOOLEAN /\ v.accepted \in BOOLEAN
  BY VerificationFacts
<1>2. /\ SuiteFraction(v.target) \in Fractions /\ SuiteFraction(v.regression) \in Fractions
  BY <1>1, CompleteFraction
<1>3. SuiteFraction(v.target) - baseline \in -Scale .. Scale
  BY <1>2, ScaleAssumption DEF ScaleAssumption, Fractions, TypeOK
<1>4. /\ trajectory.has_patch \in BOOLEAN /\ trajectory.invalid_actions \in Fractions
      /\ trajectory.steps \in Fractions /\ trajectory.tokens \in Fractions
  BY ScoringAssumption DEF ScoringAssumption, Trajectories
<1>5. /\ InfrastructureError(trajectory, v) \in BOOLEAN /\ ValidPatch(trajectory, v) \in BOOLEAN
  BY <1>1, <1>4 DEF InfrastructureError, ValidPatch
<1>6. QED
  BY <1>1, <1>2, <1>3, <1>4, <1>5 DEF Signals, RewardSignals

(* The signals say success exactly when the verifier passed the patch. *)
LEMMA SuccessIsPass ==
    ASSUME TypeOK, NEW trajectory \in Trajectories, NEW v \in Verifications(trajectory),
           ~InfrastructureError(trajectory, v)
    PROVE  Success(Signals(trajectory, v)) <=> v.status = "pass"
<1>1. v.status \in {"pass", "agent_failure"}
  BY VerificationFacts DEF InfrastructureError
<1>2. /\ v.target.passed <=> SuiteFraction(v.target) = Scale
      /\ v.regression.passed <=> SuiteFraction(v.regression) = Scale
  BY VerificationFacts, CompleteFraction
<1>3. Success(Signals(trajectory, v)) <=>
         /\ SuiteFraction(v.target) = Scale /\ SuiteFraction(v.regression) = Scale
         /\ trajectory.has_patch /\ v.accepted /\ ~v.violation
  BY DEF Success, Signals, ValidPatch
<1>4. QED
  BY <1>1, <1>2, <1>3, VerificationFacts

(* What a score says, in terms of the trajectory and the verification. *)
LEMMA ScoreFacts ==
    ASSUME TypeOK, NEW trajectory \in Trajectories, NEW v \in Verifications(trajectory)
    PROVE  LET score == Score(trajectory, v)
               s == Signals(trajectory, v)
           IN  /\ score \in Scores
               /\ score.reward.eligible <=> ~score.record.infrastructure_error
               /\ score.reward.success <=> score.record.success
               /\ score.reward.eligible =>
                     /\ score.reward.total = Total(s, weights)
                     /\ score.record.success <=> Success(s)
                     /\ score.record.policy_violation <=> s.policy_violation
<1> DEFINE score == Score(trajectory, v)
           s == Signals(trajectory, v)
<1>1. s \in RewardSignals /\ weights \in RewardConfigs
  BY SignalsType, ScoringAssumption DEF ScoringAssumption, TypeOK
<1>2. Total(s, weights) \in Int
  BY <1>1, TotalRange
<1>3. s.infrastructure_error = InfrastructureError(trajectory, v) /\ s.policy_violation = v.violation
  BY DEF Signals
<1>4. /\ InfrastructureError(trajectory, v) \in BOOLEAN /\ ValidPatch(trajectory, v) \in BOOLEAN
      /\ v.violation \in BOOLEAN
  BY VerificationFacts DEF InfrastructureError, ValidPatch, Trajectories
<1>5. InfrastructureError(trajectory, v) => v.status # "pass"
  BY VerificationFacts DEF InfrastructureError
<1>6. ~InfrastructureError(trajectory, v) => (Success(s) <=> v.status = "pass")
  BY SuccessIsPass
<1>7. /\ score.reward = Reward(s, weights)
      /\ score.record = [success |-> v.status = "pass",
                         infrastructure_error |-> InfrastructureError(trajectory, v),
                         policy_violation |-> v.violation,
                         valid_patch |-> ValidPatch(trajectory, v)]
      /\ score = [reward |-> score.reward, record |-> score.record]
  BY DEF Score, Record
<1> HIDE DEF s, score
<1>8. /\ score.reward.eligible = ~InfrastructureError(trajectory, v)
      /\ score.reward.success = (~InfrastructureError(trajectory, v) /\ Success(s))
      /\ score.reward.total = IF InfrastructureError(trajectory, v) THEN 0
                                                                    ELSE Total(s, weights)
      /\ score.reward = [eligible |-> score.reward.eligible,
                         success |-> score.reward.success, total |-> score.reward.total]
  BY <1>3, <1>7 DEF Reward
<1>9. score.reward \in [eligible : BOOLEAN, success : BOOLEAN, total : Int]
  <2>1. Success(s) \in BOOLEAN /\ (~InfrastructureError(trajectory, v)) \in BOOLEAN
    BY DEF Success
  <2>2. score.reward.success \in BOOLEAN /\ score.reward.eligible \in BOOLEAN
    BY <1>8, <2>1
  <2>3. score.reward.total \in Int
    BY <1>2, <1>8
  <2>4. QED
    BY <1>8, <2>2, <2>3
<1>10. score.record \in [success : BOOLEAN, infrastructure_error : BOOLEAN,
                         policy_violation : BOOLEAN, valid_patch : BOOLEAN]
  BY <1>4, <1>7
<1>11. score \in Scores
  BY <1>7, <1>9, <1>10 DEF Scores
<1>12. /\ score.record.infrastructure_error = InfrastructureError(trajectory, v)
       /\ score.record.success = (v.status = "pass")
       /\ score.record.policy_violation = s.policy_violation
  BY <1>3, <1>7
<1>13. /\ score.reward.eligible <=> ~score.record.infrastructure_error
       /\ score.reward.success <=> score.record.success
  BY <1>5, <1>6, <1>8, <1>12
<1>14. score.reward.eligible =>
          /\ score.reward.total = Total(s, weights)
          /\ score.record.success <=> Success(s)
          /\ score.record.policy_violation <=> s.policy_violation
  BY <1>6, <1>8, <1>12
<1>15. QED
  BY <1>11, <1>13, <1>14 DEF s, score

-----------------------------------------------------------------------------
(* Every step adds a score that was earned. *)
LEMMA ScoringInvariant == Spec => []ScoringInv
<1>1. Init => ScoringInv
  BY ScoringAssumption DEF ScoringAssumption, Init, ScoringInv, TypeOK, Earned, Fractions
<1>2. ScoringInv /\ [Next]_vars => ScoringInv'
  <2> SUFFICES ASSUME ScoringInv, [Next]_vars
               PROVE  ScoringInv'
    OBVIOUS
  <2>1. CASE ScoreCandidate
    <3>0. PICK trajectory \in Trajectories :
             \E v \in Verifications(trajectory) :
                scored' = Append(scored, Score(trajectory, v))
      BY <2>1 DEF ScoreCandidate
    <3>1. PICK v \in Verifications(trajectory) :
             scored' = Append(scored, Score(trajectory, v))
      BY <3>0
    <3> DEFINE new == Score(trajectory, v)
    <3>2. new \in Scores
      BY ScoreFacts DEF ScoringInv
    <3>3. UNCHANGED <<weights, baseline>> /\ Len(scored) < GroupSize
      BY <2>1 DEF ScoreCandidate, CandidatesLeft
    <3>4. scored \in Seq(Scores) /\ scored' = Append(scored, new)
      BY <3>1 DEF ScoringInv, TypeOK
    <3> HIDE DEF new
    <3>5. /\ scored' \in Seq(Scores) /\ Len(scored') = Len(scored) + 1
          /\ \A i \in DOMAIN scored' :
                \/ i \in DOMAIN scored /\ scored'[i] = scored[i]
                \/ scored'[i] = new
      BY <3>2, <3>4
    <3>6. TypeOK'
      BY <3>3, <3>5, ScoringAssumption DEF ScoringAssumption, ScoringInv, TypeOK
    <3>7. \A t \in Trajectories : \A a \in Verifications(t) : Score(t, a)' = Score(t, a)
      BY <3>3 DEF Score, Signals
    <3>8. Earned'
      BY <3>1, <3>5, <3>7 DEF ScoringInv, Earned, new
    <3>9. QED
      BY <3>6, <3>8 DEF ScoringInv
  <2>2. CASE UNCHANGED vars
    BY <2>2 DEF ScoringInv, TypeOK, Earned, vars, Score, Signals
  <2>3. QED
    BY <2>1, <2>2 DEF Next, Done
<1>3. QED
  BY <1>1, <1>2, PTL DEF Spec

(* Type correctness of Scoring. *)
THEOREM ScoringTypeCorrect == Spec => []TypeOK
<1>1. ScoringInv => TypeOK
  BY DEF ScoringInv
<1>2. QED
  BY <1>1, ScoringInvariant, PTL

(* Reward and evaluation record never disagree. *)
THEOREM RewardsAgreeWithRecords == Spec => []RewardAgreesWithRecord
<1>1. ScoringInv => RewardAgreesWithRecord
  BY ScoreFacts DEF ScoringInv, Earned, RewardAgreesWithRecord
<1>2. QED
  BY <1>1, ScoringInvariant, PTL

(* For all accepted weights every success scores above every failure, and    *)
(* every violation of the patch policy below every other rollout.            *)
THEOREM RewardsAreRanked == Spec => []RewardsRank
<1>1. ScoringInv => RewardsRank
  <2> SUFFICES ASSUME ScoringInv, NEW i \in Eligible, NEW j \in Eligible
               PROVE  /\ scored[i].record.success /\ ~scored[j].record.success =>
                            scored[i].reward.total > scored[j].reward.total
                      /\ scored[i].record.policy_violation /\ ~scored[j].record.policy_violation =>
                            scored[i].reward.total < scored[j].reward.total
    BY DEF RewardsRank
  <2>1. ASSUME NEW k \in Eligible
        PROVE  \E s \in RewardSignals :
                  /\ scored[k].reward.total = Total(s, weights)
                  /\ scored[k].record.success <=> Success(s)
                  /\ scored[k].record.policy_violation <=> s.policy_violation
    <3>0. PICK trajectory \in Trajectories :
             \E v \in Verifications(trajectory) : scored[k] = Score(trajectory, v)
      BY DEF ScoringInv, Earned, Eligible
    <3>1. PICK v \in Verifications(trajectory) : scored[k] = Score(trajectory, v)
      BY <3>0
    <3>2. Signals(trajectory, v) \in RewardSignals
      BY SignalsType DEF ScoringInv
    <3>3. QED
      BY <3>1, <3>2, ScoreFacts DEF ScoringInv, Eligible
  <2>2. PICK s \in RewardSignals : /\ scored[i].reward.total = Total(s, weights)
                                   /\ scored[i].record.success <=> Success(s)
                                   /\ scored[i].record.policy_violation <=> s.policy_violation
    BY <2>1
  <2>3. PICK f \in RewardSignals : /\ scored[j].reward.total = Total(f, weights)
                                   /\ scored[j].record.success <=> Success(f)
                                   /\ scored[j].record.policy_violation <=> f.policy_violation
    BY <2>1
  <2>4. weights \in RewardConfigs /\ Floor(weights) > Ceiling(weights)
    BY AcceptedFloor, ScoringAssumption DEF ScoringAssumption, ScoringInv, TypeOK
  <2>5. Floor(weights) \in Int /\ Ceiling(weights) \in Int /\ Unit(weights.success_bonus) \in Int
    BY <2>4, UnitType DEF RewardConfigs, Floor, Ceiling
  <2>6. QED
    BY <2>2, <2>3, <2>4, <2>5, TotalRange
<1>2. QED
  BY <1>1, ScoringInvariant, PTL

(* Scores order rollouts as their records do, and agree with them.           *)
THEOREM ScoresStayRight == Spec => []ScoresAreRight
<1>1. RewardsRank /\ RewardAgreesWithRecord => ScoresAreRight
  BY DEF ScoresAreRight
<1>2. QED
  BY <1>1, RewardsAreRanked, RewardsAgreeWithRecords, PTL

-----------------------------------------------------------------------------
(* The stores are write-once registers: what a writer holds between its      *)
(* steps is enough to know that it will link a whole content and tell the    *)
(* truth about it.                                                           *)

(* What a writer knows at each of its steps.                                 *)
WriterInv(w) ==
    LET state == writer[w] IN
    /\ state.pc # "idle" /\ state.name \in ArtifactNames => state.payload = state.name.key
    /\ state.pc = "link" => state.temp = state.payload
    /\ state.pc = "unlink" =>
         /\ state.outcome \in Outcomes
         /\ state.outcome = "stored" => files[state.name] = state.payload
         /\ state.outcome = "collision" =>
              files[state.name] # Nothing /\ state.name \in TrajectoryNames

AnswerInv(w) ==
    told[w] # Nothing =>
        /\ told[w].outcome = "stored" => files[told[w].name] = told[w].payload
        /\ told[w].outcome = "collision" => files[told[w].name] # Nothing
        /\ told[w].outcome = "collision" => told[w].name \in TrajectoryNames

WritersInv == \A w \in Writers : WriterInv(w)

StoreInv == StoreTypeOK /\ ArtifactsAreTheirDigests /\ WritersInv /\ AnswersStayTrue

(* What is proved of each step.                                              *)
StepIsSound == StoreInv' /\ [Contract!Next]_<<files, told>>

-----------------------------------------------------------------------------
(* A busy writer's record, and that of an idle one.                          *)
LEMMA BusyState ==
    ASSUME StoreTypeOK, NEW w \in Writers, writer[w].pc # "idle"
    PROVE  writer[w] \in Busy
  BY DEF StoreTypeOK, Idle, Busy

(* The two kinds of names are disjoint.                                      *)
LEMMA NamesApart == \A n \in Names : n \notin ArtifactNames => n \in TrajectoryNames
  BY DEF Names

-----------------------------------------------------------------------------
(* A step that leaves the files alone keeps what is said of them.            *)
LEMMA FilesKept ==
    ASSUME StoreInv, UNCHANGED files, NEW w \in Writers,
           \A v \in Writers : v # w => writer'[v] = writer[v] /\ told'[v] = told[v],
           WriterInv(w)', AnswerInv(w)'
    PROVE  ArtifactsAreTheirDigests' /\ WritersInv' /\ AnswersStayTrue'
<1>1. ArtifactsAreTheirDigests'
  BY DEF StoreInv, ArtifactsAreTheirDigests
<1>2. ASSUME NEW v \in Writers PROVE WriterInv(v)' /\ AnswerInv(v)'
  <2>1. CASE v = w
    BY <2>1
  <2>2. CASE v # w
    BY <2>2 DEF StoreInv, WritersInv, WriterInv, AnswersStayTrue, AnswerInv
  <2> QED
    BY <2>1, <2>2
<1> QED
  BY <1>1, <1>2 DEF WritersInv, AnswersStayTrue, AnswerInv

(* What is told: the writer's own operation, with this outcome.              *)
LEMMA TellStep ==
    ASSUME StoreInv, NEW w \in Writers, NEW outcome \in Outcomes, writer[w].pc # "idle",
           Tell(w, outcome), UNCHANGED files,
           outcome = "stored" => files[writer[w].name] = writer[w].payload,
           outcome = "collision" =>
               files[writer[w].name] # Nothing /\ writer[w].name \in TrajectoryNames
    PROVE  StepIsSound
<1> DEFINE answer == [name |-> writer[w].name, payload |-> writer[w].payload, outcome |-> outcome]
<1>1. writer[w] \in Busy
  BY BusyState DEF StoreInv
<1>2. answer \in StoreAnswers
  BY <1>1 DEF StoreAnswers, Busy
<1>3. told'[w] = answer /\ writer'[w] = Idle
  BY DEF Tell, StoreInv, StoreTypeOK
<1>4. \A v \in Writers : v # w => writer'[v] = writer[v] /\ told'[v] = told[v]
  BY DEF Tell, StoreInv, StoreTypeOK
<1>5. StoreTypeOK'
  BY <1>2 DEF Tell, StoreInv, StoreTypeOK
<1>6. WriterInv(w)'
  BY <1>3 DEF WriterInv, Idle
<1>7. AnswerInv(w)'
  BY <1>3 DEF AnswerInv
<1>8. answer \in Contract!Answers
  BY <1>2 DEF StoreAnswers, Contract!Answers
<1>9. Contract!Tell(w)
  <2>1. told' = [told EXCEPT ![w] = told'[w]]
    BY <1>3 DEF Tell
  <2> QED
    BY <1>3, <1>8, <2>1 DEF Contract!Tell
<1>10. StoreInv'
  BY <1>4, <1>5, <1>6, <1>7, FilesKept DEF StoreInv
<1> QED
  BY <1>9, <1>10 DEF StepIsSound, Contract!Next

(* The writer goes on, and neither files nor answers change.                 *)
LEMMA MoveStep ==
    ASSUME StoreInv, NEW w \in Writers, NEW state \in Busy,
           writer' = [writer EXCEPT ![w] = state], UNCHANGED <<files, told>>,
           WriterInv(w)'
    PROVE  StepIsSound
<1>1. \A v \in Writers : v # w => writer'[v] = writer[v] /\ told'[v] = told[v]
  BY DEF StoreInv, StoreTypeOK
<1>2. StoreTypeOK'
  BY DEF StoreInv, StoreTypeOK
<1>3. AnswerInv(w)'
  BY DEF StoreInv, AnswersStayTrue, AnswerInv
<1>4. StoreInv'
  BY <1>1, <1>2, <1>3, FilesKept DEF StoreInv
<1> QED
  BY <1>4 DEF StepIsSound

-----------------------------------------------------------------------------
LEMMA BeginStep ==
    ASSUME StoreInv, NEW w \in Writers, NEW n \in Names, NEW p \in Payloads, Begin(w, n, p)
    PROVE  StepIsSound
<1> DEFINE state == [pc |-> "look", name |-> n, payload |-> p, temp |-> Nothing, outcome |-> Nothing]
<1>1. state \in Busy
  BY DEF Busy
<1>2. writer' = [writer EXCEPT ![w] = state]
  BY DEF Begin
<1>3. WriterInv(w)'
  BY <1>2 DEF WriterInv, Begin, StoreInv, StoreTypeOK
<1> HIDE DEF state
<1> QED
  BY <1>1, <1>2, <1>3, MoveStep DEF Begin

LEMMA LookStep ==
    ASSUME StoreInv, NEW w \in Writers, Look(w)
    PROVE  StepIsSound
<1> DEFINE there == files[writer[w].name]
<1>1. writer[w] \in Busy /\ writer[w].pc = "look"
  BY BusyState DEF Look, StoreInv
<1>2. CASE there = Nothing
  <2> DEFINE state == [writer[w] EXCEPT !.pc = "create"]
  <2>1. state \in Busy
    BY <1>1 DEF Busy
  <2>2. writer' = [writer EXCEPT ![w] = state] /\ UNCHANGED <<files, told>>
    BY <1>2 DEF Look, Goes
  <2>3. WriterInv(w)'
    BY <1>1, <2>2 DEF WriterInv, StoreInv, WritersInv, StoreTypeOK, Busy
  <2> HIDE DEF state
  <2> QED
    BY <2>1, <2>2, <2>3, MoveStep
<1>3. CASE there # Nothing
  <2>1. ASSUME there = writer[w].payload PROVE StepIsSound
    BY <1>1, <1>3, <2>1, TellStep DEF Look, Outcomes
  <2>2. ASSUME there # writer[w].payload PROVE StepIsSound
    <3>1. writer[w].name \in Names
      BY <1>1 DEF Busy
    <3>2. writer[w].name \in TrajectoryNames
      BY <1>1, <1>3, <2>2, <3>1, NamesApart
      DEF StoreInv, WritersInv, WriterInv, ArtifactsAreTheirDigests
    <3> QED
      BY <1>1, <1>3, <2>2, <3>2, TellStep DEF Look, Outcomes
  <2> QED
    BY <2>1, <2>2
<1> QED
  BY <1>2, <1>3

LEMMA CreateStep ==
    ASSUME StoreInv, NEW w \in Writers, Create(w)
    PROVE  StepIsSound
<1> DEFINE state == [writer[w] EXCEPT !.pc = "write", !.temp = Partial]
<1>1. writer[w] \in Busy /\ writer[w].pc = "create"
  BY BusyState DEF Create, StoreInv
<1>2. state \in Busy
  BY <1>1 DEF Busy
<1>3. writer' = [writer EXCEPT ![w] = state] /\ UNCHANGED <<files, told>>
  BY DEF Create
<1>4. WriterInv(w)'
  BY <1>1, <1>3 DEF WriterInv, StoreInv, WritersInv, StoreTypeOK, Busy
<1> HIDE DEF state
<1> QED
  BY <1>2, <1>3, <1>4, MoveStep

LEMMA WriteStep ==
    ASSUME StoreInv, NEW w \in Writers, Write(w)
    PROVE  StepIsSound
<1> DEFINE state == [writer[w] EXCEPT !.pc = "link", !.temp = writer[w].payload]
<1>1. writer[w] \in Busy /\ writer[w].pc = "write"
  BY BusyState DEF Write, StoreInv
<1>2. state \in Busy
  BY <1>1 DEF Busy
<1>3. writer' = [writer EXCEPT ![w] = state] /\ UNCHANGED <<files, told>>
  BY DEF Write
<1>4. WriterInv(w)'
  BY <1>1, <1>3 DEF WriterInv, StoreInv, WritersInv, StoreTypeOK, Busy
<1> HIDE DEF state
<1> QED
  BY <1>2, <1>3, <1>4, MoveStep

(* Leaving for the finally clause with an outcome that is true.              *)
LEMMA LeaveStep ==
    ASSUME StoreInv, NEW w \in Writers, NEW outcome \in Outcomes, writer[w].pc # "idle",
           Leaves(w, outcome), UNCHANGED <<files, told>>,
           outcome = "stored" => files[writer[w].name] = writer[w].payload,
           outcome = "collision" =>
               files[writer[w].name] # Nothing /\ writer[w].name \in TrajectoryNames
    PROVE  StepIsSound
<1> DEFINE state == [writer[w] EXCEPT !.pc = "unlink", !.outcome = outcome]
<1>1. writer[w] \in Busy
  BY BusyState DEF StoreInv
<1>2. state \in Busy
  BY <1>1 DEF Busy
<1>3. writer' = [writer EXCEPT ![w] = state]
  BY DEF Leaves
<1>4. WriterInv(w)'
  BY <1>1, <1>3 DEF WriterInv, StoreInv, WritersInv, StoreTypeOK, Busy
<1> HIDE DEF state
<1> QED
  BY <1>2, <1>3, <1>4, MoveStep

LEMMA LinkRefusedStep ==
    ASSUME StoreInv, NEW w \in Writers, LinkRefused(w)
    PROVE  StepIsSound
<1>1. writer[w] \in Busy /\ writer[w].pc = "link" /\ files[writer[w].name] # Nothing
  BY BusyState DEF LinkRefused, StoreInv
<1>2. CASE writer[w].name \in ArtifactNames
  <2>1. files[writer[w].name] = writer[w].payload
    BY <1>1, <1>2 DEF StoreInv, WritersInv, WriterInv, ArtifactsAreTheirDigests
  <2> QED
    BY <1>1, <1>2, <2>1, LeaveStep DEF LinkRefused, Outcomes
<1>3. CASE writer[w].name \notin ArtifactNames
  <2>1. writer[w].name \in TrajectoryNames
    BY <1>1, <1>3, NamesApart DEF Busy
  <2> QED
    BY <1>1, <1>3, <2>1, LeaveStep DEF LinkRefused, Outcomes
<1> QED
  BY <1>2, <1>3

LEMMA FailStep ==
    ASSUME StoreInv, NEW w \in Writers, StepFails(w)
    PROVE  StepIsSound
  BY LeaveStep DEF StepFails, Outcomes

LEMMA UnlinkStep ==
    ASSUME StoreInv, NEW w \in Writers, Unlink(w)
    PROVE  StepIsSound
<1>1. PICK outcome \in {writer[w].outcome, "error"} : Tell(w, outcome)
  BY DEF Unlink
<1>2. WriterInv(w) /\ writer[w].pc = "unlink"
  BY DEF StoreInv, WritersInv, Unlink
<1>3. outcome \in Outcomes
  BY <1>2 DEF WriterInv, Outcomes
<1> QED
  BY <1>1, <1>2, <1>3, TellStep DEF WriterInv, Unlink

LEMMA KillStep ==
    ASSUME StoreInv, NEW w \in Writers, Kill(w)
    PROVE  StepIsSound
  BY TellStep DEF Kill, Outcomes

(* The one step that changes the files: a name nobody has, a whole content.  *)
LEMMA LinkStep ==
    ASSUME StoreInv, NEW w \in Writers, Link(w)
    PROVE  StepIsSound
<1> DEFINE state == [writer[w] EXCEPT !.pc = "unlink", !.outcome = "stored"]
           name == writer[w].name
           payload == writer[w].payload
<1>1. writer[w] \in Busy /\ writer[w].pc = "link" /\ WriterInv(w)
  BY BusyState DEF Link, StoreInv, WritersInv
<1>2. /\ state \in Busy /\ state.name = name /\ state.payload = payload
      /\ state.pc = "unlink" /\ state.outcome = "stored"
  BY <1>1 DEF Busy, Outcomes
<1>3. writer' = [writer EXCEPT ![w] = state] /\ UNCHANGED told
  BY DEF Link, Leaves
<1>4. name \in Names /\ payload \in Payloads /\ (name \in ArtifactNames => payload = name.key)
  BY <1>1 DEF Busy, WriterInv
<1>5. files[name] = Nothing /\ files' = [files EXCEPT ![name] = payload]
  BY <1>1 DEF Link, WriterInv
<1>6. payload # Nothing
  BY <1>4, StoreAssumption DEF StoreAssumption
<1> HIDE DEF state, name, payload
<1>7. StoreTypeOK'
  BY <1>2, <1>3, <1>4, <1>5 DEF StoreInv, StoreTypeOK
<1>8. ArtifactsAreTheirDigests'
  <2> SUFFICES ASSUME NEW n \in ArtifactNames PROVE files'[n] \in {n.key, Nothing}
    BY DEF ArtifactsAreTheirDigests
  <2>1. n \in Names
    BY DEF Names
  <2> QED
    BY <1>4, <1>5, <2>1 DEF StoreInv, ArtifactsAreTheirDigests, StoreTypeOK
<1>9. \A n \in Names : files[n] # Nothing => files'[n] = files[n]
  BY <1>5 DEF StoreInv, StoreTypeOK
<1>10. files'[name] = payload
  BY <1>4, <1>5 DEF StoreInv, StoreTypeOK
<1>11. ASSUME NEW v \in Writers PROVE WriterInv(v)'
  <2>1. CASE v = w
    <3>1. writer'[v] = state
      BY <1>3, <2>1 DEF StoreInv, StoreTypeOK
    <3> QED
      BY <1>2, <1>4, <1>10, <3>1 DEF WriterInv, Outcomes
  <2>2. CASE v # w
    <3>1. writer'[v] = writer[v] /\ WriterInv(v)
      BY <1>3, <2>2 DEF StoreInv, StoreTypeOK, WritersInv
    <3>2. ASSUME writer[v].pc = "unlink", writer[v].outcome \in {"stored", "collision"}
          PROVE  files'[writer[v].name] = files[writer[v].name]
      <4>1. writer[v] \in Busy
        BY <3>2, BusyState DEF StoreInv
      <4>2. files[writer[v].name] # Nothing
        BY <3>1, <3>2, <4>1, StoreAssumption DEF WriterInv, Busy, StoreAssumption
      <4> QED
        BY <1>9, <4>1, <4>2 DEF Busy
    <3> QED
      BY <3>1, <3>2 DEF WriterInv
  <2> QED
    BY <2>1, <2>2
<1>12. ASSUME NEW v \in Writers PROVE AnswerInv(v)'
  <2>1. told'[v] = told[v] /\ AnswerInv(v)
    BY <1>3 DEF StoreInv, AnswersStayTrue, AnswerInv
  <2>2. ASSUME told[v] # Nothing, told[v].outcome \in {"stored", "collision"}
        PROVE  files'[told[v].name] = files[told[v].name]
    <3>1. told[v] \in StoreAnswers
      BY <2>2 DEF StoreInv, StoreTypeOK
    <3>2. files[told[v].name] # Nothing
      BY <2>1, <2>2, <3>1, StoreAssumption DEF AnswerInv, StoreAnswers, StoreAssumption
    <3> QED
      BY <1>9, <3>1, <3>2 DEF StoreAnswers
  <2> QED
    BY <2>1, <2>2 DEF AnswerInv
<1>13. StoreInv'
  BY <1>7, <1>8, <1>11, <1>12 DEF StoreInv, WritersInv, AnswersStayTrue, AnswerInv
<1>14. Contract!Store(name, payload)
  BY <1>3, <1>5 DEF Contract!Store
<1> QED
  BY <1>4, <1>13, <1>14 DEF StepIsSound, Contract!Next

-----------------------------------------------------------------------------
LEMMA WriterStep ==
    ASSUME StoreInv, NEW w \in Writers, Writer(w)
    PROVE  StepIsSound
  BY BeginStep, LookStep, CreateStep, WriteStep, LinkStep, LinkRefusedStep, FailStep, UnlinkStep,
     KillStep
  DEF Writer

LEMMA StoreInitInv == StoreInit => StoreInv
<1> SUFFICES ASSUME StoreInit PROVE StoreInv
  OBVIOUS
<1>1. StoreTypeOK
  BY DEF StoreInit, StoreTypeOK
<1>2. ArtifactsAreTheirDigests
  BY DEF StoreInit, ArtifactsAreTheirDigests, Names
<1>3. WritersInv
  BY DEF StoreInit, WritersInv, WriterInv, Idle
<1>4. AnswersStayTrue
  BY DEF StoreInit, AnswersStayTrue
<1> QED
  BY <1>1, <1>2, <1>3, <1>4 DEF StoreInv

LEMMA StoreStutterInv == ASSUME StoreInv, UNCHANGED storeVars PROVE StoreInv'
<1>1. StoreTypeOK'
  BY DEF StoreInv, StoreTypeOK, storeVars
<1>2. ArtifactsAreTheirDigests'
  BY DEF StoreInv, ArtifactsAreTheirDigests, storeVars
<1>3. WritersInv'
  BY DEF StoreInv, WritersInv, WriterInv, storeVars
<1>4. AnswersStayTrue'
  BY DEF StoreInv, AnswersStayTrue, storeVars
<1> QED
  BY <1>1, <1>2, <1>3, <1>4 DEF StoreInv

LEMMA StoreNextInv == StoreInv /\ [StoreNext]_storeVars => StoreInv'
<1> SUFFICES ASSUME StoreInv, [StoreNext]_storeVars PROVE StoreInv'
  OBVIOUS
<1>1. ASSUME NEW w \in Writers, Writer(w) PROVE StoreInv'
  BY <1>1, WriterStep DEF StepIsSound
<1> QED
  BY <1>1, StoreStutterInv DEF StoreNext

(* The store's invariant holds for any writers, contents and names, whatever *)
(* fails or is killed in put_bytes and append.                               *)
THEOREM StoreInvariant == StoreSpec => []StoreInv
<1> QED
  BY StoreInitInv, StoreNextInv, PTL DEF StoreSpec

-----------------------------------------------------------------------------
(* Theorems                                                                  *)

(* Every variable keeps its type.                                            *)
THEOREM StoreTypeCorrect == StoreSpec => []StoreTypeOK
<1>1. StoreInv => StoreTypeOK
  BY DEF StoreInv
<1> QED
  BY <1>1, StoreInvariant, PTL

(* A linked artifact is the content its name is the digest of.               *)
THEOREM ArtifactsAreGenuine == StoreSpec => []ArtifactsAreTheirDigests
<1>1. StoreInv => ArtifactsAreTheirDigests
  BY DEF StoreInv
<1> QED
  BY <1>1, StoreInvariant, PTL

(* What a writer was told stays true.                                        *)
THEOREM AnswersAreTrue == StoreSpec => []AnswersStayTrue
<1>1. StoreInv => AnswersStayTrue
  BY DEF StoreInv
<1> QED
  BY <1>1, StoreInvariant, PTL

(* The detailed stores implement the write-once registers: the link stores,  *)
(* the end of an operation tells, every other step changes nothing.          *)
THEOREM StoreImplements == StoreSpec => KeepsContract
<1>1. StoreInit => Contract!Init
  BY DEF StoreInit, Contract!Init
<1>2. StoreInv /\ [StoreNext]_storeVars => [Contract!Next]_<<files, told>>
  <2> SUFFICES ASSUME StoreInv, [StoreNext]_storeVars PROVE [Contract!Next]_<<files, told>>
    OBVIOUS
  <2>1. ASSUME NEW w \in Writers, Writer(w) PROVE [Contract!Next]_<<files, told>>
    BY <2>1, WriterStep DEF StepIsSound
  <2> QED
    BY <2>1 DEF StoreNext, storeVars
<1> QED
  BY <1>1, <1>2, StoreInvariant, PTL DEF StoreSpec, KeepsContract, Contract!Spec

-----------------------------------------------------------------------------
(* Fine-tuning trains on verified successes only and says what it refused.   *)

(* A record of the split: of a passing trajectory, no action of which was    *)
(* invalid.                                                                  *)
TrainingRecords == {TrainingRecord(t, v) : t \in Rollouts, v \in Versions}

IsSuccess(r, split) ==
    /\ r \in TrainingRecords
    /\ kind[r.trajectory].verdict = "passed" /\ kind[r.trajectory].split = split
    /\ ~kind[r.trajectory].invalid

Teaches(r) ==
    /\ IsSuccess(r, "train")
    /\ ~kind[r.trajectory].separator /\ ~kind[r.trajectory].long

Inputs == [{"train"} -> RecordSets \cup {NoFile}] \cup [Files -> RecordSets \cup {NoFile}]
Adapters == [trained : RecordSets, whole : BOOLEAN]
RunPcs == {"idle", "train", "validation", "fit", "save", "tokenizer", "manifest",
           "manifest_open", "unlink"}

Preparations == [pc : {"idle", "open", "write"}, file : Files, records : RecordSets,
                 count : Nat, last : {"none", "gathered", "raised", "stopped"}]

Manifests == [whole : BOOLEAN, adapter : {None} \cup Adapters, evidence : {None} \cup Inputs]

Directories ==
    [partial : {None} \cup [evidence : Inputs], manifest : {None} \cup Manifests,
     adapter : {None} \cup Adapters, checkpoint : {None} \cup [trained : RecordSets],
     rejected : [Files -> RecordSets \cup {NoFile}]]

Runs == [pc : RunPcs, count : Nat, evidence : {None} \cup Inputs, base : RecordSets,
         accepted : [Files -> RecordSets], refused : [Files -> RecordSets]]

SFTTypes ==
    /\ kind \in [Rollouts -> Kinds] /\ stored \subseteq Rollouts
    /\ file \in [Files -> RecordSets \cup {NoFile}]
    /\ temporary \in [Files -> RecordSets \cup {NoFile}]
    /\ prep.pc = "write" => temporary[prep.file] \in RecordSets
    /\ prep \in Preparations
    /\ dir \in Directories
    /\ run \in Runs

(* What is being prepared, and every file, is the whole of what one          *)
(* preparation gathered, successes of the split, and not nothing.            *)
Preparing ==
    /\ prep.pc = "idle" <=> prep.records = {}
    /\ prep.pc # "idle" =>
         prep.records \in gathered /\ \A r \in prep.records : IsSuccess(r, prep.file)
    /\ \A f \in Files : file[f] # NoFile =>
         file[f] \in gathered /\ file[f] # {} /\ \A r \in file[f] : IsSuccess(r, f)

(* The manifest tells of the adapter that is there.                          *)
Told ==
    /\ dir.manifest # None /\ dir.manifest.whole = TRUE
    /\ dir.adapter # None /\ dir.adapter.whole = TRUE
    /\ dir.manifest.adapter = dir.adapter

(* While a run is at work, and after it stopped, the directory is marked.    *)
Marked ==
    /\ run.pc # "idle" =>
         /\ dir.partial # None /\ file["train"] # NoFile
         /\ "validation" \in DOMAIN run.evidence => file["validation"] # NoFile
    /\ run.pc = "validation" => file["validation"] # NoFile
    /\ run.pc \in {"tokenizer", "manifest", "manifest_open", "unlink"} => dir.adapter # None
    /\ run.pc \in {"manifest", "manifest_open", "unlink"} => dir.adapter.whole = TRUE
    /\ run.pc = "unlink" => Told
    /\ dir.partial = None => dir = EmptyDir \/ Told

Learned ==
    /\ \A r \in run.base \cup run.accepted["train"] : Teaches(r)
    /\ dir.adapter # None => \A r \in dir.adapter.trained : Teaches(r)
    /\ dir.checkpoint # None => \A r \in dir.checkpoint.trained : Teaches(r)

Reported ==
    /\ ReportsAreTrue
    /\ run.pc = "train" => ~Built("validation")
    /\ \A f \in Files : run.accepted[f] \cap run.refused[f] = {}

SFTInv == SFTTypes /\ Preparing /\ Marked /\ Learned /\ Reported

(* A record is not the mark of a missing one, so a set of records is a file. *)
LEMMA RecordsAreSome ==
    /\ \A r \in TrainingRecords : r # None
    /\ RecordSets = SUBSET TrainingRecords
    /\ \A s \in RecordSets : s # NoFile /\ None \notin s
<1>1. ASSUME NEW t, NEW v
      PROVE  TrainingRecord(t, v) # None
  <2>1. "none" \in DOMAIN None /\ "none" \notin DOMAIN TrainingRecord(t, v)
    BY DEF None, TrainingRecord
  <2>2. QED
    BY <2>1
<1>2. \A r \in TrainingRecords : r # None
  BY <1>1 DEF TrainingRecords
<1>3. QED
  BY <1>2 DEF RecordSets, TrainingRecords, NoFile

(* A partial manifest, an adapter, a checkpoint is not the mark of none.     *)
LEMMA StructuresAreSome ==
    /\ \A e : [evidence |-> e] # None
    /\ \A t : [trained |-> t] # None
    /\ \A t, w : [trained |-> t, whole |-> w] # None
    /\ \A w, a, e : [whole |-> w, adapter |-> a, evidence |-> e] # None
<1>1. DOMAIN None = {"none"}
  BY DEF None
<1>2. /\ \A e : DOMAIN [evidence |-> e] = {"evidence"}
      /\ \A t : DOMAIN [trained |-> t] = {"trained"}
      /\ \A t, w : DOMAIN [trained |-> t, whole |-> w] = {"trained", "whole"}
      /\ \A w, a, e : DOMAIN [whole |-> w, adapter |-> a, evidence |-> e]
                       = {"whole", "adapter", "evidence"}
  OBVIOUS
<1>3. QED
  BY <1>1, <1>2

LEMMA SFTInitInv == SFTInit => SFTInv
<1> SUFFICES ASSUME SFTInit
             PROVE  SFTInv
  OBVIOUS
<1>1. {} \in RecordSets
  BY DEF RecordSets
<1>2. SFTTypes
  BY <1>1 DEF SFTInit, SFTTypes, Preparations, Directories, Runs, IdlePrep, EmptyDir, IdleRun, Files, RunPcs
<1>3. Preparing
  BY DEF SFTInit, Preparing, IdlePrep
<1>4. Marked
  BY DEF SFTInit, Marked, IdleRun
<1>5. Learned
  BY DEF SFTInit, Learned, IdleRun, EmptyDir, Files
<1>6. Reported
  BY DEF SFTInit, Reported, ReportsAreTrue, Built, Files, IdleRun
<1>7. QED
  BY <1>2, <1>3, <1>4, <1>5, <1>6 DEF SFTInv

-----------------------------------------------------------------------------
(* The steps of a preparation keep the invariant.                            *)

LEMMA PreparationTypes ==
    ASSUME SFTTypes, Prepare
    PROVE  SFTTypes'
<1> USE DEF SFTTypes
<1>1. ASSUME NEW f \in Files, NEW v \in Versions, Gather(f, v)
      PROVE  SFTTypes'
  <2>1. {TrainingRecord(t, v) : t \in Successes(f)} \in RecordSets
    BY DEF RecordSets, Successes
  <2> DEFINE R == {TrainingRecord(t, v) : t \in Successes(f)}
             n == prep.count + 1
  <2>2. \/ prep' = [prep EXCEPT !.count = n, !.file = f, !.last = "raised"]
        \/ prep' = [prep EXCEPT !.count = n, !.file = f, !.last = "gathered",
                                !.pc = "open", !.records = R]
    BY <1>1 DEF Gather
  <2>3. R \in RecordSets /\ n \in Nat
    BY <2>1 DEF Preparations
  <2>4. prep.pc = "idle" /\ prep \in Preparations /\ UNCHANGED <<kind, stored, file, temporary, dir, run>>
    BY <1>1 DEF Gather, runVars
  <2> HIDE DEF R, n
  <2>5. prep' \in Preparations /\ prep'.pc # "write"
    <3> HIDE DEF SFTTypes
    <3>1. CASE prep' = [prep EXCEPT !.count = n, !.file = f, !.last = "raised"]
      BY <2>3, <2>4, <3>1 DEF Preparations
    <3>2. CASE prep' = [prep EXCEPT !.count = n, !.file = f, !.last = "gathered",
                                    !.pc = "open", !.records = R]
      BY <2>3, <2>4, <3>2 DEF Preparations
    <3>3. QED
      BY <2>2, <3>1, <3>2
  <2>6. QED
    BY <2>4, <2>5
<1> USE DEF Preparations
<1>2. CASE Open
  <2>1. {} \in RecordSets
    BY DEF RecordSets
  <2>2. QED
    BY <1>2, <2>1 DEF Open, runVars
<1>3. CASE WriteRecords
  <2>1. PICK r \in prep.records \ temporary[prep.file] :
            temporary' = [temporary EXCEPT ![prep.file] = @ \cup {r}]
    BY <1>3 DEF WriteRecords
  <2>2. temporary[prep.file] \cup {r} \in RecordSets /\ prep.file \in Files
    BY <1>3, RecordsAreSome DEF WriteRecords
  <2>3. QED
    BY <1>3, <2>1, <2>2 DEF WriteRecords, runVars
<1>4. CASE Replace
  BY <1>4, RecordsAreSome DEF Replace, runVars
<1>5. CASE StopPreparing
  BY <1>5, RecordsAreSome DEF StopPreparing, runVars
<1>6. QED
  BY <1>1, <1>2, <1>3, <1>4, <1>5 DEF Prepare

LEMMA PreparationKeepsFiles ==
    ASSUME SFTTypes, Preparing, Prepare
    PROVE  /\ Preparing'
           /\ \A f \in Files : file[f] # NoFile => file'[f] # NoFile
<1> USE DEF SFTTypes, Preparations, Preparing
<1>1. ASSUME NEW f \in Files, NEW v \in Versions, Gather(f, v)
      PROVE  Preparing' /\ file' = file
  <2> DEFINE R == {TrainingRecord(t, v) : t \in Successes(f)}
  <2>1. \A r \in R : IsSuccess(r, f) \/ Raises(f)
    <3> SUFFICES ASSUME ~Raises(f), NEW t \in Successes(f)
                 PROVE  IsSuccess(TrainingRecord(t, v), f)
      OBVIOUS
    <3>1. t \in Rollouts /\ Verified(t, f) /\ ~kind[t].invalid
      BY DEF Raises, Successes
    <3>2. TrainingRecord(t, v) \in TrainingRecords /\ TrainingRecord(t, v).trajectory = t
      BY <3>1 DEF TrainingRecords, TrainingRecord
    <3>3. QED
      BY <3>1, <3>2 DEF IsSuccess, Verified
  <2>2. Raises(f) \/ R # {}
    BY DEF Raises
  <2>3. /\ prep.pc = "idle" /\ UNCHANGED <<kind, file>>
        /\ \/ /\ prep' = [prep EXCEPT !.count = @ + 1, !.file = f, !.last = "raised"]
              /\ gathered' = gathered
           \/ /\ prep' = [prep EXCEPT !.count = @ + 1, !.file = f, !.last = "gathered",
                                      !.pc = "open", !.records = R]
              /\ gathered' = gathered \cup {R} /\ ~Raises(f)
    BY <1>1 DEF Gather
  <2> HIDE DEF R
  <2>4. \A r \in R : IsSuccess(r, f)' \/ Raises(f)
    BY <2>1, <2>3 DEF IsSuccess
  <2>5. \A g \in Files : file'[g] # NoFile =>
            file'[g] \in gathered' /\ file'[g] # {} /\ \A r \in file'[g] : IsSuccess(r, g)'
    BY <2>3 DEF IsSuccess
  <2>6. CASE prep' = [prep EXCEPT !.count = @ + 1, !.file = f, !.last = "raised"]
    <3>1. prep'.pc = "idle" /\ prep'.records = {}
      BY <2>3, <2>6
    <3>2. QED
      BY <3>1, <2>3, <2>5
  <2>7. CASE /\ prep' = [prep EXCEPT !.count = @ + 1, !.file = f, !.last = "gathered",
                                      !.pc = "open", !.records = R]
             /\ gathered' = gathered \cup {R} /\ ~Raises(f)
    <3>1. prep'.pc = "open" /\ prep'.records = R /\ prep'.file = f
      BY <2>7
    <3>2. QED
      BY <3>1, <2>2, <2>3, <2>4, <2>5, <2>7
  <2>8. QED
    BY <2>3, <2>6, <2>7
<1>2. CASE Open \/ WriteRecords
  <2>1. UNCHANGED <<kind, file, gathered>>
    BY <1>2 DEF Open, WriteRecords
  <2>2. /\ prep'.records = prep.records /\ prep'.file = prep.file
        /\ prep.pc # "idle" /\ prep'.pc # "idle"
    BY <1>2 DEF Open, WriteRecords
  <2>3. QED
    BY <2>1, <2>2 DEF IsSuccess
<1>3. CASE Replace
  <2>1. /\ UNCHANGED <<kind, gathered>> /\ prep'.pc = "idle" /\ prep'.records = {}
        /\ file' = [file EXCEPT ![prep.file] = prep.records]
        /\ prep.pc = "write" /\ prep.records \in RecordSets
    BY <1>3 DEF Replace
  <2>2. \A g \in Files : file'[g] # NoFile =>
            file'[g] \in gathered' /\ file'[g] # {} /\ \A r \in file'[g] : IsSuccess(r, g)'
    BY <2>1 DEF IsSuccess
  <2>3. QED
    BY <2>1, <2>2, RecordsAreSome
<1>4. CASE StopPreparing
  <2>1. UNCHANGED <<kind, file, gathered>> /\ prep'.pc = "idle" /\ prep'.records = {}
    BY <1>4 DEF StopPreparing
  <2>2. QED
    BY <2>1 DEF IsSuccess
<1>5. QED
  BY <1>1, <1>2, <1>3, <1>4 DEF Prepare

(* One field of a directory or of a process is set.                          *)
LEMMA PartialSet ==
    ASSUME NEW d \in Directories, NEW x \in {None} \cup [evidence : Inputs]
    PROVE  [d EXCEPT !.partial = x] \in Directories
BY DEF Directories

LEMMA ManifestSet ==
    ASSUME NEW d \in Directories, NEW x \in Manifests
    PROVE  [d EXCEPT !.manifest = x] \in Directories
BY DEF Directories

LEMMA AdapterSet ==
    ASSUME NEW d \in Directories, NEW x \in Adapters
    PROVE  [d EXCEPT !.adapter = x] \in Directories
BY DEF Directories

LEMMA CheckpointSet ==
    ASSUME NEW d \in Directories, NEW x \in [trained : RecordSets]
    PROVE  [d EXCEPT !.checkpoint = x] \in Directories
BY DEF Directories

LEMMA RejectedSet ==
    ASSUME NEW d \in Directories, NEW f \in Files, NEW s \in RecordSets
    PROVE  [d EXCEPT !.rejected[f] = s] \in Directories
<1> DEFINE r == [d.rejected EXCEPT ![f] = s]
<1>1. r \in [Files -> RecordSets \cup {NoFile}]
  BY DEF Directories
<1>2. [d EXCEPT !.rejected[f] = s] = [d EXCEPT !.rejected = r]
  OBVIOUS
<1> HIDE DEF r
<1>3. [d EXCEPT !.rejected = r] \in Directories
  BY <1>1 DEF Directories
<1>4. QED
  BY <1>2, <1>3

LEMMA PcSet ==
    ASSUME NEW r \in Runs, NEW pc \in RunPcs
    PROVE  [r EXCEPT !.pc = pc] \in Runs
BY DEF Runs

LEMMA PartsSet ==
    ASSUME NEW r \in Runs, NEW pc \in RunPcs, NEW f \in Files,
           NEW s \in RecordSets, NEW t \in RecordSets
    PROVE  [r EXCEPT !.pc = pc, !.accepted[f] = s, !.refused[f] = t] \in Runs
<1> DEFINE a == [r.accepted EXCEPT ![f] = s]
           b == [r.refused EXCEPT ![f] = t]
<1>1. a \in [Files -> RecordSets] /\ b \in [Files -> RecordSets]
  BY DEF Runs
<1>2. [r EXCEPT !.pc = pc, !.accepted[f] = s, !.refused[f] = t]
      = [r EXCEPT !.pc = pc, !.accepted = a, !.refused = b]
  OBVIOUS
<1> HIDE DEF a, b
<1>3. [r EXCEPT !.pc = pc, !.accepted = a, !.refused = b] \in Runs
  BY <1>1 DEF Runs
<1>4. QED
  BY <1>2, <1>3

-----------------------------------------------------------------------------
(* The steps of a training run keep it.                                      *)

(* What the steps of a run do to its process and its directory.              *)
LEMMA TrainingKeeps ==
    ASSUME Train
    PROVE  UNCHANGED <<kind, stored, file, temporary, prep, gathered>>
BY DEF Train, Launch, Build, Checkpoint, Fit, SaveModel, SaveTokenizer, OpenManifest,
       WriteManifest, UnlinkManifest, StopTraining, At, prepVars

(* A file that a run reads.                                                  *)
LEMMA ReadFile ==
    ASSUME SFTTypes, Marked, NEW f \in Files, run.pc = f
    PROVE  file[f] \in RecordSets /\ Tokenized(file[f]) \in RecordSets
<1>1. file[f] # NoFile
  BY DEF Marked, Files
<1>2. file[f] \in RecordSets
  BY <1>1 DEF SFTTypes
<1>3. QED
  BY <1>2 DEF RecordSets, Tokenized

LEMMA TrainedType ==
    ASSUME SFTTypes
    PROVE  Trained \in RecordSets
BY DEF SFTTypes, Runs, Trained, RecordSets, Files

LEMMA LaunchTypes ==
    ASSUME SFTTypes, NEW resume \in BOOLEAN, NEW inputs \in {{"train"}, Files},
           Launch(resume, inputs)
    PROVE  dir' \in Directories /\ run' \in Runs
<1> DEFINE e == [f \in inputs |-> file[f]]
           n == run.count + 1
           b == IF resume THEN dir.checkpoint.trained ELSE {}
<1>1. e \in Inputs
  BY DEF SFTTypes, Inputs, Files
<1>2. n \in Nat
  BY DEF SFTTypes, Runs
<1>3. b \in RecordSets
  <2>1. {} \in RecordSets
    BY DEF RecordSets
  <2>2. dir.checkpoint \in {None} \cup [trained : RecordSets]
    BY DEF SFTTypes, Directories
  <2>3. QED
    BY <2>1, <2>2 DEF Launch
<1>4. /\ run' = [IdleRun EXCEPT !.pc = "train", !.count = n, !.evidence = e, !.base = b]
      /\ dir' = [dir EXCEPT !.partial = [evidence |-> e]]
  BY DEF Launch
<1> HIDE DEF e, n, b
<1>5. dir' \in Directories
  BY <1>1, <1>4, PartialSet DEF SFTTypes
<1>6. run' \in Runs
  <2>1. run' = [pc |-> "train", count |-> n, evidence |-> e, base |-> b,
                accepted |-> IdleRun.accepted, refused |-> IdleRun.refused]
    BY <1>4 DEF IdleRun
  <2>2. IdleRun.accepted \in [Files -> RecordSets] /\ IdleRun.refused \in [Files -> RecordSets]
    BY DEF IdleRun, RecordSets
  <2>3. QED
    BY <1>1, <1>2, <1>3, <2>1, <2>2 DEF Runs, RunPcs
<1>7. QED
  BY <1>5, <1>6

LEMMA BuildTypes ==
    ASSUME SFTTypes, Marked, NEW f \in Files, Build(f)
    PROVE  dir' \in Directories /\ run' \in Runs
<1> DEFINE tokenized == Tokenized(file[f])
           rest == file[f] \ tokenized
           next == IF f = "train" /\ "validation" \in DOMAIN run.evidence
                   THEN "validation" ELSE "fit"
           rejection == ReportOf(f)
<1>1. tokenized \in RecordSets /\ rest \in RecordSets
  BY ReadFile DEF Build, At, RecordSets
<1>2. next \in RunPcs /\ "idle" \in RunPcs
  BY DEF RunPcs
<1>3. rejection \in Files
  BY DEF ReportOf, Files
<1>4. /\ run \in Runs /\ dir \in Directories
      /\ \/ /\ run' = [run EXCEPT !.pc = next, !.accepted[f] = tokenized, !.refused[f] = rest]
            /\ dir' = [dir EXCEPT !.rejected[rejection] = rest]
         \/ run' = [run EXCEPT !.pc = "idle"] /\ dir' = dir
  BY DEF Build, Goto, SFTTypes
<1> HIDE DEF tokenized, rest, next, rejection
<1>5. dir' \in Directories
  BY <1>1, <1>3, <1>4, RejectedSet
<1>6. run' \in Runs
  <2>1. [run EXCEPT !.pc = "idle"] \in Runs
    BY <1>2, <1>4, PcSet
  <2>2. [run EXCEPT !.pc = next, !.accepted[f] = tokenized, !.refused[f] = rest] \in Runs
    BY <1>1, <1>2, <1>4, PartsSet
  <2>3. QED
    BY <1>4, <2>1, <2>2
<1>7. QED
  BY <1>5, <1>6

LEMMA TrainingTypes ==
    ASSUME SFTTypes, Marked, Train
    PROVE  SFTTypes'
<1> SUFFICES dir' \in Directories /\ run' \in Runs
  BY TrainingKeeps DEF SFTTypes
<1>1. dir \in Directories /\ run \in Runs
  BY DEF SFTTypes
<1>2. ASSUME NEW resume \in BOOLEAN, NEW inputs \in {{"train"}, Files}, Launch(resume, inputs)
      PROVE  dir' \in Directories /\ run' \in Runs
  BY <1>2, LaunchTypes
<1>3. ASSUME NEW f \in Files, Build(f)
      PROVE  dir' \in Directories /\ run' \in Runs
  BY <1>3, BuildTypes
<1>4. ASSUME NEW pc \in RunPcs, Goto(pc)
      PROVE  run' \in Runs
  BY <1>1, <1>4, PcSet DEF Goto
<1>5. /\ [trained |-> Trained, whole |-> FALSE] \in Adapters
      /\ [trained |-> Trained] \in [trained : RecordSets]
  BY TrainedType DEF Adapters
<1>6. CASE Checkpoint \/ Fit \/ StopTraining
  <2>1. run' = run \/ Goto("save") \/ Goto("idle")
    BY <1>6 DEF Checkpoint, Fit, StopTraining
  <2>2. run' \in Runs
    BY <1>1, <1>4, <2>1 DEF RunPcs
  <2>3. dir' = dir \/ dir' = [dir EXCEPT !.checkpoint = [trained |-> Trained]]
    BY <1>6 DEF Checkpoint, Fit, StopTraining
  <2>4. dir' \in Directories
    BY <1>1, <1>5, <2>3, CheckpointSet
  <2>5. QED
    BY <2>2, <2>4
<1>7. CASE SaveModel
  <2>1. dir' = [dir EXCEPT !.adapter = [trained |-> Trained, whole |-> FALSE]]
    BY <1>7 DEF SaveModel
  <2>2. dir' \in Directories
    BY <1>1, <1>5, <2>1, AdapterSet
  <2>3. QED
    BY <1>4, <1>7, <2>2 DEF SaveModel, RunPcs
<1>8. CASE SaveTokenizer
  <2>1. dir.adapter \in Adapters
    BY <1>1, <1>8 DEF SaveTokenizer, At, Marked, Directories
  <2>2. dir' = [dir EXCEPT !.adapter = [dir.adapter EXCEPT !.whole = TRUE]]
    BY <1>8 DEF SaveTokenizer
  <2>3. [dir.adapter EXCEPT !.whole = TRUE] \in Adapters
    BY <2>1 DEF Adapters
  <2>4. dir' \in Directories
    BY <1>1, <2>2, <2>3, AdapterSet
  <2>5. QED
    BY <1>4, <1>8, <2>4 DEF SaveTokenizer, RunPcs
<1>9. CASE OpenManifest \/ WriteManifest
  <2>1. [whole |-> FALSE, adapter |-> None, evidence |-> None] \in Manifests
    BY DEF Manifests
  <2>2. [whole |-> TRUE, adapter |-> dir.adapter, evidence |-> run.evidence] \in Manifests
    BY <1>1 DEF Manifests, Directories, Runs
  <2>3. PICK m \in Manifests : dir' = [dir EXCEPT !.manifest = m]
    BY <1>9, <2>1, <2>2 DEF OpenManifest, WriteManifest
  <2>4. dir' \in Directories
    BY <1>1, <2>3, ManifestSet
  <2>5. QED
    BY <1>4, <1>9, <2>4 DEF OpenManifest, WriteManifest, RunPcs
<1>10. CASE UnlinkManifest
  <2>1. dir' = [dir EXCEPT !.partial = None]
    BY <1>10 DEF UnlinkManifest
  <2>2. dir' \in Directories
    BY <1>1, <2>1, PartialSet
  <2>3. QED
    BY <1>4, <1>10, <2>2 DEF UnlinkManifest, RunPcs
<1>11. CASE \E f \in Files : Build(f)
  BY <1>3, <1>11
<1>12. QED
  BY <1>2, <1>6, <1>7, <1>8, <1>9, <1>10, <1>11 DEF Train

LEMMA LaunchMarks ==
    ASSUME SFTTypes, Marked, NEW resume \in BOOLEAN, NEW inputs \in {{"train"}, Files},
           Launch(resume, inputs)
    PROVE  Marked'
<1> DEFINE e == [f \in inputs |-> file[f]]
           n == run.count + 1
           b == IF resume THEN dir.checkpoint.trained ELSE {}
<1>1. /\ file' = file
      /\ run' = [IdleRun EXCEPT !.pc = "train", !.count = n, !.evidence = e, !.base = b]
      /\ dir' = [dir EXCEPT !.partial = [evidence |-> e]]
      /\ NoFile \notin {file[f] : f \in inputs}
  BY TrainingKeeps DEF Launch, At, prepVars
<1>2. DOMAIN e = inputs /\ "train" \in inputs
  BY DEF Files
<1> HIDE DEF e, n, b
<1>3. run'.pc = "train" /\ run'.evidence = e
  BY <1>1 DEF IdleRun
<1>4. dir'.partial = [evidence |-> e] /\ [evidence |-> e] # None
  BY <1>1, StructuresAreSome DEF SFTTypes, Directories
<1>5. file["train"] # NoFile /\ ("validation" \in inputs => file["validation"] # NoFile)
  BY <1>1, <1>2
<1>6. QED
  BY <1>1, <1>2, <1>3, <1>4, <1>5 DEF Marked

LEMMA BuildMarks ==
    ASSUME SFTTypes, Marked, NEW f \in Files, Build(f)
    PROVE  Marked'
<1>1. /\ run.pc = f /\ file' = file /\ run \in Runs /\ dir \in Directories
  BY DEF Build, At, prepVars, SFTTypes
<1>2. run.pc # "idle" /\ dir.partial # None /\ dir'.partial = dir.partial
  BY <1>1 DEF Build, Marked, Files, Directories
<1>3. CASE Goto("idle") /\ dir' = dir
  <2>1. run'.pc = "idle" /\ run'.evidence = run.evidence
    BY <1>1, <1>3 DEF Goto, Runs
  <2>2. QED
    BY <1>1, <1>2, <1>3, <2>1 DEF Marked, Told
<1>4. CASE ~(Goto("idle") /\ dir' = dir)
  <2> DEFINE next == IF f = "train" /\ "validation" \in DOMAIN run.evidence
                     THEN "validation" ELSE "fit"
             t == Tokenized(file[f])
             s == file[f] \ t
  <2>1. run' = [run EXCEPT !.pc = next, !.accepted[f] = t, !.refused[f] = s]
    BY <1>4 DEF Build
  <2> HIDE DEF t, s
  <2>2. run'.pc = next /\ run'.evidence = run.evidence
    BY <1>1, <2>1 DEF Runs
  <2>3. /\ file["train"] # NoFile
        /\ next = "validation" => file["validation"] # NoFile
        /\ "validation" \in DOMAIN run.evidence => file["validation"] # NoFile
    BY <1>1, <1>2 DEF Marked
  <2>4. next \in {"validation", "fit"}
    OBVIOUS
  <2> HIDE DEF next
  <2>5. QED
    BY <1>1, <1>2, <2>2, <2>3, <2>4 DEF Marked
<1>5. QED
  BY <1>3, <1>4

(* What the directory holds once the run goes on with its saving.            *)
LEMMA SavingMarks ==
    ASSUME SFTTypes, Marked,
           \/ Checkpoint \/ Fit \/ SaveModel \/ SaveTokenizer \/ OpenManifest
           \/ WriteManifest \/ UnlinkManifest \/ StopTraining
    PROVE  Marked'
<1>1. Train
  BY DEF Train
<1>2. file' = file /\ dir \in Directories /\ run \in Runs
  BY <1>1, TrainingKeeps DEF SFTTypes
<1>3. \A pc \in RunPcs : Goto(pc) => run'.pc = pc /\ run'.evidence = run.evidence
  BY <1>2 DEF Goto, Runs
<1>5. CASE Checkpoint
  <2>1. run' = run /\ run.pc = "fit" /\ dir'.partial = dir.partial
    BY <1>2, <1>5 DEF Checkpoint, At, Directories
  <2>2. QED
    BY <1>2, <2>1 DEF Marked
<1>6. CASE Fit \/ StopTraining
  <2>1. /\ run.pc # "idle" /\ dir' = dir /\ run'.pc \in {"save", "idle"}
        /\ run'.evidence = run.evidence
    BY <1>3, <1>6 DEF Fit, StopTraining, At, RunPcs
  <2>2. QED
    BY <1>2, <2>1 DEF Marked, Told
<1>7. CASE SaveModel
  <2>1. /\ run.pc = "save" /\ run'.pc = "tokenizer" /\ run'.evidence = run.evidence
    BY <1>3, <1>7 DEF SaveModel, At, RunPcs
  <2>2. dir'.partial = dir.partial /\ dir'.adapter # None
    BY <1>2, <1>7, StructuresAreSome DEF SaveModel, Directories
  <2>3. QED
    BY <1>2, <2>1, <2>2 DEF Marked
<1>8. CASE SaveTokenizer
  <2>1. /\ run.pc = "tokenizer" /\ run'.pc = "manifest" /\ run'.evidence = run.evidence
    BY <1>3, <1>8 DEF SaveTokenizer, At, RunPcs
  <2>2. dir.adapter \in Adapters
    BY <1>2, <2>1 DEF Marked, Directories
  <2> DEFINE a == [dir.adapter EXCEPT !.whole = TRUE]
  <2>3. a \in Adapters /\ a.whole = TRUE
    BY <2>2 DEF Adapters
  <2>4. a # None
    BY <2>3, StructuresAreSome DEF Adapters
  <2>5. dir' = [dir EXCEPT !.adapter = a]
    BY <1>8 DEF SaveTokenizer
  <2> HIDE DEF a
  <2>6. dir'.partial = dir.partial /\ dir'.adapter = a
    BY <1>2, <2>5 DEF Directories
  <2>7. QED
    BY <1>2, <2>1, <2>3, <2>4, <2>6 DEF Marked
<1>9. CASE OpenManifest
  <2>1. /\ run.pc = "manifest" /\ run'.pc = "manifest_open" /\ run'.evidence = run.evidence
    BY <1>3, <1>9 DEF OpenManifest, At, RunPcs
  <2>2. dir'.partial = dir.partial /\ dir'.adapter = dir.adapter
    BY <1>2, <1>9 DEF OpenManifest, Directories
  <2>3. QED
    BY <1>2, <2>1, <2>2 DEF Marked
<1>10. CASE WriteManifest
  <2>1. /\ run.pc = "manifest_open" /\ run'.pc = "unlink" /\ run'.evidence = run.evidence
    BY <1>3, <1>10 DEF WriteManifest, At, RunPcs
  <2> DEFINE m == [whole |-> TRUE, adapter |-> dir.adapter, evidence |-> run.evidence]
  <2>2. dir' = [dir EXCEPT !.manifest = m]
    BY <1>10 DEF WriteManifest
  <2>3. m # None /\ m.whole = TRUE /\ m.adapter = dir.adapter
    BY StructuresAreSome
  <2> HIDE DEF m
  <2>4. dir'.partial = dir.partial /\ dir'.adapter = dir.adapter /\ dir'.manifest = m
    BY <1>2, <2>2 DEF Directories
  <2>5. Told'
    BY <2>1, <2>3, <2>4 DEF Marked, Told
  <2>6. QED
    BY <1>2, <2>1, <2>4, <2>5 DEF Marked, Told
<1>11. CASE UnlinkManifest
  <2>1. /\ run.pc = "unlink" /\ run'.pc = "idle" /\ Told
    BY <1>3, <1>11 DEF UnlinkManifest, At, RunPcs, Marked
  <2>2. dir'.adapter = dir.adapter /\ dir'.manifest = dir.manifest
    BY <1>2, <1>11 DEF UnlinkManifest, Directories
  <2>3. Told'
    BY <2>1, <2>2 DEF Told
  <2>4. QED
    BY <2>1, <2>3 DEF Marked
<1>12. QED
  BY <1>5, <1>6, <1>7, <1>8, <1>9, <1>10, <1>11

LEMMA TrainingMarks ==
    ASSUME SFTTypes, Marked, Train
    PROVE  Marked'
BY LaunchMarks, BuildMarks, SavingMarks DEF Train

(* Only records that teach are accepted.                                     *)
LEMMA BuildTeaches ==
    ASSUME SFTTypes, Preparing, Marked, run.pc = "train", Readable(file["train"])
    PROVE  \A r \in Tokenized(file["train"]) : Teaches(r)
<1>1. file["train"] # NoFile /\ "train" \in Files
  BY DEF Marked, Files
<1>2. QED
  BY <1>1 DEF Preparing, Teaches, Tokenized, Readable

LEMMA TrainingTeaches ==
    ASSUME SFTTypes, Preparing, Marked, Learned, Train
    PROVE  Learned'
<1>1. /\ run \in Runs /\ dir \in Directories /\ kind' = kind
      /\ \A r : Teaches(r)' <=> Teaches(r)
  <2>1. kind' = kind
    BY TrainingKeeps
  <2>2. QED
    BY <2>1 DEF SFTTypes, Teaches, IsSuccess
<1>2. \A r \in Trained : Teaches(r)
  BY DEF Learned, Trained
<1>3. ASSUME NEW resume \in BOOLEAN, NEW inputs \in {{"train"}, Files}, Launch(resume, inputs)
      PROVE  Learned'
  <2> DEFINE e == [f \in inputs |-> file[f]]
             n == run.count + 1
             b == IF resume THEN dir.checkpoint.trained ELSE {}
  <2>1. /\ run' = [IdleRun EXCEPT !.pc = "train", !.count = n, !.evidence = e, !.base = b]
        /\ dir' = [dir EXCEPT !.partial = [evidence |-> e]]
    BY <1>3 DEF Launch
  <2>2. \A r \in b : Teaches(r)
    BY <1>3 DEF Launch, Learned
  <2> HIDE DEF e, n, b
  <2>3. run'.base = b /\ run'.accepted["train"] = {}
    BY <2>1 DEF IdleRun, Files
  <2>4. dir'.adapter = dir.adapter /\ dir'.checkpoint = dir.checkpoint
    BY <1>1, <2>1 DEF Directories
  <2>5. QED
    BY <1>1, <2>2, <2>3, <2>4 DEF Learned
<1>4. ASSUME NEW f \in Files, Build(f)
      PROVE  Learned'
  <2> DEFINE next == IF f = "train" /\ "validation" \in DOMAIN run.evidence
                     THEN "validation" ELSE "fit"
             t == Tokenized(file[f])
             s == file[f] \ t
             rejection == ReportOf(f)
  <2>1. /\ run.pc = f
        /\ \/ /\ run' = [run EXCEPT !.pc = next, !.accepted[f] = t, !.refused[f] = s]
              /\ dir' = [dir EXCEPT !.rejected[rejection] = s]
              /\ Readable(file[f])
           \/ run' = [run EXCEPT !.pc = "idle"] /\ dir' = dir
    BY <1>4 DEF Build, Goto, At
  <2>2. f = "train" /\ Readable(file[f]) => \A r \in t : Teaches(r)
    BY <2>1, BuildTeaches
  <2> HIDE DEF next, t, s, rejection
  <2>3. dir'.adapter = dir.adapter /\ dir'.checkpoint = dir.checkpoint
    BY <1>1, <2>1 DEF Directories
  <2>4. /\ run'.base = run.base
        /\ \/ run'.accepted["train"] = run.accepted["train"]
           \/ f = "train" /\ Readable(file[f]) /\ run'.accepted["train"] = t
    <3>1. CASE run' = [run EXCEPT !.pc = "idle"]
      BY <1>1, <3>1 DEF Runs
    <3>2. CASE run' = [run EXCEPT !.pc = next, !.accepted[f] = t, !.refused[f] = s]
               /\ Readable(file[f])
      <4> DEFINE a == [run.accepted EXCEPT ![f] = t]
      <4>1. run'.base = run.base /\ run'.accepted = a
        BY <1>1, <3>2 DEF Runs
      <4>2. a["train"] = IF f = "train" THEN t ELSE run.accepted["train"]
        BY <1>1 DEF Runs, Files
      <4>3. QED
        BY <3>2, <4>1, <4>2
    <3>3. QED
      BY <2>1, <3>1, <3>2
  <2>5. QED
    BY <1>1, <2>2, <2>3, <2>4 DEF Learned
<1>5. \A pc \in RunPcs : Goto(pc) =>
          run'.base = run.base /\ run'.accepted = run.accepted
  BY <1>1 DEF Goto, Runs
<1>6. ASSUME UNCHANGED <<run.base, run.accepted, dir.adapter, dir.checkpoint>>
      PROVE  Learned'
  BY <1>1, <1>6 DEF Learned
<1>7. CASE Checkpoint
  <2>1. run' = run /\ dir'.adapter = dir.adapter /\ dir'.checkpoint = [trained |-> Trained]
    BY <1>1, <1>7 DEF Checkpoint, Directories
  <2>2. dir'.checkpoint.trained = Trained
    BY <2>1
  <2>3. QED
    BY <1>1, <1>2, <2>1, <2>2 DEF Learned
<1>8. CASE Fit \/ StopTraining
  BY <1>5, <1>6, <1>8 DEF Fit, StopTraining, RunPcs
<1>9. CASE SaveModel
  <2>1. run'.base = run.base /\ run'.accepted = run.accepted
    BY <1>5, <1>9 DEF SaveModel, RunPcs
  <2>2. /\ dir'.checkpoint = dir.checkpoint
        /\ dir'.adapter = [trained |-> Trained, whole |-> FALSE]
    BY <1>1, <1>9 DEF SaveModel, Directories
  <2>3. dir'.adapter.trained = Trained
    BY <2>2
  <2>4. QED
    BY <1>1, <1>2, <2>1, <2>2, <2>3 DEF Learned
<1>10. CASE SaveTokenizer
  <2>1. run'.base = run.base /\ run'.accepted = run.accepted
    BY <1>5, <1>10 DEF SaveTokenizer, RunPcs
  <2>2. dir.adapter # None /\ dir.adapter \in Adapters
    BY <1>1, <1>10 DEF SaveTokenizer, At, Marked, Directories
  <2> DEFINE a == [dir.adapter EXCEPT !.whole = TRUE]
  <2>3. a.trained = dir.adapter.trained
    BY <2>2 DEF Adapters
  <2>4. dir' = [dir EXCEPT !.adapter = a]
    BY <1>10 DEF SaveTokenizer
  <2> HIDE DEF a
  <2>5. dir'.checkpoint = dir.checkpoint /\ dir'.adapter = a
    BY <1>1, <2>4 DEF Directories
  <2>6. QED
    BY <1>1, <2>1, <2>2, <2>3, <2>5 DEF Learned
<1>11. CASE OpenManifest \/ WriteManifest \/ UnlinkManifest
  <2>1. run'.base = run.base /\ run'.accepted = run.accepted
    BY <1>5, <1>11 DEF OpenManifest, WriteManifest, UnlinkManifest, RunPcs
  <2>2. \/ \E m : dir' = [dir EXCEPT !.manifest = m]
        \/ dir' = [dir EXCEPT !.partial = None]
    BY <1>11 DEF OpenManifest, WriteManifest, UnlinkManifest
  <2>3. dir'.checkpoint = dir.checkpoint /\ dir'.adapter = dir.adapter
    BY <1>1, <2>2 DEF Directories
  <2>4. QED
    BY <1>6, <2>1, <2>3
<1>12. QED
  BY <1>3, <1>4, <1>7, <1>8, <1>9, <1>10, <1>11 DEF Train

LEMMA TrainingReports ==
    ASSUME SFTTypes, Reported, Train
    PROVE  Reported'
<1>1. run \in Runs /\ dir \in Directories
  BY DEF SFTTypes
<1>2. ASSUME NEW resume \in BOOLEAN, NEW inputs \in {{"train"}, Files}, Launch(resume, inputs)
      PROVE  Reported'
  <2>1. run'.accepted = [f \in Files |-> {}] /\ run'.refused = [f \in Files |-> {}]
    BY <1>2 DEF Launch, IdleRun
  <2>2. QED
    BY <2>1 DEF Reported, ReportsAreTrue, Built, Files
<1>3. ASSUME NEW f \in Files, Build(f)
      PROVE  Reported'
  <2> DEFINE next == IF f = "train" /\ "validation" \in DOMAIN run.evidence
                     THEN "validation" ELSE "fit"
             t == Tokenized(file[f])
             s == file[f] \ t
             rejection == ReportOf(f)
  <2>1. \/ /\ run' = [run EXCEPT !.pc = next, !.accepted[f] = t, !.refused[f] = s]
           /\ dir' = [dir EXCEPT !.rejected[rejection] = s]
           /\ t # {}
        \/ run' = [run EXCEPT !.pc = "idle"] /\ dir' = dir
    BY <1>3 DEF Build, Goto
  <2>2. /\ t \cap s = {} /\ rejection \in Files /\ next # "train" /\ rejection = ReportOf(f)
        /\ f = "train" => run.accepted["validation"] = {}
    BY <1>3 DEF ReportOf, Files, Build, At, Reported, Built
  <2> HIDE DEF next, t, s, rejection
  <2>3. CASE run' = [run EXCEPT !.pc = "idle"] /\ dir' = dir
    BY <1>1, <2>3 DEF Runs, Reported, ReportsAreTrue, Replaced, Built
  <2>4. CASE /\ run' = [run EXCEPT !.pc = next, !.accepted[f] = t, !.refused[f] = s]
             /\ dir' = [dir EXCEPT !.rejected[rejection] = s]
             /\ t # {}
    <3> DEFINE a == [run.accepted EXCEPT ![f] = t]
               b == [run.refused EXCEPT ![f] = s]
               c == [dir.rejected EXCEPT ![rejection] = s]
    <3>1. run'.accepted = a /\ run'.refused = b /\ dir'.rejected = c /\ run'.pc # "train"
      BY <1>1, <2>2, <2>4 DEF Runs, Directories
    <3>2. /\ run.accepted \in [Files -> RecordSets] /\ run.refused \in [Files -> RecordSets]
          /\ dir.rejected \in [Files -> RecordSets \cup {NoFile}]
      BY <1>1 DEF Runs, Directories
    <3>3. \A g \in Files :
            /\ a[g] = IF g = f THEN t ELSE run.accepted[g]
            /\ b[g] = IF g = f THEN s ELSE run.refused[g]
            /\ c[g] = IF g = rejection THEN s ELSE dir.rejected[g]
      BY <3>2
    <3> HIDE DEF a, b, c
    <3>4. \A g \in Files : a[g] \cap b[g] = {}
      BY <2>2, <3>3 DEF Reported
    <3>5. ASSUME NEW g \in Files, a[g] # {},
                 ~(SameStem /\ g = "train" /\ a["validation"] # {})
          PROVE  c[ReportOf(g)] = b[g]
      BY <2>2, <2>4, <3>3, <3>5 DEF Reported, ReportsAreTrue, Replaced, Built, ReportOf, Files
    <3>6. QED
      BY <3>1, <3>4, <3>5 DEF Reported, ReportsAreTrue, Replaced, Built
  <2>5. QED
    BY <2>1, <2>3, <2>4
<1>4. ASSUME UNCHANGED <<run.accepted, run.refused, dir.rejected>>, run'.pc \in {run.pc} \cup (RunPcs \ {"train"})
      PROVE  Reported'
  BY <1>4 DEF Reported, ReportsAreTrue, Replaced, Built
<1>5. CASE ~ \/ \E resume \in BOOLEAN, inputs \in {{"train"}, Files} : Launch(resume, inputs)
             \/ \E f \in Files : Build(f)
  <2>1. \/ run' = run
        \/ \E pc \in RunPcs \ {"train"} : Goto(pc)
    BY <1>5 DEF Train, Checkpoint, Fit, SaveModel, SaveTokenizer, OpenManifest, WriteManifest,
                UnlinkManifest, StopTraining, RunPcs
  <2>2. /\ run'.accepted = run.accepted /\ run'.refused = run.refused
        /\ run'.pc \in {run.pc} \cup (RunPcs \ {"train"})
    BY <1>1, <2>1 DEF Goto, Runs
  <2>3. \/ dir' = dir
        \/ \E x : dir' = [dir EXCEPT !.manifest = x]
        \/ \E x : dir' = [dir EXCEPT !.partial = x]
        \/ \E x : dir' = [dir EXCEPT !.adapter = x]
        \/ \E x : dir' = [dir EXCEPT !.checkpoint = x]
    BY <1>5 DEF Train, Checkpoint, Fit, SaveModel, SaveTokenizer, OpenManifest, WriteManifest,
                UnlinkManifest, StopTraining
  <2>4. dir'.rejected = dir.rejected
    BY <1>1, <2>3 DEF Directories
  <2>5. QED
    BY <1>4, <2>2, <2>4
<1>6. QED
  BY <1>2, <1>3, <1>5

LEMMA SFTNextInv == SFTInv /\ [SFTNext]_sftVars => SFTInv'
<1> SUFFICES ASSUME SFTInv, [SFTNext]_sftVars
             PROVE  SFTInv'
  OBVIOUS
<1> USE DEF SFTInv
<1>1. ASSUME NEW t \in Rollouts, Arrive(t)
      PROVE  SFTInv'
  BY <1>1 DEF Arrive, prepVars, runVars, SFTTypes, Preparing, Marked, Told, Learned, Reported,
              ReportsAreTrue, Replaced, Built, Teaches, IsSuccess
<1>2. CASE Prepare
  <2>1. UNCHANGED <<kind, dir, run>>
    BY <1>2 DEF Prepare, Gather, Open, WriteRecords, Replace, StopPreparing, runVars
  <2>2. SFTTypes' /\ Preparing'
    BY <1>2, PreparationTypes, PreparationKeepsFiles
  <2>3. Marked'
    BY <1>2, <2>1, PreparationKeepsFiles DEF Marked, Told, Files
  <2>4. Learned' /\ Reported'
    BY <2>1 DEF Learned, Reported, ReportsAreTrue, Replaced, Built, Teaches, IsSuccess
  <2>5. QED
    BY <2>2, <2>3, <2>4
<1>3. CASE Train
  <2>1. Preparing'
    BY <1>3, TrainingKeeps DEF Preparing, IsSuccess
  <2>2. QED
    BY <1>3, <2>1, TrainingTypes, TrainingMarks, TrainingTeaches, TrainingReports
<1>4. CASE UNCHANGED sftVars
  BY <1>4 DEF sftVars, prepVars, runVars, SFTTypes, Preparing, Marked, Told, Learned, Reported,
              ReportsAreTrue, Replaced, Built, Teaches, IsSuccess
<1>5. QED
  BY <1>1, <1>2, <1>3, <1>4 DEF SFTNext

(* What a preparation and a training have written and read agrees, wherever  *)
(* they are or were stopped (prepare and train).                             *)
THEOREM SFTInvariant == SFTSpec => []SFTInv
BY SFTInitInv, SFTNextInv, PTL DEF SFTSpec

-----------------------------------------------------------------------------
(* The values of the variables: whatever is prepared, trained, stopped and   *)
(* resumed.                                                                  *)
THEOREM SFTTypeCorrect == SFTSpec => []SFTTypeOK
<1>1. SFTInv => SFTTypeOK
  BY DEF SFTInv, SFTTypes, Preparing, Reported, SFTTypeOK, Preparations
<1>2. QED
  BY <1>1, SFTInvariant, PTL

(* A records file is always the whole of what one preparation gathered, and  *)
(* never empty (write_jsonl, and the check before it).                       *)
THEOREM FilesStayWhole == SFTSpec => []FilesAreWhole
<1>1. SFTInv => FilesAreWhole
  BY DEF SFTInv, Preparing, FilesAreWhole, NoFile
<1>2. QED
  BY <1>1, SFTInvariant, PTL

(* A directory with a manifest and no partial one holds the whole adapter    *)
(* the manifest names; any other that a run touched is marked.               *)
THEOREM DirectoriesStayTrue == SFTSpec => []DirectoryIsTrue
<1>1. SFTInv => DirectoryIsTrue
  <2> SUFFICES ASSUME SFTInv
               PROVE  DirectoryIsTrue
    OBVIOUS
  <2>1. dir = EmptyDir => dir.manifest = None
    BY DEF EmptyDir
  <2>2. dir.partial = None => Empty \/ Told
    BY DEF SFTInv, Marked, Empty
  <2>3. QED
    BY <2>1, <2>2 DEF DirectoryIsTrue, Finished, Told, Empty
<1>2. QED
  BY <1>1, SFTInvariant, PTL

(* Nothing is learned but from verified successes of the train split with    *)
(* valid actions (is_verified_sft_success, build_dataset).                   *)
THEOREM SuccessesTrain == SFTSpec => []TrainedAreSuccesses
<1>1. SFTInv => TrainedAreSuccesses
  BY DEF SFTInv, Learned, Teaches, IsSuccess, TrainedAreSuccesses
<1>2. QED
  BY <1>1, SFTInvariant, PTL

(* All of it, and reports of just the records refused: of both files, or of  *)
(* the second alone where it has the name of the first (build_dataset).      *)
THEOREM TrainingRecordsStayTrue == SFTSpec => []TrainingRecordsAreTrue
<1>1. SFTInv => ReportsAreTrue
  BY DEF SFTInv, Reported
<1>2. QED
  BY <1>1, SFTInvariant, FilesStayWhole, DirectoriesStayTrue, SuccessesTrain, PTL
  DEF TrainingRecordsAreTrue

-----------------------------------------------------------------------------
(* Induction and recursion over numbers, for sets and functions: what the    *)
(* recursive definitions of Conversation compute is proved with them.        *)

(* Induction, on a set: what holds 0 and, with a number, the next one, holds *)
(* all of them.                                                              *)
LEMMA Induction ==
    ASSUME NEW S, 0 \in S, \A n \in Nat : n \in S => n + 1 \in S
    PROVE  Nat \subseteq S
<1> DEFINE T == Nat \ S
<1>1. SUFFICES ASSUME T # {} PROVE FALSE
  OBVIOUS
<1>2. PICK m \in T : \A k \in T : ~(<<k, m>> \in OpToRel(<, Nat))
  <2>1. T \subseteq Nat
    OBVIOUS
  <2> HIDE DEF T
  <2>2. QED
    BY <1>1, <2>1, WFMin, NatLessThanWellFounded
<1>3. m \in Nat /\ m \notin S /\ m # 0
  OBVIOUS
<1>4. m - 1 \in Nat /\ m - 1 \notin S
  <2>1. m - 1 \in Nat /\ (m - 1) + 1 = m
    BY <1>3
  <2>2. QED
    BY <2>1, <1>3
<1>5. <<m - 1, m>> \in OpToRel(<, Nat)
  BY <1>3, <1>4 DEF OpToRel
<1>6. QED
  BY <1>2, <1>4, <1>5

(* f is taken step by step from v0, by h[n] after n.                         *)
Follows(f, V, v0, h) ==
    /\ f \in [Nat -> V] /\ f[0] = v0
    /\ \A n \in Nat : f[n + 1] = h[n][f[n]]

(* What each step makes of a value of V, some function takes step by step.   *)
LEMMA Recursion ==
    ASSUME NEW V, NEW v0 \in V, NEW h \in [Nat -> [V -> V]]
    PROVE  \E f : Follows(f, V, v0, h)
<1> DEFINE Upto(g, n) == /\ g \in [0 .. n -> V] /\ g[0] = v0
                         /\ \A i \in 0 .. n - 1 : g[i + 1] = h[i][g[i]]
           There == {n \in Nat : \E g : Upto(g, n)}
           G(n) == CHOOSE g : Upto(g, n)
           Same == {i \in Nat : \A n, m \in Nat : i <= n /\ i <= m => G(n)[i] = G(m)[i]}
<1>1. 0 \in There
  <2>1. Upto([i \in 0 .. 0 |-> v0], 0)
    OBVIOUS
  <2>2. QED
    BY <2>1
<1>2. ASSUME NEW n \in Nat, n \in There PROVE n + 1 \in There
  <2>1. PICK g : Upto(g, n)
    BY <1>2
  <2> DEFINE k == [i \in 0 .. n + 1 |-> IF i = n + 1 THEN h[n][g[n]] ELSE g[i]]
  <2>2. h[n][g[n]] \in V
    BY <2>1
  <2>3. k \in [0 .. n + 1 -> V] /\ k[0] = v0
    BY <2>1, <2>2
  <2>4. ASSUME NEW i \in 0 .. n PROVE k[i + 1] = h[i][k[i]]
    <3>1. CASE i = n
      BY <3>1
    <3>2. CASE i # n
      <4>1. i \in 0 .. n - 1 /\ i + 1 # n + 1 /\ i # n + 1 /\ i + 1 \in 0 .. n + 1 /\ i \in 0 .. n + 1
        BY <3>2
      <4>2. QED
        BY <4>1, <2>1
    <3>3. QED
      BY <3>1, <3>2
  <2>5. (n + 1) - 1 = n
    OBVIOUS
  <2>6. Upto(k, n + 1)
    <3> HIDE DEF k
    <3>1. \A i \in 0 .. (n + 1) - 1 : k[i + 1] = h[i][k[i]]
      BY <2>4, <2>5, Zenon
    <3>2. QED
      BY <2>3, <3>1, Zenon
  <2>7. n + 1 \in Nat
    OBVIOUS
  <2>8. QED
    <3> HIDE DEF k, Upto
    <3>1. QED
      BY <2>6, <2>7
<1>3. \A n \in Nat : Upto(G(n), n)
  <2>1. Nat \subseteq There
    <3> HIDE DEF There
    <3>1. QED
      BY <1>1, <1>2, Induction
  <2>2. QED
    BY <2>1
<1> HIDE DEF G
<1>4. 0 \in Same
  BY <1>3
<1>5. ASSUME NEW i \in Nat, i \in Same PROVE i + 1 \in Same
  <2>1. SUFFICES ASSUME NEW n \in Nat, NEW m \in Nat, i + 1 <= n, i + 1 <= m
                 PROVE  G(n)[i + 1] = G(m)[i + 1]
    OBVIOUS
  <2>2. i \in 0 .. n - 1 /\ i \in 0 .. m - 1 /\ i <= n /\ i <= m
    BY <2>1
  <2>3. G(n)[i] = G(m)[i]
    BY <2>2, <1>5
  <2>4. G(n)[i + 1] = h[i][G(n)[i]] /\ G(m)[i + 1] = h[i][G(m)[i]]
    BY <2>2, <1>3
  <2>5. QED
    BY <2>3, <2>4
<1>6. Nat \subseteq Same
  <2> HIDE DEF Same
  <2>1. QED
    BY <1>4, <1>5, Induction
<1> DEFINE f == [n \in Nat |-> G(n)[n]]
<1>7. f \in [Nat -> V] /\ f[0] = v0
  BY <1>3
<1>8. ASSUME NEW n \in Nat PROVE f[n + 1] = h[n][f[n]]
  <2>1. n + 1 \in Nat /\ n \in 0 .. (n + 1) - 1 /\ n <= n /\ n <= n + 1
    OBVIOUS
  <2>2. G(n + 1)[n + 1] = h[n][G(n + 1)[n]]
    BY <2>1, <1>3
  <2>3. G(n + 1)[n] = G(n)[n]
    BY <2>1, <1>6
  <2>4. QED
    BY <2>1, <2>2, <2>3
<1>9. Follows(f, V, v0, h)
  <2> HIDE DEF f
  <2>1. QED
    BY <1>7, <1>8 DEF Follows
<1>10. QED
  BY <1>9

(* The same up to a number.                                                  *)
LEMMA InductionUpTo ==
    ASSUME NEW L \in Nat, NEW S, 0 \in S, \A i \in 1 .. L : i - 1 \in S => i \in S
    PROVE  0 .. L \subseteq S
<1> DEFINE T == {n \in Nat : n <= L => n \in S}
<1>1. 0 \in T
  OBVIOUS
<1>2. ASSUME NEW n \in Nat, n \in T PROVE n + 1 \in T
  <2>1. SUFFICES ASSUME n + 1 <= L PROVE n + 1 \in S
    OBVIOUS
  <2>2. n + 1 \in 1 .. L /\ (n + 1) - 1 = n /\ n <= L
    BY <2>1
  <2>3. QED
    BY <1>2, <2>2
<1>3. Nat \subseteq T
  <2> HIDE DEF T
  <2>1. QED
    BY <1>1, <1>2, Induction
<1>4. QED
  BY <1>3

FollowsUpTo(f, L, V, v0, h) ==
    /\ f \in [0 .. L -> V] /\ f[0] = v0
    /\ \A i \in 1 .. L : f[i] = h[i][f[i - 1]]

(* The same, for as many steps as there are.                                 *)
LEMMA RecursionUpTo ==
    ASSUME NEW L \in Nat, NEW V, NEW v0 \in V, NEW h \in [1 .. L -> [V -> V]]
    PROVE  \E f : FollowsUpTo(f, L, V, v0, h)
<1> DEFINE k == [n \in Nat |-> [v \in V |-> IF n < L THEN h[n + 1][v] ELSE v]]
<1>1. ASSUME NEW n \in Nat, n < L, NEW v \in V PROVE h[n + 1][v] \in V
  BY <1>1
<1>2. k \in [Nat -> [V -> V]]
  BY <1>1
<1>3. PICK g : g \in [Nat -> V] /\ g[0] = v0 /\ \A n \in Nat : g[n + 1] = k[n][g[n]]
  <2> HIDE DEF k
  <2>1. \E g : Follows(g, V, v0, k)
    BY <1>2, Recursion
  <2>2. QED
    BY <2>1 DEF Follows
<1>4. ASSUME NEW i \in 1 .. L PROVE g[i] = h[i][g[i - 1]]
  <2>1. i - 1 \in Nat /\ (i - 1) + 1 = i /\ i - 1 < L
    OBVIOUS
  <2> DEFINE j == i - 1
  <2>2. g[j + 1] = k[j][g[j]] /\ g[j] \in V /\ j \in Nat /\ j < L
    BY <1>3, <2>1
  <2>3. k[j][g[j]] = h[j + 1][g[j]]
    BY <2>2
  <2>4. QED
    BY <2>1, <2>2, <2>3
<1> DEFINE f == [i \in 0 .. L |-> g[i]]
<1>5. f \in [0 .. L -> V] /\ f[0] = v0
  BY <1>3
<1>6. ASSUME NEW i \in 1 .. L PROVE f[i] = h[i][f[i - 1]]
  <2>1. i \in 0 .. L /\ i - 1 \in 0 .. L
    OBVIOUS
  <2>2. f[i] = g[i] /\ f[i - 1] = g[i - 1]
    BY <2>1
  <2>3. QED
    BY <2>2, <1>4
<1>7. FollowsUpTo(f, L, V, v0, h)
  <2> HIDE DEF f
  <2>1. QED
    BY <1>5, <1>6 DEF FollowsUpTo
<1>8. QED
  BY <1>7
-----------------------------------------------------------------------------
(* A conversation always fits, shows the task and the newest turn, and is    *)
(* replayed as it was seen; only what the policy said is trained on.         *)

Roles == {"system", "user", "assistant", "tool"}

AnyMessage == [role : Roles, turn : Nat, size : Nat, cut : BOOLEAN]

(* The fields of the messages of a conversation.                             *)
LEMMA MessageFields ==
    ASSUME NEW ms \in Seq(AnyMessage), NEW i \in 1 .. Len(ms)
    PROVE  /\ ms[i] \in AnyMessage /\ ms[i].role \in Roles /\ ms[i].turn \in Nat
           /\ ms[i].size \in Nat /\ ms[i].cut \in BOOLEAN
<1>1. ms[i] \in AnyMessage
  OBVIOUS
<1>2. QED
  BY <1>1 DEF AnyMessage

(* The bounds and the sizes are numbers, and the floors leave room.          *)
LEMMA ConstantsAreSizes ==
    /\ MaxBytes \in Nat /\ Overhead \in Nat /\ IssueFloor \in Nat /\ MessageFloor \in Nat
    /\ SystemSize \in Nat /\ MaxSteps \in Nat /\ ParserErrorSize \in Nat /\ MaxLength \in Nat
    /\ \A s \in IssueSizes \cup ReplySizes \cup ObservationSizes : s \in Nat
    /\ MessageFloor > 0 /\ IssueFloor >= MessageFloor
    /\ SystemSize + 3 * MessageFloor + 4 * Overhead <= MaxBytes
BY ConversationAssumption DEF ConversationAssumption

(* What a conversation counts, message by message.                           *)
LEMMA BytesStep ==
    ASSUME NEW ms \in Seq(AnyMessage)
    PROVE  /\ BytesUpTo(ms) \in [0 .. Len(ms) -> Nat]
           /\ BytesUpTo(ms)[0] = 0
           /\ \A i \in 1 .. Len(ms) :
                BytesUpTo(ms)[i] = BytesUpTo(ms)[i - 1] + ms[i].size + Overhead
<1> DEFINE L == Len(ms)
           h == [i \in 1 .. L |-> [v \in Nat |-> v + ms[i].size + Overhead]]
           Is(r) == r = [i \in 0 .. L |-> IF i = 0 THEN 0 ELSE r[i - 1] + ms[i].size + Overhead]
<1>1. L \in Nat /\ Overhead \in Nat /\ \A i \in 1 .. L : ms[i].size \in Nat
  BY ConstantsAreSizes, MessageFields
<1>2. h \in [1 .. L -> [Nat -> Nat]]
  BY <1>1
<1>3. PICK g : FollowsUpTo(g, L, Nat, 0, h)
  <2> HIDE DEF h, L
  <2>1. QED
    BY <1>1, <1>2, RecursionUpTo
<1>4. Is(g)
  <2>1. g = [i \in 0 .. L |-> g[i]] /\ g[0] = 0
    BY <1>3 DEF FollowsUpTo
  <2>2. ASSUME NEW i \in 0 .. L, i # 0 PROVE g[i] = g[i - 1] + ms[i].size + Overhead
    <3>1. i \in 1 .. L /\ i - 1 \in 0 .. L
      BY <1>1, <2>2
    <3>2. g[i] = h[i][g[i - 1]] /\ g[i - 1] \in Nat
      BY <3>1, <1>3 DEF FollowsUpTo
    <3>3. QED
      BY <3>1, <3>2
  <2>3. QED
    <3> HIDE DEF L, h
    <3>1. QED
      BY <2>1, <2>2
<1>5. Is(BytesUpTo(ms))
  <2>1. BytesUpTo(ms) = CHOOSE r : Is(r)
    BY DEF BytesUpTo
  <2> HIDE DEF Is
  <2>2. QED
    BY <1>4, <2>1
<1> DEFINE b == BytesUpTo(ms)
<1>6. b[0] = 0 /\ \A i \in 1 .. L : b[i] = b[i - 1] + ms[i].size + Overhead
  <2> DEFINE k == [i \in 0 .. L |-> IF i = 0 THEN 0 ELSE b[i - 1] + ms[i].size + Overhead]
  <2>1. b = k
    BY <1>5
  <2> HIDE DEF b
  <2>2. k[0] = 0 /\ \A i \in 1 .. L : k[i] = b[i - 1] + ms[i].size + Overhead
    BY <1>1
  <2> HIDE DEF k
  <2>3. QED
    BY <2>1, <2>2
<1>7. \A i \in 0 .. L : b[i] \in Nat
  <2> DEFINE S == {i \in 0 .. L : b[i] \in Nat}
  <2> HIDE DEF b, L
  <2>1. 0 \in S
    BY <1>1, <1>6
  <2>2. ASSUME NEW i \in 1 .. L, i - 1 \in S PROVE i \in S
    <3>1. b[i - 1] \in Nat /\ ms[i].size \in Nat
      BY <1>1, <2>2
    <3>2. i \in 0 .. L /\ b[i] = b[i - 1] + ms[i].size + Overhead
      BY <1>1, <1>6
    <3>3. QED
      BY <1>1, <3>1, <3>2
  <2>3. 0 .. L \subseteq S
    <3> HIDE DEF S
    <3>1. QED
      BY <1>1, <2>1, <2>2, InductionUpTo
  <2>4. QED
    BY <2>3
<1>8. b = [i \in 0 .. L |-> b[i]]
  <2> DEFINE k == [i \in 0 .. L |-> IF i = 0 THEN 0 ELSE b[i - 1] + ms[i].size + Overhead]
  <2>1. b = k
    BY <1>5
  <2> HIDE DEF b
  <2>2. k = [i \in 0 .. L |-> k[i]]
    OBVIOUS
  <2> HIDE DEF k
  <2>3. QED
    BY <2>1, <2>2
<1>9. b \in [0 .. L -> Nat]
  <2> HIDE DEF b, L
  <2>1. QED
    BY <1>7, <1>8
<1>10. QED
  BY <1>6, <1>9

(* A conversation counts a number of bytes,                                  *)
LEMMA BytesType ==
    ASSUME NEW ms \in Seq(AnyMessage)
    PROVE  Bytes(ms) \in Nat
BY BytesStep DEF Bytes

(* which is the plain sum when it has two messages or four.                  *)
LEMMA BytesOfFew ==
    ASSUME NEW ms \in Seq(AnyMessage)
    PROVE  /\ Len(ms) = 2 => Bytes(ms) = ms[1].size + ms[2].size + 2 * Overhead
           /\ Len(ms) = 4 => Bytes(ms) = ms[1].size + ms[2].size + ms[3].size + ms[4].size
                                         + 4 * Overhead
<1> DEFINE b == BytesUpTo(ms)
<1>1. b[0] = 0 /\ Overhead \in Nat
  BY BytesStep, ConstantsAreSizes
<1>2. ASSUME NEW i \in 1 .. Len(ms) PROVE b[i] = b[i - 1] + ms[i].size + Overhead /\ ms[i].size \in Nat
  BY BytesStep, MessageFields
<1>3. Bytes(ms) = b[Len(ms)]
  BY DEF Bytes
<1> HIDE DEF b
<1>4. ASSUME Len(ms) >= 2 PROVE b[2] = ms[1].size + ms[2].size + 2 * Overhead
  <2>1. b[1] = b[0] + ms[1].size + Overhead /\ ms[1].size \in Nat
    BY <1>4, <1>2
  <2>2. b[2] = b[1] + ms[2].size + Overhead /\ ms[2].size \in Nat
    BY <1>4, <1>2
  <2>3. QED
    BY SMTT(30), <2>1, <2>2, <1>1
<1>5. ASSUME Len(ms) = 4 
      PROVE b[4] = ms[1].size + ms[2].size + ms[3].size + ms[4].size + 4 * Overhead
  <2>1. b[3] = b[2] + ms[3].size + Overhead /\ ms[3].size \in Nat
    BY <1>5, <1>2
  <2>2. b[4] = b[3] + ms[4].size + Overhead /\ ms[4].size \in Nat
    BY <1>5, <1>2
  <2>3. ms[1].size \in Nat /\ ms[2].size \in Nat
    BY <1>5, <1>2
  <2>4. QED
    <3>1. b[2] = ms[1].size + ms[2].size + 2 * Overhead
      BY <1>4, <1>5
    <3> DEFINE s(i) == ms[i].size
    <3>2. /\ s(1) \in Nat /\ s(2) \in Nat /\ s(3) \in Nat /\ s(4) \in Nat /\ Overhead \in Nat
          /\ b[2] = s(1) + s(2) + 2 * Overhead /\ b[3] = b[2] + s(3) + Overhead
          /\ b[4] = b[3] + s(4) + Overhead
      BY <2>1, <2>2, <2>3, <1>1, <3>1
    <3> HIDE DEF s
    <3>3. b[4] = s(1) + s(2) + s(3) + s(4) + 4 * Overhead
      BY SMTT(30), <3>2
    <3>4. QED
      BY <3>3 DEF s
<1>6. ASSUME Len(ms) = 2 PROVE Bytes(ms) = ms[1].size + ms[2].size + 2 * Overhead
  BY <1>3, <1>4, <1>6
<1>7. QED
  BY <1>3, <1>5, <1>6
-----------------------------------------------------------------------------

Begun(ms) ==
    /\ ms \in Seq(AnyMessage) /\ Len(ms) \in Nat /\ Len(ms) >= 2
    /\ ms[1] = Message("system", 0, SystemSize)

ShorterMessage(a, b) ==
    /\ a.role = b.role /\ a.turn = b.turn /\ a.size <= b.size
    /\ a.size = b.size \/ a.size >= MessageFloor

(* b is a, with messages cut but for the system's                            *)
Shortened(a, b) ==
    /\ b \in Seq(AnyMessage) /\ Len(b) = Len(a) /\ b[1] = a[1]
    /\ \A i \in 1 .. Len(a) : ShorterMessage(b[i], a[i])

(* Nothing need be cut,                                                      *)
LEMMA ShortenedItself ==
    ASSUME NEW a \in Seq(AnyMessage)
    PROVE  Shortened(a, a)
BY MessageFields DEF Shortened, ShorterMessage

(* and what is cut twice is cut.                                             *)
LEMMA ShortenedTwice ==
    ASSUME NEW a \in Seq(AnyMessage), NEW b, NEW c, Shortened(a, b), Shortened(b, c)
    PROVE  Shortened(a, c)
<1>1. /\ b \in Seq(AnyMessage) /\ c \in Seq(AnyMessage) /\ Len(b) = Len(a) /\ Len(c) = Len(a)
      /\ c[1] = a[1]
  BY DEF Shortened
<1>2. ASSUME NEW i \in 1 .. Len(a) PROVE ShorterMessage(c[i], a[i])
  <2>1. a[i].size \in Nat /\ b[i].size \in Nat /\ c[i].size \in Nat /\ MessageFloor \in Nat
    BY <1>1, MessageFields, ConstantsAreSizes
  <2>2. ShorterMessage(b[i], a[i]) /\ ShorterMessage(c[i], b[i])
    BY <1>1 DEF Shortened
  <2>3. QED
    BY <2>1, <2>2 DEF ShorterMessage
<1>3. QED
  BY <1>1, <1>2 DEF Shortened

(* A cut message is the same but for its size: no shorter than the floor,    *)
(* and at the floor or within the target.                                    *)
LEMMA CutMessage ==
    ASSUME NEW m \in AnyMessage, NEW floor \in Nat, NEW target \in Int
    PROVE  LET c == Cut(m, AtLeast(floor, target)) IN
           /\ c \in AnyMessage /\ c.role = m.role /\ c.turn = m.turn /\ c.size <= m.size
           /\ m.size \in Nat /\ c.size \in Nat
           /\ c.size = m.size \/ c.size >= floor
           /\ c.size <= floor \/ c.size <= target
<1> DEFINE limit == AtLeast(floor, target)
           c == Cut(m, limit)
<1>1. limit \in Nat /\ limit >= floor /\ (limit = floor \/ limit = target)
  BY DEF AtLeast
<1>2. m.size \in Nat /\ m.role \in Roles /\ m.turn \in Nat /\ m.cut \in BOOLEAN
  BY DEF AnyMessage
<1> HIDE DEF limit
<1>3. CASE m.size <= limit
  <2>1. c = m
    BY <1>3 DEF Cut
  <2>2. QED
    BY <1>1, <1>2, <1>3, <2>1 DEF limit
<1>4. CASE ~(m.size <= limit)
  <2>1. c = [m EXCEPT !.size = limit, !.cut = TRUE]
    BY <1>4 DEF Cut
  <2>2. /\ c \in AnyMessage /\ c.role = m.role /\ c.turn = m.turn /\ c.size = limit
    <3> HIDE DEF c
    <3>1. QED
      BY <1>1, <1>2, <2>1 DEF AnyMessage
  <2>3. QED
    <3> HIDE DEF c
    <3>1. c.size <= m.size /\ c.size \in Nat /\ c.size >= floor /\ (c.size <= floor \/ c.size <= target)
      BY <1>1, <1>2, <1>4, <2>2
    <3>2. QED
      BY <1>2, <2>2, <3>1 DEF c, limit
<1>5. QED
  BY <1>3, <1>4

(* Cutting one message leaves the others as they were.                       *)
LEMMA CutAtShortens ==
    ASSUME NEW ms \in Seq(AnyMessage), NEW i \in 2 .. Len(ms),
           NEW floor \in Nat, floor >= MessageFloor
    PROVE  /\ Shortened(ms, CutAt(ms, i, floor))
           /\ \A j \in 1 .. Len(ms) : j # i => CutAt(ms, i, floor)[j] = ms[j]
           /\ \/ CutAt(ms, i, floor)[i].size <= floor
              \/ CutAt(ms, i, floor)[i].size <= ms[i].size - Excess(ms)
<1> DEFINE b == CutAt(ms, i, floor)
           c == Cut(ms[i], AtLeast(floor, ms[i].size - Excess(ms)))
<1>1. ms[i] \in AnyMessage /\ ms[i].size \in Nat /\ Excess(ms) \in Int /\ MessageFloor \in Nat
  <2>1. i \in 1 .. Len(ms)
    OBVIOUS
  <2>2. ms[i] \in AnyMessage /\ ms[i].size \in Nat
    BY <2>1, MessageFields
  <2>3. Bytes(ms) \in Nat /\ MaxBytes \in Nat /\ MessageFloor \in Nat
    BY BytesType, ConstantsAreSizes
  <2>4. Excess(ms) \in Int
    BY <2>3 DEF Excess
  <2>5. QED
    BY <2>2, <2>3, <2>4
<1>2. /\ c \in AnyMessage /\ c.role = ms[i].role /\ c.turn = ms[i].turn /\ c.size <= ms[i].size
      /\ c.size \in Nat
      /\ c.size = ms[i].size \/ c.size >= floor
      /\ c.size <= floor \/ c.size <= ms[i].size - Excess(ms)
  <2>1. ms[i].size - Excess(ms) \in Int
    BY <1>1
  <2>2. QED
    BY <1>1, <2>1, CutMessage
<1>3. b = [ms EXCEPT ![i] = c]
  BY DEF CutAt
<1> HIDE DEF c
<1>4. /\ b \in Seq(AnyMessage) /\ Len(b) = Len(ms) /\ b[i] = c
      /\ \A j \in 1 .. Len(ms) : j # i => b[j] = ms[j]
  BY <1>2, <1>3
<1> HIDE DEF b
<1>5. b[1] = ms[1]
  BY <1>4
<1>6. ASSUME NEW j \in 1 .. Len(ms) PROVE ShorterMessage(b[j], ms[j])
  <2>1. CASE j = i
    BY <1>1, <1>2, <1>4, <2>1 DEF ShorterMessage
  <2>2. CASE j # i
    <3>1. b[j] = ms[j] /\ ms[j].size \in Nat
      BY <1>4, <2>2, MessageFields
    <3>2. QED
      BY <3>1 DEF ShorterMessage
  <2>3. QED
    BY <2>1, <2>2
<1>7. Shortened(ms, b)
  BY <1>4, <1>5, <1>6 DEF Shortened
<1>8. QED
  BY <1>2, <1>4, <1>7 DEF b

(* Among some messages there is one to cut.                                  *)
LEMMA SomeLargest ==
    ASSUME NEW ms \in Seq(AnyMessage), NEW C \in SUBSET (1 .. Len(ms)), C # {}
    PROVE  \E i \in C : \A j \in C : Larger(ms, i, j)
<1> DEFINE L == Len(ms)
           Has(D) == D # {} => \E i \in D : \A j \in D : Larger(ms, i, j)
           S == {n \in 0 .. L : \A D \in SUBSET (1 .. n) : Has(D)}
<1>1. L \in Nat /\ \A i \in 1 .. L : ms[i].size \in Nat
  BY MessageFields
<1>2. 0 \in S
  <2>1. \A D \in SUBSET (1 .. 0) : D = {}
    OBVIOUS
  <2>2. 0 \in 0 .. L
    BY <1>1
  <2>3. \A D \in SUBSET (1 .. 0) : Has(D)
    BY <2>1
  <2>4. QED
    BY <2>2, <2>3
<1>3. ASSUME NEW n \in 1 .. L, n - 1 \in S PROVE n \in S
  <2>1. SUFFICES ASSUME NEW D \in SUBSET (1 .. n), D # {}
                 PROVE  \E i \in D : \A j \in D : Larger(ms, i, j)
    BY <1>1
  <2>2. D \ {n} \in SUBSET (1 .. n - 1)
    BY <1>1
  <2>3. Has(D \ {n})
    BY <1>3, <2>2
  <2>4. ASSUME NEW i \in 1 .. L, NEW j \in 1 .. L, NEW k \in 1 .. L, Larger(ms, i, j), Larger(ms, j, k)
        PROVE  Larger(ms, i, k)
    BY <1>1, <2>4 DEF Larger
  <2>5. ASSUME NEW i \in 1 .. L, NEW j \in 1 .. L PROVE Larger(ms, i, j) \/ Larger(ms, j, i)
    BY <1>1 DEF Larger
  <2>6. D \subseteq 1 .. L
    BY <1>1
  <2>7. CASE n \notin D
    <3>1. D \ {n} = D
      BY <2>7
    <3>2. QED
      BY <2>1, <2>3, <3>1
  <2>8. CASE n \in D /\ D \ {n} = {}
    <3>1. \A j \in D : j = n
      BY <2>8
    <3>2. Larger(ms, n, n)
      BY <2>5
    <3>3. QED
      BY <2>8, <3>1, <3>2
  <2>9. CASE n \in D /\ D \ {n} # {}
    <3>1. PICK m \in D \ {n} : \A j \in D \ {n} : Larger(ms, m, j)
      BY <2>3, <2>9
    <3>2. CASE Larger(ms, m, n)
      <4>1. \A j \in D : Larger(ms, m, j)
        BY <3>1, <3>2
      <4>2. QED
        BY <4>1
    <3>3. CASE Larger(ms, n, m)
      <4>1. ASSUME NEW j \in D PROVE Larger(ms, n, j)
        <5>1. CASE j = n
          BY <5>1, <2>5
        <5>2. CASE j # n
          <6>1. Larger(ms, m, j) /\ m \in 1 .. L /\ j \in 1 .. L
            BY <3>1, <5>2, <2>6
          <6>2. QED
            BY <6>1, <3>3, <2>4
        <5>3. QED
          BY <5>1, <5>2
      <4>2. QED
        BY <4>1, <2>9
    <3>4. QED
      BY <2>5, <2>6, <3>1, <3>2, <3>3
  <2>10. QED
    BY <2>7, <2>8, <2>9
<1>4. 0 .. L \subseteq S
  <2> HIDE DEF S, L
  <2>1. QED
    BY <1>1, <1>2, <1>3, InductionUpTo
<1>5. L \in S
  BY <1>1, <1>4
<1>6. QED
  BY <1>5

Few(ms) == Len(ms) \in {2, 4}

Cuttable(ms) == {i \in 2 .. Len(ms) : ms[i].size > MessageFloor}

(* The loop cuts one of the messages above the floor,                        *)
LEMMA CutOneChooses ==
    ASSUME NEW ms \in Seq(AnyMessage), ~Fits(ms), Cuttable(ms) # {}
    PROVE  \E i \in Cuttable(ms) : CutOne(ms) = CutAt(ms, i, MessageFloor)
<1> DEFINE Best(i) == \A j \in Cuttable(ms) : Larger(ms, i, j)
<1>1. \E i \in Cuttable(ms) : Best(i)
  <2>1. Cuttable(ms) \in SUBSET (1 .. Len(ms))
    BY DEF Cuttable
  <2>2. QED
    BY <2>1, SomeLargest
<1>2. CutOne(ms) = CutAt(ms, CHOOSE i \in Cuttable(ms) : Best(i), MessageFloor)
  BY DEF CutOne, Cuttable
<1> HIDE DEF Best
<1>3. QED
  BY <1>1, <1>2

(* nothing but their size, and nothing when all fit.                         *)
LEMMA CutOneShortens ==
    ASSUME NEW ms \in Seq(AnyMessage)
    PROVE  Shortened(ms, CutOne(ms)) /\ (Fits(ms) => CutOne(ms) = ms)
<1>1. CASE Fits(ms) \/ Cuttable(ms) = {}
  <2>1. CutOne(ms) = ms
    BY <1>1 DEF CutOne, Cuttable
  <2>2. QED
    BY <2>1, ShortenedItself
<1>2. CASE ~Fits(ms) /\ Cuttable(ms) # {}
  <2>1. PICK i \in Cuttable(ms) : CutOne(ms) = CutAt(ms, i, MessageFloor)
    BY <1>2, CutOneChooses
  <2>2. i \in 2 .. Len(ms) /\ MessageFloor \in Nat /\ MessageFloor >= MessageFloor
    BY ConstantsAreSizes DEF Cuttable
  <2>3. QED
    BY <1>2, <2>1, <2>2, CutAtShortens
<1>3. QED
  BY <1>1, <1>2

(* With every message at the floor, a few fit: the constants leave the room. *)
LEMMA AllAtTheFloorFits ==
    ASSUME NEW ms, Begun(ms), Few(ms), Cuttable(ms) = {}
    PROVE  Fits(ms)
<1>1. ms \in Seq(AnyMessage) /\ ms[1].size = SystemSize
  BY DEF Begun, Message
<1>2. /\ MessageFloor \in Nat /\ SystemSize \in Nat /\ Overhead \in Nat /\ MaxBytes \in Nat
      /\ SystemSize + 3 * MessageFloor + 4 * Overhead <= MaxBytes
  BY ConstantsAreSizes
<1>3. ASSUME NEW i \in 2 .. Len(ms) PROVE ms[i].size \in Nat /\ ms[i].size <= MessageFloor
  <2>1. ms[i].size \in Nat /\ ~(ms[i].size > MessageFloor)
    BY <1>1, MessageFields DEF Cuttable
  <2>2. QED
    BY <1>2, <2>1
<1>4. CASE Len(ms) = 2
  <2>1. Bytes(ms) = ms[1].size + ms[2].size + 2 * Overhead
    BY <1>1, <1>4, BytesOfFew
  <2>2. ms[2].size \in Nat /\ ms[2].size <= MessageFloor
    BY <1>3, <1>4
  <2>3. QED
    BY <1>1, <1>2, <2>1, <2>2 DEF Fits
<1>5. CASE Len(ms) = 4
  <2> DEFINE s(i) == ms[i].size
  <2>1. Bytes(ms) = SystemSize + s(2) + s(3) + s(4) + 4 * Overhead
    BY <1>1, <1>5, BytesOfFew
  <2>2. /\ s(2) \in Nat /\ s(2) <= MessageFloor /\ s(3) \in Nat /\ s(3) <= MessageFloor
        /\ s(4) \in Nat /\ s(4) <= MessageFloor
    BY <1>3, <1>5
  <2> HIDE DEF s
  <2>3. Bytes(ms) <= MaxBytes
    BY <1>2, <2>1, <2>2
  <2>4. QED
    BY <2>3 DEF Fits
<1>6. QED
  BY <1>4, <1>5 DEF Few

\* The sum of some sizes.
SumOf(t, a, x, y, z, o) == /\ a \in Nat /\ x \in Nat /\ y \in Nat /\ z \in Nat /\ o \in Nat
                           /\ t = a + x + y + z + o

(* What is cut by all that is too much no longer is.                         *)
LEMMA CutOfSum ==
    ASSUME NEW t, NEW u, NEW a, NEW x, NEW y, NEW z, NEW o, NEW v, NEW limit \in Nat,
           SumOf(t, a, x, y, z, o)
    PROVE  /\ SumOf(u, a, v, y, z, o) /\ v <= x - (t - limit) => u <= limit
           /\ SumOf(u, a, x, v, z, o) /\ v <= y - (t - limit) => u <= limit
           /\ SumOf(u, a, x, y, v, o) /\ v <= z - (t - limit) => u <= limit
BY DEF SumOf

(* Of a few messages, a cut to what is too much makes all fit.               *)
LEMMA CutEnough ==
    ASSUME NEW ms \in Seq(AnyMessage), Few(ms), NEW i \in 2 .. Len(ms), NEW b,
           Shortened(ms, b), \A j \in 1 .. Len(ms) : j # i => b[j] = ms[j],
           b[i].size <= ms[i].size - Excess(ms)
    PROVE  Fits(b)
<1> DEFINE s(j) == ms[j].size
           c(j) == b[j].size
<1>1. b \in Seq(AnyMessage) /\ Len(b) = Len(ms) /\ Overhead \in Nat /\ MaxBytes \in Nat
  BY ConstantsAreSizes DEF Shortened
<1>2. \A j \in 1 .. Len(ms) : s(j) \in Nat /\ c(j) \in Nat /\ (j # i => c(j) = s(j))
  BY <1>1, MessageFields
<1>3. c(i) <= s(i) - (Bytes(ms) - MaxBytes)
  BY DEF Excess
<1>4. CASE Len(ms) = 2
  <2>1. Bytes(ms) = s(1) + s(2) + 2 * Overhead /\ Bytes(b) = c(1) + c(2) + 2 * Overhead
    BY <1>1, <1>4, BytesOfFew
  <2>2. i = 2 /\ s(1) \in Nat /\ s(2) \in Nat /\ c(1) = s(1) /\ c(2) \in Nat
    BY <1>2, <1>4
  <2> HIDE DEF s, c
  <2>3. Bytes(b) <= MaxBytes
    BY <1>1, <1>3, <2>1, <2>2
  <2>4. QED
    BY <2>3 DEF Fits
<1>5. CASE Len(ms) = 4
  <2> DEFINE o == 4 * Overhead
  <2>1. /\ Bytes(ms) = s(1) + s(2) + s(3) + s(4) + o
        /\ Bytes(b) = c(1) + c(2) + c(3) + c(4) + o
    BY <1>1, <1>5, BytesOfFew
  <2>2. /\ s(1) \in Nat /\ s(2) \in Nat /\ s(3) \in Nat /\ s(4) \in Nat
        /\ c(1) \in Nat /\ c(2) \in Nat /\ c(3) \in Nat /\ c(4) \in Nat
        /\ c(1) = s(1) /\ (2 # i => c(2) = s(2)) /\ (3 # i => c(3) = s(3)) /\ (4 # i => c(4) = s(4))
    BY <1>2, <1>5
  <2>3. i = 2 \/ i = 3 \/ i = 4
    BY <1>5
  <2>4. o \in Nat
    BY <1>1
  <2> HIDE DEF s, c, o
  <2>5. SumOf(Bytes(ms), s(1), s(2), s(3), s(4), o)
    BY <2>1, <2>2, <2>4 DEF SumOf
  <2>6. ASSUME i = 2 PROVE Bytes(b) <= MaxBytes
    <3>1. SumOf(Bytes(b), s(1), c(2), s(3), s(4), o)
      BY <2>1, <2>2, <2>4, <2>6 DEF SumOf
    <3>2. c(2) <= s(2) - (Bytes(ms) - MaxBytes)
      BY <1>3, <2>6
    <3>3. QED
      BY <1>1, <2>5, <3>1, <3>2, CutOfSum
  <2>7. ASSUME i = 3 PROVE Bytes(b) <= MaxBytes
    <3>1. SumOf(Bytes(b), s(1), s(2), c(3), s(4), o)
      BY <2>1, <2>2, <2>4, <2>7 DEF SumOf
    <3>2. c(3) <= s(3) - (Bytes(ms) - MaxBytes)
      BY <1>3, <2>7
    <3>3. QED
      BY <1>1, <2>5, <3>1, <3>2, CutOfSum
  <2>8. ASSUME i = 4 PROVE Bytes(b) <= MaxBytes
    <3>1. SumOf(Bytes(b), s(1), s(2), s(3), c(4), o)
      BY <2>1, <2>2, <2>4, <2>8 DEF SumOf
    <3>2. c(4) <= s(4) - (Bytes(ms) - MaxBytes)
      BY <1>3, <2>8
    <3>3. QED
      BY <1>1, <2>5, <3>1, <3>2, CutOfSum
  <2>9. Bytes(b) <= MaxBytes
    BY <2>3, <2>6, <2>7, <2>8
  <2>10. QED
    BY <2>9 DEF Fits
<1>6. QED
  BY <1>4, <1>5 DEF Few

(* A cut makes all fit, or leaves fewer messages above the floor.            *)
LEMMA CutOneProgress ==
    ASSUME NEW ms, Begun(ms), Few(ms), ~Fits(ms)
    PROVE  \/ Fits(CutOne(ms))
           \/ /\ IsFiniteSet(Cuttable(ms)) /\ IsFiniteSet(Cuttable(CutOne(ms)))
              /\ Cardinality(Cuttable(CutOne(ms))) < Cardinality(Cuttable(ms))
<1>1. ms \in Seq(AnyMessage) /\ Len(ms) \in Nat /\ MessageFloor \in Nat
  BY ConstantsAreSizes DEF Begun
<1>2. Cuttable(ms) # {}
  BY AllAtTheFloorFits
<1>3. PICK i \in Cuttable(ms) : CutOne(ms) = CutAt(ms, i, MessageFloor)
  BY <1>1, <1>2, CutOneChooses
<1> DEFINE b == CutOne(ms)
<1>4. i \in 2 .. Len(ms) /\ MessageFloor >= MessageFloor
  BY <1>1 DEF Cuttable
<1>5. /\ Shortened(ms, b) /\ \A j \in 1 .. Len(ms) : j # i => b[j] = ms[j]
      /\ b[i].size <= MessageFloor \/ b[i].size <= ms[i].size - Excess(ms)
  BY <1>1, <1>3, <1>4, CutAtShortens
<1> HIDE DEF b
<1>6. CASE b[i].size <= ms[i].size - Excess(ms)
  <2>1. Fits(b)
    BY <1>1, <1>4, <1>5, <1>6, CutEnough
  <2>2. QED
    BY <2>1 DEF b
<1>7. CASE b[i].size <= MessageFloor
  <2>1. b \in Seq(AnyMessage) /\ Len(b) = Len(ms) /\ \A j \in 1 .. Len(ms) : b[j].size \in Nat
    <3>1. b \in Seq(AnyMessage) /\ Len(b) = Len(ms)
      BY <1>5 DEF Shortened
    <3>2. QED
      BY <3>1, MessageFields
  <2>2. Cuttable(b) \subseteq Cuttable(ms) \ {i}
    <3> SUFFICES ASSUME NEW j \in Cuttable(b) PROVE j \in Cuttable(ms) \ {i}
      OBVIOUS
    <3>1. j \in 2 .. Len(ms) /\ b[j].size > MessageFloor /\ b[j].size \in Nat
      BY <2>1 DEF Cuttable
    <3>2. j # i
      BY <1>1, <1>7, <3>1
    <3>3. b[j] = ms[j]
      BY <1>5, <3>1, <3>2
    <3>4. QED
      BY <3>1, <3>2, <3>3 DEF Cuttable
  <2>3. IsFiniteSet(2 .. Len(ms))
    BY <1>1, FS_Interval
  <2>4. IsFiniteSet(Cuttable(ms))
    BY <2>3, FS_Subset DEF Cuttable
  <2>5. /\ IsFiniteSet(Cuttable(ms) \ {i})
        /\ Cardinality(Cuttable(ms) \ {i}) = Cardinality(Cuttable(ms)) - 1
    BY <2>4, FS_RemoveElement
  <2>6. /\ IsFiniteSet(Cuttable(b)) /\ Cardinality(Cuttable(b)) <= Cardinality(Cuttable(ms) \ {i})
    BY <2>2, <2>5, FS_Subset
  <2>7. Cardinality(Cuttable(ms)) \in Nat /\ Cardinality(Cuttable(b)) \in Nat
    BY <2>4, <2>6, FS_CardinalityType
  <2>8. QED
    BY <2>4, <2>5, <2>6, <2>7 DEF b
<1>8. QED
  BY <1>5, <1>6, <1>7

(* The recursion of CutLargest                                               *)
LEMMA CutLargestUnfolds ==
    ASSUME NEW ms \in Seq(AnyMessage)
    PROVE  \E r : /\ CutLargest(ms) = r[Len(ms)] /\ r[0] = ms
                  /\ \A i \in 1 .. Len(ms) : r[i] = CutOne(r[i - 1])
<1> DEFINE L == Len(ms)
           V == Seq(AnyMessage)
           h == [i \in 1 .. L |-> [v \in V |-> CutOne(v)]]
           Is(r) == r = [i \in 0 .. L |-> IF i = 0 THEN ms ELSE CutOne(r[i - 1])]
           c == CHOOSE r : Is(r)
<1>1. L \in Nat
  OBVIOUS
<1>2. \A v \in V : CutOne(v) \in V
  BY CutOneShortens DEF Shortened
<1> HIDE DEF V
<1>3. h \in [1 .. L -> [V -> V]]
  BY <1>2
<1>4. ms \in V
  BY DEF V
<1>5. PICK g : FollowsUpTo(g, L, V, ms, h)
  <2> HIDE DEF h, L
  <2>1. QED
    BY <1>1, <1>3, <1>4, RecursionUpTo
<1>6. Is(g)
  <2>1. g = [i \in 0 .. L |-> g[i]] /\ g[0] = ms
    BY <1>5 DEF FollowsUpTo
  <2>2. ASSUME NEW i \in 0 .. L, i # 0 PROVE g[i] = CutOne(g[i - 1])
    <3>1. i \in 1 .. L /\ i - 1 \in 0 .. L
      BY <1>1, <2>2
    <3>2. g[i] = h[i][g[i - 1]] /\ g[i - 1] \in V
      BY <3>1, <1>5 DEF FollowsUpTo
    <3>3. QED
      BY <3>1, <3>2
  <2>3. QED
    <3> HIDE DEF L, h
    <3>1. QED
      BY <2>1, <2>2
<1>7. Is(c)
  <2> HIDE DEF Is
  <2>1. QED
    BY <1>6
<1>8. CutLargest(ms) = c[L]
  BY DEF CutLargest
<1>9. c[0] = ms /\ \A i \in 1 .. L : c[i] = CutOne(c[i - 1])
  <2> DEFINE k == [i \in 0 .. L |-> IF i = 0 THEN ms ELSE CutOne(c[i - 1])]
  <2>1. c = k
    BY <1>7
  <2> HIDE DEF c
  <2>2. k[0] = ms /\ \A i \in 1 .. L : k[i] = CutOne(c[i - 1])
    BY <1>1
  <2> HIDE DEF k
  <2>3. QED
    BY <2>1, <2>2
<1> HIDE DEF c
<1>10. QED
  BY <1>8, <1>9

(* So the loop ends, with all that is left fitting.                          *)
LEMMA CutLargestFits ==
    ASSUME NEW ms, Begun(ms), Fits(ms) \/ Few(ms)
    PROVE  Shortened(ms, CutLargest(ms)) /\ Fits(CutLargest(ms))
<1>1. ms \in Seq(AnyMessage) /\ Len(ms) \in Nat /\ Len(ms) >= 2
  BY DEF Begun
<1>2. PICK r : /\ CutLargest(ms) = r[Len(ms)] /\ r[0] = ms
               /\ \A i \in 1 .. Len(ms) : r[i] = CutOne(r[i - 1])
  BY <1>1, CutLargestUnfolds
<1> DEFINE Settled(i) == \/ Fits(r[i])
                      \/ /\ Few(ms) /\ IsFiniteSet(Cuttable(r[i]))
                         /\ Cardinality(Cuttable(r[i])) <= Len(ms) - 1 - i
           S == {i \in 0 .. Len(ms) : Shortened(ms, r[i]) /\ Settled(i)}
<1>3. 0 \in S
  <2>1. IsFiniteSet(2 .. Len(ms)) /\ Cardinality(2 .. Len(ms)) = Len(ms) - 1
    BY <1>1, FS_Interval
  <2>2. Cuttable(ms) \in SUBSET (2 .. Len(ms))
    BY DEF Cuttable
  <2>3. IsFiniteSet(Cuttable(ms)) /\ Cardinality(Cuttable(ms)) <= Cardinality(2 .. Len(ms))
    BY <2>1, <2>2, FS_Subset
  <2>4. Cardinality(Cuttable(ms)) \in Nat
    BY <2>3, FS_CardinalityType
  <2>5. Cardinality(Cuttable(ms)) <= Len(ms) - 1 - 0
    BY <1>1, <2>1, <2>3, <2>4
  <2>6. Settled(0)
    BY <1>2, <2>3, <2>5
  <2>7. Shortened(ms, r[0])
    BY <1>1, <1>2, ShortenedItself
  <2> HIDE DEF Settled
  <2>8. QED
    BY <1>1, <2>6, <2>7
<1>4. ASSUME NEW i \in 1 .. Len(ms), i - 1 \in S PROVE i \in S
  <2> DEFINE a == r[i - 1]
  <2>1. Shortened(ms, a) /\ Settled(i - 1)
    BY <1>4
  <2>2. r[i] = CutOne(a)
    BY <1>2
  <2>3. /\ a \in Seq(AnyMessage) /\ Len(a) = Len(ms) /\ a[1] = ms[1]
    BY <2>1 DEF Shortened
  <2>4. Begun(a)
    BY <1>1, <2>3 DEF Begun
  <2>5. Shortened(a, CutOne(a)) /\ (Fits(a) => CutOne(a) = a)
    BY <2>3, CutOneShortens
  <2>6. Shortened(ms, r[i])
    BY <1>1, <2>1, <2>2, <2>5, ShortenedTwice
  <2>7. Settled(i)
    <3>1. CASE Fits(a)
      BY <2>2, <2>5, <3>1
    <3>2. CASE ~Fits(a)
      <4>1. /\ Few(ms) /\ Few(a) /\ Cardinality(Cuttable(a)) <= Len(ms) - 1 - (i - 1)
        BY <2>1, <2>3, <3>2 DEF Few
      <4>2. \/ Fits(CutOne(a))
            \/ /\ IsFiniteSet(Cuttable(a)) /\ IsFiniteSet(Cuttable(CutOne(a)))
               /\ Cardinality(Cuttable(CutOne(a))) < Cardinality(Cuttable(a))
        BY <2>4, <3>2, <4>1, CutOneProgress
      <4>3. CASE Fits(CutOne(a))
        BY <2>2, <4>3
      <4>4. CASE /\ IsFiniteSet(Cuttable(a)) /\ IsFiniteSet(Cuttable(CutOne(a)))
                 /\ Cardinality(Cuttable(CutOne(a))) < Cardinality(Cuttable(a))
        <5>1. Cardinality(Cuttable(a)) \in Nat /\ Cardinality(Cuttable(CutOne(a))) \in Nat
          BY <4>4, FS_CardinalityType
        <5> DEFINE x == Cardinality(Cuttable(a))
                   y == Cardinality(Cuttable(CutOne(a)))
        <5> HIDE DEF x, y
        <5>2. y <= Len(ms) - 1 - i
          <6>1. x \in Nat /\ y \in Nat /\ y < x /\ x <= Len(ms) - 1 - (i - 1) /\ i \in Int
            BY <4>1, <4>4, <5>1 DEF x, y
          <6>2. QED
            BY <1>1, <6>1
        <5>3. QED
          BY <2>2, <4>1, <4>4, <5>2 DEF y
      <4>5. QED
        BY <4>2, <4>3, <4>4
    <3>3. QED
      BY <3>1, <3>2
  <2> HIDE DEF Settled
  <2>8. i \in 0 .. Len(ms)
    BY <1>1
  <2>9. QED
    BY <2>6, <2>7, <2>8
<1>5. 0 .. Len(ms) \subseteq S
  <2> HIDE DEF S
  <2>1. QED
    BY <1>1, <1>3, <1>4, InductionUpTo
<1>6. Len(ms) \in S
  BY <1>1, <1>5
<1>7. Shortened(ms, r[Len(ms)]) /\ Settled(Len(ms))
  BY <1>6
<1>8. Fits(r[Len(ms)])
  <2>1. SUFFICES ASSUME IsFiniteSet(Cuttable(r[Len(ms)])),
                        Cardinality(Cuttable(r[Len(ms)])) <= Len(ms) - 1 - Len(ms)
                 PROVE  FALSE
    BY <1>7
  <2>2. Cardinality(Cuttable(r[Len(ms)])) \in Nat
    BY <2>1, FS_CardinalityType
  <2>3. QED
    BY <1>1, <2>1, <2>2
<1>9. QED
  BY <1>2, <1>7, <1>8

(* The first cut is of the issue.                                            *)
LEMMA CutIssueShortens ==
    ASSUME NEW ms \in Seq(AnyMessage), Len(ms) >= 2
    PROVE  Shortened(ms, CutIssue(ms)) /\ (Fits(ms) => CutIssue(ms) = ms)
<1>1. 2 \in 2 .. Len(ms) /\ IssueFloor \in Nat /\ IssueFloor >= MessageFloor
  BY ConstantsAreSizes
<1>2. CASE Fits(ms)
  BY <1>2, ShortenedItself DEF CutIssue
<1>3. CASE ~Fits(ms)
  BY <1>1, <1>3, CutAtShortens DEF CutIssue
<1>4. QED
  BY <1>2, <1>3

(* Some numbers have a least one.                                            *)
LEMMA Least ==
    ASSUME NEW S \in SUBSET Nat, S # {}
    PROVE  \E n \in S : \A k \in S : n <= k
<1>1. PICK m \in S : \A k \in S : ~(<<k, m>> \in OpToRel(<, Nat))
  BY WFMin, NatLessThanWellFounded
<1>2. ASSUME NEW k \in S PROVE m <= k
  <2>1. ~(k < m)
    BY <1>1 DEF OpToRel
  <2>2. k \in Nat /\ m \in Nat
    OBVIOUS
  <2>3. QED
    BY <2>1, <2>2
<1>3. QED
  BY <1>2

(* Two sequences, one after the other.                                       *)
LEMMA Concatenation ==
    ASSUME NEW S, NEW a \in Seq(S), NEW b \in Seq(S)
    PROVE  /\ a \o b \in Seq(S) /\ Len(a \o b) = Len(a) + Len(b)
           /\ Len(a) \in Nat /\ Len(b) \in Nat
           /\ \A i \in 1 .. Len(a) : (a \o b)[i] = a[i]
           /\ \A i \in 1 .. Len(b) : (a \o b)[Len(a) + i] = b[i]
OBVIOUS

(* Without its n oldest turns, a conversation is its head and its newer      *)
(* turns.                                                                    *)
LEMMA OldestLeft ==
    ASSUME NEW ms \in Seq(AnyMessage), NEW t \in Nat, Len(ms) = 2 * t + 2, NEW n \in 0 .. t
    PROVE  LET rest == WithoutOldest(ms, n) IN
           /\ rest \in Seq(AnyMessage) /\ Len(rest) = 2 * (t - n) + 2
           /\ rest[1] = ms[1] /\ rest[2] = ms[2]
           /\ \A i \in 3 .. Len(rest) : rest[i] = ms[i + 2 * n]
<1> DEFINE head == SubSeq(ms, 1, 2)
           tail == SubSeq(ms, 3 + 2 * n, Len(ms))
           rest == WithoutOldest(ms, n)
<1>1. head \in Seq(AnyMessage) /\ Len(head) = 2 /\ head[1] = ms[1] /\ head[2] = ms[2]
  OBVIOUS
<1>2. /\ tail \in Seq(AnyMessage) /\ Len(tail) = 2 * (t - n)
      /\ \A i \in 1 .. Len(tail) : tail[i] = ms[(3 + 2 * n) + i - 1]
  <2>1. /\ 3 + 2 * n \in 1 .. Len(ms) + 1 /\ Len(ms) \in Nat /\ 3 + 2 * n \in Nat
        /\ Len(ms) - (3 + 2 * n) + 1 = 2 * (t - n) /\ 2 * (t - n) \in Nat
    OBVIOUS
  <2> DEFINE a == 3 + 2 * n
             l == 2 * (t - n)
  <2> HIDE DEF a, l
  <2>2. a \in 1 .. Len(ms) + 1 /\ a \in Nat /\ Len(ms) - a + 1 = l /\ l \in Nat
    BY <2>1 DEF a, l
  <2>3. tail = SubSeq(ms, a, Len(ms))
    BY DEF a
  <2> HIDE DEF tail
  <2>4. tail \in Seq(AnyMessage) /\ Len(tail) = l /\ \A i \in 1 .. l : tail[i] = ms[a + i - 1]
    BY SMTT(30), <2>2, <2>3
  <2>5. QED
    BY <2>4 DEF a, l
<1>3. rest = head \o tail
  BY DEF WithoutOldest
<1> HIDE DEF head, tail, rest
<1>4. /\ rest \in Seq(AnyMessage) /\ Len(rest) = 2 + Len(tail) /\ Len(tail) \in Nat
      /\ \A i \in 1 .. 2 : rest[i] = head[i]
      /\ \A i \in 1 .. Len(tail) : rest[2 + i] = tail[i]
  <2>1. head \in Seq(AnyMessage) /\ tail \in Seq(AnyMessage)
    BY <1>1, <1>2
  <2>2. /\ head \o tail \in Seq(AnyMessage) /\ Len(head \o tail) = Len(head) + Len(tail)
        /\ Len(tail) \in Nat
        /\ \A i \in 1 .. Len(head) : (head \o tail)[i] = head[i]
        /\ \A i \in 1 .. Len(tail) : (head \o tail)[Len(head) + i] = tail[i]
    BY <2>1, Concatenation
  <2>3. Len(head) = 2
    BY <1>1
  <2>4. QED
    BY <1>3, <2>2, <2>3
<1>5. rest[1] = ms[1] /\ rest[2] = ms[2]
  BY <1>1, <1>4
<1>6. ASSUME NEW i \in 3 .. Len(rest) PROVE rest[i] = ms[i + 2 * n]
  <2>1. i - 2 \in 1 .. Len(tail) /\ 2 + (i - 2) = i
    BY <1>4
  <2>2. rest[i] = tail[i - 2]
    BY <1>4, <2>1
  <2>3. tail[i - 2] = ms[(3 + 2 * n) + (i - 2) - 1]
    BY <1>2, <2>1
  <2>4. (3 + 2 * n) + (i - 2) - 1 = i + 2 * n
    OBVIOUS
  <2>5. QED
    BY <2>2, <2>3, <2>4
<1>7. QED
  BY <1>2, <1>4, <1>5, <1>6 DEF rest

(* The last turn is never dropped; either all that is left fits, or it is    *)
(* four messages at most.                                                    *)
LEMMA TurnsDropped ==
    ASSUME NEW ms \in Seq(AnyMessage), NEW t \in Nat, Len(ms) = 2 * t + 2
    PROVE  \E n \in 0 .. t : /\ DropTurns(ms) = WithoutOldest(ms, n)
                             /\ t >= 1 => n < t
                             /\ Fits(DropTurns(ms)) \/ Few(DropTurns(ms))
<1> DEFINE enough == {n \in 0 .. Len(ms) :
                        Len(WithoutOldest(ms, n)) <= 4 \/ Fits(WithoutOldest(ms, n))}
           first == CHOOSE n \in enough : \A k \in enough : n <= k
           last == IF t >= 1 THEN t - 1 ELSE 0
<1>1. last \in 0 .. t /\ last \in 0 .. Len(ms) /\ (t >= 1 => last < t)
  OBVIOUS
<1>2. Len(WithoutOldest(ms, last)) = 2 * (t - last) + 2
  BY <1>1, OldestLeft
<1>3. Len(WithoutOldest(ms, last)) <= 4
  BY <1>2
<1>4. last \in enough
  BY <1>1, <1>3
<1>5. enough \in SUBSET Nat
  OBVIOUS
<1>6. DropTurns(ms) = WithoutOldest(ms, first)
  BY DEF DropTurns
<1> HIDE DEF enough, last
<1>7. first \in enough /\ \A k \in enough : first <= k
  BY <1>4, <1>5, Least
<1> HIDE DEF first
<1>8. first \in Nat /\ first <= last /\ last \in Nat
  BY <1>1, <1>4, <1>5, <1>7
<1>9. first \in 0 .. t /\ (t >= 1 => first < t)
  BY <1>1, <1>8
<1>10. Fits(DropTurns(ms)) \/ Few(DropTurns(ms))
  <2>1. Len(WithoutOldest(ms, first)) <= 4 \/ Fits(WithoutOldest(ms, first))
    BY <1>7 DEF enough
  <2>2. CASE Len(WithoutOldest(ms, first)) <= 4
    <3>1. Len(WithoutOldest(ms, first)) = 2 * (t - first) + 2
      BY <1>9, OldestLeft
    <3>2. t - first \in Nat /\ 2 * (t - first) + 2 <= 4
      BY <1>9, <2>2, <3>1
    <3>3. t - first = 0 \/ t - first = 1
      BY <3>2
    <3>4. QED
      BY <1>6, <3>1, <3>3 DEF Few
  <2>3. QED
    BY <1>6, <2>1, <2>2
<1>11. QED
  BY <1>6, <1>9, <1>10

(* Compaction drops the oldest turns, but never the last, cuts what is left, *)
(* and makes it fit.                                                         *)
LEMMA Compacting ==
    ASSUME NEW ms, Begun(ms), NEW t \in Nat, Len(ms) = 2 * t + 2
    PROVE  /\ Fits(Compact(ms))
           /\ \E n \in 0 .. t : (t >= 1 => n < t) /\ Shortened(WithoutOldest(ms, n), Compact(ms))
<1>1. ms \in Seq(AnyMessage)
  BY DEF Begun
<1>2. PICK n \in 0 .. t : /\ DropTurns(ms) = WithoutOldest(ms, n)
                          /\ t >= 1 => n < t
                          /\ Fits(DropTurns(ms)) \/ Few(DropTurns(ms))
  BY <1>1, TurnsDropped
<1> DEFINE a == DropTurns(ms)
           b == CutIssue(a)
<1>3. a \in Seq(AnyMessage) /\ Len(a) = 2 * (t - n) + 2 /\ a[1] = ms[1]
  BY <1>1, <1>2, OldestLeft
<1>4. Len(a) \in Nat /\ Len(a) >= 2
  BY <1>3
<1>5. Shortened(a, b) /\ (Fits(a) => b = a)
  BY <1>3, <1>4, CutIssueShortens
<1>6. b \in Seq(AnyMessage) /\ Len(b) = Len(a) /\ b[1] = a[1]
  BY <1>5 DEF Shortened
<1>7. Begun(b)
  BY <1>3, <1>4, <1>6 DEF Begun
<1>8. Fits(b) \/ Few(b)
  BY <1>2, <1>5, <1>6 DEF Few
<1>9. Shortened(b, CutLargest(b)) /\ Fits(CutLargest(b))
  BY <1>7, <1>8, CutLargestFits
<1>10. Shortened(a, CutLargest(b))
  BY <1>3, <1>5, <1>9, ShortenedTwice
<1>11. Compact(ms) = CutLargest(b)
  BY DEF Compact
<1>12. QED
  BY <1>2, <1>9, <1>10, <1>11
-----------------------------------------------------------------------------

AnyEvent == [kind : {"action", "malformed"}, reply : Nat, observation : Nat]

Conversations == {ms \in Seq(AnyMessage) : Begun(ms) /\ \E t \in Nat : Len(ms) = 2 * t + 2}

(* A reply and its observation.                                              *)
LEMMA Exchanges ==
    ASSUME NEW i \in Nat, NEW e \in AnyEvent
    PROVE  /\ Exchange(i, e) \in Seq(AnyMessage) /\ Len(Exchange(i, e)) = 2
           /\ Exchange(i, e)[1] = Message("assistant", i, e.reply)
           /\ Exchange(i, e)[2] = Message("tool", i, e.observation)
           /\ e.reply \in Nat /\ e.observation \in Nat
<1>1. e.reply \in Nat /\ e.observation \in Nat
  BY DEF AnyEvent
<1> DEFINE a == Message("assistant", i, e.reply)
           b == Message("tool", i, e.observation)
<1>2. a \in AnyMessage /\ b \in AnyMessage
  BY <1>1 DEF AnyMessage, Message, Roles
<1>3. Exchange(i, e) = <<a, b>>
  BY DEF Exchange
<1> HIDE DEF a, b
<1>4. Exchange(i, e) \in Seq(AnyMessage) /\ Len(Exchange(i, e)) = 2
      /\ Exchange(i, e)[1] = a /\ Exchange(i, e)[2] = b
  BY <1>2, <1>3
<1>5. QED
  BY <1>1, <1>4 DEF a, b

(* A conversation with one more exchange.                                    *)
LEMMA Extended ==
    ASSUME NEW c \in Seq(AnyMessage), NEW i \in Nat, NEW e \in AnyEvent
    PROVE  LET ms == c \o Exchange(i, e) IN
           /\ ms \in Seq(AnyMessage) /\ Len(ms) = Len(c) + 2 /\ Len(c) \in Nat
           /\ \A j \in 1 .. Len(c) : ms[j] = c[j]
           /\ ms[Len(c) + 1] = Message("assistant", i, e.reply)
           /\ ms[Len(c) + 2] = Message("tool", i, e.observation)
<1> DEFINE x == Exchange(i, e)
<1>1. /\ x \in Seq(AnyMessage) /\ Len(x) = 2
      /\ x[1] = Message("assistant", i, e.reply) /\ x[2] = Message("tool", i, e.observation)
  BY Exchanges
<1> HIDE DEF x
<1>2. /\ c \o x \in Seq(AnyMessage) /\ Len(c \o x) = Len(c) + Len(x) /\ Len(c) \in Nat
      /\ \A j \in 1 .. Len(c) : (c \o x)[j] = c[j]
      /\ \A j \in 1 .. Len(x) : (c \o x)[Len(c) + j] = x[j]
  <2>1. x \in Seq(AnyMessage)
    BY <1>1
  <2>2. QED
    BY <2>1, Concatenation
<1>3. (c \o x)[Len(c) + 1] = x[1] /\ (c \o x)[Len(c) + 2] = x[2]
  BY <1>1, <1>2
<1>4. QED
  BY <1>1, <1>2, <1>3 DEF x

(* A conversation that is compacted and goes on is one.                      *)
LEMMA ExtendedConversation ==
    ASSUME NEW v \in Conversations, NEW i \in Nat, NEW e \in AnyEvent
    PROVE  Compact(v) \o Exchange(i, e) \in Conversations
<1>1. Begun(v) /\ v \in Seq(AnyMessage)
  BY DEF Conversations
<1>2. PICK t \in Nat : Len(v) = 2 * t + 2
  BY DEF Conversations
<1>3. PICK n \in 0 .. t : Shortened(WithoutOldest(v, n), Compact(v))
  BY <1>1, <1>2, Compacting
<1> DEFINE c == Compact(v)
           ms == c \o Exchange(i, e)
<1>4. c \in Seq(AnyMessage) /\ Len(c) = 2 * (t - n) + 2 /\ c[1] = v[1]
  BY <1>1, <1>2, <1>3, OldestLeft DEF Shortened
<1> HIDE DEF c
<1>5. ms \in Seq(AnyMessage) /\ Len(ms) = Len(c) + 2 /\ \A j \in 1 .. Len(c) : ms[j] = c[j]
  BY <1>4, Extended
<1> HIDE DEF ms
<1>6. Len(ms) = 2 * (t - n + 1) + 2 /\ t - n + 1 \in Nat /\ Len(ms) \in Nat /\ Len(ms) >= 2
  <2>1. t \in Nat /\ n \in 0 .. t /\ Len(c) = 2 * (t - n) + 2 /\ Len(ms) = Len(c) + 2
    BY <1>2, <1>3, <1>4, <1>5
  <2>2. QED
    BY <2>1
<1>7. ms[1] = v[1]
  BY <1>4, <1>5
<1>8. Begun(ms)
  BY <1>1, <1>5, <1>6, <1>7 DEF Begun
<1>9. QED
  BY <1>5, <1>6, <1>8 DEF Conversations, ms, c

(* The conversation after each event, r[i] after i.                          *)
IsReplay(r, start, evs) ==
    /\ r[0] = start
    /\ \A i \in 1 .. Len(evs) : r[i] = Compact(r[i - 1]) \o Exchange(i, evs[i])

(* The replay of some events goes from one to the next;                      *)
LEMMA ReplayUnfolds ==
    ASSUME NEW start \in Conversations, NEW evs \in Seq(AnyEvent)
    PROVE  \E r : ReplayFrom(start, evs) = r[Len(evs)] /\ IsReplay(r, start, evs)
<1> DEFINE L == Len(evs)
           V == Conversations
           h == [i \in 1 .. L |-> [v \in V |-> Compact(v) \o Exchange(i, evs[i])]]
           Is(r) == r = [i \in 0 .. L |->
                           IF i = 0 THEN start ELSE Compact(r[i - 1]) \o Exchange(i, evs[i])]
           c == CHOOSE r : Is(r)
<1>1. L \in Nat /\ \A i \in 1 .. L : i \in Nat /\ evs[i] \in AnyEvent
  OBVIOUS
<1>2. \A i \in 1 .. L : \A v \in V : Compact(v) \o Exchange(i, evs[i]) \in V
  BY <1>1, ExtendedConversation
<1>3. h \in [1 .. L -> [V -> V]]
  BY <1>2
<1>4. start \in V
  OBVIOUS
<1> HIDE DEF V
<1>5. PICK g : FollowsUpTo(g, L, V, start, h)
  <2> HIDE DEF h, L
  <2>1. QED
    BY <1>1, <1>3, <1>4, RecursionUpTo
<1>6. Is(g)
  <2>1. g = [i \in 0 .. L |-> g[i]] /\ g[0] = start
    BY <1>5 DEF FollowsUpTo
  <2>2. ASSUME NEW i \in 0 .. L, i # 0 PROVE g[i] = Compact(g[i - 1]) \o Exchange(i, evs[i])
    <3>1. i \in 1 .. L /\ i - 1 \in 0 .. L
      BY <1>1, <2>2
    <3>2. g[i] = h[i][g[i - 1]] /\ g[i - 1] \in V
      BY <3>1, <1>5 DEF FollowsUpTo
    <3>3. QED
      BY <3>1, <3>2
  <2>3. QED
    <3> HIDE DEF L, h
    <3>1. QED
      BY <2>1, <2>2
<1>7. Is(c)
  <2> HIDE DEF Is
  <2>1. QED
    BY <1>6
<1>8. ReplayFrom(start, evs) = c[L]
  BY DEF ReplayFrom
<1>9. c[0] = start /\ \A i \in 1 .. L : c[i] = Compact(c[i - 1]) \o Exchange(i, evs[i])
  <2> DEFINE k == [i \in 0 .. L |->
                     IF i = 0 THEN start ELSE Compact(c[i - 1]) \o Exchange(i, evs[i])]
  <2>1. c = k
    BY <1>7
  <2> HIDE DEF c
  <2>2. k[0] = start /\ \A i \in 1 .. L : k[i] = Compact(c[i - 1]) \o Exchange(i, evs[i])
    BY <1>1
  <2> HIDE DEF k
  <2>3. QED
    BY <2>1, <2>2
<1>10. IsReplay(c, start, evs)
  BY <1>9 DEF IsReplay
<1> HIDE DEF c
<1>11. QED
  BY <1>8, <1>10

(* of none, it is the start.                                                 *)
LEMMA ReplayStarts ==
    ASSUME NEW start \in Conversations
    PROVE  ReplayFrom(start, <<>>) = start
<1> DEFINE none == <<>>
<1>1. none \in Seq(AnyEvent)
  OBVIOUS
<1>2. Len(none) = 0
  OBVIOUS
<1> HIDE DEF none
<1>3. PICK r : ReplayFrom(start, none) = r[Len(none)] /\ IsReplay(r, start, none)
  BY <1>1, ReplayUnfolds
<1>4. ReplayFrom(start, none) = start
  BY <1>2, <1>3 DEF IsReplay
<1>5. QED
  BY <1>4 DEF none

(* One more event: what went before is compacted, and its exchange added.    *)
LEMMA ReplayGoesOn ==
    ASSUME NEW start \in Conversations, NEW evs \in Seq(AnyEvent), NEW e \in AnyEvent
    PROVE  ReplayFrom(start, Append(evs, e)) =
             Compact(ReplayFrom(start, evs)) \o Exchange(Len(evs) + 1, e)
<1> DEFINE more == Append(evs, e)
           L == Len(evs)
<1>1. /\ more \in Seq(AnyEvent) /\ Len(more) = L + 1 /\ L \in Nat /\ more[L + 1] = e
      /\ \A i \in 1 .. L : more[i] = evs[i]
  OBVIOUS
<1> HIDE DEF more
<1>2. PICK r : /\ ReplayFrom(start, evs) = r[L] /\ r[0] = start
               /\ \A i \in 1 .. L : r[i] = Compact(r[i - 1]) \o Exchange(i, evs[i])
  <2>1. PICK r : ReplayFrom(start, evs) = r[Len(evs)] /\ IsReplay(r, start, evs)
    BY ReplayUnfolds
  <2>2. QED
    BY <2>1 DEF IsReplay
<1>3. PICK q : /\ ReplayFrom(start, more) = q[L + 1] /\ q[0] = start
               /\ \A i \in 1 .. L + 1 : q[i] = Compact(q[i - 1]) \o Exchange(i, more[i])
  <2>1. more \in Seq(AnyEvent)
    BY <1>1
  <2>2. PICK q : ReplayFrom(start, more) = q[Len(more)] /\ IsReplay(q, start, more)
    BY <2>1, ReplayUnfolds
  <2>3. Len(more) = L + 1
    BY <1>1
  <2>4. QED
    BY <2>2, <2>3 DEF IsReplay
<1> HIDE DEF L
<1> DEFINE S == {i \in 0 .. L : q[i] = r[i]}
<1>4. 0 \in S
  BY <1>1, <1>2, <1>3
<1>5. ASSUME NEW i \in 1 .. L, i - 1 \in S PROVE i \in S
  <2>1. i \in 0 .. L /\ i \in 1 .. L + 1 /\ q[i - 1] = r[i - 1] /\ more[i] = evs[i]
    BY <1>1, <1>5
  <2>2. q[i] = r[i]
    BY <1>2, <1>3, <2>1
  <2>3. QED
    BY <2>1, <2>2
<1>6. 0 .. L \subseteq S
  <2> HIDE DEF S
  <2>1. QED
    BY <1>1, <1>4, <1>5, InductionUpTo
<1>7. q[L] = r[L]
  BY <1>1, <1>6
<1>8. q[L + 1] = Compact(q[L]) \o Exchange(L + 1, e)
  <2>1. L + 1 \in 1 .. L + 1 /\ (L + 1) - 1 = L
    BY <1>1
  <2>2. QED
    BY <1>1, <1>3, <2>1
<1>9. QED
  BY <1>2, <1>3, <1>7, <1>8 DEF more, L

-----------------------------------------------------------------------------
IsExchange(a, b, turn) ==
    a.role = "assistant" /\ b.role = "tool" /\ a.turn = turn /\ b.turn = turn

(* A conversation of k turns: the newest of them, one after the other.       *)
Turns(ms, t, k) ==
    /\ Len(ms) = 2 * t + 2
    /\ \A j \in 1 .. t : IsExchange(ms[2 * j + 1], ms[2 * j + 2], k - t + j)

Shape(ms, k, size) ==
    /\ Begun(ms) /\ ms[2].role = "user" /\ Kept(ms[2], size)
    /\ \E t \in 0 .. k : (k >= 1 => t >= 1) /\ Turns(ms, t, k)

(* Compaction keeps a conversation's shape, and its newest turn down to the  *)
(* floor.                                                                    *)
LEMMA CompactKeepsShape ==
    ASSUME NEW ms, NEW k \in Nat, NEW size \in Nat, Shape(ms, k, size)
    PROVE  LET c == Compact(ms) IN
           /\ Shape(c, k, size) /\ Fits(c)
           /\ Len(c) \in Nat /\ Len(ms) \in Nat
           /\ k >= 1 => /\ Len(c) >= 4 /\ Len(ms) >= 4
                        /\ ShorterMessage(c[Len(c)], ms[Len(ms)])
                        /\ ShorterMessage(c[Len(c) - 1], ms[Len(ms) - 1])
<1>1. PICK t \in 0 .. k : (k >= 1 => t >= 1) /\ Turns(ms, t, k)
  BY DEF Shape
<1>2. Begun(ms) /\ ms \in Seq(AnyMessage) /\ ms[2].role = "user" /\ Kept(ms[2], size) /\ t \in Nat
  BY DEF Shape, Begun
<1>3. Len(ms) = 2 * t + 2 /\ \A j \in 1 .. t : IsExchange(ms[2 * j + 1], ms[2 * j + 2], k - t + j)
  BY <1>1 DEF Turns
<1>4. PICK n \in 0 .. t : (t >= 1 => n < t) /\ Shortened(WithoutOldest(ms, n), Compact(ms))
  BY <1>2, <1>3, Compacting
<1> DEFINE a == WithoutOldest(ms, n)
           c == Compact(ms)
           u == t - n
<1>5. u \in 0 .. k /\ (k >= 1 => u >= 1) /\ u \in Nat
  BY <1>1, <1>4
<1>6. /\ a \in Seq(AnyMessage) /\ Len(a) = 2 * u + 2 /\ a[1] = ms[1] /\ a[2] = ms[2]
      /\ \A i \in 3 .. Len(a) : a[i] = ms[i + 2 * n]
  BY <1>2, <1>3, OldestLeft
<1>7. Shortened(a, c) /\ Fits(c)
  BY <1>2, <1>3, <1>4, Compacting
<1> HIDE DEF a, c
<1>8. /\ c \in Seq(AnyMessage) /\ Len(c) = 2 * u + 2 /\ c[1] = ms[1]
      /\ \A i \in 1 .. Len(c) : ShorterMessage(c[i], a[i])
  BY <1>6, <1>7 DEF Shortened
<1>9. Begun(c)
  BY <1>2, <1>5, <1>8 DEF Begun
<1>10. c[2].role = "user" /\ Kept(c[2], size)
  <2>1. ShorterMessage(c[2], ms[2])
    BY SMTT(30), <1>5, <1>6, <1>8
  <2>2. QED
    BY <1>2, <2>1 DEF ShorterMessage, Kept
<1>11. ASSUME NEW j \in 1 .. u PROVE IsExchange(c[2 * j + 1], c[2 * j + 2], k - u + j)
  <2>1. /\ 2 * j + 1 \in 3 .. Len(a) /\ 2 * j + 2 \in 3 .. Len(a) /\ j + n \in 1 .. t
        /\ 2 * j + 1 + 2 * n = 2 * (j + n) + 1 /\ 2 * j + 2 + 2 * n = 2 * (j + n) + 2
        /\ k - t + (j + n) = k - u + j
        /\ 2 * j + 1 \in 1 .. Len(c) /\ 2 * j + 2 \in 1 .. Len(c)
    <3>1. Len(a) = 2 * u + 2 /\ Len(c) = 2 * u + 2 /\ u \in Nat /\ k \in Nat /\ t \in Nat
          /\ n \in Nat /\ j \in Nat /\ 1 <= j /\ j <= u
      BY <1>2, <1>5, <1>6, <1>8
    <3>2. u = t - n
      OBVIOUS
    <3> HIDE DEF u
    <3>3. 2 * j + 1 \in 3 .. Len(a) /\ 2 * j + 2 \in 3 .. Len(a)
          /\ 2 * j + 1 \in 1 .. Len(c) /\ 2 * j + 2 \in 1 .. Len(c)
      BY <3>1
    <3>4. j + n \in 1 .. t /\ k - t + (j + n) = k - u + j
      BY <3>1, <3>2
    <3>5. 2 * j + 1 + 2 * n = 2 * (j + n) + 1 /\ 2 * j + 2 + 2 * n = 2 * (j + n) + 2
      BY <3>1
    <3>6. QED
      BY <3>3, <3>4, <3>5
  <2>2. a[2 * j + 1] = ms[2 * (j + n) + 1] /\ a[2 * j + 2] = ms[2 * (j + n) + 2]
    <3>1. \A i \in 3 .. Len(a) : a[i] = ms[i + 2 * n]
      BY <1>6
    <3>2. a[2 * j + 1] = ms[2 * j + 1 + 2 * n] /\ a[2 * j + 2] = ms[2 * j + 2 + 2 * n]
      BY <2>1, <3>1
    <3>3. QED
      BY <2>1, <3>2
  <2>3. IsExchange(ms[2 * (j + n) + 1], ms[2 * (j + n) + 2], k - t + (j + n))
    BY <1>3, <2>1
  <2>4. IsExchange(a[2 * j + 1], a[2 * j + 2], k - u + j)
    BY <2>1, <2>2, <2>3
  <2>5. ShorterMessage(c[2 * j + 1], a[2 * j + 1]) /\ ShorterMessage(c[2 * j + 2], a[2 * j + 2])
    BY <1>8, <2>1
  <2>6. QED
    BY <2>4, <2>5 DEF IsExchange, ShorterMessage
<1>12. Shape(c, k, size)
  <2>1. Turns(c, u, k)
    BY <1>8, <1>11 DEF Turns
  <2>2. QED
    BY <1>5, <1>9, <1>10, <2>1 DEF Shape
<1>13. Len(c) \in Nat /\ Len(ms) \in Nat
  BY <1>2, <1>8
<1>14. ASSUME k >= 1
       PROVE  /\ Len(c) >= 4 /\ Len(ms) >= 4
              /\ ShorterMessage(c[Len(c)], ms[Len(ms)])
              /\ ShorterMessage(c[Len(c) - 1], ms[Len(ms) - 1])
  <2>1. Len(c) >= 4 /\ Len(ms) >= 4
    BY SMTT(30), <1>3, <1>5, <1>8, <1>14
  <2>2. /\ Len(c) \in 3 .. Len(a) /\ Len(c) - 1 \in 3 .. Len(a)
        /\ Len(c) + 2 * n = Len(ms) /\ (Len(c) - 1) + 2 * n = Len(ms) - 1
        /\ Len(c) \in 1 .. Len(c) /\ Len(c) - 1 \in 1 .. Len(c)
    BY <1>3, <1>5, <1>6, <1>8, <2>1
  <2>3. a[Len(c)] = ms[Len(ms)] /\ a[Len(c) - 1] = ms[Len(ms) - 1]
    BY <1>6, <2>2
  <2>4. QED
    BY <1>8, <2>1, <2>2, <2>3
<1>15. QED
  BY <1>7, <1>12, <1>13, <1>14 DEF c

(* A conversation that goes on keeps its shape.                              *)
LEMMA ExchangeKeepsShape ==
    ASSUME NEW c, NEW k \in Nat, NEW size \in Nat, Shape(c, k, size), NEW e \in AnyEvent
    PROVE  Shape(c \o Exchange(k + 1, e), k + 1, size)
<1>1. PICK t \in 0 .. k : (k >= 1 => t >= 1) /\ Turns(c, t, k)
  BY DEF Shape
<1>2. /\ Begun(c) /\ c \in Seq(AnyMessage) /\ c[2].role = "user" /\ Kept(c[2], size)
      /\ Len(c) \in Nat /\ Len(c) >= 2 /\ c[1] = Message("system", 0, SystemSize)
  BY DEF Shape, Begun
<1>3. Len(c) = 2 * t + 2 /\ \A j \in 1 .. t : IsExchange(c[2 * j + 1], c[2 * j + 2], k - t + j)
  BY <1>1 DEF Turns
<1> DEFINE ms == c \o Exchange(k + 1, e)
<1>4. /\ ms \in Seq(AnyMessage) /\ Len(ms) = Len(c) + 2
      /\ \A j \in 1 .. Len(c) : ms[j] = c[j]
      /\ ms[Len(c) + 1] = Message("assistant", k + 1, e.reply)
      /\ ms[Len(c) + 2] = Message("tool", k + 1, e.observation)
  <2>1. c \in Seq(AnyMessage) /\ k + 1 \in Nat
    BY <1>2
  <2>2. QED
    BY <2>1, Extended
<1> HIDE DEF ms
<1>5. ms[1] = c[1] /\ ms[2] = c[2]
  BY <1>2, <1>4
<1>6. Begun(ms) /\ ms[2].role = "user" /\ Kept(ms[2], size)
  BY <1>2, <1>4, <1>5 DEF Begun
<1>7. ASSUME NEW j \in 1 .. t + 1
      PROVE  IsExchange(ms[2 * j + 1], ms[2 * j + 2], (k + 1) - (t + 1) + j)
  <2>1. CASE j = t + 1
    <3>1. 2 * j + 1 = Len(c) + 1 /\ 2 * j + 2 = Len(c) + 2 /\ (k + 1) - (t + 1) + j = k + 1
      BY <1>3, <2>1
    <3>2. QED
      BY <1>4, <3>1 DEF IsExchange, Message
  <2>2. CASE j # t + 1
    <3>1. /\ j \in 1 .. t /\ 2 * j + 1 \in 1 .. Len(c) /\ 2 * j + 2 \in 1 .. Len(c)
          /\ (k + 1) - (t + 1) + j = k - t + j
      BY <1>3, <2>2
    <3>2. ms[2 * j + 1] = c[2 * j + 1] /\ ms[2 * j + 2] = c[2 * j + 2]
      BY <1>4, <3>1
    <3>3. QED
      BY <1>3, <3>1, <3>2
  <2>3. QED
    BY <2>1, <2>2
<1>8. Turns(ms, t + 1, k + 1)
  <2>1. Len(ms) = 2 * (t + 1) + 2
    BY <1>3, <1>4
  <2>2. QED
    BY <1>7, <2>1 DEF Turns
<1>9. t + 1 \in 0 .. k + 1 /\ t + 1 >= 1
  OBVIOUS
<1>10. QED
  BY <1>6, <1>8, <1>9 DEF Shape, ms
-----------------------------------------------------------------------------

Headers == [part : {"header"}, role : Roles]

Contents == [part : {"content", "end"}, role : Roles, turn : Nat, n : Nat]

AnyToken == Headers \cup Contents

Header(m) == [part |-> "header", role |-> m.role]

(* How a message is written: a header, the content, an end.                  *)
LEMMA WrittenTokens ==
    ASSUME NEW m \in AnyMessage, NEW short \in BOOLEAN
    PROVE  LET W == Written(m, short)
               size == IF short /\ m.size > 0 THEN m.size - 1 ELSE m.size
           IN  /\ W \in Seq(AnyToken) /\ Len(W) = size + 2 /\ size \in Nat
               /\ W[1] = Header(m)
               /\ \A q \in 2 .. size + 1 : W[q] = Token("content", m, q - 1)
               /\ W[size + 2] = Token("end", m, 0)
<1> DEFINE size == IF short /\ m.size > 0 THEN m.size - 1 ELSE m.size
           content == [n \in 1 .. size |-> Token("content", m, n)]
           head == <<Header(m)>>
           end == <<Token("end", m, 0)>>
<1>1. m.role \in Roles /\ m.turn \in Nat /\ m.size \in Nat /\ size \in Nat
  BY DEF AnyMessage
<1>2. Header(m) \in AnyToken /\ \A n \in Nat : \A x \in {"content", "end"} : Token(x, m, n) \in AnyToken
  BY <1>1 DEF Header, Headers, Contents, AnyToken, Token
<1>3. [n \in 1 .. (IF short THEN m.size - 1 ELSE m.size) |-> Token("content", m, n)] = content
  <2>1. 1 .. (IF short THEN m.size - 1 ELSE m.size) = 1 .. size
    BY <1>1
  <2>2. QED
    BY <2>1
<1> HIDE DEF size
<1>4. content \in Seq(AnyToken) /\ Len(content) = size
      /\ \A q \in 1 .. size : content[q] = Token("content", m, q)
  BY <1>1, <1>2
<1>5. head \in Seq(AnyToken) /\ Len(head) = 1 /\ head[1] = Header(m)
  BY <1>2
<1>6. end \in Seq(AnyToken) /\ Len(end) = 1 /\ end[1] = Token("end", m, 0)
  BY <1>2
<1>7. Written(m, short) = head \o content \o end
  BY <1>3 DEF Written, Header
<1> HIDE DEF content, head, end
<1> DEFINE front == head \o content
<1>8. /\ front \in Seq(AnyToken) /\ Len(front) = Len(head) + Len(content)
      /\ \A i \in 1 .. Len(head) : front[i] = head[i]
      /\ \A i \in 1 .. Len(content) : front[Len(head) + i] = content[i]
  <2>1. head \in Seq(AnyToken) /\ content \in Seq(AnyToken)
    BY <1>4, <1>5
  <2>2. QED
    BY <2>1, Concatenation
<1> HIDE DEF front
<1>9. /\ front \o end \in Seq(AnyToken) /\ Len(front \o end) = Len(front) + Len(end)
      /\ \A i \in 1 .. Len(front) : (front \o end)[i] = front[i]
      /\ \A i \in 1 .. Len(end) : (front \o end)[Len(front) + i] = end[i]
  <2>1. front \in Seq(AnyToken) /\ end \in Seq(AnyToken)
    BY <1>6, <1>8
  <2>2. QED
    BY <2>1, Concatenation
<1> DEFINE W == front \o end
<1>10. Written(m, short) = W
  BY <1>7 DEF front
<1> HIDE DEF W
<1>11. /\ Len(front) = size + 1 /\ Len(W) = size + 2 /\ W \in Seq(AnyToken)
       /\ \A i \in 1 .. Len(front) : W[i] = front[i]
       /\ W[Len(front) + 1] = end[1]
  <2>1. Len(head) = 1 /\ Len(content) = size /\ Len(end) = 1
    BY <1>4, <1>5, <1>6
  <2>2. Len(front) = size + 1
    BY <1>1, <1>8, <2>1
  <2>3. Len(W) = Len(front) + Len(end) /\ W[Len(front) + 1] = end[1]
    BY <1>9, <2>1 DEF W
  <2>4. Len(W) = size + 2
    BY <1>1, <2>1, <2>2, <2>3
  <2>5. W \in Seq(AnyToken) /\ \A i \in 1 .. Len(front) : W[i] = front[i]
    BY <1>9 DEF W
  <2>6. QED
    BY <2>2, <2>3, <2>4, <2>5
<1>12. W[1] = Header(m)
  <2>1. 1 \in 1 .. Len(front) /\ 1 \in 1 .. Len(head)
    BY <1>1, <1>5, <1>11
  <2>2. QED
    BY <1>5, <1>8, <1>11, <2>1
<1>13. ASSUME NEW q \in 2 .. size + 1 PROVE W[q] = Token("content", m, q - 1)
  <2>1. q \in 1 .. Len(front) /\ q - 1 \in 1 .. Len(content) /\ q - 1 \in 1 .. size /\ 1 + (q - 1) = q
    BY <1>1, <1>4, <1>11
  <2>2. front[Len(head) + (q - 1)] = content[q - 1]
    BY <1>8, <2>1
  <2>3. front[q] = content[q - 1]
    BY <1>5, <2>1, <2>2
  <2>4. QED
    BY <1>4, <1>11, <2>1, <2>3
<1>14. W[size + 2] = Token("end", m, 0)
  <2>1. size + 2 = Len(front) + 1
    BY <1>1, <1>11
  <2>2. QED
    BY <1>6, <1>11, <2>1
<1>15. QED
  BY <1>1, <1>10, <1>11, <1>12, <1>13, <1>14 DEF size

(* What is written for a message is of its role, and begins with the only    *)
(* header.                                                                   *)
LEMMA WrittenKinds ==
    ASSUME NEW m \in AnyMessage, NEW short \in BOOLEAN
    PROVE  LET W == Written(m, short) IN
           /\ W \in Seq(AnyToken) /\ Len(W) \in Nat /\ Len(W) >= 2
           /\ \A q \in 1 .. Len(W) : W[q].role = m.role /\ (W[q].part = "header" <=> q = 1)
<1> DEFINE W == Written(m, short)
           size == IF short /\ m.size > 0 THEN m.size - 1 ELSE m.size
<1>1. /\ W \in Seq(AnyToken) /\ Len(W) = size + 2 /\ size \in Nat
      /\ W[1] = Header(m)
      /\ \A q \in 2 .. size + 1 : W[q] = Token("content", m, q - 1)
      /\ W[size + 2] = Token("end", m, 0)
  BY WrittenTokens
<1> HIDE DEF W, size
<1>2. ASSUME NEW q \in 1 .. Len(W)
      PROVE  W[q].role = m.role /\ (W[q].part = "header" <=> q = 1)
  <2>1. CASE q = 1
    BY <1>1, <2>1 DEF Header
  <2>2. CASE q \in 2 .. size + 1
    <3>1. W[q] = Token("content", m, q - 1) /\ q # 1
      BY <1>1, <2>2
    <3>2. QED
      BY <3>1 DEF Token
  <2>3. CASE q = size + 2
    BY <1>1, <2>3 DEF Token
  <2>4. QED
    BY <1>1, <2>1, <2>2, <2>3
<1>3. QED
  BY <1>1, <1>2 DEF W

(* Written otherwise, a message with content shows it at the same place.     *)
LEMMA WrittenOtherwise ==
    ASSUME NEW m \in AnyMessage
    PROVE  \/ Written(m, TRUE) = Written(m, FALSE)
           \/ \E q \in Nat : /\ q \in 1 .. Len(Written(m, TRUE))
                             /\ q \in 1 .. Len(Written(m, FALSE))
                             /\ Written(m, TRUE)[q] # Written(m, FALSE)[q]
<1>1. m.size \in Nat
  BY DEF AnyMessage
<1>2. CASE m.size = 0
  <2>1. 1 .. m.size - 1 = 1 .. m.size
    BY <1>2
  <2>2. QED
    BY <2>1 DEF Written
<1>3. CASE m.size > 0
  <2> DEFINE A == Written(m, TRUE)
             B == Written(m, FALSE)
  <2>1. A[(m.size - 1) + 2] = Token("end", m, 0) /\ Len(A) = (m.size - 1) + 2
    BY <1>3, WrittenTokens
  <2>2. (\A q \in 2 .. m.size + 1 : B[q] = Token("content", m, q - 1)) /\ Len(B) = m.size + 2
    BY WrittenTokens
  <2> HIDE DEF A, B
  <2>3. (m.size - 1) + 2 = m.size + 1 /\ m.size + 1 \in 2 .. m.size + 1
    BY <1>1, <1>3
  <2>4. A[m.size + 1] = Token("end", m, 0) /\ B[m.size + 1] = Token("content", m, (m.size + 1) - 1)
    BY <2>1, <2>2, <2>3
  <2>5. A[m.size + 1] # B[m.size + 1]
    BY <2>4 DEF Token
  <2>6. m.size + 1 \in Nat /\ m.size + 1 \in 1 .. Len(A) /\ m.size + 1 \in 1 .. Len(B)
    BY <1>1, <2>1, <2>2, <2>3
  <2>7. QED
    BY <2>5, <2>6 DEF A, B
<1>4. m.size = 0 \/ m.size > 0
  BY <1>1
<1>5. QED
  BY <1>2, <1>3, <1>4, Zenon

(* The same of a message in its place.                                       *)
LEMMA WrittenAtTokens ==
    ASSUME NEW ms \in Seq(AnyMessage), NEW i \in 1 .. Len(ms), NEW template
    PROVE  LET W == WrittenAt(ms, i, template) IN
           /\ W \in Seq(AnyToken) /\ Len(W) \in Nat /\ Len(W) >= 2
           /\ \A q \in 1 .. Len(W) : W[q].role = ms[i].role /\ (W[q].part = "header" <=> q = 1)
<1> DEFINE short == /\ template = "rewriting" /\ ms[i].role = "assistant"
                    /\ \E j \in i + 1 .. Len(ms) : ms[j].role = "assistant"
<1>1. ms[i] \in AnyMessage /\ short \in BOOLEAN
  BY MessageFields
<1>2. WrittenAt(ms, i, template) = Written(ms[i], short)
  BY DEF WrittenAt
<1> DEFINE W == Written(ms[i], short)
<1>3. /\ W \in Seq(AnyToken) /\ Len(W) \in Nat /\ Len(W) >= 2
      /\ \A q \in 1 .. Len(W) : W[q].role = ms[i].role /\ (W[q].part = "header" <=> q = 1)
  <2> HIDE DEF short
  <2>1. QED
    BY <1>1, WrittenKinds
<1> HIDE DEF W
<1>4. WrittenAt(ms, i, template) = W
  BY <1>2 DEF W
<1>5. QED
  BY <1>3, <1>4

(* r[i] is the rendering of the first i messages                             *)
IsRendering(r, ms, template) ==
    /\ r[0] = <<>>
    /\ \A i \in 0 .. Len(ms) : r[i] \in Seq(AnyToken)
    /\ \A i \in 1 .. Len(ms) : r[i] = r[i - 1] \o WrittenAt(ms, i, template)

(* A conversation is rendered message by message.                            *)
LEMMA RenderedUnfolds ==
    ASSUME NEW ms \in Seq(AnyMessage), NEW template
    PROVE  IsRendering(RenderedUpTo(ms, template), ms, template)
<1> DEFINE L == Len(ms)
           V == Seq(AnyToken)
           W(i) == WrittenAt(ms, i, template)
           h == [i \in 1 .. L |-> [v \in V |-> v \o W(i)]]
           Is(r) == r = [i \in 0 .. L |-> IF i = 0 THEN <<>> ELSE r[i - 1] \o W(i)]
           c == RenderedUpTo(ms, template)
<1>1. L \in Nat /\ \A i \in 1 .. L : W(i) \in V
  BY WrittenAtTokens
<1>2. \A i \in 1 .. L : \A v \in V : v \o W(i) \in V
  <2> TAKE i \in 1 .. L
  <2> TAKE v \in V
  <2>1. W(i) \in Seq(AnyToken)
    BY <1>1
  <2> HIDE DEF W
  <2>2. QED
    BY <2>1, Concatenation
<1>3. <<>> \in V
  OBVIOUS
<1>4. c = CHOOSE r : Is(r)
  BY DEF RenderedUpTo
<1> HIDE DEF V, W, c
<1>5. h \in [1 .. L -> [V -> V]]
  BY <1>2
<1>6. PICK g : FollowsUpTo(g, L, V, <<>>, h)
  <2> HIDE DEF h, L
  <2>1. QED
    BY <1>1, <1>3, <1>5, RecursionUpTo
<1>7. Is(g)
  <2>1. g = [i \in 0 .. L |-> g[i]] /\ g[0] = <<>>
    BY <1>6 DEF FollowsUpTo
  <2>2. ASSUME NEW i \in 0 .. L, i # 0 PROVE g[i] = g[i - 1] \o W(i)
    <3>1. i \in 1 .. L /\ i - 1 \in 0 .. L
      BY <1>1, <2>2
    <3>2. g[i] = h[i][g[i - 1]] /\ g[i - 1] \in V
      BY <3>1, <1>6 DEF FollowsUpTo
    <3>3. QED
      BY <3>1, <3>2
  <2>3. QED
    <3> HIDE DEF L, h
    <3>1. QED
      BY <2>1, <2>2
<1>8. Is(c)
  <2> HIDE DEF Is
  <2>1. QED
    BY <1>4, <1>7
<1>9. c[0] = <<>> /\ \A i \in 1 .. L : c[i] = c[i - 1] \o W(i)
  <2> DEFINE k == [i \in 0 .. L |-> IF i = 0 THEN <<>> ELSE c[i - 1] \o W(i)]
  <2>1. c = k
    BY <1>8
  <2>2. k[0] = <<>> /\ \A i \in 1 .. L : k[i] = c[i - 1] \o W(i)
    BY <1>1
  <2> HIDE DEF k
  <2>3. QED
    BY <2>1, <2>2
<1> DEFINE S == {i \in 0 .. L : c[i] \in V}
<1>10. 0 \in S
  BY <1>1, <1>3, <1>9
<1>11. ASSUME NEW i \in 1 .. L, i - 1 \in S PROVE i \in S
  <2>1. i \in 0 .. L /\ c[i] = c[i - 1] \o W(i) /\ c[i - 1] \in V
    BY <1>1, <1>9, <1>11
  <2>2. QED
    BY <1>2, <2>1
<1>12. 0 .. L \subseteq S
  <2> HIDE DEF S, L
  <2>1. QED
    BY <1>1, <1>10, <1>11, InductionUpTo
<1>13. \A i \in 0 .. L : c[i] \in V
  BY <1>12
<1>14. QED
  BY <1>9, <1>13 DEF IsRendering, V, W, c

(* Each message adds what is written for it, and leaves what was before.     *)
LEMMA RenderedStep ==
    ASSUME NEW ms \in Seq(AnyMessage), NEW template, NEW r, IsRendering(r, ms, template),
           NEW i \in 1 .. Len(ms)
    PROVE  LET W == WrittenAt(ms, i, template) IN
           /\ Len(r[i - 1]) \in Nat /\ Len(r[i]) = Len(r[i - 1]) + Len(W)
           /\ \A p \in 1 .. Len(r[i - 1]) : r[i][p] = r[i - 1][p]
           /\ \A q \in 1 .. Len(W) : r[i][Len(r[i - 1]) + q] = W[q]
<1> DEFINE W == WrittenAt(ms, i, template)
           a == r[i - 1]
<1>1. i - 1 \in 0 .. Len(ms)
  OBVIOUS
<1>2. a \in Seq(AnyToken) /\ r[i] = a \o W
  BY <1>1 DEF IsRendering
<1>3. W \in Seq(AnyToken)
  BY WrittenAtTokens
<1> HIDE DEF a, W
<1>4. /\ Len(a \o W) = Len(a) + Len(W) /\ Len(a) \in Nat
      /\ \A p \in 1 .. Len(a) : (a \o W)[p] = a[p]
      /\ \A q \in 1 .. Len(W) : (a \o W)[Len(a) + q] = W[q]
  BY <1>2, <1>3, Concatenation
<1>5. QED
  BY <1>2, <1>4 DEF a, W

(* The renderings of fewer messages are prefixes of those of more.           *)
LEMMA RenderedPrefixes ==
    ASSUME NEW ms \in Seq(AnyMessage), NEW template, NEW r, IsRendering(r, ms, template),
           NEW j \in 0 .. Len(ms), NEW i \in 0 .. Len(ms), j <= i
    PROVE  /\ Len(r[j]) \in Nat /\ Len(r[i]) \in Nat /\ Len(r[j]) <= Len(r[i])
           /\ \A p \in 1 .. Len(r[j]) : r[i][p] = r[j][p]
<1> DEFINE L == Len(ms)
           Has(k) == j <= k => /\ Len(r[k]) \in Nat /\ Len(r[j]) <= Len(r[k])
                               /\ \A p \in 1 .. Len(r[j]) : r[k][p] = r[j][p]
           S == {k \in 0 .. L : Has(k)}
<1>1. L \in Nat
  OBVIOUS
<1>2. \A k \in 0 .. L : Len(r[k]) \in Nat
  BY DEF IsRendering
<1>3. 0 \in S
  <2>1. j <= 0 => j = 0
    OBVIOUS
  <2>2. QED
    BY <1>1, <1>2, <2>1
<1>4. ASSUME NEW k \in 1 .. L, k - 1 \in S PROVE k \in S
  <2>1. k \in 0 .. L /\ k - 1 \in 0 .. L
    BY <1>1
  <2>2. SUFFICES ASSUME j <= k PROVE Has(k)
    BY <2>1
  <2>3. CASE j = k
    BY <1>2, <2>1, <2>3
  <2>4. CASE j # k
    <3>1. j <= k - 1
      BY <2>2, <2>4, <1>1
    <3>2. /\ Len(r[j]) <= Len(r[k - 1])
          /\ \A p \in 1 .. Len(r[j]) : r[k - 1][p] = r[j][p]
      BY <1>4, <3>1
    <3>3. /\ Len(r[k]) = Len(r[k - 1]) + Len(WrittenAt(ms, k, template))
          /\ \A p \in 1 .. Len(r[k - 1]) : r[k][p] = r[k - 1][p]
      BY RenderedStep
    <3>4. Len(WrittenAt(ms, k, template)) \in Nat
      BY WrittenAtTokens
    <3>5. Len(r[k]) \in Nat /\ Len(r[k - 1]) \in Nat /\ Len(r[j]) \in Nat
      BY <1>2, <2>1
    <3>6. Len(r[j]) <= Len(r[k])
      BY <3>2, <3>3, <3>4, <3>5
    <3>7. ASSUME NEW p \in 1 .. Len(r[j]) PROVE r[k][p] = r[j][p]
      <4>1. p \in 1 .. Len(r[k - 1])
        BY <3>2, <3>5
      <4>2. QED
        BY <3>2, <3>3, <4>1
    <3>8. QED
      BY <3>5, <3>6, <3>7
  <2>5. QED
    BY <2>3, <2>4
<1>5. 0 .. L \subseteq S
  <2> HIDE DEF S, L
  <2>1. QED
    BY <1>1, <1>3, <1>4, InductionUpTo
<1>6. Has(i)
  BY <1>5
<1>7. QED
  BY <1>2, <1>6

(* Every token is of a message.                                              *)
LEMMA RenderedParts ==
    ASSUME NEW ms \in Seq(AnyMessage), NEW template, NEW r, IsRendering(r, ms, template),
           NEW p \in 1 .. Len(r[Len(ms)])
    PROVE  \E i \in 1 .. Len(ms) : Len(r[i - 1]) < p /\ p <= Len(r[i])
<1> DEFINE L == Len(ms)
           Has(k) == p <= Len(r[k]) => \E i \in 1 .. k : Len(r[i - 1]) < p /\ p <= Len(r[i])
           S == {k \in 0 .. L : Has(k)}
<1>1. L \in Nat
  OBVIOUS
<1>2. \A k \in 0 .. L : Len(r[k]) \in Nat
  BY DEF IsRendering
<1>3. p \in Nat /\ p >= 1 /\ p <= Len(r[L])
  BY <1>1, <1>2
<1>4. 0 \in S
  <2>1. Len(r[0]) = 0
    BY DEF IsRendering
  <2>2. QED
    BY <1>1, <1>3, <2>1
<1>5. ASSUME NEW k \in 1 .. L, k - 1 \in S PROVE k \in S
  <2>1. k \in 0 .. L /\ k - 1 \in 0 .. L /\ k \in 1 .. k
    BY <1>1
  <2>2. SUFFICES ASSUME p <= Len(r[k])
                 PROVE  \E i \in 1 .. k : Len(r[i - 1]) < p /\ p <= Len(r[i])
    BY <2>1
  <2>3. CASE p <= Len(r[k - 1])
    <3>1. PICK i \in 1 .. k - 1 : Len(r[i - 1]) < p /\ p <= Len(r[i])
      BY <1>5, <2>3
    <3>2. i \in 1 .. k
      BY <3>1, <1>1
    <3>3. QED
      BY <3>1, <3>2
  <2>4. CASE ~(p <= Len(r[k - 1]))
    <3>1. Len(r[k - 1]) < p
      BY <1>2, <1>3, <2>1, <2>4
    <3>2. QED
      BY <2>1, <2>2, <3>1
  <2>5. QED
    BY <2>3, <2>4
<1>6. 0 .. L \subseteq S
  <2> HIDE DEF S, L
  <2>1. QED
    BY <1>1, <1>4, <1>5, InductionUpTo
<1>7. Has(L)
  BY <1>1, <1>6
<1>8. QED
  BY <1>3, <1>7

(* Conversations in which the same is written are rendered the same.         *)
LEMMA RenderedAlike ==
    ASSUME NEW ms \in Seq(AnyMessage), NEW other \in Seq(AnyMessage), NEW template,
           NEW k \in Nat, k <= Len(ms), k <= Len(other),
           NEW r, IsRendering(r, ms, template), NEW q, IsRendering(q, other, template),
           \A i \in 1 .. k : WrittenAt(ms, i, template) = WrittenAt(other, i, template)
    PROVE  r[k] = q[k]
<1> DEFINE S == {i \in 0 .. k : r[i] = q[i]}
<1>1. 0 \in S
  BY DEF IsRendering
<1>2. ASSUME NEW i \in 1 .. k, i - 1 \in S PROVE i \in S
  <2>1. i \in 1 .. Len(ms) /\ i \in 1 .. Len(other) /\ i \in 0 .. k
    OBVIOUS
  <2>2. /\ r[i] = r[i - 1] \o WrittenAt(ms, i, template)
        /\ q[i] = q[i - 1] \o WrittenAt(other, i, template)
    BY <2>1 DEF IsRendering
  <2>3. QED
    BY <1>2, <2>1, <2>2
<1>3. 0 .. k \subseteq S
  <2> HIDE DEF S
  <2>1. QED
    BY <1>1, <1>2, InductionUpTo
<1>4. QED
  BY <1>3

Speaks(ms, i) == ms[i].role = "assistant"

(* The first k messages, and what is written for them there                  *)
LEMMA FirstMessages ==
    ASSUME NEW ms \in Seq(AnyMessage), NEW k \in 0 .. Len(ms)
    PROVE  /\ SubSeq(ms, 1, k) \in Seq(AnyMessage) /\ Len(SubSeq(ms, 1, k)) = k
           /\ \A j \in 1 .. k : SubSeq(ms, 1, k)[j] = ms[j]
<1>1. Len(ms) \in Nat /\ \A j \in 1 .. k : ms[j] \in AnyMessage
  OBVIOUS
<1>2. QED
  BY <1>1

(* What is written for a message depends on whether the policy speaks again, *)
LEMMA WrittenFirst ==
    ASSUME NEW ms \in Seq(AnyMessage), NEW k \in 0 .. Len(ms), NEW j \in 1 .. k, NEW template
    PROVE  WrittenAt(SubSeq(ms, 1, k), j, template) =
             Written(ms[j], /\ template = "rewriting" /\ Speaks(ms, j)
                            /\ \E n \in j + 1 .. k : Speaks(ms, n))
<1> DEFINE some == SubSeq(ms, 1, k)
<1>1. Len(some) = k /\ \A n \in 1 .. k : some[n] = ms[n]
  BY FirstMessages
<1> HIDE DEF some
<1>2. some[j] = ms[j] /\ \A n \in j + 1 .. k : some[n] = ms[n]
  BY <1>1
<1>3. (\E n \in j + 1 .. Len(some) : some[n].role = "assistant")
      <=> (\E n \in j + 1 .. k : Speaks(ms, n))
  BY <1>1, <1>2 DEF Speaks
<1> DEFINE A == /\ template = "rewriting" /\ some[j].role = "assistant"
                /\ \E n \in j + 1 .. Len(some) : some[n].role = "assistant"
           B == /\ template = "rewriting" /\ Speaks(ms, j)
                /\ \E n \in j + 1 .. k : Speaks(ms, n)
<1>4. A = B
  BY <1>2, <1>3 DEF Speaks
<1>5. WrittenAt(some, j, template) = Written(some[j], A)
  BY DEF WrittenAt
<1> HIDE DEF A, B
<1>6. WrittenAt(some, j, template) = Written(ms[j], B)
  BY <1>2, <1>4, <1>5
<1>7. QED
  BY <1>6 DEF some, B

(* in the whole of the record as in a part of it.                            *)
LEMMA WrittenInAll ==
    ASSUME NEW ms \in Seq(AnyMessage), NEW j \in 1 .. Len(ms), NEW template
    PROVE  WrittenAt(ms, j, template) =
             Written(ms[j], /\ template = "rewriting" /\ Speaks(ms, j)
                            /\ \E n \in j + 1 .. Len(ms) : Speaks(ms, n))
BY DEF WrittenAt, Speaks

(* In a record that is accepted, no turn is written otherwise: then what is  *)
(* rendered through it would not be a prefix of the whole.                   *)
LEMMA TurnsAreWrittenAlike ==
    ASSUME NEW ms \in Seq(AnyMessage), NEW template, Tokenizable(ms, template),
           NEW i \in 1 .. Len(ms), Speaks(ms, i)
    PROVE  /\ WrittenAt(ms, i, template) = Written(ms[i], FALSE)
           /\ Through(ms, i, template) = RenderedUpTo(ms, template)[i]
<1> DEFINE r == RenderedUpTo(ms, template)
           some == SubSeq(ms, 1, i)
           q == RenderedUpTo(some, template)
           L == Len(ms)
<1>1. L \in Nat /\ i \in 0 .. L /\ i - 1 \in 0 .. L /\ i - 1 \in Nat /\ i \in 1 .. i /\ L \in 0 .. L
      /\ i \in Nat
  OBVIOUS
<1>2. some \in Seq(AnyMessage) /\ Len(some) = i
  BY <1>1, FirstMessages
<1>3. IsRendering(r, ms, template) /\ IsRendering(q, some, template)
  BY <1>2, RenderedUnfolds
<1>4. ASSUME NEW j \in 1 .. i - 1
      PROVE  WrittenAt(ms, j, template) = WrittenAt(some, j, template)
  <2>1. j \in 1 .. i /\ j \in 1 .. L /\ i \in j + 1 .. i /\ i \in j + 1 .. L
    BY <1>1
  <2> DEFINE A == /\ template = "rewriting" /\ Speaks(ms, j)
                  /\ \E n \in j + 1 .. L : Speaks(ms, n)
             B == /\ template = "rewriting" /\ Speaks(ms, j)
                  /\ \E n \in j + 1 .. i : Speaks(ms, n)
  <2>2. A = B
    BY <2>1
  <2>3. WrittenAt(ms, j, template) = Written(ms[j], A)
    BY <2>1, WrittenInAll
  <2>4. WrittenAt(some, j, template) = Written(ms[j], B)
    BY <1>1, <2>1, WrittenFirst
  <2> HIDE DEF A, B
  <2>5. QED
    BY <2>2, <2>3, <2>4
<1>5. r[i - 1] = q[i - 1]
  <2>1. i - 1 <= Len(ms) /\ i - 1 <= Len(some)
    BY <1>1, <1>2
  <2> HIDE DEF r, q, some, L
  <2>2. QED
    BY <1>1, <1>2, <1>3, <1>4, <2>1, RenderedAlike
<1> DEFINE full == Written(ms[i], FALSE)
           here == WrittenAt(ms, i, template)
<1>6. WrittenAt(some, i, template) = full
  <2> DEFINE B == /\ template = "rewriting" /\ Speaks(ms, i)
                  /\ \E n \in i + 1 .. i : Speaks(ms, n)
  <2>1. B = FALSE
    BY <1>1
  <2>2. WrittenAt(some, i, template) = Written(ms[i], B)
    BY <1>1, WrittenFirst
  <2> HIDE DEF B
  <2>3. QED
    BY <2>1, <2>2
<1>7. q[i] = q[i - 1] \o full /\ r[i] = r[i - 1] \o here
  BY <1>1, <1>2, <1>3, <1>6 DEF IsRendering
<1>8. Through(ms, i, template) = q[i] /\ Rendered(ms, template) = r[L]
  BY <1>2 DEF Through, Rendered
<1>9. i \in Assistants(ms)
  BY DEF Assistants, Speaks
<1>10. IsPrefix(q[i], r[L])
  BY <1>8, <1>9 DEF Tokenizable
<1> DEFINE rest == Len(r[i - 1])
<1>11. /\ Len(q[i]) = rest + Len(full) /\ rest \in Nat
       /\ \A x \in 1 .. Len(full) : q[i][rest + x] = full[x]
  <2>1. i \in 1 .. Len(some)
    BY <1>1, <1>2
  <2>2. /\ Len(q[i - 1]) \in Nat /\ Len(q[i]) = Len(q[i - 1]) + Len(full)
        /\ \A x \in 1 .. Len(full) : q[i][Len(q[i - 1]) + x] = full[x]
    <3> DEFINE W == WrittenAt(some, i, template)
    <3> HIDE DEF q, some, full
    <3>1. some \in Seq(AnyMessage) /\ IsRendering(q, some, template)
      BY <1>2, <1>3
    <3>2. /\ Len(q[i - 1]) \in Nat /\ Len(q[i]) = Len(q[i - 1]) + Len(W)
          /\ \A x \in 1 .. Len(W) : q[i][Len(q[i - 1]) + x] = W[x]
      BY <2>1, <3>1, RenderedStep
    <3>3. W = full
      BY <1>6
    <3> HIDE DEF W
    <3>4. QED
      BY <3>2, <3>3
  <2>3. QED
    BY <1>5, <2>2
<1>12. /\ Len(r[i]) = rest + Len(here)
       /\ \A x \in 1 .. Len(here) : r[i][rest + x] = here[x]
  <2> HIDE DEF r, here
  <2>1. QED
    BY <1>3, RenderedStep DEF here
<1>13. Len(r[i]) \in Nat /\ Len(r[L]) \in Nat /\ Len(r[i]) <= Len(r[L])
       /\ \A p \in 1 .. Len(r[i]) : r[L][p] = r[i][p]
  <2>1. i <= L /\ L \in 0 .. Len(ms) /\ i \in 0 .. Len(ms)
    BY <1>1
  <2> HIDE DEF r, L
  <2>2. QED
    BY <1>3, <2>1, RenderedPrefixes
<1>14. here = full
  <2> DEFINE A == /\ template = "rewriting" /\ Speaks(ms, i)
                  /\ \E n \in i + 1 .. L : Speaks(ms, n)
             short == Written(ms[i], TRUE)
  <2>1. here = Written(ms[i], A)
    BY WrittenInAll
  <2>2. A = TRUE \/ A = FALSE
    OBVIOUS
  <2> HIDE DEF A
  <2>3. CASE A = FALSE
    BY <2>1, <2>3
  <2>4. CASE A = TRUE
    <3>1. here = short
      BY <2>1, <2>4
    <3>2. ms[i] \in AnyMessage
      BY MessageFields
    <3>3. \/ short = full
          \/ \E x \in Nat : x \in 1 .. Len(short) /\ x \in 1 .. Len(full) /\ short[x] # full[x]
      BY <3>2, WrittenOtherwise
    <3>4. ASSUME NEW x \in Nat, x \in 1 .. Len(short), x \in 1 .. Len(full) PROVE short[x] = full[x]
      <4>1. Len(full) \in Nat /\ Len(here) \in Nat
        <5>1. FALSE \in BOOLEAN
          OBVIOUS
        <5>2. QED
          BY <3>2, <5>1, WrittenKinds, WrittenAtTokens
      <4> DEFINE p == rest + x
      <4>2. p \in 1 .. Len(r[i]) /\ p \in 1 .. Len(q[i])
        <5> HIDE DEF r, q, here, full, short
        <5>1. Len(short) = Len(here)
          BY <3>1
        <5> HIDE DEF rest
        <5>2. x <= Len(here) /\ x <= Len(full) /\ x >= 1
          BY <3>4, <4>1, <5>1
        <5>3. QED
          BY <1>11, <1>12, <4>1, <5>2
      <4>3. r[L][p] = r[i][p] /\ r[i][p] = short[x]
        <5>1. x \in 1 .. Len(here)
          BY <3>1, <3>4
        <5> HIDE DEF r, q, here, full, short, rest
        <5>2. r[i][p] = here[x]
          BY <1>12, <5>1
        <5>3. r[L][p] = r[i][p]
          BY <1>13, <4>2
        <5>4. QED
          BY <3>1, <5>2, <5>3
      <4>4. q[i][p] = full[x]
        BY <1>11, <3>4
      <4>5. q[i][p] = r[L][p]
        <5> HIDE DEF r, q, p
        <5> DEFINE s == q[i]
                   t == r[L]
        <5>1. s \in Seq(AnyToken) /\ t \in Seq(AnyToken)
          BY <1>1, <1>2, <1>3 DEF IsRendering
        <5>2. Len(s) <= Len(t) /\ SubSeq(s, 1, Len(s)) = SubSeq(t, 1, Len(s))
          BY <1>10 DEF IsPrefix
        <5>3. p \in 1 .. Len(s)
          BY <4>2
        <5> HIDE DEF s, t
        <5>4. SubSeq(s, 1, Len(s))[p] = s[p] /\ SubSeq(t, 1, Len(s))[p] = t[p]
          BY <5>1, <5>2, <5>3
        <5>5. QED
          BY <5>2, <5>4 DEF s, t
      <4>6. QED
        BY <4>3, <4>4, <4>5
    <3>5. short = full
      BY <3>3, <3>4
    <3>6. QED
      BY <3>1, <3>5
  <2>5. QED
    BY <2>2, <2>3, <2>4
<1>15. q[i] = r[i]
  BY <1>5, <1>7, <1>14
<1>16. QED
  BY <1>8, <1>14, <1>15

(* What leads to a turn is what is rendered before it, and a header.         *)
LEMMA PromptLength ==
    ASSUME NEW ms \in Seq(AnyMessage), NEW template, Tokenizable(ms, template),
           NEW i \in 1 .. Len(ms), Speaks(ms, i)
    PROVE  Len(Prompt(ms, i, template)) = Len(RenderedUpTo(ms, template)[i - 1]) + 1
<1> DEFINE r == RenderedUpTo(ms, template)
           some == SubSeq(ms, 1, i - 1)
           q == RenderedUpTo(some, template)
           L == Len(ms)
<1>1. L \in Nat /\ i - 1 \in 0 .. L /\ i - 1 \in Nat /\ i \in Nat
  OBVIOUS
<1>2. some \in Seq(AnyMessage) /\ Len(some) = i - 1
  BY <1>1, FirstMessages
<1>3. IsRendering(r, ms, template) /\ IsRendering(q, some, template)
  BY <1>2, RenderedUnfolds
<1>4. ASSUME NEW j \in 1 .. i - 1
      PROVE  WrittenAt(ms, j, template) = WrittenAt(some, j, template)
  <2>1. j \in 1 .. L /\ i \in j + 1 .. L
    BY <1>1
  <2> DEFINE A == /\ template = "rewriting" /\ Speaks(ms, j)
                  /\ \E n \in j + 1 .. L : Speaks(ms, n)
             B == /\ template = "rewriting" /\ Speaks(ms, j)
                  /\ \E n \in j + 1 .. i - 1 : Speaks(ms, n)
  <2>2. A \in BOOLEAN /\ B \in BOOLEAN /\ (B => A) /\ (A => Speaks(ms, j))
    BY <2>1
  <2>3. WrittenAt(ms, j, template) = Written(ms[j], A)
    BY <2>1, WrittenInAll
  <2>4. WrittenAt(some, j, template) = Written(ms[j], B)
    BY <1>1, WrittenFirst
  <2>5. Speaks(ms, j) => WrittenAt(ms, j, template) = Written(ms[j], FALSE)
    BY <2>1, TurnsAreWrittenAlike
  <2> HIDE DEF A, B
  <2>6. CASE A = FALSE
    <3>1. B = FALSE
      BY <2>2, <2>6
    <3>2. QED
      BY <2>3, <2>4, <2>6, <3>1
  <2>7. CASE A = TRUE
    <3>1. CASE B = TRUE
      BY <2>3, <2>4, <2>7, <3>1
    <3>2. CASE B = FALSE
      BY <2>2, <2>4, <2>5, <2>7, <3>2
    <3>3. QED
      BY <2>2, <3>1, <3>2
  <2>8. QED
    BY <2>2, <2>6, <2>7
<1>5. r[i - 1] = q[i - 1]
  <2>1. i - 1 <= Len(ms) /\ i - 1 <= Len(some)
    BY <1>1, <1>2
  <2> DEFINE k == i - 1
  <2>2. some \in Seq(AnyMessage) /\ k \in Nat /\ k <= Len(ms) /\ k <= Len(some)
    BY <1>1, <1>2, <2>1
  <2>3. \A j \in 1 .. k : WrittenAt(ms, j, template) = WrittenAt(some, j, template)
    BY <1>4
  <2> HIDE DEF r, q, some, L, k
  <2>4. r[k] = q[k]
    BY <1>3, <2>2, <2>3, RenderedAlike
  <2>5. QED
    BY <2>4 DEF k
<1>6. Rendered(some, template) = q[i - 1]
  BY <1>2 DEF Rendered
<1> DEFINE a == Rendered(some, template)
           b == GenerationPrompt
<1>7. Prompt(ms, i, template) = a \o b
  BY DEF Prompt
<1>8. a \in Seq(AnyToken) /\ a = r[i - 1]
  BY <1>1, <1>3, <1>5, <1>6 DEF IsRendering
<1>9. b \in Seq(AnyToken) /\ Len(b) = 1
  <2> DEFINE header == [part |-> "header", role |-> "assistant"]
  <2>1. header \in AnyToken
    BY DEF AnyToken, Headers, Roles
  <2>2. b = <<header>>
    BY DEF GenerationPrompt
  <2> HIDE DEF b, header
  <2>3. QED
    BY <2>1, <2>2
<1> HIDE DEF a, b, r
<1>10. Len(a \o b) = Len(a) + Len(b)
  <2>1. a \in Seq(AnyToken) /\ b \in Seq(AnyToken)
    BY <1>8, <1>9
  <2>2. QED
    BY <2>1, Concatenation
<1>11. QED
  BY <1>7, <1>8, <1>9, <1>10 DEF r

(* The positions that are labelled are those of the turns, past the headers. *)
LEMMA TurnsAreLabelled ==
    ASSUME NEW ms \in Seq(AnyMessage), NEW template, Tokenizable(ms, template)
    PROVE  /\ Rendered(ms, template) \in Seq(AnyToken)
           /\ \A p \in DOMAIN Rendered(ms, template) :
                p \in Labels(ms, template) <=>
                  /\ Rendered(ms, template)[p].role = "assistant"
                  /\ Rendered(ms, template)[p].part # "header"
<1> DEFINE r == RenderedUpTo(ms, template)
           L == Len(ms)
           all == Rendered(ms, template)
           labels == Labels(ms, template)
<1>1. IsRendering(r, ms, template) /\ L \in Nat /\ L \in 0 .. L
  BY RenderedUnfolds
<1>2. all = r[L] /\ all \in Seq(AnyToken)
  BY <1>1 DEF Rendered, IsRendering
<1>3. \A i \in 0 .. L : Len(r[i]) \in Nat
  BY <1>1 DEF IsRendering
<1>4. ASSUME NEW p
      PROVE  p \in labels <=>
               \E i \in 1 .. L : Speaks(ms, i) /\ p \in Len(r[i - 1]) + 2 .. Len(r[i])
  <2>1. \A i \in Assistants(ms) : i \in 1 .. L /\ Speaks(ms, i)
    BY DEF Assistants, Speaks
  <2>2. \A i \in 1 .. L : Speaks(ms, i) => i \in Assistants(ms)
    BY DEF Assistants, Speaks
  <2>3. ASSUME NEW i \in 1 .. L, Speaks(ms, i)
        PROVE  Len(Prompt(ms, i, template)) + 1 .. Len(Through(ms, i, template))
                 = Len(r[i - 1]) + 2 .. Len(r[i])
    <3>1. Len(Prompt(ms, i, template)) = Len(r[i - 1]) + 1
      BY <2>3, PromptLength
    <3>2. Through(ms, i, template) = r[i]
      BY <2>3, TurnsAreWrittenAlike
    <3>3. i - 1 \in 0 .. L
      BY <1>1
    <3>4. Len(r[i - 1]) \in Nat
      BY <1>3, <3>3
    <3>5. Len(Prompt(ms, i, template)) + 1 = Len(r[i - 1]) + 2
      BY <3>1, <3>4
    <3>6. QED
      BY <3>2, <3>5
  <2>4. p \in labels <=>
          \E i \in Assistants(ms) :
             p \in Len(Prompt(ms, i, template)) + 1 .. Len(Through(ms, i, template))
    BY DEF Labels
  <2> HIDE DEF labels, L, r
  <2>5. QED
    BY <2>1, <2>2, <2>3, <2>4
<1> HIDE DEF all, labels
<1>5. ASSUME NEW p \in 1 .. Len(all)
      PROVE  p \in labels <=> all[p].role = "assistant" /\ all[p].part # "header"
  <2>1. PICK i \in 1 .. L : Len(r[i - 1]) < p /\ p <= Len(r[i])
    <3> HIDE DEF r
    <3>1. p \in 1 .. Len(r[Len(ms)])
      BY <1>2
    <3>2. QED
      BY <1>1, <3>1, RenderedParts
  <2>2. i \in 0 .. L /\ i - 1 \in 0 .. L
    BY <1>1
  <2>3. Len(r[i]) \in Nat /\ Len(r[i - 1]) \in Nat /\ p \in Nat
    BY <1>2, <1>3, <2>2
  <2> DEFINE W == WrittenAt(ms, i, template)
             x == p - Len(r[i - 1])
  <2>4. /\ Len(W) \in Nat
        /\ \A q \in 1 .. Len(W) : W[q].role = ms[i].role /\ (W[q].part = "header" <=> q = 1)
    BY WrittenAtTokens
  <2>5. /\ Len(r[i]) = Len(r[i - 1]) + Len(W)
        /\ \A q \in 1 .. Len(W) : r[i][Len(r[i - 1]) + q] = W[q]
    <3> HIDE DEF r
    <3>1. QED
      BY <1>1, RenderedStep
  <2> HIDE DEF W
  <2>6. x \in 1 .. Len(W) /\ Len(r[i - 1]) + x = p
    BY <2>1, <2>3, <2>4, <2>5
  <2>7. all[p] = W[x]
    <3>1. r[i][p] = W[x]
      BY <2>5, <2>6
    <3>2. \A n \in 1 .. Len(r[i]) : r[L][n] = r[i][n]
      <4>1. i \in 0 .. Len(ms) /\ L \in 0 .. Len(ms) /\ i <= L
        BY <1>1, <2>2
      <4> HIDE DEF r, L
      <4>2. QED
        BY <1>1, <4>1, RenderedPrefixes
    <3>3. p \in 1 .. Len(r[i])
      BY <2>1, <2>3
    <3>4. QED
      BY <1>2, <3>1, <3>2, <3>3
  <2>8. all[p].role = ms[i].role /\ (all[p].part = "header" <=> p = Len(r[i - 1]) + 1)
    <3>1. W[x].role = ms[i].role /\ (W[x].part = "header" <=> x = 1)
      BY <2>4, <2>6
    <3>2. x = 1 <=> p = Len(r[i - 1]) + 1
      BY <2>3
    <3>3. QED
      BY <2>7, <3>1, <3>2
  <2>9. ASSUME NEW j \in 1 .. L, p \in Len(r[j - 1]) + 2 .. Len(r[j]) PROVE j = i
    <3>1. j \in 0 .. L /\ j - 1 \in 0 .. L
      BY <1>1
    <3>2. Len(r[j]) \in Nat /\ Len(r[j - 1]) \in Nat
      BY <1>3, <3>1
    <3>3. CASE j < i
      <4>1. j <= i - 1
        BY <3>3
      <4>2. Len(r[j]) <= Len(r[i - 1])
        <5>1. j \in 0 .. Len(ms) /\ i - 1 \in 0 .. Len(ms)
          BY <2>2, <3>1
        <5> HIDE DEF r
        <5>2. QED
          BY <1>1, <4>1, <5>1, RenderedPrefixes
      <4>3. QED
        BY <2>1, <2>3, <2>9, <3>2, <4>2
    <3>4. CASE i < j
      <4>1. i <= j - 1
        BY <3>4
      <4>2. Len(r[i]) <= Len(r[j - 1])
        <5>1. i \in 0 .. Len(ms) /\ j - 1 \in 0 .. Len(ms)
          BY <2>2, <3>1
        <5> HIDE DEF r
        <5>2. QED
          BY <1>1, <4>1, <5>1, RenderedPrefixes
      <4>3. QED
        BY <2>1, <2>3, <2>9, <3>2, <4>2
    <3>5. QED
      BY <3>3, <3>4
  <2>10. p \in labels <=> Speaks(ms, i) /\ p \in Len(r[i - 1]) + 2 .. Len(r[i])
    <3> HIDE DEF r
    <3>1. QED
      BY <1>4, <2>9
  <2>11. p \in Len(r[i - 1]) + 2 .. Len(r[i]) <=> p # Len(r[i - 1]) + 1
    BY <2>1, <2>3
  <2>12. QED
    BY <2>8, <2>10, <2>11 DEF Speaks
<1>6. DOMAIN all = 1 .. Len(all)
  BY <1>2
<1>7. QED
  BY <1>2, <1>5, <1>6 DEF all, labels

Start(size) == <<Message("system", 0, SystemSize), Message("user", 0, size)>>

(* A conversation starts with the task alone.                                *)
LEMMA Starts ==
    ASSUME NEW size \in Nat
    PROVE  Start(size) \in Conversations /\ Shape(Start(size), 0, size)
<1> DEFINE a == Message("system", 0, SystemSize)
           b == Message("user", 0, size)
           ms == Start(size)
<1>1. a \in AnyMessage /\ b \in AnyMessage /\ b.role = "user" /\ b.size = size
  BY ConstantsAreSizes DEF AnyMessage, Message, Roles
<1>2. ms = <<a, b>>
  BY DEF Start
<1> HIDE DEF a, b
<1>3. ms \in Seq(AnyMessage) /\ Len(ms) = 2 /\ ms[1] = a /\ ms[2] = b
  BY <1>1, <1>2
<1> HIDE DEF ms
<1>4. Begun(ms)
  BY <1>3 DEF Begun, a
<1>5. Turns(ms, 0, 0)
  BY <1>3 DEF Turns
<1>6. Shape(ms, 0, size)
  BY <1>1, <1>3, <1>4, <1>5 DEF Shape, Kept
<1>7. Len(ms) = 2 * 0 + 2
  BY <1>3
<1>8. QED
  BY <1>3, <1>4, <1>6, <1>7 DEF Conversations, ms

Intact(ms, evs) ==
    Len(evs) >= 1 => /\ ms[Len(ms)].size = evs[Len(evs)].observation
                     /\ ms[Len(ms) - 1].size = evs[Len(evs)].reply

(* A context that shows the task and the newest turn.                        *)
Seen(context, k, evs, size) ==
    /\ Fits(context)
    /\ context[1] = Message("system", 0, SystemSize)
    /\ context[2].role = "user" /\ Kept(context[2], size)
    /\ k > 1 =>
         /\ Last(context).role = "tool" /\ Last(context).turn = k - 1
         /\ Kept(Last(context), evs[k - 1].observation)
         /\ Kept(context[Len(context) - 1], evs[k - 1].reply)
    /\ \A i \in 5 .. Len(context) : context[i].turn = context[i - 2].turn + 1

(* The context of a call shows the task and the newest turn.                 *)
LEMMA CompactShows ==
    ASSUME NEW ms, NEW size \in Nat, NEW evs \in Seq(AnyEvent),
           Shape(ms, Len(evs), size), Intact(ms, evs)
    PROVE  Seen(Compact(ms), Len(evs) + 1, evs, size)
<1> DEFINE c == Compact(ms)
           n == Len(evs)
<1>1. n \in Nat
  OBVIOUS
<1>2. /\ Shape(c, n, size) /\ Fits(c)
      /\ Len(c) \in Nat /\ Len(ms) \in Nat
      /\ n >= 1 => /\ Len(c) >= 4 /\ Len(ms) >= 4
                   /\ ShorterMessage(c[Len(c)], ms[Len(ms)])
                   /\ ShorterMessage(c[Len(c) - 1], ms[Len(ms) - 1])
  BY <1>1, CompactKeepsShape
<1> HIDE DEF c, n
<1>3. PICK t \in 0 .. n : (n >= 1 => t >= 1) /\ Turns(c, t, n)
  BY <1>2 DEF Shape
<1>4. Len(c) = 2 * t + 2 /\ \A j \in 1 .. t : IsExchange(c[2 * j + 1], c[2 * j + 2], n - t + j)
  BY <1>3 DEF Turns
<1>5. c[1] = Message("system", 0, SystemSize) /\ c[2].role = "user" /\ Kept(c[2], size)
  BY <1>2 DEF Shape, Begun
<1>6. ASSUME n + 1 > 1
      PROVE  /\ Last(c).role = "tool" /\ Last(c).turn = (n + 1) - 1
             /\ Kept(Last(c), evs[(n + 1) - 1].observation)
             /\ Kept(c[Len(c) - 1], evs[(n + 1) - 1].reply)
  <2>1. n >= 1 /\ (n + 1) - 1 = n /\ t \in 1 .. t /\ n - t + t = n
    BY <1>1, <1>3, <1>6
  <2>2. IsExchange(c[2 * t + 1], c[2 * t + 2], n - t + t)
    BY <1>4, <2>1
  <2>3. Last(c) = c[Len(c)]
    BY DEF Last
  <2>4. Last(c).role = "tool" /\ Last(c).turn = n
    BY <1>4, <2>1, <2>2, <2>3 DEF IsExchange
  <2>5. /\ ShorterMessage(Last(c), ms[Len(ms)])
        /\ ShorterMessage(c[Len(c) - 1], ms[Len(ms) - 1])
    BY <1>2, <2>1, <2>3
  <2>6. ms[Len(ms)].size = evs[n].observation /\ ms[Len(ms) - 1].size = evs[n].reply
    BY <2>1 DEF Intact, n
  <2>7. Kept(Last(c), evs[n].observation) /\ Kept(c[Len(c) - 1], evs[n].reply)
    BY <2>5, <2>6 DEF ShorterMessage, Kept
  <2>8. QED
    BY <2>1, <2>4, <2>7
<1>7. ASSUME NEW i \in 5 .. Len(c) PROVE c[i].turn = c[i - 2].turn + 1
  <2>1. PICK j \in 2 .. t : i = 2 * j + 1 \/ i = 2 * j + 2
    <3> DEFINE j == (i - 1) \div 2
    <3>1. j \in 2 .. t /\ (i = 2 * j + 1 \/ i = 2 * j + 2)
      BY <1>1, <1>3, <1>4
    <3>2. QED
      BY <3>1
  <2>2. j \in 1 .. t /\ j - 1 \in 1 .. t
    BY <2>1
  <2>3. /\ IsExchange(c[2 * j + 1], c[2 * j + 2], n - t + j)
        /\ IsExchange(c[2 * (j - 1) + 1], c[2 * (j - 1) + 2], n - t + (j - 1))
    BY <1>4, <2>2
  <2>4. (n - t + (j - 1)) + 1 = n - t + j
    BY <1>1, <1>3
  <2>5. CASE i = 2 * j + 1
    <3>1. i - 2 = 2 * (j - 1) + 1
      BY <2>5
    <3>2. QED
      BY <2>3, <2>4, <2>5, <3>1 DEF IsExchange
  <2>6. CASE i = 2 * j + 2
    <3>1. i - 2 = 2 * (j - 1) + 2
      BY <2>6
    <3>2. QED
      BY <2>3, <2>4, <2>6, <3>1 DEF IsExchange
  <2>7. QED
    BY <2>1, <2>5, <2>6
<1>8. QED
  BY <1>2, <1>5, <1>6, <1>7 DEF Seen, c, n

(* One more exchange after the compaction.                                   *)
LEMMA GoesOn ==
    ASSUME NEW ms, NEW size \in Nat, NEW evs \in Seq(AnyEvent), NEW e \in AnyEvent,
           Shape(ms, Len(evs), size)
    PROVE  LET next == Compact(ms) \o Exchange(Len(evs) + 1, e)
           IN  Shape(next, Len(Append(evs, e)), size) /\ Intact(next, Append(evs, e))
<1> DEFINE c == Compact(ms)
           n == Len(evs)
           next == c \o Exchange(n + 1, e)
           more == Append(evs, e)
<1>1. n \in Nat /\ more \in Seq(AnyEvent) /\ Len(more) = n + 1 /\ more[n + 1] = e
  OBVIOUS
<1>2. Shape(c, n, size)
  BY <1>1, CompactKeepsShape
<1>3. c \in Seq(AnyMessage)
  BY <1>2 DEF Shape, Begun
<1> HIDE DEF c, n, more
<1>4. Shape(next, n + 1, size)
  BY <1>1, <1>2, ExchangeKeepsShape
<1>5. /\ Len(next) = Len(c) + 2 /\ Len(c) \in Nat
      /\ next[Len(c) + 1] = Message("assistant", n + 1, e.reply)
      /\ next[Len(c) + 2] = Message("tool", n + 1, e.observation)
  <2>1. n + 1 \in Nat
    BY <1>1
  <2>2. QED
    BY <1>3, <2>1, Extended
<1> HIDE DEF next
<1>6. next[Len(next)].size = e.observation /\ next[Len(next) - 1].size = e.reply
  <2>1. Len(next) - 1 = Len(c) + 1
    BY <1>5
  <2>2. QED
    BY <1>5, <2>1 DEF Message
<1>7. Intact(next, more)
  BY <1>1, <1>6 DEF Intact
<1>8. QED
  BY <1>1, <1>4, <1>7 DEF c, n, more, next

-----------------------------------------------------------------------------
(* What the runner keeps is the replay of what it recorded, newest turn in full *)
UpToDate ==
    /\ messages = ReplayFrom(Start(issue), events)
    /\ Shape(messages, Len(events), issue) /\ Intact(messages, events)

(* but for an overlong reply, recorded only.                                 *)
Overlong ==
    /\ talking = "ended" /\ Len(events) >= 1 /\ Malformed(events[Len(events)])
    /\ Shape(messages, Len(events) - 1, issue)

EverySeen ==
    \A k \in 1 .. Len(saw) :
      /\ Seen(saw[k], k, events, issue)
      /\ saw[k] = Compact(ReplayFrom(Start(issue), SubSeq(events, 1, k - 1)))

ConversationInv ==
    /\ issue \in Nat /\ events \in Seq(AnyEvent) /\ saw \in Seq(Seq(AnyMessage))
    /\ Len(saw) = Len(events)
    /\ talking \in {"running", "ended", "record", "trained", "rejected"}
    /\ UpToDate \/ Overlong
    /\ EverySeen
    /\ talking = "record" => record = messages
    /\ OnlyTurnsAreTrained

(* The runner starts so.                                                     *)
LEMMA InitialConversation ==
    InitialMessages = Start(issue)
BY DEF InitialMessages, Start

(* The invariant holds initially,                                            *)
LEMMA ConversationStarts == ConversationInit => ConversationInv
<1> SUFFICES ASSUME ConversationInit PROVE ConversationInv
  OBVIOUS
<1>1. /\ issue \in IssueSizes /\ messages = Start(issue) /\ events = <<>> /\ saw = <<>>
      /\ talking = "running"
  BY InitialConversation DEF ConversationInit
<1>2. issue \in Nat
  BY <1>1, ConstantsAreSizes
<1>3. events \in Seq(AnyEvent) /\ saw \in Seq(Seq(AnyMessage)) /\ Len(saw) = 0 /\ Len(events) = 0
  BY <1>1
<1>4. Start(issue) \in Conversations /\ Shape(Start(issue), 0, issue)
  BY <1>2, Starts
<1>5. UpToDate
  <2>1. ReplayFrom(Start(issue), <<>>) = Start(issue)
    BY <1>4, ReplayStarts
  <2>2. messages = ReplayFrom(Start(issue), events)
    BY <1>1, <2>1
  <2>3. Shape(messages, Len(events), issue)
    BY <1>1, <1>3, <1>4
  <2>4. Intact(messages, events)
    BY <1>3 DEF Intact
  <2>5. QED
    BY <2>2, <2>3, <2>4 DEF UpToDate
<1>6. EverySeen
  BY <1>3 DEF EverySeen
<1>7. OnlyTurnsAreTrained
  BY <1>1 DEF OnlyTurnsAreTrained
<1>8. QED
  BY <1>1, <1>2, <1>3, <1>5, <1>6, <1>7 DEF ConversationInv

(* What the policy saw before stays as it is when an event is recorded.      *)
LEMMA SeenBefore ==
    ASSUME NEW evs \in Seq(AnyEvent), NEW e \in AnyEvent, NEW k \in 1 .. Len(evs),
           NEW size, NEW context
    PROVE  /\ Seen(context, k, evs, size) => Seen(context, k, Append(evs, e), size)
           /\ SubSeq(Append(evs, e), 1, k - 1) = SubSeq(evs, 1, k - 1)
<1>1. ASSUME k > 1 PROVE Append(evs, e)[k - 1] = evs[k - 1]
  BY <1>1
<1>2. Seen(context, k, evs, size) => Seen(context, k, Append(evs, e), size)
  BY <1>1 DEF Seen
<1> DEFINE a == SubSeq(Append(evs, e), 1, k - 1)
           b == SubSeq(evs, 1, k - 1)
<1>3. a = b
  <2>1. \A i \in 1 .. k - 1 : Append(evs, e)[i] = evs[i]
    OBVIOUS
  <2>2. a = [i \in 1 .. k - 1 |-> Append(evs, e)[i]] /\ b = [i \in 1 .. k - 1 |-> evs[i]]
    OBVIOUS
  <2>3. QED
    BY <2>1, <2>2
<1>4. QED
  BY <1>2, <1>3

(* A turn is recorded with the context in which it was asked for.            *)
LEMMA TurnIsSeen ==
    ASSUME ConversationInv, talking = "running", NEW e \in AnyEvent,
           saw' = Append(saw, Compact(messages)), events' = Append(events, e), issue' = issue
    PROVE  /\ events' \in Seq(AnyEvent) /\ saw' \in Seq(Seq(AnyMessage))
           /\ Len(saw') = Len(events') /\ EverySeen'
           /\ Shape(Compact(messages), Len(events), issue) /\ Len(events') = Len(events) + 1
           /\ events'[Len(events')] = e
<1>1. /\ issue \in Nat /\ events \in Seq(AnyEvent) /\ saw \in Seq(Seq(AnyMessage))
      /\ Len(saw) = Len(events) /\ UpToDate /\ EverySeen
  BY DEF ConversationInv, Overlong
<1>2. /\ messages = ReplayFrom(Start(issue), events)
      /\ Shape(messages, Len(events), issue) /\ Intact(messages, events)
  BY <1>1 DEF UpToDate
<1> DEFINE context == Compact(messages)
           n == Len(events)
<1>3. n \in Nat
  BY <1>1
<1>4. Shape(context, n, issue)
  BY <1>1, <1>2, <1>3, CompactKeepsShape
<1>5. Seen(context, n + 1, events, issue)
  BY <1>1, <1>2, CompactShows
<1>6. context \in Seq(AnyMessage)
  BY <1>4 DEF Shape, Begun
<1> HIDE DEF context
<1>7. /\ events' \in Seq(AnyEvent) /\ Len(events') = n + 1 /\ events'[n + 1] = e
      /\ SubSeq(events', 1, n) = events
  <2>1. events' = Append(events, e)
    OBVIOUS
  <2>2. QED
    BY <1>1, <2>1
<1>8. /\ saw' \in Seq(Seq(AnyMessage)) /\ Len(saw') = n + 1 /\ saw'[n + 1] = context
      /\ \A k \in 1 .. n : saw'[k] = saw[k]
  <2>1. saw' = Append(saw, context)
    BY DEF context
  <2>2. QED
    BY <1>1, <1>6, <2>1
<1>9. ASSUME NEW k \in 1 .. Len(saw')
      PROVE  /\ Seen(saw'[k], k, events', issue')
             /\ saw'[k] = Compact(ReplayFrom(Start(issue'), SubSeq(events', 1, k - 1)))
  <2>1. CASE k = n + 1
    <3>1. n + 1 > 1 => events'[(n + 1) - 1] = events[(n + 1) - 1]
      BY <1>1, <1>3
    <3>2. Seen(context, n + 1, events', issue)
      BY <1>5, <3>1 DEF Seen
    <3>3. SubSeq(events', 1, k - 1) = events
      BY <1>3, <1>7, <2>1
    <3>4. QED
      BY <1>2, <1>8, <2>1, <3>2, <3>3 DEF context
  <2>2. CASE k # n + 1
    <3>1. k \in 1 .. n
      BY <1>3, <1>8, <2>2
    <3>2. /\ Seen(saw[k], k, events, issue)
          /\ saw[k] = Compact(ReplayFrom(Start(issue), SubSeq(events, 1, k - 1)))
      BY <1>1, <3>1 DEF EverySeen
    <3>3. /\ Seen(saw[k], k, Append(events, e), issue)
          /\ SubSeq(Append(events, e), 1, k - 1) = SubSeq(events, 1, k - 1)
      BY <1>1, <3>1, <3>2, SeenBefore
    <3>4. QED
      BY <1>8, <3>1, <3>2, <3>3
  <2>3. QED
    BY <2>1, <2>2
<1>10. EverySeen'
  BY <1>9 DEF EverySeen
<1>11. QED
  BY <1>4, <1>7, <1>8, <1>10 DEF context

(* What is recorded is an event.                                             *)
LEMMA EventsOfTurns ==
    ASSUME NEW reply \in ReplySizes
    PROVE  /\ Event("malformed", reply, ParserErrorSize) \in AnyEvent
           /\ \A size \in ObservationSizes : Event("action", reply, size) \in AnyEvent
BY ConstantsAreSizes DEF Event, AnyEvent

(* a turn keeps it,                                                          *)
LEMMA TurnKeepsInv ==
    ASSUME ConversationInv, Turn
    PROVE  ConversationInv'
<1> DEFINE n == Len(events)
           context == Compact(messages)
<1>1. /\ talking = "running" /\ saw' = Append(saw, context)
      /\ issue' = issue /\ record' = record /\ labelled' = labelled
  BY DEF Turn
<1>2. /\ issue \in Nat /\ events \in Seq(AnyEvent) /\ UpToDate
  BY <1>1 DEF ConversationInv, Overlong
<1>3. PICK e \in AnyEvent :
        /\ events' = Append(events, e)
        /\ \/ messages' = context \o Exchange(n + 1, e) /\ talking' \in {"running", "ended"}
           \/ e.kind = "malformed" /\ messages' = context /\ talking' = "ended"
  <2>1. PICK reply \in ReplySizes :
          \/ \E size \in ObservationSizes :
               LET e == Event("action", reply, size) IN
               /\ events' = Append(events, e) /\ messages' = context \o Exchange(n + 1, e)
               /\ talking' \in {"running", "ended"}
          \/ LET e == Event("malformed", reply, ParserErrorSize) IN
               /\ events' = Append(events, e) /\ messages' = context \o Exchange(n + 1, e)
               /\ talking' \in {"running", "ended"}
          \/ /\ events' = Append(events, Event("malformed", reply, ParserErrorSize))
             /\ messages' = context /\ talking' = "ended"
    BY DEF Turn
  <2>2. Event("malformed", reply, ParserErrorSize).kind = "malformed"
    BY DEF Event
  <2> HIDE DEF context, n
  <2>3. QED
    BY <2>1, <2>2, EventsOfTurns
<1>4. /\ events' \in Seq(AnyEvent) /\ saw' \in Seq(Seq(AnyMessage))
      /\ Len(saw') = Len(events') /\ EverySeen'
      /\ Shape(context, n, issue) /\ Len(events') = n + 1 /\ events'[Len(events')] = e
  BY <1>1, <1>3, TurnIsSeen
<1>5. n \in Nat
  BY <1>2
<1>6. UpToDate' \/ Overlong'
  <2>1. CASE messages' = context \o Exchange(n + 1, e)
    <3>1. /\ messages = ReplayFrom(Start(issue), events) /\ Shape(messages, n, issue)
      BY <1>2 DEF UpToDate
    <3>2. Start(issue) \in Conversations
      BY <1>2, Starts
    <3>3. ReplayFrom(Start(issue), Append(events, e)) = messages'
      BY <1>2, <2>1, <3>1, <3>2, ReplayGoesOn
    <3>4. Shape(messages', Len(Append(events, e)), issue) /\ Intact(messages', Append(events, e))
      BY <1>2, <2>1, <3>1, GoesOn
    <3>5. UpToDate'
      BY <1>1, <1>3, <3>3, <3>4 DEF UpToDate
    <3>6. QED
      BY <3>5
  <2>2. CASE e.kind = "malformed" /\ messages' = context /\ talking' = "ended"
    <3>1. Len(events') >= 1 /\ Len(events') - 1 = n
      BY <1>4, <1>5
    <3>2. Malformed(events'[Len(events')])
      BY <1>4, <2>2 DEF Malformed
    <3>3. Shape(messages', Len(events') - 1, issue')
      BY <1>1, <1>4, <2>2, <3>1
    <3>4. QED
      BY <2>2, <3>1, <3>2, <3>3 DEF Overlong
  <2>3. QED
    BY <1>3, <2>1, <2>2
<1>7. talking' \in {"running", "ended"}
  BY <1>3
<1>8. OnlyTurnsAreTrained'
  BY <1>7 DEF OnlyTurnsAreTrained
<1>9. QED
  BY <1>1, <1>2, <1>4, <1>6, <1>7, <1>8 DEF ConversationInv

(* and so does every other step;                                             *)
LEMMA ConversationSteps ==
    ConversationInv /\ [ConversationNext]_conversationVars => ConversationInv'
<1> SUFFICES ASSUME ConversationInv, [ConversationNext]_conversationVars
             PROVE  ConversationInv'
  OBVIOUS
<1>1. /\ issue \in Nat /\ events \in Seq(AnyEvent) /\ saw \in Seq(Seq(AnyMessage))
      /\ Len(saw) = Len(events)
      /\ talking \in {"running", "ended", "record", "trained", "rejected"}
      /\ UpToDate \/ Overlong
      /\ EverySeen
      /\ talking = "record" => record = messages
      /\ OnlyTurnsAreTrained
  BY DEF ConversationInv
<1>2. CASE Turn
  BY <1>2, TurnKeepsInv
<1>3. ASSUME talking' = "ended", talking = "running" \/ talking = "ended",
             UNCHANGED <<issue, messages, events, saw>>
      PROVE  ConversationInv'
  <2>1. UpToDate' \/ Overlong'
    BY <1>1, <1>3 DEF UpToDate, Overlong
  <2>2. EverySeen'
    BY <1>1, <1>3 DEF EverySeen
  <2>3. OnlyTurnsAreTrained'
    BY <1>3 DEF OnlyTurnsAreTrained
  <2>4. QED
    BY <1>1, <1>3, <2>1, <2>2, <2>3 DEF ConversationInv
<1>4. CASE End
  BY <1>3, <1>4 DEF End
<1>5. CASE Convert
  <2>1. /\ talking = "ended" /\ \A i \in DOMAIN events : ~Malformed(events[i])
        /\ record' = Replay(events) /\ talking' = "record"
        /\ UNCHANGED <<issue, messages, events, saw>>
    BY <1>5 DEF Convert
  <2>2. UpToDate
    <3>1. SUFFICES ASSUME Overlong PROVE FALSE
      BY <1>1
    <3>2. Len(events) >= 1 /\ Malformed(events[Len(events)]) /\ Len(events) \in DOMAIN events
      BY <1>1, <3>1 DEF Overlong
    <3>3. QED
      BY <2>1, <3>2
  <2>3. UpToDate'
    BY <2>1, <2>2 DEF UpToDate
  <2>4. record' = messages'
    <3>1. Replay(events) = ReplayFrom(Start(issue), events)
      BY InitialConversation DEF Replay
    <3>2. QED
      BY <2>1, <2>2, <3>1 DEF UpToDate
  <2>5. EverySeen'
    BY <1>1, <2>1 DEF EverySeen
  <2>6. OnlyTurnsAreTrained'
    BY <2>1 DEF OnlyTurnsAreTrained
  <2>7. QED
    BY <1>1, <2>1, <2>3, <2>4, <2>5, <2>6 DEF ConversationInv
<1>6. CASE Tokenize
  <2>1. talking = "record" /\ UNCHANGED <<issue, messages, events, saw, record>>
    BY <1>6 DEF Tokenize
  <2>2. PICK template \in Templates :
          IF Tokenizable(record, template)
          THEN talking' = "trained" /\ labelled' = [ids |-> Rendered(record, template),
                                               labels |-> Labels(record, template)]
          ELSE talking' = "rejected" /\ UNCHANGED labelled
    BY <1>6 DEF Tokenize
  <2>3. UpToDate /\ record = messages
    BY <1>1, <2>1 DEF Overlong
  <2>4. UpToDate'
    BY <2>1, <2>3 DEF UpToDate
  <2>5. EverySeen'
    BY <1>1, <2>1 DEF EverySeen
  <2>6. talking' \in {"trained", "rejected"}
    BY <2>2
  <2>7. OnlyTurnsAreTrained'
    <3>1. CASE Tokenizable(record, template)
      <4>1. record \in Seq(AnyMessage)
        BY <2>3 DEF UpToDate, Shape, Begun
      <4>2. labelled'.ids = Rendered(record, template) /\ labelled'.labels = Labels(record, template)
        BY <2>2, <3>1
      <4>3. \A p \in DOMAIN Rendered(record, template) :
              p \in Labels(record, template) <=>
                /\ Rendered(record, template)[p].role = "assistant"
                /\ Rendered(record, template)[p].part # "header"
        BY <3>1, <4>1, TurnsAreLabelled
      <4>4. QED
        BY <4>2, <4>3 DEF OnlyTurnsAreTrained
    <3>2. CASE ~Tokenizable(record, template)
      BY <2>2, <3>2 DEF OnlyTurnsAreTrained
    <3>3. QED
      BY <3>1, <3>2
  <2>8. QED
    BY <1>1, <2>1, <2>4, <2>5, <2>6, <2>7 DEF ConversationInv
<1>7. CASE UNCHANGED conversationVars
  <2>1. UNCHANGED <<issue, messages, events, saw, talking, record, labelled>>
    BY <1>7 DEF conversationVars
  <2>2. UpToDate' \/ Overlong'
    BY <1>1, <2>1 DEF UpToDate, Overlong
  <2>3. EverySeen'
    BY <1>1, <2>1 DEF EverySeen
  <2>4. OnlyTurnsAreTrained'
    BY <1>1, <2>1 DEF OnlyTurnsAreTrained
  <2>5. QED
    BY <1>1, <2>1, <2>2, <2>3, <2>4 DEF ConversationInv
<1>8. QED
  BY <1>2, <1>4, <1>5, <1>6, <1>7 DEF ConversationNext

(* it says what is to be shown.                                              *)
LEMMA ConversationInvSuffices == ConversationInv => ConversationIsKept
<1> SUFFICES ASSUME ConversationInv PROVE ConversationIsKept
  OBVIOUS
<1>1. /\ issue \in Nat /\ events \in Seq(AnyEvent) /\ saw \in Seq(Seq(AnyMessage))
      /\ Len(saw) = Len(events) /\ (UpToDate \/ Overlong) /\ EverySeen /\ OnlyTurnsAreTrained
  BY DEF ConversationInv
<1>2. CompactionNeverFails
  <2>1. PICK n \in Nat : Shape(messages, n, issue)
    <3>1. Len(events) \in Nat /\ (Len(events) >= 1 => Len(events) - 1 \in Nat)
      BY <1>1
    <3>2. QED
      BY <1>1, <3>1 DEF UpToDate, Overlong
  <2>2. QED
    BY <1>1, <2>1, CompactKeepsShape DEF CompactionNeverFails
<1>3. DOMAIN saw = 1 .. Len(saw)
  BY <1>1
<1>4. TaskAndNewestTurnAreSeen
  BY <1>1, <1>3 DEF TaskAndNewestTurnAreSeen, EverySeen, Seen
<1>5. ReplayIsWhatWasSeen
  <2>1. ASSUME NEW k \in DOMAIN saw
        PROVE  Compact(Replay(SubSeq(events, 1, k - 1))) = saw[k]
    BY <1>1, <1>3, InitialConversation DEF EverySeen, Replay
  <2>2. QED
    BY <2>1 DEF ReplayIsWhatWasSeen
<1>6. QED
  BY <1>1, <1>2, <1>4, <1>5 DEF ConversationIsKept

(* Whatever sizes the issue, the replies and the observations have: a        *)
(* conversation always fits, shows the task and the newest turn, is replayed *)
(* as it was seen, and only the policy's own turns are trained on            *)
(* (compact_messages, replay_messages, tokenize_sft_record).                 *)
THEOREM ConversationIsAlwaysKept == ConversationSpec => []ConversationIsKept
<1>1. ConversationInit => ConversationInv
  BY ConversationStarts
<1>2. ConversationInv /\ [ConversationNext]_conversationVars => ConversationInv'
  BY ConversationSteps
<1>3. ConversationInv => ConversationIsKept
  BY ConversationInvSuffices
<1>4. QED
  BY <1>1, <1>2, <1>3, PTL DEF ConversationSpec

(* Of a conversation, what each message says of its turn and its size.       *)
Modest(ms, evs, size) ==
    \A i \in 1 .. Len(ms) :
      /\ ms[i].turn \in 0 .. Len(evs)
      /\ ms[i].role = "user" => ms[i].size <= size
      /\ ms[i].role = "assistant" =>
           ms[i].turn \in 1 .. Len(evs) /\ ms[i].size <= evs[ms[i].turn].reply
      /\ ms[i].role = "tool" =>
           ms[i].turn \in 1 .. Len(evs) /\ ms[i].size <= evs[ms[i].turn].observation

(* Compaction only leaves turns out and shortens messages,                   *)
LEMMA CompactStaysModest ==
    ASSUME NEW ms, NEW k \in Nat, NEW size \in Nat, NEW evs \in Seq(AnyEvent),
           Shape(ms, k, size), Modest(ms, evs, size)
    PROVE  Modest(Compact(ms), evs, size)
<1> DEFINE c == Compact(ms)
<1>1. PICK t \in 0 .. k : (k >= 1 => t >= 1) /\ Turns(ms, t, k)
  BY DEF Shape
<1>2. Begun(ms) /\ ms \in Seq(AnyMessage) /\ Len(ms) = 2 * t + 2 /\ t \in Nat
  <2>1. Begun(ms)
    BY DEF Shape
  <2>2. ms \in Seq(AnyMessage)
    BY <2>1 DEF Begun
  <2>3. Len(ms) = 2 * t + 2
    BY <1>1 DEF Turns
  <2>4. t \in Nat
    OBVIOUS
  <2>5. QED
    BY <2>1, <2>2, <2>3, <2>4
<1>3. PICK n \in 0 .. t : Shortened(WithoutOldest(ms, n), c)
  BY <1>2, Compacting
<1> DEFINE rest == WithoutOldest(ms, n)
<1>4. /\ rest \in Seq(AnyMessage) /\ Len(rest) = 2 * (t - n) + 2
      /\ rest[1] = ms[1] /\ rest[2] = ms[2]
      /\ \A i \in 3 .. Len(rest) : rest[i] = ms[i + 2 * n]
  BY <1>2, OldestLeft
<1> HIDE DEF c, rest
<1>5. ASSUME NEW i \in 1 .. Len(rest) PROVE \E j \in 1 .. Len(ms) : rest[i] = ms[j]
  <2>1. CASE i = 1
    BY <1>2, <1>4, <2>1
  <2>2. CASE i = 2
    BY <1>2, <1>4, <2>2
  <2>3. CASE i \in 3 .. Len(rest)
    <3>1. i + 2 * n \in 1 .. Len(ms)
      BY <1>2, <1>4, <2>3
    <3>2. QED
      BY <1>4, <2>3, <3>1
  <2>4. i = 1 \/ i = 2 \/ i \in 3 .. Len(rest)
    <3>1. Len(rest) \in Nat
      BY <1>4
    <3>2. QED
      BY <3>1
  <2>5. QED
    BY <2>1, <2>2, <2>3, <2>4
<1>6. c \in Seq(AnyMessage) /\ Len(c) = Len(rest) /\ \A i \in 1 .. Len(rest) : ShorterMessage(c[i], rest[i])
  BY <1>3 DEF Shortened, rest
<1>7. ASSUME NEW i \in 1 .. Len(c)
      PROVE  /\ c[i].turn \in 0 .. Len(evs)
             /\ c[i].role = "user" => c[i].size <= size
             /\ c[i].role = "assistant" =>
                  c[i].turn \in 1 .. Len(evs) /\ c[i].size <= evs[c[i].turn].reply
             /\ c[i].role = "tool" =>
                  c[i].turn \in 1 .. Len(evs) /\ c[i].size <= evs[c[i].turn].observation
  <2>1. PICK j \in 1 .. Len(ms) : rest[i] = ms[j]
    BY <1>5, <1>6
  <2>2. c[i].role = ms[j].role /\ c[i].turn = ms[j].turn /\ c[i].size <= ms[j].size
    BY <1>6, <2>1 DEF ShorterMessage
  <2>3. c[i].size \in Nat /\ ms[j].size \in Nat /\ ms[j].turn \in Nat
    BY <1>2, <1>6, MessageFields
  <2>4. \A l \in 1 .. Len(evs) : evs[l].reply \in Nat /\ evs[l].observation \in Nat
    <3>1. \A l \in 1 .. Len(evs) : evs[l] \in AnyEvent
      OBVIOUS
    <3>2. QED
      BY <3>1 DEF AnyEvent
  <2>5. /\ ms[j].turn \in 0 .. Len(evs)
        /\ ms[j].role = "user" => ms[j].size <= size
        /\ ms[j].role = "assistant" =>
             ms[j].turn \in 1 .. Len(evs) /\ ms[j].size <= evs[ms[j].turn].reply
        /\ ms[j].role = "tool" =>
             ms[j].turn \in 1 .. Len(evs) /\ ms[j].size <= evs[ms[j].turn].observation
    BY DEF Modest
  <2>6. QED
    BY SMTT(30), <2>2, <2>3, <2>4, <2>5
<1>8. QED
  BY <1>7 DEF Modest, c

(* and an exchange adds two messages of the sizes that are recorded.         *)
LEMMA ExchangeStaysModest ==
    ASSUME NEW c \in Seq(AnyMessage), NEW size \in Nat, NEW evs \in Seq(AnyEvent), NEW e \in AnyEvent,
           Modest(c, evs, size)
    PROVE  LET more == Append(evs, e) IN
           Modest(c, more, size) /\ Modest(c \o Exchange(Len(evs) + 1, e), more, size)
<1> DEFINE more == Append(evs, e)
           n == Len(evs)
           next == c \o Exchange(n + 1, e)
<1>1. n \in Nat /\ Len(more) = n + 1 /\ more[n + 1] = e /\ \A k \in 1 .. n : more[k] = evs[k]
  OBVIOUS
<1> HIDE DEF more
<1>2. ASSUME NEW i \in 1 .. Len(c)
      PROVE  /\ c[i].turn \in 0 .. Len(more)
             /\ c[i].role = "user" => c[i].size <= size
             /\ c[i].role = "assistant" =>
                  c[i].turn \in 1 .. Len(more) /\ c[i].size <= more[c[i].turn].reply
             /\ c[i].role = "tool" =>
                  c[i].turn \in 1 .. Len(more) /\ c[i].size <= more[c[i].turn].observation
  BY <1>1 DEF Modest
<1>3. Modest(c, more, size)
  BY <1>2 DEF Modest
<1> DEFINE a == Message("assistant", n + 1, e.reply)
           b == Message("tool", n + 1, e.observation)
<1>4. /\ next \in Seq(AnyMessage) /\ Len(next) = Len(c) + 2 /\ Len(c) \in Nat
      /\ \A j \in 1 .. Len(c) : next[j] = c[j]
      /\ next[Len(c) + 1] = a /\ next[Len(c) + 2] = b
  <2> DEFINE m == n + 1
  <2>1. m \in Nat
    BY <1>1
  <2> HIDE DEF m
  <2>2. LET ms == c \o Exchange(m, e) IN
        /\ ms \in Seq(AnyMessage) /\ Len(ms) = Len(c) + 2 /\ Len(c) \in Nat
        /\ \A j \in 1 .. Len(c) : ms[j] = c[j]
        /\ ms[Len(c) + 1] = Message("assistant", m, e.reply)
        /\ ms[Len(c) + 2] = Message("tool", m, e.observation)
    BY <2>1, Extended
  <2>3. QED
    BY <2>2 DEF m
<1>5. /\ a.role = "assistant" /\ a.turn = n + 1 /\ a.size = e.reply
      /\ b.role = "tool" /\ b.turn = n + 1 /\ b.size = e.observation
      /\ e.reply \in Nat /\ e.observation \in Nat
  BY DEF Message, AnyEvent
<1> HIDE DEF next, a, b
<1>6. ASSUME NEW i \in 1 .. Len(next)
      PROVE  /\ next[i].turn \in 0 .. Len(more)
             /\ next[i].role = "user" => next[i].size <= size
             /\ next[i].role = "assistant" =>
                  next[i].turn \in 1 .. Len(more) /\ next[i].size <= more[next[i].turn].reply
             /\ next[i].role = "tool" =>
                  next[i].turn \in 1 .. Len(more) /\ next[i].size <= more[next[i].turn].observation
  <2>1. CASE i \in 1 .. Len(c)
    BY <1>2, <1>4, <2>1
  <2>2. CASE i = Len(c) + 1
    BY <1>1, <1>4, <1>5, <2>2
  <2>3. CASE i = Len(c) + 2
    BY <1>1, <1>4, <1>5, <2>3
  <2>4. QED
    BY <1>4, <2>1, <2>2, <2>3
<1>7. QED
  BY <1>3, <1>6 DEF Modest, next, more

(* What is labelled is among the tokens.                                     *)
LEMMA LabelsAreOfTokens ==
    ASSUME NEW ms \in Seq(AnyMessage), NEW template, Tokenizable(ms, template)
    PROVE  Labels(ms, template) \subseteq DOMAIN Rendered(ms, template)
<1> DEFINE all == Rendered(ms, template)
<1>1. DOMAIN all = 1 .. Len(all) /\ Len(all) \in Nat
  <2>1. all \in Seq(AnyToken)
    BY TurnsAreLabelled
  <2> HIDE DEF all
  <2>2. QED
    BY <2>1
<1>2. ASSUME NEW i \in Assistants(ms), NEW p \in Len(Prompt(ms, i, template)) + 1 .. Len(Through(ms, i, template))
      PROVE  p \in 1 .. Len(all)
  <2>1. i \in 1 .. Len(ms) /\ Speaks(ms, i)
    BY DEF Assistants, Speaks
  <2>2. Len(Prompt(ms, i, template)) = Len(RenderedUpTo(ms, template)[i - 1]) + 1
    BY <2>1, PromptLength
  <2>3. Len(RenderedUpTo(ms, template)[i - 1]) \in Nat
    <3> DEFINE r == RenderedUpTo(ms, template)
    <3>1. IsRendering(r, ms, template)
      BY RenderedUnfolds
    <3> HIDE DEF r
    <3>2. i - 1 \in 0 .. Len(ms)
      BY <2>1
    <3>3. r[i - 1] \in Seq(AnyToken)
      BY <3>1, <3>2 DEF IsRendering
    <3>4. Len(r[i - 1]) \in Nat
      BY <3>3
    <3>5. QED
      BY <3>4 DEF r
  <2>4. Len(Through(ms, i, template)) <= Len(all)
    BY DEF Tokenizable, IsPrefix
  <2> DEFINE a == Len(Prompt(ms, i, template))
             b == Len(Through(ms, i, template))
  <2>5. a \in Nat /\ p \in a + 1 .. b /\ b <= Len(all)
    BY <2>2, <2>3, <2>4
  <2>6. Len(Through(ms, i, template)) \in Nat
    <3>1. Through(ms, i, template) = RenderedUpTo(ms, template)[i]
      BY <2>1, TurnsAreWrittenAlike
    <3> DEFINE r == RenderedUpTo(ms, template)
    <3>2. IsRendering(r, ms, template)
      BY RenderedUnfolds
    <3> HIDE DEF r
    <3>3. i \in 0 .. Len(ms)
      BY <2>1
    <3>4. r[i] \in Seq(AnyToken)
      BY <3>2, <3>3 DEF IsRendering
    <3>5. Len(r[i]) \in Nat
      BY <3>4
    <3>6. QED
      BY <3>1, <3>5 DEF r
  <2>7. b \in Nat
    BY <2>6
  <2> HIDE DEF a, b, all
  <2>8. QED
    BY <1>1, <2>5, <2>7
<1> HIDE DEF all
<1>3. Labels(ms, template) \subseteq 1 .. Len(all)
  BY <1>2 DEF Labels
<1>4. QED
  BY <1>1, <1>3 DEF all

(* The invariant behind the types.                                           *)
ConversationTypeInv ==
    /\ issue \in IssueSizes /\ Len(events) <= MaxSteps
    /\ Modest(messages, events, issue)
    /\ labelled.labels \subseteq DOMAIN labelled.ids

(* It holds at the start,                                                    *)
LEMMA ConversationStartsTyped == ConversationInit => ConversationTypeInv
<1> SUFFICES ASSUME ConversationInit PROVE ConversationTypeInv
  OBVIOUS
<1>1. /\ issue \in IssueSizes /\ messages = Start(issue) /\ events = <<>> /\ labelled = NoTokens
  BY InitialConversation DEF ConversationInit
<1>2. issue \in Nat /\ MaxSteps \in Nat
  BY <1>1, ConstantsAreSizes
<1>3. Modest(Start(issue), <<>>, issue)
  <2>1. /\ Len(Start(issue)) = 2
        /\ Start(issue)[1] = Message("system", 0, SystemSize) /\ Start(issue)[2] = Message("user", 0, issue)
    BY DEF Start
  <2>2. \A i \in 1 .. 2 : /\ Start(issue)[i].turn = 0
                          /\ Start(issue)[i].role \in {"system", "user"}
                          /\ Start(issue)[i].role = "user" => Start(issue)[i].size = issue
    BY <2>1 DEF Message
  <2>3. QED
    BY <1>2, <2>1, <2>2 DEF Modest
<1>4. Len(events) = 0 /\ labelled.labels = {}
  BY <1>1 DEF NoTokens
<1>5. QED
  BY <1>1, <1>2, <1>3, <1>4 DEF ConversationTypeInv

(* and every step keeps it.                                                  *)
LEMMA ConversationStaysTyped ==
    ConversationInv /\ ConversationTypeInv /\ [ConversationNext]_conversationVars => ConversationTypeInv'
<1> SUFFICES ASSUME ConversationInv, ConversationTypeInv, [ConversationNext]_conversationVars
             PROVE  ConversationTypeInv'
  OBVIOUS
<1>1. ASSUME UNCHANGED <<issue, messages, events>>, labelled'.labels \subseteq DOMAIN labelled'.ids
      PROVE  ConversationTypeInv'
  BY <1>1 DEF ConversationTypeInv, Modest
<1>2. CASE Turn
  <2> DEFINE n == Len(events)
             context == Compact(messages)
  <2>1. /\ talking = "running" /\ issue' = issue /\ labelled' = labelled /\ n + 1 <= MaxSteps
    BY <1>2 DEF Turn
  <2>2. /\ issue \in Nat /\ events \in Seq(AnyEvent) /\ Shape(messages, n, issue)
    BY <2>1 DEF ConversationInv, Overlong, UpToDate
  <2>3. PICK e \in AnyEvent :
          /\ events' = Append(events, e)
          /\ messages' = context \o Exchange(n + 1, e) \/ messages' = context
    <3>1. PICK reply \in ReplySizes :
            \/ \E size \in ObservationSizes :
                 LET e == Event("action", reply, size) IN
                 /\ events' = Append(events, e) /\ messages' = context \o Exchange(n + 1, e)
            \/ LET e == Event("malformed", reply, ParserErrorSize) IN
                 /\ events' = Append(events, e) /\ messages' = context \o Exchange(n + 1, e)
            \/ /\ events' = Append(events, Event("malformed", reply, ParserErrorSize))
               /\ messages' = context
      BY <1>2 DEF Turn
    <3> HIDE DEF context, n
    <3>2. QED
      BY <3>1, EventsOfTurns
  <2>4. n \in Nat /\ Len(events') = n + 1
    BY <2>2, <2>3
  <2>5. Modest(context, events, issue)
    BY <2>2, <2>4, CompactStaysModest DEF ConversationTypeInv
  <2>6. context \in Seq(AnyMessage)
    <3>1. Shape(context, n, issue)
      BY <2>2, <2>4, CompactKeepsShape
    <3>2. QED
      BY <3>1 DEF Shape, Begun
  <2> HIDE DEF context
  <2>7. /\ Modest(context, Append(events, e), issue)
        /\ Modest(context \o Exchange(n + 1, e), Append(events, e), issue)
    BY <2>2, <2>5, <2>6, ExchangeStaysModest
  <2>8. Modest(messages', events', issue')
    BY <2>1, <2>3, <2>7
  <2>9. QED
    BY <2>1, <2>4, <2>8 DEF ConversationTypeInv
<1>3. CASE End
  BY <1>1, <1>3 DEF End, ConversationTypeInv
<1>4. CASE Convert
  BY <1>1, <1>4 DEF Convert, ConversationTypeInv
<1>5. CASE Tokenize
  <2>1. talking = "record" /\ UNCHANGED <<issue, messages, events>>
    BY <1>5 DEF Tokenize
  <2>2. record \in Seq(AnyMessage)
    BY <2>1 DEF ConversationInv, Overlong, UpToDate, Shape, Begun
  <2>3. PICK template \in Templates :
          IF Tokenizable(record, template)
          THEN labelled' = [ids |-> Rendered(record, template), labels |-> Labels(record, template)]
          ELSE labelled' = labelled
    BY <1>5 DEF Tokenize
  <2>4. CASE Tokenizable(record, template)
    <3>1. Labels(record, template) \subseteq DOMAIN Rendered(record, template)
      BY <2>2, <2>4, LabelsAreOfTokens
    <3>2. QED
      BY <1>1, <2>1, <2>3, <2>4, <3>1
  <2>5. CASE ~Tokenizable(record, template)
    BY <1>1, <2>1, <2>3, <2>5 DEF ConversationTypeInv
  <2>6. QED
    BY <2>4, <2>5
<1>6. CASE UNCHANGED conversationVars
  BY <1>1, <1>6 DEF conversationVars, ConversationTypeInv
<1>7. QED
  BY <1>2, <1>3, <1>4, <1>5, <1>6 DEF ConversationNext

(* The variables of a conversation keep their types: no message is larger    *)
(* than what it is of, however often it is compacted (compact_messages), and *)
(* a label is of a token (tokenize_sft_record).                              *)
THEOREM ConversationTypeCorrect == ConversationSpec => []ConversationTypeOK
<1>1. ConversationInit => ConversationInv /\ ConversationTypeInv
  BY ConversationStarts, ConversationStartsTyped
<1>2. ConversationInv /\ ConversationTypeInv /\ [ConversationNext]_conversationVars
      => ConversationInv' /\ ConversationTypeInv'
  BY ConversationSteps, ConversationStaysTyped
<1>3. ConversationInv /\ ConversationTypeInv => ConversationTypeOK
  <2> SUFFICES ASSUME ConversationInv, ConversationTypeInv PROVE ConversationTypeOK
    OBVIOUS
  <2>1. messages \in Seq(AnyMessage)
    BY DEF ConversationInv, UpToDate, Overlong, Shape, Begun
  <2>2. ASSUME NEW i \in DOMAIN messages
        PROVE  /\ messages[i].role \in {"system", "user", "assistant", "tool"}
               /\ messages[i].turn \in 0 .. Len(events)
               /\ messages[i].role = "user" => messages[i].size <= issue
               /\ messages[i].role = "assistant" =>
                    messages[i].size <= events[messages[i].turn].reply
               /\ messages[i].role = "tool" =>
                    messages[i].size <= events[messages[i].turn].observation
    <3>1. i \in 1 .. Len(messages)
      BY <2>1
    <3>2. messages[i].role \in Roles
      BY <2>1, <3>1, MessageFields
    <3>3. QED
      BY <3>1, <3>2 DEF ConversationTypeInv, Modest, Roles
  <2>3. /\ issue \in IssueSizes /\ talking \in {"running", "ended", "record", "trained", "rejected"}
        /\ Len(events) <= MaxSteps /\ Len(saw) = Len(events)
        /\ labelled.labels \subseteq DOMAIN labelled.ids
    BY DEF ConversationInv, ConversationTypeInv
  <2>4. QED
    BY <2>2, <2>3 DEF ConversationTypeOK
<1>4. QED
  BY <1>1, <1>2, <1>3, PTL DEF ConversationSpec

-----------------------------------------------------------------------------
(* Sums                                                                      *)

(* Induction over the subsets of a finite set: what holds of a set when it   *)
(* holds of it without any one of its elements, holds of all.                *)
LEMMA SubsetInduction ==
    ASSUME NEW S, IsFiniteSet(S), NEW P,
           \A T \in SUBSET S : (\A x \in T : T \ {x} \in P) => T \in P
    PROVE  SUBSET S \subseteq P
<1> DEFINE Good == {n \in Nat : \A T \in SUBSET S : Cardinality(T) = n => T \in P}
<1>1. 0 \in Good
  <2>1. SUFFICES ASSUME NEW T \in SUBSET S, Cardinality(T) = 0 PROVE T \in P
    OBVIOUS
  <2>2. T = {}
    BY <2>1, FS_Subset, FS_EmptySet
  <2>3. QED
    BY <2>2
<1>2. ASSUME NEW n \in Nat, n \in Good PROVE n + 1 \in Good
  <2>1. SUFFICES ASSUME NEW T \in SUBSET S, Cardinality(T) = n + 1 PROVE T \in P
    OBVIOUS
  <2>2. ASSUME NEW x \in T PROVE T \ {x} \in P
    <3>1. IsFiniteSet(T)
      BY FS_Subset
    <3>2. Cardinality(T \ {x}) = Cardinality(T) - 1
      BY <3>1, FS_RemoveElement
    <3>3. T \ {x} \in SUBSET S /\ Cardinality(T \ {x}) = n
      BY <2>1, <3>2
    <3>4. QED
      BY <1>2, <3>3
  <2>3. QED
    BY <2>2
<1>3. Nat \subseteq Good
  <2> HIDE DEF Good
  <2>1. QED
    BY <1>1, <1>2, Induction
<1>4. SUFFICES ASSUME NEW T \in SUBSET S PROVE T \in P
  OBVIOUS
<1>5. Cardinality(T) \in Nat
  BY FS_Subset, FS_CardinalityType
<1>6. QED
  BY <1>3, <1>5

(* The sums of the subsets of a set, as the fold takes them.                 *)
Some(T) == CHOOSE x \in T : TRUE

SumStep(g, T, f) == IF T = {} THEN 0 ELSE f[Some(T)] + g[T \ {Some(T)}]

AreSums(g, S, f) == g = [T \in SUBSET S |-> SumStep(g, T, f)]

Summable(S, f) == IsFiniteSet(S) /\ \A x \in S : f[x] \in Int

(* A set that is not empty has an element,                                   *)
LEMMA SomeType == ASSUME NEW T, T # {} PROVE Some(T) \in T
BY DEF Some

(* and the equation of its sums has a solution, as it has one on the smaller *)
(* sets;                                                                     *)
LEMMA SumsExist ==
    ASSUME NEW S, NEW f, Summable(S, f)
    PROVE  \E g : AreSums(g, S, f)
<1> DEFINE Upto(g, n) == /\ g \in [SUBSET S -> Int]
                         /\ \A T \in SUBSET S : Cardinality(T) <= n => g[T] = SumStep(g, T, f)
           There == {n \in Nat : \E g : Upto(g, n)}
<1>0. IsFiniteSet(S) /\ \A T \in SUBSET S : IsFiniteSet(T) /\ Cardinality(T) \in Nat
  BY FS_Subset, FS_CardinalityType DEF Summable
<1>1. 0 \in There
  <2> DEFINE z == [T \in SUBSET S |-> 0]
  <2>1. ASSUME NEW T \in SUBSET S, Cardinality(T) <= 0 PROVE z[T] = SumStep(z, T, f)
    <3>1. Cardinality(T) = 0
      BY <1>0, <2>1
    <3>2. T = {}
      BY <1>0, <3>1, FS_EmptySet
    <3>3. QED
      BY <3>2 DEF SumStep
  <2>2. Upto(z, 0)
    BY <2>1
  <2>3. QED
    BY <2>2
<1>2. ASSUME NEW n \in Nat, n \in There PROVE n + 1 \in There
  <2>1. PICK g : Upto(g, n)
    BY <1>2
  <2> DEFINE k == [T \in SUBSET S |-> IF Cardinality(T) = n + 1 THEN SumStep(g, T, f) ELSE g[T]]
  <2>2. ASSUME NEW T \in SUBSET S
        PROVE  /\ SumStep(g, T, f) \in Int
               /\ Cardinality(T) <= n + 1 => SumStep(k, T, f) = SumStep(g, T, f)
    <3>1. CASE T = {}
      BY <3>1 DEF SumStep
    <3>2. CASE T # {}
      <4> DEFINE x == Some(T)
      <4>1. x \in T /\ x \in S
        BY <3>2, SomeType
      <4>2. f[x] \in Int /\ T \ {x} \in SUBSET S
        BY <4>1 DEF Summable
      <4>3. Cardinality(T \ {x}) = Cardinality(T) - 1
        BY <1>0, <4>1, FS_RemoveElement
      <4>4. g[T \ {x}] \in Int
        BY <2>1, <4>2
      <4>5. Cardinality(T) <= n + 1 => k[T \ {x}] = g[T \ {x}]
        BY <1>0, <4>2, <4>3
      <4> HIDE DEF k
      <4>6. QED
        BY <3>2, <4>2, <4>4, <4>5 DEF SumStep
    <3>3. QED
      BY <3>1, <3>2
  <2>3. k \in [SUBSET S -> Int]
    BY <2>1, <2>2
  <2>4. ASSUME NEW T \in SUBSET S, Cardinality(T) <= n + 1 PROVE k[T] = SumStep(k, T, f)
    <3>1. CASE Cardinality(T) = n + 1
      <4>1. k[T] = SumStep(g, T, f)
        BY <3>1
      <4>2. QED
        BY <2>2, <2>4, <4>1
    <3>2. CASE Cardinality(T) # n + 1
      <4>1. Cardinality(T) <= n
        BY <1>0, <2>4, <3>2
      <4>2. k[T] = g[T]
        BY <3>2
      <4>3. QED
        BY <2>1, <2>2, <2>4, <4>1, <4>2
    <3>3. QED
      BY <3>1, <3>2
  <2>5. Upto(k, n + 1)
    <3> HIDE DEF k
    <3>1. QED
      BY <2>3, <2>4
  <2>6. n + 1 \in Nat
    OBVIOUS
  <2>7. QED
    <3> HIDE DEF k, Upto
    <3>1. QED
      BY <2>5, <2>6
<1>3. Cardinality(S) \in There
  <2> HIDE DEF There
  <2>1. QED
    BY <1>0, <1>1, <1>2, Induction
<1>4. PICK g : Upto(g, Cardinality(S))
  BY <1>3
<1>5. \A T \in SUBSET S : Cardinality(T) <= Cardinality(S)
  BY <1>0, FS_Subset
<1>6. \A T \in SUBSET S : g[T] = SumStep(g, T, f)
  BY <1>4, <1>5
<1>7. g = [T \in SUBSET S |-> SumStep(g, T, f)]
  BY <1>4, <1>6
<1>8. AreSums(g, S, f)
  BY <1>7 DEF AreSums
<1>9. QED
  BY <1>8

(* the sums are integers,                                                    *)
LEMMA SumsAreIntegers ==
    ASSUME NEW S, NEW f, Summable(S, f), NEW g, AreSums(g, S, f), NEW T \in SUBSET S
    PROVE  g[T] \in Int
<1> DEFINE P == {U \in SUBSET S : g[U] \in Int}
<1>1. ASSUME NEW U \in SUBSET S, \A x \in U : U \ {x} \in P PROVE U \in P
  <2>1. g[U] = SumStep(g, U, f)
    BY DEF AreSums
  <2>2. CASE U # {}
    <3>1. Some(U) \in U /\ f[Some(U)] \in Int
      BY <2>2, SomeType DEF Summable
    <3>2. g[U \ {Some(U)}] \in Int
      BY <1>1, <3>1
    <3>3. g[U] = f[Some(U)] + g[U \ {Some(U)}]
      BY <2>1, <2>2 DEF SumStep
    <3>4. QED
      BY <3>1, <3>2, <3>3
  <2>3. QED
    BY <2>1, <2>2 DEF SumStep
<1>2. T \in P
  <2> HIDE DEF P
  <2>1. IsFiniteSet(S)
    BY DEF Summable
  <2>2. QED
    BY <1>1, <2>1, SubsetInduction
<1>3. QED
  BY <1>2

(* In whatever order the fold takes the elements, any one may be told apart. *)
LEMMA SumsInAnyOrder ==
    ASSUME NEW S, NEW f, Summable(S, f), NEW g, AreSums(g, S, f), NEW T \in SUBSET S
    PROVE  /\ g[T] \in Int /\ g[{}] = 0
           /\ \A x \in T : g[T] = f[x] + g[T \ {x}]
<1> DEFINE P == {U \in SUBSET S : g[U] \in Int /\ \A x \in U : g[U] = f[x] + g[U \ {x}]}
<1>1. \A U \in SUBSET S : g[U] = SumStep(g, U, f)
  BY DEF AreSums
<1>2. g[{}] = 0
  BY <1>1 DEF SumStep
<1>3. ASSUME NEW U \in SUBSET S, \A x \in U : U \ {x} \in P PROVE U \in P
  <2>1. CASE U = {}
    BY <1>2, <2>1
  <2>2. CASE U # {}
    <3> DEFINE c == Some(U)
    <3>1. c \in U /\ f[c] \in Int /\ U \ {c} \in P
      BY <1>3, <2>2, SomeType DEF Summable
    <3>2. g[U] = f[c] + g[U \ {c}]
      BY <1>1, <2>2 DEF SumStep
    <3> HIDE DEF c
    <3>3. g[U] \in Int
      BY <3>1, <3>2
    <3>4. ASSUME NEW x \in U, x # c PROVE g[U] = f[x] + g[U \ {x}]
      <4>1. U \ {x} \in P /\ c \in U \ {x} /\ x \in U \ {c} /\ f[x] \in Int
        BY <1>3, <3>1, <3>4 DEF Summable
      <4>2. (U \ {x}) \ {c} = (U \ {c}) \ {x}
        OBVIOUS
      <4>3. g[U \ {c}] = f[x] + g[(U \ {c}) \ {x}]
        BY <3>1, <4>1
      <4>4. g[U \ {x}] = f[c] + g[(U \ {c}) \ {x}]
        BY <4>1, <4>2
      <4>5. g[(U \ {c}) \ {x}] \in Int
        BY SumsAreIntegers
      <4>6. QED
        BY <3>1, <3>2, <4>1, <4>3, <4>4, <4>5
    <3>5. QED
      BY <3>2, <3>3, <3>4
  <2>3. QED
    BY <2>1, <2>2
<1>4. T \in P
  <2> HIDE DEF P
  <2>1. IsFiniteSet(S)
    BY DEF Summable
  <2>2. QED
    BY <1>3, <2>1, SubsetInduction
<1>5. QED
  BY <1>2, <1>4

(* The fold takes the sums of the subsets.                                   *)
TheSums(S, f) == CHOOSE g : AreSums(g, S, f)

(* A sum is the last of those the fold takes,                                *)
LEMMA SumIsTaken ==
    ASSUME NEW S, NEW f
    PROVE  SumOver(S, f) = TheSums(S, f)[S]
BY DEF SumOver, SumFunctionOnSet, FoldFunctionOnSet, MapThenFoldSet, TheSums, AreSums, SumStep, Some

(* which are the solution.                                                   *)
LEMMA TheSumsAre ==
    ASSUME NEW S, NEW f, Summable(S, f)
    PROVE  AreSums(TheSums(S, f), S, f)
BY SumsExist DEF TheSums

(* The sums of a set are those of its subsets.                               *)
LEMMA SumsAgree ==
    ASSUME NEW S, NEW f, Summable(S, f), NEW U \in SUBSET S
    PROVE  SumOver(U, f) = TheSums(S, f)[U]
<1> DEFINE g == TheSums(S, f)
           h == TheSums(U, f)
           P == {T \in SUBSET U : g[T] = h[T]}
<1>1. Summable(U, f) /\ IsFiniteSet(U)
  BY FS_Subset DEF Summable
<1>2. AreSums(g, S, f) /\ AreSums(h, U, f)
  BY <1>1, TheSumsAre
<1> HIDE DEF g, h
<1>3. ASSUME NEW T \in SUBSET U, \A x \in T : T \ {x} \in P PROVE T \in P
  <2>1. T \in SUBSET S /\ g[T] = SumStep(g, T, f) /\ h[T] = SumStep(h, T, f)
    BY <1>2 DEF AreSums
  <2>2. CASE T = {}
    BY <2>1, <2>2 DEF SumStep
  <2>3. CASE T # {}
    <3>1. T \ {Some(T)} \in P
      BY <1>3, <2>3, SomeType
    <3>2. QED
      BY <2>1, <2>3, <3>1 DEF SumStep
  <2>4. QED
    BY <2>2, <2>3
<1>4. U \in P
  <2> HIDE DEF P
  <2>1. QED
    BY <1>1, <1>3, SubsetInduction
<1>5. QED
  BY <1>4, SumIsTaken DEF g, h

-----------------------------------------------------------------------------
(* What holds of every sum                                                   *)

(* What is known of a sum: it is an integer,                                 *)
LEMMA SumType ==
    ASSUME NEW S, NEW f, Summable(S, f)
    PROVE  SumOver(S, f) \in Int
BY SumIsTaken, TheSumsAre, SumsAreIntegers

(* of nothing it is zero,                                                    *)
LEMMA SumOfNone ==
    ASSUME NEW f
    PROVE  SumOver({}, f) = 0
<1>1. Summable({}, f)
  BY FS_EmptySet DEF Summable
<1>2. QED
  BY <1>1, SumIsTaken, TheSumsAre, SumsInAnyOrder

(* any of its terms may be taken out first,                                  *)
LEMMA SumTellsApart ==
    ASSUME NEW S, NEW f, Summable(S, f), NEW x \in S
    PROVE  SumOver(S, f) = f[x] + SumOver(S \ {x}, f)
<1>1. SumOver(S, f) = TheSums(S, f)[S] /\ SumOver(S \ {x}, f) = TheSums(S, f)[S \ {x}]
  BY SumIsTaken, SumsAgree
<1>2. AreSums(TheSums(S, f), S, f) /\ S \in SUBSET S
  BY TheSumsAre
<1>3. TheSums(S, f)[S] = f[x] + TheSums(S, f)[S \ {x}]
  BY <1>2, SumsInAnyOrder
<1>4. QED
  BY <1>1, <1>3

(* and part of what can be added up can be.                                  *)
LEMMA SummableSubset ==
    ASSUME NEW S, NEW f, Summable(S, f), NEW T \in SUBSET S
    PROVE  Summable(T, f) /\ IsFiniteSet(T) /\ Cardinality(T) \in Nat /\ SumOver(T, f) \in Int
<1>1. Summable(T, f)
  BY FS_Subset DEF Summable
<1>2. QED
  BY <1>1, SumType, FS_CardinalityType DEF Summable

(* To show something of all sums, it is enough to show it of none, and of    *)
(* one more.                                                                 *)
LEMMA SumInduction ==
    ASSUME NEW S, IsFiniteSet(S), NEW P, {} \in P,
           \A T \in SUBSET S : \A x \in T : T \ {x} \in P => T \in P
    PROVE  S \in P
<1>1. \A T \in SUBSET S : (\A x \in T : T \ {x} \in P) => T \in P
  <2>1. SUFFICES ASSUME NEW T \in SUBSET S, \A x \in T : T \ {x} \in P PROVE T \in P
    OBVIOUS
  <2>2. CASE T = {}
    BY <2>2
  <2>3. CASE T # {}
    BY <2>1, <2>3
  <2>4. QED
    BY <2>2, <2>3
<1>2. QED
  BY <1>1, SubsetInduction

(* The same terms have the same sum.                                         *)
LEMMA SumsOfAlike ==
    ASSUME NEW S, NEW f, NEW g, Summable(S, f), \A x \in S : g[x] = f[x]
    PROVE  Summable(S, g) /\ SumOver(S, g) = SumOver(S, f)
<1> DEFINE P == {T \in SUBSET S : SumOver(T, g) = SumOver(T, f)}
<1>1. Summable(S, g) /\ IsFiniteSet(S)
  BY DEF Summable
<1>2. {} \in P
  BY SumOfNone
<1>3. ASSUME NEW T \in SUBSET S, NEW x \in T, T \ {x} \in P PROVE T \in P
  <2>1. Summable(T, f) /\ Summable(T, g)
    BY <1>1, SummableSubset
  <2>2. SumOver(T, f) = f[x] + SumOver(T \ {x}, f) /\ SumOver(T, g) = g[x] + SumOver(T \ {x}, g)
    BY <2>1, SumTellsApart
  <2>3. QED
    BY <1>3, <2>2
<1>4. S \in P
  <2> HIDE DEF P
  <2>1. QED
    BY <1>1, <1>2, <1>3, SumInduction
<1>5. QED
  BY <1>1, <1>4

(* The sum of differences is that of the sums,                               *)
LEMMA SumOfDifferences ==
    ASSUME NEW S, NEW f, NEW g, NEW h, Summable(S, f), Summable(S, g),
           \A x \in S : h[x] = f[x] - g[x]
    PROVE  Summable(S, h) /\ SumOver(S, h) = SumOver(S, f) - SumOver(S, g)
<1> DEFINE P == {T \in SUBSET S : SumOver(T, h) = SumOver(T, f) - SumOver(T, g)}
<1>1. Summable(S, h) /\ IsFiniteSet(S)
  BY DEF Summable
<1>2. {} \in P
  BY SumOfNone
<1>3. ASSUME NEW T \in SUBSET S, NEW x \in T, T \ {x} \in P PROVE T \in P
  <2>1. Summable(T, f) /\ Summable(T, g) /\ Summable(T, h)
    BY <1>1, SummableSubset
  <2>2. /\ SumOver(T, f) = f[x] + SumOver(T \ {x}, f) /\ SumOver(T, g) = g[x] + SumOver(T \ {x}, g)
        /\ SumOver(T, h) = h[x] + SumOver(T \ {x}, h)
    BY <2>1, SumTellsApart
  <2>3. /\ SumOver(T \ {x}, f) \in Int /\ SumOver(T \ {x}, g) \in Int
        /\ f[x] \in Int /\ g[x] \in Int
    BY <2>1, SummableSubset DEF Summable
  <2>4. QED
    BY <1>3, <2>2, <2>3
<1>4. S \in P
  <2> HIDE DEF P
  <2>1. QED
    BY <1>1, <1>2, <1>3, SumInduction
<1>5. QED
  BY <1>1, <1>4

(* that of multiples a multiple,                                             *)
LEMMA SumOfMultiples ==
    ASSUME NEW S, NEW f, NEW g, NEW k \in Int, Summable(S, f), \A x \in S : g[x] = k * f[x]
    PROVE  Summable(S, g) /\ SumOver(S, g) = k * SumOver(S, f)
<1> DEFINE P == {T \in SUBSET S : SumOver(T, g) = k * SumOver(T, f)}
<1>1. Summable(S, g) /\ IsFiniteSet(S)
  <2>1. \A x \in S : f[x] \in Int
    BY DEF Summable
  <2>2. \A x \in S : k * f[x] \in Int
    BY <2>1
  <2>3. QED
    BY <2>2 DEF Summable
<1>2. {} \in P
  BY SumOfNone
<1>3. ASSUME NEW T \in SUBSET S, NEW x \in T, T \ {x} \in P PROVE T \in P
  <2>1. Summable(T, f) /\ Summable(T, g)
    BY <1>1, SummableSubset
  <2>2. /\ SumOver(T, f) = f[x] + SumOver(T \ {x}, f) /\ SumOver(T, g) = g[x] + SumOver(T \ {x}, g)
    BY <2>1, SumTellsApart
  <2>3. /\ SumOver(T \ {x}, f) \in Int /\ f[x] \in Int /\ g[x] = k * f[x]
    BY <2>1, SummableSubset DEF Summable
  <2>4. k * (f[x] + SumOver(T \ {x}, f)) = k * f[x] + k * SumOver(T \ {x}, f)
    BY <2>3
  <2>5. QED
    BY <1>3, <2>2, <2>3, <2>4
<1>4. S \in P
  <2> HIDE DEF P
  <2>1. QED
    BY <1>1, <1>2, <1>3, SumInduction
<1>5. QED
  BY <1>1, <1>4

(* that of alike terms as many of them,                                      *)
LEMMA SumOfConstant ==
    ASSUME NEW S, IsFiniteSet(S), NEW f, NEW k \in Int, \A x \in S : f[x] = k
    PROVE  Summable(S, f) /\ SumOver(S, f) = k * Cardinality(S)
<1> DEFINE P == {T \in SUBSET S : SumOver(T, f) = k * Cardinality(T)}
<1>1. Summable(S, f)
  BY DEF Summable
<1>2. {} \in P
  BY SumOfNone, FS_EmptySet
<1>3. ASSUME NEW T \in SUBSET S, NEW x \in T, T \ {x} \in P PROVE T \in P
  <2>1. Summable(T, f) /\ IsFiniteSet(T) /\ Cardinality(T) \in Nat
    BY <1>1, SummableSubset
  <2>2. SumOver(T, f) = f[x] + SumOver(T \ {x}, f) /\ f[x] = k
    BY <2>1, SumTellsApart
  <2>3. Cardinality(T \ {x}) = Cardinality(T) - 1
    BY <2>1, FS_RemoveElement
  <2>4. k + k * (Cardinality(T) - 1) = k * Cardinality(T)
    BY <2>1
  <2>5. QED
    BY <1>3, <2>2, <2>3, <2>4
<1>4. S \in P
  <2> HIDE DEF P
  <2>1. QED
    BY <1>1, <1>2, <1>3, SumInduction
<1>5. QED
  BY <1>1, <1>4

(* that of larger terms larger;                                              *)
LEMMA SumIsMonotonic ==
    ASSUME NEW S, NEW f, NEW g, Summable(S, f), Summable(S, g), \A x \in S : f[x] <= g[x]
    PROVE  SumOver(S, f) <= SumOver(S, g)
<1> DEFINE P == {T \in SUBSET S : SumOver(T, f) <= SumOver(T, g)}
<1>1. IsFiniteSet(S)
  BY DEF Summable
<1>2. {} \in P
  BY SumOfNone
<1>3. ASSUME NEW T \in SUBSET S, NEW x \in T, T \ {x} \in P PROVE T \in P
  <2>1. Summable(T, f) /\ Summable(T, g)
    BY SummableSubset
  <2>2. /\ SumOver(T, f) = f[x] + SumOver(T \ {x}, f) /\ SumOver(T, g) = g[x] + SumOver(T \ {x}, g)
    BY <2>1, SumTellsApart
  <2>3. /\ SumOver(T \ {x}, f) \in Int /\ SumOver(T \ {x}, g) \in Int
        /\ f[x] \in Int /\ g[x] \in Int /\ f[x] <= g[x]
    BY <2>1, SummableSubset DEF Summable
  <2>4. QED
    BY <1>3, <2>2, <2>3
<1>4. S \in P
  <2> HIDE DEF P
  <2>1. QED
    BY <1>1, <1>2, <1>3, SumInduction
<1>5. QED
  BY <1>4

(* two parts add up to the whole,                                            *)
LEMMA SumOfUnion ==
    ASSUME NEW S, NEW T, NEW f, S \cap T = {}, Summable(S, f), Summable(T, f)
    PROVE  Summable(S \cup T, f) /\ SumOver(S \cup T, f) = SumOver(S, f) + SumOver(T, f)
<1> DEFINE P == {U \in SUBSET T : SumOver(S \cup U, f) = SumOver(S, f) + SumOver(U, f)}
<1>1. Summable(S \cup T, f) /\ IsFiniteSet(T)
  BY FS_Union DEF Summable
<1>2. {} \in P
  <2>1. S \cup {} = S /\ SumOver({}, f) = 0 /\ SumOver(S, f) \in Int
    BY SumOfNone, SumType
  <2>2. QED
    BY <2>1
<1>3. ASSUME NEW U \in SUBSET T, NEW x \in U, U \ {x} \in P PROVE U \in P
  <2>1. Summable(U, f) /\ Summable(S \cup U, f)
    <3>1. S \cup U \in SUBSET (S \cup T)
      OBVIOUS
    <3>2. QED
      BY <1>1, <3>1, SummableSubset
  <2>2. SumOver(U, f) = f[x] + SumOver(U \ {x}, f)
    BY <2>1, SumTellsApart
  <2>3. SumOver(S \cup U, f) = f[x] + SumOver((S \cup U) \ {x}, f)
    BY <2>1, SumTellsApart
  <2>4. (S \cup U) \ {x} = S \cup (U \ {x})
    OBVIOUS
  <2>5. SumOver(S, f) \in Int /\ SumOver(U \ {x}, f) \in Int /\ f[x] \in Int
    <3>1. SumOver(S, f) \in Int
      BY SumType
    <3>2. U \ {x} \in SUBSET U
      OBVIOUS
    <3>3. SumOver(U \ {x}, f) \in Int
      BY <2>1, <3>2, SummableSubset
    <3>4. QED
      BY <3>1, <3>3 DEF Summable
  <2>6. SumOver(S \cup (U \ {x}), f) = SumOver(S, f) + SumOver(U \ {x}, f)
    BY <1>3
  <2>7. SumOver(S \cup U, f) = SumOver(S, f) + SumOver(U, f)
    <3>1. SumOver(S \cup U, f) = f[x] + (SumOver(S, f) + SumOver(U \ {x}, f))
      BY <2>3, <2>4, <2>6
    <3>2. QED
      BY <2>2, <2>5, <3>1
  <2>8. QED
    BY <2>7
<1>4. T \in P
  <2> HIDE DEF P
  <2>1. QED
    BY <1>1, <1>2, <1>3, SumInduction
<1>5. QED
  BY <1>1, <1>4

(* so what is left without one is the other,                                 *)
LEMMA SumOfTheRest ==
    ASSUME NEW S, NEW f, Summable(S, f), NEW T \in SUBSET S
    PROVE  SumOver(S \ T, f) = SumOver(S, f) - SumOver(T, f)
<1>1. Summable(T, f) /\ Summable(S \ T, f)
  BY SummableSubset
<1>2. (S \ T) \cup T = S /\ (S \ T) \cap T = {}
  OBVIOUS
<1>3. SumOver(S, f) = SumOver(S \ T, f) + SumOver(T, f)
  BY <1>1, <1>2, SumOfUnion
<1>4. SumOver(S \ T, f) \in Int /\ SumOver(T, f) \in Int
  BY <1>1, SumType
<1>5. QED
  BY <1>3, <1>4

(* and terms that are zero count for nothing.                                *)
LEMMA SumOfTheCounted ==
    ASSUME NEW S, NEW f, Summable(S, f), NEW T \in SUBSET S, \A x \in S \ T : f[x] = 0
    PROVE  SumOver(S, f) = SumOver(T, f)
<1>1. IsFiniteSet(S \ T) /\ Cardinality(S \ T) \in Nat
  BY SummableSubset
<1>2. SumOver(S \ T, f) = 0
  BY <1>1, SumOfConstant
<1>3. SumOver(S \ T, f) = SumOver(S, f) - SumOver(T, f)
  BY SumOfTheRest
<1>4. SumOver(S, f) \in Int /\ SumOver(T, f) \in Int
  BY SumType, SummableSubset
<1>5. QED
  BY <1>2, <1>3, <1>4

(* The sums of the parts, by any division of the terms, add up to the whole. *)
LEMMA SumByParts ==
    ASSUME NEW S, NEW f, NEW K, NEW home, NEW h, Summable(S, f), IsFiniteSet(K),
           \A x \in S : home[x] \in K,
           \A k \in K : h[k] = SumOver({x \in S : home[x] = k}, f)
    PROVE  Summable(K, h) /\ SumOver(K, h) = SumOver(S, f)
<1> DEFINE Of(L) == {x \in S : home[x] \in L}
           P == {L \in SUBSET K : SumOver(L, h) = SumOver(Of(L), f)}
<1>1. Summable(K, h)
  <2>1. ASSUME NEW k \in K PROVE h[k] \in Int
    <3> DEFINE one == {x \in S : home[x] = k}
    <3>1. one \in SUBSET S /\ h[k] = SumOver(one, f)
      OBVIOUS
    <3> HIDE DEF one
    <3>2. SumOver(one, f) \in Int
      BY <3>1, SummableSubset
    <3>3. QED
      BY <3>1, <3>2
  <2>2. QED
    BY <2>1 DEF Summable
<1>2. {} \in P
  <2>1. Of({}) = {}
    OBVIOUS
  <2>2. QED
    BY <2>1, SumOfNone
<1>3. ASSUME NEW L \in SUBSET K, NEW k \in L, L \ {k} \in P PROVE L \in P
  <2> DEFINE one == {x \in S : home[x] = k}
             others == Of(L \ {k})
             all == Of(L)
  <2>1. all = others \cup one /\ others \cap one = {} /\ others \in SUBSET S /\ one \in SUBSET S
    OBVIOUS
  <2>2. SumOver(L, h) = h[k] + SumOver(L \ {k}, h) /\ h[k] = SumOver(one, f)
    BY <1>1, SummableSubset, SumTellsApart
  <2>3. SumOver(L \ {k}, h) = SumOver(others, f)
    BY <1>3
  <2> HIDE DEF one, others, all
  <2>4. Summable(others, f) /\ Summable(one, f)
    BY <2>1, SummableSubset
  <2>5. SumOver(others \cup one, f) = SumOver(others, f) + SumOver(one, f)
    BY <2>1, <2>4, SumOfUnion
  <2>6. SumOver(one, f) \in Int /\ SumOver(others, f) \in Int
    BY <2>4, SumType
  <2>7. SumOver(L, h) = SumOver(all, f)
    BY <2>1, <2>2, <2>3, <2>5, <2>6
  <2>8. QED
    BY <2>7 DEF all
<1>4. K \in P
  <2> HIDE DEF P
  <2>1. QED
    BY <1>2, <1>3, SumInduction
<1>5. Of(K) = S
  OBVIOUS
<1>6. QED
  BY <1>1, <1>4, <1>5

(* A sum of few is what so many of them would be at most, and at least.      *)
LEMMA SumIsBounded ==
    ASSUME NEW S, NEW f, Summable(S, f), NEW low \in Int, NEW high \in Int,
           \A x \in S : low <= f[x] /\ f[x] <= high
    PROVE  /\ low * Cardinality(S) <= SumOver(S, f)
           /\ SumOver(S, f) <= high * Cardinality(S)
<1> DEFINE l == [x \in S |-> low]
           h == [x \in S |-> high]
<1>1. IsFiniteSet(S)
  BY DEF Summable
<1>2. /\ Summable(S, l) /\ SumOver(S, l) = low * Cardinality(S)
      /\ Summable(S, h) /\ SumOver(S, h) = high * Cardinality(S)
  BY <1>1, SumOfConstant
<1>3. \A x \in S : l[x] <= f[x] /\ f[x] <= h[x]
  OBVIOUS
<1> HIDE DEF l, h
<1>4. SumOver(S, l) <= SumOver(S, f) /\ SumOver(S, f) <= SumOver(S, h)
  BY <1>2, <1>3, SumIsMonotonic
<1>5. QED
  BY <1>2, <1>4

Ordered(values) == \A i, j \in 1 .. Len(values) : i <= j => values[i] <= values[j]

(* What holds of no number above one it does not hold of, holds of the first. *)
LEMMA FirstOnes ==
    ASSUME NEW n \in Nat, NEW S \in SUBSET (1 .. n),
           \A j \in S : \A i \in 1 .. j : i \in S
    PROVE  S = 1 .. Cardinality(S) /\ Cardinality(S) \in 0 .. n
<1> DEFINE Out == {i \in 1 .. n + 1 : i \notin S}
<1>1. n + 1 \in Out /\ Out \in SUBSET Nat
  OBVIOUS
<1>2. PICK m \in Out : \A k \in Out : m <= k
  <2> HIDE DEF Out
  <2>1. QED
    BY <1>1, Least
<1>3. m \in 1 .. n + 1 /\ m \notin S /\ m - 1 \in 0 .. n
  BY <1>1
<1>4. S = 1 .. m - 1
  <2>1. ASSUME NEW i \in S PROVE i \in 1 .. m - 1
    <3>1. i \in 1 .. n /\ (m <= i => m \in 1 .. i)
      BY <1>3
    <3>2. QED
      BY <1>3, <3>1
  <2>2. ASSUME NEW i \in 1 .. m - 1 PROVE i \in S
    <3>1. i \in 1 .. n + 1 /\ ~(m <= i)
      BY <1>3
    <3>2. QED
      BY <1>2, <3>1
  <2>3. QED
    BY <2>1, <2>2
<1>5. Cardinality(1 .. m - 1) = m - 1
  BY <1>3, FS_Interval
<1>6. QED
  BY <1>3, <1>4, <1>5

(* As many draws are no larger than a new one as come before its place.      *)
LEMMA RankType ==
    ASSUME NEW values \in Seq(Int), Ordered(values), NEW x \in Int
    PROVE  /\ Rank(values, x) \in 0 .. Len(values) /\ Len(values) \in Nat
           /\ \A i \in 1 .. Len(values) : values[i] <= x <=> i <= Rank(values, x)
<1> DEFINE n == Len(values)
           S == {i \in DOMAIN values : values[i] <= x}
<1>1. n \in Nat /\ DOMAIN values = 1 .. n /\ \A i \in 1 .. n : values[i] \in Int
  OBVIOUS
<1>2. S = {i \in 1 .. n : values[i] <= x}
  BY <1>1
<1>3. S \in SUBSET (1 .. n)
  BY <1>2
<1>4. ASSUME NEW j \in S, NEW i \in 1 .. j PROVE i \in S
  <2>1. i \in 1 .. n /\ j \in 1 .. n /\ i <= j
    BY <1>1, <1>3
  <2>2. values[i] <= values[j] /\ values[j] <= x
    BY <1>2, <2>1 DEF Ordered
  <2>3. values[i] \in Int /\ values[j] \in Int
    BY <1>1, <2>1
  <2>4. values[i] <= x
    BY <2>2, <2>3
  <2>5. QED
    BY <1>2, <2>1, <2>4
<1>5. S = 1 .. Cardinality(S) /\ Cardinality(S) \in 0 .. n
  <2> HIDE DEF S, n
  <2>1. QED
    BY <1>1, <1>3, <1>4, FirstOnes
<1>6. Rank(values, x) = Cardinality(S)
  BY DEF Rank
<1> HIDE DEF S
<1>7. ASSUME NEW i \in 1 .. n PROVE values[i] <= x <=> i <= Rank(values, x)
  <2>1. values[i] <= x <=> i \in S
    BY <1>2 
  <2>2. i \in S <=> i <= Cardinality(S)
    <3>1. i \in S <=> i \in 1 .. Cardinality(S)
      BY <1>5
    <3>2. i \in 1 .. Cardinality(S) <=> i <= Cardinality(S)
      BY <1>1, <1>5
    <3>3. QED
      BY <3>1, <3>2
  <2>3. QED
    BY <1>6, <2>1, <2>2
<1>8. QED
  BY <1>1, <1>5, <1>6, <1>7

(* What is inserted comes to that place, the larger draws move by one,       *)
LEMMA InsertPlaces ==
    ASSUME NEW values \in Seq(Int), Ordered(values), NEW x \in Int
    PROVE  LET k == Rank(values, x)
               new == Insert(values, x)
           IN  /\ new \in Seq(Int) /\ Len(new) = Len(values) + 1
               /\ \A i \in 1 .. k : new[i] = values[i]
               /\ new[k + 1] = x
               /\ \A i \in k + 1 .. Len(values) : new[i + 1] = values[i]
<1> DEFINE k == Rank(values, x)
           n == Len(values)
           new == Insert(values, x)
           left == SubSeq(values, 1, k)
           right == SubSeq(values, k + 1, n)
<1>1. k \in 0 .. n /\ n \in Nat
  BY RankType
<1>2. new = left \o <<x>> \o right
  <2>1. (k + 1) - 1 = k
    BY <1>1
  <2>2. QED
    BY <2>1 DEF Insert, InsertAt
<1> HIDE DEF k
<1>3. left \in Seq(Int) /\ Len(left) = k /\ \A i \in 1 .. k : left[i] = values[i]
  BY <1>1
<1>4. right \in Seq(Int) /\ Len(right) = n - k /\ \A i \in 1 .. n - k : right[i] = values[k + i]
  <2>1. k + 1 \in 1 .. n + 1 /\ n - (k + 1) + 1 = n - k /\ n - k \in Nat
    BY <1>1
  <2> DEFINE a == k + 1
             d == n - k
  <2> HIDE DEF a, d
  <2>2. a \in 1 .. n + 1 /\ n - a + 1 = d /\ d \in Nat /\ a \in Nat
    BY <1>1, <2>1 DEF a, d
  <2>3. SubSeq(values, a, n) \in Seq(Int) /\ Len(SubSeq(values, a, n)) = d
        /\ \A i \in 1 .. d : SubSeq(values, a, n)[i] = values[a + i - 1]
    BY <2>2
  <2>4. \A i \in 1 .. d : a + i - 1 = k + i
    BY <1>1, <2>2 DEF a
  <2>5. QED
    BY <2>3, <2>4 DEF a, d
<1> HIDE DEF left, right, n, new
<1>5. <<x>> \in Seq(Int) /\ Len(<<x>>) = 1 /\ <<x>>[1] = x
  OBVIOUS
<1> DEFINE one == <<x>>
<1> HIDE DEF one
<1>6. one \in Seq(Int) /\ Len(one) = 1 /\ one[1] = x
  BY <1>5 DEF one
<1> DEFINE head == left \o one
<1>7. /\ head \in Seq(Int) /\ Len(head) = Len(left) + Len(one)
      /\ \A i \in 1 .. Len(left) : head[i] = left[i]
      /\ \A i \in 1 .. Len(one) : head[Len(left) + i] = one[i]
  <2>1. left \in Seq(Int) /\ one \in Seq(Int)
    BY <1>3, <1>6
  <2>2. QED
    BY <2>1, Concatenation
<1> HIDE DEF head
<1>8. Len(head) = k + 1 /\ (\A i \in 1 .. k : head[i] = values[i]) /\ head[k + 1] = x
  <2>1. 1 \in 1 .. Len(one)
    BY <1>6
  <2>2. head[Len(left) + 1] = one[1]
    BY <1>7, <2>1
  <2>3. QED
    BY <1>3, <1>6, <1>7, <2>2
<1>9. new = head \o right
  BY <1>2 DEF head, one
<1>10. /\ new \in Seq(Int) /\ Len(new) = Len(head) + Len(right)
       /\ \A i \in 1 .. Len(head) : new[i] = head[i]
       /\ \A i \in 1 .. Len(right) : new[Len(head) + i] = right[i]
  <2>1. head \in Seq(Int) /\ right \in Seq(Int)
    BY <1>4, <1>7
  <2>2. /\ head \o right \in Seq(Int) /\ Len(head \o right) = Len(head) + Len(right)
        /\ \A i \in 1 .. Len(head) : (head \o right)[i] = head[i]
        /\ \A i \in 1 .. Len(right) : (head \o right)[Len(head) + i] = right[i]
    BY <2>1, Concatenation
  <2>3. QED
    BY <1>9, <2>2
<1>11. Len(new) = n + 1
  BY <1>1, <1>4, <1>8, <1>10
<1>12. ASSUME NEW i \in 1 .. k PROVE new[i] = values[i]
  <2>1. i \in 1 .. Len(head)
    BY <1>1, <1>8
  <2>2. QED
    BY <1>8, <1>10, <2>1
<1>13. new[k + 1] = x
  <2>1. k + 1 \in 1 .. Len(head)
    BY <1>1, <1>8
  <2>2. QED
    BY <1>8, <1>10, <2>1
<1>14. ASSUME NEW i \in k + 1 .. n PROVE new[i + 1] = values[i]
  <2> DEFINE j == i - k
  <2>1. j \in 1 .. n - k /\ (k + 1) + j = i + 1 /\ k + j = i
    BY <1>1
  <2>2. j \in 1 .. Len(right)
    BY <1>4, <2>1
  <2>3. new[Len(head) + j] = right[j] /\ right[j] = values[k + j]
    BY <1>4, <1>10, <2>1, <2>2
  <2>4. Len(head) + j = i + 1
    BY <1>8, <2>1
  <2>5. QED
    BY <2>1, <2>3, <2>4
<1>15. QED
  BY <1>10, <1>11, <1>12, <1>13, <1>14 DEF n, k, new

(* and the draws stay sorted.                                                *)
LEMMA InsertOrders ==
    ASSUME NEW values \in Seq(Int), Ordered(values), NEW x \in Int
    PROVE  LET new == Insert(values, x) IN
           /\ new \in Seq(Int) /\ Len(new) = Len(values) + 1 /\ Ordered(new)
           /\ \A i \in 1 .. Len(new) :
                new[i] = x \/ \E j \in 1 .. Len(values) : new[i] = values[j]
<1> DEFINE k == Rank(values, x)
           n == Len(values)
           new == Insert(values, x)
<1>1. /\ k \in 0 .. n /\ n \in Nat
      /\ \A i \in 1 .. n : values[i] \in Int /\ (values[i] <= x <=> i <= k)
  <2>1. k \in 0 .. n /\ n \in Nat /\ \A i \in 1 .. n : (values[i] <= x <=> i <= k)
    BY RankType
  <2>2. \A i \in 1 .. n : values[i] \in Int
    OBVIOUS
  <2>3. QED
    BY <2>1, <2>2
<1>2. /\ new \in Seq(Int) /\ Len(new) = n + 1
      /\ \A i \in 1 .. k : new[i] = values[i]
      /\ new[k + 1] = x
      /\ \A i \in k + 1 .. n : new[i + 1] = values[i]
  BY InsertPlaces
<1> HIDE DEF k, new
<1>3. ASSUME NEW i \in 1 .. n + 1
      PROVE  \/ i \in 1 .. k /\ new[i] = values[i]
             \/ i = k + 1 /\ new[i] = x
             \/ i - 1 \in k + 1 .. n /\ new[i] = values[i - 1]
  <2>1. i \in 1 .. k \/ i = k + 1 \/ (i - 1 \in k + 1 .. n /\ (i - 1) + 1 = i)
    BY <1>1
  <2>2. i - 1 \in k + 1 .. n /\ (i - 1) + 1 = i => new[i] = values[i - 1]
    BY <1>2
  <2>3. QED
    BY <1>2, <2>1, <2>2
<1>4. ASSUME NEW i \in 1 .. n + 1, NEW j \in 1 .. n + 1, i <= j PROVE new[i] <= new[j]
  <2>1. ASSUME NEW a \in 1 .. n, NEW b \in 1 .. n, a <= b PROVE values[a] <= values[b]
    BY <2>1 DEF Ordered
  <2>2. \A a \in 1 .. n : values[a] \in Int /\ (a <= k => values[a] <= x) /\ (a > k => x <= values[a])
    BY <1>1
  <2>3. CASE i \in 1 .. k /\ new[i] = values[i]
    <3>1. i \in 1 .. n
      BY <1>1, <2>3
    <3>2. CASE j \in 1 .. k /\ new[j] = values[j]
      BY <1>1, <1>4, <2>1, <2>3, <3>1, <3>2
    <3>3. CASE j = k + 1 /\ new[j] = x
      BY <1>1, <2>2, <2>3, <3>1, <3>3
    <3>4. CASE j - 1 \in k + 1 .. n /\ new[j] = values[j - 1]
      <4>1. j - 1 \in 1 .. n /\ i <= j - 1
        BY <1>1, <2>3, <3>4
      <4>2. QED
        BY <2>1, <2>3, <3>1, <3>4, <4>1
    <3>5. QED
      BY <1>3, <3>2, <3>3, <3>4
  <2>4. CASE i = k + 1 /\ new[i] = x
    <3>1. CASE j = k + 1 /\ new[j] = x
      BY <2>4, <3>1
    <3>2. CASE j - 1 \in k + 1 .. n /\ new[j] = values[j - 1]
      <4>1. j - 1 \in 1 .. n /\ j - 1 > k
        BY <1>1, <3>2
      <4>2. QED
        BY <2>2, <2>4, <3>2, <4>1
    <3>3. CASE j \in 1 .. k
      BY <1>1, <1>4, <2>4, <3>3
    <3>4. QED
      BY <1>3, <3>1, <3>2, <3>3
  <2>5. CASE i - 1 \in k + 1 .. n /\ new[i] = values[i - 1]
    <3>1. j - 1 \in k + 1 .. n /\ i - 1 <= j - 1
      BY <1>1, <1>4, <2>5
    <3>2. new[j] = values[j - 1]
      <4>1. (j - 1) + 1 = j
        OBVIOUS
      <4>2. QED
        BY <1>2, <3>1, <4>1
    <3>3. i - 1 \in 1 .. n /\ j - 1 \in 1 .. n
      BY <1>1, <2>5, <3>1
    <3>4. QED
      BY <2>1, <2>5, <3>1, <3>2, <3>3
  <2>6. QED
    BY <1>3, <2>3, <2>4, <2>5
<1>5. Ordered(new)
  BY <1>2, <1>4 DEF Ordered
<1>6. ASSUME NEW i \in 1 .. n + 1 PROVE new[i] = x \/ \E j \in 1 .. n : new[i] = values[j]
  <2>1. (i \in 1 .. k => i \in 1 .. n) /\ (i - 1 \in k + 1 .. n => i - 1 \in 1 .. n)
    BY <1>1
  <2>2. QED
    BY <1>3, <2>1
<1>7. QED
  BY <1>2, <1>5, <1>6 DEF new

(* Between two values, nearer to the second the greater the weight.          *)
Between(a, b, w) == a * (1000 - w) + b * w

Interpolable(a, b, w) == a \in Int /\ b \in Int /\ a <= b /\ w \in 0 .. 999

Interpolated(a, b, between) ==
    between \in Int /\ 1000 * a <= between /\ between <= 1000 * b

(* The product of two naturals is one.                                       *)
LEMMA Products ==
    ASSUME NEW a \in Nat, NEW b \in Nat
    PROVE  a * b \in Nat
OBVIOUS

(* An interpolated value is between the two it is of,                        *)
LEMMA Interpolation ==
    ASSUME NEW a, NEW b, NEW w, Interpolable(a, b, w)
    PROVE  Interpolated(a, b, Between(a, b, w))
<1> USE DEF Interpolable
<1>1. Between(a, b, w) = 1000 * a + (b - a) * w
  BY DEF Between
<1>2. Between(a, b, w) = 1000 * b - (b - a) * (1000 - w)
  BY DEF Between
<1>3. b - a \in Nat /\ w \in Nat /\ 1000 - w \in Nat
  OBVIOUS
<1>4. (b - a) * w \in Nat /\ (b - a) * (1000 - w) \in Nat
  BY <1>3, Products
<1>5. QED
  BY <1>1, <1>2, <1>4 DEF Interpolated

(* the nearer to the upper the larger its weight.                            *)
LEMMA InterpolationGrows ==
    ASSUME NEW a, NEW b, NEW v, NEW w, Interpolable(a, b, v), Interpolable(a, b, w), v <= w
    PROVE  Between(a, b, v) <= Between(a, b, w)
<1> DEFINE x == b - a
           y == w - v
<1>1. Between(a, b, w) = Between(a, b, v) + x * y
  BY DEF Between, Interpolable
<1>2. x \in Nat /\ y \in Nat
  BY DEF Interpolable
<1>3. Between(a, b, v) \in Int
  BY Interpolation DEF Interpolated
<1> HIDE DEF x, y
<1>4. x * y \in Nat
  BY <1>2
<1>5. QED
  BY <1>1, <1>3, <1>4

(* The values a percentile is between.                                       *)
LowerPlace(values, p) == ((p * (Len(values) - 1)) \div 1000) + 1
WeightOf(values, p) == (p * (Len(values) - 1)) % 1000
UpperPlace(values, p) ==
    IF WeightOf(values, p) = 0 THEN LowerPlace(values, p) ELSE LowerPlace(values, p) + 1

HasPercentile(values, p) ==
    values \in Seq(Int) /\ Ordered(values) /\ Len(values) > 0 /\ p \in 1 .. 999

Placed(values, p) ==
    /\ LowerPlace(values, p) \in 1 .. Len(values)
    /\ UpperPlace(values, p) \in 1 .. Len(values)
    /\ LowerPlace(values, p) <= UpperPlace(values, p)
    /\ UpperPlace(values, p) <= LowerPlace(values, p) + 1
    /\ WeightOf(values, p) \in 0 .. 999
    /\ Percentile(values, p) = Between(values[LowerPlace(values, p)],
                                values[UpperPlace(values, p)], WeightOf(values, p))

(* A percentile is interpolated between two draws that follow one another,   *)
(* or is one of them;                                                        *)
LEMMA PercentilePlaces ==
    ASSUME NEW values, NEW p, HasPercentile(values, p)
    PROVE  Placed(values, p)
<1> USE DEF HasPercentile
<1> DEFINE l == Len(values) - 1
           position == p * l
           lower == position \div 1000
           weight == position % 1000
<1>1. l \in Nat /\ Len(values) = l + 1 /\ position \in Nat
  OBVIOUS
<1>2. lower \in Nat /\ weight \in 0 .. 999 /\ position = 1000 * lower + weight
  <2> HIDE DEF l, position
  <2>1. QED
    BY <1>1
<1>3. position <= 999 * l
  <2>1. (999 - p) * l >= 0 /\ (999 - p) * l = 999 * l - p * l
    BY <1>1
  <2>2. QED
    BY <1>1, <2>1
<1> HIDE DEF position, lower, weight, l
<1>4. lower <= l /\ (weight # 0 => lower + 1 <= l)
  BY <1>1, <1>2, <1>3
<1>5. LowerPlace(values, p) = lower + 1 /\ WeightOf(values, p) = weight
  BY DEF LowerPlace, WeightOf, lower, weight, position, l
<1>6. UpperPlace(values, p) = IF weight = 0 THEN lower + 1 ELSE lower + 2
  <2>1. (lower + 1) + 1 = lower + 2
    BY <1>2
  <2>2. QED
    BY <1>5, <2>1 DEF UpperPlace
<1>7. Percentile(values, p) = Between(values[LowerPlace(values, p)],
                                      values[UpperPlace(values, p)], WeightOf(values, p))
  BY DEF Percentile, Between, LowerPlace, UpperPlace, WeightOf
<1>8. /\ LowerPlace(values, p) \in 1 .. Len(values) /\ UpperPlace(values, p) \in 1 .. Len(values)
      /\ LowerPlace(values, p) <= UpperPlace(values, p)
      /\ UpperPlace(values, p) <= LowerPlace(values, p) + 1
      /\ WeightOf(values, p) \in 0 .. 999
  BY <1>1, <1>2, <1>4, <1>5, <1>6
<1>9. QED
  BY <1>7, <1>8 DEF Placed

PlacedBetween(values, p) ==
    Percentile(values, p) \in Int
    /\ 1000 * values[LowerPlace(values, p)] <= Percentile(values, p)
    /\ Percentile(values, p) <= 1000 * values[UpperPlace(values, p)]

(* it is between them,                                                       *)
LEMMA PercentileIsBetween ==
    ASSUME NEW values, NEW p, HasPercentile(values, p)
    PROVE  PlacedBetween(values, p)
<1> DEFINE i == LowerPlace(values, p)
           j == UpperPlace(values, p)
           w == WeightOf(values, p)
<1>1. /\ i \in 1 .. Len(values) /\ j \in 1 .. Len(values) /\ i <= j /\ w \in 0 .. 999
      /\ Percentile(values, p) = Between(values[i], values[j], w)
  <2>1. Placed(values, p)
    BY PercentilePlaces
  <2>2. QED
    BY <2>1 DEF Placed
<1> HIDE DEF i, j, w
<1>2. values[i] \in Int /\ values[j] \in Int /\ values[i] <= values[j]
  BY <1>1 DEF HasPercentile, Ordered
<1> DEFINE a == values[i]
           b == values[j]
<1>3. Interpolable(a, b, w)
  BY <1>1, <1>2 DEF Interpolable
<1> HIDE DEF a, b
<1>4. Interpolated(a, b, Between(a, b, w))
  BY <1>3, Interpolation
<1>5. QED
  BY <1>1, <1>4 DEF Interpolated, PlacedBetween, a, b, i, j

(* and the larger its share, the larger it is.                               *)
LEMMA PercentilesAreOrdered ==
    ASSUME NEW values, NEW p, NEW q, HasPercentile(values, p), HasPercentile(values, q), p <= q
    PROVE  Percentile(values, p) <= Percentile(values, q)
<1> DEFINE n == Len(values)
           i == LowerPlace(values, p)
           j == UpperPlace(values, p)
           v == WeightOf(values, p)
           k == LowerPlace(values, q)
           m == UpperPlace(values, q)
           w == WeightOf(values, q)
<1>1. /\ i \in 1 .. n /\ j \in 1 .. n /\ i <= j /\ j <= i + 1 /\ v \in 0 .. 999
      /\ k \in 1 .. n /\ m \in 1 .. n /\ k <= m /\ m <= k + 1 /\ w \in 0 .. 999
      /\ Percentile(values, p) = Between(values[i], values[j], v)
      /\ Percentile(values, q) = Between(values[k], values[m], w)
  <2> HIDE DEF n, i, j, v, k, m, w
  <2>1. Placed(values, p)
    BY PercentilePlaces
  <2>2. Placed(values, q)
    BY PercentilePlaces
  <2>3. QED
    BY <2>1, <2>2 DEF Placed, n, i, j, v, k, m, w
<1>2. i < k \/ (i = k /\ v <= w)
  <2> DEFINE l == Len(values) - 1
             a == p * l
             b == q * l
             d == q - p
  <2>1. l \in Nat /\ a \in Nat /\ b \in Nat /\ d \in Nat
    BY DEF HasPercentile
  <2>2. a <= b
    <3>1. b = a + d * l
      BY <2>1 DEF HasPercentile
    <3> HIDE DEF a, b, d, l
    <3>2. d * l \in Nat
      BY <2>1
    <3>3. QED
      BY <2>1, <3>1, <3>2
  <2> HIDE DEF a, b, d, l
  <2>3. a \div 1000 < b \div 1000 \/ (a \div 1000 = b \div 1000 /\ a % 1000 <= b % 1000)
    BY <2>1, <2>2
  <2>4. a \div 1000 \in Nat /\ b \div 1000 \in Nat
    BY <2>1
  <2>5. i = (a \div 1000) + 1 /\ k = (b \div 1000) + 1 /\ v = a % 1000 /\ w = b % 1000
    BY DEF LowerPlace, WeightOf, a, b, l
  <2>6. QED
    BY <2>3, <2>4, <2>5
<1>3. j = (IF v = 0 THEN i ELSE i + 1) /\ m = (IF w = 0 THEN k ELSE k + 1)
  BY DEF UpperPlace
<1> HIDE DEF i, j, v, k, m, w
<1>4. \A a, b \in 1 .. n : values[a] \in Int /\ (a <= b => values[a] <= values[b])
  BY DEF HasPercentile, Ordered
<1> DEFINE vi == values[i]
           vj == values[j]
           vk == values[k]
           vm == values[m]
<1>5. Interpolable(vi, vj, v) /\ Interpolable(vk, vm, w)
  BY <1>1, <1>4 DEF Interpolable
<1>6. CASE i < k
  <2>1. j <= k
    BY <1>1, <1>6
  <2>2. vj <= vk
    BY <1>1, <1>4, <2>1
  <2> HIDE DEF vi, vj, vk, vm, n
  <2>3. Interpolated(vi, vj, Between(vi, vj, v))
    BY <1>5, Interpolation
  <2>4. Interpolated(vk, vm, Between(vk, vm, w))
    BY <1>5, Interpolation
  <2>5. Between(vi, vj, v) <= Between(vk, vm, w)
    BY <1>5, <2>2, <2>3, <2>4 DEF Interpolable, Interpolated
  <2>6. QED
    BY <1>1, <2>5 DEF vi, vj, vk, vm
<1>7. CASE i = k /\ v <= w
  <2>1. CASE v = 0
    <3>1. Between(vi, vj, v) = 1000 * vi
      <4>1. vi = vj
        BY <1>3, <2>1
      <4>2. QED
        <5> HIDE DEF vi, vj
        <5>1. vi * (1000 - 0) + vi * 0 = 1000 * vi
          BY <1>5 DEF Interpolable
        <5>2. QED
          BY <2>1, <4>1, <5>1 DEF Between
    <3>2. 1000 * vk <= Between(vk, vm, w)
      <4> HIDE DEF vk, vm
      <4>1. Interpolated(vk, vm, Between(vk, vm, w))
        BY <1>5, Interpolation
      <4>2. QED
        BY <4>1 DEF Interpolated
    <3>3. QED
      BY <1>1, <1>7, <3>1, <3>2
  <2>2. CASE v # 0
    <3>1. w # 0
      <4>1. v \in 0 .. 999 /\ w \in 0 .. 999
        BY <1>1
      <4>2. QED
        BY <1>7, <2>2, <4>1
    <3>2. j = m
      BY <1>3, <1>7, <2>2, <3>1
    <3>3. vi = vk /\ vj = vm
      BY <1>7, <3>2
    <3> HIDE DEF vi, vj, vk, vm
    <3>4. Interpolable(vi, vj, v) /\ Interpolable(vi, vj, w) /\ v <= w
      BY <1>5, <1>7, <3>3
    <3>5. Between(vi, vj, v) <= Between(vi, vj, w)
      BY <3>4, InterpolationGrows
    <3>6. QED
      BY <1>1, <3>3, <3>5 DEF vi, vj, vk, vm
  <2>3. QED
    BY <2>1, <2>2
<1>8. QED
  BY <1>2, <1>6, <1>7

-----------------------------------------------------------------------------
(* Ratios                                                                    *)

(* The unit of the ratios.                                                   *)
LEMMA RatioScaleType == RatioScale \in Nat \ {0}
BY RatioAssumption DEF RatioAssumption

(* A multiple is divided exactly,                                            *)
LEMMA Division ==
    ASSUME NEW a, NEW d, a \in Int, d \in Nat \ {0}
    PROVE  (a * d) \div d = a
OBVIOUS

(* and a quotient is within the bounds of a mean.                            *)
LEMMA DivisionBounds ==
    ASSUME NEW a, NEW b, NEW d, a \in Int, b \in Int, d \in Nat \ {0}
    PROVE  /\ a \div d \in Int
           /\ b * d <= a => b <= a \div d
           /\ a <= b * d => a \div d <= b
OBVIOUS

(* The unit is a multiple of whatever a rate or a mean of rates is divided   *)
(* by.                                                                       *)
LEMMA ScaleIsDivisible ==
    ASSUME NEW d, NEW j, d \in 1 .. Cardinality(Tasks), j \in 1 .. Cardinality(Lineages)
    PROVE  \E q \in Nat : RatioScale = q * (d * j)
<1>1. RatioScale % (d * j) = 0 /\ RatioScale \in Nat
  BY RatioAssumption DEF RatioAssumption
<1>2. IsFiniteSet(Tasks) /\ IsFiniteSet(Lineages)
  BY EvaluationAssumption DEF EvaluationAssumption
<1>3. d \in Nat \ {0} /\ j \in Nat \ {0}
  BY <1>2, FS_CardinalityType
<1> DEFINE k == d * j
<1>4. k \in Nat \ {0} /\ RatioScale % k = 0
  <2>1. d * j \in Nat /\ d * j > 0
    BY <1>3
  <2>2. QED
    BY <1>1, <2>1
<1> HIDE DEF k
<1>5. RatioScale = (RatioScale \div k) * k + (RatioScale % k) /\ RatioScale \div k \in Nat
  BY <1>1, <1>4
<1>6. RatioScale = (RatioScale \div k) * k
  BY <1>4, <1>5
<1>7. QED
  BY <1>5, <1>6 DEF k

IsMultiple(x, j) == \E r \in Int : x = r * j

(* A rate over tasks is exact, and so is the share of a lineage in it.       *)
LEMMA RatioIsExact ==
    ASSUME NEW n, NEW d, NEW j, n \in Int,
           d \in 1 .. Cardinality(Tasks), j \in 1 .. Cardinality(Lineages)
    PROVE  /\ Ratio(n, d) \in Int /\ Ratio(n, d) * d = n * RatioScale
           /\ IsMultiple(Ratio(n, d), j)
<1>1. PICK q \in Nat : RatioScale = q * (d * j)
  BY ScaleIsDivisible
<1>2. IsFiniteSet(Tasks) /\ IsFiniteSet(Lineages)
  BY EvaluationAssumption DEF EvaluationAssumption
<1>3. d \in Nat \ {0} /\ j \in Nat \ {0}
  BY <1>2, FS_CardinalityType
<1> DEFINE r == n * q
<1>4. r \in Int /\ n * RatioScale = (r * j) * d /\ r * j \in Int
  <2>1. n * q \in Int /\ n * (q * (d * j)) = ((n * q) * j) * d /\ (n * q) * j \in Int
    BY <1>3
  <2>2. QED
    BY <1>1, <2>1
<1> HIDE DEF r
<1>5. (n * RatioScale) \div d = r * j
  BY <1>3, <1>4, Division
<1>6. Ratio(n, d) = r * j
  BY <1>5 DEF Ratio
<1>7. QED
  BY <1>4, <1>6 DEF IsMultiple

(* So the difference of two rates over the same tasks is the rate of the     *)
(* difference.                                                               *)
LEMMA RatioOfDifference ==
    ASSUME NEW a, NEW b, NEW d, a \in Int, b \in Int, d \in 1 .. Cardinality(Tasks),
           Cardinality(Lineages) > 0
    PROVE  Ratio(a - b, d) = Ratio(a, d) - Ratio(b, d)
<1>1. IsFiniteSet(Tasks) /\ IsFiniteSet(Lineages)
  BY EvaluationAssumption DEF EvaluationAssumption
<1>2. d \in Nat \ {0} /\ 1 \in 1 .. Cardinality(Lineages)
  BY <1>1, FS_CardinalityType
<1> DEFINE ra == Ratio(a, d)
           rb == Ratio(b, d)
<1>3. ra \in Int /\ ra * d = a * RatioScale /\ rb \in Int /\ rb * d = b * RatioScale
  BY <1>2, RatioIsExact
<1> HIDE DEF ra, rb
<1>4. (a - b) * RatioScale = (ra - rb) * d /\ ra - rb \in Int
  <2>1. (a - b) * RatioScale = a * RatioScale - b * RatioScale
    BY RatioScaleType
  <2>2. (ra - rb) * d = ra * d - rb * d
    BY <1>2, <1>3
  <2>3. QED
    BY <1>3, <2>1, <2>2
<1>5. ((a - b) * RatioScale) \div d = ra - rb
  BY <1>2, <1>4, Division
<1>6. QED
  BY <1>5 DEF Ratio, ra, rb

(* A ratio is within the bounds of what it is the mean of.                   *)
LEMMA RatioIsBounded ==
    ASSUME NEW n, NEW d, NEW b, n \in Int, d \in Nat \ {0}, b \in Int
    PROVE  /\ Ratio(n, d) \in Int
           /\ b * d <= n => b * RatioScale <= Ratio(n, d)
           /\ n <= b * d => Ratio(n, d) <= b * RatioScale
<1>1. RatioScale \in Nat \ {0} /\ n * RatioScale \in Int /\ b * RatioScale \in Int
  BY RatioScaleType
<1>2. (b * RatioScale) * d = (b * d) * RatioScale
  BY <1>1
<1>3. b * d <= n => (b * d) * RatioScale <= n * RatioScale
  <2>1. SUFFICES ASSUME b * d <= n PROVE (b * d) * RatioScale <= n * RatioScale
    OBVIOUS
  <2> DEFINE e == b * d
  <2>2. e \in Int /\ e <= n
    BY <2>1
  <2> HIDE DEF e
  <2>3. n - e \in Nat
    BY <2>2
  <2>4. (n - e) * RatioScale \in Nat
    BY <1>1, <2>3, Products
  <2>5. (n - e) * RatioScale = n * RatioScale - e * RatioScale
    BY <1>1, <2>2
  <2>6. e * RatioScale <= n * RatioScale
    BY <1>1, <2>2, <2>4, <2>5
  <2>7. QED
    BY <2>6 DEF e
<1>4. n <= b * d => n * RatioScale <= (b * d) * RatioScale
  <2>1. SUFFICES ASSUME n <= b * d PROVE n * RatioScale <= (b * d) * RatioScale
    OBVIOUS
  <2> DEFINE e == b * d
  <2>2. e \in Int /\ n <= e
    BY <2>1
  <2> HIDE DEF e
  <2>3. e - n \in Nat
    BY <2>2
  <2>4. (e - n) * RatioScale \in Nat
    BY <1>1, <2>3, Products
  <2>5. (e - n) * RatioScale = e * RatioScale - n * RatioScale
    BY <1>1, <2>2
  <2>6. n * RatioScale <= e * RatioScale
    BY <1>1, <2>2, <2>4, <2>5
  <2>7. QED
    BY <2>6 DEF e
<1> DEFINE x == n * RatioScale
           y == b * RatioScale
<1>5. /\ x \in Int /\ y \in Int
      /\ b * d <= n => y * d <= x
      /\ n <= b * d => x <= y * d
  BY <1>1, <1>2, <1>3, <1>4
<1> HIDE DEF x, y
<1>6. /\ x \div d \in Int
      /\ y * d <= x => y <= x \div d
      /\ x <= y * d => x \div d <= y
  BY <1>5, DivisionBounds
<1>7. QED
  BY <1>5, <1>6 DEF Ratio, x, y

(* What is left of a set has some of its elements.                           *)
LEMMA SomeOf ==
    ASSUME NEW S, NEW T, IsFiniteSet(S), T \subseteq S
    PROVE  IsFiniteSet(T) /\ Cardinality(T) \in 0 .. Cardinality(S) /\ (T # {} <=> Cardinality(T) > 0)
<1>1. IsFiniteSet(T) /\ Cardinality(T) <= Cardinality(S)
  BY FS_Subset
<1>2. Cardinality(T) \in Nat /\ Cardinality(S) \in Nat /\ (Cardinality(T) = 0 <=> T = {})
  BY <1>1, FS_CardinalityType, FS_EmptySet
<1>3. QED
  BY <1>1, <1>2

-----------------------------------------------------------------------------
(* The records, and the pairs                                                *)

Records == [Methods -> [Tasks -> Seq(RecordOutcomes)]]

Comparable == ~Duplicated /\ ~Unpaired /\ Pairs # {}

PassedIn(m) == [t \in Tasks |-> Passed(m, t)]
UsableIn(m) == [t \in Tasks |-> Cardinality(Usable(m, t))]

(* A method's usable records of a task, of which some passed.                *)
LEMMA UsableType ==
    ASSUME records \in Records, NEW m \in Methods, NEW t \in Tasks
    PROVE  /\ Cardinality(Usable(m, t)) \in Nat /\ (Usable(m, t) = {} <=> Cardinality(Usable(m, t)) = 0)
           /\ Passed(m, t) \in 0 .. Cardinality(Usable(m, t))
<1> DEFINE of == records[m][t]
           passed == {i \in DOMAIN of : of[i] = "passed"}
<1>1. of \in Seq(RecordOutcomes)
  BY DEF Records
<1>2. DOMAIN of = 1 .. Len(of) /\ Len(of) \in Nat
  <2> HIDE DEF of
  <2>1. QED
    BY <1>1
<1>3. IsFiniteSet(DOMAIN of)
  <2> DEFINE k == Len(of)
             D == DOMAIN of
  <2>1. D = 1 .. k /\ k \in Nat
    BY <1>2
  <2> HIDE DEF k, D
  <2>2. IsFiniteSet(D)
    BY <2>1, FS_Interval
  <2>3. QED
    BY <2>2 DEF D
<1>4. Usable(m, t) \subseteq DOMAIN of /\ passed \subseteq Usable(m, t) /\ Passed(m, t) = Cardinality(passed)
  BY DEF Usable, Passed
<1> HIDE DEF passed
<1>5. IsFiniteSet(Usable(m, t))
  BY <1>3, <1>4, FS_Subset
<1>6. Cardinality(passed) \in 0 .. Cardinality(Usable(m, t))
  BY <1>4, <1>5, SomeOf
<1>7. QED
  BY <1>4, <1>5, <1>6, FS_CardinalityType, FS_EmptySet

(* The two methods that are compared are methods,                            *)
LEMMA ComparedMethods == Compared \subseteq Methods /\ Baseline \in Compared /\ Candidate \in Compared
BY EvaluationAssumption DEF EvaluationAssumption, Compared

(* the tasks and the lineages are finitely many,                             *)
LEMMA TasksAreFinite ==
    /\ IsFiniteSet(Tasks) /\ IsFiniteSet(Lineages) /\ Cardinality(Tasks) \in Nat /\ Cardinality(Lineages) \in Nat
    /\ \A t \in Tasks : LineageOf[t] \in Lineages
BY EvaluationAssumption, FS_CardinalityType DEF EvaluationAssumption

(* What comes of a task: one usable record of each method, or none of either. *)
LEMMA PairedRecords ==
    ASSUME records \in Records, Comparable, NEW m \in Compared, NEW t \in Tasks
    PROVE  /\ t \in Pairs => Cardinality(Usable(m, t)) = 1 /\ Passed(m, t) \in 0 .. 1
           /\ t \notin Pairs => Cardinality(Usable(m, t)) = 0 /\ Passed(m, t) = 0
<1>1. m \in Methods
  BY ComparedMethods
<1>2. /\ Cardinality(Usable(m, t)) \in Nat /\ (Usable(m, t) = {} <=> Cardinality(Usable(m, t)) = 0)
      /\ Passed(m, t) \in 0 .. Cardinality(Usable(m, t))
  BY <1>1, UsableType
<1>3. ~(Cardinality(Usable(m, t)) > 1)
  BY DEF Comparable, Duplicated
<1>4. Usable(Baseline, t) = {} <=> Usable(Candidate, t) = {}
  BY DEF Comparable, Unpaired
<1>5. t \in Pairs <=> Usable(m, t) # {}
  BY <1>4 DEF Pairs, Compared
<1>6. Cardinality(Usable(m, t)) = 0 \/ Cardinality(Usable(m, t)) = 1
  BY <1>2, <1>3
<1>7. QED
  BY <1>2, <1>5, <1>6

(* Some tasks are pairs, of some lineages,                                   *)
LEMMA PairsAndLineages ==
    ASSUME records \in Records, Comparable
    PROVE  /\ Pairs \subseteq Tasks /\ IsFiniteSet(Pairs) /\ Cardinality(Pairs) \in 1 .. Cardinality(Tasks)
           /\ Drawn \subseteq Lineages /\ IsFiniteSet(Drawn)
           /\ Cardinality(Drawn) \in 1 .. Cardinality(Lineages)
<1>1. Pairs \subseteq Tasks /\ Pairs # {}
  BY DEF Pairs, Comparable
<1>2. Drawn \subseteq Lineages /\ Drawn # {}
  BY <1>1, TasksAreFinite DEF Drawn
<1>3. IsFiniteSet(Pairs) /\ Cardinality(Pairs) \in 1 .. Cardinality(Tasks)
  BY <1>1, TasksAreFinite, SomeOf
<1>4. IsFiniteSet(Drawn) /\ Cardinality(Drawn) \in 1 .. Cardinality(Lineages)
  BY <1>2, TasksAreFinite, SomeOf
<1>5. QED
  BY <1>1, <1>2, <1>3, <1>4

(* and what the methods did in them can be added up.                         *)
LEMMA OutcomesAreSummable ==
    ASSUME records \in Records, NEW m \in Methods
    PROVE  Summable(Tasks, PassedIn(m)) /\ Summable(Tasks, UsableIn(m))
<1>1. ASSUME NEW t \in Tasks PROVE Passed(m, t) \in Int /\ Cardinality(Usable(m, t)) \in Int
  BY UsableType
<1>2. QED
  BY <1>1, TasksAreFinite DEF Summable, PassedIn, UsableIn

-----------------------------------------------------------------------------
(* The summaries and the estimates are of the pairs                          *)

(* The usable records of a set of tasks are those of its pairs, one each.    *)
LEMMA ComparedOver ==
    ASSUME records \in Records, Comparable, NEW m \in Compared, NEW S \in SUBSET Tasks
    PROVE  /\ UsableOf(m, S) = Cardinality(S \cap Pairs)
           /\ PassedOf(m, S) = SumOver(S \cap Pairs, PassedIn(m))
<1> DEFINE T == S \cap Pairs
           u == [t \in S |-> Cardinality(Usable(m, t))]
           p == [t \in S |-> Passed(m, t)]
<1>1. m \in Methods
  BY ComparedMethods
<1>2. Summable(Tasks, PassedIn(m)) /\ Summable(Tasks, UsableIn(m))
  BY <1>1, OutcomesAreSummable
<1>3. Summable(S, PassedIn(m)) /\ Summable(S, UsableIn(m)) /\ IsFiniteSet(S)
  BY <1>2, SummableSubset
<1>4. ASSUME NEW t \in S
      PROVE  /\ u[t] = UsableIn(m)[t] /\ p[t] = PassedIn(m)[t]
             /\ t \in T => UsableIn(m)[t] = 1
             /\ t \notin T => UsableIn(m)[t] = 0 /\ PassedIn(m)[t] = 0
  <2>1. t \in Tasks /\ (t \in T <=> t \in Pairs)
    OBVIOUS
  <2>2. /\ t \in Pairs => Cardinality(Usable(m, t)) = 1
        /\ t \notin Pairs => Cardinality(Usable(m, t)) = 0 /\ Passed(m, t) = 0
    BY <2>1, PairedRecords
  <2>3. QED
    BY <2>1, <2>2 DEF UsableIn, PassedIn
<1> HIDE DEF u, p
<1>5. SumOver(S, u) = SumOver(S, UsableIn(m)) /\ SumOver(S, p) = SumOver(S, PassedIn(m))
  BY <1>3, <1>4, SumsOfAlike
<1>6. T \in SUBSET S /\ IsFiniteSet(T) /\ Cardinality(T) \in Nat
  BY <1>3, SomeOf, FS_CardinalityType
<1>7. SumOver(S, UsableIn(m)) = SumOver(T, UsableIn(m))
  <2>1. \A t \in S \ T : UsableIn(m)[t] = 0
    BY <1>4
  <2> HIDE DEF T
  <2>2. QED
    BY <1>3, <1>6, <2>1, SumOfTheCounted
<1>8. SumOver(S, PassedIn(m)) = SumOver(T, PassedIn(m))
  <2>1. \A t \in S \ T : PassedIn(m)[t] = 0
    BY <1>4
  <2> HIDE DEF T
  <2>2. QED
    BY <1>3, <1>6, <2>1, SumOfTheCounted
<1>9. SumOver(T, UsableIn(m)) = 1 * Cardinality(T)
  <2>1. \A t \in T : UsableIn(m)[t] = 1
    BY <1>4
  <2> HIDE DEF T
  <2>2. QED
    BY <1>6, <2>1, SumOfConstant
<1>10. UsableOf(m, S) = SumOver(S, u) /\ PassedOf(m, S) = SumOver(S, p)
  BY DEF UsableOf, PassedOf, u, p
<1>11. 1 * Cardinality(T) = Cardinality(T)
  BY <1>6
<1>12. QED
  BY <1>5, <1>7, <1>8, <1>9, <1>10, <1>11

DifferenceIn == [t \in Tasks |-> Difference(t)]

(* Of a pair, the two methods' outcomes and their difference.                *)
LEMMA DifferenceType ==
    ASSUME records \in Records, Comparable, NEW t \in Pairs
    PROVE  /\ Passed(Baseline, t) \in 0 .. 1 /\ Passed(Candidate, t) \in 0 .. 1
           /\ Difference(t) \in -1 .. 1
<1>1. t \in Tasks
  BY DEF Pairs
<1>2. Passed(Baseline, t) \in 0 .. 1 /\ Passed(Candidate, t) \in 0 .. 1
  BY <1>1, PairedRecords, ComparedMethods
<1>3. QED
  BY <1>2 DEF Difference

(* What the candidate gains on some pairs is the difference of the passed    *)
(* ones.                                                                     *)
LEMMA GainOver ==
    ASSUME records \in Records, Comparable, NEW S \in SUBSET Pairs
    PROVE  /\ Summable(S, DifferenceIn)
           /\ Gain(S) = SumOver(S, DifferenceIn) /\ Gain(S) \in Int
           /\ SumOver(S, PassedIn(Candidate)) \in Int /\ SumOver(S, PassedIn(Baseline)) \in Int
           /\ Gain(S) = SumOver(S, PassedIn(Candidate)) - SumOver(S, PassedIn(Baseline))
<1>1. S \in SUBSET Tasks
  BY PairsAndLineages
<1>2. Summable(Tasks, PassedIn(Candidate)) /\ Summable(Tasks, PassedIn(Baseline))
  BY OutcomesAreSummable, ComparedMethods
<1>3. /\ Summable(S, PassedIn(Candidate)) /\ Summable(S, PassedIn(Baseline))
      /\ SumOver(S, PassedIn(Candidate)) \in Int /\ SumOver(S, PassedIn(Baseline)) \in Int
  BY <1>1, <1>2, SummableSubset
<1>4. \A t \in S : DifferenceIn[t] = PassedIn(Candidate)[t] - PassedIn(Baseline)[t]
  BY <1>1 DEF DifferenceIn, Difference, PassedIn
<1>5. /\ Summable(S, DifferenceIn)
      /\ SumOver(S, DifferenceIn) = SumOver(S, PassedIn(Candidate)) - SumOver(S, PassedIn(Baseline))
  BY <1>3, <1>4, SumOfDifferences
<1> DEFINE d == [t \in S |-> Difference(t)]
<1>6. \A t \in S : d[t] = DifferenceIn[t]
  BY <1>1 DEF DifferenceIn
<1>7. Gain(S) = SumOver(S, d)
  BY DEF Gain
<1> HIDE DEF d
<1>8. Gain(S) = SumOver(S, DifferenceIn)
  BY <1>5, <1>6, <1>7, SumsOfAlike
<1>9. QED
  BY <1>3, <1>5, <1>8

RateOver(m, S) == Ratio(SumOver(S, PassedIn(m)), Cardinality(S))

(* An estimate is exact, and the difference of the two methods' rates.       *)
LEMMA EstimateOver ==
    ASSUME records \in Records, Comparable, NEW S \in SUBSET Pairs, S # {}
    PROVE  /\ Cardinality(S) \in 1 .. Cardinality(Tasks)
           /\ Estimate(S) \in Int /\ Estimate(S) * Cardinality(S) = Gain(S) * RatioScale
           /\ Estimate(S) = RateOver(Candidate, S) - RateOver(Baseline, S)
           /\ \A j \in 1 .. Cardinality(Lineages) : \A m \in Compared :
                RateOver(m, S) \in Int /\ IsMultiple(RateOver(m, S), j)
<1>1. S \in SUBSET Tasks
  BY PairsAndLineages
<1>2. Cardinality(S) \in 1 .. Cardinality(Tasks)
  BY <1>1, SomeOf, TasksAreFinite
<1>3. 1 \in 1 .. Cardinality(Lineages) /\ Cardinality(Lineages) > 0
  <2>1. Cardinality(Drawn) \in 1 .. Cardinality(Lineages) /\ Cardinality(Lineages) \in Nat
    BY PairsAndLineages, TasksAreFinite
  <2>2. QED
    BY <2>1
<1> DEFINE a == SumOver(S, PassedIn(Candidate))
           b == SumOver(S, PassedIn(Baseline))
<1>4. a \in Int /\ b \in Int /\ Gain(S) = a - b /\ Gain(S) \in Int
  BY GainOver
<1>5. \A m \in Compared : SumOver(S, PassedIn(m)) \in Int
  BY <1>4 DEF Compared
<1> HIDE DEF a, b
<1>6. Estimate(S) \in Int /\ Estimate(S) * Cardinality(S) = Gain(S) * RatioScale
  BY <1>2, <1>3, <1>4, RatioIsExact DEF Estimate
<1>7. Ratio(a - b, Cardinality(S)) = Ratio(a, Cardinality(S)) - Ratio(b, Cardinality(S))
  BY <1>2, <1>3, <1>4, RatioOfDifference
<1>8. Estimate(S) = RateOver(Candidate, S) - RateOver(Baseline, S)
  BY <1>4, <1>7 DEF Estimate, RateOver, a, b
<1>9. ASSUME NEW j \in 1 .. Cardinality(Lineages), NEW m \in Compared
      PROVE  RateOver(m, S) \in Int /\ IsMultiple(RateOver(m, S), j)
  <2> DEFINE s == SumOver(S, PassedIn(m))
             d == Cardinality(S)
  <2>1. s \in Int /\ d \in 1 .. Cardinality(Tasks)
    BY <1>2, <1>5
  <2> HIDE DEF s, d
  <2>2. Ratio(s, d) \in Int /\ IsMultiple(Ratio(s, d), j)
    BY <2>1, RatioIsExact
  <2>3. QED
    BY <2>2 DEF RateOver, s, d
<1>10. QED
  BY <1>2, <1>6, <1>8, <1>9

(* The pairs of a lineage that is drawn: some.                               *)
LEMMA LineagePairs ==
    ASSUME records \in Records, Comparable, NEW l \in Lineages
    PROVE  /\ InLineage(Pairs, l) \in SUBSET Pairs
           /\ InLineage(Tasks, l) \in SUBSET Tasks /\ InLineage(Tasks, l) \cap Pairs = InLineage(Pairs, l)
           /\ IsFiniteSet(InLineage(Pairs, l)) /\ Cardinality(InLineage(Pairs, l)) \in Nat
           /\ l \in Drawn <=> InLineage(Pairs, l) # {}
           /\ l \in Drawn <=> Cardinality(InLineage(Pairs, l)) > 0
<1>1. Pairs \subseteq Tasks /\ IsFiniteSet(Pairs)
  BY PairsAndLineages
<1>2. InLineage(Pairs, l) \in SUBSET Pairs
  BY DEF InLineage
<1>3. InLineage(Tasks, l) \in SUBSET Tasks /\ InLineage(Tasks, l) \cap Pairs = InLineage(Pairs, l)
  BY <1>1 DEF InLineage
<1>4. l \in Drawn <=> InLineage(Pairs, l) # {}
  BY DEF Drawn, InLineage
<1>5. /\ IsFiniteSet(InLineage(Pairs, l)) /\ Cardinality(InLineage(Pairs, l)) \in Nat
      /\ InLineage(Pairs, l) # {} <=> Cardinality(InLineage(Pairs, l)) > 0
  BY <1>1, <1>2, SomeOf, FS_CardinalityType
<1>6. QED
  BY <1>2, <1>3, <1>4, <1>5

-----------------------------------------------------------------------------
(* The comparison is of the summaries                                        *)

(* A summary's rates are those of the pairs.                                 *)
LEMMA SummaryOfPairs ==
    ASSUME records \in Records, Comparable, NEW m \in Compared
    PROVE  /\ Summary(m)["micro"] = RateOver(m, Pairs)
           /\ Summary(m)["macro"]
              = SumOver(Drawn, [l \in Drawn |-> RateOver(m, InLineage(Pairs, l))]) \div Cardinality(Drawn)
<1> DEFINE seen == {l \in Lineages : UsableOf(m, InLineage(Tasks, l)) > 0}
           rate == [l \in seen |-> Ratio(PassedOf(m, InLineage(Tasks, l)),
                                     UsableOf(m, InLineage(Tasks, l)))]
<1>1. Tasks \in SUBSET Tasks /\ Tasks \cap Pairs = Pairs
  BY PairsAndLineages
<1>2. UsableOf(m, Tasks) = Cardinality(Pairs) /\ PassedOf(m, Tasks) = SumOver(Pairs, PassedIn(m))
  BY <1>1, ComparedOver
<1>3. Summary(m)["micro"] = RateOver(m, Pairs)
  BY <1>2 DEF Summary, RateOver
<1>4. ASSUME NEW l \in Lineages
      PROVE  /\ UsableOf(m, InLineage(Tasks, l)) = Cardinality(InLineage(Pairs, l))
             /\ PassedOf(m, InLineage(Tasks, l)) = SumOver(InLineage(Pairs, l), PassedIn(m))
  <2>1. InLineage(Tasks, l) \in SUBSET Tasks /\ InLineage(Tasks, l) \cap Pairs = InLineage(Pairs, l)
    BY LineagePairs
  <2> DEFINE T == InLineage(Tasks, l)
  <2> HIDE DEF T
  <2>2. T \in SUBSET Tasks /\ T \cap Pairs = InLineage(Pairs, l)
    BY <2>1 DEF T
  <2>3. UsableOf(m, T) = Cardinality(T \cap Pairs) /\ PassedOf(m, T) = SumOver(T \cap Pairs, PassedIn(m))
    BY <2>2, ComparedOver
  <2>4. QED
    BY <2>2, <2>3 DEF T
<1>5. seen = Drawn
  <2>1. Drawn \subseteq Lineages
    BY PairsAndLineages
  <2>2. ASSUME NEW l \in Lineages PROVE l \in seen <=> l \in Drawn
    BY <1>4, LineagePairs
  <2>3. seen \subseteq Lineages
    OBVIOUS
  <2> HIDE DEF seen
  <2>4. QED
    BY <2>1, <2>2, <2>3
<1>6. \A l \in seen : rate[l] = RateOver(m, InLineage(Pairs, l))
  BY <1>4 DEF RateOver
<1>7. Summary(m)["macro"] = SumOver(seen, rate) \div Cardinality(seen)
  BY DEF Summary
<1>8. rate = [l \in seen |-> RateOver(m, InLineage(Pairs, l))]
  BY <1>6
<1> HIDE DEF seen, rate
<1>9. QED
  BY <1>3, <1>5, <1>7, <1>8

Comparison == \A w \in Weightings : Observed(w) = Summary(Candidate)[w] - Summary(Baseline)[w]

(* The estimates are the differences of the summaries, by tasks and by       *)
(* lineages.                                                                 *)
LEMMA ComparisonHolds ==
    ASSUME records \in Records, Comparable
    PROVE  Comparison
<1>1. Observed("micro") = Summary(Candidate)["micro"] - Summary(Baseline)["micro"]
  <2>1. Pairs \in SUBSET Pairs /\ Pairs # {}
    BY DEF Comparable
  <2>2. Estimate(Pairs) = RateOver(Candidate, Pairs) - RateOver(Baseline, Pairs)
    BY <2>1, EstimateOver
  <2>3. QED
    BY <2>2, SummaryOfPairs, ComparedMethods DEF Observed
<1> DEFINE rate(m) == [l \in Drawn |-> RateOver(m, InLineage(Pairs, l))]
           est == [l \in Drawn |-> Estimate(InLineage(Pairs, l))]
           n == Cardinality(Drawn)
<1>2. n \in 1 .. Cardinality(Lineages) /\ IsFiniteSet(Drawn) /\ Drawn \subseteq Lineages
  BY PairsAndLineages
<1>3. ASSUME NEW l \in Drawn
      PROVE  /\ est[l] = rate(Candidate)[l] - rate(Baseline)[l]
             /\ \A m \in Compared : rate(m)[l] \in Int /\ IsMultiple(rate(m)[l], n)
  <2>1. InLineage(Pairs, l) \in SUBSET Pairs /\ InLineage(Pairs, l) # {}
    BY <1>2, LineagePairs
  <2> DEFINE S == InLineage(Pairs, l)
  <2> HIDE DEF S
  <2>2. S \in SUBSET Pairs /\ S # {}
    BY <2>1 DEF S
  <2>3. /\ Estimate(S) = RateOver(Candidate, S) - RateOver(Baseline, S)
        /\ \A j \in 1 .. Cardinality(Lineages) : \A m \in Compared :
                RateOver(m, S) \in Int /\ IsMultiple(RateOver(m, S), j)
    BY <2>2, EstimateOver
  <2>4. \A m \in Compared : RateOver(m, S) \in Int /\ IsMultiple(RateOver(m, S), n)
    BY <1>2, <2>3
  <2>5. est[l] = Estimate(S) /\ \A m : rate(m)[l] = RateOver(m, S)
    BY DEF S
  <2>6. QED
    BY <2>3, <2>4, <2>5
<1>4. ASSUME NEW m \in Compared
      PROVE  /\ Summable(Drawn, rate(m))
             /\ SumOver(Drawn, rate(m)) \div n \in Int
             /\ SumOver(Drawn, rate(m)) = n * (SumOver(Drawn, rate(m)) \div n)
  <2> DEFINE f == rate(m)
             q == [l \in Drawn |-> f[l] \div n]
  <2>1. ASSUME NEW l \in Drawn PROVE q[l] \in Int /\ f[l] = n * q[l]
    <3>1. PICK r \in Int : f[l] = r * n
      BY <1>3 DEF IsMultiple
    <3>2. f[l] \div n = r
      BY <1>2, <3>1, Division
    <3>3. r * n = n * r
      BY <1>2
    <3>4. QED
      BY <3>1, <3>2, <3>3
  <2>2. ASSUME NEW l \in Drawn PROVE f[l] \in Int
    BY <1>3
  <2> HIDE DEF f, q
  <2>3. Summable(Drawn, q) /\ Summable(Drawn, f) /\ n \in Int
    BY <1>2, <2>1, <2>2 DEF Summable
  <2>4. SumOver(Drawn, f) = n * SumOver(Drawn, q)
    <3> HIDE DEF n
    <3>1. QED
      BY <2>1, <2>3, SumOfMultiples
  <2>5. SumOver(Drawn, q) \in Int
    BY <2>3, SumType
  <2> DEFINE k == SumOver(Drawn, q)
  <2> HIDE DEF k
  <2>6. k \in Int /\ SumOver(Drawn, f) = n * k /\ n \in Nat \ {0}
    BY <1>2, <2>4, <2>5 DEF k
  <2> HIDE DEF n
  <2>7. n * k = k * n /\ (k * n) \div n = k
    BY <2>6, Division
  <2>8. SumOver(Drawn, f) \div n = k
    BY <2>6, <2>7
  <2>9. QED
    BY <2>3, <2>6, <2>8 DEF f
<1>5. SumOver(Drawn, est) = SumOver(Drawn, rate(Candidate)) - SumOver(Drawn, rate(Baseline))
  <2> DEFINE c == rate(Candidate)
             b == rate(Baseline)
  <2>1. \A l \in Drawn : est[l] = c[l] - b[l]
    BY <1>3
  <2>2. Summable(Drawn, c) /\ Summable(Drawn, b)
    BY <1>4, ComparedMethods
  <2> HIDE DEF c, b, est
  <2>3. SumOver(Drawn, est) = SumOver(Drawn, c) - SumOver(Drawn, b)
    BY <2>1, <2>2, SumOfDifferences
  <2>4. QED
    BY <2>3 DEF c, b
<1> DEFINE x == SumOver(Drawn, rate(Candidate)) \div n
           y == SumOver(Drawn, rate(Baseline)) \div n
<1>6. x \in Int /\ y \in Int /\ SumOver(Drawn, est) = n * x - n * y
  BY <1>4, <1>5, ComparedMethods
<1>7. Observed("macro") = SumOver(Drawn, est) \div n
  BY DEF Observed
<1>8. Summary(Candidate)["macro"] = x /\ Summary(Baseline)["macro"] = y
  BY SummaryOfPairs, ComparedMethods
<1> HIDE DEF x, y, est, n, rate
<1>9. n * x - n * y = (x - y) * n /\ x - y \in Int /\ n \in Nat \ {0}
  BY <1>2, <1>6
<1>10. Observed("macro") = x - y
  BY <1>6, <1>7, <1>9, Division
<1>11. QED
  BY <1>1, <1>8, <1>10 DEF Comparison, Weightings

-----------------------------------------------------------------------------
(* The leave-one-out estimates                                               *)

(* The gains of the lineages add up to the gain.                             *)
LEMMA GainsByLineage ==
    ASSUME records \in Records, Comparable
    PROVE  LET gains == [l \in Drawn |-> Gain(InLineage(Pairs, l))]
           IN  Summable(Drawn, gains) /\ SumOver(Drawn, gains) = Gain(Pairs)
<1> DEFINE gains == [l \in Drawn |-> Gain(InLineage(Pairs, l))]
           of == [t \in Pairs |-> LineageOf[t]]
<1>1. Pairs \in SUBSET Pairs /\ IsFiniteSet(Drawn) /\ Drawn \subseteq Lineages
  BY PairsAndLineages
<1>2. Summable(Pairs, DifferenceIn) /\ Gain(Pairs) = SumOver(Pairs, DifferenceIn)
  BY <1>1, GainOver
<1>3. \A t \in Pairs : of[t] \in Drawn
  BY DEF Drawn
<1>4. ASSUME NEW l \in Drawn
      PROVE  gains[l] = SumOver({t \in Pairs : of[t] = l}, DifferenceIn)
  <2>1. InLineage(Pairs, l) \in SUBSET Pairs
    BY <1>1, LineagePairs
  <2> DEFINE S == InLineage(Pairs, l)
  <2>2. S = {t \in Pairs : of[t] = l} /\ gains[l] = Gain(S) /\ S \in SUBSET Pairs
    BY <2>1 DEF InLineage
  <2> HIDE DEF S, gains, of
  <2>3. Gain(S) = SumOver(S, DifferenceIn)
    BY <2>2, GainOver
  <2>4. QED
    BY <2>2, <2>3
<1> HIDE DEF of
<1>5. \A l \in Drawn : gains[l] = SumOver({t \in Pairs : of[t] = l}, DifferenceIn)
  BY <1>4
<1> HIDE DEF gains
<1>6. Summable(Drawn, gains) /\ SumOver(Drawn, gains) = SumOver(Pairs, DifferenceIn)
  <2> DEFINE K == Drawn
             S == Pairs
             f == DifferenceIn
  <2>1. Summable(S, f) /\ IsFiniteSet(K)
    BY <1>1, <1>2
  <2>2. \A t \in S : of[t] \in K
    BY <1>3
  <2>3. \A l \in K : gains[l] = SumOver({t \in S : of[t] = l}, f)
    BY <1>5
  <2> HIDE DEF K, S, f
  <2>4. Summable(K, gains) /\ SumOver(K, gains) = SumOver(S, f)
    BY SMTT(30), <2>1, <2>2, <2>3, SumByParts
  <2>5. QED
    BY <2>4 DEF K, S, f
<1>7. QED
  BY <1>2, <1>6 DEF gains

LeavingOut == [l \in Drawn |-> LeaveOut(l)]

AddsUp(left, estimate) ==
    SumOver(Drawn, [l \in Drawn |-> left[l] * Cardinality(Pairs \ InLineage(Pairs, l))])
    = (Cardinality(Drawn) - 1) * Cardinality(Pairs) * estimate

(* Without a lineage, what is left of the gain is over what is left of the   *)
(* pairs;                                                                    *)
LEMMA WithoutALineage ==
    ASSUME records \in Records, Comparable, Cardinality(Drawn) >= 2, NEW l \in Drawn
    PROVE  LET g == Gain(InLineage(Pairs, l)) IN
           /\ g \in Int /\ Gain(Pairs) \in Int
           /\ LeaveOut(l) * Cardinality(Pairs \ InLineage(Pairs, l)) = (Gain(Pairs) - g) * RatioScale
<1> DEFINE S == InLineage(Pairs, l)
           R == Pairs \ S
<1>1. l \in Lineages /\ IsFiniteSet(Drawn)
  BY PairsAndLineages
<1>2. S \in SUBSET Pairs /\ S = {t \in Pairs : LineageOf[t] = l}
  BY <1>1, LineagePairs DEF InLineage
<1>3. R # {}
  <2>1. Drawn # {l}
    BY FS_Singleton
  <2>2. PICK k \in Drawn : k # l
    BY <2>1
  <2>3. PICK t \in Pairs : LineageOf[t] = k
    BY <2>2 DEF Drawn
  <2>4. t \in R
    BY <1>2, <2>2, <2>3
  <2>5. QED
    BY <2>4
<1>4. LeaveOut(l) = Estimate(R)
  BY DEF LeaveOut
<1> HIDE DEF S
<1>5. R \in SUBSET Pairs /\ Pairs \in SUBSET Pairs
  OBVIOUS
<1>6. SumOver(R, DifferenceIn) = SumOver(Pairs, DifferenceIn) - SumOver(S, DifferenceIn)
  <2>1. Summable(Pairs, DifferenceIn)
    BY <1>5, GainOver
  <2>2. QED
    BY <1>2, <2>1, SumOfTheRest
<1> HIDE DEF R
<1>7. Gain(R) = SumOver(R, DifferenceIn)
  BY <1>5, GainOver
<1>8. Gain(Pairs) = SumOver(Pairs, DifferenceIn) /\ Gain(Pairs) \in Int
  BY <1>5, GainOver
<1>9. Gain(S) = SumOver(S, DifferenceIn) /\ Gain(S) \in Int
  BY <1>2, GainOver
<1>10. Estimate(R) * Cardinality(R) = Gain(R) * RatioScale
  BY <1>3, <1>5, EstimateOver
<1>11. QED
  BY <1>4, <1>6, <1>7, <1>8, <1>9, <1>10 DEF R, S

(* by the arithmetic of the weights                                          *)
LEMMA Weighted ==
    ASSUME NEW n, NEW p, NEW g, NEW e, NEW r, n \in Int, p \in Int, g \in Int, e \in Int, r \in Int,
           e * p = g * r
    PROVE  r * (g * n - g) = (n - 1) * p * e
<1>1. (n - 1) * p * e = (n - 1) * (e * p)
  OBVIOUS
<1>2. (n - 1) * (g * r) = r * (g * n - g)
  OBVIOUS
<1>3. QED
  BY <1>1, <1>2

(* the leave-one-out estimates add up to the estimate.                       *)
LEMMA LeaveOneOutHolds ==
    ASSUME records \in Records, Comparable, Cardinality(Drawn) >= 2
    PROVE  AddsUp(LeavingOut, Observed("micro"))
<1> DEFINE gains == [l \in Drawn |-> Gain(InLineage(Pairs, l))]
           all == [l \in Drawn |-> Gain(Pairs)]
           rest == [l \in Drawn |-> Gain(Pairs) - Gain(InLineage(Pairs, l))]
           weighted == [l \in Drawn |-> LeavingOut[l] * Cardinality(Pairs \ InLineage(Pairs, l))]
           n == Cardinality(Drawn)
           g == Gain(Pairs)
<1>1. IsFiniteSet(Drawn) /\ n \in Int /\ Cardinality(Pairs) \in Int
  <2>1. IsFiniteSet(Drawn) /\ IsFiniteSet(Pairs)
    BY PairsAndLineages
  <2>2. QED
    BY <2>1, FS_CardinalityType
<1>2. Summable(Drawn, gains) /\ SumOver(Drawn, gains) = g
  BY GainsByLineage
<1>3. g \in Int /\ Estimate(Pairs) * Cardinality(Pairs) = g * RatioScale /\ Estimate(Pairs) \in Int
  <2>1. Pairs \in SUBSET Pairs /\ Pairs # {}
    BY DEF Comparable
  <2>2. QED
    BY <2>1, GainOver, EstimateOver
<1>4. ASSUME NEW l \in Drawn
      PROVE  /\ all[l] = g /\ rest[l] = all[l] - gains[l]
             /\ weighted[l] = RatioScale * rest[l]
  <2>1. LET x == Gain(InLineage(Pairs, l)) IN
           /\ x \in Int /\ Gain(Pairs) \in Int
           /\ LeaveOut(l) * Cardinality(Pairs \ InLineage(Pairs, l)) = (Gain(Pairs) - x) * RatioScale
    BY WithoutALineage
  <2>2. weighted[l] = rest[l] * RatioScale /\ rest[l] \in Int
    BY <2>1 DEF LeavingOut
  <2> HIDE DEF rest, weighted
  <2>3. rest[l] * RatioScale = RatioScale * rest[l]
    BY <2>2, RatioScaleType
  <2>4. QED
    BY <2>2, <2>3 DEF rest
<1> HIDE DEF gains, all, rest, weighted, g
<1>5. Summable(Drawn, all) /\ SumOver(Drawn, all) = g * n
  <2>1. \A l \in Drawn : all[l] = g
    BY <1>4
  <2>2. QED
    BY <1>1, <1>3, <2>1, SumOfConstant
<1>6. Summable(Drawn, rest) /\ SumOver(Drawn, rest) = SumOver(Drawn, all) - SumOver(Drawn, gains)
  <2>1. \A l \in Drawn : rest[l] = all[l] - gains[l]
    BY <1>4
  <2>2. QED
    BY <1>2, <1>5, <2>1, SumOfDifferences
<1>7. SumOver(Drawn, weighted) = RatioScale * SumOver(Drawn, rest)
  <2>1. \A l \in Drawn : weighted[l] = RatioScale * rest[l]
    BY <1>4
  <2>2. RatioScale \in Int
    BY RatioScaleType
  <2>3. QED
    BY <1>6, <2>1, <2>2, SumOfMultiples
<1>8. SumOver(Drawn, weighted) = RatioScale * (g * n - g)
  BY <1>2, <1>5, <1>6, <1>7
<1>9. Observed("micro") = Estimate(Pairs)
  BY DEF Observed
<1> DEFINE e == Estimate(Pairs)
           p == Cardinality(Pairs)
<1> HIDE DEF e, p, n
<1>10. e * p = g * RatioScale /\ e \in Int /\ p \in Int /\ n \in Int /\ g \in Int /\ RatioScale \in Int
  BY <1>1, <1>3, RatioScaleType DEF e, p
<1>11. RatioScale * (g * n - g) = (n - 1) * p * e
  BY <1>10, Weighted
<1>12. QED
  BY <1>8, <1>9, <1>11 DEF AddsUp, weighted, e, p, n

-----------------------------------------------------------------------------
(* The bootstrap stays within the pairs' differences                         *)

Extremes(low, high) ==
    /\ low \in -1 .. 1 /\ high \in -1 .. 1
    /\ \E t \in Pairs : Difference(t) = low
    /\ \E t \in Pairs : Difference(t) = high
    /\ \A t \in Pairs : low <= Difference(t) /\ Difference(t) <= high

(* Of the pairs' differences one is the least and one the largest.           *)
LEMMA ExtremesExist ==
    ASSUME records \in Records, Comparable
    PROVE  \E low, high \in -1 .. 1 : Extremes(low, high)
<1>1. \A t \in Pairs : Difference(t) \in {-1, 0, 1}
  BY DifferenceType
<1>2. PICK t \in Pairs : TRUE
  BY DEF Comparable
<1>3. \E low \in -1 .. 1 :
        (\E u \in Pairs : Difference(u) = low) /\ \A u \in Pairs : low <= Difference(u)
  <2>1. CASE \E u \in Pairs : Difference(u) = -1
    BY <1>1, <2>1
  <2>2. CASE (\A u \in Pairs : Difference(u) # -1) /\ \E u \in Pairs : Difference(u) = 0
    BY <1>1, <2>2
  <2>3. CASE \A u \in Pairs : Difference(u) # -1 /\ Difference(u) # 0
    BY <1>1, <1>2, <2>3
  <2>4. QED
    BY <2>1, <2>2, <2>3
<1>4. \E high \in -1 .. 1 :
        (\E u \in Pairs : Difference(u) = high) /\ \A u \in Pairs : Difference(u) <= high
  <2>1. CASE \E u \in Pairs : Difference(u) = 1
    BY <1>1, <2>1
  <2>2. CASE (\A u \in Pairs : Difference(u) # 1) /\ \E u \in Pairs : Difference(u) = 0
    BY <1>1, <2>2
  <2>3. CASE \A u \in Pairs : Difference(u) # 1 /\ Difference(u) # 0
    BY <1>1, <1>2, <2>3
  <2>4. QED
    BY <2>1, <2>2, <2>3
<1>5. QED
  BY <1>3, <1>4 DEF Extremes

(* What a lineage's place is filled with.                                    *)
FilledWithin(filling, low, high) ==
    /\ filling.size \in Nat \ {0} /\ filling.gain \in Int
    /\ low * filling.size <= filling.gain
    /\ filling.gain <= high * filling.size

(* What a lineage's tasks gain in a draw is within them,                     *)
LEMMA FillingIsWithin ==
    ASSUME records \in Records, Comparable, NEW low, NEW high, Extremes(low, high),
           NEW l \in Drawn, NEW filling \in Fillings(l)
    PROVE  FilledWithin(filling, low, high)
<1> DEFINE tasks == InLineage(Pairs, l)
           places == 1 .. Cardinality(tasks)
<1>1. PICK chosen \in [places -> tasks] :
        filling = [gain |-> SumOver(places, [i \in places |-> Difference(chosen[i])]),
                   size |-> Cardinality(places)]
  BY DEF Fillings
<1> DEFINE gains == [i \in places |-> Difference(chosen[i])]
<1>2. l \in Lineages
  BY PairsAndLineages
<1>3. Cardinality(tasks) \in Nat /\ Cardinality(tasks) > 0 /\ tasks \in SUBSET Pairs
  BY <1>2, LineagePairs
<1>4. IsFiniteSet(places) /\ Cardinality(places) \in Nat \ {0}
  <2> DEFINE k == Cardinality(tasks)
  <2>1. k \in Nat /\ k > 0
    BY <1>3
  <2> HIDE DEF k
  <2>2. IsFiniteSet(1 .. k) /\ Cardinality(1 .. k) = k
    BY <2>1, FS_Interval
  <2>3. QED
    BY <2>1, <2>2 DEF k
<1>5. low \in Int /\ high \in Int
  BY DEF Extremes
<1> HIDE DEF places, tasks
<1>6. ASSUME NEW i \in places
      PROVE  gains[i] \in Int /\ low <= gains[i] /\ gains[i] <= high
  <2>1. chosen[i] \in Pairs
    BY <1>1, <1>3
  <2>2. Difference(chosen[i]) \in Int
    BY <2>1, DifferenceType
  <2>3. QED
    BY <2>1, <2>2 DEF Extremes
<1>7. filling.gain = SumOver(places, gains) /\ filling.size = Cardinality(places)
  BY <1>1
<1> HIDE DEF gains
<1>8. Summable(places, gains)
  BY <1>4, <1>6 DEF Summable
<1>9. /\ SumOver(places, gains) \in Int
      /\ low * Cardinality(places) <= SumOver(places, gains)
      /\ SumOver(places, gains) <= high * Cardinality(places)
  BY <1>5, <1>6, <1>8, SumType, SumIsBounded
<1>10. QED
  BY <1>4, <1>7, <1>9 DEF FilledWithin

Bounded(value, low, high) ==
    value \in Int /\ low * RatioScale <= value /\ value <= high * RatioScale

(* so is the rate of such a gain,                                            *)
LEMMA RatioWithin ==
    ASSUME NEW n, NEW d, NEW low, NEW high, n \in Int, d \in Nat \ {0}, low \in Int, high \in Int,
           low * d <= n, n <= high * d
    PROVE  Bounded(Ratio(n, d), low, high)
<1>1. Ratio(n, d) \in Int /\ low * RatioScale <= Ratio(n, d)
  BY RatioIsBounded
<1>2. Ratio(n, d) <= high * RatioScale
  BY RatioIsBounded
<1>3. QED
  BY <1>1, <1>2 DEF Bounded

(* and so is the draw, of either weighting;                                  *)
LEMMA DrawnIsBounded ==
    ASSUME records \in Records, Comparable, NEW low, NEW high, Extremes(low, high),
           NEW filled \in [Drawn -> UNION {Fillings(l) : l \in Drawn}]
    PROVE  Bounded(DrawnMicro(filled), low, high) /\ Bounded(DrawnMacro(filled), low, high)
<1> DEFINE gains == [l \in Drawn |-> filled[l].gain]
           sizes == [l \in Drawn |-> filled[l].size]
           lows == [l \in Drawn |-> low * sizes[l]]
           highs == [l \in Drawn |-> high * sizes[l]]
           ones == [l \in Drawn |-> 1]
           ratios == [l \in Drawn |-> Ratio(filled[l].gain, filled[l].size)]
           n == Cardinality(Drawn)
<1>1. IsFiniteSet(Drawn) /\ n \in Nat \ {0}
  BY PairsAndLineages
<1>2. low \in Int /\ high \in Int
  BY DEF Extremes
<1>3. ASSUME NEW l \in Drawn PROVE FilledWithin(filled[l], low, high)
  <2>1. PICK k \in Drawn : filled[l] \in Fillings(k)
    OBVIOUS
  <2>2. QED
    BY <2>1, FillingIsWithin
<1>4. ASSUME NEW l \in Drawn
      PROVE  /\ sizes[l] \in Nat \ {0} /\ gains[l] \in Int
             /\ lows[l] = low * sizes[l] /\ highs[l] = high * sizes[l]
             /\ lows[l] <= gains[l] /\ gains[l] <= highs[l]
             /\ ones[l] = 1 /\ ones[l] <= sizes[l]
  BY <1>3 DEF FilledWithin
<1>5. ASSUME NEW l \in Drawn
      PROVE  /\ ratios[l] \in Int
             /\ low * RatioScale <= ratios[l] /\ ratios[l] <= high * RatioScale
  <2> DEFINE g == filled[l].gain
             s == filled[l].size
  <2>1. g \in Int /\ s \in Nat \ {0} /\ low * s <= g /\ g <= high * s
    BY <1>3 DEF FilledWithin
  <2>2. ratios[l] = Ratio(g, s)
    OBVIOUS
  <2> HIDE DEF g, s, ratios
  <2>3. Bounded(Ratio(g, s), low, high)
    BY <1>2, <2>1, RatioWithin
  <2>4. QED
    BY <2>2, <2>3 DEF Bounded
<1>6. /\ DrawnMicro(filled) = Ratio(SumOver(Drawn, gains), SumOver(Drawn, sizes))
      /\ DrawnMacro(filled) = SumOver(Drawn, ratios) \div n
  BY DEF DrawnMicro, DrawnMacro
<1> HIDE DEF gains, sizes, lows, highs, ones, ratios, n
<1>7. /\ Summable(Drawn, gains) /\ Summable(Drawn, sizes) /\ Summable(Drawn, ones) /\ Summable(Drawn, ratios)
  BY <1>1, <1>4, <1>5 DEF Summable
<1> DEFINE g == SumOver(Drawn, gains)
           s == SumOver(Drawn, sizes)
<1>8. Summable(Drawn, lows) /\ SumOver(Drawn, lows) = low * s
  <2>1. Summable(Drawn, sizes) /\ low \in Int
    BY <1>2, <1>7
  <2>2. \A l \in Drawn : lows[l] = low * sizes[l]
    BY <1>4
  <2>3. QED
    BY <2>1, <2>2, SumOfMultiples
<1>9. Summable(Drawn, highs) /\ SumOver(Drawn, highs) = high * s
  <2>1. Summable(Drawn, sizes) /\ high \in Int
    BY <1>2, <1>7
  <2>2. \A l \in Drawn : highs[l] = high * sizes[l]
    BY <1>4
  <2>3. QED
    BY <2>1, <2>2, SumOfMultiples
<1>10. SumOver(Drawn, ones) = 1 * n
  BY <1>1, <1>4, SumOfConstant DEF n
<1>11. SumOver(Drawn, lows) <= g
  BY <1>4, <1>7, <1>8, SumIsMonotonic
<1>12. g <= SumOver(Drawn, highs)
  BY <1>4, <1>7, <1>9, SumIsMonotonic
<1>13. SumOver(Drawn, ones) <= s
  BY <1>4, <1>7, SumIsMonotonic
<1>14. g \in Int /\ s \in Int
  BY <1>7, SumType
<1> HIDE DEF g, s
<1>15. s \in Nat \ {0} /\ low * s <= g /\ g <= high * s
  BY <1>1, <1>8, <1>9, <1>10, <1>11, <1>12, <1>13, <1>14
<1>16. Bounded(Ratio(g, s), low, high)
  BY <1>2, <1>14, <1>15, RatioWithin
<1> DEFINE r == SumOver(Drawn, ratios)
           a == low * RatioScale
           b == high * RatioScale
<1>17. a \in Int /\ b \in Int /\ \A l \in Drawn : a <= ratios[l] /\ ratios[l] <= b
  BY <1>2, <1>5, RatioScaleType
<1> HIDE DEF a, b
<1>18. r \in Int /\ a * n <= r /\ r <= b * n
  BY <1>7, <1>17, SumType, SumIsBounded DEF n
<1> HIDE DEF r
<1>19. r \div n \in Int /\ a <= r \div n
  BY <1>1, <1>17, <1>18, DivisionBounds
<1>20. r \div n <= b
  BY <1>1, <1>17, <1>18, DivisionBounds
<1>21. Bounded(r \div n, low, high)
  BY <1>19, <1>20 DEF Bounded, a, b
<1>22. QED
  BY <1>6, <1>16, <1>21 DEF g, s, r

Within(v) ==
    /\ v \in -RatioScale .. RatioScale
    /\ \E t \in Pairs : RatioScale * Difference(t) <= v
    /\ \E t \in Pairs : v <= RatioScale * Difference(t)

(* that is, it is within the differences of two pairs.                       *)
LEMMA BoundedIsWithin ==
    ASSUME records \in Records, Comparable, NEW low, NEW high, Extremes(low, high), NEW v, Bounded(v, low, high)
    PROVE  Within(v)
<1>1. RatioScale \in Nat \ {0} /\ low \in -1 .. 1 /\ high \in -1 .. 1 /\ v \in Int
  BY RatioScaleType DEF Extremes, Bounded
<1>2. low * RatioScale <= v /\ v <= high * RatioScale
  BY DEF Bounded
<1>3. low * RatioScale = RatioScale * low /\ high * RatioScale = RatioScale * high
  BY <1>1
<1>4. -RatioScale <= low * RatioScale /\ low * RatioScale \in Int
  <2>1. low = -1 \/ low = 0 \/ low = 1
    BY <1>1
  <2>2. QED
    BY <1>1, <2>1
<1>5. high * RatioScale <= RatioScale /\ high * RatioScale \in Int
  <2>1. high = -1 \/ high = 0 \/ high = 1
    BY <1>1
  <2>2. QED
    BY <1>1, <2>1
<1>6. v \in -RatioScale .. RatioScale
  <2> DEFINE a == low * RatioScale
             b == high * RatioScale
  <2>1. a \in Int /\ b \in Int /\ -RatioScale <= a /\ a <= v /\ v <= b /\ b <= RatioScale
    BY <1>2, <1>4, <1>5
  <2> HIDE DEF a, b
  <2>2. QED
    BY <1>1, <2>1
<1>7. PICK t \in Pairs : Difference(t) = low
  BY DEF Extremes
<1>8. PICK u \in Pairs : Difference(u) = high
  BY DEF Extremes
<1>9. RatioScale * Difference(t) <= v /\ v <= RatioScale * Difference(u)
  BY <1>2, <1>3, <1>7, <1>8
<1>10. QED
  BY <1>6, <1>9 DEF Within

(* Whatever is drawn, it is within the differences of the pairs.             *)
LEMMA DrawnIsWithin ==
    ASSUME records \in Records, Comparable,
           NEW filled \in [Drawn -> UNION {Fillings(l) : l \in Drawn}]
    PROVE  Within(DrawnMicro(filled)) /\ Within(DrawnMacro(filled))
<1>1. PICK low \in -1 .. 1, high \in -1 .. 1 : Extremes(low, high)
  BY ExtremesExist
<1>2. Bounded(DrawnMicro(filled), low, high) /\ Bounded(DrawnMacro(filled), low, high)
  BY <1>1, DrawnIsBounded
<1>3. QED
  BY <1>1, <1>2, BoundedIsWithin

DrawsAre(d) ==
    /\ d \in [Weightings -> Seq(Int)]
    /\ Len(d["micro"]) = Len(d["macro"])
    /\ \A w \in Weightings : Ordered(d[w]) /\ \A i \in 1 .. Len(d[w]) : Within(d[w][i])

(* A draw is put among the others of its weighting,                          *)
LEMMA DrawIsKept ==
    ASSUME NEW values \in Seq(Int), Ordered(values), \A i \in 1 .. Len(values) : Within(values[i]),
           NEW v, Within(v)
    PROVE  LET new == Insert(values, v) IN
           /\ new \in Seq(Int) /\ Len(new) = Len(values) + 1 /\ Ordered(new)
           /\ \A i \in 1 .. Len(new) : Within(new[i])
<1> DEFINE new == Insert(values, v)
<1>1. v \in Int
  BY RatioScaleType DEF Within
<1>2. /\ new \in Seq(Int) /\ Len(new) = Len(values) + 1 /\ Ordered(new)
      /\ \A i \in 1 .. Len(new) :
           new[i] = v \/ \E j \in 1 .. Len(values) : new[i] = values[j]
  BY <1>1, InsertOrders
<1> HIDE DEF new
<1>3. ASSUME NEW i \in 1 .. Len(new) PROVE Within(new[i])
  <2>1. CASE new[i] = v
    BY <2>1
  <2>2. CASE \E j \in 1 .. Len(values) : new[i] = values[j]
    BY <2>2
  <2>3. QED
    BY <1>2, <2>1, <2>2
<1>4. QED
  BY <1>2, <1>3 DEF new

(* and the draws of both stay sorted and within the differences.             *)
LEMMA DrawsAreKept ==
    ASSUME DrawsAre(draws), NEW v, NEW u, Within(v), Within(u)
    PROVE  DrawsAre([micro |-> Insert(draws["micro"], v), macro |-> Insert(draws["macro"], u)])
<1> DEFINE a == draws["micro"]
           b == draws["macro"]
           x == Insert(a, v)
           y == Insert(b, u)
           new == [micro |-> x, macro |-> y]
<1>1. /\ a \in Seq(Int) /\ Ordered(a) /\ \A i \in 1 .. Len(a) : Within(a[i])
      /\ b \in Seq(Int) /\ Ordered(b) /\ \A i \in 1 .. Len(b) : Within(b[i])
      /\ Len(a) = Len(b)
  BY DEF DrawsAre, Weightings
<1> HIDE DEF a, b
<1>2. x \in Seq(Int) /\ Len(x) = Len(a) + 1 /\ Ordered(x) /\ \A i \in 1 .. Len(x) : Within(x[i])
  BY <1>1, DrawIsKept
<1>3. y \in Seq(Int) /\ Len(y) = Len(b) + 1 /\ Ordered(y) /\ \A i \in 1 .. Len(y) : Within(y[i])
  BY <1>1, DrawIsKept
<1> HIDE DEF x, y
<1>4. DOMAIN new = Weightings /\ new["micro"] = x /\ new["macro"] = y
  BY DEF Weightings
<1>5. new = [w \in Weightings |-> new[w]]
  BY <1>4
<1> HIDE DEF new
<1>6. new \in [Weightings -> Seq(Int)]
  <2>1. \A w \in Weightings : new[w] \in Seq(Int)
    BY <1>2, <1>3, <1>4 DEF Weightings
  <2>2. QED
    BY <1>5, <2>1
<1>7. Len(new["micro"]) = Len(new["macro"])
  BY <1>1, <1>2, <1>3, <1>4
<1>8. ASSUME NEW w \in Weightings
      PROVE  Ordered(new[w]) /\ \A i \in 1 .. Len(new[w]) : Within(new[w][i])
  <2>1. new[w] = x \/ new[w] = y
    BY <1>4 DEF Weightings
  <2>2. QED
    BY <1>2, <1>3, <2>1
<1>9. DrawsAre(new)
  BY <1>6, <1>7, <1>8 DEF DrawsAre
<1>10. QED
  BY <1>9 DEF new, x, y, a, b

InRange(interval) ==
    /\ interval.lower <= interval.upper
    /\ \E t \in Pairs : interval.lower >= 1000 * RatioScale * Difference(t)
    /\ \E t \in Pairs : interval.upper <= 1000 * RatioScale * Difference(t)

(* In thousandths,                                                           *)
LEMMA Thousands ==
    ASSUME NEW s, NEW d, NEW v, NEW p, s \in Nat, d \in -1 .. 1, v \in Int, p \in Int
    PROVE  /\ (s * d <= v /\ 1000 * v <= p) => p >= 1000 * s * d
           /\ (v <= s * d /\ p <= 1000 * v) => p <= 1000 * s * d
<1>1. d = -1 \/ d = 0 \/ d = 1
  OBVIOUS
<1>2. QED
  BY <1>1

(* an interval is within them too.                                           *)
LEMMA IntervalHolds ==
    ASSUME records \in Records, Comparable, DrawsAre(draws), Len(draws["micro"]) = Resamples,
           NEW w \in Weightings
    PROVE  InRange(Interval(w))
<1> DEFINE values == draws[w]
           p == Alpha
           q == 1000 - Alpha
<1>1. p \in 1 .. 999 /\ q \in 1 .. 999 /\ p <= q /\ Resamples \in Nat \ {0}
  BY EvaluationAssumption DEF EvaluationAssumption
<1>2. /\ values \in Seq(Int) /\ Ordered(values) /\ \A i \in 1 .. Len(values) : Within(values[i])
      /\ Len(values) > 0
  <2>1. /\ values \in Seq(Int) /\ Ordered(values)
        /\ \A i \in 1 .. Len(values) : Within(values[i])
    BY DEF DrawsAre
  <2>2. Len(values) = Len(draws["micro"])
    BY DEF DrawsAre, Weightings
  <2>3. QED
    BY <1>1, <2>1, <2>2
<1>3. Interval(w).lower = Percentile(values, p) /\ Interval(w).upper = Percentile(values, q)
  BY DEF Interval
<1> HIDE DEF values, p, q
<1>4. HasPercentile(values, p) /\ HasPercentile(values, q)
  BY <1>1, <1>2 DEF HasPercentile
<1>5. Percentile(values, p) <= Percentile(values, q)
  BY <1>1, <1>4, PercentilesAreOrdered
<1> DEFINE low == values[LowerPlace(values, p)]
           high == values[UpperPlace(values, q)]
<1>6. Percentile(values, p) \in Int /\ 1000 * low <= Percentile(values, p)
  <2>1. PlacedBetween(values, p)
    BY <1>4, PercentileIsBetween
  <2>2. QED
    BY <2>1 DEF PlacedBetween
<1>7. Percentile(values, q) \in Int /\ Percentile(values, q) <= 1000 * high
  <2>1. PlacedBetween(values, q)
    BY <1>4, PercentileIsBetween
  <2>2. QED
    BY <2>1 DEF PlacedBetween
<1>8. Within(low) /\ Within(high)
  <2>1. Placed(values, p) /\ Placed(values, q)
    BY <1>4, PercentilePlaces
  <2>2. LowerPlace(values, p) \in 1 .. Len(values) /\ UpperPlace(values, q) \in 1 .. Len(values)
    BY <2>1 DEF Placed
  <2>3. QED
    BY <1>2, <2>2
<1>9. low \in Int /\ high \in Int /\ RatioScale \in Nat
  BY <1>8, RatioScaleType DEF Within
<1>10. PICK t \in Pairs : RatioScale * Difference(t) <= low
  BY <1>8 DEF Within
<1>11. PICK u \in Pairs : high <= RatioScale * Difference(u)
  BY <1>8 DEF Within
<1>12. Difference(t) \in -1 .. 1 /\ Difference(u) \in -1 .. 1
  BY DifferenceType
<1>13. Percentile(values, p) >= 1000 * RatioScale * Difference(t)
  BY <1>6, <1>9, <1>10, <1>12, Thousands
<1>14. Percentile(values, q) <= 1000 * RatioScale * Difference(u)
  BY <1>7, <1>9, <1>11, <1>12, Thousands
<1>15. QED
  BY <1>3, <1>5, <1>13, <1>14 DEF InRange

-----------------------------------------------------------------------------
(* A report that is made                                                     *)

Agreed(r) ==
    /\ \A w \in Weightings : r.success[w].estimate = r.methods[Candidate][w] - r.methods[Baseline][w]
    /\ AddsUp(r.leaveOut, r.success["micro"].estimate)
    /\ \A w \in Weightings : InRange(r.success[w])

TheReport ==
    [made |-> TRUE,
     methods |-> [m \in Summarized |-> Summary(m)],
     success |-> [w \in Weightings |-> Interval(w)],
     leaveOut |-> [l \in Drawn |-> LeaveOut(l)]]

(* The methods compared are among those summarized,                          *)
LEMMA ComparedAreSummarized ==
    ASSUME records \in Records, Comparable, NEW m \in Compared
    PROVE  m \in Summarized
<1>1. PICK t \in Pairs : TRUE
  BY DEF Comparable
<1>2. m \in Methods /\ t \in Tasks /\ Usable(m, t) # {}
  BY ComparedMethods DEF Pairs
<1>3. records[m][t] # <<>>
  <2>1. SUFFICES ASSUME records[m][t] = <<>> PROVE FALSE
    OBVIOUS
  <2>2. DOMAIN records[m][t] = {}
    BY <2>1
  <2>3. QED
    BY <1>2, <2>2 DEF Usable
<1>4. QED
  BY <1>2, <1>3 DEF Summarized

(* and a report that is made of the draws agrees with itself.                *)
LEMMA TheReportAgrees ==
    ASSUME records \in Records, Comparable, DrawsAre(draws), Len(draws["micro"]) = Resamples,
           Cardinality(Drawn) >= 2
    PROVE  Agreed(TheReport)
<1> DEFINE r == TheReport
<1>1. \A w \in Weightings : r.success[w] = Interval(w) /\ r.success[w].estimate = Observed(w)
  BY DEF TheReport, Interval
<1>2. \A m \in Compared : r.methods[m] = Summary(m)
  BY ComparedAreSummarized DEF TheReport
<1>3. r.leaveOut = LeavingOut
  BY DEF TheReport, LeavingOut
<1>4. "micro" \in Weightings
  BY DEF Weightings
<1> HIDE DEF r
<1>5. \A w \in Weightings : r.success[w].estimate = r.methods[Candidate][w] - r.methods[Baseline][w]
  <2>1. r.methods[Candidate] = Summary(Candidate) /\ r.methods[Baseline] = Summary(Baseline)
    BY <1>2, ComparedMethods
  <2>2. \A w \in Weightings : Observed(w) = Summary(Candidate)[w] - Summary(Baseline)[w]
    BY ComparisonHolds DEF Comparison
  <2>3. QED
    BY <1>1, <2>1, <2>2
<1>6. AddsUp(r.leaveOut, r.success["micro"].estimate)
  BY <1>1, <1>3, <1>4, LeaveOneOutHolds
<1>7. \A w \in Weightings : InRange(r.success[w])
  BY <1>1, IntervalHolds
<1>8. QED
  BY <1>5, <1>6, <1>7 DEF Agreed, r

-----------------------------------------------------------------------------
(* The invariant of a comparison                                             *)

EvaluationInv ==
    /\ records \in Records
    /\ comparing \in {"read", "drawing", "reported", "refused"}
    /\ comparing \in {"drawing", "reported"} => Comparable
    /\ DrawsAre(draws) /\ (comparing = "read" => draws = [w \in Weightings |-> <<>>])
    /\ report.made <=> comparing = "reported"
    /\ report.made => Agreed(report)

(* What is told of the records is the same as long as they are.              *)
LEMMA SameRecords ==
    ASSUME UNCHANGED records
    PROVE  /\ Pairs' = Pairs /\ Drawn' = Drawn /\ (Comparable' <=> Comparable)
           /\ \A t : Difference(t)' = Difference(t)
           /\ \A l : InLineage(Pairs, l)' = InLineage(Pairs, l)
<1>1. ASSUME NEW m, NEW t PROVE Usable(m, t)' = Usable(m, t) /\ Passed(m, t)' = Passed(m, t)
  BY DEF Usable, Passed
<1>2. Pairs' = Pairs
  BY <1>1 DEF Pairs
<1>3. Drawn' = Drawn
  BY <1>2 DEF Drawn
<1>4. ASSUME NEW t PROVE Difference(t)' = Difference(t)
  BY <1>1 DEF Difference
<1>5. ASSUME NEW l PROVE InLineage(Pairs, l)' = InLineage(Pairs, l)
  BY <1>2 DEF InLineage
<1>6. (Duplicated' <=> Duplicated) /\ (Unpaired' <=> Unpaired)
  BY <1>1 DEF Duplicated, Unpaired
<1>7. Comparable' <=> Comparable
  BY <1>2, <1>6 DEF Comparable
<1>8. QED
  BY <1>2, <1>3, <1>4, <1>5, <1>7

(* So is whether a draw, an interval and the estimates left are right.       *)
LEMMA SameJudgement ==
    ASSUME UNCHANGED records
    PROVE  /\ \A v : Within(v)' <=> Within(v)
           /\ \A i : InRange(i)' <=> InRange(i)
           /\ \A left, e : AddsUp(left, e)' <=> AddsUp(left, e)
<1>1. /\ Pairs' = Pairs /\ Drawn' = Drawn
      /\ \A t : Difference(t)' = Difference(t)
      /\ \A l : InLineage(Pairs, l)' = InLineage(Pairs, l)
  BY SameRecords
<1>2. ASSUME NEW v PROVE Within(v)' <=> Within(v)
  BY <1>1 DEF Within
<1>3. ASSUME NEW i PROVE InRange(i)' <=> InRange(i)
  BY <1>1 DEF InRange
<1>4. ASSUME NEW left, NEW e PROVE AddsUp(left, e)' <=> AddsUp(left, e)
  BY <1>1 DEF AddsUp
<1>5. QED
  BY <1>2, <1>3, <1>4

(* The invariant holds at the start,                                         *)
LEMMA EvaluationInvInit == EvaluationInit => EvaluationInv
<1> SUFFICES ASSUME EvaluationInit PROVE EvaluationInv
  OBVIOUS
<1> USE DEF EvaluationInit
<1>1. records \in Records
  BY EvaluationAssumption DEF EvaluationAssumption, Records
<1>2. DrawsAre(draws)
  <2>1. draws \in [Weightings -> Seq(Int)] /\ \A w \in Weightings : draws[w] = <<>>
    OBVIOUS
  <2>2. Ordered(<<>>) /\ Len(<<>>) = 0
    BY DEF Ordered
  <2>3. \A w \in Weightings : Ordered(draws[w]) /\ \A i \in 1 .. Len(draws[w]) : Within(draws[w][i])
    BY <2>1, <2>2
  <2>4. QED
    BY <2>1, <2>3 DEF DrawsAre, Weightings
<1>3. ~report.made
  BY DEF NoComparison
<1>4. QED
  BY <1>1, <1>2, <1>3 DEF EvaluationInv

(* every step keeps it,                                                      *)
LEMMA EvaluationInvStep == EvaluationInv /\ [EvaluationNext]_evaluationVars => EvaluationInv'
<1> SUFFICES ASSUME EvaluationInv, [EvaluationNext]_evaluationVars PROVE EvaluationInv'
  OBVIOUS
<1>1. UNCHANGED records
  BY DEF EvaluationNext, Pair, Draw, Report, evaluationVars
<1>2. /\ (Comparable' <=> Comparable) /\ \A v : Within(v)' <=> Within(v)
      /\ \A i : InRange(i)' <=> InRange(i)
      /\ \A left, e : AddsUp(left, e)' <=> AddsUp(left, e)
  BY <1>1, SameRecords, SameJudgement
<1>3. records' \in Records
  BY <1>1 DEF EvaluationInv, Records
<1>4. \A d : DrawsAre(d)' <=> DrawsAre(d)
  <2>1. ASSUME NEW d PROVE DrawsAre(d)' <=> DrawsAre(d)
    BY <1>2 DEF DrawsAre, Ordered
  <2>2. QED
    BY <2>1
<1>5. \A r : Agreed(r)' <=> Agreed(r)
  <2>1. ASSUME NEW r PROVE Agreed(r)' <=> Agreed(r)
    BY <1>2 DEF Agreed
  <2>2. QED
    BY <2>1
<1>6. UNCHANGED <<draws, comparing, report>> => EvaluationInv'
  BY <1>2, <1>3, <1>4, <1>5 DEF EvaluationInv
<1>7. CASE Pair
  <2>1. comparing = "read" /\ comparing' \in {"refused", "drawing"}
    BY <1>7 DEF Pair
  <2>2. comparing' \in {"drawing", "reported"} => Comparable
    BY <1>7 DEF Pair, Comparable
  <2>3. UNCHANGED <<draws, report>> /\ DrawsAre(draws) /\ ~report.made
    BY <1>7, <2>1 DEF Pair, EvaluationInv
  <2>4. QED
    BY <1>2, <1>3, <1>4, <2>1, <2>2, <2>3 DEF EvaluationInv
<1>8. CASE Draw
  <2>1. /\ comparing = "drawing" /\ comparing' = comparing /\ report' = report
        /\ records \in Records /\ Comparable /\ DrawsAre(draws) /\ ~report.made
    BY <1>8 DEF Draw, EvaluationInv
  <2>2. PICK filled \in [Drawn -> UNION {Fillings(l) : l \in Drawn}] :
          draws' = [micro |-> Insert(draws["micro"], DrawnMicro(filled)),
                    macro |-> Insert(draws["macro"], DrawnMacro(filled))]
    BY <1>8 DEF Draw
  <2>3. Within(DrawnMicro(filled)) /\ Within(DrawnMacro(filled))
    BY <2>1, DrawnIsWithin
  <2>4. DrawsAre(draws')
    BY <2>1, <2>2, <2>3, DrawsAreKept
  <2>5. QED
    BY <1>2, <1>3, <1>4, <2>1, <2>4 DEF EvaluationInv
<1>9. CASE Report
  <2>1. /\ comparing = "drawing" /\ draws' = draws /\ Len(draws["micro"]) = Resamples
        /\ records \in Records /\ Comparable /\ DrawsAre(draws) /\ ~report.made
    BY <1>9 DEF Report, EvaluationInv
  <2>2. CASE Cardinality(Drawn) < 2 \/ \E m \in Summarized : UsableOf(m, Tasks) = 0
    <3>1. comparing' = "refused" /\ report' = report
      BY <1>9, <2>2 DEF Report
    <3>2. QED
      BY <1>3, <1>4, <2>1, <3>1 DEF EvaluationInv
  <2>3. CASE ~(Cardinality(Drawn) < 2 \/ \E m \in Summarized : UsableOf(m, Tasks) = 0)
    <3>1. comparing' = "reported" /\ report' = TheReport
      BY <1>9, <2>3 DEF Report, TheReport
    <3>2. Cardinality(Drawn) >= 2
      <4>1. Cardinality(Drawn) \in Nat
        BY <2>1, PairsAndLineages
      <4>2. QED
        BY <2>3, <4>1
    <3>3. Agreed(TheReport) /\ TheReport.made
      BY <2>1, <3>2, TheReportAgrees DEF TheReport
    <3>4. Agreed(report')
      BY <3>1, <3>3
    <3>5. report'.made
      BY <3>1, <3>3
    <3>6. QED
      BY <1>2, <1>3, <1>4, <1>5, <2>1, <3>1, <3>4, <3>5 DEF EvaluationInv
  <2>4. QED
    BY <2>2, <2>3
<1>10. QED
  BY <1>6, <1>7, <1>8, <1>9 DEF EvaluationNext, evaluationVars

(* and so it always holds.                                                   *)
LEMMA EvaluationInvAlways == EvaluationSpec => []EvaluationInv
<1>1. EvaluationInit => EvaluationInv
  BY EvaluationInvInit
<1>2. EvaluationInv /\ [EvaluationNext]_evaluationVars => EvaluationInv'
  BY EvaluationInvStep
<1>3. QED
  BY <1>1, <1>2, PTL DEF EvaluationSpec

(* The variables of a comparison keep their types, and the draws stay sorted *)
(* (paired_bootstrap).                                                       *)
THEOREM EvaluationTypeCorrect == EvaluationSpec => []EvaluationTypeOK
<1>1. EvaluationInv => EvaluationTypeOK
  <2> SUFFICES ASSUME EvaluationInv PROVE EvaluationTypeOK
    OBVIOUS
  <2>1. /\ DOMAIN records = Methods /\ comparing \in {"read", "drawing", "reported", "refused"}
        /\ report.made <=> comparing = "reported"
    BY DEF EvaluationInv, Records
  <2>2. ASSUME NEW w \in Weightings, NEW i \in DOMAIN draws[w], NEW j \in DOMAIN draws[w]
        PROVE  draws[w][i] \in -RatioScale .. RatioScale /\ (i <= j => draws[w][i] <= draws[w][j])
    <3>1. draws[w] \in Seq(Int) /\ Ordered(draws[w]) /\ \A k \in 1 .. Len(draws[w]) : Within(draws[w][k])
      BY DEF EvaluationInv, DrawsAre
    <3>2. DOMAIN draws[w] = 1 .. Len(draws[w])
      BY <3>1
    <3>3. QED
      BY <3>1, <3>2 DEF Ordered, Within
  <2>3. QED
    BY <2>1, <2>2 DEF EvaluationTypeOK
<1>2. QED
  BY <1>1, EvaluationInvAlways, PTL

(* Whatever the records hold, errors of the infrastructure, repeated and     *)
(* missing ones included, a report agrees with itself: the comparison with   *)
(* the summaries (summarize_method), the leave-one-out estimates with the    *)
(* whole (leave_one_lineage_out), and each interval with the range of the    *)
(* differences (_percentile).                                                *)
THEOREM ReportsAlwaysAgree == EvaluationSpec => []ReportsAgree
<1>1. EvaluationInv => ReportsAgree
  <2> SUFFICES ASSUME EvaluationInv, report.made PROVE ReportsAgree
    BY DEF ReportsAgree, ComparisonIsOfTheSummaries, LeaveOneOutAddsUp, IntervalsAreInRange
  <2>1. Agreed(report)
    BY DEF EvaluationInv
  <2>2. ComparisonIsOfTheSummaries
    BY <2>1 DEF Agreed, ComparisonIsOfTheSummaries
  <2>3. LeaveOneOutAddsUp
    BY <2>1 DEF Agreed, AddsUp, LeaveOneOutAddsUp
  <2>4. IntervalsAreInRange
    BY <2>1 DEF Agreed, InRange, IntervalsAreInRange
  <2>5. QED
    BY <2>2, <2>3, <2>4 DEF ReportsAgree
<1>2. QED
  BY <1>1, EvaluationInvAlways, PTL

-----------------------------------------------------------------------------
(* The composition                                                           *)

(* The composition that is model-checked lets each component take its own    *)
(* steps from its own initial states, and no others.                         *)
THEOREM LearningIsItsComponents ==
    LearningSpec => Spec /\ ConversationSpec /\ SFTSpec /\ EvaluationSpec /\ StoreSpec
<1>1. LearningInit => Init /\ ConversationInit /\ SFTInit /\ EvaluationInit /\ StoreInit
  BY DEF LearningInit, ScoringRests, ConversationRests, SFTRests, EvaluationRests
<1>2. [LearningNext]_<<part, learningVars>> =>
        /\ [Next]_vars /\ [ConversationNext]_conversationVars /\ [SFTNext]_sftVars
        /\ [EvaluationNext]_evaluationVars /\ [StoreNext]_storeVars
  BY DEF LearningNext, learningVars
<1>3. QED
  BY <1>1, <1>2, PTL DEF LearningSpec, Spec, ConversationSpec, SFTSpec, EvaluationSpec, StoreSpec

(* The variables of every component keep their types in the composition.     *)
THEOREM LearningTypesCorrect == LearningSpec => []TypesOK
<1>1. LearningSpec => Spec /\ ConversationSpec /\ SFTSpec /\ EvaluationSpec /\ StoreSpec
  BY LearningIsItsComponents
<1>2. TypeOK /\ ConversationTypeOK /\ SFTTypeOK /\ EvaluationTypeOK /\ StoreTypeOK => TypesOK
  BY DEF TypesOK
<1>3. QED
  BY <1>1, <1>2, ScoringTypeCorrect, ConversationTypeCorrect, SFTTypeCorrect,
     EvaluationTypeCorrect, StoreTypeCorrect, PTL
=============================================================================
