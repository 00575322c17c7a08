-------------------------------- MODULE Reward --------------------------------
(***************************************************************************)
(* The terminal reward of one verified rollout: RewardConfig and           *)
(* compute_terminal_reward of rewards/terminal.py.                         *)
(*                                                                         *)
(* The code computes with floats in [0, 1]; here a fraction is a number of *)
(* parts of 1/Scale and a reward a number of parts of 1/(2 * Scale), so    *)
(* that every sum is exact.  Rounding is not modelled.                     *)
(***************************************************************************)
EXTENDS Integers

CONSTANT Scale   \* parts a fraction is counted in

ASSUME ScaleAssumption == Scale \in Nat \ {0}

Fractions == 0 .. Scale

RewardConfigs ==
    [success_bonus : Nat \ {0}, target_progress : Nat, regression : Nat,
     valid_patch : Nat, cost : Nat, invalid_action : Nat, budget_exhausted : Nat]

(* The validator of RewardConfig. *)
SuccessDominates_NoPenalties(w) ==
    w.success_bonus > w.target_progress + w.regression + w.valid_patch
SuccessDominates(w) ==
    LET maximum_failure == w.target_progress + w.regression + w.valid_patch
        success_floor == w.success_bonus - (w.target_progress + w.cost
                                            + w.invalid_action + w.budget_exhausted)
    IN  success_floor > maximum_failure

RewardSignals ==
    [target : Fractions, progress : -Scale .. Scale, regression : Fractions,
     valid_patch : BOOLEAN, policy_violation : BOOLEAN, invalid_actions : Fractions,
     steps : Fractions, tokens : Fractions, budget_exhausted : BOOLEAN,
     infrastructure_error : BOOLEAN]

Success(s) ==
    /\ s.target = Scale /\ s.regression = Scale
    /\ s.valid_patch /\ ~s.policy_violation

(* Half of the steps and half of the tokens, at most 1. *)
NormalizedCost(s) ==
    IF s.steps + s.tokens > 2 * Scale THEN 2 * Scale ELSE s.steps + s.tokens

Unit(weight) == 2 * Scale * weight
When(condition, amount) == IF condition THEN amount ELSE 0

Total(s, w) ==
    When(Success(s), Unit(w.success_bonus))
    + 2 * w.target_progress * s.progress
    + 2 * w.regression * s.regression
    + When(s.valid_patch, Unit(w.valid_patch))
    - When(s.policy_violation, Unit(w.success_bonus))
    - 2 * w.invalid_action * s.invalid_actions
    - w.cost * NormalizedCost(s)
    - When(s.budget_exhausted, Unit(w.budget_exhausted))

(* compute_terminal_reward. *)
Reward(s, w) ==
    [eligible |-> ~s.infrastructure_error,
     success |-> ~s.infrastructure_error /\ Success(s),
     total |-> IF s.infrastructure_error THEN 0 ELSE Total(s, w)]
=============================================================================
