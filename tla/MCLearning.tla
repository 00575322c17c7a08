------------------------------ MODULE MCLearning ------------------------------
(* What becomes of rollouts, in small instances: how they are stored and     *)
(* scored, how a conversation becomes a training record, how records are     *)
(* gathered and trained on, and how methods are compared. These components   *)
(* share no state, they hand over files: each is explored while the others   *)
(* rest in one of their initial states.                                      *)
EXTENDS Scoring, Conversation, SFT, Evaluation, Store, TLC

-----------------------------------------------------------------------------
(* Weights just above, at and below what the validator accepts, with all,    *)
(* some and none of the smaller weights in use.                              *)
MCWeights(t, r, v, c, i, b) ==
    {[success_bonus |-> s, target_progress |-> t, regression |-> r, valid_patch |-> v,
      cost |-> c, invalid_action |-> i, budget_exhausted |-> b] : s \in {1, 4, 7, 8}}

MCNoWeights == MCWeights(0, 0, 0, 0, 0, 0)

MCConfigChoices ==
    MCWeights(1, 1, 1, 1, 1, 1) \cup MCWeights(0, 1, 1, 0, 0, 1)
    \cup MCWeights(0, 0, 0, 1, 1, 1) \cup MCNoWeights

MCCostFractions == {0, 2}

ScoringRests == weights = (CHOOSE w \in MCNoWeights : SuccessDominates(w)) /\ baseline = 0 /\ Init

(* Conversations in units of 64 bytes: the smallest bound the configuration  *)
(* allows, 2,048 bytes, the floors of 512 and 256 bytes, the system prompt.  *)
ConversationRests == issue = 4 /\ ConversationInit

(* Trajectories of either split: passing, or passing with one defect, or not. *)
MCKind(split, verdict, defect) ==
    [split |-> split, verdict |-> verdict, invalid |-> defect = "invalid",
     separator |-> defect = "separator", long |-> defect = "long"]

MCKinds ==
    {MCKind("train", "passed", d) : d \in {"none", "invalid", "separator", "long"}}
    \cup {MCKind("train", v, "none") : v \in {"none", "passed_other_patch"}}
    \cup {MCKind("validation", "passed", d) : d \in {"none", "long"}}

SFTRests == kind = [r \in Rollouts |-> MCKind("train", "none", "none")] /\ stored = {} /\ SFTInit

(* Two tasks of one lineage and one of another. A third method in the file   *)
(* may have met nothing but infrastructure errors.                           *)
MCLineageOf == [t \in {1, 2, 3} |-> IF t < 3 THEN "a" ELSE "b"]

MCOutcomes == {<<>>, <<"passed">>, <<"failed">>, <<"infrastructure">>, <<"passed", "failed">>}

MCRecordFiles ==
    {[base |-> base, rl |-> rl, sft |-> [t \in 1 .. 3 |-> other]] :
        base \in [1 .. 3 -> MCOutcomes], rl \in [1 .. 3 -> MCOutcomes],
        other \in {<<"failed">>, <<"infrastructure">>}}

MCNoRecords == [base |-> <<<<>>, <<>>, <<>>>>, rl |-> <<<<>>, <<>>, <<>>>>,
                sft |-> <<<<"failed">>, <<"failed">>, <<"failed">>>>]

EvaluationRests == records = MCNoRecords /\ EvaluationInit

(* Rollouts, the writers of the store and the contents they write are alike. *)
Alike == Permutations(Rollouts) \cup Permutations(Writers) \cup Permutations(Payloads)

-----------------------------------------------------------------------------
VARIABLE part  \* the component that moves

LearningInit ==
    \/ part = "scoring" /\ ConversationRests /\ SFTRests /\ EvaluationRests /\ StoreInit /\ Init
    \/ part = "conversation" /\ ScoringRests /\ SFTRests /\ EvaluationRests /\ StoreInit /\ ConversationInit
    \/ part = "sft" /\ ScoringRests /\ ConversationRests /\ EvaluationRests /\ StoreInit /\ SFTInit
    \/ part = "evaluation" /\ ScoringRests /\ ConversationRests /\ SFTRests /\ StoreInit /\ EvaluationInit
    \/ part = "store" /\ ScoringRests /\ ConversationRests /\ SFTRests /\ EvaluationRests /\ StoreInit

learningVars == <<vars, conversationVars, sftVars, evaluationVars, storeVars>>

LearningNext ==
    /\ UNCHANGED part
    /\ \/ /\ part = "scoring" /\ Next
          /\ UNCHANGED <<conversationVars, sftVars, evaluationVars, storeVars>>
       \/ /\ part = "conversation" /\ ConversationNext
          /\ UNCHANGED <<vars, sftVars, evaluationVars, storeVars>>
       \/ /\ part = "sft" /\ SFTNext
          /\ UNCHANGED <<vars, conversationVars, evaluationVars, storeVars>>
       \/ /\ part = "evaluation" /\ EvaluationNext
          /\ UNCHANGED <<vars, conversationVars, sftVars, storeVars>>
       \/ /\ part = "store" /\ StoreNext
          /\ UNCHANGED <<vars, conversationVars, sftVars, evaluationVars>>

LearningSpec == LearningInit /\ [][LearningNext]_<<part, learningVars>>

(* The variables of every component keep their types.                        *)
TypesOK ==
    /\ TypeOK
    /\ ConversationTypeOK
    /\ SFTTypeOK
    /\ EvaluationTypeOK
    /\ StoreTypeOK
=============================================================================
