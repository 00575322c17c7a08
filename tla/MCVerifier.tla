------------------------------ MODULE MCVerifier ------------------------------
(* The two suites of every rollout task, in the order the sealed manifest    *)
(* sorts them (tasks/manifest.py:166-173, rollouts/config.py:86-88).         *)
EXTENDS Verifier

MCSuiteNames == <<"regression", "target">>
=============================================================================
