--------------------------- MODULE VerifierContract ---------------------------
(***************************************************************************)
(* What Verifier.verify (verifier/pipeline.py) promises to its caller, the *)
(* rollout collector: one final verdict, which is a pass only when every   *)
(* suite ran and passed on sound infrastructure, and blames the agent only *)
(* while no infrastructure operation has failed.                           *)
(***************************************************************************)
EXTENDS Naturals, Sequences

CONSTANT SuiteCount   \* number of suites in the manifest

VARIABLES
    tally,    \* for every suite that ran: did it pass
    healthy,  \* no infrastructure operation has failed
    verdict   \* the final answer

contractVars == <<tally, healthy, verdict>>

Verdicts == {"pending", "passed", "agent_failure", "infrastructure_error",
             "exception"}

ContractInit ==
    /\ tally = <<>>
    /\ healthy = TRUE
    /\ verdict = "pending"

SuiteRuns ==
    /\ verdict = "pending"
    /\ Len(tally) < SuiteCount
    /\ \E passed \in BOOLEAN : tally' = Append(tally, passed)
    /\ UNCHANGED <<healthy, verdict>>

InfrastructureBreaks ==
    /\ verdict = "pending"
    /\ healthy' = FALSE
    /\ UNCHANGED <<tally, verdict>>

AllRan == Len(tally) = SuiteCount
AllPassed == \A i \in DOMAIN tally : tally[i]

Answer ==
    /\ verdict = "pending"
    /\ \/ verdict' = "passed" /\ healthy /\ AllRan /\ AllPassed
       \/ /\ verdict' = "agent_failure" /\ healthy
          /\ (tally = <<>> \/ (AllRan /\ ~AllPassed))
       \/ verdict' \in {"infrastructure_error", "exception"}
    /\ UNCHANGED <<tally, healthy>>

ContractNext == SuiteRuns \/ InfrastructureBreaks \/ Answer

ContractSpec == ContractInit /\ [][ContractNext]_contractVars
=============================================================================
