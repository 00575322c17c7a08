------------------------------ MODULE Evaluation ------------------------------
(* The comparison of two methods from their evaluation records               *)
(* (evaluation/metrics.py, bootstrap.py, report.py): pairing, the summary of *)
(* each method, the two-level bootstrap and the leave-one-lineage-out        *)
(* estimates. A record is its outcome, and success the metric compared.      *)
(*                                                                           *)
(* Ratios are integers, in units of 1/RatioScale: rates and estimates are    *)
(* exact, and a draw of more pairs than there are is rounded down.           *)
(* Probabilities are in thousandths.                                         *)
EXTENDS Integers, FiniteSets, Sequences, SequencesExt, Functions

CONSTANTS
    Tasks, Lineages,
    LineageOf,            \* of each task
    Methods, Baseline, Candidate,
    RecordFiles,          \* each method's records of each task
    Resamples, Alpha,     \* of the bootstrap: draws, and the share below an interval
    RatioScale

RecordOutcomes == {"passed", "failed", "infrastructure"}

ASSUME EvaluationAssumption ==
    /\ IsFiniteSet(Tasks) /\ IsFiniteSet(Lineages) /\ LineageOf \in [Tasks -> Lineages]
    /\ {Baseline, Candidate} \subseteq Methods /\ Baseline # Candidate
    /\ RecordFiles \subseteq [Methods -> [Tasks -> Seq(RecordOutcomes)]]
    /\ Resamples \in Nat \ {0} /\ Alpha \in 1 .. 499

(* A rate is over tasks, or a mean over lineages of such rates.              *)
ASSUME RatioAssumption ==
    /\ RatioScale \in Nat \ {0}
    /\ \A tasks \in 1 .. Cardinality(Tasks), lineages \in 1 .. Cardinality(Lineages) :
         RatioScale % (tasks * lineages) = 0

VARIABLES
    records, \* the combined file
    comparing,
    draws,   \* for each weighting of the lineages, the estimates drawn so far
    report

evaluationVars == <<records, comparing, draws, report>>

Weightings == {"micro", "macro"}

NoComparison == [made |-> FALSE]

EvaluationInit ==
    /\ records \in RecordFiles /\ comparing = "read"
    /\ draws = [w \in Weightings |-> <<>>] /\ report = NoComparison

Ratio(n, d) == (n * RatioScale) \div d

SumOver(S, f) == SumFunctionOnSet(f, S)

-----------------------------------------------------------------------------
(* The records of a method                                                   *)

Usable(m, t) == {i \in DOMAIN records[m][t] : records[m][t][i] # "infrastructure"}

Passed(m, t) == Cardinality({i \in DOMAIN records[m][t] : records[m][t][i] = "passed"})

UsableOf(m, S) == SumOver(S, [t \in S |-> Cardinality(Usable(m, t))])
PassedOf(m, S) == SumOver(S, [t \in S |-> Passed(m, t)])

InLineage(S, l) == {t \in S : LineageOf[t] = l}

(* summarize_method                                                          *)
Summary(m) ==
    LET seen == {l \in Lineages : UsableOf(m, InLineage(Tasks, l)) > 0}
        rate == [l \in seen |-> Ratio(PassedOf(m, InLineage(Tasks, l)),
                                     UsableOf(m, InLineage(Tasks, l)))]
    IN  [attempted |-> SumOver(Tasks, [t \in Tasks |-> Len(records[m][t])]),
         usable    |-> UsableOf(m, Tasks),
         micro     |-> Ratio(PassedOf(m, Tasks), UsableOf(m, Tasks)),
         macro     |-> SumOver(seen, rate) \div Cardinality(seen)]

Summarized == {m \in Methods : \E t \in Tasks : records[m][t] # <<>>}

-----------------------------------------------------------------------------
(* The pairs                                                                 *)

Compared == {Baseline, Candidate}

Duplicated == \E m \in Compared, t \in Tasks : Cardinality(Usable(m, t)) > 1

Unpaired == \E t \in Tasks : Usable(Baseline, t) = {} <=> Usable(Candidate, t) # {}

Pairs == {t \in Tasks : \A m \in Compared : Usable(m, t) # {}}

Drawn == {LineageOf[t] : t \in Pairs}

Difference(t) == Passed(Candidate, t) - Passed(Baseline, t)

Gain(S) == SumOver(S, [t \in S |-> Difference(t)])

(* _paired_difference                                                        *)
Estimate(S) == Ratio(Gain(S), Cardinality(S))

(* paired_records                                                            *)
Pair ==
    /\ comparing = "read"
    /\ comparing' = IF Duplicated \/ Unpaired \/ Pairs = {} THEN "refused" ELSE "drawing"
    /\ UNCHANGED <<records, draws, report>>

-----------------------------------------------------------------------------
(* The bootstrap                                                             *)

(* A draw fills each lineage's place with some lineage, and each of its      *)
(* tasks' places with some task of that one: what it gains, over how many.   *)
Fillings(l) ==
    LET tasks == InLineage(Pairs, l)
        places == 1 .. Cardinality(tasks)
    IN  {[gain |-> SumOver(places, [i \in places |-> Difference(chosen[i])]),
          size |-> Cardinality(places)] : chosen \in [places -> tasks]}

(* The draws are kept sorted.                                                *)
Rank(values, value) == Cardinality({i \in DOMAIN values : values[i] <= value})

Insert(values, value) == InsertAt(values, Rank(values, value) + 1, value)

DrawnMicro(filled) ==
    Ratio(SumOver(Drawn, [l \in Drawn |-> filled[l].gain]),
          SumOver(Drawn, [l \in Drawn |-> filled[l].size]))

DrawnMacro(filled) ==
    SumOver(Drawn, [l \in Drawn |-> Ratio(filled[l].gain, filled[l].size)]) \div Cardinality(Drawn)

(* Both weightings draw from the same seed, so the same places.              *)
Draw ==
    /\ comparing = "drawing" /\ Len(draws["micro"]) < Resamples
    /\ LET fillings == UNION {Fillings(l) : l \in Drawn} IN
       \E filled \in [Drawn -> fillings] :
         draws' = [micro |-> Insert(draws["micro"], DrawnMicro(filled)),
                   macro |-> Insert(draws["macro"], DrawnMacro(filled))]
    /\ UNCHANGED <<records, comparing, report>>

(* _percentile, in units of 1/(1000 * RatioScale)                            *)
Percentile(values, probability) ==
    LET position == probability * (Len(values) - 1)
        lower == position \div 1000
        weight == position % 1000
        upper == IF weight = 0 THEN lower ELSE lower + 1
    IN  values[lower + 1] * (1000 - weight) + values[upper + 1] * weight

(* _grouped_difference                                                       *)
Observed(weighting) ==
    IF weighting = "micro" THEN Estimate(Pairs)
    ELSE SumOver(Drawn, [l \in Drawn |-> Estimate(InLineage(Pairs, l))]) \div Cardinality(Drawn)

Interval(weighting) ==
    [estimate |-> Observed(weighting),
     lower    |-> Percentile(draws[weighting], Alpha),
     upper    |-> Percentile(draws[weighting], 1000 - Alpha)]

(* leave_one_lineage_out                                                     *)
LeaveOut_Only(l) == Estimate(InLineage(Pairs, l))

LeaveOut(l) == Estimate(Pairs \ InLineage(Pairs, l))

(* build_report                                                              *)
Report ==
    /\ comparing = "drawing" /\ Len(draws["micro"]) = Resamples
    /\ IF Cardinality(Drawn) < 2 \/ \E m \in Summarized : UsableOf(m, Tasks) = 0
       THEN comparing' = "refused" /\ UNCHANGED report
       ELSE /\ comparing' = "reported"
            /\ report' = [made |-> TRUE,
                          methods |-> [m \in Summarized |-> Summary(m)],
                          success |-> [w \in Weightings |-> Interval(w)],
                          leaveOut |-> [l \in Drawn |-> LeaveOut(l)]]
    /\ UNCHANGED <<records, draws>>

EvaluationNext == Pair \/ Draw \/ Report

EvaluationSpec == EvaluationInit /\ [][EvaluationNext]_evaluationVars

-----------------------------------------------------------------------------
(* Properties                                                                *)

(* The values of the variables; the draws are sorted.                        *)
EvaluationTypeOK ==
    /\ DOMAIN records = Methods /\ comparing \in {"read", "drawing", "reported", "refused"}
    /\ report.made <=> comparing = "reported"
    /\ \A w \in Weightings : \A i, j \in DOMAIN draws[w] :
         draws[w][i] \in -RatioScale .. RatioScale /\ (i <= j => draws[w][i] <= draws[w][j])

(* The comparison and the summaries of a report are of the same records: an  *)
(* estimate is the difference of the two methods' rates, by tasks and by     *)
(* lineages, whatever infrastructure errors, repeated or missing records the *)
(* file holds.                                                               *)
ComparisonIsOfTheSummaries ==
    report.made => \A w \in Weightings :
        report.success[w].estimate =
            report.methods[Candidate][w] - report.methods[Baseline][w]

(* The leave-one-out estimates, each weighted by the pairs it keeps, add up  *)
(* to the estimate: when all are favourable, it is.                          *)
LeaveOneOutAddsUp ==
    report.made =>
        SumOver(Drawn, [l \in Drawn |->
              report.leaveOut[l] * Cardinality(Pairs \ InLineage(Pairs, l))])
        = (Cardinality(Drawn) - 1) * Cardinality(Pairs) * report.success["micro"].estimate

(* An interval is one, and lies within the differences of the pairs: it      *)
(* cannot favour a method that gains on no task.                             *)
IntervalsAreInRange ==
    report.made => \A w \in Weightings : LET interval == report.success[w] IN
        /\ interval.lower <= interval.upper
        /\ \E t \in Pairs : interval.lower >= 1000 * RatioScale * Difference(t)
        /\ \E t \in Pairs : interval.upper <= 1000 * RatioScale * Difference(t)

(* The parts of one report agree with each other: the comparison with the    *)
(* two summaries, what remains without a lineage with the whole, and each    *)
(* interval with the range of what it estimates.                             *)
ReportsAgree ==
    /\ ComparisonIsOfTheSummaries
    /\ LeaveOneOutAddsUp
    /\ IntervalsAreInRange

(* Said of the program: "Report ... infrastructure errors"                   *)
(* (docs/CLOUD_RUNBOOK.md:657): when both methods were evaluated on every    *)
(* task, and both usably in two lineages, a report is made.                  *)
ReportsAreMade ==
    /\ \A m \in Compared, t \in Tasks : Len(records[m][t]) = 1
    /\ Cardinality(Drawn) >= 2
    /\ \A m \in Summarized : UsableOf(m, Tasks) > 0
    => comparing # "refused"
=============================================================================
