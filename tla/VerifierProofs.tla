---------------------------- MODULE VerifierProofs ----------------------------
(***************************************************************************)
(* The safety properties of Verifier, and that it keeps VerifierContract,  *)
(* hold for every list of suites.  The inductive invariant is built in     *)
(* layers: the control state with what a fault leads to (Control), the     *)
(* containers (Containers), the suite that runs and the outcomes recorded  *)
(* (SuiteState), and what each result rests on (Grounds).                  *)
(***************************************************************************)
EXTENDS Verifier, WellFoundedInduction, TLAPS

Validating == {"inspect", "create", "baseline", "entries", "apply", "paths"}
Running == {"prepare", "reapply", "stage", "execute", "pause", "read"}
Ending == {"close", "return", "done"}

(* An infrastructure failure that happened is in flight, or in the answer. *)
FaultShown ==
    \/ pc \in {"discard", "judge"} /\ error # NoError
    \/ pc \in Ending /\ (raised \/ result = "sandbox_infrastructure")

(* A result is decided exactly on the way out; an exception is in flight     *)
(* only out of a suite; one outcome per suite behind the current one.        *)
Control ==
    /\ pc \notin Ending => result = NoResult /\ ~raised
                           /\ Len(outcomes) = suite - 1
    /\ pc \in Ending => result # NoResult \/ raised
    /\ pc \notin {"discard", "judge"} \cup Ending => error = NoError
    /\ pc \in Validating => suite = 1
    /\ pc \in {"spawn", "discard", "judge"} \cup Running => suite <= SuiteCount
    /\ fault => FaultShown

(* Container 0 is gone before any suite has one, and a suite's is gone       *)
(* before the next one's; without a fault nothing is left at the end.        *)
Containers ==
    /\ pc \in {"inspect", "create"} => box[0].life = "absent" /\ ~validation
    /\ pc \in Validating \ {"inspect", "create"} =>
          box[0].life = "running" /\ validation
    /\ pc = "suites" => IF validation THEN box[0].life = "running"
                                      ELSE box[0].life = "removed"
    /\ pc \in {"spawn", "discard", "judge"} \cup Running =>
          box[0].life = "removed" /\ ~validation
    /\ pc = "close" /\ ~fault => IF validation THEN box[0].life = "running"
                                               ELSE box[0].life = "removed"
    /\ pc \in {"return", "done"} /\ ~fault => box[0].life \in {"absent", "removed"}
    /\ ~box[0].hidden
    /\ \A i \in Suites : box[i] # EmptyBox => box[0].life = "removed"
    /\ \A i \in Suites : i < suite => box[i].life = "removed"
    /\ \A i \in Suites : i > suite => box[i] = EmptyBox
    /\ pc \in Validating \cup {"suites", "spawn"} =>
          \A i \in Suites : i >= suite => box[i] = EmptyBox
    /\ pc \in Running \ {"read"} => box[suite].life = "running"
    /\ pc = "read" => box[suite].life = "paused"
    /\ pc = "discard" => box[suite].life \in {"running", "paused"}
    /\ pc = "judge" /\ error = NoError => box[suite].life = "removed"
    /\ pc \in {"judge"} \cup Ending /\ ~fault =>
          \A i \in Suites : box[i].life \in {"absent", "removed"}

(* How far the current suite has come, and what the outcomes record. *)
Judged(i) ==
    /\ outcomes[i].junit = box[i].evidence
    /\ outcomes[i].passed <=> outcomes[i].exit = 0 /\ outcomes[i].junit = "passing"
    /\ box[i].ran /\ box[i].patched /\ box[i].hidden = HiddenTests
    /\ box[i].life = "removed"

SuiteState ==
    /\ pc \in {"stage", "execute", "pause", "read"} => box[suite].patched
    /\ pc \in {"execute", "pause", "read"} => box[suite].hidden = HiddenTests
    /\ pc \in {"pause", "read"} => box[suite].ran
    /\ pc \in {"prepare", "reapply"} => ~box[suite].hidden
    /\ \A i \in Suites : box[i].hidden => box[i].patched
    /\ pc \in {"discard", "judge"} /\ error = NoError =>
          /\ box[suite].patched /\ box[suite].hidden = HiddenTests /\ box[suite].ran
          /\ junit = box[suite].evidence
    /\ pc = "discard" /\ error = NoError => box[suite].life = "paused"
    /\ \A i \in DOMAIN outcomes : Judged(i)

(* No outcome of a suite that exited with 0 was without usable evidence. *)
Accounted == \A i \in DOMAIN outcomes :
                 ~(outcomes[i].exit = 0 /\ outcomes[i].junit \in Unusable)

Grounds ==
    /\ pc \notin Ending => Accounted
    /\ result \in Rejections => outcomes = <<>> /\ \A i \in Suites : box[i] = EmptyBox
    /\ result = "passed" => Len(outcomes) = SuiteCount /\ Failed = {}
    /\ result \in TestFailures =>
          /\ Len(outcomes) = SuiteCount
          /\ Failed # {}
          /\ Accounted
          /\ result = Verdict

IInv == TypeOK /\ Control /\ Containers /\ SuiteState /\ Grounds

-----------------------------------------------------------------------------
(* Types and control *)

(* The manifest has at least one suite. *)
LEMMA SomeSuite == SuiteCount \in Nat \ {0} /\ Suites = 1 .. SuiteCount
<1>1. SuiteNames \in Seq(STRING) /\ SuiteNames # <<>>
  BY ManifestAssumption DEF ManifestAssumption
<1>2. QED
  BY <1>1 DEF SuiteCount, Suites

(* A verification starts typed and under control. *)
LEMMA InitControl == Init => TypeOK /\ Control
<1> SUFFICES ASSUME Init
             PROVE  TypeOK /\ Control
  OBVIOUS
<1> USE SomeSuite DEF Init
<1>1. EmptyBox \in Boxes
  BY DEF EmptyBox, Boxes, Lives, Present, Evidence
<1>2. box \in [0 .. SuiteCount -> Boxes]
  BY <1>1
<1>3. outcomes \in Seq(Outcomes) /\ Len(outcomes) = 0
  OBVIOUS
<1>4. TypeOK
  <2>1. validation \in BOOLEAN /\ raised \in BOOLEAN /\ fault \in BOOLEAN
    OBVIOUS
  <2>2. pc \in Locations /\ suite \in 1 .. SuiteCount + 1 /\ exit \in ExitCodes
        /\ junit \in Evidence /\ error \in Lengths \cup {NoError}
        /\ result \in Results
    BY DEF Locations, ExitCodes, Evidence, NoError, Results, NoResult
  <2>3. QED
    BY <1>2, <1>3, <2>1, <2>2 DEF TypeOK
<1>5. Control
  BY <1>3 DEF Control, Ending, Validating, Running, NoResult, NoError
<1>6. QED
  BY <1>4, <1>5

(* A change of one container's life leaves the rest of every container. *)
LEMMA LifeFacts ==
    ASSUME box \in [0 .. SuiteCount -> Boxes],
           NEW i \in 0 .. SuiteCount, NEW life \in Lives, SetLife(i, life)
    PROVE  /\ box' \in [0 .. SuiteCount -> Boxes]
           /\ box'[i].life = life
           /\ box'[i].patched = box[i].patched /\ box'[i].hidden = box[i].hidden
           /\ box'[i].ran = box[i].ran /\ box'[i].evidence = box[i].evidence
           /\ \A j \in 0 .. SuiteCount : j # i => box'[j] = box[j]
<1>1. box' = [box EXCEPT ![i].life = life]
  BY DEF SetLife
<1>2. QED
  BY <1>1 DEF Boxes
(* Staging the tests changes nothing but what is hidden in the suite's box. *)
LEMMA Staged ==
    ASSUME StageTests
    PROVE  \E uploaded \in BOOLEAN : box' = [box EXCEPT ![suite].hidden = uploaded]
<1>1. HiddenTests \in BOOLEAN
  BY ManifestAssumption DEF ManifestAssumption
<1>2. \/ box' = [box EXCEPT ![suite].hidden = HiddenTests]
      \/ \E uploaded \in {FALSE, HiddenTests} : box' = [box EXCEPT ![suite].hidden = uploaded]
  BY DEF StageTests
<1>3. CASE box' = [box EXCEPT ![suite].hidden = HiddenTests]
  BY <1>1, <1>3
<1>4. CASE \E uploaded \in {FALSE, HiddenTests} : box' = [box EXCEPT ![suite].hidden = uploaded]
  <2>1. PICK uploaded \in {FALSE, HiddenTests} : box' = [box EXCEPT ![suite].hidden = uploaded]
    BY <1>4
  <2>2. uploaded \in BOOLEAN
    BY <1>1
  <2>3. QED
    BY <2>1, <2>2
<1>5. QED
  BY <1>2, <1>3, <1>4

(* A box whose command ran, leaving some evidence, is a box. *)
LEMMA RanBox ==
    ASSUME NEW b \in Boxes, NEW evidence \in Evidence
    PROVE  [b EXCEPT !.ran = TRUE, !.evidence = evidence] \in Boxes
BY DEF Boxes

(* Every step leaves the containers in their ranges. *)
LEMMA BoxesStay == TypeOK /\ Control /\ [Next]_vars => box' \in [0 .. SuiteCount -> Boxes]
<1> SUFFICES ASSUME TypeOK, Control, [Next]_vars
             PROVE  box' \in [0 .. SuiteCount -> Boxes]
  OBVIOUS
<1> USE SomeSuite, LifeFacts
<1>a. /\ box \in [0 .. SuiteCount -> Boxes] /\ 0 \in 0 .. SuiteCount
      /\ pc \in {"spawn", "discard", "judge"} \cup Running => suite \in 0 .. SuiteCount
  BY DEF TypeOK, Control
<1>b. \A life \in {"absent", "created", "running", "paused", "removed"} : life \in Lives
  BY DEF Lives, Present
<1>c. ASSUME NEW i \in 0 .. SuiteCount, Removed(i) \/ RemovalFails(i)
      PROVE  box' \in [0 .. SuiteCount -> Boxes]
  <2>1. box[i].life \in Lives
    BY <1>a DEF Boxes
  <2>2. QED
    BY <1>a, <1>b, <1>c, <2>1 DEF Removed, RemovalFails
<1>1. CASE UNCHANGED box  BY <1>1, <1>a
<1>2. CASE Create  BY <1>2, <1>a, <1>b DEF Create
<1>3. CASE Baseline  BY <1>3, <1>a, <1>c DEF Baseline
<1>4. CASE ApplyPatch  BY ZenonT(40), <1>4, <1>a DEF ApplyPatch, Boxes
<1>5. CASE BeginSuite  BY <1>5, <1>a, <1>c DEF BeginSuite, DisposeValidation
<1>6. CASE SpawnSuite  BY <1>6, <1>a, <1>b DEF SpawnSuite
<1>7. CASE ReapplyPatch  BY <1>7, <1>a DEF ReapplyPatch, Boxes, Running
<1>8. CASE StageTests
  <2>1. PICK uploaded \in BOOLEAN : box' = [box EXCEPT ![suite].hidden = uploaded]
    BY <1>8, Staged
  <2>2. QED
    BY <1>8, <1>a, <2>1 DEF StageTests, Boxes, Running
<1>9. CASE ExecuteSuite
  <2>1. PICK evidence \in Evidence :
           box' = [box EXCEPT ![suite] = [@ EXCEPT !.ran = TRUE, !.evidence = evidence]]
    BY <1>9 DEF ExecuteSuite
  <2>2. suite \in 0 .. SuiteCount /\ box[suite] \in Boxes
    BY <1>9, <1>a DEF ExecuteSuite, Running
  <2>3. [box[suite] EXCEPT !.ran = TRUE, !.evidence = evidence] \in Boxes
    BY <2>2, RanBox
  <2>4. QED
    BY <1>a, <2>1, <2>2, <2>3
<1>10. CASE Scribble  BY <1>10, <1>a DEF Scribble, Boxes
<1>11. CASE PauseSuite  BY <1>11, <1>a, <1>b DEF PauseSuite, Frozen, Running
<1>12. CASE DiscardSuite  BY <1>12, <1>a, <1>c DEF DiscardSuite, DiscardFails
<1>13. CASE Close  BY <1>13, <1>a, <1>c DEF Close, CloseFails
<1>14. QED
  BY <1>1, <1>2, <1>3, <1>4, <1>5, <1>6, <1>7, <1>8, <1>9, <1>10, <1>11, <1>12, <1>13
     DEF Next, vars, InspectPatch, InspectEntries, ChangedPaths, PrepareSuite, ReadEvidence,
         UnwindSuite, EvaluateSuite, Conclude, Return, Done

(* What the next outcome looks like. *)
LEMMA OutcomeType ==
    ASSUME TypeOK
    PROVE  [exit |-> exit, junit |-> junit, passed |-> SuitePassed] \in Outcomes
BY DEF TypeOK, Outcomes, SuitePassed, TimedOut

(* Every step keeps the types. *)
LEMMA NextTypes == TypeOK /\ Control /\ [Next]_vars => TypeOK'
<1> SUFFICES ASSUME TypeOK, Control, [Next]_vars
             PROVE  TypeOK'
  OBVIOUS
<1>a. box' \in [0 .. SuiteCount -> Boxes]
  BY BoxesStay
<1>b. /\ pc \notin Ending => Len(outcomes) = suite - 1
      /\ pc \in {"spawn", "discard", "judge"} => suite <= SuiteCount
  BY DEF Control
<1> USE SomeSuite DEF TypeOK, Goto, Healthy, Faulty
<1>c. pc' \in Locations
  BY DEF Locations, Next, vars, InspectPatch, Create, Baseline, InspectEntries, ApplyPatch,
         ChangedPaths, BeginSuite, DisposeValidation, SpawnSuite, PrepareSuite, ReapplyPatch,
         Reapply, StageTests, ExecuteSuite, Scribble, PauseSuite, ReadEvidence, DiscardSuite,
         UnwindSuite, EvaluateSuite, NextSuite, Conclude, Close, Return, Done,
         Fail, Reject, FailInSuite
<1>d. validation' \in BOOLEAN /\ fault' \in BOOLEAN /\ raised' \in BOOLEAN
  BY DEF Next, vars, InspectPatch, Create, Baseline, InspectEntries, ApplyPatch,
         ChangedPaths, BeginSuite, DisposeValidation, SpawnSuite, PrepareSuite, ReapplyPatch,
         Reapply, StageTests, ExecuteSuite, Scribble, PauseSuite, ReadEvidence, DiscardSuite,
         DiscardFails, UnwindSuite, EvaluateSuite, Conclude, Close, CloseFails, Return, Done,
         Fail, FailInSuite, Handle
<1>e. exit' \in ExitCodes
  BY DEF Next, vars, InspectPatch, Create, Baseline, InspectEntries, ApplyPatch,
         ChangedPaths, BeginSuite, SpawnSuite, PrepareSuite, ReapplyPatch, StageTests,
         ExecuteSuite, Scribble, PauseSuite, ReadEvidence, DiscardSuite, UnwindSuite,
         EvaluateSuite, Conclude, Close, Return, Done
<1>f. error' \in Lengths \cup {NoError}
  BY DEF Lengths, Next, vars, InspectPatch, Create, Baseline, InspectEntries, ApplyPatch,
         ChangedPaths, BeginSuite, SpawnSuite, PrepareSuite, ReapplyPatch, Reapply, StageTests,
         ExecuteSuite, Scribble, PauseSuite, ReadEvidence, DiscardSuite, DiscardFails,
         UnwindSuite, EvaluateSuite, Conclude, Close, Return, Done, FailInSuite
<1>g. result' \in Results
  BY DEF Results, Rejections, TestFailures, InfrastructureKinds, Next, vars, InspectPatch,
         Create, Baseline, InspectEntries, ApplyPatch, ChangedPaths, BeginSuite,
         DisposeValidation, SpawnSuite, PrepareSuite, ReapplyPatch, StageTests, ExecuteSuite,
         Scribble, PauseSuite, ReadEvidence, DiscardSuite, UnwindSuite, EvaluateSuite, NextSuite,
         Conclude, Verdict, FailureKind, Close, CloseFails, Return, Done, Fail, Handle, Reject
<1>h. junit' \in Evidence
  <2>1. CASE ReadEvidence
    <3>1. suite \in 0 .. SuiteCount
      BY <2>1 DEF ReadEvidence, Control, Running
    <3>2. box[suite].evidence \in Evidence
      BY <3>1 DEF Boxes
    <3>3. QED
      BY <2>1, <3>2 DEF ReadEvidence
  <2>2. CASE ~ReadEvidence
    BY <2>2 DEF Next, vars, InspectPatch, Create, Baseline, InspectEntries, ApplyPatch,
           ChangedPaths, BeginSuite, SpawnSuite, PrepareSuite, ReapplyPatch, StageTests,
           ExecuteSuite, Scribble, PauseSuite, DiscardSuite, UnwindSuite,
           EvaluateSuite, Conclude, Close, Return, Done
  <2>3. QED
    BY <2>1, <2>2
<1>i. /\ suite' \in 1 .. SuiteCount + 1
      /\ outcomes' \in Seq(Outcomes) /\ Len(outcomes') <= SuiteCount
  <2>1. CASE EvaluateSuite
    <3>1. [exit |-> exit, junit |-> junit, passed |-> SuitePassed] \in Outcomes
      BY OutcomeType
    <3>2. suite <= SuiteCount /\ Len(outcomes) = suite - 1
      BY <2>1, <1>b DEF EvaluateSuite, Ending
    <3>3. suite' \in {suite, suite + 1}
      BY <2>1 DEF EvaluateSuite, NextSuite
    <3>4. outcomes' = outcomes \/ outcomes' =
             Append(outcomes, [exit |-> exit, junit |-> junit, passed |-> SuitePassed])
      BY <2>1 DEF EvaluateSuite
    <3>5. QED
      BY SMTT(30), <3>1, <3>2, <3>3, <3>4
  <2>2. CASE ~EvaluateSuite
    <3>1. suite' \in {suite, 1} /\ outcomes' = outcomes
      BY <2>2 DEF Next, vars, InspectPatch, Create, Baseline, InspectEntries, ApplyPatch,
             ChangedPaths, BeginSuite, SpawnSuite, PrepareSuite, ReapplyPatch, StageTests,
             ExecuteSuite, Scribble, PauseSuite, ReadEvidence, DiscardSuite, UnwindSuite,
             Conclude, Close, Return, Done
    <3>2. QED
      BY <3>1
  <2>3. QED
    BY <2>1, <2>2
<1>j. QED
  BY <1>a, <1>c, <1>d, <1>e, <1>f, <1>g, <1>h, <1>i

(* Every step keeps the relations between the control state and the rest. *)
LEMMA NextControl == TypeOK /\ Control /\ [Next]_vars => Control'
<1> SUFFICES ASSUME TypeOK, Control, [Next]_vars
             PROVE  Control'
  OBVIOUS
<1>a. /\ suite \in Nat /\ Len(outcomes) \in Nat
      /\ validation \in BOOLEAN /\ raised \in BOOLEAN /\ fault \in BOOLEAN
  BY SomeSuite DEF TypeOK
<1> USE SomeSuite, <1>a DEF Control, FaultShown, Validating, Running, Ending, Goto, NoError,
        NoResult, Healthy, Faulty
<1>1. CASE InspectPatch  BY <1>1 DEF InspectPatch
<1>2. CASE Create  BY <1>2 DEF Create, Handle
<1>3. CASE Baseline
  <2>1. UNCHANGED <<suite, error, outcomes>>
    BY <1>3 DEF Baseline
  <2>2. \/ pc' = "entries" /\ UNCHANGED <<fault, result, raised>>
        \/ pc' = "return" /\ (raised' \/ result' = "sandbox_infrastructure")
    BY <1>3 DEF Baseline, Handle
  <2>3. QED
    BY <1>3, <2>1, <2>2 DEF Baseline
<1>4. CASE InspectEntries  BY <1>4 DEF InspectEntries, Fail, Handle, Reject
<1>5. CASE ApplyPatch  BY <1>5 DEF ApplyPatch, Fail, Handle, Reject
<1>6. CASE ChangedPaths  BY <1>6 DEF ChangedPaths, Fail, Handle, Reject
<1>7. CASE BeginSuite
  BY <1>7 DEF BeginSuite, DisposeValidation, SuitesLeft, Fail, Handle
<1>8. CASE SpawnSuite  BY <1>8 DEF SpawnSuite, Fail, Handle
<1>9. CASE PrepareSuite  BY <1>9 DEF PrepareSuite, FailInSuite, Lengths
<1>10. CASE ReapplyPatch  BY <1>10 DEF ReapplyPatch, Reapply, FailInSuite
<1>11. CASE StageTests  BY <1>11 DEF StageTests, FailInSuite
<1>12. CASE ExecuteSuite  BY <1>12 DEF ExecuteSuite, FailInSuite
<1>13. CASE Scribble  BY <1>13 DEF Scribble
<1>14. CASE PauseSuite  BY <1>14 DEF PauseSuite, FailInSuite
<1>15. CASE ReadEvidence  BY <1>15 DEF ReadEvidence, FailInSuite
<1>16. CASE DiscardSuite  BY <1>16 DEF DiscardSuite, DiscardFails
<1>17. CASE UnwindSuite  BY <1>17 DEF UnwindSuite, Handle
<1>18. CASE EvaluateSuite
  <2>1. outcomes \in Seq(Outcomes)
    BY DEF TypeOK
  <2>2. [exit |-> exit, junit |-> junit, passed |-> SuitePassed] \in Outcomes
    BY OutcomeType
  <2>3. outcomes' # outcomes => Len(outcomes') = Len(outcomes) + 1
    BY <1>18, <2>1, <2>2 DEF EvaluateSuite
  <2>4. QED
    BY <1>18, <2>3 DEF EvaluateSuite, NextSuite
<1>19. CASE Conclude  BY <1>19 DEF Conclude, Verdict, FailureKind
<1>20. CASE Close  BY <1>20 DEF Close, CloseFails
<1>21. CASE Return  BY <1>21 DEF Return
<1>22. CASE Done  BY <1>22 DEF Done, vars
<1>23. CASE UNCHANGED vars  BY <1>23 DEF vars
<1>24. QED
  BY <1>1, <1>2, <1>3, <1>4, <1>5, <1>6, <1>7, <1>8, <1>9, <1>10, <1>11, <1>12, <1>13, <1>14,
     <1>15, <1>16, <1>17, <1>18, <1>19, <1>20, <1>21, <1>22, <1>23 DEF Next
-----------------------------------------------------------------------------
(* The containers *)

(* No container exists at the start. *)
LEMMA InitContainers == Init => Containers
BY SomeSuite DEF Init, Containers, EmptyBox, Validating, Running, Ending

(* Every step keeps the containers apart. *)
LEMMA NextContainers ==
    TypeOK /\ Control /\ Containers /\ [Next]_vars => Containers'
<1> SUFFICES ASSUME TypeOK, Control, Containers, [Next]_vars
             PROVE  Containers'
  OBVIOUS
<1>a. /\ suite \in 1 .. SuiteCount + 1 /\ fault \in BOOLEAN /\ validation \in BOOLEAN
      /\ box \in [0 .. SuiteCount -> Boxes]
  BY DEF TypeOK
<1>b. box' \in [0 .. SuiteCount -> Boxes]
  BY BoxesStay
<1>c. /\ pc \in Validating => suite = 1
      /\ pc \in {"spawn", "discard", "judge"} \cup Running => suite \in Suites
      /\ fault => FaultShown
  BY <1>a, SomeSuite DEF Control
<1>d. EmptyBox.life = "absent" /\ EmptyBox.hidden = FALSE
  BY DEF EmptyBox
<1>e. Suites = 1 .. SuiteCount /\ SuiteCount \in Nat /\ 0 \in 0 .. SuiteCount
      /\ Suites \subseteq 0 .. SuiteCount /\ 0 \notin Suites
  BY SomeSuite
<1>f. \A life \in {"absent", "created", "running", "paused", "removed"} : life \in Lives
  BY DEF Lives, Present
<1> USE <1>a, <1>b, <1>c, <1>d, <1>e, <1>f, LifeFacts
    DEF Containers, FaultShown, Validating, Running, Ending, Goto, NoError, Healthy, Faulty
<1>1. CASE InspectPatch  BY <1>1 DEF InspectPatch
<1>2. CASE Create  BY <1>2 DEF Create, Handle
<1>3. CASE Baseline
  <2>1. pc = "baseline" /\ suite' = suite /\ outcomes' = outcomes
    BY <1>3 DEF Baseline
  <2>2. CASE pc' = "entries"  BY <1>3, <2>1, <2>2 DEF Baseline
  <2>3. CASE pc' = "return"
    <3>1. fault' /\ ~validation'
      BY <1>3, <2>1, <2>3 DEF Baseline
    <3>2. SetLife(0, "running") \/ SetLife(0, "removed")
      BY <1>3, <2>1, <2>3 DEF Baseline, Removed, RemovalFails
    <3>3. ~box'[0].hidden /\ \A i \in Suites : box'[i] = box[i] /\ box[i] = EmptyBox
      BY <2>1, <3>2
    <3>4. QED
      BY <2>1, <2>3, <3>1, <3>3
  <2>4. QED
    BY <1>3, <2>2, <2>3 DEF Baseline
<1>4. CASE InspectEntries  BY <1>4 DEF InspectEntries, Fail, Reject
<1>5. CASE ApplyPatch
  <2>1. UNCHANGED box \/ box' = [box EXCEPT ![0].patched = TRUE]
    BY <1>5 DEF ApplyPatch
  <2>2. /\ box'[0].life = box[0].life /\ box'[0].hidden = box[0].hidden
        /\ \A i \in Suites : box'[i] = box[i]
    BY <2>1 DEF Boxes
  <2>3. /\ pc = "apply" /\ UNCHANGED <<validation, suite, outcomes>>
        /\ pc' \in {"close", "paths"} /\ (pc' = "paths" => UNCHANGED fault)
    BY <1>5 DEF ApplyPatch, Fail, Reject
  <2>4. QED
    BY <2>2, <2>3
<1>6. CASE ChangedPaths  BY <1>6 DEF ChangedPaths, Fail, Reject
<1>7. CASE BeginSuite
  BY <1>7 DEF BeginSuite, DisposeValidation, SuitesLeft, Fail, Removed, RemovalFails
<1>8. CASE SpawnSuite  BY <1>8 DEF SpawnSuite, Fail
<1>9. CASE PrepareSuite  BY <1>9 DEF PrepareSuite, FailInSuite
<1>10. CASE ReapplyPatch  BY <1>10 DEF ReapplyPatch, Reapply, FailInSuite
<1>11. CASE StageTests
  <2>1. PICK uploaded \in BOOLEAN : box' = [box EXCEPT ![suite].hidden = uploaded]
    BY <1>11, Staged
  <2>2. /\ box'[suite].life = box[suite].life
        /\ \A i \in 0 .. SuiteCount : i # suite => box'[i] = box[i]
    BY <1>11, <2>1 DEF StageTests, Boxes
  <2>3. /\ pc = "stage" /\ UNCHANGED <<validation, suite, outcomes>>
        /\ pc' \in {"execute", "discard"}
    BY <1>11 DEF StageTests, FailInSuite
  <2>4. QED
    BY <2>2, <2>3
<1>12. CASE ExecuteSuite  BY <1>12 DEF ExecuteSuite, FailInSuite
<1>13. CASE Scribble  BY <1>13 DEF Scribble
<1>14. CASE PauseSuite  BY <1>14 DEF PauseSuite, Frozen, FailInSuite
<1>15. CASE ReadEvidence  BY <1>15 DEF ReadEvidence, FailInSuite
<1>16. CASE DiscardSuite
  BY <1>16 DEF DiscardSuite, DiscardFails, Removed, RemovalFails
<1>17. CASE UnwindSuite  BY <1>17 DEF UnwindSuite
<1>18. CASE EvaluateSuite  BY <1>18 DEF EvaluateSuite, NextSuite
<1>19. CASE Conclude  BY <1>19 DEF Conclude, SuitesLeft
<1>20. CASE Close
  <2>1. pc = "close" /\ pc' = "return" /\ UNCHANGED <<suite, outcomes>> /\ ~validation'
    BY <1>20 DEF Close
  <2>2. CASE ~validation  BY <1>20, <2>1, <2>2 DEF Close
  <2>3. CASE validation /\ Removed(0)
    <3>1. SetLife(0, "removed")
      BY <2>3 DEF Removed
    <3>2. box'[0].life = "removed" /\ ~box'[0].hidden /\ \A i \in Suites : box'[i] = box[i]
      BY <3>1
    <3>3. QED
      BY <1>20, <2>1, <3>2 DEF Close, CloseFails
  <2>4. CASE validation /\ ~Removed(0)
    <3>1. fault' /\ (SetLife(0, box[0].life) \/ SetLife(0, "removed"))
      BY <1>20, <2>4 DEF Close, CloseFails, RemovalFails
    <3>2. box[0].life \in Lives
      BY DEF Boxes
    <3>3. /\ box'[0].life \in {box[0].life, "removed"} /\ ~box'[0].hidden
          /\ \A i \in Suites : box'[i] = box[i]
      BY <3>1, <3>2
    <3>4. QED
      BY <2>1, <3>1, <3>3
  <2>5. QED
    BY <2>2, <2>3, <2>4
<1>21. CASE Return  BY <1>21 DEF Return
<1>22. CASE Done  BY <1>22 DEF Done, vars
<1>23. CASE UNCHANGED vars  BY <1>23 DEF vars
<1>24. QED
  BY <1>1, <1>2, <1>3, <1>4, <1>5, <1>6, <1>7, <1>8, <1>9, <1>10, <1>11, <1>12, <1>13, <1>14,
     <1>15, <1>16, <1>17, <1>18, <1>19, <1>20, <1>21, <1>22, <1>23 DEF Next
-----------------------------------------------------------------------------
(* The running suite and the outcomes *)

(* No suite has an outcome at the start. *)
LEMMA InitSuiteState == Init => SuiteState
BY SomeSuite DEF Init, SuiteState, EmptyBox

(* An outcome stays true of its container as long as neither changes. *)
LEMMA JudgedStays ==
    ASSUME outcomes' = outcomes,
           \A i \in DOMAIN outcomes : box'[i] = box[i],
           \A i \in DOMAIN outcomes : Judged(i)
    PROVE  \A i \in DOMAIN outcomes' : Judged(i)'
BY DEF Judged

(* The containers that were judged are behind the one the suite is in. *)
LEMMA JudgedBehind ==
    ASSUME TypeOK, Control, pc \notin Ending
    PROVE  DOMAIN outcomes = 1 .. suite - 1 /\ suite \notin DOMAIN outcomes
           /\ 0 \notin DOMAIN outcomes /\ DOMAIN outcomes \subseteq 0 .. SuiteCount
<1>1. outcomes \in Seq(Outcomes) /\ Len(outcomes) = suite - 1 /\ suite \in 1 .. SuiteCount + 1
  BY DEF TypeOK, Control
<1>2. QED
  BY <1>1, SomeSuite

(* Every step keeps what the containers and the outcomes say in agreement. *)
LEMMA NextSuiteState ==
    TypeOK /\ Control /\ Containers /\ SuiteState /\ [Next]_vars => SuiteState'
<1> SUFFICES ASSUME TypeOK, Control, Containers, SuiteState, [Next]_vars
             PROVE  SuiteState'
  OBVIOUS
<1>a. /\ suite \in 1 .. SuiteCount + 1 /\ box \in [0 .. SuiteCount -> Boxes]
      /\ outcomes \in Seq(Outcomes) /\ Len(outcomes) <= SuiteCount
  BY DEF TypeOK
<1>b. box' \in [0 .. SuiteCount -> Boxes]
  BY BoxesStay
<1>c. /\ pc \in Validating => suite = 1
      /\ pc \in {"spawn", "discard", "judge"} \cup Running => suite \in Suites
      /\ pc \notin {"discard", "judge"} \cup Ending => error = NoError
  BY <1>a, SomeSuite DEF Control
<1>d. /\ pc \in Validating \cup {"suites", "spawn"} =>
            \A i \in Suites : i >= suite => box[i] = EmptyBox
      /\ pc \in Running \ {"read"} => box[suite].life = "running"
      /\ pc = "read" => box[suite].life = "paused"
  BY DEF Containers
<1>e. Suites = 1 .. SuiteCount /\ SuiteCount \in Nat /\ 0 \in 0 .. SuiteCount
      /\ Suites \subseteq 0 .. SuiteCount /\ 0 \notin Suites
  BY SomeSuite
<1>f. \A life \in {"absent", "created", "running", "paused", "removed"} : life \in Lives
  BY DEF Lives, Present
<1>g. EmptyBox.hidden = FALSE
  BY DEF EmptyBox
<1>h. DOMAIN outcomes \subseteq 0 .. SuiteCount /\ 0 \notin DOMAIN outcomes
      /\ (pc \notin Ending => suite \notin DOMAIN outcomes)
  BY <1>a, <1>e, JudgedBehind
<1>i. ASSUME NEW i \in 0 .. SuiteCount, Removed(i) \/ RemovalFails(i)
      PROVE  SetLife(i, box[i].life) \/ SetLife(i, "removed")
  BY <1>i DEF Removed, RemovalFails
<1>j. \A i \in 0 .. SuiteCount : box[i].life \in Lives
  BY <1>a DEF Boxes
<1> USE <1>a, <1>b, <1>c, <1>d, <1>e, <1>f, <1>g, <1>h, JudgedStays, LifeFacts
    DEF SuiteState, Validating, Running, Ending, Goto, NoError
<1>1. CASE InspectPatch  BY <1>1 DEF InspectPatch
<1>2. CASE Create  BY <1>2 DEF Create
<1>3. CASE Baseline  BY <1>3, <1>i, <1>j DEF Baseline
<1>4. CASE InspectEntries  BY <1>4 DEF InspectEntries, Fail, Reject
<1>5. CASE ApplyPatch
  <2>1. UNCHANGED box \/ box' = [box EXCEPT ![0].patched = TRUE]
    BY <1>5 DEF ApplyPatch
  <2>2. \A i \in 0 .. SuiteCount : i # 0 => box'[i] = box[i]
    BY <2>1
  <2>3. UNCHANGED <<suite, outcomes>> /\ pc' \in {"close", "paths"}
    BY <1>5 DEF ApplyPatch, Fail, Reject
  <2>4. QED
    BY <2>2, <2>3
<1>6. CASE ChangedPaths  BY <1>6 DEF ChangedPaths, Fail, Reject
<1>7. CASE BeginSuite
  BY <1>7, <1>i, <1>j DEF BeginSuite, DisposeValidation, Fail
<1>8. CASE SpawnSuite  BY <1>8 DEF SpawnSuite, Fail
<1>9. CASE PrepareSuite  BY <1>9 DEF PrepareSuite, FailInSuite, Lengths
<1>10. CASE ReapplyPatch
  <2>1. PICK applied \in BOOLEAN :
           box' = [box EXCEPT ![suite].patched = applied] /\ Reapply(applied)
    BY <1>10 DEF ReapplyPatch
  <2>2. /\ box'[suite].patched = applied /\ box'[suite].hidden = box[suite].hidden
        /\ \A i \in 0 .. SuiteCount : i # suite => box'[i] = box[i]
    BY <1>10, <2>1 DEF ReapplyPatch, Boxes
  <2>3. /\ pc = "reapply" /\ UNCHANGED <<suite, outcomes>>
        /\ \/ pc' = "stage" /\ applied
           \/ pc' = "discard" /\ error' # NoError
    BY <1>10, <2>1 DEF ReapplyPatch, Reapply, FailInSuite
  <2>4. QED
    BY <2>2, <2>3
<1>11. CASE StageTests
  <2>1. PICK uploaded \in BOOLEAN : box' = [box EXCEPT ![suite].hidden = uploaded]
    BY <1>11, Staged
  <2>2. /\ box'[suite].patched = box[suite].patched /\ box'[suite].hidden = uploaded
        /\ \A i \in 0 .. SuiteCount : i # suite => box'[i] = box[i]
    BY <1>11, <2>1 DEF StageTests, Boxes
  <2>3. /\ pc = "stage" /\ UNCHANGED <<suite, outcomes>>
        /\ \/ pc' = "execute" /\ box'[suite].hidden = HiddenTests
           \/ pc' = "discard" /\ error' # NoError
    BY <1>11 DEF StageTests, FailInSuite, Boxes
  <2>4. QED
    BY <2>2, <2>3
<1>12. CASE ExecuteSuite
  <2>1. PICK evidence \in Evidence :
           box' = [box EXCEPT ![suite] = [@ EXCEPT !.ran = TRUE, !.evidence = evidence]]
    BY <1>12 DEF ExecuteSuite
  <2>2. /\ box'[suite].patched = box[suite].patched /\ box'[suite].hidden = box[suite].hidden
        /\ box'[suite].ran
        /\ \A i \in 0 .. SuiteCount : i # suite => box'[i] = box[i]
    BY <1>12, <2>1 DEF ExecuteSuite, Boxes
  <2>3. /\ pc = "execute" /\ UNCHANGED <<suite, outcomes>>
        /\ \/ pc' = "pause"
           \/ pc' = "discard" /\ error' # NoError
    BY <1>12 DEF ExecuteSuite, FailInSuite
  <2>4. QED
    BY <2>2, <2>3
<1>13. CASE Scribble
  <2>1. PICK i \in Suites, evidence \in Evidence :
           box[i].life = "running" /\ box' = [box EXCEPT ![i].evidence = evidence]
    BY ZenonT(40), <1>13 DEF Scribble
  <2>2. /\ box'[i].patched = box[i].patched /\ box'[i].hidden = box[i].hidden
        /\ box'[i].ran = box[i].ran
        /\ \A j \in 0 .. SuiteCount : j # i => box'[j] = box[j]
    BY <2>1 DEF Boxes
  <2>3. i \notin DOMAIN outcomes
    BY <2>1 DEF Judged
  <2>4. pc \in {"discard", "judge"} /\ error = NoError => i # suite
    BY <2>1 DEF Containers
  <2>5. UNCHANGED <<pc, suite, outcomes, error, junit>>
    BY <1>13 DEF Scribble
  <2>6. QED
    BY <2>2, <2>3, <2>4, <2>5
<1>14. CASE PauseSuite  BY <1>14 DEF PauseSuite, Frozen, FailInSuite
<1>15. CASE ReadEvidence  BY <1>15 DEF ReadEvidence, FailInSuite
<1>16. CASE DiscardSuite  BY <1>16, <1>i, <1>j DEF DiscardSuite, DiscardFails, Removed
<1>17. CASE UnwindSuite  BY <1>17 DEF UnwindSuite
<1>18. CASE EvaluateSuite
  <2> DEFINE new == [exit |-> exit, junit |-> junit, passed |-> SuitePassed]
  <2>1. new \in Outcomes
    BY OutcomeType
  <2>2. pc = "judge" /\ error = NoError /\ UNCHANGED box
    BY <1>18 DEF EvaluateSuite
  <2>3. Len(outcomes) = suite - 1 /\ suite <= SuiteCount
    BY <2>2 DEF Control
  <2>4. box[suite].life = "removed"
    BY <2>2 DEF Containers
  <2>5. new.passed <=> new.exit = 0 /\ new.junit = "passing"
    <3>1. SuitePassed <=> exit = 0 /\ junit = "passing"
      BY DEF SuitePassed, TimedOut
    <3>2. new.passed = SuitePassed /\ new.exit = exit /\ new.junit = junit
      OBVIOUS
    <3>3. QED
      BY <3>1, <3>2, Zenon
  <2>6. outcomes' = outcomes \/ outcomes' = Append(outcomes, new)
    BY <1>18 DEF EvaluateSuite
  <2>7. \A i \in DOMAIN outcomes' : Judged(i)'
    <3>1. CASE outcomes' = outcomes  BY <2>2, <3>1
    <3>2. CASE outcomes' = Append(outcomes, new)
      <4>1. \A i \in DOMAIN outcomes' :
               \/ i = suite /\ outcomes'[i] = new
               \/ i \in DOMAIN outcomes /\ outcomes'[i] = outcomes[i]
        BY <2>1, <2>3, <3>2
      <4>2. new.exit = exit /\ new.junit = junit
        OBVIOUS
      <4>3. /\ box[suite].patched /\ box[suite].hidden = HiddenTests /\ box[suite].ran
            /\ junit = box[suite].evidence
        BY <2>2
      <4> HIDE DEF new
      <4>4. QED
        BY <2>2, <2>4, <2>5, <4>1, <4>2, <4>3 DEF Judged
    <3>3. QED
      BY <2>6, <3>1, <3>2
  <2>8. pc' \in {"close", "suites"}
    BY <1>18 DEF EvaluateSuite, NextSuite
  <2>9. QED
    BY <2>2, <2>7, <2>8
<1>19. CASE Conclude  BY <1>19 DEF Conclude
<1>20. CASE Close  BY <1>20, <1>i, <1>j DEF Close, CloseFails
<1>21. CASE Return  BY <1>21 DEF Return
<1>22. CASE Done  BY <1>22 DEF Done, vars
<1>23. CASE UNCHANGED vars  BY <1>23 DEF vars
<1>24. QED
  BY <1>1, <1>2, <1>3, <1>4, <1>5, <1>6, <1>7, <1>8, <1>9, <1>10, <1>11, <1>12, <1>13, <1>14,
     <1>15, <1>16, <1>17, <1>18, <1>19, <1>20, <1>21, <1>22, <1>23 DEF Next
-----------------------------------------------------------------------------
(* What each result rests on *)

(* Nothing is decided at the start. *)
LEMMA InitGrounds == Init => Grounds
BY SomeSuite DEF Init, Grounds, Accounted, NoResult, Rejections, TestFailures

(* The grounds of a decided result stay when the outcomes do, and when no    *)
(* suite's container that is still untouched is started.                     *)
LEMMA GroundsStay ==
    ASSUME Grounds, pc \in Ending, pc' \in Ending, UNCHANGED <<outcomes, result>>,
           \A i \in Suites : box[i] = EmptyBox => box'[i] = EmptyBox
    PROVE  Grounds'
BY DEF Grounds, Failed, Verdict, FailureKind, Accounted

(* While nothing is decided, only the outcomes matter. *)
LEMMA UndecidedGrounds ==
    ASSUME Accounted', result' \in {NoResult, "sandbox_infrastructure", "verifier_configuration"}
    PROVE  Grounds'
BY DEF Grounds, NoResult, Rejections, TestFailures

(* The account of the outcomes depends on the outcomes only. *)
LEMMA AccountedStays == ASSUME Accounted, UNCHANGED outcomes PROVE Accounted'
BY DEF Accounted

(* Every step keeps the grounds of the result. *)
LEMMA NextGrounds ==
    TypeOK /\ Control /\ Containers /\ Grounds /\ [Next]_vars => Grounds'
<1> SUFFICES ASSUME TypeOK, Control, Containers, Grounds, [Next]_vars
             PROVE  Grounds'
  OBVIOUS
<1>a. /\ pc \notin Ending => result = NoResult /\ Len(outcomes) = suite - 1 /\ Accounted
      /\ pc \in Validating => suite = 1
  BY DEF Control, Grounds
<1>b. outcomes \in Seq(Outcomes) /\ suite \in 1 .. SuiteCount + 1
  BY DEF TypeOK
<1>c. /\ Suites = 1 .. SuiteCount /\ SuiteCount \in Nat /\ 0 \notin Suites
  BY SomeSuite
<1>d. pc \in Validating => outcomes = <<>> /\ \A i \in Suites : box[i] = EmptyBox
  BY <1>a, <1>b, <1>c DEF Containers, Validating, Ending
<1>e. ASSUME pc \notin Ending, UNCHANGED outcomes, result' \in {NoResult, "sandbox_infrastructure"}
      PROVE  Grounds'
  BY <1>a, <1>e, UndecidedGrounds, AccountedStays
<1>f. ASSUME pc \in Validating, UNCHANGED outcomes, result' \in Rejections,
             \A i \in Suites : box'[i] = box[i]
      PROVE  Grounds'
  <2>1. Accounted'
    BY <1>a, <1>f, AccountedStays DEF Validating, Ending
  <2>2. QED
    BY <1>d, <1>f, <2>1 DEF Grounds, Rejections, TestFailures
<1> USE <1>e, <1>f DEF Ending, Validating, Goto
<1>1. CASE InspectPatch  BY <1>1, <1>a DEF InspectPatch, Rejections
<1>2. CASE Create  BY <1>2, <1>a DEF Create, Handle
<1>3. CASE Baseline  BY <1>3, <1>a DEF Baseline, Handle
<1>4. CASE InspectEntries
  BY <1>4, <1>a DEF InspectEntries, Fail, Handle, Reject, Rejections
<1>5. CASE ApplyPatch
  <2>1. \A i \in Suites : box'[i] = box[i]
    BY <1>5, <1>c DEF ApplyPatch, TypeOK
  <2>2. QED
    BY <1>5, <1>a, <2>1 DEF ApplyPatch, Fail, Handle, Reject, Rejections
<1>6. CASE ChangedPaths
  BY <1>6, <1>a DEF ChangedPaths, Fail, Handle, Reject, Rejections
<1>7. CASE BeginSuite  BY <1>7, <1>a DEF BeginSuite, DisposeValidation, Fail, Handle
<1>8. CASE SpawnSuite  BY <1>8, <1>a DEF SpawnSuite, Fail, Handle
<1>9. CASE PrepareSuite  BY <1>9, <1>a DEF PrepareSuite
<1>10. CASE ReapplyPatch  BY <1>10, <1>a DEF ReapplyPatch
<1>11. CASE StageTests  BY <1>11, <1>a DEF StageTests
<1>12. CASE ExecuteSuite  BY <1>12, <1>a DEF ExecuteSuite
<1>13. CASE Scribble
  <2>1. CASE pc \notin Ending  BY <1>13, <1>a, <2>1 DEF Scribble
  <2>2. CASE pc \in Ending
    <3>1. PICK i \in Suites, evidence \in Evidence :
             box[i].life = "running" /\ box' = [box EXCEPT ![i].evidence = evidence]
      BY <1>13 DEF Scribble
    <3>2. box[i] # EmptyBox
      BY <3>1 DEF EmptyBox
    <3>3. \A j \in Suites : box[j] = EmptyBox => box'[j] = EmptyBox
      BY <3>1, <3>2, <1>c DEF TypeOK
    <3>4. QED
      BY <1>13, <2>2, <3>3, GroundsStay DEF Scribble
  <2>3. QED
    BY <2>1, <2>2
<1>14. CASE PauseSuite  BY <1>14, <1>a DEF PauseSuite
<1>15. CASE ReadEvidence  BY <1>15, <1>a DEF ReadEvidence
<1>16. CASE DiscardSuite  BY <1>16, <1>a DEF DiscardSuite
<1>17. CASE UnwindSuite  BY <1>17, <1>a DEF UnwindSuite, Handle
<1>18. CASE EvaluateSuite
  <2> DEFINE new == [exit |-> exit, junit |-> junit, passed |-> SuitePassed]
  <2>1. CASE UNCHANGED outcomes /\ result' = "sandbox_infrastructure"
    BY <1>18, <1>a, <2>1 DEF EvaluateSuite
  <2>2. CASE outcomes' = Append(outcomes, new) /\ Misconfigured
    BY <1>18, <2>2 DEF EvaluateSuite, Grounds, Rejections, TestFailures, NextSuite
  <2>3. CASE outcomes' = Append(outcomes, new) /\ ~Misconfigured
    <3>1. new \in Outcomes
      BY OutcomeType
    <3>2. \A i \in DOMAIN outcomes' :
             \/ outcomes'[i] = new
             \/ i \in DOMAIN outcomes /\ outcomes'[i] = outcomes[i]
      BY <1>b, <2>3, <3>1
    <3>3. ~(new.exit = 0 /\ new.junit \in Unusable)
      BY <2>3 DEF Misconfigured
    <3> HIDE DEF new
    <3>4. Accounted
      BY <1>18, <1>a DEF EvaluateSuite
    <3>5. Accounted'
      BY <3>2, <3>3, <3>4 DEF Accounted
    <3>6. result' = result \/ result' = "sandbox_infrastructure"
      BY <1>18, <2>3 DEF EvaluateSuite, NextSuite
    <3>7. QED
      BY <1>18, <1>a, <3>5, <3>6, UndecidedGrounds DEF EvaluateSuite
  <2>4. QED
    BY <1>18, <2>1, <2>2, <2>3 DEF EvaluateSuite
<1>19. CASE Conclude
  <2>1. UNCHANGED outcomes /\ result' = Verdict /\ pc' = "close" /\ Accounted
        /\ Len(outcomes) = SuiteCount
    BY <1>19, <1>a, <1>b, <1>c DEF Conclude, SuitesLeft
  <2>2. Failed' = Failed /\ Verdict' = Verdict /\ Accounted'
    BY <2>1 DEF Failed, Verdict, FailureKind, Accounted
  <2>3. CASE Failed = {}
    BY <2>1, <2>2, <2>3 DEF Grounds, Verdict, Rejections, TestFailures
  <2>4. CASE Failed # {}
    <3>1. Verdict \in TestFailures
      BY <2>4 DEF Verdict, FailureKind, TestFailures
    <3>2. QED
      BY <2>1, <2>2, <2>4, <3>1 DEF Grounds, Rejections, TestFailures
  <2>5. QED
    BY <2>3, <2>4
<1>20. CASE Close
  <2>1. \A i \in Suites : box'[i] = box[i]
    BY <1>20, <1>c DEF Close, CloseFails, Removed, RemovalFails, SetLife, TypeOK
  <2>2. CASE UNCHANGED result  BY <1>20, <2>1, <2>2, GroundsStay DEF Close
  <2>3. CASE result' = "sandbox_infrastructure"
    BY <1>20, <2>3 DEF Close, Grounds, Rejections, TestFailures
  <2>4. QED
    BY <1>20, <2>2, <2>3 DEF Close, CloseFails
<1>21. CASE Return  BY <1>21, GroundsStay DEF Return
<1>22. CASE UNCHANGED vars
  BY <1>22 DEF vars, Grounds, Failed, Verdict, FailureKind, Accounted
<1>23. CASE Done  BY <1>22, <1>23 DEF Done
<1>24. QED
  BY <1>1, <1>2, <1>3, <1>4, <1>5, <1>6, <1>7, <1>8, <1>9, <1>10, <1>11, <1>12, <1>13, <1>14,
     <1>15, <1>16, <1>17, <1>18, <1>19, <1>20, <1>21, <1>22, <1>23 DEF Next
-----------------------------------------------------------------------------
(* The inductive invariant *)

(* The inductive invariant holds at the start. *)
LEMMA InitInvariant == Init => IInv
BY InitControl, InitContainers, InitSuiteState, InitGrounds DEF IInv

(* Every step keeps the inductive invariant. *)
LEMMA NextInvariant == IInv /\ [Next]_vars => IInv'
BY NextTypes, NextControl, NextContainers, NextSuiteState, NextGrounds DEF IInv

(* The inductive invariant holds in every reachable state. *)
LEMMA Invariant == Spec => []IInv
BY InitInvariant, NextInvariant, PTL DEF Spec

(* Type correctness of Verifier. *)
THEOREM TypeCorrect == Spec => []TypeOK
<1>1. IInv => TypeOK
  BY DEF IInv
<1>2. QED
  BY Invariant, <1>1, PTL

(* At the end, a container that is still there means that an infrastructure  *)
(* operation failed, and a failed operation is in the answer.                *)
LEMMA FaultAtEnd ==
    ASSUME IInv, pc = "done"
    PROVE  /\ fault => raised \/ result = "sandbox_infrastructure"
           /\ ~fault => \A i \in DOMAIN box : box[i].life \in {"absent", "removed"}
<1>1. fault => raised \/ result = "sandbox_infrastructure"
  BY DEF IInv, Control, FaultShown, Ending
<1>2. ~fault => box[0].life \in {"absent", "removed"}
                /\ \A i \in Suites : box[i].life \in {"absent", "removed"}
  BY DEF IInv, Containers, Ending
<1>3. DOMAIN box = {0} \cup Suites
  BY SomeSuite DEF IInv, TypeOK
<1>4. QED
  BY <1>1, <1>2, <1>3

(* A container that outlives the verification is reported. *)
THEOREM LeaksAreReported == Spec => []LeakIsReported
<1>1. IInv => LeakIsReported
  BY FaultAtEnd DEF LeakIsReported, Present, InfrastructureKinds
<1>2. QED
  BY Invariant, <1>1, PTL

(* A pass rests on a complete run of every suite on sound infrastructure. *)
THEOREM PassesAreEarned == Spec => []PassIsEarned
<1>1. ASSUME IInv, pc = "done", result = "passed", ~raised
      PROVE  PassIsEarned
  <2>1. ~fault
    BY <1>1, FaultAtEnd
  <2>2. outcomes \in Seq(Outcomes) /\ Len(outcomes) = SuiteCount /\ Failed = {}
    BY <1>1 DEF IInv, TypeOK, Grounds
  <2>3. DOMAIN outcomes = Suites /\ \A i \in Suites : Judged(i) /\ outcomes[i].passed
    BY <1>1, <2>2, SomeSuite DEF IInv, SuiteState, Failed
  <2>4. \A i \in Suites :
           /\ outcomes[i].exit = 0 /\ outcomes[i].junit = "passing"
           /\ box[i].ran /\ box[i].patched /\ box[i].hidden = HiddenTests
           /\ box[i].life = "removed"
    BY <2>3 DEF Judged
  <2>5. box[0].life = "removed"
    <3>1. 1 \in Suites
      BY SomeSuite
    <3>2. box[1] # EmptyBox
      BY <3>1, <2>4 DEF EmptyBox
    <3>3. QED
      BY <1>1, <3>1, <3>2 DEF IInv, Containers
  <2>6. DOMAIN box = {0} \cup Suites
    BY <1>1, SomeSuite DEF IInv, TypeOK
  <2>7. QED
    BY <2>1, <2>2, <2>4, <2>5, <2>6 DEF PassIsEarned
<1>2. IInv => PassIsEarned
  BY <1>1 DEF PassIsEarned
<1>3. QED
  BY Invariant, <1>2, PTL

(* Hidden tests never share the machine with the validation container, and   *)
(* no two containers are ever there together.                                *)
THEOREM SuitesAreIsolated == Spec => [](HiddenTestsIsolated /\ AtMostOneContainer)
<1>1. ASSUME IInv
      PROVE  HiddenTestsIsolated /\ AtMostOneContainer
  <2>1. DOMAIN box = {0} \cup Suites /\ 0 \notin Suites /\ suite \in Nat /\ Suites \subseteq Nat
    BY <1>1, SomeSuite DEF IInv, TypeOK
  <2>2. EmptyBox.life = "absent" /\ EmptyBox.hidden = FALSE
    BY DEF EmptyBox
  <2>3. HiddenTestsIsolated
    <3>1. \A i \in Suites : box[i].hidden => box[i].patched
      BY <1>1 DEF IInv, SuiteState
    <3>2. \A i \in Suites : box[i].hidden => box[0].life = "removed"
      BY <1>1, <2>2 DEF IInv, Containers
    <3>3. ~box[0].hidden
      BY <1>1 DEF IInv, Containers
    <3>4. QED
      BY <2>1, <3>1, <3>2, <3>3 DEF HiddenTestsIsolated
  <2>4. \A i \in Suites : box[i].life \in Present => i = suite /\ box[0].life \notin Present
    <3>1. ASSUME NEW i \in Suites, box[i].life \in Present
          PROVE  i = suite /\ box[0].life \notin Present
      <4>1. box[i].life # "absent" /\ box[i].life # "removed"
        BY <3>1 DEF Present
      <4>2. box[0].life = "removed" /\ ~(i < suite) /\ ~(i > suite)
        BY <1>1, <2>2, <4>1 DEF IInv, Containers
      <4>3. QED
        BY <2>1, <4>2 DEF Present
    <3>2. QED
      BY <3>1
  <2>5. QED
    BY <2>1, <2>3, <2>4 DEF AtMostOneContainer
<1>2. QED
  BY Invariant, <1>1, PTL

(* What a suite is judged on is what the frozen container holds. *)
THEOREM EvidenceStaysFrozen == Spec => []EvidenceFrozen
<1>1. IInv => EvidenceFrozen
  BY DEF IInv, SuiteState, Judged, EvidenceFrozen
<1>2. QED
  BY Invariant, <1>1, PTL

(* A set of natural numbers that is not empty has a least element. *)
LEMMA LeastElement ==
    ASSUME NEW T, T \subseteq Nat, T # {}
    PROVE  \E m \in T : \A k \in T : m <= k
<1> DEFINE R == OpToRel(<, Nat)
<1>1. IsWellFoundedOn(R, Nat)
  BY NatLessThanWellFounded, Zenon
<1>2. \A a, b \in Nat : a < b => <<a, b>> \in R
  BY DEF OpToRel
<1> HIDE DEF R
<1>3. \E m \in T : \A k \in T : ~(<<k, m>> \in R)
  BY <1>1, WFMin
<1>4. PICK m \in T : \A k \in T : ~(<<k, m>> \in R)
  BY <1>3
<1>5. ASSUME NEW k \in T
      PROVE  m <= k
  <2>1. ~(k < m)
    BY <1>2, <1>4
  <2>2. QED
    BY <2>1
<1>6. QED
  BY <1>5

(* A verdict on the patch names the phase, or the first suite, that failed. *)
THEOREM VerdictsMatchEvidence == Spec => []VerdictMatchesEvidence
<1>1. ASSUME IInv, result \in TestFailures
      PROVE  /\ Len(outcomes) = SuiteCount
             /\ \A i \in Suites : ~(outcomes[i].exit = 0 /\ outcomes[i].junit \in Unusable)
             /\ \E i \in Suites :
                   /\ \A j \in 1 .. i - 1 : outcomes[j].passed
                   /\ ~outcomes[i].passed
                   /\ result = FailureKind(i)
  <2>1. /\ Len(outcomes) = SuiteCount /\ Failed # {} /\ Accounted /\ result = Verdict
        /\ outcomes \in Seq(Outcomes)
    BY <1>1 DEF IInv, Grounds, TypeOK
  <2>2. DOMAIN outcomes = Suites /\ Suites = 1 .. SuiteCount /\ SuiteCount \in Nat
    BY <2>1, SomeSuite
  <2>3. \A i \in Suites : ~(outcomes[i].exit = 0 /\ outcomes[i].junit \in Unusable)
    BY <2>1, <2>2 DEF Accounted
  <2> DEFINE first == CHOOSE i \in Failed : \A j \in Failed : i <= j
  <2>4. Failed \subseteq Nat
    BY <2>2 DEF Failed
  <2>5. \E i \in Failed : \A j \in Failed : i <= j
    BY <2>1, <2>4, LeastElement
  <2>6. first \in Failed /\ \A j \in Failed : first <= j
    BY <2>5
  <2>7. result = FailureKind(first)
    BY <2>1 DEF Verdict
  <2> HIDE DEF first
  <2>8. first \in Suites /\ ~outcomes[first].passed
    BY <2>2, <2>6 DEF Failed
  <2>9. \A j \in 1 .. first - 1 : outcomes[j].passed
    BY <2>2, <2>6, <2>8 DEF Failed
  <2>10. QED
    BY <2>1, <2>3, <2>7, <2>8, <2>9
<1>2. ASSUME IInv, result \in Rejections
      PROVE  \A i \in Suites : box[i].life = "absent"
  BY <1>2 DEF IInv, Grounds, EmptyBox
<1>3. IInv => VerdictMatchesEvidence
  BY <1>1, <1>2 DEF VerdictMatchesEvidence
<1>4. QED
  BY Invariant, <1>3, PTL
-----------------------------------------------------------------------------
(* Refinement *)

Tally == [i \in DOMAIN outcomes |-> outcomes[i].passed]

(* The tally has one entry per outcome, and grows with the outcomes. *)
LEMMA TallyFacts ==
    ASSUME outcomes \in Seq(Outcomes)
    PROVE  /\ Tally \in Seq(BOOLEAN) /\ Len(Tally) = Len(outcomes)
           /\ DOMAIN Tally = DOMAIN outcomes
           /\ outcomes = <<>> => Tally = <<>>
<1>1. ASSUME NEW i \in 1 .. Len(outcomes)
      PROVE  outcomes[i].passed \in BOOLEAN
  <2>1. outcomes[i] \in Outcomes
    OBVIOUS
  <2>2. QED
    BY <2>1 DEF Outcomes
<1>2. Tally = [i \in 1 .. Len(outcomes) |-> outcomes[i].passed]
  BY DEF Tally
<1>3. Tally \in Seq(BOOLEAN) /\ Len(Tally) = Len(outcomes)
  BY <1>1, <1>2
<1>4. DOMAIN Tally = DOMAIN outcomes
  BY DEF Tally
<1>5. outcomes = <<>> => Tally = <<>>
  BY <1>3
<1>6. QED
  BY <1>3, <1>4, <1>5

(* One more outcome is one more entry of the tally. *)
LEMMA TallyGrows ==
    ASSUME outcomes \in Seq(Outcomes), NEW new \in Outcomes, outcomes' = Append(outcomes, new)
    PROVE  Tally' = Append(Tally, new.passed)
<1>1. /\ Len(outcomes') = Len(outcomes) + 1
      /\ \A i \in 1 .. Len(outcomes) : outcomes'[i] = outcomes[i]
      /\ outcomes'[Len(outcomes) + 1] = new
      /\ outcomes' \in Seq(Outcomes)
  OBVIOUS
<1>2. new.passed \in BOOLEAN
  BY DEF Outcomes
<1>3. Tally \in Seq(BOOLEAN) /\ Len(Tally) = Len(outcomes)
  BY TallyFacts
<1>4. Tally' = [i \in 1 .. Len(outcomes) + 1 |-> outcomes'[i].passed]
  BY <1>1 DEF Tally
<1>5. \A i \in 1 .. Len(outcomes) : Tally[i] = outcomes[i].passed
  BY DEF Tally
<1>6. Append(Tally, new.passed) = [i \in 1 .. Len(outcomes) + 1 |->
          IF i <= Len(outcomes) THEN Tally[i] ELSE new.passed]
  BY <1>2, <1>3
<1>7. QED
  BY <1>1, <1>4, <1>5, <1>6

(* Every final answer is one the contract allows. *)
LEMMA AnswerAllowed ==
    ASSUME IInv, pc = "return", pc' = "done", UNCHANGED <<outcomes, result, raised, fault>>
    PROVE  \/ Status' = "passed" /\ ~fault /\ Len(Tally) = SuiteCount
              /\ \A i \in DOMAIN Tally : Tally[i]
           \/ /\ Status' = "agent_failure" /\ ~fault
              /\ \/ Tally = <<>>
                 \/ Len(Tally) = SuiteCount /\ ~\A i \in DOMAIN Tally : Tally[i]
           \/ Status' \in {"infrastructure_error", "exception"}
<1>1. fault => raised \/ result = "sandbox_infrastructure"
  BY DEF IInv, Control, FaultShown, Ending
<1>2. result # NoResult \/ raised
  BY DEF IInv, Control, Ending
<1>3. result \in Results /\ outcomes \in Seq(Outcomes)
  BY DEF IInv, TypeOK
<1>4. Status' = IF raised THEN "exception"
                ELSE IF result = "passed" THEN "passed"
                ELSE IF result \in InfrastructureKinds THEN "infrastructure_error"
                ELSE "agent_failure"
  BY DEF Status
<1>5. CASE raised \/ result \in InfrastructureKinds
  BY <1>4, <1>5 DEF InfrastructureKinds
<1>6. CASE ~raised /\ result = "passed"
  <2>1. Len(outcomes) = SuiteCount /\ Failed = {}
    BY <1>6 DEF IInv, Grounds
  <2>2. \A i \in DOMAIN Tally : Tally[i]
    BY <2>1 DEF Tally, Failed
  <2>3. QED
    BY <1>1, <1>3, <1>4, <1>6, <2>1, <2>2, TallyFacts
<1>7. CASE ~raised /\ result \in TestFailures
  <2>1. Len(outcomes) = SuiteCount /\ Failed # {}
    BY <1>7 DEF IInv, Grounds
  <2>2. ~\A i \in DOMAIN Tally : Tally[i]
    BY <2>1 DEF Tally, Failed
  <2>3. Status' = "agent_failure" /\ ~fault
    BY <1>1, <1>4, <1>7 DEF TestFailures, InfrastructureKinds
  <2>4. QED
    BY <1>3, <2>1, <2>2, <2>3, TallyFacts
<1>8. CASE ~raised /\ result \in Rejections
  <2>1. Status' = "agent_failure" /\ ~fault
    BY <1>1, <1>4, <1>8 DEF Rejections, InfrastructureKinds
  <2>2. outcomes = <<>>
    BY <1>8 DEF IInv, Grounds
  <2>3. QED
    BY <1>3, <2>1, <2>2, TallyFacts
<1>9. QED
  BY <1>2, <1>3, <1>5, <1>6, <1>7, <1>8 DEF Results

(* Suites, validation and evidence are kept apart.                           *)
THEOREM SuitesStayApart == Spec => []SuitesAreApart
<1>1. HiddenTestsIsolated /\ AtMostOneContainer /\ EvidenceFrozen => SuitesAreApart
  BY DEF SuitesAreApart
<1>2. QED
  BY <1>1, SuitesAreIsolated, EvidenceStaysFrozen, PTL

(* The answer of a verification is what happened in it.                      *)
THEOREM AnswersAreTrue == Spec => []AnswerIsTrue
<1>1. PassIsEarned /\ VerdictMatchesEvidence /\ LeakIsReported => AnswerIsTrue
  BY DEF AnswerIsTrue
<1>2. QED
  BY <1>1, PassesAreEarned, VerdictsMatchEvidence, LeaksAreReported, PTL

(* verify() implements the contract its caller relies on. *)
THEOREM Implements == Spec => KeepsContract
<1>1. Init => Contract!ContractInit
  BY DEF Init, Contract!ContractInit, Status
<1>2. IInv /\ [Next]_vars => [Contract!ContractNext]_(Contract!contractVars)
  <2> SUFFICES ASSUME IInv, [Next]_vars
               PROVE  [Contract!ContractNext]_(Contract!contractVars)
    OBVIOUS
  <2>a. outcomes \in Seq(Outcomes) /\ fault \in BOOLEAN /\ fault' \in BOOLEAN
    BY NextTypes DEF IInv, TypeOK
  <2>1. CASE EvaluateSuite /\ outcomes' # outcomes
    <3> DEFINE new == [exit |-> exit, junit |-> junit, passed |-> SuitePassed]
    <3>1. new \in Outcomes
      BY OutcomeType DEF IInv
    <3>2. outcomes' = Append(outcomes, new) /\ UNCHANGED fault /\ pc = "judge"
          /\ pc' \in {"close", "suites"}
      BY <2>1 DEF EvaluateSuite, NextSuite, Goto
    <3>3. Len(outcomes) < SuiteCount
      BY <3>2, SomeSuite DEF IInv, TypeOK, Control, Ending
    <3> HIDE DEF new
    <3>4. Tally' = Append(Tally, new.passed) /\ new.passed \in BOOLEAN
      BY <2>a, <3>1, <3>2, TallyGrows DEF Outcomes
    <3>5. Len(Tally) < SuiteCount
      BY <2>a, <3>3, TallyFacts
    <3>6. Contract!SuiteRuns
      BY <3>2, <3>4, <3>5 DEF Contract!SuiteRuns, Status, Tally
    <3>7. QED
      BY <3>6 DEF Contract!ContractNext
  <2>2. CASE Return
    <3>1. Contract!Answer
      BY <2>2, AnswerAllowed
         DEF Return, Goto, Contract!Answer, Contract!AllRan, Contract!AllPassed, Status, Tally
    <3>2. QED
      BY <3>1 DEF Contract!ContractNext
  <2>3. CASE UNCHANGED outcomes /\ ~Return
    <3>1. Status' = Status
      <4>1. CASE UNCHANGED <<pc, result, raised>>  BY <4>1 DEF Status
      <4>2. CASE ~UNCHANGED <<pc, result, raised>>
        <5>1. pc # "done" /\ pc' # "done"
          BY <2>3, <4>2 DEF Next, vars, InspectPatch, Create, Baseline, InspectEntries,
                 ApplyPatch, ChangedPaths, BeginSuite, DisposeValidation, SpawnSuite,
                 PrepareSuite, ReapplyPatch, Reapply, StageTests, ExecuteSuite, Scribble,
                 PauseSuite, ReadEvidence, DiscardSuite, UnwindSuite, EvaluateSuite, NextSuite,
                 Conclude, Close, Done, Fail, Reject, FailInSuite, Goto
        <5>2. QED
          BY <5>1 DEF Status
      <4>3. QED
        BY <4>1, <4>2
    <3>2. CASE fault' = fault
      BY <2>3, <3>1, <3>2 DEF Contract!contractVars
    <3>3. CASE fault' # fault
      <4>1. fault' = TRUE /\ pc # "done"
        BY <2>3, <3>3, <2>a DEF Next, vars, InspectPatch, Create, Baseline, InspectEntries,
               ApplyPatch, ChangedPaths, BeginSuite, DisposeValidation, SpawnSuite, PrepareSuite,
               ReapplyPatch, Reapply, StageTests, ExecuteSuite, Scribble, PauseSuite,
               ReadEvidence, DiscardSuite, DiscardFails, UnwindSuite, EvaluateSuite, Conclude,
               Close, CloseFails, Done, Fail, FailInSuite, Healthy, Faulty
      <4>2. Contract!InfrastructureBreaks
        BY <2>3, <3>1, <4>1 DEF Contract!InfrastructureBreaks, Status
      <4>3. QED
        BY <4>2 DEF Contract!ContractNext
    <3>4. QED
      BY <3>2, <3>3
  <2>4. outcomes' # outcomes => EvaluateSuite
    BY DEF Next, vars, InspectPatch, Create, Baseline, InspectEntries, ApplyPatch,
           ChangedPaths, BeginSuite, SpawnSuite, PrepareSuite, ReapplyPatch, StageTests,
           ExecuteSuite, Scribble, PauseSuite, ReadEvidence, DiscardSuite, UnwindSuite,
           Conclude, Close, Return, Done
  <2>5. QED
    BY <2>1, <2>2, <2>3, <2>4
<1>3. QED
  BY <1>1, <1>2, Invariant, PTL DEF Spec, KeepsContract, Contract!ContractSpec
=============================================================================
