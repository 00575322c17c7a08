----------------------------- MODULE Preparation -----------------------------
(* Preparation of a bundle of tasks (tasks/swe_smith_prepare.py): the        *)
(* snapshots and the repair of each task are made from its repository and    *)
(* its mutation, the task is admitted (see Admission), and the bundle is     *)
(* renamed to its place when all of them are.                                *)
(*                                                                           *)
(* A tree is a function from paths to contents. The tasks are numbered in    *)
(* the order of their names.                                                 *)
EXTENDS Naturals, Sequences

CONSTANTS
    TaskCount,
    Paths,
    Base,       \* files of the base commit
    Ignored,    \* paths that the repository's .gitignore matches
    Hidden,     \* the paths below the directory declared as hidden tests
    Allowed,    \* paths that the task's patch policy accepts
    Mutants     \* trees that a mutation may make of the base commit

Absent == "absent"
PathContents == {Absent, "base", "mutated"}
Trees == [Paths -> PathContents]
Clean == [p \in Paths |-> IF p \in Base THEN "base" ELSE Absent]

ASSUME PreparationAssumption ==
    /\ TaskCount \in Nat \ {0}
    /\ Base \subseteq Paths /\ Ignored \subseteq Paths
    /\ Hidden \subseteq Paths /\ Allowed \subseteq Paths
    /\ Mutants \subseteq Trees

TaskNumbers == 1 .. TaskCount

VARIABLES
    mutation,  \* task -> what its mutation makes of the base commit
    preparing, \* where the preparation is
    current,   \* the task it is at
    bundle,    \* the tasks prepared so far, with their artifacts
    work,      \* the artifacts of the task it is at
    scratch,   \* the temporary directory exists
    output     \* what lies at the output path

preparationVars == <<mutation, preparing, current, bundle, work, scratch, output>>

NoTask == <<>>
NoOutput == [by |-> "nobody", tasks |-> NoTask]
Empty == [by |-> "empty", tasks |-> NoTask]
ForeignOutput == [by |-> "other", tasks |-> NoTask]

PreparationInit ==
    /\ mutation \in [TaskNumbers -> Mutants]
    /\ preparing = "start" /\ current = 1 /\ bundle = NoTask /\ work = NoTask
    /\ scratch = FALSE /\ output \in {NoOutput, Empty, ForeignOutput}

-----------------------------------------------------------------------------
(* Trees and patches                                                         *)

(* git add takes no ignored file, and git diff shows tracked files only.     *)
Tracked == Base \ Ignored
Changed(tree) == {p \in Tracked : tree[p] # Clean[p]}

ReversePatch(tree) == [p \in Changed(tree) |-> Clean[p]]

Applied(patch, tree) == [p \in Paths |-> IF p \in DOMAIN patch THEN patch[p] ELSE tree[p]]

WithoutHidden(tree) == [p \in Paths |-> IF p \in Hidden THEN Absent ELSE tree[p]]

-----------------------------------------------------------------------------
(* Steps                                                                     *)

Raises == preparing' = "abort" /\ UNCHANGED <<mutation, current, bundle, work, scratch, output>>

(* The output path is looked at once.                                        *)
BeginBundle ==
    /\ preparing = "start"
    /\ IF output = NoOutput THEN preparing' = "check" /\ scratch' = TRUE
                            ELSE preparing' = "failed" /\ UNCHANGED scratch
    /\ UNCHANGED <<mutation, current, bundle, work, output>>

(* The pair of instance and specification, the checkout, the archive.        *)
Check ==
    /\ preparing = "check" /\ preparing' = "mutate"
    /\ UNCHANGED <<mutation, current, bundle, work, scratch, output>>

(* The mutation is applied and what git makes of it is judged.               *)
Mutate ==
    LET changed == Changed(mutation[current]) IN
    /\ preparing = "mutate"
    /\ IF changed # {} /\ changed \intersect Hidden = {} /\ changed \subseteq Allowed
       THEN /\ work' = [reference_patch |-> ReversePatch(mutation[current])]
            /\ preparing' = "snapshots" /\ UNCHANGED <<mutation, current, bundle, scratch, output>>
       ELSE Raises

(* The hidden tests must be there to be copied, and to be removed.           *)
Snapshots ==
    /\ preparing = "snapshots"
    /\ IF Hidden \intersect Base # {} /\ \E p \in Hidden : mutation[current][p] # Absent
       THEN /\ work' = [reference_patch |-> work.reference_patch,
                        clean |-> WithoutHidden(Clean), reference |-> WithoutHidden(Clean),
                        buggy |-> WithoutHidden(mutation[current])]
            /\ preparing' = "repair" /\ UNCHANGED <<mutation, current, bundle, scratch, output>>
       ELSE Raises

(* The repair applied to the buggy snapshot must give the reference.         *)
Repair_OnTrust ==
    /\ preparing = "repair" /\ preparing' = "admit"
    /\ UNCHANGED <<mutation, current, bundle, work, scratch, output>>

Repair ==
    /\ preparing = "repair"
    /\ IF Applied(work.reference_patch, work.buggy) = work.reference
       THEN preparing' = "admit" /\ UNCHANGED <<mutation, current, bundle, work, scratch, output>>
       ELSE Raises

(* The task is admitted and recorded in the export.                          *)
Admit ==
    /\ preparing = "admit"
    /\ bundle' = Append(bundle, work) /\ work' = NoTask
    /\ current' = IF current = TaskCount THEN current ELSE current + 1
    /\ preparing' = IF current = TaskCount THEN "publish" ELSE "check"
    /\ UNCHANGED <<mutation, scratch, output>>

(* Any git command, copy or admission may fail.                              *)
StepFails ==
    /\ preparing \in {"check", "mutate", "snapshots", "repair", "admit", "publish"}
    /\ Raises

(* The export and the metadata are written into the bundle, which is then    *)
(* renamed: over nothing or an empty directory only.                         *)
Publish ==
    /\ preparing = "publish" /\ output.by \in {"nobody", "empty"}
    /\ output' = [by |-> "me", tasks |-> bundle] /\ preparing' = "sweep"
    /\ UNCHANGED <<mutation, current, bundle, work, scratch>>

PublishRefused ==
    /\ preparing = "publish" /\ output.by = "other"
    /\ Raises

(* The temporary directory is removed on every way out.                      *)
PreparationEnds == [sweep |-> "done", abort |-> "failed"]

SweepBundle ==
    /\ preparing \in {"sweep", "abort"}
    /\ preparing' = PreparationEnds[preparing] /\ scratch' = FALSE
    /\ UNCHANGED <<mutation, current, bundle, work, output>>

SweepBundleFails ==
    /\ preparing \in {"sweep", "abort"}
    /\ preparing' = "failed"
    /\ UNCHANGED <<mutation, current, bundle, work, scratch, output>>

KillPreparer ==
    /\ preparing \notin {"done", "failed", "killed"}
    /\ preparing' = "killed"
    /\ UNCHANGED <<mutation, current, bundle, work, scratch, output>>

(* Somebody else makes a directory at the output path, or publishes there.   *)
Others ==
    /\ \/ output = NoOutput /\ output' \in {Empty, ForeignOutput}
       \/ output = Empty /\ output' = ForeignOutput
    /\ UNCHANGED <<mutation, preparing, current, bundle, work, scratch>>

PreparationNext ==
    \/ BeginBundle \/ Check \/ Mutate \/ Snapshots \/ Repair \/ Admit \/ StepFails
    \/ Publish \/ PublishRefused \/ SweepBundle \/ SweepBundleFails \/ KillPreparer \/ Others

PreparationSpec == PreparationInit /\ [][PreparationNext]_preparationVars

-----------------------------------------------------------------------------
(* Properties                                                                *)

Published == output.by = "me"

(* The values of the variables.                                              *)
PreparationTypeOK ==
    /\ mutation \in [TaskNumbers -> Trees] /\ current \in TaskNumbers
    /\ preparing \in {"start", "check", "mutate", "snapshots", "repair", "admit", "publish",
               "sweep", "abort", "done", "failed", "killed"}
    /\ Len(bundle) <= TaskCount /\ scratch \in BOOLEAN
    /\ output.by \in {"nobody", "empty", "other", "me"}

(* A published bundle holds every task, and each can be solved within its    *)
(* policy: the repair, in paths that an agent may change and none of which   *)
(* is a hidden test, turns the buggy snapshot into the reference.            *)
PublishedTasksAreRepairable ==
    Published =>
        /\ Len(output.tasks) = TaskCount
        /\ \A i \in TaskNumbers : LET t == output.tasks[i] IN
             /\ Applied(t.reference_patch, t.buggy) = t.reference /\ t.buggy # t.reference
             /\ DOMAIN t.reference_patch \subseteq Allowed \ Hidden

(* No published snapshot shows a hidden test.                                *)
SnapshotsHideTests ==
    Published => \A i \in TaskNumbers : LET t == output.tasks[i] IN
        \A tree \in {t.clean, t.buggy, t.reference} : \A p \in Hidden : tree[p] = Absent

(* The outcome tells whether the bundle is there, and nothing temporary      *)
(* stays behind a run that could clean up.                                   *)
PreparationOutcomeIsTrue ==
    /\ preparing = "done" => Published /\ ~scratch
    /\ Published => preparing \in {"sweep", "done", "failed", "killed"}
    /\ preparing = "failed" /\ ~scratch => ~Published

(* A preparation publishes tasks an agent can repair and cannot look up, or  *)
(* it says that it failed.                                                   *)
PreparationIsSound ==
    /\ PublishedTasksAreRepairable
    /\ SnapshotsHideTests
    /\ PreparationOutcomeIsTrue

(* "Mutations that touch hidden tests ... stop the whole publication."       *)
MutationsSpareHiddenTests ==
    Published => \A i \in TaskNumbers : \A p \in Hidden : mutation[i][p] = Clean[p]
=============================================================================
