--------------------------- MODULE CollectorContract ---------------------------
(***************************************************************************)
(* What one run directory promises the trainer, without files, processes   *)
(* or crashes: candidates are graded one after another, each once; when    *)
(* all are, the tasks of which every candidate is trainable are published, *)
(* once and for all; a GRPO job binds the published tasks or nothing.      *)
(***************************************************************************)
EXTENDS Integers

CONSTANTS
    TaskCount,   \* tasks of the run
    GroupSize    \* candidates of each task

VARIABLES
    grades,     \* grades[t][c] of candidate c of task t
    published,  \* the tasks offered to the trainer
    bound       \* the tasks of the GRPO job

contractVars == <<grades, published, bound>>

Nothing == [tasks |-> {}, made |-> FALSE]
Made(tasks) == [tasks |-> tasks, made |-> TRUE]

Grades == {"unseen", "trainable", "ineligible", "untraced"}

ContractInit ==
    /\ grades = [t \in 1 .. TaskCount |-> [c \in 1 .. GroupSize |-> "unseen"]]
    /\ published = Nothing
    /\ bound = Nothing

Before(t, c) == {i \in (1 .. TaskCount) \X (1 .. GroupSize) :
                    i[1] < t \/ (i[1] = t /\ i[2] < c)}

Grade(t, c, grade) ==
    /\ ~published.made
    /\ grades[t][c] = "unseen"
    /\ \A i \in Before(t, c) : grades[i[1]][i[2]] # "unseen"
    /\ grades' = [grades EXCEPT ![t] = [@ EXCEPT ![c] = grade]]
    /\ UNCHANGED <<published, bound>>

(* A group needs at least two candidates. *)
Usable(t) == GroupSize >= 2 /\ \A c \in 1 .. GroupSize : grades[t][c] = "trainable"

Publish ==
    /\ ~published.made
    /\ \A t \in 1 .. TaskCount, c \in 1 .. GroupSize : grades[t][c] # "unseen"
    /\ published' = Made({t \in 1 .. TaskCount : Usable(t)})
    /\ UNCHANGED <<grades, bound>>

Bind ==
    /\ ~bound.made
    /\ published.made /\ published.tasks # {}
    /\ bound' = published
    /\ UNCHANGED <<grades, published>>

ContractNext ==
    \/ \E t \in 1 .. TaskCount, c \in 1 .. GroupSize, grade \in Grades \ {"unseen"} :
          Grade(t, c, grade)
    \/ Publish
    \/ Bind

ContractSpec == ContractInit /\ [][ContractNext]_contractVars
=============================================================================
