------------------------------- MODULE Collector -------------------------------
(***************************************************************************)
(* One run directory of the rollout collector: collect of                  *)
(* rollouts/collector.py, every launch that works on the directory, and    *)
(* the script that hands its groups to the trainer                         *)
(* (cloud/scripts/prepare_grpo_job.sh).                                    *)
(*                                                                         *)
(* A launch runs the candidates of every task one after another, keeps its *)
(* accounts in memory and its files on disk.  It may stop between any two  *)
(* of its steps: any exception ends it, and so does its watchdog; a later  *)
(* launch then meets what is left.  One action is one stretch of code up   *)
(* to one change of the directory.                                         *)
(***************************************************************************)
EXTENDS Integers, Sequences, FiniteSets

CONSTANTS
    TaskCount,    \* tasks in the tasks file
    GroupSize,    \* config.group_size
    Launches,     \* calls of collect() with this run_id
    Overlapping   \* may a launch begin while another one works

ASSUME CollectionAssumption ==
    /\ TaskCount \in Nat \ {0}
    /\ GroupSize \in Nat \ {0}
    /\ Overlapping \in BOOLEAN

VARIABLES
    pc,        \* where each launch is
    task,      \* task_index, from 1
    candidate, \* candidate_index, from 1
    rollout,   \* the candidate's trajectory and verification
    memory,    \* the accounts of each launch
    disk,      \* the run directory
    job        \* the groups bound into a GRPO job

vars == <<pc, task, candidate, rollout, memory, disk, job>>

Tasks == 1 .. TaskCount
Candidates == 1 .. GroupSize

Working == {"policy", "run", "store", "verify", "evidence", "verification",
            "score", "group", "evaluation", "evaluation_replace", "groups",
            "groups_replace", "manifest", "manifest_write", "close"}
Locations == Working \cup {"idle", "done", "stopped"}

(* A trajectory ID is a fresh UUID: one per candidate and launch. *)
Ids == [launch : Launches, task : Tasks, candidate : Candidates]
Id(l) == [launch |-> l, task |-> task[l], candidate |-> candidate[l]]

(* What the collector reads of a trajectory.  infrastructure: its reason is  *)
(* one of _INFRASTRUCTURE_TERMINATIONS.  Otherwise, traced: it has events,   *)
(* each with its generation trace, and an adapter.                           *)
Trajectories == {"infrastructure", "untraced", "traced"}
Statuses == {"none", "pass", "agent_failure", "infrastructure_error"}
Verdicts == Statuses \ {"none"}
Rollouts == [trajectory : Trajectories, status : Statuses]
NoRollout == [trajectory |-> "infrastructure", status |-> "none"]

NoAccounts == [records |-> <<>>, episodes |-> <<>>, groups |-> <<>>,
               dropped |-> <<>>, exclusions |-> <<>>]

(* absent: no such file.  torn: opened for writing, not yet written. *)
NoFile == [state |-> "absent"]
Torn == [state |-> "torn"]
File(content) == [state |-> "complete", content |-> content]
Complete(file) == file.state = "complete"

EmptyDirectory ==
    [partial |-> FALSE, trajectories |-> {}, evidence |-> {},
     verifications |-> {}, rewards |-> {}, evaluation_tmp |-> NoFile,
     evaluation |-> NoFile, groups_tmp |-> NoFile, groups |-> NoFile,
     manifest |-> NoFile]

-----------------------------------------------------------------------------
Init ==
    /\ pc = [l \in Launches |-> "idle"]
    /\ task = [l \in Launches |-> 1]
    /\ candidate = [l \in Launches |-> 1]
    /\ rollout = [l \in Launches |-> NoRollout]
    /\ memory = [l \in Launches |-> NoAccounts]
    /\ disk = EmptyDirectory
    /\ job = NoFile

Goto(l, loc) == pc' = [pc EXCEPT ![l] = loc]
Alone(l) == \A m \in Launches \ {l} : pc[m] \notin Working

RefusesDirectory == disk # EmptyDirectory

(* The directory must be empty; creating the policy then takes its time. *)
Launch(l) ==
    /\ pc[l] = "idle"
    /\ Overlapping \/ Alone(l)
    /\ IF RefusesDirectory THEN Goto(l, "stopped") ELSE Goto(l, "policy")
    /\ UNCHANGED <<task, candidate, rollout, memory, disk, job>>

OpenRun(l) ==
    /\ pc[l] = "policy"
    /\ disk' = [disk EXCEPT !.partial = TRUE]
    /\ Goto(l, "run")
    /\ UNCHANGED <<task, candidate, rollout, memory, job>>

(* AgentRunner.run. *)
RunAgent(l) ==
    /\ pc[l] = "run"
    /\ \E trajectory \in Trajectories :
          rollout' = [rollout EXCEPT ![l] = [trajectory |-> trajectory, status |-> "none"]]
    /\ Goto(l, "store")
    /\ UNCHANGED <<task, candidate, memory, disk, job>>

StoreTrajectory(l) ==
    /\ pc[l] = "store"
    /\ disk' = [disk EXCEPT !.trajectories = @ \cup
                  {[id |-> Id(l), trajectory |-> rollout[l].trajectory]}]
    /\ IF rollout[l].trajectory = "infrastructure" THEN Goto(l, "score") ELSE Goto(l, "verify")
    /\ UNCHANGED <<task, candidate, rollout, memory, job>>

(* Verifier.verify, by its contract; when it raises, the launch stops. *)
Verify(l) ==
    /\ pc[l] = "verify"
    /\ \E status \in Verdicts : rollout' = [rollout EXCEPT ![l] = [@ EXCEPT !.status = status]]
    /\ Goto(l, "evidence")
    /\ UNCHANGED <<task, candidate, memory, disk, job>>

(* Evidence is addressed by content, which does not name the trajectory. *)
StoreEvidence(l) ==
    /\ pc[l] = "evidence"
    /\ disk' = [disk EXCEPT !.evidence = @ \cup
                  {[task |-> task[l], status |-> rollout[l].status]}]
    /\ Goto(l, "verification")
    /\ UNCHANGED <<task, candidate, rollout, memory, job>>

StoreVerification(l) ==
    /\ pc[l] = "verification"
    /\ disk' = [disk EXCEPT !.verifications = @ \cup
                  {[id |-> Id(l), status |-> rollout[l].status]}]
    /\ Goto(l, "score")
    /\ UNCHANGED <<task, candidate, rollout, memory, job>>

(* reward.eligible_for_training *)
Eligible_VerifiedAtAll(r) == r.status # "none"
Eligible(r) == r.trajectory # "infrastructure" /\ r.status \in {"pass", "agent_failure"}

(* An eligible candidate becomes an episode, or is excluded when its trace   *)
(* is incomplete.                                                            *)
Admit_Silently(accounts, r, id) ==
    IF Eligible(r) /\ r.trajectory = "traced"
    THEN [accounts EXCEPT !.episodes = Append(@, id)]
    ELSE accounts
Admit(accounts, r, id) ==
    IF ~Eligible(r) THEN accounts
    ELSE IF r.trajectory = "traced" THEN [accounts EXCEPT !.episodes = Append(@, id)]
    ELSE [accounts EXCEPT !.exclusions = Append(@, id)]

Record(accounts, id) == [accounts EXCEPT !.records = Append(@, id)]

ScoreCandidate(l) ==
    /\ pc[l] = "score"
    /\ disk' = [disk EXCEPT !.rewards = @ \cup
                  {[id |-> Id(l), eligible |-> Eligible(rollout[l])]}]
    /\ memory' = [memory EXCEPT ![l] =
                    Admit(Record(memory[l], Id(l)), rollout[l], Id(l))]
    /\ IF candidate[l] < GroupSize
       THEN candidate' = [candidate EXCEPT ![l] = @ + 1] /\ Goto(l, "run")
       ELSE candidate' = [candidate EXCEPT ![l] = 1] /\ Goto(l, "group")
    /\ UNCHANGED <<task, rollout, job>>

Trainable(episodes) == Len(episodes) = GroupSize /\ Len(episodes) >= 2

(* Only a complete group is kept; a group of one is neither kept nor dropped. *)
SettleGroup_KeepsEpisodes(accounts, t) ==
    IF Trainable(accounts.episodes)
    THEN [accounts EXCEPT !.groups = Append(@, accounts.episodes)]
    ELSE [accounts EXCEPT !.dropped = Append(@, [task |-> t,
                                                 trainable |-> Len(accounts.episodes)])]
SettleGroup(accounts, t) ==
    IF Trainable(accounts.episodes)
    THEN [accounts EXCEPT !.groups = Append(@, accounts.episodes), !.episodes = <<>>]
    ELSE IF GroupSize >= 2
    THEN [accounts EXCEPT !.dropped = Append(@, [task |-> t,
                                                 trainable |-> Len(accounts.episodes)]),
                          !.episodes = <<>>]
    ELSE [accounts EXCEPT !.episodes = <<>>]

CloseGroup(l) ==
    /\ pc[l] = "group"
    /\ memory' = [memory EXCEPT ![l] = SettleGroup(memory[l], task[l])]
    /\ IF task[l] < TaskCount
       THEN task' = [task EXCEPT ![l] = @ + 1] /\ Goto(l, "run")
       ELSE UNCHANGED task /\ Goto(l, "evaluation")
    /\ UNCHANGED <<candidate, rollout, disk, job>>

-----------------------------------------------------------------------------
(* The end of a run.  write_jsonl writes a temporary file of a fixed name,   *)
(* then replaces the target by it.                                           *)

HasGroups(accounts) == accounts.groups # <<>>

WriteEvaluation(l) ==
    /\ pc[l] = "evaluation"
    /\ disk' = [disk EXCEPT !.evaluation_tmp = File(memory[l].records)]
    /\ Goto(l, "evaluation_replace")
    /\ UNCHANGED <<task, candidate, rollout, memory, job>>

ReplaceEvaluation(l) ==
    /\ pc[l] = "evaluation_replace" /\ Complete(disk.evaluation_tmp)
    /\ disk' = [disk EXCEPT !.evaluation = disk.evaluation_tmp, !.evaluation_tmp = NoFile]
    /\ IF HasGroups(memory[l]) THEN Goto(l, "groups") ELSE Goto(l, "manifest")
    /\ UNCHANGED <<task, candidate, rollout, memory, job>>

WriteGroups(l) ==
    /\ pc[l] = "groups"
    /\ disk' = [disk EXCEPT !.groups_tmp = File(memory[l].groups)]
    /\ Goto(l, "groups_replace")
    /\ UNCHANGED <<task, candidate, rollout, memory, job>>

ReplaceGroups(l) ==
    /\ pc[l] = "groups_replace" /\ Complete(disk.groups_tmp)
    /\ disk' = [disk EXCEPT !.groups = disk.groups_tmp, !.groups_tmp = NoFile]
    /\ Goto(l, "manifest")
    /\ UNCHANGED <<task, candidate, rollout, memory, job>>

Manifest(accounts) ==
    [trajectories |-> Len(accounts.records), groups |-> Len(accounts.groups),
     dropped |-> accounts.dropped, exclusions |-> accounts.exclusions]

OpenManifest_RemovesPartial == [disk EXCEPT !.manifest = Torn, !.partial = FALSE]
OpenManifest == [disk EXCEPT !.manifest = Torn]

(* The manifest is written in place: a launch that stops here leaves a       *)
(* manifest no reader can parse.                                             *)
BeginManifest(l) ==
    /\ pc[l] = "manifest"
    /\ disk' = OpenManifest
    /\ Goto(l, "manifest_write")
    /\ UNCHANGED <<task, candidate, rollout, memory, job>>

WriteManifest(l) ==
    /\ pc[l] = "manifest_write"
    /\ disk' = [disk EXCEPT !.manifest = File(Manifest(memory[l]))]
    /\ Goto(l, "close")
    /\ UNCHANGED <<task, candidate, rollout, memory, job>>

CloseRun(l) ==
    /\ pc[l] = "close" /\ disk.partial
    /\ disk' = [disk EXCEPT !.partial = FALSE]
    /\ Goto(l, "done")
    /\ UNCHANGED <<task, candidate, rollout, memory, job>>

(* An exception, SIGTERM or SIGKILL: what was in memory is gone. *)
Stop(l) ==
    /\ pc[l] \in Working
    /\ Goto(l, "stopped")
    /\ task' = [task EXCEPT ![l] = 1]
    /\ candidate' = [candidate EXCEPT ![l] = 1]
    /\ rollout' = [rollout EXCEPT ![l] = NoRollout]
    /\ memory' = [memory EXCEPT ![l] = NoAccounts]
    /\ UNCHANGED <<disk, job>>

(* prepare_grpo_job.sh: a readable manifest and group file that agree on the *)
(* number of groups.  It never overwrites a job.                             *)
Bindable_WithoutManifest == Complete(disk.groups)
Bindable ==
    /\ Complete(disk.manifest) /\ Complete(disk.groups)
    /\ disk.manifest.content.groups = Len(disk.groups.content)

BindJob ==
    /\ job = NoFile
    /\ Bindable
    /\ job' = disk.groups
    /\ UNCHANGED <<pc, task, candidate, rollout, memory, disk>>

LaunchStep(l) ==
    \/ Launch(l) \/ OpenRun(l) \/ RunAgent(l) \/ StoreTrajectory(l) \/ Verify(l)
    \/ StoreEvidence(l) \/ StoreVerification(l) \/ ScoreCandidate(l) \/ CloseGroup(l)
    \/ WriteEvaluation(l) \/ ReplaceEvaluation(l) \/ WriteGroups(l) \/ ReplaceGroups(l)
    \/ BeginManifest(l) \/ WriteManifest(l) \/ CloseRun(l)

(* Nobody works on the directory any more. *)
Done ==
    /\ \A l \in Launches : pc[l] \in {"done", "stopped"}
    /\ UNCHANGED vars

Next == (\E l \in Launches : LaunchStep(l) \/ Stop(l)) \/ BindJob \/ Done

Spec == Init /\ [][Next]_vars

-----------------------------------------------------------------------------
(* Properties *)

DroppedGroups == [task : Tasks, trainable : 0 .. GroupSize]

Accounts ==
    [records : Seq(Ids), episodes : Seq(Ids), groups : Seq(Seq(Ids)),
     dropped : Seq(DroppedGroups), exclusions : Seq(Ids)]

Manifests ==
    [trajectories : Nat, groups : Nat,
     dropped : Seq(DroppedGroups), exclusions : Seq(Ids)]

Files(contents) == [state : {"complete"}, content : contents] \cup {NoFile, Torn}

Directories ==
    [partial : BOOLEAN,
     trajectories : SUBSET [id : Ids, trajectory : Trajectories],
     evidence : SUBSET [task : Tasks, status : Statuses],
     verifications : SUBSET [id : Ids, status : Statuses],
     rewards : SUBSET [id : Ids, eligible : BOOLEAN],
     evaluation_tmp : Files(Seq(Ids)), evaluation : Files(Seq(Ids)),
     groups_tmp : Files(Seq(Seq(Ids))), groups : Files(Seq(Seq(Ids))),
     manifest : Files(Manifests)]

(* The type invariant: accounts and files hold candidates of this run, and a *)
(* group under construction never more than group_size of them.              *)
TypeOK ==
    /\ pc \in [Launches -> Locations]
    /\ task \in [Launches -> Tasks]
    /\ candidate \in [Launches -> Candidates]
    /\ rollout \in [Launches -> Rollouts]
    /\ memory \in [Launches -> Accounts]
    /\ \A l \in Launches : Len(memory[l].episodes) <= GroupSize
    /\ disk \in Directories
    /\ job \in Files(Seq(Seq(Ids)))

(* Candidate id may be trained on: its files say that the rollout is not an  *)
(* infrastructure failure and is traced, that its verification gave a        *)
(* verdict, and that its reward is eligible.                                 *)
Sound(id) ==
    /\ [id |-> id, trajectory |-> "traced"] \in disk.trajectories
    /\ \E v \in disk.verifications : v.id = id /\ v.status \in {"pass", "agent_failure"}
    /\ [id |-> id, eligible |-> TRUE] \in disk.rewards

(* A group holds the group_size candidates of one task by one launch, all    *)
(* sound.                                                                    *)
SoundGroup(group) ==
    /\ Len(group) = GroupSize /\ GroupSize >= 2
    /\ \A i \in DOMAIN group :
          /\ group[i].candidate = i
          /\ group[i].task = group[1].task /\ group[i].launch = group[1].launch
          /\ Sound(group[i])

(* Whatever failed or was interrupted, a GRPO job holds only sound groups,   *)
(* and no task twice.                                                        *)
TrainingBatchIsSound ==
    Complete(job) =>
        /\ \A i \in DOMAIN job.content : SoundGroup(job.content[i])
        /\ \A i, j \in DOMAIN job.content :
              i # j => job.content[i][1].task # job.content[j][1].task

Groups == IF Complete(disk.groups) THEN disk.groups.content ELSE <<>>
Of(t, entries) == {i \in DOMAIN entries : entries[i].task = t}
Ineligible(t) == {r \in disk.rewards : r.id.task = t /\ ~r.eligible}

(* The manifest of a completed run accounts for every candidate of every     *)
(* task: the task has a group, or it is listed as dropped and the candidates *)
(* it lacks are exactly its exclusions and its ineligible rollouts.          *)
AccountsAddUp ==
    Complete(disk.manifest) /\ GroupSize >= 2 =>
        \A t \in Tasks :
            LET content == disk.manifest.content
                dropped == Of(t, content.dropped)
                missing == Cardinality(Of(t, content.exclusions)) + Cardinality(Ineligible(t))
            IN  IF \E i \in DOMAIN Groups : Groups[i][1].task = t
                THEN dropped = {} /\ missing = 0
                ELSE \E d \in dropped :
                        dropped = {d} /\ content.dropped[d].trainable = GroupSize - missing

(* A directory whose manifest says completed has all its files: the records  *)
(* of all candidates in order, whose trajectories and rewards are stored,    *)
(* and as many groups as it says.                                            *)
CompletedRunIsComplete ==
    Complete(disk.manifest) =>
        /\ Complete(disk.evaluation)
        /\ Len(disk.evaluation.content) = TaskCount * GroupSize
        /\ disk.manifest.content.trajectories = TaskCount * GroupSize
        /\ \A t \in Tasks, c \in Candidates :
              LET id == disk.evaluation.content[(t - 1) * GroupSize + c]
              IN  /\ id.task = t /\ id.candidate = c
                  /\ \E stored \in disk.trajectories : stored.id = id
                  /\ \E reward \in disk.rewards : reward.id = id
        /\ Len(Groups) = disk.manifest.content.groups

(* A run that was interrupted is never taken for a completed one nor for one *)
(* that has not begun: the partial manifest is there until the final one is. *)
InterruptedRunIsVisible ==
    disk # EmptyDirectory => disk.partial \/ Complete(disk.manifest)

(* All files of a directory come from one launch; nothing is merged.         *)
DirectoryHasOneRun ==
    \A x, y \in disk.trajectories \cup disk.verifications \cup disk.rewards :
        x.id.launch = y.id.launch

(* The manifest of a completed run is an account of every candidate: all     *)
(* outcomes are there, and what it counts adds up to the files beside it.    *)
CompletedRunIsTrue ==
    /\ CompletedRunIsComplete
    /\ AccountsAddUp

(* What lies in a run directory comes from one launch, and a launch that did *)
(* not complete cannot be mistaken for one that did.                         *)
DirectoryIsOneRuns ==
    /\ InterruptedRunIsVisible
    /\ DirectoryHasOneRun

(* Once a run is completed its files never change again.                     *)
CompletedIsImmutable ==
    [][Complete(disk.manifest) => disk' \in {disk, [disk EXCEPT !.partial = FALSE]}]_vars

(* The directory as its readers see it: a candidate is graded when its       *)
(* reward is stored, the groups are published when the manifest says so.     *)
GradesOf(t, c) ==
    {IF ~reward.eligible THEN "ineligible"
     ELSE IF [id |-> reward.id, trajectory |-> "traced"] \in disk.trajectories
     THEN "trainable" ELSE "untraced"
        : reward \in {r \in disk.rewards : r.id.task = t /\ r.id.candidate = c}}

TasksOf(groups) == {groups[i][1].task : i \in DOMAIN groups}

Graded ==
    [t \in Tasks |-> [c \in Candidates |->
        IF GradesOf(t, c) = {} THEN "unseen" ELSE CHOOSE g \in GradesOf(t, c) : TRUE]]

Offered(made, groups) == [tasks |-> IF made THEN TasksOf(groups) ELSE {}, made |-> made]
Published == Offered(Complete(disk.manifest), Groups)
Bound == Offered(Complete(job), job.content)

Contract == INSTANCE CollectorContract WITH
    grades <- Graded, published <- Published, bound <- Bound

(* As long as launches do not overlap, the directory keeps the contract of   *)
(* CollectorContract, through every crash and relaunch.                      *)
KeepsContract == Contract!ContractSpec
=============================================================================
