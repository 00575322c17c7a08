------------------------------ MODULE GRPOTrainer ------------------------------
(***************************************************************************)
(* One output directory of the GRPO trainer: train of training/grpo.py.    *)
(*                                                                         *)
(* Every epoch takes the groups in a random order, adds the gradient of    *)
(* each of their traces to the window, and applies the window when it      *)
(* holds enough groups or the epoch ends.  What the optimizer has applied  *)
(* is the policy.  The run may stop between any two steps: by a check of   *)
(* its own, any other exception, or a signal; a later launch then meets    *)
(* what is left.                                                           *)
(***************************************************************************)
EXTENDS Integers, Sequences, FiniteSets

CONSTANTS
    Groups,             \* the rollout groups of the job
    TraceCount,         \* generation traces in a group, over all its episodes
    Epochs,             \* config.epochs
    AccumulationSteps   \* config.gradient_accumulation_steps

ASSUME TrainingAssumption ==
    /\ IsFiniteSet(Groups) /\ Groups # {}
    /\ TraceCount \in Nat \ {0}
    /\ Epochs \in Nat \ {0}
    /\ AccumulationSteps \in Nat \ {0}

VARIABLES
    pc,            \* where the process is
    spread,        \* how far the rewards of each group lie apart
    epoch,         \* from 1
    pending,       \* groups the epoch has not reached
    group,         \* the group in work
    trace,         \* its next trace
    gradient,      \* what backward() has added up since zero_grad()
    accumulated,   \* the code's count of groups in gradient
    policy,        \* the updates applied to the initial adapter
    global_update, \* the code's count of them
    schedule,      \* steps of the learning rate schedule
    disk           \* the output directory

memory == <<epoch, pending, group, trace, gradient, accumulated, policy,
            global_update, schedule>>
vars == <<pc, spread, memory, disk>>

Traces == 1 .. TraceCount

(* equal: all rewards are one number.  close: they differ, with a variance   *)
(* of at most the epsilon of grouped_standardized_advantages.  wide: more.   *)
Spreads == {"equal", "close", "wide"}

(* GRPOGroup.zero_variance *)
ZeroVariance(g) == spread[g] = "equal"
(* grouped_standardized_advantages *)
Skipped(g) == spread[g] # "wide"

NonzeroGroups == {g \in Groups : ~ZeroVariance(g)}

(* How often each trace was added, and whether one of them was beyond        *)
(* initial_log_ratio_tolerance.                                              *)
NoGradient == [weight |-> [g \in Groups |-> [t \in Traces |-> 0]], drifted |-> FALSE]

NoFile == [state |-> "absent"]
Torn == [state |-> "torn"]
File(content) == [state |-> "complete", content |-> content]
Complete(file) == file.state = "complete"

EmptyDirectory == [partial |-> FALSE, metrics |-> <<>>, checkpoints |-> <<>>,
                   adapter |-> NoFile, manifest |-> NoFile]

-----------------------------------------------------------------------------
Init ==
    /\ pc = "start"
    /\ spread \in [Groups -> Spreads]
    /\ epoch = 1 /\ pending = {} /\ group \in Groups /\ trace = 1
    /\ gradient = NoGradient /\ accumulated = 0
    /\ policy = <<>> /\ global_update = 0 /\ schedule = 0
    /\ disk = EmptyDirectory

(* A new process starts from the initial adapter. *)
Forget ==
    /\ epoch' = 1 /\ pending' = {} /\ trace' = 1
    /\ gradient' = NoGradient /\ accumulated' = 0
    /\ policy' = <<>> /\ global_update' = 0 /\ schedule' = 0
    /\ UNCHANGED group

RefusesDirectory == disk # EmptyDirectory

(* prepare_output_directory, and the partial manifest. *)
Prepare ==
    /\ pc = "start"
    /\ IF RefusesDirectory
       THEN pc' = "refused" /\ UNCHANGED disk
       ELSE pc' = "load" /\ disk' = [disk EXCEPT !.partial = TRUE]
    /\ UNCHANGED <<spread, memory>>

(* There must be something to learn. *)
Load ==
    /\ pc = "load"
    /\ NonzeroGroups # {}
    /\ pc' = "shuffle"
    /\ UNCHANGED <<spread, memory, disk>>

Shuffle ==
    /\ pc = "shuffle"
    /\ pending' = Groups
    /\ pc' = "groups"
    /\ UNCHANGED <<spread, epoch, group, trace, gradient, accumulated, policy,
                   global_update, schedule, disk>>

Line(g, skipped, stepped) ==
    [epoch |-> epoch, group |-> g, skipped |-> skipped, stepped |-> stepped]

LogSkipped_Not(g) == UNCHANGED disk
LogSkipped(g) == disk' = [disk EXCEPT !.metrics = Append(@, Line(g, TRUE, FALSE))]

SkipGroup(g) ==
    /\ pc = "groups" /\ g \in pending
    /\ Skipped(g)
    /\ pending' = pending \ {g}
    /\ LogSkipped(g)
    /\ UNCHANGED <<pc, spread, epoch, group, trace, gradient, accumulated, policy,
                   global_update, schedule>>

TakeGroup(g) ==
    /\ pc = "groups" /\ g \in pending
    /\ ~Skipped(g)
    /\ pending' = pending \ {g}
    /\ group' = g /\ trace' = 1
    /\ pc' = "trace"
    /\ UNCHANGED <<spread, epoch, gradient, accumulated, policy, global_update,
                   schedule, disk>>

(* As long as no update was applied a drifted trace means that the rollouts  *)
(* are not the policy's; afterwards drift is expected, and not looked at.    *)
DriftStops == global_update = 0

Add(g, t, drifted) ==
    [weight |-> [gradient.weight EXCEPT ![g][t] = @ + 1],
     drifted |-> gradient.drifted \/ drifted]

(* One turn of the loop over traces, up to scaled_loss.backward(). *)
Backward ==
    /\ pc = "trace"
    /\ \E drifted \in IF policy = <<>> THEN BOOLEAN ELSE {FALSE} :
          /\ ~(drifted /\ DriftStops)
          /\ gradient' = Add(group, trace, drifted)
    /\ IF trace < TraceCount
       THEN trace' = trace + 1 /\ UNCHANGED pc
       ELSE pc' = "settle" /\ UNCHANGED trace
    /\ UNCHANGED <<spread, epoch, pending, group, accumulated, policy, global_update,
                   schedule, disk>>

OptimizerStep_KeepsCount ==
    /\ policy' = Append(policy, [epoch |-> epoch, gradient |-> gradient])
    /\ gradient' = NoGradient
    /\ accumulated' = accumulated + 1
    /\ global_update' = global_update + 1
    /\ schedule' = schedule + 1

(* optimizer.step(), scheduler.step(), zero_grad() and the two counters. *)
OptimizerStep ==
    /\ policy' = Append(policy, [epoch |-> epoch, gradient |-> gradient])
    /\ gradient' = NoGradient
    /\ accumulated' = 0
    /\ global_update' = global_update + 1
    /\ schedule' = schedule + 1

WindowFull == accumulated + 1 = AccumulationSteps

SettleGroup ==
    /\ pc = "settle"
    /\ IF WindowFull
       THEN OptimizerStep
       ELSE /\ accumulated' = accumulated + 1
            /\ UNCHANGED <<gradient, policy, global_update, schedule>>
    /\ disk' = [disk EXCEPT !.metrics = Append(@, Line(group, FALSE, WindowFull))]
    /\ pc' = "groups"
    /\ UNCHANGED <<spread, epoch, pending, group, trace>>

Leftover_Dropped == FALSE
Leftover == accumulated > 0

(* The epoch's last window is applied however few groups it holds. *)
FlushEpoch ==
    /\ pc = "groups" /\ pending = {}
    /\ IF Leftover
       THEN OptimizerStep
       ELSE UNCHANGED <<gradient, accumulated, policy, global_update, schedule>>
    /\ pc' = "checkpoint"
    /\ UNCHANGED <<spread, epoch, pending, group, trace, disk>>

-----------------------------------------------------------------------------
(* save_pretrained writes a directory file by file, and the manifest is      *)
(* written in place: a run that stops meanwhile leaves it torn.              *)

BeginCheckpoint ==
    /\ pc = "checkpoint"
    /\ disk' = [disk EXCEPT !.checkpoints = Append(@, Torn)]
    /\ pc' = "checkpoint_write"
    /\ UNCHANGED <<spread, memory>>

LastEpoch_OffByOne == epoch + 1 >= Epochs
LastEpoch == epoch = Epochs

WriteCheckpoint ==
    /\ pc = "checkpoint_write"
    /\ disk' = [disk EXCEPT !.checkpoints = [@ EXCEPT ![Len(disk.checkpoints)] = File(policy)]]
    /\ IF LastEpoch
       THEN pc' = "adapter" /\ UNCHANGED epoch
       ELSE pc' = "shuffle" /\ epoch' = epoch + 1
    /\ UNCHANGED <<spread, pending, group, trace, gradient, accumulated, policy,
                   global_update, schedule>>

BeginAdapter ==
    /\ pc = "adapter"
    /\ disk' = [disk EXCEPT !.adapter = Torn]
    /\ pc' = "adapter_write"
    /\ UNCHANGED <<spread, memory>>

WriteAdapter ==
    /\ pc = "adapter_write"
    /\ disk' = [disk EXCEPT !.adapter = File(policy)]
    /\ pc' = "manifest"
    /\ UNCHANGED <<spread, memory>>

BeginManifest ==
    /\ pc = "manifest"
    /\ disk' = [disk EXCEPT !.manifest = Torn]
    /\ pc' = "manifest_write"
    /\ UNCHANGED <<spread, memory>>

WriteManifest ==
    /\ pc = "manifest_write"
    /\ disk' = [disk EXCEPT !.manifest =
                  File([zero_variance_groups |-> Cardinality(Groups \ NonzeroGroups),
                        optimizer_updates |-> global_update])]
    /\ pc' = "close"
    /\ UNCHANGED <<spread, memory>>

CloseRun ==
    /\ pc = "close"
    /\ disk' = [disk EXCEPT !.partial = FALSE]
    /\ pc' = "done"
    /\ UNCHANGED <<spread, memory>>

(* An exception, one of the checks above among them, or a signal. *)
Stop ==
    /\ pc \notin {"stopped", "refused", "done"}
    /\ pc' = "stopped"
    /\ Forget
    /\ UNCHANGED <<spread, disk>>

(* Another launch on the same directory. *)
Relaunch ==
    /\ pc \in {"stopped", "done"}
    /\ pc' = "start"
    /\ Forget
    /\ UNCHANGED <<spread, disk>>

Done == pc = "refused" /\ UNCHANGED vars

Next ==
    \/ Prepare \/ Load \/ Shuffle
    \/ \E g \in Groups : SkipGroup(g) \/ TakeGroup(g)
    \/ Backward \/ SettleGroup \/ FlushEpoch
    \/ BeginCheckpoint \/ WriteCheckpoint \/ BeginAdapter \/ WriteAdapter
    \/ BeginManifest \/ WriteManifest \/ CloseRun
    \/ Stop \/ Relaunch \/ Done

Spec == Init /\ [][Next]_vars

-----------------------------------------------------------------------------
(* Properties *)

Locations == {"start", "load", "shuffle", "groups", "trace", "settle", "checkpoint",
              "checkpoint_write", "adapter", "adapter_write", "manifest",
              "manifest_write", "close", "done", "stopped", "refused"}

Gradients == [weight : [Groups -> [Traces -> Nat]], drifted : BOOLEAN]
Policies == Seq([epoch : 1 .. Epochs, gradient : Gradients])
Files(contents) == [state : {"complete"}, content : contents] \cup {NoFile, Torn}

Directories ==
    [partial : BOOLEAN,
     metrics : Seq([epoch : 1 .. Epochs, group : Groups,
                    skipped : BOOLEAN, stepped : BOOLEAN]),
     checkpoints : Seq(Files(Policies)), adapter : Files(Policies),
     manifest : Files([zero_variance_groups : Nat, optimizer_updates : Nat])]

(* The type invariant: the window never outgrows its number of groups. *)
TypeOK ==
    /\ pc \in Locations
    /\ spread \in [Groups -> Spreads]
    /\ epoch \in 1 .. Epochs
    /\ pending \subseteq Groups /\ group \in Groups /\ trace \in Traces
    /\ gradient \in Gradients
    /\ accumulated \in 0 .. AccumulationSteps - 1
    /\ policy \in Policies /\ global_update \in Nat /\ schedule \in Nat
    /\ disk \in Directories

(* The groups that put weight into an update. *)
Trained(update) == {g \in Groups : \E t \in Traces : update.gradient.weight[g][t] # 0}

Covering(updates, e, g) ==
    {i \in DOMAIN updates : updates[i].epoch = e /\ g \in Trained(updates[i])}

(* A policy that has been through epochs 1 to e: each group with an          *)
(* advantage is in exactly one update of each epoch, there with each of its  *)
(* traces once, and no other group is in any.                                *)
Covers(updates, e) ==
    \A d \in 1 .. e, g \in Groups :
        Cardinality(Covering(updates, d, g)) = IF Skipped(g) THEN 0 ELSE 1
Whole(update) ==
    \A g \in Trained(update), t \in Traces : update.gradient.weight[g][t] = 1

(* Every checkpoint holds just that, and nothing of a later epoch: no        *)
(* gradient is lost when an epoch ends, left over for the next one, applied  *)
(* twice, or applied in part.                                                *)
EpochsTrainGroupsOnce ==
    \A e \in DOMAIN disk.checkpoints : Complete(disk.checkpoints[e]) =>
        LET updates == disk.checkpoints[e].content
        IN  /\ \A i \in DOMAIN updates : updates[i].epoch <= e /\ Whole(updates[i])
            /\ Covers(updates, e)

(* An update is scaled for gradient_accumulation_steps groups: it never has  *)
(* more, and fewer only at the end of an epoch.                              *)
UpdatesAreFull ==
    \A i \in DOMAIN policy :
        /\ Cardinality(Trained(policy[i])) \in 1 .. AccumulationSteps
        /\ i < Len(policy) /\ policy[i + 1].epoch = policy[i].epoch =>
              Cardinality(Trained(policy[i])) = AccumulationSteps

(* The update that leaves the initial adapter rests on traces that the       *)
(* initial adapter produced, all of them, not only the first.                *)
FirstUpdateIsOnPolicy == policy # <<>> => ~policy[1].gradient.drifted

UpdatesPerEpoch ==
    (Cardinality(NonzeroGroups) + AccumulationSteps - 1) \div AccumulationSteps

(* The learning rate schedule is planned before training and never runs past *)
(* its end; when no group is merely close, it ends exactly with the run.     *)
ScheduleFitsRun ==
    /\ schedule <= UpdatesPerEpoch * Epochs
    /\ pc = "done" /\ (\A g \in Groups : spread[g] # "close") =>
          schedule = UpdatesPerEpoch * Epochs

(* A completed run has a complete checkpoint of every epoch, and its adapter *)
(* is that of the last one, with as many updates as the manifest says.       *)
CompletedRunIsComplete ==
    Complete(disk.manifest) =>
        /\ Len(disk.checkpoints) = Epochs
        /\ \A e \in 1 .. Epochs : Complete(disk.checkpoints[e])
        /\ disk.adapter = disk.checkpoints[Epochs]
        /\ disk.manifest.content.optimizer_updates = Len(disk.adapter.content)

(* The metrics of a completed run have one line for each group in each       *)
(* epoch, which calls a group skipped exactly when the adapter learned       *)
(* nothing from it.                                                          *)
MetricsTellWhatWasLearned ==
    Complete(disk.manifest) =>
        \A e \in 1 .. Epochs, g \in Groups :
            LET lines == {n \in DOMAIN disk.metrics :
                             disk.metrics[n].epoch = e /\ disk.metrics[n].group = g}
                learned == \E i \in DOMAIN disk.adapter.content :
                              /\ disk.adapter.content[i].epoch = e
                              /\ g \in Trained(disk.adapter.content[i])
            IN  /\ Cardinality(lines) = 1
                /\ \A n \in lines : disk.metrics[n].skipped <=> ~learned

(* What is learned is learned from the groups as they were sampled: once in  *)
(* each epoch, whole, and beginning with the policy that sampled them.       *)
LearningIsSound == EpochsTrainGroupsOnce /\ FirstUpdateIsOnPolicy

(* What a run plans and reports of its updates is what they are: each is     *)
(* over a full window or the epoch's last, the learning-rate schedule lasts  *)
(* for them and not longer, and the metrics say what was learned in them.    *)
UpdatesAreTold ==
    /\ UpdatesAreFull
    /\ ScheduleFitsRun
    /\ MetricsTellWhatWasLearned

(* The files of a completed run never change again. *)
CompletedIsImmutable ==
    [][Complete(disk.manifest) => disk' \in {disk, [disk EXCEPT !.partial = FALSE]}]_vars

(* Contradicted by the code: a run that completes has learned something,     *)
(* since one without any variance in its rewards is refused.                 *)
CompletedRunLearned == Complete(disk.manifest) => disk.adapter.content # <<>>
=============================================================================
