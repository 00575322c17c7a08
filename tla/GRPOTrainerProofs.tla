-------------------------- MODULE GRPOTrainerProofs --------------------------
(***************************************************************************)
(* Safety of GRPOTrainer for any groups, traces, epochs and window.        *)
(***************************************************************************)
EXTENDS GRPOTrainer, FiniteSetTheorems, TLAPS

LEMMA NoGradientType == NoGradient \in Gradients
BY DEF NoGradient, Gradients

LEMMA Increment ==
    ASSUME NEW S, NEW T, NEW w \in [S -> [T -> Nat]], NEW s \in S, NEW t \in T
    PROVE  /\ [w EXCEPT ![s][t] = @ + 1] \in [S -> [T -> Nat]]
           /\ \A q \in S, u \in T :
                 [w EXCEPT ![s][t] = @ + 1][q][u] =
                    IF q = s /\ u = t THEN w[q][u] + 1 ELSE w[q][u]
OBVIOUS

(* Adding one trace. *)
LEMMA AddType ==
    ASSUME TypeOK, NEW drifted \in BOOLEAN
    PROVE  /\ Add(group, trace, drifted) \in Gradients
           /\ \A g \in Groups, t \in Traces :
                 Add(group, trace, drifted).weight[g][t] =
                    IF g = group /\ t = trace THEN gradient.weight[g][t] + 1
                                             ELSE gradient.weight[g][t]
<1>1. gradient.weight \in [Groups -> [Traces -> Nat]] /\ gradient.drifted \in BOOLEAN
  BY DEF TypeOK, Gradients
<1>2. group \in Groups /\ trace \in Traces
  BY DEF TypeOK
<1>5. [gradient.weight EXCEPT ![group][trace] = @ + 1] \in [Groups -> [Traces -> Nat]]
  BY <1>1, <1>2, Increment
<1>6. gradient.drifted \/ drifted \in BOOLEAN
  OBVIOUS
<1>7. QED
  BY <1>1, <1>2, <1>5, <1>6, Increment DEF Add, Gradients

(* Appending to a sequence, and replacing its last element. *)
LEMMA AppendFacts ==
    ASSUME NEW S, NEW s \in Seq(S), NEW e \in S
    PROVE  /\ Append(s, e) \in Seq(S)
           /\ Len(Append(s, e)) = Len(s) + 1
           /\ DOMAIN Append(s, e) = 1 .. Len(s) + 1
           /\ \A i \in 1 .. Len(s) : Append(s, e)[i] = s[i]
           /\ Append(s, e)[Len(s) + 1] = e
OBVIOUS

LEMMA Elements ==
    ASSUME NEW S, NEW s \in Seq(S) PROVE \A i \in DOMAIN s : s[i] \in S
OBVIOUS

LEMMA ReplaceFacts ==
    ASSUME NEW S, NEW s \in Seq(S), NEW n \in Nat, NEW e \in S
    PROVE  /\ [s EXCEPT ![n] = e] \in Seq(S)
           /\ Len([s EXCEPT ![n] = e]) = Len(s)
           /\ \A i \in 1 .. Len(s) : [s EXCEPT ![n] = e][i] = IF i = n THEN e ELSE s[i]
<1>1. s \in [1 .. Len(s) -> S] /\ Len(s) \in Nat
  OBVIOUS
<1>2. [s EXCEPT ![n] = e] \in [1 .. Len(s) -> S]
  BY <1>1
<1>3. \A f \in [1 .. Len(s) -> S] : f \in Seq(S) /\ Len(f) = Len(s)
  BY <1>1
<1>4. QED
  BY <1>1, <1>2, <1>3

(* The optimizer's step adds one update of the current epoch. *)
LEMMA StepType ==
    ASSUME TypeOK, OptimizerStep
    PROVE  /\ policy' \in Policies /\ gradient' \in Gradients
           /\ accumulated' \in 0 .. AccumulationSteps - 1
           /\ global_update' \in Nat /\ schedule' \in Nat
<1>1. [epoch |-> epoch, gradient |-> gradient] \in
         [epoch : 1 .. Epochs, gradient : Gradients]
  BY DEF TypeOK
<1>2. policy' \in Policies
  BY <1>1, AppendFacts DEF OptimizerStep, TypeOK, Policies
<1>3. QED
  BY <1>2, NoGradientType, TrainingAssumption
  DEF OptimizerStep, TypeOK, TrainingAssumption

(* Each field of the directory. *)
LEMMA DiskType ==
    ASSUME TypeOK
    PROVE  /\ disk.partial \in BOOLEAN
           /\ disk.metrics \in Seq([epoch : 1 .. Epochs, group : Groups,
                                    skipped : BOOLEAN, stepped : BOOLEAN])
           /\ disk.checkpoints \in Seq(Files(Policies))
           /\ disk.adapter \in Files(Policies)
           /\ disk.manifest \in Files([zero_variance_groups : Nat,
                                       optimizer_updates : Nat])
           /\ disk = [partial |-> disk.partial, metrics |-> disk.metrics,
                      checkpoints |-> disk.checkpoints, adapter |-> disk.adapter,
                      manifest |-> disk.manifest]
BY DEF TypeOK, Directories

LEMMA PolicyFile == ASSUME TypeOK PROVE File(policy) \in Files(Policies)
BY DEF TypeOK, File, Files

LEMMA LogType ==
    ASSUME TypeOK, NEW g \in Groups, NEW skipped \in BOOLEAN, NEW stepped \in BOOLEAN
    PROVE  [disk EXCEPT !.metrics = Append(@, Line(g, skipped, stepped))] \in Directories
<1>1. Line(g, skipped, stepped) \in
         [epoch : 1 .. Epochs, group : Groups, skipped : BOOLEAN, stepped : BOOLEAN]
  BY DEF Line, TypeOK
<1>2. Append(disk.metrics, Line(g, skipped, stepped)) \in
         Seq([epoch : 1 .. Epochs, group : Groups, skipped : BOOLEAN, stepped : BOOLEAN])
  BY <1>1, DiskType, AppendFacts
<1>3. QED
  BY <1>2, DiskType DEF TypeOK, Directories

LEMMA TypeInit == Init => TypeOK
<1> SUFFICES ASSUME Init PROVE TypeOK
  OBVIOUS
<1>1. disk \in Directories
  BY DEF Init, EmptyDirectory, Directories, NoFile, Files
<1>2. QED
  BY <1>1, NoGradientType, TrainingAssumption
  DEF Init, TypeOK, Locations, Traces, TrainingAssumption, Policies

LEMMA TypeStep == TypeOK /\ [Next]_vars => TypeOK'
<1> SUFFICES ASSUME TypeOK, [Next]_vars PROVE TypeOK'
  OBVIOUS
<1>1. CASE Prepare
  BY <1>1, DiskType DEF Prepare, TypeOK, Directories, Locations, memory
<1>2. CASE Load \/ Shuffle
  BY <1>2 DEF Load, Shuffle, TypeOK, Locations, memory
<1>3. ASSUME NEW g \in Groups, SkipGroup(g) PROVE TypeOK'
  <2>1. disk' \in Directories
    BY <1>3, LogType DEF SkipGroup, LogSkipped
  <2>2. QED
    BY <1>3, <2>1 DEF SkipGroup, TypeOK
<1>4. ASSUME NEW g \in Groups, TakeGroup(g) PROVE TypeOK'
  BY <1>4, TrainingAssumption DEF TakeGroup, TypeOK, Locations, Traces, TrainingAssumption
<1>5. CASE Backward
  <2>1. gradient' \in Gradients
    BY <1>5, AddType DEF Backward
  <2>2. trace' \in Traces /\ pc' \in Locations
    BY <1>5, TrainingAssumption DEF Backward, TypeOK, Locations, Traces, TrainingAssumption
  <2>3. QED
    BY <1>5, <2>1, <2>2 DEF Backward, TypeOK
<1>6. CASE SettleGroup
  <2>1. WindowFull \in BOOLEAN
    BY DEF WindowFull
  <2>2. disk' \in Directories
    BY <1>6, <2>1, LogType DEF SettleGroup, TypeOK
  <2>3. /\ policy' \in Policies /\ gradient' \in Gradients
        /\ accumulated' \in 0 .. AccumulationSteps - 1
        /\ global_update' \in Nat /\ schedule' \in Nat
    <3>1. CASE WindowFull
      BY <1>6, <3>1, StepType DEF SettleGroup
    <3>2. CASE ~WindowFull
      BY <1>6, <3>2, TrainingAssumption
      DEF SettleGroup, TypeOK, WindowFull, TrainingAssumption
    <3>3. QED
      BY <3>1, <3>2
  <2>4. QED
    BY <1>6, <2>2, <2>3 DEF SettleGroup, TypeOK, Locations
<1>7. CASE FlushEpoch
  <2>1. /\ policy' \in Policies /\ gradient' \in Gradients
        /\ accumulated' \in 0 .. AccumulationSteps - 1
        /\ global_update' \in Nat /\ schedule' \in Nat
    BY <1>7, StepType DEF FlushEpoch, TypeOK
  <2>2. QED
    BY <1>7, <2>1 DEF FlushEpoch, TypeOK, Locations
<1>8. CASE BeginCheckpoint
  <2>1. Append(disk.checkpoints, Torn) \in Seq(Files(Policies))
    BY DiskType, AppendFacts DEF Files
  <2>2. disk' \in Directories
    BY <1>8, <2>1, DiskType DEF BeginCheckpoint, Directories, TypeOK
  <2>3. QED
    BY <1>8, <2>2 DEF BeginCheckpoint, TypeOK, Locations, memory
<1>9. CASE WriteCheckpoint
  <2>1. [disk.checkpoints EXCEPT ![Len(disk.checkpoints)] = File(policy)] \in
           Seq(Files(Policies))
    BY DiskType, PolicyFile, ReplaceFacts
  <2>2. disk' \in Directories
    BY <1>9, <2>1, DiskType DEF WriteCheckpoint, Directories, TypeOK
  <2>3. epoch' \in 1 .. Epochs
    BY <1>9, TrainingAssumption DEF WriteCheckpoint, LastEpoch, TypeOK, TrainingAssumption
  <2>4. QED
    BY <1>9, <2>2, <2>3 DEF WriteCheckpoint, TypeOK, Locations
<1>10. CASE BeginAdapter \/ WriteAdapter
  <2>1. disk' \in Directories
    BY <1>10, DiskType, PolicyFile DEF BeginAdapter, WriteAdapter, Directories, TypeOK, Files
  <2>2. QED
    BY <1>10, <2>1 DEF BeginAdapter, WriteAdapter, TypeOK, Locations, memory
<1>11. CASE BeginManifest
  <2>1. disk' \in Directories
    BY <1>11, DiskType DEF BeginManifest, Directories, TypeOK, Files
  <2>2. QED
    BY <1>11, <2>1 DEF BeginManifest, TypeOK, Locations, memory
<1>12. CASE WriteManifest
  <2>1. Cardinality(Groups \ NonzeroGroups) \in Nat
    BY TrainingAssumption, FS_Difference, FS_CardinalityType DEF TrainingAssumption
  <2>2. [zero_variance_groups |-> Cardinality(Groups \ NonzeroGroups),
         optimizer_updates |-> global_update] \in
           [zero_variance_groups : Nat, optimizer_updates : Nat]
    BY <2>1 DEF TypeOK
  <2>3. disk' \in Directories
    BY <1>12, <2>2, DiskType DEF WriteManifest, Directories, TypeOK, Files, File
  <2>4. QED
    BY <1>12, <2>3 DEF WriteManifest, TypeOK, Locations, memory
<1>13. CASE CloseRun
  <2>1. disk' \in Directories
    BY <1>13, DiskType DEF CloseRun, Directories, TypeOK
  <2>2. QED
    BY <1>13, <2>1 DEF CloseRun, TypeOK, Locations, memory
<1>14. CASE Stop \/ Relaunch
  <2>1. <<>> \in Policies
    BY DEF Policies
  <2>2. /\ pc' \in Locations /\ spread' = spread /\ disk' = disk
        /\ epoch' = 1 /\ pending' = {} /\ trace' = 1 /\ group' = group
        /\ gradient' = NoGradient /\ accumulated' = 0
        /\ policy' = <<>> /\ global_update' = 0 /\ schedule' = 0
    BY <1>14 DEF Stop, Relaunch, Forget, Locations
  <2>3. 1 \in 1 .. Epochs /\ 1 \in Traces /\ 0 \in 0 .. AccumulationSteps - 1
    BY TrainingAssumption DEF Traces, TrainingAssumption
  <2>4. QED
    BY <2>1, <2>2, <2>3, NoGradientType DEF TypeOK
<1>15. CASE Done \/ UNCHANGED vars
  BY <1>15 DEF Done, vars, memory, TypeOK
<1>16. QED
  BY <1>1, <1>2, <1>3, <1>4, <1>5, <1>6, <1>7, <1>8, <1>9, <1>10, <1>11, <1>12, <1>13,
     <1>14, <1>15 DEF Next

(* Type correctness of GRPOTrainer. *)
THEOREM TypeCorrect == Spec => []TypeOK
BY TypeInit, TypeStep, PTL DEF Spec
-----------------------------------------------------------------------------
(* The first update. *)

(* No drifted trace ever reaches the gradient: while the code's count says   *)
(* that nothing was applied, drift stops the run; afterwards nobody looks.   *)
OnPolicy ==
    /\ global_update = Len(policy)
    /\ ~gradient.drifted
    /\ \A i \in DOMAIN policy : ~policy[i].gradient.drifted

LEMMA StepOnPolicy ==
    ASSUME TypeOK, OnPolicy, OptimizerStep PROVE OnPolicy'
<1>1. PICK update : update = [epoch |-> epoch, gradient |-> gradient]
  OBVIOUS
<1>2. update \in [epoch : 1 .. Epochs, gradient : Gradients] /\ ~update.gradient.drifted
  BY <1>1 DEF TypeOK, OnPolicy
<1>3. /\ policy' = Append(policy, update) /\ gradient' = NoGradient
      /\ global_update' = global_update + 1
  BY <1>1 DEF OptimizerStep
<1>4. policy \in Seq([epoch : 1 .. Epochs, gradient : Gradients])
  BY DEF TypeOK, Policies
<1>5. /\ Len(policy') = Len(policy) + 1 /\ DOMAIN policy' = 1 .. Len(policy) + 1
      /\ \A i \in 1 .. Len(policy) : policy'[i] = policy[i]
      /\ policy'[Len(policy) + 1] = update
  BY <1>2, <1>3, <1>4, AppendFacts
<1>6. DOMAIN policy = 1 .. Len(policy) /\ Len(policy) \in Nat
  BY <1>4
<1>7. ASSUME NEW i \in DOMAIN policy' PROVE ~policy'[i].gradient.drifted
  <2>1. CASE i = Len(policy) + 1
    BY <2>1, <1>2, <1>5
  <2>2. CASE i # Len(policy) + 1
    <3>1. i \in 1 .. Len(policy)
      BY <2>2, <1>5, <1>6, <1>7
    <3>2. QED
      BY <3>1, <1>5, <1>6 DEF OnPolicy
  <2>3. QED
    BY <2>1, <2>2
<1>8. ~gradient'.drifted
  BY <1>3 DEF NoGradient
<1>9. QED
  BY <1>3, <1>5, <1>7, <1>8 DEF OnPolicy

LEMMA OnPolicyStays == TypeOK /\ OnPolicy /\ [Next]_vars => OnPolicy'
<1> SUFFICES ASSUME TypeOK, OnPolicy, [Next]_vars PROVE OnPolicy'
  OBVIOUS
<1>1. CASE UNCHANGED <<policy, gradient, global_update>>
  BY <1>1 DEF OnPolicy
<1>2. CASE Backward
  <2>1. PICK drifted \in BOOLEAN :
           /\ policy # <<>> => ~drifted
           /\ ~(drifted /\ DriftStops)
           /\ gradient' = Add(group, trace, drifted)
    BY <1>2 DEF Backward
  <2>2. ~drifted
    BY <2>1 DEF DriftStops, OnPolicy, TypeOK, Policies
  <2>3. policy' = policy /\ global_update' = global_update
    BY <1>2 DEF Backward
  <2>4. ~gradient'.drifted
    BY <2>1, <2>2 DEF Add, OnPolicy
  <2>5. QED
    BY <2>3, <2>4 DEF OnPolicy
<1>3. CASE OptimizerStep
  BY <1>3, StepOnPolicy
<1>4. CASE Forget
  <2>1. policy' = <<>> /\ global_update' = 0 /\ gradient' = NoGradient
    BY <1>4 DEF Forget
  <2>2. QED
    BY <2>1 DEF OnPolicy, NoGradient
<1>5. SettleGroup \/ FlushEpoch =>
         OptimizerStep \/ UNCHANGED <<policy, gradient, global_update>>
  BY DEF SettleGroup, FlushEpoch
<1>6. Stop \/ Relaunch => Forget
  BY DEF Stop, Relaunch
<1>7. QED
  BY <1>1, <1>2, <1>3, <1>4, <1>5, <1>6
  DEF Next, Prepare, Load, Shuffle, SkipGroup, TakeGroup, BeginCheckpoint, WriteCheckpoint,
      BeginAdapter, WriteAdapter, BeginManifest, WriteManifest, CloseRun, Done, vars, memory

LEMMA OnPolicyInvariant == Spec => [](TypeOK /\ OnPolicy)
<1>1. Init => OnPolicy
  BY DEF Init, OnPolicy, NoGradient
<1>2. TypeOK /\ OnPolicy /\ [Next]_vars => (TypeOK /\ OnPolicy)'
  BY TypeStep, OnPolicyStays
<1>3. QED
  BY <1>1, <1>2, TypeInit, PTL DEF Spec

(* The update that leaves the initial adapter holds no drifted trace. *)
THEOREM FirstUpdatesAreOnPolicy == Spec => []FirstUpdateIsOnPolicy
<1>1. TypeOK /\ OnPolicy => FirstUpdateIsOnPolicy
  <2> SUFFICES ASSUME TypeOK, OnPolicy, policy # <<>> PROVE ~policy[1].gradient.drifted
    BY DEF FirstUpdateIsOnPolicy
  <2>1. policy \in Seq([epoch : 1 .. Epochs, gradient : Gradients])
    BY DEF TypeOK, Policies
  <2>2. 1 \in DOMAIN policy
    BY <2>1
  <2>3. QED
    BY <2>2 DEF OnPolicy
<1>2. QED
  BY <1>1, OnPolicyInvariant, PTL
-----------------------------------------------------------------------------
(* Epochs. *)

Busy == {"trace", "settle"}
InEpoch == {"groups"} \cup Busy
Early == {"start", "load", "shuffle", "stopped", "refused"} \cup InEpoch
Finished == IF pc \in Early THEN epoch - 1 ELSE epoch

Untouched(g) == \A t \in Traces : gradient.weight[g][t] = 0
Full(g) == \A t \in Traces : gradient.weight[g][t] = 1
Begun(g) == \A t \in Traces :
               gradient.weight[g][t] = IF pc = "settle" \/ t < trace THEN 1 ELSE 0
Seen(g) == Covering(policy, epoch, g)

(* Covers, without counting. *)
Learned(updates, e, g) ==
    IF Skipped(g) THEN Covering(updates, e, g) = {}
    ELSE \E i \in DOMAIN updates : Covering(updates, e, g) = {i}

(* Within an epoch a group is yet to come, in work, in the window with all   *)
(* its traces, or in one update already; never two of these.                 *)
GroupProgress(g) ==
    IF pc \notin InEpoch THEN Untouched(g)
    ELSE IF pc \in Busy /\ g = group THEN Begun(g) /\ Seen(g) = {}
    ELSE IF g \in pending \/ Skipped(g) THEN Untouched(g) /\ Seen(g) = {}
    ELSE \/ Full(g) /\ Seen(g) = {}
         \/ Untouched(g) /\ \E i \in DOMAIN policy : Seen(g) = {i}

UpdatesSound ==
    \A i \in DOMAIN policy :
        /\ Whole(policy[i])
        /\ policy[i].epoch <= IF pc \in InEpoch THEN epoch ELSE Finished

WindowCounted ==
    accumulated = 0 => \A g \in Groups : (pc \in Busy /\ g = group) \/ Untouched(g)

Progress ==
    /\ UpdatesSound
    /\ \A d \in 1 .. Finished, g \in Groups : Learned(policy, d, g)
    /\ pc \in Busy => group \notin pending /\ ~Skipped(group)
    /\ WindowCounted
    /\ \A g \in Groups : GroupProgress(g)

LEMMA FullIsTrained ==
    ASSUME TypeOK, NEW g \in Groups
    PROVE  /\ Full(g) => g \in Trained([epoch |-> epoch, gradient |-> gradient])
           /\ Untouched(g) => g \notin Trained([epoch |-> epoch, gradient |-> gradient])
<1>1. 1 \in Traces
  BY TrainingAssumption DEF TrainingAssumption, Traces
<1>2. QED
  BY <1>1 DEF Full, Untouched, Trained

(* An appended update covers what it trains. *)
LEMMA CoveringAppend ==
    ASSUME NEW updates \in Policies, NEW update \in [epoch : 1 .. Epochs, gradient : Gradients],
           NEW d, NEW g \in Groups
    PROVE  Covering(Append(updates, update), d, g) =
              IF update.epoch = d /\ g \in Trained(update)
              THEN Covering(updates, d, g) \cup {Len(updates) + 1}
              ELSE Covering(updates, d, g)
<1>1. updates \in Seq([epoch : 1 .. Epochs, gradient : Gradients])
  BY DEF Policies
<1>2. /\ DOMAIN Append(updates, update) = 1 .. Len(updates) + 1
      /\ \A i \in 1 .. Len(updates) : Append(updates, update)[i] = updates[i]
      /\ Append(updates, update)[Len(updates) + 1] = update
  BY <1>1, AppendFacts
<1>3. DOMAIN updates = 1 .. Len(updates) /\ Len(updates) \in Nat
  BY <1>1
<1>4. QED
  BY <1>2, <1>3 DEF Covering

(* What the optimizer's step does when every group is wholly in the window   *)
(* or not at all.                                                            *)
LEMMA StepProgress ==
    ASSUME TypeOK, OptimizerStep, \A g \in Groups : Full(g) \/ Untouched(g)
    PROVE  /\ \A g \in Groups : Untouched(g)'
           /\ \A g \in Groups, d \in Int : d # epoch =>
                 Covering(policy', d, g) = Covering(policy, d, g)
           /\ \A g \in Groups : Untouched(g) =>
                 Covering(policy', epoch, g) = Covering(policy, epoch, g)
           /\ \A g \in Groups : Full(g) /\ Covering(policy, epoch, g) = {} =>
                 \E i \in DOMAIN policy' : Covering(policy', epoch, g) = {i}
           /\ \A i \in DOMAIN policy' :
                 \/ i \in DOMAIN policy /\ policy'[i] = policy[i]
                 \/ policy'[i].epoch = epoch /\ Whole(policy'[i])
           /\ DOMAIN policy \subseteq DOMAIN policy'
<1>1. PICK update : update = [epoch |-> epoch, gradient |-> gradient]
  OBVIOUS
<1>2. update \in [epoch : 1 .. Epochs, gradient : Gradients] /\ update.epoch = epoch
  BY <1>1 DEF TypeOK
<1>3. policy' = Append(policy, update) /\ gradient' = NoGradient
  BY <1>1 DEF OptimizerStep
<1>4. policy \in Seq([epoch : 1 .. Epochs, gradient : Gradients]) /\ policy \in Policies
  BY DEF TypeOK, Policies
<1>5. /\ DOMAIN policy' = 1 .. Len(policy) + 1
      /\ \A i \in 1 .. Len(policy) : policy'[i] = policy[i]
      /\ policy'[Len(policy) + 1] = update
  BY <1>2, <1>3, <1>4, AppendFacts
<1>6. DOMAIN policy = 1 .. Len(policy) /\ Len(policy) \in Nat
  BY <1>4
<1>7. \A g \in Groups, d \in Int :
         Covering(policy', d, g) =
            IF epoch = d /\ g \in Trained(update)
            THEN Covering(policy, d, g) \cup {Len(policy) + 1}
            ELSE Covering(policy, d, g)
  BY <1>2, <1>3, <1>4, CoveringAppend
<1>8. \A g \in Groups : /\ Full(g) => g \in Trained(update)
                        /\ Untouched(g) => g \notin Trained(update)
  BY <1>1, FullIsTrained
<1>9. \A g \in Groups : Untouched(g)'
  BY <1>3 DEF Untouched, NoGradient
<1>10. Whole(update)
  <2>1. \A g \in Trained(update) : g \in Groups /\ Full(g)
    BY <1>8 DEF Trained
  <2>2. QED
    BY <2>1, <1>1 DEF Whole, Full
<1>11. epoch \in Int
  BY DEF TypeOK
<1>12. \A i \in DOMAIN policy' :
          \/ i \in DOMAIN policy /\ policy'[i] = policy[i]
          \/ policy'[i].epoch = epoch /\ Whole(policy'[i])
  BY <1>2, <1>5, <1>6, <1>10
<1>13. \A g \in Groups : Full(g) /\ Covering(policy, epoch, g) = {} =>
          \E i \in DOMAIN policy' : Covering(policy', epoch, g) = {i}
  <2> SUFFICES ASSUME NEW g \in Groups, Full(g), Covering(policy, epoch, g) = {}
               PROVE  Covering(policy', epoch, g) = {Len(policy) + 1}
    BY <1>5, <1>6
  <2>1. QED
    BY <1>7, <1>8, <1>11
<1>14. DOMAIN policy \subseteq DOMAIN policy'
  BY <1>5, <1>6
<1>15. QED
  BY <1>7, <1>8, <1>9, <1>11, <1>12, <1>13, <1>14

LEMMA ProgressInit == Init => Progress
<1> SUFFICES ASSUME Init PROVE Progress
  OBVIOUS
<1>1. pc = "start" /\ epoch = 1 /\ policy = <<>> /\ gradient = NoGradient
  BY DEF Init
<1>2. \A g \in Groups : Untouched(g)
  BY <1>1 DEF Untouched, NoGradient
<1>3. Finished = 0
  BY <1>1 DEF Finished, Early
<1>4. QED
  BY <1>1, <1>2, <1>3
  DEF Progress, UpdatesSound, WindowCounted, GroupProgress, Busy, InEpoch

(* Steps that only move between locations outside the loop over groups. *)
LEMMA MovesOutside ==
    ASSUME TypeOK, Progress, UNCHANGED <<policy, gradient, spread>>,
           pc \notin InEpoch, pc' \notin InEpoch, Finished' = Finished
    PROVE  Progress'
<1>1. \A g \in Groups : Untouched(g)'
  BY DEF Progress, GroupProgress, Untouched
<1>2. \A d \in 1 .. Finished', g \in Groups : Learned(policy, d, g)'
  BY DEF Progress, Learned, Covering, Trained, Skipped
<1>3. UpdatesSound'
  BY DEF Progress, UpdatesSound, Whole, Trained
<1>4. QED
  BY <1>1, <1>2, <1>3 DEF Progress, WindowCounted, GroupProgress, InEpoch

LEMMA ShuffleProgress == ASSUME TypeOK, Progress, Shuffle PROVE Progress'
<1>1. /\ pc = "shuffle" /\ pc' = "groups" /\ pending' = Groups
      /\ UNCHANGED <<spread, epoch, group, trace, gradient, accumulated, policy>>
  BY DEF Shuffle
<1>2. Finished = epoch - 1 /\ Finished' = epoch - 1 /\ epoch \in Nat
  BY <1>1 DEF Finished, Early, InEpoch, TypeOK
<1>3. \A i \in DOMAIN policy : Whole(policy[i]) /\ policy[i].epoch <= epoch - 1
  BY <1>1, <1>2 DEF Progress, UpdatesSound, InEpoch, Busy
<1>4. \A i \in DOMAIN policy : policy[i].epoch \in Nat
  <2>1. policy \in Seq([epoch : 1 .. Epochs, gradient : Gradients])
    BY DEF TypeOK, Policies
  <2>2. \A i \in DOMAIN policy : policy[i] \in [epoch : 1 .. Epochs, gradient : Gradients]
    BY <2>1, Elements
  <2>3. QED
    BY <2>2
<1>5. \A g \in Groups : Untouched(g)'
  BY <1>1 DEF Progress, GroupProgress, Untouched, InEpoch, Busy
<1>6. \A g \in Groups : Seen(g)' = {}
  BY <1>1, <1>2, <1>3, <1>4 DEF Seen, Covering
<1>7. \A d \in 1 .. Finished', g \in Groups : Learned(policy, d, g)'
  BY <1>1, <1>2 DEF Progress, Learned, Covering, Trained, Skipped
<1>8. UpdatesSound'
  BY <1>1, <1>2, <1>3, <1>4 DEF UpdatesSound, Whole, Trained, InEpoch, Busy
<1>9. QED
  BY <1>1, <1>5, <1>6, <1>7, <1>8
  DEF Progress, WindowCounted, GroupProgress, InEpoch, Busy

LEMMA SkipProgress ==
    ASSUME TypeOK, Progress, NEW g \in Groups, SkipGroup(g) PROVE Progress'
<1>1. /\ pc = "groups" /\ g \in pending /\ Skipped(g) /\ pending' = pending \ {g}
      /\ UNCHANGED <<pc, spread, epoch, group, trace, gradient, accumulated, policy>>
  BY DEF SkipGroup
<1>2. \A d \in 1 .. Finished', h \in Groups : Learned(policy, d, h)'
  BY <1>1 DEF Progress, Learned, Covering, Trained, Skipped, Finished, Early, InEpoch
<1>3. UpdatesSound'
  BY <1>1 DEF Progress, UpdatesSound, Whole, Trained, Finished
<1>4. WindowCounted'
  BY <1>1 DEF Progress, WindowCounted, Untouched
<1>5. ASSUME NEW h \in Groups PROVE GroupProgress(h)'
  <2>1. GroupProgress(h)
    BY DEF Progress
  <2>2. Seen(h)' = Seen(h) /\ (Untouched(h)' <=> Untouched(h)) /\ (Full(h)' <=> Full(h))
        /\ (Skipped(h)' <=> Skipped(h))
    BY <1>1 DEF Seen, Covering, Trained, Untouched, Full, Skipped
  <2>3. h \in pending \/ Skipped(h) <=> h \in pending' \/ Skipped(h)
    BY <1>1
  <2>4. QED
    BY <1>1, <2>1, <2>2, <2>3 DEF GroupProgress, InEpoch, Busy
<1>6. QED
  BY <1>1, <1>2, <1>3, <1>4, <1>5 DEF Progress, Busy

LEMMA TakeProgress ==
    ASSUME TypeOK, Progress, NEW g \in Groups, TakeGroup(g) PROVE Progress'
<1>1. /\ pc = "groups" /\ pc' = "trace" /\ g \in pending /\ ~Skipped(g)
      /\ pending' = pending \ {g} /\ group' = g /\ trace' = 1
      /\ UNCHANGED <<spread, epoch, gradient, accumulated, policy>>
  BY DEF TakeGroup
<1>2. Finished' = Finished
  BY <1>1 DEF Finished, Early, InEpoch, Busy
<1>3. \A d \in 1 .. Finished', h \in Groups : Learned(policy, d, h)'
  BY <1>1, <1>2 DEF Progress, Learned, Covering, Trained, Skipped
<1>4. UpdatesSound'
  BY <1>1, <1>2 DEF Progress, UpdatesSound, Whole, Trained, InEpoch, Busy
<1>5. WindowCounted'
  BY <1>1 DEF Progress, WindowCounted, Untouched, Busy
<1>6. ASSUME NEW h \in Groups PROVE GroupProgress(h)'
  <2>1. GroupProgress(h)
    BY DEF Progress
  <2>2. Seen(h)' = Seen(h) /\ (Untouched(h)' <=> Untouched(h)) /\ (Full(h)' <=> Full(h))
        /\ (Skipped(h)' <=> Skipped(h))
    BY <1>1 DEF Seen, Covering, Trained, Untouched, Full, Skipped
  <2>3. CASE h = g
    <3>1. Untouched(h) /\ Seen(h) = {}
      BY <1>1, <2>1, <2>3 DEF GroupProgress, InEpoch, Busy
    <3>2. Begun(h)'
      BY <1>1, <3>1 DEF Begun, Untouched, Traces
    <3>3. QED
      BY <1>1, <2>2, <2>3, <3>1, <3>2 DEF GroupProgress, InEpoch, Busy
  <2>4. CASE h # g
    BY <1>1, <2>1, <2>2, <2>4 DEF GroupProgress, InEpoch, Busy
  <2>5. QED
    BY <2>3, <2>4
<1>7. g \notin pending' /\ ~Skipped(g)'
  BY <1>1 DEF Skipped
<1>8. QED
  BY <1>1, <1>3, <1>4, <1>5, <1>6, <1>7 DEF Progress

LEMMA BackwardProgress == ASSUME TypeOK, Progress, Backward PROVE Progress'
<1>1. PICK drifted \in BOOLEAN : gradient' = Add(group, trace, drifted)
  BY DEF Backward
<1>2. /\ pc = "trace"
      /\ pc' = (IF trace < TraceCount THEN "trace" ELSE "settle")
      /\ trace' = (IF trace < TraceCount THEN trace + 1 ELSE trace)
      /\ UNCHANGED <<spread, epoch, pending, group, accumulated, policy>>
  BY DEF Backward
<1>3. \A g \in Groups, t \in Traces :
         gradient'.weight[g][t] =
            IF g = group /\ t = trace THEN gradient.weight[g][t] + 1
                                      ELSE gradient.weight[g][t]
  BY <1>1, AddType
<1>4. Finished' = Finished
  BY <1>2 DEF Finished, Early, InEpoch, Busy
<1>5. \A d \in 1 .. Finished', h \in Groups : Learned(policy, d, h)'
  BY <1>2, <1>4 DEF Progress, Learned, Covering, Trained, Skipped
<1>6. UpdatesSound'
  BY <1>2, <1>4 DEF Progress, UpdatesSound, Whole, Trained, InEpoch, Busy
<1>7. WindowCounted'
  BY <1>2, <1>3 DEF Progress, WindowCounted, Untouched, Busy
<1>8. ASSUME NEW h \in Groups PROVE GroupProgress(h)'
  <2>1. GroupProgress(h)
    BY DEF Progress
  <2>2. Seen(h)' = Seen(h) /\ (Skipped(h)' <=> Skipped(h))
    BY <1>2 DEF Seen, Covering, Trained, Skipped
  <2>3. CASE h = group
    <3>1. Begun(h) /\ Seen(h) = {}
      BY <1>2, <2>1, <2>3 DEF GroupProgress, InEpoch, Busy
    <3>2. Begun(h)'
      BY <1>2, <1>3, <2>3, <3>1, TrainingAssumption
      DEF Begun, Traces, TypeOK, TrainingAssumption
    <3>3. QED
      BY <1>2, <2>2, <2>3, <3>1, <3>2 DEF GroupProgress, InEpoch, Busy
  <2>4. CASE h # group
    <3>1. (Untouched(h)' <=> Untouched(h)) /\ (Full(h)' <=> Full(h))
      BY <1>3, <2>4 DEF Untouched, Full
    <3>2. QED
      BY <1>2, <2>1, <2>2, <2>4, <3>1 DEF GroupProgress, InEpoch, Busy
  <2>5. QED
    BY <2>3, <2>4
<1>9. group' \notin pending' /\ ~Skipped(group)'
  BY <1>2 DEF Progress, Skipped, Busy
<1>10. QED
  BY <1>5, <1>6, <1>7, <1>8, <1>9 DEF Progress

LEMMA SettleProgress == ASSUME TypeOK, Progress, SettleGroup PROVE Progress'
<1>1. /\ pc = "settle" /\ pc' = "groups"
      /\ UNCHANGED <<spread, epoch, pending, group, trace>>
  BY DEF SettleGroup
<1>2. Finished' = Finished /\ Finished = epoch - 1 /\ epoch \in Nat
  BY <1>1 DEF Finished, Early, InEpoch, Busy, TypeOK
<1>3. group \in Groups /\ group \notin pending /\ ~Skipped(group)
  BY <1>1 DEF Progress, Busy, TypeOK
<1>4. Full(group) /\ Seen(group) = {}
  BY <1>1, <1>3 DEF Progress, GroupProgress, Begun, Full, InEpoch, Busy
<1>5. \A g \in Groups : g # group =>
         IF g \in pending \/ Skipped(g) THEN Untouched(g) /\ Seen(g) = {}
         ELSE \/ Full(g) /\ Seen(g) = {}
              \/ Untouched(g) /\ \E i \in DOMAIN policy : Seen(g) = {i}
  BY <1>1 DEF Progress, GroupProgress, InEpoch, Busy
<1>6. CASE WindowFull
  <2>1. OptimizerStep
    BY <1>6 DEF SettleGroup
  <2>2. \A g \in Groups : Full(g) \/ Untouched(g)
    BY <1>4, <1>5
  <2>3. /\ \A g \in Groups : Untouched(g)'
        /\ \A g \in Groups, d \in Int : d # epoch =>
              Covering(policy', d, g) = Covering(policy, d, g)
        /\ \A g \in Groups : Untouched(g) =>
              Covering(policy', epoch, g) = Covering(policy, epoch, g)
        /\ \A g \in Groups : Full(g) /\ Covering(policy, epoch, g) = {} =>
              \E i \in DOMAIN policy' : Covering(policy', epoch, g) = {i}
        /\ \A i \in DOMAIN policy' :
              \/ i \in DOMAIN policy /\ policy'[i] = policy[i]
              \/ policy'[i].epoch = epoch /\ Whole(policy'[i])
        /\ DOMAIN policy \subseteq DOMAIN policy'
    BY <2>1, <2>2, StepProgress
  <2>4. \A g \in Groups, d \in 1 .. Finished' : Learned(policy, d, g)'
    BY <1>1, <1>2, <2>3 DEF Progress, Learned, Skipped
  <2>5. UpdatesSound'
    BY <1>1, <1>2, <2>3 DEF Progress, UpdatesSound, Whole, Trained, InEpoch, Busy
  <2>6. ASSUME NEW g \in Groups PROVE GroupProgress(g)'
    <3>1. Seen(g)' = Covering(policy', epoch, g)
      BY <1>1 DEF Seen
    <3>2. g \in pending \/ Skipped(g) => Seen(g)' = {}
      BY <1>3, <1>5, <2>3, <3>1 DEF Seen
    <3>3. g \notin pending /\ ~Skipped(g) => \E i \in DOMAIN policy' : Seen(g)' = {i}
      BY <1>4, <1>5, <2>3, <3>1 DEF Seen
    <3>4. Skipped(g)' <=> Skipped(g)
      BY <1>1 DEF Skipped
    <3>5. QED
      BY <1>1, <2>3, <3>2, <3>3, <3>4 DEF GroupProgress, InEpoch, Busy
  <2>7. QED
    BY <1>1, <2>3, <2>4, <2>5, <2>6 DEF Progress, WindowCounted, Busy
<1>7. CASE ~WindowFull
  <2>1. accumulated' = accumulated + 1 /\ UNCHANGED <<gradient, policy>>
    BY <1>7 DEF SettleGroup
  <2>2. accumulated' # 0
    BY <2>1, TrainingAssumption DEF TypeOK, TrainingAssumption
  <2>3. \A d \in 1 .. Finished', g \in Groups : Learned(policy, d, g)'
    BY <1>1, <1>2, <2>1 DEF Progress, Learned, Covering, Trained, Skipped
  <2>4. UpdatesSound'
    BY <1>1, <1>2, <2>1 DEF Progress, UpdatesSound, Whole, Trained, InEpoch, Busy
  <2>5. ASSUME NEW g \in Groups PROVE GroupProgress(g)'
    <3>1. /\ Seen(g)' = Seen(g) /\ (Untouched(g)' <=> Untouched(g)) /\ (Full(g)' <=> Full(g))
          /\ (Skipped(g)' <=> Skipped(g))
      BY <1>1, <2>1 DEF Seen, Covering, Trained, Untouched, Full, Skipped
    <3>2. QED
      BY <1>1, <1>3, <1>4, <1>5, <2>1, <3>1 DEF GroupProgress, InEpoch, Busy
  <2>6. QED
    BY <1>1, <2>2, <2>3, <2>4, <2>5 DEF Progress, WindowCounted, Busy
<1>8. QED
  BY <1>6, <1>7

LEMMA FlushProgress == ASSUME TypeOK, Progress, FlushEpoch PROVE Progress'
<1>1. /\ pc = "groups" /\ pending = {} /\ pc' = "checkpoint"
      /\ UNCHANGED <<spread, epoch, pending, group, trace>>
  BY DEF FlushEpoch
<1>2. Finished' = epoch /\ Finished = epoch - 1 /\ epoch \in Nat
  BY <1>1 DEF Finished, Early, InEpoch, Busy, TypeOK
<1>3. \A g \in Groups :
         IF Skipped(g) THEN Untouched(g) /\ Seen(g) = {}
         ELSE \/ Full(g) /\ Seen(g) = {}
              \/ Untouched(g) /\ \E i \in DOMAIN policy : Seen(g) = {i}
  BY <1>1 DEF Progress, GroupProgress, InEpoch, Busy
<1>4. \A d \in 1 .. epoch - 1, g \in Groups : Learned(policy, d, g)
  BY <1>2 DEF Progress
<1>5. CASE Leftover
  <2>1. OptimizerStep
    BY <1>5 DEF FlushEpoch
  <2>2. \A g \in Groups : Full(g) \/ Untouched(g)
    BY <1>3
  <2>3. /\ \A g \in Groups : Untouched(g)'
        /\ \A g \in Groups, d \in Int : d # epoch =>
              Covering(policy', d, g) = Covering(policy, d, g)
        /\ \A g \in Groups : Untouched(g) =>
              Covering(policy', epoch, g) = Covering(policy, epoch, g)
        /\ \A g \in Groups : Full(g) /\ Covering(policy, epoch, g) = {} =>
              \E i \in DOMAIN policy' : Covering(policy', epoch, g) = {i}
        /\ \A i \in DOMAIN policy' :
              \/ i \in DOMAIN policy /\ policy'[i] = policy[i]
              \/ policy'[i].epoch = epoch /\ Whole(policy'[i])
        /\ DOMAIN policy \subseteq DOMAIN policy'
    BY <2>1, <2>2, StepProgress
  <2>4. \A g \in Groups : Learned(policy', epoch, g)
    BY <1>3, <2>3 DEF Learned, Seen
  <2>5. \A d \in 1 .. epoch - 1, g \in Groups : Learned(policy', d, g)
    BY <1>2, <1>4, <2>3 DEF Learned
  <2>6. ASSUME NEW d \in 1 .. Finished', NEW g \in Groups PROVE Learned(policy, d, g)'
    <3>1. Learned(policy', d, g)
      BY <1>2, <2>4, <2>5
    <3>2. QED
      BY <1>1, <3>1 DEF Learned, Skipped
  <2>7. UpdatesSound'
    BY <1>1, <1>2, <2>3 DEF Progress, UpdatesSound, Whole, Trained, InEpoch, Busy
  <2>8. QED
    BY <1>1, <2>3, <2>6, <2>7 DEF Progress, WindowCounted, GroupProgress, InEpoch, Busy
<1>6. CASE ~Leftover
  <2>1. UNCHANGED <<gradient, policy, accumulated>>
    BY <1>6 DEF FlushEpoch
  <2>2. accumulated = 0
    BY <1>6 DEF Leftover, TypeOK
  <2>3. \A g \in Groups : Untouched(g)
    BY <1>1, <2>2 DEF Progress, WindowCounted, Busy
  <2>4. 1 \in Traces
    BY TrainingAssumption DEF TrainingAssumption, Traces
  <2>5. \A g \in Groups : Learned(policy, epoch, g)
    BY <1>3, <2>3, <2>4 DEF Learned, Seen, Full, Untouched
  <2>6. ASSUME NEW d \in 1 .. Finished', NEW g \in Groups PROVE Learned(policy, d, g)'
    <3>1. Learned(policy, d, g)
      BY <1>2, <1>4, <2>5
    <3>2. QED
      BY <1>1, <2>1, <3>1 DEF Learned, Skipped, Covering, Trained
  <2>7. UpdatesSound'
    BY <1>1, <1>2, <2>1 DEF Progress, UpdatesSound, Whole, Trained, InEpoch, Busy
  <2>8. \A g \in Groups : Untouched(g)'
    BY <2>1, <2>3 DEF Untouched
  <2>9. QED
    BY <1>1, <2>6, <2>7, <2>8 DEF Progress, WindowCounted, GroupProgress, InEpoch, Busy
<1>7. QED
  BY <1>5, <1>6

LEMMA ForgetProgress ==
    ASSUME TypeOK, Forget, pc' \in {"start", "stopped"} PROVE Progress'
<1>1. epoch' = 1 /\ policy' = <<>> /\ gradient' = NoGradient
  BY DEF Forget
<1>2. \A g \in Groups : Untouched(g)'
  BY <1>1 DEF Untouched, NoGradient
<1>3. Finished' = 0
  BY <1>1 DEF Finished, Early
<1>4. QED
  BY <1>1, <1>2, <1>3
  DEF Progress, UpdatesSound, WindowCounted, GroupProgress, Busy, InEpoch

LEMMA ProgressStays == TypeOK /\ Progress /\ [Next]_vars => Progress'
<1> SUFFICES ASSUME TypeOK, Progress, [Next]_vars PROVE Progress'
  OBVIOUS
<1>1. CASE \/ Prepare \/ Load \/ BeginCheckpoint \/ BeginAdapter \/ WriteAdapter
           \/ BeginManifest \/ WriteManifest \/ CloseRun
  <2>1. UNCHANGED <<policy, gradient, spread, epoch>>
    BY <1>1
    DEF Prepare, Load, BeginCheckpoint, BeginAdapter, WriteAdapter, BeginManifest,
        WriteManifest, CloseRun, memory
  <2>2. /\ pc \notin InEpoch /\ pc' \notin InEpoch
        /\ pc \in Early <=> pc' \in Early
    BY <1>1
    DEF Prepare, Load, BeginCheckpoint, BeginAdapter, WriteAdapter, BeginManifest,
        WriteManifest, CloseRun, InEpoch, Busy, Early
  <2>3. QED
    BY <2>1, <2>2, MovesOutside DEF Finished
<1>2. CASE WriteCheckpoint
  <2>1. UNCHANGED <<policy, gradient, spread>> /\ pc = "checkpoint_write"
    BY <1>2 DEF WriteCheckpoint
  <2>2. \/ pc' = "adapter" /\ epoch' = epoch
        \/ pc' = "shuffle" /\ epoch' = epoch + 1
    BY <1>2 DEF WriteCheckpoint
  <2>3. Finished' = Finished /\ pc \notin InEpoch /\ pc' \notin InEpoch
    BY <2>1, <2>2 DEF Finished, Early, InEpoch, Busy, TypeOK
  <2>4. QED
    BY <2>1, <2>3, MovesOutside
<1>3. CASE Stop \/ Relaunch
  BY <1>3, ForgetProgress DEF Stop, Relaunch
<1>4. CASE Done \/ UNCHANGED vars
  BY <1>4
  DEF Done, vars, memory, Progress, UpdatesSound, WindowCounted, GroupProgress, Learned,
      Covering, Trained, Whole, Skipped, Seen, Untouched, Full, Begun, Finished
<1>5. QED
  BY <1>1, <1>2, <1>3, <1>4, ShuffleProgress, SkipProgress, TakeProgress, BackwardProgress,
     SettleProgress, FlushProgress
  DEF Next
-----------------------------------------------------------------------------
(* Files. *)

(* It names the spread, so that no step can change what it says. *)
GoodCheckpoint(spreads, updates, e) ==
    /\ \A i \in DOMAIN updates : updates[i].epoch <= e /\ Whole(updates[i])
    /\ \A d \in 1 .. e, g \in Groups :
          IF spreads[g] # "wide" THEN Covering(updates, d, g) = {}
          ELSE \E i \in DOMAIN updates : Covering(updates, d, g) = {i}

CheckpointsSound ==
    \A e \in DOMAIN disk.checkpoints : Complete(disk.checkpoints[e]) =>
        GoodCheckpoint(spread, disk.checkpoints[e].content, e)

Training == {"load", "shuffle", "groups", "trace", "settle", "checkpoint"}
Saving == {"adapter", "adapter_write", "manifest", "manifest_write"}

(* Where the program stands says which files there are. *)
Position ==
    /\ pc = "start" => epoch = 1
    /\ pc \in Training => Len(disk.checkpoints) = epoch - 1
    /\ pc = "checkpoint_write" => Len(disk.checkpoints) = epoch
    /\ pc \in Training \cup {"checkpoint_write"} =>
          \A e \in 1 .. epoch - 1 : Complete(disk.checkpoints[e])
    /\ pc \in Saving =>
          /\ epoch = Epochs /\ Len(disk.checkpoints) = Epochs
          /\ \A e \in 1 .. Epochs : Complete(disk.checkpoints[e])
          /\ disk.checkpoints[Epochs] = File(policy)
    /\ pc \in {"manifest", "manifest_write"} => disk.adapter = File(policy)
    /\ pc \in Training \cup Saving \cup {"checkpoint_write"} => ~Complete(disk.manifest)

FilesInv == CheckpointsSound /\ Position /\ CompletedRunIsComplete

(* At the end of an epoch the policy may be saved. *)
LEMMA EpochIsGood ==
    ASSUME TypeOK, Progress, pc = "checkpoint_write" PROVE GoodCheckpoint(spread, policy, epoch)
<1>1. Finished = epoch /\ pc \notin InEpoch
  BY DEF Finished, Early, InEpoch, Busy
<1>2. QED
  BY <1>1 DEF Progress, UpdatesSound, GoodCheckpoint, Learned, Skipped

LEMMA CheckpointsStaySound ==
    ASSUME TypeOK, Progress, FilesInv, [Next]_vars PROVE CheckpointsSound'
<1>1. spread' = spread
  BY DEF Next, Prepare, Load, Shuffle, SkipGroup, TakeGroup, Backward, SettleGroup,
         FlushEpoch, BeginCheckpoint, WriteCheckpoint, BeginAdapter, WriteAdapter,
         BeginManifest, WriteManifest, CloseRun, Stop, Relaunch, Done, vars
<1>2. CASE disk'.checkpoints = disk.checkpoints
  BY <1>1, <1>2 DEF FilesInv, CheckpointsSound
<1>3. CASE BeginCheckpoint
  <2>1. disk'.checkpoints = Append(disk.checkpoints, Torn)
    BY <1>3, DiskType DEF BeginCheckpoint
  <2>2. PICK old : old = disk.checkpoints
    OBVIOUS
  <2>3. old \in Seq(Files(Policies)) /\ Torn \in Files(Policies)
    BY <2>2, DiskType DEF Files
  <2>4. /\ DOMAIN Append(old, Torn) = 1 .. Len(old) + 1
        /\ \A e \in 1 .. Len(old) : Append(old, Torn)[e] = old[e]
        /\ Append(old, Torn)[Len(old) + 1] = Torn
        /\ DOMAIN old = 1 .. Len(old) /\ Len(old) \in Nat
    BY <2>3, AppendFacts
  <2>5. \A e \in DOMAIN disk'.checkpoints : Complete(disk'.checkpoints[e]) =>
           e \in DOMAIN old /\ disk'.checkpoints[e] = old[e]
    BY <2>1, <2>2, <2>4 DEF Complete, Torn
  <2>6. \A e \in DOMAIN old : Complete(old[e]) => GoodCheckpoint(spread, old[e].content, e)
    BY <2>2 DEF FilesInv, CheckpointsSound
  <2>7. QED
    BY <1>1, <2>5, <2>6 DEF CheckpointsSound
<1>4. CASE WriteCheckpoint
  <2>1. PICK old : old = disk.checkpoints
    OBVIOUS
  <2>2. PICK learned : learned = policy
    OBVIOUS
  <2>3. /\ disk'.checkpoints = [old EXCEPT ![epoch] = File(learned)]
        /\ old \in Seq(Files(Policies)) /\ Len(old) = epoch
    BY <1>4, <2>1, <2>2, DiskType DEF WriteCheckpoint, FilesInv, Position
  <2>4. File(learned) \in Files(Policies) /\ epoch \in Nat
    BY <2>2, PolicyFile DEF TypeOK
  <2>5. \A e \in DOMAIN disk'.checkpoints :
           /\ e \in DOMAIN old
           /\ disk'.checkpoints[e] = IF e = epoch THEN File(learned) ELSE old[e]
    BY <2>3, <2>4
  <2>6. \A e \in DOMAIN old : Complete(old[e]) => GoodCheckpoint(spread, old[e].content, e)
    BY <2>1 DEF FilesInv, CheckpointsSound
  <2>7. GoodCheckpoint(spread, learned, epoch)
    BY <1>4, <2>2, EpochIsGood DEF WriteCheckpoint
  <2>8. \A e \in DOMAIN disk'.checkpoints : Complete(disk'.checkpoints[e]) =>
           GoodCheckpoint(spread, disk'.checkpoints[e].content, e)
    BY <2>5, <2>6, <2>7 DEF File
  <2>9. QED
    BY <1>1, <2>8 DEF CheckpointsSound
<1>5. CASE SettleGroup
  BY <1>2, <1>5, DiskType DEF SettleGroup
<1>6. ASSUME NEW g \in Groups, SkipGroup(g) PROVE disk'.checkpoints = disk.checkpoints
  BY <1>6, DiskType DEF SkipGroup, LogSkipped
<1>7. CASE BeginAdapter \/ WriteAdapter \/ BeginManifest \/ WriteManifest \/ CloseRun \/ Prepare
  BY <1>2, <1>7, DiskType
  DEF BeginAdapter, WriteAdapter, BeginManifest, WriteManifest, CloseRun, Prepare
<1>8. CASE UNCHANGED disk
  BY <1>2, <1>8
<1>9. QED
  BY <1>2, <1>3, <1>4, <1>5, <1>6, <1>7, <1>8
  DEF Next, Load, Shuffle, TakeGroup, Backward, FlushEpoch, Stop, Relaunch, Done, vars

(* A step that keeps the files the others depend on. *)
LEMMA FilesKept ==
    ASSUME CompletedRunIsComplete, disk'.checkpoints = disk.checkpoints,
           disk'.adapter = disk.adapter, disk'.manifest = disk.manifest
    PROVE  CompletedRunIsComplete'
BY DEF CompletedRunIsComplete

LEMMA FilesStay ==
    ASSUME TypeOK, OnPolicy, FilesInv, [Next]_vars
    PROVE  Position' /\ CompletedRunIsComplete'
<1>1. CASE UNCHANGED <<pc, epoch, policy, disk>>
  BY <1>1 DEF Position, CompletedRunIsComplete, FilesInv, Training, Saving
<1>2. CASE Prepare
  <2>1. CASE RefusesDirectory
    <3>1. pc' = "refused" /\ disk' = disk
      BY <1>2, <2>1 DEF Prepare
    <3>2. QED
      BY <3>1, FilesKept DEF Position, FilesInv, Training, Saving
  <2>2. CASE ~RefusesDirectory
    <3>1. /\ pc' = "load" /\ disk'.checkpoints = <<>> /\ disk'.adapter = NoFile
          /\ disk'.manifest = NoFile
      BY <1>2, <2>2 DEF Prepare, RefusesDirectory, EmptyDirectory
    <3>2. epoch' = 1
      BY <1>2 DEF Prepare, memory, FilesInv, Position
    <3>3. QED
      BY <3>1, <3>2
      DEF Position, CompletedRunIsComplete, Training, Saving, Complete, NoFile
  <2>3. QED
    BY <2>1, <2>2
<1>3. CASE Load \/ Shuffle \/ FlushEpoch \/ Backward \/ \E g \in Groups : TakeGroup(g)
  <2>1. /\ pc \in Training /\ pc' \in Training /\ disk' = disk /\ epoch' = epoch
    BY <1>3 DEF Load, Shuffle, FlushEpoch, Backward, TakeGroup, memory, Training
  <2>2. QED
    BY <2>1, FilesKept DEF Position, FilesInv, Training, Saving
<1>4. CASE SettleGroup \/ \E g \in Groups : SkipGroup(g)
  <2>1. /\ pc \in Training /\ pc' \in Training /\ epoch' = epoch
        /\ disk'.checkpoints = disk.checkpoints /\ disk'.adapter = disk.adapter
        /\ disk'.manifest = disk.manifest
    BY <1>4, DiskType DEF SettleGroup, SkipGroup, LogSkipped, Training
  <2>2. QED
    BY <2>1, FilesKept DEF Position, FilesInv, Training, Saving
<1>5. CASE BeginCheckpoint
  <2>1. PICK old : old = disk.checkpoints
    OBVIOUS
  <2>2. /\ pc = "checkpoint" /\ pc' = "checkpoint_write" /\ epoch' = epoch
        /\ disk'.checkpoints = Append(old, Torn) /\ disk'.manifest = disk.manifest
    BY <1>5, <2>1, DiskType DEF BeginCheckpoint, memory
  <2>3. /\ old \in Seq(Files(Policies)) /\ Torn \in Files(Policies)
        /\ Len(old) = epoch - 1 /\ ~Complete(disk.manifest)
        /\ \A e \in 1 .. epoch - 1 : Complete(old[e])
    BY <2>1, <2>2, DiskType DEF Files, FilesInv, Position, Training
  <2>4. /\ Len(Append(old, Torn)) = Len(old) + 1
        /\ \A e \in 1 .. Len(old) : Append(old, Torn)[e] = old[e]
    BY <2>3, AppendFacts
  <2>5. Len(disk'.checkpoints) = epoch
    BY <2>2, <2>3, <2>4 DEF TypeOK
  <2>6. \A e \in 1 .. epoch - 1 : Complete(disk'.checkpoints[e])
    BY <2>2, <2>3, <2>4
  <2>7. QED
    BY <2>2, <2>3, <2>5, <2>6 DEF Position, CompletedRunIsComplete, Training, Saving
<1>6. CASE WriteCheckpoint
  <2>1. PICK old : old = disk.checkpoints
    OBVIOUS
  <2>2. /\ pc = "checkpoint_write" /\ disk'.manifest = disk.manifest /\ policy' = policy
        /\ \/ pc' = "adapter" /\ epoch' = epoch /\ epoch = Epochs
           \/ pc' = "shuffle" /\ epoch' = epoch + 1
    BY <1>6, DiskType DEF WriteCheckpoint, LastEpoch
  <2>3. /\ old \in Seq(Files(Policies)) /\ Len(old) = epoch /\ ~Complete(disk.manifest)
        /\ \A e \in 1 .. epoch - 1 : Complete(old[e])
    BY <2>1, <2>2, DiskType DEF FilesInv, Position
  <2>4. disk'.checkpoints = [old EXCEPT ![epoch] = File(policy)]
    BY <1>6, <2>1, <2>3, DiskType DEF WriteCheckpoint
  <2>5. /\ Len(disk'.checkpoints) = epoch
        /\ \A e \in 1 .. epoch :
              disk'.checkpoints[e] = IF e = epoch THEN File(policy) ELSE old[e]
    BY <2>3, <2>4, PolicyFile, ReplaceFacts DEF TypeOK
  <2>6. \A e \in 1 .. epoch : Complete(disk'.checkpoints[e])
    BY <2>3, <2>5 DEF Complete, File, TypeOK
  <2>7. disk'.checkpoints[epoch] = File(policy')
    BY <2>2, <2>5 DEF TypeOK
  <2>8. CASE pc' = "adapter" /\ epoch' = epoch /\ epoch = Epochs
    BY <2>2, <2>3, <2>5, <2>6, <2>7, <2>8
    DEF Position, CompletedRunIsComplete, Training, Saving
  <2>9. CASE pc' = "shuffle" /\ epoch' = epoch + 1
    <3>1. epoch' - 1 = epoch
      BY <2>9 DEF TypeOK
    <3>2. QED
      BY <2>2, <2>3, <2>5, <2>6, <2>9, <3>1
      DEF Position, CompletedRunIsComplete, Training, Saving
  <2>10. QED
    BY <2>2, <2>8, <2>9
<1>7. CASE BeginAdapter \/ WriteAdapter \/ BeginManifest
  <2>1. /\ pc \in Saving /\ pc' \in Saving /\ UNCHANGED <<epoch, policy>>
        /\ disk'.checkpoints = disk.checkpoints
        /\ \/ pc' = "adapter_write" /\ disk'.manifest = disk.manifest
           \/ /\ pc' = "manifest" /\ disk'.manifest = disk.manifest
              /\ disk'.adapter = File(policy)
           \/ /\ pc = "manifest" /\ pc' = "manifest_write" /\ disk'.manifest = Torn
              /\ disk'.adapter = disk.adapter
    BY <1>7, DiskType DEF BeginAdapter, WriteAdapter, BeginManifest, memory, Saving
  <2>2. QED
    BY <2>1 DEF Position, FilesInv, CompletedRunIsComplete, Training, Saving, Complete, Torn
<1>8. CASE WriteManifest
  <2>1. /\ pc = "manifest_write" /\ pc' = "close"
        /\ disk'.checkpoints = disk.checkpoints /\ disk'.adapter = disk.adapter
        /\ disk'.manifest.content.optimizer_updates = global_update
    BY <1>8, DiskType DEF WriteManifest, File
  <2>2. /\ Len(disk.checkpoints) = Epochs
        /\ \A e \in 1 .. Epochs : Complete(disk.checkpoints[e])
        /\ disk.checkpoints[Epochs] = File(policy) /\ disk.adapter = File(policy)
    BY <2>1 DEF FilesInv, Position, Saving
  <2>3. global_update = Len(disk.adapter.content)
    BY <2>2 DEF OnPolicy, File
  <2>4. QED
    BY <2>1, <2>2, <2>3 DEF Position, CompletedRunIsComplete, Training, Saving
<1>9. CASE CloseRun \/ Stop \/ Relaunch
  <2>1. /\ pc' \in {"done", "stopped", "start"}
        /\ disk'.checkpoints = disk.checkpoints /\ disk'.adapter = disk.adapter
        /\ disk'.manifest = disk.manifest /\ (pc' = "start" => epoch' = 1)
    BY <1>9, DiskType DEF CloseRun, Stop, Relaunch, Forget
  <2>2. QED
    BY <2>1, FilesKept DEF Position, FilesInv, Training, Saving
<1>10. QED
  BY <1>1, <1>2, <1>3, <1>4, <1>5, <1>6, <1>7, <1>8, <1>9 DEF Next, Done, vars, memory

TrainerInv == TypeOK /\ OnPolicy /\ Progress /\ FilesInv

LEMMA TrainerInvariant == Spec => []TrainerInv
<1>1. Init => OnPolicy /\ FilesInv
  BY DEF Init, OnPolicy, NoGradient, FilesInv, CheckpointsSound, Position,
         CompletedRunIsComplete, EmptyDirectory, Complete, NoFile, Training, Saving
<1>2. Init => TrainerInv
  BY <1>1, TypeInit, ProgressInit DEF TrainerInv
<1>3. TrainerInv /\ [Next]_vars => TrainerInv'
  BY TypeStep, OnPolicyStays, ProgressStays, CheckpointsStaySound, FilesStay
  DEF TrainerInv, FilesInv
<1>4. QED
  BY <1>2, <1>3, PTL DEF Spec

(* Every checkpoint has learned each group with an advantage once per epoch, *)
(* wholly, and nothing else.                                                 *)
THEOREM EpochsTrainEveryGroupOnce == Spec => []EpochsTrainGroupsOnce
<1>1. TrainerInv => EpochsTrainGroupsOnce
  <2> SUFFICES ASSUME TrainerInv, NEW e \in DOMAIN disk.checkpoints,
                      Complete(disk.checkpoints[e])
               PROVE  /\ \A i \in DOMAIN disk.checkpoints[e].content :
                            /\ disk.checkpoints[e].content[i].epoch <= e
                            /\ Whole(disk.checkpoints[e].content[i])
                      /\ Covers(disk.checkpoints[e].content, e)
    BY DEF EpochsTrainGroupsOnce
  <2>1. PICK updates : updates = disk.checkpoints[e].content
    OBVIOUS
  <2>2. GoodCheckpoint(spread, updates, e)
    BY <2>1 DEF TrainerInv, FilesInv, CheckpointsSound
  <2>3. ASSUME NEW d \in 1 .. e, NEW g \in Groups
        PROVE  Cardinality(Covering(updates, d, g)) = IF Skipped(g) THEN 0 ELSE 1
    <3>1. CASE Skipped(g)
      <4>1. Covering(updates, d, g) = {}
        BY <2>2, <2>3, <3>1 DEF GoodCheckpoint, Skipped
      <4>2. QED
        BY <3>1, <4>1, FS_EmptySet
    <3>2. CASE ~Skipped(g)
      <4>1. PICK i : Covering(updates, d, g) = {i}
        BY <2>2, <2>3, <3>2 DEF GoodCheckpoint, Skipped
      <4>2. QED
        BY <3>2, <4>1, FS_Singleton
    <3>3. QED
      BY <3>1, <3>2
  <2>4. QED
    BY <2>1, <2>2, <2>3 DEF GoodCheckpoint, Covers
<1>2. QED
  BY <1>1, TrainerInvariant, PTL

(* Groups are learned as they were sampled: once an epoch, whole, and        *)
(* beginning with the policy that sampled them.                              *)
THEOREM LearningStaysSound == Spec => []LearningIsSound
<1>1. EpochsTrainGroupsOnce /\ FirstUpdateIsOnPolicy => LearningIsSound
  BY DEF LearningIsSound
<1>2. QED
  BY <1>1, EpochsTrainEveryGroupOnce, FirstUpdatesAreOnPolicy, PTL

(* A completed run has all its checkpoints, and its adapter is the last one. *)
THEOREM CompletedRunsAreComplete == Spec => []CompletedRunIsComplete
<1>1. TrainerInv => CompletedRunIsComplete
  BY DEF TrainerInv, FilesInv
<1>2. QED
  BY <1>1, TrainerInvariant, PTL

(* A completed run never changes again. *)
THEOREM CompletedRunsAreImmutable == Spec => CompletedIsImmutable
<1>1. TrainerInv /\ [Next]_vars =>
         [Complete(disk.manifest) => disk' \in {disk, [disk EXCEPT !.partial = FALSE]}]_vars
  <2> SUFFICES ASSUME TrainerInv, [Next]_vars, Complete(disk.manifest), disk' # disk
               PROVE  disk' = [disk EXCEPT !.partial = FALSE]
    BY DEF vars
  <2>1. pc \notin Training \cup Saving \cup {"checkpoint_write"}
    BY DEF TrainerInv, FilesInv, Position
  <2>2. disk # EmptyDirectory
    BY DEF EmptyDirectory, Complete, NoFile
  <2>3. QED
    BY <2>1, <2>2
    DEF Next, Prepare, RefusesDirectory, Load, Shuffle, SkipGroup, TakeGroup, Backward,
        SettleGroup, FlushEpoch, BeginCheckpoint, WriteCheckpoint, BeginAdapter,
        WriteAdapter, BeginManifest, WriteManifest, CloseRun, Stop, Relaunch, Done, vars,
        Training, Saving
<1>2. QED
  BY <1>1, TrainerInvariant, PTL DEF Spec, CompletedIsImmutable

-----------------------------------------------------------------------------
(* Counting updates, and the metrics.                                        *)

InWork(g) == pc \in Busy /\ g = group

(* The groups that the window holds, and those the epoch is through with.    *)
InWindow == {g \in Groups : ~InWork(g) /\ ~Untouched(g)}
Wide == {g \in Groups : ~Skipped(g)}
Taken == {g \in Wide : g \notin pending /\ ~InWork(g)}

Window ==
    /\ Cardinality(InWindow) = accumulated
    /\ pc \notin InEpoch => accumulated = 0

(* An update is over a full window unless the epoch has ended with it.       *)
FullUpdates ==
    /\ \A i \in DOMAIN policy :
          /\ Cardinality(Trained(policy[i])) \in 1 .. AccumulationSteps
          /\ pc \in InEpoch /\ policy[i].epoch = epoch =>
                Cardinality(Trained(policy[i])) = AccumulationSteps
    /\ UpdatesAreFull

NoneIsClose == \A g \in Groups : spread[g] # "close"

(* k updates of the epoch and the window account for the groups taken.       *)
Scheduled ==
    IF pc \in InEpoch
    THEN \E k \in Nat :
            /\ k * AccumulationSteps + accumulated = Cardinality(Taken)
            /\ schedule <= UpdatesPerEpoch * (epoch - 1) + k
            /\ NoneIsClose => schedule = UpdatesPerEpoch * (epoch - 1) + k
    ELSE /\ schedule <= UpdatesPerEpoch * Finished
         /\ NoneIsClose => schedule = UpdatesPerEpoch * Finished

(* The metrics have a line for each group that was passed.                   *)
Passed(e, g) == \/ e <= Finished
                \/ pc \in InEpoch /\ e = epoch /\ g \notin pending /\ ~InWork(g)
Lines(e, g) == {n \in DOMAIN disk.metrics :
                   disk.metrics[n].epoch = e /\ disk.metrics[n].group = g}
LoggedOnce(e, g) == \E n \in DOMAIN disk.metrics :
    Lines(e, g) = {n} /\ (disk.metrics[n].skipped <=> Skipped(g))

Alive == Training \cup Saving \cup {"checkpoint_write"}

Logged ==
    /\ pc \in Alive => \A e \in 1 .. Epochs, g \in Groups :
          IF Passed(e, g) THEN LoggedOnce(e, g) ELSE Lines(e, g) = {}
    /\ Complete(disk.manifest) => \A e \in 1 .. Epochs, g \in Groups : LoggedOnce(e, g)
    /\ pc \in {"close", "done"} => epoch = Epochs

Counted == Window /\ FullUpdates /\ Scheduled /\ Logged

LEMMA CountsAreFinite ==
    /\ IsFiniteSet(InWindow) /\ Cardinality(InWindow) \in Nat
    /\ IsFiniteSet(Taken) /\ Cardinality(Taken) \in Nat
    /\ IsFiniteSet(Wide) /\ Cardinality(Wide) \in Nat
    /\ IsFiniteSet(NonzeroGroups) /\ Cardinality(NonzeroGroups) \in Nat
<1>1. IsFiniteSet(Groups)
  BY TrainingAssumption DEF TrainingAssumption
<1>2. /\ InWindow \subseteq Groups /\ Taken \subseteq Groups
      /\ Wide \subseteq Groups /\ NonzeroGroups \subseteq Groups
  BY DEF InWindow, Taken, Wide, NonzeroGroups
<1>3. \A S \in SUBSET Groups : IsFiniteSet(S) /\ Cardinality(S) \in Nat
  BY <1>1, FS_Subset, FS_CardinalityType
<1> QED
  BY <1>2, <1>3

(* The spread of the rewards is given once and for all.                      *)
LEMMA SpreadStays == ASSUME [Next]_vars PROVE spread' = spread
BY DEF Next, Prepare, Load, Shuffle, SkipGroup, TakeGroup, Backward, SettleGroup,
       FlushEpoch, BeginCheckpoint, WriteCheckpoint, BeginAdapter, WriteAdapter,
       BeginManifest, WriteManifest, CloseRun, Stop, Relaunch, Done, vars

(* An update trains what is in the window and the group that fills it.       *)
LEMMA WindowTrains ==
    ASSUME TypeOK, Progress, pc \in {"groups", "settle"}
    PROVE  /\ pc = "groups" =>
                Trained([epoch |-> epoch, gradient |-> gradient]) = InWindow
           /\ pc = "settle" =>
                /\ Trained([epoch |-> epoch, gradient |-> gradient]) = InWindow \cup {group}
                /\ group \notin InWindow
                /\ ~Untouched(group)
<1> DEFINE update == [epoch |-> epoch, gradient |-> gradient]
<1>1. \A g \in Groups : g \in Trained(update) <=> ~Untouched(g)
  BY DEF Trained, Untouched
<1>2. Trained(update) \subseteq Groups
  BY DEF Trained
<1>3. ASSUME pc = "groups" PROVE Trained(update) = InWindow
  BY <1>1, <1>2, <1>3 DEF InWindow, InWork, Busy
<1>4. ASSUME pc = "settle"
      PROVE  /\ Trained(update) = InWindow \cup {group} /\ group \notin InWindow
             /\ ~Untouched(group)
  <2>1. group \in Groups /\ GroupProgress(group)
    BY DEF TypeOK, Progress
  <2>2. Full(group)
    BY <1>4, <2>1 DEF GroupProgress, InEpoch, Busy, Begun, Full
  <2>3. ~Untouched(group)
    <3>1. 1 \in Traces
      BY TrainingAssumption DEF TrainingAssumption, Traces
    <3> QED
      BY <2>2, <3>1 DEF Full, Untouched
  <2> QED
    BY <1>1, <1>2, <1>4, <2>1, <2>3 DEF InWindow, InWork, Busy
<1> QED
  BY <1>3, <1>4

-----------------------------------------------------------------------------
(* The code's count of the groups in its window is right.                    *)

LEMMA WindowKept ==
    ASSUME Window, UNCHANGED <<gradient, accumulated>>,
           \A g \in Groups : InWork(g)' <=> InWork(g),
           pc' \in InEpoch \/ pc \notin InEpoch
    PROVE  Window'
<1>1. InWindow' = InWindow
  BY DEF InWindow, Untouched
<1> QED
  BY <1>1 DEF Window

LEMMA WindowEmptied ==
    ASSUME gradient' = NoGradient, accumulated' = 0 PROVE Window'
<1>1. InWindow' = {}
  BY DEF InWindow, Untouched, NoGradient
<1> QED
  BY <1>1, FS_EmptySet DEF Window

LEMMA WindowStays == ASSUME TypeOK, Progress, Window, [Next]_vars PROVE Window'
<1>1. CASE \/ Prepare \/ Load \/ Shuffle \/ BeginCheckpoint \/ WriteCheckpoint \/ BeginAdapter
           \/ WriteAdapter \/ BeginManifest \/ WriteManifest \/ CloseRun
           \/ \E g \in Groups : SkipGroup(g)
  <2>1. /\ UNCHANGED <<gradient, accumulated>> /\ pc \notin Busy /\ pc' \notin Busy
        /\ pc' \in InEpoch \/ pc \notin InEpoch
    BY <1>1 DEF Prepare, Load, Shuffle, BeginCheckpoint, WriteCheckpoint, BeginAdapter,
       WriteAdapter, BeginManifest, WriteManifest, CloseRun, SkipGroup, memory, Busy, InEpoch
  <2> QED
    BY <2>1, WindowKept DEF InWork
<1>2. ASSUME NEW g \in Groups, TakeGroup(g) PROVE Window'
  <2>1. /\ pc = "groups" /\ pc' = "trace" /\ g \in pending /\ group' = g
        /\ UNCHANGED <<gradient, accumulated>>
    BY <1>2 DEF TakeGroup
  <2>2. Untouched(g)
    BY <2>1 DEF Progress, GroupProgress, InEpoch, Busy
  <2>3. InWindow' = InWindow
    BY <2>1, <2>2 DEF InWindow, InWork, Untouched, Busy
  <2> QED
    BY <2>1, <2>3 DEF Window, InEpoch, Busy
<1>3. CASE Backward
  <2>1. PICK drifted \in BOOLEAN : gradient' = Add(group, trace, drifted)
    BY <1>3 DEF Backward
  <2>2. /\ pc = "trace" /\ pc' \in {"trace", "settle"} /\ UNCHANGED <<group, accumulated>>
    BY <1>3 DEF Backward
  <2>3. \A g \in Groups : g # group => (Untouched(g)' <=> Untouched(g))
    BY <2>1, AddType DEF Untouched
  <2>4. InWindow' = InWindow
    BY <2>2, <2>3 DEF InWindow, InWork, Busy
  <2> QED
    BY <2>2, <2>4 DEF Window, InEpoch, Busy
<1>4. CASE SettleGroup
  <2>1. pc = "settle" /\ pc' = "groups" /\ group \in Groups
    BY <1>4 DEF SettleGroup, TypeOK
  <2>2. CASE WindowFull
    BY <1>4, <2>2, WindowEmptied DEF SettleGroup, OptimizerStep
  <2>3. CASE ~WindowFull
    <3>1. accumulated' = accumulated + 1 /\ gradient' = gradient
      BY <1>4, <2>3 DEF SettleGroup
    <3>2. InWindow' = InWindow \cup {group} /\ group \notin InWindow
      <4>1. ~Untouched(group) /\ group \notin InWindow
        BY <2>1, WindowTrains
      <4> QED
        BY <2>1, <3>1, <4>1 DEF InWindow, InWork, Untouched, Busy
    <3>3. Cardinality(InWindow') = Cardinality(InWindow) + 1
      BY <3>2, CountsAreFinite, FS_AddElement
    <3> QED
      BY <2>1, <3>1, <3>3 DEF Window, InEpoch
  <2> QED
    BY <2>2, <2>3
<1>5. CASE FlushEpoch
  <2>1. pc = "groups" /\ pc' = "checkpoint"
    BY <1>5 DEF FlushEpoch
  <2>2. CASE Leftover
    BY <1>5, <2>2, WindowEmptied DEF FlushEpoch, OptimizerStep
  <2>3. CASE ~Leftover
    <3>1. UNCHANGED <<gradient, accumulated>> /\ accumulated = 0
      BY <1>5, <2>3 DEF FlushEpoch, Leftover, TypeOK
    <3>2. InWindow' = InWindow
      BY <2>1, <3>1 DEF InWindow, InWork, Untouched, Busy
    <3> QED
      BY <3>1, <3>2 DEF Window
  <2> QED
    BY <2>2, <2>3
<1>6. CASE Stop \/ Relaunch
  BY <1>6, WindowEmptied DEF Stop, Relaunch, Forget
<1>7. CASE Done \/ UNCHANGED vars
  <2>1. UNCHANGED <<pc, group, gradient, accumulated>>
    BY <1>7 DEF Done, vars, memory
  <2> QED
    BY <2>1, WindowKept DEF InWork, InEpoch
<1> QED
  BY <1>1, <1>2, <1>3, <1>4, <1>5, <1>6, <1>7 DEF Next

-----------------------------------------------------------------------------
(* Updates are over full windows, but for an epoch's last.                   *)

LEMMA FullUpdatesKept ==
    ASSUME FullUpdates, policy' = policy,
           pc' \notin InEpoch \/ (pc \in InEpoch /\ epoch' = epoch)
    PROVE  FullUpdates'
BY DEF FullUpdates, UpdatesAreFull, Trained

(* One update more, over `size` groups.                                      *)
LEMMA FullUpdatesStep ==
    ASSUME TypeOK, FullUpdates, OptimizerStep, pc \in InEpoch, epoch' = epoch,
           NEW size \in 1 .. AccumulationSteps,
           Cardinality(Trained([epoch |-> epoch, gradient |-> gradient])) = size,
           pc' \in InEpoch => size = AccumulationSteps
    PROVE  FullUpdates'
<1>1. PICK update : update = [epoch |-> epoch, gradient |-> gradient]
  OBVIOUS
<1>2. update \in [epoch : 1 .. Epochs, gradient : Gradients] /\ update.epoch = epoch
  BY <1>1 DEF TypeOK
<1>3. policy' = Append(policy, update)
  BY <1>1 DEF OptimizerStep
<1>4. policy \in Seq([epoch : 1 .. Epochs, gradient : Gradients])
  BY DEF TypeOK, Policies
<1>5. /\ Len(policy') = Len(policy) + 1
      /\ DOMAIN policy' = 1 .. Len(policy) + 1
      /\ \A i \in 1 .. Len(policy) : policy'[i] = policy[i]
      /\ policy'[Len(policy) + 1] = update
  BY <1>2, <1>3, <1>4, AppendFacts
<1>6. DOMAIN policy = 1 .. Len(policy) /\ Len(policy) \in Nat
  BY <1>4
<1>7. /\ Cardinality(Trained(update)) = size
      /\ AccumulationSteps \in Nat
  BY <1>1, TrainingAssumption DEF TrainingAssumption
<1>8. \A i \in 1 .. Len(policy) :
         /\ Cardinality(Trained(policy[i])) \in 1 .. AccumulationSteps
         /\ policy[i].epoch = epoch => Cardinality(Trained(policy[i])) = AccumulationSteps
         /\ i < Len(policy) /\ policy[i + 1].epoch = policy[i].epoch =>
               Cardinality(Trained(policy[i])) = AccumulationSteps
  BY <1>6 DEF FullUpdates, UpdatesAreFull
<1>9. \A i \in DOMAIN policy' :
         /\ Cardinality(Trained(policy'[i])) \in 1 .. AccumulationSteps
         /\ pc' \in InEpoch /\ policy'[i].epoch = epoch =>
               Cardinality(Trained(policy'[i])) = AccumulationSteps
  <2> SUFFICES ASSUME NEW i \in DOMAIN policy'
               PROVE  /\ Cardinality(Trained(policy'[i])) \in 1 .. AccumulationSteps
                      /\ pc' \in InEpoch /\ policy'[i].epoch = epoch =>
                            Cardinality(Trained(policy'[i])) = AccumulationSteps
    OBVIOUS
  <2>1. CASE i = Len(policy) + 1
    BY <1>5, <1>7, <2>1
  <2>2. CASE i # Len(policy) + 1
    <3>1. i \in 1 .. Len(policy) /\ policy'[i] = policy[i]
      BY <1>5, <1>6, <2>2
    <3> QED
      BY <1>8, <3>1
  <2> QED
    BY <2>1, <2>2
<1>10. \A i \in DOMAIN policy' :
          i < Len(policy') /\ policy'[i + 1].epoch = policy'[i].epoch =>
             Cardinality(Trained(policy'[i])) = AccumulationSteps
  <2> SUFFICES ASSUME NEW i \in DOMAIN policy', i < Len(policy'),
                      policy'[i + 1].epoch = policy'[i].epoch
               PROVE  Cardinality(Trained(policy'[i])) = AccumulationSteps
    OBVIOUS
  <2>1. i \in 1 .. Len(policy) /\ policy'[i] = policy[i]
    BY <1>5, <1>6
  <2>2. CASE i = Len(policy)
    BY <1>2, <1>5, <1>8, <2>1, <2>2
  <2>3. CASE i < Len(policy)
    <3>1. i + 1 \in 1 .. Len(policy) /\ policy'[i + 1] = policy[i + 1]
      BY <1>5, <1>6, <2>1, <2>3
    <3> QED
      BY <1>8, <2>1, <2>3, <3>1
  <2> QED
    BY <1>6, <2>1, <2>2, <2>3
<1> QED
  BY <1>9, <1>10 DEF FullUpdates, UpdatesAreFull, Trained

LEMMA FullUpdatesStay ==
    ASSUME TypeOK, Progress, Window, FullUpdates, [Next]_vars PROVE FullUpdates'
<1>0. accumulated \in 0 .. AccumulationSteps - 1 /\ AccumulationSteps \in Nat \ {0}
  BY TrainingAssumption DEF TypeOK, TrainingAssumption
<1>1. CASE \/ Prepare \/ Load \/ BeginCheckpoint \/ WriteCheckpoint \/ BeginAdapter
           \/ WriteAdapter \/ BeginManifest \/ WriteManifest \/ CloseRun
  <2>1. policy' = policy /\ pc' \notin InEpoch
    BY <1>1 DEF Prepare, Load, BeginCheckpoint, WriteCheckpoint, BeginAdapter,
       WriteAdapter, BeginManifest, WriteManifest, CloseRun, memory, Busy, InEpoch
  <2> QED
    BY <2>1, FullUpdatesKept
<1>2. CASE Backward \/ Done \/ UNCHANGED vars \/ \E g \in Groups : SkipGroup(g) \/ TakeGroup(g)
  <2>1. policy' = policy /\ epoch' = epoch /\ (pc' \in InEpoch => pc \in InEpoch)
    BY <1>2 DEF Backward, SkipGroup, TakeGroup, Done, vars, memory, Busy, InEpoch
  <2> QED
    BY <2>1, FullUpdatesKept
<1>3. CASE Shuffle
  <2>1. pc = "shuffle" /\ policy' = policy /\ epoch' = epoch
    BY <1>3 DEF Shuffle
  <2>2. epoch \in Nat /\ Finished = epoch - 1
    BY <2>1 DEF TypeOK, Finished, Early
  <2>3. \A i \in DOMAIN policy : policy[i].epoch <= epoch - 1
    BY <2>1, <2>2 DEF Progress, UpdatesSound, InEpoch, Busy
  <2>4. \A i \in DOMAIN policy : policy[i].epoch # epoch
    <3>1. policy \in Seq([epoch : 1 .. Epochs, gradient : Gradients])
      BY DEF TypeOK, Policies
    <3>2. \A i \in DOMAIN policy : policy[i] \in [epoch : 1 .. Epochs, gradient : Gradients]
      BY <3>1, Elements
    <3>3. \A i \in DOMAIN policy : policy[i].epoch \in Int
      BY <3>2
    <3> QED
      BY <2>2, <2>3, <3>3
  <2> QED
    BY <2>1, <2>4 DEF FullUpdates, UpdatesAreFull, Trained
<1>4. CASE SettleGroup
  <2>1. pc = "settle" /\ epoch' = epoch
    BY <1>4 DEF SettleGroup
  <2>2. CASE WindowFull
    <3>1. OptimizerStep /\ accumulated + 1 = AccumulationSteps
      BY <1>4, <2>2 DEF SettleGroup, WindowFull
    <3>2. Cardinality(InWindow \cup {group}) = Cardinality(InWindow) + 1
      BY <2>1, WindowTrains, CountsAreFinite, FS_AddElement
    <3>3. Cardinality(Trained([epoch |-> epoch, gradient |-> gradient])) = AccumulationSteps
      BY <2>1, <3>1, <3>2, WindowTrains DEF Window
    <3>4. AccumulationSteps \in 1 .. AccumulationSteps /\ pc \in InEpoch
      BY <1>0, <2>1 DEF InEpoch, Busy
    <3> QED
      BY <2>1, <3>1, <3>3, <3>4, FullUpdatesStep
  <2>3. CASE ~WindowFull
    <3>1. policy' = policy /\ pc \in InEpoch
      BY <1>4, <2>1, <2>3 DEF SettleGroup, InEpoch, Busy
    <3> QED
      BY <2>1, <3>1, FullUpdatesKept
  <2> QED
    BY <2>2, <2>3
<1>5. CASE FlushEpoch
  <2>1. pc = "groups" /\ epoch' = epoch /\ pc' = "checkpoint"
    BY <1>5 DEF FlushEpoch
  <2>2. CASE Leftover
    <3>1. OptimizerStep /\ accumulated > 0
      BY <1>5, <2>2 DEF FlushEpoch, Leftover
    <3>2. Cardinality(Trained([epoch |-> epoch, gradient |-> gradient])) = accumulated
      BY <2>1, WindowTrains DEF Window
    <3>3. accumulated \in 1 .. AccumulationSteps /\ pc \in InEpoch /\ pc' \notin InEpoch
      BY <1>0, <2>1, <3>1 DEF InEpoch, Busy
    <3> QED
      BY <2>1, <3>1, <3>2, <3>3, FullUpdatesStep
  <2>3. CASE ~Leftover
    <3>1. policy' = policy /\ pc' \notin InEpoch
      BY <1>5, <2>1, <2>3 DEF FlushEpoch, InEpoch, Busy
    <3> QED
      BY <3>1, FullUpdatesKept
  <2> QED
    BY <2>2, <2>3
<1>6. CASE Stop \/ Relaunch
  <2>1. policy' = <<>>
    BY <1>6 DEF Stop, Relaunch, Forget
  <2> QED
    BY <2>1 DEF FullUpdates, UpdatesAreFull
<1> QED
  BY <1>1, <1>2, <1>3, <1>4, <1>5, <1>6 DEF Next

-----------------------------------------------------------------------------
(* The schedule is as long as the updates take.                              *)

LEMMA ProductLaws ==
    ASSUME NEW a \in Nat, NEW b \in Nat, NEW k \in Nat
    PROVE  /\ a * k \in Nat /\ (a + 1) * k = a * k + k /\ k * (a + 1) = k * a + k
           /\ a <= b => a * k <= b * k
OBVIOUS

LEMMA Division ==
    ASSUME NEW n \in Nat, NEW k \in Nat \ {0}
    PROVE  /\ n \div k \in Nat
           /\ (n \div k) * k <= n
           /\ n < (n \div k + 1) * k
OBVIOUS

(* Full updates over all but `rest` of `size` groups, and one over the rest. *)
LEMMA UpdatesNeeded ==
    ASSUME NEW window \in Nat \ {0}, NEW size \in Nat, NEW planned \in Nat,
           NEW k \in Nat, NEW rest \in 0 .. window - 1,
           k * window + rest = size, size <= planned
    PROVE  LET updates == IF rest > 0 THEN k + 1 ELSE k
               limit == (planned + window - 1) \div window
           IN  updates <= limit /\ (size = planned => updates = limit)
<1> DEFINE updates == IF rest > 0 THEN k + 1 ELSE k
           most == planned + window - 1
           limit == most \div window
<1>1. updates \in Nat /\ most \in Nat
  OBVIOUS
<1>2. limit \in Nat /\ limit * window <= most /\ most < (limit + 1) * window
  BY <1>1, Division
<1>3. updates * window <= most
  <2>1. k * window \in Nat /\ (k + 1) * window = k * window + window
    BY ProductLaws
  <2>2. CASE rest > 0
    <3>1. updates = k + 1
      BY <2>2
    <3> QED
      BY <2>1, <2>2, <3>1
  <2>3. CASE ~(rest > 0)
    <3>1. updates = k
      BY <2>3
    <3> QED
      BY <2>1, <3>1
  <2> QED
    BY <2>2, <2>3
<1>4. ASSUME size = planned PROVE most < (updates + 1) * window
  <2>1. /\ k * window \in Nat /\ (k + 1) * window = k * window + window
        /\ (k + 2) * window = k * window + window + window
    BY ProductLaws
  <2>2. CASE rest > 0
    <3>1. updates + 1 = k + 2
      BY <2>2
    <3> QED
      BY <1>4, <2>1, <2>2, <3>1
  <2>3. CASE ~(rest > 0)
    <3>1. updates + 1 = k + 1
      BY <2>3
    <3> QED
      BY <1>4, <2>1, <2>3, <3>1
  <2> QED
    BY <2>2, <2>3
<1> HIDE DEF updates, limit, most
<1>5. ASSUME NEW x \in Nat, NEW y \in Nat, x * window <= most, most < (y + 1) * window
      PROVE  x <= y
  <2> SUFFICES ASSUME ~(x <= y) PROVE FALSE
    OBVIOUS
  <2>1. (y + 1) * window <= x * window
    BY ProductLaws
  <2>2. (y + 1) * window \in Nat /\ x * window \in Nat
    BY ProductLaws
  <2> QED
    BY <1>1, <1>5, <2>1, <2>2
<1>6. updates <= limit
  BY <1>1, <1>2, <1>3, <1>5
<1>7. size = planned => limit <= updates
  BY <1>1, <1>2, <1>4, <1>5
<1> QED
  BY <1>1, <1>2, <1>6, <1>7 DEF updates, limit, most

(* A full group of the epoch leaves the window in an update, or joins it.    *)
LEMMA ScheduledKept ==
    ASSUME Scheduled, UNCHANGED <<spread, schedule, epoch, accumulated>>,
           pc \in InEpoch, pc' \in InEpoch, Taken' = Taken
    PROVE  Scheduled'
<1>1. UpdatesPerEpoch' = UpdatesPerEpoch /\ NoneIsClose' = NoneIsClose
  BY DEF UpdatesPerEpoch, NonzeroGroups, ZeroVariance, NoneIsClose
<1> QED
  BY <1>1 DEF Scheduled

LEMMA ScheduledStays ==
    ASSUME TypeOK, Progress, Window, Scheduled, [Next]_vars PROVE Scheduled'
<1>0. /\ accumulated \in 0 .. AccumulationSteps - 1 /\ AccumulationSteps \in Nat \ {0}
      /\ schedule \in Nat /\ epoch \in Nat /\ epoch >= 1
      /\ Cardinality(NonzeroGroups) \in Nat /\ Cardinality(Taken) \in Nat
  BY TrainingAssumption, CountsAreFinite DEF TypeOK, TrainingAssumption
<1>00. /\ UpdatesPerEpoch' = UpdatesPerEpoch /\ NoneIsClose' = NoneIsClose
       /\ UpdatesPerEpoch \in Nat
  <2>1. spread' = spread
    BY SpreadStays
  <2>2. Cardinality(NonzeroGroups) + AccumulationSteps - 1 \in Nat
    BY <1>0
  <2>3. UpdatesPerEpoch \in Nat
    BY <1>0, <2>2, Division DEF UpdatesPerEpoch
  <2> QED
    BY <2>1, <2>3 DEF UpdatesPerEpoch, NonzeroGroups, ZeroVariance, NoneIsClose
<1>1. CASE \/ Prepare \/ Load \/ BeginCheckpoint \/ WriteCheckpoint \/ BeginAdapter
           \/ WriteAdapter \/ BeginManifest \/ WriteManifest \/ CloseRun
  <2>1. /\ UNCHANGED schedule /\ pc \notin InEpoch /\ pc' \notin InEpoch /\ Finished' = Finished
    <3>1. CASE WriteCheckpoint
      BY <1>0, <3>1 DEF WriteCheckpoint, Finished, Early, InEpoch, Busy
    <3>2. CASE ~WriteCheckpoint
      BY <1>1, <3>2 DEF Prepare, Load, BeginCheckpoint, BeginAdapter, WriteAdapter,
         BeginManifest, WriteManifest, CloseRun, memory, Finished, Early, InEpoch, Busy
    <3> QED
      BY <3>1, <3>2
  <2> QED
    BY <1>00, <2>1 DEF Scheduled
<1>2. CASE Done \/ UNCHANGED vars
  <2>1. UNCHANGED <<pc, spread, epoch, pending, group, accumulated, schedule>>
    BY <1>2 DEF Done, vars, memory
  <2>2. Taken' = Taken /\ Finished' = Finished
    BY <2>1 DEF Taken, Wide, Skipped, InWork, Finished
  <2> QED
    BY <1>00, <2>1, <2>2 DEF Scheduled
<1>3. CASE Shuffle
  <2>1. /\ pc = "shuffle" /\ pc' = "groups" /\ pending' = Groups
        /\ UNCHANGED <<epoch, accumulated, schedule>>
    BY <1>3 DEF Shuffle
  <2>2. Taken' = {} /\ accumulated = 0 /\ Finished = epoch - 1
    BY <2>1 DEF Taken, Wide, Window, InEpoch, Busy, Finished, Early
  <2>3. Cardinality(Taken') = 0
    BY <2>2, FS_EmptySet
  <2>4. /\ schedule <= UpdatesPerEpoch * (epoch - 1)
        /\ NoneIsClose => schedule = UpdatesPerEpoch * (epoch - 1)
    BY <2>1, <2>2 DEF Scheduled, InEpoch, Busy
  <2>5. UpdatesPerEpoch * (epoch - 1) \in Nat /\ 0 * AccumulationSteps = 0
    BY <1>0, <1>00, ProductLaws
  <2>6. /\ 0 * AccumulationSteps + accumulated' = Cardinality(Taken')
        /\ schedule' <= UpdatesPerEpoch' * (epoch' - 1) + 0
        /\ NoneIsClose' => schedule' = UpdatesPerEpoch' * (epoch' - 1) + 0
    BY <1>00, <2>1, <2>2, <2>3, <2>4, <2>5
  <2> QED
    BY <2>1, <2>6 DEF Scheduled, InEpoch
<1>4. ASSUME NEW g \in Groups, SkipGroup(g) PROVE Scheduled'
  <2>1. Taken' = Taken
    BY <1>4 DEF SkipGroup, Taken, Wide, Skipped, InWork
  <2> QED
    BY <1>4, <2>1, ScheduledKept DEF SkipGroup, InEpoch
<1>5. ASSUME NEW g \in Groups, TakeGroup(g) PROVE Scheduled'
  <2>1. Taken' = Taken
    BY <1>5 DEF TakeGroup, Taken, Wide, Skipped, InWork, Busy
  <2> QED
    BY <1>5, <2>1, ScheduledKept DEF TakeGroup, InEpoch, Busy
<1>6. CASE Backward
  <2>1. /\ pc = "trace" /\ pc' \in {"trace", "settle"}
        /\ UNCHANGED <<spread, epoch, pending, group, accumulated, schedule>>
    BY <1>6 DEF Backward
  <2>2. Taken' = Taken
    BY <2>1 DEF Taken, Wide, Skipped, InWork, Busy
  <2> QED
    BY <2>1, <2>2, ScheduledKept DEF InEpoch, Busy
<1>7. CASE SettleGroup
  <2>1. /\ pc = "settle" /\ pc' = "groups" /\ UNCHANGED <<spread, epoch, pending, group>>
        /\ group \in Groups /\ group \notin pending /\ ~Skipped(group)
    BY <1>7 DEF SettleGroup, TypeOK, Progress, Busy
  <2>2. Taken' = Taken \cup {group} /\ group \notin Taken
    BY <2>1 DEF Taken, Wide, Skipped, InWork, Busy
  <2>3. Cardinality(Taken') = Cardinality(Taken) + 1
    BY <2>2, CountsAreFinite, FS_AddElement
  <2>4. PICK k \in Nat : /\ k * AccumulationSteps + accumulated = Cardinality(Taken)
                         /\ schedule <= UpdatesPerEpoch * (epoch - 1) + k
                         /\ NoneIsClose => schedule = UpdatesPerEpoch * (epoch - 1) + k
    BY <2>1 DEF Scheduled, InEpoch, Busy
  <2>5. /\ k * AccumulationSteps \in Nat /\ UpdatesPerEpoch * (epoch - 1) \in Nat
        /\ (k + 1) * AccumulationSteps = k * AccumulationSteps + AccumulationSteps
    BY <1>0, <1>00, ProductLaws
  <2>6. ASSUME NEW j \in Nat, j * AccumulationSteps + accumulated' = Cardinality(Taken'),
               schedule' = schedule + (j - k)
        PROVE  Scheduled'
    <3>1. /\ schedule' <= UpdatesPerEpoch' * (epoch' - 1) + j
          /\ NoneIsClose' => schedule' = UpdatesPerEpoch' * (epoch' - 1) + j
      BY <1>0, <1>00, <2>1, <2>4, <2>5, <2>6
    <3> QED
      BY <2>1, <2>6, <3>1 DEF Scheduled, InEpoch
  <2>7. CASE WindowFull
    <3>1. schedule' = schedule + 1 /\ accumulated' = 0 /\ accumulated + 1 = AccumulationSteps
      BY <1>7, <2>7 DEF SettleGroup, OptimizerStep, WindowFull
    <3>2. (k + 1) * AccumulationSteps + accumulated' = Cardinality(Taken')
      BY <1>0, <2>3, <2>4, <2>5, <3>1
    <3> QED
      BY <1>0, <2>6, <3>1, <3>2
  <2>8. CASE ~WindowFull
    <3>1. schedule' = schedule /\ accumulated' = accumulated + 1
      BY <1>7, <2>8 DEF SettleGroup
    <3>2. k * AccumulationSteps + accumulated' = Cardinality(Taken')
      BY <1>0, <2>3, <2>4, <2>5, <3>1
    <3> QED
      BY <1>0, <2>6, <3>1, <3>2
  <2> QED
    BY <2>7, <2>8
<1>8. CASE FlushEpoch
  <2>1. /\ pc = "groups" /\ pending = {} /\ pc' = "checkpoint"
        /\ UNCHANGED <<spread, epoch>>
    BY <1>8 DEF FlushEpoch
  <2>2. Taken = Wide /\ Wide \subseteq NonzeroGroups /\ (NoneIsClose => Wide = NonzeroGroups)
    <3>1. \A g \in Groups : spread[g] \in Spreads
      BY DEF TypeOK
    <3> QED
      BY <2>1, <3>1 DEF Taken, Wide, InWork, Busy, NonzeroGroups, ZeroVariance, Skipped,
         NoneIsClose, Spreads
  <2>3. Cardinality(Taken) <= Cardinality(NonzeroGroups)
    BY <2>2, CountsAreFinite, FS_Subset
  <2>4. PICK k \in Nat : /\ k * AccumulationSteps + accumulated = Cardinality(Taken)
                         /\ schedule <= UpdatesPerEpoch * (epoch - 1) + k
                         /\ NoneIsClose => schedule = UpdatesPerEpoch * (epoch - 1) + k
    BY <2>1 DEF Scheduled, InEpoch
  <2> DEFINE more == IF accumulated > 0 THEN k + 1 ELSE k
  <2>5. /\ more <= UpdatesPerEpoch
        /\ NoneIsClose => more = UpdatesPerEpoch
    <3>1. /\ more <= UpdatesPerEpoch
          /\ Cardinality(Taken) = Cardinality(NonzeroGroups) => more = UpdatesPerEpoch
      BY <1>0, <2>3, <2>4, UpdatesNeeded DEF UpdatesPerEpoch
    <3> QED
      BY <2>2, <3>1
  <2>6. schedule' = schedule + (more - k)
    <3>1. CASE Leftover
      BY <1>0, <1>8, <3>1 DEF FlushEpoch, OptimizerStep, Leftover
    <3>2. CASE ~Leftover
      BY <1>0, <1>8, <3>2 DEF FlushEpoch, Leftover
    <3> QED
      BY <3>1, <3>2
  <2>7. more \in Nat
    OBVIOUS
  <2> HIDE DEF more
  <2>8. /\ UpdatesPerEpoch * (epoch - 1) \in Nat
        /\ UpdatesPerEpoch * epoch = UpdatesPerEpoch * (epoch - 1) + UpdatesPerEpoch
    <3>1. epoch - 1 \in Nat /\ epoch = (epoch - 1) + 1
      BY <1>0
    <3> QED
      BY <1>00, <3>1, ProductLaws
  <2>9. /\ schedule' <= UpdatesPerEpoch * epoch
        /\ NoneIsClose => schedule' = UpdatesPerEpoch * epoch
    BY <1>0, <1>00, <2>4, <2>5, <2>6, <2>7, <2>8
  <2>10. Finished' = epoch
    BY <2>1 DEF Finished, Early, InEpoch, Busy
  <2> QED
    BY <1>00, <2>1, <2>9, <2>10 DEF Scheduled, InEpoch, Busy
<1>9. CASE Stop \/ Relaunch
  <2>1. schedule' = 0 /\ pc' \in {"stopped", "start"} /\ epoch' = 1
    BY <1>9 DEF Stop, Relaunch, Forget
  <2>2. Finished' = 0 /\ pc' \notin InEpoch
    BY <2>1 DEF Finished, Early, InEpoch, Busy
  <2>3. UpdatesPerEpoch' * 0 = 0
    BY <1>00
  <2> QED
    BY <2>1, <2>2, <2>3 DEF Scheduled
<1> QED
  BY <1>1, <1>2, <1>3, <1>4, <1>5, <1>6, <1>7, <1>8, <1>9 DEF Next

-----------------------------------------------------------------------------
(* Each group that an epoch passed has its one line in the metrics.          *)

LEMMA LineAdded ==
    ASSUME TypeOK, NEW g \in Groups, NEW skipped \in BOOLEAN, NEW stepped \in BOOLEAN,
           disk'.metrics = Append(disk.metrics, Line(g, skipped, stepped)),
           spread' = spread, skipped <=> Skipped(g)
    PROVE  /\ \A e \in 1 .. Epochs, h \in Groups : ~(e = epoch /\ h = g) =>
                 /\ Lines(e, h)' = Lines(e, h)
                 /\ LoggedOnce(e, h) => LoggedOnce(e, h)'
           /\ \A e \in 1 .. Epochs : e = epoch /\ Lines(e, g) = {} => LoggedOnce(e, g)'
<1>1. PICK old, line : old = disk.metrics /\ line = Line(g, skipped, stepped)
  OBVIOUS
<1> DEFINE LineSet == [epoch : 1 .. Epochs, group : Groups, skipped : BOOLEAN, stepped : BOOLEAN]
<1>2. old \in Seq(LineSet)
  BY <1>1, DiskType
<1>3. /\ line \in LineSet
      /\ line.epoch = epoch /\ line.group = g /\ line.skipped = skipped
  BY <1>1 DEF Line, TypeOK
<1>4. /\ DOMAIN disk'.metrics = 1 .. Len(old) + 1
      /\ \A n \in 1 .. Len(old) : disk'.metrics[n] = old[n]
      /\ disk'.metrics[Len(old) + 1] = line
  BY <1>1, <1>2, <1>3, AppendFacts
<1>5. DOMAIN old = 1 .. Len(old) /\ Len(old) \in Nat
  BY <1>2
<1>6. \A h \in Groups : Skipped(h)' <=> Skipped(h)
  BY DEF Skipped
<1>7. ASSUME NEW e \in 1 .. Epochs, NEW h \in Groups, ~(e = epoch /\ h = g)
      PROVE  Lines(e, h)' = Lines(e, h) /\ (LoggedOnce(e, h) => LoggedOnce(e, h)')
  <2>1. Lines(e, h)' = Lines(e, h)
    BY <1>1, <1>3, <1>4, <1>5, <1>7 DEF Lines
  <2>2. ASSUME LoggedOnce(e, h) PROVE LoggedOnce(e, h)'
    <3>1. PICK n \in DOMAIN old : Lines(e, h) = {n} /\ (old[n].skipped <=> Skipped(h))
      BY <1>1, <2>2 DEF LoggedOnce
    <3>2. n \in DOMAIN disk'.metrics /\ disk'.metrics[n] = old[n]
      BY <1>4, <1>5, <3>1
    <3> QED
      BY <1>6, <2>1, <3>1, <3>2 DEF LoggedOnce
  <2> QED
    BY <2>1, <2>2
<1>8. ASSUME NEW e \in 1 .. Epochs, e = epoch, Lines(e, g) = {} PROVE LoggedOnce(e, g)'
  <2>1. Lines(e, g)' = {Len(old) + 1}
    BY <1>1, <1>3, <1>4, <1>5, <1>8 DEF Lines
  <2>2. Len(old) + 1 \in DOMAIN disk'.metrics
    BY <1>4, <1>5
  <2> QED
    BY <1>3, <1>4, <1>6, <2>1, <2>2 DEF LoggedOnce
<1> QED
  BY <1>7, <1>8

LEMMA LoggedKept ==
    ASSUME Logged, spread' = spread, disk'.metrics = disk.metrics,
           Complete(disk'.manifest) => Complete(disk.manifest),
           pc' \in Alive => /\ pc \in Alive
                            /\ \A e \in 1 .. Epochs, g \in Groups : Passed(e, g)' <=> Passed(e, g),
           pc' \in {"close", "done"} => epoch' = Epochs
    PROVE  Logged'
<1>1. \A e \in 1 .. Epochs, g \in Groups :
         /\ Lines(e, g)' = Lines(e, g)
         /\ LoggedOnce(e, g)' <=> LoggedOnce(e, g)
  BY DEF Lines, LoggedOnce, Skipped
<1> QED
  BY <1>1 DEF Logged

(* A step that logs a group passes it.                                       *)
LEMMA LoggedStep ==
    ASSUME TypeOK, FilesInv, Logged, pc \in InEpoch, pc' = "groups", epoch' = epoch,
           NEW g \in Groups, NEW skipped \in BOOLEAN, NEW stepped \in BOOLEAN,
           disk'.metrics = Append(disk.metrics, Line(g, skipped, stepped)),
           disk'.manifest = disk.manifest,
           spread' = spread, skipped <=> Skipped(g),
           ~Passed(epoch, g), g \notin pending',
           \A h \in Groups : h # g =>
              (h \notin pending' <=> (h \notin pending /\ ~InWork(h)))
    PROVE  Logged'
<1>1. pc \in Training /\ pc \in Alive /\ ~Complete(disk'.manifest) /\ pc' \notin {"close", "done"}
  BY DEF InEpoch, Busy, Training, Alive, FilesInv, Position
<1>2. Finished = epoch - 1 /\ Finished' = epoch - 1 /\ epoch \in 1 .. Epochs /\ Epochs \in Nat
  BY TrainingAssumption DEF Finished, Early, InEpoch, Busy, TypeOK, TrainingAssumption
<1>3. ASSUME NEW e \in 1 .. Epochs, NEW h \in Groups
      PROVE  IF Passed(e, h)' THEN LoggedOnce(e, h)' ELSE Lines(e, h)' = {}
  <2>1. CASE e = epoch /\ h = g
    <3>1. Lines(e, h) = {}
      BY <1>1, <1>3, <2>1 DEF Logged
    <3>2. Passed(e, h)'
      BY <2>1 DEF Passed, InWork, InEpoch, Busy
    <3> QED
      BY <1>3, <2>1, <3>1, <3>2, LineAdded
  <2>2. CASE ~(e = epoch /\ h = g)
    <3>1. Passed(e, h)' <=> Passed(e, h)
      BY <1>2, <2>2 DEF Passed, InWork, InEpoch, Busy
    <3>2. IF Passed(e, h) THEN LoggedOnce(e, h) ELSE Lines(e, h) = {}
      BY <1>1, <1>3 DEF Logged
    <3> QED
      BY <1>3, <2>2, <3>1, <3>2, LineAdded
  <2> QED
    BY <2>1, <2>2
<1> QED
  BY <1>1, <1>3 DEF Logged

LEMMA LoggedStays ==
    ASSUME TypeOK, Progress, FilesInv, Logged, [Next]_vars PROVE Logged'
<1>0. spread' = spread /\ epoch \in 1 .. Epochs /\ Epochs \in Nat
  BY SpreadStays, TrainingAssumption DEF TypeOK, TrainingAssumption
<1>1. CASE Prepare
  <2>1. CASE RefusesDirectory
    <3>1. pc' = "refused" /\ disk' = disk
      BY <1>1, <2>1 DEF Prepare
    <3> QED
      BY <1>0, <3>1, LoggedKept DEF Alive, Training, Saving
  <2>2. CASE ~RefusesDirectory
    <3>1. /\ pc' = "load" /\ epoch' = 1 /\ disk'.metrics = <<>> /\ disk'.manifest = NoFile
      BY <1>1, <2>2 DEF Prepare, RefusesDirectory, EmptyDirectory, memory, FilesInv, Position
    <3>2. ~Complete(disk'.manifest)
      BY <3>1 DEF Complete, NoFile
    <3>3. \A e \in 1 .. Epochs, g \in Groups : ~Passed(e, g)' /\ Lines(e, g)' = {}
      BY <3>1 DEF Passed, Finished, Early, InEpoch, Busy, Lines
    <3> QED
      BY <3>1, <3>2, <3>3 DEF Logged
  <2> QED
    BY <2>1, <2>2
<1>2. CASE Load \/ Shuffle
  <2>1. /\ pc \in {"load", "shuffle"} /\ pc' \in {"shuffle", "groups"}
        /\ epoch' = epoch /\ disk' = disk
        /\ pc' = "groups" => pending' = Groups
    BY <1>2 DEF Load, Shuffle, memory
  <2>2. pc \in Alive /\ Finished' = Finished
    BY <2>1 DEF Alive, Training, Finished, Early, InEpoch, Busy
  <2>3. \A e \in 1 .. Epochs, g \in Groups : Passed(e, g)' <=> Passed(e, g)
    BY <2>1, <2>2 DEF Passed, InEpoch, Busy
  <2> QED
    BY <1>0, <2>1, <2>2, <2>3, LoggedKept
<1>3. ASSUME NEW g \in Groups, SkipGroup(g) PROVE Logged'
  <2>1. /\ pc = "groups" /\ pc' = "groups" /\ epoch' = epoch /\ g \in pending /\ Skipped(g)
        /\ pending' = pending \ {g}
        /\ disk' = [disk EXCEPT !.metrics = Append(@, Line(g, TRUE, FALSE))]
    BY <1>3 DEF SkipGroup, LogSkipped
  <2>2. /\ disk'.metrics = Append(disk.metrics, Line(g, TRUE, FALSE))
        /\ disk'.manifest = disk.manifest
    BY <2>1, DiskType
  <2>3. ~Passed(epoch, g)
    BY <1>0, <2>1 DEF Passed, Finished, Early, InEpoch, Busy
  <2>4. \A h \in Groups : h # g => (h \notin pending' <=> (h \notin pending /\ ~InWork(h)))
    BY <2>1 DEF InWork, Busy
  <2>5. pc \in InEpoch /\ g \notin pending'
    BY <2>1 DEF InEpoch
  <2> QED
    BY <1>0, <2>1, <2>2, <2>3, <2>4, <2>5, LoggedStep
<1>4. ASSUME NEW g \in Groups, TakeGroup(g) PROVE Logged'
  <2>1. /\ pc = "groups" /\ pc' = "trace" /\ epoch' = epoch /\ disk' = disk
        /\ g \in pending /\ pending' = pending \ {g} /\ group' = g
    BY <1>4 DEF TakeGroup
  <2>2. pc \in Alive /\ Finished' = Finished
    BY <2>1 DEF Alive, Training, Finished, Early, InEpoch, Busy
  <2>3. \A e \in 1 .. Epochs, h \in Groups : Passed(e, h)' <=> Passed(e, h)
    BY <2>1, <2>2 DEF Passed, InEpoch, InWork, Busy
  <2> QED
    BY <1>0, <2>1, <2>2, <2>3, LoggedKept
<1>5. CASE Backward
  <2>1. /\ pc = "trace" /\ pc' \in {"trace", "settle"}
        /\ UNCHANGED <<epoch, pending, group, disk>>
    BY <1>5 DEF Backward
  <2>2. pc \in Alive /\ Finished' = Finished
    BY <2>1 DEF Alive, Training, Finished, Early, InEpoch, Busy
  <2>3. \A e \in 1 .. Epochs, h \in Groups : Passed(e, h)' <=> Passed(e, h)
    BY <2>1, <2>2 DEF Passed, InEpoch, InWork, Busy
  <2> QED
    BY <1>0, <2>1, <2>2, <2>3, LoggedKept
<1>6. CASE SettleGroup
  <2>1. /\ pc = "settle" /\ pc' = "groups" /\ UNCHANGED <<epoch, pending, group>>
        /\ disk' = [disk EXCEPT !.metrics = Append(@, Line(group, FALSE, WindowFull))]
        /\ group \in Groups /\ group \notin pending /\ ~Skipped(group)
    BY <1>6 DEF SettleGroup, TypeOK, Progress, Busy
  <2>2. /\ disk'.metrics = Append(disk.metrics, Line(group, FALSE, WindowFull))
        /\ disk'.manifest = disk.manifest /\ WindowFull \in BOOLEAN
    BY <2>1, DiskType DEF WindowFull
  <2>3. ~Passed(epoch, group)
    BY <1>0, <2>1 DEF Passed, InWork, Finished, Early, InEpoch, Busy
  <2>4. \A h \in Groups : h # group => (h \notin pending' <=> (h \notin pending /\ ~InWork(h)))
    BY <2>1 DEF InWork, Busy
  <2>5. pc \in InEpoch /\ group \notin pending'
    BY <2>1 DEF InEpoch, Busy
  <2> QED
    BY <1>0, <2>1, <2>2, <2>3, <2>4, <2>5, LoggedStep
<1>7. CASE FlushEpoch
  <2>1. /\ pc = "groups" /\ pc' = "checkpoint" /\ pending = {}
        /\ UNCHANGED <<epoch, disk>>
    BY <1>7 DEF FlushEpoch
  <2>2. pc \in Alive /\ Finished = epoch - 1 /\ Finished' = epoch
    BY <2>1 DEF Alive, Training, Finished, Early, InEpoch, Busy
  <2>3. \A e \in 1 .. Epochs, h \in Groups : Passed(e, h)' <=> Passed(e, h)
    BY <1>0, <2>1, <2>2 DEF Passed, InEpoch, InWork, Busy
  <2> QED
    BY <1>0, <2>1, <2>2, <2>3, LoggedKept
<1>8. CASE BeginCheckpoint \/ WriteCheckpoint \/ BeginAdapter \/ WriteAdapter \/ BeginManifest
  <2>1. /\ pc \in Alive /\ pc \notin InEpoch /\ pc' \notin InEpoch
        /\ disk'.metrics = disk.metrics /\ pc' \notin {"close", "done"}
        /\ Complete(disk'.manifest) => Complete(disk.manifest)
    <3>1. CASE BeginManifest
      BY <3>1, DiskType DEF BeginManifest, Alive, Saving, InEpoch, Busy, Complete, Torn
    <3>2. CASE ~BeginManifest
      BY <1>8, <3>2, DiskType DEF BeginCheckpoint, WriteCheckpoint, BeginAdapter, WriteAdapter,
         Alive, Training, Saving, InEpoch, Busy
    <3> QED
      BY <3>1, <3>2
  <2>2. Finished' = Finished
    <3>1. CASE WriteCheckpoint
      BY <1>0, <3>1 DEF WriteCheckpoint, Finished, Early, InEpoch, Busy
    <3>2. CASE ~WriteCheckpoint
      BY <1>8, <3>2 DEF BeginCheckpoint, BeginAdapter, WriteAdapter, BeginManifest, memory,
         Finished, Early, InEpoch, Busy
    <3> QED
      BY <3>1, <3>2
  <2>3. \A e \in 1 .. Epochs, h \in Groups : Passed(e, h)' <=> Passed(e, h)
    BY <2>1, <2>2 DEF Passed
  <2> QED
    BY <1>0, <2>1, <2>3, LoggedKept
<1>9. CASE WriteManifest
  <2>1. /\ pc = "manifest_write" /\ pc' = "close" /\ epoch' = epoch
        /\ disk'.metrics = disk.metrics
    BY <1>9, DiskType DEF WriteManifest, memory
  <2>2. pc \in Alive /\ epoch = Epochs /\ Finished = epoch
    BY <2>1 DEF Alive, Saving, FilesInv, Position, Finished, Early, InEpoch, Busy
  <2>3. \A e \in 1 .. Epochs, h \in Groups : LoggedOnce(e, h)
    BY <1>0, <2>2 DEF Logged, Passed
  <2>4. \A e \in 1 .. Epochs, h \in Groups : LoggedOnce(e, h)'
    BY <1>0, <2>1, <2>3 DEF LoggedOnce, Lines, Skipped
  <2> QED
    BY <2>1, <2>2, <2>4 DEF Logged, Alive, Training, Saving
<1>10. CASE CloseRun \/ Stop \/ Relaunch
  <2>1. /\ pc' \in {"done", "stopped", "start"}
        /\ disk'.metrics = disk.metrics /\ disk'.manifest = disk.manifest
        /\ pc' = "done" => pc = "close" /\ epoch' = epoch
    BY <1>10, DiskType DEF CloseRun, Stop, Relaunch, memory
  <2> QED
    BY <1>0, <2>1, LoggedKept DEF Alive, Training, Saving, Logged
<1>11. CASE Done \/ UNCHANGED vars
  <2>1. UNCHANGED <<pc, epoch, pending, group, disk>>
    BY <1>11 DEF Done, vars, memory
  <2>2. \A e \in 1 .. Epochs, h \in Groups : Passed(e, h)' <=> Passed(e, h)
    BY <2>1 DEF Passed, Finished, InWork
  <2> QED
    BY <1>0, <2>1, <2>2, LoggedKept DEF Logged
<1> QED
  BY <1>1, <1>2, <1>3, <1>4, <1>5, <1>6, <1>7, <1>8, <1>9, <1>10, <1>11 DEF Next

-----------------------------------------------------------------------------
CountingInv == TrainerInv /\ Counted

LEMMA CountedInit == Init => Counted
<1> SUFFICES ASSUME Init PROVE Counted
  OBVIOUS
<1>1. /\ pc = "start" /\ epoch = 1 /\ policy = <<>> /\ gradient = NoGradient
      /\ accumulated = 0 /\ schedule = 0 /\ disk = EmptyDirectory
  BY DEF Init
<1>2. Window
  <2>1. InWindow = {}
    BY <1>1 DEF InWindow, Untouched, NoGradient
  <2> QED
    BY <1>1, <2>1, FS_EmptySet DEF Window
<1>3. FullUpdates
  BY <1>1 DEF FullUpdates, UpdatesAreFull
<1>4. Scheduled
  <2>1. Finished = 0 /\ pc \notin InEpoch
    BY <1>1 DEF Finished, Early, InEpoch, Busy
  <2>2. UpdatesPerEpoch \in Nat
    <3>1. /\ Cardinality(NonzeroGroups) + AccumulationSteps - 1 \in Nat
          /\ AccumulationSteps \in Nat \ {0}
      BY CountsAreFinite, TrainingAssumption DEF TrainingAssumption
    <3> QED
      BY <3>1, Division DEF UpdatesPerEpoch
  <2>3. UpdatesPerEpoch * 0 = 0
    BY <2>2
  <2> QED
    BY <1>1, <2>1, <2>3 DEF Scheduled
<1>5. Logged
  BY <1>1 DEF Logged, Alive, Training, Saving, EmptyDirectory, Complete, NoFile
<1> QED
  BY <1>2, <1>3, <1>4, <1>5 DEF Counted

LEMMA CountingInvariant == Spec => []CountingInv
<1>1. Init => Counted
  BY CountedInit
<1>2. TrainerInv /\ Counted /\ [Next]_vars => Counted'
  BY WindowStays, FullUpdatesStay, ScheduledStays, LoggedStays DEF TrainerInv, Counted
<1>3. Spec => []Counted
  BY <1>1, <1>2, TrainerInvariant, PTL DEF Spec
<1> QED
  BY <1>3, TrainerInvariant, PTL DEF CountingInv

(* Every update but an epoch's last is over a full window.                   *)
THEOREM UpdatesStayFull == Spec => []UpdatesAreFull
<1>1. CountingInv => UpdatesAreFull
  BY DEF CountingInv, Counted, FullUpdates
<1> QED
  BY <1>1, CountingInvariant, PTL

(* The schedule that was planned from the groups lasts for all updates, and  *)
(* not longer when no group is skipped for rewards that are merely close.    *)
THEOREM SchedulesFitRuns == Spec => []ScheduleFitsRun
<1>1. CountingInv => ScheduleFitsRun
  <2> SUFFICES ASSUME CountingInv PROVE ScheduleFitsRun
    OBVIOUS
  <2>1. /\ TypeOK /\ Scheduled /\ Logged
        /\ AccumulationSteps \in Nat \ {0} /\ accumulated \in 0 .. AccumulationSteps - 1
        /\ epoch \in 1 .. Epochs /\ Epochs \in Nat /\ schedule \in Nat
    BY TrainingAssumption
    DEF CountingInv, TrainerInv, Counted, TypeOK, TrainingAssumption
  <2>2. /\ Cardinality(NonzeroGroups) \in Nat /\ Cardinality(Taken) \in Nat
        /\ Cardinality(Taken) <= Cardinality(NonzeroGroups)
    <3>1. Taken \subseteq NonzeroGroups
      BY DEF Taken, Wide, NonzeroGroups, ZeroVariance, Skipped
    <3> QED
      BY <3>1, CountsAreFinite, FS_Subset
  <2>3. UpdatesPerEpoch \in Nat
    <3>1. Cardinality(NonzeroGroups) + AccumulationSteps - 1 \in Nat
      BY <2>1, <2>2
    <3> QED
      BY <2>1, <3>1, Division DEF UpdatesPerEpoch
  <2>4. \A e \in 0 .. Epochs : UpdatesPerEpoch * e <= UpdatesPerEpoch * Epochs
    <3> SUFFICES ASSUME NEW e \in 0 .. Epochs
                 PROVE  UpdatesPerEpoch * e <= UpdatesPerEpoch * Epochs
      OBVIOUS
    <3>1. e * UpdatesPerEpoch <= Epochs * UpdatesPerEpoch
      BY <2>1, <2>3, ProductLaws
    <3>2. e * UpdatesPerEpoch = UpdatesPerEpoch * e /\ Epochs * UpdatesPerEpoch = UpdatesPerEpoch * Epochs
      BY <2>1, <2>3
    <3> QED
      BY <3>1, <3>2
  <2>5. UpdatesPerEpoch * epoch = UpdatesPerEpoch * (epoch - 1) + UpdatesPerEpoch
    <3>1. epoch - 1 \in Nat /\ epoch = (epoch - 1) + 1
      BY <2>1
    <3> QED
      BY <2>3, <3>1, ProductLaws
  <2>6. /\ UpdatesPerEpoch * epoch \in Nat /\ UpdatesPerEpoch * (epoch - 1) \in Nat
        /\ UpdatesPerEpoch * Epochs \in Nat
    BY <2>1, <2>3, ProductLaws
  <2>7. schedule <= UpdatesPerEpoch * Epochs
    <3>1. CASE pc \in InEpoch
      <4>1. PICK k \in Nat : /\ k * AccumulationSteps + accumulated = Cardinality(Taken)
                             /\ schedule <= UpdatesPerEpoch * (epoch - 1) + k
        BY <2>1, <3>1 DEF Scheduled
      <4> DEFINE more == IF accumulated > 0 THEN k + 1 ELSE k
      <4>2. more <= UpdatesPerEpoch
        BY <2>1, <2>2, <4>1, UpdatesNeeded DEF UpdatesPerEpoch
      <4>3. k <= UpdatesPerEpoch
        BY <2>3, <4>2
      <4>4. schedule <= UpdatesPerEpoch * epoch
        BY <2>1, <2>3, <2>5, <2>6, <4>1, <4>3
      <4>5. UpdatesPerEpoch * epoch <= UpdatesPerEpoch * Epochs
        BY <2>1, <2>4
      <4> QED
        BY <2>1, <2>6, <4>4, <4>5
    <3>2. CASE pc \notin InEpoch
      <4>1. Finished \in 0 .. Epochs
        BY <2>1 DEF Finished
      <4>2. schedule <= UpdatesPerEpoch * Finished /\ UpdatesPerEpoch * Finished \in Nat
        BY <2>1, <2>3, <3>2, <4>1, ProductLaws DEF Scheduled
      <4>3. UpdatesPerEpoch * Finished <= UpdatesPerEpoch * Epochs
        BY <2>4, <4>1
      <4> QED
        BY <2>1, <2>6, <4>2, <4>3
    <3> QED
      BY <3>1, <3>2
  <2>8. pc = "done" /\ NoneIsClose => schedule = UpdatesPerEpoch * Epochs
    <3> SUFFICES ASSUME pc = "done", NoneIsClose PROVE schedule = UpdatesPerEpoch * Epochs
      OBVIOUS
    <3>1. Finished = Epochs /\ pc \notin InEpoch
      BY <2>1 DEF Logged, Finished, Early, InEpoch, Busy
    <3> QED
      BY <2>1, <3>1 DEF Scheduled
  <2> QED
    BY <2>7, <2>8 DEF ScheduleFitsRun, NoneIsClose
<1> QED
  BY <1>1, CountingInvariant, PTL

(* A completed run's metrics have one line for each group in each epoch,     *)
(* and call it skipped exactly when the adapter learned nothing from it.     *)
THEOREM MetricsTellTheTruth == Spec => []MetricsTellWhatWasLearned
<1>1. CountingInv => MetricsTellWhatWasLearned
  <2> SUFFICES ASSUME CountingInv, Complete(disk.manifest),
                      NEW e \in 1 .. Epochs, NEW g \in Groups
               PROVE  LET lines == Lines(e, g)
                          learned == \E i \in DOMAIN disk.adapter.content :
                                        /\ disk.adapter.content[i].epoch = e
                                        /\ g \in Trained(disk.adapter.content[i])
                      IN  /\ Cardinality(lines) = 1
                          /\ \A n \in lines : disk.metrics[n].skipped <=> ~learned
    BY DEF MetricsTellWhatWasLearned, Lines
  <2>1. PICK n \in DOMAIN disk.metrics :
           Lines(e, g) = {n} /\ (disk.metrics[n].skipped <=> Skipped(g))
    BY DEF CountingInv, Counted, Logged, LoggedOnce
  <2>2. Cardinality(Lines(e, g)) = 1
    BY <2>1, FS_Singleton
  <2>3. PICK updates : updates = disk.adapter.content
    OBVIOUS
  <2>4. Epochs \in Nat \ {0} /\ TypeOK
    BY TrainingAssumption DEF TrainingAssumption, CountingInv, TrainerInv
  <2>5. GoodCheckpoint(spread, updates, Epochs)
    <3>1. /\ Len(disk.checkpoints) = Epochs /\ Complete(disk.checkpoints[Epochs])
          /\ disk.adapter = disk.checkpoints[Epochs]
      BY <2>4 DEF CountingInv, TrainerInv, FilesInv, CompletedRunIsComplete
    <3>2. Epochs \in DOMAIN disk.checkpoints
      <4>1. disk.checkpoints \in Seq(Files(Policies))
        BY <2>4, DiskType
      <4> QED
        BY <2>4, <3>1, <4>1
    <3> QED
      BY <2>3, <3>1, <3>2 DEF CountingInv, TrainerInv, FilesInv, CheckpointsSound
  <2>6. Skipped(g) <=> Covering(updates, e, g) = {}
    BY <2>5 DEF GoodCheckpoint, Skipped
  <2>7. Covering(updates, e, g) = {} <=>
           ~ \E i \in DOMAIN updates : updates[i].epoch = e /\ g \in Trained(updates[i])
    BY DEF Covering
  <2> QED
    BY <2>1, <2>2, <2>3, <2>6, <2>7
<1> QED
  BY <1>1, CountingInvariant, PTL

(* What a run plans and reports of its updates is what they are.             *)
THEOREM UpdatesStayTold == Spec => []UpdatesAreTold
<1>1. UpdatesAreFull /\ ScheduleFitsRun /\ MetricsTellWhatWasLearned => UpdatesAreTold
  BY DEF UpdatesAreTold
<1> QED
  BY <1>1, UpdatesStayFull, SchedulesFitRuns, MetricsTellTheTruth, PTL
=============================================================================
