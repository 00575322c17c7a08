--------------------------- MODULE CollectorProofs ---------------------------
(***************************************************************************)
(* Safety of Collector for any number of tasks, candidates and launches.   *)
(* What a job binds is sound whether launches overlap or not.  The rest is  *)
(* about launches that do not overlap: a directory holds one run, which is *)
(* visibly interrupted or complete and then immutable; the manifest of a   *)
(* completed run accounts for every candidate; and the directory           *)
(* implements CollectorContract.                                           *)
(***************************************************************************)
EXTENDS Collector, FiniteSetTheorems, TLAPS

(* Appending to a sequence. *)
LEMMA AppendFacts ==
    ASSUME NEW S, NEW s \in Seq(S), NEW e \in S
    PROVE  /\ Append(s, e) \in Seq(S)
           /\ Len(Append(s, e)) = Len(s) + 1
           /\ DOMAIN Append(s, e) = 1 .. Len(s) + 1
           /\ \A i \in 1 .. Len(s) : Append(s, e)[i] = s[i]
           /\ Append(s, e)[Len(s) + 1] = e
OBVIOUS

LEMMA NoAccountsType == NoAccounts \in Accounts /\ Len(NoAccounts.episodes) = 0
BY DEF NoAccounts, Accounts

LEMMA IdType == ASSUME TypeOK, NEW l \in Launches PROVE Id(l) \in Ids
BY DEF TypeOK, Id, Ids

(* Admission adds at most one episode. *)
LEMMA AdmitType ==
    ASSUME NEW accounts \in Accounts, NEW r, NEW id \in Ids
    PROVE  /\ Admit(accounts, r, id) \in Accounts
           /\ Len(Admit(accounts, r, id).episodes) <= Len(accounts.episodes) + 1
           /\ Admit(accounts, r, id).groups = accounts.groups
           /\ Admit(accounts, r, id).episodes \in
                 {accounts.episodes, Append(accounts.episodes, id)}
           /\ Admit(accounts, r, id).episodes = Append(accounts.episodes, id)
                 <=> Eligible(r) /\ r.trajectory = "traced"
<1>1. accounts.episodes \in Seq(Ids) /\ accounts.exclusions \in Seq(Ids)
  BY DEF Accounts
<1>2. Append(accounts.episodes, id) # accounts.episodes
  BY <1>1, AppendFacts
<1>a. Append(accounts.episodes, id) \in Seq(Ids) /\ Append(accounts.exclusions, id) \in Seq(Ids)
  BY <1>1, AppendFacts
<1> DEFINE admitted == [accounts EXCEPT !.episodes = Append(accounts.episodes, id)]
           excluded == [accounts EXCEPT !.exclusions = Append(accounts.exclusions, id)]
<1>3. /\ admitted \in Accounts /\ admitted.episodes = Append(accounts.episodes, id)
      /\ admitted.groups = accounts.groups
  BY <1>a DEF Accounts
<1>4. /\ excluded \in Accounts /\ excluded.episodes = accounts.episodes
      /\ excluded.groups = accounts.groups
  BY <1>a DEF Accounts
<1>5. Admit(accounts, r, id) =
         IF ~Eligible(r) THEN accounts
         ELSE IF r.trajectory = "traced" THEN admitted ELSE excluded
  BY DEF Admit
<1>6. Len(Append(accounts.episodes, id)) = Len(accounts.episodes) + 1 /\ Len(accounts.episodes) \in Nat
  BY <1>1
<1> HIDE DEF admitted, excluded
<1>7. QED
  BY <1>2, <1>3, <1>4, <1>5, <1>6

(* Settling a task empties the episodes and keeps at most them as a group. *)
LEMMA SettleType ==
    ASSUME NEW accounts \in Accounts, NEW t \in Tasks,
           Len(accounts.episodes) <= GroupSize
    PROVE  /\ SettleGroup(accounts, t) \in Accounts
           /\ SettleGroup(accounts, t).episodes = <<>>
           /\ SettleGroup(accounts, t).groups =
                 IF Trainable(accounts.episodes)
                 THEN Append(accounts.groups, accounts.episodes)
                 ELSE accounts.groups
<1>1. /\ accounts.episodes \in Seq(Ids) /\ accounts.groups \in Seq(Seq(Ids))
      /\ accounts.dropped \in Seq(DroppedGroups)
  BY DEF Accounts
<1>2. [task |-> t, trainable |-> Len(accounts.episodes)] \in DroppedGroups
  <2>1. Len(accounts.episodes) \in Nat
    BY <1>1
  <2>2. QED
    BY <2>1 DEF DroppedGroups
<1>a. /\ <<>> \in Seq(Ids) /\ Append(accounts.groups, accounts.episodes) \in Seq(Seq(Ids))
      /\ Append(accounts.dropped, [task |-> t, trainable |-> Len(accounts.episodes)])
            \in Seq(DroppedGroups)
  BY <1>1, <1>2, AppendFacts
<1> DEFINE kept == [accounts EXCEPT !.groups = Append(accounts.groups, accounts.episodes),
                                    !.episodes = <<>>]
           dropped == [accounts EXCEPT !.dropped =
                          Append(accounts.dropped, [task |-> t,
                                    trainable |-> Len(accounts.episodes)]),
                                       !.episodes = <<>>]
           neither == [accounts EXCEPT !.episodes = <<>>]
<1>3. /\ kept \in Accounts /\ kept.episodes = <<>>
      /\ kept.groups = Append(accounts.groups, accounts.episodes)
  BY <1>a DEF Accounts
<1>4. /\ dropped \in Accounts /\ dropped.episodes = <<>>
      /\ dropped.groups = accounts.groups
  BY <1>a DEF Accounts
<1>5. /\ neither \in Accounts /\ neither.episodes = <<>>
      /\ neither.groups = accounts.groups
  BY <1>a DEF Accounts
<1>6. SettleGroup(accounts, t) =
         IF Trainable(accounts.episodes) THEN kept
         ELSE IF GroupSize >= 2 THEN dropped ELSE neither
  BY DEF SettleGroup
<1> HIDE DEF kept, dropped, neither
<1>7. QED
  BY <1>3, <1>4, <1>5, <1>6

(* A change of one file of a directory. *)
LEMMA FileTypes ==
    /\ \A content \in Seq(Ids) : File(content) \in Files(Seq(Ids))
    /\ \A content \in Seq(Seq(Ids)) : File(content) \in Files(Seq(Seq(Ids)))
    /\ \A content \in Manifests : File(content) \in Files(Manifests)
    /\ \A S : NoFile \in Files(S) /\ Torn \in Files(S)
BY DEF File, Files

LEMMA ManifestType ==
    ASSUME NEW accounts \in Accounts PROVE Manifest(accounts) \in Manifests
BY DEF Manifest, Manifests, Accounts

LEMMA TypeInit == Init => TypeOK
<1>1. EmptyDirectory \in Directories
  BY FileTypes DEF EmptyDirectory, Directories
<1>2. QED
  BY <1>1, NoAccountsType, FileTypes, CollectionAssumption
  DEF CollectionAssumption, Init, TypeOK, Locations, Working, Tasks, Candidates, Rollouts, NoRollout,
      Trajectories, Statuses

-----------------------------------------------------------------------------
(* What each action leaves in the directory, file by file. *)

(* The directory as record sets: one lemma for every kind of update. *)
LEMMA DirectoryUpdates ==
    ASSUME NEW d \in Directories
    PROVE  /\ \A b \in BOOLEAN : [d EXCEPT !.partial = b] \in Directories
           /\ \A x \in SUBSET [id : Ids, trajectory : Trajectories] :
                 [d EXCEPT !.trajectories = x] \in Directories
           /\ \A x \in SUBSET [task : Tasks, status : Statuses] :
                 [d EXCEPT !.evidence = x] \in Directories
           /\ \A x \in SUBSET [id : Ids, status : Statuses] :
                 [d EXCEPT !.verifications = x] \in Directories
           /\ \A x \in SUBSET [id : Ids, eligible : BOOLEAN] :
                 [d EXCEPT !.rewards = x] \in Directories
           /\ \A x \in Files(Seq(Ids)) : [d EXCEPT !.evaluation_tmp = x] \in Directories
           /\ \A x, y \in Files(Seq(Ids)) :
                 [d EXCEPT !.evaluation = x, !.evaluation_tmp = y] \in Directories
           /\ \A x \in Files(Seq(Seq(Ids))) : [d EXCEPT !.groups_tmp = x] \in Directories
           /\ \A x, y \in Files(Seq(Seq(Ids))) :
                 [d EXCEPT !.groups = x, !.groups_tmp = y] \in Directories
           /\ \A x \in Files(Manifests) : [d EXCEPT !.manifest = x] \in Directories
<1>1. QED
  BY DEF Directories
(* The variables one by one, as TypeOK describes them. *)
LEMMA Typed ==
    ASSUME TypeOK, NEW l \in Launches
    PROVE  /\ pc[l] \in Locations /\ task[l] \in Tasks /\ candidate[l] \in Candidates
           /\ rollout[l] \in Rollouts /\ memory[l] \in Accounts
           /\ memory[l].episodes \in Seq(Ids) /\ Len(memory[l].episodes) <= GroupSize
           /\ memory[l].records \in Seq(Ids) /\ memory[l].groups \in Seq(Seq(Ids))
BY DEF TypeOK, Accounts

(* A launch that goes somewhere and changes at most its own locals. *)
LEMMA TypeLocal ==
    ASSUME TypeOK, NEW l \in Launches, NEW loc \in Locations, Goto(l, loc)
    PROVE  pc' \in [Launches -> Locations]
BY DEF TypeOK, Goto

(* Candidates of the current task whose reward is stored. *)
ScoredBy(l) == IF pc[l] = "group" THEN GroupSize ELSE candidate[l] - 1

(* A launch has no more episodes than it has scored candidates. *)
Counted == \A l \in Launches : Len(memory[l].episodes) <= ScoredBy(l)

LEMMA TypeStep == TypeOK /\ Counted /\ [Next]_vars => TypeOK'
<1> SUFFICES ASSUME TypeOK, Counted, [Next]_vars PROVE TypeOK'
  OBVIOUS
<1>u. CASE UNCHANGED vars
  BY <1>u DEF TypeOK, vars
<1>1. ASSUME NEW l \in Launches, Launch(l) PROVE TypeOK'
  <2>1. pc' \in [Launches -> Locations]
    BY <1>1, TypeLocal DEF Launch, Locations, Working
  <2>2. QED
    BY <2>1, <1>1 DEF Launch, TypeOK
<1>2. ASSUME NEW l \in Launches, OpenRun(l) PROVE TypeOK'
  <2>1. pc' \in [Launches -> Locations]
    BY <1>2, TypeLocal DEF OpenRun, Locations, Working
  <2>2. disk' \in Directories
    BY <1>2, DirectoryUpdates DEF OpenRun, TypeOK
  <2>3. QED
    BY <2>1, <2>2, <1>2 DEF OpenRun, TypeOK
<1>3. ASSUME NEW l \in Launches, RunAgent(l) PROVE TypeOK'
  <2>1. pc' \in [Launches -> Locations]
    BY <1>3, TypeLocal DEF RunAgent, Locations, Working
  <2>2. rollout' \in [Launches -> Rollouts]
    BY <1>3 DEF RunAgent, TypeOK, Rollouts, Statuses
  <2>3. QED
    BY <2>1, <2>2, <1>3 DEF RunAgent, TypeOK
<1>4. ASSUME NEW l \in Launches, StoreTrajectory(l) PROVE TypeOK'
  <2>1. pc' \in [Launches -> Locations]
    BY <1>4, TypeLocal DEF StoreTrajectory, Locations, Working
  <2>2. [id |-> Id(l), trajectory |-> rollout[l].trajectory] \in
           [id : Ids, trajectory : Trajectories]
    BY IdType, Typed DEF Rollouts
  <2>3. disk.trajectories \in SUBSET [id : Ids, trajectory : Trajectories]
    BY DEF TypeOK, Directories
  <2>4. disk' \in Directories
    BY <1>4, <2>2, <2>3, DirectoryUpdates DEF StoreTrajectory, TypeOK
  <2>5. QED
    BY <2>1, <2>4, <1>4 DEF StoreTrajectory, TypeOK
<1>5. ASSUME NEW l \in Launches, Verify(l) PROVE TypeOK'
  <2>1. pc' \in [Launches -> Locations]
    BY <1>5, TypeLocal DEF Verify, Locations, Working
  <2>2. PICK status \in Verdicts : rollout' = [rollout EXCEPT ![l] = [@ EXCEPT !.status = status]]
    BY <1>5 DEF Verify
  <2>3. [rollout[l] EXCEPT !.status = status] \in Rollouts
    BY Typed DEF Rollouts, Verdicts
  <2>4. rollout' \in [Launches -> Rollouts]
    BY <2>2, <2>3 DEF TypeOK
  <2>5. QED
    BY <2>1, <2>4, <1>5 DEF Verify, TypeOK
<1>6. ASSUME NEW l \in Launches, StoreEvidence(l) PROVE TypeOK'
  <2>1. pc' \in [Launches -> Locations]
    BY <1>6, TypeLocal DEF StoreEvidence, Locations, Working
  <2>2. [task |-> task[l], status |-> rollout[l].status] \in [task : Tasks, status : Statuses]
    BY Typed DEF Rollouts
  <2>3. disk.evidence \in SUBSET [task : Tasks, status : Statuses]
    BY DEF TypeOK, Directories
  <2>4. disk' \in Directories
    BY <1>6, <2>2, <2>3, DirectoryUpdates DEF StoreEvidence, TypeOK
  <2>5. QED
    BY <2>1, <2>4, <1>6 DEF StoreEvidence, TypeOK
<1>7. ASSUME NEW l \in Launches, StoreVerification(l) PROVE TypeOK'
  <2>1. pc' \in [Launches -> Locations]
    BY <1>7, TypeLocal DEF StoreVerification, Locations, Working
  <2>2. [id |-> Id(l), status |-> rollout[l].status] \in [id : Ids, status : Statuses]
    BY IdType, Typed DEF Rollouts
  <2>3. disk.verifications \in SUBSET [id : Ids, status : Statuses]
    BY DEF TypeOK, Directories
  <2>4. disk' \in Directories
    BY <1>7, <2>2, <2>3, DirectoryUpdates DEF StoreVerification, TypeOK
  <2>5. QED
    BY <2>1, <2>4, <1>7 DEF StoreVerification, TypeOK
<1>8. ASSUME NEW l \in Launches, ScoreCandidate(l) PROVE TypeOK'
  <2>1. pc' \in [Launches -> Locations]
    BY <1>8, TypeLocal DEF ScoreCandidate, Locations, Working
  <2>2. [id |-> Id(l), eligible |-> Eligible(rollout[l])] \in [id : Ids, eligible : BOOLEAN]
    <3>1. Eligible(rollout[l]) \in BOOLEAN
      BY DEF Eligible
    <3>2. QED
      BY <3>1, IdType
  <2>3. disk.rewards \in SUBSET [id : Ids, eligible : BOOLEAN]
    BY DEF TypeOK, Directories
  <2>4. disk' \in Directories
    BY <1>8, <2>2, <2>3, DirectoryUpdates DEF ScoreCandidate, TypeOK
  <2> DEFINE recorded == Record(memory[l], Id(l))
             admitted == Admit(recorded, rollout[l], Id(l))
  <2>5. recorded \in Accounts /\ recorded.episodes = memory[l].episodes
    <3>1. Append(memory[l].records, Id(l)) \in Seq(Ids)
      BY Typed, IdType, AppendFacts
    <3>2. QED
      BY Typed, <3>1 DEF Accounts, Record
  <2>6. Len(memory[l].episodes) + 1 <= GroupSize
    BY <1>8, Typed, CollectionAssumption
    DEF ScoreCandidate, Counted, ScoredBy, Candidates, CollectionAssumption
  <2>7. admitted \in Accounts /\ Len(admitted.episodes) <= GroupSize
    <3> HIDE DEF recorded
    <3>1. Len(admitted.episodes) <= Len(memory[l].episodes) + 1 /\ admitted \in Accounts
      BY <2>5, AdmitType, IdType
    <3>2. Len(admitted.episodes) \in Nat /\ Len(memory[l].episodes) \in Nat
      BY <3>1, Typed DEF Accounts
    <3> HIDE DEF admitted
    <3>3. QED
      BY <3>1, <3>2, <2>6, CollectionAssumption DEF CollectionAssumption
  <2>8. /\ memory' \in [Launches -> Accounts]
        /\ \A m \in Launches : Len(memory'[m].episodes) <= GroupSize
    <3>1. memory' = [memory EXCEPT ![l] = admitted]
      BY <1>8 DEF ScoreCandidate
    <3> HIDE DEF admitted
    <3>2. QED
      BY <3>1, <2>7 DEF TypeOK
  <2>9. candidate' \in [Launches -> Candidates]
    <3>1. candidate[l] \in 1 .. GroupSize /\ 1 \in 1 .. GroupSize
      BY Typed, CollectionAssumption DEF Candidates, CollectionAssumption
    <3>2. CASE candidate[l] < GroupSize
      <4>1. candidate[l] + 1 \in Candidates
        BY <3>1, <3>2, CollectionAssumption DEF CollectionAssumption, Candidates
      <4>2. QED
        BY <1>8, <3>2, <4>1 DEF ScoreCandidate, TypeOK
    <3>3. CASE ~(candidate[l] < GroupSize)
      BY <1>8, <3>1, <3>3 DEF ScoreCandidate, TypeOK, Candidates
    <3>4. QED
      BY <3>2, <3>3
  <2>10. QED
    BY <2>1, <2>4, <2>8, <2>9, <1>8 DEF ScoreCandidate, TypeOK
<1>9. ASSUME NEW l \in Launches, CloseGroup(l) PROVE TypeOK'
  <2>1. pc' \in [Launches -> Locations]
    BY <1>9, TypeLocal DEF CloseGroup, Locations, Working
  <2> DEFINE settled == SettleGroup(memory[l], task[l])
  <2>2. settled \in Accounts /\ Len(settled.episodes) <= GroupSize
    BY Typed, SettleType, CollectionAssumption DEF CollectionAssumption
  <2>3. /\ memory' \in [Launches -> Accounts]
        /\ \A m \in Launches : Len(memory'[m].episodes) <= GroupSize
    <3>1. memory' = [memory EXCEPT ![l] = settled]
      BY <1>9 DEF CloseGroup
    <3> HIDE DEF settled
    <3>2. QED
      BY <3>1, <2>2 DEF TypeOK
  <2>4. task' \in [Launches -> Tasks]
    BY <1>9, Typed, CollectionAssumption
    DEF CloseGroup, TypeOK, Tasks, CollectionAssumption
  <2>5. QED
    BY <2>1, <2>3, <2>4, <1>9 DEF CloseGroup, TypeOK
<1>10. ASSUME NEW l \in Launches, WriteEvaluation(l) PROVE TypeOK'
  <2>1. pc' \in [Launches -> Locations]
    BY <1>10, TypeLocal DEF WriteEvaluation, Locations, Working
  <2>2. File(memory[l].records) \in Files(Seq(Ids))
    BY Typed, FileTypes, ManifestType DEF TypeOK, Directories
  <2>3. disk' \in Directories
    BY <1>10, <2>2, DirectoryUpdates DEF WriteEvaluation, TypeOK
  <2>4. QED
    BY <2>1, <2>3, <1>10 DEF WriteEvaluation, TypeOK
<1>11. ASSUME NEW l \in Launches, ReplaceEvaluation(l) PROVE TypeOK'
  <2>1. pc' \in [Launches -> Locations]
    BY <1>11, TypeLocal DEF ReplaceEvaluation, Locations, Working
  <2>2. disk.evaluation_tmp \in Files(Seq(Ids)) /\ NoFile \in Files(Seq(Ids))
    BY Typed, FileTypes, ManifestType DEF TypeOK, Directories
  <2>3. disk' \in Directories
    BY <1>11, <2>2, DirectoryUpdates DEF ReplaceEvaluation, TypeOK
  <2>4. QED
    BY <2>1, <2>3, <1>11 DEF ReplaceEvaluation, TypeOK
<1>12. ASSUME NEW l \in Launches, WriteGroups(l) PROVE TypeOK'
  <2>1. pc' \in [Launches -> Locations]
    BY <1>12, TypeLocal DEF WriteGroups, Locations, Working
  <2>2. File(memory[l].groups) \in Files(Seq(Seq(Ids)))
    BY Typed, FileTypes, ManifestType DEF TypeOK, Directories
  <2>3. disk' \in Directories
    BY <1>12, <2>2, DirectoryUpdates DEF WriteGroups, TypeOK
  <2>4. QED
    BY <2>1, <2>3, <1>12 DEF WriteGroups, TypeOK
<1>13. ASSUME NEW l \in Launches, ReplaceGroups(l) PROVE TypeOK'
  <2>1. pc' \in [Launches -> Locations]
    BY <1>13, TypeLocal DEF ReplaceGroups, Locations, Working
  <2>2. disk.groups_tmp \in Files(Seq(Seq(Ids))) /\ NoFile \in Files(Seq(Seq(Ids)))
    BY Typed, FileTypes, ManifestType DEF TypeOK, Directories
  <2>3. disk' \in Directories
    BY <1>13, <2>2, DirectoryUpdates DEF ReplaceGroups, TypeOK
  <2>4. QED
    BY <2>1, <2>3, <1>13 DEF ReplaceGroups, TypeOK
<1>14. ASSUME NEW l \in Launches, BeginManifest(l) PROVE TypeOK'
  <2>1. pc' \in [Launches -> Locations]
    BY <1>14, TypeLocal DEF BeginManifest, Locations, Working
  <2>2. Torn \in Files(Manifests)
    BY Typed, FileTypes, ManifestType DEF TypeOK, Directories
  <2>3. disk' \in Directories
    BY <1>14, <2>2, DirectoryUpdates DEF BeginManifest, TypeOK, OpenManifest
  <2>4. QED
    BY <2>1, <2>3, <1>14 DEF BeginManifest, TypeOK
<1>15. ASSUME NEW l \in Launches, WriteManifest(l) PROVE TypeOK'
  <2>1. pc' \in [Launches -> Locations]
    BY <1>15, TypeLocal DEF WriteManifest, Locations, Working
  <2>2. File(Manifest(memory[l])) \in Files(Manifests)
    BY Typed, FileTypes, ManifestType DEF TypeOK, Directories
  <2>3. disk' \in Directories
    BY <1>15, <2>2, DirectoryUpdates DEF WriteManifest, TypeOK
  <2>4. QED
    BY <2>1, <2>3, <1>15 DEF WriteManifest, TypeOK
<1>16. ASSUME NEW l \in Launches, CloseRun(l) PROVE TypeOK'
  <2>1. pc' \in [Launches -> Locations]
    BY <1>16, TypeLocal DEF CloseRun, Locations, Working
  <2>2. FALSE \in BOOLEAN
    BY Typed, FileTypes, ManifestType DEF TypeOK, Directories
  <2>3. disk' \in Directories
    BY <1>16, <2>2, DirectoryUpdates DEF CloseRun, TypeOK
  <2>4. QED
    BY <2>1, <2>3, <1>16 DEF CloseRun, TypeOK
<1>17. ASSUME NEW l \in Launches, Stop(l) PROVE TypeOK'
  <2>1. pc' \in [Launches -> Locations]
    BY <1>17, TypeLocal DEF Stop, Locations, Working
  <2>2. /\ 1 \in Tasks /\ 1 \in Candidates
        /\ NoRollout \in Rollouts
    BY CollectionAssumption DEF CollectionAssumption, Tasks, Candidates, Rollouts, NoRollout,
       Trajectories, Statuses
  <2>3. /\ task' \in [Launches -> Tasks] /\ candidate' \in [Launches -> Candidates]
        /\ rollout' \in [Launches -> Rollouts]
    BY <1>17, <2>2 DEF Stop, TypeOK
  <2>4. /\ memory' \in [Launches -> Accounts]
        /\ \A m \in Launches : Len(memory'[m].episodes) <= GroupSize
    BY <1>17, NoAccountsType, CollectionAssumption DEF Stop, TypeOK, CollectionAssumption
  <2>5. QED
    BY <2>1, <2>3, <2>4, <1>17 DEF Stop, TypeOK
<1>18. CASE BindJob
  BY <1>18 DEF BindJob, TypeOK, Directories
<1>19. CASE Done
  BY <1>19, <1>u DEF Done
<1>20. QED
  BY <1>u, <1>1, <1>2, <1>3, <1>4, <1>5, <1>6, <1>7, <1>8, <1>9, <1>10, <1>11, <1>12,
     <1>13, <1>14, <1>15, <1>16, <1>17, <1>18, <1>19 DEF Next, LaunchStep
-----------------------------------------------------------------------------
(* Soundness of what is published, for overlapping launches too. *)

Finishing == {"evaluation", "evaluation_replace", "groups", "groups_replace",
              "manifest", "manifest_write", "close", "done"}

GoodBatch(groups) ==
    /\ \A i \in DOMAIN groups : SoundGroup(groups[i])
    /\ \A i, j \in DOMAIN groups : i # j => groups[i][1].task # groups[j][1].task

(* What a launch knows of its current candidate is on disk. *)
RolloutStored(l) ==
    /\ pc[l] = "store" => rollout[l].status = "none"
    /\ pc[l] \in {"verify", "evidence", "verification", "score"} =>
          [id |-> Id(l), trajectory |-> rollout[l].trajectory] \in disk.trajectories
    /\ pc[l] = "score" /\ rollout[l].status # "none" =>
          [id |-> Id(l), status |-> rollout[l].status] \in disk.verifications

(* Its episodes are sound candidates of the current task, all of those       *)
(* scored so far when there are as many.                                     *)
EpisodesSound(l) ==
    LET episodes == memory[l].episodes
    IN  /\ Len(episodes) <= ScoredBy(l)
        /\ \A i \in DOMAIN episodes : /\ episodes[i].task = task[l]
                                      /\ episodes[i].launch = l
                                      /\ Sound(episodes[i])
        /\ Len(episodes) = ScoredBy(l) =>
              \A i \in DOMAIN episodes : episodes[i].candidate = i

(* Its groups are sound and belong to tasks it has left. *)
GroupsSound(l) ==
    /\ GoodBatch(memory[l].groups)
    /\ pc[l] \notin Finishing =>
          \A i \in DOMAIN memory[l].groups : memory[l].groups[i][1].task < task[l]

GoodFile(file) == Complete(file) => GoodBatch(file.content)
FilesSound == GoodFile(disk.groups_tmp) /\ GoodFile(disk.groups) /\ GoodFile(job)

LaunchSound(l) == RolloutStored(l) /\ EpisodesSound(l) /\ GroupsSound(l)
SoundInv == TypeOK /\ (\A l \in Launches : LaunchSound(l)) /\ FilesSound

(* Candidate files are only ever added. *)
CandidateFilesGrow ==
    /\ disk.trajectories \subseteq disk'.trajectories
    /\ disk.verifications \subseteq disk'.verifications
    /\ disk.rewards \subseteq disk'.rewards

LEMMA Grows ==
    ASSUME TypeOK, [Next]_vars PROVE CandidateFilesGrow
<1>1. disk \in Directories
  BY DEF TypeOK
<1>u. CASE UNCHANGED disk
  BY <1>u DEF CandidateFilesGrow
<1>2. ASSUME NEW l \in Launches, LaunchStep(l) PROVE CandidateFilesGrow
  <2>1. CASE Launch(l) \/ RunAgent(l) \/ Verify(l) \/ CloseGroup(l)
    BY <2>1, <1>u DEF Launch, RunAgent, Verify, CloseGroup
  <2>2. CASE OpenRun(l) \/ StoreTrajectory(l) \/ StoreEvidence(l) \/ StoreVerification(l)
    BY <2>2, <1>1
    DEF OpenRun, StoreTrajectory, StoreEvidence, StoreVerification, Directories, CandidateFilesGrow
  <2>3. CASE ScoreCandidate(l) \/ WriteEvaluation(l) \/ ReplaceEvaluation(l) \/ WriteGroups(l)
    BY ZenonT(40), <2>3, <1>1
    DEF ScoreCandidate, WriteEvaluation, ReplaceEvaluation, WriteGroups, Directories,
        CandidateFilesGrow
  <2>4. CASE ReplaceGroups(l) \/ BeginManifest(l) \/ WriteManifest(l) \/ CloseRun(l)
    BY <2>4, <1>1
    DEF ReplaceGroups, BeginManifest, OpenManifest, WriteManifest, CloseRun, Directories,
        CandidateFilesGrow
  <2>5. QED
    BY <1>2, <2>1, <2>2, <2>3, <2>4 DEF LaunchStep
<1>3. QED
  BY <1>u, <1>2 DEF Next, Stop, BindJob, Done, vars

(* What is sound stays sound. *)
LEMMA SoundStays ==
    ASSUME CandidateFilesGrow, NEW id, Sound(id) PROVE Sound(id)'
BY DEF CandidateFilesGrow, Sound

LEMMA BatchStays ==
    ASSUME CandidateFilesGrow, NEW groups, GoodBatch(groups) PROVE GoodBatch(groups)'
BY SoundStays DEF GoodBatch, SoundGroup

(* A step that leaves a launch alone leaves what is true of it. *)
LEMMA Untouched ==
    ASSUME CandidateFilesGrow, NEW l \in Launches, LaunchSound(l),
           pc'[l] = pc[l], task'[l] = task[l], candidate'[l] = candidate[l],
           rollout'[l] = rollout[l], memory'[l] = memory[l]
    PROVE  LaunchSound(l)'
<1>1. RolloutStored(l)'
  BY DEF LaunchSound, RolloutStored, CandidateFilesGrow, Id
<1>2. EpisodesSound(l)'
  BY SoundStays DEF LaunchSound, EpisodesSound, ScoredBy
<1>3. GroupsSound(l)'
  BY BatchStays DEF LaunchSound, GroupsSound
<1>4. QED
  BY <1>1, <1>2, <1>3 DEF LaunchSound

(* Nor does a step of its own that keeps its accounts and its place.         *)
LEMMA AccountsUntouched ==
    ASSUME CandidateFilesGrow, NEW l \in Launches, LaunchSound(l),
           ScoredBy(l)' = ScoredBy(l), task'[l] = task[l], memory'[l] = memory[l],
           pc[l] \in Finishing => pc'[l] \in Finishing
    PROVE  EpisodesSound(l)' /\ GroupsSound(l)'
<1>1. EpisodesSound(l)'
  BY SoundStays DEF LaunchSound, EpisodesSound
<1>2. GroupsSound(l)'
  BY BatchStays DEF LaunchSound, GroupsSound
<1>3. QED
  BY <1>1, <1>2
(* A reward makes a traced, eligible candidate a sound one. *)
LEMMA ScoredIsSound ==
    ASSUME TypeOK, NEW l \in Launches, LaunchSound(l), ScoreCandidate(l),
           Eligible(rollout[l]), rollout[l].trajectory = "traced",
           NEW id, id = Id(l)
    PROVE  Sound(id)'
<1>1. disk.rewards \in SUBSET [id : Ids, eligible : BOOLEAN] /\ disk \in Directories
  BY DEF TypeOK, Directories
<1>2. /\ disk'.trajectories = disk.trajectories /\ disk'.verifications = disk.verifications
      /\ disk'.rewards = disk.rewards \cup {[id |-> Id(l), eligible |-> Eligible(rollout[l])]}
  BY <1>1 DEF ScoreCandidate, Directories
<1>3. Eligible(rollout[l]) = TRUE
  BY DEF Eligible
<1>4. /\ [id |-> Id(l), trajectory |-> "traced"] \in disk.trajectories
      /\ [id |-> Id(l), status |-> rollout[l].status] \in disk.verifications
      /\ rollout[l].status \in {"pass", "agent_failure"}
  BY DEF LaunchSound, RolloutStored, ScoreCandidate, Eligible
<1>6. PICK v : v = [id |-> id, status |-> rollout[l].status]
  OBVIOUS
<1>7. v \in disk'.verifications /\ v.id = id /\ v.status \in {"pass", "agent_failure"}
  BY <1>2, <1>4, <1>6
<1>8. /\ [id |-> id, trajectory |-> "traced"] \in disk'.trajectories
      /\ [id |-> id, eligible |-> TRUE] \in disk'.rewards
  BY <1>2, <1>3, <1>4
<1>9. QED
  BY <1>7, <1>8 DEF Sound
(* The accounts after a candidate is scored. *)
LEMMA ScoreKeepsEpisodes ==
    ASSUME TypeOK, CandidateFilesGrow, NEW l \in Launches, LaunchSound(l), ScoreCandidate(l)
    PROVE  EpisodesSound(l)' /\ GroupsSound(l)'
<1> DEFINE recorded == Record(memory[l], Id(l))
<1>1. PICK id : id = Id(l)
  OBVIOUS
<1>old. PICK old : old = memory[l].episodes
  OBVIOUS
<1>new. PICK new : new = memory'[l].episodes
  OBVIOUS
<1>2. id \in Ids /\ id.launch = l /\ id.task = task[l] /\ id.candidate = candidate[l]
  BY <1>1, IdType DEF Id
<1>3. /\ old \in Seq(Ids) /\ Len(old) \in Nat
      /\ candidate[l] \in 1 .. GroupSize /\ GroupSize \in Nat
  BY <1>old, Typed, CollectionAssumption DEF Candidates, CollectionAssumption
<1>4. ScoredBy(l) = candidate[l] - 1
  BY DEF ScoreCandidate, ScoredBy
<1>5. ScoredBy(l)' = candidate[l]
  <2>1. CASE candidate[l] < GroupSize
    BY <2>1, <1>3 DEF ScoreCandidate, ScoredBy, Goto, TypeOK
  <2>2. CASE ~(candidate[l] < GroupSize)
    BY <2>2, <1>3 DEF ScoreCandidate, ScoredBy, Goto, TypeOK
  <2>3. QED
    BY <2>1, <2>2
<1>6. recorded \in Accounts /\ recorded.episodes = old /\ recorded.groups = memory[l].groups
  <2>1. Append(memory[l].records, Id(l)) \in Seq(Ids)
    BY Typed, IdType, AppendFacts
  <2>2. QED
    BY <1>old, Typed, <2>1 DEF Accounts, Record
<1>7. memory'[l] = Admit(recorded, rollout[l], Id(l))
  BY DEF ScoreCandidate, TypeOK
<1>8. /\ memory'[l].groups = memory[l].groups
      /\ new \in {old, Append(old, id)}
      /\ new = Append(old, id) <=> Eligible(rollout[l]) /\ rollout[l].trajectory = "traced"
  <2> HIDE DEF recorded
  <2>1. QED
    BY <1>1, <1>2, <1>6, <1>7, <1>new, AdmitType
<1>9. /\ Len(old) <= ScoredBy(l)
      /\ \A i \in DOMAIN old : /\ old[i].task = task[l]
                               /\ old[i].launch = l
                               /\ Sound(old[i])
      /\ Len(old) = ScoredBy(l) => \A i \in DOMAIN old : old[i].candidate = i
  BY <1>old DEF LaunchSound, EpisodesSound
<1>10. task'[l] = task[l] /\ DOMAIN old = 1 .. Len(old)
  BY <1>3 DEF ScoreCandidate
<1> HIDE DEF recorded
<1>11. \A i \in DOMAIN old : Sound(old[i])'
  BY <1>9, SoundStays
<1>12. ASSUME new = old PROVE EpisodesSound(l)'
  <2>1. /\ Len(new) <= candidate[l]
        /\ Len(new) # candidate[l]
        /\ \A i \in DOMAIN new : new[i].task = task[l] /\ new[i].launch = l
    BY <1>12, <1>3, <1>4, <1>9, <1>10
  <2>2. \A i \in DOMAIN new : Sound(new[i])'
    BY <1>11, <1>12
  <2>3. EpisodesSound(l)'
    <3>1. (\A i \in DOMAIN memory[l].episodes : Sound(memory[l].episodes[i]))'
      BY <2>2, <1>new DEF Sound
    <3>2. QED
      BY <3>1, <2>1, <1>5, <1>10, <1>new DEF EpisodesSound
  <2>4. QED
    BY <2>3
<1>13. ASSUME new = Append(old, id) PROVE EpisodesSound(l)'
  <2>1. /\ Len(new) = Len(old) + 1 /\ DOMAIN new = 1 .. Len(old) + 1
        /\ \A i \in 1 .. Len(old) : new[i] = old[i]
        /\ new[Len(old) + 1] = id
    BY <1>13, <1>2, <1>3, AppendFacts
  <2>2. Sound(id)'
    BY <1>13, <1>8, <1>1, ScoredIsSound
  <2>3. \A i \in DOMAIN new : i \in 1 .. Len(old) \/ i = Len(old) + 1
    BY <2>1, <1>3
  <2>4. Len(new) <= candidate[l]
    BY <2>1, <1>3, <1>4, <1>9
  <2>5. \A i \in DOMAIN new : new[i].task = task[l] /\ new[i].launch = l
    BY <2>1, <2>3, <1>2, <1>9, <1>10
  <2>6. \A i \in DOMAIN new : Sound(new[i])'
    <3>1. TAKE i \in DOMAIN new
    <3>2. CASE i \in 1 .. Len(old)
      <4>1. new[i] = old[i] /\ Sound(old[i])'
        BY <3>2, <2>1, <1>10, <1>11
      <4>2. QED
        BY <4>1
    <3>3. CASE i = Len(old) + 1
      BY <3>3, <2>1, <2>2
    <3>4. QED
      BY <3>1, <3>2, <3>3, <2>3
  <2>7. Len(new) = candidate[l] => \A i \in DOMAIN new : new[i].candidate = i
    <3>1. Len(new) = candidate[l] => Len(old) = ScoredBy(l)
      BY <2>1, <1>3, <1>4
    <3>2. QED
      BY <3>1, <2>1, <2>3, <1>2, <1>3, <1>4, <1>9, <1>10
  <2>8. EpisodesSound(l)'
    <3>1. (\A i \in DOMAIN memory[l].episodes : Sound(memory[l].episodes[i]))'
      BY <2>6, <1>new DEF Sound
    <3>2. QED
      BY <3>1, <2>4, <2>5, <2>7, <1>5, <1>10, <1>new DEF EpisodesSound
  <2>9. QED
    BY <2>8
<1>14. EpisodesSound(l)'
  BY <1>8, <1>12, <1>13
<1>15. GroupsSound(l)'
  <2>1. PICK groups : groups = memory[l].groups
    OBVIOUS
  <2>2. GoodBatch(groups)'
    BY <2>1, BatchStays DEF LaunchSound, GroupsSound
  <2>3. GoodBatch(memory[l].groups)'
    BY <2>1, <2>2, <1>8 DEF GoodBatch, SoundGroup, Sound
  <2>4. pc[l] \notin Finishing
    BY DEF ScoreCandidate, Finishing
  <2>5. QED
    BY <2>3, <2>4, <1>8, <1>10 DEF LaunchSound, GroupsSound
<1>16. QED
  BY <1>14, <1>15
(* A sound group has a first episode, of a task. *)
LEMMA FirstTask ==
    ASSUME NEW group \in Seq(Ids), SoundGroup(group)
    PROVE  group[1].task \in Tasks /\ group[1].task \in Nat
<1>1. Len(group) >= 2 /\ Len(group) \in Nat
  BY CollectionAssumption DEF CollectionAssumption, SoundGroup
<1>2. group[1] \in Ids
  BY <1>1
<1>3. QED
  BY <1>2, CollectionAssumption DEF CollectionAssumption, Ids, Tasks

(* The accounts after a task is settled. *)
LEMMA SettleKeepsGroups ==
    ASSUME TypeOK, CandidateFilesGrow, NEW l \in Launches, LaunchSound(l), CloseGroup(l)
    PROVE  EpisodesSound(l)' /\ GroupsSound(l)'
<1>1. PICK episodes : episodes = memory[l].episodes
  OBVIOUS
<1>2. PICK old : old = memory[l].groups
  OBVIOUS
<1>3. PICK t : t = task[l]
  OBVIOUS
<1>4. /\ episodes \in Seq(Ids) /\ old \in Seq(Seq(Ids)) /\ Len(old) \in Nat
      /\ Len(episodes) <= GroupSize /\ Len(episodes) \in Nat /\ t \in Tasks
      /\ t \in Nat /\ GroupSize \in Nat \ {0} /\ DOMAIN episodes = 1 .. Len(episodes)
      /\ DOMAIN old = 1 .. Len(old)
  BY <1>1, <1>2, <1>3, Typed, CollectionAssumption DEF CollectionAssumption, Tasks
<1>5. /\ memory'[l].episodes = <<>>
      /\ memory'[l].groups = IF Trainable(episodes) THEN Append(old, episodes) ELSE old
  <2>1. memory'[l] = SettleGroup(memory[l], task[l])
    BY DEF CloseGroup, TypeOK
  <2>2. QED
    BY <2>1, <1>1, <1>2, <1>3, <1>4, Typed, SettleType
<1>6. ScoredBy(l)' \in Nat
  <2>1. pc'[l] # "group" /\ candidate'[l] = candidate[l]
    BY DEF CloseGroup, Goto, TypeOK
  <2>2. QED
    BY <2>1, Typed DEF ScoredBy, Candidates
<1>7. EpisodesSound(l)'
  BY <1>5, <1>6 DEF EpisodesSound
<1>8. ScoredBy(l) = GroupSize /\ pc[l] \notin Finishing
  BY DEF CloseGroup, ScoredBy, Finishing
<1>9. /\ \A i \in DOMAIN episodes : /\ episodes[i].task = t /\ episodes[i].launch = l
                                    /\ Sound(episodes[i])
      /\ Len(episodes) = GroupSize => \A i \in DOMAIN episodes : episodes[i].candidate = i
  BY <1>1, <1>3, <1>8 DEF LaunchSound, EpisodesSound
<1>10. GoodBatch(old) /\ \A i \in DOMAIN old : old[i][1].task < t
  BY <1>2, <1>3, <1>8 DEF LaunchSound, GroupsSound
<1>11. Trainable(episodes) => SoundGroup(episodes) /\ 1 \in DOMAIN episodes
  BY <1>4, <1>9 DEF Trainable, SoundGroup
<1>12. PICK new : new = IF Trainable(episodes) THEN Append(old, episodes) ELSE old
  OBVIOUS
<1>13. GoodBatch(new) /\ \A i \in DOMAIN new : new[i][1].task <= t
  <2>1. CASE ~Trainable(episodes)
    <3>1. \A i \in DOMAIN old : old[i][1].task <= t
      <4>1. TAKE i \in DOMAIN old
      <4>2. old[i] \in Seq(Ids) /\ SoundGroup(old[i])
        BY <1>4, <1>10 DEF GoodBatch
      <4>4. old[i][1].task \in Nat
        BY <4>2, FirstTask
      <4>5. QED
        BY <4>4, <1>4, <1>10
    <3>2. QED
      BY <2>1, <1>12, <1>10, <3>1
  <2>2. CASE Trainable(episodes)
    <3>1. /\ DOMAIN new = 1 .. Len(old) + 1
          /\ \A i \in 1 .. Len(old) : new[i] = old[i]
          /\ new[Len(old) + 1] = episodes
      BY <2>2, <1>4, <1>12, AppendFacts
    <3>2. \A i \in DOMAIN new : i \in 1 .. Len(old) \/ i = Len(old) + 1
      BY <3>1, <1>4
    <3>3. \A i \in DOMAIN new : SoundGroup(new[i])
      BY <3>1, <3>2, <2>2, <1>4, <1>10, <1>11 DEF GoodBatch
    <3>4. episodes[1].task = t
      BY <1>9, <1>11, <2>2
    <3>5. \A i \in 1 .. Len(old) : new[i][1].task < t /\ new[i][1].task \in Nat
      <4>1. TAKE i \in 1 .. Len(old)
      <4>2. old[i] \in Seq(Ids) /\ SoundGroup(old[i]) /\ new[i] = old[i]
        <5>1. i \in DOMAIN old
          BY <1>4
        <5>2. QED
          BY <5>1, <1>4, <1>10, <3>1 DEF GoodBatch
      <4>4. old[i][1].task \in Nat
        BY <4>2, FirstTask
      <4>5. QED
        BY <4>2, <4>4, <1>4, <1>10
    <3>6. \A i, j \in DOMAIN new : i # j => new[i][1].task # new[j][1].task
      <4>1. TAKE i, j \in DOMAIN new
      <4>2. CASE i \in 1 .. Len(old) /\ j \in 1 .. Len(old)
        BY <4>2, <3>1, <1>4, <1>10 DEF GoodBatch
      <4>3. CASE i \in 1 .. Len(old) /\ j = Len(old) + 1
        BY <4>3, <3>1, <3>4, <3>5, <1>4
      <4>4. CASE i = Len(old) + 1 /\ j \in 1 .. Len(old)
        BY <4>4, <3>1, <3>4, <3>5, <1>4
      <4>5. QED
        BY <4>2, <4>3, <4>4, <3>2
    <3>7. \A i \in DOMAIN new : new[i][1].task <= t
      BY <3>1, <3>2, <3>4, <3>5, <1>4
    <3>8. QED
      BY <3>3, <3>6, <3>7 DEF GoodBatch
  <2>3. QED
    BY <2>1, <2>2
<1>14. GroupsSound(l)'
  <2>1. GoodBatch(new)'
    BY <1>13, BatchStays
  <2>2. GoodBatch(memory[l].groups)'
    <3>1. memory'[l].groups = new
      BY <1>5, <1>12
    <3>2. QED
      BY <2>1, <3>1 DEF GoodBatch, SoundGroup, Sound
  <2>3. CASE t < TaskCount
    <3>1. task'[l] = t + 1
      BY <2>3, <1>3 DEF CloseGroup, TypeOK
    <3>2. \A i \in DOMAIN new : new[i][1].task < t + 1
      <4>1. new \in Seq(Seq(Ids))
        BY <1>4, <1>12, AppendFacts
      <4>2. TAKE i \in DOMAIN new
      <4>3. new[i] \in Seq(Ids) /\ SoundGroup(new[i])
        BY <4>1, <1>13 DEF GoodBatch
      <4>5. new[i][1].task \in Nat
        BY <4>3, FirstTask
      <4>6. QED
        BY <4>5, <1>4, <1>13
    <3>3. QED
      BY <2>2, <3>1, <3>2, <1>5, <1>12 DEF GroupsSound
  <2>4. CASE ~(t < TaskCount)
    <3>1. pc'[l] \in Finishing
      BY <2>4, <1>3 DEF CloseGroup, Goto, TypeOK, Finishing
    <3>2. QED
      BY <2>2, <3>1 DEF GroupsSound
  <2>5. QED
    BY <2>3, <2>4
<1>15. QED
  BY <1>7, <1>14
(* A launch moves only itself. *)
LEMMA OthersUntouched ==
    ASSUME TypeOK, NEW l \in Launches, LaunchStep(l) \/ Stop(l), NEW m \in Launches, m # l
    PROVE  /\ pc'[m] = pc[m] /\ task'[m] = task[m] /\ candidate'[m] = candidate[m]
           /\ rollout'[m] = rollout[m] /\ memory'[m] = memory[m]
<1>1. CASE Launch(l) \/ OpenRun(l) \/ RunAgent(l) \/ StoreTrajectory(l) \/ Verify(l)
  BY <1>1 DEF Launch, OpenRun, RunAgent, StoreTrajectory, Verify, Goto, TypeOK
<1>2. CASE StoreEvidence(l) \/ StoreVerification(l) \/ WriteEvaluation(l) \/ ReplaceEvaluation(l)
  BY <1>2 DEF StoreEvidence, StoreVerification, WriteEvaluation, ReplaceEvaluation, Goto, TypeOK
<1>3. CASE ScoreCandidate(l)
  BY <1>3 DEF ScoreCandidate, Goto, TypeOK
<1>4. CASE CloseGroup(l)
  BY <1>4 DEF CloseGroup, Goto, TypeOK
<1>5. CASE WriteGroups(l) \/ ReplaceGroups(l) \/ BeginManifest(l) \/ WriteManifest(l) \/ CloseRun(l)
  BY <1>5 DEF WriteGroups, ReplaceGroups, BeginManifest, WriteManifest, CloseRun, Goto, TypeOK
<1>6. CASE Stop(l)
  BY <1>6 DEF Stop, Goto, TypeOK
<1>7. QED
  BY <1>1, <1>2, <1>3, <1>4, <1>5, <1>6 DEF LaunchStep

(* What a launch knows stays true through each of its own steps. *)
LEMMA LaunchStaysSound ==
    ASSUME TypeOK, CandidateFilesGrow, NEW l \in Launches, LaunchSound(l),
           LaunchStep(l) \/ Stop(l)
    PROVE  LaunchSound(l)'
<1>1. CASE Launch(l) \/ OpenRun(l)
  <2>1. /\ pc'[l] \in {"policy", "stopped", "run"} /\ pc[l] \in {"idle", "policy"}
        /\ task'[l] = task[l] /\ candidate'[l] = candidate[l] /\ memory'[l] = memory[l]
    BY <1>1 DEF Launch, OpenRun, Goto, TypeOK
  <2>2. RolloutStored(l)'
    BY <2>1 DEF RolloutStored
  <2>3. ScoredBy(l)' = ScoredBy(l) /\ pc[l] \notin Finishing
    BY <2>1 DEF ScoredBy, Finishing
  <2>4. QED
    BY <2>1, <2>2, <2>3, AccountsUntouched DEF LaunchSound
<1>2. CASE RunAgent(l)
  <2>1. /\ pc'[l] = "store" /\ pc[l] = "run" /\ rollout'[l].status = "none"
        /\ task'[l] = task[l] /\ candidate'[l] = candidate[l] /\ memory'[l] = memory[l]
    BY <1>2 DEF RunAgent, Goto, TypeOK
  <2>2. RolloutStored(l)'
    BY <2>1 DEF RolloutStored
  <2>3. ScoredBy(l)' = ScoredBy(l) /\ pc[l] \notin Finishing
    BY <2>1 DEF ScoredBy, Finishing
  <2>4. QED
    BY <2>1, <2>2, <2>3, AccountsUntouched DEF LaunchSound
<1>3. CASE StoreTrajectory(l)
  <2>1. /\ pc'[l] \in {"verify", "score"} /\ pc[l] = "store" /\ rollout'[l] = rollout[l]
        /\ task'[l] = task[l] /\ candidate'[l] = candidate[l] /\ memory'[l] = memory[l]
        /\ rollout[l].status = "none"
    BY <1>3 DEF StoreTrajectory, Goto, TypeOK, LaunchSound, RolloutStored
  <2>2. [id |-> Id(l), trajectory |-> rollout[l].trajectory] \in disk'.trajectories
    BY <1>3 DEF StoreTrajectory, TypeOK, Directories
  <2>3. RolloutStored(l)'
    BY <2>1, <2>2 DEF RolloutStored, Id
  <2>4. ScoredBy(l)' = ScoredBy(l) /\ pc[l] \notin Finishing
    BY <2>1 DEF ScoredBy, Finishing
  <2>5. QED
    BY <2>1, <2>3, <2>4, AccountsUntouched DEF LaunchSound
<1>4. CASE Verify(l)
  <2>1. PICK status \in Verdicts : rollout' = [rollout EXCEPT ![l] = [@ EXCEPT !.status = status]]
    BY <1>4 DEF Verify
  <2>2. /\ pc'[l] = "evidence" /\ pc[l] = "verify"
        /\ task'[l] = task[l] /\ candidate'[l] = candidate[l] /\ memory'[l] = memory[l]
        /\ disk' = disk
    BY <1>4 DEF Verify, Goto, TypeOK
  <2>3. rollout'[l].trajectory = rollout[l].trajectory
    BY <2>1, Typed DEF TypeOK, Rollouts
  <2>4. RolloutStored(l)'
    BY <2>2, <2>3 DEF LaunchSound, RolloutStored, Id
  <2>5. ScoredBy(l)' = ScoredBy(l) /\ pc[l] \notin Finishing
    BY <2>2 DEF ScoredBy, Finishing
  <2>6. QED
    BY <2>2, <2>4, <2>5, AccountsUntouched DEF LaunchSound
<1>5. CASE StoreEvidence(l)
  <2>1. /\ pc'[l] = "verification" /\ pc[l] = "evidence" /\ rollout'[l] = rollout[l]
        /\ task'[l] = task[l] /\ candidate'[l] = candidate[l] /\ memory'[l] = memory[l]
    BY <1>5 DEF StoreEvidence, Goto, TypeOK
  <2>2. RolloutStored(l)'
    BY <2>1 DEF LaunchSound, RolloutStored, CandidateFilesGrow, Id
  <2>3. ScoredBy(l)' = ScoredBy(l) /\ pc[l] \notin Finishing
    BY <2>1 DEF ScoredBy, Finishing
  <2>4. QED
    BY <2>1, <2>2, <2>3, AccountsUntouched DEF LaunchSound
<1>6. CASE StoreVerification(l)
  <2>1. /\ pc'[l] = "score" /\ pc[l] = "verification" /\ rollout'[l] = rollout[l]
        /\ task'[l] = task[l] /\ candidate'[l] = candidate[l] /\ memory'[l] = memory[l]
    BY <1>6 DEF StoreVerification, Goto, TypeOK
  <2>2. [id |-> Id(l), status |-> rollout[l].status] \in disk'.verifications
    BY <1>6 DEF StoreVerification, TypeOK, Directories
  <2>3. RolloutStored(l)'
    BY <2>1, <2>2 DEF LaunchSound, RolloutStored, CandidateFilesGrow, Id
  <2>4. ScoredBy(l)' = ScoredBy(l) /\ pc[l] \notin Finishing
    BY <2>1 DEF ScoredBy, Finishing
  <2>5. QED
    BY <2>1, <2>3, <2>4, AccountsUntouched DEF LaunchSound
<1>7. CASE ScoreCandidate(l)
  <2>1. pc'[l] \in {"run", "group"}
    BY <1>7 DEF ScoreCandidate, Goto, TypeOK
  <2>2. RolloutStored(l)'
    BY <2>1 DEF RolloutStored
  <2>3. QED
    BY <1>7, <2>2, ScoreKeepsEpisodes DEF LaunchSound
<1>8. CASE CloseGroup(l)
  <2>1. pc'[l] \in {"run", "evaluation"}
    BY <1>8 DEF CloseGroup, Goto, TypeOK
  <2>2. RolloutStored(l)'
    BY <2>1 DEF RolloutStored
  <2>3. QED
    BY <1>8, <2>2, SettleKeepsGroups DEF LaunchSound
<1>9. CASE \/ WriteEvaluation(l) \/ ReplaceEvaluation(l) \/ WriteGroups(l) \/ ReplaceGroups(l)
           \/ BeginManifest(l) \/ WriteManifest(l) \/ CloseRun(l)
  <2>1. /\ pc[l] \in Finishing /\ pc'[l] \in Finishing
        /\ task'[l] = task[l] /\ candidate'[l] = candidate[l] /\ memory'[l] = memory[l]
    BY <1>9
    DEF WriteEvaluation, ReplaceEvaluation, WriteGroups, ReplaceGroups, BeginManifest,
        WriteManifest, CloseRun, Goto, TypeOK, Finishing
  <2>2. RolloutStored(l)'
    BY <2>1 DEF RolloutStored, Finishing
  <2>3. ScoredBy(l)' = ScoredBy(l)
    BY <2>1 DEF ScoredBy, Finishing
  <2>4. QED
    BY <2>1, <2>2, <2>3, AccountsUntouched DEF LaunchSound
<1>10. CASE Stop(l)
  <2>1. /\ pc'[l] = "stopped" /\ candidate'[l] = 1
        /\ memory'[l].episodes = <<>> /\ memory'[l].groups = <<>>
    BY <1>10 DEF Stop, Goto, TypeOK, NoAccounts
  <2>2. RolloutStored(l)'
    BY <2>1 DEF RolloutStored
  <2>3. EpisodesSound(l)'
    BY <2>1 DEF EpisodesSound, ScoredBy
  <2>4. GroupsSound(l)'
    BY <2>1 DEF GroupsSound, GoodBatch
  <2>5. QED
    BY <2>2, <2>3, <2>4 DEF LaunchSound
<1>11. QED
  BY <1>1, <1>2, <1>3, <1>4, <1>5, <1>6, <1>7, <1>8, <1>9, <1>10 DEF LaunchStep

(* Groups reach the directory and the job only from a launch's accounts. *)
LEMMA FilesStaySound ==
    ASSUME TypeOK, CandidateFilesGrow, \A l \in Launches : LaunchSound(l), FilesSound, [Next]_vars
    PROVE  FilesSound'
<1>1. PICK tmp, groups, bound : tmp = disk.groups_tmp /\ groups = disk.groups /\ bound = job
  OBVIOUS
<1>2. GoodFile(tmp)' /\ GoodFile(groups)' /\ GoodFile(bound)'
  BY <1>1, BatchStays DEF FilesSound, GoodFile, Complete
<1>tmp. ASSUME NEW file, GoodFile(file)', disk'.groups_tmp = file PROVE GoodFile(disk.groups_tmp)'
  <2>1. CASE ~Complete(file)
    BY <1>tmp, <2>1 DEF GoodFile, Complete
  <2>2. CASE Complete(file)
    <3>1. PICK content : content = file.content
      OBVIOUS
    <3>2. GoodBatch(content)'
      BY <1>tmp, <2>2, <3>1 DEF GoodFile, Complete
    <3>3. GoodBatch(disk.groups_tmp.content)'
      BY <1>tmp, <3>1, <3>2 DEF GoodBatch, SoundGroup, Sound
    <3>4. QED
      BY <3>3 DEF GoodFile
  <2>3. QED
    BY <2>1, <2>2
<1>groups. ASSUME NEW file, GoodFile(file)', disk'.groups = file PROVE GoodFile(disk.groups)'
  <2>1. CASE ~Complete(file)
    BY <1>groups, <2>1 DEF GoodFile, Complete
  <2>2. CASE Complete(file)
    <3>1. PICK content : content = file.content
      OBVIOUS
    <3>2. GoodBatch(content)'
      BY <1>groups, <2>2, <3>1 DEF GoodFile, Complete
    <3>3. GoodBatch(disk.groups.content)'
      BY <1>groups, <3>1, <3>2 DEF GoodBatch, SoundGroup, Sound
    <3>4. QED
      BY <3>3 DEF GoodFile
  <2>3. QED
    BY <2>1, <2>2
<1>job. ASSUME NEW file, GoodFile(file)', job' = file PROVE GoodFile(job)'
  <2>1. CASE ~Complete(file)
    BY <1>job, <2>1 DEF GoodFile, Complete
  <2>2. CASE Complete(file)
    <3>1. PICK content : content = file.content
      OBVIOUS
    <3>2. GoodBatch(content)'
      BY <1>job, <2>2, <3>1 DEF GoodFile, Complete
    <3>3. GoodBatch(job.content)'
      BY <1>job, <3>1, <3>2 DEF GoodBatch, SoundGroup, Sound
    <3>4. QED
      BY <3>3 DEF GoodFile
  <2>3. QED
    BY <2>1, <2>2
<1>3. CASE disk'.groups_tmp = tmp /\ disk'.groups = groups /\ job' = bound
  BY <1>2, <1>3, <1>tmp, <1>groups, <1>job DEF FilesSound
<1>4. ASSUME NEW l \in Launches, WriteGroups(l) PROVE FilesSound'
  <2>1. PICK own : own = memory[l].groups
    OBVIOUS
  <2>2. GoodBatch(own)'
    BY <2>1, BatchStays DEF LaunchSound, GroupsSound
  <2>3. disk'.groups_tmp = File(own) /\ disk'.groups = groups /\ job' = bound
    BY <1>1, <1>4, <2>1 DEF WriteGroups, TypeOK, Directories
  <2>4. GoodFile(File(own))'
    BY <2>2 DEF GoodFile, File, Complete
  <2>5. QED
    BY <1>2, <2>3, <2>4, <1>tmp, <1>groups, <1>job DEF FilesSound
<1>5. ASSUME NEW l \in Launches, ReplaceGroups(l) PROVE FilesSound'
  <2>1. disk'.groups_tmp = NoFile /\ disk'.groups = tmp /\ job' = bound
    BY <1>1, <1>5 DEF ReplaceGroups, TypeOK, Directories
  <2>2. GoodFile(NoFile)'
    BY DEF GoodFile, Complete, NoFile
  <2>3. QED
    BY <1>2, <2>1, <2>2, <1>tmp, <1>groups, <1>job DEF FilesSound
<1>6. CASE BindJob
  <2>1. disk' = disk /\ job' = groups
    BY <1>1, <1>6 DEF BindJob
  <2>2. QED
    BY <1>1, <1>2, <2>1, <1>tmp, <1>groups, <1>job DEF FilesSound
<1>7. ASSUME NEW l \in Launches, LaunchStep(l) \/ Stop(l), ~WriteGroups(l), ~ReplaceGroups(l)
      PROVE  disk'.groups_tmp = tmp /\ disk'.groups = groups /\ job' = bound
  <2>1. CASE \/ Launch(l) \/ RunAgent(l) \/ Verify(l) \/ CloseGroup(l) \/ Stop(l)
    BY <2>1, <1>1 DEF Launch, RunAgent, Verify, CloseGroup, Stop
  <2>2. CASE OpenRun(l) \/ StoreTrajectory(l) \/ StoreEvidence(l) \/ StoreVerification(l)
    BY <2>2, <1>1
    DEF OpenRun, StoreTrajectory, StoreEvidence, StoreVerification, TypeOK, Directories
  <2>3. CASE ScoreCandidate(l) \/ WriteEvaluation(l) \/ ReplaceEvaluation(l)
    BY <2>3, <1>1
    DEF ScoreCandidate, WriteEvaluation, ReplaceEvaluation, TypeOK, Directories
  <2>4. CASE BeginManifest(l) \/ WriteManifest(l) \/ CloseRun(l)
    BY <2>4, <1>1
    DEF BeginManifest, OpenManifest, WriteManifest, CloseRun, TypeOK, Directories
  <2>5. QED
    BY <1>7, <2>1, <2>2, <2>3, <2>4 DEF LaunchStep
<1>8. CASE UNCHANGED vars \/ Done
  BY <1>8, <1>1, <1>3 DEF vars, Done
<1>9. QED
  BY <1>3, <1>4, <1>5, <1>6, <1>7, <1>8 DEF Next

LEMMA SoundInit == Init => SoundInv
<1> SUFFICES ASSUME Init PROVE SoundInv
  OBVIOUS
<1>1. ASSUME NEW l \in Launches PROVE LaunchSound(l)
  <2>1. /\ pc[l] = "idle" /\ candidate[l] = 1
        /\ memory[l].episodes = <<>> /\ memory[l].groups = <<>>
    BY DEF Init, NoAccounts
  <2>2. QED
    BY <2>1
    DEF LaunchSound, RolloutStored, EpisodesSound, GroupsSound, GoodBatch, ScoredBy
<1>2. FilesSound
  BY DEF Init, FilesSound, GoodFile, EmptyDirectory, Complete, NoFile
<1>3. QED
  BY <1>1, <1>2, TypeInit DEF SoundInv

LEMMA SoundStep == SoundInv /\ [Next]_vars => SoundInv'
<1> SUFFICES ASSUME SoundInv, [Next]_vars PROVE SoundInv'
  OBVIOUS
<1>1. TypeOK /\ FilesSound /\ \A l \in Launches : LaunchSound(l)
  BY DEF SoundInv
<1>2. Counted
  BY <1>1 DEF Counted, LaunchSound, EpisodesSound
<1>3. TypeOK'
  BY <1>1, <1>2, TypeStep
<1>4. CandidateFilesGrow
  BY <1>1, Grows
<1>5. ASSUME NEW m \in Launches PROVE LaunchSound(m)'
  <2>1. CASE UNCHANGED <<pc, task, candidate, rollout, memory>>
    BY <2>1, <1>1, <1>4, Untouched
  <2>2. ASSUME NEW l \in Launches, LaunchStep(l) \/ Stop(l) PROVE LaunchSound(m)'
    <3>1. CASE m = l
      BY <3>1, <2>2, <1>1, <1>4, LaunchStaysSound
    <3>2. CASE m # l
      BY <3>2, <2>2, <1>1, <1>4, OthersUntouched, Untouched
    <3>3. QED
      BY <3>1, <3>2
  <2>3. QED
    BY <2>1, <2>2 DEF Next, BindJob, Done, vars
<1>6. FilesSound'
  BY <1>1, <1>4, FilesStaySound
<1>7. QED
  BY <1>3, <1>5, <1>6 DEF SoundInv

LEMMA SoundInvariant == Spec => []SoundInv
BY SoundInit, SoundStep, PTL DEF Spec

(* Type correctness of Collector. *)
THEOREM TypeCorrect == Spec => []TypeOK
<1>1. SoundInv => TypeOK
  BY DEF SoundInv
<1>2. QED
  BY <1>1, SoundInvariant, PTL

(* A GRPO job holds only sound groups, whatever failed and however launches  *)
(* overlapped.                                                               *)
THEOREM TrainingBatchesAreSound == Spec => []TrainingBatchIsSound
<1>1. SoundInv => TrainingBatchIsSound
  BY DEF SoundInv, FilesSound, GoodFile, GoodBatch, TrainingBatchIsSound
<1>2. QED
  BY <1>1, SoundInvariant, PTL
-----------------------------------------------------------------------------
(* One run per directory, when launches do not overlap. *)

CandidateFiles == disk.trajectories \cup disk.verifications \cup disk.rewards

(* The one launch that works owns the directory: it was empty when the       *)
(* launch began, is marked partial while the launch works, and is complete   *)
(* only just before the mark is removed.                                     *)
OneRun ==
    /\ \A l, m \in Launches : pc[l] \in Working /\ pc[m] \in Working => l = m
    /\ \A l \in Launches :
          /\ pc[l] = "policy" => disk = EmptyDirectory
          /\ pc[l] \in Working \ {"policy"} =>
                /\ disk.partial
                /\ Complete(disk.manifest) <=> pc[l] = "close"
                /\ \A x \in CandidateFiles : x.id.launch = l
    /\ InterruptedRunIsVisible
    /\ DirectoryHasOneRun

(* What a step of a launch past its policy does to the directory. *)
LEMMA OwnSteps ==
    ASSUME TypeOK, NEW l \in Launches, LaunchStep(l), pc[l] \in Working \ {"policy"}
    PROVE  /\ \A x \in CandidateFiles' : x \in CandidateFiles \/ x.id.launch = l
           /\ disk'.partial = disk.partial \/ (pc[l] = "close" /\ pc'[l] = "done")
           /\ pc'[l] \in (Working \ {"policy"}) \cup {"done"}
           /\ pc'[l] = "done" => pc[l] = "close"
           /\ IF pc[l] \in {"manifest", "manifest_write"}
              THEN Complete(disk'.manifest) <=> pc'[l] = "close"
              ELSE disk'.manifest = disk.manifest /\ pc'[l] # "close"
<1>1. disk \in Directories
  BY DEF TypeOK
<1>2. CASE RunAgent(l)
  <2>1. /\ disk'.trajectories = disk.trajectories
        /\ disk'.verifications = disk.verifications
        /\ disk'.rewards = disk.rewards
    BY <1>1, <1>2 DEF RunAgent, Directories
  <2>2. pc[l] = "run" /\ pc'[l] = "store"
    BY <1>2 DEF RunAgent, Goto, TypeOK
  <2>3. disk'.partial = disk.partial /\ disk'.manifest = disk.manifest
    BY <1>1, <1>2 DEF RunAgent, Directories
  <2>4. \A x \in CandidateFiles' : x \in CandidateFiles \/ x.id.launch = l
    BY <2>1 DEF CandidateFiles
  <2>5. QED
    BY <2>2, <2>3, <2>4 DEF Working
<1>3. CASE StoreTrajectory(l)
  <2>1. /\ disk'.verifications = disk.verifications
        /\ disk'.rewards = disk.rewards
        /\ disk'.trajectories = disk.trajectories \cup {[id |-> Id(l), trajectory |-> rollout[l].trajectory]}
    BY <1>1, <1>3 DEF StoreTrajectory, Directories
  <2>2. pc[l] = "store" /\ pc'[l] \in {"score", "verify"}
    BY <1>3 DEF StoreTrajectory, Goto, TypeOK
  <2>3. disk'.partial = disk.partial /\ disk'.manifest = disk.manifest
    BY <1>1, <1>3 DEF StoreTrajectory, Directories
  <2>4. \A x \in CandidateFiles' : x \in CandidateFiles \/ x.id.launch = l
    BY <2>1 DEF CandidateFiles, Id
  <2>5. QED
    BY <2>2, <2>3, <2>4 DEF Working
<1>4. CASE Verify(l)
  <2>1. /\ disk'.trajectories = disk.trajectories
        /\ disk'.verifications = disk.verifications
        /\ disk'.rewards = disk.rewards
    BY <1>1, <1>4 DEF Verify, Directories
  <2>2. pc[l] = "verify" /\ pc'[l] = "evidence"
    BY <1>4 DEF Verify, Goto, TypeOK
  <2>3. disk'.partial = disk.partial /\ disk'.manifest = disk.manifest
    BY <1>1, <1>4 DEF Verify, Directories
  <2>4. \A x \in CandidateFiles' : x \in CandidateFiles \/ x.id.launch = l
    BY <2>1 DEF CandidateFiles
  <2>5. QED
    BY <2>2, <2>3, <2>4 DEF Working
<1>5. CASE StoreEvidence(l)
  <2>1. /\ disk'.trajectories = disk.trajectories
        /\ disk'.verifications = disk.verifications
        /\ disk'.rewards = disk.rewards
    BY <1>1, <1>5 DEF StoreEvidence, Directories
  <2>2. pc[l] = "evidence" /\ pc'[l] = "verification"
    BY <1>5 DEF StoreEvidence, Goto, TypeOK
  <2>3. disk'.partial = disk.partial /\ disk'.manifest = disk.manifest
    BY <1>1, <1>5 DEF StoreEvidence, Directories
  <2>4. \A x \in CandidateFiles' : x \in CandidateFiles \/ x.id.launch = l
    BY <2>1 DEF CandidateFiles
  <2>5. QED
    BY <2>2, <2>3, <2>4 DEF Working
<1>6. CASE StoreVerification(l)
  <2>1. /\ disk'.trajectories = disk.trajectories
        /\ disk'.rewards = disk.rewards
        /\ disk'.verifications = disk.verifications \cup {[id |-> Id(l), status |-> rollout[l].status]}
    BY <1>1, <1>6 DEF StoreVerification, Directories
  <2>2. pc[l] = "verification" /\ pc'[l] = "score"
    BY <1>6 DEF StoreVerification, Goto, TypeOK
  <2>3. disk'.partial = disk.partial /\ disk'.manifest = disk.manifest
    BY <1>1, <1>6 DEF StoreVerification, Directories
  <2>4. \A x \in CandidateFiles' : x \in CandidateFiles \/ x.id.launch = l
    BY <2>1 DEF CandidateFiles, Id
  <2>5. QED
    BY <2>2, <2>3, <2>4 DEF Working
<1>7. CASE ScoreCandidate(l)
  <2>1. /\ disk'.trajectories = disk.trajectories
        /\ disk'.verifications = disk.verifications
        /\ disk'.rewards = disk.rewards \cup {[id |-> Id(l), eligible |-> Eligible(rollout[l])]}
    BY <1>1, <1>7 DEF ScoreCandidate, Directories
  <2>2. pc[l] = "score" /\ pc'[l] \in {"run", "group"}
    BY <1>7 DEF ScoreCandidate, Goto, TypeOK
  <2>3. disk'.partial = disk.partial /\ disk'.manifest = disk.manifest
    BY <1>1, <1>7 DEF ScoreCandidate, Directories
  <2>4. \A x \in CandidateFiles' : x \in CandidateFiles \/ x.id.launch = l
    BY <2>1 DEF CandidateFiles, Id
  <2>5. QED
    BY <2>2, <2>3, <2>4 DEF Working
<1>8. CASE CloseGroup(l)
  <2>1. /\ disk'.trajectories = disk.trajectories
        /\ disk'.verifications = disk.verifications
        /\ disk'.rewards = disk.rewards
    BY <1>1, <1>8 DEF CloseGroup, Directories
  <2>2. pc[l] = "group" /\ pc'[l] \in {"run", "evaluation"}
    BY <1>8 DEF CloseGroup, Goto, TypeOK
  <2>3. disk'.partial = disk.partial /\ disk'.manifest = disk.manifest
    BY <1>1, <1>8 DEF CloseGroup, Directories
  <2>4. \A x \in CandidateFiles' : x \in CandidateFiles \/ x.id.launch = l
    BY <2>1 DEF CandidateFiles
  <2>5. QED
    BY <2>2, <2>3, <2>4 DEF Working
<1>9. CASE WriteEvaluation(l)
  <2>1. /\ disk'.trajectories = disk.trajectories
        /\ disk'.verifications = disk.verifications
        /\ disk'.rewards = disk.rewards
    BY <1>1, <1>9 DEF WriteEvaluation, Directories
  <2>2. pc[l] = "evaluation" /\ pc'[l] = "evaluation_replace"
    BY <1>9 DEF WriteEvaluation, Goto, TypeOK
  <2>3. disk'.partial = disk.partial /\ disk'.manifest = disk.manifest
    BY <1>1, <1>9 DEF WriteEvaluation, Directories
  <2>4. \A x \in CandidateFiles' : x \in CandidateFiles \/ x.id.launch = l
    BY <2>1 DEF CandidateFiles
  <2>5. QED
    BY <2>2, <2>3, <2>4 DEF Working
<1>10. CASE ReplaceEvaluation(l)
  <2>1. /\ disk'.trajectories = disk.trajectories
        /\ disk'.verifications = disk.verifications
        /\ disk'.rewards = disk.rewards
    BY <1>1, <1>10 DEF ReplaceEvaluation, Directories
  <2>2. pc[l] = "evaluation_replace" /\ pc'[l] \in {"groups", "manifest"}
    BY <1>10 DEF ReplaceEvaluation, Goto, TypeOK
  <2>3. disk'.partial = disk.partial /\ disk'.manifest = disk.manifest
    BY <1>1, <1>10 DEF ReplaceEvaluation, Directories
  <2>4. \A x \in CandidateFiles' : x \in CandidateFiles \/ x.id.launch = l
    BY <2>1 DEF CandidateFiles
  <2>5. QED
    BY <2>2, <2>3, <2>4 DEF Working
<1>11. CASE WriteGroups(l)
  <2>1. /\ disk'.trajectories = disk.trajectories
        /\ disk'.verifications = disk.verifications
        /\ disk'.rewards = disk.rewards
    BY <1>1, <1>11 DEF WriteGroups, Directories
  <2>2. pc[l] = "groups" /\ pc'[l] = "groups_replace"
    BY <1>11 DEF WriteGroups, Goto, TypeOK
  <2>3. disk'.partial = disk.partial /\ disk'.manifest = disk.manifest
    BY <1>1, <1>11 DEF WriteGroups, Directories
  <2>4. \A x \in CandidateFiles' : x \in CandidateFiles \/ x.id.launch = l
    BY <2>1 DEF CandidateFiles
  <2>5. QED
    BY <2>2, <2>3, <2>4 DEF Working
<1>12. CASE ReplaceGroups(l)
  <2>1. /\ disk'.trajectories = disk.trajectories
        /\ disk'.verifications = disk.verifications
        /\ disk'.rewards = disk.rewards
    BY <1>1, <1>12 DEF ReplaceGroups, Directories
  <2>2. pc[l] = "groups_replace" /\ pc'[l] = "manifest"
    BY <1>12 DEF ReplaceGroups, Goto, TypeOK
  <2>3. disk'.partial = disk.partial /\ disk'.manifest = disk.manifest
    BY <1>1, <1>12 DEF ReplaceGroups, Directories
  <2>4. \A x \in CandidateFiles' : x \in CandidateFiles \/ x.id.launch = l
    BY <2>1 DEF CandidateFiles
  <2>5. QED
    BY <2>2, <2>3, <2>4 DEF Working
<1>13. CASE BeginManifest(l)
  <2>1. /\ disk'.trajectories = disk.trajectories
        /\ disk'.verifications = disk.verifications
        /\ disk'.rewards = disk.rewards
    BY <1>1, <1>13 DEF BeginManifest, OpenManifest, Directories
  <2>2. pc[l] = "manifest" /\ pc'[l] = "manifest_write"
    BY <1>13 DEF BeginManifest, OpenManifest, Goto, TypeOK
  <2>3. disk'.partial = disk.partial /\ disk'.manifest = Torn
    BY <1>1, <1>13 DEF BeginManifest, OpenManifest, Directories
  <2>4. \A x \in CandidateFiles' : x \in CandidateFiles \/ x.id.launch = l
    BY <2>1 DEF CandidateFiles
  <2>5. Complete(disk'.manifest) <=> pc'[l] = "close"
    BY <2>2, <2>3 DEF Complete, Torn
  <2>6. QED
    BY <2>2, <2>3, <2>4, <2>5 DEF Working
<1>14. CASE WriteManifest(l)
  <2>1. /\ disk'.trajectories = disk.trajectories
        /\ disk'.verifications = disk.verifications
        /\ disk'.rewards = disk.rewards
    BY <1>1, <1>14 DEF WriteManifest, Directories
  <2>2. pc[l] = "manifest_write" /\ pc'[l] = "close"
    BY <1>14 DEF WriteManifest, Goto, TypeOK
  <2>3. disk'.partial = disk.partial /\ disk'.manifest = File(Manifest(memory[l]))
    BY <1>1, <1>14 DEF WriteManifest, Directories
  <2>4. \A x \in CandidateFiles' : x \in CandidateFiles \/ x.id.launch = l
    BY <2>1 DEF CandidateFiles
  <2>5. Complete(disk'.manifest) <=> pc'[l] = "close"
    BY <2>2, <2>3 DEF Complete, File
  <2>6. QED
    BY <2>2, <2>3, <2>4, <2>5 DEF Working
<1>15. CASE CloseRun(l)
  <2>1. /\ disk'.trajectories = disk.trajectories
        /\ disk'.verifications = disk.verifications
        /\ disk'.rewards = disk.rewards /\ disk'.manifest = disk.manifest
    BY <1>1, <1>15 DEF CloseRun, Directories
  <2>2. pc[l] = "close" /\ pc'[l] = "done"
    BY <1>15 DEF CloseRun, Goto, TypeOK
  <2>3. \A x \in CandidateFiles' : x \in CandidateFiles \/ x.id.launch = l
    BY <2>1 DEF CandidateFiles
  <2>4. QED
    BY <2>1, <2>2, <2>3 DEF Working
<1>16. ~Launch(l) /\ ~OpenRun(l)
  BY DEF Launch, OpenRun, Working
<1>17. QED
  BY <1>2, <1>3, <1>4, <1>5, <1>6, <1>7, <1>8, <1>9, <1>10, <1>11, <1>12, <1>13, <1>14,
     <1>15, <1>16 DEF LaunchStep

LEMMA OneRunInit == Init => OneRun
BY DEF Init, OneRun, Working, InterruptedRunIsVisible, DirectoryHasOneRun, EmptyDirectory,
       CandidateFiles

LEMMA OneRunStep ==
    ASSUME ~Overlapping PROVE TypeOK /\ OneRun /\ [Next]_vars => OneRun'
<1> SUFFICES ASSUME TypeOK, OneRun, [Next]_vars PROVE OneRun'
  OBVIOUS
<1>1. CASE UNCHANGED <<pc, disk>>
  BY <1>1
  DEF OneRun, InterruptedRunIsVisible, DirectoryHasOneRun, CandidateFiles, Complete
<1>2. ASSUME NEW l \in Launches, pc[l] = "idle", Alone(l), disk' = disk,
             (Goto(l, "policy") /\ disk = EmptyDirectory) \/ Goto(l, "stopped")
      PROVE  OneRun'
  BY <1>2
  DEF OneRun, InterruptedRunIsVisible, DirectoryHasOneRun, CandidateFiles, Complete,
      Goto, Alone, Working, TypeOK
<1>3. ASSUME NEW l \in Launches, Stop(l) PROVE OneRun'
  BY <1>3
  DEF Stop, OneRun, InterruptedRunIsVisible, DirectoryHasOneRun, CandidateFiles, Complete,
      Goto, Working, TypeOK
<1>4. ASSUME NEW l \in Launches, OpenRun(l) PROVE OneRun'
  <2>1. disk = EmptyDirectory /\ pc[l] = "policy"
    BY <1>4 DEF OpenRun, OneRun
  <2>2. disk' = [EmptyDirectory EXCEPT !.partial = TRUE]
    BY <1>4, <2>1 DEF OpenRun
  <2>3. /\ disk'.partial /\ ~Complete(disk'.manifest) /\ CandidateFiles' = {}
    BY <2>2 DEF EmptyDirectory, CandidateFiles, Complete, NoFile
  <2>4. \A m \in Launches : m # l => pc'[m] = pc[m] /\ pc[m] \notin Working
    BY <1>4, <2>1 DEF OpenRun, Goto, TypeOK, OneRun, Working
  <2>5. pc'[l] = "run"
    BY <1>4 DEF OpenRun, Goto, TypeOK
  <2>6. InterruptedRunIsVisible' /\ DirectoryHasOneRun'
    BY <2>3 DEF InterruptedRunIsVisible, DirectoryHasOneRun, CandidateFiles
  <2>7. QED
    BY <2>3, <2>4, <2>5, <2>6 DEF OneRun, Complete, Working
<1>5. ASSUME NEW l \in Launches, LaunchStep(l), pc[l] \in Working \ {"policy"}
      PROVE  OneRun'
  <2>1. /\ \A x \in CandidateFiles' : x \in CandidateFiles \/ x.id.launch = l
        /\ disk'.partial = disk.partial \/ (pc[l] = "close" /\ pc'[l] = "done")
        /\ pc'[l] \in (Working \ {"policy"}) \cup {"done"}
        /\ pc'[l] = "done" => pc[l] = "close"
        /\ IF pc[l] \in {"manifest", "manifest_write"}
           THEN Complete(disk'.manifest) <=> pc'[l] = "close"
           ELSE disk'.manifest = disk.manifest /\ pc'[l] # "close"
    BY <1>5, OwnSteps
  <2>2. /\ disk.partial
        /\ Complete(disk.manifest) <=> pc[l] = "close"
        /\ \A x \in CandidateFiles : x.id.launch = l
    BY <1>5 DEF OneRun
  <2>3. \A m \in Launches : m # l => pc'[m] = pc[m] /\ pc[m] \notin Working
    BY <1>5, OthersUntouched DEF OneRun
  <2>4. \A x \in CandidateFiles' : x.id.launch = l
    BY <2>1, <2>2
  <2>5. DirectoryHasOneRun'
    BY <2>4 DEF DirectoryHasOneRun, CandidateFiles
  <2>6. pc[l] = "close" => disk'.manifest = disk.manifest /\ pc'[l] = "done"
    BY <1>5, <2>1
    DEF LaunchStep, Launch, OpenRun, RunAgent, StoreTrajectory, Verify, StoreEvidence,
        StoreVerification, ScoreCandidate, CloseGroup, WriteEvaluation, ReplaceEvaluation,
        WriteGroups, ReplaceGroups, BeginManifest, WriteManifest, CloseRun, Goto, TypeOK
  <2>7. InterruptedRunIsVisible'
    BY <2>1, <2>2, <2>6 DEF InterruptedRunIsVisible
  <2>8. pc'[l] \in Working \ {"policy"} =>
           disk'.partial /\ (Complete(disk'.manifest) <=> pc'[l] = "close")
    BY <2>1, <2>2, <2>6 DEF Working
  <2>9. QED
    BY <2>1, <2>3, <2>4, <2>5, <2>7, <2>8 DEF OneRun, Working, Complete
<1>6. ASSUME NEW l \in Launches, LaunchStep(l) PROVE OneRun'
  <2>1. CASE Launch(l)
    BY <2>1, <1>2 DEF Launch, RefusesDirectory
  <2>2. CASE ~Launch(l)
    <3>1. pc[l] \in Working
      BY <1>6, <2>2
      DEF LaunchStep, OpenRun, RunAgent, StoreTrajectory, Verify, StoreEvidence,
          StoreVerification, ScoreCandidate, CloseGroup, WriteEvaluation, ReplaceEvaluation,
          WriteGroups, ReplaceGroups, BeginManifest, WriteManifest, CloseRun, Working
    <3>2. CASE pc[l] = "policy"
      BY <1>4, <1>6, <2>2, <3>2
      DEF LaunchStep, RunAgent, StoreTrajectory, Verify, StoreEvidence,
          StoreVerification, ScoreCandidate, CloseGroup, WriteEvaluation, ReplaceEvaluation,
          WriteGroups, ReplaceGroups, BeginManifest, WriteManifest, CloseRun
    <3>3. QED
      BY <3>1, <3>2, <1>5, <1>6
  <2>3. QED
    BY <2>1, <2>2
<1>7. QED
  BY <1>1, <1>3, <1>6 DEF Next, BindJob, Done, vars

LEMMA OneRunInvariant ==
    ASSUME ~Overlapping PROVE Spec => [](TypeOK /\ OneRun)
<1>1. TypeOK /\ OneRun /\ [Next]_vars /\ TypeOK' => (TypeOK /\ OneRun)'
  BY OneRunStep
<1>2. QED
  BY <1>1, TypeCorrect, OneRunInit, PTL DEF Spec

(* Without overlap nothing is merged: a directory holds the files of one     *)
(* launch.                                                                   *)
THEOREM DirectoriesHaveOneRun ==
    ASSUME ~Overlapping PROVE Spec => []DirectoryHasOneRun
<1>1. TypeOK /\ OneRun => DirectoryHasOneRun
  BY DEF OneRun
<1>2. QED
  BY <1>1, OneRunInvariant, PTL

(* Without overlap an interrupted run can be told from a completed one.      *)
THEOREM InterruptedRunsAreVisible ==
    ASSUME ~Overlapping PROVE Spec => []InterruptedRunIsVisible
<1>1. TypeOK /\ OneRun => InterruptedRunIsVisible
  BY DEF OneRun
<1>2. QED
  BY <1>1, OneRunInvariant, PTL

(* Without overlap a directory is one run's, and shows whether it completed. *)
THEOREM DirectoriesAreOneRuns ==
    ASSUME ~Overlapping PROVE Spec => []DirectoryIsOneRuns
<1>1. InterruptedRunIsVisible /\ DirectoryHasOneRun => DirectoryIsOneRuns
  BY DEF DirectoryIsOneRuns
<1>2. QED
  BY <1>1, DirectoriesHaveOneRun, InterruptedRunsAreVisible, PTL

(* A completed run is left as it is, but for its mark. *)
LEMMA CompletedStep ==
    ASSUME TypeOK, OneRun, [Next]_vars, Complete(disk.manifest), disk' # disk
    PROVE  disk' = [disk EXCEPT !.partial = FALSE]
<1>1. PICK l \in Launches : LaunchStep(l)
  BY DEF Next, Stop, BindJob, Done, vars
<1>2. pc[l] \in Working /\ pc[l] # "policy"
  <2>1. pc[l] \in Working
    BY <1>1
    DEF LaunchStep, Launch, OpenRun, RunAgent, StoreTrajectory, Verify, StoreEvidence,
        StoreVerification, ScoreCandidate, CloseGroup, WriteEvaluation, ReplaceEvaluation,
        WriteGroups, ReplaceGroups, BeginManifest, WriteManifest, CloseRun, Working
  <2>2. ~Complete(EmptyDirectory.manifest)
    BY DEF Complete, EmptyDirectory, NoFile
  <2>3. QED
    BY <2>1, <2>2 DEF OneRun
<1>3. pc[l] = "close"
  BY <1>2 DEF OneRun
<1>4. CloseRun(l)
  BY <1>1, <1>3
  DEF LaunchStep, Launch, OpenRun, RunAgent, StoreTrajectory, Verify, StoreEvidence,
      StoreVerification, ScoreCandidate, CloseGroup, WriteEvaluation, ReplaceEvaluation,
      WriteGroups, ReplaceGroups, BeginManifest, WriteManifest
<1>5. QED
  BY <1>4 DEF CloseRun

(* Without overlap a completed run never changes again. *)
THEOREM CompletedRunsAreImmutable ==
    ASSUME ~Overlapping PROVE Spec => CompletedIsImmutable
<1>1. TypeOK /\ OneRun /\ [Next]_vars =>
         [Complete(disk.manifest) => disk' \in {disk, [disk EXCEPT !.partial = FALSE]}]_vars
  BY CompletedStep DEF vars
<1>2. QED
  BY <1>1, OneRunInvariant, PTL DEF Spec, CompletedIsImmutable
-----------------------------------------------------------------------------
(* The accounts of a run and its files, when launches do not overlap.        *)

Mine(l, t, c) == [launch |-> l, task |-> t, candidate |-> c]

(* How many candidates of task t launch l has scored.                        *)
ScoredOf(l, t) ==
    IF pc[l] \in Finishing \/ t < task[l] THEN GroupSize
    ELSE IF t = task[l] THEN ScoredBy(l) ELSE 0

Settled(l, t) == pc[l] \in Finishing \/ t < task[l]

(* The candidates with a reward are those it has scored, each with one, and  *)
(* with one trajectory; at most the current one's is stored besides.         *)
Rewarded(l) ==
    /\ IsFiniteSet(disk.rewards)
    /\ \A r \in disk.rewards : r.id.candidate <= ScoredOf(l, r.id.task)
    /\ \A t \in Tasks, c \in Candidates :
          c <= ScoredOf(l, t) => \E r \in disk.rewards : r.id = Mine(l, t, c)
    /\ \A r, s \in disk.rewards : r.id = s.id => r = s

Trailed(l) ==
    /\ \A r \in disk.rewards : \E x \in disk.trajectories : x.id = r.id
    /\ \A x \in disk.trajectories :
          \/ x.id.candidate <= ScoredOf(l, x.id.task)
          \/ /\ pc[l] \in {"verify", "evidence", "verification", "score"}
             /\ x = [id |-> Id(l), trajectory |-> rollout[l].trajectory]
    /\ \A x, y \in disk.trajectories : x.id = y.id => x = y

(* The records are those of the candidates it has scored, in their order.    *)
Recorded(l) ==
    /\ pc[l] = "group" => candidate[l] = 1
    /\ Len(memory[l].records) =
          IF pc[l] \in Finishing THEN TaskCount * GroupSize
          ELSE (task[l] - 1) * GroupSize + ScoredBy(l)
    /\ \A t \in Tasks, c \in Candidates :
          c <= ScoredOf(l, t) => memory[l].records[(t - 1) * GroupSize + c] = Mine(l, t, c)

(* What is excluded was scored by the launch, and its trajectory is not      *)
(* traced.                                                                   *)
Excluded(l) ==
    \A i \in DOMAIN memory[l].exclusions :
        LET id == memory[l].exclusions[i] IN
        /\ id.launch = l /\ id.candidate <= ScoredOf(l, id.task)
        /\ [id |-> id, trajectory |-> "traced"] \notin disk.trajectories

Missing(l, t) == Cardinality(Of(t, memory[l].exclusions)) + Cardinality(Ineligible(t))
HasGroup(groups, t) == \E i \in DOMAIN groups : groups[i][1].task = t

(* Every scored candidate of a task not yet settled is an episode, excluded  *)
(* or ineligible; a task settled has a group, or is dropped with those it    *)
(* lacks, which are some.                                                    *)
Balanced(l) ==
    /\ pc[l] \notin Finishing =>
          Len(memory[l].episodes) + Missing(l, task[l]) = ScoredBy(l)
    /\ \A i \in DOMAIN memory[l].dropped : Settled(l, memory[l].dropped[i].task)
    /\ GroupSize >= 2 => \A t \in Tasks : Settled(l, t) =>
          LET dropped == Of(t, memory[l].dropped) IN
          IF HasGroup(memory[l].groups, t)
          THEN dropped = {} /\ Missing(l, t) = 0
          ELSE /\ Missing(l, t) > 0
               /\ \E d \in dropped :
                     /\ dropped = {d}
                     /\ memory[l].dropped[d].trainable = GroupSize - Missing(l, t)

(* The files written at the end of a run hold its accounts.                  *)
Written(l) ==
    /\ pc[l] = "evaluation_replace" => disk.evaluation_tmp = File(memory[l].records)
    /\ pc[l] \in {"groups", "groups_replace", "manifest", "manifest_write"} =>
          disk.evaluation = File(memory[l].records)
    /\ pc[l] \in {"groups", "groups_replace"} => memory[l].groups # <<>>
    /\ pc[l] = "groups_replace" => disk.groups_tmp = File(memory[l].groups)
    /\ pc[l] \in {"manifest", "manifest_write"} => Groups = memory[l].groups
    /\ pc[l] \notin {"manifest", "manifest_write", "close"} => ~Complete(disk.groups)

Accounted(l) ==
    Rewarded(l) /\ Trailed(l) /\ Recorded(l) /\ Excluded(l) /\ Balanced(l) /\ Written(l)

Fresh(l) == task[l] = 1 /\ candidate[l] = 1 /\ memory[l] = NoAccounts

AccountsInv ==
    /\ \A l \in Launches : pc[l] \in {"idle", "policy"} => Fresh(l)
    /\ \A l \in Launches :
          pc[l] \in Working \ {"policy", "close"} => Accounted(l)
    /\ CompletedRunIsTrue
    /\ Complete(disk.groups) => disk.groups.content # <<>>
    /\ job # NoFile => Complete(job)

-----------------------------------------------------------------------------
(* Counting.                                                                 *)

LEMMA OfFinite ==
    ASSUME NEW S, NEW entries \in Seq(S), NEW t
    PROVE  IsFiniteSet(Of(t, entries)) /\ Cardinality(Of(t, entries)) \in Nat
<1>1. Of(t, entries) \subseteq 1 .. Len(entries) /\ Len(entries) \in Nat
  BY DEF Of
<1>2. IsFiniteSet(1 .. Len(entries))
  BY <1>1, FS_Interval
<1>3. QED
  BY <1>1, <1>2, FS_Subset, FS_CardinalityType

LEMMA OfAppend ==
    ASSUME NEW S, NEW entries \in Seq(S), NEW e \in S, NEW t
    PROVE  /\ e.task # t => Of(t, Append(entries, e)) = Of(t, entries)
           /\ e.task = t => /\ Of(t, Append(entries, e)) = Of(t, entries) \union {Len(entries) + 1}
                            /\ Cardinality(Of(t, Append(entries, e)))
                                  = Cardinality(Of(t, entries)) + 1
<1>1. /\ DOMAIN Append(entries, e) = 1 .. Len(entries) + 1
      /\ \A i \in 1 .. Len(entries) : Append(entries, e)[i] = entries[i]
      /\ Append(entries, e)[Len(entries) + 1] = e
      /\ DOMAIN entries = 1 .. Len(entries) /\ Len(entries) \in Nat
  BY AppendFacts
<1>2. e.task # t => Of(t, Append(entries, e)) = Of(t, entries)
  BY <1>1 DEF Of
<1>3. e.task = t => Of(t, Append(entries, e)) = Of(t, entries) \union {Len(entries) + 1}
  BY <1>1 DEF Of
<1>4. Len(entries) + 1 \notin Of(t, entries)
  BY <1>1 DEF Of
<1>5. Cardinality(Of(t, entries) \union {Len(entries) + 1}) = Cardinality(Of(t, entries)) + 1
  BY <1>4, OfFinite, FS_AddElement
<1>6. QED
  BY <1>2, <1>3, <1>5

(* The records of earlier candidates come before the next one's.             *)
LEMMA EarlierRecords ==
    ASSUME NEW t \in Nat \ {0}, NEW u \in Nat, t < u, NEW c \in Candidates
    PROVE  /\ (t - 1) * GroupSize + c \in 1 .. (u - 1) * GroupSize
           /\ (u - 1) * GroupSize \in Nat /\ (t - 1) * GroupSize \in Nat
<1>1. GroupSize \in Nat /\ c \in Nat /\ 1 <= c /\ c <= GroupSize
  BY CollectionAssumption DEF CollectionAssumption, Candidates
<1>2. \A a, b, g \in Nat : a + 1 <= b => a * g + g <= b * g
  <2>1. SUFFICES ASSUME NEW a \in Nat, NEW b \in Nat, NEW g \in Nat, a + 1 <= b
                 PROVE  a * g + g <= b * g
    OBVIOUS
  <2>2. PICK d \in Nat : b = a + 1 + d
    <3>1. b - (a + 1) \in Nat /\ b = a + 1 + (b - (a + 1))
      BY <2>1
    <3>2. QED
      BY <3>1
  <2>3. b * g = a * g + g + d * g
    BY <2>2
  <2>4. d * g \in Nat /\ a * g \in Nat
    OBVIOUS
  <2>5. QED
    BY <2>3, <2>4
<1>3. \A a, g \in Nat : a * g \in Nat
  OBVIOUS
<1>4. t - 1 \in Nat /\ u - 1 \in Nat /\ (t - 1) + 1 <= u - 1
  OBVIOUS
<1>5. (t - 1) * GroupSize + GroupSize <= (u - 1) * GroupSize
  BY <1>1, <1>2, <1>4
<1>6. (u - 1) * GroupSize \in Nat /\ (t - 1) * GroupSize \in Nat
  BY <1>1, <1>3, <1>4
<1> DEFINE before == (t - 1) * GroupSize
           upto == (u - 1) * GroupSize
<1> HIDE DEF before, upto
<1>7. before + GroupSize <= upto /\ upto \in Nat /\ before \in Nat
  BY <1>5, <1>6 DEF before, upto
<1>8. before + c \in 1 .. upto
  BY <1>1, <1>7
<1>9. QED
  BY <1>6, <1>8 DEF before, upto

-----------------------------------------------------------------------------
(* What a step leaves as it is.                                              *)

(* The accounts of a scored candidate.                                       *)
LEMMA AdmitBooks ==
    ASSUME NEW accounts \in Accounts, NEW r, NEW id \in Ids,
           NEW new, new = Admit(Record(accounts, id), r, id)
    PROVE  /\ new \in Accounts
           /\ new.records = Append(accounts.records, id)
           /\ new.groups = accounts.groups /\ new.dropped = accounts.dropped
           /\ new.episodes = IF Eligible(r) /\ r.trajectory = "traced"
                             THEN Append(accounts.episodes, id) ELSE accounts.episodes
           /\ new.exclusions = IF Eligible(r) /\ r.trajectory # "traced"
                               THEN Append(accounts.exclusions, id) ELSE accounts.exclusions
<1> DEFINE recorded == [accounts EXCEPT !.records = Append(accounts.records, id)]
<1>1. /\ Append(accounts.records, id) \in Seq(Ids)
      /\ Append(accounts.episodes, id) \in Seq(Ids)
      /\ Append(accounts.exclusions, id) \in Seq(Ids)
  BY AppendFacts DEF Accounts
<1>2. /\ recorded \in Accounts /\ recorded.records = Append(accounts.records, id)
      /\ recorded.groups = accounts.groups /\ recorded.dropped = accounts.dropped
      /\ recorded.episodes = accounts.episodes /\ recorded.exclusions = accounts.exclusions
  BY <1>1 DEF Accounts
<1>3. Record(accounts, id) = recorded
  BY DEF Record
<1> HIDE DEF recorded
<1>4. CASE ~Eligible(r)
  BY <1>2, <1>3, <1>4 DEF Admit
<1>5. CASE Eligible(r) /\ r.trajectory = "traced"
  <2>1. new = [recorded EXCEPT !.episodes = Append(accounts.episodes, id)]
    BY <1>2, <1>3, <1>5 DEF Admit
  <2>2. /\ new \in Accounts /\ new.episodes = Append(accounts.episodes, id)
        /\ new.records = recorded.records /\ new.exclusions = recorded.exclusions
        /\ new.groups = recorded.groups /\ new.dropped = recorded.dropped
    BY <2>1, <1>1, <1>2 DEF Accounts
  <2>3. QED
    BY <2>2, <1>2, <1>5
<1>6. CASE Eligible(r) /\ r.trajectory # "traced"
  <2>1. new = [recorded EXCEPT !.exclusions = Append(accounts.exclusions, id)]
    BY <1>2, <1>3, <1>6 DEF Admit
  <2>2. /\ new \in Accounts /\ new.exclusions = Append(accounts.exclusions, id)
        /\ new.records = recorded.records /\ new.episodes = recorded.episodes
        /\ new.groups = recorded.groups /\ new.dropped = recorded.dropped
    BY <2>1, <1>1, <1>2 DEF Accounts
  <2>3. QED
    BY <2>2, <1>2, <1>6
<1>7. QED
  BY <1>4, <1>5, <1>6

(* The accounts of a settled task.                                           *)
LEMMA SettleBooks ==
    ASSUME NEW accounts \in Accounts, NEW t, NEW new, new = SettleGroup(accounts, t)
    PROVE  /\ new.records = accounts.records /\ new.exclusions = accounts.exclusions
           /\ new.episodes = <<>>
           /\ new.groups = IF Trainable(accounts.episodes)
                           THEN Append(accounts.groups, accounts.episodes)
                           ELSE accounts.groups
           /\ new.dropped = IF ~Trainable(accounts.episodes) /\ GroupSize >= 2
                            THEN Append(accounts.dropped, [task |-> t,
                                                trainable |-> Len(accounts.episodes)])
                            ELSE accounts.dropped
<1>1. CASE Trainable(accounts.episodes)
  BY <1>1 DEF SettleGroup, Accounts
<1>2. CASE ~Trainable(accounts.episodes) /\ GroupSize >= 2
  BY <1>2 DEF SettleGroup, Accounts
<1>3. CASE ~Trainable(accounts.episodes) /\ ~(GroupSize >= 2)
  BY <1>3 DEF SettleGroup, Accounts
<1>4. QED
  BY <1>1, <1>2, <1>3

(* The counts of every task stay when the place of a launch, its accounts    *)
(* and the rewards and trajectories do.                                      *)
LEMMA FrameKeeps ==
    ASSUME TypeOK, NEW l \in Launches, Accounted(l),
           task'[l] = task[l], candidate'[l] = candidate[l], memory'[l] = memory[l],
           pc[l] = "group" <=> pc'[l] = "group",
           pc[l] \in Finishing <=> pc'[l] \in Finishing,
           disk'.rewards = disk.rewards, disk'.trajectories = disk.trajectories
    PROVE  Rewarded(l)' /\ Recorded(l)' /\ Excluded(l)' /\ Balanced(l)'
<1>1. /\ ScoredBy(l)' = ScoredBy(l)
      /\ \A t : ScoredOf(l, t)' = ScoredOf(l, t) /\ (Settled(l, t)' <=> Settled(l, t))
  BY DEF ScoredBy, ScoredOf, Settled
<1>2. \A t : Ineligible(t)' = Ineligible(t) /\ Missing(l, t)' = Missing(l, t)
  BY DEF Ineligible, Missing
<1>3. Rewarded(l)'
  <2>1. \A r \in disk.rewards : r.id.candidate <= ScoredOf(l, r.id.task)'
    BY <1>1 DEF Accounted, Rewarded
  <2>2. \A t \in Tasks, c \in Candidates :
          c <= ScoredOf(l, t)' => \E r \in disk.rewards : r.id = Mine(l, t, c)
    BY <1>1 DEF Accounted, Rewarded
  <2>3. QED
    BY <2>1, <2>2 DEF Accounted, Rewarded
<1>4. Recorded(l)'
  <2>1. \A t \in Tasks, c \in Candidates :
          c <= ScoredOf(l, t)' => memory[l].records[(t - 1) * GroupSize + c] = Mine(l, t, c)
    BY <1>1 DEF Accounted, Recorded
  <2>2. QED
    BY <2>1, <1>1 DEF Accounted, Recorded
<1>5. Excluded(l)'
  BY <1>1 DEF Accounted, Excluded
<1>6. Balanced(l)'
  <2>1. \A t \in Tasks : Of(t, memory[l].dropped)' = Of(t, memory[l].dropped)
    BY DEF Of
  <2>2. QED
    BY <1>1, <1>2, <2>1 DEF Accounted, Balanced, HasGroup
<1>7. QED
  BY <1>3, <1>4, <1>5, <1>6

(* The steps of a launch that write neither rewards nor trajectories and do  *)
(* not change its accounts.                                                  *)
Quiet(l) ==
    \/ RunAgent(l) \/ Verify(l) \/ StoreEvidence(l) \/ StoreVerification(l)
    \/ WriteEvaluation(l) \/ ReplaceEvaluation(l) \/ WriteGroups(l) \/ ReplaceGroups(l)
    \/ BeginManifest(l) \/ WriteManifest(l) \/ CloseRun(l)

LEMMA QuietSteps ==
    ASSUME TypeOK, NEW l \in Launches, Quiet(l)
    PROVE  /\ task'[l] = task[l] /\ candidate'[l] = candidate[l] /\ memory'[l] = memory[l]
           /\ pc[l] # "group" /\ pc'[l] # "group"
           /\ pc[l] \in Finishing <=> pc'[l] \in Finishing
           /\ disk'.rewards = disk.rewards /\ disk'.trajectories = disk.trajectories
<1>1. disk \in Directories
  BY DEF TypeOK
<1>2. CASE RunAgent(l) \/ Verify(l)
  BY <1>1, <1>2 DEF RunAgent, Verify, Goto, TypeOK, Finishing
<1>3. CASE StoreEvidence(l) \/ StoreVerification(l)
  BY <1>1, <1>3 DEF StoreEvidence, StoreVerification, Directories, Goto, TypeOK, Finishing
<1>4. CASE WriteEvaluation(l) \/ ReplaceEvaluation(l)
  BY ZenonT(40), <1>1, <1>4 DEF WriteEvaluation, ReplaceEvaluation, Directories, Goto, TypeOK, Finishing
<1>5. CASE WriteGroups(l) \/ ReplaceGroups(l)
  BY <1>1, <1>5 DEF WriteGroups, ReplaceGroups, Directories, Goto, TypeOK, Finishing
<1>6. CASE BeginManifest(l) \/ WriteManifest(l) \/ CloseRun(l)
  BY <1>1, <1>6
  DEF BeginManifest, OpenManifest, WriteManifest, CloseRun, Directories, Goto, TypeOK, Finishing
<1>7. QED
  BY <1>2, <1>3, <1>4, <1>5, <1>6 DEF Quiet

LEMMA QuietKeepsTrail ==
    ASSUME TypeOK, NEW l \in Launches, Accounted(l), Quiet(l)
    PROVE  Trailed(l)'
<1>1. \A t : ScoredOf(l, t)' = ScoredOf(l, t)
  BY QuietSteps DEF ScoredBy, ScoredOf
<1>2. Id(l)' = Id(l)
  BY QuietSteps DEF Id
<1>3. /\ disk'.rewards = disk.rewards /\ disk'.trajectories = disk.trajectories
  BY QuietSteps
<1>4. \/ pc[l] \notin {"verify", "evidence", "verification", "score"}
      \/ /\ pc'[l] \in {"verify", "evidence", "verification", "score"}
         /\ rollout'[l].trajectory = rollout[l].trajectory
  <2>1. CASE RunAgent(l)
    BY <2>1 DEF RunAgent
  <2>2. CASE Verify(l)
    <3>1. PICK status \in Verdicts :
             rollout' = [rollout EXCEPT ![l] = [@ EXCEPT !.status = status]]
      BY <2>2 DEF Verify
    <3>2. rollout'[l].trajectory = rollout[l].trajectory
      BY <3>1, Typed DEF TypeOK, Rollouts
    <3>3. QED
      BY <3>2, <2>2 DEF Verify, Goto, TypeOK
  <2>3. CASE StoreEvidence(l) \/ StoreVerification(l)
    BY <2>3 DEF StoreEvidence, StoreVerification, Goto, TypeOK
  <2>4. QED
    BY <2>1, <2>2, <2>3
    DEF Quiet, WriteEvaluation, ReplaceEvaluation, WriteGroups, ReplaceGroups, BeginManifest,
        WriteManifest, CloseRun
<1>5. ASSUME NEW x \in disk.trajectories
      PROVE  \/ x.id.candidate <= ScoredOf(l, x.id.task)'
             \/ /\ pc'[l] \in {"verify", "evidence", "verification", "score"}
                /\ x = [id |-> Id(l)', trajectory |-> rollout'[l].trajectory]
  BY <1>1, <1>2, <1>4 DEF Accounted, Trailed
<1>6. QED
  BY <1>3, <1>5 DEF Accounted, Trailed

LEMMA QuietKeepsWritten ==
    ASSUME TypeOK, NEW l \in Launches, Accounted(l), Quiet(l), ~CloseRun(l), ~WriteManifest(l)
    PROVE  Written(l)'
<1>1. disk \in Directories /\ memory'[l] = memory[l]
  BY QuietSteps DEF TypeOK
<1> DEFINE groups == disk.groups
<1>2. CASE RunAgent(l) \/ Verify(l) \/ StoreEvidence(l) \/ StoreVerification(l)
  <2>1. /\ pc'[l] \in {"store", "evidence", "verification", "score"}
        /\ disk'.groups = disk.groups
    BY <1>2, <1>1
    DEF RunAgent, Verify, StoreEvidence, StoreVerification, Directories, Goto, TypeOK
  <2>2. ~Complete(disk.groups)
    BY <1>2 DEF Accounted, Written, RunAgent, Verify, StoreEvidence, StoreVerification
  <2>3. QED
    BY <2>1, <2>2 DEF Written, Complete
<1>3. CASE WriteEvaluation(l)
  <2>1. /\ pc'[l] = "evaluation_replace" /\ disk'.groups = disk.groups
        /\ disk'.evaluation_tmp = File(memory[l].records)
    BY <1>3, <1>1 DEF WriteEvaluation, Directories, Goto, TypeOK
  <2>2. ~Complete(disk.groups)
    BY <1>3 DEF Accounted, Written, WriteEvaluation
  <2>3. QED
    BY <2>1, <2>2, <1>1 DEF Written, Complete
<1>4. CASE ReplaceEvaluation(l)
  <2>1. /\ disk'.groups = disk.groups /\ disk'.evaluation = disk.evaluation_tmp
        /\ pc'[l] = IF HasGroups(memory[l]) THEN "groups" ELSE "manifest"
    BY <1>4, <1>1 DEF ReplaceEvaluation, Directories, Goto, TypeOK
  <2>2. ~Complete(disk.groups) /\ disk.evaluation_tmp = File(memory[l].records)
    BY <1>4 DEF Accounted, Written, ReplaceEvaluation
  <2>3. Groups' = <<>>
    BY <2>1, <2>2 DEF Groups, Complete
  <2>4. QED
    BY <2>1, <2>2, <2>3, <1>1 DEF Written, Complete, HasGroups
<1>5. CASE WriteGroups(l)
  <2>1. /\ disk'.groups = disk.groups /\ disk'.evaluation = disk.evaluation
        /\ disk'.groups_tmp = File(memory[l].groups) /\ pc'[l] = "groups_replace"
    BY <1>5, <1>1 DEF WriteGroups, Directories, Goto, TypeOK
  <2>2. /\ ~Complete(disk.groups) /\ disk.evaluation = File(memory[l].records)
        /\ memory[l].groups # <<>>
    BY <1>5 DEF Accounted, Written, WriteGroups
  <2>3. QED
    BY <2>1, <2>2, <1>1 DEF Written, Complete
<1>6. CASE ReplaceGroups(l)
  <2>1. /\ disk'.groups = disk.groups_tmp /\ disk'.evaluation = disk.evaluation
        /\ pc'[l] = "manifest"
    BY <1>6, <1>1 DEF ReplaceGroups, Directories, Goto, TypeOK
  <2>2. /\ disk.groups_tmp = File(memory[l].groups) /\ disk.evaluation = File(memory[l].records)
    BY <1>6 DEF Accounted, Written, ReplaceGroups
  <2>3. Groups' = memory[l].groups
    BY <2>1, <2>2 DEF Groups, Complete, File
  <2>4. QED
    BY <2>1, <2>2, <2>3, <1>1 DEF Written
<1>7. CASE BeginManifest(l)
  <2>1. /\ disk'.groups = disk.groups /\ disk'.evaluation = disk.evaluation
        /\ pc'[l] = "manifest_write"
    BY <1>7, <1>1 DEF BeginManifest, OpenManifest, Directories, Goto, TypeOK
  <2>2. Groups = memory[l].groups /\ disk.evaluation = File(memory[l].records)
    BY <1>7 DEF Accounted, Written, BeginManifest
  <2>3. Groups' = Groups
    BY <2>1 DEF Groups, Complete
  <2>4. QED
    BY <2>1, <2>2, <2>3, <1>1 DEF Written
<1>8. QED
  BY <1>2, <1>3, <1>4, <1>5, <1>6, <1>7 DEF Quiet

LEMMA QuietKeeps ==
    ASSUME TypeOK, NEW l \in Launches, Accounted(l), Quiet(l), ~CloseRun(l), ~WriteManifest(l)
    PROVE  Accounted(l)'
<1>1. Rewarded(l)' /\ Recorded(l)' /\ Excluded(l)' /\ Balanced(l)'
  BY QuietSteps, FrameKeeps
<1>2. QED
  BY <1>1, QuietKeepsTrail, QuietKeepsWritten DEF Accounted

LEMMA Positions ==
    ASSUME TypeOK, NEW l \in Launches
    PROVE  /\ task[l] \in 1 .. TaskCount /\ candidate[l] \in 1 .. GroupSize
           /\ task[l] \in Nat /\ candidate[l] \in Nat /\ ScoredBy(l) \in Nat
           /\ TaskCount \in Nat \ {0} /\ GroupSize \in Nat \ {0}
           /\ \A t : ScoredOf(l, t) \in Nat /\ ScoredOf(l, t) <= GroupSize
           /\ \A t \in Tasks : t \in Nat \ {0} /\ t <= TaskCount
           /\ \A c \in Candidates : c \in Nat \ {0} /\ c <= GroupSize
           /\ \A id \in Ids : id.task \in Tasks /\ id.candidate \in Candidates
<1>1. task[l] \in Tasks /\ candidate[l] \in Candidates
  BY DEF TypeOK
<1>2. QED
  BY <1>1, CollectionAssumption
  DEF CollectionAssumption, Tasks, Candidates, Ids, ScoredBy, ScoredOf

LEMMA FileIds ==
    ASSUME TypeOK
    PROVE  /\ \A r \in disk.rewards : r.id \in Ids /\ r \in [id : Ids, eligible : BOOLEAN]
           /\ \A x \in disk.trajectories : x.id \in Ids /\ x \in [id : Ids, trajectory : Trajectories]
  BY DEF TypeOK, Directories

(* The trajectory that is stored is of the candidate after those scored.     *)
LEMMA TrajectoryKeeps ==
    ASSUME TypeOK, OneRun, NEW l \in Launches, Accounted(l), StoreTrajectory(l)
    PROVE  Accounted(l)'
<1>1. disk \in Directories
  BY DEF TypeOK
<1> DEFINE x0 == [id |-> Id(l), trajectory |-> rollout[l].trajectory]
<1>2. /\ pc[l] = "store" /\ pc'[l] \in {"score", "verify"}
      /\ task'[l] = task[l] /\ candidate'[l] = candidate[l] /\ memory'[l] = memory[l]
      /\ rollout'[l] = rollout[l] /\ disk'.rewards = disk.rewards
      /\ disk'.trajectories = disk.trajectories \union {x0}
      /\ disk'.groups = disk.groups
  BY <1>1 DEF StoreTrajectory, Goto, TypeOK, Directories
<1>3. /\ ScoredBy(l)' = ScoredBy(l) /\ ScoredBy(l) = candidate[l] - 1
      /\ ScoredOf(l, task[l]) = candidate[l] - 1
      /\ \A t : ScoredOf(l, t)' = ScoredOf(l, t) /\ (Settled(l, t)' <=> Settled(l, t))
      /\ pc[l] \notin Finishing /\ pc'[l] \notin Finishing
  BY <1>2, Positions DEF ScoredBy, ScoredOf, Settled, Finishing
<1>4. /\ Id(l).task = task[l] /\ Id(l).candidate = candidate[l] /\ Id(l)' = Id(l)
      /\ x0.id = Id(l)
  BY <1>2 DEF Id
<1>5. ~(Id(l).candidate <= ScoredOf(l, Id(l).task))
  BY <1>3, <1>4, Positions
<1>6. \A x \in disk.trajectories : x.id.candidate <= ScoredOf(l, x.id.task)
  BY <1>2 DEF Accounted, Trailed
<1> HIDE DEF x0
<1>7. Rewarded(l)'
  <2>1. \A r \in disk.rewards : r.id.candidate <= ScoredOf(l, r.id.task)'
    BY <1>3 DEF Accounted, Rewarded
  <2>2. \A t \in Tasks, c \in Candidates :
          c <= ScoredOf(l, t)' => \E r \in disk.rewards : r.id = Mine(l, t, c)
    BY <1>3 DEF Accounted, Rewarded
  <2>3. QED
    BY <2>1, <2>2, <1>2 DEF Accounted, Rewarded
<1>8. Trailed(l)'
  <2>1. \A r \in disk.rewards : \E x \in disk'.trajectories : x.id = r.id
    BY <1>2 DEF Accounted, Trailed
  <2>2. \A x \in disk'.trajectories :
          \/ x.id.candidate <= ScoredOf(l, x.id.task)'
          \/ /\ pc'[l] \in {"verify", "evidence", "verification", "score"}
             /\ x = [id |-> Id(l)', trajectory |-> rollout'[l].trajectory]
    BY <1>2, <1>3, <1>4, <1>6 DEF x0
  <2>3. \A x, y \in disk'.trajectories : x.id = y.id => x = y
    <3>1. \A x \in disk.trajectories : x.id # x0.id
      BY <1>4, <1>5, <1>6
    <3>2. \A x, y \in disk.trajectories : x.id = y.id => x = y
      BY DEF Accounted, Trailed
    <3>3. QED
      BY <1>2, <3>1, <3>2
  <2>4. QED
    BY <1>2, <2>1, <2>2, <2>3 DEF Trailed
<1>9. Recorded(l)'
  <2>1. \A t \in Tasks, c \in Candidates :
          c <= ScoredOf(l, t)' => memory[l].records[(t - 1) * GroupSize + c] = Mine(l, t, c)
    BY <1>3 DEF Accounted, Recorded
  <2>2. QED
    BY <2>1, <1>2, <1>3 DEF Accounted, Recorded
<1>10. Excluded(l)'
  <2>1. ASSUME NEW i \in DOMAIN memory[l].exclusions, NEW id, id = memory[l].exclusions[i]
        PROVE  /\ id.launch = l /\ id.candidate <= ScoredOf(l, id.task)'
               /\ [id |-> id, trajectory |-> "traced"] \notin disk'.trajectories
    <3>1. /\ id.launch = l /\ id.candidate <= ScoredOf(l, id.task)
          /\ [id |-> id, trajectory |-> "traced"] \notin disk.trajectories
      BY <2>1 DEF Accounted, Excluded
    <3>2. id # Id(l)
      BY <3>1, <1>5
    <3>3. QED
      BY <3>1, <3>2, <1>2, <1>3, <1>4
  <2>2. QED
    BY <2>1, <1>2 DEF Excluded
<1>11. Balanced(l)'
  <2>1. \A t : Ineligible(t)' = Ineligible(t) /\ Missing(l, t)' = Missing(l, t)
    BY <1>2 DEF Ineligible, Missing
  <2>2. \A t : Of(t, memory[l].dropped)' = Of(t, memory[l].dropped)
    BY <1>2 DEF Of
  <2>3. QED
    BY <2>1, <2>2, <1>2, <1>3 DEF Accounted, Balanced, HasGroup
<1>12. Written(l)'
  <2>1. ~Complete(disk.groups)
    BY <1>2 DEF Accounted, Written
  <2>2. QED
    BY <2>1, <1>2 DEF Written, Complete
<1>13. QED
  BY <1>7, <1>8, <1>9, <1>10, <1>11, <1>12 DEF Accounted

(* Scoring a candidate adds its reward, its record and, to the sum of        *)
(* episodes, exclusions and ineligible ones of its task, one.                *)
LEMMA ScoreKeeps ==
    ASSUME TypeOK, NEW l \in Launches, LaunchSound(l), Accounted(l), ScoreCandidate(l)
    PROVE  Accounted(l)'
<1>1. disk \in Directories /\ memory[l] \in Accounts
  BY  DEF TypeOK
<1>id. PICK id0 : id0 = Id(l)
  OBVIOUS
<1>r. PICK r0 : r0 = [id |-> id0, eligible |-> Eligible(rollout[l])]
  OBVIOUS
<1>old. PICK old : old = memory[l]
  OBVIOUS
<1>new. PICK new : new = memory'[l]
  OBVIOUS
<1>2. /\ pc[l] = "score" /\ task'[l] = task[l]
      /\ disk'.rewards = disk.rewards \union {r0}
      /\ disk'.trajectories = disk.trajectories /\ disk'.groups = disk.groups
      /\ new = Admit(Record(old, id0), rollout[l], id0)
  BY <1>1, <1>id, <1>r, <1>old, <1>new DEF ScoreCandidate, Goto, TypeOK, Directories
<1>3. IF candidate[l] < GroupSize
      THEN candidate'[l] = candidate[l] + 1 /\ pc'[l] = "run"
      ELSE candidate'[l] = 1 /\ pc'[l] = "group"
  BY  DEF ScoreCandidate, Goto, TypeOK
<1>4. /\ ScoredBy(l)' = candidate[l] /\ ScoredBy(l) = candidate[l] - 1
      /\ ScoredOf(l, task[l]) = candidate[l] - 1
      /\ \A t : ScoredOf(l, t)' = IF t = task[l] THEN candidate[l] ELSE ScoredOf(l, t)
      /\ \A t : Settled(l, t)' <=> Settled(l, t)
      /\ pc[l] \notin Finishing /\ pc'[l] \notin Finishing
  <2>1. /\ ScoredBy(l)' = candidate[l] /\ ScoredBy(l) = candidate[l] - 1
        /\ pc[l] \notin Finishing /\ pc'[l] \notin Finishing
    BY <1>2, <1>3, Positions DEF ScoredBy, Finishing
  <2>2. ~(task[l] < task[l])
    BY Positions
  <2>3. QED
    BY <1>2, <2>1, <2>2 DEF ScoredOf, Settled
<1>5. /\ id0.task = task[l] /\ id0.candidate = candidate[l] /\ id0 = Mine(l, task[l], candidate[l])
      /\ r0.id = id0 /\ id0 \in Ids /\ id0.task \in Tasks
  BY <1>id, <1>r, IdType, Positions DEF Id, Mine
<1>6. ~(id0.candidate <= ScoredOf(l, id0.task))
  BY <1>4, <1>5, Positions
<1>7. \A r \in disk.rewards : r.id.candidate <= ScoredOf(l, r.id.task) /\ r.id # id0
  BY <1>6 DEF Accounted, Rewarded
<1>8. /\ new \in Accounts
      /\ new.records = Append(old.records, id0)
      /\ new.groups = old.groups /\ new.dropped = old.dropped
      /\ new.episodes = IF Eligible(rollout[l]) /\ rollout[l].trajectory = "traced"
                        THEN Append(old.episodes, id0) ELSE old.episodes
      /\ new.exclusions = IF Eligible(rollout[l]) /\ rollout[l].trajectory # "traced"
                          THEN Append(old.exclusions, id0) ELSE old.exclusions
  BY <1>2, <1>5, <1>1, <1>old, AdmitBooks
<1>9. /\ old.records \in Seq(Ids) /\ old.episodes \in Seq(Ids) /\ old.exclusions \in Seq(Ids)
      /\ old.dropped \in Seq(DroppedGroups)
  BY <1>1, <1>old DEF Accounts
<1>10. [id |-> id0, trajectory |-> rollout[l].trajectory] \in disk.trajectories
  BY <1>2, <1>id DEF LaunchSound, RolloutStored
<1>11. /\ \A r \in disk.rewards : r.id \in Ids
       /\ \A x \in disk.trajectories : x.id \in Ids
  BY FileIds
<1>12. Rewarded(l)'
  <2>1. IsFiniteSet(disk'.rewards)
    BY <1>2, FS_AddElement DEF Accounted, Rewarded
  <2>2. \A r \in disk'.rewards : r.id.candidate <= ScoredOf(l, r.id.task)'
    <3>1. ASSUME NEW r \in disk.rewards PROVE r.id.candidate <= ScoredOf(l, r.id.task)'
      <4>1. r.id.candidate <= ScoredOf(l, r.id.task) /\ r.id.candidate \in Nat
        BY <3>1, <1>7, <1>11, Positions
      <4>2. CASE r.id.task = task[l]
        BY <4>1, <4>2, <1>4, Positions
      <4>3. CASE r.id.task # task[l]
        BY <4>1, <4>3, <1>4
      <4>4. QED
        BY <4>2, <4>3
    <3>2. r0.id.candidate <= ScoredOf(l, r0.id.task)'
      BY <1>4, <1>5, Positions
    <3>3. QED
      BY <3>1, <3>2, <1>2
  <2>3. \A t \in Tasks, c \in Candidates :
          c <= ScoredOf(l, t)' => \E r \in disk'.rewards : r.id = Mine(l, t, c)
    <3>1. SUFFICES ASSUME NEW t \in Tasks, NEW c \in Candidates, c <= ScoredOf(l, t)'
                   PROVE  \E r \in disk'.rewards : r.id = Mine(l, t, c)
      OBVIOUS
    <3>2. CASE t = task[l] /\ c = candidate[l]
      BY <3>2, <1>2, <1>5
    <3>3. CASE ~(t = task[l] /\ c = candidate[l])
      <4>1. c <= ScoredOf(l, t)
        BY <3>1, <3>3, <1>4, Positions
      <4>2. QED
        BY <4>1, <1>2 DEF Accounted, Rewarded
    <3>4. QED
      BY <3>2, <3>3
  <2>4. \A r, s \in disk'.rewards : r.id = s.id => r = s
    <3>1. \A r, s \in disk.rewards : r.id = s.id => r = s
      BY  DEF Accounted, Rewarded
    <3>2. QED
      BY <3>1, <1>2, <1>5, <1>7
  <2>5. QED
    BY <2>1, <2>2, <2>3, <2>4 DEF Rewarded
<1>13. Trailed(l)'
  <2>1. \A r \in disk'.rewards : \E x \in disk'.trajectories : x.id = r.id
    <3>1. \E x \in disk.trajectories : x.id = r0.id
      BY <1>5, <1>10
    <3>2. \A r \in disk.rewards : \E x \in disk.trajectories : x.id = r.id
      BY  DEF Accounted, Trailed
    <3>3. QED
      BY <3>1, <3>2, <1>2
  <2>2. \A x \in disk'.trajectories : x.id.candidate <= ScoredOf(l, x.id.task)'
    <3>1. SUFFICES ASSUME NEW x \in disk.trajectories
                   PROVE  x.id.candidate <= ScoredOf(l, x.id.task)'
      BY <1>2
    <3>2. x.id.candidate \in Nat
      BY <1>11, Positions
    <3>3. CASE x.id.candidate <= ScoredOf(l, x.id.task)
      BY <3>2, <3>3, <1>4, Positions
    <3>4. CASE x = [id |-> Id(l), trajectory |-> rollout[l].trajectory]
      BY <3>4, <1>4, <1>5, Positions, <1>id
    <3>5. QED
      BY <3>3, <3>4 DEF Accounted, Trailed
  <2>3. \A x, y \in disk'.trajectories : x.id = y.id => x = y
    BY <1>2 DEF Accounted, Trailed
  <2>4. QED
    BY <2>1, <2>2, <2>3 DEF Trailed
<1>14. Recorded(l)'
  <2> DEFINE before == (task[l] - 1) * GroupSize
  <2>1. before \in Nat
    BY Positions
  <2>2. Len(old.records) = before + ScoredBy(l)
    BY <1>4, <1>old DEF Accounted, Recorded
  <2> HIDE DEF before
  <2>3. Len(new.records) = before + ScoredBy(l)'
    <3>1. Len(new.records) = Len(old.records) + 1
      BY <1>5, <1>8, <1>9, AppendFacts
    <3>2. ScoredBy(l)' = ScoredBy(l) + 1 /\ ScoredBy(l) \in Nat
      BY <1>4, Positions
    <3>3. QED
      BY <3>1, <3>2, <2>1, <2>2
  <2>4. pc'[l] = "group" => candidate'[l] = 1
    BY <1>3
  <2>5. \A t \in Tasks, c \in Candidates :
          c <= ScoredOf(l, t)' => new.records[(t - 1) * GroupSize + c] = Mine(l, t, c)
    <3>1. SUFFICES ASSUME NEW t \in Tasks, NEW c \in Candidates, c <= ScoredOf(l, t)'
                   PROVE  new.records[(t - 1) * GroupSize + c] = Mine(l, t, c)
      OBVIOUS
    <3>2. /\ \A i \in 1 .. Len(old.records) : new.records[i] = old.records[i]
          /\ new.records[Len(old.records) + 1] = id0
      BY <1>5, <1>8, <1>9, AppendFacts
    <3>3. CASE t = task[l] /\ c = candidate[l]
      <4>1. (t - 1) * GroupSize + c = Len(old.records) + 1
        BY SMTT(30), <3>3, <2>1, <2>2, <1>4, Positions DEF before
      <4>2. QED
        BY <4>1, <3>2, <3>3, <1>5
    <3>4. CASE ~(t = task[l] /\ c = candidate[l])
      <4>1. c <= ScoredOf(l, t)
        BY <3>1, <3>4, <1>4, Positions
      <4>2. (t - 1) * GroupSize + c \in 1 .. Len(old.records)
        <5>1. CASE t = task[l]
          <6>1. (t - 1) * GroupSize = before
            BY <5>1 DEF before
          <6>2. c \in Nat \ {0} /\ c <= ScoredBy(l) /\ ScoredBy(l) \in Nat
            BY <5>1, <4>1, <1>4, Positions
          <6>3. QED
            BY <6>1, <6>2, <2>1, <2>2
        <5>2. CASE t # task[l]
          <6>1. t < task[l]
            <7>1. ScoredOf(l, t) # 0
              BY <4>1, Positions
            <7>2. QED
              BY <7>1, <5>2, <1>4 DEF ScoredOf
          <6>2. (t - 1) * GroupSize + c \in 1 .. before
            BY <6>1, EarlierRecords, Positions DEF before
          <6>3. QED
            BY <6>2, <2>1, <2>2, Positions
        <5>3. QED
          BY <5>1, <5>2
      <4>3. old.records[(t - 1) * GroupSize + c] = Mine(l, t, c)
        BY <4>1, <1>old DEF Accounted, Recorded
      <4>4. QED
        BY <4>2, <4>3, <3>2
    <3>5. QED
      BY <3>3, <3>4
  <2>6. QED
    BY <2>3, <2>4, <2>5, <1>2, <1>4, <1>new DEF Recorded, before
<1>15. Excluded(l)'
  <2>1. ASSUME NEW i \in DOMAIN old.exclusions, NEW id, id = old.exclusions[i]
        PROVE  /\ id.launch = l /\ id.candidate <= ScoredOf(l, id.task)'
               /\ [id |-> id, trajectory |-> "traced"] \notin disk.trajectories
    <3>1. /\ id.launch = l /\ id.candidate <= ScoredOf(l, id.task)
          /\ [id |-> id, trajectory |-> "traced"] \notin disk.trajectories
      BY <2>1, <1>old DEF Accounted, Excluded
    <3>2. id \in Ids /\ id.candidate \in Nat
      BY <2>1, <1>9, Positions
    <3>3. id.candidate <= ScoredOf(l, id.task)'
      BY <3>1, <3>2, <1>4, Positions
    <3>4. QED
      BY <3>1, <3>3
  <2>2. id0.launch = l /\ id0.candidate <= ScoredOf(l, id0.task)'
    BY <1>4, <1>5, Positions DEF Mine
  <2>3. rollout[l].trajectory # "traced" =>
           [id |-> id0, trajectory |-> "traced"] \notin disk.trajectories
    <3>1. SUFFICES ASSUME rollout[l].trajectory # "traced",
                          NEW x \in disk.trajectories, x = [id |-> id0, trajectory |-> "traced"]
                   PROVE  FALSE
      OBVIOUS
    <3>2. PICK y \in disk.trajectories : y = [id |-> id0, trajectory |-> rollout[l].trajectory]
      BY <1>10
    <3>3. x.id = y.id /\ x.trajectory # y.trajectory
      BY <3>1, <3>2
    <3>4. QED
      BY <3>3 DEF Accounted, Trailed
  <2>4. ASSUME NEW i \in DOMAIN new.exclusions
        PROVE  /\ new.exclusions[i].launch = l
               /\ new.exclusions[i].candidate <= ScoredOf(l, new.exclusions[i].task)'
               /\ [id |-> new.exclusions[i], trajectory |-> "traced"] \notin disk.trajectories
    <3>1. CASE Eligible(rollout[l]) /\ rollout[l].trajectory # "traced"
      <4>1. /\ DOMAIN new.exclusions = 1 .. Len(old.exclusions) + 1
            /\ \A j \in 1 .. Len(old.exclusions) : new.exclusions[j] = old.exclusions[j]
            /\ new.exclusions[Len(old.exclusions) + 1] = id0
            /\ DOMAIN old.exclusions = 1 .. Len(old.exclusions) /\ Len(old.exclusions) \in Nat
        BY <3>1, <1>5, <1>8, <1>9, AppendFacts
      <4>2. CASE i \in DOMAIN old.exclusions
        BY <4>1, <4>2, <2>1
      <4>3. CASE i = Len(old.exclusions) + 1
        BY <4>1, <4>3, <2>2, <2>3, <3>1
      <4>4. QED
        BY <4>1, <4>2, <4>3
    <3>2. CASE ~(Eligible(rollout[l]) /\ rollout[l].trajectory # "traced")
      BY <3>2, <1>8, <2>1
    <3>3. QED
      BY <3>1, <3>2
  <2>5. QED
    BY <2>4, <1>2, <1>new DEF Excluded
<1>16. Balanced(l)'
  <2>1. /\ \A t : IsFiniteSet(Ineligible(t)) /\ Cardinality(Ineligible(t)) \in Nat
        /\ \A t : IsFiniteSet(Of(t, old.exclusions)) /\ Cardinality(Of(t, old.exclusions)) \in Nat
    <3>1. \A t : Ineligible(t) \subseteq disk.rewards
      BY  DEF Ineligible
    <3>2. IsFiniteSet(disk.rewards)
      BY  DEF Accounted, Rewarded
    <3>3. \A t : IsFiniteSet(Ineligible(t)) /\ Cardinality(Ineligible(t)) \in Nat
      BY <3>1, <3>2, FS_Subset, FS_CardinalityType
    <3>4. QED
      BY <3>3, <1>9, OfFinite
  <2>2. \A t : t # task[l] => Missing(l, t)' = Missing(l, t)
    <3>1. SUFFICES ASSUME NEW t, t # task[l] PROVE Missing(l, t)' = Missing(l, t)
      OBVIOUS
    <3>2. Ineligible(t)' = Ineligible(t)
      BY <3>1, <1>2, <1>5 DEF Ineligible
    <3>3. Of(t, new.exclusions) = Of(t, old.exclusions)
      BY <3>1, <1>5, <1>8, <1>9, OfAppend
    <3>4. QED
      BY <3>2, <3>3, <1>new, <1>old DEF Missing
  <2>3. Len(new.episodes) + Missing(l, task[l])' = ScoredBy(l)'
    <3>1. /\ Len(old.episodes) + Missing(l, task[l]) = ScoredBy(l)
          /\ Missing(l, task[l]) =
               Cardinality(Of(task[l], old.exclusions)) + Cardinality(Ineligible(task[l]))
          /\ Len(old.episodes) \in Nat
      BY <1>4, <1>9, <1>old DEF Accounted, Balanced, Missing
    <3>2. Missing(l, task[l])' =
            Cardinality(Of(task[l], new.exclusions)) + Cardinality(Ineligible(task[l])')
      BY <1>2, <1>new DEF Missing
    <3>3. Eligible(rollout[l]) => Ineligible(task[l])' = Ineligible(task[l])
      BY <1>2, <1>r DEF Ineligible
    <3>4. ~Eligible(rollout[l]) =>
             Cardinality(Ineligible(task[l])') = Cardinality(Ineligible(task[l])) + 1
      <4>1. SUFFICES ASSUME ~Eligible(rollout[l])
                     PROVE  Cardinality(Ineligible(task[l])') = Cardinality(Ineligible(task[l])) + 1
        OBVIOUS
      <4>2. r0.id.task = task[l] /\ ~r0.eligible
        BY <4>1, <1>5, <1>r
      <4>3. Ineligible(task[l])' = Ineligible(task[l]) \union {r0}
        BY <4>2, <1>2 DEF Ineligible
      <4>4. r0 \notin Ineligible(task[l])
        BY <1>5, <1>7 DEF Ineligible
      <4>5. QED
        BY <4>3, <4>4, <2>1, FS_AddElement
    <3>5. CASE ~Eligible(rollout[l])
      <4>1. new.episodes = old.episodes /\ new.exclusions = old.exclusions
        BY <3>5, <1>8
      <4>2. QED
        BY <4>1, <3>1, <3>2, <3>4, <3>5, <2>1, <1>4, Positions
    <3>6. CASE Eligible(rollout[l]) /\ rollout[l].trajectory = "traced"
      <4>1. Len(new.episodes) = Len(old.episodes) + 1 /\ new.exclusions = old.exclusions
        BY <3>6, <1>5, <1>8, <1>9, AppendFacts
      <4>2. Missing(l, task[l])' = Missing(l, task[l])
        BY <4>1, <3>1, <3>2, <3>3, <3>6
      <4>3. Missing(l, task[l]) \in Nat /\ ScoredBy(l)' = ScoredBy(l) + 1 /\ ScoredBy(l) \in Nat
        BY <3>1, <2>1, <1>4, Positions
      <4>4. QED
        BY <4>1, <4>2, <4>3, <3>1
    <3>7. CASE Eligible(rollout[l]) /\ rollout[l].trajectory # "traced"
      <4>1. /\ new.episodes = old.episodes
            /\ Cardinality(Of(task[l], new.exclusions)) = Cardinality(Of(task[l], old.exclusions)) + 1
        BY <3>7, <1>5, <1>8, <1>9, OfAppend
      <4>2. QED
        BY <4>1, <3>1, <3>2, <3>3, <3>7, <2>1, <1>4, Positions
    <3>8. QED
      BY <3>5, <3>6, <3>7
  <2>4. \A i \in DOMAIN new.dropped : Settled(l, new.dropped[i].task)'
    BY <1>4, <1>8, <1>old DEF Accounted, Balanced
  <2>5. ~Settled(l, task[l])
    BY <1>4, Positions DEF Settled
  <2>6. GroupSize >= 2 => \A t \in Tasks : Settled(l, t)' =>
          IF HasGroup(new.groups, t)
          THEN Of(t, new.dropped) = {} /\ Missing(l, t)' = 0
          ELSE /\ Missing(l, t)' > 0
               /\ \E d \in Of(t, new.dropped) :
                     /\ Of(t, new.dropped) = {d}
                     /\ new.dropped[d].trainable = GroupSize - Missing(l, t)'
    BY <2>2, <2>5, <1>4, <1>8, <1>old DEF Accounted, Balanced
  <2>7. QED
    BY <2>3, <2>4, <2>6, <1>2, <1>new DEF Balanced, HasGroup, Of
<1>17. Written(l)'
  <2>1. ~Complete(disk.groups)
    BY <1>2 DEF Accounted, Written
  <2>2. QED
    BY <2>1, <1>2, <1>3 DEF Written, Complete
<1>18. QED
  BY <1>12, <1>13, <1>14, <1>15, <1>16, <1>17 DEF Accounted

(* Settling a task closes its account: a group has all its candidates, and   *)
(* otherwise it is dropped with the number of its episodes.                  *)
LEMMA SettleKeeps ==
    ASSUME TypeOK, NEW l \in Launches, LaunchSound(l), Accounted(l), CloseGroup(l)
    PROVE  Accounted(l)'
<1>1. disk \in Directories /\ memory[l] \in Accounts /\ task[l] \in Tasks
  BY DEF TypeOK
<1>old. PICK old : old = memory[l]
  OBVIOUS
<1>new. PICK new : new = memory'[l]
  OBVIOUS
<1>2. /\ pc[l] = "group" /\ candidate'[l] = candidate[l] /\ disk' = disk
      /\ new = SettleGroup(old, task[l])
      /\ IF task[l] < TaskCount
         THEN task'[l] = task[l] + 1 /\ pc'[l] = "run"
         ELSE task'[l] = task[l] /\ pc'[l] = "evaluation"
  BY <1>1, <1>old, <1>new DEF CloseGroup, Goto, TypeOK
<1>3. candidate[l] = 1 /\ ScoredBy(l) = GroupSize /\ ScoredBy(l)' = 0 /\ pc[l] \notin Finishing
  <2>1. candidate[l] = 1
    BY <1>2 DEF Accounted, Recorded
  <2>2. QED
    BY <2>1, <1>2 DEF ScoredBy, Finishing
<1>4. pc'[l] \in Finishing <=> ~(task[l] < TaskCount)
  BY <1>2 DEF Finishing
<1>5. /\ \A t \in Tasks : ScoredOf(l, t)' = ScoredOf(l, t)
      /\ \A t \in Tasks : Settled(l, t)' <=> Settled(l, t) \/ t = task[l]
      /\ ~Settled(l, task[l])
  BY <1>2, <1>3, <1>4, Positions DEF ScoredOf, Settled
<1>6. /\ new.episodes = <<>>
      /\ new.records = old.records /\ new.exclusions = old.exclusions
      /\ new.groups = IF Trainable(old.episodes)
                      THEN Append(old.groups, old.episodes) ELSE old.groups
      /\ new.dropped = IF ~Trainable(old.episodes) /\ GroupSize >= 2
                       THEN Append(old.dropped, [task |-> task[l], trainable |-> Len(old.episodes)])
                       ELSE old.dropped
  BY <1>1, <1>2, <1>old, SettleBooks
<1>7. /\ old.exclusions \in Seq(Ids) /\ old.dropped \in Seq(DroppedGroups)
      /\ old.groups \in Seq(Seq(Ids)) /\ old.episodes \in Seq(Ids)
      /\ Len(old.episodes) \in Nat /\ Len(old.episodes) <= GroupSize
  BY <1>1, <1>old DEF Accounts, TypeOK
<1>8. /\ \A r \in disk.rewards : r.id.task \in Tasks
      /\ \A x \in disk.trajectories : x.id.task \in Tasks
  BY FileIds, Positions
<1>9. Rewarded(l)'
  <2>1. \A r \in disk.rewards : r.id.candidate <= ScoredOf(l, r.id.task)'
    BY <1>5, <1>8 DEF Accounted, Rewarded
  <2>2. \A t \in Tasks, c \in Candidates :
          c <= ScoredOf(l, t)' => \E r \in disk.rewards : r.id = Mine(l, t, c)
    BY <1>5 DEF Accounted, Rewarded
  <2>3. QED
    BY <2>1, <2>2, <1>2 DEF Accounted, Rewarded
<1>10. Trailed(l)'
  <2>1. \A x \in disk.trajectories : x.id.candidate <= ScoredOf(l, x.id.task)'
    BY <1>2, <1>5, <1>8 DEF Accounted, Trailed
  <2>2. QED
    BY <2>1, <1>2 DEF Accounted, Trailed
<1>11. Recorded(l)'
  <2>1. \A t \in Tasks, c \in Candidates :
          c <= ScoredOf(l, t)' => new.records[(t - 1) * GroupSize + c] = Mine(l, t, c)
    BY <1>5, <1>6, <1>old DEF Accounted, Recorded
  <2>2. Len(old.records) = (task[l] - 1) * GroupSize + GroupSize
    BY <1>3, <1>old DEF Accounted, Recorded
  <2>3. (task[l] - 1) * GroupSize + GroupSize = task[l] * GroupSize
    <3>1. task[l] \in Nat /\ GroupSize \in Nat
      BY Positions
    <3>2. \A a, g \in Nat : (a - 1) * g + g = a * g
      OBVIOUS
    <3>3. QED
      BY <3>1, <3>2
  <2>4. IF task[l] < TaskCount
        THEN (task'[l] - 1) * GroupSize + 0 = task[l] * GroupSize
        ELSE task[l] = TaskCount
    <3>1. \A a, g \in Nat : ((a + 1) - 1) * g + 0 = a * g
      OBVIOUS
    <3>2. QED
      BY <3>1, <1>2, Positions
  <2>5. Len(new.records) = IF pc'[l] \in Finishing THEN TaskCount * GroupSize
                           ELSE (task'[l] - 1) * GroupSize + ScoredBy(l)'
    BY <2>2, <2>3, <2>4, <1>3, <1>4, <1>6
  <2>6. QED
    BY <2>1, <2>5, <1>2, <1>new DEF Recorded
<1>12. Excluded(l)'
  <2>1. \A i \in DOMAIN old.exclusions : old.exclusions[i].task \in Tasks
    BY <1>7, Positions
  <2>2. ASSUME NEW i \in DOMAIN old.exclusions, NEW id, id = old.exclusions[i]
        PROVE  /\ id.launch = l /\ id.candidate <= ScoredOf(l, id.task)'
               /\ [id |-> id, trajectory |-> "traced"] \notin disk.trajectories
    <3>1. /\ id.launch = l /\ id.candidate <= ScoredOf(l, id.task)
          /\ [id |-> id, trajectory |-> "traced"] \notin disk.trajectories
      BY <2>2, <1>old DEF Accounted, Excluded
    <3>2. QED
      BY <2>1, <2>2, <3>1, <1>5
  <2>3. QED
    BY <2>2, <1>2, <1>6, <1>new DEF Excluded
<1>13. Balanced(l)'
  <2>1. \A t : Missing(l, t)' = Missing(l, t)
    BY <1>2, <1>6, <1>old, <1>new DEF Missing, Ineligible
  <2>0. pc'[l] \notin Finishing => Len(new.episodes) + Missing(l, task[l])' = ScoredBy(l)'
    <3>1. SUFFICES ASSUME pc'[l] \notin Finishing
                   PROVE  Len(new.episodes) = 0 /\ Missing(l, task[l])' = 0
      BY <1>3
    <3>2. task'[l] = task[l] + 1 /\ task'[l] # task[l] /\ ~(task'[l] < task[l])
      BY <3>1, <1>2, <1>4, Positions
    <3>3. ScoredOf(l, task'[l]) = 0
      BY <3>2, <1>3 DEF ScoredOf
    <3>4. \A r \in disk.rewards : r.id.task # task'[l]
      <4>1. \A r \in disk.rewards : r.id.candidate \in Nat \ {0}
        BY FileIds, Positions
      <4>2. \A r \in disk.rewards : r.id.candidate <= ScoredOf(l, r.id.task)
        BY DEF Accounted, Rewarded
      <4>3. QED
        BY <3>3, <4>1, <4>2
    <3>5. \A i \in DOMAIN old.exclusions : old.exclusions[i].task # task'[l]
      <4>1. \A i \in DOMAIN old.exclusions : old.exclusions[i].candidate \in Nat \ {0}
        BY <1>7, Positions
      <4>2. \A i \in DOMAIN old.exclusions :
               old.exclusions[i].candidate <= ScoredOf(l, old.exclusions[i].task)
        BY <1>old DEF Accounted, Excluded
      <4>3. QED
        BY <3>3, <4>1, <4>2
    <3>6. Ineligible(task[l])' = {} /\ Of(task'[l], new.exclusions) = {}
      BY <3>4, <3>5, <1>2, <1>6 DEF Ineligible, Of
    <3>7. Missing(l, task[l])' = Cardinality({}) + Cardinality({})
      BY <3>6, <1>new DEF Missing
    <3>8. new.episodes = <<>>
      BY <1>6
    <3>9. QED
      BY <3>7, <3>8, FS_EmptySet
  <2>2. /\ Len(old.episodes) + Missing(l, task[l]) = GroupSize
        /\ Missing(l, task[l]) \in Nat
    <3>1. IsFiniteSet(Ineligible(task[l]))
      <4>1. Ineligible(task[l]) \subseteq disk.rewards /\ IsFiniteSet(disk.rewards)
        BY DEF Accounted, Rewarded, Ineligible
      <4>2. QED
        BY <4>1, FS_Subset
    <3>2. Missing(l, task[l]) \in Nat
      BY <3>1, <1>7, <1>old, OfFinite, FS_CardinalityType DEF Missing
    <3>3. QED
      BY <3>2, <1>3, <1>old DEF Accounted, Balanced
  <2>3. Of(task[l], old.dropped) = {}
    BY <1>5, <1>old DEF Accounted, Balanced, Of
  <2>4. /\ \A i \in DOMAIN old.groups : old.groups[i][1].task < task[l]
        /\ \A i \in DOMAIN old.episodes : old.episodes[i].task = task[l]
    BY <1>3, <1>old DEF LaunchSound, GroupsSound, EpisodesSound
  <2>5. ~HasGroup(old.groups, task[l])
    BY <2>4, Positions DEF HasGroup
  <2>6. \A i \in DOMAIN old.dropped : Settled(l, old.dropped[i].task)
    BY <1>old DEF Accounted, Balanced
  <2>7. \A i \in DOMAIN old.dropped : old.dropped[i].task \in Tasks
    <3>1. \A i \in DOMAIN old.dropped : old.dropped[i] \in DroppedGroups
      BY <1>7
    <3>2. \A e \in DroppedGroups : e.task \in Tasks
      BY DEF DroppedGroups
    <3>3. QED
      BY <3>1, <3>2
  <2>8. ASSUME NEW t \in Tasks, Settled(l, t), GroupSize >= 2
        PROVE  IF HasGroup(old.groups, t)
               THEN Of(t, old.dropped) = {} /\ Missing(l, t) = 0
               ELSE /\ Missing(l, t) > 0
                    /\ \E d \in Of(t, old.dropped) :
                          /\ Of(t, old.dropped) = {d}
                          /\ old.dropped[d].trainable = GroupSize - Missing(l, t)
    BY <2>8, <1>old DEF Accounted, Balanced
  <2>9. CASE Trainable(old.episodes)
    <3>1. /\ DOMAIN new.groups = 1 .. Len(old.groups) + 1
          /\ \A i \in 1 .. Len(old.groups) : new.groups[i] = old.groups[i]
          /\ new.groups[Len(old.groups) + 1] = old.episodes
          /\ DOMAIN old.groups = 1 .. Len(old.groups) /\ Len(old.groups) \in Nat
      BY <2>9, <1>6, <1>7, AppendFacts
    <3>2. 1 \in DOMAIN old.episodes /\ old.episodes[1].task = task[l]
      BY <2>4, <2>9, <1>7 DEF Trainable
    <3>3. /\ HasGroup(new.groups, task[l])
          /\ \A t : t # task[l] => (HasGroup(new.groups, t) <=> HasGroup(old.groups, t))
      <4>1. new.groups[Len(old.groups) + 1][1].task = task[l]
        BY <3>1, <3>2
      <4>2. Len(old.groups) + 1 \in DOMAIN new.groups
        BY <3>1
      <4>3. \A i \in DOMAIN new.groups :
               i \in DOMAIN old.groups \/ i = Len(old.groups) + 1
        BY <3>1
      <4>4. \A i \in DOMAIN old.groups :
               i \in DOMAIN new.groups /\ new.groups[i] = old.groups[i]
        BY <3>1
      <4>5. QED
        BY <4>1, <4>2, <4>3, <4>4 DEF HasGroup
    <3>4. new.dropped = old.dropped
      BY <2>9, <1>6
    <3>5. Missing(l, task[l]) = 0
      BY <2>2, <2>9, <1>7 DEF Trainable
    <3>6. \A i \in DOMAIN new.dropped : Settled(l, new.dropped[i].task)'
      BY <3>4, <2>6, <2>7, <1>5
    <3>7. ASSUME NEW t \in Tasks, Settled(l, t)', GroupSize >= 2
          PROVE  IF HasGroup(new.groups, t)
                 THEN Of(t, new.dropped) = {} /\ Missing(l, t) = 0
                 ELSE /\ Missing(l, t) > 0
                      /\ \E d \in Of(t, new.dropped) :
                            /\ Of(t, new.dropped) = {d}
                            /\ new.dropped[d].trainable = GroupSize - Missing(l, t)
      <4>1. CASE t = task[l]
        BY <4>1, <3>3, <3>4, <3>5, <2>3
      <4>2. CASE t # task[l]
        BY <4>2, <3>3, <3>4, <3>7, <2>8, <1>5
      <4>3. QED
        BY <4>1, <4>2
    <3>8. QED
      BY <3>6, <3>7, <2>0, <2>1, <1>new DEF Balanced, HasGroup, Of
  <2>10. CASE ~Trainable(old.episodes)
    <3> DEFINE entry == [task |-> task[l], trainable |-> Len(old.episodes)]
    <3>q. PICK e : e = entry
      OBVIOUS
    <3>1. e.task = task[l] /\ e.trainable = Len(old.episodes) /\ e \in DroppedGroups
      BY <3>q, <1>1, <1>7 DEF DroppedGroups
    <3>2. new.dropped = IF GroupSize >= 2 THEN Append(old.dropped, e) ELSE old.dropped
      BY <3>q, <2>10, <1>6
    <3>3. new.groups = old.groups
      BY <2>10, <1>6
    <3>4. GroupSize >= 2 => Missing(l, task[l]) > 0
      BY <2>2, <2>10, <1>7, Positions DEF Trainable
    <3>a. /\ DOMAIN Append(old.dropped, e) = 1 .. Len(old.dropped) + 1
          /\ \A i \in 1 .. Len(old.dropped) : Append(old.dropped, e)[i] = old.dropped[i]
          /\ Append(old.dropped, e)[Len(old.dropped) + 1] = e
          /\ DOMAIN old.dropped = 1 .. Len(old.dropped) /\ Len(old.dropped) \in Nat
      BY <3>1, <1>7, AppendFacts
    <3>5. ASSUME NEW i \in DOMAIN new.dropped PROVE Settled(l, new.dropped[i].task)'
      <4>1. CASE i \in DOMAIN old.dropped
        <5>1. new.dropped[i] = old.dropped[i]
          BY <4>1, <3>2, <3>a
        <5>2. QED
          BY <4>1, <5>1, <2>6, <2>7, <1>5
      <4>2. CASE i \notin DOMAIN old.dropped
        <5>1. new.dropped[i] = e
          BY <4>2, <3>2, <3>5, <3>a
        <5>2. QED
          BY <5>1, <3>1, <1>1, <1>5
      <4>3. QED
        BY <4>1, <4>2
    <3>6. ASSUME NEW t \in Tasks, Settled(l, t)', GroupSize >= 2
          PROVE  IF HasGroup(new.groups, t)
                 THEN Of(t, new.dropped) = {} /\ Missing(l, t) = 0
                 ELSE /\ Missing(l, t) > 0
                      /\ \E d \in Of(t, new.dropped) :
                            /\ Of(t, new.dropped) = {d}
                            /\ new.dropped[d].trainable = GroupSize - Missing(l, t)
      <4>0. new.dropped = Append(old.dropped, e)
        BY <3>2, <3>6
      <4>1. CASE t = task[l]
        <5>1. Of(t, new.dropped) = {Len(old.dropped) + 1}
          <6>1. \A i \in DOMAIN old.dropped : old.dropped[i].task # t
            BY <4>1, <2>3 DEF Of
          <6>2. e.task = t
            BY <4>1, <3>1
          <6>3. QED
            BY <4>0, <6>1, <6>2, <3>a DEF Of
        <5>2. new.dropped[Len(old.dropped) + 1].trainable = GroupSize - Missing(l, t)
          BY <4>0, <4>1, <3>1, <3>a, <2>2, <1>7, Positions
        <5>3. ~HasGroup(new.groups, t) /\ Missing(l, t) > 0
          BY <4>1, <3>3, <3>4, <3>6, <2>5
        <5>4. QED
          BY <5>1, <5>2, <5>3
      <4>2. CASE t # task[l]
        <5>1. Of(t, new.dropped) = Of(t, old.dropped)
          BY <4>0, <4>2, <3>1, <1>7, OfAppend
        <5>2. \A d \in Of(t, old.dropped) : new.dropped[d] = old.dropped[d]
          BY <4>0, <3>a DEF Of
        <5>3. Settled(l, t)
          BY <4>2, <3>6, <1>5
        <5>4. QED
          BY <5>1, <5>2, <5>3, <3>3, <3>6, <2>8
      <4>3. QED
        BY <4>1, <4>2
    <3>7. QED
      BY <3>5, <3>6, <2>0, <2>1, <1>new DEF Balanced, HasGroup, Of
  <2>11. QED
    BY <2>9, <2>10
<1>14. Written(l)'
  <2>1. ~Complete(disk.groups)
    BY <1>2 DEF Accounted, Written
  <2>2. QED
    BY <2>1, <1>2 DEF Written, Complete
<1>15. QED
  BY <1>9, <1>10, <1>11, <1>12, <1>13, <1>14 DEF Accounted

(* A run that begins has scored nothing, and its directory holds nothing.    *)
LEMMA OpenKeeps ==
    ASSUME TypeOK, OneRun, NEW l \in Launches, Fresh(l), OpenRun(l)
    PROVE  Accounted(l)'
<1>1. disk = EmptyDirectory /\ pc[l] = "policy"
  BY DEF OpenRun, OneRun
<1>2. disk' = [EmptyDirectory EXCEPT !.partial = TRUE]
  BY <1>1 DEF OpenRun
<1>3. /\ disk'.rewards = {} /\ disk'.trajectories = {} /\ disk'.groups = NoFile
  BY <1>2 DEF EmptyDirectory
<1>4. /\ pc'[l] = "run" /\ task'[l] = 1 /\ candidate'[l] = 1 /\ memory'[l] = NoAccounts
  BY DEF OpenRun, Goto, TypeOK, Fresh
<1>5. /\ NoAccounts.records = <<>> /\ NoAccounts.episodes = <<>> /\ NoAccounts.groups = <<>>
      /\ NoAccounts.dropped = <<>> /\ NoAccounts.exclusions = <<>>
  BY DEF NoAccounts
<1>6. /\ ScoredBy(l)' = 0
      /\ \A t \in Tasks : ScoredOf(l, t)' = 0 /\ ~Settled(l, t)'
  BY <1>4, Positions DEF ScoredBy, ScoredOf, Settled, Finishing
<1>7. Rewarded(l)'
  BY <1>3, <1>6, FS_EmptySet, Positions DEF Rewarded
<1>8. Trailed(l)'
  BY <1>3 DEF Trailed
<1>9. Recorded(l)'
  <2>1. pc'[l] \notin Finishing /\ pc'[l] # "group"
    BY <1>4 DEF Finishing
  <2>2. (task'[l] - 1) * GroupSize + ScoredBy(l)' = 0
    BY <1>4, <1>6, Positions
  <2>3. memory'[l].records = <<>> /\ Len(memory'[l].records) = 0
    BY <1>4, <1>5
  <2>4. \A t \in Tasks, c \in Candidates : ~(c <= ScoredOf(l, t)')
    BY <1>6, Positions
  <2>5. QED
    BY <2>1, <2>2, <2>3, <2>4 DEF Recorded
<1>10. Excluded(l)'
  BY <1>4, <1>5 DEF Excluded
<1>11. Balanced(l)'
  <2>1. Ineligible(task[l])' = {} /\ Of(task'[l], memory'[l].exclusions) = {}
    BY <1>3, <1>4, <1>5 DEF Ineligible, Of
  <2>2. Missing(l, task[l])' = Cardinality({}) + Cardinality({})
    BY <2>1 DEF Missing
  <2>3. Len(memory'[l].episodes) + Missing(l, task[l])' = ScoredBy(l)'
    BY <2>2, <1>4, <1>5, <1>6, FS_EmptySet
  <2>4. memory'[l].dropped = <<>>
    BY <1>4, <1>5
  <2>5. QED
    BY <2>3, <2>4, <1>6 DEF Balanced
<1>12. Written(l)'
  BY <1>3, <1>4 DEF Written, Complete, NoFile
<1>13. QED
  BY <1>7, <1>8, <1>9, <1>10, <1>11, <1>12 DEF Accounted

(* The manifest completes a run whose accounts add up.                       *)
LEMMA ManifestIsTrue ==
    ASSUME TypeOK, NEW l \in Launches, Accounted(l), WriteManifest(l)
    PROVE  CompletedRunIsTrue'
<1>1. disk \in Directories /\ pc[l] = "manifest_write" /\ pc[l] \in Finishing
  BY DEF TypeOK, WriteManifest, Finishing
<1>old. PICK old : old = memory[l]
  OBVIOUS
<1>2. /\ disk'.rewards = disk.rewards /\ disk'.trajectories = disk.trajectories
      /\ disk'.groups = disk.groups /\ disk'.evaluation = disk.evaluation
      /\ disk'.manifest = File(Manifest(old))
  BY <1>1, <1>old DEF WriteManifest, Directories
<1>3. disk.evaluation = File(old.records) /\ Groups = old.groups
  BY <1>1, <1>old DEF Accounted, Written
<1>4. Groups' = old.groups
  BY <1>2, <1>3 DEF Groups, Complete
<1>5. /\ disk'.manifest.content.trajectories = Len(old.records)
      /\ disk'.manifest.content.groups = Len(old.groups)
      /\ disk'.manifest.content.dropped = old.dropped
      /\ disk'.manifest.content.exclusions = old.exclusions
  BY <1>2 DEF File, Manifest
<1>6. /\ Complete(disk'.evaluation) /\ disk'.evaluation.content = old.records
  BY <1>2, <1>3 DEF Complete, File
<1>7. \A t : ScoredOf(l, t) = GroupSize /\ Settled(l, t)
  BY <1>1 DEF ScoredOf, Settled
<1>8. CompletedRunIsComplete'
  <2>1. Len(old.records) = TaskCount * GroupSize
    BY <1>1, <1>old DEF Accounted, Recorded
  <2>2. ASSUME NEW t \in Tasks, NEW c \in Candidates, NEW id,
               id = old.records[(t - 1) * GroupSize + c]
        PROVE  /\ id.task = t /\ id.candidate = c
               /\ \E stored \in disk.trajectories : stored.id = id
               /\ \E reward \in disk.rewards : reward.id = id
    <3>1. c <= ScoredOf(l, t)
      BY <1>7, Positions
    <3>2. id = Mine(l, t, c)
      BY <2>2, <3>1, <1>old DEF Accounted, Recorded
    <3>3. PICK reward \in disk.rewards : reward.id = id
      BY <3>1, <3>2 DEF Accounted, Rewarded
    <3>4. \E stored \in disk.trajectories : stored.id = id
      BY <3>3 DEF Accounted, Trailed
    <3>5. QED
      BY <3>2, <3>3, <3>4 DEF Mine
  <2>3. QED
    BY <2>1, <2>2, <1>2, <1>4, <1>5, <1>6 DEF CompletedRunIsComplete
<1>9. AccountsAddUp'
  <2>1. ASSUME GroupSize >= 2, NEW t \in Tasks,
               NEW missing, missing = Cardinality(Of(t, old.exclusions)) + Cardinality(Ineligible(t))
        PROVE  IF \E i \in DOMAIN old.groups : old.groups[i][1].task = t
               THEN Of(t, old.dropped) = {} /\ missing = 0
               ELSE \E d \in Of(t, old.dropped) :
                       /\ Of(t, old.dropped) = {d}
                       /\ old.dropped[d].trainable = GroupSize - missing
    <3>1. missing = Missing(l, t) /\ Settled(l, t)
      BY <2>1, <1>7, <1>old DEF Missing
    <3>2. IF HasGroup(old.groups, t)
          THEN Of(t, old.dropped) = {} /\ Missing(l, t) = 0
          ELSE \E d \in Of(t, old.dropped) :
                  /\ Of(t, old.dropped) = {d}
                  /\ old.dropped[d].trainable = GroupSize - Missing(l, t)
      BY <2>1, <3>1, <1>old DEF Accounted, Balanced
    <3>3. QED
      BY <3>1, <3>2 DEF HasGroup
  <2>2. \A t : Ineligible(t)' = Ineligible(t)
    BY <1>2 DEF Ineligible
  <2>3. \A t : Of(t, disk'.manifest.content.dropped) = Of(t, old.dropped)
    BY <1>5
  <2>4. \A t : Of(t, disk'.manifest.content.exclusions) = Of(t, old.exclusions)
    BY <1>5
  <2>5. SUFFICES ASSUME GroupSize >= 2, NEW t \in Tasks
                 PROVE  LET dropped == Of(t, disk'.manifest.content.dropped)
                            missing == Cardinality(Of(t, disk'.manifest.content.exclusions))
                                       + Cardinality(Ineligible(t)')
                        IN  IF \E i \in DOMAIN Groups' : Groups'[i][1].task = t
                            THEN dropped = {} /\ missing = 0
                            ELSE \E d \in dropped :
                                    /\ dropped = {d}
                                    /\ disk'.manifest.content.dropped[d].trainable
                                         = GroupSize - missing
    BY DEF AccountsAddUp, Of
  <2>6. QED
    BY <2>1, <2>2, <2>3, <2>4, <2>5, <1>4, <1>5
<1>10. QED
  BY <1>8, <1>9 DEF CompletedRunIsTrue

(* What is said of a completed run stays when only its mark is removed.      *)
LEMMA CompletedStays ==
    ASSUME TypeOK, CompletedRunIsTrue,
           disk'.rewards = disk.rewards, disk'.trajectories = disk.trajectories,
           disk'.groups = disk.groups, disk'.evaluation = disk.evaluation,
           disk'.manifest = disk.manifest
    PROVE  CompletedRunIsTrue'
<1>1. Groups' = Groups /\ \A t : Ineligible(t)' = Ineligible(t)
  BY DEF Groups, Complete, Ineligible
<1>2. CompletedRunIsComplete'
  BY <1>1 DEF CompletedRunIsTrue, CompletedRunIsComplete, Complete
<1>3. AccountsAddUp'
  <2>1. \A t, entries : Of(t, entries)' = Of(t, entries)
    BY DEF Of
  <2>2. QED
    BY <1>1, <2>1 DEF CompletedRunIsTrue, AccountsAddUp, Complete
<1>4. QED
  BY <1>2, <1>3 DEF CompletedRunIsTrue

LEMMA AccountsInit == Init => AccountsInv
<1> SUFFICES ASSUME Init PROVE AccountsInv
  OBVIOUS
<1>1. \A l \in Launches : pc[l] = "idle" /\ Fresh(l)
  BY DEF Init, Fresh
<1>2. ~Complete(disk.manifest) /\ ~Complete(disk.groups) /\ job = NoFile
  BY DEF Init, EmptyDirectory, Complete, NoFile
<1>3. CompletedRunIsTrue
  BY <1>2 DEF CompletedRunIsTrue, CompletedRunIsComplete, AccountsAddUp
<1>4. QED
  BY <1>1, <1>2, <1>3 DEF AccountsInv, Working

(* The steps of the launch that works on the directory.                      *)
LEMMA WorkingSteps ==
    ASSUME TypeOK, OneRun, AccountsInv, NEW l \in Launches, LaunchSound(l), LaunchStep(l)
    PROVE  /\ pc'[l] \in {"idle", "policy"} => Fresh(l)'
           /\ pc'[l] \in Working \ {"policy", "close"} => Accounted(l)'
<1>1. CASE Launch(l)
  <2>1. /\ pc[l] = "idle" /\ pc'[l] \in {"policy", "stopped"}
        /\ task'[l] = task[l] /\ candidate'[l] = candidate[l] /\ memory'[l] = memory[l]
    BY <1>1 DEF Launch, Goto, TypeOK
  <2>2. Fresh(l)
    BY <2>1 DEF AccountsInv
  <2>3. QED
    BY <2>1, <2>2 DEF Fresh, Working
<1>2. CASE OpenRun(l)
  <2>1. pc[l] = "policy" /\ pc'[l] = "run"
    BY <1>2 DEF OpenRun, Goto, TypeOK
  <2>2. Fresh(l)
    BY <2>1 DEF AccountsInv
  <2>3. QED
    BY <2>1, <2>2, <1>2, OpenKeeps
<1>3. CASE ~Launch(l) /\ ~OpenRun(l) /\ ~CloseRun(l)
  <2>1. pc[l] \in Working \ {"policy", "close"}
    BY <1>3
    DEF LaunchStep, RunAgent, StoreTrajectory, Verify, StoreEvidence, StoreVerification,
        ScoreCandidate, CloseGroup, WriteEvaluation, ReplaceEvaluation, WriteGroups,
        ReplaceGroups, BeginManifest, WriteManifest, Working
  <2>2. Accounted(l)
    BY <2>1 DEF AccountsInv
  <2>3. pc'[l] \notin {"idle", "policy"}
    BY <2>1, OwnSteps DEF Working
  <2>4. CASE WriteManifest(l)
    <3>1. pc'[l] = "close"
      BY <2>4 DEF WriteManifest, Goto, TypeOK
    <3>2. QED
      BY <3>1
  <2>5. CASE ~WriteManifest(l)
    <3>1. StoreTrajectory(l) \/ ScoreCandidate(l) \/ CloseGroup(l) \/ Quiet(l)
      BY <1>3 DEF LaunchStep, Quiet
    <3>2. Accounted(l)'
      BY <3>1, <2>2, <2>5, <1>3, TrajectoryKeeps, ScoreKeeps, SettleKeeps, QuietKeeps
    <3>3. QED
      BY <3>2, <2>3
  <2>6. QED
    BY <2>4, <2>5
<1>4. CASE CloseRun(l)
  <2>1. pc'[l] = "done"
    BY <1>4 DEF CloseRun, Goto, TypeOK
  <2>2. QED
    BY <2>1 DEF Working
<1>5. QED
  BY <1>1, <1>2, <1>3, <1>4

(* What a step does to the files a completed run is read from.               *)
LEMMA FinalSteps ==
    ASSUME TypeOK, OneRun, AccountsInv, NEW l \in Launches, LaunchStep(l)
    PROVE  CompletedRunIsTrue' /\ (Complete(disk.groups)' => disk'.groups.content # <<>>)
<1>1. disk \in Directories
  BY DEF TypeOK
<1>2. CompletedRunIsTrue /\ (Complete(disk.groups) => disk.groups.content # <<>>)
  BY DEF AccountsInv
<1>3. CASE UNCHANGED disk
  BY <1>2, <1>3, CompletedStays DEF Complete
<1>4. CASE WriteManifest(l)
  <2>1. pc[l] \in Working \ {"policy", "close"}
    BY <1>4 DEF WriteManifest, Working
  <2>2. Accounted(l)
    BY <2>1 DEF AccountsInv
  <2>3. disk'.groups = disk.groups
    BY <1>1, <1>4 DEF WriteManifest, Directories
  <2>4. QED
    BY <2>2, <2>3, <1>2, <1>4, ManifestIsTrue DEF Complete
<1>5. CASE CloseRun(l)
  <2>1. /\ disk'.rewards = disk.rewards /\ disk'.trajectories = disk.trajectories
        /\ disk'.groups = disk.groups /\ disk'.evaluation = disk.evaluation
        /\ disk'.manifest = disk.manifest
    BY <1>1, <1>5 DEF CloseRun, Directories
  <2>2. QED
    BY <2>1, <1>2, CompletedStays DEF Complete
<1>6. CASE OpenRun(l)
  <2>1. disk = EmptyDirectory /\ disk' = [disk EXCEPT !.partial = TRUE]
    BY <1>6 DEF OpenRun, OneRun
  <2>2. ~Complete(disk'.manifest) /\ ~Complete(disk'.groups)
    BY <2>1 DEF EmptyDirectory, Complete, NoFile
  <2>3. QED
    BY <2>2 DEF CompletedRunIsTrue, CompletedRunIsComplete, AccountsAddUp, Complete
<1>7. CASE /\ ~OpenRun(l) /\ ~WriteManifest(l) /\ ~CloseRun(l) /\ ~Launch(l)
  <2>1. pc[l] \in Working \ {"policy", "close"}
    BY <1>7
    DEF LaunchStep, RunAgent, StoreTrajectory, Verify, StoreEvidence, StoreVerification,
        ScoreCandidate, CloseGroup, WriteEvaluation, ReplaceEvaluation, WriteGroups,
        ReplaceGroups, BeginManifest, Working
  <2>2. Accounted(l)
    BY <2>1 DEF AccountsInv
  <2>3. pc'[l] # "close"
    BY <1>7
    DEF LaunchStep, RunAgent, StoreTrajectory, Verify, StoreEvidence, StoreVerification,
        ScoreCandidate, CloseGroup, WriteEvaluation, ReplaceEvaluation, WriteGroups,
        ReplaceGroups, BeginManifest, Goto, TypeOK
  <2>4. ~Complete(disk'.manifest)
    <3>1. /\ IF pc[l] \in {"manifest", "manifest_write"}
             THEN Complete(disk'.manifest) <=> pc'[l] = "close"
             ELSE disk'.manifest = disk.manifest
      BY <2>1, OwnSteps
    <3>2. ~Complete(disk.manifest)
      BY <2>1 DEF OneRun
    <3>3. QED
      BY <3>1, <3>2, <2>3
  <2>5. CompletedRunIsTrue'
    BY <2>4 DEF CompletedRunIsTrue, CompletedRunIsComplete, AccountsAddUp, Complete
  <2>6. CASE ReplaceGroups(l)
    <3>1. disk'.groups = disk.groups_tmp
      BY <1>1, <2>6 DEF ReplaceGroups, Directories
    <3>2. disk.groups_tmp = File(memory[l].groups) /\ memory[l].groups # <<>>
      BY <2>2, <2>6 DEF Accounted, Written, ReplaceGroups
    <3>3. QED
      BY <3>1, <3>2, <2>5 DEF File
  <2>7. CASE ~ReplaceGroups(l)
    <3>1. disk'.groups = disk.groups
      <4>1. CASE RunAgent(l) \/ Verify(l) \/ CloseGroup(l)
        BY <4>1 DEF RunAgent, Verify, CloseGroup
      <4>2. CASE StoreTrajectory(l) \/ StoreEvidence(l) \/ StoreVerification(l)
        BY <4>2, <1>1 DEF StoreTrajectory, StoreEvidence, StoreVerification, Directories
      <4>3. CASE ScoreCandidate(l) \/ WriteEvaluation(l) \/ ReplaceEvaluation(l)
        BY <4>3, <1>1 DEF ScoreCandidate, WriteEvaluation, ReplaceEvaluation, Directories
      <4>4. CASE WriteGroups(l) \/ BeginManifest(l)
        BY <4>4, <1>1 DEF WriteGroups, BeginManifest, OpenManifest, Directories
      <4>5. QED
        BY <4>1, <4>2, <4>3, <4>4, <2>7, <1>7 DEF LaunchStep
    <3>2. QED
      BY <3>1, <2>5, <1>2 DEF Complete
  <2>8. QED
    BY <2>6, <2>7
<1>8. CASE Launch(l)
  BY <1>3, <1>8 DEF Launch
<1>9. QED
  BY <1>4, <1>5, <1>6, <1>7, <1>8

LEMMA AccountsStep ==
    ASSUME ~Overlapping
    PROVE  SoundInv /\ OneRun /\ AccountsInv /\ [Next]_vars => AccountsInv'
<1> SUFFICES ASSUME SoundInv, OneRun, AccountsInv, [Next]_vars PROVE AccountsInv'
  OBVIOUS
<1>1. TypeOK /\ \A l \in Launches : LaunchSound(l)
  BY DEF SoundInv
<1>2. /\ CompletedRunIsTrue
      /\ Complete(disk.groups) => disk.groups.content # <<>>
      /\ job # NoFile => Complete(job)
      /\ \A m \in Launches : pc[m] \in {"idle", "policy"} => Fresh(m)
      /\ \A m \in Launches : pc[m] \in Working \ {"policy", "close"} => Accounted(m)
  BY DEF AccountsInv
<1>3. ASSUME UNCHANGED <<pc, task, candidate, rollout, memory, disk>>,
             job' # NoFile => Complete(job')
      PROVE  AccountsInv'
  <2>1. CompletedRunIsTrue'
    BY <1>1, <1>2, <1>3, CompletedStays
  <2>2. \A m \in Launches : pc'[m] \in {"idle", "policy"} => Fresh(m)'
    BY <1>2, <1>3 DEF Fresh
  <2>3. ASSUME NEW m \in Launches, pc'[m] \in Working \ {"policy", "close"} PROVE Accounted(m)'
    <3>1. Accounted(m)
      BY <1>2, <1>3, <2>3
    <3>2. Rewarded(m)' /\ Recorded(m)' /\ Excluded(m)' /\ Balanced(m)'
      BY <3>1, <1>1, <1>3, FrameKeeps
    <3>3. Trailed(m)' /\ Written(m)'
      BY <3>1, <1>3 DEF Accounted, Trailed, Written, ScoredOf, ScoredBy, Id, Groups, Complete
    <3>4. QED
      BY <3>2, <3>3 DEF Accounted
  <2>4. QED
    BY <2>1, <2>2, <2>3, <1>2, <1>3 DEF AccountsInv, Complete
<1>4. CASE UNCHANGED vars \/ Done
  BY <1>2, <1>3, <1>4 DEF vars, Done
<1>5. CASE BindJob
  BY <1>3, <1>5 DEF BindJob, Bindable
<1>6. ASSUME NEW l \in Launches, LaunchStep(l) \/ Stop(l) PROVE AccountsInv'
  <2>1. CompletedRunIsTrue' /\ (Complete(disk.groups)' => disk'.groups.content # <<>>)
    <3>1. CASE Stop(l)
      BY <3>1, <1>1, <1>2, CompletedStays DEF Stop, Complete
    <3>2. CASE LaunchStep(l)
      BY <3>2, <1>1, FinalSteps
    <3>3. QED
      BY <1>6, <3>1, <3>2
  <2>2. job' = job
    BY <1>6
    DEF LaunchStep, Stop, Launch, OpenRun, RunAgent, StoreTrajectory, Verify, StoreEvidence,
        StoreVerification, ScoreCandidate, CloseGroup, WriteEvaluation, ReplaceEvaluation,
        WriteGroups, ReplaceGroups, BeginManifest, WriteManifest, CloseRun
  <2>3. /\ pc'[l] \in {"idle", "policy"} => Fresh(l)'
        /\ pc'[l] \in Working \ {"policy", "close"} => Accounted(l)'
    <3>1. CASE Stop(l)
      <4>1. pc'[l] = "stopped"
        BY <3>1, <1>1 DEF Stop, Goto, TypeOK
      <4>2. QED
        BY <4>1 DEF Working
    <3>2. CASE LaunchStep(l)
      BY <3>2, <1>1, WorkingSteps
    <3>3. QED
      BY <1>6, <3>1, <3>2
  <2>4. ASSUME NEW m \in Launches, m # l
        PROVE  /\ pc'[m] \in {"idle", "policy"} => Fresh(m)'
               /\ pc'[m] \in Working \ {"policy", "close"} => Accounted(m)'
    <3>1. /\ pc'[m] = pc[m] /\ task'[m] = task[m] /\ candidate'[m] = candidate[m]
          /\ rollout'[m] = rollout[m] /\ memory'[m] = memory[m]
      BY <1>1, <1>6, <2>4, OthersUntouched
    <3>2. pc[m] \notin Working
      <4>1. CASE pc[l] \in Working
        BY <4>1, <2>4 DEF OneRun
      <4>2. CASE pc[l] \notin Working
        <5>1. Launch(l)
          BY <4>2, <1>6
          DEF LaunchStep, Stop, OpenRun, RunAgent, StoreTrajectory, Verify, StoreEvidence,
              StoreVerification, ScoreCandidate, CloseGroup, WriteEvaluation, ReplaceEvaluation,
              WriteGroups, ReplaceGroups, BeginManifest, WriteManifest, CloseRun, Working
        <5>2. Alone(l)
          BY <5>1 DEF Launch
        <5>3. QED
          BY <5>2, <2>4 DEF Alone
      <4>3. QED
        BY <4>1, <4>2
    <3>3. QED
      BY <3>1, <3>2, <1>2 DEF Fresh
  <2>5. \A m \in Launches : /\ pc'[m] \in {"idle", "policy"} => Fresh(m)'
                            /\ pc'[m] \in Working \ {"policy", "close"} => Accounted(m)'
    BY <2>3, <2>4
  <2>6. QED
    BY <2>1, <2>2, <2>5, <1>2 DEF AccountsInv, Complete
<1>7. QED
  BY <1>4, <1>5, <1>6 DEF Next

LEMMA AccountsInvariant ==
    ASSUME ~Overlapping PROVE Spec => [](SoundInv /\ OneRun /\ AccountsInv)
<1>1. SoundInv /\ OneRun /\ AccountsInv /\ [Next]_vars /\ (SoundInv /\ TypeOK /\ OneRun)'
         => (SoundInv /\ OneRun /\ AccountsInv)'
  BY AccountsStep
<1>2. QED
  BY <1>1, SoundInvariant, OneRunInvariant, AccountsInit, PTL DEF Spec

(* Without overlap the manifest of a completed run accounts for every        *)
(* candidate of every task, and all it counts lies beside it.                *)
THEOREM CompletedRunsAreTrue ==
    ASSUME ~Overlapping PROVE Spec => []CompletedRunIsTrue
<1>1. AccountsInv => CompletedRunIsTrue
  BY DEF AccountsInv
<1>2. QED
  BY <1>1, AccountsInvariant, PTL
-----------------------------------------------------------------------------
(* The directory implements CollectorContract when launches do not overlap.  *)

(* The grade of a stored reward, and the grades a directory with rewards R   *)
(* and trajectories X shows.                                                 *)
GradeIn(X, r) ==
    IF ~r.eligible THEN "ineligible"
    ELSE IF [id |-> r.id, trajectory |-> "traced"] \in X THEN "trainable" ELSE "untraced"
GradesIn(R, X, t, c) == {GradeIn(X, r) : r \in {s \in R : s.id.task = t /\ s.id.candidate = c}}
Shown(grades) == IF grades = {} THEN "unseen" ELSE CHOOSE g \in grades : TRUE
GradedIn(R, X) == [t \in Tasks |-> [c \in Candidates |-> Shown(GradesIn(R, X, t, c))]]

LEMMA GradedReads == Graded = GradedIn(disk.rewards, disk.trajectories)
BY DEF Graded, GradesOf, GradedIn, GradesIn, GradeIn, Shown

LEMMA GradedNone ==
    ASSUME NEW R, NEW X, NEW t \in Tasks, NEW c \in Candidates
    PROVE  GradedIn(R, X)[t][c] = "unseen"
              <=> \A r \in R : ~(r.id.task = t /\ r.id.candidate = c)
<1>1. CASE GradesIn(R, X, t, c) = {}
  BY <1>1 DEF GradedIn, GradesIn, Shown
<1>2. CASE GradesIn(R, X, t, c) # {}
  <2>1. PICK g \in GradesIn(R, X, t, c) : g = GradedIn(R, X)[t][c]
    BY <1>2 DEF GradedIn, Shown
  <2>2. g # "unseen"
    BY <2>1 DEF GradesIn, GradeIn
  <2>3. QED
    BY <1>2, <2>1, <2>2 DEF GradesIn
<1>3. QED
  BY <1>1, <1>2

LEMMA GradedOne ==
    ASSUME NEW R, NEW X, NEW r \in R, r.id.task \in Tasks, r.id.candidate \in Candidates,
           \A s \in R : s.id.task = r.id.task /\ s.id.candidate = r.id.candidate => s = r
    PROVE  GradedIn(R, X)[r.id.task][r.id.candidate] = GradeIn(X, r)
<1>1. GradesIn(R, X, r.id.task, r.id.candidate) = {GradeIn(X, r)}
  BY DEF GradesIn
<1>2. Shown({GradeIn(X, r)}) = GradeIn(X, r)
  BY DEF Shown
<1>3. QED
  BY <1>1, <1>2 DEF GradedIn

(* A reward of a candidate that had none grades that candidate.              *)
LEMMA GradedScore ==
    ASSUME NEW R, NEW X, NEW r, NEW t \in Tasks, NEW c \in Candidates,
           r.id.task = t, r.id.candidate = c,
           \A s \in R : ~(s.id.task = t /\ s.id.candidate = c)
    PROVE  GradedIn(R \cup {r}, X) =
              [GradedIn(R, X) EXCEPT ![t] = [@ EXCEPT ![c] = GradeIn(X, r)]]
<1>1. GradesIn(R \cup {r}, X, t, c) = {GradeIn(X, r)}
  BY DEF GradesIn
<1>2. \A u \in Tasks, d \in Candidates :
         ~(u = t /\ d = c) => GradesIn(R \cup {r}, X, u, d) = GradesIn(R, X, u, d)
  BY DEF GradesIn
<1>3. Shown({GradeIn(X, r)}) = GradeIn(X, r)
  BY DEF Shown
<1>4. PICK old : old = GradedIn(R, X)
  OBVIOUS
<1>5. PICK new : new = GradedIn(R \cup {r}, X)
  OBVIOUS
<1>6. /\ old = [u \in Tasks |-> [d \in Candidates |-> Shown(GradesIn(R, X, u, d))]]
      /\ new = [u \in Tasks |-> [d \in Candidates |-> Shown(GradesIn(R \cup {r}, X, u, d))]]
  BY <1>4, <1>5 DEF GradedIn
<1>7. \A u \in Tasks : u # t => new[u] = old[u]
  BY <1>2, <1>6
<1>8. new[t] = [old[t] EXCEPT ![c] = GradeIn(X, r)]
  BY <1>1, <1>2, <1>3, <1>6
<1>9. new = [old EXCEPT ![t] = [old[t] EXCEPT ![c] = GradeIn(X, r)]]
  BY <1>6, <1>7, <1>8
<1>10. QED
  BY <1>4, <1>5, <1>9

(* A trajectory of a candidate without a reward grades nobody.               *)
LEMMA GradedStore ==
    ASSUME NEW R, NEW X, NEW x, \A r \in R : r.id # x.id
    PROVE  GradedIn(R, X \cup {x}) = GradedIn(R, X)
<1>1. \A r \in R : GradeIn(X \cup {x}, r) = GradeIn(X, r)
  BY DEF GradeIn
<1>2. \A t, c : GradesIn(R, X \cup {x}, t, c) = GradesIn(R, X, t, c)
  BY <1>1 DEF GradesIn
<1>3. \A t, c : Shown(GradesIn(R, X \cup {x}, t, c)) = Shown(GradesIn(R, X, t, c))
  BY <1>2
<1>4. QED
  BY <1>3 DEF GradedIn

(* Where a launch works, its scored candidates are graded, and as stored.    *)
LEMMA GradedFacts ==
    ASSUME TypeOK, OneRun, NEW l \in Launches, pc[l] \in Working \ {"policy"}, Accounted(l)
    PROVE  /\ \A r \in disk.rewards :
                 Graded[r.id.task][r.id.candidate] = GradeIn(disk.trajectories, r)
           /\ \A t \in Tasks, c \in Candidates :
                 Graded[t][c] = "unseen" <=> ~(c <= ScoredOf(l, t))
<1>1. \A r \in disk.rewards : /\ r.id \in Ids /\ r.id.launch = l
                              /\ r.id.task \in Tasks /\ r.id.candidate \in Candidates
  BY FileIds, Positions DEF OneRun, CandidateFiles
<1>2. \A r, s \in disk.rewards :
         s.id.task = r.id.task /\ s.id.candidate = r.id.candidate => s = r
  <2> SUFFICES ASSUME NEW r \in disk.rewards, NEW s \in disk.rewards,
                      s.id.task = r.id.task, s.id.candidate = r.id.candidate
               PROVE  s = r
    OBVIOUS
  <2>1. s.id = r.id
    BY <1>1 DEF Ids
  <2>2. QED
    BY <2>1 DEF Accounted, Rewarded
<1>3. \A r \in disk.rewards :
         Graded[r.id.task][r.id.candidate] = GradeIn(disk.trajectories, r)
  BY <1>1, <1>2, GradedOne, GradedReads
<1>4. ASSUME NEW t \in Tasks, NEW c \in Candidates
      PROVE  Graded[t][c] = "unseen" <=> ~(c <= ScoredOf(l, t))
  <2>1. Graded[t][c] = "unseen"
           <=> \A r \in disk.rewards : ~(r.id.task = t /\ r.id.candidate = c)
    BY GradedNone, GradedReads
  <2>2. c <= ScoredOf(l, t) => \E r \in disk.rewards : r.id.task = t /\ r.id.candidate = c
    <3> SUFFICES ASSUME c <= ScoredOf(l, t)
                 PROVE  \E r \in disk.rewards : r.id.task = t /\ r.id.candidate = c
      OBVIOUS
    <3>1. PICK r \in disk.rewards : r.id = Mine(l, t, c)
      BY DEF Accounted, Rewarded
    <3>2. QED
      BY <3>1 DEF Mine
  <2>3. \A r \in disk.rewards : r.id.candidate <= ScoredOf(l, r.id.task)
    BY DEF Accounted, Rewarded
  <2>4. QED
    BY <2>1, <2>2, <2>3
<1>5. QED
  BY <1>3, <1>4

(* Before the manifest is written nothing is published.                      *)
LEMMA NothingPublished ==
    /\ \A groups : Offered(FALSE, groups) = [tasks |-> {}, made |-> FALSE]
    /\ ~Complete(disk.manifest) => Published = [tasks |-> {}, made |-> FALSE]
<1>1. \A groups : Offered(FALSE, groups) = [tasks |-> {}, made |-> FALSE]
  BY DEF Offered
<1>2. ASSUME ~Complete(disk.manifest) PROVE Published = [tasks |-> {}, made |-> FALSE]
  <2>1. Complete(disk.manifest) = FALSE
    BY <1>2 DEF Complete
  <2>2. Published = Offered(FALSE, Groups)
    BY <2>1, Zenon DEF Published
  <2>3. QED
    BY <2>2, <1>1
<1>3. QED
  BY <1>1, <1>2

(* Storing a reward grades one candidate, in order.                          *)
LEMMA ScoreGrades ==
    ASSUME TypeOK, OneRun, NEW l \in Launches, Accounted(l), ScoreCandidate(l)
    PROVE  Contract!ContractNext
<1>1. disk \in Directories /\ task[l] \in Tasks /\ candidate[l] \in Candidates
  BY DEF TypeOK
<1>2. pc[l] = "score" /\ pc[l] \in Working \ {"policy"} /\ job' = job
  BY DEF ScoreCandidate, Working
<1>r. PICK r : r = [id |-> Id(l), eligible |-> Eligible(rollout[l])]
  OBVIOUS
<1>3. /\ disk'.rewards = disk.rewards \cup {r} /\ disk'.trajectories = disk.trajectories
      /\ disk'.manifest = disk.manifest
      /\ r.id.task = task[l] /\ r.id.candidate = candidate[l]
  BY <1>1, <1>r DEF ScoreCandidate, Directories, Id
<1>g. PICK g : g = GradeIn(disk.trajectories, r)
  OBVIOUS
<1>4. ScoredOf(l, task[l]) = candidate[l] - 1 /\ \A t \in Tasks : t < task[l] => ScoredOf(l, t) = GroupSize
  BY <1>2, Positions DEF ScoredOf, ScoredBy, Finishing
<1>5. /\ \A t \in Tasks, c \in Candidates : Graded[t][c] = "unseen" <=> ~(c <= ScoredOf(l, t))
      /\ Graded[task[l]][candidate[l]] = "unseen"
  <2>1. ~(candidate[l] <= ScoredOf(l, task[l]))
    BY <1>4, Positions
  <2>2. QED
    BY <2>1, <1>1, <1>2, GradedFacts
<1>6. \A i \in Contract!Before(task[l], candidate[l]) : Graded[i[1]][i[2]] # "unseen"
  <2>1. ASSUME NEW t \in Tasks, NEW c \in Candidates,
               t < task[l] \/ (t = task[l] /\ c < candidate[l])
        PROVE  Graded[t][c] # "unseen"
    <3>1. c <= ScoredOf(l, t)
      BY <2>1, <1>4, Positions
    <3>2. QED
      BY <3>1, <1>5
  <2>2. QED
    BY <2>1 DEF Contract!Before, Tasks, Candidates
<1>7. Graded' = [Graded EXCEPT ![task[l]] = [@ EXCEPT ![candidate[l]] = g]]
  <2>1. \A s \in disk.rewards : ~(s.id.task = task[l] /\ s.id.candidate = candidate[l])
    BY <1>1, <1>5, GradedNone, GradedReads
  <2>2. Graded' = GradedIn(disk'.rewards, disk'.trajectories)
    BY DEF Graded, GradesOf, GradedIn, GradesIn, GradeIn, Shown
  <2>3. GradedIn(disk.rewards \cup {r}, disk.trajectories) =
           [GradedIn(disk.rewards, disk.trajectories) EXCEPT
               ![task[l]] = [@ EXCEPT ![candidate[l]] = g]]
    BY <2>1, <1>1, <1>3, <1>g, GradedScore
  <2>4. QED
    BY <2>2, <2>3, <1>3, GradedReads
<1>8. ~Complete(disk.manifest) /\ ~Complete(disk.manifest)'
  BY <1>2, <1>3 DEF OneRun, Complete
<1>9. ~Published.made /\ UNCHANGED <<Published, Bound>>
  <2>1. Published = [tasks |-> {}, made |-> FALSE]
    BY <1>8, NothingPublished
  <2>2. Published' = [tasks |-> {}, made |-> FALSE]
    <3>1. Complete(disk.manifest)' = FALSE
      BY <1>8 DEF Complete
    <3>2. Published' = Offered(FALSE, Groups')
      BY <3>1, Zenon DEF Published, Offered, TasksOf
    <3>3. QED
      BY <3>2, NothingPublished
  <2>3. Bound' = Bound
    BY <1>2 DEF Bound, Offered, TasksOf, Complete
  <2>4. QED
    BY <2>1, <2>2, <2>3
<1>10. g \in Contract!Grades \ {"unseen"}
  BY <1>g DEF GradeIn, Contract!Grades
<1>11. Contract!Grade(task[l], candidate[l], g)
  BY <1>5, <1>6, <1>7, <1>9 DEF Contract!Grade
<1>12. QED
  BY <1>1, <1>10, <1>11 DEF Contract!ContractNext, Tasks, Candidates

(* Storing a trajectory shows nothing yet: its candidate has no reward.      *)
LEMMA StoreShowsNothing ==
    ASSUME TypeOK, OneRun, NEW l \in Launches, Accounted(l), StoreTrajectory(l)
    PROVE  Graded' = Graded /\ disk'.manifest = disk.manifest
<1>1. disk \in Directories /\ pc[l] = "store"
  BY DEF TypeOK, StoreTrajectory
<1>x. PICK x : x = [id |-> Id(l), trajectory |-> rollout[l].trajectory]
  OBVIOUS
<1>2. /\ disk'.rewards = disk.rewards /\ disk'.trajectories = disk.trajectories \cup {x}
      /\ disk'.manifest = disk.manifest /\ x.id = Id(l)
  BY <1>1, <1>x DEF StoreTrajectory, Directories
<1>3. ScoredOf(l, task[l]) = candidate[l] - 1
  BY <1>1, Positions DEF ScoredOf, ScoredBy, Finishing
<1>4. \A r \in disk.rewards : r.id # x.id
  <2>1. \A r \in disk.rewards : r.id.candidate <= ScoredOf(l, r.id.task)
    BY DEF Accounted, Rewarded
  <2>2. x.id.candidate = candidate[l] /\ x.id.task = task[l]
    BY <1>2 DEF Id
  <2>3. QED
    BY <2>1, <2>2, <1>3, Positions
<1>5. Graded' = GradedIn(disk'.rewards, disk'.trajectories)
  BY DEF Graded, GradesOf, GradedIn, GradesIn, GradeIn, Shown
<1>6. QED
  BY <1>2, <1>4, <1>5, GradedStore, GradedReads

(* What a launch has gathered into groups are the tasks all of whose         *)
(* candidates are trainable.                                                 *)
LEMMA GroupsAreUsable ==
    ASSUME TypeOK, OneRun, NEW l \in Launches, LaunchSound(l), Accounted(l),
           pc[l] = "manifest_write"
    PROVE  TasksOf(memory[l].groups) = {t \in 1 .. TaskCount : Contract!Usable(t)}
<1>1. /\ pc[l] \in Working \ {"policy"} /\ pc[l] \in Finishing
      /\ memory[l].groups \in Seq(Seq(Ids)) /\ memory[l].exclusions \in Seq(Ids)
  BY DEF Working, Finishing, TypeOK, Accounts
<1>2. \A r \in disk.rewards :
         Graded[r.id.task][r.id.candidate] = GradeIn(disk.trajectories, r)
  BY <1>1, GradedFacts
<1>3. ASSUME NEW i \in DOMAIN memory[l].groups
      PROVE  memory[l].groups[i][1].task \in 1 .. TaskCount
             /\ Contract!Usable(memory[l].groups[i][1].task)
  <2>g. PICK group : group = memory[l].groups[i]
    OBVIOUS
  <2>1. SoundGroup(group) /\ group \in Seq(Ids)
    BY <2>g, <1>1, <1>3 DEF LaunchSound, GroupsSound, GoodBatch
  <2>2. DOMAIN group = 1 .. GroupSize /\ GroupSize >= 2 /\ GroupSize \in Nat
    BY <2>1, Positions DEF SoundGroup
  <2>3. group[1] \in Ids /\ group[1].task \in Tasks
    BY <2>1, <2>2, Positions
  <2>4. ASSUME NEW c \in 1 .. GroupSize PROVE Graded[group[1].task][c] = "trainable"
    <3>1. /\ group[c].candidate = c /\ group[c].task = group[1].task
          /\ [id |-> group[c], trajectory |-> "traced"] \in disk.trajectories
      BY <2>1, <2>2, <2>4 DEF SoundGroup, Sound
    <3>2. PICK r \in disk.rewards : r = [id |-> group[c], eligible |-> TRUE]
      BY <2>1, <2>2, <2>4 DEF SoundGroup, Sound
    <3>3. r.id = group[c] /\ r.eligible = TRUE
      BY <3>2
    <3>4. QED
      BY <3>1, <3>3, <1>2 DEF GradeIn
  <2>5. QED
    BY <2>2, <2>3, <2>4, <2>g DEF Contract!Usable, Tasks
<1>4. ASSUME NEW t \in Tasks, Contract!Usable(t)
      PROVE  \E i \in DOMAIN memory[l].groups : memory[l].groups[i][1].task = t
  <2>1. GroupSize >= 2 /\ \A c \in Candidates : Graded[t][c] = "trainable"
    BY <1>4 DEF Contract!Usable, Candidates
  <2>2. Ineligible(t) = {}
    <3> SUFFICES ASSUME NEW r \in disk.rewards, r.id.task = t, ~r.eligible PROVE FALSE
      BY DEF Ineligible
    <3>1. r.id.candidate \in Candidates
      BY FileIds, Positions
    <3>2. Graded[t][r.id.candidate] = "ineligible"
      BY <1>2 DEF GradeIn
    <3>3. QED
      BY <2>1, <3>1, <3>2
  <2>3. Of(t, memory[l].exclusions) = {}
    <3> SUFFICES ASSUME NEW i \in DOMAIN memory[l].exclusions,
                        memory[l].exclusions[i].task = t
                 PROVE  FALSE
      BY DEF Of
    <3>e. PICK id : id = memory[l].exclusions[i]
      OBVIOUS
    <3>1. /\ id.launch = l /\ id.candidate <= ScoredOf(l, id.task) /\ id.task = t
          /\ [id |-> id, trajectory |-> "traced"] \notin disk.trajectories
      BY <3>e DEF Accounted, Excluded
    <3>2. id \in Ids /\ id.candidate \in Candidates
      BY <3>e, <1>1, Positions
    <3>3. PICK r \in disk.rewards : r.id = Mine(l, t, id.candidate)
      BY <3>1, <3>2 DEF Accounted, Rewarded
    <3>4. r.id = id
      BY <3>1, <3>2, <3>3 DEF Mine, Ids
    <3>5. Graded[t][id.candidate] # "trainable"
      BY <3>1, <3>4, <1>2 DEF GradeIn
    <3>6. QED
      BY <2>1, <3>2, <3>5
  <2>4. Missing(l, t) = 0
    BY <2>2, <2>3, FS_EmptySet DEF Missing
  <2>5. HasGroup(memory[l].groups, t)
    BY <2>1, <2>4, <1>1 DEF Accounted, Balanced, Settled
  <2>6. QED
    BY <2>5 DEF HasGroup
<1>5. QED
  BY <1>3, <1>4 DEF TasksOf, Tasks

(* Writing the manifest publishes them.                                      *)
LEMMA ManifestPublishes ==
    ASSUME TypeOK, OneRun, NEW l \in Launches, LaunchSound(l), Accounted(l), WriteManifest(l)
    PROVE  Contract!Publish
<1>1. disk \in Directories /\ pc[l] = "manifest_write" /\ pc[l] \in Working \ {"policy"}
      /\ pc[l] \in Finishing /\ job' = job
  BY DEF TypeOK, WriteManifest, Working, Finishing
<1>2. /\ disk'.rewards = disk.rewards /\ disk'.trajectories = disk.trajectories
      /\ disk'.groups = disk.groups /\ disk'.manifest = File(Manifest(memory[l]))
  BY <1>1 DEF WriteManifest, Directories
<1>3. Graded' = Graded
  BY <1>2 DEF Graded, GradesOf
<1>4. ~Complete(disk.manifest) /\ Complete(disk.manifest)'
  BY <1>1, <1>2 DEF OneRun, Complete, File
<1>5. Groups' = memory[l].groups
  BY <1>1, <1>2 DEF Groups, Complete, Accounted, Written
<1>6. Published' = [tasks |-> TasksOf(memory[l].groups), made |-> TRUE]
  BY <1>4, <1>5 DEF Published, Offered, TasksOf
<1>7. \A t \in Tasks, c \in Candidates : Graded[t][c] # "unseen"
  BY <1>1, GradedFacts, Positions DEF ScoredOf
<1>8. ~Published.made /\ Bound' = Bound
  BY <1>1, <1>4, NothingPublished DEF Bound, Offered, TasksOf, Complete
<1>9. Published' = Contract!Made({t \in 1 .. TaskCount : Contract!Usable(t)})
  BY <1>1, <1>6, GroupsAreUsable DEF Contract!Made
<1>10. QED
  BY <1>3, <1>7, <1>8, <1>9 DEF Contract!Publish, Tasks, Candidates

(* Binding a job binds what is published.                                    *)
LEMMA JobBinds ==
    ASSUME AccountsInv, SoundInv, BindJob
    PROVE  Contract!Bind
<1>1. /\ job = NoFile /\ Complete(disk.manifest) /\ Complete(disk.groups) /\ job' = disk.groups
      /\ disk' = disk
  BY DEF BindJob, Bindable
<1>2. UNCHANGED <<Graded, Published>>
  <2>1. Graded' = Graded
    BY <1>1 DEF Graded, GradesOf
  <2>2. Groups' = Groups
    BY <1>1 DEF Groups, Complete
  <2>3. Complete(disk.manifest)' = Complete(disk.manifest)
    BY <1>1 DEF Complete
  <2>4. Published' = Published
    BY <2>2, <2>3 DEF Published, Offered, TasksOf
  <2>5. QED
    BY <2>1, <2>4
<1>3. Published = [tasks |-> TasksOf(disk.groups.content), made |-> TRUE]
  <2>1. Groups = disk.groups.content
    BY <1>1 DEF Groups
  <2>2. QED
    BY <2>1, <1>1 DEF Published, Offered
<1>4. Bound' = [tasks |-> TasksOf(disk.groups.content), made |-> TRUE]
  <2>1. Complete(job)'
    BY <1>1 DEF Complete
  <2>2. QED
    BY <2>1, <1>1 DEF Bound, Offered, TasksOf
<1>5. ~Bound.made
  <2>1. Complete(job) = FALSE
    BY <1>1 DEF Complete, NoFile
  <2>2. Bound = Offered(FALSE, job.content)
    BY <2>1, Zenon DEF Bound
  <2>3. Bound = [tasks |-> {}, made |-> FALSE]
    BY <2>2, NothingPublished
  <2>4. QED
    BY <2>3
<1>6. TasksOf(disk.groups.content) # {}
  <2>1. disk.groups.content # <<>> /\ disk.groups.content \in Seq(Seq(Ids))
    BY <1>1 DEF AccountsInv, SoundInv, TypeOK, Directories, Files, Complete, NoFile, Torn
  <2>2. 1 \in DOMAIN disk.groups.content
    BY <2>1
  <2>3. QED
    BY <2>2 DEF TasksOf
<1>7. QED
  BY <1>2, <1>3, <1>4, <1>5, <1>6 DEF Contract!Bind

(* A step that leaves rewards and trajectories alone, and the manifest       *)
(* unfinished or the files of a completed run as they are, shows nothing.    *)
LEMMA ShowsNothing ==
    ASSUME Graded' = Graded, job' = job, Complete(disk.manifest)' <=> Complete(disk.manifest),
           Complete(disk.manifest) => disk'.groups = disk.groups
    PROVE  UNCHANGED Contract!contractVars
<1>1. Published' = Published
  <2>1. CASE Complete(disk.manifest)
    <3>1. Groups' = Groups
      BY <2>1 DEF Groups, Complete
    <3>2. Complete(disk.manifest)' = TRUE /\ Complete(disk.manifest) = TRUE
      BY <2>1 DEF Complete
    <3>3. QED
      BY <3>1, <3>2 DEF Published, Offered, TasksOf
  <2>2. CASE ~Complete(disk.manifest)
    <3>1. Complete(disk.manifest)' = FALSE
      BY <2>2 DEF Complete
    <3>2. Published' = Offered(FALSE, Groups')
      BY <3>1, Zenon DEF Published, Offered, TasksOf
    <3>3. QED
      BY <2>2, <3>2, NothingPublished
  <2>3. QED
    BY <2>1, <2>2
<1>2. Bound' = Bound
  BY DEF Bound, Offered, TasksOf, Complete
<1>3. QED
  BY <1>1, <1>2 DEF Contract!contractVars

LEMMA ContractStep ==
    ASSUME SoundInv, OneRun, AccountsInv, [Next]_vars
    PROVE  [Contract!ContractNext]_(Contract!contractVars)
<1>1. TypeOK /\ disk \in Directories /\ \A l \in Launches : LaunchSound(l)
  BY DEF SoundInv, TypeOK
<1>2. CASE UNCHANGED disk /\ UNCHANGED job
  <2>1. Graded' = Graded
    BY <1>2 DEF Graded, GradesOf
  <2>2. Complete(disk.manifest)' <=> Complete(disk.manifest)
    BY <1>2 DEF Complete
  <2>3. QED
    BY <2>1, <2>2, <1>2, ShowsNothing
<1>3. CASE BindJob
  BY <1>3, JobBinds DEF Contract!ContractNext
<1>4. ASSUME NEW l \in Launches, LaunchStep(l), disk' # disk
      PROVE  [Contract!ContractNext]_(Contract!contractVars)
  <2>1. pc[l] \in Working /\ job' = job
    BY <1>4
    DEF LaunchStep, Launch, OpenRun, RunAgent, StoreTrajectory, Verify, StoreEvidence,
        StoreVerification, ScoreCandidate, CloseGroup, WriteEvaluation, ReplaceEvaluation,
        WriteGroups, ReplaceGroups, BeginManifest, WriteManifest, CloseRun, Working
  <2>2. CASE pc[l] \in {"policy", "close"}
    <3>1. /\ disk'.rewards = disk.rewards /\ disk'.trajectories = disk.trajectories
          /\ disk'.manifest = disk.manifest /\ disk'.groups = disk.groups
      <4>1. OpenRun(l) \/ CloseRun(l)
        BY <1>4, <2>2
        DEF LaunchStep, Launch, RunAgent, StoreTrajectory, Verify, StoreEvidence,
            StoreVerification, ScoreCandidate, CloseGroup, WriteEvaluation, ReplaceEvaluation,
            WriteGroups, ReplaceGroups, BeginManifest, WriteManifest
      <4>2. QED
        BY <4>1, <1>1 DEF OpenRun, CloseRun, Directories
    <3>2. Graded' = Graded
      BY <3>1 DEF Graded, GradesOf
    <3>3. Complete(disk.manifest)' <=> Complete(disk.manifest)
      BY <3>1 DEF Complete
    <3>4. QED
      BY <3>1, <3>2, <3>3, <2>1, ShowsNothing
  <2>3. CASE pc[l] \notin {"policy", "close"}
    <3>1. /\ Accounted(l) /\ ~Complete(disk.manifest)
      BY <2>1, <2>3 DEF AccountsInv, OneRun
    <3>2. CASE ScoreCandidate(l)
      BY <3>1, <3>2, <1>1, ScoreGrades
    <3>3. CASE WriteManifest(l)
      BY <3>1, <3>3, <1>1, ManifestPublishes DEF Contract!ContractNext
    <3>4. CASE StoreTrajectory(l)
      <4>1. Graded' = Graded /\ disk'.manifest = disk.manifest
        BY <3>1, <3>4, <1>1, StoreShowsNothing
      <4>2. Complete(disk.manifest)' <=> Complete(disk.manifest)
        BY <4>1 DEF Complete
      <4>3. QED
        BY <4>1, <4>2, <3>1, <2>1, ShowsNothing
    <3>5. CASE ~(ScoreCandidate(l) \/ WriteManifest(l) \/ StoreTrajectory(l))
      <4>1. Quiet(l)
        BY <3>5, <1>4, <2>3
        DEF LaunchStep, Launch, OpenRun, CloseGroup, Quiet
      <4>2. disk'.rewards = disk.rewards /\ disk'.trajectories = disk.trajectories
        BY <4>1, <1>1, QuietSteps
      <4>3. Graded' = Graded
        BY <4>2 DEF Graded, GradesOf
      <4>4. ~Complete(disk.manifest)'
        <5>1. CASE BeginManifest(l)
          BY <5>1, <1>1 DEF BeginManifest, OpenManifest, Directories, Complete, Torn
        <5>2. CASE ~BeginManifest(l)
          <6>1. pc[l] \notin {"manifest", "manifest_write"}
            BY <4>1, <3>5, <5>2
            DEF Quiet, RunAgent, Verify, StoreEvidence, StoreVerification, WriteEvaluation,
                ReplaceEvaluation, WriteGroups, ReplaceGroups, CloseRun
          <6>2. disk'.manifest = disk.manifest
            BY <6>1, <1>1, <1>4, <2>1, <2>3, OwnSteps
          <6>3. QED
            BY <6>2, <3>1 DEF Complete
        <5>3. QED
          BY <5>1, <5>2
      <4>5. QED
        BY <4>3, <4>4, <3>1, <2>1, ShowsNothing
    <3>6. QED
      BY <3>2, <3>3, <3>4, <3>5
  <2>4. QED
    BY <2>2, <2>3
<1>5. CASE ~(UNCHANGED disk /\ UNCHANGED job) /\ ~BindJob
  <2>1. PICK l \in Launches : LaunchStep(l)
    BY <1>5 DEF Next, Stop, Done, vars
  <2>2. job' = job
    BY <2>1
    DEF LaunchStep, Launch, OpenRun, RunAgent, StoreTrajectory, Verify, StoreEvidence,
        StoreVerification, ScoreCandidate, CloseGroup, WriteEvaluation, ReplaceEvaluation,
        WriteGroups, ReplaceGroups, BeginManifest, WriteManifest, CloseRun
  <2>3. QED
    BY <2>1, <2>2, <1>4, <1>5
<1>6. QED
  BY <1>2, <1>3, <1>5

LEMMA ContractBegins == Init => Contract!ContractInit
<1> SUFFICES ASSUME Init PROVE Contract!ContractInit
  OBVIOUS
<1>1. disk.rewards = {} /\ disk.manifest = NoFile /\ job = NoFile
  BY DEF Init, EmptyDirectory
<1>2. Graded = [t \in 1 .. TaskCount |-> [c \in 1 .. GroupSize |-> "unseen"]]
  <2>1. \A t, c : GradesOf(t, c) = {}
    BY <1>1 DEF GradesOf
  <2>2. QED
    BY <2>1 DEF Graded, Tasks, Candidates
<1>3. Published = Contract!Nothing
  BY <1>1, NothingPublished DEF Complete, NoFile, Contract!Nothing
<1>4. Bound = Contract!Nothing
  <2>1. Complete(job) = FALSE
    BY <1>1 DEF Complete, NoFile
  <2>2. Bound = Offered(FALSE, job.content)
    BY <2>1, Zenon DEF Bound
  <2>3. QED
    BY <2>2, NothingPublished DEF Contract!Nothing
<1>5. QED
  BY <1>2, <1>3, <1>4 DEF Contract!ContractInit

(* Without overlap the run directory, through every crash and relaunch,      *)
(* implements CollectorContract: candidates are graded once and in order,    *)
(* exactly the tasks all of whose candidates are trainable are published,    *)
(* once, and a job binds what is published or nothing.                       *)
THEOREM DirectoryKeepsContract ==
    ASSUME ~Overlapping PROVE Spec => KeepsContract
<1>1. SoundInv /\ OneRun /\ AccountsInv /\ [Next]_vars
         => [Contract!ContractNext]_(Contract!contractVars)
  BY ContractStep
<1>2. QED
  BY <1>1, AccountsInvariant, ContractBegins, PTL
  DEF Spec, KeepsContract, Contract!ContractSpec
=============================================================================
