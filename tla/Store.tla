-------------------------------- MODULE Store --------------------------------
(* The two stores of rollouts/store.py, which processes write at once: the   *)
(* artifact store, whose names are the digests of their contents, and the    *)
(* trajectory store, whose names are given. A content goes to a temporary    *)
(* file, which is linked to its name and removed. A process may be killed,   *)
(* and a write fail, at every step. Readers see what is linked: temporary    *)
(* files have names of their own and match no pattern of theirs.             *)
CONSTANTS
    Writers,
    Payloads,
    Ids,        \* the identifiers of trajectories
    Nothing, Partial

ArtifactNames == [store : {"artifacts"}, key : Payloads]
TrajectoryNames == [store : {"trajectories"}, key : Ids]
Names == ArtifactNames \cup TrajectoryNames

Outcomes == {"stored", "collision", "error", "killed"}

ASSUME StoreAssumption == Nothing \notin Payloads \cup {Partial} /\ Partial \notin Payloads

VARIABLES
    files,   \* name -> its content
    writer,  \* what each writer is doing
    told     \* the outcome of its last operation

storeVars == <<files, writer, told>>

Idle == [pc |-> "idle", name |-> Nothing, payload |-> Nothing, temp |-> Nothing, outcome |-> Nothing]

StoreInit ==
    /\ files = [n \in Names |-> Nothing]
    /\ writer = [w \in Writers |-> Idle]
    /\ told = [w \in Writers |-> Nothing]

Goes(w, pc) == writer' = [writer EXCEPT ![w].pc = pc]

Leaves(w, outcome) == writer' = [writer EXCEPT ![w].pc = "unlink", ![w].outcome = outcome]

Tell(w, outcome) ==
    /\ writer' = [writer EXCEPT ![w] = Idle]
    /\ told' = [told EXCEPT ![w] =
         [name |-> writer[w].name, payload |-> writer[w].payload, outcome |-> outcome]]

-----------------------------------------------------------------------------
Begin(w, n, p) ==
    /\ writer[w].pc = "idle"
    /\ n \in ArtifactNames => n.key = p
    /\ writer' = [writer EXCEPT ![w] =
         [pc |-> "look", name |-> n, payload |-> p, temp |-> Nothing, outcome |-> Nothing]]
    /\ UNCHANGED <<files, told>>

(* target.exists(), and the comparison of what is there.                     *)
Look(w) ==
    LET there == files[writer[w].name] IN
    /\ writer[w].pc = "look"
    /\ IF there = Nothing THEN Goes(w, "create") /\ UNCHANGED told
       ELSE Tell(w, IF there = writer[w].payload THEN "stored" ELSE "collision")
    /\ UNCHANGED files

Create(w) ==
    /\ writer[w].pc = "create"
    /\ writer' = [writer EXCEPT ![w].pc = "write", ![w].temp = Partial]
    /\ UNCHANGED <<files, told>>

Write(w) ==
    /\ writer[w].pc = "write"
    /\ writer' = [writer EXCEPT ![w].pc = "link", ![w].temp = writer[w].payload]
    /\ UNCHANGED <<files, told>>

Link_Replaces(w) ==
    /\ writer[w].pc = "link"
    /\ files' = [files EXCEPT ![writer[w].name] = writer[w].temp]
    /\ Leaves(w, "stored")
    /\ UNCHANGED told

Link(w) ==
    /\ writer[w].pc = "link" /\ files[writer[w].name] = Nothing
    /\ files' = [files EXCEPT ![writer[w].name] = writer[w].temp]
    /\ Leaves(w, "stored")
    /\ UNCHANGED told

(* FileExistsError: the artifact store compares, the trajectory store does   *)
(* not.                                                                      *)
LinkRefused(w) ==
    LET name == writer[w].name IN
    /\ writer[w].pc = "link" /\ files[name] # Nothing
    /\ Leaves(w, IF name \in ArtifactNames /\ files[name] = writer[w].payload
                 THEN "stored" ELSE "collision")
    /\ UNCHANGED <<files, told>>

(* The temporary file cannot be created, written or linked.                  *)
StepFails(w) ==
    /\ writer[w].pc \in {"create", "write", "link"}
    /\ Leaves(w, "error")
    /\ UNCHANGED <<files, told>>

(* The finally clause. An error of its own replaces the outcome.             *)
Unlink(w) ==
    /\ writer[w].pc = "unlink"
    /\ \E outcome \in {writer[w].outcome, "error"} : Tell(w, outcome)
    /\ UNCHANGED files

(* The process dies; the temporary file stays.                               *)
Kill(w) ==
    /\ writer[w].pc # "idle"
    /\ Tell(w, "killed")
    /\ UNCHANGED files

Writer(w) ==
    \/ \E n \in Names, p \in Payloads : Begin(w, n, p)
    \/ Look(w) \/ Create(w) \/ Write(w) \/ Link(w) \/ LinkRefused(w)
    \/ StepFails(w) \/ Unlink(w) \/ Kill(w)

StoreNext == \E w \in Writers : Writer(w)

StoreSpec == StoreInit /\ [][StoreNext]_storeVars

-----------------------------------------------------------------------------
(* Properties                                                                *)

StoreAnswers == [name : Names, payload : Payloads, outcome : Outcomes]

Busy ==
    [pc : {"look", "create", "write", "link", "unlink"}, name : Names, payload : Payloads,
     temp : Payloads \cup {Nothing, Partial}, outcome : Outcomes \cup {Nothing}]

(* The values of the variables.                                              *)
StoreTypeOK ==
    /\ files \in [Names -> Payloads \cup {Nothing}]
    /\ writer \in [Writers -> Busy \cup {Idle}]
    /\ told \in [Writers -> StoreAnswers \cup {Nothing}]

(* A reader that finds an artifact by its digest gets what the digest is of, *)
(* through every race, failed write and kill.                                *)
ArtifactsAreTheirDigests == \A n \in ArtifactNames : files[n] \in {n.key, Nothing}

(* What a writer was told stays true: what it stored is there, whatever      *)
(* others write later.                                                       *)
AnswersStayTrue ==
    \A w \in Writers : told[w] # Nothing =>
        /\ told[w].outcome = "stored" => files[told[w].name] = told[w].payload
        /\ told[w].outcome = "collision" => files[told[w].name] # Nothing
        /\ told[w].outcome = "collision" => told[w].name \in TrajectoryNames

(* Both stores together are write-once registers.                            *)
Contract == INSTANCE StoreContract WITH content <- files
KeepsContract == Contract!Spec

(* Said of the program: storing a trajectory again is no error               *)
(* (tests/unit/test_rollout_store.py:34).                                    *)
AppendIsIdempotent ==
    \A w \in Writers : told[w] # Nothing /\ told[w].outcome = "collision" =>
        files[told[w].name] # told[w].payload
=============================================================================
