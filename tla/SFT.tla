---------------------------------- MODULE SFT ----------------------------------
(* Supervised fine-tuning: the preparation of a records file from verified    *)
(* trajectories (training/prepare_sft.py, records.py), and the training run   *)
(* in its output directory (training/sft.py, provenance.py), while rollouts   *)
(* go on, files are prepared again, and any of them stops between two steps.  *)
(* How a record becomes tokens is module Conversation.                        *)
EXTENDS Naturals, FiniteSets

CONSTANTS
    Rollouts,
    Kinds,        \* what a trajectory and its verification may be
    Versions,     \* of the tasks file; the rollouts ran under the first
    SameStem,     \* are the two files alike but for their directories?
    MaxPreparations, MaxLaunches

Files == {"train", "validation"}

VARIABLES
    kind,      \* of each trajectory
    stored,    \* the trajectories collected so far
    file,      \* the records of each file, or NoFile
    temporary, \* and those of its temporary file
    prep,      \* the one who prepares
    gathered,  \* history: the sets of records whose preparation reached its writing
    dir,       \* the training run's output directory
    run        \* the process that trains

prepVars == <<file, temporary, prep, gathered>>
runVars  == <<dir, run>>
sftVars == <<kind, stored, prepVars, runVars>>

None == [none |-> TRUE]
NoFile == {None}

TrainingRecord(t, version) == [trajectory |-> t, version |-> version]

First == CHOOSE v \in Versions : \A w \in Versions : v <= w

IdlePrep == [pc |-> "idle", file |-> "train", records |-> {}, count |-> 0, last |-> "none"]
EmptyDir == [partial |-> None, manifest |-> None, adapter |-> None, checkpoint |-> None,
             rejected |-> [f \in Files |-> NoFile]]
IdleRun  == [pc |-> "idle", count |-> 0, evidence |-> None, base |-> {},
             accepted |-> [f \in Files |-> {}], refused |-> [f \in Files |-> {}]]

SFTInit ==
    /\ kind \in [Rollouts -> Kinds] /\ stored \in SUBSET Rollouts
    /\ file = [f \in Files |-> NoFile] /\ temporary = file
    /\ prep = IdlePrep /\ gathered = {}
    /\ dir = EmptyDir /\ run = IdleRun

(* The collector stores another trajectory and its verification.             *)
Arrive(t) ==
    /\ t \notin stored
    /\ stored' = stored \cup {t}
    /\ UNCHANGED <<kind, prepVars, runVars>>

-----------------------------------------------------------------------------
(* Preparation                                                               *)

(* is_verified_sft_success of the trajectories of the split                  *)
Verified(t, split) ==
    t \in stored /\ kind[t].split = split /\ kind[t].verdict = "passed"

Successes(split) == {t \in Rollouts : Verified(t, split)}

(* A passing verification of another patch, or a success with an invalid     *)
(* action, raises; so does an empty result.                                  *)
Raises(split) ==
    \/ \E t \in stored : kind[t].split = split /\ kind[t].verdict = "passed_other_patch"
    \/ \E t \in Successes(split) : kind[t].invalid
    \/ Successes(split) = {}

Gather(f, version) ==
    /\ prep.pc = "idle" /\ prep.count < MaxPreparations
    /\ LET records == {TrainingRecord(t, version) : t \in Successes(f)} IN
         IF Raises(f)
         THEN /\ prep' = [prep EXCEPT !.count = @ + 1, !.file = f, !.last = "raised"]
              /\ UNCHANGED gathered
         ELSE /\ prep' = [prep EXCEPT !.count = @ + 1, !.file = f, !.last = "gathered",
                                      !.pc = "open", !.records = records]
              /\ gathered' = gathered \cup {records}
    /\ UNCHANGED <<kind, stored, file, temporary, runVars>>

(* write_jsonl                                                               *)
Open ==
    /\ prep.pc = "open"
    /\ temporary' = [temporary EXCEPT ![prep.file] = {}]
    /\ prep' = [prep EXCEPT !.pc = "write"]
    /\ UNCHANGED <<kind, stored, file, gathered, runVars>>

WriteRecords ==
    /\ prep.pc = "write"
    /\ \E r \in prep.records \ temporary[prep.file] :
         temporary' = [temporary EXCEPT ![prep.file] = @ \cup {r}]
    /\ UNCHANGED <<kind, stored, file, prep, gathered, runVars>>

Replace ==
    /\ prep.pc = "write" /\ temporary[prep.file] = prep.records
    /\ file' = [file EXCEPT ![prep.file] = temporary[prep.file]]
    /\ temporary' = [temporary EXCEPT ![prep.file] = NoFile]
    /\ prep' = [prep EXCEPT !.pc = "idle", !.records = {}]
    /\ UNCHANGED <<kind, stored, gathered, runVars>>

StopPreparing ==
    /\ prep.pc # "idle"
    /\ prep' = [prep EXCEPT !.pc = "idle", !.records = {}, !.last = "stopped"]
    /\ UNCHANGED <<kind, stored, file, temporary, gathered, runVars>>

-----------------------------------------------------------------------------
(* Training                                                                  *)

Empty == dir = EmptyDir

At(pc) == run.pc = pc /\ UNCHANGED <<kind, stored, prepVars>>
Goto(pc) == run' = [run EXCEPT !.pc = pc]

(* prepare_output_directory, the evidence of the inputs and the partial      *)
(* manifest; a resumed run names a checkpoint, and a run may do without a    *)
(* validation file.                                                          *)
Launch(resume, inputs) ==
    /\ At("idle") /\ run.count < MaxLaunches
    /\ IF resume THEN dir.checkpoint # None ELSE Empty
    /\ NoFile \notin {file[f] : f \in inputs}
    /\ run' = [IdleRun EXCEPT !.pc = "train", !.count = run.count + 1,
                              !.evidence = [f \in inputs |-> file[f]],
                              !.base = IF resume THEN dir.checkpoint.trained ELSE {}]
    /\ dir' = [dir EXCEPT !.partial = [evidence |-> [f \in inputs |-> file[f]]]]

(* load_jsonl splits where Python's splitlines does, and a piece of a record *)
(* is none.                                                                  *)
Readable(records) == \A r \in records : ~kind[r.trajectory].separator

Tokenized(records) == {r \in records : ~kind[r.trajectory].long}

ReportOf(f) == IF SameStem THEN "train" ELSE f

(* build_dataset                                                             *)
Build(f) ==
    /\ At(f)
    /\ IF Readable(file[f]) /\ Tokenized(file[f]) # {}
       THEN /\ run' = [run EXCEPT !.pc = IF f = "train" /\ "validation" \in DOMAIN run.evidence
                                        THEN "validation" ELSE "fit",
                                  !.accepted[f] = Tokenized(file[f]),
                                  !.refused[f] = file[f] \ Tokenized(file[f])]
            /\ dir' = [dir EXCEPT !.rejected[ReportOf(f)] = file[f] \ Tokenized(file[f])]
       ELSE Goto("idle") /\ UNCHANGED dir

Trained == run.base \cup run.accepted["train"]

Checkpoint ==
    /\ At("fit")
    /\ dir' = [dir EXCEPT !.checkpoint = [trained |-> Trained]]
    /\ UNCHANGED run

Fit == At("fit") /\ Goto("save") /\ UNCHANGED dir

(* save_model writes over what is there; the directory is the adapter once   *)
(* the tokenizer is saved too.                                               *)
SaveModel ==
    /\ At("save") /\ Goto("tokenizer")
    /\ dir' = [dir EXCEPT !.adapter = [trained |-> Trained, whole |-> FALSE]]

SaveTokenizer ==
    /\ At("tokenizer") /\ Goto("manifest")
    /\ dir' = [dir EXCEPT !.adapter.whole = TRUE]

(* The manifest is written in place.                                         *)
OpenManifest ==
    /\ At("manifest") /\ Goto("manifest_open")
    /\ dir' = [dir EXCEPT !.manifest = [whole |-> FALSE, adapter |-> None, evidence |-> None]]

WriteManifest ==
    /\ At("manifest_open") /\ Goto("unlink")
    /\ dir' = [dir EXCEPT !.manifest =
                   [whole |-> TRUE, adapter |-> dir.adapter, evidence |-> run.evidence]]

UnlinkManifest_First ==
    /\ At("manifest_open") /\ UNCHANGED run
    /\ dir' = [dir EXCEPT !.partial = None]

UnlinkManifest ==
    /\ At("unlink") /\ Goto("idle")
    /\ dir' = [dir EXCEPT !.partial = None]

StopTraining ==
    /\ run.pc # "idle" /\ At(run.pc) /\ Goto("idle") /\ UNCHANGED dir

Prepare == (\E f \in Files, v \in Versions : Gather(f, v)) \/ Open \/ WriteRecords \/ Replace \/ StopPreparing

Train ==
    \/ \E resume \in BOOLEAN, inputs \in {{"train"}, Files} : Launch(resume, inputs)
    \/ \E f \in Files : Build(f)
    \/ Checkpoint \/ Fit \/ SaveModel \/ SaveTokenizer
    \/ OpenManifest \/ WriteManifest \/ UnlinkManifest \/ StopTraining

SFTNext == (\E t \in Rollouts : Arrive(t)) \/ Prepare \/ Train

SFTSpec == SFTInit /\ [][SFTNext]_sftVars

-----------------------------------------------------------------------------
(* Properties                                                                *)

RecordSets == SUBSET {TrainingRecord(t, v) : t \in Rollouts, v \in Versions}

(* The values of the variables; only a preparation under way has records     *)
(* left to write.                                                            *)
SFTTypeOK ==
    /\ stored \subseteq Rollouts
    /\ \A f \in Files : {file[f], temporary[f]} \subseteq RecordSets \cup {NoFile}
    /\ prep.records \in RecordSets /\ (prep.pc = "idle" <=> prep.records = {})
    /\ \A f \in Files : run.accepted[f] \cap run.refused[f] = {}

(* A records file is always the whole of what one preparation gathered, and  *)
(* never empty, wherever preparations stop.                                  *)
FilesAreWhole == \A f \in Files : file[f] \in {NoFile} \cup gathered /\ file[f] # {}

Finished == dir.manifest # None /\ dir.partial = None

(* A directory with a manifest and no partial one holds the whole adapter    *)
(* the manifest names, and one with anything in it and no run at work is     *)
(* finished or marked as not finished, whatever stopped runs and resumed     *)
(* ones left behind.                                                         *)
DirectoryIsTrue ==
    /\ Finished =>
         /\ dir.manifest.whole /\ dir.adapter # None /\ dir.adapter.whole
         /\ dir.manifest.adapter = dir.adapter
    /\ run.pc = "idle" /\ ~Empty => Finished \/ dir.partial # None

(* An adapter, and a checkpoint a later run resumes from, is trained on      *)
(* nothing but passing trajectories of the train split in which every action *)
(* was valid, and on no record a tokenizer refused.                          *)
TrainedAreSuccesses ==
    \A made \in {dir.adapter, dir.checkpoint} \ {None} :
        \A r \in made.trained : LET k == kind[r.trajectory] IN
            k.verdict = "passed" /\ k.split = "train" /\ ~k.invalid /\ ~k.separator /\ ~k.long

(* A file this run has tokenized, and one whose report another's replaced:    *)
(* the validation file comes second, under the same name if the stems agree. *)
Built(f) == run.accepted[f] # {}

Replaced(f) == SameStem /\ f = "train" /\ Built("validation")

(* Each file a run tokenized has a report in the directory of exactly the    *)
(* records the run refused of it, never those of the other file or of an     *)
(* earlier run, unless the second file has the name of the first: then the   *)
(* one report is the second's.                                               *)
ReportsAreTrue ==
    \A f \in Files : Built(f) /\ ~Replaced(f) => dir.rejected[ReportOf(f)] = run.refused[f]

(* Whatever stopped on the way, the files and the run directories say what   *)
(* was trained on: whole files of one preparation, verified successes only,  *)
(* and reports of the records refused.                                       *)
TrainingRecordsAreTrue ==
    /\ FilesAreWhole
    /\ DirectoryIsTrue
    /\ TrainedAreSuccesses
    /\ ReportsAreTrue

(* Said of the program: a run writes "rejected-record reports"               *)
(* (docs/CLOUD_RUNBOOK.md:511): what a finished run refused is reported.     *)
RefusedAreReported ==
    Finished /\ run.pc = "idle" =>
        \A f \in Files : run.refused[f] \subseteq
            UNION {dir.rejected[g] : g \in {g \in Files : dir.rejected[g] # NoFile}}

(* Said of the program: the file built is "an SFT JSONL file"                *)
(* (prepare_sft.py:1): its reader reads what its writer wrote.               *)
FilesAreReadable == \A f \in Files : file[f] # NoFile => Readable(file[f])

(* Said of the program: SFT conversion trains on "the exact replayed         *)
(* conversation" (docs/ARCHITECTURE.md:115): each record is the conversation *)
(* of the task the trajectory ran.                                           *)
RecordsAreReplays == \A f \in Files : \A r \in file[f] \ NoFile : r.version = First

(* Said of the program: "SFT admission rejects trajectories with invalid     *)
(* actions" (training/records.py:107): trajectories, not the preparation of  *)
(* the others.                                                               *)
OnlyTheUnfitAreRejected ==
    prep.last = "raised" =>
        \/ \E t \in stored : kind[t].verdict = "passed_other_patch"
        \/ \A t \in Successes(prep.file) : kind[t].invalid

(* Said of the program: the manifest holds "provenance evidence"             *)
(* (training/provenance.py:1): the inputs it names are those trained on.     *)
EvidenceIsOfTheInputs ==
    Finished /\ run.pc = "idle" /\ run.evidence # None =>
        \A f \in DOMAIN run.evidence :
            run.accepted[f] \cup run.refused[f] = dir.manifest.evidence[f]
=============================================================================
