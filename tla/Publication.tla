----------------------------- MODULE Publication -----------------------------
(* Publication of sealed task files (tasks/materialize.py):                  *)
(* write_runtime_splits, and write_swe_smith_import which does the same with *)
(* other files, by any number of processes in one directory, with a process  *)
(* that verifies the directory meanwhile (verify_runtime_splits).            *)
(*                                                                           *)
(* The files are numbered in the order in which they are linked; the last of *)
(* them, the metadata, holds the digests of the others. One action is one    *)
(* operation on the file system. A file's content is the writer it is of:    *)
(* the seals of two writers differ.                                          *)
EXTENDS Naturals, FiniteSets

CONSTANTS Writers, Nobody, N

ASSUME FilesAssumption == N \in Nat \ {0} /\ Nobody \notin Writers

Files == 1 .. N

VARIABLES
    dir,        \* file -> the writer whose content lies under that name
    temps,      \* writer -> its temporary files in the directory
    pc,         \* writer -> where it is
    next,       \* writer -> the next file it works on
    temporary,  \* writer -> the temporaries it remembers
    published,  \* writer -> the targets it remembers having linked
    reader,     \* where the verification is
    seal,       \* whose metadata it read
    at,         \* the file it is at
    loaded      \* file -> whose content it used

writing == <<temps, pc, next, temporary, published>>
reading == <<reader, seal, at, loaded>>
vars == <<dir, writing, reading>>

Ended == {"done", "failed", "killed"}

Init ==
    /\ dir = [f \in Files |-> Nobody]
    /\ temps = [w \in Writers |-> {}]
    /\ pc = [w \in Writers |-> "start"]
    /\ next = [w \in Writers |-> 1]
    /\ temporary = [w \in Writers |-> {}]
    /\ published = [w \in Writers |-> {}]
    /\ reader = "start" /\ seal = Nobody /\ at = 1
    /\ loaded = [f \in Files |-> Nobody]

Goto(w, where) == pc' = [pc EXCEPT ![w] = where]

-----------------------------------------------------------------------------
(* Writers                                                                   *)

(* Nothing is written over an existing file.                                 *)
Begin(w) ==
    /\ pc[w] = "start"
    /\ Goto(w, IF \A f \in Files : dir[f] = Nobody THEN "write" ELSE "failed")
    /\ UNCHANGED <<dir, temps, next, temporary, published, reading>>

(* A temporary is written, flushed and synced, then remembered.              *)
WriteTemporary(w) ==
    /\ pc[w] = "write"
    /\ temps' = [temps EXCEPT ![w] = @ \union {next[w]}]
    /\ temporary' = [temporary EXCEPT ![w] = @ \union {next[w]}]
    /\ IF next[w] = N THEN Goto(w, "link") /\ next' = [next EXCEPT ![w] = 1]
                      ELSE next' = [next EXCEPT ![w] = @ + 1] /\ UNCHANGED pc
    /\ UNCHANGED <<dir, published, reading>>

(* Opening, writing or syncing fails: the file may exist and is not yet      *)
(* remembered.                                                               *)
WriteFails(w) ==
    /\ pc[w] = "write"
    /\ temps' \in {temps, [temps EXCEPT ![w] = @ \union {next[w]}]}
    /\ Goto(w, "rollback")
    /\ UNCHANGED <<dir, next, temporary, published, reading>>

(* os.link fails when the name is taken.                                     *)
Link_Replaces(w) ==
    /\ pc[w] = "link"
    /\ dir' = [dir EXCEPT ![next[w]] = w]
    /\ published' = [published EXCEPT ![w] = @ \union {next[w]}]
    /\ IF next[w] = N THEN Goto(w, "sweep") /\ UNCHANGED next
                      ELSE next' = [next EXCEPT ![w] = @ + 1] /\ UNCHANGED pc
    /\ UNCHANGED <<temps, temporary, reading>>

Link_MetadataFirst(w) ==
    LET f == IF next[w] = 1 THEN N ELSE next[w] - 1 IN
    /\ pc[w] = "link" /\ dir[f] = Nobody
    /\ dir' = [dir EXCEPT ![f] = w]
    /\ published' = [published EXCEPT ![w] = @ \union {f}]
    /\ IF next[w] = N THEN Goto(w, "sweep") /\ UNCHANGED next
                      ELSE next' = [next EXCEPT ![w] = @ + 1] /\ UNCHANGED pc
    /\ UNCHANGED <<temps, temporary, reading>>

Link(w) ==
    /\ pc[w] = "link" /\ dir[next[w]] = Nobody
    /\ dir' = [dir EXCEPT ![next[w]] = w]
    /\ published' = [published EXCEPT ![w] = @ \union {next[w]}]
    /\ IF next[w] = N THEN Goto(w, "sweep") /\ UNCHANGED next
                      ELSE next' = [next EXCEPT ![w] = @ + 1] /\ UNCHANGED pc
    /\ UNCHANGED <<temps, temporary, reading>>

LinkFails(w) ==
    /\ pc[w] = "link"
    /\ Goto(w, "rollback")
    /\ UNCHANGED <<dir, temps, next, temporary, published, reading>>

(* The except clause: published targets are removed one by one.              *)
Rollback(w) ==
    /\ pc[w] = "rollback"
    /\ IF published[w] = {}
       THEN Goto(w, "abort") /\ UNCHANGED <<dir, published>>
       ELSE \E f \in published[w] :
              /\ \A g \in published[w] : f <= g
              /\ dir' = [dir EXCEPT ![f] = Nobody]
              /\ published' = [published EXCEPT ![w] = @ \ {f}]
              /\ UNCHANGED pc
    /\ UNCHANGED <<temps, next, temporary, reading>>

(* An unlink fails: the exception leaves the other targets where they are.   *)
RollbackFails(w) ==
    /\ pc[w] = "rollback" /\ published[w] # {}
    /\ Goto(w, "abort")
    /\ UNCHANGED <<dir, temps, next, temporary, published, reading>>

(* The finally clause, after a return ("sweep") or an exception ("abort").   *)
Outcome == [sweep |-> "done", abort |-> "failed"]

Sweep(w) ==
    /\ pc[w] \in {"sweep", "abort"}
    /\ \/ temporary[w] = {} /\ Goto(w, Outcome[pc[w]]) /\ UNCHANGED <<temps, temporary>>
       \/ \E f \in temporary[w] :
            /\ temps' = [temps EXCEPT ![w] = @ \ {f}]
            /\ temporary' = [temporary EXCEPT ![w] = @ \ {f}]
            /\ UNCHANGED pc
    /\ UNCHANGED <<dir, next, published, reading>>

SweepFails(w) ==
    /\ pc[w] \in {"sweep", "abort"} /\ temporary[w] # {}
    /\ Goto(w, "failed")
    /\ UNCHANGED <<dir, temps, next, temporary, published, reading>>

(* The process dies, perhaps with a temporary open.                          *)
Kill(w) ==
    /\ pc[w] \notin Ended
    /\ Goto(w, "killed")
    /\ temps' \in {temps} \union
         (IF pc[w] = "write" THEN {[temps EXCEPT ![w] = @ \union {next[w]}]} ELSE {})
    /\ UNCHANGED <<dir, next, temporary, published, reading>>

-----------------------------------------------------------------------------
(* The reader                                                                *)

ReadMetadata ==
    /\ reader = "start"
    /\ seal' = dir[N] /\ at' = 1
    /\ reader' = IF dir[N] = Nobody THEN "rejects" ELSE IF N = 1 THEN "accepts" ELSE "hash"
    /\ UNCHANGED <<dir, writing, loaded>>

(* The digest is taken of the file, which is opened again to be loaded.      *)
HashFile ==
    /\ reader = "hash"
    /\ reader' = IF dir[at] = seal THEN "load" ELSE "rejects"
    /\ UNCHANGED <<dir, writing, seal, at, loaded>>

LoadFile ==
    /\ reader = "load"
    /\ loaded' = [loaded EXCEPT ![at] = dir[at]]
    /\ at' = at + 1
    /\ reader' = IF dir[at] = Nobody THEN "rejects"
                 ELSE IF at + 1 = N THEN "accepts" ELSE "hash"
    /\ UNCHANGED <<dir, writing, seal>>

(* Somebody verifies the directory anew.                                     *)
ReadAgain ==
    /\ reader \in {"accepts", "rejects"}
    /\ reader' = "start" /\ seal' = Nobody /\ at' = 1
    /\ loaded' = [f \in Files |-> Nobody]
    /\ UNCHANGED <<dir, writing>>

Writer(w) ==
    \/ Begin(w) \/ WriteTemporary(w) \/ WriteFails(w) \/ Link(w) \/ LinkFails(w)
    \/ Rollback(w) \/ RollbackFails(w) \/ Sweep(w) \/ SweepFails(w) \/ Kill(w)

Reader == ReadMetadata \/ HashFile \/ LoadFile \/ ReadAgain

Next == (\E w \in Writers : Writer(w)) \/ Reader

Spec == Init /\ [][Next]_vars

-----------------------------------------------------------------------------
(* Properties                                                                *)

(* The values of the variables.                                              *)
TypeOK ==
    /\ dir \in [Files -> Writers \union {Nobody}]
    /\ temps \in [Writers -> SUBSET Files] /\ temporary \in [Writers -> SUBSET Files]
    /\ published \in [Writers -> SUBSET Files]
    /\ pc \in [Writers -> {"start", "write", "link", "rollback", "sweep", "abort"} \union Ended]
    /\ next \in [Writers -> Files]
    /\ reader \in {"start", "hash", "load", "accepts", "rejects"}
    /\ seal \in Writers \union {Nobody} /\ at \in Files
    /\ loaded \in [Files -> Writers \union {Nobody}]

(* Metadata in the directory means that every file is there and is of the    *)
(* writer that made the metadata, at any moment: between two links, after a  *)
(* kill, and while other writers roll back.                                  *)
SealedIsComplete == dir[N] # Nobody => \A f \in Files : dir[f] = dir[N]

(* What the verification accepts is one writer's set, although it opens each *)
(* file twice and others publish and roll back meanwhile.                    *)
AcceptedIsWhole ==
    reader = "accepts" => \A f \in Files \ {N} : loaded[f] = seal /\ seal # Nobody

(* A writer reports success only when its set is the one in the directory;   *)
(* a writer that fails and could undo its links has left nothing there.      *)
OutcomeIsTrue ==
    \A w \in Writers :
        /\ pc[w] = "done" => \A f \in Files : dir[f] = w
        /\ pc[w] \in {"abort", "failed"} /\ published[w] = {} => \A f \in Files : dir[f] # w

(* The temporaries in the directory are those that their writer remembers,   *)
(* and at most one more, whose writing failed or was cut short.              *)
TemporariesAreSwept ==
    \A w \in Writers :
        /\ temporary[w] \subseteq temps[w]
        /\ Cardinality(temps[w] \ temporary[w]) <= 1

(* A published set is one writer's and whole, whoever looks at it and        *)
(* whenever, a writer that lives knows whether it is its own, and what a     *)
(* writer leaves beside it is bounded.                                       *)
PublicationIsWhole ==
    /\ SealedIsComplete
    /\ AcceptedIsWhole
    /\ OutcomeIsTrue
    /\ TemporariesAreSwept

(* No file is ever replaced, and only the writer that linked it removes it,  *)
(* while it rolls back.                                                      *)
NothingIsOverwritten == [][
    \A f \in Files : dir[f] # Nobody /\ dir'[f] # dir[f] =>
        dir'[f] = Nobody /\ pc[dir[f]] = "rollback"]_vars

(* The protocol implements the one atomic step its readers rely on.          *)
Contract == INSTANCE PublicationContract WITH published <- dir[N]
KeepsContract == Contract!Spec
=============================================================================
