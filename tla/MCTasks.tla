------------------------------- MODULE MCTasks -------------------------------
(* The life of a task, from its preparation to the rollouts that start from  *)
(* it, in small instances: what may be patched, how tasks are prepared and   *)
(* admitted, how they are imported and materialized, and how the files are   *)
(* published. These components share no state, they hand over files: each is *)
(* explored while the others rest in one of their initial states.            *)
EXTENDS PatchPolicy, Preparation, Admission, DatasetTrust, Publication, TLC

-----------------------------------------------------------------------------
(* Two files of the allowed directory, a forbidden one in it, one outside,   *)
(* and a header that leads out of the repository. The lines of text are      *)
(* plain ones, with and without a marker of a bypassed test; some with two   *)
(* signs more, which name the first file, no file, or nothing; and some that *)
(* are split, with a marker or a line of a header after the form feed.       *)
MCSource == <<"src", "a.py">>
MCConftest == <<"src", "conftest.py">>
MCDocs == <<"docs", "d.md">>
MCOther == <<"src", "b.py">>
MCPatchPaths == {MCSource, MCConftest, MCDocs, MCOther}
MCUnsafe == {<<"..", "x">>}
MCAllowedPaths == {<<"src">>}
MCForbidden == {MCConftest}

MCPiece(sign, begins, name, skip) ==
    [sign |-> sign, begins |-> begins, name |-> name, skip |-> skip]
MCPlain == MCPiece("+", "words", DevNull, FALSE)

MCTexts ==
    {[first |-> f, rest |-> {}] :
        f \in {MCPlain, MCPiece("-", "words", DevNull, TRUE), MCPiece("-", "header", MCOther, FALSE),
              MCPiece("+", "words", DevNull, TRUE), MCPiece("+", "marks", DevNull, TRUE),
              MCPiece("+", "header", MCOther, TRUE), MCPiece("+", "header", DevNull, TRUE)}}
    \union {[first |-> MCPlain, rest |-> {r}] :
        r \in {MCPiece("no", "words", DevNull, TRUE), MCPiece("+", "words", DevNull, TRUE),
              Line("new", MCSource)}}

MCBodies == {{}} \union {{l} : l \in MCTexts}

PatchRests == patch = {CHOOSE s \in Sections : TRUE} /\ oversized = FALSE /\ PatchInit

(* Two tasks, and: an allowed file, one outside the policy, an ignored file  *)
(* that is in the base commit, a hidden test, and a path for a new file      *)
(* below it. Mutations change at most three paths.                           *)
MCPaths == {"source", "config", "generated", "test", "new_test"}
MCBase == {"source", "config", "generated", "test"}
MCIgnored == {"generated"}
MCHidden == {"test", "new_test"}
MCAllowed == {"source", "generated", "test"}
MCMutants == {t \in Trees : Cardinality({p \in MCPaths : t[p] # Clean[p]}) <= 3}

PreparationRests ==
    mutation = [t \in TaskNumbers |-> Clean] /\ output = NoOutput /\ PreparationInit

(* Two tests. At most one required run is irregular: its executions come to  *)
(* one of two results out of a wide choice. The others do as promised.       *)
CONSTANTS t1, t2

MCResult(exit, s1, s2) ==
    [exit |-> exit, killed |-> exit = Killed, report |-> t1 :> s1 @@ t2 :> s2]

MCPasses == MCResult(0, "passed", "passed")
MCFails == MCResult(1, "failed", "passed")

MCRegular(fails) ==
    [r \in 1 .. 5 |-> {IF r = BuggyTarget \/ (fails /\ r = BuggyRegression) THEN MCFails ELSE MCPasses}]

MCOdd ==
    {MCPasses, MCFails, MCResult(1, "passed", "failed"), MCResult(0, "passed", "skipped"),
     MCResult(0, "skipped", "skipped"), MCResult(1, "passed", "passed"),
     MCResult(Killed, "failed", "passed"), MCResult(TimedOut, "failed", "failed"),
     [exit |-> 1, killed |-> FALSE, report |-> Missing],
     [exit |-> 0, killed |-> FALSE, report |-> ForeignReport]}

MCBehaviours ==
    {[MCRegular(fails) EXCEPT ![r] = {a, b}] :
        fails \in BOOLEAN, r \in 1 .. 5, a \in MCOdd, b \in MCOdd}

MCProblems == {{}, {"leak"}}

AdmissionRests ==
    does = MCRegular(FALSE) /\ expectation = "passes" /\ problems = {} /\ AdmissionInit

(* One import of three tasks, which share a repository, an address, a        *)
(* lineage, a commit or a content or not, in two splits; the first task's    *)
(* values are "a", as names do not matter. And two imports of two tasks, one *)
(* a split: the second task may share an address or a commit with the first, *)
(* and the imports differ in a commit or in the evidence.                    *)
MCRecords(found, values) ==
    {r \in [repository : values, url : values, lineage : values, commit : values,
            fingerprint : values, split : Splits, evidence : found] : r.lineage = r.url}

MCFirst(commit) ==
    [repository |-> "a", url |-> "a", lineage |-> "a", commit |-> commit,
     fingerprint |-> "a", split |-> "train", evidence |-> "sound"]

MCImports ==
    {<<MCFirst("a"), r, s>> : r \in MCRecords({"sound"}, {"a", "b"}), s \in MCRecords({"sound"}, {"a", "b"})}

MCSecond ==
    {r \in MCRecords(Contents, {"a", "b", "c"}) :
        /\ r.url \in {"a", "b"} /\ r.split = "test" /\ r.repository = "b" /\ r.fingerprint = "b"}

MCRevisions == {<<MCFirst(c), r>> : c \in {"a", "c"}, r \in MCSecond}

MCHistories == {<<e>> : e \in MCImports} \cup (MCRevisions \X MCRevisions)

DatasetRests ==
    exports = <<[t \in Tasks |-> MCFirst("a")]>> /\ disk = [t \in Tasks |-> "sound"] /\ DatasetInit

(* Two writers, alike, four files and one verification.                      *)
Alike == Permutations(Writers)

-----------------------------------------------------------------------------
VARIABLE part  \* the component that moves

TasksInit ==
    \/ part = "policy" /\ PreparationRests /\ AdmissionRests /\ DatasetRests /\ Init /\ PatchInit
    \/ part = "preparation" /\ PatchRests /\ AdmissionRests /\ DatasetRests /\ Init /\ PreparationInit
    \/ part = "admission" /\ PatchRests /\ PreparationRests /\ DatasetRests /\ Init /\ AdmissionInit
    \/ part = "dataset" /\ PatchRests /\ PreparationRests /\ AdmissionRests /\ Init /\ DatasetInit
    \/ part = "files" /\ PatchRests /\ PreparationRests /\ AdmissionRests /\ DatasetRests /\ Init

tasksVars == <<patchVars, preparationVars, admissionVars, datasetVars, vars>>

TasksNext ==
    /\ UNCHANGED part
    /\ \/ /\ part = "policy" /\ PatchNext
          /\ UNCHANGED <<preparationVars, admissionVars, datasetVars, vars>>
       \/ /\ part = "preparation" /\ PreparationNext
          /\ UNCHANGED <<patchVars, admissionVars, datasetVars, vars>>
       \/ /\ part = "admission" /\ AdmissionNext
          /\ UNCHANGED <<patchVars, preparationVars, datasetVars, vars>>
       \/ /\ part = "dataset" /\ DatasetNext
          /\ UNCHANGED <<patchVars, preparationVars, admissionVars, vars>>
       \/ /\ part = "files" /\ Next
          /\ UNCHANGED <<patchVars, preparationVars, admissionVars, datasetVars>>

TasksSpec == TasksInit /\ [][TasksNext]_<<part, tasksVars>>

(* The variables of every component keep their types.                        *)
TypesOK ==
    /\ PatchTypeOK
    /\ PreparationTypeOK
    /\ AdmissionTypeOK
    /\ DatasetTypeOK
    /\ TypeOK
=============================================================================
