---------------------------- MODULE DatasetTrust ----------------------------
(* From exported tasks to the tasks of a rollout: the import of an export    *)
(* (tasks/adapters.py), the sealed dataset and its audit (tasks/dataset.py,  *)
(* tasks/lineage.py), materialization from files that may come from          *)
(* different imports (tasks/materialize.py), and the collector's checks of   *)
(* the runtime tasks it is given (rollouts/config.py).                       *)
(*                                                                           *)
(* A digest is the thing it is the digest of. The artifacts of a task are    *)
(* one content, which may change on disk at any time; what a content is      *)
(* worth was found out by its admission (see Admission). The evidence is     *)
(* compared with the whole content, where the code compares the snapshots    *)
(* and leaves the hidden tests to the digest of the manifest.                *)
EXTENDS Naturals, FiniteSets, Functions

CONSTANTS
    Tasks,
    Splits,
    Histories,    \* what is exported, version by version: tasks and their records
    Contents,     \* what may lie under a task's artifact paths
    SoundContents \* the contents whose admission evidence admits the task

(* A record of an export, in normal form.                                    *)
Attributes == {"repository", "url", "lineage", "commit", "fingerprint", "split", "evidence"}

ASSUME DatasetAssumption ==
    /\ IsFiniteSet(Splits)
    /\ SoundContents \subseteq Contents
    /\ \A h \in Histories : \A v \in DOMAIN h :
         /\ DOMAIN h[v] \subseteq Tasks
         /\ \A t \in DOMAIN h[v] : /\ DOMAIN h[v][t] = Attributes
                                   /\ h[v][t].split \in Splits
                                   /\ h[v][t].evidence \in Contents

DatasetFiles == {"manifests", "dataset", "seal", "repositories", "evidence", "results"}

VARIABLES
    exports,   \* version -> the export it is imported from, as a dataset of its own
    disk,      \* task -> the content of its artifacts
    imported,  \* version -> what its import wrote
    runtime,   \* the runtime tasks, once materialized
    rollouts   \* the tasks a collector accepted, with the content it saw

datasetVars == <<exports, disk, imported, runtime, rollouts>>

NotYet == [none |-> TRUE]

Imported == {v \in DOMAIN imported : imported[v] # NotYet}

DatasetInit ==
    /\ exports \in Histories
    /\ disk \in [Tasks -> Contents]
    /\ imported = [v \in DOMAIN exports |-> NotYet]
    /\ runtime = NotYet /\ rollouts = NotYet

-----------------------------------------------------------------------------
(* The audit                                                                 *)

(* Records that share a value and are of different splits.                   *)
Conflict(sharing) == Cardinality({r.split : r \in sharing}) >= 2

LineageIsClean(records) ==
    \A r \in records :
        /\ ~Conflict({q \in records : q.lineage = r.lineage})
        /\ ~Conflict({q \in records : q.url = r.url})
        /\ \A c \in r.commits : ~Conflict({q \in records : c \in q.commits})
        /\ \A f \in r.fingerprints : ~Conflict({q \in records : f \in q.fingerprints})

(* audit_sealed_split: the seal holds the digests of the dataset, and every  *)
(* task has one repository record, which agrees with it.                     *)
AuditIsValid(dataset, seal, records) ==
    /\ seal = dataset
    /\ \A t \in DOMAIN dataset.entries : LET entry == dataset.entries[t] IN
         \E r \in records :
           /\ {q \in records : q.repository = entry.repository} = {r}
           /\ r.split = entry.split /\ r.url = entry.url /\ r.lineage = entry.lineage
    /\ LineageIsClean(records)

-----------------------------------------------------------------------------
(* The import                                                                *)

Result(t, content) == [task |-> t, evidence |-> content]

Manifest(t, r, content) ==
    [task |-> t, split |-> r.split, url |-> r.url, lineage |-> r.lineage, commit |-> r.commit,
     content |-> content, result |-> Result(t, r.evidence)]

Same(export, t) == {u \in DOMAIN export : export[u].repository = export[t].repository}

(* Records of one repository are merged when they agree on what it is.       *)
Merged(export) ==
    {[repository |-> export[t].repository, url |-> export[t].url,
      lineage |-> export[t].lineage, split |-> export[t].split,
      commits |-> {export[u].commit : u \in Same(export, t)},
      fingerprints |-> {export[u].fingerprint : u \in Same(export, t)}] : t \in DOMAIN export}

Mergeable(export) ==
    \A t \in DOMAIN export : \A u \in Same(export, t) :
        /\ export[t].url = export[u].url /\ export[t].lineage = export[u].lineage
        /\ export[t].split = export[u].split
        /\ export[t].commit = export[u].commit => export[t].fingerprint = export[u].fingerprint

Bundle(v) ==
    LET export == exports[v]
        manifests == [t \in DOMAIN export |-> Manifest(t, export[t], disk[t])]
        dataset == [version |-> v,
                    entries |-> [t \in DOMAIN export |->
                        [split |-> export[t].split, repository |-> export[t].repository,
                         url |-> export[t].url, lineage |-> export[t].lineage,
                         manifest |-> manifests[t], result |-> manifests[t].result]]]
    IN  [manifests |-> manifests, dataset |-> dataset, seal |-> dataset,
         repositories |-> Merged(export),
         evidence |-> [t \in DOMAIN export |-> export[t].evidence],
         results |-> [t \in DOMAIN export |-> manifests[t].result]]

(* The artifacts are hashed, the evidence judged anew and compared.          *)
Import(v) ==
    LET export == exports[v] IN
    /\ imported[v] = NotYet
    /\ \A t \in DOMAIN export : export[t].evidence \in SoundContents /\ export[t].evidence = disk[t]
    /\ Mergeable(export)
    /\ AuditIsValid(Bundle(v).dataset, Bundle(v).seal, Bundle(v).repositories)
    /\ imported' = [imported EXCEPT ![v] = Bundle(v)]
    /\ UNCHANGED <<exports, disk, runtime, rollouts>>

-----------------------------------------------------------------------------
(* Materialization                                                           *)

(* validate_dataset_trust.                                                   *)
Trusted_AnyManifest(f) ==
    LET entries == f.dataset.entries IN
    /\ AuditIsValid(f.dataset, f.seal, f.repositories)
    /\ DOMAIN f.manifests = DOMAIN entries
    /\ \A t \in DOMAIN entries : f.manifests[t].split = entries[t].split

Trusted(f) ==
    LET entries == f.dataset.entries IN
    /\ AuditIsValid(f.dataset, f.seal, f.repositories)
    /\ DOMAIN f.manifests = DOMAIN entries
    /\ DOMAIN f.evidence = DOMAIN entries /\ DOMAIN f.results = DOMAIN entries
    /\ \A t \in DOMAIN entries :
         LET sealed == f.manifests[t]
             entry == entries[t]
         IN  /\ f.results[t] = Result(t, f.evidence[t]) /\ f.evidence[t] \in SoundContents
             /\ sealed = entry.manifest /\ f.results[t] = entry.result
             /\ f.results[t] = sealed.result
             /\ f.evidence[t] = sealed.content
             /\ entry.split = sealed.split /\ entry.url = sealed.url
             /\ entry.lineage = sealed.lineage
             /\ \A r \in f.repositories : r.repository = entry.repository =>
                                             sealed.commit \in r.commits

(* The dataset, its seal and the repository records are each one import's    *)
(* file; manifests, evidence and results are lists, in which the records of  *)
(* several imports may be mixed.                                             *)
Lists == {"manifests", "evidence", "results"}

Taken(pick, mix) ==
    [f \in DatasetFiles |->
        IF f \in Lists
        THEN [t \in {u \in DOMAIN mix[f] : u \in DOMAIN imported[mix[f][u]][f]} |->
                imported[mix[f][t]][f][t]]
        ELSE imported[pick[f]][f]]

(* Every artifact is hashed.                                                 *)
ArtifactsAreSealed(manifests) == \A t \in DOMAIN manifests : disk[t] = manifests[t].content

Materialize ==
    /\ runtime = NotYet
    /\ LET known == UNION {DOMAIN exports[v] : v \in Imported} IN
       \E pick \in [DatasetFiles \ Lists -> Imported], mix \in [Lists -> [known -> Imported]] :
         LET f == Taken(pick, mix) IN
         /\ Trusted(f)
         /\ ArtifactsAreSealed(f.manifests)
         /\ \A s \in Splits : \E t \in DOMAIN f.manifests : f.manifests[t].split = s
         /\ runtime' = [dataset |-> f.dataset, repositories |-> f.repositories,
                        tasks |-> f.manifests]
    /\ UNCHANGED <<exports, disk, imported, rollouts>>

-----------------------------------------------------------------------------
(* Collection                                                                *)

(* The artifacts are hashed once more, on the worker.                        *)
PathsAreSealed(tasks) == \A t \in tasks : runtime.tasks[t].content = disk[t]

(* validate_task_bindings, and the artifacts. The expected digests are those *)
(* of an import, the runtime file is one split's.                            *)
Bound(v, split, tasks) ==
    /\ runtime.dataset = imported[v].dataset
    /\ runtime.repositories = imported[v].repositories
    /\ \A t \in tasks : runtime.tasks[t].split = split
    /\ PathsAreSealed(tasks)

Collect ==
    /\ runtime # NotYet
    /\ \E v \in Imported, expected, given \in Splits :
         LET tasks == {t \in DOMAIN runtime.tasks : runtime.tasks[t].split = given} IN
         /\ Bound(v, expected, tasks)
         /\ rollouts' = [version |-> v, split |-> expected, saw |-> [t \in tasks |-> disk[t]]]
    /\ UNCHANGED <<exports, disk, imported, runtime>>

(* Somebody changes a task's artifacts.                                      *)
Change ==
    /\ \E t \in Tasks, c \in Contents : disk' = [disk EXCEPT ![t] = c]
    /\ UNCHANGED <<exports, imported, runtime, rollouts>>

DatasetNext == (\E v \in DOMAIN exports : Import(v)) \/ Materialize \/ Collect \/ Change

DatasetSpec == DatasetInit /\ [][DatasetNext]_datasetVars

-----------------------------------------------------------------------------
(* Properties                                                                *)

(* The values of the variables.                                              *)
DatasetTypeOK ==
    /\ \A v \in DOMAIN exports : DOMAIN exports[v] \subseteq Tasks
    /\ disk \in [Tasks -> Contents]
    /\ \A v \in Imported :
         /\ DOMAIN imported[v] = DatasetFiles
         /\ DOMAIN imported[v].manifests = DOMAIN exports[v]
    /\ runtime # NotYet => DOMAIN runtime.tasks \subseteq Tasks
    /\ rollouts # NotYet => /\ DOMAIN rollouts.saw \subseteq DOMAIN runtime.tasks
                             /\ rollouts.split \in Splits

(* No repository reaches two splits of an imported dataset, by its name, its *)
(* address, its lineage, a commit or the contents of one, however many       *)
(* records were merged into it.                                              *)
Related(a, b) ==
    \/ a.repository = b.repository \/ a.url = b.url \/ a.lineage = b.lineage
    \/ a.commit = b.commit \/ a.fingerprint = b.fingerprint

ImportsKeepSplitsApart ==
    \A v \in Imported :
        \A t, u \in DOMAIN exports[v] :
            Related(exports[v][t], exports[v][u]) => exports[v][t].split = exports[v][u].split

(* The same of what is materialized from the files of several imports,       *)
(* except for fingerprints, which only the repository records hold: nothing  *)
(* in the dataset says which records it was sealed with.                     *)
RuntimesKeepSplitsApart ==
    runtime # NotYet =>
        \A t, u \in DOMAIN runtime.tasks :
            LET a == runtime.tasks[t]
                b == runtime.tasks[u]
            IN  a.url = b.url \/ a.lineage = b.lineage \/ a.commit = b.commit => a.split = b.split

(* What a rollout starts from was admitted: the content the collector saw    *)
(* is the content whose evidence was judged, through import, seal and        *)
(* materialization, and of a task of the split that was asked for.           *)
RolloutsStartFromAdmitted ==
    rollouts # NotYet =>
        \A t \in DOMAIN rollouts.saw :
            /\ rollouts.saw[t] \in SoundContents
            /\ rollouts.saw[t] = exports[rollouts.version][t].evidence
            /\ exports[rollouts.version][t].split = rollouts.split

(* From the import to the rollout, a task keeps its split and its content:   *)
(* no repository family is both trained on and tested on, and a rollout      *)
(* starts from what was admitted.                                            *)
DatasetIsTrusted ==
    /\ ImportsKeepSplitsApart
    /\ RuntimesKeepSplitsApart
    /\ RolloutsStartFromAdmitted
=============================================================================
