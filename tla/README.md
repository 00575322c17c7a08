# RepoRL in TLA+

RepoRL trains a code-editing agent with reinforcement learning. An agent works
on a task in a container, its patch is verified in other containers with tests
it never saw, the verdict becomes a reward, and groups of rewarded rollouts
feed a GRPO trainer. This directory holds TLA+ modules translated from the
Python sources, the TLC configurations that check them on small instances, and
TLAPS proofs that hold for every value of the constants. `PROJECT.json` maps
each definition to the lines it models.

Source paths are relative to the repository's `src/reporl/`.

## 1. The system

### Components

| Component | State it keeps | Operations | What makes it correct |
|---|---|---|---|
| Agent runner (`agent/runner.py`, `agent/environment.py`) | step index, token total, malformed streak, start time, events, reason, patch, the sandbox | `run`: reset, ask the policy, judge the reply, execute a tool, export the diff, close | budgets bind every tool call; the reported reason is the true one; no work and no container is lost silently; it always ends |
| Verifier pipeline (`verifier/pipeline.py`) | suite results, the result so far | `verify`: inspect, apply, re-inspect, run the suites, close | a pass is earned; the verdict names what failed; infrastructure failures are never held against the agent, nor the reverse |
| Verifier sandbox (`verifier/docker.py`) | validation container, one suite container at a time | `start`, `inspect_entries`, `apply_patch`, `changed_paths`, `run_suite`, `close` | containers isolated from one another; hidden tests never where the raw patch was handled; evidence frozen before it is read |
| Agent sandbox (`sandbox/docker.py`) | one container, initial tree hash | `start`, `search`, `read`, `apply_patch`, `run_suite`, `diff`, `close` | one deadline over several commands; no half-applied patch goes unnoticed |
| Tool gateway (`tools/`) | none | `execute`, patch policy, output bounds | unsafe paths and patches are refused; outputs are bounded |
| Policy clients (`agent/policy.py`, `remote_policy.py`, `hf_policy.py`) | server identity | `act` with an effective timeout | a timeout is blamed on whoever's deadline it was; answers of another policy are refused |
| Policy server (`agent/policy_server.py`) | one lock, the model | `act`, `health` | requests are served one at a time; identity is constant |
| Rollout collector (`rollouts/collector.py`) | run directory, groups, exclusions | `collect` | only complete groups of sound rollouts reach the trainer; the accounts add up; an interrupted run never looks complete |
| Rewards (`rewards/terminal.py`) | none | `compute_terminal_reward` | every success scores above every failure; infrastructure failures are ineligible |
| Stores (`rollouts/store.py`) | files | `put_bytes`, `append`, `get` | immutable, never half-written, safe under concurrent writers |
| Training records, GRPO trainer (`training/`) | gradient window, update count | `train` | groups are on-policy; zero-variance groups are skipped and reported; every gradient is applied once |
| SFT preparation and training (`training/prepare_sft.py`, `sft.py`) | record files, one output directory | `prepare`, tokenize and label, `train` | only verified successes enter; what is trained is what the policy said; an unfinished directory is never taken for a finished one |
| Evaluation (`evaluation/`) | none | metrics, paired bootstrap, report | methods are compared on the same tasks, and the summaries are of those tasks |
| Task preparation and admission (`tasks/swe_smith_prepare.py`, `admission.py`, `admission_docker.py`) | a bundle in a temporary directory, one container per run | mutate, snapshot, repair, run the suites, judge, rename | snapshots hide the tests and the repair restores them; flaky tasks are rejected; breakdowns decide nothing |
| Task data (`tasks/dataset.py`, `lineage.py`, `adapters.py`, `materialize.py`, `rollouts/config.py`) | sealed files | import, audit, materialize, publish, bind | no leakage between splits, also when files of different imports meet; publication is atomic |
| Cloud scripts (`cloud/`) | processes | preflight, watchdogs | a hung collector is ended |

### How they interact

`collect` runs, one candidate after another, `AgentRunner.run` and then
`Verifier.verify`; it reads only the termination reason, the patch and the
events of the first, and the status and the suites of the second, and turns
both into a reward, a record and perhaps an episode. The runner calls a policy
client, which may talk HTTP to the policy server in another process, and an
adapter that owns one container. The verifier owns a second set of containers.
The trainer reads the groups that the collector wrote.

### What is hard

*Time.* The runner reads the clock, acts on what it read, and reads it again:
every test is stale when it is used. Two deadlines, the client's and the
task's, race with the endpoint's answer. *Failure.* Every Docker operation may
fail, the removals of the cleanup too, sometimes after taking effect; handlers
of one failure run into the next. *Leftover processes.* Processes a test suite
leaves behind share its container with the evidence. *Order of verdicts.*
Several reasons may hold at once, and the later one overwrites or hides the
earlier. *Crashes.* A watchdog kills the collector at any line. `PROJECT.json`
lists each hazard at the line where it bites, with the properties that catch
it. *Files as interfaces.* The parts talk through
files that other processes write, replace and read at the same time; digests
are taken once and trusted later.

## 2. Modules

| Module | Models | Proofs |
|---|---|---|
| `AgentRunner` | one rollout: `AgentRunner.run`, the adapter's reset and close, the life of the container | `AgentRunnerProofs` |
| `Verifier` | one verification: `Verifier.verify` with `DockerVerifierSandbox` | `VerifierProofs` |
| `VerifierContract` | what `verify` promises its caller, in three actions; refined by `Verifier` | `Implements` in `VerifierProofs` |
| `Reward` | `compute_terminal_reward` and the validator of its weights, as operators | |
| `Scoring` | a task's rollouts turned into rewards and evaluation records | `LearningProofs` |
| `Collector` | one run directory: `collect`, its launches and interruptions, and the script that binds a GRPO job | `CollectorProofs` |
| `CollectorContract` | what a run directory promises the trainer; refined by `Collector` | `DirectoryKeepsContract` in `CollectorProofs` |
| `GRPOTrainer` | one output directory of the trainer: `train`, its window of gradients, its files, stops and relaunches | `GRPOTrainerProofs` |
| `AgentSandbox` | the agent's container: the commands of each tool call against its one deadline | `AgentSandboxProofs` |
| `PatchPolicy` | the inspection of a diff before and after Git applies it | `TaskProofs` |
| `PolicyService` | the policy server, its lock and its replacement, and the collectors that sample from it | `PolicyServiceProofs` |
| `Conversation` | compaction, replay, and the labels of a training record | `LearningProofs` |
| `Store` | the artifact and the trajectory store under concurrent writers | `LearningProofs` |
| `StoreContract` | a name is given its content once, and answers are true; refined by `Store` | `StoreImplements` in `LearningProofs` |
| `SFT` | `prepare`, and `train` with its output directory | `LearningProofs` |
| `Evaluation` | the comparison of two methods from their records | `LearningProofs` |
| `Admission` | the required runs of one task's snapshots, and the verdict | `TaskProofs` |
| `Preparation` | a bundle of tasks made from a repository and its mutations | `TaskProofs` |
| `DatasetTrust` | import, audit, materialization and the collector's checks of its tasks | `TaskProofs` |
| `Publication` | files linked into a directory by several writers, and their reader | `TaskProofs` |
| `PublicationContract` | an empty directory becomes one writer's complete set in a step; refined by `Publication` | `PublicationImplements` in `TaskProofs` |
| `MC...` | values for TLC | |

`Scoring` takes every trajectory the runner and every result the verifier may
return; `Collector` takes only the classes of them it branches on. Neither
instantiates `AgentRunner` or `Verifier`: the interfaces between them are the
termination reason and `VerifierContract`'s verdicts. In the same way
`AgentRunner` knows of `AgentSandbox` that a call returns or raises and how late,
of `PolicyService` that a call answers, fails or times out; `Collector` stores
files in the one step that `StoreContract` allows; `Preparation` takes an admission
to be a verdict (`Admission`), and `DatasetTrust` takes a publication to be the one
step of `PublicationContract`.

### AgentRunner

The program is one thread, so its state is a program counter (`pc`) and its
locals; what interleaves with it is time. `Tick` moves the clock whenever it
likes between two steps, and one action is one stretch of code between two
points where the clock is read or a call blocks. `call` remembers the last
clock read that a call rests on (`at`, and the `remaining` time it gave).

- `LoopTop`, `CallPolicy`: the wall-time test at the top of the loop, and the
  second clock read that is passed to the policy as its deadline.
- `PolicyReplies`, `PolicyFails`, `PolicyTimesOut`: what the client may do. A
  reply may come at any time, after the deadline too. A timeout comes only
  after the effective timeout (the smaller of the client's and what remains),
  and is blamed by `UsesTaskDeadline`.
- `JudgeOversized`, `JudgeMalformed`, `RefuseAction`, `AcceptFinish`,
  `AcceptTool`: the judgement of a reply, with one clock read after it, in the
  code's order of precedence.
- `StartTool`: a later clock read gives an accepted tool its time, which may be
  none; `ToolsWithinBudgets` therefore speaks of when the reply was judged.
- `ToolReturns`, `Observe`: the tool and the wall-time test after it. A
  mutating tool (`apply_patch`, `run_tests`) may change the workspace whatever
  it reports.
- `BeginExport`, `ExportSucceeds`, `ExportFails`, `Close`: the code after the
  loop and the `finally` clause. `Close` may fail, and is not retried.
- `ResetSucceeds`, `ResetFails`: a reset that fails after it created a
  container may leave it behind, and no adapter is attached to close it.

- `ParserFails`: the parser raises something `run` does not catch, for a reply
  nested too deep or a number too long for `json.loads`; the outer handler ends
  the rollout.

Texts are abstracted to what the runner decides on: the kind of a reply
(`inspect`, `mutate`, `finish`, `malformed`, `oversized`, `unparsable`), its token
usage, and the size of the workspace's diff.

### Verifier

One action is one Docker operation or one judgement of the pipeline. `box[0]`
is the validation container, `box[i]` that of suite `i`; a box records its
life, whether it holds the patch and the hidden tests, whether its command
ran, and what lies at the evidence path. Every operation has a failing branch
with the exception's way out: `Fail` for the operations of `verify`,
`FailInSuite` for those inside `run_suite`, whose `finally` clause
(`DiscardSuite`) removes the container first and may fail itself. A removal
that fails may have taken effect (`RemovalFails`). `Scribble` is a process left
behind by the tests that rewrites the evidence while its container runs.

`Handle` is the `except` clause: it puts the message into a bounded field, so
a long message makes the handler raise (`raised`). `Reject` is `_failure`,
whose bounded detail has the same effect one level further in, where the
generic handler turns it into an infrastructure error. `fault` is a history
variable: some infrastructure operation failed.

JUnit evidence is abstracted to what the pipeline distinguishes: absent,
unreadable (refused by the reader), malformed (a parse error), unrepresentable
(any other exception of the parser), failing, passing. Exit codes are 0, 1, 124 and 137:
`timeout --signal=KILL` ends with 137 while only 124 is taken for a timeout.

`VerifierContract` is what the collector relies on: suites run one by one and
are tallied; infrastructure may break; one final verdict is given, a pass only
on sound infrastructure with every suite run and passed, an agent failure only
on sound infrastructure and either before any suite or after all of them.
`Verifier!Status` maps `verify`'s state to that verdict.

### Reward and Scoring

The code computes with floats between 0 and 1. `Reward` counts fractions in
parts of `1/Scale` and rewards in parts of `1/(2 * Scale)`, so every sum is
exact; rounding is not modelled. `SuccessDominates`
is the validator of the weights. `Scoring` runs `_reward` and
`_evaluation_record` on the same rollout, as `collect` does, for a group of
candidates: `Rejections`, `Verdicts` and `Breakdowns` are the results `verify`
may return, `Trajectories` what `_reward` reads of a rollout, and the weights
are any the validator accepts. A trajectory without a patch is always rejected
by the patch policy (`tools/patch.py`), hence `Verifications`.

### Collector

Each launch is a thread of control (`pc`, `task`, `candidate`, `rollout`, and
`memory`, the lists that `collect` keeps); `disk` is the run directory they
share, `job` what the trainer was given. One action is one stretch of code up to
one change of the directory. `Stop` may end a launch between any two steps: an
exception anywhere in `collect` (nothing catches it), or the watchdog of
`run_collect.sh`; a later launch then meets what is left. A per-candidate file is
written in one step; the final manifest, which other programs read and which is
written in place, in two (`BeginManifest` leaves it torn), and the `.jsonl` files
by way of a temporary. `BindJob` is `prepare_grpo_job.sh`, whose checks of the
policy's identity always hold here; it reads manifest and groups in one step.
`Eligible` abstracts `Scoring`'s `InfrastructureError`.

The constant `Overlapping` says whether a launch may begin while another one
works. Nothing in the code prevents it; the documentation assumes it away.

`CollectorContract` has no files, launches or crashes: candidates are graded in
order, each once; then the tasks whose candidates are all trainable are published,
once; a job binds what was published or nothing. A candidate counts as
graded when its reward is stored, and the groups as published when the manifest
is complete.

### GRPOTrainer

The state is that of `train`: where it is (`pc`, `epoch`, `pending`, `group`,
`trace`), its counters (`accumulated`, `global_update`, and `schedule` for the
scheduler's steps), and the output directory. Two variables stand for the
tensors. `gradient` records how often each trace was added by `backward()` since
the last `zero_grad()`, and whether one of them was drifted; `policy` is the list
of gradients the optimizer has applied to the initial adapter. What the code
counts can therefore be compared with what it did.

`spread` says of each group which of the code's two tests for variance it passes:
`equal` rewards fail both, `close` rewards differ and pass only the first
(`zero_variance` of `records.py`, a set of numbers), `wide` rewards pass the
second one too (`math.py`, a variance against an epsilon). A seeded shuffle is modelled
as any order. Every trace of a group is alike, and a group is the sequence of all its
traces over its episodes. A check that raises, for lack of variance or for drift,
leaves no step but `Stop`, as any other exception or signal does.
Drift is chosen only while `policy` is still empty: later the trained policy
departs from the one that produced the rollouts by design.

`save_pretrained` writes a directory, and the manifest is written in place, so each
takes two steps with a torn file between them. `Relaunch` is a new process on the
same directory; launches do not overlap, and the job's groups, bound by
`prepare_grpo_job.sh`, do not change. A run whose inputs are
refused after `Prepare` is one that stops there. The loss of each group is
divided by the size of a full window, also in the smaller window at the end of
an epoch: `UpdatesAreFull` says that this is the only smaller one.

### AgentSandbox and PatchPolicy

A call of the sandbox is a sequence of commands (`Steps`). `Issue` starts one with
the limit that `_command_timeout` computes from what is left of the call's
deadline; `CommandEnds` is its end, by itself or killed at that limit, with
every effect it may have had by then (`Effect`); `After...` says what the code does
with the exit: go on, return, or jump to the cleanup. `elapsed` passes only inside
commands and uploads, in units finer than the seconds to which the code rounds
up. A workspace is the set of files that differ from the snapshot, and Git's
index two sets of files, what it tracks and what an export added to it by intent.
Modelled at its least favourable: a suite may write any file, and Git's index too
(`rewritten`), after which an export may be of any files; a process that it leaves may hold
the stream of its output open (`Detach`), and the call then lasts until it lets go, since
nothing limits the reading of the stream; uploads have no limit (the code gives them
none); a `realpath` killed by its limit reads as a missing path (as in the code).
Outside the model: a process left behind that goes on writing during later calls, and a suite
that changes Git's configuration or hooks.

An export is cut in its middle above the bound on output (`Cut`), and its text is decoded
with replacements, so that bytes which are not UTF-8 are altered and longer afterwards; the
runner compares that text with `max_patch_bytes` (`Measured`). `export` is the files of
the diff, not their text: `ExportIsWhole` says that none of them is missing, for a limit within
the bound on output. The code lets `max_patch_bytes` be more than that bound, and then a cut diff passes:
`PatchLimits` has such a value. That the text of a changed file outside UTF-8 reaches
the runner altered is the code's own doing and no property denies it.

`PatchPolicy` has a diff twice: the sections that Git follows, and the lines that
the policy reads one by one without following hunks. A line of Git's (`TextLines`) is one or
several of the policy's (`Pieces`), because `str.splitlines` also splits at form feeds, carriage
returns and others. A piece begins with a sign and then with words, with two more of the same sign
(`marks`), or with these, a space and a path, which alone the code takes for a file header; the test for bypasses
skips both of the last. `Unseen` names what that test cannot see, `AcceptedIsSafe` makes an exception
for just that, and `NoBypassIsAdded` is the claim without the exception, which fails (section 5).

### PolicyService

A collector is a client with one call at a time; a request is the rollout and the
call it is made for. `Ask` computes the effective timeout as `policy.py` does;
`Timeout` ends the call and leaves the request where it is, waiting or
generating. `Acquire` gives the lock to any waiting request (a `threading.Lock` is
not fair); seeding the generator and drawing from it are the two ends of a
generation. `Stop` kills the process with all its requests, and `Start` starts one
that serves any policy. Not modelled: authentication, the size of the thread pool, contents
of messages. `urllib` applies its timeout to each socket operation; the model applies it to the
call, which is the same for an answer sent in one piece.

### Conversation

A message is its role, its turn and its size, in units of 64 bytes. `Compact` is
the loop of `compact_messages`: whole turns are dropped, then the issue is cut,
then the largest messages. The runner's own messages, the replay from the recorded
events and the record's tokens are three computations over the same history;
`saw` remembers what each call of the policy was given. A token is a part
of a message or of the chat template, and templates are those that do and do not
pass the code's tests. Cuts give exactly the size asked for, as they do for ASCII.
The loops are recursive functions of the number of iterations (`BytesUpTo`, `CutLargest`,
`ReplayFrom`, `RenderedUpTo`), so that they can be proved about.

### Store and Publication

One action is one system call. A process may fail or be killed at each, and
leaves its temporary file then. In `Store` a file's content is whole, partial or nothing;
a writer looks, writes its temporary, links, and, when it loses the race, compares
(`put_bytes`) or raises (`append`). `told` is the answer to its caller.

In `Publication` the files are linked in the order in which `materialize.py` links
them, the metadata last; a failure rolls back what the writer remembers having
linked. A reader loads metadata and files one by one meanwhile. An exception that
arrives asynchronously between a link and its bookkeeping is not modelled.

### Admission, Preparation and DatasetTrust

`Admission` goes through the required runs: container, snapshot, hidden tests,
suite, report, removal, each of which may fail; results are the exit status,
the time limit and the report, and evidence keeps the counts the code keeps.
`Preparation` has trees as functions from paths to contents: what Git tracks, what a
reverse patch restores and what a snapshot holds are operators on them. Other
processes may create the output path at any time (`Others`).

In `DatasetTrust` a digest is the thing it is the digest of, so a comparison of digests is
an equality. Exports differ in every attribute the audit reads; files of different imports
may be mixed (`Taken`), and artifacts change on disk (`Change`). Not
modelled: `maximum_tasks`, and the hash of the tasks file. Content fingerprints in
a repositories file of another import are bound by the runtime's own digest of that file.

### SFT and Evaluation

`SFT` has two record files that `prepare` gathers, writes to a temporary file and
renames, and one output directory that `train` fills step by step; rollouts go on meanwhile and both
programs may stop anywhere and be started again. A trajectory's `kind` says what the code
distinguishes: split, verdict, an invalid action, a line separator in its
texts, a length the tokenizer refuses. One process prepares at a time; two that
prepared the same file at once would share the fixed name of its temporary. A
checkpoint stands for any set of the accepted records.

`Evaluation` computes in integers, in units of `1/RatioScale`. `Draw` takes one bootstrap
estimate for each weighting and puts it in its place among those drawn, where the code appends
and sorts at the end (`draws.sort()`): nothing reads the draws in between. The report is made
when all are drawn. All metrics go through the same code; the model has success only.

## 3. What the runs check

| Run | Instance | Shows |
|---|---|---|
| `runner` | 3 steps, 2 time units, 3 tokens, patches up to 2 bytes, streak of 2, client timeout 1; replies of 0 or 2 tokens, diffs of 0, 1, 3 bytes, clock to 3 | the report is honest and no call is made too many, over every interleaving of the clock; `NothingAfterReason`; `RunEnds` under `FairSpec` |
| `runner_infra` (violation) | the same with 2 steps | finding 1 |
| `verifier` | two suites, `regression` then `target` (the order in which the sealed manifest sorts them), with hidden tests | suites are apart, answers are true, and `KeepsContract` |
| `verifier_answers` (violation) | the same | finding 2 |
| `collector` | two tasks, two candidates, two launches that do not overlap | training batches are sound, a completed run is true, a directory is one run's, and `KeepsContract` |
| `trainer` | three groups of two traces, two epochs, a window of two groups, any spreads, drift and stops | each epoch trains every group once, first updates are on-policy, a completed run is complete and its metrics are true |
| `trainer_close` (violation) | two groups of one trace, one epoch | finding 3 |
| `sandbox` | a file of the snapshot whose text is not UTF-8, a new one and an ignored one; seconds of two units; budgets of 0 and 3 units; patch limits at and above the bound on output | calls outlast their deadline by a second a command at most, patches are reported as applied, exports are whole, containers left are told; `CallsReturn` under `FairSpec`: every call returns but a suite whose stream is held open |
| `policy_service` | two collectors with two rollouts of one call, two policies, one restart, timeout 2 in 3 | steps are of the expected policy, reproducible, and deadlines told apart |
| `policy_serves` | the same with one policy, timeout 1 in 1 | `CallsEnd` and `RequestsAreServed` under `FairClients` |
| `tasks` | one component at a time, see below | what may be patched, and how tasks are prepared, admitted, imported, materialized and published |
| `learning` | one component at a time, see below | how rollouts are stored, scored, turned into records, trained on and compared |

`MCTasks` and `MCLearning` hold the components on either side of a rollout, which share no
state and hand over files. Their variable `part` names the component that moves; the
others rest in one of their initial states, where their invariants hold. So each run is the
union of five explorations, and every property speaks of its component's. What is proved of a
component therefore holds in the composition (`TasksAreTheirComponents`, `LearningIsItsComponents`).

| Run | Component | Instance | Shows |
|---|---|---|---|
| `tasks` | `PatchPolicy` | every diff of two sections over two allowed paths, a forbidden and an outside one and one unsafe name; lines of words, with marks, like headers, and split ones, with and without a bypass | what is accepted is safe where the policy looks, and a safe diff without lines that read like headers or are split is accepted |
| `tasks` | `Preparation` | two tasks, five paths, mutations of up to three of them | published tasks are repairable, snapshots hide the tests, outcomes are true |
| `tasks` | `Admission` | two tests, three repetitions, one irregular run with two of ten results | attempts are independent, the verdict is the evidence's, breakdowns decide nothing |
| `tasks` | `DatasetTrust` | one import of three tasks that share repositories, addresses, lineages, commits and contents in every way; two imports of two tasks; artifacts that change | imports keep splits apart, a runtime made of mixed files too; rollouts start from admitted content |
| `tasks` | `Publication` | two writers of four files and a reader | sealed and accepted sets are whole, outcomes are true, temporaries are swept, and `KeepsContract` |
| `learning` | `Scoring` | `Scale` 2, two candidates, costs 0 and 1, weights around the dominance boundary with all, some and none of the penalties | rewards rank rollouts as intended and agree with the records |
| `learning` | `Conversation` | four steps, two sizes of issue and replies, three of observations, the smallest limit the configuration allows | compaction succeeds, keeps the task and the newest turn, and replay is what was seen; only turns are trained |
| `learning` | `SFT` | three trajectories of eight kinds, two preparations, two launches | files are whole, the directory tells the truth, only successes are trained, reports are of just what was refused, where the two files have one stem |
| `learning` | `Evaluation` | three tasks of two lineages, every file of five outcomes for two methods, three draws | the comparison is of the summaries, estimates add up, intervals are in range |
| `learning` | `Store` | two writers, two contents, one trajectory | artifacts are whole, answers stay true, `KeepsContract` |

A run's properties are conjunctions of named parts, each stated by a comment of its own:

| Run | Property | Parts |
|---|---|---|
| `runner` | `ReportIsHonest` | `FinishedIsEarned`, `ReasonsAreEarned`, `NoWorkSilentlyLost`, `ContainerAccountedFor` |
| `runner` | `NoCallTooMany` | `ToolsWithinBudgets`, `OneLateCall`, `StreakEndsRollout` |
| `verifier` | `SuitesAreApart` | `HiddenTestsIsolated`, `AtMostOneContainer`, `EvidenceFrozen` |
| `verifier` | `AnswerIsTrue` | `PassIsEarned`, `VerdictMatchesEvidence`, `LeakIsReported` |
| `collector` | `CompletedRunIsTrue` | `CompletedRunIsComplete`, `AccountsAddUp` |
| `collector` | `DirectoryIsOneRuns` | `InterruptedRunIsVisible`, `DirectoryHasOneRun` |
| `trainer` | `LearningIsSound` | `EpochsTrainGroupsOnce`, `FirstUpdateIsOnPolicy` |
| `trainer` | `UpdatesAreTold` | `UpdatesAreFull`, `ScheduleFitsRun`, `MetricsTellWhatWasLearned` |
| `sandbox` | `ExportIsClean` | `ExportIsWhole`, `PatchFileIsSwept`, `LeakIsReported` |
| `policy_service` | `StepsAreFaithful` | `StepsAreThePolicys`, `StepsAreReproducible`, `DeadlinesAreTold` |
| `tasks` | `PatchesAreJudgedRightly` | `AcceptedIsSafe`, `SafeEditsPass` |
| `tasks` | `PreparationIsSound` | `PublishedTasksAreRepairable`, `SnapshotsHideTests`, `PreparationOutcomeIsTrue` |
| `tasks` | `AdmissionIsSound` | `AttemptsAreIndependent`, `VerdictIsTrue`, `BreakdownsDecideNothing`, `VerdictsLeaveNothing` |
| `tasks` | `DatasetIsTrusted` | `ImportsKeepSplitsApart`, `RuntimesKeepSplitsApart`, `RolloutsStartFromAdmitted` |
| `tasks` | `PublicationIsWhole` | `SealedIsComplete`, `AcceptedIsWhole`, `OutcomeIsTrue`, `TemporariesAreSwept` |
| `learning` | `ScoresAreRight` | `RewardsRank`, `RewardAgreesWithRecord` |
| `learning` | `ConversationIsKept` | `CompactionNeverFails`, `TaskAndNewestTurnAreSeen`, `ReplayIsWhatWasSeen`, `OnlyTurnsAreTrained` |
| `learning` | `TrainingRecordsAreTrue` | `FilesAreWhole`, `DirectoryIsTrue`, `TrainedAreSuccesses`, `ReportsAreTrue` |
| `learning` | `ReportsAgree` | `ComparisonIsOfTheSummaries`, `LeaveOneOutAddsUp`, `IntervalsAreInRange` |

`TypesOK` of `tasks` and `learning` conjoins the type invariants of their components.
`TrainingBatchIsSound`, `OverrunIsBounded`, `PatchReportIsTrue`, `NothingAfterReason`,
`RunEnds`, `CallsReturn`, `CallsEnd`, `RequestsAreServed`, the trainer's
`CompletedRunIsComplete` and every `KeepsContract` stand alone.

Bounds of the runner's instance: with 3 steps a streak of 2 malformed replies
can end a rollout, or be broken in the middle; 2 tokens a reply against 3
allowed gives a total below, and one above, the budget; a clock that reaches
3 with a wall time of 2 and a client timeout of 1 makes both deadlines expire,
in either order relative to a reply, and lets a call be 1 late. Sizes 0, 1, 3
against a limit of 2 give no patch, one that fits and one that does not. The
clock stops at `ClockBound`, a bound of the model; the proofs need only that it
lies past `MaxWall`. Two suites are what every rollout
task has (`rollouts/config.py` requires both and no others), and enough for a first and a later failure to be told apart; the
proofs cover any list of suites.

`Scale` 2 is the smallest that has a fraction strictly between none and all. Two
tasks make one group kept and the other dropped in one run; two candidates are
the smallest group the trainer accepts; a second launch is enough to meet every
state a first one may leave. Launches are interchangeable, hence the symmetry.

Three groups with a window of two give a full window and a leftover one, or, when
some are skipped, exactly one window or only a part of it; the second epoch shows
what the first might leave behind; two traces let a group be half done. Groups
differ only in their spread, and are taken in any order, hence the symmetry.
Nothing in `GRPOTrainer` needs a bound: a directory that a run has used refuses the
next one.

The sandbox's instance has budgets below one second and above it, hence the limit
that is rounded up and the one that is not, and diffs of one file to three against an
output bound of one and patch limits of one and two. Two requests are enough for one to wait behind
another, and one restart for every answer to be of a policy the client did not
begin with. The conversation's bound of 2,048 bytes is the smallest
`compact_messages` accepts, where every stage of the cut is reached; four steps let turns be dropped
twice. Four files are the three runtime splits and the metadata. One irregular
run meets every gate of the verdict; further irregular runs only add failures to the set. Three
trajectories give a file with an accepted and a refused record and one to arrive
later; two preparations fill both files, or replace one that a launch has read. The
first of three imported tasks has fixed values, as only their sameness matters. A mutation of three paths
reaches a tracked file, an ignored one and a hidden test at once. `MaxCalls`,
`MaxRollouts`, `MaxRestarts`, `MaxPreparations`, `MaxLaunches`, `UploadBound` and `StreamBound` are bounds of the
models; nothing in the code has them. `SameStem` is `TRUE` in the run, where the two
reports of a training run collide; the proof covers both values.

Symmetry is used where writers, contents, collectors or trajectories differ in nothing
but their name, and in no liveness run.

`CHECK_DEADLOCK` is off in `tasks` and `learning`, where a component stops for good when
its work is done: `Admission`, `Preparation`, `Conversation`, `SFT` and `Evaluation` model one
task, bundle, rollout, pair of files or comparison. Elsewhere it is on, and a finished run
stutters by its `Done` action or goes on for ever.

### Fairness

`FairSpec` gives weak fairness to `Tick` (time passes) and to `RunnerStep` (the
thread runs, and its calls into the sandbox return: every command is run under
`timeout(1)`). Nothing is assumed of `PolicyReplies` and `PolicyFails`: an
endpoint may never answer. `RunEnds` therefore rests on the client's timeout.
The in-process policy of `hf_policy.py` ignores its timeout, and is outside
this assumption; so is an exec stream that a stray process keeps open
(`sandbox/docker.py:597`).

`AgentSandbox`'s `FairSpec` says the same one level down: time passes, and what
the sandbox's code or a command's time limit makes happen happens, except while a process holds the stream of
a suite's output (`open`), where nothing is assumed. An upload has no limit, so
`CallsReturn` speaks of calls past theirs, and it says that a call returns or is a suite's whose stream is held. For the
other calls no process is left: their commands are `rg`, `sed`, `realpath`, `rm` and `git`, run by `timeout`. In `PolicyService`, `FairClients` is time
and each collector's own steps, `urllib`'s timeout among them, with a server that may never
answer. `RequestsAreServed` adds `FairServer` as its premise: a free lock is taken by some waiting
thread, and generations are bounded by the number of new tokens.

## 4. What is proved

All theorems hold for every value of the constants that satisfies the assumptions the
modules name (`BudgetsAssumption`, `ManifestAssumption`, `SandboxAssumption`,
`CollectionAssumption`, `TrainingAssumption`, `PolicyServiceAssumption`,
`FilesAssumption`, `AdmissionAssumption` and `BehavioursAssumption`, `PreparationAssumption`,
`DatasetAssumption`, `PatchAssumption`, `StoreAssumption`, `ConversationAssumption`, `EvaluationAssumption`
and `RatioAssumption`, and those of `Scoring` and `Reward`). They give the constants their ranges, and say of the rest no more than the code does; that
the splits of a dataset are finitely many is needed to count them. `ConversationAssumption` says that the bound leaves
room for the system's message and three others at the floor: in the code 892 + 3 * 256 + 4 * 64 = 1,916 of at least 2,048 bytes.
`RatioAssumption` says that `RatioScale` is a multiple of every product of a number of tasks and a number of lineages, so that
every rate is a whole number of units; for any tasks and lineages there is such a scale. Only the theorems of `CollectorProofs`, all but the first two, have a hypothesis
of their own, without which the properties fail (section 5): `~Overlapping`, no launch begins while
another one works in the directory.

`AgentRunnerProofs`: the inductive invariant is
`IInv == TypeOK /\ Control /\ Evidence /\ Streak /\ Verdict`.
The properties speak of a finished rollout, and say nothing of how it got
there: `Control` ties the program counter to the reason, the step and the
clock read behind the current call; `Evidence` keeps the events numbered and
paid for, and says of a tool about to run what its event will record; `Streak`
says that `invalid` counts exactly the malformed events at the end; `Verdict`
carries the grounds of a decided reason through the export and the close, where
a later stage may replace the reason by another that has grounds of its own.
Each layer is proved preserved using the ones before it, so no leaf needs the
whole invariant.

- `TypeCorrect`, `ToolsStayWithinBudgets`, `EventsAreContiguous`,
  `PolicyIsNotAskedAgain`, and from these `NoCallIsTooMany`; `RolloutIsHonest`, which is
  `ReportIsHonest` with its four parts; `NothingHappensAfterReason`.

`VerifierProofs`: `IInv == TypeOK /\ Control /\ Containers /\ SuiteState /\ Grounds`.
`Control` relates the program counter to the result, the exception in flight
and the number of outcomes, and says that a fault is visible on the way out;
`Containers` says for each point of the program which container exists;
`SuiteState` how far the current suite's container has come, and that every
outcome is true of its box; `Grounds` what each kind of result rests on.

- `TypeCorrect`, `LeaksAreReported`, `PassesAreEarned`, `SuitesAreIsolated` (with
  `AtMostOneContainer`),
  `EvidenceStaysFrozen`, `VerdictsMatchEvidence`, together `SuitesStayApart` and
  `AnswersAreTrue`, and the refinement `Implements`: every behaviour of `verify` is one that `VerifierContract` allows.

`LearningProofs`, of `Scoring`: `ScoringInv == TypeOK /\ Earned`, where `Earned` says that every score
came from some rollout under the weights in use. That reduces the properties to
lemmas about `Reward`: the bounds of each term of the sum, and from them the gap
between a success and a failure that the validator guarantees.

- `ScoringTypeCorrect`, `RewardsAgreeWithRecords`, `RewardsAreRanked`, together `ScoresStayRight`.

`CollectorProofs` has three layers. `SoundInv` holds however launches overlap:
`LaunchSound` says of each launch that its current rollout is on disk as far as the
program counter has come (`RolloutStored`), that the group under construction and
the groups kept hold sound candidates in order (`EpisodesSound`, `GroupsSound`), and
`FilesSound` the same of the group files and the job. What makes it inductive is that
candidate files are only ever added (`CandidateFilesGrow`), so a step of one launch
cannot make another launch's group unsound. `OneRun` needs `~Overlapping`: at
most one launch works; it found the directory empty, keeps it marked partial, and
completes the manifest just before it removes the mark. `AccountsInv`, on top of both, follows the
books of the launch that works: the rewards and trajectories on disk are those of the candidates it has
scored (`Rewarded`, `Trailed`), its records are those in their order (`Recorded`), what it
excludes was scored and is not traced (`Excluded`), and `Balanced` is the equation: for the task at hand, episodes,
exclusions and ineligible rewards add up to the candidates scored; a task that is settled either lacks none and has
a group, or is dropped once with the number that is left. `Written` says which of the books each file at the end
of the run already holds.

- `TypeCorrect`, `TrainingBatchesAreSound`; without overlap
  `DirectoriesHaveOneRun`, `InterruptedRunsAreVisible`, together
  `DirectoriesAreOneRuns`; `CompletedRunsAreImmutable`; `CompletedRunsAreTrue`; and the refinement
  `DirectoryKeepsContract` of `CollectorContract`, for any number of tasks, candidates and launches. A step that stores a reward grades one candidate (`ScoreGrades`),
  the step that completes the manifest publishes (`ManifestPublishes`; by `GroupsAreUsable`, exactly the tasks
  all of whose candidates are trainable), the job's binds (`JobBinds`), and no other step shows anything to a reader of the directory.

`GRPOTrainerProofs`: the invariant is `TypeOK /\ OnPolicy /\ Progress /\ FilesInv`.
`OnPolicy` says that the counter which the drift test asks is the number of updates
applied, and that nothing drifted is in any gradient. `Progress` follows each group
through an epoch: it is yet to come, in work with a first part of its traces,
wholly in the window, or in exactly one update, and never two of these; between
epochs every group with an advantage is in the last state for every epoch so
far, and the window is empty. `FilesInv` says which files exist at each point, and
that each complete checkpoint is good. A checkpoint outlives the process that
wrote it, so its goodness (`GoodCheckpoint`) speaks of its content and the spread
alone, neither of which a later step changes.

A second invariant, `Counted`, is about numbers: how many groups are in the window and how many
updates the epoch made account for the groups taken (`Window`, `Scheduled`), every update but an epoch's last is
of `AccumulationSteps` groups (`FullUpdates`), and the metrics have one line for each group that was passed (`Logged`).

- `TypeCorrect`, `FirstUpdatesAreOnPolicy`, `EpochsTrainEveryGroupOnce`, together
  `LearningStaysSound`; `CompletedRunsAreComplete`, `CompletedRunsAreImmutable`; `UpdatesStayFull`,
  `SchedulesFitRuns`, `MetricsTellTheTruth`, together `UpdatesStayTold`.

`TaskProofs`, of `Publication`: `PublicationInv == TypeOK /\ WritersInv /\ ReaderInv`. For each writer,
`Progress` says which files it has linked and which temporaries it has, by where it is in
the sequence, and `Owned` that the directory holds what it remembers having
linked and nothing else of its. Links never replace a file, so the steps of other writers
leave both alone; this is what makes a rollback safe. `ReaderInv`: what the reader loaded before
the seal is complete cannot be accepted later. A separate invariant, `Remembered`, says
that the temporaries in the directory are those their writer remembers, but for the file at hand.

- `PublicationTypeCorrect`, `SealedSetsAreComplete`, `AcceptedSetsAreWhole`, `OutcomesAreTrue`,
  `TemporariesStaySwept`, together `PublicationsAreWhole`; `FilesAreNeverOverwritten`;
  and the refinement `PublicationImplements` of `PublicationContract`, for any number of writers and files.

`TaskProofs`, of the life of a task before it is published:

- `Admission`: `AdmissionInv` says what the container of an attempt holds at each step (`Attempt`), that the runs
  before the current one have all their results and those after it none, and that each result is one of
  the executions (`Collected`), and what a verdict rests on (`Judged`). From it
  `AttemptsStayIndependent`, `VerdictsAreTrue`, together `AdmissionsStaySound`, for any behaviour of the
  suites and any number of repetitions.
- `Preparation`: `PreparationInv` says that the bundle holds the tasks before the current one, each
  repairable (`Advancing`), and that the output is ours only after the renaming (`Disclosed`): `PublishedTasksStayRepairable`,
  `PreparationsStaySound`, for any trees and mutations. `MutationsShow` and `HiddenIsAbsent` are the lemmas about
  snapshots: an accepted mutation is visible in the buggy one, and no hidden test is in any.
- `DatasetTrust`: `DatasetInv` says of each import that its files are what its export says (`Faithful`), of a
  runtime that some import's manifests and some import's repository records back it (`Rests`), and of rollouts which content they
  started from (`Saw`): `ImportsStayApart`, `RuntimesStayApart`, `RolloutsStayAdmitted`, together
  `DatasetsStayTrusted`.
- `PatchPolicy`: `PatchInv` says that what was found is what the inspection finds in this patch, and that Git was given accepted
  patches only. `PatchAssumption` says that paths and refused names differ, that neither is `/dev/null`, and what the texts
  are made of. The rest are lemmas about the inspection: `AcceptedStaysSafe`, `SafeEditsStayAccepted`,
  together `PatchesStayJudgedRightly`.

`AgentSandboxProofs`: `IInv == Types /\ Life /\ Clock /\ Patching /\ Sweeping /\ Index`. `Clock` is what
bounds the overrun: a command begins within the bound, and its own limit, rounded up to a second, ends it within the next, so
each command adds at most a second to it. `Patching` says at each step of an
apply what the workspace is compared with what it was, `Index` when Git knows of every file, as long as no suite wrote its index. The constants
`OutputLimit` and `PatchLimits` are unrelated in the proof, as in the code: `ExportsAreClean` says for each limit that a
diff within it is whole, or that the limit is above the bound.

- `TypeCorrect`, `OverrunsAreBounded`, `PatchReportsAreTrue`, `ExportsAreClean`, for any files, clock, time
  limits and bounds of output.

`PolicyServiceProofs`: `IInv == Types /\ Generator /\ ClientsInv`. The request that generates is the only one, holds the
lock, and was the last to seed the generator (`Generator`); a call's timer and its deadline agree
(`Timed`), and a collector keeps to the policy it found (`Bound`).

- `TypeCorrect`, and `StepsStayFaithful`, for any number of collectors, policies, calls and restarts.

`LearningProofs`, of `Store`: `StoreInv == StoreTypeOK /\ ArtifactsAreTheirDigests /\ WritersInv /\ AnswersStayTrue`.
`WritersInv` says that a temporary about to be linked holds the whole content, and that
a writer past its link, or past a comparison, has found its content under the name. No file
is changed once it is linked, so what was true when the answer was given stays so.

- `StoreTypeCorrect`, `ArtifactsAreGenuine`, `AnswersAreTrue`, and the refinement `StoreImplements` of
  `StoreContract`, for any number of writers, names and contents.

`LearningProofs`, of `SFT`: `SFTInv == SFTTypes /\ Preparing /\ Marked /\ Learned /\ Reported`. `Preparing` says
what a preparation has in its temporary and that a data file is whole; `Marked`, that the partial marker is there from a run's start until the manifest
tells of the adapter beside it; `Learned`, that all that was gathered or trained are accepted
records of successes; `Reported`, that a file a run tokenized has its report until another of its name replaces it, and
that the validation file comes second.

- `SFTTypeCorrect`, `FilesStayWhole`, `DirectoriesStayTrue`, `SuccessesTrain`, together `TrainingRecordsStayTrue`,
  for any rollouts and any number of preparations and launches.

`LearningProofs`, of `Conversation`: `ConversationInv` says that what the runner keeps is the replay of what it
recorded (`UpToDate`) until an overlong reply ends the rollout, that each context the policy saw was the compaction of
the replay so far (`EverySeen`), and that the record is what the runner kept. `Shape` is what every step of a compaction
leaves of a conversation: the head, then whole turns that follow one another up to the newest. The work is in
the lemmas about the loops. These provers cannot use the library's induction theorems, which take an operator, but
`Induction` and `Recursion` state the two principles for sets and functions, and follow from
`WFMin` and `NatLessThanWellFounded`; every recursive function of `Conversation` is unfolded by them.
`CutOneProgress` is why the last loop ends: a cut makes all fit or leaves fewer messages above
the floor, and with none above it all fits.

`ConversationTypeInv` bounds each message by what it is of and each label by the tokens of its record.

- `ConversationTypeCorrect`, `ConversationIsAlwaysKept`, for any sizes of issues, replies and observations, any number of steps and
  either kind of template.

`LearningProofs`, of `Evaluation`: `EvaluationInv` says that a comparison past its reading has pairs that
can be compared (`Comparable`), that the draws are sorted and each lies between the smallest and the largest difference of a
pair (`DrawsAre`), and that a report which is made agrees with itself (`Agreed`). The properties speak of the report alone; what makes them
inductive is what the invariant says of the draws before it. The work is again in the lemmas:

- *Sums.* The sum over a set is a fold whose order is a `CHOOSE`. `SubsetInduction` is induction over the subsets of a finite
  set, from which `SumsExist` and `SumsInAnyOrder` show that the fold has the value it defines, and that any
  element may be taken first. Then sums of unions, differences and multiples, sums by parts (`SumByParts`, by
  lineage), and bounds.
- *Order.* `InsertOrders` says that an insertion at `Rank` keeps a sequence sorted, `InsertPlaces` what it holds;
  `PercentileIsBetween` and `PercentilesAreOrdered` that an interpolated percentile lies between its neighbours and grows
  with its probability, also between one place and the next.
- *Ratios.* `RatioIsExact`: the rates and the estimates of a report are exact. A draw that takes a large lineage twice may hold
  more pairs than there are, and is then rounded down; of it only bounds are claimed, and `RatioIsBounded` gives those.
- *The report.* `ComparisonHolds`: with exactly one usable record of each method for each task or none of either, the summaries and the pairs
  count the same tasks. `LeaveOneOutHolds` counts each pair once for every lineage but its own. `DrawnIsWithin`: a
  draw is a mean of differences.

- `EvaluationTypeCorrect`, `ReportsAlwaysAgree`, for any records of any finite number of tasks and lineages, any number of draws and any
  confidence (in steps of two thousandths).

The compositions: `TasksAreTheirComponents` and `LearningIsItsComponents` say that a behaviour of the whole is one of each
component, and with the components' own theorems give `TaskTypesCorrect` and `LearningTypesCorrect`.

Proved and in no run's configuration: `EventsContiguous`, both `CompletedIsImmutable`, and
`NothingIsOverwritten`; no step of the code comes near to breaking them, and TLC agreed before
they were proved.

Only model-checked: the liveness properties `CallsEnd`, `RequestsAreServed`, `RunEnds` and `CallsReturn`, since
fairness and `ENABLED` are out of this prover's reach. Every safety property of a passing run is proved. The
inductive invariants were checked by TLC before they were proved.

## 5. Where the code departs from what is said of it

Three departures have a run that shows them:

1. `runner_infra`: a rollout in which the sandbox failed can end as
   `wall_time_budget` or `invalid_action`, because the code after the loop
   overwrites the reason; the collector then scores it as the agent's failure.
2. `verifier_answers`: a long infrastructure message makes the handler of
   infrastructure errors raise, and `verify` gives no verdict.
3. `trainer_close`: groups whose rewards differ by little pass the test for
   variance before training and are all skipped during it; the run completes and
   publishes the initial adapter, having learned nothing.

The modules state the others as definitions that begin with "Said of the program", with
the line quoted, or as a constant or a condition. Each is violated when it is given as an `INVARIANT`
(`TimeoutsAreNotInfrastructure`: a `PROPERTY`) to its module's run; those of `tasks` and
`learning` are found within a minute.

| Module | Claim | What the code does |
|---|---|---|
| `Verifier` | `AgentFailuresStayAgentFailures` | a patch that Git rejects at length, or oversized test evidence, is reported as an infrastructure error although no infrastructure operation failed |
| `Collector` | `DirectoryHasOneRun` with `Overlapping = TRUE` | two launches with one `run_id` can both pass the test for an empty directory and mix their files in it |
| `AgentRunner` | `RepliesAreNotInfrastructure` | a reply nested too deep, or with too long a number, for `json.loads` ends the rollout as an infrastructure error |
| `AgentSandbox` | `TimeoutsAreNotInfrastructure` | an export killed for the rollout's time is an infrastructure error |
| `AgentSandbox` | `SealedTimeoutsHold` | a process that a suite leaves holds the stream of its output, and the call outlasts the suite's sealed timeout |
| `PatchPolicy` | `SafeEditsPass` without the conditions on headers and splits | a removed line that begins with `-- ` is read as a file header, and a safe diff is refused |
| `PatchPolicy` | `NoBypassIsAdded` | an added line with `++` of its own (`++pytest.skip(...)` is Python), or with its marker behind a form feed and no plus, passes the test for bypasses |
| `PolicyService` | `DeadlinesAreTheAgents` | a rollout can end by its wall-time budget for having waited behind another collector's request, or one its own earlier rollout gave up |
| `PolicyService` | `OverflowsAreTold` | a context overflow on the server reaches the runner as a policy error |
| `Conversation` | `TrainedTurnsAreWhole` | the policy's own turn may be cut by compaction, and the cut text, marker included, becomes a label |
| `Store` | `AppendIsIdempotent` | of two writers of one trajectory with the same content the slower fails, while `append` after the fact succeeds |
| `Admission` | `AdmittedTasksAreSolvable` | a repair that skips a canonical test is admitted |
| `Admission` | `SomeTestFailsReproducibly` | a task whose failing test differs at each repetition is admitted |
| `Admission` | `TimeoutsAreErrors` | a suite killed for its time counts as a failing one |
| `Preparation` | `MutationsSpareHiddenTests` | a mutation may add an untracked or ignored file under the hidden tests |
| `SFT` | `RefusedAreReported` with `SameStem = TRUE` | with data files of the same name in different directories one report of refused records replaces the other |
| `SFT` | `FilesAreReadable` | a record with U+2028 or U+0085 makes the file unreadable |
| `SFT` | `RecordsAreReplays` with `Versions = {1, 2}` | a record takes its first messages from the tasks file of today, not from the task its trajectory ran under |
| `SFT` | `OnlyTheUnfitAreRejected` | one success with an invalid action keeps all records from being written |
| `SFT` | `EvidenceIsOfTheInputs` with `MaxPreparations = 3` | a data file replaced while the libraries load is trained under the old digest |
| `Evaluation` | `ReportsAreMade` | one infrastructure error of one method makes the whole report fail |

## 6. Not modelled, and the plan

Assumed throughout: texts, sizes and evidence matter only through the classes named
above; hashes do not collide; floats are exact ratios (rounding is not modelled). That every `exec` returns is assumed by `AgentRunner` and `Verifier`, and follows in
`AgentSandbox` from the time limits unless a process holds the stream open.

Not modelled: the parsing of JUnit XML, of prompts and of replies beyond their outcome;
the validation of single fields; `fixture.py`, which generates one sample task; preflight,
which reads the environment and reports, and the scripts other than the two
in `Collector`; `unbiased_pass_at_k`, which nothing calls; the training loops and optimizers of the
libraries; the containers of a collector that was killed, which nothing in
the code removes; changes of the trainer's inputs while it runs, which the documentation forbids.
`PROJECT.json` lists every component with its status.

What is left is beyond these provers: the liveness properties, and that the runner and the verifier that `Scoring` and
`Collector` take as classes of outcomes are `AgentRunner` and `Verifier`, for which the interfaces of section 2 would have
to become one composed specification.
