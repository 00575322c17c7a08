---------------------------- MODULE AgentSandbox ----------------------------
(* The agent's container (sandbox/docker.py) behind the tool gateway         *)
(* (tools/gateway.py): how it is started, the commands each tool call runs   *)
(* against the caller's one deadline, the export of the diff, and the close. *)
(*                                                                           *)
(* One action is one command of a call, or one upload. `elapsed` is the time *)
(* since the call began, in clock units of which a second has `Second`, and  *)
(* passes inside commands and uploads only. A workspace is the set of files  *)
(* that differ from the snapshot.                                            *)
EXTENDS Integers, FiniteSets, Sequences

CONSTANTS
    Second,        \* clock units in a second
    DefaultLimit,  \* default_timeout_seconds
    SuiteLimit,    \* timeout_seconds of a suite's sealed command
    Budgets,       \* the timeouts callers may pass, in clock units
    UploadBound,   \* bound of the model: no upload lasts longer
    StreamBound,   \* bound of the model: a stream held open is watched until then
    Files,         \* paths that the snapshot or a patch may hold
    Base,          \* those of the snapshot
    Ignored,       \* those the repository's .gitignore names
    NotUtf8,       \* those with a text that is not UTF-8
    OutputLimit,   \* max_process_output_bytes, a file's diff counting as one
    PatchLimits    \* the max_patch_bytes a task may have, in the same unit

ASSUME SandboxAssumption ==
    /\ Second \in Nat \ {0}
    /\ DefaultLimit \in Nat \ {0} /\ SuiteLimit \in Nat \ {0}
    /\ Budgets \subseteq Nat /\ UploadBound \in Nat /\ StreamBound \in Nat
    /\ Base \subseteq Files /\ Ignored \subseteq Files /\ NotUtf8 \subseteq Files
    /\ OutputLimit \in Nat /\ PatchLimits \subseteq Nat

VARIABLES
    owner,      \* who may use the sandbox: "none" yet, "start", "caller", "nobody" any more
    box,        \* the container: "absent", "created" only, "up", "removed"
    raised,     \* the last start or close raised
    op,         \* the call under way, "idle" if none
    step,       \* its current command, an index into Steps[op]
    running,    \* that command was issued: its time limit in seconds, else 0
    issuedAt,   \* elapsed when it was
    open,       \* a process that outlives that command holds its output stream
    budget,     \* timeout_seconds of the call, hence its deadline
    elapsed,
    held,       \* apply_patch: the outcome it will return after its cleanup
    patch,      \* apply_patch: the files its argument changes
    tmp,        \* a patch file lies in the container's /tmp
    workspace,
    tracked,    \* files whose snapshot content is in Git's index
    intended,   \* files that intent-to-add put into the index
    rewritten,  \* a suite wrote Git's index itself
    export,     \* the files that the last git diff spoke of
    answer,     \* what the last call gave its caller
    \* history
    before,     \* the workspace when the call began
    issued,     \* commands issued by the call
    uploaded,   \* elapsed when the call's upload ended
    faults      \* Docker failures so far: "transport", and "sweep" for a failed cleanup

time == <<budget, elapsed, issued, uploaded>>
index == <<tracked, intended, rewritten>>
files == <<patch, tmp, workspace, index, export, before>>
life == <<owner, box, raised>>
vars == <<life, op, step, running, issuedAt, open, time, held, files, answer, faults>>

(* timeout(1) with --signal=KILL ends with 137 when the time is up; 124 can  *)
(* only be the command's own status.                                         *)
Exits == {0, 1, 124, 137}

Tools == {"search", "read", "patch", "suite", "diff"}

Steps == [idle   |-> <<>>,
          start  |-> <<"upload", "clean", "init", "name", "email", "add", "commit">>,
          search |-> <<"realpath", "rg">>,
          read   |-> <<"realpath", "sed">>,
          patch  |-> <<"upload", "check", "apply", "rm">>,
          suite  |-> <<"suite">>,
          diff   |-> <<"intent", "diff">>]

Command == Steps[op][step]

(* What the adapter gets back: a result with its exit code and, from the     *)
(* gateway, its ok; a request refused; an exception, which is an             *)
(* infrastructure error, or a ValueError that the runner hands to the agent. *)
Answer(tool, kind, exit) == [tool |-> tool, kind |-> kind, exit |-> exit]
NoAnswer == Answer("none", "none", 0)

(* _process_result                                                           *)
ToolOk(a) == a.kind = "result" /\ a.exit = 0 /\ a.exit # 124

Init ==
    /\ owner = "none" /\ box = "absent" /\ raised = FALSE
    /\ op = "idle" /\ step = 1 /\ running = 0 /\ issuedAt = 0 /\ open = FALSE
    /\ budget = 0 /\ elapsed = 0 /\ issued = 0 /\ uploaded = 0
    /\ held = Answer("none", "none", 0)
    /\ patch = {} /\ tmp = FALSE /\ workspace = {} /\ before = {}
    /\ tracked = {} /\ intended = {} /\ rewritten = FALSE /\ export = {}
    /\ answer = NoAnswer /\ faults = {}

-----------------------------------------------------------------------------
(* Time limits                                                               *)

AtLeast(a, b) == IF a >= b THEN a ELSE b
AtMost(a, b) == IF a <= b THEN a ELSE b
CeilDiv(a, b) == (a + b - 1) \div b

(* _command_timeout and _with_deadline; start passes no deadline.            *)
CommandTimeout_PerCommand(maximum) ==
    IF op = "start" THEN maximum
    ELSE AtLeast(1, AtMost(maximum, CeilDiv(budget, Second)))

CommandTimeout(maximum) ==
    IF op = "start" THEN maximum
    ELSE AtLeast(1, AtMost(maximum, CeilDiv(AtLeast(0, budget - elapsed), Second)))

Expired == running > 0 /\ elapsed >= issuedAt + running * Second

(* The clock. A command is killed when its time is up, but its output is     *)
(* read until nobody holds the stream; and nothing limits an upload.         *)
Tick ==
    /\ op \in Tools
    /\ \/ running > 0 /\ ~Expired
       \/ open /\ elapsed < StreamBound
       \/ Command = "upload" /\ elapsed < UploadBound
    /\ elapsed' = elapsed + 1
    /\ UNCHANGED <<life, op, step, running, issuedAt, open, budget, issued, uploaded,
                   held, files, answer, faults>>

(* _BoundedBytes: output above the bound keeps its head and its tail, with a *)
(* marker between them, which makes it longer than the bound.                *)
Cut == Cardinality(export) > OutputLimit
Retained == IF Cut THEN OutputLimit + 1 ELSE Cardinality(export)

(* The size the runner compares with its limit: of the decoded text, where   *)
(* each byte that is not UTF-8 has become a longer character.                *)
Measured == IF Cut THEN Retained ELSE Retained + Cardinality(export \intersect NotUtf8)

-----------------------------------------------------------------------------
(* Commands                                                                  *)

(* _exec, up to the call of Docker.                                          *)
Issue ==
    /\ op # "idle" /\ running = 0 /\ Command # "upload"
    /\ running' = CommandTimeout(IF op = "suite" THEN SuiteLimit ELSE DefaultLimit)
    /\ issuedAt' = elapsed /\ issued' = issued + 1
    /\ UNCHANGED <<life, op, step, open, budget, elapsed, uploaded, held, files, answer, faults>>

(* The symmetric difference: a patch undoes what it did when applied twice.  *)
Flip(w, d) == (w \ d) \union (d \ w)

Existing == Base \union workspace

(* What git diff speaks of: changes to files Git knows, and whole files that *)
(* only the intent-to-add made known; of an index that others wrote, any.    *)
Spoken(f) ==
    rewritten \/ f = (workspace \intersect (tracked \union intended))
                       \union (intended \intersect Base)

(* A suite's code may write Git's index as well.                             *)
MayRewrite == rewritten' \in (IF op = "suite" THEN {rewritten, TRUE} ELSE {rewritten})

(* What a command that ended with `exit` did. `git apply` and a suite that   *)
(* did not succeed may have written any part of what they write; `git add`   *)
(* writes its index at once.                                                 *)
Effect(exit) ==
    /\ CASE Command = "apply" /\ exit = 0 -> workspace' = Flip(workspace, patch)
         [] Command = "apply" /\ exit # 0 ->
                \E d \in SUBSET patch : workspace' = Flip(workspace, d)
         [] Command = "suite" ->
                \E d \in SUBSET Files : workspace' = Flip(workspace, d)
         [] OTHER -> workspace' = workspace
    /\ tracked' = IF Command = "add" /\ exit = 0 THEN Base \ Ignored ELSE tracked
    /\ intended' = IF Command = "intent" /\ exit = 0
                   THEN (Existing \ Ignored) \ tracked ELSE intended
    /\ MayRewrite
    /\ export' \in (IF Command = "diff" /\ exit = 0
                    THEN {f \in SUBSET Files : Spoken(f)} ELSE {export})
    /\ tmp' = (tmp /\ ~(Command = "rm" /\ exit = 0))
    /\ faults' = IF Command = "rm" /\ exit # 0 THEN faults \union {"sweep"} ELSE faults

(* What a call knew is forgotten when it returns.                            *)
Forget ==
    /\ op' = "idle" /\ step' = 1 /\ held' = NoAnswer
    /\ budget' = 0 /\ elapsed' = 0 /\ issued' = 0 /\ issuedAt' = 0 /\ uploaded' = 0
    /\ patch' = {} /\ before' = {}

Finish(a) ==
    /\ answer' = a
    /\ Forget
    /\ UNCHANGED life

GoOn(next, keep) ==
    /\ step' = next /\ held' = keep
    /\ UNCHANGED <<op, answer, life, issuedAt, time, patch, before>>

(* start hands the sandbox over, or closes it because a command failed.      *)
HandOver ==
    /\ owner' = "caller"
    /\ Forget
    /\ UNCHANGED <<answer, box, raised>>

(* A removal may fail after it took effect.                                  *)
Remove ==
    /\ owner' = "nobody"
    /\ \/ box' = "removed" /\ raised' = raised
       \/ box' \in {"up", "removed"} /\ raised' = TRUE

Abandon ==
    /\ owner' = "nobody"
    /\ box' \in {"up", "removed"} /\ raised' = TRUE
    /\ Forget
    /\ UNCHANGED answer

Last == step = Len(Steps[op])

(* apply_patch: the cleanup of its finally clause comes last, whatever       *)
(* happened, and its own outcome is dropped.                                 *)
AfterPatch_ReturnsCleanup(a) ==
    IF Last THEN Finish(a)
    ELSE IF Command = "check" /\ a.kind = "result" /\ a.exit = 0
         THEN GoOn(step + 1, NoAnswer)
         ELSE GoOn(Len(Steps.patch), a)

AfterPatch_NoFinally(a) ==
    IF Last THEN Finish(held)
    ELSE IF Command = "check"
         THEN IF a.kind = "result" /\ a.exit = 0 THEN GoOn(step + 1, NoAnswer) ELSE Finish(a)
         ELSE GoOn(Len(Steps.patch), a)

AfterPatch_RetriesAfresh(a) ==
    IF Last /\ a.kind = "error"
    THEN /\ step' = 2 /\ held' = NoAnswer
         /\ elapsed' = 0 /\ issued' = 0 /\ issuedAt' = 0 /\ uploaded' = 0
         /\ UNCHANGED <<op, budget, patch, before, answer, life>>
    ELSE IF Last THEN Finish(held)
    ELSE IF Command = "check" /\ a.kind = "result" /\ a.exit = 0
         THEN GoOn(step + 1, NoAnswer)
         ELSE GoOn(Len(Steps.patch), a)

AfterPatch(a) ==
    IF Last THEN Finish(held)
    ELSE IF Command = "check" /\ a.kind = "result" /\ a.exit = 0
         THEN GoOn(step + 1, NoAnswer)
         ELSE GoOn(Len(Steps.patch), a)

(* _resolve_workspace_path takes any failure of realpath, a kill too, for a  *)
(* path that does not exist; it may also refuse where the path leads, and an *)
(* answer that is empty or of several lines is Docker's fault.               *)
AfterLookup_RunsOn(a) ==
    IF a.kind = "error" THEN Finish(a)
    ELSE \/ a.exit = 0 /\ GoOn(step + 1, NoAnswer)
         \/ a.exit = 0 /\ Finish(Answer(op, "error", 0))
         \/ Finish(Answer(op, "invalid", 0))

AfterLookup(a) ==
    IF Last \/ a.kind = "error" THEN Finish(a)
    ELSE \/ a.exit = 0 /\ GoOn(step + 1, NoAnswer)
         \/ a.exit = 0 /\ Finish(Answer(op, "error", 0))
         \/ Finish(Answer(op, "invalid", 0))

AfterDiff(a) ==
    IF a.kind = "result" /\ a.exit # 0 THEN Finish(Answer(op, "error", a.exit))
    ELSE IF a.kind = "result" /\ ~Last THEN GoOn(step + 1, NoAnswer)
    ELSE Finish(a)

AfterInit(a) ==
    IF a.kind # "result" \/ a.exit # 0 THEN Abandon
    ELSE IF Last THEN HandOver
    ELSE GoOn(step + 1, NoAnswer)

After(a) ==
    CASE op = "start" -> AfterInit(a)
      [] op = "patch" -> AfterPatch(a)
      [] op \in {"search", "read"} -> AfterLookup(a)
      [] op = "diff" -> AfterDiff(a)
      [] op = "suite" -> Finish(a)

(* A process that a suite leaves behind, out of timeout's reach, keeps the   *)
(* stream of its output open.                                                *)
Detach ==
    /\ op = "suite" /\ running > 0 /\ ~open
    /\ open' = TRUE
    /\ UNCHANGED <<life, op, step, running, issuedAt, time, held, files, answer, faults>>

(* The command has ended, by itself or killed, and so has its output.        *)
CommandEnds ==
    \E exit \in Exits :
        /\ running > 0
        /\ Expired /\ ~open => exit \in {0, 137}
        /\ running' = 0 /\ open' = FALSE
        /\ Effect(exit)
        /\ After(Answer(op, "result", exit))

(* Docker fails anywhere in exec_create, exec_start, the stream or           *)
(* exec_inspect: the command may have run or not.                            *)
TransportFails ==
    /\ running > 0
    /\ running' = 0 /\ open' = FALSE
    /\ \E d \in SUBSET (CASE Command = "apply" -> patch
                          [] Command = "suite" -> Files
                          [] OTHER -> {}) : workspace' = Flip(workspace, d)
    /\ tmp' \in (IF Command = "rm" THEN {tmp, FALSE} ELSE {tmp})
    /\ faults' = faults \union {"transport"}
    /\ MayRewrite
    /\ After(Answer(op, "error", 0))
    /\ UNCHANGED <<tracked, intended, export>>

-----------------------------------------------------------------------------
(* Uploads                                                                   *)

Uploads ==
    /\ op # "idle" /\ Command = "upload"
    /\ uploaded' = elapsed
    /\ tmp' = (tmp \/ op = "patch")
    /\ step' = step + 1
    /\ UNCHANGED <<life, op, running, issuedAt, open, budget, elapsed, issued, held, patch,
                   workspace, index, export, answer, before, faults>>

(* apply_patch uploads before its try statement, so no cleanup follows; the  *)
(* file may have been written all the same.                                  *)
UploadFails ==
    /\ op # "idle" /\ Command = "upload"
    /\ tmp' \in (IF op = "patch" THEN {tmp, TRUE} ELSE {tmp})
    /\ faults' = faults \union {"transport"}
    /\ IF op = "start" THEN Abandon ELSE Finish(Answer(op, "error", 0))
    /\ UNCHANGED <<running, open, workspace, index, export>>

-----------------------------------------------------------------------------
(* The life of the sandbox, and the calls of the adapter                     *)

Start ==
    /\ owner = "none"
    /\ owner' = "start" /\ box' = "up" /\ op' = "start" /\ step' = 1
    /\ UNCHANGED <<raised, running, issuedAt, open, time, held, files, answer, faults>>

(* containers.run creates the container, then starts it.                     *)
StartFails ==
    /\ owner = "none"
    /\ owner' = "nobody" /\ box' \in {"absent", "created"} /\ raised' = TRUE
    /\ UNCHANGED <<op, step, running, issuedAt, open, time, held, files, answer, faults>>

(* After an infrastructure error the runner only exports and closes, and     *)
(* after the export it only closes.                                          *)
Usable(tool) ==
    /\ owner = "caller" /\ op = "idle"
    /\ answer.tool # "diff"
    /\ answer.kind = "error" => tool = "diff"

Call(tool) ==
    /\ Usable(tool)
    /\ \E b \in Budgets : budget' = b
    /\ patch' \in (IF tool = "patch" THEN SUBSET Files \ {{}} ELSE {{}})
    /\ op' = tool /\ step' = 1
    /\ elapsed' = 0 /\ issued' = 0 /\ uploaded' = 0
    /\ before' = IF tool = "patch" THEN workspace ELSE {}
    /\ answer' = NoAnswer
    /\ UNCHANGED <<life, running, issuedAt, open, held, tmp, workspace, index, export, faults>>

(* ToolGateway.execute: a patch that the policy rejects or a suite that is   *)
(* not available never reaches the sandbox.                                  *)
Refuse(tool) ==
    /\ tool \in {"patch", "suite"} /\ Usable(tool)
    /\ answer' = Answer(tool, "refused", 0)
    /\ UNCHANGED <<life, op, step, running, issuedAt, open, time, held, files, faults>>

Close ==
    /\ owner = "caller" /\ op = "idle"
    /\ Remove
    /\ UNCHANGED <<op, step, running, issuedAt, open, time, held, files, answer, faults>>

Done == owner = "nobody" /\ UNCHANGED vars

SandboxStep == Issue \/ CommandEnds \/ TransportFails \/ Uploads \/ UploadFails

Next ==
    \/ Start \/ StartFails
    \/ \E tool \in Tools : Call(tool) \/ Refuse(tool)
    \/ SandboxStep \/ Detach \/ Tick \/ Close \/ Done

Spec == Init /\ [][Next]_vars

(* timeout(1) ends a command, and with it the stream unless others hold it.  *)
FairSpec == Spec /\ WF_vars(Tick) /\ WF_vars(~open /\ SandboxStep)

-----------------------------------------------------------------------------
(* Properties                                                                *)

(* The values of every variable.                                             *)
TypeOK ==
    /\ owner \in {"none", "start", "caller", "nobody"}
    /\ box \in {"absent", "created", "up", "removed"}
    /\ raised \in BOOLEAN
    /\ op \in Tools \union {"idle", "start"}
    /\ step \in 1 .. 7 /\ (op # "idle" => step <= Len(Steps[op]))
    /\ running \in Nat /\ issuedAt \in Nat /\ open \in BOOLEAN
    /\ budget \in Nat /\ elapsed \in Nat /\ issued \in Nat /\ uploaded \in Nat
    /\ patch \subseteq Files /\ workspace \subseteq Files /\ before \subseteq Files
    /\ tracked \subseteq Files /\ intended \subseteq Files /\ export \subseteq Files
    /\ tmp \in BOOLEAN /\ rewritten \in BOOLEAN
    /\ faults \subseteq {"transport", "sweep"}

(* A call outlives its deadline by at most one second for each command it    *)
(* issues, not counting the time of an upload, which has no limit, and but   *)
(* for a suite whose stream is held open: commands share the one deadline,   *)
(* and none gets a fresh allowance.                                          *)
OverrunIsBounded ==
    op \in Tools /\ Command # "upload" /\ ~open =>
        elapsed <= AtLeast(budget, uploaded) + issued * Second

Returns(tool) == op = tool /\ op' = "idle"

(* apply_patch tells the truth: when the tool says ok the whole patch is in  *)
(* the workspace, when only the check and the cleanup ran nothing is, and an *)
(* apply that was cut short touched only the patch's files. No command of    *)
(* another tool but a suite writes to the workspace.                         *)
PatchReportIsTrue == [][
    /\ Returns("patch") =>
        /\ ToolOk(answer') => workspace' = Flip(before, patch)
        /\ issued < 3 => workspace' = before
        /\ Flip(workspace', before) \subseteq patch
    /\ workspace' # workspace => op \in {"patch", "suite"}]_vars

(* A patch file stays in /tmp only if Docker failed or its removal did.      *)
PatchFileIsSwept == op = "idle" /\ tmp => faults # {}

(* A diff speaks of every change outside ignored files, new files too, and   *)
(* of nothing else, whatever patches, refused calls, failures and kills came *)
(* before it, unless a suite wrote the index. It reaches the runner whole,   *)
(* but for texts that are not UTF-8, or is above the limit of any task that  *)
(* allows no more than the bound on output: the marker of a cut sees to it.  *)
ExportIsWhole ==
    op = "idle" /\ answer.tool = "diff" /\ answer.kind = "result" =>
        /\ ~rewritten => export = workspace \ Ignored
        /\ \A limit \in PatchLimits :
             Measured <= limit => limit > OutputLimit \/ Retained = Cardinality(export)

(* A container that nobody will ever close was reported by an exception: of  *)
(* start, whose cleanup may fail too, or of close.                           *)
LeakIsReported == owner = "nobody" /\ box \in {"created", "up"} => raised

(* The export is the whole workspace diff or refused, and it leaves neither  *)
(* its patch file nor the container behind without a word.                   *)
ExportIsClean ==
    /\ ExportIsWhole
    /\ PatchFileIsSwept
    /\ LeakIsReported

(* A call ends, however long its commands would run, because each runs under *)
(* timeout; but a suite may leave behind a process that holds its stream,    *)
(* which no timeout covers.                                                  *)
CallsReturn ==
    (op \in Tools /\ Command # "upload") ~> (op = "idle" \/ (op = "suite" /\ open))

(* Said of the program, docs/CLOUD_RUNBOOK.md:141: "named test commands      *)
(* cannot exceed their sealed timeout."                                      *)
SealedTimeoutsHold == op = "suite" => elapsed <= SuiteLimit * Second

(* docs/EXPERIMENT_PROTOCOL.md: "Infrastructure errors are excluded from     *)
(* training. Agent-caused timeouts and resource exhaustion remain agent      *)
(* failures." A call that ran out of its time on sound infrastructure must   *)
(* not be an infrastructure error.                                           *)
TimeoutsAreNotInfrastructure == [][
    Returns("diff") /\ Expired /\ elapsed >= budget /\ answer'.kind = "error"
        => faults' # {}]_vars
=============================================================================
