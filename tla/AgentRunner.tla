---------------------------- MODULE AgentRunner ----------------------------
(***************************************************************************)
(* One rollout of an agent: AgentRunner.run of agent/runner.py together    *)
(* with the environment adapter it drives (agent/environment.py) and the   *)
(* life of the one container that adapter owns.                            *)
(*                                                                         *)
(* The runner is sequential, but time is not under its control: the clock  *)
(* may move between any two of its steps, and every call it makes (policy, *)
(* tool, diff, close) may take any time and may fail.  One action is one   *)
(* stretch of code between two points where the clock is read or a call    *)
(* blocks.  Texts are abstracted to what the runner decides on: the kind   *)
(* of a reply, its token count, and the size in bytes of a diff.           *)
(***************************************************************************)
EXTENDS Integers, Sequences

CONSTANTS
    MaxSteps,              \* task.budgets.max_steps
    MaxWall,               \* task.budgets.max_wall_time_seconds
    MaxTokens,             \* task.budgets.max_policy_tokens
    MaxPatchBytes,         \* task.budgets.max_patch_bytes
    MaxConsecutiveInvalid, \* RunnerConfig.max_consecutive_invalid_actions
    PolicyTimeout,         \* timeout configured in the policy client
    StepTokens,            \* token usages a reply may report
    DiffSizes,             \* sizes the workspace diff may take (0: no change)
    ClockBound             \* bound of the model: the clock stops here

ASSUME BudgetsAssumption ==
    /\ MaxSteps \in Nat \ {0}
    /\ MaxWall \in Nat \ {0}
    /\ MaxTokens \in Nat
    /\ MaxPatchBytes \in Nat \ {0}
    /\ MaxConsecutiveInvalid \in Nat \ {0}
    /\ PolicyTimeout \in Nat \ {0}
    /\ StepTokens \subseteq Nat
    /\ 0 \in DiffSizes /\ DiffSizes \subseteq Nat
    /\ ClockBound \in Nat /\ ClockBound > MaxWall

VARIABLES
    pc,          \* where run() is
    now,         \* self._elapsed(started)
    step,        \* loop index
    invalid,     \* consecutive_invalid
    tokens,      \* total_policy_tokens
    call,        \* the clock reads the current call rests on: when it was
                 \* decided on, and the remaining time it was given
    reply,       \* the PolicyStep being handled
    events,      \* the trajectory's events
    termination, \* termination reason decided so far
    patch,       \* bytes of the patch exported so far (0: "")
    container,   \* the agent container
    workspace,   \* bytes of the diff the workspace would export now
    ready        \* sandbox_ready: reset() returned, the adapter is attached

vars == <<pc, now, step, invalid, tokens, call, reply, events, termination,
          patch, container, workspace, ready>>

NoReason == "none"
Reasons == {"finished", "step_budget", "token_budget", "wall_time_budget",
            "context_budget", "invalid_action", "policy_error",
            "infrastructure_error"}

(* inspect: search_code and read_file.  mutate: apply_patch and run_tests,  *)
(* the tools that may leave the workspace changed.                          *)
Tools == {"inspect", "mutate"}
ReplyKinds == Tools \cup {"finish", "malformed", "oversized", "unparsable"}
ToolOutcomes == {"ok", "error", "infrastructure"}

Locations == {"reset", "loop", "act", "policy", "decide", "tool",
              "execute", "observe", "export", "diff", "close", "done"}

Replies == [kind : ReplyKinds, tokens : StepTokens]

(* A TrajectoryEvent.  spent is the running total of token_usage, began    *)
(* the time at which the reply was judged.                                 *)
Events == [step : Nat, kind : ReplyKinds, executed : BOOLEAN,
           outcome : ToolOutcomes, spent : Nat, began : Nat]

NoReply == [kind |-> "malformed", tokens |-> 0]

-----------------------------------------------------------------------------
(* Budgets *)

Remaining == IF now < MaxWall THEN MaxWall - now ELSE 0

WallExpired == now >= MaxWall

TokensExceeded_BeforeReply == tokens - reply.tokens > MaxTokens
TokensExceeded == tokens > MaxTokens

StreakFull == invalid + 1 >= MaxConsecutiveInvalid

(* _effective_timeout: never wait past the task deadline. *)
EffectiveTimeout(remaining) ==
    IF remaining < PolicyTimeout THEN remaining ELSE PolicyTimeout

(* _uses_task_deadline: whose limit a timeout ran into. *)
UsesTaskDeadline(remaining) == remaining <= PolicyTimeout

Event(outcome, executed, began) ==
    [step |-> step, kind |-> reply.kind, executed |-> executed,
     outcome |-> outcome, spent |-> tokens, began |-> began]

Record(e) == events' = Append(events, e)

-----------------------------------------------------------------------------
Init ==
    /\ pc = "reset"
    /\ now = 0
    /\ step = 0
    /\ invalid = 0
    /\ tokens = 0
    /\ call = [at |-> 0, remaining |-> MaxWall]
    /\ reply = NoReply
    /\ events = <<>>
    /\ termination = NoReason
    /\ patch = 0
    /\ container = "none"
    /\ workspace = 0
    /\ ready = FALSE

Goto(loc) == pc' = loc

(* Decide the reason of the rollout and leave the loop. *)
Break_Missing(reason) == termination' = reason /\ Goto("loop")
Break(reason) == termination' = reason /\ Goto("export")

(* Fail past the export, to the finally clause. *)
Abort(reason) == termination' = reason /\ Goto("close")

Continue == Goto("loop") /\ step' = step + 1 /\ UNCHANGED termination

(* The clock moves whenever it likes. *)
Tick ==
    /\ now < ClockBound
    /\ now' = now + 1
    /\ UNCHANGED <<pc, step, invalid, tokens, call, reply, events, termination,
                   patch, container, workspace, ready>>

(* reset() returned: the container runs a pristine snapshot. *)
ResetSucceeds ==
    /\ pc = "reset"
    /\ container' = "running"
    /\ ready' = TRUE
    /\ Goto("loop")
    /\ UNCHANGED <<now, step, invalid, tokens, call, reply, events,
                   termination, patch, workspace>>

(* reset() raised.  DockerAgentSandbox.start removes a container it created  *)
(* before it re-raises; when that removal fails too the container stays      *)
(* behind, and no adapter is attached for close() to find.                   *)
ResetFails ==
    /\ pc = "reset"
    /\ container' \in {"none", "removed", "leaked"}
    /\ Abort("infrastructure_error")
    /\ UNCHANGED <<now, step, invalid, tokens, call, reply, events, patch,
                   workspace, ready>>

StepsLeft_OneMore == step <= MaxSteps
StepsLeft == step < MaxSteps

(* for step in range(max_steps), with the wall-time test at its top. *)
LoopTop ==
    /\ pc = "loop"
    /\ \/ ~StepsLeft /\ Break("step_budget")
       \/ StepsLeft /\ WallExpired /\ Break("wall_time_budget")
       \/ StepsLeft /\ ~WallExpired /\ Goto("act") /\ UNCHANGED termination
    /\ UNCHANGED <<now, step, invalid, tokens, call, reply, events, patch,
                   container, workspace, ready>>

(* policy.act is given the time that remains now, not at the loop's test. *)
CallPolicy ==
    /\ pc = "act"
    /\ call' = [at |-> now, remaining |-> Remaining]
    /\ Goto("policy")
    /\ UNCHANGED <<now, step, invalid, tokens, reply, events, termination,
                   patch, container, workspace, ready>>

(* A reply arrives and its tokens are charged. *)
PolicyReplies ==
    /\ pc = "policy"
    /\ \E r \in Replies :
          /\ reply' = r
          /\ tokens' = tokens + r.tokens
    /\ Goto("decide")
    /\ UNCHANGED <<now, step, invalid, call, events, termination, patch,
                   container, workspace, ready>>

(* PolicyContextLengthError, any other exception, or a conversation that    *)
(* compact_messages cannot bound.                                           *)
PolicyFails ==
    /\ pc = "policy"
    /\ \E reason \in {"context_budget", "policy_error"} : Break(reason)
    /\ UNCHANGED <<now, step, invalid, tokens, call, reply, events, patch,
                   container, workspace, ready>>

BreakOnTimeout_Retries == Goto("act") /\ UNCHANGED termination
BreakOnTimeout ==
    Break(IF UsesTaskDeadline(call.remaining) THEN "wall_time_budget"
                                              ELSE "policy_error")

(* PolicyTimeoutError: the client gave up after its effective timeout. *)
PolicyTimesOut ==
    /\ pc = "policy"
    /\ now - call.at >= EffectiveTimeout(call.remaining)
    /\ BreakOnTimeout
    /\ UNCHANGED <<now, step, invalid, tokens, call, reply, events, patch,
                   container, workspace, ready>>
-----------------------------------------------------------------------------
(* Judging a reply.  The clock is read once, after the reply arrived. *)

(* A reply over the character limit ends the rollout whatever its cause. *)
JudgeOversized ==
    /\ pc = "decide" /\ reply.kind = "oversized"
    /\ Record(Event("error", FALSE, now))
    /\ Break(IF TokensExceeded THEN "token_budget"
            ELSE IF WallExpired THEN "wall_time_budget"
            ELSE "invalid_action")
    /\ UNCHANGED <<now, step, invalid, tokens, call, reply, patch, container,
                   workspace, ready>>

(* parse_policy_action raised.  The loop continues straight to its top. *)
JudgeMalformed ==
    /\ pc = "decide" /\ reply.kind = "malformed"
    /\ Record(Event("error", FALSE, now))
    /\ invalid' = invalid + 1
    /\ \/ TokensExceeded /\ Break("token_budget") /\ UNCHANGED step
       \/ /\ ~TokensExceeded /\ WallExpired
          /\ Break("wall_time_budget") /\ UNCHANGED step
       \/ /\ ~TokensExceeded /\ ~WallExpired /\ StreakFull
          /\ Break("invalid_action") /\ UNCHANGED step
       \/ ~TokensExceeded /\ ~WallExpired /\ ~StreakFull /\ Continue
    /\ UNCHANGED <<now, tokens, call, reply, patch, container, workspace, ready>>

(* parse_policy_action raised anything but an ActionParseError, as it does    *)
(* for a reply nested too deep or a number too long for json.loads: nothing  *)
(* is recorded and the outer handler takes over.                             *)
ParserFails ==
    /\ pc = "decide" /\ reply.kind = "unparsable"
    /\ Abort("infrastructure_error")
    /\ UNCHANGED <<now, step, invalid, tokens, call, reply, events, patch,
                   container, workspace, ready>>

(* A valid action that the budgets no longer pay for is recorded, not run. *)
RefuseAction ==
    /\ pc = "decide" /\ reply.kind \in Tools \cup {"finish"}
    /\ TokensExceeded \/ WallExpired
    /\ Record(Event("error", FALSE, now))
    /\ invalid' = 0
    /\ Break(IF TokensExceeded THEN "token_budget" ELSE "wall_time_budget")
    /\ UNCHANGED <<now, step, tokens, call, reply, patch, container, workspace,
                   ready>>

AcceptFinish ==
    /\ pc = "decide" /\ reply.kind = "finish"
    /\ ~TokensExceeded /\ ~WallExpired
    /\ Record(Event("ok", FALSE, now))
    /\ invalid' = 0
    /\ Break("finished")
    /\ UNCHANGED <<now, step, tokens, call, reply, patch, container, workspace,
                   ready>>

AcceptTool ==
    /\ pc = "decide" /\ reply.kind \in Tools
    /\ ~TokensExceeded /\ ~WallExpired
    /\ invalid' = 0
    /\ call' = [call EXCEPT !.at = now]
    /\ Goto("tool")
    /\ UNCHANGED <<now, step, tokens, reply, events, termination, patch,
                   container, workspace, ready>>

(* The tool is given what remains at a later clock read, perhaps nothing.    *)
StartTool ==
    /\ pc = "tool"
    /\ call' = [call EXCEPT !.remaining = Remaining]
    /\ Goto("execute")
    /\ UNCHANGED <<now, step, invalid, tokens, reply, events, termination, patch,
                   container, workspace, ready>>

(* sandbox.execute returned or raised.  A mutating tool may have changed the *)
(* workspace whatever it reports: tests write files, and a command may be    *)
(* killed, or its connection lost, halfway.  ValueError is a tool error;     *)
(* every other exception is an infrastructure error.                         *)
ToolReturns ==
    /\ pc = "execute"
    /\ workspace' \in IF reply.kind = "mutate" THEN DiffSizes ELSE {workspace}
    /\ \E outcome \in ToolOutcomes :
          /\ Record(Event(outcome, TRUE, call.at))
          /\ IF outcome = "infrastructure"
             THEN Break("infrastructure_error")
             ELSE Goto("observe") /\ UNCHANGED termination
    /\ UNCHANGED <<now, step, invalid, tokens, call, reply, patch, container,
                   ready>>

(* The wall-time test after a tool, before the next iteration. *)
Observe ==
    /\ pc = "observe"
    /\ \/ WallExpired /\ Break("wall_time_budget") /\ UNCHANGED step
       \/ ~WallExpired /\ Continue
    /\ UNCHANGED <<now, invalid, tokens, call, reply, events, patch, container,
                   workspace, ready>>

-----------------------------------------------------------------------------
(* After the loop: export the patch if there is time, then always close. *)

ExpireUnexported == Abort("wall_time_budget")

(* With no time left the patch is not exported, and the reason becomes      *)
(* wall_time_budget whatever it was.                                        *)
BeginExport ==
    /\ pc = "export"
    /\ call' = [at |-> now, remaining |-> Remaining]
    /\ \/ Remaining > 0 /\ Goto("diff") /\ UNCHANGED termination
       \/ Remaining = 0 /\ ExpireUnexported
    /\ UNCHANGED <<now, step, invalid, tokens, reply, events, patch, container,
                   workspace, ready>>

DropPatch == patch' = 0 /\ termination' = "invalid_action"

ExportSucceeds ==
    /\ pc = "diff"
    /\ \/ workspace <= MaxPatchBytes /\ patch' = workspace /\ UNCHANGED termination
       \/ workspace > MaxPatchBytes /\ DropPatch
    /\ Goto("close")
    /\ UNCHANGED <<now, step, invalid, tokens, call, reply, events, container,
                   workspace, ready>>

(* diff raised: the outer handler takes over. *)
ExportFails ==
    /\ pc = "diff"
    /\ patch' = 0
    /\ Abort("infrastructure_error")
    /\ UNCHANGED <<now, step, invalid, tokens, call, reply, events, container,
                   workspace, ready>>

LoseContainer_Quiet == container' = "leaked" /\ UNCHANGED termination
LoseContainer == container' = "leaked" /\ termination' = "infrastructure_error"

(* close() has nothing to do when reset() never attached a sandbox.  A       *)
(* failed removal is reported but never retried.                             *)
Close ==
    /\ pc = "close"
    /\ \/ ~ready /\ UNCHANGED <<container, termination>>
       \/ ready /\ container' = "removed" /\ UNCHANGED termination
       \/ ready /\ LoseContainer
    /\ Goto("done")
    /\ UNCHANGED <<now, step, invalid, tokens, call, reply, events, patch,
                   workspace, ready>>

Done == pc = "done" /\ UNCHANGED vars

-----------------------------------------------------------------------------
(* What the runner does of itself, as opposed to what the policy does. *)
RunnerStep ==
    \/ ResetSucceeds \/ ResetFails
    \/ LoopTop \/ CallPolicy \/ PolicyTimesOut
    \/ JudgeOversized \/ JudgeMalformed \/ ParserFails \/ RefuseAction
    \/ AcceptFinish \/ AcceptTool \/ StartTool \/ ToolReturns \/ Observe
    \/ BeginExport \/ ExportSucceeds \/ ExportFails \/ Close

Next == Tick \/ RunnerStep \/ PolicyReplies \/ PolicyFails \/ Done

Spec == Init /\ [][Next]_vars

(* The runner takes its steps, time passes, and the calls into the sandbox   *)
(* return (every command runs under timeout(1)).  A policy endpoint owes no  *)
(* answer: only the client's timeout is sure to come.                        *)
FairSpec == Spec /\ WF_vars(Tick) /\ WF_vars(RunnerStep)
-----------------------------------------------------------------------------
(* Properties *)

LastEvent == events[Len(events)]

EndsMalformed(n) ==
    /\ Len(events) >= n
    /\ \A i \in Len(events) - n + 1 .. Len(events) : events[i].kind = "malformed"

(* The type invariant: every variable of run() stays in its range; the step  *)
(* index never passes max_steps and the exported patch never passes          *)
(* max_patch_bytes.                                                          *)
TypeOK ==
    /\ pc \in Locations
    /\ now \in 0 .. ClockBound
    /\ step \in 0 .. MaxSteps
    /\ invalid \in 0 .. MaxConsecutiveInvalid
    /\ tokens \in Nat
    /\ call \in [at : 0 .. ClockBound, remaining : 0 .. MaxWall]
    /\ reply \in [kind : ReplyKinds, tokens : Nat]
    /\ events \in Seq(Events)
    /\ termination \in Reasons \cup {NoReason}
    /\ patch \in 0 .. MaxPatchBytes
    /\ container \in {"none", "running", "removed", "leaked"}
    /\ workspace \in Nat
    /\ ready \in BOOLEAN

(* Every tool that ran was paid for when its reply was judged: with that     *)
(* reply charged, the tokens were within max_policy_tokens and the clock     *)
(* before the deadline. (runner.py:120-121 tests both budgets after the      *)
(* reply; the tool itself may start later, past the deadline even, with no   *)
(* time left.)                                                               *)
ToolsWithinBudgets ==
    \A i \in DOMAIN events :
        events[i].executed => events[i].spent <= MaxTokens
                              /\ events[i].began < MaxWall

(* A trajectory reported as finished ends in an accepted finish action, its  *)
(* patch is the whole final workspace diff exported before the deadline, and *)
(* its container is gone: no later failure is hidden behind "finished".      *)
FinishedIsEarned ==
    pc = "done" /\ termination = "finished" =>
        /\ events # <<>>
        /\ LastEvent.kind = "finish" /\ LastEvent.outcome = "ok"
        /\ LastEvent.spent <= MaxTokens
        /\ call.remaining > 0
        /\ patch = workspace
        /\ container = "removed"

(* A budget is only blamed when it is exhausted: the deadline has really     *)
(* passed when wall_time_budget is reported (also when the policy client's   *)
(* timeout is what ended the run), the tokens are overspent for              *)
(* token_budget, all steps are used for step_budget, and invalid_action has  *)
(* an oversized reply, a full streak of malformed ones or an oversized patch *)
(* behind it.                                                                *)
ReasonsAreEarned ==
    pc = "done" =>
        /\ termination = "wall_time_budget" => now >= MaxWall
        /\ termination = "token_budget" => tokens > MaxTokens
        /\ termination = "step_budget" => Len(events) = MaxSteps
        /\ termination = "invalid_action" =>
              \/ workspace > MaxPatchBytes
              \/ events # <<>> /\ LastEvent.kind = "oversized"
              \/ EndsMalformed(MaxConsecutiveInvalid)

(* The exported patch is the final workspace diff, or nothing; and it is     *)
(* nothing in place of real changes only when the reported reason says so.   *)
NoWorkSilentlyLost ==
    pc = "done" =>
        /\ patch \in {0, workspace}
        /\ patch # workspace => termination \in {"wall_time_budget",
                                   "invalid_action", "infrastructure_error"}

(* No container outlives a rollout unreported: at the end it was never       *)
(* created, was removed, or the rollout is an infrastructure error.          *)
ContainerAccountedFor ==
    pc = "done" =>
        \/ container \in {"none", "removed"}
        \/ container = "leaked" /\ termination = "infrastructure_error"

(* The policy is never asked again after max_consecutive_invalid_actions     *)
(* malformed replies in a row.                                               *)
StreakEndsRollout ==
    pc \in {"act", "policy"} => ~EndsMalformed(MaxConsecutiveInvalid)

(* Event steps are 0, 1, 2, ... and at most max_steps of them: Trajectory's  *)
(* validator, which runs outside every try of run(), never rejects them.     *)
EventsContiguous ==
    /\ \A i \in DOMAIN events : events[i].step = i - 1
    /\ Len(events) <= MaxSteps

(* The time tests are stale when used, but never twice in a row: no policy   *)
(* call follows a reply that was judged after the deadline.                  *)
OneLateCall ==
    pc = "policy" => \A i \in DOMAIN events : events[i].began < MaxWall

(* Once a reason is decided nothing more happens on the agent's account: no  *)
(* event, no tokens, no change of the workspace that the patch is cut from.  *)
NothingAfterReason ==
    [][termination # NoReason => UNCHANGED <<events, tokens, step, workspace>>]_vars

(* Every rollout ends, even if the policy endpoint never answers again.      *)
RunEnds == <>(pc = "done")

(* What a rollout reports of itself is true: its reason has its grounds, its  *)
(* patch is the workspace's or its loss is told, and no container is left    *)
(* without a word.                                                           *)
ReportIsHonest ==
    /\ FinishedIsEarned
    /\ ReasonsAreEarned
    /\ NoWorkSilentlyLost
    /\ ContainerAccountedFor

(* A spent budget costs at most the call that was decided on: no tool runs   *)
(* on overspent tokens or for a reply judged after the deadline, and no      *)
(* policy call follows such a reply or a full streak of malformed ones.      *)
NoCallTooMany ==
    /\ ToolsWithinBudgets
    /\ OneLateCall
    /\ StreakEndsRollout

-----------------------------------------------------------------------------
(* What the documentation says and run() does not do.                        *)

(* docs/ARCHITECTURE.md:336: "Infrastructure failures never enter a trainer  *)
(* batch."  The collector (collector.py:178, 381) keeps a rollout out of     *)
(* verification and training by its termination reason alone, so a rollout   *)
(* in which the sandbox failed must end with a reason the collector skips.   *)
InfrastructureFailuresAreReported ==
    pc = "done" /\ (\E i \in DOMAIN events : events[i].outcome = "infrastructure") =>
        termination = "infrastructure_error"

(* docs/ARCHITECTURE.md:281 names "Invalid JSON" as a policy failure: while  *)
(* the sandbox does its part, what a policy writes is no infrastructure      *)
(* error, whose rollouts are neither verified nor trained on.                *)
RepliesAreNotInfrastructure ==
    pc = "done" /\ reply.kind = "unparsable" /\ container # "leaked" =>
        termination # "infrastructure_error"
=============================================================================
