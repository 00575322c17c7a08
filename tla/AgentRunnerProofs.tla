------------------------- MODULE AgentRunnerProofs -------------------------
(***************************************************************************)
(* The safety properties of AgentRunner hold for every value of its        *)
(* constants.  The inductive invariant is built in layers, each proved     *)
(* inductive on top of the ones before it: the control state (Control),    *)
(* the recorded events (Evidence), the malformed streak (Streak), and the  *)
(* reason, the patch and the container (Verdict).                          *)
(***************************************************************************)
EXTENDS AgentRunner, TLAPS

InBody == {"act", "policy", "decide", "tool", "execute", "observe"}
InLoop == {"reset", "loop"} \cup InBody

(* A reason is decided exactly when the loop is left; the body runs only for *)
(* a step below max_steps; the malformed streak is short of its limit; the   *)
(* remaining time a policy call was given is what the clock said then.       *)
Control ==
    /\ pc \in InLoop => termination = NoReason
    /\ pc \notin InLoop => termination \in Reasons
    /\ pc \in InBody => step < MaxSteps
    /\ pc \in InLoop => invalid < MaxConsecutiveInvalid
    /\ call.at <= now
    /\ pc = "policy" =>
         call.remaining = IF call.at < MaxWall THEN MaxWall - call.at ELSE 0

(* One event per step taken, each judged no later than now; none before the  *)
(* current policy call was judged after the deadline; a tool about to run    *)
(* is paid for.                                                              *)
Evidence ==
    /\ ToolsWithinBudgets
    /\ \A i \in DOMAIN events : events[i].step = i - 1
    /\ \A i \in DOMAIN events : events[i].began <= now
    /\ pc \in {"act", "policy"} =>
          \A i \in DOMAIN events : events[i].began < MaxWall
    /\ pc \in {"tool", "execute"} => /\ tokens <= MaxTokens
                                     /\ call.at < MaxWall
                                     /\ reply.kind \in Tools
    /\ pc \in InLoop \ {"observe"} => Len(events) = step
    /\ pc = "observe" => Len(events) = step + 1
    /\ Len(events) <= MaxSteps

(* consecutive_invalid counts the malformed replies at the end of the        *)
(* trajectory: exactly, except while a tool runs, when the event that ends   *)
(* the streak is still to come.                                              *)
Streak ==
    pc \in InLoop =>
        /\ EndsMalformed(invalid)
        /\ pc \in {"tool", "execute"} => invalid = 0
        /\ pc \notin {"tool", "execute"} /\ Len(events) > invalid =>
              events[Len(events) - invalid].kind # "malformed"

(* What each reason rests on, from the moment it is decided. *)
ReasonGrounds ==
    /\ termination = "finished" =>
          /\ events # <<>>
          /\ LastEvent.kind = "finish" /\ LastEvent.outcome = "ok"
          /\ LastEvent.spent <= MaxTokens
    /\ termination = "wall_time_budget" => now >= MaxWall
    /\ termination = "token_budget" => tokens > MaxTokens
    /\ termination = "step_budget" => Len(events) = MaxSteps
    /\ termination = "invalid_action" =>
          \/ workspace > MaxPatchBytes
          \/ events # <<>> /\ LastEvent.kind = "oversized"
          \/ EndsMalformed(MaxConsecutiveInvalid)

(* What the exported patch is, from the moment export is over. *)
PatchGrounds ==
    /\ patch \in {0, workspace}
    /\ patch # workspace => termination \in {"wall_time_budget",
                               "invalid_action", "infrastructure_error"}
    /\ termination = "finished" => call.remaining > 0

(* Where the container is: attached and running from a successful reset to   *)
(* close; otherwise whatever start left behind, as an infrastructure error.  *)
ContainerGrounds ==
    /\ pc = "reset" => container = "none" /\ ~ready /\ workspace = 0
    /\ pc \in InLoop \cup {"export", "diff"} /\ pc # "reset" =>
          ready /\ container = "running"
    /\ pc = "close" =>
          \/ ready /\ container = "running"
          \/ /\ ~ready /\ termination = "infrastructure_error"
             /\ container \in {"none", "removed", "leaked"}
    /\ pc = "done" =>
          \/ container = "removed"
          \/ /\ termination = "infrastructure_error"
             /\ container \in {"none", "leaked"}

Verdict ==
    /\ ContainerGrounds
    /\ pc \notin {"close", "done"} => patch = 0
    /\ pc = "diff" => call.remaining > 0
    /\ pc \notin InLoop => ReasonGrounds
    /\ pc \in {"close", "done"} => PatchGrounds

IInv == TypeOK /\ Control /\ Evidence /\ Streak /\ Verdict

-----------------------------------------------------------------------------
(* Types and control *)

(* A rollout starts typed and under control. *)
LEMMA InitControl == Init => TypeOK /\ Control
<1> SUFFICES ASSUME Init
             PROVE  TypeOK /\ Control
  OBVIOUS
<1> USE BudgetsAssumption DEF BudgetsAssumption, Init
<1>1. reply \in [kind : ReplyKinds, tokens : Nat]
  BY DEF NoReply, ReplyKinds, Tools
<1>2. call \in [at : 0 .. ClockBound, remaining : 0 .. MaxWall]
  OBVIOUS
<1>3. events \in Seq(Events)
  OBVIOUS
<1>4. TypeOK
  <2>1. ready \in BOOLEAN /\ termination \in Reasons \cup {NoReason}
    OBVIOUS
  <2>2. /\ now \in 0 .. ClockBound /\ step \in 0 .. MaxSteps
        /\ invalid \in 0 .. MaxConsecutiveInvalid /\ patch \in 0 .. MaxPatchBytes
        /\ tokens \in Nat /\ workspace \in Nat
    OBVIOUS
  <2>3. pc \in Locations /\ container \in {"none", "running", "removed", "leaked"}
    BY DEF Locations
  <2>4. QED
    BY <1>1, <1>2, <1>3, <2>1, <2>2, <2>3 DEF TypeOK
<1>5. Control
  BY DEF Control, InLoop, InBody, NoReason
<1>6. QED
  BY <1>4, <1>5

(* Every step keeps the types and the relations between the control state and the rest. *)
LEMMA NextControl == TypeOK /\ Control /\ [Next]_vars => TypeOK' /\ Control'
<1> SUFFICES ASSUME TypeOK, Control, [Next]_vars
             PROVE  TypeOK' /\ Control'
  OBVIOUS
<1> USE BudgetsAssumption DEF BudgetsAssumption, TypeOK, Control, InLoop, InBody, Locations,
        Reasons, NoReason
<1>1. CASE Tick  BY <1>1 DEF Tick
<1>2. CASE ResetSucceeds  BY <1>2 DEF ResetSucceeds, Goto
<1>3. CASE ResetFails  BY <1>3 DEF ResetFails, Abort, Goto
<1>4. CASE LoopTop  BY <1>4 DEF LoopTop, Break, Goto, StepsLeft
<1>5. CASE CallPolicy  BY <1>5 DEF CallPolicy, Goto, Remaining
<1>6. CASE PolicyReplies
  <2>1. PICK r \in Replies : reply' = r /\ tokens' = tokens + r.tokens
    BY <1>6 DEF PolicyReplies
  <2>2. r.kind \in ReplyKinds /\ r.tokens \in Nat
    BY DEF Replies
  <2>3. reply' \in [kind : ReplyKinds, tokens : Nat]
    BY <2>1, <2>2 DEF Replies
  <2>4. tokens' \in Nat
    BY <2>1, <2>2
  <2>5. QED
    BY <1>6, <2>3, <2>4 DEF PolicyReplies, Goto
<1>7. CASE PolicyFails  BY <1>7 DEF PolicyFails, Break, Goto
<1>8. CASE PolicyTimesOut
  BY <1>8 DEF PolicyTimesOut, BreakOnTimeout, Break, Goto
<1>9. CASE JudgeOversized
  BY <1>9 DEF JudgeOversized, Break, Goto, Record, Event, Events, ToolOutcomes
<1>10. CASE JudgeMalformed
  BY SMTT(30), <1>10 DEF JudgeMalformed, Break, Continue, Goto, Record, Event, Events,
     ToolOutcomes, StreakFull
<1>11. CASE RefuseAction
  BY <1>11 DEF RefuseAction, Break, Goto, Record, Event, Events, ToolOutcomes
<1>12. CASE AcceptFinish
  BY <1>12 DEF AcceptFinish, Break, Goto, Record, Event, Events, ToolOutcomes
<1>13. CASE AcceptTool
  <2>1. /\ call' \in [at : 0 .. ClockBound, remaining : 0 .. MaxWall]
        /\ call'.at = now
    BY <1>13 DEF AcceptTool
  <2>2. /\ pc = "decide" /\ pc' = "tool" /\ invalid' = 0
        /\ UNCHANGED <<now, step, tokens, reply, events, termination, patch,
                       container, workspace, ready>>
    BY <1>13 DEF AcceptTool, Goto
  <2>3. TypeOK'
    BY <2>1, <2>2
  <2>4. Control'
    BY <2>1, <2>2
  <2>5. QED
    BY <2>3, <2>4
<1>14. CASE ToolReturns
  BY <1>14 DEF ToolReturns, Break, Goto, Record, Event, Events, ToolOutcomes
<1>15. CASE Observe  BY <1>15 DEF Observe, Break, Continue, Goto
<1>16. CASE BeginExport
  BY <1>16 DEF BeginExport, ExpireUnexported, Abort, Goto, Remaining
<1>17. CASE ExportSucceeds  BY <1>17 DEF ExportSucceeds, DropPatch, Goto
<1>18. CASE ExportFails  BY <1>18 DEF ExportFails, Abort, Goto
<1>19. CASE Close  BY <1>19 DEF Close, LoseContainer, Goto
<1>20. CASE ParserFails
  BY <1>20 DEF ParserFails, Abort, Goto, InLoop, InBody
<1>21. CASE StartTool
  <2>1. Remaining \in 0 .. MaxWall
    BY DEF Remaining
  <2>2. /\ call' \in [at : 0 .. ClockBound, remaining : 0 .. MaxWall]
        /\ call'.at = call.at
    BY <1>21, <2>1 DEF StartTool
  <2>3. QED
    BY <1>21, <2>2 DEF StartTool, Goto
<1>22. CASE UNCHANGED vars  BY <1>22 DEF vars
<1>23. QED
  BY <1>1, <1>2, <1>3, <1>4, <1>5, <1>6, <1>7, <1>8, <1>9, <1>10, <1>11, <1>12,
     <1>13, <1>14, <1>15, <1>16, <1>17, <1>18, <1>19, <1>20, <1>21, <1>22
     DEF Next, RunnerStep, Done

(* Every variable of a rollout keeps its type: steps within max_steps, the   *)
(* malformed streak within its limit, the patch within max_patch_bytes.      *)
THEOREM TypeCorrect == Spec => []TypeOK
<1>1. Init => TypeOK /\ Control  BY InitControl
<1>2. TypeOK /\ Control /\ [Next]_vars => (TypeOK /\ Control)'  BY NextControl
<1>3. QED  BY <1>1, <1>2, PTL DEF Spec
-----------------------------------------------------------------------------
(* Events *)

(* What appending one event does. *)
LEMMA RecordFacts ==
  ASSUME TypeOK, NEW e \in Events, Record(e)
  PROVE  /\ Len(events') = Len(events) + 1
         /\ DOMAIN events = 1 .. Len(events)
         /\ DOMAIN events' = 1 .. Len(events) + 1
         /\ \A i \in 1 .. Len(events) : events'[i] = events[i]
         /\ events'[Len(events) + 1] = e
         /\ Len(events) \in Nat
  BY DEF TypeOK, Record

(* Every recorded event is typed. *)
LEMMA RecordedTypes == TypeOK => \A i \in DOMAIN events :
                          /\ events[i].kind \in ReplyKinds
                          /\ events[i].began \in Nat
                          /\ events[i].spent \in Nat
<1> SUFFICES ASSUME TypeOK, NEW i \in DOMAIN events
             PROVE  events[i].kind \in ReplyKinds /\ events[i].began \in Nat
                    /\ events[i].spent \in Nat
  OBVIOUS
<1>1. events[i] \in Events
  BY DEF TypeOK
<1>2. QED
  BY <1>1 DEF Events

(* An event that the runner records is well formed. *)
LEMMA EventFacts ==
  ASSUME TypeOK, NEW outcome \in ToolOutcomes, NEW executed \in BOOLEAN,
         NEW began \in 0 .. ClockBound
  PROVE  /\ Event(outcome, executed, began) \in Events
         /\ Event(outcome, executed, began).kind = reply.kind
         /\ Event(outcome, executed, began).outcome = outcome
         /\ Event(outcome, executed, began).executed = executed
         /\ Event(outcome, executed, began).began = began
         /\ Event(outcome, executed, began).spent = tokens
         /\ Event(outcome, executed, began).step = step
  BY BudgetsAssumption DEF BudgetsAssumption, TypeOK, Event, Events

(* Recording an event keeps Evidence when the event itself satisfies it.     *)
LEMMA RecordKeepsEvidence ==
  ASSUME TypeOK, Control, Evidence, NEW e \in Events, Record(e),
         pc \in InBody \ {"observe"},
         e.step = step, e.began <= now, now' = now, step' \in {step, step + 1},
         e.executed => e.spent <= MaxTokens /\ e.began < MaxWall
  PROVE  /\ ToolsWithinBudgets'
         /\ \A i \in DOMAIN events' : events'[i].step = i - 1
         /\ \A i \in DOMAIN events' : events'[i].began <= now'
         /\ Len(events') = step + 1
         /\ Len(events') <= MaxSteps
<1>1. Len(events) = step /\ step < MaxSteps /\ step \in Nat /\ MaxSteps \in Nat
  BY BudgetsAssumption DEF BudgetsAssumption, TypeOK, Control, Evidence, InBody, InLoop
<1>0. /\ Len(events') = Len(events) + 1
      /\ DOMAIN events = 1 .. Len(events)
      /\ DOMAIN events' = 1 .. Len(events) + 1
      /\ \A i \in 1 .. Len(events) : events'[i] = events[i]
      /\ events'[Len(events) + 1] = e
  BY RecordFacts
<1>2. ASSUME NEW i \in DOMAIN events'
      PROVE  \/ i \in DOMAIN events /\ events'[i] = events[i]
             \/ i = step + 1 /\ events'[i] = e
  <2>1. i \in 1 .. step \/ i = step + 1
    BY <1>0, <1>1
  <2>2. QED
    BY <2>1, <1>0, <1>1
<1>3. ToolsWithinBudgets'
  BY <1>2 DEF Evidence, ToolsWithinBudgets
<1>4. \A i \in DOMAIN events' : events'[i].step = i - 1
  BY <1>1, <1>2 DEF Evidence
<1>5. \A i \in DOMAIN events' : events'[i].began <= now'
  BY <1>2 DEF Evidence
<1>6. Len(events') = step + 1
  BY <1>0, <1>1
<1>8. step + 1 <= MaxSteps
  BY <1>1
<1>7. QED
  BY <1>3, <1>4, <1>5, <1>6, <1>8

(* Every step keeps what the recorded events say of tokens, time and tools. *)
LEMMA NextEvidence ==
  ASSUME TypeOK, Control, Evidence, [Next]_vars
  PROVE  Evidence'
<1> USE BudgetsAssumption DEF BudgetsAssumption
<1>0. TypeOK' /\ Control'
  BY NextControl
<1>1. CASE Tick
  <2>1. now \in Nat /\ now' = now + 1 /\ \A i \in DOMAIN events : events[i].began \in Nat
    BY <1>1, RecordedTypes DEF Tick, TypeOK
  <2>2. UNCHANGED <<pc, step, tokens, call, reply, events>>
    BY <1>1 DEF Tick
  <2>3. \A i \in DOMAIN events' : events'[i].began <= now'
    BY <2>1, <2>2 DEF Evidence
  <2>4. ToolsWithinBudgets'
    BY <2>2 DEF Evidence, ToolsWithinBudgets
  <2>5. QED
    BY <2>2, <2>3, <2>4 DEF Evidence
<1>2. CASE JudgeOversized \/ RefuseAction \/ AcceptFinish \/ JudgeMalformed
  <2>1. PICK outcome \in ToolOutcomes : Record(Event(outcome, FALSE, now))
    BY <1>2 DEF JudgeOversized, RefuseAction, AcceptFinish, JudgeMalformed, ToolOutcomes
  <2>2. /\ pc = "decide" /\ now' = now
        /\ \/ pc' = "export" /\ step' = step
           \/ pc' = "loop" /\ step' = step + 1
    BY <1>2 DEF JudgeOversized, RefuseAction, AcceptFinish, JudgeMalformed,
       Break, Goto, Continue
  <2>3. now \in Nat
    BY DEF TypeOK
  <2>4. /\ ToolsWithinBudgets'
        /\ \A i \in DOMAIN events' : events'[i].step = i - 1
        /\ \A i \in DOMAIN events' : events'[i].began <= now'
        /\ Len(events') = step + 1
        /\ Len(events') <= MaxSteps
    <3> DEFINE e == Event(outcome, FALSE, now)
    <3>1. now \in 0 .. ClockBound
      BY DEF TypeOK
    <3>2. /\ e \in Events /\ e.step = step
          /\ e.began = now /\ e.executed = FALSE
      BY <3>1 DEF Event, Events, TypeOK
    <3>3. pc \in InBody \ {"observe"} /\ step' \in {step, step + 1} /\ now <= now
      BY <2>2, <2>3 DEF InBody
    <3> HIDE DEF e
    <3>4. QED
      BY <2>1, <2>2, <3>2, <3>3, RecordKeepsEvidence DEF e
  <2>5. QED
    BY <2>2, <2>4 DEF Evidence, InLoop, InBody
<1>3. CASE ToolReturns
  <2>1. PICK outcome \in ToolOutcomes :
              /\ Record(Event(outcome, TRUE, call.at))
              /\ pc' \in {"export", "observe"}
    BY <1>3 DEF ToolReturns, Break, Goto
  <2>2. /\ pc = "execute" /\ now' = now /\ step' = step
        /\ call.at \in 0 .. ClockBound
    BY <1>3 DEF ToolReturns, TypeOK
  <2>3. tokens <= MaxTokens /\ call.at < MaxWall /\ call.at <= now
    BY <2>2 DEF Evidence, Control
  <2>4. /\ ToolsWithinBudgets'
        /\ \A i \in DOMAIN events' : events'[i].step = i - 1
        /\ \A i \in DOMAIN events' : events'[i].began <= now'
        /\ Len(events') = step + 1
        /\ Len(events') <= MaxSteps
    <3> DEFINE e == Event(outcome, TRUE, call.at)
    <3>1. e \in Events /\ e.step = step /\ e.began = call.at /\ e.spent = tokens
      BY <2>2, BudgetsAssumption DEF BudgetsAssumption, TypeOK, Event, Events
    <3>2. pc \in InBody \ {"observe"} /\ step' \in {step, step + 1}
      BY <2>2 DEF InBody
    <3>3. Record(e)
      BY <2>1
    <3> HIDE DEF e
    <3>4. QED
      BY <2>2, <2>3, <3>1, <3>2, <3>3, RecordKeepsEvidence
  <2>5. pc' \notin {"act", "policy", "tool", "execute"}
    BY <2>1
  <2>6. QED
    BY <2>1, <2>2, <2>4, <2>5 DEF Evidence, InLoop, InBody
<1>4. CASE LoopTop
  <2>1. UNCHANGED <<now, step, tokens, call, reply, events>> /\ pc = "loop"
    BY <1>4 DEF LoopTop
  <2>2. ToolsWithinBudgets'
    BY <2>1 DEF Evidence, ToolsWithinBudgets
  <2>3. pc' = "act" => now < MaxWall
    BY <1>4 DEF LoopTop, Break, Goto, WallExpired, TypeOK
  <2>4. pc' \in {"act", "export"}
    BY <1>4 DEF LoopTop, Break, Goto
  <2>5. \A i \in DOMAIN events : events[i].began \in Nat
    BY RecordedTypes
  <2>6. now \in Nat
    BY DEF TypeOK
  <2>7. pc' = "act" => \A i \in DOMAIN events' : events'[i].began < MaxWall
    BY <2>1, <2>3, <2>5, <2>6 DEF Evidence
  <2>8. QED
    BY <2>1, <2>2, <2>4, <2>7 DEF Evidence, InLoop, InBody
<1>5. CASE AcceptTool \/ StartTool
  <2>1. /\ UNCHANGED <<now, step, tokens, reply, events>>
        /\ (pc = "decide" /\ pc' = "tool") \/ (pc = "tool" /\ pc' = "execute")
        /\ tokens <= MaxTokens /\ call'.at < MaxWall /\ reply.kind \in Tools
    <3>1. /\ call \in [at : 0 .. ClockBound, remaining : 0 .. MaxWall]
          /\ now \in Nat /\ tokens \in Nat /\ MaxWall \in Nat /\ MaxTokens \in Nat
      BY BudgetsAssumption DEF BudgetsAssumption, TypeOK
    <3>2. CASE AcceptTool
      <4>1. call'.at = now
        BY <3>1, <3>2 DEF AcceptTool
      <4>2. QED
        BY <3>1, <3>2, <4>1 DEF AcceptTool, Goto, TokensExceeded, WallExpired
    <3>3. CASE StartTool
      <4>1. call'.at = call.at
        BY <3>1, <3>3 DEF StartTool
      <4>2. QED
        BY <3>3, <4>1 DEF StartTool, Goto, Evidence
    <3>4. QED
      BY <1>5, <3>2, <3>3
  <2>2. ToolsWithinBudgets'
    BY <2>1 DEF Evidence, ToolsWithinBudgets
  <2>3. QED
    BY <2>1, <2>2 DEF Evidence, InLoop, InBody
<1>6. CASE ResetSucceeds \/ ResetFails \/ CallPolicy \/ PolicyReplies \/ PolicyFails
           \/ PolicyTimesOut \/ Observe \/ BeginExport \/ ExportSucceeds
           \/ ExportFails \/ ParserFails \/ Close \/ UNCHANGED vars
  <2>1. UNCHANGED <<now, events>>
    BY <1>6 DEF ResetSucceeds, ResetFails, CallPolicy, PolicyReplies, PolicyFails,
       PolicyTimesOut, Observe, BeginExport, ExportSucceeds, ExportFails, ParserFails,
          Close, vars
  <2>2. ToolsWithinBudgets'
    BY <2>1 DEF Evidence, ToolsWithinBudgets
  <2>3. CASE UNCHANGED vars
    BY <2>2, <2>3 DEF Evidence, vars
  <2>4. CASE ~UNCHANGED vars
    <3>1. pc' \notin {"tool", "execute", "act"}
      BY <1>6, <2>4 DEF ResetSucceeds, ResetFails, CallPolicy, PolicyReplies,
         PolicyFails, PolicyTimesOut, Observe, BeginExport, ExportSucceeds,
         ExportFails, ParserFails,
            Close, Goto, Break, BreakOnTimeout, Continue, Abort,
         ExpireUnexported
    <3>2. pc' = "policy" => pc = "act"
      BY <1>6, <2>4 DEF ResetSucceeds, ResetFails, CallPolicy, PolicyReplies,
         PolicyFails, PolicyTimesOut, Observe, BeginExport, ExportSucceeds,
         ExportFails, ParserFails,
            Close, Goto, Break, BreakOnTimeout, Continue, Abort,
         ExpireUnexported
    <3>3. /\ pc' \in InLoop \ {"observe"} => Len(events') = step'
          /\ pc' = "observe" => Len(events') = step' + 1
      BY <1>6, <2>1, <2>4 DEF Evidence, InLoop, InBody, ResetSucceeds, ResetFails,
         CallPolicy, PolicyReplies, PolicyFails, PolicyTimesOut, Observe,
         BeginExport, ExportSucceeds, ExportFails, ParserFails, Close, Goto, Break,
         BreakOnTimeout, Continue, Abort, ExpireUnexported
    <3>4. QED
      BY <2>1, <2>2, <3>1, <3>2, <3>3 DEF Evidence
  <2>5. QED
    BY <2>3, <2>4
<1>7. QED
  BY <1>1, <1>2, <1>3, <1>4, <1>5, <1>6 DEF Next, RunnerStep, Done
-----------------------------------------------------------------------------
(* The malformed streak *)

(* Every step keeps the malformed streak equal to the run of malformed events at the end. *)
LEMMA NextStreak ==
  ASSUME TypeOK, Control, Evidence, Streak, [Next]_vars
  PROVE  Streak'
<1> USE DEF InLoop, InBody
<1>1. CASE JudgeMalformed
  <2>1. SUFFICES ASSUME pc' = "loop"
                 PROVE  Streak'
    BY <1>1 DEF JudgeMalformed, Streak, Break, Goto, Continue
  <2>2. pc = "decide" /\ invalid' = invalid + 1 /\ reply.kind = "malformed"
        /\ invalid \in Nat /\ now \in 0 .. ClockBound
    BY <1>1 DEF JudgeMalformed, TypeOK
  <2> DEFINE e == Event("error", FALSE, now)
  <2>3. e \in Events /\ e.kind = "malformed"
    BY <2>2 DEF Event, Events, ToolOutcomes, TypeOK
  <2>4. Record(e)
    BY <1>1 DEF JudgeMalformed
  <2> HIDE DEF e
  <2>5. /\ Len(events') = Len(events) + 1
        /\ \A i \in 1 .. Len(events) : events'[i] = events[i]
        /\ events'[Len(events) + 1] = e
        /\ Len(events) \in Nat
    BY <2>3, <2>4, RecordFacts
  <2>6. /\ Len(events) >= invalid
        /\ \A i \in Len(events) - invalid + 1 .. Len(events) : events[i].kind = "malformed"
        /\ Len(events) > invalid => events[Len(events) - invalid].kind # "malformed"
    BY <2>2 DEF Streak, EndsMalformed
  <2>7. ASSUME NEW i \in Len(events') - invalid' + 1 .. Len(events')
        PROVE  events'[i].kind = "malformed"
    <3>1. CASE i = Len(events) + 1
      BY <3>1, <2>3, <2>5
    <3>2. CASE i # Len(events) + 1
      <4>1. i \in Len(events) - invalid + 1 .. Len(events) /\ i \in 1 .. Len(events)
        BY <3>2, <2>2, <2>5, <2>6
      <4>2. QED
        BY <4>1, <2>5, <2>6
    <3>3. QED
      BY <3>1, <3>2
  <2>8. Len(events') >= invalid'
    BY <2>2, <2>5, <2>6
  <2>9. ASSUME Len(events') > invalid'
        PROVE  events'[Len(events') - invalid'].kind # "malformed"
    <3>1. /\ Len(events) > invalid /\ Len(events') - invalid' = Len(events) - invalid
          /\ Len(events) - invalid \in 1 .. Len(events)
      BY <2>2, <2>5, <2>9
    <3>2. QED
      BY <3>1, <2>5, <2>6
  <2>10. QED
    BY <2>1, <2>7, <2>8, <2>9 DEF Streak, EndsMalformed
<1>2. CASE ToolReturns
  <2>1. PICK outcome \in ToolOutcomes : Record(Event(outcome, TRUE, call.at))
    BY <1>2 DEF ToolReturns
  <2>2. pc = "execute" /\ invalid = 0 /\ invalid' = 0 /\ reply.kind \in Tools
        /\ call.at \in 0 .. ClockBound
    BY <1>2 DEF ToolReturns, Streak, Evidence, TypeOK
  <2> DEFINE e == Event(outcome, TRUE, call.at)
  <2>3. e \in Events /\ e.kind = reply.kind
    BY <2>2 DEF Event, Events, TypeOK
  <2>4. Record(e)
    BY <2>1
  <2> HIDE DEF e
  <2>5. Len(events') = Len(events) + 1 /\ events'[Len(events) + 1] = e /\ Len(events) \in Nat
    BY <2>3, <2>4, RecordFacts
  <2>6. events'[Len(events') - invalid'].kind # "malformed"
    BY <2>2, <2>3, <2>5 DEF Tools
  <2>7. EndsMalformed(invalid)'
    BY <2>2, <2>5 DEF EndsMalformed
  <2>8. QED
    BY <2>2, <2>6, <2>7 DEF Streak
<1>3. CASE AcceptTool \/ StartTool
  <2>1. /\ pc' \in {"tool", "execute"} /\ invalid' = 0 /\ events' = events
        /\ Len(events) \in Nat
    BY <1>3 DEF AcceptTool, StartTool, Goto, TypeOK, Streak
  <2>2. EndsMalformed(invalid)'
    BY <2>1 DEF EndsMalformed
  <2>3. QED
    BY <2>1, <2>2 DEF Streak
<1>4. CASE JudgeOversized \/ RefuseAction \/ AcceptFinish \/ PolicyFails \/ PolicyTimesOut
           \/ BeginExport \/ ExportSucceeds \/ ExportFails \/ ParserFails
                 \/ Close \/ ResetFails
  BY <1>4 DEF JudgeOversized, RefuseAction, AcceptFinish, PolicyFails, PolicyTimesOut,
     BeginExport, ExportSucceeds, ExportFails, ParserFails,
        Close, ResetFails, Break,
     BreakOnTimeout, Goto, Abort, ExpireUnexported, Streak
<1>5. CASE Tick \/ ResetSucceeds \/ LoopTop \/ CallPolicy \/ PolicyReplies \/ Observe
           \/ UNCHANGED vars
  <2>1. UNCHANGED <<invalid, events>>
    BY <1>5 DEF Tick, ResetSucceeds, LoopTop, CallPolicy, PolicyReplies, Observe, vars
  <2>2. EndsMalformed(invalid) => EndsMalformed(invalid)'
    BY <2>1 DEF EndsMalformed
  <2>3. pc' \in InLoop => /\ pc \in InLoop
                          /\ pc' \in {"tool", "execute"} <=> pc \in {"tool", "execute"}
    BY <1>5 DEF Tick, ResetSucceeds, LoopTop, CallPolicy, PolicyReplies, Observe,
       vars, Goto, Break, Continue
  <2>4. QED
    BY <2>1, <2>2, <2>3 DEF Streak
<1>6. QED
  BY <1>1, <1>2, <1>3, <1>4, <1>5 DEF Next, RunnerStep, Done
-----------------------------------------------------------------------------
(* The reason, the patch and the container *)

(* Every step keeps the account of the agent container. *)
LEMMA NextContainer ==
  ASSUME TypeOK, Control, ContainerGrounds, [Next]_vars
  PROVE  ContainerGrounds'
<1> USE DEF ContainerGrounds, InLoop, InBody
<1>1. CASE ResetSucceeds \/ ResetFails
  BY <1>1 DEF ResetSucceeds, ResetFails, Abort, Goto
<1>2. CASE Close
  BY <1>2 DEF Close, LoseContainer, Goto
<1>3. CASE BeginExport \/ ExportSucceeds \/ ExportFails \/ ParserFails
  BY <1>3 DEF BeginExport, ExpireUnexported, ExportSucceeds, DropPatch, ExportFails, ParserFails,
     Abort, Goto
<1>4. CASE Tick \/ UNCHANGED vars
  BY <1>4 DEF Tick, vars
<1>5. CASE LoopTop \/ CallPolicy \/ PolicyReplies \/ PolicyFails \/ PolicyTimesOut
           \/ JudgeOversized \/ JudgeMalformed \/ RefuseAction \/ AcceptFinish
           \/ AcceptTool \/ StartTool \/ ToolReturns \/ Observe
  <2>1. UNCHANGED <<container, ready>> /\ pc \in InLoop /\ pc # "reset"
    BY <1>5 DEF LoopTop, CallPolicy, PolicyReplies, PolicyFails, PolicyTimesOut,
       JudgeOversized, JudgeMalformed, RefuseAction, AcceptFinish, AcceptTool, StartTool,
       ToolReturns, Observe
  <2>2. pc' \in InLoop \cup {"export"} /\ pc' # "reset"
    BY <1>5 DEF LoopTop, CallPolicy, PolicyReplies, PolicyFails, PolicyTimesOut,
       JudgeOversized, JudgeMalformed, RefuseAction, AcceptFinish, AcceptTool, StartTool,
       ToolReturns, Observe, Goto, Break, BreakOnTimeout, Continue
  <2>3. QED
    BY <2>1, <2>2
<1>6. QED
  BY <1>1, <1>2, <1>3, <1>4, <1>5 DEF Next, RunnerStep, Done

(* A policy timeout that is blamed on the task's deadline came after it. *)
LEMMA TimeoutIsLate ==
  ASSUME TypeOK, Control, PolicyTimesOut, termination' = "wall_time_budget"
  PROVE  now >= MaxWall
<1>1. UsesTaskDeadline(call.remaining)
  BY DEF PolicyTimesOut, BreakOnTimeout, Break
<1>2. /\ now \in Nat /\ call.at \in Nat /\ call.remaining \in Nat
      /\ MaxWall \in Nat /\ PolicyTimeout \in Nat
  BY BudgetsAssumption DEF BudgetsAssumption, TypeOK
<1>3. now - call.at >= call.remaining
  BY <1>1, <1>2 DEF PolicyTimesOut, EffectiveTimeout, UsesTaskDeadline
<1>4. QED
  BY <1>2, <1>3 DEF Control, PolicyTimesOut

(* A reason has its grounds at the moment it is decided. *)
LEMMA DecidedWithGrounds ==
  ASSUME TypeOK, Control, Evidence, Streak, [Next]_vars,
         pc \in InLoop, pc' \notin InLoop
  PROVE  ReasonGrounds'
<1> USE BudgetsAssumption DEF BudgetsAssumption, InLoop, InBody, Break, Goto
<1>0. now \in Nat /\ tokens \in Nat /\ MaxWall \in Nat /\ MaxTokens \in Nat
  BY DEF TypeOK
<1>1. CASE ResetFails
  BY <1>1 DEF ResetFails, Abort, ReasonGrounds
<1>2. CASE LoopTop
  <2>1. UNCHANGED <<now, events>> /\ pc = "loop"
    BY <1>2 DEF LoopTop
  <2>2. \/ termination' = "step_budget" /\ ~StepsLeft
        \/ termination' = "wall_time_budget" /\ WallExpired
    BY <1>2 DEF LoopTop
  <2>3. ~StepsLeft => Len(events) = MaxSteps
    BY <2>1 DEF StepsLeft, Evidence, TypeOK
  <2>4. QED
    BY <2>1, <2>2, <2>3 DEF WallExpired, ReasonGrounds
<1>3. CASE PolicyFails
  BY <1>3 DEF PolicyFails, ReasonGrounds
<1>4. CASE PolicyTimesOut
  BY <1>4, TimeoutIsLate DEF PolicyTimesOut, BreakOnTimeout, ReasonGrounds
<1>5. CASE JudgeOversized \/ RefuseAction \/ AcceptFinish
  <2>1. PICK outcome \in ToolOutcomes :
            /\ Record(Event(outcome, FALSE, now))
            /\ AcceptFinish => outcome = "ok"
    BY <1>5 DEF JudgeOversized, RefuseAction, AcceptFinish, ToolOutcomes
  <2> DEFINE e == Event(outcome, FALSE, now)
  <2>2. /\ e \in Events /\ e.kind = reply.kind /\ e.outcome = outcome
        /\ e.spent = tokens
    BY DEF Event, Events, TypeOK
  <2>3. Record(e)
    BY <2>1
  <2> HIDE DEF e
  <2>4. events' # <<>> /\ LastEvent' = e
    BY <2>2, <2>3, RecordFacts DEF LastEvent
  <2>5. UNCHANGED <<now, tokens>>
    BY <1>5 DEF JudgeOversized, RefuseAction, AcceptFinish
  <2>6. \/ termination' = "token_budget" /\ TokensExceeded
        \/ termination' = "wall_time_budget" /\ WallExpired
        \/ termination' = "invalid_action" /\ reply.kind = "oversized"
        \/ /\ termination' = "finished" /\ reply.kind = "finish"
           /\ ~TokensExceeded /\ AcceptFinish
    BY <1>5 DEF JudgeOversized, RefuseAction, AcceptFinish
  <2>7. QED
    BY <1>0, <2>1, <2>2, <2>4, <2>5, <2>6 DEF TokensExceeded, WallExpired, ReasonGrounds
<1>6. CASE JudgeMalformed
  <2>1. UNCHANGED <<now, tokens>> /\ invalid' = invalid + 1 /\ invalid \in Nat
    BY <1>6 DEF JudgeMalformed, TypeOK
  <2>2. \/ termination' = "token_budget" /\ TokensExceeded
        \/ termination' = "wall_time_budget" /\ WallExpired
        \/ termination' = "invalid_action" /\ StreakFull
    BY <1>6 DEF JudgeMalformed, Continue
  <2>3. ASSUME StreakFull
        PROVE  EndsMalformed(MaxConsecutiveInvalid)'
    <3>1. MaxConsecutiveInvalid = invalid + 1
      BY <2>1, <2>3 DEF StreakFull, Control, TypeOK
    <3> DEFINE e == Event("error", FALSE, now)
    <3>2. e \in Events /\ e.kind = "malformed" /\ Record(e)
      BY <1>6 DEF JudgeMalformed, Event, Events, TypeOK, ToolOutcomes
    <3> HIDE DEF e
    <3>3. /\ Len(events') = Len(events) + 1
          /\ \A i \in 1 .. Len(events) : events'[i] = events[i]
          /\ events'[Len(events) + 1] = e
          /\ Len(events) \in Nat
      BY <3>2, RecordFacts
    <3>4. EndsMalformed(invalid)
      BY DEF Streak
    <3>5. ASSUME NEW i \in Len(events') - MaxConsecutiveInvalid + 1 .. Len(events')
          PROVE  events'[i].kind = "malformed"
      <4>1. \/ i = Len(events) + 1
            \/ i \in Len(events) - invalid + 1 .. Len(events) /\ i \in 1 .. Len(events)
        BY <2>1, <3>1, <3>3, <3>4 DEF EndsMalformed
      <4>2. QED
        BY <4>1, <3>2, <3>3, <3>4 DEF EndsMalformed
    <3>6. Len(events') >= MaxConsecutiveInvalid
      BY <2>1, <3>1, <3>3, <3>4 DEF EndsMalformed
    <3>7. QED
      BY <3>5, <3>6 DEF EndsMalformed
  <2>4. QED
    BY <2>1, <2>2, <2>3 DEF TokensExceeded, WallExpired, ReasonGrounds
<1>7. CASE ToolReturns
  BY <1>7 DEF ToolReturns, ReasonGrounds
<1>8. CASE Observe
  BY <1>8 DEF Observe, Continue, WallExpired, ReasonGrounds
<1>9. CASE Tick \/ ResetSucceeds \/ CallPolicy \/ PolicyReplies \/ AcceptTool \/ StartTool
           \/ UNCHANGED vars
  BY <1>9 DEF Tick, ResetSucceeds, CallPolicy, PolicyReplies, AcceptTool, StartTool, vars
<1>10. CASE BeginExport \/ ExportSucceeds \/ ExportFails \/ Close
  BY <1>10 DEF BeginExport, ExportSucceeds, ExportFails, Close
<1>11. CASE ParserFails
  BY <1>11 DEF ParserFails, Abort, ReasonGrounds
<1>12. QED
  BY <1>1, <1>2, <1>3, <1>4, <1>5, <1>6, <1>7, <1>8, <1>9, <1>10, <1>11
     DEF Next, RunnerStep, Done
(* Once decided, the evidence for a reason stands; what replaces the reason  *)
(* after the loop has grounds of its own.                                    *)
LEMMA GroundsStand ==
  ASSUME TypeOK, Control, ReasonGrounds, [Next]_vars, pc \notin InLoop
  PROVE  ReasonGrounds'
<1> USE BudgetsAssumption DEF BudgetsAssumption, InLoop, InBody, Goto
<1>1. UNCHANGED <<events, tokens, workspace>> /\ now' >= now /\ now \in Nat /\ now' \in Nat
  <2>1. now \in Nat
    BY DEF TypeOK
  <2>2. Tick \/ BeginExport \/ ExportSucceeds \/ ExportFails \/ ParserFails
        \/ Close \/ UNCHANGED vars
    BY DEF Next, RunnerStep, Done, ResetSucceeds, ResetFails, LoopTop, CallPolicy,
       PolicyReplies, PolicyFails, PolicyTimesOut, JudgeOversized, JudgeMalformed,
       RefuseAction, AcceptFinish, AcceptTool, StartTool, ToolReturns, Observe
  <2>3. QED
    BY <2>1, <2>2 DEF Tick, BeginExport, ExportSucceeds, ExportFails, ParserFails,
       Close, vars
<1>2. \/ termination' = termination
      \/ termination' = "infrastructure_error"
      \/ termination' = "wall_time_budget" /\ Remaining = 0
      \/ termination' = "invalid_action" /\ workspace > MaxPatchBytes
  <2>1. Tick \/ BeginExport \/ ExportSucceeds \/ ExportFails \/ ParserFails
        \/ Close \/ UNCHANGED vars
    BY DEF Next, RunnerStep, Done, ResetSucceeds, ResetFails, LoopTop, CallPolicy,
       PolicyReplies, PolicyFails, PolicyTimesOut, JudgeOversized, JudgeMalformed,
       RefuseAction, AcceptFinish, AcceptTool, StartTool, ToolReturns, Observe
  <2>2. QED
    BY <2>1 DEF Tick, BeginExport, ExpireUnexported, ExportSucceeds, DropPatch,
       ExportFails, ParserFails, Close, LoseContainer, Abort, vars
<1>3. Remaining = 0 => now >= MaxWall
  BY <1>1 DEF Remaining
<1>4. LastEvent' = LastEvent
  BY <1>1 DEF LastEvent
<1>5. EndsMalformed(MaxConsecutiveInvalid)' <=> EndsMalformed(MaxConsecutiveInvalid)
  BY <1>1 DEF EndsMalformed
<1>6. CASE termination' = termination
  <2>1. MaxWall \in Nat
    OBVIOUS
  <2>2. termination' = "wall_time_budget" => now' >= MaxWall
    BY <1>1, <1>6, <2>1 DEF ReasonGrounds
  <2>3. QED
    BY <1>1, <1>4, <1>5, <1>6, <2>2 DEF ReasonGrounds
<1>7. CASE termination' = "infrastructure_error"
  BY <1>7 DEF ReasonGrounds
<1>8. CASE termination' = "wall_time_budget" /\ Remaining = 0
  BY <1>1, <1>3, <1>8 DEF ReasonGrounds
<1>9. CASE termination' = "invalid_action" /\ workspace > MaxPatchBytes
  BY <1>1, <1>9 DEF ReasonGrounds
<1>10. QED
  BY <1>2, <1>6, <1>7, <1>8, <1>9

(* Every step keeps a decided reason on its grounds. *)
LEMMA NextVerdict ==
  ASSUME TypeOK, Control, Evidence, Streak, Verdict, [Next]_vars
  PROVE  Verdict'
<1> USE DEF InLoop, InBody
<1>0. MaxPatchBytes \in Nat /\ workspace \in Nat /\ call.remaining \in Nat
  BY BudgetsAssumption DEF BudgetsAssumption, TypeOK
<1>1. ContainerGrounds'
  BY NextContainer DEF Verdict
<1>2. pc' \notin InLoop => ReasonGrounds'
  <2>1. CASE pc \in InLoop  BY <2>1, DecidedWithGrounds
  <2>2. CASE pc \notin InLoop  BY <2>2, GroundsStand DEF Verdict
  <2>3. QED  BY <2>1, <2>2
<1>3. /\ pc' \notin {"close", "done"} => patch' = 0
      /\ pc' = "diff" => call'.remaining > 0
      /\ pc' \in {"close", "done"} => PatchGrounds'
  <2>1. CASE ResetSucceeds \/ LoopTop \/ CallPolicy \/ PolicyReplies \/ PolicyFails
             \/ PolicyTimesOut \/ JudgeOversized \/ JudgeMalformed \/ RefuseAction
             \/ AcceptFinish \/ AcceptTool \/ StartTool \/ ToolReturns \/ Observe
    <3>1. patch' = patch /\ pc \in InLoop
      BY <2>1 DEF ResetSucceeds, LoopTop, CallPolicy, PolicyReplies, PolicyFails,
         PolicyTimesOut, JudgeOversized, JudgeMalformed, RefuseAction, AcceptFinish,
         AcceptTool, StartTool, ToolReturns, Observe
    <3>2. pc' \in InLoop \cup {"export"}
      BY <2>1 DEF ResetSucceeds, LoopTop, CallPolicy, PolicyReplies, PolicyFails,
         PolicyTimesOut, JudgeOversized, JudgeMalformed, RefuseAction, AcceptFinish,
         AcceptTool, StartTool, ToolReturns, Observe, Goto, Break, BreakOnTimeout, Continue
    <3>3. QED
      BY <3>1, <3>2 DEF Verdict
  <2>2. CASE ResetFails
    BY <2>2 DEF ResetFails, Abort, Goto, Verdict, ContainerGrounds, PatchGrounds
  <2>3. CASE BeginExport
    BY <1>0, <2>3 DEF BeginExport, ExpireUnexported, Abort, Goto, Verdict, PatchGrounds
  <2>4. CASE ExportSucceeds
    BY <1>0, <2>4 DEF ExportSucceeds, DropPatch, Goto, Verdict, PatchGrounds
  <2>5. CASE ExportFails
    BY <2>5 DEF ExportFails, Abort, Goto, PatchGrounds
  <2>6. CASE Close
    BY <2>6 DEF Close, LoseContainer, Goto, Verdict, PatchGrounds
  <2>7. CASE Tick \/ UNCHANGED vars
    BY <2>7 DEF Tick, vars, Verdict, PatchGrounds
  <2>8. CASE ParserFails
    BY <2>8 DEF ParserFails, Abort, Goto, Verdict, PatchGrounds
  <2>9. QED
    BY <2>1, <2>2, <2>3, <2>4, <2>5, <2>6, <2>7, <2>8 DEF Next, RunnerStep, Done
<1>4. QED
  BY <1>1, <1>2, <1>3 DEF Verdict

-----------------------------------------------------------------------------
(* The inductive invariant and what it implies *)

(* The inductive invariant holds at the start. *)
LEMMA InitInvariant == Init => IInv
<1> SUFFICES ASSUME Init
             PROVE  IInv
  OBVIOUS
<1>1. TypeOK /\ Control
  BY InitControl
<1>2. events = <<>> /\ Len(events) = 0 /\ step = 0 /\ pc = "reset" /\ MaxSteps \in Nat
  BY BudgetsAssumption DEF BudgetsAssumption, Init
<1>3. Evidence
  BY <1>2 DEF Evidence, ToolsWithinBudgets, InLoop, InBody
<1>4. Streak
  BY <1>2 DEF Init, Streak, EndsMalformed
<1>5. Verdict
  BY DEF Init, Verdict, ContainerGrounds, InLoop, InBody
<1>6. QED
  BY <1>1, <1>3, <1>4, <1>5 DEF IInv

(* Every step keeps the inductive invariant. *)
LEMMA NextInvariant == IInv /\ [Next]_vars => IInv'
  BY NextControl, NextEvidence, NextStreak, NextVerdict DEF IInv

(* The inductive invariant holds in every reachable state. *)
LEMMA Invariant == Spec => []IInv
  BY InitInvariant, NextInvariant, PTL DEF Spec

(* No tool runs on tokens the task did not grant, nor for a reply that was   *)
(* judged after its deadline.                                                *)
THEOREM ToolsStayWithinBudgets == Spec => []ToolsWithinBudgets
<1>1. IInv => ToolsWithinBudgets
  BY DEF IInv, Evidence
<1>2. QED
  BY <1>1, Invariant, PTL

(* Trajectory's own validator never rejects what run() hands it.             *)
THEOREM EventsAreContiguous == Spec => []EventsContiguous
<1>1. IInv => EventsContiguous
  BY DEF IInv, Evidence, EventsContiguous
<1>2. QED
  BY <1>1, Invariant, PTL

(* The policy is not asked again once its deadline or its streak is up.      *)
THEOREM PolicyIsNotAskedAgain == Spec => [](OneLateCall /\ StreakEndsRollout)
<1>1. IInv => OneLateCall
  BY DEF IInv, Evidence, OneLateCall
<1>2. IInv => StreakEndsRollout
  <2> SUFFICES ASSUME IInv, pc \in {"act", "policy"}, EndsMalformed(MaxConsecutiveInvalid)
               PROVE  FALSE
    BY DEF StreakEndsRollout
  <2>1. /\ invalid \in Nat /\ invalid < MaxConsecutiveInvalid
        /\ Len(events) > invalid => events[Len(events) - invalid].kind # "malformed"
    BY DEF IInv, TypeOK, Control, Streak, InLoop, InBody
  <2>2. Len(events) \in Nat /\ MaxConsecutiveInvalid \in Nat
    BY BudgetsAssumption DEF BudgetsAssumption, IInv, TypeOK
  <2>3. Len(events) - invalid \in Len(events) - MaxConsecutiveInvalid + 1 .. Len(events)
        /\ Len(events) > invalid
    BY <2>1, <2>2 DEF EndsMalformed
  <2>4. QED
    BY <2>1, <2>3 DEF EndsMalformed
<1>3. QED
  BY <1>1, <1>2, Invariant, PTL

(* A spent budget or streak costs at most the call that was decided on.      *)
THEOREM NoCallIsTooMany == Spec => []NoCallTooMany
<1>1. ToolsWithinBudgets /\ OneLateCall /\ StreakEndsRollout => NoCallTooMany
  BY DEF NoCallTooMany
<1>2. QED
  BY <1>1, ToolsStayWithinBudgets, PolicyIsNotAskedAgain, PTL

(* At the end the reason has its grounds, a finished rollout was earned, its *)
(* patch is the workspace's, and the container is accounted for.             *)
THEOREM RolloutIsHonest == Spec => []ReportIsHonest
<1> USE DEF IInv, Verdict, InLoop, InBody
<1>1. IInv => ReasonsAreEarned
  BY DEF ReasonsAreEarned, ReasonGrounds
<1>2. IInv => NoWorkSilentlyLost
  BY DEF NoWorkSilentlyLost, PatchGrounds
<1>3. IInv => ContainerAccountedFor
  BY DEF ContainerAccountedFor, ContainerGrounds
<1>4. IInv => FinishedIsEarned
  BY DEF FinishedIsEarned, ReasonGrounds, PatchGrounds, ContainerGrounds
<1>5. IInv => ReportIsHonest
  BY <1>1, <1>2, <1>3, <1>4 DEF ReportIsHonest
<1>6. QED
  BY <1>5, Invariant, PTL

(* After the reason is decided the events, the tokens and the workspace that *)
(* the patch is cut from do not change any more.                             *)
THEOREM NothingHappensAfterReason == Spec => NothingAfterReason
<1>1. IInv /\ [Next]_vars =>
         [termination # NoReason => UNCHANGED <<events, tokens, step, workspace>>]_vars
  <2> SUFFICES ASSUME IInv, [Next]_vars, termination # NoReason
               PROVE  UNCHANGED <<events, tokens, step, workspace>>
    OBVIOUS
  <2>1. pc \notin InLoop
    BY DEF IInv, Control
  <2>2. Tick \/ BeginExport \/ ExportSucceeds \/ ExportFails \/ ParserFails
        \/ Close \/ UNCHANGED vars
    BY <2>1 DEF InLoop, InBody, Next, RunnerStep, Done, ResetSucceeds, ResetFails,
       LoopTop, CallPolicy, PolicyReplies, PolicyFails, PolicyTimesOut,
       JudgeOversized, JudgeMalformed, RefuseAction, AcceptFinish, AcceptTool, StartTool,
       ToolReturns, Observe
  <2>3. QED
    BY <2>2 DEF Tick, BeginExport, ExportSucceeds, ExportFails, ParserFails,
       Close, vars
<1>2. QED
  BY <1>1, Invariant, PTL DEF Spec, NothingAfterReason
=============================================================================
