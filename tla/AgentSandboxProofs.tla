-------------------------- MODULE AgentSandboxProofs --------------------------
(* What holds of the agent's sandbox for every set of files, every clock,    *)
(* every time limit and every bound on output.                               *)
EXTENDS AgentSandbox, TLAPS

Answers ==
    [tool : Tools \union {"none", "start"}, kind : {"none", "result", "error", "invalid", "refused"},
     exit : Exits]

Types == TypeOK /\ held \in Answers /\ answer \in Answers

(* Who may use the sandbox has a container to use, what is running is a      *)
(* command of a call, and a container that nobody closes any more was told.  *)
Life ==
    /\ owner = "none" => box = "absent"
    /\ owner \in {"start", "caller"} => box = "up"
    /\ owner = "start" <=> op = "start"
    /\ op \in Tools => owner = "caller"
    /\ owner \in {"none", "start"} => answer = NoAnswer
    /\ running > 0 => op # "idle" /\ Command # "upload"
    /\ open => op = "suite" /\ running > 0
    /\ LeakIsReported

(* A command begins within the bound and its limit ends it within the next,  *)
(* unless its stream is held open.                                           *)
Bound == AtLeast(budget, uploaded) + issued * Second

Clock ==
    op \in Tools =>
        /\ running = 0 /\ Command # "upload" => elapsed <= Bound
        /\ running > 0 => /\ ~open => elapsed <= issuedAt + running * Second
                          /\ issuedAt + running * Second <= Bound
        /\ Command = "upload" => issued = 0

Now == IF running > 0 THEN 1 ELSE 0

(* Before the apply the workspace is as it was; after it, as it says.        *)
Applied ==
    /\ held.tool = "patch"
    /\ Flip(workspace, before) \subseteq patch
    /\ ToolOk(held) => workspace = Flip(before, patch)

Patching ==
    op = "patch" =>
        /\ step <= 3 => workspace = before
        /\ step \in {2, 3} => issued = (step - 2) + Now
        /\ step = 4 => /\ Applied
                       /\ issued = 1 + Now \/ issued = 2 + Now
                       /\ issued = 1 + Now => workspace = before

Sweeping == tmp /\ faults = {} => op = "patch" /\ step >= 2

(* Git knows the snapshot once it is committed, and every file once the      *)
(* export has announced them, so the diff is then of all that changed.       *)
Announced == intended = ((Base \union workspace) \ Ignored) \ tracked

Exported == ~rewritten => export = workspace \ Ignored

Index ==
    /\ owner = "caller" \/ (op = "start" /\ step = 7) => tracked = Base \ Ignored
    /\ op = "diff" /\ step = 2 => Announced
    /\ op = "idle" /\ answer.tool = "diff" /\ answer.kind = "result" => Exported

IInv == Types /\ Life /\ Clock /\ Patching /\ Sweeping /\ Index

-----------------------------------------------------------------------------
(* The commands of a call, by its tool.                                      *)
LEMMA StartSteps == ASSUME op = "start", step \in 1 .. 7
    PROVE  /\ Len(Steps[op]) = 7
           /\ Command = "upload" <=> step = 1
           /\ Command = "add" <=> step = 6
           /\ Command \notin {"check", "apply", "suite", "intent", "rm"}
<1>1. /\ Len(Steps[op]) = 7
      /\ Steps[op] = <<"upload", "clean", "init", "name", "email", "add", "commit">>
  BY DEF Steps
<1>2. step \in {1, 2, 3, 4, 5, 6, 7}
  OBVIOUS
<1> QED
  BY <1>1, <1>2 DEF Command

LEMMA LookupSteps == ASSUME op \in {"search", "read"}, step \in 1 .. 2
    PROVE  /\ Len(Steps[op]) = 2
           /\ Command \notin {"upload", "add", "check", "apply", "suite", "intent", "rm"}
<1>1. CASE op = "search"
  <2>1. Len(Steps[op]) = 2 /\ Steps[op] = <<"realpath", "rg">>
    BY <1>1 DEF Steps
  <2> QED
    BY <2>1 DEF Command
<1>2. CASE op = "read"
  <2>1. Len(Steps[op]) = 2 /\ Steps[op] = <<"realpath", "sed">>
    BY <1>2 DEF Steps
  <2> QED
    BY <2>1 DEF Command
<1> QED
  BY <1>1, <1>2

LEMMA PatchSteps == ASSUME op = "patch", step \in 1 .. 4
    PROVE  /\ Len(Steps[op]) = 4
           /\ Command = "upload" <=> step = 1
           /\ Command = "check" <=> step = 2
           /\ Command = "apply" <=> step = 3
           /\ Command = "rm" <=> step = 4
           /\ Command \notin {"add", "suite", "intent"}
<1>1. Len(Steps[op]) = 4 /\ Steps[op] = <<"upload", "check", "apply", "rm">>
  BY DEF Steps
<1>2. step \in {1, 2, 3, 4}
  OBVIOUS
<1> QED
  BY <1>1, <1>2 DEF Command

LEMMA SuiteSteps == ASSUME op = "suite", step \in 1 .. 1
    PROVE  Len(Steps[op]) = 1 /\ Command = "suite"
  BY DEF Steps, Command

LEMMA DiffSteps == ASSUME op = "diff", step \in 1 .. 2
    PROVE  /\ Len(Steps[op]) = 2
           /\ Command = "intent" <=> step = 1
           /\ Command = "diff" <=> step = 2
           /\ Command \notin {"upload", "add", "check", "apply", "suite", "rm"}
<1>1. Len(Steps[op]) = 2 /\ Steps[op] = <<"intent", "diff">>
  BY DEF Steps
<1>2. step \in {1, 2}
  OBVIOUS
<1> QED
  BY <1>1, <1>2 DEF Command

LEMMA StepLimit ==
    /\ \A tool \in Tools : Len(Steps[tool]) >= 1
    /\ Len(Steps["start"]) = 7 /\ Len(Steps["search"]) = 2 /\ Len(Steps["read"]) = 2
    /\ Len(Steps["patch"]) = 4 /\ Len(Steps["suite"]) = 1 /\ Len(Steps["diff"]) = 2
<1>1. /\ Len(Steps["start"]) = 7 /\ Len(Steps["search"]) = 2 /\ Len(Steps["read"]) = 2
      /\ Len(Steps["patch"]) = 4 /\ Len(Steps["suite"]) = 1 /\ Len(Steps["diff"]) = 2
  BY DEF Steps
<1>2. ASSUME NEW tool \in Tools PROVE Len(Steps[tool]) >= 1
  <2>1. tool \in {"search", "read", "patch", "suite", "diff"}
    BY <1>2 DEF Tools
  <2> DEFINE n == Len(Steps[tool])
  <2>2. n = 1 \/ n = 2 \/ n = 4
    BY <1>1, <2>1, Zenon
  <2> HIDE DEF n
  <2>3. n >= 1
    BY <2>2
  <2> QED
    BY <2>3 DEF n
<1> QED
  BY <1>1, <1>2

(* The call under way is at one of its commands.                             *)
LEMMA OpSteps == ASSUME TypeOK, op # "idle"
    PROVE  /\ op = "start" => /\ step \in 1 .. 7
                              /\ Last <=> step = 7
                              /\ Command = "upload" <=> step = 1
                              /\ Command = "add" <=> step = 6
                              /\ Command \notin {"check", "apply", "suite", "intent", "rm"}
           /\ op \in {"search", "read"} =>
                /\ step \in 1 .. 2
                /\ Last <=> step = 2
                /\ Command \notin {"upload", "add", "check", "apply", "suite", "intent", "rm"}
           /\ op = "patch" => /\ step \in 1 .. 4
                              /\ Last <=> step = 4
                              /\ Command = "upload" <=> step = 1
                              /\ Command = "check" <=> step = 2
                              /\ Command = "apply" <=> step = 3
                              /\ Command = "rm" <=> step = 4
                              /\ Command \notin {"add", "suite", "intent"}
           /\ op = "suite" => step = 1 /\ Command = "suite"
           /\ op = "diff" => /\ step \in 1 .. 2
                             /\ Last <=> step = 2
                             /\ Command = "intent" <=> step = 1
                             /\ Command = "diff" <=> step = 2
                             /\ Command \notin {"upload", "add", "check", "apply", "suite", "rm"}
           /\ op \in {"start", "search", "read", "patch", "suite", "diff"}
<1>1. step \in 1 .. 7 /\ step <= Len(Steps[op])
  BY DEF TypeOK
<1>2. ASSUME op = "start" PROVE step \in 1 .. 7
  BY <1>1
<1>3. ASSUME op \in {"search", "read", "diff"} PROVE step \in 1 .. 2
  <2>1. Len(Steps[op]) = 2
    BY <1>3, StepLimit, Zenon
  <2> QED
    BY <1>1, <2>1
<1>4. ASSUME op = "patch" PROVE step \in 1 .. 4
  BY <1>1, <1>4, StepLimit
<1>5. ASSUME op = "suite" PROVE step = 1
  BY <1>1, <1>5, StepLimit
<1>6. op \in {"start", "search", "read", "patch", "suite", "diff"}
  BY DEF TypeOK, Tools
<1>7. ASSUME op = "start"
      PROVE  /\ step \in 1 .. 7
             /\ Last <=> step = 7
             /\ Command = "upload" <=> step = 1
             /\ Command = "add" <=> step = 6
             /\ Command \notin {"check", "apply", "suite", "intent", "rm"}
  BY <1>2, <1>7, StartSteps DEF Last
<1>8. ASSUME op \in {"search", "read"}
      PROVE  /\ step \in 1 .. 2
             /\ Last <=> step = 2
             /\ Command \notin {"upload", "add", "check", "apply", "suite", "intent", "rm"}
  BY <1>3, <1>8, LookupSteps DEF Last
<1>9. ASSUME op = "patch"
      PROVE  /\ step \in 1 .. 4
             /\ Last <=> step = 4
             /\ Command = "upload" <=> step = 1
             /\ Command = "check" <=> step = 2
             /\ Command = "apply" <=> step = 3
             /\ Command = "rm" <=> step = 4
             /\ Command \notin {"add", "suite", "intent"}
  BY <1>4, <1>9, PatchSteps DEF Last
<1>10. ASSUME op = "suite" PROVE step = 1 /\ Command = "suite"
  BY <1>5, <1>10, SuiteSteps
<1>11. ASSUME op = "diff"
       PROVE  /\ step \in 1 .. 2
              /\ Last <=> step = 2
              /\ Command = "intent" <=> step = 1
              /\ Command = "diff" <=> step = 2
              /\ Command \notin {"upload", "add", "check", "apply", "suite", "rm"}
  BY <1>3, <1>11, DiffSteps DEF Last
<1> QED
  BY <1>6, <1>7, <1>8, <1>9, <1>10, <1>11, Zenon

(* Only the first command of a call is an upload.                            *)
LEMMA LaterCommand ==
    ASSUME NEW tool \in Tools \union {"start"}, NEW n \in 2 .. 7, n <= Len(Steps[tool])
    PROVE  Steps[tool][n] # "upload"
<1>1. CASE tool = "start"
  <2>1. Steps[tool] = <<"upload", "clean", "init", "name", "email", "add", "commit">>
    BY <1>1 DEF Steps
  <2>2. n \in {2, 3, 4, 5, 6, 7}
    OBVIOUS
  <2> QED
    BY <2>1, <2>2
<1>2. CASE tool = "search"
  <2>1. Steps[tool] = <<"realpath", "rg">> /\ n = 2
    BY <1>2, StepLimit DEF Steps
  <2> QED
    BY <2>1
<1>3. CASE tool = "read"
  <2>1. Steps[tool] = <<"realpath", "sed">> /\ n = 2
    BY <1>3, StepLimit DEF Steps
  <2> QED
    BY <2>1
<1>4. CASE tool = "patch"
  <2>1. Steps[tool] = <<"upload", "check", "apply", "rm">> /\ n \in {2, 3, 4}
    BY <1>4, StepLimit DEF Steps
  <2> QED
    BY <2>1
<1>5. CASE tool = "suite"
  BY <1>5, StepLimit
<1>6. CASE tool = "diff"
  <2>1. Steps[tool] = <<"intent", "diff">> /\ n = 2
    BY <1>6, StepLimit DEF Steps
  <2> QED
    BY <2>1
<1> QED
  BY <1>1, <1>2, <1>3, <1>4, <1>5, <1>6 DEF Tools

LEMMA ProductIsNat == ASSUME NEW x \in Nat, NEW y \in Nat PROVE x * y \in Nat
  OBVIOUS

(* Every command has a first second, and none begins another.                *)
LEMMA CeilingBound ==
    ASSUME NEW a \in Nat, NEW b \in Nat \ {0}
    PROVE  CeilDiv(a, b) \in Nat /\ CeilDiv(a, b) * b <= a + b - 1
<1> DEFINE n == a + b - 1
<1>1. n \in Nat
  OBVIOUS
<1>2. n \div b \in Nat /\ (n \div b) * b <= n
  BY <1>1
<1> QED
  BY <1>2 DEF CeilDiv

LEMMA LimitBound ==
    ASSUME op \in Tools, NEW maximum \in Nat \ {0}, budget \in Nat, elapsed \in Nat,
           NEW bound \in Nat, budget + Second <= bound + 1, elapsed + Second <= bound
    PROVE  /\ CommandTimeout(maximum) \in Nat \ {0}
           /\ elapsed + CommandTimeout(maximum) * Second <= bound
<1> DEFINE left == AtLeast(0, budget - elapsed)
           ceiling == CeilDiv(left, Second)
           limit == CommandTimeout(maximum)
<1> USE SandboxAssumption DEF SandboxAssumption
<1>1. left \in Nat /\ (left = 0 \/ left = budget - elapsed)
  BY DEF AtLeast
<1>2. ceiling \in Nat /\ ceiling * Second <= left + Second - 1
  BY <1>1, CeilingBound
<1>3. limit = AtLeast(1, AtMost(maximum, ceiling))
  BY DEF CommandTimeout, Tools
<1>4. limit \in Nat \ {0} /\ (limit = 1 \/ limit <= ceiling)
  BY <1>2, <1>3 DEF AtLeast, AtMost
<1>5. limit * Second <= Second \/ limit * Second <= ceiling * Second
  BY <1>2, <1>4
<1>6. limit * Second \in Nat /\ ceiling * Second \in Nat
  BY <1>2, <1>4
<1>7. elapsed + limit * Second <= bound
  <2>1. CASE limit * Second <= Second
    BY <1>6, <2>1
  <2>2. CASE limit * Second <= ceiling * Second
    BY <1>1, <1>2, <1>6, <2>2
  <2> QED
    BY <1>5, <2>1, <2>2
<1> QED
  BY <1>4, <1>7

-----------------------------------------------------------------------------
(* The steps outside commands                                                *)

LEMMA InitInv == Init => IInv
<1> SUFFICES ASSUME Init PROVE IInv
  OBVIOUS
<1>1. NoAnswer \in Answers /\ held = NoAnswer /\ answer = NoAnswer
  BY DEF Init, NoAnswer, Answer, Answers, Exits
<1>2. TypeOK
  <2>1. step \in 1 .. 7 /\ op = "idle" /\ op \in Tools \union {"idle", "start"}
    BY DEF Init
  <2> QED
    BY <2>1 DEF Init, TypeOK
<1>3. Life /\ Clock /\ Patching /\ Sweeping
  BY DEF Init, Life, Clock, Patching, Sweeping, Tools, LeakIsReported
<1>4. Index
  BY <1>1 DEF Init, Index, NoAnswer, Answer
<1> QED
  BY <1>1, <1>2, <1>3, <1>4 DEF IInv, Types

LEMMA NoAnswerIsOne == NoAnswer \in Answers /\ NoAnswer.tool = "none" /\ NoAnswer.kind = "none"
  BY DEF NoAnswer, Answer, Answers, Exits

LEMMA StartStep == ASSUME IInv, Start \/ StartFails PROVE IInv'
<1>1. /\ UNCHANGED <<running, issuedAt, open, time, held, files, answer, faults>>
      /\ op = "idle" /\ running = 0 /\ ~open
      /\ tmp => faults # {}
  BY DEF Start, StartFails, IInv, Types, TypeOK, Life, Sweeping, Tools
<1>2. CASE Start
  <2>1. Types'
    BY <1>1, <1>2, StepLimit DEF Start, IInv, Types, TypeOK, time, files, index
  <2>2. Command' = "upload"
    BY <1>2 DEF Start, Command, Steps
  <2>3. op' = "start" /\ owner' = "start" /\ box' = "up" /\ step' = 1
    BY <1>2 DEF Start
  <2>4. Life'
    <3>1. answer' = NoAnswer
      BY <1>1, <1>2 DEF IInv, Life, Start
    <3>2. ~(running' > 0) /\ ~open'
      BY <1>1
    <3> QED
      BY <2>2, <2>3, <3>1, <3>2 DEF Life, LeakIsReported, Tools
  <2>6. Clock' /\ Patching'
    BY <1>1, <2>2, <2>3 DEF Clock, Patching, Tools
  <2>5. Sweeping' /\ Index'
    BY <1>1, <2>3 DEF Sweeping, Index, files
  <2> QED
    BY <2>1, <2>4, <2>5, <2>6 DEF IInv
<1>3. CASE StartFails
  <2>1. Types'
    BY <1>1, <1>3 DEF StartFails, IInv, Types, TypeOK, time, files, index
  <2>2. op' = op
    BY <1>3 DEF StartFails
  <2>3. Life' /\ Clock' /\ Patching' /\ Sweeping'
    <3>1. op' = "idle" /\ owner' = "nobody" /\ raised' = TRUE /\ running' = 0 /\ ~open'
      BY <1>1, <1>3, <2>2 DEF StartFails
    <3>2. tmp' => faults' # {}
      BY <1>1 DEF files
    <3> QED
      BY <3>1, <3>2 DEF Life, Clock, Patching, Sweeping, LeakIsReported, Tools
  <2>4. Index'
    BY <1>1, <1>3, <2>2 DEF StartFails, IInv, Index, Announced, Exported, time, files, index
  <2> QED
    BY <2>1, <2>3, <2>4 DEF IInv
<1> QED
  BY <1>2, <1>3

LEMMA CallStep == ASSUME IInv, NEW tool \in Tools, Call(tool) PROVE IInv'
<1>1. /\ owner = "caller" /\ op = "idle" /\ op' = tool /\ step' = 1
      /\ elapsed' = 0 /\ issued' = 0 /\ uploaded' = 0 /\ budget' \in Budgets
      /\ answer' = NoAnswer
      /\ tool = "patch" => before' = workspace
      /\ before' \subseteq Files /\ patch' \subseteq Files
      /\ UNCHANGED <<life, running, issuedAt, open, held, tmp, workspace, tracked, intended,
                     rewritten, export, faults>>
  BY DEF Call, Usable, IInv, Types, TypeOK, index
<1>2. running = 0 /\ ~open /\ (tmp => faults # {})
  BY <1>1 DEF IInv, Types, TypeOK, Life, Sweeping
<1>3. budget' \in Nat /\ Second \in Nat
  BY <1>1, SandboxAssumption DEF SandboxAssumption
<1>4. Types'
  BY <1>1, <1>3, StepLimit, NoAnswerIsOne DEF IInv, Types, TypeOK, Tools, life
<1>5. Life'
  <2>1. owner' = "caller" /\ box' = "up" /\ running' = 0 /\ ~open' /\ op' \in Tools
    BY <1>1, <1>2 DEF IInv, Life, life
  <2> QED
    BY <2>1 DEF Life, LeakIsReported, Tools
<1>6. Clock'
  <2>1. Bound' = AtLeast(budget', 0) + 0 * Second
    BY <1>1 DEF Bound
  <2>2. AtLeast(budget', 0) \in Nat /\ 0 * Second = 0
    BY <1>3 DEF AtLeast
  <2> QED
    BY <1>1, <1>2, <2>1, <2>2 DEF Clock
<1>7. Patching' /\ Sweeping'
  BY <1>1, <1>2 DEF Patching, Sweeping
<1>8. Index'
  BY <1>1, NoAnswerIsOne DEF IInv, Index, life, Tools
<1> QED
  BY <1>4, <1>5, <1>6, <1>7, <1>8 DEF IInv

LEMMA RefuseStep == ASSUME IInv, NEW tool \in Tools, Refuse(tool) PROVE IInv'
<1>1. /\ op = "idle" /\ answer' = Answer(tool, "refused", 0)
      /\ UNCHANGED <<life, op, step, running, issuedAt, open, time, held, files, faults>>
  BY DEF Refuse, Usable
<1>2. answer' \in Answers /\ answer'.kind = "refused"
  BY <1>1 DEF Answer, Answers, Exits
<1>3. Types'
  BY <1>1, <1>2 DEF IInv, Types, TypeOK, life, time, files, index
<1>4. Life'
  BY <1>1, <1>2 DEF Refuse, Usable, IInv, Life, LeakIsReported, Tools, life
<1>5. Clock' /\ Patching' /\ Sweeping' /\ Index'
  BY <1>1, <1>2 DEF IInv, Clock, Patching, Sweeping, Index, Tools, life, time, files, index
<1> QED
  BY <1>3, <1>4, <1>5 DEF IInv

LEMMA CloseStep == ASSUME IInv, Close PROVE IInv'
<1>1. /\ op = "idle" /\ owner = "caller" /\ owner' = "nobody"
      /\ box' = "removed" \/ (box' = "up" /\ raised' = TRUE)
      /\ raised' \in BOOLEAN
      /\ UNCHANGED <<op, step, running, issuedAt, open, time, held, files, answer, faults>>
  BY DEF Close, Remove, IInv, Types, TypeOK
<1>2. Types'
  BY <1>1 DEF IInv, Types, TypeOK, time, files, index
<1>3. Life' /\ Clock' /\ Patching' /\ Sweeping'
  BY <1>1 DEF IInv, Life, Clock, Patching, Sweeping, LeakIsReported, Tools, time, files
<1>4. Index'
  BY <1>1 DEF IInv, Index, Announced, Exported, time, files, index
<1> QED
  BY <1>2, <1>3, <1>4 DEF IInv

LEMMA TickStep == ASSUME IInv, Tick PROVE IInv'
<1>1. /\ op \in Tools /\ elapsed' = elapsed + 1
      /\ running > 0 => ~Expired \/ open
      /\ running > 0 \/ Command = "upload"
      /\ UNCHANGED <<life, op, step, running, issuedAt, open, budget, issued, uploaded,
                     held, files, answer, faults>>
  BY DEF Tick, IInv, Life
<1>2. Command' = Command
  BY <1>1 DEF Command
<1>3. Types'
  BY <1>1 DEF IInv, Types, TypeOK, life, files, index
<1>4. Life' /\ Patching' /\ Sweeping'
  BY <1>1, <1>2
  DEF IInv, Life, Patching, Sweeping, Applied, Now, LeakIsReported, life, files, Flip
<1>5. Index'
  BY <1>1 DEF IInv, Index, Announced, Exported, life, files, index
<1>6. Clock'
  <2>1. Bound' = Bound
    BY <1>1 DEF Bound
  <2>2. CASE running > 0
    <3>1. ASSUME ~open
          PROVE  elapsed' <= issuedAt + running * Second
      <4>1. issuedAt + running * Second \in Nat /\ elapsed \in Nat
        BY SandboxAssumption DEF IInv, Types, TypeOK, SandboxAssumption
      <4>2. ~(elapsed >= issuedAt + running * Second)
        BY <1>1, <2>2, <3>1 DEF Expired
      <4> QED
        BY <1>1, <4>1, <4>2
    <3> QED
      BY <1>1, <1>2, <2>1, <2>2, <3>1 DEF IInv, Clock
  <2>3. CASE ~(running > 0)
    <3>1. Command = "upload" /\ running = 0
      BY <1>1, <2>3 DEF IInv, Types, TypeOK
    <3> QED
      BY <1>1, <1>2, <3>1 DEF IInv, Clock
  <2> QED
    BY <2>2, <2>3
<1> QED
  BY <1>3, <1>4, <1>5, <1>6 DEF IInv

LEMMA DetachStep == ASSUME IInv, Detach PROVE IInv'
<1>1. /\ op = "suite" /\ running > 0 /\ open' = TRUE
      /\ UNCHANGED <<life, op, step, running, issuedAt, time, held, files, answer, faults>>
  BY DEF Detach
<1>2. Command' = Command
  BY <1>1 DEF Command
<1>3. Types'
  BY <1>1 DEF IInv, Types, TypeOK, life, time, files, index
<1>4. Life' /\ Patching' /\ Sweeping' /\ Index'
  BY <1>1, <1>2 DEF IInv, Life, Patching, Sweeping, Index, LeakIsReported, life, files, index
<1>5. Clock'
  BY <1>1, <1>2 DEF IInv, Clock, Bound, time
<1> QED
  BY <1>3, <1>4, <1>5 DEF IInv

(* A command gets a limit that ends it within the bound of one command more. *)
LEMMA IssueStep == ASSUME IInv, Issue PROVE IInv'
<1> DEFINE maximum == IF op = "suite" THEN SuiteLimit ELSE DefaultLimit
<1>1. /\ op # "idle" /\ running = 0 /\ Command # "upload"
      /\ running' = CommandTimeout(maximum) /\ issuedAt' = elapsed /\ issued' = issued + 1
      /\ UNCHANGED <<life, op, step, open, budget, elapsed, uploaded, held, files, answer, faults>>
  BY DEF Issue
<1>2. maximum \in Nat \ {0} /\ Second \in Nat \ {0}
  BY SandboxAssumption DEF SandboxAssumption
<1> HIDE DEF maximum
<1>3. Command' = Command
  BY <1>1 DEF Command
<1>0. budget \in Nat /\ elapsed \in Nat /\ issued \in Nat /\ uploaded \in Nat
  BY DEF IInv, Types, TypeOK
<1>4. ASSUME op \in Tools
      PROVE  running' \in Nat \ {0} /\ issuedAt' + running' * Second <= Bound'
  <2> DEFINE base == AtLeast(budget, uploaded)
             spent == issued * Second
  <2>1. base \in Nat /\ base >= budget
    BY <1>0 DEF AtLeast
  <2>2. spent \in Nat
    BY <1>0, <1>2
  <2>3. (issued + 1) * Second = spent + Second
    BY <1>0, <1>2
  <2>4. Bound = base + spent /\ Bound' = base + (issued + 1) * Second
    BY <1>1 DEF Bound, AtLeast
  <2>5. elapsed <= Bound
    BY <1>1, <1>4 DEF IInv, Clock
  <2> HIDE DEF base, spent
  <2>6. Bound' \in Nat /\ budget + Second <= Bound' + 1 /\ elapsed + Second <= Bound'
    BY <1>0, <1>2, <2>1, <2>2, <2>3, <2>4, <2>5
  <2>7. /\ CommandTimeout(maximum) \in Nat \ {0}
        /\ elapsed + CommandTimeout(maximum) * Second <= Bound'
    BY <1>0, <1>2, <1>4, <2>6, LimitBound
  <2> QED
    BY <1>1, <2>7
<1>5. running' \in Nat \ {0}
  <2>1. CASE op = "start"
    BY <1>1, <1>2, <2>1 DEF CommandTimeout
  <2>2. CASE op \in Tools
    BY <1>4, <2>2
  <2> QED
    BY <1>1, <2>1, <2>2 DEF IInv, Types, TypeOK
<1>6. Types'
  BY <1>0, <1>1, <1>5 DEF IInv, Types, TypeOK, life, files, index
<1>7. Life'
  BY <1>1, <1>3, <1>5 DEF IInv, Life, LeakIsReported, life, NoAnswer
<1>8. Clock'
  <2>1. ASSUME op \in Tools PROVE elapsed' <= issuedAt' + running' * Second
    <3> DEFINE limit == running' * Second
    <3>1. limit \in Nat
      BY <1>2, <1>5, ProductIsNat
    <3> HIDE DEF limit
    <3>2. elapsed <= elapsed + limit
      BY <1>0, <3>1
    <3> QED
      BY <1>1, <3>2 DEF limit
  <2>2. running' > 0 /\ Command' # "upload" /\ op' = op
    BY <1>1, <1>3, <1>5
  <2>3. ~(running' = 0)
    BY <1>5
  <2> QED
    BY <1>4, <2>1, <2>2, <2>3, Zenon DEF Clock
<1>9. Patching'
  <2>1. Now = 0 /\ Now' = 1
    BY <1>1, <1>5 DEF Now
  <2>2. issued \in Nat /\ issued' = issued + 1 /\ step' = step /\ step \in 1 .. 7
    BY <1>1 DEF IInv, Types, TypeOK
  <2>3. Applied => Applied'
    BY <1>1 DEF Applied, files, Flip
  <2>4. workspace' = workspace /\ before' = before /\ op' = op
    BY <1>1 DEF files
  <2> QED
    BY <2>1, <2>2, <2>3, <2>4 DEF IInv, Patching
<1>10. Sweeping' /\ Index'
  BY <1>1 DEF IInv, Sweeping, Index, Announced, Exported, life, files, index
<1> QED
  BY <1>6, <1>7, <1>8, <1>9, <1>10 DEF IInv

(* An upload is the first step of a call.                                    *)
LEMMA UploadFirst == ASSUME IInv, op # "idle", Command = "upload"
    PROVE  step = 1 /\ running = 0 /\ op \in {"start", "patch"}
<1>1. TypeOK
  BY DEF IInv, Types
<1>2. running = 0
  BY DEF IInv, Types, TypeOK, Life
<1>3. op \in {"start", "search", "read", "patch", "suite", "diff"}
  BY <1>1, OpSteps
<1>4. CASE op \in {"start", "patch"}
  BY <1>1, <1>2, <1>4, OpSteps
<1>5. CASE op \in {"search", "read"}
  BY <1>1, <1>5, OpSteps
<1>6. CASE op \in {"suite", "diff"}
  BY <1>1, <1>6, OpSteps
<1> QED
  BY <1>3, <1>4, <1>5, <1>6

LEMMA UploadsStep == ASSUME IInv, Uploads PROVE IInv'
<1>1. /\ op # "idle" /\ Command = "upload" /\ tmp' = (tmp \/ op = "patch")
      /\ step' = step + 1 /\ uploaded' = elapsed
      /\ UNCHANGED <<life, op, running, issuedAt, open, budget, elapsed, issued, held, patch,
                     workspace, tracked, intended, rewritten, export, answer, before, faults>>
  BY DEF Uploads, index
<1>2. step = 1 /\ step' = 2 /\ running = 0 /\ op \in {"start", "patch"}
  BY <1>1, UploadFirst
<1>3. Len(Steps[op]) = 7 \/ Len(Steps[op]) = 4
  BY <1>2, StepLimit
<1>4. Types'
  <2>1. step' \in 1 .. 7 /\ step' <= Len(Steps[op'])
    <3>1. op' = op /\ step' = 2
      BY <1>1, <1>2
    <3>2. 2 <= Len(Steps[op])
      BY SMTT(30), <1>3
    <3> QED
      BY <3>1, <3>2
  <2>2. tmp' \in BOOLEAN
    BY <1>1 DEF IInv, Types, TypeOK
  <2> QED
    BY <1>1, <2>1, <2>2 DEF IInv, Types, TypeOK, life
<1>5. Life'
  BY <1>1, <1>2 DEF IInv, Life, LeakIsReported, life, NoAnswer
<1>6. ASSUME op \in Tools PROVE issued = 0 /\ elapsed \in Nat /\ budget \in Nat
  BY <1>1, <1>6 DEF IInv, Types, TypeOK, Clock
<1>7. Clock'
  <2>1. ASSUME op \in Tools PROVE elapsed' <= Bound'
    <3>1. Bound' = AtLeast(budget, elapsed) + 0 * Second
      BY <1>1, <1>6, <2>1 DEF Bound, AtLeast
    <3>2. /\ AtLeast(budget, elapsed) \in Nat /\ AtLeast(budget, elapsed) >= elapsed
          /\ 0 * Second = 0
      BY <1>6, <2>1, SandboxAssumption DEF AtLeast, SandboxAssumption
    <3> QED
      BY <1>1, <1>6, <2>1, <3>1, <3>2
  <2>2. ~(running' > 0) /\ op' = op
    BY <1>1, <1>2
  <2>3. ASSUME op \in Tools PROVE issued' = 0
    BY <1>1, <1>6, <2>3
  <2> QED
    BY <2>1, <2>2, <2>3, Zenon DEF Clock
<1>8. Patching'
  <2>1. ASSUME op = "patch" PROVE workspace = before /\ issued = 0 /\ Now' = 0
    BY <1>1, <1>2, <1>6, <2>1 DEF IInv, Patching, Now, Tools
  <2> QED
    BY <1>1, <1>2, <2>1 DEF Patching
<1>9. Sweeping'
  <2>1. op' = op /\ faults' = faults /\ step' >= 2
    BY <1>1, <1>2
  <2>2. tmp /\ faults = {} => op = "patch"
    BY DEF IInv, Sweeping
  <2>3. tmp' => tmp \/ op = "patch"
    BY <1>1
  <2> QED
    BY <2>1, <2>2, <2>3, Zenon DEF Sweeping
<1>10. Index'
  <2>1. op' \in {"start", "patch"} /\ step' # 7 /\ owner' = owner /\ tracked' = tracked
    BY <1>1, <1>2 DEF life
  <2> QED
    BY <2>1 DEF IInv, Index
<1> QED
  BY <1>4, <1>5, <1>7, <1>8, <1>9, <1>10 DEF IInv

-----------------------------------------------------------------------------
(* How a call ends or goes on                                                *)

(* A call that returns leaves the invariant as its files do.                 *)
LEMMA FinishKeeps ==
    ASSUME IInv, op \in Tools, NEW a \in Answers, Finish(a), running' = 0, ~open',
           open' \in BOOLEAN, rewritten' \in BOOLEAN, export' \subseteq Files,
           workspace' \subseteq Files, UNCHANGED tracked, intended' \subseteq Files,
           tmp' \in BOOLEAN, tmp' => faults' # {}, faults' \subseteq {"transport", "sweep"},
           a.tool = "diff" /\ a.kind = "result" => Exported'
    PROVE  IInv'
<1>1. /\ answer' = a /\ op' = "idle" /\ step' = 1 /\ held' = NoAnswer
      /\ budget' = 0 /\ elapsed' = 0 /\ issued' = 0 /\ issuedAt' = 0 /\ uploaded' = 0
      /\ patch' = {} /\ before' = {} /\ UNCHANGED <<owner, box, raised>>
  BY DEF Finish, Forget, life
<1>2. owner = "caller" /\ box = "up" /\ tracked = Base \ Ignored
  BY DEF IInv, Life, Index
<1>3. Types'
  <2>1. TypeOK'
    BY <1>1 DEF IInv, Types, TypeOK
  <2> QED
    BY <1>1, <2>1, NoAnswerIsOne DEF Types
<1>4. Clock' /\ Patching' /\ Sweeping'
  BY <1>1 DEF Clock, Patching, Sweeping, Tools
<1>6. Life'
  BY <1>1, <1>2 DEF Life, LeakIsReported, Tools
<1>5. Index'
  BY <1>1, <1>2 DEF Index
<1> QED
  BY <1>3, <1>4, <1>5, <1>6 DEF IInv

(* A start that fails closes the container or says that it could not.        *)
LEMMA AbandonKeeps ==
    ASSUME IInv, op = "start", Abandon, running' = 0, ~open', open' \in BOOLEAN,
           rewritten' \in BOOLEAN, export' \subseteq Files, workspace' \subseteq Files,
           tracked' \subseteq Files, intended' \subseteq Files,
           tmp' \in BOOLEAN, tmp' => faults' # {}, faults' \subseteq {"transport", "sweep"}
    PROVE  IInv'
<1>1. /\ answer' = answer /\ op' = "idle" /\ step' = 1 /\ held' = NoAnswer
      /\ budget' = 0 /\ elapsed' = 0 /\ issued' = 0 /\ issuedAt' = 0 /\ uploaded' = 0
      /\ patch' = {} /\ before' = {}
      /\ owner' = "nobody" /\ box' \in {"up", "removed"} /\ raised' = TRUE
  BY DEF Abandon, Forget
<1>2. answer.tool = "none"
  BY NoAnswerIsOne DEF IInv, Life
<1>3. Types'
  <2>1. TypeOK'
    BY <1>1 DEF TypeOK
  <2> QED
    BY <1>1, <2>1, NoAnswerIsOne DEF IInv, Types
<1>4. Clock' /\ Patching' /\ Sweeping'
  BY <1>1 DEF Clock, Patching, Sweeping, Tools
<1>6. Life'
  BY <1>1 DEF Life, LeakIsReported, Tools
<1>5. Index'
  BY <1>1, <1>2 DEF Index
<1> QED
  BY <1>3, <1>4, <1>5, <1>6 DEF IInv

(* The snapshot that a finished start hands over is in Git's index.          *)
LEMMA HandOverKeeps ==
    ASSUME IInv, op = "start", HandOver, running' = 0, ~open', open' \in BOOLEAN,
           rewritten' \in BOOLEAN, export' \subseteq Files, workspace' \subseteq Files,
           tracked = Base \ Ignored, tracked' = tracked, intended' \subseteq Files,
           tmp' \in BOOLEAN, tmp' => faults' # {}, faults' \subseteq {"transport", "sweep"}
    PROVE  IInv'
<1>1. /\ answer' = answer /\ op' = "idle" /\ step' = 1 /\ held' = NoAnswer
      /\ budget' = 0 /\ elapsed' = 0 /\ issued' = 0 /\ issuedAt' = 0 /\ uploaded' = 0
      /\ patch' = {} /\ before' = {}
      /\ owner' = "caller" /\ UNCHANGED <<box, raised>>
  BY DEF HandOver, Forget
<1>2. answer.tool = "none" /\ box = "up"
  BY NoAnswerIsOne DEF IInv, Life
<1>3. Types'
  <2>1. TypeOK'
    BY <1>1 DEF IInv, Types, TypeOK
  <2> QED
    BY <1>1, <2>1, NoAnswerIsOne DEF IInv, Types
<1>4. Clock' /\ Patching' /\ Sweeping'
  BY <1>1 DEF Clock, Patching, Sweeping, Tools
<1>6. Life'
  BY <1>1, <1>2 DEF Life, LeakIsReported, Tools
<1>5. Index'
  BY <1>1, <1>2 DEF Index
<1> QED
  BY <1>3, <1>4, <1>5, <1>6 DEF IInv

-----------------------------------------------------------------------------

(* What the end of a command leaves: `a` is what the call learns of it.      *)
Ended(a) ==
    /\ running > 0 /\ running' = 0 /\ open' = FALSE
    /\ a \in Answers /\ a.tool = op /\ a.kind \in {"result", "error"}
    /\ workspace' \subseteq Files /\ tracked' \subseteq Files /\ intended' \subseteq Files
    /\ tmp' \in BOOLEAN /\ faults' \subseteq {"transport", "sweep"}
    /\ rewritten' \in BOOLEAN /\ (op # "suite" => rewritten' = rewritten)
    /\ export' \subseteq Files
    /\ Command = "diff" /\ a.kind = "result" /\ a.exit = 0 => Spoken(export')
    /\ Command \notin {"apply", "suite"} => workspace' = workspace
    /\ Command = "apply" =>
         /\ \E d \in SUBSET patch : workspace' = Flip(workspace, d)
         /\ ToolOk(a) => workspace' = Flip(workspace, patch)
    /\ Command # "add" => tracked' = tracked
    /\ Command = "add" /\ a.kind = "result" /\ a.exit = 0 => tracked' = Base \ Ignored
    /\ Command = "intent" /\ a.kind = "result" /\ a.exit = 0 => Announced'
    /\ Command # "intent" => intended' = intended
    /\ tmp' => tmp
    /\ faults \subseteq faults'
    /\ Command = "rm" /\ tmp' => faults' # {}

LEMMA FlipStays == ASSUME NEW w \in SUBSET Files, NEW d \in SUBSET Files
    PROVE  Flip(w, d) \subseteq Files /\ Flip(Flip(w, d), w) = d /\ Flip(w, w) = {}
  BY DEF Flip

LEMMA MayRewriteKeeps == ASSUME TypeOK, MayRewrite
    PROVE  rewritten' \in BOOLEAN /\ (op # "suite" => rewritten' = rewritten)
<1>1. rewritten \in BOOLEAN
  BY DEF TypeOK
<1>2. CASE op = "suite"
  <2>1. rewritten' = rewritten \/ rewritten' = TRUE
    BY <1>2 DEF MayRewrite
  <2> QED
    BY <1>1, <1>2, <2>1, Zenon
<1>3. CASE op # "suite"
  <2>1. rewritten' = rewritten
    BY <1>3 DEF MayRewrite
  <2> QED
    BY <1>1, <2>1, Zenon
<1> QED
  BY <1>2, <1>3

LEMMA CommandLeaves ==
    ASSUME IInv, NEW exit \in Exits, running > 0, running' = 0, open' = FALSE, Effect(exit)
    PROVE  Ended(Answer(op, "result", exit))
<1> DEFINE a == Answer(op, "result", exit)
<1>1. TypeOK /\ op # "idle"
  BY DEF IInv, Types, Life
<1>2. op \in Tools \union {"start"}
  BY <1>1 DEF TypeOK
<1>3. a.tool = op /\ a.kind = "result" /\ a.exit = exit
  BY DEF Answer
<1>4. a \in Answers
  BY <1>2 DEF Answer, Answers
<1>5. /\ workspace \subseteq Files /\ tracked \subseteq Files /\ intended \subseteq Files
      /\ patch \subseteq Files /\ tmp \in BOOLEAN /\ faults \subseteq {"transport", "sweep"}
      /\ Base \subseteq Files
  BY <1>1, SandboxAssumption DEF TypeOK, SandboxAssumption
<1>6. Command \notin {"apply", "suite"} => workspace' = workspace
  BY DEF Effect
<1>7. ASSUME Command = "apply"
      PROVE  /\ \E d \in SUBSET patch : workspace' = Flip(workspace, d)
             /\ exit = 0 => workspace' = Flip(workspace, patch)
  <2>1. CASE exit = 0
    BY <1>7, <2>1 DEF Effect
  <2>2. CASE exit # 0
    BY <1>7, <2>2 DEF Effect
  <2> QED
    BY <2>1, <2>2
<1>8. workspace' \subseteq Files
  <2>1. CASE Command = "apply"
    BY <1>5, <1>7, <2>1, FlipStays
  <2>2. CASE Command = "suite"
    <3>1. \E d \in SUBSET Files : workspace' = Flip(workspace, d)
      BY <2>2 DEF Effect
    <3> QED
      BY <1>5, <3>1, FlipStays
  <2> QED
    BY <1>5, <1>6, <2>1, <2>2
<1>9. /\ tracked' = IF Command = "add" /\ exit = 0 THEN Base \ Ignored ELSE tracked
      /\ intended' = IF Command = "intent" /\ exit = 0
                     THEN (Existing \ Ignored) \ tracked ELSE intended
      /\ tmp' = (tmp /\ ~(Command = "rm" /\ exit = 0))
      /\ faults' = IF Command = "rm" /\ exit # 0 THEN faults \union {"sweep"} ELSE faults
  BY DEF Effect
<1>10. tracked' \subseteq Files /\ intended' \subseteq Files
  BY <1>5, <1>9 DEF Existing
<1>11. tmp' \in BOOLEAN /\ (tmp' => tmp)
  BY <1>5, <1>9, Zenon
<1>12. /\ faults' \subseteq {"transport", "sweep"} /\ faults \subseteq faults'
       /\ Command = "rm" /\ exit # 0 => faults' # {}
  BY <1>5, <1>9
<1>13. Command = "rm" /\ tmp' => faults' # {}
  <2>1. Command = "rm" /\ tmp' => exit # 0
    BY <1>9, Zenon
  <2> QED
    BY <1>12, <2>1
<1>14. Command = "intent" /\ exit = 0 => Announced'
  BY <1>6, <1>9 DEF Announced, Existing
<1>15. ToolOk(a) => exit = 0
  BY <1>3 DEF ToolOk
<1>16. rewritten' \in BOOLEAN /\ (op # "suite" => rewritten' = rewritten)
  BY <1>1, MayRewriteKeeps DEF Effect
<1>17. /\ export' \subseteq Files
       /\ Command = "diff" /\ exit = 0 => Spoken(export')
  <2>1. export' \in (IF Command = "diff" /\ exit = 0
                     THEN {f \in SUBSET Files : Spoken(f)} ELSE {export})
    BY DEF Effect
  <2>2. export \subseteq Files
    BY <1>1 DEF TypeOK
  <2>3. CASE Command = "diff" /\ exit = 0
    BY <2>1, <2>3
  <2>4. CASE ~(Command = "diff" /\ exit = 0)
    BY <2>1, <2>2, <2>4
  <2> QED
    BY <2>3, <2>4
<1> HIDE DEF a
<1> QED
  BY <1>3, <1>4, <1>6, <1>7, <1>8, <1>9, <1>10, <1>11, <1>12, <1>13, <1>14, <1>15, <1>16, <1>17
  DEF Ended, a

LEMMA FailureLeaves ==
    ASSUME IInv, TransportFails
    PROVE  Ended(Answer(op, "error", 0)) /\ faults' # {}
<1> DEFINE a == Answer(op, "error", 0)
<1>1. TypeOK /\ op # "idle" /\ running > 0 /\ running' = 0
  BY DEF IInv, Types, Life, TransportFails
<1>2. op \in Tools \union {"start"}
  BY <1>1 DEF TypeOK
<1>3. a.tool = op /\ a.kind = "error" /\ ~ToolOk(a)
  BY DEF Answer, ToolOk
<1>4. a \in Answers
  BY <1>2 DEF Answer, Answers, Exits
<1>5. /\ workspace \subseteq Files /\ tracked \subseteq Files /\ intended \subseteq Files
      /\ patch \subseteq Files /\ tmp \in BOOLEAN /\ faults \subseteq {"transport", "sweep"}
  BY <1>1 DEF TypeOK
<1>6. /\ tmp' \in (IF Command = "rm" THEN {tmp, FALSE} ELSE {tmp})
      /\ faults' = faults \union {"transport"}
      /\ tracked' = tracked /\ intended' = intended /\ export' = export /\ open' = FALSE
  BY DEF TransportFails
<1>7. PICK d \in SUBSET (CASE Command = "apply" -> patch
                           [] Command = "suite" -> Files
                           [] OTHER -> {}) : workspace' = Flip(workspace, d)
  BY DEF TransportFails
<1>8. Command \notin {"apply", "suite"} => workspace' = workspace
  <2>1. Command \notin {"apply", "suite"} => d = {}
    BY <1>7
  <2> QED
    BY <1>7, <2>1 DEF Flip
<1>9. Command = "apply" => d \in SUBSET patch
  BY <1>7
<1>10. d \in SUBSET Files
  BY <1>5, <1>7
<1>11. workspace' \subseteq Files
  BY <1>5, <1>7, <1>10, FlipStays
<1>12. tmp' \in BOOLEAN /\ (tmp' => tmp)
  <2>1. tmp' \in {tmp, FALSE}
    BY <1>6
  <2>2. CASE tmp' = tmp
    BY <1>5, <2>2
  <2>3. CASE tmp' = FALSE
    BY <2>3
  <2> QED
    BY <2>1, <2>2, <2>3
<1>13. faults' \subseteq {"transport", "sweep"} /\ faults \subseteq faults' /\ faults' # {}
  BY <1>5, <1>6
<1>14. rewritten' \in BOOLEAN /\ (op # "suite" => rewritten' = rewritten)
  BY <1>1, MayRewriteKeeps DEF TransportFails
<1>15. export' \subseteq Files
  BY <1>1, <1>6 DEF TypeOK
<1> HIDE DEF a
<1> QED
  BY <1>1, <1>3, <1>4, <1>5, <1>6, <1>7, <1>8, <1>9, <1>11, <1>12, <1>13, <1>14, <1>15
  DEF Ended, a

-----------------------------------------------------------------------------
(* What follows the end of a command                                         *)

(* A patch file is swept when a call ends, unless something failed.          *)
LEMMA SweptAtTheEnd ==
    ASSUME IInv, NEW a, Ended(a), op = "patch" => Command = "rm"
    PROVE  tmp' => faults' # {}
<1>1. tmp' => tmp /\ faults \subseteq faults'
  BY DEF Ended
<1>2. op = "patch" /\ tmp' => faults' # {}
  BY DEF Ended
<1>3. op # "patch" /\ tmp => faults # {}
  BY DEF IInv, Sweeping
<1> QED
  BY <1>1, <1>2, <1>3

(* A call that goes on is within its bound, whatever it does next.           *)
LEMMA GoOnKeeps ==
    ASSUME IInv, NEW a, Ended(a), NEW next \in 2 .. 7, next <= Len(Steps[op]),
           NEW keep \in Answers, GoOn(next, keep), op # "suite", Patching', Index'
    PROVE  IInv'
<1>1. /\ step' = next /\ held' = keep /\ op' = op /\ answer' = answer
      /\ UNCHANGED <<owner, box, raised, issuedAt, budget, elapsed, issued, uploaded,
                     patch, before>>
  BY DEF GoOn, life, time
<1>2. running > 0 /\ running' = 0 /\ op # "idle"
  BY DEF Ended, IInv, Life
<1>3. TypeOK /\ TypeOK'
  <2>1. TypeOK
    BY DEF IInv, Types
  <2>2. /\ open' \in BOOLEAN /\ rewritten' \in BOOLEAN /\ export' \subseteq Files
        /\ workspace' \subseteq Files /\ tracked' \subseteq Files /\ intended' \subseteq Files
        /\ tmp' \in BOOLEAN /\ faults' \subseteq {"transport", "sweep"} /\ running' = 0
    BY DEF Ended
  <2>3. step' \in 1 .. 7 /\ step' <= Len(Steps[op'])
    BY <1>1
  <2>4. /\ owner' = owner /\ box' = box /\ raised' = raised /\ op' = op
        /\ issuedAt' = issuedAt /\ budget' = budget /\ elapsed' = elapsed
        /\ issued' = issued /\ uploaded' = uploaded /\ patch' = patch /\ before' = before
    BY <1>1
  <2>5. TypeOK'
    BY <2>1, <2>2, <2>3, <2>4 DEF TypeOK
  <2> QED
    BY <2>1, <2>5
<1>4. Types'
  BY <1>1, <1>3 DEF IInv, Types
<1>5. op' # "idle" /\ step' # 1
  BY <1>1, <1>2
<1>6. Command' # "upload"
  <2>1. op \in Tools \union {"start"} /\ next \in 2 .. 7
    BY <1>2, <1>3 DEF TypeOK
  <2>2. Steps[op][next] # "upload"
    BY <2>1, LaterCommand
  <2> QED
    BY <1>1, <2>2 DEF Command
<1>7. Life'
  <2>1. /\ owner' = owner /\ box' = box /\ raised' = raised /\ ~(running' > 0) /\ ~open'
    BY <1>1, <1>2 DEF Ended
  <2> QED
    BY <1>1, <2>1 DEF IInv, Life, LeakIsReported, NoAnswer
<1>8. Clock'
  <2>1. ASSUME op \in Tools PROVE elapsed <= Bound
    <3> DEFINE limit == running * Second
    <3>1. limit \in Nat
      BY ProductIsNat, SandboxAssumption DEF IInv, Types, TypeOK, SandboxAssumption
    <3>2. Bound \in Int
      <4>1. issued * Second \in Nat /\ AtLeast(budget, uploaded) \in Nat
        BY ProductIsNat, SandboxAssumption
        DEF IInv, Types, TypeOK, SandboxAssumption, AtLeast
      <4> QED
        BY <4>1 DEF Bound
    <3>3. elapsed <= issuedAt + limit /\ issuedAt + limit <= Bound
      BY <1>2, <2>1 DEF IInv, Clock, Life
    <3>4. elapsed \in Nat /\ issuedAt \in Nat
      BY DEF IInv, Types, TypeOK
    <3> HIDE DEF limit
    <3> QED
      BY <3>1, <3>2, <3>3, <3>4
  <2>2. Bound' = Bound /\ elapsed' = elapsed
    BY <1>1 DEF Bound
  <2>3. ~(running' > 0)
    BY <1>2
  <2> QED
    BY <1>1, <1>6, <2>1, <2>2, <2>3, Zenon DEF Clock
<1>9. Sweeping'
  <2>1. tmp' /\ faults' = {} => op' = "patch"
    BY <1>1 DEF IInv, Sweeping, Ended
  <2>2. step' >= 2
    BY <1>1
  <2> QED
    BY <2>1, <2>2 DEF Sweeping
<1> QED
  BY <1>4, <1>7, <1>8, <1>9 DEF IInv

(* A finished start hands the committed snapshot over; a failed one closes.  *)
LEMMA AfterInitKeeps ==
    ASSUME IInv, NEW a, Ended(a), op = "start", AfterInit(a), a.kind = "error" => faults' # {}
    PROVE  IInv'
<1>1. TypeOK /\ op # "idle" /\ Len(Steps[op]) = 7
  BY StepLimit DEF IInv, Types
<1>2. step \in 1 .. 7 /\ (Last <=> step = 7) /\ (Command = "add" <=> step = 6)
  BY <1>1, OpSteps
<1>3. tmp' => faults' # {}
  BY SweptAtTheEnd
<1>4. CASE a.kind # "result" \/ a.exit # 0
  <2>1. Abandon
    BY <1>4 DEF AfterInit
  <2> QED
    BY <1>3, <2>1, AbandonKeeps DEF Ended
<1>5. CASE ~(a.kind # "result" \/ a.exit # 0) /\ Last
  <2>1. HandOver
    BY <1>5 DEF AfterInit
  <2>2. tracked = Base \ Ignored /\ tracked' = tracked
    BY <1>2, <1>5 DEF IInv, Index, Ended
  <2> QED
    BY <1>3, <2>1, <2>2, HandOverKeeps DEF Ended
<1>6. CASE ~(a.kind # "result" \/ a.exit # 0) /\ ~Last
  <2>1. GoOn(step + 1, NoAnswer)
    BY <1>6 DEF AfterInit
  <2>2. op' = "start" /\ step' = step + 1 /\ owner' = owner /\ owner = "start"
    BY <2>1 DEF GoOn, life, IInv, Life
  <2>3. step + 1 \in 2 .. 7 /\ step + 1 <= Len(Steps[op])
    BY <1>1, <1>2, <1>6
  <2>4. step' = 7 => tracked' = Base \ Ignored
    BY <1>2, <1>6, <2>2 DEF Ended
  <2>5. Patching' /\ Index'
    BY <2>2, <2>4 DEF Patching, Index
  <2> QED
    BY <2>1, <2>3, <2>5, NoAnswerIsOne, GoOnKeeps
<1> QED
  BY <1>4, <1>5, <1>6

(* apply_patch goes to its cleanup with the outcome of what it did.          *)
LEMMA AfterPatchKeeps ==
    ASSUME IInv, NEW a, Ended(a), op = "patch", AfterPatch(a)
    PROVE  IInv'
<1>1. TypeOK /\ op # "idle" /\ Len(Steps[op]) = 4 /\ Len(Steps.patch) = 4 /\ op \in Tools
  BY StepLimit DEF IInv, Types, Tools
<1>2. /\ step \in 1 .. 4 /\ (Last <=> step = 4) /\ (Command = "upload" <=> step = 1)
      /\ (Command = "check" <=> step = 2) /\ (Command = "apply" <=> step = 3)
      /\ (Command = "rm" <=> step = 4) /\ Command # "suite"
  BY <1>1, OpSteps
<1>3. owner = "caller" /\ running > 0 /\ running' = 0 /\ Now = 1 /\ step # 1
  BY <1>1, <1>2 DEF Ended, IInv, Life, Now
<1>4. /\ workspace \subseteq Files /\ patch \subseteq Files /\ before \subseteq Files
      /\ issued \in Nat
  BY <1>1 DEF TypeOK
<1>5. CASE Last
  <2>1. Finish(held)
    BY <1>5 DEF AfterPatch
  <2>2. held.tool = "patch" /\ held \in Answers
    BY <1>2, <1>5 DEF IInv, Patching, Applied, Types
  <2>3. tmp' => faults' # {}
    BY <1>2, <1>5, SweptAtTheEnd
  <2>4. tracked' = tracked
    BY <1>2, <1>5 DEF Ended
  <2> QED
    BY <1>1, <2>1, <2>2, <2>3, <2>4, FinishKeeps DEF Ended
<1>6. ASSUME NEW next \in 2 .. 4, NEW keep \in Answers, GoOn(next, keep), ~Last, Patching'
      PROVE  IInv'
  <2>1. /\ op' = "patch" /\ owner' = "caller" /\ tracked' = tracked
        /\ tracked = Base \ Ignored
    BY <1>1, <1>2, <1>3, <1>6, OpSteps DEF GoOn, life, IInv, Index, Ended
  <2>2. Index'
    BY <2>1 DEF Index
  <2>3. next \in 2 .. 7 /\ next <= Len(Steps[op])
    BY <1>1
  <2> QED
    BY <1>6, <2>2, <2>3, GoOnKeeps
<1>7. CASE ~Last /\ Command = "check" /\ a.kind = "result" /\ a.exit = 0
  <2>1. GoOn(step + 1, NoAnswer)
    BY <1>7 DEF AfterPatch
  <2>2. /\ step = 2 /\ workspace' = workspace /\ workspace = before /\ before' = before
        /\ step' = 3 /\ issued' = issued /\ issued = 1 /\ Now' = 0
    BY <1>2, <1>3, <1>7, <2>1 DEF IInv, Patching, Ended, GoOn, time, Now
  <2>3. Patching'
    BY <2>2 DEF Patching
  <2> QED
    BY <1>6, <1>7, <2>1, <2>2, <2>3, NoAnswerIsOne
<1>8. CASE ~Last /\ ~(Command = "check" /\ a.kind = "result" /\ a.exit = 0)
  <2>1. GoOn(4, a)
    BY <1>1, <1>8 DEF AfterPatch
  <2>2. /\ step' = 4 /\ held' = a /\ before' = before /\ patch' = patch /\ issued' = issued
        /\ a \in Answers /\ a.tool = "patch" /\ Now' = 0
    BY <1>3, <2>1 DEF GoOn, time, Ended, Now
  <2>3. workspace = before
    BY <1>2, <1>8 DEF IInv, Patching
  <2>4. CASE step = 2
    <3>1. workspace' = before /\ issued = 1 /\ ~ToolOk(a)
      BY <1>2, <1>3, <1>8, <2>3, <2>4 DEF IInv, Patching, Ended, ToolOk
    <3>2. Flip(workspace', before') = {}
      BY <1>4, <2>2, <3>1, FlipStays
    <3>3. Applied'
      BY <2>2, <3>1, <3>2 DEF Applied
    <3>4. Patching'
      BY <2>2, <3>1, <3>3 DEF Patching
    <3> QED
      BY <1>6, <1>8, <2>1, <2>2, <3>4
  <2>5. CASE step = 3
    <3>1. issued = 2
      BY <1>2, <1>3, <2>5 DEF IInv, Patching
    <3>2. PICK d \in SUBSET patch : workspace' = Flip(workspace, d)
      BY <1>2, <2>5 DEF Ended
    <3>3. Flip(workspace', before') \subseteq patch'
      BY <1>4, <2>2, <2>3, <3>2, FlipStays
    <3>4. ToolOk(a) => workspace' = Flip(before', patch')
      BY <1>2, <2>2, <2>3, <2>5 DEF Ended
    <3>5. Applied'
      BY <2>2, <3>3, <3>4 DEF Applied
    <3>6. Patching'
      BY <2>2, <3>1, <3>5 DEF Patching
    <3> QED
      BY <1>6, <1>8, <2>1, <2>2, <3>6
  <2> QED
    BY <1>2, <1>3, <1>8, <2>4, <2>5
<1> QED
  BY <1>5, <1>7, <1>8

LEMMA AfterLookupKeeps ==
    ASSUME IInv, NEW a, Ended(a), op \in {"search", "read"}, AfterLookup(a)
    PROVE  IInv'
<1>1. TypeOK /\ op # "idle" /\ Len(Steps[op]) = 2 /\ op \in Tools
  <2>1. Len(Steps[op]) = 2
    BY StepLimit, Zenon
  <2> QED
    BY <2>1 DEF IInv, Types, Tools
<1>2. step \in 1 .. 2 /\ (Last <=> step = 2) /\ Command \notin {"upload", "add"}
  BY <1>1, OpSteps
<1>3. tmp' => faults' # {}
  BY SweptAtTheEnd
<1>4. tracked' = tracked /\ tracked = Base \ Ignored /\ owner = "caller"
  BY <1>1, <1>2 DEF Ended, IInv, Life, Index
<1>5. ASSUME NEW b \in Answers, b.tool = op, Finish(b) PROVE IInv'
  BY <1>1, <1>3, <1>4, <1>5, FinishKeeps DEF Ended
<1>6. CASE Finish(a)
  BY <1>5, <1>6 DEF Ended
<1>7. ASSUME NEW kind \in {"invalid", "error"}, Finish(Answer(op, kind, 0)) PROVE IInv'
  <2>1. Answer(op, kind, 0) \in Answers /\ Answer(op, kind, 0).tool = op
    BY <1>1 DEF Answer, Answers, Exits
  <2> QED
    BY <1>5, <1>7, <2>1
<1>8. CASE ~Last /\ GoOn(step + 1, NoAnswer)
  <2>1. op' = op /\ owner' = owner
    BY <1>8 DEF GoOn, life
  <2>2. Patching' /\ Index'
    BY <1>4, <2>1 DEF Patching, Index
  <2>3. step + 1 \in 2 .. 7 /\ step + 1 <= Len(Steps[op])
    BY <1>1, <1>2, <1>8
  <2> QED
    BY <1>8, <2>2, <2>3, NoAnswerIsOne, GoOnKeeps
<1> QED
  BY <1>6, <1>7, <1>8 DEF AfterLookup

(* Of an index that knows every file, git diff speaks of all that changed.   *)
LEMMA DiffIsWhole ==
    ASSUME Announced, tracked = Base \ Ignored
    PROVE  (workspace \intersect (tracked \union intended)) \union (intended \intersect Base)
             = workspace \ Ignored
  BY DEF Announced

(* The export is taken of an index that its first command made complete.     *)
LEMMA AfterDiffKeeps ==
    ASSUME IInv, NEW a, Ended(a), op = "diff", AfterDiff(a)
    PROVE  IInv'
<1>1. TypeOK /\ op # "idle" /\ Len(Steps[op]) = 2 /\ op \in Tools
  BY StepLimit DEF IInv, Types, Tools
<1>2. /\ step \in 1 .. 2 /\ (Last <=> step = 2) /\ (Command = "intent" <=> step = 1)
      /\ (Command = "diff" <=> step = 2)
      /\ Command \notin {"upload", "add", "apply", "suite"}
  BY <1>1, OpSteps
<1>3. tmp' => faults' # {}
  BY SweptAtTheEnd
<1>4. /\ tracked' = tracked /\ tracked = Base \ Ignored /\ owner = "caller"
      /\ workspace' = workspace
  BY <1>1, <1>2 DEF Ended, IInv, Life, Index
<1>5. ASSUME NEW b \in Answers, Finish(b), b.kind = "result" => Exported'
      PROVE  IInv'
  BY <1>1, <1>3, <1>4, <1>5, FinishKeeps DEF Ended
<1>6. CASE a.kind = "result" /\ a.exit # 0
  <2>1. Finish(Answer(op, "error", a.exit))
    BY <1>6 DEF AfterDiff
  <2>2. a.exit \in Exits
    BY DEF Ended, Answers
  <2>3. Answer(op, "error", a.exit) \in Answers /\ Answer(op, "error", a.exit).kind = "error"
    BY <1>1, <2>2 DEF Answer, Answers
  <2> QED
    BY <1>5, <2>1, <2>3
<1>7. CASE ~(a.kind = "result" /\ a.exit # 0) /\ a.kind = "result" /\ ~Last
  <2>1. GoOn(step + 1, NoAnswer)
    BY <1>7 DEF AfterDiff
  <2>2. Announced'
    BY <1>2, <1>7 DEF Ended
  <2>3. op' = op /\ owner' = owner
    BY <2>1 DEF GoOn, life
  <2>4. Patching' /\ Index'
    BY <1>4, <2>2, <2>3 DEF Patching, Index
  <2>5. step + 1 \in 2 .. 7 /\ step + 1 <= Len(Steps[op])
    BY <1>1, <1>2, <1>7
  <2> QED
    BY <2>1, <2>4, <2>5, NoAnswerIsOne, GoOnKeeps
<1>8. CASE ~(a.kind = "result" /\ a.exit # 0) /\ ~(a.kind = "result" /\ ~Last)
  <2>1. Finish(a)
    BY <1>8 DEF AfterDiff
  <2>2. ASSUME a.kind = "result" PROVE Exported'
    <3>1. step = 2 /\ Spoken(export') /\ rewritten' = rewritten
      BY <1>2, <1>8, <2>2 DEF Ended
    <3>2. Announced
      BY <3>1 DEF IInv, Index
    <3> QED
      BY <1>4, <3>1, <3>2, DiffIsWhole DEF Exported, Spoken
  <2> QED
    BY <1>5, <2>1, <2>2 DEF Ended
<1> QED
  BY <1>6, <1>7, <1>8

LEMMA AfterKeeps ==
    ASSUME IInv, NEW a, Ended(a), After(a), a.kind = "error" => faults' # {}
    PROVE  IInv'
<1>1. TypeOK /\ op # "idle"
  BY DEF IInv, Types, Life, Ended
<1>2. op \in {"start", "search", "read", "patch", "suite", "diff"}
  BY <1>1, OpSteps
<1>3. CASE op = "start"
  BY <1>3, AfterInitKeeps DEF After
<1>4. CASE op = "patch"
  BY <1>4, AfterPatchKeeps DEF After
<1>5. CASE op \in {"search", "read"}
  BY <1>5, AfterLookupKeeps DEF After
<1>6. CASE op = "diff"
  BY <1>6, AfterDiffKeeps DEF After
<1>7. CASE op = "suite"
  <2>1. Finish(a)
    BY <1>7 DEF After
  <2>2. Command = "suite" /\ op \in Tools
    BY <1>1, <1>7, OpSteps DEF Tools
  <2>3. tmp' => faults' # {}
    BY <1>7, SweptAtTheEnd
  <2> QED
    BY <1>7, <2>1, <2>2, <2>3, FinishKeeps DEF Ended
<1> QED
  BY <1>2, <1>3, <1>4, <1>5, <1>6, <1>7

(* A command that ends, or whose end nobody learns of.                       *)
LEMMA EndStep == ASSUME IInv, CommandEnds \/ TransportFails PROVE IInv'
<1>1. CASE CommandEnds
  <2>1. PICK exit \in Exits : /\ running > 0 /\ running' = 0 /\ open' = FALSE
                              /\ Effect(exit)
                              /\ After(Answer(op, "result", exit))
    BY <1>1 DEF CommandEnds
  <2>2. Ended(Answer(op, "result", exit))
    BY <2>1, CommandLeaves
  <2>3. Answer(op, "result", exit).kind # "error"
    BY DEF Answer
  <2> QED
    BY <2>1, <2>2, <2>3, AfterKeeps
<1>2. CASE TransportFails
  <2>1. After(Answer(op, "error", 0))
    BY <1>2 DEF TransportFails
  <2> QED
    BY <1>2, <2>1, FailureLeaves, AfterKeeps
<1> QED
  BY <1>1, <1>2

LEMMA UploadFailsStep == ASSUME IInv, UploadFails PROVE IInv'
<1>1. /\ op # "idle" /\ Command = "upload"
      /\ UNCHANGED <<running, open, workspace, tracked, intended, rewritten, export>>
      /\ tmp' \in (IF op = "patch" THEN {tmp, TRUE} ELSE {tmp})
      /\ faults' = faults \union {"transport"}
  BY DEF UploadFails, index
<1>2. step = 1 /\ running' = 0 /\ ~open' /\ op \in {"start", "patch"}
  BY <1>1, UploadFirst DEF IInv, Life
<1>3. /\ open' \in BOOLEAN /\ rewritten' \in BOOLEAN /\ export' \subseteq Files
      /\ workspace' \subseteq Files /\ tracked' \subseteq Files /\ intended' \subseteq Files
      /\ faults' \subseteq {"transport", "sweep"} /\ faults' # {}
  BY <1>1 DEF IInv, Types, TypeOK
<1>4. tmp' \in BOOLEAN
  <2>1. tmp \in BOOLEAN
    BY DEF IInv, Types, TypeOK
  <2>2. tmp' = tmp \/ tmp' = TRUE
    BY <1>1
  <2>3. CASE tmp' = tmp
    BY <2>1, <2>3
  <2>4. CASE tmp' = TRUE
    BY <2>4
  <2> QED
    BY <2>2, <2>3, <2>4
<1>5. CASE op = "start"
  <2>1. Abandon
    BY <1>5 DEF UploadFails
  <2> QED
    BY <1>2, <1>3, <1>4, <1>5, <2>1, AbandonKeeps
<1>6. CASE op = "patch"
  <2>1. Finish(Answer("patch", "error", 0))
    BY <1>6 DEF UploadFails
  <2>2. /\ Answer("patch", "error", 0) \in Answers
        /\ Answer("patch", "error", 0).tool = "patch" /\ op \in Tools
    BY <1>6 DEF Answer, Answers, Exits, Tools
  <2> QED
    BY <1>1, <1>2, <1>3, <1>4, <1>6, <2>1, <2>2, FinishKeeps
<1> QED
  BY <1>2, <1>5, <1>6

LEMMA NextInv == IInv /\ [Next]_vars => IInv'
<1> SUFFICES ASSUME IInv, [Next]_vars PROVE IInv'
  OBVIOUS
<1>1. CASE UNCHANGED vars
  BY <1>1 DEF vars, life, time, files, index, IInv, Types, TypeOK, Life, LeakIsReported, Clock,
     Bound, Patching, Applied, Now, Sweeping, Index, Announced, Exported, Command
<1>2. CASE Start \/ StartFails
  BY <1>2, StartStep
<1>3. CASE \E tool \in Tools : Call(tool) \/ Refuse(tool)
  BY <1>3, CallStep, RefuseStep
<1>4. CASE Issue
  BY <1>4, IssueStep
<1>5. CASE CommandEnds \/ TransportFails
  BY <1>5, EndStep
<1>6. CASE Uploads
  BY <1>6, UploadsStep
<1>7. CASE UploadFails
  BY <1>7, UploadFailsStep
<1>8. CASE Tick
  BY <1>8, TickStep
<1>9. CASE Close
  BY <1>9, CloseStep
<1>10. CASE Done
  BY <1>1, <1>10 DEF Done
<1>11. CASE Detach
  BY <1>11, DetachStep
<1> QED
  BY <1>1, <1>2, <1>3, <1>4, <1>5, <1>6, <1>7, <1>8, <1>9, <1>10, <1>11 DEF Next, SandboxStep

(* The inductive invariant holds in every state of every run.                *)
THEOREM Invariant == Spec => []IInv
  BY InitInv, NextInv, PTL DEF Spec

-----------------------------------------------------------------------------
(* What follows                                                              *)

(* Every variable keeps to its type, and a call to its list of commands.     *)
THEOREM TypeCorrect == Spec => []TypeOK
<1>1. IInv => TypeOK
  BY DEF IInv, Types
<1> QED
  BY <1>1, Invariant, PTL

(* Whatever the time limits, no call outlives its deadline, or the end of    *)
(* its upload, by more than a second for each of its commands, unless it is  *)
(* a suite's and a process holds the stream.                                 *)
THEOREM OverrunsAreBounded == Spec => []OverrunIsBounded
<1>1. IInv => OverrunIsBounded
  <2> SUFFICES ASSUME IInv, op \in Tools, Command # "upload", ~open
               PROVE  elapsed <= Bound
    BY DEF OverrunIsBounded, Bound
  <2>1. CASE running > 0
    <3> DEFINE limit == running * Second
    <3>1. limit \in Nat /\ issued * Second \in Nat
      BY ProductIsNat, SandboxAssumption DEF IInv, Types, TypeOK, SandboxAssumption
    <3>2. AtLeast(budget, uploaded) \in Nat
      BY DEF IInv, Types, TypeOK, AtLeast
    <3>3. Bound \in Nat
      BY <3>1, <3>2 DEF Bound
    <3>4. elapsed <= issuedAt + limit /\ issuedAt + limit <= Bound
      BY <2>1 DEF IInv, Clock
    <3>5. elapsed \in Nat /\ issuedAt \in Nat
      BY DEF IInv, Types, TypeOK
    <3> HIDE DEF limit
    <3> QED
      BY <3>1, <3>3, <3>4, <3>5
  <2>2. CASE ~(running > 0)
    <3>1. running = 0
      BY <2>2 DEF IInv, Types, TypeOK
    <3> QED
      BY <3>1 DEF IInv, Clock
  <2> QED
    BY <2>1, <2>2
<1> QED
  BY <1>1, Invariant, PTL

(* An exported diff is the whole change of the workspace, unless a suite     *)
(* wrote the index, and the runner gets all of it or refuses it, for every   *)
(* task whose limit is within the bound on output; a patch file outlives its *)
(* call only if something failed, and a container that nobody closes was     *)
(* reported.                                                                 *)
THEOREM ExportsAreClean == Spec => []ExportIsClean
<1>1. IInv => ExportIsWhole
  <2> SUFFICES ASSUME IInv, op = "idle", answer.tool = "diff", answer.kind = "result"
               PROVE  /\ ~rewritten => export = workspace \ Ignored
                      /\ \A limit \in PatchLimits : Measured <= limit =>
                           limit > OutputLimit \/ Retained = Cardinality(export)
    BY DEF ExportIsWhole
  <2>1. ~rewritten => export = workspace \ Ignored
    BY DEF IInv, Index, Exported
  <2>2. ASSUME NEW limit \in PatchLimits, Measured <= limit, Cut
        PROVE  limit > OutputLimit
    <3>1. Measured = OutputLimit + 1
      BY <2>2 DEF Measured, Retained
    <3>2. limit \in Nat /\ OutputLimit \in Nat
      BY SandboxAssumption DEF SandboxAssumption
    <3> QED
      BY <2>2, <3>1, <3>2
  <2>3. ~Cut => Retained = Cardinality(export)
    BY DEF Retained
  <2> QED
    BY <2>1, <2>2, <2>3
<1>2. IInv => PatchFileIsSwept
  BY DEF IInv, Sweeping, PatchFileIsSwept
<1>3. IInv => LeakIsReported
  BY DEF IInv, Life
<1>4. IInv => ExportIsClean
  BY <1>1, <1>2, <1>3 DEF ExportIsClean
<1> QED
  BY <1>4, Invariant, PTL

(* The step that returns from apply_patch comes from its cleanup, where the  *)
(* held outcome already tells what the workspace became, or from an upload   *)
(* that failed before anything was written.                                  *)
LEMMA PatchReturn ==
    ASSUME IInv, Next, Returns("patch")
    PROVE  /\ ToolOk(answer') => workspace' = Flip(before, patch)
           /\ issued < 3 => workspace' = before
           /\ Flip(workspace', before) \subseteq patch
<1>1. TypeOK /\ op = "patch" /\ op' = "idle" /\ op # "idle"
  BY DEF IInv, Types, Returns
<1>2. /\ step \in 1 .. 4 /\ (Last <=> step = 4) /\ (Command = "upload" <=> step = 1)
      /\ (Command = "rm" <=> step = 4)
  BY <1>1, OpSteps
<1>3. workspace \subseteq Files /\ before \subseteq Files /\ patch \subseteq Files /\ issued \in Nat
  BY <1>1 DEF TypeOK
<1>4. ASSUME NEW a, Ended(a), AfterPatch(a)
      PROVE  /\ ToolOk(answer') => workspace' = Flip(before, patch)
             /\ issued < 3 => workspace' = before
             /\ Flip(workspace', before) \subseteq patch
  <2>1. Last
    BY <1>1, <1>4 DEF AfterPatch, GoOn
  <2>2. answer' = held
    BY <1>4, <2>1 DEF AfterPatch, Finish
  <2>3. step = 4 /\ workspace' = workspace /\ Now = 1
    BY <1>2, <1>4, <2>1 DEF Ended, Now
  <2>4. Applied /\ (issued = 2 \/ issued = 3) /\ (issued = 2 => workspace = before)
    BY <1>1, <1>3, <2>3 DEF IInv, Patching
  <2> QED
    BY <2>2, <2>3, <2>4 DEF Applied
<1>5. CASE CommandEnds
  <2>1. PICK exit \in Exits : /\ running > 0 /\ running' = 0 /\ open' = FALSE
                              /\ Effect(exit)
                              /\ After(Answer(op, "result", exit))
    BY <1>5 DEF CommandEnds
  <2>2. AfterPatch(Answer(op, "result", exit))
    BY <1>1, <2>1 DEF After
  <2> QED
    BY <1>4, <2>1, <2>2, CommandLeaves
<1>6. CASE TransportFails
  <2>1. AfterPatch(Answer(op, "error", 0))
    BY <1>1, <1>6 DEF After, TransportFails
  <2> QED
    BY <1>4, <1>6, <2>1, FailureLeaves
<1>7. CASE UploadFails
  <2>1. Finish(Answer(op, "error", 0)) /\ workspace' = workspace /\ step = 1
    BY <1>1, <1>2, <1>7 DEF UploadFails
  <2>2. ~ToolOk(answer')
    BY <2>1 DEF Finish, ToolOk, Answer
  <2>3. workspace = before
    BY <1>1, <2>1 DEF IInv, Patching
  <2> QED
    BY <1>3, <2>1, <2>2, <2>3, FlipStays
<1>8. CASE Issue \/ Uploads \/ Tick \/ Detach
  BY <1>1, <1>8 DEF Issue, Uploads, Tick, Detach
<1>9. CASE Start \/ StartFails \/ Close \/ \E tool \in Tools : Call(tool) \/ Refuse(tool)
  <2>1. owner # "none" /\ ~(owner = "caller" /\ op = "idle")
    BY <1>1 DEF IInv, Life, Tools
  <2> QED
    BY <1>1, <1>9, <2>1 DEF Start, StartFails, Close, Call, Refuse, Usable
<1>10. CASE Done
  BY <1>1, <1>10 DEF Done, vars
<1> QED
  BY <1>5, <1>6, <1>7, <1>8, <1>9, <1>10 DEF Next, SandboxStep

(* apply_patch tells the truth, whatever fails: the whole patch is there if  *)
(* it says ok, nothing of it if it was never applied, and nothing but it     *)
(* otherwise; and only it and the test suites write to the workspace.        *)
THEOREM PatchReportsAreTrue == Spec => PatchReportIsTrue
<1> DEFINE Told == /\ Returns("patch") =>
                        /\ ToolOk(answer') => workspace' = Flip(before, patch)
                        /\ issued < 3 => workspace' = before
                        /\ Flip(workspace', before) \subseteq patch
                   /\ workspace' # workspace => op \in {"patch", "suite"}
<1>1. IInv /\ Next => Told
  <2> SUFFICES ASSUME IInv, Next PROVE Told
    OBVIOUS
  <2>1. Returns("patch") =>
          /\ ToolOk(answer') => workspace' = Flip(before, patch)
          /\ issued < 3 => workspace' = before
          /\ Flip(workspace', before) \subseteq patch
    BY PatchReturn
  <2>2. workspace' # workspace => op \in {"patch", "suite"}
    <3>1. ASSUME NEW a, Ended(a) PROVE workspace' # workspace => op \in {"patch", "suite"}
      <4>1. TypeOK /\ op # "idle"
        BY <3>1 DEF IInv, Types, Life, Ended
      <4>2. workspace' # workspace => Command \in {"apply", "suite"}
        BY <3>1 DEF Ended
      <4> QED
        BY <4>1, <4>2, OpSteps
    <3>2. CASE CommandEnds
      BY <3>1, <3>2, CommandLeaves DEF CommandEnds
    <3>3. CASE TransportFails
      BY <3>1, <3>3, FailureLeaves
    <3>4. CASE ~(CommandEnds \/ TransportFails)
      BY <3>4 DEF Next, SandboxStep, Issue, Uploads, UploadFails, Start, StartFails, Call, Refuse,
         Tick, Detach, Close, Done, vars, files
    <3> QED
      BY <3>2, <3>3, <3>4
  <2> QED
    BY <2>1, <2>2
<1>2. IInv /\ [Next]_vars => [Told]_vars
  BY <1>1
<1> QED
  BY <1>2, Invariant, PTL DEF Spec, PatchReportIsTrue
=============================================================================
