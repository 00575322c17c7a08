-------------------------- MODULE PolicyServiceProofs --------------------------
(* What holds of the policy server and its collectors whatever the numbers   *)
(* of collectors, policies, calls and restarts, and for every timeout.       *)
EXTENDS PolicyService, FiniteSetTheorems, TLAPS

Kinds == {"step", "overflow", "error"}
Answers == [request : Requests, kind : Kinds, identity : Identities \cup {NoPolicy},
            seed : Requests \cup {Nothing}]

ClientStates ==
    [phase : {"new", "failed", "idle", "calling", "done"}, policy : Identities \cup {NoPolicy},
     rollout : 1 .. MaxRollouts, call : 0 .. MaxCalls, left : 0 .. TaskTime,
     timer : Nat, deadline : BOOLEAN, behind : BOOLEAN]

Endings ==
    [reason : {"wall_time_budget", "policy_error", "finished"}, left : 0 .. TaskTime,
     behind : BOOLEAN, cause : Kinds \cup {"refused", "runner", "lost", "timeout"}]

Types ==
    /\ serving \in Identities \cup {NoPolicy}
    /\ waiting \subseteq Requests /\ generating \subseteq Requests
    /\ lock \in BOOLEAN
    /\ seeded \in Requests \cup {Nothing}
    /\ restarts \in 0 .. MaxRestarts
    /\ answers \subseteq Answers
    /\ client \in [Clients -> ClientStates]
    /\ took \in [Clients -> Answers \cup {Nothing}]
    /\ ended \in [Clients -> Endings \cup {Nothing}]

(* The request that generates is the only one, it holds the lock, and it was *)
(* the last to seed the generator; so every sampled answer has its own seed. *)
Generator ==
    /\ lock = (generating # {})
    /\ \A r \in generating : generating = {r} /\ seeded = r
    /\ \A a \in answers : a.kind = "step" => a.seed = a.request

(* A call has room for its step, and never more time than its rollout: as    *)
(* much if its deadline is the task's, and less otherwise.                   *)
Timed(c) ==
    client[c].phase = "calling" =>
        /\ client[c].call < MaxCalls
        /\ client[c].timer <= client[c].left
        /\ client[c].deadline <=> client[c].timer = client[c].left

(* A collector that found a policy it expects keeps to it.                   *)
Bound(c) ==
    /\ client[c].phase \in {"idle", "calling", "done"} => client[c].policy \in Expected
    /\ took[c] # Nothing =>
         /\ client[c].phase \in {"idle", "calling", "done"}
         /\ took[c].identity = client[c].policy
         /\ took[c].seed = took[c].request

Told(c) ==
    ended[c] # Nothing /\ ended[c].cause = "timeout" =>
        (ended[c].reason = "wall_time_budget" <=> ended[c].left = 0)

ClientsInv == \A c \in Clients : Timed(c) /\ Bound(c) /\ Told(c)

IInv == Types /\ Generator /\ ClientsInv

-----------------------------------------------------------------------------
(* A collector's step leaves the others alone, and the server too.           *)
Others(c) ==
    \A d \in Clients \ {c} :
        client'[d] = client[d] /\ took'[d] = took[d] /\ ended'[d] = ended[d]

LEMMA OthersKept ==
    ASSUME ClientsInv, NEW c \in Clients, Others(c), Timed(c)', Bound(c)', Told(c)'
    PROVE  ClientsInv'
<1>1. ASSUME NEW d \in Clients PROVE Timed(d)' /\ Bound(d)' /\ Told(d)'
  <2>1. CASE d = c
    BY <2>1
  <2>2. CASE d # c
    BY <2>2 DEF Others, ClientsInv, Timed, Bound, Told
  <2> QED
    BY <2>1, <2>2
<1> QED
  BY <1>1 DEF ClientsInv

LEMMA FreshState ==
    ASSUME NEW policy \in Identities \cup {NoPolicy}, NEW rollout \in 1 .. MaxRollouts
    PROVE  Fresh(policy, rollout) \in ClientStates
  BY PolicyServiceAssumption DEF PolicyServiceAssumption, Fresh, ClientStates

LEMMA InitInv == Init => IInv
<1> SUFFICES ASSUME Init PROVE IInv
  OBVIOUS
<1> USE PolicyServiceAssumption DEF PolicyServiceAssumption
<1>1. ASSUME NEW c \in Clients
      PROVE  client[c] \in ClientStates /\ client[c].phase = "new"
  <2>1. Fresh(NoPolicy, 1) \in ClientStates
    BY FreshState
  <2>2. client[c] = [Fresh(NoPolicy, 1) EXCEPT !.phase = "new"]
    BY <1>1 DEF Init
  <2> QED
    BY <2>1, <2>2 DEF ClientStates
<1>2. Types
  <2>1. client \in [Clients -> ClientStates]
    BY <1>1 DEF Init
  <2>2. /\ took \in [Clients -> Answers \cup {Nothing}]
        /\ ended \in [Clients -> Endings \cup {Nothing}]
    BY DEF Init
  <2>3. restarts \in 0 .. MaxRestarts
    BY DEF Init
  <2> QED
    BY <2>1, <2>2, <2>3 DEF Init, Types
<1>3. Generator
  BY DEF Init, Generator
<1>4. ClientsInv
  BY <1>1 DEF Init, ClientsInv, Timed, Bound, Told
<1> QED
  BY <1>2, <1>3, <1>4 DEF IInv

-----------------------------------------------------------------------------
(* The collectors' steps                                                     *)

(* Whatever ends a rollout, the next one has the same policy and no call,    *)
(* and what is told of a timeout is as its deadline was.                     *)
LEMMA RolloutEndsStep ==
    ASSUME IInv, NEW c \in Clients, NEW reason, NEW cause,
           RolloutEnds(c, reason, cause),
           client[c].phase \in {"idle", "calling"},
           reason \in {"wall_time_budget", "policy_error", "finished"},
           cause \in Kinds \cup {"refused", "runner", "lost", "timeout"},
           cause = "timeout" => (reason = "wall_time_budget" <=> client[c].left = 0)
    PROVE  /\ client' \in [Clients -> ClientStates]
           /\ took' \in [Clients -> Answers \cup {Nothing}]
           /\ ended' \in [Clients -> Endings \cup {Nothing}]
           /\ ClientsInv'
<1>1. client[c] \in ClientStates /\ client[c].policy \in Expected
  BY DEF IInv, Types, ClientsInv, Bound
<1>2. /\ ended' = [ended EXCEPT ![c] = [reason |-> reason, left |-> client[c].left,
                                        behind |-> client[c].behind, cause |-> cause]]
      /\ took' = [took EXCEPT ![c] = Nothing]
  BY DEF RolloutEnds
<1>3. PICK state : /\ client' = [client EXCEPT ![c] = state]
                   /\ \/ client[c].rollout < MaxRollouts
                         /\ state = Fresh(client[c].policy, client[c].rollout + 1)
                      \/ state = [Fresh(client[c].policy, client[c].rollout)
                                     EXCEPT !.phase = "done"]
  BY DEF RolloutEnds, IInv, Types
<1>4. state \in ClientStates /\ state.phase \in {"idle", "done"} /\ state.policy = client[c].policy
  <2>1. CASE client[c].rollout < MaxRollouts /\ state = Fresh(client[c].policy, client[c].rollout + 1)
    <3>1. client[c].rollout + 1 \in 1 .. MaxRollouts
      BY <1>1, <2>1, PolicyServiceAssumption DEF ClientStates, PolicyServiceAssumption
    <3> QED
      BY <1>1, <2>1, <3>1, FreshState DEF ClientStates, Fresh
  <2>2. CASE state = [Fresh(client[c].policy, client[c].rollout) EXCEPT !.phase = "done"]
    <3>1. Fresh(client[c].policy, client[c].rollout) \in ClientStates
      BY <1>1, FreshState DEF ClientStates
    <3> QED
      BY <1>1, <2>2, <3>1 DEF ClientStates, Fresh
  <2> QED
    BY <1>3, <2>1, <2>2
<1>5. /\ client' \in [Clients -> ClientStates] /\ client'[c] = state
      /\ took' \in [Clients -> Answers \cup {Nothing}] /\ took'[c] = Nothing
  BY <1>2, <1>3, <1>4 DEF IInv, Types
<1>6. /\ ended' \in [Clients -> Endings \cup {Nothing}]
      /\ ended'[c].cause = cause /\ ended'[c].reason = reason /\ ended'[c].left = client[c].left
  <2>1. [reason |-> reason, left |-> client[c].left, behind |-> client[c].behind,
         cause |-> cause] \in Endings
    BY <1>1 DEF Endings, ClientStates
  <2> QED
    BY <1>2, <2>1 DEF IInv, Types
<1>7. Others(c)
  BY <1>2, <1>3 DEF Others, IInv, Types
<1>8. Timed(c)' /\ Bound(c)' /\ Told(c)'
  BY <1>1, <1>4, <1>5, <1>6 DEF Timed, Bound, Told
<1> QED
  BY <1>5, <1>6, <1>7, <1>8, OthersKept DEF IInv

LEMMA ConnectStep == ASSUME IInv, NEW c \in Clients, Connect(c) PROVE IInv'
<1>1. client[c] \in ClientStates /\ UNCHANGED <<server, answers, took, ended>>
  BY DEF Connect, IInv, Types
<1>2. PICK state : /\ client' = [client EXCEPT ![c] = state]
                   /\ \/ serving \in Expected /\ state = Fresh(serving, 1)
                      \/ state = [client[c] EXCEPT !.phase = "failed"]
  BY DEF Connect, IInv, Types
<1>3. /\ state \in ClientStates /\ state.phase \in {"idle", "failed"}
      /\ state.phase = "idle" => state.policy \in Expected
  <2>1. CASE serving \in Expected /\ state = Fresh(serving, 1)
    <3>1. 1 \in 1 .. MaxRollouts
      BY PolicyServiceAssumption DEF PolicyServiceAssumption
    <3> QED
      BY <2>1, <3>1, FreshState DEF IInv, Types, Fresh
  <2>2. CASE state = [client[c] EXCEPT !.phase = "failed"]
    BY <1>1, <2>2 DEF ClientStates
  <2> QED
    BY <1>2, <2>1, <2>2
<1>4. took[c] = Nothing
  BY DEF Connect, IInv, ClientsInv, Bound
<1>5. client' \in [Clients -> ClientStates] /\ client'[c] = state
  BY <1>2, <1>3 DEF IInv, Types
<1>6. Timed(c)' /\ Bound(c)' /\ Told(c)'
  BY <1>1, <1>3, <1>4, <1>5 DEF Timed, Bound, Told, IInv, ClientsInv
<1>7. Others(c)
  BY <1>1, <1>2 DEF Others, IInv, Types
<1>8. Types' /\ Generator'
  BY <1>1, <1>5 DEF IInv, Types, Generator, server
<1> QED
  BY <1>6, <1>7, <1>8, OthersKept DEF IInv

LEMMA AskStep == ASSUME IInv, NEW c \in Clients, Ask(c) PROVE IInv'
<1> DEFINE left == client[c].left
           state == [client[c] EXCEPT !.phase = "calling", !.timer = EffectiveTimeout(left),
                                      !.deadline = UsesTaskDeadline(left), !.behind = FALSE]
<1>1. /\ client[c] \in ClientStates /\ client[c].phase = "idle"
      /\ client[c].call < MaxCalls /\ left \in 0 .. TaskTime
      /\ UNCHANGED <<serving, lock, generating, seeded, restarts, answers>>
  BY DEF Ask, IInv, Types, ClientStates
<1>2. /\ client' = [client EXCEPT ![c] = state]
      /\ waiting' = waiting \cup {Request(c)}
      /\ took' = [took EXCEPT ![c] = Nothing] /\ ended' = [ended EXCEPT ![c] = Nothing]
  BY DEF Ask, IInv, Types
<1>3. Configured \in Nat \ {0} /\ TaskTime \in Nat \ {0}
  BY PolicyServiceAssumption DEF PolicyServiceAssumption
<1>4. /\ EffectiveTimeout(left) \in Nat /\ EffectiveTimeout(left) <= left
      /\ UsesTaskDeadline(left) \in BOOLEAN
      /\ UsesTaskDeadline(left) <=> EffectiveTimeout(left) = left
  BY <1>1, <1>3 DEF EffectiveTimeout, UsesTaskDeadline
<1>5. state \in ClientStates
  BY <1>1, <1>4 DEF ClientStates
<1>6. /\ client' \in [Clients -> ClientStates] /\ client'[c] = state
      /\ took' \in [Clients -> Answers \cup {Nothing}] /\ took'[c] = Nothing
      /\ ended' \in [Clients -> Endings \cup {Nothing}] /\ ended'[c] = Nothing
  BY <1>2, <1>5 DEF IInv, Types
<1>7. Request(c) \in Requests
  BY <1>1 DEF Request, Requests, ClientStates
<1>8. /\ state.phase = "calling" /\ state.timer = EffectiveTimeout(left) /\ state.left = left
      /\ state.deadline = UsesTaskDeadline(left) /\ state.policy = client[c].policy
      /\ state.call = client[c].call
  BY <1>1 DEF ClientStates
<1>9. Timed(c)'
  BY <1>1, <1>4, <1>6, <1>8 DEF Timed
<1>10. Bound(c)' /\ Told(c)'
  BY <1>1, <1>6, <1>8 DEF Bound, Told, IInv, ClientsInv
<1>11. Others(c)
  BY <1>2 DEF Others, IInv, Types
<1>12. Types' /\ Generator'
  BY <1>1, <1>2, <1>6, <1>7 DEF IInv, Types, Generator
<1> QED
  BY <1>9, <1>10, <1>11, <1>12, OthersKept DEF IInv

LEMMA AcceptStep == ASSUME IInv, NEW c \in Clients, Accept(c) PROVE IInv'
<1>1. PICK a \in answers :
        /\ client[c].phase = "calling"
        /\ a.kind = "step" /\ a.identity = client[c].policy
        /\ took' = [took EXCEPT ![c] = a]
        /\ client' = [client EXCEPT ![c] = [@ EXCEPT !.phase = "idle", !.call = client[c].call + 1]]
        /\ answers' = answers \ {a}
        /\ UNCHANGED <<server, ended>>
  BY DEF Accept, Answered
<1>2. client[c] \in ClientStates /\ a \in Answers /\ client[c].call < MaxCalls /\ MaxCalls \in Nat
  BY <1>1, PolicyServiceAssumption DEF IInv, Types, ClientsInv, Timed, PolicyServiceAssumption
<1> DEFINE state == [client[c] EXCEPT !.phase = "idle", !.call = client[c].call + 1]
<1>3. client' = [client EXCEPT ![c] = state]
  BY <1>1 DEF IInv, Types
<1>4. state \in ClientStates /\ state.phase = "idle" /\ state.policy = client[c].policy
  <2>1. client[c].call + 1 \in 0 .. MaxCalls
    BY <1>2 DEF ClientStates
  <2> QED
    BY <1>2, <2>1 DEF ClientStates
<1>5. /\ client' \in [Clients -> ClientStates] /\ client'[c] = state
      /\ took' \in [Clients -> Answers \cup {Nothing}] /\ took'[c] = a
  BY <1>1, <1>2, <1>3, <1>4 DEF IInv, Types
<1>6. a.seed = a.request /\ client[c].policy \in Expected
  BY <1>1 DEF IInv, Generator, ClientsInv, Bound
<1>7. Timed(c)' /\ Bound(c)' /\ Told(c)'
  BY <1>1, <1>4, <1>5, <1>6 DEF Timed, Bound, Told, IInv, ClientsInv
<1>8. Others(c)
  BY <1>1, <1>3 DEF Others, IInv, Types
<1>9. Types' /\ Generator'
  BY <1>1, <1>5 DEF IInv, Types, Generator, server
<1> QED
  BY <1>7, <1>8, <1>9, OthersKept DEF IInv

(* The steps that end a rollout and leave the server as it was.              *)
LEMMA EndsStep ==
    ASSUME IInv, NEW c \in Clients,
           AskFails(c) \/ Finish(c) \/ Reject(c) \/ ConnectionLost(c) \/ Timeout(c)
    PROVE  IInv'
<1>1. client[c] \in ClientStates
  BY DEF IInv, Types
<1>2. /\ answers' \subseteq answers /\ UNCHANGED server
      /\ client[c].phase \in {"idle", "calling"}
  BY DEF AskFails, Finish, Reject, Answered, ConnectionLost, Timeout
<1>3. PICK reason, cause :
        /\ RolloutEnds(c, reason, cause)
        /\ reason \in {"wall_time_budget", "policy_error", "finished"}
        /\ cause \in Kinds \cup {"refused", "runner", "lost", "timeout"}
        /\ cause = "timeout" => (reason = "wall_time_budget" <=> client[c].left = 0)
  <2>1. CASE AskFails(c)
    BY <2>1 DEF AskFails
  <2>2. CASE Finish(c)
    <3>1. RolloutEnds(c, IF client[c].left = 0 THEN "wall_time_budget" ELSE "finished", "runner")
      BY <2>2 DEF Finish
    <3> QED
      BY <3>1
  <2>3. CASE Reject(c)
    <3>1. PICK a \in answers : RolloutEnds(c, "policy_error", a.kind)
      BY <2>3 DEF Reject
    <3>2. a.kind \in Kinds
      BY <3>1 DEF IInv, Types, Answers
    <3> QED
      BY <3>1, <3>2 DEF Kinds
  <2>4. CASE ConnectionLost(c)
    BY <2>4 DEF ConnectionLost
  <2>5. CASE Timeout(c)
    <3>1. /\ client[c].phase = "calling" /\ client[c].timer = 0
          /\ RolloutEnds(c, IF client[c].deadline THEN "wall_time_budget" ELSE "policy_error",
                         "timeout")
      BY <2>5 DEF Timeout
    <3>2. client[c].deadline <=> client[c].left = 0
      BY <1>1, <3>1 DEF IInv, ClientsInv, Timed, ClientStates
    <3> QED
      BY <3>1, <3>2
  <2> QED
    BY <2>1, <2>2, <2>3, <2>4, <2>5
<1>4. /\ client' \in [Clients -> ClientStates]
      /\ took' \in [Clients -> Answers \cup {Nothing}]
      /\ ended' \in [Clients -> Endings \cup {Nothing}]
      /\ ClientsInv'
  BY <1>2, <1>3, RolloutEndsStep
<1>5. Types' /\ Generator'
  BY <1>2, <1>4 DEF IInv, Types, Generator, server
<1> QED
  BY <1>4, <1>5 DEF IInv

-----------------------------------------------------------------------------
(* The server's steps and time                                               *)

LEMMA ServeStep == ASSUME IInv, Serve PROVE IInv'
<1> DEFINE Sent(r, kind) == Answer(r, kind)
<1>1. UNCHANGED <<serving, restarts, client, took, ended>>
  BY DEF Serve, Acquire, Overflow, Generated, GenerationFails
<1>2. ClientsInv'
  BY <1>1 DEF IInv, ClientsInv, Timed, Bound, Told
<1>3. ASSUME NEW r \in Requests, NEW kind \in Kinds, Send(r, kind), kind = "step" => seeded = r
      PROVE  /\ answers' \subseteq Answers
             /\ \A a \in answers' : a.kind = "step" => a.seed = a.request
  <2>1. Answer(r, kind) \in Answers
    BY DEF Answer, Answers, IInv, Types
  <2>2. Answer(r, kind).kind = "step" => Answer(r, kind).seed = Answer(r, kind).request
    BY <1>3 DEF Answer
  <2> QED
    BY <1>3, <2>1, <2>2 DEF Send, IInv, Types, Generator
<1>4. ASSUME NEW r \in waiting, Acquire(r) PROVE Types' /\ Generator'
  <2>1. generating = {}
    BY <1>4 DEF Acquire, IInv, Generator
  <2> QED
    BY <1>1, <1>4, <2>1 DEF Acquire, IInv, Types, Generator
<1>5. ASSUME NEW r \in waiting, Overflow(r) PROVE Types' /\ Generator'
  <2>1. r \in Requests /\ "overflow" \in Kinds /\ Send(r, "overflow")
    BY <1>5 DEF Overflow, IInv, Types, Kinds
  <2> QED
    BY <1>1, <1>3, <1>5, <2>1 DEF Overflow, IInv, Types, Generator
<1>6. ASSUME NEW r \in generating, Generated(r) \/ GenerationFails(r) PROVE Types' /\ Generator'
  <2>1. r \in Requests /\ seeded = r /\ generating = {r}
    BY <1>6 DEF IInv, Types, Generator
  <2>2. PICK kind \in {"step", "error"} : Send(r, kind)
    BY <1>6 DEF Generated, GenerationFails
  <2>3. generating' = {} /\ lock' = FALSE /\ UNCHANGED <<waiting, seeded>>
    BY <1>6, <2>1 DEF Generated, GenerationFails
  <2>4. kind \in Kinds
    BY DEF Kinds
  <2> QED
    BY <1>1, <1>3, <2>1, <2>2, <2>3, <2>4 DEF IInv, Types, Generator
<1> QED
  BY <1>2, <1>4, <1>5, <1>6 DEF Serve, IInv

LEMMA StopOrStartStep == ASSUME IInv, Stop \/ Start PROVE IInv'
<1>1. UNCHANGED <<client, took, ended>> /\ answers' \subseteq answers
  BY DEF Stop, Start
<1>2. ClientsInv'
  BY <1>1 DEF IInv, ClientsInv, Timed, Bound, Told
<1>3. CASE Stop
  <2>1. /\ serving' = NoPolicy /\ waiting' = {} /\ lock' = FALSE /\ generating' = {}
        /\ seeded' = Nothing /\ UNCHANGED restarts
    BY <1>3 DEF Stop
  <2>2. Types'
    BY <1>1, <2>1 DEF IInv, Types
  <2>3. Generator'
    BY <1>1, <2>1 DEF IInv, Generator
  <2> QED
    BY <1>2, <2>2, <2>3 DEF IInv
<1>4. CASE Start
  <2>1. restarts' \in 0 .. MaxRestarts
    BY <1>4, PolicyServiceAssumption DEF Start, IInv, Types, PolicyServiceAssumption
  <2>2. serving' \in Identities /\ UNCHANGED <<waiting, lock, generating, seeded, answers>>
    BY <1>4 DEF Start
  <2>3. Types'
    BY <1>1, <2>1, <2>2 DEF IInv, Types
  <2>4. Generator'
    BY <2>2 DEF IInv, Generator
  <2> QED
    BY <1>2, <2>3, <2>4 DEF IInv
<1> QED
  BY <1>2, <1>3, <1>4 DEF IInv

LEMMA TickStep == ASSUME IInv, Tick PROVE IInv'
<1>1. /\ client' = [c \in Clients |-> Passed(c)]
      /\ UNCHANGED <<server, answers, took, ended>>
  BY DEF Tick
<1>2. ASSUME NEW c \in Clients
      PROVE  Passed(c) \in ClientStates /\ (Timed(c) /\ Bound(c) /\ Told(c))'
  <2> DEFINE state == client[c]
  <2>1. state \in ClientStates /\ Timed(c) /\ Bound(c) /\ Told(c) /\ client'[c] = Passed(c)
    BY <1>1 DEF IInv, Types, ClientsInv
  <2>2. CASE state.phase = "calling"
    <3>1. state.timer > 0 /\ state.timer <= state.left
      BY <2>1, <2>2 DEF Tick, Timed
    <3>2. PICK late \in BOOLEAN :
            Passed(c) = [state EXCEPT !.timer = state.timer - 1, !.left = state.left - 1,
                                      !.behind = late]
      <4>1. (state.behind \/ (Request(c) \in waiting /\ lock)) \in BOOLEAN
        OBVIOUS
      <4> QED
        BY <2>1, <2>2, <4>1 DEF Passed, ClientStates
    <3>3. /\ Passed(c) \in ClientStates /\ Passed(c).timer = state.timer - 1
          /\ Passed(c).left = state.left - 1 /\ Passed(c).phase = "calling"
          /\ Passed(c).policy = state.policy /\ Passed(c).call = state.call
          /\ Passed(c).deadline = state.deadline
      <4>1. state.timer - 1 \in Nat /\ state.left - 1 \in 0 .. TaskTime
        BY <2>1, <3>1, PolicyServiceAssumption DEF ClientStates, PolicyServiceAssumption
      <4> QED
        BY <2>1, <2>2, <3>2, <4>1 DEF ClientStates
    <3>4. Timed(c)'
      BY <2>1, <2>2, <3>1, <3>3 DEF Timed, ClientStates
    <3> QED
      BY <1>1, <2>1, <2>2, <3>3, <3>4 DEF Bound, Told
  <2>3. CASE state.phase = "idle" /\ state.left > 0
    <3>1. Passed(c) = [state EXCEPT !.left = state.left - 1]
      BY <2>1, <2>3 DEF Passed, ClientStates
    <3>2. /\ Passed(c) \in ClientStates
          /\ Passed(c).phase = "idle" /\ Passed(c).policy = state.policy
      BY <2>1, <2>3, <3>1, PolicyServiceAssumption DEF ClientStates, PolicyServiceAssumption
    <3> QED
      BY <1>1, <2>1, <2>3, <3>2 DEF Timed, Bound, Told
  <2>4. CASE state.phase # "calling" /\ ~(state.phase = "idle" /\ state.left > 0)
    <3>1. Passed(c) = state
      BY <2>4 DEF Passed
    <3> QED
      BY <1>1, <2>1, <3>1 DEF Timed, Bound, Told
  <2> QED
    BY <2>2, <2>3, <2>4
<1>3. Types' /\ Generator'
  BY <1>1, <1>2 DEF IInv, Types, Generator, server
<1> QED
  BY <1>2, <1>3 DEF IInv, ClientsInv

-----------------------------------------------------------------------------
LEMMA NextInv == IInv /\ [Next]_vars => IInv'
<1> SUFFICES ASSUME IInv, [Next]_vars PROVE IInv'
  OBVIOUS
<1>1. ASSUME NEW c \in Clients, ClientStep(c) PROVE IInv'
  BY <1>1, ConnectStep, AskStep, AcceptStep, EndsStep DEF ClientStep
<1>2. CASE UNCHANGED vars
  BY <1>2 DEF vars, server, IInv, Types, Generator, ClientsInv, Timed, Bound, Told
<1> QED
  BY <1>1, <1>2, ServeStep, StopOrStartStep, TickStep DEF Next

(* Wherever the requests and the one lock of the server are, its client and  *)
(* its process agree on what was asked and answered.                         *)
THEOREM Invariant == Spec => []IInv
<1> QED
  BY InitInv, NextInv, PTL DEF Spec

-----------------------------------------------------------------------------
(* Theorems                                                                  *)

(* The values of every variable; one request generates at a time, and holds  *)
(* the lock.                                                                 *)
THEOREM TypeCorrect == Spec => []TypeOK
<1>1. IInv => TypeOK
  <2> SUFFICES ASSUME IInv PROVE TypeOK
    OBVIOUS
  <2>1. Cardinality(generating) <= 1
    <3>1. CASE generating = {}
      BY <3>1, FS_EmptySet
    <3>2. CASE generating # {}
      <4>1. PICK r \in generating : generating = {r}
        BY <3>2 DEF IInv, Generator
      <4>2. Cardinality({r}) = 1
        BY FS_Singleton
      <4> QED
        BY <4>1, <4>2
    <3> QED
      BY <3>1, <3>2
  <2>2. ASSUME NEW c \in Clients
        PROVE  /\ client[c].phase \in {"new", "failed", "idle", "calling", "done"}
               /\ client[c].left \in 0 .. TaskTime
               /\ client[c].phase = "calling" => client[c].timer \in 0 .. client[c].left
    BY DEF IInv, Types, ClientStates, ClientsInv, Timed
  <2>3. \A a \in answers : a.request \in Requests /\ a.kind \in {"step", "overflow", "error"}
    BY DEF IInv, Types, Answers, Kinds
  <2> QED
    BY <2>1, <2>2, <2>3 DEF IInv, Types, Generator, TypeOK, Held
<1> QED
  BY <1>1, Invariant, PTL

(* Accepted steps come from the policy that was found at the start and from  *)
(* their own request's seed, and timeouts are told by whose time was over.   *)
THEOREM StepsStayFaithful == Spec => []StepsAreFaithful
<1>1. IInv => StepsAreFaithful
  BY DEF IInv, ClientsInv, Bound, Told, StepsAreFaithful, StepsAreThePolicys,
         StepsAreReproducible, DeadlinesAreTold
<1> QED
  BY <1>1, Invariant, PTL
=============================================================================
