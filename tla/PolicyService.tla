---------------------------- MODULE PolicyService ----------------------------
(* The policy server (agent/policy_server.py) and the collectors that sample *)
(* from it (agent/remote_policy.py): a process that serves one policy and    *)
(* may be replaced by one that serves another, requests that wait for its    *)
(* one lock, calls that time out and leave their request behind.             *)
(*                                                                           *)
(* A call is made inside a rollout, which has a wall-time budget. The seed   *)
(* of a request is the request: seeding the process's random generator with  *)
(* it, and drawing from the generator later, are two steps.                  *)
EXTENDS Naturals, FiniteSets

CONSTANTS
    Clients,
    Identities,    \* the policies a server may serve
    Expected,      \* those the collectors' configuration accepts
    Configured,    \* the timeout of a call
    TaskTime,      \* the wall-time budget of a rollout
    MaxCalls,      \* bounds the calls of a rollout
    MaxRollouts,   \* bounds the rollouts of a collector
    MaxRestarts    \* bounds how often a server is started

ASSUME PolicyServiceAssumption ==
    /\ Expected \subseteq Identities /\ "none" \notin Identities
    /\ {Configured, TaskTime, MaxCalls, MaxRollouts} \subseteq Nat \ {0}
    /\ MaxRestarts \in Nat

VARIABLES
    serving,    \* the identity the running process serves
    waiting,    \* the requests that wait for the lock
    lock,       \* is it held?
    generating, \* the requests that are generating
    seeded,     \* the request whose seed the generator was last given
    answers,    \* answers on their way
    client,     \* what each collector is doing
    took,       \* the step each collector accepted since it last called
    ended,      \* how its last rollout ended, until it calls again
    restarts

server == <<serving, waiting, lock, generating, seeded, restarts>>
vars == <<server, answers, client, took, ended>>

Nothing == [none |-> TRUE]
NoPolicy == "none"

Request(c) == [client |-> c, rollout |-> client[c].rollout, call |-> client[c].call]

Held == waiting \cup generating

Fresh(policy, rollout) ==
    [phase |-> "idle", policy |-> policy, rollout |-> rollout, call |-> 0, left |-> TaskTime,
     timer |-> 0, deadline |-> FALSE, behind |-> FALSE]

Init ==
    /\ serving \in Identities \cup {NoPolicy}
    /\ waiting = {} /\ lock = FALSE /\ generating = {} /\ seeded = Nothing /\ restarts = 0
    /\ answers = {}
    /\ client = [c \in Clients |-> [Fresh(NoPolicy, 1) EXCEPT !.phase = "new"]]
    /\ took = [c \in Clients |-> Nothing] /\ ended = [c \in Clients |-> Nothing]

-----------------------------------------------------------------------------
(* The collector                                                             *)

(* create_policy: the health endpoint is asked once, before any rollout.     *)
Connect(c) ==
    /\ client[c].phase = "new"
    /\ client' = [client EXCEPT ![c] =
         IF serving \in Expected THEN Fresh(serving, 1) ELSE [@ EXCEPT !.phase = "failed"]]
    /\ UNCHANGED <<server, answers, took, ended>>

(* AgentRunner.run ends with this reason; the next rollout begins.           *)
RolloutEnds(c, reason, cause) ==
    /\ ended' = [ended EXCEPT ![c] = [reason |-> reason, left |-> client[c].left,
                                      behind |-> client[c].behind, cause |-> cause]]
    /\ took' = [took EXCEPT ![c] = Nothing]
    /\ client' = [client EXCEPT ![c] =
         IF @.rollout < MaxRollouts THEN Fresh(@.policy, @.rollout + 1)
         ELSE [Fresh(@.policy, @.rollout) EXCEPT !.phase = "done"]]

UsesTaskDeadline(remaining) == remaining <= Configured

EffectiveTimeout_Uncapped(remaining) == Configured

EffectiveTimeout(remaining) == IF remaining <= Configured THEN remaining ELSE Configured

(* RemoteTracePolicy.act, up to the answer.                                  *)
Ask(c) ==
    /\ client[c].phase = "idle" /\ client[c].left > 0 /\ client[c].call < MaxCalls
    /\ serving # NoPolicy
    /\ client' = [client EXCEPT ![c] =
         [@ EXCEPT !.phase = "calling", !.timer = EffectiveTimeout(client[c].left),
                   !.deadline = UsesTaskDeadline(client[c].left), !.behind = FALSE]]
    /\ waiting' = waiting \cup {Request(c)}
    /\ took' = [took EXCEPT ![c] = Nothing] /\ ended' = [ended EXCEPT ![c] = Nothing]
    /\ UNCHANGED <<serving, lock, generating, seeded, restarts, answers>>

AskFails(c) ==
    /\ client[c].phase = "idle" /\ client[c].left > 0 /\ client[c].call < MaxCalls
    /\ serving = NoPolicy
    /\ RolloutEnds(c, "policy_error", "refused")
    /\ UNCHANGED <<server, answers>>

(* The rollout ends between two calls, by itself or by its budget.           *)
Finish(c) ==
    /\ client[c].phase = "idle"
    /\ RolloutEnds(c, IF client[c].left = 0 THEN "wall_time_budget" ELSE "finished", "runner")
    /\ UNCHANGED <<server, answers>>

(* An answer to this very call: connections are not shared.                  *)
Answered(c, a) == client[c].phase = "calling" /\ a \in answers /\ a.request = Request(c)

Accept(c) ==
    \E a \in answers :
        /\ Answered(c, a) /\ a.kind = "step" /\ a.identity = client[c].policy
        /\ took' = [took EXCEPT ![c] = a]
        /\ client' = [client EXCEPT ![c] = [@ EXCEPT !.phase = "idle", !.call = client[c].call + 1]]
        /\ answers' = answers \ {a}
        /\ UNCHANGED <<server, ended>>

(* An HTTP error, or the answer of another policy.                           *)
Reject(c) ==
    \E a \in answers :
        /\ Answered(c, a) /\ (a.kind = "step" => a.identity # client[c].policy)
        /\ RolloutEnds(c, "policy_error", a.kind)
        /\ answers' = answers \ {a}
        /\ UNCHANGED server

(* The process that had the request is gone.                                 *)
ConnectionLost(c) ==
    /\ client[c].phase = "calling" /\ Request(c) \notin Held
    /\ \A a \in answers : a.request # Request(c)
    /\ RolloutEnds(c, "policy_error", "lost")
    /\ UNCHANGED <<server, answers>>

Timeout_Retries(c) ==
    /\ client[c].phase = "calling" /\ client[c].timer = 0
    /\ client' = [client EXCEPT ![c].timer = EffectiveTimeout(client[c].left)]
    /\ answers' = {a \in answers : a.request # Request(c)}
    /\ UNCHANGED <<server, took, ended>>

(* PolicyTimeoutError. The request stays with the server.                    *)
Timeout(c) ==
    /\ client[c].phase = "calling" /\ client[c].timer = 0
    /\ RolloutEnds(c, IF client[c].deadline THEN "wall_time_budget" ELSE "policy_error", "timeout")
    /\ answers' = {a \in answers : a.request # Request(c)}
    /\ UNCHANGED server

-----------------------------------------------------------------------------
(* The server                                                                *)

Answer(r, kind) == [request |-> r, kind |-> kind, identity |-> serving, seed |-> seeded]

(* An answer nobody waits for is dropped with its connection.                *)
Send(r, kind) ==
    answers' = IF client[r.client].phase = "calling" /\ Request(r.client) = r
               THEN answers \cup {Answer(r, kind)}
               ELSE answers

Acquire_NoLock(r) ==
    /\ r \in waiting
    /\ waiting' = waiting \ {r} /\ lock' = TRUE
    /\ generating' = generating \cup {r} /\ seeded' = r
    /\ UNCHANGED <<serving, restarts, answers, client, took, ended>>

(* execute_request and TransformersPolicy.act, up to the generation.         *)
Acquire(r) ==
    /\ r \in waiting /\ ~lock
    /\ waiting' = waiting \ {r} /\ lock' = TRUE
    /\ generating' = generating \cup {r} /\ seeded' = r
    /\ UNCHANGED <<serving, restarts, answers, client, took, ended>>

(* The context is too long: the error leaves execute_request, as HTTP 500.   *)
Overflow(r) ==
    /\ r \in waiting /\ ~lock
    /\ waiting' = waiting \ {r}
    /\ Send(r, "overflow")
    /\ UNCHANGED <<serving, lock, generating, seeded, restarts, client, took, ended>>

Generated(r) ==
    /\ r \in generating
    /\ generating' = generating \ {r} /\ lock' = FALSE
    /\ Send(r, "step")
    /\ UNCHANGED <<serving, waiting, seeded, restarts, client, took, ended>>

GenerationFails_KeepsLock(r) ==
    /\ r \in generating
    /\ generating' = generating \ {r} /\ lock' = TRUE
    /\ Send(r, "error")
    /\ UNCHANGED <<serving, waiting, seeded, restarts, client, took, ended>>

GenerationFails(r) ==
    /\ r \in generating
    /\ generating' = generating \ {r} /\ lock' = FALSE
    /\ Send(r, "error")
    /\ UNCHANGED <<serving, waiting, seeded, restarts, client, took, ended>>

(* The process is stopped, or dies, with everything it holds; answers it had *)
(* sent may arrive or not.                                                   *)
Stop ==
    /\ serving # NoPolicy
    /\ serving' = NoPolicy /\ waiting' = {} /\ lock' = FALSE /\ generating' = {}
    /\ seeded' = Nothing
    /\ answers' \in {answers, {}}
    /\ UNCHANGED <<restarts, client, took, ended>>

Start ==
    /\ serving = NoPolicy /\ restarts < MaxRestarts
    /\ serving' \in Identities /\ restarts' = restarts + 1
    /\ UNCHANGED <<waiting, lock, generating, seeded, answers, client, took, ended>>

-----------------------------------------------------------------------------
(* Time passes, unless a timeout is due. A generation takes any time.        *)
Passed(c) ==
    LET state == client[c] IN
    CASE state.phase = "calling" ->
           [state EXCEPT !.timer = @ - 1, !.left = @ - 1,
                         !.behind = @ \/ (Request(c) \in waiting /\ lock)]
      [] state.phase = "idle" /\ state.left > 0 -> [state EXCEPT !.left = @ - 1]
      [] OTHER -> state

Tick ==
    /\ \A c \in Clients : client[c].phase = "calling" => client[c].timer > 0
    /\ client' = [c \in Clients |-> Passed(c)]
    /\ UNCHANGED <<server, answers, took, ended>>

ClientStep(c) ==
    \/ Connect(c) \/ Ask(c) \/ AskFails(c) \/ Finish(c)
    \/ Accept(c) \/ Reject(c) \/ ConnectionLost(c) \/ Timeout(c)

Serve ==
    \/ \E r \in waiting : Acquire(r) \/ Overflow(r)
    \/ \E r \in generating : Generated(r) \/ GenerationFails(r)

Next == (\E c \in Clients : ClientStep(c)) \/ Serve \/ Stop \/ Start \/ Tick

Spec == Init /\ [][Next]_vars

(* Time passes and urllib gives up on a socket when its timeout is over; of  *)
(* the server nothing is assumed.                                            *)
FairClients == Spec /\ WF_vars(Tick) /\ \A c \in Clients : WF_vars(ClientStep(c))

(* A free lock is taken by some thread that waits for it, and the number of  *)
(* new tokens bounds a generation.                                           *)
FairServer == WF_vars(Serve)

-----------------------------------------------------------------------------
(* Properties                                                                *)

Requests == [client : Clients, rollout : 1..MaxRollouts, call : 0..MaxCalls]

(* The values of the variables; a call never has more time than its rollout, *)
(* and the lock is held by whoever generates.                                *)
TypeOK ==
    /\ serving \in Identities \cup {NoPolicy}
    /\ Held \subseteq Requests /\ Cardinality(generating) <= 1
    /\ lock = (generating # {})
    /\ restarts \in 0..MaxRestarts
    /\ \A a \in answers : a.request \in Requests /\ a.kind \in {"step", "overflow", "error"}
    /\ \A c \in Clients :
         /\ client[c].phase \in {"new", "failed", "idle", "calling", "done"}
         /\ client[c].left \in 0..TaskTime
         /\ client[c].phase = "calling" => client[c].timer \in 0..client[c].left

(* Every step a collector accepts, in every rollout of its run, was sampled  *)
(* from the policy it found when it began, whatever was served meanwhile.    *)
StepsAreThePolicys ==
    \A c \in Clients : took[c] # Nothing =>
        /\ took[c].identity = client[c].policy
        /\ took[c].identity \in Expected

(* A sampled step depends on its own request and seed only: no request that  *)
(* came in between, one that was given up by its client included, reseeded   *)
(* the generator it was drawn from.                                          *)
StepsAreReproducible ==
    \A c \in Clients : took[c] # Nothing => took[c].seed = took[c].request

(* A call that times out ends its rollout by the wall-time budget exactly    *)
(* when the budget is spent, down to the case that both timeouts are the     *)
(* same; any other timeout is the server's failure.                          *)
DeadlinesAreTold ==
    \A c \in Clients : ended[c] # Nothing /\ ended[c].cause = "timeout" =>
        (ended[c].reason = "wall_time_budget" <=> ended[c].left = 0)

(* A step that is recorded is the work of the policy the rollout names, made *)
(* from the rollout's own seed and steps, and a deadline that passed while   *)
(* the server held the call is told as one.                                  *)
StepsAreFaithful ==
    /\ StepsAreThePolicys
    /\ StepsAreReproducible
    /\ DeadlinesAreTold

(* Every call returns, whatever becomes of the server.                       *)
CallsEnd == \A c \in Clients : client[c].phase = "calling" ~> client[c].phase # "calling"

(* A server that works gets rid of every request it holds, failed and        *)
(* abandoned ones included.                                                  *)
RequestsAreServed == FairServer => \A r \in Requests : r \in Held ~> r \notin Held

(* Said of the program: a rollout that its wall-time budget ended was slow   *)
(* itself (docs/ARCHITECTURE.md:280), it did not wait behind another         *)
(* collector's request or one its own earlier rollout had given up.          *)
DeadlinesAreTheAgents ==
    \A c \in Clients :
        ended[c] # Nothing /\ ended[c].reason = "wall_time_budget" => ~ended[c].behind

(* Said of the program: a context overflow is a failure of the policy, told  *)
(* from a failure of the server (docs/ARCHITECTURE.md:281).                  *)
OverflowsAreTold ==
    \A c \in Clients :
        ended[c] # Nothing /\ ended[c].cause = "overflow" => ended[c].reason = "context_budget"
=============================================================================
