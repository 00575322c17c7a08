----------------------------- MODULE Conversation -----------------------------
(* The conversation of a rollout (agent/runner.py): how it is compacted      *)
(* before each call of the policy, how it is replayed from the recorded      *)
(* events (replay_messages), and how the replay becomes labelled tokens for  *)
(* supervised training (training/sft.py).                                    *)
(*                                                                           *)
(* A message is its role, its turn and its size; a cut message holds a       *)
(* marker in the place of its middle. Truncation gives exactly the size      *)
(* asked for, as it does for ASCII.                                          *)
EXTENDS Integers, Sequences, SequencesExt

CONSTANTS
    MaxBytes,         \* max_conversation_bytes
    Overhead,         \* what a message counts besides its content
    IssueFloor,       \* the issue is first cut no shorter than this,
    MessageFloor,     \* any message, in the end, no shorter than this
    MaxSteps,
    SystemSize, ParserErrorSize,
    IssueSizes, ReplySizes, ObservationSizes,
    MaxLength         \* of a training record, in tokens

ASSUME ConversationAssumption ==
    /\ {MaxBytes, Overhead, IssueFloor, MessageFloor, MaxSteps, SystemSize,
        ParserErrorSize, MaxLength} \subseteq Nat
    /\ IssueSizes \cup ReplySizes \cup ObservationSizes \subseteq Nat
    /\ MessageFloor > 0 /\ SystemSize > MessageFloor /\ IssueFloor >= MessageFloor
    /\ SystemSize + 3 * MessageFloor + 4 * Overhead <= MaxBytes

VARIABLES
    issue,     \* the size of the task's issue
    messages,  \* what the runner keeps
    events,    \* what it records
    saw,       \* the context of each call of the policy
    talking,
    record,    \* the messages of the training record
    labelled   \* the record's tokens, and the positions of those that are trained

conversationVars == <<issue, messages, events, saw, talking, record, labelled>>

Message(role, turn, size) == [role |-> role, turn |-> turn, size |-> size, cut |-> FALSE]

InitialMessages == <<Message("system", 0, SystemSize), Message("user", 0, issue)>>

NoTokens == [ids |-> <<>>, labels |-> {}]

ConversationInit ==
    /\ issue \in IssueSizes /\ messages = InitialMessages
    /\ events = <<>> /\ saw = <<>> /\ talking = "running"
    /\ record = <<>> /\ labelled = NoTokens

-----------------------------------------------------------------------------
(* Compaction                                                                *)

AtLeast(a, b) == IF a >= b THEN a ELSE b

(* _conversation_bytes, of the first i messages                              *)
BytesUpTo(ms) ==
    LET bytes[i \in 0 .. Len(ms)] ==
            IF i = 0 THEN 0 ELSE bytes[i - 1] + ms[i].size + Overhead
    IN  bytes

Bytes(ms) == BytesUpTo(ms)[Len(ms)]

Fits(ms) == Bytes(ms) <= MaxBytes

Excess(ms) == Bytes(ms) - MaxBytes

(* _truncate_middle_bytes                                                    *)
Cut(m, limit) == IF m.size <= limit THEN m ELSE [m EXCEPT !.size = limit, !.cut = TRUE]

CutAt(ms, i, floor) == [ms EXCEPT ![i] = Cut(@, AtLeast(floor, @.size - Excess(ms)))]

(* The oldest turns go first, the last one stays.                            *)
WithoutOldest(ms, n) == SubSeq(ms, 1, 2) \o SubSeq(ms, 3 + 2 * n, Len(ms))

DropTurns(ms) ==
    LET enough == {n \in 0 .. Len(ms) :
            Len(WithoutOldest(ms, n)) <= 4 \/ Fits(WithoutOldest(ms, n))}
    IN  WithoutOldest(ms, CHOOSE n \in enough : \A k \in enough : n <= k)

CutIssue(ms) == IF Fits(ms) THEN ms ELSE CutAt(ms, 2, IssueFloor)

(* Then the largest message but the system's is cut, the later of two alike. *)
Larger(ms, i, j) == ms[i].size > ms[j].size \/ (ms[i].size = ms[j].size /\ i >= j)

CutOne(ms) ==
    LET candidates == {i \in 2 .. Len(ms) : ms[i].size > MessageFloor} IN
    IF Fits(ms) \/ candidates = {} THEN ms
    ELSE CutAt(ms, CHOOSE i \in candidates : \A j \in candidates : Larger(ms, i, j), MessageFloor)

(* Until all fit, or until none is left to cut and the code raises. A cut    *)
(* makes all fit or leaves one more message at the floor: there are no more  *)
(* cuts than messages.                                                       *)
CutLargest(ms) ==
    LET after[i \in 0 .. Len(ms)] == IF i = 0 THEN ms ELSE CutOne(after[i - 1])
    IN  after[Len(ms)]

Compact(ms) == CutLargest(CutIssue(DropTurns(ms)))

-----------------------------------------------------------------------------
(* The rollout                                                               *)

Event(kind, reply, observation) == [kind |-> kind, reply |-> reply, observation |-> observation]

Exchange(turn, e) == <<Message("assistant", turn, e.reply), Message("tool", turn, e.observation)>>

(* One iteration of AgentRunner.run: the policy is asked, its reply judged,  *)
(* the tool run. A reply over the limit is recorded and ends the rollout; so *)
(* may a budget after any other, and finish always does.                     *)
Turn ==
    LET turn == Len(events) + 1
        context == Compact(messages)
    IN
    /\ talking = "running" /\ turn <= MaxSteps
    /\ Fits(context)
    /\ saw' = Append(saw, context)
    /\ \E reply \in ReplySizes :
         \/ \E size \in ObservationSizes :
              LET e == Event("action", reply, size) IN
              /\ events' = Append(events, e) /\ messages' = context \o Exchange(turn, e)
              /\ talking' \in {"running", "ended"}
         \/ LET e == Event("malformed", reply, ParserErrorSize) IN
              /\ events' = Append(events, e) /\ messages' = context \o Exchange(turn, e)
              /\ talking' \in {"running", "ended"}
         \/ /\ events' = Append(events, Event("malformed", reply, ParserErrorSize))
            /\ messages' = context /\ talking' = "ended"
    /\ UNCHANGED <<issue, record, labelled>>

(* The policy fails, or a budget ends the rollout before it is asked.        *)
End ==
    /\ talking = "running" /\ talking' = "ended"
    /\ UNCHANGED <<issue, messages, events, saw, record, labelled>>

-----------------------------------------------------------------------------
(* The training record                                                       *)

(* replay_messages                                                           *)
ReplayFrom(start, recorded) ==
    LET after[i \in 0 .. Len(recorded)] ==
            IF i = 0 THEN start ELSE Compact(after[i - 1]) \o Exchange(i, recorded[i])
    IN  after[Len(recorded)]

Replay_CompactsAtTheEnd(recorded) ==
    LET after[i \in 0 .. Len(recorded)] ==
            IF i = 0 THEN InitialMessages ELSE after[i - 1] \o Exchange(i, recorded[i])
    IN  Compact(after[Len(recorded)])

Replay(recorded) == ReplayFrom(InitialMessages, recorded)

Malformed(e) == e.kind = "malformed"

(* trajectory_to_sft_record                                                  *)
Convert ==
    /\ talking = "ended" /\ \A i \in DOMAIN events : ~Malformed(events[i])
    /\ record' = Replay(events) /\ talking' = "record"
    /\ UNCHANGED <<issue, messages, events, saw, labelled>>

-----------------------------------------------------------------------------
(* Tokens                                                                    *)

Templates == {"stable", "rewriting"}

Token(part, m, n) == [part |-> part, role |-> m.role, turn |-> m.turn, n |-> n]

(* How a chat template writes a message: a header, the content, an end. Some *)
(* templates write a turn of the assistant otherwise when more turns follow. *)
Written(m, short) ==
    <<[part |-> "header", role |-> m.role]>>
    \o [n \in 1 .. (IF short THEN m.size - 1 ELSE m.size) |-> Token("content", m, n)]
    \o <<Token("end", m, 0)>>

WrittenAt(ms, i, template) ==
    Written(ms[i], /\ template = "rewriting" /\ ms[i].role = "assistant"
                   /\ \E j \in i + 1 .. Len(ms) : ms[j].role = "assistant")

RenderedUpTo(ms, template) ==
    LET ids[i \in 0 .. Len(ms)] ==
            IF i = 0 THEN <<>> ELSE ids[i - 1] \o WrittenAt(ms, i, template)
    IN  ids

Rendered(ms, template) == RenderedUpTo(ms, template)[Len(ms)]

GenerationPrompt == <<[part |-> "header", role |-> "assistant"]>>

Assistants(ms) == {i \in DOMAIN ms : ms[i].role = "assistant"}

Prompt(ms, i, template) == Rendered(SubSeq(ms, 1, i - 1), template) \o GenerationPrompt

Through(ms, i, template) == Rendered(SubSeq(ms, 1, i), template)

(* The tests of tokenize_sft_record: the prompt is a prefix of the turn it   *)
(* leads to, and each turn's rendering one of the whole record's.            *)
Tokenizable(ms, template) ==
    /\ Assistants(ms) # {}
    /\ Len(Rendered(ms, template)) <= MaxLength
    /\ \A i \in Assistants(ms) :
         /\ IsPrefix(Prompt(ms, i, template), Through(ms, i, template))
         /\ IsPrefix(Through(ms, i, template), Rendered(ms, template))

Labels(ms, template) ==
    UNION {Len(Prompt(ms, i, template)) + 1 .. Len(Through(ms, i, template)) : i \in Assistants(ms)}

(* build_dataset; a record that is refused is written to a report.           *)
Tokenize ==
    /\ talking = "record"
    /\ \E template \in Templates :
         IF Tokenizable(record, template)
         THEN talking' = "trained" /\ labelled' = [ids |-> Rendered(record, template),
                                              labels |-> Labels(record, template)]
         ELSE talking' = "rejected" /\ UNCHANGED labelled
    /\ UNCHANGED <<issue, messages, events, saw, record>>

ConversationNext == Turn \/ End \/ Convert \/ Tokenize

ConversationSpec == ConversationInit /\ [][ConversationNext]_conversationVars

-----------------------------------------------------------------------------
(* Properties                                                                *)

(* The values of the variables; no message is larger than what it is of.     *)
ConversationTypeOK ==
    /\ issue \in IssueSizes
    /\ talking \in {"running", "ended", "record", "trained", "rejected"}
    /\ Len(events) <= MaxSteps /\ Len(saw) = Len(events)
    /\ \A i \in DOMAIN messages : LET m == messages[i] IN
         /\ m.role \in {"system", "user", "assistant", "tool"} /\ m.turn \in 0 .. Len(events)
         /\ m.role = "user" => m.size <= issue
         /\ m.role = "assistant" => m.size <= events[m.turn].reply
         /\ m.role = "tool" => m.size <= events[m.turn].observation
    /\ labelled.labels \subseteq DOMAIN labelled.ids

(* No conversation defeats the compaction, whatever sizes the issue, the     *)
(* replies and the observations have.                                        *)
CompactionNeverFails == Fits(Compact(messages))

(* What is left of a message: all of it, or at least the floor.              *)
Kept(m, size) == m.size = size \/ m.size >= MessageFloor

(* The policy always sees the whole system message, the issue, and, when a   *)
(* turn went before, the newest turn, each in full or down to the floor, all *)
(* within the bound; the turns it sees follow one another.                   *)
TaskAndNewestTurnAreSeen ==
    \A k \in DOMAIN saw : LET context == saw[k] IN
        /\ Fits(context)
        /\ context[1] = Message("system", 0, SystemSize)
        /\ context[2].role = "user" /\ Kept(context[2], issue)
        /\ k > 1 =>
             /\ Last(context).role = "tool" /\ Last(context).turn = k - 1
             /\ Kept(Last(context), events[k - 1].observation)
             /\ Kept(context[Len(context) - 1], events[k - 1].reply)
        /\ \A i \in 5 .. Len(context) : context[i].turn = context[i - 2].turn + 1

(* The replay of the recorded events shows, before each of its turns, the    *)
(* very context the policy saw there, repeated compactions included.         *)
ReplayIsWhatWasSeen ==
    talking = "record" =>
        \A k \in DOMAIN saw :
            Compact(Replay(SubSeq(events, 1, k - 1))) = saw[k]

(* The tokens that are trained are exactly those of the assistant's turns:   *)
(* not one of the headers, the issue or an observation, under any template.  *)
OnlyTurnsAreTrained ==
    talking = "trained" =>
        \A p \in DOMAIN labelled.ids :
            p \in labelled.labels <=>
                labelled.ids[p].role = "assistant" /\ labelled.ids[p].part # "header"

(* Compaction and training keep the conversation: it always fits and shows   *)
(* the task and the newest turn, the training's replay is what the policy    *)
(* saw, and only the policy's own turns are trained on.                      *)
ConversationIsKept ==
    /\ CompactionNeverFails
    /\ TaskAndNewestTurnAreSeen
    /\ ReplayIsWhatWasSeen
    /\ OnlyTurnsAreTrained

(* Said of the program: training is "only on assistant message and tool-call *)
(* tokens" (docs/EXPERIMENT_PROTOCOL.md:196): what is trained as a turn is   *)
(* what the policy wrote, not what a compaction put in the place of a part.  *)
TrainedTurnsAreWhole ==
    talking = "trained" => \A i \in Assistants(record) : ~record[i].cut
=============================================================================
