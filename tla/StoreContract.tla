---------------------------- MODULE StoreContract ----------------------------
(* What the artifact and trajectory stores promise: a name is given its      *)
(* content once, as a whole, and what a writer was told is so.               *)
CONSTANTS Writers, Names, Payloads, Nothing, Outcomes

VARIABLES
    content,  \* name -> what is stored under it
    told      \* writer -> the outcome of its last operation

Init == content = [n \in Names |-> Nothing] /\ told = [w \in Writers |-> Nothing]

Store(n, p) ==
    /\ content[n] = Nothing
    /\ content' = [content EXCEPT ![n] = p]
    /\ UNCHANGED told

Answers == [name : Names, payload : Payloads, outcome : Outcomes]

(* A writer may be told whatever is true.                                    *)
Tell(w) ==
    LET answer == told'[w] IN
    /\ answer \in Answers
    /\ answer.outcome = "stored" => content[answer.name] = answer.payload
    /\ answer.outcome = "collision" => content[answer.name] # Nothing
    /\ told' = [told EXCEPT ![w] = answer]
    /\ UNCHANGED content

Next ==
    \/ \E n \in Names, p \in Payloads : Store(n, p)
    \/ \E w \in Writers : Tell(w)

Spec == Init /\ [][Next]_<<content, told>>
=============================================================================
