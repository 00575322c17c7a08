------------------------------ MODULE TaskProofs ------------------------------
(* Proofs about the task modules: the publication of task files, the         *)
(* admission of a task, its preparation, the dataset it is imported into and *)
(* the policy a patch is judged by. Each part has an inductive invariant of  *)
(* its own; none mentions another part's variables.                          *)
EXTENDS MCTasks, FiniteSetTheorems, TLAPS

-----------------------------------------------------------------------------
(* Publication                                                               *)

-----------------------------------------------------------------------------
(* The inductive invariant                                                   *)

(* Which targets a writer has linked is known from where it is; metadata     *)
(* comes last, and no writer that linked it rolls back.                      *)
Progress(w) ==
    /\ pc[w] \in {"start", "write"} => published[w] = {}
    /\ pc[w] = "link" => published[w] = 1 .. (next[w] - 1)
    /\ pc[w] \in {"rollback", "abort"} => N \notin published[w]
    /\ pc[w] \in {"sweep", "done"} => N \in published[w]
    /\ N \in published[w] => published[w] = Files /\ pc[w] \in Ended \union {"sweep"}

(* The directory holds exactly what the writers remember having linked.      *)
Owned(w) == \A f \in Files : dir[f] = w <=> f \in published[w]

WritersInv == \A w \in Writers : Progress(w) /\ Owned(w)

(* The reader holds a seal that is still in the directory, and all it loaded *)
(* so far is of the seal's writer.                                           *)
ReaderInv ==
    /\ reader \in {"hash", "load"} => at < N /\ seal # Nobody
    /\ reader = "accepts" => seal # Nobody
    /\ seal # Nobody => dir[N] = seal
    /\ reader \in {"hash", "load"} => \A f \in 1 .. (at - 1) : loaded[f] = seal
    /\ reader = "accepts" => \A f \in 1 .. (N - 1) : loaded[f] = seal

PublicationInv == TypeOK /\ WritersInv /\ ReaderInv

LEMMA PublicationInitInv == Init => PublicationInv
  BY FilesAssumption
  DEF FilesAssumption, Init, PublicationInv, TypeOK, WritersInv, Progress, Owned, ReaderInv, Files, Ended

-----------------------------------------------------------------------------
(* Consequences                                                              *)

LEMMA Sealed == TypeOK /\ WritersInv => SealedIsComplete
  BY FilesAssumption
  DEF FilesAssumption, TypeOK, WritersInv, Progress, Owned, SealedIsComplete, Files

LEMMA SealIsWhole == PublicationInv => AcceptedIsWhole
  BY FilesAssumption
  DEF FilesAssumption, PublicationInv, TypeOK, ReaderInv, AcceptedIsWhole, Files

LEMMA OutcomeTrue == TypeOK /\ WritersInv => OutcomeIsTrue
  BY FilesAssumption
  DEF FilesAssumption, TypeOK, WritersInv, Progress, Owned, OutcomeIsTrue, Files

-----------------------------------------------------------------------------
(* Steps                                                                     *)

LEMMA TypeStep == TypeOK /\ ReaderInv /\ [Next]_vars => TypeOK'
<1> SUFFICES ASSUME TypeOK, ReaderInv, [Next]_vars PROVE TypeOK'
  OBVIOUS
<1> USE FilesAssumption DEF FilesAssumption, TypeOK, Files, Goto, Ended
<1>1. ASSUME NEW w \in Writers, Writer(w) PROVE TypeOK'
  <2>1. CASE Begin(w)
    <3>1. \E where \in {"write", "failed"} : pc' = [pc EXCEPT ![w] = where]
      BY <2>1 DEF Begin
    <3> QED
      BY <2>1, <3>1 DEF Begin, reading
  <2>2. CASE WriteTemporary(w)
    <3>1. next[w] = N \/ next[w] + 1 \in Files
      OBVIOUS
    <3>2. CASE next[w] = N
      <4>1. next' = [next EXCEPT ![w] = 1] /\ pc' = [pc EXCEPT ![w] = "link"]
        BY <2>2, <3>2 DEF WriteTemporary
      <4> QED
        BY <2>2, <4>1 DEF WriteTemporary, reading
    <3>3. CASE next[w] # N
      <4>1. next' = [next EXCEPT ![w] = next[w] + 1] /\ pc' = pc
        BY <2>2, <3>3 DEF WriteTemporary
      <4> QED
        BY <2>2, <3>1, <3>3, <4>1 DEF WriteTemporary, reading
    <3> QED
      BY <3>2, <3>3
  <2>3. CASE WriteFails(w)
    <3>1. temps' = temps \/ temps' = [temps EXCEPT ![w] = @ \union {next[w]}]
      BY <2>3 DEF WriteFails
    <3>2. temps' \in [Writers -> SUBSET Files]
      <4>1. temps[w] \union {next[w]} \in SUBSET Files
        OBVIOUS
      <4> QED
        BY <3>1, <4>1
    <3>3. pc' \in [Writers -> {"start", "write", "link", "rollback", "sweep", "abort"} \union Ended]
      BY <2>3 DEF WriteFails
    <3> QED
      BY <2>3, <3>2, <3>3 DEF WriteFails, reading
  <2>4. CASE Link(w)
    <3>1. next[w] = N \/ next[w] + 1 \in Files
      OBVIOUS
    <3>2. CASE next[w] = N
      <4>1. next' = next /\ pc' = [pc EXCEPT ![w] = "sweep"]
        BY <2>4, <3>2 DEF Link
      <4> QED
        BY <2>4, <4>1 DEF Link, reading
    <3>3. CASE next[w] # N
      <4>1. next' = [next EXCEPT ![w] = next[w] + 1] /\ pc' = pc
        BY <2>4, <3>3 DEF Link
      <4> QED
        BY <2>4, <3>1, <3>3, <4>1 DEF Link, reading
    <3> QED
      BY <3>2, <3>3
  <2>5. CASE LinkFails(w)
    BY <2>5 DEF LinkFails, reading
  <2>6. CASE Rollback(w)
    <3>1. CASE published[w] = {}
      BY <2>6, <3>1 DEF Rollback, reading
    <3>2. CASE published[w] # {}
      <4>1. PICK f \in published[w] : /\ dir' = [dir EXCEPT ![f] = Nobody]
                                      /\ published' = [published EXCEPT ![w] = @ \ {f}]
        BY <2>6, <3>2 DEF Rollback
      <4>2. dir' \in [Files -> Writers \union {Nobody}] /\ published' \in [Writers -> SUBSET Files]
        BY <4>1
      <4> QED
        BY <2>6, <3>2, <4>2 DEF Rollback, reading
    <3> QED
      BY <3>1, <3>2
  <2>7. CASE RollbackFails(w)
    BY <2>7 DEF RollbackFails, reading
  <2>8. CASE Sweep(w)
    <3>1. CASE temporary[w] = {} /\ Goto(w, Outcome[pc[w]]) /\ UNCHANGED <<temps, temporary>>
      <4>1. Outcome[pc[w]] \in {"done", "failed"}
        BY <2>8 DEF Sweep, Outcome
      <4> HIDE DEF Outcome
      <4> QED
        BY <2>8, <3>1, <4>1 DEF Sweep, reading
    <3>2. CASE ~(temporary[w] = {} /\ Goto(w, Outcome[pc[w]]) /\ UNCHANGED <<temps, temporary>>)
      <4>1. PICK f \in temporary[w] :
              /\ temps' = [temps EXCEPT ![w] = @ \ {f}]
              /\ temporary' = [temporary EXCEPT ![w] = @ \ {f}]
              /\ UNCHANGED pc
        BY <2>8, <3>2 DEF Sweep
      <4>2. temps' \in [Writers -> SUBSET Files] /\ temporary' \in [Writers -> SUBSET Files]
        BY <4>1
      <4> QED
        BY <2>8, <4>1, <4>2 DEF Sweep, reading
    <3> QED
      BY <3>1, <3>2
  <2>9. CASE SweepFails(w)
    BY <2>9 DEF SweepFails, reading
  <2>10. CASE Kill(w)
    <3>1. temps' = temps \/ temps' = [temps EXCEPT ![w] = @ \union {next[w]}]
      BY <2>10 DEF Kill
    <3>2. temps' \in [Writers -> SUBSET Files]
      <4>1. temps[w] \union {next[w]} \in SUBSET Files
        OBVIOUS
      <4> QED
        BY <3>1, <4>1
    <3>3. pc' \in [Writers -> {"start", "write", "link", "rollback", "sweep", "abort"} \union Ended]
      BY <2>10 DEF Kill
    <3> QED
      BY <2>10, <3>2, <3>3 DEF Kill, reading
  <2> QED
    BY <1>1, <2>1, <2>2, <2>3, <2>4, <2>5, <2>6, <2>7, <2>8, <2>9, <2>10 DEF Writer
<1>2. CASE ReadMetadata
  BY <1>2 DEF ReadMetadata, writing
<1>3. CASE HashFile
  BY <1>3 DEF HashFile, writing
<1>4. CASE LoadFile
  <2>1. at + 1 \in Files /\ at' = at + 1
    BY <1>4 DEF LoadFile, ReaderInv
  <2>2. loaded' \in [Files -> Writers \union {Nobody}]
    BY <1>4 DEF LoadFile
  <2>3. reader' \in {"rejects", "accepts", "hash"}
    BY <1>4 DEF LoadFile
  <2> QED
    BY <1>4, <2>1, <2>2, <2>3 DEF LoadFile, writing
<1>5. CASE ReadAgain
  BY <1>5 DEF ReadAgain, writing
<1>6. CASE UNCHANGED vars
  BY <1>6 DEF vars, writing, reading
<1> QED
  BY <1>1, <1>2, <1>3, <1>4, <1>5, <1>6 DEF Next, Reader

(* The first n files are the first n - 1 and the nth.                        *)
LEMMA FirstFilesGrow ==
    ASSUME NEW n \in Nat \ {0}
    PROVE  (1 .. (n - 1)) \union {n} = 1 .. ((n + 1) - 1)
  OBVIOUS

(* What a step of writer w does to directory and memories: nothing, one more *)
(* file of its own, or one fewer.                                            *)
LEMMA WriterStep ==
  ASSUME TypeOK, WritersInv, NEW w \in Writers, Writer(w)
  PROVE  WritersInv' /\ (dir[N] # Nobody => dir'[N] = dir[N])
                     /\ (dir'[N] # dir[N] => dir'[N] = w)
<1> USE FilesAssumption DEF FilesAssumption, TypeOK, WritersInv, Progress, Owned, Files, Goto, Ended
<1>1. CASE Begin(w)
  <2>1. \E where \in {"write", "failed"} : pc' = [pc EXCEPT ![w] = where]
    BY <1>1 DEF Begin
  <2>2. UNCHANGED <<dir, published, next>> /\ pc[w] = "start"
    BY <1>1 DEF Begin
  <2>3. \A v \in Writers : IF v = w THEN pc'[v] \in {"write", "failed"} ELSE pc'[v] = pc[v]
    BY <2>1
  <2>4. published[w] = {}
    BY <2>2
  <2>5. \A v \in Writers : Owned(v)'
    BY <2>2
  <2>6. \A v \in Writers : Progress(v)'
    BY <2>2, <2>3, <2>4
  <2> QED
    BY <2>2, <2>5, <2>6
<1>2. CASE WriteTemporary(w)
  <2>1. UNCHANGED <<dir, published>> /\ pc[w] = "write"
    BY <1>2 DEF WriteTemporary
  <2>2. published[w] = {}
    BY <2>1
  <2>3. \A v \in Writers : Owned(v)'
    BY <2>1
  <2>4. CASE next[w] = N
    <3>1. /\ \A v \in Writers : pc'[v] = IF v = w THEN "link" ELSE pc[v]
          /\ \A v \in Writers : next'[v] = IF v = w THEN 1 ELSE next[v]
      BY <1>2, <2>4 DEF WriteTemporary
    <3>2. \A v \in Writers : Progress(v)'
      <4>1. Progress(w)'
        BY <2>1, <2>2, <3>1
      <4>2. ASSUME NEW v \in Writers, v # w PROVE Progress(v)'
        BY <2>1, <3>1, <4>2
      <4> QED
        BY <4>1, <4>2
    <3> QED
      BY <2>1, <2>3, <3>2
  <2>5. CASE next[w] # N
    <3>1. pc' = pc /\ \A v \in Writers : v # w => next'[v] = next[v]
      BY <1>2, <2>5 DEF WriteTemporary
    <3>2. \A v \in Writers : Progress(v)'
      BY <2>1, <2>2, <3>1
    <3> QED
      BY <2>1, <2>3, <3>2
  <2> QED
    BY <2>4, <2>5
<1>3. CASE WriteFails(w)
  BY <1>3 DEF WriteFails, reading
<1>4. CASE Link(w)
  <2>1. \A f \in Files : dir'[f] = IF f = next[w] THEN w ELSE dir[f]
    BY <1>4 DEF Link
  <2>2. \A v \in Writers : published'[v] = IF v = w THEN published[w] \union {next[w]} ELSE published[v]
    BY <1>4 DEF Link
  <2>3. published[w] = 1 .. (next[w] - 1)
    BY <1>4 DEF Link
  <2>4. dir[next[w]] = Nobody /\ next[w] \in Files /\ pc[w] = "link"
    BY <1>4 DEF Link
  <2>5. \A v \in Writers : Owned(v)'
    <3>1. ASSUME NEW v \in Writers, NEW f \in Files
          PROVE  dir'[f] = v <=> f \in published'[v]
      <4>1. CASE f = next[w]
        BY <2>1, <2>2, <2>4, <4>1
      <4>2. CASE f # next[w]
        <5>1. dir'[f] = dir[f]
          BY <2>1, <4>2
        <5>2. f \in published'[v] <=> f \in published[v]
          <6>1. CASE v = w
            <7>1. published'[v] = published[v] \union {next[w]}
              BY <2>2, <6>1
            <7> QED
              BY <4>2, <7>1
          <6>2. CASE v # w
            BY <2>2, <6>2
          <6> QED
            BY <6>1, <6>2
        <5> QED
          BY <5>1, <5>2
      <4> QED
        BY <4>1, <4>2
    <3> QED
      BY <3>1
  <2>6. CASE next[w] = N
    <3>1. next' = next /\ \A v \in Writers : pc'[v] = IF v = w THEN "sweep" ELSE pc[v]
      BY <1>4, <2>6 DEF Link
    <3>2. published'[w] = Files
      <4>1. published'[w] = (1 .. (N - 1)) \union {N}
        BY <2>2, <2>3, <2>6
      <4> QED
        BY <4>1
    <3>3. \A v \in Writers : Progress(v)'
      BY <2>2, <3>1, <3>2
    <3> QED
      BY <2>1, <2>4, <2>5, <3>3
  <2>7. CASE next[w] # N
    <3>1. /\ pc' = pc
          /\ \A v \in Writers : next'[v] = IF v = w THEN next[v] + 1 ELSE next[v]
      BY <1>4, <2>7 DEF Link
    <3>2. published'[w] = 1 .. (next'[w] - 1) /\ N \notin published'[w]
      <4>1. published'[w] = (1 .. (next[w] - 1)) \union {next[w]}
        BY <2>2, <2>3
      <4>2. next'[w] = next[w] + 1 /\ next[w] \in 1 .. (N - 1)
        BY <2>4, <2>7, <3>1
      <4>3. published'[w] = 1 .. (next'[w] - 1)
        BY <4>1, <4>2, FirstFilesGrow
      <4>4. N \notin 1 .. (next'[w] - 1)
        BY <4>2
      <4> QED
        BY <4>3, <4>4
    <3>3. \A v \in Writers : Progress(v)'
      <4>1. Progress(w)'
        BY <2>4, <3>1, <3>2
      <4>2. ASSUME NEW v \in Writers, v # w PROVE Progress(v)'
        BY <2>2, <3>1, <4>2
      <4> QED
        BY <4>1, <4>2
    <3> QED
      BY <2>1, <2>4, <2>5, <2>7, <3>3
  <2> QED
    BY <2>6, <2>7
<1>5. CASE LinkFails(w)
  BY <1>5 DEF LinkFails, reading
<1>6. CASE Rollback(w)
  <2>1. CASE published[w] = {}
    BY <1>6, <2>1 DEF Rollback
  <2>2. CASE published[w] # {}
    <3>1. PICK f \in published[w] : /\ dir' = [dir EXCEPT ![f] = Nobody]
                                    /\ published' = [published EXCEPT ![w] = @ \ {f}]
      BY <1>6, <2>2 DEF Rollback
    <3>2. N \notin published[w] /\ f # N /\ dir[f] = w
      BY <1>6, <3>1 DEF Rollback
    <3>3. \A g \in Files : dir'[g] = IF g = f THEN Nobody ELSE dir[g]
      BY <3>1
    <3>4. \A v \in Writers : published'[v] = IF v = w THEN published[w] \ {f} ELSE published[v]
      BY <3>1
    <3>5. \A v \in Writers : Owned(v)'
      BY <3>2, <3>3, <3>4
    <3>6. \A v \in Writers : Progress(v)'
      BY <1>6, <2>2, <3>2, <3>4 DEF Rollback
    <3>7. dir'[N] = dir[N]
      <4>1. N \in Files
        OBVIOUS
      <4> QED
        BY <3>2, <3>3, <4>1
    <3>8. WritersInv'
      BY <3>5, <3>6
    <3> QED
      BY <3>7, <3>8
  <2> QED
    BY <2>1, <2>2
<1>7. CASE RollbackFails(w)
  BY <1>7 DEF RollbackFails, reading
<1>8. CASE Sweep(w)
  BY <1>8 DEF Sweep, Outcome, reading
<1>9. CASE SweepFails(w)
  BY <1>9 DEF SweepFails, reading
<1>10. CASE Kill(w)
  BY <1>10 DEF Kill, reading
<1> QED
  BY <1>1, <1>2, <1>3, <1>4, <1>5, <1>6, <1>7, <1>8, <1>9, <1>10 DEF Writer

LEMMA ReaderKeepsWriters ==
  ASSUME WritersInv, Reader \/ UNCHANGED vars
  PROVE  WritersInv' /\ UNCHANGED dir
BY DEF WritersInv, Progress, Owned, Reader, ReadMetadata, HashFile, LoadFile, ReadAgain,
       vars, writing

LEMMA WriterKeepsReader ==
  ASSUME TypeOK, WritersInv, ReaderInv, NEW w \in Writers, Writer(w)
  PROVE  ReaderInv'
<1>1. UNCHANGED reading
  BY DEF Writer, Begin, WriteTemporary, WriteFails, Link, LinkFails, Rollback, RollbackFails,
         Sweep, SweepFails, Kill
<1>2. dir[N] # Nobody => dir'[N] = dir[N]
  BY WriterStep
<1> QED
  BY <1>1, <1>2 DEF ReaderInv, reading

LEMMA ReaderStep ==
  ASSUME TypeOK, WritersInv, ReaderInv, Reader \/ UNCHANGED vars
  PROVE  ReaderInv'
<1> USE FilesAssumption DEF FilesAssumption, TypeOK, ReaderInv, Files
<1>0. SealedIsComplete
  BY Sealed
<1>1. CASE ReadMetadata
  BY <1>1 DEF ReadMetadata
<1>2. CASE HashFile
  BY <1>2 DEF HashFile
<1>3. CASE LoadFile
  <2>1. dir[at] = seal /\ dir[at] # Nobody
    BY <1>0, <1>3 DEF LoadFile, SealedIsComplete
  <2>2. \A f \in 1 .. at : loaded'[f] = seal
    BY <1>3, <2>1 DEF LoadFile
  <2>3. at' = at + 1 /\ seal' = seal /\ dir' = dir
        /\ reader' = IF at + 1 = N THEN "accepts" ELSE "hash"
    BY <1>3, <2>1 DEF LoadFile
  <2>4. at < N
    BY <1>3 DEF LoadFile
  <2> QED
    BY <2>1, <2>2, <2>3, <2>4
<1>4. CASE ReadAgain
  BY <1>4 DEF ReadAgain
<1>5. CASE UNCHANGED vars
  BY <1>5 DEF vars, reading
<1> QED
  BY <1>1, <1>2, <1>3, <1>4, <1>5 DEF Reader

LEMMA PublicationNextInv == PublicationInv /\ [Next]_vars => PublicationInv'
<1> SUFFICES ASSUME PublicationInv, [Next]_vars PROVE PublicationInv'
  OBVIOUS
<1>1. TypeOK'
  BY TypeStep DEF PublicationInv
<1>2. ASSUME NEW w \in Writers, Writer(w) PROVE WritersInv' /\ ReaderInv'
  BY <1>2, WriterStep, WriterKeepsReader DEF PublicationInv
<1>3. ASSUME Reader \/ UNCHANGED vars PROVE WritersInv' /\ ReaderInv'
  BY <1>3, ReaderKeepsWriters, ReaderStep DEF PublicationInv
<1> QED
  BY <1>1, <1>2, <1>3 DEF Next, PublicationInv

(* What the directory holds is what its writers remember having linked, and  *)
(* what a reader took so far is of the seal's writer.                        *)
THEOREM PublicationInvariant == Spec => []PublicationInv
<1> QED
  BY PublicationInitInv, PublicationNextInv, PTL DEF Spec

-----------------------------------------------------------------------------
(* Theorems                                                                  *)

(* Every variable keeps its type, for any number of writers and files.       *)
THEOREM PublicationTypeCorrect == Spec => []TypeOK
<1>1. PublicationInv => TypeOK
  BY DEF PublicationInv
<1> QED
  BY <1>1, PublicationInvariant, PTL

(* Metadata in the directory means one writer's complete set.                *)
THEOREM SealedSetsAreComplete == Spec => []SealedIsComplete
<1>1. PublicationInv => SealedIsComplete
  BY Sealed DEF PublicationInv
<1> QED
  BY <1>1, PublicationInvariant, PTL

(* The verification accepts only one writer's complete set.                  *)
THEOREM AcceptedSetsAreWhole == Spec => []AcceptedIsWhole
<1> QED
  BY SealIsWhole, PublicationInvariant, PTL

(* Success and failure are reported truly.                                   *)
THEOREM OutcomesAreTrue == Spec => []OutcomeIsTrue
<1>1. PublicationInv => OutcomeIsTrue
  BY OutcomeTrue DEF PublicationInv
<1> QED
  BY <1>1, PublicationInvariant, PTL

(* What a writer has written and what it remembers having written differ by  *)
(* at most the file at hand, and not while nothing has failed.               *)
Remembered(w) ==
    /\ temporary[w] \subseteq temps[w]
    /\ \E f \in Files : temps[w] \subseteq temporary[w] \union {f}
    /\ pc[w] \in {"start", "write", "link", "sweep"} => temps[w] = temporary[w]

LEMMA RememberedInit == Init => \A w \in Writers : Remembered(w)
  BY FilesAssumption DEF FilesAssumption, Init, Remembered, Files

LEMMA RememberedStep ==
  ASSUME TypeOK, \A w \in Writers : Remembered(w), [Next]_vars
  PROVE  (\A w \in Writers : Remembered(w))'
<1> USE DEF Remembered, TypeOK, Goto, Ended
<1>1. ASSUME NEW w \in Writers, Writer(w) PROVE \A v \in Writers : Remembered(v)'
  <2>1. ASSUME NEW v \in Writers, v # w PROVE Remembered(v)'
    <3>1. pc'[v] = pc[v] /\ temps'[v] = temps[v] /\ temporary'[v] = temporary[v]
      BY <1>1, <2>1 DEF Writer, Begin, WriteTemporary, WriteFails, Link, LinkFails, Rollback,
                        RollbackFails, Sweep, SweepFails, Kill
    <3> QED
      BY <3>1
  <2>2. Remembered(w)'
    <3>1. CASE Begin(w)
      BY <3>1 DEF Begin
    <3>2. CASE WriteTemporary(w)
      <4>1. /\ temps'[w] = temps[w] \union {next[w]}
            /\ temporary'[w] = temporary[w] \union {next[w]}
            /\ temps[w] = temporary[w]
        BY <3>2 DEF WriteTemporary
      <4> QED
        BY <4>1
    <3>3. CASE WriteFails(w)
      <4>1. /\ temps[w] = temporary[w] /\ temporary' = temporary /\ pc'[w] = "rollback"
            /\ temps'[w] = temps[w] \/ temps'[w] = temps[w] \union {next[w]}
        BY <3>3 DEF WriteFails
      <4> QED
        BY <4>1
    <3>4. CASE Link(w) \/ LinkFails(w) \/ Rollback(w) \/ RollbackFails(w)
      <4>1. /\ temps' = temps /\ temporary' = temporary
            /\ pc'[w] \in {"link", "sweep"} => pc[w] = "link"
        BY <3>4 DEF Link, LinkFails, Rollback, RollbackFails
      <4>2. pc'[w] \notin {"start", "write"}
        BY <3>4 DEF Link, LinkFails, Rollback, RollbackFails
      <4> QED
        BY <4>1, <4>2
    <3>5. CASE Sweep(w)
      <4>1. CASE UNCHANGED <<temps, temporary>>
        <5>1. pc'[w] \in {"done", "failed"} \/ pc'[w] = pc[w]
          BY <3>5, <4>1 DEF Sweep, Outcome
        <5> QED
          BY <4>1, <5>1
      <4>2. CASE ~UNCHANGED <<temps, temporary>>
        <5>1. PICK f \in temporary[w] : /\ temps' = [temps EXCEPT ![w] = @ \ {f}]
                                        /\ temporary' = [temporary EXCEPT ![w] = @ \ {f}]
                                        /\ UNCHANGED pc
          BY <3>5, <4>2 DEF Sweep
        <5>2. temps'[w] = temps[w] \ {f} /\ temporary'[w] = temporary[w] \ {f}
          BY <5>1
        <5> QED
          BY <5>1, <5>2
      <4> QED
        BY <4>1, <4>2
    <3>6. CASE SweepFails(w)
      BY <3>6 DEF SweepFails
    <3>7. CASE Kill(w)
      <4>1. /\ temporary' = temporary /\ pc'[w] = "killed"
            /\ \/ temps'[w] = temps[w]
               \/ pc[w] = "write" /\ temps'[w] = temps[w] \union {next[w]}
        BY <3>7 DEF Kill
      <4> QED
        BY <4>1
    <3> QED
      BY <1>1, <3>1, <3>2, <3>3, <3>4, <3>5, <3>6, <3>7 DEF Writer
  <2> QED
    BY <2>1, <2>2
<1>2. CASE Reader \/ UNCHANGED vars
  BY <1>2 DEF Reader, ReadMetadata, HashFile, LoadFile, ReadAgain, vars, writing
<1> QED
  BY <1>1, <1>2 DEF Next

(* No file is replaced, and only its own writer takes one away again.        *)
THEOREM FilesAreNeverOverwritten == Spec => NothingIsOverwritten
<1>1. PublicationInv /\ [Next]_vars =>
        [\A f \in Files : dir[f] # Nobody /\ dir'[f] # dir[f] =>
            dir'[f] = Nobody /\ pc[dir[f]] = "rollback"]_vars
  <2> SUFFICES ASSUME PublicationInv, [Next]_vars, NEW f \in Files, dir[f] # Nobody, dir'[f] # dir[f]
               PROVE  dir'[f] = Nobody /\ pc[dir[f]] = "rollback"
    OBVIOUS
  <2> USE DEF PublicationInv, TypeOK, WritersInv, Owned
  <2>1. PICK w \in Writers : Link(w) \/ Rollback(w)
    BY DEF Next, Writer, Begin, WriteTemporary, WriteFails, LinkFails, RollbackFails, Sweep,
           SweepFails, Kill, Reader, ReadMetadata, HashFile, LoadFile, ReadAgain, vars
  <2>2. CASE Link(w)
    BY <2>2 DEF Link
  <2>3. CASE Rollback(w)
    <3>1. published[w] # {} /\ pc[w] = "rollback"
      BY <2>3 DEF Rollback
    <3>2. PICK g \in published[w] : dir' = [dir EXCEPT ![g] = Nobody]
      BY <2>3, <3>1 DEF Rollback
    <3>3. f = g /\ dir'[f] = Nobody /\ dir[f] = w
      BY <3>2
    <3> QED
      BY <3>1, <3>3
  <2> QED
    BY <2>1, <2>2, <2>3
<1> QED
  BY <1>1, PublicationInvariant, PTL DEF Spec, NothingIsOverwritten

(* At most one temporary is left that its writer does not remember.          *)
THEOREM TemporariesStaySwept == Spec => []TemporariesAreSwept
<1>1. (\A w \in Writers : Remembered(w)) => TemporariesAreSwept
  <2> SUFFICES ASSUME \A w \in Writers : Remembered(w), NEW w \in Writers
               PROVE  /\ temporary[w] \subseteq temps[w]
                      /\ Cardinality(temps[w] \ temporary[w]) <= 1
    BY DEF TemporariesAreSwept
  <2>1. PICK f \in Files : temps[w] \subseteq temporary[w] \union {f}
    BY DEF Remembered
  <2>2. IsFiniteSet({f}) /\ Cardinality({f}) = 1
    BY FS_Singleton
  <2>3. temps[w] \ temporary[w] \subseteq {f}
    BY <2>1
  <2>4. Cardinality(temps[w] \ temporary[w]) <= 1
    BY <2>2, <2>3, FS_Subset
  <2> QED
    BY <2>4 DEF Remembered
<1>2. TypeOK /\ (\A w \in Writers : Remembered(w)) /\ [Next]_vars
        => (\A w \in Writers : Remembered(w))'
  BY RememberedStep
<1> QED
  BY <1>1, <1>2, RememberedInit, PublicationTypeCorrect, PTL DEF Spec

(* A published set is one writer's and whole, its writer knows it, and at    *)
(* most one temporary of each writer stays unremembered.                     *)
THEOREM PublicationsAreWhole == Spec => []PublicationIsWhole
<1>1. SealedIsComplete /\ AcceptedIsWhole /\ OutcomeIsTrue /\ TemporariesAreSwept
        => PublicationIsWhole
  BY DEF PublicationIsWhole
<1> QED
  BY <1>1, SealedSetsAreComplete, AcceptedSetsAreWhole, OutcomesAreTrue, TemporariesStaySwept, PTL

(* Publication is one atomic step: the link of the metadata.                 *)
THEOREM PublicationImplements == Spec => KeepsContract
<1>1. Init => Contract!Init
  BY FilesAssumption DEF FilesAssumption, Init, Contract!Init, Files
<1>2. PublicationInv /\ [Next]_vars => [Contract!Next]_(dir[N])
  <2> SUFFICES ASSUME PublicationInv, [Next]_vars PROVE [Contract!Next]_(dir[N])
    OBVIOUS
  <2>1. ASSUME NEW w \in Writers, Writer(w) PROVE [Contract!Next]_(dir[N])
    BY <2>1, WriterStep DEF PublicationInv, Contract!Next, Contract!Publish
  <2>2. ASSUME Reader \/ UNCHANGED vars PROVE [Contract!Next]_(dir[N])
    BY <2>2, ReaderKeepsWriters DEF PublicationInv
  <2> QED
    BY <2>1, <2>2 DEF Next
<1> QED
  BY <1>1, <1>2, PublicationInvariant, PTL DEF Spec, KeepsContract, Contract!Spec
-----------------------------------------------------------------------------
(* Admission                                                                 *)

AdmissionSteps == {"start", "upload", "hidden", "mkdir", "suite", "report", "remove"}

AdmissionTypes ==
    /\ does \in [1 .. 5 -> SUBSET Executions] /\ expectation \in {"passes", "fails"}
    /\ run \in 1 .. 6 /\ step \in AdmissionSteps
    /\ container \in [holds : SUBSET {"clean", "buggy", "reference", "hidden"}, used : BOOLEAN]
    /\ answer \in {NoAnswer, Error} \union Executions
    /\ evidence \in [1 .. 5 -> Seq(Executions)]
    /\ left \in BOOLEAN /\ verdict \in {"none"} \union Verdicts

(* Where an attempt is, its container holds what was uploaded so far.        *)
Attempt ==
    verdict = "none" /\ run <= 5 =>
        /\ step = "upload" => container = NoContainer
        /\ step = "hidden" => IsTarget /\ container = [holds |-> {Snapshot}, used |-> FALSE]
        /\ step = "mkdir" \/ step = "suite" =>
             container = [holds |-> {Snapshot} \union (IF IsTarget THEN {"hidden"} ELSE {}),
                          used |-> FALSE]

(* The runs before the current one are complete and those after it not       *)
(* begun, and every result kept is one of the executions, with a report.     *)
Collected ==
    /\ \A r \in 1 .. 5 :
         /\ r < run => Len(evidence[r]) = Repetitions
         /\ r = run => Len(evidence[r]) < Repetitions
         /\ r > run => evidence[r] = <<>>
         /\ \A i \in 1 .. Len(evidence[r]) :
               evidence[r][i] \in does[r] /\ evidence[r][i].report \in Reports
    /\ step = "report" => answer \in does[run]
    /\ step = "remove" /\ verdict = "none" =>
         answer = Error \/ (answer \in does[run] /\ answer.report \in Reports)
    /\ step # "start" => run <= 5

Judged ==
    /\ verdict \in {"admitted", "rejected"} =>
         /\ run = 6 /\ ~left
         /\ verdict = "admitted" <=> Failures(evidence) = {}
    /\ verdict = "none" => ~left

AdmissionInv == AdmissionTypes /\ Attempt /\ Collected /\ Judged

LEMMA SnapshotType ==
    ASSUME run \in 1 .. 5
    PROVE  Snapshot \in {"clean", "buggy", "reference"}
<1>1. run = 1 \/ run = 2 \/ run = 3 \/ run = 4 \/ run = 5
  OBVIOUS
<1>2. QED
  BY <1>1 DEF Snapshot, RequiredRuns

LEMMA AdmissionInitInv == AdmissionInit => AdmissionInv
<1> SUFFICES ASSUME AdmissionInit
             PROVE  AdmissionInv
  OBVIOUS
<1> USE AdmissionAssumption, BehavioursAssumption DEF AdmissionAssumption, BehavioursAssumption
<1>1. does \in [1 .. 5 -> SUBSET Executions]
  BY DEF AdmissionInit
<1>2. <<>> \in Seq(Executions) /\ Len(<<>>) = 0
  OBVIOUS
<1>3. AdmissionTypes
  <2>1. evidence \in [1 .. 5 -> Seq(Executions)]
    BY <1>2 DEF AdmissionInit
  <2>2. container \in [holds : SUBSET {"clean", "buggy", "reference", "hidden"}, used : BOOLEAN]
    BY DEF AdmissionInit, NoContainer
  <2>3. /\ run \in 1 .. 6 /\ step \in AdmissionSteps /\ left \in BOOLEAN
        /\ verdict \in {"none"} \union Verdicts
    <3>1. run = 1 /\ step = "start" /\ left = FALSE /\ verdict = "none"
      BY Zenon DEF AdmissionInit
    <3>2. run \in 1 .. 6
      BY <3>1
    <3>3. step \in AdmissionSteps
      BY <3>1 DEF AdmissionSteps
    <3>4. left \in BOOLEAN
      BY <3>1
    <3>5. verdict \in {"none"} \union Verdicts
      BY <3>1
    <3>6. QED
      BY <3>2, <3>3, <3>4, <3>5
  <2>4. expectation \in {"passes", "fails"} /\ answer \in {NoAnswer, Error} \union Executions
    BY DEF AdmissionInit
  <2>5. QED
    BY <1>1, <2>1, <2>2, <2>3, <2>4 DEF AdmissionTypes
<1>4. Collected
  BY <1>2 DEF AdmissionInit, Collected
<1>5. Attempt /\ Judged
  BY DEF AdmissionInit, Attempt, Judged
<1>6. QED
  BY <1>3, <1>4, <1>5 DEF AdmissionInv

(* The steps that change neither the evidence nor the verdict: an attempt    *)
(* goes on.                                                                  *)
LEMMA AttemptGoesOn ==
    ASSUME AdmissionInv,
           Start \/ UploadSnapshot \/ UploadHidden \/ MakeDirectory \/ RunSuite \/ ReadReport
           \/ AttemptFails
    PROVE  AdmissionInv'
<1> USE DEF AdmissionInv
<1>1. /\ UNCHANGED <<does, expectation, problems, run, evidence, left, verdict>>
      /\ verdict = "none" /\ run \in 1 .. 6
  BY DEF Start, UploadSnapshot, UploadHidden, MakeDirectory, RunSuite, ReadReport, AttemptFails,
         task, AdmissionTypes
<1>2. run \in 1 .. 5
  BY <1>1 DEF Start, UploadSnapshot, UploadHidden, MakeDirectory, RunSuite, ReadReport,
              AttemptFails, Collected, AdmissionTypes
<1>3. Judged'
  BY <1>1 DEF Judged, Failures, Gates
<1>4. /\ UNCHANGED <<Snapshot, IsTarget>>
      /\ Snapshot \in {"clean", "buggy", "reference"}
  BY <1>1, <1>2, SnapshotType DEF Snapshot, IsTarget
<1>5. CASE Start
  <2>1. container' = NoContainer /\ step' = "upload" /\ answer' = answer
    BY <1>5 DEF Start
  <2>2. AdmissionTypes'
    BY <1>1, <2>1 DEF AdmissionTypes, AdmissionSteps, NoContainer, task
  <2>3. QED
    BY <1>1, <1>2, <1>3, <2>1, <2>2 DEF Attempt, Collected
<1>6. CASE UploadSnapshot
  <2>1. /\ step = "upload" /\ container = NoContainer /\ answer' = answer
        /\ container' = [container EXCEPT !.holds = @ \union {Snapshot}]
        /\ step' = IF IsTarget THEN "hidden" ELSE "mkdir"
    BY <1>1, <1>2, <1>6 DEF UploadSnapshot, Attempt
  <2>2. container' = [holds |-> {Snapshot}, used |-> FALSE]
    BY <2>1 DEF NoContainer
  <2>3. AdmissionTypes'
    <3>1. container' \in [holds : SUBSET {"clean", "buggy", "reference", "hidden"}, used : BOOLEAN]
      BY <1>4, <2>2
    <3>2. step' \in AdmissionSteps
      BY <2>1 DEF AdmissionSteps
    <3>3. QED
      BY <1>1, <2>1, <3>1, <3>2 DEF AdmissionTypes
  <2>4. step' = "mkdir" => container' = [holds |-> {Snapshot} \union
                                (IF IsTarget THEN {"hidden"} ELSE {}), used |-> FALSE]
    BY <2>1, <2>2
  <2>5. Attempt'
    BY <1>1, <1>4, <2>1, <2>2, <2>4 DEF Attempt
  <2>6. Collected'
    BY <1>1, <1>2, <2>1 DEF Collected
  <2>7. QED
    BY <1>3, <2>3, <2>5, <2>6
<1>7. CASE UploadHidden
  <2>1. /\ IsTarget /\ container = [holds |-> {Snapshot}, used |-> FALSE]
        /\ container' = [container EXCEPT !.holds = @ \union {"hidden"}]
        /\ step' = "mkdir" /\ answer' = answer
    BY <1>1, <1>2, <1>7 DEF UploadHidden, Attempt
  <2>2. container' = [holds |-> {Snapshot} \union {"hidden"}, used |-> FALSE]
    BY <2>1
  <2>3. AdmissionTypes'
    BY <1>1, <1>4, <2>1, <2>2 DEF AdmissionTypes, AdmissionSteps, task
  <2>4. Attempt'
    BY <1>1, <1>4, <2>1, <2>2 DEF Attempt
  <2>5. Collected'
    BY <1>1, <1>2, <2>1 DEF Collected
  <2>6. QED
    BY <1>3, <2>3, <2>4, <2>5
<1>8. CASE MakeDirectory
  <2>1. step = "mkdir" /\ step' = "suite" /\ container' = container /\ answer' = answer
    BY <1>8 DEF MakeDirectory
  <2>2. AdmissionTypes'
    BY <1>1, <2>1 DEF AdmissionTypes, AdmissionSteps, task
  <2>3. QED
    BY <1>1, <1>2, <1>3, <1>4, <2>1, <2>2 DEF Attempt, Collected
<1>9. CASE RunSuite
  <2>1. PICK result \in does[run] :
          IF result.exit = TimedOut THEN answer' = Error /\ step' = "remove"
                                    ELSE answer' = result /\ step' = "report"
    BY <1>9 DEF RunSuite
  <2>2. result \in Executions
    BY <1>2, <2>1 DEF AdmissionTypes
  <2>3. container' = [container EXCEPT !.used = TRUE]
    BY <1>9 DEF RunSuite
  <2>4. AdmissionTypes'
    BY <1>1, <2>1, <2>2, <2>3 DEF AdmissionTypes, AdmissionSteps, task
  <2>5. Attempt'
    BY <2>1 DEF Attempt
  <2>6. Collected'
    BY <1>1, <1>2, <2>1 DEF Collected
  <2>7. QED
    BY <1>3, <2>4, <2>5, <2>6
<1>10. CASE ReadReport
  <2>1. /\ answer' = IF answer.report \in {Missing, ForeignReport} THEN Error ELSE answer
        /\ step = "report" /\ step' = "remove" /\ container' = container
    BY <1>10 DEF ReadReport
  <2>2. answer \in does[run] /\ answer \in Executions
    BY <1>2, <2>1 DEF Collected, AdmissionTypes
  <2>3. answer.report \in Reports \union {Missing, ForeignReport}
    BY <2>2 DEF Executions
  <2>4. AdmissionTypes'
    BY <1>1, <2>1 DEF AdmissionTypes, AdmissionSteps, task
  <2>5. Attempt'
    BY <2>1 DEF Attempt
  <2>6. answer' = Error \/ (answer' \in does[run] /\ answer'.report \in Reports)
    BY <2>1, <2>2, <2>3
  <2>7. Collected'
    BY <1>1, <1>2, <2>1, <2>6 DEF Collected
  <2>8. QED
    BY <1>3, <2>4, <2>5, <2>7
<1>11. CASE AttemptFails
  <2>1. answer' = Error /\ step' = "remove" /\ container' = container
    BY <1>11 DEF AttemptFails
  <2>2. AdmissionTypes'
    BY <1>1, <2>1 DEF AdmissionTypes, AdmissionSteps, task
  <2>3. QED
    BY <1>1, <1>2, <1>3, <2>1, <2>2 DEF Attempt, Collected
<1>12. QED
  BY <1>5, <1>6, <1>7, <1>8, <1>9, <1>10, <1>11

(* The steps that end the admission with an error.                           *)
LEMMA AdmissionBreaksDown ==
    ASSUME AdmissionInv, StartFails \/ RemoveFails \/ (Remove /\ answer = Error)
    PROVE  AdmissionInv'
<1>1. /\ UNCHANGED <<does, expectation, problems, run, step, container, evidence>>
      /\ verdict' = "error" /\ answer' \in {answer, NoAnswer} /\ left' \in BOOLEAN
      /\ step \in {"start", "remove"}
  BY DEF AdmissionInv, AdmissionTypes, StartFails, RemoveFails, Remove, Deliver, task
<1>2. AdmissionTypes'
  BY <1>1 DEF AdmissionInv, AdmissionTypes, Verdicts
<1>3. Collected'
  BY <1>1 DEF AdmissionInv, Collected
<1>4. Attempt' /\ Judged'
  BY <1>1 DEF Attempt, Judged
<1>5. QED
  BY <1>2, <1>3, <1>4 DEF AdmissionInv

(* A result is kept.                                                         *)
LEMMA ResultIsKept ==
    ASSUME AdmissionInv, Remove, answer # Error
    PROVE  AdmissionInv'
<1> USE AdmissionAssumption DEF AdmissionAssumption
<1> DEFINE kept == Append(evidence[run], answer)
<1>1. /\ UNCHANGED <<does, expectation, problems, container, left, verdict>>
      /\ verdict = "none" /\ answer' = NoAnswer /\ step' = "start"
      /\ evidence' = [evidence EXCEPT ![run] = kept]
      /\ run' = IF Len(evidence[run]) + 1 = Repetitions THEN run + 1 ELSE run
      /\ run \in 1 .. 5
      /\ answer \in does[run] /\ answer.report \in Reports
  BY DEF AdmissionInv, AdmissionTypes, Collected, Remove, Deliver, task
<1>2. evidence[run] \in Seq(Executions) /\ answer \in Executions
  BY <1>1 DEF AdmissionInv, AdmissionTypes
<1>3. /\ kept \in Seq(Executions) /\ Len(kept) = Len(evidence[run]) + 1
      /\ \A i \in 1 .. Len(kept) :
            kept[i] = IF i = Len(evidence[run]) + 1 THEN answer ELSE evidence[run][i]
  BY <1>2
<1>4. \A i \in 1 .. Len(kept) : kept[i] \in does[run] /\ kept[i].report \in Reports
  BY <1>1, <1>2, <1>3 DEF AdmissionInv, Collected
<1>5. Len(evidence[run]) < Repetitions /\ Len(evidence[run]) \in Nat
  BY <1>1, <1>2 DEF AdmissionInv, Collected
<1> HIDE DEF kept
<1>6. run' \in 1 .. 6 /\ run <= run' /\ run' <= run + 1
  BY <1>1
<1>7. AdmissionTypes'
  BY <1>1, <1>3, <1>6 DEF AdmissionInv, AdmissionTypes, AdmissionSteps, Verdicts
<1>8. \A r \in 1 .. 5 : evidence'[r] = IF r = run THEN kept ELSE evidence[r]
  BY <1>1 DEF AdmissionInv, AdmissionTypes
<1>9. Collected'
  <2>1. ASSUME NEW r \in 1 .. 5
        PROVE  /\ r < run' => Len(evidence'[r]) = Repetitions
               /\ r = run' => Len(evidence'[r]) < Repetitions
               /\ r > run' => evidence'[r] = <<>>
               /\ \A i \in 1 .. Len(evidence'[r]) :
                     evidence'[r][i] \in does'[r] /\ evidence'[r][i].report \in Reports
    <3>1. CASE r = run
      BY <1>1, <1>3, <1>4, <1>5, <1>8, <3>1
    <3>2. CASE r # run
      <4>1. evidence'[r] = evidence[r] /\ does' = does
        BY <1>1, <1>8, <3>2
      <4>2. /\ r < run => Len(evidence[r]) = Repetitions
            /\ r > run => evidence[r] = <<>>
            /\ \A i \in 1 .. Len(evidence[r]) :
                  evidence[r][i] \in does[r] /\ evidence[r][i].report \in Reports
        BY DEF AdmissionInv, Collected
      <4>3. Len(<<>>) = 0
        OBVIOUS
      <4>4. r < run' => r < run
        BY <1>1, <3>2
      <4>5. r = run' \/ r > run' => r > run
        BY <1>1, <3>2
      <4>6. r = run' => Len(evidence[r]) = 0
        BY <4>2, <4>3, <4>5
      <4>7. QED
        BY <4>1, <4>2, <4>4, <4>5, <4>6
    <3>3. QED
      BY <3>1, <3>2
  <2>2. QED
    BY <1>1, <2>1 DEF Collected
<1>10. Attempt' /\ Judged'
  BY <1>1 DEF AdmissionInv, Attempt, Judged
<1>11. QED
  BY <1>7, <1>9, <1>10 DEF AdmissionInv

LEMMA AdmissionNextInv == AdmissionInv /\ [AdmissionNext]_admissionVars => AdmissionInv'
<1> SUFFICES ASSUME AdmissionInv, [AdmissionNext]_admissionVars
             PROVE  AdmissionInv'
  OBVIOUS
<1>1. CASE Judge
  <2>1. /\ UNCHANGED <<does, expectation, problems, run, step, container, answer, evidence, left>>
        /\ verdict = "none" /\ run = 6
        /\ verdict' = IF Failures(evidence) = {} THEN "admitted" ELSE "rejected"
    BY <1>1 DEF Judge, task
  <2>2. AdmissionTypes'
    BY <2>1 DEF AdmissionInv, AdmissionTypes, Verdicts
  <2>3. Collected'
    BY <2>1 DEF AdmissionInv, Collected
  <2>4. Attempt'
    BY <2>1 DEF Attempt
  <2>5. Failures(evidence)' = Failures(evidence)
    BY <2>1 DEF Failures, Gates
  <2>6. Judged'
    BY <2>1, <2>5 DEF AdmissionInv, Judged
  <2>7. QED
    BY <2>2, <2>3, <2>4, <2>6 DEF AdmissionInv
<1>2. CASE UNCHANGED admissionVars
  BY <1>2 DEF admissionVars, task, AdmissionInv, AdmissionTypes, Attempt, Collected, Judged,
              Failures, Gates, Snapshot, IsTarget
<1>3. QED
  BY <1>1, <1>2, AttemptGoesOn, AdmissionBreaksDown, ResultIsKept DEF AdmissionNext

(* What an admission has gathered so far is what the executions did, each in *)
(* a container of its own (run_snapshot).                                    *)
THEOREM AdmissionInvariant == AdmissionSpec => []AdmissionInv
BY AdmissionInitInv, AdmissionNextInv, PTL DEF AdmissionSpec

(* The values of the variables of every admission: of a run's containers,   *)
(* reports and verdicts.                                                    *)
THEOREM AdmissionTypeCorrect == AdmissionSpec => []AdmissionTypeOK
<1>1. AdmissionInv => AdmissionTypeOK
  BY DEF AdmissionInv, AdmissionTypes, AdmissionSteps, AdmissionTypeOK, Verdicts
<1>2. QED
  BY <1>1, AdmissionInvariant, PTL

(* What a task promises is what the gates ask of every execution.            *)
LEMMA GatesAskWhatIsPromised ==
    ASSUME NEW r \in 1 .. 5, AdmissionTypes, evidence[r] # <<>>
    PROVE  (\A i \in DOMAIN evidence[r] : Promised(r, evidence[r][i]))
           <=> (IF r = BuggyTarget \/ (r = BuggyRegression /\ expectation = "fails")
                THEN AllFail(evidence[r]) ELSE AllPass(evidence[r]))
BY DEF AllFail, AllPass, Promised, IsPass, IsTestFailure, Count

(* Every execution a verdict rests on had a container of its own.            *)
THEOREM AttemptsStayIndependent == AdmissionSpec => []AttemptsAreIndependent
<1>1. AdmissionInv => AttemptsAreIndependent
  BY DEF AdmissionInv, AdmissionTypes, Attempt, Collected, AttemptsAreIndependent
<1>2. QED
  BY <1>1, AdmissionInvariant, PTL

(* The gates pass exactly when every execution kept its promise.             *)
LEMMA GatesAreTrue ==
    ASSUME AdmissionInv, run = 6
    PROVE  Failures(evidence) = {} <=>
             /\ problems = {}
             /\ \A r \in 1 .. 5 : \A i \in DOMAIN evidence[r] : Promised(r, evidence[r][i])
<1> USE AdmissionAssumption DEF AdmissionAssumption
<1>1. \A r \in 1 .. 5 : Len(evidence[r]) = Repetitions
  BY DEF AdmissionInv, Collected
<1>2. \A r \in 1 .. 5 : evidence[r] # <<>>
  <2>1. Len(<<>>) = 0
    OBVIOUS
  <2>2. QED
    BY <1>1, <2>1
<1>3. \A r \in 1 .. 5 : Len(evidence[r]) >= Repetitions
  BY <1>1
<1>4. expectation \in {"passes", "fails"} /\ AdmissionTypes
  BY DEF AdmissionInv, AdmissionTypes
<1> DEFINE Keeps(r) == \A i \in DOMAIN evidence[r] : Promised(r, evidence[r][i])
<1>5. /\ Keeps(1) <=> AllPass(evidence[1])
      /\ Keeps(2) <=> AllFail(evidence[2])
      /\ Keeps(3) <=> (IF expectation = "passes" THEN AllPass(evidence[3])
                                                 ELSE AllFail(evidence[3]))
      /\ Keeps(4) <=> AllPass(evidence[4])
      /\ Keeps(5) <=> AllPass(evidence[5])
  BY <1>2, <1>4, GatesAskWhatIsPromised DEF BuggyTarget, BuggyRegression
<1>6. (\A r \in 1 .. 5 : Keeps(r)) <=> Keeps(1) /\ Keeps(2) /\ Keeps(3) /\ Keeps(4) /\ Keeps(5)
  <2> HIDE DEF Keeps
  <2>1. QED
    OBVIOUS
<1> HIDE DEF Keeps
<1>7. Failures(evidence) = {} <=>
        /\ problems = {}
        /\ \A gate \in DOMAIN Gates(evidence) : Gates(evidence)[gate]
  BY DEF Failures
<1>8. DOMAIN Gates(evidence) = {"insufficient", "clean_regression", "buggy_target",
                                "buggy_regression", "reference_target", "reference_regression"}
  BY DEF Gates
<1>9. (\A gate \in DOMAIN Gates(evidence) : Gates(evidence)[gate]) <=>
        /\ Gates(evidence)["insufficient"] /\ Gates(evidence)["clean_regression"]
        /\ Gates(evidence)["buggy_target"] /\ Gates(evidence)["buggy_regression"]
        /\ Gates(evidence)["reference_target"] /\ Gates(evidence)["reference_regression"]
  BY <1>8, Zenon
<1>10. /\ Gates(evidence)["insufficient"] <=> \A r \in 1 .. 5 : Len(evidence[r]) >= Repetitions
       /\ Gates(evidence)["clean_regression"] <=> AllPass(evidence[1])
       /\ Gates(evidence)["buggy_target"] <=> AllFail(evidence[2])
       /\ Gates(evidence)["buggy_regression"] <=>
             (IF expectation = "passes" THEN AllPass(evidence[3]) ELSE AllFail(evidence[3]))
       /\ Gates(evidence)["reference_target"] <=> AllPass(evidence[4])
       /\ Gates(evidence)["reference_regression"] <=> AllPass(evidence[5])
  BY DEF Gates, CleanRegression, BuggyTarget, BuggyRegression, ReferenceTarget,
         ReferenceRegression
<1>11. (\A r \in 1 .. 5 : Keeps(r)) <=> \A gate \in DOMAIN Gates(evidence) : Gates(evidence)[gate]
  BY <1>3, <1>5, <1>6, <1>9, <1>10
<1>12. QED
  BY <1>7, <1>11 DEF Keeps

(* An admitted task was never seen to break its promises, and one that       *)
(* always keeps them is not rejected (validate_task_admission).              *)
THEOREM VerdictsAreTrue == AdmissionSpec => []VerdictIsTrue
<1>1. AdmissionInv => VerdictIsTrue
  <2> SUFFICES ASSUME AdmissionInv
               PROVE  VerdictIsTrue
    OBVIOUS
  <2>1. CASE verdict = "admitted"
    BY <2>1, GatesAreTrue DEF AdmissionInv, Judged, VerdictIsTrue
  <2>2. CASE verdict = "rejected"
    <3>1. run = 6 /\ Failures(evidence) # {}
      BY <2>2 DEF AdmissionInv, Judged
    <3>2. \/ problems # {}
          \/ \E r \in 1 .. 5 : \E i \in DOMAIN evidence[r] : ~Promised(r, evidence[r][i])
      BY <3>1, GatesAreTrue
    <3>3. \A r \in 1 .. 5 : \A i \in DOMAIN evidence[r] : evidence[r][i] \in does[r]
      <4>1. \A r \in 1 .. 5 : evidence[r] \in Seq(Executions)
        BY DEF AdmissionInv, AdmissionTypes
      <4>2. \A r \in 1 .. 5 : \A i \in 1 .. Len(evidence[r]) : evidence[r][i] \in does[r]
        BY DEF AdmissionInv, Collected
      <4>3. ASSUME NEW r \in 1 .. 5 PROVE DOMAIN evidence[r] = 1 .. Len(evidence[r])
        BY <4>1
      <4>4. QED
        BY <4>2, <4>3
    <3>4. QED
      BY <2>2, <3>2, <3>3 DEF VerdictIsTrue
  <2>3. QED
    BY <2>1, <2>2 DEF VerdictIsTrue
<1>2. QED
  BY <1>1, AdmissionInvariant, PTL

(* A verdict rests on every repetition, each with a report of the canonical  *)
(* tests, and leaves no container behind.                                    *)
THEOREM AdmissionsStaySound == AdmissionSpec => []AdmissionIsSound
<1>1. AdmissionInv => BreakdownsDecideNothing /\ VerdictsLeaveNothing
  BY DEF AdmissionInv, AdmissionTypes, Collected, Judged, BreakdownsDecideNothing,
         VerdictsLeaveNothing
<1>2. AdmissionSpec => [](BreakdownsDecideNothing /\ VerdictsLeaveNothing)
  BY <1>1, AdmissionInvariant, PTL
<1>3. QED
  BY <1>2, AttemptsStayIndependent, VerdictsAreTrue, PTL DEF AdmissionIsSound
-----------------------------------------------------------------------------
(* Preparation                                                               *)

Patches == UNION {[S -> PathContents] : S \in SUBSET Paths}

(* What a task looks like once its repair was tried: the repair turns the    *)
(* buggy snapshot into the reference within the policy, and no snapshot      *)
(* shows a hidden test.                                                      *)
Differs(t) ==
    /\ t.buggy # t.reference /\ DOMAIN t.reference_patch \subseteq Allowed \ Hidden
    /\ \A p \in Hidden : t.clean[p] = Absent /\ t.buggy[p] = Absent /\ t.reference[p] = Absent

RepairableTasks ==
    {t \in [reference_patch : Patches, clean : Trees, reference : Trees, buggy : Trees] :
        Differs(t) /\ Applied(t.reference_patch, t.buggy) = t.reference}

PreparationSteps == {"start", "check", "mutate", "snapshots", "repair", "admit", "publish",
                     "sweep", "abort", "done", "failed", "killed"}

PreparationTypes ==
    /\ mutation \in [TaskNumbers -> Mutants] /\ current \in TaskNumbers
    /\ preparing \in PreparationSteps /\ bundle \in Seq(RepairableTasks)
    /\ output \in [by : {"nobody", "empty", "other"}, tasks : {NoTask}]
                  \union [by : {"me"}, tasks : Seq(RepairableTasks)]
    /\ scratch \in BOOLEAN

(* Where the preparation is, the bundle holds the tasks before the current   *)
(* one, and the work what was made of the current one.                       *)
Advancing ==
    /\ preparing \in {"start", "check", "mutate", "snapshots", "repair", "admit"} =>
         Len(bundle) = current - 1
    /\ preparing = "publish" => Len(bundle) = TaskCount
    /\ Len(bundle) <= TaskCount
    /\ preparing = "snapshots" =>
         LET changed == Changed(mutation[current]) IN
         /\ changed # {} /\ changed \intersect Hidden = {} /\ changed \subseteq Allowed
         /\ work = [reference_patch |-> ReversePatch(mutation[current])]
    /\ preparing = "repair" =>
         /\ work \in [reference_patch : Patches, clean : Trees, reference : Trees, buggy : Trees]
         /\ Differs(work)
    /\ preparing = "admit" => work \in RepairableTasks

(* The output is ours only after the renaming, and then whole; a run that    *)
(* failed with it there could not clean up.                                  *)
Disclosed ==
    /\ output.by = "me" =>
         preparing \in {"sweep", "done", "failed", "killed"} /\ Len(output.tasks) = TaskCount
    /\ preparing \in {"sweep", "done"} => output.by = "me"
    /\ preparing \in {"check", "mutate", "snapshots", "repair", "admit", "publish", "sweep"} =>
         scratch = TRUE
    /\ preparing = "done" => scratch = FALSE
    /\ preparing = "failed" /\ output.by = "me" => scratch = TRUE

PreparationInv == PreparationTypes /\ Advancing /\ Disclosed

LEMMA TreeTypes ==
    /\ Clean \in Trees
    /\ \A tree \in Trees : WithoutHidden(tree) \in Trees
    /\ \A tree : ReversePatch(tree) \in Patches /\ DOMAIN ReversePatch(tree) = Changed(tree)
<1>1. \A p \in Paths : Clean[p] \in PathContents
  BY DEF Clean, PathContents
<1>2. Clean \in Trees
  BY DEF Clean, Trees, PathContents
<1>3. \A tree \in Trees : WithoutHidden(tree) \in Trees
  BY DEF WithoutHidden, Trees, PathContents
<1>4. ASSUME NEW tree
      PROVE  ReversePatch(tree) \in Patches /\ DOMAIN ReversePatch(tree) = Changed(tree)
  <2>1. Changed(tree) \subseteq Paths
    BY PreparationAssumption DEF PreparationAssumption, Changed, Tracked
  <2>2. ReversePatch(tree) \in [Changed(tree) -> PathContents]
    BY <1>1, <2>1 DEF ReversePatch
  <2>3. QED
    BY <2>1, <2>2 DEF Patches
<1>5. QED
  BY <1>2, <1>3, <1>4

LEMMA MutationType ==
    ASSUME PreparationTypes
    PROVE  mutation[current] \in Trees
BY PreparationAssumption DEF PreparationAssumption, PreparationTypes

(* A mutation that changed a visible file shows in the buggy snapshot.       *)
LEMMA MutationsShow ==
    ASSUME NEW tree \in Trees, Changed(tree) # {}, Changed(tree) \intersect Hidden = {}
    PROVE  WithoutHidden(tree) # WithoutHidden(Clean)
<1>1. PICK p \in Changed(tree) : TRUE
  OBVIOUS
<1>2. p \in Paths /\ p \notin Hidden /\ tree[p] # Clean[p]
  BY <1>1, PreparationAssumption DEF PreparationAssumption, Changed, Tracked
<1>3. WithoutHidden(tree)[p] = tree[p] /\ WithoutHidden(Clean)[p] = Clean[p]
  BY <1>2 DEF WithoutHidden
<1>4. QED
  BY <1>2, <1>3

LEMMA HiddenIsAbsent ==
    ASSUME NEW tree, NEW p \in Hidden
    PROVE  WithoutHidden(tree)[p] = Absent
BY PreparationAssumption DEF PreparationAssumption, WithoutHidden

LEMMA PreparationInitInv == PreparationInit => PreparationInv
<1> SUFFICES ASSUME PreparationInit
             PROVE  PreparationInv
  OBVIOUS
<1>1. current \in TaskNumbers /\ TaskCount \in Nat
  BY PreparationAssumption DEF PreparationAssumption, PreparationInit, TaskNumbers
<1>2. output \in [by : {"nobody", "empty", "other"}, tasks : {NoTask}]
  BY DEF PreparationInit, NoOutput, Empty, ForeignOutput
<1>3. bundle = <<>> /\ bundle \in Seq(RepairableTasks) /\ Len(bundle) = 0
  BY DEF PreparationInit, NoTask
<1>4. PreparationTypes
  BY <1>1, <1>2, <1>3 DEF PreparationInit, PreparationTypes, PreparationSteps
<1>5. Advancing
  BY <1>1, <1>3 DEF PreparationInit, Advancing
<1>6. Disclosed
  BY <1>2 DEF PreparationInit, Disclosed
<1>7. QED
  BY <1>4, <1>5, <1>6 DEF PreparationInv

(* The steps that make a task.                                               *)
LEMMA MutateKeeps ==
    ASSUME PreparationInv, Mutate, ~Raises
    PROVE  PreparationInv'
<1> USE DEF PreparationInv
<1> DEFINE changed == Changed(mutation[current])
<1>1. /\ preparing = "mutate" /\ preparing' = "snapshots"
      /\ UNCHANGED <<mutation, current, bundle, scratch, output>>
      /\ changed # {} /\ changed \intersect Hidden = {} /\ changed \subseteq Allowed
      /\ work' = [reference_patch |-> ReversePatch(mutation[current])]
  BY DEF Mutate
<1>2. PreparationTypes' /\ Disclosed'
  BY <1>1 DEF PreparationTypes, PreparationSteps, Disclosed
<1>3. Changed(mutation[current])' = changed /\ ReversePatch(mutation[current])'
                                              = ReversePatch(mutation[current])
  BY <1>1 DEF Changed, ReversePatch
<1>4. Advancing'
  BY <1>1, <1>3 DEF Advancing
<1>5. QED
  BY <1>2, <1>4

LEMMA SnapshotsKeep ==
    ASSUME PreparationInv, Snapshots, ~Raises
    PROVE  PreparationInv'
<1> USE DEF PreparationInv
<1> DEFINE tree == mutation[current]
           undone == ReversePatch(tree)
           made == [reference_patch |-> undone,
                    clean |-> WithoutHidden(Clean), reference |-> WithoutHidden(Clean),
                    buggy |-> WithoutHidden(tree)]
<1>1. /\ preparing = "snapshots" /\ preparing' = "repair"
      /\ UNCHANGED <<mutation, current, bundle, scratch, output>>
      /\ Changed(tree) # {} /\ Changed(tree) \intersect Hidden = {}
      /\ Changed(tree) \subseteq Allowed
      /\ work.reference_patch = undone
  BY DEF Snapshots, Advancing
<1>2. work' = made
  BY <1>1 DEF Snapshots
<1>3. tree \in Trees
  BY MutationType
<1>4. made \in [reference_patch : Patches, clean : Trees, reference : Trees, buggy : Trees]
  BY <1>3, TreeTypes
<1>5. Differs(made)
  <2>1. made.buggy # made.reference
    BY <1>1, <1>3, MutationsShow
  <2>2. DOMAIN made.reference_patch \subseteq Allowed \ Hidden
    BY <1>1, TreeTypes
  <2>3. QED
    BY <2>1, <2>2, HiddenIsAbsent DEF Differs
<1> HIDE DEF made
<1>6. PreparationTypes' /\ Disclosed'
  BY <1>1 DEF PreparationTypes, PreparationSteps, Disclosed
<1>7. Advancing'
  BY <1>1, <1>2, <1>4, <1>5 DEF Advancing
<1>8. QED
  BY <1>6, <1>7

LEMMA AdmitKeeps ==
    ASSUME PreparationInv, Admit
    PROVE  PreparationInv'
<1> USE DEF PreparationInv
<1>1. /\ preparing = "admit" /\ work \in RepairableTasks
      /\ UNCHANGED <<mutation, scratch, output>>
      /\ bundle' = Append(bundle, work)
      /\ current' = IF current = TaskCount THEN current ELSE current + 1
      /\ preparing' = IF current = TaskCount THEN "publish" ELSE "check"
      /\ current \in 1 .. TaskCount /\ TaskCount \in Nat
      /\ bundle \in Seq(RepairableTasks) /\ Len(bundle) = current - 1
  BY PreparationAssumption
  DEF PreparationAssumption, Admit, Advancing, PreparationTypes, TaskNumbers
<1>2. bundle' \in Seq(RepairableTasks) /\ Len(bundle') = current
  BY <1>1
<1>3. current' \in TaskNumbers
  BY <1>1 DEF TaskNumbers
<1>4. PreparationTypes'
  BY <1>1, <1>2, <1>3 DEF PreparationTypes, PreparationSteps
<1>5. preparing' \in {"check", "publish"} /\ Len(bundle') <= TaskCount
      /\ (preparing' = "check" => Len(bundle') = current' - 1)
      /\ (preparing' = "publish" => Len(bundle') = TaskCount)
  BY <1>1, <1>2
<1>6. Advancing'
  BY <1>5 DEF Advancing
<1>7. Disclosed'
  BY <1>1, <1>5 DEF Disclosed
<1>8. QED
  BY <1>4, <1>6, <1>7

LEMMA PreparationNextInv ==
    PreparationInv /\ [PreparationNext]_preparationVars => PreparationInv'
<1> SUFFICES ASSUME PreparationInv, [PreparationNext]_preparationVars
             PROVE  PreparationInv'
  OBVIOUS
<1> USE DEF PreparationInv
<1>1. CASE BeginBundle
  <2>1. /\ preparing = "start" /\ UNCHANGED <<mutation, current, bundle, work, output>>
        /\ \/ output = NoOutput /\ preparing' = "check" /\ scratch' = TRUE
           \/ preparing' = "failed" /\ scratch' = scratch
    BY <1>1 DEF BeginBundle
  <2>2. output.by # "me"
    BY <2>1 DEF Disclosed
  <2>3. PreparationTypes'
    BY <2>1 DEF PreparationTypes, PreparationSteps
  <2>4. Advancing' /\ Disclosed'
    BY <2>1, <2>2 DEF Advancing, Disclosed
  <2>5. QED
    BY <2>3, <2>4
<1>2. CASE Check
  BY <1>2 DEF Check, PreparationTypes, PreparationSteps, Advancing, Disclosed
<1>3. CASE Raises /\ preparing \notin {"sweep", "done", "failed", "killed"}
  BY <1>3 DEF Raises, PreparationTypes, PreparationSteps, Advancing, Disclosed
<1>4. CASE Repair /\ ~Raises
  <2>1. /\ preparing = "repair" /\ preparing' = "admit"
        /\ UNCHANGED <<mutation, current, bundle, work, scratch, output>>
        /\ Applied(work.reference_patch, work.buggy) = work.reference
    BY <1>4 DEF Repair
  <2>2. work \in RepairableTasks
    BY <2>1 DEF Advancing, RepairableTasks
  <2>3. QED
    BY <2>1, <2>2 DEF PreparationTypes, PreparationSteps, Advancing, Disclosed
<1>5. CASE Publish
  <2>1. /\ preparing = "publish" /\ preparing' = "sweep" /\ scratch = TRUE
        /\ UNCHANGED <<mutation, current, bundle, work, scratch>>
        /\ output' = [by |-> "me", tasks |-> bundle]
        /\ bundle \in Seq(RepairableTasks) /\ Len(bundle) = TaskCount
    BY <1>5 DEF Publish, Advancing, Disclosed, PreparationTypes
  <2>2. /\ output'.by = "me" /\ Len(output'.tasks) = TaskCount
        /\ output' \in [by : {"me"}, tasks : Seq(RepairableTasks)]
    BY <2>1
  <2>3. PreparationTypes'
    BY <2>1, <2>2 DEF PreparationTypes, PreparationSteps
  <2>4. Advancing' /\ Disclosed'
    BY <2>1, <2>2 DEF Advancing, Disclosed
  <2>5. QED
    BY <2>3, <2>4
<1>6. CASE SweepBundle
  <2>1. /\ preparing \in {"sweep", "abort"} /\ scratch' = FALSE
        /\ preparing' = IF preparing = "sweep" THEN "done" ELSE "failed"
        /\ UNCHANGED <<mutation, current, bundle, work, output>>
    BY <1>6 DEF SweepBundle, PreparationEnds
  <2>2. QED
    BY <2>1 DEF PreparationTypes, PreparationSteps, Advancing, Disclosed
<1>7. CASE SweepBundleFails \/ KillPreparer
  BY <1>7 DEF SweepBundleFails, KillPreparer, PreparationTypes, PreparationSteps, Advancing,
              Disclosed
<1>8. CASE Others
  <2>1. /\ UNCHANGED <<mutation, preparing, current, bundle, work, scratch>>
        /\ output.by # "me" /\ output' \in {Empty, ForeignOutput}
    BY <1>8 DEF Others, NoOutput, Empty
  <2>2. output' \in [by : {"nobody", "empty", "other"}, tasks : {NoTask}] /\ output'.by # "me"
    BY <2>1 DEF Empty, ForeignOutput
  <2>3. PreparationTypes'
    BY <2>1, <2>2 DEF PreparationTypes
  <2>4. Advancing'
    BY <2>1 DEF Advancing, Changed, ReversePatch
  <2>5. Disclosed'
    BY <2>1, <2>2 DEF Disclosed
  <2>6. QED
    BY <2>3, <2>4, <2>5
<1>9. CASE UNCHANGED preparationVars
  BY <1>9 DEF preparationVars, PreparationTypes, Advancing, Disclosed
<1>10. CASE Mutate \/ Snapshots \/ Repair \/ StepFails \/ PublishRefused
  BY <1>3, <1>4, <1>10, MutateKeeps, SnapshotsKeep
  DEF Mutate, Snapshots, Repair, StepFails, PublishRefused
<1>11. QED
  BY <1>1, <1>2, <1>5, <1>6, <1>7, <1>8, <1>9, <1>10, AdmitKeeps DEF PreparationNext

(* The tasks made so far are repairable, and no snapshot of them shows a     *)
(* hidden test (_prepare_artifacts, prepare_swe_smith_bundle).               *)
THEOREM PreparationInvariant == PreparationSpec => []PreparationInv
BY PreparationInitInv, PreparationNextInv, PTL DEF PreparationSpec

(* The values of the variables of every preparation, its bundle and its     *)
(* scratch files.                                                           *)
THEOREM PreparationTypeCorrect == PreparationSpec => []PreparationTypeOK
<1>1. PreparationInv => PreparationTypeOK
  <2> SUFFICES ASSUME PreparationInv
               PROVE  PreparationTypeOK
    OBVIOUS
  <2>1. mutation \in [TaskNumbers -> Trees]
    BY PreparationAssumption DEF PreparationAssumption, PreparationInv, PreparationTypes
  <2>2. output.by \in {"nobody", "empty", "other", "me"}
    BY DEF PreparationInv, PreparationTypes
  <2>3. QED
    BY <2>1, <2>2 DEF PreparationInv, PreparationTypes, PreparationSteps, Advancing,
                      PreparationTypeOK
<1>2. QED
  BY <1>1, PreparationInvariant, PTL

LEMMA PublishedTasks ==
    ASSUME PreparationInv, Published
    PROVE  /\ Len(output.tasks) = TaskCount
           /\ \A i \in TaskNumbers : output.tasks[i] \in RepairableTasks
<1>1. output.tasks \in Seq(RepairableTasks) /\ Len(output.tasks) = TaskCount
  BY DEF PreparationInv, PreparationTypes, Disclosed, Published
<1>2. QED
  BY <1>1 DEF TaskNumbers

(* A published bundle holds every task, and each can be solved within its    *)
(* policy (_prepare_task: the repair is applied and compared).               *)
THEOREM PublishedTasksStayRepairable == PreparationSpec => []PublishedTasksAreRepairable
<1>1. PreparationInv => PublishedTasksAreRepairable
  BY PublishedTasks DEF PublishedTasksAreRepairable, RepairableTasks, Differs
<1>2. QED
  BY <1>1, PreparationInvariant, PTL

(* No published snapshot shows a hidden test, the outcome tells whether the  *)
(* bundle is there, and what can be cleaned up is.                           *)
THEOREM PreparationsStaySound == PreparationSpec => []PreparationIsSound
<1>1. PreparationInv => SnapshotsHideTests
  <2> SUFFICES ASSUME PreparationInv, Published, NEW i \in TaskNumbers
               PROVE  LET t == output.tasks[i] IN
                      \A tree \in {t.clean, t.buggy, t.reference} : \A p \in Hidden :
                          tree[p] = Absent
    BY DEF SnapshotsHideTests
  <2>1. Differs(output.tasks[i])
    BY PublishedTasks DEF RepairableTasks
  <2>2. QED
    BY <2>1 DEF Differs
<1>2. PreparationInv => PreparationOutcomeIsTrue
  BY DEF PreparationInv, Disclosed, PreparationOutcomeIsTrue, Published
<1>3. PreparationSpec => [](SnapshotsHideTests /\ PreparationOutcomeIsTrue)
  BY <1>1, <1>2, PreparationInvariant, PTL
<1>4. QED
  BY <1>3, PublishedTasksStayRepairable, PTL DEF PreparationIsSound
-----------------------------------------------------------------------------
(* The patch policy                                                          *)

PatchTypes ==
    /\ patch \subseteq Sections /\ oversized \in BOOLEAN
    /\ stage \in {"written", "inspected", "applied", "verified"}

(* What was found is what the inspection finds in this patch; what Git       *)
(* reports is what the patch changes, and Git was given accepted ones only.  *)
Inspecting ==
    LET first == Inspect(patch, oversized) IN
    /\ stage \in {"written", "inspected"} => applied = {}
    /\ stage = "written" => inspection = NoInspection
    /\ stage \in {"inspected", "applied"} => inspection = first
    /\ stage \in {"applied", "verified"} =>
         GitTakes(patch) /\ first.violations = {} /\ applied = {s.path : s \in patch}
    /\ stage = "verified" => inspection = Reinspect(first, applied)

PatchInv == PatchTypes /\ Inspecting

(* Git was given only what inspect_patch accepted, and reports what the patch*)
(* changes.                                                                  *)
THEOREM PatchInvariant == PatchSpec => []PatchInv
<1>1. PatchInit => PatchInv
  BY DEF PatchInit, PatchInv, PatchTypes, Inspecting
<1>2. PatchInv /\ [PatchNext]_patchVars => PatchInv'
  <2> SUFFICES ASSUME PatchInv, [PatchNext]_patchVars
               PROVE  PatchInv'
    OBVIOUS
  <2> DEFINE first == Inspect(patch, oversized)
  <2>1. UNCHANGED <<patch, oversized>>
    BY DEF PatchNext, FirstInspection, GitApplies, SecondInspection, Done, patchVars
  <2>2. /\ Inspect(patch, oversized)' = first /\ GitTakes(patch)' = GitTakes(patch)
        /\ {s.path : s \in patch}' = {s.path : s \in patch}
    BY <2>1 DEF Inspect, GitTakes, Lines, PathViolations, IsAllowed
  <2> HIDE DEF first
  <2>3. CASE FirstInspection
    BY <2>1, <2>2, <2>3 DEF FirstInspection, PatchInv, PatchTypes, Inspecting, first
  <2>4. CASE GitApplies
    BY <2>1, <2>2, <2>4 DEF GitApplies, Accepted, PatchInv, PatchTypes, Inspecting, first
  <2>5. CASE SecondInspection
    <3>1. Reinspect(first, applied)' = Reinspect(first, applied)
      BY <2>1, <2>2, <2>5 DEF SecondInspection, Reinspect, PathViolations, IsAllowed, first
    <3>2. QED
      BY <2>1, <2>2, <2>5, <3>1 DEF SecondInspection, PatchInv, PatchTypes, Inspecting, first
  <2>6. CASE UNCHANGED patchVars
    <3>1. Reinspect(first, applied)' = Reinspect(first, applied)
      BY <2>1, <2>2, <2>6 DEF patchVars, Reinspect, PathViolations, IsAllowed, first
    <3>2. QED
      BY <2>1, <2>2, <2>6, <3>1 DEF patchVars, PatchInv, PatchTypes, Inspecting, first
  <2>7. QED
    BY <2>3, <2>4, <2>5, <2>6 DEF PatchNext, Done
<1>3. QED
  BY <1>1, <1>2, PTL DEF PatchSpec

(* Pieces of text and lines of a header.                                     *)
LEMMA LineKinds ==
    /\ \A l \in Pieces : IsText(l) /\ l.name \in Names
    /\ \A role, name : /\ ~IsText(Line(role, name))
                       /\ Line(role, name).role = role /\ Line(role, name).name = name
BY DEF Pieces, IsText, Line

(* What a split line may look like: of a header, only names are read.        *)
LEMMA StrayLines ==
    ASSUME NEW l \in HeaderLines
    PROVE  ~IsText(l) /\ PathsRead(l) \subseteq Names
<1> DEFINE Roles == {"diff", "old", "new", "hunk", "rename", "mode", "binary"}
<1>1. CASE l \in [role : Roles, name : Names]
  <2>1. l.name \in Names /\ DOMAIN l = {"role", "name"}
    BY <1>1
  <2>2. ~IsText(l)
    BY <2>1 DEF IsText
  <2>3. QED
    BY <2>1, <2>2 DEF PathsRead
<1>2. CASE l \in [role : {"filemode"}, name : {<<mode>> : mode \in Modes}]
  <2>1. l.role = "filemode" /\ DOMAIN l = {"role", "name"}
    BY <1>2
  <2>2. ~IsText(l)
    BY <2>1 DEF IsText
  <2>3. QED
    BY <2>1, <2>2 DEF PathsRead, ReadAsHeader
<1>3. QED
  BY <1>1, <1>2 DEF HeaderLines

(* The pieces of a body's lines.                                             *)
LEMMA BodyPieces ==
    ASSUME NEW s \in Sections, NEW l \in s.body
    PROVE  l.first \in Pieces /\ l.rest \subseteq Pieces \union HeaderLines
<1>1. s.body \in Bodies
  BY DEF Sections
<1>2. l \in TextLines
  BY <1>1, PatchAssumption DEF PatchAssumption
<1>3. QED
  BY <1>2 DEF TextLines

(* What the lines of a header are, and what is read from them.               *)
LEMMA LinesOfHeaders ==
    ASSUME NEW s \in Sections, NEW l \in Headers(s)
    PROVE  /\ ~IsText(l)
           /\ PathsRead(l) \subseteq {s.path} \ {DevNull}
           /\ l.role \in {"diff", "old", "new", "hunk", "filemode", "rename", "mode", "binary"}
           /\ l.role = "filemode" =>
                l.name = <<s.change.mode>> /\ s.change.kind \in {"create", "delete"}
           /\ l.role \in {"rename", "mode", "binary"} => l.role = s.change.kind
<1>1. s.change.kind \in {"edit", "rename", "mode", "binary", "create", "delete"}
  BY DEF Sections, Changes, FileChange
<1>2. \/ l = Line("diff", s.path)
      \/ l = Line("old", DevNull) \/ l = Line("old", s.path)
      \/ l = Line("new", DevNull) \/ l = Line("new", s.path)
      \/ l = Line("hunk", s.path)
      \/ s.change.kind \in {"create", "delete"} /\ l = Line("filemode", <<s.change.mode>>)
      \/ s.change.kind \in {"rename", "mode", "binary"} /\ l = Line(s.change.kind, s.path)
  BY <1>1 DEF Headers
<1>3. QED
  BY <1>2, LineKinds DEF PathsRead, ReadAsHeader

LEMMA ChangeLines ==
    ASSUME NEW s \in Sections
    PROVE  /\ Line("diff", s.path) \in Headers(s)
           /\ s.body # {} => Line("hunk", s.path) \in Headers(s)
           /\ s.change.kind \in {"create", "delete"} =>
                Line("filemode", <<s.change.mode>>) \in Headers(s)
           /\ s.change.kind \in {"rename", "mode", "binary"} =>
                Line(s.change.kind, s.path) \in Headers(s)
BY DEF Headers

(* A section of a kind that is refused shows in its header.                  *)
LEMMA ChangesShow ==
    ASSUME NEW s \in Sections, \A l \in Headers(s) : LineViolations(l) = {}
    PROVE  s.change.kind \in {"edit", "create", "delete"} /\ s.change.mode = "100644"
<1>1. \/ s.change.kind \in {"edit", "rename", "mode", "binary"} /\ s.change.mode = "100644"
      \/ s.change.kind \in {"create", "delete"} /\ s.change.mode \in Modes
  BY DEF Sections, Changes, FileChange
<1>2. s.change.kind \notin {"rename", "mode", "binary"}
  <2>1. SUFFICES ASSUME s.change.kind \in {"rename", "mode", "binary"}
                 PROVE  LineViolations(Line(s.change.kind, s.path)) # {}
    BY ChangeLines
  <2>2. QED
    BY <2>1, LineKinds DEF LineViolations
<1>3. s.change.kind \in {"create", "delete"} => s.change.mode = "100644"
  <2>1. SUFFICES ASSUME s.change.kind \in {"create", "delete"}, s.change.mode # "100644"
                 PROVE  LineViolations(Line("filemode", <<s.change.mode>>)) # {}
    BY ChangeLines
  <2>2. s.change.mode = "120000" \/ s.change.mode = "100755"
    BY <1>1, <2>1 DEF Modes
  <2> DEFINE l == Line("filemode", <<s.change.mode>>)
  <2>3. ~IsText(l) /\ l.role = "filemode" /\ l.name = <<s.change.mode>>
    BY LineKinds
  <2> HIDE DEF l
  <2>4. CASE s.change.mode = "120000"
    BY <2>3, <2>4 DEF LineViolations, l
  <2>5. CASE s.change.mode = "100755"
    <3>1. <<"100755">> # <<"120000">>
      OBVIOUS
    <3>2. LineViolations(l) = {"mode_change"}
      BY <2>3, <2>5, <3>1 DEF LineViolations
    <3>3. QED
      BY <3>2 DEF l
  <2>6. QED
    BY <2>2, <2>4, <2>5
<1>4. QED
  BY <1>1, <1>2, <1>3

(* An addition that bypasses a test is seen, or begins with more pluses; it  *)
(* may then be read as a header.                                             *)
LEMMA BypassesShow ==
    ASSUME NEW l \in Pieces, l.sign = "+", l.skip, LineViolations(l) = {}
    PROVE  l.begins = "marks" \/ (l.begins = "header" /\ PathsRead(l) = {l.name} \ {DevNull})
<1>1. IsText(l)
  BY LineKinds
<1>2. l.begins \in {"words", "marks", "header"}
  BY DEF Pieces
<1>3. l.begins # "words"
  BY <1>1 DEF LineViolations
<1>4. QED
  BY <1>1, <1>2, <1>3 DEF PathsRead, ReadAsHeader

(* A patch that passes both inspections is safe in Git's eyes (inspect and   *)
(* inspect_applied_paths), but for bypasses where the reader cannot see them.*)
THEOREM AcceptedStaysSafe == PatchSpec => []AcceptedIsSafe
<1>1. PatchInv => AcceptedIsSafe
  <2> SUFFICES ASSUME PatchInv, stage = "verified", Accepted
               PROVE  /\ applied \intersect Forbidden = {}
                      /\ AllowedPaths # {} => \A p \in applied : IsAllowed(p)
                      /\ \A s \in patch :
                          /\ s.change.kind \in {"edit", "create", "delete"}
                          /\ s.change.mode = "100644"
                          /\ \A l \in s.body : l.first.sign = "+" =>
                               \A piece \in {l.first} \union l.rest :
                                   IsText(piece) /\ piece.skip => Unseen(piece)
    BY DEF AcceptedIsSafe
  <2> DEFINE first == Inspect(patch, oversized)
             lines == Lines(patch)
             read == UNION {PathsRead(l) : l \in lines}
  <2>1. /\ inspection = Reinspect(first, applied) /\ inspection.violations = {}
        /\ GitTakes(patch) /\ applied = {s.path : s \in patch}
        /\ patch \subseteq Sections
    BY DEF PatchInv, PatchTypes, Inspecting, Accepted
  <2>2. first.violations = {} /\ applied = first.paths /\ PathViolations(applied) = {}
    BY <2>1 DEF Reinspect, Inspection
  <2>3. /\ first.paths = read \ Unsafe
        /\ read = read \ Unsafe
        /\ \A l \in lines : LineViolations(l) = {}
    BY <2>2 DEF Inspect, Inspection
  <2>4. applied \intersect Forbidden = {} /\ (AllowedPaths # {} => \A p \in applied : IsAllowed(p))
    BY <2>2 DEF PathViolations
  <2>5. ASSUME NEW l \in Pieces, l \in lines, l.skip
        PROVE  Unseen(l)
    <3>1. SUFFICES ASSUME l.sign = "+", l.begins # "marks"
                   PROVE  l.begins = "header" /\ l.name \in applied \union {DevNull}
      BY DEF Unseen
    <3>2. l.begins = "header" /\ PathsRead(l) = {l.name} \ {DevNull}
      BY <2>3, <2>5, <3>1, BypassesShow
    <3>3. PathsRead(l) \subseteq applied
      BY <2>2, <2>3, <2>5
    <3>4. QED
      BY <3>2, <3>3
  <2>7. ASSUME NEW s \in patch
        PROVE  /\ s.change.kind \in {"edit", "create", "delete"} /\ s.change.mode = "100644"
               /\ \A l \in s.body : \A piece \in {l.first} \union l.rest :
                    IsText(piece) /\ piece.skip => Unseen(piece)
    <3>1. Headers(s) \subseteq lines /\ s \in Sections
          /\ \A l \in s.body : {l.first} \union l.rest \subseteq lines
      BY <2>1 DEF Lines
    <3>2. \A l \in s.body : \A piece \in {l.first} \union l.rest :
            IsText(piece) /\ piece.skip => Unseen(piece)
      <4>1. SUFFICES ASSUME NEW l \in s.body, NEW piece \in {l.first} \union l.rest,
                            IsText(piece), piece.skip
                     PROVE  Unseen(piece)
        OBVIOUS
      <4>2. piece \in Pieces \union HeaderLines
        BY <3>1, <4>1, BodyPieces
      <4>3. piece \in Pieces
        BY <4>1, <4>2, StrayLines
      <4>4. QED
        BY <2>5, <3>1, <4>1, <4>3
    <3>3. QED
      BY <2>3, <3>1, <3>2, ChangesShow
  <2>8. QED
    BY <2>4, <2>7
<1>2. QED
  BY <1>1, PatchInvariant, PTL

(* What the inspection makes of a patch of safe sections.                    *)
LEMMA SafeSections ==
    ASSUME NEW p \in SUBSET Sections, p # {}, \A s \in p : IsSafe(s)
    PROVE  /\ Inspect(p, FALSE).violations = {}
           /\ Inspect(p, FALSE).paths = {s.path : s \in p}
           /\ PathViolations({s.path : s \in p}) = {}
<1> DEFINE lines == Lines(p)
           read == UNION {PathsRead(l) : l \in lines}
           paths == {s.path : s \in p}
           ofLines == UNION {LineViolations(l) : l \in lines}
           hunks == {l \in lines : ~IsText(l) /\ l.role = "hunk"}
<1> USE PatchAssumption DEF PatchAssumption
<1>1. ASSUME NEW s \in p
      PROVE  /\ s.path \in PatchPaths \ Forbidden /\ IsAllowed(s.path)
             /\ s.path # DevNull /\ s.path \notin Unsafe
             /\ \A l \in Headers(s) : LineViolations(l) = {} /\ PathsRead(l) \subseteq {s.path}
             /\ PathsRead(Line("diff", s.path)) = {s.path}
             /\ \A l \in s.body : /\ LineViolations(l.first) = {} /\ PathsRead(l.first) = {}
                                  /\ l.rest = {}
  <2>1. /\ s.path \in PatchPaths \ Forbidden /\ IsAllowed(s.path) /\ s.path # DevNull
        /\ s.path \notin Unsafe
    BY DEF IsSafe, IsAllowed
  <2>2. ASSUME NEW l \in Headers(s)
        PROVE  LineViolations(l) = {} /\ PathsRead(l) \subseteq {s.path}
    <3>1. /\ ~IsText(l) /\ PathsRead(l) \subseteq {s.path} \ {DevNull}
          /\ l.role \in {"diff", "old", "new", "hunk", "filemode", "rename", "mode", "binary"}
          /\ l.role = "filemode" => l.name = <<s.change.mode>>
          /\ l.role \in {"rename", "mode", "binary"} => l.role = s.change.kind
      BY LinesOfHeaders
    <3>2. s.change.kind \in {"edit", "create", "delete"} /\ s.change.mode = "100644"
      BY DEF IsSafe
    <3>3. l.role \in {"diff", "old", "new", "hunk", "filemode"}
      BY <3>1, <3>2
    <3>4. <<"100644">> # <<"120000">> /\ <<"100644">> # <<"100755">>
      OBVIOUS
    <3>5. LineViolations(l) = {}
      BY <3>1, <3>2, <3>3, <3>4 DEF LineViolations
    <3>6. QED
      BY <3>1, <3>5
  <2>3. PathsRead(Line("diff", s.path)) = {s.path}
    BY <2>1, LineKinds DEF PathsRead, ReadAsHeader
  <2>4. ASSUME NEW l \in s.body
        PROVE  /\ LineViolations(l.first) = {} /\ PathsRead(l.first) = {}
               /\ l.rest = {}
    <3>1. l.first \in Pieces /\ l.rest = {}
      BY BodyPieces DEF IsSafe
    <3>2. /\ IsText(l.first) /\ l.first.begins # "header"
          /\ ~(l.first.sign = "+" /\ l.first.skip)
      BY <3>1, LineKinds DEF IsSafe
    <3>3. QED
      BY <3>1, <3>2 DEF LineViolations, PathsRead, ReadAsHeader
  <2>5. QED
    BY <2>1, <2>2, <2>3, <2>4
<1>2. read = paths
  <2>1. ASSUME NEW s \in p
        PROVE  s.path \in read
    <3>1. Line("diff", s.path) \in Headers(s)
      BY ChangeLines
    <3>2. Line("diff", s.path) \in lines
      BY <3>1 DEF Lines
    <3>3. s.path \in PathsRead(Line("diff", s.path))
      BY <1>1
    <3>4. QED
      BY <3>2, <3>3
  <2>2. ASSUME NEW l \in lines
        PROVE  PathsRead(l) \subseteq paths
    BY <1>1 DEF Lines
  <2>3. QED
    BY <2>1, <2>2
<1>3. ofLines = {}
  <2>1. ASSUME NEW l \in lines
        PROVE  LineViolations(l) = {}
    BY <1>1 DEF Lines
  <2>2. QED
    BY <2>1
<1>4. hunks # {}
  <2>1. PICK s \in p : TRUE
    OBVIOUS
  <2>2. Line("hunk", s.path) \in lines
    <3>1. s \in Sections /\ s.body # {}
      BY DEF IsSafe
    <3>2. Line("hunk", s.path) \in Headers(s)
      BY <3>1, ChangeLines
    <3>3. QED
      BY <3>2 DEF Lines
  <2>3. QED
    BY <2>2, LineKinds
<1>5. read \ Unsafe = paths /\ paths # {}
  BY <1>1, <1>2
<1>6. PathViolations(paths) = {}
  <2>1. \A q \in paths : IsAllowed(q) /\ q \notin Forbidden
    BY <1>1
  <2> HIDE DEF paths
  <2>2. QED
    BY <2>1 DEF PathViolations
<1>7. Inspect(p, FALSE) = Inspection(read \ Unsafe,
         ofLines
         \union {}
         \union (IF read # read \ Unsafe THEN {"path_escape"} ELSE {})
         \union (IF read \ Unsafe = {} THEN {"malformed"} ELSE {})
         \union (IF hunks = {} /\ "binary_patch" \notin ofLines THEN {"malformed"} ELSE {})
         \union PathViolations(read \ Unsafe))
  BY DEF Inspect
<1> HIDE DEF read, ofLines, hunks, paths
<1>8. read \ Unsafe = read
  BY <1>2, <1>5
<1>9. Inspect(p, FALSE) = Inspection(paths, {})
  <2>1. (IF read # read \ Unsafe THEN {"path_escape"} ELSE {}) = {}
    BY <1>8
  <2>2. (IF read \ Unsafe = {} THEN {"malformed"} ELSE {}) = {}
    BY <1>5
  <2>3. (IF hunks = {} /\ "binary_patch" \notin ofLines THEN {"malformed"} ELSE {}) = {}
    BY <1>4
  <2>4. PathViolations(read \ Unsafe) = {}
    BY <1>5, <1>6
  <2>5. Inspect(p, FALSE) = Inspection(read \ Unsafe, {} \union {} \union {} \union {} \union {} \union {})
    BY <1>3, <1>7, <2>1, <2>2, <2>3, <2>4, Zenon
  <2>6. {} \union {} \union {} \union {} \union {} \union {} = {}
    OBVIOUS
  <2>7. QED
    BY <1>5, <2>5, <2>6
<1>10. Inspect(p, FALSE).violations = {} /\ Inspect(p, FALSE).paths = paths
  <2>1. Inspection(paths, {}).violations = {} /\ Inspection(paths, {}).paths = paths
    BY DEF Inspection
  <2>2. QED
    BY <1>9, <2>1, Zenon
<1>11. QED
  BY <1>6, <1>10 DEF paths

(* A diff of allowed text files, edited, created or deleted, passes both     *)
(* inspections when no line of it bypasses a test or reads like a header.    *)
THEOREM SafeEditsStayAccepted == PatchSpec => []SafeEditsPass
<1>1. PatchInv => SafeEditsPass
  <2> SUFFICES ASSUME PatchInv, stage \in {"inspected", "verified"}, ~oversized, patch # {},
                      \A s \in patch : IsSafe(s)
               PROVE  inspection.violations = {}
    BY DEF SafeEditsPass, Accepted
  <2>1. oversized = FALSE /\ patch \in SUBSET Sections
    BY DEF PatchInv, PatchTypes
  <2> DEFINE first == Inspect(patch, oversized)
             paths == {s.path : s \in patch}
  <2>2. first.violations = {} /\ first.paths = paths /\ PathViolations(paths) = {}
    BY <2>1, SafeSections
  <2>3. CASE stage = "inspected"
    BY <2>2, <2>3 DEF PatchInv, Inspecting
  <2>4. CASE stage = "verified"
    <3>1. inspection = Reinspect(first, applied) /\ applied = paths
      BY <2>4 DEF PatchInv, Inspecting
    <3> HIDE DEF first, paths
    <3>2. QED
      BY <2>2, <3>1 DEF Reinspect, Inspection
  <2>5. QED
    BY <2>3, <2>4
<1>2. QED
  BY <1>1, PatchInvariant, PTL

(* The policy draws its line where it should.                                *)
THEOREM PatchesStayJudgedRightly == PatchSpec => []PatchesAreJudgedRightly
BY AcceptedStaysSafe, SafeEditsStayAccepted, PTL DEF PatchesAreJudgedRightly

(* The values of the variables: the paths and codes of every inspection.     *)
THEOREM PatchTypeCorrect == PatchSpec => []PatchTypeOK
<1>1. \A paths : PathViolations(paths) \subseteq Codes
  BY DEF PathViolations, Codes
<1>2. ASSUME NEW p \in SUBSET Sections, NEW tooLong \in BOOLEAN
      PROVE  /\ Inspect(p, tooLong).paths \subseteq PatchPaths
             /\ Inspect(p, tooLong).violations \subseteq Codes
  <2> DEFINE lines == Lines(p)
             read == UNION {PathsRead(l) : l \in lines}
             ofLines == UNION {LineViolations(l) : l \in lines}
             hunks == {l \in lines : ~IsText(l) /\ l.role = "hunk"}
             found == ofLines
                 \union (IF tooLong THEN {"oversized"} ELSE {})
                 \union (IF read # read \ Unsafe THEN {"path_escape"} ELSE {})
                 \union (IF read \ Unsafe = {} THEN {"malformed"} ELSE {})
                 \union (IF hunks = {} /\ "binary_patch" \notin ofLines THEN {"malformed"} ELSE {})
                 \union PathViolations(read \ Unsafe)
  <2>1. ASSUME NEW l \in lines
        PROVE  /\ PathsRead(l) \subseteq PatchPaths \union Unsafe
               /\ LineViolations(l) \subseteq Codes
    <3>1. PICK s \in p : \/ l \in Headers(s)
                         \/ \E t \in s.body : l \in {t.first} \union t.rest
      BY DEF Lines
    <3>2. s \in Sections /\ s.path \in PatchPaths \union Unsafe
      BY DEF Sections
    <3>3. PathsRead(l) \subseteq PatchPaths \union Unsafe
      <4>1. CASE l \in Headers(s)
        BY <3>2, <4>1, LinesOfHeaders
      <4>2. CASE l \in HeaderLines
        BY <4>2, StrayLines DEF PathsRead, Names
      <4>3. CASE l \in Pieces
        BY <4>3, LineKinds DEF PathsRead, Names
      <4>4. QED
        BY <3>1, <3>2, <4>1, <4>2, <4>3, BodyPieces
    <3>4. LineViolations(l) \subseteq Codes
      BY DEF LineViolations, Codes
    <3>5. QED
      BY <3>3, <3>4
  <2>2. read \ Unsafe \subseteq PatchPaths /\ ofLines \subseteq Codes
    BY <2>1
  <2>3. Inspect(p, tooLong) = Inspection(read \ Unsafe, found)
    BY DEF Inspect
  <2> HIDE DEF read, ofLines, hunks
  <2>4. found \subseteq Codes
    BY <1>1, <2>2 DEF Codes
  <2> HIDE DEF found
  <2>5. Inspection(read \ Unsafe, found).paths = read \ Unsafe
        /\ Inspection(read \ Unsafe, found).violations = found
    BY DEF Inspection
  <2>6. QED
    BY <2>2, <2>3, <2>4, <2>5
<1>3. PatchInv => PatchTypeOK
  <2> SUFFICES ASSUME PatchInv
               PROVE  PatchTypeOK
    OBVIOUS
  <2> DEFINE first == Inspect(patch, oversized)
  <2>1. /\ patch \in SUBSET Sections /\ oversized \in BOOLEAN
        /\ stage \in {"written", "inspected", "applied", "verified"}
    BY DEF PatchInv, PatchTypes
  <2>2. first.paths \subseteq PatchPaths /\ first.violations \subseteq Codes
    BY <1>2, <2>1
  <2> HIDE DEF first
  <2>3. applied \subseteq PatchPaths
    BY <2>1 DEF PatchInv, Inspecting, GitTakes
  <2>4. /\ NoInspection.paths = {} /\ NoInspection.violations = {}
        /\ Reinspect(first, applied).paths = applied
        /\ Reinspect(first, applied).violations \subseteq Codes
    BY <1>1, <2>2 DEF NoInspection, Reinspect, Inspection, Codes
  <2>5. inspection.paths \subseteq PatchPaths /\ inspection.violations \subseteq Codes
    BY <2>1, <2>2, <2>3, <2>4 DEF PatchInv, Inspecting, first
  <2>6. QED
    BY <2>1, <2>3, <2>5 DEF PatchTypeOK
<1>4. QED
  BY <1>3, PatchInvariant, PTL
-----------------------------------------------------------------------------
(* The dataset                                                               *)

(* What an import writes is what the export says, with the content that was  *)
(* judged.                                                                   *)
SealedManifest(v, t) == Manifest(t, exports[v][t], exports[v][t].evidence)

SealedEntry(v, t) ==
    LET r == exports[v][t] IN
    [split |-> r.split, repository |-> r.repository, url |-> r.url, lineage |-> r.lineage,
     manifest |-> SealedManifest(v, t), result |-> SealedManifest(v, t).result]

SealedDataset(v) ==
    [version |-> v, entries |-> [t \in DOMAIN exports[v] |-> SealedEntry(v, t)]]

Faithful(v) ==
    /\ imported[v] \in [DatasetFiles -> {imported[v][f] : f \in DatasetFiles}]
    /\ DOMAIN imported[v].manifests = DOMAIN exports[v]
    /\ imported[v].dataset = SealedDataset(v)
    /\ imported[v].repositories = Merged(exports[v])
    /\ \A t \in DOMAIN exports[v] : exports[v][t].evidence \in SoundContents
    /\ Mergeable(exports[v])
    /\ AuditIsValid(SealedDataset(v), SealedDataset(v), Merged(exports[v]))

(* What a runtime rests on: one import's dataset, and the repository records *)
(* of an import, perhaps another.                                            *)
Backed(v, records) ==
    /\ LineageIsClean(records)
    /\ \A t \in DOMAIN exports[v] : \E r \in records :
         /\ r.split = exports[v][t].split /\ r.url = exports[v][t].url
         /\ r.lineage = exports[v][t].lineage /\ exports[v][t].commit \in r.commits

Rests(v, w) ==
    /\ runtime.dataset = SealedDataset(v)
    /\ DOMAIN runtime.tasks = DOMAIN exports[v]
    /\ \A t \in DOMAIN exports[v] : runtime.tasks[t] = SealedManifest(v, t)
    /\ Backed(v, Merged(exports[w]))

Saw(v) ==
    /\ DOMAIN rollouts.saw \subseteq DOMAIN exports[v] \intersect DOMAIN runtime.tasks
    /\ rollouts.split \in Splits
    /\ \A t \in DOMAIN rollouts.saw : /\ rollouts.saw[t] = exports[v][t].evidence
                                      /\ exports[v][t].split = rollouts.split

DatasetInv ==
    /\ exports \in Histories /\ disk \in [Tasks -> Contents]
    /\ DOMAIN imported = DOMAIN exports
    /\ \A v \in Imported : Faithful(v)
    /\ runtime # NotYet => \E v, w \in Imported : Rests(v, w)
    /\ rollouts # NotYet =>
         runtime # NotYet /\ rollouts.version \in Imported /\ Saw(rollouts.version)

LEMMA PairSize ==
    ASSUME NEW x, NEW y, x # y
    PROVE  IsFiniteSet({x} \union {y}) /\ Cardinality({x} \union {y}) = 2
<1> DEFINE X == {x}
<1>1. IsFiniteSet(X) /\ Cardinality(X) = 1 /\ y \notin X
  BY FS_Singleton
<1> HIDE DEF X
<1>2. IsFiniteSet(X \union {y})
  BY <1>1, FS_AddElement
<1>3. Cardinality(X \union {y}) = IF y \in X THEN Cardinality(X) ELSE Cardinality(X) + 1
  BY <1>1, FS_AddElement, Zenon
<1>4. Cardinality(X \union {y}) = 2
  BY <1>1, <1>3
<1>5. QED
  BY <1>2, <1>4 DEF X

(* The splits of records that share a value, none of them in conflict.       *)
LEMMA SharingSplits ==
    ASSUME NEW sharing, \A r \in sharing : r.split \in Splits, ~Conflict(sharing),
           NEW a \in sharing, NEW b \in sharing
    PROVE  a.split = b.split
<1> DEFINE S == {r.split : r \in sharing}
<1>1. SUFFICES ASSUME a.split # b.split
               PROVE  FALSE
  OBVIOUS
<1>2. S \subseteq Splits /\ IsFiniteSet(Splits)
  BY DatasetAssumption DEF DatasetAssumption
<1>3. IsFiniteSet(S) /\ Cardinality(S) \in Nat
  BY <1>2, FS_Subset, FS_CardinalityType
<1>5. /\ IsFiniteSet({a.split} \union {b.split})
      /\ Cardinality({a.split} \union {b.split}) = 2
  BY <1>1, PairSize
<1>6. {a.split} \union {b.split} \subseteq S
  OBVIOUS
<1>7. Cardinality({a.split} \union {b.split}) <= Cardinality(S)
  BY <1>3, <1>6, FS_Subset
<1>8. ~(Cardinality(S) >= 2)
  BY DEF Conflict
<1>9. QED
  BY <1>3, <1>5, <1>7, <1>8

(* The records an export is merged into.                                     *)
LEMMA MergedRecords ==
    ASSUME NEW h \in Histories, NEW v \in DOMAIN h
    PROVE  /\ \A r \in Merged(h[v]) : r.split \in Splits
           /\ \A t \in DOMAIN h[v] : \E r \in Merged(h[v]) :
                /\ r.repository = h[v][t].repository /\ r.url = h[v][t].url
                /\ r.lineage = h[v][t].lineage /\ r.split = h[v][t].split
                /\ h[v][t].commit \in r.commits /\ h[v][t].fingerprint \in r.fingerprints
<1>1. \A t \in DOMAIN h[v] : h[v][t].split \in Splits
  BY DatasetAssumption DEF DatasetAssumption
<1>2. \A t \in DOMAIN h[v] : t \in Same(h[v], t)
  BY DEF Same
<1>3. \A r \in Merged(h[v]) : r.split \in Splits
  BY <1>1 DEF Merged
<1>4. ASSUME NEW t \in DOMAIN h[v]
      PROVE  \E r \in Merged(h[v]) :
                /\ r.repository = h[v][t].repository /\ r.url = h[v][t].url
                /\ r.lineage = h[v][t].lineage /\ r.split = h[v][t].split
                /\ h[v][t].commit \in r.commits /\ h[v][t].fingerprint \in r.fingerprints
  <2> DEFINE commits == {h[v][u].commit : u \in Same(h[v], t)}
             fingerprints == {h[v][u].fingerprint : u \in Same(h[v], t)}
             record == [repository |-> h[v][t].repository, url |-> h[v][t].url,
                        lineage |-> h[v][t].lineage, split |-> h[v][t].split,
                        commits |-> commits, fingerprints |-> fingerprints]
  <2>1. h[v][t].commit \in commits /\ h[v][t].fingerprint \in fingerprints
    BY <1>2
  <2>2. record \in Merged(h[v])
    BY DEF Merged
  <2> HIDE DEF commits, fingerprints
  <2>3. /\ record.repository = h[v][t].repository /\ record.url = h[v][t].url
        /\ record.lineage = h[v][t].lineage /\ record.split = h[v][t].split
        /\ record.commits = commits /\ record.fingerprints = fingerprints
    OBVIOUS
  <2> HIDE DEF record
  <2>4. QED
    BY <2>1, <2>2, <2>3
<1>5. QED
  BY <1>3, <1>4

LEMMA DatasetInitInv == DatasetInit => DatasetInv
BY DEF DatasetInit, DatasetInv, Imported

LEMMA ImportKeeps ==
    ASSUME DatasetInv, NEW v \in DOMAIN exports, Import(v)
    PROVE  DatasetInv'
<1> DEFINE export == exports[v]
<1>1. /\ imported[v] = NotYet /\ Mergeable(export)
      /\ \A t \in DOMAIN export : export[t].evidence \in SoundContents
                                  /\ export[t].evidence = disk[t]
      /\ AuditIsValid(Bundle(v).dataset, Bundle(v).seal, Bundle(v).repositories)
      /\ imported' = [imported EXCEPT ![v] = Bundle(v)]
      /\ UNCHANGED <<exports, disk, runtime, rollouts>>
  BY DEF Import
<1>2. DOMAIN imported = DOMAIN exports /\ DOMAIN imported' = DOMAIN exports
  BY <1>1 DEF DatasetInv
<1>3. \A t \in DOMAIN export : Manifest(t, export[t], disk[t]) = SealedManifest(v, t)
  BY <1>1 DEF SealedManifest
<1>4. Bundle(v).dataset = SealedDataset(v)
  BY <1>3 DEF Bundle, SealedDataset, SealedEntry
<1>5. /\ Bundle(v).seal = Bundle(v).dataset /\ Bundle(v).repositories = Merged(export)
      /\ DOMAIN Bundle(v).manifests = DOMAIN export
      /\ DOMAIN Bundle(v) = DatasetFiles
  BY DEF Bundle, DatasetFiles
<1>6. Bundle(v) \in [DatasetFiles -> {Bundle(v)[f] : f \in DatasetFiles}]
  BY DEF Bundle, DatasetFiles
<1>7. imported'[v] = Bundle(v) /\ \A w \in DOMAIN exports : w # v => imported'[w] = imported[w]
  BY <1>1, <1>2
<1>8. \A w \in DOMAIN exports : SealedDataset(w)' = SealedDataset(w)
  BY <1>1 DEF SealedDataset, SealedEntry, SealedManifest
<1>9. Faithful(v)'
  BY <1>1, <1>4, <1>5, <1>6, <1>7, <1>8 DEF Faithful
<1>10. \A w \in Imported' : w \in Imported \/ w = v
  BY <1>2, <1>7 DEF Imported
<1>11. \A w \in Imported : w # v /\ w \in DOMAIN exports /\ w \in Imported'
  BY <1>1, <1>2, <1>7 DEF Imported
<1>12. \A w \in Imported : Faithful(w)'
  BY <1>1, <1>7, <1>8, <1>11 DEF Faithful, DatasetInv
<1>13. runtime' # NotYet => \E w, x \in Imported' : Rests(w, x)'
  <2>1. \A w, x \in Imported : Rests(w, x) => Rests(w, x)'
    BY <1>1, <1>8, <1>11 DEF Rests, Backed, SealedManifest
  <2>2. QED
    BY <1>1, <1>11, <2>1 DEF DatasetInv
<1>14. rollouts' # NotYet => rollouts'.version \in Imported' /\ Saw(rollouts.version)'
  BY <1>1, <1>11 DEF DatasetInv, Saw
<1>15. QED
  BY <1>1, <1>2, <1>9, <1>10, <1>12, <1>13, <1>14 DEF DatasetInv

LEMMA MaterializeKeeps ==
    ASSUME DatasetInv, Materialize
    PROVE  DatasetInv'
<1>1. runtime = NotYet /\ UNCHANGED <<exports, disk, imported, rollouts>>
  BY DEF Materialize
<1> DEFINE known == UNION {DOMAIN exports[v] : v \in Imported}
<1>2. PICK pick \in [DatasetFiles \ Lists -> Imported], mix \in [Lists -> [known -> Imported]] :
          LET f == Taken(pick, mix) IN
          /\ Trusted(f)
          /\ runtime' = [dataset |-> f.dataset, repositories |-> f.repositories,
                         tasks |-> f.manifests]
  BY DEF Materialize
<1> HIDE DEF known
<1> DEFINE f == Taken(pick, mix)
           v == pick["dataset"]
           w == pick["repositories"]
<1>3. v \in Imported /\ w \in Imported
  BY DEF DatasetFiles, Lists
<1>4. f.dataset = imported[v].dataset /\ f.repositories = imported[w].repositories
  BY DEF Taken, DatasetFiles, Lists
<1>5. imported[v].dataset = SealedDataset(v) /\ imported[w].repositories = Merged(exports[w])
  BY <1>3 DEF DatasetInv, Faithful
<1> HIDE DEF f, v, w
<1>6. /\ Trusted(f)
      /\ runtime' = [dataset |-> f.dataset, repositories |-> f.repositories,
                     tasks |-> f.manifests]
  BY <1>2 DEF f
<1>7. /\ SealedDataset(v).entries = [t \in DOMAIN exports[v] |-> SealedEntry(v, t)]
      /\ DOMAIN SealedDataset(v).entries = DOMAIN exports[v]
  BY DEF SealedDataset
<1>8. \A t \in DOMAIN exports[v] :
        LET e == SealedDataset(v).entries[t] IN
        /\ e.split = exports[v][t].split /\ e.url = exports[v][t].url
        /\ e.lineage = exports[v][t].lineage /\ e.repository = exports[v][t].repository
        /\ e.manifest = SealedManifest(v, t)
        /\ e.manifest.commit = exports[v][t].commit
  <2> SUFFICES ASSUME NEW t \in DOMAIN exports[v]
               PROVE  LET e == SealedDataset(v).entries[t] IN
                      /\ e.split = exports[v][t].split /\ e.url = exports[v][t].url
                      /\ e.lineage = exports[v][t].lineage
                      /\ e.repository = exports[v][t].repository
                      /\ e.manifest = SealedManifest(v, t)
                      /\ e.manifest.commit = exports[v][t].commit
    OBVIOUS
  <2>1. SealedDataset(v).entries[t] = SealedEntry(v, t)
    BY <1>7
  <2>2. SealedManifest(v, t).commit = exports[v][t].commit
    BY DEF SealedManifest, Manifest
  <2>3. QED
    BY <2>1, <2>2 DEF SealedEntry
<1>9. /\ DOMAIN f.manifests = DOMAIN exports[v]
      /\ AuditIsValid(SealedDataset(v), f.seal, Merged(exports[w]))
      /\ \A t \in DOMAIN exports[v] :
           /\ f.manifests[t] = SealedDataset(v).entries[t].manifest
           /\ \A r \in Merged(exports[w]) :
                r.repository = SealedDataset(v).entries[t].repository =>
                    f.manifests[t].commit \in r.commits
  <2>1. f.dataset = SealedDataset(v) /\ f.repositories = Merged(exports[w])
    BY <1>4, <1>5
  <2>2. /\ AuditIsValid(f.dataset, f.seal, f.repositories)
        /\ DOMAIN f.manifests = DOMAIN f.dataset.entries
        /\ \A t \in DOMAIN f.dataset.entries :
             /\ f.manifests[t] = f.dataset.entries[t].manifest
             /\ \A r \in f.repositories : r.repository = f.dataset.entries[t].repository =>
                                            f.manifests[t].commit \in r.commits
    BY <1>6 DEF Trusted
  <2>3. QED
    BY <1>7, <2>1, <2>2
<1>10. Backed(v, Merged(exports[w]))
  <2>1. LineageIsClean(Merged(exports[w]))
    BY <1>9 DEF AuditIsValid
  <2>2. ASSUME NEW t \in DOMAIN exports[v]
        PROVE  \E r \in Merged(exports[w]) :
                 /\ r.split = exports[v][t].split /\ r.url = exports[v][t].url
                 /\ r.lineage = exports[v][t].lineage /\ exports[v][t].commit \in r.commits
    <3> DEFINE e == SealedDataset(v).entries[t]
               records == Merged(exports[w])
    <3>1. PICK r \in records :
            /\ {q \in records : q.repository = e.repository} = {r}
            /\ r.split = e.split /\ r.url = e.url /\ r.lineage = e.lineage
      BY <1>7, <1>9 DEF AuditIsValid
    <3>2. r.repository = e.repository
      BY <3>1
    <3>3. exports[v][t].commit \in r.commits
      BY <1>8, <1>9, <3>2
    <3>4. QED
      BY <1>8, <3>1, <3>3
  <2>3. QED
    BY <2>1, <2>2 DEF Backed
<1>11. /\ runtime'.dataset = SealedDataset(v) /\ DOMAIN runtime'.tasks = DOMAIN exports[v]
       /\ \A t \in DOMAIN exports[v] : runtime'.tasks[t] = SealedManifest(v, t)
  BY <1>4, <1>5, <1>6, <1>8, <1>9
<1>12. /\ SealedDataset(v)' = SealedDataset(v)
       /\ \A t : SealedManifest(v, t)' = SealedManifest(v, t)
       /\ Backed(v, Merged(exports[w]))' <=> Backed(v, Merged(exports[w]))
  BY <1>1 DEF SealedDataset, SealedEntry, SealedManifest, Backed, v, w
<1>13. Rests(v, w)'
  BY <1>1, <1>10, <1>11, <1>12 DEF Rests, v, w
<1>14. Imported' = Imported /\ \A x \in Imported : Faithful(x)'
  BY <1>1 DEF Imported, DatasetInv, Faithful, SealedDataset, SealedEntry, SealedManifest
<1>15. rollouts = NotYet
  BY <1>1 DEF DatasetInv
<1>16. QED
  BY <1>1, <1>3, <1>13, <1>14, <1>15 DEF DatasetInv

LEMMA CollectKeeps ==
    ASSUME DatasetInv, Collect
    PROVE  DatasetInv'
<1>1. runtime # NotYet /\ UNCHANGED <<exports, disk, imported, runtime>>
  BY DEF Collect
<1>2. PICK v \in Imported, expected \in Splits, given \in Splits :
          LET tasks == {t \in DOMAIN runtime.tasks : runtime.tasks[t].split = given} IN
          /\ Bound(v, expected, tasks)
          /\ rollouts' = [version |-> v, split |-> expected, saw |-> [t \in tasks |-> disk[t]]]
  BY DEF Collect
<1> DEFINE tasks == {t \in DOMAIN runtime.tasks : runtime.tasks[t].split = given}
           sees == [t \in tasks |-> disk[t]]
<1>3. PICK u \in Imported, w \in Imported : Rests(u, w)
  BY <1>1 DEF DatasetInv
<1>4. u = v
  <2>1. SealedDataset(u) = SealedDataset(v)
    BY <1>2, <1>3 DEF Bound, Rests, DatasetInv, Faithful
  <2>2. SealedDataset(u).version = u /\ SealedDataset(v).version = v
    BY DEF SealedDataset
  <2>3. QED
    BY <2>1, <2>2
<1>5. ASSUME NEW t \in tasks
      PROVE  /\ t \in DOMAIN exports[v] /\ disk[t] = exports[v][t].evidence
             /\ exports[v][t].split = expected
  <2>1. t \in DOMAIN exports[v] /\ runtime.tasks[t] = SealedManifest(v, t)
    BY <1>3, <1>4 DEF Rests
  <2>2. runtime.tasks[t].split = expected /\ runtime.tasks[t].content = disk[t]
    BY <1>2 DEF Bound, PathsAreSealed
  <2>3. /\ SealedManifest(v, t).split = exports[v][t].split
        /\ SealedManifest(v, t).content = exports[v][t].evidence
    BY DEF SealedManifest, Manifest
  <2>4. QED
    BY <2>1, <2>2, <2>3
<1>6. rollouts' = [version |-> v, split |-> expected, saw |-> sees]
  BY <1>2
<1>7. DOMAIN sees = tasks /\ \A t \in tasks : sees[t] = disk[t]
  OBVIOUS
<1>8. tasks \subseteq DOMAIN runtime.tasks
  OBVIOUS
<1> HIDE DEF tasks, sees
<1>9. rollouts'.version = v /\ rollouts'.split = expected /\ rollouts'.saw = sees
  BY <1>6
<1>10. Saw(v)'
  BY <1>1, <1>5, <1>7, <1>8, <1>9 DEF Saw
<1>11. Saw(rollouts.version)'
  BY <1>9, <1>10 DEF Saw
<1>12. /\ Imported' = Imported /\ \A x \in Imported : Faithful(x)'
       /\ \A x, y \in Imported : Rests(x, y) => Rests(x, y)'
  BY <1>1 DEF Imported, DatasetInv, Faithful, Rests, Backed, SealedDataset, SealedEntry,
              SealedManifest
<1>13. QED
  BY <1>1, <1>9, <1>11, <1>12 DEF DatasetInv

LEMMA DatasetNextInv == DatasetInv /\ [DatasetNext]_datasetVars => DatasetInv'
<1> SUFFICES ASSUME DatasetInv, [DatasetNext]_datasetVars
             PROVE  DatasetInv'
  OBVIOUS
<1>1. CASE Change \/ UNCHANGED datasetVars
  <2>1. /\ UNCHANGED <<exports, imported, runtime, rollouts>>
        /\ disk' \in [Tasks -> Contents]
    BY <1>1 DEF Change, datasetVars, DatasetInv
  <2>2. /\ Imported' = Imported /\ \A x \in Imported : Faithful(x)'
        /\ \A x, y \in Imported : Rests(x, y) => Rests(x, y)'
        /\ \A x : Saw(x) => Saw(x)'
    BY <2>1 DEF Imported, DatasetInv, Faithful, Rests, Backed, SealedDataset, SealedEntry,
                SealedManifest, Saw
  <2>3. Saw(rollouts.version)' <=> Saw(rollouts.version)
    BY <2>1 DEF Saw
  <2>4. QED
    BY <2>1, <2>2, <2>3 DEF DatasetInv
<1>2. QED
  BY <1>1, ImportKeeps, MaterializeKeeps, CollectKeeps DEF DatasetNext

(* What was imported says what its export said of the content then judged,   *)
(* and runtimes and rollouts rest on imports.                                *)
THEOREM DatasetInvariant == DatasetSpec => []DatasetInv
BY DatasetInitInv, DatasetNextInv, PTL DEF DatasetSpec

(* The values of the variables of every import, runtime and rollout.        *)
THEOREM DatasetTypeCorrect == DatasetSpec => []DatasetTypeOK
<1>1. DatasetInv => DatasetTypeOK
  <2> SUFFICES ASSUME DatasetInv
               PROVE  DatasetTypeOK
    OBVIOUS
  <2>1. \A v \in DOMAIN exports : DOMAIN exports[v] \subseteq Tasks
    BY DatasetAssumption DEF DatasetAssumption, DatasetInv
  <2>2. \A v \in Imported : v \in DOMAIN exports
    BY DEF Imported, DatasetInv
  <2>3. runtime # NotYet => DOMAIN runtime.tasks \subseteq Tasks
    BY <2>1, <2>2 DEF DatasetInv, Rests
  <2>4. \A v \in Imported : DOMAIN imported[v] = DatasetFiles
    BY DEF DatasetInv, Faithful
  <2>5. QED
    BY <2>1, <2>3, <2>4 DEF DatasetTypeOK, DatasetInv, Faithful, Saw
<1>2. QED
  BY <1>1, DatasetInvariant, PTL

(* No repository reaches two splits of an imported dataset, by its name, its *)
(* address, its lineage, a commit or the contents of one (the merging of the *)
(* import, and audit_sealed_split).                                          *)
THEOREM ImportsStayApart == DatasetSpec => []ImportsKeepSplitsApart
<1>1. DatasetInv => ImportsKeepSplitsApart
  <2> SUFFICES ASSUME DatasetInv, NEW v \in Imported,
                      NEW t \in DOMAIN exports[v], NEW u \in DOMAIN exports[v],
                      Related(exports[v][t], exports[v][u])
               PROVE  exports[v][t].split = exports[v][u].split
    BY DEF ImportsKeepSplitsApart
  <2> DEFINE records == Merged(exports[v])
             a == exports[v][t]
             b == exports[v][u]
  <2>1. /\ exports \in Histories /\ v \in DOMAIN exports
        /\ Mergeable(exports[v]) /\ LineageIsClean(records)
    BY DEF DatasetInv, Faithful, Imported, AuditIsValid
  <2>2. CASE a.repository = b.repository
    BY <2>1, <2>2 DEF Mergeable, Same
  <2>3. \A r \in records : r.split \in Splits
    BY <2>1, MergedRecords
  <2>4. PICK r \in records :
          /\ r.url = a.url /\ r.lineage = a.lineage /\ r.split = a.split
          /\ a.commit \in r.commits /\ a.fingerprint \in r.fingerprints
    BY <2>1, MergedRecords
  <2>5. PICK s \in records :
          /\ s.url = b.url /\ s.lineage = b.lineage /\ s.split = b.split
          /\ b.commit \in s.commits /\ b.fingerprint \in s.fingerprints
    BY <2>1, MergedRecords
  <2>6. /\ ~Conflict({q \in records : q.lineage = r.lineage})
        /\ ~Conflict({q \in records : q.url = r.url})
        /\ ~Conflict({q \in records : a.commit \in q.commits})
        /\ ~Conflict({q \in records : a.fingerprint \in q.fingerprints})
    BY <2>1, <2>4 DEF LineageIsClean
  <2> HIDE DEF records, a, b
  <2>7. CASE a.url = b.url
    <3>1. r \in {q \in records : q.url = r.url} /\ s \in {q \in records : q.url = r.url}
      BY <2>4, <2>5, <2>7
    <3>2. r.split = s.split
      BY <2>3, <2>6, <3>1, SharingSplits
    <3>3. QED
      BY <2>4, <2>5, <3>2 DEF a, b
  <2>8. CASE a.lineage = b.lineage
    <3>1. /\ r \in {q \in records : q.lineage = r.lineage}
          /\ s \in {q \in records : q.lineage = r.lineage}
      BY <2>4, <2>5, <2>8
    <3>2. r.split = s.split
      BY <2>3, <2>6, <3>1, SharingSplits
    <3>3. QED
      BY <2>4, <2>5, <3>2 DEF a, b
  <2>9. CASE a.commit = b.commit
    <3>1. /\ r \in {q \in records : a.commit \in q.commits}
          /\ s \in {q \in records : a.commit \in q.commits}
      BY <2>4, <2>5, <2>9
    <3>2. r.split = s.split
      BY <2>3, <2>6, <3>1, SharingSplits
    <3>3. QED
      BY <2>4, <2>5, <3>2 DEF a, b
  <2>10. CASE a.fingerprint = b.fingerprint
    <3>1. /\ r \in {q \in records : a.fingerprint \in q.fingerprints}
          /\ s \in {q \in records : a.fingerprint \in q.fingerprints}
      BY <2>4, <2>5, <2>10
    <3>2. r.split = s.split
      BY <2>3, <2>6, <3>1, SharingSplits
    <3>3. QED
      BY <2>4, <2>5, <3>2 DEF a, b
  <2>11. QED
    BY <2>2, <2>7, <2>8, <2>9, <2>10 DEF Related, a, b
<1>2. QED
  BY <1>1, DatasetInvariant, PTL

(* The same of what is materialized from the files of several imports        *)
(* (validate_dataset_trust).                                                 *)
THEOREM RuntimesStayApart == DatasetSpec => []RuntimesKeepSplitsApart
<1>1. DatasetInv => RuntimesKeepSplitsApart
  <2> SUFFICES ASSUME DatasetInv, runtime # NotYet,
                      NEW t \in DOMAIN runtime.tasks, NEW u \in DOMAIN runtime.tasks,
                      \/ runtime.tasks[t].url = runtime.tasks[u].url
                      \/ runtime.tasks[t].lineage = runtime.tasks[u].lineage
                      \/ runtime.tasks[t].commit = runtime.tasks[u].commit
               PROVE  runtime.tasks[t].split = runtime.tasks[u].split
    BY DEF RuntimesKeepSplitsApart
  <2>1. PICK v \in Imported, w \in Imported : Rests(v, w)
    BY DEF DatasetInv
  <2> DEFINE records == Merged(exports[w])
             a == exports[v][t]
             b == exports[v][u]
  <2>2. \A x \in {t, u} :
          /\ x \in DOMAIN exports[v]
          /\ runtime.tasks[x].url = exports[v][x].url
          /\ runtime.tasks[x].lineage = exports[v][x].lineage
          /\ runtime.tasks[x].commit = exports[v][x].commit
          /\ runtime.tasks[x].split = exports[v][x].split
    <3>1. \A x \in {t, u} : x \in DOMAIN exports[v] /\ runtime.tasks[x] = SealedManifest(v, x)
      BY <2>1 DEF Rests
    <3>2. \A x : /\ SealedManifest(v, x).url = exports[v][x].url
                 /\ SealedManifest(v, x).lineage = exports[v][x].lineage
                 /\ SealedManifest(v, x).commit = exports[v][x].commit
                 /\ SealedManifest(v, x).split = exports[v][x].split
      BY DEF SealedManifest, Manifest
    <3>3. QED
      BY <3>1, <3>2
  <2>3. PICK r \in records :
          r.split = a.split /\ r.url = a.url /\ r.lineage = a.lineage /\ a.commit \in r.commits
    BY <2>1, <2>2 DEF Rests, Backed
  <2>4. PICK s \in records :
          s.split = b.split /\ s.url = b.url /\ s.lineage = b.lineage /\ b.commit \in s.commits
    BY <2>1, <2>2 DEF Rests, Backed
  <2>5. \A q \in records : q.split \in Splits
    BY MergedRecords DEF DatasetInv, Imported
  <2>6. /\ ~Conflict({q \in records : q.lineage = r.lineage})
        /\ ~Conflict({q \in records : q.url = r.url})
        /\ ~Conflict({q \in records : a.commit \in q.commits})
    BY <2>1, <2>3 DEF Rests, Backed, LineageIsClean
  <2> HIDE DEF records, a, b
  <2>7. a.url = b.url \/ a.lineage = b.lineage \/ a.commit = b.commit
    BY <2>2 DEF a, b
  <2>8. r.split = s.split
    <3>1. CASE a.url = b.url
      <4>1. r \in {q \in records : q.url = r.url} /\ s \in {q \in records : q.url = r.url}
        BY <2>3, <2>4, <3>1
      <4>2. QED
        BY <2>5, <2>6, <4>1, SharingSplits
    <3>2. CASE a.lineage = b.lineage
      <4>1. /\ r \in {q \in records : q.lineage = r.lineage}
            /\ s \in {q \in records : q.lineage = r.lineage}
        BY <2>3, <2>4, <3>2
      <4>2. QED
        BY <2>5, <2>6, <4>1, SharingSplits
    <3>3. CASE a.commit = b.commit
      <4>1. /\ r \in {q \in records : a.commit \in q.commits}
            /\ s \in {q \in records : a.commit \in q.commits}
        BY <2>3, <2>4, <3>3
      <4>2. QED
        BY <2>5, <2>6, <4>1, SharingSplits
    <3>4. QED
      BY <2>7, <3>1, <3>2, <3>3
  <2>9. QED
    BY <2>2, <2>3, <2>4, <2>8 DEF a, b
<1>2. QED
  BY <1>1, DatasetInvariant, PTL

(* What a rollout starts from is the content whose evidence was judged, of a *)
(* task of the split that was asked for (validate_task_bindings).            *)
THEOREM RolloutsStayAdmitted == DatasetSpec => []RolloutsStartFromAdmitted
<1>1. DatasetInv => RolloutsStartFromAdmitted
  BY DEF DatasetInv, Saw, Faithful, RolloutsStartFromAdmitted
<1>2. QED
  BY <1>1, DatasetInvariant, PTL

(* From the import to the rollout, a task keeps its split and its content.   *)
THEOREM DatasetsStayTrusted == DatasetSpec => []DatasetIsTrusted
BY ImportsStayApart, RuntimesStayApart, RolloutsStayAdmitted, PTL DEF DatasetIsTrusted

-----------------------------------------------------------------------------
(* The composition                                                           *)

(* The composition that is model-checked lets each component take its own    *)
(* steps from its own initial states, and no others.                         *)
THEOREM TasksAreTheirComponents ==
    TasksSpec => PatchSpec /\ PreparationSpec /\ AdmissionSpec /\ DatasetSpec /\ Spec
<1>1. TasksInit => PatchInit /\ PreparationInit /\ AdmissionInit /\ DatasetInit /\ Init
  BY DEF TasksInit, PatchRests, PreparationRests, AdmissionRests, DatasetRests
<1>2. [TasksNext]_<<part, tasksVars>> =>
        /\ [PatchNext]_patchVars /\ [PreparationNext]_preparationVars
        /\ [AdmissionNext]_admissionVars /\ [DatasetNext]_datasetVars /\ [Next]_vars
  BY DEF TasksNext, tasksVars
<1>3. QED
  BY <1>1, <1>2, PTL DEF TasksSpec, PatchSpec, PreparationSpec, AdmissionSpec, DatasetSpec, Spec

(* The variables of every component keep their types in the composition.     *)
THEOREM TaskTypesCorrect == TasksSpec => []TypesOK
<1>1. TasksSpec => PatchSpec /\ PreparationSpec /\ AdmissionSpec /\ DatasetSpec /\ Spec
  BY TasksAreTheirComponents
<1>2. PatchTypeOK /\ PreparationTypeOK /\ AdmissionTypeOK /\ DatasetTypeOK /\ TypeOK => TypesOK
  BY DEF TypesOK
<1>3. QED
  BY <1>1, <1>2, PatchTypeCorrect, PreparationTypeCorrect, AdmissionTypeCorrect,
     DatasetTypeCorrect, PublicationTypeCorrect, PTL
=============================================================================
