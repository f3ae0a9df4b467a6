-------------------------- MODULE SharedStoreProofs --------------------------
(***************************************************************************)
(* PublishedIntact and SnapshotExact for any number of threads, any bank   *)
(* size, any set of values and any interleaving of loads, stores, copies   *)
(* and kills.                                                              *)
(*                                                                         *)
(* Neither property is inductive.  The bank of the publication stays whole *)
(* because the words of a writer go to the other bank, and that needs to   *)
(* know that a thread in the middle of a write owns the mutex alive        *)
(* (OneWriter) and that the revision it loaded is still the published one  *)
(* (Labels).  What Publish makes visible is what was staged (Staged), and  *)
(* a reader may trust its copy because, as long as the publication has not *)
(* moved, what it has copied so far is a prefix of the published value     *)
(* (Copied).                                                               *)
(***************************************************************************)
EXTENDS SharedStore, SequenceTheorems, TLAPS

Cell == Word \cup {CHOOSE w \in Word : TRUE}

Step == {"idle", "length", "copy", "retry", "read", "old", "stage", "publish", "written"}

\* The steps between acquire and the drop of the guard.
Writing == {"old", "stage", "publish", "written"}

Types ==
    /\ publication \in Nat
    /\ bank \in [0..1 -> [len : 0..WORDS, word : [1..WORDS -> Cell]]]
    /\ mutex \in Thread \cup {"none"}
    /\ pc \in [Thread -> Step]
    /\ revision \in [Thread -> Nat]
    /\ size \in [Thread -> 0..WORDS]
    /\ bytes \in [Thread -> Seq(Cell)]
    /\ dead \in SUBSET Thread
    /\ published \in Seq(Seq(Cell))
    /\ Len(published) = publication + 1

\* Bank b holds the value v.
Holds(b, v) ==
    /\ bank[b].len = Len(v)
    /\ \A i \in 1..Len(v) : bank[b].word[i] = v[i]

\* A thread inside the critical section is alive and owns the mutex.
OneWriter ==
    /\ \A t \in Thread : pc[t] \in Writing => mutex = t /\ t \notin dead
    /\ \A t \in dead : pc[t] = "idle"

\* Nobody is ahead of the publication, and a writer is not behind it.
Labels ==
    \A t \in Thread :
        /\ revision[t] <= publication
        /\ pc[t] \in Writing => revision[t] = publication

\* The published bank holds what was published.
Whole == Holds(BankOf(publication), ValueAt(publication))

\* What a writer has put into the other bank so far.
Staged ==
    \A t \in Thread :
        /\ pc[t] \in {"stage", "publish"} => Len(bytes[t]) <= WORDS
        /\ pc[t] = "stage" =>
               /\ size[t] <= Len(bytes[t])
               /\ \A i \in 1..size[t] :
                      bank[BankOf(revision[t] + 1)].word[i] = bytes[t][i]
        /\ pc[t] = "publish" => Holds(BankOf(revision[t] + 1), bytes[t])

\* What a reader has copied so far, if the publication has not moved.
Copied ==
    \A t \in Thread :
        pc[t] = "copy" =>
            /\ Len(bytes[t]) <= size[t]
            /\ revision[t] = publication =>
                   /\ size[t] = Len(ValueAt(publication))
                   /\ \A i \in 1..Len(bytes[t]) : bytes[t][i] = ValueAt(publication)[i]

\* A thread that has a value has it whole, with its own revision.
Exact ==
    \A t \in Thread :
        pc[t] \in {"old", "written", "read"} => bytes[t] = ValueAt(revision[t])

IInv == Types /\ OneWriter /\ Labels /\ Whole /\ Staged /\ Copied /\ Exact
-----------------------------------------------------------------------------
\* BankOf alternates: a writer stages into the bank that is not published.
LEMMA Banks ==
    ASSUME NEW r \in Nat
    PROVE  /\ BankOf(r) \in 0..1
           /\ BankOf(r + 1) \in 0..1
           /\ BankOf(r + 1) # BankOf(r)
BY DEF BankOf

\* copy_bank reads exactly the value a bank holds.
LEMMA ContentsHeld ==
    ASSUME Types, NEW b \in 0..1, NEW v \in Seq(Cell), Holds(b, v)
    PROVE  Contents(b) = v
<1>1. \A i \in 1..bank[b].len : bank[b].word[i] \in Cell
  <2>1. bank[b] \in [len : 0..WORDS, word : [1..WORDS -> Cell]]
    BY DEF Types
  <2>2. bank[b].len \in 0..WORDS /\ bank[b].word \in [1..WORDS -> Cell]
    BY <2>1
  <2> QED
    BY <2>2, StoreAssumption
<1>2. /\ bank[b].len = Len(v) /\ Len(v) \in Nat
      /\ \A i \in 1..Len(v) : bank[b].word[i] = v[i]
  BY DEF Holds
<1>3. /\ Contents(b) \in Seq(Cell)
      /\ Len(Contents(b)) = Len(v)
      /\ \A i \in 1..Len(v) : Contents(b)[i] = bank[b].word[i]
  BY <1>1, <1>2, SubSeqProperties, SMTT(20) DEF Contents
<1> QED
  BY <1>2, <1>3, SeqEqual

\* An encoded value is a sequence of cells that fits in a bank.
LEMMA ValueFits ==
    ASSUME NEW v \in Value
    PROVE  v \in Seq(Cell) /\ Len(v) \in Nat /\ Len(v) <= WORDS
<1>1. v \in Seq(Word) /\ Len(v) <= WORDS
  BY StoreAssumption
<1> QED
  BY <1>1 DEF Cell

\* The types of one bank and of the published values.
LEMMA Typed ==
    ASSUME Types
    PROVE  /\ \A b \in 0..1 : /\ bank[b].len \in 0..WORDS
                              /\ bank[b].word \in [1..WORDS -> Cell]
           /\ \A r \in 0..publication : ValueAt(r) \in Seq(Cell)
           /\ \A t \in Thread : bytes[t] \in Seq(Cell) /\ Len(bytes[t]) \in Nat
<1>1. \A b \in 0..1 : bank[b] \in [len : 0..WORDS, word : [1..WORDS -> Cell]]
  BY DEF Types
<1>2. ASSUME NEW r \in 0..publication PROVE ValueAt(r) \in Seq(Cell)
  BY ElementOfSeq DEF Types, ValueAt
<1>3. \A t \in Thread : bytes[t] \in Seq(Cell) /\ Len(bytes[t]) \in Nat
  BY DEF Types
<1> QED
  BY <1>1, <1>2, <1>3

\* The value a writer reads under the mutex is the published one.
LEMMA OldValue ==
    ASSUME IInv
    PROVE  /\ Contents(BankOf(publication)) = ValueAt(publication)
           /\ ValueAt(publication) \in Seq(Cell)
<1>1. BankOf(publication) \in 0..1 /\ publication \in 0..publication
  BY Banks DEF IInv, Types
<1>2. ValueAt(publication) \in Seq(Cell)
  BY <1>1, Typed DEF IInv
<1> QED
  BY <1>1, <1>2, ContentsHeld DEF IInv, Whole

\* A thread inside the critical section stages into the bank that is not
\* published, and it is alone there.
LEMMA WriterAlone ==
    ASSUME IInv, NEW t \in Thread, pc[t] \in Writing
    PROVE  /\ revision[t] = publication
           /\ BankOf(publication) \in 0..1
           /\ BankOf(revision[t] + 1) \in 0..1
           /\ BankOf(revision[t] + 1) # BankOf(publication)
           /\ \A u \in Thread \ {t} : pc[u] \notin Writing
<1>1. revision[t] = publication /\ publication \in Nat
  BY DEF IInv, Labels, Types
<1> QED
  BY <1>1, Banks DEF IInv, OneWriter
-----------------------------------------------------------------------------
\* The first state.
LEMMA InitIInv == StoreInit => IInv
<1> SUFFICES ASSUME StoreInit PROVE IInv
  OBVIOUS
<1> USE StoreAssumption DEF StoreInit
<1>1. Types
  BY DEF Types, Step, Cell
<1>2. OneWriter /\ Labels /\ Staged /\ Copied /\ Exact
  BY DEF OneWriter, Labels, Staged, Copied, Exact, Writing
<1>3. Whole
  BY Banks DEF Whole, Holds, ValueAt
<1> QED
  BY <1>1, <1>2, <1>3 DEF IInv

\* read_snapshot loads the publication.
LEMMA LoadRevisionStep ==
    ASSUME IInv, NEW t \in Thread, LoadRevision(t)
    PROVE  IInv'
<1> USE DEF LoadRevision, At, Goto, Set, sharedVars
<1>1. Types'
  BY DEF IInv, Types, Step
<1>2. OneWriter'
  BY DEF IInv, Types, OneWriter, Writing
<1>3. Labels'
  BY DEF IInv, Types, Labels, Writing
<1>4. Whole'
  BY DEF IInv, Whole, Holds, ValueAt
<1>5. Staged'
  BY DEF IInv, Types, Staged, Holds
<1>6. Copied'
  BY DEF IInv, Types, Copied, ValueAt
<1>7. Exact'
  BY DEF IInv, Types, Exact, ValueAt
<1> QED
  BY <1>1, <1>2, <1>3, <1>4, <1>5, <1>6, <1>7 DEF IInv

\* copy_bank loads the length of the bank.
LEMMA CopyLengthStep ==
    ASSUME IInv, NEW t \in Thread, CopyLength(t)
    PROVE  IInv'
<1> USE DEF CopyLength, At, Goto, Set, sharedVars, localVars
<1>1. Types'
  <2>1. bank[BankOf(revision[t])].len \in 0..WORDS
    BY Typed, Banks DEF IInv, Types
  <2> QED
    BY <2>1 DEF IInv, Types, Step
<1>2. OneWriter'
  BY DEF IInv, Types, OneWriter, Writing
<1>3. Labels'
  BY DEF IInv, Types, Labels, Writing
<1>4. Whole'
  BY DEF IInv, Whole, Holds, ValueAt
<1>5. Staged'
  BY DEF IInv, Types, Staged, Holds
<1>6. Copied'
  <2>1. revision[t] = publication => bank[BankOf(revision[t])].len = Len(ValueAt(publication))
    BY DEF IInv, Whole, Holds
  <2>2. bank[BankOf(revision[t])].len \in 0..WORDS
    BY Typed, Banks DEF IInv, Types
  <2> QED
    BY <2>1, <2>2 DEF IInv, Types, Copied, ValueAt
<1>7. Exact'
  BY DEF IInv, Types, Exact, ValueAt
<1> QED
  BY <1>1, <1>2, <1>3, <1>4, <1>5, <1>6, <1>7 DEF IInv

\* copy_bank loads one more word.
LEMMA CopyWordStep ==
    ASSUME IInv, NEW t \in Thread, CopyWord(t)
    PROVE  IInv'
<1> USE DEF CopyWord, At, Goto, Set, sharedVars, localVars
<1>1. Types'
  <2>1. Len(bytes[t]) + 1 \in 1..WORDS
    BY StoreAssumption, Typed DEF IInv, Types
  <2>2. bank[BankOf(revision[t])].word[Len(bytes[t]) + 1] \in Cell
    BY <2>1, Typed, Banks DEF IInv, Types
  <2>3. bytes'[t] \in Seq(Cell)
    BY <2>2, Typed, AppendProperties DEF IInv, Types
  <2> QED
    BY <2>3 DEF IInv, Types, Step
<1>2. OneWriter'
  BY DEF IInv, Types, OneWriter, Writing
<1>3. Labels'
  BY DEF IInv, Types, Labels, Writing
<1>4. Whole'
  BY DEF IInv, Whole, Holds, ValueAt
<1>5. Staged'
  BY DEF IInv, Types, Staged, Holds
<1>6. Copied'
  <2> DEFINE w == bank[BankOf(revision[t])].word[Len(bytes[t]) + 1]
  <2>1. Len(bytes[t]) + 1 \in 1..WORDS /\ size[t] \in Nat
    BY StoreAssumption, Typed DEF IInv, Types
  <2>2. w \in Cell
    BY <2>1, Typed, Banks DEF IInv, Types
  <2>3. /\ Len(bytes'[t]) = Len(bytes[t]) + 1
        /\ \A i \in 1..Len(bytes[t]) : bytes'[t][i] = bytes[t][i]
        /\ bytes'[t][Len(bytes[t]) + 1] = w
    BY <2>2, Typed, AppendProperties DEF IInv, Types
  <2>4. Len(bytes'[t]) <= size'[t]
    BY <2>1, <2>3, Typed DEF IInv, Types
  <2>5. ASSUME revision[t] = publication
        PROVE  /\ size[t] = Len(ValueAt(publication))
               /\ \A i \in 1..Len(bytes'[t]) : bytes'[t][i] = ValueAt(publication)[i]
    <3>1. /\ size[t] = Len(ValueAt(publication))
          /\ \A i \in 1..Len(bytes[t]) : bytes[t][i] = ValueAt(publication)[i]
      BY <2>5 DEF IInv, Copied
    <3>2. w = ValueAt(publication)[Len(bytes[t]) + 1]
      BY <2>5, <3>1, <2>1 DEF IInv, Whole, Holds
    <3> QED
      BY <3>1, <3>2, <2>3, Typed DEF IInv
  <2> QED
    BY <2>4, <2>5 DEF IInv, Types, Copied, ValueAt
<1>7. Exact'
  BY DEF IInv, Types, Exact, ValueAt
<1> QED
  BY <1>1, <1>2, <1>3, <1>4, <1>5, <1>6, <1>7 DEF IInv

\* read_snapshot compares the publication with the one it loaded.
LEMMA CheckRevisionStep ==
    ASSUME IInv, NEW t \in Thread, CheckRevision(t)
    PROVE  IInv'
<1> USE DEF CheckRevision, At, Goto, Set, sharedVars, localVars
<1>1. Types'
  BY DEF IInv, Types, Step
<1>2. OneWriter'
  BY DEF IInv, Types, OneWriter, Writing
<1>3. Labels'
  BY DEF IInv, Types, Labels, Writing
<1>4. Whole'
  BY DEF IInv, Whole, Holds, ValueAt
<1>5. Staged'
  <2>1. /\ pc'[t] \notin {"stage", "publish"}
        /\ \A u \in Thread \ {t} : pc'[u] = pc[u]
    BY DEF IInv, Types
  <2> QED
    BY <2>1 DEF IInv, Staged, Holds
<1>6. Copied'
  BY DEF IInv, Types, Copied, ValueAt
<1>7. Exact'
  <2>1. \A u \in Thread \ {t} : pc'[u] = pc[u]
    BY DEF IInv, Types
  <2>2. ASSUME publication = revision[t]
        PROVE  bytes[t] = ValueAt(revision[t])
    <3>1. /\ Len(bytes[t]) = Len(ValueAt(publication))
          /\ \A i \in 1..Len(bytes[t]) : bytes[t][i] = ValueAt(publication)[i]
      BY <2>2 DEF IInv, Copied
    <3>2. bytes[t] \in Seq(Cell) /\ ValueAt(publication) \in Seq(Cell)
      BY Typed DEF IInv, Types
    <3> QED
      BY <3>1, <3>2, <2>2, SeqEqual
  <2>3. pc'[t] = "read" => publication = revision[t]
    BY DEF IInv, Types
  <2>4. pc'[t] \notin {"old", "written"}
    BY DEF IInv, Types
  <2> QED
    BY <2>1, <2>2, <2>3, <2>4 DEF IInv, Exact, ValueAt
<1> QED
  BY <1>1, <1>2, <1>3, <1>4, <1>5, <1>6, <1>7 DEF IInv

\* A writer takes the mutex and reads the published bank.
LEMMA AcquireStep ==
    ASSUME IInv, NEW t \in Thread, Acquire(t)
    PROVE  IInv'
<1> USE DEF Acquire, At, Goto, Set, sharedVars, localVars
<1>1. Types'
  <2>1. Contents(BankOf(publication)) \in Seq(Cell)
    BY OldValue
  <2> QED
    BY <2>1 DEF IInv, Types, Step
<1>2. OneWriter'
  <2>1. \A u \in Thread : pc[u] \notin Writing
    BY StoreAssumption DEF IInv, Types, OneWriter, Available
  <2> QED
    BY <2>1 DEF IInv, Types, OneWriter, Writing
<1>3. Labels'
  BY DEF IInv, Types, Labels, Writing
<1>4. Whole'
  BY DEF IInv, Whole, Holds, ValueAt
<1>5. Staged'
  BY DEF IInv, Types, Staged, Holds
<1>6. Copied'
  BY DEF IInv, Types, Copied, ValueAt
<1>7. Exact'
  <2>1. Contents(BankOf(publication)) = ValueAt(publication)
    BY OldValue
  <2> QED
    BY <2>1 DEF IInv, Types, Exact, ValueAt
<1> QED
  BY <1>1, <1>2, <1>3, <1>4, <1>5, <1>6, <1>7 DEF IInv

\* Nothing is published and the guard is dropped.
LEMMA LeaveStep ==
    ASSUME IInv, NEW t \in Thread, Leave(t)
    PROVE  IInv'
<1> USE DEF Leave, At, Goto, Set, sharedVars, localVars
<1>1. Types'
  BY DEF IInv, Types, Step
<1>2. OneWriter'
  BY DEF IInv, Types, OneWriter, Writing
<1>3. Labels'
  BY DEF IInv, Types, Labels, Writing
<1>4. Whole'
  BY DEF IInv, Whole, Holds, ValueAt
<1>5. Staged'
  BY DEF IInv, Types, Staged, Holds
<1>6. Copied'
  BY DEF IInv, Types, Copied, ValueAt
<1>7. Exact'
  BY DEF IInv, Types, Exact, ValueAt
<1> QED
  BY <1>1, <1>2, <1>3, <1>4, <1>5, <1>6, <1>7 DEF IInv

\* The action returned another value.
LEMMA ComputeStep ==
    ASSUME IInv, NEW t \in Thread, Compute(t)
    PROVE  IInv'
<1> USE DEF Compute, At, Goto, Set, sharedVars, localVars
<1>1. Types'
  <2>1. PICK v \in Value : bytes' = [bytes EXCEPT ![t] = v]
    OBVIOUS
  <2>2. bytes' \in [Thread -> Seq(Cell)]
    <3>1. v \in Seq(Cell)
      BY ValueFits
    <3> QED
      BY <2>1, <3>1 DEF IInv, Types
  <2> QED
    <3>1. size' \in [Thread -> 0..WORDS]
      BY StoreAssumption DEF IInv, Types
    <3>2. pc' \in [Thread -> Step]
      BY DEF IInv, Types, Step
    <3> QED
      BY <2>2, <3>1, <3>2 DEF IInv, Types
<1>2. OneWriter'
  BY DEF IInv, Types, OneWriter, Writing
<1>3. Labels'
  BY DEF IInv, Types, Labels, Writing
<1>4. Whole'
  BY DEF IInv, Whole, Holds, ValueAt
<1>5. Staged'
  <2>1. /\ bytes'[t] \in Value /\ size'[t] = 0 /\ pc'[t] = "stage"
        /\ \A u \in Thread \ {t} :
               bytes'[u] = bytes[u] /\ size'[u] = size[u] /\ pc'[u] = pc[u]
    BY DEF IInv, Types
  <2>2. Len(bytes'[t]) \in Nat /\ Len(bytes'[t]) <= WORDS
    BY <2>1, ValueFits
  <2> QED
    BY <2>1, <2>2 DEF IInv, Staged, Holds
<1>6. Copied'
  <2>1. /\ pc'[t] = "stage"
        /\ \A u \in Thread \ {t} :
               bytes'[u] = bytes[u] /\ size'[u] = size[u] /\ pc'[u] = pc[u]
    BY DEF IInv, Types
  <2> QED
    BY <2>1 DEF IInv, Copied, ValueAt
<1>7. Exact'
  BY DEF IInv, Types, Exact, ValueAt
<1> QED
  BY <1>1, <1>2, <1>3, <1>4, <1>5, <1>6, <1>7 DEF IInv

\* stage_bytes stores one more word.
LEMMA StageWordStep ==
    ASSUME IInv, NEW t \in Thread, StageWord(t)
    PROVE  IInv'
<1> USE DEF StageWord, At, Goto, Set, sharedVars, localVars
<1> DEFINE b == BankOf(revision[t] + 1)
<1>a. /\ size[t] + 1 \in 1..Len(bytes[t])
      /\ size[t] + 1 \in 1..WORDS
      /\ bytes[t][size[t] + 1] \in Cell
  <2>1. /\ size[t] \in Nat /\ Len(bytes[t]) \in Nat
        /\ Len(bytes[t]) <= WORDS
        /\ bytes[t] \in Seq(Cell)
    BY StoreAssumption, Typed DEF IInv, Types, Staged
  <2>2. size[t] + 1 \in 1..Len(bytes[t]) /\ size[t] + 1 \in 1..WORDS
    BY <2>1, StoreAssumption
  <2> QED
    BY <2>1, <2>2, ElementOfSeq
<1>b. /\ b \in 0..1 /\ b # BankOf(publication) /\ revision[t] = publication
      /\ BankOf(publication) \in 0..1
      /\ \A u \in Thread \ {t} : pc[u] \notin Writing
  BY WriterAlone DEF Writing
<1>c. /\ bank[b] \in [len : 0..WORDS, word : [1..WORDS -> Cell]]
      /\ bank'[b] = [bank[b] EXCEPT !.word[size[t] + 1] = bytes[t][size[t] + 1]]
      /\ bank'[b].word = [bank[b].word EXCEPT ![size[t] + 1] = bytes[t][size[t] + 1]]
      /\ bank'[BankOf(publication)] = bank[BankOf(publication)]
  <2>1. bank[b] \in [len : 0..WORDS, word : [1..WORDS -> Cell]]
    BY <1>b DEF IInv, Types
  <2> QED
    BY <2>1, <1>b DEF IInv, Types
<1>1. Types'
  <2>1. bank' \in [0..1 -> [len : 0..WORDS, word : [1..WORDS -> Cell]]]
    BY <1>a, <1>b, <1>c DEF IInv, Types
  <2>2. size' \in [Thread -> 0..WORDS]
    BY <1>a DEF IInv, Types
  <2> QED
    BY <2>1, <2>2 DEF IInv, Types, Step
<1>2. OneWriter'
  BY DEF IInv, Types, OneWriter, Writing
<1>3. Labels'
  BY DEF IInv, Types, Labels, Writing
<1>4. Whole'
  BY <1>b DEF IInv, Whole, Holds, ValueAt
<1>5. Staged'
  <2>1. \A u \in Thread \ {t} : pc[u] \notin {"stage", "publish"}
    BY <1>b DEF Writing
  <2>2. /\ size[t] \in Nat
        /\ Len(bytes[t]) <= WORDS
        /\ \A i \in 1..size[t] : bank[b].word[i] = bytes[t][i]
    BY StoreAssumption DEF IInv, Types, Staged
  <2>3. size'[t] = size[t] + 1 /\ size'[t] <= Len(bytes[t])
    BY <2>2, Typed DEF IInv, Types
  <2>4. \A i \in 1..size[t] + 1 : bank'[b].word[i] = bytes[t][i]
    <3>1. \A i \in 1..size[t] : bank'[b].word[i] = bank[b].word[i]
      BY <1>a, <1>c, <2>2
    <3>2. bank'[b].word[size[t] + 1] = bytes[t][size[t] + 1]
      BY <1>a, <1>c
    <3> QED
      BY <3>1, <3>2, <2>2
  <2> QED
    BY <2>1, <2>2, <2>3, <2>4 DEF IInv, Types, Staged
<1>6. Copied'
  BY DEF IInv, Types, Copied, ValueAt
<1>7. Exact'
  BY DEF IInv, Types, Exact, ValueAt
<1> QED
  BY <1>1, <1>2, <1>3, <1>4, <1>5, <1>6, <1>7 DEF IInv

\* stage_bytes stores the length.
LEMMA StageLengthStep ==
    ASSUME IInv, NEW t \in Thread, StageLength(t)
    PROVE  IInv'
<1> USE DEF StageLength, At, Goto, Set, sharedVars, localVars
<1> DEFINE b == BankOf(revision[t] + 1)
<1>b. /\ b \in 0..1 /\ b # BankOf(publication) /\ revision[t] = publication
      /\ BankOf(publication) \in 0..1
      /\ \A u \in Thread \ {t} : pc[u] \notin Writing
  BY WriterAlone DEF Writing
<1>c. /\ bank'[b].word = bank[b].word
      /\ bank'[b].len = Len(bytes[t])
      /\ bank'[BankOf(publication)] = bank[BankOf(publication)]
  <2>1. bank[b] \in [len : 0..WORDS, word : [1..WORDS -> Cell]]
    BY <1>b DEF IInv, Types
  <2> QED
    BY <2>1, <1>b DEF IInv, Types
<1>1. Types'
  BY DEF IInv, Types, Step
<1>2. OneWriter'
  BY DEF IInv, Types, OneWriter, Writing
<1>3. Labels'
  BY DEF IInv, Types, Labels, Writing
<1>4. Whole'
  BY <1>b, <1>c DEF IInv, Whole, Holds, ValueAt
<1>5. Staged'
  <2>1. \A u \in Thread \ {t} : pc[u] \notin {"stage", "publish"} /\ pc'[u] = pc[u]
    BY <1>b DEF Writing, IInv, Types
  <2>2. /\ Len(bytes[t]) <= WORDS
        /\ \A i \in 1..Len(bytes[t]) : bank[b].word[i] = bytes[t][i]
    BY DEF IInv, Staged
  <2>3. Holds(b, bytes[t])'
    BY <2>2, <1>c DEF Holds
  <2>4. pc'[t] = "publish"
    BY DEF IInv, Types
  <2> QED
    BY <2>1, <2>2, <2>3, <2>4 DEF Staged
<1>6. Copied'
  BY DEF IInv, Types, Copied, ValueAt
<1>7. Exact'
  BY DEF IInv, Types, Exact, ValueAt
<1> QED
  BY <1>1, <1>2, <1>3, <1>4, <1>5, <1>6, <1>7 DEF IInv

\* The publication is stored.
LEMMA PublishStep ==
    ASSUME IInv, NEW t \in Thread, Publish(t)
    PROVE  IInv'
<1> USE DEF Publish, At, Goto, Set, sharedVars, localVars
<1>a. /\ revision[t] = publication /\ publication \in Nat
      /\ \A u \in Thread \ {t} : pc[u] \notin Writing
      /\ \A u \in Thread : revision[u] \in Nat /\ revision[u] <= publication
  BY WriterAlone DEF Writing, IInv, Types, Labels
<1>b. /\ publication' = publication + 1
      /\ revision'[t] = publication + 1 /\ pc'[t] = "written"
      /\ \A u \in Thread \ {t} : revision'[u] = revision[u] /\ pc'[u] = pc[u]
  BY <1>a DEF IInv, Types
<1>c. /\ published' \in Seq(Seq(Cell))
      /\ Len(published') = publication + 2
      /\ \A r \in 0..publication : ValueAt(r)' = ValueAt(r)
      /\ published'[publication + 2] = bytes[t]
  <2>1. published \in Seq(Seq(Cell)) /\ bytes[t] \in Seq(Cell) /\ Len(published) = publication + 1
    BY DEF IInv, Types
  <2>2. /\ published' \in Seq(Seq(Cell))
        /\ Len(published') = publication + 2
        /\ \A i \in 1..publication + 1 : published'[i] = published[i]
        /\ published'[publication + 2] = bytes[t]
    BY <2>1, <1>a, AppendProperties
  <2> QED
    BY <2>2, <1>a DEF ValueAt
<1>1. Types'
  BY <1>a, <1>b, <1>c DEF IInv, Types, Step
<1>2. OneWriter'
  BY DEF IInv, Types, OneWriter, Writing
<1>3. Labels'
  BY <1>a, <1>b DEF Labels
<1>4. Whole'
  <2>1. ValueAt(publication)' = bytes[t]
    BY <1>a, <1>b, <1>c DEF ValueAt
  <2>2. Holds(BankOf(revision[t] + 1), bytes[t])
    BY DEF IInv, Staged
  <2> QED
    BY <2>1, <2>2, <1>a, <1>b DEF Whole, Holds
<1>5. Staged'
  BY DEF IInv, Types, Staged, Holds
<1>6. Copied'
  BY <1>a, <1>b, <1>c DEF IInv, Copied, ValueAt
<1>7. Exact'
  <2>1. bytes[t] = published'[revision'[t] + 1]
    BY <1>a, <1>b, <1>c
  <2>2. \A u \in Thread \ {t} : revision[u] \in 0..publication
    BY <1>a
  <2>3. \A u \in Thread \ {t} : ValueAt(revision[u])' = ValueAt(revision[u])
    BY <2>2, <1>b, <1>c DEF ValueAt
  <2> QED
    BY <2>1, <2>3, <1>b DEF IInv, Exact, ValueAt
<1> QED
  BY <1>1, <1>2, <1>3, <1>4, <1>5, <1>6, <1>7 DEF IInv

\* The guard is dropped after a publication.
LEMMA ReleaseStep ==
    ASSUME IInv, NEW t \in Thread, Release(t)
    PROVE  IInv'
<1> USE DEF Release, At, Goto, Set, sharedVars, localVars
<1>1. Types'
  BY DEF IInv, Types, Step
<1>2. OneWriter'
  BY DEF IInv, Types, OneWriter, Writing
<1>3. Labels'
  BY DEF IInv, Types, Labels, Writing
<1>4. Whole'
  BY DEF IInv, Whole, Holds, ValueAt
<1>5. Staged'
  BY DEF IInv, Types, Staged, Holds
<1>6. Copied'
  BY DEF IInv, Types, Copied, ValueAt
<1>7. Exact'
  BY DEF IInv, Types, Exact, ValueAt
<1> QED
  BY <1>1, <1>2, <1>3, <1>4, <1>5, <1>6, <1>7 DEF IInv

\* The call returns, or its process is killed: the locals are gone.
LEMMA ForgetStep ==
    ASSUME IInv, NEW t \in Thread, Return(t) \/ Kill(t)
    PROVE  IInv'
<1>0. /\ pc'[t] = "idle" /\ revision'[t] = 0 /\ t \in Thread
      /\ \A u \in Thread \ {t} : /\ pc'[u] = pc[u] /\ revision'[u] = revision[u]
                                 /\ size'[u] = size[u] /\ bytes'[u] = bytes[u]
      /\ dead' \subseteq dead \cup {t}
      /\ UNCHANGED <<publication, bank, mutex, published>>
  BY DEF Return, Kill, Forget, At, Goto, Set, sharedVars, IInv, Types
<1>1. Types'
  <2>1. /\ pc' = [pc EXCEPT ![t] = "idle"] /\ revision' = [revision EXCEPT ![t] = 0]
        /\ size' = [size EXCEPT ![t] = 0] /\ bytes' = [bytes EXCEPT ![t] = <<>>]
    BY DEF Return, Kill, Forget, Goto, Set
  <2>2. pc' \in [Thread -> Step] /\ revision' \in [Thread -> Nat]
    BY <2>1 DEF IInv, Types, Step
  <2>3. size' \in [Thread -> 0..WORDS]
    BY <2>1, StoreAssumption DEF IInv, Types
  <2>4. bytes' \in [Thread -> Seq(Cell)]
    BY <2>1, EmptySeq DEF IInv, Types
  <2>5. dead' \in SUBSET Thread
    BY DEF Return, Kill, IInv, Types
  <2> QED
    BY <1>0, <2>2, <2>3, <2>4, <2>5 DEF IInv, Types
<1>2. OneWriter'
  <2>1. \A u \in Thread : pc'[u] \in Writing => mutex' = u /\ u \notin dead'
    BY <1>0 DEF IInv, OneWriter, Writing
  <2>2. \A u \in dead' : pc'[u] = "idle"
    BY <1>0, <1>1 DEF IInv, OneWriter, Types
  <2> QED
    BY <2>1, <2>2 DEF OneWriter
<1>3. Labels'
  <2>1. \A u \in Thread : revision'[u] <= publication'
    <3>1. publication \in Nat /\ publication' = publication
      BY <1>0 DEF IInv, Types
    <3> QED
      BY <1>0, <3>1 DEF IInv, Labels
  <2>2. \A u \in Thread : pc'[u] \in Writing => revision'[u] = publication'
    BY <1>0 DEF IInv, Labels, Writing
  <2> QED
    BY <2>1, <2>2 DEF Labels
<1>4. Whole'
  BY <1>0 DEF IInv, Whole, Holds, ValueAt
<1>5. Staged'
  BY <1>0 DEF IInv, Staged, Holds
<1>6. Copied'
  BY <1>0 DEF IInv, Copied, ValueAt
<1>7. Exact'
  BY <1>0 DEF IInv, Exact, ValueAt
<1> QED
  BY <1>1, <1>2, <1>3, <1>4, <1>5, <1>6, <1>7 DEF IInv
-----------------------------------------------------------------------------
\* The inductive invariant gives both properties.
LEMMA IInvImplies == IInv => PublishedIntact /\ SnapshotExact
<1> SUFFICES ASSUME IInv PROVE PublishedIntact /\ SnapshotExact
  OBVIOUS
<1>1. PublishedIntact
  BY OldValue DEF IInv, Types, PublishedIntact
<1>2. SnapshotExact
  BY DEF IInv, Exact, SnapshotExact
<1> QED
  BY <1>1, <1>2

\* Every step of a thread, and its death, preserves the inductive invariant.
LEMMA NextStep == IInv /\ [StoreNext]_storeVars => IInv'
<1> SUFFICES ASSUME IInv, [StoreNext]_storeVars PROVE IInv'
  OBVIOUS
<1>1. CASE UNCHANGED storeVars
  BY <1>1 DEF storeVars, IInv, Types, OneWriter, Labels, Whole, Staged, Copied, Exact,
              Holds, ValueAt
<1>2. CASE StoreNext
  <2>1. PICK t \in Thread : Read(t) \/ Write(t) \/ Return(t) \/ Kill(t)
    BY <1>2 DEF StoreNext
  <2>2. CASE Read(t)
    BY <2>2, LoadRevisionStep, CopyLengthStep, CopyWordStep, CheckRevisionStep DEF Read
  <2>3. CASE Write(t)
    BY <2>3, AcquireStep, LeaveStep, ComputeStep, StageWordStep, StageLengthStep,
       PublishStep, ReleaseStep DEF Write
  <2>4. CASE Return(t) \/ Kill(t)
    BY <2>4, ForgetStep
  <2> QED
    BY <2>1, <2>2, <2>3, <2>4
<1> QED
  BY <1>1, <1>2

\* Whatever threads read, write and die in the middle, the published bank
\* holds the value published last: a writer of shared.rs stages in the other.
THEOREM PublicationCorrect == StoreSpec => []PublishedIntact
<1> QED
  BY InitIInv, NextStep, IInvImplies, PTL DEF StoreSpec

\* read, update and inspect_exclusive return a value that was published whole,
\* under the revision returned with it: shared.rs never hands out a torn or a
\* mislabelled record, although readers take no lock.
THEOREM SnapshotsCorrect == StoreSpec => []SnapshotExact
<1> QED
  BY InitIInv, NextStep, IInvImplies, PTL DEF StoreSpec
=============================================================================
