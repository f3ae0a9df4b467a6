---------------------------- MODULE SharedStore -----------------------------
(***************************************************************************)
(* The shared-memory store of the virtual file system                      *)
(* (engine/crates/kinakaze-vfs/src/mount/shared.rs): a section with a      *)
(* publication word and two banks, mapped by many processes.  A writer     *)
(* holds a native mutex, fills the bank that is not published word by word *)
(* and stores the publication; a reader copies the published bank without  *)
(* the mutex and accepts the copy if the publication has not moved.  Any   *)
(* thread may be killed between two accesses.                              *)
(*                                                                         *)
(* Every access of a shared word is one step.  The accesses are Acquire    *)
(* loads, Release stores and SeqCst accesses of the publication; reordering *)
(* beyond that is not modelled.                                            *)
(***************************************************************************)
EXTENDS Naturals, Sequences

CONSTANTS
    Thread,             \* threads, each with its own mapping
    Word,               \* contents of a word
    WORDS,              \* words of a bank
    Value,              \* encoded values
    MAX_REVISION        \* largest publication; u64::MAX in the code

ASSUME StoreAssumption ==
    /\ WORDS \in Nat /\ MAX_REVISION \in Nat
    /\ "none" \notin Thread
    /\ \A v \in Value : v \in Seq(Word) /\ Len(v) <= WORDS
    /\ <<>> \in Value

VARIABLES
    publication,        \* the published revision
    bank,               \* the two banks: a length and words
    mutex,              \* owner of the named mutex
    pc,
    revision,           \* local: the revision loaded
    size,               \* local: length loaded, or words stored so far
    bytes,              \* local: the words copied, or the value to store
    dead,               \* threads that were killed
    published           \* history: what was published under each revision

sharedVars == <<publication, bank, mutex>>
localVars == <<revision, size, bytes>>
storeVars == <<publication, bank, mutex, pc, revision, size, bytes, dead, published>>

StoreInit ==
    /\ publication = 0
    /\ bank = [b \in 0..1 |-> [len |-> 0, word |-> [i \in 1..WORDS |-> CHOOSE w \in Word : TRUE]]]
    /\ mutex = "none"
    /\ pc = [t \in Thread |-> "idle"]
    /\ revision = [t \in Thread |-> 0]
    /\ size = [t \in Thread |-> 0]
    /\ bytes = [t \in Thread |-> <<>>]
    /\ dead = {}
    /\ published = <<<<>>>>

At(t, step) == t \notin dead /\ pc[t] = step
Goto(t, step) == pc' = [pc EXCEPT ![t] = step]
Set(f, t, v) == [f EXCEPT ![t] = v]

BankOf(r) == r % 2
Contents(b) == SubSeq(bank[b].word, 1, bank[b].len)

\* The value published under revision r.
ValueAt(r) == published[r + 1]
-----------------------------------------------------------------------------
(* read_snapshot *)

\* Mutated form: the reader takes its revision under the mutex.
LoadRevisionLocked(t) ==
    /\ At(t, "idle") \/ At(t, "retry")
    /\ mutex = "none"
    /\ revision' = Set(revision, t, publication)
    /\ Goto(t, "length")
    /\ UNCHANGED <<sharedVars, size, bytes, dead, published>>

LoadRevision(t) ==
    /\ At(t, "idle") \/ At(t, "retry")
    /\ revision' = Set(revision, t, publication)
    /\ Goto(t, "length")
    /\ UNCHANGED <<sharedVars, size, bytes, dead, published>>

\* copy_bank: the length, ...
CopyLength(t) ==
    /\ At(t, "length")
    /\ size' = Set(size, t, bank[BankOf(revision[t])].len)
    /\ bytes' = Set(bytes, t, <<>>)
    /\ Goto(t, "copy")
    /\ UNCHANGED <<sharedVars, revision, dead, published>>

\* ... then the words in order.
CopyWord(t) ==
    /\ At(t, "copy")
    /\ Len(bytes[t]) < size[t]
    /\ bytes' = Set(bytes, t,
           Append(bytes[t], bank[BankOf(revision[t])].word[Len(bytes[t]) + 1]))
    /\ UNCHANGED <<sharedVars, pc, revision, size, dead, published>>

\* Mutated form: only the bank is compared, not the revision.
CheckRevisionByBank(t) ==
    /\ At(t, "copy")
    /\ Len(bytes[t]) = size[t]
    /\ IF BankOf(publication) = BankOf(revision[t])
       THEN Goto(t, "read")
       ELSE Goto(t, "retry")
    /\ UNCHANGED <<sharedVars, localVars, dead, published>>

\* The publication again: the snapshot counts if it has not moved.
CheckRevision(t) ==
    /\ At(t, "copy")
    /\ Len(bytes[t]) = size[t]
    /\ IF publication = revision[t]
       THEN Goto(t, "read")
       ELSE Goto(t, "retry")
    /\ UNCHANGED <<sharedVars, localVars, dead, published>>
-----------------------------------------------------------------------------
(* update_then, replace, inspect_exclusive *)

\* WAIT_OBJECT_0 or WAIT_ABANDONED.
Available == mutex = "none" \/ mutex \in dead

\* acquire, the revision and the old value: nobody else can write now.
Acquire(t) ==
    /\ At(t, "idle")
    /\ Available
    /\ mutex' = t
    /\ revision' = Set(revision, t, publication)
    /\ bytes' = Set(bytes, t, Contents(BankOf(publication)))
    /\ Goto(t, "old")
    /\ UNCHANGED <<publication, bank, size, dead, published>>

\* Nothing is published: the action fails, leaves the value as it is, only
\* inspects it, or the revision is exhausted.
Leave(t) ==
    /\ At(t, "old")
    /\ mutex' = "none"
    /\ Goto(t, "read")
    /\ UNCHANGED <<publication, bank, localVars, dead, published>>

\* The action returns another value.
Compute(t) ==
    /\ At(t, "old")
    /\ revision[t] < MAX_REVISION
    /\ \E v \in Value \ {bytes[t]} : bytes' = Set(bytes, t, v)
    /\ size' = Set(size, t, 0)
    /\ Goto(t, "stage")
    /\ UNCHANGED <<sharedVars, revision, dead, published>>

\* Mutated form: the words go to the published bank.
StageWordInPlace(t) ==
    /\ At(t, "stage")
    /\ size[t] < Len(bytes[t])
    /\ bank' = [bank EXCEPT ![BankOf(revision[t])].word[size[t] + 1] = bytes[t][size[t] + 1]]
    /\ size' = Set(size, t, size[t] + 1)
    /\ UNCHANGED <<publication, mutex, pc, revision, bytes, dead, published>>

\* stage_bytes: the words of the other bank in order, ...
StageWord(t) ==
    /\ At(t, "stage")
    /\ size[t] < Len(bytes[t])
    /\ bank' = [bank EXCEPT ![BankOf(revision[t] + 1)].word[size[t] + 1] = bytes[t][size[t] + 1]]
    /\ size' = Set(size, t, size[t] + 1)
    /\ UNCHANGED <<publication, mutex, pc, revision, bytes, dead, published>>

\* ... then its length.
StageLength(t) ==
    /\ At(t, "stage")
    /\ size[t] = Len(bytes[t])
    /\ bank' = [bank EXCEPT ![BankOf(revision[t] + 1)].len = Len(bytes[t])]
    /\ Goto(t, "publish")
    /\ UNCHANGED <<publication, mutex, localVars, dead, published>>

Publish(t) ==
    /\ At(t, "publish")
    /\ publication' = revision[t] + 1
    /\ published' = Append(published, bytes[t])
    /\ revision' = Set(revision, t, revision[t] + 1)
    /\ Goto(t, "written")
    /\ UNCHANGED <<bank, mutex, size, bytes, dead>>

\* The guard is dropped; update_with_revision returns the new revision.
Release(t) ==
    /\ At(t, "written")
    /\ mutex' = "none"
    /\ Goto(t, "read")
    /\ UNCHANGED <<publication, bank, localVars, dead, published>>

\* The locals of a thread are gone.
Forget(t) ==
    /\ Goto(t, "idle")
    /\ revision' = Set(revision, t, 0)
    /\ size' = Set(size, t, 0)
    /\ bytes' = Set(bytes, t, <<>>)

\* The call returns its revision and value; the thread may call again.
Return(t) ==
    /\ At(t, "read")
    /\ Forget(t)
    /\ UNCHANGED <<sharedVars, dead, published>>

\* The process is killed; a mutex it owns is abandoned.
Kill(t) ==
    /\ t \notin dead
    /\ dead' = dead \cup {t}
    /\ Forget(t)
    /\ UNCHANGED <<sharedVars, published>>
-----------------------------------------------------------------------------
Read(t) == LoadRevision(t) \/ CopyLength(t) \/ CopyWord(t) \/ CheckRevision(t)

Write(t) ==
    \/ Acquire(t) \/ Leave(t) \/ Compute(t) \/ StageWord(t) \/ StageLength(t)
    \/ Publish(t) \/ Release(t)

StoreNext == \E t \in Thread : Read(t) \/ Write(t) \/ Return(t) \/ Kill(t)

StoreSpec == StoreInit /\ [][StoreNext]_storeVars

\* Only a thread that reads is sure to go on: a writer may be suspended in the
\* middle, with the mutex, for ever (a frozen sibling of a forking thread).
FairStoreSpec ==
    /\ StoreSpec
    /\ \A t \in Thread : WF_storeVars(pc[t] # "idle" /\ Read(t))
-----------------------------------------------------------------------------
\* The published bank holds the whole value that was published last, whatever
\* writers were killed on the way to the next one.
PublishedIntact ==
    /\ Len(published) = publication + 1
    /\ Contents(BankOf(publication)) = ValueAt(publication)

\* What read, update and inspect_exclusive return was published as a whole,
\* under the revision they return with it: no torn record, no old value with
\* a newer label.
SnapshotExact ==
    \A t \in Thread : pc[t] = "read" => bytes[t] = ValueAt(revision[t])

Reading(t) == pc[t] \in {"length", "copy", "retry"}

\* A reader comes to an end even if a writer with the mutex never moves again.
ReadersReturn == \A t \in Thread : Reading(t) ~> ~Reading(t)
=============================================================================
