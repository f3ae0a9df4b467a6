-------------------------- MODULE WritebackProofs --------------------------
(***************************************************************************)
(* Proofs about the writeback queue for every number of files, threads,    *)
(* clients and hints and for every capacity.                               *)
(***************************************************************************)
EXTENDS Writeback, FiniteSetTheorems, SequenceTheorems, TLAPS

USE WritebackAssumption DEF WritebackAssumption

\* The strengthening that every action preserves.
IInv == TypeOK /\ HintsDistinct /\ Accounting /\ FailurePinsFile

\* An empty queue satisfies the invariant.
LEMMA InitIInv == Init => IInv
<1> SUFFICES ASSUME Init PROVE IInv
  OBVIOUS
<1>1. TypeOK
  <2>1. thread \in [Worker -> ThreadState]
    BY DEF Init, Idle, ThreadState
  <2>2. waiter \in [Client -> WaiterState]
    BY DEF Init, Resting, WaiterState
  <2>3. DOMAIN entries = {}
    BY DEF Init
  <2>4. channel \in Seq(Command)
    BY DEF Init
  <2>5. closing \in BOOLEAN
    BY DEF Init
  <2>6. nextHint \in 1..(MaxHints + 1)
    BY DEF Init
  <2> QED
    BY <2>1, <2>2, <2>3, <2>4, <2>5, <2>6 DEF Init, TypeOK
<1>2. Busy = {}
  BY DEF Init, Busy, Idle
<1>3. Accounting
  BY <1>2, FS_EmptySet DEF Init, Accounting, Outstanding
<1> QED
  BY <1>1, <1>2, <1>3 DEF IInv, Init, HintsDistinct, FailurePinsFile
\* The outstanding hints of a file are finitely many.
LEMMA OutstandingFinite ==
  ASSUME NEW k PROVE IsFiniteSet(Outstanding(k))
<1>1. IsFiniteSet(Hint)
  BY FS_Interval DEF Hint
<1>2. Outstanding(k) \subseteq Hint
  BY DEF Outstanding
<1> QED
  BY <1>1, <1>2, FS_Subset

\* Finitely many threads are busy.
LEMMA BusyFinite == IsFiniteSet(Busy)
BY FS_Subset DEF Busy

\* What is in the channel is a command.
LEMMA ChannelElements ==
  ASSUME TypeOK, NEW i \in DOMAIN channel
  PROVE  channel[i].key \in Key /\ channel[i].hint \in Hint
<1>1. channel[i] \in Command
  BY ElementOfSeq DEF TypeOK
<1> QED
  BY <1>1 DEF Command

\* A busy thread holds a command.
LEMMA BusyThreads ==
  ASSUME TypeOK, NEW w \in Busy
  PROVE  /\ w \in Worker
         /\ thread[w].key \in Key
         /\ thread[w].hint \in Hint
         /\ thread[w].at = "publish" => thread[w].error \in Errors \cup {0}
         /\ thread[w].at \in {"grace", "flush"}
              => thread[w] \in [at : {"grace", "flush"}, key : Key, hint : Hint]
BY DEF TypeOK, Busy, ThreadState

\* Steps that move no command: what is counted stays where it is.
LEMMA NoCommandMoves ==
  ASSUME IInv, UNCHANGED <<entries, pending, channel, nextHint>>,
         Busy' = Busy,
         \A w \in Busy : /\ thread'[w].key = thread[w].key
                         /\ thread'[w].hint = thread[w].hint
  PROVE  HintsDistinct' /\ Accounting' /\ FailurePinsFile'
<1> USE DEF IInv
<1>1. HintsDistinct'
  BY DEF HintsDistinct
<1>2. \A k : Outstanding(k)' = Outstanding(k)
  BY DEF Outstanding
<1>3. Accounting'
  BY <1>2 DEF Accounting
<1> QED
  BY <1>1, <1>3 DEF FailurePinsFile

\* `start` creates the threads or gives up.
LEMMA StartStep ==
  ASSUME IInv, Start PROVE IInv'
<1> USE DEF IInv, Start
<1>1. TypeOK'
  BY DEF TypeOK
<1>2. HintsDistinct'
  BY DEF HintsDistinct, Busy
<1>3. Accounting'
  BY DEF Accounting, Busy, Outstanding
<1> QED
  BY <1>1, <1>2, <1>3 DEF FailurePinsFile

\* `submit` counts the hint it puts into the channel.
LEMMA SubmitStep ==
  ASSUME IInv, NEW k \in Key, Submit(k) PROVE IInv'
<1> DEFINE old == IF k \in DOMAIN entries THEN entries[k] ELSE NewEntry
           new == [old EXCEPT !.pending = @ + 1]
           command == [key |-> k, hint |-> nextHint]
<1> USE DEF IInv
<1>1. /\ old \in Entry
      /\ new \in Entry
      /\ new.pending = old.pending + 1
      /\ new.error = old.error
      /\ new.failed_file = old.failed_file
      /\ old.error # 0 <=> old.failed_file # 0
  <2>1. old \in Entry
    BY DEF TypeOK, Entry, NewEntry
  <2>2. old.error # 0 <=> old.failed_file # 0
    BY DEF FailurePinsFile, NewEntry
  <2> QED
    BY <2>1, <2>2 DEF Entry
<1>2. /\ entries' = With(entries, k, new)
      /\ pending' = pending + 1
      /\ channel' = Append(channel, command)
      /\ nextHint' = nextHint + 1
      /\ nextHint \in Hint
      /\ UNCHANGED <<closing, workers, thread, waiter, closer, flushed>>
  BY DEF Submit, TypeOK, Hint
<1>3. /\ DOMAIN entries' = DOMAIN entries \cup {k}
      /\ entries'[k] = new
      /\ \A j \in DOMAIN entries : j # k => entries'[j] = entries[j]
  BY <1>2 DEF With
<1>4. /\ channel \in Seq(Command)
      /\ channel' \in Seq(Command)
      /\ Len(channel') = Len(channel) + 1
      /\ DOMAIN channel = 1..Len(channel)
      /\ DOMAIN channel' = 1..(Len(channel) + 1)
      /\ \A i \in 1..Len(channel) : channel'[i] = channel[i]
      /\ channel'[Len(channel) + 1] = command
      /\ Len(channel) \in Nat
  BY <1>2 DEF TypeOK, Command
<1>5. TypeOK'
  <2>1. nextHint' \in 1..(MaxHints + 1)
    BY <1>2 DEF Hint, TypeOK
  <2>2. DOMAIN entries' \subseteq Key /\ \A j \in DOMAIN entries' : entries'[j] \in Entry
    BY <1>1, <1>3 DEF TypeOK
  <2>3. closing' \in BOOLEAN /\ pending' \in Nat
    BY <1>2 DEF TypeOK
  <2> QED
    BY <1>2, <1>4, <2>1, <2>2, <2>3 DEF TypeOK
<1>6. Busy' = Busy
  BY <1>2 DEF Busy
<1>7. HintsDistinct'
  <2>1. nextHint \in Nat
    BY DEF TypeOK
  <2>2. \A i \in DOMAIN channel : channel[i].hint \in Nat
    BY ChannelElements DEF Hint
  <2>3. \A w \in Busy : thread[w].hint \in Nat
    BY BusyThreads DEF Hint
  <2> QED
    BY <1>2, <1>4, <1>6, <2>1, <2>2, <2>3 DEF HintsDistinct
<1>8. /\ Outstanding(k)' = Outstanding(k) \cup {nextHint}
      /\ \A j \in Key : j # k => Outstanding(j)' = Outstanding(j)
  BY <1>2, <1>4, <1>6 DEF Outstanding
<1>9. nextHint \notin Outstanding(k)
  BY <1>2 DEF Outstanding, HintsDistinct, TypeOK, Hint
<1>10. Cardinality(Outstanding(k)') = Cardinality(Outstanding(k)) + 1
  BY <1>8, <1>9, OutstandingFinite, FS_AddElement
<1>11. Accounting'
  <2>1. old.pending = Cardinality(Outstanding(k))
    BY FS_EmptySet DEF Accounting, NewEntry
  <2>2. Cardinality(Outstanding(k)) \in Nat
    BY OutstandingFinite, FS_CardinalityType
  <2>3. pending' = Len(channel') + Cardinality(Busy')
    BY <1>2, <1>4, <1>6, BusyFinite, FS_CardinalityType DEF Accounting
  <2>4. ASSUME NEW j \in Key
        PROVE  IF j \in DOMAIN entries'
               THEN /\ entries'[j].pending = Cardinality(Outstanding(j)')
                    /\ entries'[j].pending = 0 => entries'[j].error # 0
               ELSE Outstanding(j)' = {}
    <3>1. CASE j = k
      <4>1. k \in DOMAIN entries' /\ entries'[k] = new
        BY <1>3
      <4>2. new.pending = old.pending + 1
        BY <1>1 DEF Entry
      <4>3. new.pending = Cardinality(Outstanding(k)') /\ new.pending # 0
        BY <1>10, <2>1, <2>2, <4>2
      <4> HIDE DEF new
      <4> QED
        BY <3>1, <4>1, <4>3
    <3>2. CASE j # k
      BY <1>3, <1>8, <3>2 DEF Accounting
    <3> QED
      BY <3>1, <3>2
  <2> QED
    BY <2>3, <2>4 DEF Accounting
<1>12. FailurePinsFile'
  BY <1>1, <1>3 DEF FailurePinsFile
<1> QED
  BY <1>5, <1>7, <1>11, <1>12
\* A thread takes a command: it stays outstanding.
LEMMA ReceiveStep ==
  ASSUME IInv, NEW w \in Worker, Receive(w) PROVE IInv'
<1> DEFINE c == Head(channel)
<1> USE DEF IInv
<1>1. /\ thread[w].at = "recv"
      /\ thread' = [thread EXCEPT ![w] =
                      [at |-> "grace", key |-> c.key, hint |-> c.hint]]
      /\ channel # <<>>
      /\ channel' = Tail(channel)
      /\ UNCHANGED <<entries, pending, closing, workers, waiter, closer,
                     nextHint, flushed>>
  BY DEF Receive
<1>2. /\ channel \in Seq(Command)
      /\ channel' \in Seq(Command)
      /\ Len(channel) \in Nat \ {0}
      /\ DOMAIN channel = 1..Len(channel)
      /\ Len(channel') = Len(channel) - 1
      /\ DOMAIN channel' = 1..(Len(channel) - 1)
      /\ \A i \in 1..(Len(channel) - 1) : channel'[i] = channel[i + 1]
      /\ c = channel[1]
  BY <1>1, HeadTailProperties DEF TypeOK
<1>3. c.key \in Key /\ c.hint \in Hint
  BY <1>2, ChannelElements
<1>4. /\ thread'[w] = [at |-> "grace", key |-> c.key, hint |-> c.hint]
      /\ \A v \in Worker : v # w => thread'[v] = thread[v]
  BY <1>1 DEF TypeOK
<1>5. w \notin Busy /\ Busy' = Busy \cup {w}
  BY <1>1, <1>4 DEF Busy
<1>6. TypeOK'
  <2>1. thread' \in [Worker -> ThreadState]
    BY <1>1, <1>3 DEF TypeOK, ThreadState
  <2>2. closing' \in BOOLEAN
    BY <1>1 DEF TypeOK
  <2> QED
    BY <1>1, <1>2, <2>1, <2>2 DEF TypeOK
<1>7. HintsDistinct'
  <2>1. \A i \in DOMAIN channel' : i + 1 \in DOMAIN channel /\ i + 1 # 1
                                  /\ channel'[i] = channel[i + 1]
    BY <1>2
  <2>2. 1 \in DOMAIN channel
    BY <1>2
  <2>3. \A v \in Busy' : v # w => v \in Busy /\ thread'[v] = thread[v]
    BY <1>4, <1>5 DEF Busy
  <2>4. thread'[w].hint = channel[1].hint
    BY <1>2, <1>4
  <2>5. \A i, j \in DOMAIN channel' : channel'[i].hint = channel'[j].hint => i = j
    <3> SUFFICES ASSUME NEW i \in DOMAIN channel', NEW j \in DOMAIN channel',
                        channel'[i].hint = channel'[j].hint
                 PROVE  i = j
      OBVIOUS
    <3>1. i + 1 = j + 1
      BY <2>1 DEF HintsDistinct
    <3> QED
      BY <3>1, <1>2
  <2>6. \A i \in DOMAIN channel' : channel'[i].hint < nextHint'
    BY <1>1, <2>1 DEF HintsDistinct
  <2>7. \A v \in Busy' : thread'[v].hint < nextHint'
    BY <1>1, <2>2, <2>3, <2>4 DEF HintsDistinct
  <2>8. \A v \in Busy', i \in DOMAIN channel' : channel'[i].hint # thread'[v].hint
    BY <2>1, <2>2, <2>3, <2>4 DEF HintsDistinct
  <2>9. \A u, v \in Busy' : thread'[u].hint = thread'[v].hint => u = v
    BY <2>2, <2>3, <2>4 DEF HintsDistinct
  <2> QED
    BY <2>5, <2>6, <2>7, <2>8, <2>9 DEF HintsDistinct
<1>8. ASSUME NEW k PROVE Outstanding(k)' = Outstanding(k)
  <2>1. ASSUME NEW h
        PROVE  (\E i \in DOMAIN channel : channel[i].key = k /\ channel[i].hint = h)
               <=> \/ c.key = k /\ c.hint = h
                   \/ \E i \in DOMAIN channel' :
                        channel'[i].key = k /\ channel'[i].hint = h
    <3>1. ASSUME NEW i \in DOMAIN channel, i # 1
          PROVE  i - 1 \in DOMAIN channel' /\ channel'[i - 1] = channel[i]
      BY <1>2, <3>1
    <3>2. \A i \in DOMAIN channel' : i + 1 \in DOMAIN channel
                                    /\ channel'[i] = channel[i + 1]
      BY <1>2
    <3>3. 1 \in DOMAIN channel
      BY <1>2
    <3>4. \A i \in DOMAIN channel : channel[i].key = k /\ channel[i].hint = h
            => \/ c.key = k /\ c.hint = h
               \/ \E j \in DOMAIN channel' :
                    channel'[j].key = k /\ channel'[j].hint = h
      <4> SUFFICES ASSUME NEW i \in DOMAIN channel,
                          channel[i].key = k, channel[i].hint = h, i # 1
                   PROVE  \E j \in DOMAIN channel' :
                             channel'[j].key = k /\ channel'[j].hint = h
        BY <1>2
      <4>1. i - 1 \in DOMAIN channel' /\ channel'[i - 1] = channel[i]
        BY <3>1
      <4> QED
        BY <4>1
    <3> QED
      BY <1>2, <3>2, <3>3, <3>4
  <2>2. ASSUME NEW h
        PROVE  (\E v \in Busy' : thread'[v].key = k /\ thread'[v].hint = h)
               <=> \/ c.key = k /\ c.hint = h
                   \/ \E v \in Busy : thread[v].key = k /\ thread[v].hint = h
    BY <1>4, <1>5 DEF Busy
  <2> QED
    BY <2>1, <2>2 DEF Outstanding
<1>9. Accounting'
  <2>1. Cardinality(Busy') = Cardinality(Busy) + 1 /\ Cardinality(Busy) \in Nat
    BY <1>5, BusyFinite, FS_AddElement, FS_CardinalityType
  <2>2. pending' = Len(channel') + Cardinality(Busy')
    BY <1>1, <1>2, <2>1 DEF Accounting
  <2> QED
    BY <1>1, <1>8, <2>2 DEF Accounting
<1>10. FailurePinsFile'
  BY <1>1 DEF FailurePinsFile
<1> QED
  BY <1>6, <1>7, <1>9, <1>10

\* The end of a grace period moves no command.
LEMMA GraceStep ==
  ASSUME IInv, NEW w \in Worker, GraceBypassed(w) \/ GraceElapsed(w)
  PROVE  IInv'
<1> USE DEF IInv
<1>1. /\ thread[w].at = "grace"
      /\ thread' = [thread EXCEPT ![w].at = "flush"]
      /\ UNCHANGED <<entries, pending, closing, channel, workers, waiter,
                     closer, nextHint, flushed>>
  BY DEF GraceBypassed, GraceElapsed
<1>2. w \in Busy
  BY <1>1 DEF Busy
<1>3. /\ thread[w] \in [at : {"grace", "flush"}, key : Key, hint : Hint]
      /\ thread'[w] = [thread[w] EXCEPT !.at = "flush"]
      /\ \A v \in Worker : v # w => thread'[v] = thread[v]
  BY <1>1, <1>2, BusyThreads DEF TypeOK
<1>4. TypeOK'
  <2>1. thread'[w] \in ThreadState
    BY <1>3 DEF ThreadState
  <2>2. thread' \in [Worker -> ThreadState]
    BY <1>1, <2>1 DEF TypeOK
  <2>3. closing' \in BOOLEAN
    BY <1>1 DEF TypeOK
  <2> QED
    BY <1>1, <2>2, <2>3 DEF TypeOK
<1>5. Busy' = Busy
  BY <1>1, <1>3 DEF Busy
<1>6. \A v \in Busy : /\ thread'[v].key = thread[v].key
                      /\ thread'[v].hint = thread[v].hint
  BY <1>3 DEF Busy
<1> QED
  BY <1>1, <1>4, <1>5, <1>6, NoCommandMoves

\* The flush itself moves no command.
LEMMA FlushStep ==
  ASSUME IInv, NEW w \in Worker, NEW e \in Errors \cup {0}, Flush(w, e)
  PROVE  IInv'
<1> USE DEF IInv
<1>1. /\ thread[w].at = "flush"
      /\ thread' = [thread EXCEPT ![w] =
            [at |-> "publish", key |-> @.key, hint |-> @.hint, error |-> e]]
      /\ flushed' = flushed \cup {thread[w].hint}
      /\ UNCHANGED <<entries, pending, closing, channel, workers, waiter,
                     closer, nextHint>>
  BY DEF Flush
<1>2. w \in Busy
  BY <1>1 DEF Busy
<1>3. /\ thread[w].key \in Key /\ thread[w].hint \in Hint
      /\ thread'[w] = [at |-> "publish", key |-> thread[w].key,
                       hint |-> thread[w].hint, error |-> e]
      /\ \A v \in Worker : v # w => thread'[v] = thread[v]
  BY <1>1, <1>2, BusyThreads DEF TypeOK
<1>4. TypeOK'
  <2>1. thread'[w] \in ThreadState
    BY <1>3 DEF ThreadState
  <2>2. thread' \in [Worker -> ThreadState]
    BY <1>1, <2>1 DEF TypeOK
  <2>3. closing' \in BOOLEAN /\ flushed' \subseteq Hint
    BY <1>1, <1>3 DEF TypeOK
  <2> QED
    BY <1>1, <2>2, <2>3 DEF TypeOK
<1>5. Busy' = Busy
  BY <1>1, <1>3 DEF Busy
<1>6. \A v \in Busy : /\ thread'[v].key = thread[v].key
                      /\ thread'[v].hint = thread[v].hint
  BY <1>3 DEF Busy
<1> QED
  BY <1>1, <1>4, <1>5, <1>6, NoCommandMoves
\* A completion settles exactly the hint the thread holds.
LEMMA CompleteStep ==
  ASSUME IInv, NEW w \in Worker, Complete(w),
         NEW k, k = thread[w].key,
         NEW h, h = thread[w].hint,
         NEW e, e = thread[w].error
  PROVE  IInv'
<1> DEFINE entry == Settled(entries[k], h, e)
<1> USE DEF IInv
<1>1. /\ thread[w].at = "publish"
      /\ entries' = IF entry.pending = 0 /\ entry.error = 0
                    THEN Without(entries, k)
                    ELSE [entries EXCEPT ![k] = entry]
      /\ pending' = pending - 1
      /\ thread' = [thread EXCEPT ![w] = Idle]
      /\ UNCHANGED <<closing, channel, workers, waiter, closer, nextHint,
                     flushed>>
  BY DEF Complete
<1>2. w \in Busy
  BY <1>1 DEF Busy
<1>3. k \in Key /\ h \in Hint /\ e \in Errors \cup {0}
  BY <1>1, <1>2, BusyThreads
<1>4. h \in Outstanding(k)
  BY <1>2, <1>3 DEF Outstanding
<1>5. /\ k \in DOMAIN entries
      /\ entries[k] \in Entry
      /\ entries[k].pending = Cardinality(Outstanding(k))
  BY <1>3, <1>4 DEF Accounting, TypeOK
<1>6. entries[k].pending \in Nat \ {0}
  BY <1>4, <1>5, OutstandingFinite, FS_EmptySet, FS_CardinalityType
<1>7. /\ entry \in Entry
      /\ entry.pending = entries[k].pending - 1
      /\ entry.error = IF entries[k].error = 0 THEN e ELSE entries[k].error
      /\ entry.failed_file = IF e # 0 THEN h ELSE entries[k].failed_file
  <2>1. entries[k].pending - 1 \in Nat
    BY <1>6
  <2> QED
    BY <1>3, <1>5, <2>1 DEF Settled, Entry
<1>8. /\ DOMAIN entries' = IF entry.pending = 0 /\ entry.error = 0
                           THEN DOMAIN entries \ {k} ELSE DOMAIN entries
      /\ \A j \in DOMAIN entries' :
            entries'[j] = IF j = k THEN entry ELSE entries[j]
  BY <1>1, <1>5 DEF Without, Restrict
<1>9. /\ thread'[w] = Idle
      /\ \A v \in Worker : v # w => thread'[v] = thread[v]
  BY <1>1 DEF TypeOK
<1>10. Busy' = Busy \ {w}
  BY <1>9 DEF Busy, Idle
<1>11. Cardinality(Busy') = Cardinality(Busy) - 1 /\ Cardinality(Busy) \in Nat \ {0}
  BY <1>2, <1>10, BusyFinite, FS_RemoveElement, FS_CardinalityType, FS_EmptySet
<1>12. TypeOK'
  <2>1. thread' \in [Worker -> ThreadState]
    BY <1>1 DEF TypeOK, ThreadState, Idle
  <2>2. closing' \in BOOLEAN
    BY <1>1 DEF TypeOK
  <2>3. pending' \in Nat
    <3>1. Len(channel) \in Nat
      BY DEF TypeOK
    <3> QED
      BY <1>1, <1>11, <3>1 DEF Accounting
  <2>4. DOMAIN entries' \subseteq Key /\ \A j \in DOMAIN entries' : entries'[j] \in Entry
    BY <1>7, <1>8 DEF TypeOK
  <2> QED
    BY <1>1, <2>1, <2>2, <2>3, <2>4 DEF TypeOK
<1>13. \A v \in Busy' : v \in Busy /\ thread'[v] = thread[v]
  BY <1>9, <1>10 DEF Busy
<1>14. HintsDistinct'
  BY <1>1, <1>13 DEF HintsDistinct
<1>15. \A j \in Key : Outstanding(j)' = IF j = k THEN Outstanding(k) \ {h}
                                        ELSE Outstanding(j)
  <2> TAKE j \in Key
  <2>1. channel' = channel
    BY <1>1
  <2>2. ASSUME NEW g \in Hint, g \in Outstanding(j)', g = h PROVE j # k
    BY <1>2, <1>10, <1>13, <2>1, <2>2 DEF Outstanding, HintsDistinct
  <2>3. ASSUME NEW g \in Hint, g \in Outstanding(j)' PROVE g \in Outstanding(j)
    BY <1>13, <2>1, <2>3 DEF Outstanding
  <2>4. ASSUME NEW g \in Hint, g \in Outstanding(j), j = k => g # h
        PROVE  g \in Outstanding(j)'
    <3>1. CASE \E i \in DOMAIN channel : channel[i].key = j /\ channel[i].hint = g
      BY <2>1, <3>1 DEF Outstanding
    <3>2. CASE \E v \in Busy : thread[v].key = j /\ thread[v].hint = g
      <4>1. PICK v \in Busy : thread[v].key = j /\ thread[v].hint = g
        BY <3>2
      <4>2. v \in Busy' /\ thread'[v] = thread[v]
        BY <2>4, <4>1, <1>10, <1>13
      <4> QED
        BY <4>1, <4>2 DEF Outstanding
    <3> QED
      BY <2>4, <3>1, <3>2 DEF Outstanding
  <2>5. Outstanding(j) \subseteq Hint /\ Outstanding(j)' \subseteq Hint
    BY DEF Outstanding
  <2> QED
    BY <2>2, <2>3, <2>4, <2>5
<1>16. Cardinality(Outstanding(k)') = Cardinality(Outstanding(k)) - 1
  BY <1>3, <1>4, <1>15, OutstandingFinite, FS_RemoveElement
<1>17. Accounting'
  <2>1. Len(channel) \in Nat
    BY DEF TypeOK
  <2>2. pending' = Len(channel') + Cardinality(Busy')
    BY <1>1, <1>11, <2>1 DEF Accounting
  <2>3. ASSUME NEW j \in Key
        PROVE  IF j \in DOMAIN entries'
               THEN /\ entries'[j].pending = Cardinality(Outstanding(j)')
                    /\ entries'[j].pending = 0 => entries'[j].error # 0
               ELSE Outstanding(j)' = {}
    <3>1. CASE j # k
      BY <1>8, <1>15, <3>1 DEF Accounting
    <3>2. CASE j = k /\ j \in DOMAIN entries'
      BY <1>5, <1>7, <1>8, <1>16, <3>2
    <3>3. CASE j = k /\ j \notin DOMAIN entries'
      <4>1. Cardinality(Outstanding(k)') = 0
        BY <1>5, <1>6, <1>7, <1>8, <1>16, <3>3
      <4>2. Outstanding(k)' \subseteq Outstanding(k)
        BY <1>3, <1>15
      <4>3. IsFiniteSet(Outstanding(k)')
        BY <4>2, OutstandingFinite, FS_Subset
      <4> QED
        BY <3>3, <4>1, <4>3, FS_EmptySet
    <3> QED
      BY <3>1, <3>2, <3>3
  <2> QED
    BY <2>2, <2>3 DEF Accounting
<1>18. FailurePinsFile'
  <2>1. entry.error # 0 <=> entry.failed_file # 0
    BY <1>3, <1>5, <1>7 DEF FailurePinsFile, Hint
  <2> QED
    BY <1>8, <2>1 DEF FailurePinsFile
<1> QED
  BY <1>12, <1>14, <1>17, <1>18

\* A waiter removes an entry that counts nothing.
LEMMA RemoveSettled ==
  ASSUME IInv, NEW k \in Key, entries' = Without(entries, k),
         k \in DOMAIN entries => entries[k].pending = 0,
         UNCHANGED <<pending, channel, thread, nextHint>>
  PROVE  /\ HintsDistinct' /\ Accounting' /\ FailurePinsFile'
         /\ DOMAIN entries' \subseteq Key
         /\ \A j \in DOMAIN entries' : entries'[j] \in Entry
<1> USE DEF IInv
<1>1. /\ DOMAIN entries' = DOMAIN entries \ {k}
      /\ \A j \in DOMAIN entries' : entries'[j] = entries[j]
  BY DEF Without, Restrict
<1>2. Busy' = Busy /\ \A j : Outstanding(j)' = Outstanding(j)
  BY DEF Busy, Outstanding
<1>3. Outstanding(k) = {}
  BY OutstandingFinite, FS_EmptySet DEF Accounting
<1>4. HintsDistinct'
  BY <1>2 DEF HintsDistinct
<1>5. Accounting'
  BY <1>1, <1>2, <1>3 DEF Accounting
<1>6. FailurePinsFile'
  BY <1>1 DEF FailurePinsFile
<1> QED
  BY <1>1, <1>4, <1>5, <1>6 DEF TypeOK

\* `wait` returns 0 or an error code.
LEMMA ReportedType ==
  ASSUME TypeOK, NEW k PROVE Resting(Reported(k)) \in WaiterState
<1>1. Reported(k) \in Errors \cup {0}
  BY DEF Reported, TypeOK, Entry
<1> QED
  BY <1>1 DEF Resting, WaiterState

\* A `wait` that sleeps only marks its file urgent.
LEMMA WaitBeginStep ==
  ASSUME IInv, NEW c \in Client, NEW k \in Key, WaitBegin(c, k) PROVE IInv'
<1> USE DEF IInv
<1>1. /\ k \in DOMAIN entries
      /\ entries' = [entries EXCEPT ![k].urgent = TRUE]
      /\ waiter' = [waiter EXCEPT ![c] =
            [at |-> "waiting", key |-> k, before |-> Outstanding(k)]]
      /\ UNCHANGED <<pending, closing, channel, workers, thread, closer,
                     nextHint, flushed>>
  BY DEF WaitBegin
<1>2. entries[k] \in Entry
  BY <1>1 DEF TypeOK
<1>3. /\ DOMAIN entries' = DOMAIN entries
      /\ entries'[k] \in Entry
      /\ entries'[k].pending = entries[k].pending
      /\ entries'[k].error = entries[k].error
      /\ entries'[k].failed_file = entries[k].failed_file
      /\ \A j \in DOMAIN entries : j # k => entries'[j] = entries[j]
  BY <1>1, <1>2 DEF Entry
<1>4. TypeOK'
  <2>1. waiter' \in [Client -> WaiterState]
    BY <1>1 DEF TypeOK, WaiterState, Outstanding
  <2>2. closing' \in BOOLEAN
    BY <1>1 DEF TypeOK
  <2>3. DOMAIN entries' \subseteq Key /\ \A j \in DOMAIN entries' : entries'[j] \in Entry
    BY <1>3 DEF TypeOK
  <2> QED
    BY <1>1, <2>1, <2>2, <2>3 DEF TypeOK
<1>5. Busy' = Busy /\ \A j : Outstanding(j)' = Outstanding(j)
  BY <1>1 DEF Busy, Outstanding
<1>6. HintsDistinct'
  BY <1>1, <1>5 DEF HintsDistinct
<1>7. Accounting'
  BY <1>1, <1>3, <1>5 DEF Accounting
<1>8. FailurePinsFile'
  BY <1>3 DEF FailurePinsFile
<1> QED
  BY <1>4, <1>6, <1>7, <1>8

\* A `wait` that returns removes an entry without pending hints.
LEMMA WaitEndStep ==
  ASSUME IInv, NEW c \in Client, NEW k \in Key,
         WaitReturn(c) \/ WaitAtOnce(c, k)
  PROVE  IInv'
<1> USE DEF IInv
<1>1. PICK j \in Key :
         /\ j \in DOMAIN entries => entries[j].pending = 0
         /\ entries' = Without(entries, j)
         /\ waiter' = [waiter EXCEPT ![c] = Resting(Reported(j))]
         /\ UNCHANGED <<pending, closing, channel, workers, thread, closer,
                        nextHint, flushed>>
  <2>1. CASE WaitReturn(c)
    <3>1. waiter[c].key \in Key
      BY <2>1 DEF WaitReturn, TypeOK, WaiterState
    <3> QED
      BY <2>1, <3>1 DEF WaitReturn
  <2>2. CASE WaitAtOnce(c, k)
    BY <2>2 DEF WaitAtOnce
  <2> QED
    BY <2>1, <2>2
<1>2. /\ HintsDistinct' /\ Accounting' /\ FailurePinsFile'
      /\ DOMAIN entries' \subseteq Key
      /\ \A i \in DOMAIN entries' : entries'[i] \in Entry
  BY <1>1, RemoveSettled
<1>3. TypeOK'
  <2>1. waiter' \in [Client -> WaiterState]
    BY <1>1, ReportedType DEF TypeOK
  <2>2. closing' \in BOOLEAN
    BY <1>1 DEF TypeOK
  <2> QED
    BY <1>1, <1>2, <2>1, <2>2 DEF TypeOK
<1> QED
  BY <1>2, <1>3

\* `shutdown` and the drop of the queue move no command.
LEMMA CloseStep ==
  ASSUME IInv, ShutdownBegin \/ ShutdownReturn \/ DropQueue PROVE IInv'
<1> USE DEF IInv
<1>1. UNCHANGED <<entries, pending, channel, thread, waiter, nextHint, flushed>>
  BY DEF ShutdownBegin, ShutdownReturn, DropQueue
<1>2. Busy' = Busy
  BY <1>1 DEF Busy
<1>3. closing' \in BOOLEAN
  BY DEF ShutdownBegin, ShutdownReturn, DropQueue, TypeOK
<1>4. /\ workers' \in {"unset", "running", "failed", "dropped"}
      /\ closer' \in {"idle", "waiting", "returned"}
  BY DEF ShutdownBegin, ShutdownReturn, DropQueue, TypeOK
<1>5. TypeOK'
  BY <1>1, <1>3, <1>4 DEF TypeOK
<1> QED
  BY <1>1, <1>2, <1>5, NoCommandMoves

\* A thread that ends was idle.
LEMMA ThreadExitStep ==
  ASSUME IInv, NEW w \in Worker, ThreadExit(w) PROVE IInv'
<1> USE DEF IInv
<1>1. /\ thread[w].at = "recv"
      /\ thread' = [thread EXCEPT ![w] = [at |-> "exited"]]
      /\ UNCHANGED <<entries, pending, closing, channel, workers, waiter,
                     closer, nextHint, flushed>>
  BY DEF ThreadExit
<1>2. Busy' = Busy /\ \A v \in Busy : thread'[v] = thread[v]
  BY <1>1 DEF Busy, TypeOK
<1>3. TypeOK'
  <2>1. thread' \in [Worker -> ThreadState]
    BY <1>1 DEF TypeOK, ThreadState
  <2>2. closing' \in BOOLEAN
    BY <1>1 DEF TypeOK
  <2> QED
    BY <1>1, <2>1, <2>2 DEF TypeOK
<1> QED
  BY <1>1, <1>2, <1>3, NoCommandMoves

\* Every step preserves the invariant.
LEMMA NextIInv == IInv /\ [Next]_vars => IInv'
<1> SUFFICES ASSUME IInv, [Next]_vars PROVE IInv'
  OBVIOUS
<1>1. CASE Start
  BY <1>1, StartStep
<1>2. CASE \E k \in Key : Submit(k)
  BY <1>2, SubmitStep
<1>3. CASE \E w \in Worker : WorkerStep(w)
  <2>1. PICK w \in Worker : WorkerStep(w)
    BY <1>3
  <2>2. CASE Complete(w)
    BY <2>2, CompleteStep
  <2>3. CASE \E e \in Errors \cup {0} : Flush(w, e)
    BY <2>3, FlushStep
  <2> QED
    BY <2>1, <2>2, <2>3, ReceiveStep, GraceStep, ThreadExitStep DEF WorkerStep
<1>4. CASE \E w \in Worker : GraceElapsed(w)
  BY <1>4, GraceStep
<1>5. CASE \E c \in Client : WaitReturn(c) \/ \E k \in Key : WaitBegin(c, k) \/ WaitAtOnce(c, k)
  <2>1. PICK c \in Client : \/ WaitReturn(c)
                            \/ \E k \in Key : WaitBegin(c, k) \/ WaitAtOnce(c, k)
    BY <1>5
  <2>2. CASE WaitReturn(c)
    <3>1. waiter[c].key \in Key
      BY <2>2 DEF WaitReturn, IInv, TypeOK, WaiterState
    <3> QED
      BY <2>2, <3>1, WaitEndStep
  <2> QED
    BY <2>1, <2>2, WaitBeginStep, WaitEndStep
<1>6. CASE ShutdownBegin \/ ShutdownReturn \/ DropQueue
  BY <1>6, CloseStep
<1>7. CASE UNCHANGED vars
  <2>1. TypeOK'
    BY <1>7 DEF vars, IInv, TypeOK
  <2>2. Busy' = Busy
    BY <1>7 DEF vars, Busy
  <2> QED
    BY <1>7, <2>1, <2>2, NoCommandMoves DEF vars, IInv
<1> QED
  BY <1>1, <1>2, <1>3, <1>4, <1>5, <1>6, <1>7 DEF Next

\* The counters of the queue are exact for every number of files, threads and
\* waiters: no `unwrap` of a missing entry and no underflow in the worker.
THEOREM AccountingCorrect == Spec => [](TypeOK /\ Accounting)
<1>1. IInv => TypeOK /\ Accounting
  BY DEF IInv
<1> QED
  BY <1>1, InitIInv, NextIInv, PTL DEF Spec

\* A recorded failure always pins its inode.
THEOREM FailuresPinned == Spec => []FailurePinsFile
<1>1. IInv => FailurePinsFile
  BY DEF IInv
<1> QED
  BY <1>1, InitIInv, NextIInv, PTL DEF Spec
-----------------------------------------------------------------------------
(* What was accepted is flushed                                             *)

\* Threads whose command is not flushed yet.
Unflushed == {w \in Worker : thread[w].at \in {"grace", "flush"}}

\* Every accepted hint is flushed, in the channel, or with a thread that has
\* not flushed it; a thread that has only to publish its outcome has flushed.
Flow ==
    /\ \A h \in 1..(nextHint - 1) :
           \/ h \in flushed
           \/ \E i \in DOMAIN channel : channel[i].hint = h
           \/ \E w \in Unflushed : thread[w].hint = h
    /\ \A h \in flushed : h < nextHint
    /\ \A w \in Worker : thread[w].at = "publish" => thread[w].hint \in flushed

\* shutdown closes the queue before it waits, and a thread ends with the
\* channel empty and no sender left.
Ending ==
    /\ closer # "idle" => closing
    /\ closer = "returned" => pending = 0
    /\ \A w \in Worker : thread[w].at = "exited" => workers = "dropped" /\ channel = <<>>

\* What a waiter waits for is flushed or still outstanding.
Covered ==
    \A c \in Client :
        waiter[c].at = "waiting" =>
            /\ waiter[c].key \in Key
            /\ \A h \in waiter[c].before : h \in flushed \/ h \in Outstanding(waiter[c].key)

DInv == IInv /\ Flow /\ Ending /\ Covered

\* The first state.
LEMMA InitDInv == Init => DInv
<1> SUFFICES ASSUME Init PROVE DInv
  OBVIOUS
<1>1. IInv
  BY InitIInv
<1>2. Flow /\ Ending /\ Covered
  BY DEF Init, Flow, Ending, Covered, Idle, Resting
<1> QED
  BY <1>1, <1>2 DEF DInv

\* Steps that move no command and no waiter's claim.
LEMMA QuietDInv ==
  ASSUME DInv, IInv', UNCHANGED <<channel, thread, nextHint, flushed>>
  PROVE  Flow' /\ \A k : Outstanding(k)' = Outstanding(k)
BY DEF DInv, Flow, Unflushed, Outstanding, Busy

\* `submit` puts its hint into the channel.
LEMMA SubmitDInv ==
  ASSUME DInv, IInv', NEW k \in Key, Submit(k) PROVE DInv'
<1>1. /\ channel' = Append(channel, [key |-> k, hint |-> nextHint])
      /\ nextHint' = nextHint + 1 /\ ~closing /\ workers = "running"
      /\ UNCHANGED <<closing, workers, thread, waiter, closer, flushed>>
  BY DEF Submit
<1>2. /\ channel \in Seq(Command) /\ nextHint \in Nat \ {0} /\ Len(channel) \in Nat
      /\ \A h \in flushed : h \in Nat
  BY DEF DInv, IInv, TypeOK, Hint
<1>3. /\ DOMAIN channel = 1..Len(channel) /\ DOMAIN channel' = 1..(Len(channel) + 1)
      /\ \A i \in DOMAIN channel : i \in DOMAIN channel' /\ channel'[i] = channel[i]
      /\ Len(channel) + 1 \in DOMAIN channel'
      /\ channel'[Len(channel) + 1] = [key |-> k, hint |-> nextHint]
  BY <1>1, <1>2
<1>4. Flow'
  <2>1. ASSUME NEW h \in 1..(nextHint' - 1)
        PROVE  \/ h \in flushed'
               \/ \E i \in DOMAIN channel' : channel'[i].hint = h
               \/ \E w \in Unflushed' : thread'[w].hint = h
    <3>1. CASE h = nextHint
      BY <1>3, <3>1
    <3>2. CASE h # nextHint
      <4>1. h \in 1..(nextHint - 1)
        BY <1>1, <1>2, <3>2
      <4> QED
        BY <1>1, <1>3, <4>1 DEF DInv, Flow, Unflushed
    <3> QED
      BY <3>1, <3>2
  <2>2. \A h \in flushed' : h < nextHint'
    BY <1>1, <1>2 DEF DInv, Flow
  <2> QED
    BY <1>1, <2>1, <2>2 DEF DInv, Flow
<1>5. Ending'
  BY <1>1 DEF DInv, Ending
<1>6. Covered'
  <2>1. \A j : \A h \in Outstanding(j) : h \in Outstanding(j)'
    BY <1>1, <1>3 DEF Outstanding, Busy
  <2> QED
    BY <1>1, <2>1 DEF DInv, Covered
<1> QED
  BY <1>4, <1>5, <1>6 DEF DInv

\* A command goes from the channel to a thread.
LEMMA ReceiveDInv ==
  ASSUME DInv, IInv', NEW w \in Worker, Receive(w) PROVE DInv'
<1> DEFINE c == Head(channel)
<1>1. /\ thread[w].at = "recv" /\ channel # <<>> /\ channel' = Tail(channel)
      /\ thread' = [thread EXCEPT ![w] = [at |-> "grace", key |-> c.key, hint |-> c.hint]]
      /\ UNCHANGED <<entries, pending, closing, workers, waiter, closer, nextHint, flushed>>
  BY DEF Receive
<1>2. channel \in Seq(Command) /\ DOMAIN thread = Worker
  BY DEF DInv, IInv, TypeOK
<1>3. /\ Len(channel) \in Nat \ {0}
      /\ DOMAIN channel = 1..Len(channel) /\ DOMAIN channel' = 1..(Len(channel) - 1)
      /\ \A i \in 1..(Len(channel) - 1) : channel'[i] = channel[i + 1]
      /\ c = channel[1]
  BY <1>1, <1>2, HeadTailProperties
<1>4. /\ thread'[w].at = "grace" /\ thread'[w].key = c.key /\ thread'[w].hint = c.hint
      /\ \A v \in Worker \ {w} : thread'[v] = thread[v]
  BY <1>1, <1>2
<1>5. \A i \in DOMAIN channel : i = 1 \/ \E j \in DOMAIN channel' : channel'[j] = channel[i]
  <2> TAKE i \in DOMAIN channel
  <2>1. i # 1 => i - 1 \in DOMAIN channel' /\ channel'[i - 1] = channel[i]
    BY <1>3
  <2> QED
    BY <2>1
<1>6. Unflushed' = Unflushed \cup {w} /\ w \notin Unflushed
  BY <1>1, <1>4 DEF Unflushed
<1>7. Flow'
  <2>1. ASSUME NEW h \in 1..(nextHint - 1)
        PROVE  \/ h \in flushed
               \/ \E i \in DOMAIN channel' : channel'[i].hint = h
               \/ \E v \in Unflushed' : thread'[v].hint = h
    <3>1. CASE \E i \in DOMAIN channel : channel[i].hint = h
      BY <1>3, <1>4, <1>5, <1>6, <3>1
    <3>2. CASE \E v \in Unflushed : thread[v].hint = h
      BY <1>4, <1>6, <3>2 DEF Unflushed
    <3> QED
      BY <3>1, <3>2 DEF DInv, Flow
  <2>2. \A v \in Worker : thread'[v].at = "publish" => thread'[v].hint \in flushed
    BY <1>4 DEF DInv, Flow
  <2> QED
    BY <1>1, <2>1, <2>2 DEF DInv, Flow
<1>8. Ending'
  BY <1>1, <1>4 DEF DInv, Ending
<1>9. Covered'
  <2>1. ASSUME NEW j, NEW h \in Outstanding(j) PROVE h \in Outstanding(j)'
    <3>1. CASE \E i \in DOMAIN channel : channel[i].key = j /\ channel[i].hint = h
      <4>1. PICK i \in DOMAIN channel : channel[i].key = j /\ channel[i].hint = h
        BY <3>1
      <4>2. CASE i = 1
        <5>1. w \in Busy' /\ thread'[w].key = j /\ thread'[w].hint = h
          BY <1>3, <1>4, <4>1, <4>2 DEF Busy
        <5> QED
          BY <5>1 DEF Outstanding
      <4>3. CASE i # 1
        BY <1>5, <4>1, <4>3 DEF Outstanding
      <4> QED
        BY <4>2, <4>3
    <3>2. CASE \E v \in Busy : thread[v].key = j /\ thread[v].hint = h
      <4>1. PICK v \in Busy : thread[v].key = j /\ thread[v].hint = h
        BY <3>2
      <4>2. v \in Busy' /\ thread'[v] = thread[v]
        BY <1>1, <1>4 DEF Busy
      <4> QED
        BY <4>1, <4>2 DEF Outstanding
    <3> QED
      BY <3>1, <3>2 DEF Outstanding
  <2> QED
    BY <1>1, <2>1 DEF DInv, Covered
<1> QED
  BY <1>7, <1>8, <1>9 DEF DInv

\* A thread goes on with its command: the end of the grace period, or the flush.
LEMMA HoldDInv ==
  ASSUME DInv, IInv', NEW w \in Worker, thread[w].at \in {"grace", "flush"},
         DOMAIN thread' = Worker,
         \A v \in Worker \ {w} : thread'[v] = thread[v],
         thread'[w].key = thread[w].key, thread'[w].hint = thread[w].hint,
         \/ thread'[w].at = "flush" /\ flushed' = flushed
         \/ thread'[w].at = "publish" /\ flushed' = flushed \cup {thread[w].hint},
         UNCHANGED <<entries, pending, closing, channel, workers, waiter, closer, nextHint>>
  PROVE  DInv'
<1>1. thread[w].hint < nextHint
  BY DEF DInv, IInv, HintsDistinct, Busy
<1>2. Flow'
  <2>1. ASSUME NEW h \in 1..(nextHint - 1)
        PROVE  \/ h \in flushed'
               \/ \E i \in DOMAIN channel' : channel'[i].hint = h
               \/ \E v \in Unflushed' : thread'[v].hint = h
    <3>1. CASE \E v \in Unflushed : thread[v].hint = h
      BY <3>1 DEF Unflushed
    <3> QED
      BY <3>1 DEF DInv, Flow
  <2>2. \A h \in flushed' : h < nextHint'
    BY <1>1 DEF DInv, Flow
  <2>3. \A v \in Worker : thread'[v].at = "publish" => thread'[v].hint \in flushed'
    BY DEF DInv, Flow
  <2> QED
    BY <2>1, <2>2, <2>3 DEF Flow
<1>3. Ending'
  BY DEF DInv, Ending
<1>4. Covered'
  <2>1. Busy' = Busy
    BY DEF Busy
  <2>2. \A j : Outstanding(j)' = Outstanding(j)
    BY <2>1 DEF Outstanding, Busy
  <2> QED
    BY <2>2 DEF DInv, Covered
<1> QED
  BY <1>2, <1>3, <1>4 DEF DInv

\* A thread gives up a command that is flushed, or ends.
LEMMA ReleaseDInv ==
  ASSUME DInv, IInv', NEW w \in Worker, Complete(w) \/ ThreadExit(w) PROVE DInv'
<1>1. /\ thread[w].at \in {"publish", "recv"} /\ thread'[w].at \in {"recv", "exited"}
      /\ \A v \in Worker \ {w} : thread'[v] = thread[v]
      /\ UNCHANGED <<closing, channel, workers, waiter, closer, nextHint, flushed>>
      /\ thread[w].at = "recv" => pending' = pending
      /\ thread'[w].at = "exited" => workers = "dropped" /\ channel = <<>>
  BY DEF Complete, ThreadExit, Idle, DInv, IInv, TypeOK
<1>2. Unflushed' = Unflushed /\ \A v \in Unflushed : thread'[v] = thread[v]
  BY <1>1 DEF Unflushed
<1>3. Flow'
  BY <1>1, <1>2 DEF DInv, Flow
<1>4. Ending'
  <2>1. CASE thread[w].at = "publish"
    <3>1. w \in Busy /\ pending = Len(channel) + Cardinality(Busy) /\ channel \in Seq(Command)
      BY <2>1 DEF Busy, DInv, IInv, Accounting, TypeOK
    <3>2. Cardinality(Busy) \in Nat \ {0} /\ Len(channel) \in Nat
      BY <3>1, BusyFinite, FS_EmptySet, FS_CardinalityType
    <3>3. closer # "returned"
      BY <3>1, <3>2 DEF DInv, Ending
    <3> QED
      BY <1>1, <3>3 DEF DInv, Ending
  <2>2. CASE thread[w].at = "recv"
    BY <1>1, <2>2 DEF DInv, Ending
  <2> QED
    BY <1>1, <2>1, <2>2
<1>5. Covered'
  <2>1. ASSUME NEW j, NEW h \in Outstanding(j) PROVE h \in flushed \/ h \in Outstanding(j)'
    <3>1. CASE \E i \in DOMAIN channel : channel[i].key = j /\ channel[i].hint = h
      BY <1>1, <3>1 DEF Outstanding
    <3>2. CASE \E v \in Busy : thread[v].key = j /\ thread[v].hint = h
      <4>1. PICK v \in Busy : thread[v].key = j /\ thread[v].hint = h
        BY <3>2
      <4>2. CASE v = w
        BY <1>1, <4>1, <4>2 DEF Busy, DInv, Flow
      <4>3. CASE v # w
        <5>1. v \in Busy' /\ thread'[v] = thread[v]
          BY <1>1, <4>3 DEF Busy
        <5> QED
          BY <4>1, <5>1 DEF Outstanding
      <4> QED
        BY <4>2, <4>3
    <3> QED
      BY <3>1, <3>2 DEF Outstanding
  <2> QED
    BY <1>1, <2>1 DEF DInv, Covered
<1> QED
  BY <1>3, <1>4, <1>5 DEF DInv

\* `wait`: a sleeper claims what is outstanding, a return gives the claim up.
LEMMA WaitDInv ==
  ASSUME DInv, IInv', NEW c \in Client, NEW k \in Key,
         WaitReturn(c) \/ WaitBegin(c, k) \/ WaitAtOnce(c, k)
  PROVE  DInv'
<1>1. UNCHANGED <<pending, closing, channel, workers, thread, closer, nextHint, flushed>>
  BY DEF WaitReturn, WaitBegin, WaitAtOnce
<1>2. Flow' /\ \A j : Outstanding(j)' = Outstanding(j)
  BY <1>1, QuietDInv
<1>3. Ending'
  BY <1>1 DEF DInv, Ending
<1>4. /\ \A d \in Client \ {c} : waiter'[d] = waiter[d]
      /\ \/ waiter'[c].at = "idle"
         \/ waiter'[c] = [at |-> "waiting", key |-> k, before |-> Outstanding(k)]
  BY DEF WaitReturn, WaitBegin, WaitAtOnce, Resting, DInv, IInv, TypeOK
<1>5. Covered'
  BY <1>1, <1>2, <1>4 DEF DInv, Covered
<1> QED
  BY <1>2, <1>3, <1>5 DEF DInv

\* The start, the shutdown and the drop of the queue.
LEMMA CloseDInv ==
  ASSUME DInv, IInv', Start \/ ShutdownBegin \/ ShutdownReturn \/ DropQueue \/ UNCHANGED vars
  PROVE  DInv'
<1>1. UNCHANGED <<entries, pending, channel, thread, waiter, nextHint, flushed>>
  BY DEF Start, ShutdownBegin, ShutdownReturn, DropQueue, vars
<1>2. Flow' /\ \A j : Outstanding(j)' = Outstanding(j)
  BY <1>1, QuietDInv
<1>3. Ending'
  <2>1. \A w \in Worker : thread[w].at = "exited" => workers' = "dropped"
    BY DEF Start, ShutdownBegin, ShutdownReturn, DropQueue, vars, DInv, Ending
  <2>2. (closer' # "idle" => closing') /\ (closer' = "returned" => pending = 0)
    BY DEF Start, ShutdownBegin, ShutdownReturn, DropQueue, vars, DInv, Ending
  <2> QED
    BY <1>1, <2>1, <2>2 DEF DInv, Ending
<1>4. Covered'
  BY <1>1, <1>2 DEF DInv, Covered
<1> QED
  BY <1>2, <1>3, <1>4 DEF DInv

\* Every step.
LEMMA NextDInv == DInv /\ [Next]_vars => DInv'
<1> SUFFICES ASSUME DInv, [Next]_vars PROVE DInv'
  OBVIOUS
<1>0. IInv'
  BY NextIInv DEF DInv
<1>1. CASE Start \/ ShutdownBegin \/ ShutdownReturn \/ DropQueue \/ UNCHANGED vars
  BY <1>0, <1>1, CloseDInv
<1>2. CASE \E k \in Key : Submit(k)
  BY <1>0, <1>2, SubmitDInv
<1>3. ASSUME NEW w \in Worker, WorkerStep(w) \/ GraceElapsed(w) PROVE DInv'
  <2>1. CASE Receive(w)
    BY <1>0, <2>1, ReceiveDInv
  <2>2. CASE Complete(w) \/ ThreadExit(w)
    BY <1>0, <2>2, ReleaseDInv
  <2>3. CASE GraceBypassed(w) \/ GraceElapsed(w)
    <3>1. /\ thread[w].at = "grace" /\ thread' = [thread EXCEPT ![w].at = "flush"]
          /\ UNCHANGED <<entries, pending, closing, channel, workers, waiter, closer, nextHint,
                         flushed>>
      BY <2>3 DEF GraceBypassed, GraceElapsed
    <3>2. w \in Busy
      BY <3>1 DEF Busy
    <3>3. thread[w] \in [at : {"grace", "flush"}, key : Key, hint : Hint] /\ DOMAIN thread = Worker
      BY <3>1, <3>2, BusyThreads DEF DInv, IInv, TypeOK
    <3>4. /\ DOMAIN thread' = Worker /\ thread'[w] = [thread[w] EXCEPT !.at = "flush"]
          /\ \A v \in Worker \ {w} : thread'[v] = thread[v]
      BY <3>1, <3>3
    <3>5. /\ thread'[w].key = thread[w].key /\ thread'[w].hint = thread[w].hint
          /\ thread'[w].at = "flush"
      BY <3>3, <3>4
    <3> QED
      BY <1>0, <3>1, <3>4, <3>5, HoldDInv
  <2>4. CASE \E e \in Errors \cup {0} : Flush(w, e)
    <3>1. PICK e \in Errors \cup {0} : Flush(w, e)
      BY <2>4
    <3>2. /\ thread[w].at = "flush" /\ DOMAIN thread' = Worker
          /\ thread'[w].at = "publish"
          /\ thread'[w].key = thread[w].key /\ thread'[w].hint = thread[w].hint
          /\ \A v \in Worker \ {w} : thread'[v] = thread[v]
          /\ flushed' = flushed \cup {thread[w].hint}
          /\ UNCHANGED <<entries, pending, closing, channel, workers, waiter, closer, nextHint>>
      BY <3>1 DEF Flush, DInv, IInv, TypeOK
    <3> QED
      BY <1>0, <3>2, HoldDInv
  <2> QED
    BY <1>3, <2>1, <2>2, <2>3, <2>4 DEF WorkerStep
<1>4. ASSUME NEW c \in Client,
             WaitReturn(c) \/ \E k \in Key : WaitBegin(c, k) \/ WaitAtOnce(c, k)
      PROVE  DInv'
  <2>1. CASE WaitReturn(c)
    <3>1. waiter[c].key \in Key
      BY <2>1 DEF WaitReturn, DInv, Covered
    <3> QED
      BY <1>0, <2>1, <3>1, WaitDInv
  <2> QED
    BY <1>0, <1>4, <2>1, WaitDInv
<1> QED
  BY <1>1, <1>2, <1>3, <1>4 DEF Next

\* When nothing is pending nothing is on the way.
LEMMA DrainedIfStill ==
  ASSUME DInv, channel = <<>>, Unflushed = {}
  PROVE  flushed = 1..(nextHint - 1)
<1>1. flushed \subseteq Hint /\ nextHint \in Nat
  BY DEF DInv, IInv, TypeOK
<1>2. \A h \in flushed : h \in 1..(nextHint - 1)
  BY <1>1 DEF DInv, Flow, Hint
<1>3. \A h \in 1..(nextHint - 1) : h \in flushed
  BY DEF DInv, Flow
<1> QED
  BY <1>2, <1>3

\* Shutdown and the drop lose nothing: once shutdown has returned, or both
\* threads of a dropped queue have ended, every hint that was ever accepted
\* has been flushed.
THEOREM ShutdownDrains == Spec => []Drained
<1>1. DInv => Drained
  <2> SUFFICES ASSUME DInv, closer = "returned" \/ \A w \in Worker : thread[w].at = "exited"
               PROVE  flushed = 1..(nextHint - 1)
    BY DEF Drained
  <2>1. CASE closer = "returned"
    <3>1. pending = 0 /\ pending = Len(channel) + Cardinality(Busy) /\ channel \in Seq(Command)
      BY <2>1 DEF DInv, Ending, IInv, Accounting, TypeOK
    <3>2. Cardinality(Busy) \in Nat /\ Len(channel) \in Nat
      BY <3>1, BusyFinite, FS_CardinalityType
    <3>3. Len(channel) = 0 /\ Cardinality(Busy) = 0
      BY <3>1, <3>2
    <3>4. channel = <<>> /\ Busy = {}
      BY <3>1, <3>3, BusyFinite, FS_EmptySet, EmptySeq
    <3>5. Unflushed = {}
      BY <3>4 DEF Busy, Unflushed
    <3> QED
      BY <3>4, <3>5, DrainedIfStill
  <2>2. CASE \A w \in Worker : thread[w].at = "exited"
    <3>1. channel = <<>> /\ Unflushed = {}
      BY <2>2 DEF DInv, Ending, Unflushed
    <3> QED
      BY <3>1, DrainedIfStill
  <2> QED
    BY <2>1, <2>2
<1> QED
  BY <1>1, InitDInv, NextDInv, PTL DEF Spec

\* What WaitCoversEarlierHints says of one step.
ReturnsCovered == \A c \in Client : WaitReturn(c) => waiter[c].before \subseteq flushed

\* A `wait` that returns has seen the flush of every hint accepted before it
\* was called, although other waiters, later hints and failures of the same
\* file come in between.
THEOREM WaitCovers == Spec => WaitCoversEarlierHints
<1>1. DInv /\ [Next]_vars => [ReturnsCovered]_vars
  <2> SUFFICES ASSUME DInv, NEW c \in Client, WaitReturn(c), NEW h \in waiter[c].before
               PROVE  h \in flushed
    BY DEF ReturnsCovered
  <2> DEFINE k == waiter[c].key
  <2>1. /\ waiter[c].at = "waiting" /\ k \in Key
        /\ k \in DOMAIN entries => entries[k].pending = 0
        /\ h \in flushed \/ h \in Outstanding(k)
    BY DEF WaitReturn, DInv, Covered
  <2>2. Outstanding(k) = {}
    BY <2>1, OutstandingFinite, FS_EmptySet DEF DInv, IInv, Accounting
  <2> QED
    BY <2>1, <2>2
<1>2. WaitCoversEarlierHints <=> [][ReturnsCovered]_vars
  BY DEF WaitCoversEarlierHints, ReturnsCovered
<1> QED
  BY <1>1, <1>2, InitDInv, NextDInv, PTL DEF Spec

\* What FailureReachesAWaiter says of one step.
FailureKept ==
    \A k \in DOMAIN entries :
        \/ entries[k].error = 0
        \/ k \in DOMAIN entries' /\ entries'[k].error = entries[k].error
        \/ \E c \in Client : /\ WaitReturn(c) \/ WaitAtOnce(c, k)
                             /\ waiter'[c].result = entries[k].error

\* A return removes one entry and hands its error out.
LEMMA WaitKeepsFailure ==
  ASSUME IInv, NEW c \in Client, NEW j \in Key,
         entries' = Without(entries, j),
         waiter' = [waiter EXCEPT ![c] = Resting(Reported(j))]
  PROVE  \A k \in DOMAIN entries :
             \/ k \in DOMAIN entries' /\ entries'[k].error = entries[k].error
             \/ k = j /\ waiter'[c].result = entries[k].error
<1>1. /\ DOMAIN entries' = DOMAIN entries \ {j}
      /\ \A i \in DOMAIN entries' : entries'[i] = entries[i]
  BY DEF Without, Restrict
<1>2. j \in DOMAIN entries => waiter'[c].result = entries[j].error
  BY DEF Resting, Reported, IInv, TypeOK
<1> QED
  BY <1>1, <1>2

\* A failure that was recorded stays in the table until a `wait` on its file
\* returns it: no later success, hint or waiter of another file swallows it.
THEOREM FailuresReachWaiters == Spec => FailureReachesAWaiter
<1>1. IInv /\ [Next]_vars => [FailureKept]_vars
  <2> SUFFICES ASSUME IInv, Next PROVE FailureKept
    OBVIOUS
  <2>1. CASE UNCHANGED entries
    BY <2>1 DEF FailureKept
  <2>2. ASSUME NEW k \in Key, Submit(k) PROVE FailureKept
    <3> DEFINE old == IF k \in DOMAIN entries THEN entries[k] ELSE NewEntry
               new == [old EXCEPT !.pending = @ + 1]
    <3>1. entries' = With(entries, k, new)
      BY <2>2 DEF Submit
    <3>2. old \in Entry
      BY DEF IInv, TypeOK, Entry, NewEntry
    <3>3. new.error = old.error
      BY <3>2 DEF Entry
    <3>4. /\ DOMAIN entries' = DOMAIN entries \cup {k} /\ entries'[k] = new
          /\ \A j \in DOMAIN entries : j # k => entries'[j] = entries[j]
      BY <3>1 DEF With
    <3> QED
      BY <3>3, <3>4 DEF FailureKept
  <2>3. ASSUME NEW w \in Worker, Complete(w) PROVE FailureKept
    <3> DEFINE k == thread[w].key
               h == thread[w].hint
               e == thread[w].error
               entry == Settled(entries[k], h, e)
    <3>1. /\ thread[w].at = "publish"
          /\ entries' = IF entry.pending = 0 /\ entry.error = 0
                        THEN Without(entries, k) ELSE [entries EXCEPT ![k] = entry]
      BY <2>3 DEF Complete
    <3>2. k \in DOMAIN entries => entries[k] \in Entry
      BY DEF IInv, TypeOK
    <3>3. k \in DOMAIN entries /\ entries[k].error # 0 => entry.error = entries[k].error
      BY <3>2 DEF Settled, Entry
    <3> HIDE DEF entry, k
    <3>4. ASSUME NEW j \in DOMAIN entries, entries[j].error # 0
          PROVE  j \in DOMAIN entries' /\ entries'[j].error = entries[j].error
      <4>1. CASE j = k
        BY <3>1, <3>3, <3>4, <4>1
      <4>2. CASE j # k
        BY <3>1, <3>4, <4>2 DEF Without, Restrict
      <4> QED
        BY <4>1, <4>2
    <3> QED
      BY <3>4 DEF FailureKept
  <2>4. ASSUME NEW c \in Client, WaitReturn(c) PROVE FailureKept
    <3>1. waiter[c].key \in Key
      BY <2>4 DEF WaitReturn, IInv, TypeOK, WaiterState
    <3> QED
      BY <2>4, <3>1, WaitKeepsFailure DEF WaitReturn, FailureKept
  <2>5. ASSUME NEW c \in Client, NEW k \in Key, WaitAtOnce(c, k) PROVE FailureKept
    <3>1. \A i \in DOMAIN entries :
             \/ i \in DOMAIN entries' /\ entries'[i].error = entries[i].error
             \/ i = k /\ waiter'[c].result = entries[i].error
      BY <2>5, WaitKeepsFailure DEF WaitAtOnce
    <3> QED
      BY <2>5, <3>1 DEF FailureKept
  <2>6. ASSUME NEW c \in Client, NEW k \in Key, WaitBegin(c, k) PROVE FailureKept
    <3>1. /\ k \in DOMAIN entries /\ entries[k] \in Entry
          /\ entries' = [entries EXCEPT ![k].urgent = TRUE]
      BY <2>6 DEF WaitBegin, IInv, TypeOK
    <3>2. [entries[k] EXCEPT !.urgent = TRUE].error = entries[k].error
      BY <3>1 DEF Entry
    <3>3. \A i \in DOMAIN entries : i \in DOMAIN entries' /\ entries'[i].error = entries[i].error
      BY <3>1, <3>2
    <3> QED
      BY <3>3 DEF FailureKept
  <2>7. CASE Start \/ ShutdownBegin \/ ShutdownReturn \/ DropQueue
    BY <2>1, <2>7 DEF Start, ShutdownBegin, ShutdownReturn, DropQueue
  <2>8. ASSUME NEW w \in Worker, WorkerStep(w) \/ GraceElapsed(w) PROVE FailureKept
    <3>1. Complete(w) \/ UNCHANGED entries
      BY <2>8 DEF WorkerStep, Receive, GraceBypassed, GraceElapsed, Flush, ThreadExit
    <3> QED
      BY <2>1, <2>3, <3>1
  <2> QED
    BY <2>2, <2>4, <2>5, <2>6, <2>7, <2>8 DEF Next
<1>2. FailureReachesAWaiter <=> [][FailureKept]_vars
  BY DEF FailureReachesAWaiter, FailureKept
<1> QED
  BY <1>1, <1>2, InitIInv, NextIInv, PTL DEF Spec
=============================================================================
