------------------------ MODULE MountTopologyProofs -------------------------
(***************************************************************************)
(* NothingLost, EvenIsWhole and SnapshotOfEpoch for any set of namespaces, *)
(* workers and readers, workers killed at any step included.               *)
(*                                                                         *)
(* The topology mutex does not order the publications: a worker killed     *)
(* with it leaves init at work for it, and the next owner runs beside that *)
(* publication.  What carries the proof is the topology word.  It is odd   *)
(* exactly while init publishes (Parity), so a thread whose epoch is still *)
(* the topology has seen no store change since it loaded it: the tables a  *)
(* worker computes from are the published ones (WorkerOK), and a reader's  *)
(* copy is the table of its epoch (ReaderOK).  The revision of a store     *)
(* tells whether a cached table is that of the store (CacheOK).  The mutex *)
(* (Mutex) is needed for the store of an unshare: init knows it before it  *)
(* is filled, and nobody may list it in between (Children).                *)
(***************************************************************************)
EXTENDS MountTopology, TLAPS

Thread == Worker \cup Reader

Publishing(w) == init.work = "publish" /\ init.worker = w

Types ==
    /\ topology \in Nat
    /\ revision \in [Namespace -> Nat]
    /\ table \in [Namespace -> SUBSET Worker]
    /\ retained \in SUBSET Namespace /\ Existing \subseteq retained
    /\ home \in [Thread -> retained]
    /\ epoch \in [Thread -> Nat]
    /\ DOMAIN pc = Thread
    /\ DOMAIN seen = Thread
    /\ DOMAIN expected = Worker
    /\ DOMAIN cache = Namespace
    /\ init \in {Idle} \cup [work : {"check"}, worker : Worker]
                  \cup [work : {"publish"}, worker : Worker, left : SUBSET Namespace]

\* The topology word is odd exactly while init publishes; the epochs loaded
\* are even and not ahead of it.
Parity ==
    /\ topology % 2 = 0 <=> init.work # "publish"
    /\ \A t \in Thread : epoch[t] <= topology /\ epoch[t] % 2 = 0

\* A store that init does not know shows nothing yet.
Unknown == \A n \in Namespace \ retained : table[n] = {}

\* The history has the tables of every even revision reached.
Past ==
    /\ DOMAIN past \subseteq 0..topology
    /\ topology % 2 = 0 =>
           /\ topology \in DOMAIN past
           /\ \A n \in Existing : past[topology][n] = table[n]

\* What init is working on.  The tables left to publish are those the worker
\* has computed from; the others show its event.
Working ==
    /\ init.work # "none" => pc[init.worker] = "sent"
    /\ init.work = "publish" =>
           /\ init.left \subseteq DOMAIN seen[init.worker]
           /\ \A n \in init.left :
                  /\ table[n] = seen[init.worker][n]
                  /\ revision[n] = expected[init.worker][n]
           /\ \A n \in DOMAIN seen[init.worker] \ init.left : init.worker \in table[n]

\* A record of revision and table is not ahead of its store, and has the
\* store's table if it has its revision.
Entry(e, n) ==
    /\ e.revision \in Nat
    /\ e.revision <= revision[n]
    /\ e.revision = revision[n] => e.table = table[n]

CacheOK == \A n \in Existing : Entry(cache[n], n)

\* The event of a worker is nowhere, or everywhere it was computed for.
Event(w) ==
    \/ Publishing(w)
    \/ \A n \in Namespace : w \notin table[n]
    \/ /\ pc[w] \in {"sent", "replied", "over"}
       /\ \A n \in DOMAIN seen[w] : w \in table[n]

WorkerOK(w) ==
    /\ DOMAIN seen[w] \subseteq retained
    /\ \A n \in DOMAIN seen[w] : seen[w][n] \subseteq table[n]
    /\ pc[w] \in {"idle", "epoch"} => DOMAIN seen[w] = {}
    /\ pc[w] \in {"create", "fill"} => home[w] \in DOMAIN seen[w]
    /\ pc[w] \in {"fill", "install"} => DOMAIN expected[w] \subseteq retained \ Existing
    /\ pc[w] \in {"own", "list", "others", "expect", "sent"} /\ epoch[w] = topology =>
           \A n \in DOMAIN seen[w] : seen[w][n] = table[n]
    /\ pc[w] = "sent" => DOMAIN expected[w] = DOMAIN seen[w]
    /\ \A n \in DOMAIN expected[w] : expected[w][n] \in Nat
    /\ Event(w)

ReaderOK(r) ==
    /\ home[r] \in Existing
    /\ pc[r] = "compare" /\ epoch[r] = topology => seen[r].revision = revision[home[r]]
    /\ pc[r] = "cache" =>
           /\ Entry(seen[r], home[r])
           /\ epoch[r] = topology => seen[r].revision = revision[home[r]]
    /\ pc[r] = "verify" /\ epoch[r] = topology => seen[r].table = table[home[r]]
    /\ pc[r] = "result" =>
           /\ epoch[r] \in DOMAIN past
           /\ seen[r].table = past[epoch[r]][home[r]]

IInv ==
    /\ Types /\ Parity /\ Unknown /\ Past /\ Working /\ CacheOK
    /\ \A w \in Worker : WorkerOK(w)
    /\ \A r \in Reader : ReaderOK(r)

\* A live worker at work owns the topology mutex.
Mutex == \A w \in Worker : w \notin dead /\ pc[w] \notin {"idle", "over"} => guard = w

\* The store of an unshare under way is empty, and nobody computes from it or
\* lives in it.
Child(w) ==
    w \notin dead /\ pc[w] = "fill" => \A n \in DOMAIN expected[w] :
        /\ table[n] = {}
        /\ \A v \in Worker : n \notin DOMAIN seen[v]
        /\ \A t \in Thread : home[t] # n

Children == \A w \in Worker : Child(w)
-----------------------------------------------------------------------------
\* A step of thread t that changes nothing but its own locals and the cache.
Local(t) ==
    /\ UNCHANGED <<topology, revision, table, past, retained, home, init>>
    /\ DOMAIN pc' = Thread /\ DOMAIN seen' = Thread /\ DOMAIN expected' = Worker
    /\ DOMAIN cache' = Namespace
    /\ epoch' \in [Thread -> Nat]
    /\ \A u \in Thread \ {t} : pc'[u] = pc[u] /\ seen'[u] = seen[u] /\ epoch'[u] = epoch[u]
    /\ \A u \in Worker \ {t} : expected'[u] = expected[u]

\* WorkerOK and ReaderOK of a thread speak of its own locals, the public
\* state and the publication under way.
LEMMA WorkerFrame ==
    ASSUME NEW w \in Worker, WorkerOK(w), pc'[w] = pc[w], seen'[w] = seen[w],
           epoch'[w] = epoch[w], expected'[w] = expected[w],
           UNCHANGED <<topology, table, retained, home, init>>
    PROVE  WorkerOK(w)'
BY DEF WorkerOK, Event, Publishing

LEMMA ReaderFrame ==
    ASSUME NEW r \in Reader, ReaderOK(r), pc'[r] = pc[r], seen'[r] = seen[r],
           epoch'[r] = epoch[r], UNCHANGED <<topology, revision, table, past, home>>
    PROVE  ReaderOK(r)'
BY DEF ReaderOK, Entry

\* A local step has to be looked at only for the thread that takes it.
LEMMA LocalStep ==
    ASSUME IInv, NEW t \in Thread, Local(t), pc[t] # "sent",
           epoch'[t] <= topology /\ epoch'[t] % 2 = 0, CacheOK',
           t \in Worker => WorkerOK(t)', t \in Reader => ReaderOK(t)'
    PROVE  IInv'
<1>1. Types'
  BY DEF Local, IInv, Types
<1>2. Parity'
  BY DEF Local, IInv, Parity
<1>3. Unknown' /\ Past'
  BY DEF Local, IInv, Unknown, Past
<1>4. Working'
  <2>1. init.work # "none" => init.worker \in Worker /\ init.worker # t
    BY DEF IInv, Types, Working, Idle
  <2> QED
    BY <2>1 DEF Local, IInv, Working, Thread
<1>5. ASSUME NEW w \in Worker PROVE WorkerOK(w)'
  BY WorkerFrame DEF Local, IInv, Thread
<1>6. ASSUME NEW r \in Reader PROVE ReaderOK(r)'
  BY ReaderFrame DEF Local, IInv, Thread
<1> QED
  BY <1>1, <1>2, <1>3, <1>4, <1>5, <1>6 DEF IInv

\* The first state.
LEMMA InitIInv == TopologyInit => IInv
<1> SUFFICES ASSUME TopologyInit PROVE IInv
  OBVIOUS
<1> USE TopologyAssumption DEF TopologyInit
<1>1. Types
  BY DEF Types, Thread, Idle
<1>2. Parity /\ Unknown /\ Past /\ Working /\ CacheOK
  BY DEF Parity, Unknown, Past, Working, CacheOK, Entry, Idle, Thread
<1>3. ASSUME NEW w \in Worker PROVE WorkerOK(w)
  BY DEF WorkerOK, Event, None
<1>4. ASSUME NEW r \in Reader PROVE ReaderOK(r)
  BY DEF ReaderOK
<1> QED
  BY <1>1, <1>2, <1>3, <1>4 DEF IInv

\* topology_guard.
LEMMA TakeGuardStep ==
    ASSUME IInv, NEW w \in Worker, TakeGuard(w)
    PROVE  IInv'
<1>1. Local(w) /\ pc[w] # "sent" /\ w \in Thread /\ w \notin Reader
  BY TopologyAssumption DEF Local, TakeGuard, At, Goto, publicVars, workerVars, IInv, Types, Thread
<1>2. epoch'[w] <= topology /\ epoch'[w] % 2 = 0 /\ CacheOK'
  BY <1>1 DEF TakeGuard, publicVars, workerVars, IInv, Types, Parity, CacheOK, Entry
<1>3. WorkerOK(w)'
  BY <1>1 DEF TakeGuard, At, Goto, Put, None, publicVars, workerVars, IInv, Types, WorkerOK, Event, Publishing
<1> QED
  BY <1>1, <1>2, <1>3, LocalStep

\* A worker waits for an even topology revision.
LEMMA LoadEpochStep ==
    ASSUME IInv, NEW w \in Worker, LoadEpoch(w)
    PROVE  IInv'
<1>1. Local(w) /\ pc[w] # "sent" /\ w \in Thread /\ w \notin Reader
  BY TopologyAssumption DEF Local, LoadEpoch, At, Goto, publicVars, workerVars, IInv, Types, Thread
<1>2. epoch'[w] <= topology /\ epoch'[w] % 2 = 0 /\ CacheOK'
  BY <1>1 DEF LoadEpoch, publicVars, workerVars, IInv, Types, Parity, CacheOK, Entry
<1>3. WorkerOK(w)'
  BY <1>1 DEF LoadEpoch, At, Goto, Put, None, publicVars, workerVars, IInv, Types, WorkerOK, Event, Publishing
<1> QED
  BY <1>1, <1>2, <1>3, LocalStep

\* update reads the worker's own table.
LEMMA ReadOwnStep ==
    ASSUME IInv, NEW w \in Worker, ReadOwn(w)
    PROVE  IInv'
<1>1. Local(w) /\ pc[w] # "sent" /\ w \in Thread /\ w \notin Reader
  BY TopologyAssumption DEF Local, ReadOwn, At, Goto, publicVars, workerVars, IInv, Types, Thread
<1>2. epoch'[w] <= topology /\ epoch'[w] % 2 = 0 /\ CacheOK'
  BY <1>1 DEF ReadOwn, publicVars, workerVars, IInv, Types, Parity, CacheOK, Entry
<1>3. WorkerOK(w)'
  BY <1>1 DEF ReadOwn, At, Goto, Put, None, publicVars, workerVars, IInv, Types, WorkerOK, Event, Publishing
<1> QED
  BY <1>1, <1>2, <1>3, LocalStep

\* update asks init for the other namespaces.
LEMMA ListNamespacesStep ==
    ASSUME IInv, NEW w \in Worker, ListNamespaces(w)
    PROVE  IInv'
<1>1. Local(w) /\ pc[w] # "sent" /\ w \in Thread /\ w \notin Reader
  BY TopologyAssumption DEF Local, ListNamespaces, At, Goto, publicVars, workerVars, IInv, Types, Thread
<1>2. epoch'[w] <= topology /\ epoch'[w] % 2 = 0 /\ CacheOK'
  BY <1>1 DEF ListNamespaces, publicVars, workerVars, IInv, Types, Parity, CacheOK, Entry
<1>3. WorkerOK(w)'
  BY <1>1 DEF ListNamespaces, At, Goto, Put, None, publicVars, workerVars, IInv, Types, WorkerOK, Event, Publishing
<1> QED
  BY <1>1, <1>2, <1>3, LocalStep

\* update reads another table.
LEMMA ReadOtherStep ==
    ASSUME IInv, NEW w \in Worker, ReadOther(w)
    PROVE  IInv'
<1>1. Local(w) /\ pc[w] # "sent" /\ w \in Thread /\ w \notin Reader
  BY TopologyAssumption DEF Local, ReadOther, At, Goto, publicVars, workerVars, IInv, Types, Thread
<1>2. epoch'[w] <= topology /\ epoch'[w] % 2 = 0 /\ CacheOK'
  BY <1>1 DEF ReadOther, publicVars, workerVars, IInv, Types, Parity, CacheOK, Entry
<1>3. WorkerOK(w)'
  <2>0. /\ WorkerOK(w) /\ pc[w] = "others" /\ UNCHANGED <<expected, epoch>>
        /\ retained \in SUBSET Namespace
    BY DEF ReadOther, At, IInv, Types
  <2>1. CASE seen' = seen
    <3>1. pc'[w] \in {"others", "expect"}
      BY <1>1, <2>0 DEF ReadOther, Goto, IInv, Types
    <3>2. Publishing(w) \/ \A n \in Namespace : w \notin table[n]
      BY <2>0 DEF WorkerOK, Event
    <3> QED
      BY <1>1, <2>0, <2>1, <3>1, <3>2 DEF Local, WorkerOK, Event, Publishing
  <2>2. CASE seen' # seen
    <3>1. PICK n \in retained \ DOMAIN seen[w] :
              seen' = [seen EXCEPT ![w] = Put(seen[w], n, table[n])] /\ UNCHANGED pc
      BY <2>2 DEF ReadOther
    <3>2. /\ DOMAIN seen'[w] = DOMAIN seen[w] \cup {n}
          /\ seen'[w][n] = table[n]
          /\ \A k \in DOMAIN seen[w] : seen'[w][k] = seen[w][k]
      BY <1>1, <3>1 DEF Put, IInv, Types
    <3> QED
      BY <1>1, <2>0, <3>1, <3>2 DEF Local, WorkerOK, Event, Publishing
  <2> QED
    BY <2>1, <2>2
<1> QED
  BY <1>1, <1>2, <1>3, LocalStep

\* publish_mounts notes a revision, or sends the request.
LEMMA ExpectStep ==
    ASSUME IInv, NEW w \in Worker, Expect(w)
    PROVE  IInv'
<1>1. Local(w) /\ pc[w] # "sent" /\ w \in Thread /\ w \notin Reader
  BY TopologyAssumption DEF Local, Expect, At, Goto, publicVars, workerVars, IInv, Types, Thread
<1>2. epoch'[w] <= topology /\ epoch'[w] % 2 = 0 /\ CacheOK'
  BY <1>1 DEF Expect, publicVars, workerVars, IInv, Types, Parity, CacheOK, Entry
<1>3. WorkerOK(w)'
  <2>0. /\ WorkerOK(w) /\ pc[w] = "expect" /\ UNCHANGED <<seen, epoch>>
        /\ retained \in SUBSET Namespace
    BY DEF Expect, At, IInv, Types
  <2>1. CASE expected' = expected
    <3>1. pc'[w] = "sent" => DOMAIN expected[w] = DOMAIN seen[w]
      BY <1>1, <2>0 DEF Expect, IInv, Types
    <3>2. pc'[w] \in {"expect", "sent"}
      BY <1>1, <2>0 DEF Expect, Goto, IInv, Types
    <3> QED
      BY <1>1, <2>0, <2>1, <3>1, <3>2 DEF Local, WorkerOK, Event, Publishing
  <2>2. CASE expected' # expected
    <3>1. PICK n \in DOMAIN seen[w] \ DOMAIN expected[w] :
              expected' = [expected EXCEPT ![w] = Put(expected[w], n, revision[n])] /\ UNCHANGED pc
      BY <2>2 DEF Expect
    <3>2. revision[n] \in Nat
      BY <2>0, <3>1 DEF WorkerOK, IInv, Types
    <3>3. \A k \in DOMAIN expected'[w] : expected'[w][k] \in Nat
      BY <1>1, <2>0, <3>1, <3>2 DEF Put, IInv, Types, WorkerOK
    <3> QED
      BY <1>1, <2>0, <3>1, <3>3 DEF Local, WorkerOK, Event, Publishing
  <2> QED
    BY <2>1, <2>2
<1> QED
  BY <1>1, <1>2, <1>3, LocalStep

\* The guard is released.
LEMMA DoneStep ==
    ASSUME IInv, NEW w \in Worker, Done(w)
    PROVE  IInv'
<1>1. Local(w) /\ pc[w] # "sent" /\ w \in Thread /\ w \notin Reader
  BY TopologyAssumption DEF Local, Done, At, Goto, publicVars, workerVars, IInv, Types, Thread
<1>2. epoch'[w] <= topology /\ epoch'[w] % 2 = 0 /\ CacheOK'
  BY <1>1 DEF Done, publicVars, workerVars, IInv, Types, Parity, CacheOK, Entry
<1>3. WorkerOK(w)'
  BY <1>1 DEF Done, At, Goto, Put, None, publicVars, workerVars, IInv, Types, WorkerOK, Event, Publishing
<1> QED
  BY <1>1, <1>2, <1>3, LocalStep

\* unshare reads the table of the parent.
LEMMA ReadParentStep ==
    ASSUME IInv, NEW w \in Worker, ReadParent(w)
    PROVE  IInv'
<1>1. Local(w) /\ pc[w] # "sent" /\ w \in Thread /\ w \notin Reader
  BY TopologyAssumption DEF Local, ReadParent, At, Goto, publicVars, workerVars, IInv, Types, Thread
<1>2. epoch'[w] <= topology /\ epoch'[w] % 2 = 0 /\ CacheOK'
  BY <1>1 DEF ReadParent, publicVars, workerVars, IInv, Types, Parity, CacheOK, Entry
<1>3. WorkerOK(w)'
  BY <1>1 DEF ReadParent, At, Goto, Put, None, publicVars, workerVars, IInv, Types, WorkerOK, Event, Publishing
<1> QED
  BY <1>1, <1>2, <1>3, LocalStep

\* A reader waits for an even topology revision.
LEMMA StartSnapshotStep ==
    ASSUME IInv, NEW r \in Reader, StartSnapshot(r)
    PROVE  IInv'
<1>1. Local(r) /\ pc[r] # "sent" /\ r \in Thread /\ r \notin Worker
  BY TopologyAssumption DEF Local, StartSnapshot, At, Goto, publicVars, workerVars, IInv, Types, Thread
<1>2. epoch'[r] <= topology /\ epoch'[r] % 2 = 0 /\ CacheOK'
  BY <1>1 DEF StartSnapshot, publicVars, workerVars, IInv, Types, Parity, CacheOK, Entry
<1>3. ReaderOK(r)'
  BY <1>1 DEF StartSnapshot, At, Goto, publicVars, workerVars, IInv, Types, ReaderOK, Entry, CacheOK, Past, Parity
<1> QED
  BY <1>1, <1>2, <1>3, LocalStep

\* A reader loads the revision of the store.
LEMMA LoadRevisionStep ==
    ASSUME IInv, NEW r \in Reader, LoadRevision(r)
    PROVE  IInv'
<1>1. Local(r) /\ pc[r] # "sent" /\ r \in Thread /\ r \notin Worker
  BY TopologyAssumption DEF Local, LoadRevision, At, Goto, publicVars, workerVars, IInv, Types, Thread
<1>2. epoch'[r] <= topology /\ epoch'[r] % 2 = 0 /\ CacheOK'
  BY <1>1 DEF LoadRevision, publicVars, workerVars, IInv, Types, Parity, CacheOK, Entry
<1>3. ReaderOK(r)'
  BY <1>1 DEF LoadRevision, At, Goto, publicVars, workerVars, IInv, Types, ReaderOK, Entry, CacheOK, Past, Parity
<1> QED
  BY <1>1, <1>2, <1>3, LocalStep

\* A reader finds the decoded table, or not.
LEMMA LookUpStep ==
    ASSUME IInv, NEW r \in Reader, LookUp(r)
    PROVE  IInv'
<1>1. Local(r) /\ pc[r] # "sent" /\ r \in Thread /\ r \notin Worker
  BY TopologyAssumption DEF Local, LookUp, At, Goto, publicVars, workerVars, IInv, Types, Thread
<1>2. epoch'[r] <= topology /\ epoch'[r] % 2 = 0 /\ CacheOK'
  BY <1>1 DEF LookUp, publicVars, workerVars, IInv, Types, Parity, CacheOK, Entry
<1>3. ReaderOK(r)'
  BY <1>1 DEF LookUp, At, Goto, publicVars, workerVars, IInv, Types, ReaderOK, Entry, CacheOK, Past, Parity
<1> QED
  BY <1>1, <1>2, <1>3, LocalStep

\* A reader reads the store.
LEMMA ReadStoreStep ==
    ASSUME IInv, NEW r \in Reader, ReadStore(r)
    PROVE  IInv'
<1>1. Local(r) /\ pc[r] # "sent" /\ r \in Thread /\ r \notin Worker
  BY TopologyAssumption DEF Local, ReadStore, At, Goto, publicVars, workerVars, IInv, Types, Thread
<1>2. epoch'[r] <= topology /\ epoch'[r] % 2 = 0 /\ CacheOK'
  BY <1>1 DEF ReadStore, publicVars, workerVars, IInv, Types, Parity, CacheOK, Entry
<1>3. ReaderOK(r)'
  BY <1>1 DEF ReadStore, At, Goto, publicVars, workerVars, IInv, Types, ReaderOK, Entry, CacheOK, Past, Parity
<1> QED
  BY <1>1, <1>2, <1>3, LocalStep

\* A reader leaves its table in the cache, or takes a later one.
LEMMA FillCacheStep ==
    ASSUME IInv, NEW r \in Reader, FillCache(r)
    PROVE  IInv'
<1>1. Local(r) /\ pc[r] # "sent" /\ r \in Thread /\ r \notin Worker
  BY TopologyAssumption DEF Local, FillCache, At, Goto, publicVars, workerVars, IInv, Types, Thread
<1>2. epoch'[r] <= topology /\ epoch'[r] % 2 = 0 /\ CacheOK'
  <2>1. epoch' = epoch /\ home[r] \in Existing /\ Entry(seen[r], home[r])
    BY DEF FillCache, At, IInv, ReaderOK
  <2>2. UNCHANGED cache \/ cache' = [cache EXCEPT ![home[r]] = seen[r]]
    BY DEF FillCache
  <2>3. CacheOK'
    <3>1. UNCHANGED <<revision, table>> /\ DOMAIN cache = Namespace /\ CacheOK
      BY <1>1 DEF Local, IInv, Types
    <3>2. \A n \in Existing : n \in Namespace
      BY TopologyAssumption
    <3>3. \A n \in Existing : cache'[n] = cache[n] \/ (n = home[r] /\ cache'[n] = seen[r])
      BY <2>1, <2>2, <3>1, <3>2
    <3>4. ASSUME NEW n \in Existing PROVE Entry(cache'[n], n)
      BY <2>1, <3>1, <3>3 DEF CacheOK
    <3> QED
      BY <3>1, <3>4 DEF CacheOK, Entry
  <2> QED
    BY <1>1, <2>1, <2>3 DEF IInv, Parity
<1>3. ReaderOK(r)'
  <2>1. /\ pc'[r] = "verify" /\ ReaderOK(r) /\ pc[r] = "cache"
        /\ UNCHANGED <<topology, revision, table, past, home, epoch>>
    BY <1>1 DEF FillCache, At, Goto, publicVars, IInv, Types
  <2>2. Entry(cache[home[r]], home[r]) /\ Entry(seen[r], home[r])
    BY <2>1 DEF IInv, CacheOK, ReaderOK
  <2>3. CASE cache[home[r]].revision >= seen[r].revision
    <3>1. seen'[r] = cache[home[r]]
      BY <1>1, <2>3 DEF FillCache, IInv, Types
    <3>2. revision[home[r]] \in Nat
      BY TopologyAssumption, <2>1 DEF ReaderOK, IInv, Types
    <3> QED
      BY <2>1, <2>2, <2>3, <3>1, <3>2 DEF ReaderOK, Entry
  <2>4. CASE ~(cache[home[r]].revision >= seen[r].revision)
    <3>1. seen'[r] = seen[r]
      BY <2>4 DEF FillCache
    <3> QED
      BY <2>1, <2>2, <3>1 DEF ReaderOK, Entry
  <2> QED
    BY <2>3, <2>4
<1> QED
  BY <1>1, <1>2, <1>3, LocalStep

\* A reader compares the topology with its epoch.
LEMMA VerifyStep ==
    ASSUME IInv, NEW r \in Reader, Verify(r)
    PROVE  IInv'
<1>1. Local(r) /\ pc[r] # "sent" /\ r \in Thread /\ r \notin Worker
  BY TopologyAssumption DEF Local, Verify, At, Goto, publicVars, workerVars, IInv, Types, Thread
<1>2. epoch'[r] <= topology /\ epoch'[r] % 2 = 0 /\ CacheOK'
  BY <1>1 DEF Verify, publicVars, workerVars, IInv, Types, Parity, CacheOK, Entry
<1>3. ReaderOK(r)'
  BY <1>1 DEF Verify, At, Goto, publicVars, workerVars, IInv, Types, ReaderOK, Entry, CacheOK, Past, Parity
<1> QED
  BY <1>1, <1>2, <1>3, LocalStep

\* The caller takes the table.
LEMMA UseStep ==
    ASSUME IInv, NEW r \in Reader, Use(r)
    PROVE  IInv'
<1>1. Local(r) /\ pc[r] # "sent" /\ r \in Thread /\ r \notin Worker
  BY TopologyAssumption DEF Local, Use, At, Goto, publicVars, workerVars, IInv, Types, Thread
<1>2. epoch'[r] <= topology /\ epoch'[r] % 2 = 0 /\ CacheOK'
  BY <1>1 DEF Use, publicVars, workerVars, IInv, Types, Parity, CacheOK, Entry
<1>3. ReaderOK(r)'
  BY <1>1 DEF Use, At, Goto, publicVars, workerVars, IInv, Types, ReaderOK, Entry, CacheOK, Past, Parity
<1> QED
  BY <1>1, <1>2, <1>3, LocalStep
-----------------------------------------------------------------------------
\* init knows one store more, which is empty.
LEMMA RetainChildStep ==
    ASSUME IInv, NEW w \in Worker, RetainChild(w)
    PROVE  IInv'
<1>1. PICK n \in Namespace \ retained :
          /\ retained' = retained \cup {n}
          /\ expected' = [expected EXCEPT ![w] = Put(None, n, revision[n])]
  BY DEF RetainChild
<1>2. /\ pc[w] = "create" /\ pc' = [pc EXCEPT ![w] = "fill"]
      /\ UNCHANGED <<topology, revision, table, past, home, epoch, seen, init, cache>>
  BY DEF RetainChild, At, Goto, publicVars
<1>3. /\ w \in Thread /\ Existing \subseteq retained /\ retained \in SUBSET Namespace
      /\ revision[n] \in Nat
      /\ DOMAIN pc = Thread /\ DOMAIN expected = Worker
  BY <1>1 DEF IInv, Types, Thread
<1>4. /\ pc'[w] = "fill" /\ \A t \in Thread \ {w} : pc'[t] = pc[t]
      /\ DOMAIN expected'[w] = {n} /\ expected'[w][n] = revision[n]
      /\ \A v \in Worker \ {w} : expected'[v] = expected[v]
  BY <1>1, <1>2, <1>3 DEF Put, None
<1>5. init.work # "none" => init.worker \in Worker /\ init.worker # w
  BY <1>2 DEF IInv, Types, Working, Idle
<1>6. Types'
  BY <1>1, <1>2, <1>3 DEF IInv, Types
<1>7. Parity' /\ Unknown' /\ Past' /\ CacheOK'
  BY <1>1, <1>2 DEF IInv, Parity, Unknown, Past, CacheOK, Entry
<1>8. Working'
  BY <1>2, <1>4, <1>5 DEF IInv, Working, Thread
<1>9. ASSUME NEW v \in Worker PROVE WorkerOK(v)'
  <2>1. WorkerOK(v) /\ v \in Thread
    BY DEF IInv, Thread
  <2>2. CASE v = w
    <3>1. Event(v)'
      BY <1>2, <1>4, <2>1, <2>2 DEF WorkerOK, Event, Publishing
    <3> QED
      BY <1>1, <1>2, <1>3, <1>4, <2>1, <2>2, <3>1 DEF WorkerOK
  <2>3. CASE v # w
    BY <1>1, <1>2, <1>4, <2>1, <2>3 DEF WorkerOK, Event, Publishing
  <2> QED
    BY <2>2, <2>3
<1>10. ASSUME NEW r \in Reader PROVE ReaderOK(r)'
  BY <1>2, <1>4, TopologyAssumption, ReaderFrame DEF IInv, Thread
<1> QED
  BY <1>6, <1>7, <1>8, <1>9, <1>10 DEF IInv

\* The child gets the parent's table as it was read; no other store changes.
LEMMA FillChildStep ==
    ASSUME IInv, Children, NEW w \in Worker, FillChild(w)
    PROVE  IInv' /\ \A n \in Namespace : table[n] \subseteq table'[n]
<1>1. PICK n \in DOMAIN expected[w] :
          /\ table' = [table EXCEPT ![n] = seen[w][home[w]]]
          /\ revision' = [revision EXCEPT ![n] = expected[w][n] + 1]
  BY DEF FillChild
<1>2. /\ w \notin dead /\ pc[w] = "fill" /\ pc' = [pc EXCEPT ![w] = "install"]
      /\ UNCHANGED <<topology, past, retained, home, epoch, seen, expected, init, cache>>
  BY DEF FillChild, At, Goto, workerVars
<1>3. /\ home[w] \in retained /\ home[w] \in DOMAIN seen[w] /\ w \in Thread
      /\ retained \in SUBSET Namespace /\ Existing \subseteq retained
      /\ WorkerOK(w) /\ n \in retained \ Existing /\ expected[w][n] \in Nat
  BY <1>1, <1>2 DEF IInv, Types, WorkerOK, Thread
<1>4. /\ seen[w][home[w]] \subseteq table[home[w]] /\ table[n] = {} /\ home[w] # n
      /\ \A v \in Worker : n \notin DOMAIN seen[v]
  BY <1>1, <1>2, <1>3 DEF WorkerOK, Children, Child
<1>5. /\ \A k \in Namespace \ {n} : table'[k] = table[k] /\ revision'[k] = revision[k]
      /\ table'[n] = seen[w][home[w]]
      /\ \A t \in Thread \ {w} : pc'[t] = pc[t]
      /\ pc'[w] = "install"
  BY <1>1, <1>2, <1>3 DEF IInv, Types
<1>6. Types'
  <2>1. table' \in [Namespace -> SUBSET Worker] /\ revision' \in [Namespace -> Nat]
    BY <1>1, <1>3, <1>4 DEF IInv, Types
  <2> QED
    BY <1>2, <2>1 DEF IInv, Types
<1>7. Parity' /\ Unknown' /\ Past' /\ Working' /\ CacheOK'
  <2>1. Parity'
    BY <1>2 DEF IInv, Parity
  <2>2. Unknown'
    BY <1>2, <1>3, <1>5 DEF IInv, Unknown
  <2>3. Past'
    BY <1>2, <1>3, <1>5 DEF IInv, Past
  <2>4. Working'
    <3>1. init.work # "none" => init.worker \in Worker /\ init.worker # w
      BY <1>2 DEF IInv, Types, Working, Idle
    <3>2. init.work # "none" => \A k \in DOMAIN seen[init.worker] :
             k \in Namespace \ {n} /\ table'[k] = table[k] /\ revision'[k] = revision[k]
      BY <1>3, <1>4, <1>5, <3>1 DEF IInv, WorkerOK
    <3> QED
      BY <1>2, <1>5, <3>1, <3>2 DEF IInv, Working, Thread
  <2>5. CacheOK'
    BY <1>2, <1>3, <1>5 DEF IInv, CacheOK, Entry
  <2> QED
    BY <2>1, <2>2, <2>3, <2>4, <2>5
<1>8. ASSUME NEW v \in Worker PROVE WorkerOK(v)'
  <2>1. WorkerOK(v) /\ v \in Thread
    BY DEF IInv, Thread
  <2>2. \A k \in DOMAIN seen[v] : k \in Namespace \ {n} /\ table'[k] = table[k]
    BY <1>3, <1>4, <1>5, <2>1 DEF WorkerOK
  <2>3. (\A k \in Namespace : v \notin table[k]) => \A k \in Namespace : v \notin table'[k]
    BY <1>3, <1>4, <1>5
  <2>4. Event(v)'
    BY <1>2, <1>5, <2>1, <2>2, <2>3 DEF WorkerOK, Event, Publishing
  <2>5. CASE v = w
    BY <1>2, <1>5, <2>1, <2>2, <2>4, <2>5 DEF WorkerOK
  <2>6. CASE v # w
    <3>1. pc'[v] = pc[v]
      BY <1>5, <2>1, <2>6
    <3> QED
      BY <1>2, <2>1, <2>2, <2>4, <3>1 DEF WorkerOK
  <2> QED
    BY <2>5, <2>6
<1>9. ASSUME NEW r \in Reader PROVE ReaderOK(r)'
  <2>1. /\ ReaderOK(r) /\ r \in Thread \ {w} /\ home[r] \in Namespace \ {n}
    BY TopologyAssumption, <1>3 DEF IInv, ReaderOK, Thread
  <2>2. /\ pc'[r] = pc[r]
        /\ table'[home[r]] = table[home[r]] /\ revision'[home[r]] = revision[home[r]]
    BY <1>5, <2>1
  <2> QED
    BY <1>2, <2>1, <2>2 DEF ReaderOK, Entry
<1>10. \A k \in Namespace : table[k] \subseteq table'[k]
  BY <1>4, <1>5
<1> QED
  BY <1>6, <1>7, <1>8, <1>9, <1>10 DEF IInv

\* The worker moves to its namespace.
LEMMA InstallChildStep ==
    ASSUME IInv, NEW w \in Worker, InstallChild(w)
    PROVE  IInv'
<1>1. PICK n \in DOMAIN expected[w] : home' = [home EXCEPT ![w] = n]
  BY DEF InstallChild
<1>2. /\ pc[w] = "install" /\ pc' = [pc EXCEPT ![w] = "replied"]
      /\ UNCHANGED <<topology, revision, table, past, retained, epoch, seen, expected, init,
                     cache>>
  BY DEF InstallChild, At, Goto, publicVars, workerVars
<1>3. w \in Thread /\ WorkerOK(w) /\ n \in retained
  BY <1>1, <1>2 DEF IInv, WorkerOK, Thread
<1>4. /\ pc'[w] = "replied"
      /\ \A t \in Thread \ {w} : pc'[t] = pc[t] /\ home'[t] = home[t]
  BY <1>1, <1>2, <1>3 DEF IInv, Types
<1>5. init.work # "none" => init.worker \in Worker /\ init.worker # w
  BY <1>2 DEF IInv, Types, Working, Idle
<1>6. Types'
  BY <1>1, <1>2, <1>3 DEF IInv, Types
<1>7. Parity' /\ Unknown' /\ Past' /\ CacheOK'
  BY <1>2 DEF IInv, Parity, Unknown, Past, CacheOK, Entry
<1>8. Working'
  BY <1>2, <1>4, <1>5 DEF IInv, Working, Thread
<1>9. ASSUME NEW v \in Worker PROVE WorkerOK(v)'
  <2>1. WorkerOK(v) /\ v \in Thread
    BY DEF IInv, Thread
  <2>2. CASE v = w
    BY <1>2, <1>4, <2>1, <2>2 DEF WorkerOK, Event, Publishing
  <2>3. CASE v # w
    BY <1>2, <1>4, <2>1, <2>3 DEF WorkerOK, Event, Publishing
  <2> QED
    BY <2>2, <2>3
<1>10. ASSUME NEW r \in Reader PROVE ReaderOK(r)'
  <2>1. ReaderOK(r) /\ r \in Thread \ {w}
    BY TopologyAssumption DEF IInv, Thread
  <2>2. pc'[r] = pc[r] /\ home'[r] = home[r]
    BY <1>4, <2>1
  <2> QED
    BY <1>2, <2>1, <2>2 DEF ReaderOK, Entry
<1> QED
  BY <1>6, <1>7, <1>8, <1>9, <1>10 DEF IInv

\* init takes a request.
LEMMA AcceptStep ==
    ASSUME IInv, NEW w \in Worker, Accept(w)
    PROVE  IInv'
<1>1. /\ init.work = "none" /\ init' = [work |-> "check", worker |-> w] /\ pc[w] = "sent"
      /\ UNCHANGED <<topology, revision, table, past, retained, home, pc, epoch, seen,
                     expected, cache>>
  BY DEF Accept, At, publicVars, workerVars
<1>2. Types' /\ Parity' /\ Unknown' /\ Past' /\ Working' /\ CacheOK'
  BY <1>1 DEF IInv, Types, Parity, Unknown, Past, Working, CacheOK, Entry
<1>3. ASSUME NEW v \in Worker PROVE WorkerOK(v)'
  BY <1>1 DEF IInv, WorkerOK, Event, Publishing
<1>4. ASSUME NEW r \in Reader PROVE ReaderOK(r)'
  BY <1>1, ReaderFrame DEF IInv
<1> QED
  BY <1>2, <1>3, <1>4 DEF IInv

\* The reply to a worker that is alive, or nobody to reply to.
LEMMA ReplyFacts ==
    ASSUME IInv, init.work # "none", Reply(init.worker)
    PROVE  /\ init.worker \in Worker /\ pc[init.worker] = "sent"
           /\ DOMAIN pc' = Thread
           /\ pc'[init.worker] \in {"sent", "replied"}
           /\ \A t \in Thread \ {init.worker} : pc'[t] = pc[t]
<1>1. init.worker \in Worker /\ pc[init.worker] = "sent" /\ DOMAIN pc = Thread
  BY DEF IInv, Types, Working, Idle
<1>2. pc' = pc \/ pc' = [pc EXCEPT ![init.worker] = "replied"]
  BY DEF Reply
<1> QED
  BY <1>1, <1>2 DEF Thread

\* A request that is not based on what is published is refused.
LEMMA RefuseStep ==
    ASSUME IInv, Refuse
    PROVE  IInv'
<1>1. /\ init.work = "check" /\ init' = Idle
      /\ UNCHANGED <<topology, revision, table, past, retained, home, epoch, seen,
                     expected, cache>>
  BY DEF Refuse, publicVars, workerVars
<1>2. /\ init.worker \in Worker /\ pc[init.worker] = "sent" /\ DOMAIN pc' = Thread
      /\ pc'[init.worker] \in {"sent", "replied"}
      /\ \A t \in Thread \ {init.worker} : pc'[t] = pc[t]
  BY <1>1, ReplyFacts DEF Refuse
<1>3. Types' /\ Parity' /\ Unknown' /\ Past' /\ Working' /\ CacheOK'
  BY <1>1, <1>2 DEF IInv, Types, Parity, Unknown, Past, Working, CacheOK, Entry, Idle
<1>4. ASSUME NEW v \in Worker PROVE WorkerOK(v)'
  <2>1. WorkerOK(v) /\ ~Publishing(v)
    BY <1>1 DEF IInv, Publishing
  <2>2. CASE v = init.worker
    BY <1>1, <1>2, <2>1, <2>2 DEF WorkerOK, Event
  <2>3. CASE v # init.worker
    <3>1. pc'[v] = pc[v]
      BY <1>2, <2>3 DEF Thread
    <3> QED
      BY <1>1, <2>1, <3>1 DEF WorkerOK, Event
  <2> QED
    BY <2>2, <2>3
<1>5. ASSUME NEW r \in Reader PROVE ReaderOK(r)'
  BY <1>1, <1>2, TopologyAssumption, ReaderFrame DEF IInv, Thread
<1> QED
  BY <1>3, <1>4, <1>5 DEF IInv

\* The topology becomes odd: no epoch is that of the topology any more.
LEMMA BeginStep ==
    ASSUME IInv, Begin
    PROVE  IInv'
<1> DEFINE w == init.worker
<1>1. /\ init.work = "check" /\ topology' = topology + 1
      /\ init' = [work |-> "publish", worker |-> w, left |-> DOMAIN expected[w]]
      /\ topology = epoch[w] /\ topology % 2 = 0
      /\ \A n \in DOMAIN expected[w] : n \in retained /\ revision[n] = expected[w][n]
      /\ UNCHANGED <<revision, table, past, retained, home, pc, epoch, seen, expected, cache>>
  BY DEF Begin, Fresh, workerVars
<1>2. /\ w \in Worker /\ pc[w] = "sent" /\ WorkerOK(w) /\ topology \in Nat
  BY <1>1 DEF IInv, Types, Working, Idle
<1>3. DOMAIN expected[w] = DOMAIN seen[w] /\ \A n \in DOMAIN seen[w] : seen[w][n] = table[n]
  BY <1>1, <1>2 DEF WorkerOK
<1>4. topology' \in Nat /\ topology' % 2 # 0
  BY <1>1, <1>2
<1>5. \A t \in Thread : epoch[t] \in Nat /\ epoch[t] <= topology' /\ epoch[t] # topology'
  BY <1>1, <1>2 DEF IInv, Types, Parity
<1>6. Types'
  BY <1>1, <1>2, <1>4 DEF IInv, Types
<1>7. Parity' /\ Unknown' /\ CacheOK'
  BY <1>1, <1>4, <1>5 DEF IInv, Parity, Unknown, CacheOK, Entry
<1>8. Past'
  BY <1>1, <1>2, <1>4 DEF IInv, Past
<1>9. Working'
  BY <1>1, <1>2, <1>3 DEF Working
<1>10. ASSUME NEW v \in Worker PROVE WorkerOK(v)'
  <2>1. WorkerOK(v) /\ ~Publishing(v) /\ epoch[v] # topology'
    BY <1>1, <1>5 DEF IInv, Publishing, Thread
  <2> QED
    BY <1>1, <2>1 DEF WorkerOK, Event
<1>11. ASSUME NEW r \in Reader PROVE ReaderOK(r)'
  <2>1. ReaderOK(r) /\ epoch[r] # topology'
    BY <1>5 DEF IInv, Thread
  <2> QED
    BY <1>1, <2>1 DEF ReaderOK, Entry
<1> QED
  BY <1>6, <1>7, <1>8, <1>9, <1>10, <1>11 DEF IInv

\* One store gets its new table, which has all it had before.
LEMMA PublishOneStep ==
    ASSUME IInv, PublishOne
    PROVE  IInv' /\ \A n \in Namespace : table[n] \subseteq table'[n]
<1> DEFINE w == init.worker
<1>1. PICK n \in init.left :
          /\ revision' = [revision EXCEPT ![n] = expected[w][n] + 1]
          /\ table' = [table EXCEPT ![n] = seen[w][n] \cup {w}]
          /\ init' = [init EXCEPT !.left = init.left \ {n}]
  BY DEF PublishOne
<1>2. /\ init.work = "publish"
      /\ UNCHANGED <<topology, past, retained, home, pc, epoch, seen, expected, cache>>
  BY DEF PublishOne, workerVars
<1>3. init \in [work : {"publish"}, worker : Worker, left : SUBSET Namespace]
  BY <1>2 DEF IInv, Types, Idle
<1>4. /\ w \in Worker /\ n \in Namespace /\ n \in DOMAIN seen[w] /\ pc[w] = "sent"
      /\ table[n] = seen[w][n] /\ revision[n] = expected[w][n] /\ revision[n] \in Nat
      /\ n \in retained /\ topology \in Nat /\ topology % 2 # 0
  BY <1>1, <1>2, <1>3 DEF IInv, Types, Working, WorkerOK, Parity
<1>5. /\ init'.work = "publish" /\ init'.worker = w /\ init'.left = init.left \ {n}
      /\ init' \in [work : {"publish"}, worker : Worker, left : SUBSET Namespace]
  BY <1>1, <1>2, <1>3
<1>6. /\ \A k \in Namespace \ {n} : table'[k] = table[k] /\ revision'[k] = revision[k]
      /\ table'[n] = table[n] \cup {w} /\ revision'[n] = revision[n] + 1
  BY <1>1, <1>4 DEF IInv, Types
<1>7. Types'
  <2>1. table' \in [Namespace -> SUBSET Worker] /\ revision' \in [Namespace -> Nat]
    BY <1>1, <1>4 DEF IInv, Types
  <2> QED
    BY <1>2, <1>5, <2>1 DEF IInv, Types
<1>8. Parity' /\ Unknown' /\ Past'
  BY <1>2, <1>4, <1>5, <1>6 DEF IInv, Parity, Unknown, Past
<1>9. ASSUME NEW e, NEW k \in Namespace, Entry(e, k) PROVE Entry(e, k)'
  <2>1. revision[k] \in Nat
    BY DEF IInv, Types
  <2> QED
    BY <1>6, <1>9, <2>1 DEF Entry
<1>10. CacheOK'
  BY <1>2, <1>9, TopologyAssumption DEF IInv, CacheOK, Entry
<1>11. Working'
  <2>1. /\ init.left \subseteq DOMAIN seen[w] /\ DOMAIN seen[w] \subseteq Namespace
    BY <1>2, <1>4 DEF IInv, Working, WorkerOK, Types
  <2>2. \A k \in init.left \ {n} : table'[k] = seen[w][k] /\ revision'[k] = expected[w][k]
    BY <1>2, <1>6, <2>1 DEF IInv, Working
  <2>3. \A k \in DOMAIN seen[w] \ (init.left \ {n}) : w \in table'[k]
    BY <1>2, <1>6, <2>1 DEF IInv, Working
  <2> QED
    BY <1>2, <1>4, <1>5, <2>1, <2>2, <2>3 DEF Working
<1>12. \A k \in Namespace : table[k] \subseteq table'[k]
  BY <1>6
<1>13. ASSUME NEW v \in Worker PROVE WorkerOK(v)'
  <2>1. /\ WorkerOK(v) /\ epoch[v] # topology
        /\ \A k \in DOMAIN seen[v] : k \in Namespace
    BY <1>4 DEF IInv, WorkerOK, Types, Parity, Thread
  <2>2. Event(v)'
    <3>1. CASE v = w
      BY <1>5, <3>1 DEF Event, Publishing
    <3>2. CASE v # w
      BY <1>2, <1>6, <2>1, <3>2 DEF WorkerOK, Event, Publishing
    <3> QED
      BY <3>1, <3>2
  <2> QED
    BY <1>2, <1>12, <2>1, <2>2 DEF WorkerOK
<1>14. ASSUME NEW r \in Reader PROVE ReaderOK(r)'
  <2>1. ReaderOK(r) /\ epoch[r] # topology /\ home[r] \in Namespace
    BY <1>4, TopologyAssumption DEF IInv, ReaderOK, Parity, Thread
  <2>2. pc[r] = "cache" => Entry(seen[r], home[r])'
    BY <1>2, <1>9, <2>1 DEF ReaderOK, Entry
  <2> QED
    BY <1>2, <2>1, <2>2 DEF ReaderOK
<1> QED
  BY <1>7, <1>8, <1>10, <1>11, <1>12, <1>13, <1>14 DEF IInv

\* The topology becomes even again with every store published.
LEMMA FinishStep ==
    ASSUME IInv, Finish
    PROVE  IInv'
<1> DEFINE w == init.worker
<1>1. /\ init.work = "publish" /\ init.left = {} /\ init' = Idle
      /\ topology' = topology + 1 /\ past' = Put(past, topology + 1, table)
      /\ UNCHANGED <<revision, table, retained, home, epoch, seen, expected, cache>>
  BY DEF Finish, workerVars
<1>2. /\ w \in Worker /\ pc[w] = "sent" /\ DOMAIN pc' = Thread
      /\ pc'[w] \in {"sent", "replied"}
      /\ \A t \in Thread \ {w} : pc'[t] = pc[t]
  BY <1>1, ReplyFacts DEF Finish
<1>3. topology \in Nat /\ topology % 2 # 0 /\ topology' \in Nat /\ topology' % 2 = 0
  BY <1>1 DEF IInv, Types, Parity
<1>4. \A t \in Thread : epoch[t] \in Nat /\ epoch[t] <= topology' /\ epoch[t] # topology'
  BY <1>1, <1>3 DEF IInv, Types, Parity
<1>5. /\ DOMAIN past' = DOMAIN past \cup {topology'}
      /\ past'[topology'] = table
      /\ \A e \in DOMAIN past : past'[e] = past[e]
  <2>1. \A e \in DOMAIN past : e # topology + 1
    BY <1>3 DEF IInv, Past
  <2> QED
    BY <1>1, <2>1 DEF Put
<1>6. Types'
  BY <1>1, <1>2, <1>3 DEF IInv, Types
<1>7. Parity' /\ Unknown' /\ CacheOK' /\ Working'
  BY <1>1, <1>3, <1>4 DEF IInv, Parity, Unknown, CacheOK, Entry, Working, Idle
<1>8. Past'
  BY <1>1, <1>3, <1>5 DEF IInv, Past
<1>9. ASSUME NEW v \in Worker PROVE WorkerOK(v)'
  <2>1. WorkerOK(v) /\ epoch[v] # topology'
    BY <1>4 DEF IInv, Thread
  <2>2. CASE v = w
    <3>1. \A n \in DOMAIN seen[v] : v \in table[n]
      BY <1>1, <2>2 DEF IInv, Working
    <3> QED
      BY <1>1, <1>2, <2>1, <2>2, <3>1 DEF WorkerOK, Event
  <2>3. CASE v # w
    <3>1. pc'[v] = pc[v] /\ ~Publishing(v)
      BY <1>2, <2>3 DEF Thread, Publishing
    <3> QED
      BY <1>1, <2>1, <3>1 DEF WorkerOK, Event
  <2> QED
    BY <2>2, <2>3
<1>10. ASSUME NEW r \in Reader PROVE ReaderOK(r)'
  <2>1. ReaderOK(r) /\ epoch[r] # topology' /\ pc'[r] = pc[r]
    BY <1>2, <1>4, TopologyAssumption DEF IInv, Thread
  <2> QED
    BY <1>1, <1>5, <2>1 DEF ReaderOK, Entry
<1> QED
  BY <1>6, <1>7, <1>8, <1>9, <1>10 DEF IInv
-----------------------------------------------------------------------------
\* What NothingLost says of one step.
KeepsEvents == \A n \in Namespace : table[n] \subseteq table'[n]

\* Every step.
LEMMA NextStep ==
    ASSUME IInv, Children, [TopologyNext]_topologyVars
    PROVE  IInv' /\ KeepsEvents
<1>1. CASE UNCHANGED <<topology, revision, table, retained, home, pc, epoch, seen, expected,
                       init, cache, past>>
  BY <1>1 DEF KeepsEvents, IInv, Types, Parity, Unknown, Past, Working, CacheOK, Entry,
              WorkerOK, Event, Publishing, ReaderOK
<1>2. ASSUME NEW w \in Worker, Mount(w) \/ Unshare(w) \/ Kill(w)
      PROVE  IInv' /\ KeepsEvents
  <2>1. CASE Mount(w) \/ ReadParent(w) \/ RetainChild(w) \/ InstallChild(w)
    <3>1. IInv'
      BY <2>1, TakeGuardStep, LoadEpochStep, ReadOwnStep, ListNamespacesStep, ReadOtherStep,
         ExpectStep, DoneStep, ReadParentStep, RetainChildStep, InstallChildStep DEF Mount
    <3>2. UNCHANGED table
      BY <2>1 DEF Mount, TakeGuard, LoadEpoch, ReadOwn, ListNamespaces, ReadOther, Expect, Done,
                  ReadParent, RetainChild, InstallChild, publicVars
    <3> QED
      BY <3>1, <3>2 DEF KeepsEvents
  <2>2. CASE FillChild(w)
    BY <2>2, FillChildStep DEF KeepsEvents
  <2>3. CASE Kill(w)
    BY <1>1, <2>3 DEF Kill, publicVars, workerVars
  <2> QED
    BY <1>2, <2>1, <2>2, <2>3 DEF Unshare
<1>3. CASE Publish
  <2>1. CASE (\E w \in Worker : Accept(w)) \/ Refuse \/ Begin \/ Finish
    <3>1. IInv'
      BY <2>1, AcceptStep, RefuseStep, BeginStep, FinishStep
    <3>2. UNCHANGED table
      BY <2>1 DEF Accept, Refuse, Begin, Finish, publicVars
    <3> QED
      BY <3>1, <3>2 DEF KeepsEvents
  <2>2. CASE PublishOne
    BY <2>2, PublishOneStep DEF KeepsEvents
  <2> QED
    BY <1>3, <2>1, <2>2 DEF Publish
<1>4. ASSUME NEW r \in Reader, Snapshot(r)
      PROVE  IInv' /\ KeepsEvents
  <2>1. IInv'
    BY <1>4, StartSnapshotStep, LoadRevisionStep, LookUpStep, ReadStoreStep, FillCacheStep, VerifyStep, UseStep
       DEF Snapshot
  <2>2. UNCHANGED table
    BY <1>4 DEF Snapshot, StartSnapshot, LoadRevision, LookUp, ReadStore, FillCache, Verify, Use, publicVars
  <2> QED
    BY <2>1, <2>2 DEF KeepsEvents
<1> QED
  BY <1>1, <1>2, <1>3, <1>4 DEF TopologyNext, topologyVars

\* The mutex goes from hand to hand, or from a dead owner.
LEMMA MutexStep ==
    ASSUME IInv, Mutex, [TopologyNext]_topologyVars
    PROVE  Mutex'
<1> SUFFICES ASSUME NEW w \in Worker, w \notin dead', pc'[w] \notin {"idle", "over"}
             PROVE  guard' = w
  BY DEF Mutex
<1> USE TopologyAssumption
<1>1. DOMAIN pc = Thread /\ w \in Thread /\ w \notin Reader
  BY DEF IInv, Types, Thread
<1>2. CASE UNCHANGED <<guard, pc, dead>>
  BY <1>2 DEF Mutex
<1>3. ASSUME NEW v \in Worker, TakeGuard(v)
      PROVE  guard' = w
  <2>1. (guard = "none" \/ guard \in dead) /\ guard' = v /\ dead' = dead
        /\ \E step : pc' = [pc EXCEPT ![v] = step]
    BY <1>3 DEF TakeGuard, Goto
  <2>2. CASE v # w
    BY <1>1, <2>1, <2>2 DEF Mutex
  <2> QED
    BY <2>1, <2>2
<1>4. ASSUME NEW v \in Worker, Done(v)
      PROVE  guard' = w
  <2>1. /\ v \notin dead /\ pc[v] = "replied" /\ dead' = dead
        /\ pc' = [pc EXCEPT ![v] = "over"]
    BY <1>4 DEF Done, At, Goto
  <2> QED
    BY <1>1, <2>1 DEF Mutex
<1>5. ASSUME NEW v \in Worker,
             LoadEpoch(v) \/ ReadOwn(v) \/ ListNamespaces(v) \/ ReadOther(v) \/ Expect(v)
                \/ Unshare(v)
      PROVE  guard' = w
  <2>1. /\ guard' = guard /\ dead' = dead
        /\ v \notin dead /\ pc[v] \notin {"idle", "over"}
        /\ pc' = pc \/ \E step : pc' = [pc EXCEPT ![v] = step]
    BY <1>5 DEF LoadEpoch, ReadOwn, ListNamespaces, ReadOther, Expect, Unshare, ReadParent,
                RetainChild, FillChild, InstallChild, At, Goto
  <2> QED
    BY <1>1, <2>1 DEF Mutex
<1>6. ASSUME NEW v \in Worker, Kill(v)
      PROVE  guard' = w
  BY <1>6 DEF Kill, Mutex
<1>7. CASE Publish
  <2>1. guard' = guard /\ dead' = dead
    BY <1>7 DEF Publish, Accept, Refuse, Begin, PublishOne, Finish
  <2>2. pc' = pc \/ (init.work # "none" /\ Reply(init.worker))
    BY <1>7 DEF Publish, Accept, Refuse, Begin, PublishOne, Finish
  <2>3. pc'[w] = pc[w] \/ pc[w] = "sent"
    BY <1>1, <2>2, ReplyFacts
  <2> QED
    BY <2>1, <2>3 DEF Mutex
<1>8. ASSUME NEW r \in Reader, Snapshot(r)
      PROVE  guard' = w
  <2>1. /\ guard' = guard /\ dead' = dead
        /\ \E step : pc' = [pc EXCEPT ![r] = step]
    BY <1>8 DEF Snapshot, StartSnapshot, LoadRevision, LookUp, ReadStore, FillCache, Verify,
                Use, Goto
  <2> QED
    BY <1>1, <2>1 DEF Mutex
<1> QED
  BY <1>2, <1>3, <1>4, <1>5, <1>6, <1>7, <1>8 DEF TopologyNext, topologyVars, Mount

\* While a worker has its new store to fill no other has the mutex.
LEMMA FillsAlone ==
    ASSUME Mutex, NEW w \in Worker, w \notin dead, pc[w] = "fill",
           NEW v \in Worker, Mount(v) \/ Unshare(v)
    PROVE  FillChild(w)
<1>1. guard = w /\ guard # "none"
  BY TopologyAssumption DEF Mutex
<1>2. ~TakeGuard(v)
  BY <1>1 DEF TakeGuard
<1>3. v \notin dead /\ pc[v] \notin {"idle", "over"}
  BY <1>2 DEF Mount, LoadEpoch, ReadOwn, ListNamespaces, ReadOther, Expect, Done, Unshare,
              ReadParent, RetainChild, FillChild, InstallChild, At
<1>4. v = w
  BY <1>1, <1>3 DEF Mutex
<1> QED
  BY <1>2, <1>4 DEF Mount, LoadEpoch, ReadOwn, ListNamespaces, ReadOther, Expect, Done,
              Unshare, ReadParent, RetainChild, InstallChild, At

\* Nobody comes to know the store before it is filled.
LEMMA ChildrenStep ==
    ASSUME IInv, Mutex, Children, [TopologyNext]_topologyVars
    PROVE  Children'
<1> SUFFICES ASSUME NEW w \in Worker, w \notin dead', pc'[w] = "fill"
             PROVE  \A n \in DOMAIN expected'[w] :
                       /\ table'[n] = {}
                       /\ \A v \in Worker : n \notin DOMAIN seen'[v]
                       /\ \A t \in Thread : home'[t] # n
  BY DEF Children, Child
<1> USE TopologyAssumption
<1>1. /\ DOMAIN pc = Thread /\ DOMAIN seen = Thread /\ w \in Thread /\ w \notin Reader
      /\ DOMAIN table = Namespace
  BY DEF IInv, Types, Thread
<1>2. CASE UNCHANGED <<pc, dead, expected, table, seen, home>>
  BY <1>2 DEF Children, Child
<1>3. ASSUME NEW v \in Worker, Mount(v) \/ Unshare(v)
      PROVE  RetainChild(w)
  <2>1. dead' = dead
    BY <1>3 DEF Mount, TakeGuard, LoadEpoch, ReadOwn, ListNamespaces, ReadOther, Expect, Done,
                Unshare, ReadParent, RetainChild, FillChild, InstallChild
  <2>2. pc[w] # "fill"
    <3>1. SUFFICES ASSUME pc[w] = "fill" PROVE FALSE
      OBVIOUS
    <3>2. FillChild(w)
      BY <1>3, <2>1, <3>1, FillsAlone
    <3> QED
      BY <1>1, <3>2 DEF FillChild, Goto
  <2>3. CASE Mount(v)
    <3>1. \/ pc' = pc
          \/ \E step \in {"epoch", "copy", "own", "expect", "list", "others", "sent", "over"} :
                pc' = [pc EXCEPT ![v] = step]
      BY <2>3 DEF Mount, TakeGuard, LoadEpoch, ReadOwn, ListNamespaces, ReadOther, Expect,
                  Done, Goto
    <3> QED
      BY <1>1, <2>2, <3>1
  <2>4. CASE Unshare(v)
    <3>1. \/ RetainChild(v)
          \/ \E step \in {"create", "install", "replied"} : pc' = [pc EXCEPT ![v] = step]
      BY <2>4 DEF Unshare, ReadParent, FillChild, InstallChild, Goto
    <3>2. RetainChild(v) => v = w
      BY <1>1, <2>2 DEF RetainChild, Goto
    <3> QED
      BY <1>1, <2>2, <3>1, <3>2
  <2> QED
    BY <1>3, <2>3, <2>4
<1>4. CASE RetainChild(w)
  <2>1. PICK n \in Namespace \ retained :
            expected' = [expected EXCEPT ![w] = Put(None, n, revision[n])]
    BY <1>4 DEF RetainChild
  <2>2. DOMAIN expected'[w] = {n} /\ UNCHANGED <<table, seen, home>>
    BY <1>4, <2>1 DEF RetainChild, Put, None, publicVars, IInv, Types
  <2>3. /\ table[n] = {}
        /\ \A v \in Worker : DOMAIN seen[v] \subseteq retained
        /\ \A t \in Thread : home[t] \in retained
    BY <2>1 DEF IInv, Types, Unknown, WorkerOK
  <2> QED
    BY <2>1, <2>2, <2>3
<1>5. ASSUME NEW v \in Worker, Kill(v)
      PROVE  Child(w)'
  BY <1>5 DEF Kill, Children, Child, publicVars, workerVars
<1>6. CASE Publish
  <2>1. /\ dead' = dead /\ UNCHANGED <<expected, seen, home>>
        /\ pc' = pc \/ (init.work # "none" /\ Reply(init.worker))
    BY <1>6 DEF Publish, Accept, Refuse, Begin, PublishOne, Finish, workerVars
  <2>2. pc[w] = "fill"
    BY <1>1, <2>1, ReplyFacts
  <2>3. \A n \in DOMAIN expected[w] :
           /\ table[n] = {}
           /\ \A v \in Worker : n \notin DOMAIN seen[v]
           /\ \A t \in Thread : home[t] # n
    BY <2>1, <2>2 DEF Children, Child
  <2>4. \A n \in DOMAIN expected[w] : table'[n] = table[n]
    <3>1. CASE PublishOne
      <4>1. PICK k \in init.left : table' = [table EXCEPT ![k] = seen[init.worker][k] \cup {init.worker}]
        BY <3>1 DEF PublishOne
      <4>2. init.worker \in Worker /\ k \in DOMAIN seen[init.worker]
        BY <3>1, <4>1 DEF PublishOne, IInv, Types, Working, Idle
      <4>3. \A n \in DOMAIN expected[w] : n # k
        BY <2>3, <4>2
      <4> QED
        BY <4>1, <4>3
    <3>2. CASE ~PublishOne
      BY <1>6, <3>2 DEF Publish, Accept, Refuse, Begin, Finish, publicVars
    <3> QED
      BY <3>1, <3>2
  <2> QED
    BY <2>1, <2>3, <2>4
<1>7. ASSUME NEW r \in Reader, Snapshot(r)
      PROVE  Child(w)'
  <2>1. /\ UNCHANGED <<dead, expected, table, home>>
        /\ \E step : pc' = [pc EXCEPT ![r] = step]
        /\ seen' = seen \/ \E s : seen' = [seen EXCEPT ![r] = s]
    BY <1>7 DEF Snapshot, StartSnapshot, LoadRevision, LookUp, ReadStore, FillCache, Verify,
                Use, Goto, publicVars, workerVars
  <2>2. pc'[w] = pc[w]
    BY <1>1, <2>1
  <2>3. ASSUME NEW v \in Worker PROVE seen'[v] = seen[v]
    <3>1. v # r /\ v \in DOMAIN seen
      BY <1>1 DEF Thread
    <3> QED
      BY <2>1, <3>1
  <2> QED
    BY <2>1, <2>2, <2>3 DEF Children, Child
<1> QED
  <2>1. CASE UNCHANGED topologyVars
    BY <1>2, <2>1 DEF topologyVars
  <2>2. CASE \E v \in Worker : Kill(v)
    BY <1>5, <2>2 DEF Child
  <2>3. CASE \E r \in Reader : Snapshot(r)
    BY <1>7, <2>3 DEF Child
  <2> QED
    BY <1>3, <1>4, <1>6, <2>1, <2>2, <2>3 DEF TopologyNext

\* The inductive invariant, with the mutex and the stores of unshares.
TInv == IInv /\ Mutex /\ Children

\* It holds at the start.
LEMMA InitTInv == TopologyInit => TInv
<1> SUFFICES ASSUME TopologyInit PROVE TInv
  OBVIOUS
<1>1. IInv
  BY InitIInv
<1>2. \A w \in Worker : pc[w] = "idle"
  BY DEF TopologyInit
<1> QED
  BY <1>1, <1>2 DEF TInv, Mutex, Children, Child

\* The inductive invariant gives the two state properties.
LEMMA IInvImplies == IInv => EvenIsWhole /\ SnapshotOfEpoch
<1> SUFFICES ASSUME IInv PROVE EvenIsWhole /\ SnapshotOfEpoch
  OBVIOUS
<1>1. EvenIsWhole
  <2> SUFFICES ASSUME topology % 2 = 0, NEW w \in Worker
               PROVE  \/ \A n \in Targets(w) : w \in table[n]
                      \/ \A n \in Targets(w) : w \notin table[n]
    BY DEF EvenIsWhole
  <2>1. ~Publishing(w) /\ Event(w) /\ DOMAIN seen[w] \subseteq Namespace
    BY DEF IInv, Parity, Publishing, WorkerOK, Types
  <2> QED
    BY <2>1 DEF Event, Targets
<1>2. SnapshotOfEpoch
  BY DEF IInv, ReaderOK, SnapshotOfEpoch
<1> QED
  BY <1>1, <1>2

\* Whenever the topology revision is even, an event that init published for a
\* worker is in all the namespaces it was meant for or in none; workers may be
\* killed with the guard or with a publication under way.
THEOREM WholeCorrect == TopologySpec => []EvenIsWhole
<1>1. TInv /\ [TopologyNext]_topologyVars => TInv'
  BY NextStep, MutexStep, ChildrenStep DEF TInv
<1> QED
  BY <1>1, InitTInv, IInvImplies, PTL DEF TopologySpec, TInv

\* A snapshot that a reader accepted, from the store or from the cache of
\* namespace_snapshot, is the table its namespace had under the topology
\* revision it was begun with.
THEOREM SnapshotsOfEpoch == TopologySpec => []SnapshotOfEpoch
<1>1. TInv /\ [TopologyNext]_topologyVars => TInv'
  BY NextStep, MutexStep, ChildrenStep DEF TInv
<1> QED
  BY <1>1, InitTInv, IInvImplies, PTL DEF TopologySpec, TInv

\* No publication takes away an event that a table has shown.
THEOREM EventsStay == TopologySpec => NothingLost
<1>1. TInv /\ [TopologyNext]_topologyVars => TInv'
  BY NextStep, MutexStep, ChildrenStep DEF TInv
<1>2. TInv /\ [TopologyNext]_topologyVars => [KeepsEvents]_topologyVars
  BY NextStep DEF TInv
<1>3. NothingLost <=> [][KeepsEvents]_topologyVars
  BY DEF NothingLost, KeepsEvents
<1> QED
  BY <1>1, <1>2, <1>3, InitTInv, PTL DEF TopologySpec
=============================================================================
