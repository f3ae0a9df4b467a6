------------------------ MODULE KernelObjectsProofs -------------------------
(***************************************************************************)
(* ReferencesRetained and NeededStays for every set of keys, roots, edges  *)
(* and tokens, every limit and every interleaving of workers that open and *)
(* close sections with a collection under way.                             *)
(*                                                                         *)
(* A collection is several steps long, so the argument rests on what is    *)
(* true between them: the live set is closed under references (LiveClosed),*)
(* it has every root and every leased object from the start (LiveRoots),   *)
(* and every object whose handle has been held since the start and that    *)
(* was already queried (LiveSteady).  The table cannot change meanwhile,   *)
(* because every command waits for the kernel mutex.                       *)
(***************************************************************************)
EXTENDS KernelObjects, TLAPS

Object == [dependencies : SUBSET Key, leases : SUBSET Token]
Request == Key \X SUBSET Key

Sweeping ==
    [step : {"query"}, after : SUBSET Request, live : SUBSET Key,
     todo : SUBSET Key, steady : SUBSET Key]

Types ==
    /\ Retained \in SUBSET Key
    /\ objects \in [Retained -> Object]
    /\ held \in SUBSET Key
    /\ alive \in SUBSET Token
    /\ sweep \in {Resting} \cup Sweeping \cup [step : {"retain"}, after : SUBSET Request]

\* What is live refers to live objects only.
LiveClosed == sweep.step = "query" => Closed(objects, sweep.live)

\* Roots and leased objects are live.
LiveRoots ==
    sweep.step = "query" =>
        \A k \in Retained : k \in Root \/ objects[k].leases # {} => k \in sweep.live

\* A handle held since the collection began is still held, and once it was
\* queried its object is live.
LiveSteady ==
    sweep.step = "query" =>
        /\ sweep.steady \subseteq held
        /\ \A k \in Retained \cap sweep.steady : k \in sweep.todo \cup sweep.live

IInv == Types /\ ReferencesRetained /\ LiveClosed /\ LiveRoots /\ LiveSteady
-----------------------------------------------------------------------------
\* The trace of collect: it has what it starts from, ...
LEMMA ReachStart ==
    ASSUME NEW table, NEW S \in SUBSET Key
    PROVE  S \subseteq Reach(table, S) /\ Reach(table, S) \subseteq Key
BY DEF Reach

\* ... what it reaches refers to nothing else, ...
LEMMA ReachClosed ==
    ASSUME NEW table, NEW S,
           \A k \in DOMAIN table : table[k].dependencies \subseteq Key
    PROVE  Closed(table, Reach(table, S))
BY DEF Reach, Closed

\* ... and it stays inside every closed set around its start.
LEMMA ReachLeast ==
    ASSUME NEW table, NEW S, NEW T \in SUBSET Key, S \subseteq T, Closed(table, T)
    PROVE  Reach(table, S) \subseteq T
BY DEF Reach

\* Live sets can be joined.
LEMMA ClosedUnion ==
    ASSUME NEW table, NEW S, NEW T, Closed(table, S), Closed(table, T)
    PROVE  Closed(table, S \cup T)
BY DEF Closed
-----------------------------------------------------------------------------
\* The first state.
LEMMA InitIInv == KernelInit => IInv
BY DEF KernelInit, IInv, Types, Retained, Resting, ReferencesRetained,
       LiveClosed, LiveRoots, LiveSteady

\* Workers change their handles and tokens, never the table.
LEMMA WorkerStep ==
    ASSUME IInv, UNCHANGED <<objects, sweep>>, held' \in SUBSET Key, held \subseteq held',
           alive' \in SUBSET Token
    PROVE  IInv'
BY DEF IInv, Types, Retained, ReferencesRetained, LiveClosed, LiveRoots, LiveSteady, Closed

\* A worker closes a handle, perhaps during a collection.
LEMMA CloseStep ==
    ASSUME IInv, NEW k \in Key, Close(k)
    PROVE  IInv'
<1>1. CASE sweep.step = "query"
  <2>1. sweep \in Sweeping
    BY <1>1 DEF IInv, Types, Resting
  <2>2. /\ sweep' \in Sweeping /\ sweep'.live = sweep.live /\ sweep'.todo = sweep.todo
        /\ sweep'.steady = sweep.steady \ {k} /\ sweep'.step = "query"
    BY <1>1, <2>1 DEF Close, Sweeping
  <2> QED
    BY <1>1, <2>1, <2>2 DEF Close, IInv, Types, Retained, ReferencesRetained, LiveClosed,
       LiveRoots, LiveSteady, Closed
<1>2. CASE sweep.step # "query"
  BY <1>2 DEF Close, IInv, Types, Retained, ReferencesRetained, LiveClosed, LiveRoots, LiveSteady
<1> QED
  BY <1>1, <1>2

\* A command on the table while no collection is under way.
LEMMA CommandStep ==
    ASSUME IInv, sweep'.step # "query", UNCHANGED <<held, alive>>,
           sweep' \in {Resting} \cup Sweeping \cup [step : {"retain"}, after : SUBSET Request],
           Retained' \in SUBSET Key, objects' \in [Retained' -> Object], ReferencesRetained'
    PROVE  IInv'
BY DEF IInv, Types, LiveClosed, LiveRoots, LiveSteady

\* collect drops dead leases and removed objects and traces the rest.
LEMMA BeginStep ==
    ASSUME IInv, NEW after \in SUBSET Request, Begin(after), UNCHANGED <<held, alive>>
    PROVE  IInv'
<1> DEFINE kept == [k \in Retained |-> [objects[k] EXCEPT !.leases = @ \cap alive]]
           gone == marked \cap Retained
           rest == Remove(kept, gone)
           roots == {k \in DOMAIN rest : k \in Root \/ rest[k].leases # {}}
<1>1. \A k \in Retained : objects[k] \in Object /\ objects[k].dependencies \subseteq Retained
  BY DEF IInv, Types, ReferencesRetained
<1>2. /\ DOMAIN kept = Retained /\ Retained \in SUBSET Key
      /\ kept \in [Retained -> Object]
      /\ \A k \in Retained : kept[k].dependencies = objects[k].dependencies
  BY <1>1 DEF IInv, Types, Object
<1> HIDE DEF kept, gone
<1>3. /\ DOMAIN rest = Retained \ gone
      /\ rest \in [Retained \ gone -> Object]
      /\ \A k \in Retained \ gone : rest[k].dependencies = objects[k].dependencies \ gone
  <2>1. /\ DOMAIN rest = Retained \ gone
        /\ rest \in [Retained \ gone -> Object]
        /\ \A k \in Retained \ gone : rest[k].dependencies = kept[k].dependencies \ gone
    BY <1>2 DEF Remove, Object
  <2> QED
    BY <1>2, <2>1
<1>4. /\ objects' = rest
      /\ sweep' = [step |-> "query", after |-> after, live |-> Reach(rest, roots),
                   todo |-> DOMAIN rest, steady |-> held]
  BY DEF Begin, kept, gone
<1> HIDE DEF rest
<1>5. \A k \in DOMAIN rest : rest[k].dependencies \subseteq DOMAIN rest
  BY <1>1, <1>3
<1>6. roots \in SUBSET Key /\ DOMAIN rest \in SUBSET Key
  BY <1>2, <1>3
<1>7. roots \subseteq Reach(rest, roots) /\ Reach(rest, roots) \in SUBSET Key
  BY <1>6, ReachStart
<1>8. Closed(rest, Reach(rest, roots))
  BY <1>5, <1>6, ReachClosed
<1>9. sweep' \in Sweeping
  BY <1>4, <1>6, <1>7 DEF Sweeping, IInv, Types
<1>10. Types'
  BY <1>3, <1>4, <1>6, <1>9 DEF Types, Retained, IInv
<1>11. ReferencesRetained'
  BY <1>4, <1>5 DEF ReferencesRetained, Retained
<1>12. LiveClosed' /\ LiveRoots' /\ LiveSteady'
  BY <1>4, <1>7, <1>8 DEF LiveClosed, LiveRoots, LiveSteady, Retained, Closed
<1> QED
  BY <1>10, <1>11, <1>12 DEF IInv

\* One object is queried; what it refers to becomes live with it.
LEMMA QueryStep ==
    ASSUME IInv, NEW k \in Key, Query(k)
    PROVE  IInv'
<1> DEFINE more == IF k \notin sweep.live /\ InUse(k) THEN Reach(objects, {k}) ELSE {}
<1>1. sweep \in Sweeping /\ sweep.step = "query"
  BY DEF IInv, Types, Query, Resting
<1>2. /\ sweep'.step = "query" /\ sweep'.todo = sweep.todo \ {k}
      /\ sweep'.live = sweep.live \cup more
      /\ sweep'.steady = sweep.steady /\ sweep'.after = sweep.after
      /\ UNCHANGED <<objects, held, alive, marked>>
  BY <1>1 DEF Query, Sweeping
<1>3. k \in Reach(objects, {k}) /\ Reach(objects, {k}) \subseteq Key
  BY ReachStart
<1>4. \A o \in DOMAIN objects : objects[o].dependencies \subseteq Key
  BY DEF IInv, Types, Retained, Object
<1>5. Closed(objects, more)
  BY <1>4, ReachClosed DEF Closed
<1>6. Closed(objects, sweep.live \cup more)
  BY <1>1, <1>5, ClosedUnion DEF IInv, LiveClosed
<1>7. sweep' \in Sweeping
  <2>1. sweep.live \cup more \in SUBSET Key
    BY <1>1, <1>3 DEF Sweeping
  <2> QED
    BY <1>1, <2>1 DEF Query, Sweeping
<1>8. Types' /\ ReferencesRetained'
  BY <1>2, <1>7 DEF IInv, Types, Retained, ReferencesRetained
<1>9. LiveClosed' /\ LiveRoots'
  BY <1>1, <1>2, <1>6 DEF IInv, LiveClosed, LiveRoots, Retained, Closed
<1>10. LiveSteady'
  <2>1. k \in sweep.steady => k \in sweep.live \cup more
    BY <1>1, <1>3 DEF IInv, LiveSteady, InUse
  <2> QED
    BY <1>1, <1>2, <2>1 DEF IInv, LiveSteady, Retained
<1> QED
  BY <1>8, <1>9, <1>10 DEF IInv

\* What is not live is dropped.
LEMMA DropStep ==
    ASSUME IInv, Drop
    PROVE  IInv'
<1>1. sweep \in Sweeping /\ sweep.step = "query"
  BY DEF IInv, Types, Drop, Resting
<1>2. /\ objects' = [k \in Retained \cap sweep.live |-> objects[k]]
      /\ Retained' = Retained \cap sweep.live
  BY DEF Drop, Retained
<1>3. sweep' \in {Resting} \cup [step : {"retain"}, after : SUBSET Request] /\ sweep'.step # "query"
  BY <1>1 DEF Drop, Resting, Sweeping
<1>4. Retained' \in SUBSET Key /\ objects' \in [Retained' -> Object]
  BY <1>2 DEF IInv, Types
<1>5. ReferencesRetained'
  BY <1>1, <1>2 DEF IInv, ReferencesRetained, LiveClosed, Closed, Retained
<1>6. UNCHANGED <<held, alive>>
  BY DEF Drop
<1> QED
  BY <1>3, <1>4, <1>5, <1>6, CommandStep

\* retain keeps the references inside the table, or changes nothing.
LEMMA InsertFacts ==
    ASSUME IInv, NEW k \in Key, NEW dependencies \in SUBSET Key, Insert(k, dependencies)
    PROVE  /\ Retained' \in SUBSET Key /\ objects' \in [Retained' -> Object]
           /\ ReferencesRetained'
<1>0. \A o \in Retained : objects[o] \in Object /\ objects[o].dependencies \subseteq Retained
  BY DEF IInv, Types, ReferencesRetained
<1>1. CASE objects' = objects
  BY <1>1 DEF IInv, Types, ReferencesRetained, Retained
<1>2. CASE objects' # objects
  <2> DEFINE New(o) == IF o # k THEN objects[o]
             ELSE IF k \in Retained
             THEN [objects[k] EXCEPT !.dependencies = @ \cup dependencies]
             ELSE [dependencies |-> dependencies, leases |-> {}]
  <2>1. dependencies \subseteq Retained /\ objects' = [o \in Retained \cup {k} |-> New(o)]
    BY <1>2 DEF Insert
  <2>2. \A o \in Retained \cup {k} :
            New(o) \in Object /\ New(o).dependencies \subseteq Retained \cup {k}
    BY <1>0, <2>1 DEF Object
  <2> HIDE DEF New
  <2>3. Retained' = Retained \cup {k}
    BY <2>1 DEF Retained
  <2>4. Retained' \in SUBSET Key
    BY <2>3 DEF IInv, Types
  <2>5. objects' \in [Retained' -> Object]
    BY <2>1, <2>2, <2>3
  <2>6. ReferencesRetained'
    BY <2>1, <2>2, <2>3 DEF ReferencesRetained
  <2> QED
    BY <2>4, <2>5, <2>6
<1> QED
  BY <1>1, <1>2

\* retain, straight or after a collection.
LEMMA RetainStep ==
    ASSUME IInv, NEW k \in Key, Retain(k)
    PROVE  IInv'
<1>1. PICK dependencies \in SUBSET References(k) :
          IF k \notin Retained /\ Cardinality(Retained) >= MAX_OBJECTS
          THEN Begin({<<k, dependencies>>})
          ELSE Insert(k, dependencies) /\ UNCHANGED sweep
  BY DEF Retain
<1>2. dependencies \in SUBSET Key /\ UNCHANGED <<held, alive>>
  BY DEF References, Retain
<1>3. CASE Begin({<<k, dependencies>>})
  <2>1. {<<k, dependencies>>} \in SUBSET Request
    BY <1>2 DEF Request
  <2> QED
    BY <1>2, <1>3, <2>1, BeginStep
<1>4. CASE Insert(k, dependencies) /\ UNCHANGED sweep
  <2>1. sweep'.step # "query"
        /\ sweep' \in {Resting} \cup Sweeping \cup [step : {"retain"}, after : SUBSET Request]
    BY <1>4 DEF Retain, IInv, Types
  <2> QED
    BY <1>2, <1>4, <2>1, InsertFacts, CommandStep
<1> QED
  BY <1>1, <1>3, <1>4

\* A retain that had to collect first.
LEMMA RetainAfterStep ==
    ASSUME IInv, RetainAfter
    PROVE  IInv'
<1>1. sweep.after \in SUBSET Request
  BY DEF IInv, Types, RetainAfter, Resting, Sweeping
<1>2. PICK request \in sweep.after : Insert(request[1], request[2])
  BY DEF RetainAfter
<1>3. request[1] \in Key /\ request[2] \in SUBSET Key
  BY <1>1 DEF Request
<1>4. sweep' = Resting /\ UNCHANGED <<held, alive>>
  BY DEF RetainAfter
<1>5. sweep'.step # "query"
  BY <1>4 DEF Resting
<1> QED
  BY <1>2, <1>3, <1>4, <1>5, InsertFacts, CommandStep

\* The other commands: publish_mounts, leases and System V removal.
LEMMA TableStep ==
    ASSUME IInv, NEW k \in Key,
           PublishMounts(k) \/ RemoveIpc(k) \/ \E t \in Token : Lease(k, t) \/ Unlease(k, t)
    PROVE  IInv'
<1>0. \A o \in Retained : objects[o] \in Object /\ objects[o].dependencies \subseteq Retained
  BY DEF IInv, Types, ReferencesRetained
<1>1. /\ UNCHANGED <<held, alive, sweep>> /\ sweep'.step # "query"
      /\ sweep' \in {Resting} \cup Sweeping \cup [step : {"retain"}, after : SUBSET Request]
  BY DEF PublishMounts, Lease, Unlease, RemoveIpc, IInv, Types
<1>2. CASE RemoveIpc(k)
  <2>1. objects' = Remove(objects, {k}) /\ Retained \in SUBSET Key
        /\ objects \in [Retained -> Object]
    BY <1>2 DEF RemoveIpc, IInv, Types
  <2>2. /\ Retained' = Retained \ {k}
        /\ objects' \in [Retained \ {k} -> Object]
        /\ \A o \in Retained \ {k} : objects'[o].dependencies = objects[o].dependencies \ {k}
    <3>1. /\ DOMAIN Remove(objects, {k}) = Retained \ {k}
          /\ Remove(objects, {k}) \in [Retained \ {k} -> Object]
          /\ \A o \in Retained \ {k} :
                 Remove(objects, {k})[o].dependencies = objects[o].dependencies \ {k}
      BY <1>0, <2>1 DEF Remove, Object
    <3> QED
      BY <2>1, <3>1 DEF Retained
  <2>3. ReferencesRetained'
    BY <1>0, <2>2 DEF ReferencesRetained
  <2> QED
    BY <1>1, <2>1, <2>2, <2>3, CommandStep
<1>3. CASE PublishMounts(k) \/ \E t \in Token : Lease(k, t) \/ Unlease(k, t)
  <2>1. PICK new \in Object :
            /\ k \in Retained /\ objects' = [objects EXCEPT ![k] = new]
            /\ new.dependencies \subseteq Retained
    <3>1. CASE PublishMounts(k)
      <4>1. PICK d \in SUBSET (References(k) \cap Retained) :
                objects' = [objects EXCEPT ![k].dependencies = d]
        BY <3>1 DEF PublishMounts
      <4>2. k \in Retained /\ [objects[k] EXCEPT !.dependencies = d] \in Object
        BY <1>0, <3>1 DEF PublishMounts, References, Object
      <4>3. objects' = [objects EXCEPT ![k] = [objects[k] EXCEPT !.dependencies = d]]
        BY <4>1
      <4>4. [objects[k] EXCEPT !.dependencies = d].dependencies \subseteq Retained
        BY <1>0, <4>2 DEF Object
      <4> QED
        BY <4>2, <4>3, <4>4
    <3>2. ASSUME NEW t \in Token, Lease(k, t)
          PROVE  \E new \in Object : /\ k \in Retained /\ objects' = [objects EXCEPT ![k] = new]
                                     /\ new.dependencies \subseteq Retained
      <4> DEFINE new == [objects[k] EXCEPT !.leases = @ \cup {t}]
      <4>1. k \in Retained /\ new \in Object /\ new.dependencies = objects[k].dependencies
        BY <1>0, <3>2 DEF Lease, Object
      <4>2. objects' = [objects EXCEPT ![k] = new]
        BY <3>2 DEF Lease
      <4> QED
        BY <1>0, <4>1, <4>2
    <3>3. ASSUME NEW t \in Token, Unlease(k, t)
          PROVE  \E new \in Object : /\ k \in Retained /\ objects' = [objects EXCEPT ![k] = new]
                                     /\ new.dependencies \subseteq Retained
      <4> DEFINE new == [objects[k] EXCEPT !.leases = @ \ {t}]
      <4>1. k \in Retained /\ new \in Object /\ new.dependencies = objects[k].dependencies
        BY <1>0, <3>3 DEF Unlease, Object
      <4>2. objects' = [objects EXCEPT ![k] = new]
        BY <3>3 DEF Unlease
      <4> QED
        BY <1>0, <4>1, <4>2
    <3> QED
      BY <1>3, <3>1, <3>2, <3>3
  <2>2. Retained' = Retained /\ Retained' \in SUBSET Key /\ objects' \in [Retained' -> Object]
    BY <2>1 DEF Retained, IInv, Types
  <2>3. ReferencesRetained'
    BY <1>0, <2>1, <2>2 DEF ReferencesRetained, Retained
  <2> QED
    BY <1>1, <2>2, <2>3, CommandStep
<1> QED
  BY <1>2, <1>3

\* Every step.
LEMMA NextStep ==
    ASSUME IInv, [KernelNext]_kernelVars
    PROVE  IInv'
<1>1. CASE UNCHANGED kernelVars
  <2>1. UNCHANGED <<objects, sweep, held, alive>>
    BY <1>1 DEF kernelVars
  <2> QED
    BY <2>1, WorkerStep DEF IInv, Types
<1>2. ASSUME NEW k \in Key, Open(k) \/ Close(k) \/ Mark(k) \/ Query(k) \/ Command(k)
      PROVE  IInv'
  <2>1. CASE Open(k)
    BY <2>1, WorkerStep DEF Open, IInv, Types
  <2>2. CASE Mark(k)
    BY <2>2, WorkerStep DEF Mark, IInv, Types
  <2>3. CASE Close(k)
    BY <2>3, CloseStep
  <2>4. CASE Query(k)
    BY <2>4, QueryStep
  <2>5. CASE Command(k)
    BY <2>5, RetainStep, TableStep DEF Command
  <2> QED
    BY <1>2, <2>1, <2>2, <2>3, <2>4, <2>5
<1>3. ASSUME NEW t \in Token, TokenDies(t)
      PROVE  IInv'
  BY <1>3, WorkerStep DEF TokenDies, IInv, Types
<1>4. CASE Collect
  BY <1>4, BeginStep DEF Collect
<1>5. CASE Drop
  BY <1>5, DropStep
<1>6. CASE RetainAfter
  BY <1>6, RetainAfterStep
<1> QED
  BY <1>1, <1>2, <1>3, <1>4, <1>5, <1>6 DEF KernelNext

\* What NeededStays says of one step.
KeepsNeeded ==
    sweep.step = "query" /\ sweep.todo = {} =>
        Retained \cap Needed(objects, sweep.steady) \subseteq DOMAIN objects'

\* When everything was queried, the live set covers what is needed, and only
\* Drop changes the table then.
LEMMA NeededStep ==
    ASSUME IInv, [KernelNext]_kernelVars
    PROVE  KeepsNeeded
<1> SUFFICES ASSUME sweep.step = "query", sweep.todo = {}
             PROVE  Retained \cap Needed(objects, sweep.steady) \subseteq DOMAIN objects'
  BY DEF KeepsNeeded
<1> DEFINE start == {k \in DOMAIN objects :
                         k \in Root \/ k \in sweep.steady \/ objects[k].leases \cap alive # {}}
<1>1. sweep \in Sweeping /\ sweep.live \in SUBSET Key
  BY DEF IInv, Types, Resting, Sweeping
<1>2. start \subseteq sweep.live
  BY DEF IInv, LiveRoots, LiveSteady, Retained
<1>3. Needed(objects, sweep.steady) \subseteq sweep.live
  BY <1>1, <1>2, ReachLeast DEF Needed, IInv, LiveClosed
<1>4. CASE Drop
  BY <1>3, <1>4 DEF Drop
<1>5. CASE UNCHANGED objects
  BY <1>5 DEF Retained
<1>6. Drop \/ UNCHANGED objects
  BY DEF KernelNext, kernelVars, Open, Close, Mark, Query, Command, Retain, PublishMounts,
         RemoveIpc, Lease, Unlease, TokenDies, Collect, RetainAfter
<1> QED
  BY <1>4, <1>5, <1>6
-----------------------------------------------------------------------------
\* kernel.rs never keeps a reference to an object it no longer retains: a
\* worker that follows one finds the section, whatever was collected, removed
\* or marked in between.
THEOREM ReferencesCorrect == KernelSpec => []ReferencesRetained
<1>1. IInv /\ [KernelNext]_kernelVars => IInv'
  BY NextStep
<1>2. IInv => ReferencesRetained
  BY DEF IInv
<1> QED
  BY <1>1, <1>2, InitIInv, PTL DEF KernelSpec

\* A collection of any length, with workers opening and closing handles and
\* tokens dying meanwhile, drops nothing that the roots, the living leases or
\* a handle held all along lead to.
THEOREM CollectionCorrect == KernelSpec => NeededStays
<1>1. IInv /\ [KernelNext]_kernelVars => IInv'
  BY NextStep
<1>2. IInv /\ [KernelNext]_kernelVars => [KeepsNeeded]_kernelVars
  BY NeededStep
<1>3. NeededStays <=> [][KeepsNeeded]_kernelVars
  BY DEF NeededStays, KeepsNeeded
<1> QED
  BY <1>1, <1>2, <1>3, InitIInv, PTL DEF KernelSpec
=============================================================================
