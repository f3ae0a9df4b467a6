--------------------------- MODULE KernelObjects ----------------------------
(***************************************************************************)
(* The kernel objects of a session (apps/init/src/kernel.rs): init keeps a *)
(* handle of every retained section, the references between them and the   *)
(* tokens that lease them, and collects what nobody can reach.  Workers    *)
(* hold handles of the same sections; they open and close them while init  *)
(* collects, without a request.                                            *)
(*                                                                         *)
(* Every command and every collection holds the kernel mutex.  A section   *)
(* exists while init or a worker has a handle of it.                       *)
(***************************************************************************)
EXTENDS Naturals, FiniteSets

CONSTANTS
    Key,                \* object keys
    Root,               \* keys that are roots
    Ipc,                \* System V objects, which IPC_RMID marks as removed
    Edge,               \* <<k, d>>: a worker may make k depend on d
    Token,              \* lease owners
    MAX_OBJECTS         \* 16384 in the code

ASSUME KernelAssumption ==
    /\ Root \subseteq Key /\ Ipc \subseteq Key
    /\ Edge \subseteq Key \X Key
    /\ MAX_OBJECTS \in Nat

VARIABLES
    objects,            \* retained key -> references and leases
    held,               \* keys of which a worker has a handle
    alive,              \* tokens that a worker holds
    marked,             \* System V objects marked as removed
    sweep               \* the collection under way

kernelVars == <<objects, held, alive, marked, sweep>>

Resting == [step |-> "none"]

KernelInit ==
    /\ objects = [k \in {} |-> 0]
    /\ held = {}
    /\ alive = Token
    /\ marked = {}
    /\ sweep = Resting

Retained == DOMAIN objects

\* What a worker may name as references of k.
References(k) == {d \in Key : <<k, d>> \in Edge}

\* The smallest set that contains S and the references of its members.
Closed(table, T) == \A k \in T \cap DOMAIN table : table[k].dependencies \subseteq T
Reach(table, S) ==
    {k \in Key : \A T \in SUBSET Key : S \subseteq T /\ Closed(table, T) => k \in T}

\* Mutated form: the references to a removed object stay.
RemoveKeepsReferences(table, gone) ==
    [k \in DOMAIN table \ gone |-> table[k]]

\* remove: the object and every reference to it.
Remove(table, gone) ==
    [k \in DOMAIN table \ gone |->
        [table[k] EXCEPT !.dependencies = @ \ gone]]
-----------------------------------------------------------------------------
(* Workers *)

\* A worker creates a section, or opens one it finds: a root, or a reference
\* of an object it holds.
Open(k) ==
    /\ k \notin held
    /\ \/ k \notin Retained
       \/ k \in Root
       \/ \E h \in held \cap Retained : k \in objects[h].dependencies
       \/ \E h \in Root \cap Retained : k \in objects[h].dependencies
    /\ held' = held \cup {k}
    /\ UNCHANGED <<objects, alive, marked, sweep>>

\* The last worker closes it, or dies.
Close(k) ==
    /\ k \in held
    /\ held' = held \ {k}
    /\ sweep' = IF sweep.step = "query"
                THEN [sweep EXCEPT !.steady = @ \ {k}] ELSE sweep
    /\ UNCHANGED <<objects, alive, marked>>

TokenDies(t) ==
    /\ t \in alive
    /\ alive' = alive \ {t}
    /\ UNCHANGED <<objects, held, marked, sweep>>

\* IPC_RMID, in shared memory.
Mark(k) ==
    /\ k \in Ipc \cap held
    /\ marked' = marked \cup {k}
    /\ UNCHANGED <<objects, held, alive, sweep>>
-----------------------------------------------------------------------------
(* collect *)

\* Mutated form: leases are no roots.
BeginIgnoresLeases(after) ==
    LET kept == [k \in Retained |-> [objects[k] EXCEPT !.leases = @ \cap alive]]
        rest == Remove(kept, marked \cap Retained)
    IN  /\ objects' = rest
        /\ sweep' = [step |-> "query", after |-> after, live |-> Reach(rest, Root \cap DOMAIN rest),
                     todo |-> DOMAIN rest, steady |-> held]

\* Objects marked as removed go, and leases of dead tokens; neither depends on
\* the other.  Then everything is traced from the roots and the leased objects.
Begin(after) ==
    LET kept == [k \in Retained |-> [objects[k] EXCEPT !.leases = @ \cap alive]]
        rest == Remove(kept, marked \cap Retained)
        roots == {k \in DOMAIN rest : k \in Root \/ rest[k].leases # {}}
    IN  /\ objects' = rest
        /\ sweep' = [step |-> "query", after |-> after, live |-> Reach(rest, roots),
                     todo |-> DOMAIN rest, steady |-> held]

\* The collection thread, and the watcher of a worker that exited.
Collect ==
    /\ sweep.step = "none"
    /\ Begin({})
    /\ UNCHANGED <<held, alive, marked>>

\* Mutated form: what something refers to counts as in use.
InUseByReference(k) ==
    k \in held \/ \E o \in Retained : k \in objects[o].dependencies

\* externally_referenced: another process has a handle.
InUse(k) == k \in held

\* The objects that were not reached are queried one after the other; one in
\* use keeps what it refers to.
Query(k) ==
    /\ sweep.step = "query"
    /\ k \in sweep.todo
    /\ sweep' = [sweep EXCEPT
           !.todo = @ \ {k},
           !.live = IF k \notin @ /\ InUse(k) THEN @ \cup Reach(objects, {k}) ELSE @]
    /\ UNCHANGED <<objects, held, alive, marked>>

\* The rest is dropped.  A retain that collected first goes on.
Drop ==
    /\ sweep.step = "query"
    /\ sweep.todo = {}
    /\ objects' = [k \in Retained \cap sweep.live |-> objects[k]]
    /\ sweep' = IF sweep.after = {} THEN Resting ELSE [step |-> "retain", after |-> sweep.after]
    /\ UNCHANGED <<held, alive, marked>>
-----------------------------------------------------------------------------
(* Commands *)

\* check_dependencies, the handle, the limit; then the object and its new
\* references.  A request that fails changes nothing.
Insert(k, dependencies) ==
    IF /\ dependencies \subseteq Retained
       /\ k \in Retained \/ (k \in held /\ Cardinality(Retained) < MAX_OBJECTS)
    THEN objects' = [o \in Retained \cup {k} |->
             IF o # k THEN objects[o]
             ELSE IF k \in Retained
             THEN [objects[k] EXCEPT !.dependencies = @ \cup dependencies]
             ELSE [dependencies |-> dependencies, leases |-> {}]]
    ELSE UNCHANGED objects

\* retain: at the limit the table is collected first.
Retain(k) ==
    /\ sweep.step = "none"
    /\ \E dependencies \in SUBSET References(k) :
          IF k \notin Retained /\ Cardinality(Retained) >= MAX_OBJECTS
          THEN Begin({<<k, dependencies>>})
          ELSE Insert(k, dependencies) /\ UNCHANGED sweep
    /\ UNCHANGED <<held, alive, marked>>

RetainAfter ==
    /\ sweep.step = "retain"
    /\ \E request \in sweep.after : Insert(request[1], request[2])
    /\ sweep' = Resting
    /\ UNCHANGED <<held, alive, marked>>

\* The references of a namespace become those of its new table.
PublishMounts(k) ==
    /\ sweep.step = "none"
    /\ k \in Retained
    /\ \E dependencies \in SUBSET (References(k) \cap Retained) :
          objects' = [objects EXCEPT ![k].dependencies = dependencies]
    /\ UNCHANGED <<held, alive, marked, sweep>>

Lease(k, t) ==
    /\ sweep.step = "none"
    /\ t \in alive /\ k \in Retained
    /\ objects' = [objects EXCEPT ![k].leases = @ \cup {t}]
    /\ UNCHANGED <<held, alive, marked, sweep>>

Unlease(k, t) ==
    /\ sweep.step = "none"
    /\ k \in Retained /\ t \in objects[k].leases
    /\ objects' = [objects EXCEPT ![k].leases = @ \ {t}]
    /\ UNCHANGED <<held, alive, marked, sweep>>

RemoveIpc(k) ==
    /\ sweep.step = "none"
    /\ k \in Ipc \cap Retained
    /\ k \in marked
    /\ objects' = Remove(objects, {k})
    /\ UNCHANGED <<held, alive, marked, sweep>>
-----------------------------------------------------------------------------
Command(k) ==
    \/ Retain(k) \/ PublishMounts(k) \/ RemoveIpc(k)
    \/ \E t \in Token : Lease(k, t) \/ Unlease(k, t)

KernelNext ==
    \/ \E k \in Key : Open(k) \/ Close(k) \/ Mark(k) \/ Query(k) \/ Command(k)
    \/ \E t \in Token : TokenDies(t)
    \/ Collect \/ Drop \/ RetainAfter

KernelSpec == KernelInit /\ [][KernelNext]_kernelVars

Sweep == Drop \/ RetainAfter \/ \E k \in Key : Query(k)

\* The collection thread wakes every second and a collection ends.
FairKernelSpec ==
    /\ KernelSpec
    /\ SF_kernelVars(Collect)
    /\ WF_kernelVars(Sweep)
-----------------------------------------------------------------------------
\* Every reference of a retained object leads to a retained object.
ReferencesRetained ==
    \A k \in Retained : objects[k].dependencies \subseteq Retained

\* Objects that roots, living leases and handles held for the whole collection
\* lead to.
Needed(table, handles) ==
    Reach(table, {k \in DOMAIN table :
                      k \in Root \/ k \in handles \/ table[k].leases \cap alive # {}})

\* A collection drops nothing that was needed while it ran.
NeededStays ==
    [][sweep.step = "query" /\ sweep.todo = {} =>
           Retained \cap Needed(objects, sweep.steady) \subseteq DOMAIN objects']_kernelVars

Garbage(k) == k \in Retained /\ k \notin Needed(objects, held)

\* What nobody can reach is collected, cycles included, unless somebody gets
\* hold of it first.
GarbageGoes == \A k \in Key : Garbage(k) ~> ~Garbage(k)

\* kernel.rs: "Native handles cover fork, exec and namespace FDs" - an object
\* is not dropped while a worker has a handle of it.
HeldStays ==
    [][sweep.step = "query" /\ sweep.todo = {} =>
           Retained \cap held \subseteq DOMAIN objects']_kernelVars
=============================================================================
