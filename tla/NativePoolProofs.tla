-------------------------- MODULE NativePoolProofs --------------------------
(***************************************************************************)
(* Proofs about the two stocks of prepared native processes, NativeFork    *)
(* and NativeExec, each beside the real manager, for any number of native  *)
(* processes, connections and transactions: no process gets away, none is  *)
(* ended that a commit has published, and none that a running exec has     *)
(* reserved.                                                               *)
(***************************************************************************)
EXTENDS NativeFork, NativeExec, StateManagerProofs
-----------------------------------------------------------------------------
(* Invariants *)

\* EveryProcessHeld, and that what is held was created by the pool.
Held ==
    /\ native \in [Peer -> {"unborn", "live", "dead"}]
    /\ \A p \in Peer : native[p] = "unborn" => p \in Pooled
    /\ slots \cup created \cup Children \subseteq Pooled
    /\ \A p \in slots \cup created \cup Children : native[p] # "unborn"
    /\ EveryProcessHeld
    /\ thread # "made" => created = {}

\* What a serving thread is about to answer.
InReply(c) == IF delivery[c].step = "reply" THEN delivery[c].lease ELSE {}

\* A process that left the stock.
Left(p) == p \in Pooled /\ p \notin slots \cup created /\ native[p] # "unborn"

\* A process leaves the stock once: an answer on its way and an answer that
\* arrived name processes that are not in stock and that no other answer names,
\* and a lease on one of them is the lease of that answer.
Answered ==
    /\ DOMAIN delivery = 1..LAST_CLIENT
    /\ \A c \in DOMAIN delivery : \A m \in InReply(c) :
          /\ Left(m.child)
          /\ m.parent = delivery[c].peer
          /\ \A parent : <<parent, m.child>> \notin received
          /\ \A l \in leases : l.child = m.child => l = m
          /\ \A d \in DOMAIN delivery : \A n \in InReply(d) : n.child = m.child => d = c
    /\ \A parent, child : <<parent, child>> \in received =>
          /\ Left(child)
          /\ \A l \in leases : l.child = child => l.parent = parent

\* The manager knows a pooled process only after its caller received it.
Introduced ==
    /\ \A pid \in DOMAIN processes :
          LET p == processes[pid].peer
          IN  /\ p \in Peer
              /\ p \in Pooled => \E parent : <<parent, p>> \in received
    /\ \A id \in DOMAIN exec_transactions :
          LET t == exec_transactions[id]
          IN  /\ t.target \in Peer
              /\ t.target \in Pooled => <<t.owner_peer, t.target>> \in received

\* The invariant of both stocks.
PoolInv == Held /\ Answered /\ Introduced

\* A connection whose request is being served is that of a worker, and a worker
\* has one request at a time, unless it is dead: then the manager may have
\* dropped the connection, and taken another that was opened before.
Served ==
    /\ \A c \in DOMAIN delivery : delivery[c] # Idle =>
          /\ delivery[c].peer \in Peer
          /\ \/ Dead(delivery[c].peer)
             \/ /\ c \in DOMAIN clients
                /\ clients[c].kind \notin Control
                /\ clients[c].peer = delivery[c].peer
    /\ \A c, d \in DOMAIN delivery :
          (/\ delivery[c] # Idle /\ delivery[d] # Idle
           /\ delivery[c].peer = delivery[d].peer) => c = d \/ Dead(delivery[c].peer)

\* Only dead processes are reported.
ReportsTrue == \A p \in DOMAIN exited : p \in Peer /\ Dead(p)

\* The child of an answer on its way is the only live one of that caller and
\* transaction.
Sole ==
    \A c \in DOMAIN delivery : \A m \in InReply(c) : \A l \in leases :
        (/\ l.parent = m.parent /\ l.transaction = m.transaction
         /\ Live(l.child)) => l.child = m.child

\* No exec of the model reserves a fork child.
Apart == \A id \in DOMAIN exec_transactions : exec_transactions[id].target \notin Pooled

\* The stock of the template and the process on its way into it.
Stocked ==
    /\ StockMatchesTemplate
    /\ (thread = "creating" /\ current) => draft = template
    /\ (thread = "made" /\ current) => \A p \in created : built_for[p] = template

ForkInv ==
    /\ PoolInv
    /\ OneLivePerTransaction
    /\ Served /\ ReportsTrue /\ Sole /\ Apart
    /\ Stocked
    /\ DOMAIN built_for = Pooled

\* Requests and leases are made for native processes that ran.
Callers ==
    /\ \A c \in DOMAIN delivery : delivery[c] # Idle =>
          delivery[c].peer \in Peer /\ native[delivery[c].peer] # "unborn"
    /\ \A l \in leases : l.parent \in Peer /\ native[l.parent] # "unborn"

ExecPoolInv == PoolInv /\ Callers
-----------------------------------------------------------------------------
(* The stock and the leases *)

\* Native processes only die.
Ages ==
    /\ native' \in [Peer -> {"unborn", "live", "dead"}]
    /\ \A p \in Peer : native'[p] # native[p] =>
          native[p] # "unborn" /\ native'[p] = "dead"

\* Dropping standbys ends them.
LEMMA TerminatedAges ==
  ASSUME Held, NEW peers, peers \subseteq slots \cup created \cup Children,
         Terminated(peers)
  PROVE  /\ Ages
         /\ \A p \in peers : native'[p] = "dead"
         /\ \A p \in killed' \ killed : p \in peers /\ Live(p)
  BY PoolAssumption DEF Held, Ages, Terminated

\* A step that takes nothing new into custody and loses nobody who lives.
LEMMA HeldAges ==
  ASSUME Held, Ages,
         slots' \cup created' \subseteq slots \cup created,
         leases' \subseteq leases,
         released \subseteq released',
         created' = {} \/ (created' = created /\ slots' \subseteq slots),
         \A p \in slots \cup created \cup Children : native'[p] = "live" =>
            p \in slots' \cup created' \cup Children' \cup released',
         thread' # "made" => created' = {},
         thread' = "gone" => slots' = {} /\ leases' = {} /\ created' = {}
  PROVE  Held'
<1>1. /\ Children' \subseteq Children
      /\ \A l, m \in leases' : l.child = m.child => l = m
  BY DEF Children, Held, EveryProcessHeld
<1>2. /\ slots' \cap Children' = {}
      /\ created' \cap (slots' \cup Children') = {}
  BY <1>1 DEF Held, EveryProcessHeld
<1>3. ASSUME NEW p \in Pooled, native'[p] = "live"
      PROVE  p \in slots' \cup Children' \cup created' \cup released'
  BY <1>3, PoolAssumption DEF Held, EveryProcessHeld, Ages, Live
<1>4. /\ \A p \in Peer : native'[p] = "unborn" => p \in Pooled
      /\ slots' \cup created' \cup Children' \subseteq Pooled
      /\ \A p \in slots' \cup created' \cup Children' : native'[p] # "unborn"
  BY <1>1, PoolAssumption DEF Held, Ages
<1> QED
  BY <1>1, <1>2, <1>3, <1>4 DEF Held, EveryProcessHeld, Live, Ages

\* A step that answers nobody and stocks no process it did not hold.
LEMMA AnsweredAges ==
  ASSUME Answered, Held, Ages,
         slots' \cup created' \subseteq slots \cup created,
         leases' \subseteq leases,
         UNCHANGED received,
         DOMAIN delivery' = DOMAIN delivery,
         \A c \in DOMAIN delivery : InReply(c)' = {} \/ delivery'[c] = delivery[c]
  PROVE  Answered'
<1>1. \A p : Left(p) => Left(p)'
  BY PoolAssumption DEF Left, Held, Ages
<1>2. ASSUME NEW c \in DOMAIN delivery, NEW m \in InReply(c)'
      PROVE  m \in InReply(c) /\ delivery'[c] = delivery[c]
  BY <1>2 DEF InReply
<1> QED
  BY <1>1, <1>2 DEF Answered

\* What the manager knows does not change.
LEMMA IntroducedStays ==
  ASSUME Introduced, UNCHANGED <<processes, exec_transactions>>, received \subseteq received'
  PROVE  Introduced'
  BY DEF Introduced

\* Steps that leave stock, leases and answers alone.
LEMMA PoolQuiet ==
  ASSUME Held, Answered, Ages,
         UNCHANGED <<slots, created, leases, received, released>>,
         DOMAIN delivery' = DOMAIN delivery,
         \A c \in DOMAIN delivery : InReply(c)' = {} \/ delivery'[c] = delivery[c],
         thread' = "made" <=> thread = "made",
         thread' = "gone" => thread = "gone"
  PROVE  Held' /\ Answered'
<1>1. Children' = Children
  BY DEF Children
<1>2. Held'
  BY <1>1, HeldAges DEF Held, EveryProcessHeld
<1>3. Answered'
  BY AnsweredAges
<1> QED
  BY <1>2, <1>3

\* A call of the manager.
LEMMA ManagerCallPool ==
  ASSUME Held, Answered, ManagerCall
  PROVE  Held' /\ Answered' /\ received' = received
<1>1. /\ UNCHANGED <<native, slots, created, leases, received, released, delivery>>
      /\ thread' = Woken
  BY DEF ManagerCall, poolVars
<1>2. /\ thread' = "made" <=> thread = "made"
      /\ thread' = "gone" => thread = "gone"
  BY <1>1 DEF Woken
<1>3. Ages
  BY <1>1 DEF Held, Ages
<1> QED
  BY <1>1, <1>2, <1>3, PoolQuiet

\* One pass of the pool thread: what it neither keeps nor lets go, it ends.
LEMMA MaintainPool ==
  ASSUME PoolInv, NEW let_go, NEW kept, NEW wanted, NEW busy,
         let_go \subseteq leases, kept \subseteq leases,
         Maintain(let_go, kept, wanted, busy)
  PROVE  /\ PoolInv' /\ Ages
         /\ \A p \in killed' \ killed :
               /\ p \in slots \/ \E l \in leases \ (let_go \cup kept) : l.child = p
               /\ Live(p)
<1> DEFINE dropped == {l.child : l \in leases \ (let_go \cup kept)}
<1>1. /\ leases' = kept
      /\ released' = released \cup {l.child : l \in let_go}
      /\ slots' = slots \ Spoiled
      /\ Terminated(dropped \cup Spoiled)
      /\ thread = "top"
      /\ thread' \in {"creating", "dozing", "parking"}
      /\ UNCHANGED <<processes, exec_transactions, created, received, delivery>>
  BY DEF Maintain, Good, requestVars, vars, processVars, execVars
<1>2. /\ Spoiled \subseteq slots
      /\ dropped \subseteq Children
  BY DEF Spoiled, Children
<1>3. /\ Ages
      /\ \A p \in dropped \cup Spoiled : native'[p] = "dead"
      /\ \A p \in killed' \ killed : p \in dropped \cup Spoiled /\ Live(p)
  <2> HIDE DEF dropped
  <2> QED
    BY <1>1, <1>2, TerminatedAges DEF PoolInv
<1>4. created = {} /\ created' = {}
  BY <1>1 DEF PoolInv, Held
<1>5. \A p \in Children : p \in dropped \/ p \in Children' \/ p \in released'
  BY <1>1 DEF Children
<1>6. Held'
  <2> HIDE DEF dropped
  <2> QED
    BY <1>1, <1>3, <1>4, <1>5, HeldAges DEF PoolInv
<1>7. Answered'
  BY <1>1, <1>3, <1>4, AnsweredAges DEF PoolInv
<1>8. Introduced'
  BY <1>1, IntroducedStays DEF PoolInv
<1> QED
  BY <1>2, <1>3, <1>6, <1>7, <1>8 DEF PoolInv

\* The thread ends with the session.
LEMMA FinishPool ==
  ASSUME PoolInv, Finish
  PROVE  PoolInv' /\ Ages
<1>1. /\ slots' = {} /\ leases' = {}
      /\ Terminated(slots \cup Children)
      /\ thread = "top" /\ thread' = "gone"
      /\ UNCHANGED <<processes, exec_transactions, created, received, delivery, released>>
  BY DEF Finish, requestVars, vars, processVars, execVars
<1>2. Ages /\ \A p \in slots \cup Children : native'[p] = "dead"
  BY <1>1, TerminatedAges DEF PoolInv
<1>3. created = {} /\ created' = {}
  BY <1>1 DEF PoolInv, Held
<1>4. Held'
  BY <1>1, <1>2, <1>3, HeldAges DEF PoolInv
<1>5. Answered'
  BY <1>1, <1>2, <1>3, AnsweredAges DEF PoolInv
<1>6. Introduced'
  BY <1>1, IntroducedStays DEF PoolInv
<1> QED
  BY <1>2, <1>4, <1>5, <1>6 DEF PoolInv

\* A new process was never delivered, leased or introduced.
LEMMA CreatePool ==
  ASSUME PoolInv, Create
  PROVE  /\ PoolInv'
         /\ \A p \in Peer : native'[p] # native[p] => native[p] = "unborn"
         /\ \A p \in Peer : native[p] # "unborn" => native'[p] # "unborn"
<1>1. /\ thread = "creating"
      /\ UNCHANGED <<processes, exec_transactions, slots, leases, received, delivery,
                     released>>
  BY DEF Create, requestVars, stockVars, vars, processVars, execVars
<1>2. created = {} /\ Children' = Children
  BY <1>1 DEF PoolInv, Held, Children
<1>3. Introduced'
  BY <1>1, IntroducedStays DEF PoolInv
<1>4. CASE /\ created' = {} /\ UNCHANGED native
           /\ thread' \in {"top", "made"}
  <2>1. Ages
    BY <1>4 DEF PoolInv, Held, Ages
  <2>2. Held'
    BY <1>1, <1>2, <1>4, <2>1, HeldAges DEF PoolInv
  <2>3. Answered'
    BY <1>1, <1>2, <1>4, <2>1, AnsweredAges DEF PoolInv
  <2> QED
    BY <1>3, <1>4, <2>2, <2>3 DEF PoolInv
<1>5. ASSUME NEW peer \in Pooled, native[peer] = "unborn",
             native' = [native EXCEPT ![peer] = "live"],
             created' = {peer}, thread' = "made"
      PROVE  /\ PoolInv'
             /\ \A p \in Peer : native'[p] # native[p] => native[p] = "unborn"
             /\ \A p \in Peer : native[p] # "unborn" => native'[p] # "unborn"
  <2>1. /\ native' \in [Peer -> {"unborn", "live", "dead"}]
        /\ \A p \in Peer : native'[p] = IF p = peer THEN "live" ELSE native[p]
        /\ peer \in Peer
    BY <1>5, PoolAssumption DEF PoolInv, Held
  <2>2. peer \notin slots \cup Children
    BY <1>5 DEF PoolInv, Held
  <2>3. Held'
    BY <1>1, <1>2, <1>5, <2>1, <2>2, PoolAssumption
    DEF PoolInv, Held, EveryProcessHeld, Live
  <2>4. \A p : Left(p) => Left(p)'
    BY <1>1, <1>2, <1>5, <2>1, PoolAssumption DEF Left
  <2>5. \A c \in DOMAIN delivery : InReply(c)' = InReply(c)
    BY <1>1 DEF InReply
  <2>6. Answered'
    BY <1>1, <2>4, <2>5 DEF PoolInv, Answered
  <2> QED
    BY <1>3, <1>5, <2>1, <2>3, <2>6 DEF PoolInv
<1>6. \/ created' = {} /\ UNCHANGED native /\ thread' \in {"top", "made"}
      \/ \E peer \in Pooled : /\ native[peer] = "unborn"
                              /\ native' = [native EXCEPT ![peer] = "live"]
                              /\ created' = {peer} /\ thread' = "made"
  BY DEF Create, Nobody
<1> QED
  BY <1>4, <1>5, <1>6

\* The new process joins the stock or is ended.
LEMMA PublishPool ==
  ASSUME PoolInv, NEW wanted, Publish(wanted)
  PROVE  PoolInv' /\ Ages /\ \A p \in killed' \ killed : p \in created
<1>1. /\ thread' = "top" /\ created' = {}
      /\ UNCHANGED <<processes, exec_transactions, leases, received, delivery, released>>
      /\ \/ slots' = slots \cup created /\ UNCHANGED <<native, killed>>
         \/ slots' = slots /\ Terminated(created)
  BY DEF Publish, Nobody, requestVars, vars, processVars, execVars
<1>2. /\ Ages
      /\ slots' = slots => \A p \in created : native'[p] = "dead" \/ p \in slots
      /\ slots' \subseteq slots \cup created /\ slots \subseteq slots'
      /\ \A p \in killed' \ killed : p \in created
  <2>1. CASE slots' = slots \cup created /\ UNCHANGED <<native, killed>>
    BY <2>1 DEF PoolInv, Held, Ages
  <2>2. CASE slots' = slots /\ Terminated(created)
    BY <2>2, TerminatedAges DEF PoolInv
  <2> QED
    BY <1>1, <2>1, <2>2
<1>3. \A p \in created : native'[p] = "live" => p \in slots'
  BY <1>1, <1>2
<1>4. Children' = Children
  BY <1>1 DEF Children
<1>5. Held'
  BY <1>1, <1>2, <1>3, <1>4, HeldAges DEF PoolInv
<1>6. Answered'
  BY <1>1, <1>2, AnsweredAges DEF PoolInv
<1>7. Introduced'
  BY <1>1, IntroducedStays DEF PoolInv
<1> QED
  BY <1>2, <1>5, <1>6, <1>7 DEF PoolInv

\* Custody ends for some of the stock or some leases; the request, if any, is
\* answered without a process.
LEMMA DropPool ==
  ASSUME PoolInv, NEW stock, NEW gone, stock \subseteq slots, gone \subseteq leases,
         slots' = slots \ stock, leases' = leases \ gone,
         Terminated(stock \cup {l.child : l \in gone}),
         UNCHANGED <<processes, exec_transactions, created, received, released>>,
         DOMAIN delivery' = DOMAIN delivery,
         \A c \in DOMAIN delivery : InReply(c)' = {} \/ delivery'[c] = delivery[c],
         thread' = "made" <=> thread = "made",
         thread' = "gone" => thread = "gone"
  PROVE  /\ PoolInv' /\ Ages
         /\ \A p \in killed' \ killed :
               (p \in stock \/ \E l \in gone : l.child = p) /\ Live(p)
<1> DEFINE ended == {l.child : l \in gone}
<1>1. ended \subseteq Children
  BY DEF Children
<1>2. /\ Ages
      /\ \A p \in stock \cup ended : native'[p] = "dead"
      /\ \A p \in killed' \ killed : p \in stock \cup ended /\ Live(p)
  <2>1. Terminated(stock \cup ended)
    OBVIOUS
  <2> HIDE DEF ended
  <2> QED
    BY <1>1, <2>1, TerminatedAges DEF PoolInv
<1>3. \A p \in Children : p \in ended \/ p \in Children'
  BY DEF Children
<1>4. Held'
  <2> HIDE DEF ended
  <2> QED
    BY <1>2, <1>3, HeldAges DEF PoolInv, Held, EveryProcessHeld
<1>5. Answered'
  BY <1>2, AnsweredAges DEF PoolInv
<1>6. Introduced'
  BY IntroducedStays DEF PoolInv
<1> QED
  BY <1>2, <1>4, <1>5, <1>6 DEF PoolInv

\* A standby leaves the stock as the lease of a caller, and the answer names it.
LEMMA LeasePool ==
  ASSUME PoolInv, NEW c \in DOMAIN delivery, NEW lease, lease.child \in slots,
         lease.parent = delivery[c].peer,
         delivery[c].step = "take",
         slots' = slots \ {lease.child},
         leases' = leases \cup {lease},
         delivery' = [delivery EXCEPT ![c] = Answer(c, {lease})],
         UNCHANGED <<native, processes, exec_transactions, created, received, released,
                     thread>>
  PROVE  PoolInv'
<1>1. /\ DOMAIN delivery' = DOMAIN delivery
      /\ \A d \in DOMAIN delivery : d # c => delivery'[d] = delivery[d]
      /\ delivery'[c].step = "reply"
      /\ delivery'[c].peer = delivery[c].peer
      /\ delivery'[c].lease = {lease}
  BY DEF Answer
<1>2. /\ InReply(c)' = {lease}
      /\ \A d \in DOMAIN delivery : d # c => InReply(d)' = InReply(d)
  BY <1>1 DEF InReply
<1>3. /\ lease.child \in Pooled /\ lease.child \notin created \cup Children
      /\ native[lease.child] # "unborn"
  BY DEF PoolInv, Held, EveryProcessHeld
<1>4. Children' = Children \cup {lease.child}
  BY DEF Children
<1>5. \A l \in leases : l.child # lease.child
  BY <1>3 DEF Children
<1>6. Held'
  <2>1. \A l, m \in leases' : l.child = m.child => l = m
    BY <1>5 DEF PoolInv, Held, EveryProcessHeld
  <2>2. /\ slots' \cap Children' = {}
        /\ created' \cap (slots' \cup Children') = {}
    BY <1>3, <1>4 DEF PoolInv, Held, EveryProcessHeld
  <2>3. thread # "gone"
    BY DEF PoolInv, Held, EveryProcessHeld
  <2>4. \A p \in Pooled : Live(p)' =>
           p \in slots' \cup Children' \cup created' \cup released'
    BY <1>4 DEF PoolInv, Held, EveryProcessHeld, Live
  <2>5. /\ slots' \cup created' \cup Children' \subseteq Pooled
        /\ \A p \in slots' \cup created' \cup Children' : native'[p] # "unborn"
    BY <1>3, <1>4 DEF PoolInv, Held
  <2>6. /\ native' \in [Peer -> {"unborn", "live", "dead"}]
        /\ \A p \in Peer : native'[p] = "unborn" => p \in Pooled
        /\ thread' # "made" => created' = {}
    BY DEF PoolInv, Held
  <2> QED
    BY <2>1, <2>2, <2>3, <2>4, <2>5, <2>6 DEF Held, EveryProcessHeld
<1>7. /\ \A p : Left(p) => Left(p)' /\ p # lease.child
      /\ Left(lease.child)'
  BY <1>3 DEF Left
<1>8. /\ \A parent : <<parent, lease.child>> \notin received
      /\ \A d \in DOMAIN delivery : \A m \in InReply(d) : m.child # lease.child
  BY <1>7 DEF PoolInv, Answered
<1>9. ASSUME NEW d \in DOMAIN delivery', NEW m \in InReply(d)'
      PROVE  /\ Left(m.child)'
             /\ m.parent = delivery'[d].peer
             /\ \A parent : <<parent, m.child>> \notin received'
             /\ \A l \in leases' : l.child = m.child => l = m
             /\ \A e \in DOMAIN delivery' : \A n \in InReply(e)' :
                   n.child = m.child => e = d
  <2>1. CASE d = c
    BY <1>1, <1>2, <1>5, <1>7, <1>8, <1>9, <2>1
  <2>2. CASE d # c
    BY <1>1, <1>2, <1>7, <1>8, <1>9, <2>2 DEF PoolInv, Answered
  <2> QED
    BY <2>1, <2>2
<1>10. \A parent, child : <<parent, child>> \in received' =>
          /\ Left(child)'
          /\ \A l \in leases' : l.child = child => l.parent = parent
  BY <1>7, <1>8 DEF PoolInv, Answered
<1>11. DOMAIN delivery' = 1..LAST_CLIENT
  BY <1>1 DEF PoolInv, Answered
<1>12. Answered'
  BY <1>9, <1>10, <1>11 DEF Answered
<1>13. Introduced'
  BY IntroducedStays DEF PoolInv
<1> QED
  BY <1>6, <1>12, <1>13 DEF PoolInv

\* The answer arrives.
LEMMA ReplyPool ==
  ASSUME PoolInv, NEW c \in DOMAIN delivery, Reply(c)
  PROVE  PoolInv' /\ Ages
<1>1. /\ delivery[c].step = "reply"
      /\ thread' = Woken
      /\ delivery' = [delivery EXCEPT ![c] = Idle]
      /\ received' = received \cup {<<delivery[c].peer, l.child>> : l \in InReply(c)}
      /\ UNCHANGED <<native, slots, created, leases, released, processes,
                     exec_transactions>>
  BY DEF Reply, InReply, nativeVars, stockVars, vars, processVars, execVars
<1>2. /\ thread' = "made" <=> thread = "made"
      /\ thread' = "gone" => thread = "gone"
  BY <1>1 DEF Woken
<1>3. Ages
  BY <1>1 DEF PoolInv, Held, Ages
<1>4. Held'
  <2>1. Children' = Children
    BY <1>1 DEF Children
  <2> QED
    BY <1>1, <1>2, <1>3, <2>1, HeldAges DEF PoolInv, Held, EveryProcessHeld
<1>5. /\ DOMAIN delivery' = DOMAIN delivery
      /\ InReply(c)' = {}
      /\ \A d \in DOMAIN delivery : d # c =>
            delivery'[d] = delivery[d] /\ InReply(d)' = InReply(d)
  BY <1>1 DEF InReply, Idle
<1>6. \A p : Left(p)' <=> Left(p)
  BY <1>1 DEF Left
<1>7. ASSUME NEW d \in DOMAIN delivery, NEW m \in InReply(d)'
      PROVE  /\ d # c /\ m \in InReply(d)
             /\ \A parent : <<parent, m.child>> \notin received'
  BY <1>1, <1>5, <1>7 DEF PoolInv, Answered
<1>8. ASSUME NEW parent, NEW child, <<parent, child>> \in received'
      PROVE  /\ Left(child)
             /\ \A l \in leases : l.child = child => l.parent = parent
  <2>1. CASE <<parent, child>> \in received
    BY <2>1 DEF PoolInv, Answered
  <2>2. ASSUME NEW m \in InReply(c), <<parent, child>> = <<delivery[c].peer, m.child>>
        PROVE  /\ Left(child)
               /\ \A l \in leases : l.child = child => l.parent = parent
    BY <2>2 DEF PoolInv, Answered
  <2> QED
    BY <1>1, <1>8, <2>1, <2>2
<1>9. Answered'
  BY <1>1, <1>5, <1>6, <1>7, <1>8 DEF PoolInv, Answered
<1>10. Introduced'
  BY <1>1, IntroducedStays DEF PoolInv
<1> QED
  BY <1>3, <1>4, <1>9, <1>10 DEF PoolInv
-----------------------------------------------------------------------------
(* What a request of the manager does to owners, execs and connections *)

\* No exec begins, and none changes its images.
ExecsKept ==
    \A id \in DOMAIN exec_transactions' :
        /\ id \in DOMAIN exec_transactions
        /\ exec_transactions'[id].target = exec_transactions[id].target
        /\ exec_transactions'[id].owner_peer = exec_transactions[id].owner_peer

\* A worker keeps its connection `c` until its death is reported.
SeatKept(c) ==
    clients[c].kind \notin Control =>
        \/ /\ c \in DOMAIN clients'
           /\ clients'[c].peer = clients[c].peer
           /\ clients'[c].kind \notin Control
        \/ clients[c].peer \in DOMAIN exited'

SeatsKept == \A c \in DOMAIN clients : SeatKept(c)

\* No death is reported; earlier reports may be dropped.
NoReport == DOMAIN exited' \subseteq DOMAIN exited

\* A process is with its old owner, or with `peer`.
NewOwner(peer) ==
    \A pid \in DOMAIN processes' :
        \/ pid \in DOMAIN processes /\ processes'[pid].peer = processes[pid].peer
        \/ processes'[pid].peer = peer

\* A new root worker or fork child.
LEMMA ConnectWorkerEffects ==
  ASSUME IInv, NEW peer,
         ConnectRoot(peer) \/ \E id \in DOMAIN transactions : ConnectFork(peer, id)
  PROVE  NewOwner(peer) /\ ExecsKept /\ SeatsKept /\ NoReport
<1>1. UNCHANGED exec_transactions
  BY DEF ConnectRoot, ConnectFork, execVars
<1>6. NoReport
  <2>1. ASSUME NEW pid, AddClient(peer, "Worker", pid, NoId)
        PROVE  NoReport
    BY <2>1, AddClientExits DEF NoReport
  <2> QED
    BY <2>1 DEF ConnectRoot, ConnectFork
<1>2. PICK pid, new : processes' = With(processes, pid, new) /\ new.peer = peer
  <2>1. CASE ConnectRoot(peer)
    <3> DEFINE new == NewProcess(NoId, peer, EmptySnapshot, "Active", NoId)
    <3>1. processes' = With(processes, next_pid, new)
      BY <2>1 DEF ConnectRoot
    <3>2. new.peer = peer
      BY DEF NewProcess
    <3> HIDE DEF new
    <3> QED
      BY <3>1, <3>2
  <2>2. ASSUME NEW id \in DOMAIN transactions, ConnectFork(peer, id)
        PROVE  \E pid, new : processes' = With(processes, pid, new) /\ new.peer = peer
    <3> DEFINE child == transactions[id].child
               new == NewProcess(transactions[id].child_parent, peer,
                                 CHOOSE s \in transactions[id].snapshot : TRUE,
                                 "Pending", id)
    <3>1. processes' = With(processes, child, new)
      BY <2>2 DEF ConnectFork
    <3>2. new.peer = peer
      BY DEF NewProcess
    <3> HIDE DEF new, child
    <3> QED
      BY <3>1, <3>2
  <2> QED
    BY <2>1, <2>2
<1>3. NewOwner(peer)
  BY <1>2 DEF NewOwner, With
<1>4. PICK record : clients' = With(clients, next_client, record)
  BY DEF ConnectRoot, ConnectFork, AddClient
<1>5. next_client \notin DOMAIN clients
  BY DEF IInv, Shape
<1> QED
  BY <1>1, <1>3, <1>4, <1>5, <1>6 DEF ExecsKept, SeatsKept, SeatKept, With

\* The requests of the fork protocol.
LEMMA ForkRequestEffects ==
  ASSUME IInv, NEW c \in DOMAIN clients, ForkRequest(c)
  PROVE  OwnersSame /\ ExecsKept /\ SeatsKept /\ NoReport
  BY ForkFrame DEF ExecFrame, ExecsKept, SeatsKept, SeatKept, NoReport

\* The replacement of an exec attaches.
LEMMA ConnectExecEffects ==
  ASSUME IInv, NEW peer, NEW id \in DOMAIN exec_transactions, ConnectExec(peer, id)
  PROVE  OwnersSame /\ ExecsKept /\ SeatsKept /\ NoReport
<1>1. /\ exec_transactions' = [exec_transactions EXCEPT ![id].candidate = next_client,
                                                        ![id].state = "Adopted"]
      /\ UNCHANGED processes
  BY DEF ConnectExec, processVars
<1>5. NoReport
  <2>1. AddClient(peer, "ExecCandidate", exec_transactions[id].process, id)
    BY DEF ConnectExec
  <2> QED
    BY <2>1, AddClientExits DEF NoReport
<1>2. PICK record : clients' = With(clients, next_client, record)
  BY DEF ConnectExec, AddClient
<1>3. next_client \notin DOMAIN clients
  BY DEF IInv, Shape
<1>4. ExecsKept
  BY <1>1 DEF ExecsKept, IInv, Shape, ExecFields
<1> QED
  BY <1>1, <1>2, <1>3, <1>4, <1>5 DEF OwnersSame, SeatsKept, SeatKept, With

\* The requests of the exec protocol that begin no exec.
LEMMA ExecRequestEffects ==
  ASSUME IInv, NEW c \in DOMAIN clients,
         \/ MarkExecReady(c)
         \/ \E id \in DOMAIN exec_transactions :
               CommitExec(c, id) \/ AbortExec(c, id) \/ AcknowledgeExec(c, id)
  PROVE  OwnersSame /\ ExecsKept /\ SeatsKept /\ NoReport
<1>1. \A id \in DOMAIN exec_transactions : DOMAIN exec_transactions[id] = ExecFields
  BY DEF IInv, Shape
<1>2. \A d \in DOMAIN clients : DOMAIN clients[d] = {"peer", "kind", "pid", "transaction"}
  BY DEF IInv, Shape
<1>3. OwnersSame
  BY ExecRequestFrame DEF ExecRequest
<1>8. NoReport
  BY DEF MarkExecReady, CommitExec, AbortExec, AcknowledgeExec, exitVars, NoReport
<1>4. CASE MarkExecReady(c)
  <2>1. PICK id : exec_transactions' = [exec_transactions EXCEPT ![id].state = "Ready"]
    BY <1>4 DEF MarkExecReady
  <2>2. UNCHANGED <<clients, exited>>
    BY <1>4 DEF MarkExecReady, connectVars, exitVars
  <2> QED
    BY <1>1, <1>3, <1>8, <2>1, <2>2 DEF ExecsKept, SeatsKept, SeatKept, ExecFields
<1>5. ASSUME NEW id \in DOMAIN exec_transactions, CommitExec(c, id)
      PROVE  ExecsKept /\ SeatsKept
  <2>1. /\ exec_transactions' = [exec_transactions EXCEPT ![id].state = "Committed",
                                                          ![id].retiring = TRUE]
        /\ clients' = [clients EXCEPT ![c].kind = "Retired", ![c].transaction = id]
        /\ UNCHANGED exited
    BY <1>5 DEF CommitExec, exitVars
  <2>2. ExecsKept
    BY <1>1, <2>1 DEF ExecsKept, ExecFields
  <2>3. SeatsKept
    BY <1>2, <2>1 DEF SeatsKept, SeatKept, Control
  <2> QED
    BY <2>2, <2>3
<1>6. ASSUME NEW id \in DOMAIN exec_transactions, AbortExec(c, id)
      PROVE  ExecsKept /\ SeatsKept
  BY <1>1, <1>6 DEF AbortExec, AbortedExecs, ExecsKept, SeatsKept, SeatKept, ExecFields,
     connectVars, exitVars
<1>7. ASSUME NEW id \in DOMAIN exec_transactions, AcknowledgeExec(c, id)
      PROVE  ExecsKept /\ SeatsKept
  BY <1>7 DEF AcknowledgeExec, Without, Restrict, ExecsKept, SeatsKept, SeatKept,
     connectVars, exitVars
<1> QED
  BY <1>3, <1>4, <1>5, <1>6, <1>7, <1>8

\* A new exec names the image of its caller and the replacement.
LEMMA PrepareExecEffects ==
  ASSUME IInv, NEW c \in DOMAIN clients, NEW key \in RequestKey, NEW target \in Peer,
         PrepareExec(c, key, target)
  PROVE  /\ OwnersSame /\ SeatsKept /\ NoReport
         /\ \A id \in DOMAIN exec_transactions' :
               \/ /\ id \in DOMAIN exec_transactions
                  /\ exec_transactions'[id] = exec_transactions[id]
               \/ /\ exec_transactions'[id].target = target
                  /\ exec_transactions'[id].owner_peer = clients[c].peer
<1>1. OwnersSame
  BY ExecRequestFrame DEF ExecRequest
<1>2. SeatsKept /\ NoReport
  BY DEF PrepareExec, SeatsKept, SeatKept, NoReport, connectVars, exitVars
<1>3. PICK new : /\ exec_transactions' = With(exec_transactions, next_transaction, new)
                 /\ new.target = target
                 /\ new.owner_peer = processes[clients[c].pid].peer
  <2> DEFINE pid == clients[c].pid
             new == [process |-> pid, owner |-> c, owner_peer |-> processes[pid].peer,
                     target |-> target, candidate |-> NoId, state |-> "Prepared",
                     retiring |-> FALSE, candidate_exit |-> {}]
  <2>1. exec_transactions' = With(exec_transactions, next_transaction, new)
    BY DEF PrepareExec
  <2>2. new.target = target /\ new.owner_peer = processes[clients[c].pid].peer
    OBVIOUS
  <2> HIDE DEF new
  <2> QED
    BY <2>1, <2>2
<1>4. processes[clients[c].pid].peer = clients[c].peer
  BY DEF PrepareExec, ActiveWorker, OwnsProcess
<1> QED
  BY <1>1, <1>2, <1>3, <1>4 DEF With

\* The end of a connection.
LEMMA DisconnectEffects ==
  ASSUME IInv, NEW c \in DOMAIN clients, Disconnect(c)
  PROVE  /\ OwnersSame /\ ExecsKept
         /\ NoReport
         /\ \A d \in DOMAIN clients : d # c => SeatKept(d)
<1>1. \A id \in DOMAIN exec_transactions : DOMAIN exec_transactions[id] = ExecFields
  BY DEF IInv, Shape
<1>2. PICK execs : exec_transactions' = AbortedExecs(execs)
  BY DEF Disconnect
<1>3. ExecsKept
  BY <1>1, <1>2 DEF AbortedExecs, ExecsKept, ExecFields
<1>4. OwnersSame
  <2>1. \A pid \in DOMAIN processes : DOMAIN processes[pid] = ProcessFields
    BY DEF IInv, Shape
  <2>2. PICK forks : processes' = [pid \in DOMAIN processes |->
             LET p == [processes[pid] EXCEPT !.prewarm = Released(@, {c})]
             IN  IF pid \in ChildrenOf(forks) THEN Revoked(p) ELSE p]
    BY DEF Disconnect
  <2> QED
    BY <2>1, <2>2 DEF OwnersSame, Revoked, ProcessFields
<1> QED
  BY <1>3, <1>4 DEF Disconnect, Without, Restrict, SeatKept, NoReport, exitVars

\* The report of a death: a process goes over to the replacement of its exec.
LEMMA ExitEffects ==
  ASSUME IInv, ExecInv, NEW peer, NEW status, ProcessExited(peer, status)
  PROVE  /\ ExecsKept /\ SeatsKept
         /\ DOMAIN exited' = DOMAIN exited \cup {peer}
         /\ \A pid \in DOMAIN processes' :
               /\ pid \in DOMAIN processes
               /\ \/ processes'[pid].peer = processes[pid].peer
                  \/ \E id \in DOMAIN exec_transactions :
                        exec_transactions[id].target = processes'[pid].peer
<1>1. ExecsKept
  BY ExitExecs DEF ExecsKept
<1>2. SeatsKept
  <2>1. /\ DOMAIN clients' = DOMAIN clients \ Cut(peer)
        /\ \A c \in DOMAIN clients' :
              /\ clients'[c].peer = clients[c].peer
              /\ clients'[c].kind = "Worker" \/ clients'[c] = clients[c]
    BY ExitClients
  <2>2. \A c \in Cut(peer) : clients[c].peer \in DOMAIN exited'
    BY DyingReported DEF Cut
  <2> QED
    BY <2>1, <2>2 DEF SeatsKept, SeatKept, Control
<1>3. /\ DOMAIN processes' \subseteq DOMAIN processes
      /\ \A pid \in DOMAIN processes' : processes'[pid].peer = Successor(pid, peer)
  BY ExitProcesses
<1>4. ASSUME NEW pid \in DOMAIN processes'
      PROVE  \/ processes'[pid].peer = processes[pid].peer
             \/ \E id \in DOMAIN exec_transactions :
                   exec_transactions[id].target = processes'[pid].peer
  <2>1. ASSUME NEW id \in TakenOver(peer), exec_transactions[id].process = pid
        PROVE  /\ id \in DOMAIN exec_transactions
               /\ exec_transactions[id].target = processes'[pid].peer
    BY <1>3, <2>1, SuccessorFacts
  <2>2. CASE \A id \in TakenOver(peer) : exec_transactions[id].process # pid
    BY <1>3, <2>2, SuccessorFacts
  <2> QED
    BY <2>1, <2>2
<1>5. DOMAIN exited' = DOMAIN exited \cup {peer}
  BY ExitCounters
<1> QED
  BY <1>1, <1>2, <1>3, <1>4, <1>5
-----------------------------------------------------------------------------
(* Introduced *)

\* A process goes to its old owner, to a process that is not the pool's or was
\* received, or to the replacement of an exec; execs stay.
LEMMA IntroducedKept ==
  ASSUME Introduced, ExecsKept, UNCHANGED received,
         \A pid \in DOMAIN processes' :
            LET p == processes'[pid].peer
            IN  \/ pid \in DOMAIN processes /\ processes[pid].peer = p
                \/ p \in Peer /\ (p \in Pooled => \E parent : <<parent, p>> \in received)
                \/ \E id \in DOMAIN exec_transactions : exec_transactions[id].target = p
  PROVE  Introduced'
<1>1. ASSUME NEW pid \in DOMAIN processes'
      PROVE  LET p == processes'[pid].peer
             IN  p \in Peer /\ (p \in Pooled => \E parent : <<parent, p>> \in received')
  BY DEF Introduced
<1>2. ASSUME NEW id \in DOMAIN exec_transactions'
      PROVE  LET t == exec_transactions'[id]
             IN  /\ t.target \in Peer
                 /\ t.target \in Pooled => <<t.owner_peer, t.target>> \in received'
  BY DEF Introduced, ExecsKept
<1> QED
  BY <1>1, <1>2 DEF Introduced

\* The manager has not heard of a process that no caller received.
LEMMA Unheard ==
  ASSUME PoolInv, NEW p \in Pooled, \A parent : <<parent, p>> \notin received
  PROVE  ~Published(p) /\ ReservedFor(p) = {}
  BY DEF PoolInv, Introduced, Published, ProcessesOf, ReservedFor

\* Nor of one in stock or on its way into the stock.
LEMMA UnheardStock ==
  ASSUME PoolInv, NEW p \in slots \cup created
  PROVE  ~Published(p) /\ ReservedFor(p) = {}
<1>1. p \in Pooled
  BY DEF PoolInv, Held
<1>2. \A parent : <<parent, p>> \notin received
  BY DEF PoolInv, Answered, Left
<1> QED
  BY <1>1, <1>2, Unheard

\* Nor of one whose answer is on its way.
LEMMA UnheardReply ==
  ASSUME PoolInv, NEW c \in DOMAIN delivery, NEW m \in InReply(c)
  PROVE  ~Published(m.child) /\ ReservedFor(m.child) = {}
<1>1. m.child \in Pooled /\ \A parent : <<parent, m.child>> \notin received
  BY DEF PoolInv, Answered, Left
<1> QED
  BY <1>1, Unheard
-----------------------------------------------------------------------------
(* Steps of both stocks *)

\* A native process dies.
LEMMA DiePool ==
  ASSUME PoolInv, NEW peer \in Peer, Die(peer)
  PROVE  PoolInv' /\ Ages
<1>1. /\ native[peer] = "live"
      /\ native' = [native EXCEPT ![peer] = "dead"]
      /\ UNCHANGED <<slots, created, leases, received, released, delivery, thread,
                     processes, exec_transactions>>
  BY DEF Die, Live, stockVars, threadVars, requestVars, vars, processVars, execVars
<1>2. Ages
  BY <1>1 DEF PoolInv, Held, Ages
<1>3. Held' /\ Answered'
  BY <1>1, <1>2, PoolQuiet DEF PoolInv
<1> QED
  BY <1>1, <1>2, <1>3, IntroducedStays DEF PoolInv

\* A standby parks, time passes, the thread sleeps or wakes, a request begins
\* or is answered without a process, the session stops.
LEMMA RestPool ==
  ASSUME PoolInv,
         UNCHANGED <<native, slots, created, leases, received, released, processes,
                     exec_transactions>>,
         DOMAIN delivery' = DOMAIN delivery,
         \A c \in DOMAIN delivery : InReply(c)' = {} \/ delivery'[c] = delivery[c],
         thread' = "made" <=> thread = "made",
         thread' = "gone" => thread = "gone"
  PROVE  PoolInv' /\ Ages
<1>1. Ages
  BY DEF PoolInv, Held, Ages
<1>2. Held' /\ Answered'
  BY <1>1, PoolQuiet DEF PoolInv
<1> QED
  BY <1>1, <1>2, IntroducedStays DEF PoolInv

\* The thread and the session, as far as they only move the thread.
ThreadOnly == Stop \/ FallAsleep \/ Timeout \/ \E p \in Peer : Park(p) \/ Expire(p)

\* They change nothing the invariants speak of.
LEMMA ThreadOnlyFrame ==
  ASSUME ThreadOnly
  PROVE  /\ UNCHANGED <<vars, native, slots, created, leases, received, released,
                        delivery, killed>>
         /\ thread' = "made" <=> thread = "made"
         /\ thread' = "gone" => thread = "gone"
         /\ thread' = "creating" => thread = "creating"
<1>1. CASE Stop
  BY <1>1 DEF Stop, Woken, nativeVars, stockVars, requestVars
<1>2. CASE FallAsleep
  BY <1>2 DEF FallAsleep, poolVars
<1>3. CASE Timeout
  BY <1>3 DEF Timeout, poolVars
<1>4. ASSUME NEW p \in Peer, Park(p)
      PROVE  UNCHANGED <<vars, native, slots, created, leases, received, released,
                         delivery, killed, thread>>
  BY <1>4 DEF Park, stockVars, threadVars, requestVars
<1>5. ASSUME NEW p \in Peer, Expire(p)
      PROVE  UNCHANGED <<vars, native, slots, created, leases, received, released,
                         delivery, killed, thread>>
  BY <1>5 DEF Expire, nativeVars, threadVars, requestVars
<1> QED
  BY <1>1, <1>2, <1>3, <1>4, <1>5 DEF ThreadOnly

\* So they keep the invariant.
LEMMA ThreadOnlyPool ==
  ASSUME PoolInv, ThreadOnly
  PROVE  PoolInv' /\ Ages
  BY ThreadOnlyFrame, RestPool DEF vars, processVars, execVars
-----------------------------------------------------------------------------
(* The stock of fork children *)

\* No published process is ended, except with the session.
Spares == \A p \in killed' \ killed : stopping \/ ~Published(p)

\* The stock only shrinks and the thread builds nothing new.
LEMMA StockedKept ==
  ASSUME Stocked, slots' \subseteq slots, UNCHANGED <<created, templateVars>>,
         thread' = "creating" => thread = "creating",
         thread' = "made" => thread = "made"
  PROVE  Stocked'
  BY DEF Stocked, StockMatchesTemplate, templateVars

\* Leases only end, processes in leases only die, and the answers on their way
\* stay as they are.
LEMMA LeasesKept ==
  ASSUME OneLivePerTransaction, Sole,
         leases' \subseteq leases,
         \A l \in leases' : native'[l.child] = "live" => native[l.child] = "live",
         DOMAIN delivery' = DOMAIN delivery,
         \A c \in DOMAIN delivery : InReply(c)' = {} \/ delivery'[c] = delivery[c]
  PROVE  OneLivePerTransaction' /\ Sole'
<1>1. OneLivePerTransaction'
  BY DEF OneLivePerTransaction, Live
<1>2. ASSUME NEW c \in DOMAIN delivery, NEW m \in InReply(c)'
      PROVE  m \in InReply(c)
  BY <1>2 DEF InReply
<1>3. Sole'
  BY <1>2 DEF Sole, Live
<1> QED
  BY <1>1, <1>3

\* Requests end or go on for the same caller.
LEMMA ServedOn ==
  ASSUME Served, UNCHANGED clients,
         \A p \in Peer : native[p] = "dead" => native'[p] = "dead",
         DOMAIN delivery' = DOMAIN delivery,
         \A c \in DOMAIN delivery : delivery'[c] # Idle =>
            delivery[c] # Idle /\ delivery'[c].peer = delivery[c].peer
  PROVE  Served'
  BY DEF Served, Dead

\* A step of the pool alone, in which nobody new is leased.
LEMMA ForkAlone ==
  ASSUME ForkInv, PoolInv', Stocked', UNCHANGED vars,
         leases' \subseteq leases,
         \A l \in leases' : native'[l.child] = "live" => native[l.child] = "live",
         \A p \in Peer : native[p] = "dead" => native'[p] = "dead",
         DOMAIN delivery' = DOMAIN delivery,
         \A c \in DOMAIN delivery :
            \/ delivery'[c] = delivery[c]
            \/ delivery'[c] = Idle
            \/ /\ InReply(c)' = {}
               /\ delivery[c] # Idle
               /\ delivery'[c].peer = delivery[c].peer,
         DOMAIN built_for' = Pooled
  PROVE  ForkInv'
<1>1. \A c \in DOMAIN delivery : InReply(c)' = {} \/ delivery'[c] = delivery[c]
  BY DEF InReply, Idle
<1>2. OneLivePerTransaction' /\ Sole'
  BY <1>1, LeasesKept DEF ForkInv
<1>3. UNCHANGED <<clients, exited, exec_transactions>>
  BY DEF vars, connectVars, execVars, exitVars
<1>4. Served' /\ ReportsTrue'
  BY <1>3, ServedOn DEF ForkInv, ReportsTrue, Dead
<1>5. Apart'
  BY <1>3 DEF ForkInv, Apart
<1> QED
  BY <1>2, <1>4, <1>5 DEF ForkInv

\* A live child of a lease was alive before: the processes only die, and stay
\* dead.
LEMMA LeasesAge ==
  ASSUME PoolInv, Ages, leases' \subseteq leases
  PROVE  /\ \A l \in leases' : native'[l.child] = "live" => native[l.child] = "live"
         /\ \A p \in Peer : native[p] = "dead" => native'[p] = "dead"
  BY PoolAssumption DEF PoolInv, Held, Ages, Children

\* A call of the manager.
LEMMA ForkCall ==
  ASSUME ForkInv, ManagerCall, UNCHANGED templateVars, Introduced', Served',
         ReportsTrue', Apart'
  PROVE  ForkInv' /\ killed' = killed
<1>1. /\ UNCHANGED <<native, slots, leases, delivery, created, killed>>
      /\ thread' = Woken
  BY DEF ManagerCall, poolVars
<1>2. PoolInv'
  BY ManagerCallPool DEF ForkInv, PoolInv
<1>3. Stocked'
  BY <1>1, StockedKept DEF ForkInv, Woken
<1>4. OneLivePerTransaction' /\ Sole'
  BY <1>1, LeasesKept DEF ForkInv
<1>5. DOMAIN built_for' = Pooled
  BY DEF ForkInv, templateVars
<1> QED
  BY <1>1, <1>2, <1>3, <1>4, <1>5 DEF ForkInv

\* Connections stay or end with a report.
LEMMA ServedKept ==
  ASSUME Served, UNCHANGED <<delivery, native>>, ReportsTrue',
         \A c \in DOMAIN clients :
            c \in DOMAIN delivery /\ delivery[c] # Idle => SeatKept(c)
  PROVE  Served'
  BY DEF Served, SeatKept, ReportsTrue, Dead

\* The manager's part of a fork, with the execs of workers in between.
LEMMA ForkManager ==
  ASSUME IInv, ForkInv, ManagerStep \/ ExecStep
  PROVE  ForkInv' /\ killed' = killed
<1>1. ManagerCall /\ UNCHANGED templateVars /\ UNCHANGED <<received, delivery, native>>
  BY DEF ManagerStep, ExecStep, ManagerCall, poolVars
<1>2. ASSUME SeatsKept, NoReport, Introduced', Apart'
      PROVE  ForkInv' /\ killed' = killed
  <2>1. ReportsTrue'
    BY <1>1, <1>2 DEF ForkInv, ReportsTrue, NoReport, Dead
  <2>2. Served'
    BY <1>1, <1>2, <2>1, ServedKept DEF ForkInv, SeatsKept
  <2> QED
    BY <1>1, <1>2, <2>1, <2>2, ForkCall
<1>3. ASSUME OwnersSame, ExecsKept, SeatsKept, NoReport
      PROVE  ForkInv' /\ killed' = killed
  <2>1. Introduced'
    BY <1>1, <1>3, IntroducedKept DEF OwnersSame, ForkInv, PoolInv
  <2>2. Apart'
    BY <1>3 DEF ForkInv, Apart, ExecsKept
  <2> QED
    BY <1>2, <1>3, <2>1, <2>2
<1>4. ASSUME NEW peer \in Peer,
             \/ peer \notin Pooled /\ ConnectRoot(peer)
             \/ \E id \in DOMAIN transactions : AdoptChild(peer, id)
      PROVE  ForkInv' /\ killed' = killed
  <2>1. /\ ConnectRoot(peer) \/ \E id \in DOMAIN transactions : ConnectFork(peer, id)
        /\ peer \in Pooled => \E parent : <<parent, peer>> \in received
    BY <1>4 DEF AdoptChild
  <2>2. NewOwner(peer) /\ ExecsKept /\ SeatsKept /\ NoReport
    BY <2>1, ConnectWorkerEffects
  <2>3. Introduced'
    BY <1>1, <2>1, <2>2, IntroducedKept DEF NewOwner, ForkInv, PoolInv
  <2>4. Apart'
    BY <2>2 DEF ForkInv, Apart, ExecsKept
  <2> QED
    BY <1>2, <2>2, <2>3, <2>4
<1>5. ASSUME NEW c \in DOMAIN clients,
             \/ \E key \in RequestKey : PrepareFork(c, key)
             \/ MarkReady(c)
             \/ \E id \in DOMAIN transactions :
                   CommitFork(c, id) \/ AbortFork(c, id) \/ AcknowledgeFork(c, id)
      PROVE  ForkInv' /\ killed' = killed
  <2>1. ForkRequest(c)
    BY <1>5 DEF ForkRequest
  <2> QED
    BY <1>3, <2>1, ForkRequestEffects
<1>6. ASSUME NEW peer \in Peer, NEW id \in DOMAIN exec_transactions, ConnectExec(peer, id)
      PROVE  ForkInv' /\ killed' = killed
  BY <1>3, <1>6, ConnectExecEffects
<1>7. ASSUME NEW c \in DOMAIN clients,
             MarkExecReady(c) \/ \E id \in DOMAIN exec_transactions : CommitExec(c, id)
      PROVE  ForkInv' /\ killed' = killed
  BY <1>3, <1>7, ExecRequestEffects
<1>8. ASSUME NEW c \in DOMAIN clients, NEW key \in RequestKey, NEW peer \in Peer \ Pooled,
             PrepareExec(c, key, peer)
      PROVE  ForkInv' /\ killed' = killed
  <2>1. /\ OwnersSame /\ SeatsKept /\ NoReport
        /\ \A id \in DOMAIN exec_transactions' :
              \/ /\ id \in DOMAIN exec_transactions
                 /\ exec_transactions'[id] = exec_transactions[id]
              \/ exec_transactions'[id].target = peer
    BY <1>8, PrepareExecEffects
  <2>2. Introduced'
    BY <1>1, <2>1 DEF ForkInv, PoolInv, Introduced, OwnersSame
  <2>3. Apart'
    BY <2>1 DEF ForkInv, Apart
  <2> QED
    BY <1>2, <2>1, <2>2, <2>3
<1> QED
  BY <1>4, <1>5, <1>6, <1>7, <1>8 DEF ManagerStep, ExecStep

\* The processes and the session.
LEMMA ForkNatives ==
  ASSUME IInv, ExecInv, ForkInv, Natives
  PROVE  ForkInv' /\ killed' = killed
<1>1. UNCHANGED templateVars
  BY DEF Natives
<1>2. DOMAIN built_for' = Pooled
  BY <1>1 DEF ForkInv, templateVars
<1>3. ASSUME NEW peer \in Peer, Die(peer)
      PROVE  ForkInv' /\ killed' = killed
  <2>1. /\ UNCHANGED <<vars, leases, delivery, slots, created, thread, killed>>
        /\ PoolInv' /\ Ages
    BY <1>3, DiePool DEF ForkInv, Die, stockVars, threadVars, requestVars
  <2>2. Stocked'
    BY <1>1, <2>1, StockedKept DEF ForkInv
  <2> QED
    BY <1>2, <2>1, <2>2, ForkAlone, LeasesAge DEF ForkInv
<1>4. CASE ThreadOnly
  <2>1. PoolInv' /\ Ages
    BY <1>4, ThreadOnlyPool DEF ForkInv
  <2>2. /\ UNCHANGED <<vars, leases, delivery, slots, created, killed>>
        /\ thread' = "made" => thread = "made"
        /\ thread' = "creating" => thread = "creating"
    BY <1>4, ThreadOnlyFrame
  <2>3. Stocked'
    BY <1>1, <2>2, StockedKept DEF ForkInv
  <2> QED
    BY <1>2, <2>1, <2>2, <2>3, ForkAlone, LeasesAge DEF ForkInv
<1>5. ASSUME NEW peer \in Peer, ReportExit(peer)
      PROVE  ForkInv' /\ killed' = killed
  <2>1. PICK status \in Status : ProcessExited(peer, status)
    BY <1>5 DEF ReportExit
  <2>2. ManagerCall /\ Dead(peer) /\ UNCHANGED <<received, delivery, native>>
    BY <1>5 DEF ReportExit, ManagerCall, poolVars
  <2>3. /\ ExecsKept /\ SeatsKept
        /\ DOMAIN exited' = DOMAIN exited \cup {peer}
        /\ \A pid \in DOMAIN processes' :
               /\ pid \in DOMAIN processes
               /\ \/ processes'[pid].peer = processes[pid].peer
                  \/ \E id \in DOMAIN exec_transactions :
                        exec_transactions[id].target = processes'[pid].peer
    BY <2>1, ExitEffects
  <2>4. Introduced'
    BY <2>2, <2>3, IntroducedKept DEF ForkInv, PoolInv
  <2>5. Apart'
    BY <2>3 DEF ForkInv, Apart, ExecsKept
  <2>7. ReportsTrue'
    BY <2>2, <2>3 DEF ForkInv, ReportsTrue, Dead
  <2>6. Served'
    BY <2>2, <2>3, <2>7, ServedKept DEF ForkInv, SeatsKept
  <2> QED
    BY <1>1, <2>2, <2>4, <2>5, <2>6, <2>7, ForkCall
<1>6. ASSUME NEW c \in DOMAIN clients, Hangup(c)
      PROVE  ForkInv' /\ killed' = killed
  <2>1. /\ Disconnect(c) /\ ManagerCall /\ delivery[c] = Idle
        /\ UNCHANGED <<received, delivery, native>>
    BY <1>6 DEF Hangup, ManagerCall, poolVars
  <2>2. /\ OwnersSame /\ ExecsKept
        /\ NoReport
        /\ \A d \in DOMAIN clients : d # c => SeatKept(d)
    BY <2>1, DisconnectEffects
  <2>3. Introduced'
    BY <2>1, <2>2, IntroducedKept DEF ForkInv, PoolInv, OwnersSame
  <2>4. Apart'
    BY <2>2 DEF ForkInv, Apart, ExecsKept
  <2>6. ReportsTrue'
    BY <2>1, <2>2 DEF ForkInv, ReportsTrue, NoReport, Dead
  <2>5. Served'
    BY <2>1, <2>2, <2>6, ServedKept DEF ForkInv
  <2> QED
    BY <1>1, <2>1, <2>3, <2>4, <2>5, <2>6, ForkCall
<1>7. \A p \in slots : p \in Peer
  BY PoolAssumption DEF ForkInv, PoolInv, Held
<1> QED
  BY <1>3, <1>4, <1>5, <1>6, <1>7 DEF Natives, ThreadOnly

\* A pass of the pool thread lets go what has become a process.
LEMMA MaintainForksInv ==
  ASSUME ForkInv, MaintainForks
  PROVE  ForkInv' /\ Spares
<1>1. Maintain(LetGo, Kept, template # {}, Busy)
  BY DEF MaintainForks
<1>2. /\ UNCHANGED <<vars, delivery, created>>
      /\ leases' = Kept /\ slots' \subseteq slots
      /\ thread' \in {"creating", "dozing", "parking"}
  BY <1>1 DEF Maintain, Good, requestVars
<1>3. LetGo \subseteq leases /\ Kept \subseteq leases
  BY DEF LetGo, Kept
<1>4. /\ PoolInv' /\ Ages
      /\ \A p \in killed' \ killed :
            p \in slots \/ \E l \in leases \ (LetGo \cup Kept) : l.child = p
  <2> HIDE DEF LetGo, Kept, Busy
  <2> QED
    BY <1>1, <1>3, MaintainPool DEF ForkInv
<1>5. Stocked'
  <2>1. /\ UNCHANGED <<template, built_for>>
        /\ thread' = "creating" => draft' = template
    BY DEF MaintainForks
  <2> QED
    BY <1>2, <2>1 DEF ForkInv, Stocked, StockMatchesTemplate
<1>6. ForkInv'
  <2>1. DOMAIN built_for' = Pooled
    BY DEF ForkInv, MaintainForks
  <2> QED
    BY <1>2, <1>3, <1>4, <1>5, <2>1, ForkAlone, LeasesAge DEF ForkInv
<1>7. ASSUME NEW l \in leases, l \notin LetGo
      PROVE  ~Published(l.child)
  <2>1. ~\E pid \in ProcessesOf(l.child) : processes[pid].state = "Active"
    BY <1>7 DEF LetGo, NativeForkState
  <2>2. l.child \in Pooled
    BY DEF ForkInv, PoolInv, Held, Children
  <2> QED
    BY <2>1, <2>2 DEF Published, ReservedFor, ForkInv, Apart
<1>8. Spares
  BY <1>4, <1>7, UnheardStock DEF Spares, ForkInv
<1> QED
  BY <1>6, <1>8

\* A child is built for the template the thread took with it.
LEMMA CreateChildInv ==
  ASSUME ForkInv, CreateChild
  PROVE  ForkInv' /\ killed' = killed
<1>1. Create
  BY DEF CreateChild
<1>2. /\ UNCHANGED <<vars, delivery, slots, leases, killed, template, draft, current>>
      /\ thread = "creating"
      /\ built_for' = [p \in Pooled |-> IF p \in created' THEN draft ELSE built_for[p]]
  BY DEF CreateChild, Create, stockVars, requestVars
<1>3. /\ PoolInv'
      /\ \A p \in Peer : native'[p] # native[p] => native[p] = "unborn"
  BY <1>1, CreatePool DEF ForkInv
<1>4. Stocked'
  <2>1. created' \subseteq Pooled /\ slots \subseteq Pooled
    BY <1>3 DEF PoolInv, Held, ForkInv
  <2>2. created' \cap slots = {}
    BY <1>2, <1>3 DEF PoolInv, Held, EveryProcessHeld
  <2>3. thread' # "creating"
    BY <1>1 DEF Create
  <2> QED
    BY <1>2, <2>1, <2>2, <2>3 DEF ForkInv, Stocked, StockMatchesTemplate
<1>5. \A l \in leases' : native'[l.child] = "live" => native[l.child] = "live"
  BY <1>2, <1>3, PoolAssumption DEF ForkInv, PoolInv, Held, Children
<1>6. \A p \in Peer : native[p] = "dead" => native'[p] = "dead"
  BY <1>3
<1> QED
  BY <1>2, <1>3, <1>4, <1>5, <1>6, ForkAlone

\* It joins the stock only if the template is still that one.
LEMMA PublishChildInv ==
  ASSUME ForkInv, PublishChild
  PROVE  ForkInv' /\ Spares
<1> DEFINE wanted == current /\ Cardinality(slots) < STOCK
<1>1. Publish(wanted) /\ UNCHANGED templateVars
  BY DEF PublishChild
<1>2. /\ UNCHANGED <<vars, delivery, leases>>
      /\ thread = "made" /\ thread' = "top"
      /\ slots' = slots \/ (slots' = slots \cup created /\ current)
  BY <1>1 DEF Publish, requestVars
<1>3. PoolInv' /\ Ages /\ \A p \in killed' \ killed : p \in created
  <2> HIDE DEF wanted
  <2> QED
    BY <1>1, PublishPool DEF ForkInv
<1>4. Stocked'
  BY <1>1, <1>2 DEF ForkInv, Stocked, StockMatchesTemplate, templateVars
<1>5. ForkInv'
  <2>1. DOMAIN built_for' = Pooled
    BY <1>1 DEF ForkInv, templateVars
  <2> QED
    BY <1>2, <1>3, <1>4, <2>1, ForkAlone, LeasesAge DEF ForkInv
<1>6. Spares
  BY <1>3, UnheardStock DEF Spares, ForkInv
<1> QED
  BY <1>5, <1>6

\* The pool thread.
LEMMA ForkThread ==
  ASSUME ForkInv, PoolThread
  PROVE  ForkInv' /\ Spares
<1>1. CASE Finish /\ UNCHANGED templateVars
  <2>1. /\ UNCHANGED <<vars, delivery, created>>
        /\ leases' = {} /\ slots' = {} /\ thread' = "gone" /\ stopping
    BY <1>1 DEF Finish, requestVars
  <2>2. PoolInv' /\ Ages
    BY <1>1, FinishPool DEF ForkInv
  <2>3. Stocked'
    BY <1>1, <2>1, StockedKept DEF ForkInv
  <2>4. DOMAIN built_for' = Pooled
    BY <1>1 DEF ForkInv, templateVars
  <2>5. ForkInv'
    BY <2>1, <2>2, <2>3, <2>4, ForkAlone, LeasesAge DEF ForkInv
  <2> QED
    BY <2>1, <2>5 DEF Spares
<1>2. CASE (FallAsleep \/ Timeout) /\ UNCHANGED templateVars
  <2>0. ThreadOnly
    BY <1>2 DEF ThreadOnly
  <2>1. PoolInv' /\ Ages
    BY <2>0, ThreadOnlyPool DEF ForkInv
  <2>2. /\ UNCHANGED <<vars, leases, delivery, slots, created, killed>>
        /\ thread' = "made" => thread = "made"
        /\ thread' = "creating" => thread = "creating"
    BY <2>0, ThreadOnlyFrame
  <2>3. Stocked'
    BY <1>2, <2>2, StockedKept DEF ForkInv
  <2>4. DOMAIN built_for' = Pooled
    BY <1>2 DEF ForkInv, templateVars
  <2>5. ForkInv'
    BY <2>1, <2>2, <2>3, <2>4, ForkAlone, LeasesAge DEF ForkInv
  <2> QED
    BY <2>2, <2>5 DEF Spares
<1>3. CASE CreateChild
  BY <1>3, CreateChildInv DEF Spares
<1> QED
  BY <1>1, <1>2, <1>3, MaintainForksInv, PublishChildInv DEF PoolThread

\* A worker asks for a child.
LEMMA RequestForkInv ==
  ASSUME IInv, ExecInv, ForkInv, NEW c \in DOMAIN clients,
         NEW id \in DOMAIN transactions, NEW spec, RequestFork(c, id, spec)
  PROVE  ForkInv' /\ killed' = killed
<1> DEFINE new == [step |-> "take", peer |-> clients[c].peer, transaction |-> id,
                   spec |-> spec]
<1>1. /\ delivery[c] = Idle
      /\ delivery' = [delivery EXCEPT ![c] = new]
      /\ UNCHANGED <<vars, native, killed, released, slots, leases, thread, created,
                     received, templateVars>>
      /\ clients[c].kind = "Worker"
      /\ clients[c].peer \in Peer
  BY DEF RequestFork, Free, OwnedFork, OwnsProcess, ActiveWorker, nativeVars, stockVars,
         threadVars, ForkInv, PoolInv, Introduced
<1>2. new.step = "take" /\ new.peer = clients[c].peer
  OBVIOUS
<1> HIDE DEF new
<1>3. /\ DOMAIN delivery' = DOMAIN delivery
      /\ \A d \in DOMAIN delivery :
            delivery'[d] = IF d = c THEN new ELSE delivery[d]
  BY <1>1
<1>4. \A d \in DOMAIN delivery : InReply(d)' = {} \/ delivery'[d] = delivery[d]
  BY <1>2, <1>3 DEF InReply
<1>5. PoolInv' /\ Ages
  BY <1>1, <1>3, <1>4, RestPool DEF ForkInv, vars, processVars, execVars
<1>6. Stocked'
  BY <1>1, StockedKept DEF ForkInv
<1>7. OneLivePerTransaction' /\ Sole'
  BY <1>1, <1>3, <1>4, LeasesKept DEF ForkInv
<1>8. UNCHANGED <<clients, exited, exec_transactions>>
  BY <1>1 DEF vars, connectVars, execVars, exitVars
<1>9. \A d \in DOMAIN delivery :
         (delivery[d] # Idle /\ delivery[d].peer = clients[c].peer) =>
            d = c \/ Dead(clients[c].peer)
  BY <1>1 DEF ForkInv, Served, IInv, Seats, Control
<1>10. Served' /\ ReportsTrue'
  BY <1>1, <1>2, <1>3, <1>8, <1>9 DEF ForkInv, Served, ReportsTrue, Control, Dead
<1>11. Apart' /\ DOMAIN built_for' = Pooled
  BY <1>1, <1>8 DEF ForkInv, Apart, templateVars
<1> QED
  BY <1>1, <1>5, <1>6, <1>7, <1>10, <1>11 DEF ForkInv

\* A request is answered without a process, and some of the stock is ended.
LEMMA AnswerNobody ==
  ASSUME ForkInv, NEW c \in DOMAIN delivery, NEW stock, stock \subseteq slots,
         delivery[c].step = "take",
         delivery' = [delivery EXCEPT ![c] = Answer(c, {})],
         slots' = slots \ stock, Terminated(stock),
         Stocked', DOMAIN built_for' = Pooled,
         UNCHANGED <<vars, leases, created, received, released, thread>>
  PROVE  ForkInv' /\ Spares
<1>1. /\ DOMAIN delivery' = DOMAIN delivery
      /\ \A d \in DOMAIN delivery : d # c => delivery'[d] = delivery[d]
      /\ delivery'[c].step = "reply"
      /\ delivery'[c].peer = delivery[c].peer
      /\ delivery'[c].lease = {}
      /\ delivery[c] # Idle
  BY DEF Answer, Idle
<1>2. InReply(c)' = {}
  BY <1>1 DEF InReply
<1> DEFINE gone == {}
<1>3. /\ gone \subseteq leases /\ leases' = leases \ gone
      /\ stock \cup {l.child : l \in gone} = stock
      /\ \A l \in gone : FALSE
  OBVIOUS
<1> HIDE DEF gone
<1>4. UNCHANGED <<processes, exec_transactions>>
  BY DEF vars, processVars, execVars
<1>5. /\ PoolInv' /\ Ages
      /\ \A p \in killed' \ killed : p \in stock \/ \E l \in gone : l.child = p
  BY <1>1, <1>2, <1>3, <1>4, DropPool DEF ForkInv
<1>6. ForkInv'
  BY <1>1, <1>2, <1>5, ForkAlone, LeasesAge DEF ForkInv
<1>7. Spares
  BY <1>3, <1>5, UnheardStock DEF Spares, ForkInv
<1> QED
  BY <1>6, <1>7

\* Nothing is ended with an empty set.
LEMMA NothingTerminated ==
  ASSUME Held, UNCHANGED <<native, killed>>, NEW none, none = {}
  PROVE  Terminated(none)
  BY DEF Held, Terminated

\* Pool::take answers None or an error.
LEMMA MissInv ==
  ASSUME ForkInv, NEW c \in DOMAIN delivery, delivery[c].step = "take", Miss(c),
         UNCHANGED <<vars, created, received, released, thread, templateVars>>
  PROVE  ForkInv' /\ Spares
<1> DEFINE none == {}
<1>1. none \subseteq slots /\ slots' = slots \ none /\ none = {}
  BY DEF Miss
<1> HIDE DEF none
<1>2. Terminated(none)
  BY <1>1, NothingTerminated DEF Miss, ForkInv, PoolInv
<1>3. Stocked'
  BY StockedKept DEF ForkInv, Miss
<1>4. DOMAIN built_for' = Pooled
  BY DEF ForkInv, templateVars
<1> QED
  BY <1>1, <1>2, <1>3, <1>4, AnswerNobody DEF Miss

\* A fork that has no live child gets one.
LEMMA TakeInv ==
  ASSUME ForkInv, NEW c \in DOMAIN delivery, TakeFromStock(c)
  PROVE  ForkInv' /\ Spares
<1> DEFINE d == delivery[c]
<1>1. /\ d.step = "take"
      /\ UNCHANGED <<vars, created, received, released, thread, templateVars>>
  BY DEF TakeFromStock, threadVars
<1>2. UNCHANGED <<processes, exec_transactions, clients, exited>>
  BY <1>1 DEF vars, processVars, execVars, connectVars, exitVars
<1>3. DOMAIN built_for' = Pooled
  BY <1>1 DEF ForkInv, templateVars
<1>4. ASSUME NEW p \in slots, CanTake(d.transaction),
             Lease(c, [transaction |-> d.transaction, parent |-> d.peer, child |-> p])
      PROVE  ForkInv' /\ Spares
  <2> DEFINE lease == [transaction |-> d.transaction, parent |-> d.peer, child |-> p]
  <2>1. Lease(c, lease)
    BY <1>4
  <2>2. /\ lease.transaction = d.transaction
        /\ lease.parent = d.peer
        /\ lease.child = p
    OBVIOUS
  <2> HIDE DEF lease, d
  <2>3. slots' = slots \ {p}
    BY <2>1, <2>2 DEF Lease
  <2>4. Stocked'
    BY <1>1, <2>3, StockedKept DEF ForkInv
  <2>5. CASE /\ Terminated({lease.child})
             /\ delivery' = [delivery EXCEPT ![c] = Answer(c, {})]
             /\ UNCHANGED leases
    <3> DEFINE stock == {p}
    <3>1. stock \subseteq slots /\ slots' = slots \ stock /\ Terminated(stock)
      BY <2>2, <2>3, <2>5
    <3> HIDE DEF stock
    <3> QED
      BY <1>1, <1>3, <2>4, <2>5, <3>1, AnswerNobody DEF d
  <2>6. CASE /\ leases' = leases \cup {lease}
             /\ delivery' = [delivery EXCEPT ![c] = Answer(c, {lease})]
             /\ UNCHANGED <<native, killed>>
             /\ Live(lease.parent)
    <3>1. PoolInv'
      BY <1>1, <1>2, <1>4, <2>2, <2>3, <2>6, LeasePool DEF ForkInv, d
    <3>2. /\ DOMAIN delivery' = DOMAIN delivery
          /\ \A e \in DOMAIN delivery : e # c => delivery'[e] = delivery[e]
          /\ delivery'[c].step = "reply"
          /\ delivery'[c].peer = d.peer
          /\ delivery'[c].lease = {lease}
          /\ d # Idle
      BY <1>1, <2>6 DEF Answer, Idle, d
    <3>3. /\ InReply(c)' = {lease}
          /\ \A e \in DOMAIN delivery : e # c => InReply(e)' = InReply(e)
      BY <3>2 DEF InReply
    <3>4. \A l \in leases : l.transaction = lease.transaction => ~Live(l.child)
      BY <1>4, <2>2 DEF CanTake
    <3>5. OneLivePerTransaction'
      BY <2>6, <3>4 DEF ForkInv, OneLivePerTransaction, Live
    <3>6. ASSUME NEW e \in DOMAIN delivery, e # c, NEW m \in InReply(e)
          PROVE  m.parent # lease.parent
      <4>1. m.parent = delivery[e].peer
        BY <3>6 DEF ForkInv, PoolInv, Answered
      <4>2. delivery[e] # Idle
        BY <3>6 DEF InReply, Idle
      <4> QED
        BY <2>2, <2>6, <3>2, <3>6, <4>1, <4>2 DEF ForkInv, Served, Live, Dead, d
    <3>7. ASSUME NEW e \in DOMAIN delivery', NEW m \in InReply(e)', NEW l \in leases',
                 l.parent = m.parent, l.transaction = m.transaction, Live(l.child)'
          PROVE  l.child = m.child
      <4>1. CASE e = c
        BY <2>6, <3>3, <3>4, <3>7, <4>1 DEF Live
      <4>2. CASE e # c
        BY <2>6, <3>2, <3>3, <3>6, <3>7, <4>2 DEF ForkInv, Sole, Live
      <4> QED
        BY <4>1, <4>2
    <3>8. Sole'
      BY <3>7 DEF Sole
    <3>9. Served' /\ ReportsTrue'
      BY <1>2, <2>6, <3>2, ServedOn DEF ForkInv, ReportsTrue, Dead, d
    <3>10. Apart'
      BY <1>2 DEF ForkInv, Apart
    <3> QED
      BY <1>3, <2>4, <2>6, <3>1, <3>5, <3>8, <3>9, <3>10 DEF ForkInv, Spares
  <2> QED
    BY <2>1, <2>5, <2>6 DEF Lease
<1>5. CASE Miss(c)
  BY <1>1, <1>5, MissInv
<1> QED
  BY <1>4, <1>5 DEF TakeFromStock

\* The stock of an old template is ended.
LEMMA ReplaceInv ==
  ASSUME ForkInv, NEW c \in DOMAIN delivery, ReplaceTemplate(c)
  PROVE  ForkInv' /\ Spares
<1>1. /\ delivery[c].step = "take"
      /\ UNCHANGED <<vars, created, received, released, thread, draft, built_for>>
  BY DEF ReplaceTemplate, threadVars
<1>2. CASE /\ current' = FALSE
           /\ slots' = {}
           /\ Terminated(slots)
           /\ delivery' = [delivery EXCEPT ![c] = Answer(c, {})]
           /\ UNCHANGED leases
  <2>1. Stocked'
    BY <1>2 DEF Stocked, StockMatchesTemplate
  <2>2. DOMAIN built_for' = Pooled
    BY <1>1 DEF ForkInv
  <2>3. slots \subseteq slots /\ slots' = slots \ slots
    BY <1>2
  <2> QED
    BY <1>1, <1>2, <2>1, <2>2, <2>3, AnswerNobody
<1>3. CASE Miss(c) /\ UNCHANGED <<template, current>>
  BY <1>1, <1>3, MissInv DEF templateVars
<1> QED
  BY <1>2, <1>3 DEF ReplaceTemplate

\* An answer that cannot be written ends the child it names, and no other one
\* that lives.
LEMMA FailedReplyInv ==
  ASSUME ForkInv, NEW c \in DOMAIN delivery, FailedForkReply(c)
  PROVE  ForkInv' /\ Spares
<1> DEFINE gone == {l \in leases : \E m \in delivery[c].lease :
                       l.parent = m.parent /\ l.transaction = m.transaction}
           none == {}
<1>1. /\ delivery[c].step = "reply"
      /\ leases' = leases \ gone
      /\ Terminated({l.child : l \in gone})
      /\ thread' = Woken
      /\ delivery' = [delivery EXCEPT ![c] = Idle]
      /\ UNCHANGED <<vars, slots, created, received, released, templateVars>>
  BY DEF FailedForkReply
<1>2. /\ gone \subseteq leases
      /\ \A l \in gone : \E m \in InReply(c) :
            l.parent = m.parent /\ l.transaction = m.transaction
  BY <1>1 DEF InReply
<1>3. /\ none \subseteq slots /\ slots' = slots \ none
      /\ none \cup {l.child : l \in gone} = {l.child : l \in gone}
      /\ \A p \in none : FALSE
  BY <1>1
<1> HIDE DEF gone, none
<1>4. /\ DOMAIN delivery' = DOMAIN delivery
      /\ \A d \in DOMAIN delivery : d # c => delivery'[d] = delivery[d]
      /\ delivery'[c] = Idle
      /\ InReply(c)' = {}
  BY <1>1 DEF InReply, Idle
<1>5. /\ thread' = "made" <=> thread = "made"
      /\ thread' = "gone" => thread = "gone"
      /\ thread' = "creating" => thread = "creating"
  BY <1>1 DEF Woken
<1>6. UNCHANGED <<processes, exec_transactions>>
  BY <1>1 DEF vars, processVars, execVars
<1>7. /\ PoolInv' /\ Ages
      /\ \A p \in killed' \ killed :
            (p \in none \/ \E l \in gone : l.child = p) /\ Live(p)
  BY <1>1, <1>2, <1>3, <1>4, <1>5, <1>6, DropPool DEF ForkInv
<1>8. Stocked'
  BY <1>1, <1>5, StockedKept DEF ForkInv
<1>9. DOMAIN built_for' = Pooled
  BY <1>1 DEF ForkInv, templateVars
<1>10. ForkInv'
  BY <1>1, <1>4, <1>7, <1>8, <1>9, ForkAlone, LeasesAge DEF ForkInv
<1>11. Spares
  <2> SUFFICES ASSUME NEW p \in killed' \ killed
               PROVE  ~Published(p)
    BY DEF Spares
  <2>1. PICK l \in gone : l.child = p /\ Live(p)
    BY <1>3, <1>7
  <2>2. PICK m \in InReply(c) : l.parent = m.parent /\ l.transaction = m.transaction
    BY <1>2
  <2>3. p = m.child
    BY <1>2, <2>1, <2>2 DEF ForkInv, Sole
  <2> QED
    BY <2>3, UnheardReply DEF ForkInv
<1> QED
  BY <1>10, <1>11

\* The answer arrives.
LEMMA ForkReplyInv ==
  ASSUME ForkInv, NEW c \in DOMAIN delivery, Reply(c), UNCHANGED templateVars
  PROVE  ForkInv' /\ killed' = killed
<1>1. /\ delivery' = [delivery EXCEPT ![c] = Idle]
      /\ UNCHANGED <<vars, slots, leases, created, killed>>
      /\ thread' = Woken
  BY DEF Reply, nativeVars, stockVars
<1>2. PoolInv' /\ Ages
  BY ReplyPool DEF ForkInv
<1>3. Stocked'
  BY <1>1, StockedKept DEF ForkInv, Woken
<1>4. DOMAIN built_for' = Pooled
  BY DEF ForkInv, templateVars
<1> QED
  BY <1>1, <1>2, <1>3, <1>4, ForkAlone, LeasesAge DEF ForkInv

\* Every step.
LEMMA ForkPoolStep ==
  ASSUME IInv, ExecInv, ForkInv, [ForkNext \/ ExecStep]_forkAllVars
  PROVE  ForkInv' /\ Spares
<1>1. CASE ManagerStep \/ ExecStep
  BY <1>1, ForkManager DEF Spares
<1>2. ASSUME NEW c \in DOMAIN clients, NEW id \in DOMAIN transactions,
             NEW spec \in ModuleSpec, RequestFork(c, id, spec)
      PROVE  ForkInv' /\ Spares
  BY <1>2, RequestForkInv DEF Spares
<1>3. ASSUME NEW c \in 1..LAST_CLIENT, Serving(c)
      PROVE  ForkInv' /\ Spares
  <2>1. c \in DOMAIN delivery
    BY DEF ForkInv, PoolInv, Answered
  <2>2. CASE Reply(c) /\ UNCHANGED templateVars
    BY <2>1, <2>2, ForkReplyInv DEF Spares
  <2> QED
    BY <1>3, <2>1, <2>2, TakeInv, ReplaceInv, FailedReplyInv DEF Serving
<1>4. CASE PoolThread
  BY <1>4, ForkThread
<1>5. CASE Natives
  BY <1>5, ForkNatives DEF Spares
<1>6. CASE UNCHANGED forkAllVars
  <2>1. /\ UNCHANGED <<vars, native, slots, created, leases, received, released, delivery,
                       killed, thread, templateVars>>
    BY <1>6 DEF forkAllVars, allVars, poolVars
  <2>2. PoolInv' /\ Ages
    BY <2>1, RestPool DEF ForkInv, vars, processVars, execVars
  <2>3. Stocked'
    BY <2>1, StockedKept DEF ForkInv
  <2>4. DOMAIN built_for' = Pooled
    BY <2>1 DEF ForkInv, templateVars
  <2>5. ForkInv'
    BY <2>1, <2>2, <2>3, <2>4, ForkAlone, LeasesAge DEF ForkInv
  <2> QED
    BY <2>1, <2>5 DEF Spares
<1> QED
  BY <1>1, <1>2, <1>3, <1>4, <1>5, <1>6 DEF ForkNext

\* Every step is one of the manager's or leaves it alone.
LEMMA ForkIsNext ==
  ASSUME PoolInv, [ForkNext \/ ExecStep]_forkAllVars
  PROVE  [Next]_vars
<1>1. CASE ManagerStep \/ ExecStep
  BY <1>1 DEF ManagerStep, ExecStep, AdoptChild, Next, Connect, ForkRequest, ExecRequest
<1>2. CASE Natives
  BY <1>2 DEF Natives, ReportExit, Hangup, Die, Park, Expire, Stop, Next, Transport
<1>3. CASE PoolThread
  BY <1>3 DEF PoolThread, MaintainForks, Maintain, CreateChild, Create, PublishChild,
     Publish, Finish, FallAsleep, Timeout
<1>4. ASSUME NEW c, Serving(c)
      PROVE  UNCHANGED vars
  BY <1>4 DEF Serving, TakeFromStock, ReplaceTemplate, Reply, FailedForkReply
<1>5. CASE UNCHANGED forkAllVars
  BY <1>5 DEF forkAllVars, allVars
<1> QED
  BY <1>1, <1>2, <1>3, <1>4, <1>5 DEF ForkNext, RequestFork

\* A new pool.
LEMMA InitForkInv == ForkPoolInit => IInv /\ ExecInv /\ ForkInv
<1> SUFFICES ASSUME ForkPoolInit
             PROVE  IInv /\ ExecInv /\ ForkInv
  OBVIOUS
<1>1. PoolInit /\ Init
  BY DEF ForkPoolInit, PoolInit
<1>2. /\ DOMAIN delivery = 1..LAST_CLIENT
      /\ \A c \in DOMAIN delivery : delivery[c] = Idle /\ InReply(c) = {}
      /\ leases = {} /\ slots = {} /\ created = {} /\ received = {} /\ thread = "top"
      /\ DOMAIN processes = {} /\ DOMAIN exec_transactions = {}
      /\ Children = {}
  BY <1>1 DEF PoolInit, Init, EmptyMap, InReply, Idle, Nobody, Children
<1>3. Held
  BY <1>1, <1>2, PoolAssumption DEF PoolInit, Held, EveryProcessHeld, Live
<1>4. Answered /\ Introduced
  BY <1>2 DEF Answered, Introduced
<1>5. OneLivePerTransaction /\ Served /\ ReportsTrue /\ Sole /\ Apart
  BY <1>1, <1>2 DEF OneLivePerTransaction, Served, ReportsTrue, Sole, Apart, Init, EmptyMap
<1>6. Stocked /\ DOMAIN built_for = Pooled
  BY <1>2 DEF ForkPoolInit, Stocked, StockMatchesTemplate
<1> QED
  BY <1>1, <1>3, <1>4, <1>5, <1>6, InitIInv, InitExecInv DEF ForkInv, PoolInv

\* With any number of processes, callers and templates, and with workers that
\* exec while their forks are pending: no child gets away from the pool, none
\* is held twice, and a fork that is asked for again has one child alive
\* (take, reap_leases, cancel_delivery and the pool thread together).
THEOREM CustodyCorrect == ForkExecSpec => []Custody
<1>1. IInv /\ ExecInv /\ ForkInv /\ [ForkNext \/ ExecStep]_forkAllVars =>
         (IInv /\ ExecInv /\ ForkInv)'
  BY ForkIsNext, NextStep, ExecInvStep, ForkPoolStep DEF ForkInv
<1>2. ForkInv => Custody
  BY DEF ForkInv, PoolInv, Held, Custody
<1> QED
  BY <1>1, <1>2, InitForkInv, PTL DEF ForkExecSpec

\* Nobody is given a child that was built for the native modules of somebody
\* else, although a caller can replace the template while the pool thread, which
\* holds no mutex then, creates a process for the old one.
THEOREM TemplateCorrect == ForkExecSpec => []StockMatchesTemplate
<1>1. IInv /\ ExecInv /\ ForkInv /\ [ForkNext \/ ExecStep]_forkAllVars =>
         (IInv /\ ExecInv /\ ForkInv)'
  BY ForkIsNext, NextStep, ExecInvStep, ForkPoolStep DEF ForkInv
<1>2. ForkInv => StockMatchesTemplate
  BY DEF ForkInv, Stocked
<1> QED
  BY <1>1, <1>2, InitForkInv, PTL DEF ForkExecSpec

\* The pool never ends a child whose fork has been committed, whatever the
\* order of the commit, its acknowledgement, the death of the parent, a reply
\* that cannot be written and the passes of the pool thread.
THEOREM CommittedForksSurvive == ForkExecSpec => PublishedSurvives
<1>1. IInv /\ ExecInv /\ ForkInv /\ [ForkNext \/ ExecStep]_forkAllVars =>
         (IInv /\ ExecInv /\ ForkInv)'
  BY ForkIsNext, NextStep, ExecInvStep, ForkPoolStep DEF ForkInv
<1>2. IInv /\ ExecInv /\ ForkInv /\ [ForkNext \/ ExecStep]_forkAllVars =>
         [\A p \in killed' \ killed : stopping \/ ~Published(p)]_allVars
  BY ForkPoolStep DEF Spares
<1> QED
  BY <1>1, <1>2, InitForkInv, PTL DEF ForkExecSpec, PublishedSurvives

\* Beside the pool of children the manager behaves as it does by itself: every
\* child the pool creates, names, hands out or ends reaches the manager only as
\* a request, a connection, a lost connection or a death.
THEOREM ForkPoolIsManager == ForkExecSpec => Spec
<1>1. IInv /\ ExecInv /\ ForkInv /\ [ForkNext \/ ExecStep]_forkAllVars =>
         (IInv /\ ExecInv /\ ForkInv)' /\ [Next]_vars
  BY ForkIsNext, NextStep, ExecInvStep, ForkPoolStep DEF ForkInv
<1>2. ForkPoolInit => Init
  BY DEF ForkPoolInit, PoolInit
<1> QED
  BY <1>1, <1>2, InitForkInv, PTL DEF ForkExecSpec, Spec
-----------------------------------------------------------------------------
(* The stock of exec replacements *)

\* Nor is the replacement of a running exec ended while the old image lives.
SparesReserved ==
    \A p \in killed' \ killed :
        stopping \/ \A id \in ReservedFor(p) \cap PendingExecs :
                        Dead(exec_transactions[id].owner_peer)

\* Nobody is ended whom the manager has heard of.
LEMMA SparesUnheard ==
  ASSUME \A p \in killed' \ killed : ~Published(p) /\ ReservedFor(p) = {}
  PROVE  Spares /\ SparesReserved
  BY DEF Spares, SparesReserved

\* Requests and leases end, or go on for the same caller.
LEMMA CallersKept ==
  ASSUME Callers, leases' \subseteq leases,
         \A p \in Peer : native[p] # "unborn" => native'[p] # "unborn",
         DOMAIN delivery' = DOMAIN delivery,
         \A c \in DOMAIN delivery :
            \/ delivery'[c] = delivery[c]
            \/ delivery'[c] = Idle
            \/ delivery[c] # Idle /\ delivery'[c].peer = delivery[c].peer
  PROVE  Callers'
  BY DEF Callers

\* In particular when the processes only die.
LEMMA CallersAge ==
  ASSUME Callers, Ages, leases' \subseteq leases,
         DOMAIN delivery' = DOMAIN delivery,
         \A c \in DOMAIN delivery :
            \/ delivery'[c] = delivery[c]
            \/ delivery'[c] = Idle
            \/ delivery[c] # Idle /\ delivery'[c].peer = delivery[c].peer
  PROVE  Callers'
  BY CallersKept DEF Ages

\* A call of the manager.
LEMMA ExecCall ==
  ASSUME ExecPoolInv, ManagerCall, Introduced'
  PROVE  ExecPoolInv' /\ killed' = killed
<1>1. UNCHANGED <<native, leases, delivery, killed>>
  BY DEF ManagerCall, poolVars
<1>2. PoolInv'
  BY ManagerCallPool DEF ExecPoolInv, PoolInv
<1>3. Callers'
  BY <1>1 DEF ExecPoolInv, Callers
<1> QED
  BY <1>1, <1>2, <1>3 DEF ExecPoolInv

\* The manager's part of an exec.
LEMMA ExecManager ==
  ASSUME IInv, ExecPoolInv, ExecManagerStep
  PROVE  ExecPoolInv' /\ killed' = killed
<1>1. ManagerCall /\ UNCHANGED received
  BY DEF ExecManagerStep, NameReplacement, ManagerCall, poolVars
<1>2. ASSUME OwnersSame, ExecsKept
      PROVE  ExecPoolInv' /\ killed' = killed
  <2>1. Introduced'
    BY <1>1, <1>2, IntroducedKept DEF OwnersSame, ExecPoolInv, PoolInv
  <2> QED
    BY <1>1, <2>1, ExecCall
<1>3. ASSUME NEW peer \in Peer, peer \notin Pooled, ConnectRoot(peer)
      PROVE  ExecPoolInv' /\ killed' = killed
  <2>1. NewOwner(peer) /\ ExecsKept
    BY <1>3, ConnectWorkerEffects
  <2>2. Introduced'
    BY <1>1, <1>3, <2>1, IntroducedKept DEF NewOwner, ExecPoolInv, PoolInv
  <2> QED
    BY <1>1, <2>2, ExecCall
<1>4. ASSUME NEW peer \in Peer, NEW id \in DOMAIN exec_transactions, ConnectExec(peer, id)
      PROVE  ExecPoolInv' /\ killed' = killed
  BY <1>2, <1>4, ConnectExecEffects
<1>5. ASSUME NEW c \in DOMAIN clients,
             \/ MarkExecReady(c)
             \/ \E id \in DOMAIN exec_transactions :
                   CommitExec(c, id) \/ AbortExec(c, id) \/ AcknowledgeExec(c, id)
      PROVE  ExecPoolInv' /\ killed' = killed
  BY <1>2, <1>5, ExecRequestEffects
<1>6. ASSUME NEW c \in DOMAIN clients, NEW key \in RequestKey, NEW peer \in Pooled,
             NameReplacement(c, key, peer)
      PROVE  ExecPoolInv' /\ killed' = killed
  <2>1. <<clients[c].peer, peer>> \in received /\ peer \in Peer
        /\ PrepareExec(c, key, peer)
    BY <1>6, PoolAssumption DEF NameReplacement
  <2>2. /\ OwnersSame
        /\ \A id \in DOMAIN exec_transactions' :
              \/ /\ id \in DOMAIN exec_transactions
                 /\ exec_transactions'[id] = exec_transactions[id]
              \/ /\ exec_transactions'[id].target = peer
                 /\ exec_transactions'[id].owner_peer = clients[c].peer
    BY <2>1, PrepareExecEffects
  <2>3. Introduced'
    BY <1>1, <2>1, <2>2 DEF ExecPoolInv, PoolInv, Introduced, OwnersSame
  <2> QED
    BY <1>1, <2>3, ExecCall
<1> QED
  BY <1>3, <1>4, <1>5, <1>6 DEF ExecManagerStep

\* The processes, the connections and the session.
LEMMA ExecNativesInv ==
  ASSUME IInv, ExecInv, ExecPoolInv,
         ExecNatives \/ Stop \/ \E c \in DOMAIN clients : Hangup(c)
  PROVE  ExecPoolInv' /\ killed' = killed
<1>1. ASSUME NEW peer \in Peer, Die(peer)
      PROVE  ExecPoolInv' /\ killed' = killed
  <2>1. UNCHANGED <<leases, delivery, killed>> /\ PoolInv' /\ Ages
    BY <1>1, DiePool DEF ExecPoolInv, Die, stockVars, requestVars
  <2> QED
    BY <2>1, CallersAge DEF ExecPoolInv
<1>2. CASE ThreadOnly
  <2>1. UNCHANGED <<leases, delivery, killed>> /\ PoolInv' /\ Ages
    BY <1>2, ThreadOnlyPool, ThreadOnlyFrame DEF ExecPoolInv
  <2> QED
    BY <2>1, CallersAge DEF ExecPoolInv
<1>3. ASSUME NEW peer \in Peer, ReportExit(peer)
      PROVE  ExecPoolInv' /\ killed' = killed
  <2>1. PICK status \in Status : ProcessExited(peer, status)
    BY <1>3 DEF ReportExit
  <2>2. ManagerCall /\ UNCHANGED received
    BY <1>3 DEF ReportExit, ManagerCall, poolVars
  <2>3. /\ ExecsKept
        /\ \A pid \in DOMAIN processes' :
               /\ pid \in DOMAIN processes
               /\ \/ processes'[pid].peer = processes[pid].peer
                  \/ \E id \in DOMAIN exec_transactions :
                        exec_transactions[id].target = processes'[pid].peer
    BY <2>1, ExitEffects
  <2>4. Introduced'
    BY <2>2, <2>3, IntroducedKept DEF ExecPoolInv, PoolInv
  <2> QED
    BY <2>2, <2>4, ExecCall
<1>4. ASSUME NEW c \in DOMAIN clients, Hangup(c)
      PROVE  ExecPoolInv' /\ killed' = killed
  <2>1. Disconnect(c) /\ ManagerCall /\ UNCHANGED received
    BY <1>4 DEF Hangup, ManagerCall, poolVars
  <2>2. OwnersSame /\ ExecsKept
    BY <2>1, DisconnectEffects
  <2>3. Introduced'
    BY <2>1, <2>2, IntroducedKept DEF ExecPoolInv, PoolInv, OwnersSame
  <2> QED
    BY <2>1, <2>3, ExecCall
<1> QED
  BY <1>1, <1>2, <1>3, <1>4 DEF ExecNatives, ThreadOnly

\* The lease of a process that the manager knows is the one of the exec that
\* named it.
LEMMA LeaseOfExec ==
  ASSUME PoolInv, NEW l \in leases, NEW id \in ReservedFor(l.child)
  PROVE  exec_transactions[id].owner_peer = l.parent
<1>1. l.child \in Pooled
  BY DEF PoolInv, Held, Children
<1>2. /\ id \in DOMAIN exec_transactions
      /\ exec_transactions[id].target = l.child
  BY DEF ReservedFor
<1>3. <<exec_transactions[id].owner_peer, l.child>> \in received
  BY <1>1, <1>2 DEF PoolInv, Introduced
<1> QED
  BY <1>3 DEF PoolInv, Answered

\* A pass of the pool thread lets go what a commit has published, and keeps
\* what a running exec has reserved while both images live.
LEMMA MaintainExecsInv ==
  ASSUME IInv, ExecPoolInv, MaintainExecs
  PROVE  ExecPoolInv' /\ Spares /\ SparesReserved
<1>1. Maintain(LetGoExecs, KeptExecs, TRUE, ExecBusy)
  BY DEF MaintainExecs
<1>2. UNCHANGED delivery /\ leases' = KeptExecs
  BY <1>1 DEF Maintain, requestVars
<1>3. LetGoExecs \subseteq leases /\ KeptExecs \subseteq leases
  BY DEF LetGoExecs, KeptExecs
<1>4. /\ PoolInv' /\ Ages
      /\ \A p \in killed' \ killed :
            /\ \/ p \in slots
               \/ \E l \in leases \ (LetGoExecs \cup KeptExecs) : l.child = p
            /\ Live(p)
  <2> HIDE DEF LetGoExecs, KeptExecs, ExecBusy
  <2> QED
    BY <1>1, <1>3, MaintainPool DEF ExecPoolInv
<1>5. ExecPoolInv'
  BY <1>2, <1>3, <1>4, CallersAge DEF ExecPoolInv
<1>6. ASSUME NEW l \in leases, l \notin LetGoExecs
      PROVE  ~Published(l.child)
  <2>1. NativeExecState(l) # "Committed"
    BY <1>6 DEF LetGoExecs
  <2>2. ~\E pid \in ProcessesOf(l.child) : processes[pid].state = "Active"
    BY <2>1 DEF NativeExecState
  <2>3. ASSUME NEW id \in ReservedFor(l.child), exec_transactions[id].state = "Committed"
        PROVE  FALSE
    <3>1. exec_transactions[id].owner_peer = l.parent
      BY LeaseOfExec DEF ExecPoolInv
    <3> QED
      BY <2>1, <2>3, <3>1 DEF NativeExecState
  <2> QED
    BY <2>2, <2>3 DEF Published
<1>7. ASSUME NEW l \in leases, l \notin LetGoExecs, l \notin KeptExecs, Live(l.child),
             NEW id \in ReservedFor(l.child) \cap PendingExecs
      PROVE  Dead(exec_transactions[id].owner_peer)
  <2>1. exec_transactions[id].owner_peer = l.parent
    BY LeaseOfExec DEF ExecPoolInv
  <2>2. \A i \in ReservedFor(l.child) : i = id
    BY DEF ReservedFor, IInv, Targets
  <2>3. ~Terminal(exec_transactions[id])
    BY DEF PendingExecs
  <2>4. NativeExecState(l) # "Committed"
    BY <1>7 DEF LetGoExecs
  <2>5. NativeExecState(l) = "Pending"
    BY <2>1, <2>2, <2>3, <2>4 DEF NativeExecState, Terminal
  <2>6. ~Live(l.parent)
    BY <1>7, <2>5 DEF KeptExecs
  <2>7. l.parent \in Peer /\ native[l.parent] # "unborn"
    BY DEF ExecPoolInv, Callers
  <2> QED
    BY <2>1, <2>6, <2>7 DEF Live, Dead, ExecPoolInv, PoolInv, Held
<1>8. Spares
  BY <1>4, <1>6, UnheardStock DEF Spares, ExecPoolInv
<1>9. SparesReserved
  BY <1>4, <1>7, UnheardStock DEF SparesReserved, ExecPoolInv
<1> QED
  BY <1>5, <1>8, <1>9

\* The pool thread.
LEMMA ExecThread ==
  ASSUME IInv, ExecPoolInv, ExecPoolThread
  PROVE  ExecPoolInv' /\ Spares /\ SparesReserved
<1>1. CASE Finish
  <2>1. /\ UNCHANGED delivery /\ leases' = {} /\ stopping
        /\ PoolInv' /\ Ages
    BY <1>1, FinishPool DEF Finish, requestVars, ExecPoolInv
  <2>2. Callers'
    BY <2>1, CallersAge DEF ExecPoolInv
  <2> QED
    BY <2>1, <2>2 DEF ExecPoolInv, Spares, SparesReserved
<1>2. CASE Create
  <2>1. UNCHANGED <<delivery, leases, killed>>
    BY <1>2 DEF Create, requestVars, stockVars
  <2>2. /\ PoolInv'
        /\ \A p \in Peer : native[p] # "unborn" => native'[p] # "unborn"
    BY <1>2, CreatePool DEF ExecPoolInv
  <2>3. Callers'
    BY <2>1, <2>2, CallersKept DEF ExecPoolInv
  <2> QED
    BY <2>1, <2>2, <2>3 DEF ExecPoolInv, Spares, SparesReserved
<1>3. CASE Publish(TRUE)
  <2> DEFINE wanted == TRUE
  <2>1. Publish(wanted)
    BY <1>3
  <2> HIDE DEF wanted
  <2>2. /\ PoolInv' /\ Ages /\ \A p \in killed' \ killed : p \in created
        /\ UNCHANGED <<delivery, leases>>
    BY <2>1, PublishPool DEF ExecPoolInv, Publish, requestVars
  <2>3. Callers'
    BY <2>2, CallersAge DEF ExecPoolInv
  <2>4. Spares /\ SparesReserved
    BY <2>2, UnheardStock, SparesUnheard DEF ExecPoolInv
  <2> QED
    BY <2>2, <2>3, <2>4 DEF ExecPoolInv
<1>4. CASE FallAsleep \/ Timeout
  <2>0. ThreadOnly
    BY <1>4 DEF ThreadOnly
  <2>1. UNCHANGED <<leases, delivery, killed>> /\ PoolInv' /\ Ages
    BY <2>0, ThreadOnlyPool, ThreadOnlyFrame DEF ExecPoolInv
  <2>2. Callers'
    BY <2>1, CallersAge DEF ExecPoolInv
  <2> QED
    BY <2>1, <2>2 DEF ExecPoolInv, Spares, SparesReserved
<1> QED
  BY <1>1, <1>2, <1>3, <1>4, MaintainExecsInv DEF ExecPoolThread

\* A worker asks for a replacement.
LEMMA RequestExecInv ==
  ASSUME ExecPoolInv, NEW c \in DOMAIN clients, RequestExec(c)
  PROVE  ExecPoolInv' /\ killed' = killed
<1> DEFINE new == [step |-> "take", peer |-> clients[c].peer]
<1>1. /\ delivery' = [delivery EXCEPT ![c] = new]
      /\ UNCHANGED <<vars, native, killed, released, slots, leases, thread, created,
                     received>>
      /\ clients[c].pid \in DOMAIN processes
      /\ processes[clients[c].pid].peer = clients[c].peer
  BY DEF RequestExec, OwnsProcess, ActiveWorker, nativeVars, stockVars, threadVars
<1>2. new.step = "take" /\ new.peer = clients[c].peer
  OBVIOUS
<1> HIDE DEF new
<1>3. /\ DOMAIN delivery' = DOMAIN delivery
      /\ \A d \in DOMAIN delivery :
            delivery'[d] = IF d = c THEN new ELSE delivery[d]
  BY <1>1
<1>4. \A d \in DOMAIN delivery : InReply(d)' = {} \/ delivery'[d] = delivery[d]
  BY <1>2, <1>3 DEF InReply
<1>5. PoolInv'
  BY <1>1, <1>3, <1>4, RestPool DEF ExecPoolInv, vars, processVars, execVars
<1>6. clients[c].peer \in Peer /\ native[clients[c].peer] # "unborn"
  <2>1. /\ clients[c].peer \in Peer
        /\ clients[c].peer \in Pooled => \E parent : <<parent, clients[c].peer>> \in received
    BY <1>1 DEF ExecPoolInv, PoolInv, Introduced
  <2> QED
    BY <2>1 DEF ExecPoolInv, PoolInv, Answered, Left, Held
<1>7. Callers'
  BY <1>1, <1>2, <1>3, <1>6 DEF ExecPoolInv, Callers
<1> QED
  BY <1>1, <1>5, <1>7 DEF ExecPoolInv

\* A request is answered without a process.
LEMMA ExecAnswerNobody ==
  ASSUME ExecPoolInv, NEW c \in DOMAIN delivery, NEW stock, stock \subseteq slots,
         delivery[c].step = "take",
         delivery' = [delivery EXCEPT ![c] = Answer(c, {})],
         slots' = slots \ stock, Terminated(stock),
         UNCHANGED <<vars, leases, created, received, released, thread>>
  PROVE  ExecPoolInv' /\ Spares /\ SparesReserved
<1>1. /\ DOMAIN delivery' = DOMAIN delivery
      /\ \A d \in DOMAIN delivery : d # c => delivery'[d] = delivery[d]
      /\ delivery'[c].step = "reply"
      /\ delivery'[c].peer = delivery[c].peer
      /\ delivery'[c].lease = {}
      /\ delivery[c] # Idle
  BY DEF Answer, Idle
<1>2. InReply(c)' = {}
  BY <1>1 DEF InReply
<1> DEFINE gone == {}
<1>3. /\ gone \subseteq leases /\ leases' = leases \ gone
      /\ stock \cup {l.child : l \in gone} = stock
      /\ \A l \in gone : FALSE
  OBVIOUS
<1> HIDE DEF gone
<1>4. UNCHANGED <<processes, exec_transactions>>
  BY DEF vars, processVars, execVars
<1>5. /\ PoolInv' /\ Ages
      /\ \A p \in killed' \ killed : p \in stock \/ \E l \in gone : l.child = p
  BY <1>1, <1>2, <1>3, <1>4, DropPool DEF ExecPoolInv
<1>6. Callers'
  BY <1>1, <1>5, CallersAge DEF ExecPoolInv
<1>7. \A p \in killed' \ killed : p \in slots \cup created
  BY <1>3, <1>5
<1>8. Spares /\ SparesReserved
  BY <1>7, UnheardStock, SparesUnheard DEF ExecPoolInv
<1> QED
  BY <1>5, <1>6, <1>8 DEF ExecPoolInv

\* Pool::take.
LEMMA TakeExecInv ==
  ASSUME ExecPoolInv, NEW c \in DOMAIN delivery, TakeExec(c)
  PROVE  ExecPoolInv' /\ Spares /\ SparesReserved
<1> DEFINE peer == delivery[c].peer
<1>1. /\ delivery[c].step = "take"
      /\ UNCHANGED <<vars, created, received, released, thread>>
  BY DEF TakeExec, threadVars
<1>2. UNCHANGED <<processes, exec_transactions>>
  BY <1>1 DEF vars, processVars, execVars
<1>3. ASSUME NEW p \in slots, Lease(c, [parent |-> peer, child |-> p])
      PROVE  ExecPoolInv' /\ Spares /\ SparesReserved
  <2> DEFINE lease == [parent |-> peer, child |-> p]
  <2>1. Lease(c, lease)
    BY <1>3
  <2>2. lease.parent = peer /\ lease.child = p
    OBVIOUS
  <2> HIDE DEF lease, peer
  <2>3. slots' = slots \ {p}
    BY <2>1, <2>2 DEF Lease
  <2>4. CASE /\ Terminated({lease.child})
             /\ delivery' = [delivery EXCEPT ![c] = Answer(c, {})]
             /\ UNCHANGED leases
    <3> DEFINE stock == {p}
    <3>1. stock \subseteq slots /\ slots' = slots \ stock /\ Terminated(stock)
      BY <2>2, <2>3, <2>4
    <3> HIDE DEF stock
    <3> QED
      BY <1>1, <2>4, <3>1, ExecAnswerNobody
  <2>5. CASE /\ leases' = leases \cup {lease}
             /\ delivery' = [delivery EXCEPT ![c] = Answer(c, {lease})]
             /\ UNCHANGED <<native, killed>>
    <3>1. PoolInv'
      BY <1>1, <1>2, <1>3, <2>2, <2>3, <2>5, LeasePool DEF ExecPoolInv, peer
    <3>2. /\ DOMAIN delivery' = DOMAIN delivery
          /\ \A e \in DOMAIN delivery : e # c => delivery'[e] = delivery[e]
          /\ delivery'[c].peer = peer
          /\ delivery[c] # Idle
      BY <1>1, <2>5 DEF Answer, Idle, peer
    <3>3. peer \in Peer /\ native[peer] # "unborn"
      BY <3>2 DEF ExecPoolInv, Callers, peer
    <3>4. Callers'
      BY <2>2, <2>5, <3>2, <3>3 DEF ExecPoolInv, Callers
    <3> QED
      BY <2>5, <3>1, <3>4 DEF ExecPoolInv, Spares, SparesReserved
  <2> QED
    BY <2>1, <2>4, <2>5 DEF Lease
<1>4. CASE Miss(c)
  <2> DEFINE none == {}
  <2>1. none \subseteq slots /\ slots' = slots \ none /\ none = {}
    BY <1>4 DEF Miss
  <2> HIDE DEF none
  <2>2. Terminated(none)
    BY <1>4, <2>1, NothingTerminated DEF Miss, ExecPoolInv, PoolInv
  <2> QED
    BY <1>1, <1>4, <2>1, <2>2, ExecAnswerNobody DEF Miss
<1> QED
  BY <1>3, <1>4 DEF TakeExec

\* An answer that cannot be written ends the process it names.
LEMMA FailedExecReplyInv ==
  ASSUME ExecPoolInv, NEW c \in DOMAIN delivery, FailedExecReply(c)
  PROVE  ExecPoolInv' /\ Spares /\ SparesReserved
<1> DEFINE gone == leases \cap delivery[c].lease
           none == {}
<1>1. /\ delivery[c].step = "reply"
      /\ leases' = leases \ gone
      /\ Terminated({l.child : l \in gone})
      /\ thread' = Woken
      /\ delivery' = [delivery EXCEPT ![c] = Idle]
      /\ UNCHANGED <<vars, slots, created, received, released>>
  BY DEF FailedExecReply
<1>2. gone \subseteq leases /\ gone \subseteq InReply(c)
  BY <1>1 DEF InReply
<1>3. /\ none \subseteq slots /\ slots' = slots \ none
      /\ none \cup {l.child : l \in gone} = {l.child : l \in gone}
      /\ \A p \in none : FALSE
  BY <1>1
<1> HIDE DEF gone, none
<1>4. /\ DOMAIN delivery' = DOMAIN delivery
      /\ \A d \in DOMAIN delivery : d # c => delivery'[d] = delivery[d]
      /\ delivery'[c] = Idle
      /\ InReply(c)' = {}
  BY <1>1 DEF InReply, Idle
<1>5. /\ thread' = "made" <=> thread = "made"
      /\ thread' = "gone" => thread = "gone"
  BY <1>1 DEF Woken
<1>6. UNCHANGED <<processes, exec_transactions>>
  BY <1>1 DEF vars, processVars, execVars
<1>7. /\ PoolInv' /\ Ages
      /\ \A p \in killed' \ killed : p \in none \/ \E l \in gone : l.child = p
  BY <1>1, <1>2, <1>3, <1>4, <1>5, <1>6, DropPool DEF ExecPoolInv
<1>8. Callers'
  BY <1>1, <1>4, <1>7, CallersAge DEF ExecPoolInv
<1>9. \A p \in killed' \ killed : \E m \in InReply(c) : m.child = p
  BY <1>2, <1>3, <1>7
<1>10. Spares /\ SparesReserved
  BY <1>9, UnheardReply, SparesUnheard DEF ExecPoolInv
<1> QED
  BY <1>7, <1>8, <1>10 DEF ExecPoolInv

\* The serving threads.
LEMMA ExecServingInv ==
  ASSUME ExecPoolInv, ExecServing
  PROVE  ExecPoolInv' /\ Spares /\ SparesReserved
<1>1. PICK c \in 1..LAST_CLIENT : TakeExec(c) \/ Reply(c) \/ FailedExecReply(c)
  BY DEF ExecServing
<1>2. c \in DOMAIN delivery
  BY DEF ExecPoolInv, PoolInv, Answered
<1>3. CASE Reply(c)
  <2>1. /\ delivery' = [delivery EXCEPT ![c] = Idle]
        /\ UNCHANGED <<leases, killed>>
        /\ PoolInv' /\ Ages
    BY <1>2, <1>3, ReplyPool DEF Reply, nativeVars, stockVars, ExecPoolInv
  <2>2. Callers'
    BY <2>1, CallersAge DEF ExecPoolInv
  <2> QED
    BY <2>1, <2>2 DEF ExecPoolInv, Spares, SparesReserved
<1> QED
  BY <1>1, <1>2, <1>3, TakeExecInv, FailedExecReplyInv

\* Every step.
LEMMA ExecPoolStep ==
  ASSUME IInv, ExecInv, ExecPoolInv, [ExecNext]_allVars
  PROVE  ExecPoolInv' /\ Spares /\ SparesReserved
<1>1. ASSUME killed' = killed
      PROVE  Spares /\ SparesReserved
  BY <1>1 DEF Spares, SparesReserved
<1>2. CASE ExecManagerStep
  BY <1>1, <1>2, ExecManager
<1>3. ASSUME NEW c \in DOMAIN clients, RequestExec(c)
      PROVE  ExecPoolInv' /\ killed' = killed
  BY <1>3, RequestExecInv
<1>4. CASE ExecNatives \/ Stop \/ \E c \in DOMAIN clients : Hangup(c)
  BY <1>1, <1>4, ExecNativesInv
<1>5. CASE UNCHANGED allVars
  <2>1. UNCHANGED <<vars, native, slots, created, leases, received, released, delivery,
                    killed, thread>>
    BY <1>5 DEF allVars, poolVars
  <2>2. PoolInv' /\ Ages
    BY <2>1, RestPool DEF ExecPoolInv, vars, processVars, execVars
  <2> QED
    BY <1>1, <2>1, <2>2, CallersAge DEF ExecPoolInv
<1> QED
  BY <1>1, <1>2, <1>3, <1>4, <1>5, ExecServingInv, ExecThread DEF ExecNext

\* Every step is one of the manager's or leaves it alone.
LEMMA ExecIsNext ==
  ASSUME [ExecNext]_allVars
  PROVE  [Next]_vars
<1>1. CASE ExecManagerStep
  BY <1>1, PoolAssumption DEF ExecManagerStep, NameReplacement, Next, Connect, ExecRequest
<1>2. CASE ExecNatives \/ Stop
  BY <1>2 DEF ExecNatives, ReportExit, Die, Park, Expire, Stop, Next, Transport
<1>3. ASSUME NEW c \in DOMAIN clients, RequestExec(c) \/ Hangup(c)
      PROVE  [Next]_vars
  BY <1>3 DEF RequestExec, Hangup, Next, Transport
<1>4. CASE ExecPoolThread
  BY <1>4 DEF ExecPoolThread, MaintainExecs, Maintain, Create, Publish, Finish, FallAsleep,
     Timeout
<1>5. CASE ExecServing
  BY <1>5 DEF ExecServing, TakeExec, Reply, FailedExecReply
<1>6. CASE UNCHANGED allVars
  BY <1>6 DEF allVars
<1> QED
  BY <1>1, <1>2, <1>3, <1>4, <1>5, <1>6 DEF ExecNext

\* A new pool.
LEMMA InitExecPoolInv == PoolInit => IInv /\ ExecInv /\ ExecPoolInv
<1> SUFFICES ASSUME PoolInit
             PROVE  IInv /\ ExecInv /\ ExecPoolInv
  OBVIOUS
<1>1. Init
  BY DEF PoolInit
<1>2. /\ DOMAIN delivery = 1..LAST_CLIENT
      /\ \A c \in DOMAIN delivery : delivery[c] = Idle /\ InReply(c) = {}
      /\ leases = {} /\ slots = {} /\ created = {} /\ received = {} /\ thread = "top"
      /\ DOMAIN processes = {} /\ DOMAIN exec_transactions = {}
      /\ Children = {}
  BY <1>1 DEF PoolInit, Init, EmptyMap, InReply, Idle, Nobody, Children
<1>3. Held
  BY <1>2, PoolAssumption DEF PoolInit, Held, EveryProcessHeld, Live
<1>4. Answered /\ Introduced /\ Callers
  BY <1>2 DEF Answered, Introduced, Callers
<1> QED
  BY <1>1, <1>3, <1>4, InitIInv, InitExecInv DEF ExecPoolInv, PoolInv

\* The pool of exec replacements never ends one whose exec has been committed or
\* has taken over its process, whatever the order of the commit, the death of
\* the old image, the loss of the reply and the passes of the pool thread.
THEOREM CommittedExecsSurvive == ExecSpec => PublishedSurvives
<1>1. IInv /\ ExecInv /\ ExecPoolInv /\ [ExecNext]_allVars =>
         (IInv /\ ExecInv /\ ExecPoolInv)'
  BY ExecIsNext, NextStep, ExecInvStep, ExecPoolStep
<1>2. IInv /\ ExecInv /\ ExecPoolInv /\ [ExecNext]_allVars =>
         [\A p \in killed' \ killed : stopping \/ ~Published(p)]_allVars
  BY ExecPoolStep DEF Spares
<1> QED
  BY <1>1, <1>2, InitExecPoolInv, PTL DEF ExecSpec, PublishedSurvives

\* A replacement that a running exec has reserved is not taken away from it
\* while the old image lives: the deadline of the delivery ends with PrepareExec,
\* also when it passes at that moment.
THEOREM ReservationsRespected == ExecSpec => ReservationStopsDeadline
<1>1. IInv /\ ExecInv /\ ExecPoolInv /\ [ExecNext]_allVars =>
         (IInv /\ ExecInv /\ ExecPoolInv)'
  BY ExecIsNext, NextStep, ExecInvStep, ExecPoolStep
<1>2. IInv /\ ExecInv /\ ExecPoolInv /\ [ExecNext]_allVars =>
         [\A p \in killed' \ killed :
             stopping \/ \A id \in ReservedFor(p) \cap PendingExecs :
                             Dead(exec_transactions[id].owner_peer)]_allVars
  BY ExecPoolStep DEF SparesReserved
<1> QED
  BY <1>1, <1>2, InitExecPoolInv, PTL DEF ExecSpec, ReservationStopsDeadline

\* Nor does the pool of replacements do anything to the manager that is not one
\* of the manager's own steps.
THEOREM ExecPoolIsManager == ExecSpec => Spec
<1>1. [ExecNext]_allVars => [Next]_vars
  BY ExecIsNext
<1>2. PoolInit => Init
  BY DEF PoolInit
<1> QED
  BY <1>1, <1>2, PTL DEF ExecSpec, Spec
=============================================================================
