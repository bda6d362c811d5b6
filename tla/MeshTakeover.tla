--------------------------- MODULE MeshTakeover ----------------------------
(***************************************************************************)
(* A mesh whose registry moves (src/source/sync/tick_mesh_core.cpp): the   *)
(* nodes of MeshNode and the links between them.  The node that gets the   *)
(* role merges what every node knows of the objects and of the spawns of   *)
(* the nodes that left, while games register, release, spawn and send      *)
(* events, links drop with what is on its way, and nodes restart.          *)
(*                                                                         *)
(* The roles are moved by any node at any time: MeshRoles has the          *)
(* agreement that lets a successor take lost roles.  A node's messages to  *)
(* itself (loopback) are one more channel.  What may go wrong is bounded   *)
(* by a budget for each kind of step; games wait for a quiet network.      *)
(***************************************************************************)
EXTENDS MeshNode
LOCAL INSTANCE SequencesExt

CONSTANT
  First        \* the node the roles start on

ASSUME FirstAssumption == First \in Node

VARIABLES
  node,    \* node[n]: the state of node n
  linked,  \* the pairs of nodes with a link
  chan,    \* chan[n][m]: what is on its way from n to m, in order
  budget,  \* budget[k]: how many steps of kind k are left; budget.flight: no
           \* fault or game's step with more messages on their way
  made,    \* history: the spawns made
  removed, \* history: the spawns removed by their owners
  faults,  \* history: "broken" links, "crowded" registries, with no room
           \* for a message that has to wait, objects "dropped", and "hurried"
           \* registries, which did not wait for every report
  named,   \* history: the net ids and the paths a node knew them by
  sent,    \* history: how many events were sent
  ended    \* history: what became of each event

vars == <<node, linked, chan, budget, made, removed, faults, named, sent,
          ended>>
events == <<sent, ended>>
spawned == <<made, removed>>

Kinds == {"move", "drop", "restart", "hurry", "register", "unregister",
          "release", "spawn", "despawn", "event", "expire", "flight"}

Pairs == {l \in SUBSET Node : Cardinality(l) = 2}

FirstRoles == [term |-> 0, node |-> First, boot |-> 1]

(* A mesh that formed of the nodes "in", all connected: one object is      *)
(* owned by "owner", and used by some of them (0: none is registered yet). *)
(* The node "alone" took the registry for itself (0: none), and gave out   *)
(* the same net id.                                                        *)
Formed(in, quorum, objects, owner, alone) ==
  LET path(n) == CHOOSE p \in objects[n] : TRUE
      has(n) == owner # 0 /\ n \in in \cup {alone}
      of(n) == IF n = alone THEN n ELSE owner
      entry(n) == [path |-> path(of(n)), owner |-> of(n), version |-> 1,
                   fresh |-> TRUE, frozen |-> FALSE]
      record(n) == [path |-> path(of(n)), owner |-> of(n), version |-> 1,
                    previous |-> 0]
      gives(n) == has(n) /\ n \in {First, alone}
  IN
  [n \in Node |->
     [Started(1, IF n = alone THEN [term |-> 1, node |-> n, boot |-> 1]
                 ELSE FirstRoles, quorum) EXCEPT
        !.roles.boot = IF n \in in \cup {First, alone} THEN 1 ELSE 0,
        !.known = IF n \in in THEN in \ {n} ELSE {},
        !.ready = [m \in Node |-> IF {n, m} \subseteq in /\ m # n
                                  THEN 1 ELSE 0],
        !.reported = n \in in,
        !.objects = objects[n],
        !.highest = IF has(n) THEN 1 ELSE 0,
        !.next = IF gives(n) THEN 2 ELSE 1,
        !.entry[1] = IF has(n) THEN entry(n) ELSE NoEntry,
        !.record[1] = IF gives(n) THEN record(n) ELSE NoRecord]]

-----------------------------------------------------------------------------
(* The network.                                                            *)

Opened == [kind |-> "open"]
Lost == [kind |-> "lost"]

CanSend(ch, n, m) ==
  m = n \/ ({n, m} \in linked /\ (ch[m][n] = <<>> \/ Head(ch[m][n]) # Lost))

(* What node n's next state s has to send goes out.                        *)
Flushed(ch, n, s) ==
  [ch EXCEPT ![n] = [m \in Node |->
     LET mine(o) == o.to = m
         new == SelectSeq(s.out, mine)
     IN IF CanSend(ch, n, m) THEN @[m] \o [i \in DOMAIN new |-> new[i].msg]
        ELSE @[m]]]

Becomes(n, s, ch) ==
  /\ node' = [node EXCEPT ![n] = [s EXCEPT !.out = <<>>]]
  /\ chan' = Flushed(ch, n, s)
  /\ named' = named \cup {<<id, s.entry[id].path>> : id \in Entries(s)}
  /\ faults' = faults
        \cup (IF Len(s.deferred) = MaxDeferred THEN {"crowded"} ELSE {})
        \cup (IF node[n].unreported # {} /\ IsRegistry(n, s) /\ ~ s.settling
              THEN {"hurried"} ELSE {})

Flight ==
  {p \in Node \X Node \X (1 .. budget.flight + 1) :
     p[3] <= Len(chan[p[1]][p[2]])}

Spend(kind) ==
  /\ budget[kind] > 0
  /\ kind # "hurry" => Cardinality(Flight) <= budget.flight
  /\ budget' = [budget EXCEPT ![kind] = @ - 1]

Receive(n, m) ==
  /\ chan[m][n] # <<>>
  /\ LET msg == Head(chan[m][n])
         s == node[n]
     IN Becomes(n, IF msg = Opened THEN HandleOpen(n, s, m)
                   ELSE IF msg = Lost THEN TakenBack(n, HandleLost(n, s, m))
                   ELSE HandlePacket(n, s, m, msg),
                [chan EXCEPT ![m][n] = Tail(@)])
  /\ UNCHANGED <<linked, budget, spawned, events>>

-----------------------------------------------------------------------------
(* The end of a node's step.                                               *)

(* Every view is in, or the time for them is over.                         *)
FinishTakeOver(n) ==
  /\ IsRegistry(n, node[n]) /\ node[n].settling
  /\ IF node[n].unreported = {} THEN UNCHANGED budget ELSE Spend("hurry")
  /\ Becomes(n, Finished(n, node[n]), chan)
  /\ UNCHANGED <<linked, spawned, events>>

Resume(n) ==
  /\ CanAct(n, node[n])
  /\ node[n].orphans \/ node[n].deferred # <<>>
  /\ Becomes(n, Resumed(n, node[n]), chan)
  /\ UNCHANGED <<linked, budget, spawned, events>>

(* The events due run, wait or follow their object's owner.                *)
RunEvent(n, i) ==
  /\ i \in DOMAIN node[n].pending
  /\ LET e == node[n].pending[i]
         fate == Fate(n, node[n], e)
     IN /\ fate # "waits"
        /\ ended' = IF fate = "forwarded" THEN ended
                    ELSE Append(ended, [fate |-> fate, target |-> e.target,
                                  meant |-> e.path,
                                  found |-> node[n].entry[e.target].path])
  /\ Becomes(n, Dispatched(n, node[n], i), chan)
  /\ UNCHANGED <<linked, budget, spawned, sent>>

(* MESH_PENDING_EVENT_TIMEOUT_USEC passed without an owner.                *)
ExpireEvent(n, i) ==
  /\ Spend("expire")
  /\ i \in DOMAIN node[n].pending
  /\ Fate(n, node[n], node[n].pending[i]) = "waits"
  /\ ended' = Append(ended, [fate |-> "expired",
                             target |-> node[n].pending[i].target,
                             meant |-> node[n].pending[i].path, found |-> 0])
  /\ Becomes(n, [node[n] EXCEPT !.pending = RemoveAt(@, i)], chan)
  /\ UNCHANGED <<linked, spawned, sent>>

-----------------------------------------------------------------------------
(* The roles move, by the game or to a successor.                          *)
MoveRoles(n, m) ==
  /\ Spend("move")
  /\ m # node[n].roles.node \/ (m = n /\ ~ Reachable(n, node[n]))
  /\ IsReady(n, node[n], m)
  /\ Becomes(n, ChangedRoles(n, node[n], m), chan)
  /\ UNCHANGED <<linked, spawned, events>>

(* Links come up, and drop with some of what is on its way.                *)
Connect(n, m) ==
  /\ n < m /\ {n, m} \notin linked
  /\ chan[n][m] = <<>> /\ chan[m][n] = <<>>
  /\ linked' = linked \cup {{n, m}}
  /\ chan' = [chan EXCEPT ![n][m] = <<Opened>>, ![m][n] = <<Opened>>]
  /\ UNCHANGED <<node, budget, spawned, faults, named, events>>

Disconnect(n, m) ==
  /\ Spend("drop")
  /\ n < m /\ {n, m} \in linked
  /\ linked' = linked \ {{n, m}}
  /\ \E s \in Prefixes(chan[n][m]), t \in Prefixes(chan[m][n]) :
       chan' = [chan EXCEPT ![n][m] = Append(s, Lost),
                            ![m][n] = Append(t, Lost)]
  /\ faults' = faults \cup {"broken"}
  /\ UNCHANGED <<node, spawned, named, events>>

(* A process stops and starts again, with the roles it is configured with. *)
Restart(n) ==
  /\ Spend("restart")
  /\ node[n].boot < MaxBoot
  /\ LET b == node[n].boot + 1 IN
     node' = [node EXCEPT ![n] = [Started(b, [FirstRoles EXCEPT !.boot =
                                      IF n = First THEN b ELSE 0],
                                      node[n].quorum)
                                  EXCEPT !.objects = node[n].objects]]
  /\ linked' = {l \in linked : n \notin l}
  /\ chan' = [k \in Node |-> [m \in Node |->
                IF m = n THEN <<>>
                ELSE IF k = n /\ {n, m} \in linked
                THEN Append(chan[n][m], Lost)
                ELSE chan[k][m]]]
  /\ faults' = faults \cup {"broken"}
  /\ UNCHANGED <<spawned, named, events>>

-----------------------------------------------------------------------------
(* What the games do.                                                      *)

Game(kind, n, s) ==
  /\ Spend(kind)
  /\ Becomes(n, s, chan)
  /\ UNCHANGED linked

RegisterObject(n, p) ==
  /\ p \notin node[n].objects
  /\ Game("register", n, Registered(n, node[n], p))
  /\ UNCHANGED <<spawned, events>>

UnregisterObject(n, p) ==
  /\ p \in node[n].objects
  /\ Spend("unregister")
  /\ node' = [node EXCEPT ![n] = [Unregistered(n, node[n], p)
                                  EXCEPT !.out = <<>>]]
  /\ chan' = Flushed(chan, n, Unregistered(n, node[n], p))
  /\ faults' = faults \cup {"dropped"}
  /\ UNCHANGED <<linked, spawned, named, events>>

Simulates(n, id) ==
  /\ node[n].entry[id].owner = n
  /\ node[n].entry[id].path \in node[n].objects
  /\ ~ node[n].entry[id].frozen

ReleaseAuthority(n, id, to) ==
  /\ Simulates(n, id) /\ to # n
  /\ Reachable(n, node[n])
  /\ Game("release", n, Released(node[n], id, to))
  /\ UNCHANGED <<spawned, events>>

SpawnNode(n) ==
  /\ <<n, node[n].boot>> \notin made
  /\ Game("spawn", n, Spawned(n, node[n]))
  /\ made' = made \cup {<<n, node[n].boot>>}
  /\ UNCHANGED <<removed, events>>

Despawn(n, x) ==
  /\ OwnsSpawn(n, node[n], x)
  /\ Game("despawn", n, Despawned(node[n], x))
  /\ removed' = removed \cup {x}
  /\ UNCHANGED <<made, events>>

SendEvent(n, id) ==
  /\ node[n].entry[id] # NoEntry
  /\ node[n].entry[id].path \in node[n].objects
  /\ Game("event", n, SentEvent(n, node[n], id))
  /\ sent' = sent + 1
  /\ UNCHANGED <<spawned, ended>>

-----------------------------------------------------------------------------
Next ==
  \/ \E n, m \in Node : Receive(n, m)
  \/ \E n \in Node : FinishTakeOver(n)
  \/ \E n \in Node : Resume(n)
  \/ \E n \in Node : \E i \in DOMAIN node[n].pending : RunEvent(n, i)
  \/ \E n \in Node : \E i \in DOMAIN node[n].pending : ExpireEvent(n, i)
  \/ \E n, m \in Node : MoveRoles(n, m)
  \/ \E n, m \in Node : Connect(n, m)
  \/ \E n, m \in Node : Disconnect(n, m)
  \/ \E n \in Node : Restart(n)
  \/ \E n \in Node, p \in Path : RegisterObject(n, p)
  \/ \E n \in Node, p \in Path : UnregisterObject(n, p)
  \/ \E n \in Node, id \in Id, to \in Owner : ReleaseAuthority(n, id, to)
  \/ \E n \in Node : SpawnNode(n)
  \/ \E n \in Node, x \in Spawn : Despawn(n, x)
  \/ \E n \in Node, id \in Id : SendEvent(n, id)

(* A mesh as it starts in one of the "cases": who formed it, what its games *)
(* have and what may happen.                                               *)
Init(cases) ==
  \E c \in cases :
    /\ node = Formed(c.in, c.quorum, c.objects, c.owner, c.alone)
    /\ linked = {l \in Pairs : l \subseteq c.in}
    /\ chan = [n \in Node |-> [m \in Node |-> <<>>]]
    /\ budget = c.budget
    /\ made = {} /\ removed = {} /\ sent = 0 /\ ended = <<>>
    /\ faults = IF c.in = Node THEN {} ELSE {"broken"}
    /\ named = UNION {{<<id, node[n].entry[id].path>> :
                         id \in Entries(node[n])} : n \in Node}

-----------------------------------------------------------------------------
(* Everything on its way arrived, every node is connected to every other   *)
(* and nobody has anything left to do.                                     *)
Settled ==
  /\ \A n, m \in Node : chan[n][m] = <<>>
  /\ linked = Pairs
  /\ \A n \in Node : ~ node[n].settling
  /\ \A n \in Node : CanAct(n, node[n]) =>
       ~ node[n].orphans /\ node[n].deferred = <<>>

Registry == {n \in Node : CanAct(n, node[n])}

(* What a node knows of an object, its net id, owner and version, is what  *)
(* the registry that settled says of it, however the role moved and        *)
(* whatever the reports it merged said.  It knows every object the game    *)
(* has on it; in a mesh that was never apart it knows all of them, and all *)
(* are registered, unless the owner dropped one or too many messages had   *)
(* to wait (registry_handle_report, registry_finish_take_over,             *)
(* registry_defer, handle_announce).                                       *)
ViewsFollowRegistry ==
  Settled => \A r \in Registry, n \in Node :
    /\ \A id \in Id :
         LET known == node[n].entry[id]
             record == node[r].record[id]
         IN (known = NoEntry => record.path \notin node[n].objects
                                /\ (record # NoRecord => "broken" \in faults))
            /\ (known # NoEntry =>
                  /\ known.path = record.path
                  /\ known.owner = record.owner
                  /\ known.version = record.version)
    /\ faults \subseteq {"hurried"} =>
         \A p \in node[n].objects : Named(node[n], p) # {}

(* A node that joins gets the registry's announcements (on_peer_ready),    *)
(* one that joins a mesh that moved on learns the objects from its         *)
(* registry (adopt_roles): nodes that are all in touch know them all.      *)
JoinersLearnObjects ==
  Settled => \A r \in Registry, n \in Node :
    Records(node[r]) \subseteq Entries(node[n])

(* A release gets an answer, or is taken back, also while no registry can  *)
(* act and by one with no room for it: no object stays frozen              *)
(* (registry_defer, registry_resume, cancel_releases).                     *)
ReleasesAnswered ==
  Settled /\ (\A n \in Node : ~ RegistryLost(n, node[n])) =>
    \A n \in Node, id \in Id : ~ node[n].entry[id].frozen

(* A spawn its owner did not remove is known to every node while the       *)
(* process that made it runs, and no two nodes own it: not the one that    *)
(* made it and a registry, nor two registries (handle_events,              *)
(* on_peer_ready, handle_spawn, registry_finish_take_over).                *)
SpawnsKept ==
  Settled => \A x \in made \ removed :
    /\ node[x[1]].boot = x[2] =>
         \A n \in Node : node[n].spawns[x] # "none"
    /\ \A n, m \in Node :
         OwnsSpawn(n, node[n], x) /\ OwnsSpawn(m, node[m], x) => n = m

(* The spawn of a node in the mesh belongs to it, and the one of a node    *)
(* that left to the registry: some node can remove it (owns_spawn).        *)
SpawnHasOwner ==
  Settled => \A x \in made \ removed :
    (\A n \in Node : node[n].spawns[x] # "none") =>
      \E n \in Node : OwnsSpawn(n, node[n], x)

(* While no link breaks an event is in one place, on its way, waiting or   *)
(* ended, however often it is forwarded.  All it keeps is a net id, and it *)
(* runs on the object it was sent for, also one that waited while objects  *)
(* were removed and registered by the next registry, unless nodes knew two *)
(* objects by that id.  That takes a registry that did not hear of an id:  *)
(* the mesh was apart, or the time for the reports was over early          *)
(* (dispatch_event, run_events, forward_event, registry_finish_take_over). *)
Copies(n, m) == {i \in DOMAIN chan[n][m] : chan[n][m][i].kind = "event"}

NamesTwo(id) ==
  \E p, q \in Path : p # q /\ {<<id, p>>, <<id, q>>} \subseteq named

EventsKept ==
  /\ "broken" \notin faults =>
       sent = Len(ended)
              + Cardinality({p \in Node \X (1 .. sent + 1) :
                               p[2] \in DOMAIN node[p[1]].pending})
              + Cardinality(UNION {{<<n, m, i>> : i \in Copies(n, m)} :
                                     n, m \in Node})
  /\ \A i \in DOMAIN ended :
       ended[i].fate = "run" => \/ ended[i].found = ended[i].meant
                               \/ NamesTwo(ended[i].target)
  /\ {"broken", "hurried"} \cap faults = {} =>
       \A id \in Id : ~ NamesTwo(id)
=============================================================================
