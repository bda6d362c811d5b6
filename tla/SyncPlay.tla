------------------------------ MODULE SyncPlay -----------------------------
(***************************************************************************)
(* A star network at play: the peers of SyncPeer, and the network between  *)
(* them (src/source/transport/tick_local_transport.cpp).  The server and   *)
(* its clients simulate their frames at their own pace; inputs and         *)
(* snapshots get lost and overtake each other; objects are spawned and     *)
(* freed, events sent; clients come, and the host migrates.                *)
(*                                                                         *)
(* The network's reliable channel delivers in order.  An unreliable packet *)
(* is lost when it is sent, or arrives after any others; the inputs an     *)
(* acknowledgement sends again are those of a packet that is late.  What   *)
(* is on its way, or waits to be handled, is lost with a connection.  What *)
(* may happen is bounded by a budget for each kind of step.                *)
(***************************************************************************)
EXTENDS SyncPeer
LOCAL INSTANCE SequencesExt
LOCAL INSTANCE FiniteSetsExt

VARIABLES
  node,    \* node[p]: the state of peer p
  linked,  \* the peers of the network (connected_peers)
  host,    \* host[p]: the host that p's transport knows
  events,  \* events[p]: the connections and migrations p is told of
  chan,    \* chan[p][q]: the reliable messages on their way, in order
  air,     \* the unreliable packets on their way
  limits   \* "last": the last frame of the server; "leads": how far ahead
           \* of it a timeline may start; "ahead": how far it may get; "air":
           \* the packets on their way; and the budgets

vars == <<node, linked, host, events, chan, air, limits>>

Kinds == {"loss", "event", "spawn", "free", "add", "expire", "stale", "go",
          "connect", "disconnect"}

Spend(kind, n) ==
  /\ limits.budget[kind] >= n
  /\ limits' = [limits EXCEPT !.budget[kind] = @ - n]

-----------------------------------------------------------------------------
(* The network.                                                            *)

Others(p) == IF p \in linked THEN linked \ {p} ELSE {}
Ready(p) == p \in linked /\ events[p] = <<>>

(* Peer p's next state s: what it sends is on its way, but the packets of  *)
(* "lost".                                                                 *)
Sent(p, s, lost, ch, flying) ==
  LET packets == {s.out[i] : i \in {j \in DOMAIN s.out :
                                      s.out[j].mode = "unreliable"}}
      kept == {o \in packets \ lost : o.to \in linked}
      mine(q) == SelectSeq(s.out, LAMBDA o : o.mode = "control" /\ o.to = q)
      new(q) == [i \in DOMAIN mine(q) |-> mine(q)[i].msg]
  IN
  /\ lost \subseteq packets
  /\ node' = [node EXCEPT ![p] = [s EXCEPT !.out = <<>>]]
  /\ chan' = [a \in Peer |-> [b \in Peer |->
                IF a = p /\ b \in linked THEN ch[a][b] \o new(b)
                ELSE ch[a][b]]]
  /\ air' = flying \cup {[from |-> p, to |-> o.to, msg |-> o.msg] : o \in kept}
  /\ Cardinality(air') <= Max({limits.air, Cardinality(flying)})

(* A step in which no packet is lost.                                      *)
Becomes(p, s) == Sent(p, s, {}, chan, air)

(* Where a timeline starts: the clock knows the server's frame.            *)
Starts(p) == {node[node[p].authority].next + lead : lead \in limits.leads}

Receive(p, q) ==
  /\ Ready(p) /\ chan[q][p] # <<>>
  /\ Sent(p, HandlePacket(node[p], q, Head(chan[q][p]), 0), {},
          [chan EXCEPT ![q][p] = Tail(@)], air)
  /\ UNCHANGED <<linked, host, events, limits>>

ReceivePacket(p) ==
  /\ Ready(p)
  /\ \E k \in {j \in air : j.to = p}, start \in Starts(p) :
       Sent(p, HandlePacket(node[p], k.from, k.msg, start), {}, chan,
            air \ {k})
  /\ UNCHANGED <<linked, host, events, limits>>

(* A process begins with the events, then come the packets.  A new         *)
(* server's timeline goes on where the clock has the old one's.            *)
HandleEvents(p) ==
  LET e == Head(events[p])
      s == node[p]
      frame == IF s.welcomed /\ s.synchronized
               THEN node[s.authority].next ELSE s.next
  IN /\ events[p] # <<>>
     /\ Becomes(p, CASE e.kind = "migrated" ->
                          HandleMigrated(s, e.peer, frame, Others(p))
                     [] e.kind = "connected" ->
                          HandleConnected(s, e.peer, Others(p))
                     [] OTHER -> HandleDisconnected(s, e.peer))
     /\ s.leaving = {}
     /\ events' = [events EXCEPT ![p] = Tail(@)]
     /\ UNCHANGED <<linked, host, limits>>

-----------------------------------------------------------------------------
(* A process of a peer: its frames, then what they send.                   *)

Process(p, s) ==
  \E lost \in SUBSET ToSet(s.out) :
    /\ Sent(p, s, lost, chan, air)
    /\ Spend("loss", Cardinality(lost))
    /\ UNCHANGED <<linked, host, events>>

ServerProcess(p) ==
  /\ Ready(p) /\ IsServer(node[p]) /\ node[p].next < limits.last
  /\ Process(p, ServerTick(node[p]))

(* A client simulates the frames its stepper counts, and sends once.       *)
ClientProcess(p, frames) ==
  LET s == node[p]
      ticked == IF frames = 1 THEN ClientTick(s) ELSE ClientTick(ClientTick(s))
  IN /\ Ready(p) /\ ~IsServer(s) /\ s.predicting
     /\ s.next + frames <= node[s.authority].next + limits.ahead
     /\ s.next + frames <= limits.last + 2
     /\ Process(p, EndFrame(
                     UpdateInterpolation(SendInputs(ticked, Others(p)))))

BeginPrediction(p) ==
  LET s == node[p] IN
  /\ Ready(p) /\ ~IsServer(s) /\ ~s.predicting
  /\ s.welcomed /\ s.synchronized /\ s.latest # NoFrame
  /\ \E start \in Starts(p) : Becomes(p, StartPrediction(s, start))
  /\ UNCHANGED <<linked, host, events, limits>>

(* Before its prediction starts a client runs the events without a frame.  *)
IdleProcess(p) ==
  LET s == node[p] IN
  /\ Ready(p) /\ ~IsServer(s) /\ ~s.predicting
  /\ RunEvents(s, NoFrame) # s
  /\ Becomes(p, RunEvents(s, NoFrame))
  /\ UNCHANGED <<linked, host, events, limits>>

(* A frame of the engine without frames of the simulation ends.            *)
FrameEnds(p) ==
  /\ node[p].leaving # {}
  /\ Becomes(p, EndFrame(node[p]))
  /\ UNCHANGED <<linked, host, events, limits>>

(* Pings are answered until the clock is synchronized.                     *)
Synchronize(p) ==
  /\ Ready(p) /\ ~IsServer(node[p]) /\ ~node[p].synchronized
  /\ node[p].authority \in Others(p)
  /\ node[node[p].authority].clients[p].known
  /\ node' = [node EXCEPT ![p].synchronized = TRUE]
  /\ UNCHANGED <<linked, host, events, chan, air, limits>>

(* Time passes: the events that came first waited for their object, a peer *)
(* sent no inputs.                                                         *)
Expire(p) ==
  /\ Spend("expire", 1)
  /\ \E e \in ToSet(node[p].pending) :
       /\ Waits(node[p], e)
       /\ node' = [node EXCEPT ![p].pending =
            [i \in DOMAIN @ |->
               [@[i] EXCEPT !.expired = @ \/ node[p].pending[i].uid >= e.uid]]]
  /\ UNCHANGED <<linked, host, events, chan, air>>

StaleDoll(p, q) ==
  /\ Spend("stale", 1)
  /\ node[p].dolls[q].started /\ ~node[p].dolls[q].stale
  /\ node' = [node EXCEPT ![p].dolls[q].stale = TRUE]
  /\ UNCHANGED <<linked, host, events, chan, air>>

(* The frames a doll may be simulated again come back.                     *)
ResumeDoll(p, q) ==
  /\ node[p].dolls[q].suspended
  /\ node' = [node EXCEPT ![p].dolls[q].suspended = FALSE,
                          ![p].dolls[q].budget = DollBudget]
  /\ UNCHANGED <<linked, host, events, chan, air, limits>>

-----------------------------------------------------------------------------
(* The game.                                                               *)

SendAnEvent(p) ==
  LET s == node[p]
      uid == limits.budget["event"]
      targets == {{}} \cup {{o} : o \in {x \in Path : IdOf(s, x) # {}}}
  IN /\ p \in linked /\ (IsServer(s) \/ s.welcomed)
     /\ \E on \in targets, asked \in {NoFrame, s.next + 1} :
          Becomes(p, SendEvent(s, uid, on, asked))
     /\ Spend("event", 1)
     /\ UNCHANGED <<linked, host, events>>

SpawnNode(p) ==
  /\ p \in linked /\ IsServer(node[p])
  /\ node[p].nextSpawn \in DOMAIN SpawnName
  /\ SpawnName[node[p].nextSpawn] \notin node[p].local
  /\ Becomes(p, Spawn(node[p], limits.budget["spawn"]))
  /\ Spend("spawn", 1)
  /\ UNCHANGED <<linked, host, events>>

FreeSpawned(p) ==
  /\ p \in linked /\ IsServer(node[p])
  /\ \E i \in DOMAIN node[p].spawns \cap DOMAIN node[p].nodes :
       Becomes(p, Despawn(node[p], i))
  /\ Spend("free", 1)
  /\ UNCHANGED <<linked, host, events>>

(* An object of the game that was not registered on this peer yet.         *)
AddLocal(p) ==
  /\ p \in linked
  /\ \E o \in Path \ (node[p].local \cup ToSet(SpawnName)) :
       Becomes(p, RegisterObject(node[p], o))
  /\ Spend("add", 1)
  /\ UNCHANGED <<linked, host, events>>

-----------------------------------------------------------------------------
(* Connections.  The clients of a hosted mesh are linked to each other.    *)

Tell(ps, es) ==
  events' = [p \in Peer |-> IF p \in ps THEN events[p] \o es[p] ELSE events[p]]
Event(kind, p) == [kind |-> kind, peer |-> p]

(* A client comes; or comes back, with no spawns it knew, once the others   *)
(* handled that it went.                                                   *)
Connect(p) ==
  /\ Spend("connect", 1)
  /\ p \notin linked /\ 1 \in linked /\ node[p].nodes = None
  /\ \A q \in linked \cup {p} : events[q] = <<>>
  /\ linked' = linked \cup {p}
  /\ Tell(linked \cup {p},
          [q \in Peer |-> IF q = p
                          THEN [i \in 1 .. Cardinality(linked) |->
                                  Event("connected", InOrder(linked)[i])]
                          ELSE <<Event("connected", p)>>])
  /\ UNCHANGED <<node, host, chan, air>>

(* What is on its way from and to a peer that goes is lost.                *)
DropInFlight(p) ==
  /\ linked' = linked \ {p}
  /\ chan' = [a \in Peer |-> [b \in Peer |->
                IF p \in {a, b} THEN <<>> ELSE chan[a][b]]]
  /\ air' = {k \in air : p \notin {k.from, k.to}}

Disconnect(p) ==
  /\ Spend("disconnect", 1)
  /\ p \in linked /\ ~IsServer(node[p])
  /\ DropInFlight(p)
  /\ Tell(linked,
          [q \in Peer |-> IF q = p
                          THEN [i \in 1 .. Cardinality(Others(p)) |->
                                  Event("disconnected", InOrder(Others(p))[i])]
                          ELSE <<Event("disconnected", p)>>])
  /\ UNCHANGED <<node, host>>

(* The host goes.  The transport of each client notices by itself, sooner  *)
(* or later, and takes the first client for the new one.                   *)
HostGoes ==
  /\ Spend("go", 1)
  /\ 1 \in linked /\ linked # {1} /\ \A p \in linked : events[p] = <<>>
  /\ DropInFlight(1)
  /\ UNCHANGED <<node, host, events>>

Notice(p) ==
  /\ p \in linked /\ host[p] \notin linked
  /\ host' = [host EXCEPT ![p] = Min(linked)]
  /\ Tell({p}, [q \in Peer |-> <<Event("migrated", Min(linked)),
                               Event("disconnected", host[p])>>])
  /\ UNCHANGED <<node, linked, chan, air, limits>>

-----------------------------------------------------------------------------
(* A case is a network at play: its peers and its limits; "objects", the   *)
(* server's, in the order of their ids, and "local", each client's;        *)
(* "dolls", the frames a doll may still be simulated again.                *)

StartServer(c) ==
  LET s == [NewPeer(1) EXCEPT !.role = "server", !.next = c.first,
              !.clients = [p \in Peer |->
                 IF p \in c.in \ {1}
                 THEN [NoClient EXCEPT !.known = TRUE, !.accepted = TRUE]
                 ELSE NoClient]]
  IN [FoldLeft(RegisterObject, s, c.objects) EXCEPT !.out = <<>>]

JoinedClient(c, p) ==
  LET objects == StartServer(c).objects IN
  [NewPeer(p) EXCEPT
     !.local = c.local, !.welcomed = TRUE, !.synchronized = TRUE,
     !.dolls = [q \in Peer |-> [NoDoll EXCEPT !.budget = c.dolls]],
     !.remote = [id \in DOMAIN objects |->
                   [path |-> objects[id].path,
                    controller |-> objects[id].controller,
                    bound |-> objects[id].path \in c.local]]]

Init(cases) == \E c \in cases :
  /\ node = [p \in Peer |->
               IF p = 1 THEN StartServer(c)
               ELSE IF p \in c.in THEN JoinedClient(c, p)
               ELSE [NewPeer(p) EXCEPT !.local = c.local]]
  /\ linked = c.in
  /\ host = [p \in Peer |-> 1]
  /\ events = [p \in Peer |-> <<>>]
  /\ chan = [p \in Peer |-> [q \in Peer |-> <<>>]]
  /\ air = {}
  /\ limits = c.limits

Next ==
  \/ HostGoes
  \/ \E p \in Peer :
       \/ \E q \in Peer : Receive(p, q) \/ StaleDoll(p, q) \/ ResumeDoll(p, q)
       \/ ReceivePacket(p) \/ HandleEvents(p) \/ ServerProcess(p)
       \/ \E frames \in 1 .. 2 : ClientProcess(p, frames)
       \/ BeginPrediction(p) \/ IdleProcess(p) \/ Synchronize(p)
       \/ Expire(p) \/ SendAnEvent(p) \/ SpawnNode(p) \/ FreeSpawned(p)
       \/ AddLocal(p) \/ Connect(p) \/ Disconnect(p)
       \/ Notice(p) \/ FrameEnds(p)

-----------------------------------------------------------------------------
(* Properties.                                                             *)

Servers == {p \in linked : IsServer(node[p])}
Clients == {p \in linked : ~IsServer(node[p])}

(* The server gives an object the input its client collected for the       *)
(* frame, or the one before again.                                         *)
FramesInputs ==
  \A p \in Servers : \A f \in DOMAIN node[p].history :
    \A id \in DOMAIN node[p].history[f] :
      LET v == node[p].history[f][id] n == Len(v) IN
      \/ v[n] = None
      \/ v[n][1] = f
      \/ v[n][1] < f /\ n > 1 /\ v[n - 1] = v[n]

(* Once a client compared a frame with the server's, each object it        *)
(* predicts is in the server's state of that frame followed by the         *)
(* client's inputs of the frames after it, until its timeline jumps or an  *)
(* object is bound: it starts at the latest snapshot.                      *)
Inputs(s, id, from, to) ==
  [i \in 1 .. (to - from) |-> InputOf(s.predictions[from + i].input, id)]
PredictsFromServer ==
  \A p \in Clients :
    LET s == node[p] f == s.settled IN
    (s.predicting /\ f \in DOMAIN s.received) =>
      \A id \in PredictedIds(s) \cap DOMAIN s.received[f] :
        \A g \in f .. s.next - 1 :
          (f .. g \subseteq DOMAIN s.predictions) =>
            FindState(s, id, g) = {s.received[f][id] \o Inputs(s, id, f, g)}

(* A doll that is past the last snapshot went through the server's state.  *)
DollsFollowServer ==
  \A p \in Clients :
    LET s == node[p] f == s.latest IN
    f # NoFrame =>
      \A id \in DOMAIN s.remote :
        ( /\ IsActiveDoll(s, id)
          /\ f < s.dolls[s.remote[id].controller].next
          /\ FindState(s, id, f) # {} /\ id \in DOMAIN s.received[f] )
        => FindState(s, id, f) = {s.received[f][id]}

(* No object is used after the game removed it, whoever's code did.        *)
NothingFreed == \A p \in Peer : ~node[p].freed

(* server_resolve_input, client_reconcile, client_reconcile_dolls and      *)
(* client_simulate_doll: the peers simulate one game.                      *)
OneGame ==
  FramesInputs /\ PredictsFromServer /\ DollsFollowServer /\ NothingFreed

(* The id an event is for is an earlier server's, and the new one had no   *)
(* object by it when it took over: it may give it to another.              *)
GivenAnew(e) == e.by # e.under /\ e.target \notin node[e.under].kept.ids

(* An event runs once, not before its frame, and on the object its sender  *)
(* meant unless it is gone, or its id was given anew; those for the same   *)
(* object, sent one after the other without a frame, in order.             *)
EventsRunRight ==
  \A p \in Peer :
    LET ran == node[p].ran IN
    \A i \in DOMAIN ran :
      /\ ran[i].asked <= ran[i].frame
      /\ ran[i].on \in {{}, ran[i].meant} \/ GivenAnew(ran[i])
      /\ \A j \in 1 .. i - 1 :
           /\ ran[j].uid # ran[i].uid
           /\ (/\ ran[j].from = ran[i].from /\ ran[j].meant = ran[i].meant
               /\ ran[j].asked = NoFrame /\ ran[i].asked = NoFrame)
              => ran[j].uid > ran[i].uid

(* An event taken is not lost: it waits, or it ran, or its object did not  *)
(* come in time, or is gone, or was never bound here before this peer      *)
(* became the server.                                                      *)
EventsKept ==
  \A p \in Peer :
    LET s == node[p] IN
    /\ s.taken \subseteq {s.ran[i].uid : i \in DOMAIN s.ran}
                        \cup {s.pending[i].uid : i \in DOMAIN s.pending}
    /\ \A i \in DOMAIN s.ran :
         LET e == s.ran[i] IN
         (e.on = {} /\ e.meant # {}) =>
           e.expired \/ (IsServer(s) /\ (~e.there \/ GivenAnew(e)))

(* All that a server and a client that follows it said to each other       *)
(* arrived.                                                                *)
Heard(p, c) ==
  /\ node[c].authority = p /\ chan[p][c] = <<>> /\ chan[c][p] = <<>>
  /\ events[c] = <<>> /\ events[p] = <<>> /\ node[c].leaving = {}

(* A client is then one of the server's, unless it said hello before the   *)
(* server was one, and knows the server's objects by their ids, bound to   *)
(* its own, and has the nodes of its spawns.  It knows no others but those *)
(* an earlier server named and the new one did not; a node of those is in  *)
(* the way of a spawn the new one did not know.                            *)
Joined(p, c) == node[c].welcomed /\ node[p].clients[c].accepted
SameObjects ==
  \A p \in Servers, c \in Clients :
    Heard(p, c) /\ c \notin node[p].refused =>
      LET s == node[p] k == node[c] IN
      /\ Joined(p, c)
      /\ \A id \in DOMAIN s.objects :
           /\ id \in DOMAIN k.remote
           /\ k.remote[id] = [path |-> s.objects[id].path,
                              controller |-> s.objects[id].controller,
                              bound |-> s.objects[id].path \in k.local]
      /\ DOMAIN k.remote \ DOMAIN s.objects \subseteq k.old.ids
      /\ DOMAIN s.spawns \subseteq DOMAIN k.nodes
      /\ DOMAIN k.nodes \ DOMAIN s.spawns \subseteq k.old.nodes
      /\ \A i \in DOMAIN s.spawns : k.nodes[i] # s.spawns[i] =>
           i \in k.old.nodes \ s.kept.spawns

(* What reaches a server and its clients, also when the host migrated and  *)
(* each player noticed at its own time (execute_event, run_events,         *)
(* server_accept_peer, client_become_server, client_follow_authority).     *)
EveryoneTold == EventsRunRight /\ EventsKept /\ SameObjects

(* "The others join the new authority again" (doc_classes/TickNetwork.xml, *)
(* migration): a client that follows the new server becomes one of its     *)
(* clients.  It does not when it follows before that player itself knows:  *)
(* a client drops its hello, and it says none again (handle_packet,        *)
(* client_follow_authority).                                               *)
OthersJoinAgain ==
  \A p \in Servers, c \in Clients : Heard(p, c) => Joined(p, c)
=============================================================================
