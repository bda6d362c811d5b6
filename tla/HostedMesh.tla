---------------------------- MODULE HostedMesh -----------------------------
(***************************************************************************)
(* A hosted mesh (src/source/transport/enet_hosted_mesh_transport.cpp):    *)
(* the nodes of HostedNode and the links between them.  The host takes     *)
(* players, introduces each to the others and relays the pairs that do not *)
(* reach each other; players leave, links drop, and the host goes away.    *)
(*                                                                         *)
(* Two nodes have one link at most: the host's, or the direct one of a     *)
(* pair, which becomes the host's when one of the two takes over.  The     *)
(* control channel of a link delivers in order; a link that closes loses   *)
(* some of what is on its way.  What may happen is bounded by a budget for *)
(* each kind of step.                                                      *)
(***************************************************************************)
EXTENDS HostedNode
LOCAL INSTANCE SequencesExt
LOCAL INSTANCE FiniteSetsExt

VARIABLES
  node,    \* node[n]: the state of node n
  linked,  \* the pairs of nodes with a link, connecting ones included
  chan,    \* chan[n][m]: what is on its way from n to m, in order
  budget,  \* budget[k]: how many steps of kind k are left
  early    \* whether a host went while the players did not see the same

vars == <<node, linked, chan, budget, early>>

Kinds == {"join", "drop", "cut", "crash", "handover", "end", "leave",
          "remove", "refuse", "early"}

-----------------------------------------------------------------------------
(* The network.                                                            *)

Opened == [kind |-> "connect"]
Lost(reason) == [kind |-> "lost", reason |-> reason]
IsLost(msg) == msg.kind = "lost"

(* Node n's next state s: what it sends goes out, then its links close.    *)
Becomes(n, s, ch) ==
  LET dials == {s.out[i].to : i \in {j \in DOMAIN s.out :
                                       s.out[j].msg.kind = "dial"}}
      up == linked \cup {{n, m} : m \in dials}
      sent(m) ==
        LET mine(o) == o.to = m
            new == SelectSeq(s.out, mine)
        IN IF {n, m} \in up THEN [i \in DOMAIN new |-> new[i].msg] ELSE <<>>
      closing(m) ==
        IF m \in s.closed /\ {n, m} \in up THEN <<Lost("lost")>> ELSE <<>>
  IN
  /\ node' = [node EXCEPT ![n] = [s EXCEPT !.out = <<>>, !.closed = {}]]
  /\ linked' = up \ {{n, m} : m \in s.closed}
  /\ chan' = [a \in Node |-> [b \in Node |->
                IF a = n THEN ch[a][b] \o sent(b) \o closing(b)
                ELSE IF b = n /\ a \in s.closed THEN <<>>
                ELSE ch[a][b]]]

Spend(kind) ==
  /\ budget[kind] > 0
  /\ budget' = [budget EXCEPT ![kind] = @ - 1]

(* What waits at n from m: the first message, or the end of the link at    *)
(* once, with what is before it lost.                                      *)
Arriving(n, m) ==
  LET ends == {i \in DOMAIN chan[m][n] : IsLost(chan[m][n][i])} IN
  IF chan[m][n] = <<>> THEN {}
  ELSE {1} \cup (IF ends = {} THEN {} ELSE {Min(ends)})

(* While its link to the host is whole a player hears it all the time.     *)
Hears(n) ==
  IF {n, node[n].host} \in linked THEN {TRUE} ELSE BOOLEAN

(* Why a link closed comes in a packet that may get lost.                  *)
Reasons(reason) ==
  IF reason \in {"handover", "ended"} THEN {reason, "lost"} ELSE {reason}

Receive(n, m) ==
  \E i \in Arriving(n, m) :
    LET msg == chan[m][n][i]
        s == node[n]
        ch == [chan EXCEPT ![m][n] = SubSeq(@, i + 1, Len(@))]
    IN /\ IF IsLost(msg)
          THEN \E reason \in Reasons(msg.reason) :
                 Becomes(n, HandleLost(n, s, m, reason), ch)
          ELSE IF msg = Opened
          THEN Becomes(n, HostOnConnect(s, m), ch)
          ELSE IF msg.kind = "dial"
          THEN Becomes(n, Accept(n, s, m), ch)
          ELSE \E heard \in Hears(n) :
                 Becomes(n, HandlePacket(n, s, m, msg, heard), ch)
       /\ UNCHANGED budget

-----------------------------------------------------------------------------
(* Joins.  A process is called what its host will call it.                 *)

Hosts == {n \in Node : node[n].isHost /\ Connected(node[n])}

Join(n, h) ==
  /\ Spend("join")
  /\ h \in Hosts
  /\ node[n].status = "outside" /\ node[h].next = n
  /\ ~ \E m \in Node : Opened \in ToSet(chan[m][h])
  /\ node' = [node EXCEPT ![n].status = "connecting", ![n].host = h]
  /\ linked' = linked \cup {{n, h}}
  /\ chan' = [chan EXCEPT ![n][h] = <<Opened, [kind |-> "join"]>>]

(* The game decides, at once or later.                                     *)
AdmitPlayer(h, m) ==
  /\ h \in Hosts
  /\ node[h].joining[m] = "received"
  /\ Becomes(h, Admit(h, node[h], m), chan)
  /\ UNCHANGED budget

(* The game refuses, or does not decide in time, or no join data came.     *)
RefusePlayer(h, m) ==
  /\ Spend("refuse")
  /\ h \in Hosts
  /\ node[h].joining[m] # "none"
  /\ Becomes(h, Refuse(node[h], m), chan)

-----------------------------------------------------------------------------
(* Introductions.                                                          *)

(* The socket of n's pair with m reaches the host, which closes it again.  *)
Register(n, m) ==
  LET h == node[n].host IN
  /\ Connected(node[n]) /\ h \in Hosts
  /\ node[n].pairs[m].registration
  /\ LET s == TakeRegistration(node[h], n, {n, m}) IN
     /\ s # node[h]
     /\ Becomes(h, s, chan)
  /\ UNCHANGED budget

CloseRegistration(n, m) ==
  /\ node[n].pairs[m].registration
  /\ n \in node[node[n].host].intro[{n, m}].registered
  /\ Becomes(n, RegistrationClosed(n, node[n], m), chan)
  /\ UNCHANGED budget

(* The pair did not register in time.                                      *)
RelayLate(h, l) ==
  /\ h \in Hosts
  /\ LET i == node[h].intro[l] IN i.known /\ ~ i.punching /\ ~ i.relayed
  /\ Becomes(h, RelayPair(node[h], l), chan)
  /\ UNCHANGED budget

(* There is no direct link in time.                                        *)
GiveUp(n, m) ==
  /\ node[n].pairs[m].state = "punching"
  /\ Becomes(n, FailPair(node[n], m), chan)
  /\ UNCHANGED budget

(* RELAY_GRACE_USEC passed since the direct link dropped.                  *)
AskRelay(n, m) ==
  /\ node[n].pairs[m].state = "failed" /\ node[n].pairs[m].asks
  /\ Becomes(n, RequestRelay([node[n] EXCEPT !.pairs[m].asks = FALSE], m),
             chan)
  /\ UNCHANGED budget

Decide(n) ==
  /\ node[n].confirming
  /\ Becomes(n, CheckConfirmation(n, node[n]), chan)
  /\ UNCHANGED budget

-----------------------------------------------------------------------------
(* What the nodes and the network may do.                                  *)

(* Bound: links break, and players are removed, while every player has its *)
(* host.                                                                   *)
Hosted ==
  \A n \in Node : Connected(node[n]) /\ ~ node[n].isHost =>
    node[n].host \in Hosts /\ ~ node[n].confirming

(* Everyone has the host's list of who takes over and reaches everyone on  *)
(* it, and no link is down unnoticed.                                      *)
SameView ==
  /\ \A n, m \in Node : \A msg \in ToSet(chan[n][m]) :
       msg.kind \notin {"lost", "succession"}
  /\ \A n \in Node : Connected(node[n]) /\ ~ node[n].isHost =>
       LET h == node[node[n].host] IN
       /\ node[n].succession = SuccessionOf(h)
       /\ Reported(node[n]) = h.members \ {n}

(* A link breaks: both ends notice.                                        *)
Break(n, m, reason) ==
  /\ {n, m} \in linked
  /\ linked' = linked \ {{n, m}}
  /\ chan' = [chan EXCEPT ![n][m] = Append(@, Lost(reason)),
                          ![m][n] = Append(@, Lost("lost"))]

DropPairLink(n, m) ==
  /\ n < m
  /\ m \in Direct(node[n])
  /\ Spend("drop") /\ Hosted
  /\ Break(n, m, "lost")
  /\ UNCHANGED node

CutFromHost(n) ==
  /\ Spend("cut") /\ Hosted
  /\ Connected(node[n]) /\ node[n].host # n
  /\ Break(n, node[n].host, "lost")
  /\ UNCHANGED node

(* The host crashes, hands the mesh over, or ends it: early, when its      *)
(* players do not see the same.                                            *)
HostGoes(h, kind, reason) ==
  /\ Hosted /\ h \in Hosts
  /\ budget[kind] > 0 /\ (SameView \/ budget["early"] > 0)
  /\ budget' = [budget EXCEPT ![kind] = @ - 1,
                              !["early"] = IF SameView THEN @ ELSE @ - 1]
  /\ early' = (early \/ ~ SameView)
  /\ node' = [node EXCEPT ![h] = [Outside EXCEPT !.status = "disconnected"]]
  /\ linked' = {l \in linked : h \notin l}
  /\ chan' = [a \in Node |-> [b \in Node |->
                IF b = h THEN <<>>
                ELSE IF a = h /\ {a, b} \in linked
                THEN Append(chan[a][b], Lost(reason))
                ELSE chan[a][b]]]

Crash(h) == HostGoes(h, "crash", "lost")
HandOver(h) == HostGoes(h, "handover", "handover")
EndMesh(h) == HostGoes(h, "end", "ended")

(* A player leaves, or the host removes it: nothing it is sent meanwhile   *)
(* is delivered.                                                           *)
Leave(n) ==
  LET h == node[n].host IN
  /\ Spend("leave")
  /\ Connected(node[n]) /\ h # n /\ {n, h} \in linked
  /\ node' = [node EXCEPT ![n].leaving = TRUE]
  /\ linked' = linked \ {{n, h}}
  /\ chan' = [chan EXCEPT ![n][h] = Append(@, Lost("lost")),
                          ![h][n] = <<Lost("lost")>>]

RemovePlayer(h, m) ==
  /\ Spend("remove") /\ Hosted
  /\ h \in Hosts /\ m \in node[h].members /\ {h, m} \in linked
  /\ linked' = linked \ {{h, m}}
  /\ chan' = [chan EXCEPT ![h][m] = Append(@, Lost("refused")),
                          ![m][h] = <<Lost("lost")>>]
  /\ UNCHANGED node

-----------------------------------------------------------------------------
HostLeaves ==
  \E h \in Node : Crash(h) \/ HandOver(h) \/ EndMesh(h)

OthersStep ==
  \/ \E n, m \in Node : Receive(n, m)
  \/ \E n, h \in Node : Join(n, h)
  \/ \E h, m \in Node : AdmitPlayer(h, m)
  \/ \E h, m \in Node : RefusePlayer(h, m)
  \/ \E n, m \in Node : Register(n, m)
  \/ \E n, m \in Node : CloseRegistration(n, m)
  \/ \E h \in Node, l \in Pairs : RelayLate(h, l)
  \/ \E n, m \in Node : GiveUp(n, m)
  \/ \E n, m \in Node : AskRelay(n, m)
  \/ \E n \in Node : Decide(n)
  \/ \E n, m \in Node : DropPairLink(n, m)
  \/ \E n \in Node : CutFromHost(n)
  \/ \E n \in Node : Leave(n)
  \/ \E h, m \in Node : RemovePlayer(h, m)

Next ==
  \/ HostLeaves
  \/ OthersStep /\ UNCHANGED early

(* A mesh that formed of the players "in" with host 1: the pairs "relayed" *)
(* go through it, the others are direct.  The processes "off" have their   *)
(* direct_connections off.                                                 *)
FormedHost(in, relayed) ==
  [Outside EXCEPT
     !.status = "connected", !.isHost = TRUE, !.host = 1,
     !.members = in \ {1}, !.next = Max(in) + 1,
     !.intro = [l \in Pairs |->
        IF l \subseteq in \ {1}
        THEN [NewIntroduction EXCEPT !.punching = l \notin relayed,
                                     !.registered = l,
                                     !.relayed = l \in relayed]
        ELSE NoIntroduction]]

FormedPlayer(n, in, relayed) ==
  [Outside EXCEPT
     !.status = "connected", !.host = 1, !.highest = Max(in),
     !.succession = SuccessionOf(FormedHost(in, relayed)),
     !.pairs = [m \in Node |->
        IF m \notin in \ {1, n} THEN NoPair
        ELSE [NewPair EXCEPT !.reported = TRUE, !.state =
                IF {n, m} \in relayed THEN "relayed" ELSE "direct"]]]

Init(cases) ==
  \E c \in cases :
    /\ node = [n \in Node |->
         [(IF n \notin c.in THEN Outside
           ELSE IF n = 1 THEN FormedHost(c.in, c.relayed)
           ELSE FormedPlayer(n, c.in, c.relayed))
          EXCEPT !.direct_connections = n \notin c.off]]
    /\ linked = {l \in Pairs : l \subseteq c.in} \ c.relayed
    /\ chan = [n \in Node |-> [m \in Node |-> <<>>]]
    /\ budget = c.budget
    /\ early = FALSE

-----------------------------------------------------------------------------
(* Everything on its way arrived and no time is running.                   *)
Quiet ==
  /\ \A n, m \in Node : chan[n][m] = <<>>
  /\ \A n \in Node :
       /\ ~ node[n].confirming
       /\ Joining(node[n]) = {}
       /\ \A m \in Node : LET p == node[n].pairs[m] IN
            ~ p.registration /\ ~ p.asks
            /\ p.state \notin {"registering", "punching"}
       /\ \A l \in Pairs : LET i == node[n].intro[l] IN
            i.known => i.punching \/ i.relayed

(* As long as no host went early: a player of the mesh has a host that     *)
(* knows it and is connected to every other player of it, and to no one    *)
(* else: both have the direct link, or both go through the host, which     *)
(* relays them.  However the links were made, broke while the players had  *)
(* their host (Hosted) and moved to another host (player_service_pair,     *)
(* player_set_relayed, host_relay_pair, player_follow_host,                *)
(* host_handle_rejoin).                                                    *)
PairsMeet ==
  ~ early /\ Quiet =>
    \A n \in Node : Connected(node[n]) /\ ~ node[n].isHost =>
      LET h == node[n].host
          others == node[h].members \ {n}
      IN /\ h \in Hosts /\ n \in node[h].members /\ {n, h} \in linked
         /\ Reported(node[n]) = others
         /\ \A m \in others :
              /\ node[n].pairs[m].state = node[m].pairs[n].state
              /\ IF node[n].pairs[m].state = "direct"
                 THEN {n, m} \in linked
                 ELSE node[h].intro[{n, m}].relayed

(* One player at most takes over, and none while the host is still there:  *)
(* a player that lost the host alone leaves instead of splitting the mesh  *)
(* (player_confirm_host_loss, player_check_confirmation, player_migrate).  *)
(* As long as no host went early: every player had its list of who takes   *)
(* over and reached everyone on it, and no broken link was unnoticed.      *)
(* What it excludes is the case of AlwaysOneHost.                          *)
OneHost == ~ early => Cardinality(Hosts) <= 1

(* What player_migrate says: everyone has the same list, so everyone picks *)
(* the same player.  A host that goes while a new list, or what became of  *)
(* a link, reached only some of the players leaves two of them that both   *)
(* take over (player_migrate, player_become_host).                         *)
AlwaysOneHost == Cardinality(Hosts) <= 1
=============================================================================
