----------------------------- MODULE MeshRoles -----------------------------
(***************************************************************************)
(* Who has the registry of a mesh (src/source/sync/tick_mesh_core.cpp):    *)
(* every node keeps the roles it knows, tells the nodes it is connected to *)
(* what it sees of the process that has them, and the successor of a       *)
(* process nobody sees takes the roles, while links drop and come back,    *)
(* nodes restart and games move the roles by hand.                         *)
(*                                                                         *)
(* One role: a mesh whose clock master is its registry, and whose games    *)
(* move both together, treats the two roles alike in every line below.     *)
(* Terms are naturals: MeshSerial shows that the wrapping counters compare *)
(* like them.  A process is the number of times its node started; boot ids *)
(* are only compared for one node.                                         *)
(***************************************************************************)
EXTENDS Naturals, Sequences, FiniteSets, Functions

CONSTANTS
  Node,        \* the ids of the nodes, positive
  First,       \* the node the roles start on (registry_peer)
  Settings,    \* the settings a mesh may have: "candidates", the nodes that
               \* take lost roles in order, empty: any; "quorum", how many
               \* nodes a registry needs (role_quorum); "nodes", the mesh;
               \* "environment", what the games and the network do to it;
               \* "faults", bound: how often they do; "flight", bound: not
               \* with more messages on their way
  MaxTerm      \* bound: nobody takes or moves the roles from this term on

ASSUME RolesAssumption ==
  /\ Node \subseteq Nat \ {0}
  /\ IsFiniteSet(Node)
  /\ First \in Node
  /\ \A s \in Settings :
       /\ s.candidates \in Seq(Node) /\ s.quorum \in Nat
       /\ s.nodes \subseteq Node /\ First \in s.nodes
       /\ s.faults \in Nat /\ s.flight \in Nat

-----------------------------------------------------------------------------
(* The roles: their term, the node that has them and its process (0:       *)
(* unknown).  A status is a node's roles and what it sees of the process.  *)

Roles == [term : Nat, node : Node, boot : Nat]
View == {"unknown", "seen", "lost"}
Status == [roles : Roles, view : View]
NoStatus == [view |-> "none"]

Peer == [known : BOOLEAN, ready : BOOLEAN, boot : Nat,
         status : Status \cup {NoStatus}]
NoPeer == [known |-> FALSE, ready |-> FALSE, boot |-> 0, status |-> NoStatus]

Opened == [kind |-> "open"]
Lost == [kind |-> "lost"]
HelloOf(roles, boot) == [kind |-> "hello", roles |-> roles, boot |-> boot]
RolesOf(roles) == [kind |-> "roles", roles |-> roles]
StatusOf(status) == [kind |-> "status", status |-> status]

Message == [kind : {"open", "lost"}]
  \cup [kind : {"hello"}, roles : Roles, boot : Nat]
  \cup [kind : {"roles"}, roles : Roles]
  \cup [kind : {"status"}, status : Status]

(* Two nodes know the same roles, or the first knows later ones.           *)
SameRoles(r, s) == r.term = s.term /\ r.node = s.node
MutantBeats(r, s) == r.term > s.term
Beats(r, s) == r.term > s.term \/ (r.term = s.term /\ r.node < s.node)

-----------------------------------------------------------------------------
VARIABLES
  settings, \* the settings of the nodes of this mesh
  boot,    \* boot[n]: node n's process
  roles,   \* roles[n]: the roles as node n knows them
  peer,    \* peer[n][m]: what node n knows about node m
  sent,    \* sent[n]: the status node n last told the others
  linked,  \* the pairs of nodes with a link
  chan,    \* chan[n][m]: what is on its way from n to m, in order
  faults   \* how many faults happened

vars == <<settings, boot, roles, peer, sent, linked, chan, faults>>

MutantStartRoles(n, b) ==
  [term |-> 0, node |-> IF n = First THEN First ELSE 0,
   boot |-> IF n = First THEN b ELSE 0]
StartRoles(n, b) ==
  [term |-> 0, node |-> First, boot |-> IF n = First THEN b ELSE 0]

Init ==
  /\ settings \in Settings
  /\ boot = [n \in Node |-> 1]
  /\ roles = [n \in Node |-> StartRoles(n, 1)]
  /\ peer = [n \in Node |-> [m \in Node |-> NoPeer]]
  /\ sent = [n \in Node |-> NoStatus]
  /\ linked = {}
  /\ chan = [n \in Node |-> [m \in Node |-> <<>>]]
  /\ faults = 0

(* A mesh that formed: every node is connected to every other, and all     *)
(* know the process of the first registry and see it.                      *)
FirstRoles == [term |-> 0, node |-> First, boot |-> 1]
SeesFirst == [roles |-> FirstRoles, view |-> "seen"]

Formed ==
  /\ settings \in Settings
  /\ boot = [n \in Node |-> 1]
  /\ roles = [n \in Node |-> FirstRoles]
  /\ peer = [n \in Node |-> [m \in Node |->
       IF n # m /\ {n, m} \subseteq settings.nodes
       THEN [known |-> TRUE, ready |-> TRUE, boot |-> 1, status |-> SeesFirst]
       ELSE NoPeer]]
  /\ sent = [n \in Node |-> SeesFirst]
  /\ linked = {l \in SUBSET settings.nodes : \E n, m \in l : n # m /\ l = {n, m}}
  /\ chan = [n \in Node |-> [m \in Node |-> <<>>]]
  /\ faults = 0

-----------------------------------------------------------------------------
(* What node n knows.                                                      *)

Ready(n) == {m \in Node : peer[n][m].ready}
InMesh(n) == Ready(n) \cup {n}
HasQuorum(n) == Cardinality(InMesh(n)) >= settings.quorum

(* What node n, with p what it knows about the others, sees of the process *)
(* that has the roles r.                                                   *)
Process(n, p, m) ==
  IF m = n THEN boot[n] ELSE IF p[m].ready THEN p[m].boot ELSE 0
Present(n, p, r) == r.boot # 0 /\ Process(n, p, r.node) = r.boot

ViewOf(n, p, r) ==
  IF r.boot = 0 THEN "unknown" ELSE IF Present(n, p, r) THEN "seen" ELSE "lost"
StatusFor(n, p, r) == [roles |-> r, view |-> ViewOf(n, p, r)]
MyStatus(n) == StatusFor(n, peer[n], roles[n])

MutantVacant(n) ==
  roles[n].boot # 0 /\ ~ peer[n][roles[n].node].ready /\ roles[n].node # n

(* The process with the roles is lost; or nobody can tell which one it is, *)
(* in roles that moved, and its node is not in the mesh.                   *)
Vacant(n) ==
  \/ roles[n].boot # 0 /\ ~ Present(n, peer[n], roles[n])
  \/ roles[n].boot = 0 /\ roles[n].term # 0 /\ roles[n].node \notin InMesh(n)

(* The lowest id; or the first candidate, or the node of the lost roles    *)
(* if no candidate is in the mesh.                                         *)
MutantIsSuccessor(n) == \A m \in InMesh(n) : n <= m

IsSuccessor(n) ==
  LET candidates == settings.candidates IN
  IF candidates = <<>> THEN \A m \in InMesh(n) : n <= m
  ELSE \/ \E i \in DOMAIN candidates :
            /\ candidates[i] = n
            /\ \A j \in 1 .. (i - 1) : candidates[j] \notin InMesh(n)
       \/ /\ \A i \in DOMAIN candidates : candidates[i] \notin InMesh(n)
          /\ MyStatus(n).view = "lost"
          /\ roles[n].node = n

(* Node m said, for the roles n knows, that it does not see the process n  *)
(* lost.                                                                   *)
MutantSaysLost(n, m) == peer[n][m].status # NoStatus

SaysLost(n, m) ==
  LET s == peer[n][m].status IN
  /\ s # NoStatus
  /\ SameRoles(s.roles, roles[n])
  /\ s.view = "seen" => roles[n].boot \notin {0, s.roles.boot}

Fills(n) ==
  /\ Vacant(n)
  /\ IsSuccessor(n)
  /\ HasQuorum(n)
  /\ \A m \in Ready(n) : SaysLost(n, m)

-----------------------------------------------------------------------------
(* Sending: only over a link whose loss is not waiting to be handled.      *)

CanSend(ch, n, m) ==
  {n, m} \in linked /\ (ch[m][n] = <<>> \/ Head(ch[m][n]) # Lost)

Send(ch, n, m, msg) ==
  IF CanSend(ch, n, m) THEN [ch EXCEPT ![n][m] = Append(@, msg)] ELSE ch

SendReady(ch, n, msg) ==
  [ch EXCEPT ![n] = [m \in Node |-> IF m \in Ready(n) /\ CanSend(ch, n, m)
                                    THEN Append(@[m], msg)
                                    ELSE @[m]]]

Popped(m, n) == [chan EXCEPT ![m][n] = Tail(@)]

(* The roles r as node n takes them: roles announced without their process *)
(* are this one's, or the one n knew for their node.                       *)
MutantAdopted(n, r) ==
  IF r.node = roles[n].node THEN [r EXCEPT !.boot = roles[n].boot] ELSE r

Adopted(n, r) ==
  IF r.boot # 0 THEN r
  ELSE [r EXCEPT !.boot = IF r.node = n THEN boot[n]
                          ELSE IF r.node = roles[n].node THEN roles[n].boot
                          ELSE 0]

(* The same roles with another process: the one that is here came later.   *)
Learned(n, r) ==
  IF /\ r.boot \notin {0, roles[n].boot}
     /\ roles[n].boot = 0 \/ Present(n, peer[n], roles[n])
  THEN r
  ELSE roles[n]

-----------------------------------------------------------------------------
(* Node n handles what comes from node m.                                  *)

HandleOpen(n, m) ==
  /\ peer' = [peer EXCEPT ![n][m].known = TRUE]
  /\ chan' = IF peer[n][m].known THEN Popped(m, n)
             ELSE Send(Popped(m, n), n, m, HelloOf(roles[n], boot[n]))
  /\ UNCHANGED <<roles, sent>>

HandleLost(n, m) ==
  /\ peer' = [peer EXCEPT ![n][m] = NoPeer]
  /\ chan' = Popped(m, n)
  /\ UNCHANGED <<roles, sent>>

(* The handshake of m: later roles are adopted, the process of the same    *)
(* ones is learned, and m is told what n sees.                             *)
HelloRoles(n, r) ==
  IF Beats(r, roles[n]) THEN Adopted(n, r)
  ELSE IF SameRoles(r, roles[n]) THEN Learned(n, r)
  ELSE roles[n]

HandleHello(n, m, msg) ==
  IF peer[n][m].known /\ ~ peer[n][m].ready
  THEN /\ roles' = [roles EXCEPT ![n] = HelloRoles(n, msg.roles)]
       /\ peer' = [peer EXCEPT ![n][m].boot = msg.boot, ![n][m].ready = TRUE]
       /\ chan' = Send(Popped(m, n), n, m,
                       StatusOf(StatusFor(n, peer'[n], roles'[n])))
       /\ UNCHANGED sent
  ELSE chan' = Popped(m, n) /\ UNCHANGED <<peer, roles, sent>>

(* Later roles are passed on, then adopted; older ones are answered.       *)
MutantHandleRoles(n, m, msg) ==
  /\ IF Beats(msg.roles, roles[n])
     THEN /\ chan' = SendReady(Popped(m, n), n, RolesOf(msg.roles))
          /\ roles' = [roles EXCEPT ![n] = Adopted(n, msg.roles)]
     ELSE /\ chan' = Send(Popped(m, n), n, m, RolesOf(roles[n]))
          /\ UNCHANGED roles
  /\ UNCHANGED <<peer, sent>>

HandleRoles(n, m, msg) ==
  /\ IF Beats(msg.roles, roles[n])
     THEN /\ chan' = SendReady(Popped(m, n), n, RolesOf(msg.roles))
          /\ roles' = [roles EXCEPT ![n] = Adopted(n, msg.roles)]
     ELSE /\ chan' = IF Beats(roles[n], msg.roles)
                     THEN Send(Popped(m, n), n, m, RolesOf(roles[n]))
                     ELSE Popped(m, n)
          /\ UNCHANGED roles
  /\ UNCHANGED <<peer, sent>>

(* What m sees is kept; if it knows older roles it gets the current ones,  *)
(* and of the same roles n learns the process.                             *)
HandleRoleStatus(n, m, msg) ==
  /\ peer' = [peer EXCEPT ![n][m].status = msg.status]
  /\ IF Beats(roles[n], msg.status.roles)
     THEN /\ chan' = Send(Popped(m, n), n, m, RolesOf(roles[n]))
          /\ UNCHANGED roles
     ELSE /\ chan' = Popped(m, n)
          /\ roles' = IF SameRoles(msg.status.roles, roles[n])
                      THEN [roles EXCEPT ![n] = Learned(n, msg.status.roles)]
                      ELSE roles
  /\ UNCHANGED sent

(* Anything but a handshake is taken only from a node that passed one.     *)
HandlePacket(n, m, msg) ==
  IF msg.kind = "hello" THEN HandleHello(n, m, msg)
  ELSE IF ~ peer[n][m].ready
  THEN chan' = Popped(m, n) /\ UNCHANGED <<peer, roles, sent>>
  ELSE IF msg.kind = "roles" THEN HandleRoles(n, m, msg)
  ELSE HandleRoleStatus(n, m, msg)

Receive(n, m) ==
  /\ chan[m][n] # <<>>
  /\ LET msg == Head(chan[m][n]) IN
     IF msg = Opened THEN HandleOpen(n, m)
     ELSE IF msg = Lost THEN HandleLost(n, m)
     ELSE HandlePacket(n, m, msg)
  /\ UNCHANGED <<settings, boot, linked, faults>>

(* At the end of a step: tells what n sees if that changed, then takes the *)
(* roles nobody has if n is their successor.                               *)
Takes(n) == Fills(n) /\ roles[n].term < MaxTerm
Taken(n) == [term |-> roles[n].term + 1, node |-> n, boot |-> boot[n]]

UpdateRoles(n) ==
  LET told == IF MyStatus(n) = sent[n] THEN chan
              ELSE SendReady(chan, n, StatusOf(MyStatus(n)))
  IN
  /\ n \in settings.nodes
  /\ MyStatus(n) # sent[n] \/ Takes(n)
  /\ sent' = [sent EXCEPT ![n] = MyStatus(n)]
  /\ IF Takes(n)
     THEN /\ chan' = SendReady(told, n, RolesOf(Taken(n)))
          /\ roles' = [roles EXCEPT ![n] = Taken(n)]
     ELSE chan' = told /\ UNCHANGED roles
  /\ UNCHANGED <<settings, boot, peer, linked, faults>>

-----------------------------------------------------------------------------
(* What the games and the network do is bounded.                           *)
Flight ==
  {p \in Node \X Node \X (1 .. settings.flight + 1) :
     p[3] <= Len(chan[p[1]][p[2]])}

Fault(kind) ==
  /\ kind \in settings.environment
  /\ faults < settings.faults
  /\ Cardinality(Flight) <= settings.flight
  /\ faults' = faults + 1

(* The game moves the roles to a connected node.                           *)
ChangeRoles(n) ==
  /\ n \in settings.nodes
  /\ Fault("change")
  /\ roles[n].term < MaxTerm
  /\ \E m \in InMesh(n) \ {roles[n].node} :
       LET r == [term |-> roles[n].term + 1, node |-> m,
                 boot |-> Process(n, peer[n], m)] IN
       /\ chan' = SendReady(chan, n, RolesOf(r))
       /\ roles' = [roles EXCEPT ![n] = Adopted(n, r)]
  /\ UNCHANGED <<settings, boot, peer, sent, linked>>

(* Links come up, and drop with some of what is on its way.                *)
Connect(n, m) ==
  /\ n < m /\ {n, m} \subseteq settings.nodes
  /\ {n, m} \notin linked
  /\ Cardinality(Flight) <= settings.flight
  /\ linked' = linked \cup {{n, m}}
  /\ chan' = [chan EXCEPT ![n][m] = Append(@, Opened),
                          ![m][n] = Append(@, Opened)]
  /\ UNCHANGED <<settings, boot, roles, peer, sent, faults>>

Prefixes(s) == {SubSeq(s, 1, i) : i \in 0 .. Len(s)}

Disconnect(n, m) ==
  /\ Fault("disconnect")
  /\ n < m /\ {n, m} \in linked
  /\ linked' = linked \ {{n, m}}
  /\ \E s \in Prefixes(chan[n][m]), t \in Prefixes(chan[m][n]) :
       chan' = [chan EXCEPT ![n][m] = Append(s, Lost),
                            ![m][n] = Append(t, Lost)]
  /\ UNCHANGED <<settings, boot, roles, peer, sent>>

(* Process n stops and starts again; what it sent before may still arrive. *)
Restart(n) ==
  /\ n \in settings.nodes
  /\ Fault("restart")
  /\ boot' = [boot EXCEPT ![n] = @ + 1]
  /\ roles' = [roles EXCEPT ![n] = StartRoles(n, boot[n] + 1)]
  /\ peer' = [peer EXCEPT ![n] = [m \in Node |-> NoPeer]]
  /\ sent' = [sent EXCEPT ![n] = NoStatus]
  /\ linked' = {l \in linked : n \notin l}
  /\ chan' = [k \in Node |-> [m \in Node |->
                IF m = n THEN <<>>
                ELSE IF k = n /\ {n, m} \in linked
                THEN Append(chan[n][m], Lost)
                ELSE chan[k][m]]]
  /\ UNCHANGED settings

-----------------------------------------------------------------------------
Next ==
  \/ \E n, m \in Node : Receive(n, m)
  \/ \E n \in Node : UpdateRoles(n)
  \/ \E n \in Node : ChangeRoles(n)
  \/ \E n, m \in Node : Connect(n, m)
  \/ \E n, m \in Node : Disconnect(n, m)
  \/ \E n \in Node : Restart(n)

Spec == Init /\ [][Next]_vars
FormedSpec == Formed /\ [][Next]_vars

Fairness ==
  WF_vars(\/ \E n, m \in Node : Receive(n, m)
          \/ \E n \in Node : UpdateRoles(n))

FairSpec == Spec /\ Fairness

-----------------------------------------------------------------------------
TypeOK ==
  /\ settings \in Settings
  /\ boot \in [Node -> Nat \ {0}]
  /\ roles \in [Node -> Roles]
  /\ peer \in [Node -> [Node -> Peer]]
  /\ sent \in [Node -> Status \cup {NoStatus}]
  /\ linked \subseteq SUBSET Node
  /\ chan \in [Node -> [Node -> Seq(Message)]]
  /\ faults \in 0 .. settings.faults

(* Every message is handled, and no node has anything to tell or to take.  *)
Settled ==
  /\ \A n, m \in Node : chan[n][m] = <<>>
  /\ \A n \in settings.nodes : sent[n] = MyStatus(n) /\ ~ Fills(n)

(* Every node is connected to every other.                                 *)
Whole == \A n, m \in settings.nodes : n # m => m \in Ready(n)

(* A node that answers as the registry (registry_can_act).                 *)
Acts(n) == roles[n].node = n /\ roles[n].boot = boot[n] /\ HasQuorum(n)

(* No process of the mesh started over.                                    *)
NoneRestarted == \A n \in Node : boot[n] = 1

SameEverywhere == \A n, m \in settings.nodes : roles[n] = roles[m]

(* A mesh that is whole again settles on one assignment of the roles, and  *)
(* on one process that has them, whatever its parts decided while they     *)
(* were apart (roles_beat, handle_hello, handle_role_status).  In a mesh   *)
(* of three or more, as long as no node restarts: the node that took or    *)
(* moved the roles is there to tell the others.                            *)
RolesAgree ==
  /\ Settled
  /\ Whole
  /\ Cardinality(settings.nodes) > 2 => NoneRestarted
  => SameEverywhere

(* The same of every mesh: "shake a distributed mesh (links that drop,     *)
(* nodes that restart, roles and owners that change) and check that every  *)
(* node ends with the same view" (tests/test_tick_fuzz.h).  A node that    *)
(* adopts later roles from a handshake passes them on to nobody.           *)
WholeMeshAgrees == Settled /\ Whole => SameEverywhere

(* A mesh that is whole, and large enough for its quorum, has a registry   *)
(* once it settles: no restart, no loss and no assignment leaves the roles *)
(* with a process that is gone (is_role_vacant, fill_vacant_roles,         *)
(* learn_role_boots).                                                      *)
RegistryFound ==
  Settled /\ Whole /\ settings.quorum <= Cardinality(settings.nodes) =>
    \E n \in Node : Acts(n)

(* The roles of up to three nodes move at most once for each thing that    *)
(* went wrong: no two successors take them from each other by turns, and a *)
(* successor does not take again what it has (fill_vacant_roles).  Of four *)
(* nodes in a line, the last one takes the roles of the first: the node    *)
(* between them that it is connected to does not see the first one either. *)
TermsPerFault ==
  Cardinality(settings.nodes) <= 3 => \A n \in Node : roles[n].term <= faults

(* One broken link of a mesh of three or more that formed moves no role:   *)
(* the node that lost the registry is told by the others that they see it  *)
(* (fill_vacant_roles).                                                    *)
BrokenLinkKeepsRoles ==
  /\ settings.environment \subseteq {"disconnect"}
  /\ faults <= 1
  /\ Cardinality(settings.nodes) > 2
  => \A n \in Node : roles[n].term = 0

(* Without a game that moves them, the roles are only ever with their first *)
(* node and its reserves, also while none of these is in the mesh: "node 1  *)
(* has them, node 2 is its reserve, and no other node ever does"            *)
(* (get_role_successor).                                                    *)
ReservesOnly ==
  settings.candidates # <<>> /\ "change" \notin settings.environment =>
    \A n \in Node : roles[n].node \in {First} \cup Range(settings.candidates)

(* Once the links stay as they are, the nodes stop telling each other: the *)
(* answers to older roles and the news of what a node sees come to an end  *)
(* (handle_roles, handle_role_status, update_roles).                       *)
RolesSettle == <>[]Settled

(* With a quorum of more than half of the mesh, two nodes do not both go   *)
(* on as its registry: "a mesh that splits never gets a second registry"   *)
(* (TickNetwork.role_quorum).                                              *)
OneRegistry ==
  Settled /\ 2 * settings.quorum > Cardinality(settings.nodes) =>
    \A n, m \in Node : Acts(n) /\ Acts(m) => n = m
=============================================================================
