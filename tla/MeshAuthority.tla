--------------------------- MODULE MeshAuthority ---------------------------
(***************************************************************************)
(* The authority over one synchronized object of a mesh of servers         *)
(* (src/source/sync/tick_mesh_core.cpp): the registry node keeps the       *)
(* record of the object's id, version and owner, every node keeps an entry *)
(* with what the registry announced, and the game code of any node         *)
(* registers, requests, releases and assigns the object at any time, while *)
(* links drop and come back and nodes restart.                             *)
(*                                                                         *)
(* One object path: the code keeps nothing that ties two paths together    *)
(* but the supply of ids.  The registry's process stays (MeshRoles moves   *)
(* the role).  Versions are naturals: MeshSerial shows that the wrapping   *)
(* counters compare like them.  The frames and the states that travel with *)
(* an announcement are left out.                                           *)
(***************************************************************************)
EXTENDS Naturals, Sequences, FiniteSets

CONSTANTS
  Node,         \* the nodes of the mesh
  Registry,     \* the node with the registry role
  Nobody,       \* the owner of an orphan (0 in the code)
  None,         \* no transfer pending, and the refusal of one (-1)
  Schema,       \* the hashes of the variables a node declares
  SchemaOf,     \* SchemaOf[n]: the one of node n's object
  Controller,   \* the object's controller peer, or Nobody
  Environment,  \* what the games and the network do in this instance
  MaxId,        \* bound: the ids the registry gives out
  MaxVersion,   \* bound: no game or network step from this version on
  MaxFlight     \* bound: no such step with more messages on their way

Owner == Node \cup {Nobody}

ASSUME NodeAssumption ==
  /\ Registry \in Node
  /\ Nobody \notin Node
  /\ None \notin Owner
  /\ SchemaOf \in [Node -> Schema]
  /\ Controller \in Owner
  /\ MaxId \in Nat

-----------------------------------------------------------------------------
(* Messages.  One reliable, ordered channel from each node to the registry *)
(* and one back; the registry's own messages go through one queue.         *)
(* marks "hello" and "lost" stand for the handshake and for the transport's*)
(* report that the link dropped.                                           *)

Id == 1 .. MaxId

Up(n) == <<n, "up">>
Down(n) == IF n = Registry THEN <<n, "up">> ELSE <<n, "down">>
Channel == Node \X {"up", "down"}

Mark == [kind : {"open", "hello", "lost"}]
ClaimMessage == [kind : {"claim"}, schema : Schema]
ObjectMessage == [kind : {"drop", "request", "unregister", "denied"}, id : Id]
AssignMessage == [kind : {"assign"}, id : Id, to : Owner]
ReleaseMessage ==
  [kind : {"release"}, id : Id, ver : Nat, to : Owner \cup {None}]
AnnounceMessage ==
  [kind : {"announce"}, id : Id, ver : Nat, owner : Owner, schema : Schema]
TransferMessage ==
  [kind : {"transfer"}, id : Id, ver : Nat, to : Owner, forced : BOOLEAN]

Message == Mark \cup ClaimMessage \cup ObjectMessage \cup AssignMessage
  \cup ReleaseMessage \cup AnnounceMessage \cup TransferMessage

Opened == [kind |-> "open"]
Hello == [kind |-> "hello"]
Lost == [kind |-> "lost"]
About(kind, id) == [kind |-> kind, id |-> id]

(* The registry's record of the object, and a node's entry for it; id 0:   *)
(* there is none.  "to" and "req" are the pending transfer's new owner and *)
(* requester.                                                              *)
Record ==
  [id : 0 .. MaxId, owner : Owner, ver : Nat, prev : Nat, schema : Schema,
   to : Owner \cup {None}, req : Owner]
Entry ==
  [id : 0 .. MaxId, owner : Owner, ver : Nat, schema : Schema,
   bound : BOOLEAN, frozen : BOOLEAN, own : BOOLEAN]

NoRecord ==
  [id |-> 0, owner |-> Nobody, ver |-> 0, prev |-> 0,
   schema |-> SchemaOf[Registry], to |-> None, req |-> Nobody]
NoEntry ==
  [id |-> 0, owner |-> Nobody, ver |-> 0, schema |-> SchemaOf[Registry],
   bound |-> FALSE, frozen |-> FALSE, own |-> FALSE]

-----------------------------------------------------------------------------
VARIABLES
  record,     \* registry: the object's record
  nextId,     \* registry: the next id to give out
  ready,      \* registry: the other nodes that passed the handshake
  departed,   \* registry: the nodes that were in the mesh and left
  local,      \* local[n]: node n's game registered the object
  entry,      \* entry[n]: node n's view of the object
  requested,  \* requested[n]: ids node n asked for, without an answer yet
  reach,      \* reach[n]: node n passed the registry's handshake
  linked,     \* the nodes with a link to the registry
  chan,       \* the channels
  written     \* history: every fact the registry wrote

registryVars == <<record, nextId, ready, departed, written>>
nodeVars == <<local, entry, requested, reach>>
vars == <<registryVars, nodeVars, linked, chan>>

FactOf(x) == [id |-> x.id, ver |-> x.ver, owner |-> x.owner]

Init ==
  /\ record = NoRecord
  /\ nextId = 1
  /\ ready = {}
  /\ departed = {}
  /\ local = [n \in Node |-> FALSE]
  /\ entry = [n \in Node |-> NoEntry]
  /\ requested = [n \in Node |-> {}]
  /\ reach = [n \in Node |-> n = Registry]
  /\ linked = {}
  /\ chan = [c \in Channel |-> <<>>]
  /\ written = {}

-----------------------------------------------------------------------------
(* Sending.  What is sent over a link that dropped is lost, also while its *)
(* loss is still to be handled.                                            *)

Pop(c) == [chan EXCEPT ![c] = Tail(@)]

LossAhead(c) == chan[c] # <<>> /\ Head(chan[c]) = Lost

(* The nodes a message of the registry can reach, and the nodes that can   *)
(* send the registry one.                                                  *)
Open(n) == n = Registry \/ (n \in linked /\ ~ LossAhead(Up(n)))
CanSend(n) == n = Registry \/ (n \in linked /\ ~ LossAhead(Down(n)))

(* Message m to each node of "nodes", after what is in ch.                 *)
Tell(ch, nodes, m) ==
  [c \in Channel |-> IF \E n \in nodes : Open(n) /\ c = Down(n)
                     THEN Append(ch[c], m)
                     ELSE ch[c]]

(* Message m from node n to the registry, after what is in ch.             *)
Ask(ch, n, m) ==
  IF CanSend(n) THEN [ch EXCEPT ![Up(n)] = Append(@, m)] ELSE ch

-----------------------------------------------------------------------------
(* The registry.                                                           *)

Members == ready \cup {Registry}

Pending(r) == r.to # None

NoTransfer(r) == [r EXCEPT !.to = None, !.req = Nobody]

Announcement(r) ==
  [kind |-> "announce", id |-> r.id, ver |-> r.ver, owner |-> r.owner,
   schema |-> r.schema]

(* Mutant: the first claim decides the variables, the registry's own       *)
(* object does not.                                                        *)
MutantSchemaToRecord(told) == told

(* The schema hash to record: the registry's own object is the reference.  *)
SchemaToRecord(told) == IF local[Registry] THEN SchemaOf[Registry] ELSE told

(* Mutant: a change of owner keeps the version.                            *)
MutantChanged(r, owner) ==
  [id |-> r.id, owner |-> owner, ver |-> r.ver, prev |-> r.prev,
   schema |-> r.schema, to |-> None, req |-> Nobody]

(* The record r with a new owner: a new version, and no pending transfer.  *)
Changed(r, owner) ==
  [id |-> r.id, owner |-> owner, ver |-> r.ver + 1,
   prev |-> IF r.owner = owner THEN r.ver ELSE 0,
   schema |-> r.schema, to |-> None, req |-> Nobody]

(* Who is told that the pending transfer of r does not happen, because the *)
(* object goes to "owner".                                                 *)
Overruled(r, owner) ==
  IF Pending(r) /\ r.to # owner THEN {r.req} ELSE {}

(* The registry gives r to "owner" and announces it to every member.       *)
ChangeOwner(ch, members, r, owner) ==
  LET told == Tell(ch, Overruled(r, owner) \cap members, About("denied", r.id))
  IN  /\ record' = Changed(r, owner)
      /\ written' = written \cup {FactOf(Changed(r, owner))}
      /\ chan' = Tell(told, members, Announcement(Changed(r, owner)))

KeepRecord == UNCHANGED <<record, written>>

(* The pending transfer ends, and its requester is told unless it is gone. *)
CancelTransfer(ch, members) ==
  /\ record' = NoTransfer(record)
  /\ chan' = Tell(ch, {record.req} \cap members, About("denied", record.id))
  /\ UNCHANGED written

(* What node n asked is denied, or not answered at all.                    *)
Deny(n, id) ==
  /\ chan' = Tell(Pop(Up(n)), {n}, About("denied", id))
  /\ KeepRecord

Ignore(n) == chan' = Pop(Up(n)) /\ KeepRecord

(* A claim of a path that is registered already.                           *)
ClaimKnown(n) ==
  LET r == [record EXCEPT !.schema = SchemaToRecord(record.schema)]
  IN  IF r.schema # record.schema
      THEN ChangeOwner(Pop(Up(n)), Members, r, r.owner)
      ELSE /\ chan' = Tell(Pop(Up(n)), {n}, Announcement(record))
           /\ KeepRecord

(* Mutants: a controller that left gets the object; the id is not used up. *)
MutantClaimNewOwner(n, m) ==
  LET r == [id |-> nextId, ver |-> 1, prev |-> 0,
            owner |-> IF Controller # Nobody THEN Controller ELSE n,
            schema |-> SchemaToRecord(m.schema), to |-> None, req |-> Nobody]
  IN  /\ record' = r
      /\ nextId' = nextId + 1
      /\ written' = written \cup {FactOf(r)}
      /\ chan' = Tell(Pop(Up(n)), Members, Announcement(r))

MutantClaimNewId(n, m) ==
  LET r == [id |-> nextId, ver |-> 1, prev |-> 0, owner |-> n,
            schema |-> SchemaToRecord(m.schema), to |-> None, req |-> Nobody]
  IN  /\ record' = r
      /\ UNCHANGED nextId
      /\ written' = written \cup {FactOf(r)}
      /\ chan' = Tell(Pop(Up(n)), Members, Announcement(r))

(* The first claim of a path decides the first owner.                      *)
ClaimNew(n, m) ==
  LET wanted == IF Controller # Nobody THEN Controller ELSE n
      r == [id |-> nextId, ver |-> 1, prev |-> 0,
            owner |-> IF wanted \in departed \ Members THEN Nobody ELSE wanted,
            schema |-> SchemaToRecord(m.schema), to |-> None, req |-> Nobody]
  IN  /\ record' = r
      /\ nextId' = nextId + 1
      /\ written' = written \cup {FactOf(r)}
      /\ chan' = Tell(Pop(Up(n)), Members, Announcement(r))

(* Mutant: the ids are never used up.                                      *)
MutantHandleClaim(n, m) ==
  \/ record.id # 0 /\ ClaimKnown(n) /\ UNCHANGED nextId
  \/ record.id = 0 /\ ClaimNew(n, m)

HandleClaim(n, m) ==
  \/ /\ record.id # 0
     /\ ClaimKnown(n)
     /\ UNCHANGED nextId
  \/ /\ record.id = 0
     /\ nextId <= MaxId
     /\ ClaimNew(n, m)
  \/ /\ record.id = 0
     /\ nextId > MaxId           \* "Too many synchronized objects."
     /\ Ignore(n) /\ UNCHANGED nextId

(* The owner's object is gone: the registry forgets it.                    *)
HandleDrop(n, m) ==
  \/ /\ record.id = m.id /\ record.owner = n
     /\ record' = NoRecord
     /\ chan' = Tell(Pop(Up(n)), Members, About("unregister", m.id))
     /\ UNCHANGED written
  \/ /\ record.id # m.id \/ record.owner # n
     /\ Ignore(n)

(* The owner is asked to hand the object to "to".                          *)
StartTransfer(n, to, forced) ==
  /\ record' = [record EXCEPT !.to = to, !.req = n]
  /\ chan' = Tell(Pop(Up(n)), {record.owner},
                  [kind |-> "transfer", id |-> record.id, ver |-> record.ver,
                   to |-> to, forced |-> forced])
  /\ UNCHANGED written

(* Node n asked for the object to go to "to".  An orphan goes at once, and *)
(* so does an object whose owner is not in the mesh.                       *)
MoveTo(n, to, forced) ==
  \/ record.owner = to /\ Ignore(n)
  \/ /\ record.owner # to /\ record.owner \notin Members
     /\ ChangeOwner(Pop(Up(n)), Members, record, to)
  \/ /\ record.owner # to /\ record.owner \in Members
     /\ StartTransfer(n, to, forced)

HandleRequest(n, m) ==
  \/ /\ record.id # m.id \/ Pending(record)
     /\ Deny(n, m.id)
  \/ /\ record.id = m.id /\ ~ Pending(record)
     /\ MoveTo(n, n, FALSE)

(* Mutant: an assignment of an object on its way elsewhere is not answered.*)
MutantHandleAssign(n, m) ==
  \/ record.id # m.id /\ Deny(n, m.id)
  \/ record.id = m.id /\ Pending(record) /\ Ignore(n)
  \/ record.id = m.id /\ ~ Pending(record) /\ MoveTo(n, m.to, TRUE)

(* An assignment is forced: the owner cannot refuse it.                    *)
HandleAssign(n, m) ==
  LET possible == m.to \in Members \cup {Nobody}
  IN  \/ /\ record.id # m.id \/ Pending(record) \/ ~ possible
         /\ Deny(n, m.id)
      \/ /\ record.id = m.id /\ ~ Pending(record) /\ possible
         /\ MoveTo(n, m.to, TRUE)

(* A release, or a refusal, counts from the current owner only, for the    *)
(* current version or the one before the registry announced it again.      *)
CurrentRelease(n, m) ==
  /\ record.id = m.id
  /\ record.owner = n
  /\ \/ record.ver = m.ver
     \/ record.prev # 0 /\ record.prev = m.ver

(* Mutant: a release to a node that left is not answered.                  *)
MutantHandleRelease(n, m) ==
  \/ ~ CurrentRelease(n, m) /\ Deny(n, m.id)
  \/ CurrentRelease(n, m) /\ m.to = None /\ CancelTransfer(Pop(Up(n)), Members)
  \/ /\ CurrentRelease(n, m) /\ m.to \in Members \cup {Nobody}
     /\ ChangeOwner(Pop(Up(n)), Members, record, m.to)
  \/ CurrentRelease(n, m) /\ m.to \notin Members \cup {Nobody, None} /\ Ignore(n)

(* Every release is answered, by an announcement or by a denial; a refusal *)
(* (to = None) froze nothing, and ends the pending transfer.               *)
HandleRelease(n, m) ==
  \/ /\ ~ CurrentRelease(n, m) /\ m.to = None
     /\ Ignore(n)
  \/ /\ ~ CurrentRelease(n, m) /\ m.to # None
     /\ Deny(n, m.id)
  \/ /\ CurrentRelease(n, m) /\ m.to = None
     /\ CancelTransfer(Pop(Up(n)), Members)
  \/ /\ CurrentRelease(n, m) /\ m.to = record.owner
     /\ Deny(n, m.id)
  \/ /\ CurrentRelease(n, m) /\ m.to \notin {None, record.owner}
     /\ ChangeOwner(Pop(Up(n)), Members, record,
                    IF m.to \in Members THEN m.to ELSE Nobody)

(* Mutant: a node that comes back is not told what it missed.              *)
MutantHandleHello(n) ==
  /\ ready' = ready \cup {n}
  /\ departed' = departed \ {n}
  /\ chan' = IF record.id # 0 /\ n \notin departed
             THEN Tell(Pop(Up(n)), {n}, Announcement(record))
             ELSE Pop(Up(n))
  /\ KeepRecord

(* A node passed the handshake: it gets the announcement.                  *)
HandleHello(n) ==
  /\ ready' = ready \cup {n}
  /\ departed' = departed \ {n}
  /\ chan' = IF record.id = 0 THEN Pop(Up(n))
             ELSE Tell(Pop(Up(n)), {n}, Announcement(record))
  /\ KeepRecord

(* Mutant: only the node that is to get the object counts.                 *)
MutantInTransfer(n) == record.owner # n /\ Pending(record) /\ n = record.to

(* Node n asked for the pending transfer, or is to get the object.         *)
InTransfer(n) ==
  record.owner # n /\ Pending(record) /\ n \in {record.to, record.req}

(* A node left: its object is orphaned, and the transfer it took part in   *)
(* is cancelled.                                                           *)
HandleLost(n) ==
  /\ ready' = ready \ {n}
  /\ departed' = IF n \in ready THEN departed \cup {n} ELSE departed
  /\ \/ /\ n \in ready /\ record.owner = n
        /\ ChangeOwner(Pop(Up(n)), Members \ {n}, record, Nobody)
     \/ /\ n \in ready /\ InTransfer(n)
        /\ CancelTransfer(Pop(Up(n)), Members \ {n})
     \/ /\ n \notin ready \/ (record.owner # n /\ ~ InTransfer(n))
        /\ Ignore(n)

(* The registry handles the next message of node n.                        *)
RegistryKinds == {"claim", "drop", "request", "assign", "release"}

RegistryReceives(n) ==
  /\ chan[Up(n)] # <<>>
  /\ LET m == Head(chan[Up(n)])
     IN  \/ /\ m.kind = "open"
            /\ chan' = Tell(Pop(Up(n)), {n}, Hello)
            /\ KeepRecord /\ UNCHANGED <<nextId, ready, departed>>
         \/ /\ m.kind = "hello"
            /\ HandleHello(n)
            /\ UNCHANGED nextId
         \/ /\ m.kind = "lost"
            /\ HandleLost(n)
            /\ UNCHANGED nextId
         \/ /\ m.kind \in RegistryKinds
            /\ n \notin Members
            /\ Ignore(n) /\ UNCHANGED <<nextId, ready, departed>>
         \/ /\ m.kind = "claim"
            /\ n \in Members
            /\ HandleClaim(n, m)
            /\ UNCHANGED <<ready, departed>>
         \/ /\ n \in Members
            /\ \/ m.kind = "drop" /\ HandleDrop(n, m)
               \/ m.kind = "request" /\ HandleRequest(n, m)
               \/ m.kind = "assign" /\ HandleAssign(n, m)
               \/ m.kind = "release" /\ HandleRelease(n, m)
            /\ UNCHANGED <<nextId, ready, departed>>
  /\ UNCHANGED <<nodeVars, linked>>

(* The owner did not answer the transfer in time.                          *)
TransferTimesOut ==
  /\ "timeout" \in Environment
  /\ Pending(record)
  /\ CancelTransfer(chan, Members)
  /\ UNCHANGED <<nextId, ready, departed, nodeVars, linked>>

-----------------------------------------------------------------------------
(* The nodes.                                                              *)

SameSchema(n, hash) == SchemaOf[n] = hash

Claim(n) == [kind |-> "claim", schema |-> SchemaOf[n]]

Release(n, to) ==
  [kind |-> "release", id |-> entry[n].id, ver |-> entry[n].ver, to |-> to]

Simulates(n) == entry[n].owner = n /\ entry[n].bound /\ ~ entry[n].frozen

(* The link is there: the node sends its handshake.                        *)
NodeOpen(n) ==
  /\ chan' = Ask(Pop(Down(n)), n, Hello)
  /\ UNCHANGED <<entry, requested, reach>>

(* The registry's handshake: the objects without an entry are claimed.     *)
NodeHello(n) ==
  /\ reach' = [reach EXCEPT ![n] = TRUE]
  /\ chan' = IF local[n] /\ ~ entry[n].bound
             THEN Ask(Pop(Down(n)), n, Claim(n))
             ELSE Pop(Down(n))
  /\ UNCHANGED <<entry, requested>>

NodeLost(n) ==
  /\ reach' = [reach EXCEPT ![n] = FALSE]
  /\ chan' = Pop(Down(n))
  /\ UNCHANGED <<entry, requested>>

(* Mutant: an announcement does not look for the game's object.            *)
MutantNodeAnnounce(n, m) ==
  /\ entry[n].id = m.id => m.ver >= entry[n].ver
  /\ entry' = [entry EXCEPT ![n] =
       [id |-> m.id, owner |-> m.owner, ver |-> m.ver, schema |-> m.schema,
        bound |-> entry[n].bound, frozen |-> FALSE, own |-> FALSE]]
  /\ requested' = [requested EXCEPT ![n] = @ \ {entry[n].id, m.id}]
  /\ chan' = Pop(Down(n))
  /\ UNCHANGED reach

(* An announcement of an id the node knows: not an older version.  One of  *)
(* another id replaces the entry: a path has one.                          *)
NodeAnnounce(n, m) ==
  LET same == entry[n].id = m.id
      known == IF same THEN entry[n] ELSE NoEntry
      moved == known.owner # m.owner
      kept == same /\ ~ moved
      forgotten == (IF same THEN {} ELSE {entry[n].id})
                     \cup (IF moved THEN {m.id} ELSE {})
  IN  /\ same => m.ver >= entry[n].ver
      /\ entry' = [entry EXCEPT ![n] =
           [id |-> m.id, owner |-> m.owner, ver |-> m.ver,
            schema |-> m.schema,
            bound |-> known.bound \/ (local[n] /\ SameSchema(n, m.schema)),
            frozen |-> kept /\ known.frozen,
            own |-> kept /\ known.own]]
      /\ requested' = [requested EXCEPT ![n] = @ \ forgotten]
      /\ chan' = Pop(Down(n))
      /\ UNCHANGED reach

NodeUnregister(n, m) ==
  /\ entry[n].id = m.id
  /\ entry' = [entry EXCEPT ![n] = NoEntry]
  /\ chan' = Pop(Down(n))
  /\ UNCHANGED <<requested, reach>>

(* The registry asks this owner to hand the object over: it refuses, or    *)
(* stops simulating the object and releases it.                            *)
Hands(n, m) ==
  /\ entry[n].id = m.id
  /\ entry[n].owner = n
  /\ entry[n].ver = m.ver
  /\ ~ entry[n].frozen

NodeTransferRefused(n, m) ==
  /\ Hands(n, m)
  /\ "refuse" \in Environment
  /\ ~ m.forced
  /\ entry[n].bound
  /\ chan' = Ask(Pop(Down(n)), n, Release(n, None))
  /\ UNCHANGED <<entry, requested, reach>>

NodeTransfer(n, m) ==
  /\ Hands(n, m)
  /\ entry' = [entry EXCEPT ![n].frozen = TRUE]
  /\ chan' = Ask(Pop(Down(n)), n, Release(n, m.to))
  /\ UNCHANGED <<requested, reach>>

(* What this node asked did not happen: an object frozen for a release is  *)
(* taken back.                                                             *)
NodeDenied(n, m) ==
  /\ entry' = IF entry[n].id = m.id /\ entry[n].owner = n /\ entry[n].frozen
              THEN [entry EXCEPT ![n].frozen = FALSE, ![n].own = FALSE]
              ELSE entry
  /\ requested' = [requested EXCEPT ![n] = @ \ {m.id}]
  /\ chan' = Pop(Down(n))
  /\ UNCHANGED reach

(* What comes before the handshake, or does not apply to the entry.        *)
Stale(n, m) ==
  \/ ~ reach[n]
  \/ m.kind = "announce" /\ entry[n].id = m.id /\ m.ver < entry[n].ver
  \/ m.kind = "unregister" /\ entry[n].id # m.id
  \/ m.kind = "transfer" /\ ~ Hands(n, m)

NodeKinds == {"announce", "unregister", "transfer", "denied"}

(* Node n handles the next message of the registry.                        *)
NodeReceives(n) ==
  /\ chan[Down(n)] # <<>>
  /\ LET m == Head(chan[Down(n)])
     IN  \/ m.kind = "open" /\ NodeOpen(n)
         \/ m.kind = "hello" /\ NodeHello(n)
         \/ m.kind = "lost" /\ NodeLost(n)
         \/ /\ m.kind \in NodeKinds
            /\ Stale(n, m)
            /\ chan' = Pop(Down(n))
            /\ UNCHANGED <<entry, requested, reach>>
         \/ /\ reach[n]
            /\ \/ m.kind = "announce" /\ NodeAnnounce(n, m)
               \/ m.kind = "unregister" /\ NodeUnregister(n, m)
               \/ m.kind = "transfer" /\ NodeTransferRefused(n, m)
               \/ m.kind = "transfer" /\ NodeTransfer(n, m)
               \/ m.kind = "denied" /\ NodeDenied(n, m)
  /\ UNCHANGED <<registryVars, local, linked>>

(* Mutant: only a release the game asked for is cancelled.                 *)
MutantCancelReleases(n) ==
  /\ ~ reach[n]
  /\ entry[n].frozen /\ entry[n].own
  /\ entry' = [entry EXCEPT ![n].frozen = FALSE, ![n].own = FALSE]
  /\ UNCHANGED <<registryVars, local, requested, reach, linked, chan>>

(* The registry is out of reach at the end of a step: nobody will answer   *)
(* the release in progress, so the object goes on with this node.  A link  *)
(* that is back in the same step is never seen as lost.                    *)
CancelReleases(n) ==
  /\ ~ reach[n]
  /\ entry[n].frozen
  /\ entry' = [entry EXCEPT ![n].frozen = FALSE, ![n].own = FALSE]
  /\ UNCHANGED <<registryVars, local, requested, reach, linked, chan>>

-----------------------------------------------------------------------------
(* What the games of the nodes call, at any time.                          *)

(* Bounds of the model: the games and the network stop at MaxVersion, and  *)
(* wait while more than MaxFlight messages are on their way.               *)
Flight == {p \in Channel \X (1 .. 2 * MaxFlight) : p[2] <= Len(chan[p[1]])}

MayAct(kind) ==
  /\ kind \in Environment
  /\ record.ver < MaxVersion
  /\ Cardinality(Flight) <= MaxFlight

Register(n) ==
  /\ MayAct("register")
  /\ ~ local[n]
  /\ local' = [local EXCEPT ![n] = TRUE]
  /\ entry' = [entry EXCEPT ![n].bound =
                 @ \/ (entry[n].id # 0 /\ SameSchema(n, entry[n].schema))]
  /\ chan' = IF reach[n] THEN Ask(chan, n, Claim(n)) ELSE chan
  /\ UNCHANGED <<registryVars, requested, reach, linked>>

Unregister(n) ==
  /\ MayAct("unregister")
  /\ local[n]
  /\ local' = [local EXCEPT ![n] = FALSE]
  /\ entry' = [entry EXCEPT ![n].bound = FALSE]
  /\ chan' = IF entry[n].bound /\ entry[n].owner = n
             THEN Ask(chan, n, About("drop", entry[n].id))
             ELSE chan
  /\ UNCHANGED <<registryVars, requested, reach, linked>>

Request(n) ==
  /\ MayAct("request")
  /\ entry[n].bound /\ entry[n].owner # n
  /\ reach[n]
  /\ chan' = Ask(chan, n, About("request", entry[n].id))
  /\ requested' = [requested EXCEPT ![n] = @ \cup {entry[n].id}]
  /\ UNCHANGED <<registryVars, local, entry, reach, linked>>

ReleaseTo(n, to) ==
  /\ MayAct("release")
  /\ entry[n].bound /\ entry[n].owner = n /\ ~ entry[n].frozen
  /\ to # n
  /\ reach[n]
  /\ chan' = Ask(chan, n, Release(n, to))
  /\ entry' = [entry EXCEPT ![n].frozen = TRUE, ![n].own = TRUE]
  /\ UNCHANGED <<registryVars, local, requested, reach, linked>>

Assign(n, to) ==
  /\ MayAct("assign")
  /\ entry[n].bound
  /\ reach[n]
  /\ chan' = Ask(chan, n, [kind |-> "assign", id |-> entry[n].id, to |-> to])
  /\ requested' = IF entry[n].owner = to THEN requested
                  ELSE [requested EXCEPT ![n] = @ \cup {entry[n].id}]
  /\ UNCHANGED <<registryVars, local, entry, reach, linked>>

Game(n) ==
  \/ Register(n)
  \/ Unregister(n)
  \/ Request(n)
  \/ \E to \in Owner : ReleaseTo(n, to)
  \/ \E to \in Owner : Assign(n, to)

-----------------------------------------------------------------------------
(* The network.  A link that drops takes with it what was on its way.      *)

CutOff(n, toRegistry, toNode) ==
  /\ linked' = linked \ {n}
  /\ chan' = [chan EXCEPT ![Up(n)] = toRegistry, ![Down(n)] = toNode]

Connect(n) ==
  /\ MayAct("connect")
  /\ n \notin linked \cup {Registry}
  /\ linked' = linked \cup {n}
  /\ chan' = [chan EXCEPT ![Up(n)] = Append(@, Opened),
                          ![Down(n)] = Append(@, Opened)]
  /\ UNCHANGED <<registryVars, nodeVars>>

Disconnect(n) ==
  /\ MayAct("disconnect")
  /\ n \in linked
  /\ CutOff(n, <<Lost>>, <<Lost>>)
  /\ UNCHANGED <<registryVars, nodeVars>>

(* The process of node n starts over: its game registers the object again, *)
(* or registered it before the network started.                            *)
Restart(n) ==
  /\ MayAct("restart")
  /\ n # Registry
  /\ CutOff(n, IF n \in linked THEN <<Lost>> ELSE chan[Up(n)], <<>>)
  /\ entry' = [entry EXCEPT ![n] = NoEntry]
  /\ requested' = [requested EXCEPT ![n] = {}]
  /\ reach' = [reach EXCEPT ![n] = FALSE]
  /\ \E registered \in {FALSE, local[n]} :
       local' = [local EXCEPT ![n] = registered]
  /\ UNCHANGED registryVars

Network(n) == Connect(n) \/ Disconnect(n) \/ Restart(n)

-----------------------------------------------------------------------------
Next ==
  \/ \E n \in Node : RegistryReceives(n)
  \/ TransferTimesOut
  \/ \E n \in Node : NodeReceives(n)
  \/ \E n \in Node : CancelReleases(n)
  \/ \E n \in Node : Game(n)
  \/ \E n \in Node : Network(n)

Spec == Init /\ [][Next]_vars

(* Every process goes on polling its transport, handling what it receives  *)
(* and checking its timeouts, whatever the games do.                       *)
Fairness ==
  /\ \A n \in Node : WF_vars(RegistryReceives(n))
  /\ \A n \in Node : WF_vars(NodeReceives(n))
  /\ \A n \in Node : WF_vars(CancelReleases(n))
  /\ WF_vars(TransferTimesOut)

FairSpec == Spec /\ Fairness

-----------------------------------------------------------------------------
(* What the mesh must keep.                                                *)

TypeOK ==
  /\ record \in Record
  /\ nextId \in 1 .. (MaxId + 1)
  /\ ready \subseteq Node
  /\ departed \subseteq Node
  /\ local \in [Node -> BOOLEAN]
  /\ entry \in [Node -> Entry]
  /\ requested \in [Node -> SUBSET Id]
  /\ reach \in [Node -> BOOLEAN]
  /\ linked \subseteq Node
  /\ chan \in [Channel -> Seq(Message)]
  /\ written \subseteq [id : Id, ver : Nat, owner : Owner]

InFlight(c) == {chan[c][i] : i \in DOMAIN chan[c]}

(* Everything anyone knows about the owner was written by the registry,    *)
(* which wrote one owner for each version, and its record is the last one: *)
(* the inductive invariant under Agreement and the refinement.             *)
EntriesWritten ==
  \A n \in Node : entry[n] = NoEntry \/ FactOf(entry[n]) \in written

AnnouncedWritten ==
  \A c \in Channel : \A i \in DOMAIN chan[c] :
    chan[c][i].kind = "announce" => FactOf(chan[c][i]) \in written

RecordNewest ==
  /\ \A f \in written : f.id < nextId
  /\ nextId = 1 \/ \E f \in written : nextId = f.id + 1
  /\ record # NoRecord =>
       /\ FactOf(record) \in written
       /\ nextId = record.id + 1
       /\ \A f \in written : f.id = record.id => f.ver <= record.ver

WrittenOnce ==
  \A f, g \in written : f.id = g.id /\ f.ver = g.ver => f.owner = g.owner

LedgerInv == EntriesWritten /\ AnnouncedWritten /\ RecordNewest /\ WrittenOnce

(* The detailed protocol implements the ledger: registry_change_owner and  *)
(* the claims write it, handle_announce reads it and never goes back.      *)
Ledger == INSTANCE OwnershipLedger WITH
  Unknown <- FactOf(NoEntry),
  view <- [n \in Node |-> FactOf(entry[n])]

LedgerSpec == Ledger!Spec

(* Nodes that go by the same version of the object name the same owner,    *)
(* whatever they missed, asked for or restarted (handle_announce).         *)
Agreement == Ledger!OneOwnerPerVersion

(* A node that froze its object to release it has an answer coming: its    *)
(* release is on its way, or an answer to it is, or one of the two sides   *)
(* has yet to find that the link dropped, or is back.  "Every release gets an answer"  *)
(* (registry_handle_release): without one, nobody simulates the object.    *)
(* (A node that was cut off while the object was removed keeps the entry.) *)
Answers(n, m) ==
  \/ m = Lost
  \/ m.kind \in {"denied", "unregister"} /\ m.id = entry[n].id
  \/ m.kind = "announce" /\ (m.id # entry[n].id \/ m.owner # n)

AnswerComing ==
  \A n \in Node : entry[n].frozen /\ entry[n].id = record.id =>
    \/ ~ reach[n]
    \/ \E m \in InFlight(Up(n)) :
         m \in {Lost, Hello} \/ (m.kind = "release" /\ m.to # None)
    \/ \E m \in InFlight(Down(n)) : Answers(n, m)

(* A transfer only waits for an owner that is in the mesh, on behalf of a  *)
(* requester that is, towards a node that is: the registry gives it up     *)
(* when one of them leaves (registry_on_peer_left).                        *)
PendingSane ==
  Pending(record) =>
    /\ record.owner \in Members
    /\ record.req \in Members
    /\ record.to \in Members \cup {Nobody}
    /\ record.to # record.owner

(* Once every message is handled, every node goes by the registry's record *)
(* and its object is bound to it: no node is left with an older owner, or  *)
(* with an object it registered and does not synchronize.                  *)
Quiet == \A c \in Channel : chan[c] = <<>>

QuiescentViews ==
  Quiet /\ record.id # 0 =>
    \A n \in Members :
      /\ FactOf(entry[n]) = FactOf(record)
      /\ local[n] /\ SameSchema(n, record.schema) => entry[n].bound
      /\ ~ entry[n].frozen

(* The object never stays with a node that was in the mesh and left: it is *)
(* an orphan, that another node can ask for (registry_on_peer_left,        *)
(* registry_handle_claim, registry_handle_release).                        *)
NoDepartedOwner == record.id # 0 => record.owner \notin departed

(* When two nodes simulate the object at once, one of them is cut off or   *)
(* has the news coming that ends it: a node that is in the mesh never goes *)
(* on with an object that was given away (handle_hello, handle_announce).  *)
(* (Nodes that were cut off while the object was removed keep their entries*)
(* of it, and each goes on until the path has an object again.)            *)
NewsComing(n) ==
  \/ ~ reach[n]
  \/ Lost \in InFlight(Up(n))
  \/ Hello \in InFlight(Up(n))
  \/ \E m \in InFlight(Down(n)) :
       \/ m = Lost
       \/ m.kind = "unregister" /\ m.id = entry[n].id
       \/ m.kind = "announce" /\ (m.id # entry[n].id \/ m.ver > entry[n].ver)

OneSimulator ==
  record.id # 0 =>
    \A m, n \in Node :
      Simulates(m) /\ Simulates(n) => m = n \/ NewsComing(m) \/ NewsComing(n)

(* Once every message is handled, the variables the registry announces are *)
(* those of its own object, if it has one, whoever claimed the path first  *)
(* (registry_schema_hash).                                                 *)
SchemaFromRegistry ==
  Quiet /\ record.id # 0 /\ local[Registry] =>
    record.schema = SchemaOf[Registry]

(* A release ends, unless its link comes and goes forever, while the       *)
(* object is there: the object is handed over, or it is simulated again    *)
(* (release_frozen, handle_denied, cancel_releases).                       *)
Releasing(n) == entry[n].frozen /\ entry[n].id = record.id

ReleaseEnds ==
  \A n \in Node :
    <>[]Releasing(n) => []<><<(n \in linked)' # (n \in linked)>>_vars

(* A request, or an assignment to another owner, that is on its way gets   *)
(* an answer, "a change of owner, or a denial" (request_authority), unless *)
(* its link drops or the object is removed meanwhile.                      *)
Asking(n, id) ==
  \E m \in InFlight(Up(n)) :
    \/ m.kind = "request" /\ m.id = id
    \/ m.kind = "assign" /\ m.id = id /\ m.to # entry[n].owner

RequestEnds ==
  \A n \in Node : \A id \in Id :
    Asking(n, id)
      ~> \/ id \notin requested[n]
         \/ n \notin linked \cup {Registry}
         \/ record.id # id
=============================================================================
