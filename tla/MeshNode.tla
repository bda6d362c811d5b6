----------------------------- MODULE MeshNode ------------------------------
(***************************************************************************)
(* One node of a mesh whose registry moves                                 *)
(* (src/source/sync/tick_mesh_core.cpp): what the node keeps and what each *)
(* of its handlers makes of it.  MeshTakeover has the network and the      *)
(* other nodes.                                                            *)
(*                                                                         *)
(* A handler is an operator from the state of a node to its next state;    *)
(* the messages it sends are collected in the field "out", in order.       *)
(*                                                                         *)
(* Left to other modules: who should take lost roles and the wrapping of   *)
(* terms and versions (MeshRoles, MeshSerial), requests, assignments and   *)
(* schema hashes (MeshAuthority), the clock's role (TickClock).  An object *)
(* is its path, bound wherever the path is registered.  A process spawns   *)
(* once: its ids are its own, so a spawn is its node and process.          *)
(***************************************************************************)
EXTENDS Naturals, Sequences, FiniteSets
LOCAL INSTANCE SequencesExt
LOCAL INSTANCE FiniteSetsExt

CONSTANTS
  Node,        \* the ids of the nodes, positive
  Path,        \* the paths of the objects, as numbers
  MaxId,       \* bound: net ids
  MaxBoot,     \* bound: the processes of a node
  MaxDeferred, \* MESH_MAX_DEFERRED: messages that may wait for a registry
  MaxHops      \* MAX_EVENT_FORWARDS

ASSUME NodeAssumption ==
  /\ Node \subseteq Nat \ {0}
  /\ IsFiniteSet(Node)
  /\ Path \subseteq Nat \ {0}
  /\ MaxId \in Nat /\ MaxBoot \in Nat \ {0}
  /\ MaxDeferred \in Nat /\ MaxHops \in Nat

Id == 1 .. MaxId
Owner == Node \cup {0}
Spawn == Node \X (1 .. MaxBoot)

-----------------------------------------------------------------------------
(* The state of a node.                                                    *)

Roles == [term : Nat, node : Node, boot : 0 .. MaxBoot]

(* "fresh": announced by the registry this node knows now (registry_epoch). *)
Entry == [path : Path, owner : Owner, version : Nat, fresh : BOOLEAN,
          frozen : BOOLEAN]
NoEntry == [path |-> 0, owner |-> 0, version |-> 0, fresh |-> FALSE,
            frozen |-> FALSE]

Record == [path : Path, owner : Owner, version : Nat, previous : Nat]
NoRecord == [path |-> 0, owner |-> 0, version |-> 0, previous |-> 0]
NoRecords == [id \in Id |-> NoRecord]

(* A node as it starts: b is its process, r its configured roles, quorum   *)
(* the nodes a registry needs.                                             *)
Started(b, r, quorum) ==
  [boot |-> b, roles |-> r, quorum |-> quorum,
   known |-> {}, ready |-> [m \in Node |-> 0],
   objects |-> {}, entry |-> [id \in Id |-> NoEntry],
   highest |-> 0, reported |-> FALSE,
   record |-> NoRecords, next |-> 1,
   settling |-> FALSE, unreported |-> {}, deferred |-> <<>>,
   orphans |-> FALSE,
   spawns |-> [x \in Spawn |-> "none"],
   pending |-> <<>>, out |-> <<>>]

IsReady(n, s, m) == m = n \/ s.ready[m] # 0
ReadyPeers(s) == {m \in Node : s.ready[m] # 0}
HasQuorum(s) == Cardinality(ReadyPeers(s)) + 1 >= s.quorum
IsRegistry(n, s) == s.roles.node = n
Process(n, s, m) == IF m = n THEN s.boot ELSE s.ready[m]

(* The process with the registry is this one or connected.                 *)
Reachable(n, s) ==
  s.roles.boot # 0 /\ Process(n, s, s.roles.node) = s.roles.boot
RegistryLost(n, s) == s.roles.boot # 0 /\ ~ Reachable(n, s)

CanAct(n, s) ==
  /\ IsRegistry(n, s) /\ s.roles.boot = s.boot
  /\ ~ s.settling
  /\ HasQuorum(s)

Entries(s) == {id \in Id : s.entry[id] # NoEntry}
Records(s) == {id \in Id : s.record[id] # NoRecord}
Named(s, p) == {id \in Entries(s) : s.entry[id].path = p}
Recorded(s, p) == {id \in Records(s) : s.record[id].path = p}
Adopted(s) == {x \in Spawn : s.spawns[x] = "adopted"}
Larger(a, b) == IF a > b THEN a ELSE b
InOrder(ids) == SetToSortSeq(ids, <)

-----------------------------------------------------------------------------
(* Sending.                                                                *)

To(s, m, msg) == [s EXCEPT !.out = Append(@, [to |-> m, msg |-> msg])]

ToReady(s, msg) ==
  [s EXCEPT !.out = @ \o
     [i \in 1 .. Cardinality(ReadyPeers(s)) |->
        [to |-> InOrder(ReadyPeers(s))[i], msg |-> msg]]]

ToAll(n, s, msg) == To(ToReady(s, msg), n, msg)

RolesOf(r) == [kind |-> "roles", roles |-> r]
StatusOf(r) == [kind |-> "status", roles |-> r]
HelloOf(s) == [kind |-> "hello", roles |-> s.roles, boot |-> s.boot]

Announcement(s, id) ==
  [kind |-> "announce", id |-> id, path |-> s.record[id].path,
   owner |-> s.record[id].owner, version |-> s.record[id].version]

AnnounceTo(s, m) ==
  FoldSeq(LAMBDA id, t : To(t, m, Announcement(t, id)), s, InOrder(Records(s)))

Deny(s, m, id) == To(s, m, [kind |-> "denied", id |-> id])

SpawnOf(s, x) ==
  [kind |-> "spawn", spawn |-> x, adopted |-> s.spawns[x] = "adopted"]

Claim(n, s, p) ==
  IF Reachable(n, s) THEN To(s, s.roles.node, [kind |-> "claim", path |-> p])
  ELSE s

ClaimUnbound(n, s) ==
  FoldSeq(LAMBDA p, t : Claim(n, t, p), s,
          InOrder({p \in s.objects : Named(s, p) = {}}))

-----------------------------------------------------------------------------
(* The registry's record of an object gets an owner and a new version; a   *)
(* release for the version before is still good if the owner stays.        *)
ChangeOwner(n, s, id, to) ==
  LET t == [s EXCEPT !.record[id].owner = to,
                     !.record[id].version = @ + 1,
                     !.record[id].previous =
                       IF s.record[id].owner = to THEN s.record[id].version
                       ELSE 0]
  IN ToAll(n, t, Announcement(t, id))

(* The objects of the nodes that left are orphaned.                        *)
Gone(n, s, id) == s.record[id].owner # 0 /\ ~ IsReady(n, s, s.record[id].owner)

Orphan(n, s, ids) ==
  FoldSeq(LAMBDA id, t : ChangeOwner(n, t, id, 0), s, InOrder(ids))

HandleClaim(n, s, m, msg) ==
  LET given == {i \in Id : i >= s.next /\ s.record[i] = NoRecord}
      id == Min(given)
      new == [s EXCEPT !.record[id] = [path |-> msg.path, owner |-> m,
                                       version |-> 1, previous |-> 0],
                       !.next = id + 1]
  IN
  IF Recorded(s, msg.path) # {}
  THEN LET known == CHOOSE i \in Recorded(s, msg.path) : TRUE
       IN To(s, m, Announcement(s, known))
  ELSE IF given = {} THEN s
  ELSE ToAll(n, new, Announcement(new, id))

HandleDrop(n, s, m, msg) ==
  IF s.record[msg.id] # NoRecord /\ s.record[msg.id].owner = m
  THEN ToAll(n, [s EXCEPT !.record[msg.id] = NoRecord],
             [kind |-> "unregister", id |-> msg.id])
  ELSE s

(* Only of the owner, for the version it has or the one before it was      *)
(* announced again; to a node that is gone the object is orphaned.         *)
HandleRelease(n, s, m, msg) ==
  LET r == s.record[msg.id]
      current == r.owner = m /\ msg.version \in {r.version, r.previous} \ {0}
  IN
  IF ~ current \/ msg.to = r.owner THEN Deny(s, m, msg.id)
  ELSE ChangeOwner(n, s, msg.id,
                   IF msg.to # 0 /\ IsReady(n, s, msg.to) THEN msg.to ELSE 0)

HandleAsked(n, s, m, msg) ==
  IF msg.kind = "claim" THEN HandleClaim(n, s, m, msg)
  ELSE IF msg.kind = "drop" THEN HandleDrop(n, s, m, msg)
  ELSE HandleRelease(n, s, m, msg)

(* A registry that cannot act refuses releases, unless it is taking over;  *)
(* the rest waits, while there is room: what has none is dropped, and a    *)
(* release refused.                                                        *)
MutantDefer(s, m, msg) ==
  IF Len(s.deferred) < MaxDeferred
  THEN [s EXCEPT !.deferred = Append(@, [from |-> m, msg |-> msg])]
  ELSE s

Defer(s, m, msg) ==
  IF Len(s.deferred) < MaxDeferred
  THEN [s EXCEPT !.deferred = Append(@, [from |-> m, msg |-> msg])]
  ELSE IF msg.kind = "release" THEN Deny(s, m, msg.id)
  ELSE s

HandleForRegistry(n, s, m, msg) ==
  IF ~ IsRegistry(n, s) THEN s
  ELSE IF CanAct(n, s) THEN HandleAsked(n, s, m, msg)
  ELSE IF msg.kind = "release" /\ ~ s.settling THEN Deny(s, m, msg.id)
  ELSE Defer(s, m, msg)

(* It can act again: the objects of the nodes that left meanwhile, then    *)
(* the messages that waited, of the nodes still here.                      *)
Resumed(n, s) ==
  LET left == IF s.orphans
              THEN Orphan(n, [s EXCEPT !.orphans = FALSE],
                          {id \in Records(s) : Gone(n, s, id)})
              ELSE s
  IN FoldSeq(LAMBDA d, t : IF IsReady(n, t, d.from)
                           THEN HandleForRegistry(n, t, d.from, d.msg) ELSE t,
             [left EXCEPT !.deferred = <<>>], s.deferred)

-----------------------------------------------------------------------------
(* A registry that takes over starts from this node's view, and waits for  *)
(* the views of the nodes connected to it.                                 *)
TakeOver(s) ==
  [s EXCEPT
     !.record = [id \in Id |->
        IF s.entry[id] = NoEntry THEN NoRecord
        ELSE [path |-> s.entry[id].path, owner |-> s.entry[id].owner,
              version |-> s.entry[id].version, previous |-> 0]],
     !.settling = TRUE,
     !.unreported = ReadyPeers(s),
     !.deferred = <<>>]

SendAdopted(s) ==
  FoldSet(LAMBDA x, t : ToReady(t, SpawnOf(t, x)), s, Adopted(s))

(* Every object is announced again with a new version, without an owner if *)
(* that one left; the adopted spawns are sent, and it resumes.             *)
MutantFinished(n, s) ==
  LET start == [s EXCEPT !.settling = FALSE, !.unreported = {},
                         !.orphans = FALSE]
      told == FoldSeq(LAMBDA id, t : ChangeOwner(n, t, id, IF Gone(n, t, id)
                        THEN 0 ELSE t.record[id].owner),
                      start, InOrder(Records(s)))
      sent == SendAdopted(told)
  IN IF CanAct(n, sent) THEN Resumed(n, sent) ELSE sent

Finished(n, s) ==
  LET start == [s EXCEPT !.settling = FALSE, !.unreported = {},
                         !.next = s.highest + 1, !.orphans = FALSE]
      told == FoldSeq(LAMBDA id, t : ChangeOwner(n, t, id, IF Gone(n, t, id)
                        THEN 0 ELSE t.record[id].owner),
                      start, InOrder(Records(s)))
      sent == SendAdopted(told)
  IN IF CanAct(n, sent) THEN Resumed(n, sent) ELSE sent

(* The view of a node goes to the registry, one object or adopted spawn to *)
(* a message; the last one says so.                                        *)
NoItem == [type |-> "none"]

Items(s) ==
  LET ids == InOrder(Entries(s))
      objects == [i \in DOMAIN ids |->
        [type |-> "object", id |-> ids[i], path |-> s.entry[ids[i]].path,
         owner |-> s.entry[ids[i]].owner,
         version |-> s.entry[ids[i]].version]]
      spawns == [i \in 1 .. Cardinality(Adopted(s)) |->
        [type |-> "spawn", spawn |-> SetToSeq(Adopted(s))[i]]]
      all == objects \o spawns
  IN IF all = <<>> THEN <<NoItem>> ELSE all

Report(n, s) ==
  IF IsRegistry(n, s) \/ ~ Reachable(n, s) THEN s
  ELSE [s EXCEPT !.reported = TRUE,
                 !.out = @ \o [i \in DOMAIN Items(s) |->
                    [to |-> s.roles.node,
                     msg |-> [kind |-> "report", term |-> s.roles.term,
                              last |-> i = Len(Items(s)),
                              highest |-> s.highest, item |-> Items(s)[i]]]]]

(* To a registry in reach that did not get it yet; then the claims.        *)
SyncWithRegistry(n, s) ==
  IF IsRegistry(n, s) \/ ~ Reachable(n, s) THEN s
  ELSE ClaimUnbound(n, IF s.reported THEN s
                       ELSE IF Entries(s) = {} /\ Adopted(s) = {}
                       THEN [s EXCEPT !.reported = TRUE]
                       ELSE Report(n, s))

(* The newer version of an object wins, and of two ids of one path.  After *)
(* the take over it is announced as it comes.                              *)
MutantMerged(n, s, item, late) ==
  LET id == item.id
      others == Recorded(s, item.path) \ {id}
  IN
  IF \E i \in others \cup {id} : item.version <= s.record[i].version THEN s
  ELSE [s EXCEPT
        !.record = [i \in Id |-> IF i = id
          THEN [path |-> item.path, owner |-> item.owner,
                version |-> item.version, previous |-> 0]
          ELSE IF i \in others THEN NoRecord ELSE @[i]],
        !.highest = Larger(@, id),
        !.next = IF late THEN Larger(@, id + 1) ELSE @]

Merged(n, s, item, late) ==
  LET id == item.id
      others == Recorded(s, item.path) \ {id}
      merged == [s EXCEPT
        !.record = [i \in Id |-> IF i = id
          THEN [path |-> item.path, owner |-> item.owner,
                version |-> item.version, previous |-> 0]
          ELSE IF i \in others THEN NoRecord ELSE @[i]],
        !.highest = Larger(@, id),
        !.next = IF late THEN Larger(@, id + 1) ELSE @]
  IN
  IF \E i \in others \cup {id} : item.version <= s.record[i].version THEN s
  ELSE IF ~ late THEN merged
  ELSE ChangeOwner(n, merged, id, IF Gone(n, merged, id) THEN 0
                                  ELSE item.owner)

HandleReport(n, s, m, msg) ==
  LET late == ~ s.settling
      heard == [s EXCEPT !.highest = Larger(@, msg.highest),
                         !.next = IF late THEN Larger(@, Larger(s.highest,
                                                     msg.highest) + 1)
                                  ELSE @]
      merged == IF msg.item.type = "object"
                THEN Merged(n, heard, msg.item, late)
                ELSE IF msg.item.type = "spawn" /\ ~ late
                THEN [heard EXCEPT !.spawns[msg.item.spawn] = "adopted"]
                ELSE heard
      ended == [merged EXCEPT !.unreported = @ \ {m}]
  IN
  IF \/ ~ IsRegistry(n, s) \/ msg.term # s.roles.term
     \/ s.roles.boot # s.boot \/ (late /\ ~ CanAct(n, s))
  THEN s
  ELSE IF ~ msg.last THEN merged
  ELSE IF late THEN AnnounceTo(ended, m)
  ELSE ended

-----------------------------------------------------------------------------
(* The roles.                                                              *)

Beats(r, q) == r.term > q.term \/ (r.term = q.term /\ r.node < q.node)
SameRoles(r, q) == r.term = q.term /\ r.node = q.node

(* Roles announced without their process are this one's, or the known one. *)
WithProcess(n, s, r) ==
  IF r.boot # 0 THEN r
  ELSE [r EXCEPT !.boot = IF r.node = n THEN s.boot
                          ELSE IF r.node = s.roles.node THEN s.roles.boot
                          ELSE 0]

Unfrozen(s) ==
  [s EXCEPT !.entry = [id \in Id |-> [@[id] EXCEPT !.frozen = FALSE]]]
Forgotten(s) == [s EXCEPT !.entry = [id \in Id |-> NoEntry]]
NoLongerRegistry(s) ==
  [s EXCEPT !.record = NoRecords, !.settling = FALSE, !.unreported = {},
            !.deferred = <<>>, !.orphans = FALSE]

(* The versions of another registry cannot be compared with the known ones. *)
OtherRegistry(s) ==
  [s EXCEPT !.entry = [id \in Id |-> [@[id] EXCEPT !.fresh = FALSE]],
            !.reported = FALSE]

AdoptRoles(n, s, roles, joined) ==
  LET r == WithProcess(n, s, roles)
      moved == \/ r.node # s.roles.node
               \/ s.roles.boot # 0 /\ r.boot # s.roles.boot
      resync == joined /\ r.node # n
      here == [(IF moved THEN OtherRegistry(s) ELSE s) EXCEPT !.roles = r]
      left == IF IsRegistry(n, s) THEN NoLongerRegistry(Unfrozen(here))
              ELSE Unfrozen(here)
      view == IF resync THEN Forgotten(left) ELSE left
  IN IF ~ moved /\ ~ resync THEN here
     ELSE ClaimUnbound(n, IF r.node = n THEN TakeOver(view)
                          ELSE IF resync THEN view
                          ELSE Report(n, view))

(* Another process has the same roles: the one that is here came later.    *)
LearnBoot(n, s, boot) ==
  LET known == [OtherRegistry(s) EXCEPT !.roles.boot = boot]
      over == Forgotten(IF IsRegistry(n, s) THEN NoLongerRegistry(known)
                        ELSE known)
  IN IF boot \in {0, s.roles.boot}
        \/ (s.roles.boot # 0 /\ ~ Reachable(n, s))
     THEN s
     ELSE SyncWithRegistry(n, IF s.roles.boot = 0 THEN known ELSE over)

HandleRoles(n, s, m, msg) ==
  IF Beats(msg.roles, s.roles)
  THEN AdoptRoles(n, ToReady(s, RolesOf(msg.roles)), msg.roles, FALSE)
  ELSE IF Beats(s.roles, msg.roles) THEN To(s, m, RolesOf(s.roles))
  ELSE s

HandleStatus(n, s, m, msg) ==
  IF Beats(s.roles, msg.roles) THEN To(s, m, RolesOf(s.roles))
  ELSE IF SameRoles(s.roles, msg.roles) THEN LearnBoot(n, s, msg.roles.boot)
  ELSE s

(* change_roles: the roles go to a connected node, or are taken here.      *)
ChangedRoles(n, s, m) ==
  LET r == [term |-> s.roles.term + 1, node |-> m, boot |-> Process(n, s, m)]
  IN AdoptRoles(n, ToReady(s, RolesOf(r)), r, FALSE)

-----------------------------------------------------------------------------
(* The nodes in the mesh.                                                  *)

OwnsSpawn(n, s, x) ==
  \/ s.spawns[x] = "live" /\ x[1] = n
  \/ s.spawns[x] = "adopted" /\ IsRegistry(n, s) /\ s.roles.boot = s.boot

(* m passed the handshake: it gets the registry's objects, the spawns this *)
(* node owns and, if it has the registry, this node's view.                *)
PeerReady(n, s, m) ==
  LET told == IF IsRegistry(n, s) /\ s.roles.boot = s.boot
              THEN AnnounceTo(s, m) ELSE s
      spawned == FoldSet(LAMBDA x, t : To(t, m, SpawnOf(t, x)), told,
                         {x \in Spawn : OwnsSpawn(n, s, x)})
      synced == IF m = s.roles.node THEN SyncWithRegistry(n, spawned)
                ELSE spawned
  IN To(synced, m, StatusOf(synced.roles))

HandleHello(n, s, m, msg) ==
  LET roled == IF Beats(msg.roles, s.roles)
               THEN AdoptRoles(n, s, msg.roles, TRUE)
               ELSE IF SameRoles(msg.roles, s.roles)
               THEN LearnBoot(n, s, msg.roles.boot)
               ELSE s
  IN IF m \notin s.known \/ s.ready[m] # 0 THEN s
     ELSE PeerReady(n, [roled EXCEPT !.ready[m] = msg.boot], m)

HandleOpen(n, s, m) ==
  IF m \in s.known THEN s
  ELSE To([s EXCEPT !.known = @ \cup {m}], m, HelloOf(s))

(* m left: its spawns are the registry's; the registry orphans its objects *)
(* now, or once it has its quorum again.                                   *)
HandleLost(n, s, m) ==
  LET gone == [s EXCEPT !.known = @ \ {m}, !.ready[m] = 0]
      left == [gone EXCEPT !.unreported = @ \ {m},
                           !.spawns = [x \in Spawn |->
                              IF x[1] = m /\ @[x] # "none" THEN "adopted"
                              ELSE @[x]]]
  IN IF s.ready[m] = 0 THEN gone
     ELSE IF ~ IsRegistry(n, s) \/ s.roles.boot # s.boot THEN left
     ELSE IF ~ HasQuorum(left) THEN [left EXCEPT !.orphans = TRUE]
     ELSE Orphan(n, left, {id \in Records(s) : s.record[id].owner = m})

(* update_roles, at the end of the step: nobody answers the releases while *)
(* the registry is gone.  A link takes more than a step to come up again.  *)
TakenBack(n, s) == IF RegistryLost(n, s) THEN Unfrozen(s) ELSE s

-----------------------------------------------------------------------------
(* What the registry says of an object.  Of one registry only newer words  *)
(* count, those of another one always; a path has one id.                  *)
Stale(s, msg) ==
  s.entry[msg.id].fresh /\ s.entry[msg.id].version > msg.version

HandleAnnounce(n, s, msg) ==
  LET old == s.entry[msg.id]
      first == old.path # msg.path
      new == [path |-> msg.path, owner |-> msg.owner,
              version |-> msg.version, fresh |-> TRUE,
              frozen |-> ~ first /\ old.owner = msg.owner /\ old.frozen]
      taken == [s EXCEPT
        !.entry = [id \in Id |-> IF id = msg.id THEN new
                   ELSE IF s.entry[id].path = msg.path THEN NoEntry
                   ELSE @[id]],
        !.highest = Larger(@, msg.id)]
  IN
  IF Stale(s, msg) THEN s
  ELSE IF old # NoEntry /\ first /\ old.path \in s.objects
          /\ Named(taken, old.path) = {}
  THEN Claim(n, taken, old.path)
  ELSE taken

HandleUnregister(s, msg) == [s EXCEPT !.entry[msg.id] = NoEntry]

HandleDenied(n, s, msg) ==
  IF s.entry[msg.id].owner = n THEN [s EXCEPT !.entry[msg.id].frozen = FALSE]
  ELSE s

-----------------------------------------------------------------------------
(* Spawns: of their node, or of the registry if that node left.            *)
FromOrigin(m, msg) == msg.spawn[1] = m

MutantHandleSpawn(n, s, m, msg) ==
  IF \/ FromOrigin(m, msg)
     \/ msg.adopted /\ m = s.roles.node /\ Reachable(n, s)
  THEN [s EXCEPT !.spawns[msg.spawn] =
          IF @ # "none" THEN @ ELSE IF msg.adopted THEN "adopted" ELSE "live"]
  ELSE s

HandleSpawn(n, s, m, msg) ==
  IF \/ FromOrigin(m, msg)
     \/ msg.adopted /\ m = s.roles.node /\ Reachable(n, s)
  THEN [s EXCEPT !.spawns[msg.spawn] =
          IF msg.adopted THEN "adopted" ELSE "live"]
  ELSE s

HandleDespawn(s, m, msg) ==
  IF FromOrigin(m, msg) \/ m = s.roles.node
  THEN [s EXCEPT !.spawns[msg.spawn] = "none"]
  ELSE s

Spawned(n, s) ==
  LET x == <<n, s.boot>>
      t == [s EXCEPT !.spawns[x] = "live"]
  IN ToReady(t, SpawnOf(t, x))

Despawned(s, x) ==
  ToReady([s EXCEPT !.spawns[x] = "none"], [kind |-> "despawn", spawn |-> x])

-----------------------------------------------------------------------------
(* Events of objects run at the owner: an event waits for one, and follows *)
(* it at most MaxHops times.  "path" is the object it was meant for.       *)
EventOf(id, p) == [kind |-> "event", target |-> id, path |-> p, hops |-> 0]

Queued(s, e) == [s EXCEPT !.pending = Append(@, e)]

Fate(n, s, e) ==
  LET owner == s.entry[e.target].owner IN
  IF s.entry[e.target] = NoEntry THEN "rejected"
  ELSE IF owner = n
  THEN IF s.entry[e.target].path \in s.objects THEN "run" ELSE "dropped"
  ELSE IF owner = 0 THEN "waits"
  ELSE IF e.hops >= MaxHops THEN "rejected"
  ELSE "forwarded"

Dispatched(n, s, i) ==
  LET e == s.pending[i]
      taken == [s EXCEPT !.pending = RemoveAt(@, i)]
  IN CASE Fate(n, s, e) = "waits" -> s
       [] Fate(n, s, e) = "forwarded" ->
            To(taken, s.entry[e.target].owner, [e EXCEPT !.hops = @ + 1])
       [] OTHER -> taken

SentEvent(n, s, id) ==
  LET e == EventOf(id, s.entry[id].path)
      owner == s.entry[id].owner
  IN IF owner \in {n, 0} THEN Queued(s, e) ELSE To(s, owner, e)

-----------------------------------------------------------------------------
(* What the game does with the objects.                                    *)
Registered(n, s, p) == Claim(n, [s EXCEPT !.objects = @ \cup {p}], p)

Unregistered(n, s, p) ==
  LET t == [s EXCEPT !.objects = @ \ {p}]
      owned == {id \in Named(s, p) : s.entry[id].owner = n}
  IN IF owned = {} THEN t
     ELSE To(t, s.roles.node,
             [kind |-> "drop", id |-> CHOOSE id \in owned : TRUE])

Released(s, id, to) ==
  To([s EXCEPT !.entry[id].frozen = TRUE], s.roles.node,
     [kind |-> "release", id |-> id, version |-> s.entry[id].version,
      to |-> to])

-----------------------------------------------------------------------------
(* A message from node m, or from this one.  Anything but a handshake only *)
(* from a ready node; the registry's words only from its process.          *)
FromRegistry == {"announce", "unregister", "denied"}
ForRegistry == {"claim", "drop", "release"}

HandlePacket(n, s, m, msg) ==
  CASE msg.kind = "hello" -> HandleHello(n, s, m, msg)
    [] msg.kind # "hello" /\ ~ IsReady(n, s, m) -> s
    [] OTHER ->
  CASE msg.kind = "roles" -> HandleRoles(n, s, m, msg)
    [] msg.kind = "status" -> HandleStatus(n, s, m, msg)
    [] msg.kind = "report" -> HandleReport(n, s, m, msg)
    [] msg.kind = "spawn" -> HandleSpawn(n, s, m, msg)
    [] msg.kind = "despawn" -> HandleDespawn(s, m, msg)
    [] msg.kind = "event" -> Queued(s, msg)
    [] msg.kind \in ForRegistry -> HandleForRegistry(n, s, m, msg)
    [] msg.kind \in FromRegistry /\ (m # s.roles.node \/ ~ Reachable(n, s)) -> s
    [] msg.kind = "announce" -> HandleAnnounce(n, s, msg)
    [] msg.kind = "unregister" -> HandleUnregister(s, msg)
    [] msg.kind = "denied" -> HandleDenied(n, s, msg)
=============================================================================
