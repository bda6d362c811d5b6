--------------------------- MODULE SyncSnapshots ---------------------------
(***************************************************************************)
(* The snapshots of the star topology                                      *)
(* (src/source/sync/tick_sync_core.cpp): the server records the state of   *)
(* every object at every frame, and sends a client, at each one, the state *)
(* of the objects relevant to it: a delta over a snapshot the client may   *)
(* have, split in parts and sent unreliably, or a full one, sent reliably. *)
(* Objects come and go, on the server and on the client; net ids are       *)
(* reused; the client's interest changes; the link drops and comes back.   *)
(*                                                                         *)
(* One client: the server keeps a state per client, and they share only    *)
(* the history, which no client changes.  Frames are naturals: MeshSerial  *)
(* shows the like of the comparison tick_frame_after().  A game is what    *)
(* its objects do: play[o][f] is the state of object o once frame f was    *)
(* simulated.                                                              *)
(***************************************************************************)
EXTENDS Integers, Sequences, FiniteSets, SequencesExt

CONSTANTS
  Object,      \* the objects of the game, known by their paths
  Controlled,  \* the ones the client controls, always relevant to it
  Var,         \* the variables of an object
  Value,       \* what a variable may hold
  Plays,       \* the games: functions from objects and frames to states
  MaxNetId,    \* the last net id
  MaxFrame,    \* bound: the last frame of the games
  MaxInputs,   \* bound: the client's messages on their way
  Settings,    \* "history", how many frames the histories keep
               \* (history_size); and the bounds "ids", the last net id not
               \* taken by other objects, "frames", the last frame the server
               \* simulates, and "age", how many frames a message takes
  Budgets      \* bounds: how often the games change the server's objects,
               \* the client's, and its interest, and the link drops

NetId == 1 .. MaxNetId
NoFrame == -1
Frame == 0 .. MaxFrame
State == [Var -> Value]
NoObject == [path |-> "none"]

ASSUME SnapshotsAssumption ==
  /\ Controlled \subseteq Object
  /\ NoObject \notin Object
  /\ MaxNetId \in Nat \ {0}
  /\ MaxFrame \in Nat
  /\ Plays \subseteq [Object -> [Frame -> State]]
  /\ \A s \in Settings :
       /\ s.history \in Nat \ {0, 1}
       /\ s.ids \in NetId
       /\ s.frames \in Frame
       /\ s.age \in 1 .. s.history * 2
  /\ MaxInputs \in Nat
  /\ Budgets \subseteq [{"objects", "local", "interest", "links"} -> Nat]

-----------------------------------------------------------------------------
(* A record of a history: the states of objects at a frame, by net id.     *)

NoStates == [id \in {} |-> 0]
NoRecord == [frame |-> NoFrame, states |-> NoStates]
States(S) == UNION {[ids -> S] : ids \in SUBSET NetId}
Record == [frame : Frame \cup {NoFrame}, states : States(State)]

(* What the server knows about its client; and the client about an object. *)
Peer == [acked : Frame \cup {NoFrame}, needsFull : BOOLEAN,
         lastFull : Frame \cup {NoFrame}, recent : BOOLEAN,
         relevant : SUBSET NetId, since : [NetId -> Nat \cup {NoFrame}]]
NewPeer == [acked |-> NoFrame, needsFull |-> TRUE, lastFull |-> NoFrame,
            recent |-> FALSE, relevant |-> {},
            since |-> [id \in NetId |-> NoFrame]]

Remote == [object : Object \cup {NoObject}, bound : BOOLEAN, relevant : BOOLEAN]
NoRemote == [object |-> NoObject, bound |-> FALSE, relevant |-> FALSE]

(* The snapshot whose parts arrive: the record is built in the slot of its *)
(* frame, which counts as empty until the last part.  "carried": the       *)
(* objects the parts came with, held or not.                               *)
Pending == [frame : Frame \cup {NoFrame}, parts : 0 .. 2, got : SUBSET {1, 2},
            missing : BOOLEAN, states : States(State),
            carried : SUBSET NetId]
NoPending == [frame |-> NoFrame, parts |-> 0, got |-> {}, missing |-> FALSE,
              states |-> NoStates, carried |-> {}]

(* An entry: a net id, whether it changed, and the variables that did.     *)
Entry == [id : NetId, changed : BOOLEAN,
          vars : UNION {[vs -> Value] : vs \in SUBSET Var}]
Snapshot == [full : BOOLEAN, frame : Frame, base : Frame \cup {NoFrame},
             part : 1 .. 2, parts : 1 .. 2, entries : SUBSET Entry]

(* What the client says: its latest snapshot, and whether it wants a full  *)
(* one.  Its inputs for the game come with it.                             *)
Inputs == [ack : Frame \cup {NoFrame}, wantsFull : BOOLEAN]
Said(ack, wantsFull) == [ack |-> ack, wantsFull |-> wantsFull]

RegisterMsg(id, o, f) ==
  [kind |-> "register", id |-> id, object |-> o, at |-> f]
UnregisterMsg(id, f) == [kind |-> "unregister", id |-> id, at |-> f]
RelevanceMsg(id, r, f) ==
  [kind |-> "relevance", id |-> id, relevant |-> r, at |-> f]

Control == [kind : {"register"}, id : NetId, object : Object, at : Nat]
  \cup [kind : {"unregister"}, id : NetId, at : Nat]
  \cup [kind : {"relevance"}, id : NetId, relevant : BOOLEAN, at : Nat]

-----------------------------------------------------------------------------
VARIABLES
  settings,    \* the settings of the server and its client
  play,        \* the game
  frame,       \* the next frame of the server (get_next_frame_index)
  ticking,     \* the server is between a frame's simulation and its end
  live,        \* live[id]: the object with a net id (server_objects)
  released,    \* released[id]: the frame it was released at (quarantined_ids)
  history,     \* the server's records (server_history)
  linked,      \* the client is connected, and accepted
  peer,        \* what the server knows about it (PeerState)
  local,       \* the objects that exist on the client (local_objects)
  remote,      \* remote[id]: what the server said of an id (remote_objects)
  received,    \* the client's records
  pending,     \* pending_snapshot
  latest,      \* latest_snapshot
  needsFull,   \* the client wants a full snapshot (needs_full)
  lacks,       \* what its latest snapshot came with and its record lacks
  control,     \* the control channel, in order
  fulls,       \* the channel of the full snapshots, in order
  deltas,      \* the deltas: lost, late, repeated, in any order
  inputs,      \* the client's messages: lost, in any order
  budget,      \* how often the games and the network may still disturb it
  heard,       \* what the server last heard from the client
  calm         \* for how many frames nothing stood in the stream's way

world == <<settings, play, budget>>
objects == <<live, released>>
records == <<received, pending, latest, lacks>>
client == <<records, needsFull>>
net == <<control, fulls, deltas, inputs>>
vars == <<settings, play, frame, ticking, live, released, history, linked,
          peer, local, remote, received, pending, latest, needsFull,
          lacks, control, fulls, deltas, inputs, budget, heard, calm>>

Slot(f) == f % settings.history
Slots == 0 .. (settings.history - 1)
Has(h, f) == f # NoFrame /\ h[Slot(f)].frame = f

(* A released id is kept for so long (ADR-034), and messages take less.    *)
Quarantine == settings.history * 2

Init ==
  /\ settings \in Settings
  /\ play \in Plays
  /\ frame = 0
  /\ ticking = FALSE
  /\ live \in [NetId -> Object \cup {NoObject}]
  /\ \A i, j \in NetId : i # j => live[i] = NoObject \/ live[i] # live[j]
  /\ released = [id \in NetId |-> NoFrame]
  /\ history = [s \in Slots |-> NoRecord]
  /\ linked = FALSE
  /\ peer = NewPeer
  /\ local \in SUBSET Object
  /\ remote = [id \in NetId |-> NoRemote]
  /\ received = [s \in Slots |-> NoRecord]
  /\ pending = NoPending
  /\ latest = NoFrame
  /\ needsFull = FALSE
  /\ lacks = {}
  /\ control = <<>>
  /\ fulls = <<>>
  /\ deltas = {}
  /\ inputs = {}
  /\ budget \in Budgets
  /\ heard = Said(NoFrame, FALSE)
  /\ calm = 0

(* Something the games or the network do, which the stream must survive.   *)
Disturbs(kind) ==
  /\ budget[kind] > 0
  /\ budget' = [budget EXCEPT ![kind] = @ - 1]
  /\ calm' = 0
  /\ UNCHANGED <<settings, play>>

-----------------------------------------------------------------------------
(* The server's objects and the client's interest.  The games may do this  *)
(* between frames, or while one is simulated.                              *)

Live == {id \in NetId : live[id] # NoObject}

MutantFree(id) == id <= settings.ids /\ live[id] = NoObject

(* The counter goes around while other objects come and go: any id that is *)
(* out of quarantine may be the next one.                                  *)
Free(id) ==
  /\ id <= settings.ids
  /\ live[id] = NoObject
  /\ released[id] = NoFrame \/ frame - released[id] >= Quarantine

Tell(msgs) == control' = IF linked THEN control \o msgs ELSE control

Forget(p, id) ==
  [p EXCEPT !.relevant = @ \ {id}, !.since = [@ EXCEPT ![id] = NoFrame]]

(* An object is announced, and not sent if the filter says so.             *)
Announce(id, o, relevant) ==
  IF relevant THEN <<RegisterMsg(id, o, frame)>>
  ELSE <<RegisterMsg(id, o, frame), RelevanceMsg(id, FALSE, frame)>>

ServerRegister(o) ==
  /\ Disturbs("objects")
  /\ \A id \in NetId : live[id] # o
  /\ \E id \in NetId, wanted \in BOOLEAN :
       LET relevant == wanted \/ o \in Controlled IN
       /\ Free(id)
       /\ live' = [live EXCEPT ![id] = o]
       /\ released' = [released EXCEPT ![id] = NoFrame]
       /\ Tell(Announce(id, o, relevant))
       /\ peer' = IF linked /\ relevant
                  THEN [peer EXCEPT !.relevant = @ \cup {id}] ELSE peer
  /\ UNCHANGED <<frame, ticking, history, linked, local, remote, client,
                 fulls, deltas, inputs, heard>>

Without(states, id) == [i \in DOMAIN states \ {id} |-> states[i]]

(* The states of the object leave every record of the server.              *)
ServerUnregister(id) ==
  /\ Disturbs("objects")
  /\ id \in Live
  /\ live' = [live EXCEPT ![id] = NoObject]
  /\ released' = [released EXCEPT ![id] = frame]
  /\ history' = [s \in DOMAIN history |->
       [history[s] EXCEPT !.states = Without(@, id)]]
  /\ peer' = Forget(peer, id)
  /\ Tell(<<UnregisterMsg(id, frame)>>)
  /\ UNCHANGED <<frame, ticking, linked, local, remote, client, fulls,
                 deltas, inputs, heard>>

(* The game, or its filter, changes what is relevant to the client.        *)
SetRelevant(id, wanted) ==
  LET relevant == wanted \/ live[id] \in Controlled IN
  /\ Disturbs("interest")
  /\ linked
  /\ id \in Live
  /\ relevant # (id \in peer.relevant)
  /\ peer' = IF relevant
             THEN [peer EXCEPT !.relevant = @ \cup {id}, !.since[id] = frame]
             ELSE Forget(peer, id)
  /\ Tell(<<RelevanceMsg(id, relevant, frame)>>)
  /\ UNCHANGED <<frame, ticking, objects, history, linked, local, remote,
                 client, fulls, deltas, inputs, heard>>

-----------------------------------------------------------------------------
(* The link.  The client's hello is answered with every object, in the     *)
(* order of the ids.                                                       *)

Ordered(ids) == \A i, j \in DOMAIN ids : i < j => ids[i] < ids[j]

Connect ==
  /\ ~ linked
  /\ linked' = TRUE
  /\ \E ids \in [1 .. Cardinality(Live) -> Live], wanted \in SUBSET Live :
       LET relevant == {id \in Live : id \in wanted \/ live[id] \in Controlled} IN
       /\ Ordered(ids)
       /\ peer' = [NewPeer EXCEPT !.relevant = relevant]
       /\ control' = FlattenSeq([i \in DOMAIN ids |->
            Announce(ids[i], live[ids[i]], ids[i] \in relevant)])
  /\ UNCHANGED <<world, frame, ticking, objects, history, local, remote,
                 client, fulls, deltas, inputs, heard, calm>>

(* The link drops, or the server drops a client that says nothing: the     *)
(* client keeps its records and what it last acknowledged.                 *)
Disconnect ==
  /\ Disturbs("links")
  /\ linked
  /\ linked' = FALSE
  /\ peer' = NewPeer
  /\ remote' = [id \in NetId |-> NoRemote]
  /\ control' = <<>>
  /\ fulls' = <<>>
  /\ deltas' = {}
  /\ inputs' = {}
  /\ heard' = Said(NoFrame, FALSE)
  /\ UNCHANGED <<frame, ticking, objects, history, local, client>>

-----------------------------------------------------------------------------
(* A frame of the server: it is simulated and recorded, then sent.         *)

(* The base is not there, or not any more; it is in the slot of the new    *)
(* record; a newer snapshot already began, or the part came before.        *)
NoBase(m) == m.base # NoFrame /\ ~ Has(received, m.base)
OwnSlot(m) == m.base # NoFrame /\ Slot(m.base) = Slot(m.frame)
PassedBy(m) ==
  \/ m.frame < pending.frame
  \/ m.frame = pending.frame /\ m.part \in pending.got

(* The client's messages arrived, and the server's: no delta left on its   *)
(* way can change anything any more.                                       *)
Settled ==
  /\ linked
  /\ control = <<>>
  /\ fulls = <<>>
  /\ \A m \in deltas : NoBase(m) \/ PassedBy(m)
  /\ heard = Said(latest, needsFull)

Young(f) == frame - f < settings.age

(* "over": the resend time of the last full snapshot passed meanwhile.      *)
(* Doubling it (full_resend_usec) only makes it pass later.                *)
Simulate(over) ==
  /\ frame <= settings.frames
  /\ \A i \in DOMAIN control : Young(control[i].at)
  /\ \A i \in DOMAIN fulls : Young(fulls[i].frame)
  /\ history' = [history EXCEPT ![Slot(frame)] =
       [frame |-> frame, states |-> [id \in Live |-> play[live[id]][frame]]]]
  /\ frame' = frame + 1
  /\ ticking' = TRUE
  /\ deltas' = {m \in deltas : Young(m.frame)}
  /\ over => peer.recent
  /\ peer' = [peer EXCEPT !.recent = @ /\ ~ over]
  /\ calm' = IF ~ Settled \/ peer'.recent THEN 0
             ELSE IF calm = 2 THEN 2 ELSE calm + 1
  /\ UNCHANGED <<world, objects, linked, local, remote, client, control,
                 fulls, inputs, heard>>

(* What a snapshot is a delta over: what the client acknowledged, unless a *)
(* full one was sent since; the full one, for as long as it may be on its  *)
(* way; or nothing.  A client that says nothing gets no other full one     *)
(* until the resend time is over.                                          *)
Full == [full |-> TRUE, base |-> NoFrame]
Over(f) == [full |-> FALSE, base |-> f]
Nothing == [full |-> FALSE, base |-> NoFrame]

MutantChoice ==
  IF peer.needsFull /\ ~ peer.recent THEN Full
  ELSE IF Has(history, peer.acked) THEN Over(peer.acked)
  ELSE IF Has(history, peer.lastFull) THEN Over(peer.lastFull)
  ELSE IF peer.recent THEN Nothing ELSE Full

Choice ==
  IF peer.needsFull /\ ~ peer.recent THEN Full
  ELSE IF Has(history, peer.acked) /\ peer.lastFull <= peer.acked
       THEN Over(peer.acked)
  ELSE IF Has(history, peer.lastFull) /\ peer.recent THEN Over(peer.lastFull)
  ELSE IF Has(history, peer.acked) THEN Over(peer.acked)
  ELSE IF peer.recent THEN Nothing ELSE Full

(* The client has the object in the base, unless it became relevant again  *)
(* after it.                                                               *)
InBase(id, base) ==
  /\ base # NoFrame
  /\ id \in DOMAIN history[Slot(base)].states
  /\ peer.since[id] <= peer.acked \/ peer.since[id] <= base

(* An object registered after the frame was simulated has no state in it,  *)
(* and is written as one that did not change.                              *)
EntryOf(id, f, base) ==
  LET states == history[Slot(f)].states
      old == history[Slot(base)].states
      changed == {v \in Var : ~ InBase(id, base) \/ states[id][v] # old[id][v]}
  IN IF id \in DOMAIN states /\ (changed # {} \/ ~ InBase(id, base))
     THEN [id |-> id, changed |-> TRUE, vars |-> [v \in changed |-> states[id][v]]]
     ELSE [id |-> id, changed |-> FALSE, vars |-> [v \in {} |-> 0]]

(* The entries of the ids up to "cut" fill the first part; a full snapshot *)
(* is not split, and two parts stand for as many as it takes.              *)
Split(ids, cut) ==
  LET first == {id \in ids : id <= cut} IN
  IF first = ids \/ first = {} THEN <<ids>> ELSE <<first, ids \ first>>

MutantPartsOf(choice, f, cut) ==
  LET ids == IF choice.full THEN <<peer.relevant>> ELSE Split(peer.relevant, cut)
  IN [i \in DOMAIN ids |->
       [full |-> choice.full, frame |-> f, base |-> choice.base, part |-> i + 1,
        parts |-> Len(ids),
        entries |-> {EntryOf(id, f, choice.base) : id \in ids[i]}]]

PartsOf(choice, f, cut) ==
  LET ids == IF choice.full THEN <<peer.relevant>> ELSE Split(peer.relevant, cut)
  IN [i \in DOMAIN ids |->
       [full |-> choice.full, frame |-> f, base |-> choice.base, part |-> i,
        parts |-> Len(ids),
        entries |-> {EntryOf(id, f, choice.base) : id \in ids[i]}]]

(* What the client acknowledged settles when an object became relevant.    *)
Acknowledged(since) ==
  [id \in NetId |-> IF since[id] <= peer.acked THEN NoFrame ELSE since[id]]

SendSnapshot(f, choice, cut) ==
  LET parts == PartsOf(choice, f, cut) IN
  /\ choice # Nothing
  /\ fulls' = IF choice.full THEN fulls \o parts ELSE fulls
  /\ deltas' = IF choice.full THEN deltas
               ELSE deltas \cup {parts[i] : i \in DOMAIN parts}
  /\ peer' = IF choice.full
             THEN [peer EXCEPT !.since = Acknowledged(@), !.needsFull = FALSE,
                               !.lastFull = f, !.recent = TRUE]
             ELSE [peer EXCEPT !.since = Acknowledged(@)]

EndFrame ==
  /\ ticking
  /\ ticking' = FALSE
  /\ \/ /\ linked
        /\ \E cut \in NetId : SendSnapshot(frame - 1, Choice, cut)
     \/ /\ ~ linked \/ Choice = Nothing
        /\ UNCHANGED <<peer, fulls, deltas>>
  /\ UNCHANGED <<world, frame, objects, history, linked, local, remote,
                 client, control, inputs, heard, calm>>

MutantHandleInputs(m) ==
  /\ m \in inputs
  /\ inputs' = inputs \ {m}
  /\ heard' = m
  /\ peer' = [peer EXCEPT !.acked = IF m.ack > @ THEN m.ack ELSE @]
  /\ UNCHANGED <<world, frame, ticking, objects, history, linked, local,
                 remote, client, control, fulls, deltas, calm>>

(* An older acknowledgement than the last one is not one.                  *)
HandleInputs(m) ==
  /\ m \in inputs
  /\ inputs' = inputs \ {m}
  /\ heard' = m
  /\ peer' = [peer EXCEPT !.acked = IF m.ack > @ THEN m.ack ELSE @,
                          !.needsFull = @ \/ m.wantsFull]
  /\ UNCHANGED <<world, frame, ticking, objects, history, linked, local,
                 remote, client, control, fulls, deltas, calm>>

-----------------------------------------------------------------------------
(* The client's objects: a registered one is bound once it exists here,    *)
(* and its state may be in no snapshot received before.                    *)

ClientRegister(o) ==
  LET theirs == {id \in NetId : remote[id].object = o} IN
  /\ Disturbs("local")
  /\ o \notin local
  /\ local' = local \cup {o}
  /\ remote' = [id \in NetId |->
       IF id \in theirs THEN [remote[id] EXCEPT !.bound = TRUE] ELSE remote[id]]
  /\ needsFull' = (needsFull \/ theirs # {})
  /\ UNCHANGED <<frame, ticking, objects, history, linked, peer, records,
                 net, heard>>

ClientUnregister(o) ==
  /\ Disturbs("local")
  /\ o \in local
  /\ local' = local \ {o}
  /\ remote' = [id \in NetId |->
       IF remote[id].object = o THEN [remote[id] EXCEPT !.bound = FALSE]
       ELSE remote[id]]
  /\ UNCHANGED <<frame, ticking, objects, history, linked, peer, client, net,
                 heard>>

HandleRegister(m) ==
  LET bound == m.object \in local IN
  /\ m.kind = "register"
  /\ remote' = [remote EXCEPT ![m.id] =
       [object |-> m.object, bound |-> bound, relevant |-> TRUE]]
  /\ needsFull' = (needsFull \/ bound)

HandleUnregister(m) ==
  /\ m.kind = "unregister"
  /\ remote' = [remote EXCEPT ![m.id] = NoRemote]
  /\ UNCHANGED needsFull

HandleRelevance(m) ==
  /\ m.kind = "relevance"
  /\ remote' = IF remote[m.id] = NoRemote THEN remote
               ELSE [remote EXCEPT ![m.id].relevant = m.relevant]
  /\ UNCHANGED needsFull

HandleControl ==
  /\ control # <<>>
  /\ control' = Tail(control)
  /\ \/ HandleRegister(Head(control))
     \/ HandleUnregister(Head(control))
     \/ HandleRelevance(Head(control))
  /\ UNCHANGED <<world, frame, ticking, objects, history, linked, peer,
                 local, records, fulls, deltas, inputs, heard, calm>>

-----------------------------------------------------------------------------
(* Snapshots on the client.                                                *)

(* An entry over the states of the base: the variables it does not come    *)
(* with are the base's.  Only the states of bound objects are decoded, but *)
(* one that did not change is taken from the base in any case.             *)
IsWritten(e, base) ==
  IF e.changed
  THEN remote[e.id].bound /\ (e.id \in DOMAIN base \/ DOMAIN e.vars = Var)
  ELSE e.id \in DOMAIN base

IsMissing(e, base) == remote[e.id].bound /\ ~ IsWritten(e, base)

Decoded(e, base) ==
  [v \in Var |-> IF v \in DOMAIN e.vars THEN e.vars[v] ELSE base[e.id][v]]

Placed(states, old) ==
  [id \in DOMAIN states \cup DOMAIN old |->
     IF id \in DOMAIN states THEN states[id] ELSE old[id]]

Read(entries, base) ==
  LET written == {e \in entries : IsWritten(e, base)} IN
  [id \in {e.id : e \in written} |->
     Decoded(CHOOSE e \in written : e.id = id, base)]

(* The snapshot of a part, with it: a newer frame drops the one that is    *)
(* not complete.                                                           *)
Started(m) ==
  IF pending.frame = m.frame THEN pending
  ELSE [NoPending EXCEPT !.frame = m.frame, !.parts = m.parts]

WithPart(m) ==
  LET p == Started(m)
      base == IF m.base = NoFrame THEN NoStates ELSE received[Slot(m.base)].states
      states == Read(m.entries, base)
  IN [p EXCEPT !.got = @ \cup {m.part},
               !.missing = @ \/ \E e \in m.entries : IsMissing(e, base),
               !.states = Placed(states, @),
               !.carried = @ \cup {e.id : e \in m.entries}]

(* The slot of the frame is empty until the last part arrives.             *)
Keep(p) ==
  /\ pending' = p
  /\ received' = [received EXCEPT ![Slot(p.frame)].frame = NoFrame,
                                  ![Slot(p.frame)].states = NoStates]
  /\ UNCHANGED <<latest, needsFull, lacks>>

MutantFinish(p, full) ==
  /\ pending' = NoPending
  /\ received' = [received EXCEPT ![Slot(p.frame)] =
       [frame |-> p.frame, states |-> p.states]]
  /\ latest' = p.frame
  /\ needsFull' = (needsFull /\ ~ full)
  /\ lacks' = p.carried \ DOMAIN p.states

(* client_finish_snapshot *)
Finish(p, full) ==
  /\ pending' = NoPending
  /\ received' = [received EXCEPT ![Slot(p.frame)] =
       [frame |-> p.frame, states |-> p.states]]
  /\ latest' = p.frame
  /\ needsFull' = (p.missing \/ (needsFull /\ ~ full))
  /\ lacks' = p.carried \ DOMAIN p.states

Complete(p) == p.got = 1 .. p.parts

TakePart(m) ==
  IF Complete(WithPart(m)) THEN Finish(WithPart(m), m.full)
  ELSE Keep(WithPart(m))

(* client_handle_snapshot: what is older than the latest snapshot, or      *)
(* cannot be decoded, is dropped.                                          *)
HandleSnapshot(m) ==
  \/ /\ m.frame <= latest \/ NoBase(m)
     /\ UNCHANGED client
  \/ /\ m.frame > latest
     /\ ~ NoBase(m)
     /\ IF OwnSlot(m) THEN needsFull' = TRUE /\ UNCHANGED records
        ELSE IF PassedBy(m) THEN UNCHANGED client
        ELSE TakePart(m)

(* A delta is left on its way: it may come again, until it is too old to   *)
(* matter.                                                                 *)
HandleDelta(m) ==
  /\ m \in deltas
  /\ HandleSnapshot(m)
  /\ deltas' = {d \in deltas : d.frame > latest'}
  /\ UNCHANGED <<world, frame, ticking, objects, history, linked, peer,
                 local, remote, control, fulls, inputs, heard, calm>>

HandleFull ==
  /\ fulls # <<>>
  /\ fulls' = Tail(fulls)
  /\ HandleSnapshot(Head(fulls))
  /\ deltas' = {d \in deltas : d.frame > latest'}
  /\ UNCHANGED <<world, frame, ticking, objects, history, linked, peer,
                 local, remote, control, inputs, heard, calm>>

(* The client says what it has after every snapshot, and at every frame it *)
(* predicts.  Some of what it said before may be lost.                     *)
SendInputs ==
  /\ linked
  /\ \E kept \in SUBSET inputs :
       /\ Cardinality(kept) < MaxInputs
       /\ inputs' = kept \cup {Said(latest, needsFull)}
  /\ UNCHANGED <<world, frame, ticking, objects, history, linked, peer,
                 local, remote, client, control, fulls, deltas, heard, calm>>

-----------------------------------------------------------------------------
(* A frame of the server is one step of its process: what the client does  *)
(* meanwhile may as well come before or after it.                          *)
Games ==
  \/ \E o \in Object : ServerRegister(o)
  \/ \E id \in NetId : ServerUnregister(id)
  \/ \E id \in NetId, wanted \in BOOLEAN : SetRelevant(id, wanted)

BetweenFrames ==
  \/ Connect
  \/ Disconnect
  \/ \E over \in BOOLEAN : Simulate(over)
  \/ \E m \in inputs : HandleInputs(m)
  \/ \E o \in Object : ClientRegister(o) \/ ClientUnregister(o)
  \/ HandleControl
  \/ HandleFull
  \/ \E m \in deltas : HandleDelta(m)
  \/ SendInputs

Next ==
  \/ Games
  \/ EndFrame
  \/ ~ ticking /\ BetweenFrames

Spec == Init /\ [][Next]_vars

-----------------------------------------------------------------------------
TypeOK ==
  /\ settings \in Settings
  /\ play \in Plays
  /\ frame \in 0 .. (MaxFrame + 1)
  /\ ticking \in BOOLEAN
  /\ live \in [NetId -> Object \cup {NoObject}]
  /\ released \in [NetId -> Nat \cup {NoFrame}]
  /\ history \in [Slots -> Record]
  /\ linked \in BOOLEAN
  /\ peer \in Peer
  /\ local \subseteq Object
  /\ remote \in [NetId -> Remote]
  /\ received \in [Slots -> Record]
  /\ pending \in Pending
  /\ latest \in Frame \cup {NoFrame}
  /\ needsFull \in BOOLEAN
  /\ lacks \subseteq NetId
  /\ control \in Seq(Control)
  /\ fulls \in Seq(Snapshot)
  /\ deltas \subseteq Snapshot
  /\ inputs \subseteq Inputs
  /\ heard \in Inputs
  /\ budget \in [{"objects", "local", "interest", "links"} -> Nat]
  /\ calm \in 0 .. 2

(* Whatever was lost, late or reordered, a snapshot the client completes   *)
(* holds, for every object it has bound, exactly the state the server      *)
(* recorded for that object at that frame, and none of another object that *)
(* had its net id (server_send_snapshot, client_handle_snapshot).          *)
RecordsFaithful ==
  [][latest' # latest =>
       LET states == received'[Slot(latest')].states IN
       \A id \in DOMAIN states :
         remote[id].bound => states[id] = play[remote[id].object][latest']]_vars

(* A delta goes out only over a snapshot the client has, or that is on its *)
(* way to it, though acknowledgements are late and both histories are      *)
(* rings (server_send_snapshot, client_handle_snapshot).                   *)
BaseHeld ==
  linked /\ Choice.base # NoFrame =>
    \/ Has(received, Choice.base)
    \/ \E i \in DOMAIN fulls : fulls[i].frame = Choice.base

(* The client never lives without the state of an object it has bound, and *)
(* that the server sent it, without asking for a full snapshot.            *)
NeverLacksSilently == \A id \in lacks : remote[id].bound => needsFull

(* However wrong the stream went, two frames with nothing in its way put   *)
(* it right: the client has the newest frame, with every object relevant   *)
(* to it.                                                                  *)
Synced ==
  /\ latest = frame - 1
  /\ \A id \in peer.relevant :
       remote[id].bound => id \in DOMAIN received[Slot(latest)].states

Recovers == calm = 2 /\ ~ ticking /\ Settled => Synced
=============================================================================
