------------------------------ MODULE SyncPeer -----------------------------
(***************************************************************************)
(* One peer of the star topology (src/source/sync/tick_sync_core.cpp): the *)
(* inputs, prediction, dolls, events, spawns and host migration of a       *)
(* server and of a client.  SyncPlay has the other peers and the network;  *)
(* SyncSnapshots, what a snapshot is made of, sessions and interest.       *)
(*                                                                         *)
(* A handler is an operator from the state of a peer to its next state;    *)
(* "out" collects the messages it sends.  Frames are naturals (MeshSerial  *)
(* has their comparison).  The game is what process_tick() makes of the    *)
(* inputs of an object, so an object's state is the sequence of its        *)
(* inputs; two states are equal when they are the same one.                *)
(*                                                                         *)
(* Left out: codecs, deltas and interest, rate and size limits, malformed  *)
(* messages, statistics, and what is between two frames: the pace of the   *)
(* frames is free, and the delays of the dolls count whole ones.  Every    *)
(* frame has a snapshot (snapshot_interval 1).                             *)
(***************************************************************************)
EXTENDS Integers, Sequences, FiniteSets
LOCAL INSTANCE SequencesExt
LOCAL INSTANCE FiniteSetsExt

CONSTANTS
  Peer,        \* the ids of the peers; 1 is the server first
  Path,        \* the objects, by their paths
  Controller,  \* Controller[o]: the peer that controls object o
  Doll,        \* the objects simulated as dolls (is_doll_enabled)
  SpawnName,   \* SpawnName[i]: the path of the object of spawn i
  Killer,      \* the object that removes
  Victim,      \* this one, once its state has an input twice in a row
  History,     \* history_size
  Redundancy,  \* input_redundancy
  MinBuffer,   \* min_input_buffer
  MaxBuffer,   \* max_input_buffer
  Resync,      \* how far off a timeline may be before it jumps
  MaxDelay,    \* how far ahead an event may be (max_event_delay), in frames
  DollBudget   \* the frames a doll may be simulated again

NoFrame == -1
None == <<>>   \* no input, and the function of no frame or object

ASSUME PeerAssumption ==
  /\ Peer \subseteq Nat \ {0} /\ 1 \in Peer
  /\ Controller \in [Path -> Peer] /\ Doll \subseteq Path
  /\ \A i \in DOMAIN SpawnName : i \in Nat \ {0} /\ SpawnName[i] \in Path
  /\ History \in Nat /\ History >= 8 /\ Redundancy \in Nat \ {0}
  /\ {MinBuffer, MaxBuffer, Resync, MaxDelay, DollBudget} \subseteq Nat
  /\ MinBuffer <= MaxBuffer

-----------------------------------------------------------------------------
(* The state of a peer.                                                    *)

NoClient == [known |-> FALSE, accepted |-> FALSE, inputs |-> None,
             last |-> None, received |-> NoFrame]
NoDoll == [inputs |-> None, history |-> None, started |-> FALSE,
           next |-> NoFrame, received |-> NoFrame, speed |-> 0,
           offsets |-> {}, stale |-> FALSE, suspended |-> FALSE,
           budget |-> DollBudget]

(* "leaving": the spawns whose nodes go at the end of the engine's frame.  *)
(* The rest is for the properties.  "settled": the frame last reconciled   *)
(* on this timeline, with objects bound before frame "since"; "jumps": the *)
(* timelines before it; "ran", "taken": the events run and taken; "freed": *)
(* an object was used after the game removed it; "refused": whose hello    *)
(* came before this peer was a server; "old": the ids and nodes from an    *)
(* earlier server that the new one has not named; "kept": the ids and      *)
(* spawns a new server took over.                                          *)
NewPeer(p) ==
  [self |-> p, role |-> "client", authority |-> 1, next |-> 0,
   local |-> {}, value |-> [o \in Path |-> <<>>],
   objects |-> None, nextId |-> 1, released |-> None,
   clients |-> [c \in Peer |-> NoClient], history |-> None,
   ownInputs |-> None, spawns |-> None, order |-> <<>>, nextSpawn |-> 1,
   nodes |-> None, leaving |-> {}, pending |-> <<>>,
   remote |-> None, welcomed |-> FALSE, synchronized |-> FALSE,
   predicting |-> FALSE, latest |-> NoFrame, reconciled |-> NoFrame,
   received |-> None, predictions |-> None,
   dolls |-> [c \in Peer |-> NoDoll], out |-> <<>>,
   settled |-> NoFrame, since |-> 0, jumps |-> 0, ran |-> <<>>, taken |-> {},
   freed |-> FALSE, refused |-> {}, old |-> [ids |-> {}, nodes |-> {}],
   kept |-> [ids |-> {}, spawns |-> {}]]

IsServer(s) == s.role = "server"
Put(f, x, v) == [y \in DOMAIN f \cup {x} |-> IF y = x THEN v ELSE f[y]]
Drop(f, xs) == [y \in DOMAIN f \ xs |-> f[y]]
InOrder(ids) == SetToSortSeq(ids, <)

(* A ring of records: a frame takes the slot of the one History before it. *)
Keep(ring, f, v) ==
  Put(Drop(ring, {g \in DOMAIN ring : g % History = f % History}), f, v)

To(s, p, mode, msg) ==
  [s EXCEPT !.out = Append(@, [to |-> p, mode |-> mode, msg |-> msg])]
Accepted(s) == {c \in Peer : s.clients[c].accepted}
ToClients(s, mode, msg) ==
  FoldSeq(LAMBDA c, t : To(t, c, mode, msg), s, InOrder(Accepted(s)))

(* A frame f before which the last frames have a record in a ring: the     *)
(* inputs to send again with those of f.                                   *)
FirstFrame(ring, f) ==
  Min({g \in (f - Redundancy + 1) .. f : g .. f \subseteq DOMAIN ring})
InputsFrom(ring, f) ==
  LET first == FirstFrame(ring, f) IN
  [kind |-> "inputs", first |-> first,
   inputs |-> [i \in 1 .. (f - first + 1) |-> ring[first + i - 1]]]

-----------------------------------------------------------------------------
(* Objects.  Game code runs in process_tick(), and may remove objects.     *)

Unregister(s, o) ==
  LET ids == {id \in DOMAIN s.objects : s.objects[id].path = o}
      gone == [s EXCEPT
        !.local = @ \ {o},
        !.objects = Drop(@, ids),
        !.released = [id \in DOMAIN @ \cup ids |->
                        IF id \in ids THEN s.next ELSE @[id]],
        !.history = [f \in DOMAIN @ |-> Drop(@[f], ids)],
        !.remote = [id \in DOMAIN @ |->
                      [@[id] EXCEPT !.bound = @ /\ s.remote[id].path # o]]]
  IN FoldSeq(LAMBDA id, t :
               ToClients(t, "control", [kind |-> "unregister", id |-> id]),
             gone, InOrder(ids))

SetValue(s, o, v) ==
  IF o \in s.local THEN [s EXCEPT !.value[o] = v]
  ELSE [s EXCEPT !.freed = TRUE]

Repeats(v) == \E i \in 2 .. Len(v) : v[i] = v[i - 1]
ProcessTick(s, o, input) ==
  LET t == SetValue(s, o, Append(s.value[o], input)) IN
  IF o = Killer /\ Repeats(t.value[o]) /\ Victim \in s.local
  THEN Unregister(t, Victim) ELSE t

(* The input an object collects: a new one for each frame of a timeline.   *)
CollectInput(s, f) == <<f, s.jumps>>
InputOf(frameInput, id) ==
  IF id \in DOMAIN frameInput THEN frameInput[id] ELSE None

Register(s, id) ==
  [kind |-> "register", id |-> id, path |-> s.objects[id].path,
   controller |-> s.objects[id].controller]

AddObject(s, o) ==
  LET held(id) == \/ id \in DOMAIN s.objects
                  \/ /\ id \in DOMAIN s.released
                     /\ s.next - s.released[id] < 2 * History
      last == s.nextId + Cardinality(DOMAIN s.objects \cup DOMAIN s.released)
      id == Min({i \in s.nextId .. last : ~held(i)})
      t == [s EXCEPT
        !.objects = Put(@, id, [path |-> o, controller |-> Controller[o]]),
        !.nextId = id + 1, !.released = Drop(@, {id})]
  IN ToClients(t, "control", Register(t, id))

-----------------------------------------------------------------------------
(* Events.  An event without a frame is before the others; an event that   *)
(* is due waits, on a client, until its object is bound or it expires.     *)

(* It goes in order: its frame, then when it came.                         *)
QueueEvent(s, e) ==
  [s EXCEPT !.pending = SelectSeq(@, LAMBDA x : x.due <= e.due) \o <<e>>
                        \o SelectSeq(@, LAMBDA x : x.due > e.due)]

TargetOf(s, id) ==
  IF IsServer(s)
  THEN IF id \in DOMAIN s.objects THEN {s.objects[id].path} ELSE {}
  ELSE IF id \in DOMAIN s.remote /\ s.remote[id].bound
       THEN {s.remote[id].path} ELSE {}

(* "on": the object an event ran on, none for the network's events and for *)
(* an object that is gone; "there": the one its sender meant is here; "by" *)
(* and "under": who gave the id it is for, and whose ids are in force.     *)
Ran(s, e, on) ==
  [s EXCEPT !.ran = Append(@, [uid |-> e.uid, on |-> on, meant |-> e.meant,
                               there |-> e.meant \subseteq s.local,
                               expired |-> e.expired, from |-> e.from,
                               target |-> e.target, by |-> e.by,
                               under |-> s.authority,
                               frame |-> s.next - 1, asked |-> e.asked])]
ExecuteEvent(s, e) ==
  Ran(s, e, IF e.target = 0 THEN {} ELSE TargetOf(s, e.target))
Waits(s, e) ==
  ~IsServer(s) /\ e.target # 0 /\ TargetOf(s, e.target) = {} /\ ~e.expired

(* Mutant: an event whose object is unknown is forgotten.                  *)
MutantRunEvents(s, f) ==
  LET due(e) == e.due = NoFrame \/ (f # NoFrame /\ e.due <= f)
      run(e, t) == IF due(e) THEN ExecuteEvent(t, e)
                   ELSE [t EXCEPT !.pending = Append(@, e)]
  IN FoldLeft(LAMBDA t, e : run(e, t), [s EXCEPT !.pending = <<>>],
              s.pending)
RunEvents(s, f) ==
  LET due(e) == e.due = NoFrame \/ (f # NoFrame /\ e.due <= f)
      run(e, t) == IF due(e) /\ ~Waits(t, e) THEN ExecuteEvent(t, e)
                   ELSE [t EXCEPT !.pending = Append(@, e)]
  IN FoldLeft(LAMBDA t, e : run(e, t), [s EXCEPT !.pending = <<>>],
              s.pending)

(* The default rule: the object's controller may send it events.           *)
ServerHandleEvent(s, p, m) ==
  LET allowed == \/ m.target = 0
                 \/ /\ m.target \in DOMAIN s.objects
                    /\ s.objects[m.target].controller = p
      e == [uid |-> m.uid, target |-> m.target, meant |-> m.meant,
            by |-> m.by, asked |-> m.asked, expired |-> FALSE, from |-> p,
            due |-> IF m.asked <= s.next THEN s.next ELSE m.asked]
  IN IF s.clients[p].accepted /\ allowed /\ m.asked <= s.next + MaxDelay
     THEN QueueEvent([s EXCEPT !.taken = @ \cup {m.uid}], e) ELSE s

ClientHandleEvent(s, m) ==
  LET t == [s EXCEPT !.taken = @ \cup {m.uid}]
      later == m.asked # NoFrame /\ (~s.predicting \/ s.next <= m.asked)
      e == [uid |-> m.uid, target |-> m.target, meant |-> m.meant,
            by |-> m.by, asked |-> m.asked, expired |-> FALSE,
            from |-> s.authority,
            due |-> IF later THEN m.asked ELSE NoFrame]
  IN IF later \/ Waits(t, e) THEN QueueEvent(t, e) ELSE ExecuteEvent(t, e)

IdOf(s, o) ==
  IF IsServer(s) THEN {id \in DOMAIN s.objects : s.objects[id].path = o}
  ELSE {id \in DOMAIN s.remote : s.remote[id].bound /\ s.remote[id].path = o}

(* An event for an object, or for the network when "on" is empty.          *)
SendEvent(s, uid, on, asked) ==
  LET id == IF on = {} THEN 0 ELSE Min(UNION {IdOf(s, o) : o \in on})
      by == IF id \in s.old.ids THEN 0 ELSE s.authority
      event(f) == [kind |-> "event", uid |-> uid, target |-> id,
                   meant |-> on, by |-> by, asked |-> f]
  IN IF IsServer(s) THEN ToClients(s, "control", event(asked))
     ELSE To(s, s.authority, "control",
             event(IF asked = NoFrame /\ s.predicting THEN s.next ELSE asked))

-----------------------------------------------------------------------------
(* The server.                                                             *)

(* Inputs of frames already simulated, or beyond the ring, are refused;    *)
(* the first input that arrives for a frame is the one kept.               *)
ServerHandleInputs(s, p, m) ==
  LET frames == m.first .. m.first + Len(m.inputs) - 1
      c == s.clients[p]
      kept == {f \in frames : f >= s.next /\ f < s.next + History}
      known == {f \in frames : f < s.next + History}
      inputs == FoldLeft(LAMBDA ring, f :
                           IF f \in DOMAIN ring THEN ring
                           ELSE Keep(ring, f, m.inputs[f - m.first + 1]),
                         c.inputs, InOrder(kept))
  IN IF ~c.accepted THEN s
     ELSE [s EXCEPT !.clients[p].inputs = inputs,
                    !.clients[p].received = Max({@} \cup known)]

(* The client's input for a frame, or its last one again.                  *)
ServerResolveInput(c, f) ==
  LET input == IF f \in DOMAIN c.inputs THEN c.inputs[f] ELSE c.last
  IN [c EXCEPT !.last = input, !.inputs = Drop(@, {f})]

(* An object registered during the frame waits for the next one, and one   *)
(* removed is not simulated.  The server's inputs of dolls are kept.       *)
ServerTickObject(s, id, f) ==
  LET o == s.objects[id]
      mine == o.controller = s.authority
      input == IF mine THEN CollectInput(s, f)
               ELSE InputOf(s.clients[o.controller].last, id)
      own == IF f \in DOMAIN s.ownInputs THEN s.ownInputs[f] ELSE None
      collected == IF mine /\ o.path \in Doll
                   THEN [s EXCEPT !.ownInputs = Put(@, f, Put(own, id, input))]
                   ELSE s
      t == ProcessTick(collected, o.path, input)
  IN IF id \notin DOMAIN s.objects THEN s
     ELSE IF id \notin DOMAIN t.objects THEN t
     ELSE [t EXCEPT !.history[f] = Put(@, id, t.value[o.path])]

ServerSendOwnInputs(s, f) ==
  IF f \notin DOMAIN s.ownInputs THEN s
  ELSE ToClients(s, "unreliable", InputsFrom(s.ownInputs, f))

(* How far ahead of the frame the client's inputs are goes with it.        *)
ServerSendSnapshot(s, c, f) ==
  LET received == s.clients[c].received IN
  To(s, c, "unreliable",
     [kind |-> "snapshot", frame |-> f, states |-> s.history[f],
      buffer |-> IF received = NoFrame THEN 0 ELSE received - f])

ServerTick(s) ==
  LET f == s.next
      resolved == [s EXCEPT
        !.next = f + 1,
        !.clients = [c \in Peer |-> IF @[c].accepted
                                    THEN ServerResolveInput(@[c], f) ELSE @[c]],
        !.history = Keep(@, f, None),
        !.ownInputs = Drop(@, {g \in DOMAIN @ : g % History = f % History})]
      ran == RunEvents(resolved, f)
      ticked == FoldLeft(LAMBDA t, id : ServerTickObject(t, id, f), ran,
                         InOrder(DOMAIN ran.objects))
  IN FoldSeq(LAMBDA c, t : ServerSendSnapshot(t, c, f),
             ServerSendOwnInputs(ticked, f), InOrder(Accepted(s)))

SpawnMessage(s, i) == [kind |-> "spawn", id |-> i, spawn |-> s.spawns[i]]

(* A client that says hello gets the live spawns, then every object.       *)
ServerHandleHello(s, p) ==
  LET accepted == To([s EXCEPT !.clients[p].accepted = TRUE], p, "control",
                     [kind |-> "welcome"])
      spawned == FoldLeft(LAMBDA t, i :
                            To(t, p, "control", SpawnMessage(s, i)),
                          accepted, s.order)
  IN IF ~s.clients[p].known \/ s.clients[p].accepted THEN s
     ELSE FoldLeft(LAMBDA t, id : To(t, p, "control", Register(s, id)),
                   spawned, InOrder(DOMAIN s.objects))

-----------------------------------------------------------------------------
(* The client: what it predicts, and its objects.                          *)

Bound(s, id) == id \in DOMAIN s.remote /\ s.remote[id].bound
PredictedIds(s) ==
  {id \in DOMAIN s.remote : Bound(s, id) /\ s.remote[id].controller = s.self}
IsPredicted(s, id) == s.predicting /\ id \in PredictedIds(s)
DollIds(s, p) ==
  {id \in DOMAIN s.remote : /\ Bound(s, id) /\ p # s.self
                            /\ s.remote[id].controller = p
                            /\ s.remote[id].path \in Doll}
IsActiveDoll(s, id) ==
  /\ Bound(s, id) /\ s.remote[id].path \in Doll
  /\ s.dolls[s.remote[id].controller].started /\ s.predicting

(* Peers without dolls stop theirs (client_update_predicted_ids).          *)
UpdateIds(s) ==
  [s EXCEPT !.dolls = [p \in Peer |->
     [@[p] EXCEPT !.started = @ /\ DollIds(s, p) # {}]]]

(* The state of an object at a frame, from this peer's history.            *)
FindState(s, id, f) ==
  LET ring == IF IsServer(s) THEN s.history
              ELSE IF IsPredicted(s, id)
              THEN [g \in DOMAIN s.predictions |-> s.predictions[g].states]
              ELSE IF IsActiveDoll(s, id)
              THEN s.dolls[s.remote[id].controller].history
              ELSE s.received
  IN IF f \in DOMAIN ring /\ id \in DOMAIN ring[f] THEN {ring[f][id]} ELSE {}

SetState(s, id, states) ==
  IF id \in DOMAIN states /\ Bound(s, id)
  THEN SetValue(s, s.remote[id].path, states[id]) ELSE s
LatestStates(s) == IF s.latest = NoFrame THEN None ELSE s.received[s.latest]

Bind(s, id) ==
  LET bound == [s EXCEPT !.remote[id].bound = TRUE, !.settled = NoFrame,
                         !.since = s.next]
      ran == RunEvents(bound, IF s.predicting THEN s.next - 1 ELSE NoFrame)
  IN IF IsPredicted(ran, id) THEN SetState(ran, id, LatestStates(ran))
     ELSE ran

ClientHandleRegister(s, m) ==
  LET t == [s EXCEPT !.remote = Put(@, m.id,
              [path |-> m.path, controller |-> m.controller,
               bound |-> FALSE]),
                          !.old.ids = @ \ {m.id}]
  IN IF m.path \in s.local THEN Bind(t, m.id) ELSE t
ClientHandleUnregister(s, m) ==
  [s EXCEPT !.remote = Drop(@, {m.id}), !.old.ids = @ \ {m.id}]

(* The game adds an object.                                                *)
RegisterObject(s, o) ==
  LET t == [s EXCEPT !.local = @ \cup {o}, !.value[o] = <<>>]
      ids == {id \in DOMAIN s.remote : s.remote[id].path = o}
  IN IF o \in s.local THEN s
     ELSE IF IsServer(s) THEN AddObject(t, o)
     ELSE FoldLeft(Bind, t, InOrder(ids))

-----------------------------------------------------------------------------
(* The client: prediction.                                                 *)

ResetDolls(s) ==
  [s EXCEPT !.dolls = [p \in Peer |->
     [@[p] EXCEPT !.started = FALSE, !.offsets = {}]]]

(* A timeline that starts, or jumps, to a frame ahead of the server's.     *)
NewTimeline(s, start) ==
  ResetDolls([s EXCEPT !.next = start, !.predictions = None,
                       !.settled = NoFrame, !.jumps = @ + 1])

StartPrediction(s, start) ==
  LET t == [NewTimeline(UpdateIds(s), start) EXCEPT
              !.predicting = TRUE, !.reconciled = NoFrame]
  IN FoldLeft(LAMBDA u, id : SetState(u, id, LatestStates(s)), t,
              InOrder(PredictedIds(s)))

AdjustSpeed(s, buffer, start) ==
  LET error == MinBuffer - buffer IN
  IF s.predicting /\ (error > Resync \/ -error > Resync)
  THEN NewTimeline(s, start) ELSE s

(* An object is looked up again after the code of another one ran.         *)
PredictObject(s, id, f) ==
  LET input == CollectInput(s, f)
      collected == [s EXCEPT !.predictions[f].input = Put(@, id, input)]
      t == ProcessTick(collected, s.remote[id].path, input)
  IN IF ~Bound(s, id) THEN s
     ELSE IF ~Bound(t, id) THEN t
     ELSE [t EXCEPT !.predictions[f].states =
             Put(@, id, t.value[s.remote[id].path])]

(* Mutant: the objects are those bound when the rewind began.              *)
MutantReplayObject(s, id, f) ==
  LET input == InputOf(s.predictions[f].input, id)
      t == ProcessTick(s, s.remote[id].path, input)
  IN [t EXCEPT !.predictions[f].states =
        Put(@, id, t.value[s.remote[id].path])]
ReplayObject(s, id, f) ==
  LET input == InputOf(s.predictions[f].input, id)
      t == ProcessTick(s, s.remote[id].path, input)
  IN IF ~Bound(s, id) THEN s
     ELSE IF ~Bound(t, id) THEN t
     ELSE [t EXCEPT !.predictions[f].states =
             Put(@, id, t.value[s.remote[id].path])]

(* The frames predicted after f, up to the first one missing.              *)
FramesAfter(s, f) ==
  {g \in f + 1 .. s.next - 1 : f + 1 .. g \subseteq DOMAIN s.predictions}

Diverged(s, ids, f) ==
  \E id \in ids \cap DOMAIN s.received[f] :
    \/ id \notin DOMAIN s.predictions[f].states
    \/ s.predictions[f].states[id] # s.received[f][id]

(* Takes the server's states at frame f, and simulates the later ones.     *)
Rewind(s, ids, f) ==
  LET states == s.received[f]
      taken(t, id) ==
        LET u == SetState(t, id, states) IN
        IF id \in DOMAIN states /\ Bound(t, id)
        THEN [u EXCEPT !.predictions[f].states = Put(@, id, states[id])]
        ELSE u
      replay(t, g) ==
        FoldLeft(LAMBDA u, id : ReplayObject(u, id, g), t, InOrder(ids))
  IN FoldLeft(replay, FoldLeft(taken, s, InOrder(ids)),
              InOrder(FramesAfter(s, f)))

Reconcile(s, f) ==
  LET ids == PredictedIds(s)
      t == [s EXCEPT !.reconciled = f,
                     !.settled = IF f < s.since THEN NoFrame ELSE f]
  IN IF \/ ~s.predicting \/ ids = {}
        \/ s.reconciled # NoFrame /\ f <= s.reconciled
        \/ s.next <= f \/ f \notin DOMAIN s.predictions
     THEN s
     ELSE IF Diverged(s, ids, f) THEN Rewind(t, ids, f) ELSE t

-----------------------------------------------------------------------------
(* The client: the dolls of another peer, on a timeline behind its inputs. *)

(* Twentieths of a frame: the speed changes by one for each input too many *)
(* or too few, and by four at most (DOLL_SPEED_GAIN, DOLL_MAX_SPEED_DELTA).*)
FrameSpeed == 20
MaxSteps == 3

Between(x, low, high) == IF x < low THEN low ELSE IF x > high THEN high ELSE x
Lesser(a, b) == IF a < b THEN a ELSE b

(* Inputs near the local timeline are kept; the newest one measures how    *)
(* late they come.                                                         *)
HandleDollInputs(s, p, m) ==
  LET frames == m.first .. m.first + Len(m.inputs) - 1
      now == IF s.predicting THEN s.next ELSE m.first
      kept == {f \in frames : f - now < History \div 2
                              /\ f - now > -(History \div 2)}
      d == s.dolls[p]
      inputs == FoldLeft(LAMBDA ring, f :
                           IF f \in DOMAIN ring THEN ring
                           ELSE Keep(ring, f, m.inputs[f - m.first + 1]),
                         d.inputs, InOrder(kept))
      newest == Max(kept)
      t == [s EXCEPT !.dolls[p].inputs = inputs]
  IN IF ~s.welcomed \/ kept = {} THEN s
     ELSE IF newest <= d.received THEN t
     ELSE [t EXCEPT !.dolls[p].received = newest, !.dolls[p].stale = FALSE,
                    !.dolls[p].offsets =
                      IF s.predicting THEN @ \cup {s.next - newest} ELSE @]

(* The inputs to keep ahead of a doll: more of them when they come         *)
(* irregularly.                                                            *)
DollTarget(d) ==
  LET spread == IF d.offsets = {} THEN 0 ELSE Max(d.offsets) - Min(d.offsets)
  IN Between(MinBuffer + spread, MinBuffer, MaxBuffer)

DollMatches(s, ids, dollStates, states) ==
  \A id \in ids \cap DOMAIN states :
    Bound(s, id) => /\ id \in DOMAIN dollStates
                    /\ dollStates[id] = states[id]

SetDollState(s, p, id, f) ==
  LET states == s.received[f]
      t == SetState(s, id, states)
  IN IF id \in DOMAIN states /\ Bound(s, id)
     THEN [t EXCEPT !.dolls[p].history[f] = Put(@, id, states[id])] ELSE t

TickDoll(s, p, id, f, frameInput) ==
  LET t == ProcessTick(s, s.remote[id].path, InputOf(frameInput, id))
  IN IF ~Bound(s, id) THEN s
     ELSE IF ~Bound(t, id) THEN t
     ELSE [t EXCEPT !.dolls[p].history[f] =
             Put(@, id, t.value[s.remote[id].path])]

(* The input of the frame, or the latest one shortly before it; then the   *)
(* server's state when it is known already.                                *)
SimulateDoll(s, p, f) ==
  LET d == s.dolls[p]
      ids == DollIds(s, p)
      known == {g \in f - MaxBuffer - Redundancy .. f : g \in DOMAIN d.inputs}
      frameInput == IF known = {} THEN None ELSE d.inputs[Max(known)]
      t == FoldLeft(LAMBDA u, id : TickDoll(u, p, id, f, frameInput),
                    [s EXCEPT !.dolls[p].history = Keep(@, f, None)],
                    InOrder(ids))
  IN IF \/ f \notin DOMAIN s.received
        \/ DollMatches(t, ids, t.dolls[p].history[f], s.received[f])
     THEN t
     ELSE FoldLeft(LAMBDA u, id : SetDollState(u, p, id, f), t, InOrder(ids))

(* Puts a doll at a snapshot, and simulates it up to a frame; too far from *)
(* it, the doll goes on from the snapshot.                                 *)
RestoreDoll(s, p, f, upTo) ==
  LET next == IF upTo <= f \/ upTo - f >= History \div 2 THEN f + 1 ELSE upTo
      at == FoldLeft(LAMBDA u, id : SetDollState(u, p, id, f),
                     [s EXCEPT !.dolls[p].history = Keep(@, f, None)],
                     InOrder(DollIds(s, p)))
      there == FoldLeft(LAMBDA u, g : SimulateDoll(u, p, g), at,
                        InOrder(f + 1 .. next - 1))
  IN IF f \notin DOMAIN s.received THEN s
     ELSE [there EXCEPT !.dolls[p].next = next, !.dolls[p].started = TRUE]

SnapshotBefore(s, f) == Max({g \in DOMAIN s.received : g < f} \cup {NoFrame})

StepDoll(s, p) ==
  [SimulateDoll(s, p, s.dolls[p].next) EXCEPT !.dolls[p].next = @ + 1]

AdvanceDoll(s, p) ==
  LET d == s.dolls[p]
      stop == [s EXCEPT !.dolls[p].started = FALSE]
      target == DollTarget(d)
      start == d.received - target + 1
      error == d.received - d.next + 1 - target
      speed == d.speed + FrameSpeed + Between(error, -4, 4)
      steps == Lesser(speed \div FrameSpeed, MaxSteps)
      stepped == FoldLeft(LAMBDA u, i : StepDoll(u, p), s,
                          [i \in 1 .. steps |-> i])
  IN IF DollIds(s, p) = {} THEN s
     ELSE IF d.received = NoFrame \/ d.stale \/ d.suspended THEN stop
     ELSE IF ~d.started
     THEN RestoreDoll([s EXCEPT !.dolls[p].speed = 0], p,
                      SnapshotBefore(s, start), start)
     ELSE IF error > Resync \/ -error > Resync THEN stop
     ELSE [stepped EXCEPT !.dolls[p].speed =
             Lesser(speed - steps * FrameSpeed, FrameSpeed)]
AdvanceDolls(s) == FoldLeft(AdvanceDoll, s, InOrder(Peer))

(* A doll that simulated a snapshot's frame otherwise is simulated again   *)
(* from it, while its budget lasts.                                        *)
ReconcileDoll(s, p, f) ==
  LET d == s.dolls[p]
      cost == d.next - f - 1
      matches == f \in DOMAIN d.history
                 /\ DollMatches(s, DollIds(s, p), d.history[f], s.received[f])
  IN IF ~d.started \/ DollIds(s, p) = {} \/ d.next <= f \/ matches THEN s
     ELSE IF d.budget < cost
     THEN [s EXCEPT !.dolls[p].started = FALSE, !.dolls[p].suspended = TRUE]
     ELSE RestoreDoll([s EXCEPT !.dolls[p].budget = @ - cost], p, f, d.next)
ReconcileDolls(s, f) ==
  IF ~s.predicting THEN s
  ELSE FoldLeft(LAMBDA t, p : ReconcileDoll(t, p, f), s, InOrder(Peer))

-----------------------------------------------------------------------------
(* The client: a frame, and a snapshot.                                    *)

ClientTick(s) ==
  LET f == s.next
      t == UpdateIds(s)
      begun == RunEvents([t EXCEPT !.next = f + 1], f)
      predicted == FoldLeft(LAMBDA u, id : PredictObject(u, id, f),
                            [begun EXCEPT !.predictions =
                               Keep(@, f, [input |-> None, states |-> None])],
                            InOrder(PredictedIds(t)))
  IN AdvanceDolls(predicted)

(* The inputs of its last frames go to the server; to the other peers too, *)
(* when they are of objects that are dolls there.                          *)
SendInputs(s, connected) ==
  LET last == s.next - 1
      shares == \E id \in PredictedIds(s) : s.remote[id].path \in Doll
      peers == {s.authority} \cup
               (IF shares THEN connected \ {s.authority} ELSE {})
      frames == [f \in DOMAIN s.predictions |-> s.predictions[f].input]
  IN IF last \notin DOMAIN s.predictions THEN s
     ELSE FoldSeq(LAMBDA p, t : To(t, p, "unreliable",
                                   InputsFrom(frames, last)),
                  s, InOrder(peers))

(* Shows the objects it neither predicts nor simulates as dolls at the     *)
(* last snapshot (interpolate_remote is off).                              *)
UpdateInterpolation(s) ==
  LET shown == {id \in DOMAIN s.remote :
                  Bound(s, id) /\ ~IsPredicted(s, id) /\ ~IsActiveDoll(s, id)}
  IN FoldLeft(LAMBDA t, id : SetState(t, id, LatestStates(s)), s,
              InOrder(shown))

(* "start": where the timeline goes if it is too far off.                  *)
HandleSnapshot(s, m, start) ==
  LET known == [id \in {i \in DOMAIN m.states : Bound(s, i)} |-> m.states[id]]
      t == UpdateIds([s EXCEPT !.received = Keep(@, m.frame, known),
                               !.latest = m.frame])
      reconciled == Reconcile(AdjustSpeed(t, m.buffer, start), m.frame)
  IN IF s.latest # NoFrame /\ m.frame <= s.latest THEN s
     ELSE UpdateInterpolation(ReconcileDolls(reconciled, m.frame))

-----------------------------------------------------------------------------
(* Spawns: the spawner of the game (src/source/nodes/tick_spawner.cpp)     *)
(* makes the node of a spawn, whose object registers, and frees it.  "uid" *)
(* tells two spawns with the same id apart.                                *)

AddSpawned(s, i, uid) ==
  RegisterObject([s EXCEPT !.nodes = Put(@, i, uid)], SpawnName[i])
FreeNode(s, i) ==
  Unregister([s EXCEPT !.nodes = Drop(@, {i})], SpawnName[i])

Spawn(s, uid) ==
  LET i == s.nextSpawn
      t == [s EXCEPT !.nextSpawn = i + 1, !.spawns = Put(@, i, uid),
                     !.order = Append(@, i)]
  IN AddSpawned(ToClients(t, "control", SpawnMessage(t, i)), i, uid)

(* The node leaves the tree: its object first, then the spawn.             *)
Despawn(s, i) ==
  LET t == ToClients(FreeNode(s, i), "control",
                     [kind |-> "despawn", id |-> i])
  IN [t EXCEPT !.spawns = Drop(@, {i}),
               !.order = SelectSeq(@, LAMBDA j : j # i)]

(* The record is kept: this client may become the server.                  *)
HandleSpawn(s, m) ==
  LET t == IF m.id \in DOMAIN s.spawns THEN s
           ELSE [s EXCEPT !.spawns = Put(@, m.id, m.spawn),
                          !.order = Append(@, m.id),
                          !.nextSpawn = Max({@, m.id + 1})]
  IN IF m.id \in DOMAIN s.nodes \/ SpawnName[m.id] \in s.local THEN t
     ELSE AddSpawned(t, m.id, m.spawn)

(* The node, and its object, stay until the engine's frame ends.  A name   *)
(* is not given again meanwhile, as none that is made from a spawn's id is *)
(* (server_spawn): what becomes of a spawn of that name is not a case.     *)
HandleDespawn(s, m) ==
  [s EXCEPT !.spawns = Drop(@, {m.id}),
            !.order = SelectSeq(@, LAMBDA j : j # m.id),
            !.leaving = @ \cup ({m.id} \cap DOMAIN s.nodes),
            !.old.nodes = @ \ {m.id}]

EndFrame(s) ==
  FoldLeft(FreeNode, [s EXCEPT !.leaving = {}], InOrder(s.leaving))

-----------------------------------------------------------------------------
(* Connections, and the host's migration.                                  *)

Hello == [kind |-> "hello"]
SayHello(s, connected) ==
  IF s.authority \in connected THEN To(s, s.authority, "control", Hello)
  ELSE s

(* The objects stay bound, and the events that wait for their frame wait.  *)
FollowAuthority(s, new, connected) ==
  SayHello([ResetDolls(s) EXCEPT
    !.old = [ids |-> DOMAIN s.remote, nodes |-> DOMAIN s.nodes],
    !.authority = new, !.welcomed = FALSE, !.synchronized = FALSE,
    !.predicting = FALSE, !.latest = NoFrame, !.reconciled = NoFrame,
    !.settled = NoFrame, !.received = None, !.predictions = None], connected)

(* The objects keep their ids; those of the old server are this peer's.    *)
(* The ones it did not predict are put at the last snapshot.  The timeline *)
(* goes on at "frame".                                                     *)
BecomeServer(s, frame, connected) ==
  LET ids == {id \in DOMAIN s.remote : s.remote[id].bound}
      predicted == PredictedIds(s)
      owner(p) == IF p = s.authority THEN s.self ELSE p
      set == FoldLeft(LAMBDA t, id : SetState(t, id, LatestStates(s)), s,
                      InOrder(ids \ predicted))
      t == [set EXCEPT
        !.role = "server", !.authority = s.self, !.next = frame,
        !.kept = [ids |-> ids, spawns |-> DOMAIN s.spawns],
        !.objects = [id \in ids |->
                       [path |-> s.remote[id].path,
                        controller |-> owner(s.remote[id].controller)]],
        !.nextId = Max(ids \cup {0}) + 1, !.released = None,
        !.history = None, !.ownInputs = None,
        !.remote = None, !.welcomed = FALSE, !.predicting = FALSE,
        !.latest = NoFrame, !.reconciled = NoFrame, !.settled = NoFrame,
        !.received = None, !.predictions = None,
        !.dolls = [p \in Peer |-> NoDoll],
        !.clients = [c \in Peer |-> [NoClient EXCEPT !.known =
                                       c \in connected]]]
      unknown == s.local \ {s.remote[id].path : id \in ids}
  IN FoldSeq(LAMBDA o, u : AddObject(u, o), t, SetToSeq(unknown))

HandleMigrated(s, new, frame, connected) ==
  IF IsServer(s) \/ new = s.authority THEN s
  ELSE IF new = s.self THEN BecomeServer(s, frame, connected)
  ELSE FollowAuthority(s, new, connected)

HandleConnected(s, p, connected) ==
  IF IsServer(s)
  THEN IF s.clients[p].known THEN s
       ELSE [s EXCEPT !.clients[p] = [NoClient EXCEPT !.known = TRUE]]
  ELSE IF p = s.authority THEN SayHello(s, connected) ELSE s

(* A client that loses its server has no objects of it any more.           *)
HandleDisconnected(s, p) ==
  IF IsServer(s)
  THEN [s EXCEPT !.clients[p] = NoClient, !.refused = @ \ {p}]
  ELSE IF p = s.authority
  THEN [s EXCEPT !.welcomed = FALSE, !.predicting = FALSE, !.remote = None,
                 !.dolls = [c \in Peer |-> NoDoll], !.old.ids = {}]
  ELSE [s EXCEPT !.dolls[p] = NoDoll]

(* A client takes state from its server only, and inputs for dolls from    *)
(* anyone.                                                                 *)
HandlePacket(s, p, m, start) ==
  IF IsServer(s)
  THEN CASE m.kind = "hello" -> ServerHandleHello(s, p)
         [] m.kind = "inputs" -> ServerHandleInputs(s, p, m)
         [] m.kind = "event" -> ServerHandleEvent(s, p, m)
         [] OTHER -> s
  ELSE IF m.kind = "inputs" THEN HandleDollInputs(s, p, m)
  ELSE IF m.kind = "hello" THEN [s EXCEPT !.refused = @ \cup {p}]
  ELSE IF p # s.authority THEN s
  ELSE CASE m.kind = "welcome" -> [s EXCEPT !.welcomed = TRUE]
         [] m.kind = "register" -> ClientHandleRegister(s, m)
         [] m.kind = "unregister" -> ClientHandleUnregister(s, m)
         [] m.kind = "snapshot" -> HandleSnapshot(s, m, start)
         [] m.kind = "spawn" -> HandleSpawn(s, m)
         [] m.kind = "despawn" -> HandleDespawn(s, m)
         [] m.kind = "event" -> ClientHandleEvent(s, m)
         [] OTHER -> s
=============================================================================
