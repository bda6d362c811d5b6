------------------------ MODULE SyncRecovery_proofs -------------------------
(***************************************************************************)
(* What the stream of snapshots comes back to: once nothing is lost any    *)
(* more, a message and an answer each way are enough for the client to     *)
(* have every object the server sends it, as the server last recorded it.  *)
(* On the invariants of SyncSnapshots_proofs, for any numbers.             *)
(***************************************************************************)
EXTENDS SyncSnapshots_proofs

-----------------------------------------------------------------------------
(* What the server last heard: no more than what it counts as acknowledged;*)
(* and a full snapshot asked for with the newest frame is not sent yet.    *)
HeardInv ==
  /\ ~ linked => inputs = {} /\ heard = Said(NoFrame, FALSE)
  /\ heard.ack <= peer.acked
  /\ heard.wantsFull /\ heard.ack = LastSent => peer.needsFull

LEMMA SaidFacts ==
  ASSUME Shape
  PROVE  /\ heard.ack \in Int /\ heard.wantsFull \in BOOLEAN
         /\ \A m \in inputs : m.ack \in Int /\ m.wantsFull \in BOOLEAN
         /\ Said(NoFrame, FALSE).ack = NoFrame
         /\ Said(NoFrame, FALSE).wantsFull = FALSE
         /\ NewPeer.acked = NoFrame /\ NewPeer.needsFull = TRUE
         /\ NewPeer.recent = FALSE /\ NoFrame \in Int
<1>1. \A f \in Frame \cup {NoFrame} : f \in Int
  BY FrameOrNone
<1>2. heard \in Inputs /\ inputs \subseteq Inputs
  BY DEF Shape, TypeOK
<1>3. \A m \in Inputs : m.ack \in Frame \cup {NoFrame} /\ m.wantsFull \in BOOLEAN
  BY DEF Inputs
<1>4. /\ Said(NoFrame, FALSE).ack = NoFrame
      /\ Said(NoFrame, FALSE).wantsFull = FALSE
      /\ NewPeer.acked = NoFrame /\ NewPeer.needsFull = TRUE
      /\ NewPeer.recent = FALSE /\ NoFrame \in Int
  BY DEF Said, NewPeer, NoFrame
<1> QED
  BY <1>1, <1>2, <1>3, <1>4

LEMMA HeardInit == Init => HeardInv
BY DEF Init, HeardInv, Said, NewPeer, NoFrame

(* The games change what is relevant to the client, and nothing it said.   *)
LEMMA GamesEffect ==
  ASSUME Shape, Games
  PROVE  /\ calm' = 0
         /\ UNCHANGED <<linked, inputs, heard, frame, ticking>>
         /\ peer'.acked = peer.acked
         /\ peer'.needsFull = peer.needsFull
<1> USE DEF Shape, TypeOK, Peer
<1>1. ASSUME NEW o \in Object, ServerRegister(o)
      PROVE  /\ calm' = 0
             /\ UNCHANGED <<linked, inputs, heard, frame, ticking>>
             /\ peer'.needsFull = peer.needsFull
  BY <1>1 DEF ServerRegister, Disturbs
<1>2. ASSUME NEW id \in NetId
      PROVE  Forget(peer, id).needsFull = peer.needsFull
  BY DEF Forget
<1>3. ASSUME NEW id \in NetId, ServerUnregister(id)
      PROVE  /\ calm' = 0
             /\ UNCHANGED <<linked, inputs, heard, frame, ticking>>
             /\ peer'.needsFull = peer.needsFull
  BY <1>2, <1>3 DEF ServerUnregister, Disturbs
<1>4. ASSUME NEW id \in NetId, NEW wanted \in BOOLEAN, SetRelevant(id, wanted)
      PROVE  /\ calm' = 0
             /\ UNCHANGED <<linked, inputs, heard, frame, ticking>>
             /\ peer'.needsFull = peer.needsFull
  <2>1. [peer EXCEPT !.relevant = @ \cup {id}, !.since[id] = frame].needsFull
          = peer.needsFull
    OBVIOUS
  <2> QED
    BY <1>2, <1>4, <2>1 DEF SetRelevant, Disturbs
<1> QED
  BY <1>1, <1>3, <1>4, AckedStays DEF Games

LEMMA HeardStays ==
  ASSUME Shape, HeardInv, inputs' \subseteq inputs \/ linked,
         UNCHANGED <<linked, heard>>, LastSent' = LastSent,
         peer'.acked = peer.acked, peer'.needsFull = peer.needsFull
  PROVE  HeardInv'
BY DEF HeardInv

LEMMA HeardEndFrame ==
  ASSUME StreamInv, HeardInv, EndFrame
  PROVE  HeardInv'
<1>1. /\ ticking /\ ticking' = FALSE
      /\ UNCHANGED <<linked, inputs, heard, frame>>
  BY DEF EndFrame
<1>2. /\ frame \in Nat /\ frame > 0
      /\ LastSent = frame - 2 /\ LastSent' = frame - 1
  BY <1>1, FrameTypes DEF StreamInv, Shape, LastSent
<1>3. peer'.acked = peer.acked
  BY AckedStays DEF StreamInv
<1>4. heard.ack # frame - 1
  <2>1. heard.ack \in Int /\ peer.acked \in Int /\ latest \in Int
    BY SaidFacts, FrameTypes DEF StreamInv
  <2>2. latest <= frame - 2 /\ heard.ack <= peer.acked
    BY <1>2 DEF StreamInv, FramesInv, HeardInv
  <2>3. peer.acked # NoFrame => peer.acked <= latest
    BY DEF StreamInv, HeldInv, Held
  <2> QED
    BY <1>2, <2>1, <2>2, <2>3 DEF NoFrame
<1> QED
  BY <1>1, <1>2, <1>3, <1>4 DEF HeardInv

LEMMA HeardInputs ==
  ASSUME StreamInv, HeardInv, NEW m \in inputs, HandleInputs(m)
  PROVE  HeardInv'
<1> DEFINE ack == IF m.ack > peer.acked THEN m.ack ELSE peer.acked
<1>1. /\ inputs' \subseteq inputs /\ heard' = m
      /\ UNCHANGED <<linked, frame, ticking>>
      /\ peer' = [peer EXCEPT !.acked = ack,
                              !.needsFull = @ \/ m.wantsFull]
  BY DEF HandleInputs
<1>2. peer' = [peer EXCEPT !.acked = ack,
                           !.needsFull = peer.needsFull \/ m.wantsFull]
  BY <1>1
<1>3. peer'.acked = ack /\ peer'.needsFull = (peer.needsFull \/ m.wantsFull)
  BY <1>2 DEF StreamInv, Shape, TypeOK, Peer
<1>4. m.ack \in Int /\ peer.acked \in Int /\ linked
  BY SaidFacts, FrameTypes DEF StreamInv, HeardInv
<1>5. m.ack <= ack
  BY <1>4
<1> HIDE DEF ack
<1> QED
  BY <1>1, <1>3, <1>4, <1>5 DEF HeardInv

LEMMA HeardStep ==
  ASSUME StreamInv, HeardInv, [Next]_vars
  PROVE  HeardInv'
<1>1. CASE Games
  BY <1>1, GamesEffect, HeardStays DEF StreamInv, LastSent
<1>2. CASE EndFrame
  BY <1>2, HeardEndFrame
<1>3. CASE ~ ticking /\ BetweenFrames
  <2>1. CASE Connect
    <3>1. /\ ~ linked /\ linked' /\ UNCHANGED <<inputs, heard>>
          /\ \E S : peer' = [NewPeer EXCEPT !.relevant = S]
      BY <2>1 DEF Connect
    <3>2. peer'.acked = NoFrame /\ peer'.needsFull = TRUE
      BY <3>1 DEF NewPeer
    <3> QED
      BY <3>1, <3>2, SaidFacts DEF HeardInv, StreamInv, Said
  <2>2. CASE Disconnect
    <3>1. /\ inputs' = {} /\ heard' = Said(NoFrame, FALSE)
          /\ peer' = NewPeer
      BY <2>2 DEF Disconnect
    <3> QED
      BY <3>1, SaidFacts DEF HeardInv, StreamInv, Said
  <2>3. ASSUME NEW over \in BOOLEAN, Simulate(over)
        PROVE  HeardInv'
    <3>1. /\ UNCHANGED <<linked, inputs, heard>>
          /\ frame' = frame + 1 /\ ticking'
          /\ peer' = [peer EXCEPT !.recent = @ /\ ~ over]
      BY <2>3 DEF Simulate
    <3>2. peer'.acked = peer.acked /\ peer'.needsFull = peer.needsFull
      BY <3>1 DEF StreamInv, Shape, TypeOK, Peer
    <3>3. LastSent' = LastSent
      BY <1>3, <3>1, FrameTypes DEF LastSent, StreamInv
    <3> QED
      BY <3>1, <3>2, <3>3, HeardStays DEF StreamInv
  <2>4. CASE \E m \in inputs : HandleInputs(m)
    BY <2>4, HeardInputs
  <2>5. ASSUME NEW o \in Object, ClientRegister(o) \/ ClientUnregister(o)
        PROVE  HeardInv'
    BY <2>5, HeardStays
       DEF ClientRegister, ClientUnregister, net, LastSent, StreamInv
  <2>6. CASE HandleControl
    BY <2>6, HeardStays DEF HandleControl, LastSent, StreamInv
  <2>7. CASE HandleFull \/ \E m \in deltas : HandleDelta(m)
    BY <2>7, HeardStays DEF HandleFull, HandleDelta, LastSent, StreamInv
  <2>8. CASE SendInputs
    BY <2>8, HeardStays DEF SendInputs, LastSent, StreamInv
  <2> QED
    BY <1>3, <2>1, <2>2, <2>3, <2>4, <2>5, <2>6, <2>7, <2>8 DEF BetweenFrames
<1>4. CASE UNCHANGED vars
  BY <1>4, HeardStays DEF vars, LastSent, StreamInv
<1> QED
  BY <1>1, <1>2, <1>3, <1>4 DEF Next

-----------------------------------------------------------------------------
(* After two frames with nothing in its way.  The stream is set right in   *)
(* three steps: a frame is simulated; what is sent for it is a full        *)
(* snapshot, or a delta over one the client has; and whichever it is, the  *)
(* client takes it, or asks for a full one once it did.                    *)
Shown(f) ==
  \A id \in peer.relevant :
    remote[id].bound => id \in DOMAIN received[Slot(f)].states

Told(m) == {e.id : e \in m.entries}

(* The deltas of the newest frame.                                         *)
Newest == {m \in deltas : m.frame = frame - 1}

(* The tick of a frame in peace: the server is about to send a full        *)
(* snapshot, or, in the second frame, a delta over the frame before, which *)
(* the client has and the server knows that it has.                        *)
Ready ==
  /\ ~ peer.recent
  /\ fulls = <<>>
  /\ DOMAIN history[Slot(frame - 1)].states = Live
  /\ calm = 2 => \/ peer.needsFull
                 \/ /\ latest = frame - 2 /\ latest # NoFrame
                    /\ peer.acked = latest
                    /\ Shown(latest)

(* A full snapshot has every variable of every object.                     *)
Whole(m) ==
  \A id \in peer.relevant :
    \E e \in m.entries : e.id = id /\ e.changed /\ DOMAIN e.vars = Var

(* The full snapshot of the last frame is on its way, alone.               *)
FullComes ==
  /\ latest < frame - 1
  /\ Len(fulls) = 1
  /\ fulls[1].frame = frame - 1
  /\ Whole(fulls[1])

(* The parts q of a delta, as many as n.                                   *)
PartsCome(n, q, base) ==
  /\ Newest = {q[i] : i \in 1 .. n}
  /\ \A i \in 1 .. n : q[i].part = i /\ q[i].parts = n /\ q[i].base = base
  /\ \A id \in peer.relevant : \E i \in 1 .. n : id \in Told(q[i])
  /\ pending.frame = frame - 1 =>
       /\ pending.parts = n
       /\ pending.got # 1 .. n
       /\ \A i \in pending.got :
            i \in 1 .. n /\ Told(q[i]) \subseteq pending.carried
       /\ calm = 2 => \A id \in pending.carried \cap peer.relevant :
            remote[id].bound => id \in DOMAIN pending.states

BaseServes(base) ==
  /\ base < frame - 1 /\ InRing(base) /\ Held(base)
  /\ calm = 2 => latest = frame - 2 /\ Shown(base)

(* The delta of the last frame is on its way, over a base both ends have.  *)
DeltaComes ==
  /\ latest < frame - 1
  /\ fulls = <<>>
  /\ \E base \in Frame :
       /\ BaseServes(base)
       /\ \E n \in 1 .. 2 : \E q \in [1 .. n -> Newest] : PartsCome(n, q, base)

(* The client has the last frame: whole, or it asks for a full one after   *)
(* the first frame in peace.                                               *)
Arrived ==
  /\ latest = frame - 1
  /\ Shown(latest) \/ (calm = 1 /\ needsFull)

(* In peace, the server is ready to send what helps, or it comes, or came. *)
CalmInv ==
  calm > 0 =>
    /\ linked /\ control = <<>> /\ frame > 0
    /\ ticking => Ready
    /\ ~ ticking => Arrived \/ FullComes \/ DeltaComes

RecoverInv ==
  /\ StreamInv
  /\ LacksInv
  /\ peer.relevant \subseteq Live
  /\ HeardInv
  /\ CalmInv

LEMMA CalmTypes ==
  ASSUME StreamInv
  PROVE  /\ calm \in 0 .. 2 /\ calm \in Int
         /\ frame \in Nat /\ ticking \in BOOLEAN
         /\ latest \in Int /\ latest >= NoFrame
         /\ pending.frame \in Int
         /\ settings \in Settings
         /\ fulls \in Seq(Snapshot) /\ deltas \subseteq Snapshot
         /\ peer.relevant \subseteq NetId
         /\ pending \in Pending /\ received \in [Slots -> Record]
         /\ history \in [Slots -> Record]
         /\ peer \in Peer
BY FrameTypes DEF StreamInv, Shape, TypeOK, Peer

(* Once the client has what was sent, and the server heard of it, it has   *)
(* the newest frame.                                                       *)
LEMMA SettledArrived ==
  ASSUME StreamInv, CalmInv, calm > 0, ~ ticking, Settled
  PROVE  Arrived
<1>1. fulls = <<>> /\ \A m \in deltas : NoBase(m) \/ PassedBy(m)
  BY DEF Settled
<1>2. ~ FullComes
  BY <1>1 DEF FullComes
<1>3. ASSUME DeltaComes PROVE FALSE
  <2>1. PICK base \in Frame :
          /\ BaseServes(base)
          /\ \E n \in 1 .. 2 : \E q \in [1 .. n -> Newest] : PartsCome(n, q, base)
    BY <1>3 DEF DeltaComes
  <2>8. PICK n \in 1 .. 2 : \E q \in [1 .. n -> Newest] : PartsCome(n, q, base)
    BY <2>1
  <2>2. PICK q \in [1 .. n -> Newest] : PartsCome(n, q, base)
    BY <2>8
  <2>3. Has(received, base) /\ base \in Nat
    BY <2>1, FrameNat DEF BaseServes, Held, NoFrame
  <2>4. pending.frame \in Int /\ pending.frame <= frame - 1 /\ frame \in Nat
    BY CalmTypes DEF StreamInv, FramesInv, LastSent
  <2>5. ASSUME NEW i \in 1 .. n
        PROVE  pending.frame = frame - 1 /\ i \in pending.got
    <3>1. q[i] \in deltas /\ q[i].frame = frame - 1
      BY DEF Newest
    <3>2. q[i].base = base /\ q[i].part = i
      BY <2>2 DEF PartsCome
    <3>3. PassedBy(q[i])
      BY <1>1, <2>3, <3>1, <3>2 DEF NoBase
    <3> QED
      BY <2>4, <3>1, <3>2, <3>3 DEF PassedBy
  <2>6. 1 \in 1 .. n
    OBVIOUS
  <2>7. /\ pending.got # 1 .. n
        /\ \A i \in pending.got : i \in 1 .. n
    BY <2>2, <2>5, <2>6 DEF PartsCome
  <2> QED
    BY <2>5, <2>7
<1> QED
  BY <1>2, <1>3 DEF CalmInv

LEMMA CalmSimulate ==
  ASSUME StreamInv, HeardInv, CalmInv, ~ ticking, NEW over \in BOOLEAN,
         Simulate(over)
  PROVE  CalmInv'
<1>1. /\ frame' = frame + 1 /\ ticking' = TRUE
      /\ peer' = [peer EXCEPT !.recent = @ /\ ~ over]
      /\ history' = [history EXCEPT ![Slot(frame)] =
           [frame |-> frame, states |-> [id \in Live |-> play[live[id]][frame]]]]
      /\ UNCHANGED <<settings, live, linked, remote, received, latest,
                     needsFull, control, fulls>>
      /\ calm' = IF ~ Settled \/ peer'.recent THEN 0
                 ELSE IF calm = 2 THEN 2 ELSE calm + 1
  BY DEF Simulate, world, objects, client, records
<1>2. /\ peer'.acked = peer.acked /\ peer'.needsFull = peer.needsFull
      /\ peer'.relevant = peer.relevant
  BY <1>1, CalmTypes DEF Peer
<1> SUFFICES ASSUME calm' > 0 PROVE CalmInv'
  BY DEF CalmInv
<1>3. Settled /\ ~ peer'.recent
  BY <1>1
<1>4. linked /\ control = <<>> /\ fulls = <<>> /\ heard = Said(latest, needsFull)
  BY <1>3 DEF Settled
<1>5. (DOMAIN history[Slot(frame - 1)].states = Live)'
  <2>1. Slot(frame) \in Slots /\ Slot(frame - 1)' = Slot(frame)
    <3>1. frame \in Nat /\ frame' - 1 = frame
      BY <1>1, CalmTypes
    <3> QED
      BY <1>1, <3>1, CalmTypes, SlotFacts DEF Slot
  <2>2. history'[Slot(frame)] =
          [frame |-> frame, states |-> [id \in Live |-> play[live[id]][frame]]]
    BY <1>1, <2>1, CalmTypes
  <2>3. Live' = Live
    BY <1>1 DEF Live
  <2> QED
    BY <2>1, <2>2, <2>3
<1>6. ASSUME calm' = 2
      PROVE  \/ peer'.needsFull
             \/ /\ latest' = frame' - 2 /\ latest' # NoFrame
                /\ peer'.acked = latest'
                /\ Shown(latest)'
  <2>1. calm > 0 /\ frame \in Nat
    BY <1>1, <1>3, <1>6, CalmTypes
  <2>2. Arrived /\ frame > 0
    BY <1>3, <2>1, SettledArrived DEF CalmInv
  <2>3. LastSent = latest /\ latest = frame - 1 /\ latest = frame' - 2
        /\ latest # NoFrame
    BY <1>1, <2>1, <2>2 DEF Arrived, LastSent, NoFrame
  <2>4. heard.ack = latest /\ (needsFull => heard.wantsFull)
    BY <1>4 DEF Said
  <2>5. CASE needsFull
    BY <1>2, <2>3, <2>4, <2>5 DEF HeardInv
  <2>6. CASE ~ needsFull
    <3>1. peer.acked = latest
      <4>1. latest <= peer.acked
        BY <2>4 DEF HeardInv
      <4>2. peer.acked \in Int /\ latest \in Int /\ latest >= 0
        BY <2>1, <2>2, <2>3, FrameTypes DEF StreamInv
      <4>3. peer.acked # NoFrame
        BY <4>1, <4>2 DEF NoFrame
      <4>4. peer.acked <= latest
        BY <4>3 DEF StreamInv, HeldInv, Held
      <4> QED
        BY <4>1, <4>2, <4>4
    <3>2. Shown(latest)
      BY <2>2, <2>6 DEF Arrived
    <3>3. Shown(latest)'
      BY <1>1, <1>2, <3>2 DEF Shown, Slot
    <3> QED
      BY <1>1, <1>2, <2>3, <3>1, <3>3
  <2> QED
    BY <2>5, <2>6
<1>7. Ready'
  <2>1. fulls' = <<>>
    BY <1>1, <1>4
  <2> QED
    BY <1>3, <1>5, <1>6, <2>1 DEF Ready
<1>8. frame' > 0
  BY <1>1, CalmTypes
<1> QED
  BY <1>1, <1>4, <1>7, <1>8 DEF CalmInv

-----------------------------------------------------------------------------
(* What is sent for a frame that is ready.                                 *)
LEMMA ReadyChoice ==
  ASSUME StreamInv, Ready
  PROVE  /\ Choice # Nothing
         /\ \/ Choice.full /\ Choice.base = NoFrame
            \/ /\ ~ Choice.full /\ Choice.base = peer.acked
               /\ ~ peer.needsFull /\ Has(history, peer.acked)
<1>1. ~ peer.recent
  BY DEF Ready
<1>2. /\ Full.full /\ Full.base = NoFrame
      /\ ~ Nothing.full /\ Nothing.base = NoFrame
      /\ \A f : ~ Over(f).full /\ Over(f).base = f
  BY DEF Full, Nothing, Over
<1>3. \/ Choice = Full
      \/ Choice = Over(peer.acked) /\ ~ peer.needsFull /\ Has(history, peer.acked)
  BY <1>1 DEF Choice
<1>4. Has(history, peer.acked) => peer.acked # NoFrame
  BY DEF Has
<1> QED
  BY <1>2, <1>3, <1>4

(* The parts of a snapshot are numbered, and have an entry of every object.*)
LEMMA PartsCover ==
  ASSUME settings \in Settings, history \in [Slots -> Record], peer \in Peer,
         NEW choice \in Offer, NEW f \in Frame, NEW cut \in NetId
  PROVE  LET parts == PartsOf(choice, f, cut)
             n == Len(parts) IN
         /\ n \in 1 .. 2 /\ DOMAIN parts = 1 .. n
         /\ \A i \in 1 .. n : parts[i].part = i /\ parts[i].parts = n
         /\ \A id \in peer.relevant : \E i \in 1 .. n :
              EntryOf(id, f, choice.base) \in parts[i].entries
<1> DEFINE
      ids == IF choice.full THEN <<peer.relevant>> ELSE Split(peer.relevant, cut)
      entries(i) == {EntryOf(id, f, choice.base) : id \in ids[i]}
      part(i) == [full |-> choice.full, frame |-> f, base |-> choice.base,
                  part |-> i, parts |-> Len(ids), entries |-> entries(i)]
      parts == PartsOf(choice, f, cut)
      first == {id \in peer.relevant : id <= cut}
<1>1. parts = [i \in DOMAIN ids |-> part(i)]
  BY DEF PartsOf
<1>2. \/ ids = <<peer.relevant>>
      \/ ids = <<first, peer.relevant \ first>>
  BY DEF Split
<1>3. \A id \in peer.relevant : id \in first \/ id \in peer.relevant \ first
  OBVIOUS
<1> HIDE DEF ids, first
<1>4. /\ Len(ids) \in 1 .. 2 /\ DOMAIN ids = 1 .. Len(ids)
      /\ \A id \in peer.relevant : \E i \in 1 .. Len(ids) : id \in ids[i]
  <2>1. CASE ids = <<peer.relevant>>
    BY <2>1
  <2>2. CASE ids = <<first, peer.relevant \ first>>
    <3>1. /\ Len(ids) = 2 /\ DOMAIN ids = 1 .. 2
          /\ ids[1] = first /\ ids[2] = peer.relevant \ first
          /\ 1 \in 1 .. 2 /\ 2 \in 1 .. 2
      BY <2>2
    <3> QED
      BY <1>3, <3>1
  <2> QED
    BY <1>2, <2>1, <2>2
<1>5. /\ DOMAIN parts = 1 .. Len(ids)
      /\ \A i \in 1 .. Len(ids) : parts[i] = part(i)
  BY <1>1, <1>4
<1>6. Len(parts) = Len(ids)
  <2>1. parts \in Seq(Snapshot)
    BY PartsFacts
  <2> HIDE DEF parts
  <2>2. Len(parts) \in Nat /\ DOMAIN parts = 1 .. Len(parts)
    BY <2>1
  <2> QED
    BY <1>4, <1>5, <2>2
<1>7. \A i \in DOMAIN ids :
        /\ part(i).part = i
        /\ part(i).parts = Len(ids)
        /\ part(i).entries = entries(i)
  OBVIOUS
<1> HIDE DEF part, parts
<1>8. \A i \in 1 .. Len(ids) : \A id \in ids[i] :
        EntryOf(id, f, choice.base) \in parts[i].entries
  BY <1>4, <1>5, <1>7
<1> HIDE DEF entries
<1> QED
  BY <1>4, <1>5, <1>6, <1>7, <1>8 DEF parts

(* The entry of an object the client has nothing of.                       *)
LEMMA WholeEntry ==
  ASSUME NEW id, NEW f, id \in DOMAIN history[Slot(f)].states
  PROVE  LET e == EntryOf(id, f, NoFrame) IN
         e.id = id /\ e.changed /\ DOMAIN e.vars = Var
<1> DEFINE
      states == history[Slot(f)].states
      old == history[Slot(NoFrame)].states
      changed == {v \in Var : ~ InBase(id, NoFrame) \/ states[id][v] # old[id][v]}
<1>1. ~ InBase(id, NoFrame)
  BY DEF InBase
<1>2. changed = Var
  BY <1>1
<1>3. EntryOf(id, f, NoFrame) =
        [id |-> id, changed |-> TRUE, vars |-> [v \in changed |-> states[id][v]]]
  BY <1>1 DEF EntryOf
<1> HIDE DEF states, changed
<1>4. DOMAIN [v \in changed |-> states[id][v]] = Var
  BY <1>2
<1> QED
  BY <1>3, <1>4

LEMMA CalmEndFrame ==
  ASSUME RecoverInv, EndFrame
  PROVE  CalmInv'
<1>1. /\ ticking /\ ticking' = FALSE
      /\ UNCHANGED <<settings, frame, live, history, linked, remote, received,
                     pending, latest, needsFull, control, calm>>
  BY DEF EndFrame, world, objects, client, records
<1> SUFFICES ASSUME calm > 0 PROVE CalmInv'
  BY <1>1 DEF CalmInv
<1> DEFINE F == frame - 1
<1>2. StreamInv /\ Ready /\ linked /\ control = <<>> /\ frame > 0
  BY <1>1 DEF RecoverInv, CalmInv
<1>3. /\ F \in Frame /\ F \in Nat /\ latest < F
      /\ \A m \in deltas : m.frame # F
      /\ pending.frame # F
  <2>1. frame \in 0 .. (MaxFrame + 1) /\ frame \in Nat /\ MaxFrame \in Nat
    BY <1>2, SnapshotsAssumption, CalmTypes DEF StreamInv, Shape, TypeOK
  <2>2. F \in Frame /\ F \in Nat /\ LastSent = F - 1
    BY <1>1, <1>2, <2>1 DEF Frame, LastSent
  <2>3. latest \in Int /\ pending.frame \in Int
        /\ \A m \in deltas : m.frame \in Int
    BY <1>2, CalmTypes, FrameTypes DEF StreamInv
  <2>4. /\ latest <= F - 1 /\ pending.frame <= F - 1
        /\ \A m \in deltas : m.frame <= F - 1
    BY <1>2, <2>2 DEF StreamInv, FramesInv
  <2> HIDE DEF F
  <2> QED
    BY <2>2, <2>3, <2>4
<1>4. Choice \in Offer
  BY <1>2, CalmTypes, ChoiceType
<1>5. PICK cut \in NetId : SendSnapshot(F, Choice, cut)
  BY <1>2, ReadyChoice DEF EndFrame
<1> DEFINE parts == PartsOf(Choice, F, cut)
           n == Len(parts)
<1>6. /\ fulls' = IF Choice.full THEN fulls \o parts ELSE fulls
      /\ deltas' = IF Choice.full THEN deltas
                   ELSE deltas \cup {parts[i] : i \in DOMAIN parts}
  BY <1>5 DEF SendSnapshot
<1>7. peer'.relevant = peer.relevant
  <2>1. peer' = [peer EXCEPT !.since = Acknowledged(@), !.needsFull = FALSE,
                             !.lastFull = F, !.recent = TRUE]
        \/ peer' = [peer EXCEPT !.since = Acknowledged(@)]
    BY <1>5 DEF SendSnapshot
  <2> QED
    BY <1>2, <2>1, CalmTypes DEF Peer
<1>8. /\ parts \in Seq(Snapshot)
      /\ Choice.full => n = 1
      /\ \A i \in DOMAIN parts : parts[i].frame = F /\ parts[i].base = Choice.base
  BY <1>2, <1>3, <1>4, CalmTypes, PartsFacts
<1>9. /\ n \in 1 .. 2 /\ DOMAIN parts = 1 .. n
      /\ \A i \in 1 .. n : parts[i].part = i /\ parts[i].parts = n
      /\ \A id \in peer.relevant : \E i \in 1 .. n :
           EntryOf(id, F, Choice.base) \in parts[i].entries
  BY <1>2, <1>3, <1>4, CalmTypes, PartsCover
<1>10. \A id \in peer.relevant : EntryOf(id, F, Choice.base).id = id
  BY <1>2, <1>3, CalmTypes, EntryType
<1> HIDE DEF parts, n, F
<1>11. CASE Choice.full
  <2>1. /\ fulls' = parts /\ Len(fulls') = 1 /\ fulls'[1] = parts[1]
        /\ parts[1].frame = F
    BY <1>2, <1>6, <1>8, <1>9, <1>11 DEF Ready, n
  <2>2. Whole(fulls[1])'
    <3>1. ASSUME NEW id \in peer.relevant
          PROVE  \E e \in parts[1].entries :
                   e.id = id /\ e.changed /\ DOMAIN e.vars = Var
      <4>1. id \in DOMAIN history[Slot(F)].states
        BY <1>2, <3>1 DEF Ready, RecoverInv, F
      <4>2. EntryOf(id, F, NoFrame) \in parts[1].entries
        <5>1. Choice.base = NoFrame
          BY <1>2, <1>4, <1>11, CalmTypes, ChoiceType
        <5>2. \A i \in 1 .. n : i = 1
          BY <1>8, <1>11
        <5> QED
          BY <1>9, <3>1, <5>1, <5>2
      <4> QED
        BY <4>1, <4>2, WholeEntry
    <3> QED
      BY <1>7, <2>1, <3>1 DEF Whole
  <2>3. FullComes'
    BY <1>1, <1>3, <2>1, <2>2 DEF FullComes, F
  <2> QED
    BY <1>1, <1>2, <2>3 DEF CalmInv
<1>12. CASE ~ Choice.full
  <2>1. PICK base \in Frame \cup {NoFrame} :
          /\ base = peer.acked /\ Choice.base = base
          /\ ~ peer.needsFull /\ Has(history, base)
    BY <1>2, <1>12, ReadyChoice, CalmTypes DEF Peer
  <2>2. /\ base \in Frame /\ base \in Nat /\ base < F /\ InRing(base)
    <3>1. base \in Frame /\ base \in Nat
      BY <2>1, FrameNat DEF Has
    <3>2. base < frame - 1 /\ base >= frame - settings.history
      BY <1>1, <1>2, <2>1, <3>1, ChoiceInRing DEF Has
    <3> QED
      BY <3>1, <3>2 DEF InRing, F
  <2>3. BaseServes(base)'
    <3>1. Held(base)
      BY <1>2, <2>1 DEF StreamInv, HeldInv
    <3>2. calm = 2 => latest = frame - 2 /\ Shown(base)
      BY <1>2, <2>1 DEF Ready
    <3>3. Shown(base) => Shown(base)'
      BY <1>1, <1>7 DEF Shown, Slot
    <3>4. (InRing(base) /\ Held(base))'
      BY <1>1, <2>2, <3>1 DEF InRing, Held, Has, Slot
    <3> QED
      BY <1>1, <2>2, <3>2, <3>3, <3>4 DEF BaseServes, F
  <2>4. PICK N \in 1 .. 2 : \E q \in [1 .. N -> Snapshot] :
          /\ DOMAIN parts = 1 .. N
          /\ \A i \in 1 .. N :
               /\ parts[i] = q[i] /\ q[i].frame = F /\ q[i].base = base
               /\ q[i].part = i /\ q[i].parts = N
          /\ \A id \in peer.relevant : \E i \in 1 .. N :
               EntryOf(id, F, base) \in q[i].entries
    <3> DEFINE q == [i \in 1 .. n |-> parts[i]]
    <3>1. \A i \in 1 .. n : q[i] = parts[i]
      OBVIOUS
    <3>2. q \in [1 .. n -> Snapshot]
      <4> HIDE DEF Snapshot
      <4> QED
        BY <1>8, <1>9
    <3> HIDE DEF q
    <3>3. \A i \in 1 .. n :
            /\ parts[i] = q[i] /\ q[i].frame = F /\ q[i].base = base
            /\ q[i].part = i /\ q[i].parts = n
      BY <1>8, <1>9, <2>1, <3>1
    <3>4. \A id \in peer.relevant : \E i \in 1 .. n :
            EntryOf(id, F, base) \in q[i].entries
      BY <1>9, <2>1, <3>1
    <3>5. n \in 1 .. 2 /\ DOMAIN parts = 1 .. n
      BY <1>9
    <3> QED
      BY <3>2, <3>3, <3>4, <3>5, Zenon
  <2>5. PICK q \in [1 .. N -> Snapshot] :
          /\ DOMAIN parts = 1 .. N
          /\ \A i \in 1 .. N :
               /\ parts[i] = q[i] /\ q[i].frame = F /\ q[i].base = base
               /\ q[i].part = i /\ q[i].parts = N
          /\ \A id \in peer.relevant : \E i \in 1 .. N :
               EntryOf(id, F, base) \in q[i].entries
    BY <2>4
  <2>6. Newest' = {q[i] : i \in 1 .. N}
    <3>1. deltas' = deltas \cup {q[i] : i \in 1 .. N}
      BY <1>6, <1>12, <2>5
    <3>2. Newest' = {m \in deltas' : m.frame = F}
      BY <1>1 DEF Newest, F
    <3> QED
      BY <1>3, <2>5, <3>1, <3>2
  <2>7. \A id \in peer'.relevant : \E i \in 1 .. N : id \in Told(q[i])
    BY <1>7, <1>10, <2>1, <2>5 DEF Told
  <2>8. PartsCome(N, q, base)'
    <3>1. pending'.frame # frame' - 1
      BY <1>1, <1>3 DEF F
    <3> QED
      BY <2>5, <2>6, <2>7, <3>1 DEF PartsCome, Told
  <2>9. q \in [1 .. N -> Newest']
    BY <2>6
  <2>10. DeltaComes'
    <3>1. latest' < frame' - 1 /\ fulls' = <<>>
      BY <1>1, <1>2, <1>3, <1>6, <1>12 DEF Ready, F
    <3> QED
      BY <2>2, <2>3, <2>8, <2>9, <3>1 DEF DeltaComes
  <2> QED
    BY <1>1, <1>2, <2>10 DEF CalmInv
<1> QED
  BY <1>11, <1>12

-----------------------------------------------------------------------------
(* A snapshot of the newest frame, once it is whole, puts the stream right:*)
(* a client that lacks something of it knows that it does.                 *)
LEMMA FinishArrives ==
  ASSUME Shape, LacksInv', NEW m \in Snapshot, m.frame = frame - 1,
         calm \in {1, 2},
         latest' = m.frame,
         received' = [received EXCEPT ![Slot(m.frame)] =
           [frame |-> m.frame, states |-> WithPart(m).states]],
         lacks' = WithPart(m).carried \ DOMAIN WithPart(m).states,
         UNCHANGED <<settings, frame, remote, peer, calm>>,
         peer.relevant \subseteq WithPart(m).carried,
         calm = 2 => \A id \in peer.relevant :
           remote[id].bound => id \in DOMAIN WithPart(m).states
  PROVE  Arrived'
<1> DEFINE p == WithPart(m)
<1>1. received'[Slot(latest)'].states = p.states
  <2>1. received \in [Slots -> Record] /\ Slot(m.frame) \in Slots
    BY SlotFacts, FrameTypes DEF Shape, TypeOK
  <2>2. Slot(latest)' = Slot(m.frame)
    BY DEF Slot
  <2> QED
    BY <2>1, <2>2
<1>2. ASSUME NEW id \in peer.relevant, remote[id].bound,
             id \notin DOMAIN p.states
      PROVE  calm = 1 /\ needsFull'
  <2>1. id \in lacks'
    BY <1>2
  <2> QED
    BY <1>2, <2>1 DEF LacksInv, NeverLacksSilently
<1> HIDE DEF p
<1>3. Shown(latest)' \/ (calm' = 1 /\ needsFull')
  BY <1>1, <1>2 DEF Shown
<1> QED
  BY <1>3 DEF Arrived

LEMMA EntriesRead ==
  ASSUME TypeOK, NEW m \in Snapshot, NEW e \in m.entries,
         IsWritten(e, BaseOf(m))
  PROVE  e.id \in DOMAIN WithPart(m).states
<1>1. /\ DOMAIN WithPart(m).states
           = DOMAIN Read(m.entries, BaseOf(m)) \cup DOMAIN Started(m).states
  BY WithPartFacts DEF TypeOK
<1>2. DOMAIN Read(m.entries, BaseOf(m))
        = {d.id : d \in {x \in m.entries : IsWritten(x, BaseOf(m))}}
  BY BaseType, ReadFacts DEF TypeOK, Snapshot
<1> QED
  BY <1>1, <1>2

LEMMA Carries ==
  ASSUME TypeOK, NEW m \in Snapshot
  PROVE  WithPart(m).carried = Started(m).carried \cup Told(m)
BY WithPartFacts DEF TypeOK, Told

(* It has the newest frame: nothing that is still on its way is newer.     *)
LEMMA ArrivedStays ==
  ASSUME StreamInv, ~ ticking, Arrived, NEW m \in Snapshot,
         m.frame <= LastSent, HandleSnapshot(m),
         UNCHANGED <<settings, frame, remote, peer, calm>>
  PROVE  Arrived'
<1>1. m.frame <= latest /\ ~ (m.frame > latest)
  <2>1. m.frame \in Int /\ latest \in Int
    BY FrameTypes DEF StreamInv
  <2> QED
    BY <2>1 DEF Arrived, LastSent
<1>2. UNCHANGED client
  BY <1>1 DEF HandleSnapshot
<1> QED
  BY <1>2 DEF client, records, Arrived, Shown, Slot

LEMMA CalmFull ==
  ASSUME RecoverInv, LacksInv', ~ ticking, HandleFull
  PROVE  CalmInv'
<1>1. /\ UNCHANGED <<settings, frame, ticking, linked, remote, peer, control, calm>>
      /\ fulls # <<>> /\ HandleSnapshot(Head(fulls))
  BY DEF HandleFull, world
<1> SUFFICES ASSUME calm > 0 PROVE CalmInv'
  BY <1>1 DEF CalmInv
<1>2. /\ StreamInv /\ linked /\ control = <<>> /\ frame > 0
      /\ Arrived \/ FullComes \/ DeltaComes
  BY DEF RecoverInv, CalmInv
<1>3. SUFFICES Arrived'
  BY <1>1, <1>2 DEF CalmInv
<1>4. PICK m \in Snapshot : m = Head(fulls) /\ m = fulls[1] /\ FullOnWay(m)
  <2>1. fulls \in Seq(Snapshot) /\ \A i \in DOMAIN fulls : FullOnWay(fulls[i])
    BY <1>2, CalmTypes DEF StreamInv, FramesInv
  <2> HIDE DEF Snapshot
  <2>2. 1 \in DOMAIN fulls /\ Head(fulls) = fulls[1] /\ Head(fulls) \in Snapshot
    BY <1>1, <2>1
  <2> QED
    BY <2>1, <2>2
<1>5. CASE Arrived
  BY <1>1, <1>2, <1>4, <1>5, ArrivedStays DEF FullOnWay
<1>6. CASE FullComes
  <2>1. m.frame = frame - 1 /\ m.frame > latest /\ Whole(m)
    BY <1>2, <1>4, <1>6, CalmTypes DEF FullComes
  <2>2. ~ NoBase(m) /\ ~ OwnSlot(m) /\ ~ PassedBy(m) /\ ~ (m.frame <= latest)
    <3>1. pending.frame <= m.frame /\ pending.frame # m.frame
      BY <1>2, <1>4, <2>1 DEF FullOnWay, StreamInv, FramesInv, LastSent
    <3>2. pending.frame \in Int /\ m.frame \in Int /\ latest \in Int
      BY <1>2, FrameTypes DEF StreamInv
    <3> QED
      BY <1>4, <2>1, <3>1, <3>2 DEF FullOnWay, NoBase, OwnSlot, PassedBy
  <2>3. Finish(WithPart(m), m.full)
    BY <1>1, <1>2, <1>4, <2>1, <2>2, FullCompletes
       DEF HandleSnapshot, TakePart, StreamInv, Shape
  <2>4. /\ latest' = m.frame
        /\ received' = [received EXCEPT ![Slot(m.frame)] =
             [frame |-> m.frame, states |-> WithPart(m).states]]
        /\ lacks' = WithPart(m).carried \ DOMAIN WithPart(m).states
    <3>1. WithPart(m).frame = m.frame
      BY <1>2, WithPartFacts DEF StreamInv, Shape, TypeOK
    <3> QED
      BY <2>3, <3>1 DEF Finish
  <2>5. ASSUME NEW id \in peer.relevant
        PROVE  /\ id \in WithPart(m).carried
               /\ remote[id].bound => id \in DOMAIN WithPart(m).states
    <3>1. PICK e \in m.entries : e.id = id /\ e.changed /\ DOMAIN e.vars = Var
      BY <2>1 DEF Whole
    <3>2. id \in Told(m)
      BY <3>1 DEF Told
    <3>3. remote[id].bound => IsWritten(e, BaseOf(m))
      BY <3>1 DEF IsWritten
    <3> QED
      BY <1>2, <3>1, <3>2, <3>3, Carries, EntriesRead DEF StreamInv, Shape
  <2>6. calm \in {1, 2}
    BY <1>2, CalmTypes
  <2> QED
    BY <1>1, <1>2, <2>1, <2>4, <2>5, <2>6, FinishArrives DEF StreamInv
<1>7. CASE DeltaComes
  BY <1>1, <1>7 DEF DeltaComes
<1> QED
  BY <1>2, <1>5, <1>6, <1>7

-----------------------------------------------------------------------------
(* A delta of the newest frame, with the parts that came before it.        *)
LEMMA PartJoins ==
  ASSUME StreamInv, NEW base \in Frame, Has(received, base),
         NEW n \in 1 .. 2, NEW q \in [1 .. n -> Newest],
         PartsCome(n, q, base), calm = 2 => Shown(base),
         NEW k \in 1 .. n
  PROVE  LET p == WithPart(q[k]) IN
         /\ p.parts = n
         /\ \A i \in p.got : i \in 1 .. n /\ Told(q[i]) \subseteq p.carried
         /\ calm = 2 => \A id \in p.carried \cap peer.relevant :
              remote[id].bound => id \in DOMAIN p.states
<1>1. PICK m \in Snapshot : m = q[k]
  BY CalmTypes DEF Newest
<1> DEFINE p == WithPart(m)
           s == Started(m)
<1>2. /\ m.frame = frame - 1 /\ m.part = k /\ m.parts = n /\ m.base = base
      /\ base # NoFrame
  BY <1>1, FrameNat DEF PartsCome, Newest, NoFrame
<1>3. /\ p.parts = s.parts /\ p.got = s.got \cup {k}
      /\ p.carried = s.carried \cup Told(m)
      /\ DOMAIN s.states \subseteq DOMAIN p.states
  BY <1>2, WithPartFacts, Carries DEF StreamInv, Shape, TypeOK
<1>4. /\ pending.frame = m.frame => s = pending
      /\ pending.frame # m.frame =>
           s.parts = n /\ s.got = {} /\ s.carried = {}
  BY <1>2, StartedFacts DEF StreamInv, Shape, TypeOK
<1>5. /\ s.parts = n
      /\ \A i \in s.got : i \in 1 .. n /\ Told(q[i]) \subseteq s.carried
      /\ calm = 2 => \A id \in s.carried \cap peer.relevant :
           remote[id].bound => id \in DOMAIN s.states
  BY <1>2, <1>4 DEF PartsCome
<1>6. ASSUME calm = 2, NEW id \in Told(m) \cap peer.relevant, remote[id].bound
      PROVE  id \in DOMAIN p.states
  <2>1. PICK e \in m.entries : e.id = id
    BY <1>6 DEF Told
  <2>2. id \in DOMAIN BaseOf(m)
    BY <1>2, <1>6 DEF Shown, BaseOf
  <2>3. IsWritten(e, BaseOf(m))
    BY <1>6, <2>1, <2>2 DEF IsWritten
  <2> QED
    BY <2>1, <2>3, EntriesRead DEF StreamInv, Shape
<1> HIDE DEF p, s
<1>7. p.parts = n
  BY <1>3, <1>5
<1>8. ASSUME NEW i \in p.got
      PROVE  i \in 1 .. n /\ Told(q[i]) \subseteq p.carried
  BY <1>1, <1>3, <1>5, <1>8
<1>9. ASSUME calm = 2, NEW id \in p.carried \cap peer.relevant, remote[id].bound
      PROVE  id \in DOMAIN p.states
  BY <1>3, <1>5, <1>6, <1>9
<1> QED
  BY <1>1, <1>7, <1>8, <1>9 DEF p

(* Nothing of the newest frame was taken: it still comes.                  *)
LEMMA StillComes ==
  ASSUME StreamInv, ~ ticking, NEW base \in Frame, BaseServes(base),
         NEW n \in 1 .. 2, NEW q \in [1 .. n -> Newest], PartsCome(n, q, base),
         latest < frame - 1, fulls = <<>>,
         UNCHANGED <<settings, frame, fulls, peer, remote, calm>>,
         latest' < frame - 1,
         deltas' = {d \in deltas : d.frame > latest'},
         Held(base)',
         calm = 2 => UNCHANGED <<latest, received>>,
         pending'.frame = frame - 1 => pending' = pending
  PROVE  DeltaComes'
<1>1. Newest' = Newest
  BY DEF Newest
<1>2. q \in [1 .. n -> Newest'] /\ PartsCome(n, q, base)'
  BY <1>1 DEF PartsCome, Told
<1>3. BaseServes(base)'
  BY DEF BaseServes, InRing, Shown, Slot
<1> QED
  BY <1>2, <1>3 DEF DeltaComes

LEMMA CalmDelta ==
  ASSUME RecoverInv, StreamInv', LacksInv', ~ ticking,
         NEW m \in deltas, HandleDelta(m)
  PROVE  CalmInv'
<1>1. /\ UNCHANGED <<settings, frame, ticking, linked, remote, peer, control,
                     fulls, calm>>
      /\ HandleSnapshot(m)
      /\ deltas' = {d \in deltas : d.frame > latest'}
  BY DEF HandleDelta, world
<1> SUFFICES ASSUME calm > 0 PROVE CalmInv'
  BY <1>1 DEF CalmInv
<1> DEFINE F == frame - 1
<1>2. /\ StreamInv /\ linked /\ control = <<>> /\ frame > 0
      /\ Arrived \/ FullComes \/ DeltaComes
  BY DEF RecoverInv, CalmInv
<1>3. /\ m \in Snapshot /\ LastSent = F /\ F \in Nat /\ m.frame \in Nat
      /\ m.frame <= F /\ latest \in Int /\ calm \in {1, 2}
  BY <1>2, CalmTypes, FrameTypes DEF LastSent, StreamInv, FramesInv
<1>4. SUFFICES Arrived' \/ FullComes' \/ DeltaComes'
  BY <1>1, <1>2 DEF CalmInv
<1>5. CASE Arrived
  BY <1>1, <1>2, <1>3, <1>5, ArrivedStays
<1>6. \/ UNCHANGED <<received, pending, latest>>
      \/ /\ m.frame > latest
         /\ latest' = m.frame /\ pending'.frame = NoFrame
      \/ /\ m.frame > latest
         /\ latest' = latest /\ pending'.frame = m.frame
  BY <1>1, <1>2, <1>3, SnapshotFrames DEF StreamInv, Shape, Taken
<1>7. CASE FullComes
  <2>1. FullOnWay(fulls[1])
    <3>1. /\ fulls \in Seq(Snapshot) /\ Len(fulls) = 1
          /\ \A i \in DOMAIN fulls : FullOnWay(fulls[i])
      BY <1>2, <1>7, CalmTypes DEF FullComes, StreamInv, FramesInv
    <3>2. 1 \in DOMAIN fulls
      <4> HIDE DEF Snapshot
      <4> QED
        BY <3>1
    <3> QED
      BY <3>1, <3>2
  <2>2. m.frame # F
    BY <1>7, <2>1 DEF FullComes, FullOnWay
  <2>3. latest' < F
    BY <1>3, <1>6, <1>7, <2>2 DEF FullComes
  <2> QED
    BY <1>1, <1>7, <2>3 DEF FullComes, Whole
<1>8. CASE DeltaComes
  <2>1. PICK base \in Frame :
          /\ BaseServes(base)
          /\ \E n \in 1 .. 2 : \E q \in [1 .. n -> Newest] : PartsCome(n, q, base)
    BY <1>8 DEF DeltaComes
  <2>2. PICK n \in 1 .. 2 : \E q \in [1 .. n -> Newest] : PartsCome(n, q, base)
    BY <2>1
  <2>3. PICK q \in [1 .. n -> Newest] : PartsCome(n, q, base)
    BY <2>2
  <2>4. latest < F /\ fulls = <<>>
    BY <1>8 DEF DeltaComes
  <2>5. /\ base \in Nat /\ base # NoFrame /\ base < F /\ InRing(base)
        /\ Held(base) /\ Has(received, base)
        /\ calm = 2 => latest = frame - 2 /\ Shown(base)
    BY <2>1, FrameNat DEF BaseServes, Held, NoFrame
  <2>6. Held(base)'
    <3>1. base <= latest' /\ (InRing(base) => Has(received', base))
      <4>1. base \in Frame \cup {NoFrame}
        OBVIOUS
      <4> QED
        BY <1>1, <1>2, <1>3, <2>5, <4>1, HeldSnapshot DEF StreamInv
    <3> QED
      BY <1>1, <3>1 DEF Held, Has, InRing, Slot
  <2>7. CASE m.frame # F
    <3>1. latest' < F /\ NoFrame # F
      BY <1>3, <1>6, <2>4, <2>7 DEF NoFrame
    <3>2. calm = 2 => UNCHANGED <<latest, received>>
      <4>1. calm = 2 => ~ (m.frame > latest)
        BY <1>2, <1>3, <2>5, <2>7, CalmTypes
      <4> QED
        BY <1>6, <4>1
    <3>3. pending'.frame = F => pending' = pending
      BY <1>6, <2>7, <3>1
    <3> QED
      BY <1>1, <1>2, <2>1, <2>3, <2>4, <2>6, <3>1, <3>2, <3>3, StillComes
  <2>8. CASE m.frame = F
    <3>1. PICK k \in 1 .. n : m = q[k]
      BY <2>3, <2>8 DEF PartsCome, Newest
    <3> DEFINE p == WithPart(m)
    <3>2. /\ p.frame = F /\ p.parts = n
          /\ \A i \in p.got : i \in 1 .. n /\ Told(q[i]) \subseteq p.carried
          /\ calm = 2 => \A id \in p.carried \cap peer.relevant :
               remote[id].bound => id \in DOMAIN p.states
      <4>1. p.frame = m.frame
        BY <1>2, <1>3, WithPartFacts DEF StreamInv, Shape, TypeOK
      <4>2. /\ WithPart(q[k]).parts = n
            /\ \A i \in WithPart(q[k]).got :
                 i \in 1 .. n /\ Told(q[i]) \subseteq WithPart(q[k]).carried
            /\ calm = 2 =>
                 \A id \in WithPart(q[k]).carried \cap peer.relevant :
                   remote[id].bound => id \in DOMAIN WithPart(q[k]).states
        BY <1>2, <2>3, <2>5, PartJoins
      <4> QED
        BY <2>8, <3>1, <4>1, <4>2, Zenon
    <3>3. CASE UNCHANGED <<received, pending, latest, lacks>>
      BY <1>1, <1>2, <2>1, <2>3, <2>4, <2>6, <3>3, StillComes
    <3>4. CASE /\ Complete(p)
               /\ latest' = m.frame
               /\ received' = [received EXCEPT ![Slot(m.frame)] =
                    [frame |-> m.frame, states |-> p.states]]
               /\ lacks' = p.carried \ DOMAIN p.states
      <4>1. \A i \in 1 .. n : Told(q[i]) \subseteq p.carried
        BY <3>2, <3>4 DEF Complete
      <4>2. peer.relevant \subseteq p.carried
        BY <2>3, <4>1 DEF PartsCome
      <4>3. calm = 2 => \A id \in peer.relevant :
              remote[id].bound => id \in DOMAIN p.states
        BY <3>2, <4>2
      <4> QED
        BY <1>1, <1>2, <1>3, <2>8, <3>4, <4>2, <4>3, FinishArrives
           DEF StreamInv
    <3>5. CASE /\ ~ Complete(p)
               /\ pending' = p
               /\ received' = [received EXCEPT
                    ![Slot(m.frame)].frame = NoFrame,
                    ![Slot(m.frame)].states = NoStates]
               /\ latest' = latest
      <4>1. Newest' = Newest
        BY <1>1, <2>4, <3>5 DEF Newest
      <4>2. p.got # 1 .. n
        BY <3>2, <3>5 DEF Complete
      <4>3. q \in [1 .. n -> Newest']
        BY <4>1
      <4>4. PartsCome(n, q, base)'
        <5> HIDE DEF p
        <5> QED
          BY <1>1, <2>3, <3>2, <3>5, <4>1, <4>2 DEF PartsCome, Told
      <4>5. Shown(base) => Shown(base)'
        <5>1. /\ Slot(base) # Slot(m.frame)
              /\ Slot(base) \in Slots /\ Slot(m.frame) \in Slots
          <6>1. settings.history \in Nat /\ m.frame - base < settings.history
            BY <1>3, <2>5, <2>8, CalmTypes, SlotFacts, <1>2 DEF InRing
          <6> QED
            BY <1>2, <1>3, <2>5, <2>8, <6>1, CalmTypes, SlotFacts
        <5>2. received'[Slot(base)] = received[Slot(base)]
          BY <1>2, <3>5, <5>1, CalmTypes
        <5> QED
          BY <1>1, <5>2 DEF Shown, Slot
      <4>6. BaseServes(base)'
        BY <1>1, <2>1, <2>5, <2>6, <3>5, <4>5 DEF BaseServes, InRing
      <4> QED
        BY <1>1, <2>4, <3>5, <4>3, <4>4, <4>6 DEF DeltaComes
    <3> QED
      BY <1>1, <1>2, <1>3, <3>3, <3>4, <3>5, SnapshotEffect
         DEF StreamInv, Shape
  <2> QED
    BY <2>7, <2>8
<1> QED
  BY <1>2, <1>5, <1>7, <1>8

-----------------------------------------------------------------------------
(* What the two sides say meanwhile changes nothing of it.                 *)
LEMMA CalmStays ==
  ASSUME CalmInv, StreamInv,
         UNCHANGED <<settings, frame, ticking, live, history, linked, remote,
                     received, pending, latest, needsFull, control, fulls,
                     deltas, calm>>,
         peer'.relevant = peer.relevant,
         ticking => UNCHANGED peer
  PROVE  CalmInv'
<1> SUFFICES ASSUME calm > 0 PROVE CalmInv'
  BY DEF CalmInv
<1>1. linked /\ control = <<>> /\ frame > 0
  BY DEF CalmInv
<1>2. CASE ticking
  <2>1. Ready
    BY <1>2 DEF CalmInv
  <2>2. Ready'
    <3>1. (DOMAIN history[Slot(frame - 1)].states = Live)'
      BY <2>1 DEF Ready, Live, Slot
    <3>2. Shown(latest) => Shown(latest)'
      BY DEF Shown, Slot
    <3> QED
      BY <1>2, <2>1, <3>1, <3>2 DEF Ready
  <2> QED
    BY <1>1, <1>2, <2>2 DEF CalmInv
<1>3. CASE ~ ticking
  <2>1. Arrived => Arrived'
    BY DEF Arrived, Shown, Slot
  <2>2. FullComes => FullComes'
    BY DEF FullComes, Whole
  <2>3. ASSUME DeltaComes PROVE DeltaComes'
    <3>1. Newest' = Newest
      BY DEF Newest
    <3>2. ASSUME NEW base \in Frame, BaseServes(base)
          PROVE  BaseServes(base)'
      BY <3>2 DEF BaseServes, InRing, Held, Has, Shown, Slot
    <3>3. ASSUME NEW n \in 1 .. 2, NEW q \in [1 .. n -> Newest],
                 NEW base \in Frame, PartsCome(n, q, base)
          PROVE  PartsCome(n, q, base)'
      BY <3>1, <3>3 DEF PartsCome, Told
    <3> QED
      BY <2>3, <3>1, <3>2, <3>3 DEF DeltaComes
  <2> QED
    BY <1>1, <1>3, <2>1, <2>2, <2>3 DEF CalmInv
<1> QED
  BY <1>2, <1>3

LEMMA CalmStep ==
  ASSUME RecoverInv, StreamInv', LacksInv', [Next]_vars
  PROVE  CalmInv'
<1>1. StreamInv /\ HeardInv /\ CalmInv
  BY DEF RecoverInv
<1>2. CASE calm' = 0
  BY <1>2 DEF CalmInv
<1>3. CASE Games
  BY <1>1, <1>2, <1>3, GamesEffect DEF StreamInv
<1>4. CASE EndFrame
  BY <1>4, CalmEndFrame
<1>5. CASE ~ ticking /\ BetweenFrames
  <2>1. CASE Connect
    <3>1. ~ linked /\ calm' = calm
      BY <2>1 DEF Connect
    <3>2. calm = 0
      BY <1>1, <3>1, CalmTypes DEF CalmInv
    <3> QED
      BY <1>2, <3>1, <3>2
  <2>2. CASE Disconnect
    BY <1>2, <2>2 DEF Disconnect, Disturbs
  <2>3. ASSUME NEW over \in BOOLEAN, Simulate(over)
        PROVE  CalmInv'
    BY <1>1, <1>5, <2>3, CalmSimulate
  <2>4. ASSUME NEW m \in inputs, HandleInputs(m)
        PROVE  CalmInv'
    <3>1. /\ UNCHANGED <<settings, frame, ticking, live, history, linked,
                         remote, received, pending, latest, needsFull,
                         control, fulls, deltas, calm>>
          /\ peer' = [peer EXCEPT
               !.acked = IF m.ack > peer.acked THEN m.ack ELSE peer.acked,
               !.needsFull = peer.needsFull \/ m.wantsFull]
      BY <2>4 DEF HandleInputs, world, objects, client, records
    <3>2. peer'.relevant = peer.relevant
      BY <1>1, <3>1, CalmTypes DEF Peer
    <3> QED
      BY <1>1, <1>5, <3>1, <3>2, CalmStays
  <2>5. ASSUME NEW o \in Object, ClientRegister(o) \/ ClientUnregister(o)
        PROVE  CalmInv'
    BY <1>2, <2>5 DEF ClientRegister, ClientUnregister, Disturbs
  <2>6. CASE HandleControl
    <3>1. control # <<>> /\ calm' = calm
      BY <2>6 DEF HandleControl
    <3>2. calm = 0
      BY <1>1, <3>1, CalmTypes DEF CalmInv
    <3> QED
      BY <1>2, <3>1, <3>2
  <2>7. CASE HandleFull
    BY <1>5, <2>7, CalmFull
  <2>8. ASSUME NEW m \in deltas, HandleDelta(m)
        PROVE  CalmInv'
    BY <1>5, <2>8, CalmDelta
  <2>9. CASE SendInputs
    BY <1>1, <1>5, <2>9, CalmStays
       DEF SendInputs, world, objects, client, records
  <2> QED
    BY <1>5, <2>1, <2>2, <2>3, <2>4, <2>5, <2>6, <2>7, <2>8, <2>9
       DEF BetweenFrames
<1>6. CASE UNCHANGED vars
  BY <1>1, <1>6, CalmStays DEF vars
<1> QED
  BY <1>3, <1>4, <1>5, <1>6 DEF Next

(* Two frames with nothing in its way put the stream right, whatever was   *)
(* lost before, and whatever state the server, its client and the channels *)
(* were left in: the client has the newest frame, with the state of every  *)
(* object relevant to it that it has bound.  A client that lacks a state   *)
(* asks for a full snapshot with what it acknowledges, and the server that *)
(* heard it sends one next; if it lacks none, what it acknowledged is what *)
(* the next delta is over (server_send_snapshot, client_finish_snapshot).  *)
THEOREM StreamRecovers == Spec => []Recovers
<1>1. Init => RecoverInv
  <2> SUFFICES ASSUME Init PROVE RecoverInv
    OBVIOUS
  <2>1. calm = 0 /\ peer.relevant = {}
    BY DEF Init, NewPeer
  <2>2. StreamInv
    BY InitShape, FramesInit, HistoryInit, HeldInit, FullInit DEF StreamInv
  <2> QED
    BY <2>1, <2>2, LacksInit, HeardInit DEF RecoverInv, CalmInv
<1>2. RecoverInv /\ FaithInv' /\ [Next]_vars => RecoverInv'
  <2> SUFFICES ASSUME RecoverInv, FaithInv', [Next]_vars PROVE RecoverInv'
    OBVIOUS
  <2>1. StreamInv'
    BY StepShape, FramesStep, HistoryStep, HeldStep, FullStep
       DEF RecoverInv, StreamInv
  <2>2. LacksInv'
    BY LacksStep DEF RecoverInv, StreamInv
  <2>3. (peer.relevant \subseteq Live)'
    BY DEF FaithInv, Explains
  <2>4. HeardInv'
    BY HeardStep DEF RecoverInv
  <2>5. CalmInv'
    BY <2>1, <2>2, CalmStep
  <2> QED
    BY <2>1, <2>2, <2>3, <2>4, <2>5 DEF RecoverInv
<1>3. RecoverInv => Recovers
  <2> SUFFICES ASSUME RecoverInv, calm = 2, ~ ticking, Settled
               PROVE  Synced
    BY DEF Recovers
  <2>1. Arrived
    BY SettledArrived DEF RecoverInv
  <2> QED
    BY <2>1 DEF Arrived, Shown, Synced
<1>4. Init => FaithInv
  BY FaithInit
<1>5. StreamInv /\ FaithInv /\ [Next]_vars => FaithInv'
  BY FaithStep
<1> QED
  BY <1>1, <1>2, <1>3, <1>4, <1>5, StreamAlways, PTL DEF Spec

=============================================================================
