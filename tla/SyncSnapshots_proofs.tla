------------------------ MODULE SyncSnapshots_proofs ------------------------
(***************************************************************************)
(* The stream of snapshots, for any number of objects, net ids, variables, *)
(* frames and disturbances, and histories of any size: the types, the base *)
(* of every delta, what the client may lack without asking for it, and the *)
(* states of the snapshots it completes.                                   *)
(***************************************************************************)
EXTENDS SyncSnapshots, WellFoundedInduction, FiniteSetTheorems, TLAPS

-----------------------------------------------------------------------------
(* A set of naturals that is not empty has a smallest member: induction,   *)
(* in the form the proofs below use it.                                    *)
LEMMA SmallestOf ==
  ASSUME NEW S \in SUBSET Nat, S # {}
  PROVE  \E x \in S : \A y \in S : x <= y
<1>1. PICK x \in S : \A y \in S : ~ (<<y, x>> \in OpToRel(<, Nat))
  <2>1. \E x \in S : \A y \in S : ~ (<<y, x>> \in OpToRel(<, Nat))
    BY WFMin, NatLessThanWellFounded
  <2> QED
    BY <2>1
<1>2. \A y \in S : ~ (y < x)
  BY <1>1 DEF OpToRel
<1> QED
  BY <1>2

(* Sequences of members of a set put one after the other are a sequence of *)
(* its members.                                                            *)
LEMMA FlattenType ==
  ASSUME NEW S, NEW q \in Seq(Seq(S))
  PROVE  FlattenSeq(q) \in Seq(S)
<1>1. CASE Len(q) = 0
  BY <1>1 DEF FlattenSeq
<1>2. CASE Len(q) # 0
  <2> DEFINE
        Next1(f, i) == IF i = 1 THEN q[i] ELSE f[i - 1] \o q[i]
        Eq(f, n) == f = [i \in 1 .. n |-> Next1(f, i)]
        flatten == CHOOSE f : Eq(f, Len(q))
        Bad == {n \in 1 .. Len(q) : ~ \E f \in [1 .. n -> Seq(S)] : Eq(f, n)}
  <2>1. Len(q) \in Nat /\ \A i \in 1 .. Len(q) : q[i] \in Seq(S)
    OBVIOUS
  <2>2. Bad = {}
    <3> SUFFICES ASSUME Bad # {} PROVE FALSE
      OBVIOUS
    <3>1. PICK n \in Bad : \A m \in Bad : n <= m
      <4>1. Bad \in SUBSET Nat
        <5>1. 1 .. Len(q) \subseteq Nat
          BY <2>1
        <5>2. ASSUME NEW B, B = {n \in 1 .. Len(q) :
                              ~ \E f \in [1 .. n -> Seq(S)] : Eq(f, n)}
              PROVE  B \subseteq 1 .. Len(q)
          <6> HIDE DEF Eq
          <6> QED
            BY <5>2, Zenon
        <5> QED
          BY <5>1, <5>2
      <4> HIDE DEF Bad
      <4> QED
        BY <4>1, SmallestOf
    <3>2. n \in 1 .. Len(q) /\ ~ \E f \in [1 .. n -> Seq(S)] : Eq(f, n)
      OBVIOUS
    <3>3. CASE n = 1
      <4> DEFINE f == [i \in 1 .. 1 |-> q[i]]
      <4>1. f \in [1 .. 1 -> Seq(S)]
        BY <2>1, <3>2, <3>3
      <4>2. Eq(f, 1)
        OBVIOUS
      <4> HIDE DEF f, Eq
      <4> QED
        BY <3>2, <3>3, <4>1, <4>2
    <3>4. CASE n # 1
      <4>1. n - 1 \in 1 .. Len(q) /\ n \in Nat /\ ~ (n <= n - 1)
        BY <2>1, <3>2, <3>4
      <4>2. n - 1 \notin Bad
        <5> HIDE DEF Bad
        <5> QED
          BY <3>1, <4>1
      <4>3. \E g \in [1 .. n - 1 -> Seq(S)] : Eq(g, n - 1)
        <5> HIDE DEF Eq
        <5> QED
          BY <4>1, <4>2
      <4>4. PICK g \in [1 .. n - 1 -> Seq(S)] : Eq(g, n - 1)
        <5> HIDE DEF Eq
        <5> QED
          BY <4>3
      <4> DEFINE f == [i \in 1 .. n |-> IF i = n THEN g[n - 1] \o q[n]
                                                 ELSE g[i]]
      <4>5. q[n] \in Seq(S) /\ n - 1 \in 1 .. n - 1
        BY <2>1, <3>2, <4>1
      <4>6. g[n - 1] \in Seq(S) /\ g[n - 1] \o q[n] \in Seq(S)
        <5>1. g[n - 1] \in Seq(S)
          BY <4>4, <4>5
        <5> QED
          BY <5>1, <4>5
      <4>7. ASSUME NEW i \in 1 .. n, i # n
            PROVE  i \in 1 .. n - 1 /\ i \in Nat
        BY <4>1, <4>7
      <4>8. f \in [1 .. n -> Seq(S)]
        <5>1. \A i \in 1 .. n : f[i] \in Seq(S)
          BY <4>4, <4>6, <4>7
        <5> QED
          BY <5>1
      <4>9. ASSUME NEW i \in 1 .. n
            PROVE  f[i] = Next1(f, i)
        <5>1. CASE i = n
          <6>1. n - 1 \in 1 .. n /\ n - 1 # n /\ n \in 1 .. n
            BY <4>1
          <6>2. f[n - 1] = g[n - 1] /\ f[n] = g[n - 1] \o q[n]
            BY <6>1
          <6> HIDE DEF f
          <6> QED
            BY <5>1, <6>2, <3>4
        <5>2. CASE i # n
          <6>1. i \in 1 .. n - 1 /\ f[i] = g[i]
            BY <5>2, <4>7
          <6>2. g[i] = Next1(g, i)
            BY <4>4, <6>1
          <6>3. i # 1 => i - 1 \in 1 .. n /\ i - 1 # n
            BY <6>1, <4>1
          <6>4. i # 1 => f[i - 1] = g[i - 1]
            BY <6>3
          <6> HIDE DEF f
          <6> QED
            BY <6>1, <6>2, <6>4
        <5> QED
          BY <5>1, <5>2
      <4>10. Eq(f, n)
        <5> HIDE DEF Next1
        <5> QED
          BY <4>9
      <4> HIDE DEF f, Eq
      <4> QED
        BY <3>2, <4>8, <4>10
    <3> QED
      BY <3>3, <3>4
  <2>3. \E f \in [1 .. Len(q) -> Seq(S)] : Eq(f, Len(q))
    <3>1. Len(q) \in 1 .. Len(q)
      BY <1>2, <2>1
    <3> HIDE DEF Eq
    <3> QED
      BY <2>2, <3>1
  <2>4. Eq(flatten, Len(q))
    <3> HIDE DEF Eq
    <3> QED
      BY <2>3
  <2>5. FlattenSeq(q) = flatten[Len(q)]
    BY <1>2 DEF FlattenSeq
  <2> DEFINE Off == {n \in 1 .. Len(q) : flatten[n] \notin Seq(S)}
  <2> HIDE DEF flatten
  <2>6. Off = {}
    <3> SUFFICES ASSUME Off # {} PROVE FALSE
      OBVIOUS
    <3>1. PICK n \in Off : \A m \in Off : n <= m
      <4>1. Off \in SUBSET Nat
        OBVIOUS
      <4> HIDE DEF Off
      <4> QED
        BY <4>1, SmallestOf
    <3>2. n \in 1 .. Len(q) /\ n \in Nat /\ flatten[n] \notin Seq(S)
      BY <2>1
    <3>3. flatten[n] = Next1(flatten, n)
      BY <2>4, <3>2
    <3>4. CASE n = 1
      BY <2>1, <3>2, <3>3, <3>4
    <3>5. CASE n # 1
      <4>1. n - 1 \in 1 .. Len(q) /\ ~ (n <= n - 1)
        BY <2>1, <3>2, <3>5
      <4>2. n - 1 \notin Off
        <5> HIDE DEF Off
        <5> QED
          BY <3>1, <4>1
      <4>3. flatten[n - 1] \in Seq(S)
        BY <4>1, <4>2
      <4>4. flatten[n - 1] \o q[n] \in Seq(S)
        BY <4>3, <2>1, <3>2
      <4> QED
        BY <3>2, <3>3, <3>5, <4>4
    <3> QED
      BY <3>4, <3>5
  <2> QED
    BY <1>2, <2>1, <2>5, <2>6
<1> QED
  BY <1>1, <1>2

-----------------------------------------------------------------------------
(* The states of a record, or of a snapshot whose parts arrive.            *)
LEMMA StatesIntro ==
  ASSUME NEW S, NEW D \in SUBSET NetId, NEW f \in [D -> S]
  PROVE  f \in States(S)
BY DEF States

LEMMA StatesElim ==
  ASSUME NEW S, NEW st \in States(S)
  PROVE  /\ DOMAIN st \subseteq NetId
         /\ st = [id \in DOMAIN st |-> st[id]]
         /\ \A id \in DOMAIN st : st[id] \in S
BY DEF States

LEMMA NothingTyped ==
  /\ NoStates \in States(State) /\ DOMAIN NoStates = {}
  /\ NoRecord \in Record
  /\ NoPending \in Pending
  /\ NewPeer \in Peer
  /\ NoRemote \in Remote
<1>1. DOMAIN NoStates = {}
  BY DEF NoStates
<1>2. NoStates \in [{} -> State]
  BY DEF NoStates
<1>3. NoStates \in States(State)
  BY <1>2, StatesIntro
<1> HIDE DEF NoStates
<1> QED
  BY <1>1, <1>3
     DEF NoRecord, Record, NoPending, Pending, NewPeer, Peer, NoRemote,
         Remote, NoObject, NoFrame, NetId

LEMMA SlotType ==
  ASSUME settings \in Settings, NEW f \in Nat
  PROVE  Slot(f) \in Slots
<1>1. settings.history \in Nat /\ settings.history > 1
  BY SnapshotsAssumption
<1> DEFINE H == settings.history
<1>2. f % H \in 0 .. H - 1
  <2> HIDE DEF H
  <2> QED
    BY <1>1 DEF H
<1> QED
  BY <1>2 DEF Slot, Slots

LEMMA ShortSequences ==
  ASSUME NEW A, NEW x \in A, NEW y \in A
  PROVE  /\ <<x>> \in Seq(A) /\ Len(<<x>>) \in 1 .. 2
         /\ <<x, y>> \in Seq(A) /\ Len(<<x, y>>) \in 1 .. 2
OBVIOUS

LEMMA FrameOrNone ==
  ASSUME NEW f \in Frame \cup {NoFrame}
  PROVE  f \in Int /\ f >= NoFrame
BY SnapshotsAssumption DEF Frame, NoFrame

LEMMA NetIdNat == NetId \subseteq Nat
BY SnapshotsAssumption DEF NetId

LEMMA FrameNat == Frame \subseteq Nat /\ -1 \notin Frame
BY SnapshotsAssumption DEF Frame

-----------------------------------------------------------------------------
(* What the server sends is a snapshot.                                    *)
LEMMA EntryType ==
  ASSUME settings \in Settings, history \in [Slots -> Record],
         NEW id \in NetId, NEW f \in Nat, NEW base
  PROVE  EntryOf(id, f, base) \in Entry /\ EntryOf(id, f, base).id = id
<1> DEFINE
      states == history[Slot(f)].states
      old == history[Slot(base)].states
      changed == {v \in Var : ~ InBase(id, base) \/ states[id][v] # old[id][v]}
      e == IF id \in DOMAIN states /\ (changed # {} \/ ~ InBase(id, base))
           THEN [id |-> id, changed |-> TRUE,
                 vars |-> [v \in changed |-> states[id][v]]]
           ELSE [id |-> id, changed |-> FALSE, vars |-> [v \in {} |-> 0]]
<1>1. EntryOf(id, f, base) = e
  BY DEF EntryOf
<1>2. states \in States(State)
  BY SlotType DEF Record
<1>3. changed \subseteq Var
  OBVIOUS
<1> HIDE DEF states, changed
<1>4. CASE id \in DOMAIN states /\ (changed # {} \/ ~ InBase(id, base))
  <2>1. states[id] \in [Var -> Value]
    BY <1>2, <1>4, StatesElim DEF State
  <2>2. [v \in changed |-> states[id][v]] \in [changed -> Value]
    BY <2>1, <1>3
  <2>3. [v \in changed |-> states[id][v]]
          \in UNION {[vs -> Value] : vs \in SUBSET Var}
    BY <2>2, <1>3
  <2>4. e = [id |-> id, changed |-> TRUE,
             vars |-> [v \in changed |-> states[id][v]]]
    BY <1>4
  <2> HIDE DEF NetId, e
  <2> QED
    BY <1>1, <2>3, <2>4 DEF Entry
<1>5. CASE ~ (id \in DOMAIN states /\ (changed # {} \/ ~ InBase(id, base)))
  <2>1. [v \in {} |-> 0] \in [{} -> Value]
    OBVIOUS
  <2>2. [v \in {} |-> 0] \in UNION {[vs -> Value] : vs \in SUBSET Var}
    BY <2>1
  <2>3. e = [id |-> id, changed |-> FALSE, vars |-> [v \in {} |-> 0]]
    BY <1>5
  <2> HIDE DEF NetId, e
  <2> QED
    BY <1>1, <2>2, <2>3 DEF Entry
<1> QED
  BY <1>4, <1>5

Offer == [full : BOOLEAN, base : Frame \cup {NoFrame}]

LEMMA ChoiceType ==
  ASSUME peer \in Peer
  PROVE  /\ Choice \in Offer
         /\ Choice.full => Choice.base = NoFrame
         /\ Nothing.full = FALSE
         /\ Nothing.base = NoFrame
BY DEF Choice, Offer, Full, Over, Nothing, Peer

(* The parts of a snapshot: one of a full one, one or two of a delta.      *)
LEMMA PartsFacts ==
  ASSUME settings \in Settings, history \in [Slots -> Record], peer \in Peer,
         NEW choice \in Offer, NEW f \in Frame, NEW cut \in NetId
  PROVE  LET parts == PartsOf(choice, f, cut) IN
         /\ parts \in Seq(Snapshot)
         /\ choice.full => Len(parts) = 1
         /\ \A i \in DOMAIN parts :
              /\ parts[i].full = choice.full
              /\ parts[i].frame = f
              /\ parts[i].base = choice.base
              /\ choice.full => parts[i].part = 1 /\ parts[i].parts = 1
<1> DEFINE
      ids == IF choice.full THEN <<peer.relevant>> ELSE Split(peer.relevant, cut)
      entries(i) == {EntryOf(id, f, choice.base) : id \in ids[i]}
      part(i) == [full |-> choice.full, frame |-> f, base |-> choice.base,
                  part |-> i, parts |-> Len(ids), entries |-> entries(i)]
      parts == PartsOf(choice, f, cut)
<1>1. parts = [i \in DOMAIN ids |-> part(i)]
  BY DEF PartsOf
<1>2. peer.relevant \subseteq NetId
  BY DEF Peer
<1>3. /\ ids \in Seq(SUBSET NetId) /\ Len(ids) \in 1 .. 2
      /\ choice.full => Len(ids) = 1
  <2>1. CASE choice.full
    BY <2>1, <1>2
  <2>2. CASE ~ choice.full
    <3> DEFINE first == {id \in peer.relevant : id <= cut}
    <3>1. first \subseteq peer.relevant /\ peer.relevant \ first \subseteq NetId
      BY <1>2
    <3>2. \/ ids = <<peer.relevant>>
          \/ ids = <<first, peer.relevant \ first>>
      BY <2>2 DEF Split
    <3> HIDE DEF ids, first
    <3>3. /\ peer.relevant \in SUBSET NetId
          /\ first \in SUBSET NetId
          /\ peer.relevant \ first \in SUBSET NetId
      BY <3>1, <1>2
    <3>4. CASE ids = <<peer.relevant>>
      BY ShortSequences, <3>3, <3>4, <2>2, Zenon
    <3>5. CASE ids = <<first, peer.relevant \ first>>
      BY ShortSequences, <3>3, <3>5, <2>2, Zenon
    <3> QED
      BY <3>2, <3>4, <3>5
  <2> QED
    BY <2>1, <2>2
<1> HIDE DEF ids
<1>4. DOMAIN ids = 1 .. Len(ids)
  BY <1>3
<1>5. ASSUME NEW i \in DOMAIN ids
      PROVE  part(i) \in Snapshot
  <2>1. ids[i] \subseteq NetId /\ f \in Nat /\ i \in 1 .. 2
    BY <1>3, <1>4, FrameNat
  <2>2. entries(i) \subseteq Entry
    BY <2>1, EntryType
  <2>3. /\ choice.full \in BOOLEAN
        /\ choice.base \in Frame \cup {NoFrame}
    BY DEF Offer
  <2> HIDE DEF entries
  <2>4. Len(ids) \in 1 .. 2
    BY <1>3
  <2> QED
    BY <2>1, <2>2, <2>3, <2>4 DEF Snapshot
<1> HIDE DEF entries
<1>6. \A i \in DOMAIN ids :
        /\ part(i).full = choice.full
        /\ part(i).frame = f
        /\ part(i).base = choice.base
        /\ part(i).part = i
        /\ part(i).parts = Len(ids)
  OBVIOUS
<1> HIDE DEF part
<1>7. parts \in [1 .. Len(ids) -> Snapshot]
  BY <1>1, <1>4, <1>5
<1>8. parts \in Seq(Snapshot) /\ Len(parts) = Len(ids)
      /\ DOMAIN parts = DOMAIN ids
  BY <1>3, <1>4, <1>7
<1>9. \A i \in DOMAIN parts : parts[i] = part(i)
  BY <1>1, <1>8
<1>10. choice.full => \A i \in DOMAIN parts : i = 1
  BY <1>3, <1>4, <1>8
<1> HIDE DEF parts
<1> QED
  BY <1>3, <1>6, <1>8, <1>9, <1>10 DEF parts

-----------------------------------------------------------------------------
(* What the client reads of a part: states, and the ids of the entries it  *)
(* could write.                                                            *)
LEMMA ReadFacts ==
  ASSUME NEW entries \in SUBSET Entry, NEW base \in States(State)
  PROVE  /\ Read(entries, base) \in States(State)
         /\ DOMAIN Read(entries, base)
              = {e.id : e \in {d \in entries : IsWritten(d, base)}}
<1> DEFINE
      written == {d \in entries : IsWritten(d, base)}
      chosen(id) == CHOOSE e \in written : e.id = id
      states == [id \in {e.id : e \in written} |-> Decoded(chosen(id), base)]
<1>1. Read(entries, base) = states
  BY DEF Read
<1>2. ASSUME NEW e \in written
      PROVE  e.id \in NetId /\ Decoded(e, base) \in State
  <2>1. e \in Entry /\ IsWritten(e, base)
    BY <1>2
  <2>2. e.id \in NetId
    BY <2>1 DEF Entry
  <2>3. ASSUME NEW v \in DOMAIN e.vars PROVE e.vars[v] \in Value
    BY <2>1, <2>3 DEF Entry
  <2>4. ASSUME NEW v \in Var, v \notin DOMAIN e.vars
        PROVE  base[e.id][v] \in Value
    <3>1. e.id \in DOMAIN base
      BY <2>1, <2>4 DEF IsWritten
    <3>2. base[e.id] \in State
      BY <3>1, StatesElim
    <3> QED
      BY <3>2 DEF State
  <2>5. Decoded(e, base) \in State
    BY <2>3, <2>4 DEF Decoded, State
  <2> QED
    BY <2>2, <2>5
<1>3. ASSUME NEW id \in {e.id : e \in written}
      PROVE  chosen(id) \in written /\ chosen(id).id = id
  <2> HIDE DEF written
  <2> QED
    BY <1>3
<1>4. {e.id : e \in written} \in SUBSET NetId
  <2> HIDE DEF written
  <2> QED
    BY <1>2
<1>5. states \in [{e.id : e \in written} -> State]
  <2> HIDE DEF written, chosen
  <2> QED
    BY <1>2, <1>3
<1> HIDE DEF written, states
<1>6. states \in States(State)
  BY <1>4, <1>5, StatesIntro
<1>7. DOMAIN states = {e.id : e \in written}
  BY <1>5
<1> QED
  BY <1>1, <1>6, <1>7 DEF written

LEMMA PlacedFacts ==
  ASSUME NEW states \in States(State), NEW old \in States(State)
  PROVE  /\ Placed(states, old) \in States(State)
         /\ DOMAIN Placed(states, old) = DOMAIN states \cup DOMAIN old
         /\ \A id \in DOMAIN states : Placed(states, old)[id] = states[id]
         /\ \A id \in DOMAIN old \ DOMAIN states :
              Placed(states, old)[id] = old[id]
<1>1. /\ DOMAIN states \subseteq NetId /\ DOMAIN old \subseteq NetId
      /\ \A id \in DOMAIN states : states[id] \in State
      /\ \A id \in DOMAIN old : old[id] \in State
  BY StatesElim
<1> DEFINE D == DOMAIN states \cup DOMAIN old
           f == [id \in D |-> IF id \in DOMAIN states THEN states[id] ELSE old[id]]
<1>2. Placed(states, old) = f
  BY DEF Placed
<1>3. D \in SUBSET NetId /\ f \in [D -> State]
  BY <1>1
<1> HIDE DEF D
<1>4. f \in States(State)
  BY <1>3, StatesIntro
<1> QED
  BY <1>2, <1>3, <1>4 DEF D

(* The states a part is read over.                                         *)
BaseOf(m) == IF m.base = NoFrame THEN NoStates ELSE received[Slot(m.base)].states

LEMMA BaseType ==
  ASSUME settings \in Settings, received \in [Slots -> Record],
         NEW m \in Snapshot
  PROVE  BaseOf(m) \in States(State)
<1>1. CASE m.base = NoFrame
  BY <1>1, NothingTyped DEF BaseOf
<1>2. CASE m.base # NoFrame
  <2>1. m.base \in Nat
    BY <1>2, FrameNat DEF Snapshot
  <2>2. received[Slot(m.base)] \in Record
    BY <2>1, SlotType
  <2> QED
    BY <1>2, <2>2 DEF BaseOf, Record
<1> QED
  BY <1>1, <1>2

LEMMA StartedFacts ==
  ASSUME pending \in Pending, NEW m \in Snapshot
  PROVE  /\ Started(m) \in Pending
         /\ Started(m).frame = m.frame
         /\ pending.frame = m.frame => Started(m) = pending
         /\ pending.frame # m.frame =>
              /\ Started(m).parts = m.parts
              /\ Started(m).got = {}
              /\ Started(m).missing = FALSE
              /\ Started(m).states = NoStates
              /\ Started(m).carried = {}
<1>1. CASE pending.frame = m.frame
  BY <1>1 DEF Started
<1>2. CASE pending.frame # m.frame
  <2> DEFINE p == [NoPending EXCEPT !.frame = m.frame, !.parts = m.parts]
  <2>1. Started(m) = p
    BY <1>2 DEF Started
  <2>2. m.frame \in Frame /\ m.parts \in 1 .. 2
    BY DEF Snapshot
  <2>3. NoStates \in States(State)
    BY NothingTyped
  <2> HIDE DEF NoStates, Frame
  <2>4. p \in Pending
    <3>1. NoPending \in Pending
      BY NothingTyped
    <3>2. m.frame \in Frame \cup {NoFrame} /\ m.parts \in 0 .. 2
      BY <2>2
    <3> HIDE DEF NoPending, NetId
    <3> QED
      BY <3>1, <3>2 DEF Pending
  <2>5. /\ p.frame = m.frame /\ p.parts = m.parts /\ p.got = {}
        /\ p.missing = FALSE /\ p.states = NoStates /\ p.carried = {}
    BY DEF NoPending
  <2> HIDE DEF p
  <2> QED
    BY <1>2, <2>1, <2>4, <2>5
<1> QED
  BY <1>1, <1>2

(* A part taken into its snapshot: what the snapshot lacks was missing in  *)
(* this part, or lacked before.                                            *)
LEMMA WithPartFacts ==
  ASSUME settings \in Settings, received \in [Slots -> Record],
         pending \in Pending, NEW m \in Snapshot
  PROVE  LET p == WithPart(m)
             s == Started(m)
             read == Read(m.entries, BaseOf(m)) IN
         /\ p \in Pending
         /\ p.frame = m.frame
         /\ p.parts = s.parts
         /\ p.got = s.got \cup {m.part}
         /\ p.missing = (s.missing \/ \E e \in m.entries :
                                        IsMissing(e, BaseOf(m)))
         /\ p.states = Placed(read, s.states)
         /\ p.carried = s.carried \cup {e.id : e \in m.entries}
         /\ read \in States(State)
         /\ DOMAIN p.states = DOMAIN read \cup DOMAIN s.states
<1> DEFINE
      s == Started(m)
      read == Read(m.entries, BaseOf(m))
      got == s.got \cup {m.part}
      missing == s.missing \/ \E e \in m.entries : IsMissing(e, BaseOf(m))
      states == Placed(read, s.states)
      carried == s.carried \cup {e.id : e \in m.entries}
      p == WithPart(m)
      q == [s EXCEPT !.got = got, !.missing = missing, !.states = states,
                     !.carried = carried]
<1>1. p = q
  BY DEF WithPart, BaseOf
<1>2. s \in Pending /\ s.frame = m.frame
  BY StartedFacts
<1>3. m.part \in 1 .. 2 /\ m.entries \in SUBSET Entry
  BY DEF Snapshot
<1>4. BaseOf(m) \in States(State)
  BY BaseType
<1>5. read \in States(State)
  BY <1>3, <1>4, ReadFacts
<1>6. s.states \in States(State)
  BY <1>2 DEF Pending
<1>7. /\ states \in States(State)
      /\ DOMAIN states = DOMAIN read \cup DOMAIN s.states
  <2> HIDE DEF read, s
  <2> QED
    BY <1>5, <1>6, PlacedFacts
<1>8. got \in SUBSET {1, 2}
  <2>1. s.got \in SUBSET {1, 2}
    BY <1>2 DEF Pending
  <2> HIDE DEF s
  <2> QED
    BY <2>1, <1>3
<1>9. missing \in BOOLEAN
  OBVIOUS
<1>10. carried \in SUBSET NetId
  <2>1. s.carried \in SUBSET NetId
    BY <1>2 DEF Pending
  <2>2. \A e \in m.entries : e.id \in NetId
    BY <1>3 DEF Entry
  <2> HIDE DEF s
  <2> QED
    BY <2>1, <2>2
<1> HIDE DEF s, got, missing, states, carried
<1>11. q \in Pending
  BY <1>2, <1>7, <1>8, <1>9, <1>10 DEF Pending
<1>12. /\ q.frame = m.frame
       /\ q.parts = s.parts
       /\ q.got = got
       /\ q.missing = missing
       /\ q.states = states
       /\ q.carried = carried
  BY <1>2 DEF Pending
<1> HIDE DEF p, q, read
<1> QED
  BY <1>1, <1>5, <1>7, <1>11, <1>12
     DEF p, s, got, missing, states, carried, read

-----------------------------------------------------------------------------
(* Every variable keeps its type.  The last frame simulated is a frame.    *)
Shape ==
  /\ TypeOK
  /\ ticking => frame > 0

LEMMA InitShape == Init => Shape
<1> SUFFICES ASSUME Init PROVE Shape
  OBVIOUS
<1> USE DEF Init
<1>1. /\ settings \in Settings
      /\ play \in Plays
      /\ ticking = FALSE
      /\ live \in [NetId -> Object \cup {NoObject}]
      /\ linked \in BOOLEAN
      /\ local \subseteq Object
      /\ latest \in Frame \cup {NoFrame}
      /\ needsFull \in BOOLEAN
      /\ lacks \subseteq NetId
  OBVIOUS
<1>7. frame \in 0 .. (MaxFrame + 1) /\ calm \in 0 .. 2
  BY SnapshotsAssumption
<1>8. released \in [NetId -> Nat \cup {NoFrame}]
  OBVIOUS
<1>2. history \in [Slots -> Record] /\ received \in [Slots -> Record]
  BY NothingTyped
<1>3. remote \in [NetId -> Remote] /\ pending \in Pending /\ peer \in Peer
  BY NothingTyped
<1>4. /\ control \in Seq(Control) /\ fulls \in Seq(Snapshot)
      /\ deltas \subseteq Snapshot /\ inputs \subseteq Inputs
  OBVIOUS
<1>5. heard \in Inputs
  BY DEF Said, Inputs
<1>6. budget \in [{"objects", "local", "interest", "links"} -> Nat]
  BY SnapshotsAssumption
<1> QED
  BY <1>1, <1>2, <1>3, <1>4, <1>5, <1>6, <1>7, <1>8 DEF Shape, TypeOK

(* What is on the control channel.                                         *)
LEMMA ControlTypes ==
  ASSUME NEW id \in NetId, NEW o \in Object, NEW f \in Nat, NEW r \in BOOLEAN
  PROVE  /\ RegisterMsg(id, o, f) \in Control
         /\ UnregisterMsg(id, f) \in Control
         /\ RelevanceMsg(id, r, f) \in Control
BY DEF RegisterMsg, UnregisterMsg, RelevanceMsg, Control

LEMMA AnnounceType ==
  ASSUME frame \in Nat, NEW id \in NetId, NEW o \in Object, NEW r
  PROVE  Announce(id, o, r) \in Seq(Control)
<1>1. /\ RegisterMsg(id, o, frame) \in Control
      /\ RelevanceMsg(id, FALSE, frame) \in Control
  BY ControlTypes
<1>2. /\ <<RegisterMsg(id, o, frame)>> \in Seq(Control)
      /\ <<RegisterMsg(id, o, frame), RelevanceMsg(id, FALSE, frame)>>
           \in Seq(Control)
  <2> HIDE DEF Control, RegisterMsg, RelevanceMsg
  <2> QED
    BY <1>1, ShortSequences
<1> QED
  BY <1>2, Zenon DEF Announce

LEMMA TellType ==
  ASSUME control \in Seq(Control), NEW msgs \in Seq(Control), Tell(msgs)
  PROVE  control' \in Seq(Control)
<1> HIDE DEF Control
<1> QED
  BY DEF Tell

LEMMA DisturbsType ==
  ASSUME budget \in [{"objects", "local", "interest", "links"} -> Nat],
         NEW kind \in {"objects", "local", "interest", "links"},
         Disturbs(kind)
  PROVE  /\ budget' \in [{"objects", "local", "interest", "links"} -> Nat]
         /\ calm' \in 0 .. 2
         /\ UNCHANGED <<settings, play>>
BY DEF Disturbs

LEMMA RelevantType ==
  ASSUME NEW p \in Peer, NEW S \in SUBSET NetId
  PROVE  [p EXCEPT !.relevant = S] \in Peer
BY DEF Peer

LEMMA SinceType ==
  ASSUME NEW p \in Peer, NEW S \in SUBSET NetId,
         NEW g \in [NetId -> Nat \cup {NoFrame}]
  PROVE  [p EXCEPT !.relevant = S, !.since = g] \in Peer
BY DEF Peer

LEMMA ForgetType ==
  ASSUME NEW p \in Peer, NEW id \in NetId
  PROVE  Forget(p, id) \in Peer
<1>1. /\ p.relevant \ {id} \in SUBSET NetId
      /\ [p.since EXCEPT ![id] = NoFrame] \in [NetId -> Nat \cup {NoFrame}]
  BY DEF Peer
<1> QED
  BY <1>1, SinceType DEF Forget

LEMMA RegisterShape ==
  ASSUME Shape, NEW o \in Object, ServerRegister(o)
  PROVE  Shape'
<1> USE DEF Shape
<1>1. PICK id \in NetId, wanted \in BOOLEAN :
        LET relevant == wanted \/ o \in Controlled IN
        /\ live' = [live EXCEPT ![id] = o]
        /\ released' = [released EXCEPT ![id] = NoFrame]
        /\ Tell(Announce(id, o, relevant))
        /\ peer' = IF linked /\ relevant
                   THEN [peer EXCEPT !.relevant = @ \cup {id}] ELSE peer
  BY DEF ServerRegister
<1>2. /\ live' \in [NetId -> Object \cup {NoObject}]
      /\ released' \in [NetId -> Nat \cup {NoFrame}]
  BY <1>1 DEF TypeOK
<1>3. control' \in Seq(Control)
  BY <1>1, AnnounceType, TellType DEF TypeOK
<1>4. peer' \in Peer
  <2>1. peer.relevant \cup {id} \in SUBSET NetId
    BY DEF TypeOK, Peer
  <2> QED
    BY <1>1, <2>1, RelevantType DEF TypeOK
<1>5. /\ Disturbs("objects")
      /\ UNCHANGED <<frame, ticking, history, linked, local, remote, client,
                     fulls, deltas, inputs, heard>>
  BY DEF ServerRegister
<1>6. /\ budget' \in [{"objects", "local", "interest", "links"} -> Nat]
      /\ calm' \in 0 .. 2
      /\ UNCHANGED <<settings, play>>
  BY <1>5, DisturbsType DEF TypeOK
<1> QED
  BY <1>2, <1>3, <1>4, <1>5, <1>6 DEF TypeOK, client, records, Slots

LEMMA WithoutType ==
  ASSUME NEW st \in States(State), NEW id
  PROVE  Without(st, id) \in States(State)
<1>1. DOMAIN st \subseteq NetId /\ \A i \in DOMAIN st : st[i] \in State
  BY StatesElim
<1>2. DOMAIN st \ {id} \in SUBSET NetId
  BY <1>1
<1>3. Without(st, id) \in [DOMAIN st \ {id} -> State]
  BY <1>1 DEF Without
<1> QED
  BY <1>2, <1>3, StatesIntro

LEMMA UnregisterShape ==
  ASSUME Shape, NEW id \in NetId, ServerUnregister(id)
  PROVE  Shape'
<1> USE DEF Shape
<1>1. /\ live' = [live EXCEPT ![id] = NoObject]
      /\ released' = [released EXCEPT ![id] = frame]
      /\ history' = [s \in DOMAIN history |->
           [history[s] EXCEPT !.states = Without(@, id)]]
      /\ peer' = Forget(peer, id)
      /\ Tell(<<UnregisterMsg(id, frame)>>)
      /\ Disturbs("objects")
      /\ UNCHANGED <<frame, ticking, linked, local, remote, client, fulls,
                     deltas, inputs, heard>>
  BY DEF ServerUnregister
<1>2. frame \in Nat
  BY SnapshotsAssumption DEF TypeOK
<1>3. /\ live' \in [NetId -> Object \cup {NoObject}]
      /\ released' \in [NetId -> Nat \cup {NoFrame}]
  BY <1>1, <1>2 DEF TypeOK
<1>4. history' \in [Slots -> Record]
  <2>1. ASSUME NEW s \in Slots
        PROVE  [history[s] EXCEPT !.states = Without(@, id)] \in Record
    <3>1. history[s] \in Record /\ history[s].states \in States(State)
      BY DEF TypeOK, Record
    <3>2. Without(history[s].states, id) \in States(State)
      BY <3>1, WithoutType
    <3> QED
      BY <3>1, <3>2 DEF Record
  <2>2. DOMAIN history = Slots
    BY DEF TypeOK
  <2> QED
    BY <1>1, <2>1, <2>2
<1>5. peer' \in Peer
  BY <1>1, ForgetType DEF TypeOK
<1>6. control' \in Seq(Control)
  <2>1. <<UnregisterMsg(id, frame)>> \in Seq(Control)
    <3>1. UnregisterMsg(id, frame) \in Control
      BY <1>2 DEF UnregisterMsg, Control
    <3> HIDE DEF Control, UnregisterMsg
    <3> QED
      BY <3>1, ShortSequences
  <2> QED
    BY <1>1, <2>1, TellType DEF TypeOK
<1>7. /\ budget' \in [{"objects", "local", "interest", "links"} -> Nat]
      /\ calm' \in 0 .. 2
      /\ UNCHANGED <<settings, play>>
  BY <1>1, DisturbsType DEF TypeOK
<1>8. Slots' = Slots
  BY <1>7 DEF Slots
<1>9. /\ settings' \in Settings /\ play' \in Plays /\ frame' = frame
      /\ ticking' = ticking /\ linked' \in BOOLEAN /\ local' \subseteq Object
      /\ remote' \in [NetId -> Remote] /\ received' \in [Slots -> Record]
      /\ pending' \in Pending /\ latest' \in Frame \cup {NoFrame}
      /\ needsFull' \in BOOLEAN /\ lacks' \subseteq NetId
      /\ fulls' \in Seq(Snapshot) /\ deltas' \subseteq Snapshot
      /\ inputs' \subseteq Inputs /\ heard' \in Inputs
  BY <1>1, <1>7 DEF TypeOK, client, records
<1>10. frame \in 0 .. (MaxFrame + 1)
  BY DEF TypeOK
<1> QED
  BY <1>3, <1>4, <1>5, <1>6, <1>7, <1>8, <1>9, <1>10 DEF TypeOK

LEMMA SetRelevantShape ==
  ASSUME Shape, NEW id \in NetId, NEW wanted \in BOOLEAN,
         SetRelevant(id, wanted)
  PROVE  Shape'
<1> USE DEF Shape
<1> DEFINE relevant == wanted \/ live[id] \in Controlled
<1>1. /\ peer' = IF relevant
                 THEN [peer EXCEPT !.relevant = @ \cup {id}, !.since[id] = frame]
                 ELSE Forget(peer, id)
      /\ Tell(<<RelevanceMsg(id, relevant, frame)>>)
      /\ Disturbs("interest")
      /\ UNCHANGED <<frame, ticking, objects, history, linked, local, remote,
                     client, fulls, deltas, inputs, heard>>
  BY DEF SetRelevant
<1>2. frame \in Nat /\ relevant \in BOOLEAN
  BY SnapshotsAssumption DEF TypeOK
<1>3. peer' \in Peer
  <2>1. CASE relevant
    <3> DEFINE S == peer.relevant \cup {id}
               g == [peer.since EXCEPT ![id] = frame]
    <3>1. S \in SUBSET NetId /\ g \in [NetId -> Nat \cup {NoFrame}]
      BY <1>2 DEF TypeOK, Peer
    <3>2. peer' = [peer EXCEPT !.relevant = S, !.since = g]
      BY <1>1, <2>1
    <3> HIDE DEF S, g
    <3> QED
      BY <3>1, <3>2, SinceType DEF TypeOK
  <2>2. CASE ~ relevant
    BY <1>1, <2>2, ForgetType DEF TypeOK
  <2> QED
    BY <2>1, <2>2
<1> HIDE DEF relevant
<1>4. control' \in Seq(Control)
  <2>1. <<RelevanceMsg(id, relevant, frame)>> \in Seq(Control)
    <3>1. RelevanceMsg(id, relevant, frame) \in Control
      BY <1>2 DEF RelevanceMsg, Control
    <3> HIDE DEF Control, RelevanceMsg
    <3> QED
      BY <3>1, ShortSequences
  <2> QED
    BY <1>1, <2>1, TellType DEF TypeOK
<1>5. /\ budget' \in [{"objects", "local", "interest", "links"} -> Nat]
      /\ calm' \in 0 .. 2
      /\ UNCHANGED <<settings, play>>
  BY <1>1, DisturbsType DEF TypeOK
<1> QED
  BY <1>1, <1>3, <1>4, <1>5 DEF TypeOK, client, records, objects, Slots

LEMMA ConnectShape == ASSUME Shape, Connect PROVE Shape'
<1> USE DEF Shape
<1>1. PICK ids \in [1 .. Cardinality(Live) -> Live], wanted \in SUBSET Live :
        LET relevant == {id \in Live : id \in wanted \/ live[id] \in Controlled} IN
        /\ peer' = [NewPeer EXCEPT !.relevant = relevant]
        /\ control' = FlattenSeq([i \in DOMAIN ids |->
             Announce(ids[i], live[ids[i]], ids[i] \in relevant)])
  BY DEF Connect
<1> DEFINE relevant == {id \in Live : id \in wanted \/ live[id] \in Controlled}
           told == [i \in DOMAIN ids |->
                      Announce(ids[i], live[ids[i]], ids[i] \in relevant)]
<1>2. peer' \in Peer
  <2>1. relevant \in SUBSET NetId
    BY DEF Live
  <2> HIDE DEF relevant
  <2> QED
    BY <1>1, <2>1, RelevantType, NothingTyped DEF relevant
<1>3. frame \in Nat
  BY SnapshotsAssumption DEF TypeOK
<1>4. control' \in Seq(Control)
  <2>1. ASSUME NEW i \in DOMAIN ids
        PROVE  told[i] \in Seq(Control)
    <3>1. ids[i] \in NetId /\ live[ids[i]] \in Object
      BY DEF Live, TypeOK
    <3> HIDE DEF relevant, Live
    <3> QED
      BY <1>3, <3>1, AnnounceType
  <2>2. Cardinality(Live) \in Nat
    <3>1. IsFiniteSet(NetId)
      BY SnapshotsAssumption, FS_Interval DEF NetId
    <3>2. Live \subseteq NetId
      BY DEF Live
    <3> QED
      BY <3>1, <3>2, FS_Subset, FS_CardinalityType
  <2>3. told \in Seq(Seq(Control))
    <3>1. DOMAIN ids = 1 .. Cardinality(Live)
      OBVIOUS
    <3>2. told \in [1 .. Cardinality(Live) -> Seq(Control)]
      <4> HIDE DEF Live
      <4>1. told = [i \in 1 .. Cardinality(Live) |-> told[i]]
        BY <3>1
      <4> HIDE DEF told
      <4> QED
        BY <2>1, <3>1, <4>1
    <3> HIDE DEF told, Live
    <3> QED
      BY <2>2, <3>2
  <2> HIDE DEF told
  <2> QED
    BY <1>1, <2>3, FlattenType DEF told
<1>5. /\ linked' = TRUE
      /\ UNCHANGED <<world, frame, ticking, objects, history, local, remote,
                     client, fulls, deltas, inputs, heard, calm>>
  BY DEF Connect
<1> QED
  BY <1>2, <1>4, <1>5 DEF TypeOK, world, client, records, objects, Slots

LEMMA DisconnectShape == ASSUME Shape, Disconnect PROVE Shape'
<1> USE DEF Shape
<1>1. /\ peer' = NewPeer
      /\ linked' = FALSE
      /\ remote' = [id \in NetId |-> NoRemote]
      /\ control' = <<>> /\ fulls' = <<>> /\ deltas' = {} /\ inputs' = {}
      /\ heard' = Said(NoFrame, FALSE)
      /\ Disturbs("links")
      /\ UNCHANGED <<frame, ticking, objects, history, local, client>>
  BY DEF Disconnect
<1>2. peer' \in Peer /\ remote' \in [NetId -> Remote]
  BY <1>1, NothingTyped
<1>3. /\ control' \in Seq(Control) /\ fulls' \in Seq(Snapshot)
      /\ deltas' \subseteq Snapshot /\ inputs' \subseteq Inputs
      /\ heard' \in Inputs
  BY <1>1 DEF Said, Inputs
<1>4. /\ budget' \in [{"objects", "local", "interest", "links"} -> Nat]
      /\ calm' \in 0 .. 2
      /\ UNCHANGED <<settings, play>>
  BY <1>1, DisturbsType DEF TypeOK
<1> QED
  BY <1>1, <1>2, <1>3, <1>4 DEF TypeOK, client, records, objects, Slots

LEMMA SimulateShape ==
  ASSUME Shape, NEW over \in BOOLEAN, Simulate(over)
  PROVE  Shape'
<1> USE DEF Shape
<1> DEFINE states == [id \in Live |-> play[live[id]][frame]]
           r == [frame |-> frame, states |-> states]
<1>1. /\ frame <= settings.frames
      /\ history' = [history EXCEPT ![Slot(frame)] = r]
      /\ frame' = frame + 1
      /\ ticking' = TRUE
      /\ deltas' = {m \in deltas : Young(m.frame)}
      /\ peer' = [peer EXCEPT !.recent = @ /\ ~ over]
      /\ calm' = IF ~ Settled \/ peer'.recent THEN 0
                 ELSE IF calm = 2 THEN 2 ELSE calm + 1
      /\ UNCHANGED <<world, objects, linked, local, remote, client, control,
                     fulls, inputs, heard>>
  BY DEF Simulate
<1>2. frame \in Frame /\ frame + 1 \in 0 .. (MaxFrame + 1) /\ frame + 1 > 0
  <2>1. settings.frames \in 0 .. MaxFrame
    BY SnapshotsAssumption DEF TypeOK, Frame
  <2>2. frame \in 0 .. (MaxFrame + 1) /\ MaxFrame \in Nat
    BY SnapshotsAssumption DEF TypeOK
  <2> QED
    BY <1>1, <2>1, <2>2 DEF Frame
<1>3. history' \in [Slots -> Record]
  <2>1. Live \in SUBSET NetId
    BY DEF Live
  <2>2. ASSUME NEW id \in Live PROVE play[live[id]][frame] \in State
    <3>1. live[id] \in Object
      BY DEF Live, TypeOK
    <3>2. play \in [Object -> [Frame -> State]]
      BY SnapshotsAssumption DEF TypeOK
    <3> QED
      BY <1>2, <3>1, <3>2
  <2>3. states \in [Live -> State]
    BY <2>2
  <2>4. states \in States(State)
    <3> HIDE DEF states
    <3> QED
      BY <2>1, <2>3, StatesIntro
  <2>5. r \in Record
    <3> HIDE DEF states
    <3> QED
      BY <1>2, <2>4 DEF Record
  <2> HIDE DEF r
  <2> QED
    BY <1>1, <2>5 DEF TypeOK
<1>4. peer' \in Peer
  BY <1>1 DEF TypeOK, Peer
<1>5. calm' \in 0 .. 2
  BY <1>1 DEF TypeOK
<1> QED
  BY <1>1, <1>2, <1>3, <1>4, <1>5
     DEF TypeOK, world, client, records, objects, Slots

LEMMA AcknowledgedType ==
  ASSUME peer \in Peer
  PROVE  Acknowledged(peer.since) \in [NetId -> Nat \cup {NoFrame}]
BY DEF Acknowledged, Peer

LEMMA SendType ==
  ASSUME TypeOK, NEW f \in Frame, NEW cut \in NetId,
         SendSnapshot(f, Choice, cut)
  PROVE  /\ fulls' \in Seq(Snapshot)
         /\ deltas' \subseteq Snapshot
         /\ peer' \in Peer
<1> DEFINE parts == PartsOf(Choice, f, cut)
<1>1. peer \in Peer /\ Choice \in Offer
  BY ChoiceType DEF TypeOK
<1>2. parts \in Seq(Snapshot)
  BY <1>1, PartsFacts DEF TypeOK
<1>3. /\ fulls' = IF Choice.full THEN fulls \o parts ELSE fulls
      /\ deltas' = IF Choice.full THEN deltas
                   ELSE deltas \cup {parts[i] : i \in DOMAIN parts}
      /\ peer' = IF Choice.full
             THEN [peer EXCEPT !.since = Acknowledged(@), !.needsFull = FALSE,
                               !.lastFull = f, !.recent = TRUE]
             ELSE [peer EXCEPT !.since = Acknowledged(@)]
  BY DEF SendSnapshot
<1> HIDE DEF parts, Offer
<1>4. fulls' \in Seq(Snapshot)
  BY <1>2, <1>3 DEF TypeOK
<1>5. deltas' \subseteq Snapshot
  BY <1>2, <1>3 DEF TypeOK
<1>6. peer' \in Peer
  <2> DEFINE g == Acknowledged(peer.since)
  <2>1. g \in [NetId -> Nat \cup {NoFrame}]
    BY <1>1, AcknowledgedType
  <2>2. [peer EXCEPT !.since = g] \in Peer
    <3> HIDE DEF g
    <3> QED
      BY <1>1, <2>1 DEF Peer
  <2>3. [peer EXCEPT !.since = g, !.needsFull = FALSE, !.lastFull = f,
                     !.recent = TRUE] \in Peer
    <3> HIDE DEF g
    <3> QED
      BY <1>1, <2>1 DEF Peer
  <2> QED
    BY <1>3, <2>2, <2>3
<1> QED
  BY <1>4, <1>5, <1>6

LEMMA EndFrameShape == ASSUME Shape, EndFrame PROVE Shape'
<1> USE DEF Shape
<1>1. frame - 1 \in Frame
  <2>1. frame \in 0 .. (MaxFrame + 1) /\ frame > 0 /\ MaxFrame \in Nat
    BY SnapshotsAssumption DEF TypeOK, EndFrame
  <2> QED
    BY <2>1 DEF Frame
<1>2. /\ fulls' \in Seq(Snapshot)
      /\ deltas' \subseteq Snapshot
      /\ peer' \in Peer
  <2>1. CASE \E cut \in NetId : SendSnapshot(frame - 1, Choice, cut)
    BY <1>1, <2>1, SendType
  <2>2. CASE UNCHANGED <<peer, fulls, deltas>>
    BY <2>2 DEF TypeOK
  <2> QED
    BY <2>1, <2>2 DEF EndFrame
<1>3. /\ ticking' = FALSE
      /\ UNCHANGED <<world, frame, objects, history, linked, local, remote,
                     client, control, inputs, heard, calm>>
  BY DEF EndFrame
<1> QED
  BY <1>2, <1>3 DEF TypeOK, world, client, records, objects, Slots

LEMMA HandleInputsShape ==
  ASSUME Shape, NEW m \in inputs, HandleInputs(m)
  PROVE  Shape'
<1> USE DEF Shape
<1>1. m.ack \in Frame \cup {NoFrame} /\ m.wantsFull \in BOOLEAN
  BY DEF TypeOK, Inputs
<1>2. peer' \in Peer
  <2> DEFINE a == IF m.ack > peer.acked THEN m.ack ELSE peer.acked
             b == peer.needsFull \/ m.wantsFull
  <2>1. a \in Frame \cup {NoFrame} /\ b \in BOOLEAN
    BY <1>1 DEF TypeOK, Peer
  <2>2. peer' = [peer EXCEPT !.acked = a, !.needsFull = b]
    BY DEF HandleInputs
  <2> HIDE DEF a, b
  <2> QED
    BY <2>1, <2>2 DEF TypeOK, Peer
<1>3. inputs' \subseteq Inputs /\ heard' \in Inputs
  BY DEF HandleInputs, TypeOK
<1>4. UNCHANGED <<world, frame, ticking, objects, history, linked, local,
                  remote, client, control, fulls, deltas, calm>>
  BY DEF HandleInputs
<1> QED
  BY <1>2, <1>3, <1>4 DEF TypeOK, world, client, records, objects, Slots

LEMMA ClientRegisterShape ==
  ASSUME Shape, NEW o \in Object, ClientRegister(o)
  PROVE  Shape'
<1> USE DEF Shape
<1> DEFINE theirs == {id \in NetId : remote[id].object = o}
<1>1. /\ Disturbs("local")
      /\ local' = local \cup {o}
      /\ remote' = [id \in NetId |-> IF id \in theirs
                      THEN [remote[id] EXCEPT !.bound = TRUE] ELSE remote[id]]
      /\ needsFull' = (needsFull \/ theirs # {})
      /\ UNCHANGED <<frame, ticking, objects, history, linked, peer, records,
                     net, heard>>
  BY DEF ClientRegister
<1>2. remote' \in [NetId -> Remote]
  <2>1. ASSUME NEW id \in NetId
        PROVE  [remote[id] EXCEPT !.bound = TRUE] \in Remote
    <3>1. remote[id] \in Remote
      BY DEF TypeOK
    <3> QED
      BY <3>1 DEF Remote
  <2> HIDE DEF theirs
  <2> QED
    BY <1>1, <2>1 DEF TypeOK
<1>3. local' \subseteq Object /\ needsFull' \in BOOLEAN
  BY <1>1 DEF TypeOK
<1>4. /\ budget' \in [{"objects", "local", "interest", "links"} -> Nat]
      /\ calm' \in 0 .. 2
      /\ UNCHANGED <<settings, play>>
  BY <1>1, DisturbsType DEF TypeOK
<1> QED
  BY <1>1, <1>2, <1>3, <1>4 DEF TypeOK, records, net, objects, Slots

LEMMA ClientUnregisterShape ==
  ASSUME Shape, NEW o \in Object, ClientUnregister(o)
  PROVE  Shape'
<1> USE DEF Shape
<1>1. /\ Disturbs("local")
      /\ local' = local \ {o}
      /\ remote' = [id \in NetId |-> IF remote[id].object = o
                      THEN [remote[id] EXCEPT !.bound = FALSE] ELSE remote[id]]
      /\ UNCHANGED <<frame, ticking, objects, history, linked, peer, client,
                     net, heard>>
  BY DEF ClientUnregister
<1>2. remote' \in [NetId -> Remote]
  <2>1. ASSUME NEW id \in NetId
        PROVE  [remote[id] EXCEPT !.bound = FALSE] \in Remote
    <3>1. remote[id] \in Remote
      BY DEF TypeOK
    <3> QED
      BY <3>1 DEF Remote
  <2> QED
    BY <1>1, <2>1 DEF TypeOK
<1>3. local' \subseteq Object
  BY <1>1 DEF TypeOK
<1>4. /\ budget' \in [{"objects", "local", "interest", "links"} -> Nat]
      /\ calm' \in 0 .. 2
      /\ UNCHANGED <<settings, play>>
  BY <1>1, DisturbsType DEF TypeOK
<1> QED
  BY <1>1, <1>2, <1>3, <1>4 DEF TypeOK, client, records, net, objects, Slots

LEMMA HandleControlShape == ASSUME Shape, HandleControl PROVE Shape'
<1> USE DEF Shape
<1> DEFINE m == Head(control)
<1>1. /\ control # <<>>
      /\ control' = Tail(control)
      /\ \/ HandleRegister(m)
         \/ HandleUnregister(m)
         \/ HandleRelevance(m)
      /\ UNCHANGED <<world, frame, ticking, objects, history, linked, peer,
                     local, records, fulls, deltas, inputs, heard, calm>>
  BY DEF HandleControl
<1>2. m \in Control /\ control' \in Seq(Control)
  <2> HIDE DEF Control
  <2> QED
    BY <1>1 DEF TypeOK
<1> HIDE DEF m
<1>3. remote' \in [NetId -> Remote] /\ needsFull' \in BOOLEAN
  <2>1. CASE HandleRegister(m)
    <3>1. m.kind = "register"
      BY <2>1 DEF HandleRegister
    <3>2. m.id \in NetId /\ m.object \in Object
      BY <1>2, <3>1 DEF Control
    <3> DEFINE r == [object |-> m.object, bound |-> m.object \in local,
                     relevant |-> TRUE]
    <3>3. r \in Remote
      BY <3>2 DEF Remote
    <3>4. /\ remote' = [remote EXCEPT ![m.id] = r]
          /\ needsFull' = (needsFull \/ m.object \in local)
      BY <2>1 DEF HandleRegister
    <3> HIDE DEF r
    <3> QED
      BY <3>2, <3>3, <3>4 DEF TypeOK
  <2>2. CASE HandleUnregister(m)
    BY <2>2, NothingTyped DEF HandleUnregister, TypeOK
  <2>3. CASE HandleRelevance(m)
    <3>1. m.kind = "relevance"
      BY <2>3 DEF HandleRelevance
    <3>2. m.id \in NetId /\ m.relevant \in BOOLEAN
      BY <1>2, <3>1 DEF Control
    <3>3. remote[m.id] \in Remote
      BY <3>2 DEF TypeOK
    <3>4. [remote[m.id] EXCEPT !.relevant = m.relevant] \in Remote
      BY <3>2, <3>3 DEF Remote
    <3>5. /\ remote' = IF remote[m.id] = NoRemote THEN remote
                       ELSE [remote EXCEPT ![m.id].relevant = m.relevant]
          /\ UNCHANGED needsFull
      BY <2>3 DEF HandleRelevance
    <3>6. [remote EXCEPT ![m.id].relevant = m.relevant]
            = [remote EXCEPT ![m.id] =
                 [remote[m.id] EXCEPT !.relevant = m.relevant]]
      OBVIOUS
    <3> QED
      BY <3>2, <3>4, <3>5, <3>6 DEF TypeOK
  <2> QED
    BY <1>1, <2>1, <2>2, <2>3
<1> QED
  BY <1>1, <1>2, <1>3 DEF TypeOK, world, records, objects, Slots

(* A snapshot on the client, whichever channel it came by: nothing of it   *)
(* is taken, or a part is kept, or the last part arrived.                  *)
Taken(m) == /\ m.frame > latest
            /\ ~ NoBase(m)
            /\ ~ OwnSlot(m)
            /\ ~ PassedBy(m)

LEMMA SnapshotCases ==
  ASSUME NEW m, HandleSnapshot(m)
  PROVE  \/ UNCHANGED client
         \/ m.frame > latest /\ needsFull' = TRUE /\ UNCHANGED records
         \/ Taken(m) /\ Complete(WithPart(m)) /\ Finish(WithPart(m), m.full)
         \/ Taken(m) /\ ~ Complete(WithPart(m)) /\ Keep(WithPart(m))
<1>1. CASE m.frame <= latest \/ NoBase(m)
  <2> QED
    BY <1>1 DEF HandleSnapshot, Taken, TakePart
<1>2. CASE ~ (m.frame <= latest \/ NoBase(m))
  BY <1>2 DEF HandleSnapshot, Taken, TakePart
<1> QED
  BY <1>1, <1>2

LEMMA SnapshotType ==
  ASSUME TypeOK, NEW m \in Snapshot, HandleSnapshot(m), UNCHANGED settings
  PROVE  /\ received' \in [Slots -> Record]
         /\ pending' \in Pending
         /\ latest' \in Frame \cup {NoFrame}
         /\ needsFull' \in BOOLEAN
         /\ lacks' \subseteq NetId
<1> DEFINE p == WithPart(m)
<1>1. /\ p \in Pending /\ p.frame = m.frame /\ m.frame \in Frame
      /\ m.full \in BOOLEAN
  <2>1. m.frame \in Frame /\ m.full \in BOOLEAN
    BY DEF Snapshot
  <2> QED
    BY <2>1, WithPartFacts DEF TypeOK
<1> HIDE DEF p
<1>2. /\ p.frame \in Frame /\ p.states \in States(State)
      /\ p.missing \in BOOLEAN /\ p.carried \subseteq NetId
  BY <1>1 DEF Pending
<1>3. CASE UNCHANGED client
  BY <1>3 DEF client, records, TypeOK
<1>4. CASE needsFull' = TRUE /\ UNCHANGED records
  BY <1>4 DEF records, TypeOK
<1>5. CASE Finish(p, m.full)
  <2> DEFINE r == [frame |-> p.frame, states |-> p.states]
  <2>1. r \in Record
    BY <1>2 DEF Record
  <2>2. /\ pending' = NoPending
        /\ received' = [received EXCEPT ![Slot(p.frame)] = r]
        /\ latest' = p.frame
        /\ needsFull' = (p.missing \/ (needsFull /\ ~ m.full))
        /\ lacks' = p.carried \ DOMAIN p.states
    BY <1>5 DEF Finish
  <2> HIDE DEF r
  <2>3. received' \in [Slots -> Record]
    BY <2>1, <2>2 DEF TypeOK
  <2>4. needsFull' \in BOOLEAN
    BY <2>2
  <2> QED
    BY <1>2, <2>2, <2>3, <2>4, NothingTyped
<1>6. CASE Keep(p)
  <2>1. Slot(p.frame) \in Slots
    BY <1>2, SlotType, FrameNat DEF TypeOK
  <2>2. received[Slot(p.frame)] \in Record
    BY <2>1 DEF TypeOK
  <2> DEFINE r == [received[Slot(p.frame)] EXCEPT !.frame = NoFrame,
                                                  !.states = NoStates]
  <2>3. r \in Record
    <3>1. NoStates \in States(State)
      BY NothingTyped
    <3> HIDE DEF NoStates
    <3> QED
      BY <2>2, <3>1 DEF Record
  <2>4. received' = [received EXCEPT ![Slot(p.frame)] = r]
    <3>1. received' = [received EXCEPT ![Slot(p.frame)].frame = NoFrame,
                                       ![Slot(p.frame)].states = NoStates]
      BY <1>6 DEF Keep
    <3> HIDE DEF NoStates
    <3> QED
      BY <2>1, <2>2, <3>1 DEF TypeOK
  <2> HIDE DEF r
  <2>5. received' \in [Slots -> Record]
    BY <2>1, <2>3, <2>4 DEF TypeOK
  <2> QED
    BY <1>1, <1>6, <2>5 DEF Keep, TypeOK
<1>7. \/ UNCHANGED client
      \/ needsFull' = TRUE /\ UNCHANGED records
      \/ Finish(p, m.full)
      \/ Keep(p)
  BY SnapshotCases DEF p
<1> QED
  BY <1>3, <1>4, <1>5, <1>6, <1>7

LEMMA HandleDeltaShape ==
  ASSUME Shape, NEW m \in deltas, HandleDelta(m)
  PROVE  Shape'
<1> USE DEF Shape
<1>1. m \in Snapshot /\ HandleSnapshot(m)
  BY DEF HandleDelta, TypeOK
<1>2. /\ deltas' = {d \in deltas : d.frame > latest'}
      /\ UNCHANGED <<world, frame, ticking, objects, history, linked, peer,
                     local, remote, control, fulls, inputs, heard, calm>>
  BY DEF HandleDelta
<1>3. /\ received' \in [Slots -> Record]
      /\ pending' \in Pending
      /\ latest' \in Frame \cup {NoFrame}
      /\ needsFull' \in BOOLEAN
      /\ lacks' \subseteq NetId
  BY <1>1, <1>2, SnapshotType DEF world
<1> QED
  BY <1>2, <1>3 DEF TypeOK, world, objects, Slots

LEMMA HandleFullShape == ASSUME Shape, HandleFull PROVE Shape'
<1> USE DEF Shape
<1> DEFINE m == Head(fulls)
<1>1. /\ fulls # <<>>
      /\ fulls' = Tail(fulls)
      /\ HandleSnapshot(m)
      /\ deltas' = {d \in deltas : d.frame > latest'}
      /\ UNCHANGED <<world, frame, ticking, objects, history, linked, peer,
                     local, remote, control, inputs, heard, calm>>
  BY DEF HandleFull
<1>2. m \in Snapshot /\ fulls' \in Seq(Snapshot)
  <2> HIDE DEF Snapshot
  <2> QED
    BY <1>1 DEF TypeOK
<1> HIDE DEF m
<1>3. /\ received' \in [Slots -> Record]
      /\ pending' \in Pending
      /\ latest' \in Frame \cup {NoFrame}
      /\ needsFull' \in BOOLEAN
      /\ lacks' \subseteq NetId
  BY <1>1, <1>2, SnapshotType DEF world
<1> QED
  BY <1>1, <1>2, <1>3 DEF TypeOK, world, objects, Slots

LEMMA SendInputsShape == ASSUME Shape, SendInputs PROVE Shape'
<1> USE DEF Shape
<1>1. inputs' \subseteq Inputs
  <2>1. Said(latest, needsFull) \in Inputs
    BY DEF Said, Inputs, TypeOK
  <2> QED
    BY <2>1 DEF SendInputs, TypeOK
<1> QED
  BY <1>1 DEF SendInputs, TypeOK, world, client, records, objects, Slots

LEMMA StepShape == Shape /\ [Next]_vars => Shape'
<1> SUFFICES ASSUME Shape, [Next]_vars PROVE Shape'
  OBVIOUS
<1>1. CASE Games
  BY <1>1, RegisterShape, UnregisterShape, SetRelevantShape DEF Games
<1>2. CASE EndFrame
  BY <1>2, EndFrameShape
<1>3. CASE BetweenFrames
  BY <1>3, ConnectShape, DisconnectShape, SimulateShape, HandleInputsShape,
     ClientRegisterShape, ClientUnregisterShape, HandleControlShape,
     HandleFullShape, HandleDeltaShape, SendInputsShape
     DEF BetweenFrames
<1>4. CASE UNCHANGED vars
  BY <1>4 DEF vars, Shape, TypeOK, Slots
<1> QED
  BY <1>1, <1>2, <1>3, <1>4 DEF Next

(* Whatever the games and the network do, what the server and the client   *)
(* keep, and all that is on its way between them, has its type             *)
(* (tick_sync_core.h).                                                     *)
THEOREM StreamTypes == Spec => []TypeOK
<1>1. Init => Shape
  BY InitShape
<1>2. Shape /\ [Next]_vars => Shape'
  BY StepShape
<1>3. Shape => TypeOK
  BY DEF Shape
<1> QED
  BY <1>1, <1>2, <1>3, PTL DEF Spec

-----------------------------------------------------------------------------
(* The slots of a ring: two frames with the same slot are a whole round    *)
(* apart, and a round later the slot comes again.                          *)
LEMMA ModFacts ==
  ASSUME NEW h \in Nat, h > 0, NEW a \in Nat
  PROVE  /\ a \div h \in Nat
         /\ a % h \in 0 .. h - 1
         /\ a = h * (a \div h) + (a % h)
OBVIOUS

LEMMA ModUnique ==
  ASSUME NEW h \in Nat, h > 0, NEW p \in Nat, NEW q \in Nat,
         NEW r \in 0 .. h - 1, NEW s \in 0 .. h - 1,
         h * p + r = h * q + s
  PROVE  r = s
OBVIOUS

LEMMA WholeRounds ==
  ASSUME NEW h \in Nat, h > 0, NEW p \in Nat, NEW q \in Nat, p < q
  PROVE  h * q - h * p >= h
<1>1. q - p - 1 \in Nat
  OBVIOUS
<1>2. h * (q - p - 1) >= 0
  BY <1>1
<1>3. h * (q - p - 1) = h * q - h * p - h
  BY <1>1
<1>4. h * q \in Int /\ h * p \in Int
  OBVIOUS
<1> QED
  BY <1>2, <1>3, <1>4

LEMMA ModGap ==
  ASSUME NEW h \in Nat, h > 0, NEW a \in Nat, NEW b \in Nat,
         a < b, a % h = b % h
  PROVE  b - a >= h
<1> DEFINE p == a \div h
           q == b \div h
           r == a % h
<1>1. /\ p \in Nat /\ q \in Nat /\ r \in 0 .. h - 1
      /\ a = h * p + r /\ b = h * q + r
  BY ModFacts
<1> HIDE DEF p, q, r
<1>2. h * p \in Int /\ h * q \in Int
  BY <1>1
<1>3. p < q
  <2>1. CASE q = p
    BY <1>1, <2>1
  <2>2. CASE q < p
    <3>1. h * p - h * q >= h
      BY <1>1, <2>2, WholeRounds
    <3> QED
      BY <1>1, <1>2, <3>1
  <2> QED
    BY <1>1, <2>1, <2>2
<1>4. h * q - h * p >= h
  BY <1>1, <1>3, WholeRounds
<1> QED
  BY <1>1, <1>2, <1>4

LEMMA ModNext ==
  ASSUME NEW h \in Nat, h > 0, NEW a \in Nat
  PROVE  (a + h) % h = a % h
<1> DEFINE p == a \div h
           r == a % h
           q == (a + h) \div h
           s == (a + h) % h
<1>1. /\ p \in Nat /\ q \in Nat /\ r \in 0 .. h - 1 /\ s \in 0 .. h - 1
      /\ a = h * p + r /\ a + h = h * q + s
  BY ModFacts
<1> HIDE DEF p, q, r, s
<1>2. h * (p + 1) = h * p + h /\ h * p \in Int
  BY <1>1
<1>3. h * (p + 1) + r = h * q + s
  BY <1>1, <1>2
<1>4. r = s
  BY <1>1, <1>3, ModUnique
<1> QED
  BY <1>4 DEF r, s

LEMMA SlotFacts ==
  ASSUME settings \in Settings
  PROVE  /\ settings.history \in Nat /\ settings.history > 1
         /\ \A f \in Nat : Slot(f) \in Slots
         /\ \A f, g \in Nat : f < g /\ Slot(f) = Slot(g) =>
              g - f >= settings.history
         /\ \A f, g \in Nat : g = f + settings.history => Slot(f) = Slot(g)
<1>1. settings.history \in Nat /\ settings.history > 1
  BY SnapshotsAssumption
<1>2. \A f \in Nat : Slot(f) \in Slots
  BY SlotType
<1>3. ASSUME NEW f \in Nat, NEW g \in Nat, f < g, Slot(f) = Slot(g)
      PROVE  g - f >= settings.history
  <2> DEFINE h == settings.history
  <2>1. h \in Nat /\ h > 0 /\ f % h = g % h
    BY <1>1, <1>3 DEF Slot
  <2> HIDE DEF h
  <2>2. g - f >= h
    BY <1>3, <2>1, ModGap
  <2> QED
    BY <2>2 DEF h
<1>4. ASSUME NEW f \in Nat, NEW g \in Nat, g = f + settings.history
      PROVE  Slot(f) = Slot(g)
  <2> DEFINE h == settings.history
  <2>1. h \in Nat /\ h > 0 /\ g = f + h
    BY <1>1, <1>4
  <2> HIDE DEF h
  <2>2. g % h = f % h
    BY <2>1, ModNext
  <2> QED
    BY <2>2 DEF h, Slot
<1> QED
  BY <1>1, <1>2, <1>3, <1>4

-----------------------------------------------------------------------------
(* What a snapshot may do to the client's records: nothing; or it is the   *)
(* newest one, complete; or it is being built, and its slot is empty.      *)
LEMMA SnapshotEffect ==
  ASSUME TypeOK, NEW m \in Snapshot, HandleSnapshot(m)
  PROVE  \/ UNCHANGED <<received, pending, latest, lacks>>
         \/ /\ Taken(m) /\ Complete(WithPart(m))
            /\ pending' = NoPending
            /\ latest' = m.frame
            /\ received' = [received EXCEPT ![Slot(m.frame)] =
                 [frame |-> m.frame, states |-> WithPart(m).states]]
            /\ needsFull' = (WithPart(m).missing \/ (needsFull /\ ~ m.full))
            /\ lacks' = WithPart(m).carried \ DOMAIN WithPart(m).states
         \/ /\ Taken(m) /\ ~ Complete(WithPart(m))
            /\ pending' = WithPart(m)
            /\ received' = [received EXCEPT
                 ![Slot(m.frame)].frame = NoFrame,
                 ![Slot(m.frame)].states = NoStates]
            /\ UNCHANGED <<latest, needsFull, lacks>>
<1>1. WithPart(m).frame = m.frame
  BY WithPartFacts DEF TypeOK
<1>2. CASE UNCHANGED client
  BY <1>2 DEF client, records
<1>3. CASE needsFull' = TRUE /\ UNCHANGED records
  BY <1>3 DEF records
<1>4. CASE /\ Taken(m) /\ Complete(WithPart(m))
           /\ Finish(WithPart(m), m.full)
  BY <1>1, <1>4 DEF Finish
<1>5. CASE Taken(m) /\ ~ Complete(WithPart(m)) /\ Keep(WithPart(m))
  BY <1>1, <1>5 DEF Keep
<1> QED
  BY SnapshotCases, <1>2, <1>3, <1>4, <1>5

(* The frames of the client's records, after it.                           *)
LEMMA SnapshotFrames ==
  ASSUME TypeOK, NEW m \in Snapshot, HandleSnapshot(m)
  PROVE  \/ UNCHANGED <<received, pending, latest>>
         \/ /\ Taken(m) /\ Complete(WithPart(m))
            /\ pending'.frame = NoFrame
            /\ latest' = m.frame
            /\ DOMAIN received' = Slots
            /\ \A s \in Slots : received'[s].frame =
                 IF s = Slot(m.frame) THEN m.frame ELSE received[s].frame
         \/ /\ Taken(m) /\ ~ Complete(WithPart(m))
            /\ pending'.frame = m.frame
            /\ latest' = latest
            /\ DOMAIN received' = Slots
            /\ \A s \in Slots : received'[s].frame =
                 IF s = Slot(m.frame) THEN NoFrame ELSE received[s].frame
<1>1. Slot(m.frame) \in Slots
  BY SlotType, FrameNat DEF TypeOK, Snapshot
<1>2. received \in [Slots -> Record]
  BY DEF TypeOK
<1>3. WithPart(m).frame = m.frame
  BY WithPartFacts DEF TypeOK
<1>4. CASE UNCHANGED <<received, pending, latest, lacks>>
  BY <1>4
<1>5. CASE /\ Taken(m) /\ Complete(WithPart(m))
           /\ pending' = NoPending
           /\ latest' = m.frame
           /\ received' = [received EXCEPT ![Slot(m.frame)] =
                [frame |-> m.frame, states |-> WithPart(m).states]]
  <2>1. NoPending.frame = NoFrame
    BY DEF NoPending
  <2> QED
    BY <1>1, <1>2, <1>5, <2>1
<1>6. CASE /\ Taken(m) /\ ~ Complete(WithPart(m))
           /\ pending' = WithPart(m)
           /\ received' = [received EXCEPT
                ![Slot(m.frame)].frame = NoFrame,
                ![Slot(m.frame)].states = NoStates]
           /\ UNCHANGED <<latest, needsFull, lacks>>
  <2>1. received[Slot(m.frame)] \in Record
    BY <1>1, <1>2
  <2> HIDE DEF NoStates
  <2>2. /\ DOMAIN received' = Slots
        /\ \A s \in Slots : s # Slot(m.frame) => received'[s] = received[s]
        /\ received'[Slot(m.frame)].frame = NoFrame
    BY <1>1, <1>2, <1>6, <2>1 DEF Record
  <2> QED
    BY <1>3, <1>6, <2>2
<1> QED
  BY SnapshotEffect, <1>4, <1>5, <1>6

-----------------------------------------------------------------------------
(* One snapshot goes out after each frame: no two messages of one frame    *)
(* come by different channels, and what arrived was sent before.           *)
LastSent == IF ticking THEN frame - 2 ELSE frame - 1

FullOnWay(m) ==
  /\ m.full
  /\ m.base = NoFrame
  /\ m.part = 1
  /\ m.parts = 1
  /\ m.frame <= LastSent
  /\ m.frame # pending.frame
  /\ \A d \in deltas : d.frame # m.frame

FramesInv ==
  /\ latest <= LastSent
  /\ pending.frame <= LastSent
  /\ \A m \in deltas : ~ m.full /\ m.frame <= LastSent
  /\ \A i \in DOMAIN fulls : FullOnWay(fulls[i])

LEMMA FrameTypes ==
  ASSUME Shape
  PROVE  /\ frame \in Nat /\ ticking \in BOOLEAN
         /\ LastSent \in Int
         /\ latest \in Int /\ latest >= NoFrame
         /\ pending.frame \in Int /\ pending.frame >= NoFrame
         /\ \A m \in Snapshot : m.frame \in Nat /\ m.frame \in Int
         /\ \A m \in Snapshot : m.base \in Int /\ m.base >= NoFrame
         /\ peer.acked \in Int /\ peer.acked >= NoFrame
         /\ peer.lastFull \in Int /\ peer.lastFull >= NoFrame
<1>1. frame \in Nat /\ ticking \in BOOLEAN
  BY SnapshotsAssumption DEF Shape, TypeOK
<1>2. \A f \in Frame \cup {NoFrame} : f \in Int /\ f >= NoFrame
  BY FrameOrNone
<1>3. \A m \in Snapshot : m.frame \in Frame /\ m.base \in Frame \cup {NoFrame}
  BY DEF Snapshot
<1>4. /\ latest \in Frame \cup {NoFrame}
      /\ pending.frame \in Frame \cup {NoFrame}
      /\ peer.acked \in Frame \cup {NoFrame}
      /\ peer.lastFull \in Frame \cup {NoFrame}
  BY DEF Shape, TypeOK, Pending, Peer
<1>5. LastSent \in Int
  BY <1>1 DEF LastSent
<1>6. Frame \subseteq Nat /\ Frame \subseteq Frame \cup {NoFrame}
  BY FrameNat
<1> HIDE DEF Frame, NoFrame, LastSent, Snapshot
<1>7. ASSUME NEW m \in Snapshot
      PROVE  /\ m.frame \in Nat /\ m.frame \in Int
             /\ m.base \in Int /\ m.base >= NoFrame
  BY <1>2, <1>3, <1>6
<1>8. /\ latest \in Int /\ latest >= NoFrame
      /\ pending.frame \in Int /\ pending.frame >= NoFrame
      /\ peer.acked \in Int /\ peer.acked >= NoFrame
      /\ peer.lastFull \in Int /\ peer.lastFull >= NoFrame
  BY <1>2, <1>4
<1> QED
  BY <1>1, <1>5, <1>7, <1>8

LEMMA FramesInit == Init => FramesInv
BY DEF Init, FramesInv, LastSent, NoPending, NoFrame

LEMMA FramesStay ==
  ASSUME FramesInv, UNCHANGED <<frame, ticking, latest, pending>>,
         deltas' \subseteq deltas,
         fulls' = fulls \/ fulls' = <<>>
  PROVE  FramesInv'
BY DEF FramesInv, FullOnWay, LastSent

LEMMA FramesSimulate ==
  ASSUME Shape, FramesInv, ~ ticking, NEW over \in BOOLEAN, Simulate(over)
  PROVE  FramesInv'
<1>1. /\ frame' = frame + 1
      /\ ticking' = TRUE
      /\ deltas' \subseteq deltas
      /\ UNCHANGED <<latest, pending, fulls>>
  BY DEF Simulate, client, records
<1>2. frame \in Nat
  BY FrameTypes
<1>3. LastSent' = LastSent
  BY <1>1, <1>2 DEF LastSent
<1> QED
  BY <1>1, <1>3 DEF FramesInv, FullOnWay

LEMMA FramesEndFrame ==
  ASSUME Shape, FramesInv, EndFrame
  PROVE  FramesInv'
<1> DEFINE f == frame - 1
<1>1. /\ ticking /\ ticking' = FALSE
      /\ UNCHANGED <<frame, latest, pending>>
  BY DEF EndFrame, client, records
<1>2. /\ frame \in Nat /\ frame > 0 /\ f \in Frame
      /\ LastSent = f - 1 /\ LastSent' = f /\ f \in Int
  <2>1. frame \in 0 .. (MaxFrame + 1) /\ frame > 0 /\ MaxFrame \in Nat
    BY <1>1, SnapshotsAssumption DEF Shape, TypeOK
  <2> QED
    BY <1>1, <2>1 DEF LastSent, Frame
<1> HIDE DEF f
<1>3. latest' <= LastSent' /\ pending'.frame <= LastSent' /\ pending.frame # f
  BY <1>1, <1>2, FrameTypes DEF FramesInv
<1>4. ASSUME NEW m \in deltas
      PROVE  ~ m.full /\ m.frame <= LastSent' /\ m.frame # f
  <2>1. ~ m.full /\ m.frame <= LastSent /\ m.frame \in Int
    BY FrameTypes DEF FramesInv, Shape, TypeOK
  <2> QED
    BY <1>2, <2>1
<1>5. ASSUME NEW i \in DOMAIN fulls
      PROVE  LET m == fulls[i] IN
             /\ m.full /\ m.base = NoFrame /\ m.part = 1 /\ m.parts = 1
             /\ m.frame <= LastSent' /\ m.frame # f
             /\ m.frame # pending'.frame
             /\ \A d \in deltas : d.frame # m.frame
  <2>1. FullOnWay(fulls[i])
    BY DEF FramesInv
  <2>2. fulls[i] \in Snapshot
    BY DEF Shape, TypeOK
  <2>3. fulls[i].frame \in Int
    BY <2>2, FrameTypes
  <2> QED
    BY <1>1, <1>2, <2>1, <2>3 DEF FullOnWay
<1>6. CASE UNCHANGED <<peer, fulls, deltas>>
  BY <1>3, <1>4, <1>5, <1>6 DEF FramesInv, FullOnWay
<1>7. ASSUME NEW cut \in NetId, SendSnapshot(f, Choice, cut)
      PROVE  FramesInv'
  <2> DEFINE parts == PartsOf(Choice, f, cut)
  <2>1. /\ Choice \in Offer
        /\ Choice.full => Choice.base = NoFrame
    BY ChoiceType DEF Shape, TypeOK
  <2>2. /\ parts \in Seq(Snapshot)
        /\ \A i \in DOMAIN parts :
             /\ parts[i].full = Choice.full
             /\ parts[i].frame = f
             /\ parts[i].base = Choice.base
             /\ Choice.full => parts[i].part = 1 /\ parts[i].parts = 1
    <3> HIDE DEF Offer
    <3> QED
      BY <1>2, <2>1, PartsFacts DEF Shape, TypeOK
  <2>3. /\ fulls' = IF Choice.full THEN fulls \o parts ELSE fulls
        /\ deltas' = IF Choice.full THEN deltas
                     ELSE deltas \cup {parts[i] : i \in DOMAIN parts}
    BY <1>7 DEF SendSnapshot
  <2>4. fulls \in Seq(Snapshot)
    BY DEF Shape, TypeOK
  <2> HIDE DEF parts
  <2>5. CASE Choice.full
    <3>1. fulls' = fulls \o parts /\ deltas' = deltas
      BY <2>3, <2>5
    <3>2. ASSUME NEW i \in DOMAIN fulls'
          PROVE  \/ i \in DOMAIN fulls /\ fulls'[i] = fulls[i]
                 \/ \E j \in DOMAIN parts : fulls'[i] = parts[j]
      <4>1. /\ DOMAIN fulls = 1 .. Len(fulls) /\ Len(fulls) \in Nat
            /\ DOMAIN parts = 1 .. Len(parts) /\ Len(parts) \in Nat
            /\ DOMAIN fulls' = 1 .. (Len(fulls) + Len(parts))
        BY <2>2, <2>4, <3>1
      <4>2. CASE i <= Len(fulls)
        BY <2>2, <2>4, <3>1, <4>1, <4>2
      <4>3. CASE ~ (i <= Len(fulls))
        <5>1. i - Len(fulls) \in DOMAIN parts
          BY <4>1, <4>3
        <5>2. fulls'[i] = parts[i - Len(fulls)]
          BY <2>2, <2>4, <3>1, <4>1, <4>3
        <5> QED
          BY <5>1, <5>2
      <4> QED
        BY <4>2, <4>3
    <3>3. ASSUME NEW i \in DOMAIN fulls'
          PROVE  FullOnWay(fulls[i])'
      <4>1. CASE i \in DOMAIN fulls /\ fulls'[i] = fulls[i]
        BY <1>5, <3>1, <4>1 DEF FullOnWay
      <4>2. CASE \E j \in DOMAIN parts : fulls'[i] = parts[j]
        <5>1. PICK j \in DOMAIN parts : fulls'[i] = parts[j]
          BY <4>2
        <5>2. /\ fulls'[i].full /\ fulls'[i].frame = f
              /\ fulls'[i].base = NoFrame
              /\ fulls'[i].part = 1 /\ fulls'[i].parts = 1
          BY <2>1, <2>2, <2>5, <5>1
        <5> QED
          BY <1>1, <1>2, <1>3, <1>4, <3>1, <5>2 DEF FullOnWay
      <4> QED
        BY <3>2, <4>1, <4>2
    <3> QED
      BY <1>3, <1>4, <3>1, <3>3 DEF FramesInv
  <2>6. CASE ~ Choice.full
    <3>1. /\ fulls' = fulls
          /\ deltas' = deltas \cup {parts[i] : i \in DOMAIN parts}
      BY <2>3, <2>6
    <3>2. ASSUME NEW d \in deltas', d \notin deltas
          PROVE  ~ d.full /\ d.frame = f
      BY <2>2, <2>6, <3>1, <3>2
    <3>3. ASSUME NEW d \in deltas'
          PROVE  ~ d.full /\ d.frame <= LastSent'
      BY <1>2, <1>4, <3>2
    <3>4. ASSUME NEW i \in DOMAIN fulls, NEW d \in deltas'
          PROVE  d.frame # fulls[i].frame
      BY <1>5, <3>2
    <3> QED
      BY <1>3, <1>5, <3>1, <3>3, <3>4 DEF FramesInv, FullOnWay
  <2> QED
    BY <2>5, <2>6
<1> QED
  BY <1>6, <1>7 DEF EndFrame, f

(* A full snapshot comes in one part.                                      *)
LEMMA FullCompletes ==
  ASSUME TypeOK, NEW m \in Snapshot, FullOnWay(m)
  PROVE  Complete(WithPart(m))
<1>1. pending.frame # m.frame /\ m.part = 1 /\ m.parts = 1
  BY DEF FullOnWay
<1>2. Started(m).parts = 1 /\ Started(m).got = {}
  BY <1>1, StartedFacts DEF TypeOK
<1>3. WithPart(m).parts = 1 /\ WithPart(m).got = {1}
  BY <1>1, <1>2, WithPartFacts DEF TypeOK
<1> QED
  BY <1>3 DEF Complete

LEMMA FramesDelta ==
  ASSUME Shape, FramesInv, NEW m \in deltas, HandleDelta(m)
  PROVE  FramesInv'
<1>1. /\ HandleSnapshot(m)
      /\ deltas' \subseteq deltas
      /\ UNCHANGED <<frame, ticking, fulls>>
  BY DEF HandleDelta
<1>2. /\ m \in Snapshot /\ m.frame \in Int /\ m.frame <= LastSent
      /\ fulls \in Seq(Snapshot) /\ TypeOK
  BY FrameTypes DEF Shape, TypeOK, FramesInv
<1>3. LastSent' = LastSent
  BY <1>1 DEF LastSent
<1>4. /\ latest' \in {latest, m.frame}
      /\ pending'.frame \in {pending.frame, m.frame, NoFrame}
  BY <1>1, <1>2, SnapshotFrames
<1>5. latest' <= LastSent' /\ pending'.frame <= LastSent'
  <2>1. LastSent >= NoFrame
    BY FrameTypes DEF FramesInv, NoFrame
  <2> QED
    BY <1>2, <1>3, <1>4, <2>1 DEF FramesInv
<1>6. ASSUME NEW i \in DOMAIN fulls
      PROVE  FullOnWay(fulls[i])'
  <2>1. FullOnWay(fulls[i]) /\ fulls[i] \in Snapshot
    BY <1>2 DEF FramesInv
  <2>2. fulls[i].frame # NoFrame
    BY <2>1, FrameNat DEF Snapshot, NoFrame
  <2>3. fulls[i].frame # pending'.frame
    BY <1>4, <2>1, <2>2 DEF FullOnWay
  <2> QED
    BY <1>1, <1>3, <2>1, <2>3 DEF FullOnWay
<1> QED
  BY <1>1, <1>3, <1>5, <1>6 DEF FramesInv

LEMMA FramesFull ==
  ASSUME Shape, FramesInv, HandleFull
  PROVE  FramesInv'
<1> DEFINE m == Head(fulls)
<1>1. /\ fulls # <<>>
      /\ fulls' = Tail(fulls)
      /\ HandleSnapshot(m)
      /\ deltas' \subseteq deltas
      /\ UNCHANGED <<frame, ticking>>
  BY DEF HandleFull
<1>2. fulls \in Seq(Snapshot) /\ TypeOK
  BY DEF Shape, TypeOK
<1>3. /\ 1 \in DOMAIN fulls /\ m = fulls[1]
      /\ \A i \in DOMAIN fulls' : i + 1 \in DOMAIN fulls
                                  /\ fulls'[i] = fulls[i + 1]
  <2> HIDE DEF Snapshot
  <2> QED
    BY <1>1, <1>2
<1> HIDE DEF m
<1>4. m \in Snapshot /\ FullOnWay(m) /\ m.frame \in Int /\ m.frame <= LastSent
  BY <1>2, <1>3, FrameTypes DEF FramesInv, FullOnWay
<1>5. LastSent' = LastSent
  BY <1>1 DEF LastSent
<1>6. /\ latest' \in {latest, m.frame}
      /\ pending'.frame \in {pending.frame, NoFrame}
  <2>1. Complete(WithPart(m))
    BY <1>2, <1>4, FullCompletes
  <2> QED
    BY <1>1, <1>2, <1>4, <2>1, SnapshotFrames
<1>7. latest' <= LastSent' /\ pending'.frame <= LastSent'
  <2>1. LastSent >= NoFrame
    BY FrameTypes DEF FramesInv, NoFrame
  <2> QED
    BY <1>4, <1>5, <1>6, <2>1 DEF FramesInv
<1>8. ASSUME NEW i \in DOMAIN fulls'
      PROVE  FullOnWay(fulls[i])'
  <2>1. FullOnWay(fulls[i + 1]) /\ fulls[i + 1] \in Snapshot
    BY <1>2, <1>3 DEF FramesInv
  <2>2. fulls[i + 1].frame # NoFrame
    BY <2>1, FrameNat DEF Snapshot, NoFrame
  <2>3. fulls[i + 1].frame # pending'.frame
    BY <1>6, <2>1, <2>2 DEF FullOnWay
  <2>4. fulls'[i] = fulls[i + 1]
    BY <1>3
  <2> QED
    BY <1>1, <1>5, <2>1, <2>3, <2>4 DEF FullOnWay
<1> QED
  BY <1>1, <1>5, <1>7, <1>8 DEF FramesInv

LEMMA FramesStep ==
  ASSUME Shape, FramesInv, [Next]_vars
  PROVE  FramesInv'
<1>1. CASE Games
  BY <1>1, FramesStay
     DEF Games, ServerRegister, ServerUnregister, SetRelevant, client, records
<1>2. CASE EndFrame
  BY <1>2, FramesEndFrame
<1>3. CASE ~ ticking /\ BetweenFrames
  <2>1. CASE Connect \/ Disconnect
    BY <2>1, FramesStay DEF Connect, Disconnect, client, records
  <2>2. CASE \E m \in inputs : HandleInputs(m)
    BY <2>2, FramesStay DEF HandleInputs, client, records
  <2>3. CASE \E o \in Object : ClientRegister(o) \/ ClientUnregister(o)
    BY <2>3, FramesStay
       DEF ClientRegister, ClientUnregister, client, records, net
  <2>4. CASE HandleControl \/ SendInputs
    BY <2>4, FramesStay DEF HandleControl, SendInputs, client, records
  <2> QED
    BY <1>3, <2>1, <2>2, <2>3, <2>4, FramesSimulate, FramesFull, FramesDelta
       DEF BetweenFrames
<1>4. CASE UNCHANGED vars
  BY <1>4, FramesStay DEF vars
<1> QED
  BY <1>1, <1>2, <1>3, <1>4 DEF Next

-----------------------------------------------------------------------------
(* The server's history has the last frames, and no other.                 *)
InRing(f) == f >= frame - settings.history

HistoryInv ==
  \A f \in Nat : Has(history, f) <=> f < frame /\ InRing(f)

LEMMA HistoryInit == Init => HistoryInv
<1> SUFFICES ASSUME Init, NEW f \in Nat
             PROVE  ~ Has(history, f) /\ ~ (f < frame)
  BY DEF HistoryInv
<1>1. settings \in Settings /\ history = [s \in Slots |-> NoRecord] /\ frame = 0
  BY DEF Init
<1>2. Slot(f) \in Slots
  BY <1>1, SlotFacts
<1>3. history[Slot(f)].frame = NoFrame
  BY <1>1, <1>2 DEF NoRecord
<1> QED
  BY <1>1, <1>3 DEF Has

LEMMA HistoryStays ==
  ASSUME HistoryInv, UNCHANGED <<frame, settings, history>>
  PROVE  HistoryInv'
BY DEF HistoryInv, Has, InRing, Slot

LEMMA HistoryUnregister ==
  ASSUME Shape, HistoryInv, NEW id \in NetId, ServerUnregister(id)
  PROVE  HistoryInv'
<1>1. /\ history' = [s \in DOMAIN history |->
           [history[s] EXCEPT !.states = Without(@, id)]]
      /\ UNCHANGED <<frame, settings>>
  BY DEF ServerUnregister, Disturbs
<1>2. settings \in Settings /\ history \in [Slots -> Record]
  BY DEF Shape, TypeOK
<1>3. ASSUME NEW s \in Slots PROVE history'[s].frame = history[s].frame
  <2>1. history[s] \in Record /\ DOMAIN history = Slots
    BY <1>2
  <2> QED
    BY <1>1, <2>1 DEF Record
<1>4. ASSUME NEW f \in Nat PROVE Has(history, f)' <=> Has(history, f)
  <2>1. Slot(f) \in Slots /\ Slot(f)' = Slot(f)
    BY <1>1, <1>2, SlotFacts DEF Slot
  <2> QED
    BY <1>3, <2>1 DEF Has
<1> QED
  BY <1>1, <1>4 DEF HistoryInv, InRing

LEMMA HistorySimulate ==
  ASSUME Shape, HistoryInv, NEW over \in BOOLEAN, Simulate(over)
  PROVE  HistoryInv'
<1> DEFINE r == [frame |-> frame,
                 states |-> [id \in Live |-> play[live[id]][frame]]]
           h == settings.history
<1>1. /\ history' = [history EXCEPT ![Slot(frame)] = r]
      /\ frame' = frame + 1
      /\ UNCHANGED settings
  BY DEF Simulate, world
<1>2. /\ settings \in Settings /\ history \in [Slots -> Record]
      /\ frame \in Nat
  BY FrameTypes DEF Shape, TypeOK
<1>3. r.frame = frame
  OBVIOUS
<1> HIDE DEF r
<1>4. /\ h \in Nat /\ h > 1
      /\ Slot(frame) \in Slots
      /\ \A f \in Nat : Slot(f) \in Slots
      /\ \A f, g \in Nat : f < g /\ Slot(f) = Slot(g) => g - f >= h
      /\ \A f, g \in Nat : g = f + h => Slot(f) = Slot(g)
  BY <1>2, SlotFacts
<1> HIDE DEF h
<1>5. ASSUME NEW f \in Nat
      PROVE  history'[Slot(f)].frame = f
               <=> f < frame + 1 /\ f >= frame + 1 - h
  <2>1. CASE Slot(f) = Slot(frame)
    <3>1. history'[Slot(f)].frame = frame
      BY <1>1, <1>2, <1>3, <1>4, <2>1
    <3>2. f < frame => frame - f >= h
      BY <1>2, <1>4, <2>1
    <3> QED
      BY <1>2, <1>4, <3>1, <3>2
  <2>2. CASE Slot(f) # Slot(frame)
    <3>1. history'[Slot(f)] = history[Slot(f)]
      BY <1>1, <1>2, <1>4, <2>2
    <3>2. f # frame /\ frame # f + h
      BY <1>2, <1>4, <2>2
    <3>3. f # NoFrame
      BY DEF NoFrame
    <3>4. history[Slot(f)].frame = f <=> f < frame /\ f >= frame - h
      BY <3>3 DEF HistoryInv, Has, InRing, h
    <3> QED
      BY <1>2, <1>4, <3>1, <3>2, <3>4
  <2> QED
    BY <2>1, <2>2
<1>6. ASSUME NEW f \in Nat
      PROVE  Has(history, f)' <=> history'[Slot(f)].frame = f
  <2>1. f # NoFrame /\ Slot(f)' = Slot(f)
    BY <1>1 DEF NoFrame, Slot
  <2> QED
    BY <2>1 DEF Has
<1>7. ASSUME NEW f \in Nat
      PROVE  (f < frame /\ InRing(f))' <=> f < frame + 1 /\ f >= frame + 1 - h
  <2>1. settings'.history = h /\ frame' = frame + 1
    BY <1>1 DEF h
  <2>2. InRing(f)' <=> f >= frame' - h
    BY <2>1 DEF InRing
  <2>3. (f < frame)' <=> f < frame + 1
    BY <2>1
  <2>4. InRing(f)' <=> f >= frame + 1 - h
    BY <2>1, <1>2, <1>4 DEF InRing
  <2> QED
    BY <2>3, <2>4
<1> QED
  BY <1>5, <1>6, <1>7 DEF HistoryInv

LEMMA HistoryStep ==
  ASSUME Shape, HistoryInv, [Next]_vars
  PROVE  HistoryInv'
<1>1. CASE Games
  BY <1>1, HistoryStays, HistoryUnregister
     DEF Games, ServerRegister, SetRelevant, Disturbs
<1>2. CASE EndFrame
  BY <1>2, HistoryStays DEF EndFrame, world
<1>3. CASE BetweenFrames
  <2>1. CASE Connect \/ Disconnect
    BY <2>1, HistoryStays DEF Connect, Disconnect, world, Disturbs
  <2>2. CASE \E m \in inputs : HandleInputs(m)
    BY <2>2, HistoryStays DEF HandleInputs, world
  <2>3. CASE \E o \in Object : ClientRegister(o) \/ ClientUnregister(o)
    BY <2>3, HistoryStays DEF ClientRegister, ClientUnregister, Disturbs
  <2>4. CASE HandleControl \/ SendInputs
    BY <2>4, HistoryStays DEF HandleControl, SendInputs, world
  <2>5. CASE HandleFull \/ \E m \in deltas : HandleDelta(m)
    BY <2>5, HistoryStays DEF HandleFull, HandleDelta, world
  <2> QED
    BY <1>3, <2>1, <2>2, <2>3, <2>4, <2>5, HistorySimulate DEF BetweenFrames
<1>4. CASE UNCHANGED vars
  BY <1>4, HistoryStays DEF vars
<1> QED
  BY <1>1, <1>2, <1>3, <1>4 DEF Next

-----------------------------------------------------------------------------
(* What the client says it has, it has for as long as the server may build *)
(* on it: a newer frame takes its slot only a whole round later.           *)
Held(a) ==
  a # NoFrame =>
    /\ a <= latest
    /\ InRing(a) => Has(received, a)

HeldInv ==
  /\ Held(latest)
  /\ Held(peer.acked)
  /\ \A m \in inputs : Held(m.ack)
  /\ \A s \in Slots : received[s].frame <= latest

LEMMA HeldInit == Init => HeldInv
<1> SUFFICES ASSUME Init PROVE HeldInv
  OBVIOUS
<1>1. /\ latest = NoFrame /\ peer.acked = NoFrame /\ inputs = {}
      /\ received = [s \in Slots |-> NoRecord]
  BY DEF Init, NewPeer
<1>2. \A s \in Slots : received[s].frame = NoFrame
  BY <1>1 DEF NoRecord
<1> QED
  BY <1>1, <1>2 DEF HeldInv, Held, NoFrame

(* A snapshot takes the slot of no record the server may still build on.   *)
LEMMA HeldSnapshot ==
  ASSUME Shape, FramesInv, HeldInv, NEW m \in Snapshot, m.frame <= LastSent,
         HandleSnapshot(m), UNCHANGED <<settings, frame>>
  PROVE  /\ Held(latest)'
         /\ \A a \in Frame \cup {NoFrame} :
              Held(a) => (a # NoFrame =>
                            /\ a <= latest'
                            /\ InRing(a) => Has(received', a))
         /\ \A s \in Slots : received'[s].frame <= latest'
<1> DEFINE g == m.frame
<1>1. /\ settings \in Settings /\ received \in [Slots -> Record]
      /\ frame \in Nat /\ g \in Nat /\ g < frame
      /\ latest \in Int /\ latest >= NoFrame
  <2>1. frame \in Nat /\ g \in Nat /\ g <= LastSent /\ ticking \in BOOLEAN
    BY FrameTypes
  <2> QED
    BY <2>1, FrameTypes DEF Shape, TypeOK, LastSent
<1>2. /\ settings.history \in Nat /\ settings.history > 1
      /\ \A f \in Nat : Slot(f) \in Slots
      /\ \A a, b \in Nat : a < b /\ Slot(a) = Slot(b) =>
           b - a >= settings.history
  BY <1>1, SlotFacts
<1>3. ASSUME NEW a \in Nat, a < g, InRing(a)
      PROVE  Slot(a) # Slot(g)
  BY <1>1, <1>2, <1>3 DEF InRing
<1>4. CASE UNCHANGED <<received, pending, latest>>
  BY <1>4 DEF HeldInv, Held, Has, InRing, Slot
<1>5. ASSUME Taken(m),
             latest' = latest \/ latest' = g,
             latest' = g => received'[Slot(g)].frame = g,
             DOMAIN received' = Slots,
             \A s \in Slots : s # Slot(g) =>
               received'[s].frame = received[s].frame,
             received'[Slot(g)].frame \in {NoFrame, latest'}
      PROVE  /\ Held(latest)'
             /\ \A a \in Frame \cup {NoFrame} :
                  Held(a) => (a # NoFrame =>
                                /\ a <= latest'
                                /\ InRing(a) => Has(received', a))
             /\ \A s \in Slots : received'[s].frame <= latest'
  <2>1. g > latest /\ latest' \in Int /\ latest' >= latest
    BY <1>1, <1>5 DEF Taken
  <2>2. ASSUME NEW a \in Frame \cup {NoFrame}, Held(a), a # NoFrame
        PROVE  /\ a <= latest' /\ a < g
               /\ InRing(a) => received'[Slot(a)].frame = a
    <3>1. a \in Nat /\ a <= latest
      BY <2>2, FrameNat DEF Held
    <3>2. a <= latest' /\ a < g
      BY <1>1, <2>1, <3>1
    <3>3. ASSUME InRing(a) PROVE received'[Slot(a)].frame = a
      <4>1. Slot(a) # Slot(g) /\ Slot(a) \in Slots
        BY <1>2, <1>3, <3>1, <3>2, <3>3
      <4>2. received[Slot(a)].frame = a
        BY <2>2, <3>3 DEF Held, Has
      <4> QED
        BY <1>5, <4>1, <4>2
    <3> QED
      BY <3>2, <3>3
  <2>3. \A s \in Slots : received'[s].frame <= latest'
    <3>1. ASSUME NEW s \in Slots
          PROVE  received'[s].frame <= latest'
      <4>1. received[s].frame \in Int /\ received[s].frame <= latest
        <5>1. received[s].frame \in Frame \cup {NoFrame}
          BY <1>1 DEF Record
        <5>2. received[s].frame <= latest
          BY DEF HeldInv
        <5> QED
          BY <5>1, <5>2, FrameOrNone
      <4>2. CASE s = Slot(g)
        BY <1>1, <1>5, <2>1, <4>2 DEF NoFrame
      <4>3. CASE s # Slot(g)
        BY <1>1, <1>5, <2>1, <4>1, <4>3
      <4> QED
        BY <4>2, <4>3
    <3> QED
      BY <3>1
  <2>4. Held(latest)'
    <3>1. Slot(latest)' = latest' % settings.history
          /\ InRing(latest)' = (latest' >= frame - settings.history)
      BY DEF Slot, InRing
    <3>2. CASE latest' = g
      <4>1. received'[Slot(g)].frame = g /\ latest' <= latest'
        BY <1>5, <2>1, <3>2
      <4>2. Slot(latest)' = Slot(g)
        BY <3>1, <3>2 DEF Slot
      <4> QED
        BY <3>2, <4>1, <4>2 DEF Held, Has
    <3>3. CASE latest' = latest
      <4>1. latest \in Frame \cup {NoFrame} /\ Held(latest)
        BY DEF HeldInv, Shape, TypeOK
      <4>2. latest # NoFrame /\ InRing(latest) =>
              received'[Slot(latest)].frame = latest
        BY <2>2, <4>1
      <4> QED
        BY <1>1, <3>1, <3>3, <4>2 DEF Held, Has, Slot, InRing
    <3> QED
      BY <1>5, <3>2, <3>3
  <2> QED
    BY <2>2, <2>3, <2>4 DEF Has
<1>6. ASSUME Taken(m), latest' = g, DOMAIN received' = Slots,
             \A s \in Slots : received'[s].frame =
               IF s = Slot(g) THEN g ELSE received[s].frame
      PROVE  /\ received'[Slot(g)].frame = g
             /\ \A s \in Slots : s # Slot(g) =>
                  received'[s].frame = received[s].frame
  BY <1>1, <1>2, <1>6
<1>7. ASSUME Taken(m), latest' = latest, DOMAIN received' = Slots,
             \A s \in Slots : received'[s].frame =
               IF s = Slot(g) THEN NoFrame ELSE received[s].frame
      PROVE  /\ received'[Slot(g)].frame = NoFrame
             /\ \A s \in Slots : s # Slot(g) =>
                  received'[s].frame = received[s].frame
             /\ latest' # g
  BY <1>1, <1>2, <1>7 DEF Taken
<1>8. TypeOK
  BY DEF Shape
<1> QED
  BY <1>4, <1>5, <1>6, <1>7, <1>8, SnapshotFrames

LEMMA HeldStays ==
  ASSUME Shape, HeldInv, UNCHANGED <<settings, latest, received>>,
         frame' = frame \/ frame' = frame + 1,
         peer'.acked \in {peer.acked, NoFrame} \cup {m.ack : m \in inputs},
         \A m \in inputs' : m \in inputs \/ m.ack = latest
  PROVE  HeldInv'
<1>1. frame \in Nat /\ settings.history \in Nat
  BY FrameTypes, SlotFacts DEF Shape, TypeOK
<1>2. ASSUME NEW a \in Frame \cup {NoFrame}, Held(a)
      PROVE  a # NoFrame =>
               /\ a <= latest'
               /\ a >= frame' - settings'.history =>
                    received'[a % settings'.history].frame = a
  <2>1. a \in Int
    BY FrameOrNone
  <2>2. ASSUME a # NoFrame, a >= frame' - settings'.history
        PROVE  received[a % settings.history].frame = a
    <3>1. InRing(a)
      BY <1>1, <2>1, <2>2 DEF InRing
    <3> QED
      BY <1>2, <2>2, <3>1 DEF Held, Has, Slot
  <2> QED
    BY <1>2, <2>2 DEF Held
<1>3. latest \in Frame \cup {NoFrame} /\ peer.acked \in Frame \cup {NoFrame}
      /\ \A m \in inputs : m.ack \in Frame \cup {NoFrame}
  BY DEF Shape, TypeOK, Peer, Inputs
<1>4. /\ Held(latest) /\ Held(peer.acked)
      /\ \A m \in inputs : Held(m.ack)
      /\ \A s \in Slots : received[s].frame <= latest
  BY DEF HeldInv
<1>5. Held(latest)'
  BY <1>2, <1>3, <1>4 DEF Held, Has, InRing, Slot
<1>6. Held(peer.acked)'
  BY <1>2, <1>3, <1>4 DEF Held, Has, InRing, Slot
<1>7. ASSUME NEW m \in inputs' PROVE Held(m.ack)'
  BY <1>2, <1>3, <1>4 DEF Held, Has, InRing, Slot
<1>8. (\A s \in Slots : received[s].frame <= latest)'
  BY <1>4 DEF Slots
<1> QED
  BY <1>5, <1>6, <1>7, <1>8 DEF HeldInv

(* What the server does between two messages of the client leaves what it  *)
(* acknowledged, or forgets it.                                            *)
LEMMA AckedStays ==
  ASSUME Shape, Games \/ EndFrame \/ \E over \in BOOLEAN : Simulate(over)
  PROVE  peer'.acked = peer.acked
<1> USE DEF Shape, TypeOK, Peer
<1>1. ASSUME NEW o \in Object, ServerRegister(o)
      PROVE  peer'.acked = peer.acked
  BY <1>1 DEF ServerRegister
<1>2. ASSUME NEW id \in NetId
      PROVE  Forget(peer, id).acked = peer.acked
  BY DEF Forget
<1>3. ASSUME NEW id \in NetId, ServerUnregister(id)
      PROVE  peer'.acked = peer.acked
  BY <1>2, <1>3 DEF ServerUnregister
<1>4. ASSUME NEW id \in NetId, NEW wanted \in BOOLEAN, SetRelevant(id, wanted)
      PROVE  peer'.acked = peer.acked
  <2>1. [peer EXCEPT !.relevant = @ \cup {id}, !.since[id] = frame].acked
          = peer.acked
    OBVIOUS
  <2> QED
    BY <1>2, <1>4, <2>1 DEF SetRelevant
<1>5. ASSUME EndFrame PROVE peer'.acked = peer.acked
  BY <1>5 DEF EndFrame, SendSnapshot
<1>6. ASSUME NEW over \in BOOLEAN, Simulate(over)
      PROVE  peer'.acked = peer.acked
  BY <1>6 DEF Simulate
<1> QED
  BY <1>1, <1>3, <1>4, <1>5, <1>6 DEF Games

LEMMA HeldReceives ==
  ASSUME Shape, FramesInv, HeldInv, HandleFull \/ \E m \in deltas : HandleDelta(m)
  PROVE  HeldInv'
<1>1. PICK m \in Snapshot : m.frame <= LastSent /\ HandleSnapshot(m)
  <2>1. CASE HandleFull
    <3>1. fulls \in Seq(Snapshot) /\ fulls # <<>> /\ HandleSnapshot(Head(fulls))
      BY <2>1 DEF HandleFull, Shape, TypeOK
    <3>2. 1 \in DOMAIN fulls /\ Head(fulls) = fulls[1]
          /\ Head(fulls) \in Snapshot
      <4> HIDE DEF Snapshot
      <4> QED
        BY <3>1
    <3>3. Head(fulls).frame <= LastSent
      BY <3>2 DEF FramesInv, FullOnWay
    <3> QED
      BY <3>1, <3>2, <3>3
  <2>2. ASSUME NEW m \in deltas, HandleDelta(m)
        PROVE  m \in Snapshot /\ m.frame <= LastSent /\ HandleSnapshot(m)
    BY <2>2 DEF HandleDelta, FramesInv, Shape, TypeOK
  <2> QED
    BY <2>1, <2>2
<1>2. UNCHANGED <<settings, frame, peer, inputs>>
  BY DEF HandleFull, HandleDelta, world
<1>3. /\ Held(latest)'
      /\ \A a \in Frame \cup {NoFrame} :
           Held(a) => (a # NoFrame =>
                         /\ a <= latest'
                         /\ InRing(a) => Has(received', a))
      /\ \A s \in Slots : received'[s].frame <= latest'
  BY <1>1, <1>2, HeldSnapshot
<1>4. ASSUME NEW a \in Frame \cup {NoFrame}, Held(a)
      PROVE  a # NoFrame =>
               /\ a <= latest'
               /\ a >= frame - settings.history =>
                    received'[a % settings.history].frame = a
  BY <1>3, <1>4 DEF InRing, Has, Slot
<1>5. /\ peer.acked \in Frame \cup {NoFrame}
      /\ \A m2 \in inputs : m2.ack \in Frame \cup {NoFrame}
      /\ Held(peer.acked) /\ \A m2 \in inputs : Held(m2.ack)
  BY DEF Shape, TypeOK, Peer, Inputs, HeldInv
<1>6. Held(peer.acked)'
  BY <1>2, <1>4, <1>5 DEF Held, Has, InRing, Slot
<1>7. ASSUME NEW m2 \in inputs' PROVE Held(m2.ack)'
  BY <1>2, <1>4, <1>5 DEF Held, Has, InRing, Slot
<1>8. (\A s \in Slots : received[s].frame <= latest)'
  BY <1>2, <1>3 DEF Slots
<1> QED
  BY <1>3, <1>6, <1>7, <1>8 DEF HeldInv

LEMMA HeldStep ==
  ASSUME Shape, FramesInv, HeldInv, [Next]_vars
  PROVE  HeldInv'
<1>1. CASE Games
  <2>1. peer'.acked = peer.acked
    BY <1>1, AckedStays
  <2>2. UNCHANGED <<settings, frame, received, latest, inputs>>
    <3>1. ASSUME NEW o \in Object, ServerRegister(o)
          PROVE  UNCHANGED <<settings, frame, received, latest, inputs>>
      BY <3>1 DEF ServerRegister, Disturbs, client, records
    <3>2. ASSUME NEW id \in NetId, ServerUnregister(id)
          PROVE  UNCHANGED <<settings, frame, received, latest, inputs>>
      BY ZenonT(20), <3>2 DEF ServerUnregister, Disturbs, client, records
    <3>3. ASSUME NEW id \in NetId, NEW wanted \in BOOLEAN,
                 SetRelevant(id, wanted)
          PROVE  UNCHANGED <<settings, frame, received, latest, inputs>>
      BY <3>3 DEF SetRelevant, Disturbs, client, records
    <3> QED
      BY <1>1, <3>1, <3>2, <3>3 DEF Games
  <2> QED
    BY <2>1, <2>2, HeldStays
<1>2. CASE EndFrame
  <2>1. peer'.acked = peer.acked
    BY <1>2, AckedStays
  <2> QED
    BY <1>2, <2>1, HeldStays DEF EndFrame, world, client, records
<1>3. CASE BetweenFrames
  <2>1. CASE Connect \/ Disconnect
    <3>1. NewPeer \in Peer /\ NewPeer.acked = NoFrame
      BY NothingTyped DEF NewPeer
    <3>3. ASSUME NEW S PROVE [NewPeer EXCEPT !.relevant = S].acked = NoFrame
      <4> HIDE DEF NewPeer
      <4> QED
        BY <3>1 DEF Peer
    <3>4. peer'.acked = NoFrame
      BY <2>1, <3>1, <3>3 DEF Connect, Disconnect
    <3>2. UNCHANGED <<settings, latest, received, frame>> /\ inputs' \subseteq inputs
      BY <2>1 DEF Connect, Disconnect, world, client, records, Disturbs
    <3> QED
      BY <3>2, <3>4, HeldStays
  <2>2. ASSUME NEW over \in BOOLEAN, Simulate(over) PROVE HeldInv'
    <3>1. peer'.acked = peer.acked
      BY <2>2, AckedStays
    <3> QED
      BY <2>2, <3>1, HeldStays DEF Simulate, world, client, records
  <2>3. ASSUME NEW m \in inputs, HandleInputs(m) PROVE HeldInv'
    <3>1. peer'.acked \in {peer.acked, m.ack}
      BY <2>3 DEF HandleInputs, Shape, TypeOK, Peer
    <3> QED
      BY <2>3, <3>1, HeldStays DEF HandleInputs, world, client, records
  <2>4. CASE \E o \in Object : ClientRegister(o) \/ ClientUnregister(o)
    BY <2>4, HeldStays
       DEF ClientRegister, ClientUnregister, client, records, net, Disturbs
  <2>5. CASE HandleControl
    BY <2>5, HeldStays DEF HandleControl, records, world
  <2>6. CASE SendInputs
    <3>1. \A m \in inputs' : m \in inputs \/ m.ack = latest
      BY <2>6 DEF SendInputs, Said
    <3> QED
      BY <2>6, <3>1, HeldStays DEF SendInputs, client, records, world
  <2>7. CASE HandleFull \/ \E m \in deltas : HandleDelta(m)
    BY <2>7, HeldReceives
  <2> QED
    BY <1>3, <2>1, <2>2, <2>3, <2>4, <2>5, <2>6, <2>7 DEF BetweenFrames
<1>4. CASE UNCHANGED vars
  BY <1>4, HeldStays DEF vars
<1> QED
  BY <1>1, <1>2, <1>3, <1>4 DEF Next

-----------------------------------------------------------------------------
(* A full snapshot the server builds on is the client's, or still on its   *)
(* way, and nothing that may arrive meanwhile makes it come too late: what *)
(* was sent after it is built on it, or on a later one.                    *)
OnWay(f) == \E i \in DOMAIN fulls : fulls[i].frame = f

FullKept(f) ==
  /\ f # NoFrame
  /\ f <= LastSent
  /\ Has(received, f) \/ OnWay(f)
  /\ latest >= f => Has(received, f)
  /\ pending.frame > f => latest >= f
  /\ \A d \in deltas : d.frame > f => d.base >= f
  /\ \A i \in DOMAIN fulls : fulls[i].frame <= f

FullInv == peer.recent /\ InRing(peer.lastFull) => FullKept(peer.lastFull)

LEMMA FullInit == Init => FullInv
BY DEF Init, FullInv, NewPeer

(* A delta that is taken after it: the client has the full snapshot.       *)
LEMMA DeltaAfterFull ==
  ASSUME Shape, FramesInv, HeldInv, NEW f \in Frame, InRing(f), FullKept(f),
         NEW m \in deltas, Taken(m), m.frame > f
  PROVE  /\ latest >= f
         /\ Has(received, f)
         /\ Slot(m.frame) # Slot(f)
<1>1. m \in Snapshot /\ m.frame \in Nat /\ m.frame <= LastSent /\ LastSent < frame
      /\ LastSent \in Int /\ m.base \in Int /\ frame \in Nat
  BY FrameTypes DEF Shape, TypeOK, FramesInv, LastSent
<1>2. m.base >= f /\ m.base # NoFrame /\ Has(received, m.base)
  BY FrameNat DEF FullKept, Taken, NoBase, NoFrame
<1>3. m.base \in Nat /\ f \in Nat
  BY <1>1, <1>2, FrameNat
<1>4. Slot(m.base) \in Slots /\ Slot(f) \in Slots
  BY <1>3, SlotFacts DEF Shape, TypeOK
<1>5. m.base <= latest
  BY <1>2, <1>4 DEF HeldInv, Has
<1>6. latest >= f
  BY <1>1, <1>2, <1>3, <1>5, FrameTypes
<1>7. Has(received, f)
  BY <1>6 DEF FullKept
<1>8. Slot(m.frame) # Slot(f)
  <2>1. settings.history \in Nat
    BY SlotFacts DEF Shape, TypeOK
  <2>2. m.frame - f < settings.history
    BY <1>1, <1>3, <2>1 DEF InRing
  <2>3. f < m.frame /\ Slot(f) = Slot(m.frame) => m.frame - f >= settings.history
    BY <1>1, <1>3, SlotFacts DEF Shape, TypeOK
  <2> QED
    BY <1>1, <1>3, <2>1, <2>2, <2>3
<1> QED
  BY <1>6, <1>7, <1>8

LEMMA FullDelta ==
  ASSUME Shape, FramesInv, HeldInv, NEW f \in Frame, InRing(f), FullKept(f),
         NEW m \in deltas, HandleDelta(m)
  PROVE  FullKept(f)'
<1>1. m \in Snapshot /\ m.frame \in Nat /\ m.frame <= LastSent /\ f \in Nat
      /\ latest \in Int /\ pending.frame \in Int
  BY FrameTypes, FrameNat DEF Shape, TypeOK, FramesInv
<1>2. UNCHANGED <<settings, frame, ticking, fulls>> /\ deltas' \subseteq deltas
      /\ HandleSnapshot(m)
  BY DEF HandleDelta, world
<1>3. /\ f # NoFrame
      /\ (f <= LastSent)'
      /\ (\A d \in deltas : d.frame > f => d.base >= f)'
      /\ (\A i \in DOMAIN fulls : fulls[i].frame <= f)'
  BY <1>2 DEF FullKept, LastSent
<1>4. Slot(f) \in Slots /\ Slot(m.frame) \in Slots
  BY <1>1, SlotFacts DEF Shape, TypeOK
<1>5. /\ Has(received, f) => latest >= f
      /\ OnWay(f) => m.frame # f
      /\ OnWay(f)' = OnWay(f)
      /\ Has(received, f)' <=> received'[Slot(f)].frame = f
      /\ Has(received, f) <=> received[Slot(f)].frame = f
  <2>1. Has(received, f) => latest >= f
    BY <1>1, <1>4 DEF HeldInv, Has
  <2>2. OnWay(f) => m.frame # f
    BY DEF OnWay, FramesInv, FullOnWay
  <2>3. OnWay(f)' = OnWay(f)
    BY <1>2 DEF OnWay
  <2>4. Has(received, f)' <=> received'[Slot(f)].frame = f
    BY <1>2, <1>3 DEF Has, Slot
  <2>5. Has(received, f) <=> received[Slot(f)].frame = f
    BY <1>3 DEF Has
  <2> QED
    BY <2>1, <2>2, <2>3, <2>4, <2>5
<1>6. CASE UNCHANGED <<received, pending, latest>>
  BY <1>2, <1>3, <1>5, <1>6 DEF FullKept
<1>7. CASE m.frame > latest /\ m.frame <= f
  <2>1. ~ Has(received, f) /\ OnWay(f) /\ m.frame < f
    BY <1>1, <1>5, <1>7 DEF FullKept
  <2>2. \/ latest' \in {latest, m.frame} /\ pending'.frame \in {NoFrame, m.frame}
        \/ UNCHANGED <<received, pending, latest>>
    BY <1>1, <1>2, SnapshotFrames DEF Shape
  <2>3. latest' < f /\ (pending'.frame > f => UNCHANGED <<received, pending, latest>>)
    BY <1>1, <1>7, <2>1, <2>2 DEF NoFrame
  <2> QED
    BY <1>3, <1>5, <1>6, <1>1, <2>1, <2>2, <2>3 DEF FullKept
<1>8. CASE Taken(m) /\ m.frame > f
  <2>1. latest >= f /\ Has(received, f) /\ Slot(m.frame) # Slot(f)
    BY <1>8, DeltaAfterFull
  <2>2. received'[Slot(f)].frame = f /\ latest' >= f
    BY <1>1, <1>2, <1>4, <1>5, <1>8, <2>1, SnapshotFrames DEF Shape
  <2> QED
    BY <1>3, <1>5, <2>2 DEF FullKept
<1>9. UNCHANGED <<received, pending, latest>> \/ Taken(m)
  BY <1>1, <1>2, SnapshotFrames DEF Shape
<1>10. Taken(m) => m.frame > latest
  BY DEF Taken
<1> QED
  BY <1>1, <1>6, <1>7, <1>8, <1>9, <1>10

(* The full snapshot itself is not dropped: nothing newer began before it. *)
LEMMA FullFull ==
  ASSUME Shape, FramesInv, HeldInv, NEW f \in Frame, InRing(f), FullKept(f),
         HandleFull
  PROVE  FullKept(f)'
<1> DEFINE m == Head(fulls)
<1>1. /\ fulls \in Seq(Snapshot) /\ fulls # <<>>
      /\ fulls' = Tail(fulls) /\ deltas' \subseteq deltas
      /\ HandleSnapshot(m)
      /\ UNCHANGED <<settings, frame, ticking>>
  BY DEF HandleFull, Shape, TypeOK, world
<1>2. /\ 1 \in DOMAIN fulls /\ m = fulls[1] /\ m \in Snapshot
      /\ \A i \in DOMAIN fulls' : i + 1 \in DOMAIN fulls /\ fulls'[i] = fulls[i + 1]
      /\ \A i \in DOMAIN fulls : i = 1 \/ (i - 1 \in DOMAIN fulls'
                                           /\ fulls'[i - 1] = fulls[i])
  <2> HIDE DEF Snapshot
  <2> QED
    BY <1>1
<1>3. FullOnWay(m) /\ m.frame <= LastSent /\ m.frame <= f
  BY <1>2 DEF FramesInv, FullKept, FullOnWay
<1> HIDE DEF m
<1>4. /\ f # NoFrame
      /\ (f <= LastSent)'
      /\ (\A d \in deltas : d.frame > f => d.base >= f)'
      /\ (\A i \in DOMAIN fulls : fulls[i].frame <= f)'
  BY <1>1, <1>2 DEF FullKept, LastSent
<1>5. m.frame \in Nat /\ f \in Nat /\ latest \in Int /\ pending.frame \in Int
  BY <1>2, FrameTypes, FrameNat
<1>6. Slot(f) \in Slots /\ Slot(m.frame) \in Slots
  BY <1>5, SlotFacts DEF Shape, TypeOK
<1>7. /\ Has(received, f) => latest >= f
      /\ OnWay(f) /\ m.frame # f => OnWay(f)'
      /\ Has(received, f)' <=> received'[Slot(f)].frame = f
      /\ Has(received, f) <=> received[Slot(f)].frame = f
  <2>1. Has(received, f) => latest >= f
    BY <1>5, <1>6 DEF HeldInv, Has
  <2>2. OnWay(f) /\ m.frame # f => OnWay(f)'
    BY <1>2 DEF OnWay
  <2>3. Has(received, f)' <=> received'[Slot(f)].frame = f
    BY <1>1, <1>4 DEF Has, Slot
  <2>4. Has(received, f) <=> received[Slot(f)].frame = f
    BY <1>4 DEF Has
  <2> QED
    BY <2>1, <2>2, <2>3, <2>4
<1>8. CASE UNCHANGED <<received, pending, latest>>
  <2>1. ASSUME m.frame = f PROVE Has(received, f)
    <3>1. ~ NoBase(m) /\ ~ OwnSlot(m) /\ m.frame # pending.frame
      BY <1>3 DEF FullOnWay, NoBase, OwnSlot
    <3>2. latest >= f \/ Taken(m)
      <4>1. CASE m.frame <= latest
        BY <2>1, <4>1, <1>5
      <4>2. CASE PassedBy(m)
        BY <2>1, <3>1, <4>2, <1>5 DEF PassedBy, FullKept
      <4> QED
        BY <3>1, <4>1, <4>2, <1>5 DEF Taken
    <3>3. ~ Taken(m)
      <4>1. Taken(m) => Complete(WithPart(m))
        BY <1>2, <1>3, FullCompletes DEF Shape
      <4>2. ASSUME Taken(m) PROVE latest' = m.frame
        <5>1. TakePart(m)
          BY <1>1, <1>5, <4>2 DEF Taken, HandleSnapshot
        <5> QED
          BY <1>2, <4>1, <4>2, <5>1, WithPartFacts
             DEF TakePart, Finish, Shape, TypeOK
      <4>3. Taken(m) => m.frame > latest
        BY DEF Taken
      <4> QED
        BY <1>5, <1>8, <4>2, <4>3
    <3> QED
      BY <3>2, <3>3 DEF FullKept
  <2> QED
    BY <1>1, <1>4, <1>7, <1>8, <2>1 DEF FullKept
<1>9. CASE Taken(m) /\ ~ UNCHANGED <<received, pending, latest>>
  <2>1. Complete(WithPart(m))
    BY <1>2, <1>3, FullCompletes DEF Shape
  <2>2. /\ m.frame > latest /\ pending'.frame = NoFrame /\ latest' = m.frame
        /\ \A s \in Slots : received'[s].frame =
             IF s = Slot(m.frame) THEN m.frame ELSE received[s].frame
    BY <1>1, <1>2, <1>9, <2>1, SnapshotFrames DEF Shape, Taken
  <2>3. CASE m.frame = f
    BY <1>4, <1>5, <1>6, <1>7, <2>2, <2>3 DEF FullKept, NoFrame
  <2>4. CASE m.frame < f
    BY <1>4, <1>5, <1>7, <2>2, <2>4 DEF FullKept, NoFrame
  <2> QED
    BY <1>3, <1>5, <2>3, <2>4
<1> QED
  BY <1>1, <1>2, <1>8, <1>9, SnapshotFrames DEF Shape

(* Only a full snapshot changes which full one counts; a delta that goes   *)
(* out while one does is built on it, or on a later one.                   *)
LEMMA FullStays ==
  ASSUME Shape, FullInv,
         peer'.recent => peer.recent /\ peer'.lastFull = peer.lastFull,
         UNCHANGED <<settings, received, latest, pending, fulls>>,
         \/ UNCHANGED <<frame, ticking>>
         \/ frame' = frame + 1 /\ ~ ticking /\ ticking' = TRUE,
         deltas' \subseteq deltas
  PROVE  FullInv'
<1> SUFFICES ASSUME peer'.recent, InRing(peer.lastFull)'
             PROVE  FullKept(peer.lastFull)'
  BY DEF FullInv
<1> DEFINE f == peer.lastFull
<1>1. peer'.lastFull = f /\ f \in Int /\ frame \in Nat /\ settings.history \in Nat
  BY FrameTypes, SlotFacts DEF Shape, TypeOK
<1>2. InRing(f) /\ peer.recent
  BY <1>1 DEF InRing
<1>3. FullKept(f)
  BY <1>2 DEF FullInv
<1>4. (LastSent)' = LastSent
  BY <1>1 DEF LastSent
<1> HIDE DEF f
<1> QED
  BY <1>1, <1>3, <1>4 DEF FullKept, Has, OnWay, Slot

LEMMA FullRecentStays ==
  ASSUME Shape,
         Games \/ \E over \in BOOLEAN : Simulate(over)
  PROVE  peer'.recent => peer.recent /\ peer'.lastFull = peer.lastFull
<1> USE DEF Shape, TypeOK, Peer
<1>1. ASSUME NEW o \in Object, ServerRegister(o)
      PROVE  peer'.recent = peer.recent /\ peer'.lastFull = peer.lastFull
  BY <1>1 DEF ServerRegister
<1>2. ASSUME NEW id \in NetId
      PROVE  /\ Forget(peer, id).recent = peer.recent
             /\ Forget(peer, id).lastFull = peer.lastFull
  BY DEF Forget
<1>3. ASSUME NEW id \in NetId, ServerUnregister(id)
      PROVE  peer'.recent = peer.recent /\ peer'.lastFull = peer.lastFull
  BY <1>2, <1>3 DEF ServerUnregister
<1>4. ASSUME NEW id \in NetId, NEW wanted \in BOOLEAN, SetRelevant(id, wanted)
      PROVE  peer'.recent = peer.recent /\ peer'.lastFull = peer.lastFull
  <2>1. LET p == [peer EXCEPT !.relevant = @ \cup {id}, !.since[id] = frame] IN
        p.recent = peer.recent /\ p.lastFull = peer.lastFull
    OBVIOUS
  <2> QED
    BY <1>2, <1>4, <2>1 DEF SetRelevant
<1>5. ASSUME NEW over \in BOOLEAN, Simulate(over)
      PROVE  peer'.recent => peer.recent /\ peer'.lastFull = peer.lastFull
  BY <1>5 DEF Simulate
<1> QED
  BY <1>1, <1>3, <1>4, <1>5 DEF Games

LEMMA Appended ==
  ASSUME NEW A, NEW s \in Seq(A), NEW t \in Seq(A)
  PROVE  /\ Len(s) \in Nat /\ DOMAIN s = 1 .. Len(s)
         /\ DOMAIN (s \o t) = 1 .. Len(s) + Len(t)
         /\ Len(t) > 0 => (s \o t)[Len(s) + 1] = t[1]
         /\ \A i \in DOMAIN s : (s \o t)[i] = s[i] /\ s[i] \in A
<1>1. Len(s) \in Nat /\ DOMAIN s = 1 .. Len(s) /\ Len(t) \in Nat
  OBVIOUS
<1>2. DOMAIN (s \o t) = 1 .. Len(s) + Len(t)
  OBVIOUS
<1>3. \A i \in 1 .. Len(s) + Len(t) :
        (s \o t)[i] = IF i <= Len(s) THEN s[i] ELSE t[i - Len(s)]
  OBVIOUS
<1>4. ASSUME Len(t) > 0 PROVE (s \o t)[Len(s) + 1] = t[1]
  <2>1. Len(s) + 1 \in 1 .. Len(s) + Len(t) /\ ~ Len(s) + 1 <= Len(s)
        /\ Len(s) + 1 - Len(s) = 1
    BY <1>1, <1>4
  <2> QED
    BY <1>3, <2>1
<1>5. ASSUME NEW i \in DOMAIN s PROVE (s \o t)[i] = s[i] /\ s[i] \in A
  BY <1>1, <1>3, <1>5
<1> QED
  BY <1>1, <1>2, <1>4, <1>5

LEMMA FullSends ==
  ASSUME Shape, FramesInv, ticking, ticking' = FALSE,
         NEW f \in Frame, f = frame - 1,
         DOMAIN fulls' = 1 .. Len(fulls) + 1,
         fulls'[Len(fulls) + 1].frame = f,
         \A i \in DOMAIN fulls : fulls'[i] = fulls[i],
         UNCHANGED <<settings, frame, received, latest, pending, deltas>>
  PROVE  FullKept(f)'
<1>1. /\ frame \in Nat /\ f \in Nat
      /\ LastSent = frame - 2 /\ (LastSent)' = frame - 1
      /\ latest \in Int /\ pending.frame \in Int
      /\ latest <= frame - 2 /\ pending.frame <= frame - 2
  BY FrameTypes, FrameNat DEF LastSent, FramesInv
<1>2. fulls \in Seq(Snapshot)
  BY DEF Shape, TypeOK
<1>3. /\ Len(fulls) \in Nat /\ DOMAIN fulls = 1 .. Len(fulls)
      /\ \A i \in DOMAIN fulls : fulls[i] \in Snapshot
  BY <1>2, Appended
<1>4. \A i \in DOMAIN fulls : fulls[i].frame <= frame - 2 /\ fulls[i].frame \in Int
  BY <1>1, <1>3, FrameTypes DEF FramesInv, FullOnWay
<1>5. \A d \in deltas : d.frame <= frame - 2 /\ d.frame \in Int
  BY <1>1, FrameTypes DEF FramesInv, Shape, TypeOK
<1>6. OnWay(f)'
  BY <1>3 DEF OnWay
<1>7. \A i \in DOMAIN fulls' : fulls'[i].frame <= f
  BY <1>1, <1>3, <1>4
<1>8. \A d \in deltas' : ~ d.frame > f
  BY <1>1, <1>5
<1>9. ~ latest' >= f /\ ~ pending'.frame > f
  BY <1>1
<1>10. f # NoFrame /\ f <= (LastSent)'
  BY <1>1 DEF NoFrame
<1> QED
  BY <1>6, <1>7, <1>8, <1>9, <1>10 DEF FullKept

LEMMA FullEndFrame ==
  ASSUME Shape, FramesInv, HistoryInv, HeldInv, FullInv, EndFrame
  PROVE  FullInv'
<1>1. /\ ticking /\ ticking' = FALSE
      /\ frame > 0 /\ frame \in Nat /\ settings.history \in Nat
      /\ LastSent = frame - 2 /\ (LastSent)' = frame - 1
      /\ UNCHANGED <<settings, frame, history, received, latest, pending>>
  BY FrameTypes, SlotFacts
     DEF EndFrame, Shape, TypeOK, world, client, records, LastSent
<1>2. latest \in Int /\ pending.frame \in Int
      /\ latest <= frame - 2 /\ pending.frame <= frame - 2
  BY <1>1, FrameTypes DEF FramesInv
<1>3. CASE UNCHANGED <<peer, fulls, deltas>>
  <2> SUFFICES ASSUME peer.recent, InRing(peer.lastFull)
               PROVE  FullKept(peer.lastFull)'
    BY <1>1, <1>3 DEF FullInv, InRing
  <2>1. FullKept(peer.lastFull)
    BY DEF FullInv
  <2>2. peer.lastFull \in Int
    BY FrameTypes
  <2> QED
    BY <1>1, <1>3, <2>1, <2>2 DEF FullKept, Has, OnWay, Slot
<1>4. ASSUME NEW cut \in NetId, SendSnapshot(frame - 1, Choice, cut)
      PROVE  FullInv'
  <2> DEFINE f == frame - 1
             parts == PartsOf(Choice, f, cut)
  <2>1. f \in Frame /\ f \in Nat
    BY <1>1, SnapshotsAssumption DEF Shape, TypeOK, Frame
  <2>2. /\ parts \in Seq(Snapshot)
        /\ Choice.full => Len(parts) = 1
        /\ \A i \in DOMAIN parts :
             parts[i].frame = f /\ parts[i].base = Choice.base
    BY <2>1, ChoiceType, PartsFacts DEF Shape, TypeOK
  <2>3. fulls \in Seq(Snapshot) /\ peer \in Peer
    BY DEF Shape, TypeOK
  <2>4. CASE Choice.full
    <3>1. fulls' = fulls \o parts /\ deltas' = deltas
          /\ peer'.lastFull = f
      BY <1>4, <2>3, <2>4 DEF SendSnapshot, Peer
    <3> HIDE DEF parts, f
    <3>2. /\ DOMAIN fulls' = 1 .. Len(fulls) + 1
          /\ fulls'[Len(fulls) + 1] = parts[1]
          /\ \A i \in DOMAIN fulls : fulls'[i] = fulls[i]
      <4>1. Len(parts) = 1
        BY <2>2, <2>4
      <4>2. parts \in Seq(Snapshot)
        BY <2>2
      <4>3. /\ DOMAIN (fulls \o parts) = 1 .. Len(fulls) + Len(parts)
            /\ Len(parts) > 0 => (fulls \o parts)[Len(fulls) + 1] = parts[1]
            /\ \A i \in DOMAIN fulls : (fulls \o parts)[i] = fulls[i]
        BY <2>3, <4>2, Appended
      <4> QED
        BY <3>1, <4>1, <4>3
    <3>3. parts[1].frame = f /\ f = frame - 1
      <4>1. 1 \in DOMAIN parts
        <5> HIDE DEF Snapshot
        <5> QED
          BY <2>2, <2>4
      <4> QED
        BY <2>2, <4>1 DEF f
    <3>4. ASSUME NEW g \in Frame, g = frame - 1 PROVE FullKept(g)'
      <4>1. fulls'[Len(fulls) + 1].frame = g
        BY <3>2, <3>3, <3>4
      <4> QED
        BY <1>1, <3>1, <3>2, <3>4, <4>1, FullSends
    <3>5. peer'.lastFull \in Frame /\ peer'.lastFull = frame - 1
      BY <2>1, <3>1, <3>3
    <3>6. PICK g \in Frame : g = peer'.lastFull /\ FullKept(g)'
      BY <3>4, <3>5
    <3>7. FullKept(peer.lastFull)'
      BY <3>6 DEF FullKept, Has, OnWay, Slot
    <3> QED
      BY <3>7 DEF FullInv
  <2>5. CASE ~ Choice.full
    <3>1. /\ fulls' = fulls
          /\ deltas' = deltas \cup {parts[i] : i \in DOMAIN parts}
          /\ peer'.lastFull = peer.lastFull /\ peer'.recent = peer.recent
      BY <1>4, <2>3, <2>5 DEF SendSnapshot, Peer
    <3> SUFFICES ASSUME peer.recent, InRing(peer.lastFull)
                 PROVE  FullKept(peer.lastFull)'
      BY <1>1, <3>1 DEF FullInv, InRing
    <3>2. FullKept(peer.lastFull)
      BY DEF FullInv
    <3>3. peer.lastFull \in Nat /\ peer.lastFull \in Int /\ peer.acked \in Int
      BY <3>2, FrameTypes, FrameNat DEF FullKept, Shape, TypeOK, Peer
    <3>4. Choice.base >= peer.lastFull
      <4>1. Has(history, peer.lastFull)
        <5>1. peer.lastFull < frame
          BY <1>1, <3>2, <3>3 DEF FullKept
        <5> QED
          BY <3>3, <5>1 DEF HistoryInv
      <4>2. Choice \in {Over(peer.acked), Over(peer.lastFull)}
            /\ (Choice = Over(peer.acked) =>
                  peer.lastFull <= peer.acked \/ Choice = Over(peer.lastFull))
        BY <4>1 DEF Choice
      <4> QED
        BY <3>3, <4>2 DEF Over
    <3> HIDE DEF parts, f
    <3>5. \A d \in deltas' : d.frame > peer.lastFull => d.base >= peer.lastFull
      BY <2>2, <3>1, <3>2, <3>4 DEF FullKept
    <3>6. peer.lastFull <= frame - 1
      BY <1>1, <3>2, <3>3 DEF FullKept
    <3> QED
      BY <1>1, <3>1, <3>2, <3>5, <3>6 DEF FullKept, Has, OnWay, Slot
  <2> QED
    BY <2>4, <2>5
<1> QED
  BY <1>3, <1>4 DEF EndFrame

LEMMA FullReceives ==
  ASSUME Shape, FramesInv, HeldInv, FullInv,
         HandleFull \/ \E m \in deltas : HandleDelta(m)
  PROVE  FullInv'
<1>1. UNCHANGED <<settings, frame, peer>>
  BY DEF HandleFull, HandleDelta, world
<1> SUFFICES ASSUME peer.recent, InRing(peer.lastFull)
             PROVE  FullKept(peer.lastFull)'
  BY <1>1 DEF FullInv, InRing
<1>2. FullKept(peer.lastFull)
  BY DEF FullInv
<1>3. peer.lastFull \in Frame
  BY <1>2 DEF FullKept, Shape, TypeOK, Peer
<1>4. FullKept(peer.lastFull)' <=> \A f \in {peer.lastFull} : FullKept(f)'
  BY <1>1 DEF FullKept, Has, OnWay, LastSent
<1> QED
  BY <1>2, <1>3, <1>4, FullDelta, FullFull

LEMMA FullStep ==
  ASSUME Shape, FramesInv, HistoryInv, HeldInv, FullInv, [Next]_vars
  PROVE  FullInv'
<1>1. CASE Games
  <2>1. peer'.recent => peer.recent /\ peer'.lastFull = peer.lastFull
    BY <1>1, FullRecentStays
  <2>2. UNCHANGED <<settings, received, latest, pending, fulls, frame, ticking,
                    deltas>>
    <3>1. ASSUME NEW o \in Object, ServerRegister(o)
          PROVE  UNCHANGED <<settings, received, latest, pending, fulls, frame,
                             ticking, deltas>>
      BY <3>1 DEF ServerRegister, Disturbs, client, records
    <3>2. ASSUME NEW id \in NetId, ServerUnregister(id)
          PROVE  UNCHANGED <<settings, received, latest, pending, fulls, frame,
                             ticking, deltas>>
      BY ZenonT(20), <3>2 DEF ServerUnregister, Disturbs, client, records
    <3>3. ASSUME NEW id \in NetId, NEW wanted \in BOOLEAN,
                 SetRelevant(id, wanted)
          PROVE  UNCHANGED <<settings, received, latest, pending, fulls, frame,
                             ticking, deltas>>
      BY <3>3 DEF SetRelevant, Disturbs, client, records
    <3> QED
      BY <1>1, <3>1, <3>2, <3>3 DEF Games
  <2> QED
    BY <2>1, <2>2, FullStays
<1>2. CASE EndFrame
  BY <1>2, FullEndFrame
<1>3. CASE ~ ticking /\ BetweenFrames
  <2>1. CASE Connect \/ Disconnect
    <3>1. NewPeer \in Peer /\ NewPeer.recent = FALSE
      BY NothingTyped DEF NewPeer
    <3>2. ASSUME NEW S PROVE [NewPeer EXCEPT !.relevant = S].recent = FALSE
      <4> HIDE DEF NewPeer
      <4> QED
        BY <3>1 DEF Peer
    <3>3. peer'.recent = FALSE
      BY <2>1, <3>1, <3>2 DEF Connect, Disconnect
    <3> QED
      BY <3>3 DEF FullInv
  <2>2. ASSUME NEW over \in BOOLEAN, Simulate(over) PROVE FullInv'
    <3>1. peer'.recent => peer.recent /\ peer'.lastFull = peer.lastFull
      BY <2>2, FullRecentStays
    <3>2. UNCHANGED <<settings, received, latest, pending, fulls>>
          /\ frame' = frame + 1 /\ ticking' = TRUE /\ deltas' \subseteq deltas
      BY <2>2 DEF Simulate, world, client, records
    <3> QED
      BY <1>3, <3>1, <3>2, FullStays
  <2>3. ASSUME NEW m \in inputs, HandleInputs(m) PROVE FullInv'
    <3>1. peer'.recent = peer.recent /\ peer'.lastFull = peer.lastFull
      BY <2>3 DEF HandleInputs, Shape, TypeOK, Peer
    <3> QED
      BY <2>3, <3>1, FullStays DEF HandleInputs, world, client, records
  <2>4. CASE \E o \in Object : ClientRegister(o) \/ ClientUnregister(o)
    BY <2>4, FullStays
       DEF ClientRegister, ClientUnregister, client, records, net, Disturbs
  <2>5. CASE HandleControl
    BY <2>5, FullStays DEF HandleControl, records, world
  <2>6. CASE SendInputs
    BY <2>6, FullStays DEF SendInputs, client, records, world
  <2>7. CASE HandleFull \/ \E m \in deltas : HandleDelta(m)
    BY <2>7, FullReceives
  <2> QED
    BY <1>3, <2>1, <2>2, <2>3, <2>4, <2>5, <2>6, <2>7 DEF BetweenFrames
<1>4. CASE UNCHANGED vars
  BY <1>4, FullStays DEF vars
<1> QED
  BY <1>1, <1>2, <1>3, <1>4 DEF Next

-----------------------------------------------------------------------------
StreamInv ==
  /\ Shape
  /\ FramesInv
  /\ HistoryInv
  /\ HeldInv
  /\ FullInv

LEMMA StreamAlways == Spec => []StreamInv
<1>1. Init => StreamInv
  BY InitShape, FramesInit, HistoryInit, HeldInit, FullInit DEF StreamInv
<1>2. StreamInv /\ [Next]_vars => StreamInv'
  BY StepShape, FramesStep, HistoryStep, HeldStep, FullStep DEF StreamInv
<1> QED
  BY <1>1, <1>2, PTL DEF Spec

(* The delta the server would send now is built on a snapshot the client   *)
(* has, or will have: what it acknowledged it keeps for as long as the     *)
(* server keeps its own record of that frame, though both are rings and    *)
(* acknowledgements are lost, late and reordered; and a full snapshot sent *)
(* since comes before whatever is built on it (server_send_snapshot,       *)
(* client_handle_snapshot).                                                *)
THEOREM BasesAreHeld == Spec => []BaseHeld
<1>1. StreamInv => BaseHeld
  <2> SUFFICES ASSUME StreamInv, Choice.base # NoFrame
               PROVE  \/ Has(received, Choice.base)
                      \/ \E i \in DOMAIN fulls : fulls[i].frame = Choice.base
    BY DEF BaseHeld
  <2>1. /\ Full.base = NoFrame /\ Nothing.base = NoFrame
        /\ \A f : Over(f).base = f
    BY DEF Full, Nothing, Over
  <2>2. \/ Choice.base = peer.acked /\ Has(history, peer.acked)
        \/ /\ Choice.base = peer.lastFull
           /\ Has(history, peer.lastFull) /\ peer.recent
    BY <2>1 DEF Choice
  <2>3. peer.acked \in Frame \cup {NoFrame} /\ peer.lastFull \in Frame \cup {NoFrame}
    BY DEF StreamInv, Shape, TypeOK, Peer
  <2>4. \A f \in Frame \cup {NoFrame} :
          Has(history, f) => f # NoFrame /\ InRing(f)
    BY FrameNat DEF Has, StreamInv, HistoryInv
  <2>5. CASE Choice.base = peer.acked /\ Has(history, peer.acked)
    BY <2>3, <2>4, <2>5 DEF StreamInv, HeldInv, Held
  <2>6. CASE /\ Choice.base = peer.lastFull
             /\ Has(history, peer.lastFull) /\ peer.recent
    BY <2>3, <2>4, <2>6 DEF StreamInv, FullInv, FullKept, OnWay
  <2> QED
    BY <2>2, <2>5, <2>6
<1> QED
  BY <1>1, StreamAlways, PTL

-----------------------------------------------------------------------------
(* What a record lacks, while its parts arrive as once it is complete: the *)
(* client knows it, or wants a full snapshot for another reason.           *)
LacksInv ==
  /\ NeverLacksSilently
  /\ \A id \in pending.carried \ DOMAIN pending.states :
       remote[id].bound => pending.missing \/ needsFull

LEMMA LacksInit == Init => LacksInv
BY DEF Init, LacksInv, NeverLacksSilently, NoPending

LEMMA LacksStays ==
  ASSUME LacksInv, UNCHANGED <<pending, lacks>>,
         needsFull => needsFull',
         \A id \in NetId : remote'[id].bound => remote[id].bound \/ needsFull',
         Shape
  PROVE  LacksInv'
<1>1. lacks \subseteq NetId /\ pending.carried \subseteq NetId
  BY DEF Shape, TypeOK, Pending
<1> QED
  BY <1>1 DEF LacksInv, NeverLacksSilently

LEMMA LacksSnapshot ==
  ASSUME Shape, LacksInv, NEW m \in Snapshot, HandleSnapshot(m),
         m.full => m.frame # pending.frame, UNCHANGED remote
  PROVE  LacksInv'
<1> DEFINE p == WithPart(m)
           s == Started(m)
           read == Read(m.entries, BaseOf(m))
<1>1. /\ p.missing = (s.missing \/ \E e \in m.entries : IsMissing(e, BaseOf(m)))
      /\ p.carried = s.carried \cup {e.id : e \in m.entries}
      /\ DOMAIN p.states = DOMAIN read \cup DOMAIN s.states
  BY WithPartFacts DEF Shape, TypeOK
<1>2. /\ pending.frame = m.frame => s = pending
      /\ pending.frame # m.frame => s.carried = {}
  BY StartedFacts DEF Shape, TypeOK
<1>3. /\ m.entries \in SUBSET Entry
      /\ BaseOf(m) \in States(State)
  BY BaseType DEF Shape, TypeOK, Snapshot
<1>4. DOMAIN read = {e.id : e \in {d \in m.entries : IsWritten(d, BaseOf(m))}}
  BY <1>3, ReadFacts
<1> HIDE DEF p, s, read
<1>5. ASSUME NEW id \in p.carried \ DOMAIN p.states, remote[id].bound
      PROVE  p.missing \/ (needsFull /\ pending.frame = m.frame)
  <2>1. CASE id \in s.carried
    <3>1. s = pending /\ pending.frame = m.frame /\ id \notin DOMAIN pending.states
      BY <1>1, <1>2, <1>5, <2>1
    <3> QED
      BY <1>1, <1>5, <2>1, <3>1 DEF LacksInv
  <2>2. ASSUME NEW e \in m.entries, e.id = id
        PROVE  p.missing
    <3>1. ~ IsWritten(e, BaseOf(m))
      BY <1>1, <1>4, <1>5, <2>2
    <3> QED
      BY <1>1, <1>5, <2>2, <3>1 DEF IsMissing
  <2> QED
    BY <1>1, <1>5, <2>1, <2>2
<1>6. CASE UNCHANGED client
  BY <1>6, LacksStays DEF client, records
<1>7. CASE needsFull' = TRUE /\ UNCHANGED records
  BY <1>7, LacksStays DEF records
<1>8. CASE Finish(p, m.full)
  <2>1. NoPending.carried = {} /\ pending' = NoPending
    BY <1>8 DEF Finish, NoPending
  <2>2. ASSUME NEW id \in lacks', remote[id].bound
        PROVE  needsFull'
    <3>1. p.missing \/ (needsFull /\ pending.frame = m.frame)
      BY <1>5, <1>8, <2>2 DEF Finish
    <3> QED
      BY <1>8, <3>1 DEF Finish
  <2> QED
    BY <2>1, <2>2 DEF LacksInv, NeverLacksSilently
<1>9. CASE Keep(p)
  <2>1. pending' = p /\ UNCHANGED <<needsFull, lacks>>
    BY <1>9 DEF Keep
  <2> QED
    BY <1>5, <2>1 DEF LacksInv, NeverLacksSilently
<1> QED
  BY <1>6, <1>7, <1>8, <1>9, SnapshotCases DEF p

LEMMA LacksControl ==
  ASSUME Shape, LacksInv, HandleControl
  PROVE  LacksInv'
<1> DEFINE m == Head(control)
<1>1. UNCHANGED <<pending, lacks>> /\ remote \in [NetId -> Remote]
  BY DEF HandleControl, records, Shape, TypeOK
<1>2. \/ HandleRegister(m)
      \/ HandleUnregister(m)
      \/ HandleRelevance(m)
  BY DEF HandleControl
<1> HIDE DEF m
<1>3. CASE HandleRegister(m)
  <2>1. \A id \in NetId : remote'[id].bound => remote[id].bound \/ needsFull'
    BY <1>1, <1>3 DEF HandleRegister
  <2>2. needsFull => needsFull'
    BY <1>3 DEF HandleRegister
  <2> QED
    BY <1>1, <2>1, <2>2, LacksStays
<1>4. CASE HandleUnregister(m)
  <2>1. \A id \in NetId : remote'[id].bound => remote[id].bound
    BY <1>1, <1>4 DEF HandleUnregister, NoRemote
  <2> QED
    BY <1>1, <1>4, <2>1, LacksStays DEF HandleUnregister
<1>5. CASE HandleRelevance(m)
  <2>1. \A id \in NetId : remote'[id].bound => remote[id].bound
    BY <1>1, <1>5 DEF HandleRelevance, Remote
  <2> QED
    BY <1>1, <1>5, <2>1, LacksStays DEF HandleRelevance
<1> QED
  BY <1>2, <1>3, <1>4, <1>5

LEMMA LacksStep ==
  ASSUME Shape, FramesInv, LacksInv, [Next]_vars
  PROVE  LacksInv'
<1>1. CASE Games
  <2>1. ASSUME NEW o \in Object, ServerRegister(o)
        PROVE  UNCHANGED <<pending, lacks, needsFull, remote>>
    BY <2>1 DEF ServerRegister, client, records
  <2>2. ASSUME NEW id \in NetId, ServerUnregister(id)
        PROVE  UNCHANGED <<pending, lacks, needsFull, remote>>
    BY ZenonT(20), <2>2 DEF ServerUnregister, client, records
  <2>3. ASSUME NEW id \in NetId, NEW wanted \in BOOLEAN,
               SetRelevant(id, wanted)
        PROVE  UNCHANGED <<pending, lacks, needsFull, remote>>
    BY <2>3 DEF SetRelevant, client, records
  <2>4. UNCHANGED <<pending, lacks, needsFull, remote>>
    BY <1>1, <2>1, <2>2, <2>3 DEF Games
  <2> QED
    BY <2>4, LacksStays
<1>2. CASE EndFrame
  BY <1>2, LacksStays DEF EndFrame, client, records
<1>3. CASE BetweenFrames
  <2>1. CASE Connect
    BY <2>1, LacksStays DEF Connect, client, records
  <2>2. CASE Disconnect
    BY <2>2, LacksStays DEF Disconnect, client, records, NoRemote
  <2>3. ASSUME NEW over \in BOOLEAN, Simulate(over) PROVE LacksInv'
    BY <2>3, LacksStays DEF Simulate, client, records
  <2>4. ASSUME NEW m \in inputs, HandleInputs(m) PROVE LacksInv'
    BY <2>4, LacksStays DEF HandleInputs, client, records
  <2>5. ASSUME NEW o \in Object, ClientRegister(o) PROVE LacksInv'
    <3>1. UNCHANGED <<pending, lacks>> /\ (needsFull => needsFull')
      BY <2>5 DEF ClientRegister, records
    <3>2. ASSUME NEW id \in NetId, remote'[id].bound
          PROVE  remote[id].bound \/ needsFull'
      BY <2>5, <3>2 DEF ClientRegister
    <3> QED
      BY <3>1, <3>2, LacksStays
  <2>6. ASSUME NEW o \in Object, ClientUnregister(o) PROVE LacksInv'
    <3>1. UNCHANGED <<pending, lacks, needsFull>>
      BY <2>6 DEF ClientUnregister, client, records
    <3>2. ASSUME NEW id \in NetId, remote'[id].bound
          PROVE  remote[id].bound
      <4>1. remote[id] \in Remote
        BY DEF Shape, TypeOK
      <4>2. [remote[id] EXCEPT !.bound = FALSE].bound = FALSE
        BY <4>1 DEF Remote
      <4> QED
        BY <2>6, <3>2, <4>2 DEF ClientUnregister
    <3> QED
      BY <3>1, <3>2, LacksStays
  <2>7. CASE HandleControl
    BY <2>7, LacksControl
  <2>8. CASE SendInputs
    BY <2>8, LacksStays DEF SendInputs, client, records
  <2>9. CASE HandleFull
    <3>1. fulls \in Seq(Snapshot) /\ fulls # <<>> /\ HandleSnapshot(Head(fulls))
          /\ UNCHANGED remote
      BY <2>9 DEF HandleFull, Shape, TypeOK
    <3>2. 1 \in DOMAIN fulls /\ Head(fulls) = fulls[1]
          /\ Head(fulls) \in Snapshot
      <4> HIDE DEF Snapshot
      <4> QED
        BY <3>1
    <3>3. Head(fulls).frame # pending.frame
      BY <3>2 DEF FramesInv, FullOnWay
    <3> QED
      BY <3>1, <3>2, <3>3, LacksSnapshot
  <2>10. ASSUME NEW m \in deltas, HandleDelta(m) PROVE LacksInv'
    <3>1. m \in Snapshot /\ ~ m.full
      BY DEF FramesInv, Shape, TypeOK
    <3> QED
      BY <2>10, <3>1, LacksSnapshot DEF HandleDelta
  <2> QED
    BY <1>3, <2>1, <2>2, <2>3, <2>4, <2>5, <2>6, <2>7, <2>8, <2>9, <2>10
       DEF BetweenFrames
<1>4. CASE UNCHANGED vars
  BY <1>4, LacksStays DEF vars
<1> QED
  BY <1>1, <1>2, <1>3, <1>4 DEF Next

(* A client never takes for complete a record that lacks a state the       *)
(* server sent of an object it has bound: it asks for a full snapshot, and *)
(* no part, no older snapshot and no object that comes or goes meanwhile   *)
(* takes the request back before a full one is decoded with nothing        *)
(* missing (client_handle_snapshot, client_finish_snapshot,                *)
(* client_handle_register).                                                *)
THEOREM LackIsTold == Spec => []NeverLacksSilently
<1>1. Init => Shape /\ FramesInv /\ LacksInv
  BY InitShape, FramesInit, LacksInit
<1>2. Shape /\ FramesInv /\ LacksInv /\ [Next]_vars
        => (Shape /\ FramesInv /\ LacksInv)'
  BY StepShape, FramesStep, LacksStep
<1>3. LacksInv => NeverLacksSilently
  BY DEF LacksInv
<1> QED
  BY <1>1, <1>2, <1>3, PTL DEF Spec

-----------------------------------------------------------------------------
(* A book of the net ids: the objects that have them now and when the      *)
(* others were released, as the server knows it; and, as nobody keeps it,  *)
(* which object had each id last ("who"), and in which frame it was first  *)
(* simulated ("born").  What follows is about what a book says.            *)
Book == [play : [Object -> [Frame -> State]], round : Nat \ {0, 1},
         live : [NetId -> Object \cup {NoObject}],
         released : [NetId -> Nat \cup {NoFrame}],
         who : [NetId -> Object \cup {NoObject}],
         born : [NetId -> Nat]]

Used(k, id) == k.live[id] # NoObject \/ k.released[id] # NoFrame
Gap(k) == k.round * 2

Sane(k, now) == \A id \in NetId :
  /\ k.live[id] # NoObject => k.who[id] = k.live[id]
  /\ Used(k, id) => k.who[id] \in Object
  /\ k.born[id] <= now
  /\ k.released[id] <= now

(* The state st the client keeps for an id at frame g is the one the last  *)
(* object with the id had then; or it is so old that it is of a former one.*)
KeptOK(k, id, g, st) ==
  /\ Used(k, id)
  /\ g < k.born[id] => g < k.born[id] - Gap(k)
  /\ g >= k.born[id] =>
       /\ st = k.play[k.who[id]][g]
       /\ k.live[id] = NoObject => g < k.released[id]

(* An entry of a snapshot of frame f over frame g: what it comes with, and *)
(* what it leaves to the base, is the object's; one of an object that came *)
(* after frame f comes with nothing.                                       *)
EntryOK(k, e, f, g) ==
  /\ Used(k, e.id)
  /\ k.born[e.id] <= f + 1
  /\ k.live[e.id] = NoObject => f < k.released[e.id]
  /\ f < k.born[e.id] => ~ e.changed
  /\ f >= k.born[e.id] => \A v \in Var :
       /\ v \in DOMAIN e.vars => e.vars[v] = k.play[k.who[e.id]][f][v]
       /\ v \notin DOMAIN e.vars =>
            /\ g >= k.born[e.id]
            /\ k.play[k.who[e.id]][g][v] = k.play[k.who[e.id]][f][v]

SentOK(k, now, m) ==
  /\ m.frame >= now - Gap(k)
  /\ m.frame < now
  /\ m.base # NoFrame => m.base < m.frame /\ m.base > m.frame - k.round
  /\ \A e \in m.entries : EntryOK(k, e, m.frame, m.base)

(* Message i of channel c, or what the client knows already (0), says that *)
(* object o has the id.  If that is over, it says so later.                *)
EndedBy(c, i, id, limit) ==
  \E j \in DOMAIN c :
    j > i /\ c[j].kind = "unregister" /\ c[j].id = id /\ c[j].at <= limit

ClaimOK(k, c, i, id, o) ==
  /\ o # k.who[id] => EndedBy(c, i, id, k.born[id] - Gap(k))
  /\ k.live[id] = NoObject => EndedBy(c, i, id, k.released[id])

(* What happens to an id in a step, and in its book: nothing, its object   *)
(* goes, or, out of quarantine, another one gets it.                       *)
Kept(k, k2, id) ==
  /\ k2.live[id] = k.live[id] /\ k2.released[id] = k.released[id]
  /\ k2.who[id] = k.who[id] /\ k2.born[id] = k.born[id]
Gone(k, k2, id, now) ==
  /\ k.live[id] # NoObject /\ k2.live[id] = NoObject
  /\ k2.released[id] = now
  /\ k2.who[id] = k.who[id] /\ k2.born[id] = k.born[id]
Given(k, k2, id, now) ==
  /\ k.live[id] = NoObject
  /\ k.released[id] = NoFrame \/ now - k.released[id] >= Gap(k)
  /\ k2.live[id] \in Object /\ k2.released[id] = NoFrame
  /\ k2.who[id] = k2.live[id] /\ k2.born[id] = now

Renamed(k, k2, now) ==
  /\ k2.play = k.play /\ k2.round = k.round
  /\ \A id \in NetId :
       Kept(k, k2, id) \/ Gone(k, k2, id, now) \/ Given(k, k2, id, now)

LEMMA BookTypes ==
  ASSUME NEW k \in Book
  PROVE  /\ k.round \in Nat /\ k.round > 1
         /\ Gap(k) \in Nat /\ Gap(k) = k.round + k.round
         /\ k.play \in [Object -> [Frame -> State]]
         /\ \A id \in NetId :
              /\ k.live[id] \in Object \cup {NoObject}
              /\ k.released[id] \in Int /\ k.released[id] >= NoFrame
              /\ k.born[id] \in Nat
<1>1. k.round \in Nat /\ k.round > 1
  <2>1. k.round \in Nat \ {0, 1}
    BY Zenon DEF Book
  <2> QED
    BY <2>1
<1>4. /\ k.play \in [Object -> [Frame -> State]]
      /\ k.live \in [NetId -> Object \cup {NoObject}]
      /\ k.released \in [NetId -> Nat \cup {NoFrame}]
      /\ k.born \in [NetId -> Nat]
  BY Zenon DEF Book
<1>2. Gap(k) \in Nat /\ Gap(k) = k.round + k.round
  BY <1>1 DEF Gap
<1>3. ASSUME NEW id \in NetId
      PROVE  k.released[id] \in Int /\ k.released[id] >= NoFrame
  <2>1. k.released[id] \in Nat \cup {NoFrame}
    BY <1>4
  <2> QED
    BY <2>1 DEF NoFrame
<1>5. ASSUME NEW id \in NetId
      PROVE  k.live[id] \in Object \cup {NoObject} /\ k.born[id] \in Nat
  BY <1>4
<1> QED
  BY <1>1, <1>2, <1>3, <1>4, <1>5, Zenon

LEMMA KeptStays ==
  ASSUME NEW k \in Book, NEW k2 \in Book, NEW now \in Nat, Sane(k, now),
         Renamed(k, k2, now), NEW id \in NetId, NEW g \in Int, g < now,
         NEW st, KeptOK(k, id, g, st)
  PROVE  KeptOK(k2, id, g, st)
<1>1. /\ k.live[id] \in Object \cup {NoObject} /\ NoObject \notin Object
      /\ k.released[id] \in Int /\ k.born[id] \in Int
      /\ k.born[id] <= now /\ k.released[id] <= now
      /\ Gap(k) \in Nat /\ NoFrame \in Int
  BY BookTypes, SnapshotsAssumption DEF Sane, NoFrame
<1>2. k2.play = k.play /\ Gap(k2) = Gap(k)
  BY DEF Renamed, Gap
<1>3. CASE Kept(k, k2, id)
  BY <1>2, <1>3 DEF Kept, KeptOK, Used
<1>4. CASE Gone(k, k2, id, now)
  <2>1. Used(k2, id)
    BY <1>4 DEF Gone, Used, NoFrame
  <2> QED
    BY <1>2, <1>4, <2>1 DEF Gone, KeptOK
<1>5. CASE Given(k, k2, id, now)
  <2>1. k2.live[id] # NoObject /\ k2.born[id] = now
    BY <1>1, <1>5 DEF Given
  <2>2. k.live[id] = NoObject /\ k.released[id] # NoFrame
    BY <1>5 DEF Given, KeptOK, Used
  <2>3. now - k.released[id] >= Gap(k)
    BY <1>5, <2>2 DEF Given
  <2>4. g < now - Gap(k)
    BY <1>1, <2>2, <2>3 DEF KeptOK
  <2> QED
    BY <1>2, <2>1, <2>4 DEF KeptOK, Used
<1> QED
  BY <1>3, <1>4, <1>5 DEF Renamed

LEMMA EntryStays ==
  ASSUME NEW k \in Book, NEW k2 \in Book, NEW now \in Nat, Sane(k, now),
         Renamed(k, k2, now), NEW e \in Entry, NEW f \in Nat, NEW g \in Int,
         f < now, f >= now - Gap(k), EntryOK(k, e, f, g)
  PROVE  EntryOK(k2, e, f, g)
<1> DEFINE id == e.id
<1>0. id \in NetId
  BY DEF Entry
<1>1. /\ k.live[id] \in Object \cup {NoObject} /\ NoObject \notin Object
      /\ k.released[id] \in Int /\ k.born[id] \in Int
      /\ k.born[id] <= now /\ k.released[id] <= now
      /\ Gap(k) \in Nat /\ NoFrame \in Int
  BY <1>0, BookTypes, SnapshotsAssumption DEF Sane, NoFrame
<1>2. k2.play = k.play
  BY DEF Renamed
<1>3. CASE Kept(k, k2, id)
  BY <1>2, <1>3 DEF Kept, EntryOK, Used
<1>4. CASE Gone(k, k2, id, now)
  <2>1. Used(k2, id)
    BY <1>4 DEF Gone, Used, NoFrame
  <2> QED
    BY <1>2, <1>4, <2>1 DEF Gone, EntryOK
<1>5. CASE Given(k, k2, id, now)
  <2>1. k.live[id] = NoObject /\ k.released[id] # NoFrame
    BY <1>5 DEF Given, EntryOK, Used
  <2>2. now - k.released[id] >= Gap(k) /\ f < k.released[id]
    BY <1>5, <2>1 DEF Given, EntryOK
  <2> QED
    BY <1>1, <2>2
<1> QED
  BY <1>0, <1>3, <1>4, <1>5 DEF Renamed

LEMMA SentStays ==
  ASSUME NEW k \in Book, NEW k2 \in Book, NEW now \in Nat, Sane(k, now),
         Renamed(k, k2, now), NEW m \in Snapshot, SentOK(k, now, m)
  PROVE  SentOK(k2, now, m)
<1>1. /\ m.frame \in Nat /\ m.base \in Int /\ m.entries \in SUBSET Entry
  BY FrameNat, FrameOrNone DEF Snapshot
<1>2. Gap(k2) = Gap(k) /\ k2.round = k.round
  BY DEF Renamed, Gap
<1>3. \A e \in m.entries : EntryOK(k2, e, m.frame, m.base)
  BY <1>1, EntryStays DEF SentOK
<1> QED
  BY <1>2, <1>3 DEF SentOK

-----------------------------------------------------------------------------
(* What the server says later does not take back that an object is gone.   *)
LEMMA EndedLonger ==
  ASSUME NEW c \in Seq(Control), NEW msgs \in Seq(Control), NEW i \in Int,
         NEW id, NEW limit \in Int, NEW more \in Int, limit <= more,
         EndedBy(c, i, id, limit)
  PROVE  EndedBy(c \o msgs, i, id, more)
<1>1. PICK j \in DOMAIN c :
        j > i /\ c[j].kind = "unregister" /\ c[j].id = id /\ c[j].at <= limit
  BY DEF EndedBy
<1>2. /\ j \in DOMAIN (c \o msgs) /\ (c \o msgs)[j] = c[j]
      /\ c[j] \in Control
  <2> HIDE DEF Control
  <2> QED
    OBVIOUS
<1>3. c[j].at \in Int
  BY <1>2 DEF Control
<1> QED
  BY <1>1, <1>2, <1>3 DEF EndedBy

LEMMA ClaimLonger ==
  ASSUME NEW k \in Book, NEW k2 \in Book, NEW now \in Nat, Sane(k, now),
         Renamed(k, k2, now), NEW c \in Seq(Control), NEW msgs \in Seq(Control),
         NEW id \in NetId, NEW o, NEW i \in 0 .. Len(c), ClaimOK(k, c, i, id, o),
         Gone(k, k2, id, now) => EndedBy(c \o msgs, i, id, now)
  PROVE  ClaimOK(k2, c \o msgs, i, id, o)
<1>1. /\ k.live[id] \in Object \cup {NoObject} /\ NoObject \notin Object
      /\ k.released[id] \in Int /\ k.born[id] \in Int
      /\ k.born[id] <= now /\ k.released[id] <= now
      /\ Gap(k) \in Nat /\ k.born[id] - Gap(k) \in Int
      /\ now - Gap(k) \in Int /\ i \in Int
  BY BookTypes, SnapshotsAssumption DEF Sane
<1>2. Gap(k2) = Gap(k)
  BY DEF Renamed, Gap
<1>3. CASE Kept(k, k2, id)
  BY <1>1, <1>2, <1>3, EndedLonger DEF Kept, ClaimOK
<1>4. CASE Gone(k, k2, id, now)
  BY <1>1, <1>2, <1>4, EndedLonger DEF Gone, ClaimOK
<1>5. CASE Given(k, k2, id, now)
  <2>1. k2.live[id] # NoObject /\ k2.born[id] = now
    BY <1>1, <1>5 DEF Given
  <2>2. EndedBy(c, i, id, k.released[id])
    BY <1>5 DEF Given, ClaimOK
  <2>3. k.released[id] # NoFrame
    <3>1. PICK j \in DOMAIN c :
            c[j].kind = "unregister" /\ c[j].at <= k.released[id]
      BY <2>2 DEF EndedBy
    <3>2. c[j] \in Control
      OBVIOUS
    <3>3. c[j].at \in Nat
      BY <3>2 DEF Control
    <3> QED
      BY <1>1, <3>1, <3>3 DEF NoFrame
  <2>4. k.released[id] <= now - Gap(k)
    BY <1>1, <1>5, <2>3 DEF Given
  <2>5. EndedBy(c \o msgs, i, id, now - Gap(k))
    BY <1>1, <2>2, <2>4, EndedLonger
  <2> QED
    BY <1>2, <2>1, <2>5 DEF ClaimOK
<1> QED
  BY <1>3, <1>4, <1>5 DEF Renamed

(* The client takes the first message: the others are one place further.   *)
LEMMA EndedTail ==
  ASSUME NEW c \in Seq(Control), c # <<>>, NEW i \in Nat, NEW id, NEW limit,
         \/ EndedBy(c, i + 1, id, limit)
         \/ /\ i = 0 /\ EndedBy(c, 0, id, limit)
            /\ ~ (Head(c).kind = "unregister" /\ Head(c).id = id)
  PROVE  EndedBy(Tail(c), i, id, limit)
<1>1. PICK j \in DOMAIN c :
        /\ j > i + 1 \/ (i = 0 /\ j > 0
                         /\ ~ (Head(c).kind = "unregister" /\ Head(c).id = id))
        /\ c[j].kind = "unregister" /\ c[j].id = id /\ c[j].at <= limit
  BY DEF EndedBy
<1>2. /\ DOMAIN c = 1 .. Len(c) /\ Len(c) \in Nat /\ Head(c) = c[1]
      /\ DOMAIN Tail(c) = 1 .. (Len(c) - 1)
      /\ \A n \in 1 .. (Len(c) - 1) : Tail(c)[n] = c[n + 1]
  <2> HIDE DEF Control
  <2> QED
    OBVIOUS
<1>3. j > i + 1
  BY <1>1, <1>2
<1>4. j - 1 \in DOMAIN Tail(c) /\ Tail(c)[j - 1] = c[j] /\ j - 1 > i
  BY <1>2, <1>3
<1> QED
  BY <1>1, <1>4 DEF EndedBy

LEMMA ClaimTail ==
  ASSUME NEW k, NEW c \in Seq(Control), c # <<>>, NEW i \in Nat, NEW id, NEW o,
         \/ ClaimOK(k, c, i + 1, id, o)
         \/ /\ i = 0 /\ ClaimOK(k, c, 0, id, o)
            /\ ~ (Head(c).kind = "unregister" /\ Head(c).id = id)
  PROVE  ClaimOK(k, Tail(c), i, id, o)
  BY EndedTail DEF ClaimOK

LEMMA SaneStays ==
  ASSUME NEW k \in Book, NEW k2 \in Book, NEW now \in Nat, Sane(k, now),
         Renamed(k, k2, now)
  PROVE  Sane(k2, now)
<1>1. ASSUME NEW id \in NetId
      PROVE  /\ k2.live[id] # NoObject => k2.who[id] = k2.live[id]
             /\ Used(k2, id) => k2.who[id] \in Object
             /\ k2.born[id] <= now
             /\ k2.released[id] <= now
  <2>1. CASE Kept(k, k2, id)
    BY <2>1 DEF Kept, Sane, Used
  <2>2. CASE Gone(k, k2, id, now)
    BY <2>2 DEF Gone, Sane, Used
  <2>3. CASE Given(k, k2, id, now)
    BY <2>3 DEF Given, NoFrame
  <2> QED
    BY <2>1, <2>2, <2>3 DEF Renamed
<1> QED
  BY <1>1 DEF Sane

LEMMA RenamedKept ==
  ASSUME NEW k, NEW now
  PROVE  Renamed(k, k, now)
  BY DEF Renamed, Kept

-----------------------------------------------------------------------------
(* What the server and its client keep, and what is on its way, by a book. *)
Named(k) ==
  /\ k \in Book /\ Sane(k, frame)
  /\ k.play = play /\ k.round = settings.history
  /\ k.live = live /\ k.released = released

PastOK(k, f, st) ==
  /\ DOMAIN st = {id \in NetId : k.live[id] # NoObject /\ k.born[id] <= f}
  /\ \A id \in DOMAIN st : st[id] = k.play[k.live[id]][f]

Past(k) ==
  \A f \in Nat : Has(history, f) => PastOK(k, f, history[Slot(f)].states)

Flying(k) ==
  /\ \A m \in deltas : SentOK(k, frame, m)
  /\ \A i \in DOMAIN fulls : SentOK(k, frame, fulls[i])

Claims(k) ==
  /\ \A id \in NetId :
       /\ remote[id].object # NoObject =>
            ClaimOK(k, control, 0, id, remote[id].object)
       /\ remote[id].bound => remote[id].object # NoObject
  /\ \A i \in DOMAIN control :
       /\ control[i].at >= frame - Gap(k)
       /\ control[i].kind = "register" =>
            ClaimOK(k, control, i, control[i].id, control[i].object)
  /\ ~ linked => control = <<>> /\ \A id \in NetId : remote[id] = NoRemote

RecordOK(k, f, st) == \A id \in DOMAIN st : KeptOK(k, id, f, st[id])

Records(k) ==
  /\ \A s \in Slots : RecordOK(k, received[s].frame, received[s].states)
  /\ RecordOK(k, pending.frame, pending.states)

Explains(k) ==
  /\ Named(k)
  /\ Past(k)
  /\ Flying(k)
  /\ Claims(k)
  /\ Records(k)
  /\ peer.relevant \subseteq Live

FaithInv == \E k \in Book : Explains(k)

LEMMA FaithInit == Init => FaithInv
<1> SUFFICES ASSUME Init PROVE FaithInv
  OBVIOUS
<1> DEFINE k == [play |-> play, round |-> settings.history, live |-> live,
                 released |-> released, who |-> live,
                 born |-> [id \in NetId |-> 0]]
<1>1. /\ settings \in Settings /\ play \in Plays /\ frame = 0
      /\ live \in [NetId -> Object \cup {NoObject}]
      /\ released = [id \in NetId |-> NoFrame]
      /\ linked = FALSE /\ peer.relevant = {}
      /\ control = <<>> /\ fulls = <<>> /\ deltas = {}
      /\ remote = [id \in NetId |-> NoRemote]
      /\ received = [s \in Slots |-> NoRecord]
      /\ pending = NoPending
  BY DEF Init, NewPeer
<1>2. /\ settings.history \in Nat \ {0, 1}
      /\ play \in [Object -> [Frame -> State]]
  <2>1. settings.history \in Nat /\ settings.history > 1
    BY <1>1, SlotFacts
  <2>2. Plays \subseteq [Object -> [Frame -> State]]
    BY SnapshotsAssumption
  <2> QED
    BY <1>1, <2>1, <2>2
<1>3. k \in Book
  <2>1. /\ released \in [NetId -> Nat \cup {NoFrame}]
        /\ [id \in NetId |-> 0] \in [NetId -> Nat]
    BY <1>1
  <2> QED
    BY <1>1, <1>2, <2>1, Zenon DEF Book
<1>4. /\ k.play = play /\ k.round = settings.history
      /\ k.live = live /\ k.released = released /\ k.who = live
      /\ \A id \in NetId : k.born[id] = 0
  OBVIOUS
<1> HIDE DEF k
<1>5. Named(k)
  <2>1. \A id \in NetId : released[id] = NoFrame
    BY <1>1
  <2>2. Sane(k, frame)
    BY <1>1, <1>4, <2>1 DEF Sane, Used, NoFrame
  <2> QED
    BY <1>3, <1>4, <2>2 DEF Named
<1>6. Past(k)
  <2>1. ASSUME NEW f \in Nat PROVE ~ Has(history, f)
    BY <1>1, HistoryInit DEF HistoryInv
  <2> QED
    BY <2>1 DEF Past
<1>7. Flying(k) /\ Claims(k)
  BY <1>1 DEF Flying, Claims, NoRemote
<1>8. Records(k)
  <2>1. DOMAIN NoStates = {}
    BY NothingTyped
  <2>2. NoPending.states = NoStates /\ \A s \in Slots : received[s].states = NoStates
    BY <1>1 DEF NoPending, NoRecord
  <2> QED
    BY <1>1, <2>1, <2>2 DEF Records, RecordOK
<1> QED
  BY <1>1, <1>3, <1>5, <1>6, <1>7, <1>8 DEF Explains, FaithInv

(* Each part of it stays, unless what it is about changes.                 *)
LEMMA PartsStay ==
  ASSUME NEW k \in Book, Explains(k), UNCHANGED settings
  PROVE  /\ UNCHANGED <<play, frame, live, released>> => Named(k)'
         /\ UNCHANGED history => Past(k)'
         /\ UNCHANGED <<frame, deltas, fulls>> => Flying(k)'
         /\ UNCHANGED <<frame, control, remote, linked>> => Claims(k)'
         /\ UNCHANGED <<received, pending>> => Records(k)'
         /\ UNCHANGED <<live, peer>> => (peer.relevant \subseteq Live)'
<1>1. UNCHANGED <<play, frame, live, released>> => Named(k)'
  BY DEF Explains, Named
<1>2. UNCHANGED history => Past(k)'
  BY DEF Explains, Past, Has, Slot
<1>3. UNCHANGED <<frame, deltas, fulls>> => Flying(k)'
  BY DEF Explains, Flying
<1>4. UNCHANGED <<frame, control, remote, linked>> => Claims(k)'
  BY DEF Explains, Claims
<1>5. UNCHANGED <<received, pending>> => Records(k)'
  BY DEF Explains, Records, Slots
<1>6. UNCHANGED <<live, peer>> => (peer.relevant \subseteq Live)'
  BY DEF Explains, Live
<1> QED
  BY <1>1, <1>2, <1>3, <1>4, <1>5, <1>6

(* What is kept and what is on its way is of frames that were simulated.   *)
LEMMA PastFrames ==
  ASSUME StreamInv
  PROVE  /\ frame \in Nat
         /\ \A s \in Slots : received[s].frame \in Int /\ received[s].frame < frame
         /\ pending.frame \in Int /\ pending.frame < frame
<1>1. /\ frame \in Nat /\ ticking \in BOOLEAN /\ latest \in Int
      /\ pending.frame \in Int
      /\ latest <= LastSent /\ pending.frame <= LastSent
  BY FrameTypes DEF StreamInv, FramesInv
<1>2. LastSent < frame /\ LastSent \in Int
  BY <1>1 DEF LastSent
<1>3. ASSUME NEW s \in Slots
      PROVE  received[s].frame \in Int /\ received[s].frame < frame
  <2>1. received[s].frame \in Frame \cup {NoFrame}
    BY DEF StreamInv, Shape, TypeOK, Record
  <2>2. received[s].frame <= latest
    BY DEF StreamInv, HeldInv
  <2> QED
    BY <1>1, <1>2, <2>1, <2>2, FrameOrNone
<1> QED
  BY <1>1, <1>2, <1>3

(* A step that changes who has an id, and nothing of the stream.           *)
LEMMA NamesStep ==
  ASSUME StreamInv, NEW k \in Book, Explains(k), NEW k2 \in Book,
         Renamed(k, k2, frame), k2.live = live', k2.released = released',
         UNCHANGED <<settings, play, frame, deltas, fulls, received, pending>>
  PROVE  Named(k2)' /\ Flying(k2)' /\ Records(k2)'
<1>1. /\ frame \in Nat /\ Sane(k, frame)
      /\ k.play = play /\ k.round = settings.history
  BY PastFrames DEF Explains, Named
<1>2. Named(k2)'
  <2>1. Sane(k2, frame)
    BY <1>1, SaneStays
  <2> QED
    BY <1>1, <2>1 DEF Named, Renamed
<1>3. Flying(k2)'
  <2>1. deltas \subseteq Snapshot /\ fulls \in Seq(Snapshot)
    BY DEF StreamInv, Shape, TypeOK
  <2>2. \A i \in DOMAIN fulls : fulls[i] \in Snapshot
    <3> HIDE DEF Snapshot
    <3> QED
      BY <2>1
  <2> QED
    BY <1>1, <2>1, <2>2, SentStays DEF Explains, Flying
<1>4. Records(k2)'
  <2>1. ASSUME NEW f \in Int, f < frame, NEW st, RecordOK(k, f, st),
               DOMAIN st \subseteq NetId
        PROVE  RecordOK(k2, f, st)
    BY <1>1, <2>1, KeptStays DEF RecordOK
  <2>2. /\ \A s \in Slots : DOMAIN received[s].states \subseteq NetId
        /\ DOMAIN pending.states \subseteq NetId
    <3>1. /\ \A s \in Slots : received[s].states \in States(State)
          /\ pending.states \in States(State)
      BY DEF StreamInv, Shape, TypeOK, Record, Pending
    <3> QED
      BY <3>1, StatesElim
  <2>3. Slots' = Slots
    BY DEF Slots
  <2> QED
    BY <2>1, <2>2, <2>3, PastFrames DEF Explains, Records
<1> QED
  BY <1>2, <1>3, <1>4

(* A step in which the server says more.                                   *)
LEMMA ClaimsStep ==
  ASSUME StreamInv, NEW k \in Book, Explains(k), NEW k2 \in Book,
         Renamed(k, k2, frame), UNCHANGED <<settings, frame, remote, linked>>,
         NEW msgs \in Seq(Control), Tell(msgs),
         \A i \in DOMAIN msgs :
           /\ msgs[i].at = frame
           /\ msgs[i].kind = "register" =>
                /\ k2.live[msgs[i].id] # NoObject
                /\ msgs[i].object = k2.who[msgs[i].id],
         \A id \in NetId : Gone(k, k2, id, frame) =>
           \E i \in DOMAIN msgs : msgs[i].kind = "unregister" /\ msgs[i].id = id
  PROVE  Claims(k2)'
<1>1. CASE ~ linked
  <2>1. control' = control /\ control = <<>>
        /\ \A id \in NetId : remote[id] = NoRemote
    BY <1>1 DEF Tell, Explains, Claims
  <2>2. NoRemote.object = NoObject /\ NoRemote.bound = FALSE
    BY DEF NoRemote
  <2>3. DOMAIN control = {} /\ \A id \in NetId : remote'[id] = NoRemote
    BY <2>1
  <2> HIDE DEF NoRemote, NoObject
  <2> QED
    BY <2>1, <2>2, <2>3 DEF Claims
<1>2. CASE linked
  <2> DEFINE c == control
             c2 == control \o msgs
  <2>1. control' = c2
    BY <1>2 DEF Tell
  <2>2. /\ c \in Seq(Control) /\ frame \in Nat /\ Sane(k, frame)
        /\ Gap(k2) = Gap(k) /\ Gap(k) \in Nat
        /\ remote \in [NetId -> Remote]
    BY PastFrames, BookTypes
       DEF Explains, Named, StreamInv, Shape, TypeOK, Renamed, Gap
  <2>3. /\ Len(c) \in Nat /\ DOMAIN c = 1 .. Len(c)
        /\ DOMAIN c2 = 1 .. (Len(c) + Len(msgs))
        /\ DOMAIN msgs = 1 .. Len(msgs) /\ Len(msgs) \in Nat
        /\ \A i \in DOMAIN c : c2[i] = c[i] /\ c[i] \in Control
        /\ \A i \in DOMAIN c2 : i > Len(c) =>
             i - Len(c) \in DOMAIN msgs /\ c2[i] = msgs[i - Len(c)]
        /\ \A i \in DOMAIN msgs : Len(c) + i \in DOMAIN c2
             /\ c2[Len(c) + i] = msgs[i]
    <3> HIDE DEF Control
    <3> QED
      BY <2>2
  <2> HIDE DEF c, c2
  <2>4. ASSUME NEW i \in 0 .. Len(c), NEW id \in NetId, NEW o,
               ClaimOK(k, c, i, id, o)
        PROVE  ClaimOK(k2, c2, i, id, o)
    <3>1. Gone(k, k2, id, frame) => EndedBy(c2, i, id, frame)
      <4>1. SUFFICES ASSUME Gone(k, k2, id, frame)
                     PROVE  EndedBy(c2, i, id, frame)
        OBVIOUS
      <4>2. PICK j \in DOMAIN msgs : msgs[j].kind = "unregister" /\ msgs[j].id = id
        BY <4>1
      <4>3. Len(c) + j \in DOMAIN c2 /\ c2[Len(c) + j] = msgs[j]
            /\ Len(c) + j > i /\ msgs[j].at <= frame
        BY <2>2, <2>3
      <4> QED
        BY <4>2, <4>3 DEF EndedBy
    <3> QED
      BY <2>2, <2>4, <3>1, ClaimLonger DEF c, c2
  <2>5. ASSUME NEW id \in NetId
        PROVE  /\ remote[id].object # NoObject =>
                    ClaimOK(k2, c2, 0, id, remote[id].object)
               /\ remote[id].bound => remote[id].object # NoObject
    BY <2>2, <2>3, <2>4 DEF Explains, Claims, c
  <2>6. ASSUME NEW i \in DOMAIN c2
        PROVE  /\ c2[i].at >= frame - Gap(k)
               /\ c2[i].kind = "register" =>
                    ClaimOK(k2, c2, i, c2[i].id, c2[i].object)
    <3>1. CASE i \in DOMAIN c
      <4>1. c2[i] = c[i] /\ c[i].id \in NetId /\ i \in 0 .. Len(c)
        BY <2>3, <3>1 DEF Control
      <4> QED
        BY <2>4, <3>1, <4>1 DEF Explains, Claims, c
    <3>2. CASE i \notin DOMAIN c
      <4>1. i > Len(c) /\ i - Len(c) \in DOMAIN msgs
            /\ c2[i] = msgs[i - Len(c)]
        BY <2>3, <3>2
      <4> QED
        BY <2>2, <4>1 DEF ClaimOK
    <3> QED
      BY <3>1, <3>2
  <2> QED
    BY <1>2, <2>1, <2>2, <2>5, <2>6 DEF Claims, c2
<1> QED
  BY <1>1, <1>2

(* A message of the control channel, and a few of them.                    *)
LEMMA AnnounceSays ==
  ASSUME NEW id \in NetId, NEW o \in Object, NEW r, NEW i \in DOMAIN Announce(id, o, r)
  PROVE  LET m == Announce(id, o, r)[i] IN
         /\ m.at = frame /\ m.id = id
         /\ m.kind # "unregister"
         /\ m.kind = "register" => m.object = o
<1>1. CASE r
  <2>1. Announce(id, o, r) = <<RegisterMsg(id, o, frame)>> /\ i = 1
    BY <1>1 DEF Announce
  <2> QED
    BY <2>1 DEF RegisterMsg
<1>2. CASE ~ r
  <2>1. Announce(id, o, r)
          = <<RegisterMsg(id, o, frame), RelevanceMsg(id, FALSE, frame)>>
    BY <1>2 DEF Announce
  <2>2. i \in {1, 2}
    BY <2>1
  <2> QED
    BY <2>1, <2>2 DEF RegisterMsg, RelevanceMsg
<1> QED
  BY <1>1, <1>2

LEMMA RegisterFaith ==
  ASSUME StreamInv, NEW k \in Book, Explains(k), NEW o \in Object,
         ServerRegister(o)
  PROVE  FaithInv'
<1>1. PICK id \in NetId, wanted \in BOOLEAN :
        LET relevant == wanted \/ o \in Controlled IN
        /\ Free(id)
        /\ live' = [live EXCEPT ![id] = o]
        /\ released' = [released EXCEPT ![id] = NoFrame]
        /\ Tell(Announce(id, o, relevant))
        /\ peer' = IF linked /\ relevant
                   THEN [peer EXCEPT !.relevant = @ \cup {id}] ELSE peer
  BY DEF ServerRegister
<1>2. UNCHANGED <<settings, play, frame, history, linked, remote, deltas, fulls,
                  received, pending>>
  BY DEF ServerRegister, Disturbs, client, records
<1>3. /\ frame \in Nat /\ Sane(k, frame)
      /\ k.play = play /\ k.round = settings.history
      /\ k.live = live /\ k.released = released
  BY PastFrames DEF Explains, Named
<1>4. /\ live' \in [NetId -> Object \cup {NoObject}]
      /\ released' \in [NetId -> Nat \cup {NoFrame}]
      /\ o # NoObject
  BY <1>1, SnapshotsAssumption DEF StreamInv, Shape, TypeOK
<1> DEFINE who == [k.who EXCEPT ![id] = o]
           born == [k.born EXCEPT ![id] = frame]
           book == [play |-> k.play, round |-> k.round, live |-> live',
                    released |-> released', who |-> who, born |-> born]
<1>5. /\ who \in [NetId -> Object \cup {NoObject}] /\ who[id] = o
      /\ born \in [NetId -> Nat] /\ born[id] = frame
      /\ \A i \in NetId \ {id} : who[i] = k.who[i] /\ born[i] = k.born[i]
  <2>1. k.who \in [NetId -> Object \cup {NoObject}] /\ k.born \in [NetId -> Nat]
    BY Zenon DEF Book
  <2> QED
    BY <1>3, <2>1
<1> HIDE DEF who, born
<1>6. book \in Book
  <2>1. k.play \in [Object -> [Frame -> State]] /\ k.round \in Nat \ {0, 1}
    BY Zenon DEF Book
  <2> QED
    BY <1>4, <1>5, <2>1, Zenon DEF Book
<1>7. PICK k2 \in Book :
        /\ k2.play = k.play /\ k2.round = k.round
        /\ k2.live = live' /\ k2.released = released'
        /\ k2.who = who /\ k2.born = born
  BY <1>6
<1> HIDE DEF book
<1>8. /\ live'[id] = o /\ released'[id] = NoFrame /\ live[id] = NoObject
      /\ \A i \in NetId \ {id} : live'[i] = live[i] /\ released'[i] = released[i]
  BY <1>1 DEF Free, StreamInv, Shape, TypeOK
<1>9. Renamed(k, k2, frame)
  <2>1. Given(k, k2, id, frame)
    BY <1>1, <1>3, <1>5, <1>7, <1>8 DEF Given, Free, Quarantine, Gap
  <2>2. \A i \in NetId \ {id} : Kept(k, k2, i)
    BY <1>3, <1>5, <1>7, <1>8 DEF Kept
  <2> QED
    BY <1>7, <2>1, <2>2 DEF Renamed
<1>10. Named(k2)' /\ Flying(k2)' /\ Records(k2)'
  BY <1>2, <1>6, <1>7, <1>9, NamesStep
<1>11. Claims(k2)'
  <2> DEFINE msgs == Announce(id, o, wanted \/ o \in Controlled)
  <2>1. msgs \in Seq(Control)
    BY <1>3, AnnounceType
  <2>2. ASSUME NEW i \in DOMAIN msgs
        PROVE  /\ msgs[i].at = frame
               /\ msgs[i].kind = "register" =>
                    /\ k2.live[msgs[i].id] # NoObject
                    /\ msgs[i].object = k2.who[msgs[i].id]
    BY <1>4, <1>5, <1>7, <1>8, AnnounceSays
  <2>3. \A i \in NetId : ~ Gone(k, k2, i, frame)
    BY <1>3, <1>4, <1>7, <1>8 DEF Gone
  <2>4. Tell(msgs)
    BY <1>1
  <2> HIDE DEF msgs
  <2> QED
    BY <1>2, <1>6, <1>9, <2>1, <2>2, <2>3, <2>4, ClaimsStep
<1>12. Past(k2)'
  <2>1. ASSUME NEW f \in Nat, Has(history, f)
        PROVE  PastOK(k2, f, history[Slot(f)].states)
    <3> DEFINE st == history[Slot(f)].states
    <3>1. f < frame /\ PastOK(k, f, st)
      BY <2>1 DEF StreamInv, HistoryInv, Explains, Past
    <3> HIDE DEF st
    <3>2. \A i \in NetId :
            (k2.live[i] # NoObject /\ k2.born[i] <= f)
              <=> (k.live[i] # NoObject /\ k.born[i] <= f)
      BY <1>3, <1>5, <1>7, <1>8, <3>1
    <3>3. \A i \in DOMAIN st : k2.live[i] = k.live[i]
      BY <1>3, <1>7, <1>8, <3>1 DEF PastOK
    <3> QED
      BY <1>7, <3>1, <3>2, <3>3 DEF PastOK, st
  <2>2. \A f : Slot(f)' = Slot(f) /\ Has(history, f)' = Has(history, f)
    BY <1>2 DEF Has, Slot
  <2> QED
    BY <1>2, <2>1, <2>2 DEF Past
<1>13. (peer.relevant \subseteq Live)'
  <2>1. peer'.relevant \subseteq peer.relevant \cup {id}
    BY <1>1 DEF StreamInv, Shape, TypeOK, Peer
  <2>2. Live \subseteq Live' /\ id \in Live'
    BY <1>4, <1>8 DEF Live
  <2> QED
    BY <2>1, <2>2 DEF Explains
<1> QED
  BY <1>6, <1>10, <1>11, <1>12, <1>13 DEF Explains, FaithInv

LEMMA UnregisterFaith ==
  ASSUME StreamInv, NEW k \in Book, Explains(k), NEW id \in NetId,
         ServerUnregister(id)
  PROVE  FaithInv'
<1>1. /\ id \in Live
      /\ live' = [live EXCEPT ![id] = NoObject]
      /\ released' = [released EXCEPT ![id] = frame]
      /\ history' = [s \in DOMAIN history |->
           [history[s] EXCEPT !.states = Without(@, id)]]
      /\ peer' = Forget(peer, id)
      /\ Tell(<<UnregisterMsg(id, frame)>>)
  BY DEF ServerUnregister
<1>2. UNCHANGED <<settings, play, frame, linked, remote, deltas, fulls,
                  received, pending>>
  BY DEF ServerUnregister, Disturbs, client, records
<1>3. /\ frame \in Nat /\ Sane(k, frame)
      /\ k.play = play /\ k.round = settings.history
      /\ k.live = live /\ k.released = released
  BY PastFrames DEF Explains, Named
<1>4. /\ live' \in [NetId -> Object \cup {NoObject}]
      /\ released' \in [NetId -> Nat \cup {NoFrame}]
      /\ live'[id] = NoObject /\ released'[id] = frame /\ live[id] # NoObject
      /\ \A i \in NetId \ {id} : live'[i] = live[i] /\ released'[i] = released[i]
  BY <1>1, <1>3 DEF StreamInv, Shape, TypeOK, Live
<1> DEFINE book == [play |-> k.play, round |-> k.round, live |-> live',
                    released |-> released', who |-> k.who, born |-> k.born]
<1>5. book \in Book
  <2>1. /\ k.play \in [Object -> [Frame -> State]] /\ k.round \in Nat \ {0, 1}
        /\ k.who \in [NetId -> Object \cup {NoObject}] /\ k.born \in [NetId -> Nat]
    BY Zenon DEF Book
  <2> QED
    BY <1>4, <2>1, Zenon DEF Book
<1>6. PICK k2 \in Book :
        /\ k2.play = k.play /\ k2.round = k.round
        /\ k2.live = live' /\ k2.released = released'
        /\ k2.who = k.who /\ k2.born = k.born
  BY <1>5
<1> HIDE DEF book
<1>7. Renamed(k, k2, frame)
  <2>1. Gone(k, k2, id, frame)
    BY <1>3, <1>4, <1>6 DEF Gone
  <2>2. \A i \in NetId \ {id} : Kept(k, k2, i)
    BY <1>3, <1>4, <1>6 DEF Kept
  <2> QED
    BY <1>6, <2>1, <2>2 DEF Renamed
<1>8. Named(k2)' /\ Flying(k2)' /\ Records(k2)'
  BY <1>2, <1>6, <1>7, NamesStep
<1>9. Claims(k2)'
  <2> DEFINE m == UnregisterMsg(id, frame)
             msgs == <<m>>
  <2>1. m \in Control /\ m.at = frame /\ m.kind = "unregister" /\ m.id = id
    BY <1>3 DEF UnregisterMsg, Control
  <2> HIDE DEF m
  <2>2. msgs \in Seq(Control) /\ DOMAIN msgs = {1} /\ msgs[1] = m
    <3> HIDE DEF Control
    <3> QED
      BY <2>1
  <2>3. \A i \in DOMAIN msgs :
          /\ msgs[i].at = frame
          /\ msgs[i].kind = "register" =>
               /\ k2.live[msgs[i].id] # NoObject
               /\ msgs[i].object = k2.who[msgs[i].id]
    BY <2>1, <2>2
  <2>4. \A i \in NetId : Gone(k, k2, i, frame) =>
          \E n \in DOMAIN msgs : msgs[n].kind = "unregister" /\ msgs[n].id = i
    <3>1. \A i \in NetId : Gone(k, k2, i, frame) => i = id
      BY <1>3, <1>4, <1>6 DEF Gone
    <3> QED
      BY <2>1, <2>2, <3>1
  <2>5. Tell(msgs)
    BY <1>1 DEF m
  <2> HIDE DEF msgs
  <2> QED
    BY <1>2, <1>6, <1>7, <2>2, <2>3, <2>4, <2>5, ClaimsStep
<1>10. Past(k2)'
  <2>1. \A f : Slot(f)' = Slot(f)
    BY <1>2 DEF Slot
  <2>2. ASSUME NEW f \in Nat, Has(history', f)
        PROVE  PastOK(k2, f, history'[Slot(f)].states)
    <3> DEFINE st == history[Slot(f)].states
    <3>1. Slot(f) \in Slots /\ DOMAIN history = Slots
          /\ history[Slot(f)] \in Record
      BY SlotFacts DEF StreamInv, Shape, TypeOK
    <3>2. /\ history'[Slot(f)].frame = history[Slot(f)].frame
          /\ history'[Slot(f)].states = Without(st, id)
      BY <1>1, <3>1 DEF Record
    <3>3. PastOK(k, f, st)
      BY <2>2, <3>2 DEF Has, Explains, Past
    <3> HIDE DEF st
    <3>4. /\ DOMAIN Without(st, id) = DOMAIN st \ {id}
          /\ \A i \in DOMAIN st \ {id} : Without(st, id)[i] = st[i]
      BY DEF Without
    <3>5. \A i \in NetId : k2.live[i] # NoObject
                             <=> k.live[i] # NoObject /\ i # id
      BY <1>3, <1>4, <1>6
    <3>6. \A i \in DOMAIN st \ {id} : k2.live[i] = k.live[i]
      BY <1>3, <1>4, <1>6, <3>3 DEF PastOK
    <3> QED
      BY <1>6, <3>2, <3>3, <3>4, <3>5, <3>6 DEF PastOK
  <2>3. \A f : Has(history, f)' <=> Has(history', f)
    BY <2>1 DEF Has
  <2> QED
    BY <2>1, <2>2, <2>3 DEF Past
<1>11. (peer.relevant \subseteq Live)'
  <2>1. peer'.relevant = peer.relevant \ {id}
    BY <1>1 DEF Forget, StreamInv, Shape, TypeOK, Peer
  <2>2. Live' = Live \ {id}
    BY <1>4 DEF Live
  <2> QED
    BY <2>1, <2>2 DEF Explains
<1> QED
  BY <1>6, <1>8, <1>9, <1>10, <1>11 DEF Explains, FaithInv

LEMMA SetRelevantFaith ==
  ASSUME StreamInv, NEW k \in Book, Explains(k), NEW id \in NetId,
         NEW wanted \in BOOLEAN, SetRelevant(id, wanted)
  PROVE  FaithInv'
<1> DEFINE r == wanted \/ live[id] \in Controlled
           m == RelevanceMsg(id, r, frame)
           msgs == <<m>>
<1>1. /\ id \in Live
      /\ peer' = IF r THEN [peer EXCEPT !.relevant = @ \cup {id},
                                        !.since[id] = frame]
                 ELSE Forget(peer, id)
      /\ Tell(msgs)
      /\ UNCHANGED <<settings, play, frame, live, released, history, linked,
                     remote, deltas, fulls, received, pending>>
  BY DEF SetRelevant, Disturbs, client, records, objects
<1>2. m \in Control /\ m.at = frame /\ m.kind = "relevance"
  <2>1. frame \in Nat /\ r \in BOOLEAN
    BY PastFrames
  <2> QED
    BY <2>1 DEF RelevanceMsg, Control
<1> HIDE DEF m
<1>3. msgs \in Seq(Control) /\ DOMAIN msgs = {1} /\ msgs[1] = m
  <2> HIDE DEF Control
  <2> QED
    BY <1>2
<1> HIDE DEF msgs
<1>4. Claims(k)'
  <2>1. \A i \in NetId : ~ Gone(k, k, i, frame)
    BY DEF Gone
  <2> QED
    BY <1>1, <1>2, <1>3, <2>1, RenamedKept, ClaimsStep
<1>5. (peer.relevant \subseteq Live)'
  <2>1. peer'.relevant \subseteq peer.relevant \cup {id}
    BY <1>1 DEF Forget, StreamInv, Shape, TypeOK, Peer
  <2>2. Live' = Live
    BY <1>1 DEF Live
  <2> QED
    BY <1>1, <2>1, <2>2 DEF Explains
<1>6. Named(k)' /\ Past(k)' /\ Flying(k)' /\ Records(k)'
  BY <1>1, PartsStay
<1> QED
  BY <1>4, <1>5, <1>6 DEF Explains, FaithInv

(* The answer to a client's hello: every object with its id, and nothing   *)
(* else.                                                                   *)
LEMMA ConnectTells ==
  ASSUME Shape, Connect
  PROVE  \A i \in DOMAIN control' :
           /\ control'[i].at = frame
           /\ control'[i].kind = "register" =>
                /\ control'[i].id \in Live
                /\ control'[i].object = live[control'[i].id]
<1>1. PICK ids \in [1 .. Cardinality(Live) -> Live], wanted \in SUBSET Live :
        LET relevant == {id \in Live : id \in wanted \/ live[id] \in Controlled} IN
        control' = FlattenSeq([i \in DOMAIN ids |->
             Announce(ids[i], live[ids[i]], ids[i] \in relevant)])
  BY DEF Connect
<1> DEFINE relevant == {id \in Live : id \in wanted \/ live[id] \in Controlled}
           told == [i \in DOMAIN ids |->
                      Announce(ids[i], live[ids[i]], ids[i] \in relevant)]
           S == {m \in Control : m.at = frame /\ (m.kind = "register" =>
                   m.id \in Live /\ m.object = live[m.id])}
<1>2. frame \in Nat
  BY FrameTypes
<1>3. ASSUME NEW i \in DOMAIN ids
      PROVE  told[i] \in Seq(S)
  <2> DEFINE a == Announce(ids[i], live[ids[i]], ids[i] \in relevant)
  <2>1. ids[i] \in Live /\ ids[i] \in NetId /\ live[ids[i]] \in Object
    BY DEF Live, Shape, TypeOK
  <2>2. a \in Seq(Control)
    BY <1>2, <2>1, AnnounceType
  <2>3. \A j \in DOMAIN a : /\ a[j].at = frame /\ a[j].id = ids[i]
                            /\ a[j].kind = "register" =>
                                 a[j].object = live[ids[i]]
    BY <2>1, AnnounceSays
  <2> HIDE DEF a, Live, Control
  <2>4. \A j \in DOMAIN a : a[j] \in S
    <3>1. \A j \in DOMAIN a : a[j] \in Control
      BY <2>2
    <3> QED
      BY <2>1, <2>3, <3>1
  <2> HIDE DEF S
  <2>5. a \in Seq(S)
    BY <2>2, <2>4
  <2> QED
    BY <2>5 DEF a
<1>4. told \in Seq(Seq(S))
  <2>1. Cardinality(Live) \in Nat
    <3>1. IsFiniteSet(NetId)
      BY SnapshotsAssumption, FS_Interval DEF NetId
    <3>2. Live \subseteq NetId
      BY DEF Live
    <3> QED
      BY <3>1, <3>2, FS_Subset, FS_CardinalityType
  <2>2. DOMAIN ids = 1 .. Cardinality(Live)
    OBVIOUS
  <2> HIDE DEF Live, S
  <2>3. told = [i \in 1 .. Cardinality(Live) |-> told[i]]
    BY <2>2
  <2> HIDE DEF told
  <2>4. told \in [1 .. Cardinality(Live) -> Seq(S)]
    BY <1>3, <2>2, <2>3
  <2> QED
    BY <2>1, <2>4
<1>5. control' \in Seq(S)
  <2> HIDE DEF told, S
  <2> QED
    BY <1>1, <1>4, FlattenType DEF told
<1>6. \A i \in DOMAIN control' : control'[i] \in S
  <2> HIDE DEF S
  <2> QED
    BY <1>5
<1> QED
  BY <1>6

LEMMA ConnectFaith ==
  ASSUME StreamInv, NEW k \in Book, Explains(k), Connect
  PROVE  FaithInv'
<1>1. /\ ~ linked /\ linked'
      /\ UNCHANGED <<settings, play, frame, live, released, history, remote,
                     deltas, fulls, received, pending>>
  BY DEF Connect, world, objects, client, records
<1>2. /\ frame \in Nat /\ Sane(k, frame) /\ k.live = live
      /\ Gap(k) \in Nat
  BY PastFrames, BookTypes DEF Explains, Named
<1>3. Claims(k)'
  <2>1. \A id \in NetId : remote'[id] = NoRemote
    BY <1>1 DEF Explains, Claims
  <2>2. NoRemote.object = NoObject /\ NoRemote.bound = FALSE
    BY DEF NoRemote
  <2>3. ASSUME NEW i \in DOMAIN control'
        PROVE  /\ control'[i].at >= frame - Gap(k)
               /\ control'[i].kind = "register" =>
                    ClaimOK(k, control', i, control'[i].id, control'[i].object)
    <3>1. /\ control'[i].at = frame
          /\ control'[i].kind = "register" =>
               /\ control'[i].id \in Live
               /\ control'[i].object = live[control'[i].id]
      BY ConnectTells DEF StreamInv
    <3> QED
      BY <1>2, <3>1 DEF ClaimOK, Live, Sane
  <2> HIDE DEF NoRemote, NoObject
  <2> QED
    BY <1>1, <2>1, <2>2, <2>3 DEF Claims
<1>4. (peer.relevant \subseteq Live)'
  <2>1. PICK R \in SUBSET Live : peer' = [NewPeer EXCEPT !.relevant = R]
    BY DEF Connect
  <2>2. peer'.relevant = R
    BY <2>1 DEF NewPeer
  <2>3. Live' = Live
    BY <1>1 DEF Live
  <2> QED
    BY <2>2, <2>3
<1>5. Named(k)' /\ Past(k)' /\ Flying(k)' /\ Records(k)'
  BY <1>1, PartsStay
<1> QED
  BY <1>3, <1>4, <1>5 DEF Explains, FaithInv

LEMMA DisconnectFaith ==
  ASSUME StreamInv, NEW k \in Book, Explains(k), Disconnect
  PROVE  FaithInv'
<1>1. /\ ~ linked' /\ control' = <<>> /\ fulls' = <<>> /\ deltas' = {}
      /\ remote' = [id \in NetId |-> NoRemote] /\ peer' = NewPeer
      /\ UNCHANGED <<settings, play, frame, live, released, history,
                     received, pending>>
  BY DEF Disconnect, Disturbs, objects, client, records
<1>2. Claims(k)'
  <2>1. NoRemote.object = NoObject /\ NoRemote.bound = FALSE
    BY DEF NoRemote
  <2>2. DOMAIN control' = {} /\ \A id \in NetId : remote'[id] = NoRemote
    BY <1>1
  <2> HIDE DEF NoRemote, NoObject
  <2> QED
    BY <1>1, <2>1, <2>2 DEF Claims
<1>3. Flying(k)'
  BY <1>1 DEF Flying
<1>4. (peer.relevant \subseteq Live)'
  BY <1>1 DEF NewPeer
<1>5. Named(k)' /\ Past(k)' /\ Records(k)'
  BY <1>1, PartsStay
<1> QED
  BY <1>2, <1>3, <1>4, <1>5 DEF Explains, FaithInv

LEMMA ClientFaith ==
  ASSUME StreamInv, NEW k \in Book, Explains(k), NEW o \in Object,
         ClientRegister(o) \/ ClientUnregister(o)
  PROVE  FaithInv'
<1>1. UNCHANGED <<settings, play, frame, live, released, history, linked, peer,
                  control, deltas, fulls, received, pending>>
  <2>1. CASE ClientRegister(o)
    BY <2>1 DEF ClientRegister, Disturbs, objects, records, net
  <2>2. CASE ClientUnregister(o)
    BY <2>2 DEF ClientUnregister, Disturbs, objects, client, records, net
  <2> QED
    BY <2>1, <2>2
<1>2. ASSUME NEW id \in NetId
      PROVE  /\ remote'[id].object = remote[id].object
             /\ remote'[id].bound => remote[id].bound \/ remote[id].object = o
             /\ remote[id] = NoRemote => remote'[id] = NoRemote
  <2>1. remote[id] \in Remote
    BY DEF StreamInv, Shape, TypeOK
  <2>2. \A b \in BOOLEAN :
          /\ [remote[id] EXCEPT !.bound = b].object = remote[id].object
          /\ [remote[id] EXCEPT !.bound = b].bound = b
    BY <2>1 DEF Remote
  <2>3. NoRemote.object # o
    BY SnapshotsAssumption DEF NoRemote
  <2> HIDE DEF Remote, NoRemote, NoObject
  <2>4. CASE ClientRegister(o)
    <3>1. remote'[id] = IF remote[id].object = o
                        THEN [remote[id] EXCEPT !.bound = TRUE] ELSE remote[id]
      BY <2>4 DEF ClientRegister
    <3> QED
      BY <2>2, <2>3, <3>1
  <2>5. CASE ClientUnregister(o)
    <3>1. remote'[id] = IF remote[id].object = o
                        THEN [remote[id] EXCEPT !.bound = FALSE] ELSE remote[id]
      BY <2>5 DEF ClientUnregister
    <3> QED
      BY <2>2, <2>3, <3>1
  <2> QED
    BY <2>4, <2>5
<1>3. Claims(k)'
  <2>1. o # NoObject
    BY SnapshotsAssumption
  <2> HIDE DEF NoRemote, NoObject
  <2>2. \A id \in NetId :
          /\ remote'[id].object # NoObject =>
               ClaimOK(k, control', 0, id, remote'[id].object)
          /\ remote'[id].bound => remote'[id].object # NoObject
    BY <1>1, <1>2, <2>1 DEF Explains, Claims
  <2>3. ~ linked' => control' = <<>> /\ \A id \in NetId : remote'[id] = NoRemote
    BY <1>1, <1>2 DEF Explains, Claims
  <2>4. \A i \in DOMAIN control' :
          /\ control'[i].at >= frame' - Gap(k)
          /\ control'[i].kind = "register" =>
               ClaimOK(k, control', i, control'[i].id, control'[i].object)
    BY <1>1 DEF Explains, Claims
  <2> QED
    BY <2>2, <2>3, <2>4 DEF Claims
<1>4. /\ Named(k)' /\ Past(k)' /\ Flying(k)' /\ Records(k)'
      /\ (peer.relevant \subseteq Live)'
  BY <1>1, PartsStay
<1> QED
  BY <1>3, <1>4 DEF Explains, FaithInv

(* The client takes a message of the server: what it knows of the other    *)
(* ids is still to be ended, or not, by a message behind it.               *)
LEMMA HandleControlFaith ==
  ASSUME StreamInv, NEW k \in Book, Explains(k), HandleControl
  PROVE  FaithInv'
<1> DEFINE m == Head(control)
<1>1. /\ control # <<>> /\ control' = Tail(control)
      /\ HandleRegister(m) \/ HandleUnregister(m) \/ HandleRelevance(m)
      /\ UNCHANGED <<settings, play, frame, live, released, history, linked,
                     peer, deltas, fulls, received, pending>>
  BY DEF HandleControl, world, objects, records
<1>2. control \in Seq(Control) /\ remote \in [NetId -> Remote]
  BY DEF StreamInv, Shape, TypeOK
<1>3. /\ m = control[1] /\ 1 \in DOMAIN control /\ m \in Control
      /\ \A i \in DOMAIN control' : /\ i \in Nat /\ i + 1 \in DOMAIN control
                                    /\ control'[i] = control[i + 1]
  <2> HIDE DEF Control
  <2> QED
    BY <1>1, <1>2
<1>4. ASSUME NEW i \in DOMAIN control'
      PROVE  /\ control'[i].at >= frame' - Gap(k)
             /\ control'[i].kind = "register" =>
                  ClaimOK(k, control', i, control'[i].id, control'[i].object)
  <2>1. /\ i \in Nat /\ i + 1 \in DOMAIN control /\ control'[i] = control[i + 1]
    BY <1>3
  <2>2. /\ control[i + 1].at >= frame - Gap(k)
        /\ control[i + 1].kind = "register" =>
             ClaimOK(k, control, i + 1, control[i + 1].id, control[i + 1].object)
    BY <2>1 DEF Explains, Claims
  <2> QED
    BY <1>1, <1>2, <2>1, <2>2, ClaimTail
<1>5. ASSUME NEW id \in NetId, NEW o, ClaimOK(k, control, 0, id, o),
             ~ (m.kind = "unregister" /\ m.id = id)
      PROVE  ClaimOK(k, control', 0, id, o)
  BY <1>1, <1>2, <1>5, ClaimTail
<1>6. ASSUME NEW id \in NetId
      PROVE  /\ remote'[id].object # NoObject =>
                  ClaimOK(k, control', 0, id, remote'[id].object)
             /\ remote'[id].bound => remote'[id].object # NoObject
  <2>1. /\ remote[id].object # NoObject =>
             ClaimOK(k, control, 0, id, remote[id].object)
        /\ remote[id].bound => remote[id].object # NoObject
    BY DEF Explains, Claims
  <2>2. CASE HandleRegister(m)
    <3>1. m.kind = "register" /\ m.object \in Object /\ m.id \in NetId
      BY <1>3, <2>2 DEF HandleRegister, Control
    <3>2. CASE id = m.id
      <4>1. remote'[id].object = m.object
        BY <1>2, <2>2, <3>2 DEF HandleRegister
      <4>2. ClaimOK(k, control, 0 + 1, m.id, m.object)
        BY <1>3, <3>1 DEF Explains, Claims
      <4>3. ClaimOK(k, control', 0, m.id, m.object)
        BY <1>1, <1>2, <4>2, ClaimTail
      <4>4. m.object # NoObject
        BY <3>1, SnapshotsAssumption
      <4> HIDE DEF NoObject, m
      <4> QED
        BY <3>2, <4>1, <4>3, <4>4
    <3>3. CASE id # m.id
      <4>1. remote'[id] = remote[id]
        BY <1>2, <2>2, <3>3 DEF HandleRegister
      <4> HIDE DEF NoObject, m
      <4> QED
        BY <1>5, <2>1, <3>1, <4>1
    <3> QED
      BY <3>2, <3>3
  <2>3. CASE HandleUnregister(m)
    <3>1. NoRemote.object = NoObject /\ NoRemote.bound = FALSE
      BY DEF NoRemote
    <3>2. remote' = [remote EXCEPT ![m.id] = NoRemote]
      BY <2>3 DEF HandleUnregister
    <3> HIDE DEF NoObject, NoRemote, m
    <3>3. CASE id = m.id
      BY <1>2, <3>1, <3>2, <3>3
    <3>4. CASE id # m.id
      <4>1. remote'[id] = remote[id]
        BY <1>2, <3>2, <3>4
      <4> QED
        BY <1>5, <2>1, <3>4, <4>1
    <3> QED
      BY <3>3, <3>4
  <2>4. CASE HandleRelevance(m)
    <3>1. m.kind = "relevance" /\ m.id \in NetId
      BY <1>3, <2>4 DEF HandleRelevance, Control
    <3>2. /\ remote'[id].object = remote[id].object
          /\ remote'[id].bound = remote[id].bound
      <4>1. remote' \in {remote, [remote EXCEPT ![m.id].relevant = m.relevant]}
        BY <2>4 DEF HandleRelevance
      <4>2. remote[id] \in Remote
        BY <1>2
      <4> HIDE DEF m
      <4> QED
        BY <1>2, <3>1, <4>1, <4>2 DEF Remote
    <3>3. ~ (m.kind = "unregister" /\ m.id = id)
      BY <3>1
    <3> HIDE DEF NoObject, m
    <3> QED
      BY <1>5, <2>1, <3>2, <3>3
  <2> QED
    BY <1>1, <2>2, <2>3, <2>4
<1>7. Claims(k)'
  <2>1. linked'
    BY <1>1 DEF Explains, Claims
  <2> HIDE DEF NoObject, NoRemote
  <2> QED
    BY <1>4, <1>6, <2>1 DEF Claims
<1>8. /\ Named(k)' /\ Past(k)' /\ Flying(k)' /\ Records(k)'
      /\ (peer.relevant \subseteq Live)'
  BY <1>1, PartsStay
<1> QED
  BY <1>7, <1>8 DEF Explains, FaithInv

LEMMA SimulateFaith ==
  ASSUME StreamInv, NEW k \in Book, Explains(k), NEW over \in BOOLEAN,
         Simulate(over)
  PROVE  FaithInv'
<1> DEFINE st == [id \in Live |-> play[live[id]][frame]]
           r == [frame |-> frame, states |-> st]
<1>1. /\ frame' = frame + 1
      /\ history' = [history EXCEPT ![Slot(frame)] = r]
      /\ deltas' = {m \in deltas : Young(m.frame)}
      /\ \A i \in DOMAIN control : Young(control[i].at)
      /\ \A i \in DOMAIN fulls : Young(fulls[i].frame)
      /\ peer' = [peer EXCEPT !.recent = @ /\ ~ over]
      /\ UNCHANGED <<settings, play, live, released, linked, remote, control,
                     fulls, received, pending>>
  BY DEF Simulate, world, objects, client, records
<1>2. /\ frame \in Nat /\ Sane(k, frame)
      /\ k.play = play /\ k.round = settings.history
      /\ k.live = live /\ k.released = released
      /\ settings \in Settings /\ history \in [Slots -> Record]
      /\ Gap(k) \in Nat /\ control \in Seq(Control)
      /\ deltas \subseteq Snapshot /\ fulls \in Seq(Snapshot)
      /\ \A id \in NetId : k.released[id] \in Int /\ k.born[id] \in Nat
  BY PastFrames, BookTypes DEF Explains, Named, StreamInv, Shape, TypeOK
<1>3. ASSUME NEW f \in Int, Young(f)
      PROVE  f >= (frame + 1) - Gap(k)
  <2>1. settings.age \in Int /\ settings.age <= Gap(k)
    BY <1>2, SnapshotsAssumption DEF Gap
  <2> QED
    BY <1>2, <1>3, <2>1 DEF Young
<1>4. Named(k)'
  <2>1. Sane(k, frame + 1)
    BY <1>2 DEF Sane
  <2> QED
    BY <1>1, <2>1 DEF Explains, Named
<1>5. Past(k)'
  <2>1. /\ Slot(frame) \in Slots /\ \A f : Slot(f)' = Slot(f)
    BY <1>1, <1>2, SlotFacts DEF Slot
  <2>2. r.frame = frame /\ r.states = st
    OBVIOUS
  <2> HIDE DEF r
  <2>3. ASSUME NEW f \in Nat, history'[Slot(f)].frame = f
        PROVE  PastOK(k, f, history'[Slot(f)].states)
    <3>1. Slot(f) \in Slots
      BY <1>2, SlotFacts
    <3>2. CASE Slot(f) = Slot(frame)
      <4>1. history'[Slot(f)] = r
        BY <1>1, <1>2, <2>1, <3>2
      <4>2. f = frame /\ history'[Slot(f)].states = st
        BY <2>2, <2>3, <4>1
      <4>3. DOMAIN st = Live /\ \A id \in Live : st[id] = play[live[id]][frame]
        OBVIOUS
      <4> HIDE DEF st
      <4>4. Live = {id \in NetId : k.live[id] # NoObject /\ k.born[id] <= frame}
        BY <1>2 DEF Live, Sane
      <4> QED
        BY <1>2, <4>2, <4>3, <4>4 DEF PastOK
    <3>3. CASE Slot(f) # Slot(frame)
      <4>1. history'[Slot(f)] = history[Slot(f)]
        BY <1>1, <1>2, <3>1, <3>3
      <4>2. Has(history, f)
        BY <2>3, <4>1 DEF Has, NoFrame
      <4> QED
        BY <4>1, <4>2 DEF Explains, Past
    <3> QED
      BY <3>2, <3>3
  <2>4. \A f \in Nat : Has(history, f)' => history'[Slot(f)].frame = f
    BY <2>1 DEF Has
  <2> QED
    BY <2>1, <2>3, <2>4 DEF Past
<1>6. Flying(k)'
  <2>1. ASSUME NEW m \in Snapshot, SentOK(k, frame, m), Young(m.frame)
        PROVE  SentOK(k, frame + 1, m)
    <3>1. m.frame \in Int
      BY FrameTypes DEF StreamInv
    <3>2. m.frame >= (frame + 1) - Gap(k)
      BY <1>3, <2>1, <3>1
    <3>3. m.frame < frame + 1
      BY <1>2, <2>1, <3>1 DEF SentOK
    <3> QED
      BY <2>1, <3>2, <3>3, Zenon DEF SentOK
  <2>2. \A i \in DOMAIN fulls : fulls[i] \in Snapshot
    <3> HIDE DEF Snapshot
    <3> QED
      BY <1>2
  <2>3. \A m \in deltas' : SentOK(k, frame + 1, m)
    BY <1>1, <1>2, <2>1 DEF Explains, Flying
  <2>4. \A i \in DOMAIN fulls : SentOK(k, frame + 1, fulls[i])
    BY <1>1, <2>1, <2>2 DEF Explains, Flying
  <2> QED
    BY <1>1, <2>3, <2>4 DEF Flying
<1>7. Claims(k)'
  <2>1. ASSUME NEW i \in DOMAIN control
        PROVE  control[i].at >= (frame + 1) - Gap(k)
    <3>1. control[i] \in Control
      <4> HIDE DEF Control
      <4> QED
        BY <1>2
    <3>2. control[i].at \in Int
      BY <3>1 DEF Control
    <3> QED
      BY <1>1, <1>3, <3>2
  <2> HIDE DEF NoObject, NoRemote, r, st
  <2>2. \A id \in NetId :
          /\ remote'[id].object # NoObject =>
               ClaimOK(k, control', 0, id, remote'[id].object)
          /\ remote'[id].bound => remote'[id].object # NoObject
    BY <1>1 DEF Explains, Claims
  <2>3. \A i \in DOMAIN control' :
          /\ control'[i].at >= frame' - Gap(k)
          /\ control'[i].kind = "register" =>
               ClaimOK(k, control', i, control'[i].id, control'[i].object)
    BY <1>1, <2>1 DEF Explains, Claims
  <2>4. ~ linked' => control' = <<>> /\ \A id \in NetId : remote'[id] = NoRemote
    BY <1>1 DEF Explains, Claims
  <2> QED
    BY <2>2, <2>3, <2>4, Zenon DEF Claims
<1>8. (peer.relevant \subseteq Live)'
  <2>1. peer'.relevant = peer.relevant
    BY <1>1 DEF StreamInv, Shape, TypeOK, Peer
  <2> QED
    BY <1>1, <2>1 DEF Explains, Live
<1>9. Records(k)'
  BY <1>1, PartsStay
<1> QED
  BY <1>4, <1>5, <1>6, <1>7, <1>8, <1>9 DEF Explains, FaithInv

-----------------------------------------------------------------------------
(* What the server sends.  It builds on a frame its history has, older     *)
(* than the one it sends and not a round older.                            *)
LEMMA ChoiceInRing ==
  ASSUME StreamInv, ticking, Choice.base # NoFrame
  PROVE  /\ Choice.base \in Nat /\ Has(history, Choice.base)
         /\ Choice.base < frame - 1
         /\ Choice.base >= frame - settings.history
<1>1. /\ Full.base = NoFrame /\ Nothing.base = NoFrame
      /\ \A f : Over(f).base = f
  BY DEF Full, Nothing, Over
<1>2. \/ Choice.base = peer.acked /\ Has(history, peer.acked)
      \/ /\ Choice.base = peer.lastFull
         /\ Has(history, peer.lastFull) /\ peer.recent
  BY <1>1 DEF Choice
<1>3. /\ frame \in Nat /\ latest \in Int /\ latest <= frame - 2
      /\ LastSent = frame - 2
      /\ peer.acked \in Frame \cup {NoFrame}
      /\ peer.lastFull \in Frame \cup {NoFrame}
  BY FrameTypes DEF StreamInv, FramesInv, LastSent, Shape, TypeOK, Peer
<1>4. \A f \in Frame \cup {NoFrame} : Has(history, f) =>
        f \in Nat /\ f # NoFrame /\ f >= frame - settings.history
  BY FrameNat DEF Has, StreamInv, HistoryInv, InRing
<1>5. CASE Choice.base = peer.acked /\ Has(history, peer.acked)
  <2>1. peer.acked <= latest
    BY <1>3, <1>4, <1>5 DEF StreamInv, HeldInv, Held
  <2> QED
    BY <1>3, <1>4, <1>5, <2>1
<1>6. CASE /\ Choice.base = peer.lastFull
           /\ Has(history, peer.lastFull) /\ peer.recent
  <2>1. peer.lastFull <= LastSent
    BY <1>3, <1>4, <1>6 DEF StreamInv, FullInv, FullKept, InRing
  <2> QED
    BY <1>3, <1>4, <1>6, <2>1
<1> QED
  BY <1>2, <1>5, <1>6

(* An entry of it, by the book.                                            *)
LEMMA EntryTold ==
  ASSUME StreamInv, NEW k \in Book, Explains(k), NEW f \in Nat, f = frame - 1,
         NEW id \in Live, NEW base \in Int,
         base # NoFrame => base \in Nat /\ Has(history, base)
  PROVE  EntryOK(k, EntryOf(id, f, base), f, base)
<1> DEFINE
      states == history[Slot(f)].states
      old == history[Slot(base)].states
      changed == {v \in Var : ~ InBase(id, base) \/ states[id][v] # old[id][v]}
      e == EntryOf(id, f, base)
<1>1. /\ id \in NetId /\ frame \in Nat /\ Sane(k, frame) /\ k.live = live
      /\ live[id] # NoObject /\ k.who[id] = live[id]
      /\ k.born[id] \in Nat /\ k.born[id] <= f + 1
  <2>1. frame \in Nat /\ Sane(k, frame) /\ k.live = live
    BY PastFrames DEF Explains, Named
  <2>2. id \in NetId /\ live[id] # NoObject
    BY DEF Live
  <2>3. k.born[id] \in Nat
    BY <2>2, BookTypes
  <2> QED
    BY <2>1, <2>2, <2>3 DEF Sane
<1>2. PastOK(k, f, states)
  <2>1. settings.history \in Nat /\ settings.history > 1
    BY SlotFacts DEF StreamInv, Shape, TypeOK
  <2>2. Has(history, f)
    BY <1>1, <2>1 DEF StreamInv, HistoryInv, InRing
  <2> QED
    BY <2>2 DEF Explains, Past
<1>3. InBase(id, base) =>
        /\ base \in Nat /\ PastOK(k, base, old) /\ id \in DOMAIN old
  BY DEF InBase, Explains, Past
<1>4. \/ /\ id \in DOMAIN states
         /\ e = [id |-> id, changed |-> TRUE,
                 vars |-> [v \in changed |-> states[id][v]]]
      \/ /\ ~ (id \in DOMAIN states /\ (changed # {} \/ ~ InBase(id, base)))
         /\ e = [id |-> id, changed |-> FALSE, vars |-> [v \in {} |-> 0]]
  BY DEF EntryOf
<1>5. /\ e.id = id
      /\ f < k.born[id] => ~ e.changed
      /\ id \in DOMAIN states => DOMAIN e.vars = changed
      /\ \A v \in DOMAIN e.vars : e.vars[v] = states[id][v]
  <2>1. f < k.born[id] => id \notin DOMAIN states
    BY <1>1, <1>2 DEF PastOK
  <2> HIDE DEF states, changed, e
  <2>2. CASE /\ id \in DOMAIN states
             /\ e = [id |-> id, changed |-> TRUE,
                     vars |-> [v \in changed |-> states[id][v]]]
    <3>1. /\ e.id = id /\ e.vars = [v \in changed |-> states[id][v]]
      BY <2>2
    <3> QED
      BY <2>1, <2>2, <3>1
  <2>3. CASE /\ ~ (id \in DOMAIN states /\ (changed # {} \/ ~ InBase(id, base)))
             /\ e = [id |-> id, changed |-> FALSE, vars |-> [v \in {} |-> 0]]
    <3>1. e.id = id /\ ~ e.changed /\ e.vars = [v \in {} |-> 0]
      BY <2>3
    <3>2. DOMAIN e.vars = {}
      BY <3>1
    <3> QED
      BY <2>3, <3>1, <3>2
  <2> QED
    BY <1>4, <2>2, <2>3
<1>6. ASSUME f >= k.born[id], NEW v \in Var
      PROVE  /\ v \in DOMAIN e.vars => e.vars[v] = k.play[k.who[id]][f][v]
             /\ v \notin DOMAIN e.vars =>
                  /\ base >= k.born[id]
                  /\ k.play[k.who[id]][base][v] = k.play[k.who[id]][f][v]
  <2>1. id \in DOMAIN states /\ states[id] = k.play[k.who[id]][f]
    BY <1>1, <1>2, <1>6 DEF PastOK
  <2>2. InBase(id, base) =>
          base >= k.born[id] /\ old[id] = k.play[k.who[id]][base]
    BY <1>1, <1>3 DEF PastOK
  <2>3. v \notin changed => InBase(id, base) /\ states[id][v] = old[id][v]
    OBVIOUS
  <2> HIDE DEF states, old, changed, e
  <2> QED
    BY <1>5, <2>1, <2>2, <2>3
<1> HIDE DEF e
<1> QED
  BY <1>1, <1>5, <1>6 DEF EntryOK, Used, e

(* The parts of it are made of such entries.                               *)
LEMMA PartEntries ==
  ASSUME NEW choice, NEW f, NEW cut, NEW i \in DOMAIN PartsOf(choice, f, cut),
         NEW e \in PartsOf(choice, f, cut)[i].entries
  PROVE  \E id \in peer.relevant : e = EntryOf(id, f, choice.base)
<1> DEFINE
      ids == IF choice.full THEN <<peer.relevant>> ELSE Split(peer.relevant, cut)
      entries(n) == {EntryOf(id, f, choice.base) : id \in ids[n]}
<1>1. i \in DOMAIN ids /\ PartsOf(choice, f, cut)[i].entries = entries(i)
  BY DEF PartsOf
<1>2. ids[i] \subseteq peer.relevant
  <2> DEFINE first == {id \in peer.relevant : id <= cut}
  <2>1. ids \in {<<peer.relevant>>, <<first, peer.relevant \ first>>}
    BY DEF Split
  <2>2. first \subseteq peer.relevant
    OBVIOUS
  <2> HIDE DEF first, ids
  <2>3. CASE ids = <<peer.relevant>>
    BY <1>1, <2>3
  <2>4. CASE ids = <<first, peer.relevant \ first>>
    BY <1>1, <2>2, <2>4
  <2> QED
    BY <2>1, <2>3, <2>4
<1> HIDE DEF ids
<1> QED
  BY <1>1, <1>2

LEMMA EndFrameFaith ==
  ASSUME StreamInv, NEW k \in Book, Explains(k), EndFrame
  PROVE  FaithInv'
<1> DEFINE f == frame - 1
           base == Choice.base
<1>1. /\ ticking
      /\ UNCHANGED <<settings, play, frame, live, released, history, linked,
                     remote, control, received, pending>>
  BY DEF EndFrame, world, objects, client, records
<1>2. /\ frame \in Nat /\ f \in Nat /\ f \in Frame
      /\ settings.history \in Nat /\ settings.history > 1
      /\ k.round = settings.history /\ Gap(k) = k.round + k.round
      /\ fulls \in Seq(Snapshot) /\ peer \in Peer
  <2>1. frame \in 0 .. (MaxFrame + 1) /\ frame > 0 /\ MaxFrame \in Nat
    BY <1>1, SnapshotsAssumption DEF StreamInv, Shape, TypeOK
  <2>2. f \in Nat /\ f \in Frame
    BY <2>1 DEF Frame
  <2> QED
    BY <2>1, <2>2, SlotFacts, BookTypes
       DEF Explains, Named, StreamInv, Shape, TypeOK
<1>3. /\ base \in Int
      /\ base # NoFrame => /\ base \in Nat /\ Has(history, base)
                           /\ base < f /\ base > f - k.round
  <2>1. Choice \in Offer
    BY <1>2, ChoiceType
  <2>2. base \in Int
    BY <2>1, FrameOrNone DEF Offer
  <2> QED
    BY <1>1, <1>2, <2>2, ChoiceInRing
<1>4. ASSUME NEW cut \in NetId, NEW i \in DOMAIN PartsOf(Choice, f, cut)
      PROVE  SentOK(k, frame, PartsOf(Choice, f, cut)[i])
  <2> DEFINE m == PartsOf(Choice, f, cut)[i]
  <2>1. m.frame = f /\ m.base = base
    <3>1. Choice \in Offer
      BY <1>2, ChoiceType
    <3> QED
      BY <1>2, <3>1, PartsFacts DEF StreamInv, Shape, TypeOK
  <2>2. ASSUME NEW e \in m.entries
        PROVE  EntryOK(k, e, f, base)
    <3>1. PICK id \in peer.relevant : e = EntryOf(id, f, base)
      BY PartEntries
    <3>2. id \in Live
      BY DEF Explains
    <3> QED
      BY <1>2, <1>3, <3>1, <3>2, EntryTold
  <2> HIDE DEF m, base
  <2>3. f >= frame - Gap(k) /\ f < frame
    BY <1>2
  <2> HIDE DEF f
  <2> QED
    BY <1>3, <2>1, <2>2, <2>3 DEF SentOK, m
<1>5. /\ peer'.relevant = peer.relevant
      /\ \A m \in deltas' : SentOK(k, frame, m)
      /\ \A i \in DOMAIN fulls' : SentOK(k, frame, fulls'[i])
  <2>1. CASE UNCHANGED <<peer, fulls, deltas>>
    BY <2>1 DEF Explains, Flying
  <2>2. ASSUME NEW cut \in NetId, SendSnapshot(f, Choice, cut)
        PROVE  /\ peer'.relevant = peer.relevant
               /\ \A m \in deltas' : SentOK(k, frame, m)
               /\ \A i \in DOMAIN fulls' : SentOK(k, frame, fulls'[i])
    <3> DEFINE parts == PartsOf(Choice, f, cut)
    <3>1. /\ fulls' = IF Choice.full THEN fulls \o parts ELSE fulls
          /\ deltas' = IF Choice.full THEN deltas
                       ELSE deltas \cup {parts[i] : i \in DOMAIN parts}
      BY <2>2 DEF SendSnapshot
    <3>2. peer'.relevant = peer.relevant
      BY <1>2, <2>2 DEF SendSnapshot, Peer
    <3>3. \A i \in DOMAIN parts : SentOK(k, frame, parts[i])
      BY <1>4
    <3>4. parts \in Seq(Snapshot)
      <4>1. Choice \in Offer
        BY <1>2, ChoiceType
      <4> QED
        BY <1>2, <4>1, PartsFacts DEF StreamInv, Shape, TypeOK
    <3> HIDE DEF parts
    <3>5. /\ \A m \in deltas : SentOK(k, frame, m)
          /\ \A i \in DOMAIN fulls : SentOK(k, frame, fulls[i])
      BY DEF Explains, Flying
    <3>6. \A i \in DOMAIN (fulls \o parts) :
            \/ i \in DOMAIN fulls /\ (fulls \o parts)[i] = fulls[i]
            \/ \E j \in DOMAIN parts : (fulls \o parts)[i] = parts[j]
      <4> HIDE DEF Snapshot
      <4>1. /\ DOMAIN fulls = 1 .. Len(fulls) /\ Len(fulls) \in Nat
            /\ DOMAIN parts = 1 .. Len(parts) /\ Len(parts) \in Nat
            /\ DOMAIN (fulls \o parts) = 1 .. (Len(fulls) + Len(parts))
            /\ \A i \in 1 .. (Len(fulls) + Len(parts)) : (fulls \o parts)[i] =
                 IF i <= Len(fulls) THEN fulls[i] ELSE parts[i - Len(fulls)]
        BY <1>2, <3>4
      <4> QED
        BY <4>1
    <3> QED
      BY <3>1, <3>2, <3>3, <3>5, <3>6
  <2> QED
    BY <2>1, <2>2 DEF EndFrame
<1>6. Flying(k)'
  BY <1>1, <1>5 DEF Flying
<1>7. (peer.relevant \subseteq Live)'
  BY <1>1, <1>5 DEF Explains, Live
<1>8. Named(k)' /\ Past(k)' /\ Claims(k)' /\ Records(k)'
  BY <1>1, PartsStay
<1> QED
  BY <1>6, <1>7, <1>8 DEF Explains, FaithInv

-----------------------------------------------------------------------------
(* What the client reads.  An entry it decodes, over the state it keeps of *)
(* the object in the base, is the state the object had.                    *)
LEMMA DecodedKept ==
  ASSUME NEW k \in Book, NEW now \in Nat, Sane(k, now),
         NEW m \in Snapshot, SentOK(k, now, m), NEW e \in m.entries,
         NEW base, RecordOK(k, m.base, base),
         m.base = NoFrame => DOMAIN base = {}, IsWritten(e, base)
  PROVE  KeptOK(k, e.id, m.frame, Decoded(e, base))
<1> DEFINE id == e.id
           f == m.frame
           g == m.base
           who == k.who[id]
<1>1. /\ f \in Nat /\ f \in Frame /\ g \in Int /\ e \in Entry /\ id \in NetId
  <2>1. f \in Frame /\ g \in Frame \cup {NoFrame} /\ e \in Entry
    BY DEF Snapshot
  <2>2. id \in NetId
    BY <2>1 DEF Entry
  <2> QED
    BY <2>1, <2>2, FrameNat, FrameOrNone
<1>2. /\ EntryOK(k, e, f, g)
      /\ g # NoFrame => g < f /\ g > f - k.round
  BY DEF SentOK
<1>3. /\ Used(k, id) /\ who \in Object
      /\ k.born[id] \in Nat /\ k.round \in Nat /\ k.round > 1
      /\ Gap(k) = k.round + k.round
      /\ k.play \in [Object -> [Frame -> State]]
  BY <1>1, <1>2, BookTypes DEF EntryOK, Sane
<1>4. /\ id \in DOMAIN base => g # NoFrame /\ KeptOK(k, id, g, base[id])
  BY DEF RecordOK
<1> HIDE DEF id, f, g
<1>5. f >= k.born[id]
  <2> SUFFICES ASSUME f < k.born[id] PROVE FALSE
    BY <1>1, <1>3
  <2>1. ~ e.changed /\ k.born[id] <= f + 1
    BY <1>2 DEF EntryOK, id
  <2>2. id \in DOMAIN base
    BY <2>1 DEF IsWritten, id
  <2>3. g < f /\ g > f - k.round
    BY <1>2, <1>4, <2>2
  <2>4. g < k.born[id] - Gap(k)
    BY <1>1, <1>3, <1>4, <2>2, <2>3 DEF KeptOK
  <2> QED
    BY <1>1, <1>3, <2>1, <2>3, <2>4
<1>6. ASSUME NEW v \in Var
      PROVE  Decoded(e, base)[v] = k.play[who][f][v]
  <2>1. Decoded(e, base)[v] = IF v \in DOMAIN e.vars THEN e.vars[v]
                                                     ELSE base[id][v]
    BY DEF Decoded, id
  <2>2. CASE v \in DOMAIN e.vars
    BY <1>2, <1>5, <2>1, <2>2 DEF EntryOK, id
  <2>3. CASE v \notin DOMAIN e.vars
    <3>1. g >= k.born[id] /\ k.play[who][g][v] = k.play[who][f][v]
      BY <1>2, <1>5, <2>3 DEF EntryOK, id
    <3>2. id \in DOMAIN base
      BY <2>3 DEF IsWritten, id
    <3>3. base[id] = k.play[who][g]
      BY <1>4, <3>1, <3>2 DEF KeptOK
    <3> QED
      BY <2>1, <2>3, <3>1, <3>3
  <2> QED
    BY <2>2, <2>3
<1>7. Decoded(e, base) = k.play[who][f]
  <2>1. k.play[who][f] \in [Var -> Value]
    BY <1>1, <1>3 DEF State
  <2>2. Decoded(e, base) = [v \in Var |-> Decoded(e, base)[v]]
    BY DEF Decoded
  <2> QED
    BY <1>6, <2>1, <2>2
<1>8. k.live[id] = NoObject => f < k.released[id]
  BY <1>2 DEF EntryOK, id
<1> HIDE DEF who
<1>9. KeptOK(k, id, f, Decoded(e, base))
  BY <1>1, <1>3, <1>5, <1>7, <1>8 DEF KeptOK, who
<1> QED
  BY <1>9 DEF id, f

(* A part of it, and the states the client has with it.                    *)
LEMMA ReadKept ==
  ASSUME StreamInv, NEW k \in Book, Explains(k), NEW m \in Snapshot,
         SentOK(k, frame, m), ~ NoBase(m)
  PROVE  RecordOK(k, m.frame, WithPart(m).states)
<1> DEFINE base == BaseOf(m)
           written == {d \in m.entries : IsWritten(d, base)}
           read == Read(m.entries, base)
           old == Started(m).states
<1>1. /\ settings \in Settings /\ received \in [Slots -> Record]
      /\ pending \in Pending
  BY DEF StreamInv, Shape, TypeOK
<1>2. /\ WithPart(m).states = Placed(read, old)
      /\ read \in States(State) /\ old \in States(State)
  <2>1. Started(m) \in Pending
    BY <1>1, StartedFacts
  <2>2. old \in States(State)
    BY <2>1 DEF Pending
  <2> QED
    BY <1>1, <2>2, WithPartFacts
<1>3. RecordOK(k, m.base, base) /\ (m.base = NoFrame => DOMAIN base = {})
  <2>1. CASE m.base = NoFrame
    BY <2>1, NothingTyped DEF BaseOf, RecordOK
  <2>2. CASE m.base # NoFrame
    <3>1. Slot(m.base) \in Slots
      BY <1>1, <2>2, FrameNat, SlotFacts DEF Snapshot
    <3>2. received[Slot(m.base)].frame = m.base
      BY <2>2 DEF NoBase, Has
    <3>3. base = received[Slot(m.base)].states
      BY <2>2 DEF BaseOf
    <3> QED
      BY <2>2, <3>1, <3>2, <3>3 DEF Explains, Records
  <2> QED
    BY <2>1, <2>2
<1> HIDE DEF base
<1>4. ASSUME NEW id \in DOMAIN read
      PROVE  KeptOK(k, id, m.frame, read[id])
  <2> DEFINE e == CHOOSE d \in written : d.id = id
  <2>1. /\ id \in {d.id : d \in written}
        /\ read[id] = Decoded(e, base)
    BY DEF Read
  <2> HIDE DEF written
  <2>2. e \in written /\ e.id = id
    BY <2>1
  <2> HIDE DEF e, read
  <2>3. e \in m.entries /\ IsWritten(e, base)
    BY <2>2 DEF written
  <2>4. frame \in Nat /\ Sane(k, frame)
    BY PastFrames DEF Explains, Named
  <2>5. KeptOK(k, e.id, m.frame, Decoded(e, base))
    BY <1>3, <2>3, <2>4, DecodedKept
  <2> QED
    BY <2>1, <2>2, <2>5
<1>5. ASSUME NEW id \in DOMAIN old
      PROVE  KeptOK(k, id, m.frame, old[id])
  <2>1. pending.frame = m.frame /\ Started(m) = pending
    BY <1>1, <1>5, StartedFacts, NothingTyped
  <2> QED
    BY <1>5, <2>1 DEF Explains, Records, RecordOK
<1> HIDE DEF read, old
<1>6. /\ DOMAIN WithPart(m).states = DOMAIN read \cup DOMAIN old
      /\ \A id \in DOMAIN read : WithPart(m).states[id] = read[id]
      /\ \A id \in DOMAIN old \ DOMAIN read : WithPart(m).states[id] = old[id]
  <2>1. /\ DOMAIN Placed(read, old) = DOMAIN read \cup DOMAIN old
        /\ \A id \in DOMAIN read : Placed(read, old)[id] = read[id]
        /\ \A id \in DOMAIN old \ DOMAIN read : Placed(read, old)[id] = old[id]
    BY <1>2, PlacedFacts
  <2> QED
    BY <1>2, <2>1, Zenon
<1> QED
  BY <1>4, <1>5, <1>6 DEF RecordOK

LEMMA RecordsStep ==
  ASSUME StreamInv, NEW k \in Book, Explains(k), NEW m \in Snapshot,
         SentOK(k, frame, m), HandleSnapshot(m), UNCHANGED settings
  PROVE  Records(k)'
<1>1. /\ TypeOK /\ received \in [Slots -> Record]
      /\ Slot(m.frame) \in Slots /\ Slots' = Slots
  BY SlotFacts, FrameNat DEF StreamInv, Shape, TypeOK, Slots, Snapshot
<1>2. CASE UNCHANGED <<received, pending, latest, lacks>>
  BY <1>2, PartsStay
<1>3. Taken(m) => RecordOK(k, m.frame, WithPart(m).states)
  BY ReadKept DEF Taken
<1>4. \A f : RecordOK(k, f, NoStates)
  BY NothingTyped DEF RecordOK
<1>5. \A s \in Slots : RecordOK(k, received[s].frame, received[s].states)
  BY DEF Explains, Records
<1>6. CASE /\ Taken(m)
           /\ pending' = NoPending
           /\ received' = [received EXCEPT ![Slot(m.frame)] =
                [frame |-> m.frame, states |-> WithPart(m).states]]
  <2>1. pending'.states = NoStates
    BY <1>6 DEF NoPending
  <2>2. \A s \in Slots : s # Slot(m.frame) => received'[s] = received[s]
    BY <1>1, <1>6
  <2>3. /\ received'[Slot(m.frame)].frame = m.frame
        /\ received'[Slot(m.frame)].states = WithPart(m).states
    BY <1>1, <1>6
  <2> HIDE DEF NoStates
  <2>4. \A s \in Slots : RecordOK(k, received'[s].frame, received'[s].states)
    BY <1>3, <1>5, <1>6, <2>2, <2>3
  <2> QED
    BY <1>1, <1>4, <2>1, <2>4 DEF Records
<1>7. CASE /\ Taken(m)
           /\ pending' = WithPart(m)
           /\ received' = [received EXCEPT ![Slot(m.frame)].frame = NoFrame,
                                           ![Slot(m.frame)].states = NoStates]
  <2>1. pending'.frame = m.frame
    BY <1>1, <1>7, WithPartFacts DEF TypeOK
  <2> HIDE DEF NoStates
  <2>2. \A s \in Slots : s # Slot(m.frame) => received'[s] = received[s]
    BY <1>1, <1>7
  <2>3. received'[Slot(m.frame)].states = NoStates
    <3>1. received[Slot(m.frame)] \in Record
      BY <1>1
    <3> QED
      BY <1>1, <1>7, <3>1 DEF Record
  <2>4. \A s \in Slots : RecordOK(k, received'[s].frame, received'[s].states)
    BY <1>4, <1>5, <2>2, <2>3
  <2> QED
    BY <1>1, <1>3, <1>7, <2>1, <2>4 DEF Records
<1> QED
  BY <1>1, <1>2, <1>6, <1>7, SnapshotEffect

LEMMA SnapshotFaith ==
  ASSUME StreamInv, NEW k \in Book, Explains(k),
         HandleFull \/ \E m \in deltas : HandleDelta(m)
  PROVE  FaithInv'
<1>1. /\ UNCHANGED <<settings, play, frame, live, released, history, linked,
                     peer, remote, control>>
      /\ deltas' \subseteq deltas
      /\ fulls' = fulls \/ (fulls # <<>> /\ fulls' = Tail(fulls))
  BY DEF HandleFull, HandleDelta, world, objects
<1>2. fulls \in Seq(Snapshot) /\ deltas \subseteq Snapshot
  BY DEF StreamInv, Shape, TypeOK
<1>3. /\ \A m \in deltas : SentOK(k, frame, m)
      /\ \A i \in DOMAIN fulls : SentOK(k, frame, fulls[i])
  BY DEF Explains, Flying
<1>4. Flying(k)'
  <2>1. \A i \in DOMAIN fulls' : \E j \in DOMAIN fulls : fulls'[i] = fulls[j]
    <3> HIDE DEF Snapshot
    <3>1. CASE fulls' = fulls
      BY <3>1
    <3>2. CASE fulls # <<>> /\ fulls' = Tail(fulls)
      <4>1. \A i \in DOMAIN Tail(fulls) :
              i + 1 \in DOMAIN fulls /\ Tail(fulls)[i] = fulls[i + 1]
        BY <1>2, <3>2
      <4> QED
        BY <3>2, <4>1
    <3> QED
      BY <1>1, <3>1, <3>2
  <2> QED
    BY <1>1, <1>3, <2>1 DEF Flying
<1>5. Records(k)'
  <2>1. CASE HandleFull
    <3>1. fulls # <<>> /\ HandleSnapshot(Head(fulls))
      BY <2>1 DEF HandleFull
    <3>2. 1 \in DOMAIN fulls /\ Head(fulls) = fulls[1] /\ Head(fulls) \in Snapshot
      <4> HIDE DEF Snapshot
      <4> QED
        BY <1>2, <3>1
    <3> QED
      BY <1>1, <1>3, <3>1, <3>2, RecordsStep
  <2>2. ASSUME NEW m \in deltas, HandleDelta(m) PROVE Records(k)'
    BY <1>1, <1>2, <1>3, <2>2, RecordsStep DEF HandleDelta
  <2> QED
    BY <2>1, <2>2
<1>6. /\ Named(k)' /\ Past(k)' /\ Claims(k)'
      /\ (peer.relevant \subseteq Live)'
  BY <1>1, PartsStay
<1> QED
  BY <1>4, <1>5, <1>6 DEF Explains, FaithInv

LEMMA FaithStays ==
  ASSUME FaithInv, peer'.relevant = peer.relevant,
         UNCHANGED <<settings, play, frame, live, released, history, linked,
                     remote, control, deltas, fulls, received, pending>>
  PROVE  FaithInv'
<1>1. PICK k \in Book : Explains(k)
  BY DEF FaithInv
<1>2. Named(k)' /\ Past(k)' /\ Flying(k)' /\ Claims(k)' /\ Records(k)'
  BY <1>1, PartsStay
<1>3. (peer.relevant \subseteq Live)'
  BY <1>1 DEF Explains, Live
<1> QED
  BY <1>2, <1>3 DEF Explains, FaithInv

LEMMA FaithStep == StreamInv /\ FaithInv /\ [Next]_vars => FaithInv'
<1> SUFFICES ASSUME StreamInv, FaithInv, [Next]_vars PROVE FaithInv'
  OBVIOUS
<1>1. PICK k \in Book : Explains(k)
  BY DEF FaithInv
<1>2. CASE Games
  BY <1>1, <1>2, RegisterFaith, UnregisterFaith, SetRelevantFaith DEF Games
<1>3. CASE EndFrame
  BY <1>1, <1>3, EndFrameFaith
<1>4. CASE BetweenFrames
  <2>1. ASSUME NEW m \in inputs, HandleInputs(m) PROVE FaithInv'
    <3>1. peer'.relevant = peer.relevant
      BY <2>1 DEF HandleInputs, StreamInv, Shape, TypeOK, Peer
    <3> QED
      BY <2>1, <3>1, FaithStays
         DEF HandleInputs, world, objects, client, records
  <2>2. CASE SendInputs
    BY <2>2, FaithStays DEF SendInputs, world, objects, client, records
  <2> QED
    BY <1>1, <1>4, <2>1, <2>2, ConnectFaith, DisconnectFaith, SimulateFaith,
       ClientFaith, HandleControlFaith, SnapshotFaith DEF BetweenFrames
<1>5. CASE UNCHANGED vars
  BY <1>5, FaithStays DEF vars
<1> QED
  BY <1>2, <1>3, <1>4, <1>5 DEF Next

(* Only a snapshot the client completes is its latest one.                 *)
LEMMA LatestChanges ==
  ASSUME [Next]_vars, latest' # latest
  PROVE  HandleFull \/ \E m \in deltas : HandleDelta(m)
<1>1. CASE Games
  <2>1. ASSUME NEW o \in Object, ServerRegister(o) PROVE latest' = latest
    BY <2>1 DEF ServerRegister, client, records
  <2>2. ASSUME NEW id \in NetId, ServerUnregister(id) PROVE latest' = latest
    BY <2>2, ZenonT(20) DEF ServerUnregister, client, records
  <2>3. ASSUME NEW id \in NetId, NEW wanted \in BOOLEAN, SetRelevant(id, wanted)
        PROVE  latest' = latest
    BY <2>3 DEF SetRelevant, client, records
  <2> QED
    BY <1>1, <2>1, <2>2, <2>3 DEF Games
<1>2. CASE EndFrame
  BY <1>2 DEF EndFrame, client, records
<1>3. CASE BetweenFrames
  <2>1. CASE Connect \/ Disconnect \/ HandleControl \/ SendInputs
    BY <2>1 DEF Connect, Disconnect, HandleControl, SendInputs, client, records
  <2>2. ASSUME NEW over \in BOOLEAN, Simulate(over) PROVE latest' = latest
    BY <2>2 DEF Simulate, client, records
  <2>3. ASSUME NEW m \in inputs, HandleInputs(m) PROVE latest' = latest
    BY <2>3 DEF HandleInputs, client, records
  <2>4. ASSUME NEW o \in Object, ClientRegister(o) \/ ClientUnregister(o)
        PROVE  latest' = latest
    BY <2>4 DEF ClientRegister, ClientUnregister, client, records
  <2> QED
    BY <1>3, <2>1, <2>2, <2>3, <2>4 DEF BetweenFrames
<1>4. CASE UNCHANGED vars
  BY <1>4 DEF vars
<1> QED
  BY <1>1, <1>2, <1>3, <1>4 DEF Next

(* A state of a record that is complete, of an object the client has bound.*)
LEMMA StateIsTrue ==
  ASSUME StreamInv, NEW k \in Book, Explains(k), NEW m \in Snapshot,
         SentOK(k, frame, m), NEW id \in NetId, NEW st,
         KeptOK(k, id, m.frame, st), remote[id].bound
  PROVE  st = play[remote[id].object][m.frame]
<1> DEFINE f == m.frame
           o == remote[id].object
<1>1. /\ frame \in Nat /\ Sane(k, frame) /\ k.play = play
      /\ f \in Int /\ f < frame /\ f >= frame - Gap(k)
      /\ k.born[id] \in Nat /\ k.born[id] <= frame /\ Gap(k) \in Nat
  BY PastFrames, BookTypes, FrameTypes
     DEF Explains, Named, Sane, SentOK, StreamInv
<1>2. ClaimOK(k, control, 0, id, o)
  BY DEF Explains, Claims
<1> HIDE DEF f, o
<1>3. f >= k.born[id]
  BY <1>1 DEF KeptOK, f
<1>4. o = k.who[id]
  <2> SUFFICES ASSUME o # k.who[id] PROVE FALSE
    OBVIOUS
  <2>1. PICK j \in DOMAIN control : control[j].at <= k.born[id] - Gap(k)
    BY <1>2 DEF ClaimOK, EndedBy
  <2>2. control[j].at >= frame - Gap(k)
    BY DEF Explains, Claims
  <2>3. control[j].at \in Int
    <3>1. control \in Seq(Control)
      BY DEF StreamInv, Shape, TypeOK
    <3>2. control[j] \in Control
      <4> HIDE DEF Control
      <4> QED
        BY <3>1
    <3> QED
      BY <3>2 DEF Control
  <2> QED
    BY <1>1, <1>3, <2>1, <2>2, <2>3
<1> QED
  BY <1>1, <1>3, <1>4 DEF KeptOK, f, o

(* What a client completes is the truth: however the parts were lost, late *)
(* or repeated, whatever they were deltas over, and whoever had a net id   *)
(* before, a state the client keeps for an object it has bound is the one  *)
(* the server recorded for that very object in that frame.  A net id rests *)
(* for longer than any message of its last object is on its way            *)
(* (server_send_snapshot, client_handle_snapshot, server_unregister).      *)
THEOREM RecordsAreFaithful == Spec => RecordsFaithful
<1>1. StreamInv /\ FaithInv /\ [Next]_vars =>
        [latest' # latest =>
           LET states == received'[Slot(latest')].states IN
           \A id \in DOMAIN states :
             remote[id].bound => states[id] = play[remote[id].object][latest']]_vars
  <2> SUFFICES ASSUME StreamInv, FaithInv, [Next]_vars, latest' # latest,
                      NEW id \in DOMAIN received'[Slot(latest')].states,
                      remote[id].bound
               PROVE  received'[Slot(latest')].states[id]
                        = play[remote[id].object][latest']
    OBVIOUS
  <2>1. PICK k \in Book : Explains(k)
    BY DEF FaithInv
  <2>2. PICK m \in Snapshot : SentOK(k, frame, m) /\ HandleSnapshot(m)
    <3>1. /\ fulls \in Seq(Snapshot) /\ deltas \subseteq Snapshot
          /\ \A m \in deltas : SentOK(k, frame, m)
          /\ \A i \in DOMAIN fulls : SentOK(k, frame, fulls[i])
      BY <2>1 DEF StreamInv, Shape, TypeOK, Explains, Flying
    <3>2. fulls # <<>> => 1 \in DOMAIN fulls /\ Head(fulls) = fulls[1]
                          /\ Head(fulls) \in Snapshot
      <4> HIDE DEF Snapshot
      <4> QED
        BY <3>1
    <3> QED
      BY <3>1, <3>2, LatestChanges DEF HandleFull, HandleDelta
  <2>3. /\ Taken(m) /\ latest' = m.frame
        /\ received' = [received EXCEPT ![Slot(m.frame)] =
             [frame |-> m.frame, states |-> WithPart(m).states]]
    BY <2>2, SnapshotEffect DEF StreamInv, Shape
  <2>4. received'[Slot(latest')].states = WithPart(m).states
    <3>1. received \in [Slots -> Record] /\ Slot(m.frame) \in Slots
      BY SlotFacts, FrameNat DEF StreamInv, Shape, TypeOK, Snapshot
    <3> QED
      BY <2>3, <3>1
  <2>5. KeptOK(k, id, m.frame, WithPart(m).states[id])
    <3>1. RecordOK(k, m.frame, WithPart(m).states)
      BY <2>1, <2>2, <2>3, ReadKept DEF Taken
    <3> QED
      BY <2>4, <3>1 DEF RecordOK
  <2>6. id \in NetId
    <3>1. WithPart(m).states \in States(State)
      BY WithPartFacts DEF StreamInv, Shape, TypeOK, Pending
    <3> QED
      BY <2>4, <3>1, StatesElim
  <2> QED
    BY <2>1, <2>2, <2>3, <2>4, <2>5, <2>6, StateIsTrue
<1>2. Init => FaithInv
  BY FaithInit
<1>3. StreamInv /\ FaithInv /\ [Next]_vars => FaithInv'
  BY FaithStep
<1> QED
  BY <1>1, <1>2, <1>3, StreamAlways, PTL DEF Spec, RecordsFaithful
=============================================================================
