------------------------ MODULE MeshAuthority_proofs ------------------------
(***************************************************************************)
(* For any number of nodes, ids, versions and messages on their way, and   *)
(* whatever the games, the links and the restarts do: the types and the    *)
(* ledger invariant of MeshAuthority are invariants, nodes that go by the  *)
(* same version of the object agree on its owner, and the protocol         *)
(* implements OwnershipLedger.                                             *)
(*                                                                         *)
(* One invariant carries everything: what is on a channel is a message     *)
(* that announces nothing but written facts (Sound), the record is the     *)
(* newest fact (RegistryOK), and an entry is a written fact (EntriesOK).   *)
(***************************************************************************)
EXTENDS MeshAuthority, TLAPS, SequenceTheorems

Facts == [id : Id, ver : Nat, owner : Owner]

(* The messages that may be on their way when the facts W are written.     *)
Sound(W) == {m \in Message : m.kind = "announce" => FactOf(m) \in W}

Channels(W) == [Channel -> Seq(Sound(W))]

RegistryOK ==
  /\ record \in Record
  /\ record.id = 0 => record = NoRecord
  /\ nextId \in 1 .. (MaxId + 1)
  /\ ready \subseteq Node
  /\ departed \subseteq Node
  /\ written \subseteq Facts
  /\ RecordNewest
  /\ WrittenOnce

EntryOK(e) == e \in Entry /\ (e = NoEntry \/ FactOf(e) \in written)

EntriesOK == \A n \in Node : EntryOK(entry[n])

NodesOK ==
  /\ local \in [Node -> BOOLEAN]
  /\ entry \in [Node -> Entry]
  /\ requested \in [Node -> SUBSET Id]
  /\ reach \in [Node -> BOOLEAN]
  /\ linked \subseteq Node
  /\ EntriesOK

IInv == RegistryOK /\ NodesOK /\ chan \in Channels(written)

-----------------------------------------------------------------------------
(* Channels.                                                               *)

(* A message stays sound while facts are added.                            *)
LEMMA SoundGrows ==
  ASSUME NEW W, NEW V, W \subseteq V
  PROVE  Channels(W) \subseteq Channels(V)
  <1>1. Sound(W) \subseteq Sound(V)
    BY DEF Sound
  <1>2. Seq(Sound(W)) \subseteq Seq(Sound(V))
    BY <1>1, SeqMonotonic
  <1> QED
    BY <1>2 DEF Channels

(* The channels of a node are channels.                                    *)
LEMMA ChannelType ==
  ASSUME NEW n \in Node
  PROVE  Up(n) \in Channel /\ Down(n) \in Channel
  BY DEF Up, Down, Channel

(* Taking the head of a channel: the message is sound, and so is the rest. *)
LEMMA PopSound ==
  ASSUME NEW W, chan \in Channels(W), NEW c \in Channel, chan[c] # <<>>
  PROVE  Pop(c) \in Channels(W) /\ Head(chan[c]) \in Sound(W)
  <1>1. chan[c] \in Seq(Sound(W))
    BY DEF Channels
  <1>2. Head(chan[c]) \in Sound(W) /\ Tail(chan[c]) \in Seq(Sound(W))
    BY <1>1, HeadTailProperties
  <1> QED
    BY <1>2 DEF Pop, Channels

(* The registry tells some nodes a sound message, or a node tells it one.  *)
LEMMA TellSound ==
  ASSUME NEW W, NEW ch \in Channels(W), NEW nodes, NEW m \in Sound(W)
  PROVE  Tell(ch, nodes, m) \in Channels(W)
  <1>1. \A c \in Channel : ch[c] \in Seq(Sound(W))
    BY DEF Channels
  <1>2. \A c \in Channel : Append(ch[c], m) \in Seq(Sound(W))
    BY <1>1, AppendProperties
  <1> QED
    BY <1>1, <1>2 DEF Tell, Channels

LEMMA AskSound ==
  ASSUME NEW W, NEW ch \in Channels(W), NEW n \in Node, NEW m \in Sound(W)
  PROVE  Ask(ch, n, m) \in Channels(W)
  <1>1. ch[Up(n)] \in Seq(Sound(W))
    BY ChannelType DEF Channels
  <1>2. Append(ch[Up(n)], m) \in Seq(Sound(W))
    BY <1>1, AppendProperties
  <1> QED
    BY <1>2 DEF Ask, Channels

(* A channel emptied by a link that drops or comes back.                   *)
LEMMA MarkSound ==
  ASSUME NEW W
  PROVE  /\ Opened \in Sound(W) /\ Hello \in Sound(W) /\ Lost \in Sound(W)
         /\ <<>> \in Seq(Sound(W)) /\ <<Lost>> \in Seq(Sound(W))
  <1>1. Opened \in Sound(W) /\ Hello \in Sound(W) /\ Lost \in Sound(W)
    BY DEF Sound, Message, Mark, Opened, Hello, Lost
  <1>2. <<>> \in Seq(Sound(W)) /\ <<Lost>> \in Seq(Sound(W))
    BY <1>1
  <1> QED
    BY <1>1, <1>2

(* What is announced of a written record is sound, and so is every message *)
(* that announces nothing.                                                 *)
LEMMA AnnouncementSound ==
  ASSUME NEW W, NEW r \in Record, r.id # 0, FactOf(r) \in W
  PROVE  Announcement(r) \in Sound(W)
  BY DEF Announcement, Record, Sound, Message, AnnounceMessage, FactOf, Id

LEMMA AboutSound ==
  ASSUME NEW W, NEW id \in Id,
         NEW kind \in {"drop", "request", "unregister", "denied"}
  PROVE  About(kind, id) \in Sound(W)
  BY DEF About, Sound, Message, ObjectMessage

LEMMA TransferSound ==
  ASSUME NEW W, NEW id \in Id, NEW ver \in Nat, NEW to \in Owner,
         NEW forced \in BOOLEAN
  PROVE  [kind |-> "transfer", id |-> id, ver |-> ver, to |-> to,
          forced |-> forced] \in Sound(W)
  BY DEF Sound, Message, TransferMessage

LEMMA ReleaseSound ==
  ASSUME NEW W, NEW n \in Node, entry[n] \in Entry, entry[n].id # 0,
         NEW to \in Owner \cup {None}
  PROVE  Release(n, to) \in Sound(W)
  BY DEF Release, Entry, Id, Sound, Message, ReleaseMessage

LEMMA AssignSound ==
  ASSUME NEW W, NEW id \in Id, NEW to \in Owner
  PROVE  [kind |-> "assign", id |-> id, to |-> to] \in Sound(W)
  BY DEF Sound, Message, AssignMessage

LEMMA ClaimSound ==
  ASSUME NEW W, NEW n \in Node
  PROVE  Claim(n) \in Sound(W)
  BY NodeAssumption DEF Claim, Sound, Message, ClaimMessage

(* The fields a handler reads in a message have their types.               *)
LEMMA MessageFields ==
  ASSUME NEW W, NEW m \in Sound(W)
  PROVE  /\ m.kind = "claim" => m.schema \in Schema
         /\ m.kind \in {"drop", "request", "unregister", "denied", "assign",
                        "release", "announce", "transfer"} => m.id \in Id
         /\ m.kind = "assign" => m.to \in Owner
         /\ m.kind = "release" => m.to \in Owner \cup {None} /\ m.ver \in Nat
         /\ m.kind = "transfer" =>
              /\ m.to \in Owner
              /\ m.ver \in Nat
              /\ m.forced \in BOOLEAN
         /\ m.kind = "announce" =>
              /\ m.ver \in Nat
              /\ m.owner \in Owner
              /\ m.schema \in Schema
              /\ FactOf(m) \in W
  BY DEF Sound, Message, Mark, ClaimMessage, ObjectMessage, AssignMessage,
         ReleaseMessage, AnnounceMessage, TransferMessage

-----------------------------------------------------------------------------
(* What a step of the registry may do to the record and to the facts.      *)

RecordKept == UNCHANGED <<record, written, nextId>>

RecordChanged ==
  \E r \in Record, owner \in Owner :
    /\ record # NoRecord
    /\ r.id = record.id /\ r.ver = record.ver
    /\ record' = Changed(r, owner)
    /\ written' = written \cup {FactOf(Changed(r, owner))}
    /\ nextId' = nextId

RecordNamed ==
  \E r \in Record :
    /\ nextId \in Id
    /\ r.id = nextId /\ r.ver = 1
    /\ record' = r
    /\ written' = written \cup {FactOf(r)}
    /\ nextId' = nextId + 1

RecordDropped == record' = NoRecord /\ UNCHANGED <<written, nextId>>

RecordTransfers ==
  /\ record # NoRecord
  /\ record' \in Record
  /\ FactOf(record') = FactOf(record) /\ record'.schema = record.schema
  /\ UNCHANGED <<written, nextId>>

RegistryStep ==
  RecordKept \/ RecordChanged \/ RecordNamed \/ RecordDropped \/ RecordTransfers

LEMMA NoRecordType == NoRecord \in Record /\ NoEntry \in Entry
  BY NodeAssumption DEF NoRecord, NoEntry, Record, Entry, Owner

LEMMA ChangedType ==
  ASSUME NEW r \in Record, NEW owner \in Owner
  PROVE  /\ Changed(r, owner) \in Record
         /\ Changed(r, owner).id = r.id
         /\ Changed(r, owner).ver = r.ver + 1
         /\ Changed(r, owner).owner = owner
         /\ FactOf(Changed(r, owner))
              = [id |-> r.id, ver |-> r.ver + 1, owner |-> owner]
  BY NodeAssumption DEF Changed, Record, FactOf, Owner

(* Each of them keeps the record the newest fact, and the facts apart.     *)
LEMMA RegistryStepInv ==
  ASSUME RegistryOK, RegistryStep, ready' \subseteq Node, departed' \subseteq Node
  PROVE  RegistryOK' /\ written \subseteq written'
  <1>1. CASE RecordKept
    BY <1>1 DEF RecordKept, RegistryOK, RecordNewest, WrittenOnce
  <1>2. CASE RecordChanged
    <2>1. PICK r \in Record, owner \in Owner :
            /\ record # NoRecord
            /\ r.id = record.id /\ r.ver = record.ver
            /\ record' = Changed(r, owner)
            /\ written' = written \cup {FactOf(Changed(r, owner))}
            /\ nextId' = nextId
      BY <1>2 DEF RecordChanged
    <2> DEFINE fact == [id |-> record.id, ver |-> record.ver + 1, owner |-> owner]
    <2>2. /\ record' \in Record /\ record'.id = record.id
          /\ record'.ver = record.ver + 1
          /\ FactOf(record') = fact
          /\ written' = written \cup {fact}
      BY <2>1, ChangedType
    <2>3. record.id \in Id /\ record.ver \in Nat
      BY <2>1 DEF RegistryOK, Record, Id
    <2>4. fact \in Facts
      BY <2>3 DEF Facts
    <2>5. RecordNewest'
      <3>1. \A f \in written' : f.id < nextId'
        BY <2>1, <2>2, <2>3 DEF RegistryOK, RecordNewest, Id
      <3>2. nextId' = 1 \/ \E f \in written' : nextId' = f.id + 1
        BY <2>1, <2>2 DEF RegistryOK, RecordNewest
      <3>3. \A f \in written' : f.id = record'.id => f.ver <= record'.ver
        <4>1. \A f \in written : f.id = record.id => f.ver <= record.ver
          BY <2>1 DEF RegistryOK, RecordNewest
        <4>2. \A f \in written : f.ver \in Nat
          BY DEF RegistryOK, Facts
        <4> QED
          BY <2>2, <2>3, <4>1, <4>2
      <3> QED
        BY <2>1, <2>2, <3>1, <3>2, <3>3 DEF RegistryOK, RecordNewest
    <2>6. WrittenOnce'
      <3>1. \A f \in written : f.id = fact.id => f.ver # fact.ver
        <4>1. \A f \in written : f.id = record.id => f.ver <= record.ver
          BY <2>1 DEF RegistryOK, RecordNewest
        <4>2. \A f \in written : f.ver \in Nat
          BY DEF RegistryOK, Facts
        <4> QED
          BY <2>3, <4>1, <4>2
      <3> QED
        BY <2>2, <3>1 DEF RegistryOK, WrittenOnce
    <2>7. record'.id # 0
      BY <2>2, <2>3 DEF Id
    <2> QED
      BY <2>1, <2>2, <2>4, <2>5, <2>6, <2>7 DEF RegistryOK
  <1>3. CASE RecordNamed
    <2>1. PICK r \in Record :
            /\ nextId \in Id
            /\ r.id = nextId /\ r.ver = 1
            /\ record' = r
            /\ written' = written \cup {FactOf(r)}
            /\ nextId' = nextId + 1
      BY <1>3 DEF RecordNamed
    <2>2. /\ FactOf(r).id = nextId /\ FactOf(r).ver = 1
          /\ FactOf(r) \in Facts
      BY <2>1 DEF FactOf, Facts, Record
    <2>3. \A f \in written : f.id < nextId /\ f.id \in Nat
      BY DEF RegistryOK, RecordNewest, Facts, Id
    <2>4. nextId' \in 1 .. (MaxId + 1) /\ r.id # 0
      BY <2>1, NodeAssumption DEF Id
    <2>5. RecordNewest'
      <3>1. \A f \in written' : f.id < nextId'
        BY <2>1, <2>2, <2>3 DEF Id
      <3>2. \E f \in written' : nextId' = f.id + 1
        BY <2>1, <2>2
      <3>3. \A f \in written' : f.id = record'.id => f.ver <= record'.ver
        BY <2>1, <2>2, <2>3 DEF Id
      <3>4. FactOf(record') \in written' /\ nextId' = record'.id + 1
        BY <2>1
      <3> QED
        BY <3>1, <3>2, <3>3, <3>4 DEF RecordNewest
    <2>6. WrittenOnce'
      BY <2>1, <2>2, <2>3 DEF RegistryOK, WrittenOnce, Id
    <2> QED
      BY <2>1, <2>2, <2>4, <2>5, <2>6 DEF RegistryOK
  <1>4. CASE RecordDropped
    BY <1>4, NoRecordType
       DEF RecordDropped, RegistryOK, RecordNewest, WrittenOnce, NoRecord
  <1>5. CASE RecordTransfers
    <2>1. /\ record'.id = record.id /\ record'.ver = record.ver
          /\ FactOf(record') = FactOf(record)
          /\ record # NoRecord
          /\ record' \in Record /\ UNCHANGED <<written, nextId>>
      BY <1>5 DEF RecordTransfers, FactOf
    <2>2. RecordNewest' /\ WrittenOnce'
      BY <2>1 DEF RegistryOK, RecordNewest, WrittenOnce
    <2>3. record'.id # 0
      BY <2>1 DEF RegistryOK
    <2> QED
      BY <2>1, <2>2, <2>3 DEF RegistryOK
  <1> QED
    BY <1>1, <1>2, <1>3, <1>4, <1>5 DEF RegistryStep

-----------------------------------------------------------------------------
(* The handlers of the registry: each one does one of those things, and    *)
(* sends sound messages.                                                   *)

GoodStep == RegistryStep /\ chan' \in Channels(written')

(* What holds of the record whenever the invariant does.                   *)
LEMMA RecordFacts ==
  ASSUME IInv
  PROVE  /\ record \in Record
         /\ record.id # 0 <=> record # NoRecord
         /\ record # NoRecord => record.id \in Id /\ FactOf(record) \in written
         /\ Pending(record) => record # NoRecord
         /\ record.owner \in Node => record # NoRecord
         /\ Members \subseteq Node
         /\ written \subseteq Facts
  <1>1. /\ record \in Record
        /\ record.id = 0 => record = NoRecord
        /\ record # NoRecord => FactOf(record) \in written
        /\ ready \subseteq Node /\ written \subseteq Facts
    BY DEF IInv, RegistryOK, RecordNewest
  <1>2. /\ record.id # 0 <=> record # NoRecord
        /\ record # NoRecord => record.id \in Id
        /\ Pending(record) => record # NoRecord
        /\ record.owner \in Node => record # NoRecord
    BY <1>1, NodeAssumption DEF NoRecord, Record, Id, Pending
  <1> QED
    BY <1>1, <1>2, NodeAssumption DEF Members

(* A change of owner is a new version, and announces what was written.     *)
LEMMA ChangeOwnerGood ==
  ASSUME IInv, NEW ch \in Channels(written), NEW members,
         NEW r \in Record, NEW owner \in Owner,
         record # NoRecord, r.id = record.id, r.ver = record.ver,
         ChangeOwner(ch, members, r, owner), nextId' = nextId
  PROVE  GoodStep
  <1> DEFINE told == Tell(ch, Overruled(r, owner) \cap members,
                          About("denied", r.id))
  <1>1. /\ record' = Changed(r, owner)
        /\ written' = written \cup {FactOf(Changed(r, owner))}
        /\ chan' = Tell(told, members, Announcement(Changed(r, owner)))
    BY DEF ChangeOwner
  <1>2. RegistryStep
    BY <1>1 DEF RegistryStep, RecordChanged
  <1>3. r.id \in Id /\ r.id # 0
    BY RecordFacts DEF Id
  <1>4. told \in Channels(written)
    BY <1>3, AboutSound, TellSound
  <1>5. told \in Channels(written')
    BY <1>1, <1>4, SoundGrows
  <1>6. Announcement(Changed(r, owner)) \in Sound(written')
    BY <1>1, <1>3, ChangedType, AnnouncementSound
  <1>7. chan' \in Channels(written')
    BY <1>1, <1>5, <1>6, TellSound
  <1> QED
    BY <1>2, <1>7 DEF GoodStep

(* The end of a pending transfer changes no fact.                          *)
LEMMA CancelGood ==
  ASSUME IInv, NEW ch \in Channels(written), NEW members,
         record # NoRecord, CancelTransfer(ch, members), nextId' = nextId
  PROVE  GoodStep
  <1>1. record \in Record /\ record.id \in Id
    BY RecordFacts
  <1>2. /\ NoTransfer(record) \in Record /\ FactOf(NoTransfer(record)) = FactOf(record)
        /\ NoTransfer(record).schema = record.schema
    BY <1>1, NodeAssumption DEF NoTransfer, Record, FactOf, Owner
  <1>3. RegistryStep
    BY <1>2 DEF CancelTransfer, RegistryStep, RecordTransfers
  <1>4. chan' \in Channels(written')
    BY <1>1, AboutSound, TellSound DEF CancelTransfer
  <1> QED
    BY <1>3, <1>4 DEF GoodStep

(* A denial, or no answer.                                                 *)
LEMMA DenyGood ==
  ASSUME IInv, NEW n \in Node, NEW id \in Id, chan[Up(n)] # <<>>,
         Deny(n, id), nextId' = nextId
  PROVE  GoodStep
  <1>1. Pop(Up(n)) \in Channels(written)
    BY ChannelType, PopSound DEF IInv
  <1> QED
    BY <1>1, AboutSound, TellSound
       DEF Deny, KeepRecord, GoodStep, RegistryStep, RecordKept

LEMMA IgnoreGood ==
  ASSUME IInv, NEW n \in Node, chan[Up(n)] # <<>>, Ignore(n), nextId' = nextId
  PROVE  GoodStep
  BY ChannelType, PopSound
     DEF IInv, Ignore, KeepRecord, GoodStep, RegistryStep, RecordKept

(* A claim: the first one names the object, a later one is answered.       *)
LEMMA ClaimGood ==
  ASSUME IInv, NEW n \in Node, chan[Up(n)] # <<>>,
         NEW m \in Sound(written), m.kind = "claim", HandleClaim(n, m)
  PROVE  GoodStep
  <1>1. Pop(Up(n)) \in Channels(written)
    BY ChannelType, PopSound DEF IInv
  <1>2. \A told \in Schema : SchemaToRecord(told) \in Schema
    BY NodeAssumption DEF SchemaToRecord
  <1>3. CASE record.id # 0 /\ ClaimKnown(n) /\ nextId' = nextId
    <2> DEFINE r == [record EXCEPT !.schema = SchemaToRecord(record.schema)]
    <2>1. /\ record \in Record /\ record # NoRecord
          /\ record.id # 0 /\ FactOf(record) \in written
      BY <1>3, RecordFacts
    <2>2. r \in Record /\ r.id = record.id /\ r.ver = record.ver /\ r.owner \in Owner
      BY <2>1, <1>2 DEF Record
    <2>3. CASE r.schema # record.schema
      <3>1. ChangeOwner(Pop(Up(n)), Members, r, r.owner)
        BY <1>3, <2>3 DEF ClaimKnown
      <3> QED
        BY <1>1, <1>3, <2>1, <2>2, <3>1, ChangeOwnerGood
    <2>4. CASE r.schema = record.schema
      <3>1. /\ chan' = Tell(Pop(Up(n)), {n}, Announcement(record))
            /\ KeepRecord
        BY <1>3, <2>4 DEF ClaimKnown
      <3>2. chan' \in Channels(written)
        BY <1>1, <2>1, <3>1, AnnouncementSound, TellSound
      <3> QED
        BY <1>3, <3>1, <3>2
           DEF KeepRecord, GoodStep, RegistryStep, RecordKept
    <2> QED
      BY <2>3, <2>4
  <1>4. CASE record.id = 0 /\ nextId <= MaxId /\ ClaimNew(n, m)
    <2> DEFINE wanted == IF Controller # Nobody THEN Controller ELSE n
               r == [id |-> nextId, ver |-> 1, prev |-> 0,
                     owner |-> IF wanted \in departed \ Members
                               THEN Nobody ELSE wanted,
                     schema |-> SchemaToRecord(m.schema),
                     to |-> None, req |-> Nobody]
    <2>1. /\ record' = r
          /\ nextId' = nextId + 1
          /\ written' = written \cup {FactOf(r)}
          /\ chan' = Tell(Pop(Up(n)), Members, Announcement(r))
      BY <1>4 DEF ClaimNew
    <2>2. nextId \in Id /\ nextId # 0
      BY <1>4, NodeAssumption DEF IInv, RegistryOK, Id
    <2>3. r \in Record /\ r.id # 0
      <3>1. m.schema \in Schema
        BY MessageFields
      <3>2. r.owner \in Owner
        BY NodeAssumption DEF Owner
      <3> QED
        BY <1>2, <2>2, <3>1, <3>2, NodeAssumption DEF Record, Owner, Id
    <2>4. RegistryStep
      BY <2>1, <2>2, <2>3 DEF RegistryStep, RecordNamed
    <2>5. Pop(Up(n)) \in Channels(written')
      BY <1>1, <2>1, SoundGrows
    <2>6. Announcement(r) \in Sound(written')
      BY <2>1, <2>3, AnnouncementSound
    <2>7. chan' \in Channels(written')
      BY <2>1, <2>5, <2>6, TellSound
    <2> QED
      BY <2>4, <2>7 DEF GoodStep
  <1>5. CASE Ignore(n) /\ nextId' = nextId
    BY <1>5, IgnoreGood
  <1> QED
    BY <1>3, <1>4, <1>5 DEF HandleClaim

(* The owner drops the object, and the registry forgets it.                *)
LEMMA DropGood ==
  ASSUME IInv, NEW n \in Node, chan[Up(n)] # <<>>,
         NEW m \in Sound(written), m.kind = "drop",
         HandleDrop(n, m), nextId' = nextId
  PROVE  GoodStep
  <1>1. Pop(Up(n)) \in Channels(written) /\ m.id \in Id
    BY ChannelType, PopSound, MessageFields DEF IInv
  <1>2. CASE Ignore(n)
    BY <1>2, IgnoreGood
  <1>3. CASE /\ record' = NoRecord
             /\ chan' = Tell(Pop(Up(n)), Members, About("unregister", m.id))
             /\ UNCHANGED written
    <2>1. chan' \in Channels(written')
      BY <1>1, <1>3, AboutSound, TellSound
    <2> QED
      BY <1>3, <2>1 DEF GoodStep, RegistryStep, RecordDropped
  <1> QED
    BY <1>2, <1>3 DEF HandleDrop

(* An object on its way to another owner: at once, or after its owner      *)
(* released it.                                                            *)
LEMMA MoveToGood ==
  ASSUME IInv, NEW n \in Node, chan[Up(n)] # <<>>, record.id \in Id,
         NEW to \in Owner, NEW forced \in BOOLEAN,
         MoveTo(n, to, forced), nextId' = nextId
  PROVE  GoodStep
  <1>1. /\ Pop(Up(n)) \in Channels(written)
        /\ record \in Record /\ record # NoRecord
    BY ChannelType, PopSound, RecordFacts DEF IInv, Id
  <1>2. CASE Ignore(n)
    BY <1>2, IgnoreGood
  <1>3. CASE ChangeOwner(Pop(Up(n)), Members, record, to)
    BY <1>1, <1>3, ChangeOwnerGood
  <1>4. CASE StartTransfer(n, to, forced)
    <2> DEFINE r == [record EXCEPT !.to = to, !.req = n]
    <2>1. r \in Record /\ FactOf(r) = FactOf(record)
      BY <1>1 DEF Record, FactOf, Owner
    <2>2. RegistryStep
      BY <1>1, <1>4, <2>1 DEF StartTransfer, RegistryStep, RecordTransfers
    <2>3. record.ver \in Nat
      BY <1>1 DEF Record
    <2>4. chan' \in Channels(written')
      BY <1>1, <1>4, <2>3, TransferSound, TellSound DEF StartTransfer
    <2> QED
      BY <2>2, <2>4 DEF GoodStep
  <1> QED
    BY <1>2, <1>3, <1>4 DEF MoveTo

(* A request and an assignment.                                            *)
LEMMA RequestGood ==
  ASSUME IInv, NEW n \in Node, chan[Up(n)] # <<>>,
         NEW m \in Sound(written), m.kind = "request",
         HandleRequest(n, m), nextId' = nextId
  PROVE  GoodStep
  <1>1. m.id \in Id /\ n \in Owner
    BY MessageFields DEF Owner
  <1>2. CASE Deny(n, m.id)
    BY <1>1, <1>2, DenyGood
  <1>3. CASE record.id = m.id /\ MoveTo(n, n, FALSE)
    BY <1>1, <1>3, MoveToGood
  <1> QED
    BY <1>2, <1>3 DEF HandleRequest

LEMMA AssignGood ==
  ASSUME IInv, NEW n \in Node, chan[Up(n)] # <<>>,
         NEW m \in Sound(written), m.kind = "assign",
         HandleAssign(n, m), nextId' = nextId
  PROVE  GoodStep
  <1>1. m.id \in Id /\ m.to \in Owner
    BY MessageFields
  <1>2. CASE Deny(n, m.id)
    BY <1>1, <1>2, DenyGood
  <1>3. CASE record.id = m.id /\ MoveTo(n, m.to, TRUE)
    BY <1>1, <1>3, MoveToGood
  <1> QED
    BY <1>2, <1>3 DEF HandleAssign

(* A release, or a refusal.                                                *)
LEMMA ReleaseGood ==
  ASSUME IInv, NEW n \in Node, chan[Up(n)] # <<>>,
         NEW m \in Sound(written), m.kind = "release",
         HandleRelease(n, m), nextId' = nextId
  PROVE  GoodStep
  <1>1. /\ m.id \in Id /\ m.to \in Owner \cup {None}
        /\ Pop(Up(n)) \in Channels(written)
    BY MessageFields, ChannelType, PopSound DEF IInv
  <1>2. CurrentRelease(n, m) => record \in Record /\ record # NoRecord
    BY <1>1, RecordFacts DEF CurrentRelease, Id
  <1>3. CASE Ignore(n)
    BY <1>3, IgnoreGood
  <1>4. CASE Deny(n, m.id)
    BY <1>1, <1>4, DenyGood
  <1>5. CASE CurrentRelease(n, m) /\ CancelTransfer(Pop(Up(n)), Members)
    BY <1>1, <1>2, <1>5, CancelGood
  <1>6. CASE /\ CurrentRelease(n, m)
             /\ m.to \notin {None, record.owner}
             /\ ChangeOwner(Pop(Up(n)), Members, record,
                            IF m.to \in Members THEN m.to ELSE Nobody)
    <2>1. (IF m.to \in Members THEN m.to ELSE Nobody) \in Owner
      BY <1>1, <1>6 DEF Owner
    <2> QED
      BY <1>1, <1>2, <1>6, <2>1, ChangeOwnerGood
  <1> QED
    BY <1>3, <1>4, <1>5, <1>6 DEF HandleRelease

(* A node joins, and a node leaves.                                        *)
LEMMA HelloGood ==
  ASSUME IInv, NEW n \in Node, chan[Up(n)] # <<>>,
         HandleHello(n), nextId' = nextId
  PROVE  GoodStep /\ ready' \subseteq Node /\ departed' \subseteq Node
  <1>1. /\ Pop(Up(n)) \in Channels(written)
        /\ ready \subseteq Node /\ departed \subseteq Node
    BY ChannelType, PopSound DEF IInv, RegistryOK
  <1>2. record.id # 0 => Announcement(record) \in Sound(written)
    BY RecordFacts, AnnouncementSound
  <1>3. chan' \in Channels(written')
    BY <1>1, <1>2, TellSound DEF HandleHello, KeepRecord
  <1> QED
    BY <1>1, <1>3
       DEF HandleHello, KeepRecord, GoodStep, RegistryStep, RecordKept

LEMMA LostGood ==
  ASSUME IInv, NEW n \in Node, chan[Up(n)] # <<>>,
         HandleLost(n), nextId' = nextId
  PROVE  GoodStep /\ ready' \subseteq Node /\ departed' \subseteq Node
  <1>1. /\ Pop(Up(n)) \in Channels(written)
        /\ ready \subseteq Node /\ departed \subseteq Node
    BY ChannelType, PopSound DEF IInv, RegistryOK
  <1>2. ready' \subseteq Node /\ departed' \subseteq Node
    BY <1>1 DEF HandleLost
  <1>3. CASE record.owner = n /\ ChangeOwner(Pop(Up(n)), Members \ {n}, record, Nobody)
    BY <1>1, <1>2, <1>3, RecordFacts, ChangeOwnerGood DEF Owner
  <1>4. CASE InTransfer(n) /\ CancelTransfer(Pop(Up(n)), Members \ {n})
    BY <1>1, <1>2, <1>4, RecordFacts, CancelGood DEF InTransfer
  <1>5. CASE Ignore(n)
    BY <1>2, <1>5, IgnoreGood
  <1> QED
    BY <1>3, <1>4, <1>5 DEF HandleLost

(* The registry handles a message, or a transfer that timed out.           *)
LEMMA ReceiveGood ==
  ASSUME IInv, NEW n \in Node, RegistryReceives(n)
  PROVE  GoodStep /\ ready' \subseteq Node /\ departed' \subseteq Node
  <1> DEFINE m == Head(chan[Up(n)])
  <1>1. /\ chan[Up(n)] # <<>>
        /\ Pop(Up(n)) \in Channels(written)
        /\ m \in Sound(written)
    BY ChannelType, PopSound DEF IInv, RegistryReceives
  <1>2. ready \subseteq Node /\ departed \subseteq Node
    BY DEF IInv, RegistryOK
  <1> HIDE DEF m
  <1>3. CASE m.kind = "open" /\ chan' = Tell(Pop(Up(n)), {n}, Hello)
             /\ KeepRecord /\ UNCHANGED <<nextId, ready, departed>>
    BY <1>1, <1>2, <1>3, MarkSound, TellSound
       DEF KeepRecord, GoodStep, RegistryStep, RecordKept
  <1>4. CASE HandleHello(n) /\ UNCHANGED nextId
    BY <1>1, <1>4, HelloGood
  <1>5. CASE HandleLost(n) /\ UNCHANGED nextId
    BY <1>1, <1>5, LostGood
  <1>6. CASE Ignore(n) /\ UNCHANGED <<nextId, ready, departed>>
    <2>1. GoodStep
      BY <1>1, <1>6, IgnoreGood
    <2> QED
      BY <1>2, <1>6, <2>1
  <1>7. CASE m.kind = "claim" /\ HandleClaim(n, m) /\ UNCHANGED <<ready, departed>>
    <2>1. GoodStep
      BY <1>1, <1>7, ClaimGood
    <2> QED
      BY <1>2, <1>7, <2>1
  <1>8. CASE /\ \/ m.kind = "drop" /\ HandleDrop(n, m)
                \/ m.kind = "request" /\ HandleRequest(n, m)
                \/ m.kind = "assign" /\ HandleAssign(n, m)
                \/ m.kind = "release" /\ HandleRelease(n, m)
             /\ UNCHANGED <<nextId, ready, departed>>
    <2>1. GoodStep
      BY <1>1, <1>8, DropGood, RequestGood, AssignGood, ReleaseGood
    <2> QED
      BY <1>2, <1>8, <2>1
  <1> QED
    BY <1>3, <1>4, <1>5, <1>6, <1>7, <1>8 DEF RegistryReceives, m

LEMMA TimeoutGood ==
  ASSUME IInv, TransferTimesOut
  PROVE  GoodStep /\ ready' \subseteq Node /\ departed' \subseteq Node
  <1>1. chan \in Channels(written) /\ record # NoRecord
    BY RecordFacts DEF IInv, TransferTimesOut
  <1>2. ready' \subseteq Node /\ departed' \subseteq Node
    BY DEF TransferTimesOut, IInv, RegistryOK
  <1> QED
    BY <1>1, <1>2, CancelGood DEF TransferTimesOut

-----------------------------------------------------------------------------
(* The nodes: an entry keeps its fact, takes another written one that is   *)
(* not older, or is forgotten.                                             *)

Moves(n, e) ==
  \/ FactOf(e) = FactOf(entry[n])
  \/ e = NoEntry
  \/ FactOf(e) \in written /\ (entry[n].id = e.id => entry[n].ver <= e.ver)

EntryStep ==
  \/ entry' = entry
  \/ \E n \in Node :
       \E e \in Entry : EntryOK(e) /\ Moves(n, e) /\ entry' = [entry EXCEPT ![n] = e]

GoodNodes ==
  /\ EntryStep
  /\ local' \in [Node -> BOOLEAN]
  /\ requested' \in [Node -> SUBSET Id]
  /\ reach' \in [Node -> BOOLEAN]
  /\ linked' \subseteq Node
  /\ chan' \in Channels(written)

(* Such a step keeps the invariant when the registry does nothing.         *)
LEMMA NodeStepInv ==
  ASSUME IInv, GoodNodes, UNCHANGED registryVars
  PROVE  IInv'
  <1>1. /\ written' = written /\ record' = record /\ nextId' = nextId
        /\ ready' = ready /\ departed' = departed
    BY DEF registryVars
  <1>2. RegistryOK'
    BY <1>1 DEF IInv, RegistryOK, RecordNewest, WrittenOnce
  <1>3. entry' \in [Node -> Entry] /\ EntriesOK'
    BY <1>1 DEF IInv, NodesOK, EntriesOK, EntryOK, GoodNodes, EntryStep
  <1> QED
    BY <1>1, <1>2, <1>3 DEF IInv, NodesOK, GoodNodes

(* What holds of an entry whenever the invariant does.                     *)
LEMMA EntryFacts ==
  ASSUME IInv, NEW n \in Node
  PROVE  /\ entry[n] \in Entry
         /\ EntryOK(entry[n])
         /\ entry[n].bound \/ entry[n].frozen \/ entry[n].owner \in Node
              => entry[n].id # 0
         /\ entry[n].id # 0 => entry[n].id \in Id /\ FactOf(entry[n]) \in written
         /\ entry[n].id = 0 => entry[n] = NoEntry
         /\ entry[n].ver \in Nat
  <1>1. entry[n] \in Entry /\ EntryOK(entry[n])
    BY DEF IInv, NodesOK, EntriesOK
  <1>2. FactOf(entry[n]) \in written => entry[n].id \in Id
    BY DEF IInv, RegistryOK, Facts, FactOf
  <1>3. /\ NoEntry.id = 0 /\ NoEntry.owner = Nobody
        /\ ~ NoEntry.bound /\ ~ NoEntry.frozen
    BY DEF NoEntry
  <1>4. entry[n].id = 0 => entry[n] = NoEntry
    BY <1>1, <1>2 DEF EntryOK, Id
  <1>5. entry[n].bound \/ entry[n].frozen \/ entry[n].owner \in Node
          => entry[n].id # 0
    BY <1>3, <1>4, NodeAssumption
  <1>6. entry[n].id # 0 => entry[n].id \in Id /\ FactOf(entry[n]) \in written
    BY <1>1, <1>2, <1>3 DEF EntryOK
  <1>7. entry[n].ver \in Nat
    BY <1>1 DEF Entry
  <1> QED
    BY <1>1, <1>4, <1>5, <1>6, <1>7

(* The marks of an entry do not touch its fact.                            *)
LEMMA MarksKeepFact ==
  ASSUME NEW e \in Entry, NEW b \in BOOLEAN, NEW o \in BOOLEAN
  PROVE  /\ [e EXCEPT !.bound = b] \in Entry
         /\ FactOf([e EXCEPT !.bound = b]) = FactOf(e)
         /\ [e EXCEPT !.frozen = b] \in Entry
         /\ FactOf([e EXCEPT !.frozen = b]) = FactOf(e)
         /\ [e EXCEPT !.frozen = b, !.own = o] \in Entry
         /\ FactOf([e EXCEPT !.frozen = b, !.own = o]) = FactOf(e)
  BY DEF Entry, FactOf

LEMMA MarkMoves ==
  ASSUME IInv, NEW n \in Node, entry[n].id # 0,
         NEW e \in Entry, FactOf(e) = FactOf(entry[n]),
         entry' = [entry EXCEPT ![n] = e]
  PROVE  EntryStep
  <1>1. EntryOK(e) /\ Moves(n, e)
    BY EntryFacts DEF EntryOK, Moves
  <1> QED
    BY <1>1 DEF EntryStep

(* What the network hands to a node: an announcement is learnt, and the    *)
(* removal of the object forgets it.                                       *)
LEMMA AnnounceStep ==
  ASSUME IInv, NEW n \in Node, NEW m \in Sound(written),
         m.kind = "announce", NodeAnnounce(n, m)
  PROVE  EntryStep /\ requested' \in [Node -> SUBSET Id]
  <1> DEFINE same == entry[n].id = m.id
             known == IF same THEN entry[n] ELSE NoEntry
             kept == same /\ ~ (known.owner # m.owner)
             e == [id |-> m.id, owner |-> m.owner, ver |-> m.ver,
                   schema |-> m.schema,
                   bound |-> known.bound \/ (local[n] /\ SameSchema(n, m.schema)),
                   frozen |-> kept /\ known.frozen,
                   own |-> kept /\ known.own]
  <1>1. /\ m.id \in Id /\ m.ver \in Nat /\ m.owner \in Owner
        /\ m.schema \in Schema /\ FactOf(m) \in written
    BY MessageFields
  <1>2. known \in Entry
    BY EntryFacts, NoRecordType
  <1>3. /\ known.bound \in BOOLEAN /\ known.frozen \in BOOLEAN
        /\ known.own \in BOOLEAN /\ local[n] \in BOOLEAN
    BY <1>2 DEF Entry, IInv, NodesOK
  <1>4. e \in Entry
    BY <1>1, <1>3 DEF Entry, Id, SameSchema
  <1>5. FactOf(e) = FactOf(m)
    BY DEF FactOf
  <1>6. (same => m.ver >= entry[n].ver) /\ entry' = [entry EXCEPT ![n] = e]
    BY DEF NodeAnnounce
  <1>7. EntryOK(e) /\ Moves(n, e)
    <2>1. entry[n].id = e.id => entry[n].ver <= e.ver
      BY <1>1, <1>6, EntryFacts
    <2> QED
      BY <1>1, <1>4, <1>5, <2>1 DEF EntryOK, Moves
  <1>8. EntryStep
    BY <1>4, <1>6, <1>7 DEF EntryStep
  <1>9. requested' \in [Node -> SUBSET Id]
    BY DEF NodeAnnounce, IInv, NodesOK
  <1> QED
    BY <1>8, <1>9

LEMMA ForgetStep ==
  ASSUME IInv, NEW n \in Node, entry' = [entry EXCEPT ![n] = NoEntry]
  PROVE  EntryStep
  <1>1. EntryOK(NoEntry) /\ Moves(n, NoEntry) /\ NoEntry \in Entry
    BY NoRecordType DEF EntryOK, Moves
  <1> QED
    BY <1>1 DEF EntryStep

(* A node freezes its object, or takes it back.                            *)
LEMMA FreezeStep ==
  ASSUME IInv, NEW n \in Node, entry[n].id # 0,
         NEW f \in BOOLEAN, NEW o \in BOOLEAN,
         \/ entry' = [entry EXCEPT ![n].frozen = f]
         \/ entry' = [entry EXCEPT ![n].frozen = f, ![n].own = o]
         \/ entry' = [entry EXCEPT ![n].bound = f]
  PROVE  EntryStep
  <1>1. entry \in [Node -> Entry] /\ entry[n] \in Entry
    BY DEF IInv, NodesOK
  <1>2. CASE entry' = [entry EXCEPT ![n].frozen = f]
    <2>1. entry' = [entry EXCEPT ![n] = [entry[n] EXCEPT !.frozen = f]]
      BY <1>1, <1>2
    <2> QED
      BY <1>1, <2>1, MarksKeepFact, MarkMoves
  <1>3. CASE entry' = [entry EXCEPT ![n].frozen = f, ![n].own = o]
    <2>1. entry' = [entry EXCEPT ![n] = [entry[n] EXCEPT !.frozen = f, !.own = o]]
      BY <1>1, <1>3
    <2> QED
      BY <1>1, <2>1, MarksKeepFact, MarkMoves
  <1>4. CASE entry' = [entry EXCEPT ![n].bound = f]
    <2>1. entry' = [entry EXCEPT ![n] = [entry[n] EXCEPT !.bound = f]]
      BY <1>1, <1>4
    <2> QED
      BY <1>1, <2>1, MarksKeepFact, MarkMoves
  <1> QED
    BY <1>2, <1>3, <1>4

-----------------------------------------------------------------------------
(* The actions of the nodes, their games and the network.                  *)

(* A node handles a message of the registry.                               *)
LEMMA NodeReceivesGood ==
  ASSUME IInv, NEW n \in Node, NodeReceives(n)
  PROVE  GoodNodes
  <1> DEFINE m == Head(chan[Down(n)])
  <1>1. /\ chan[Down(n)] # <<>>
        /\ Pop(Down(n)) \in Channels(written)
        /\ m \in Sound(written)
    BY ChannelType, PopSound DEF IInv, NodeReceives
  <1>2. /\ local' \in [Node -> BOOLEAN] /\ linked' \subseteq Node
    BY DEF NodeReceives, IInv, NodesOK
  <1>3. /\ requested \in [Node -> SUBSET Id] /\ reach \in [Node -> BOOLEAN]
    BY DEF IInv, NodesOK
  <1> SUFFICES /\ EntryStep
               /\ requested' \in [Node -> SUBSET Id]
               /\ reach' \in [Node -> BOOLEAN]
               /\ chan' \in Channels(written)
    BY <1>2 DEF GoodNodes
  <1> HIDE DEF m
  <1>4. CASE NodeOpen(n)
    BY <1>1, <1>3, <1>4, MarkSound, AskSound DEF NodeOpen, EntryStep
  <1>5. CASE NodeHello(n)
    BY <1>1, <1>3, <1>5, ClaimSound, AskSound DEF NodeHello, EntryStep
  <1>6. CASE NodeLost(n)
    BY <1>1, <1>3, <1>6 DEF NodeLost, EntryStep
  <1>7. CASE chan' = Pop(Down(n)) /\ UNCHANGED <<entry, requested, reach>>
    BY <1>1, <1>3, <1>7 DEF EntryStep
  <1>8. CASE m.kind = "announce" /\ NodeAnnounce(n, m)
    <2>1. chan' \in Channels(written) /\ reach' = reach
      BY <1>1, <1>8 DEF NodeAnnounce
    <2> QED
      BY <1>1, <1>3, <1>8, <2>1, AnnounceStep
  <1>9. CASE NodeUnregister(n, m)
    BY <1>1, <1>3, <1>9, ForgetStep DEF NodeUnregister
  <1>10. CASE m.kind = "transfer" /\ NodeTransferRefused(n, m)
    <2>1. entry[n] \in Entry /\ entry[n].id # 0
      BY <1>1, <1>10, EntryFacts, MessageFields
         DEF NodeTransferRefused, Hands, Id
    <2>2. Release(n, None) \in Sound(written)
      BY <2>1, ReleaseSound
    <2> QED
      BY <1>1, <1>3, <1>10, <2>2, AskSound DEF NodeTransferRefused, EntryStep
  <1>11. CASE m.kind = "transfer" /\ NodeTransfer(n, m)
    <2>1. /\ entry[n] \in Entry /\ entry[n].id # 0
          /\ m.to \in Owner \cup {None}
      BY <1>1, <1>11, EntryFacts, MessageFields DEF NodeTransfer, Hands, Id
    <2>2. Release(n, m.to) \in Sound(written)
      BY <2>1, ReleaseSound
    <2>3. EntryStep
      BY <1>11, <2>1, FreezeStep DEF NodeTransfer
    <2> QED
      BY <1>1, <1>3, <1>11, <2>2, <2>3, AskSound DEF NodeTransfer
  <1>12. CASE NodeDenied(n, m)
    <2>1. EntryStep
      <3>1. CASE entry[n].frozen
                 /\ entry' = [entry EXCEPT ![n].frozen = FALSE, ![n].own = FALSE]
        BY <3>1, EntryFacts, FreezeStep
      <3>2. CASE entry' = entry
        BY <3>2 DEF EntryStep
      <3> QED
        BY <1>12, <3>1, <3>2 DEF NodeDenied
    <2>2. /\ requested' \in [Node -> SUBSET Id] /\ reach' = reach
          /\ chan' = Pop(Down(n))
      BY <1>3, <1>12 DEF NodeDenied
    <2> QED
      BY <1>1, <1>3, <2>1, <2>2
  <1> QED
    BY <1>4, <1>5, <1>6, <1>7, <1>8, <1>9, <1>10, <1>11, <1>12
       DEF NodeReceives, m

(* A node takes its object back, when nobody will answer its release.      *)
LEMMA CancelReleasesGood ==
  ASSUME IInv, NEW n \in Node, CancelReleases(n)
  PROVE  GoodNodes
  <1>1. EntryStep
    BY EntryFacts, FreezeStep DEF CancelReleases
  <1> QED
    BY <1>1 DEF CancelReleases, GoodNodes, IInv, NodesOK

(* There is nothing to unbind in no entry.                                 *)
LEMMA NoEntryUnbound == [NoEntry EXCEPT !.bound = FALSE] = NoEntry
  <1>1. ASSUME NEW e \in Entry, e.bound = FALSE
        PROVE  [e EXCEPT !.bound = FALSE] = e
    BY <1>1 DEF Entry
  <1>2. NoEntry.bound = FALSE
    BY DEF NoEntry
  <1> QED
    BY <1>1, <1>2, NoRecordType

(* The games.                                                              *)
LEMMA GameGood ==
  ASSUME IInv, NEW n \in Node, Game(n)
  PROVE  GoodNodes /\ UNCHANGED registryVars
  <1>1. /\ local \in [Node -> BOOLEAN] /\ requested \in [Node -> SUBSET Id]
        /\ reach \in [Node -> BOOLEAN] /\ linked \subseteq Node
        /\ chan \in Channels(written) /\ entry \in [Node -> Entry]
    BY DEF IInv, NodesOK
  <1>2. entry[n] \in Entry /\ n \in Owner
    BY <1>1 DEF Owner
  <1>3. CASE Register(n)
    <2> DEFINE b == entry[n].bound
                      \/ (entry[n].id # 0 /\ SameSchema(n, entry[n].schema))
    <2>1. entry' = [entry EXCEPT ![n].bound = b] /\ b \in BOOLEAN
      BY <1>1, <1>2, <1>3 DEF Register, Entry, SameSchema
    <2>2. EntryStep
      <3>1. CASE entry[n].id # 0
        BY <2>1, <3>1, FreezeStep
      <3>2. CASE entry[n].id = 0
        <4>1. entry[n] = NoEntry /\ b = FALSE
          BY <3>2, EntryFacts DEF NoEntry
        <4>2. [entry[n] EXCEPT !.bound = FALSE] = NoEntry
          BY <4>1, NoEntryUnbound
        <4>3. entry' = [entry EXCEPT ![n] = NoEntry]
          BY <1>1, <2>1, <4>1, <4>2
        <4> QED
          BY <4>3, ForgetStep
      <3> QED
        BY <3>1, <3>2
    <2>3. chan' \in Channels(written)
      BY <1>1, <1>3, ClaimSound, AskSound DEF Register
    <2> QED
      BY <1>1, <1>3, <2>2, <2>3 DEF Register, GoodNodes
  <1>4. CASE Unregister(n)
    <2>1. EntryStep
      <3>1. CASE entry[n].id # 0
        BY <1>4, <3>1, FreezeStep DEF Unregister
      <3>2. CASE entry[n].id = 0
        <4>1. entry[n] = NoEntry
          BY <3>2, EntryFacts
        <4>2. [entry[n] EXCEPT !.bound = FALSE] = NoEntry
          BY <4>1, NoEntryUnbound
        <4>3. entry' = [entry EXCEPT ![n] = NoEntry]
          BY <1>1, <1>4, <4>2 DEF Unregister
        <4> QED
          BY <4>3, ForgetStep
      <3> QED
        BY <3>1, <3>2
    <2>2. chan' \in Channels(written)
      BY <1>1, <1>4, EntryFacts, AboutSound, AskSound DEF Unregister
    <2> QED
      BY <1>1, <1>4, <2>1, <2>2 DEF Unregister, GoodNodes
  <1>5. CASE Request(n)
    <2>1. entry[n].id \in Id
      BY <1>5, EntryFacts DEF Request
    <2>2. chan' \in Channels(written)
      BY <1>1, <1>5, <2>1, AboutSound, AskSound DEF Request
    <2> QED
      BY <1>1, <1>5, <2>1, <2>2 DEF Request, GoodNodes, EntryStep
  <1>6. CASE \E to \in Owner : ReleaseTo(n, to)
    <2>1. PICK to \in Owner : ReleaseTo(n, to)
      BY <1>6
    <2>2. entry[n].id # 0
      BY <2>1, EntryFacts DEF ReleaseTo
    <2>3. EntryStep
      BY <2>1, <2>2, FreezeStep DEF ReleaseTo
    <2>4. chan' \in Channels(written)
      BY <1>1, <1>2, <2>1, <2>2, ReleaseSound, AskSound DEF ReleaseTo
    <2> QED
      BY <1>1, <2>1, <2>3, <2>4 DEF ReleaseTo, GoodNodes
  <1>7. CASE \E to \in Owner : Assign(n, to)
    <2>1. PICK to \in Owner : Assign(n, to)
      BY <1>7
    <2>2. entry[n].id \in Id
      BY <2>1, EntryFacts DEF Assign
    <2>3. chan' \in Channels(written)
      BY <1>1, <2>1, <2>2, AssignSound, AskSound DEF Assign
    <2> QED
      BY <1>1, <2>1, <2>2, <2>3 DEF Assign, GoodNodes, EntryStep
  <1> QED
    BY <1>3, <1>4, <1>5, <1>6, <1>7 DEF Game

(* Links and restarts.                                                     *)
LEMMA NetworkGood ==
  ASSUME IInv, NEW n \in Node, Network(n)
  PROVE  GoodNodes /\ UNCHANGED registryVars
  <1>1. /\ local \in [Node -> BOOLEAN] /\ requested \in [Node -> SUBSET Id]
        /\ reach \in [Node -> BOOLEAN] /\ linked \subseteq Node
        /\ chan \in Channels(written) /\ entry \in [Node -> Entry]
    BY DEF IInv, NodesOK
  <1>2. \A c \in Channel : chan[c] \in Seq(Sound(written))
    BY <1>1 DEF Channels
  <1>3. ASSUME NEW x \in Seq(Sound(written)), NEW y \in Seq(Sound(written))
        PROVE  [chan EXCEPT ![Up(n)] = x, ![Down(n)] = y] \in Channels(written)
    BY <1>1, <1>3, ChannelType DEF Channels
  <1>4. CASE Connect(n)
    <2>1. /\ Append(chan[Up(n)], Opened) \in Seq(Sound(written))
          /\ Append(chan[Down(n)], Opened) \in Seq(Sound(written))
      BY <1>2, ChannelType, MarkSound, AppendProperties
    <2>2. Up(n) # Down(n)
      BY <1>4 DEF Connect, Up, Down
    <2>3. chan' = [chan EXCEPT ![Up(n)] = Append(chan[Up(n)], Opened),
                               ![Down(n)] = Append(chan[Down(n)], Opened)]
      BY <1>4, <2>2 DEF Connect
    <2>4. chan' \in Channels(written)
      BY <1>3, <2>1, <2>3
    <2> QED
      BY <1>1, <1>4, <2>4
         DEF Connect, GoodNodes, EntryStep, nodeVars, registryVars
  <1>5. CASE Disconnect(n)
    <2>1. chan' \in Channels(written)
      BY <1>3, <1>5, MarkSound DEF Disconnect, CutOff
    <2> QED
      BY <1>1, <1>5, <2>1
         DEF Disconnect, CutOff, GoodNodes, EntryStep, nodeVars
  <1>6. CASE Restart(n)
    <2>1. chan' \in Channels(written)
      BY <1>2, <1>3, <1>6, ChannelType, MarkSound DEF Restart, CutOff
    <2>2. EntryStep
      BY <1>6, ForgetStep DEF Restart
    <2> QED
      BY <1>1, <1>6, <2>1, <2>2 DEF Restart, CutOff, GoodNodes
  <1> QED
    BY <1>4, <1>5, <1>6 DEF Network

-----------------------------------------------------------------------------
(* The invariant.                                                          *)

(* What a step is, for the record and for the entries: the registry acts   *)
(* and the nodes keep theirs, or a node acts and the registry keeps its.   *)
StepShape ==
  \/ RegistryStep /\ UNCHANGED entry
  \/ EntryStep /\ UNCHANGED registryVars

(* It holds at first: nothing is written, and nothing is on its way.       *)
LEMMA InitInv == Init => IInv
  <1> SUFFICES ASSUME Init PROVE IInv
    OBVIOUS
  <1>1. 1 \in 1 .. (MaxId + 1)
    BY NodeAssumption
  <1>2. RegistryOK
    BY <1>1, NoRecordType
       DEF Init, RegistryOK, RecordNewest, WrittenOnce
  <1>3. /\ entry \in [Node -> Entry] /\ EntriesOK
    BY NoRecordType DEF Init, EntriesOK, EntryOK
  <1>4. /\ local \in [Node -> BOOLEAN] /\ requested \in [Node -> SUBSET Id]
        /\ reach \in [Node -> BOOLEAN] /\ linked \subseteq Node
    BY DEF Init
  <1>5. chan \in Channels(written)
    BY MarkSound DEF Init, Channels
  <1> QED
    BY <1>2, <1>3, <1>4, <1>5 DEF IInv, NodesOK

(* A step of the registry keeps it.                                        *)
LEMMA RegistryKeepsInv ==
  ASSUME IInv, GoodStep, UNCHANGED <<nodeVars, linked>>,
         ready' \subseteq Node, departed' \subseteq Node
  PROVE  IInv'
  <1>1. RegistryOK' /\ written \subseteq written'
    BY RegistryStepInv DEF IInv, GoodStep
  <1>2. NodesOK'
    BY <1>1 DEF IInv, NodesOK, EntriesOK, EntryOK, nodeVars
  <1> QED
    BY <1>1, <1>2 DEF IInv, GoodStep

(* Every step keeps it, and has one of the two shapes.                     *)
LEMMA StepInv == IInv /\ [Next]_vars => IInv' /\ (StepShape \/ UNCHANGED vars)
  <1> SUFFICES ASSUME IInv, [Next]_vars
               PROVE  IInv' /\ (StepShape \/ UNCHANGED vars)
    OBVIOUS
  <1>1. ASSUME NEW n \in Node, RegistryReceives(n)
        PROVE  IInv' /\ StepShape
    <2>1. UNCHANGED <<nodeVars, linked>> /\ entry' = entry
      BY <1>1 DEF RegistryReceives, nodeVars
    <2> QED
      BY <1>1, <2>1, ReceiveGood, RegistryKeepsInv DEF GoodStep, StepShape
  <1>2. CASE TransferTimesOut
    <2>1. UNCHANGED <<nodeVars, linked>> /\ entry' = entry
      BY <1>2 DEF TransferTimesOut, nodeVars
    <2> QED
      BY <1>2, <2>1, TimeoutGood, RegistryKeepsInv DEF GoodStep, StepShape
  <1>3. ASSUME NEW n \in Node, NodeReceives(n)
        PROVE  IInv' /\ StepShape
    <2>1. UNCHANGED registryVars
      BY <1>3 DEF NodeReceives
    <2> QED
      BY <1>3, <2>1, NodeReceivesGood, NodeStepInv DEF GoodNodes, StepShape
  <1>4. ASSUME NEW n \in Node, CancelReleases(n)
        PROVE  IInv' /\ StepShape
    <2>1. UNCHANGED registryVars
      BY <1>4 DEF CancelReleases
    <2> QED
      BY <1>4, <2>1, CancelReleasesGood, NodeStepInv DEF GoodNodes, StepShape
  <1>5. ASSUME NEW n \in Node, Game(n)
        PROVE  IInv' /\ StepShape
    BY <1>5, GameGood, NodeStepInv DEF GoodNodes, StepShape
  <1>6. ASSUME NEW n \in Node, Network(n)
        PROVE  IInv' /\ StepShape
    BY <1>6, NetworkGood, NodeStepInv DEF GoodNodes, StepShape
  <1>7. CASE UNCHANGED vars
    BY <1>7 DEF vars, registryVars, nodeVars, IInv, RegistryOK, NodesOK,
                EntriesOK, EntryOK, RecordNewest, WrittenOnce
  <1> QED
    BY <1>1, <1>2, <1>3, <1>4, <1>5, <1>6, <1>7 DEF Next

(* The invariant says all that TypeOK and LedgerInv say.                   *)
LEMMA InvImplies == IInv => TypeOK /\ LedgerInv
  <1> SUFFICES ASSUME IInv PROVE TypeOK /\ LedgerInv
    OBVIOUS
  <1>1. Sound(written) \subseteq Message
    BY DEF Sound
  <1>2. chan \in [Channel -> Seq(Message)]
    <2>1. Seq(Sound(written)) \subseteq Seq(Message)
      BY <1>1, SeqMonotonic
    <2> QED
      BY <2>1 DEF IInv, Channels
  <1>3. TypeOK
    BY <1>2 DEF IInv, RegistryOK, NodesOK, TypeOK, Facts
  <1>4. AnnouncedWritten
    <2> SUFFICES ASSUME NEW c \in Channel, NEW i \in DOMAIN chan[c]
                 PROVE  chan[c][i].kind = "announce"
                          => FactOf(chan[c][i]) \in written
      BY DEF AnnouncedWritten
    <2>1. chan[c] \in Seq(Sound(written))
      BY DEF IInv, Channels
    <2>2. chan[c][i] \in Sound(written)
      BY <2>1, LenProperties, ElementOfSeq
    <2> QED
      BY <2>2 DEF Sound
  <1>5. EntriesWritten /\ RecordNewest /\ WrittenOnce
    BY DEF IInv, RegistryOK, NodesOK, EntriesOK, EntryOK, EntriesWritten
  <1> QED
    BY <1>3, <1>4, <1>5 DEF LedgerInv

(* IInv is an invariant of every behaviour.                                *)
LEMMA AlwaysIInv == Spec => []IInv
  <1>1. IInv /\ [Next]_vars => IInv'
    BY StepInv
  <1> QED
    BY InitInv, <1>1, PTL DEF Spec

-----------------------------------------------------------------------------
(* Every reachable state has its types: the messages on their way, the     *)
(* record, the entries and the requests, whatever the games and the network*)
(* did.                                                                    *)
THEOREM TypesHold == Spec => []TypeOK
  BY AlwaysIInv, InvImplies, PTL

(* Whatever is known about the owner of the object, or is on its way, was  *)
(* written by the registry, once for each version.                         *)
THEOREM LedgerHolds == Spec => []LedgerInv
  BY AlwaysIInv, InvImplies, PTL

(* Two nodes that go by the same version of the object name the same owner.*)
THEOREM NodesAgree == Spec => []Agreement
  <1>1. IInv => Agreement
    <2> SUFFICES ASSUME IInv, NEW m \in Node, NEW n \in Node,
                        FactOf(entry[m]) # FactOf(NoEntry),
                        FactOf(entry[n]) # FactOf(NoEntry),
                        entry[m].id = entry[n].id,
                        entry[m].ver = entry[n].ver
                 PROVE  entry[m].owner = entry[n].owner
      BY DEF Agreement, Ledger!OneOwnerPerVersion, FactOf
    <2>1. FactOf(entry[m]) \in written /\ FactOf(entry[n]) \in written
      BY DEF IInv, NodesOK, EntriesOK, EntryOK
    <2>2. FactOf(entry[m]).owner = FactOf(entry[n]).owner
      BY <2>1 DEF IInv, RegistryOK, WrittenOnce, FactOf
    <2> QED
      BY <2>2 DEF FactOf
  <1> QED
    BY <1>1, AlwaysIInv, PTL

-----------------------------------------------------------------------------
(* The refinement.                                                         *)

View == [n \in Node |-> FactOf(entry[n])]

(* What the registry does to its facts, the ledger allows.                 *)
LEMMA RegistryRefines ==
  ASSUME IInv, RegistryStep, UNCHANGED entry
  PROVE  Ledger!Next \/ UNCHANGED <<written, View>>
  <1>1. View' = View
    BY DEF View
  <1>2. CASE UNCHANGED written
    BY <1>1, <1>2
  <1>3. CASE RecordChanged
    <2>1. PICK r \in Record, owner \in Owner :
            /\ record # NoRecord
            /\ r.id = record.id /\ r.ver = record.ver
            /\ record' = Changed(r, owner)
            /\ written' = written \cup {FactOf(Changed(r, owner))}
            /\ nextId' = nextId
      BY <1>3 DEF RecordChanged
    <2> DEFINE f == FactOf(record)
    <2>2. f \in written /\ f.id = record.id /\ f.ver = record.ver
      BY <2>1 DEF IInv, RegistryOK, RecordNewest, FactOf
    <2>3. Ledger!Newest(f)
      <3>1. \A g \in written : g.id < record.id + 1
        BY <2>1 DEF IInv, RegistryOK, RecordNewest
      <3>2. \A g \in written : g.id = record.id => g.ver <= record.ver
        BY <2>1 DEF IInv, RegistryOK, RecordNewest
      <3>3. record.id \in Nat /\ \A g \in written : g.id \in Nat
        BY DEF IInv, RegistryOK, Record, Facts, Id
      <3> QED
        BY <2>2, <3>1, <3>2, <3>3 DEF Ledger!Newest
    <2>4. FactOf(Changed(r, owner)) = Ledger!Fact(f.id, f.ver + 1, owner)
      BY <2>1, <2>2, ChangedType DEF Ledger!Fact
    <2>5. Ledger!Change
      BY <1>1, <2>1, <2>2, <2>3, <2>4 DEF Ledger!Change, View
    <2> QED
      BY <2>5 DEF Ledger!Next
  <1>4. CASE RecordNamed
    <2>1. PICK r \in Record :
            /\ nextId \in Id
            /\ r.id = nextId /\ r.ver = 1
            /\ record' = r
            /\ written' = written \cup {FactOf(r)}
            /\ nextId' = nextId + 1
      BY <1>4 DEF RecordNamed
    <2>2. /\ nextId \in {1} \cup {g.id + 1 : g \in written}
          /\ \A g \in written : g.id < nextId
      BY DEF IInv, RegistryOK, RecordNewest
    <2>3. FactOf(r) = Ledger!Fact(nextId, 1, r.owner) /\ r.owner \in Owner
      BY <2>1 DEF Ledger!Fact, FactOf, Record
    <2>4. Ledger!Name
      BY <1>1, <2>1, <2>2, <2>3 DEF Ledger!Name, View
    <2> QED
      BY <2>4 DEF Ledger!Next
  <1> QED
    BY <1>2, <1>3, <1>4
       DEF RegistryStep, RecordKept, RecordDropped, RecordTransfers

(* A node learns what is written, or forgets.                              *)
LEMMA EntryRefines ==
  ASSUME IInv, EntryStep, UNCHANGED registryVars
  PROVE  Ledger!Next \/ UNCHANGED <<written, View>>
  <1>1. written' = written
    BY DEF registryVars
  <1>2. CASE entry' = entry
    BY <1>1, <1>2 DEF View
  <1>3. CASE entry' # entry
    <2>1. PICK n \in Node, e \in Entry :
            EntryOK(e) /\ Moves(n, e) /\ entry' = [entry EXCEPT ![n] = e]
      BY <1>3 DEF EntryStep
    <2>2. View' = [View EXCEPT ![n] = FactOf(e)]
      BY <2>1 DEF View, IInv, NodesOK
    <2>3. CASE FactOf(e) = FactOf(entry[n])
      BY <1>1, <2>2, <2>3 DEF View
    <2>4. CASE e = NoEntry
      <3>1. Ledger!Forget(n)
        BY <1>1, <2>2, <2>4 DEF Ledger!Forget, View
      <3> QED
        BY <3>1 DEF Ledger!Next
    <2>5. CASE FactOf(e) \in written /\ (entry[n].id = e.id => entry[n].ver <= e.ver)
      <3> DEFINE f == FactOf(e)
      <3>1. f \in written /\ f.id = e.id /\ f.ver = e.ver
        BY <2>5 DEF FactOf
      <3>2. View[n].id = entry[n].id /\ View[n].ver = entry[n].ver
        BY DEF View, FactOf
      <3>3. View[n].id = f.id => View[n].ver <= f.ver
        BY <2>5, <3>1, <3>2
      <3>4. Ledger!Learn(n)
        BY <1>1, <2>2, <3>1, <3>3 DEF Ledger!Learn, View
      <3> QED
        BY <3>4 DEF Ledger!Next
    <2> QED
      BY <2>1, <2>3, <2>4, <2>5 DEF Moves
  <1> QED
    BY <1>2, <1>3

(* The protocol implements the ledger: the registry writes one owner for   *)
(* each version, never takes one back, and a node only moves forward.      *)
THEOREM ImplementsLedger == Spec => LedgerSpec
  <1>1. Init => Ledger!Init
    BY DEF Init, Ledger!Init
  <1>2. IInv /\ [Next]_vars => [Ledger!Next]_<<written, View>>
    <2> SUFFICES ASSUME IInv, [Next]_vars
                 PROVE  Ledger!Next \/ UNCHANGED <<written, View>>
      OBVIOUS
    <2>1. CASE UNCHANGED vars
      BY <2>1 DEF vars, registryVars, nodeVars, View
    <2>2. CASE StepShape
      BY <2>2, RegistryRefines, EntryRefines DEF StepShape
    <2> QED
      BY <2>1, <2>2, StepInv
  <1>3. QED
    BY <1>1, <1>2, AlwaysIInv, PTL DEF Spec, LedgerSpec, Ledger!Spec, View

=============================================================================
