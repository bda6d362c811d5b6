--------------------- MODULE MeshAuthorityViews_proofs ----------------------
(***************************************************************************)
(* What the nodes of MeshAuthority go by, while messages are on their way: *)
(* a node that froze its object has an answer coming, two nodes never go on*)
(* simulating it, and once every message is handled every node goes by the *)
(* registry's record, whose variables are the registry's own.              *)
(*                                                                         *)
(* The invariant says what is on its way to a node the registry counts on: *)
(* what is announced only gets newer, the record itself is there unless the*)
(* node goes by it, and so is the answer to a release, unless the release  *)
(* is still on its way.                                                    *)
(***************************************************************************)
EXTENDS MeshAuthorityLinks_proofs

-----------------------------------------------------------------------------
(* What is announced to a node only gets newer.                            *)

Says(m) == m.kind = "announce"

Later(x, y) == x.id < y.id \/ (x.id = y.id /\ x.ver <= y.ver)

Rising(s, e) ==
  \A i \in DOMAIN s : Says(s[i]) =>
    /\ Later(e, s[i])
    /\ \A j \in DOMAIN s : i < j /\ Says(s[j]) => Later(s[i], s[j])

LEMMA RisingShort ==
  ASSUME NEW m, NEW e, m.kind # "announce"
  PROVE  Rising(<<>>, e) /\ Rising(<<m>>, e)
  BY DEF Rising, Says

LEMMA RisingPop ==
  ASSUME NEW S, NEW s \in Seq(S), s # <<>>, NEW e, Rising(s, e)
  PROVE  /\ Rising(Tail(s), e)
         /\ Says(Head(s)) => Later(e, Head(s)) /\ Rising(Tail(s), Head(s))
  <1>1. /\ Tail(s) \in Seq(S) /\ Len(Tail(s)) = Len(s) - 1
        /\ \A i \in 1 .. Len(Tail(s)) : Tail(s)[i] = s[i + 1]
    BY HeadTailProperties
  <1>2. /\ Len(s) \in Nat \ {0} /\ DOMAIN s = 1 .. Len(s)
        /\ DOMAIN Tail(s) = 1 .. (Len(s) - 1)
    BY <1>1, LenProperties, EmptySeq
  <1>3. Head(s) = s[1]
    OBVIOUS
  <1>4. \A i \in DOMAIN Tail(s) :
          Tail(s)[i] = s[i + 1] /\ i + 1 \in DOMAIN s /\ 1 \in DOMAIN s /\ 1 < i + 1
    BY <1>1, <1>2
  <1>5. \A i, j \in DOMAIN Tail(s) : i < j => i + 1 < j + 1
    BY <1>2
  <1>6. Rising(Tail(s), e)
    BY <1>4, <1>5 DEF Rising
  <1>7. ASSUME Says(Head(s))
        PROVE  Later(e, Head(s)) /\ Rising(Tail(s), Head(s))
    <2>1. 1 \in DOMAIN s
      BY <1>2
    <2> QED
      BY <1>3, <1>4, <1>5, <1>7, <2>1 DEF Rising
  <1> QED
    BY <1>6, <1>7

LEMMA RisingAppend ==
  ASSUME NEW S, NEW s \in Seq(S), NEW m \in S, NEW e, Rising(s, e),
         Says(m) => /\ Later(e, m)
                    /\ \A x \in Items(s) : Says(x) => Later(x, m)
  PROVE  Rising(Append(s, m), e)
  <1>1. /\ Append(s, m) \in Seq(S) /\ Len(Append(s, m)) = Len(s) + 1
        /\ \A i \in 1 .. Len(s) : Append(s, m)[i] = s[i]
        /\ Append(s, m)[Len(s) + 1] = m
    BY AppendProperties
  <1>2. /\ Len(s) \in Nat /\ DOMAIN s = 1 .. Len(s)
        /\ DOMAIN Append(s, m) = 1 .. (Len(s) + 1)
    BY <1>1, LenProperties
  <1>3. \A i \in DOMAIN Append(s, m) :
          \/ i \in DOMAIN s /\ Append(s, m)[i] = s[i] /\ s[i] \in Items(s)
          \/ i \notin DOMAIN s /\ Append(s, m)[i] = m
    BY <1>1, <1>2 DEF Items
  <1>4. \A i, j \in DOMAIN Append(s, m) : i < j => i \in DOMAIN s
    BY <1>2
  <1> QED
    BY <1>3, <1>4 DEF Rising

(* The order asks only for the id and the version of the entry, and none of*)
(* them is older than no entry.                                            *)
LEMMA RisingSame ==
  ASSUME NEW s, NEW e, NEW f, Rising(s, e), f.id = e.id, f.ver = e.ver
  PROVE  Rising(s, f)
  BY DEF Rising, Later

LEMMA RisingForgets ==
  ASSUME NEW s \in Seq(Message), NEW e, Rising(s, e)
  PROVE  Rising(s, NoEntry)
  <1>1. \A m \in Message : Says(m) => Later(NoEntry, m)
    <2> SUFFICES ASSUME NEW m \in Message, Says(m) PROVE Later(NoEntry, m)
      OBVIOUS
    <2>1. m.id \in Id
      BY DEF Says, Message, Mark, ClaimMessage, ObjectMessage, AssignMessage,
             ReleaseMessage, AnnounceMessage, TransferMessage
    <2>2. NoEntry.id = 0 /\ m.id \in 1 .. MaxId
      BY <2>1 DEF NoEntry, Id
    <2> QED
      BY <2>2, NodeAssumption DEF Later
  <1>2. \A i \in DOMAIN s : s[i] \in Message
    BY ElementOfSeq, LenProperties
  <1> QED
    BY <1>1, <1>2 DEF Rising

(* A record is later, as it is announced, than everything written before.  *)
LEMMA NewestLater ==
  ASSUME NEW r \in Record, NEW W \in SUBSET Facts, r.id # 0,
         \A f \in W : f.id < r.id + 1 /\ (f.id = r.id => f.ver <= r.ver)
  PROVE  /\ \A x : FactOf(x) \in W => Later(x, Announcement(r))
         /\ Later(NoEntry, Announcement(r))
  <1>1. /\ Announcement(r).id = r.id /\ Announcement(r).ver = r.ver
        /\ r.id \in Nat \ {0} /\ NoEntry.id = 0
    BY NodeAssumption DEF Announcement, Record, NoEntry
  <1>2. ASSUME NEW x, FactOf(x) \in W
        PROVE  Later(x, Announcement(r))
    <2>1. FactOf(x).id = x.id /\ FactOf(x).ver = x.ver /\ x.id \in Nat
      BY <1>2, NodeAssumption DEF Facts, FactOf, Id
    <2> QED
      BY <1>1, <1>2, <2>1 DEF Later
  <1>3. Later(NoEntry, Announcement(r))
    BY <1>1 DEF Later
  <1> QED
    BY <1>2, <1>3

-----------------------------------------------------------------------------
(* Every message on its way fits the record: what is announced of its      *)
(* version is what the record says, and what is removed is another object, *)
(* of an id given out before.                                              *)

Fit(r, next) ==
  {m \in Message :
     /\ Says(m) /\ m.id = r.id /\ m.ver = r.ver => m = Announcement(r)
     /\ m.kind = "unregister" => m.id # r.id /\ m.id < next}

Queues(S) == [Channel -> Seq(S)]

FitInv == chan \in Queues(Fit(record, nextId))

LEMMA PopQueues ==
  ASSUME NEW S, chan \in Queues(S), NEW c \in Channel, chan[c] # <<>>
  PROVE  Pop(c) \in Queues(S) /\ Head(chan[c]) \in S
  <1>1. chan[c] \in Seq(S)
    BY DEF Queues
  <1>2. Head(chan[c]) \in S /\ Tail(chan[c]) \in Seq(S)
    BY <1>1, HeadTailProperties
  <1> QED
    BY <1>2 DEF Pop, Queues

LEMMA TellQueues ==
  ASSUME NEW S, NEW ch \in Queues(S), NEW nodes, NEW m \in S
  PROVE  Tell(ch, nodes, m) \in Queues(S)
  <1>1. \A c \in Channel : ch[c] \in Seq(S) /\ Append(ch[c], m) \in Seq(S)
    BY AppendProperties DEF Queues
  <1> QED
    BY <1>1 DEF Tell, Queues

LEMMA AskQueues ==
  ASSUME NEW S, NEW ch \in Queues(S), NEW n \in Node, NEW m \in S
  PROVE  Ask(ch, n, m) \in Queues(S)
  <1>1. Append(ch[Up(n)], m) \in Seq(S)
    BY ChannelType, AppendProperties DEF Queues
  <1> QED
    BY <1>1 DEF Ask, Queues

LEMMA SaidQueues ==
  ASSUME NEW S, NEW ch \in Queues(S), NEW members, Latest \subseteq S,
         Said(ch, members)
  PROVE  chan' \in Queues(S)
  <1>1. \A B \in SUBSET members, b \in Latest : Tell(ch, B, b) \in Queues(S)
    BY TellQueues
  <1>2. \A A, B \in SUBSET members, a, b \in Latest :
          Tell(Tell(ch, A, a), B, b) \in Queues(S)
    BY <1>1, TellQueues
  <1> QED
    BY <1>1, <1>2 DEF Said

LEMMA QueuesMeet ==
  ASSUME NEW S, NEW T, NEW U, S \cap T \subseteq U,
         NEW ch \in Queues(S), ch \in Queues(T)
  PROVE  ch \in Queues(U)
  <1>1. ASSUME NEW c \in Channel PROVE ch[c] \in Seq(U)
    <2>1. ch[c] \in Seq(S) /\ ch[c] \in Seq(T)
      BY DEF Queues
    <2>2. \A i \in 1 .. Len(ch[c]) : ch[c][i] \in U
      BY <2>1, ElementOfSeq
    <2> QED
      BY <2>1, <2>2
  <1> QED
    BY <1>1 DEF Queues

(* A step of the registry keeps what is on its way fit.                    *)
LEMMA FitMoves ==
  ASSUME IInv, RegistryStep
  PROVE  Sound(written) \cap Fit(record, nextId) \subseteq Fit(record', nextId')
  <1> SUFFICES ASSUME NEW m \in Sound(written), m \in Fit(record, nextId)
               PROVE  m \in Fit(record', nextId')
    OBVIOUS
  <1>1. /\ m \in Message
        /\ m.kind \in {"announce", "unregister"} => m.id \in Id /\ m.id # 0
        /\ Says(m) => FactOf(m) \in written
    BY MessageFields DEF Sound, Says, Id
  <1>2. /\ FactOf(m).id = m.id /\ FactOf(m).ver = m.ver
        /\ \A f \in written : f.id < nextId
        /\ record # NoRecord => \A f \in written : f.id = record.id => f.ver <= record.ver
        /\ nextId \in Nat
    BY DEF FactOf, IInv, RegistryOK, RecordNewest
  <1>3. CASE RecordKept
    BY <1>3 DEF RecordKept
  <1>4. CASE RecordChanged
    <2>1. PICK r \in Record, owner \in Owner :
            /\ record # NoRecord
            /\ r.id = record.id /\ r.ver = record.ver
            /\ record' = Changed(r, owner)
            /\ nextId' = nextId
      BY <1>4 DEF RecordChanged
    <2>2. record'.id = record.id /\ record'.ver = record.ver + 1 /\ record.ver \in Nat
      BY <2>1, ChangedType DEF Record
    <2>3. ~ (Says(m) /\ m.id = record'.id /\ m.ver = record'.ver)
      BY <1>1, <1>2, <2>1, <2>2
    <2> QED
      BY <1>1, <2>1, <2>2, <2>3 DEF Fit
  <1>5. CASE RecordNamed
    <2>1. nextId \in Id /\ record'.id = nextId /\ nextId' = nextId + 1
      BY <1>5 DEF RecordNamed
    <2>2. ~ (Says(m) /\ m.id = record'.id)
      BY <1>1, <1>2, <2>1
    <2>3. m.kind = "unregister" => m.id < nextId
      BY DEF Fit
    <2>4. m.kind = "unregister" => m.id # record'.id /\ m.id < nextId'
      <3>1. m.kind = "unregister" => m.id \in Nat
        BY <1>1, NodeAssumption DEF Id
      <3> QED
        BY <1>2, <2>1, <2>3, <3>1
    <2> QED
      BY <1>1, <2>2, <2>4 DEF Fit
  <1>6. CASE RecordDropped
    <2>1. record'.id = 0 /\ nextId' = nextId
      BY <1>6 DEF RecordDropped, NoRecord
    <2> QED
      BY <1>1, <2>1 DEF Fit, Says
  <1>7. CASE RecordTransfers
    <2>1. /\ record'.id = record.id /\ record'.ver = record.ver
          /\ record'.owner = record.owner /\ record'.schema = record.schema
          /\ nextId' = nextId
      BY <1>7 DEF RecordTransfers, FactOf
    <2>2. Announcement(record') = Announcement(record)
      BY <2>1 DEF Announcement
    <2> QED
      BY <1>1, <2>1, <2>2 DEF Fit
  <1> QED
    BY <1>3, <1>4, <1>5, <1>6, <1>7 DEF RegistryStep

LEMMA LatestFits ==
  ASSUME IInv, RegistryStep
  PROVE  Latest \subseteq Fit(record', nextId')
  <1> SUFFICES ASSUME NEW m \in Latest PROVE m \in Fit(record', nextId')
    OBVIOUS
  <1>1. CASE m.kind = "unregister"
    <2>1. m \in Message /\ m.id \in Id /\ record'.id = 0 /\ m.id = record.id
      BY <1>1 DEF Latest, Talk, Message, Mark, ClaimMessage, ObjectMessage,
           AssignMessage, ReleaseMessage, AnnounceMessage, TransferMessage
    <2>2. record.id # 0 /\ record.id \in Nat
      BY <2>1, NodeAssumption DEF Id
    <2>3. nextId = record.id + 1
      BY <2>2 DEF IInv, RegistryOK, RecordNewest, NoRecord
    <2>4. nextId' = nextId \/ nextId' = nextId + 1
      BY DEF RegistryStep, RecordKept, RecordChanged, RecordNamed, RecordDropped,
             RecordTransfers
    <2> QED
      BY <1>1, <2>1, <2>2, <2>3, <2>4 DEF Fit, Says
  <1>2. CASE m.kind # "unregister"
    BY <1>2 DEF Latest, Talk, Fit, Says
  <1> QED
    BY <1>1, <1>2

(* What the registry does with the channels, whatever it handles.          *)
LEMMA RegistrySaid ==
  ASSUME IInv, LinkInv, NEW n \in Node, RegistryReceives(n)
  PROVE  \/ /\ Head(chan[Up(n)]).kind = "open"
            /\ chan' = Tell(Pop(Up(n)), {n}, Hello)
         \/ \E members \in SUBSET Node : Said(Pop(Up(n)), members)
  <1> DEFINE m == Head(chan[Up(n)])
  <1>1. m \in Message /\ Members \in SUBSET Node
    BY WiresType, ChannelsApart, PopAt, RecordFacts DEF RegistryReceives
  <1>2. CASE m.kind = "hello" /\ HandleHello(n)
    BY <1>2, HelloSaid
  <1>3. CASE m.kind = "lost" /\ HandleLost(n)
    <2>1. Members \ {n} \in SUBSET Node
      BY <1>1
    <2> QED
      BY <1>3, <2>1, LostSaid
  <1>4. CASE Ignore(n)
    BY <1>1, <1>4 DEF Ignore, Said
  <1>5. CASE /\ n \in Members
             /\ \/ m.kind = "claim" /\ HandleClaim(n, m)
                \/ m.kind = "drop" /\ HandleDrop(n, m)
                \/ m.kind = "request" /\ HandleRequest(n, m)
                \/ m.kind = "assign" /\ HandleAssign(n, m)
                \/ m.kind = "release" /\ HandleRelease(n, m)
    BY <1>1, <1>5, HandlerSaid
  <1> QED
    BY <1>2, <1>3, <1>4, <1>5 DEF RegistryReceives

LEMMA FitStep == IInv /\ LinkInv /\ FitInv /\ [Next]_vars => FitInv'
  <1> SUFFICES ASSUME IInv, LinkInv, FitInv, [Next]_vars PROVE FitInv'
    OBVIOUS
  <1> DEFINE F == Fit(record, nextId)
             G == Fit(record', nextId')
  <1>1. chan \in Queues(F) /\ chan \in Queues(Sound(written))
    BY DEF FitInv, IInv, Channels, Queues
  <1>2. RegistryStep => Latest \subseteq G /\ chan \in Queues(G)
    BY <1>1, FitMoves, LatestFits, QueuesMeet
  <1>3. Hello \in F /\ Hello \in G /\ Opened \in F /\ Lost \in F
    BY DEF Fit, Says, Message, Mark, Hello, Opened, Lost
  <1>4. Asks \subseteq F
    BY DEF Asks, Fit, RegistryKinds, Says
  <1> SUFFICES chan' \in Queues(G)
    BY DEF FitInv
  <1>5. UNCHANGED registryVars => F = G
    BY DEF registryVars
  <1>6. \A n \in Node : Up(n) \in Channel /\ Down(n) \in Channel
    BY ChannelsApart
  <1> HIDE DEF F, G
  <1>7. ASSUME NEW n \in Node, RegistryReceives(n) PROVE chan' \in Queues(G)
    <2>1. RegistryStep
      BY <1>7, ReceiveGood DEF GoodStep
    <2>2. Pop(Up(n)) \in Queues(G)
      BY <1>2, <1>6, <1>7, <2>1, PopQueues DEF RegistryReceives
    <2> QED
      BY <1>2, <1>3, <1>7, <2>1, <2>2, RegistrySaid, TellQueues, SaidQueues
  <1>8. CASE TransferTimesOut
    <2>1. RegistryStep
      BY <1>8, TimeoutGood DEF GoodStep
    <2>2. Said(chan, Members)
      BY <1>8, RecordFacts, CancelSaid DEF TransferTimesOut
    <2> QED
      BY <1>2, <2>1, <2>2, SaidQueues
  <1>9. ASSUME NEW n \in Node, NodeReceives(n) PROVE chan' \in Queues(G)
    <2>1. Pop(Down(n)) \in Queues(F) /\ F = G
      BY <1>1, <1>5, <1>6, <1>9, PopQueues DEF NodeReceives
    <2>2. Claim(n) \in F
      BY <1>4, AskTypes
    <2>3. CASE Head(chan[Down(n)]).kind \in Marks
      <3>1. \/ chan' = Pop(Down(n))
            \/ chan' = Ask(Pop(Down(n)), n, Hello)
            \/ chan' = Ask(Pop(Down(n)), n, Claim(n))
        BY <1>9, <2>3 DEF NodeReceives, NodeOpen, NodeHello, NodeLost, NodeKinds,
             Marks
      <3> QED
        BY <1>3, <2>1, <2>2, <3>1, AskQueues
    <2>4. CASE Head(chan[Down(n)]).kind \notin Marks
      BY <1>4, <1>9, <2>1, <2>4, NodeAsks, AskQueues
    <2> QED
      BY <2>3, <2>4
  <1>10. ASSUME NEW n \in Node, Game(n) PROVE chan' \in Queues(G)
    BY <1>1, <1>4, <1>5, <1>10, GameAsks, GameGood, AskQueues
  <1>11. ASSUME NEW n \in Node, Network(n) PROVE chan' \in Queues(G)
    <2>1. F = G
      BY <1>5, <1>11, NetworkGood
    <2>2. ASSUME NEW x \in Seq(F), NEW y \in Seq(F)
          PROVE  [chan EXCEPT ![Up(n)] = x, ![Down(n)] = y] \in Queues(F)
      BY <1>1 DEF Queues
    <2>3. /\ <<Lost>> \in Seq(F) /\ <<>> \in Seq(F)
          /\ chan[Up(n)] \in Seq(F) /\ chan[Down(n)] \in Seq(F)
      BY <1>1, <1>3, <1>6 DEF Queues
    <2>4. /\ Append(chan[Up(n)], Opened) \in Seq(F)
          /\ Append(chan[Down(n)], Opened) \in Seq(F)
      BY <1>3, <2>3, AppendProperties
    <2>5. CASE Connect(n)
      <3>1. n # Registry
        BY <2>5 DEF Connect
      <3>2. chan' = [chan EXCEPT ![Up(n)] = Append(chan[Up(n)], Opened),
                                 ![Down(n)] = Append(chan[Down(n)], Opened)]
        BY <1>1, <1>6, <2>5, <3>1, ChannelsApart DEF Connect, Queues
      <3> QED
        BY <2>1, <2>2, <2>4, <3>2
    <2>6. CASE Disconnect(n)
      BY <2>1, <2>2, <2>3, <2>6 DEF Disconnect, CutOff
    <2>7. CASE Restart(n)
      BY <2>1, <2>2, <2>3, <2>7 DEF Restart, CutOff
    <2> QED
      BY <1>11, <2>5, <2>6, <2>7 DEF Network
  <1>12. CASE UNCHANGED <<registryVars, chan>>
    BY <1>1, <1>5, <1>12
  <1> QED
    BY <1>7, <1>8, <1>9, <1>10, <1>11, <1>12 DEF Next, vars, CancelReleases

-----------------------------------------------------------------------------
(* What holds of the entry of a node by itself.  It is frozen only while it*)
(* names the node the owner, the game's object is bound to it if its       *)
(* variables are the same, and it is the entry of a node that was in the   *)
(* mesh.                                                                   *)

EntryInv ==
  \A n \in Node :
    /\ entry[n].frozen => entry[n].owner = n
    /\ local[n] /\ entry[n].id # 0 /\ SameSchema(n, entry[n].schema) =>
         entry[n].bound
    /\ entry[n].id # 0 => n \in Members \cup departed

(* The registry counts on the node that anything but a mark is on its way  *)
(* to.                                                                     *)
Settled(n) == n = Registry \/ Counted(Kinds(chan[Up(n)]), n \in ready)

LEMMA ToldIsSettled ==
  ASSUME IInv, LinkInv, NEW n \in Node, NEW m \in Items(chan[Down(n)]),
         m.kind \notin Marks
  PROVE  Settled(n) /\ n \in Members
  <1>1. CASE n = Registry
    BY <1>1 DEF Settled, Members
  <1>2. CASE n # Registry
    <2>1. LinkOK(chan[Up(n)], chan[Down(n)], n \in linked, n \in ready, reach[n])
      BY <1>2, LinkTypes DEF Others
    <2>2. m.kind \in Kinds(chan[Down(n)])
      BY DEF Kinds
    <2> QED
      BY <2>1, <2>2 DEF LinkOK, Shape, Settled, Counted, Members
  <1> QED
    BY <1>1, <1>2

(* The node has the same object, of the same version, after the step.      *)
SameFact(n) ==
  /\ entry'[n].id = entry[n].id /\ entry'[n].ver = entry[n].ver
  /\ entry'[n].owner = entry[n].owner /\ entry'[n].schema = entry[n].schema
  /\ \A k \in Node : k # n => entry'[k] = entry[k]

LEMMA MarkedEntry ==
  ASSUME IInv, NEW n \in Node, NEW f \in BOOLEAN, NEW o \in BOOLEAN,
         \/ entry' = [entry EXCEPT ![n].frozen = f]
         \/ entry' = [entry EXCEPT ![n].frozen = f, ![n].own = o]
  PROVE  SameFact(n) /\ entry'[n].bound = entry[n].bound /\ entry'[n].frozen = f
  <1>1. entry \in [Node -> Entry] /\ entry[n] \in Entry
    BY DEF IInv, NodesOK
  <1>2. CASE entry' = [entry EXCEPT ![n].frozen = f]
    <2>1. entry'[n] = [entry[n] EXCEPT !.frozen = f]
      BY <1>1, <1>2
    <2> QED
      BY <1>1, <1>2, <2>1 DEF SameFact, Entry
  <1>3. CASE entry' = [entry EXCEPT ![n].frozen = f, ![n].own = o]
    <2>1. entry'[n] = [entry[n] EXCEPT !.frozen = f, !.own = o]
      BY <1>1, <1>3
    <2> QED
      BY <1>1, <1>3, <2>1 DEF SameFact, Entry
  <1> QED
    BY <1>2, <1>3

LEMMA BoundEntry ==
  ASSUME IInv, NEW n \in Node, NEW b, entry' = [entry EXCEPT ![n].bound = b]
  PROVE  SameFact(n) /\ entry'[n].bound = b /\ entry'[n].frozen = entry[n].frozen
  <1>1. entry \in [Node -> Entry] /\ entry[n] \in Entry
    BY DEF IInv, NodesOK
  <1>2. entry'[n] = [entry[n] EXCEPT !.bound = b]
    BY <1>1
  <1> QED
    BY <1>1, <1>2 DEF SameFact, Entry

LEMMA PutEntry ==
  ASSUME IInv, NEW n \in Node, NEW e, entry' = [entry EXCEPT ![n] = e]
  PROVE  entry'[n] = e /\ \A k \in Node : k # n => entry'[k] = entry[k]
  BY DEF IInv, NodesOK

(* The members and the nodes that left are remembered.                     *)
LEMMA MetGrows ==
  ASSUME IInv, [Next]_vars
  PROVE  Members \cup departed \subseteq (Members \cup departed)'
  <1>1. CASE UNCHANGED <<ready, departed>>
    BY <1>1 DEF Members
  <1>2. ASSUME NEW n \in Node, RegistryReceives(n)
        PROVE  \/ UNCHANGED <<ready, departed>>
               \/ HandleHello(n)
               \/ HandleLost(n)
    BY <1>2 DEF RegistryReceives
  <1>3. ASSUME NEW n \in Node, HandleHello(n) \/ HandleLost(n)
        PROVE  Members \cup departed \subseteq (Members \cup departed)'
    BY <1>3 DEF HandleHello, HandleLost, Members
  <1>4. CASE TransferTimesOut
    BY <1>1, <1>4 DEF TransferTimesOut
  <1>5. ASSUME NEW n \in Node, NodeReceives(n) \/ CancelReleases(n)
        PROVE  UNCHANGED <<ready, departed>>
    BY <1>5 DEF NodeReceives, CancelReleases, registryVars
  <1>6. ASSUME NEW n \in Node, Game(n) \/ Network(n)
        PROVE  UNCHANGED <<ready, departed>>
    BY <1>6, GameGood, NetworkGood DEF registryVars
  <1> QED
    BY <1>1, <1>2, <1>3, <1>4, <1>5, <1>6 DEF Next, vars, registryVars

(* What an announcement makes of the entry.                                *)
LEMMA AnnouncedEntry ==
  ASSUME IInv, NEW n \in Node, NEW m \in Sound(written), Says(m),
         NodeAnnounce(n, m)
  PROVE  /\ FactOf(entry'[n]) = FactOf(m) /\ entry'[n].schema = m.schema
         /\ entry'[n].id = m.id /\ entry'[n].ver = m.ver
         /\ entry'[n].owner = m.owner
         /\ local[n] /\ SameSchema(n, m.schema) => entry'[n].bound
         /\ entry'[n].frozen =>
              entry[n].id = m.id /\ entry[n].owner = m.owner /\ entry[n].frozen
         /\ \A k \in Node : k # n => entry'[k] = entry[k]
  <1> DEFINE same == entry[n].id = m.id
             known == IF same THEN entry[n] ELSE NoEntry
             kept == same /\ ~ (known.owner # m.owner)
             e == [id |-> m.id, owner |-> m.owner, ver |-> m.ver,
                   schema |-> m.schema,
                   bound |-> known.bound \/ (local[n] /\ SameSchema(n, m.schema)),
                   frozen |-> kept /\ known.frozen,
                   own |-> kept /\ known.own]
  <1>1. entry' = [entry EXCEPT ![n] = e]
    BY DEF NodeAnnounce
  <1> HIDE DEF e
  <1>2. entry'[n] = e /\ \A k \in Node : k # n => entry'[k] = entry[k]
    BY <1>1, PutEntry
  <1>3. /\ e.id = m.id /\ e.ver = m.ver /\ e.owner = m.owner /\ e.schema = m.schema
        /\ FactOf(e) = FactOf(m)
    BY DEF e, FactOf
  <1>4. e.frozen => entry[n].id = m.id /\ entry[n].owner = m.owner /\ entry[n].frozen
    BY DEF e
  <1>5. local[n] /\ SameSchema(n, m.schema) => e.bound
    BY DEF e
  <1> QED
    BY <1>2, <1>3, <1>4, <1>5

(* What handling a message makes of the entry.                             *)
LEMMA ReceivedEntry ==
  ASSUME IInv, NEW n \in Node, NodeReceives(n)
  PROVE  LET m == Head(chan[Down(n)])
         IN  \/ entry' = entry
             \/ Says(m) /\ reach[n] /\ NodeAnnounce(n, m)
             \/ m.kind = "unregister" /\ entry[n].id = m.id
                  /\ entry' = [entry EXCEPT ![n] = NoEntry]
             \/ m.kind = "transfer" /\ Hands(n, m)
                  /\ SameFact(n) /\ entry'[n].bound = entry[n].bound
             \/ m.kind = "denied" /\ SameFact(n)
                  /\ entry'[n].bound = entry[n].bound /\ ~ entry'[n].frozen
  <1> DEFINE m == Head(chan[Down(n)])
  <1>1. CASE m.kind = "transfer" /\ NodeTransfer(n, m)
    BY <1>1, MarkedEntry DEF NodeTransfer
  <1>2. CASE m.kind = "denied" /\ NodeDenied(n, m) /\ entry' # entry
    BY <1>2, MarkedEntry DEF NodeDenied
  <1> QED
    BY <1>1, <1>2 DEF NodeReceives, NodeOpen, NodeHello, NodeLost,
       NodeUnregister, NodeTransferRefused, Says

LEMMA ReceivedOthers ==
  ASSUME IInv, NEW n \in Node, NodeReceives(n), NEW k \in Node, k # n
  PROVE  entry'[k] = entry[k]
  <1>1. Head(chan[Down(n)]) \in Sound(written)
    BY ChannelsApart, PopSound DEF NodeReceives, IInv
  <1> QED
    BY <1>1, ReceivedEntry, AnnouncedEntry, PutEntry DEF SameFact

LEMMA EntryStepInv == IInv /\ LinkInv /\ EntryInv /\ [Next]_vars => EntryInv'
  <1> SUFFICES ASSUME IInv, LinkInv, EntryInv, [Next]_vars PROVE EntryInv'
    OBVIOUS
  <1> DEFINE Met == Members \cup departed
             OwnOK(n) ==
               /\ entry[n].frozen => entry[n].owner = n
               /\ local[n] /\ entry[n].id # 0 /\ SameSchema(n, entry[n].schema) =>
                    entry[n].bound
               /\ entry[n].id # 0 => n \in Met
  <1>1. \A n \in Node : n \in Met => n \in Met'
    BY MetGrows
  <1>2. \A n \in Node : OwnOK(n)
    BY DEF EntryInv
  <1> SUFFICES \A n \in Node : OwnOK(n)'
    BY DEF EntryInv
  <1> HIDE DEF Met
  <1>3. CASE UNCHANGED <<entry, local>>
    BY <1>1, <1>2, <1>3
  <1>4. ASSUME NEW n \in Node, NodeReceives(n)
        PROVE  \A k \in Node : OwnOK(k)'
    <2> DEFINE m == Head(chan[Down(n)])
    <2>1. local' = local /\ m \in Sound(written) /\ m \in Items(chan[Down(n)])
      <3>1. chan[Down(n)] \in Seq(Message) /\ chan[Down(n)] # <<>>
        BY <1>4, WiresType, ChannelsApart DEF NodeReceives, Wires
      <3> QED
        BY <1>4, <3>1, ChannelsApart, PopSound, ItemsPop DEF NodeReceives, IInv
    <2>2. CASE Says(m) /\ NodeAnnounce(n, m)
      <3>1. n \in Met'
        <4>1. n \in Members
          BY <2>1, <2>2, ToldIsSettled DEF Says, Marks
        <4> QED
          BY <1>1, <4>1 DEF Met
      <3>2. OwnOK(n)'
        BY <1>2, <2>1, <2>2, <3>1, AnnouncedEntry DEF SameSchema
      <3> QED
        BY <1>1, <1>2, <2>1, <2>2, <3>2, AnnouncedEntry
    <2>3. CASE entry' = [entry EXCEPT ![n] = NoEntry]
      <3>1. ~ NoEntry.frozen /\ NoEntry.id = 0
        BY DEF NoEntry
      <3> QED
        BY <1>1, <1>2, <2>1, <2>3, <3>1, PutEntry
    <2>4. CASE SameFact(n) /\ entry'[n].bound = entry[n].bound
               /\ (Hands(n, m) \/ ~ entry'[n].frozen)
      BY <1>1, <1>2, <2>1, <2>4 DEF SameFact, Hands
    <2> QED
      BY <1>3, <1>4, <2>1, <2>2, <2>3, <2>4, ReceivedEntry
  <1>5. ASSUME NEW n \in Node, CancelReleases(n)
        PROVE  \A k \in Node : OwnOK(k)'
    <2>1. /\ SameFact(n) /\ entry'[n].bound = entry[n].bound
          /\ entry'[n].frozen = FALSE /\ local' = local
      BY <1>5, MarkedEntry DEF CancelReleases
    <2> QED
      BY <1>1, <1>2, <2>1 DEF SameFact
  <1>6. ASSUME NEW n \in Node, Game(n)
        PROVE  \A k \in Node : OwnOK(k)'
    <2>1. CASE Register(n)
      <3>1. /\ SameFact(n) /\ entry'[n].frozen = entry[n].frozen
            /\ entry'[n].bound = (entry[n].bound \/
                 (entry[n].id # 0 /\ SameSchema(n, entry[n].schema)))
        BY <2>1, BoundEntry DEF Register
      <3>2. \A k \in Node : k # n => local'[k] = local[k]
        BY <2>1 DEF Register, IInv, NodesOK
      <3>3. \A k \in Node : k # n => OwnOK(k)'
        BY <1>1, <1>2, <3>1, <3>2 DEF SameFact
      <3>4. SameSchema(n, entry'[n].schema) = SameSchema(n, entry[n].schema)
        BY <3>1 DEF SameFact
      <3>5. entry[n].frozen => entry[n].owner = n
        BY <1>2
      <3>6. entry[n].id # 0 => n \in Met'
        BY <1>1, <1>2
      <3>7. OwnOK(n)'
        BY <3>1, <3>4, <3>5, <3>6 DEF SameFact, SameSchema
      <3> QED
        BY <3>3, <3>7
    <2>2. CASE Unregister(n)
      <3>1. SameFact(n) /\ entry'[n].frozen = entry[n].frozen
        BY <2>2, BoundEntry DEF Unregister
      <3>2. ~ local'[n] /\ \A k \in Node : k # n => local'[k] = local[k]
        BY <2>2 DEF Unregister, IInv, NodesOK
      <3> QED
        BY <1>1, <1>2, <3>1, <3>2 DEF SameFact
    <2>3. ASSUME NEW to \in Owner, ReleaseTo(n, to)
          PROVE  \A k \in Node : OwnOK(k)'
      <3>1. /\ SameFact(n) /\ entry'[n].bound = entry[n].bound
            /\ entry[n].owner = n /\ local' = local
        BY <2>3, MarkedEntry DEF ReleaseTo
      <3> QED
        BY <1>1, <1>2, <3>1 DEF SameFact
    <2> QED
      BY <1>3, <1>6, <2>1, <2>2, <2>3 DEF Game, Request, Assign
  <1>7. ASSUME NEW n \in Node, Restart(n)
        PROVE  \A k \in Node : OwnOK(k)'
    <2>1. ~ NoEntry.frozen /\ NoEntry.id = 0
      BY DEF NoEntry
    <2>2. /\ entry'[n] = NoEntry
          /\ \A k \in Node : k # n => entry'[k] = entry[k]
      BY <1>7, PutEntry DEF Restart
    <2>3. \A k \in Node : k # n => local'[k] = local[k]
      BY <1>7 DEF Restart, IInv, NodesOK
    <2> QED
      BY <1>1, <1>2, <2>1, <2>2, <2>3
  <1> QED
    BY <1>3, <1>4, <1>5, <1>6, <1>7 DEF Next, vars, nodeVars, RegistryReceives,
       TransferTimesOut, Network, Connect, Disconnect

-----------------------------------------------------------------------------
(* What the registry adds to a queue in one step.                          *)

News == Latest \cup {Hello}

Longer(s, t) ==
  \/ t = s
  \/ \E a \in News : t = Append(s, a)
  \/ \E a, b \in News : t = Append(Append(s, a), b)

LEMMA NewsTypes == News \subseteq Message /\ ~ Says(Hello)
  BY DEF News, Latest, Talk, Message, Mark, Hello, Says

LEMMA LongerItems ==
  ASSUME NEW s \in Seq(Message), NEW t, Longer(s, t)
  PROVE  Items(s) \subseteq Items(t)
  <1>1. \A a \in News : Append(s, a) \in Seq(Message)
    BY NewsTypes, AppendProperties
  <1>2. \A a \in News : Items(s) \subseteq Items(Append(s, a))
    BY NewsTypes, ItemsAppend
  <1>3. ASSUME NEW a \in News, NEW b \in News
        PROVE  Items(s) \subseteq Items(Append(Append(s, a), b))
    <2> DEFINE u == Append(s, a)
    <2>1. u \in Seq(Message) /\ Items(s) \subseteq Items(u)
      BY <1>1, <1>2
    <2> HIDE DEF u
    <2>2. Items(u) \subseteq Items(Append(u, b))
      BY <2>1, NewsTypes, ItemsAppend
    <2> QED
      BY <2>1, <2>2 DEF u
  <1> QED
    BY <1>2, <1>3 DEF Longer

(* The queue of a node that some messages are told to.                     *)
LEMMA SaidAt ==
  ASSUME NEW ch \in Wires, NEW members \in SUBSET Node, Said(ch, members),
         NEW n \in Node
  PROVE  /\ Longer(ch[Down(n)], chan'[Down(n)])
         /\ n # Registry => chan'[Up(n)] = ch[Up(n)]
  <1>1. ASSUME NEW cs \in Wires, NEW B \in SUBSET members, NEW b \in Latest
        PROVE  /\ Tell(cs, B, b) \in Wires
               /\ \/ Tell(cs, B, b)[Down(n)] = cs[Down(n)]
                  \/ Tell(cs, B, b)[Down(n)] = Append(cs[Down(n)], b)
               /\ n # Registry => Tell(cs, B, b)[Up(n)] = cs[Up(n)]
    <2>1. B \in SUBSET Node /\ b \in Message
      BY DEF Latest, Talk
    <2> QED
      BY <2>1, TellAt
  <1>2. CASE chan' = ch
    BY <1>2 DEF Longer
  <1>3. ASSUME NEW B \in SUBSET members, NEW b \in Latest, chan' = Tell(ch, B, b)
        PROVE  /\ Longer(ch[Down(n)], chan'[Down(n)])
               /\ n # Registry => chan'[Up(n)] = ch[Up(n)]
    BY <1>1, <1>3 DEF Longer, News
  <1>4. ASSUME NEW A \in SUBSET members, NEW B \in SUBSET members,
               NEW a \in Latest, NEW b \in Latest,
               chan' = Tell(Tell(ch, A, a), B, b)
        PROVE  /\ Longer(ch[Down(n)], chan'[Down(n)])
               /\ n # Registry => chan'[Up(n)] = ch[Up(n)]
    <2> DEFINE cs == Tell(ch, A, a)
    <2>1. /\ cs \in Wires /\ (n # Registry => cs[Up(n)] = ch[Up(n)])
          /\ cs[Down(n)] = ch[Down(n)] \/ cs[Down(n)] = Append(ch[Down(n)], a)
      BY <1>1
    <2> HIDE DEF cs
    <2>2. /\ \/ Tell(cs, B, b)[Down(n)] = cs[Down(n)]
             \/ Tell(cs, B, b)[Down(n)] = Append(cs[Down(n)], b)
          /\ n # Registry => Tell(cs, B, b)[Up(n)] = cs[Up(n)]
      BY <1>1, <2>1
    <2>3. chan' = Tell(cs, B, b)
      BY <1>4 DEF cs
    <2> QED
      BY <2>1, <2>2, <2>3 DEF Longer, News
  <1> QED
    BY <1>2, <1>3, <1>4 DEF Said

(* What is left of a node's queues when the registry takes a message.      *)
Rest(n, k) == IF n = Registry /\ k = n THEN Tail(chan[Down(k)]) ELSE chan[Down(k)]

LEMMA RegistryQueues ==
  ASSUME IInv, LinkInv, NEW n \in Node, RegistryReceives(n), NEW k \in Node
  PROVE  /\ Longer(Rest(n, k), chan'[Down(k)])
         /\ k # Registry =>
              chan'[Up(k)] = IF k = n THEN Tail(chan[Up(k)]) ELSE chan[Up(k)]
  <1> DEFINE ch == Pop(Up(n))
  <1>1. /\ ch \in Wires /\ ch[Up(n)] = Tail(chan[Up(n)])
        /\ \A d \in Channel : d # Up(n) => ch[d] = chan[d]
    BY WiresType, ChannelsApart, PopAt DEF RegistryReceives
  <1> HIDE DEF ch
  <1>2. ch[Down(k)] = Rest(n, k)
    <2>1. CASE n = Registry /\ k = n
      BY <1>1, <2>1, ChannelsApart DEF Rest
    <2>2. CASE ~ (n = Registry /\ k = n)
      <3>1. Down(k) # Up(n) /\ Down(k) \in Channel
        BY <2>2, ChannelsApart
      <3> QED
        BY <1>1, <2>2, <3>1 DEF Rest
    <2> QED
      BY <2>1, <2>2
  <1>3. ch[Up(k)] = IF k = n THEN Tail(chan[Up(k)]) ELSE chan[Up(k)]
    BY <1>1, ChannelsApart
  <1>4. CASE \E members \in SUBSET Node : Said(ch, members)
    BY <1>1, <1>2, <1>3, <1>4, SaidAt
  <1>5. CASE chan' = Tell(ch, {n}, Hello)
    <2> DEFINE nodes == {n}
    <2>1. nodes \in SUBSET Node /\ Hello \in Message /\ Hello \in News
      BY DEF Message, Mark, Hello, News
    <2>2. chan' = Tell(ch, nodes, Hello)
      BY <1>5
    <2> HIDE DEF nodes
    <2>3. /\ \/ chan'[Down(k)] = ch[Down(k)]
             \/ chan'[Down(k)] = Append(ch[Down(k)], Hello)
          /\ k # Registry => chan'[Up(k)] = ch[Up(k)]
      BY <1>1, <2>1, <2>2, TellAt
    <2> QED
      BY <1>2, <1>3, <2>1, <2>3 DEF Longer
  <1> QED
    BY <1>4, <1>5, RegistrySaid DEF ch

LEMMA TimeoutQueues ==
  ASSUME IInv, TransferTimesOut, NEW k \in Node
  PROVE  /\ Longer(chan[Down(k)], chan'[Down(k)])
         /\ k # Registry => chan'[Up(k)] = chan[Up(k)]
  <1>1. Said(chan, Members) /\ Members \in SUBSET Node
    BY RecordFacts, CancelSaid DEF TransferTimesOut
  <1> QED
    BY <1>1, WiresType, SaidAt

(* What a node adds to its queue to the registry in one step.              *)
Sent == Asks \cup {Hello}

Sends(ch, n) == chan' = ch \/ \E a \in Sent : chan' = Ask(ch, n, a)

LEMMA SentTypes ==
  /\ Sent \subseteq Message
  /\ \A a \in Sent : ~ Says(a) /\ a.kind \notin {"lost", "open"}
  BY DEF Sent, Asks, RegistryKinds, Message, Mark, Hello, Says

LEMMA SentItems ==
  ASSUME NEW s \in Seq(Message), NEW a \in Sent
  PROVE  Items(s) \subseteq Items(Append(s, a))
  BY SentTypes, ItemsAppend

LEMMA SendsAt ==
  ASSUME NEW ch \in Wires, NEW n \in Node, Sends(ch, n)
  PROVE  /\ chan' \in Wires
         /\ \A k \in Node : k # n =>
              chan'[Up(k)] = ch[Up(k)] /\ chan'[Down(k)] = ch[Down(k)]
         /\ \/ chan'[Down(n)] = ch[Down(n)]
            \/ n = Registry /\ \E a \in Sent : chan'[Down(n)] = Append(ch[Down(n)], a)
         /\ chan'[Up(n)] = ch[Up(n)] \/ \E a \in Sent : chan'[Up(n)] = Append(ch[Up(n)], a)
  <1>1. ASSUME NEW a \in Sent
        PROVE  /\ Ask(ch, n, a) \in Wires
               /\ Ask(ch, n, a)[Up(n)] \in {ch[Up(n)], Append(ch[Up(n)], a)}
               /\ \A c \in Channel : c # Up(n) => Ask(ch, n, a)[c] = ch[c]
    BY SentTypes, AskAt
  <1>2. \A k \in Node : k # n => Up(k) # Up(n) /\ Down(k) # Up(n)
    BY ChannelsApart
  <1>3. IF n = Registry THEN Down(n) = Up(n) ELSE Down(n) # Up(n)
    BY ChannelsApart
  <1>4. \A k \in Node : Up(k) \in Channel /\ Down(k) \in Channel
    BY ChannelsApart
  <1> QED
    BY <1>1, <1>2, <1>3, <1>4 DEF Sends

LEMMA ReceivedSends ==
  ASSUME IInv, NEW n \in Node, NodeReceives(n)
  PROVE  Sends(Pop(Down(n)), n)
  <1>1. CASE Head(chan[Down(n)]).kind \in Marks
    <2>1. \/ chan' = Pop(Down(n))
          \/ chan' = Ask(Pop(Down(n)), n, Hello)
          \/ chan' = Ask(Pop(Down(n)), n, Claim(n))
      BY <1>1 DEF NodeReceives, NodeOpen, NodeHello, NodeLost, NodeKinds, Marks
    <2> QED
      BY <2>1, AskTypes DEF Sends, Sent
  <1>2. CASE Head(chan[Down(n)]).kind \notin Marks
    BY <1>2, NodeAsks DEF Sends, Sent
  <1> QED
    BY <1>1, <1>2

LEMMA GameSends ==
  ASSUME IInv, NEW n \in Node, Game(n)
  PROVE  Sends(chan, n)
  BY GameAsks DEF Sends, Sent

(* What the calls of a game make of the entry.                             *)
LEMMA GameEntry ==
  ASSUME IInv, NEW n \in Node, Game(n)
  PROVE  entry' = entry \/ SameFact(n)
  <1>1. CASE Register(n)
    BY <1>1, BoundEntry DEF Register
  <1>2. CASE Unregister(n)
    BY <1>2, BoundEntry DEF Unregister
  <1>3. ASSUME NEW to \in Owner, ReleaseTo(n, to) PROVE SameFact(n)
    BY <1>3, MarkedEntry DEF ReleaseTo
  <1> QED
    BY <1>1, <1>2, <1>3 DEF Game, Request, Assign

(* What the network makes of the queues of a node.                         *)
LEMMA NetworkAt ==
  ASSUME IInv, LinkInv, NEW n \in Node, Network(n)
  PROVE  /\ n \in Others
         /\ \A k \in Node : k # n =>
              chan'[Up(k)] = chan[Up(k)] /\ chan'[Down(k)] = chan[Down(k)]
         /\ Connect(n) => /\ chan'[Up(n)] = Append(chan[Up(n)], Opened)
                          /\ chan'[Down(n)] = Append(chan[Down(n)], Opened)
         /\ Disconnect(n) => chan'[Up(n)] = <<Lost>> /\ chan'[Down(n)] = <<Lost>>
         /\ Restart(n) =>
              /\ chan'[Down(n)] = <<>>
              /\ chan'[Up(n)] = IF n \in linked THEN <<Lost>> ELSE chan[Up(n)]
  <1>1. n \in Others
    BY DEF Network, Connect, Disconnect, Restart, Others, LinkInv
  <1>2. ASSUME NEW x, NEW y, chan' = [chan EXCEPT ![Up(n)] = x, ![Down(n)] = y]
        PROVE  /\ chan'[Up(n)] = x /\ chan'[Down(n)] = y
               /\ \A k \in Node : k # n =>
                    chan'[Up(k)] = chan[Up(k)] /\ chan'[Down(k)] = chan[Down(k)]
    <2>1. \A c \in Channel : chan'[c] = IF c = Down(n) THEN y
                                        ELSE IF c = Up(n) THEN x ELSE chan[c]
      BY <1>2, WiresType DEF Wires
    <2>2. Down(n) # Up(n) /\ Down(n) \in Channel /\ Up(n) \in Channel
      BY <1>1, ChannelsApart DEF Others
    <2>3. \A k \in Node : k # n => /\ Up(k) \notin {Up(n), Down(n)}
                                   /\ Down(k) \notin {Up(n), Down(n)}
                                   /\ Up(k) \in Channel /\ Down(k) \in Channel
      BY <1>1, ChannelsApart DEF Others
    <2> QED
      BY <2>1, <2>2, <2>3
  <1> DEFINE Apart == \A k \in Node : k # n =>
               chan'[Up(k)] = chan[Up(k)] /\ chan'[Down(k)] = chan[Down(k)]
  <1>3. ASSUME Connect(n)
        PROVE  /\ chan'[Up(n)] = Append(chan[Up(n)], Opened)
               /\ chan'[Down(n)] = Append(chan[Down(n)], Opened)
               /\ Apart
    <2>1. chan' = [chan EXCEPT ![Up(n)] = Append(chan[Up(n)], Opened),
                               ![Down(n)] = Append(chan[Down(n)], Opened)]
      BY <1>1, <1>3, ChannelsApart, WiresType DEF Connect, Others, Wires
    <2> QED
      BY <1>2, <2>1
  <1>4. ASSUME Disconnect(n)
        PROVE  chan'[Up(n)] = <<Lost>> /\ chan'[Down(n)] = <<Lost>> /\ Apart
    <2>1. chan' = [chan EXCEPT ![Up(n)] = <<Lost>>, ![Down(n)] = <<Lost>>]
      BY <1>4 DEF Disconnect, CutOff
    <2> QED
      BY <1>2, <2>1
  <1>5. ASSUME Restart(n)
        PROVE  /\ chan'[Up(n)] = IF n \in linked THEN <<Lost>> ELSE chan[Up(n)]
               /\ chan'[Down(n)] = <<>>
               /\ Apart
    <2> DEFINE x == IF n \in linked THEN <<Lost>> ELSE chan[Up(n)]
    <2>1. chan' = [chan EXCEPT ![Up(n)] = x, ![Down(n)] = <<>>]
      BY <1>5 DEF Restart, CutOff
    <2> HIDE DEF x
    <2>2. chan'[Up(n)] = x /\ chan'[Down(n)] = <<>> /\ Apart
      BY <1>2, <2>1
    <2> QED
      BY <2>2 DEF x
  <1> QED
    BY <1>1, <1>3, <1>4, <1>5 DEF Network

-----------------------------------------------------------------------------
(* Nothing announced to a node is older than its entry, or than what was   *)
(* announced to it before.                                                 *)

RisingInv == \A n \in Node : Rising(chan[Down(n)], entry[n])

Written(e) == e = NoEntry \/ FactOf(e) \in written'

(* The news of the registry are newer than everything it wrote.            *)
LEMMA NewsLater ==
  ASSUME IInv', NEW a \in News, Says(a)
  PROVE  /\ a \in Sound(written') /\ a = Announcement(record') /\ record'.id # 0
         /\ \A x : Written(x) => Later(x, a)
  <1>1. /\ a \in Message /\ record'.id # 0 /\ a = Announcement(record')
        /\ FactOf(a) = FactOf(record')
    BY DEF News, Latest, Talk, Says, Hello, Announcement, FactOf
  <1>2. /\ record' \in Record /\ written' \subseteq Facts
        /\ FactOf(record') \in written'
        /\ \A f \in written' : f.id < record'.id + 1
                                /\ (f.id = record'.id => f.ver <= record'.ver)
    BY <1>1 DEF IInv, RegistryOK, RecordNewest, NoRecord
  <1>3. /\ \A x : FactOf(x) \in written' => Later(x, a)
        /\ Later(NoEntry, a)
    BY <1>1, <1>2, NewestLater
  <1> QED
    BY <1>1, <1>2, <1>3 DEF Sound, Written

LEMMA LongerRising ==
  ASSUME IInv', NEW q \in Seq(Sound(written')), NEW t, Longer(q, t),
         NEW e, Written(e), Rising(q, e)
  PROVE  Rising(t, e)
  <1>1. ASSUME NEW u \in Seq(Sound(written')), Rising(u, e), NEW a \in News
        PROVE  Append(u, a) \in Seq(Sound(written')) /\ Rising(Append(u, a), e)
    <2>1. a \in Sound(written')
      BY NewsTypes, NewsLater DEF Sound, Says
    <2>2. \A x \in Items(u) : x \in Sound(written')
      BY ElementOfSeq, LenProperties DEF Items
    <2>3. Says(a) => Later(e, a) /\ \A x \in Items(u) : Says(x) => Later(x, a)
      BY <2>2, NewsLater DEF Sound, Says, Written
    <2> QED
      BY <1>1, <2>1, <2>3, RisingAppend, AppendProperties
  <1>2. \A a \in News : /\ Append(q, a) \in Seq(Sound(written'))
                        /\ Rising(Append(q, a), e)
    BY <1>1
  <1>3. \A a, b \in News : Rising(Append(Append(q, a), b), e)
    BY <1>1, <1>2
  <1> QED
    BY <1>2, <1>3 DEF Longer

(* What the registry announces while a node keeps its entry.               *)
LEMMA RegistryRising ==
  ASSUME IInv, RisingInv, IInv', RegistryStep, entry' = entry, NEW k \in Node,
         NEW q \in {chan[Down(k)], Tail(chan[Down(k)])},
         chan[Down(k)] # <<>> \/ q = chan[Down(k)],
         Longer(q, chan'[Down(k)])
  PROVE  Rising(chan'[Down(k)], entry'[k])
  <1>1. written \subseteq written'
    BY DEF RegistryStep, RecordKept, RecordChanged, RecordNamed, RecordDropped,
           RecordTransfers
  <1>2. chan[Down(k)] \in Seq(Sound(written')) /\ Rising(chan[Down(k)], entry[k])
    <2>1. chan \in Channels(written')
      BY <1>1, SoundGrows DEF IInv
    <2> QED
      BY <2>1, ChannelsApart DEF Channels, RisingInv
  <1>3. q \in Seq(Sound(written')) /\ Rising(q, entry[k])
    BY <1>2, RisingPop, HeadTailProperties
  <1>4. Written(entry[k])
    BY <1>1 DEF Written, IInv, NodesOK, EntriesOK, EntryOK
  <1> QED
    BY <1>3, <1>4, LongerRising

(* A node handles a message, and may ask something.                        *)
LEMMA NodeRising ==
  ASSUME IInv, LinkInv, RisingInv, IInv', NEW n \in Node, NodeReceives(n),
         NEW k \in Node
  PROVE  Rising(chan'[Down(k)], entry'[k])
  <1> DEFINE q == chan[Down(n)]
             m == Head(q)
             ch == Pop(Down(n))
  <1>1. /\ q \in Seq(Message) /\ q \in Seq(Sound(written)) /\ q # <<>>
        /\ Rising(q, entry[n]) /\ m \in Sound(written)
        /\ entry[n] \in Entry
    BY ChannelsApart, WiresType, PopSound, EntryFacts
       DEF NodeReceives, Wires, IInv, Channels, RisingInv
  <1>2. /\ ch \in Wires /\ ch[Down(n)] = Tail(q)
        /\ \A d \in Channel : d # Down(n) => ch[d] = chan[d]
    BY WiresType, ChannelsApart, PopAt DEF NodeReceives
  <1>3. Sends(ch, n)
    BY ReceivedSends
  <1> HIDE DEF ch
  <1>4. CASE k # n
    <2>1. chan'[Down(k)] = chan[Down(k)]
      BY <1>2, <1>3, <1>4, SendsAt, ChannelsApart
    <2>2. entry'[k] = entry[k]
      BY <1>4, ReceivedOthers
    <2> QED
      BY <2>1, <2>2 DEF RisingInv
  <1>5. Rising(Tail(q), entry'[n])
    <2>1. Rising(Tail(q), entry[n]) /\ (Says(m) => Rising(Tail(q), m))
      BY <1>1, RisingPop
    <2>2. CASE Says(m) /\ NodeAnnounce(n, m)
      BY <1>1, <2>1, <2>2, AnnouncedEntry, RisingSame
    <2>3. CASE entry' = [entry EXCEPT ![n] = NoEntry]
      <3>1. entry'[n] = NoEntry /\ Tail(q) \in Seq(Message)
        BY <1>1, <2>3, PutEntry, HeadTailProperties
      <3> QED
        BY <2>1, <3>1, RisingForgets
    <2>4. CASE SameFact(n)
      BY <2>1, <2>4, RisingSame DEF SameFact
    <2> QED
      BY <2>1, <2>2, <2>3, <2>4, ReceivedEntry
  <1>6. CASE k = n
    <2>1. ASSUME NEW a \in Sent
          PROVE  Rising(Append(Tail(q), a), entry'[n])
      <3>1. Tail(q) \in Seq(Message) /\ a \in Message /\ ~ Says(a)
        BY <1>1, HeadTailProperties, SentTypes
      <3> QED
        BY <1>5, <3>1, RisingAppend
    <2>2. \/ chan'[Down(n)] = Tail(q)
          \/ \E a \in Sent : chan'[Down(n)] = Append(Tail(q), a)
      BY <1>2, <1>3, SendsAt
    <2> QED
      BY <1>5, <1>6, <2>1, <2>2
  <1> QED
    BY <1>4, <1>6
LEMMA RisingStep ==
  IInv /\ LinkInv /\ RisingInv /\ [Next]_vars => RisingInv'
  <1> SUFFICES ASSUME IInv, LinkInv, RisingInv, [Next]_vars, NEW k \in Node
               PROVE  Rising(chan'[Down(k)], entry'[k])
    BY DEF RisingInv
  <1>1. IInv'
    BY StepInv
  <1>2. /\ Rising(chan[Down(k)], entry[k]) /\ chan[Down(k)] \in Seq(Message)
        /\ chan \in Wires
    BY WiresType, ChannelsApart DEF RisingInv, Wires
  <1>3. ASSUME NEW n \in Node, RegistryReceives(n)
        PROVE  Rising(chan'[Down(k)], entry'[k])
    <2>1. RegistryStep /\ entry' = entry
      BY <1>3, ReceiveGood DEF GoodStep, RegistryReceives, nodeVars
    <2>2. chan[Up(n)] # <<>>
      BY <1>3 DEF RegistryReceives
    <2>3. /\ Rest(n, k) \in {chan[Down(k)], Tail(chan[Down(k)])}
          /\ chan[Down(k)] # <<>> \/ Rest(n, k) = chan[Down(k)]
      BY <2>2, ChannelsApart DEF Rest
    <2>4. Longer(Rest(n, k), chan'[Down(k)])
      BY <1>3, RegistryQueues
    <2> QED
      BY <1>1, <2>1, <2>3, <2>4, RegistryRising
  <1>4. CASE TransferTimesOut
    <2>1. RegistryStep /\ entry' = entry
      BY <1>4, TimeoutGood DEF GoodStep, TransferTimesOut, nodeVars
    <2>2. Longer(chan[Down(k)], chan'[Down(k)])
      BY <1>4, TimeoutQueues
    <2> QED
      BY <1>1, <2>1, <2>2, RegistryRising
  <1>5. ASSUME NEW n \in Node, NodeReceives(n)
        PROVE  Rising(chan'[Down(k)], entry'[k])
    BY <1>1, <1>5, NodeRising
  <1>6. ASSUME NEW n \in Node, CancelReleases(n)
        PROVE  Rising(chan'[Down(k)], entry'[k])
    <2>1. SameFact(n) /\ chan' = chan
      BY <1>6, MarkedEntry DEF CancelReleases
    <2> QED
      BY <1>2, <2>1, RisingSame DEF SameFact
  <1>7. ASSUME NEW n \in Node, Game(n)
        PROVE  Rising(chan'[Down(k)], entry'[k])
    <2>1. Sends(chan, n) /\ (entry' = entry \/ SameFact(n))
      BY <1>7, GameSends, GameEntry
    <2>2. \A a \in Sent : Rising(Append(chan[Down(k)], a), entry[k])
      BY <1>2, SentTypes, RisingAppend
    <2>3. Rising(chan'[Down(k)], entry[k])
      BY <1>2, <2>1, <2>2, SendsAt
    <2> QED
      BY <2>1, <2>3, RisingSame DEF SameFact
  <1>8. ASSUME NEW n \in Node, Network(n)
        PROVE  Rising(chan'[Down(k)], entry'[k])
    <2>1. CASE k # n
      <3>1. chan'[Down(k)] = chan[Down(k)]
        BY <1>8, <2>1, NetworkAt
      <3>2. entry'[k] = entry[k]
        BY <1>8, <2>1, PutEntry DEF Network, Connect, Disconnect, Restart, nodeVars
      <3> QED
        BY <1>2, <3>1, <3>2
    <2>2. CASE k = n /\ Connect(n)
      <3>1. /\ chan'[Down(k)] = Append(chan[Down(k)], Opened)
            /\ entry' = entry
        BY <1>8, <2>2, NetworkAt DEF Connect, nodeVars
      <3>2. Opened \in Message /\ ~ Says(Opened)
        BY DEF Opened, Message, Mark, Says
      <3> QED
        BY <1>2, <3>1, <3>2, RisingAppend
    <2>3. CASE k = n /\ ~ Connect(n)
      <3>1. chan'[Down(k)] \in {<<Lost>>, <<>>}
        BY <1>8, <2>3, NetworkAt DEF Network
      <3>2. Lost.kind # "announce"
        BY DEF Lost
      <3> QED
        BY <3>1, <3>2, RisingShort
    <2> QED
      BY <2>1, <2>2, <2>3
  <1>9. CASE UNCHANGED vars
    BY <1>2, <1>9 DEF vars, nodeVars
  <1> QED
    BY <1>3, <1>4, <1>5, <1>6, <1>7, <1>8, <1>9 DEF Next

-----------------------------------------------------------------------------
(* The nodes the registry counts on: its messages reach them, and only a   *)
(* handshake makes it count on another one.                                *)

LEMMA SettledOpen ==
  ASSUME IInv, LinkInv, NEW n \in Node, Settled(n)
  PROVE  /\ Open(n) /\ n \in Members
         /\ n # Registry => /\ n \in ready /\ n \in linked
                            /\ Kinds(chan[Up(n)]) \cap Marks = {}
                            /\ "lost" \notin Kinds(chan[Down(n)])
                            /\ "open" \notin Kinds(chan[Down(n)])
  <1>1. CASE n = Registry
    BY <1>1 DEF Open, Members
  <1>2. CASE n # Registry
    <2> DEFINE u == Kinds(chan[Up(n)])
               d == Kinds(chan[Down(n)])
    <2>1. /\ n \in Others /\ Counted(u, n \in ready)
          /\ chan[Up(n)] \in Seq(Message)
      BY <1>2, WiresType, ChannelsApart DEF Others, Settled, Wires
    <2>2. /\ reach[n] \in BOOLEAN
          /\ (n \in linked) \in BOOLEAN /\ (n \in ready) \in BOOLEAN
          /\ LinkOK(chan[Up(n)], chan[Down(n)], n \in linked, n \in ready, reach[n])
      BY <2>1, LinkTypes
    <2>3. Shape(u, d, n \in linked, n \in ready, reach[n])
      BY <2>2 DEF LinkOK
    <2> HIDE DEF u, d
    <2>4. n \in linked /\ u \cap Marks = {} /\ "lost" \notin d /\ "open" \notin d
      BY <2>1, <2>2, <2>3, CountedLink
    <2>5. n \in ready
      BY <2>1 DEF Counted
    <2>6. ~ LossAhead(Up(n))
      <3>1. chan[Up(n)] # <<>> => Head(chan[Up(n)]).kind \in u
        BY <2>1, KindsPop DEF u
      <3> QED
        BY <2>4, <3>1 DEF LossAhead, Lost, Marks
    <2> QED
      BY <2>4, <2>5, <2>6 DEF Open, Members, u, d
  <1> QED
    BY <1>1, <1>2

(* The registry takes a message of node n.                                 *)
LEMMA SettledByHello ==
  ASSUME IInv, LinkInv, NEW n \in Node, RegistryReceives(n), NEW k \in Node,
         Settled(k)'
  PROVE  \/ Settled(k) /\ (Head(chan[Up(n)]).kind = "lost" => k # n)
         \/ k = n /\ k \in Others /\ Head(chan[Up(n)]).kind = "hello" /\ HandleHello(n)
  <1> DEFINE m == Head(chan[Up(n)])
             u == Kinds(chan[Up(k)])
  <1>1. /\ chan[Up(n)] \in Seq(Message) /\ chan[Up(n)] # <<>>
        /\ m \in Message
    BY WiresType, ChannelsApart, HeadTailProperties DEF RegistryReceives, Wires
  <1>2. \/ m.kind = "open" /\ ready' = ready
        \/ m.kind = "hello" /\ HandleHello(n)
        \/ m.kind = "lost" /\ ready' = ready \ {n}
        \/ m.kind \notin Marks /\ ready' = ready
    BY DEF RegistryReceives, HandleLost, RegistryKinds, Marks
  <1>3. CASE k = Registry
    <2>1. m.kind = "lost" => n \in Others
      BY <1>1, MarkTaken DEF Marks
    <2> QED
      BY <1>3, <2>1 DEF Settled, Others
  <1>4. CASE k # Registry /\ k # n
    <2>1. chan'[Up(k)] = chan[Up(k)]
      BY <1>4, RegistryQueues
    <2>2. k \in ready' => k \in ready
      BY <1>2, <1>4 DEF HandleHello
    <2> QED
      BY <1>4, <2>1, <2>2 DEF Settled, Counted
  <1>5. CASE k # Registry /\ k = n
    <2>1. k \in Others
      BY <1>5 DEF Others
    <2>2. chan'[Up(n)] = Tail(chan[Up(n)])
      BY <1>5, RegistryQueues
    <2>3. k \in ready' /\ "lost" \notin Kinds(Tail(chan[Up(n)]))
      BY <1>5, <2>2 DEF Settled, Counted
    <2>4. u = {m.kind} \cup Kinds(Tail(chan[Up(n)]))
      BY <1>1, <1>5, KindsPop
    <2>5. CASE m.kind = "hello"
      BY <1>2, <1>5, <2>1, <2>5 DEF Marks
    <2>6. CASE m.kind = "lost"
      BY <1>2, <1>5, <2>3, <2>6 DEF Marks
    <2>7. CASE m.kind \notin {"hello", "lost"}
      <3>1. k \in ready
        BY <1>2, <2>3, <2>7
      <3>2. "lost" \notin u
        BY <2>3, <2>4, <2>7
      <3> QED
        BY <2>7, <3>1, <3>2 DEF Settled, Counted
    <2> QED
      BY <2>5, <2>6, <2>7
  <1> QED
    BY <1>3, <1>4, <1>5

(* What a node sends changes nothing of that.                              *)
LEMMA SettledBySends ==
  ASSUME NEW ch \in Wires, NEW n \in Node, Sends(ch, n), ready' = ready,
         NEW k \in Node, k # Registry => ch[Up(k)] = chan[Up(k)], Settled(k)'
  PROVE  Settled(k)
  <1>1. CASE k = Registry
    BY <1>1 DEF Settled
  <1>2. CASE k # Registry
    <2>1. ch[Up(k)] = chan[Up(k)] /\ chan[Up(k)] \in Seq(Message)
      BY <1>2, ChannelsApart DEF Wires
    <2>2. \A a \in Sent : Kinds(Append(chan[Up(k)], a)) = Kinds(chan[Up(k)]) \cup {a.kind}
      BY <2>1, SentTypes, KindsAppend
    <2>3. \/ chan'[Up(k)] = chan[Up(k)]
          \/ \E a \in Sent : chan'[Up(k)] = Append(chan[Up(k)], a)
      <3>1. CASE k = n
        BY <2>1, <3>1, SendsAt
      <3>2. CASE k # n
        BY <2>1, <3>2, SendsAt
      <3> QED
        BY <3>1, <3>2
    <2>4. Kinds(chan[Up(k)]) \subseteq Kinds(chan'[Up(k)])
      BY <2>2, <2>3
    <2> QED
      BY <1>2, <2>4 DEF Settled, Counted
  <1> QED
    BY <1>1, <1>2

(* A node whose link comes up or drops, or that restarts, is not counted   *)
(* on.                                                                     *)
LEMMA NetworkUnsettles ==
  ASSUME IInv, LinkInv, NEW n \in Node, Network(n), NEW k \in Node, Settled(k)'
  PROVE  k # n /\ Settled(k)
  <1>1. n \in Others /\ ready' = ready
    BY NetworkAt, NetworkGood DEF registryVars
  <1>2. k # n => chan'[Up(k)] = chan[Up(k)]
    BY NetworkAt
  <1>3. ASSUME k = n PROVE FALSE
    <2>1. n \in Node /\ n # Registry /\ Counted(Kinds(chan'[Up(n)]), n \in ready)
      BY <1>1, <1>3 DEF Settled, Others
    <2>2. "lost" \in Kinds(<<Lost>>) /\ chan[Up(n)] \in Seq(Message)
      BY WiresType, ChannelsApart, KindsMark DEF Wires, Lost
    <2>3. chan'[Up(n)] # <<Lost>>
      BY <2>1, <2>2 DEF Counted
    <2>4. CASE Connect(n)
      <3>1. n \notin linked /\ chan'[Up(n)] = Append(chan[Up(n)], Opened)
        BY <2>4, NetworkAt DEF Connect
      <3>2. Kinds(chan[Up(n)]) \subseteq Kinds(chan'[Up(n)])
        <4>1. Opened \in Message
          BY DEF Opened, Message, Mark
        <4> QED
          BY <2>2, <3>1, <4>1, KindsAppend
      <3>3. Settled(n)
        BY <2>1, <3>2 DEF Settled, Counted
      <3> QED
        BY <2>1, <3>1, <3>3, SettledOpen
    <2>5. CASE Restart(n) /\ ~ (n \in linked)
      <3>1. chan'[Up(n)] = chan[Up(n)]
        BY <2>5, NetworkAt
      <3>2. Settled(n)
        BY <2>1, <3>1 DEF Settled
      <3> QED
        BY <2>1, <2>5, <3>2, SettledOpen
    <2>6. CASE Disconnect(n) \/ (Restart(n) /\ n \in linked)
      BY <2>3, <2>6, NetworkAt
    <2> QED
      BY <2>4, <2>5, <2>6 DEF Network
  <1> QED
    BY <1>1, <1>2, <1>3 DEF Settled

-----------------------------------------------------------------------------
(* A node the registry counts on goes by the registry's record, or the     *)
(* announcement of it is on its way.                                       *)

Knows(q, e, r) ==
  Announcement(e) = Announcement(r) \/ Announcement(r) \in Items(q)

KnowInv ==
  \A n \in Node :
    Settled(n) /\ record.id # 0 => Knows(chan[Down(n)], entry[n], record)

(* What is told last is in the queue of every member it reaches.           *)
LEMMA ToldAll ==
  ASSUME NEW ch \in Wires, NEW members \in SUBSET Node, NEW m \in Message,
         chan' = Tell(ch, members, m), NEW k \in members, Open(k)
  PROVE  m \in Items(chan'[Down(k)])
  <1>1. ch[Down(k)] \in Seq(Message)
    BY ChannelsApart DEF Wires
  <1>2. chan'[Down(k)] = Append(ch[Down(k)], m)
    BY TellAt
  <1>3. Items(Append(ch[Down(k)], m)) = Items(ch[Down(k)]) \cup {m}
    BY <1>1, ItemsAppend
  <1> QED
    BY <1>2, <1>3

LEMMA ChangeTells ==
  ASSUME NEW ch \in Wires, NEW members \in SUBSET Node, NEW r \in Record,
         r.id \in Id, NEW owner \in Owner, ChangeOwner(ch, members, r, owner),
         NEW k \in members, Open(k)
  PROVE  Announcement(record') \in Items(chan'[Down(k)])
  <1> DEFINE A == Overruled(r, owner) \cap members
             cs == Tell(ch, A, About("denied", r.id))
             b == Announcement(record')
  <1>1. record' = Changed(r, owner) /\ chan' = Tell(cs, members, b)
    BY DEF ChangeOwner
  <1>2. A \in SUBSET Node /\ About("denied", r.id) \in Message /\ b \in Message
    <2>1. Changed(r, owner) \in Record /\ Changed(r, owner).id # 0
      BY ChangedType DEF Id
    <2> QED
      BY <1>1, <2>1, TalkTypes DEF Talk
  <1> HIDE DEF A, b
  <1>3. cs \in Wires
    BY <1>2, NodeAssumption, TellAt
  <1> HIDE DEF cs
  <1> QED
    BY <1>1, <1>2, <1>3, ToldAll DEF b

(* A step of the registry announces the record to every member it goes on  *)
(* counting on, if it changes what is announced.                           *)
LEMMA RegistryTells ==
  ASSUME IInv, LinkInv, NEW n \in Node, RegistryReceives(n), record'.id # 0,
         NEW k \in Members, Open(k), Head(chan[Up(n)]).kind = "lost" => k # n
  PROVE  \/ Announcement(record') = Announcement(record)
         \/ Announcement(record') \in Items(chan'[Down(k)])
  <1> DEFINE m == Head(chan[Up(n)])
             ch == Pop(Up(n))
             Told == Announcement(record') \in Items(chan'[Down(k)])
             Same == Announcement(record') = Announcement(record)
  <1>1. ch \in Wires /\ m \in Message
    BY WiresType, ChannelsApart, PopAt DEF RegistryReceives
  <1>2. /\ Members \in SUBSET Node /\ Members \ {n} \in SUBSET Node
        /\ record \in Record /\ (record.id # 0 => record.id \in Id)
    BY RecordFacts
  <1> HIDE DEF ch, m
  <1>3. ASSUME KeepRecord PROVE Same
    BY <1>3 DEF KeepRecord
  <1>4. ASSUME NEW members, CancelTransfer(ch, members) PROVE Same
    BY <1>4 DEF CancelTransfer, NoTransfer, Announcement, Record
  <1>5. ASSUME NEW members \in SUBSET Node, NEW owner \in Owner, record.id # 0,
               ChangeOwner(ch, members, record, owner), k \in members
        PROVE  Told
    BY <1>1, <1>2, <1>5, ChangeTells
  <1>6. ASSUME m.kind = "claim", HandleClaim(n, m)
        PROVE  Same \/ Told
    <2>1. CASE record.id # 0 /\ ClaimKnown(n)
      <3> DEFINE r == [record EXCEPT !.schema = SchemaToRecord(record.schema)]
      <3>1. SchemaToRecord(record.schema) \in Schema
        BY <1>2, NodeAssumption DEF SchemaToRecord, Record
      <3>2. r \in Record /\ r.id \in Id /\ r.owner \in Owner
        BY <1>2, <2>1, <3>1 DEF Record
      <3> HIDE DEF r
      <3>3. CASE ChangeOwner(ch, Members, r, r.owner)
        BY <1>1, <1>2, <3>2, <3>3, ChangeTells
      <3> QED
        BY <1>3, <2>1, <3>3 DEF ClaimKnown, r, ch
    <2>2. CASE ClaimNew(n, m)
      <3>1. chan' = Tell(ch, Members, Announcement(record'))
        BY <2>2 DEF ClaimNew, ch
      <3>2. Announcement(record') \in Message
        <4>1. IInv'
          <5>1. Next
            BY DEF Next
          <5> QED
            BY <5>1, StepInv
        <4>2. record' \in Record
          BY <4>1 DEF IInv, RegistryOK
        <4> QED
          BY <4>2, TalkTypes DEF Talk
      <3> QED
        BY <1>1, <1>2, <3>1, <3>2, ToldAll
    <2> QED
      BY <1>3, <1>6, <2>1, <2>2 DEF HandleClaim, Ignore
  <1>7. ASSUME HandleDrop(n, m) PROVE Same
    BY <1>3, <1>7 DEF HandleDrop, Ignore, NoRecord
  <1>8. ASSUME NEW to \in Owner, NEW forced, MoveTo(n, to, forced), record.id # 0
        PROVE  Same \/ Told
    <2>1. CASE StartTransfer(n, to, forced)
      BY <1>2, <2>1 DEF StartTransfer, Announcement, Record
    <2> QED
      BY <1>2, <1>3, <1>5, <1>8, <2>1 DEF MoveTo, Ignore, ch
  <1>9. ASSUME \/ m.kind = "request" /\ HandleRequest(n, m)
               \/ m.kind = "assign" /\ HandleAssign(n, m)
        PROVE  Same \/ Told
    <2>1. /\ m.kind = "assign" => m.to \in Owner
          /\ m.id \in Id /\ m.id # 0 /\ n \in Owner
      BY <1>1, <1>9 DEF Message, Mark, ClaimMessage, ObjectMessage, AssignMessage,
         ReleaseMessage, AnnounceMessage, TransferMessage, Owner, Id
    <2> QED
      BY <1>3, <1>8, <1>9, <2>1 DEF HandleRequest, HandleAssign, Deny
  <1>10. ASSUME m.kind = "release", HandleRelease(n, m)
         PROVE  Same \/ Told
    <2>1. m.to \in Owner \cup {None} /\ m.id \in Id /\ m.id # 0
      BY <1>1, <1>10 DEF Message, Mark, ClaimMessage, ObjectMessage, AssignMessage,
         ReleaseMessage, AnnounceMessage, TransferMessage, Id
    <2>2. CASE /\ CurrentRelease(n, m) /\ m.to \notin {None, record.owner}
               /\ ChangeOwner(ch, Members, record,
                              IF m.to \in Members THEN m.to ELSE Nobody)
      <3>1. (IF m.to \in Members THEN m.to ELSE Nobody) \in Owner
        BY <2>1, <2>2 DEF Owner
      <3> QED
        BY <1>2, <1>5, <2>1, <2>2, <3>1 DEF CurrentRelease
    <2> QED
      BY <1>3, <1>4, <1>10, <2>2 DEF HandleRelease, Ignore, Deny, ch
  <1>11. ASSUME m.kind = "lost", HandleLost(n)
         PROVE  Same \/ Told
    <2>1. k # n
      BY <1>11 DEF m
    <2>2. CASE record.owner = n /\ ChangeOwner(ch, Members \ {n}, record, Nobody)
      <3>1. record.id # 0 /\ Nobody \in Owner
        BY <2>2, RecordFacts DEF Owner
      <3> QED
        BY <1>2, <1>5, <2>1, <2>2, <3>1
    <2> QED
      BY <1>3, <1>4, <1>11, <2>2 DEF HandleLost, Ignore, ch
  <1> HIDE DEF Same, Told
  <1>12. \/ KeepRecord
         \/ m.kind = "claim" /\ HandleClaim(n, m)
         \/ HandleDrop(n, m)
         \/ m.kind = "request" /\ HandleRequest(n, m)
         \/ m.kind = "assign" /\ HandleAssign(n, m)
         \/ m.kind = "release" /\ HandleRelease(n, m)
         \/ m.kind = "lost" /\ HandleLost(n)
    BY DEF RegistryReceives, HandleHello, Ignore, m
  <1>13. Same \/ Told
    BY <1>3, <1>6, <1>7, <1>9, <1>10, <1>11, <1>12
  <1> QED
    BY <1>13 DEF Same, Told

(* A node that the registry counts on takes every announcement it handles. *)
LEMMA SettledHears ==
  ASSUME IInv, LinkInv, NEW n \in Node, Settled(n),
         Head(chan[Down(n)]).kind # "hello"
  PROVE  reach[n]
  <1>1. CASE n = Registry
    BY <1>1 DEF LinkInv
  <1>2. CASE n # Registry
    <2>1. LinkOK(chan[Up(n)], chan[Down(n)], n \in linked, n \in ready, reach[n])
      BY <1>2, LinkTypes DEF Others
    <2> QED
      BY <1>2, <2>1 DEF LinkOK, Settled
  <1> QED
    BY <1>1, <1>2

LEMMA NodeHears ==
  ASSUME IInv, LinkInv, RisingInv, NEW n \in Node, NodeReceives(n), Settled(n),
         Says(Head(chan[Down(n)]))
  PROVE  NodeAnnounce(n, Head(chan[Down(n)])) /\ reach[n]
  <1> DEFINE q == chan[Down(n)]
             m == Head(q)
  <1>1. /\ q \in Seq(Message) /\ q # <<>> /\ m \in Message
        /\ Rising(q, entry[n]) /\ entry[n] \in Entry
    BY ChannelsApart, WiresType, HeadTailProperties, EntryFacts
       DEF NodeReceives, Wires, RisingInv
  <1>2. m.id \in Nat /\ m.ver \in Nat
    BY <1>1, NodeAssumption DEF Says, Message, Mark, ClaimMessage, ObjectMessage,
       AssignMessage, ReleaseMessage, AnnounceMessage, TransferMessage, Id
  <1>3. reach[n]
    BY SettledHears DEF Says
  <1>4. ~ (entry[n].id = m.id /\ m.ver < entry[n].ver)
    <2>1. Later(entry[n], m)
      BY <1>1, RisingPop
    <2> QED
      BY <1>1, <1>2, <2>1 DEF Later, Entry
  <1> QED
    BY <1>3, <1>4 DEF NodeReceives, Stale, Says, m, q

(* What a node announced the record after it had heard of it has to be.    *)
LEMMA HeardOfRecord ==
  ASSUME IInv, FitInv, NEW n \in Node, record.id # 0, chan[Down(n)] # <<>>,
         Says(Head(chan[Down(n)])), Later(record, Head(chan[Down(n)]))
  PROVE  Head(chan[Down(n)]) = Announcement(record)
  <1> DEFINE m == Head(chan[Down(n)])
  <1>1. m \in Fit(record, nextId) /\ m \in Sound(written)
    BY ChannelsApart, PopQueues, PopSound DEF FitInv, IInv
  <1>2. /\ FactOf(m) \in written /\ FactOf(m).id = m.id /\ FactOf(m).ver = m.ver
        /\ m.id \in Nat /\ m.ver \in Nat
    <2>1. m.id \in Id /\ m.ver \in Nat
      BY <1>1, MessageFields DEF Says
    <2>2. FactOf(m) \in written
      BY <1>1 DEF Says, Sound
    <2> QED
      BY <2>1, <2>2, NodeAssumption DEF FactOf, Id
  <1>3. /\ m.id < record.id + 1
        /\ m.id = record.id => m.ver <= record.ver
        /\ record.id \in Nat /\ record.ver \in Nat
    BY <1>2, RecordFacts DEF IInv, RegistryOK, RecordNewest, Record
  <1>4. m.id = record.id /\ m.ver = record.ver
    BY <1>2, <1>3 DEF Later
  <1> QED
    BY <1>1, <1>4 DEF Fit

LEMMA NodeKnows ==
  ASSUME IInv, LinkInv, FitInv, RisingInv, KnowInv, NEW n \in Node,
         NodeReceives(n), Settled(n), record.id # 0
  PROVE  Knows(Tail(chan[Down(n)]), entry'[n], record)
  <1> DEFINE q == chan[Down(n)]
             m == Head(q)
             a == Announcement(record)
  <1>1. /\ q \in Seq(Message) /\ q # <<>> /\ m \in Sound(written)
        /\ m \in Fit(record, nextId)
    BY ChannelsApart, WiresType, PopSound, PopQueues
       DEF NodeReceives, Wires, IInv, FitInv
  <1>2. Items(q) = {m} \cup Items(Tail(q))
    BY <1>1, ItemsPop
  <1>3. Announcement(entry[n]) = a \/ m = a \/ a \in Items(Tail(q))
    BY <1>2 DEF KnowInv, Knows
  <1>4. Says(a) /\ (Announcement(entry[n]) = a => entry[n].id = record.id
                                                   /\ entry[n].ver = record.ver)
    BY DEF Says, Announcement
  <1>5. CASE Says(m)
    <2>1. NodeAnnounce(n, m)
      BY <1>5, NodeHears
    <2>2. Announcement(entry'[n]) = m
      <3>1. m.kind = "announce" /\ m \in AnnounceMessage
        BY <1>1, <1>5 DEF Says, Sound, Message, Mark, ClaimMessage, ObjectMessage,
           AssignMessage, ReleaseMessage, AnnounceMessage, TransferMessage
      <3>2. /\ entry'[n].id = m.id /\ entry'[n].ver = m.ver
            /\ entry'[n].owner = m.owner /\ entry'[n].schema = m.schema
        BY <1>1, <1>5, <2>1, AnnouncedEntry
      <3> QED
        BY <3>1, <3>2 DEF Announcement, AnnounceMessage
    <2>3. Announcement(entry[n]) = a => m = a
      <3>1. Later(entry[n], m)
        BY <1>1, <1>5, RisingPop DEF RisingInv
      <3>2. Announcement(entry[n]) = a => Later(record, m)
        BY <1>4, <3>1 DEF Later
      <3> QED
        BY <1>1, <1>5, <3>2, HeardOfRecord
    <2> QED
      BY <1>3, <2>2, <2>3 DEF Knows
  <1>6. CASE m.kind = "unregister" /\ entry[n].id = m.id
    <2>1. m.id # record.id
      BY <1>1, <1>6 DEF Fit
    <2> QED
      BY <1>3, <1>4, <1>6, <2>1 DEF Knows, Says
  <1>7. CASE ~ Says(m) /\ (entry' = entry \/ SameFact(n))
    <2>1. Announcement(entry'[n]) = Announcement(entry[n])
      BY <1>7 DEF SameFact, Announcement
    <2> QED
      BY <1>3, <1>4, <1>7, <2>1 DEF Knows
  <1> QED
    BY <1>5, <1>6, <1>7, ReceivedEntry

(* A node that passes the handshake is told the record.                    *)
LEMMA HelloTells ==
  ASSUME IInv, LinkInv, NEW n \in Others, RegistryReceives(n),
         Head(chan[Up(n)]).kind = "hello", HandleHello(n), record.id # 0
  PROVE  Announcement(record) \in Items(chan'[Down(n)])
  <1> DEFINE a == Announcement(record)
             nodes == {n}
  <1>1. chan' = Tell(Pop(Up(n)), nodes, a)
    BY DEF HandleHello
  <1>2. /\ nodes \in SUBSET Node /\ n \in nodes /\ Pop(Up(n)) \in Wires
        /\ a \in Message
    BY WiresType, ChannelsApart, PopAt, RecordFacts, TalkTypes
       DEF RegistryReceives, Talk, Others
  <1>3. Open(n)
    <2>1. /\ chan[Up(n)] \in Seq(Message) /\ chan[Up(n)] # <<>>
          /\ LinkOK(chan[Up(n)], chan[Down(n)], n \in linked, n \in ready, reach[n])
      BY LinkTypes DEF RegistryReceives
    <2>2. "hello" \in Kinds(chan[Up(n)])
      BY <2>1, KindsPop
    <2>3. n \in linked
      BY <2>1, <2>2 DEF LinkOK, Shape
    <2> QED
      BY <2>3 DEF Open, LossAhead, Lost
  <1> HIDE DEF nodes, a
  <1> QED
    BY <1>1, <1>2, <1>3, ToldAll DEF a

LEMMA RegistryKnows ==
  ASSUME IInv, LinkInv, KnowInv, NEW n \in Node, RegistryReceives(n),
         record'.id # 0, NEW k \in Node, Settled(k)'
  PROVE  Knows(chan'[Down(k)], entry'[k], record')
  <1> DEFINE a == Announcement(record')
             m == Head(chan[Up(n)])
  <1>1. entry' = entry
    BY DEF RegistryReceives, nodeVars
  <1>2. CASE k = n /\ k \in Others /\ m.kind = "hello" /\ HandleHello(n)
    <2>1. record' = record /\ a = Announcement(record) /\ record.id # 0
      BY <1>2 DEF HandleHello, KeepRecord
    <2>2. a \in Items(chan'[Down(n)])
      BY <1>2, <2>1, HelloTells
    <2> QED
      BY <1>2, <2>2 DEF Knows
  <1>3. CASE Settled(k) /\ (m.kind = "lost" => k # n)
    <2>1. k \in Members /\ Open(k)
      BY <1>3, SettledOpen
    <2>2. CASE a \in Items(chan'[Down(k)])
      BY <2>2 DEF Knows
    <2>3. CASE a = Announcement(record)
      <3>1. record.id # 0 /\ Knows(chan[Down(k)], entry[k], record)
        BY <1>3, <2>3 DEF KnowInv, Announcement
      <3>2. a \in Items(chan[Down(k)]) => a \in Items(Rest(n, k))
        <4>1. chan[Down(k)] \in Seq(Message) /\ chan[Up(n)] # <<>>
          BY WiresType, ChannelsApart DEF Wires, RegistryReceives
        <4>2. m.kind # "announce"
          BY DEF RegistryReceives, RegistryKinds
        <4>3. n = Registry /\ k = n => m = Head(chan[Down(k)]) /\ chan[Down(k)] # <<>>
          BY <4>1, ChannelsApart
        <4>4. m # a
          BY <4>2 DEF Announcement
        <4> QED
          BY <4>1, <4>3, <4>4, ItemsPop DEF Rest
      <3>3. Items(Rest(n, k)) \subseteq Items(chan'[Down(k)])
        <4>1. Rest(n, k) \in Seq(Message)
          <5>1. chan[Down(k)] \in Seq(Message) /\ chan[Up(n)] # <<>>
            BY WiresType, ChannelsApart DEF Wires, RegistryReceives
          <5>2. n = Registry /\ k = n => chan[Down(k)] # <<>>
            BY <5>1, ChannelsApart
          <5> QED
            BY <5>1, <5>2, HeadTailProperties DEF Rest
        <4> QED
          BY <4>1, RegistryQueues, LongerItems
      <3> QED
        BY <1>1, <2>3, <3>1, <3>2, <3>3 DEF Knows
    <2> QED
      BY <1>3, <2>1, <2>2, <2>3, RegistryTells
  <1> QED
    BY <1>2, <1>3, SettledByHello

LEMMA KnowStep ==
  IInv /\ LinkInv /\ FitInv /\ RisingInv /\ KnowInv /\ [Next]_vars => KnowInv'
  <1> SUFFICES ASSUME IInv, LinkInv, FitInv, RisingInv, KnowInv, [Next]_vars,
                      NEW k \in Node, Settled(k)', record'.id # 0
               PROVE  Knows(chan'[Down(k)], entry'[k], record')
    BY DEF KnowInv
  <1> DEFINE q == chan[Down(k)]
  <1>1. q \in Seq(Message) /\ chan \in Wires /\ Down(k) \in Channel
    BY WiresType, ChannelsApart DEF Wires
  <1>2. ASSUME NEW t, Items(q) \subseteq Items(t), t = chan'[Down(k)],
               Settled(k), record' = record, entry'[k] = entry[k] \/ SameFact(k)
        PROVE  Knows(chan'[Down(k)], entry'[k], record')
    <2>1. Announcement(entry'[k]) = Announcement(entry[k])
      BY <1>2 DEF SameFact, Announcement
    <2> QED
      BY <1>2, <2>1 DEF KnowInv, Knows
  <1>3. ASSUME NEW n \in Node, RegistryReceives(n)
        PROVE  Knows(chan'[Down(k)], entry'[k], record')
    BY <1>3, RegistryKnows
  <1>4. CASE TransferTimesOut
    <2>1. ready' = ready /\ entry' = entry
      BY <1>4 DEF TransferTimesOut, nodeVars
    <2>2. Announcement(record') = Announcement(record) /\ record.id # 0
      BY <1>4, RecordFacts DEF TransferTimesOut, CancelTransfer, NoTransfer,
         Announcement, Record
    <2>3. /\ Items(q) \subseteq Items(chan'[Down(k)])
          /\ k # Registry => chan'[Up(k)] = chan[Up(k)]
      BY <1>1, <1>4, TimeoutQueues, LongerItems
    <2>4. Settled(k)
      BY <2>1, <2>3 DEF Settled
    <2> QED
      BY <2>1, <2>2, <2>3, <2>4 DEF KnowInv, Knows
  <1>5. ASSUME NEW n \in Node, NodeReceives(n)
        PROVE  Knows(chan'[Down(k)], entry'[k], record')
    <2> DEFINE ch == Pop(Down(n))
    <2>1. /\ ch \in Wires /\ ch[Down(n)] = Tail(chan[Down(n)])
          /\ \A d \in Channel : d # Down(n) => ch[d] = chan[d]
      BY <1>1, <1>5, ChannelsApart, PopAt DEF NodeReceives
    <2>2. Sends(ch, n) /\ ready' = ready /\ record' = record
      BY <1>5, ReceivedSends DEF NodeReceives, registryVars
    <2> HIDE DEF ch
    <2>3. Settled(k)
      <3>1. k # Registry => ch[Up(k)] = chan[Up(k)]
        BY <2>1, ChannelsApart
      <3> QED
        BY <2>1, <2>2, <3>1, SettledBySends
    <2>4. CASE k = n
      <3>1. Knows(Tail(q), entry'[k], record)
        BY <1>5, <2>2, <2>3, <2>4, NodeKnows
      <3>2. Items(Tail(q)) \subseteq Items(chan'[Down(k)])
        <4>1. Tail(q) \in Seq(Message)
          BY <1>1, <1>5, <2>4, HeadTailProperties DEF NodeReceives
        <4>2. \/ chan'[Down(k)] = Tail(q)
              \/ \E a \in Sent : chan'[Down(k)] = Append(Tail(q), a)
          BY <2>1, <2>2, <2>4, SendsAt
        <4>3. \A a \in Sent : Items(Tail(q)) \subseteq Items(Append(Tail(q), a))
          BY <4>1, SentItems
        <4> QED
          BY <4>2, <4>3
      <3> QED
        BY <2>2, <3>1, <3>2 DEF Knows
    <2>5. CASE k # n
      <3>1. chan'[Down(k)] = q
        <4>1. ch[Down(k)] = q
          BY <2>1, <2>5, ChannelsApart
        <4> QED
          BY <2>1, <2>2, <2>5, <4>1, SendsAt
      <3>2. entry'[k] = entry[k]
        BY <1>5, <2>5, ReceivedOthers
      <3> QED
        BY <1>2, <2>2, <2>3, <3>1, <3>2
    <2> QED
      BY <2>4, <2>5
  <1>6. ASSUME NEW n \in Node, CancelReleases(n)
        PROVE  Knows(chan'[Down(k)], entry'[k], record')
    <2>1. SameFact(n) /\ chan' = chan /\ UNCHANGED registryVars
      BY <1>6, MarkedEntry DEF CancelReleases
    <2>2. Settled(k) /\ record' = record
      BY <2>1 DEF Settled, registryVars
    <2> QED
      BY <1>2, <2>1, <2>2 DEF SameFact
  <1>7. ASSUME NEW n \in Node, Game(n)
        PROVE  Knows(chan'[Down(k)], entry'[k], record')
    <2>1. /\ Sends(chan, n) /\ (entry' = entry \/ SameFact(n))
          /\ ready' = ready /\ record' = record
      BY <1>7, GameSends, GameEntry, GameGood DEF registryVars
    <2>2. Settled(k)
      BY <1>1, <2>1, SettledBySends
    <2>3. Items(q) \subseteq Items(chan'[Down(k)])
      <3>1. \A a \in Sent : Items(q) \subseteq Items(Append(q, a))
        BY <1>1, SentItems
      <3> QED
        BY <1>1, <2>1, <3>1, SendsAt
    <2> QED
      BY <1>2, <2>1, <2>2, <2>3 DEF SameFact
  <1>8. ASSUME NEW n \in Node, Network(n)
        PROVE  Knows(chan'[Down(k)], entry'[k], record')
    <2>1. k # n /\ Settled(k) /\ record' = record
      BY <1>8, NetworkUnsettles, NetworkGood DEF registryVars
    <2>2. chan'[Down(k)] = q
      BY <1>8, <2>1, NetworkAt
    <2>3. entry'[k] = entry[k]
      BY <1>8, <2>1, PutEntry DEF Network, Connect, Disconnect, Restart, nodeVars
    <2> QED
      BY <1>2, <2>1, <2>2, <2>3
  <1>9. CASE UNCHANGED vars
    <2>1. Settled(k) /\ UNCHANGED <<record, chan, entry>>
      BY <1>9 DEF Settled, vars, registryVars, nodeVars
    <2> QED
      BY <1>2, <2>1
  <1> QED
    BY <1>3, <1>4, <1>5, <1>6, <1>7, <1>8, <1>9 DEF Next

-----------------------------------------------------------------------------
(* A node the registry counts on, whose object is frozen, gets an answer:  *)
(* its release is on its way to the registry, or the answer is on its way  *)
(* to the node.                                                            *)

Releases(m, id) == m.kind = "release" /\ m.id = id /\ m.to # None

Ends(m, id, n) ==
  m.id = id /\ (m.kind = "denied" \/ (Says(m) /\ m.owner # n))

Answered(n, id, p, q) ==
  (\E m \in p : Releases(m, id)) \/ (\E m \in q : Ends(m, id, n))

Waiting(n) == Settled(n) /\ entry[n].frozen /\ entry[n].id = record.id

AnswerInv ==
  \A n \in Node : Waiting(n) =>
    Answered(n, record.id, Items(chan[Up(n)]), Items(chan[Down(n)]))

(* What stays in the queues of a node when the registry takes a message,   *)
(* and when the node does.                                                 *)
LEMMA RegistryLeaves ==
  ASSUME IInv, LinkInv, NEW n \in Node, RegistryReceives(n), NEW k \in Node
  PROVE  LET m == Head(chan[Up(n)])
         IN  /\ Items(chan[Down(k)]) \subseteq {m} \cup Items(chan'[Down(k)])
             /\ Items(chan[Up(k)]) \subseteq {m} \cup Items(chan'[Up(k)])
             /\ k # n => Items(chan[Up(k)]) \subseteq Items(chan'[Up(k)])
  <1> DEFINE m == Head(chan[Up(n)])
             d == chan[Down(k)]
  <1>1. /\ d \in Seq(Message) /\ chan[Up(k)] \in Seq(Message)
        /\ chan[Up(n)] # <<>>
    BY WiresType, ChannelsApart DEF Wires, RegistryReceives
  <1>2. Up(k) = Up(n) <=> k = n
    BY ChannelsApart
  <1>3. Rest(n, k) \in Seq(Message) /\ Items(d) \subseteq {m} \cup Items(Rest(n, k))
    <2>1. CASE n = Registry /\ k = n
      <3>1. d # <<>> /\ m = Head(d)
        BY <1>1, <2>1, ChannelsApart
      <3> QED
        BY <1>1, <2>1, <3>1, ItemsPop, HeadTailProperties DEF Rest
    <2>2. CASE ~ (n = Registry /\ k = n)
      BY <1>1, <2>2 DEF Rest
    <2> QED
      BY <2>1, <2>2
  <1>4. Items(Rest(n, k)) \subseteq Items(chan'[Down(k)])
    BY <1>3, RegistryQueues, LongerItems
  <1>5. k # n => Items(Rest(n, k)) = Items(d)
    BY DEF Rest
  <1>6. CASE k = Registry
    <2>1. Up(k) = Down(k)
      BY <1>6, ChannelsApart
    <2> QED
      BY <1>3, <1>4, <1>5, <2>1
  <1>7. CASE k # Registry
    <2>1. chan'[Up(k)] = IF k = n THEN Tail(chan[Up(k)]) ELSE chan[Up(k)]
      BY <1>7, RegistryQueues
    <2>2. k = n => Items(chan[Up(k)]) = {m} \cup Items(Tail(chan[Up(k)]))
      BY <1>1, ItemsPop
    <2> QED
      BY <1>3, <1>4, <2>1, <2>2
  <1> QED
    BY <1>6, <1>7

LEMMA NodeLeaves ==
  ASSUME IInv, LinkInv, NEW n \in Node, NodeReceives(n)
  PROVE  LET m == Head(chan[Down(n)])
         IN  /\ Items(chan[Down(n)]) \subseteq {m} \cup Items(chan'[Down(n)])
             /\ Items(chan[Up(n)]) \subseteq {m} \cup Items(chan'[Up(n)])
             /\ \A k \in Node : k # n =>
                  chan'[Down(k)] = chan[Down(k)] /\ chan'[Up(k)] = chan[Up(k)]
  <1> DEFINE d == chan[Down(n)]
             m == Head(d)
             ch == Pop(Down(n))
  <1>1. /\ ch \in Wires /\ ch[Down(n)] = Tail(d) /\ d # <<>>
        /\ \A c \in Channel : c # Down(n) => ch[c] = chan[c]
        /\ d \in Seq(Message) /\ chan[Up(n)] \in Seq(Message)
    BY WiresType, ChannelsApart, PopAt DEF NodeReceives, Wires
  <1>2. Sends(ch, n)
    BY ReceivedSends
  <1> HIDE DEF ch
  <1>3. Items(d) = {m} \cup Items(Tail(d)) /\ Tail(d) \in Seq(Message)
    BY <1>1, ItemsPop, HeadTailProperties
  <1>4. \A a \in Sent : Items(Tail(d)) \subseteq Items(Append(Tail(d), a))
    BY <1>3, SentItems
  <1>5. \A a \in Sent : Items(chan[Up(n)]) \subseteq Items(Append(chan[Up(n)], a))
    BY <1>1, SentItems
  <1>6. Items(Tail(d)) \subseteq Items(chan'[Down(n)])
    BY <1>1, <1>2, <1>4, SendsAt
  <1>7. Items(chan[Up(n)]) \subseteq {m} \cup Items(chan'[Up(n)])
    <2>1. CASE n = Registry
      <3>1. Up(n) = Down(n)
        BY <2>1, ChannelsApart
      <3> QED
        BY <1>3, <1>6, <3>1
    <2>2. CASE n # Registry
      <3>1. ch[Up(n)] = chan[Up(n)]
        BY <1>1, <2>2, ChannelsApart
      <3> QED
        BY <1>1, <1>2, <1>5, <3>1, SendsAt
    <2> QED
      BY <2>1, <2>2
  <1>8. \A k \in Node : k # n => ch[Down(k)] = chan[Down(k)] /\ ch[Up(k)] = chan[Up(k)]
    BY <1>1, ChannelsApart
  <1>9. \A k \in Node : k # n =>
          chan'[Down(k)] = chan[Down(k)] /\ chan'[Up(k)] = chan[Up(k)]
    BY <1>1, <1>2, <1>8, SendsAt
  <1> QED
    BY <1>3, <1>6, <1>7, <1>9

(* What a node asks gets on its way, if the registry counts on it.         *)
LEMMA SettledAsks ==
  ASSUME IInv, LinkInv, NEW n \in Node, Settled(n), NEW ch \in Wires,
         NEW a \in Message, chan' = Ask(ch, n, a)
  PROVE  a \in Items(chan'[Up(n)])
  <1>1. CanSend(n)
    <2>1. ASSUME n # Registry PROVE ~ LossAhead(Down(n)) /\ n \in linked
      <3>1. "lost" \notin Kinds(chan[Down(n)]) /\ n \in linked
        BY <2>1, SettledOpen
      <3>2. chan[Down(n)] # <<>> => Head(chan[Down(n)]).kind \in Kinds(chan[Down(n)])
        BY WiresType, ChannelsApart, KindsPop DEF Wires
      <3> QED
        BY <3>1, <3>2 DEF LossAhead, Lost
    <2> QED
      BY <2>1 DEF CanSend
  <1>2. ch[Up(n)] \in Seq(Message)
    BY ChannelsApart DEF Wires
  <1>3. chan'[Up(n)] = Append(ch[Up(n)], a)
    BY <1>1, AskAt
  <1>4. Items(Append(ch[Up(n)], a)) = Items(ch[Up(n)]) \cup {a}
    BY <1>2, ItemsAppend
  <1> QED
    BY <1>3, <1>4

(* A release of a member that is handled is answered.                      *)
LEMMA ReleaseAnswered ==
  ASSUME IInv, LinkInv, NEW n \in Node, RegistryReceives(n), Settled(n),
         Releases(Head(chan[Up(n)]), record.id)
  PROVE  \E m \in Items(chan'[Down(n)]) : Ends(m, record.id, n)
  <1> DEFINE m == Head(chan[Up(n)])
             ch == Pop(Up(n))
  <1>1. ch \in Wires /\ m \in Message
    BY WiresType, ChannelsApart, PopAt DEF RegistryReceives
  <1>2. m.to \in Owner \cup {None} /\ m.id \in Id /\ m.id = record.id /\ m.to # None
    BY <1>1 DEF Releases, Message, Mark, ClaimMessage, ObjectMessage,
       AssignMessage, ReleaseMessage, AnnounceMessage, TransferMessage
  <1>3. n \in Members /\ Open(n) /\ Members \in SUBSET Node /\ record \in Record
    BY SettledOpen, RecordFacts
  <1>4. HandleRelease(n, m)
    BY <1>3 DEF RegistryReceives, Releases, RegistryKinds
  <1> HIDE DEF ch, m
  <1>5. CASE Deny(n, m.id)
    <2> DEFINE nodes == {n}
               a == About("denied", m.id)
    <2>1. nodes \in SUBSET Node /\ n \in nodes /\ a \in Message
      BY <1>2, TalkTypes DEF Talk
    <2>2. chan' = Tell(ch, nodes, a)
      BY <1>5 DEF Deny, ch
    <2>3. Ends(a, record.id, n)
      BY <1>2 DEF Ends, About
    <2> HIDE DEF nodes, a
    <2> QED
      BY <1>1, <1>3, <2>1, <2>2, <2>3, ToldAll
  <1>6. CASE /\ CurrentRelease(n, m) /\ m.to \notin {None, record.owner}
             /\ ChangeOwner(ch, Members, record,
                            IF m.to \in Members THEN m.to ELSE Nobody)
    <2> DEFINE owner == IF m.to \in Members THEN m.to ELSE Nobody
    <2>1. owner \in Owner /\ owner # n /\ record.owner = n
      BY <1>2, <1>6, NodeAssumption DEF Owner, CurrentRelease
    <2>2. ChangeOwner(ch, Members, record, owner)
      BY <1>6
    <2> HIDE DEF owner
    <2>3. Announcement(record') \in Items(chan'[Down(n)])
      BY <1>1, <1>2, <1>3, <2>1, <2>2, ChangeTells
    <2>4. record'.id = record.id /\ record'.owner = owner
      BY <2>2 DEF ChangeOwner, Changed
    <2> QED
      BY <2>1, <2>3, <2>4 DEF Ends, Announcement, Says
  <1> QED
    BY <1>2, <1>4, <1>5, <1>6 DEF HandleRelease, ch

(* The registry never gives the id of an entry to another record.          *)
LEMMA SameRecord ==
  ASSUME IInv, RegistryStep, NEW n \in Node, entry[n].id # 0,
         entry[n].id = record'.id
  PROVE  record.id = record'.id
  <1>1. FactOf(entry[n]) \in written /\ FactOf(entry[n]).id = entry[n].id
    BY EntryFacts DEF FactOf
  <1>2. /\ \A f \in written : f.id < nextId
        /\ nextId \in Nat
    BY DEF IInv, RegistryOK, RecordNewest
  <1>3. CASE RecordKept \/ RecordDropped
    BY <1>3 DEF RecordKept, RecordDropped, NoRecord
  <1>4. CASE RecordChanged
    BY <1>4 DEF RecordChanged, Changed
  <1>5. CASE RecordNamed
    BY <1>1, <1>2, <1>5 DEF RecordNamed
  <1>6. CASE RecordTransfers
    BY <1>6 DEF RecordTransfers, FactOf
  <1> QED
    BY <1>3, <1>4, <1>5, <1>6 DEF RegistryStep

LEMMA RegistryAnswers ==
  ASSUME IInv, LinkInv, NoDepartedOwner, EntryInv, AnswerInv, NEW n \in Node,
         RegistryReceives(n), NEW k \in Node, Waiting(k)'
  PROVE  Answered(k, record'.id, Items(chan'[Up(k)]), Items(chan'[Down(k)]))
  <1> DEFINE m == Head(chan[Up(n)])
             p == Items(chan'[Up(k)])
             q == Items(chan'[Down(k)])
  <1>1. entry' = entry /\ RegistryStep
    BY ReceiveGood DEF RegistryReceives, nodeVars, GoodStep
  <1>2. /\ entry[k].frozen /\ entry[k].id = record.id /\ record'.id = record.id
        /\ record.id # 0 /\ entry[k].owner = k /\ k \in Members \cup departed
    BY <1>1, EntryFacts, SameRecord DEF Waiting, EntryInv
  <1>3. CASE k = n /\ k \in Others /\ m.kind = "hello" /\ HandleHello(n)
    <2> DEFINE a == Announcement(record')
    <2>1. record' = record /\ n \notin ready
      BY <1>3, HelloKeeps DEF HandleHello, KeepRecord, RegistryReceives
    <2>2. record.owner # k
      BY <1>2, <1>3, <2>1 DEF NoDepartedOwner, Members, Others
    <2>3. Settled(k)' /\ record'.id # 0
      BY <1>2, <2>1 DEF Waiting
    <2>4. Ends(a, record'.id, k)
      BY <2>1, <2>2 DEF Ends, Announcement, Says
    <2>5. a \in q
      BY <1>3, <2>1, <2>3, HelloTells
    <2> QED
      BY <2>4, <2>5 DEF Answered
  <1>4. CASE Settled(k)
    <2>1. \/ \E x \in Items(chan[Up(k)]) : Releases(x, record.id)
          \/ \E x \in Items(chan[Down(k)]) : Ends(x, record.id, k)
      BY <1>2, <1>4 DEF AnswerInv, Waiting, Answered
    <2>2. ASSUME NEW x \in Items(chan[Down(k)]), Ends(x, record.id, k)
          PROVE  x \in q
      <3>1. x # m
        BY <2>2 DEF Ends, Says, RegistryReceives, RegistryKinds
      <3> QED
        BY <2>2, <3>1, RegistryLeaves
    <2>3. ASSUME NEW x \in Items(chan[Up(k)]), Releases(x, record.id), x \notin p
          PROVE  k = n /\ x = m
      BY <2>3, RegistryLeaves
    <2>4. k = n /\ Releases(m, record.id) => \E x \in q : Ends(x, record.id, k)
      BY <1>4, ReleaseAnswered
    <2> QED
      BY <1>2, <2>1, <2>2, <2>3, <2>4 DEF Answered
  <1> QED
    BY <1>3, <1>4, SettledByHello DEF Waiting

(* The node takes a message while it waits, or begins to wait.             *)
LEMMA NodeAnswers ==
  ASSUME IInv, LinkInv, RisingInv, EntryInv, AnswerInv, NEW n \in Node,
         NodeReceives(n), Settled(n), entry'[n].frozen, entry'[n].id = record.id
  PROVE  Answered(n, record.id, Items(chan'[Up(n)]), Items(chan'[Down(n)]))
  <1> DEFINE d == chan[Down(n)]
             m == Head(d)
             p == Items(chan'[Up(n)])
             q == Items(chan'[Down(n)])
  <1>1. m \in Sound(written) /\ m.kind \notin RegistryKinds
    BY ChannelsApart, PopSound
       DEF NodeReceives, IInv, NodeKinds, RegistryKinds
  <1>2. ASSUME entry[n].frozen, entry[n].id = record.id, ~ Ends(m, record.id, n)
        PROVE  Answered(n, record.id, p, q)
    <2>1. \/ \E x \in Items(chan[Up(n)]) : Releases(x, record.id)
          \/ \E x \in Items(d) : Ends(x, record.id, n)
      BY <1>2 DEF AnswerInv, Waiting, Answered
    <2>2. ~ Releases(m, record.id)
      BY <1>1 DEF Releases, RegistryKinds
    <2> QED
      BY <1>2, <2>1, <2>2, NodeLeaves DEF Answered
  <1>3. CASE Says(m)
    <2>1. NodeAnnounce(n, m)
      BY <1>3, NodeHears
    <2>2. /\ entry[n].id = m.id /\ entry[n].owner = m.owner /\ entry[n].frozen
          /\ entry'[n].id = m.id
      BY <1>1, <1>3, <2>1, AnnouncedEntry
    <2>3. m.owner = n
      BY <2>2 DEF EntryInv
    <2> QED
      BY <1>2, <1>3, <2>2, <2>3 DEF Ends, Says
  <1>4. CASE m.kind = "transfer" /\ NodeTransfer(n, m)
    <2> DEFINE a == Release(n, m.to)
               ch == Pop(Down(n))
    <2>1. entry[n].id # 0 /\ m.to \in Owner
      BY <1>1, <1>4, MessageFields DEF NodeTransfer, Hands, Id
    <2>2. a \in Asks /\ entry'[n].id = entry[n].id
      BY <1>4, <2>1, AskTypes, MarkedEntry DEF NodeTransfer, SameFact
    <2>3. Releases(a, record.id)
      BY <2>1, <2>2, NodeAssumption DEF Releases, Release
    <2>4. ch \in Wires /\ chan' = Ask(ch, n, a) /\ a \in Message
      BY <1>4, <2>2, WiresType, ChannelsApart, PopAt
         DEF NodeTransfer, NodeReceives, Asks
    <2> HIDE DEF a, ch
    <2>5. a \in p
      BY <2>4, SettledAsks
    <2> QED
      BY <2>3, <2>5 DEF Answered
  <1>5. CASE m.kind = "denied" /\ NodeDenied(n, m)
    <2>1. entry' # entry => ~ entry'[n].frozen
      BY <1>5, MarkedEntry DEF NodeDenied
    <2>2. entry' = entry
      BY <2>1
    <2>3. m.id # record.id
      <3>1. entry[n].frozen /\ entry[n].owner = n /\ entry[n].id = record.id
        BY <2>2 DEF EntryInv
      <3>2. m.id = entry[n].id =>
              entry' = [entry EXCEPT ![n].frozen = FALSE, ![n].own = FALSE]
        BY <1>5, <3>1 DEF NodeDenied
      <3>3. m.id = entry[n].id => ~ entry'[n].frozen
        BY <3>2, MarkedEntry
      <3> QED
        BY <3>1, <3>3
    <2> QED
      BY <1>2, <2>2, <2>3 DEF Ends
  <1>6. CASE entry' = [entry EXCEPT ![n] = NoEntry]
    <2>1. entry'[n] = NoEntry
      BY <1>6, PutEntry
    <2> QED
      BY <2>1 DEF NoEntry
  <1>7. CASE m.kind \notin {"announce", "denied"} /\ entry' = entry
    BY <1>2, <1>7 DEF Ends, Says
  <1>8. CASE m.kind = "denied" /\ Stale(n, m)
    <2>1. ~ reach[n]
      BY <1>8 DEF Stale
    <2>2. reach[n]
      BY <1>8, SettledHears
    <2> QED
      BY <2>1, <2>2
  <1> QED
    BY <1>3, <1>4, <1>5, <1>6, <1>7, <1>8 DEF NodeReceives, NodeOpen, NodeHello,
       NodeLost, NodeUnregister, NodeTransferRefused, NodeKinds, Says

LEMMA AnswerStep ==
  /\ IInv /\ LinkInv /\ NoDepartedOwner
  /\ EntryInv /\ RisingInv /\ AnswerInv /\ [Next]_vars
  => AnswerInv'
  <1> SUFFICES ASSUME IInv, LinkInv, NoDepartedOwner, EntryInv, RisingInv,
                      AnswerInv, [Next]_vars, NEW k \in Node, Waiting(k)'
               PROVE  Answered(k, record'.id, Items(chan'[Up(k)]),
                               Items(chan'[Down(k)]))
    BY DEF AnswerInv
  <1> DEFINE p == Items(chan'[Up(k)])
             q == Items(chan'[Down(k)])
  <1>1. /\ Settled(k)' /\ entry'[k].frozen /\ entry'[k].id = record'.id
        /\ chan \in Wires
    BY WiresType DEF Waiting
  <1>2. ASSUME Settled(k), record'.id = record.id, entry[k].frozen,
               entry[k].id = record.id, Items(chan[Up(k)]) \subseteq p,
               Items(chan[Down(k)]) \subseteq q
        PROVE  Answered(k, record'.id, p, q)
    BY <1>2 DEF AnswerInv, Waiting, Answered
  <1>3. ASSUME NEW n \in Node, RegistryReceives(n)
        PROVE  Answered(k, record'.id, p, q)
    BY <1>3, RegistryAnswers
  <1>4. CASE TransferTimesOut
    <2>1. /\ ready' = ready /\ entry' = entry /\ record'.id = record.id
      BY <1>4, RecordFacts DEF TransferTimesOut, nodeVars, CancelTransfer,
         NoTransfer, Record
    <2>2. /\ Items(chan[Down(k)]) \subseteq q
          /\ k # Registry => chan'[Up(k)] = chan[Up(k)]
      <3>1. chan[Down(k)] \in Seq(Message)
        BY <1>1, ChannelsApart DEF Wires
      <3> QED
        BY <1>4, <3>1, TimeoutQueues, LongerItems
    <2>3. Settled(k)
      BY <1>1, <2>1, <2>2 DEF Settled
    <2>4. k = Registry => Up(k) = Down(k)
      BY ChannelsApart
    <2> QED
      BY <1>1, <1>2, <2>1, <2>2, <2>3, <2>4
  <1>5. ASSUME NEW n \in Node, NodeReceives(n)
        PROVE  Answered(k, record'.id, p, q)
    <2> DEFINE ch == Pop(Down(n))
    <2>1. record' = record /\ ready' = ready
      BY <1>5 DEF NodeReceives, registryVars
    <2>2. Settled(k)
      <3>1. ch \in Wires /\ (k # Registry => ch[Up(k)] = chan[Up(k)])
        BY <1>1, <1>5, ChannelsApart, PopAt DEF NodeReceives
      <3>2. Sends(ch, n)
        BY <1>5, ReceivedSends
      <3> HIDE DEF ch
      <3> QED
        BY <1>1, <2>1, <3>1, <3>2, SettledBySends
    <2>3. CASE k = n
      BY <1>1, <1>5, <2>1, <2>2, <2>3, NodeAnswers
    <2>4. CASE k # n
      <3>1. chan'[Up(k)] = chan[Up(k)] /\ chan'[Down(k)] = chan[Down(k)]
        BY <1>5, <2>4, NodeLeaves
      <3>2. entry'[k] = entry[k]
        BY <1>5, <2>4, ReceivedOthers
      <3> QED
        BY <1>1, <1>2, <2>1, <2>2, <3>1, <3>2
    <2> QED
      BY <2>3, <2>4
  <1>6. ASSUME NEW n \in Node, CancelReleases(n)
        PROVE  Answered(k, record'.id, p, q)
    <2>1. /\ SameFact(n) /\ entry'[n].frozen = FALSE
          /\ chan' = chan /\ UNCHANGED registryVars
      BY <1>6, MarkedEntry DEF CancelReleases
    <2>2. Settled(k) /\ record' = record
      BY <1>1, <2>1 DEF Settled, registryVars
    <2>3. entry'[k] = entry[k]
      BY <1>1, <2>1 DEF SameFact
    <2> QED
      BY <1>1, <1>2, <2>1, <2>2, <2>3
  <1>7. ASSUME NEW n \in Node, Game(n)
        PROVE  Answered(k, record'.id, p, q)
    <2>1. Sends(chan, n) /\ ready' = ready /\ record' = record
      BY <1>7, GameSends, GameGood DEF registryVars
    <2>2. Settled(k)
      BY <1>1, <2>1, SettledBySends
    <2>3. CASE entry'[k].frozen = entry[k].frozen /\ entry'[k].id = entry[k].id
      <3>1. chan[Up(k)] \in Seq(Message) /\ chan[Down(k)] \in Seq(Message)
        BY <1>1, ChannelsApart DEF Wires
      <3>2. /\ \A a \in Sent : Items(chan[Up(k)]) \subseteq Items(Append(chan[Up(k)], a))
            /\ \A a \in Sent :
                 Items(chan[Down(k)]) \subseteq Items(Append(chan[Down(k)], a))
        BY <3>1, SentItems
      <3>3. Items(chan[Up(k)]) \subseteq p
        BY <1>1, <2>1, <3>2, SendsAt
      <3>4. Items(chan[Down(k)]) \subseteq q
        BY <1>1, <2>1, <3>2, SendsAt
      <3> QED
        BY <1>1, <1>2, <2>1, <2>2, <2>3, <3>3, <3>4
    <2>4. ASSUME NEW to \in Owner, ReleaseTo(n, to), k = n
          PROVE  Answered(k, record'.id, p, q)
      <3> DEFINE a == Release(n, to)
      <3>1. entry'[n].id = entry[n].id /\ entry[n].id # 0
        BY <2>4, MarkedEntry, EntryFacts DEF ReleaseTo, SameFact
      <3>2. a \in Message /\ chan' = Ask(chan, n, a)
        BY <2>4, <3>1, AskTypes DEF ReleaseTo, Asks
      <3>3. Releases(a, record'.id)
        BY <1>1, <2>4, <3>1, NodeAssumption DEF Releases, Release
      <3> HIDE DEF a
      <3>4. a \in p
        BY <1>1, <2>2, <2>4, <3>2, SettledAsks
      <3> QED
        BY <3>3, <3>4 DEF Answered
    <2>5. \/ entry'[k].frozen = entry[k].frozen /\ entry'[k].id = entry[k].id
          \/ k = n /\ \E to \in Owner : ReleaseTo(n, to)
      <3>1. CASE Register(n)
        BY <3>1, BoundEntry DEF Register, SameFact
      <3>2. CASE Unregister(n)
        BY <3>2, BoundEntry DEF Unregister, SameFact
      <3>3. ASSUME NEW to \in Owner, ReleaseTo(n, to), k # n
            PROVE  entry'[k] = entry[k]
        <4>1. entry' = [entry EXCEPT ![n].frozen = TRUE, ![n].own = TRUE]
          BY <3>3 DEF ReleaseTo
        <4>2. SameFact(n)
          BY <4>1, MarkedEntry
        <4> QED
          BY <3>3, <4>2 DEF SameFact
      <3> QED
        BY <1>7, <3>1, <3>2, <3>3 DEF Game, Request, Assign
    <2> QED
      BY <2>3, <2>4, <2>5
  <1>8. ASSUME NEW n \in Node, Network(n)
        PROVE  Answered(k, record'.id, p, q)
    <2>1. k # n /\ Settled(k) /\ record' = record
      BY <1>1, <1>8, NetworkUnsettles, NetworkGood DEF registryVars
    <2>2. chan'[Up(k)] = chan[Up(k)] /\ chan'[Down(k)] = chan[Down(k)]
      BY <1>8, <2>1, NetworkAt
    <2>3. entry'[k] = entry[k]
      BY <1>8, <2>1, PutEntry DEF Network, Connect, Disconnect, Restart, nodeVars
    <2> QED
      BY <1>1, <1>2, <2>1, <2>2, <2>3
  <1>9. CASE UNCHANGED vars
    <2>1. Settled(k) /\ UNCHANGED <<record, chan, entry>>
      BY <1>1, <1>9 DEF Settled, vars, registryVars, nodeVars
    <2> QED
      BY <1>1, <1>2, <2>1
  <1> QED
    BY <1>3, <1>4, <1>5, <1>6, <1>7, <1>8, <1>9 DEF Next

-----------------------------------------------------------------------------
(* The registry's own object is the reference for the variables: a record  *)
(* with other ones is about to be put right by its claim.                  *)

SchemaInv ==
  local[Registry] /\ record.id # 0 /\ record.schema # SchemaOf[Registry] =>
    "claim" \in Kinds(chan[Up(Registry)])

LEMMA RegistrySchema ==
  ASSUME IInv, NEW n \in Node, RegistryReceives(n), local[Registry],
         record'.id # 0
  PROVE  \/ record'.schema = SchemaOf[Registry]
         \/ /\ record.id # 0 /\ record'.schema = record.schema
            /\ Head(chan[Up(n)]).kind = "claim" => n # Registry
  <1> DEFINE m == Head(chan[Up(n)])
             Same == record.id # 0 /\ record'.schema = record.schema
  <1> HIDE DEF m
  <1>1. record \in Record
    BY RecordFacts
  <1>2. ASSUME KeepRecord PROVE Same
    BY <1>2 DEF KeepRecord
  <1>3. ASSUME NEW ch, NEW members, CancelTransfer(ch, members) PROVE Same
    BY <1>1, <1>3 DEF CancelTransfer, NoTransfer, Record
  <1>4. ASSUME NEW ch, NEW members, NEW owner,
               ChangeOwner(ch, members, record, owner)
        PROVE  Same
    BY <1>4 DEF ChangeOwner, Changed
  <1>5. ASSUME HandleClaim(n, m) PROVE record'.schema = SchemaOf[Registry]
    <2>1. CASE record.id # 0 /\ ClaimKnown(n)
      <3> DEFINE r == [record EXCEPT !.schema = SchemaToRecord(record.schema)]
      <3>1. r.schema = SchemaOf[Registry]
        BY <1>1 DEF SchemaToRecord, Record
      <3> HIDE DEF r
      <3>2. CASE ChangeOwner(Pop(Up(n)), Members, r, r.owner)
        BY <3>1, <3>2 DEF ChangeOwner, Changed
      <3> QED
        BY <2>1, <3>1, <3>2 DEF ClaimKnown, KeepRecord, r
    <2>2. CASE ClaimNew(n, m)
      BY <2>2 DEF ClaimNew, SchemaToRecord
    <2> QED
      BY <1>5, <2>1, <2>2 DEF HandleClaim, Ignore, KeepRecord
  <1>6. ASSUME HandleDrop(n, m) PROVE Same
    BY <1>2, <1>6 DEF HandleDrop, Ignore, NoRecord
  <1>7. ASSUME NEW to, NEW forced, MoveTo(n, to, forced) PROVE Same
    <2>1. CASE StartTransfer(n, to, forced)
      BY <1>1, <2>1 DEF StartTransfer, Record
    <2> QED
      BY <1>2, <1>4, <1>7, <2>1 DEF MoveTo, Ignore
  <1>8. ASSUME HandleRequest(n, m) \/ HandleAssign(n, m) PROVE Same
    BY <1>2, <1>7, <1>8 DEF HandleRequest, HandleAssign, Deny
  <1>9. ASSUME HandleRelease(n, m) \/ HandleLost(n) PROVE Same
    BY <1>2, <1>3, <1>4, <1>9 DEF HandleRelease, HandleLost, Ignore, Deny
  <1>10. \/ KeepRecord /\ (m.kind = "claim" => n \notin Members)
         \/ HandleClaim(n, m)
         \/ m.kind # "claim" /\ (HandleDrop(n, m) \/ HandleRequest(n, m)
              \/ HandleAssign(n, m) \/ HandleRelease(n, m) \/ HandleLost(n))
    BY DEF RegistryReceives, HandleHello, Ignore, m
  <1>11. Registry \in Members
    BY DEF Members
  <1> HIDE DEF Same
  <1>12. \/ record'.schema = SchemaOf[Registry]
         \/ Same /\ (m.kind = "claim" => n # Registry)
    BY <1>2, <1>5, <1>6, <1>8, <1>9, <1>10, <1>11
  <1> QED
    BY <1>12 DEF Same, m

LEMMA SchemaStep == IInv /\ LinkInv /\ SchemaInv /\ [Next]_vars => SchemaInv'
  <1> SUFFICES ASSUME IInv, LinkInv, SchemaInv, [Next]_vars, local'[Registry],
                      record'.id # 0, record'.schema # SchemaOf[Registry]
               PROVE  "claim" \in Kinds(chan'[Up(Registry)])
    BY DEF SchemaInv
  <1> DEFINE p == chan[Up(Registry)]
  <1>1. /\ Registry \in Node /\ Up(Registry) = Down(Registry)
        /\ p \in Seq(Message) /\ chan \in Wires
    BY NodeAssumption, WiresType, ChannelsApart DEF Wires
  <1>2. ASSUME local[Registry], record.id # 0, record'.schema = record.schema
        PROVE  \E x \in Items(p) : x.kind = "claim"
    BY <1>2 DEF SchemaInv, Kinds
  <1>3. ASSUME NEW n \in Node, RegistryReceives(n)
        PROVE  "claim" \in Kinds(chan'[Up(Registry)])
    <2> DEFINE m == Head(chan[Up(n)])
    <2>1. local[Registry]
      BY <1>3 DEF RegistryReceives, nodeVars
    <2>2. /\ record.id # 0 /\ record'.schema = record.schema
          /\ m.kind = "claim" => n # Registry
      BY <1>3, <2>1, RegistrySchema
    <2>3. PICK x \in Items(p) : x.kind = "claim"
      BY <1>2, <2>1, <2>2
    <2>4. x \in Items(chan'[Up(Registry)])
      <3>1. CASE n = Registry
        <4>1. x # m
          BY <2>2, <2>3, <3>1
        <4> QED
          BY <1>1, <1>3, <4>1, RegistryLeaves
      <3>2. CASE n # Registry
        BY <1>1, <1>3, <3>2, RegistryLeaves
      <3> QED
        BY <3>1, <3>2
    <2> QED
      BY <2>3, <2>4 DEF Kinds
  <1>4. ASSUME local[Registry], record.id # 0, record'.schema = record.schema,
               Items(p) \subseteq Items(chan'[Up(Registry)])
        PROVE  "claim" \in Kinds(chan'[Up(Registry)])
    BY <1>2, <1>4 DEF Kinds
  <1>5. CASE TransferTimesOut
    <2>1. /\ local' = local
          /\ record.id # 0 /\ record'.schema = record.schema
      BY <1>5, RecordFacts DEF TransferTimesOut, nodeVars, CancelTransfer,
         NoTransfer, Record
    <2>2. Items(p) \subseteq Items(chan'[Up(Registry)])
      BY <1>1, <1>5, TimeoutQueues, LongerItems
    <2> QED
      BY <1>4, <2>1, <2>2
  <1>6. ASSUME NEW n \in Node, NodeReceives(n)
        PROVE  "claim" \in Kinds(chan'[Up(Registry)])
    <2> DEFINE m == Head(chan[Down(n)])
    <2>1. /\ local' = local /\ record' = record
          /\ m.kind # "claim"
      BY <1>6 DEF NodeReceives, registryVars, NodeKinds
    <2>2. PICK x \in Items(p) : x.kind = "claim"
      BY <1>2, <2>1
    <2>3. x \in Items(chan'[Up(Registry)])
      <3>1. CASE n = Registry
        BY <1>1, <1>6, <2>1, <2>2, <3>1, NodeLeaves
      <3>2. CASE n # Registry
        BY <1>1, <1>6, <3>2, NodeLeaves
      <3> QED
        BY <3>1, <3>2
    <2> QED
      BY <2>2, <2>3 DEF Kinds
  <1>7. ASSUME NEW n \in Node, Game(n)
        PROVE  "claim" \in Kinds(chan'[Up(Registry)])
    <2>1. Sends(chan, n) /\ record' = record
      BY <1>7, GameSends, GameGood DEF registryVars
    <2>2. Items(p) \subseteq Items(chan'[Up(Registry)])
      <3>1. \A a \in Sent : Items(p) \subseteq Items(Append(p, a))
        BY <1>1, SentItems
      <3>2. chan'[Up(Registry)] = p \/ \E a \in Sent : chan'[Up(Registry)] = Append(p, a)
        <4>1. CASE n = Registry
          BY <1>1, <2>1, <4>1, SendsAt
        <4>2. CASE n # Registry
          BY <1>1, <2>1, <4>2, SendsAt
        <4> QED
          BY <4>1, <4>2
      <3> QED
        BY <3>1, <3>2
    <2>3. CASE local[Registry]
      BY <1>4, <2>1, <2>2, <2>3
    <2>4. CASE ~ local[Registry]
      <3>1. n = Registry /\ Register(n)
        BY <1>1, <1>7, <2>4 DEF Game, Register, Unregister, Request, ReleaseTo,
           Assign, IInv, NodesOK
      <3> DEFINE a == Claim(Registry)
      <3>2. a \in Message /\ a.kind = "claim"
        BY <1>1, AskTypes DEF Asks, Claim
      <3>3. chan' = Ask(chan, Registry, a)
        BY <3>1 DEF Register, LinkInv
      <3>4. Settled(Registry)
        BY DEF Settled
      <3> HIDE DEF a
      <3>5. a \in Items(chan'[Up(Registry)])
        BY <1>1, <3>2, <3>3, <3>4, SettledAsks
      <3> QED
        BY <3>2, <3>5 DEF Kinds
    <2> QED
      BY <2>3, <2>4
  <1>8. ASSUME NEW n \in Node, Network(n)
        PROVE  "claim" \in Kinds(chan'[Up(Registry)])
    <2>1. n # Registry /\ record' = record
      BY <1>8, NetworkAt, NetworkGood DEF Others, registryVars
    <2>2. chan'[Up(Registry)] = p
      BY <1>1, <1>8, <2>1, NetworkAt
    <2>3. local'[Registry] = local[Registry]
      BY <1>1, <1>8, <2>1 DEF Network, Connect, Disconnect, Restart, nodeVars,
         IInv, NodesOK
    <2> QED
      BY <1>4, <2>1, <2>2, <2>3
  <1>9. CASE UNCHANGED <<local, record, chan>>
    BY <1>4, <1>9
  <1> QED
    BY <1>3, <1>5, <1>6, <1>7, <1>8, <1>9
       DEF Next, CancelReleases, vars, nodeVars, registryVars

-----------------------------------------------------------------------------
(* The invariant, and what it implies.                                     *)

ViewInv ==
  /\ IInv /\ LinkInv /\ MemberInv
  /\ FitInv /\ EntryInv /\ RisingInv /\ KnowInv /\ AnswerInv /\ SchemaInv

LEMMA ViewInit == Init => ViewInv
  <1> SUFFICES ASSUME Init PROVE ViewInv
    OBVIOUS
  <1>1. IInv /\ LinkInv
    BY InitInv, LinkInit
  <1>2. MemberInv
    BY NodeAssumption DEF Init, MemberInv, PendingSane, NoDepartedOwner, Members,
       Pending, NoRecord
  <1>3. /\ \A c \in Channel : chan[c] = <<>>
        /\ \A n \in Node : Down(n) \in Channel /\ chan[Down(n)] = <<>>
        /\ \A n \in Node : entry[n] = NoEntry
        /\ record.id = 0 /\ NoEntry.id = 0 /\ ~ NoEntry.frozen
    BY ChannelsApart DEF Init, NoRecord, NoEntry
  <1>4. FitInv
    BY DEF Init, FitInv, Queues
  <1>5. EntryInv /\ KnowInv /\ AnswerInv /\ SchemaInv
    <2>1. EntryInv
      BY <1>3 DEF EntryInv
    <2>2. KnowInv /\ SchemaInv
      BY <1>3 DEF KnowInv, SchemaInv
    <2>3. AnswerInv
      BY <1>3 DEF AnswerInv, Waiting
    <2> QED
      BY <2>1, <2>2, <2>3
  <1>6. RisingInv
    BY <1>3 DEF RisingInv, Rising
  <1> QED
    BY <1>1, <1>2, <1>4, <1>5, <1>6 DEF ViewInv

LEMMA ViewStep == ViewInv /\ [Next]_vars => ViewInv'
  <1> SUFFICES ASSUME ViewInv, [Next]_vars PROVE ViewInv'
    OBVIOUS
  <1>1. IInv' /\ LinkInv' /\ MemberInv'
    BY StepInv, StepLinks, StepMembers DEF ViewInv
  <1>2. FitInv' /\ EntryInv' /\ RisingInv'
    BY FitStep, EntryStepInv, RisingStep DEF ViewInv
  <1>3. KnowInv' /\ SchemaInv'
    BY KnowStep, SchemaStep DEF ViewInv
  <1>4. AnswerInv'
    BY AnswerStep DEF ViewInv, MemberInv
  <1> QED
    BY <1>1, <1>2, <1>3, <1>4 DEF ViewInv

LEMMA AlwaysViews == Spec => []ViewInv
  BY ViewInit, ViewStep, PTL DEF Spec

(* A node that has the registry within reach, with neither a loss of the   *)
(* link nor a handshake to be handled at either end, is counted on.        *)
LEMMA ReachedSettled ==
  ASSUME IInv, LinkInv, NEW n \in Node, reach[n],
         Lost \notin Items(chan[Up(n)]), Hello \notin Items(chan[Up(n)]),
         Lost \notin Items(chan[Down(n)])
  PROVE  Settled(n)
  <1>1. CASE n = Registry
    BY <1>1 DEF Settled
  <1>2. CASE n # Registry
    <2> DEFINE u == Kinds(chan[Up(n)])
               d == Kinds(chan[Down(n)])
    <2>1. /\ chan[Up(n)] \in Seq(Message) /\ chan[Down(n)] \in Seq(Message)
          /\ LinkOK(chan[Up(n)], chan[Down(n)], n \in linked, n \in ready, reach[n])
      BY <1>2, LinkTypes DEF Others
    <2>2. \A x \in Items(chan[Up(n)]) \cup Items(chan[Down(n)]) : x \in Message
      BY <2>1, ElementOfSeq, LenProperties DEF Items
    <2>3. "lost" \notin u /\ "hello" \notin u /\ "lost" \notin d
      BY <2>2, MarkKind DEF Kinds
    <2>4. Shape(u, d, n \in linked, n \in ready, reach[n])
      BY <2>1 DEF LinkOK
    <2> HIDE DEF u, d
    <2>5. n \in linked /\ "open" \notin d
      BY <2>3, <2>4 DEF Shape
    <2>6. n \in ready
      BY <2>3, <2>4, <2>5 DEF Shape
    <2> QED
      BY <2>3, <2>6 DEF Settled, Counted, u
  <1> QED
    BY <1>1, <1>2

(* A node with no news coming names the owner the registry recorded.       *)
LEMMA Informed ==
  ASSUME ViewInv, NEW n \in Node, record.id # 0, entry[n].owner \in Node,
         ~ NewsComing(n)
  PROVE  entry[n].owner = record.owner
  <1> DEFINE q == chan[Down(n)]
             a == Announcement(record)
  <1>1. /\ \A c : InFlight(c) = Items(chan[c])
        /\ IInv /\ LinkInv /\ KnowInv
    BY DEF InFlight, Items, ViewInv
  <1>2. Settled(n)
    BY <1>1, ReachedSettled DEF NewsComing
  <1>3. Announcement(entry[n]) = a \/ a \in Items(q)
    BY <1>1, <1>2 DEF KnowInv, Knows
  <1>4. /\ FactOf(entry[n]) \in written /\ FactOf(record) \in written
        /\ entry[n].ver \in Nat /\ record.ver \in Nat
        /\ FactOf(entry[n]).id = entry[n].id /\ FactOf(entry[n]).ver = entry[n].ver
        /\ FactOf(entry[n]).owner = entry[n].owner
        /\ FactOf(record).id = record.id /\ FactOf(record).ver = record.ver
        /\ FactOf(record).owner = record.owner
    BY <1>1, EntryFacts, RecordFacts DEF FactOf, Record
  <1>5. CASE Announcement(entry[n]) = a
    BY <1>5 DEF Announcement
  <1>6. CASE a \in Items(q)
    <2>1. a.kind = "announce" /\ a.id = record.id /\ a.ver = record.ver
      BY DEF Announcement
    <2>2. record.id = entry[n].id /\ ~ (record.ver > entry[n].ver)
      BY <1>1, <1>6, <2>1 DEF NewsComing
    <2>3. entry[n].ver <= record.ver
      BY <1>1, <1>4, <2>2, RecordFacts DEF IInv, RegistryOK, RecordNewest
    <2>4. entry[n].ver = record.ver
      BY <1>4, <2>2, <2>3
    <2> QED
      BY <1>1, <1>4, <2>2, <2>4 DEF IInv, RegistryOK, WrittenOnce
  <1> QED
    BY <1>3, <1>5, <1>6

(* Two nodes never go on simulating the object (handle_hello,              *)
(* handle_announce): one of them is cut off or has the news coming that    *)
(* ends it.                                                                *)
THEOREM NeverTwoGoOn == Spec => []OneSimulator
  <1>1. ViewInv => OneSimulator
    <2> SUFFICES ASSUME ViewInv, record.id # 0, NEW m \in Node, NEW n \in Node,
                        Simulates(m), Simulates(n), ~ NewsComing(m),
                        ~ NewsComing(n)
                 PROVE  m = n
      BY DEF OneSimulator
    <2> QED
      BY Informed DEF Simulates
  <1> QED
    BY <1>1, AlwaysViews, PTL

(* A node that froze its object has an answer coming: its release or the   *)
(* answer is on its way, or one of the two ends has yet to find that the   *)
(* link dropped or is back (release_frozen, registry_handle_release).      *)
THEOREM EveryReleaseAnswered == Spec => []AnswerComing
  <1>1. ViewInv => AnswerComing
    <2> SUFFICES ASSUME ViewInv, NEW n \in Node, entry[n].frozen,
                        entry[n].id = record.id, reach[n]
                 PROVE  \/ \E m \in InFlight(Up(n)) :
                             \/ m \in {Lost, Hello}
                             \/ m.kind = "release" /\ m.to # None
                        \/ \E m \in InFlight(Down(n)) : Answers(n, m)
      BY DEF AnswerComing
    <2>1. /\ \A c : InFlight(c) = Items(chan[c])
          /\ IInv /\ LinkInv /\ AnswerInv
      BY DEF InFlight, Items, ViewInv
    <2>2. CASE Settled(n)
      BY <2>1, <2>2 DEF AnswerInv, Waiting, Answered, Releases, Ends, Says, Answers
    <2>3. CASE ~ Settled(n)
      BY <2>1, <2>3, ReachedSettled DEF Answers
    <2> QED
      BY <2>2, <2>3
  <1> QED
    BY <1>1, AlwaysViews, PTL

(* Once every message is handled, every member goes by the record, and its *)
(* object is bound to it and not frozen (registry_announce, on_peer_ready, *)
(* handle_announce).                                                       *)
THEOREM QuietViewsAgree == Spec => []QuiescentViews
  <1>1. ViewInv => QuiescentViews
    <2> SUFFICES ASSUME ViewInv, Quiet, record.id # 0, NEW n \in Members
                 PROVE  /\ FactOf(entry[n]) = FactOf(record)
                        /\ local[n] /\ SameSchema(n, record.schema) =>
                             entry[n].bound
                        /\ ~ entry[n].frozen
      BY DEF QuiescentViews
    <2>1. IInv /\ LinkInv /\ EntryInv /\ KnowInv /\ AnswerInv
      BY DEF ViewInv
    <2>2. /\ n \in Node /\ chan[Up(n)] = <<>> /\ chan[Down(n)] = <<>>
          /\ Items(<<>>) = {}
      BY <2>1, RecordFacts, ChannelsApart DEF Quiet, Items
    <2>3. Settled(n)
      BY <2>2, KindsMark DEF Settled, Counted, Members
    <2>4. Announcement(entry[n]) = Announcement(record)
      BY <2>1, <2>2, <2>3 DEF KnowInv, Knows
    <2>5. /\ entry[n].id = record.id /\ entry[n].ver = record.ver
          /\ entry[n].owner = record.owner /\ entry[n].schema = record.schema
      BY <2>4 DEF Announcement
    <2>6. ~ entry[n].frozen
      BY <2>1, <2>2, <2>3, <2>5 DEF AnswerInv, Waiting, Answered
    <2>7. local[n] /\ SameSchema(n, record.schema) => entry[n].bound
      BY <2>1, <2>2, <2>5 DEF EntryInv
    <2> QED
      BY <2>5, <2>6, <2>7 DEF FactOf
  <1> QED
    BY <1>1, AlwaysViews, PTL

(* Once every message is handled, the variables the registry announces are *)
(* those of its own object (registry_schema_hash).                         *)
THEOREM RegistryDecidesSchema == Spec => []SchemaFromRegistry
  <1>1. ViewInv => SchemaFromRegistry
    <2> SUFFICES ASSUME ViewInv, Quiet, record.id # 0, local[Registry]
                 PROVE  record.schema = SchemaOf[Registry]
      BY DEF SchemaFromRegistry
    <2>1. chan[Up(Registry)] = <<>>
      BY NodeAssumption, ChannelsApart DEF Quiet
    <2> QED
      BY <2>1, KindsMark DEF ViewInv, SchemaInv
  <1> QED
    BY <1>1, AlwaysViews, PTL

=============================================================================
