---------------------------- MODULE HostedNode -----------------------------
(***************************************************************************)
(* One node of a hosted mesh                                               *)
(* (src/source/transport/enet_hosted_mesh_transport.cpp): what a host and  *)
(* a player keep, and what each of their handlers makes of it.  HostedMesh *)
(* has the sockets and the other nodes.                                    *)
(*                                                                         *)
(* A handler is an operator from the state of a node to its next state:    *)
(* "out" collects the messages it sends, "closed" the nodes whose link it  *)
(* closes.  A node is its player id; the tokens of an introduction are the *)
(* introduction itself, and a time that runs out is a step.                *)
(*                                                                         *)
(* Left out: DTLS and its certificates, versions and addresses (the joins  *)
(* an address may start too), the packets and the limits of their relay,   *)
(* the events of the multiplayer peer, and messages no node sends.         *)
(***************************************************************************)
EXTENDS Naturals, Sequences, FiniteSets
LOCAL INSTANCE SequencesExt
LOCAL INSTANCE FiniteSetsExt

CONSTANTS
  Node,       \* the ids of the players; 1 hosts the mesh first
  MaxPlayers  \* max_players, as the host's welcome says

ASSUME HostedAssumption ==
  /\ Node \subseteq Nat \ {0} /\ IsFiniteSet(Node) /\ 1 \in Node
  /\ MaxPlayers \in Nat \ {0, 1}

Pairs == {l \in SUBSET Node : Cardinality(l) = 2}

-----------------------------------------------------------------------------
(* The state of a node.                                                    *)

(* A player's link to another player: "registration" is open, the other's  *)
(* endpoint known, the engines told, the relay asked for after a while.    *)
Pair == [state : {"registering", "punching", "direct", "failed", "relayed"},
         registration : BOOLEAN, endpoint : BOOLEAN, reported : BOOLEAN,
         asks : BOOLEAN]
NewPair == [state |-> "registering", registration |-> FALSE,
            endpoint |-> FALSE, reported |-> FALSE, asks |-> FALSE]
NoPair == [NewPair EXCEPT !.state = "none"]

(* A host's introduction of two players.                                   *)
Introduction == [registered : SUBSET Node, punching : BOOLEAN,
                 relayed : BOOLEAN]
NewIntroduction == [known |-> TRUE, registered |-> {}, punching |-> FALSE,
                    relayed |-> FALSE]
NoIntroduction == [NewIntroduction EXCEPT !.known = FALSE]

NoRejoin == [asked |-> FALSE, direct |-> {}]

(* A process that has not joined; "direct_connections" is its option.      *)
Outside ==
  [status |-> "outside", isHost |-> FALSE, host |-> 0, leaving |-> FALSE,
   direct_connections |-> TRUE,
   succession |-> <<>>, highest |-> 0,
   pairs |-> [m \in Node |-> NoPair],
   confirming |-> FALSE, oldHost |-> 0, asked |-> {},
   answers |-> [m \in Node |-> "none"],
   rejoins |-> [m \in Node |-> NoRejoin],
   members |-> {}, joining |-> [m \in Node |-> "none"], next |-> 2,
   intro |-> [l \in Pairs |-> NoIntroduction],
   out |-> <<>>, closed |-> {}]

Linked(s) == {m \in Node : s.pairs[m] # NoPair}
Reported(s) == {m \in Node : s.pairs[m].reported}
Direct(s) == {m \in Reported(s) : s.pairs[m].state = "direct"}
Connected(s) == s.status = "connected"
Joining(s) == {m \in Node : s.joining[m] # "none"}

InOrder(ids) == SetToSortSeq(ids, <)
Larger(a, b) == IF a > b THEN a ELSE b

To(s, m, msg) == [s EXCEPT !.out = Append(@, [to |-> m, msg |-> msg])]

About(kind, m) == [kind |-> kind, peer |-> m]

ToMembers(s, msg) ==
  FoldSeq(LAMBDA m, t : To(t, m, msg), s, InOrder(s.members))

-----------------------------------------------------------------------------
(* The host: who takes over.                                               *)

RelayedPairs(s, m) ==
  Cardinality({l \in Pairs : m \in l /\ s.intro[l].relayed})

SuccessionOf(s) ==
  SetToSortSeq(s.members, LAMBDA a, b :
    \/ RelayedPairs(s, a) < RelayedPairs(s, b)
    \/ RelayedPairs(s, a) = RelayedPairs(s, b) /\ a < b)

SendSuccession(s) ==
  ToMembers(s, [kind |-> "succession", ids |-> SuccessionOf(s)])

-----------------------------------------------------------------------------
(* The host: introductions.                                                *)

(* Both players of a pair get a message about the other one.               *)
ToBoth(s, l, kind) ==
  FoldSeq(LAMBDA m, t :
            IF m \in t.members
            THEN To(t, m, About(kind, CHOOSE o \in l : o # m)) ELSE t,
          s, InOrder(l))

Introduce(s, a, b) ==
  ToBoth([s EXCEPT !.intro[{a, b}] = NewIntroduction], {a, b}, "open")

RelayPair(s, l) ==
  IF s.intro[l].relayed THEN s
  ELSE ToBoth(SendSuccession([s EXCEPT !.intro[l].relayed = TRUE]),
              l, "relay")

TryPunch(s, l) ==
  LET i == s.intro[l] IN
  IF ~ i.known \/ i.punching \/ i.relayed \/ i.registered # l THEN s
  ELSE ToBoth([s EXCEPT !.intro[l].punching = TRUE], l, "punch")

(* The registration of player m's socket for the pair l arrives.           *)
TakeRegistration(s, m, l) ==
  IF \/ ~ s.intro[l].known \/ s.intro[l].punching \/ s.intro[l].relayed
     \/ m \in s.intro[l].registered
  THEN s
  ELSE TryPunch([s EXCEPT !.intro[l].registered = @ \cup {m}], l)

HandleRejoin(s, from, direct) ==
  LET rejoined(t, m) ==
        LET l == {from, m}
            u == IF t.intro[l].known THEN t
                 ELSE [t EXCEPT !.intro[l] =
                         [NewIntroduction EXCEPT !.punching = TRUE]]
        IN IF m \in direct THEN u
           ELSE To(To([u EXCEPT !.intro[l].relayed = TRUE],
                      from, About("relay", m)), m, About("relay", from))
  IN SendSuccession(FoldSeq(LAMBDA m, t : rejoined(t, m), s,
                            InOrder(s.members \ {from})))

-----------------------------------------------------------------------------
(* The host: joins.                                                        *)

HasPlace(s, except) ==
  Cardinality(s.members)
    + Cardinality({m \in Node \ {except} : s.joining[m] = "received"})
    < MaxPlayers - 1

Refuse(s, m) ==
  [s EXCEPT !.joining[m] = "none", !.closed = @ \cup {m}]

HostOnConnect(s, m) ==
  LET unsent == Cardinality({o \in Node : s.joining[o] = "silent"}) IN
  IF ~ HasPlace(s, 0) \/ unsent >= MaxPlayers
  THEN [s EXCEPT !.closed = @ \cup {m}]
  ELSE [s EXCEPT !.joining[m] = "silent", !.next = @ + 1]

Admit(n, s, m) ==
  LET t == [s EXCEPT !.joining[m] = "none", !.members = @ \cup {m}]
      welcomed == To(t, m, [kind |-> "welcome", host |-> n, peer |-> m])
  IN SendSuccession(
       FoldSeq(LAMBDA o, u : Introduce(u, o, m), welcomed,
               InOrder(s.members)))

HostOnJoin(s, m) ==
  IF s.joining[m] # "silent" THEN s
  ELSE IF ~ HasPlace(s, m) THEN Refuse(s, m)
  ELSE [s EXCEPT !.joining[m] = "received"]

-----------------------------------------------------------------------------
(* The host: a link closed, a member's message.                            *)

HostOnDisconnect(s, m) ==
  IF s.joining[m] # "none" THEN [s EXCEPT !.joining[m] = "none"]
  ELSE IF m \notin s.members THEN s
  ELSE LET t == [s EXCEPT !.members = @ \ {m}]
           told == ToMembers(t, About("left", m))
       IN SendSuccession(
            [told EXCEPT !.intro = [l \in Pairs |->
               IF m \in l THEN NoIntroduction ELSE @[l]]])

HostOnReceive(n, s, m, msg) ==
  CASE msg.kind = "failed" /\ s.intro[{m, msg.peer}].known ->
         RelayPair(s, {m, msg.peer})
    [] msg.kind = "rejoin" -> HandleRejoin(s, m, msg.direct)
    [] msg.kind = "query" ->
         To(s, m, [kind |-> "status", peer |-> msg.peer,
                   alive |-> msg.peer = n])
    [] OTHER -> s

-----------------------------------------------------------------------------
(* A player: its pairs.                                                    *)

ReportConnected(s, m) == [s EXCEPT !.pairs[m].reported = TRUE]
ReportDisconnected(s, m) == [s EXCEPT !.pairs[m].reported = FALSE]

ClosePair(s, m) ==
  [s EXCEPT !.closed = @ \cup {m},
            !.pairs[m].registration = FALSE]

RequestRelay(s, m) == To(s, s.host, About("failed", m))

FailPair(s, m) ==
  RequestRelay([ClosePair(s, m) EXCEPT !.pairs[m].state = "failed"], m)

(* A pair too many is not taken.                                           *)
HasPairRoom(s) == Cardinality(Linked(s)) < MaxPlayers - 2

OpenPair(n, s, m) ==
  IF m = s.host \/ m = n \/ m \in Linked(s) \/ ~ HasPairRoom(s) THEN s
  ELSE LET t == [s EXCEPT !.highest = Larger(@, m), !.pairs[m] = NewPair]
       IN IF ~ s.direct_connections THEN FailPair(t, m)
          ELSE [t EXCEPT !.pairs[m].registration = TRUE]

(* The lower id accepts, the higher one connects.                          *)
StartPunching(n, s, m) ==
  LET t == [s EXCEPT !.pairs[m].state = "punching"] IN
  IF n < m THEN t ELSE To(t, m, [kind |-> "dial"])

PunchPair(n, s, m) ==
  IF s.pairs[m].state # "registering" THEN s
  ELSE LET t == [s EXCEPT !.pairs[m].endpoint = TRUE] IN
       IF s.pairs[m].registration THEN t ELSE StartPunching(n, t, m)

RegistrationClosed(n, s, m) ==
  LET t == [s EXCEPT !.pairs[m].registration = FALSE] IN
  IF s.pairs[m].state = "registering" /\ s.pairs[m].endpoint
  THEN StartPunching(n, t, m) ELSE t

(* Mutant: keeps a direct link the other player gave up on.                *)
MutantSetRelayed(n, s, m) ==
  LET t == [s EXCEPT !.highest = Larger(@, m)] IN
  IF \/ m = s.host \/ m = n
     \/ s.pairs[m].state \in {"direct", "relayed"}
     \/ m \notin Linked(s) /\ ~ HasPairRoom(s)
  THEN t
  ELSE ReportConnected([ClosePair(t, m) EXCEPT !.pairs[m] =
                          [NewPair EXCEPT !.state = "relayed"]], m)

SetRelayed(n, s, m) ==
  LET t == [s EXCEPT !.highest = Larger(@, m)] IN
  IF \/ m = s.host \/ m = n
     \/ s.pairs[m].state = "relayed"
     \/ m \notin Linked(s) /\ ~ HasPairRoom(s)
  THEN t
  ELSE LET u == IF s.pairs[m].state = "direct" THEN ReportDisconnected(t, m)
                ELSE t
       IN ReportConnected([ClosePair(u, m) EXCEPT !.pairs[m] =
                             [NewPair EXCEPT !.state = "relayed"]], m)

MemberLeft(s, m) ==
  LET t == [s EXCEPT !.highest = Larger(@, m)] IN
  IF m \notin Linked(s) THEN t
  ELSE [ClosePair(t, m) EXCEPT !.pairs[m] = NoPair]

(* A connection arrives on the socket of a pair; then the acceptor's word. *)
Accept(n, s, m) ==
  IF n < m /\ s.pairs[m].state = "punching"
  THEN To(ReportConnected([s EXCEPT !.pairs[m].state = "direct"], m), m,
          [kind |-> "ready"])
  ELSE [s EXCEPT !.closed = @ \cup {m}]

PairReady(n, s, m) ==
  IF n > m /\ s.pairs[m].state = "punching"
  THEN ReportConnected([s EXCEPT !.pairs[m].state = "direct"], m)
  ELSE s

PairLinkLost(n, s, m) ==
  CASE s.pairs[m].state = "direct" ->
         [ClosePair(ReportDisconnected(s, m), m) EXCEPT
            !.pairs[m].state = "failed", !.pairs[m].asks = TRUE]
    [] s.pairs[m].state = "punching" /\ n > m -> To(s, m, [kind |-> "dial"])
    [] OTHER -> s

-----------------------------------------------------------------------------
(* A player: the host is gone.  What it keeps to confirm that is empty     *)
(* while it does not, and all it keeps is once the mesh ended for it.      *)

NoAnswers == [m \in Node |-> "none"]
NoRejoins == [m \in Node |-> NoRejoin]

LostHost ==
  [Outside EXCEPT !.status = "disconnected", !.closed = Node]

(* Whether the host is alive for this player; "heard": it was heard from   *)
(* within half of host_timeout.                                            *)
SeesHost(s, host, heard) ==
  ~ s.isHost /\ Connected(s) /\ ~ s.confirming /\ s.host = host /\ heard

AnswerHostQuery(s, m, host, heard) ==
  To(s, m, [kind |-> "status", peer |-> host,
            alive |-> SeesHost(s, host, heard)])

ConfirmHostLoss(s) ==
  IF Direct(s) = {} THEN LostHost
  ELSE FoldSeq(LAMBDA m, t : To(t, m, About("query", s.host)),
               [s EXCEPT !.confirming = TRUE, !.oldHost = s.host,
                         !.asked = Direct(s), !.answers = NoAnswers],
               InOrder(Direct(s)))

TakeAnswer(s, m, msg) ==
  IF s.confirming /\ msg.peer = s.oldHost /\ m \in s.asked
  THEN [s EXCEPT !.answers[m] = IF msg.alive THEN "alive" ELSE "lost"]
  ELSE s

BecomeHost(n, s) ==
  LET dropped == Linked(s) \ Direct(s)
      t == [s EXCEPT !.isHost = TRUE, !.host = n, !.members = Direct(s),
                     !.pairs = [m \in Node |-> NoPair],
                     !.next = Larger(Max(Direct(s) \cup {n}), s.highest) + 1,
                     !.closed = @ \cup dropped, !.rejoins = NoRejoins]
      kept == {m \in Direct(s) : s.rejoins[m].asked}
  IN FoldSeq(LAMBDA m, u : HandleRejoin(u, m, s.rejoins[m].direct),
             SendSuccession(t), InOrder(kept))

FollowHost(s, new) ==
  LET dropped == Linked(s) \ (Direct(s) \cup {new})
      t == [s EXCEPT !.host = new, !.rejoins = NoRejoins,
                     !.closed = @ \cup dropped,
                     !.pairs = [m \in Node |->
                        IF m \in Direct(s) \ {new} THEN @[m] ELSE NoPair]]
  IN To(t, new, [kind |-> "rejoin", direct |-> Direct(t)])

(* The first player of the succession that is still in the mesh.           *)
Successor(n, s) ==
  LET there(m) == m = n \/ s.pairs[m].reported
      living == SelectSeq(s.succession, there)
  IN IF living = <<>> THEN 0 ELSE Head(living)

(* Off the old host's socket: to the successor, if there is one to reach.  *)
Migrate(n, s) ==
  LET new == Successor(n, s)
      t == [s EXCEPT !.confirming = FALSE, !.oldHost = 0, !.asked = {},
                     !.answers = NoAnswers, !.closed = @ \cup {s.host}]
  IN IF new = n THEN BecomeHost(n, t)
     ELSE IF new \in Direct(s) THEN FollowHost(t, new)
     ELSE LostHost

Alive(s) == Cardinality({m \in s.asked : s.answers[m] = "alive"})
Gone(s) == Cardinality({m \in s.asked : s.answers[m] = "lost"})

(* Mutant: a tie takes the host for lost.                                  *)
MutantCheckConfirmation(n, s) ==
  IF Gone(s) < Alive(s) THEN LostHost ELSE Migrate(n, s)

(* The answers are in, or enough of them, or the time for them is over.    *)
CheckConfirmation(n, s) ==
  IF Gone(s) <= Alive(s) THEN LostHost ELSE Migrate(n, s)

OnHostDisconnect(n, s, reason) ==
  IF s.leaving \/ reason \in {"refused", "ended"} \/ ~ Connected(s)
  THEN LostHost
  ELSE IF reason = "handover" THEN Migrate(n, s)
  ELSE ConfirmHostLoss(s)

-----------------------------------------------------------------------------
(* A player: the host's messages and the other players'.                   *)

Welcome(s, msg) ==
  IF s.status # "connecting" THEN s
  ELSE [s EXCEPT !.status = "connected", !.host = msg.host,
                 !.highest = Larger(@, Larger(msg.peer, msg.host))]

OnControl(n, s, msg, heard) ==
  CASE msg.kind = "welcome" -> Welcome(s, msg)
    [] msg.kind = "open" -> OpenPair(n, s, msg.peer)
    [] msg.kind = "punch" -> PunchPair(n, s, msg.peer)
    [] msg.kind = "relay" -> SetRelayed(n, s, msg.peer)
    [] msg.kind = "succession" ->
         [s EXCEPT !.succession = msg.ids,
                   !.highest = Max({@} \cup {msg.ids[i] :
                                               i \in DOMAIN msg.ids})]
    [] msg.kind = "left" -> MemberLeft(s, msg.peer)
    [] msg.kind = "query" -> AnswerHostQuery(s, s.host, msg.peer, heard)
    [] msg.kind = "status" -> TakeAnswer(s, s.host, msg)
    [] OTHER -> s

OnPairControl(n, s, m, msg, heard) ==
  IF msg.kind = "ready" THEN PairReady(n, s, m)
  ELSE IF s.pairs[m].state # "direct" THEN s
  ELSE CASE msg.kind = "query" -> AnswerHostQuery(s, m, msg.peer, heard)
         [] msg.kind = "status" -> TakeAnswer(s, m, msg)
         [] msg.kind = "rejoin" ->
              [s EXCEPT !.rejoins[m] = [asked |-> TRUE,
                                        direct |-> msg.direct]]
         [] OTHER -> s

HandlePacket(n, s, m, msg, heard) ==
  IF s.isHost
  THEN IF m \in s.members THEN HostOnReceive(n, s, m, msg)
       ELSE IF msg.kind = "join" THEN HostOnJoin(s, m)
       ELSE s
  ELSE IF m = s.host THEN OnControl(n, s, msg, heard)
  ELSE OnPairControl(n, s, m, msg, heard)

HandleLost(n, s, m, reason) ==
  IF s.isHost THEN HostOnDisconnect(s, m)
  ELSE IF m = s.host THEN OnHostDisconnect(n, s, reason)
  ELSE PairLinkLost(n, s, m)
=============================================================================
