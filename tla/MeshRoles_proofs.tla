-------------------------- MODULE MeshRoles_proofs --------------------------
(***************************************************************************)
(* What the roles of a mesh do for any nodes, settings and faults: their   *)
(* types, and that without a game's help they stay with the first node and *)
(* its reserves; that one broken link of a mesh that formed moves no role; *)
(* and that a mesh in which no process starts over agrees on its registry  *)
(* once it is whole, whatever its parts decided while they were apart.     *)
(***************************************************************************)
EXTENDS MeshRoles, SequenceTheorems, FiniteSetTheorems, TLAPS

-----------------------------------------------------------------------------
(* Channels, and the messages whose roles are in a set S.                  *)

Said(S) == [kind : {"open", "lost"}]
  \cup [kind : {"hello"}, roles : S, boot : Nat]
  \cup [kind : {"roles"}, roles : S]
  \cup [kind : {"status"}, status : [roles : S, view : View]]

Chans(S) == [Node -> [Node -> Seq(Said(S))]]

LEMMA SaidTypes == Message = Said(Roles)
  BY DEF Message, Said, Status

LEMMA SaidGrows ==
  ASSUME NEW S, NEW T, S \subseteq T
  PROVE  Said(S) \subseteq Said(T) /\ Chans(S) \subseteq Chans(T)
  <1>1. Said(S) \subseteq Said(T)
    BY DEF Said
  <1>2. \A q \in Seq(Said(S)) : q \in Seq(Said(T))
    BY <1>1
  <1> QED
    BY <1>1, <1>2 DEF Chans

(* A message that is built is one, and the fields of one that is taken.    *)
LEMMA SaidMade ==
  ASSUME NEW S
  PROVE  /\ Opened \in Said(S) /\ Lost \in Said(S)
         /\ \A r \in S, b \in Nat : HelloOf(r, b) \in Said(S)
         /\ \A r \in S : RolesOf(r) \in Said(S)
         /\ \A r \in S, v \in View :
              StatusOf([roles |-> r, view |-> v]) \in Said(S)
  BY DEF Said, Opened, Lost, HelloOf, RolesOf, StatusOf

LEMMA SaidFields ==
  ASSUME NEW S, NEW m \in Said(S)
  PROVE  /\ m.kind \in {"open", "lost", "hello", "roles", "status"}
         /\ m.kind = "open" <=> m = Opened
         /\ m.kind = "lost" <=> m = Lost
         /\ m.kind = "hello" => m.roles \in S /\ m.boot \in Nat
         /\ m.kind = "roles" => m.roles \in S
         /\ m.kind = "status" => m.status.roles \in S /\ m.status.view \in View
  BY DEF Said, Opened, Lost

(* What is in the channels ch after n sends m a message, or a node takes   *)
(* one.                                                                    *)
LEMMA SendAt ==
  ASSUME NEW S, NEW ch \in Chans(S), NEW n \in Node, NEW m \in Node,
         NEW msg \in Said(S)
  PROVE  /\ Send(ch, n, m, msg) \in Chans(S)
         /\ \A x, y \in Node :
              Send(ch, n, m, msg)[x][y] =
                IF x = n /\ y = m /\ CanSend(ch, n, m)
                THEN Append(ch[x][y], msg) ELSE ch[x][y]
  <1>1. Append(ch[n][m], msg) \in Seq(Said(S))
    BY AppendProperties DEF Chans
  <1> QED
    BY <1>1 DEF Send, Chans

LEMMA SendReadyAt ==
  ASSUME NEW S, NEW ch \in Chans(S), NEW n \in Node, NEW msg \in Said(S)
  PROVE  /\ SendReady(ch, n, msg) \in Chans(S)
         /\ \A x, y \in Node :
              SendReady(ch, n, msg)[x][y] =
                IF x = n /\ y \in Ready(n) /\ CanSend(ch, n, y)
                THEN Append(ch[x][y], msg) ELSE ch[x][y]
  <1>1. \A y \in Node : Append(ch[n][y], msg) \in Seq(Said(S))
    BY AppendProperties DEF Chans
  <1>2. \A x \in Node : SendReady(ch, n, msg)[x] =
          IF x = n
          THEN [y \in Node |-> IF y \in Ready(n) /\ CanSend(ch, n, y)
                               THEN Append(ch[n][y], msg) ELSE ch[n][y]]
          ELSE ch[x]
    BY DEF SendReady, Chans
  <1>3. DOMAIN SendReady(ch, n, msg) = Node
    BY DEF SendReady, Chans
  <1>4. SendReady(ch, n, msg) = [x \in Node |-> SendReady(ch, n, msg)[x]]
    BY <1>3 DEF SendReady
  <1>5. \A x \in Node : SendReady(ch, n, msg)[x] \in [Node -> Seq(Said(S))]
    BY <1>1, <1>2 DEF Chans
  <1>6. SendReady(ch, n, msg) \in Chans(S)
    BY <1>4, <1>5 DEF Chans
  <1> QED
    BY <1>2, <1>6

LEMMA PoppedAt ==
  ASSUME NEW S, chan \in Chans(S), NEW n \in Node, NEW m \in Node,
         chan[m][n] # <<>>
  PROVE  /\ Popped(m, n) \in Chans(S)
         /\ Head(chan[m][n]) \in Said(S)
         /\ Tail(chan[m][n]) \in Seq(Said(S))
         /\ \A x, y \in Node :
              Popped(m, n)[x][y] =
                IF x = m /\ y = n THEN Tail(chan[m][n]) ELSE chan[x][y]
  <1>1. chan[m][n] \in Seq(Said(S))
    BY DEF Chans
  <1>2. Head(chan[m][n]) \in Said(S) /\ Tail(chan[m][n]) \in Seq(Said(S))
    BY <1>1, HeadTailProperties
  <1> QED
    BY <1>2 DEF Popped, Chans

-----------------------------------------------------------------------------
(* Every roles a node knows or a message tells are in S: what a step keeps *)
(* of that, if S has the roles nodes may adopt, take and start with.       *)

Within(S) == roles \in [Node -> S] /\ chan \in Chans(S)

LEMMA StatusMade ==
  ASSUME NEW n \in Node, NEW p, NEW r
  PROVE  /\ StatusFor(n, p, r).roles = r
         /\ StatusFor(n, p, r).view \in View
         /\ \A S : r \in S => StatusOf(StatusFor(n, p, r)) \in Said(S)
  BY SaidMade DEF StatusFor, ViewOf, View

LEMMA ReceiveWithin ==
  ASSUME NEW S, Within(S), NEW n \in Node, NEW m \in Node, Receive(n, m),
         boot \in [Node -> Nat \ {0}],
         \A r \in S : Adopted(n, r) \in S
  PROVE  roles' \in [Node -> S] /\ chan' \in Chans(S)
  <1> DEFINE msg == Head(chan[m][n])
  <1>1. /\ chan \in Chans(S) /\ roles \in [Node -> S]
        /\ chan[m][n] # <<>> /\ boot[n] \in Nat
    BY DEF Within, Receive
  <1>2. Popped(m, n) \in Chans(S) /\ msg \in Said(S)
    BY <1>1, PoppedAt
  <1>3. /\ \A x \in Said(S) : Send(Popped(m, n), n, m, x) \in Chans(S)
        /\ \A x \in Said(S) : SendReady(Popped(m, n), n, x) \in Chans(S)
    BY <1>2, SendAt, SendReadyAt
  <1>4. \A r \in S : Learned(n, r) \in S
    BY <1>1 DEF Learned
  <1>5. /\ HelloOf(roles[n], boot[n]) \in Said(S)
        /\ RolesOf(roles[n]) \in Said(S)
    BY <1>1, SaidMade
  <1>6. CASE HandleOpen(n, m)
    BY <1>1, <1>2, <1>3, <1>5, <1>6 DEF HandleOpen
  <1>7. CASE HandleLost(n, m)
    BY <1>1, <1>2, <1>7 DEF HandleLost
  <1>8. ASSUME msg.kind = "hello", HandleHello(n, m, msg)
        PROVE  roles' \in [Node -> S] /\ chan' \in Chans(S)
    <2>1. CASE UNCHANGED roles /\ chan' = Popped(m, n)
      BY <1>1, <1>2, <2>1
    <2>2. ASSUME roles' = [roles EXCEPT ![n] = HelloRoles(n, msg.roles)],
                 chan' = Send(Popped(m, n), n, m,
                              StatusOf(StatusFor(n, peer'[n], roles'[n])))
          PROVE  roles' \in [Node -> S] /\ chan' \in Chans(S)
      <3>1. msg.roles \in S
        BY <1>2, <1>8, SaidFields
      <3>2. HelloRoles(n, msg.roles) \in S
        BY <1>1, <1>4, <3>1 DEF HelloRoles
      <3>3. roles' \in [Node -> S] /\ roles'[n] \in S
        BY <1>1, <2>2, <3>2
      <3>4. StatusOf(StatusFor(n, peer'[n], roles'[n])) \in Said(S)
        BY <3>3, StatusMade
      <3> QED
        BY <1>3, <2>2, <3>3, <3>4
    <2> QED
      BY <1>8, <2>1, <2>2 DEF HandleHello
  <1>9. ASSUME msg.kind = "roles", HandleRoles(n, m, msg)
        PROVE  roles' \in [Node -> S] /\ chan' \in Chans(S)
    <2>1. msg.roles \in S /\ Adopted(n, msg.roles) \in S
          /\ RolesOf(msg.roles) \in Said(S)
      BY <1>2, <1>9, SaidFields, SaidMade
    <2> QED
      BY <1>1, <1>2, <1>3, <1>5, <1>9, <2>1 DEF HandleRoles
  <1>10. ASSUME msg.kind = "status", HandleRoleStatus(n, m, msg)
         PROVE  roles' \in [Node -> S] /\ chan' \in Chans(S)
    <2>1. msg.status.roles \in S
      BY <1>2, <1>10, SaidFields
    <2> QED
      BY <1>1, <1>2, <1>3, <1>4, <1>5, <1>10, <2>1 DEF HandleRoleStatus
  <1>11. CASE UNCHANGED roles /\ chan' = Popped(m, n)
    BY <1>1, <1>2, <1>11
  <1>12. \/ msg = Opened /\ HandleOpen(n, m)
         \/ msg = Lost /\ HandleLost(n, m)
         \/ msg # Opened /\ msg # Lost /\ HandlePacket(n, m, msg)
    BY DEF Receive
  <1>13. ASSUME msg # Opened, msg # Lost
         PROVE  msg.kind \in {"hello", "roles", "status"}
    BY <1>2, <1>13, SaidFields
  <1> QED
    BY <1>6, <1>7, <1>8, <1>9, <1>10, <1>11, <1>12, <1>13 DEF HandlePacket

LEMMA UpdateWithin ==
  ASSUME NEW S, Within(S), NEW n \in Node, UpdateRoles(n),
         Takes(n) => Taken(n) \in S
  PROVE  roles' \in [Node -> S] /\ chan' \in Chans(S)
  <1> DEFINE told == IF MyStatus(n) = sent[n] THEN chan
                     ELSE SendReady(chan, n, StatusOf(MyStatus(n)))
  <1>1. roles \in [Node -> S] /\ chan \in Chans(S)
    BY DEF Within
  <1>2. StatusOf(MyStatus(n)) \in Said(S)
    BY <1>1, StatusMade DEF MyStatus
  <1>3. told \in Chans(S)
    BY <1>1, <1>2, SendReadyAt
  <1>4. IF Takes(n) THEN /\ chan' = SendReady(told, n, RolesOf(Taken(n)))
                         /\ roles' = [roles EXCEPT ![n] = Taken(n)]
        ELSE chan' = told /\ UNCHANGED roles
    BY DEF UpdateRoles
  <1> HIDE DEF told
  <1>5. ASSUME Takes(n) PROVE SendReady(told, n, RolesOf(Taken(n))) \in Chans(S)
    BY <1>3, <1>5, SaidMade, SendReadyAt
  <1> QED
    BY <1>1, <1>3, <1>4, <1>5

(* What the game, the network and a restart do to the channels.            *)
LEMMA ChangeWithin ==
  ASSUME NEW S, Within(S), NEW n \in Node, ChangeRoles(n),
         \A m \in InMesh(n) \ {roles[n].node} :
           LET r == [term |-> roles[n].term + 1, node |-> m,
                     boot |-> Process(n, peer[n], m)]
           IN  r \in S /\ Adopted(n, r) \in S
  PROVE  roles' \in [Node -> S] /\ chan' \in Chans(S)
  <1>1. PICK m \in InMesh(n) \ {roles[n].node} :
          LET r == [term |-> roles[n].term + 1, node |-> m,
                    boot |-> Process(n, peer[n], m)] IN
          /\ chan' = SendReady(chan, n, RolesOf(r))
          /\ roles' = [roles EXCEPT ![n] = Adopted(n, r)]
    BY DEF ChangeRoles
  <1> DEFINE r == [term |-> roles[n].term + 1, node |-> m,
                   boot |-> Process(n, peer[n], m)]
  <1>2. r \in S /\ Adopted(n, r) \in S
    BY <1>1
  <1>3. chan' = SendReady(chan, n, RolesOf(r))
        /\ roles' = [roles EXCEPT ![n] = Adopted(n, r)]
    BY <1>1
  <1> HIDE DEF r
  <1>4. roles \in [Node -> S] /\ chan \in Chans(S)
    BY DEF Within
  <1> QED
    BY <1>2, <1>3, <1>4, SaidMade, SendReadyAt

LEMMA PrefixTypes ==
  ASSUME NEW S, NEW q \in Seq(S), NEW s \in Prefixes(q)
  PROVE  s \in Seq(S)
  <1>1. PICK i \in 0 .. Len(q) : s = SubSeq(q, 1, i)
    BY DEF Prefixes
  <1> QED
    BY <1>1, SubSeqProperties

LEMMA NetworkWithin ==
  ASSUME NEW S, Within(S), NEW n \in Node, NEW m \in Node,
         Connect(n, m) \/ Disconnect(n, m)
  PROVE  roles' \in [Node -> S] /\ chan' \in Chans(S)
  <1>1. roles \in [Node -> S] /\ chan \in Chans(S)
    BY DEF Within
  <1>2. Opened \in Said(S) /\ Lost \in Said(S)
    BY SaidMade
  <1>3. CASE Connect(n, m)
    <2>1. Append(chan[n][m], Opened) \in Seq(Said(S))
          /\ Append(chan[m][n], Opened) \in Seq(Said(S))
      BY <1>1, <1>2, AppendProperties DEF Chans
    <2>2. n # m
      BY <1>3, RolesAssumption DEF Connect
    <2> QED
      BY <1>1, <1>3, <2>1, <2>2 DEF Connect, Chans
  <1>4. CASE Disconnect(n, m)
    <2>1. PICK s \in Prefixes(chan[n][m]), t \in Prefixes(chan[m][n]) :
            chan' = [chan EXCEPT ![n][m] = Append(s, Lost),
                                 ![m][n] = Append(t, Lost)]
      BY <1>4 DEF Disconnect
    <2>2. s \in Seq(Said(S)) /\ t \in Seq(Said(S))
      BY <1>1, PrefixTypes DEF Chans
    <2>3. Append(s, Lost) \in Seq(Said(S)) /\ Append(t, Lost) \in Seq(Said(S))
      BY <1>2, <2>2, AppendProperties
    <2> QED
      BY <1>1, <1>4, <2>1, <2>3 DEF Disconnect, Chans
  <1> QED
    BY <1>3, <1>4

LEMMA RestartWithin ==
  ASSUME NEW S, Within(S), NEW n \in Node, Restart(n),
         StartRoles(n, boot[n] + 1) \in S
  PROVE  roles' \in [Node -> S] /\ chan' \in Chans(S)
  <1>1. roles \in [Node -> S] /\ chan \in Chans(S) /\ Lost \in Said(S)
    BY SaidMade DEF Within
  <1>2. \A m \in Node : Append(chan[n][m], Lost) \in Seq(Said(S))
    BY <1>1, AppendProperties DEF Chans
  <1>3. <<>> \in Seq(Said(S))
    OBVIOUS
  <1> QED
    BY <1>1, <1>2, <1>3 DEF Restart, Chans

-----------------------------------------------------------------------------
(* Types.                                                                  *)

LEMMA MadeRoles ==
  ASSUME TypeOK, NEW n \in Node
  PROVE  /\ \A r \in Roles : Adopted(n, r) \in Roles
         /\ \A r \in Roles : Adopted(n, r).term = r.term
                             /\ Adopted(n, r).node = r.node
         /\ Taken(n) \in Roles
         /\ \A b \in Nat : StartRoles(n, b) \in Roles
         /\ \A m \in InMesh(n) :
              [term |-> roles[n].term + 1, node |-> m,
               boot |-> Process(n, peer[n], m)] \in Roles
  <1>1. /\ boot \in [Node -> Nat \ {0}] /\ roles \in [Node -> Roles]
        /\ peer \in [Node -> [Node -> Peer]]
    BY DEF TypeOK
  <1>2. roles[n].term \in Nat /\ roles[n].boot \in Nat /\ boot[n] \in Nat
    BY <1>1 DEF Roles
  <1>3. ASSUME NEW r \in Roles
        PROVE  /\ Adopted(n, r) \in Roles
               /\ Adopted(n, r).term = r.term /\ Adopted(n, r).node = r.node
    BY <1>2 DEF Adopted, Roles
  <1>4. Taken(n) \in Roles
    BY <1>2 DEF Taken, Roles
  <1>5. \A b \in Nat : StartRoles(n, b) \in Roles
    BY RolesAssumption DEF StartRoles, Roles
  <1>6. ASSUME NEW m \in InMesh(n)
        PROVE  m \in Node /\ Process(n, peer[n], m) \in Nat
    <2>1. m \in Node
      BY <1>6 DEF InMesh, Ready
    <2>2. peer[n][m].boot \in Nat
      BY <1>1, <2>1 DEF Peer
    <2> QED
      BY <1>2, <2>1, <2>2 DEF Process
  <1>7. \A m \in InMesh(n) :
          [term |-> roles[n].term + 1, node |-> m,
           boot |-> Process(n, peer[n], m)] \in Roles
    BY <1>2, <1>6 DEF Roles
  <1> QED
    BY <1>3, <1>4, <1>5, <1>7

LEMMA TypeWithin ==
  TypeOK <=> /\ settings \in Settings
             /\ boot \in [Node -> Nat \ {0}]
             /\ Within(Roles)
             /\ peer \in [Node -> [Node -> Peer]]
             /\ sent \in [Node -> Status \cup {NoStatus}]
             /\ linked \subseteq SUBSET Node
             /\ faults \in 0 .. settings.faults
  BY SaidTypes DEF TypeOK, Within, Chans

LEMMA MyStatusType ==
  ASSUME TypeOK, NEW n \in Node
  PROVE  MyStatus(n) \in Status
  BY DEF TypeOK, MyStatus, StatusFor, ViewOf, Status, View

(* What a node knows about the one whose message it takes.                 *)
LEMMA ReceivePeer ==
  ASSUME TypeOK, NEW n \in Node, NEW m \in Node, Receive(n, m)
  PROVE  /\ peer' \in [Node -> [Node -> Peer]]
         /\ \A x, y \in Node : (x # n \/ y # m) => peer'[x][y] = peer[x][y]
         /\ UNCHANGED <<settings, boot, linked, faults, sent>>
  <1> DEFINE msg == Head(chan[m][n])
  <1>1. peer \in [Node -> [Node -> Peer]]
    BY DEF TypeOK
  <1>2. msg \in Said(Roles)
    BY TypeWithin, PoppedAt DEF Receive, Within
  <1>3. peer[n][m] \in Peer
    BY <1>1
  <1>4. ASSUME NEW p \in Peer, peer' = [peer EXCEPT ![n][m] = p]
        PROVE  /\ peer' \in [Node -> [Node -> Peer]]
               /\ \A x, y \in Node :
                    (x # n \/ y # m) => peer'[x][y] = peer[x][y]
    BY <1>1, <1>4
  <1>5. CASE HandleOpen(n, m)
    <2>1. [peer[n][m] EXCEPT !.known = TRUE] \in Peer
      BY <1>3 DEF Peer
    <2>2. peer' = [peer EXCEPT ![n][m] = [peer[n][m] EXCEPT !.known = TRUE]]
      BY <1>5 DEF HandleOpen
    <2> QED
      BY <1>4, <1>5, <2>1, <2>2 DEF HandleOpen, Receive
  <1>6. CASE HandleLost(n, m)
    <2>1. NoPeer \in Peer
      BY DEF NoPeer, Peer
    <2> QED
      BY <1>4, <1>6, <2>1 DEF HandleLost, Receive
  <1>7. ASSUME msg.kind = "hello", HandleHello(n, m, msg), UNCHANGED sent
        PROVE  /\ peer' \in [Node -> [Node -> Peer]]
               /\ \A x, y \in Node :
                    (x # n \/ y # m) => peer'[x][y] = peer[x][y]
    <2>1. msg.boot \in Nat
      BY <1>2, <1>7, SaidFields
    <2>2. CASE UNCHANGED peer
      BY <1>1, <2>2
    <2>3. CASE peer' = [peer EXCEPT ![n][m].boot = msg.boot,
                                    ![n][m].ready = TRUE]
      <3>1. [peer[n][m] EXCEPT !.boot = msg.boot, !.ready = TRUE] \in Peer
        BY <1>3, <2>1 DEF Peer
      <3>2. peer' = [peer EXCEPT ![n][m] =
                       [peer[n][m] EXCEPT !.boot = msg.boot, !.ready = TRUE]]
        BY <1>1, <2>3
      <3> QED
        BY <1>4, <3>1, <3>2
    <2> QED
      BY <1>7, <2>2, <2>3 DEF HandleHello
  <1>8. ASSUME msg.kind = "status", HandleRoleStatus(n, m, msg)
        PROVE  /\ peer' \in [Node -> [Node -> Peer]]
               /\ \A x, y \in Node :
                    (x # n \/ y # m) => peer'[x][y] = peer[x][y]
    <2>1. msg.status \in Status
      BY <1>2, <1>8 DEF Said, Status
    <2>2. [peer[n][m] EXCEPT !.status = msg.status] \in Peer
      BY <1>3, <2>1 DEF Peer
    <2>3. peer' = [peer EXCEPT ![n][m] =
                     [peer[n][m] EXCEPT !.status = msg.status]]
      BY <1>8 DEF HandleRoleStatus
    <2> QED
      BY <1>4, <2>2, <2>3
  <1>9. \/ HandleOpen(n, m) \/ HandleLost(n, m)
        \/ msg.kind = "hello" /\ HandleHello(n, m, msg)
        \/ msg.kind = "status" /\ HandleRoleStatus(n, m, msg)
        \/ UNCHANGED <<peer, sent>>
    <2>1. \/ HandleOpen(n, m) \/ HandleLost(n, m)
          \/ msg # Opened /\ msg # Lost /\ HandlePacket(n, m, msg)
      BY DEF Receive
    <2>2. ASSUME msg # Opened, msg # Lost
          PROVE  msg.kind \in {"hello", "roles", "status"}
      BY <1>2, <2>2, SaidFields
    <2> QED
      BY <2>1, <2>2 DEF HandlePacket, HandleRoles
  <1>10. UNCHANGED <<settings, boot, linked, faults>>
    BY DEF Receive
  <1>11. UNCHANGED sent
    BY <1>9 DEF HandleOpen, HandleLost, HandleHello, HandleRoleStatus
  <1> QED
    BY <1>1, <1>5, <1>6, <1>7, <1>8, <1>9, <1>10, <1>11

LEMMA TypeNext ==
  ASSUME TypeOK, [Next]_vars
  PROVE  TypeOK'
  <1> USE TypeWithin
  <1>1. ASSUME NEW n \in Node, NEW m \in Node, Receive(n, m) PROVE TypeOK'
    <2>1. roles' \in [Node -> Roles] /\ chan' \in Chans(Roles)
      BY <1>1, ReceiveWithin, MadeRoles DEF TypeOK
    <2>2. /\ peer' \in [Node -> [Node -> Peer]]
          /\ UNCHANGED <<settings, boot, linked, faults, sent>>
      BY <1>1, ReceivePeer
    <2> QED
      BY <2>1, <2>2, SaidTypes DEF TypeOK, Chans
  <1>2. ASSUME NEW n \in Node, UpdateRoles(n) PROVE TypeOK'
    <2>1. roles' \in [Node -> Roles] /\ chan' \in Chans(Roles)
      BY <1>2, UpdateWithin, MadeRoles
    <2>2. MyStatus(n) \in Status
      BY MyStatusType
    <2> QED
      BY <1>2, <2>1, <2>2, SaidTypes DEF UpdateRoles, TypeOK, Chans
  <1>3. ASSUME NEW n \in Node, ChangeRoles(n) PROVE TypeOK'
    <2>1. roles' \in [Node -> Roles] /\ chan' \in Chans(Roles)
      <3>1. \A m \in InMesh(n) \ {roles[n].node} :
              LET r == [term |-> roles[n].term + 1, node |-> m,
                        boot |-> Process(n, peer[n], m)]
              IN  r \in Roles /\ Adopted(n, r) \in Roles
        BY MadeRoles
      <3> QED
        BY <1>3, <3>1, ChangeWithin
    <2>2. faults' \in 0 .. settings.faults
      BY <1>3, RolesAssumption DEF ChangeRoles, Fault, TypeOK
    <2> QED
      BY <1>3, <2>1, <2>2, SaidTypes DEF ChangeRoles, TypeOK, Chans
  <1>4. ASSUME NEW n \in Node, NEW m \in Node, Connect(n, m) PROVE TypeOK'
    <2>1. roles' \in [Node -> Roles] /\ chan' \in Chans(Roles)
      BY <1>4, NetworkWithin
    <2> QED
      BY <1>4, <2>1, SaidTypes DEF Connect, TypeOK, Chans
  <1>5. ASSUME NEW n \in Node, NEW m \in Node, Disconnect(n, m) PROVE TypeOK'
    <2>1. roles' \in [Node -> Roles] /\ chan' \in Chans(Roles)
      BY <1>5, NetworkWithin
    <2>2. faults' \in 0 .. settings.faults
      <3>1. faults < settings.faults /\ faults' = faults + 1
        BY <1>5 DEF Disconnect, Fault
      <3>2. settings.faults \in Nat /\ faults \in 0 .. settings.faults
        BY RolesAssumption DEF TypeOK
      <3> QED
        BY <3>1, <3>2
    <2> QED
      BY <1>5, <2>1, <2>2, SaidTypes DEF Disconnect, TypeOK, Chans
  <1>6. ASSUME NEW n \in Node, Restart(n) PROVE TypeOK'
    <2>1. boot' \in [Node -> Nat \ {0}] /\ boot[n] + 1 \in Nat
      BY <1>6 DEF Restart, TypeOK
    <2>2. roles' \in [Node -> Roles] /\ chan' \in Chans(Roles)
      BY <1>6, <2>1, RestartWithin, MadeRoles
    <2>3. faults' \in 0 .. settings.faults
      BY <1>6, RolesAssumption DEF Restart, Fault, TypeOK
    <2>4. peer' \in [Node -> [Node -> Peer]]
      <3>1. NoPeer \in Peer
        BY DEF NoPeer, Peer
      <3> QED
        BY <1>6, <3>1 DEF Restart, TypeOK
    <2> QED
      BY <1>6, <2>1, <2>2, <2>3, <2>4, SaidTypes DEF Restart, TypeOK, Chans
  <1>7. CASE UNCHANGED vars
    BY <1>7 DEF vars, TypeOK
  <1> QED
    BY <1>1, <1>2, <1>3, <1>4, <1>5, <1>6, <1>7 DEF Next

LEMMA TypeInit ==
  ASSUME Init \/ Formed
  PROVE  TypeOK
  <1>1. settings \in Settings /\ faults \in 0 .. settings.faults
    BY RolesAssumption DEF Init, Formed
  <1>2. \A n \in Node : StartRoles(n, 1) \in Roles
    BY RolesAssumption DEF StartRoles, Roles
  <1>3. FirstRoles \in Roles /\ SeesFirst \in Status
    BY RolesAssumption DEF FirstRoles, SeesFirst, Roles, Status, View
  <1>4. NoPeer \in Peer
        /\ [known |-> TRUE, ready |-> TRUE, boot |-> 1, status |-> SeesFirst]
             \in Peer
    BY <1>3 DEF NoPeer, Peer
  <1>5. CASE Init
    BY <1>1, <1>2, <1>4, <1>5 DEF Init, TypeOK
  <1>6. CASE Formed
    <2>1. linked \subseteq SUBSET Node
      BY <1>1, <1>6, RolesAssumption DEF Formed
    <2> QED
      BY <1>1, <1>3, <1>4, <1>6, <2>1 DEF Formed, TypeOK
  <1> QED
    BY <1>5, <1>6

(* Every state of a mesh has the types of its parts: roles of a known node, *)
(* statuses and messages with roles, processes that started at least once  *)
(* and no more faults than the bound (TickRoles, TickPeer).                *)
THEOREM RolesTypes == Spec \/ FormedSpec => []TypeOK
  BY TypeInit, TypeNext, PTL DEF Spec, FormedSpec

-----------------------------------------------------------------------------
(* The first node and its reserves.                                        *)

Reserves == {First} \cup Range(settings.candidates)
HeldByReserves == {r \in Roles : r.node \in Reserves}
ReservesFixed ==
  settings.candidates # <<>> /\ "change" \notin settings.environment
ReservesInv == TypeOK /\ (ReservesFixed => Within(HeldByReserves))

LEMMA ReservesTake ==
  ASSUME TypeOK, ReservesFixed, Within(HeldByReserves), NEW n \in Node, Fills(n)
  PROVE  n \in Reserves
  <1>1. settings.candidates \in Seq(Node)
    BY RolesAssumption DEF TypeOK
  <1>2. CASE \E i \in DOMAIN settings.candidates : settings.candidates[i] = n
    BY <1>1, <1>2 DEF Reserves, Range
  <1>3. CASE roles[n].node = n
    BY <1>3 DEF Within, HeldByReserves
  <1> QED
    BY <1>2, <1>3 DEF Fills, IsSuccessor, ReservesFixed

LEMMA ReservesNext ==
  ASSUME ReservesInv, [Next]_vars
  PROVE  ReservesInv'
  <1>1. TypeOK /\ TypeOK'
    BY TypeNext DEF ReservesInv
  <1>2. settings' = settings
    BY DEF Next, vars, Receive, UpdateRoles, ChangeRoles, Connect, Disconnect,
           Restart
  <1>3. SUFFICES ASSUME ReservesFixed
                 PROVE  roles' \in [Node -> HeldByReserves]
                        /\ chan' \in Chans(HeldByReserves)
    BY <1>1, <1>2 DEF ReservesInv, ReservesFixed, Within, HeldByReserves,
                      Reserves, Chans
  <1>4. Within(HeldByReserves)
    BY <1>3 DEF ReservesInv
  <1>5. boot \in [Node -> Nat \ {0}]
    BY <1>1 DEF TypeOK
  <1>6. ASSUME NEW n \in Node
        PROVE  \A r \in HeldByReserves : Adopted(n, r) \in HeldByReserves
    BY <1>1, MadeRoles DEF HeldByReserves
  <1>7. ASSUME NEW n \in Node, NEW m \in Node, Receive(n, m)
        PROVE  roles' \in [Node -> HeldByReserves]
               /\ chan' \in Chans(HeldByReserves)
    BY <1>4, <1>5, <1>6, <1>7, ReceiveWithin
  <1>8. ASSUME NEW n \in Node, UpdateRoles(n)
        PROVE  roles' \in [Node -> HeldByReserves]
               /\ chan' \in Chans(HeldByReserves)
    <2>1. ASSUME Takes(n) PROVE Taken(n) \in HeldByReserves
      <3>1. n \in Reserves
        BY <1>1, <1>3, <1>4, <2>1, ReservesTake DEF Takes
      <3>2. Taken(n) \in Roles /\ Taken(n).node = n
        BY <1>1, MadeRoles DEF Taken
      <3> QED
        BY <3>1, <3>2 DEF HeldByReserves
    <2> QED
      BY <1>4, <1>8, <2>1, UpdateWithin
  <1>9. ASSUME NEW n \in Node PROVE ~ ChangeRoles(n)
    BY <1>3 DEF ChangeRoles, Fault, ReservesFixed
  <1>10. ASSUME NEW n \in Node, NEW m \in Node, Connect(n, m) \/ Disconnect(n, m)
         PROVE  roles' \in [Node -> HeldByReserves]
                /\ chan' \in Chans(HeldByReserves)
    BY <1>4, <1>10, NetworkWithin
  <1>11. ASSUME NEW n \in Node, Restart(n)
         PROVE  roles' \in [Node -> HeldByReserves]
                /\ chan' \in Chans(HeldByReserves)
    <2>1. boot[n] + 1 \in Nat
      BY <1>5
    <2>2. StartRoles(n, boot[n] + 1) \in Roles
          /\ StartRoles(n, boot[n] + 1).node = First
      BY <1>1, <2>1, MadeRoles DEF StartRoles
    <2>3. StartRoles(n, boot[n] + 1) \in HeldByReserves
      BY <2>2 DEF HeldByReserves, Reserves
    <2> QED
      BY <1>4, <1>11, <2>3, RestartWithin
  <1>12. CASE UNCHANGED vars
    BY <1>4, <1>12 DEF vars, Within
  <1> QED
    BY <1>7, <1>8, <1>9, <1>10, <1>11, <1>12 DEF Next

LEMMA ReservesInit ==
  ASSUME Init \/ Formed
  PROVE  ReservesInv
  <1>1. TypeOK
    BY TypeInit
  <1>2. \A n \in Node : roles[n] \in Roles /\ roles[n].node = First
    BY <1>1 DEF TypeOK, Init, Formed, StartRoles, FirstRoles
  <1>3. roles \in [Node -> HeldByReserves]
    BY <1>1, <1>2 DEF HeldByReserves, Reserves, TypeOK
  <1>4. chan \in Chans(HeldByReserves)
    <2>1. chan = [n \in Node |-> [m \in Node |-> <<>>]]
      BY DEF Init, Formed
    <2>2. \A S : <<>> \in Seq(S)
      OBVIOUS
    <2> QED
      BY <2>1, <2>2 DEF Chans
  <1> QED
    BY <1>1, <1>3, <1>4 DEF ReservesInv, Within

(* Without a game that moves them, the roles are only ever with their first *)
(* node and its reserves, whoever restarts and whichever links drop, also   *)
(* while none of these is in the mesh (get_role_successor).                 *)
THEOREM ReservesKeep == Spec \/ FormedSpec => []ReservesOnly
  <1>1. Init \/ Formed => ReservesInv
    BY ReservesInit
  <1>2. ReservesInv /\ [Next]_vars => ReservesInv'
    BY ReservesNext
  <1>3. ReservesInv => ReservesOnly
    BY DEF ReservesInv, ReservesOnly, ReservesFixed, Within, HeldByReserves,
           Reserves
  <1> QED
    BY <1>1, <1>2, <1>3, PTL DEF Spec, FormedSpec

-----------------------------------------------------------------------------
(* What is on its way in one direction: of which kinds, which of them were  *)
(* sent since the link came up last, whether a status or roles in S will be *)
(* heard.                                                                   *)

Has(q, kind) == \E i \in 1 .. Len(q) : q[i].kind = kind
Fresh(q, kind) == \E i \in 1 .. Len(q) :
  q[i].kind = kind /\ \A j \in i .. Len(q) : q[j].kind # "lost"
Closed(q) == q # <<>> => q[Len(q)].kind = "lost"
OpensFirst(q) == \A i \in 1 .. Len(q) - 1 :
  q[i + 1].kind = "open" => q[i].kind = "lost"
Tells(q, S) == \E i \in 1 .. Len(q) :
  /\ q[i].kind = "status" /\ q[i].status.roles \in S
  /\ \A j \in i + 1 .. Len(q) : q[j].kind \notin {"hello", "lost"}
Passes(q, S) == \E i \in 1 .. Len(q) :
  q[i].kind = "roles" /\ q[i].roles \in S

LEMMA Appended ==
  ASSUME NEW q \in Seq(Message), NEW m \in Message
  PROVE  /\ Append(q, m) \in Seq(Message)
         /\ \A k : Has(Append(q, m), k) <=> Has(q, k) \/ m.kind = k
         /\ \A k : Fresh(Append(q, m), k) <=>
              m.kind # "lost" /\ (m.kind = k \/ Fresh(q, k))
         /\ Closed(Append(q, m)) <=> m.kind = "lost"
         /\ OpensFirst(Append(q, m)) <=>
              OpensFirst(q) /\ (m.kind = "open" => Closed(q))
         /\ \A S : Tells(Append(q, m), S) <=>
              \/ m.kind = "status" /\ m.status.roles \in S
              \/ m.kind \notin {"hello", "lost"} /\ Tells(q, S)
         /\ \A S : Passes(Append(q, m), S) <=>
              (m.kind = "roles" /\ m.roles \in S) \/ Passes(q, S)
  <1> DEFINE r == Append(q, m)
  <1>1. /\ r \in Seq(Message) /\ Len(q) \in Nat /\ Len(r) = Len(q) + 1
        /\ r[Len(q) + 1] = m /\ r # <<>>
        /\ \A i \in 1 .. Len(q) : r[i] = q[i]
    BY AppendProperties, LenProperties
  <1> HIDE DEF r
  <1>2. \A i \in 1 .. Len(r) : i = Len(q) + 1 \/ i \in 1 .. Len(q)
    BY <1>1
  <1>3. \A i \in 1 .. Len(q) + 1 : i \in 1 .. Len(r)
    BY <1>1
  <1>4. \A k : Has(r, k) <=> Has(q, k) \/ m.kind = k
    BY <1>1, <1>2, <1>3 DEF Has
  <1>5. \A S : Passes(r, S) <=> (m.kind = "roles" /\ m.roles \in S) \/ Passes(q, S)
    BY <1>1, <1>2, <1>3 DEF Passes
  <1>6. Closed(r) <=> m.kind = "lost"
    BY <1>1 DEF Closed
  <1>7. ASSUME NEW k
        PROVE  Fresh(r, k) <=> m.kind # "lost" /\ (m.kind = k \/ Fresh(q, k))
    <2>1. ASSUME Fresh(r, k)
          PROVE  m.kind # "lost" /\ (m.kind = k \/ Fresh(q, k))
      <3>1. PICK i \in 1 .. Len(r) :
              r[i].kind = k /\ \A j \in i .. Len(r) : r[j].kind # "lost"
        BY <2>1 DEF Fresh
      <3>2. m.kind # "lost"
        BY <1>1, <3>1
      <3>3. CASE i = Len(q) + 1
        BY <1>1, <3>1, <3>2, <3>3
      <3>4. ASSUME i \in 1 .. Len(q) PROVE Fresh(q, k)
        <4>1. q[i].kind = k /\ \A j \in i .. Len(q) : q[j].kind # "lost"
          BY <1>1, <3>1, <3>4
        <4> QED
          BY <3>4, <4>1 DEF Fresh
      <3> QED
        BY <1>2, <3>2, <3>3, <3>4
    <2>2. ASSUME m.kind # "lost", m.kind = k PROVE Fresh(r, k)
      <3>1. Len(q) + 1 \in 1 .. Len(r)
            /\ \A j \in Len(q) + 1 .. Len(r) : r[j].kind # "lost"
        BY <1>1, <2>2
      <3> QED
        BY <1>1, <2>2, <3>1 DEF Fresh
    <2>3. ASSUME m.kind # "lost", Fresh(q, k) PROVE Fresh(r, k)
      <3>1. PICK i \in 1 .. Len(q) :
              q[i].kind = k /\ \A j \in i .. Len(q) : q[j].kind # "lost"
        BY <2>3 DEF Fresh
      <3>2. \A j \in i .. Len(r) : j = Len(q) + 1 \/ j \in i .. Len(q)
        BY <1>1, <3>1
      <3>3. \A j \in i .. Len(r) : r[j].kind # "lost"
        BY <1>1, <2>3, <3>1, <3>2
      <3> QED
        BY <1>1, <1>3, <3>1, <3>3 DEF Fresh
    <2> QED
      BY <2>1, <2>2, <2>3
  <1>8. OpensFirst(r) <=> OpensFirst(q) /\ (m.kind = "open" => Closed(q))
    <2>1. \A i \in 1 .. Len(r) - 1 :
            i = Len(q) \/ (i \in 1 .. Len(q) - 1 /\ r[i + 1] = q[i + 1])
      BY <1>1
    <2>2. \A i \in 1 .. Len(q) - 1 :
            i \in 1 .. Len(r) - 1 /\ r[i + 1] = q[i + 1] /\ r[i] = q[i]
      BY <1>1
    <2>3. q # <<>> => /\ Len(q) \in 1 .. Len(r) - 1
                      /\ r[Len(q)] = q[Len(q)] /\ r[Len(q) + 1] = m
      BY <1>1, EmptySeq
    <2>4. q = <<>> => Len(q) = 0
      BY EmptySeq
    <2>5. OpensFirst(r) => OpensFirst(q)
      BY <2>2 DEF OpensFirst
    <2>6. OpensFirst(r) /\ m.kind = "open" => Closed(q)
      BY <2>3 DEF OpensFirst, Closed
    <2>7. ASSUME OpensFirst(q), m.kind = "open" => Closed(q),
                 NEW i \in 1 .. Len(r) - 1, r[i + 1].kind = "open"
          PROVE  r[i].kind = "lost"
      <3>1. CASE i \in 1 .. Len(q) - 1 /\ r[i + 1] = q[i + 1]
        BY <2>2, <2>7, <3>1 DEF OpensFirst
      <3>2. CASE i = Len(q)
        <4>1. q # <<>>
          BY <1>1, <2>4, <2>7, <3>2
        <4> QED
          BY <2>3, <2>7, <3>2, <4>1 DEF Closed
      <3> QED
        BY <2>1, <3>1, <3>2
    <2> QED
      BY <2>5, <2>6, <2>7 DEF OpensFirst
  <1>9. ASSUME NEW S
        PROVE  Tells(r, S) <=> \/ m.kind = "status" /\ m.status.roles \in S
                               \/ m.kind \notin {"hello", "lost"} /\ Tells(q, S)
    <2>1. ASSUME Tells(r, S)
          PROVE  \/ m.kind = "status" /\ m.status.roles \in S
                 \/ m.kind \notin {"hello", "lost"} /\ Tells(q, S)
      <3>1. PICK i \in 1 .. Len(r) :
              /\ r[i].kind = "status" /\ r[i].status.roles \in S
              /\ \A j \in i + 1 .. Len(r) : r[j].kind \notin {"hello", "lost"}
        BY <2>1 DEF Tells
      <3>2. CASE i = Len(q) + 1
        BY <1>1, <3>1, <3>2
      <3>3. ASSUME i \in 1 .. Len(q)
            PROVE  m.kind \notin {"hello", "lost"} /\ Tells(q, S)
        <4>1. Len(q) + 1 \in i + 1 .. Len(r)
          BY <1>1, <3>3
        <4>2. \A j \in i + 1 .. Len(q) :
                j \in i + 1 .. Len(r) /\ r[j] = q[j]
          BY <1>1, <3>3
        <4>3. /\ q[i].kind = "status" /\ q[i].status.roles \in S
              /\ \A j \in i + 1 .. Len(q) : q[j].kind \notin {"hello", "lost"}
          BY <1>1, <3>1, <3>3, <4>2
        <4> QED
          BY <1>1, <3>1, <3>3, <4>1, <4>3 DEF Tells
      <3> QED
        BY <1>2, <3>2, <3>3
    <2>2. ASSUME m.kind = "status", m.status.roles \in S PROVE Tells(r, S)
      <3>1. Len(q) + 1 \in 1 .. Len(r)
            /\ \A j \in Len(q) + 1 + 1 .. Len(r) : FALSE
        BY <1>1
      <3> QED
        BY <1>1, <2>2, <3>1 DEF Tells
    <2>3. ASSUME m.kind \notin {"hello", "lost"}, Tells(q, S) PROVE Tells(r, S)
      <3>1. PICK i \in 1 .. Len(q) :
              /\ q[i].kind = "status" /\ q[i].status.roles \in S
              /\ \A j \in i + 1 .. Len(q) : q[j].kind \notin {"hello", "lost"}
        BY <2>3 DEF Tells
      <3>2. \A j \in i + 1 .. Len(r) :
              j = Len(q) + 1 \/ (j \in i + 1 .. Len(q) /\ r[j] = q[j])
        BY <1>1, <3>1
      <3>3. \A j \in i + 1 .. Len(r) : r[j].kind \notin {"hello", "lost"}
        BY <1>1, <2>3, <3>1, <3>2
      <3> QED
        BY <1>1, <1>3, <3>1, <3>3 DEF Tells
    <2> QED
      BY <2>1, <2>2, <2>3
  <1> QED
    BY <1>1, <1>4, <1>5, <1>6, <1>7, <1>8, <1>9 DEF r

LEMMA TakenFrom ==
  ASSUME NEW q \in Seq(Message), q # <<>>
  PROVE  /\ Head(q) \in Message /\ Tail(q) \in Seq(Message)
         /\ \A k : Has(q, k) <=> Head(q).kind = k \/ Has(Tail(q), k)
         /\ \A k \in {"hello", "open"} : Fresh(q, k) <=>
              \/ Fresh(Tail(q), k)
              \/ Head(q).kind = k /\ ~ Has(q, "lost")
         /\ Closed(q) => Closed(Tail(q))
         /\ Closed(q) => Head(q).kind = "lost" \/ Has(Tail(q), "lost")
         /\ OpensFirst(q) => OpensFirst(Tail(q))
         /\ OpensFirst(q) /\ Head(q).kind # "lost" /\ ~ Has(Tail(q), "lost")
              => ~ Has(Tail(q), "open")
         /\ \A S : Tells(q, S) <=>
              \/ Tells(Tail(q), S)
              \/ /\ Head(q).kind = "status" /\ Head(q).status.roles \in S
                 /\ ~ Has(Tail(q), "hello") /\ ~ Has(Tail(q), "lost")
         /\ \A S : Passes(q, S) <=>
              \/ Head(q).kind = "roles" /\ Head(q).roles \in S
              \/ Passes(Tail(q), S)
  <1> DEFINE t == Tail(q)
             m == Head(q)
  <1>1. /\ m \in Message /\ t \in Seq(Message) /\ Len(t) \in Nat
        /\ Len(q) = Len(t) + 1 /\ q[1] = m
        /\ \A i \in 1 .. Len(t) : t[i] = q[i + 1]
    BY HeadTailProperties, EmptySeq, LenProperties
  <1> HIDE DEF t, m
  <1>2. \A i \in 1 .. Len(q) :
          i = 1 \/ (i - 1 \in 1 .. Len(t) /\ q[i] = t[i - 1])
    BY <1>1
  <1>3. /\ 1 \in 1 .. Len(q)
        /\ \A i \in 1 .. Len(t) : i + 1 \in 1 .. Len(q) /\ q[i + 1] = t[i]
    BY <1>1
  <1>4. \A k : Has(q, k) <=> m.kind = k \/ Has(t, k)
    BY <1>1, <1>2, <1>3 DEF Has
  <1>5. \A S : Passes(q, S) <=> \/ m.kind = "roles" /\ m.roles \in S
                                \/ Passes(t, S)
    BY <1>1, <1>2, <1>3 DEF Passes
  <1>6. \A i \in 1 .. Len(q) : \A j \in 1 .. Len(t) :
          j + 1 \in i .. Len(q) <=> j \in i - 1 .. Len(t)
    BY <1>1
  <1>7. ASSUME NEW k, k # "lost"
        PROVE  Fresh(q, k) <=> \/ Fresh(t, k)
                               \/ m.kind = k /\ ~ Has(q, "lost")
    <2>1. ASSUME Fresh(q, k)
          PROVE  Fresh(t, k) \/ (m.kind = k /\ ~ Has(q, "lost"))
      <3>1. PICK i \in 1 .. Len(q) :
              q[i].kind = k /\ \A j \in i .. Len(q) : q[j].kind # "lost"
        BY <2>1 DEF Fresh
      <3>2. CASE i = 1
        BY <1>1, <3>1, <3>2 DEF Has
      <3>3. ASSUME i # 1 PROVE Fresh(t, k)
        <4>1. i - 1 \in 1 .. Len(t) /\ t[i - 1].kind = k
          BY <1>2, <3>1, <3>3
        <4>2. \A j \in i - 1 .. Len(t) :
                j + 1 \in i .. Len(q) /\ t[j] = q[j + 1]
          BY <1>1, <3>1, <3>3
        <4>3. \A j \in i - 1 .. Len(t) : t[j].kind # "lost"
          BY <3>1, <4>2
        <4> QED
          BY <4>1, <4>3 DEF Fresh
      <3> QED
        BY <3>2, <3>3
    <2>2. ASSUME Fresh(t, k) PROVE Fresh(q, k)
      <3>1. PICK i \in 1 .. Len(t) :
              t[i].kind = k /\ \A j \in i .. Len(t) : t[j].kind # "lost"
        BY <2>2 DEF Fresh
      <3>2. \A j \in i + 1 .. Len(q) :
              j - 1 \in i .. Len(t) /\ q[j] = t[j - 1]
        BY <1>1, <1>2, <3>1
      <3>3. \A j \in i + 1 .. Len(q) : q[j].kind # "lost"
        BY <3>1, <3>2
      <3> QED
        BY <1>3, <3>1, <3>3 DEF Fresh
    <2>3. ASSUME m.kind = k, ~ Has(q, "lost") PROVE Fresh(q, k)
      BY <1>1, <1>3, <2>3 DEF Fresh, Has
    <2> QED
      BY <2>1, <2>2, <2>3
  <1>8. /\ Closed(q) => Closed(t)
        /\ Closed(q) => m.kind = "lost" \/ Has(t, "lost")
    <2>1. t # <<>> => Len(t) \in 1 .. Len(t) /\ t[Len(t)] = q[Len(q)]
      BY <1>1, EmptySeq
    <2>2. t = <<>> => q[Len(q)] = m
      BY <1>1, EmptySeq
    <2> QED
      BY <2>1, <2>2 DEF Closed, Has
  <1>9. OpensFirst(q) => OpensFirst(t)
    <2>1. \A i \in 1 .. Len(t) - 1 :
            /\ i + 1 \in 1 .. Len(q) - 1
            /\ t[i] = q[i + 1] /\ t[i + 1] = q[i + 1 + 1]
      BY <1>1
    <2> QED
      BY <2>1 DEF OpensFirst
  <1>10. ASSUME OpensFirst(q), m.kind # "lost", ~ Has(t, "lost"), Has(t, "open")
         PROVE  FALSE
    <2>1. PICK i \in 1 .. Len(t) : t[i].kind = "open"
      BY <1>10 DEF Has
    <2>2. i \in 1 .. Len(q) - 1 /\ q[i + 1].kind = "open"
      BY <1>1, <2>1
    <2>3. q[i].kind = "lost"
      BY <1>10, <2>2 DEF OpensFirst
    <2>4. Has(q, "lost")
      BY <2>2, <2>3 DEF Has
    <2> QED
      BY <1>4, <1>10, <2>4
  <1>11. ASSUME NEW S
         PROVE  Tells(q, S) <=>
                  \/ Tells(t, S)
                  \/ /\ m.kind = "status" /\ m.status.roles \in S
                     /\ ~ Has(t, "hello") /\ ~ Has(t, "lost")
    <2>1. ASSUME Tells(q, S), ~ Tells(t, S)
          PROVE  /\ m.kind = "status" /\ m.status.roles \in S
                 /\ ~ Has(t, "hello") /\ ~ Has(t, "lost")
      <3>1. PICK i \in 1 .. Len(q) :
              /\ q[i].kind = "status" /\ q[i].status.roles \in S
              /\ \A j \in i + 1 .. Len(q) : q[j].kind \notin {"hello", "lost"}
        BY <2>1 DEF Tells
      <3>2. i = 1
        <4>1. SUFFICES ASSUME i # 1 PROVE Tells(t, S)
          BY <2>1
        <4>2. i - 1 \in 1 .. Len(t) /\ t[i - 1] = q[i]
          BY <1>2, <3>1, <4>1
        <4>3. \A j \in i - 1 + 1 .. Len(t) :
                j + 1 \in i + 1 .. Len(q) /\ t[j] = q[j + 1]
          BY <1>1, <3>1, <4>1
        <4>4. \A j \in i - 1 + 1 .. Len(t) : t[j].kind \notin {"hello", "lost"}
          BY <3>1, <4>3
        <4> QED
          BY <3>1, <4>2, <4>4 DEF Tells
      <3>3. \A j \in 1 .. Len(t) : j + 1 \in i + 1 .. Len(q)
        BY <1>1, <3>2
      <3>4. \A j \in 1 .. Len(t) : t[j].kind \notin {"hello", "lost"}
        BY <1>1, <3>1, <3>3
      <3> QED
        BY <1>1, <3>1, <3>2, <3>4 DEF Has
    <2>2. ASSUME Tells(t, S) PROVE Tells(q, S)
      <3>1. PICK i \in 1 .. Len(t) :
              /\ t[i].kind = "status" /\ t[i].status.roles \in S
              /\ \A j \in i + 1 .. Len(t) : t[j].kind \notin {"hello", "lost"}
        BY <2>2 DEF Tells
      <3>2. \A j \in i + 1 + 1 .. Len(q) :
              j - 1 \in i + 1 .. Len(t) /\ q[j] = t[j - 1]
        BY <1>1, <1>2, <3>1
      <3>3. \A j \in i + 1 + 1 .. Len(q) : q[j].kind \notin {"hello", "lost"}
        BY <3>1, <3>2
      <3> QED
        BY <1>3, <3>1, <3>3 DEF Tells
    <2>3. ASSUME m.kind = "status", m.status.roles \in S,
                 ~ Has(t, "hello"), ~ Has(t, "lost")
          PROVE  Tells(q, S)
      <3>1. \A j \in 1 + 1 .. Len(q) :
              j - 1 \in 1 .. Len(t) /\ q[j] = t[j - 1]
        BY <1>1, <1>2
      <3>2. \A j \in 1 + 1 .. Len(q) : q[j].kind \notin {"hello", "lost"}
        BY <2>3, <3>1 DEF Has
      <3> QED
        BY <1>1, <1>3, <2>3, <3>2 DEF Tells
    <2> QED
      BY <2>1, <2>2, <2>3
  <1> QED
    BY <1>1, <1>4, <1>5, <1>7, <1>8, <1>9, <1>10, <1>11 DEF t, m

-----------------------------------------------------------------------------
(* One link from one of its ends: a is what this node knows about the       *)
(* other, b what the other knows about it, p is on its way there and q on   *)
(* its way here, r and o are the roles of the two.                          *)

LEMMA BeatsOrder ==
  ASSUME NEW r \in Roles, NEW s \in Roles
  PROVE  /\ Beats(r, s) => ~ Beats(s, r)
         /\ \A t \in Roles : Beats(r, t) => Beats(r, s) \/ Beats(s, t)
  <1>1. \A x \in Roles : x.term \in Nat /\ x.node \in Nat
    BY RolesAssumption DEF Roles
  <1> QED
    BY <1>1 DEF Beats

UpTo(r) == {z \in Roles : ~ Beats(z, r)}
Older(r) == {z \in Roles : Beats(r, z)}
AtLeast(r) == {z \in Roles : ~ Beats(r, z)}

Sees(a, q) == a.known /\ ~ Has(q, "lost")
Meets(a, q) == a.ready /\ ~ Has(q, "lost")

(* While the link is up, a node that saw it come up greets the other; and   *)
(* one that passed the handshake tells what it sees to the other, for when  *)
(* that one passes it too.                                                  *)
Side(link, a, b, p, q, o) ==
  /\ a.ready => a.known
  /\ ~ link => Closed(q) /\ (a.known => Has(q, "lost"))
  /\ link /\ Fresh(q, "open") => (a.known => Has(q, "lost"))
  /\ link /\ ~ Fresh(q, "open") => Sees(a, q)
  /\ OpensFirst(q)
  /\ link /\ Sees(a, q) => Fresh(p, "hello") \/ Meets(b, p)
  /\ link /\ Meets(b, p) /\ ~ Meets(a, q) => Tells(q, UpTo(o))

Both(link, a, b, p, q, r, o) ==
  Side(link, a, b, p, q, o) /\ Side(link, b, a, q, p, r)

(* The other has older roles than this node: a handshake that makes it tell *)
(* them is on its way, or its telling them, or the later ones.              *)
Caught(link, a, b, p, q, r, o) ==
  link /\ Sees(a, q) /\ Beats(r, o) =>
    \/ Fresh(p, "hello") /\ ~ Meets(b, p)
    \/ Sees(b, p) /\ Tells(q, Older(r))
    \/ Meets(b, p) /\ Passes(p, AtLeast(r))

(* What p says, p2 says too, and no more than a node's roles.               *)
Longer(p, p2) ==
  /\ Fresh(p2, "hello") <=> Fresh(p, "hello")
  /\ Fresh(p2, "open") <=> Fresh(p, "open")
  /\ Has(p2, "lost") <=> Has(p, "lost")
  /\ OpensFirst(p) => OpensFirst(p2)
  /\ \A S : Tells(p, S) => Tells(p2, S)
  /\ \A S : Passes(p, S) => Passes(p2, S)

LEMMA LongerTalk ==
  ASSUME NEW p \in Seq(Message), NEW m \in Message, m.kind \in {"roles", "status"}
  PROVE  Append(p, m) \in Seq(Message) /\ Longer(p, Append(p, m))
  BY Appended DEF Longer

LEMMA LongerTwice ==
  ASSUME NEW p, NEW p2, NEW p3, Longer(p, p2), Longer(p2, p3)
  PROVE  Longer(p, p3)
  BY DEF Longer

LEMMA TellsMore ==
  ASSUME NEW q, NEW S, NEW T, S \subseteq T
  PROVE  (Tells(q, S) => Tells(q, T)) /\ (Passes(q, S) => Passes(q, T))
  BY DEF Tells, Passes

LEMMA OrderSets ==
  ASSUME NEW r \in Roles, NEW r2 \in Roles
  PROVE  /\ ~ Beats(r, r2) => UpTo(r) \subseteq UpTo(r2)
         /\ ~ Beats(r, r2) => Older(r) \subseteq Older(r2)
         /\ ~ Beats(r2, r) => AtLeast(r) \subseteq AtLeast(r2)
         /\ Beats(r, r2) => UpTo(r2) \subseteq Older(r)
  BY BeatsOrder DEF UpTo, Older, AtLeast

(* Talk is added and the roles become later.                               *)
LEMMA LinkTalk ==
  ASSUME NEW link \in BOOLEAN, NEW a, NEW b, NEW p, NEW q, NEW p2, NEW q2,
         NEW r \in Roles, NEW o \in Roles, NEW r2 \in Roles, NEW o2 \in Roles,
         link => Longer(p, p2) /\ Longer(q, q2),
         ~ link => p2 = p /\ q2 = q,
         ~ Beats(o, o2)
  PROVE  /\ Side(link, a, b, p, q, o) => Side(link, a, b, p2, q2, o2)
         /\ Caught(link, a, b, p, q, r, o) /\ ~ Beats(r, r2) /\ ~ Beats(r2, r)
              => Caught(link, a, b, p2, q2, r2, o2)
  <1>1. UpTo(o) \subseteq UpTo(o2)
    BY OrderSets
  <1>2. ASSUME Side(link, a, b, p, q, o) PROVE Side(link, a, b, p2, q2, o2)
    <2>1. CASE ~ link
      BY <1>2, <2>1 DEF Side
    <2>2. CASE link
      <3>1. Tells(q, UpTo(o)) => Tells(q2, UpTo(o2))
        BY <1>1, <2>2, TellsMore DEF Longer
      <3> QED
        BY <1>2, <2>2, <3>1 DEF Side, Longer, Sees, Meets
    <2> QED
      BY <2>1, <2>2
  <1>3. ASSUME Caught(link, a, b, p, q, r, o), ~ Beats(r, r2), ~ Beats(r2, r),
               link, Sees(a, q2), Beats(r2, o2)
        PROVE  \/ Fresh(p2, "hello") /\ ~ Meets(b, p2)
               \/ Sees(b, p2) /\ Tells(q2, Older(r2))
               \/ Meets(b, p2) /\ Passes(p2, AtLeast(r2))
    <2>1. Beats(r, o)
      BY <1>3, BeatsOrder
    <2>2. Older(r) \subseteq Older(r2) /\ AtLeast(r) \subseteq AtLeast(r2)
      BY <1>3, OrderSets
    <2>3. /\ Tells(q, Older(r)) => Tells(q2, Older(r2))
          /\ Passes(p, AtLeast(r)) => Passes(p2, AtLeast(r2))
      BY <1>3, <2>2, TellsMore DEF Longer
    <2> QED
      BY <1>3, <2>1, <2>3 DEF Caught, Longer, Sees, Meets
  <1> QED
    BY <1>2, <1>3 DEF Caught

(* A node that just took the roles or moved them, and told the ready nodes. *)
LEMMA LinkTop ==
  ASSUME NEW link \in BOOLEAN, NEW a, NEW b, NEW p, NEW q,
         NEW r \in Roles, NEW o \in Roles,
         Both(link, a, b, p, q, r, o),
         link /\ Meets(a, q) => Passes(p, AtLeast(r))
  PROVE  Caught(link, a, b, p, q, r, o)
  <1>1. SUFFICES ASSUME link, Sees(a, q), Beats(r, o)
                 PROVE  \/ Fresh(p, "hello") /\ ~ Meets(b, p)
                        \/ Sees(b, p) /\ Tells(q, Older(r))
                        \/ Meets(b, p) /\ Passes(p, AtLeast(r))
    BY DEF Caught
  <1>2. Tells(q, UpTo(o)) => Tells(q, Older(r))
    BY <1>1, OrderSets, TellsMore
  <1>3. Fresh(p, "hello") \/ Meets(b, p)
    BY <1>1 DEF Both, Side
  <1>4. Meets(b, p) => Sees(b, p)
    BY DEF Both, Side, Meets, Sees
  <1>5. Meets(b, p) /\ ~ Meets(a, q) => Tells(q, UpTo(o))
    BY <1>1 DEF Both, Side
  <1> QED
    BY <1>1, <1>2, <1>3, <1>4, <1>5

-----------------------------------------------------------------------------
(* This node takes the first of q.                                         *)

LEMMA LinkOpened ==
  ASSUME NEW link \in BOOLEAN, NEW a, NEW b, NEW a2,
         NEW p \in Seq(Message), NEW q \in Seq(Message), NEW p2,
         NEW r \in Roles, NEW o \in Roles, NEW msg \in Message,
         Both(link, a, b, p, q, r, o),
         q # <<>>, Head(q).kind = "open",
         a2.known, a2.ready <=> a.ready,
         msg.kind = "hello",
         p2 = p \/ (link /\ ~ a.known /\ p2 = Append(p, msg)),
         link /\ ~ a.known /\ ~ Has(Tail(q), "lost") => p2 = Append(p, msg)
  PROVE  /\ Both(link, a2, b, p2, Tail(q), r, o)
         /\ Caught(link, a, b, p, q, r, o)
              => Caught(link, a2, b, p2, Tail(q), r, o)
         /\ Caught(link, b, a, q, p, o, r)
              => Caught(link, b, a2, Tail(q), p2, o, r)
  <1> DEFINE t == Tail(q)
  <1>1. /\ Has(q, "lost") <=> Has(t, "lost")
        /\ Fresh(q, "hello") <=> Fresh(t, "hello")
        /\ Fresh(q, "open") <=> Fresh(t, "open") \/ ~ Has(q, "lost")
        /\ Closed(q) => Closed(t) /\ Has(t, "lost")
        /\ OpensFirst(t)
        /\ ~ Has(t, "lost") => ~ Has(t, "open")
        /\ \A S : Tells(q, S) <=> Tells(t, S)
        /\ \A S : Passes(q, S) <=> Passes(t, S)
    BY TakenFrom DEF Both, Side
  <1>2. Fresh(t, "open") => Has(t, "open")
    BY DEF Fresh, Has
  <1>3. ASSUME p2 = Append(p, msg)
        PROVE  /\ Fresh(p2, "hello")
               /\ Has(p2, "lost") <=> Has(p, "lost")
               /\ Fresh(p2, "open") <=> Fresh(p, "open")
               /\ OpensFirst(p2) <=> OpensFirst(p)
               /\ \A S : Passes(p, S) => Passes(p2, S)
    BY <1>3, Appended
  <1> HIDE DEF t
  <1>4. link /\ ~ a.known => ~ Meets(a, q)
    BY DEF Both, Side, Meets
  <1>5. Side(link, a2, b, p2, t, o)
    BY <1>1, <1>2, <1>3, <1>4 DEF Both, Side, Sees, Meets, t
  <1>6. Side(link, b, a2, t, p2, r)
    BY <1>1, <1>2, <1>3, <1>4 DEF Both, Side, Sees, Meets, t
  <1>7. ASSUME Caught(link, a, b, p, q, r, o), link, Sees(a2, t), Beats(r, o)
        PROVE  \/ Fresh(p2, "hello") /\ ~ Meets(b, p2)
               \/ Sees(b, p2) /\ Tells(t, Older(r))
               \/ Meets(b, p2) /\ Passes(p2, AtLeast(r))
    <2>1. p2 = Append(p, msg) /\ ~ a.known
      BY <1>1, <1>7 DEF Both, Side, Sees, t
    <2>2. Meets(b, p) => Tells(q, UpTo(o)) /\ Sees(b, p)
      BY <1>4, <1>7, <2>1 DEF Both, Side, Meets, Sees
    <2>3. Tells(q, UpTo(o)) => Tells(t, Older(r))
      BY <1>1, <1>7, OrderSets, TellsMore
    <2> QED
      BY <1>3, <2>1, <2>2, <2>3 DEF Meets, Sees
  <1>8. ASSUME Caught(link, b, a, q, p, o, r)
        PROVE  Caught(link, b, a2, t, p2, o, r)
    <2>1. SUFFICES ASSUME link, Sees(b, p2), Beats(o, r)
                   PROVE  \/ Fresh(t, "hello") /\ ~ Meets(a2, t)
                          \/ Sees(a2, t) /\ Tells(p2, Older(o))
                          \/ Meets(a2, t) /\ Passes(t, AtLeast(o))
      BY DEF Caught
    <2>2. Sees(b, p)
      BY <1>3, <2>1 DEF Sees
    <2>3. \/ Fresh(q, "hello") /\ ~ Meets(a, q)
          \/ Sees(a, q) /\ Tells(p, Older(o))
          \/ Meets(a, q) /\ Passes(q, AtLeast(o))
      BY <1>8, <2>1, <2>2 DEF Caught
    <2>4. Sees(a, q) => p2 = p
      BY DEF Sees
    <2> QED
      BY <1>1, <2>3, <2>4 DEF Meets, Sees
  <1> QED
    BY <1>5, <1>6, <1>7, <1>8 DEF Both, Caught, t

LEMMA LinkLost ==
  ASSUME NEW link \in BOOLEAN, NEW a, NEW b, NEW a2,
         NEW p \in Seq(Message), NEW q \in Seq(Message),
         NEW r \in Roles, NEW o \in Roles,
         Both(link, a, b, p, q, r, o),
         q # <<>>, Head(q).kind = "lost",
         ~ a2.known, ~ a2.ready
  PROVE  /\ Both(link, a2, b, p, Tail(q), r, o)
         /\ Caught(link, a2, b, p, Tail(q), r, o)
         /\ Caught(link, b, a, q, p, o, r)
              => Caught(link, b, a2, Tail(q), p, o, r)
  <1> DEFINE t == Tail(q)
  <1>1. /\ Has(q, "lost")
        /\ Fresh(q, "hello") <=> Fresh(t, "hello")
        /\ Fresh(q, "open") <=> Fresh(t, "open")
        /\ Closed(q) => Closed(t)
        /\ OpensFirst(t)
        /\ \A S : Tells(q, S) <=> Tells(t, S)
    BY TakenFrom DEF Both, Side
  <1> HIDE DEF t
  <1>2. Side(link, a2, b, p, t, o)
    BY <1>1 DEF Both, Side, Sees, Meets
  <1>3. Side(link, b, a2, t, p, r)
    BY <1>1 DEF Both, Side, Sees, Meets
  <1>4. Caught(link, a2, b, p, t, r, o)
    BY DEF Caught, Sees
  <1>5. ASSUME Caught(link, b, a, q, p, o, r)
        PROVE  Caught(link, b, a2, t, p, o, r)
    BY <1>1, <1>5 DEF Caught, Sees, Meets
  <1> QED
    BY <1>2, <1>3, <1>4, <1>5 DEF Both, t

(* The handshake of the other is taken: this node is ready, and tells what  *)
(* it sees.                                                                 *)
Meeting(link, a, b, a2, p, q, p2, r, o, r2, msg) ==
  /\ link \in BOOLEAN /\ p \in Seq(Message) /\ q \in Seq(Message)
  /\ r \in Roles /\ o \in Roles /\ r2 \in Roles /\ msg \in Message
  /\ Both(link, a, b, p, q, r, o)
  /\ q # <<>> /\ Head(q).kind = "hello"
  /\ ~ a.ready /\ a.known /\ a2.known /\ a2.ready
  /\ msg.kind = "status" /\ msg.status.roles = r2
  /\ ~ Beats(r, r2)
  /\ p2 = p \/ (link /\ p2 = Append(p, msg))
  /\ link /\ ~ Has(Tail(q), "lost") => p2 = Append(p, msg)

LEMMA LinkMet ==
  ASSUME NEW link, NEW a, NEW b, NEW a2, NEW p, NEW q, NEW p2,
         NEW r, NEW o, NEW r2, NEW msg,
         Meeting(link, a, b, a2, p, q, p2, r, o, r2, msg)
  PROVE  /\ Both(link, a2, b, p2, Tail(q), r2, o)
         /\ Caught(link, a, b, p, q, r, o) /\ ~ Beats(r2, r)
              => Caught(link, a2, b, p2, Tail(q), r2, o)
         /\ Caught(link, b, a, q, p, o, r)
              => Caught(link, b, a2, Tail(q), p2, o, r2)
  <1> USE DEF Meeting
  <1> DEFINE t == Tail(q)
  <1>1. /\ Has(q, "lost") <=> Has(t, "lost")
        /\ Fresh(q, "hello") <=> Fresh(t, "hello") \/ ~ Has(q, "lost")
        /\ Fresh(q, "open") <=> Fresh(t, "open")
        /\ Closed(q) => Closed(t) /\ Has(t, "lost")
        /\ OpensFirst(t)
        /\ ~ Has(t, "lost") => ~ Has(t, "open")
        /\ \A S : Tells(q, S) <=> Tells(t, S)
        /\ \A S : Passes(q, S) <=> Passes(t, S)
    BY TakenFrom DEF Both, Side
  <1>2. Longer(p, p2)
    <2>1. Longer(p, p)
      BY DEF Longer
    <2>2. Longer(p, Append(p, msg))
      BY LongerTalk
    <2> QED
      BY <2>1, <2>2
  <1>3. ASSUME p2 = Append(p, msg), NEW S, r2 \in S
        PROVE  Tells(p2, S)
    BY <1>3, Appended
  <1>4. UpTo(r) \subseteq UpTo(r2) /\ r2 \in UpTo(r2)
    BY OrderSets, BeatsOrder DEF UpTo
  <1> HIDE DEF t
  <1>5. Side(link, a2, b, p2, t, o)
    BY <1>1, <1>2 DEF Both, Side, Sees, Meets, Longer, t
  <1>6. Side(link, b, a2, t, p2, r2)
    <2>1. Tells(p, UpTo(r)) => Tells(p2, UpTo(r2))
      BY <1>2, <1>4, TellsMore DEF Longer
    <2>2. p2 = Append(p, msg) => Tells(p2, UpTo(r2))
      BY <1>3, <1>4
    <2>3. ~ link => p2 = p
      OBVIOUS
    <2> QED
      BY <1>1, <1>2, <2>1, <2>2, <2>3 DEF Both, Side, Sees, Meets, Longer, t
  <1>7. ASSUME Caught(link, a, b, p, q, r, o), ~ Beats(r2, r)
        PROVE  Caught(link, a2, b, p2, t, r2, o)
    <2>1. SUFFICES ASSUME link, Sees(a2, t), Beats(r2, o)
                   PROVE  \/ Fresh(p2, "hello") /\ ~ Meets(b, p2)
                          \/ Sees(b, p2) /\ Tells(t, Older(r2))
                          \/ Meets(b, p2) /\ Passes(p2, AtLeast(r2))
      BY DEF Caught
    <2>2. Beats(r, o) /\ Sees(a, q)
      BY <1>1, <1>7, <2>1, BeatsOrder DEF Sees
    <2>3. Older(r) \subseteq Older(r2) /\ AtLeast(r) \subseteq AtLeast(r2)
      BY <1>7, OrderSets
    <2>4. /\ Tells(q, Older(r)) => Tells(t, Older(r2))
          /\ Passes(p, AtLeast(r)) => Passes(p2, AtLeast(r2))
      BY <1>1, <1>2, <2>3, TellsMore DEF Longer
    <2> QED
      BY <1>2, <1>7, <2>1, <2>2, <2>4 DEF Caught, Longer, Sees, Meets
  <1>8. ASSUME Caught(link, b, a, q, p, o, r)
        PROVE  Caught(link, b, a2, t, p2, o, r2)
    <2>1. SUFFICES ASSUME link, Sees(b, p2), Beats(o, r2)
                   PROVE  \/ Fresh(t, "hello") /\ ~ Meets(a2, t)
                          \/ Sees(a2, t) /\ Tells(p2, Older(o))
                          \/ Meets(a2, t) /\ Passes(t, AtLeast(o))
      BY DEF Caught
    <2>2. Sees(b, p) /\ Beats(o, r)
      BY <1>2, <2>1, BeatsOrder DEF Sees, Longer
    <2>3. \/ Fresh(q, "hello") /\ ~ Meets(a, q)
          \/ Sees(a, q) /\ Tells(p, Older(o))
          \/ Meets(a, q) /\ Passes(q, AtLeast(o))
      BY <1>8, <2>1, <2>2 DEF Caught
    <2>4. CASE Has(t, "lost")
      BY <1>1, <2>3, <2>4 DEF Sees, Meets
    <2>5. CASE ~ Has(t, "lost")
      <3>1. r2 \in Older(o)
        BY <2>1 DEF Older
      <3> QED
        BY <1>3, <2>1, <2>5, <3>1 DEF Sees, t
    <2> QED
      BY <2>4, <2>5
  <1> QED
    BY <1>5, <1>6, <1>7, <1>8 DEF Both, t

(* Anything else that is heard or passed over, and perhaps answered.       *)
LEMMA LinkHeard ==
  ASSUME NEW link \in BOOLEAN, NEW a, NEW b, NEW a2,
         NEW p \in Seq(Message), NEW q \in Seq(Message), NEW p2,
         NEW r \in Roles, NEW o \in Roles, NEW r2 \in Roles, NEW msg \in Message,
         Both(link, a, b, p, q, r, o),
         q # <<>>, Head(q).kind \in {"hello", "roles", "status"},
         Head(q).kind = "hello" => a.ready \/ ~ a.known,
         a2.ready <=> a.ready, a2.known <=> a.known,
         ~ Beats(r, r2),
         Head(q).kind = "roles" /\ a.ready => ~ Beats(Head(q).roles, r2),
         msg.kind = "roles",
         p2 = p \/ (link /\ p2 = Append(p, msg)),
         (Head(q).kind = "status" /\ a.ready /\ link /\ ~ Has(Tail(q), "lost")
            /\ Beats(r, Head(q).status.roles)) => Passes(p2, AtLeast(r))
  PROVE  /\ Both(link, a2, b, p2, Tail(q), r2, o)
         /\ Caught(link, a, b, p, q, r, o) /\ ~ Beats(r2, r)
              => Caught(link, a2, b, p2, Tail(q), r2, o)
         /\ Caught(link, b, a, q, p, o, r)
              => Caught(link, b, a2, Tail(q), p2, o, r2)
  <1> DEFINE t == Tail(q)
             m == Head(q)
  <1>1. /\ Has(q, "lost") <=> Has(t, "lost")
        /\ Fresh(q, "hello") <=>
             Fresh(t, "hello") \/ (m.kind = "hello" /\ ~ Has(q, "lost"))
        /\ Fresh(q, "open") <=> Fresh(t, "open")
        /\ Closed(q) => Closed(t) /\ Has(t, "lost")
        /\ OpensFirst(t)
        /\ ~ Has(t, "lost") => ~ Has(t, "open")
        /\ \A S : Tells(q, S) <=>
             \/ Tells(t, S)
             \/ /\ m.kind = "status" /\ m.status.roles \in S
                /\ ~ Has(t, "hello") /\ ~ Has(t, "lost")
        /\ \A S : Passes(q, S) <=>
             (m.kind = "roles" /\ m.roles \in S) \/ Passes(t, S)
    BY TakenFrom DEF Both, Side
  <1>2. Longer(p, p2)
    <2>1. CASE p2 = p
      BY <2>1 DEF Longer
    <2>2. Longer(p, Append(p, msg))
      BY LongerTalk
    <2> QED
      BY <2>1, <2>2
  <1>3. Fresh(t, "open") => Has(t, "open")
    BY DEF Fresh, Has
  <1>4. Fresh(t, "hello") => Has(t, "hello")
    BY DEF Fresh, Has
  <1>5. UpTo(r) \subseteq UpTo(r2)
    BY OrderSets
  <1> HIDE DEF t, m
  <1>6. link /\ ~ Has(t, "lost") => a.known
    BY <1>1, <1>3 DEF Both, Side, Sees
  (* A status that reaches a node finds it ready: the handshake came first. *)
  <1>7. ASSUME link, Sees(b, p), ~ Has(t, "lost"), ~ Has(t, "hello"),
               m.kind = "status"
        PROVE  a.ready
    BY <1>1, <1>4, <1>7 DEF Both, Side, Meets
  <1>8. Side(link, a2, b, p2, t, o)
    <2>1. ASSUME link, Meets(b, p), ~ Meets(a, q) PROVE Tells(t, UpTo(o))
      <3>1. Sees(b, p) /\ Tells(q, UpTo(o))
        BY <2>1 DEF Both, Side, Meets, Sees
      <3> QED
        BY <1>1, <1>7, <2>1, <3>1 DEF Meets
    <2>2. Meets(a2, t) <=> Meets(a, q)
      BY <1>1 DEF Meets
    <2>3. Sees(a2, t) <=> Sees(a, q)
      BY <1>1 DEF Sees
    <2> QED
      BY <1>1, <1>2, <1>6, <2>1, <2>2, <2>3
         DEF Both, Side, Sees, Meets, Longer, m, t
  <1>9. Side(link, b, a2, t, p2, r2)
    <2>1. Tells(p, UpTo(r)) => Tells(p2, UpTo(r2))
      BY <1>2, <1>5, TellsMore DEF Longer
    <2>2. ~ link => p2 = p
      OBVIOUS
    <2>3. link /\ Sees(b, p) => Fresh(t, "hello") \/ Meets(a2, t)
      BY <1>1, <1>6 DEF Both, Side, Meets, m
    <2>4. Meets(a2, t) <=> Meets(a, q)
      BY <1>1 DEF Meets
    <2> QED
      BY <1>2, <2>1, <2>2, <2>3, <2>4 DEF Both, Side, Sees, Meets, Longer
  <1>10. ASSUME Caught(link, a, b, p, q, r, o), ~ Beats(r2, r)
         PROVE  Caught(link, a2, b, p2, t, r2, o)
    <2>1. SUFFICES ASSUME link, Sees(a2, t), Beats(r2, o)
                   PROVE  \/ Fresh(p2, "hello") /\ ~ Meets(b, p2)
                          \/ Sees(b, p2) /\ Tells(t, Older(r2))
                          \/ Meets(b, p2) /\ Passes(p2, AtLeast(r2))
      BY DEF Caught
    <2>2. Beats(r, o) /\ Sees(a, q) /\ ~ Has(t, "lost")
      BY <1>1, <1>10, <2>1, BeatsOrder DEF Sees
    <2>3. Older(r) \subseteq Older(r2) /\ AtLeast(r) \subseteq AtLeast(r2)
      BY <1>10, OrderSets
    <2>4. /\ Tells(t, Older(r)) => Tells(t, Older(r2))
          /\ Passes(p, AtLeast(r)) => Passes(p2, AtLeast(r2))
          /\ Passes(p2, AtLeast(r)) => Passes(p2, AtLeast(r2))
      BY <1>2, <2>3, TellsMore DEF Longer
    <2>5. CASE Fresh(p, "hello") /\ ~ Meets(b, p)
      BY <1>2, <2>5 DEF Longer, Meets
    <2>6. CASE Meets(b, p) /\ Passes(p, AtLeast(r))
      BY <1>2, <2>4, <2>6 DEF Longer, Meets
    <2>7. CASE Sees(b, p) /\ Tells(q, Older(r))
      <3>1. CASE Tells(t, Older(r))
        BY <1>2, <2>4, <2>7, <3>1 DEF Longer, Sees
      <3>2. ASSUME m.kind = "status", m.status.roles \in Older(r),
                   ~ Has(t, "hello")
            PROVE  \/ Fresh(p2, "hello") /\ ~ Meets(b, p2)
                   \/ Meets(b, p2) /\ Passes(p2, AtLeast(r2))
        <4>1. a.ready
          BY <1>7, <2>1, <2>2, <2>7, <3>2
        <4>2. Beats(r, m.status.roles)
          BY <3>2 DEF Older
        <4>3. Passes(p2, AtLeast(r2))
          BY <2>1, <2>2, <2>4, <3>2, <4>1, <4>2 DEF m, t
        <4>4. Fresh(p, "hello") \/ Meets(b, p)
          BY <2>1, <2>2 DEF Both, Side
        <4> QED
          BY <1>2, <4>3, <4>4 DEF Longer, Meets
      <3> QED
        BY <1>1, <2>7, <3>1, <3>2
    <2> QED
      BY <1>10, <2>1, <2>2, <2>5, <2>6, <2>7 DEF Caught
  <1>11. ASSUME Caught(link, b, a, q, p, o, r)
         PROVE  Caught(link, b, a2, t, p2, o, r2)
    <2>1. SUFFICES ASSUME link, Sees(b, p2), Beats(o, r2)
                   PROVE  \/ Fresh(t, "hello") /\ ~ Meets(a2, t)
                          \/ Sees(a2, t) /\ Tells(p2, Older(o))
                          \/ Meets(a2, t) /\ Passes(t, AtLeast(o))
      BY DEF Caught
    <2>2. Sees(b, p) /\ Beats(o, r)
      BY <1>2, <2>1, BeatsOrder DEF Sees, Longer
    <2>3. Meets(a2, t) <=> Meets(a, q)
      BY <1>1 DEF Meets
    <2>4. Sees(a2, t) <=> Sees(a, q)
      BY <1>1 DEF Sees
    <2>5. CASE Fresh(q, "hello") /\ ~ Meets(a, q)
      <3>1. m.kind = "hello" /\ ~ Has(q, "lost") => a.ready
        BY <1>1, <1>6, <2>1 DEF m
      <3> QED
        BY <1>1, <2>3, <2>5, <3>1 DEF Meets
    <2>6. CASE Sees(a, q) /\ Tells(p, Older(o))
      BY <1>2, <2>4, <2>6 DEF Longer
    <2>7. CASE Meets(a, q) /\ Passes(q, AtLeast(o))
      <3>1. ASSUME m.kind = "roles", m.roles \in AtLeast(o) PROVE FALSE
        <4>1. a.ready /\ m.roles \in Roles /\ ~ Beats(o, m.roles)
          BY <2>7, <3>1 DEF Meets, AtLeast
        <4>2. ~ Beats(m.roles, r2)
          BY <3>1, <4>1 DEF m
        <4> QED
          BY <2>1, <4>1, <4>2, BeatsOrder
      <3> QED
        BY <1>1, <2>3, <2>7, <3>1
    <2> QED
      BY <1>11, <2>1, <2>2, <2>5, <2>6, <2>7 DEF Caught
  <1> QED
    BY <1>8, <1>9, <1>10, <1>11 DEF Both, m, t

(* A link comes up; a link drops, with some of what is on its way.         *)
LEMMA LinkConnects ==
  ASSUME NEW a, NEW b, NEW p \in Seq(Message), NEW q \in Seq(Message),
         NEW o, Side(FALSE, a, b, p, q, o), Side(FALSE, b, a, q, p, o)
  PROVE  /\ Side(TRUE, a, b, Append(p, Opened), Append(q, Opened), o)
         /\ \A r : Caught(TRUE, a, b, Append(p, Opened), Append(q, Opened), r, o)
  <1>1. Opened \in Message /\ Opened.kind = "open"
    BY DEF Opened, Message
  <1> DEFINE p2 == Append(p, Opened)
             q2 == Append(q, Opened)
  <1>2. /\ Has(q2, "lost") <=> Has(q, "lost")
        /\ Has(p2, "lost") <=> Has(p, "lost")
        /\ Fresh(q2, "open")
        /\ OpensFirst(q2)
    BY <1>1, Appended DEF Side
  <1> HIDE DEF p2, q2
  <1>3. ~ Sees(a, q2) /\ ~ Meets(b, p2)
    BY <1>2 DEF Side, Sees, Meets
  <1>4. Side(TRUE, a, b, p2, q2, o)
    BY <1>2, <1>3 DEF Side, Sees
  <1> QED
    BY <1>3, <1>4 DEF Caught, p2, q2

LEMMA LinkDrops ==
  ASSUME NEW a, NEW b, NEW p, NEW q \in Seq(Message), NEW q1 \in Prefixes(q),
         NEW o, NEW p2, Side(TRUE, a, b, p, q, o)
  PROVE  Side(FALSE, a, b, p2, Append(q1, Lost), o)
  <1>1. Lost \in Message /\ Lost.kind = "lost"
    BY DEF Lost, Message
  <1>2. q1 \in Seq(Message)
    BY PrefixTypes
  <1>3. OpensFirst(q1)
    <2>1. PICK i \in 0 .. Len(q) : q1 = SubSeq(q, 1, i)
      BY DEF Prefixes
    <2>2. /\ Len(q) \in Nat /\ Len(q1) = i
          /\ \A j \in 1 .. i : q1[j] = q[j]
      BY <2>1, SubSeqProperties, LenProperties
    <2>3. \A j \in 1 .. Len(q1) - 1 :
            /\ j \in 1 .. Len(q) - 1
            /\ q1[j] = q[j] /\ q1[j + 1] = q[j + 1]
      BY <2>2
    <2> QED
      BY <2>3 DEF OpensFirst, Side
  <1> DEFINE q2 == Append(q1, Lost)
  <1>4. Closed(q2) /\ Has(q2, "lost") /\ OpensFirst(q2)
    BY <1>1, <1>2, <1>3, Appended
  <1> HIDE DEF q2
  <1>5. Side(FALSE, a, b, p2, q2, o)
    BY <1>4 DEF Side
  <1> QED
    BY <1>5 DEF q2

-----------------------------------------------------------------------------
(* What a mesh keeps as long as no process starts over.                    *)

(* Roles that moved name a node of the mesh and its only process; those     *)
(* that did not may not name it yet.                                        *)
Fit == {r \in Roles :
  /\ r.boot \in {0, 1}
  /\ r.term = 0 => r.node = First
  /\ r.term # 0 => r.boot = 1 /\ r.node \in settings.nodes}
KnownTo(t) == {r \in Fit : ~ Beats(r, t)}

SideAt(x, y) == Side({x, y} \in linked, peer[x][y], peer[y][x],
                     chan[x][y], chan[y][x], roles[y])
CaughtAt(x, y) == Caught({x, y} \in linked, peer[x][y], peer[y][x],
                         chan[x][y], chan[y][x], roles[x], roles[y])

LinksInv == \A x, y \in Node : x # y => SideAt(x, y)

(* Nobody talks to itself or out of the mesh.                              *)
OutsideInv == \A x, y \in Node : x = y \/ ~ ({x, y} \subseteq settings.nodes) =>
  /\ ~ peer[x][y].known /\ ~ peer[x][y].ready
  /\ chan[x][y] = <<>> /\ {x, y} \notin linked

(* Who met the first node knows its process.                               *)
Greets(x, q) == \A i \in 1 .. Len(q) : q[i].kind = "hello" =>
  q[i].boot = 1 /\ (x = First => q[i].roles.boot = 1)
ProcsInv ==
  /\ \A x, y \in Node : peer[x][y].ready => peer[x][y].boot = 1
  /\ \A x \in Node : x = First \/ peer[x][First].ready => roles[x].boot = 1
  /\ \A x, y \in Node : Greets(x, chan[x][y])

(* Node s knows the latest roles, and every node that does not hears of     *)
(* them, from s itself if nobody else tells it.                             *)
Top(s) ==
  /\ Within(KnownTo(roles[s]))
  /\ \A x \in Node \ {s} : CaughtAt(s, x)
CoverInv == \E s \in settings.nodes : Top(s)

AgreeInv ==
  /\ TypeOK
  /\ NoneRestarted => LinksInv /\ OutsideInv /\ ProcsInv /\ CoverInv

LEMMA FitFacts ==
  ASSUME NEW r \in Fit, NEW z \in Fit
  PROVE  /\ r \in Roles /\ r.boot \in {0, 1}
         /\ Beats(r, z) => r.term # 0 /\ r.boot = 1
         /\ ~ Beats(r, z) /\ ~ Beats(z, r) => SameRoles(r, z)
         /\ SameRoles(r, z) => ~ Beats(r, z) /\ ~ Beats(z, r)
         /\ SameRoles(r, z) /\ r.boot = z.boot => r = z
  <1>1. /\ r \in Roles /\ z \in Roles
        /\ r.term \in Nat /\ z.term \in Nat /\ r.node \in Nat /\ z.node \in Nat
        /\ r.boot \in Nat /\ z.boot \in Nat
    BY RolesAssumption DEF Fit, Roles
  <1>2. r.boot \in {0, 1} /\ (Beats(r, z) => r.term # 0 /\ r.boot = 1)
    BY <1>1, RolesAssumption DEF Fit, Beats
  <1>3. /\ ~ Beats(r, z) /\ ~ Beats(z, r) => SameRoles(r, z)
        /\ SameRoles(r, z) => ~ Beats(r, z) /\ ~ Beats(z, r)
    BY <1>1 DEF Beats, SameRoles
  <1>4. SameRoles(r, z) /\ r.boot = z.boot => r = z
    BY <1>1 DEF SameRoles, Roles
  <1> QED
    BY <1>1, <1>2, <1>3, <1>4

LEMMA KnownAdopted ==
  ASSUME TypeOK, NoneRestarted, NEW t \in Roles, NEW n \in Node,
         roles[n] \in Fit, NEW r \in KnownTo(t)
  PROVE  /\ Adopted(n, r) \in KnownTo(t)
         /\ \A z \in Roles : /\ Beats(Adopted(n, r), z) <=> Beats(r, z)
                             /\ Beats(z, Adopted(n, r)) <=> Beats(z, r)
         /\ r.boot # 0 => Adopted(n, r) = r
  <1>1. r \in Roles /\ r \in Fit /\ ~ Beats(r, t)
    BY DEF KnownTo, Fit
  <1>2. /\ Adopted(n, r) \in Roles
        /\ Adopted(n, r).term = r.term /\ Adopted(n, r).node = r.node
    BY <1>1, MadeRoles
  <1>3. r.boot # 0 => Adopted(n, r) = r
    BY DEF Adopted
  <1>4. r.boot = 0 => Adopted(n, r).boot \in {0, 1} /\ r.term = 0
    <2>1. boot[n] = 1 /\ roles[n].boot \in {0, 1}
      BY DEF NoneRestarted, Fit
    <2>2. r.boot \in Nat
      BY <1>1 DEF Roles
    <2> QED
      BY <1>1, <2>1, <2>2 DEF Adopted, Fit, Roles
  <1>5. Adopted(n, r) \in Fit
    BY <1>1, <1>2, <1>3, <1>4 DEF Fit
  <1>6. \A z \in Roles : /\ Beats(Adopted(n, r), z) <=> Beats(r, z)
                         /\ Beats(z, Adopted(n, r)) <=> Beats(z, r)
    BY <1>2 DEF Beats
  <1> QED
    BY <1>1, <1>3, <1>5, <1>6 DEF KnownTo

(* What node n knows gets later: by a handshake, roles or a status.        *)
LEMMA KnownLearned ==
  ASSUME TypeOK, NoneRestarted, NEW t \in Roles, NEW n \in Node,
         roles[n] \in Fit, NEW r \in KnownTo(t)
  PROVE  /\ SameRoles(r, roles[n]) => Learned(n, r) \in Fit
         /\ SameRoles(r, roles[n]) =>
              /\ ~ Beats(roles[n], Learned(n, r))
              /\ roles[n].boot = 1 => Learned(n, r).boot = 1
              /\ r.boot = 1 => Learned(n, r).boot = 1
         /\ HelloRoles(n, r) \in Fit
         /\ ~ Beats(roles[n], HelloRoles(n, r))
         /\ roles[n].boot = 1 => HelloRoles(n, r).boot = 1
         /\ r.boot = 1 => HelloRoles(n, r).boot = 1
  <1>1. r \in Fit /\ r \in Roles /\ roles[n] \in Roles
    BY DEF KnownTo, Fit
  <1>2. roles[n].boot \in {0, 1} /\ r.boot \in {0, 1}
    BY <1>1, FitFacts
  <1>3. ASSUME SameRoles(r, roles[n])
        PROVE  /\ Learned(n, r) \in Fit
               /\ ~ Beats(roles[n], Learned(n, r))
               /\ roles[n].boot = 1 => Learned(n, r).boot = 1
               /\ r.boot = 1 => Learned(n, r).boot = 1
    <2>1. ~ Beats(roles[n], r) /\ ~ Beats(roles[n], roles[n])
      BY <1>1, <1>3, FitFacts, BeatsOrder
    <2> QED
      BY <1>1, <1>2, <2>1 DEF Learned
  <1>4. ASSUME Beats(r, roles[n])
        PROVE  /\ Adopted(n, r) = r /\ r.boot = 1
               /\ ~ Beats(roles[n], r)
    BY <1>1, <1>4, FitFacts, KnownAdopted, BeatsOrder
  <1>5. ASSUME Beats(roles[n], r) PROVE roles[n].boot = 1
    BY <1>1, <1>5, FitFacts
  <1>6. ~ Beats(roles[n], roles[n])
    BY <1>1, BeatsOrder
  <1>7. Beats(r, roles[n]) \/ SameRoles(r, roles[n]) \/ Beats(roles[n], r)
    BY <1>1, FitFacts
  <1> QED
    BY <1>1, <1>3, <1>4, <1>5, <1>6, <1>7 DEF HelloRoles

(* What node n sends as it takes a message of m.                           *)
LEMMA NoLossFirst ==
  ASSUME NEW t \in Seq(Message), ~ Has(t, "lost")
  PROVE  t = <<>> \/ Head(t) # Lost
  <1>1. SUFFICES ASSUME t # <<>> PROVE Head(t) # Lost
    OBVIOUS
  <1>2. Len(t) \in Nat /\ Len(t) # 0 /\ Head(t) = t[1]
    BY <1>1, EmptySeq, LenProperties, HeadTailProperties
  <1>3. t[1].kind # "lost"
    BY <1>2 DEF Has
  <1> QED
    BY <1>2, <1>3 DEF Lost

Answered(ch, n, m, msg) ==
  /\ ch[m][n] = Tail(chan[m][n])
  /\ \A x, y \in Node : x # n /\ (x # m \/ y # n) => ch[x][y] = chan[x][y]
  /\ \A y \in Node :
       \/ ch[n][y] = chan[n][y]
       \/ {n, y} \in linked /\ ch[n][y] = Append(chan[n][y], msg)

LEMMA Answers ==
  ASSUME TypeOK, NEW n \in Node, NEW m \in Node, n # m, chan[m][n] # <<>>,
         NEW msg \in Message
  PROVE  /\ Answered(Popped(m, n), n, m, msg)
         /\ \A y \in Node : Popped(m, n)[n][y] = chan[n][y]
         /\ Answered(Send(Popped(m, n), n, m, msg), n, m, msg)
         /\ \A y \in Node \ {m} :
              Send(Popped(m, n), n, m, msg)[n][y] = chan[n][y]
         /\ {n, m} \in linked /\ ~ Has(Tail(chan[m][n]), "lost") =>
              Send(Popped(m, n), n, m, msg)[n][m] = Append(chan[n][m], msg)
         /\ Answered(SendReady(Popped(m, n), n, msg), n, m, msg)
  <1> DEFINE c == Popped(m, n)
             one == Send(c, n, m, msg)
             all == SendReady(c, n, msg)
  <1>1. /\ chan \in Chans(Roles) /\ msg \in Said(Roles)
        /\ chan \in [Node -> [Node -> Seq(Message)]]
    BY SaidTypes DEF TypeOK, Chans
  <1>2. /\ c \in Chans(Roles)
        /\ Tail(chan[m][n]) \in Seq(Message)
        /\ \A x, y \in Node :
             c[x][y] = IF x = m /\ y = n THEN Tail(chan[m][n]) ELSE chan[x][y]
    BY <1>1, SaidTypes, PoppedAt
  <1> HIDE DEF c
  <1>3. \A x, y \in Node :
          one[x][y] = IF x = n /\ y = m /\ CanSend(c, n, m)
                      THEN Append(c[x][y], msg) ELSE c[x][y]
    BY <1>1, <1>2, SendAt
  <1>4. \A x, y \in Node :
          all[x][y] = IF x = n /\ y \in Ready(n) /\ CanSend(c, n, y)
                      THEN Append(c[x][y], msg) ELSE c[x][y]
    BY <1>1, <1>2, SendReadyAt
  <1> HIDE DEF one, all
  <1>5. \A y \in Node : CanSend(c, n, y) => {n, y} \in linked
    BY DEF CanSend
  <1>6. {n, m} \in linked /\ ~ Has(Tail(chan[m][n]), "lost") => CanSend(c, n, m)
    BY <1>2, NoLossFirst DEF CanSend
  <1>7. Answered(c, n, m, msg) /\ \A y \in Node : c[n][y] = chan[n][y]
    BY <1>2 DEF Answered
  <1>8. /\ Answered(one, n, m, msg)
        /\ \A y \in Node \ {m} : one[n][y] = chan[n][y]
        /\ CanSend(c, n, m) => one[n][m] = Append(chan[n][m], msg)
    <2>1. \A x, y \in Node : ~ (x = n /\ y = m) => one[x][y] = c[x][y]
      BY <1>3
    <2>2. IF CanSend(c, n, m) THEN one[n][m] = Append(chan[n][m], msg)
          ELSE one[n][m] = chan[n][m]
      BY <1>3, <1>7
    <2>3. \A y \in Node \ {m} : one[n][y] = chan[n][y]
      BY <1>7, <2>1
    <2>4. \A x, y \in Node : x # n => one[x][y] = c[x][y]
      BY <2>1
    <2>5. Answered(one, n, m, msg)
      BY <1>5, <1>7, <2>2, <2>3, <2>4 DEF Answered
    <2> QED
      BY <2>2, <2>3, <2>5
  <1>9. Answered(all, n, m, msg)
    <2>1. \A x, y \in Node : x # n => all[x][y] = c[x][y]
      BY <1>4
    <2>2. \A y \in Node :
            \/ all[n][y] = chan[n][y]
            \/ {n, y} \in linked /\ all[n][y] = Append(chan[n][y], msg)
      BY <1>4, <1>5, <1>7
    <2>3. /\ all[m][n] = Tail(chan[m][n])
          /\ \A x, y \in Node : x # n /\ (x # m \/ y # n) =>
               all[x][y] = chan[x][y]
      BY <1>2, <2>1
    <2> QED
      BY <2>2, <2>3 DEF Answered
  <1> QED
    BY <1>6, <1>7, <1>8, <1>9 DEF one, all, c

-----------------------------------------------------------------------------
(* Node n takes a message of m: what becomes of their link and of the       *)
(* others.                                                                  *)

Kept(n, m) ==
  LET link == {n, m} \in linked
      a == peer'[n][m]
      b == peer[m][n]
      p == chan'[n][m]
      q == chan'[m][n]
  IN
  /\ Both(link, a, b, p, q, roles'[n], roles[m])
  /\ CaughtAt(n, m) /\ ~ Beats(roles'[n], roles[n]) =>
       Caught(link, a, b, p, q, roles'[n], roles[m])
  /\ CaughtAt(m, n) => Caught(link, b, a, q, p, roles[m], roles'[n])

Elsewhere(n, m) ==
  /\ \A x, y \in Node : x # n /\ (x # m \/ y # n) => chan'[x][y] = chan[x][y]
  /\ \A y \in Node \ {m} :
       \/ chan'[n][y] = chan[n][y]
       \/ {n, y} \in linked /\ Longer(chan[n][y], chan'[n][y])
  /\ \A x \in Node \ {n} : roles'[x] = roles[x]
  /\ roles'[n] \in Roles /\ ~ Beats(roles[n], roles'[n])

Heard(n, m) ==
  /\ TypeOK /\ NoneRestarted
  /\ n \in Node /\ m \in Node /\ n # m /\ chan[m][n] # <<>>
  /\ SideAt(n, m) /\ SideAt(m, n)

LEMMA HeardTypes ==
  ASSUME NEW n, NEW m, Heard(n, m)
  PROVE  /\ chan[n][m] \in Seq(Message) /\ chan[m][n] \in Seq(Message)
         /\ Head(chan[m][n]) \in Message
         /\ roles[n] \in Roles /\ roles[m] \in Roles
         /\ ~ Beats(roles[n], roles[n])
         /\ peer[n][m] \in Peer /\ peer[m][n] \in Peer
         /\ boot[n] = 1 /\ boot[n] \in Nat
         /\ Both({n, m} \in linked, peer[n][m], peer[m][n],
                 chan[n][m], chan[m][n], roles[n], roles[m])
         /\ CaughtAt(m, n) <=>
              Caught({n, m} \in linked, peer[m][n], peer[n][m],
                     chan[m][n], chan[n][m], roles[m], roles[n])
  <1>1. n \in Node /\ m \in Node /\ {m, n} = {n, m}
    BY DEF Heard
  <1>2. /\ chan[n][m] \in Seq(Message) /\ chan[m][n] \in Seq(Message)
        /\ roles[n] \in Roles /\ roles[m] \in Roles
        /\ peer[n][m] \in Peer /\ peer[m][n] \in Peer
        /\ boot[n] = 1 /\ boot[n] \in Nat
    BY <1>1 DEF Heard, TypeOK, NoneRestarted
  <1>3. Head(chan[m][n]) \in Message
    BY <1>2, HeadTailProperties DEF Heard
  <1>4. ~ Beats(roles[n], roles[n])
    BY <1>2, BeatsOrder
  <1>5. Both({n, m} \in linked, peer[n][m], peer[m][n],
             chan[n][m], chan[m][n], roles[n], roles[m])
    BY <1>1 DEF Heard, SideAt, Both
  <1> QED
    BY <1>1, <1>2, <1>3, <1>4, <1>5 DEF CaughtAt

LEMMA OpenKept ==
  ASSUME NEW n, NEW m, Heard(n, m),
         Head(chan[m][n]) = Opened, HandleOpen(n, m)
  PROVE  Kept(n, m) /\ Elsewhere(n, m)
  <1> DEFINE link == {n, m} \in linked
             a == peer[n][m]
             b == peer[m][n]
             a2 == peer'[n][m]
             p == chan[n][m]
             q == chan[m][n]
             p2 == chan'[n][m]
             r == roles[n]
             o == roles[m]
             msg == HelloOf(roles[n], boot[n])
  <1>1. /\ n \in Node /\ m \in Node /\ n # m /\ q # <<>> /\ TypeOK
        /\ link \in BOOLEAN /\ Head(q).kind = "open"
    BY DEF Heard, Opened
  <1>2. /\ p \in Seq(Message) /\ q \in Seq(Message)
        /\ r \in Roles /\ o \in Roles /\ ~ Beats(r, r)
        /\ Both(link, a, b, p, q, r, o)
        /\ a \in Peer /\ boot[n] \in Nat
        /\ CaughtAt(m, n) <=> Caught(link, b, a, q, p, o, r)
    BY HeardTypes
  <1>3. msg \in Message /\ msg.kind = "hello"
    BY <1>2 DEF HelloOf, Message
  <1>4. peer' = [peer EXCEPT ![n][m] = [a EXCEPT !.known = TRUE]]
        /\ UNCHANGED roles
    BY DEF HandleOpen
  <1>5. a2 = [a EXCEPT !.known = TRUE]
    BY <1>1, <1>4 DEF TypeOK
  <1>6. a2.known /\ (a2.ready <=> a.ready)
    BY <1>2, <1>5 DEF Peer
  <1>7. /\ Answered(chan', n, m, msg)
        /\ \A y \in Node \ {m} : chan'[n][y] = chan[n][y]
        /\ a.known => p2 = p
        /\ link /\ ~ a.known /\ ~ Has(Tail(q), "lost") => p2 = Append(p, msg)
    <2>1. chan' = IF a.known THEN Popped(m, n)
                  ELSE Send(Popped(m, n), n, m, msg)
      BY DEF HandleOpen
    <2>2. CASE a.known
      BY <1>1, <1>3, <2>1, <2>2, Answers
    <2>3. CASE ~ a.known
      BY <1>1, <1>3, <2>1, <2>3, Answers
    <2> QED
      BY <2>2, <2>3
  <1>8. chan'[m][n] = Tail(q)
        /\ (p2 = p \/ (link /\ ~ a.known /\ p2 = Append(p, msg)))
    BY <1>1, <1>7 DEF Answered
  <1>9. Elsewhere(n, m)
    BY <1>1, <1>2, <1>4, <1>7 DEF Elsewhere, Answered
  <1>10. CaughtAt(n, m) => Caught(link, a, b, p, q, r, o)
    BY DEF CaughtAt
  <1>11. roles'[n] = r
    BY <1>4
  <1> HIDE DEF link, a, b, a2, p, q, p2, r, o, msg
  <1>12. /\ Both(link, a2, b, p2, Tail(q), r, o)
         /\ Caught(link, a, b, p, q, r, o)
              => Caught(link, a2, b, p2, Tail(q), r, o)
         /\ Caught(link, b, a, q, p, o, r)
              => Caught(link, b, a2, Tail(q), p2, o, r)
    BY <1>1, <1>2, <1>3, <1>6, <1>7, <1>8, LinkOpened
  <1> QED
    BY <1>2, <1>8, <1>9, <1>10, <1>11, <1>12
       DEF Kept, link, a, b, a2, p, q, p2, r, o

LEMMA LostKept ==
  ASSUME NEW n, NEW m, Heard(n, m),
         Head(chan[m][n]) = Lost, HandleLost(n, m)
  PROVE  Kept(n, m) /\ Elsewhere(n, m)
  <1> DEFINE link == {n, m} \in linked
             a == peer[n][m]
             b == peer[m][n]
             a2 == peer'[n][m]
             p == chan[n][m]
             q == chan[m][n]
             r == roles[n]
             o == roles[m]
  <1>1. /\ n \in Node /\ m \in Node /\ n # m /\ q # <<>> /\ TypeOK
        /\ link \in BOOLEAN /\ Head(q).kind = "lost"
    BY DEF Heard, Lost
  <1>2. /\ p \in Seq(Message) /\ q \in Seq(Message)
        /\ r \in Roles /\ o \in Roles /\ ~ Beats(r, r)
        /\ Both(link, a, b, p, q, r, o)
        /\ CaughtAt(m, n) <=> Caught(link, b, a, q, p, o, r)
    BY HeardTypes
  <1>3. a2 = NoPeer /\ UNCHANGED roles /\ chan' = Popped(m, n)
    BY <1>1 DEF HandleLost, TypeOK
  <1>4. ~ a2.known /\ ~ a2.ready
    BY <1>3 DEF NoPeer
  <1>5. Lost \in Message
    BY DEF Lost, Message
  <1>6. /\ Answered(chan', n, m, Lost)
        /\ \A y \in Node : chan'[n][y] = chan[n][y]
    BY <1>1, <1>3, <1>5, Answers
  <1>7. chan'[m][n] = Tail(q) /\ chan'[n][m] = p
    BY <1>1, <1>6 DEF Answered
  <1>8. Elsewhere(n, m)
    BY <1>1, <1>2, <1>3, <1>6 DEF Elsewhere, Answered
  <1>9. CaughtAt(n, m) => Caught(link, a, b, p, q, r, o)
    BY DEF CaughtAt
  <1>10. roles'[n] = r
    BY <1>3
  <1> HIDE DEF link, a, b, a2, p, q, r, o
  <1>11. /\ Both(link, a2, b, p, Tail(q), r, o)
         /\ Caught(link, a2, b, p, Tail(q), r, o)
         /\ Caught(link, b, a, q, p, o, r)
              => Caught(link, b, a2, Tail(q), p, o, r)
    BY <1>1, <1>2, <1>4, LinkLost
  <1> QED
    BY <1>2, <1>7, <1>8, <1>9, <1>10, <1>11
       DEF Kept, link, a, b, a2, p, q, r, o

LEMMA HelloKept ==
  ASSUME NEW n, NEW m, Heard(n, m), NEW msg, msg = Head(chan[m][n]),
         msg.kind = "hello", peer[n][m].known, ~ peer[n][m].ready,
         NEW t \in Roles, roles[n] \in Fit, msg.roles \in KnownTo(t),
         HandleHello(n, m, msg)
  PROVE  Kept(n, m) /\ Elsewhere(n, m)
  <1> DEFINE link == {n, m} \in linked
             a == peer[n][m]
             b == peer[m][n]
             a2 == peer'[n][m]
             p == chan[n][m]
             q == chan[m][n]
             p2 == chan'[n][m]
             r == roles[n]
             r2 == roles'[n]
             o == roles[m]
             said == StatusOf(StatusFor(n, peer'[n], roles'[n]))
  <1>1. /\ n \in Node /\ m \in Node /\ n # m /\ q # <<>> /\ TypeOK
        /\ link \in BOOLEAN /\ Head(q).kind = "hello" /\ NoneRestarted
    BY DEF Heard
  <1>2. /\ p \in Seq(Message) /\ q \in Seq(Message)
        /\ r \in Roles /\ o \in Roles
        /\ Both(link, a, b, p, q, r, o)
        /\ a \in Peer
        /\ CaughtAt(m, n) <=> Caught(link, b, a, q, p, o, r)
    BY HeardTypes
  <1>3. /\ roles' = [roles EXCEPT ![n] = HelloRoles(n, msg.roles)]
        /\ peer' = [peer EXCEPT ![n][m].boot = msg.boot, ![n][m].ready = TRUE]
        /\ chan' = Send(Popped(m, n), n, m, said)
    BY DEF HandleHello
  <1>4. /\ HelloRoles(n, msg.roles) \in Fit
        /\ ~ Beats(r, HelloRoles(n, msg.roles))
    BY <1>1, KnownLearned
  <1>5. /\ r2 = HelloRoles(n, msg.roles)
        /\ \A x \in Node \ {n} : roles'[x] = roles[x]
    BY <1>1, <1>3 DEF TypeOK
  <1>6. r2 \in Roles /\ ~ Beats(r, r2)
    BY <1>4, <1>5 DEF Fit
  <1>7. said \in Message /\ said.kind = "status" /\ said.status.roles = r2
    <2>1. StatusFor(n, peer'[n], roles'[n]).roles = r2
      BY <1>1, StatusMade
    <2>2. said \in Said(Roles)
      BY <1>1, <1>6, StatusMade
    <2> QED
      BY <2>1, <2>2, SaidTypes DEF StatusOf
  <1>8. a2.known /\ a2.ready
    <2>1. peer[n] \in [Node -> Peer]
      BY <1>1 DEF TypeOK
    <2>2. a2 = [a EXCEPT !.boot = msg.boot, !.ready = TRUE]
      BY <1>1, <1>3, <2>1 DEF TypeOK
    <2> QED
      BY <1>2, <2>2 DEF Peer
  <1>9. /\ Answered(chan', n, m, said)
        /\ \A y \in Node \ {m} : chan'[n][y] = chan[n][y]
        /\ link /\ ~ Has(Tail(q), "lost") => p2 = Append(p, said)
    <2>1. \A x \in Message :
            /\ Answered(Send(Popped(m, n), n, m, x), n, m, x)
            /\ \A y \in Node \ {m} :
                 Send(Popped(m, n), n, m, x)[n][y] = chan[n][y]
            /\ link /\ ~ Has(Tail(q), "lost") =>
                 Send(Popped(m, n), n, m, x)[n][m] = Append(p, x)
      BY <1>1, Answers
    <2> HIDE DEF said
    <2> QED
      BY <1>3, <1>7, <2>1
  <1>10. chan'[m][n] = Tail(q) /\ (p2 = p \/ (link /\ p2 = Append(p, said)))
    BY <1>1, <1>9 DEF Answered
  <1>11. Elsewhere(n, m)
    BY <1>1, <1>5, <1>6, <1>9 DEF Elsewhere, Answered
  <1>12. CaughtAt(n, m) => Caught(link, a, b, p, q, r, o)
    BY DEF CaughtAt
  <1> HIDE DEF link, a, b, a2, p, q, p2, r, r2, o, said
  <1>13. a.known /\ ~ a.ready
    BY DEF a
  <1>14. /\ Both(link, a2, b, p2, Tail(q), r2, o)
         /\ Caught(link, a, b, p, q, r, o) /\ ~ Beats(r2, r)
              => Caught(link, a2, b, p2, Tail(q), r2, o)
         /\ Caught(link, b, a, q, p, o, r)
              => Caught(link, b, a2, Tail(q), p2, o, r2)
    <2>1. q # <<>> /\ link \in BOOLEAN /\ Head(q).kind = "hello"
      BY <1>1
    <2>2. link /\ ~ Has(Tail(q), "lost") => p2 = Append(p, said)
      BY <1>9
    <2>3. p2 = p \/ (link /\ p2 = Append(p, said))
      BY <1>10
    <2>4. Meeting(link, a, b, a2, p, q, p2, r, o, r2, said)
      BY <1>2, <1>6, <1>7, <1>8, <1>13, <2>1, <2>2, <2>3 DEF Meeting
    <2> QED
      BY <2>4, LinkMet
  <1> QED
    BY <1>2, <1>10, <1>11, <1>12, <1>14
       DEF Kept, link, a, b, a2, p, q, p2, r, r2, o

(* Node n hears or passes over the message head of m, and may answer with   *)
(* the roles in msg.                                                        *)
HeardStep(n, m, head, msg) ==
  /\ head = Head(chan[m][n]) /\ head.kind \in {"hello", "roles", "status"}
  /\ head.kind = "hello" => peer[n][m].ready \/ ~ peer[n][m].known
  /\ peer'[n][m].ready <=> peer[n][m].ready
  /\ peer'[n][m].known <=> peer[n][m].known
  /\ roles'[n] \in Roles /\ ~ Beats(roles[n], roles'[n])
  /\ \A x \in Node \ {n} : roles'[x] = roles[x]
  /\ head.kind = "roles" /\ peer[n][m].ready => ~ Beats(head.roles, roles'[n])
  /\ msg \in Message /\ msg.kind = "roles"
  /\ Answered(chan', n, m, msg)
  /\ (head.kind = "status" /\ peer[n][m].ready /\ {n, m} \in linked
      /\ ~ Has(Tail(chan[m][n]), "lost")
      /\ Beats(roles[n], head.status.roles))
     => Passes(chan'[n][m], AtLeast(roles[n]))

LEMMA HeardKept ==
  ASSUME NEW n, NEW m, Heard(n, m), NEW head, NEW msg, HeardStep(n, m, head, msg)
  PROVE  Kept(n, m) /\ Elsewhere(n, m)
  <1> DEFINE link == {n, m} \in linked
             a == peer[n][m]
             b == peer[m][n]
             a2 == peer'[n][m]
             p == chan[n][m]
             q == chan[m][n]
             p2 == chan'[n][m]
             r == roles[n]
             r2 == roles'[n]
             o == roles[m]
  <1>1. n \in Node /\ m \in Node /\ n # m /\ q # <<>> /\ link \in BOOLEAN /\ TypeOK
    BY DEF Heard
  <1>2. /\ p \in Seq(Message) /\ q \in Seq(Message)
        /\ r \in Roles /\ o \in Roles
        /\ Both(link, a, b, p, q, r, o)
        /\ CaughtAt(m, n) <=> Caught(link, b, a, q, p, o, r)
    BY HeardTypes
  <1>3. chan'[m][n] = Tail(q) /\ (p2 = p \/ (link /\ p2 = Append(p, msg)))
    BY <1>1 DEF Answered, HeardStep
  <1>4. Elsewhere(n, m)
    <2>1. \A y \in Node : chan[n][y] \in Seq(Message)
      BY <1>1 DEF TypeOK
    <2>2. \A y \in Node : Longer(chan[n][y], Append(chan[n][y], msg))
      BY <2>1, LongerTalk DEF HeardStep
    <2> QED
      BY <1>1, <2>2 DEF Elsewhere, Answered, HeardStep
  <1>5. CaughtAt(n, m) => Caught(link, a, b, p, q, r, o)
    BY DEF CaughtAt
  <1>6. /\ Head(q).kind \in {"hello", "roles", "status"}
        /\ Head(q).kind = "hello" => a.ready \/ ~ a.known
        /\ a2.ready <=> a.ready
        /\ a2.known <=> a.known
        /\ Head(q).kind = "roles" /\ a.ready => ~ Beats(Head(q).roles, r2)
        /\ (Head(q).kind = "status" /\ a.ready /\ link
            /\ ~ Has(Tail(q), "lost") /\ Beats(r, Head(q).status.roles))
           => Passes(p2, AtLeast(r))
        /\ ~ Beats(r, r2) /\ r2 \in Roles
        /\ msg \in Message /\ msg.kind = "roles"
    BY DEF HeardStep
  <1> HIDE DEF link, a, b, a2, p, q, p2, r, r2, o
  <1>7. /\ Both(link, a2, b, p2, Tail(q), r2, o)
        /\ Caught(link, a, b, p, q, r, o) /\ ~ Beats(r2, r)
             => Caught(link, a2, b, p2, Tail(q), r2, o)
        /\ Caught(link, b, a, q, p, o, r)
             => Caught(link, b, a2, Tail(q), p2, o, r2)
    BY <1>1, <1>2, <1>3, <1>6, LinkHeard
  <1> QED
    BY <1>2, <1>3, <1>4, <1>5, <1>7
       DEF Kept, link, a, b, a2, p, q, p2, r, r2, o

LEMMA RolesKept ==
  ASSUME NEW n, NEW m, Heard(n, m), NEW msg, msg = Head(chan[m][n]),
         msg.kind = "roles", peer[n][m].ready,
         NEW t \in Roles, roles[n] \in Fit, msg.roles \in KnownTo(t),
         HandleRoles(n, m, msg)
  PROVE  Kept(n, m) /\ Elsewhere(n, m)
  <1>1. n \in Node /\ m \in Node /\ n # m /\ TypeOK /\ NoneRestarted
        /\ chan[m][n] # <<>>
    BY DEF Heard
  <1>2. roles[n] \in Roles /\ msg.roles \in Roles /\ ~ Beats(roles[n], roles[n])
    BY HeardTypes DEF KnownTo, Fit
  <1>3. UNCHANGED peer
    BY DEF HandleRoles
  <1>4. \A z \in Roles : RolesOf(z) \in Message /\ RolesOf(z).kind = "roles"
    BY DEF RolesOf, Message
  <1>5. CASE Beats(msg.roles, roles[n])
    <2>1. /\ chan' = SendReady(Popped(m, n), n, RolesOf(msg.roles))
          /\ roles' = [roles EXCEPT ![n] = Adopted(n, msg.roles)]
      BY <1>5 DEF HandleRoles
    <2>2. /\ Adopted(n, msg.roles) \in KnownTo(t)
          /\ ~ Beats(roles[n], Adopted(n, msg.roles))
          /\ ~ Beats(msg.roles, Adopted(n, msg.roles))
      BY <1>1, <1>2, <1>5, KnownAdopted, BeatsOrder
    <2>3. /\ roles'[n] = Adopted(n, msg.roles)
          /\ \A x \in Node \ {n} : roles'[x] = roles[x]
      BY <1>1, <2>1 DEF TypeOK
    <2>4. Answered(chan', n, m, RolesOf(msg.roles))
      BY <1>1, <1>2, <1>4, <2>1, Answers
    <2>5. roles'[n] \in Roles
      BY <2>2, <2>3 DEF KnownTo, Fit
    <2>6. HeardStep(n, m, msg, RolesOf(msg.roles))
      BY <1>2, <1>3, <1>4, <2>2, <2>3, <2>4, <2>5 DEF HeardStep
    <2> QED
      BY <2>6, HeardKept
  <1>6. CASE ~ Beats(msg.roles, roles[n])
    <2>1. /\ \/ chan' = Send(Popped(m, n), n, m, RolesOf(roles[n]))
             \/ chan' = Popped(m, n)
          /\ UNCHANGED roles
      BY <1>6 DEF HandleRoles
    <2>2. \A x \in Message : /\ Answered(Send(Popped(m, n), n, m, x), n, m, x)
                             /\ Answered(Popped(m, n), n, m, x)
      BY <1>1, Answers
    <2>3. Answered(chan', n, m, RolesOf(roles[n]))
      BY <1>2, <1>4, <2>1, <2>2
    <2>4. HeardStep(n, m, msg, RolesOf(roles[n]))
      BY <1>2, <1>3, <1>4, <1>6, <2>1, <2>3 DEF HeardStep
    <2> QED
      BY <2>4, HeardKept
  <1> QED
    BY <1>5, <1>6

LEMMA StatusKept ==
  ASSUME NEW n, NEW m, Heard(n, m), NEW msg, msg = Head(chan[m][n]),
         msg.kind = "status", peer[n][m].ready,
         NEW t \in Roles, roles[n] \in Fit, msg.status.roles \in KnownTo(t),
         HandleRoleStatus(n, m, msg)
  PROVE  Kept(n, m) /\ Elsewhere(n, m)
  <1>1. n \in Node /\ m \in Node /\ n # m /\ TypeOK /\ NoneRestarted
        /\ chan[m][n] # <<>>
    BY DEF Heard
  <1>2. /\ roles[n] \in Roles /\ msg.status.roles \in Roles
        /\ ~ Beats(roles[n], roles[n]) /\ peer[n][m] \in Peer
        /\ chan[n][m] \in Seq(Message)
    BY HeardTypes DEF KnownTo, Fit
  <1>3. /\ peer'[n][m].ready <=> peer[n][m].ready
        /\ peer'[n][m].known <=> peer[n][m].known
    <2>1. peer' = [peer EXCEPT ![n][m] =
                     [peer[n][m] EXCEPT !.status = msg.status]]
      BY DEF HandleRoleStatus
    <2>2. peer'[n][m] = [peer[n][m] EXCEPT !.status = msg.status]
      BY <1>1, <2>1 DEF TypeOK
    <2> QED
      BY <1>2, <2>2 DEF Peer
  <1>4. RolesOf(roles[n]) \in Message /\ RolesOf(roles[n]).kind = "roles"
        /\ RolesOf(roles[n]).roles = roles[n]
    BY <1>2 DEF RolesOf, Message
  <1>5. CASE Beats(roles[n], msg.status.roles)
    <2>1. chan' = Send(Popped(m, n), n, m, RolesOf(roles[n])) /\ UNCHANGED roles
      BY <1>5 DEF HandleRoleStatus
    <2>2. /\ Answered(chan', n, m, RolesOf(roles[n]))
          /\ {n, m} \in linked /\ ~ Has(Tail(chan[m][n]), "lost") =>
               chan'[n][m] = Append(chan[n][m], RolesOf(roles[n]))
      BY <1>1, <1>4, <2>1, Answers
    <2>3. Passes(Append(chan[n][m], RolesOf(roles[n])), AtLeast(roles[n]))
      <3>1. roles[n] \in AtLeast(roles[n])
        BY <1>2 DEF AtLeast
      <3> QED
        BY <1>2, <1>4, <3>1, Appended
    <2>4. {n, m} \in linked /\ ~ Has(Tail(chan[m][n]), "lost") =>
            Passes(chan'[n][m], AtLeast(roles[n]))
      BY <2>2, <2>3
    <2>5. HeardStep(n, m, msg, RolesOf(roles[n]))
      BY <1>2, <1>3, <1>4, <2>1, <2>2, <2>4 DEF HeardStep
    <2> QED
      BY <2>5, HeardKept
  <1>6. CASE ~ Beats(roles[n], msg.status.roles)
    <2>1. /\ chan' = Popped(m, n)
          /\ roles' = IF SameRoles(msg.status.roles, roles[n])
                      THEN [roles EXCEPT ![n] = Learned(n, msg.status.roles)]
                      ELSE roles
      BY <1>6 DEF HandleRoleStatus
    <2>2. SameRoles(msg.status.roles, roles[n]) =>
            /\ Learned(n, msg.status.roles) \in Fit
            /\ ~ Beats(roles[n], Learned(n, msg.status.roles))
      BY <1>1, KnownLearned
    <2>3. /\ roles'[n] \in Roles /\ ~ Beats(roles[n], roles'[n])
          /\ \A x \in Node \ {n} : roles'[x] = roles[x]
      BY <1>1, <1>2, <2>1, <2>2 DEF TypeOK, Fit
    <2>4. Answered(chan', n, m, RolesOf(roles[n]))
      BY <1>1, <1>4, <2>1, Answers
    <2>5. HeardStep(n, m, msg, RolesOf(roles[n]))
      BY <1>3, <1>4, <1>6, <2>3, <2>4 DEF HeardStep
    <2> QED
      BY <2>5, HeardKept
  <1> QED
    BY <1>5, <1>6

LEMMA PassedKept ==
  ASSUME NEW n, NEW m, Heard(n, m), NEW msg, msg = Head(chan[m][n]),
         msg.kind \in {"hello", "roles", "status"},
         IF msg.kind = "hello" THEN peer[n][m].ready \/ ~ peer[n][m].known
         ELSE ~ peer[n][m].ready,
         chan' = Popped(m, n), UNCHANGED <<peer, roles>>
  PROVE  Kept(n, m) /\ Elsewhere(n, m)
  <1>1. n \in Node /\ m \in Node /\ n # m /\ TypeOK /\ chan[m][n] # <<>>
    BY DEF Heard
  <1>2. roles[n] \in Roles /\ ~ Beats(roles[n], roles[n])
    BY HeardTypes
  <1>3. RolesOf(roles[n]) \in Message /\ RolesOf(roles[n]).kind = "roles"
    BY <1>2 DEF RolesOf, Message
  <1>4. Answered(chan', n, m, RolesOf(roles[n]))
    BY <1>1, <1>3, Answers
  <1>5. HeardStep(n, m, msg, RolesOf(roles[n]))
    BY <1>2, <1>3, <1>4 DEF HeardStep
  <1> QED
    BY <1>5, HeardKept

(* What node n does with the message of m.                                 *)
LEMMA ReceiveCases ==
  ASSUME NEW n, NEW m, Heard(n, m), Receive(n, m),
         NEW t \in Roles, Within(KnownTo(t)),
         NEW msg, msg = Head(chan[m][n])
  PROVE  \/ msg = Opened /\ HandleOpen(n, m)
         \/ msg = Lost /\ HandleLost(n, m)
         \/ /\ msg.kind = "hello" /\ msg.roles \in KnownTo(t)
            /\ peer[n][m].known /\ ~ peer[n][m].ready /\ HandleHello(n, m, msg)
         \/ /\ msg.kind = "roles" /\ msg.roles \in KnownTo(t)
            /\ peer[n][m].ready /\ HandleRoles(n, m, msg)
         \/ /\ msg.kind = "status" /\ msg.status.roles \in KnownTo(t)
            /\ peer[n][m].ready /\ HandleRoleStatus(n, m, msg)
         \/ /\ msg.kind \in {"hello", "roles", "status"}
            /\ IF msg.kind = "hello"
               THEN peer[n][m].ready \/ ~ peer[n][m].known
               ELSE ~ peer[n][m].ready
            /\ chan' = Popped(m, n) /\ UNCHANGED <<peer, roles>>
  <1>1. n \in Node /\ m \in Node /\ chan[m][n] # <<>>
    BY DEF Heard
  <1>2. chan \in Chans(KnownTo(t))
    BY DEF Within
  <1>3. msg \in Said(KnownTo(t))
    BY <1>1, <1>2, PoppedAt
  <1>4. \/ msg = Opened /\ HandleOpen(n, m)
        \/ msg = Lost /\ HandleLost(n, m)
        \/ msg # Opened /\ msg # Lost /\ HandlePacket(n, m, msg)
    BY DEF Receive
  <1>5. SUFFICES ASSUME msg # Opened, msg # Lost, HandlePacket(n, m, msg)
        PROVE  \/ /\ msg.kind = "hello" /\ msg.roles \in KnownTo(t)
                  /\ peer[n][m].known /\ ~ peer[n][m].ready
                  /\ HandleHello(n, m, msg)
               \/ /\ msg.kind = "roles" /\ msg.roles \in KnownTo(t)
                  /\ peer[n][m].ready /\ HandleRoles(n, m, msg)
               \/ /\ msg.kind = "status" /\ msg.status.roles \in KnownTo(t)
                  /\ peer[n][m].ready /\ HandleRoleStatus(n, m, msg)
               \/ /\ msg.kind \in {"hello", "roles", "status"}
                  /\ IF msg.kind = "hello"
                     THEN peer[n][m].ready \/ ~ peer[n][m].known
                     ELSE ~ peer[n][m].ready
                  /\ chan' = Popped(m, n) /\ UNCHANGED <<peer, roles>>
    BY <1>4
  <1>6. /\ msg.kind \in {"hello", "roles", "status"}
        /\ msg.kind \in {"hello", "roles"} => msg.roles \in KnownTo(t)
        /\ msg.kind = "status" => msg.status.roles \in KnownTo(t)
    BY <1>3, <1>5, SaidFields
  <1>7. CASE msg.kind = "hello"
    BY <1>5, <1>6, <1>7 DEF HandlePacket, HandleHello
  <1>8. CASE msg.kind # "hello"
    BY <1>5, <1>6, <1>8 DEF HandlePacket
  <1> QED
    BY <1>7, <1>8

LEMMA ReceiveKept ==
  ASSUME NEW n, NEW m, Heard(n, m), Receive(n, m),
         NEW t \in Roles, Within(KnownTo(t))
  PROVE  Kept(n, m) /\ Elsewhere(n, m)
  <1>1. roles[n] \in Fit
    BY DEF Within, KnownTo, Heard
  <1>2. PICK msg : msg = Head(chan[m][n])
    OBVIOUS
  <1>3. CASE msg = Opened /\ HandleOpen(n, m)
    BY <1>2, <1>3, OpenKept
  <1>4. CASE msg = Lost /\ HandleLost(n, m)
    BY <1>2, <1>4, LostKept
  <1>5. CASE /\ msg.kind = "hello" /\ msg.roles \in KnownTo(t)
             /\ peer[n][m].known /\ ~ peer[n][m].ready
             /\ HandleHello(n, m, msg)
    BY <1>1, <1>2, <1>5, HelloKept
  <1>6. CASE /\ msg.kind = "roles" /\ msg.roles \in KnownTo(t)
             /\ peer[n][m].ready /\ HandleRoles(n, m, msg)
    BY <1>1, <1>2, <1>6, RolesKept
  <1>7. CASE /\ msg.kind = "status" /\ msg.status.roles \in KnownTo(t)
             /\ peer[n][m].ready /\ HandleRoleStatus(n, m, msg)
    BY <1>1, <1>2, <1>7, StatusKept
  <1>8. CASE /\ msg.kind \in {"hello", "roles", "status"}
             /\ IF msg.kind = "hello"
                THEN peer[n][m].ready \/ ~ peer[n][m].known
                ELSE ~ peer[n][m].ready
             /\ chan' = Popped(m, n) /\ UNCHANGED <<peer, roles>>
    BY <1>2, <1>8, PassedKept
  <1> QED
    BY <1>2, <1>3, <1>4, <1>5, <1>6, <1>7, <1>8, ReceiveCases

(* The processes in the handshakes, and those a node met.                  *)
GreetsIn(x, msg) == msg.kind = "hello" =>
  msg.boot = 1 /\ (x = First => msg.roles.boot = 1)

LEMMA GreetsKept ==
  ASSUME NEW x, NEW q \in Seq(Message), Greets(x, q)
  PROVE  /\ \A msg \in Message : GreetsIn(x, msg) => Greets(x, Append(q, msg))
         /\ q # <<>> => Greets(x, Tail(q)) /\ GreetsIn(x, Head(q))
         /\ \A s \in Prefixes(q) : Greets(x, s)
  <1>1. ASSUME NEW msg \in Message, GreetsIn(x, msg)
        PROVE  Greets(x, Append(q, msg))
    <2> DEFINE r == Append(q, msg)
    <2>1. \A i \in 1 .. Len(r) : r[i] = msg \/ (i \in 1 .. Len(q) /\ r[i] = q[i])
      BY AppendProperties, LenProperties
    <2> HIDE DEF r
    <2>2. Greets(x, r)
      BY <1>1, <2>1 DEF Greets, GreetsIn
    <2> QED
      BY <2>2 DEF r
  <1>2. ASSUME q # <<>>
        PROVE  Greets(x, Tail(q)) /\ GreetsIn(x, Head(q))
    <2>1. /\ Head(q) = q[1] /\ 1 \in 1 .. Len(q)
          /\ \A i \in 1 .. Len(Tail(q)) :
               i + 1 \in 1 .. Len(q) /\ Tail(q)[i] = q[i + 1]
      BY <1>2, HeadTailProperties, EmptySeq, LenProperties
    <2> QED
      BY <2>1 DEF Greets, GreetsIn
  <1>3. ASSUME NEW s \in Prefixes(q) PROVE Greets(x, s)
    <2>1. PICK i \in 0 .. Len(q) : s = SubSeq(q, 1, i)
      BY DEF Prefixes
    <2>2. \A j \in 1 .. Len(s) : j \in 1 .. Len(q) /\ s[j] = q[j]
      BY <2>1, SubSeqProperties, LenProperties
    <2> QED
      BY <2>2 DEF Greets
  <1> QED
    BY <1>1, <1>2, <1>3

LEMMA ReceiveSays ==
  ASSUME NEW n, NEW m, Heard(n, m), Receive(n, m),
         NEW t \in Roles, Within(KnownTo(t)),
         n = First => roles[n].boot = 1
  PROVE  \E said \in Message : Answered(chan', n, m, said) /\ GreetsIn(n, said)
  <1>1. n \in Node /\ m \in Node /\ n # m /\ TypeOK /\ chan[m][n] # <<>>
    BY DEF Heard
  <1>2. roles[n] \in Roles /\ boot[n] = 1
    BY HeardTypes
  <1>3. /\ \A x \in Message : Answered(Popped(m, n), n, m, x)
        /\ \A x \in Message : Answered(Send(Popped(m, n), n, m, x), n, m, x)
        /\ \A x \in Message : Answered(SendReady(Popped(m, n), n, x), n, m, x)
    BY <1>1, Answers
  <1>4. PICK msg : msg = Head(chan[m][n])
    OBVIOUS
  <1>5. Lost \in Message /\ GreetsIn(n, Lost)
    BY DEF Lost, Message, GreetsIn
  <1>6. \A z \in Roles : RolesOf(z) \in Message /\ GreetsIn(n, RolesOf(z))
    BY DEF RolesOf, Message, GreetsIn
  <1>7. CASE chan' = Popped(m, n)
    BY <1>3, <1>5, <1>7
  <1>8. CASE msg = Opened /\ HandleOpen(n, m)
    <2>1. /\ HelloOf(roles[n], boot[n]) \in Message
          /\ GreetsIn(n, HelloOf(roles[n], boot[n]))
      BY <1>2 DEF HelloOf, Message, GreetsIn
    <2> QED
      BY <1>3, <1>7, <1>8, <2>1 DEF HandleOpen
  <1>9. CASE msg = Lost /\ HandleLost(n, m)
    BY <1>7, <1>9 DEF HandleLost
  <1>10. CASE /\ msg.kind = "hello" /\ msg.roles \in KnownTo(t)
              /\ peer[n][m].known /\ ~ peer[n][m].ready
              /\ HandleHello(n, m, msg)
    <2> DEFINE said == StatusOf(StatusFor(n, peer'[n], roles'[n]))
    <2>1. chan' = Send(Popped(m, n), n, m, said)
      BY <1>10 DEF HandleHello
    <2>2. roles'[n] \in Roles
      <3>1. Elsewhere(n, m)
        BY ReceiveKept
      <3> QED
        BY <3>1 DEF Elsewhere
    <2>3. said \in Said(Roles) /\ GreetsIn(n, said)
      BY <1>1, <2>2, StatusMade DEF GreetsIn, StatusOf
    <2> HIDE DEF said
    <2> QED
      BY <1>3, <2>1, <2>3, SaidTypes
  <1>11. CASE /\ msg.kind = "roles" /\ msg.roles \in KnownTo(t)
              /\ peer[n][m].ready /\ HandleRoles(n, m, msg)
    <2>1. msg.roles \in Roles
      BY <1>11 DEF KnownTo, Fit
    <2>2. \/ chan' = Popped(m, n)
          \/ chan' = SendReady(Popped(m, n), n, RolesOf(msg.roles))
          \/ chan' = Send(Popped(m, n), n, m, RolesOf(roles[n]))
      BY <1>11 DEF HandleRoles
    <2> QED
      BY <1>2, <1>3, <1>6, <1>7, <2>1, <2>2
  <1>12. CASE /\ msg.kind = "status" /\ msg.status.roles \in KnownTo(t)
              /\ peer[n][m].ready /\ HandleRoleStatus(n, m, msg)
    <2>1. \/ chan' = Popped(m, n)
          \/ chan' = Send(Popped(m, n), n, m, RolesOf(roles[n]))
      BY <1>12 DEF HandleRoleStatus
    <2> QED
      BY <1>2, <1>3, <1>6, <1>7, <2>1
  <1> QED
    BY <1>4, <1>7, <1>8, <1>9, <1>10, <1>11, <1>12, ReceiveCases

LEMMA ReceiveMeets ==
  ASSUME NEW n, NEW m, Heard(n, m), Receive(n, m),
         NEW t \in Roles, Within(KnownTo(t)),
         Greets(m, chan[m][n]),
         peer[n][m].ready => peer[n][m].boot = 1,
         n = First \/ peer[n][First].ready => roles[n].boot = 1
  PROVE  /\ peer'[n][m].ready => peer'[n][m].boot = 1
         /\ n = First \/ peer'[n][First].ready => roles'[n].boot = 1
  <1>1. n \in Node /\ m \in Node /\ n # m /\ TypeOK /\ chan[m][n] # <<>>
        /\ NoneRestarted
    BY DEF Heard
  <1>2. /\ roles[n] \in Fit /\ peer[n][m] \in Peer /\ roles \in [Node -> Roles]
        /\ peer \in [Node -> [Node -> Peer]] /\ chan[m][n] \in Seq(Message)
    BY <1>1, HeardTypes DEF TypeOK, Within, KnownTo
  <1>3. First \in Node /\ \A y \in Node : y # m => peer'[n][y] = peer[n][y]
    BY <1>1, ReceivePeer, RolesAssumption
  <1>4. PICK msg : msg = Head(chan[m][n])
    OBVIOUS
  <1>5. GreetsIn(m, msg)
    BY <1>1, <1>2, <1>4, GreetsKept
  <1>6. CASE msg = Opened /\ HandleOpen(n, m)
    <2>1. peer' = [peer EXCEPT ![n][m] = [peer[n][m] EXCEPT !.known = TRUE]]
          /\ roles' = roles
      BY <1>6 DEF HandleOpen
    <2>2. peer'[n][m] = [peer[n][m] EXCEPT !.known = TRUE]
      BY <1>1, <1>2, <2>1
    <2>3. peer'[n][m].ready = peer[n][m].ready
          /\ peer'[n][m].boot = peer[n][m].boot
      BY <1>2, <2>2 DEF Peer
    <2> QED
      BY <1>3, <2>1, <2>3
  <1>7. CASE msg = Lost /\ HandleLost(n, m)
    <2>1. peer'[n][m] = NoPeer /\ roles' = roles
      BY <1>1, <1>2, <1>7 DEF HandleLost
    <2> QED
      BY <1>3, <2>1 DEF NoPeer
  <1>8. CASE /\ msg.kind = "hello" /\ msg.roles \in KnownTo(t)
             /\ peer[n][m].known /\ ~ peer[n][m].ready
             /\ HandleHello(n, m, msg)
    <2>1. /\ roles' = [roles EXCEPT ![n] = HelloRoles(n, msg.roles)]
          /\ peer' = [peer EXCEPT ![n][m].boot = msg.boot, ![n][m].ready = TRUE]
      BY <1>8 DEF HandleHello
    <2>2. peer'[n][m] = [peer[n][m] EXCEPT !.boot = msg.boot, !.ready = TRUE]
      BY <1>1, <1>2, <2>1
    <2>3. peer'[n][m].boot = msg.boot
      BY <1>2, <2>2 DEF Peer
    <2>4. roles'[n] = HelloRoles(n, msg.roles)
      BY <1>1, <1>2, <2>1
    <2>5. /\ roles[n].boot = 1 => roles'[n].boot = 1
          /\ msg.roles.boot = 1 => roles'[n].boot = 1
      BY <1>1, <1>2, <1>8, <2>4, KnownLearned
    <2>6. msg.boot = 1 /\ (m = First => msg.roles.boot = 1)
      BY <1>5, <1>8 DEF GreetsIn
    <2> QED
      BY <1>3, <2>3, <2>5, <2>6
  <1>9. CASE /\ msg.kind = "roles" /\ msg.roles \in KnownTo(t)
             /\ peer[n][m].ready /\ HandleRoles(n, m, msg)
    <2>1. peer' = peer
      BY <1>9 DEF HandleRoles
    <2>2. msg.roles \in Fit
      BY <1>9 DEF KnownTo
    <2>3. CASE Beats(msg.roles, roles[n])
      <3>1. roles' = [roles EXCEPT ![n] = Adopted(n, msg.roles)]
        BY <1>9, <2>3 DEF HandleRoles
      <3>2. msg.roles.boot = 1
        BY <1>2, <2>2, <2>3, FitFacts
      <3>3. Adopted(n, msg.roles) = msg.roles
        BY <3>2 DEF Adopted
      <3> QED
        BY <1>1, <1>2, <2>1, <3>1, <3>2, <3>3
    <2>4. CASE ~ Beats(msg.roles, roles[n])
      BY <1>9, <2>1, <2>4 DEF HandleRoles
    <2> QED
      BY <2>3, <2>4
  <1>10. CASE /\ msg.kind = "status" /\ msg.status.roles \in KnownTo(t)
              /\ peer[n][m].ready /\ HandleRoleStatus(n, m, msg)
    <2>1. peer' = [peer EXCEPT ![n][m] =
                     [peer[n][m] EXCEPT !.status = msg.status]]
      BY <1>10 DEF HandleRoleStatus
    <2>2. peer'[n][m] = [peer[n][m] EXCEPT !.status = msg.status]
      BY <1>1, <1>2, <2>1
    <2>3. peer'[n][m].ready = peer[n][m].ready
          /\ peer'[n][m].boot = peer[n][m].boot
      BY <1>2, <2>2 DEF Peer
    <2>4. \/ roles' = roles
          \/ /\ SameRoles(msg.status.roles, roles[n])
             /\ roles' = [roles EXCEPT ![n] = Learned(n, msg.status.roles)]
      BY <1>10 DEF HandleRoleStatus
    <2>5. SameRoles(msg.status.roles, roles[n]) =>
            (roles[n].boot = 1 => Learned(n, msg.status.roles).boot = 1)
      BY <1>1, <1>2, <1>10, KnownLearned
    <2>6. roles[n].boot = 1 => roles'[n].boot = 1
      BY <1>1, <1>2, <2>4, <2>5
    <2> QED
      BY <1>3, <2>3, <2>6
  <1>11. CASE UNCHANGED <<peer, roles>>
    BY <1>11
  <1> QED
    BY <1>4, <1>6, <1>7, <1>8, <1>9, <1>10, <1>11, ReceiveCases

-----------------------------------------------------------------------------
(* The steps.                                                              *)

(* The link of x and y is as it was, with more on its way, and their roles  *)
(* are no older.                                                            *)
Grown(x, y) ==
  /\ linked' = linked
  /\ peer'[x][y] = peer[x][y] /\ peer'[y][x] = peer[y][x]
  /\ {x, y} \in linked => /\ Longer(chan[x][y], chan'[x][y])
                          /\ Longer(chan[y][x], chan'[y][x])
  /\ {x, y} \notin linked => /\ chan'[x][y] = chan[x][y]
                             /\ chan'[y][x] = chan[y][x]
  /\ ~ Beats(roles[x], roles'[x]) /\ ~ Beats(roles[y], roles'[y])

LEMMA GrownKeeps ==
  ASSUME TypeOK, TypeOK', NEW x \in Node, NEW y \in Node, Grown(x, y)
  PROVE  /\ SideAt(x, y) => SideAt(x, y)'
         /\ CaughtAt(x, y) /\ ~ Beats(roles'[x], roles[x]) => CaughtAt(x, y)'
  <1> DEFINE link == {x, y} \in linked
             a == peer[x][y]
             b == peer[y][x]
             p == chan[x][y]
             q == chan[y][x]
             p2 == chan'[x][y]
             q2 == chan'[y][x]
             r == roles[x]
             r2 == roles'[x]
             o == roles[y]
             o2 == roles'[y]
  <1>1. /\ link \in BOOLEAN
        /\ r \in Roles /\ o \in Roles /\ r2 \in Roles /\ o2 \in Roles
    BY DEF TypeOK
  <1>2. /\ link => Longer(p, p2) /\ Longer(q, q2)
        /\ ~ link => p2 = p /\ q2 = q
        /\ ~ Beats(r, r2) /\ ~ Beats(o, o2)
    BY DEF Grown
  <1>3. /\ SideAt(x, y) <=> Side(link, a, b, p, q, o)
        /\ SideAt(x, y)' <=> Side(link, a, b, p2, q2, o2)
        /\ CaughtAt(x, y) <=> Caught(link, a, b, p, q, r, o)
        /\ CaughtAt(x, y)' <=> Caught(link, a, b, p2, q2, r2, o2)
    BY DEF Grown, SideAt, CaughtAt
  <1>4. r2 = roles'[x] /\ r = roles[x]
    OBVIOUS
  <1> HIDE DEF link, a, b, p, q, p2, q2, r, r2, o, o2
  <1>5. /\ Side(link, a, b, p, q, o) => Side(link, a, b, p2, q2, o2)
        /\ Caught(link, a, b, p, q, r, o) /\ ~ Beats(r, r2) /\ ~ Beats(r2, r)
             => Caught(link, a, b, p2, q2, r2, o2)
    BY <1>1, <1>2, LinkTalk
  <1> QED
    BY <1>2, <1>3, <1>4, <1>5

(* What a step may tell is known to the node with the latest roles.        *)
LEMMA KnownStays ==
  ASSUME settings' = settings, NEW s, NEW S,
         S \subseteq {r \in Fit : ~ Beats(r, roles'[s])},
         roles' \in [Node -> S], chan' \in Chans(S)
  PROVE  Within(KnownTo(roles[s]))'
  <1> DEFINE T == {r \in Fit : ~ Beats(r, roles'[s])}
  <1>1. Fit' = Fit
    BY DEF Fit
  <1>2. KnownTo(roles[s])' = T
    BY <1>1 DEF KnownTo
  <1>3. roles' \in [Node -> T] /\ chan' \in Chans(T)
    BY SaidGrows
  <1> QED
    BY <1>2, <1>3 DEF Within, Chans

LEMMA KnownLater ==
  ASSUME NEW t \in Roles, NEW t2 \in Roles, ~ Beats(t, t2)
  PROVE  KnownTo(t) \subseteq {r \in Fit : ~ Beats(r, t2)}
  BY BeatsOrder DEF KnownTo, Fit

LEMMA ReceiveAgree ==
  ASSUME AgreeInv, TypeOK', NoneRestarted,
         NEW n \in Node, NEW m \in Node, Receive(n, m)
  PROVE  LinksInv' /\ OutsideInv' /\ ProcsInv' /\ CoverInv'
  <1>1. TypeOK /\ LinksInv /\ OutsideInv /\ ProcsInv /\ CoverInv
    BY DEF AgreeInv
  <1>2. PICK s \in settings.nodes : Top(s)
    BY <1>1 DEF CoverInv
  <1> DEFINE t == roles[s]
  <1>3. /\ s \in Node /\ t \in Roles
        /\ roles \in [Node -> Roles] /\ roles' \in [Node -> Roles]
        /\ \A x, y \in Node : chan[x][y] \in Seq(Message)
    <2>1. settings.nodes \subseteq Node
      BY <1>1, RolesAssumption DEF TypeOK
    <2>2. /\ roles \in [Node -> Roles] /\ roles' \in [Node -> Roles]
          /\ chan \in [Node -> [Node -> Seq(Message)]]
      BY <1>1 DEF TypeOK
    <2> QED
      BY <2>1, <2>2
  <1>4. Within(KnownTo(t))
    BY <1>2 DEF Top
  <1>5. chan[m][n] # <<>>
    BY DEF Receive
  <1>6. n # m /\ {m, n} \subseteq settings.nodes /\ {m, n} = {n, m}
    BY <1>1, <1>5 DEF OutsideInv
  <1>7. Heard(n, m)
    BY <1>1, <1>5, <1>6 DEF Heard, LinksInv
  <1>8. Kept(n, m) /\ Elsewhere(n, m)
    BY <1>3, <1>4, <1>7, ReceiveKept
  <1>9. /\ UNCHANGED <<settings, boot, linked, faults, sent>>
        /\ \A x, y \in Node : (x # n \/ y # m) => peer'[x][y] = peer[x][y]
    BY <1>1, ReceivePeer
  <1> HIDE DEF t
  <1>10. ASSUME NEW x \in Node, NEW y \in Node, x # y,
                ~ (x = n /\ y = m), ~ (x = m /\ y = n)
         PROVE  Grown(x, y)
    <2>1. peer'[x][y] = peer[x][y] /\ peer'[y][x] = peer[y][x] /\ linked' = linked
      BY <1>9, <1>10
    <2>2. \A z \in Node : ~ Beats(roles[z], roles'[z])
      <3>1. \A z \in Node : ~ Beats(roles[z], roles[z])
        BY <1>3, BeatsOrder
      <3> QED
        BY <1>8, <3>1 DEF Elsewhere
    <2>3. \A q : Longer(q, q)
      BY DEF Longer
    <2>4. {x, y} = {y, x}
      OBVIOUS
    <2>5. \/ chan'[x][y] = chan[x][y]
          \/ {x, y} \in linked /\ Longer(chan[x][y], chan'[x][y])
      BY <1>8, <1>10 DEF Elsewhere
    <2>6. \/ chan'[y][x] = chan[y][x]
          \/ {x, y} \in linked /\ Longer(chan[y][x], chan'[y][x])
      BY <1>8, <1>10, <2>4 DEF Elsewhere
    <2> QED
      BY <2>1, <2>2, <2>3, <2>5, <2>6 DEF Grown
  <1>11. LinksInv'
    <2>1. SUFFICES ASSUME NEW x \in Node, NEW y \in Node, x # y
                   PROVE  SideAt(x, y)'
      BY DEF LinksInv
    <2>2. CASE x = n /\ y = m
      <3>1. peer'[m][n] = peer[m][n] /\ roles'[m] = roles[m]
        BY <1>6, <1>8, <1>9 DEF Elsewhere
      <3> QED
        BY <1>8, <1>9, <2>2, <3>1 DEF Kept, Both, SideAt
    <2>3. CASE x = m /\ y = n
      <3>1. peer'[m][n] = peer[m][n]
        BY <1>6, <1>9
      <3> QED
        BY <1>6, <1>8, <1>9, <2>3, <3>1 DEF Kept, Both, SideAt
    <2>4. CASE ~ (x = n /\ y = m) /\ ~ (x = m /\ y = n)
      <3>1. Grown(x, y) /\ SideAt(x, y)
        BY <1>1, <1>10, <2>1, <2>4 DEF LinksInv
      <3> QED
        BY <1>1, <3>1, GrownKeeps
    <2> QED
      BY <2>2, <2>3, <2>4
  <1>12. roles' \in [Node -> KnownTo(t)] /\ chan' \in Chans(KnownTo(t))
    <2>1. \A r \in KnownTo(t) : Adopted(n, r) \in KnownTo(t)
      <3>1. roles[n] \in Fit
        BY <1>4 DEF Within, KnownTo
      <3> QED
        BY <1>1, <1>3, <1>7, <3>1, KnownAdopted DEF Heard
    <2> QED
      BY <1>1, <1>4, <2>1, ReceiveWithin DEF TypeOK
  <1>13. /\ ~ Beats(t, roles'[s]) /\ ~ Beats(roles'[s], t)
         /\ ~ Beats(roles'[s], roles[s])
    <2>1. ~ Beats(t, t)
      BY <1>3, BeatsOrder
    <2>2. ~ Beats(t, roles'[s])
      BY <1>3, <1>8, <2>1 DEF Elsewhere, t
    <2>3. ~ Beats(roles'[s], t)
      BY <1>3, <1>12 DEF KnownTo
    <2> QED
      BY <2>2, <2>3 DEF t
  <1>14. Within(KnownTo(roles[s]))'
    <2>1. roles'[s] \in Roles
      BY <1>3
    <2>2. KnownTo(t) \subseteq {r \in Fit : ~ Beats(r, roles'[s])}
      BY <1>3, <1>13, <2>1, KnownLater
    <2> QED
      BY <1>9, <1>12, <2>2, KnownStays
  <1>15. ASSUME NEW x \in Node \ {s} PROVE CaughtAt(s, x)'
    <2>1. CaughtAt(s, x)
      BY <1>2, <1>15 DEF Top
    <2>2. CASE s = n /\ x = m
      <3>1. peer'[m][n] = peer[m][n] /\ roles'[m] = roles[m]
        BY <1>6, <1>8, <1>9 DEF Elsewhere
      <3> QED
        BY <1>8, <1>9, <1>13, <2>1, <2>2, <3>1 DEF Kept, CaughtAt
    <2>3. CASE s = m /\ x = n
      <3>1. peer'[m][n] = peer[m][n] /\ roles'[m] = roles[m]
        BY <1>6, <1>8, <1>9 DEF Elsewhere
      <3>2. CaughtAt(m, n)
        BY <2>1, <2>3
      <3> QED
        BY <1>6, <1>8, <1>9, <2>3, <3>1, <3>2 DEF Kept, CaughtAt
    <2>4. CASE ~ (s = n /\ x = m) /\ ~ (s = m /\ x = n)
      <3>1. Grown(s, x)
        BY <1>3, <1>10, <2>4
      <3> QED
        BY <1>1, <1>3, <1>13, <2>1, <3>1, GrownKeeps
    <2> QED
      BY <2>2, <2>3, <2>4
  <1>16. CoverInv'
    <2>1. Top(s)'
      BY <1>14, <1>15 DEF Top
    <2> QED
      BY <1>2, <1>9, <2>1 DEF CoverInv
  <1>17. OutsideInv'
    <2>1. SUFFICES ASSUME NEW x \in Node, NEW y \in Node,
                          x = y \/ ~ ({x, y} \subseteq settings.nodes)
                   PROVE  /\ ~ peer'[x][y].known /\ ~ peer'[x][y].ready
                          /\ chan'[x][y] = <<>> /\ {x, y} \notin linked
      BY <1>9 DEF OutsideInv
    <2>2. ~ (x = n /\ y = m) /\ ~ (x = m /\ y = n)
      BY <1>6, <2>1
    <2>3. /\ ~ peer[x][y].known /\ ~ peer[x][y].ready
          /\ chan[x][y] = <<>> /\ {x, y} \notin linked
      BY <1>1, <2>1 DEF OutsideInv
    <2>4. chan'[x][y] = chan[x][y]
      BY <1>8, <2>2, <2>3 DEF Elsewhere
    <2> QED
      BY <1>9, <2>2, <2>3, <2>4
  <1>18. ProcsInv'
    <2>1. /\ Greets(m, chan[m][n]) /\ (peer[n][m].ready => peer[n][m].boot = 1)
          /\ n = First \/ peer[n][First].ready => roles[n].boot = 1
      BY <1>1 DEF ProcsInv
    <2>2. /\ peer'[n][m].ready => peer'[n][m].boot = 1
          /\ n = First \/ peer'[n][First].ready => roles'[n].boot = 1
      BY <1>3, <1>4, <1>7, <2>1, ReceiveMeets
    <2>3. \A x, y \in Node : peer'[x][y].ready => peer'[x][y].boot = 1
      BY <1>1, <1>9, <2>2 DEF ProcsInv
    <2>4. \A x \in Node : x = First \/ peer'[x][First].ready => roles'[x].boot = 1
      <3>1. First \in Node
        BY RolesAssumption
      <3> QED
        BY <1>1, <1>8, <1>9, <2>2, <3>1 DEF ProcsInv, Elsewhere
    <2>5. ASSUME NEW x \in Node, NEW y \in Node PROVE Greets(x, chan'[x][y])
      <3>1. PICK said \in Message : Answered(chan', n, m, said) /\ GreetsIn(n, said)
        BY <1>3, <1>4, <1>7, <2>1, ReceiveSays
      <3>2. Greets(x, chan[x][y])
        BY <1>1 DEF ProcsInv
      <3>3. CASE chan'[x][y] = chan[x][y]
        BY <3>2, <3>3
      <3>4. CASE x = m /\ y = n
        <4>1. chan'[x][y] = Tail(chan[m][n])
          BY <3>1, <3>4 DEF Answered
        <4> QED
          BY <1>3, <1>5, <3>2, <3>4, <4>1, GreetsKept
      <3>5. CASE x = n /\ chan'[x][y] = Append(chan[x][y], said)
        BY <1>3, <3>1, <3>2, <3>5, GreetsKept
      <3> QED
        BY <3>1, <3>3, <3>4, <3>5 DEF Answered
    <2> QED
      BY <2>3, <2>4, <2>5 DEF ProcsInv
  <1> QED
    BY <1>11, <1>16, <1>17, <1>18

(* Node n tells the nodes it passed a handshake with, and its roles become  *)
(* later: an update, with the roles it takes, or a game that moves them.    *)
Told(n) ==
  /\ n \in settings.nodes
  /\ UNCHANGED <<settings, boot, peer, linked>>
  /\ \A x \in Node \ {n} : roles'[x] = roles[x]
  /\ \A x, y \in Node : x # n => chan'[x][y] = chan[x][y]
  /\ \A y \in Node :
       \/ chan'[n][y] = chan[n][y]
       \/ {n, y} \in linked /\ Longer(chan[n][y], chan'[n][y])
  /\ \A y \in Node : Greets(n, chan'[n][y])
  /\ \/ roles'[n] = roles[n]
     \/ /\ Beats(roles'[n], roles[n]) /\ roles'[n] \in Fit
        /\ roles'[n].boot = 1
        /\ \A y \in Node : {n, y} \in linked /\ Meets(peer[n][y], chan[y][n]) =>
             Passes(chan'[n][y], AtLeast(roles'[n]))
  /\ roles' \in [Node -> Fit] /\ chan' \in Chans(Fit)

(* With these added to what a mesh knows, one node still knows the latest.  *)
NowKnown(n, t) == KnownTo(t) \cup {roles'[n]}

LEMMA ToldAgree ==
  ASSUME AgreeInv, TypeOK', NoneRestarted, NEW n \in Node, Told(n),
         \A s \in settings.nodes : Within(KnownTo(roles[s])) =>
           /\ roles' \in [Node -> NowKnown(n, roles[s])]
           /\ chan' \in Chans(NowKnown(n, roles[s]))
  PROVE  LinksInv' /\ OutsideInv' /\ ProcsInv' /\ CoverInv'
  <1>1. TypeOK /\ LinksInv /\ OutsideInv /\ ProcsInv /\ CoverInv
    BY DEF AgreeInv
  <1>2. PICK s \in settings.nodes : Top(s)
    BY <1>1 DEF CoverInv
  <1>3. /\ s \in Node /\ roles[s] \in Roles /\ roles'[s] \in Roles
        /\ roles[n] \in Roles /\ roles'[n] \in Roles
    <2>1. settings.nodes \subseteq Node
      BY <1>1, RolesAssumption DEF TypeOK
    <2> QED
      BY <1>1, <2>1 DEF TypeOK
  <1>4. \A x \in Node : ~ Beats(roles[x], roles'[x])
    <2>1. \A x \in Node : roles[x] \in Roles /\ roles'[x] \in Roles
      BY <1>1 DEF TypeOK
    <2>2. \A x \in Node : ~ Beats(roles[x], roles[x])
      BY <2>1, BeatsOrder
    <2>3. Beats(roles'[n], roles[n]) => ~ Beats(roles[n], roles'[n])
      BY <1>3, BeatsOrder
    <2> QED
      BY <2>2, <2>3 DEF Told
  <1>5. UNCHANGED <<settings, boot, peer, linked>>
    BY DEF Told
  <1>6. ASSUME NEW x \in Node, NEW y \in Node, x # y
        PROVE  Grown(x, y)
    <2>1. {x, y} = {y, x}
      OBVIOUS
    <2>2. \A q : Longer(q, q)
      BY DEF Longer
    <2>3. \/ chan'[x][y] = chan[x][y]
          \/ {x, y} \in linked /\ Longer(chan[x][y], chan'[x][y])
      BY <1>6 DEF Told
    <2>4. \/ chan'[y][x] = chan[y][x]
          \/ {x, y} \in linked /\ Longer(chan[y][x], chan'[y][x])
      BY <1>6, <2>1 DEF Told
    <2> QED
      BY <1>4, <1>5, <2>2, <2>3, <2>4 DEF Grown
  <1>7. LinksInv'
    BY <1>1, <1>6, GrownKeeps DEF LinksInv
  <1>8. OutsideInv'
    <2>1. SUFFICES ASSUME NEW x \in Node, NEW y \in Node,
                          x = y \/ ~ ({x, y} \subseteq settings.nodes)
                   PROVE  /\ ~ peer[x][y].known /\ ~ peer[x][y].ready
                          /\ chan'[x][y] = <<>> /\ {x, y} \notin linked
      BY <1>5 DEF OutsideInv
    <2>2. /\ ~ peer[x][y].known /\ ~ peer[x][y].ready
          /\ chan[x][y] = <<>> /\ {x, y} \notin linked
      BY <1>1, <2>1 DEF OutsideInv
    <2>3. chan'[x][y] = chan[x][y]
      BY <2>2 DEF Told
    <2> QED
      BY <2>2, <2>3
  <1>9. ProcsInv'
    <2>1. roles[n].boot = 1 => roles'[n].boot = 1
      BY DEF Told
    <2>2. \A x \in Node : x = First \/ peer'[x][First].ready => roles'[x].boot = 1
      BY <1>1, <1>5, <2>1 DEF ProcsInv, Told
    <2>3. \A x, y \in Node : Greets(x, chan'[x][y])
      BY <1>1 DEF ProcsInv, Told
    <2> QED
      BY <1>1, <1>5, <2>2, <2>3 DEF ProcsInv
  <1>10. /\ roles' \in [Node -> NowKnown(n, roles[s])]
         /\ chan' \in Chans(NowKnown(n, roles[s]))
    BY <1>2 DEF Top
  <1>11. CASE ~ Beats(roles'[n], roles[s])
    <2>1. roles'[n] \in KnownTo(roles[s])
      BY <1>11 DEF Told, KnownTo
    <2>2. roles' \in [Node -> KnownTo(roles[s])] /\ chan' \in Chans(KnownTo(roles[s]))
      <3>1. NowKnown(n, roles[s]) = KnownTo(roles[s])
        BY <2>1 DEF NowKnown
      <3> QED
        BY <1>10, <3>1
    <2>3. KnownTo(roles[s]) \subseteq {r \in Fit : ~ Beats(r, roles'[s])}
      BY <1>3, <1>4, KnownLater
    <2>4. Within(KnownTo(roles[s]))'
      BY <1>5, <2>2, <2>3, KnownStays
    <2>5. ~ Beats(roles'[s], roles[s])
      BY <1>3, <2>2 DEF KnownTo
    <2>6. \A x \in Node \ {s} : CaughtAt(s, x)'
      BY <1>1, <1>2, <1>3, <1>6, <2>5, GrownKeeps DEF Top
    <2>7. Top(s)'
      BY <2>4, <2>6 DEF Top
    <2> QED
      BY <1>5, <1>7, <1>8, <1>9, <2>7 DEF CoverInv
  <1>12. CASE Beats(roles'[n], roles[s])
    <2>1. ~ Beats(roles[s], roles'[n]) /\ ~ Beats(roles'[n], roles'[n])
      BY <1>3, <1>12, BeatsOrder
    <2>2. NowKnown(n, roles[s]) \subseteq {r \in Fit : ~ Beats(r, roles'[n])}
      <3>1. KnownTo(roles[s]) \subseteq {r \in Fit : ~ Beats(r, roles'[n])}
        BY <1>3, <2>1, KnownLater
      <3>2. roles'[n] \in Fit
        BY DEF Told
      <3> QED
        BY <2>1, <3>1, <3>2 DEF NowKnown
    <2>3. Within(KnownTo(roles[n]))'
      BY <1>5, <1>10, <2>2, KnownStays
    <2>4. roles'[n] # roles[n]
      <3>1. roles[n] \in KnownTo(roles[s])
        BY <1>2 DEF Top, Within
      <3> QED
        BY <1>12, <3>1 DEF KnownTo
    <2>5. ASSUME NEW x \in Node \ {n} PROVE CaughtAt(n, x)'
      <3> DEFINE link == {n, x} \in linked
                 a == peer[n][x]
                 b == peer[x][n]
                 p == chan'[n][x]
                 q == chan'[x][n]
                 r == roles'[n]
                 o == roles'[x]
      <3>1. SideAt(n, x)' /\ SideAt(x, n)'
        BY <1>7, <2>5 DEF LinksInv
      <3>2. {n, x} = {x, n}
        OBVIOUS
      <3>3. Both(link, a, b, p, q, r, o)
        BY <1>5, <3>1, <3>2 DEF SideAt, Both
      <3>4. q = chan[x][n]
        BY <2>5 DEF Told
      <3>5. link /\ Meets(a, q) => Passes(p, AtLeast(r))
        BY <2>4, <3>4 DEF Told
      <3>6. link \in BOOLEAN /\ r \in Roles /\ o \in Roles
        BY <1>3, <2>5 DEF TypeOK
      <3>7. CaughtAt(n, x)' <=> Caught(link, a, b, p, q, r, o)
        BY <1>5 DEF CaughtAt
      <3> HIDE DEF link, a, b, p, q, r, o
      <3> QED
        BY <3>3, <3>5, <3>6, <3>7, LinkTop
    <2>6. Top(n)'
      BY <2>3, <2>5 DEF Top
    <2>7. n \in settings.nodes
      BY DEF Told
    <2> QED
      BY <1>5, <1>7, <1>8, <1>9, <2>6, <2>7 DEF CoverInv
  <1> QED
    BY <1>11, <1>12

(* Node n tells the nodes it passed a handshake with, and that it does not  *)
(* have to forget, msg: roles or a status.                                  *)
Spread(ch, ch2, n, msg) ==
  /\ \A x, y \in Node : x # n => ch2[x][y] = ch[x][y]
  /\ \A y \in Node :
       \/ ch2[n][y] = ch[n][y]
       \/ {n, y} \in linked /\ ch2[n][y] = Append(ch[n][y], msg)
  /\ \A y \in Node : {n, y} \in linked /\ Meets(peer[n][y], chan[y][n]) =>
       ch2[n][y] = Append(ch[n][y], msg)

LEMMA Spreads ==
  ASSUME TypeOK, OutsideInv, NEW n \in Node, NEW ch \in Chans(Roles),
         \A x, y \in Node : x # n => ch[x][y] = chan[x][y],
         NEW msg \in Message
  PROVE  /\ SendReady(ch, n, msg) \in Chans(Roles)
         /\ Spread(ch, SendReady(ch, n, msg), n, msg)
  <1> DEFINE ch2 == SendReady(ch, n, msg)
  <1>1. /\ ch2 \in Chans(Roles)
        /\ \A x, y \in Node :
             ch2[x][y] = IF x = n /\ y \in Ready(n) /\ CanSend(ch, n, y)
                         THEN Append(ch[x][y], msg) ELSE ch[x][y]
    BY SaidTypes, SendReadyAt
  <1> HIDE DEF ch2
  <1>2. ASSUME NEW y \in Node, {n, y} \in linked, Meets(peer[n][y], chan[y][n])
        PROVE  y \in Ready(n) /\ CanSend(ch, n, y)
    <2>1. y # n
      BY <1>2 DEF OutsideInv
    <2>2. ch[y][n] = chan[y][n]
      BY <2>1
    <2>3. chan[y][n] \in Seq(Message)
      BY DEF TypeOK
    <2>4. chan[y][n] = <<>> \/ Head(chan[y][n]) # Lost
      BY <1>2, <2>3, NoLossFirst DEF Meets
    <2> QED
      BY <1>2, <2>2, <2>4 DEF Meets, Ready, CanSend
  <1>3. Spread(ch, ch2, n, msg)
    BY <1>1, <1>2 DEF Spread, CanSend
  <1> QED
    BY <1>1, <1>3 DEF ch2

LEMMA SpreadTells ==
  ASSUME NEW n \in Node, NEW ch \in Chans(Roles), NEW ch2, NEW msg \in Message,
         Spread(ch, ch2, n, msg), msg.kind \in {"roles", "status"},
         NEW y \in Node
  PROVE  /\ \/ ch2[n][y] = ch[n][y]
            \/ {n, y} \in linked /\ Longer(ch[n][y], ch2[n][y])
         /\ Greets(n, ch[n][y]) => Greets(n, ch2[n][y])
         /\ \A S : /\ msg.kind = "roles" /\ msg.roles \in S
                   /\ {n, y} \in linked /\ Meets(peer[n][y], chan[y][n])
                   => Passes(ch2[n][y], S)
  <1>1. ch[n][y] \in Seq(Message)
    BY SaidTypes DEF Chans
  <1>2. GreetsIn(n, msg)
    BY DEF GreetsIn
  <1>3. \/ ch2[n][y] = ch[n][y]
        \/ {n, y} \in linked /\ ch2[n][y] = Append(ch[n][y], msg)
    BY DEF Spread
  <1>4. Longer(ch[n][y], Append(ch[n][y], msg))
    BY <1>1, LongerTalk
  <1>5. Greets(n, ch[n][y]) => Greets(n, Append(ch[n][y], msg))
    BY <1>1, <1>2, GreetsKept
  <1>6. \A S : msg.kind = "roles" /\ msg.roles \in S
                 => Passes(Append(ch[n][y], msg), S)
    BY <1>1, Appended
  <1> QED
    BY <1>3, <1>4, <1>5, <1>6 DEF Spread

(* The roles a node takes are later ones of a process of the mesh.         *)
LEMMA TakenFits ==
  ASSUME TypeOK, NoneRestarted, NEW n \in settings.nodes
  PROVE  /\ Taken(n) \in Fit /\ Taken(n).boot = 1
         /\ Beats(Taken(n), roles[n])
  <1>1. n \in Node
    BY RolesAssumption DEF TypeOK
  <1>2. roles[n].term \in Nat /\ boot[n] = 1 /\ Taken(n) \in Roles
    BY <1>1, MadeRoles DEF TypeOK, Roles, NoneRestarted
  <1> QED
    BY <1>2 DEF Taken, Fit, Beats

LEMMA UpdateAgree ==
  ASSUME AgreeInv, TypeOK', NoneRestarted, NEW n \in Node, UpdateRoles(n)
  PROVE  LinksInv' /\ OutsideInv' /\ ProcsInv' /\ CoverInv'
  <1> DEFINE told == IF MyStatus(n) = sent[n] THEN chan
                     ELSE SendReady(chan, n, StatusOf(MyStatus(n)))
             news == StatusOf(MyStatus(n))
             mine == RolesOf(Taken(n))
  <1>1. TypeOK /\ OutsideInv /\ ProcsInv /\ CoverInv
    BY DEF AgreeInv
  <1>2. /\ n \in settings.nodes
        /\ UNCHANGED <<settings, boot, peer, linked>>
        /\ IF Takes(n) THEN /\ chan' = SendReady(told, n, mine)
                            /\ roles' = [roles EXCEPT ![n] = Taken(n)]
           ELSE chan' = told /\ UNCHANGED roles
    BY DEF UpdateRoles
  <1>3. /\ Taken(n) \in Fit /\ Taken(n) \in Roles /\ Taken(n).boot = 1
        /\ Beats(Taken(n), roles[n])
    BY <1>1, <1>2, TakenFits DEF Fit
  <1>4. chan \in Chans(Roles) /\ roles \in [Node -> Roles]
    BY <1>1, TypeWithin DEF Within
  <1>5. news \in Message /\ news.kind = "status"
    BY <1>1, MyStatusType DEF Message, StatusOf
  <1>6. mine \in Message /\ mine.kind = "roles" /\ mine.roles = Taken(n)
    BY <1>3 DEF Message, RolesOf
  <1> HIDE DEF news, mine
  <1>7. \/ told = chan
        \/ told = SendReady(chan, n, news)
    BY DEF told, news
  <1> HIDE DEF told
  <1>8. SendReady(chan, n, news) \in Chans(Roles)
        /\ Spread(chan, SendReady(chan, n, news), n, news)
    BY <1>1, <1>4, <1>5, Spreads
  <1>9. /\ told \in Chans(Roles)
        /\ told = chan \/ Spread(chan, told, n, news)
    BY <1>4, <1>7, <1>8
  <1>10. \A x, y \in Node : x # n => told[x][y] = chan[x][y]
    BY <1>9 DEF Spread
  <1>11. Takes(n) => Spread(told, chan', n, mine)
    BY <1>1, <1>2, <1>6, <1>9, <1>10, Spreads
  <1>12. \A x, y \in Node : x # n => chan'[x][y] = chan[x][y]
    BY <1>2, <1>10, <1>11 DEF Spread
  <1>13. ASSUME NEW y \in Node
         PROVE  /\ \/ chan'[n][y] = chan[n][y]
                   \/ {n, y} \in linked /\ Longer(chan[n][y], chan'[n][y])
                /\ Greets(n, chan'[n][y])
                /\ Takes(n) /\ {n, y} \in linked /\ Meets(peer[n][y], chan[y][n])
                     => Passes(chan'[n][y], AtLeast(Taken(n)))
    <2>1. Greets(n, chan[n][y])
      BY <1>1 DEF ProcsInv
    <2>2. /\ \/ told[n][y] = chan[n][y]
             \/ {n, y} \in linked /\ Longer(chan[n][y], told[n][y])
          /\ Greets(n, told[n][y])
      BY <1>4, <1>5, <1>9, <2>1, SpreadTells
    <2>3. ~ Beats(Taken(n), Taken(n))
      BY <1>3, BeatsOrder
    <2>4. Taken(n) \in AtLeast(Taken(n))
      BY <1>3, <2>3 DEF AtLeast
    <2>5. Takes(n) =>
            /\ \/ chan'[n][y] = told[n][y]
               \/ {n, y} \in linked /\ Longer(told[n][y], chan'[n][y])
            /\ Greets(n, chan'[n][y])
            /\ {n, y} \in linked /\ Meets(peer[n][y], chan[y][n])
                 => Passes(chan'[n][y], AtLeast(Taken(n)))
      BY <1>6, <1>9, <1>11, <2>2, <2>4, SpreadTells
    <2>6. ~ Takes(n) => chan'[n][y] = told[n][y]
      BY <1>2
    <2> QED
      BY <2>2, <2>5, <2>6, LongerTwice
  <1>14. \A S : /\ Within(S) /\ S \subseteq Fit
                => /\ roles' \in [Node -> S \cup {roles'[n]}]
                   /\ chan' \in Chans(S \cup {roles'[n]})
    <2>1. SUFFICES ASSUME NEW S, Within(S), S \subseteq Fit
                   PROVE  /\ roles' \in [Node -> S \cup {roles'[n]}]
                          /\ chan' \in Chans(S \cup {roles'[n]})
      OBVIOUS
    <2> DEFINE T == S \cup {roles'[n]}
    <2>2. chan \in Chans(T) /\ roles \in [Node -> T]
      BY <2>1, SaidGrows DEF Within
    <2>3. Takes(n) => Taken(n) \in T
      BY <1>2, <1>4
    <2> HIDE DEF T
    <2>4. Within(T)
      BY <2>2 DEF Within
    <2>5. roles' \in [Node -> T] /\ chan' \in Chans(T)
      BY <2>3, <2>4, UpdateWithin
    <2> QED
      BY <2>5 DEF T
  <1>15. /\ \A x \in Node \ {n} : roles'[x] = roles[x]
         /\ Takes(n) => roles'[n] = Taken(n)
         /\ ~ Takes(n) => roles'[n] = roles[n]
    BY <1>2, <1>4
  <1>16. ASSUME NEW t \in Roles, Within(KnownTo(t))
         PROVE  /\ roles' \in [Node -> NowKnown(n, t)]
                /\ chan' \in Chans(NowKnown(n, t))
    <2>1. KnownTo(t) \subseteq Fit
      BY DEF KnownTo
    <2> QED
      BY <1>14, <1>16, <2>1 DEF NowKnown
  <1>17. settings.nodes \subseteq Node
    BY <1>1, RolesAssumption DEF TypeOK
  <1>18. roles' \in [Node -> Fit] /\ chan' \in Chans(Fit)
    <2>1. PICK s \in settings.nodes : Top(s)
      BY <1>1 DEF CoverInv
    <2>2. roles[s] \in Roles /\ Within(KnownTo(roles[s]))
      BY <1>4, <1>17, <2>1 DEF Top
    <2>3. roles[n] \in Fit
      BY <2>2 DEF Within, KnownTo
    <2>4. NowKnown(n, roles[s]) \subseteq Fit
      BY <1>3, <1>15, <2>3 DEF NowKnown, KnownTo
    <2>5. /\ roles' \in [Node -> NowKnown(n, roles[s])]
          /\ chan' \in Chans(NowKnown(n, roles[s]))
      BY <1>16, <2>2
    <2> QED
      BY <2>4, <2>5, SaidGrows
  <1>19. Told(n)
    BY <1>2, <1>3, <1>12, <1>13, <1>15, <1>18 DEF Told
  <1> QED
    BY <1>4, <1>16, <1>17, <1>19, ToldAgree

(* Whoever is in the mesh of a node is a process of the mesh.              *)
LEMMA GivenFits ==
  ASSUME TypeOK, OutsideInv, ProcsInv, NoneRestarted,
         NEW n \in settings.nodes, NEW m \in InMesh(n), NEW r,
         r = [term |-> roles[n].term + 1, node |-> m,
              boot |-> Process(n, peer[n], m)]
  PROVE  /\ r \in Fit /\ r.boot = 1 /\ Adopted(n, r) = r
         /\ Beats(r, roles[n])
  <1>1. n \in Node
    BY RolesAssumption DEF TypeOK
  <1>2. m = n \/ (m \in Node /\ peer[n][m].ready)
    BY DEF InMesh, Ready
  <1>3. m \in settings.nodes
    BY <1>1, <1>2 DEF OutsideInv
  <1>4. r.boot = 1
    BY <1>1, <1>2 DEF Process, ProcsInv, NoneRestarted
  <1>5. roles[n].term \in Nat /\ r \in Roles
    BY <1>1, MadeRoles DEF TypeOK, Roles
  <1>6. r.term = roles[n].term + 1 /\ r.node = m
    OBVIOUS
  <1> QED
    BY <1>3, <1>4, <1>5, <1>6 DEF Fit, Beats, Adopted

LEMMA ChangeAgree ==
  ASSUME AgreeInv, TypeOK', NoneRestarted, NEW n \in Node, ChangeRoles(n)
  PROVE  LinksInv' /\ OutsideInv' /\ ProcsInv' /\ CoverInv'
  <1>1. TypeOK /\ OutsideInv /\ ProcsInv /\ CoverInv
    BY DEF AgreeInv
  <1>2. /\ n \in settings.nodes
        /\ UNCHANGED <<settings, boot, peer, linked>>
    BY DEF ChangeRoles
  <1>3. PICK m \in InMesh(n) \ {roles[n].node} :
          LET r == [term |-> roles[n].term + 1, node |-> m,
                    boot |-> Process(n, peer[n], m)] IN
          /\ chan' = SendReady(chan, n, RolesOf(r))
          /\ roles' = [roles EXCEPT ![n] = Adopted(n, r)]
    BY DEF ChangeRoles
  <1> DEFINE r == [term |-> roles[n].term + 1, node |-> m,
                   boot |-> Process(n, peer[n], m)]
             msg == RolesOf(r)
  <1>4. /\ r \in Fit /\ r.boot = 1 /\ Adopted(n, r) = r
        /\ Beats(r, roles[n])
    BY <1>1, <1>2, GivenFits
  <1>5. chan' = SendReady(chan, n, msg) /\ roles' = [roles EXCEPT ![n] = r]
    BY <1>3, <1>4
  <1> HIDE DEF r
  <1>6. /\ r \in Roles /\ chan \in Chans(Roles) /\ roles \in [Node -> Roles]
    BY <1>1, <1>4, TypeWithin DEF Within, Fit
  <1>7. /\ msg \in Message /\ msg.kind = "roles" /\ msg.roles = r
        /\ \A S : r \in S => msg \in Said(S)
    BY <1>6, SaidMade DEF Message, RolesOf
  <1> HIDE DEF msg
  <1>8. Spread(chan, chan', n, msg)
    BY <1>1, <1>5, <1>6, <1>7, Spreads
  <1>9. ASSUME NEW y \in Node
        PROVE  /\ \/ chan'[n][y] = chan[n][y]
                  \/ {n, y} \in linked /\ Longer(chan[n][y], chan'[n][y])
               /\ Greets(n, chan'[n][y])
               /\ {n, y} \in linked /\ Meets(peer[n][y], chan[y][n])
                    => Passes(chan'[n][y], AtLeast(r))
    <2>1. Greets(n, chan[n][y])
      BY <1>1 DEF ProcsInv
    <2>2. ~ Beats(r, r)
      BY <1>6, BeatsOrder
    <2>3. r \in AtLeast(r)
      BY <1>6, <2>2 DEF AtLeast
    <2> QED
      BY <1>6, <1>7, <1>8, <2>1, <2>3, SpreadTells
  <1>10. roles'[n] = r /\ \A x \in Node \ {n} : roles'[x] = roles[x]
    BY <1>5, <1>6
  <1>11. ASSUME NEW t \in Roles, Within(KnownTo(t))
         PROVE  /\ roles' \in [Node -> NowKnown(n, t)]
                /\ chan' \in Chans(NowKnown(n, t))
    <2> DEFINE T == NowKnown(n, t)
    <2>1. KnownTo(t) \subseteq T /\ r \in T
      BY <1>10 DEF NowKnown
    <2>2. chan \in Chans(T) /\ roles \in [Node -> T]
      BY <1>11, <2>1, SaidGrows DEF Within
    <2> HIDE DEF T
    <2>3. msg \in Said(T)
      BY <1>7, <2>1
    <2>4. chan' \in Chans(T)
      BY <1>5, <2>2, <2>3, SendReadyAt
    <2>5. roles' \in [Node -> T]
      BY <1>5, <2>1, <2>2
    <2> QED
      BY <2>4, <2>5 DEF T
  <1>12. settings.nodes \subseteq Node
    BY <1>1, RolesAssumption DEF TypeOK
  <1>13. roles' \in [Node -> Fit] /\ chan' \in Chans(Fit)
    <2>1. PICK s \in settings.nodes : Top(s)
      BY <1>1 DEF CoverInv
    <2>2. roles[s] \in Roles /\ Within(KnownTo(roles[s]))
      BY <1>6, <1>12, <2>1 DEF Top
    <2>3. NowKnown(n, roles[s]) \subseteq Fit
      BY <1>4, <1>10 DEF NowKnown, KnownTo
    <2>4. /\ roles' \in [Node -> NowKnown(n, roles[s])]
          /\ chan' \in Chans(NowKnown(n, roles[s]))
      BY <1>11, <2>2
    <2> QED
      BY <2>3, <2>4, SaidGrows
  <1>14. \A x, y \in Node : x # n => chan'[x][y] = chan[x][y]
    BY <1>8 DEF Spread
  <1>15. Told(n)
    BY <1>2, <1>4, <1>9, <1>10, <1>13, <1>14 DEF Told
  <1> QED
    BY <1>6, <1>11, <1>12, <1>15, ToldAgree

(* A link between nodes n and m comes up or drops: the others are as they   *)
(* were, and nobody is caught over it.                                      *)
Relinked(n, m) ==
  /\ n \in settings.nodes /\ m \in settings.nodes /\ n # m
  /\ UNCHANGED <<settings, boot, peer, roles>>
  /\ \A x, y \in Node : {x, y} # {n, m} =>
       /\ chan'[x][y] = chan[x][y]
       /\ {x, y} \in linked' <=> {x, y} \in linked
  /\ SideAt(n, m)' /\ SideAt(m, n)'
  /\ CaughtAt(n, m)' /\ CaughtAt(m, n)'
  /\ Greets(n, chan'[n][m]) /\ Greets(m, chan'[m][n])

LEMMA RelinkedAgree ==
  ASSUME AgreeInv, NoneRestarted, NEW n \in Node, NEW m \in Node,
         Relinked(n, m), \A S : Within(S) => chan' \in Chans(S)
  PROVE  LinksInv' /\ OutsideInv' /\ ProcsInv' /\ CoverInv'
  <1>1. TypeOK /\ LinksInv /\ OutsideInv /\ ProcsInv /\ CoverInv
    BY DEF AgreeInv
  <1>2. UNCHANGED <<settings, boot, peer, roles>>
    BY DEF Relinked
  <1>3. ASSUME NEW x \in Node, NEW y \in Node, {x, y} # {n, m}
        PROVE  /\ SideAt(x, y)' <=> SideAt(x, y)
               /\ CaughtAt(x, y)' <=> CaughtAt(x, y)
    <2>1. {y, x} # {n, m}
      BY <1>3
    <2>2. /\ chan'[x][y] = chan[x][y] /\ chan'[y][x] = chan[y][x]
          /\ {x, y} \in linked' <=> {x, y} \in linked
      BY <1>3, <2>1 DEF Relinked
    <2> DEFINE l1 == {x, y} \in linked
               l2 == {x, y} \in linked'
    <2>3. l1 = l2
      BY <2>2
    <2>4. /\ SideAt(x, y) <=> Side(l1, peer[x][y], peer[y][x],
                                   chan[x][y], chan[y][x], roles[y])
          /\ CaughtAt(x, y) <=> Caught(l1, peer[x][y], peer[y][x],
                                   chan[x][y], chan[y][x], roles[x], roles[y])
      BY DEF SideAt, CaughtAt
    <2>5. /\ SideAt(x, y)' <=> Side(l2, peer[x][y], peer[y][x],
                                    chan'[x][y], chan'[y][x], roles[y])
          /\ CaughtAt(x, y)' <=> Caught(l2, peer[x][y], peer[y][x],
                                    chan'[x][y], chan'[y][x], roles[x], roles[y])
      BY <1>2 DEF SideAt, CaughtAt
    <2> HIDE DEF l1, l2
    <2> QED
      BY <2>2, <2>3, <2>4, <2>5
  <1>4. \A x, y \in Node : {x, y} = {n, m} => \/ x = n /\ y = m
                                              \/ x = m /\ y = n
    OBVIOUS
  <1>5. LinksInv'
    BY <1>1, <1>3, <1>4 DEF LinksInv, Relinked
  <1>6. OutsideInv'
    <2>1. \A x, y \in Node : x = y \/ ~ ({x, y} \subseteq settings.nodes)
            => {x, y} # {n, m}
      BY DEF Relinked
    <2>2. SUFFICES ASSUME NEW x \in Node, NEW y \in Node,
                          x = y \/ ~ ({x, y} \subseteq settings.nodes)
                   PROVE  /\ ~ peer[x][y].known /\ ~ peer[x][y].ready
                          /\ chan'[x][y] = <<>> /\ {x, y} \notin linked'
      BY <1>2 DEF OutsideInv
    <2>3. chan'[x][y] = chan[x][y] /\ ({x, y} \in linked' <=> {x, y} \in linked)
      BY <2>1, <2>2 DEF Relinked
    <2> QED
      BY <1>1, <2>2, <2>3 DEF OutsideInv
  <1>7. ProcsInv'
    <2>1. \A x, y \in Node : Greets(x, chan'[x][y])
      BY <1>1, <1>4 DEF ProcsInv, Relinked
    <2> QED
      BY <1>1, <1>2, <2>1 DEF ProcsInv
  <1>8. CoverInv'
    <2>1. PICK s \in settings.nodes : Top(s)
      BY <1>1 DEF CoverInv
    <2>2. s \in Node
      BY <1>1, RolesAssumption DEF TypeOK
    <2>3. KnownTo(roles[s])' = KnownTo(roles[s])
      BY <1>2 DEF KnownTo, Fit
    <2>4. Within(KnownTo(roles[s]))'
      BY <1>2, <2>1, <2>3 DEF Top, Within, Chans
    <2>5. \A x \in Node \ {s} : CaughtAt(s, x)'
      BY <1>3, <1>4, <2>1, <2>2 DEF Top, Relinked
    <2> QED
      BY <1>2, <2>1, <2>4, <2>5 DEF CoverInv, Top
  <1> QED
    BY <1>5, <1>6, <1>7, <1>8

LEMMA ConnectAgree ==
  ASSUME AgreeInv, NoneRestarted, NEW n \in Node, NEW m \in Node, Connect(n, m)
  PROVE  LinksInv' /\ OutsideInv' /\ ProcsInv' /\ CoverInv'
  <1>1. TypeOK /\ LinksInv /\ ProcsInv
    BY DEF AgreeInv
  <1>2. n # m
    BY RolesAssumption DEF Connect
  <1>3. /\ n \in settings.nodes /\ m \in settings.nodes
        /\ {n, m} \notin linked /\ linked' = linked \cup {{n, m}}
        /\ UNCHANGED <<settings, boot, peer, roles>>
        /\ chan' = [chan EXCEPT ![n][m] = Append(@, Opened),
                                ![m][n] = Append(@, Opened)]
    BY DEF Connect
  <1>4. /\ chan'[n][m] = Append(chan[n][m], Opened)
        /\ chan'[m][n] = Append(chan[m][n], Opened)
        /\ \A x, y \in Node : {x, y} # {n, m} => chan'[x][y] = chan[x][y]
    BY <1>1, <1>2, <1>3 DEF TypeOK
  <1>5. {m, n} = {n, m}
    OBVIOUS
  <1>6. /\ Side(FALSE, peer[n][m], peer[m][n], chan[n][m], chan[m][n], roles[m])
        /\ Side(FALSE, peer[m][n], peer[n][m], chan[m][n], chan[n][m], roles[n])
    <2>1. SideAt(n, m) /\ SideAt(m, n)
      BY <1>1, <1>2 DEF LinksInv
    <2>2. ({n, m} \in linked) = FALSE
      BY <1>3
    <2> QED
      BY <1>5, <2>1, <2>2 DEF SideAt
  <1>7. chan[n][m] \in Seq(Message) /\ chan[m][n] \in Seq(Message)
    BY <1>1 DEF TypeOK
  <1>8. /\ Side(TRUE, peer[n][m], peer[m][n], Append(chan[n][m], Opened),
                Append(chan[m][n], Opened), roles[m])
        /\ \A r : Caught(TRUE, peer[n][m], peer[m][n], Append(chan[n][m], Opened),
                         Append(chan[m][n], Opened), r, roles[m])
        /\ Side(TRUE, peer[m][n], peer[n][m], Append(chan[m][n], Opened),
                Append(chan[n][m], Opened), roles[n])
        /\ \A r : Caught(TRUE, peer[m][n], peer[n][m], Append(chan[m][n], Opened),
                         Append(chan[n][m], Opened), r, roles[n])
    <2> DEFINE p == chan[n][m]
               q == chan[m][n]
               a == peer[n][m]
               b == peer[m][n]
               r1 == roles[n]
               o1 == roles[m]
    <2>1. /\ Side(FALSE, a, b, p, q, o1) /\ Side(FALSE, b, a, q, p, o1)
          /\ Side(FALSE, a, b, p, q, r1) /\ Side(FALSE, b, a, q, p, r1)
      BY <1>6 DEF Side
    <2>2. p \in Seq(Message) /\ q \in Seq(Message)
      BY <1>7
    <2> HIDE DEF p, q, a, b, r1, o1
    <2>3. /\ Side(TRUE, a, b, Append(p, Opened), Append(q, Opened), o1)
          /\ \A r : Caught(TRUE, a, b, Append(p, Opened), Append(q, Opened), r, o1)
      BY <2>1, <2>2, LinkConnects
    <2>4. /\ Side(TRUE, b, a, Append(q, Opened), Append(p, Opened), r1)
          /\ \A r : Caught(TRUE, b, a, Append(q, Opened), Append(p, Opened), r, r1)
      BY <2>1, <2>2, LinkConnects
    <2> QED
      BY <2>3, <2>4 DEF p, q, a, b, r1, o1
  <1>9. SideAt(n, m)' /\ SideAt(m, n)' /\ CaughtAt(n, m)' /\ CaughtAt(m, n)'
    <2>1. ({n, m} \in linked') = TRUE
      BY <1>3
    <2> QED
      BY <1>3, <1>4, <1>5, <1>8, <2>1 DEF SideAt, CaughtAt
  <1>10. Greets(n, chan'[n][m]) /\ Greets(m, chan'[m][n])
    <2>1. Opened \in Message /\ \A x : GreetsIn(x, Opened)
      BY DEF Opened, Message, GreetsIn
    <2> QED
      BY <1>1, <1>4, <1>7, <2>1, GreetsKept DEF ProcsInv
  <1>11. \A x, y \in Node : {x, y} # {n, m} =>
           ({x, y} \in linked' <=> {x, y} \in linked)
    BY <1>3
  <1>12. Relinked(n, m)
    BY <1>2, <1>3, <1>4, <1>9, <1>10, <1>11 DEF Relinked
  <1>13. \A S : Within(S) => chan' \in Chans(S)
    BY NetworkWithin
  <1> QED
    BY <1>12, <1>13, RelinkedAgree

LEMMA DisconnectAgree ==
  ASSUME AgreeInv, NoneRestarted, NEW n \in Node, NEW m \in Node,
         Disconnect(n, m)
  PROVE  LinksInv' /\ OutsideInv' /\ ProcsInv' /\ CoverInv'
  <1>1. TypeOK /\ LinksInv /\ OutsideInv /\ ProcsInv
    BY DEF AgreeInv
  <1>2. n # m
    BY RolesAssumption DEF Disconnect
  <1>3. /\ {n, m} \in linked /\ linked' = linked \ {{n, m}}
        /\ UNCHANGED <<settings, boot, peer, roles>>
    BY DEF Disconnect
  <1>4. PICK s \in Prefixes(chan[n][m]), t \in Prefixes(chan[m][n]) :
          chan' = [chan EXCEPT ![n][m] = Append(s, Lost),
                               ![m][n] = Append(t, Lost)]
    BY DEF Disconnect
  <1>5. /\ chan'[n][m] = Append(s, Lost) /\ chan'[m][n] = Append(t, Lost)
        /\ \A x, y \in Node : {x, y} # {n, m} => chan'[x][y] = chan[x][y]
    BY <1>1, <1>2, <1>4 DEF TypeOK
  <1>6. {m, n} = {n, m}
    OBVIOUS
  <1>7. n \in settings.nodes /\ m \in settings.nodes
    BY <1>1, <1>3 DEF OutsideInv
  <1>8. /\ Side(TRUE, peer[n][m], peer[m][n], chan[n][m], chan[m][n], roles[m])
        /\ Side(TRUE, peer[m][n], peer[n][m], chan[m][n], chan[n][m], roles[n])
    <2>1. SideAt(n, m) /\ SideAt(m, n)
      BY <1>1, <1>2 DEF LinksInv
    <2>2. ({n, m} \in linked) = TRUE
      BY <1>3
    <2> QED
      BY <1>6, <2>1, <2>2 DEF SideAt
  <1>9. /\ chan[n][m] \in Seq(Message) /\ chan[m][n] \in Seq(Message)
        /\ s \in Seq(Message) /\ t \in Seq(Message)
    BY <1>1, PrefixTypes DEF TypeOK
  <1>10. /\ Side(FALSE, peer[n][m], peer[m][n], Append(s, Lost),
                 Append(t, Lost), roles[m])
         /\ Side(FALSE, peer[m][n], peer[n][m], Append(t, Lost),
                 Append(s, Lost), roles[n])
    BY <1>8, <1>9, LinkDrops
  <1>11. SideAt(n, m)' /\ SideAt(m, n)' /\ CaughtAt(n, m)' /\ CaughtAt(m, n)'
    <2>1. ({n, m} \in linked') = FALSE
      BY <1>3
    <2> QED
      BY <1>3, <1>5, <1>6, <1>10, <2>1 DEF SideAt, CaughtAt, Caught
  <1>12. Greets(n, chan'[n][m]) /\ Greets(m, chan'[m][n])
    <2>1. Lost \in Message /\ \A x : GreetsIn(x, Lost)
      BY DEF Lost, Message, GreetsIn
    <2>2. Greets(n, s) /\ Greets(m, t)
      BY <1>1, <1>9, GreetsKept DEF ProcsInv
    <2> QED
      BY <1>5, <1>9, <2>1, <2>2, GreetsKept
  <1>13. \A x, y \in Node : {x, y} # {n, m} =>
           ({x, y} \in linked' <=> {x, y} \in linked)
    BY <1>3
  <1>14. Relinked(n, m)
    BY <1>2, <1>3, <1>5, <1>7, <1>11, <1>12, <1>13 DEF Relinked
  <1>15. \A S : Within(S) => chan' \in Chans(S)
    BY NetworkWithin
  <1> QED
    BY <1>14, <1>15, RelinkedAgree

LEMMA AgreeInit ==
  ASSUME Init \/ Formed
  PROVE  AgreeInv
  <1>1. TypeOK
    BY TypeInit
  <1>2. /\ First \in settings.nodes /\ settings.nodes \subseteq Node
        /\ First \in Node
    BY <1>1, RolesAssumption DEF TypeOK
  <1>3. /\ \A x, y \in Node : chan[x][y] = <<>>
        /\ chan = [x \in Node |-> [y \in Node |-> <<>>]]
    BY DEF Init, Formed
  <1>4. \A x \in Node : /\ roles[x].term = 0 /\ roles[x].node = First
                        /\ roles[x].boot \in {0, 1} /\ roles[x] \in Roles
    BY <1>1 DEF Init, Formed, StartRoles, FirstRoles, TypeOK
  <1>5. ASSUME NEW x \in Node, NEW y \in Node
        PROVE  /\ {x, y} \in linked =>
                    /\ peer[x][y].known /\ peer[x][y].ready
                    /\ x # y /\ {x, y} \subseteq settings.nodes
               /\ {x, y} \notin linked =>
                    ~ peer[x][y].known /\ ~ peer[x][y].ready
    <2>1. CASE Init
      BY <2>1 DEF Init, NoPeer
    <2>2. CASE Formed
      <3>1. {x, y} \in linked <=> x # y /\ {x, y} \subseteq settings.nodes
        <4> DEFINE l == {x, y}
        <4>1. l \in linked <=> /\ l \in SUBSET settings.nodes
                              /\ \E n, m \in l : n # m /\ l = {n, m}
          BY <2>2 DEF Formed
        <4>2. (\E n, m \in l : n # m /\ l = {n, m}) <=> x # y
          OBVIOUS
        <4> QED
          BY <4>1, <4>2
      <3> QED
        BY <2>2, <3>1 DEF Formed, NoPeer
    <2> QED
      BY <2>1, <2>2
  <1>6. /\ \A k : ~ Has(<<>>, k) /\ ~ Fresh(<<>>, k)
        /\ Closed(<<>>) /\ OpensFirst(<<>>)
        /\ \A x : Greets(x, <<>>)
    BY DEF Has, Fresh, Closed, OpensFirst, Greets
  <1>7. LinksInv
    <2>1. SUFFICES ASSUME NEW x \in Node, NEW y \in Node, x # y
                   PROVE  SideAt(x, y)
      BY DEF LinksInv
    <2>2. {y, x} = {x, y}
      OBVIOUS
    <2>3. chan[x][y] = <<>> /\ chan[y][x] = <<>>
      BY <1>3
    <2> QED
      BY <1>5, <1>6, <2>2, <2>3 DEF SideAt, Side, Sees, Meets
  <1>8. OutsideInv
    <2>1. \A x, y \in Node : x = y \/ ~ ({x, y} \subseteq settings.nodes)
            => {x, y} \notin linked
      BY <1>5
    <2> QED
      BY <1>3, <1>5, <2>1 DEF OutsideInv
  <1>9. ProcsInv
    <2>1. \A x, y \in Node : peer[x][y].ready => peer[x][y].boot = 1
      BY DEF Init, Formed, NoPeer
    <2>2. \A x \in Node : x = First \/ peer[x][First].ready => roles[x].boot = 1
      BY <1>2 DEF Init, Formed, StartRoles, FirstRoles, NoPeer
    <2> QED
      BY <1>3, <1>6, <2>1, <2>2 DEF ProcsInv
  <1>10. \A x, y \in Node : ~ Beats(roles[x], roles[y])
    <2>1. First \in Nat
      BY RolesAssumption
    <2> QED
      BY <1>4, <2>1 DEF Beats
  <1>11. Top(First)
    <2>1. \A x \in Node : roles[x] \in KnownTo(roles[First])
      BY <1>2, <1>4, <1>10 DEF KnownTo, Fit
    <2>2. roles \in [Node -> KnownTo(roles[First])]
      BY <1>1, <2>1 DEF TypeOK
    <2>3. \A S : <<>> \in Seq(S)
      OBVIOUS
    <2>4. chan \in Chans(KnownTo(roles[First]))
      BY <1>3, <2>3 DEF Chans
    <2>5. \A x \in Node \ {First} : CaughtAt(First, x)
      BY <1>2, <1>10 DEF CaughtAt, Caught
    <2> QED
      BY <2>2, <2>4, <2>5 DEF Top, Within
  <1> QED
    BY <1>1, <1>2, <1>7, <1>8, <1>9, <1>11 DEF AgreeInv, CoverInv

LEMMA AgreeNext ==
  ASSUME AgreeInv, [Next]_vars
  PROVE  AgreeInv'
  <1>1. TypeOK /\ TypeOK'
    BY TypeNext DEF AgreeInv
  <1>2. SUFFICES ASSUME NoneRestarted'
                 PROVE  LinksInv' /\ OutsideInv' /\ ProcsInv' /\ CoverInv'
    BY <1>1 DEF AgreeInv
  <1>3. ASSUME NEW n \in Node PROVE ~ Restart(n)
    <2>1. boot \in [Node -> Nat \ {0}] /\ boot'[n] = 1
      BY <1>1, <1>2, <1>3 DEF TypeOK, NoneRestarted
    <2> QED
      BY <1>3, <2>1 DEF Restart
  <1>4. NoneRestarted
    <2>1. boot' = boot
      BY <1>3 DEF Next, vars, Receive, UpdateRoles, ChangeRoles, Connect,
                  Disconnect
    <2> QED
      BY <1>2, <2>1 DEF NoneRestarted
  <1>5. CASE UNCHANGED vars
    <2>1. LinksInv /\ OutsideInv /\ ProcsInv /\ CoverInv
      BY <1>4 DEF AgreeInv
    <2>2. LinksInv' /\ OutsideInv' /\ ProcsInv'
      BY <1>5, <2>1 DEF vars, LinksInv, SideAt, OutsideInv, ProcsInv
    <2>3. \A s : Top(s) => Top(s)'
      BY <1>5 DEF vars, Top, Within, KnownTo, Fit, CaughtAt, Chans
    <2> QED
      BY <1>5, <2>1, <2>2, <2>3 DEF vars, CoverInv
  <1> QED
    BY <1>1, <1>3, <1>4, <1>5, ReceiveAgree, UpdateAgree, ChangeAgree,
       ConnectAgree, DisconnectAgree DEF Next

(* In a mesh that settled whole nobody waits to hear of later roles.       *)
LEMMA SettledWhole ==
  ASSUME AgreeInv, NoneRestarted, Settled, Whole
  PROVE  \E r \in Fit :
           /\ r.boot = 1 /\ r.node \in settings.nodes
           /\ \A x \in settings.nodes : roles[x] = r
  <1>1. TypeOK /\ LinksInv /\ ProcsInv /\ CoverInv
    BY DEF AgreeInv
  <1>2. settings.nodes \subseteq Node /\ First \in settings.nodes
    BY <1>1, RolesAssumption DEF TypeOK
  <1>3. PICK s \in settings.nodes : Top(s)
    BY <1>1 DEF CoverInv
  <1>4. \A x \in Node : roles[x] \in Fit /\ ~ Beats(roles[x], roles[s])
    BY <1>3 DEF Top, Within, KnownTo
  <1>5. ASSUME NEW x \in settings.nodes, x # s
        PROVE  ~ Beats(roles[s], roles[x])
    <2>1. CaughtAt(s, x) /\ SideAt(s, x)
      BY <1>1, <1>2, <1>3, <1>5 DEF Top, LinksInv
    <2>2. chan[s][x] = <<>> /\ chan[x][s] = <<>>
      BY <1>2, <1>3 DEF Settled
    <2>3. peer[s][x].ready
      BY <1>3, <1>5 DEF Whole, Ready
    <2>4. /\ \A k : ~ Has(<<>>, k) /\ ~ Fresh(<<>>, k)
          /\ \A S : ~ Tells(<<>>, S) /\ ~ Passes(<<>>, S)
      BY DEF Has, Fresh, Tells, Passes
    <2>5. {s, x} \in linked /\ Sees(peer[s][x], <<>>)
      BY <2>1, <2>2, <2>3, <2>4 DEF SideAt, Side, Sees
    <2> QED
      BY <2>1, <2>2, <2>4, <2>5 DEF CaughtAt, Caught
  <1>6. ASSUME NEW x \in settings.nodes PROVE roles[x].boot = 1
    <2>1. CASE roles[x].term # 0
      BY <1>2, <1>4, <2>1 DEF Fit
    <2>2. x = First \/ peer[x][First].ready
      BY <1>2 DEF Whole, Ready
    <2> QED
      BY <1>1, <1>2, <2>2 DEF ProcsInv
  <1>7. ASSUME NEW x \in settings.nodes PROVE roles[x] = roles[s]
    <2>1. roles[x] \in Fit /\ roles[s] \in Fit
      BY <1>2, <1>4
    <2>2. x # s => SameRoles(roles[x], roles[s])
      BY <1>2, <1>4, <1>5, <2>1, FitFacts
    <2> QED
      BY <1>6, <2>1, <2>2, FitFacts
  <1>8. roles[s].node \in settings.nodes
    BY <1>2, <1>4 DEF Fit
  <1> QED
    BY <1>2, <1>4, <1>6, <1>7, <1>8

LEMMA WholeAgrees ==
  ASSUME AgreeInv, NoneRestarted
  PROVE  RolesAgree /\ RegistryFound
  <1>1. SUFFICES ASSUME Settled, Whole
                 PROVE  /\ SameEverywhere
                        /\ settings.quorum <= Cardinality(settings.nodes)
                             => \E n \in Node : Acts(n)
    BY DEF RolesAgree, RegistryFound
  <1>2. PICK r \in Fit : /\ r.boot = 1 /\ r.node \in settings.nodes
                         /\ \A x \in settings.nodes : roles[x] = r
    BY <1>1, SettledWhole
  <1>3. SameEverywhere
    BY <1>2 DEF SameEverywhere
  <1>4. /\ settings.nodes \subseteq Node /\ settings.quorum \in Nat
        /\ IsFiniteSet(Node)
    BY RolesAssumption DEF AgreeInv, TypeOK
  <1>5. ASSUME settings.quorum <= Cardinality(settings.nodes)
        PROVE  Acts(r.node)
    <2> DEFINE n == r.node
    <2>1. n \in Node /\ roles[n] = r /\ boot[n] = 1
      BY <1>2, <1>4 DEF NoneRestarted
    <2>2. settings.nodes \subseteq InMesh(n) /\ InMesh(n) \subseteq Node
      BY <1>1, <1>2, <2>1 DEF Whole, InMesh, Ready
    <2>3. IsFiniteSet(InMesh(n))
      BY <1>4, <2>2, FS_Subset
    <2>4. /\ Cardinality(settings.nodes) <= Cardinality(InMesh(n))
          /\ Cardinality(settings.nodes) \in Nat
          /\ Cardinality(InMesh(n)) \in Nat
      BY <2>2, <2>3, FS_Subset, FS_CardinalityType
    <2>5. HasQuorum(n)
      BY <1>4, <1>5, <2>4 DEF HasQuorum
    <2> QED
      BY <1>2, <2>1, <2>5 DEF Acts
  <1> QED
    BY <1>2, <1>3, <1>4, <1>5

(* Whatever its parts decided while links were down, and however often a    *)
(* game moved the roles, as long as no node restarts a mesh that is whole   *)
(* again and settles knows one assignment of the roles and one process for  *)
(* it (handle_hello, handle_roles, handle_role_status, roles_beat): the     *)
(* node with the latest roles, over every link it has, has a handshake on   *)
(* its way that makes the other tell what it knows, or that status, or the  *)
(* roles that answer it.  (Of two nodes that restart the theorem says       *)
(* nothing, and of more RolesAgree does not.)                               *)
THEOREM RolesMeet ==
  Spec \/ FormedSpec =>
    []((Cardinality(settings.nodes) > 2 \/ NoneRestarted) => RolesAgree)
  <1>1. Init \/ Formed => AgreeInv
    BY AgreeInit
  <1>2. AgreeInv /\ [Next]_vars => AgreeInv'
    BY AgreeNext
  <1>3. AgreeInv =>
          ((Cardinality(settings.nodes) > 2 \/ NoneRestarted) => RolesAgree)
    BY WholeAgrees DEF RolesAgree
  <1> QED
    BY <1>1, <1>2, <1>3, PTL DEF Spec, FormedSpec

(* That assignment names a process that is there and acts: no loss and no   *)
(* game leaves the roles of a mesh that is large enough for its quorum with *)
(* a process that nobody has, as long as no node starts over                *)
(* (is_role_vacant, fill_vacant_roles, learn_role_boots).                   *)
THEOREM RegistryMeets ==
  Spec \/ FormedSpec => [](NoneRestarted => RegistryFound)
  <1>1. Init \/ Formed => AgreeInv
    BY AgreeInit
  <1>2. AgreeInv /\ [Next]_vars => AgreeInv'
    BY AgreeNext
  <1>3. AgreeInv => (NoneRestarted => RegistryFound)
    BY WholeAgrees
  <1> QED
    BY <1>1, <1>2, <1>3, PTL DEF Spec, FormedSpec

-----------------------------------------------------------------------------
(* One broken link of a mesh that formed, between nodes a and b.           *)

(* Node x, at neither end of the broken link, said once that it sees the    *)
(* first registry, and hears of others no more than what they see.         *)
Third(x, y) ==
  /\ {x, y} \in linked
  /\ peer[x][y].ready /\ peer[y][x].ready
  /\ peer[y][x].status = SeesFirst
  /\ chan[x][y] = <<>>
  /\ \A i \in 1 .. Len(chan[y][x]) : chan[y][x][i].kind = "status"

OneBroken(a, b) ==
  \A x \in settings.nodes \ {a, b} :
    sent[x] = SeesFirst /\ \A y \in settings.nodes \ {x} : Third(x, y)

OnlyDisconnects ==
  settings.environment \subseteq {"disconnect"} /\ Cardinality(settings.nodes) > 2

BrokenInv ==
  /\ AgreeInv
  /\ OnlyDisconnects =>
       /\ NoneRestarted
       /\ faults = 0 => Formed
       /\ faults = 1 =>
            /\ Within({FirstRoles})
            /\ \E a, b \in settings.nodes : OneBroken(a, b)

LEMMA ThirdNode ==
  ASSUME TypeOK, OnlyDisconnects, NEW a, NEW b
  PROVE  \E c \in settings.nodes : c \notin {a, b}
  <1>1. SUFFICES ASSUME settings.nodes \subseteq {a, b}
                 PROVE  FALSE
    OBVIOUS
  <1>2. IsFiniteSet({a}) /\ Cardinality({a}) = 1
    BY FS_Singleton
  <1>3. /\ IsFiniteSet({a} \cup {b})
        /\ Cardinality({a} \cup {b}) \in {1, 2}
    BY <1>2, FS_AddElement
  <1>4. {a} \cup {b} = {a, b}
    OBVIOUS
  <1>5. /\ Cardinality(settings.nodes) <= Cardinality({a, b})
        /\ Cardinality(settings.nodes) \in Nat
    BY <1>1, <1>3, <1>4, FS_Subset, FS_CardinalityType
  <1> QED
    BY <1>3, <1>4, <1>5 DEF OnlyDisconnects

(* Who sees the first registry does not take its roles; nor does who is     *)
(* told by another that it sees it.                                        *)
LEMMA NobodyTakes ==
  ASSUME TypeOK, NoneRestarted, NEW n \in Node, roles[n] = FirstRoles,
         ProcsInv,
         n = First \/ peer[n][First].ready
           \/ \E c \in Node : peer[n][c].ready /\ peer[n][c].status = SeesFirst
  PROVE  /\ ~ Takes(n)
         /\ n = First \/ peer[n][First].ready => MyStatus(n) = SeesFirst
  <1>1. /\ roles[n].term = 0 /\ roles[n].node = First /\ roles[n].boot = 1
        /\ First \in Node
    BY RolesAssumption DEF FirstRoles
  <1>2. ASSUME n = First \/ peer[n][First].ready
        PROVE  Present(n, peer[n], roles[n])
    BY <1>1, <1>2 DEF Present, Process, NoneRestarted, ProcsInv
  <1>3. ASSUME NEW c \in Node, peer[n][c].ready, peer[n][c].status = SeesFirst
        PROVE  ~ Fills(n)
    <2>1. ~ SaysLost(n, c)
      BY <1>1, <1>3 DEF SaysLost, SeesFirst, FirstRoles, SameRoles, NoStatus
    <2> QED
      BY <1>3, <2>1 DEF Fills, Ready
  <1>4. n = First \/ peer[n][First].ready => ~ Fills(n)
    BY <1>1, <1>2 DEF Fills, Vacant
  <1>5. n = First \/ peer[n][First].ready => MyStatus(n) = SeesFirst
    BY <1>1, <1>2 DEF MyStatus, StatusFor, ViewOf, SeesFirst
  <1> QED
    BY <1>3, <1>4, <1>5 DEF Takes

(* Nobody has older roles to answer or later ones to pass on.              *)
LEMMA FirstReceive ==
  ASSUME TypeOK, Within({FirstRoles}), NEW n \in Node, NEW m \in Node,
         Receive(n, m), n # m
  PROVE  /\ Within({FirstRoles})'
         /\ \A x, y \in Node : {x, y} # {n, m} => chan'[x][y] = chan[x][y]
         /\ Head(chan[m][n]).kind = "status" /\ peer[n][m].ready =>
              /\ peer'[n][m].ready
              /\ chan'[n][m] = chan[n][m] /\ chan'[m][n] = Tail(chan[m][n])
  <1> DEFINE msg == Head(chan[m][n])
             S == {FirstRoles}
  <1>1. /\ chan \in Chans(S) /\ roles[n] = FirstRoles /\ chan[m][n] # <<>>
        /\ boot \in [Node -> Nat \ {0}]
    BY DEF Within, Receive, TypeOK
  <1>2. FirstRoles' = FirstRoles
    BY DEF FirstRoles
  <1>3. \A r \in S : Adopted(n, r) \in S
    BY DEF Adopted, FirstRoles
  <1>4. Within({FirstRoles})'
    <2>1. roles' \in [Node -> S] /\ chan' \in Chans(S)
      BY <1>1, <1>3, ReceiveWithin
    <2> QED
      BY <1>2, <2>1 DEF Within, Chans
  <1>5. /\ Popped(m, n) \in Chans(S) /\ msg \in Said(S)
        /\ \A x, y \in Node : Popped(m, n)[x][y] =
             IF x = m /\ y = n THEN Tail(chan[m][n]) ELSE chan[x][y]
    BY <1>1, PoppedAt
  <1>6. ASSUME NEW x \in Said(S), NEW y \in Node, NEW z \in Node,
               ~ (y = n /\ z = m)
        PROVE  Send(Popped(m, n), n, m, x)[y][z] = Popped(m, n)[y][z]
    <2> DEFINE ch == Popped(m, n)
    <2>1. ch \in Chans(S)
      BY <1>5
    <2> HIDE DEF ch
    <2>2. Send(ch, n, m, x)[y][z] = ch[y][z]
      BY <1>6, <2>1, SendAt
    <2> QED
      BY <2>2 DEF ch
  <1>7. /\ HelloOf(roles[n], boot[n]) \in Said(S)
        /\ ~ Beats(FirstRoles, FirstRoles)
    <2>1. FirstRoles.term = 0 /\ FirstRoles.node \in Nat
      BY RolesAssumption DEF FirstRoles
    <2>2. ~ Beats(FirstRoles, FirstRoles)
      BY <2>1 DEF Beats
    <2>3. roles[n] \in S /\ boot[n] \in Nat
      BY <1>1
    <2> QED
      BY <2>2, <2>3, SaidMade
  <1>8. /\ msg.kind = "roles" => msg.roles = FirstRoles
        /\ msg.kind = "status" => msg.status.roles = FirstRoles
        /\ msg.kind = "status" => msg # Opened /\ msg # Lost
    BY <1>5, SaidFields DEF Opened, Lost
  <1>9. \/ chan' = Popped(m, n)
        \/ \E x \in Said(S) : chan' = Send(Popped(m, n), n, m, x)
    <2>1. CASE HandleOpen(n, m)
      BY <1>7, <2>1 DEF HandleOpen
    <2>2. CASE HandleLost(n, m)
      BY <2>2 DEF HandleLost
    <2>3. ASSUME HandleHello(n, m, msg), msg.kind = "hello"
          PROVE  \/ chan' = Popped(m, n)
                 \/ \E x \in Said(S) : chan' = Send(Popped(m, n), n, m, x)
      <3>1. roles'[n] \in S
        BY <1>2, <1>4 DEF Within
      <3>2. StatusOf(StatusFor(n, peer'[n], roles'[n])) \in Said(S)
        BY <3>1, StatusMade
      <3> QED
        BY <2>3, <3>2 DEF HandleHello
    <2>4. ASSUME HandleRoles(n, m, msg), msg.kind = "roles"
          PROVE  chan' = Popped(m, n)
      BY <1>1, <1>7, <1>8, <2>4 DEF HandleRoles
    <2>5. ASSUME HandleRoleStatus(n, m, msg), msg.kind = "status"
          PROVE  chan' = Popped(m, n)
      BY <1>1, <1>7, <1>8, <2>5 DEF HandleRoleStatus
    <2>6. msg # Opened /\ msg # Lost => msg.kind \in {"hello", "roles", "status"}
      BY <1>5, SaidFields
    <2> QED
      BY <2>1, <2>2, <2>3, <2>4, <2>5, <2>6 DEF Receive, HandlePacket
  <1>10. ASSUME msg.kind = "status", peer[n][m].ready
         PROVE  chan' = Popped(m, n) /\ peer'[n][m].ready
    <2>1. HandleRoleStatus(n, m, msg)
      BY <1>8, <1>10 DEF Receive, HandlePacket
    <2>2. peer \in [Node -> [Node -> Peer]]
      BY DEF TypeOK
    <2>3. chan' = Popped(m, n)
      BY <1>1, <1>7, <1>8, <1>10, <2>1 DEF HandleRoleStatus
    <2>4. peer' = [peer EXCEPT ![n][m].status = msg.status]
      BY <2>1 DEF HandleRoleStatus
    <2>5. peer'[n][m].ready
      BY <1>10, <2>2, <2>4 DEF Peer
    <2> QED
      BY <2>3, <2>5
  <1>11. ASSUME NEW x \in Node, NEW y \in Node, {x, y} # {n, m}
         PROVE  chan'[x][y] = chan[x][y]
    <2>1. ~ (x = m /\ y = n) /\ ~ (x = n /\ y = m)
      BY <1>11
    <2>2. Popped(m, n)[x][y] = chan[x][y]
      BY <1>5, <2>1
    <2>3. CASE chan' = Popped(m, n)
      BY <2>2, <2>3
    <2>4. ASSUME NEW z \in Said(S), chan' = Send(Popped(m, n), n, m, z)
          PROVE  chan'[x][y] = chan[x][y]
      BY <1>6, <2>1, <2>2, <2>4
    <2> QED
      BY <1>9, <2>3, <2>4
  <1> QED
    BY <1>4, <1>5, <1>10, <1>11

(* A broken link stays the only one: a message, an update, a link that      *)
(* comes up.                                                               *)
Broken(a, b) ==
  /\ TypeOK /\ NoneRestarted /\ OutsideInv /\ ProcsInv /\ OnlyDisconnects
  /\ Within({FirstRoles})
  /\ a \in settings.nodes /\ b \in settings.nodes
  /\ OneBroken(a, b)

LEMMA BrokenReceive ==
  ASSUME NEW a, NEW b, Broken(a, b), TypeOK', NEW n \in Node, NEW m \in Node,
         Receive(n, m)
  PROVE  Within({FirstRoles})' /\ OneBroken(a, b)'
  <1>1. /\ n # m /\ n \in settings.nodes /\ m \in settings.nodes
        /\ chan[m][n] # <<>>
    BY DEF Broken, Receive, OutsideInv
  <1>2. m \in {a, b}
    <2>1. SUFFICES ASSUME m \notin {a, b} PROVE Third(m, n)
      BY <1>1 DEF Third
    <2>2. m \in settings.nodes \ {a, b} /\ n \in settings.nodes \ {m}
      BY <1>1, <2>1
    <2> QED
      BY <2>2 DEF Broken, OneBroken
  <1>3. /\ Within({FirstRoles})'
        /\ \A x, y \in Node : {x, y} # {n, m} => chan'[x][y] = chan[x][y]
        /\ Head(chan[m][n]).kind = "status" /\ peer[n][m].ready =>
             /\ peer'[n][m].ready
             /\ chan'[n][m] = chan[n][m] /\ chan'[m][n] = Tail(chan[m][n])
    BY <1>1, FirstReceive DEF Broken
  <1>4. /\ \A x, y \in Node : (x # n \/ y # m) => peer'[x][y] = peer[x][y]
        /\ UNCHANGED <<settings, boot, linked, faults, sent>>
    BY ReceivePeer DEF Broken
  <1>5. settings.nodes \subseteq Node
    BY RolesAssumption DEF Broken, TypeOK
  <1>6. ASSUME NEW x \in settings.nodes \ {a, b}, NEW y \in settings.nodes \ {x}
        PROVE  Third(x, y)'
    <2>1. Third(x, y) /\ x \in Node /\ y \in Node
      BY <1>5, <1>6 DEF Broken, OneBroken
    <2>2. SeesFirst' = SeesFirst
      BY DEF SeesFirst, FirstRoles
    <2>3. peer'[y][x] = peer[y][x]
      BY <1>2, <1>4, <1>6, <2>1
    <2>4. ASSUME {x, y} # {n, m}
          PROVE  /\ chan'[x][y] = chan[x][y] /\ chan'[y][x] = chan[y][x]
                 /\ peer'[x][y] = peer[x][y]
      <3>1. {y, x} # {n, m} /\ (x # n \/ y # m)
        BY <2>4
      <3> QED
        BY <1>3, <1>4, <2>1, <2>4, <3>1
    <2>5. ASSUME {x, y} = {n, m}
          PROVE  /\ peer'[x][y].ready /\ chan'[x][y] = <<>>
                 /\ \A i \in 1 .. Len(chan'[y][x]) :
                      chan'[y][x][i].kind = "status"
      <3>1. x = n /\ y = m
        BY <1>2, <1>6, <2>5
      <3>2. chan[m][n] \in Seq(Message)
        BY DEF Broken, TypeOK
      <3>3. /\ Head(chan[m][n]) = chan[m][n][1] /\ Len(chan[m][n]) \in Nat \ {0}
            /\ Tail(chan[m][n]) \in Seq(Message)
            /\ Len(Tail(chan[m][n])) = Len(chan[m][n]) - 1
            /\ \A i \in 1 .. Len(Tail(chan[m][n])) :
                 Tail(chan[m][n])[i] = chan[m][n][i + 1]
        BY <1>1, <3>2, HeadTailProperties, EmptySeq, LenProperties
      <3>4. Head(chan[m][n]).kind = "status"
        BY <2>1, <3>1, <3>3 DEF Third
      <3>5. \A i \in 1 .. Len(Tail(chan[m][n])) :
              Tail(chan[m][n])[i].kind = "status"
        BY <2>1, <3>1, <3>3 DEF Third
      <3>6. peer[n][m].ready /\ chan[n][m] = <<>>
        BY <2>1, <3>1 DEF Third
      <3>7. /\ peer'[n][m].ready /\ chan'[n][m] = <<>>
            /\ chan'[m][n] = Tail(chan[m][n])
        BY <1>3, <3>4, <3>6
      <3> QED
        BY <3>1, <3>5, <3>7
    <2> QED
      BY <1>4, <2>1, <2>2, <2>3, <2>4, <2>5 DEF Third
  <1>7. \A x \in settings.nodes \ {a, b} : sent'[x] = SeesFirst'
    BY <1>4 DEF Broken, OneBroken, SeesFirst, FirstRoles
  <1> QED
    BY <1>3, <1>4, <1>6, <1>7 DEF OneBroken

LEMMA BrokenUpdate ==
  ASSUME NEW a, NEW b, Broken(a, b), NEW n \in Node, UpdateRoles(n)
  PROVE  Within({FirstRoles})' /\ OneBroken(a, b)'
  <1>1. /\ n \in settings.nodes
        /\ MyStatus(n) # sent[n] \/ Takes(n)
        /\ sent' = [sent EXCEPT ![n] = MyStatus(n)]
        /\ UNCHANGED <<settings, boot, peer, linked, faults>>
    BY DEF UpdateRoles
  <1>2. /\ TypeOK /\ NoneRestarted /\ ProcsInv /\ roles[n] = FirstRoles
        /\ settings.nodes \subseteq Node /\ First \in settings.nodes
    BY RolesAssumption DEF Broken, TypeOK, Within
  <1>3. PICK c \in settings.nodes : c \notin {a, b}
    BY ThirdNode DEF Broken
  <1>4. ASSUME n \notin {a, b} PROVE n = First \/ peer[n][First].ready
    BY <1>1, <1>2, <1>4 DEF Broken, OneBroken, Third
  <1>5. n # c => peer[n][c].ready /\ peer[n][c].status = SeesFirst
    BY <1>1, <1>3 DEF Broken, OneBroken, Third
  <1>6. ~ Takes(n)
    BY <1>2, <1>3, <1>4, <1>5, NobodyTakes
  <1>7. n \in {a, b}
    <2>1. SUFFICES ASSUME n \notin {a, b} PROVE MyStatus(n) = sent[n]
      BY <1>1, <1>6
    <2>2. sent[n] = SeesFirst
      BY <1>1, <2>1 DEF Broken, OneBroken
    <2> QED
      BY <1>2, <1>4, <2>1, <2>2, NobodyTakes
  <1>8. FirstRoles' = FirstRoles /\ SeesFirst' = SeesFirst
    BY DEF SeesFirst, FirstRoles
  <1>9. Within({FirstRoles})'
    <2>1. roles' \in [Node -> {FirstRoles}] /\ chan' \in Chans({FirstRoles})
      BY <1>6, UpdateWithin DEF Broken
    <2> QED
      BY <1>8, <2>1 DEF Within, Chans
  <1> DEFINE news == StatusOf(MyStatus(n))
  <1>10. chan \in Chans(Roles) /\ news \in Message /\ news.kind = "status"
    BY <1>2, TypeWithin, MyStatusType DEF Within, Message, StatusOf
  <1>11. chan' = chan \/ chan' = SendReady(chan, n, news)
    BY <1>6 DEF UpdateRoles
  <1> HIDE DEF news
  <1>12. Spread(chan, SendReady(chan, n, news), n, news)
    BY <1>2, <1>10, Spreads DEF Broken
  <1>13. /\ \A x, y \in Node : x # n => chan'[x][y] = chan[x][y]
         /\ \A y \in Node : \/ chan'[n][y] = chan[n][y]
                            \/ chan'[n][y] = Append(chan[n][y], news)
    BY <1>11, <1>12 DEF Spread
  <1>14. ASSUME NEW x \in settings.nodes \ {a, b},
                NEW y \in settings.nodes \ {x}
         PROVE  Third(x, y)'
    <2>1. Third(x, y) /\ x \in Node /\ y \in Node /\ x # n
      BY <1>2, <1>7, <1>14 DEF Broken, OneBroken
    <2>2. chan'[x][y] = <<>>
      BY <1>13, <2>1 DEF Third
    <2>3. \A i \in 1 .. Len(chan'[y][x]) : chan'[y][x][i].kind = "status"
      <3>1. CASE chan'[y][x] = chan[y][x]
        BY <2>1, <3>1 DEF Third
      <3>2. CASE chan'[y][x] = Append(chan[y][x], news)
        <4> DEFINE q == chan[y][x]
                   q2 == chan'[y][x]
        <4>1. q \in Seq(Message)
          BY <1>2, <2>1 DEF TypeOK
        <4>2. /\ Len(q) \in Nat /\ Len(q2) = Len(q) + 1
              /\ q2[Len(q) + 1] = news
              /\ \A i \in 1 .. Len(q) : q2[i] = q[i]
          BY <1>10, <3>2, <4>1, AppendProperties, LenProperties
        <4>3. \A i \in 1 .. Len(q) : q[i].kind = "status"
          BY <2>1 DEF Third
        <4> HIDE DEF q, q2
        <4>4. \A i \in 1 .. Len(q2) : q2[i].kind = "status"
          BY <1>10, <4>2, <4>3
        <4> QED
          BY <4>4 DEF q2
      <3> QED
        BY <1>13, <2>1, <3>1, <3>2
    <2> QED
      BY <1>1, <1>8, <2>1, <2>2, <2>3 DEF Third
  <1>15. \A x \in settings.nodes \ {a, b} : sent'[x] = SeesFirst'
    BY <1>1, <1>2, <1>7, <1>8 DEF Broken, OneBroken, TypeOK
  <1> QED
    BY <1>1, <1>9, <1>14, <1>15 DEF OneBroken

LEMMA BrokenConnect ==
  ASSUME NEW a, NEW b, Broken(a, b), NEW n \in Node, NEW m \in Node,
         Connect(n, m)
  PROVE  Within({FirstRoles})' /\ OneBroken(a, b)'
  <1>1. /\ n \in settings.nodes /\ m \in settings.nodes
        /\ {n, m} \notin linked /\ linked' = linked \cup {{n, m}}
        /\ UNCHANGED <<settings, boot, roles, peer, sent, faults>>
        /\ chan' = [chan EXCEPT ![n][m] = Append(@, Opened),
                                ![m][n] = Append(@, Opened)]
    BY DEF Connect
  <1>2. n # m
    BY RolesAssumption DEF Connect
  <1>3. n \in {a, b} /\ m \in {a, b}
    <2>1. {m, n} = {n, m}
      OBVIOUS
    <2> QED
      BY <1>1, <1>2, <2>1 DEF Broken, OneBroken, Third
  <1>4. FirstRoles' = FirstRoles /\ SeesFirst' = SeesFirst
    BY DEF SeesFirst, FirstRoles
  <1>5. Within({FirstRoles})'
    <2>1. roles' \in [Node -> {FirstRoles}] /\ chan' \in Chans({FirstRoles})
      BY NetworkWithin DEF Broken
    <2> QED
      BY <1>4, <2>1 DEF Within, Chans
  <1>6. \A x, y \in Node : ~ ({x, y} \subseteq {a, b}) =>
          chan'[x][y] = chan[x][y]
    BY <1>1, <1>3 DEF Broken, TypeOK
  <1>7. settings.nodes \subseteq Node
    BY RolesAssumption DEF Broken, TypeOK
  <1>8. ASSUME NEW x \in settings.nodes \ {a, b}, NEW y \in settings.nodes \ {x}
        PROVE  Third(x, y)'
    <2>1. Third(x, y) /\ x \in Node /\ y \in Node
      BY <1>7, <1>8 DEF Broken, OneBroken
    <2>2. chan'[x][y] = chan[x][y] /\ chan'[y][x] = chan[y][x]
      BY <1>6, <1>8, <2>1
    <2> QED
      BY <1>1, <1>4, <2>1, <2>2 DEF Third
  <1> QED
    BY <1>1, <1>4, <1>5, <1>8 DEF OneBroken, Broken

(* In a mesh that formed nothing happens until a link breaks.              *)
LEMMA FormedRests ==
  ASSUME AgreeInv, NoneRestarted, Formed, OnlyDisconnects,
         NEW n \in Node, NEW m \in Node
  PROVE  ~ Receive(n, m) /\ ~ UpdateRoles(n) /\ ~ Connect(n, m)
  <1>1. /\ TypeOK /\ ProcsInv /\ First \in settings.nodes
        /\ settings.nodes \subseteq Node
    BY RolesAssumption DEF AgreeInv, TypeOK
  <1>2. ~ Receive(n, m)
    BY DEF Formed, Receive
  <1>3. ~ UpdateRoles(n)
    <2>1. SUFFICES ASSUME n \in settings.nodes
                   PROVE  MyStatus(n) = sent[n] /\ ~ Takes(n)
      BY DEF UpdateRoles
    <2>2. roles[n] = FirstRoles /\ sent[n] = SeesFirst
      BY DEF Formed
    <2>3. n = First \/ peer[n][First].ready
      BY <1>1, <2>1 DEF Formed
    <2> QED
      BY <1>1, <2>2, <2>3, NobodyTakes
  <1>4. ~ Connect(n, m)
    <2>1. SUFFICES ASSUME n \in settings.nodes, m \in settings.nodes, n # m
                   PROVE  {n, m} \in linked
      BY RolesAssumption DEF Connect
    <2> DEFINE l == {n, m}
    <2>2. l \in SUBSET settings.nodes /\ \E x, y \in l : x # y /\ l = {x, y}
      BY <2>1
    <2> HIDE DEF l
    <2>3. l \in linked
      BY <2>2 DEF Formed
    <2> QED
      BY <2>3 DEF l
  <1> QED
    BY <1>2, <1>3, <1>4

LEMMA FormedBreaks ==
  ASSUME AgreeInv, NoneRestarted, Formed, NEW n \in Node, NEW m \in Node,
         Disconnect(n, m)
  PROVE  /\ Within({FirstRoles})'
         /\ n \in settings.nodes /\ m \in settings.nodes
         /\ OneBroken(n, m)'
  <1>1. /\ {n, m} \in linked /\ linked' = linked \ {{n, m}}
        /\ UNCHANGED <<settings, boot, roles, peer, sent>>
    BY DEF Disconnect
  <1>2. TypeOK /\ settings.nodes \subseteq Node
    BY RolesAssumption DEF AgreeInv, TypeOK
  <1>3. n \in settings.nodes /\ m \in settings.nodes
    BY <1>1 DEF AgreeInv, OutsideInv
  <1>4. FirstRoles' = FirstRoles /\ SeesFirst' = SeesFirst
    BY DEF SeesFirst, FirstRoles
  <1>5. Within({FirstRoles})'
    <2>1. \A S : <<>> \in Seq(S)
      OBVIOUS
    <2>2. Within({FirstRoles})
      BY <2>1 DEF Formed, Within, Chans
    <2>3. roles' \in [Node -> {FirstRoles}] /\ chan' \in Chans({FirstRoles})
      BY <2>2, NetworkWithin
    <2> QED
      BY <1>4, <2>3 DEF Within, Chans
  <1>6. PICK s \in Prefixes(chan[n][m]), t \in Prefixes(chan[m][n]) :
          chan' = [chan EXCEPT ![n][m] = Append(s, Lost),
                               ![m][n] = Append(t, Lost)]
    BY DEF Disconnect
  <1>7. \A x, y \in Node : ~ ({x, y} \subseteq {n, m}) =>
          chan'[x][y] = <<>>
    BY <1>2, <1>6 DEF TypeOK, Formed
  <1>8. ASSUME NEW x \in settings.nodes \ {n, m}, NEW y \in settings.nodes \ {x}
        PROVE  Third(x, y)'
    <2> DEFINE l == {x, y}
    <2>1. /\ l \in SUBSET settings.nodes /\ l # {n, m}
          /\ \E u, v \in l : u # v /\ l = {u, v}
      BY <1>8
    <2> HIDE DEF l
    <2>2. l \in linked'
      BY <1>1, <2>1 DEF Formed
    <2>3. chan'[x][y] = <<>> /\ chan'[y][x] = <<>>
      BY <1>2, <1>7, <1>8
    <2>4. /\ peer[x][y].ready /\ peer[y][x].ready
          /\ peer[y][x].status = SeesFirst
      BY <1>2, <1>8 DEF Formed
    <2> QED
      BY <1>1, <1>4, <2>2, <2>3, <2>4 DEF Third, l
  <1>9. \A x \in settings.nodes \ {n, m} : sent'[x] = SeesFirst'
    BY <1>1, <1>2, <1>4 DEF Formed
  <1> QED
    BY <1>1, <1>3, <1>5, <1>8, <1>9 DEF OneBroken

LEMMA BrokenNext ==
  ASSUME BrokenInv, [Next]_vars
  PROVE  BrokenInv'
  <1>1. AgreeInv /\ AgreeInv' /\ TypeOK /\ TypeOK'
    BY AgreeNext DEF BrokenInv, AgreeInv
  <1>2. settings' = settings /\ (OnlyDisconnects' <=> OnlyDisconnects)
    BY DEF Next, vars, Receive, UpdateRoles, ChangeRoles, Connect, Disconnect,
           Restart, OnlyDisconnects
  <1>3. SUFFICES ASSUME OnlyDisconnects
                 PROVE  /\ NoneRestarted'
                        /\ faults' = 0 => Formed'
                        /\ faults' = 1 =>
                             /\ Within({FirstRoles})'
                             /\ \E a, b \in settings.nodes : OneBroken(a, b)'
    BY <1>1, <1>2 DEF BrokenInv
  <1>4. /\ NoneRestarted /\ OutsideInv /\ ProcsInv
        /\ faults = 0 => Formed
        /\ faults = 1 => /\ Within({FirstRoles})
                         /\ \E a, b \in settings.nodes : OneBroken(a, b)
    BY <1>3 DEF BrokenInv, AgreeInv
  <1>5. \A n \in Node : ~ ChangeRoles(n) /\ ~ Restart(n)
    BY <1>3 DEF ChangeRoles, Restart, Fault, OnlyDisconnects
  <1>6. NoneRestarted'
    <2>1. boot' = boot
      BY <1>5 DEF Next, vars, Receive, UpdateRoles, Connect, Disconnect
    <2> QED
      BY <1>4, <2>1 DEF NoneRestarted
  <1>7. faults \in Nat
    BY <1>1, RolesAssumption DEF TypeOK
  <1>8. CASE \E n, m \in Node : Disconnect(n, m)
    <2>1. PICK n \in Node, m \in Node : Disconnect(n, m)
      BY <1>8
    <2>2. faults' = faults + 1
      BY <2>1 DEF Disconnect, Fault
    <2>3. faults' = 1 => Formed
      BY <1>4, <1>7, <2>2
    <2> QED
      BY <1>1, <1>4, <1>6, <1>7, <2>1, <2>2, <2>3, FormedBreaks
  <1>9. CASE \/ \E n, m \in Node : Receive(n, m)
             \/ \E n \in Node : UpdateRoles(n)
             \/ \E n, m \in Node : Connect(n, m)
    <2>1. faults' = faults
      BY <1>9 DEF Receive, UpdateRoles, Connect
    <2>2. faults # 0
      BY <1>1, <1>3, <1>4, <1>9, FormedRests
    <2>3. ASSUME faults = 1
          PROVE  /\ Within({FirstRoles})'
                 /\ \E a, b \in settings.nodes : OneBroken(a, b)'
      <3>1. PICK a \in settings.nodes, b \in settings.nodes : OneBroken(a, b)
        BY <1>4, <2>3
      <3>2. Broken(a, b)
        BY <1>1, <1>3, <1>4, <2>3, <3>1 DEF Broken
      <3>3. Within({FirstRoles})' /\ OneBroken(a, b)'
        BY <1>1, <1>9, <3>2, BrokenReceive, BrokenUpdate, BrokenConnect
      <3> QED
        BY <3>3
    <2> QED
      BY <1>6, <2>1, <2>2, <2>3
  <1>10. CASE UNCHANGED vars
    <2>1. faults' = faults
      BY <1>10 DEF vars
    <2>2. Formed => Formed'
      BY <1>10 DEF vars, Formed, FirstRoles, SeesFirst
    <2>3. Within({FirstRoles}) => Within({FirstRoles})'
      BY <1>10 DEF vars, Within, Chans, FirstRoles
    <2>4. \A a, b : OneBroken(a, b) => OneBroken(a, b)'
      <3>1. SeesFirst' = SeesFirst
        BY DEF SeesFirst, FirstRoles
      <3>2. \A x, y : Third(x, y)' <=> Third(x, y)
        BY <1>10, <3>1 DEF vars, Third
      <3> QED
        BY <1>10, <3>1, <3>2 DEF vars, OneBroken
    <2> QED
      BY <1>4, <1>6, <2>1, <2>2, <2>3, <2>4
  <1> QED
    BY <1>5, <1>8, <1>9, <1>10 DEF Next

(* One broken link of a mesh of three or more that formed moves no role,    *)
(* whichever link it is, whatever of its last messages is lost and however  *)
(* the link comes back: the node that lost the registry is told by a third  *)
(* that it sees it (fill_vacant_roles).                                     *)
THEOREM BrokenLinkHeld == FormedSpec => []BrokenLinkKeepsRoles
  <1>1. Formed => BrokenInv
    BY AgreeInit DEF BrokenInv, Formed, NoneRestarted
  <1>2. BrokenInv /\ [Next]_vars => BrokenInv'
    BY BrokenNext
  <1>3. BrokenInv => BrokenLinkKeepsRoles
    <2>1. SUFFICES ASSUME BrokenInv, OnlyDisconnects, faults <= 1,
                          NEW n \in Node
                   PROVE  roles[n].term = 0
      BY DEF BrokenLinkKeepsRoles, OnlyDisconnects
    <2>2. faults \in {0, 1}
      BY <2>1, RolesAssumption DEF BrokenInv, AgreeInv, TypeOK
    <2>3. roles[n] = FirstRoles
      BY <2>1, <2>2 DEF BrokenInv, Formed, Within
    <2> QED
      BY <2>3 DEF FirstRoles
  <1> QED
    BY <1>1, <1>2, <1>3, PTL DEF FormedSpec

=============================================================================
