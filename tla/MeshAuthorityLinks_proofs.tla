--------------------- MODULE MeshAuthorityLinks_proofs ---------------------
(***************************************************************************)
(* Whatever the links of MeshAuthority do, and in whatever order the marks *)
(* of a connection, of its handshakes and of its loss are handled at its   *)
(* two ends: the registry's members and the nodes it saw leave stay apart, *)
(* no object stays with a node that left, and a pending transfer only      *)
(* waits for nodes that are there.                                         *)
(*                                                                         *)
(* The invariant LinkInv says which marks can be on their way in the two   *)
(* channels of a node, given what each end believes of the link (Shape).   *)
(***************************************************************************)
EXTENDS MeshAuthority_proofs

-----------------------------------------------------------------------------
(* Queues: what is in one, and the order of its marks.                     *)

Items(s) == {s[i] : i \in DOMAIN s}

Kinds(s) == {m.kind : m \in Items(s)}

Marks == {"open", "hello", "lost"}

(* The loss of a link comes first, and the link is there again before the  *)
(* handshake.                                                              *)
Ordered(s) ==
  \A i, j \in DOMAIN s : i < j =>
    /\ s[j].kind # "lost"
    /\ s[j].kind = "open" => s[i].kind = "lost"
    /\ s[j].kind = "hello" => s[i].kind # "hello"

(* What is in a queue after a message is added to it, or taken from it.    *)
LEMMA ItemsAppend ==
  ASSUME NEW S, NEW s \in Seq(S), NEW m \in S
  PROVE  Items(Append(s, m)) = Items(s) \cup {m}
  <1>1. /\ Append(s, m) \in Seq(S) /\ Len(Append(s, m)) = Len(s) + 1
        /\ \A i \in 1 .. Len(s) : Append(s, m)[i] = s[i]
        /\ Append(s, m)[Len(s) + 1] = m
    BY AppendProperties
  <1>2. /\ Len(s) \in Nat /\ DOMAIN s = 1 .. Len(s)
        /\ DOMAIN Append(s, m) = 1 .. (Len(s) + 1)
    BY <1>1, LenProperties
  <1>3. 1 .. (Len(s) + 1) = 1 .. Len(s) \cup {Len(s) + 1}
    BY <1>2
  <1> QED
    BY <1>1, <1>2, <1>3 DEF Items

LEMMA ItemsPop ==
  ASSUME NEW S, NEW s \in Seq(S), s # <<>>
  PROVE  Items(s) = {Head(s)} \cup Items(Tail(s))
  <1>1. /\ Tail(s) \in Seq(S) /\ Len(Tail(s)) = Len(s) - 1
        /\ \A i \in 1 .. Len(Tail(s)) : Tail(s)[i] = s[i + 1]
    BY HeadTailProperties
  <1>2. /\ Len(s) \in Nat \ {0} /\ DOMAIN s = 1 .. Len(s)
        /\ DOMAIN Tail(s) = 1 .. (Len(s) - 1)
    BY <1>1, LenProperties, EmptySeq
  <1>3. Head(s) = s[1]
    OBVIOUS
  <1>4. \A i \in 1 .. Len(s) :
          i = 1 \/ (i - 1 \in DOMAIN Tail(s) /\ s[i] = Tail(s)[i - 1])
    BY <1>1, <1>2
  <1>5. \A i \in DOMAIN Tail(s) : i + 1 \in DOMAIN s /\ Tail(s)[i] = s[i + 1]
    BY <1>1, <1>2
  <1>6. ASSUME NEW m \in Items(s) PROVE m = Head(s) \/ m \in Items(Tail(s))
    <2>1. PICK i \in 1 .. Len(s) : m = s[i]
      BY <1>2 DEF Items
    <2>2. i = 1 \/ (i - 1 \in DOMAIN Tail(s) /\ s[i] = Tail(s)[i - 1])
      BY <1>4
    <2> QED
      BY <1>3, <2>1, <2>2 DEF Items
  <1>7. ASSUME NEW m \in Items(Tail(s)) PROVE m \in Items(s)
    BY <1>5 DEF Items
  <1>8. Head(s) \in Items(s)
    BY <1>2, <1>3 DEF Items
  <1> QED
    BY <1>6, <1>7, <1>8

LEMMA KindsAppend ==
  ASSUME NEW S, NEW s \in Seq(S), NEW m \in S
  PROVE  Kinds(Append(s, m)) = Kinds(s) \cup {m.kind}
  BY ItemsAppend DEF Kinds

LEMMA KindsPop ==
  ASSUME NEW S, NEW s \in Seq(S), s # <<>>
  PROVE  Kinds(s) = {Head(s).kind} \cup Kinds(Tail(s))
  BY ItemsPop DEF Kinds

LEMMA KindsMark ==
  ASSUME NEW m
  PROVE  Kinds(<<>>) = {} /\ Kinds(<<m>>) = {m.kind}
  <1>1. Items(<<>>) = {} /\ Items(<<m>>) = {m}
    BY DEF Items
  <1> QED
    BY <1>1 DEF Kinds

(* The order of the marks, after a message is taken or added.              *)
LEMMA OrderedPop ==
  ASSUME NEW S, NEW s \in Seq(S), s # <<>>, Ordered(s)
  PROVE  /\ Ordered(Tail(s))
         /\ "lost" \notin Kinds(Tail(s))
         /\ "open" \in Kinds(Tail(s)) => Head(s).kind = "lost"
         /\ "hello" \in Kinds(Tail(s)) => Head(s).kind # "hello"
  <1>1. /\ Tail(s) \in Seq(S) /\ Len(Tail(s)) = Len(s) - 1
        /\ \A i \in 1 .. Len(Tail(s)) : Tail(s)[i] = s[i + 1]
    BY HeadTailProperties
  <1>2. /\ Len(s) \in Nat \ {0} /\ DOMAIN s = 1 .. Len(s)
        /\ DOMAIN Tail(s) = 1 .. (Len(s) - 1)
    BY <1>1, LenProperties, EmptySeq
  <1>3. Head(s) = s[1]
    OBVIOUS
  <1>4. \A i \in 1 .. (Len(s) - 1) :
          Tail(s)[i] = s[i + 1] /\ i + 1 \in DOMAIN s /\ 1 \in DOMAIN s /\ 1 < i + 1
    BY <1>1, <1>2
  <1>5. \A i, j \in 1 .. (Len(s) - 1) : i < j => i + 1 < j + 1
    BY <1>2
  <1>6. Ordered(Tail(s))
    BY <1>2, <1>4, <1>5 DEF Ordered
  <1>7. \A i \in DOMAIN Tail(s) :
          /\ Tail(s)[i].kind # "lost"
          /\ Tail(s)[i].kind = "open" => Head(s).kind = "lost"
          /\ Tail(s)[i].kind = "hello" => Head(s).kind # "hello"
    BY <1>2, <1>3, <1>4 DEF Ordered
  <1> QED
    BY <1>6, <1>7 DEF Kinds, Items

LEMMA OrderedAppend ==
  ASSUME NEW S, NEW s \in Seq(S), NEW m \in S, Ordered(s),
         \/ m.kind \notin Marks
         \/ m.kind = "open" /\ Kinds(s) \subseteq {"lost"}
         \/ m.kind = "hello" /\ "hello" \notin Kinds(s)
  PROVE  Ordered(Append(s, m))
  <1>1. /\ Append(s, m) \in Seq(S) /\ Len(Append(s, m)) = Len(s) + 1
        /\ \A i \in 1 .. Len(s) : Append(s, m)[i] = s[i]
        /\ Append(s, m)[Len(s) + 1] = m
    BY AppendProperties
  <1>2. /\ Len(s) \in Nat /\ DOMAIN s = 1 .. Len(s)
        /\ DOMAIN Append(s, m) = 1 .. (Len(s) + 1)
    BY <1>1, LenProperties
  <1> SUFFICES ASSUME NEW i \in DOMAIN Append(s, m),
                      NEW j \in DOMAIN Append(s, m), i < j
               PROVE  /\ Append(s, m)[j].kind # "lost"
                      /\ Append(s, m)[j].kind = "open"
                           => Append(s, m)[i].kind = "lost"
                      /\ Append(s, m)[j].kind = "hello"
                           => Append(s, m)[i].kind # "hello"
    BY DEF Ordered
  <1>3. i \in DOMAIN s /\ Append(s, m)[i] = s[i]
    BY <1>1, <1>2
  <1>4. CASE j \in DOMAIN s
    <2>1. Append(s, m)[j] = s[j]
      BY <1>1, <1>2, <1>4
    <2> QED
      BY <1>3, <1>4, <2>1 DEF Ordered
  <1>5. CASE j \notin DOMAIN s
    <2>1. Append(s, m)[j] = m
      BY <1>1, <1>2, <1>5
    <2>2. s[i].kind \in Kinds(s)
      BY <1>3 DEF Kinds, Items
    <2> QED
      BY <1>3, <2>1, <2>2 DEF Marks
  <1> QED
    BY <1>4, <1>5

LEMMA OrderedShort ==
  ASSUME NEW m
  PROVE  Ordered(<<>>) /\ Ordered(<<m>>)
  BY DEF Ordered

(* The head of a queue is in it, and stays when a message is added.        *)
LEMMA HeadKind ==
  ASSUME NEW S, NEW s \in Seq(S), s # <<>>, NEW m \in S
  PROVE  /\ Head(s) \in Items(s) /\ Head(s).kind \in Kinds(s)
         /\ Head(Append(s, m)) = Head(s) /\ Append(s, m) # <<>>
  BY ItemsPop, HeadTailAppend, AppendProperties DEF Kinds

-----------------------------------------------------------------------------
(* A link, seen from its two ends.  u and d are the kinds of the messages  *)
(* on their way to the registry and to the node, link says whether it is   *)
(* up, member whether the registry has the node as a member, and reached   *)
(* whether the node has the registry within reach.                         *)

Shape(u, d, link, member, reached) ==
  /\ ~ link => /\ u \subseteq {"lost"} /\ d \subseteq {"lost"}
               /\ member => "lost" \in u
               /\ reached => "lost" \in d
  /\ link /\ "open" \in u => /\ "hello" \notin d
                             /\ member => "lost" \in u
                             /\ reached => "lost" \in d
  /\ link /\ "open" \notin u => /\ "lost" \notin u
                                /\ "hello" \in d \/ (reached /\ "open" \notin d)
  /\ link /\ "open" \in d => /\ "hello" \notin u
                             /\ member => "lost" \in u
                             /\ reached => "lost" \in d
  /\ link /\ "open" \notin d => /\ "lost" \notin d
                                /\ "hello" \in u \/ (member /\ "lost" \notin u)
  /\ "hello" \in u => (member => "lost" \in u)
  /\ (member => "lost" \in u) => d \subseteq Marks

(* The registry counts on the node: it is a member, and no loss of its link*)
(* is still to be handled.                                                 *)
Counted(u, member) == member /\ "lost" \notin u

(* p and q are the channels to the registry and to the node.               *)
LinkOK(p, q, link, member, reached) ==
  /\ Ordered(p) /\ Ordered(q)
  /\ Shape(Kinds(p), Kinds(q), link, member, reached)
  /\ Counted(Kinds(p), member) /\ ~ reached =>
       q # <<>> /\ Head(q).kind = "hello"

(* What follows for a node the registry counts on: its link is up, and no  *)
(* mark is on its way but, at first, the registry's handshake.             *)
LEMMA CountedLink ==
  ASSUME NEW u, NEW d, NEW link \in BOOLEAN, NEW member \in BOOLEAN,
         NEW reached \in BOOLEAN,
         Shape(u, d, link, member, reached), Counted(u, member)
  PROVE  /\ link
         /\ u \cap Marks = {}
         /\ "lost" \notin d /\ "open" \notin d
  BY DEF Shape, Counted, Marks

(* A message that is no mark, to a node the registry counts on.            *)
LEMMA LinkTold ==
  ASSUME NEW S, NEW p \in Seq(S), NEW q \in Seq(S), NEW m \in S,
         NEW link \in BOOLEAN, NEW member \in BOOLEAN, NEW reached \in BOOLEAN,
         LinkOK(p, q, link, member, reached), Counted(Kinds(p), member),
         m.kind \notin Marks
  PROVE  LinkOK(p, Append(q, m), link, member, reached)
  <1>1. Ordered(Append(q, m))
    BY OrderedAppend DEF LinkOK
  <1>2. Kinds(Append(q, m)) = Kinds(q) \cup {m.kind}
    BY KindsAppend
  <1>3. Shape(Kinds(p), Kinds(q) \cup {m.kind}, link, member, reached)
    <2>1. link
      BY CountedLink DEF LinkOK
    <2> QED
      BY <2>1 DEF LinkOK, Shape, Counted, Marks
  <1>4. ~ reached => Append(q, m) # <<>> /\ Head(Append(q, m)).kind = "hello"
    BY HeadKind DEF LinkOK
  <1> QED
    BY <1>1, <1>2, <1>3, <1>4 DEF LinkOK

(* A message that is no mark, from a node whose link is up.                *)
LEMMA LinkAsked ==
  ASSUME NEW S, NEW p \in Seq(S), NEW q \in Seq(S), NEW m \in S,
         NEW member \in BOOLEAN, NEW reached \in BOOLEAN,
         LinkOK(p, q, TRUE, member, reached), m.kind \notin Marks
  PROVE  LinkOK(Append(p, m), q, TRUE, member, reached)
  <1>1. Ordered(Append(p, m))
    BY OrderedAppend DEF LinkOK
  <1>2. Kinds(Append(p, m)) = Kinds(p) \cup {m.kind}
    BY KindsAppend
  <1>3. Shape(Kinds(p) \cup {m.kind}, Kinds(q), TRUE, member, reached)
    BY DEF LinkOK, Shape, Marks
  <1> QED
    BY <1>1, <1>2, <1>3 DEF LinkOK, Counted, Marks

(* One end takes a message that is no mark.                                *)
LEMMA LinkTaken ==
  ASSUME NEW S, NEW p \in Seq(S), NEW q \in Seq(S),
         NEW link \in BOOLEAN, NEW member \in BOOLEAN, NEW reached \in BOOLEAN,
         LinkOK(p, q, link, member, reached)
  PROVE  /\ p # <<>> /\ Head(p).kind \notin Marks =>
              LinkOK(Tail(p), q, link, member, reached)
         /\ q # <<>> /\ Head(q).kind \notin Marks =>
              LinkOK(p, Tail(q), link, member, reached)
  <1>1. ASSUME p # <<>>, Head(p).kind \notin Marks
        PROVE  LinkOK(Tail(p), q, link, member, reached)
    <2>1. Ordered(Tail(p)) /\ Kinds(p) = {Head(p).kind} \cup Kinds(Tail(p))
      BY <1>1, OrderedPop, KindsPop DEF LinkOK
    <2>2. Shape(Kinds(Tail(p)), Kinds(q), link, member, reached)
      BY <1>1, <2>1 DEF LinkOK, Shape, Marks
    <2>3. Counted(Kinds(Tail(p)), member) => Counted(Kinds(p), member)
      BY <1>1, <2>1 DEF Counted, Marks
    <2> QED
      BY <2>1, <2>2, <2>3 DEF LinkOK
  <1>2. ASSUME q # <<>>, Head(q).kind \notin Marks
        PROVE  LinkOK(p, Tail(q), link, member, reached)
    <2>1. Ordered(Tail(q)) /\ Kinds(q) = {Head(q).kind} \cup Kinds(Tail(q))
      BY <1>2, OrderedPop, KindsPop DEF LinkOK
    <2>2. Shape(Kinds(p), Kinds(Tail(q)), link, member, reached)
      BY <1>2, <2>1 DEF LinkOK, Shape, Marks
    <2>3. ~ (Counted(Kinds(p), member) /\ ~ reached)
      BY <1>2 DEF LinkOK, Marks
    <2> QED
      BY <2>1, <2>2, <2>3 DEF LinkOK
  <1> QED
    BY <1>1, <1>2

(* The registry handles a mark of the node: the loss of the link, the link *)
(* being there, which it answers with its handshake, and the handshake.    *)
LEMMA LinkLost ==
  ASSUME NEW p \in Seq(Message), NEW q \in Seq(Message), p # <<>>,
         NEW link \in BOOLEAN, NEW member \in BOOLEAN, NEW reached \in BOOLEAN,
         LinkOK(p, q, link, member, reached), Head(p).kind = "lost"
  PROVE  LinkOK(Tail(p), q, link, FALSE, reached)
  <1>1. /\ Ordered(Tail(p)) /\ "lost" \notin Kinds(Tail(p))
        /\ Kinds(p) = {"lost"} \cup Kinds(Tail(p))
    BY OrderedPop, KindsPop DEF LinkOK
  <1>2. Shape(Kinds(Tail(p)), Kinds(q), link, FALSE, reached)
    BY <1>1 DEF LinkOK, Shape
  <1> QED
    BY <1>1, <1>2 DEF LinkOK, Counted

LEMMA LinkOpened ==
  ASSUME NEW S, NEW p \in Seq(S), NEW q \in Seq(S), p # <<>>, Hello \in S,
         NEW link \in BOOLEAN, NEW member \in BOOLEAN, NEW reached \in BOOLEAN,
         LinkOK(p, q, link, member, reached), Head(p).kind = "open"
  PROVE  link /\ LinkOK(Tail(p), Append(q, Hello), link, member, reached)
  <1>1. /\ Ordered(Tail(p)) /\ "lost" \notin Kinds(Tail(p))
        /\ "open" \notin Kinds(Tail(p))
        /\ Kinds(p) = {"open"} \cup Kinds(Tail(p))
    BY OrderedPop, KindsPop DEF LinkOK
  <1>2. link /\ ~ member /\ "hello" \notin Kinds(q)
    BY <1>1 DEF LinkOK, Shape
  <1>3. Hello.kind = "hello"
    BY DEF Hello
  <1>4. /\ Ordered(Append(q, Hello))
        /\ Kinds(Append(q, Hello)) = Kinds(q) \cup {"hello"}
    BY <1>2, <1>3, OrderedAppend, KindsAppend DEF LinkOK
  <1>5. Shape(Kinds(Tail(p)), Kinds(q) \cup {"hello"}, link, member, reached)
    BY <1>1, <1>2 DEF LinkOK, Shape, Marks
  <1> QED
    BY <1>1, <1>2, <1>4, <1>5 DEF LinkOK, Counted

LEMMA LinkMeets ==
  ASSUME NEW S, NEW p \in Seq(S), NEW q \in Seq(S), p # <<>>,
         NEW link \in BOOLEAN, NEW member \in BOOLEAN, NEW reached \in BOOLEAN,
         LinkOK(p, q, link, member, reached), Head(p).kind = "hello"
  PROVE  "lost" \notin Kinds(Tail(p)) /\ ~ member
  <1>1. /\ Ordered(Tail(p)) /\ Kinds(Tail(p)) \cap Marks = {}
        /\ Kinds(p) = {"hello"} \cup Kinds(Tail(p))
    BY OrderedPop, KindsPop DEF LinkOK, Marks
  <1> QED
    BY <1>1 DEF LinkOK, Shape, Marks

LEMMA LinkMet ==
  ASSUME NEW S, NEW p \in Seq(S), NEW q \in Seq(S), p # <<>>,
         NEW link \in BOOLEAN, NEW member \in BOOLEAN, NEW reached \in BOOLEAN,
         LinkOK(p, q, link, member, reached), Head(p).kind = "hello"
  PROVE  LinkOK(Tail(p), q, link, TRUE, reached)
  <1>1. /\ Ordered(Tail(p)) /\ Kinds(Tail(p)) \cap Marks = {}
        /\ Kinds(p) = {"hello"} \cup Kinds(Tail(p))
    BY OrderedPop, KindsPop DEF LinkOK, Marks
  <1>2. "lost" \notin Kinds(p) /\ "open" \notin Kinds(p)
    BY <1>1 DEF Marks
  <1>3. link /\ ~ member
    BY <1>1, <1>2 DEF LinkOK, Shape
  <1>4. Kinds(q) \subseteq {"hello"} /\ (~ reached => "hello" \in Kinds(q))
    BY <1>1, <1>2, <1>3 DEF LinkOK, Shape, Marks
  <1>5. Shape(Kinds(Tail(p)), Kinds(q), link, TRUE, reached)
    BY <1>1, <1>2, <1>3, <1>4 DEF Shape, Marks
  <1>6. ~ reached => q # <<>> /\ Head(q).kind = "hello"
    <2>1. "hello" \in Kinds(q) => q # <<>>
      BY KindsMark
    <2>2. q # <<>> => Head(q).kind \in Kinds(q)
      BY KindsPop
    <2> QED
      BY <1>4, <2>1, <2>2
  <1> QED
    BY <1>1, <1>3, <1>4, <1>5, <1>6 DEF LinkOK, Counted, Marks

(* The node handles a mark of the registry.                                *)
LEMMA NodeSawLoss ==
  ASSUME NEW S, NEW p \in Seq(S), NEW q \in Seq(S), q # <<>>,
         NEW link \in BOOLEAN, NEW member \in BOOLEAN, NEW reached \in BOOLEAN,
         LinkOK(p, q, link, member, reached), Head(q).kind = "lost"
  PROVE  LinkOK(p, Tail(q), link, member, FALSE)
  <1>1. /\ Ordered(Tail(q)) /\ "lost" \notin Kinds(Tail(q))
        /\ Kinds(q) = {"lost"} \cup Kinds(Tail(q))
    BY OrderedPop, KindsPop DEF LinkOK
  <1>2. ~ Counted(Kinds(p), member)
    BY <1>1, CountedLink DEF LinkOK
  <1>3. Shape(Kinds(p), Kinds(Tail(q)), link, member, FALSE)
    BY <1>1, <1>2 DEF LinkOK, Shape, Counted
  <1> QED
    BY <1>1, <1>2, <1>3 DEF LinkOK

LEMMA NodeSawLink ==
  ASSUME NEW S, NEW p \in Seq(S), NEW q \in Seq(S), q # <<>>, Hello \in S,
         NEW link \in BOOLEAN, NEW member \in BOOLEAN, NEW reached \in BOOLEAN,
         LinkOK(p, q, link, member, reached), Head(q).kind = "open"
  PROVE  link /\ LinkOK(Append(p, Hello), Tail(q), link, member, reached)
  <1>1. /\ Ordered(Tail(q)) /\ "lost" \notin Kinds(Tail(q))
        /\ "open" \notin Kinds(Tail(q))
        /\ Kinds(q) = {"open"} \cup Kinds(Tail(q))
    BY OrderedPop, KindsPop DEF LinkOK
  <1>2. link /\ "hello" \notin Kinds(p) /\ ~ Counted(Kinds(p), member)
    BY <1>1 DEF LinkOK, Shape, Counted
  <1>3. Hello.kind = "hello"
    BY DEF Hello
  <1>4. /\ Ordered(Append(p, Hello))
        /\ Kinds(Append(p, Hello)) = Kinds(p) \cup {"hello"}
    BY <1>2, <1>3, OrderedAppend, KindsAppend DEF LinkOK
  <1>5. Shape(Kinds(p) \cup {"hello"}, Kinds(Tail(q)), link, member, reached)
    BY <1>1, <1>2 DEF LinkOK, Shape, Counted
  <1> QED
    BY <1>1, <1>2, <1>4, <1>5 DEF LinkOK, Counted

LEMMA NodeMet ==
  ASSUME NEW S, NEW p \in Seq(S), NEW q \in Seq(S), q # <<>>,
         NEW link \in BOOLEAN, NEW member \in BOOLEAN, NEW reached \in BOOLEAN,
         LinkOK(p, q, link, member, reached), Head(q).kind = "hello"
  PROVE  link /\ LinkOK(p, Tail(q), link, member, TRUE)
  <1>1. /\ Ordered(Tail(q)) /\ "lost" \notin Kinds(Tail(q))
        /\ "open" \notin Kinds(Tail(q))
        /\ Kinds(q) = {"hello"} \cup Kinds(Tail(q))
    BY OrderedPop, KindsPop DEF LinkOK
  <1>2. link /\ "open" \notin Kinds(p)
    BY <1>1 DEF LinkOK, Shape
  <1>3. Shape(Kinds(p), Kinds(Tail(q)), link, member, TRUE)
    BY <1>1, <1>2 DEF LinkOK, Shape
  <1> QED
    BY <1>1, <1>2, <1>3 DEF LinkOK

(* The link comes back, drops, and drops because the node starts over.     *)
LEMMA LinkConnects ==
  ASSUME NEW S, NEW p \in Seq(S), NEW q \in Seq(S), Opened \in S,
         NEW member \in BOOLEAN, NEW reached \in BOOLEAN,
         LinkOK(p, q, FALSE, member, reached)
  PROVE  LinkOK(Append(p, Opened), Append(q, Opened), TRUE, member, reached)
  <1>1. /\ Kinds(p) \subseteq {"lost"} /\ Kinds(q) \subseteq {"lost"}
        /\ member => "lost" \in Kinds(p)
        /\ reached => "lost" \in Kinds(q)
    BY DEF LinkOK, Shape
  <1>2. Opened.kind = "open"
    BY DEF Opened
  <1>3. /\ Kinds(Append(p, Opened)) = Kinds(p) \cup {"open"}
        /\ Kinds(Append(q, Opened)) = Kinds(q) \cup {"open"}
        /\ Ordered(Append(p, Opened)) /\ Ordered(Append(q, Opened))
    BY <1>1, <1>2, OrderedAppend, KindsAppend DEF LinkOK
  <1>4. Shape(Kinds(p) \cup {"open"}, Kinds(q) \cup {"open"}, TRUE, member, reached)
    BY <1>1 DEF Shape, Marks
  <1> QED
    BY <1>1, <1>3, <1>4 DEF LinkOK, Counted

LEMMA LinkDrops ==
  ASSUME NEW member \in BOOLEAN, NEW reached \in BOOLEAN
  PROVE  /\ LinkOK(<<Lost>>, <<Lost>>, FALSE, member, reached)
         /\ LinkOK(<<Lost>>, <<>>, FALSE, member, FALSE)
  <1>1. /\ Kinds(<<Lost>>) = {"lost"} /\ Kinds(<<>>) = {}
        /\ Ordered(<<Lost>>) /\ Ordered(<<>>)
    BY KindsMark, OrderedShort DEF Lost
  <1>2. /\ Shape({"lost"}, {"lost"}, FALSE, member, reached)
        /\ Shape({"lost"}, {}, FALSE, member, FALSE)
        /\ ~ Counted({"lost"}, member)
    BY DEF Shape, Marks, Counted
  <1> QED
    BY <1>1, <1>2 DEF LinkOK

LEMMA LinkRestarts ==
  ASSUME NEW S, NEW p \in Seq(S), NEW q \in Seq(S),
         NEW member \in BOOLEAN, NEW reached \in BOOLEAN,
         LinkOK(p, q, FALSE, member, reached)
  PROVE  LinkOK(p, <<>>, FALSE, member, FALSE)
  <1>1. Kinds(<<>>) = {} /\ Ordered(<<>>)
    BY KindsMark, OrderedShort
  <1>2. /\ Shape(Kinds(p), {}, FALSE, member, FALSE)
        /\ ~ Counted(Kinds(p), member)
    BY DEF LinkOK, Shape, Marks, Counted
  <1> QED
    BY <1>1, <1>2 DEF LinkOK

-----------------------------------------------------------------------------
(* The channels of the mesh.                                               *)

Wires == [Channel -> Seq(Message)]

LEMMA ChannelsWires ==
  ASSUME NEW W
  PROVE  Channels(W) \subseteq Wires
  <1>1. Seq(Sound(W)) \subseteq Seq(Message)
    BY SeqMonotonic DEF Sound
  <1> QED
    BY <1>1 DEF Channels, Wires

LEMMA WiresType ==
  ASSUME IInv
  PROVE  chan \in Wires
  BY ChannelsWires DEF IInv

(* No two nodes share a channel, and only the registry uses one both ways. *)
LEMMA ChannelsApart ==
  ASSUME NEW m \in Node, NEW n \in Node
  PROVE  /\ Up(m) = Up(n) <=> m = n
         /\ Down(m) = Down(n) <=> m = n
         /\ Up(m) = Down(n) <=> m = Registry /\ n = Registry
         /\ Up(m) \in Channel /\ Down(m) \in Channel
  BY DEF Up, Down, Channel

LEMMA PopAt ==
  ASSUME NEW c \in Channel, chan \in Wires, chan[c] # <<>>
  PROVE  /\ Pop(c) \in Wires
         /\ Pop(c)[c] = Tail(chan[c])
         /\ \A d \in Channel : d # c => Pop(c)[d] = chan[d]
         /\ Head(chan[c]) \in Message
  <1>1. Tail(chan[c]) \in Seq(Message) /\ Head(chan[c]) \in Message
    BY HeadTailProperties DEF Wires
  <1> QED
    BY <1>1 DEF Pop, Wires

LEMMA TellAt ==
  ASSUME NEW ch \in Wires, NEW nodes \in SUBSET Node, NEW m \in Message,
         NEW n \in Node
  PROVE  /\ Tell(ch, nodes, m) \in Wires
         /\ n \in nodes /\ Open(n) =>
              Tell(ch, nodes, m)[Down(n)] = Append(ch[Down(n)], m)
         /\ n \notin nodes \/ ~ Open(n) =>
              Tell(ch, nodes, m)[Down(n)] = ch[Down(n)]
         /\ n # Registry => Tell(ch, nodes, m)[Up(n)] = ch[Up(n)]
  <1>1. \A c \in Channel : Append(ch[c], m) \in Seq(Message)
    BY AppendProperties DEF Wires
  <1>2. Tell(ch, nodes, m) \in Wires
    BY <1>1 DEF Tell, Wires
  <1>3. \A k \in nodes : Down(n) = Down(k) <=> n = k
    BY ChannelsApart
  <1>4. n # Registry => \A k \in nodes : Up(n) # Down(k)
    BY ChannelsApart
  <1>5. Up(n) \in Channel /\ Down(n) \in Channel
    BY ChannelsApart
  <1> QED
    BY <1>2, <1>3, <1>4, <1>5 DEF Tell

LEMMA TellNobody ==
  ASSUME NEW ch \in Wires, NEW m
  PROVE  Tell(ch, {}, m) = ch
  BY DEF Tell, Wires

LEMMA AskAt ==
  ASSUME NEW ch \in Wires, NEW n \in Node, NEW m \in Message
  PROVE  /\ Ask(ch, n, m) \in Wires
         /\ CanSend(n) => Ask(ch, n, m)[Up(n)] = Append(ch[Up(n)], m)
         /\ ~ CanSend(n) => Ask(ch, n, m) = ch
         /\ \A c \in Channel : c # Up(n) => Ask(ch, n, m)[c] = ch[c]
  <1>1. Up(n) \in Channel
    BY ChannelsApart
  <1>2. Append(ch[Up(n)], m) \in Seq(Message)
    BY <1>1, AppendProperties DEF Wires
  <1> QED
    BY <1>1, <1>2 DEF Ask, Wires

(* A mark is what its kind says.                                           *)
LEMMA MarkKind ==
  ASSUME NEW m \in Message
  PROVE  /\ m.kind = "lost" <=> m = Lost
         /\ m.kind = "hello" <=> m = Hello
         /\ m.kind = "open" <=> m = Opened
         /\ Lost \in Message /\ Hello \in Message /\ Opened \in Message
  BY DEF Message, Mark, ClaimMessage, ObjectMessage, AssignMessage,
         ReleaseMessage, AnnounceMessage, TransferMessage, Lost, Hello, Opened

(* A queue with a loss in it has it first.                                 *)
LEMMA LossFirst ==
  ASSUME NEW s \in Seq(Message), Ordered(s), s = <<>> \/ Head(s) # Lost
  PROVE  "lost" \notin Kinds(s)
  <1>1. CASE s = <<>>
    BY <1>1, KindsMark
  <1>2. CASE s # <<>>
    <2>1. Head(s) \in Message
      BY <1>2, HeadTailProperties
    <2>2. "lost" \notin Kinds(Tail(s)) /\ Head(s).kind # "lost"
      BY <1>2, <2>1, OrderedPop, MarkKind
    <2> QED
      BY <1>2, <2>2, KindsPop
  <1> QED
    BY <1>1, <1>2

-----------------------------------------------------------------------------
(* The invariant of the links, for what is in the channels ch and for the  *)
(* members rd.                                                             *)

Others == Node \ {Registry}

LinksOK(ch, rd) ==
  /\ Kinds(ch[Up(Registry)]) \cap Marks = {}
  /\ \A n \in Others :
       LinkOK(ch[Up(n)], ch[Down(n)], n \in linked, n \in rd, reach[n])

LinkInv ==
  /\ Registry \notin linked \cup ready
  /\ reach[Registry]
  /\ LinksOK(chan, ready)

(* The registry counts on those of the nodes that its messages can reach.  *)
Hearing(ch, rd, nodes) ==
  \A n \in nodes \ {Registry} : Open(n) => Counted(Kinds(ch[Up(n)]), n \in rd)

(* What the registry says, to members.                                     *)
LEMMA TellKeeps ==
  ASSUME IInv, NEW ch \in Wires, NEW rd, NEW nodes \in SUBSET Node,
         NEW m \in Message, m.kind \notin Marks,
         LinksOK(ch, rd), Hearing(ch, rd, nodes)
  PROVE  /\ LinksOK(Tell(ch, nodes, m), rd)
         /\ \A more \in SUBSET Node :
              Hearing(ch, rd, more) => Hearing(Tell(ch, nodes, m), rd, more)
  <1>1. ASSUME NEW n \in Others
        PROVE  /\ Tell(ch, nodes, m)[Up(n)] = ch[Up(n)]
               /\ LinkOK(ch[Up(n)], Tell(ch, nodes, m)[Down(n)],
                         n \in linked, n \in rd, reach[n])
    <2>1. n \in Node /\ n # Registry
      BY DEF Others
    <2>2. ch[Up(n)] \in Seq(Message) /\ ch[Down(n)] \in Seq(Message)
      BY <2>1, ChannelsApart DEF Wires
    <2>3. LinkOK(ch[Up(n)], ch[Down(n)], n \in linked, n \in rd, reach[n])
      BY DEF LinksOK
    <2>4. reach[n] \in BOOLEAN
      BY <2>1 DEF IInv, NodesOK
    <2>5. ASSUME n \in nodes, Open(n)
          PROVE  LinkOK(ch[Up(n)], Append(ch[Down(n)], m), n \in linked,
                        n \in rd, reach[n])
      <3>1. Counted(Kinds(ch[Up(n)]), n \in rd)
        BY <2>1, <2>5 DEF Hearing
      <3>2. (n \in linked) \in BOOLEAN /\ (n \in rd) \in BOOLEAN
        OBVIOUS
      <3>3. \A link, member, reached \in BOOLEAN :
              /\ LinkOK(ch[Up(n)], ch[Down(n)], link, member, reached)
              /\ Counted(Kinds(ch[Up(n)]), member)
              => LinkOK(ch[Up(n)], Append(ch[Down(n)], m), link, member, reached)
        BY <2>2, LinkTold
      <3> QED
        BY <2>3, <2>4, <3>1, <3>2, <3>3
    <2> QED
      BY <2>1, <2>3, <2>5, TellAt
  <1>2. Kinds(Tell(ch, nodes, m)[Up(Registry)]) \cap Marks = {}
    <2>1. ch[Up(Registry)] \in Seq(Message) /\ Up(Registry) = Down(Registry)
      BY NodeAssumption, ChannelsApart DEF Wires
    <2>2. \/ Tell(ch, nodes, m)[Up(Registry)] = ch[Up(Registry)]
          \/ Tell(ch, nodes, m)[Up(Registry)] = Append(ch[Up(Registry)], m)
      BY <2>1, NodeAssumption, TellAt
    <2>3. Kinds(Append(ch[Up(Registry)], m)) = Kinds(ch[Up(Registry)]) \cup {m.kind}
      BY <2>1, KindsAppend
    <2>4. Kinds(ch[Up(Registry)]) \cap Marks = {}
      BY DEF LinksOK
    <2>5. Kinds(Append(ch[Up(Registry)], m)) \cap Marks = {}
      BY <2>3, <2>4
    <2> QED
      BY <2>2, <2>4, <2>5
  <1>3. \A more \in SUBSET Node :
          Hearing(ch, rd, more) => Hearing(Tell(ch, nodes, m), rd, more)
    BY <1>1 DEF Hearing, Others
  <1> QED
    BY <1>1, <1>2, <1>3 DEF LinksOK

-----------------------------------------------------------------------------
(* What the registry says when it handles anything but a mark.             *)

Talk == {m \in Message : m.kind \notin Marks}

(* It announces the record as it is after the step, and says of an object  *)
(* that it is removed when the step removes it.                            *)
Latest ==
  {m \in Talk :
     /\ m.kind = "announce" => record'.id # 0 /\ m = Announcement(record')
     /\ m.kind = "unregister" => record'.id = 0 /\ m.id = record.id}

(* Up to two messages, each to some of its members, after what is in ch.   *)
Said(ch, members) ==
  \/ chan' = ch
  \/ \E B \in SUBSET members, b \in Latest : chan' = Tell(ch, B, b)
  \/ \E A, B \in SUBSET members, a, b \in Latest :
       chan' = Tell(Tell(ch, A, a), B, b)

LEMMA TalkTypes ==
  /\ \A id \in Id, kind \in {"drop", "request", "unregister", "denied"} :
       About(kind, id) \in Talk
  /\ \A r \in Record : r.id # 0 => Announcement(r) \in Talk
  /\ \A id \in Id, ver \in Nat, to \in Owner, forced \in BOOLEAN :
       [kind |-> "transfer", id |-> id, ver |-> ver, to |-> to,
        forced |-> forced] \in Talk
  <1>1. \A id \in Id, kind \in {"drop", "request", "unregister", "denied"} :
          About(kind, id) \in Talk
    BY DEF About, Talk, Message, ObjectMessage, Marks
  <1>2. \A r \in Record : r.id # 0 => Announcement(r) \in Talk
    BY DEF Announcement, Record, Talk, Message, AnnounceMessage, Id, Marks
  <1>3. \A id \in Id, ver \in Nat, to \in Owner, forced \in BOOLEAN :
          [kind |-> "transfer", id |-> id, ver |-> ver, to |-> to,
           forced |-> forced] \in Talk
    BY DEF Talk, Message, TransferMessage, Marks
  <1> QED
    BY <1>1, <1>2, <1>3

LEMMA LatestTypes ==
  /\ \A id \in Id : About("denied", id) \in Latest
  /\ \A id \in Id : record'.id = 0 /\ id = record.id =>
       About("unregister", id) \in Latest
  /\ \A r \in Record : r.id # 0 /\ Announcement(r) = Announcement(record') =>
       Announcement(r) \in Latest
  /\ \A id \in Id, ver \in Nat, to \in Owner, forced \in BOOLEAN :
       [kind |-> "transfer", id |-> id, ver |-> ver, to |-> to,
        forced |-> forced] \in Latest
  <1>1. ASSUME NEW id \in Id
        PROVE  /\ About("denied", id) \in Latest
               /\ record'.id = 0 /\ id = record.id =>
                    About("unregister", id) \in Latest
    <2>1. About("denied", id) \in Talk /\ About("unregister", id) \in Talk
      BY TalkTypes
    <2> QED
      BY <2>1 DEF About, Latest
  <1>2. ASSUME NEW r \in Record, r.id # 0, Announcement(r) = Announcement(record')
        PROVE  Announcement(r) \in Latest
    <2>1. Announcement(r) \in Talk
      BY <1>2, TalkTypes
    <2>2. Announcement(r).id = r.id /\ Announcement(record').id = record'.id
          /\ Announcement(r).kind = "announce"
      BY DEF Announcement
    <2> QED
      BY <1>2, <2>1, <2>2 DEF Latest
  <1>3. \A id \in Id, ver \in Nat, to \in Owner, forced \in BOOLEAN :
          [kind |-> "transfer", id |-> id, ver |-> ver, to |-> to,
           forced |-> forced] \in Latest
    BY TalkTypes DEF Latest
  <1> QED
    BY <1>1, <1>2, <1>3

LEMMA SaidKeeps ==
  ASSUME IInv, NEW ch \in Wires, NEW rd, NEW members \in SUBSET Node,
         LinksOK(ch, rd), Hearing(ch, rd, members), Said(ch, members)
  PROVE  LinksOK(chan', rd)
  <1>1. \A B \in SUBSET members : B \in SUBSET Node /\ Hearing(ch, rd, B)
    BY DEF Hearing
  <1>2. ASSUME NEW B \in SUBSET members, NEW b \in Latest
        PROVE  LinksOK(Tell(ch, B, b), rd)
    BY <1>1, TellKeeps DEF Latest, Talk
  <1>3. ASSUME NEW A \in SUBSET members, NEW B \in SUBSET members,
               NEW a \in Latest, NEW b \in Latest
        PROVE  LinksOK(Tell(Tell(ch, A, a), B, b), rd)
    <2>1. Tell(ch, A, a) \in Wires
      BY <1>1, NodeAssumption, TellAt DEF Latest, Talk
    <2>2. LinksOK(Tell(ch, A, a), rd) /\ Hearing(Tell(ch, A, a), rd, B)
      BY <1>1, TellKeeps DEF Latest, Talk
    <2> QED
      BY <1>1, <2>1, <2>2, TellKeeps DEF Latest, Talk
  <1> QED
    BY <1>2, <1>3 DEF Said

LEMMA ChangeSaid ==
  ASSUME NEW ch, NEW members, NEW r \in Record, r.id \in Id,
         NEW owner \in Owner, ChangeOwner(ch, members, r, owner)
  PROVE  Said(ch, members)
  <1> DEFINE A == Overruled(r, owner) \cap members
             a == About("denied", r.id)
             b == Announcement(Changed(r, owner))
  <1>1. a \in Latest /\ b \in Latest
    <2>1. /\ Changed(r, owner) \in Record /\ Changed(r, owner).id # 0
          /\ record' = Changed(r, owner)
      BY ChangedType DEF Id, ChangeOwner
    <2> QED
      BY <2>1, LatestTypes
  <1>2. A \in SUBSET members /\ members \in SUBSET members
    OBVIOUS
  <1>3. chan' = Tell(Tell(ch, A, a), members, b)
    BY DEF ChangeOwner
  <1> HIDE DEF A, a, b
  <1> QED
    BY <1>1, <1>2, <1>3 DEF Said

LEMMA CancelSaid ==
  ASSUME NEW ch, NEW members, record.id \in Id, CancelTransfer(ch, members)
  PROVE  Said(ch, members)
  <1>1. About("denied", record.id) \in Latest
    BY LatestTypes
  <1> QED
    BY <1>1 DEF Said, CancelTransfer

(* The handlers of what a member sends.                                    *)
LEMMA ClaimSaid ==
  ASSUME IInv, NEW n \in Members, NEW m \in Message, m.kind = "claim",
         HandleClaim(n, m)
  PROVE  Said(Pop(Up(n)), Members)
  <1>1. record \in Record /\ (record.id # 0 => record.id \in Id)
    BY RecordFacts
  <1>2. \A told \in Schema : SchemaToRecord(told) \in Schema
    BY NodeAssumption DEF SchemaToRecord
  <1>3. CASE record.id # 0 /\ ClaimKnown(n)
    <2> DEFINE r == [record EXCEPT !.schema = SchemaToRecord(record.schema)]
    <2>1. r \in Record /\ r.id = record.id /\ r.owner \in Owner
      BY <1>1, <1>2 DEF Record
    <2>2. CASE ChangeOwner(Pop(Up(n)), Members, r, r.owner)
      BY <1>1, <1>3, <2>1, <2>2, ChangeSaid
    <2>3. CASE chan' = Tell(Pop(Up(n)), {n}, Announcement(record)) /\ KeepRecord
      <3>1. Announcement(record) \in Latest /\ {n} \in SUBSET Members
        <4>1. record' = record
          BY <2>3 DEF KeepRecord
        <4> QED
          BY <1>1, <1>3, <4>1, LatestTypes
      <3> QED
        BY <2>3, <3>1 DEF Said
    <2> QED
      BY <1>3, <2>2, <2>3 DEF ClaimKnown
  <1>4. CASE nextId <= MaxId /\ ClaimNew(n, m)
    <2>1. record' \in Record /\ record'.id = nextId
      <3>1. m.schema \in Schema
        BY DEF Message, Mark, ClaimMessage, ObjectMessage, AssignMessage,
               ReleaseMessage, AnnounceMessage, TransferMessage
      <3>2. nextId \in 0 .. MaxId /\ n \in Owner
        BY <1>4, NodeAssumption, RecordFacts DEF IInv, RegistryOK, Owner
      <3>3. (IF Controller # Nobody THEN Controller ELSE n) \in Owner
        BY <3>2, NodeAssumption
      <3>4. PICK owner \in Owner :
              record' = [id |-> nextId, ver |-> 1, prev |-> 0, owner |-> owner,
                         schema |-> SchemaToRecord(m.schema), to |-> None,
                         req |-> Nobody]
        BY <1>4, <3>3 DEF ClaimNew, Owner
      <3> QED
        BY <1>2, <3>1, <3>2, <3>4 DEF Record, Owner
    <2>2. nextId # 0
      BY NodeAssumption DEF IInv, RegistryOK
    <2>3. Announcement(record') \in Latest
      BY <2>1, <2>2, LatestTypes
    <2>4. chan' = Tell(Pop(Up(n)), Members, Announcement(record'))
      BY <1>4 DEF ClaimNew
    <2> QED
      BY <2>3, <2>4 DEF Said
  <1> QED
    BY <1>3, <1>4 DEF HandleClaim, Ignore, Said

LEMMA MoveSaid ==
  ASSUME IInv, NEW n \in Members, record.id \in Id, NEW to \in Owner,
         NEW forced \in BOOLEAN, MoveTo(n, to, forced)
  PROVE  Said(Pop(Up(n)), Members)
  <1>1. record \in Record /\ record.ver \in Nat
    BY RecordFacts DEF Record
  <1>2. CASE Ignore(n)
    BY <1>2 DEF Ignore, Said
  <1>3. CASE ChangeOwner(Pop(Up(n)), Members, record, to)
    BY <1>1, <1>3, ChangeSaid
  <1>4. CASE record.owner \in Members /\ StartTransfer(n, to, forced)
    <2> DEFINE b == [kind |-> "transfer", id |-> record.id, ver |-> record.ver,
                     to |-> to, forced |-> forced]
    <2>1. b \in Latest /\ {record.owner} \in SUBSET Members
      BY <1>1, <1>4, LatestTypes
    <2>2. chan' = Tell(Pop(Up(n)), {record.owner}, b)
      BY <1>4 DEF StartTransfer
    <2> HIDE DEF b
    <2> QED
      BY <2>1, <2>2 DEF Said
  <1> QED
    BY <1>2, <1>3, <1>4 DEF MoveTo

LEMMA DenySaid ==
  ASSUME NEW n \in Members, NEW id \in Id, Deny(n, id)
  PROVE  Said(Pop(Up(n)), Members)
  <1>1. About("denied", id) \in Latest /\ {n} \in SUBSET Members
    BY LatestTypes
  <1> QED
    BY <1>1 DEF Deny, Said

LEMMA HandlerSaid ==
  ASSUME IInv, NEW n \in Members, NEW m \in Message,
         \/ m.kind = "claim" /\ HandleClaim(n, m)
         \/ m.kind = "drop" /\ HandleDrop(n, m)
         \/ m.kind = "request" /\ HandleRequest(n, m)
         \/ m.kind = "assign" /\ HandleAssign(n, m)
         \/ m.kind = "release" /\ HandleRelease(n, m)
  PROVE  Said(Pop(Up(n)), Members)
  <1>1. /\ m.kind \in {"drop", "request", "assign", "release"} => m.id \in Id
        /\ m.kind = "assign" => m.to \in Owner
        /\ m.kind = "release" => m.to \in Owner \cup {None}
    BY DEF Message, Mark, ClaimMessage, ObjectMessage, AssignMessage,
           ReleaseMessage, AnnounceMessage, TransferMessage
  <1>2. CASE m.kind = "claim" /\ HandleClaim(n, m)
    BY <1>2, ClaimSaid
  <1>3. CASE m.kind = "drop" /\ HandleDrop(n, m)
    <2>1. CASE Ignore(n)
      BY <2>1 DEF Ignore, Said
    <2>2. CASE /\ record.id = m.id /\ record' = NoRecord
               /\ chan' = Tell(Pop(Up(n)), Members, About("unregister", m.id))
      <3>1. About("unregister", m.id) \in Latest
        BY <1>1, <1>3, <2>2, LatestTypes DEF NoRecord
      <3> QED
        BY <2>2, <3>1 DEF Said
    <2> QED
      BY <1>3, <2>1, <2>2 DEF HandleDrop
  <1>4. CASE m.kind = "request" /\ HandleRequest(n, m)
    <2>1. n \in Owner
      BY RecordFacts DEF Owner
    <2> QED
      BY <1>1, <1>4, <2>1, DenySaid, MoveSaid DEF HandleRequest
  <1>5. CASE m.kind = "assign" /\ HandleAssign(n, m)
    BY <1>1, <1>5, DenySaid, MoveSaid DEF HandleAssign
  <1>6. CASE m.kind = "release" /\ HandleRelease(n, m)
    <2>1. record \in Record
      BY RecordFacts
    <2>2. CASE Ignore(n)
      BY <2>2 DEF Ignore, Said
    <2>3. CASE Deny(n, m.id)
      BY <1>1, <1>6, <2>3, DenySaid
    <2>4. CASE CurrentRelease(n, m) /\ CancelTransfer(Pop(Up(n)), Members)
      BY <1>1, <1>6, <2>4, CancelSaid DEF CurrentRelease
    <2>5. CASE /\ CurrentRelease(n, m) /\ m.to \notin {None, record.owner}
               /\ ChangeOwner(Pop(Up(n)), Members, record,
                              IF m.to \in Members THEN m.to ELSE Nobody)
      <3>1. (IF m.to \in Members THEN m.to ELSE Nobody) \in Owner
        BY <1>1, <1>6, <2>5 DEF Owner
      <3> QED
        BY <1>1, <1>6, <2>1, <2>5, <3>1, ChangeSaid DEF CurrentRelease
    <2> QED
      BY <1>6, <2>2, <2>3, <2>4, <2>5 DEF HandleRelease
  <1> QED
    BY <1>2, <1>3, <1>4, <1>5, <1>6

(* A node enters the mesh, or leaves it.                                   *)
LEMMA HelloSaid ==
  ASSUME IInv, NEW n \in Node, HandleHello(n)
  PROVE  Said(Pop(Up(n)), {n})
  <1>1. record.id # 0 => Announcement(record) \in Latest
    <2>1. record' = record
      BY DEF HandleHello, KeepRecord
    <2> QED
      BY <2>1, RecordFacts, LatestTypes
  <1> QED
    BY <1>1 DEF HandleHello, Said

LEMMA LostSaid ==
  ASSUME IInv, NEW n \in Node, HandleLost(n)
  PROVE  Said(Pop(Up(n)), Members \ {n})
  <1> DEFINE members == Members \ {n}
  <1>1. record \in Record
    BY RecordFacts
  <1>2. CASE record.owner = n /\ ChangeOwner(Pop(Up(n)), members, record, Nobody)
    <2>1. record.id \in Id /\ Nobody \in Owner
      BY <1>2, RecordFacts DEF Owner
    <2> QED
      BY <1>1, <1>2, <2>1, ChangeSaid
  <1>3. CASE InTransfer(n) /\ CancelTransfer(Pop(Up(n)), members)
    BY <1>3, RecordFacts, CancelSaid DEF InTransfer
  <1>4. CASE Ignore(n)
    BY <1>4 DEF Ignore, Said
  <1> QED
    BY <1>2, <1>3, <1>4 DEF HandleLost

-----------------------------------------------------------------------------
(* The steps of the registry keep the invariant of the links.              *)

(* The channels have the types the lemmas on links need.                   *)
LEMMA LinkTypes ==
  ASSUME IInv, LinkInv, NEW n \in Others
  PROVE  /\ n \in Node /\ n # Registry
         /\ chan[Up(n)] \in Seq(Message) /\ chan[Down(n)] \in Seq(Message)
         /\ reach[n] \in BOOLEAN
         /\ (n \in linked) \in BOOLEAN /\ (n \in ready) \in BOOLEAN
         /\ LinkOK(chan[Up(n)], chan[Down(n)], n \in linked, n \in ready, reach[n])
  <1>1. n \in Node /\ n # Registry
    BY DEF Others
  <1>2. chan[Up(n)] \in Seq(Message) /\ chan[Down(n)] \in Seq(Message)
    BY <1>1, WiresType, ChannelsApart DEF Wires
  <1> QED
    BY <1>1, <1>2 DEF IInv, NodesOK, LinkInv, LinksOK

(* A node that can be reached has no loss of its link to be handled.       *)
LEMMA OpenLink ==
  ASSUME IInv, LinkInv, NEW n \in Others, Open(n)
  PROVE  n \in linked /\ "lost" \notin Kinds(chan[Up(n)])
  <1>1. n \in linked /\ (chan[Up(n)] = <<>> \/ Head(chan[Up(n)]) # Lost)
    BY LinkTypes DEF Open, LossAhead
  <1> QED
    BY <1>1, LinkTypes, LossFirst DEF LinkOK

LEMMA HearingNow ==
  ASSUME IInv, LinkInv
  PROVE  Hearing(chan, ready, Members)
  <1> SUFFICES ASSUME NEW n \in Members \ {Registry}, Open(n)
               PROVE  Counted(Kinds(chan[Up(n)]), n \in ready)
    BY DEF Hearing
  <1>1. n \in Others /\ n \in ready
    BY RecordFacts DEF Members, Others
  <1> QED
    BY <1>1, OpenLink DEF Counted

(* The registry takes a message that is no mark.                           *)
LEMMA TakeKeeps ==
  ASSUME IInv, LinkInv, NEW n \in Node, chan[Up(n)] # <<>>,
         Head(chan[Up(n)]).kind \notin Marks
  PROVE  /\ LinksOK(Pop(Up(n)), ready)
         /\ Hearing(Pop(Up(n)), ready, Members)
         /\ Pop(Up(n)) \in Wires
  <1> DEFINE ch == Pop(Up(n))
  <1>1. chan \in Wires /\ Up(n) \in Channel
    BY WiresType, ChannelsApart
  <1>2. /\ ch \in Wires /\ ch[Up(n)] = Tail(chan[Up(n)])
        /\ \A d \in Channel : d # Up(n) => ch[d] = chan[d]
        /\ chan[Up(n)] \in Seq(Message)
    BY <1>1, PopAt DEF Wires
  <1> HIDE DEF ch
  <1>3. Kinds(ch[Up(n)]) \subseteq Kinds(chan[Up(n)])
    BY <1>2, KindsPop
  <1>4. \A k \in Node : Kinds(ch[Up(k)]) \subseteq Kinds(chan[Up(k)])
    BY <1>2, <1>3, ChannelsApart
  <1>5. ASSUME NEW k \in Others
        PROVE  LinkOK(ch[Up(k)], ch[Down(k)], k \in linked, k \in ready, reach[k])
    <2>1. ch[Down(k)] = chan[Down(k)]
      BY <1>2, ChannelsApart DEF Others
    <2>2. CASE k = n
      <3>1. /\ chan[Up(n)] \in Seq(Message) /\ chan[Down(n)] \in Seq(Message)
            /\ reach[n] \in BOOLEAN
            /\ (n \in linked) \in BOOLEAN /\ (n \in ready) \in BOOLEAN
            /\ LinkOK(chan[Up(n)], chan[Down(n)], n \in linked, n \in ready, reach[n])
        BY <2>2, LinkTypes
      <3>2. LinkOK(Tail(chan[Up(n)]), chan[Down(n)], n \in linked, n \in ready,
                   reach[n])
        <4>1. \A link, member, reached \in BOOLEAN :
                LinkOK(chan[Up(n)], chan[Down(n)], link, member, reached) =>
                  LinkOK(Tail(chan[Up(n)]), chan[Down(n)], link, member, reached)
          BY <3>1, LinkTaken
        <4> QED
          BY <3>1, <4>1
      <3> QED
        BY <1>2, <2>1, <2>2, <3>2
    <2>3. CASE k # n
      BY <1>2, <2>1, <2>3, LinkTypes, ChannelsApart
    <2> QED
      BY <2>2, <2>3
  <1>6. Kinds(ch[Up(Registry)]) \cap Marks = {}
    BY <1>4, NodeAssumption DEF LinkInv, LinksOK
  <1>7. Hearing(ch, ready, Members)
    <2>1. \A k \in Members : k \in Node
      BY RecordFacts
    <2> QED
      BY <1>4, <2>1, HearingNow DEF Hearing, Counted
  <1> QED
    BY <1>2, <1>5, <1>6, <1>7 DEF LinksOK, ch

(* The registry handles the marks of another node.                         *)
LEMMA MarkTaken ==
  ASSUME IInv, LinkInv, NEW n \in Node, chan[Up(n)] # <<>>,
         Head(chan[Up(n)]).kind \in Marks
  PROVE  /\ n \in Others
         /\ Pop(Up(n)) \in Wires
         /\ Pop(Up(n))[Up(n)] = Tail(chan[Up(n)])
         /\ \A d \in Channel : d # Up(n) => Pop(Up(n))[d] = chan[d]
  <1>1. chan \in Wires /\ Up(n) \in Channel /\ chan[Up(n)] \in Seq(Message)
    BY WiresType, ChannelsApart DEF Wires
  <1>2. Head(chan[Up(n)]).kind \in Kinds(chan[Up(n)])
    BY <1>1, KindsPop
  <1>3. n # Registry
    BY <1>2 DEF LinkInv, LinksOK
  <1> QED
    BY <1>1, <1>3, PopAt DEF Others

LEMMA OpenedKeeps ==
  ASSUME IInv, LinkInv, NEW n \in Node, chan[Up(n)] # <<>>,
         Head(chan[Up(n)]).kind = "open",
         chan' = Tell(Pop(Up(n)), {n}, Hello)
  PROVE  LinksOK(chan', ready)
  <1> DEFINE ch == Pop(Up(n))
  <1>1. /\ n \in Others /\ ch \in Wires /\ ch[Up(n)] = Tail(chan[Up(n)])
        /\ \A d \in Channel : d # Up(n) => ch[d] = chan[d]
    BY MarkTaken DEF Marks
  <1>2. Hello \in Message /\ n \in Node
    BY MarkKind DEF Message, Mark, Hello
  <1> HIDE DEF ch
  <1>3. /\ n \in linked
        /\ LinkOK(Tail(chan[Up(n)]), Append(chan[Down(n)], Hello), n \in linked,
                  n \in ready, reach[n])
    <2>1. /\ chan[Up(n)] \in Seq(Message) /\ chan[Down(n)] \in Seq(Message)
          /\ reach[n] \in BOOLEAN
          /\ (n \in linked) \in BOOLEAN /\ (n \in ready) \in BOOLEAN
          /\ LinkOK(chan[Up(n)], chan[Down(n)], n \in linked, n \in ready, reach[n])
      BY <1>1, LinkTypes
    <2>2. \A link, member, reached \in BOOLEAN :
            LinkOK(chan[Up(n)], chan[Down(n)], link, member, reached) =>
              link /\ LinkOK(Tail(chan[Up(n)]), Append(chan[Down(n)], Hello),
                            link, member, reached)
      BY <1>2, <2>1, LinkOpened
    <2> QED
      BY <2>1, <2>2
  <1>4. Open(n)
    <2>1. Head(chan[Up(n)]) # Lost
      BY DEF Lost
    <2> QED
      BY <1>3, <2>1 DEF Open, LossAhead
  <1>8. chan' = Tell(ch, {n}, Hello) /\ {n} \in SUBSET Node
    BY <1>2 DEF ch
  <1>9. \A k \in Node : /\ ch[Down(k)] = chan[Down(k)]
                        /\ k # n => ch[Up(k)] = chan[Up(k)]
    BY <1>1, ChannelsApart DEF Others
  <1>10. \A k \in Node :
           /\ k = n => chan'[Down(k)] = Append(ch[Down(k)], Hello)
           /\ k # n => chan'[Down(k)] = ch[Down(k)]
           /\ k # Registry => chan'[Up(k)] = ch[Up(k)]
    <2> DEFINE nodes == {n}
    <2>1. nodes \in SUBSET Node /\ ch \in Wires /\ Hello \in Message
      BY <1>1, <1>2
    <2>2. \A k \in Node : k \in nodes <=> k = n
      OBVIOUS
    <2>3. chan' = Tell(ch, nodes, Hello)
      BY <1>8
    <2> HIDE DEF nodes
    <2>4. ASSUME NEW k \in Node
          PROVE  /\ k \in nodes /\ Open(k) =>
                      Tell(ch, nodes, Hello)[Down(k)] = Append(ch[Down(k)], Hello)
                 /\ k \notin nodes => Tell(ch, nodes, Hello)[Down(k)] = ch[Down(k)]
                 /\ k # Registry => Tell(ch, nodes, Hello)[Up(k)] = ch[Up(k)]
      BY <2>1, TellAt
    <2> QED
      BY <1>4, <2>2, <2>3, <2>4
  <1>5. /\ chan'[Up(n)] = Tail(chan[Up(n)])
        /\ chan'[Down(n)] = Append(chan[Down(n)], Hello)
    BY <1>1, <1>2, <1>9, <1>10 DEF Others
  <1>6. \A k \in Others : k # n =>
          chan'[Up(k)] = chan[Up(k)] /\ chan'[Down(k)] = chan[Down(k)]
    BY <1>9, <1>10 DEF Others
  <1>7. chan'[Up(Registry)] = chan[Up(Registry)]
    <2>1. Up(Registry) = Down(Registry)
      BY NodeAssumption, ChannelsApart
    <2>2. Tell(ch, {n}, Hello)[Down(Registry)] = ch[Down(Registry)]
      <3>1. Registry \in Node /\ Registry \notin {n}
        BY <1>1, NodeAssumption DEF Others
      <3> QED
        BY <1>1, <1>2, <1>8, <3>1, TellAt
    <2>3. ch[Up(Registry)] = chan[Up(Registry)]
      BY <1>1, NodeAssumption, ChannelsApart DEF Others
    <2> QED
      BY <1>8, <2>1, <2>2, <2>3
  <1> QED
    BY <1>3, <1>5, <1>6, <1>7, LinkTypes DEF LinksOK, LinkInv

(* What is left when the registry has taken the mark of a node, with the   *)
(* members rd from then on.                                                *)
LEMMA MarkKeeps ==
  ASSUME IInv, LinkInv, NEW n \in Node, chan[Up(n)] # <<>>,
         Head(chan[Up(n)]).kind \in Marks,
         NEW rd, \A k \in Node : k # n => (k \in rd <=> k \in ready),
         LinkOK(Tail(chan[Up(n)]), chan[Down(n)], n \in linked, n \in rd, reach[n]),
         NEW members \in SUBSET Node, members \ {n} \subseteq Members,
         n \in members => Counted(Kinds(Tail(chan[Up(n)])), n \in rd)
  PROVE  /\ LinksOK(Pop(Up(n)), rd)
         /\ Hearing(Pop(Up(n)), rd, members)
         /\ Pop(Up(n)) \in Wires
  <1> DEFINE ch == Pop(Up(n))
  <1>1. /\ n \in Others /\ ch \in Wires /\ ch[Up(n)] = Tail(chan[Up(n)])
        /\ \A d \in Channel : d # Up(n) => ch[d] = chan[d]
    BY MarkTaken
  <1> HIDE DEF ch
  <1>2. \A k \in Node : /\ ch[Down(k)] = chan[Down(k)]
                        /\ k # n => ch[Up(k)] = chan[Up(k)]
    BY <1>1, ChannelsApart DEF Others
  <1>3. ASSUME NEW k \in Others
        PROVE  LinkOK(ch[Up(k)], ch[Down(k)], k \in linked, k \in rd, reach[k])
    BY <1>1, <1>2, LinkTypes
  <1>4. Kinds(ch[Up(Registry)]) \cap Marks = {}
    BY <1>1, <1>2, NodeAssumption DEF LinkInv, LinksOK, Others
  <1>5. Hearing(ch, rd, members)
    BY <1>1, <1>2, HearingNow DEF Hearing
  <1> QED
    BY <1>1, <1>3, <1>4, <1>5 DEF LinksOK, ch

LEMMA HelloKeeps ==
  ASSUME IInv, LinkInv, NEW n \in Node, chan[Up(n)] # <<>>,
         Head(chan[Up(n)]).kind = "hello", HandleHello(n)
  PROVE  LinksOK(chan', ready') /\ n \in Others /\ n \notin ready
  <1>1. n \in Others
    BY MarkTaken DEF Marks
  <1>2. /\ LinkOK(Tail(chan[Up(n)]), chan[Down(n)], n \in linked, TRUE, reach[n])
        /\ Counted(Kinds(Tail(chan[Up(n)])), TRUE)
        /\ n \notin ready
    <2>1. /\ chan[Up(n)] \in Seq(Message) /\ chan[Down(n)] \in Seq(Message)
          /\ reach[n] \in BOOLEAN
          /\ (n \in linked) \in BOOLEAN /\ (n \in ready) \in BOOLEAN
          /\ LinkOK(chan[Up(n)], chan[Down(n)], n \in linked, n \in ready, reach[n])
      BY <1>1, LinkTypes
    <2>2. LinkOK(Tail(chan[Up(n)]), chan[Down(n)], n \in linked, TRUE, reach[n])
      BY <2>1, LinkMet
    <2>3. "lost" \notin Kinds(Tail(chan[Up(n)])) /\ ~ (n \in ready)
      BY <2>1, LinkMeets
    <2> QED
      BY <2>2, <2>3 DEF Counted
  <1>3. ready' = ready \cup {n}
    BY DEF HandleHello
  <1> DEFINE rd == ready \cup {n}
  <1>4. (n \in rd) = TRUE
    OBVIOUS
  <1>5. /\ LinksOK(Pop(Up(n)), rd) /\ Hearing(Pop(Up(n)), rd, {n})
        /\ Pop(Up(n)) \in Wires
    BY <1>2, <1>4, MarkKeeps DEF Marks
  <1>6. Said(Pop(Up(n)), {n})
    BY HelloSaid
  <1>7. LinksOK(chan', rd)
    BY <1>5, <1>6, SaidKeeps
  <1> QED
    BY <1>1, <1>2, <1>3, <1>7

LEMMA LostKeeps ==
  ASSUME IInv, LinkInv, NEW n \in Node, chan[Up(n)] # <<>>,
         Head(chan[Up(n)]).kind = "lost", HandleLost(n)
  PROVE  LinksOK(chan', ready') /\ n \in Others
  <1>1. n \in Others
    BY MarkTaken DEF Marks
  <1> DEFINE rd == ready \ {n}
             members == Members \ {n}
  <1>2. LinkOK(Tail(chan[Up(n)]), chan[Down(n)], n \in linked, FALSE, reach[n])
    <2>1. /\ chan[Up(n)] \in Seq(Message) /\ chan[Down(n)] \in Seq(Message)
          /\ reach[n] \in BOOLEAN
          /\ (n \in linked) \in BOOLEAN /\ (n \in ready) \in BOOLEAN
          /\ LinkOK(chan[Up(n)], chan[Down(n)], n \in linked, n \in ready, reach[n])
      BY <1>1, LinkTypes
    <2>2. \A link, member, reached \in BOOLEAN :
            LinkOK(chan[Up(n)], chan[Down(n)], link, member, reached) =>
              LinkOK(Tail(chan[Up(n)]), chan[Down(n)], link, FALSE, reached)
      <3> DEFINE p == chan[Up(n)]
                 q == chan[Down(n)]
      <3>1. /\ p \in Seq(Message) /\ q \in Seq(Message)
            /\ p # <<>> /\ Head(p).kind = "lost"
        BY <2>1
      <3> HIDE DEF p, q
      <3>2. \A link, member, reached \in BOOLEAN :
              LinkOK(p, q, link, member, reached) =>
                LinkOK(Tail(p), q, link, FALSE, reached)
        BY <3>1, LinkLost
      <3> QED
        BY <3>2 DEF p, q
    <2> QED
      BY <2>1, <2>2
  <1>3. /\ ready' = rd /\ members \in SUBSET Node
        /\ n \notin rd /\ (n \in rd) = FALSE /\ n \notin members
        /\ \A k \in Node : k # n => (k \in rd <=> k \in ready)
        /\ members \ {n} \subseteq Members
    BY RecordFacts DEF HandleLost
  <1> HIDE DEF rd, members
  <1>4. /\ LinksOK(Pop(Up(n)), rd) /\ Hearing(Pop(Up(n)), rd, members)
        /\ Pop(Up(n)) \in Wires
    BY <1>2, <1>3, MarkKeeps DEF Marks
  <1>5. Said(Pop(Up(n)), members)
    BY LostSaid DEF members
  <1>6. LinksOK(chan', rd)
    BY <1>3, <1>4, <1>5, SaidKeeps
  <1> QED
    BY <1>1, <1>3, <1>6

(* A step that changes no link and no end's view but the members'.         *)
LEMMA SameLinks ==
  ASSUME LinkInv, linked' = linked, reach' = reach, Registry \notin ready',
         LinksOK(chan', ready')
  PROVE  LinkInv'
  BY DEF LinkInv, LinksOK

LEMMA RegistryLinks ==
  ASSUME IInv, LinkInv, NEW n \in Node, RegistryReceives(n)
  PROVE  LinkInv'
  <1> DEFINE m == Head(chan[Up(n)])
  <1>1. chan[Up(n)] # <<>> /\ linked' = linked /\ reach' = reach
    BY DEF RegistryReceives, nodeVars
  <1>2. m \in Message
    BY <1>1, WiresType, ChannelsApart, PopAt
  <1> SUFFICES LinksOK(chan', ready') /\ Registry \notin ready'
    BY <1>1, SameLinks
  <1>3. Registry \notin ready
    BY DEF LinkInv
  <1>4. CASE m.kind = "open" /\ chan' = Tell(Pop(Up(n)), {n}, Hello) /\ ready' = ready
    BY <1>1, <1>3, <1>4, OpenedKeeps
  <1>5. CASE m.kind = "hello" /\ HandleHello(n)
    BY <1>1, <1>3, <1>5, HelloKeeps DEF HandleHello, Others
  <1>6. CASE m.kind = "lost" /\ HandleLost(n)
    BY <1>1, <1>3, <1>6, LostKeeps DEF HandleLost
  <1>7. CASE m.kind \in RegistryKinds /\ Ignore(n) /\ ready' = ready
    BY <1>1, <1>3, <1>7, TakeKeeps DEF Ignore, RegistryKinds, Marks
  <1>8. CASE /\ n \in Members /\ ready' = ready
             /\ \/ m.kind = "claim" /\ HandleClaim(n, m)
                \/ m.kind = "drop" /\ HandleDrop(n, m)
                \/ m.kind = "request" /\ HandleRequest(n, m)
                \/ m.kind = "assign" /\ HandleAssign(n, m)
                \/ m.kind = "release" /\ HandleRelease(n, m)
    <2>1. Said(Pop(Up(n)), Members)
      BY <1>2, <1>8, HandlerSaid
    <2>2. /\ LinksOK(Pop(Up(n)), ready) /\ Hearing(Pop(Up(n)), ready, Members)
          /\ Pop(Up(n)) \in Wires
      BY <1>1, <1>8, TakeKeeps DEF Marks
    <2>3. LinksOK(chan', ready)
      BY <2>1, <2>2, RecordFacts, SaidKeeps
    <2> QED
      BY <1>3, <1>8, <2>3
  <1> QED
    BY <1>4, <1>5, <1>6, <1>7, <1>8 DEF RegistryReceives

LEMMA TimeoutLinks ==
  ASSUME IInv, LinkInv, TransferTimesOut
  PROVE  LinkInv'
  <1>1. Said(chan, Members)
    BY RecordFacts, CancelSaid DEF TransferTimesOut
  <1>2. LinksOK(chan', ready)
    BY <1>1, WiresType, HearingNow, RecordFacts, SaidKeeps DEF LinkInv
  <1> QED
    BY <1>2, SameLinks DEF TransferTimesOut, nodeVars, LinkInv

-----------------------------------------------------------------------------
(* The steps of the nodes and of the network keep it.                      *)

(* A node asks the registry something.                                     *)
LEMMA AskKeeps ==
  ASSUME IInv, NEW ch \in Wires, LinksOK(ch, ready), NEW n \in Node,
         NEW m \in Talk
  PROVE  LinksOK(Ask(ch, n, m), ready)
  <1> DEFINE asked == Ask(ch, n, m)
  <1>1. m \in Message /\ m.kind \notin Marks
    BY DEF Talk
  <1>2. /\ CanSend(n) => asked[Up(n)] = Append(ch[Up(n)], m)
        /\ ~ CanSend(n) => asked = ch
        /\ \A c \in Channel : c # Up(n) => asked[c] = ch[c]
    BY <1>1, AskAt
  <1> HIDE DEF asked
  <1>3. ASSUME NEW k \in Others
        PROVE  LinkOK(asked[Up(k)], asked[Down(k)], k \in linked, k \in ready,
                      reach[k])
    <2>1. k \in Node /\ k # Registry
      BY DEF Others
    <2>2. LinkOK(ch[Up(k)], ch[Down(k)], k \in linked, k \in ready, reach[k])
      BY DEF LinksOK
    <2>3. asked[Down(k)] = ch[Down(k)] /\ (k # n => asked[Up(k)] = ch[Up(k)])
      BY <1>2, <2>1, ChannelsApart
    <2>4. CASE k = n /\ CanSend(n)
      <3>1. (k \in linked) = TRUE
        BY <2>1, <2>4 DEF CanSend
      <3>2. /\ ch[Up(k)] \in Seq(Message) /\ ch[Down(k)] \in Seq(Message)
            /\ reach[k] \in BOOLEAN /\ (k \in ready) \in BOOLEAN
        BY <2>1, ChannelsApart DEF Wires, IInv, NodesOK
      <3>4. LinkOK(ch[Up(k)], ch[Down(k)], TRUE, k \in ready, reach[k])
        BY <2>2, <3>1
      <3>3. LinkOK(Append(ch[Up(k)], m), ch[Down(k)], TRUE, k \in ready, reach[k])
        BY <1>1, <3>2, <3>4, LinkAsked
      <3> QED
        BY <1>2, <2>3, <2>4, <3>1, <3>3
    <2> QED
      BY <1>2, <2>2, <2>3, <2>4
  <1>4. Kinds(asked[Up(Registry)]) \cap Marks = {}
    <2>1. Kinds(ch[Up(Registry)]) \cap Marks = {} /\ ch[Up(n)] \in Seq(Message)
      BY ChannelsApart DEF LinksOK, Wires
    <2>2. Kinds(Append(ch[Up(n)], m)) = Kinds(ch[Up(n)]) \cup {m.kind}
      BY <1>1, <2>1, KindsAppend
    <2>3. Up(Registry) \in Channel /\ (n # Registry => Up(Registry) # Up(n))
      BY NodeAssumption, ChannelsApart
    <2>4. CASE n = Registry /\ CanSend(n)
      BY <1>1, <1>2, <2>1, <2>2, <2>4
    <2> QED
      BY <1>2, <2>1, <2>3, <2>4
  <1> QED
    BY <1>3, <1>4 DEF LinksOK, asked

(* What changes at one link, and only there.                               *)
LEMMA OneLink ==
  ASSUME LinkInv, NEW n \in Others, ready' = ready,
         \A k \in Node : k # n =>
           (k \in linked' <=> k \in linked) /\ reach'[k] = reach[k],
         \A c \in Channel : c \notin {Up(n), Down(n)} => chan'[c] = chan[c],
         LinkOK(chan'[Up(n)], chan'[Down(n)], n \in linked', n \in ready, reach'[n])
  PROVE  LinkInv'
  <1>1. n \in Node /\ n # Registry /\ Registry \in Node
    BY NodeAssumption DEF Others
  <1>2. \A k \in Node : k # n =>
          chan'[Up(k)] = chan[Up(k)] /\ chan'[Down(k)] = chan[Down(k)]
    BY <1>1, ChannelsApart
  <1>3. ASSUME NEW k \in Others
        PROVE  LinkOK(chan'[Up(k)], chan'[Down(k)], k \in linked', k \in ready',
                      reach'[k])
    <2>1. CASE k = n
      BY <2>1
    <2>2. CASE k # n
      <3>1. LinkOK(chan[Up(k)], chan[Down(k)], k \in linked, k \in ready, reach[k])
        BY DEF LinkInv, LinksOK
      <3>2. /\ (k \in linked') = (k \in linked) /\ (k \in ready') = (k \in ready)
            /\ reach'[k] = reach[k]
        BY <2>2 DEF Others
      <3> QED
        BY <1>2, <2>2, <3>1, <3>2 DEF Others
    <2> QED
      BY <2>1, <2>2
  <1>4. /\ Registry \notin linked' \cup ready' /\ reach'[Registry]
        /\ Kinds(chan'[Up(Registry)]) \cap Marks = {}
    BY <1>1, <1>2 DEF LinkInv, LinksOK
  <1> QED
    BY <1>3, <1>4 DEF LinkInv, LinksOK

(* What a node asks or answers.                                            *)
Asks == {m \in Message : m.kind \in RegistryKinds}

LEMMA AsksAreTalk == Asks \subseteq Talk
  BY DEF Asks, RegistryKinds, Talk, Marks

LEMMA AskTypes ==
  ASSUME IInv, NEW n \in Node
  PROVE  /\ Claim(n) \in Asks
         /\ \A id \in Id : About("drop", id) \in Asks
         /\ \A id \in Id : About("request", id) \in Asks
         /\ entry[n].id # 0 =>
              /\ entry[n].id \in Id
              /\ \A to \in Owner \cup {None} : Release(n, to) \in Asks
              /\ \A to \in Owner :
                   [kind |-> "assign", id |-> entry[n].id, to |-> to] \in Asks
  <1>1. Claim(n) \in Asks
    BY NodeAssumption DEF Claim, Asks, Message, ClaimMessage, RegistryKinds
  <1>2. ASSUME NEW id \in Id
        PROVE  About("drop", id) \in Asks /\ About("request", id) \in Asks
    BY DEF About, Asks, Message, ObjectMessage, RegistryKinds
  <1>3. ASSUME entry[n].id # 0
        PROVE  /\ entry[n].id \in Id
               /\ \A to \in Owner \cup {None} : Release(n, to) \in Asks
               /\ \A to \in Owner :
                    [kind |-> "assign", id |-> entry[n].id, to |-> to] \in Asks
    <2>1. entry[n].id \in Id /\ entry[n].ver \in Nat
      BY <1>3, EntryFacts
    <2> QED
      BY <2>1 DEF Release, Asks, Message, ReleaseMessage, AssignMessage,
                  RegistryKinds
  <1> QED
    BY <1>1, <1>2, <1>3

(* What handling a message, or a call of the game, makes a node ask.       *)
LEMMA NodeAsks ==
  ASSUME IInv, NEW n \in Node, NodeReceives(n),
         Head(chan[Down(n)]).kind \notin Marks
  PROVE  /\ reach' = reach
         /\ \/ chan' = Pop(Down(n))
            \/ \E a \in Asks : chan' = Ask(Pop(Down(n)), n, a)
  <1> DEFINE m == Head(chan[Down(n)])
             ch == Pop(Down(n))
  <1>1. m.kind = "transfer" => m.id \in Id /\ m.to \in Owner
    <2>1. m \in Sound(written)
      BY ChannelsApart, PopSound DEF IInv, NodeReceives
    <2> QED
      BY <2>1, MessageFields
  <1> HIDE DEF m, ch
  <1>2. /\ reach' = reach
        /\ \/ chan' = ch
           \/ m.kind = "transfer" /\ NodeTransferRefused(n, m)
           \/ m.kind = "transfer" /\ NodeTransfer(n, m)
    BY DEF NodeReceives, NodeAnnounce, NodeUnregister, NodeDenied,
           NodeTransferRefused, NodeTransfer, Marks, m, ch
  <1>3. ASSUME m.kind = "transfer", NodeTransferRefused(n, m) \/ NodeTransfer(n, m)
        PROVE  \E a \in Asks : chan' = Ask(ch, n, a)
    <2>1. entry[n].id # 0 /\ None \in Owner \cup {None} /\ m.to \in Owner
      BY <1>1, <1>3 DEF NodeTransferRefused, NodeTransfer, Hands, Id
    <2>2. Release(n, None) \in Asks /\ Release(n, m.to) \in Asks
      BY <2>1, AskTypes
    <2> QED
      BY <1>3, <2>2 DEF NodeTransferRefused, NodeTransfer, ch
  <1> QED
    BY <1>2, <1>3 DEF ch

LEMMA GameAsks ==
  ASSUME IInv, NEW n \in Node, Game(n)
  PROVE  chan' = chan \/ \E a \in Asks : chan' = Ask(chan, n, a)
  <1>1. CASE Register(n)
    BY <1>1, AskTypes DEF Register
  <1>2. CASE Unregister(n)
    BY <1>2, EntryFacts, AskTypes DEF Unregister
  <1>3. CASE Request(n)
    BY <1>3, EntryFacts, AskTypes DEF Request
  <1>4. ASSUME NEW to \in Owner, ReleaseTo(n, to)
        PROVE  \E a \in Asks : chan' = Ask(chan, n, a)
    BY <1>4, EntryFacts, AskTypes DEF ReleaseTo
  <1>5. ASSUME NEW to \in Owner, Assign(n, to)
        PROVE  \E a \in Asks : chan' = Ask(chan, n, a)
    BY <1>5, EntryFacts, AskTypes DEF Assign
  <1> QED
    BY <1>1, <1>2, <1>3, <1>4, <1>5 DEF Game

(* A node takes a message that is no mark.                                 *)
LEMMA NodeTakes ==
  ASSUME IInv, LinkInv, NEW n \in Node, chan[Down(n)] # <<>>,
         Head(chan[Down(n)]).kind \notin Marks
  PROVE  LinksOK(Pop(Down(n)), ready) /\ Pop(Down(n)) \in Wires
  <1> DEFINE ch == Pop(Down(n))
  <1>1. /\ ch \in Wires /\ ch[Down(n)] = Tail(chan[Down(n)])
        /\ \A d \in Channel : d # Down(n) => ch[d] = chan[d]
        /\ chan[Down(n)] \in Seq(Message)
    BY WiresType, ChannelsApart, PopAt DEF Wires
  <1> HIDE DEF ch
  <1>2. Kinds(ch[Down(n)]) \subseteq Kinds(chan[Down(n)])
    BY <1>1, KindsPop
  <1>3. ASSUME NEW k \in Others
        PROVE  LinkOK(ch[Up(k)], ch[Down(k)], k \in linked, k \in ready, reach[k])
    <2>1. k \in Node /\ k # Registry
      BY DEF Others
    <2>2. ch[Up(k)] = chan[Up(k)]
      BY <1>1, <2>1, ChannelsApart
    <2>3. CASE k = n
      <3>1. /\ chan[Up(n)] \in Seq(Message) /\ chan[Down(n)] \in Seq(Message)
            /\ reach[n] \in BOOLEAN
            /\ (n \in linked) \in BOOLEAN /\ (n \in ready) \in BOOLEAN
            /\ LinkOK(chan[Up(n)], chan[Down(n)], n \in linked, n \in ready, reach[n])
        BY <2>3, LinkTypes
      <3>2. LinkOK(chan[Up(n)], Tail(chan[Down(n)]), n \in linked, n \in ready,
                   reach[n])
        <4>1. \A link, member, reached \in BOOLEAN :
                LinkOK(chan[Up(n)], chan[Down(n)], link, member, reached) =>
                  LinkOK(chan[Up(n)], Tail(chan[Down(n)]), link, member, reached)
          BY <3>1, LinkTaken
        <4> QED
          BY <3>1, <4>1
      <3> QED
        BY <1>1, <2>2, <2>3, <3>2
    <2>4. CASE k # n
      <3>1. ch[Down(k)] = chan[Down(k)]
        BY <1>1, <2>1, <2>4, ChannelsApart
      <3> QED
        BY <2>2, <3>1, LinkTypes
    <2> QED
      BY <2>3, <2>4
  <1>4. Kinds(ch[Up(Registry)]) \cap Marks = {}
    <2>1. \/ ch[Up(Registry)] = chan[Up(Registry)]
          \/ n = Registry /\ Up(Registry) = Down(n)
      BY <1>1, NodeAssumption, ChannelsApart
    <2>2. Kinds(chan[Up(Registry)]) \cap Marks = {}
      BY DEF LinkInv, LinksOK
    <2> QED
      BY <1>2, <2>1, <2>2
  <1> QED
    BY <1>1, <1>3, <1>4 DEF LinksOK, ch

(* A node takes a mark of the registry.                                    *)
LEMMA NodeMarks ==
  ASSUME IInv, LinkInv, NEW n \in Node, chan[Down(n)] # <<>>,
         Head(chan[Down(n)]).kind \in Marks,
         linked' = linked, ready' = ready,
         \/ Head(chan[Down(n)]).kind = "open" /\ NodeOpen(n)
         \/ Head(chan[Down(n)]).kind = "hello" /\ NodeHello(n)
         \/ Head(chan[Down(n)]).kind = "lost" /\ NodeLost(n)
  PROVE  LinkInv'
  <1> DEFINE p == chan[Up(n)]
             q == chan[Down(n)]
             ch == Pop(Down(n))
  <1>1. chan \in Wires /\ Down(n) \in Channel /\ q \in Seq(Message)
    BY WiresType, ChannelsApart DEF Wires
  <1>2. n \in Others
    <2>1. Head(q).kind \in Kinds(q)
      BY <1>1, KindsPop
    <2>2. n # Registry
      BY <2>1, ChannelsApart DEF LinkInv, LinksOK
    <2> QED
      BY <2>2 DEF Others
  <1>3. /\ p \in Seq(Message) /\ q \in Seq(Message)
        /\ reach[n] \in BOOLEAN
        /\ (n \in linked) \in BOOLEAN /\ (n \in ready) \in BOOLEAN
        /\ LinkOK(p, q, n \in linked, n \in ready, reach[n])
    BY <1>2, LinkTypes
  <1>4. /\ ch \in Wires /\ ch[Up(n)] = p /\ ch[Down(n)] = Tail(q)
        /\ \A c \in Channel : c # Down(n) => ch[c] = chan[c]
    BY <1>1, <1>2, PopAt, ChannelsApart DEF Others
  <1>5. /\ Hello \in Message /\ Claim(n) \in Message /\ Claim(n).kind \notin Marks
    BY MarkKind, AskTypes, AsksAreTalk DEF Message, Mark, Hello, Talk
  <1>6. \A m \in Message :
          /\ Ask(ch, n, m)[Down(n)] = Tail(q)
          /\ CanSend(n) => Ask(ch, n, m)[Up(n)] = Append(p, m)
          /\ ~ CanSend(n) => Ask(ch, n, m) = ch
          /\ \A c \in Channel : c # Up(n) => Ask(ch, n, m)[c] = ch[c]
    BY <1>2, <1>4, AskAt, ChannelsApart DEF Others
  <1>7. reach \in [Node -> BOOLEAN]
    BY DEF IInv, NodesOK
  <1> HIDE DEF p, q, ch
  <1>8. CASE Head(q).kind = "open" /\ NodeOpen(n)
    <2>1. /\ n \in linked
          /\ LinkOK(Append(p, Hello), Tail(q), n \in linked, n \in ready, reach[n])
      <3>1. Hello \in Message /\ q # <<>> /\ Head(q).kind = "open"
        BY <1>5, <1>8 DEF q
      <3>2. \A link, member, reached \in BOOLEAN :
              LinkOK(p, q, link, member, reached) =>
                link /\ LinkOK(Append(p, Hello), Tail(q), link, member, reached)
        BY <1>3, <3>1, NodeSawLink
      <3> QED
        BY <1>3, <3>2
    <2>2. CanSend(n)
      BY <1>8, <2>1 DEF CanSend, LossAhead, Lost, q
    <2>3. chan' = Ask(ch, n, Hello) /\ reach' = reach
      BY <1>8 DEF NodeOpen, ch
    <2>4. /\ LinkOK(chan'[Up(n)], chan'[Down(n)], n \in linked', n \in ready, reach'[n])
          /\ \A c \in Channel : c \notin {Up(n), Down(n)} => chan'[c] = chan[c]
      BY <1>4, <1>5, <1>6, <2>1, <2>2, <2>3
    <2> QED
      BY <1>2, <2>3, <2>4, OneLink
  <1>9. CASE Head(q).kind = "hello" /\ NodeHello(n)
    <2>1. n \in linked /\ LinkOK(p, Tail(q), n \in linked, n \in ready, TRUE)
      BY <1>3, <1>9, NodeMet DEF q
    <2>2. LinkOK(Append(p, Claim(n)), Tail(q), n \in linked, n \in ready, TRUE)
      <3>1. (n \in linked) = TRUE /\ Tail(q) \in Seq(Message)
        BY <1>3, <2>1, HeadTailProperties DEF q
      <3>2. LinkOK(p, Tail(q), TRUE, n \in ready, TRUE)
        BY <2>1, <3>1
      <3>3. LinkOK(Append(p, Claim(n)), Tail(q), TRUE, n \in ready, TRUE)
        BY <1>3, <1>5, <3>1, <3>2, LinkAsked
      <3> QED
        BY <3>1, <3>3
    <2>3. chan' = Ask(ch, n, Claim(n)) \/ chan' = ch
      BY <1>9 DEF NodeHello, ch
    <2>4. reach' = [reach EXCEPT ![n] = TRUE]
      BY <1>9 DEF NodeHello
    <2>5. reach'[n] = TRUE /\ \A k \in Node : k # n => reach'[k] = reach[k]
      BY <1>7, <2>4
    <2>6. /\ LinkOK(chan'[Up(n)], chan'[Down(n)], n \in linked', n \in ready, reach'[n])
          /\ \A c \in Channel : c \notin {Up(n), Down(n)} => chan'[c] = chan[c]
      BY <1>4, <1>5, <1>6, <2>1, <2>2, <2>3, <2>5
    <2> QED
      BY <1>2, <2>5, <2>6, OneLink
  <1>10. CASE Head(q).kind = "lost" /\ NodeLost(n)
    <2>1. LinkOK(p, Tail(q), n \in linked, n \in ready, FALSE)
      BY <1>3, <1>10, NodeSawLoss DEF q
    <2>2. chan' = ch /\ reach' = [reach EXCEPT ![n] = FALSE]
      BY <1>10 DEF NodeLost, ch
    <2>3. reach'[n] = FALSE /\ \A k \in Node : k # n => reach'[k] = reach[k]
      BY <1>7, <2>2
    <2>4. /\ LinkOK(chan'[Up(n)], chan'[Down(n)], n \in linked', n \in ready, reach'[n])
          /\ \A c \in Channel : c \notin {Up(n), Down(n)} => chan'[c] = chan[c]
      BY <1>4, <2>1, <2>2, <2>3
    <2> QED
      BY <1>2, <2>3, <2>4, OneLink
  <1> QED
    BY <1>8, <1>9, <1>10 DEF q

LEMMA NodeLinks ==
  ASSUME IInv, LinkInv, NEW n \in Node, NodeReceives(n)
  PROVE  LinkInv'
  <1> DEFINE m == Head(chan[Down(n)])
  <1>1. chan[Down(n)] # <<>> /\ linked' = linked /\ ready' = ready
    BY DEF NodeReceives, registryVars
  <1>2. CASE m.kind \in Marks
    BY <1>1, <1>2, NodeMarks DEF NodeReceives, NodeKinds, Marks
  <1>3. CASE m.kind \notin Marks
    <2>1. LinksOK(Pop(Down(n)), ready) /\ Pop(Down(n)) \in Wires
      BY <1>1, <1>3, NodeTakes
    <2>2. LinksOK(chan', ready) /\ reach' = reach
      BY <1>3, <2>1, NodeAsks, AsksAreTalk, AskKeeps
    <2> QED
      BY <1>1, <2>2, SameLinks DEF LinkInv
  <1> QED
    BY <1>2, <1>3

LEMMA GameLinks ==
  ASSUME IInv, LinkInv, NEW n \in Node, Game(n)
  PROVE  LinkInv'
  <1>1. linked' = linked /\ ready' = ready /\ reach' = reach
    BY DEF Game, Register, Unregister, Request, ReleaseTo, Assign, registryVars
  <1>2. LinksOK(chan', ready)
    BY GameAsks, AsksAreTalk, AskKeeps, WiresType DEF LinkInv
  <1> QED
    BY <1>1, <1>2, SameLinks DEF LinkInv

LEMMA NetworkLinks ==
  ASSUME IInv, LinkInv, NEW n \in Node, Network(n)
  PROVE  LinkInv'
  <1>1. n \in Others /\ ready' = ready
    BY DEF Network, Connect, Disconnect, Restart, Others, LinkInv, registryVars
  <1> DEFINE p == chan[Up(n)]
             q == chan[Down(n)]
  <1>2. /\ p \in Seq(Message) /\ q \in Seq(Message)
        /\ reach[n] \in BOOLEAN
        /\ (n \in linked) \in BOOLEAN /\ (n \in ready) \in BOOLEAN
        /\ LinkOK(p, q, n \in linked, n \in ready, reach[n])
    BY <1>1, LinkTypes
  <1>3. ASSUME NEW x, NEW y, chan' = [chan EXCEPT ![Up(n)] = x, ![Down(n)] = y]
        PROVE  /\ chan'[Up(n)] = x /\ chan'[Down(n)] = y
               /\ \A c \in Channel : c \notin {Up(n), Down(n)} => chan'[c] = chan[c]
    BY <1>1, <1>3, ChannelsApart, WiresType DEF Others, Wires
  <1>4. reach \in [Node -> BOOLEAN]
    BY DEF IInv, NodesOK
  <1> HIDE DEF p, q
  <1>5. CASE Connect(n)
    <2>1. /\ linked' = linked \cup {n} /\ reach' = reach /\ (n \in linked) = FALSE
          /\ (n \in linked') = TRUE
      BY <1>5 DEF Connect, nodeVars
    <2>2. chan' = [chan EXCEPT ![Up(n)] = Append(p, Opened),
                               ![Down(n)] = Append(q, Opened)]
      BY <1>1, <1>5, ChannelsApart, WiresType DEF Connect, p, q, Others, Wires
    <2>3. /\ chan'[Up(n)] = Append(p, Opened) /\ chan'[Down(n)] = Append(q, Opened)
          /\ \A c \in Channel : c \notin {Up(n), Down(n)} => chan'[c] = chan[c]
      BY <1>3, <2>2
    <2>4. LinkOK(p, q, FALSE, n \in ready, reach[n])
      BY <1>2, <2>1
    <2>5. LinkOK(Append(p, Opened), Append(q, Opened), TRUE, n \in ready, reach[n])
      <3>1. Opened \in Message
        BY DEF Opened, Message, Mark
      <3> QED
        BY <1>2, <2>4, <3>1, LinkConnects
    <2>6. LinkOK(chan'[Up(n)], chan'[Down(n)], n \in linked', n \in ready, reach'[n])
      BY <2>1, <2>3, <2>5
    <2> QED
      BY <1>1, <2>1, <2>3, <2>6, OneLink
  <1>6. CASE Disconnect(n)
    <2>1. /\ linked' = linked \ {n} /\ reach' = reach /\ (n \in linked') = FALSE
          /\ chan' = [chan EXCEPT ![Up(n)] = <<Lost>>, ![Down(n)] = <<Lost>>]
      BY <1>6 DEF Disconnect, CutOff, nodeVars
    <2>2. /\ chan'[Up(n)] = <<Lost>> /\ chan'[Down(n)] = <<Lost>>
          /\ \A c \in Channel : c \notin {Up(n), Down(n)} => chan'[c] = chan[c]
      BY <1>3, <2>1
    <2>3. LinkOK(<<Lost>>, <<Lost>>, FALSE, n \in ready, reach[n])
      BY <1>2, LinkDrops
    <2>4. LinkOK(chan'[Up(n)], chan'[Down(n)], n \in linked', n \in ready, reach'[n])
      BY <2>1, <2>2, <2>3
    <2> QED
      BY <1>1, <2>1, <2>2, <2>4, OneLink
  <1>7. CASE Restart(n)
    <2> DEFINE x == IF n \in linked THEN <<Lost>> ELSE p
    <2>1. /\ linked' = linked \ {n} /\ (n \in linked') = FALSE
          /\ reach' = [reach EXCEPT ![n] = FALSE]
          /\ chan' = [chan EXCEPT ![Up(n)] = x, ![Down(n)] = <<>>]
      BY <1>7 DEF Restart, CutOff, p
    <2>2. reach'[n] = FALSE /\ \A k \in Node : k # n => reach'[k] = reach[k]
      BY <1>4, <2>1
    <2>3. /\ chan'[Up(n)] = x /\ chan'[Down(n)] = <<>>
          /\ \A c \in Channel : c \notin {Up(n), Down(n)} => chan'[c] = chan[c]
      BY <1>3, <2>1
    <2>4. LinkOK(x, <<>>, FALSE, n \in ready, FALSE)
      <3>1. CASE n \in linked
        BY <1>2, <3>1, LinkDrops
      <3>2. CASE n \notin linked
        <4>1. LinkOK(p, q, FALSE, n \in ready, reach[n])
          <5>1. (n \in linked) = FALSE
            BY <3>2
          <5> QED
            BY <1>2, <5>1
        <4>2. LinkOK(p, <<>>, FALSE, n \in ready, FALSE)
          BY <1>2, <4>1, LinkRestarts
        <4> QED
          BY <3>2, <4>2
      <3> QED
        BY <3>1, <3>2
    <2>5. LinkOK(chan'[Up(n)], chan'[Down(n)], n \in linked', n \in ready, reach'[n])
      BY <2>1, <2>2, <2>3, <2>4
    <2> QED
      BY <1>1, <2>1, <2>2, <2>3, <2>5, OneLink
  <1> QED
    BY <1>5, <1>6, <1>7 DEF Network

LEMMA LinkInit == Init => LinkInv
  <1> SUFFICES ASSUME Init PROVE LinkInv
    OBVIOUS
  <1>1. \A n \in Node : chan[Up(n)] = <<>> /\ chan[Down(n)] = <<>>
    BY ChannelsApart DEF Init
  <1>2. Kinds(<<>>) = {} /\ Ordered(<<>>)
    BY KindsMark, OrderedShort
  <1>3. \A n \in Others : ~ reach[n] /\ n \notin linked /\ n \notin ready
    BY DEF Init, Others
  <1>4. ASSUME NEW link \in BOOLEAN, NEW member \in BOOLEAN, NEW reached \in BOOLEAN,
               ~ link, ~ member, ~ reached
        PROVE  LinkOK(<<>>, <<>>, link, member, reached)
    BY <1>2, <1>4 DEF LinkOK, Shape, Counted
  <1>5. ASSUME NEW n \in Others
        PROVE  LinkOK(chan[Up(n)], chan[Down(n)], n \in linked, n \in ready, reach[n])
    <2>1. /\ (n \in linked) \in BOOLEAN /\ (n \in ready) \in BOOLEAN
          /\ reach[n] \in BOOLEAN
      BY DEF Init, Others
    <2>2. LinkOK(<<>>, <<>>, n \in linked, n \in ready, reach[n])
      BY <1>3, <1>4, <2>1
    <2> QED
      BY <1>1, <2>2 DEF Others
  <1> QED
    BY <1>1, <1>2, <1>5, NodeAssumption DEF Init, LinkInv, LinksOK

LEMMA StepLinks == IInv /\ LinkInv /\ [Next]_vars => LinkInv'
  <1> SUFFICES ASSUME IInv, LinkInv, [Next]_vars PROVE LinkInv'
    OBVIOUS
  <1>1. CASE \E n \in Node : CancelReleases(n)
    BY <1>1 DEF CancelReleases, registryVars, LinkInv, LinksOK
  <1>2. CASE UNCHANGED vars
    BY <1>2 DEF vars, registryVars, nodeVars, LinkInv, LinksOK
  <1> QED
    BY <1>1, <1>2, RegistryLinks, TimeoutLinks, NodeLinks, GameLinks, NetworkLinks
       DEF Next

-----------------------------------------------------------------------------
(* Who is in the mesh, who left, and what the record says of them.         *)

MemberInv ==
  /\ departed \cap Members = {}
  /\ PendingSane
  /\ NoDepartedOwner

(* The object goes to an owner that is not known to have left.             *)
LEMMA ChangedSane ==
  ASSUME NEW r \in Record, NEW owner \in Owner, record' = Changed(r, owner),
         owner \notin departed'
  PROVE  PendingSane' /\ NoDepartedOwner'
  BY ChangedType DEF Changed, PendingSane, Pending, NoDepartedOwner

LEMMA CancelledSane ==
  ASSUME IInv, record' = NoTransfer(record),
         record.id # 0 => record.owner \notin departed'
  PROVE  PendingSane' /\ NoDepartedOwner'
  <1>1. record' \in Record /\ record'.id = record.id
        /\ record'.owner = record.owner /\ record'.to = None
    BY RecordFacts, NodeAssumption DEF NoTransfer, Record, Owner
  <1> QED
    BY <1>1 DEF PendingSane, Pending, NoDepartedOwner

(* The handlers of what a member sends keep the members.                   *)
LEMMA MoveMembers ==
  ASSUME IInv, MemberInv, NEW n \in Members, record.id \in Id,
         NEW to \in Members \cup {Nobody}, NEW forced \in BOOLEAN,
         MoveTo(n, to, forced), UNCHANGED <<ready, departed>>
  PROVE  MemberInv'
  <1>1. Members' = Members /\ departed' \cap Members' = {}
    BY DEF Members, MemberInv
  <1>2. to \in Owner /\ Nobody \notin departed
    BY RecordFacts, NodeAssumption DEF Owner, IInv, RegistryOK
  <1>3. CASE Ignore(n)
    BY <1>1, <1>3 DEF Ignore, KeepRecord, MemberInv, PendingSane, NoDepartedOwner
  <1>4. CASE ChangeOwner(Pop(Up(n)), Members, record, to)
    <2>1. record' = Changed(record, to) /\ to \notin departed'
      BY <1>2, <1>4 DEF ChangeOwner, MemberInv
    <2> QED
      BY <1>1, <1>2, <2>1, RecordFacts, ChangedSane DEF MemberInv
  <1>5. CASE record.owner # to /\ record.owner \in Members /\ StartTransfer(n, to, forced)
    <2>1. /\ record' = [record EXCEPT !.to = to, !.req = n]
          /\ record \in Record
      BY <1>5, RecordFacts DEF StartTransfer
    <2>2. /\ record'.to = to /\ record'.req = n
          /\ record'.owner = record.owner /\ record'.id = record.id
      BY <2>1 DEF Record
    <2> QED
      BY <1>1, <1>5, <2>2 DEF MemberInv, PendingSane, NoDepartedOwner
  <1> QED
    BY <1>3, <1>4, <1>5 DEF MoveTo

LEMMA ClaimMembers ==
  ASSUME IInv, MemberInv, NEW n \in Members, NEW m \in Message, m.kind = "claim",
         HandleClaim(n, m), UNCHANGED <<ready, departed>>
  PROVE  MemberInv'
  <1>1. Members' = Members /\ departed' \cap Members' = {}
    BY DEF Members, MemberInv
  <1>2. Nobody \notin departed
    BY NodeAssumption DEF IInv, RegistryOK
  <1>3. CASE record' = record
    BY <1>1, <1>3 DEF MemberInv, PendingSane, NoDepartedOwner
  <1>4. CASE record.id # 0 /\ ClaimKnown(n) /\ record' # record
    <2> DEFINE r == [record EXCEPT !.schema = SchemaToRecord(record.schema)]
    <2>1. \A told \in Schema : SchemaToRecord(told) \in Schema
      BY NodeAssumption DEF SchemaToRecord
    <2>2. r \in Record /\ r.owner = record.owner /\ r.owner \in Owner
      BY <2>1, RecordFacts DEF Record
    <2>3. record' = Changed(r, r.owner)
      BY <1>4 DEF ClaimKnown, ChangeOwner, KeepRecord
    <2>4. r.owner \notin departed'
      BY <1>4, <2>2 DEF MemberInv, NoDepartedOwner
    <2> HIDE DEF r
    <2> QED
      BY <1>1, <2>2, <2>3, <2>4, ChangedSane DEF MemberInv
  <1>5. CASE ClaimNew(n, m)
    <2> DEFINE wanted == IF Controller # Nobody THEN Controller ELSE n
               owner == IF wanted \in departed \ Members THEN Nobody ELSE wanted
    <2>1. /\ record' = [id |-> nextId, ver |-> 1, prev |-> 0, owner |-> owner,
                        schema |-> SchemaToRecord(m.schema), to |-> None,
                        req |-> Nobody]
      BY <1>5 DEF ClaimNew
    <2>2. owner \notin departed
      BY <1>2 DEF MemberInv
    <2> HIDE DEF owner
    <2>3. record'.owner \notin departed' /\ record'.to = None
      BY <2>1, <2>2
    <2> QED
      BY <1>1, <2>3 DEF MemberInv, PendingSane, Pending, NoDepartedOwner
  <1> QED
    BY <1>3, <1>4, <1>5 DEF HandleClaim, Ignore, KeepRecord

LEMMA HandlerMembers ==
  ASSUME IInv, MemberInv, NEW n \in Members, NEW m \in Message,
         UNCHANGED <<ready, departed>>,
         \/ m.kind = "claim" /\ HandleClaim(n, m)
         \/ m.kind = "drop" /\ HandleDrop(n, m)
         \/ m.kind = "request" /\ HandleRequest(n, m)
         \/ m.kind = "assign" /\ HandleAssign(n, m)
         \/ m.kind = "release" /\ HandleRelease(n, m)
  PROVE  MemberInv'
  <1>1. Members' = Members /\ departed' \cap Members' = {}
    BY DEF Members, MemberInv
  <1>2. m.kind \in {"request", "assign", "release"} => m.id \in Id
    BY DEF Message, Mark, ClaimMessage, ObjectMessage, AssignMessage,
           ReleaseMessage, AnnounceMessage, TransferMessage
  <1>3. CASE record' = record
    BY <1>1, <1>3 DEF MemberInv, PendingSane, NoDepartedOwner
  <1>4. CASE m.kind = "claim" /\ HandleClaim(n, m)
    BY <1>4, ClaimMembers
  <1>5. CASE m.kind = "drop" /\ HandleDrop(n, m) /\ record' # record
    <2>1. record'.to = None /\ record'.id = 0
      BY <1>5 DEF HandleDrop, Ignore, KeepRecord, NoRecord
    <2> QED
      BY <1>1, <2>1 DEF MemberInv, PendingSane, Pending, NoDepartedOwner
  <1>6. CASE m.kind = "request" /\ HandleRequest(n, m) /\ record' # record
    BY <1>2, <1>6, MoveMembers DEF HandleRequest, Deny, KeepRecord
  <1>7. CASE m.kind = "assign" /\ HandleAssign(n, m) /\ record' # record
    BY <1>2, <1>7, MoveMembers DEF HandleAssign, Deny, KeepRecord
  <1>8. CASE m.kind = "release" /\ HandleRelease(n, m) /\ record' # record
    <2>1. CASE record' = NoTransfer(record)
      BY <1>1, <2>1, CancelledSane DEF MemberInv, NoDepartedOwner
    <2>2. CASE ChangeOwner(Pop(Up(n)), Members, record,
                           IF m.to \in Members THEN m.to ELSE Nobody)
      <3> DEFINE owner == IF m.to \in Members THEN m.to ELSE Nobody
      <3>1. owner \in Owner /\ owner \notin departed'
        BY RecordFacts, NodeAssumption DEF Owner, IInv, RegistryOK, MemberInv
      <3>2. record' = Changed(record, owner)
        BY <2>2 DEF ChangeOwner
      <3> HIDE DEF owner
      <3> QED
        BY <1>1, <3>1, <3>2, RecordFacts, ChangedSane DEF MemberInv
    <2> QED
      BY <1>8, <2>1, <2>2
         DEF HandleRelease, Ignore, Deny, KeepRecord, CancelTransfer
  <1> QED
    BY <1>3, <1>4, <1>5, <1>6, <1>7, <1>8

(* A node enters the mesh, or leaves it.                                   *)
LEMMA HelloMembers ==
  ASSUME IInv, MemberInv, NEW n \in Node, HandleHello(n)
  PROVE  MemberInv'
  <1>1. Members' = Members \cup {n} /\ departed' = departed \ {n} /\ record' = record
    BY DEF HandleHello, KeepRecord, Members
  <1> QED
    BY <1>1 DEF MemberInv, PendingSane, NoDepartedOwner

LEMMA LostMembers ==
  ASSUME IInv, MemberInv, NEW n \in Others, HandleLost(n)
  PROVE  MemberInv'
  <1>1. /\ Members' = Members \ {n}
        /\ departed' = IF n \in ready THEN departed \cup {n} ELSE departed
    BY DEF HandleLost, Members, Others
  <1>2. departed' \cap Members' = {} /\ Nobody \notin departed'
    BY <1>1, NodeAssumption DEF MemberInv, IInv, RegistryOK, Others
  <1>3. record.id # 0 /\ record.owner # n => record.owner \notin departed'
    BY <1>1 DEF MemberInv, NoDepartedOwner
  <1>4. CASE n \in ready /\ record.owner = n
             /\ ChangeOwner(Pop(Up(n)), Members \ {n}, record, Nobody)
    <2>1. record' = Changed(record, Nobody) /\ Nobody \in Owner
      BY <1>4 DEF ChangeOwner, Owner
    <2> QED
      BY <1>2, <2>1, RecordFacts, ChangedSane DEF MemberInv
  <1>5. CASE InTransfer(n) /\ CancelTransfer(Pop(Up(n)), Members \ {n})
    <2>1. record' = NoTransfer(record) /\ record.owner # n
      BY <1>5 DEF CancelTransfer, InTransfer
    <2> QED
      BY <1>2, <1>3, <2>1, CancelledSane DEF MemberInv
  <1>6. CASE Ignore(n) /\ n \in ready /\ record.owner # n /\ ~ InTransfer(n)
    <2>1. record' = record /\ (Pending(record) => n \notin {record.to, record.req})
      BY <1>6 DEF Ignore, KeepRecord, InTransfer
    <2> QED
      BY <1>1, <1>2, <1>3, <1>6, <2>1
         DEF MemberInv, PendingSane, NoDepartedOwner
  <1>7. CASE Ignore(n) /\ n \notin ready
    <2>1. record' = record /\ Members' = Members /\ departed' = departed
      BY <1>1, <1>7 DEF Ignore, KeepRecord, Members, Others
    <2> QED
      BY <2>1 DEF MemberInv, PendingSane, NoDepartedOwner
  <1> QED
    BY <1>4, <1>5, <1>6, <1>7 DEF HandleLost

LEMMA RegistryMembers ==
  ASSUME IInv, LinkInv, MemberInv, NEW n \in Node, RegistryReceives(n)
  PROVE  MemberInv'
  <1> DEFINE m == Head(chan[Up(n)])
  <1>1. chan[Up(n)] # <<>> /\ m \in Message
    BY WiresType, ChannelsApart, PopAt DEF RegistryReceives
  <1>2. CASE UNCHANGED <<record, ready, departed>>
    BY <1>2 DEF MemberInv, PendingSane, NoDepartedOwner, Members
  <1>3. CASE m.kind = "hello" /\ HandleHello(n)
    BY <1>3, HelloMembers
  <1>4. CASE m.kind = "lost" /\ HandleLost(n)
    BY <1>1, <1>4, MarkTaken, LostMembers DEF Marks
  <1>5. CASE /\ n \in Members /\ UNCHANGED <<ready, departed>>
             /\ \/ m.kind = "claim" /\ HandleClaim(n, m)
                \/ m.kind = "drop" /\ HandleDrop(n, m)
                \/ m.kind = "request" /\ HandleRequest(n, m)
                \/ m.kind = "assign" /\ HandleAssign(n, m)
                \/ m.kind = "release" /\ HandleRelease(n, m)
    BY <1>1, <1>5, HandlerMembers
  <1> QED
    BY <1>2, <1>3, <1>4, <1>5 DEF RegistryReceives, Ignore, KeepRecord

LEMMA StepMembers == IInv /\ LinkInv /\ MemberInv /\ [Next]_vars => MemberInv'
  <1> SUFFICES ASSUME IInv, LinkInv, MemberInv, [Next]_vars PROVE MemberInv'
    OBVIOUS
  <1>1. CASE UNCHANGED <<record, ready, departed>>
    BY <1>1 DEF MemberInv, PendingSane, NoDepartedOwner, Members
  <1>2. CASE TransferTimesOut
    <2>1. record' = NoTransfer(record) /\ Members' = Members /\ departed' = departed
      BY <1>2 DEF TransferTimesOut, CancelTransfer, Members
    <2> QED
      BY <2>1, CancelledSane DEF MemberInv, NoDepartedOwner
  <1>3. ASSUME NEW n \in Node,
               NodeReceives(n) \/ CancelReleases(n) \/ Game(n) \/ Network(n)
        PROVE  UNCHANGED <<record, ready, departed>>
    BY <1>3 DEF NodeReceives, CancelReleases, Game, Register, Unregister, Request,
         ReleaseTo, Assign, Network, Connect, Disconnect, Restart, registryVars
  <1> QED
    BY <1>1, <1>2, <1>3, RegistryMembers DEF Next, vars, registryVars

(* The inductive invariant of links and members together.                  *)
LEMMA AlwaysMembers == Spec => [](IInv /\ LinkInv /\ MemberInv)
  <1>1. Init => IInv /\ LinkInv /\ MemberInv
    <2>1. Init => MemberInv
      BY DEF Init, MemberInv, PendingSane, Pending, NoDepartedOwner, NoRecord
    <2> QED
      BY <2>1, InitInv, LinkInit
  <1>2. IInv /\ LinkInv /\ MemberInv /\ [Next]_vars
          => (IInv /\ LinkInv /\ MemberInv)'
    BY StepInv, StepLinks, StepMembers
  <1> QED
    BY <1>1, <1>2, PTL DEF Spec

(* A transfer only waits for nodes that are in the mesh, and never to give *)
(* the object to the owner it has: whichever of them leaves, and whenever  *)
(* the registry learns it, the transfer is given up (registry_on_peer_left,*)
(* registry_handle_assign, registry_handle_request).                       *)
THEOREM TransfersWaitForMembers == Spec => []PendingSane
  <1>1. MemberInv => PendingSane
    BY DEF MemberInv
  <1> QED
    BY <1>1, AlwaysMembers, PTL

(* The object never stays with a node that was in the mesh and left, nor   *)
(* is it given to one (registry_on_peer_left, registry_handle_claim,       *)
(* registry_handle_release).                                               *)
THEOREM LeaversOwnNothing == Spec => []NoDepartedOwner
  <1>1. MemberInv => NoDepartedOwner
    BY DEF MemberInv
  <1> QED
    BY <1>1, AlwaysMembers, PTL

=============================================================================
