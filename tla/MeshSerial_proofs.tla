-------------------------- MODULE MeshSerial_proofs --------------------------
(***************************************************************************)
(* For every set of nodes, every width of the serials and every believed   *)
(* distance below half of the circle, two serials of one mesh compare like *)
(* the writes they come from, however often the counter wrapped around.    *)
(***************************************************************************)
EXTENDS MeshSerial, TLAPS

SerialInv == SerialTypeOK /\ DistanceInv

(* What two nodes know, in terms of how far they are behind the newest     *)
(* serial: the arithmetic the comparison rests on.                         *)
LEMMA CompareLemma ==
  ASSUME NEW w \in Serial, w # None,
         NEW x \in Serial, x # None,
         NEW y \in Serial, y # None,
         NEW dx \in 0 .. MaxBehind,
         NEW dy \in 0 .. MaxBehind,
         Ahead(w, x) = dx + (IF w < x THEN 1 ELSE 0),
         Ahead(w, y) = dy + (IF w < y THEN 1 ELSE 0)
  PROVE  /\ SerialNewer(y, x) <=> dy < dx
         /\ dx = dy => x = y
  BY SerialAssumption
     DEF Serial, None, MaxBehind, Ahead, SerialNewer

(* The invariant says all that the two properties need.                    *)
LEMMA InvImplies == SerialInv => OrderKept /\ NeverApart
  <1> SUFFICES ASSUME SerialInv PROVE OrderKept /\ NeverApart
    OBVIOUS
  <1>1. ASSUME NEW n \in Node, NEW m \in Node,
               heard[n] # None, heard[m] # None
        PROVE  /\ SerialNewer(heard[m], heard[n]) <=> behind[m] < behind[n]
               /\ behind[n] = behind[m] => heard[n] = heard[m]
    <2>1. /\ newest \in Serial /\ newest # None
          /\ heard[n] \in Serial /\ heard[m] \in Serial
          /\ behind[n] \in 0 .. MaxBehind /\ behind[m] \in 0 .. MaxBehind
      BY <1>1 DEF SerialInv, SerialTypeOK, DistanceInv
    <2>2. /\ Ahead(newest, heard[n])
               = behind[n] + (IF newest < heard[n] THEN 1 ELSE 0)
          /\ Ahead(newest, heard[m])
               = behind[m] + (IF newest < heard[m] THEN 1 ELSE 0)
      BY <1>1 DEF SerialInv, DistanceInv
    <2> QED
      BY <1>1, <2>1, <2>2, CompareLemma
  <1>2. OrderKept
    BY <1>1 DEF OrderKept
  <1>3. ASSUME NEW n \in Node, NEW m \in Node
        PROVE  ~ SerialApart(heard[n], heard[m])
    <2>1. CASE heard[n] = None \/ heard[m] = None
      BY <2>1 DEF SerialApart, SerialNewer
    <2>2. CASE heard[n] # None /\ heard[m] # None
      <3>1. behind[n] \in Nat /\ behind[m] \in Nat
        BY SerialAssumption DEF SerialInv, SerialTypeOK, MaxBehind
      <3> QED
        BY <1>1, <2>2, <3>1 DEF SerialApart
    <2> QED
      BY <2>1, <2>2
  <1> QED
    BY <1>2, <1>3 DEF NeverApart

LEMMA InitInv == SerialInit => SerialInv
  BY SerialAssumption
     DEF SerialInit, SerialInv, SerialTypeOK, DistanceInv, Serial, None,
         MaxBehind

(* One more write moves every known serial one write further behind.       *)
LEMMA WriteLemma ==
  ASSUME NEW w \in Serial, w # None,
         NEW x \in Serial, x # None,
         NEW d \in 0 .. MaxBehind, d < MaxBehind,
         Ahead(w, x) = d + (IF w < x THEN 1 ELSE 0)
  PROVE  Ahead(NextSerial(w), x)
           = d + 1 + (IF NextSerial(w) < x THEN 1 ELSE 0)
  BY SerialAssumption
     DEF Serial, None, MaxBehind, Ahead, NextSerial

LEMMA StepInv == SerialInv /\ [SerialStep]_serialVars => SerialInv'
  <1> SUFFICES ASSUME SerialInv, [SerialStep]_serialVars PROVE SerialInv'
    OBVIOUS
  <1> USE DEF SerialInv
  <1>1. ASSUME NEW n \in Node, Write(n) PROVE SerialInv'
    <2>1. newest' \in Serial /\ newest' # None
      BY <1>1, SerialAssumption
         DEF Write, SerialTypeOK, NextSerial, Serial, None
    <2>2. ASSUME NEW m \in Node, m # n, heard[m] # None
          PROVE  /\ behind[m] \in 0 .. MaxBehind /\ behind[m] < MaxBehind
                 /\ behind'[m] = behind[m] + 1
                 /\ heard'[m] = heard[m]
                 /\ heard[m] \in Serial
      BY <1>1, <2>2 DEF Write, SerialTypeOK
    <2>3. ASSUME NEW m \in Node, m = n \/ heard[m] = None
          PROVE  behind'[m] = 0 /\ heard'[m] = (IF m = n THEN newest' ELSE None)
      BY <1>1, <2>3 DEF Write, SerialTypeOK
    <2>4. SerialTypeOK'
      <3>1. heard' \in [Node -> Serial]
        BY <1>1, <2>1 DEF Write, SerialTypeOK
      <3>2. behind' = [m \in Node |->
                         IF m = n \/ heard[m] = None THEN 0 ELSE behind[m] + 1]
        BY <1>1 DEF Write
      <3>3. ASSUME NEW m \in Node PROVE behind'[m] \in 0 .. MaxBehind
        BY <2>2, <2>3, SerialAssumption DEF MaxBehind
      <3> QED
        BY <2>1, <3>1, <3>2, <3>3 DEF SerialTypeOK
    <2>5. ASSUME NEW m \in Node, heard'[m] # None
          PROVE  Ahead(newest', heard'[m])
                   = behind'[m] + (IF newest' < heard'[m] THEN 1 ELSE 0)
      <3>1. CASE m = n
        BY <2>1, <2>3, <3>1, SerialAssumption DEF Ahead, Serial
      <3>2. CASE m # n
        <4>1. heard[m] # None
          BY <2>3, <2>5, <3>2
        <4>2. /\ newest \in Serial /\ newest # None
              /\ Ahead(newest, heard[m])
                   = behind[m] + (IF newest < heard[m] THEN 1 ELSE 0)
          BY <4>1 DEF SerialTypeOK, DistanceInv
        <4>3. newest' = NextSerial(newest)
          BY <1>1 DEF Write
        <4> QED
          BY <2>2, <3>2, <4>1, <4>2, <4>3, WriteLemma
      <3> QED
        BY <3>1, <3>2
    <2> QED
      BY <2>1, <2>4, <2>5 DEF DistanceInv
  <1>2. ASSUME NEW n \in Node, NEW m \in Node, Hear(n, m) PROVE SerialInv'
    <2>1. heard[m] # None
      BY <1>2 DEF Hear, SerialNewer
    <2> QED
      BY <1>2, <2>1 DEF Hear, SerialTypeOK, DistanceInv
  <1>3. ASSUME NEW n \in Node, Forget(n) PROVE SerialInv'
    BY <1>3, SerialAssumption
       DEF Forget, SerialTypeOK, DistanceInv, None, MaxBehind, Serial
  <1>4. CASE UNCHANGED serialVars
    BY <1>4 DEF serialVars, SerialTypeOK, DistanceInv
  <1> QED
    BY <1>1, <1>2, <1>3, <1>4 DEF SerialStep

(* Every serial a node knows lies at its true distance from the newest one.*)
THEOREM SerialsInvariant == SerialSpec => [](SerialTypeOK /\ DistanceInv)
  <1>1. SerialInit => SerialTypeOK /\ DistanceInv
    BY InitInv DEF SerialInv
  <1>2. SerialTypeOK /\ DistanceInv /\ [SerialStep]_serialVars
          => (SerialTypeOK /\ DistanceInv)'
    BY StepInv DEF SerialInv
  <1> QED
    BY <1>1, <1>2, PTL DEF SerialSpec

(* No serial leaves its bits, however often the writes go around           *)
(* (mesh_next_serial).                                                     *)
THEOREM SerialTypes == SerialSpec => []SerialTypeOK
  BY SerialsInvariant, PTL

(* A node takes a term or a version exactly when it was written later than *)
(* the one it has (mesh_serial_newer).                                     *)
THEOREM OrderAlwaysKept == SerialSpec => []OrderKept
  <1>1. SerialTypeOK /\ DistanceInv => OrderKept
    BY InvImplies DEF SerialInv
  <1> QED
    BY <1>1, SerialsInvariant, PTL

(* Two nodes of one mesh never refuse each other for serials too far apart *)
(* (mesh_serial_apart).                                                    *)
THEOREM AlwaysNeverApart == SerialSpec => []NeverApart
  <1>1. SerialTypeOK /\ DistanceInv => NeverApart
    BY InvImplies DEF SerialInv
  <1> QED
    BY <1>1, SerialsInvariant, PTL
=============================================================================
