----------------------------- MODULE MeshSerial -----------------------------
(***************************************************************************)
(* The serial numbers of the mesh: the terms of the roles and the versions *)
(* of the owners (src/source/sync/tick_mesh_core.cpp).  A serial is a      *)
(* counter of fixed width that wraps around and skips 0, which means       *)
(* "none".  One writer at a time moves the newest serial on; the nodes     *)
(* gossip what they heard and keep the newer of two serials.  "behind"     *)
(* counts, for the properties only, how many writes a node has not heard.  *)
(***************************************************************************)
EXTENDS Integers

CONSTANTS
  Node,        \* the nodes that hear the serial
  SerialMod,   \* 2^32 in the code
  SerialJump   \* MESH_MAX_SERIAL_JUMP, 2^20 in the code

(* The distance that is still believed is less than half of the circle.    *)
ASSUME SerialAssumption ==
  /\ SerialMod \in Nat
  /\ SerialJump \in Nat
  /\ SerialJump > 1
  /\ 2 * SerialJump < SerialMod

None == 0
Serial == 0 .. (SerialMod - 1)

(* The unsigned difference of two serials.                                 *)
Ahead(value, known) ==
  IF value >= known THEN value - known ELSE value - known + SerialMod

(* Mutants: the counter passes through 0, or does not wrap around.         *)
MutantNextSerialZero(value) == (value + 1) % SerialMod
MutantNextSerialWide(value) == value + 1

NextSerial(value) == IF value + 1 = SerialMod THEN 1 ELSE value + 1

(* Mutants: a plain comparison, and a distance that is one too short.      *)
MutantSerialNewerPlain(value, known) == value > known
MutantSerialNewerShort(value, known) ==
  value # None /\ (known = None \/ Ahead(value, known) \in 1 .. (SerialJump - 1))

(* Whether "value" replaces "known".                                       *)
SerialNewer(value, known) ==
  /\ value # None
  /\ \/ known = None
     \/ Ahead(value, known) \in 1 .. SerialJump

(* Neither serial replaces the other: one of them is not this mesh's.      *)
SerialApart(value, known) ==
  /\ value # known
  /\ ~ SerialNewer(value, known)
  /\ ~ SerialNewer(known, value)

-----------------------------------------------------------------------------
VARIABLES
  newest,   \* the serial written last
  heard,    \* heard[n]: the serial node n knows
  behind    \* behind[n]: how many writes n has not heard (history)

serialVars == <<newest, heard, behind>>

(* "No mesh changes its roles or the owner of an object this many times    *)
(* before a node hears of it": the assumption the code states, one short   *)
(* of SerialJump because the serial skips 0.                               *)
MaxBehind == SerialJump - 1

SerialInit ==
  /\ newest = None
  /\ heard = [n \in Node |-> None]
  /\ behind = [n \in Node |-> 0]

(* The node with the newest serial changes the roles, or the owner.        *)
Write(n) ==
  /\ heard[n] = newest
  /\ \A m \in Node \ {n} : heard[m] # None => behind[m] < MaxBehind
  /\ newest' = NextSerial(newest)
  /\ heard' = [heard EXCEPT ![n] = newest']
  /\ behind' = [m \in Node |->
                  IF m = n \/ heard[m] = None THEN 0 ELSE behind[m] + 1]

(* Node n hears of the serial another node knows.                          *)
Hear(n, m) ==
  /\ SerialNewer(heard[m], heard[n])
  /\ heard' = [heard EXCEPT ![n] = heard[m]]
  /\ behind' = [behind EXCEPT ![n] = behind[m]]
  /\ UNCHANGED newest

(* Node n starts over, with no serial: another node still has the newest.  *)
Forget(n) ==
  /\ heard[n] # None
  /\ \E m \in Node \ {n} : heard[m] = newest
  /\ heard' = [heard EXCEPT ![n] = None]
  /\ behind' = [behind EXCEPT ![n] = 0]
  /\ UNCHANGED newest

SerialStep ==
  \/ \E n \in Node : Write(n)
  \/ \E n, m \in Node : Hear(n, m)
  \/ \E n \in Node : Forget(n)

SerialSpec == SerialInit /\ [][SerialStep]_serialVars

-----------------------------------------------------------------------------
SerialTypeOK ==
  /\ newest \in Serial
  /\ heard \in [Node -> Serial]
  /\ behind \in [Node -> 0 .. MaxBehind]

(* A serial behind by d writes is d, or d + 1 when the writes wrapped past *)
(* 0, short of the newest one: the strengthening the proof needs.          *)
DistanceInv ==
  \A n \in Node : heard[n] # None =>
    /\ newest # None
    /\ Ahead(newest, heard[n]) =
         behind[n] + (IF newest < heard[n] THEN 1 ELSE 0)

(* The comparison of two serials says which of them was written later,     *)
(* however often the counter wrapped around: a node never goes back to an  *)
(* older term or version, and never misses a newer one (mesh_serial_newer).*)
OrderKept ==
  \A n, m \in Node : heard[n] # None /\ heard[m] # None =>
    (SerialNewer(heard[m], heard[n]) <=> behind[m] < behind[n])

(* Two nodes of one mesh never take each other for nodes of another mesh,  *)
(* the reason for a refused handshake (mesh_serial_apart).                 *)
NeverApart == \A n, m \in Node : ~ SerialApart(heard[n], heard[m])
=============================================================================
