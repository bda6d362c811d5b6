---------------------------- MODULE MCArithmetic ---------------------------
(***************************************************************************)
(* The two pieces of integer arithmetic the mesh rests on, apart from each *)
(* other: the serials of MeshSerial, on a circle of a few so that they     *)
(* wrap all the time, and the clock of TickClock, with short round trips   *)
(* and steps, and three masters (two of them tell what one says before and *)
(* after it dropped ticks).  In a behaviour one of them moves.             *)
(***************************************************************************)
EXTENDS MeshSerial, TickClock

VARIABLE moves

ThreeMasters ==
  {[offset |-> 0, epoch |-> 0], [offset |-> 5, epoch |-> 3],
   [offset |-> 5, epoch |-> 4]}

MCInit == SerialInit /\ Init /\ moves \in {"serial", "clock"}
MCNext ==
  \/ moves = "serial" /\ SerialStep /\ UNCHANGED <<vars, moves>>
  \/ moves = "clock" /\ Next /\ UNCHANGED <<serialVars, moves>>
MCSpec == MCInit /\ [][MCNext]_<<serialVars, vars, moves>>
=============================================================================
