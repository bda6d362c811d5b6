--------------------------- MODULE MCHostedMesh ----------------------------
(***************************************************************************)
(* Instances of HostedMesh.  A case is a mesh that formed and what happens *)
(* to it: the steps of each kind are bounded by its budget.                *)
(***************************************************************************)
EXTENDS HostedMesh

Case(in, relayed, off, steps) ==
  [in |-> in, relayed |-> relayed, off |-> off,
   budget |-> [k \in Kinds |-> IF k \in DOMAIN steps THEN steps[k] ELSE 0]]

(* Three players: all their pairs direct, one relayed, a player's relayed. *)
Arrangements == {{}, {{2, 3}}, {{3, 4}}, {{2, 3}, {2, 4}}}
Three(arrangements, steps) ==
  {Case(1 .. 4, relayed, {}, steps) : relayed \in arrangements}

(* A player joins, and the mesh changes meanwhile.                         *)
Joins ==
  LET some == [join |-> 1, refuse |-> 1, leave |-> 1, drop |-> 1,
               remove |-> 1]
  IN {Case({1, 2}, {}, off, some) : off \in {{}, {3}}}
     \cup {Case({1, 2, 3}, {{2, 3}}, {}, [join |-> 1, crash |-> 1])}

(* The host goes, or a player loses it, with a step of another kind.       *)
Takeovers ==
  Three(Arrangements, [handover |-> 2])
  \cup Three(Arrangements, [crash |-> 1, drop |-> 1])
  \cup Three({{{3, 4}}}, [crash |-> 1, cut |-> 1])
  \cup Three({{{2, 3}, {2, 4}}}, [handover |-> 1, leave |-> 1])
  \cup Three({{{2, 3}}}, [end |-> 1, remove |-> 1])

MCInit == Init(Joins \cup Takeovers)
MCSpec == MCInit /\ [][Next]_vars

(* A link drops, and the host crashes while its new list is on its way.    *)
EarlyInit == Init(Three({{}}, [drop |-> 1, crash |-> 1, early |-> 1]))
EarlySpec == EarlyInit /\ [][Next]_vars
=============================================================================
