-------------------------- MODULE MCMeshTakeover ---------------------------
(***************************************************************************)
(* MeshTakeover with three nodes; a case says who formed the mesh, what    *)
(* the games have and how much of what may happen.                         *)
(***************************************************************************)
EXTENDS MeshTakeover

Case(in, quorum, objects, owner, b) ==
  [in |-> in, quorum |-> quorum, objects |-> objects, owner |-> owner,
   alone |-> 0,
   budget |-> [k \in Kinds |-> IF k \in DOMAIN b THEN b[k] ELSE 0]]

None == [n \in Node |-> {}]
Each == [n \in Node |-> {1}]

(* The registry moves while an object is released, registered, removed or  *)
(* gets an event, and twice; the time for the reports may be over early.   *)
(* An event waits while its object is removed and another one registered.  *)
Moves ==
  {Case(Node, 1, Each, 3, [flight |-> 1, move |-> 2]),
   Case(Node, 1, <<{1}, {1}, {}>>, 2, [flight |-> 2, move |-> 1,
                                       release |-> 2, hurry |-> 1]),
   Case(Node, 1, Each, 3, [flight |-> 0, move |-> 1, release |-> 1,
                           register |-> 1]),
   Case(Node, 1, Each, 2, [flight |-> 2, move |-> 1, unregister |-> 1]),
   Case(Node, 1, Each, 3, [flight |-> 0, move |-> 1, event |-> 1,
                           release |-> 1]),
   Case(Node, 1, <<{}, {}, {1}>>, 3, [flight |-> 0, move |-> 1, event |-> 1,
                                      unregister |-> 1, register |-> 1])}

(* A node that was alone takes the registry, or did so and gave its object *)
(* the net id that the object of the others has, and an event is sent;     *)
(* links drop, below the quorum too; a process restarts.                   *)
Faults ==
  {Case({1, 2}, 1, <<{2}, {2}, {1}>>, 2, [flight |-> 0, move |-> 1]),
   [Case({1, 2}, 1, <<{}, {2}, {1}>>, 2, [flight |-> 0, event |-> 1])
    EXCEPT !.alone = 3],
   Case(Node, 2, Each, 3, [flight |-> 2, drop |-> 2, release |-> 1]),
   Case(Node, 1, None, 0, [flight |-> 1, move |-> 1, drop |-> 1,
                           spawn |-> 1]),
   Case(Node, 1, None, 0, [flight |-> 2, restart |-> 1, spawn |-> 1,
                           despawn |-> 1])}

(* An event follows its object, which changes owner twice.                 *)
Follows ==
  {Case(Node, 1, Each, 3, [flight |-> 2, event |-> 1, release |-> 2,
                           expire |-> 1])}

(* A node joins while the registry moves.                                  *)
Joins ==
  {Case({1, 2}, 1, <<{1}, {1}, {}>>, 2, [flight |-> 2, move |-> 1])}

MCInit == Init(Moves \cup Faults \cup Follows)
MCSpec == MCInit /\ [][Next]_vars

JoinInit == Init(Joins)
JoinSpec == JoinInit /\ [][Next]_vars
=============================================================================
