---------------------------- MODULE MCMeshRoles ----------------------------
(* MeshRoles with small meshes, and the settings of some of them.          *)
EXTENDS MeshRoles

(* Two nodes that form their mesh, lose the link, restart and move roles.  *)
Pair == [nodes |-> {1, 2}, candidates |-> <<>>, quorum |-> 1,
         environment |-> {"change", "disconnect", "restart"},
         faults |-> 3, flight |-> 2]

(* Three nodes of a mesh that formed, whose links drop.                    *)
Three(candidates, quorum, faults_) ==
  [nodes |-> {1, 2, 3}, candidates |-> candidates, quorum |-> quorum,
   environment |-> {"disconnect"}, faults |-> faults_, flight |-> 0]

AnySettings ==
  {Pair, Three(<<>>, 1, 2), Three(<<>>, 2, 2), Three(<<3>>, 1, 3)}
OnlyTwoOfThree == {Three(<<>>, 2, 3)}

(* The last of the three restarts as well.                                 *)
OnlyRestarting ==
  {[Three(<<>>, 1, 3) EXCEPT !.environment = {"disconnect", "restart"}]}
OnlyLastRestarts == \A n \in Node : n < 3 => boot[n] = 1

MCInit ==
  /\ settings \in Settings
  /\ IF settings = Pair THEN Init ELSE Formed

MCSpec == MCInit /\ [][Next]_vars
MCFairSpec == MCSpec /\ Fairness
=============================================================================
