-------------------------- MODULE MCMeshAuthority --------------------------
(***************************************************************************)
(* MeshAuthority with the registry reg and one or two others.  A case says *)
(* who takes part, what the games and the network do from which state on,  *)
(* who calls assign_authority, and up to which version of the object.      *)
(***************************************************************************)
EXTENDS MeshAuthority, TLC

CONSTANTS reg, a, b, c, s1, s2

VARIABLE case  \* the case of this behaviour

(* Node c was built with other variables for the object.                   *)
OtherSchemas == [n \in Node |-> IF n = c THEN s2 ELSE s1]

Case(members, kinds) ==
  [members |-> members, kinds |-> kinds, formed |-> FALSE,
   assigning |-> members, versions |-> 2]

(* The mesh forms first, one step at a time.                               *)
FormedCase(members, kinds, assigning, versions) ==
  [members |-> members, kinds |-> kinds, formed |-> TRUE,
   assigning |-> assigning, versions |-> versions]

(* Two nodes do all of it but one thing, and the two things together; a    *)
(* node of another build meets the registry; three nodes ask for, release  *)
(* and assign the object while links drop.                                 *)
Cases ==
  { Case({reg, a}, Environment \ {"assign"}),
    Case({reg, a}, Environment \ {"unregister"}),
    FormedCase({reg, a}, {"register", "unregister", "assign", "connect",
                          "disconnect"}, {reg, a}, 2),
    Case({reg, c}, {"connect", "register", "unregister"}),
    FormedCase({reg, a, b}, {"request", "release", "assign", "connect",
                             "disconnect"}, {b}, 2),
    FormedCase({reg, a, b}, {"request", "release", "disconnect"}, {}, 3) }

Formed ==
  \A n \in case.members :
    local[n] /\ n \in ready \cup departed \cup {Registry}

Forms ==
  /\ case.formed /\ ~ Formed /\ Quiet
  /\ \E n \in case.members : Register(n) \/ Connect(n)

May(kind) ==
  /\ kind \in case.kinds /\ (case.formed => Formed)
  /\ record.ver < case.versions

Acts(n) ==
  \/ May("register") /\ Register(n)
  \/ May("unregister") /\ Unregister(n)
  \/ May("request") /\ Request(n)
  \/ /\ May("release")
     /\ \E to \in case.members \cup {Nobody} : ReleaseTo(n, to)
  \/ /\ May("assign") /\ n \in case.assigning
     /\ \E to \in case.members \cup {Nobody} : Assign(n, to)
  \/ May("connect") /\ Connect(n)
  \/ May("disconnect") /\ Disconnect(n)
  \/ May("restart") /\ Restart(n)

MCNext ==
  /\ \/ \E n \in case.members :
          RegistryReceives(n) \/ NodeReceives(n) \/ CancelReleases(n)
     \/ TransferTimesOut
     \/ Forms
     \/ \E n \in case.members : Acts(n)
  /\ UNCHANGED case

MCInit == Init /\ case \in Cases
MCSpec == MCInit /\ [][MCNext]_<<vars, case>> /\ Fairness
=============================================================================
