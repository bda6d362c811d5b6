-------------------------- MODULE OwnershipLedger --------------------------
(***************************************************************************)
(* What the registry promises about the owner of one synchronized object,  *)
(* without messages: it writes facts (an id, a version and the owner at    *)
(* it) that are never taken back, and every node's view of the object is   *)
(* one of those facts and only moves forward, as long as the object keeps  *)
(* its id.                                                                 *)
(***************************************************************************)
EXTENDS Naturals

CONSTANTS
  Node,     \* the nodes of the mesh
  Owner,    \* who a fact may name: the nodes, or nobody
  Unknown   \* the view of a node that knows nothing of the object

VARIABLES
  written,  \* the facts the registry wrote so far
  view      \* view[n]: the fact node n goes by, or Unknown

Fact(id, ver, owner) == [id |-> id, ver |-> ver, owner |-> owner]

Init ==
  /\ written = {}
  /\ view = [n \in Node |-> Unknown]

Newest(f) == \A g \in written : g.id < f.id \/ (g.id = f.id /\ g.ver <= f.ver)

(* The object gets an id, a new one.                                       *)
Name ==
  \E id \in {1} \cup {g.id + 1 : g \in written}, owner \in Owner :
    /\ \A g \in written : g.id < id
    /\ written' = written \cup {Fact(id, 1, owner)}
    /\ UNCHANGED view

(* The owner changes, or the registry announces the object again.          *)
Change ==
  \E f \in written, owner \in Owner :
    /\ Newest(f)
    /\ written' = written \cup {Fact(f.id, f.ver + 1, owner)}
    /\ UNCHANGED view

(* A node goes by a fact that was written, and not by an older version of  *)
(* the object it knows.                                                    *)
Learn(n) ==
  \E f \in written :
    /\ view[n] # Unknown /\ view[n].id = f.id => view[n].ver <= f.ver
    /\ view' = [view EXCEPT ![n] = f]
    /\ UNCHANGED written

(* A node forgets the object: it restarted, or the registry removed it.    *)
Forget(n) ==
  /\ view' = [view EXCEPT ![n] = Unknown]
  /\ UNCHANGED written

Next == Name \/ Change \/ \E n \in Node : Learn(n) \/ Forget(n)

Spec == Init /\ [][Next]_<<written, view>>

(* Two nodes that go by the same version of the same object name the same  *)
(* owner: what the version of an owner is for.                             *)
OneOwnerPerVersion ==
  \A m, n \in Node :
    /\ view[m] # Unknown /\ view[n] # Unknown
    /\ view[m].id = view[n].id /\ view[m].ver = view[n].ver
    => view[m].owner = view[n].owner
=============================================================================
