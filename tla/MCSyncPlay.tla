----------------------------- MODULE MCSyncPlay ----------------------------
(***************************************************************************)
(* Instances of SyncPlay.  A case is a network that plays already; the     *)
(* steps of each kind are bounded by its budget.                           *)
(***************************************************************************)
EXTENDS SyncPlay, TLC

MCController == ("a" :> 2) @@ ("b" :> 2) @@ ("n" :> 1) @@ ("s" :> 1)
                @@ ("t" :> 3) @@ ("x" :> 3)
MCSpawnName == <<"s", "t">>

Case(in, objects, local, frames, onWay, steps) ==
  [in |-> in, objects |-> objects, local |-> local, first |-> 6, dolls |-> 1,
   limits |-> [last |-> 6 + frames, leads |-> {2}, ahead |-> 3, air |-> onWay,
               budget |-> [k \in Kinds |->
                             IF k \in DOMAIN steps THEN steps[k] ELSE 0]]]

(* A client plays: its objects, one of which removes the other; the doll   *)
(* of the server's object; the doll of another client's object, which may  *)
(* be simulated again once, or not at all; and with a host that goes.      *)
OthersDoll(steps) ==
  [Case({1, 2, 3}, <<"x">>, {"x"}, 3, 2, steps)
     EXCEPT !.limits.leads = {1}, !.limits.ahead = 2]
Plays ==
  { Case({1, 2}, <<"a", "b">>, {"a", "b"}, 5, 2, [loss |-> 1]),
    Case({1, 2}, <<"n">>, {"n"}, 4, 2, [loss |-> 1, stale |-> 1]),
    OthersDoll([loss |-> 1]),
    [OthersDoll([loss |-> 1]) EXCEPT !.dolls = 0, !.limits.ahead = 1],
    [OthersDoll([go |-> 1]) EXCEPT !.limits.ahead = 1] }

(* Events: for an object that comes late or never, from a client whose     *)
(* host goes, for an object without which a client takes over, and for one *)
(* that was freed.                                                         *)
Events ==
  { Case({1, 2}, <<"a">>, {}, 1, 1, [event |-> 2, add |-> 1, expire |-> 1]),
    Case({1, 2}, <<"a">>, {}, 2, 1, [event |-> 1, add |-> 1, expire |-> 1]),
    Case({1, 2}, <<"a">>, {"a"}, 2, 1, [event |-> 2, go |-> 1]),
    Case({1, 2, 3}, <<"x", "a">>, {"a"}, 1, 1,
         [event |-> 1, add |-> 1, go |-> 1]),
    Case({1, 3}, <<"a">>, {}, 0, 1, [event |-> 2, spawn |-> 2, free |-> 1]) }

(* Spawns, clients that come and go, and the host that goes.               *)
Spawns ==
  { Case({1, 2, 3}, <<"a">>, {"a"}, 0, 1, [spawn |-> 2, free |-> 1, go |-> 1]),
    Case({1, 2, 3}, <<"a">>, {}, 0, 1,
         [event |-> 1, spawn |-> 1, free |-> 1, go |-> 1]),
    Case({1, 2}, <<"a">>, {"a"}, 0, 1,
         [connect |-> 1, disconnect |-> 1, spawn |-> 2, free |-> 1]),
    Case({1, 2}, <<"a">>, {"a"}, 0, 1,
         [connect |-> 1, spawn |-> 2, free |-> 1, go |-> 1]),
    Case({1, 2}, <<"a">>, {"a"}, 0, 1,
         [connect |-> 1, spawn |-> 1, event |-> 1, go |-> 1]) }

MCInit == Init(Plays \cup Events \cup Spawns)
MCSpec == MCInit /\ [][Next]_vars

(* The host goes while two clients play with it.                           *)
GoneInit == Init({Case({1, 2, 3}, <<"a">>, {"a"}, 1, 1, [go |-> 1])})
GoneSpec == GoneInit /\ [][Next]_vars
=============================================================================
