-------------------------- MODULE MCSyncSnapshots --------------------------
(* SyncSnapshots with short games of one and two objects.                  *)
EXTENDS SyncSnapshots

CONSTANTS npc, player

(* The player moves at every frame and fires at some; the other object has *)
(* values of its own, and comes back to one it left.                       *)
Game == [o \in Object |-> [f \in Frame |->
  IF o = player
  THEN [v \in Var |-> IF v = "position" THEN f % 2 ELSE (f \div 2) % 2]
  ELSE [v \in Var |-> IF v = "position" THEN 2 + ((f \div 2) % 2) ELSE 2]]]

AGame == {Game}

Budget(o, l, i, k) ==
  [objects |-> o, local |-> l, interest |-> i, links |-> k]
AnyBudget == [{"objects", "local", "interest", "links"} -> 0 .. 3]

Deep == [history |-> 3, ids |-> 1, frames |-> 3, age |-> 3]
Wide == [history |-> 3, ids |-> 2, frames |-> 3, age |-> 3]
Short == [history |-> 2, ids |-> 1, frames |-> 5, age |-> 3]
AnySettings == {Deep, Wide, Short}

(* The game starts when the client's hello was answered, with one or two   *)
(* objects.                                                                *)
One == [id \in NetId |-> IF id = 1 THEN player ELSE NoObject]
Two == [id \in NetId |-> IF id = 1 THEN player ELSE IF id = 2 THEN npc ELSE NoObject]

Scenario(s, objs, b) == settings = s /\ live = objs /\ budget = b

Scenarios ==
  \/ Scenario(Deep, One, Budget(0, 0, 2, 0))
  \/ Scenario(Deep, One, Budget(0, 1, 0, 1))
  \/ Scenario(Deep, One, Budget(0, 0, 1, 1))
  \/ Scenario(Deep, One, Budget(1, 1, 0, 0))
  \/ Scenario(Deep, One, Budget(1, 0, 1, 0))
  \/ Scenario(Deep, One, Budget(0, 1, 1, 0))
  \/ Scenario(Deep, One, Budget(0, 0, 0, 2))
  \/ Scenario(Wide, One, Budget(1, 0, 0, 0))
  \/ Scenario(Wide, Two, Budget(0, 0, 1, 0))
  \/ Scenario(Wide, Two, Budget(0, 1, 0, 0))
  \/ Scenario(Short, One, Budget(2, 0, 0, 0))

Playing ==
  /\ Scenarios
  /\ play \in Plays
  /\ frame = 0
  /\ ticking = FALSE
  /\ released = [id \in NetId |-> NoFrame]
  /\ history = [s \in Slots |-> NoRecord]
  /\ linked = TRUE
  /\ peer = [NewPeer EXCEPT !.relevant = Live]
  /\ local = Object
  /\ remote = [id \in NetId |-> NoRemote]
  /\ received = [s \in Slots |-> NoRecord]
  /\ pending = NoPending
  /\ latest = NoFrame
  /\ needsFull = FALSE
  /\ lacks = {}
  /\ control = [id \in 1 .. Cardinality(Live) |-> RegisterMsg(id, live[id], 0)]
  /\ fulls = <<>>
  /\ deltas = {}
  /\ inputs = {}
  /\ heard = Said(NoFrame, FALSE)
  /\ calm = 0
PlayingSpec == Playing /\ [][Next]_vars
=============================================================================
