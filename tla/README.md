# TickSynchronizer in TLA+

TickSynchronizer synchronizes the objects of a game between processes: a *star* (one server, many
clients that predict) or a *mesh* (many servers that share the simulation, each object simulated by
the node that owns it). This directory holds TLA+ modules of its protocols, the TLC configurations
that check them on small instances, and the theorems TLAPS proves about them.

    tlc -workers 2 -config MCMeshRoles.cfg MCMeshRoles.tla      # one run
    tlapm MeshAuthority_proofs.tla                              # one proof

`PROJECT.json` names the runs, the mutants that show that each property can fail, the source lines
every definition stands for, the findings, the hazards and the theorems.
Paths below are under `src/source/`; "core" is `sync/tick_mesh_core.cpp`.

## 1. Inventory

### 1.1 Shared by both engines

| Component | State | Operations | What is hard | What makes it correct |
|---|---|---|---|---|
| `TickClock` (`tick/tick_clock.cpp`) | window of samples, estimate, applied offset (`slew_from`, `slew_start`), epoch, the held timeline | `add_sample`, `offset_at`, `hold`, `set_master_epoch_usec`, `clear_samples` | samples of one master while the timeline of another is held; integer slewing | the estimate is within half a round trip of the master in force; the timeline does not jump and never runs back |
| `TickFixedStepper` (`tick/tick_fixed_stepper.cpp`) | accumulator, pending ticks, next frame, dropped ticks | `advance`, `pop_tick`, `set_next_frame_index` | hitches, jumps, a counter of 32 bits | every tick runs once or is counted as dropped |
| Quarantine (`sync/tick_net_ids.h`) | ids released and when | `tick_prune_quarantine` | wrapping frames | an id is not given again while messages with it are in flight |
| Codecs, buffers, schemas | none that lasts | encode, decode, compare | rounding | decode after encode is within the precision |

### 1.2 The mesh (`sync/tick_mesh_core.cpp`)

| Part | State | Operations | What is hard | What makes it correct |
|---|---|---|---|---|
| Serials | `roles_term`, entry and record `version`, `registry_epoch` | `mesh_next_serial`, `mesh_serial_newer`, `mesh_serial_apart` | wrap around, 0 means none | the comparison keeps the order of the writes |
| Authority registry | registry: `registry`, `registry_ids_by_path`, `next_net_id`, `departed`; node: `entries`, `ids_by_path`, `pending_requests`, `local_objects` | claims, drops, requests, assignments, releases, announcements, denials, timeouts | every message races with every other, with lost links and with the games' calls | one owner per version; nodes at one version agree; what is asked is answered; a frozen object is not forgotten |
| Roles and failover | `roles_term`, `registry_peer`, `clock_master`, `registry_boot`, `clock_boot`, `PeerState`, `sent_status` | hello, roles, role status, `fill_vacant_roles`, `change_roles` | partial views of who is gone, restarts, splits | one successor, no needless move, agreement after a split, a registry in the end |
| Takeover | `registry_settling`, `registry_unreported`, `registry_deferred`, `registry_epoch` | reports, merge, deferred messages | late and conflicting reports | no newer owner is overruled by an older one |
| States | `Sample`s and `last_sent` of an entry | `send_states`, `handle_state` | states of former owners | only the owner's states, in frame order |
| Spawns | `spawns`, `spawn_order` | spawn, despawn, adoption | a node that leaves and comes back | every node ends with the live spawns |
| Events | `pending_events` | send, forward, run, expire | the owner moves while the event is on its way | runs at most once, at the owner |
| Timeline | `clock`, `stepper`, `reference_*`, `timeline_trusted` | ping, pong, `follow_timeline`, take over of the clock | the clock moves | the frames go on |

### 1.3 The star (`sync/tick_sync_core.cpp`)

| Part | State | Operations | What is hard | What makes it correct |
|---|---|---|---|---|
| Session, migration | `peers`, `server_objects`, `remote_objects`, quarantine | hello, welcome, register, bind, become or follow the server | callbacks that remove objects; ids after a migration | a client binds an object to one id |
| Inputs | ring of inputs by frame, `last_received_frame`, `last_input` | receive, resolve, speed | late, lost, repeated inputs | each frame uses its own input once or repeats the last one |
| Snapshots | `server_history`, `acked_snapshot`, `last_full_frame`, `relevant_since`; `received`, `pending_snapshot`, `needs_full` | send, read, acknowledge | base of a delta that is gone, parts lost, interest that changes | what the client decodes is what the server had at that frame; the stream recovers |
| Prediction | `predictions`, `last_reconciled`, dolls | tick, reconcile, rewind, jump | rewinds over frames recorded under other inputs | the prediction meets the server's state |
| Events, spawns | `pending_events` | queue, run, expire | an event before its object | runs once or expires |

### 1.4 Transports and the rest

`TickTransport` gives the cores events (a peer connected or disconnected) and packets, on reliable
ordered and unreliable channels. `TickLocalTransport` is the one of the tests; `EnetStarTransport`
is thin; `EnetMeshTransport` connects every two nodes (simultaneous connections, proofs of a shared
secret); `EnetHostedMeshTransport` has a host that admits players, introduces them, relays what
cannot be direct, and is replaced when it is lost. `TickNetwork`, `TickObject` and `TickSpawner`
bind the cores to the engine; `TickMultiplayerPeer` adapts a transport to the engine's own
multiplayer interface.

| Part of the hosted mesh | State | Operations | What is hard | What makes it correct |
|---|---|---|---|---|
| Host | `members`, `pending_joins`, `introductions`, `next_player_id` | admit, refuse, introduce, register, relay, rejoin, succession | a player leaves in the middle of its introductions; rejoins come in any order | every pair is direct at both ends or relayed |
| Player | `pairs`, `succession`, the confirmation of a loss, `pending_rejoins` | open, punch, give up, relay; lose the host, ask, decide, follow or become the host | two sides give up at different times; a player decides from what it can reach | one host; a player that lost it alone leaves |

### 1.5 How they interact

One thread: the engine calls `process` of a core every physics frame, which polls the transport,
handles all the events and then all the packets, runs the ticks due, and drains its own loopback
queue. Game code runs inside it (listeners, validators, setters) and may call the core again. So
what interleaves is not threads but messages, with events of the transport, calls of the games and
other processes. That is what the models interleave.

## 2. Plan

| # | Module | Models | State |
|---|---|---|---|
| 1 | `MeshSerial` | serials that wrap around | checked, proved |
| 2 | `OwnershipLedger` | what the registry promises, without messages | checked and proved as what 3 implements |
| 3 | `MeshAuthority` | the authority protocol of one object | checked; all of its safety properties and the refinement of 2 proved |
| 4 | `MeshRoles` | terms, statuses, successors, quorum | checked; types, reserves, agreement, the registry, and one broken link proved |
| 5 | `TickClock` | a follower's clock | checked; all of its properties proved |
| 6 | `MeshNode`, `MeshTakeover` | several objects, spawns and events of a mesh whose registry moves: reports, epochs, settling, deferred messages, adoption, forwarding | checked |
| 7 | `SyncSnapshots` | full and delta snapshots, parts, interest, quarantine, registration and binding of objects | checked; types, the bases of deltas, what the client may lack, what it completes and what it comes back to proved |
| 8 | `SyncPeer`, `SyncPlay` | inputs, prediction, rewinds, dolls, events, spawns, sessions, migration of the server | checked |
| 9 | `HostedNode`, `HostedMesh` | admission, introductions, punching, relays, loss of the host | checked |
| 10 | `MeshStates` | the states of objects, and those of former owners | open |
| 11 | `EnetMesh` | simultaneous links that prove a secret | open |

The handlers of one process are operators on its state, in a module of their own (`MeshNode`,
`SyncPeer`, `HostedNode`); the module that composes them has the channels, the faults and the games.

The end of section 5 says what is checked by TLC only, and why.

## 3. What is modelled

### 3.1 MeshSerial

One writer at a time moves the newest serial; nodes gossip what they heard; a node may start over.
`NextSerial`, `SerialNewer` and `SerialApart` are the three helpers at lines 33 to 56 of the core.
The history variable `behind` counts the writes a node has not heard; no node but a fresh one is
`MESH_MAX_SERIAL_JUMP` or more behind, which the code states as its assumption (lines 17 to 28).
The other modules use natural numbers for terms and versions: `OrderKept` is what allows it.

### 3.2 MeshAuthority and OwnershipLedger

One object path, a registry process that stays, any number of nodes.

| Variable | Code |
|---|---|
| `record`, `nextId` | `registry[id]` (a `RegistryRecord`), `next_net_id` |
| `ready`, `departed` | `peers[..].ready` and `departed` at the registry |
| `entry[n]` | `entries[id]` of node n (`bound`: `object` is set; `own`: `release_own`) |
| `local[n]`, `requested[n]` | `local_objects`, `pending_requests` |
| `reach[n]` | the registry is ready for n |
| `chan`, `linked` | the reliable channel each way, and the loopback queue of the registry |
| `written` | history: every (id, version, owner) the registry wrote |

Each handler is one operator, and `RegistryReceives` and `NodeReceives` are the two halves of
`handle_packet` and `handle_events`. The handshake and the transport's events are marks in the
channels, so a message sent before a loss is handled before it or lost with it, and a link may be
lost and back before a side hears of either. What is sent on a link whose loss is not handled yet is
lost (`LossAhead`), as `TickTransport::send` fails for it. `process` handles all events before all
packets and drains the loopback queue last: the model allows these orders and more.
`CancelReleases` is an action of its own because `update_roles` looks at the registry once at the
end of a step, and sees nothing of a link that was lost and came back within it.

A registry that stays is exact for a mesh whose `role_candidates` is its registry with a
`role_quorum` of at most 1: nobody else takes the role, there are no reports, and `registry_epoch`
is the same everywhere; `MeshTakeover` has the other case. Ids are not given again within a run:
`SyncSnapshots` has the quarantine.

`OwnershipLedger` is the promise: facts are written and never taken back, one owner per version, and
a node's view is a written fact that moves only forward. `LedgerSpec` is the refinement.

### 3.3 MeshRoles

| Variable | Code |
|---|---|
| `roles[n]` | `roles_term`, `settings.registry_peer`, `registry_boot` |
| `boot[n]` | `boot_id`, as the number of times the process started: boot ids are only compared for one node |
| `peer[n][m]` | `PeerState` of m (`known`: there is one) |
| `sent[n]` | `status_sent`, `sent_status` |

One role. It is exact for a mesh whose clock master is its registry and whose games move both
together: the two roles then have the same node, the same process and the same vacancy in every
line. All nodes have the same configuration, so no handshake is refused; `UpdateRoles` may come
after any message, the code's comes after a batch of them. `role_quorum` 0 and 1 mean the same. The
configuration is a variable that never changes, so that one run has meshes of several.
A mesh starts with no connection (`Init`), or, to reach further with the same budget of faults, with
every handshake done (`Formed`, in `FormedSpec`). `NoneRestarted` says that every process is the first
of its node.
What the registry does with its records while the role moves is left to `MeshTakeover`, and
`Acts` ignores `registry_settling`, which a timeout ends.

### 3.4 TickClock

A follower, as `handle_pong`, `adopt_roles` and `learn_role_boots` drive it. `true` is the master
that is followed in fact, which the code cannot see; `Accurate` compares the estimate with it. Times
are integers: the code refuses times beyond 2^50 microseconds (`is_plausible_time`), far below the
width of its counters. `Pong` takes any round trip: pings and pongs are lost, delayed and
reordered by the choice of `sent`. Left out: the time this node is the master itself, and the
conversion of a time to a frame (a product and a division).

### 3.5 SyncSnapshots

A server and one of its clients. The server keeps a state per client; clients share only its history,
which no client changes, so one client is as general as many.

| Variable | Code |
|---|---|
| `frame`, `ticking` | `get_next_frame_index()` of the stepper; the server is inside `server_tick` |
| `live`, `released` | `server_objects`, `quarantined_ids` |
| `history`, `received` | `server_history`, `received`: rings of `SnapshotRecord` |
| `peer` | `PeerState` of the client; `recent`: the resend time of its last full snapshot is not over |
| `local`, `remote` | `local_objects`, `remote_objects` (`bound`: `object` is set) |
| `pending`, `latest`, `needsFull` | `pending_snapshot` with its `written_ids`, `latest_snapshot`, `needs_full` |
| `control`, `fulls` | the two reliable channels: ordered each, not with each other |
| `deltas`, `inputs` | the two unreliable ones |
| `lacks`, `heard`, `calm` | history variables of the properties |

`server_tick` is two steps, `Simulate` and `EndFrame`, because game code runs in it: objects come and
go and interest changes after a frame is recorded and before it is sent (`Games`). The server handles
packets between frames, and the client is another process, so its steps are placed between frames too.
The loss, delay and repetition of a delta are the choice of `HandleDelta`: a delta stays on its way until
it is too old to change anything, and one that is lost is one that is never taken.

What is assumed. A message takes fewer frames than the quarantine of an id (`age`), which is what
`tick_sync_core.cpp` line 273 says of its own: if snapshots did not flow for longer than that, the
record of an id given again could still be the one of its former object until the next snapshot. Any
id out of quarantine may be the next one, since the counter goes around while other objects come and
go. Two parts stand for as many as a delta takes. The resend time may be over at any frame, which
includes the doubled one; the client may answer at any time, which includes the answers that
`ack_pending` makes it send. Left out: `snapshot_interval` above 1, malformed messages, schemas that
differ, rejections.

### 3.6 MeshNode and MeshTakeover

A mesh of several objects whose registry moves. `MeshNode` is one node:

| Field | Code |
|---|---|
| `boot`, `roles` | `boot_id`; `roles_term`, `settings.registry_peer`, `registry_boot` |
| `known`, `ready` | `peers`; `peers[m].ready` with the process of m, 0: not ready |
| `objects`, `entry` | `local_objects`, `entries` (`fresh`: the entry's `registry_epoch` is the current one) |
| `record`, `next`, `highest` | `registry`, `next_net_id`, the highest net id this node heard of |
| `settling`, `unreported`, `deferred`, `orphans` | `registry_settling`, `registry_unreported`, `registry_deferred`, `registry_orphan_check` |
| `spawns` | `spawns`: `"none"`, `"live"` or `"adopted"` |
| `pending`, `reported` | `pending_events`; `reported_epoch` is the current one |

A handler is an operator from the state of a node to its next one, and what it sends is collected in
`out`, in order; `MeshTakeover` puts it in the channels. Roles are moved by any node at any time
(`MoveRoles`): `MeshRoles` has the agreement behind it, so a run here has every successor that
agreement allows. A node that takes the role settles: it merges the reports of all nodes, the later
ones too, defers what needs its answer, and resumes once it can act (`FinishTakeOver`, `Resume`).
Requests and assignments of an object are left to `MeshAuthority`: an owner moves by its release.
An event is one record that runs, waits for an owner, follows it within `MaxHops`, or expires. The code
keeps the net id of its object only; the record has the path it was meant for as well, as history, and
`named` is the history of the paths that nodes knew each id by, for `EventsKept`. A node that was alone may
have taken the registry already when a run starts (`Formed`, `alone`).

### 3.7 SyncPeer and SyncPlay

A star at play: a server and clients, one of which may become the server. `SyncPeer` is one peer:

| Field | Code |
|---|---|
| `next` | `get_next_frame_index()` of the stepper |
| `local`, `value` | `local_objects` and their state: the sequence of the inputs an object went through |
| `objects`, `nextId`, `released`, `remote` | `server_objects`, `next_net_id`, `quarantined_ids`, `remote_objects` |
| `clients[c]` | `PeerState`: `known`, `accepted`, `inputs`, `last_input`, `last_received_frame` |
| `history`, `received` | `server_history`, `received` |
| `ownInputs`, `predictions`, `reconciled` | `authority_inputs`, `predictions`, `last_reconciled` |
| `dolls[p]` | `DollPeer`: inputs, own history, next frame, speed in parts of a frame, delay, budget of rewinds |
| `spawns`, `order`, `nextSpawn`, `nodes` | `spawns`, `spawn_order`, `next_spawn_id`; the nodes of `TickSpawner` |
| `pending` | `pending_events` |

The state of an object is the whole sequence of its inputs, the finest state a game can have: any
two histories differ. A snapshot is the map of ids to states of a frame; how it is sent is
`SyncSnapshots`. Game code runs inside a frame: one object removes another (`Killer`, `Victim`) when an
input came twice in a row, so a rewind may remove what the prediction kept, and the other way
around. Events and spawns carry the time they were made (`uid`) as a history variable, and what they
were meant for, to compare with what they ran on. `SyncPlay` has the frames of each peer, which come at
any pace within `ahead`, the local network, the games' calls, and the host that goes (`HostGoes`). Nobody
is told: the transport of each client notices by itself, at any later time, and names the next host to its
core (`Notice`, then `HandleMigrated`), so a client may follow a server that is still a client, and packets
arrive at either before it knows. A despawn frees the node, with its object, only when the engine's frame
ends (`leaving`, `EndFrame`); a name is not given again while its node leaves.

Four history variables are what the properties except, and no more. `refused`: the peers whose hello came
to this one while it was a client, which drops it. `old`: the ids and nodes an earlier server named and the
new one has not named since. `kept`: the ids and spawns a client had when it became the server. And each
event that ran has the server its sender had (`by`), the one it ran under (`under`), and its `target`.

### 3.8 HostedNode and HostedMesh

| Field | Code |
|---|---|
| `status`, `isHost`, `host` | `status`, `is_host`, `host_id` |
| `members`, `joining`, `next` | `members`, `pending_joins`, `next_player_id` |
| `intro[l]` | the `Introduction` of the pair l in `introductions` |
| `pairs[m]` | `pairs[m]`, a `Pair` (`endpoint`: `has_endpoint`; `asks`: `relay_at_usec` is set) |
| `succession`, `highest` | `succession`, `highest_peer_id` |
| `confirming`, `asked`, `answers`, `oldHost` | `confirming`, `confirm_asked`, `confirm_answers`, `confirm_old_host` |
| `rejoins` | `pending_rejoins`: those that came before this node was the host |

Every time that runs out is a step: the registration (`RelayLate`), the punching (`GiveUp`), the grace
before a relay is asked for (`AskRelay`), the confirmation (`Decide`), a join (`RefusePlayer`). Two
players that punch meet by either one's connection (`"dial"`, `Accept`), or give up, at different times. A
link that closes loses what is on its way after some point, and the reason of a close comes in a packet
that may be lost as well. A process is called by the id its host will give it.

`SameView` says that everyone has the host's list of who takes over, reaches everyone on it, and that no
broken link is still unnoticed. A host that goes while it holds is what the code's comments have in mind;
one that goes while it does not goes `early`, which costs a budget of its own, and which the properties of
the run `hosted_mesh` name as their assumption. Lists that differ and links that drop around the loss of
the host are the subject of the run `hosted_early`.

## 4. What the runs show

| Run | Shows | Instance |
|---|---|---|
| `arithmetic` | `SerialTypeOK`, `DistanceInv`, `OrderKept`, `NeverApart`; `TypeOK`, `Accurate`, `NoJump`, `NeverBack` | the serials: 3 nodes, 11 serials, distance 4, so the counter wraps many times; the clock: window of 2, round trips to 3, three masters, 7 units of time. In a behaviour one of the two moves |
| `authority` | `TypeOK`, `LedgerInv`, `Agreement`, `QuiescentViews`, `AnswerComing`, `PendingSane`, `OneSimulator`, `SchemaFromRegistry`, `NoDepartedOwner`, `LedgerSpec`, `ReleaseEnds`, `RequestEnds` | six cases. The registry and a node with every call but one, in turns, and timeouts, refusals, links that drop, restarts, 2 ids: an object is removed and registered again; a node built with other variables; three nodes with requests, releases, assignments and links that drop. Fair polling |
| `roles` | `TypeOK`, `RegistryFound`, `TermsPerFault`, `BrokenLinkKeepsRoles`, `RolesAgree`, `ReservesOnly`, `RolesSettle` | 2 nodes from their start, 3 faults: link lost, restart, roles moved by hand; 3 nodes of a formed mesh, without a quorum, with one of 2, or with one reserve, and 2 or 3 links lost: two parts take the roles apart. Fair polling |
| `roles_two_registries` | finding 1 (`OneRegistry` fails) | 3 nodes, quorum of 2, 3 links lost |
| `roles_apart` | finding 2 (`WholeMeshAgrees` fails) | 3 nodes, the last of which restarts, 3 faults |
| `sync_snapshots` | `TypeOK`, `BaseHeld`, `NeverLacksSilently`, `Recovers`, `RecordsFaithful` | histories of 2 and 3 frames, games of 4 to 6 frames with 1 or 2 objects of 2 variables; one or two disturbances (objects, bindings, interest, links) |
| `mesh_takeover` | `ViewsFollowRegistry`, `ReleasesAnswered`, `SpawnsKept`, `EventsKept` | 3 nodes, 2 paths, 4 ids, room for 1 deferred message; twelve cases, below |
| `mesh_join_while_moving` | finding 3 (`JoinersLearnObjects` fails) | 3 nodes, one of which joins while the registry moves |
| `sync_play` | `OneGame`, `EveryoneTold` | a server and 1 or 2 clients, 6 objects, rings of 8 frames; fifteen cases, below |
| `sync_gone` | finding 5 (`OthersJoinAgain` fails) | a server that goes, and 2 clients |
| `hosted_mesh` | `PairsMeet`, `OneHost` | 4 processes; three cases of a join and eleven of a host that goes, below |
| `hosted_early` | finding 4 (`AlwaysOneHost` fails) | 3 players, a direct link that drops and a host that crashes |

Bounds. `MaxVersion`, `MaxId`, `MaxFlight`, the `faults` and `flight` of `MeshRoles`, `MaxTerm`,
`MaxTrip` and `MaxTime` bound what the games, the network and time may begin, never what a handler does.
Messages beyond `MaxFlight` only hold back new calls and faults: answers still flow.

`authority` has six cases, each with the steps that the games and the network may take (`kinds`) and the
version up to which they take any (`versions`). Two nodes do all but assign, or all but remove an object,
from nothing; and those two things together once the mesh formed; the node built with other variables forms
a mesh with the registry. In the 3-node cases the mesh forms first, one step at a time: in one of them the
object's version goes up to 3, so it changes hands twice while links drop, with messages of each version on
their way, and two transfers can overlap with a release of each, which is the longest chain one handler
looks at (`version` and `previous_version`); in the other one node also assigns it, and links come back.
Timeouts are in the cases of two nodes, and in the theorems of any number of nodes. Three nodes are the
registry, the owner and a requester that is neither; in `MeshRoles` the lost node, its successor and a
witness. `MaxTerm` is one above
the faults of the settings and is never reached: `TermsPerFault` says so. It is about up to three nodes:
of four in a line, 1–2–4–3, node 3 takes the roles of node 1 without any fault, because its only
neighbour, 4, says what it sees itself and does not see 1 either. The 3-node meshes
of `roles` start from the formed mesh (`Formed`), which the handshakes lead to, and lose or
regain a link only when nothing is on its way (`flight` 0); forming the mesh, restarts and
losses among messages are explored with two nodes, because three have too many states.
The clock of `arithmetic` has a slew of half and a step of 2 so that both bind within 7 units of time; its
theorems hold for the values of the code. Deadlock is not checked: games may stop calling, and the
bounds stop them. Symmetry is not used: ids order the successors, the nodes of `MeshAuthority`
differ by role, and those of `MeshSerial` are few enough without it.

`sync_snapshots` starts when the client's hello was answered, in ten scenarios
(`MCSyncSnapshots`), each with a budget of what the games and the network do: a history of 3 frames
with interest, bindings, links and objects that change; two objects, and deltas in two parts; a history
of 2 frames and a game of 6, long enough for an id to leave its quarantine and be given again while
messages of its former object are late. The histories are shorter than the games, so both rings are reused
and a base can be lost. `Recovers` needs no fairness: it says that after two frames with nothing left on its
way the client is right (`calm`), which the run reaches.

The three larger runs start from a mesh or a star that formed, in cases: each has a budget for every kind
of step the games and the network may take, and everything the code itself does is free. A budget
never cuts a handler, and only games and faults wait (`flight`: with that many messages on their way).

* `mesh_takeover`: the registry moves twice, or once while an object is released twice, registered,
  removed, or gets an event; the time for the reports is over early; an event waits while its object is
  removed and another one registered; a node that was alone with the role gave out its own ids and meets the
  mesh, with an event for an object whose id is another one's on the other side; two links drop with a
  quorum of 2; a spawn is made while a link drops or its process restarts; an event follows an object that
  changes owner twice. One place for a deferred message is what the second one needs to be refused.
* `sync_play`: clients play 3 to 5 frames, two of which may be simulated at once, with 2 unreliable
  packets on their way at a time, so a snapshot and inputs overtake each other, and one loss; a doll of an
  object of the server and of another client, with and without budget to be simulated again; one or
  two events from any peer, for an object that is there, comes late, never, or is removed; two spawns, one
  removed, while a client comes, comes back, or the host goes. `History` is 8 because the code compares
  with half of it; a rewind, a jump and an input that comes late all happen within 3 frames of it
  (`Resync` 1, `MaxBuffer` 2).
* `hosted_mesh`: three players whose pairs are all direct, one relayed, or two relayed, and a host that
  hands the mesh over twice, or crashes with a link that drops, or with a player that loses it alone, or
  hands it over with a player that leaves, or ends it; a process that joins, is refused, leaves, or is
  removed while its introductions run and links drop, with its direct connections on or off.

Two bounds of `hosted_mesh` are assumptions, which the comments of its properties name. `Hosted`: links
break, and players are removed, while every player has its host. `~ early`: a host that went did so while
all players had its list of who takes over and reached everyone on it, and no broken link was unnoticed
(`SameView`); links may be in the making, and pairs move to the relay or fail. Without the second
`OneHost` fails, which is finding 4 (`hosted_early`); section 6 says what else happens without either. Deadlock is not checked in these runs either: a spent budget is the end.

Fairness. `process` runs every physics frame of the engine whatever the game does, so receiving, the
end of a step (`CancelReleases`, `UpdateRoles`) and the timeouts are weakly fair. In `MeshRoles` one weak
fairness over all of these steps is enough: the mesh comes to rest whichever node is served, as long
as one is. Nothing is assumed
of the games or of the links: `RequestEnds` says what happens while the link of the node stays as it is,
`ReleaseEnds` what happens unless it comes and goes forever, and the faults of `MeshRoles` are bounded. `RequestEnds` also excepts an object
that is removed, whose pending transfer `registry_handle_drop` forgets with the record.

## 5. What is proved

For every value of the constants that the assumptions in the modules allow.

* `MeshSerial_proofs` (`SerialSpec`): `SerialTypes`, `SerialsInvariant` (types and `DistanceInv`), `OrderAlwaysKept`,
  `AlwaysNeverApart`. `DistanceInv` is the strengthening: a serial is as far behind the newest one
  on the circle as the writes its node has not heard, plus one if they wrapped past 0. The order
  follows because all distances are at most `SerialJump`, less than half of the circle
  (`SerialAssumption`).
* `MeshAuthority_proofs`: `TypesHold`, `LedgerHolds`, `NodesAgree`, `ImplementsLedger`. The inductive
  invariant `IInv` has three parts: `RegistryOK` (the record is the newest fact, ids and versions
  only grow, one owner per version), `NodesOK` (an entry is a written fact), and every channel
  carries sound messages only, an announcement being of a written fact. The last part is what makes
  the second inductive: a node believes what it is told. `StepShape` says how every step changes
  the facts and the entries, and `ImplementsLedger` maps each shape to a step of `OwnershipLedger`
  or to a stutter.
* `MeshAuthorityLinks_proofs`: `TransfersWaitForMembers`, `LeaversOwnNothing`. A node that was seen to
  leave must not own, nor be waited for, whatever the order in which the marks of a connection arrive.
  So the invariant has to know which marks can be on their way: `LinkInv` lists, for what the two ends
  believe of the link (`member`, `reached`) and for whether it is up, the shapes of the two queues
  (`Shape`), among which a handshake never overtakes the loss before it. With it, `MemberInv`
  (members and departed nodes are apart, and the two properties) is inductive.
* `MeshAuthorityViews_proofs`: `NeverTwoGoOn`, `EveryReleaseAnswered`, `QuietViewsAgree`,
  `RegistryDecidesSchema`. `ViewInv` says of each node the registry counts on what is on its way to
  it: nothing older than what it goes by, and in order (`RisingInv`, `FitInv`, `EntryInv`); the record itself,
  unless the node goes by it (`KnowInv`); and, if its object is frozen, the answer, or its release on
  the way up (`AnswerInv`). `QuiescentViews` is what is left of `KnowInv` when the queues are empty;
  `OneSimulator` follows since of two nodes that simulate at least one does not go by the record.
  `SchemaInv` is its own: a record with variables other than the registry's is about to be put right
  by the claim in the registry's loopback queue.
* `MeshRoles_proofs`: the five theorems are about both specifications, from nothing (`Spec`) and from the
  mesh that formed (`FormedSpec`), `BrokenLinkHeld` about the second, which its property means.
  - `RolesTypes`, `ReservesKeep`: roles that are said, in a state or a message, are held by the first
    node or a reserve (`Within(HeldByReserves)`); nobody makes up others.
  - `RolesMeet`: `RolesAgree`, in a mesh of any size as long as no node restarts. Of three or more that
    do, `RolesAgree` says nothing, and finding 2 shows that they may not agree; of two, TLC checks it. The agreement after a split comes from messages of which any may be lost, so the invariant
    `AgreeInv` says who is still going to tell whom. One node knows the latest roles (`CoverInv`: some
    `Top(s)`), and over each of its links that is up, with an end that knows older ones, one of three
    things is on its way (`Caught`): its handshake, to a node that has not passed it yet; the status or
    handshake of that node, with the older roles, which makes it tell; or the later roles themselves. That
    a handshake ends in one of the other two needs `LinksInv`: for each end, what it believes of
    the link fits what is queued for it (`Side`), as in `LinkInv` above. `ProcsInv` is why the
    restarts are excluded: everybody who met the first node knows its only process. In a mesh that is
    whole and silent nothing is on its way, so nobody is older than the top.
  - `RegistryMeets`: `RegistryFound` while nobody restarts. By `RolesMeet` all name one node, and
    `ProcsInv` makes it the process that they mean.
  - `BrokenLinkHeld`: `BrokenLinkKeepsRoles` for any number of nodes. Before the fault the mesh is exactly
    `Formed`. After it (`OneBroken(a, b)`), every third node has told everyone that it sees the first
    registry, its links are up, and nothing but statuses is on its way to others; so the end that lost
    the registry has such a witness, and takes nothing. A third node exists since there are three.
* `TickClock_proofs`: `ClockTypes`, `EstimateAccurate`, `TimelineNeverBack`, `TimelineNoJump`, for
  every window, slew up to the whole, step and set of masters. The inductive invariant `IInv` adds
  to the types that every sample in the window is of the master followed now (`WindowClose`, which
  is why the window is cleared when the master moves), that the estimate is one of the samples, and
  that the slew starts within a step of it. `OffsetMoves` bounds what the slew does in a time,
  through the divisions of the code.
* `SyncSnapshots_proofs`: `StreamTypes`, `BasesAreHeld`, `LackIsTold`, `RecordsAreFaithful`, for any objects, ids, sizes of
  the histories and numbers of disturbances. That the base of a delta is in both rings when the delta arrives
  is not inductive: it depends on what was acknowledged, and on what may still arrive in between. `StreamInv`
  has four parts more than the types. `FramesInv`: what is on its way is of frames that were sent, one message
  a frame. `HistoryInv`: the server's ring has exactly its last frames. `HeldInv`: what the client says it
  has (`acked`, the acknowledgements among the inputs), it keeps for as long as the server may build on it,
  since a newer frame takes its slot a whole round later. `FullInv`: the last full snapshot, which the
  server builds on before it is acknowledged, is with the client or on its way, and nothing that
  arrives meanwhile makes it late, because all that was sent after it is built on it or on a later one.
  `LackIsTold` adds `LacksInv`: an id that a record half put together lacks is one the client will ask for.
  `RecordsAreFaithful` is an action property, and its invariant `FaithInv` has to say of which object each
  state on the client is, which neither side keeps once an id went to another one. So it says that a
  `Book` exists that `Explains` all there is: who had each id last, and from which frame on it is in the
  history (`born`). By that book every state a client keeps is the object's, or older than `born` by a whole
  quarantine (`KeptOK`); every entry on its way is right over its base (`EntryOK`); and whatever the
  client believes of an id that is no longer so, a message on its way ends in time (`ClaimOK`). A step
  that names objects is explained by another book (`Renamed`). Two assumptions carry it: an id rests for two
  rounds of the history, and no message is on its way for longer (`age` in `SnapshotsAssumption`).
  Without the second an old state of an id could still be there when its next object is born.
* `SyncRecovery_proofs`: `StreamRecovers`, that is `Recovers`, without fairness: the frames it counts are those
  at whose start both directions had delivered what was on its way. The invariant `RecoverInv` is the two above
  and two parts more. `HeardInv`: what the server heard is not ahead of what it counts as acknowledged, and a
  full snapshot that was asked for with the newest frame is still to be sent. `CalmInv` follows the
  frames in peace one by one. When a tick starts, `Ready`: the server will send a full snapshot, or, in the
  second frame, the client has the frame before, all of it, and the server knows. After it, what was sent is
  there (`Arrived`), or it comes: a full snapshot with every object (`FullComes`), or the parts of a delta over
  a base both ends have (`DeltaComes`), of which a part that came already is in the client's `pending`.
  The first frame may end with a client that has it and lacks a state; then it asks, which is why
  one frame is not enough and the second one is full.

The arguments of these proofs are not the shape of the model: each theorem states a property of a
run, and for each there is a mutant, a plausible mistake in one handler, with which TLC finds it violated.

Checked by TLC only, and why:

* `ReleaseEnds`, `RequestEnds` and `RolesSettle`: liveness under fairness is out of the prover's reach.
* `TermsPerFault` of `MeshRoles`: it counts. That each fault pays for one term at most needs a measure of what
  the messages under way may still cause, which neither `AgreeInv` nor `LinksInv` gives; it holds for up to
  three nodes only (the comment at the property has the counterexample with four).
* `RegistryFound` where nodes restart, and `RolesAgree` of two nodes that do: see `RolesMeet` and `RegistryMeets`.
* `ViewsFollowRegistry`, `ReleasesAnswered`, `SpawnsKept` and `EventsKept` of `MeshTakeover`, `OneGame` and
  `EveryoneTold` of `SyncPlay`: a handler there goes through several objects, reports or events and changes the
  process, and what it sends, with each; the models do it with folds over sequences. What a fold does for every
  input takes an induction with an operator as parameter, which no installed prover can instantiate.
* `OneHost` and `PairsMeet` of `HostedMesh`: they hold for the disturbances of the run only, and where no host
  went early. Two players that both lose a host that lives, and reach only each other,
  take one of them as the host: for every number of losses there is no theorem to prove.

## 6. Findings

1. `OneRegistry` (core, line 1943, run `roles_two_registries`): the quorum counts connected nodes,
   whatever roles they go by. Three nodes, a quorum of two, a link between 1 and 2 that stays down:
   3 is connected to both, and both go on as the registry, each in quorum with it.
   `doc_classes/TickNetwork.xml` line 211 says that a mesh with such a quorum never gets a second
   registry when it splits.

2. `WholeMeshAgrees` (core, line 562, run `roles_apart`): a node that adopts later roles from a handshake
   passes them on to nobody, and a status that names later roles is not acted on. Node 3, cut off, takes the
   roles; 2 learns them from its handshake; 3 restarts, connects to 1, and then learns the roles it had
   from 2. The mesh is whole and has nothing more to say; 1 goes on as the registry of the first term, and
   2 and 3 wait for 1, the lowest id, to take the roles that were lost. Line 1886 says of an assignment
   that it is passed on first, so every node gets it even without a link to the one that changed it,
   and `tests/test_tick_fuzz.h` line 4 that after links that drop and nodes that restart every node ends with
   the same view. `RolesAgree` is the same property without what breaks it: in a mesh of three or more,
   nobody restarts.

3. `JoinersLearnObjects` (core, line 577, run `mesh_join_while_moving`): the announcements a registry
   sends a node that passed its handshake are dropped if that node does not know the new registry
   yet, because the roles came to it later, from another node's handshake; nothing sends them again.
   Line 572 says that a node that passed the handshake gets the registry's announcements, line 2143
   that one that joins a mesh that moved on learns the objects again from its registry.

4. `AlwaysOneHost` (`transport/enet_hosted_mesh_transport.cpp`, line 2327, run `hosted_early`): a player takes
   over when it is the first of its succession among the players that it still reaches. The link of two players
   drops, and the host crashes when one of the two has noticed and the other has not: the first players of the
   list that they find differ, and two players take over. With other timing each of them follows the other, and the mesh has no host. The comment at
   line 2322 says that everyone has the same list, so everyone picks the same one.

5. `OthersJoinAgain` (`sync/tick_sync_core.cpp`, line 634, run `sync_gone`): the server of two clients goes, and
   each notices by itself. The one that notices first follows the other, and says hello to it once (line 2634).
   The other is still a client, which takes nothing from a peer that is not its server: it counts the hello as
   malformed. When it notices, and becomes the server, nobody says hello again, and the follower never is one
   of its clients. The hosted transport keeps the rejoin of such an early follower (line 1844 there); the core
   keeps nothing. `doc_classes/TickNetwork.xml` line 262 says that the others join the new authority again,
   like after a reconnection. `SameObjects` excepts only the clients this happened to (`refused`).

Seen while modelling, without a run of their own:

* `handle_denied` (core, line 1733) unfreezes the object at any denial of its id. A node whose
  assignment is denied, and that meanwhile released the object for another transfer, simulates it
  again while its release is on its way and will be taken; two nodes then simulate it until the
  announcement arrives. `OneSimulator` holds: that announcement is coming.
* A request that waits for its transfer when its link drops is cancelled by `registry_on_peer_left`
  (core, line 1486) with nobody to tell; the node keeps it in `pending_requests` after the link is
  back, and no answer comes. `RequestEnds` excepts links that drop. The same happens to a request
  when the object is removed, though the node then hears of the removal.
* A node that is cut off while an object is removed keeps its entry: no announcement says that an
  object is gone. If it released the object before, and its link was lost and back within one
  step, the entry stays frozen. `AnswerComing` and `ReleaseEnds` are about the object that exists.
* Two nodes that were cut off while an object was removed each keep their entry, and each may go on with
  its object until the path has an object again and is announced. `OneSimulator` is about the object
  that exists.

Of the mesh (core), with `MeshTakeover`:

* `SpawnHasOwner` is defined and not checked, for it fails: a link between a node that spawned and the
  registry that adopted its spawn comes back after a drop. The registry gives the spawn back while the node,
  which hears of it as adopted, gives it up (lines 2762 to 2766, 574 to 598, 2710 to 2720), and nobody can
  remove it. `tick_mesh_core.h` line 225 says that the registry sends the spawns of the nodes that left,
  and that each node sends its own.
* A claim sent to a node that does not know yet that it is the registry is dropped and not sent again.
* The three forwards of an event can be used up between two nodes that each take the other for the owner,
  until a slow announcement arrives.
* An event keeps only the net id of its object (line 2817). Two registries give out one id twice if they were
  apart, or if one took over without the report of a node that knew the id: an event that was queued by the
  one meaning then runs on the object of the other, at its owner. `EventsKept` excepts the ids that nodes
  knew by two names, and says that none is in a mesh that was never apart and whose registries waited.

Of the hosted mesh (`transport/enet_hosted_mesh_transport.cpp`), which `Hosted` and `~ early` keep out:

* The host goes while a new succession reached some players only: two players take over, as in finding 4.
* A direct link that drops around the loss of the host makes its other end count as gone, as only links
  that were reported are asked (line 2250): two hosts.
* Two handovers in a row, before the rejoins of the first are handled, split the mesh; so does a player that
  was cut from the host and kept an old list.
* After a rejoin that lists a pair as direct while the introduction is relayed already, the report of the
  failed pair is ignored by `host_relay_pair`, and the pair stays failed; the comment at line 2041 says the
  host relays it. A report that reaches a successor before it is the host is ignored too.
* A new host that says a member left, before a player follows it, is ignored: the pair of the member
  stays, and counts toward the limit of pairs.
* The host crashes while a new player's pairs are punching: two players whose only common link is a third,
  which leaves, both take over. A new host that removes a player before that player followed it makes the
  player take over as well.

Of the star (`sync/tick_sync_core.cpp`):

* A rewind simulates again predicted objects the snapshot lacks, from where they are: the inputs apply twice
  until a later snapshot corrects it (lines 1936 to 1990). An object bound while the client predicts is put
  at the latest snapshot without the frames after it (lines 1417 to 1426). `PredictsFromServer` starts after
  either.
* After a migration the ids start at the highest one bound here plus one, and the quarantine is empty (line
  2668): an id that another client still has bound to an object the new server did not know is given to a new
  one, and until the registration arrives snapshots of it are decoded into the other object, and that
  client's events run on the wrong one. `EventsRunRight` excepts just these: an event of an earlier server's
  client, for an id the new server had no object by (`GivenAnew`).
* What the old server said of removed objects and spawns and that went with it is never said again: a client
  may keep ids and nodes of the old server that the new one does not have. `SameObjects` allows these (`old`)
  and no others.
* A spawn id of the new server may be one a client knows from the old server: `TickSpawner` ignores the new
  spawn as one it knows already, and the old node stays in its place. `SameObjects` allows it for the spawns
  that the new server did not know when it took over (`kept`).
* `TickSpawner` frees a node at the end of the engine's frame: a despawn and a spawn of the same name in one
  batch lose the new node. The names that `TickSpawner` makes have the spawn's id in them, so it takes a game that
  gives names itself; in `SyncPeer` no name is given again while its node leaves, and this cannot show.
* An event for an earlier frame can run after one for a later frame when prediction starts; events do not run
  again in a rewind; a client that becomes the server drops its waiting events whose object is not bound,
  which is what `EventsKept` of `SyncPlay` excepts.
* A client that reconnects keeps the spawns that were removed meanwhile. On the local network, where ids of
  peers are used again, it can get messages of its former session.

## 7. Not modelled, and why

* The states of a mesh's objects and their interpolation (`MeshStates`), and the transport of a mesh without
  a host (`EnetMesh`): open, for later.
* The pace of the frames (`TickFixedStepper`): every peer of `SyncPlay` may simulate its next frame at any
  time, so what it decides is one of the behaviours of the model. The speed of a client is left out for the
  same reason; its jumps are modelled.
* Codecs and buffers are sequential conversions of data, floating point in part: the unit tests cover them
  and a model checker adds nothing.
* `TickNetwork`, `TickObject`, the multiplayer peer and the star transport forward calls. `TickSpawner` is in
  `SyncPeer`, as the star uses it.
* Rejected handshakes (versions, precision, other candidates), malformed messages, the limits of untrusted
  networks and statistics are left out: they change no state the properties are about. A stop inside a
  callback is put off to the end of the call by the code (`BusyScope`); the models stop a node between two
  calls.
