# TLA+ models of Chocolate Doom

The repository ports Chocolate Doom 2.3.0 to AIX. Its own program is in
`src/chocolate-doom-2.3.0` (paths below are relative to its `src/` unless they
start with `opl/`); around it lie SDL_net, SDL_mixer, RPM build trees of other
packages and installed binaries. The part of the program where state,
concurrency and failure meet is the network game: several clients and one
server, joined by UDP, that must agree on who plays and then exchange the
commands of every tic. That is what most of these models are about; the others
are about the parts beside it where order, sharing or limits are hard to test:
the tic loop, the server queries, the zone memory with the lump cache, the music
callbacks, the sound cache, and what moves in a level of Doom. The modules are
faithful to the code, its mistakes included: where the code does not keep what
a comment of its own promises, a run shows how.

## 1. Inventory

| Component | State | Operations | Interaction |
|---|---|---|---|
| Connection layer (`net_common.c/.h`) | `net_connection_t`: state, disconnect reason, retries, timers, list of unacknowledged reliable packets, two sequence numbers | `NET_Conn_Packet` and its parsers, `NET_Conn_Run`, `NET_Conn_Disconnect`, `NET_Conn_NewReliable` | embedded in the client and in every slot of the server; eats the packets it knows and leaves the others to its owner |
| Tic numbers (`NET_ExpandTicNum`) | none | completes a byte to a tic number | called by both receivers of game data |
| Server (`net_server.c`) | `server_state`, `clients[]`, `sv_players[]`, `sv_gamemode`, `recvwindow` | `NET_SV_Run`: packets, then each client, then the start check or the window | called from the dedicated loop or from the client's own loop |
| Client (`net_client.c`) | `client_state`, `client_connection`, waiting data, `recvwindow`, `send_queue` | `NET_CL_Connect`, `_Run`, `_LaunchGame`, `_StartGame`, `_SendTiccmd`, `_Disconnect` | calls `D_ReceiveTic` for each complete tic |
| Start of a game, tic loop (`d_loop.c`, `net_gui.c`) | `maketic`, `recvtic`, `gametic`, `skiptics`, `ticdata` | `D_StartNetGame`, `NetUpdate`, `TryRunTics`, `D_QuitNetGame`, `NET_WaitForLaunch` | drives client and server, is called back by the client |
| Queries (`net_query.c`) | targets with state, attempts, times | `NET_Query_*` | own socket; asks servers and the master server |
| Transport (`net_io.c`, `net_loop.c`, `net_sdl.c`) | two loopback rings, a table of addresses | send, receive, resolve, free address | clients are identified by the pointer to a table entry |
| Packet formats (`net_packet.c`, `net_structrw.c`) | none between calls | read, write | |
| Zone memory (`z_zone.c`) and WAD files (`w_wad.c`) | ring of blocks, rover; lump directory and cache | `Z_Malloc`, `Z_Free`, `Z_ChangeTag`; `W_CacheLumpNum`, `W_ReleaseLumpNum` | purging clears the cache's pointer |
| OPL music (`opl/*.c`, `i_oplmusic.c`) | heap of callbacks, clock, two timers | push, pop, clear, adjust; `AdvanceTime` | audio thread against control thread, two mutexes |
| Sound cache (`i_sdlsound.c`) | list of sounds with use counts | lock, unlock, reserve | |
| Moving sectors of Doom (`doom/p_tick.c`, `p_plats.c`, `p_ceilng.c`, `p_doors.c`, `p_floor.c`, `p_spec.c`, `p_saveg.c`) | list of thinkers, `specialdata` of each sector, `activeplats`, `activeceilings`, the saved game | `P_RunThinkers` and the `T_` functions, `EV_Do*` and `EV_VerticalDoor` for lines, `EV_StopPlat`, `EV_CeilingCrushStop`, `P_ArchiveSpecials`, `P_UnArchiveSpecials` | run once a tic; started by players and monsters in between |
| The rest of the games, setup program, text screen | simulation, menus | | driven by tics |

What makes the network hard: packets are lost, duplicated and reordered; every
operation of the protocol has a timer and a retry limit that race with late
answers; clients vanish at any point; the server interleaves the packets of all
clients with a run that visits the slots one after the other; players are
renumbered by handlers that have little to do with each other. What makes each
part correct:

- connection layer: reliable packets are delivered exactly once and in order; no
  packet revives a connection; nobody hangs up without cause; both ends close;
- lobby: one slot per client, no readiness left over from before, the numbers
  clients hold are those the server uses and stay so during a game, a game takes
  along whoever was ready, the server returns to waiting when all are gone;
- game data: every client runs the same commands for each tic, and no lost packet
  stops the game;
- tic loop: a tic is run with the commands made for it, the wait for tics ends, and
  the game goes on when the server is lost;
- queries: each server is reported once, and a search ends;
- zone memory: the ring of headers stays whole while a scan frees what it stands on,
  a lump that is held is not moved, and every call ends;
- music: each track is driven by one callback, the earliest comes first, no callback
  runs after it was cleared, the audio thread always fills its buffer;
- sound cache: what a channel plays stays allocated, and the size limit is kept by
  freeing what no channel plays;
- moving sectors: nothing points to a mover that has ended, what can be stopped is in
  its table, a sector has one mover, each mover gets one turn a tic, and a loaded game
  moves as the saved one did.

The hazards are listed with their lines in `PROJECT.json`.

## 2. Modules

| Module | Models |
|---|---|
| `ReliableStream` | abstract: what reliable packets promise |
| `NetConn` | `net_common.c` at both ends of one connection, over UDP |
| `MCNetConn` | instances of `NetConn` for TLC |
| `NetConnProofs` | proofs about `NetConn` |
| `TicBytes`, `TicNum` | `NET_ExpandTicNum`, and a receiver that uses it |
| `NetLobby` | the server's slots and states and the clients, from connecting to the end of a game |
| `NetLobbyProofs` | proofs about `NetLobby`: the slots, the numbers of the players, the start |
| `MCNetLobby`, `MCLobbyMovers` | instances of `NetLobby` for TLC, the second together with that of `SectorMovers` |
| `Lockstep` | abstract: what the exchange of game data promises to the games |
| `NetGameData` | the windows, queues, requests and acknowledgements of `net_server.c` and `net_client.c` during a game |
| `NetGameDataProofs` | proofs about `NetGameData`: the windows, the limits, the refinement of `Lockstep`, and that a standstill is for good |
| `DLoop` | the tic loop of `d_loop.c`: `NetUpdate`, `TryRunTics`, the ring of tics |
| `NetQuery` | the search for servers (`net_query.c`) |
| `ZoneHeap`, `ZoneHeapProofs` | `z_zone.c` and the lump cache of `w_wad.c`, and proofs about them |
| `OplMusic`, `MCOplMusic` | the callbacks of the music: `opl_queue.c`, the threads of `opl_sdl.c`, the tracks of `i_oplmusic.c` |
| `OplMusicProofs` | proofs about `OplMusic`: the heap, and the callback of each track |
| `SoundCache`, `MCSound` | the allocated sounds and channels of `i_sdlsound.c`; an instance for TLC |
| `PartsProofs` | proofs about `TicNum`, `SoundCache`, `NetQuery` and `DLoop` |
| `SectorMovers`, `MCMovers` | what moves in a level of Doom, the list of thinkers, saving and loading; an instance for TLC |
| `MoversProofs` | proofs about `SectorMovers` |
| `Lists`, `ListsProofs` | what `NetLobby`, `SoundCache` and `SectorMovers` do with lists, and lemmas about lists and recursive functions |
| `MCParts` | instances for TLC of `TicNum`, `NetLobby` (small), `DLoop`, `NetQuery`, `ZoneHeap`, `OplMusic` and `SoundCache`, in one run |

In all the detailed modules some operators stand beside another one that does
the same with a plausible mistake (`AcksAnything` beside `AcksHead`,
`DroppedPlayers` beside `Dropped`, `TwoAhead` beside `MayMake`). The specification does not use them; putting
one in place of its neighbour shows that a property notices the mistake.
`PROJECT.json` pairs them with the properties.

### NetConn

The two ends run the same functions, so the state is a function of the endpoint.
`state`, `reason`, `num_retries`, `reliable_packets`, `reliable_send_seq` and
`reliable_recv_seq` are the fields of `net_connection_t`. `open` is
`net_client_connected` at the client and `active` at the server: a client that
shut down or a slot that was freed neither receives nor runs. `net[e]` holds the
packets in flight to `e`. Each parser is an action; `NET_Conn_Run` is one action
per branch, joined with what the owner does next (`NET_CL_Run`,
`NET_SV_RunClient`), since nothing can happen between the two.

Clocks. Each timer of one or five seconds may be found expired at any run: the
model has more behaviours than the clock would allow. The thirty seconds without
a packet (`CONNECTION_TIMEOUT_LEN`) are the flag `silent`. With `Prompt = TRUE` a
timer is found expired only if no packet is in flight: a network that is much
faster than a second. That instance is for the handshake, where losing one
packet on an otherwise good network is the point.

History variables: `sent`, `delivered` and `losses`. The `body` of a sequenced
packet is the payload's position in the stream and is not looked at by any
guard but `Fresh`, which states the one assumption about the network that
sequence numbers modulo 256 need: a packet of the reliable stream is not
delivered after `Modulus` newer ones. Without it no such protocol is correct.

A connection that is closed is not reused here; the next one starts from `Init`.
There is no connection identifier in the protocol, so packets of an earlier
connection from the same port would be taken for the present one's; a client
binds a fresh UDP port for each process, and the case is left out.
`NET_Conn_Disconnect` is called by the server in any state of a slot that is not
closing already, by the client only after `NET_CL_Connect` has succeeded, hence
its guard. The reject message's text, the printed messages and the freeing of
memory are left out. The payloads of reliable packets are handed to the owner in
whatever state the connection is, as in the code.

### NetLobby

State of the server: `cstate[s]` and `addr[s]` (connection state and client of
slot `s`, `FREE` when the slot is not active), `ready`, `sv_players`,
`sv_gamemode`, `server_state`. `by_age` orders the slots of players by
`connect_time`; two connections within one millisecond are ordered by arrival.
`player_number` is not a variable: the code writes it only in
`NET_SV_AssignPlayers`, as the index in `sv_players` (`PlayerNumber`).
`sv_players` is a variable because it may be older than the connections it
points to, and `NET_SV_NumPlayers` counts in it: this matters when the last
player it knows is gone.

There are 16 slots (`MAXNETNODES`) and 8 places in `sv_players`, and slots that wait
for the ACK do not count against the maximum (`net_server.c:717`), so more than
eight players can become connected. `NET_SV_AssignPlayers` then writes past
the array, and the others count eight. The model has this: `sv_players` is a
sequence of any length, `NumPlayers` counts its first `NET_MAXPLAYERS` places, and a
client with a number that is not below `num_players` discards the waiting data and the
game start (`SaneStart`, `net_client.c:497`). What else the write destroys is undefined and
not followed. So not everybody who is ready gets into the game (`StartReachesAll`
fails); what holds is `StartReachesPlaced`, for those whose number has a place and
for drones, and `StartReachesAll` as long as there are no more players than
places (`AllReachedIfPlaced`). These are proved for any number of clients. The run has eight places and
three clients: nine players are out of TLC's reach here.

State of a client: `link` (its connection, and how it ended), `client_state`,
`is_controller` from the waiting data, `started`, `game`.

The connections are those of `NetConn`, reduced to what is shown there: an ACK, a
DISCONNECT or its answer arrives only if sent, and maybe never; reliable packets
are a queue (`up`, `down`), as `Implements` justifies; an end that hears nothing
drops the connection at a time of its own (`RunClient` with `over`, `Vanishes`).
A packet that its receiver would ignore is not kept. Of waiting data only the last
one not yet taken counts, and only if it changes what the client knows.

`NET_SV_Run` is three phases: packets (`turn = 0`), `RunClient` slot by slot,
`FinishRun`. Clients act while `turn = 0`. A client's step commutes with the
rest of a server run: it changes the client's own variables and the queues to
and from it, of which the run only appends to one. So the order loses nothing.

A client process connects once, as the program does: `NET_CL_Connect` is called
from `D_InitNetGame`, and a failure ends the program. Several processes in a row
on one machine are several addresses.

Left out: the text of console messages and their broadcasts, the contents of the
settings beyond validity (`ValidSettings`), the numbers of players and drones
that waiting data displays, queries, the master server, and everything the server
does in the game with tics, which is in `NetGameData`. The version
check, the magic number and `D_ValidGameMode` reject a client for ever and
simply keep it out of the model.

### TicBytes and TicNum

`NET_ExpandTicNum` with the arithmetic of an `unsigned int` of `Word` values
(`TicBytes`), and a receiver whose window advances while bytes of tics at most
`Spread` away arrive (`TicNum`). That a tic is never farther away is no property of
this function: `WithinReach` of `NetGameData` is about the nodes, and `MaxLate`
about the packets between them.

### NetGameData

The game has started: every slot is connected, and the game start is on its way
to each client (`begun`). Players are the nodes below `NumPlayers`, drones the
others.

| Here | In the code |
|---|---|
| `start`, `recv[p]`, `asked[p]` | the server's `recvwindow_start`, and for each player the entries of `recvwindow` that are `active`, and those that are not but have a `resend_time` |
| `log[n]` | `sendqueue` and `sendseq` of node `n`, never overwritten: which players each tic has commands of (`playeringame`). `SendQueue` is the part the code still has |
| `acked[n]` | `acknowledged` |
| `slot[n]` | `CONNECTED`; `DISCONNECTED_SLEEP` after a hang-up (`CLOSING`); not active (`OUT`) |
| `cl_start`, `cl_recv`, `cl_asked` | the same window at a client |
| `maketic`, `need_ack` | `maketic` of `d_loop.c`, `need_to_acknowledge` |

The contents of commands are not modelled: what matters is whose commands a tic
has. Of the tic numbers in GAMEDATA and GAMEDATA_ACK the code sends the last byte and
completes it from the receiver's window at the time of arrival. Packets are
written with whole numbers, of which the receiver uses only the byte: `ReadAck` and
`ReadTics` complete it (`Expanded`) before anything else looks at it. Requests carry
whole numbers in the code too.

The network is assumed to keep no packet until its numbers are more than `MaxLate`
tics behind the window it comes to (`InTime`), and `MaxLate` may be at most 64. This is
an assumption and not a fact: UDP promises no lifetime, and the code has no check. The byte is
completed wrongly from 65 tics on when the window is least favourable and
from 191 when it is most: a packet about two seconds late may be taken for one of
other tics, a late acknowledgement for one that is 256 tics ahead, and data be discarded that
the node still needs. `NothingDiscardedEarly` holds up to `MaxLate` and fails beyond.

Each handler is an action; it reads its packet and may leave a copy of it in the
network (`Reply`). The second half of `NET_SV_Run` is one action: the clients
in turn (freeing a slot, `PumpSendQueue`, `CheckDeadlock`), then `AdvanceWindow`
and `CheckResends`. `CheckDeadlock` reads the window with its indices exchanged,
as the code does (`Active`). Timers (one second without data, 300 ms after a
request, 200 ms without an acknowledgement) may be found expired at any run;
one at a time, since the next run may find another.

A client's run is `AdvanceWindow` and `CheckResends`; `BuildNewTic` comes after
it in `NetUpdate`. `gametic` is not modelled: it is at most `recvtic`, which is
`cl_start`, so the clients here are those whose game runs as fast as it can. A
client that the server has dropped is not followed, nor what it still displays.

Left out: latencies and the clock adjustment made from them, the compression of
commands to differences (`NET_TiccmdDiff`), console messages.

### DLoop

One node, with the client's receive path below it reduced to what it promises
(`Lockstep`): complete tics arrive in order (`incoming`), at most as many as the
server gets ahead of this node's own commands, or the connection is lost, which
may happen inside any `NetUpdate`. `NET_SV_PumpSendQueue` leaves a client's own commands
out of what it waits for (`net_server.c:1488`), so a tic may come before `BuildNewTic` has made the node's own part of it:
`recvtic` may be ahead of `maketic`, by `ServerLead` tics at most. `HeldTogether` of `NetGameData`
says how many: the larger of `MaxAhead` and `SoloLead`, and one, which is 11 in the code. `maketic`, `recvtic`, `gametic`, `skiptics`,
`local_playeringame` and `ticdata` are the variables of the code; `ticdata` is a ring
and is read and written through `Slot`, so a tic that overwrites another is seen.
`pc`, `lowtic`, `counts` and `stall` are where `TryRunTics` is and its locals. The
time is what the code takes from it: how many tics are due (`due`) and whether the
limit on the wait has passed (`stall`). `config` holds what does not change:
the local player, whether the node is a drone, `new_sync`, `singletics`. `gametic`
counts sets of commands, each of which runs `ticdup` times in one go. `OldNetSync` compares `maketic` with `recvtic` as the code does; its count of four
frames is a choice. A drone that loses the server ends the program
(`D_Disconnected`), and so does `I_Error` ("lowtic < gametic").

### ZoneHeap

`blocks` maps the address of each header to its fields; address 0 is the header in
`mainzone`. `Z_Malloc` looks at one block a step and `Z_FreeTags` frees one block
a step (`call` holds the locals), so that every invariant holds between any two of them,
which is more than what `Z_CheckHeap` could ever test. `Z_Free` is two merges and a
mark. A size includes the header; what is less than `MINFRAGMENT` is not cut off. The
lumps are `W_CacheLumpNum` and `W_ReleaseLumpNum` with one holder at a time: the code
counts no holders, so a second one that releases a lump takes it from the first,
and callers avoid it. Blocks without a user are static or belong to a level, which
`P_SetupLevel` frees by tags. After a block is freed, `Z_FreeTags` reads the link
of the next header even if it was just merged away; it is still intact there.

### OplMusic

`callback_queue` is the heap of the code, an array with the sifting of push and pop as
it is written. The audio thread is `Mix` (a part of the buffer until the next
callback), `AdvanceTime` (pop what is due), `Call` and `Called`, with a step between popping
and calling, where the queue's mutex is released and the callback mutex not yet
taken. The control thread plays, pauses, resumes and stops songs; starting one takes two
steps a track. Times are relative to the clock (`due`), since only differences
matter. Songs have a few tracks with times between their events, tempo changes
included; the rescaling of the heap (`OPL_Queue_AdjustCallbacks`) is integer
division; a remaining time below zero is converted to an unsigned number, which C leaves
undefined, and comes out as the quotient or as 0. The initial state is the wait in `OPL_Delay` during detection. A callback
popped but not yet called when `OPL_ClearCallbacks` runs is marked `stale`; when it is
then called, the code reads freed memory, and the model stops there (`late`).

### SoundCache

`allocated_sounds` is the list, most recently used first; a sound is a pair of effect and
pitch. Each operation is whole, since only one thread changes the list; the mixer's
thread ends a sound at any moment, which is noticed by the next
`I_SDL_UpdateSound`. `malloc` may fail and then frees more (`AllocateSound` takes any
number of further sounds away). A start locks the effect at its normal pitch and, if
the pitch asked for is there already, locks that one too (`i_sdlsound.c:980`), but a
channel unlocks only what it plays: one lock is left over, so such a sound stays
in the cache for good and against the limit (`CacheBounded`, violated). `PlayingIsAllocated`
bounds the counts from below, and `MaxUses` bounds them from above for TLC. What does
hold of the limit is `OnlyLockedLeft`.

### NetQuery

`targets` is the list with each target's state, attempts and age. `NET_Query_Poll` is
three steps, as it reads the clock twice and then the socket: between the first two a
timeout may come, so that a target is queried once more than
`QUERY_MAX_ATTEMPTS`. Whoever is asked may answer, any number of times, at any later
moment, and answers to an earlier search may be on their way.

### SectorMovers

A mover is a block of memory (`Blocks`); `mover[b]` is what is in it, `NULL` when it is free.
Up to three places point to it: the list `thinkers`, `specialdata` of its sector, and for
plats and ceilings an entry of `activeplats` or `activeceilings`.

| Here | In the code |
|---|---|
| `fn` | `thinker.function`: a `T_` function, `NULL` while stopped, -1 when marked (`P_RemoveThinker`) |
| `dir`, `old` | `direction` or `status`, `olddirection` or `oldstatus`, in words that are the same for all kinds |
| `current` | `currentthinker`, as its place in the list |
| `spent` | lines whose `special` was set to 0 by `EV_VerticalDoor` |
| `call` | the `EV_` function, level start or load under way, with its locals; `I_Error` |
| `saved` | what `P_ArchiveSpecials` and `P_ArchiveWorld` write of all this |
| `ran`, `leftout`, `saved.level` | histories: who had a turn in this tic, which ceilings found no place, what there was when the game was saved |

`P_RunThinkers` takes one thinker a step. Lines act between two of them (`LinesMove`): players
move before the first, and monsters are thinkers of the same list. A line with a tag goes
through its sectors one a step (`NextTagged`); nothing comes in between, as in the code, but
every invariant then holds inside the loop as well. Each `T_` function ends its movers as
the code does: plats and ceilings through `P_RemoveActivePlat` and `P_RemoveActiveCeiling`,
doors and floors by themselves. Heights are not followed: what `T_MovePlane` returns and when
a countdown ends is a choice, so a plat may turn at any moment. Of types that differ in
speed, sound and texture only one is there (`AllPlats` and the like). `Timed`, `OpenLines`,
`NextStairs`, `DonutRing` and `OnlyAround` are the level's geometry, which no assumption
restricts. A pillar is in `OnlyAround` when all lines of its ring have the pillar behind them:
`EV_DoDonut` then starts nothing and goes on to the next sector (`p_spec.c:1299`).

Two things the code does are exceptions in the properties. `EV_VerticalDoor` uses the mover a
sector has only for doors that close again (`p_doors.c:407`); a line that opens a door once
starts another one, and so does a donut for its ring, which `EV_DoDonut` does not look at
(`p_spec.c:1327`), if it starts it at all. These sectors are `Doubled`. And `P_ArchiveSpecials` looks for what has no
function among the ceilings only (`p_saveg.c:1709`), so a plat that is stopped is not saved
(`StoppedPlats`), although the comment before it names the plats' list too
(`p_saveg.c:1698`): it does not come back, and its sector is free for other movers.

Left out: mobjs, lights and buttons, which stand in the same list and are independent of the
movers; the rest of a saved game; what `EV_VerticalDoor` writes through `door->direction` when
`specialdata` is a plat (its `wait`) or a ceiling (its `speed`); and with the heights, a plat
that is crushed on its way up and goes down to a `low` that was never set (`p_plats.c:65`,
`:187`).

### MCParts

These parts share nothing with one another, so checking them together says no more than
checking each alone: a behaviour is one of one `part`, the others standing still
in an initial state. It is one run for seven small state graphs, no composition. `MCLobbyMovers` does the
same for the lobby and the movers.

## 3. Runs

| Run | Instance | Shows |
|---|---|---|
| `conn_safety` | modulus 2, one retry, the server sends three reliable packets, two packets in flight to each end | `TypeOK`, `NothingAckedUnseen`, `NoSpuriousHangup`, and `Implements`: the refinement of `ReliableStream` |
| `conn_liveness` | one reliable packet, one packet in flight to each end | `DisconnectEnds`, `NoHalfOpen`, `ReliableArrives` |
| `conn_handshake` | five retries, prompt network, at most one loss counted | violated: `HandshakeSurvivesLoss` |
| `lobby_movers` | lobby: players `a`, `b` and drone `d`, two slots, symmetric in `a` and `b`. Movers: two sectors with one tag, a door behind the second, memory for two movers, tables of one entry | `TypeOK`, `OneSlotPerClient`, `NoStaleReady`, `NumbersAgree`, `StartReachesPlaced`, `NumbersStable`; `NothingDangles`, `AllListed`, `OneMoverEach`, `EachOncePerTic`, `LoadRestores` |
| `lobby_abort` | two players | violated: `AbortOnDisconnect` |
| `game_safety` | two players and a drone, player 1 may leave, windows of 4, three tics, each packet with the tic before, one packet in flight | `TypeOK`, `NothingDiscardedEarly`, `WithinReach`, `HeldTogether`, `WaitForever`, and `Implements`: the refinement of `Lockstep` |
| `game_liveness` | two players, windows of 3, two tics, one packet in flight, packets not repeated | `GapsFilled`, `FirstTicArrives` |
| `game_deadlock` | two players, one packet in flight | violated: `NeverAllWait` |
| `game_desync` | two players and a drone, player 1 may leave, two packets in flight | violated: `SameTics` |
| `parts` | `MCParts`, see below | `ExpandedExactly`; `ServerRecovers` (lobby: player `a`, drone `d`); `RightTics`, `GameGoesOn`, `TryRunTicsReturns`; `HeapSound`, `CacheCoherent`, `ZoneCallsEnd`; `FirstIsEarliest`, `EveryTrackOnce`, `BufferFilled`, `MusicGoesOn`; `PlayingIsAllocated`; `QueryEnds` |
| `opl_clear` | the songs of `parts` | violated: `ClearedForGood` |
| `sound_cache` | the cache of `parts` | violated: `CacheBounded` |

Bounds. A modulus of 2 with three payloads makes the numbers wrap, so that an old
number comes round again while copies of it are in flight; both streams are
independent, and the acknowledgements of one exercise the other direction. One
retry and two differ only in how often a packet is repeated, which duplication
covers. The proofs have no bounds. In the lobby, two slots for three clients make
slots be reused and the server be full; a drone beside two players separates
slots from players. Waiting data with more players than the maximum cannot occur
in these instances.

In the game, windows of four are longer than the lead of either side
(`MaxLag` + 1, `MaxAhead` + 1), as they are in the code (128, 40 and 8), and three
tics make the window advance, wrap around what was asked for, and meet the limit
on the server's lead. `MaxLag` = 1 lets a client miss a tic and get the next. One packet in flight
still means loss of any packet and any number of copies: a packet stays while its
receiver acts, and is lost when another one is sent; two in flight overtake each
other, as `game_desync` needs. For size, a client may make its commands no tic
ahead in `game_safety` (`MaxAhead` = 0) and one in the other three, and the
deadlock check asks for one tic in the two passing runs (`ResendSpan` = 0) and
for two in the violated ones.

In `parts`: words of 1024 and a window that passes the block border at 256; two players
or a drone, a ring of two tics, with the local commands one ahead of the game and the server one ahead of
them, which fills it (in the code 9 and 11 in a ring of 128), three tics, so that an entry is used again; a zone of seven units with lumps of two and three and plain
blocks of two, so that a scan has to purge, merge on both sides, and fail; a song of four
tracks, with equal and different times, that changes its tempo, and one that is empty; three effects, one of which is no sound, two pitches, two channels, room for three
bytes; two servers of which the master lists one, two attempts and a timeout of one.

Of the movers: two movers fill the memory, so `Z_Malloc` fails, and two plats or ceilings find
the tables full; the two sectors are those of one tag, the steps of a stair, and a donut
with its ring, so each may meet the other's mover, and the ring of the second has no way out
(`OnlyAround`); both have timed doors at the level's
start. The second has the door that opens once and is the ring of the first, so only the first is
outside `Doubled`, where `OneMoverEach` applies; the proof is for any level. Of the types of plats, ceilings and doors
the run has those that differ in what they do at their ends (one that ends and one that goes on, and for doors
also one that waits); the others only combine the same directions. The proofs have all. A game is loaded right after it was saved (`LoadedAtOnce`): what happens in between
leaves no trace, and how a loaded game goes on is left to the proofs.

Some properties are proved and in no run: the type invariants of the small parts and of the
movers, `ServerConnectsSecond` and `NoRevival` of the connection, `StartReachesAll` while there is a place for all,
`OnlyLockedLeft` of the sounds, `OneAnswerEach` of the queries (that a server is shown once), `PlatsFound` of the movers. TLC found no error in any of them
on the instance of their module.

Deadlock. The connection really stops (both ends closed), and so do some parts of
`parts` (the last tic, a search that is done, a drone without server, `I_Error` of a full
zone), and the movers at an `I_Error`, so these runs do not check for it. The lobby's server runs for ever;
`lobby_abort` and the runs of the game do check.

Fairness. `NetConn`: the main loop of either side keeps calling `NET_Conn_Run`, so
each branch of it is weakly fair (an expired timer stays expired until noticed),
and a resend, enabled again every second, strongly fair; the network delivers
what is sent again and again (strong fairness of taking the expected payload
and the awaited acknowledgement); and once the other end is gone and nothing is
in flight, silence lasts thirty seconds. Nothing is assumed of the users: they
need not disconnect or send. `NetLobby`: `NET_SV_Run` keeps running, and a slot
whose client is gone or that is being hung up on comes, in one of its turns, to
the end of its timeout or of its retries, which is `NoHalfOpen` and
`DisconnectEnds` of `NetConn`.

`NetGameData`: for one node, `Watched`, and in each direction by itself: an end
that lacks a tic asks again and again, by the runs of its loop that find a timer
expired, so that now and then a request comes through (`ServerAsks`,
`ClientAsks`), is answered (`ClientAnswers`, `ServerAnswers`), and the answer
arrives (`ServerLearns`, `ClientLearns`). These are strongly fair, since the
network may be empty or full of something else in between, and restricted to
packets that help (`Useful`), since the one place of the network could otherwise
be taken by others for ever. The client's loop advances its window (weakly fair).
Nothing is assumed of the other node, and not that the watched one makes tics.
Node 1 is watched because for node 0 the exchanged indices are harmless.

The parts. `DLoop`: the program's loop runs and the clock goes on (weakly fair). Nothing is assumed
of the server, which may stay connected and send nothing for ever (`WaitForever`): `GameGoesOn` says
that the game never stops before a tic that has come, nor without a server. `ZoneHeap`: a call's next step is taken; it is plain
code. `OplMusic`: the sound device keeps asking for samples, and the control thread
finishes `I_OPL_PlaySong`; nothing makes anybody play or stop. `NetQuery`:
`NET_Query_Poll` is called again and again, and the clock goes on between two calls
(`I_Sleep`), which is strongly fair as the loop leaves that point each time. The tic
numbers and the sound cache have no liveness property.

### What the violated runs show

- `HandshakeSurvivesLoss`: a client that is connected ignores the server's
  repeated ACKs (`net_common.c:89`), so when its one ACK is lost, the retries the
  server makes for this case (`net_common.c:378`) cannot succeed and it times the
  client out.
- `AbortOnDisconnect`: a player that hangs up during the startup leaves its slot in
  `DISCONNECTED_SLEEP`, which the abort (`net_server.c:1666`) waits to end and the
  start check does not see.
- `NeverAllWait`: nothing repeats the server's last tics. If every node loses them,
  the players stop at the limit of `BuildNewTic`, the server has all their
  commands, and its check against deadlock (`net_server.c:1579`) asks for
  commands only. `WaitForever` in `game_safety`, proved by `WaitsForGood`, shows that nothing but a node
  that leaves ends the wait.
- `SameTics`: the copies of a tic for different nodes are made in different runs;
  a player that hung up is not waited for (`net_server.c:1495`), but its late
  commands are used (`net_server.c:1544`).

- `ClearedForGood`: `AdvanceTime` lets go of the queue's mutex (`opl_sdl.c:141`) before it
  takes the callbacks' (`opl_sdl.c:143`); `I_OPL_StopSong` fits in between, clears a queue that no
  longer has the popped callback, and frees the tracks it will read.

- `CacheBounded`: a sound that is found at the pitch asked for is locked twice
  (`i_sdlsound.c:870`, `:980`) and unlocked once. It is never freed again, though no channel plays it, and
  the cache is over the limit that `i_sound.c:37` calls a maximum, against "keep freeing sound effects that
  aren't currently being played" (`i_sdlsound.c:184`).

The first player's game is adopted whenever no player is *connected*
(`net_server.c:730`), so two first players that connect at once can bring
different games and both get in. `NetLobby` has this behaviour; its instances are
with one game for all. A client whose ACK arrives after the launch was forwarded to
the connected slots (`net_server.c:791`) is never told of it, and everybody waits for
its settings; the model has that too, and no property speaks of it.

## 4. Proofs

`NetConnProofs` holds for every modulus above one, every number of retries,
payloads, losses and packets in flight (`ModulusAssumption`, `BoundsAssumption`),
and on the network assumption built into `Fresh`.

- `TypeCorrect`: `Spec => []TypeOK`.
- The stream. `NothingAckedUnseen` is not inductive: that an acknowledgement with
  the awaited number acknowledges the awaited payload depends on what is in
  flight. `IInv` adds, for each direction (`StreamInv`): the sequence numbers are
  the counters modulo `Modulus` (`SeqInv`); the sender's list holds the payloads
  after the acknowledged ones, numbered in order (`ListInv`); acknowledged ≤
  delivered ≤ sent (`WindowInv`); a packet in flight carries the number of its
  payload (`DataInv`), and an acknowledgement the number after the payloads
  accepted, at most those delivered (`AckInv`); what is delivered is a prefix
  (`OrderInv`). With `Fresh`, two payloads less than `Modulus` apart whose numbers
  are equal are the same (`SameSeq`, by division with remainder), so the receiver
  takes exactly the next payload and the sender removes exactly an acknowledged
  one. From `IInv` follow `AckedWasDelivered`, `DeliveredInOrder` and, with a
  lemma on how each step changes `sent` and `delivered` (`HistoryStep`), the
  theorem `Refinement`: `Spec => Implements`.
- The connection. `ServerConnectsSecond` and `NoSpuriousHangup` need to know which
  packets can be in flight in which states: `CInv` adds that an ACK to the server
  means that the client has left `CONNECTING`, and a DISCONNECT that its sender is
  closing or closed. From it follow `ServerSecond` and
  `HangupIsReal`; `ClosedForGood` (`NoRevival`) follows from the steps.

`PartsProofs` has four components, with nothing in common. Of `TicNum`: `ExpandExact` (for every word
size that is a multiple of 256, every window start and every tic within 64 of it),
`ExpandTight` (65 ahead is too far, from a window at 255) and `AlwaysExact`, the invariant of the receiver.
Of `SoundCache`, for all effects, pitches and sizes, any finite set of channels and any bound
on the use counts (`SoundAssumption`): `SoundTypeCorrect`, `SoundsStay`
(`PlayingIsAllocated`) and `CacheKept` (`OnlyLockedLeft`: the cache fits, or all that has no lock was freed). `SoundInv` has the list and the use
counts as one value (`Caches`): no sound twice in the list, and a sound with uses is in it;
each function of the cache takes such a value to another, a start to one that has
the new sound, once more in use (`Outcome`); and a sound has at least as many uses as channels that play it.
A limit of 0 is none (`snd_cachesize`), and `OnlyLockedLeft` says so.
Of `NetQuery`, for all servers, any finite list of the master and any timeouts
(`QueryAssumption`): `QueryTypeCorrect` and `AnsweredOnce` (`OneAnswerEach`), from `QueryInv`: no two targets
have one address, and the servers shown are those whose targets have responded.

`ListsProofs` is where the induction is. A set of natural numbers has a least element
(`LeastNumber`), hence what holds at 0 and is handed on holds up to `n` (`UpTo`),
for sets and not for operators. From it follow that recursive equations have
a solution (`Recursion`), and what `Only` and `Total` compute.

`ZoneHeapProofs` holds for every zone size, every limit on fragments, all lumps and all
sizes above zero (`ZoneAssumption`, which also says that `NULL` is no address): `ZoneTypeCorrect`,
`HeapAlwaysSound` (`HeapSound`) and `CacheAlwaysCoherent` (`CacheCoherent`). `Linked` and
`Touching` alone do not say that a new header between two blocks is new, since that the
ring is one needs induction; `Apart` (blocks do not overlap) says it directly and is
preserved by merges and cuts. `MergedHeap` and `CutHeap` are these two; `FreeIsFreed` puts the four
cases of `Z_Free` in one form (`Into`, `Behind`, `Gone`), from which `FreedKeeps` has
that no other block moves and no two free ones touch. `ZoneInv` adds the call: behind the
start of a scan and before its base lies no free block, and it looks at its base or
at the next (`ScanAt`); without that, a merge into the block before would leave base at the wrong
header. `Coherent` adds that a held lump is `PU_STATIC`, which is why no scan frees it.

Of `DLoop`, `PartsProofs` holds for every length of the ring that the lead of `BuildNewTic` and that of the server
fit in together (`LoopAssumption`: 128 against 9 tics with `new_sync`, or 5 without, and 11):
`LoopTypeCorrect` and `AlwaysRightTics` (`RightTics`). `SlotOfOne` is the arithmetic: two tics
in one slot are a whole turn apart; `LastInOwnSlot` that a tic less than a turn
before the end is not overwritten. `LoopInv` says the rest: `maketic` is at most a turn ahead of
`gametic`, the server is never further ahead of `maketic` than `ServerLead`, what `GetLowTic` counted stays there
(`Counted`), and the slots of the tics still to be run hold their commands (`RingInv`).
`UpdateKeeps` shows that for any `NetUpdate`, with any number of tics received and made, so
that the actions have only their own numbers left. It follows on the way that "lowtic < gametic"
in `TryRunTics` is never true for a node that plays.

`NetLobbyProofs` holds for any number of clients and slots and every policy of
`LobbyAssumption`, which does not relate the number of clients to that of places: `LobbyTypeCorrect` (`TypeOK`), `OneSlotEach` (`OneSlotPerClient`; its first part alone is
`NoSecondSlot`), `ReadinessEnds` (`NoStaleReady`), `NumbersAgreed` (`NumbersAgree`), `StartReached`
(`StartReachesPlaced`), `AllReachedIfPlaced` (`StartReachesAll` unless `sv_players` is over-full) and `NobodyRenumbered` (`NumbersStable`). `SlotInv` strengthens
`NoStaleReady` by the slots that wait for the ACK (`NobodyReady`): a client's GAMESTART may come
before its ACK and make such a slot ready, so that `NET_SV_GameEnded` has to drop these
too, as it does. `LobbyInv` says how far the two ends may differ. Of each client
(`ClientOK`): one that is not connected knows of no game (`Outsider`), and a game start, said or
told, is only under way if the client is past the launch (`Startup`). Of each slot (`SlotOK`): one
that waits for the ACK stands for a client that heard of no launch (`Unheard`); one that is ready,
for a client that is past the launch or left (`Behind`); and every game start that its client holds or
has in its queue is the one of the game the server plays now, with the number the
server counts it by (`Current`), from which the numbers agree. A game start cannot
survive its game because the queues end with the connection: a client that was let in again got a new one.
`Seniority` is that `by_age` has the slots of players, each once.

`NetGameDataProofs` holds for any number of players and drones, any windows, losses, any delay
up to `MaxLate` and any limits below 64 together, as long as a player who is alone is not allowed more tics ahead than the others
(`SoloLead <= MaxLag` in `GameDataAssumption`: 10 and 40 in `net_server.c:1517` and
`:1467`): `DiscardsInTime` (`NothingDiscardedEarly`), `AlwaysWithinReach` (`WithinReach`),
`AlwaysHeldTogether` (`HeldTogether`) and the refinement `InLockstep` (`Implements`). `GameInv` follows the
tics once around. What is in flight, however old, has been made or was queued for the node it goes to, and its
acknowledgement is not ahead of the window that sent it (`Fits`, which is never undone:
`FitsLater`); so the windows hold nothing else (`Held`), a client's window is advanced only
over what was queued for it (`NextGapBounds`), and the server's only over what all nodes acknowledged (`Acknowledged`).
A queued tic has the commands of every other player there is, all made (`Whole`), hence
`RefinesRun`: the tics between the old and the new start of a client's window are
complete. For the limits, `NET_SV_AdvanceWindow` must not stop before what has been
acknowledged, although it also stops at a tic that a player misses. A tic that two nodes
have acknowledged was queued for one that is not that player, with its commands, and these
are still in the window (`InStock`); so `AdvancedFar`: at the end of a run the window
has come at least to where the acknowledgements were when the run queued a tic.
With the constants of the code `WithinReach` is 41 and 50 tics; `ExpandExact` needs 64. So a number that is
in time is completed to itself (`NumbersExpand`), which every step that reads one rests on: the invariants
and this are proved in one induction.
`GameTypeCorrect` (`TypeOK`) needs where the numbers end (`Ending`): the server's window is advanced
only over commands that were made (`AdvancedEnds`), and a tic is queued when a player's commands for it are there or
the node is alone, within `SoloLead` of the window (`PumpedEnds`). With it, what is asked for
lies in a window (`Wanted`), and every packet is about some tic (`Known`). That is also what
`WaitsForGood` (`WaitForever`) rests on: when everybody waits, a packet that is
repeated is before the window it comes to, as no queue reaches beyond a window
(`BeforeWindow`), so it is not new and nothing is missed by it; and no request to a client is for a tic that the
server lacks and the client has (`NothingLacks`). So the standstill that `game_deadlock` finds on one
instance is, wherever it occurs, for good.

`OplMusicProofs` holds for every song of `SongsAssumption` (a track is read up to its first end,
and there are no more tracks than `MAX_OPL_QUEUE`, 64, has room for), every buffer, tempo and pause:
`MusicTypeCorrect`, `EarliestFirst` (`FirstIsEarliest`) and `TracksDriven` (`EveryTrackOnce`). Push moves
ancestors down along the path to the root (`Sifted`), Pop moves the smaller children up (`Lifted`); both are
proved of any solution of the recursive equations of `Push` and `Pop`, of which `Recursion` says that there is
one, and give `PushKeeps` and `PopKeeps`: the heap stays ordered and has one entry
more or less. A change of tempo rescales all times in place; that it keeps the
order needs that the scaling is monotone, rounding included
(`ScaledMonotone`, `Retimed`). `OplInv` says that the callbacks in the heap (`Cbs`, each once) and the one in
the hands of the audio thread, if it has not been cleared (`Live`), are together exactly the ones that ought to be
there (`Driving`): a track that was started and has not ended, or the restart of a song all of whose tracks have.
There are never more than the song has tracks, so no push finds the heap full. TLC checked
`OplInv` on the instance `SongsSmall` before it was proved.

`MoversProofs` holds for every level (sectors, tags, lines, stairs, donuts), every size of the
tables and any memory (`MoversAssumption`): `MoversTypeCorrect`, `NeverDangles`
(`NothingDangles`), `AlwaysListed` (`AllListed`), `PlatsAlwaysFound` (`PlatsFound`),
`OneMoverPerSector` (`OneMoverEach`), `OneTurnPerTic` (`EachOncePerTic`) and `LoadingRestores`
(`LoadRestores`). `Sound` is what holds of list, sectors and tables whatever call is under way.
A step does one of four things to them, and there is a lemma for each: a mover changes, ends,
is freed or starts. That nothing dangles needs that a table lists a mover once (`TableOnce`:
`Unlisted` clears one entry only) and that only plats and ceilings are ever stopped
(`Stoppable`). That a sector has one mover needs, for the donut, that its pillar stands still
between the two movers that are started (`PillarFree`), and at the level's start that the
sectors still to come have none (`SpawningInv`). `LoadRestores` is the hardest: the saved list
has neither the marked movers nor the stopped plats, and the code saves no pointer.
`specialdata` comes back because it points to the sector's last mover in the list, or to none
(`Newest`), and loading appends in that order, so that the last one to be loaded is the one it
pointed to, also where a sector has two. `SavedInv` says what a saved game is, `LoadingInv`
what has been brought back halfway, and `OnlyOrder` (`ListsProofs`) that leaving movers out
keeps the order of the rest.

Every invariant and action property of the passing runs is proved. Only model-checked: liveness, which needs fairness and `ENABLED`. `ReliableStream` and `Lockstep` are proved to be implemented, not by
induction over their data.

## 5. What is left

1. `DLoop` over the client of `NetGameData` instead of what `Lockstep` promises.
2. The timers of the OPL chip (`opl_sdl.c:430` writes timer 1 and computes the end of
   timer 2), the loopback rings and the address table.

## 6. Not modelled

The games themselves but for Doom's moving sectors (deterministic rules driven by tics: out of a model
checker's reach), rendering, menus, the setup program and the text screen; packet
formats (sequential, without state); the numeric parts of sound and music; the
vendored libraries and packages. Of the modelled components: the registration with the
master server and secure demos; console messages; the debugging options, statistics and dumps of
the zone and its second implementation on the C library (`z_native.c`); the registers,
timers and emulation of the OPL chip and the voices of its notes; the conversion of sounds; the
lump directory and memory-mapped WAD files. The loopback transport (two rings of
one process) and the table of addresses are not modelled. By lines nearly all of the repository is
packaged third-party software and game rules, so the share that any model of its
concurrency covers is small.

## Running

    tlc -config conn_safety.cfg MCNetConn
    tlc -config parts.cfg MCParts
    tlc -config lobby_movers.cfg MCLobbyMovers
    tlc -config sound_cache.cfg MCSound
    tlc -config game_safety.cfg NetGameData
    tlapm NetConnProofs.tla
    tlapm ListsProofs.tla
    tlapm PartsProofs.tla
    tlapm OplMusicProofs.tla
    tlapm ZoneHeapProofs.tla
    tlapm MoversProofs.tla
    tlapm NetLobbyProofs.tla
    tlapm NetGameDataProofs.tla
