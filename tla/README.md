# A verification of the Paradise netrek server

Paradise netrek is a multi-player space battle. One *daemon* process advances
the game by ticks; one *ntserv* process per player reads the packets of that
player's client and sends it what changed. All of them work on one segment of
System V shared memory (players, torpedoes, planets, messages, status) and use
no locks. What can go wrong is therefore hard to test: a statement of one
process between two statements of another, a process that disappears, a field
that one component resets while another relies on it.

Paths below are relative to `src/paradise-server-3.1p0/src/`.

## Inventory

| component | state it keeps | operations | interacts with |
|---|---|---|---|
| wait queue (`ntserv/findslot.c`) | `status->wait`, `count`, `request` with `number` and `answer`, `p_status` of free slots | `allocate_slot`, `grabslot`, `findslot` | every waiting ntserv through these words of `status`; the daemon sets `count` to 0 when it dies and frees slots of ghosts |
| docking (`common/plutil.c`, `common/orbit.c`) | `PFDOCK`, `PFDOCKOK`, `p_docked`, `p_port[]` | `newdock`, `dock_to`, `undock_player`, `base_undock`, `evaporate`, refit, launch, permission | ntserv of the ship, ntserv of the base, the daemon (explosion, tractor, repair) |
| weapons (`common/torp.c`, `ntserv/plasma.c`, `ntserv/missile.c`, `common/detonate.c`, `common/phaser.c`, `daemon/weapons.c`) | `torps[]`, `plasmatorps[]`, `missiles[]`, counters `p_ntorp`, `p_nplasmatorp`, `p_nthingys` | fire, detonate, fly, explode, free | ntserv fires, daemon flies and frees; `enter()` and `explode_everyone()` reset the counters; `death()` waits for them |
| player life cycle (`common/enter.c`, `ntserv/{main,getentry,death,redraw,input}.c`, `daemon/player.c`) | `p_status`, `p_ghostbuster`, `p_explode`, `p_observer` | join, outfit, enter, explode, die, ghostbust, reconnect, leave | daemon and ntserv both write `p_status` |
| navigation (`common/interface.c`, `daemon/player.c`) | speeds, `p_warptime`, warp flags, orbit flags | `set_speed`, `set_course`, warp preparation, tractor, refit, war | docking, planets |
| planets and armies (`daemon/planets.c`, `daemon/player.c`) | `pl_armies`, `pl_owner`, `pl_flags`, `p_armies` | beam up and down, bomb, grow, revolt | conquest reads what beaming writes |
| conquest (`daemon/conquer.c`) | surrender timers, counts of planets | `checksurrender`, `udsurrend`, `checkwin`, `endgame_effects` | planets, players, the end of the game |
| tournament, league, pause (`daemon/tourny.c`, `daemon/misc.c`) | `status->tourn`, `status2->league`, pause counters | mode changes, votes of captains, pausing | freezes the daemon's schedule |
| daemon scheduler (`daemon/daemonII.c`) | `ticks`, `dietime` | the periodic functions, `freemem` | everything |
| messages (`common/smessage.c`, `daemon/misc.c`, `ntserv/{message,warning}.c`) | ring `messages[]`, `mctl->mc_current` | `pmessage2`, `god2player`, `updateMessages`, god commands, votes | every process writes, every ntserv reads |
| client connection (`ntserv/{socket,packets,sockio,fatudp}.c`) | `commMode`, `udpMode`, `udpSock`, sequence numbers, what the client was last sent | packet handlers, UDP negotiation, updates | the client |
| ping, login and database, ship classes, listener, configuration, clue check, galaxy and terrain, shared memory | tables, files, sockets | | data or system calls around the above |
| robots, tools, planet editor, client, database converter | | | users of the above |

What makes each of them correct, and where it is hard:

- **wait queue**: no slot is given to two processes; those who wait are served
  in the order of their numbers and nobody overtakes them; the queue recovers
  from processes that vanish while they hold a number, are being served, or
  have a request up. All of this is done by processes that look at a few
  words once a second and guess who is dead.
- **docking**: the two records of a mooring (at the ship and at the base) agree,
  although three processes write them, the fields have two meanings, and ships
  and bases die, refit, leave and come back.
- **weapons**: a counter of torpedoes equals the torpedoes in flight; nobody
  writes another's torpedoes; a dead player gets out.
- **life cycle**: a slot whose process lives is not given away; a dead player
  comes back or leaves; what belonged to a former life does not survive.
- **planets, conquest**: whatever takes a planet's last army takes its owner, and
  the end of the game and the surrender clocks follow the planets at once,
  although seven places of three files change owners and each has to remember.
- **league, pause**: the teams are opponents, phases have their full length, a
  paused game resumes, while two captains command in processes of their own and
  come and go.
- **messages**: a message reaches those it is for once, whole, in the order of
  posting, although writers and readers share a ring without a lock.
- **client connection**: client and server agree on the channel in the end,
  whatever is lost, late or out of order; a client that loses datagrams gets the
  last state of everything all the same.

`PROJECT.json` lists the components with their status and the hazards at their
lines.

## The modules

| module | what it is | composed with |
|---|---|---|
| `WaitQueue` | `ntserv/findslot.c` with its surroundings | implements `SlotPool` |
| `SlotPool` | a pool of slots: one process to a slot | |
| `MCWaitQueue` | processes, sides and seats for TLC | extends `WaitQueue` |
| `MCWaitQueueMisled` | one schedule of five queuers, for `WaitQueue_misled.cfg` (see the last but one section) | extends `WaitQueue` |
| `Docking` | `common/plutil.c`, `newdock()` and their callers | implements `Moorings` |
| `Moorings` | one ship to a port | |
| `Torps` | `common/torp.c`, `udtorps()` and what else touches `p_ntorp` | |
| `PlayerLife` | a slot from login to exit: `main()`, `getEntry()`, `input()`, `intrupt()` against `udplayers()` | goes on where `WaitQueue` ends |
| `MessageRing` | `pmessage2()`, `god2player()`, `updateMessages()`, `bounce()` | implements `Broadcast` |
| `Broadcast` | one order of messages for all readers | |
| `FatUdp` | `ntserv/fatudp.c` and what drives it | implements `FatQueue` |
| `FatQueue` | queues of packets to be sent again, without pointers | |
| `Channel` | the choice between TCP and UDP, client and server | |
| `League` | `parse_league()`, `udtourny()`, the pause in `move()` | |
| `Conquest` | owners and armies of planets, `checkwin()`, `udsurrend()` | |
| `WaitQueue_proofs`, `Docking_proofs`, `Torps_proofs`, `Channel_proofs`, `PlayerLife_proofs`, `FatUdp_proofs`, `MessageRing_proofs` | theorems about these | extend them |
| `Game_proofs` | theorems about `League` and `Conquest` | extends both, which is why `Conquest` puts its own name before `Spec`, `TypeOK` and the like |

The server has no locks and no scheduler of its own, so a process can be stopped
between any two statements. Modules with several processes have a constant
`Preempt`. In `WaitQueue`, `Docking` and `Torps` it is a Boolean: `TRUE` allows
other processes between a read of shared memory and the write that depends on
it; `FALSE` makes the two one uninterrupted run, although each stays a step of
its own. In `MessageRing` and `League` it is the set of the *places* at which
another process may run, each named in the module's head, so that a run says
exactly which windows the code survives and a configuration can open one more.
`Torps` has a second such constant, `Quick`, for how long a newcomer takes to
enter. The short windows are what the code counts on (a pass of the queue lasts
microseconds and is followed by a sleep of a second); most properties hold only
there, and the runs say which ones.

### WaitQueue

A process finds the game full, takes a number, and from then on makes one pass
of the loop of `grabslot()` per second until a slot is free and its number is
the one being served.

| state | code |
|---|---|
| `pstatus`, `homeaway`, `ghost` | `p_status` (`PFREE` or anything else), `p_homeaway`, `p_ghostbuster` of each slot |
| `wait`, `count` | the number being served, the next number to take |
| `request`, `number`, `answer` | the mailbox of `status` through which those who wait ask for their position and say goodbye |
| `pc`, `nap`, `my` | where a process is, the rest of its `sleep()`, and the locals of its `grabslot()` |
| `slot` | the slot that the process plays in |

`Arrive` ... `Enter` are `findslot()` and `main()`; `StayAlive` ... `NapOver` are
the statements of the loop in their order; `Leave`, `Crash`, `Quit` are the
three ways to go (exit path, kill, closed connection); `GhostBust`, `DaemonDies`
and `Tick` are the daemon and the clock. A pass ends within its second: `Tick`
waits for every process whose sleep is over. `MaxAhead` is 18 in the code, and
smaller here so that queues of three reach it.

### Docking

`moor` holds `PFDOCK`, `p_docked` and `p_port[]` of all players. The functions
`undock_player`, `base_undock`, `dock_to` and `get_ship_for_player` are
operators on `moor` with the code's names (`base_undock` for a set of ports at
once, since its callers loop over them), and every handler is an action that
applies them in the code's order. A ship that has found a port (`newdock()`) but
not taken it (`dock_to()`) is in `aim`. `Kill`, `DoShipExplode`, `Tractor`,
`Repair` and `EndGame` are the daemon's; the rest run in the ntserv process of
the player. Three states of a player are enough, since nothing here tells
`PFREE`, `POUTFIT` and `PDEAD` apart. `EndGame` (`endgame_effects()` after a
league match) leaves everybody's moorings standing, so the properties speak of
players in the game, and the model shows that what is left behind does no harm
when players come back in any order. `ExitSpec` adds the exit of a process with
its ship in the game.

### Torps

`torp` is the array of torpedoes, `MaxTorp` per player, with one record more
(`Beyond`) for what a search past the end would find. `fire`, `mark` and `off`
are what `ntorp()`, `detothers()` or `handleDetMReq()`, and `udtorps()` hold
between a read and the write that depends on it: a counter or a torpedo they
saw. `Fire`/`Launch`, `See`/`Mark` and `End`/`CountOff` are the two halves.
Fuses, hits and positions are left open, so any torpedo may explode or run out
at any time. `ResetSpec` adds `explode_everyone()`, `CarrierSpec` the fighters of
a carrier; both write or bypass the counter in ways the rest does not expect.

`Exit` is `exitGame()` from wherever the process is: the outfit screen, the game
(the client says goodbye, `ntserv/input.c:111`, or SIGHUP, `ntserv/main.c:479`) or an
explosion. The slot is free at once and its torpedoes fly on, counted in its
`p_ntorp`. `newcomers` are the players whose process has the slot and has not
entered the game yet; `enter()` sets their `p_ntorp` to 0 (`common/enter.c:406`), which
is right only if their predecessor's torpedoes are gone by then. The code does not
see to that. A torpedo lives for 10 to 64 updates and its explosion ten more, at most
eight seconds, in which a newcomer has to be given the slot, log in, be shown the message
of the day and choose a team and a ship. `Quick = FALSE` is the assumption that he
takes longer, made by the run and the theorems; `Torps_quick.cfg` has `Quick = TRUE`.

### PlayerLife

One slot, and the processes that come to it one after the other. `pstatus`,
`ghostbuster`, `explode` and `torps` are the slot's words in shared memory; `pc`
is the place in `main()`, `getEntry()` or `input()` a process is at, `client` its
connection, `tries` the attempts to reconnect. `Tick` is a tick of the daemon and
does what `udplayers()` does in each state, timers and ghostbuster included.
Time is what it is about: the ghostbuster has no sign of a dead process but that
`p_ghostbuster` was not reset for `GhostTime` ticks in the game or `OutfitTime`
in the outfit screen, so a living process has to run often enough. The model's
clock says how often it does: at least every `Slack` ticks, or `RetryTime` while
it sleeps and connects, and a client quits by itself `AutoQuit` ticks after it
came to a screen. Three constants hold what the code does not exclude and what
breaks it: `Hasty` (a newcomer takes a slot before the daemon's next tick),
`SlowExit` (the ghostbuster strikes in the middle of `exitGame()`), `PingBust` (a
client that does not answer pings is busted while its process lives).

### MessageRing

`mc_current` and `messages` are the ring, `msgCurrent` each reader's index.
`Post` ... `Validate` are `pmessage2()` and `god2player()` step by step, `Test`
and `Copy` are `updateMessages()`, `Bounce` the answers it posts itself for a
player who ignores the sender or is asked for his statistics. A text is the
number of its message: what matters is whether the address and the text found in
a slot belong together. `Broadcast` is what the readers are promised.

### FatUdp

`mem` holds the pointers of `fatudp.c`: `next` and `prev` of every packet's node,
head and tail of every list. `updateFat`, `Fatten`, `NextList`, `fatMerge` are
its functions. `Send` is `sendClientSizedPacket()`: over TCP a packet arrives, over UDP
it goes into the buffer, and in fat mode on a list. `Spill` is the write in the
middle of an update that makes room in a full buffer, `Flush` and `Overfull` are
`flushSockBuf()` with fat and without (`FAT_THRESH`), and `Transmit`, `Lose`,
`WriteFails` how its write ends. `OpenUdp`, `Verify`, `ModeFat`, `ModeSimple`,
`FullUpdate`, `ToTcp`, `Die`, `Reconnect` switch and reset it. `udpSock` says whether the
UDP socket is open: it is before the client has verified it, while packets still go over
TCP, and fat is then sent all the same. Packets have two sizes, so that a transmission may
have room for one and not for the other.

`Forced` are the objects whose packets `forceUpdate()` makes the process send again.
It marks its copies of what the client was last sent, and for most packets the copy
decides whether to send. It does not for missiles (`updateMissiles()` compares with
`clientThingyStatus` and the `war` of the copy, `ntserv/socket.c:835-879`, and
overwrites the `shape` that was marked), and the copy of the global status,
`clientStatus2`, is not marked at all. In the run one object of three is not in `Forced`.

`FatQueue` says the same with sequences. `Queue` and `Later` are the sequences that
the pointers describe (`Walk` follows `prev` from the head), by which `FatUdp`
implements it.

### Channel

Both programs: `cmode`, `creq`, `cstatus`, `timer`, `csock`, `cpeer` are the
client's `commMode`, `commModeReq`, `commStatus`, `commSwitchTimeout` and UDP
socket; `smode`, `ssock` the server's. TCP is two sequences, UDP three sets:
datagrams are lost, late and reordered, but not duplicated. An ICMP error
may come back and is returned by the next call on the socket (`cerr`, `serr`).
The model is of programs built with `UDP_PORTSWAP`. A port names a request, its
socket at the client and the server's socket for it, so in the model a port is not
used again while anything in the system mentions it (`Fresh`). That is an
assumption which the code does not make true: `openUdpConn()` of the client binds
`(getpid() & 32767) + (random() % 256)` (`socket.c:2127`), so in one of 256 cases a
request has its predecessor's port, and a reply or a datagram that is still on its way
may reach it. The runs and theorems of `Channel` say nothing of that case.

### League

The words of `status2` that a match is about, and the place `pc[t]` a captain is
at in a command. `TestChoice`/`Choose`, `Pass`/`Draw`, `Ready`/`LookAtOther`/
`Begin`/`SetClock`, `Restart`/`Reset`, `WishPause`/`Pause` are the commands split
at the places that `Preempt` names. Of the players only the captains matter, and
of a captain whether his process listens (`"here"`), has left the game or died
(`"left"`), or died while its ship still flies (`"crashed"`). Changes of side,
team names, the vote on the length of the match, time-outs and the new galaxy
are left out.

### Conquest

`owner`, `armies` and `trevolt` of each planet; `plcount` and `surrender` of each
team; `ships` stands for `realNumShips()`. The daemon alone writes planets and
teams, one function at a time, so a handler is a step, except that `udsurrend()`
goes through the teams one by one (`turn`) while players come and go. A beam or
a bomb was permitted when the player asked for it, and the daemon carries it out
until something tells it not to; the tests made at the request may be stale by
then, so the model leaves them out and any ship of a team may be at any planet.
`Grow` is either scheme of growth on any planet, because the daemon's lists of
planets are made earlier. `Few` is 4 in the code and 2 in the runs.

## The runs

| run | instance | what it shows |
|---|---|---|
| `queue_order` | 4 processes (3 come, 1 plays), 1 slot, one crash anywhere | nobody takes a slot while a lower number could take it, no newcomer jumps the queue, positions shown are never too good (with more crashes they can be: `WaitQueue_misled.cfg`), no slot is shared |
| `queue_numbers` | the same with one disconnect instead of a crash | numbers stay distinct although numbers are given back, and the queue implements `SlotPool` |
| `queue_heal` | 2 come, 1 plays, `Preempt`, one crash, the daemon may die | a free slot is taken and the mailbox is freed in the end, whoever died |
| `dock_sound` | 3 players, 2 ports | the records of moorings agree, bases count their ships, docking implements `Moorings` |
| `torps_sound` | 2 players, 2 tubes; players die and come back, and leave from anywhere with torpedoes in flight | the counter is right, everybody fires his own tubes, nobody comes back from the dead with torpedoes in flight, and everybody gets tubes back; under the assumption (`Quick`) that a newcomer takes longer to enter than a torpedo lives |
| `life_sound` | 2 processes that come to a slot in turn | a slot has one process at a time, the ghostbuster takes only from the dead, and does so in the end; the dead come to the outfit screen or leave |
| `ring_order` | 2 players and the daemon, ring of 3, 3 messages and their answers, writers interrupted while they fill | whole messages, in order, once each, none left out, one answer to a message: the ring implements `Broadcast` |
| `fat_sound` | 3 packets of 2 sizes, 3 lists, 3 lost transmissions | the pointers are lists at all times, the lists implement `FatQueue`, every packet sent is queued, and a client in fat mode gets the last state of everything that `forceUpdate()` sends again, and of the rest from its next change |
| `channel_sound` | 4 ports, 3 mishaps, 3 messages on TCP each way | both ends never use two links, a request in progress ends, and a user who insists gets UDP |
| `league_sound` | 2 empires, warm up 1, match 2, 2 pauses, crashes, interrupted before a draw and a pause | teams are opponents, phases have their full length, every pause ends unless a captain's process has died |
| `league_rematch` | the same without pauses and crashes | **violated**: see findings |
| `conquest_sound` | 2 teams of one ship, 4 planets, 6 armies | no planet is owned without an army, the game ends when a team is beaten or has surrendered, a surrender clock runs only for a team in danger, and runs out |

Bounds, and why they are enough for what the runs claim to show:

- *Queue.* Three waiting processes are the first at which somebody has one in
  front and one behind, and at which two can wait for the same dead process;
  one slot makes every grant contested. `MaxCrashes = 1` and `MaxQuits = 1` put
  one failure at any point of any pass. `OutfitTime` is a few seconds instead of
  minutes: what matters is whether the slot of a dead process comes free before
  or after the others give up on it. The processes that come are symmetric;
  `queue_heal` checks liveness and uses no symmetry.
- *Docking.* Three players are two ships at one base, or one ship and two bases;
  two ports are the least at which the port number matters.
- *Torpedoes.* Two players are neighbours in the array; with two tubes a counter
  can be one off without being at its limit.
- *Life.* Two processes are one who has the slot and one who might come too
  early. `GhostTime` 4 is just more than an attempt to reconnect with the run
  before it, `OutfitTime` 6 just more than two attempts and the client's patience:
  the code has the same order with two minutes and more, and with 3 or 4 in
  their place the run fails, so the timers are not larger than they need be.
- *Ring.* A ring of three is lapped by three messages and their answers. With two
  players one is late while the other is not.
- *Fat UDP.* With three lists of a packet there is a first, a middle and a last;
  three packets give a list a head, a middle and a tail. As many transmissions
  may be lost as there are lists; with one more `Recovers` is false, and rightly.
  Opening, verifying and switching to fat take three of the four requests and
  failures, so one more thing happens anywhere. With two changes of objects instead of one
  (389 thousand states) the properties hold too.
  The client's requests for an update are not refused (`Denials`): a refusal for
  want of time (`UDP_UPDATE_WAIT`) loses what it should have repaired.
- *Channel.* Four ports are more than the requests that three mishaps leave
  behind; with four mishaps (380 thousand states) the properties hold too.
- *League.* Two empires make every choice a conflict. Three pass the safety
  properties too (224 thousand states), and without crashes so does a match with
  three pauses (88 thousand).
- *Conquest.* With four planets a team has few (`SurrStart` 1), enough
  (`SurrEnd` 2) or all, and `VictoryPlanets` is none. The clock that waits because
  its team has more planets than `SurrStart` and fewer than `SurrEnd` needs more
  planets than that; the theorems cover it. With two ships to a team and
  `StartRev` 1 (923 thousand states) the properties hold as well.

Distinct states and seconds on two cores: `dock_sound` 671 thousand, 92 s;
`ring_order` 875 thousand, 125 s; `fat_sound` 172 thousand, 114 s; `torps_sound` 51
thousand, 30 s; `life_sound` 449 thousand, 117 s; `channel_sound` 126 thousand, 12
s; `league_sound` 85 thousand, 107 s; `conquest_sound` 720 thousand, 90 s; the
others are shorter.

Fairness. Everywhere: a process that can run does (the kernel schedules it), and
the daemon's functions run at their periods. Nothing makes a client leave, crash
or arrive.

- `WaitQueue`: `WF` of each process's pass, of the clock and of the daemon's
  `udplayers()`, which frees the slots of ghosts at every update.
- `Torps`: the two halves of an update are weakly fair, and the daemon's visit of
  a torpedo is *strongly* fair: `udtorps()` goes through the whole array at every
  update, but a client's own updates disable the daemon's step again and again
  when updates do not interleave, so weak fairness would let it wait for ever.
- `PlayerLife`: the daemon ticks, processes run, torpedoes end, and a client whose
  patience is over goes.
- `FatUdp`: the updates of the client go on (`WF`); `Recovers` speaks of clients
  that stay in fat mode. `Flush` is strongly fair: not every update leaves more than
  `FAT_THRESH` bytes in the buffer. That is a fact about the traffic of a game, an update
  being a few hundred bytes, and not about the code, which adds no fat as long as the
  buffer is over the threshold.
- `Channel`: both programs run, each datagram that is not lost is delivered in the
  end, and the user asks for UDP again whenever the client is in TCP.
- `League`: the daemon's `move()` and each team's commands are *strongly* fair,
  because a pause, a captain in a command or a change of captains disables them
  again and again; that a team wants to play on and has somebody who leads it is
  an assumption on people, without which no code ends a pause.
- `Conquest`: the minute of `udsurrend()` comes, and it goes through the teams.

`Docking` and `MessageRing` claim no liveness. Deadlock is checked but in two
runs, where the system stops: when all messages are posted and read, and when
the game is over and the daemon has gone.

## What is proved

`tlapm` proves the following for every value of the constants (numbers of
processes, slots, players, tubes, ports, planets, teams, empires, lengths of
timers), from the assumptions the modules state about them and, where said,
without interruptions.

`WaitQueue_proofs`:

- `TypeCorrect`: type correctness, with and without `Preempt`, whatever crashes.
- `SeatsHeld` (`~Preempt`): `NoSharedSlot`, by the inductive invariant `SeatInv`.
  `NoSharedSlot` alone is not inductive: the store of `allocate_slot()` follows
  its search by a step, and another process could have taken the slot. `SeatInv`
  says that a process inside a pass has the turn, that the slot its search
  found is free until it stores, and that whoever goes for a slot holds none.
- `Refines` (`~Preempt`): the specification implements `SlotPool`. Each step of
  a process either sits down in an empty slot, rises, or leaves the pool alone;
  `SeatInv` supplies that the slot is empty.
- `NumbersKept` (`~Preempt`): while the daemon lives, numbers in the queue are
  distinct and below `count`, by `NumberInv`, which adds that the number a
  process has loaded is still the next one when it stores. (When the daemon
  dies it sets `count` to 0, so the property ends there, and a lemma shows that
  a daemon that died stays dead.)
- `ServedInOrder`, `NobodyJumps` (`OneQueue`): `LowestServed` and `NoJumping`, for any
  number of processes, slots and crashes, by the invariant `LineInv` (`LineKept`).
  `OneQueue` says that passes do not interleave and that there is one queue for all:
  no league, no testers, no disconnections, no death of the daemon. All but the
  testers are necessary: without each of the others TLC finds one of the two
  properties violated. For testers nothing is claimed; they see other slots.
- `ShownHonestly` (`OneQueue`, finitely many processes, `NobodyVanishes`):
  `PositionHonest`, by `GapFree`, `MailInv` and `CountInv` (`MailKept`).
  `NobodyVanishes` says that nobody leaves the queue but into the game: processes
  may crash while they play, but not while they wait, and nobody reads that more
  than `MaxAhead` are ahead and gives up. With two crashes in the queue the property
  is false (see the next section); `queue_order` checks three queuers and one crash.

`LineInv` is about guesses and the time they take. A process that finds a slot
free and the number being served silent looks at it once a second, and the fifth
time sets `wait` to its own number and naps for two seconds so that others may
object. `LowestServed` alone says nothing of why they do in time, nor why a number
that is looked at four times is not just late. The invariant counts seconds (`Due`,
`ToServe`) until each process makes its next pass and until that pass reaches the
search for a slot, and says:

- `PassInv`: what holds at each label of a pass, above all that a process with the
  slot in its hand has the number being served, and that a newcomer that goes past
  the queue found it empty.
- `PassedBy`: nobody that `wait` has passed by is napping, so it makes a pass within
  the second.
- `Objection`: who is served before its turn naps longer than it takes the one
  passed by to make that pass, in which it claims to be next.
- `Looks`: what a process remembers of `wait` is still true, or is over for good, or
  was changed by an objection, and then it sees that before it is misled.
- `Patience`: whoever has looked *k* times at the number being served leaves its owner
  as many seconds as it needs, so that five looks are reached only when the owner
  is dead or has a lower number to yield to.

Each action changes at most two of the quantities, and the steps that change none
(`QuietActions`) are done together.

`ShownHonestly` follows the rounds of the mailbox. While nobody vanishes the numbers
from `wait` to `count` are all taken (`GapFree`), so by `Patience` nobody ever takes
anybody for dead and nobody naps. Then everybody makes one pass a second, and `MailInv`
compares two clocks: a request stays up for four passes of its poster (`Left`), in
which everybody sees it (`NextLook`) and nobody sees it nine times; hence one request
is up at a time, its poster takes it down, and a goodbye that was seen is either up
still or its poster gone. `CountInv` follows a process from the time it does not know
its place (`Unasked`) through its question (`Asking`: no fewer answers than processes
before it that have seen it) to the answer (`Told`: it counts at least those before it
whose goodbye it has not seen). Those who have a slot and have not said goodbye yet
are counted too, so a position can look worse than it is for some seconds.

`Docking_proofs` (`Preempt = FALSE`):

- `MooringInvariant`: the inductive invariant of the records. `RecordsAgree` and
  `BerthsCounted` speak of players in the game only, and are not inductive: a
  handler may follow a pointer that a player who left has left behind. The
  invariant says `Sound(d, G, B)` of the records `d`, the players in the game `G`
  and the bases `B`: a ship of `G` with `PFDOCK` is at a base of `G` that holds it
  at that port, whoever a base of `G` holds at a port is such a ship, the count is
  the number of those ships, and whoever has `PFDOCK`, in the game or not, points
  at a player and a port. It also says that a ship that is about to dock
  aims for a vacant port. The lemmas show that the four functions of `plutil.c`
  keep `Sound`; that the count is right after `base_undock` of any set of ports
  follows from a bijection of the ships and the ports they leave.
- `DockingTyped`, `RecordsAlwaysAgree`, `BerthsAreCounted` follow.
- `ImplementsMoorings`: docking implements `Moorings`. A step that moors a ship
  at a port finds, by the invariant, nobody else there.

`Torps_proofs` (`~Preempt`, and `~Quick`: a newcomer enters when his predecessor's
torpedoes have ended; with `Quick` the theorems are false, see `Torps_quick.cfg`):

- `CountInvariant`: `CountInv` is an invariant. `CountHonest` alone is not
  inductive, because between `End` and `CountOff` the counter is one too high,
  and because a step that frees a torpedo must know whose it is. `CountInv` says
  that at most one update is under way, that what it has loaded is still the
  counter, that a freed torpedo is owed to its owner's counter, that torpedoes
  fly in the block of their owner and that who comes back to the outfit screen has
  none: only those that a departed process left behind may fly for a free slot or a
  newcomer.
- `CountsAreHonest`, `FiresOwnTubes`, `EntersClean`, `TorpsTyped` follow. The core
  of `FiresOwnTubes` is the lemma `FreeTube`: blocks are disjoint, a block has
  `MaxTorp` tubes, so a player with fewer torpedoes in flight has a free one.

`Game_proofs`, about `League` (`SafeWindows`: a captain may be interrupted only before a draw
or before a pause):

- `LeagueInvariant`: besides the properties, what a command has tested and what it
  has not yet done. `Tested` ties the place a captain is at to the test behind it
  (the empire he is about to take is not the other's, both teams have one when a
  match is about to begin), and `Clock` adds up the ticks played and the ticks
  left to the length of the phase, or says that they are about to be set.
- `LeagueTyped`, `TeamsAreOpponents`, `PeriodsAreFull` follow.

`Game_proofs`, about `Conquest`:

- `ConquestTyped` and `PlanetsGarrisoned`: types and `Garrisoned` together are
  inductive, one lemma to a group of actions, for any number of teams.
- `GameEndsInTime`: `Undecided`, which is about two teams (with two, both are the
  ones that `checkwin()` looks at). The core is the lemma `CheckwinDecides`: after
  `checkwin()` either the game is over or no team is beaten and every clock agrees
  with the planets, whatever happened to them before. The rest shows that a step
  that calls it not leaves the owners alone.

`Channel_proofs` (`~Verified`: an error of the client's socket is not taken for the
server's verify; with it both properties fail, see `Channel_verify.cfg`):

- `SameLinkAlways`, `InProgressAlways`. The inductive invariant says where the
  client's last request is. Until the reply arrives (`InFlight`), `UdpReq(n)` is
  the last thing on its way to the server, or the reply to it the last thing on
  its way back, and nothing ahead of it names the port `n`, so that a reply to an
  earlier request connects the client to a port from which it hears nothing.
  Afterwards (`Connected`) TCP is empty but for the wish to go back, so no late
  reply can disturb an established link, and the server's socket is the client's
  or closed. Datagrams need no invariant beyond their type: only an update on the
  right link turns the client to UDP.

`PlayerLife_proofs` (`Timely`: `~Hasty`, `~SlowExit`, `~PingBust`, and two
inequalities between the timers):

- `OneOwnerAlways`, `BustsOnlyTheDeadAlways`. The inductive invariant is a budget:
  how far `p_ghostbuster` has come, at most, at each place where a process can be
  (`Budget`), in the ticks since it last ran and those its client has spent in the
  screen. The tournament queue is the tight case of the first inequality, since a
  player who comes there from the game is under `GHOSTTIME` and not `OUTFITTIME`
  until `getEntry()` has gone once through its loop. `Timely` asks that a longest
  attempt to reconnect and two runs of the process fit in `GHOSTTIME`, and that
  what a player brings to the outfit screen, his `AUTOQUIT` there and two runs fit
  in `OUTFITTIME`. The code has 30 seconds for the first, and for the second six
  times `AUTOQUIT` (`daemonII.h`), when it needs about two. Both are exact: in TLC,
  with the constants of `PlayerLife_sound.cfg`, `OneOwner` fails when `GhostTime`
  is 3 or `OutfitTime` 4, one tick below what `Timely` asks.

`FatUdp_proofs` (`~Late`: no update runs for a client that is dead already; with it
`EveryPacketQueued` fails, see `FatUdp_reconnect.cfg`):

- `ListsInvariant`: `FatInv`. That the pointers are those of lists (`Linked`) is not
  inductive: a node on two lists would be taken off one of them only, a node that
  is enqueued while it waits would tie two lists together, and `fatten()` would
  lose its way if its next node were moved by anybody else. `FatInv` adds that a
  node has one place (`OnePlace`), that what is sent in an update waits on the
  first temporary list and is not sent twice in it, that `fatten()` is at a node of
  the list that it goes through, and that between the updates nobody waits, so
  that `reset_fat_list()` has no temporary list to forget.
- The argument is about pointers and sequences side by side. `Rep(m, Q, L)` says
  that the memory `m` represents the queues `Q` and the temporary lists `L`, and
  one lemma to each function says what it makes of them: `DequeueTakesOff`
  (`Without`, whether the node is at the head, in the middle, at the tail or
  alone), `DequeueNone` (a node that is on no list changes nothing), `EnqueueAdds`
  (`Append`), `MergeJoins` (`\o`), `ResetRep`. Below them, `TakeOff`, `AddOn`, `Joins`
  and `Moves` are about `next`, `prev` and any family of lists. Going back, `ListsAre`
  says that what `Walk` reads off the pointers are `Q` and `L`, so each step of the
  pointers has exactly one meaning. `Walk` is a recursive function; that it
  follows a list to its end (`WalkIs`) is proved without induction, from the lowest
  index at which the two would differ (`LowestNumber`).
- `FatUdpTyped`, `ImplementsQueues`, `PacketsAreQueued` follow.

`MessageRing_proofs` (`Sound`: a writer is interrupted only once it has cleared
`MVALID`, as in `ring_order`; with any other window open `InOrder` fails, see
`MessageRing_claim.cfg`). Any number of writers may be filling their slots, and any
number of readers may be at an answer, while others come and go:

- `RingInvariant`: `RingInv`. None of the properties is inductive. What a reader
  may be shown depends on what the slots from his index on will hold, so
  `At(i)` reads a slot as its writer will leave it, and the invariant says when
  that is well defined. `Places`: of the processes that count on in the ring or
  read in it one is at work at a time, and a slot has one writer. `Contents`: a
  slot that is valid has no writer and holds a whole message, one without a
  writer is valid or has never been used. `Once`: no text is in two places.
  `Windows`: whatever lies between a reader's index and the last slot claimed has
  been posted. `Copying`: what `updateMessages()` has tested still holds when it
  copies.
- `Budget` is behind `OneReply`. Messages are counted against what letters may
  cost: the messages so far, the answers that processes still have to post, and
  for every text that still waits to be answered as many answers as it may get are
  never more than the letters pay for. A step that answers turns an open text
  into answers owed, or an answer owed into a message; an overwritten text is not
  answered any more. The sets are of texts and of places in `replies`, so that the
  lemmas (`BudgetStep`, `OpenWithin`, `SameOwing`) are about subsets and single
  elements and the arithmetic is done once.
- `ImplementsBroadcast`: the refinement. `WaitingForAll` maps the ring to a queue
  for every reader, as long as `Lag` says. The lemmas under it say what each step
  makes of that window: a claimed slot appends its message to every queue
  or, when it closes the ring, empties it; a reader who goes on takes the
  head off; a writer that fills or validates a slot changes nothing, since
  `At` has known its message since it was claimed. `Deliver` finds a slot
  without a writer by `Contents` and `Copying`.
- `MessageRingTyped`, `AnswersAreFinal`, `MessagesAreShown` follow. `TypeOK` needs
  `Budget` too: it bounds the texts.

Only model-checked: liveness (`FreeSlotTaken`, `MailboxFreed`, `TubesComeBack`,
`DeadMakeWay`, `Recovers`, `UdpInTheEnd`, `PauseEnds`, `Collapse`), which is out of
the proof system's reach, and `PositionHonest` in queues from which one process
vanishes. Every other property of the runs is a theorem.

## What the code does not do as it says

Each of the following is a step that the code takes and that a run, or a
configuration kept beside the runs, finds to break a property.

- `league_rematch`: a match that ends by time leaves both teams ready, so that one
  captain's `league start` begins the next (`docs/README.League:39` says both).
- `WaitQueue_order_quit.cfg`: the process that is being served and is also the last
  of the queue gives its number back without correcting `wait`. Later numbers lie
  below `wait`, and whoever happens to draw the number `wait` stands at is served
  before those who came earlier.
- `WaitQueue_misled.cfg`: a client is shown that nobody is ahead of it
  (`PositionHonest`, `ntserv/findslot.c:147`) while somebody is. Five processes queue
  for one slot, and two of them die while they are being served. The one that takes
  them for dead naps twice, and while it naps its own question is not counted down, so
  that a third process sees that question for the ninth time and frees the mailbox
  ("implies that the process died", line 271). A fourth posts its question, the
  first takes it for its own, reads its answer and frees it, and the fourth
  reads an answer that nobody gave. The search for this state is too large for
  TLC, so `MCWaitQueueMisled` fixes the order of the passes and leaves the rest to
  the actions of `WaitQueue`.
- `WaitQueue_killed.cfg`: the dying daemon tells the queue so by `count = 0`; a
  process that takes a number at that moment hides it from the others.
- `WaitQueue_league.cfg`: the test that keeps a side to its half of the slots counts
  sides that `main()` records only seconds after the slot was taken.
- `Docking_race.cfg`: the search for a vacant port and the store into it are apart.
- `Docking_exit.cfg`: leaving the game with a docked ship undocks nothing.
- `Torps_quick.cfg`: a player leaves the game with torpedoes in flight, and the
  next owner of his slot enters with a counter of 0 while they fly. He then fires
  more than `MAXTORP`, and `ntorp()` searches past his tubes (`common/torp.c:82`, `:139`).
  Nothing but the time that it takes to log in and choose prevents it.
- `Torps_reset.cfg`, `Torps_carrier.cfg`: the limit on torpedoes relies on a counter
  that other parts set to zero, or decrement without having incremented it.
  `endgame_effects()` resets it as `explode_everyone()` does.
- `PlayerLife_newcomer.cfg`: a newcomer who takes a slot between two ticks inherits
  its `p_ghostbuster` (`daemon/player.c:1227` resets it only at the next tick).
- `MessageRing_claim.cfg`: a writer that is interrupted between its choice of a slot
  and the loss of the slot's `MVALID` lets readers see the slot's old message as a
  new one. The windows `"copy"`, `"roll"` and `"lap"` break `InOrder` too.
- `FatUdp_reconnect.cfg`: an update that is cut short by the client's death leaves
  packets on the temporary lists, which `reset_fat_list()` (`ntserv/fatudp.c:65`)
  forgets; after a reconnection they are linked to lists that no longer know them,
  against the comment on `forceUpdate()` (`ntserv/socket.c:3325`).
- `FatUdp_missile.cfg`: "switching to fat mode will clear up your display and keep it
  cleared" (`ntserv/socket.c:3327`) is false of missiles and the global status. A missile's
  packet that was lost in simple mode is on no list, and `forceUpdate()` does not make
  the process send it again, so the client shows the missile as it was until it changes
  (`Cleared`). `initClientData()` leaves out the same two, although it "invalidates all
  data" (`ntserv/socket.c:290`).
- `Channel_verify.cfg`: the client takes an error of its UDP socket for the packet
  that establishes the connection; with `Verified = TRUE`, when the server does the
  same, `SameLink` fails too and a client may wait for ever.
- `Channel_reset.cfg`: "Force reset to TCP" resets the client's half only.
- `League_crash.cfg`: a captain whose process dies while its ship flies, with the
  wish for a pause standing, keeps the game paused for ever, since the ghostbuster
  stands still in a pause.
- `League_clock.cfg`: between `league = 2` and the clock of the warm up the daemon
  may end the warm up. `"choose"`, `"ready"`, `"begin"` and `"reset"` each break
  `Opponents`.
- `Conquest_again.cfg`: with three teams, one that has surrendered without being one
  of the two largest keeps the timer -1 and surrenders again every minute, against
  the comment at `daemon/conquer.c:297`.
- `Conquest_unrest.cfg`: a planet that is beamed empty keeps its revolt timer for
  whoever takes it next; `beamdown()` (`daemon/player.c:226`) and nobody else stops it.

Seen while reading, and not checked: `beam_up()` asks for
`numPlanets(me->p_team && configvals->beamlastarmies)`, with a misplaced
parenthesis (`common/interface.c:363`), which counts the planets of nobody or of
the first team and not those of the player's; the branch that `daemon/planets.c:1145` doubts to be
ever executed is reached when a list of planets is older than the last beaming.

The properties that these steps break are checked, and many proved, for
everything else: that is why exits, resets and fighters are in specifications
of their own (`ExitSpec`, `ResetSpec`, `CarrierSpec`), and why windows and
assumptions on time are constants.

## What is not modelled

- The god's command that changes another player's ship (`ntserv/message.c`): it
  does not undock its victim. Other commands of gods, votes.
- Missiles, fighters as ships, plasmas and phasers; the limits on ship classes and
  their construction timers (`allowed_ship()`); armies on ships. The hazard list
  names the lines.
- Motion, ranges, damage, fuel, wind, terrain: numbers that no property here is
  about. Tables of ships, ranks and planets: data. What a team knows of a planet.
- Files, sockets, processes as such: the listener, the player database, the
  loading of configurations, attaching shared memory; the layout of packets.
- Robots, tools, planet editor and database converter, and all of the X client but
  its half of the negotiation of UDP: users of the operations above, or
  independent programs. They are most of the repository's lines.
