# FroggerResurrected: specification and proofs

TLA+ models of the Frogger game in this repository: the multiplayer server and
its clients (`multiplayer/`), the single-player game made of threads
(`singleplayer/ver_thread/`) and the one made of processes
(`singleplayer/ver_processi/`). TLC checks the models on small instances; TLAPS
proves, for every size, every safety property that the runs check: those of the
event buffer, of the server with its clients, of the world, of the process game
and of the threaded game. `NoCircularWait` alone has no such theorem, as larger
games refute it; `CirclesHaveCause`, which says how, has. Liveness stays with TLC.

Every definition is translated from the code; `PROJECT.json` gives the source
lines of each one ("map"), the runs, the hazards and the theorems. Section and
line numbers below are of the files under `src/`.

## 1. The system

| Component | State | Operations | Talks to |
|---|---|---|---|
| Server, network thread (`server/src/main.c` 137-213) | client slots, descriptors, its `fd_set` | collect descriptors, `select`, accept, JOIN, input, PONG | clients by TCP; simulation thread by the slots, the game, `shared->lock`, `g_running` |
| Server, simulation thread (`server/src/main.c` 92-135) | `tick_count` | `game_update`, heartbeat, timeout, snapshot | same |
| Game world (`server/src/game.c`) | players, attachments to crocodiles, crocodiles, dens, timer | add, remove, input, update, snapshot | called by both threads, under the lock; writes the scoreboard |
| Scoreboard (`server/src/scoreboard.c`) | a file | append a record, read the best | `flock` between processes |
| Framing (`shared/src/protocol.c`) | bytes of a TCP stream | `send_frame`, `recv_frame` | both ends |
| Client (`client/src/main.c`, `ui.c`) | its id, the last snapshot | handshake, keys, frames | server |
| Event buffer (`ver_thread/src/buffer.c`) | ring, mutex, two conditions | put, get, try_get, destroy | every thread of the threaded game |
| Threaded game (`ver_thread/src/game.c`, `player.c`, `crocodile.c`, `projectiles.c`, `main.c`) | `game_state`: frog, crocodiles, bullets, lives, pause, locks | one thread each; the game loop alone takes from the buffer | shared memory, one mutex per object, event buffer |
| Process game: loop (`ver_processi/src/game.c`) | its own copy of the positions, the table of bullets with their pids, lives, dens, time, pause | reads one position per iteration, answers the frog, stops and continues the others | a pipe from everybody, a pipe to the frog, a pipe of pause commands, signals |
| Process game: frog, crocodiles, bullets (`player.c`, `crocodile.c`, `projectiles.c`) | the own position of each | a round, a blocking write; the frog reads the keys and the answers; frog and crocodiles fork bullets | the same pipes |
| Process game: start, restart, end (`main.c`) | pids of the children | fork, `waitpid`, new pipes for a new game, the handler of SIGTERM and SIGINT, which the children inherit | signals |
| Drawing, sprites, audio | none of the game | I/O | - |

What is hard in it:

- two server threads that share slots, players and descriptors under one lock,
  which one of them gives up around `select`, while descriptor numbers are reused;
- clients that stall, die or stop in the middle of a frame, and the socket
  timeouts that are the only way out;
- one flag for shutdown, read by two threads that may both be inside a blocking call;
- parallel arrays (players and their attachments) that are shifted separately;
- a ring buffer with signals for one waiter, and a destruction that races its users;
- in the threaded game, mutexes taken in different orders and a consumer that
  is also a producer of its own bounded buffer;
- in the process game, every position is old when it is read, a pause is made of
  signals to pids that may be unknown (0: the whole group) or gone, the pipe fills
  while nobody reads it, a restart leaves the bullets of the old game alive, and
  the termination handler runs in any process at any point of its code.

## 2. The modules

| Module | Models | State and actions |
|---|---|---|
| `BoundedQueue` | what the event buffer promises: a FIFO queue that loses and repeats nothing | `Enqueue`, `Dequeue`, `Close` |
| `CircularBuffer` | `buffer.c` | the fields of `circular_buffer`; for each thread where it is in its call; `PutCall`/`PutResume`/`PutStore` for `buffer_put`, `GetEnter`/`TryGetEnter`/`Take` for the gets, `DestroyBroadcast`/`DestroyFree` |
| `CircularBufferProofs` | theorems about `CircularBuffer` | |
| `Sockets` | the connections: streams of frames, backlog, who owns a descriptor | used by the next two |
| `Client` | `client/src/main.c` | one action per point of `main` where the network or a key matters |
| `Server` | `server/src/main.c` with the list of players of `game.c` | a program counter per thread; one action per piece of code between two points where the other thread or the network can interfere |
| `Multiplayer` | server and clients together | `Next`, fairness, properties |
| `World` | `server/src/game.c` | `AddPlayer`, `RemovePlayer`, `ApplyInput`, `Update` |
| `ThreadState` | what the threads of `ver_thread` share (`game.h`, `init_game_state`, `create_bullet`, `draw_game_state`) | the frog, the crocodiles, the bullet slots, lives, dens, time, flags, the queue of messages, the owner of each mutex, where each thread is |
| `GameLoop` | `game_thread` and `reset_player_safely` | one frame from `FrameStart` to `DrawFrame` |
| `PlayerThread` | `player_thread` | `ReadKey`, the pause (`TogglePause`, `PauseText`, `DrawResumed`), a move from `LockFrog` to `Publish` |
| `CrocodileThread` | `crocodile_thread` | a round from `Swim` to `Announce` |
| `BulletThread` | `bullet_thread` | a bullet from `Fly` to its last `Tell` |
| `ThreadGame` | all of them with `run_game` and the signal handler | `Next`, the end of a game (`Cancelled`, `Join...`, `Destroy`), properties |
| `ProcessState` | what the processes of `ver_processi` share: the pipes, the signals, the messages, `fork` of a bullet | the three pipes, the position of each process and where it is in its code, who is stopped, who has a SIGTERM pending, the locals of `game()` and of `main` |
| `FrogProcess` | `rana` (`player.c`) | `FrogRound` (a key, shots), `FrogWrite`, `FrogPause` |
| `CrocodileProcess` | `coccodrillo` (`crocodile.c`), `bullet` (`projectiles.c`) | `CrocRound`, `CrocWrite`, `BulletRound`, `OldBulletEnds` |
| `GameProcess` | `game()` (`game.c`) | an iteration: `GameCheck` (the pause commands), `StopFamily`, `GameRead` (one position through all stages of the iteration) |
| `ProcessGame` | all of them with `main` and the signals | `ForkFrog`, `ForkCroc`, `StartGame`, `Answer`, `Reap`, `Die`, `BrokenPipe`, `Terminate`, `Foreground`, properties |
| `Minima` | the lemma the proofs below share: a non-empty set of naturals has a least element | |
| `MultiplayerProofs` | theorems about `Multiplayer` | |
| `WorldProofs` | theorems about `World` | |
| `ProcessGameProofs` | theorems about `ProcessGame` | |
| `ThreadGameProofs` | who holds which mutex in `ThreadGame`, and the taking of a den | |
| `ThreadTypeProofs` | the types of `ThreadGame`, on top of that | |
| `ThreadGameSafety` | who waits for whom in `ThreadGame`, and what becomes of a bullet, on top of the types | |
| `MC...` | the constants of the runs | |

**Granularity.** Code under a lock is a step as far as nobody else can see its
middle. Two places need finer steps. In `buffer.c` the store and the take are
steps of their own, after the one that wins the mutex, because `buffer_destroy`
frees the ring without the mutex. In `server/src/main.c` the two threads' loops
run under the lock one slot at a time, because the clients go on meanwhile:
a stream may fill or break between two slots. The network thread's `select` is
split into the call (`NetSelect`, where a closed descriptor is EBADF) and its
return (`NetWake`, `NetIdle`).

In `ver_thread` every stretch between two locks is a step, and a lock that is
held across another one has an owner. The mutex of a bullet slot is only held
while nothing else is locked, so such a section is one step. `create_bullet` is one
step too: only one thread at a time looks for a slot, under `game_mutex`, but
what a message applied between the search and the filling would do to the slot
is left out. A section that takes `screen_mutex` inside `game_mutex` and nothing
else is one step too: whoever else holds the screen either has `game_mutex`
or never asks for it.

**Threaded game.** The event buffer is a FIFO sequence with a capacity, which
`CircularBufferProofs` shows `buffer.c` to be. Rows are counted in units of
`LANE_HEIGHT`, as the frog moves by that. `player_on_crocodile` and
`player_crocodile_id` are one variable. The structure `position` contains its
mutex, and the code copies whole positions over each other (`game.c` 559, 566,
580); what happens to a lock that is overwritten is undefined, and the model
keeps its true owner. `pthread_cancel` takes effect where a thread sleeps or
waits for room; in the second case the buffer's mutex stays locked (`m.stuck`)
and `destroy_game_state` cannot go on. A cancellation inside a refresh of the
screen is left out: it leaves a mutex locked that `destroy_game_state` then skips.

**Process game.** A write of one position is atomic (it is shorter than
`PIPE_BUF`), so the pipe is a sequence of positions and a write waits for room.
An iteration of `game()` touches only its own memory between the read of a
position and the write to the frog, so it is one step; the stages it passes
through are operators in the order of the code. When that write has to wait
the whole iteration waits, with the position still in the pipe, which then has one
place less than the code's. The pause signals the children
one by one, and a signal to pid 0 stops the game in the middle of its loop:
`StopFamily` is a step per such stop. A process is stopped, dies or is signalled
between its round and its write, or while it waits for room. The frog's own
column may leave the screen (the game sends it the position before it clamps it,
`game.c` 218-220 and 255-258); `Drift` is how far it is followed. The bullets of
an earlier game keep the old pipes and are followed until they end. The player of
the music keeps the reading end of the first game's pipe, so a writer left over
from that game is not ended by SIGPIPE (`main.kept`).

**Sockets.** A frame is a unit: both ends loop until it is complete
(`protocol.c` 7-29); one whose rest never comes is `Partial`. A stream holds a
bounded number of frames. A send to a stream that stays full, and a receive of
something that does not come, fail: `configure_client_socket` (`main.c` 56-63)
sets both timeouts. `accept` takes the lowest free number, so a descriptor just
closed is reused at once, which is the case that matters. A process whose
connection the server has closed may connect again.

**Time.** `Second` is the passing of a second of `time(NULL)`. Only the
slots' ages matter; they stop one past the timeout. The real durations of the
send (300 ms), receive (2 s) and select (200 ms) timeouts are not compared.

**World.** The dimensions of `game_types.h` are parameters; the tick is counted
modulo a common multiple of all divisors that the code takes of it. Scores are
left out: they influence nothing else. The loop of a tick over the players
(`game.c` 184-235) is the recursive function `Settled`: the world after the first
`n` of them, from `Drifted`, the world after crocodiles and timer. A client sends one key per INPUT
(`client/src/main.c` 69-82), so a move is one step in one direction.

## 3. The runs

| Run | Instance | Shows |
|---|---|---|
| `buffer` | 2 producers of 2 messages, 1 `buffer_get`, 1 `buffer_try_get`, 2 places | `NoLostWakeup`, `NoStaleTest`, `QueueSpec` (refinement of `BoundedQueue`), `PutReturns` |
| `buffer_destroy` | the same, no `buffer_get` | refutes `WaitersLeave` |
| `multiplayer` | 2 clients, 2 slots, 2 descriptors, 2 ids, streams of 1 and 2 frames | `Registry`, `FdOwnership`, `WelcomeFirst`, `OwnSession`, `DropsHaveCause` |
| `multiplayer_live` | 2 clients on 1 slot, with fairness | `ShutdownCompletes`, `StalledPlayerDropped`, `JoinAnswered` |
| `multiplayer_ebadf` | the same, safety | refutes `NetworkThreadServes` |
| `world` | 2 frogs, 2 lanes of one crocodile each way, 1 den, 7 x 7 | `AttachedRides`, `InsideUnlessCarried`, `NobodyWalksOnWater`, `RidersKeepTheirPlace` |
| `thread_frog` | frog that shoots, 1 crocodile going left, clock, pause, buffer of 1 | `TypeOK`, `SleepersHoldNothing`, `CirclesHaveCause`, `DenTakenByFrog` |
| `thread_bullets` | 2 bullets on 2 slots, no crocodile, buffer of 2 | `TypeOK` (there with slots), `NoZombieBullet` |
| `thread_end` | frog, 1 crocodile going right, no clock, no pause, `Q` and signals, buffer of 7, with fairness | `NoCircularWait`, `GameCompletes`, and that no step leads to a standstill |
| `thread_timer` | the same crocodile, with shots, two lives and the clock | refutes `NoCircularWait` |
| `process` | frog, 1 crocodile, 1 bullet and slot, pipes of 1, pause, signals, restarts, with fairness | `TypeOK`, `NobodyLeftStopped`, `OwnBullets`, `GhostsByResumeOnly`, `ChildrenEnd` |
| `process_pause` | the same with shots and the clock, safety | refutes `PauseCanEnd` |

Each property is stated in words where it is defined, with the code it is about.

**Why the bounds are enough.** *Buffer*: the producers together can fill the
ring and one has to wait; two kinds of waiters exist at once; with two places
the indices wrap. *Multiplayer*: two clients are needed for a descriptor that
passes from one to the other, two slots for one thread working on a slot while
the other's belongs to somebody else; two ids can be equal or not; the stream
to a client holds WELCOME and one frame behind it, the least at which order
shows, and is full after that; with `Timeout` 0 a second makes a player silent
for too long. A client that is dropped or ends connects again, any number of
times. *World*: a crocodile in each direction with different speeds, both wrap,
a frog fits on a crocodile in two ways; it can be carried out on either side,
drown, reach the den, and leave in front of another one that is being carried.
*Threaded game*: a producer makes at most `Burst` rounds in a frame of the game
loop (crocodiles sleep 162 ms or more and the player and a bullet 50 ms, a frame
is 80 ms), otherwise the queue of messages alone would fill the state space; the
order of the rounds is free. One crocodile shows every exchange between a
crocodile, the frog and the game loop; the two directions are in different runs
because their code at the borders differs. `Capacity` 1 makes every put wait: in
`thread_frog` each of the three circles of `CirclesHaveCause` occurs, also without the
other two, so the property is about circles that are there;
with 7 places the two producers of `thread_end` never fill the buffer while the
loop is on its way through a frame (with 5 they do). `Clock` FALSE is a game in
which no second passes between two frames. `NumBulletThreads` bounds the bullets
of a game; the next one is the failure of `malloc` in `create_bullet`. In
`thread_frog` and `thread_timer` there are no slots, so a shot always finds them
taken: it still needs the mutex, and what `TypeOK` says of the slots is
checked by `thread_bullets`. That run has no threads that
shoot; there anybody shoots at any moment (`OpenSpec`), which is more than they
could do, and two opposed bullets on the frog's row can hit it, meet, cross and leave.
*Process game*: with pipes of one position every write may have to wait and the
frog may be told of a position while the next is on its way; one crocodile and one
bullet are enough for every relation between a pid, a slot and a message, as a
slot is given to the next process only when the first is gone; `NumBullets`
bounds the bullets of a game, and for one more `fork` fails; `PauseCap` 1 is a
second press of the key waiting while the first is handled. With one life a lost
life is the end of a game, so restarts come in every way; resets within a game
are in `ProcessGameProofs`, which covers any number of lives, for the
properties proved there. A game can be played again any number of times.

**Fairness.** *Buffer*: weak fairness of each thread inside a call, and of the
polling consumer, which is a loop in the game. *Multiplayer*: strong fairness of
each server thread (each gives up the mutex before it sleeps or selects, so the
other finds it free again and again; POSIX schedulers let it win some time), of
the clock, and weak fairness of a client's reads while it is not stalled.
*Threaded game*: weak fairness of every thread and of `run_game`: once the game
is over every thread has a last round, so a mutex that is given back stays free
for whoever waits. *Process game*: weak fairness of the deaths of the frog and
the crocodiles only: a signal that is pending for a process that is not stopped is
delivered by the kernel, also while it waits in `write`. No fairness of anything a user, a signal or a failure does.

**Deadlock** is checked in all runs but `thread_frog` and `thread_bullets`: there
the game really stops, when the time runs out, when it resumes while a crocodile
shoots, or when the buffer is full (section 4). In the others the server stops
only when it has shut down and all clients have gone (`Done`), the buffer only
after a crash (`Crashed`), the single-player games only when they are `Finished`.

## 4. What the code does otherwise than it says

- `WaitersLeave` (`buffer.c` 21, 27): the broadcast before the destruction
  wakes the producers, but they test for room again and go back to waiting, and a
  producer that comes in the 50 ms after it (the trace that TLC shows) begins to
  wait; the condition variable is then destroyed under them.
- `NetworkThreadServes` (`main.c` 92-95, 142): a client dropped by the
  simulation thread at the wrong moment ends the network loop with EBADF, while
  the simulation goes on.
- `NoCircularWait` (`ver_thread/src/game.c` 228): when the time runs out with a
  life left, the game loop resets the frog with `game_mutex` held and waits for
  the same mutex at line 52. The other places that lose a life release it first.
- `PauseCanEnd` (`ver_processi/src/game.c` 127, 180): "Premi 'p' per continuare",
  but the frog, which reads that key, goes on writing positions that the paused
  game does not read; when the pipe is full it waits for ever. A pipe of 64 KiB
  has room for some minutes of pause. (TLC's trace is the shortest one: it pauses
  before the crocodile is heard of, which takes a `kill(0, SIGSTOP)` and the shell's
  `fg`, and lets a bullet fill the pipe of one place.)

Met while modelling, without a run of their own.

*Server*: a client that connects and never sends JOIN is never disconnected, as
only slots that have joined are looked at for their age (`main.c` 92-95).

*Threaded game*: the resume from pause
takes the crocodiles' mutexes under `game_mutex`, while a crocodile that shoots
takes them the other way round (`player.c` 31, `crocodile.c` 128); with less room
than a frame's messages, a producer waits for room with a mutex the game loop
needs to make it (`player.c` 121); a frog can be attached to a crocodile it has
just left (`player.c` 49 and `game.c` 254); positions sent before a reset undo it
(`game.c` 559); a bullet that was shot down flies again for a moment when a
position of it is still queued (`game.c` 514-542, 580), and its slot can be given
away while its thread still works on it; several hits in one frame can
take `vite` below 0; the result of `pthread_create` is not looked at
(`projectiles.c` 126), and when it fails a bullet is left that nobody moves; the arguments of a crocodile thread are freed twice
(`crocodile.c` 160, `main.c` 106); a thread cancelled while it waits for room
leaves the buffer's mutex locked, and `destroy_game_state` waits for it for ever
(`main.c` 90, `game.c` 144), which is why `GameCompletes` is checked with room.

*Process game*: a pause before every crocodile has been heard of stops the game
itself, by `kill(0, SIGSTOP)` (`game.c` 132), until the shell continues the group;
the resume empties the pipe (`game.c` 170) and with it, now and then, the last
message of a bullet, whose slot is then never given back, as `kill(pid, 0)`
succeeds on a zombie (`GhostsByResumeOnly` says that this is the only way); the
test whether a bullet hits the frog does not look at `active` (`game.c` 355), so a
bullet that has ended still hits; positions of the frog written before a reset are
read after it and can cost a second life (`game.c` 241); the frog that is carried
beyond a border goes on counting (`game.c` 220); the handler of a second game
first has the pids of the first (`main.c` 24-32); the player of the music is
never stopped.

## 5. The proofs

**The event buffer** (`CircularBufferProofs`), for any finite sets of threads, any
positive capacity, any messages and any number of puts.

1. `IInv` is `TypeOK`, `NoStaleTest` and `InCall` (a producer that is waiting,
   woken or storing has a message pending). `NoStaleTest` alone is not
   inductive: that `count` stays in range needs it, and it needs the range.
   `Invariance` shows it by one lemma per operation.
2. `TypeCorrect` and `NoStaleTests` follow.
3. `WakeupsKept`: the two halves of `NoLostWakeup` (`Room`, `Supply`) are
   sums of a counter and the cardinality of a set of threads. The argument is
   that a signal either moves one waiter into the set (`SignalReaches`) or finds
   none waiting (`SignalLost`), and that a thread leaving the set changes the
   counter by one. It rests on the finiteness of the sets of threads.
4. `RingKept`: `tail = (head + count) % Capacity`. With it `RingSeqStore`
   (writing at the tail appends) and `RingSeqTake` (moving the head removes the
   first) give `StoreEnqueues` and `TakeDequeues`, and every other step leaves the
   queue alone: `Refinement`, that the ring implements `BoundedQueue`.

**Server and clients** (`MultiplayerProofs`), from `NamesAssumption`,
`CapsAssumption` (streams and backlog have a size), `PlacesAssumption` (there are
descriptors for all slots and the listening socket is none of them) and
`TimesAssumption`, for any clients, slots, descriptors, ids and streams.

1. `DescriptorsOwned`. `FdInv` is `FdOwnership` and the types it needs. The step
   that is not obvious is `accept`: that a free number exists while a slot is free
   is a count (`FdLeft`): the slots in use map onto the open descriptors, and
   there are fewer of them than numbers.
2. `TypeCorrect`: the other types and all bounds, on top of `FdInv`.
3. `RegistriesAgree`. `Registry` is inductive over the types, as it counts: a drop
   takes one entry out of the list (`PlacesRemove`, a bijection between the places
   before and after) and one slot out of those that are ACTIVE. That the list has
   an entry to take out follows from the equality of the counts before.
4. `WelcomesFirst`. `WelcomeInv` adds `Lonely` (a client has one connection: one
   descriptor, or one place in the backlog), `Phases` (what a client knows at each
   point of `main`) and `Served` (a connection that is pending has been sent
   nothing, one that is ACTIVE something). `SendServed` is the core: a frame to one
   slot is a frame to nobody else's.
5. `SessionsOwn`. `SessionInv` adds `Locks` and `Snapped`: the snapshot that is being
   sent has every ACTIVE slot's id, which comes from `Registry` when it is built
   and from the mutex afterwards.
6. `CausedDrops`. `Reported`: what `select` said of a player's descriptor is still
   true when his slot is served, so `recv_frame` does not fail for want of bytes.
   Descriptors may have changed hands since, but only to pending connections.

**The process game** (`ProcessGameProofs`), from `ScreenAssumption` (the frog fits
on the screen in both its widths, a step aside at most one wider than the frog and
`Drift`), `CrocAssumption` and `BoundsAssumption`, for any screen, lanes, pipes
and any number of crocodiles, bullets, slots and lives.

1. `StoppedOnlyInPause`. That the resume wakes everybody is not a property of the
   step alone: it continues the crocodiles and the bullets of the table *as they
   are then*. `PauseInv` adds who can have been stopped: at the top of a paused
   game only processes that the table or the list of crocodiles names, and while
   the pause lasts neither changes. Between, after a `kill(0, ...)`, nothing runs
   until `Foreground` continues all of them.
2. `TypeCorrect` and `GamesApart` come from one invariant, `TypeInv`: `PauseInv`,
   `ProcessType` (the types of everything, what a message in the pipe can be, and
   that a crocodile is never wider than its `orig`) and `OwnInv` (the bullets of an
   earlier game are in no message and in no slot). They need each other: a slot's
   pid is used to find its process, so its range is needed to say whose game it
   is of. An iteration is proved stage by stage (`FrogHeardFits`, ...,
   `TickedFits`), and `ReadStages` composes them.

3. `GhostsFromResume`. `GhostInv`, on top of `TypeInv`: two entries in use have
   different pids, while main lives only the frog and the crocodiles have a signal
   that ends them (so a bullet ends by itself), and an active message of a bullet
   that has ended has another message of it behind it. Then the last message about
   a process is what decides its entry, and a step takes it out of the pipe only by
   applying it (`ReadGhosts`) or by the resume. `Follows` says what a message
   may do to the table, through the stages of an iteration. The step that starts a
   game again empties the pipe too, with the table of the old game already gone.

**The world** (`WorldProofs`), from `LayoutAssumption` (the start is on the bank, in
the field, and there is a row above the water), `CrocsAssumption` and
`RulesAssumption`, for any field, lanes, crocodiles, dens, divisors and any number
of players. The numbers of the code satisfy them.

1. `WorldInv` is `TypeOK`, `AttachedRides`, `InsideUnlessCarried` and
   `RidersInWater`: who is attached is in the water. The last one is what makes the
   first three inductive: a frog on the bank may overlap the lowest lane with
   its height, and a crocodile's move would take it along.
2. `SettledDef` unfolds the loop of a tick, and `LoopDone` is an induction over the
   players it has come through (`UpTo`, from `LeastExists` of `Minima`: the first
   place where a claim fails has a predecessor where it holds). `Through(n)`
   says which players are done (`Landed`), that every attached frog still lies
   on its crocodile (`Riding`), and that a carried frog is where the carry put it.
3. `RemoveKeeps` is the other step that is not obvious: the players move up in one
   sequence and the attachments in another one, of another length.
4. `TypeCorrect`, `RidersAboard` and `StaysInside` are parts of `WorldInv`;
   `WaterCarries` and `PlaceKept` are about one tick and follow from `Through` at
   its end.

**The threaded game** (`ThreadGameProofs`, `ThreadTypeProofs`, `ThreadGameSafety`),
for any instance that satisfies `ScreenAssumption`, `CountAssumption`,
`CrocAssumption` and `ShotsAssumption` (sizes are naturals, lanes and widths are
those the code can choose, shots start on the screen's rows). All of it is about
`OpenSpec`, where in addition anybody shoots at any time.

1. `SleepersFree`. `HoldInv` says whom a mutex can belong to (`Owners`) and where
   its owner is then (`Whereabouts`): a thread holds a mutex only between the lock
   and the unlock of the path it is on. It is shown by one lemma per thread for
   `OpenSpec`, whose steps include those of `Spec`.
2. `DenTaken`. Between the test for a den and the taking (`"takeDen"`) the game
   loop has the player's mutex, and `DenSafe` says that nobody else moves the frog
   or gives the mutex away meanwhile (`PlayerAndDen`, `CrocAndDen`, `OthersAndDen`).
   That the loop gets to `"takeDen"` from `Den` only needs `MailInv`: the place
   it goes on at is in `g.ret` or the type of the message it took, so every message
   in the buffer has one of the three types.
3. `TypesRight`. `TypeOK` says that a crocodile is as wide as a sprite there is, that
   rows are on the screen, that the buffer keeps its capacity, and that `run_game`
   joins threads that exist. `Typed` makes it inductive: a message keeps its
   type however late it is applied, so the messages have types (`Messages`: the
   crocodile's position is one of *that* crocodile's), a slot that anybody
   names has been given away before (`Used`), and the local variables of the game
   loop are what the place it is at, or will return to, makes of them (`Ready`).
4. `CircleCauses`. There is no order in which the mutexes are taken, so the
   argument follows the chains: the owner of the frog's mutex waits for
   `game_mutex` or for room, a crocodile with its own for `game_mutex` or the
   frog's, the owner of the screen for nothing, unless it is in a pause. So a
   circle in which nobody waits for room has the owner of `game_mutex` in it
   (`ChainsEnd`), and `HoldInv` says where the two possible owners are then: the
   reset of the timer (the code bug of section 4) or the pause. It
   holds with the clock, the pause key and the full buffer, which all close
   circles; what it excludes is any other. `CirclesNeedGameMutex` is what follows
   for the states in which none of the three is going on.
5. `NoZombie`. `BulletInv` has a condition on every slot that has a bullet or gets
   one back when a message in the buffer is applied: a thread serves it, or the last
   message about it clears it. What the game loop has taken out of the buffer
   and not yet applied belongs to the messages (`Pending`). It needs `LastWords`:
   the messages that are meant to clear a slot do. A thread whose slot was given
   to another bullet still sends a last message; then the other one's
   thread serves the slot, and its own last message comes later.

Only model-checked: the liveness properties (`PutReturns`, `ShutdownCompletes`,
`StalledPlayerDropped`, `JoinAnswered`, `GameCompletes`, `ChildrenEnd`), which are out
of the prover's reach; and that the buffer of `thread_end` never fills, which
depends on its 7 places and on how many rounds a producer makes in a frame.

## 6. What is not modelled, and the plan

Left out for good: drawing, sprites and audio (I/O without a state of the game),
the Makefiles; scores, which no other state depends on; the terminal and `ask_restart`
with its `execl`; failures of `pipe`, `malloc` and `fork` at the start, which
end the program. Times are not compared: a step may take as long as it likes.

Left out so far:

- the scoreboard (`scoreboard.c`): an append that may be partial (32), the cap of
  the scan (62);
- framing (`protocol.c`): the two-byte length, chunked reads and writes, EINTR;
- the signals of the client process (`client/src/main.c` 90);
- the memory of the crocodile threads' arguments.

Next, in this order:

1. `Scoreboard`: records as lines, the append, the lock, the cap; and its theorems.
2. `Framing`: an abstract stream of frames that `protocol.c` implements.
3. How much room the threaded game's buffer needs, as a theorem: what each producer
   adds in a frame is bounded, so no circle needs a full buffer when `Capacity`
   is large enough.
