# A TLA+ model of pc2drc

pc2drc turns a PC into a host for the Wii U GamePad ("DRC"). The PC pairs with
the GamePad over a patched Wi-Fi stack, and `drcvncclient` shows a VNC desktop
on it and sends its buttons and touches back, with the library `libdrc` doing
the talking. The program's own logic is in

* `src/libdrc-vnc/libdrc-thefloppydriver/` (the library, here `libdrc/`), and
* `src/libdrc-vnc/drcvncclient/src/drcvncclient.cpp` (the client).

Two scripts pair the PC with a console and its GamePad
(`src/stage-3-pair-with-wiiu.py`) and start streaming
(`src/stage-4-start-pc2drc.py`). The rest is third-party code with small patches
(`drc-hostap`, `drc-x264`, the kernel patches), which is nearly all of the
repository's lines, and scripts that install and build it.

## 1. Inventory

| Component | State | Operations | Hard behaviour |
|---|---|---|---|
| `CmdClient` (cmd-protocol.cpp) | `cmd_in_flight_`, `seqid_`, one timer per command | AsyncQuery, Query, PacketReceived, RetryOperation, Start, Stop | four-packet exchange over UDP, retries, three threads, u16 ids |
| `EventMachine` (events.cpp) | `events_`, `running_`, an epoll descriptor | New*Event, CancelEvent, ProcessEvents, StartEM, StopEM | cancelled events in a batch, reused descriptors, stop in a batch, start/stop races |
| `UdpServer`, `UdpClient` (udp.cpp) | socket, timeout timer | Start, Stop, Send, receive, time out | packet and timeout in one batch |
| `InputReceiver` (input-receiver.cpp) | `current_` | ProcessInputMessage, ProcessInputTimeout, Poll | input that is stale |
| `VideoStreamer` (video-streamer.cpp) | pushed and latched frame, `resync_evt_`, `frame_rate_`, packets of the next tick, sequence id, `next_timestamp` | PushFrame, PushH264Chunks, SetFrameRate, ResyncStream, the timer | resync requests between ticks, id and timestamp wrap-around, empty chunks, stalls |
| `AudioStreamer` (audio-streamer.cpp) | sample queue, sequence id | PushSamples, PopSamples on a timer | the queue's limit, running low |
| `Streamer` (streamer.cpp) | the seven parts, the device configuration | Start, Stop, commands, SyncUICConfig, Push* | half-failed start, threads that wait for each other, two replies at once |
| `DeviceConfig` (device-config.cpp) | groups of fields | LoadFromBlob | damaged copies of a group |
| `UvcUacStateSynchronizer`, `VideoConverter` | a blocking query; a conversion under way | timer; PushFrame, Stop | joined while they wait |
| `drcvncclient.cpp` | button mask, previous buttons, mode, keys, `keysDown`, `symDown`, `startMS` | Process_DRC_Input, handleSDLEvent, Push_DRC_Frame, main loop | several buttons change between polls, mode switches, events queued while Control changes, updates faster than frames |
| pairing and start scripts | files, interfaces and daemons on the host | the commands, one after the other | dying between two of them, and what the next run finds |
| packet formats, `H264Encoder`, TSF, uinput feeder, C wrapper | buffers | set/get, encode | bit fields |

How they interact. The application's threads call `Streamer`, which owns the
seven parts. Each server and streamer is a `ThreadedEventMachine` with a thread
of its own; `CmdClient` has two, one for its timers and one, a `UdpServer`, for
packets. The message server calls `VideoStreamer::ResyncStream` from its thread
when the GamePad reports a loss. The synchronizer's thread sits in
`CmdClient::Query`. The converter runs on a task thread and pushes its result
into the video streamer. Locks: `state_mutex_` around single accesses of
`cmd_in_flight_`, `frame_mutex_`, `samples_mutex_`, `current_mutex_`; `events_`
and what entries of `cmd_in_flight_` point to have none.

What makes the parts correct:

* command channel: exactly one callback per query, with the right answer, in
  bounded time; timers and commands paired; no assert fails;
* event machine: stop always returns and leaves nothing running; an erased event
  never runs; what is ready gets handled;
* input: silence makes input invalid, and it stays so;
* video: packets can be put together again, no gap in the ids, headers the
  GamePad can read, resync requests answered, newest frame shown, pace kept;
* audio: order kept, channels not swapped;
* streamer: no thread left after Stop, Stop returns, only checked values get into
  the groups of the configuration, and the touch screen is calibrated with the latest;
* client: clicks follow their buttons, no key stuck, frames keep coming;
* scripts: what one run leaves behind does not keep the next from working, and
  pairing again puts right what an interrupted one has left.

`PROJECT.json` lists the hazards behind these, each at its source line.

## 2. Modules

| Module | Models | |
|---|---|---|
| `QueryService` | what `CmdClient` promises its users | abstract specification |
| `CmdProtocol` | `CmdClient`, one handler per step, lossy network, GamePad | implements `QueryService` |
| `CmdThreads` | `CmdClient`, one shared access per step, its threads interleaved | |
| `EventMachine` | the epoll loop and `ThreadedEventMachine` | |
| `InputReceiver` | input validity over a `UdpServer` with a timeout | |
| `VstrmPackets` | GenerateVstrmPackets, AsChunkArray, the extended header as operators | used by `VideoStreamer` |
| `VideoStreamer` | the video timer and its pace, latching, resync | |
| `AudioStreamer` | the sample queue and its timer | |
| `DeviceConfig` | LoadFromBlob as an operator | used by `Streamer` |
| `Streamer` | life cycle of the seven parts, the configuration reply | uses `CmdClient` as `QueryService` describes it |
| `DrcInput` | Process_DRC_Input | used by `VncClient` |
| `VncClient` | main loop, SDL events, frame limiter | |
| `Setup` | stage 3 and stage 4 on one host | |
| `MC*` | values and symmetry for TLC | |
| `CmdProtocolProofs`, `CmdThreadsProofs`, `EventMachineProofs`, `InputReceiverProofs`, `VideoStreamerProofs`, `StreamerProofs`, `VncClientProofs`, `SetupProofs` | theorems about the module of that name, `StreamerProofs` also about `AudioStreamer` and `DeviceConfig` | section 5 |

**QueryService.** A query is idle, pending, ok or failed. While the service
serves, a pending query completes once; success means the GamePad has executed
it.

**CmdProtocol.** `cmd` is `cmd_in_flight_` as a function (state `"none"` where
there is no entry), `events` the timers of the client's event machine, per
descriptor the command it retries. `AsyncQuery`, `ReplyReceived`,
`QueryAckReceived`, `PacketIgnored` and `RetryOperation` (`GiveUp`, `Resend`)
are whole handlers, with the timer they create or cancel and, for a retry, the
erasure of the old timer after the callback returned. `Stop` is two steps, since
the timers' thread is joined before the UDP server is stopped. A packet stays
deliverable until it is lost, so it may be lost, late, repeated and overtaken.
The GamePad is external: it acknowledges, executes, and repeats its reply until
acknowledged. `calls`, `outcome`, `answer` and `sent` are history. The asserts
of the code set `crashed`.

**CmdThreads.** The same handlers cut at every shared access, with a program
counter per thread: callers, `"udp"`, `"em"`. An `Event` is a record with an
address of its own, so that a descriptor may be reused while another thread still
holds its number; the kernel hands out the lowest free one. Following a pointer to
something freed is undefined behaviour: `fault` becomes `"ub"` and nothing
is said about what follows.

**EventMachine.** `events` is `events_`: per descriptor the event registered, or
NULL. Events come and go while the machine runs: `InitEvent` on its thread,
`RetryCallback` inside a callback (RetryOperation makes the next timer while its
own is still registered), `NewTimerEvent` and `CancelEvent` on other threads. A
new event gets any free descriptor, one that was just closed too. `batch` is the
descriptors that `epoll_wait` returned; the loop takes them one by one and runs
whatever event has the descriptor *now*, or skips it. The stop event is one of
the events, and its callback clears `running_` in the middle of a batch. `created`,
`fresh`, `fired` and `runs` are history.

**InputReceiver.** Time in ticks; `timer` counts down to the expiry of the
timerfd, `order` is the order in which epoll will report the two descriptors.

**VstrmPackets, VideoStreamer.** A chunk is its size; the arithmetic of the
do-while loop, the flags and the ids is kept, and the eight bytes of the
extended header are bytes: `SetExtOption` and `ClearExtOption` as the code has
them, and `Decoded`, the reading that `web/docs/re/sc-vstrm.rst` describes, as
the reference. A tick is one action with the code's order inside it: send what
was generated, latch, encode, generate, compute the delay. The encoder is
external and gives any of `EncodedSizes`, an IDR exactly when asked. Time is the
TSF counter modulo `TimestampMod`, which stands for 2^32; a tick takes any of
`BusyTimes`, longer than a period too, and `DeltaNext` is the signed difference
with the floor of 1 ms. `sent`, `queued`, `padSeq`, `frames` and `owed` are
history.

**AudioStreamer.** A sample is its number, so that order and channel (parity)
are visible.

**DeviceConfig, Streamer.** A reply is abstracted to whether each copy of each
group passes its checksum, and to the value it holds; `Garbage` is what must
never be loaded. Start and Stop go part by part. Other threads act in between.
Stop of a part returns only when its thread is out of its callback. `language_version_` is a field of its own, which takes
bytes no checksum covers. The application waits for a command (`CommandAndWait`)
or asks for the configuration without waiting (`SyncUICConfig`). Loading a
reply and recalibrating are two steps, on the command client's thread for
Start's own SyncUICConfig and on the caller's for a waiting one; `overlap`
records that both were in between at once.

**DrcInput, VncClient.** Button masks are sets. Each poll brings any set of
buttons. The two halves of a loop iteration (GamePad input; one SDL event or one
server message with the push that follows) are actions. SDL pumps all events
that have arrived whenever it is polled, so `held` is what SDL_GetModState sees
and `queue` what is still to be handled. SDL knows five mouse buttons; the two
side buttons share the bits of the wheel. Keys that type no text (`Specials`) are
sent by a keysym of their own (`XK`), unless Control is down and their code is
below 0x100 (`Low`). `missed`, `mixed` and `dropped` are
history, and record causes, not effects: buttons whose last change fell in
joystick mode, keys that were down or queued when Control or their character
changed, mouse buttons another device or Up has released.

**Setup.** `files` survives everything, `links` and `daemons` survive a script,
`children` end with it. A script may die at any of its commands, between opening
a file, which empties it (`Blank`), and writing it too; the user may
change consoles, run either script, and reboot. A console stands for its SSID,
its PSK and its GamePad's address. `Spawned` is a race between the ports of the
old and of the new netboot. `cutShort` is history.

## 3. Runs

| Run | Bounds | What it shows |
|---|---|---|
| `cmd_queries` | 2 queries, 2 ids, 2 sends each, 3 descriptors (577k states) | all of CmdProtocol's invariants, QueryAnswered, and that it implements QueryService |
| `cmd_wrap` | 2 queries, 1 id (27k) | ids that wrap round: an id in use aborts AsyncQuery, one that is free is reused; each query is still called back once |
| `cmd_threads` | 2 callers, 2 sends, descriptors 3..5 | publishing the entry before it is filled in is harmless |
| `cmd_threads_assert` | same | **violated**: an assert fails |
| `cmd_threads_forgotten` | same | **violated**: a command loses its timer |
| `events` | 1 repeated event, 3 one-shot timers, 3 descriptors for them, 2 firings, 1 life (940k) | StopReturns, QuietAfterStop, RunsOnlyWhenDue, ReadyHandled |
| `input` | timeout 3 ticks, 2 datagrams (442) | StaleNotForgotten, SilenceDetected |
| `video` | 2 chunks a frame, 2 bytes a packet, ids modulo 4, timestamps modulo 8, 2 frames, any number of resyncs and of pushes of chunks, IDR and not (476k) | reassembly, ids, headers, resync, newest frame, pace |
| `audio` | packets of 2, limit 7, 14 samples (336) | order, channels |
| `streamer_life` | one application thread, 2 groups, 2 good values (20k) | StoppedMeansQuiet, StopReturns, ConfigTrusted, CalibrationFollows |
| `client` | 10 buttons, 5 mouse buttons, a key with 2 characters, Return, an arrow, Control, 3 queued events, nine kinds of session (869k) | ClicksFollow, NoStuckKeys, FramesKeepComing |
| `setup` | 2 consoles, 2 faults (36k) | FilesAgree, PairingRepairs, RerunStreams |

Why the bounds are enough. In CmdProtocol a query interacts with another one
only through ids, descriptors and packets: two queries and three descriptors
make each of these collide (a resent command holds its old and new descriptor
while the other holds one), two sends include a resend and a give-up; the
theorems below remove the bound for safety. In CmdThreads two commands are what
a descriptor reused for another command takes. In EventMachine three one-shot
timers are what it takes for one to make a second while the third, reported in
the same batch, is cancelled and loses its descriptor to it. Video sizes cover an empty chunk,
a full packet and a remainder, three packets a frame against ids modulo 4 make
every id the first of a frame, and both too few chunks (an IDR) and too many (no
IDR) are pushed.
The pace is checked over several wraps of the counter, with ticks that overrun
and catch up; `MaxBehind` stays below half of its range (section 4 says what
happens beyond). The audio limit is odd while pushes are even, which is the case
where clipping would swap channels. A group with three copies and one with two
make every fallback happen, and two replies overlap. In `client` the sessions
put together what shares state: the triggers, Up and the mouse (the mask), the
wheel and a side button (its bits), a chord and the keyboard (Control), Return or
a typed key and Control (the route a key is sent by), the two chords (each other's Control), the
keyboard and the server (the loop's second half), Minus and Home (whose block is
nested in that of Minus); three queued events hold a key's
press, its text and one more. In `setup` two faults are what it takes to strand
an interface and meet it again, or to cut a run short and repair it in spite of
another fault, and two consoles what it takes to mix files. The
event machine lives once: see section 4.

Fairness. `CmdProtocol`: a registered timer whose machine runs is handled
(timerfd and epoll), nothing is assumed of the network or the GamePad.
`EventMachine`, `InputReceiver`: their thread is scheduled, time passes.
`VideoStreamer`: its thread runs and its timer fires; the latter is stated as
weak fairness of the timer's step with respect to `now`, which every tick and
nothing else changes, since the delay is at least 1 ms.
`VncClient`: time passes, and nothing else; `FramesKeepComing` assumes in its own
statement that updates keep being handled. `Setup`: commands return and timeouts
expire (weak fairness); `PadBoots` is strongly fair, because a GamePad that is on
repeats its requests, so that some of them meet a netboot that has its ports. `Streamer`: threads are scheduled and `CmdClient`
completes queries while it runs, which is what `cmd_queries` shows;
joining the synchronizer is strongly fair, because its stop event is handled in
the first batch after its callback returned, so the callback cannot be entered
over and over again.

Deadlock checking is off where the system may come to rest: a client that was
stopped, or one whose bounded number of queries is done.

## 4. What the checks found

Recorded as violations:

1. *Asserts* (`cmd_threads_assert`). The reply to a command may be handled on
   the UDP thread while the event machine's thread has already taken the expired
   timer out of its batch. `RetryOperation` then finds no state, or
   `CancelEvent` no event, and an assert aborts the program.
2. *A forgotten command* (`cmd_threads_forgotten`). `CancelEvent` goes by
   descriptor. If the timer of the command is replaced after the UDP thread read
   its descriptor, and the number is given to another command's timer, that one
   is erased: nothing retries it or gives it up any more. The timer of the first
   command is left behind without a state, so that about a second later
   RetryOperation's assert ends the program; the `Query` has then neither answered
   nor reported a timeout.

The same overlap may call a callback twice, with a success by one thread and a
failure by the other. `NoneEverLost` (section 5) says that this is the worst of it
for the callback: it is never called more often, and never not at all.

Met while modelling, and kept in the models as the code has it:

* `ClearUserEvents` erases the stop event and keeps the others, contrary to its
  comment in events.h:77. `stop_evt_` then dangles, so a machine that is
  started a second time cannot be stopped properly. This is why one life is
  modelled.
* `ProcessEvents` looks events up by descriptor (events.cpp:129). A timer that is
  made while a batch is handled, and gets the descriptor of one that was reported in
  that batch and cancelled since, is run in its place before it has expired:
  `read` fails with EAGAIN, which is logged, and the callback is called (lines
  138-147). For a command this is a retry, or a give-up, up to a second early.
  `RunsOnlyWhenDue` states this as its one exception (`fresh`).
* In `ProcessEvents` the user events behind the stop event in the same batch
  still run. `QuietAfterStop` shows that they do so before StopEM returns.
* A packet and an expired timer in one batch: the packet rearms the timer, but
  the timeout that was already reported still invalidates the fresh input
  (udp.cpp:144-164). It recovers with the next packet.
* After a resync request, chunks pushed by the application get the IDR option
  whatever they hold, and sending them clears the request
  (video-streamer.cpp:229-242), contrary to "Require an IDR to be sent next". A
  request is not answered while chunks that are no IDR are latched:
  `ResyncAnswered` states this as its one exception.
* Latched chunks are never dropped: once the application has pushed chunks,
  frames it pushes are latched but never shown. `NewestFrameShown` is stated for
  an application that pushes frames only.
* A thread that waits for a command while another one calls `Streamer::Stop` is
  never called back, and waits for ever.
* A streamer that cannot keep up adds to its lag with every tick and never gives
  it up (video-streamer.cpp:245-251). Once the lag passes 2^31 microseconds the
  signed difference turns positive and the timer is armed for some 36 minutes.
  `PaceKept` fails as soon as `MaxBehind` reaches half of `TimestampMod`.
* Two configuration replies at once: the calibration may be that of the reply
  loaded first (streamer.cpp:218-227). `CalibrationFollows` excepts it
  (`overlap`).
* `language_version_` is put together from bytes 0x257 and 0x258, the bank's
  checksum, and byte 0x259, which no checksum covers (device-config.cpp:423-424).
  A damaged reply can therefore change it, though only when the bank beside it is
  intact; `ConfigTrusted` says so.
* `Streamer::SetTSArea` divides integers (streamer.cpp:177).
* Releasing Up lets go of every mouse button that is held: `buttonMask &= 8`
  where `&= ~8` was meant (drcvncclient.cpp:516), against "Left click with ZL or
  ZR, and right click with L or R" in the header (line 29). The mouse and the
  GamePad release each other's buttons too. `ClicksFollow` excepts both
  (`dropped`).
* A key that is pressed with Control and released after it stays down on the
  remote desktop: the press was sent by keycode, the release is looked up in
  `keysDown` (drcvncclient.cpp:224, 340-347). So does, the other way round, a
  shifted character whose key is released with Control down, or is merely
  handled after Control was pressed, and a key whose character changes while it
  repeats. Return, Tab, BackSpace and Escape have a keysym and a code below 0x100,
  and stay down in the same way: Control replaces the keysym (line 224). `NoStuckKeys`
  excepts them (`mixed`).
* The side buttons of a mouse have the bits of the wheel (lines 291-292): pressing
  one scrolls, and turning the wheel releases it.
* A view-only client still sends text and wheel events, and never releases the
  text (lines 298-320, 350-355).
* The frame limiter clears `vncUpdate` for updates it drops: the last change of a
  desktop that comes to rest is not shown (lines 734-743). The first update only
  starts the limiter's clock.
* In listen mode, closing the window deletes the streamer, and the next
  connection uses it (lines 357-363, 708).
* `-joystick` promises a feeder that is idle in mouse mode (header, lines 33-34);
  the calls that would pause it are commented out (lines 462-466).
* `ProcessInputTimeout` does not run the callbacks: buttons of the uinput device
  that were down when the GamePad fell silent stay down. So does a mouse button
  of the VNC client, which then sees no valid input.
* The block for Home is nested in the block for Minus
  (drcvncclient.cpp:579-597), so Home alone does nothing, contrary to the table
  in the comment at line 455. Home pressed in the same poll as Minus does press
  Escape, and a Home that is then released alone leaves it down: nobody looks at
  Home until Minus changes again. `NoStuckKeys` excepts this too; the attempt to
  prove it without the exception brought it to light.

In the scripts, where `Setup` keeps them as they are:

* A script that dies between `iw ... add wlWiiUAP` and the renaming strands the
  interface: every later run dies on the same command, until the next reboot
  (stage-3:364, stage-4:169). So does a device that was not unplugged when the
  script asked for it. `PairingRepairs` and `RerunStreams` except a stranded
  interface, and `EarlierRunsDoNoHarm` shows that it is all they have to except.
* Stage 3 replaces the AP configuration long before the GamePad's address.
  Ended in between, it leaves a configuration for one console and an address for
  another's GamePad, and stage 4 waits for ever; ended between opening a file and
  writing it, an empty one. `FilesAgree` excepts this (`cutShort`);
  `PairingRepairs` shows that pairing once more puts it right.
* The hostapd that stage 4 leaves running makes the next stage 3 end with an
  exception, since only stage 4 kills it.
* When the VNC viewer cannot connect, the handler itself fails on an undefined
  name (stage-4:236). `kill(0)` of pexpect sends no signal; children end because
  their terminal is closed. Ctrl+C while the pairing loop waits for wpa_cli is
  swallowed, and at its prompts it is not. Nothing starts
  network-manager again.

## 5. Proofs

Every invariant of a passing run and the two action properties of the event
machine are theorems, for every value of the constants that the module's
assumptions allow. Liveness is out of the prover's reach; for most of the liveness
properties a theorem states the safety fact their argument rests on, namely that
whatever is waited for is still under way. `PROJECT.json` lists all of them.

### The command channel: `CmdProtocolProofs`

For every number of queries, ids, retries and descriptors, from
`SizesAssumption` (they are positive) and `NullAssumption` (NULL is no
descriptor and no number):

| Theorem | Statement |
|---|---|
| `TypeCorrect` | `Spec => []TypeOK` |
| `Invariance` | `Spec => []Inv` |
| `TimersAlwaysMatch`, `CalledBackOnce`, `SendsBounded` | the invariants of that name, also when ids wrap round |
| `WaitersAreTimed` | a query that was not called back has a registered timer, and sends left |
| `AnswersAlwaysMatch`, `AssertsHold` | under `NoWrap` (`NumQueries <= SeqIdMod`) |
| `ImplementsQueryServiceSafely` | under `NoWrap`, `Spec` implements QueryService's initial states and steps |

The inductive invariant is
`Inv == TypeOK /\ TimersMatch /\ Owner /\ CallbackOnce /\ Budget`. `CallbackOnce`
is not inductive: completing a command calls back the query in its entry, so no
two entries may belong to one query (`Owner`), and no entry may be found through
a timer that is not its own (`TimersMatch`). `SendBudget` needs `Budget`, which
ties the number of sends of a query in flight to its retry count. Completion by
reply and by giving up share the lemma `CompletionStep`; steps that leave the
bookkeeping alone share `QuietStep`.

Answers depend on what travels: `NetInv` says that, as long as ids have not
wrapped round, id and query coincide in the map, in every packet, and in what
the GamePad still repeats, that only queries that were issued travel, and that a
reply is only about what was executed. Without `NoWrap` neither theorem is true,
which is the case `cmd_wrap` explores. The refinement maps every step to one of
the service or to a stutter: a query is completed by the reply it waits for or
by its last retry, and by nothing else. `WaitersAreTimed` is the safety core of
`QueryAnswered`: each expiry of that timer calls back or spends one of the sends.

### The command channel, thread by thread: `CmdThreadsProofs`

For any finite set of callers, each with one query (so that no id is used twice),
any retry limit and any descriptors (`ThreadsAssumption`):

| Theorem | Statement |
|---|---|
| `CallbackAlwaysAssigned` | `Spec => []CallbackAssigned` |
| `NoneEverLost` | a command that is not in flight any more was called back, and none more than twice |

`AsyncQuery` publishes an entry under the lock and fills it in without it.
`ThreadsInv` says why nobody notices: an id is in a thread's hands, in a timer, or on
the wire only once its entry is filled in (`KnownAreHanded`), because SendQuery, which
makes all three, comes last; and no two callers fill in the same entry, because ids
are handed out one by one (`IdsLeft`). `CallsInv` counts: while a command is in
flight its callback was called once by each handler that is between the call and the
removal. There are two such handlers, and RemoveState by one of them does
not stop the other. TLC shows that two calls do happen, so that the bound is
exact. Neither theorem assumes that asserts hold; a failed one ends the behaviour.

### The event machine: `EventMachineProofs`

For any events, any finite set of descriptors and any number of firings and of
starts: `TypeCorrect`, `AlwaysQuietAfterStop` (QuietAfterStop),
`AlwaysRunsOnlyWhenDue` (RunsOnlyWhenDue) and `RunsBounded`: a repeated event runs
at most as often as it fired, a one-shot timer at most once, so that a timer which
ran early does not run again. For a machine that is started once (`MaxStarts =
1`), `StopNeverLost`: while StopEM waits, running_ is cleared or the stop event is
registered and among what epoll_wait returns, so that the thread cannot sleep
through it. That is what `StopReturns` rests on. It needs the one life: the stop
callback erases the stop event, and a second StopEM would trigger nothing
(section 4).

`LifeInv` ties the stop event to the owner: it is ready, or in the batch, only
while the owner waits in StopEM, so that the loop ends under a StopEM only and has
ended when that returns. About callbacks, `Lives` says that an event is made once
and has one descriptor, `Counted` that a ready descriptor belongs to an event
which fired more often than it ran, and `Reported` why a turn is due: what is in
the batch and still has an event is still ready, because no batch lists a
descriptor twice and whoever erases an event makes it unready, or else its event
was made since (`fresh`), and events made during a batch are one-shot.

### Input: `InputReceiverProofs`

For any timeout and any length of the socket's queue: `TypeCorrect` and
`NeverForgotten` (StaleNotForgotten). `StaleNotForgotten` speaks of input that is
as old as the timeout. `TimeoutDue` extends it to younger input: unless an
expiration is on its way (in `order` or in the batch), the timer's rest and the
silence together are within the timeout. That a batch never lists a socket whose
datagram is gone (`Lists`) is what keeps a read from failing.

### Video: `VideoStreamerProofs`

For any number and sizes of chunks and packets, any range of ids and timestamps,
any durations of ticks. From `PacketSizesAssumption` (numbers are positive) and
`StreamerAssumption`: a period is less than half of the timestamps' range (in the
code 16683 against 2^31), sizes are natural numbers, the streamer is behind by
less than half of the range (section 4).

| Theorem | Statement |
|---|---|
| `TypeCorrect` | `Spec => []TypeOK` |
| `AlwaysPaceKept` | `Spec => []PaceKept` |
| `AlwaysNoSequenceGap` | `Spec => []NoSequenceGap` |
| `AlwaysHeadersDecode` | `Spec => []HeadersDecode` |
| `FramesReassemble` | `Spec => []FrameReassembles` |
| `RequestNeverLost` | an IDR that is owed is asked for, waits to be sent, or is the first frame; chunks excepted |
| `NewestNeverLost` | the newest frame waits in `frame_` or is the latched one |
| `FramesInOrder` | without chunks, what a tick sends is what the one before latched, and never older than what was sent |

`PaceInv` says how far the streamer is behind. Only then is the signed
difference of two timestamps their distance (`SignedNear`), and the delay is a
period minus the lag minus the tick's own time, or the floor.

`StreamInv` says that the GamePad's next id is the streamer's once the waiting
packets are gone, and that these share one header, which is the one of the frame
`queued` describes. What `SetExtOption` and `ClearExtOption` do to the bytes is
worked out once (`SetOptionFacts`, `HeaderBytes`), and decoding them place by
place gives the options back (`HeaderDecodes`), for a rate of 0 too.

`FrameReassembles` is about `GenerateVstrmPackets` itself. The lemmas go from
what a fold means to what the loop does: `FlattenLaidOut` says at which position of
the frame packet k of chunk i is; `CutFlags` that the first, last and
chunk-ending positions are where the flags are; `CutCount` that there are as many
of these as chunks, since no chunk is without a packet; `SumFacts` that
SumFunction, which takes its elements in an order that is not specified, is the last
partial sum; and `ChunkSum`, `CutSum` that the payloads add up to the chunk and to the
frame.

The last three are the safety cores of `ResyncAnswered` and `NewestFrameShown`. A
request may be made before the thread has created its event, and is then answered by
the first frame, since frames are only made once the event exists; it may be
dropped when an IDR has just gone out, because `send_idr` says truly of what was
queued that it was one (`Requests`). With chunks latched that is not so, and a
request is lost to the application's own stream, which is the exception of
`ResyncAnswered`.

### Audio, in `StreamerProofs`

For any packet size, limit (positive; 48000 * 32 in the code) and sizes of
pushes: `AudioTypeCorrect`, `AlwaysInOrder`, and `AlwaysChannelsKept` under
`WholePairs` (packets and pushes hold whole pairs of samples, which is how the
callers push; half a pair swaps the channels for good). The channels need
that the queue, and what was pushed in all, are even, and that neighbours in the
queue are neighbours in the input (`Paired`), also behind what clipping to the
limit has dropped.

### The streamer: `StreamerProofs`

For any groups of the configuration and any values they may hold, from
`ConfigAssumption` (garbage is not a good value, and the panel's points and the
language bank are among the groups):

| Theorem | Statement |
|---|---|
| `TypeCorrect` | `Spec => []TypeOK` |
| `StopLeavesQuiet` | `StoppedMeansQuiet`, under `OneThread` |
| `ConfigAlwaysTrusted`, `CalibrationAlwaysFollows` | the invariants of that name |
| `WaitsAreServed` | who waits in Query waits for a command client that runs, under `OneThread` |

`StoppedMeansQuiet` speaks of the end of Stop only. `Passed` extends it to every
point of Stop: the parts passed so far are down, and what their threads were
doing is over and does not start again, because only a thread that was joined
could start it. This is where the order of Stop matters, and where `OneThread`
is needed: another thread could push a frame after the converter was joined.
`WaitsAreServed` is why Stop returns: the synchronizer, started last, is stopped
first, and an application of one thread does not call Stop while it waits. The
two about the configuration need `ConfigInv`: points on their way in a callback
are good too, and unless callbacks have overlapped there is only one, with the
points of the current configuration. The lemma `Loaded` is about LoadFromBlob
itself: a group becomes a good value or keeps the one it had, and
`language_version_` changes together with a bank that was checked only.

### The client: `VncClientProofs`

For any buttons, keys, texts, queue length and sessions, from `ClientAssumption`
(the keys that type text are other ones than those that do not, and the names
that stand for no key and no text are not among them): `TypeCorrect`, which says
that a bit of the wheel stays in the mask only for a side button that is down,
`ClicksAlwaysFollow` (ClicksFollow) and `NoKeyStuck`
(NoStuckKeys).

For `ClicksFollow` the invariant only adds that the buttons seen last are among
`Buttons`. The work is in one poll of the GamePad: `MaskAfter` says what the
sequence of updates of `buttonMask` comes to for each mouse button.

`NoStuckKeys` speaks of a keyboard at rest. `KeysInv` says at every moment why a key
of the remote desktop is down (`Reasons`): a button of the GamePad, Control, a
key of the keyboard that is still held or whose release is queued, or one of the
exceptions. It needs the order of the queue (`Orders`): a press that is queued is
followed by its release or the key is held (`PressesEnd`), and, as long as
Control has not changed in between, a text stands behind the press of its key, two
texts of one key agree or its release is between them, and what was sent as text
is still to be released.

### The scripts: `SetupProofs`

`FilesAlwaysAgree` (FilesAgree) and `EarlierRunsDoNoHarm`, for any number of
consoles and faults, from `SetupAssumption` (the placeholders for a shipped, an
empty and a missing file are not consoles). `FilesAgree` speaks of the moment the
files are read. `FilesInv` follows them through stage 3: the file of the
credentials is empty while a console is looked for and then holds that console's
(`PskFresh`), and outside of the window from opening the first file to closing the
second they fit or a run was cut short there (`FilesFit`).
`EarlierRunsDoNoHarm` is the safety core of `RerunStreams`: a run of stage 4 with
the files of the user's console ends before the stream only by a fault of its own,
at the viewer when no VNC server runs, or because it finds a wlWiiUAP that a dead
script has not renamed; the names and daemons it needs to be free, or to be there,
are (`Found`).

### How induction over data is done, and what is only model-checked

The induction theorems of the library take a predicate as a parameter, which the
provers cannot instantiate. The lemma `PositionInduction` states the same for a
*set* of positions, from the least position outside of it; what `SeqIdsFrom`,
`FlattenSeq` and `SumFunction` compute is proved with it, after showing that a
function satisfying their recursion exists and is the only one.

Only model-checked: liveness (`QueryAnswered`, `StopReturns`, `ReadyHandled`,
`SilenceDetected`, `ResyncAnswered`, `NewestFrameShown`, `FramesKeepComing`,
`PairingRepairs`, `RerunStreams`) and the fairness of `QueryService`, which are out of TLAPS's reach.

## 6. Not modelled

* `drc-hostap`, `drc-x264`, the kernel patches: third-party code, and more than
  95 of every 100 lines of the repository. The program's own logic, which the
  modules are about, is a few thousand lines. `netboot.c` is reduced to whether
  it holds its ports.
* TSF (reads one counter), uinput feeder (writes events), C wrapper (forwards
  calls), demos, installation scripts. `drcvncclient-broken-mess.cpp` is not
  built.
* Data: pixels and scaling of `VideoConverter`, the float arithmetic of sticks,
  touch points and calibration, the contents of commands, pointer positions,
  `SetTSArea`. The assignment of NALs to chunks in `H264Encoder` depends on
  slices x264 makes.
* The end of a streamer's life in `VideoStreamer`, with the race on
  `resync_evt_`; a second life of an event machine; the client's `-listen` option.
  Each meets undefined behaviour at once, so that no property survives it.

## 7. What is left

The invariants and action properties of all components are proved. A step
simulation of `CmdProtocol` by `CmdThreads` is not to be had: a callback that is
called twice, or a timer that is erased for another command, is a step of the
threads and none of `CmdProtocol`, which is what the two violations of section 4
are. A repair, one lock around PacketReceived and RetryOperation, would make the
handlers those of `CmdProtocol`; it would be the next thing to model. Beyond that,
only liveness remains, for a prover that handles fairness.
