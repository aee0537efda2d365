# Verification of the KaRadio32 firmware

TLA+ models of the parts of KaRadio32 (an ESP32 web radio, FreeRTOS, in C) whose
correctness depends on the order in which tasks, interrupts, servers and the power
do things; TLC runs that check them on small instances; and TLAPS proofs for every
size. Each definition that models code is listed with its lines under `map` in
`PROJECT.json`.

## 1. The system

### Components

| component | state | operations | speaks to |
|---|---|---|---|
| song buffer `components/fifo/spiram_fifo.c` | ring, read and write position, fill, epoch; mutex, two semaphores | init, destroy, re-size, write, read, try-read, reset | written by the client task, read by a decoder task, flushed by both and by others |
| audio player `components/audio_player`, `common_buffer` | `player_status`, `decoder_status`, `command`, `decoder_command`, end of file; no lock | start, stop, stream consumer, creation of the decoder task | called by the client task and by every task with a user |
| decoder tasks `mp3_decoder`, `fdk-aac_decoder`, `vs1053` | their loop | read the song buffer, end on a stop or at the end of the stream | player, song buffer, renderer |
| audio renderer `components/audio_renderer` | I2S configuration | init, start, stop, render | called by decoders |
| web client `main/webclient.c` | semaphores `sConnect`, `sConnected`, `sDisconnect`; `cstatus`, `playing`, `once`, `metad`, chunk state, header | connect, connect once, disconnect, receive callback, the client task | player, DNS, sockets, TLS, HLS |
| HLS client `main/hls.c`, `hls_ts.c`, `hls_fmp4.c` | play list, segment, connection, parser state | read play lists and segments, demultiplex | run by the client task, feeds the player |
| settings `main/eeprom.c` | partitions DEVICE, DEVICE1, STATIONS; `g_device`; `muxDevice` | save, save volume, copy, restore, erase, save and read stations | every task with a user, and boot |
| boot, timers, network `main/app_main.c` | `g_device`, event queue, sleep and wake timers, Wi-Fi event group | boot, timer interrupts, timer task, Wi-Fi events, console task | everything |
| servers `main/servers.c`, `webserver.c`, `websocket.c`, `telnet.c` | sockets, slots of clients, counting semaphore of workers, telnet line buffer | accept, workers, pages, frames, broadcast, telnet lines | interface, web client, settings, update |
| commands `main/interface.c` | none of its own | parse a line, act | web client, settings, player |
| update `main/ota.c` | queue of chunks, `ota_active` | start, write, finish, the update task | web server, flash |
| display and input `main/addon*.c`, `Click*.c`, `xpt2046` | screen state, event queues, debouncing | draw, encoders, buttons, touch | timers, web client |
| infra-red, gpio, clock, LED, amplifier | | | |
| Bluetooth speaker `components/bt_speaker` | A2DP and AVRCP state | callbacks of the stack | renderer |
| vendored: bt, wolfssl, mad, fdk-aac, u8g2, ucglib | | | |

### How a station is played

A user (console, web page, telnet, encoder, timer) calls `playStationInt`:
`clientSilentDisconnect` signals `sDisconnect`, calls `audio_player_stop` and waits up
to a second; `clientConnect` resolves the name and gives `sConnect`. The client task
wakes, connects, sends the request, and hands everything it receives to
`clientReceiveCallback`, which reads the header, starts the player, separates audio
from metadata and hands the audio to `audio_stream_consumer`. That writes it to the
song buffer (and waits for room) and, when the buffer is full enough, creates a
decoder task, which reads the buffer until it is told to stop or until the stream has
ended. None of the status words these tasks share has a lock.

### What is hard, and what would make each part correct

* **Song buffer**: two tasks that poll under one mutex, one chunk at a time, with a
  flush between any two chunks and a ring that is smaller than a chunk during a TLS
  handshake. Correct: a bounded queue; no part of a packet survives a flush; the two
  sides never wait for each other.
* **Playback**: plain words shared by the client, the decoder and all the users;
  stops that time out; a creation that overlaps the end of the last decoder. Correct:
  one decoder at a time, `decoder_status` never wrong about it, the client always
  comes back, a stop stops.
* **Streams** (ICY, chunked, HTTP, TS, fMP4): parsers of a byte stream that arrives cut
  anywhere. Correct: the same output for every cut. **HLS**: segments that fail and are
  fetched again from a newer list, which may have dropped them, or be older. Correct:
  heard in order, with the section they need.
* **Settings**: erase and program, by several tasks, with loss of power at any step.
  Correct: what the user saved survives; the fallback is whole when it is needed.
* **Stations**: a sector is read, erased and written back without a lock. Correct: a
  save changes what it saves and nothing else, and ends.
* **Update**: a queue between two tasks that is created and deleted while it is used.
  Correct: what is written is what one upload sent; an update ends, one way or another.
* **Servers**: slots of sockets shared by the server task and four workers. Correct: no
  permit is lost, a connection is closed once, a client that connects is served.
* **Frames of the AAC decoder**: slots that go round between two queues and two tasks,
  and a flush at any moment. Correct: a slot is in one place, frames are heard in order.
* **Timers**: interrupts that send to a bounded queue and ignore that it is full.

Each hazard is listed at its line, with the properties that cover it, in
`PROJECT.json`.

## 2. Plan

In place, in the order in which they were written:

1. `SpiRamFifo` and the abstract `ByteQueue` it implements.
2. `Playback`: client task, player and decoders together. It takes the song buffer as
   its fill level, which `SpiRamFifo` justifies.
3. `IcyStream`, the de-interleaver of metadata.
4. `DeviceSettings`, both copies of the settings; `Stations`, the list of stations.
5. `ChunkedStream`, `HlsHttp`, `TsDemux`, `Fmp4Demux`: the parsers of what is received.
6. `HlsPlay`: play lists, segments and their failures.
7. `Ota`, `Servers`, `PcmQueue`: the queues, slots and permits that tasks share.
8. `Streams`, `Services`: the parts above that share no state, one after another.
9. Proofs: `SpiRamFifo_proofs` (with the refinement), `Playback_proofs`,
   `Eeprom_proofs` (`DeviceSettings` and `Stations`), `Receive_proofs` (`IcyStream`,
   `ChunkedStream` and `TsDemux`), `Hls_proofs` (`HlsPlay` and `HlsHttp`),
   `Streams_proofs` (`Fmp4Demux`, and `Streams`), `Ota_proofs`, `Servers_proofs`
   (`PcmQueue`, `Servers`, and `Services`).

Left, the most useful first:

* the timers of `app_main.c` (interrupts, the bounded queue, sleep and wake) and the
  events of Wi-Fi; the line buffer of telnet; the broadcasts of the websockets;
* the end of the AAC decoder and the failures of the renderer, in `Playback`.

## 3. The modules

Every module keeps the names of the C code for what the C code names. Its own variables
and actions begin with a prefix (`Sta`, `Ota`, `Srv`, `Pcm`, `Chunk`, `Http`, `Ts`, `Fm`,
`Hls`), so that the composites can extend several of them.

### `SpiRamFifo`, `ByteQueue`
One action is one hold of `mux`: `WriteCall` (the packet and the epoch sampled),
`WriteChunk`, `WriteDrop` (flushed meanwhile), `ReadCall`, `ReadChunk`, `TryRead`,
`Reset`, `Reinit` (destroy, re-size, init). A byte is its place in the sequence of all
bytes written, so that order, loss and repetition are visible. The variables have the
names of the C file's statics. `ImplementsQueue` maps ring, positions and fill to a
sequence.

### `Playback`, `MCPlayback`
One action is one store, semaphore call or wait with the tests that lead to it; a task
has a label and a stack of return labels, so that `clientDisconnect`, `clientConnect`
and `audio_player_stop` are written once for all the tasks that run them. Two slots of
decoder tasks make a second decoder possible. A behaviour is of one radio (`Setups`):
whether it has a VS1053, what its users press, what its servers do, and whether task
creations and name lookups may fail. `mp3_decoder_task` and `vsTask` differ in the order
of their last three steps. What a server sends is chosen freely at every step.

A decoder runs on another core, and nothing orders its steps and its creator's next
store: a decoder of either kind may tell its end before its creator tells of its
beginning, which `late` records. One timing is assumed: `audio_player_stop`'s five seconds
run out only when the decoder cannot move (`StopWait`). `Prompt`, used by the three runs
that report a violation, says further that no task is held up for as long as a packet
takes to come, so that those counterexamples need no slow task.

### `IcyStream`, `ChunkedStream`, `TsDemux`, `Fmp4Demux`
Each is given a stream cut anywhere into receptions; one action is a reception, or one
round of the loop over what it holds. A byte is what it is for (audio, a length,
metadata, a line end; a packet or a box and a place in it), so that a byte that is lost,
doubled, moved or taken for another shows. `IcyStream` is the loop over the blocks of a
reception in `clientReceiveCallback`. `ChunkedStream` is the branch for `cchunk`, with
the reception in place that looks ahead for the next length; it takes every line of a
size, with its end, to be no longer than the look-ahead (`ChunkAssumption`: 9 bytes in
the code, which are seven hexadecimal digits and a line end). When the connection is
silent during the look-ahead (`ChunkSilent`) the round is made on what is there: it goes
through if the line of the next length has come; otherwise what is held is handed on, line
ends and all, and the client connects again, or, if a line end is found in what an earlier
reception has left, or only half of one has come, the count of what is left wraps
(`ChunkTorn`). `TsDemux` is `ts_feed` with
its packet buffer, `ts_packet` with the state of the PES packet, and the batches of
`ts_out`; `Fmp4Demux` is `fmp4_feed` with its headers of two lengths, the collected
boxes, and the samples in `mdat`. The properties of the last two (`TsAudio`, `FmFrames`)
compare the output with a reading of the whole segment that knows nothing of cuts.
`TsAssumption` asks of a segment that its packets have a payload shorter than a packet;
`FmAssumption` of a section that it has a `moov` that can be collected and is not behind a
box without an end, and of a media segment that it has no `moov`. `FmFragments` asks of a
media segment what makes it one of fragments, and what the one list `sizes` in `fmp4_t`
("samples of the current fragment") counts on: the samples a `moof` announces lie, one behind the other, in the
next `mdat`; no other `moof` comes before that; and only the last box goes on to the end.

### `HlsHttp`
`http_get` and `body_feed`: the kept connection, its loss and the one retry,
redirections, the three ways to delimit a body. One action receives any part of what the
server has sent, or takes one byte through `body_feed`; a stop or a drop of the connection
may come between any two.

### `HlsPlay`
`hls_play` and `process_segments`: one action is one fetch with its outcome, or one test
of the loop. The server adds segments, ends the list, or serves an older one. A segment
has a map and a timeline; `section` is what the demultiplexer was last given, and
`last_map`, `last_seq`, `have_last`, `big` are the variables of the function. `gap` and
`stale` record that a segment was passed over or that a list was older than the one
before. Every segment is taken to have a map; transport streams, which have none, take
the same path without the section.

### `DeviceSettings`
A partition is three cells, in the order they are programmed: the marker `cleared`, the
settings, and the marker of the palette. A cell is a set of bits: erasing sets all,
programming intersects, as NOR flash does. `PowerLoss` may happen at every step, boot
included; `Boot` is what `app_main` does until the tasks start, with the saves it
makes itself when a setting makes no sense (`Check`: the brightness of the LED, the speed
of the UART, the names of Bluetooth). `Change` stands for every
command that changes `g_device` and saves, `Backup` for those that then copy,
`SaveVolume` for the end of `clientDisconnect`, `SysErase` for `sys.erase`.

### `Stations`
`/setStation` takes the number of the first station from the web page if it is one of a
station, and 0 otherwise (`FirstPlace`). `saveMultiStation`: a run is clamped (`StaClamp`, with the wrap of its 8-bit count), and
then goes sector by sector through `eeSetData`: `StaRead`, `StaErase` 10 ms later,
`StaWrite`. Two tasks save, and `StaCrash` may come at any step. `staSaved` is what was
last saved at each place, `staBroken` the sectors in which two saves met or one was cut.
`StaLook` and the scans are `wsStationNext` and `wsStationPrev`.

### `Ota`
The worker that takes an upload (`ota_update_from_socket_start`, `_write`, `_finish` as
the web server calls them) and `ota_task`. Queues are kept after they are deleted, so
that their use shows. Flash, connection and memory may fail at every call, and a queue
may have no room for a second. The first chunk is what came with the header of the
request, from a buffer of 1536 bytes: what it has beyond the 1024 of a chunk is cut off,
and counts as sent. An upload may begin beside another, whose refusal the web server
ignores. `otaFaults` records all this, for the properties that excuse it. When two uploads
have both found none active ("race") there are two tasks and one queue, which each may use
after the other has deleted it: the model records that and goes no further.

### `Servers`
`serversTask` builds the set of sockets, selects, accepts, takes a permit, creates a
worker, reads the websockets; `serverclientTask` answers, closes or registers its
connection, in the two steps of `websocketnewclient` (find a slot, take it). A websocket
sends a frame whole or in parts: `TaskRead` is `websocketRead`, which treats a whole one,
removes the socket when the client has gone, or has read a part; then `TaskParse`, the
loops of `websocketparsedata`, reads on in the server task until the rest has come. Nothing
but the rest ends that wait.

### `PcmQueue`
The decoder takes a slot, copies, sends, flushes, ends; `pcmq_task` receives, renders,
gives the slot back. A flush is two steps per slot, and `pcmq_task` runs between them.
`PcmStop` is `audio_player_stop`, which ends a wait for a slot; no fairness makes anyone
press it.

### `Streams`, `MCStreams`, `Services`
Composites of parts that share no state, as one system whose variable `part` tells which
is at work: `Streams` of the six parsers of what is received, `Services` of settings,
stations, update, servers and frames. One run asks the same kind of question of all
its parts; nothing is checked of two at work together, since none reads what another
writes. `MCStreams` holds the packets, boxes, lists and answers of the instance.

## 4. What is checked

| run | bounds | shows |
|---|---|---|
| `song_buffer` | rings of 1, 3, 4 bytes, chunks of 2, packets of 1 to 3, 7 bytes, 2 flushes or re-sizings | the queue refinement, `CursorsAgree`, `NoPartialPacket`, `NoMutualWait`, `WriteReturns` |
| `playback` | one user, 2 presses, buffer of 3; five radios: play and stop with play lists, unknown types and bad headers; play and stop with streams that stall, end, are refused; instant plays; a VS1053 with stalls; a VS1053 with failures | `OneDecoder`, `StatusTells`, `StatusIsTrue` |
| `playback_returns` | mp3, play and stop, a server that stalls | `ClientReturns` under fairness, but for a client left with a full buffer and no decoder (`Unread`) |
| `stop_lost`, `no_decoder`, `short_clip` | as small as the counterexample allows | violations, below |
| `streams`: ICY | blocks of 3 audio bytes and 0, 2 or 4 of metadata, 3 blocks, receptions of 1 to 9 | `AudioOnly`, `MetadRight` |
| `streams`: chunks | sizes 1, 2, 4, at most 3 chunks, look-ahead of 4, receptions up to 8 | `ChunkData` |
| `streams`: HTTP | base 2, receptions up to 4, 2 calls, 7 kinds of answer | `HttpReturnsWhole`, `HttpKeptIsClean`, `HttpAsksAtMost` |
| `streams`: TS | packets and batches of 3 bytes, receptions up to 7, 2 segments of 5 kinds | `TsAudio` |
| `streams`: fMP4 | frames up to 2, boxes up to 2, receptions up to 8, 3 files | `FmFrames`, `FmConfiguredAtOnce` |
| `streams`: HLS | 4 segments, window of 3, lists older by 1, joined 3 before the end, 4 failures, one section or two, one timeline or two | `HlsInOrder`, `HlsSectionRight`, `HlsEndedIsHeard` |
| `icy_cut` | as ICY above | violation, below |
| `services`: settings | 2 tasks, 3 operations of every kind or saves of the boot, 2 losses of power | `StationsSurvive`, `ChangesAreSaved`, `VersionsNeverMix` |
| `services`: stations | 2 sectors of 3, 2 tasks, 2 saves of 1 or 3 stations from the number 0, 2, 4 or 7, 8-valued count, a crash at any step | `StaKept`, `StaReturns` |
| `services`: update | 2 workers, uploads one after another or at the same time, an image of 2 chunks, a queue of 1, every fault | `OtaImage`, `OtaQueueLives`, `OtaRestarts`, `OtaEnds` |
| `services`: servers | 3 connections, 2 workers, 2 slots, frames whole and in parts | `SrvPermits`, `SrvHeld`, `SrvServes` |
| `services`: frames | 3 slots, 5 frames, a flush, a stop or an end at any moment | `PcmOnePlace`, `PcmInOrder`, `PcmReturns` |
| `settings_torn`, `backup_race`, `ws_unread` | as small as the counterexample allows | violations, below |

`StreamsTypeOK` and `ServicesTypeOK` are the type invariants of all parts of the two
composites; the other runs check the `TypeOK` of their module.

Why the bounds suffice: the ring of 1 is smaller than a chunk, that of 3 is no multiple
of it and that of 4 is, a packet of 3 does not fit in one chunk, and 7 bytes wrap every
ring; two presses make every pair of operations overlap, at every point of the life of
a stream; a buffer of 3 has an empty, a low, a sufficient and a full level. A reception
of 9 can hold three blocks of ICY or several chunks, packets and boxes with their
headers, and the smallest ones hold a single byte, so that every place of every unit is
a cut and every number of units arrives at once; a chunk size of two digits exists, and
answers end in every way. Four segments with a window of three let a failed one leave
the list. Two tasks that save are a holder of the mutex and one that waits, copies or
gives up, and the second loss of power can hit the boot that repairs the first; a run of
3 from place 2 or 4 crosses a sector, or the end, and 7 is beyond the last place: without
the test of `/setStation` the count would wrap (that is a mutant). An image of 2 fills a queue
of 1, its first chunk is whole or cut, and the second worker uploads after the first, also
after its failure, or beside it. With three connections one waits
for a worker while two have one, or two hold the slots and one has none; five frames go
round three slots.

### Fairness
All fairness is weak, and of a task that FreeRTOS runs when it is ready. `SpiRamFifo`: both
tasks poll every 20 ms and give up the processor in between, so a chunk that can be
copied is copied. `Playback`: tasks have different priorities, but each waits in its
loop; every wait but the three whose guards say otherwise is bounded, and a reception
times out. `Services`: each task of the part that is at work (a saver, the scan, a
worker, `ota_task`, `serversTask`, the decoder, `pcmq_task`); users, clients and the power
are not fair, nor is a stop of the decoder. The liveness properties say what they excuse:
`ClientReturns` a client left with a full buffer and no decoder (below), `StaReturns` a
search among empty stations only, `OtaRestarts` every fault, `OtaEnds` an end of the
upload that found no room for a second and two uploads that both found none active,
`SrvServes` a worker without memory, since its permit is gone, and a client that leaves a
frame unfinished for ever (`FramesEnd`).

### Disagreements found
* `stop_lost`: a stop pressed while the server stalls is taken for the end of the
  stream, and the client connects again by itself.
* `no_decoder`: `decoder_status = RUNNING` is stored after the task is created. A `vsTask`
  that finds a stop waiting ends first; the status stays RUNNING and no decoder is ever
  started again. The mp3 decoder has to set up its output before it looks for a stop, so
  that its creator must be held up meanwhile; nothing rules it out, and `StatusIsTrue`
  excuses it too (`late`).
* `short_clip`: an instant stream shorter than the start threshold is waited for for ever.
* `icy_cut`: a reception that ends within a block of metadata has the rest of it played
  and loses the position of the next length byte.
* `settings_torn`: the marker is programmed before the settings it vouches for. A loss of
  power in between boots erased settings, and copies them over the safe ones.
* `backup_race`: `copyDeviceSettings` does not take `muxDevice`: both partitions can be
  erased at the same time, and a loss of power then clears the stations.
* `ws_unread`: the set for `select` is built before a worker registers another websocket;
  what that one sends is not read until something else happens.

Met while the code was modelled, and excused or avoided by the properties, each at the
place named in the model:

* `webserver.c`: a worker without memory for its buffer ends without `semclient` and
  without closing its socket (`WorkerBegin`). The refusal of
  `ota_update_from_socket_start` is not looked at, and the upload goes on (`OtaTest`): its
  chunks and its end go into the queue of the upload that is under way, which is then not
  restarted from, or loses its queue while it sends.
* `websocket.c`: when no slot is free the socket is neither registered nor closed; two
  workers can take the same slot (`WorkerFind`, `WorkerTake`). `websocketparsedata` waits
  for the rest of a frame in loops without another way out (lines 263, 274, 281, 302 and
  307), in the server task: it serves nobody meanwhile, for ever if the client closes the
  connection in the middle of a frame, and a read that times out takes one off the count
  of what has come (`TaskParse`).
* `ota.c`: a chunk longer than 1024 bytes is cut without an error (lines 364 and 365), which
  happens to the part of an upload that came with its header: the image has a gap, and is
  not restarted from (`OtaSend`). The queue is deleted while a worker sends to it, when the
  flash fails (`OtaExit`); the end of the upload is lost when the queue is full
  (`OtaSendEof`); two uploads that come within the second of `clientDisconnect` both find
  none active, and make two tasks and one queue (`OtaTest`).
* `eeprom.c`: `saveMultiStation` never ends for a first position above 255, which the
  8-bit count cannot undo; only the test in `/setStation` prevents it (`StaClamp`,
  `FirstPlace`). A crash between erasure and write loses the sector's 16
  stations; two saves in one sector undo each other (`staBroken`). A save of the volume
  beside another save is dropped (`VolumeTake`).
* `webclient.c`: `wsStationNext` does not end when all stations are empty
  (`StaAtRest`). The look-ahead for a chunk length spins when the server has closed the
  connection; when it is silent, a length that has not come is taken for a line that is too
  long, and what is held is handed on with its line ends, or the count of what is left
  wraps and `memcpy` runs out of the memory (`ChunkSilent`, `ChunkTorn`).
* `mp3_decoder.c`: the buffer is flushed before STOPPED is stored: if the client fills it
  again in between, it finds RUNNING, starts no decoder and waits for room for ever
  (`Unread`, which `ClientReturns` excuses).
* `hls.c`: a trailer behind the last chunk stays on a connection that is kept
  (`HttpKeptIsClean` excuses it).
* `hls_fmp4.c`: an initialisation section that comes in pieces can be followed by media
  without a configuration (`FmConfigured` does not hold, `FmConfiguredAtOnce` does).
* `hls_ts.c`: the PID of the audio stream is taken from the first table and never
  changes (`TsDemux`).

## 5. What is proved

TLC checks the instances above; the theorems are about every value of the constants.
Each rests on the named assumptions on the constants alone, and on no bound. In each
proof module the invariant is shown to hold at first (`...Init`) and to be kept by each
action, one lemma for an action or a group that touches the same variables.

### The song buffer
`SpiRamFifo_proofs`, from `FifoAssumption` alone (positive chunk size and ring sizes), for
every ring, chunk, packet and number of flushes: `TypeCorrect`, `CursorsAlwaysAgree`,
`NoPartialPacketSurvives`, `NeverMutualWait`. The inductive invariant `IInv` adds two facts
to `TypeOK` and `CursorsAgree`: `WriterInv` (a writer whose epoch is current has exactly
the end of the written sequence left; what was flushed and what is in the ring precede
it) and `ContentInv` (the ring holds the bytes just before the writer's next one, in
order). `NoPartialPacket` alone is not inductive, because what may enter the ring after
a flush depends on the epoch the writer sampled. `NoMutualWait` follows from
`CursorsAgree`: a chunk never crosses the end of the ring, so a reader that lacks bytes
leaves room for any chunk of the writer.

Its second part proves `FifoImplementsQueue`, that is `Spec => ImplementsQueue`.
`ContentInv` says that the ring, read as a sequence, is the run of bytes that ends just
before `NextIn`; two runs with the same end and the same length are equal, which turns
each step of the ring, wrapped or not, into `Put`, `Get`, `Flush` or a stutter.

### Playing
`Playback_proofs`, for any number of users, any servers, any capacity and either decoder:
`TypeCorrect`, `OneDecoderHolds`, `StatusTellsHolds`, `StatusIsTrueHolds`. `PlaybackInv` says that at most one slot is
`Active`, that is created and not yet past the store that tells its end, and that
`decoder_status` is then RUNNING or the client about to store it (`create.end`).
The weaker `Playing` of `OneDecoder` is not inductive: a decoder that has been created and
not run yet, or has left its loop and not told so, would let another be started. The client
creates a decoder only in a state whose `decoder_status` rules an active one out.

`TypeCorrect` needs the stacks: a task that returns goes where its stack says, so that
the type of `pc` rests on a stack that is not empty within a procedure and ends outside
one (`ControlInv`). `StatusIsTrue` is about the status as `StatusTells` is, the other way
round: RUNNING is stored only behind the creation of a decoder, which is still `Active` then
or `late` (`TrueInv`), and only a decoder that stores STOPPED ceases to be. It is `late` once
and for all, since nothing corrects the status.

### The settings
`Eeprom_proofs`, from `SettingsAssumption` alone, for every set of tasks, every
choice of what they do, and every number of changes and of losses of power:
`TypeCorrect`, `StationsAlwaysSurvive` (unless a copy was made beside another task),
`VersionsNeverMixed` (likewise), `ChangesAlwaysSaved` (unless a save of the volume was
dropped beside another save). The four are not inductive, because what a loss of power leaves depends on how far each
task has come. The invariant says: only the holder of `muxDevice` programs `DEVICE`
(`MutexInv`); the tasks run only when `app_main` is done (`BootInv`); which cells of a
save are programmed, and that `g_device` is then complete (`ProgramInv`); that `DEVICE`
is complete while it is copied and whenever nobody saves (`CopyInv`); that at every
moment `DEVICE1` is valid or `DEVICE` complete, down to its last cell, the palette, since
a start that finds the palette missing erases `DEVICE` to add it (`KeptInv`); that a valid
partition holds a version (`ConfInv`); and that a change not yet in flash has a task on
its way to save it (`SavedInv`). `KeptInv` and `CopyInv` are conditional on `Quiet`: the
copies of `copyDeviceSettings` beside another task's save are what `backup_race` reports.

### The stations
The second part of `Eeprom_proofs`, from `StaAssumption`, for any sectors, runs, tasks and crashes:
`StaTypesHold` and `StaKeptHolds`. A save that is under way is described by what it was asked for and how far
it has come (`StaRuns`: what is left of a run is what was asked for, in this sector and
behind it); what it has read of a sector is what is in flash, unless another save met
it there (`StaBuffers`, `StaMet`). `StaKept` alone says nothing of the copy in memory, which
is what the write puts back. The lemmas before it are the arithmetic of places and
sectors.

### Live streaming
`Hls_proofs`, for any play lists, windows, lags, sections, timelines and numbers of
failures: `HlsTypeCorrect`, `HlsInOrderHolds`, `HlsSectionHolds`, `HlsEndedHolds`. `HlsInv`
relates the segment that is fetched to the last one heard and to the list it came from
(`PlaceInv`, `OrderInv`), the remembered map to the section that was fed last and the
segment it was fed for (`SectionInv`), and the end of a list to the end of the server's
(`EndedInv`). The order is an action property and follows from `OrderInv` before the step.

### The server
The second part of `Servers_proofs`, from `SrvAssumption`, for any connections, workers and slots:
`SrvTypeCorrect`, `SrvPermitsHolds`, `SrvHeldHolds`. `SrvPlaces` says where the server task
and the workers can be, given each other: a connection has no worker before one is
created, the one that is accepted is in the server task's hand. `SrvHeldInv` says in
first-order terms that an open connection has exactly one holder, and one that is not
open none; `SrvHeld`, about a cardinality, follows from it at the end. Without `SrvPlaces`
it is not inductive: a worker might close a connection that is also in a slot.

### The frames
The first part of `Servers_proofs`, from `PcmAssumption`, for any slots and frames: `PcmTypeCorrect`,
`PcmOnePlaceHolds`. `PcmHands` says at which steps a task holds a slot, and at most one;
`PcmPlaces` that each slot is in exactly one of the two queues, at one position, or in one
hand; `PcmMemory` that what is queued or rendered is a frame. A send needs room in its
queue, which follows from `PcmPlaces`: no queue can hold a slot twice.

`PcmInOrderHolds`: frames are heard in the order in which they were decoded. `PcmOrder`
says that what was heard comes before what `pcmq_task` renders, that before what is
queued, each in rising order, and that all of them together are the frames sent but
those that a flush dropped; `PcmInOrder` follows at the end.

### Receiving
`Receive_proofs`, from `IcyAssumption` and `ChunkAssumption`, for any blocks, chunks,
sizes and cuts: `IcyTypesHold`, `AudioOnlyHolds`, `MetadRightHolds`, `ChunkTypesHold`,
`ChunkDataHolds`, and, of transport streams, `TsTypesHold` and `TsAudioHolds`. A stream is a `FlattenSeq` of any number of pieces of any length. The
first part says where each piece begins in it and that every place lies in one piece
(`Layout`), by induction on the number of pieces; the library's induction theorems take an
operator, so the induction is over sets: a set of numbers that holds 0 and with every
number the next holds them all (`AllOf`, from the well-foundedness of intervals). `IcyInv`
says of the place that has been reached that `metad` counts the bytes to the next length
byte, in which block that is, and how far the block has come; `ChunkInv` that the count of
`chunk` is what is left of the chunk whose size was read last, and that the buffer is the
stream from there to what has come, also in the rounds behind a silence; what the code does
when the next length has not come (`ChunkTorn`) ends what `ChunkData` is about. The look-ahead is why `ChunkInv` needs the length of
the longest line of a size.

The third part is about `TsDemux`, from `TsAssumption`, for any packets, cuts and batches.
`Laid` says that every packet is in its place in the segment. Behind packet `m`, with `o`
bytes of the next one come (`TsPlace`), the packet buffer holds just these; the tables seen
and the rest of the PES header to skip are what the first `m` packets tell (`KnowsAt`,
where `SkipAfter` is that rest); and what has been handed on, with the batch that is still
held, is `Heard(m)`, their audio. A reception moves the place on byte by byte, so that
`TsFed` is followed by an induction over the bytes, again with a set; every batch and every
reception leaves `m` the number of packets that `TsAudio` calls complete (`CompleteAre`).
What a segment that broke off has left in the buffer is dropped at its end, which is why the
next one begins at its first byte; only the tables go over to it.

### The update
`Ota_proofs`, from `OtaAssumption`, for any workers, images, queues and faults:
`OtaTypes`, `OtaImageHolds` and `OtaQueueLivesHolds`. The invariant has two parts, for how
much holds depends on how uploads have met. As long as no upload began beside another there
is `OtaLoneInv`: at most one worker is busy and one task alive, and both at once only while
the worker sends (`OtaOne`); `ota_active` tells whether a task is there or about to be,
and then its queue lives (`OtaActive`); worker and task use that queue, and a task stops
before its worker only when the flash fails (`OtaUses`); what is written and then queued
is what one worker has sent, the first chunk perhaps cut (`OtaOrder`). That rules out a
worker that sends to a deleted queue. When uploads do meet, but no two have both found none
active, there is still `OtaSingle`: one worker at most is about to make a task, and none
while one is alive; a task has the queue in use, which lives. So one task writes at a time,
and it never waits for a deleted queue, whatever the refused upload sends.

### Answers
The second part of `Hls_proofs`, from `HttpAssumption`, for any answers, redirections,
receptions, drops and calls: `HttpAsksAtMostHolds`, `HttpTypesHold`,
`HttpReturnsWholeHolds` and `HttpKeptIsCleanHolds`. `HttpAssumption` asks of an answer that a
chunk of no bytes is only the one that ends the body.

`HttpAskInv` says how many requests have been written, given where the call stands, and
that a kept connection is there at the first one only.

`HttpInv` says what has been received and what is still in the connection: parts of the
last answer, one after the other (`Parts`), or, before its header is complete, what an
earlier answer has left, which does not begin as a header (`NoHead`) and so ends the call.
That is why a body must not contain the first byte of one (`OfBody`). In a body,
`FeedState` knows a place `q`: what was given is the payload up to there, and the state of
`body_feed` is that of the place (`AtPlace`): so many digits of a size (`InDigits`), behind
them in its line (`InLine`), so far from the end of the data (`InData`, where `csize` counts
down), at the line end behind it (`InEnd`), or in what ends the body (`InLast`). The
lemmas `...Goes` say that each byte leads from one place to the next; the layout lemmas
of `Receive_proofs` say where each chunk begins, in the body and in the payload
(`ChunkSpan`). A body that is complete has no byte left but a trailer's (`Full`), which is
`HttpKeptIsClean`.

### Boxes
`Streams_proofs`, from `FmAssumption` and `FmFragments`, for any sections, segments and cuts:
`FmTypesHold`, `FmConfiguredAtOnceHolds` and `FmFramesHolds`.

`FmConfiguredAtOnce` alone is not inductive: it is about
the end of a section, and says nothing of the reception that feeds it. `FmConfigures` adds
that a section of which nothing has come is whole, that one that came at once leaves a
configuration or a failure, and that media comes behind a section and is a segment, which
has no `moov` that would undo the configuration. The proof walks through the section
place by place: until its `moov` is complete the parser is within the box (`InBox`) in which its place lies
(`Reached`), and the last byte of the `moov` configures it or fails; from there on nothing
resets it. `FedHolds` carries this through `Fed` by an induction over the bytes. A section
without a `moov`, or with one that is too long to be collected, would break it, which is what
`FmAssumption` rules out; in pieces it breaks as well (`FmConfigured`).

`FmFrames` is about what the sink has been given; its invariant (`FmFramesInv`) adds where the
demultiplexer is (`FmFollows`): between segments it is as `fmp4_segment_end` leaves it, and in one
that has not failed it is behind some place `q` (`FmPlace`), which three facts describe.
`InBoxes`: its header, counters and state are those of the box and of the place in it.
`Latest`: the samples it holds are those of the last `moof` that is complete. `Sampled`: before the
`mdat` of that `moof` it waits, knowing where the first sample begins if the `moof` says so
(`Knows`); behind the start of the `mdat`, its position in the list, the bytes it has gathered and
the frames it has given are those of `q` (`Progress`): every sample that ends up to `q` has been
given, the one that `q` lies in has been gathered from its start, and no later one has been
begun. One byte leads from `q` to `q + 1`, and adds `FramesAt(q + 1)`, the sample that ends
there, or nothing (`MediaTakes`): in the header or in a box that is skipped nothing can end, by
`FmFragments` (`NoFrameMore`); at the end of a `moof` the list is replaced when all of the last
one has been taken; at the start of an `mdat` the first place is settled; within it `SampleByte`
goes on. That a sample ends in one place only (`EndsOnce`) and that the places grow (`SumGrows`)
are lemmas about sums. What a `fmp4_feed` gives is then what its bytes add (`MediaNow`).

### The composites
At the end of `Streams_proofs`, `StreamsPartsHold`: a behaviour of `Streams` is, of each part's
variables, a behaviour of that part's own specification. `StreamsTypesHold` and
`StreamsSafe` follow: all that the run `streams` checks holds of `StreamsSpec`, for every value
of the constants. At the end of `Servers_proofs`, `ServicesPartsHold`, `ServicesTypesHold` and
`ServicesSafe` say the same of `Services` and its safety properties. The fairness of a part is
not among what `ServicesPartsHold` carries over, and no invariant needs it.

### Only model-checked
Liveness (`WriteReturns`, `ClientReturns`, `StaReturns`, `OtaRestarts`, `OtaEnds`,
`SrvServes`, `PcmReturns`): under fairness, and out of the prover's reach. Every safety
invariant of a passing run is also proved.

## 6. What is not modelled

Each component's status and reason is in `PROJECT.json`. Left out:

* **text**: headers, titles, URLs, play lists, commands, pages. What they decide is a
  choice of the model (a header is good or bad, a play list names segments).
* **the line of telnet and its negotiation**: one buffer used by one task alone.
* **timers, sleep and Wi-Fi events** of `app_main.c`: in the plan. How many interrupts
  are lost depends on how long the timer task is held up, which the code does not bound.
* **the renderer and its drivers, the amplifier, the VS1053's bus, the LED, infra-red,
  gpio, clock**: registers, pulses and library calls, one after another.
* **display and input**: layout, drawing, debouncing by time.
* **Bluetooth**: callbacks whose order only a model of the IDF stack could tell.
* **TLS and the vendored libraries** (bt, wolfssl, libmad, fdk-aac, u8g2, ucglib): other
  projects' code. They are nearly all of the repository's lines, fonts and generated
  arithmetic most of it: the radio's own program is a few tens of thousands of lines
  under `main/` and a few small components, of which the models above are the part whose
  correctness depends on order, cuts, failures or the loss of power.
