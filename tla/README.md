# Verification of the glutinium camera software

glutinium is an OpenWrt package feed. Most of its hundred packages are recipes,
patches and scripts around other people's programs, small command line tools
around one device, and vendor SDK code. The programs with a concurrent core of
their own are the camera servers. This project models three of them:
`hisi-rtsp`, which the feed builds from source for the Hi3518E (three threads,
shared tables without locks, several clients); `hp-ipc`, the second RTSP camera
(a listener, a thread per client and one slot for all of them, a list of packs
between two media threads, a pipeline that is brought up and down in stages);
and `mjpg-streamer-lite` (one producer, several consumers, a mutex and a
condition variable, cancellation).

All paths below are relative to `src/`.

## 1. Inventory

### 1.1 hisi-rtsp (`hisi-rtsp/src`)

| part | state | operations | interacts with |
|---|---|---|---|
| frame ring, `ringfifo.c` | `ringfifo[NMAX]` (buffer, size, frame_type), `iput`, `iget`, `n` | `ringmalloc`, `HisiPutH264DataToBuffer` (put), `ringget` (get) | encoder thread puts, sender thread gets; plain globals |
| parameter sets, `rtspservice.c` 2049-2088 | `psp` | `UpdateSps`, `UpdatePps` | called in the middle of a put; read by DESCRIBE |
| encoder thread, `sample_comm_venc.c` 1345-1539 | - | one put per frame | vendor MPP library |
| sender thread, `schedule_do` in `rtsputils.c` | position in the table | per frame: get, then `RtpSend` for every valid, unpaused slot | ring, scheduler table, RTP sessions |
| scheduler table, `rtsputils.c` | `sched[MAX_CONNECTION]` (valid, rtp_session, play_action), `g_s32DoPlay` | `schedule_add`, `_start`, `_remove` | written by the main thread, read by the sender, no lock |
| RTSP sessions, `rtspservice.c` | client list, `session_list`, RTP session list, `cur_state`, `s32ConCnt`, `s_uPortPool` | `EventLoop`, `AddClient`, `ScheduleConnections`, `RTSP_state_machine`, the handlers | scheduler table, RTP handles, port pool |
| RTP handle, `rtputils.c` | `u16SeqNum`, socket, time stamp | `RtpCreate`, `RtpDelete`, `RtpSend`/`SendNalu264` | sender thread sends, main thread creates and deletes |
| input buffer, `rtspservice.c` 176-330, 1580-1650 | `in_buffer`, `in_size` | `RTSP_full_msg_rcvd`, `RTSP_remove_msg`, `RTSP_handler` | TCP stream of one client |
| process, `main.c` | `g_s32Quit` | start order, `EventLoop` every 2 s, `ringfree` at exit | all threads |

What is hard: three threads over shared memory without a lock (the mutex
declared in `rtspservice.c` is never taken); buffers handed out by reference
and reused; RTP sessions named by a slot number kept in another structure;
handlers that fail half way and say `ERR_NOERROR`; a count that stands for
several things; a byte stream cut into messages.

What makes each part correct:

* ring: a bounded queue; an accepted frame comes out once, in order, intact
  and consisting of written data; the count is the number of frames, or, as
  updates of it get lost, at least stays a possible one, and what goes wrong
  goes wrong only by such a loss;
* sessions and table: every valid slot belongs to a listed session, every
  listed session to its slot, what is streamed belongs to a client that plays,
  the table is never indexed outside, the sender meets no NULL session but in
  the middle of `schedule_add`;
* counts: `s32ConCnt` is the number of clients, `g_s32DoPlay` says whether one
  plays;
* packetizer: sequence numbers count packets, flags frame the data, what a
  receiver reassembles was sent.

### 1.2 hp-ipc (`hisi-mpp/sample/hp-ipc/src`)

| part | state | operations | interacts with |
|---|---|---|---|
| listener, `RtspServerListen` | the socket it listens on | accept, clear the slot, fill it, create a thread | slot |
| client threads, `RtspClientMsg` | - | recv, answer, PLAY, TEARDOWN, close | slot, `udpfd`; detached, one per connection |
| slot, `g_rtspClients[0]` | socket, status, ports, address | - | all of the above and both media threads; no lock |
| stream thread, `vdGetVencStreamProc`, `saveStream` | `bGetStreamProcThreadStart` | per frame: nothing, or one list entry per pack | encoder, list, slot's status |
| list of packs, `RTPbuf_head` | a circular doubly linked list (`list.h`) | `list_add_tail`, `get_first_item`, `list_del` | stream thread adds, sender removes; the mutexes declared for it are not taken |
| sender, `vdRTPSendThread`, `VENC_Sent` | - | poll, send a pack, free it | list, `udpfd` |
| pipeline, `hp_ipc.c`, `hp_sys.c`, `hp_vi.c`, `hp_vpss.c`, `hp_venc.c` | what is up in the MPP, `gbIspInited` | `IPC_Init`, `IPC_exit` | vendor MPP library, stream thread |
| process, `camera.c` | - | start, two keys, exit | all of the above |

What is hard: every thread of a client reads the socket from the one slot anew
for every call, so that what a thread works on changes under its hands;
descriptors are numbers the kernel hands out again; `udpfd` keeps its number
after it is closed; the list's two threads meet when it is short; fifteen
parts come up one after the other, any of them may fail, and each stop may
fail too.

What makes each part correct: an answer goes to the client that asked, or at
least never back to an earlier one; the stream goes to the client that plays
and into no connection; packs are sent once and in order and no freed node is
used; the stream thread never asks an encoder that is down; what was brought
up is brought down, and the process ends.

### 1.3 mjpg-streamer-lite (`mjpg-streamer-lite/src`)

| part | state | operations | interacts with |
|---|---|---|---|
| picture buffer, `in[0]` | `buf`, `size`, mutex `db`, condition `db_update` | fill and broadcast; wait and copy | all plugins |
| input thread (`input_file`) | - | an event, a new buffer, read, broadcast, clean-up | buffer |
| output threads (`output_file`) and clients (`output_http/httpd.c`) | their copy | wait, copy, write | buffer; a client's thread is detached and nobody's to cancel |
| main, `mjpg_streamer.c` | `global.stop` | open, run, pause; on SIGINT cancel and destroy | everything |

What is hard: the condition has no predicate; error paths leave the loop with
or without the mutex; a thread may be cancelled in `read`, `write` and in the
wait; the signal handler destroys mutex and condition under the threads' hands.

What makes it correct: a copy is the newest complete picture; a thread that
waits gets a picture that is shown; nobody ends with the mutex.

### 1.4 The rest of the repository

`PROJECT.json` lists every group of packages under "components"; section 5 says
why those are not modelled.

## 2. Modules

| module | what it is |
|---|---|
| `RingFifo` | the ring between encoder and sender, at the grain the threads can see |
| `FrameQueue` | abstract specification: a bounded queue that refuses what it has no room for, until it is given up |
| `MCRingFifo` | the refinement mapping from `RingFifo` to `FrameQueue` |
| `RingFifoProofs` | theorems about `RingFifo`, the refinement among them |
| `RtspServer` | clients, sessions, scheduler table, port pool; main thread against sender thread |
| `MCRtspServer` | symmetry for TLC |
| `RtspServerProofs` | theorems about `RtspServer` |
| `RtspOrderlyProofs` | more of them, for clients that set up one stream at most |
| `RtpPacketizer` | one RTP handle: fragmentation, flags, sequence numbers, header layout |
| `MCRtpPacketizer` | frame sizes for TLC |
| `RtpPacketizerProofs` | theorems about `RtpPacketizer` |
| `RtspInput` | the input buffer of one connection and `RTSP_handler`, under cuts of the TCP stream within and between messages |
| `MCRtspInput` | kinds of messages for TLC |
| `RtspInputProofs` | theorems about `RtspInput` |
| `HpRtsp` | hp-ipc's listener, client threads, slot and descriptor table |
| `HpFrameList` | hp-ipc's list of packs, a step for every access to a link |
| `HpPipeline` | hp-ipc's media pipeline: staged start, exit, stream thread |
| `HpIpc` | the three composed into the process |
| `MCHpIpc` | TLC's window on `HpIpc` |
| `HpRtspProofs` | theorems about hp-ipc's server |
| `HpIpcProofs` | theorems about hp-ipc's list and pipeline, and about the process |
| `MjpgStreamer` | the picture buffer of mjpg-streamer-lite and the threads around it |
| `FrameBoard` | abstract specification: a board of numbered pictures that copies are made from |
| `MCMjpgStreamer` | TLC's window on `MjpgStreamer` |
| `MjpgStreamerProofs` | theorems about `MjpgStreamer`, the refinement among them |

An operator whose comment starts with "Mutant:" is a plausible mistake in the
definition that follows it. `PROJECT.json` pairs each with a property that
rejects it; no specification uses them.

### RingFifo

A put is `PutAccept` (or `PutDrop` in a full ring), one `PutCopy` per memcpy,
`PutPublish` (size, frame_type, iput), `PutLoad` and `PutStore`; a get is
`GetSlot` (or `GetNothing`), `GetLoad`, `GetStore`, `GetInfo` and then one
`SendCell` per cell the sender reads out of the slot, because `ringget` returns
the slot's buffer and not a copy. `n++` and `n--` are a load and a store each,
which is what the compiler emits for ARM, so that either thread may overwrite
the other's update. `IntHandl` sets `stop_schedule` on SIGINT: the sender ends
at the end of its turn while the encoder keeps putting. A frame is two or three
cells that remember which frame they are of. `psp` holds the cells `UpdateSps`
and `UpdatePps` were given.

Four history variables say what the globals cannot: `held`, the slots published
and not taken; `taken`, the frame taken last; `lost`, whose updates were
overwritten; `stray`, which is `"overrun"` from the moment the encoder writes
over a frame not yet taken, `"underrun"` from the moment the sender takes a slot
that was not filled again. A lost update alone costs room, or leaves the newest
frame waiting; a ring gone astray mixes frames up, and `FrameQueue` gives up
(`open`).

Left out: frames longer than a slot, several encoder channels, weak memory
(the Hi3518E has one core), `ringput` and `ringreset`, which nothing calls
(`ringreset;` at rtspservice.c:1364 names the function without calling it).

### RtspServer

The main thread serves one request at a time. A handler the sender cannot
observe half way is one action (`Options`, `SetupRefused`, ...); `schedule_add`
is two (`Setup` sets valid, `SetupFinish` the session), PLAY is one action per
session of the list, TEARDOWN and close are `DeleteRtp` and `RemoveRtp` per
session. The sender reads `valid` (`SenderCheck`), the session and its `pause`
(`SenderPause`), the session and its handle (`SenderHandle`), both once more to
enter `RtpSend` (`SenderCall`), and returns (`SenderReturn`), each a step.
`fault` names the undefined behaviour that was reached (NULL session, NULL or
freed handle, index outside the table, NULL client); the model stops there, as
the program's further behaviour has no meaning.

`orderly` is a history variable: no client has made a second SETUP, nor one
refused with 461 or 500, so that every RTP session list has at most one member
("本例程只有一个成员", rtspservice.c:1208, is the code's own assumption). The
properties that hold only under it are stated with it; what happens without it
is what the run `rtsp_streams` shows.

The sender of this module never ends; in the code SIGINT ends it (`IntHandl`,
rtspservice.c:1950-1954). No property here needs it to go on. The other place
that sets `stop_schedule` (1853) waits for a count below 0, which `ConnCount`
excludes.

Left out: the session number (any number may be sent, so a request names its
session or does not), DESCRIBE, PAUSE and unknown methods (nothing modelled
changes), failing allocation, `num_conn` and `BeginFrame` (written, never
read), the text of messages. Clients that come back are new clients.

### RtpPacketizer

`RtpSend` takes a frame of some size; `SendSingle`, `SendFragment` and
`AbortFrame` are the branches of `SendNalu264` with the outcomes of `sendto`
and of the network: delivered, lost, or refused with an error, which abandons
a fragmented frame. Packets are not reordered. A packet records which bytes of
which frame it carries. `TimeStampOffset` and `SSrcOffset` are what the
compiler makes of `StRtpFixedHdr`.

Left out: the `_h264` and `_g711` branches of `RtpSend`, which no handle that
`RTSP_setup` creates reaches; what the payload bytes are.

### RtspInput

A message is a sequence of cells: a header line, the `"\r"` and the `"\n"` of
the empty line, a byte of a body, a trailing NUL, or the four bytes that
introduce interleaved RTP data, which are one cell. `Layout` says of which parts
each kind of message consists, `Announces` which length its Content-Length (or
the length field behind `"$"`) gives, which may be wrong or negative; `Request`
and `Interleaved` say which layouts a message can have. `Read` takes any number
of the cells on the wire, `Handle` is one turn of the loop in `RTSP_handler`
(validate, answer, measure with `RTSP_full_msg_rcvd`, cut off with
`RTSP_remove_msg`), `Return` the end of the loop and the write of what `bwrite`
collected, `ReturnFails` a write that fails. What a request does to sessions is
`RtspServer`'s; here it is answered or not.

`RTSP_full_msg_rcvd` counts terminator characters: three of the four at the end
of a header are enough for it. A read that ends in `"\r\n\r"` is therefore a
whole message, and the `"\n"` of the next read is left at the front, where
`strcspn` is 0 and nothing is ever removed. `HeaderLen` and `NoHeader` are that.
`RTSP_remove_msg` subtracts from the unsigned `in_size` before it looks, so that
`in_size` may wrap (modulo `SizeMod`); there the model stops (`fault`), as the
code goes on reading behind the buffer.

`whole` is a history variable: every read so far ended with a message.
`AllHonest` says that every length the client announced is that of its body.
The properties about order and headers are stated under both, since TCP may cut
anywhere and the run `rtsp_partial` shows what happens then. Two more things the
model shows that the code does not say: the overflow check of `RtspServer`
(`in_size + n > RTSP_BUFFERSIZE`) never fires, as `in_size` is 0 whenever
`RTSP_handler` has returned; and a request without CSeq or Session is given that
of another request, as `strstr` searches to the first NUL and not to `in_size`
(`OwnHeaders` therefore speaks of requests that carry the header).

Left out: cuts inside a header line (for the parser the message is then not all
there, as with the cuts between lines) and inside the four bytes of `"$"` (the
length would be read from what the buffer held before); what a body begins with
(not a terminator); the 500 that is queued when a write fails and that nobody
sends.

### HpRtsp, HpFrameList, HpPipeline, HpIpc

`HpRtsp` keeps a descriptor table: the lowest free number is handed out, a
closed one comes back, and a thread blocked in `recv` keeps the file it was
called with. A thread's handler is one action where it reads the slot once;
PLAY is two (`PlayAnswer`, then the status), as are TEARDOWN (`TeardownAnswer`
with the close of `udpfd`, then the status) and everything before a
`close`, and the listener takes accept, memset and the assignments in three.
SETUP may leave the port it had, since `trackID=1` writes the other one. The
thread may not be created (`Fill`): the connection then has nobody to serve or
to close it. `disorder` is a history variable of what happened: `"takeover"` (a
client connected before the last one's thread had ended), `"early teardown"`
(TEARDOWN without a stream), `"no thread"`, `"leak"` (PLAY twice, or leaving
without an answered TEARDOWN). Without the first three the clients are
`Orderly`, without any of them tidy. `NewestOnly` holds whatever happens.

`HpFrameList` makes every load and store of a link that the other thread can
see a step. `clash` says that the last entry was unlinked while another was
added, which is the one place where the missing lock shows; `ListSound` says
that everything else is safe without it.

`HpPipeline` brings up the parts of `Order` one after the other, in the stages
that `StageEnd` delimits; `FailPart` may happen at
each, and goes to the label the code goes to. Stop calls may fail, and as the
MPI does not say whether stopping what is not up is an error, may fail for
that reason as well. `stuck` says that stopping something that was up failed,
`crashed` that a thread was joined that was never created, or that a signal
ended the process (`Killed`).

`HpIpc` conjoins the three. They meet in the slot's status (`SaveStart`), in
the end of `saveStream`, which is the end of a frame of the stream thread
(`SaveEnd`), and in the end of the process, which stops everybody. `HpIpc` adds
`VENC_Sent` between `Take` and `DelRead` of the list: it looks at the status,
the port and the IP one after the other (`SendStatus`, `SendPort`, `SendIP`),
once for a pack, and at `seqnum` once for each of the pack's packets
(`SendPacket`), while the listener clears and fills the slot and, like the
threads of leaving clients, sets `seqnum` to 0. A reset that falls into
`seqnum++` may be lost (`ResetSeqnum`). `late` says that a client came while a
pack for another was under way: the rest of that pack then uses up numbers of
the new client.

Left out: what the packets carry (the cutting is the scheme of
`RtpPacketizer`), failing allocation, request texts, the MPP behind the calls,
streams other than the first. What a broken pipe is: nobody in `hp-ipc` ignores
SIGPIPE and no `send` has MSG_NOSIGNAL, so that an answer to a client that has
left, or a packet sent through a stale `udpfd`, may end the process
(`BrokenPipe`); whether the client has left is the kernel's knowledge, so each
such send may.

### MjpgStreamer, FrameBoard

Threads that copy (`Writers` are plugins, `Clients` the threads of
`output_http`) share one set of actions, since `worker_thread` of
`output_file`, `send_stream` and `send_snapshot` do the same to the buffer:
lock and wait, be woken (by a broadcast, or for no reason), lock again, copy,
unlock, write. Cancellation is deferred and takes effect in `read`, `write`
and the wait, which takes the mutex back first. `send_snapshot` does not test `stop`
before it waits, `send_stream` and the plugins do: `Connect` leads to either.
`Acquire` and `Release` of a
destroyed mutex fail and nobody looks. Destroying a condition with waiters may
block, cancelling a thread that has ended may crash.

`FrameBoard` is what readers are promised: each copy is the newest complete
picture. The mapping is by substitution (`Board` in `MjpgStreamer`); the board
is open until the input thread cleans up or the mutex is destroyed, after which
nothing is promised.

Left out: `input_uvc` and `input_gspcav1` (they fill the buffer in the same
way), `output_rtsp` and `output_autofocus` (they wait in the same way), camera
control, HTTP requests, the ring of files of `output_file`; a `read` that
returns less than the file's size, which the code takes for a picture like any
other (input_file.c:288 tests for -1 only) and which a board of numbered
pictures cannot tell from a whole one; a second SIGINT, which could run the
handler in another thread: it would find `stop` set and the process stopping, of
which nothing is claimed but the board, and that until the mutex is destroyed.

## 3. Runs

| run | question | bounds |
|---|---|---|
| `ring_fifo` | what do two threads that lose each other's updates of `n` still guarantee? | 2 slots, 5 frames: two laps and a frame; an update is lost on either side and the ring overrun or taken empty after it |
| `ring_count` | is `n` the number of elements? Violated | the same |
| `ring_sps` | does DESCRIBE get this stream's parameter sets? Violated | 2 slots, 4 frames |
| `rtsp_server` | are table, lists and counts right? | 3 connections, 2 of them at a time, 2 slots and port pairs, 3 RTP sessions, 2 per client |
| `rtsp_streams` | is only a playing client streamed to? Violated | the same |
| `rtsp_play_count` | does `g_s32DoPlay` say that somebody plays? Violated | the same |
| `rtp_packets` | is what a receiver reassembles what was sent? | 4 frames of 2 to 6 bytes, 2 bytes to a packet, sequence numbers modulo 4, up to 2 packets in a row missing |
| `rtp_header` | is the header where its comments say? Violated | the same |
| `rtsp_input` | is every request handled once, in order and with its own headers? | 3 messages of 6 kinds, one for each branch of the parser and one with a wrong length, in a buffer of 11 cells, which two long ones do not fit; 2 replies |
| `rtsp_partial` | does `RTSP_handler` return? Violated | the same with 2 messages |
| `hp_ipc` | what do slot, descriptors, list and pipeline guarantee in one process? | 2 connections, 3 descriptors besides standard input, 3 nodes and packs, packs of 1 and 2 packets, all 15 parts of the pipeline |
| `mjpg` | is the buffer a board of pictures, and is everybody served? | a plugin, a client thread that is used again and again, 2 pictures |

The bounds are enough for the interesting cases: with two slots the frame being
sent, a full ring and a lap of the encoder are different things, and five frames
are enough for a lost update, the overrun or underrun that follows from it, and
a lap after that; with
two slots and three clients a slot and a port are reused, the table is full,
the pool is empty, the last client of several leaves, and one client's slot
number can name another's session; frames of 2 to 6 bytes against packets of 2
give one short packet, one full packet, two and three fragments with the last
one full or not, and modulo 4 the sequence number wraps in every longer
behaviour. `MaxGap < SeqMod - 1` is needed: a receiver cannot tell 2^16 lost
packets from none. For `rtsp_input` a buffer of 11 cells holds a longest message
and part of another, so that messages are pipelined, cut and found again behind
`in_size`; any `SizeMod` above the buffer's size gives the same behaviour, as
the model stops at the wrap. In `hp_ipc` two connections are a takeover, three descriptors are a
connection, its successor and a stream, or a connection and two leaked streams
with none left for accept; three packs are a first, a last and one in between,
in memory that is used again. In `mjpg` two pictures let a picture come before,
during and after a wait.

Two runs have a state constraint. The parts of `hp_ipc` meet only at a few
places, and `Window` in `MCHpIpc` leaves out part of their product: packs are
saved while clients are orderly; the second connection comes while main waits
for its keys, and one pack at most is saved for it; main does not exit while
the second packet of a pack is due; of several packs only the first has two
packets, and while there are several the client waits in `recv` and has left no
socket open; no stop failed once a client was there; a signal does not end the
process once a pack was saved. What is left holds the
meetings: a client that comes, or leaves, at every point of the list and of a
pack of two packets, an exit at every point of a pack. Each part on its own
still runs through all its behaviours: that of the pipeline is complete while
no client was accepted, and the theorems of section 4 speak of every behaviour
of the server, the list, the pipeline and the numbering.
`Window` in `MCMjpgStreamer` follows the threads with a destroyed mutex, about
which nothing is claimed, only where no picture was shown before. A behaviour
that leaves the window is not followed further, so that the liveness
properties are checked of those that stay in it.

No run checks deadlock: the encoder stops at `MaxFrames`, each client connects
once, messages, packs and pictures are bounded, processes exit, and the models
stop at a fault, so all of them end.

What the six violated runs show of the program (details under "findings" in
`PROJECT.json`):

* `ring_count`: an update of `n` that falls between the load and the store of the
  other thread is lost for good, and `n` is not the number of elements;
* `ring_sps`: the offset is advanced before the parameter set is read from it;
* `rtsp_streams`: `sched_id` of a second or of a refused SETUP is the 0 of
  calloc, so PLAY and TEARDOWN work on slot 0, whoever owns it;
* `rtsp_play_count`: closing a connection lowers the count whether the client
  played or not, and the port pool is refilled by that count;
* `rtp_header`: a 64-bit time stamp is 8-aligned on ARM, which moves it to the
  place of the SSRC;
* `rtsp_partial`: `RTSP_handler` loops until the buffer is empty and removes
  whole messages only, so that half a message keeps the one thread that serves
  all clients for ever; the rest of it is never read. The `"\n"` that comes apart
  from the rest of an empty line has the same effect with nothing missing.

### Fairness

`EveryCountedFrameTaken` (RingFifo): `FairSpec` assumes weak fairness of the
sender's steps and of a put that has begun: `schedule_do` sleeps and polls until
it has seen `stop_schedule`, and the encoder thread does not wait between the
copy and the count. Nothing is assumed about new frames, clients or SIGINT: a
sender that has ended (`IntHandl` sets `stop_schedule` on SIGINT,
rtspservice.c:1950-1954) is one of the outcomes the property allows, a lost
`n++` that strands a frame is why it speaks of frames `n` counts, and a ring
that has gone astray is the third.

`AllHandled` and `HandlerReturns` (RtspInput): weak fairness of the handler's
loop, in which nothing waits, and of `recv`, as `EventLoop` polls every client.
Nothing is assumed about what the client sends, nor how much a read returns. The
second holds as long as the handler returns for the other clients, which is what
`rtsp_partial` shows to fail: `AllHandled` speaks of a server none of whose
clients has stopped it.

`EveryPackTaken` and `IpcEnds` (HpIpc): weak fairness of main once it exits, of
the stream thread, whose `select` has a timeout, and of the sender, which
polls. Nothing is assumed of clients, keys, or a stop of the ISP that hangs.

`FrameReachesWaiter` (MjpgStreamer): weak fairness of the threads that run, and
strong fairness of taking the mutex back in `pthread_cond_wait`: the mutex is
held for one copy at a time and free in between, and a thread that is woken
each time it is freed gets it sooner or later. That is what a normal Linux
mutex gives in practice rather than by its specification; without it a waiter
may be overtaken for ever. Nothing is assumed about pictures, clients or
signals.

## 4. Proofs

Each theorem is for all values of the constants that satisfy the assumption of
its module.

`RingFifoProofs`
* `TypeCorrect`: `TypeInv` adds to `TypeOK` the sender's loop condition and
  that the encoder copies a frame it was given.
* `CountBounded`: `n` stays in `0..NMAX`. The invariant bounds
  the two registers: only the encoder raises `n` and has tested `n < NMAX`,
  only the sender lowers it and has tested `n > 0`, so a stale value is within
  one step of a range the other thread can only move away from the bound.
* `OnlyWrittenDataSent`: sizes never exceed what was written; needs that the
  cells before `putOff` are written and that `getSize` cells of the slot are.
* `OnlyLostUpdatesStray`: with what each thread has loaded and not yet stored
  taken into account (`LoadedInv`: a stale value errs in one direction only), the
  difference between `held` and `n` has the sign of the update that was lost.
* `IntactUntilLapped`: until the ring goes astray, a slot in use is rewritten
  only after `NMAX - 1` further frames, whatever `n` says.
* `TakenInOrderAlways` and `QueueImplemented`: until the ring goes astray,
  `QueueInv` speaks of the frame that lies `k` places behind the oldest one
  (`FrameAt`): these rise with `k`, all are newer than the frame taken last, and
  the one being copied is newer than all of them. `PlacesApart` shows that a put
  does not touch the frames before it, although the indices wrap. With
  `QueueInv` each step is a put or a get of `FrameQueue`, or a stutter; the step
  that leads astray is its `Abandon`.

`RtpPacketizerProofs`
* `PacketTypeCorrect`, `NumbersCountPackets`, `FlagsCorrect`. The invariant is
  that bytes sent and bytes remaining add up to the frame and that a fragment
  remains while the loop runs; `ModSucc` (adding one before or after cutting
  to the width) carries the sequence numbers, from uniqueness of quotient and
  remainder, which is proved too.
* `ReassembledWhole`: a receiver that sees a first packet, a last one and
  consecutive 16-bit numbers between has the whole frame. `Chain` says of
  neighbours only: each arrived packet `Follows` the one before it (at most
  `MaxGap` are lost between, and with none lost it goes on in the same frame
  where that one ended), and the loop goes on behind the last. That equal
  remainders mean consecutive packets uses that a gap is shorter than the
  modulus (`SameRemainder`); from neighbours to the interval one gets by a
  least counterexample (`SameThroughout`), since numbers are well-founded.

`RtspServerProofs`
* `TypeCorrect`, `CountCorrect`, `SlotsBacked`: one inductive invariant `Inv`.
  `TypeOK` alone is not inductive: `RtpDelete`, `schedule_start` and the sender
  go through pointers, so `Allocated` says that whatever the clients' lists, the
  handler at work and the scheduler table name has been allocated, and `Work`
  that a handler at work has a client with a session, that `schedule_remove`
  has a session to remove and that the slot the sender is about to send for has
  one. Nothing is ever freed (`KeptStep`), which is what keeps `Allocated`;
  RTP_session memory is leaked by the code. The least free slot exists because
  numbers are well-founded (`LeastNumber`).
* `NullReadOnlyWhileAdding`: the one NULL pointer `schedule_do` can meet in a
  valid slot is that of the slot `schedule_add` is filling at the moment.

`RtspOrderlyProofs`
* `ScheduleAgrees`, `StreamsPlayed`, `OrderlyInTable`: while `orderly` is true,
  on top of `Inv`, the invariant `Order` says that every client lists one
  session at most and shares none (`Single`, `Apart`), that a client with a
  session is connected (`Member`), that a listed session is in the slot its
  `sched_id` names and a valid slot is that of a listed session (`Booked`,
  `Backed`), but for what the handler at work is in the middle of (`Added`,
  `Handled`, `Released`), and that only players' sessions are not paused
  (`Paused`). The table properties are not inductive without `Added`: the
  slot `schedule_add` marks valid still names the session it had before, and
  no other client's session may name that slot. That `schedule_add` finds a
  slot at all is a pigeonhole argument (`SlotForEach`): in a full table every
  slot would belong to a different connected client, none of them the one that
  sends SETUP, and `ConnCount` bounds the clients by the table.

`RtspInputProofs`
* `InputTypes`, `InputFramed`: the invariant `Stream` says, cell by cell, what
  `Framed` says of the sequence (`Chained`), and that the main thread reads into
  an empty buffer only (`Filled`). It holds for every sequence of reads until
  `in_size` wraps. The work is in `Measured`: with a message at the front whose
  length is announced right, `RTSP_full_msg_rcvd` returns its length if all of
  it is there, and otherwise 0, more than is there (of an interleaved packet), or
  all that is there when only a last `"\n"` or NULs are missing. A
  least counterexample shows that the first message lies at the front without
  a gap (`FirstMessage`).
* `InputRemoves`, the action property, from the same lemma.
* `InputOnceInOrder`, `InputOwnHeaders`, `InputReplies`, while every read ends
  with a message and lengths are right: `OneByOne` adds that the buffer holds whole messages
  (`ReadWhole`), that exactly those before the first unread one were handled
  (`Handled`), and that the replies written and waiting rise and are all to
  earlier messages (`Below`), without which "rising" is not inductive.
  `HeaderOwn` shows that nothing before a request's own header ends the C string
  `strstr` searches.

`HpRtspProofs`
* `RtspTypes`; `NewestServed`: the descriptor the listener has in hand is the
  newest connection's or was closed (`Handed`), from which `NewestOnly` follows
  for any number of clients, in any disorder.
* `ClientAnswered`, `StreamDirected`, `SocketsBounded`: with orderly clients
  descriptor 1 is always the connection and what is above it a stream
  (`Table`), the listener has a connection in hand only while no thread is
  alive (`Handing`), and the thread that is alive is the newest and has the
  slot (`Holds`); with tidy ones the only stream open is that of a client that
  plays (`OneStream`).

`HpIpcProofs`
* `ListSafe`: packs in the heap are numbered `Lo` to `packed` without a gap
  (`Numbered`), each leads to the next (`Forward`), the first two and the head
  lead back to where they should (`Backward`), and what the threads have read
  and not yet used is still true (`Encoder`, `Sender`). All of it holds until
  `clash`, for any heap and any number of packs.
* `PipeTypeCorrect`, `GetterSafe`, `AllReleased`: `PipeInv` says which parts are
  up at each step. While main starts they are the first ones of `Order`
  (`InitUp`); the stream thread runs only while all are (`GetterRuns`); and at
  each step of the exit, as long as stopping what was up succeeded, up are the
  parts of the stages still to be stopped and, after a failed start, at most one
  that the code gave up on because stopping another, which was not up, failed
  (`UpAtExit`).
* `IpcImplementsParts`: every behaviour of the process is one of the server, of
  the list and of the pipeline, so that each theorem about a part is one about
  the process: `IpcNewest`, `IpcAnswered`, `IpcDirected`, `IpcListens`,
  `IpcListSafe`, `IpcBacked`, `IpcReleases`. `IpcTypeCorrect` adds the
  types of what only the process has.
* `IpcNumbers`: on top of `OrderlyInv`, `Numbers` says that while a slot is an
  orderly client's, a pack under way is for that client; `OrderlyInv` gives
  that nobody but the listener brings an IDLE slot back.

`MjpgStreamerProofs`
* `MjpgTypes`; `MutexReturned`: before SIGINT the mutex is exactly with the
  thread that fills or copies. `Startup` says what cannot have happened yet,
  `Locked` that the mutex excludes as long as it exists, `Newest` that the
  buffer holds the newest picture when nobody fills it.
* `BoardImplemented`: the same invariant shows that each step is a step of
  `FrameBoard`, a stutter, or happens after the board was given up.

Assumed of the constants: at least one connection, `Nil` is no client, no
RTSP and no RTP session, `Unseen` is neither `Nil` nor a session
(`ServerAssumption`); at least
one descriptor besides standard input (`RtspAssumption`); the list's head is
not an address malloc returns (`ListAssumption`); a pack has at least one
packet (`IpcAssumption`); plugins and clients are
different and neither is the input thread (`MjpgAssumption`,
`NamesAssumption`); every kind of message is a request or interleaved data, as
described above, the buffer has at least one cell and `in_size` more values than
that (`InputAssumption`).

Only model-checked: liveness. `EveryCountedFrameTaken`, `AllHandled`,
`EveryPackTaken`, `IpcEnds` and `FrameReachesWaiter` are liveness properties
under fairness, which the prover cannot reach. Every invariant, action property
and refinement that a passing run checks is a theorem. The properties of the
runs that expect a violation are false and have none.

## 5. Not modelled

The repository has some 390,000 lines of C, of which nearly all is not a
program with states of its own. The modelled programs are small, so the share
of lines covered stays small whatever is added.

* Sensor drivers and vendor kernel modules: register tables, exposure
  arithmetic, SDK headers and samples that come in several copies. `hisi-sample`
  carries the ring, scheduler and RTSP files of `hisi-rtsp` once more.
* DESCRIBE and the SDP, HTTP and JSON texts: formatting.
* The end of the `hisi-rtsp` process (`main.c`): `ringfree` runs under the other
  threads, `exit` follows at once, and nothing but a possible crash is left to
  observe.
* Frames longer than a slot (`ringfifo.c` 146) and the race of `UpdateSps` with
  DESCRIBE: what is overwritten there is beyond the model's data. Listed as
  hazards.
* Meters, UPS, GPIO, I2C and radio tools, `baoclone`, `kdb`, `flygps`: one
  request on a line or a register, then exit; what could go wrong is timing or
  the device.
* `suart`, bit-banging in the kernel: correctness is in microseconds.
* Third-party code (`telebot` under `estgb` and `tg-bot2`, `picocom`, libraries)
  and packaging.

Worth a module next: `flyavr` (the interrupt state machine of the AVR's TWI
slave against its I2C client) and `serialoverip` (two directions over one
`select`).
