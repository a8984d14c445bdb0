# Verification of the THEMIS remote-desktop server

THEMIS (`src/src/kible.io/themis`) streams an X display and its sound to a browser
and feeds mouse and keyboard events back. It is built on `rana_core_utils`
(`src/src/kible.io/rana_core_utils`), a library of transports, queues and helpers.
This directory models the concurrent core of both in TLA+, checks it with TLC and
proves what matters most with TLAPS. Paths below are relative to
`src/src/kible.io`.

## 1. The system

```
 HTTP thread (mongoose, one handler at a time)            browser
   Launch Check Ping Dimensions FPS Density                  |
     |  connected, launch_thread        | Resize             | websocket
     v                                  v                    v
 session thread: Launch_Loop      VIDEO_SERVER  <---->  WS_SERVER_MASTER
   registry of services  ----------> AUDIO_SERVER --->    pool / active_write
   (MOUSE KEYBOARD VIDEO AUDIO)      MOUSE, KEYBOARD <--- consumers
```

| part | state | operations | what is hard | what makes it correct |
|---|---|---|---|---|
| HTTP server (`themis/controller/THEMIS_HTTP_SERVER.cpp`) | `launch_thread`, the context | Launch, Check, Ping, Dimensions, FPS, Density | shares `THEMIS_EXT` and the services with other threads, without a lock | one session at a time; the context is written when no service reads it; every handler answers |
| session (`themis/THEMIS_EXT.cpp`, `Launch_Loop`) | `connected`, `registry`, `timer` | build, poll once a second, tear down | the flag is raised by the new thread, not by Launch; teardown after half a build | what was built is torn down; a silent client loses its session |
| service registry (`controller/server/SERVICE_SERVER.cpp`, `Networking/base/server`) | `service_server[]`, `service_count`, root sockets | Initialize, Delete, lookup by type | any Initialize may fail; lookups from the HTTP thread | services die before their transport; nothing half made is found |
| video service (`themis/controller/video`) | `resize`, `main_loop_running`, width, height, fps, encode_level; capture; encoder with its mutex | Initialize, Delete, main loop, Resize | a request is written field by field while the loop rebuilds | a frame fits its encoder; an answered resize was applied |
| audio service (`themis/controller/audio`) | two PCM buffers, encoder | Initialize, Delete, main loop | a second thread per frame | the thread that encodes and the one that records never share a buffer |
| websocket server (`Networking/WS/WS_SERVER_MASTER.cpp`) | `pool`, `active_write`, `accept`, `running`, `consumers` | Initialize, Register_Vhost, Send, callbacks, Delete | senders, service thread and deletion meet at two queues | no element or frame is lost or duplicated; deletion frees all |
| UDP transport (`Networking/UDP`) | `recv_pool`, `recv_queues`, `recv_thread`, `id` per endpoint | Accept/Connect, Receive, Send, Delete, receive thread | Receive races Delete; one thread for all endpoints | packets are accounted for, queues are in order |
| queue (`Utilities/CONCURRENT_QUEUE.h`) | a `std::queue` and a mutex | push, pop, front, back, empty, size | two operations are not one; pop of an empty queue leaves its result as it was | - |
| websocket client (`Networking/WS/WS_CLIENT_MASTER.cpp`) | `pool`, `active_read[]`, `accept`, `host_count` | browser callbacks, Connect, Receive | lazy readers share one pool; a callback that waits lets others run; the socket closes under a Receive | queues cannot empty the pool; messages stay in order |
| index queue (`Utilities/INDEX_QUEUE.cpp`) | table of marks, 32-bit `index` | Capture, Release, Release_All | the bound of the search wraps; one overload locks the mutex twice | an index has one holder; no free index is missed |
| circular array (`Utilities/C_ARRAY.cpp`) | `data`, `index` | Put, Get | the window must stay contiguous across a turn | Get shows the last elements in order |
| DNS wrapper (`Networking/DNS_WRAPPER.cpp`) | one global result and its mutex | `getaddrinfo_k` | the global is reset before the lock, tested and read after it | a lookup returns its own address, or that of one that overlapped it |
| TCP transport (`Networking/TCP`) | `cSocket`, `lSocket`, the kernel's descriptors | Initialize, Connect, Accept, Send, Receive, Delete | time-outs that leave a connection behind; numbers of descriptors are reused | a connected client holds its own connection; nobody closes another's socket |
| log client (`controller/client/ELASTIC_SEARCH_CLIENT.cpp`, `Utilities/LOGGING.cpp`) | one curl handle, payload, mutex, `recent_error` | Post | curl asks for the payload piece by piece while other threads log | each post sends its own line |
| text conversion (`Utilities/converter.cpp`) | none | `utf16_to_utf8`, `utf8_to_utf16` | ill-formed input, buffers that are too small, a size pass that must agree with the writing one | well-formed output that fits; the way back gives the same text |
| colour conversion (`Utilities/RGB2YUV.cpp`) | a number of slices | Initialize | its search divides by zero for some heights | no such height gets there |
| start-up, update utility, vendored and generated code | | | sequential I/O | not modelled |

`PROJECT.json` lists every part with its files, and under `hazards` each place
where the code is exposed to something a test would hardly reach.

## 2. Plan

Order of work, the most important behaviour first.

| module | abstract specification | proved |
|---|---|---|
| `ThemisSession` | `SessionLease` (refined) | `ThemisSession_proofs` |
| `VideoServer` | - | `VideoServer_proofs` |
| `WsServerMaster` | `ElementPool` (refined) | `WsServerMaster_proofs` |
| `UdpMaster` | `ElementPool` (refined) | `UdpMaster_proofs` |
| `AudioServer` | - | `AudioServer_proofs` |
| `WsClientMaster` | - | `WsClientMaster_proofs` |
| `CArray` | `LastElements` (refined) | in `Utilities_proofs` |
| `IndexQueue` | - | in `Utilities_proofs` |
| `DnsWrapper` | - | in `TcpTransport_proofs` |
| `ElasticSearchClient` | - | in `TcpTransport_proofs` |
| `TcpTransport`, composed of the two above and the kernel | `DnsWrapper`, `ElasticSearchClient` (implemented) | `TcpTransport_proofs` |
| `Converter` | what Unicode calls well formed | in `Utilities_proofs` |

What is left of the plan: a run that composes `ThemisSession` with `VideoServer`
and `WsServerMaster`, which today stand behind two of its slots. Every invariant and
every safety property of the runs is stated by a theorem. `ThemisSession`
composes the session thread, the HTTP thread and the registry already and abstracts
each service to its slot, its thread and its Delete.

## 3. The modules

The header of each module names its threads and its constants, and
`PROJECT.json` maps each definition to the lines it stands for. `MC*` modules
only give the constants values that a `.cfg` cannot write. Operators introduced
by `\* Mutant:` are not part of a model: each is a plausible mistake in the
definition after it, with which the property named in `PROJECT.json` fails.

**ThemisSession, SessionLease.** The HTTP thread (`http`) serves Launch, Ping and
the three video requests; each Launch numbers a new thread of `Launch_Loop`,
whose place is `pc[s]`. A session clears the registry, builds transport and
services in order (any of them may fail), polls the timer, deletes the slots one
by one in three steps (Delete, `delete`, NULL) and lowers `connected`. A slot is
"garbage" until the first session clears it, because nothing in the constructor
does. A lookup that meets a dangling slot has an undefined outcome: it goes on or
the HTTP thread is lost. A slot is "broken" when a rebuild of the video server has
failed: its main loop is over, it still counts and is still found. `Undeletable` are
the services whose Delete may not return after a failed Initialize or rebuild (VIDEO: a
mutex left locked, `X264_ENCODER.cpp:98` and `:250`; AUDIO: an unset thread pointer is
joined); such a session is `stuck`. Dimensions writes the screen size into the context,
as Launch does, and only then resizes: `WriteContext`. `SessionLease` says what
all this promises: leases are granted one at a time, shown, and given back.

**VideoServer.** The owner, the capture loop and a Resize of the HTTP thread. The
fields of a request are written one step at a time, as in the code, and the loop
may rebuild capture, encoder and limiter between any two of them. `resize` has
either value at the start. A request is only made of a server that a lookup can find,
so never after a failed Initialize. Density passes `UnsetLevel` for a density that is
no value of the enumeration. A failed `x264_encoder_open` leaves `mtx` locked and
the owner's Delete blocks on it. The results of XShmCreateImage, shmget and shmat are
not tested: an image that could not be created ends the process, one without its
memory (`mapped`) is noticed by XShmAttach or ends the process at the next frame, and an
empty image never has any. `SliceThreads` is the search of RGB2YUV for a number
of slices, which divides by zero when the height is odd; that x264 refuses an odd
size for 4:2:0 and an empty one, and shmget 0 bytes, are the rules of those libraries and
all that is not read from this repository. A rate of 0 divides by zero in the limiter at the next frame, and an unset
level is an index into the presets. All of these end the process (`aborted`), and `cause`
says which did.

**WsServerMaster.** Senders, the service thread with its callbacks, the owner and
clients that come and go. `size`, the second test of `accept` and `pop` are steps
of their own. A pop from an empty pool, or a callback to a consumer that is
published but not filled, ends in `crashed`: the code does both, and the
properties say what holds until then. `ImplementsPool` maps the queues and the hands
of the threads to `ElementPool`.

**ElementPool.** What the transports promise of their fixed stock of elements: one
at a time goes into use and comes back; elements leave the circle only while the
transport closes, and it is closed when none is left. `Turn` is the life of the
transport. In `WsServerMaster` closing is the draining in Delete, so that an element
deleted before the threads are joined is not a step of the pool. In `UdpMaster` a
transport whose thread was told to stop is closing and may open again; the packet
that the thread held is then gone. One step of `UdpMaster` is excepted: the pop of a
Delete whose queue a Receive has emptied since it was tested (`PopsNothing`), which
gives the pool a pointer that is none, and after which the model ends.

**UdpMaster.** One module for both ends, which differ in the order of Delete and in
one test of Receive; `side` is chosen at the start. `id` is read anew at each use,
as in the code: once it is -1, `recv_queues[-1]` is the word before the array,
`recv_pool`. Delete's `empty` and `pop` are two steps, and so are Receive's look at the
queue, its choice of the queue (`ReceiveIndex`) and the pop. One thread accepts, deletes and initialises; that the repository has
a single such thread per master is an assumption of the model. Deleting the master
itself is not modelled: it deletes queues beyond the array
(`UDP_SERVER_MASTER.cpp:195`), and nothing can be said after that.

**AudioServer.** Rounds of the main loop: start a thread that encodes the back
buffer, record into the front one, join, swap. A buffer is `Torn` while it is
recorded into. Reads and encodes may fail. `round` is only a name for recordings.

**WsClientMaster.** The browser's callbacks and one receiving thread per virtual
client. The browser runs one callback at a time, but one that waits for an element sleeps
with `emscripten_sleep` and others run meanwhile: `asleep` holds the messages of those,
and `Wake` lets any of them go on. Between the test that found an element and the push
there is no sleep. `waited` marks a message whose callback slept, for the properties. `accept` never rises again after the socket closed, since a
browser's socket does not reopen and the code creates only one. `MAX_HOSTS` is assumed
to be at most 255, because `client_id` is a byte and 255 is the id of a refused client;
with 256 queues the last client and a refused one would share an id. A client beyond
`MAX_HOSTS` gets the id 255 and its first Receive ends in `crashed`.

**CArray, LastElements.** `Put` writes one slot and, near the end, a copy at the
front. The abstract specification is the window of the last elements, and `Get` is
the refinement mapping: the reader's view *is* the abstract state.

**DnsWrapper.** `getaddrinfo_k`, step by step, for any number of threads: the global
result is reset before the mutex is taken, set by the callback while it is held, and
tested and read after it was released. One `select` waits for the answer; a query
that is still open is answered by `ares_destroy`, outside the lock. The compiler may
load the global once or twice for the test and the read. `rivals` records whose
lookups overlapped.

**ElasticSearchClient.** Posting a line. The three Post functions are the same code for
different addresses. The callback takes the payload through two fields of the
shared client; `recent_error` is assigned after the mutex was released, and two such
assignments at once are a data race on a string, so the process may end (`aborted`).

**TcpTransport.** Clients and servers with the descriptors of the kernel, which hands
out the lowest free number. It extends the two modules above: a Connect runs a lookup,
and a failure posts its log line, inside the call. Nothing in `src` calls this
transport, so the module says in its header in which order it is called: a client
connects until it succeeds and is deleted once; a server does not accept
over a connection it holds. Connect is `connect` on a non-blocking socket, one
`select` and `SO_ERROR`; after a time-out the handshake goes on behind the caller, and
a retry on the same socket is answered EALREADY, 0 or EISCONN, all of which are
errors for the code. Each `fcntl` may fail. Send and Receive are one call of the kernel
each, whose result they test and return: they change nothing here and are left out. The master's `socket` gets a descriptor only if one is free, as
do the others. The branches for Windows are left out.

**Converter.** Both directions as one loop that decodes at an index, and writes if the
code point still fits. The pass without a buffer, which only adds up sizes, runs
beside it. Masks and shifts are division and remainder. What the properties call well formed
is not taken from the code: it is table 3-7 of the Unicode standard, as rows of ranges,
and a text is well formed when rows side by side cover it. Since a text may hold
U+FFFD itself, `ReplacesIllFormed` speaks of texts without it; it also counts the ASCII
characters, so that none next to a broken sequence is lost. Nothing in `src` calls the
converter yet.

**IndexQueue.** The table, the counter modulo `W`, and `held`, which records what
each user has captured. `CaptureSpins` and `CaptureGiven` keep the mutex for ever.
The class is not used elsewhere in the repository yet.

## 4. What the runs show

| run | question | bounds | distinct states |
|---|---|---|---|
| `session` | are sessions apart, is everything built torn down, in order, is the context left alone while it is read; does a silent client lose its session, is a Launch answered | 4 services, 4 launches, time-out 2 | 7,358 |
| `video` | do frames fit, is a request applied, who is answered, what ends the process | 4 sizes, 3 rates, 2 levels and an unset one, 3 requests | 547,587 |
| `video_wait` | is the wait of a resize bounded (violated) | 3 rounds | - |
| `ws_server` | is the pool kept, are frames in order and written | 2 senders, 2 clients, 3 services for 2 hosts, 2 elements, 2 frames each | 55,880 |
| `udp` | is the pool kept while Receive meets Delete, are queues in order, do calls return, on both sides | 2 endpoints, 2 packets, 2 threads started, 2 arrivals each | 600,972 |
| `udp_pool_empty` | can the pool run dry (violated) | 1 endpoint, 2 packets | - |
| `audio` | is a steady buffer encoded, is sound in order, are buffers freed last | 5 rounds | 38,200 |
| `ws_client` | does the pool suffice, are messages in order | 3 clients for 2 queues of 2, 4 elements, 4 and 3 messages | 2,511,529 |
| `c_array` | does Get show the last elements | window 5, 12 slots, two payloads | 2,048 |
| `index_queue` | is an index held once, is a free one found | 2 users, 3 indices, counter of 5 bits | 1,644 |
| `tcp` | whose address, whose line, whose socket | 2 clients, 1 server, 3 descriptors, 2 Connects (1 if with a lookup), 2 server calls, lines of 2 bytes | 4,157,200 |
| `converter` | is the output well formed, does it fit, is the size right, does the text survive | 16-bit texts of 3 units, 8-bit texts of up to 4, buffers of 2, 3 and 12 | 86,751 |

Why these bounds are enough to meet the interesting cases:

- Four launches: one session to tear down, one that waits in join, and two that
  start over on what an earlier one has left, built or half built.
- The sizes of `video` are even in both, even with a height of 2 modulo 4, odd in
  the height, and empty; their widths and heights overlap, so a swap would show. The rates hold
  the 0 that a request may carry. Three requests let a Dimensions request follow an
  FPS request that was torn.
- Two elements and two senders make a pool run out and be fought over; the pools of
  the program have 50 to 80. One service more than there are hosts reaches the
  refusal. A client is enough to be absent, present or gone, two are needed for a
  CLOSED of one while the other stays.
- For `ws_client` the pool is exactly queues times limit, as 80 = 20 * 4 is in the
  code: with a larger one its main property would show nothing. Four messages for one
  queue let one sleep, be overtaken and be queued beyond the limit.
- One server shows what a failed or repeated Delete does to the descriptors of others;
  that no two servers hold the same one is not seen in `tcp`, where a second server is too
  much, and rests on `DescriptorsAreOwn`.
- Three descriptors for two clients, a listener and an accepted connection run out and
  are reused. The names of the clients are two that need a lookup, or one literal
  address and one name, since two retries of lookups in both clients multiply the
  states without a new meeting: `TcpTransport_proofs` covers any number. Both clients
  log; what the server posts is not followed.
- The code units of `converter` are the boundaries of every range both encodings
  distinguish: of lengths, of surrogates, of continuation and leading bytes, of
  overlong forms and of Unicode itself, and those of U+FFFD; texts of three of them contain every pair at
  an end and in the middle, and four bytes the longest sequence.
- Window 5 is the constant of the code and 12 slots the smallest number that
  Initialize accepts; `WindowRefinement` covers all others.
- A counter of 5 bits runs to its end within a few searches of three indices. The
  same is true of 32 bits after 2^32 / (2 * capacity + 1) refused captures.

Bounds that only make the models finite are `MaxLaunches`, `MaxRequests`,
`MaxFrames`, `MaxStarts`, `MaxArrivals`, `MaxRounds`, `MaxSent`, `MaxConnects`,
`MaxLookups`, `MaxCalls` and the cap on `timer`. Deadlock is checked for `c_array` and `audio`; the other models can
really stop (a crash, a blocked Delete, a deleted server), as their `.cfg` say.

### Two runs that fail on purpose

- `video_wait`: `VIDEO_SERVER.h` bounds the wait of a resize to `MAX_LOOPS_RESIZE`
  rounds, but `Resize_VIDEO_SERVER` never increments its counter. The trace is a rebuild
  that fails in a session that goes on: the main loop is over, `resize` stays raised, and
  whoever waits for it keeps the only HTTP thread for good.
- `udp_pool_empty`: the receive thread does reach the branch that a comment says
  "should never happen": packets for a queue that nobody reads are never returned.

### What the code does not do, and the properties do not claim

A request torn between `fps` and `encode_level` may be applied with the old ones
until the next Dimensions request: of these two `RequestApplied` speaks only for a
Dimensions request, and of width and height for all. A rate of 0, an unknown density and
shared memory that is not to be had end the process; `NoSizeAborts` speaks of sizes only.
An FPS or Density request that was lost is never reported as such. If `resize` happens to be set at
the start, the first request can be torn: the properties exclude that start. A frame
accepted for one websocket client may be written to another. A failed recording
repeats the sound of two rounds before (`OneRoundLate` excludes the packet after it).
A Receive that races Delete may use an uninitialised pointer, and the Delete may push one
into the pool; `ImplementsPool` holds up to there. A websocket message whose callback slept
may be queued behind later ones and beyond the limit: `ReceivedInOrder` and
`ShortageNeedsThread` except such messages, and no others. Initialize of the websocket
client never returns if the socket closes before it opens. A video server whose rebuild
failed, or a service whose Initialize failed, may keep its session in Delete for good:
`SilentSessionEnds` and `LaunchGetsThrough` except that. A lookup during teardown may meet
a freed service; `LookupFindsWholeServices` covers sessions being built or served.

A lookup that another one overlaps may return the other's address, or claim success
with 0.0.0.0. A TCP connect that succeeds at once is reported as a failure
(`TCP_CLIENT.cpp:263`) and so is every retry after a time-out. A TCP client must be
deleted once only, for it keeps the number of the descriptor it closed; a failed
Accept may leave a connection in `cSocket`, which the next Accept forgets. The
converter drops a code point that does not fit and goes on, so a short buffer can
hold a text with a gap: `WritesWellFormedText` says well formed, not a prefix.

## 5. Fairness

All liveness is under weak fairness of actions that a thread, once it is running,
takes by itself:

- **a started thread is scheduled**: `Launch_Loop`, `MainLoop`, `SendBuffer`,
  `RecvLoop`, `Service`, `Sending`, `Receiving`, and the owner inside a Delete. Their blocking calls come back: sleeps end, `recvfrom` has a time-out
  (`DEFAULT_RECV_TIMEOUT`), `lws_service` returns when there is nothing to do, and
  `pa_simple_read` delivers while the sound server runs;
- **a handler that has begun goes on**: `LaunchRest`, `Respond`; a join is only
  enabled once the joined thread has ended, so fairness grants it nothing;
- **time passes**: `Tick`;
- **a writable client is served**: `Writing`, which libwebsockets calls back for
  after `lws_callback_on_writable`.

Nothing is assumed of the environment: no client has to ping, stay, send or leave,
and no request has to be made. Where a property needs a client that stays, it says
so itself (`AcceptedIsWritten`).

## 6. What is proved

The assumptions are the named ASSUMEs of the modules: they give constants their
types and, where the code tests something, no more than it tests. TLC evaluates
all of them.

**Sessions** (`ThemisSession_proofs`, any number of services, launches and any
time-out). `SingleSession` is not inductive, because `connected` is raised by the
new thread and not by Launch. The strengthening has three parts. `Ownership`: a
living thread is always the newest one and the one `launch_thread` points to, and
while the HTTP thread configures, there is none. Only the join before
`launch_thread` is replaced keeps this. `Registry`: what each phase of the thread
leaves in slots, count, senders and transport, which gives `SenderHasTransport`,
`CleanBetweenSessions` and `LookupFindsWholeServices`. `Past` says where a session can be
while Dimensions is between its lookup and its write: beyond the Initialize of the video
server it has found, from which `ContextIsSteady` follows (`ContextKept`). With
`DisconnectedMeansIdle` and `TypeOK` they form `IInv`, proved one action at a time.
`LeaseRefinement` follows from the same invariant: every step of the threads is a
step of `SessionLease` or a stutter.

**Circular array** (`Utilities_proofs`, any window, payloads and number of slots).
That the view is right is not inductive: when the array turns, three or four
elements of the new view were written long before. `TailIsMirrored` says that they
have been copied to the front by then. The only fact used about sizes is the test of
Initialize, "two windows fit". `WindowRefinement` then shows that Put is Push.

**Index queue** (`Utilities_proofs`, any users, counter width and range).
`Exclusive` needs `MarksAreCaptures`: a search trusts the marks. `TableFitsRange`
shows that a capacity computed modulo 2^32 is the length of the range whenever a
table is made. `Exhaustion` proves that an exhausted counter never grants again,
where two turns are less than the width of the counter. `RefusalMeansFull` is the other
direction: a search that did not wrap walks two turns, two turns meet every entry wherever
they start (`TwoTurns`), and it has found all of them marked.

**Video** (`VideoServer_proofs`, any sizes, rates, levels, faults and number of
requests). `FrameFitsEncoder` and `RequestApplied` rest on the flag being a hand-over
(`Flag`): width and height are written only while `resize` is down, the loop rebuilds
only while it is up, and the thread that raised it waits before it writes again.
`Fit` says where in a rebuild capture and encoder already agree with the fields, and
`CatchUp` that a Dimensions request leaves rate and level alone from its call on, so
that whatever it finds is what a rebuild applies; `Written` ties the fields to the call in
progress and to the last one that was answered. `SizesAreSafe` needs one fact about
numbers, that every even height has a number of slices, and `NonEmpty`: a capture without
bytes never gets an encoder, not even when a request tears a rebuild that nobody has
asked for.

**Audio** (`AudioServer_proofs`, any number of rounds). `ThreadsNest`: the thread of a
round lives between the start of the round and its join, and the loop inside the
owner's. `BuffersKept` and `RecordingsKept` follow the recording through the swap, so
that the back buffer is the one nobody writes.

**Lookups** (`TcpTransport_proofs`, any threads and names). `AnswersOverlappingLookup` is
about a read that happens after everything it depends on was unlocked.
`GlobalExplained` is what makes it inductive: from its own reset on, a thread finds in
the global nothing but its own name, "not found", or a name of one of its `rivals`;
`RivalsKnown` says that threads whose calls overlap know of each other, so that
somebody else's callback is always explained.

**Log lines** (`TcpTransport_proofs`, any threads, line and buffer sizes).
`HolderIsInside` is mutual exclusion; `PayloadFollows` says that the fields of the
client stand where the holder's upload stands, so that pieces taken one after the
other meet (`BytesMeet`).

**Transport** (`TcpTransport_proofs`). `ImplementsLookups` and `ImplementsPosts`: every step of
the composed system is a step of each of the two protocols or leaves it alone, whatever
connects, fails or is deleted meanwhile, so that `AnswersOverlappingLookup` and
`PostsOwnLine` carry over (`TransportLooksUpAndLogs`). The one invariant needed is that a
client asks for the names it was given.

**Websocket server** (`WsServerMaster_proofs`, any number of services, senders, clients and
elements). `ImplementsPool` counts elements, so the invariant says who can hold one:
`HandsAtPush`, a sender exactly between its pop and its push; `Joined`, nobody once Delete
has waited for the senders and the service thread, which is what makes the last element
the last. `SeenElement` carries what a sender saw when it left its loop through the second
test of `accept` to the pop. That the sum is kept (`Conserved`) follows from the steps of
the pool itself.

The order of frames rests on `OrderInv`: the numbers a sender's frames have in
`active_write` lie in the window between its last written and its last accepted one,
all of that window is there, and earlier frames stand before later ones. A push extends
the window by one and a write takes the oldest, so `FramesInOrder` is about frames that
are lost, doubled or overtaken, whatever the pool and the clients do.

**UDP transport** (`UdpMaster_proofs`, any number of endpoints, queues, packets and
arrivals, both sides). `Hands` says who holds a packet: the receive thread where it
receives, a receiver exactly between its pop and its push, also where `id` has become -1
and the pop took from the pool itself. `Joined` ties `recv_thread` to the thread
and says that a server drains only without one, from which `ServerDeleteDrains`
follows. `Queues` strengthens `QueuedInOrder` by the length: a queue is never longer than what has
arrived for it, so what it holds is always the end of that. `PoolRefinement` shows for each action
on which side of the circle it moves a packet; the packet of a stopped receive thread is
the only one that leaves it, and the pop of a Delete is the step where it is a step of the
pool only if the queue still holds what was seen there.

**Websocket client** (`WsClientMaster_proofs`, any number of clients, limits, time-outs
and messages). `NeverPopsEmpty`: `Found` is what a thread knows between a look and a pop.
For it to stay true nobody else may take from that queue, which is `Registered` (ids of
queues are handed out once, and `accept` falls for good). `InOrder`: `Pending` says that what has just arrived was sent last, and what sleeps
before; `Ordered` bounds the queue and the message being copied between the last message
handed to the client and the last one handed to the queue, but for those that waited.
`PoolSuffices` counts elements where they are (`Conserved`). `Limits`: only what waited is
queued beyond the limit, and a callback that has not slept still finds the place it has
seen. So while such a callback looks at an empty pool, no thread copies and nothing that
waited is queued, all elements are in queues within their limits, and its own has room: the
pool has an element for every place. The assumption that it has is what the
constants of the code say, 80 = 20 * 4.

**Sockets** (`TcpTransport_proofs`, any number of clients, servers, descriptors, names and
retries). `DescriptorsAreOwn` needs more than that a client's number
stands for its own socket: that the descriptor of a server leads to a client, that the
listener's is the listener's, and that no two servers have the same one, because a close of
any of them would let the kernel give the number away (`SocketInv`). `CallInv` says where
a call goes on after its log line. `ConnectsToItsOwn` adds what each phase of a Connect has
established (`Connecting`) to the invariant of the lookups, which it uses as a lemma:
what was read of the global is the own name or a rival's.

**Converter** (`Utilities_proofs`). `ReadsBack16` and `ReadsBack8` are about the codecs
for every Unicode scalar value, wherever it stands in a text; the rest about the loop
for every text, ill formed or not, and every buffer. `SizePassIsExact` and `ReadsScalars` need
the lengths of what is written. `OutputIsWellFormed` is inductive with them: whatever is
appended is a row of the Unicode table (`InRow8`, `InRow16`), and rows side by side stay so.
`ComesBack` says what the output *is*: `TripInv` names the code points it spells and where
each begins, which are all of those read if there are as many (`LeavesOut`), and the second
pass reads one of them after the other by `ReadsBack8` and `ReadsBack16`. `ReplacesExactly` compares the decoders with the
table in both directions (`ReadInv`): as long as nothing was replaced, what was read is
covered by rows; and where a decoder replaces, no row of the table begins
(`Faithful8`, `Faithful16`), which for a text covered by rows is impossible, since the
bytes that begin a row are nowhere else in one (`BeginsOnly`, `NoneInside`). That ASCII
characters keep their number is counted along.

**Only model-checked**: the liveness properties, `SilentSessionEnds`, `LaunchGetsThrough`,
`ResizeAnswered`, `DeleteReturns`, `AcceptedIsWritten`, `CallsReturn`, and what the two
violated runs show. The backend for temporal steps does not reason about ENABLED, which the fairness
of every one of them is made of. Induction over an operator is out of reach too, but
nothing here needs it: what a loop builds up is stated as an invariant of the loop, and
where a smallest element is needed (`SmallestExists`) it comes from the well-founded order of
finite sets. No module uses a RECURSIVE operator.

## 7. What is not modelled

- The conversion of pixels in RGB2YUV and YUV2RGB: arithmetic on data, and its call in
  `X264_ENCODER.cpp:197` is commented out. TCP on Windows and the setters of time-outs.
- Sizes and contents of frames, packets and images, wire formats, HTTP and JSON.
  Hence not that UDP's Receive reads the size it returns from a packet it has already
  given back (`UDP_SERVER.cpp:129-131`), nor that a websocket callback that slept copies from
  a buffer of the browser that may be gone.
- The bytes of a TCP stream: a Send or Receive that is short or times out returns false, and
  leaves the stream out of step.
- X, x264, opus, PulseAudio and libwebsockets beyond the calls that succeed, fail
  or block; a frame that fails to encode. The re-creation of the image after an X error
  inside a capture is a new choice of `mapped`. A `getsockopt` that fails after a connect
  can only do so where `cSocket` is not a socket, which `HoldsOwnSocket` excludes.
- Undefined behaviour is a choice among what a build can do (go on, end, block), or
  ends the model in `crashed` where nothing can be said any more.
- The masters' Delete on the UDP side, and every call after Delete of an index queue.
- The format of log lines, start-up, the update utility, and vendored and
  generated code: sequential I/O and libraries. `json.hpp`, mongoose, `stb_image.h` and
  the tables of input event codes are more than four fifths of the lines under `src`
  and are nobody's work in this repository; what the modules map is counted against
  all of them.
