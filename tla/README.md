# Camera server: models, model checking and proofs

This directory is a TLA+ development of the camera server: a program that
takes a still picture every few seconds with the Raspberry Pi camera, keeps the
last hundred JPEG pictures in memory, saves each of them to a file and serves
them over HTTP. All paths below are relative to the root of the repository and
are prefixed with `src/` as in `PROJECT.json`.

* `*.tla` with a `_proofs` suffix hold theorems for TLAPS; the others hold the
  models.
* `*.cfg` are the TLC configurations.
* `PROJECT.json` lists components, runs, the mutant that each property detects,
  the lines of code behind each definition, findings, hazards and theorems.

To check one model: `tlc -config CaptureSafety.cfg MCCaptureServer`. To check
the proofs of one module: `tlapm CaptureServer_proofs.tla`.

## 1. Inventory of the system

### Threads

`main` (`src/src/simple_http_server.cpp`) starts two threads that call
`io_service.run()` and calls it itself, so three threads execute whatever is in
the queue of the asio scheduler. There is no strand: two handlers of the same
object may run at the same time, and only the way they are posted keeps them
apart. A fourth thread belongs to MMAL, the camera's driver, and calls
`buffer_callback`.

### Components

**Capture and picture ring** (`src/src/timer.cpp`). *State*: `imagebuffers`, a
ring of 100 buffers with a mutex each; `curImg`, the next slot; `currentCount`,
an atomic that stops at 100; `pending_count`, an atomic count of saves;
`quitFlag`, a plain int; the timer and `prev`. *Operations*: `setTimer`,
`handle_timeout` (take a picture, swap it into the ring, post a save or give it
up when too many are pending, move on, set the timer again), `save_file`,
`getImage`, `stopCapture`. *Interactions*: posts to the `io_service`, calls
`cam_still`, is called by `Handlers::request` and by the signal handler.
*Hard*: three threads, shared state mostly without locks, a slot number is
posted instead of a picture, unsigned arithmetic, shutdown in the middle of
anything. *Correct when*: one capture at a time; the ring holds the latest
pictures; a save writes the picture it is for or a newer one; requests get the
picture they ask for; the backlog is bounded and counted; the shutdown ends.

**Capture schedule** (`src/src/timer.cpp`). *State*: `prev`, the expiry of the
timer. *Operations*: the recurrence `expires_at(prev + 2 * samplingPeriod);
prev = current`. *Hard*: a late handler makes the next interval shorter.
*Correct when*: captures are never ahead of the period, never come in bursts,
and do not fall behind for ever.

**Taking a picture** (`src/src/cam_still.cpp`: `takePicture`, `startCapture`,
`stopCapture`, `buffer_callback`). *State*: the encoder's output port and its
`userdata`, the pool of buffers, a `RASPICAM_USERDATA` and a semaphore for each
picture. *Interactions*: two threads; the callback copies into the memory of
the thread that waits and wakes it. *Hard*: the semaphore is on the waiting
thread's stack, the callback goes on after it has posted, the port is disabled
at the same time, every MMAL call may fail. *Correct when*: the semaphore is
posted once and in time, no callback outlives its picture, the picture is
complete, buffers come back, `takePicture` returns.

**Camera lifecycle and parameters** (`src/src/cam_still.cpp`: the rest).
*State*: camera, encoder, pool and connection, `_isInitialized`,
`changedSettings`. *Operations*: `open`, `initialize`, `createCamera`,
`createEncoder`, `release`, setters, `commitParameters`. *Hard*: each step may
fail and what the earlier steps made has to be undone. *Correct when*: nothing
is destroyed twice, used after it was destroyed, or leaked by a failure.

**Thread pool and shutdown** (`src/src/simple_http_server.cpp`, on the
scheduler in `src/include/asio/detail/impl/scheduler.ipp`). *State*: the FIFO
queue of operations, `stopped_`. *Operations*: `post`, `run`, `stop`, the
signal handler, the joins. *Hard*: `stop()` abandons what is queued while
handlers run. *Correct when*: `main` returns after a signal and at most a known
amount of work is lost.

**HTTP connection** (`src/include/via/http_connection.hpp`,
`src/include/via/comms/connection.hpp`). *State*: socket, transmit queue,
`transmitting_`, `receiving_`, the receive and response buffers. *Operations*:
`send`, `send_data`, `read_rx_buffer`, `shutdown`, `disconnect` and the socket
callbacks. *Hard*: callbacks of one connection on three threads; buffers that
must live until a write completes; shutdown that races with the write. *Correct
when*: each request gets one whole response and no buffer changes while it is
written.

**HTTP server** (`src/include/via/http_server.hpp`,
`src/include/via/comms/server.hpp`). *State*: two sets of connections,
`shutting_down_`. *Operations*: accept, connected, disconnected, timeouts,
`shutdown`. *Hard*: sets changed on several threads while they are walked.
*Correct when*: the sets agree and the shutdown closes every connection.

**HTTP request parser** (`src/src/http/request.cpp`,
`src/include/via/http/request.hpp`, `headers`, `chunk`). *State*: the state of
the request line, header and body parsers. *Operations*: `receive` for one
packet. *Hard*: packets split anywhere; limits at their boundaries. *Correct
when*: the result does not depend on the split.

**Request handlers** (`src/src/httpEventHandler.cpp`): `UrlParser`,
`isinteger`, the choice between picture and index page. **Options and file
helpers** (`src/src/parseCmd.cpp`): `getParamVal`, `tokenize`, `readOptions`,
`getDOM`, `save_image`. **Command tokeniser** (`src/Tokeniser`). **JPEG
encoder** (`src/src/jpgrdwr.cpp`). **Mock and test programs**
(`src/src/server`, `src/test_timer`, `src/mytest`). **HTTP responses, router,
client, UDP, TLS, authentication** (rest of `src/include/via`). These are
sequential, and pure or pure I/O. **Bundled libraries** (asio, spdlog, jsoncpp,
MMAL and VCOS headers) are third-party code.

### How they interact

```
 signal --> main's handler --> stopCapture, http_server.shutdown, stop()
 timer  --> handle_timeout --> grabPicture --> cam_still::takePicture <--> MMAL
                 |   \--> imagebuffers[curImg] <------------ getImage
                 \--post--> save_file --> file                 ^
 socket --> http_server --> http_connection --> Handlers::request
```

## 2. Plan

| # | module | models | composes | state |
|---|--------|--------|----------|-------|
| 1 | `IoContext` | run queue and threads | | done |
| 2 | `CaptureServer` | captures, saves, requests, shutdown | extends `IoContext` | done |
| 3 | `CaptureClock` | when captures happen | the timer of 2, in time | done |
| 4 | `StillCamera` | taking one picture | the `Grab` step of 2 | done |
| 5 | `PictureLedger` | abstract: a picture is taken, then saved or given up; the backlog is a set | implemented by 2 | done |
| 6 | `CameraLifecycle` | open, initialize, release, failures | `StillCamera` as the opened state | done |
| 7 | `HttpConnection` | reading, sending, closing on one socket | extends `IoContext` | done |
| 8 | `HttpServer` | the sets of connections, clients, shutdown | extends 7 | done |
| 9 | `RequestReceiver` | the request parser over split packets, beside the same parser with nothing split | the `Respond` step of 7 | done |
| 10 | `FrameTransfer` | abstract: one frame for each call, byte by byte | implemented by 4 | done |
| 11 | `QueryParsers` | `UrlParser`, `tokenize`, tokeniser as functions | | not done: pure functions, no hazard |

`CaptureServer` and `HttpServer` share the threads and the queue of `IoContext`
and are checked apart: what passes from one to the other is one call,
`getImage`, which `CaptureServer` runs at every point of a capture, and one
order, that the shutdown of the HTTP server comes between `stopCapture` and
`io_service.stop()`. Together they would be too large to check.

## 3. The models

### `IoContext` — the scheduler

`opQueue` is `op_queue_`, a FIFO; `stopped` is `stopped_`; `pc` gives the
statement at which each thread is. `Dequeue` is `do_run_one`: a thread takes
the head and runs the handler to its end. `StopIo` only sets the flag; a thread
that comes back to the loop then leaves it (`LeaveRun`), and what is still
queued is never run. The marker that the scheduler keeps in its queue for the
reactor is abstracted: an operation that has become ready (timer, socket,
signal) is appended at any time while the service is not stopped, which allows
every order the marker allows and more.

### `CaptureServer` — captures, saves, requests, shutdown

One action for each statement that touches shared state. The statements of
`handle_timeout` are, in order, `CaptureQuit` or `CaptureBegin`, `Grab`,
`Store`, `Count`, `PostSave` or `DropSave`, `BumpCurrentCount`,
`AdvanceCurImg`, `Rearm`; those of `save_file` are `SaveCopy`, `SaveWrite`,
`SaveEnd`; those of `getImage` are `CompareCount`, `CompareSize`, `Clamp`,
`ReadIndex`, `CopyImage`, and `Respond` for the caller; the signal handler is
`StopCapture`, `StopService`. The three reads of `currentCount` in `getImage`
are three actions, and so is the unlocked read of `curImg`. A critical section
under a buffer's mutex is one action.

Abstractions:

* A picture is its number; 0 is a buffer that was never filled. A picture that
  `takePicture` failed to take gets a number too, since `grabPicture` does not
  look at the result.
* An `unsigned int` has `Word` values. What matters of 2^32 and 100 is that
  neither divides the other; 32 and 3 keep that.
* Time is left out: an armed timer may expire at any moment (`CaptureClock`
  has the time).
* `save_image` writes its file in one step, or does not (`fopen` failed).
* Connections are left out: a request arrives and is answered. The call of
  `http_server.shutdown()` in the signal handler, between `StopCapture` and
  `StopService`, does not touch the capture; `HttpServer` models it.
* Plain integers shared by threads (`quitFlag`, `curImg`) are read and written
  atomically and in program order.
* `taken`, `takenAtQuit`, `settled`, `local[w].pic` and `local[w].seen` record
  history for the properties; no guard reads them but the bound on `taken`.

### `PictureLedger` — what a capture server promises

The abstract specification: pictures are taken one at a time, join the backlog
when they are counted, are settled by a save or by being given up, once, and
leave the backlog when that has ended. It has no threads, queue, ring, timer or
slot. `CaptureServer` instantiates it as `Ledger` with `backlog` computed from
what is queued and what the threads are at; `ImplementsLedger` is the property
that every behaviour of the server is one of the ledger. `Exact` is what follows
from the ledger alone.

### `CaptureClock` — the schedule

`now` advances by `Tick`; `Begin` reads the clock at the first statement of
`handle_timeout`, `Finish` sets the timer. `Latency` bounds the time from expiry
to the first statement, `GrabTime` the work of the handler: `Tick` is disabled
when one of them would be exceeded, so time cannot pass a bound. Neither bound
is assumed to be small by `NotEarly` and `NoBurst`; `DriftBound` says in its
premise that they fit in one period.

### `StillCamera` — taking a picture

The application thread (`app`) and the MMAL thread (`mmal`) take turns in any
order. `TakePicture`, `PortBusy`/`EnableFails`/`EnablePort`, `SendBuffer`,
`StartCapture`/`StartFails`, `WaitForFrame`, `BeginDisable`,
`EndDisable`/`DisableFails`, `ReturnLength` are the statements of `takePicture`
with `startCapture` and `stopCapture` inlined. `TooSmall` or `CopyData`,
`PostFrame`, `ReleaseBuffer`, `TakeBuffer` or `EndCallback`, `SendNewBuffer` are
those of `buffer_callback`; `Deliver` is the encoder.

`mmal_port_disable` takes two steps: `is_enabled` is cleared first, then it waits
for a callback that is running and returns the empty buffers; the callback can
test the flag, or send a buffer, on either side of the first step. The callback
relies on this behaviour, which is that of `mmal_port.c` in
`src/include/mmal/core`: `Deliver`, `EndDisable` and `DisableFails` are
translated from there. What the firmware behind a port answers is open: `Faults`
names the MMAL calls that may fail in a run. When
`mmal_port_disable` fails, `stopCapture` deletes the userdata and `takePicture`
reads `offset` from it: `ReturnLength` then gives the old value or any of
`Freed`, numbers that stand for what the freed memory may hold. Not
reachable here and left out: `userdata == NULL` in the callback, the early
return of `stopCapture`. `commitParameters` belongs to `CameraLifecycle`.

### `FrameTransfer` — what taking a picture promises

The abstract specification, without ports, buffers, semaphore and callbacks: a
call is refused or one frame is exposed; any number of its bytes is copied,
dropped because it does not fit, or cut off by a failed transmission; when the
last bytes have been copied the call returns, with the number of the bytes
copied unless that number has been freed. `StillCamera` instantiates it as
`Transfer`: the control points of the two threads give its `state` (`Progress`),
and what is left of the frame is with the encoder or in `buffer_callback`
(`Copying`). `ImplementsTransfer` is the property that the two threads do
nothing else; `Whole` says that the bytes copied and those left are the frame.

### `CameraLifecycle` — opening and releasing the camera

One thread; what is hard is the order of the steps and the clean-ups. Each MMAL
call that creates, enables or connects something is a step of `initialize`,
with `createCamera`, `createEncoder` and `connectPorts` inlined, and each has an
action for its failure that runs the clean-ups the code runs there. An object is
its kind and the number of the call of `initialize` that made it, and a pointer
to a component is that number: a stale pointer is told from a good one, also
after the next `initialize`. `live` are the objects that exist; `wrong` records
that an object was destroyed that did not, or twice. `mmal_component_destroy`
only gives up the caller's reference: while a pool with payload exists for one of
the component's ports (`HasPool`: `mmal_port_payload_alloc` acquires the port) the
component stays, `doomed`, and goes with the last such pool.

A setting is one of four, by the way it reaches the hardware: `control` (written
to the camera's control port by `commitParameters`), `quality` (written to the
encoder's output port by `commitParameters`, and skipped while
`encoder_output_port` is null), `encoding` (likewise, and also set in the format
by `createEncoder`) and `size` (width and height, used by `createCamera` alone).
Of their values the model keeps whether the component created last has been sent
the latest (`stale`); `changedSettings` is cleared whatever was sent.
`setSinceOpen` records which setters were called after the first opening, for the
properties.

The control point `lost` stands for a null or dangling pointer that was used, or
a `takePicture` that waits for a camera that was not set up. `Capture` stands for
the whole of `StillCamera`, of which only `commitParameters` matters here.
Calls whose failure is only logged (`mmal_port_parameter_set`) do not fail.

### `HttpConnection` — one socket, several threads

The operations of a connection, one action for each statement that touches
shared state, named after what it does: `ReadData`, `ReadEnd`, `SwapBuffers`,
`TestReceiving` and `ArmRead` (the test and the assignment of
`enable_reception` are two steps), `Respond`, `MarkTransmitting` (after the
write has been started), `WriteDone`, `UnmarkTransmitting`, `WriteFailed`,
`Disconnect`, `PendDisconnect`, `ShutSocket`. A read ends with data, with an
error that `is_error_a_disconnect` lists (`ReadEnd`), or with another one
(`ReadError`), after which `signal_error` only calls `error_callback_`: nothing is
reset and no read follows. A running handler has its locals
in `frame[w]`, and `frame[w].after` is where a call returns to. The template
parameter `use_strand` is a variable that never changes, so that one run
compares the connections the program has (without a strand) with those it could
have; a strand is the lock and the list of waiting operations of asio's
`strand_service`.

### `HttpServer` — connections, clients, shutdown

The two classes that own connections, the clients, the socket, and the signal
handler. `comms::server` and `http_server` hold `shared_ptr`s, so an object
exists exactly while a set, `next_connection_` or a running handler refers to
it: `Alive` and `HttpAlive` are definitions, and a callback that locks a weak
pointer asks them. The destructors close the socket (`SocketOpen`).

Abstractions:

* A packet is one request. A client does not send the next one before it has
  the response (`Window = 1`).
* `async_write` sends everything, part or nothing at once; requests whose response
  has not been sent completely are the set `unsent`, those whose client has it
  the set `answered`. A response is unsent
  until the client takes it, closes, or the socket is shut down. A write may
  fail with an error that disconnects (`reset`) or with one that does not
  (`pipe`).
* What a socket operation of the reactor gives follows `non_blocking_recv`,
  `non_blocking_send` and `epoll_reactor` in `src/include/asio`. A client hangs up
  (`ClientHangUp`), or can no longer be reached (`Break`): TCP gives it up after
  some time and an error waits on the socket. The first operation is told of it,
  a write before a read; if it was a write, the read finds the end of the stream.
* An accept may fail (`AcceptFailed`): the connection without a socket is given
  up and the next accept started.
* `raced` marks a connection for which something was handled by another thread
  before it was registered: reception is enabled before the connection is put
  into the sets. The properties that say so exclude it, because the code does
  not protect it (section 5).
* The loop of `shutdown()` erases the element it stands on when that connection
  is idle. What the dangling iterator does then is undefined; the model lets the
  walk skip any of the elements that are left.
* An access to a set is atomic, though the maps have no lock: a data race
  on the map itself is undefined behaviour that is left out.
* `RegisterHttp` leaves the map alone when it has the connection already
  (`http_server.hpp:208`): the union is then what it was. The key is an address,
  and the model does not use a name twice: that a new connection gets the address
  of one that was freed while its `http_connection` was left behind (`raced`) is
  left out.
* `SO_RCVTIMEO` and `SO_SNDTIMEO`, which `set_timeout` sets, have no effect on the
  non-blocking operations of the reactor and have no counterpart in the model.
* The second acceptor (IPv6) and exceptions are left out.

### `RequestReceiver` — the parser of requests

Two copies of the same parser read the same bytes: `rx` gets them cut into
packets at any place, `whole` has everything the client sends before it waits as
one packet. The state of a parser is that of `request_line`, `message_headers`,
`rx_chunk` and `request_receiver` together; `event` is what the server was told
at the last byte. Bytes come in units (a word, a blank, `HTTP/1.1`, CR, LF, one
of seven fields, a digit of a chunk size, a semicolon, a wrong byte), so that a
run is over all sequences of units, legal or not. Three of the fields are
`Content-Length`, with a value that is the length of the body, too long, or no
number; a second one makes it no number (`Add`), and so does a continuation
(`Longer`). Both parsers are given `peek`, whether and how the
packet goes on: the code decides by it whether a line is continued, whether an
error is an error (`Missed` at the end of a packet, `Noticed`) and whether there
is an unwanted body. A cut is `Harmful` where that decision makes a difference;
`Anywhere` allows these cuts too.

`HeaderRead` is what `receive` decides at the end of the header, with the 413
that `Handlers::expect_continue` sends for a body that is too long.
`ChunkHeader` is `chunk_header::parse_char`: blanks, digits and the extension,
each with its state and its limit, and `chunk` keeps the state of error in which
a parser is left when the wrong byte was the last one of a packet. The limits are
`MaxWhitespace`, `MaxHeaders` and `MaxDigits`; the lengths of lines and other
values of fields are left out.

## 4. What is checked

Every property has a mutant of the code in `PROJECT.json` that violates it
under the same configuration.

| run | states | what it shows |
|-----|--------|---------------|
| `capture_safety` | 1 786 682 | types; one capture; exact `pending_count`; bounded backlog; ring, saves and requests consistent; shutdown loses at most one picture; quit stops the capture; the server implements `PictureLedger`, dropped pictures included |
| `capture_forever` | 172 188 | the timer fires and requests come for ever: captures never stall, saves and requests do not starve, and a signal ends the server |
| `kth_previous` | violated | finding 1 |
| `capture_clock` | 2 713 | never early; no burst; bounded drift |
| `still_picture` | 2 829 | semaphore, callbacks, whole pictures, one buffer lost at most; `takePicture` returns while there are buffers |
| `still_faults` | 2 421 | `takePicture` and `buffer_callback` implement `FrameTransfer`, with every call failing at will and a picture that may not fit |
| `camera_lifecycle` | 92 020 | success means complete; nothing destroyed twice; what failures leave; which settings an opened camera lacks; openings without a setter in between are safe |
| `http_connection` | 2 093 910 | with or without a strand, a connection is never left without a read unless a read was told of an error that is no disconnect; with a strand, flags, buffers and responses are right as well |
| `http_shutdown` | 160 456 | connections that come and go during a shutdown: no dangling pointer, the two sets agree; a client that hangs up is noticed |
| `transmit_flag` | violated | finding 2 |
| `request_receiver` | 130 408 | cuts that are harmless change nothing; what is accepted is legal |
| `split_packets` | violated | finding 3 |

### Bounds, and why they are enough

* `Workers`: three, as in `main`, in the safety and liveness runs; two are enough
  for the counterexamples.
* `MaxSize = 3`, `MaxPictures = 5`: the ring is overwritten from its second
  lap on, the captures outrun the saves by a lap (a thread may hold a save
  while the others take five pictures), and requests reach behind slot 0.
* `Word = 32`: see above; `32 % 3 # 0` as `2^32 % 100 # 0`. The forever run has
  a ring of two and a range that is a multiple of it, since it checks no slot.
* In the forever run `ForgetPictures` and `ForgetRequests` start the history
  variables again from 0 when their bound is reached (`MCCaptureForever`): what is
  bounded is not how often the timer fires or a request comes, but how long the
  models remember it. `MaxFileCount` and `QueueFloor` give a limit of two, below
  the number of threads, so that the drop branch is taken as well.
* `MaxFileCount`, `QueueFloor`: the limit is 3 in the safety run, the number of
  threads and the largest value with which a picture is dropped (`NeverDropped`,
  which is proved, says that with 4 none is), so that `ImplementsLedger` covers
  the drop branch. That the backlog is bounded by the queue and not by the limit is
  proved for every limit (`BacklogIsBounded`).
* `Ks`: slots up to the size of the ring; `MaxRequests = 1`: requests change
  nothing that another request reads.
* Clock: the period is four ticks, latency and grab time two each, so they just
  fit in a period, and `Horizon` leaves eight periods. A behaviour stops at the
  horizon, hence `CHECK_DEADLOCK FALSE`.
* Camera: `Width`, `Height` and `BufferSize` give three buffers for a picture
  with a shorter last one; five buffers and four pictures, so that the pool is
  nearly empty at the end; the `still_faults` picture has rows that need
  padding, and freed memory holds 0 or 7, a length that no picture has. In that
  run `takePicture` may wait for ever (see the padding of rows in section 5), hence
  `CHECK_DEADLOCK FALSE`.

* Lifecycle: all nine steps may fail; three initialisations allow a failure, an
  opening and a second one, which is where stale pointers matter; setters may be
  called any number of times. A program may stop calling, and `lost` is
  never left, hence `CHECK_DEADLOCK FALSE`.
* HTTP: `http_connection` has one connection with two requests and two threads:
  the races are between two callbacks of one connection, and the second request
  is the first that a flag left over from the first response can harm.
  `http_shutdown` has two connections, so that the walk of the shutdown has an
  element to skip and another thread an element to erase, and no requests.
  Both have connections with and without a strand. In `http_connection` clients
  hang up, or are lost, before a request, while it is parsed, during the write and
  after it, and `NeverDeaf` says that a read is left to notice it; that what the read
  reports ends the connection (`HangUpNoticed`) is checked without requests, because
  with requests the number of states is too large for a liveness check. Without a
  signal the server waits for clients that have gone, hence `CHECK_DEADLOCK FALSE`.
* Parser: two blanks, two digits and four fields out of seven make the limits
  reachable and leave room for the fields that decide (`host`, `chunked`, `expect`
  and a length). The length of the input is not bounded. Both parsers
  stop after an invalid request, as the connection is closed: hence
  `CHECK_DEADLOCK FALSE`.

### Fairness

`CaptureServer`: weak fairness of every worker thread, because the operating
system schedules them and the camera and the disk answer; weak fairness of
`Expire`, because an armed timer expires. None for requests and signals, which
may never come. `StillCamera`: weak fairness of both threads; that of the MMAL
thread includes `Deliver`, the hardware delivering a started frame. Weak
fairness is enough in both: a thread's step, once enabled, stays enabled until
the thread takes it, except for taking an operation from the queue, which
another thread may do instead. `HttpServer`: weak fairness of every thread, and
of the reactor for every connection, since a socket that is ready is reported by
`epoll`. None for clients and signals, which do what they like. In the forever run
`ForgetPictures` is fair too: it is no step of the program, and withholding it
would stop the timer at the bound.

## 5. Findings

1. `KthPrevious`: `(curImg - 1 - k) % maxSize` wraps at 2^32, not at 100; once
   `k >= curImg` another picture is returned than the k-th previous one.
   `ServedFromRing` is what does hold: a smaller k gets its picture
   (`ServedInLap`); for any k (`ServedBehind`) the request is still served one
   of the pictures in a full ring, and behind slot 0 the slot is off by the
   remainder of 2^32 modulo `maxSize`.
2. `TransmittingMeansWriting`: `send_data` sets `transmitting_` after it has
   started the write. Without a strand the end of that write can be handled
   before: the flag then stays set, and every later response on the connection
   is dropped without an error. With a strand it cannot happen
   (`StrandProtects`, `StrandAnswers`).
3. `SplitAccepted`: a CR LF that ends a header line and begins a packet is taken
   for the blank line at the end of the header. `SplitAgrees` is what does hold.

Four more disagreements between the code and what is written beside it have no
run of their own; a property that is checked, or the model, says what the code does
instead:

* *Start-up.* The comment on `currentCount` (`timer.cpp:30`) says that it keeps
  requests from an unfilled buffer. `k = currentCount` is not clamped, and between
  `++currentCount` and the assignment of `curImg` k may be larger by one still:
  while the ring fills, such a request is answered with a buffer that was never
  filled. `UnfilledByTwo`, a part of `ServedFromRing`, is what holds: only these
  two values of k, and negative ones, find an unfilled buffer.
* *Settings.* The comment in `startCapture` (`cam_still.cpp:460`) says that changed
  parameters are committed there if they were not before. `commitParameters` clears
  `changedSettings` whatever it could send: in `createCamera` the encoder's port is
  still null, so the quality that was set before the camera is opened never reaches
  the encoder; width and height that are set after the opening are never sent.
  `SettingsApplied` says exactly what a camera that was opened once lacks.
* *Timeouts.* `set_timeout` (`http_server.hpp:620-622`) is documented to close sockets
  without activity. The socket options it sets do not act on the reactor's operations,
  and when TCP gives a client up, the read ends with an error that
  `is_error_a_disconnect` does not list: it is logged, `receiving_` stays set, no read
  follows, and the connection is deaf until the shutdown. `NeverDeaf` makes this
  exception and no other.
* *Chunks.* `Handlers::chunk` is written to respond to the last chunk
  (`httpEventHandler.cpp:138`), but a chunked request without `Expect` is answered as
  soon as its header has been read, which clears the parser: its chunks are refused
  as a new request. `HeaderRead` and `Answer` of `RequestReceiver` are that path.

Other behaviour of the code that the models show, and that nothing written contradicts:

* *Camera.* A callback that races with `mmal_port_disable` loses a buffer, so a
  pool lasts for as many pictures as it has buffers at worst, and then
  `takePicture` waits for ever (`OneLostPerPicture` is what holds). The test of
  the result of `mmal_port_disable` is the wrong way round: the userdata leaks
  on success, and on failure `*length` is read from it after it was deleted
  (`kept` of `FrameTransfer`).
  `getImageBufferSize` leaves out the padding of BMP rows (the default width
  needs none). A start that fails after the port was enabled leaves it enabled,
  and every later picture is refused as busy.
* *Lifecycle.* An encoder that cannot be created is a null pointer that the
  clean-up dereferences. A connection that fails leaves camera and encoder
  behind. The camera's own pool is never destroyed, and since it holds the
  camera's port, `mmal_component_destroy` never destroys the camera either, on a
  failure or by `release` (`CleanFailure` says what is left). A second opening
  sends no settings unless a setter was called, and when one was called it writes
  to the port of the encoder that was destroyed.
* *Connections.* A packet, or the end of the stream, that is handled while the
  connection is being registered is ignored, and in the second case leaves a
  connection in the sets that nobody will erase. A response without keep-alive,
  and any response during a shutdown, closes the socket with what the first
  attempt did not send. Without a strand two reads of one connection may be
  in progress, and the parser may read a buffer that has been swapped and filled
  again (`StrandProtects` says that neither happens with one). A broken pipe ends a write without resetting
  `transmitting_`.
* *Parser.* A GET that another request follows in
  the same packet is refused (length required). An error at the last byte of a
  packet is missed: with such cuts a request with one field too many is
  accepted, which is why `AcceptedIsLegal` is about harmless cuts.

## 6. What is proved

For every value of the constants, under the assumptions named in the modules
(sizes are natural numbers, the set of threads is finite, the unsigned range is
larger than the ring).

**`CaptureServer_proofs`**: `TypeCorrect`, `OneCapture`, `PendingCounts`,
`BacklogIsBounded`, `NoDropAboveThreads`, `ShutdownLosesOne`, `QuitStops`. None
of these is inductive alone. The chain is: the capture is a token that is in the
timer, in the queue or on one thread (`TokenInv`), hence two threads are never
both in `handle_timeout`. The token and the FIFO order give `OrderInv`: a queued
save is ahead of the queued capture, and the capture is at its last steps or
armed while a save is queued, because the timer is set after the save was
posted; so at most one save is queued. `CountInv` equates `pending_count` with
the saves that are queued, running or about to be posted, and with `OrderInv` bounds it
by the number of threads, which makes `DropSave` unreachable under a larger
limit. `QuitInv` follows the capture that passed its test of `quitFlag`.
`LossInv` says which pictures are not settled, and that they are exactly those
of saves in the queue or on a thread; after the joins only the queue is left,
with at most one.

**`CaptureClock_proofs`**: `ClockTypes`, `CapturesNotEarly`, `CapturesNoBurst`,
`CapturesDrift`. The timer is set from the capture before last, so the
invariants (`Schedule`, `DriftInv`) speak of two captures at once, in multiples
of the period; `DriftSteps` is the arithmetic of the bound.

**`StillCamera_proofs`**: `CameraTypes`, `PostsAreAwaited`, `CallbacksEnd`,
`PicturesIntact`, `OneLost`, `AlignedRowsFit`, `TransferRefined`, `FramesWhole`.
`CallbackInv` relates the control
points of the two threads and is inductive with the types: it excludes, for
instance, a callback that is copying while the application is past its wait.
`FrameInv` adds up the bytes that were copied, are being copied and are still
to come; `LossInv` says that the picture in progress has not lost its buffer
before the callback ends under a disabled port. `TransferRefined` is the
refinement: `Spec` implements `FrameTransfer` for every size and every set of
failing calls. It needs besides that the buffer in the callback is not empty and
that the userdata of the call is there until `mmal_port_disable` has failed
(`TransferInv`); then each action is one step of the transfer or leaves its
variables alone (`AppTransfers`, `MmalTransfers`). `FramesWhole` is the `Whole`
of `FrameTransfer`, at every point of the transfer.

**`CameraLifecycle_proofs`**: `LifecycleTypes`, `CompleteWhenInitialized`,
`ObjectsDestroyedOnce`, `FailuresCleanUp`, `SettingsAreApplied`,
`OpeningIsSafe`. `Stage` says for each control point what the current call
has made and that the pointers the clean-ups use point to it. `Objects`, a part of
it (`MadeIsLive`, `LiveIsMade`, `DoomedIsHeld`), says of what is live besides that it is a pool of a camera, a camera that is
doomed and held by such a pool, or what a failed `connectPorts` left, and that
nothing that a pointer leads to is doomed: destroying it is then no second
destruction. `KeepObjects`, `AddObject`, `DestroyObjects` and `DestroyMade` say how
the kinds of steps keep it. The three properties of clean-ups follow.
`FirstOpen` follows the first opening: the port of the encoder is null while
`createCamera` commits, so `FirstSettings` has the quality among the settings that
are missing from then on, until a setter raises `changedSettings` again; without
such a setter no later opening commits at all, and none reaches the port of a
destroyed encoder.

**`CaptureServer_proofs`**, the pictures: `RingIsLatest`, `SavesAreCurrent`,
`ServedByRing`. `RingInv` says what every slot holds at every
control point of the capture (`Holds`: a picture that belongs there, no older
than the last one stored), and `Posted` that a save names a picture that has been
stored and the slot of it. `UserInv` follows a request and a save from the read
of the slot's number to the copy of its buffer: the picture they have in mind
bounds what they copy later, because a slot is only ever overwritten by a newer
picture of the same residue. `SeenInv` is the same for a k behind slot 0, where
any slot may be meant: once the ring is full each slot has a picture of the last
lap (`LapHasSlot`), and `IndexBehind` computes the slot, the wrap at `Word`
included (`Wraps`). The lemmas on `%` are the arithmetic of laps. For the start-up
(`UnfilledByTwo`), `BumpInv` relates `currentCount` to the pictures that are in the
ring at each control point of the capture, and `AskInv` bounds the k of a request
by what `currentCount` was when it was compared.

**`CaptureServer_proofs`**, the ledger: `Refinement`, that `CaptureServer`
implements `PictureLedger` under the mapping of `Ledger`. `LedgerInv` adds to the
earlier invariants that the pictures of saves that are queued, being copied or
being written are all different (`FreshInv`, `QueueInv`, `SaverInv`): without it
one picture could be settled twice, which the ledger forbids. Every action is a
step of the ledger or leaves its variables alone.

**`PictureLedger_proofs`**: `LedgerIsExact`, from the ledger alone.

**`HttpServer_proofs`**: `ServerTyped`, `ServerInductive`, `ConnectionOutlived`,
`SetsAgree`, `NoConnectionDeaf`, for any number of threads, connections and
requests and any `Window`, with and without a strand. `ServerInv` is inductive;
its parts are

* `Typed`: the types, and where a handler can be by where it goes on after the
  call it is in (`ControlInv`), which says that a packet being handled is not the
  end of the stream and that its `http_connection` is held;
* `AcceptInv`: one operation or one thread accepts, and `next_connection_` is
  what it accepts; `FreshInv`: nobody has worked for a connection that is not yet
  accepted, so that no callback is left over for it;
* `ShutInv`: the loop of `shutdown()` runs after its flag is set; `SetInv`: how
  the two sets may differ at each control point between the two insertions and
  the two erasures; `EndInv`: a connection whose stream has ended and that is
  still registered has a callback on its way to erase it. `SetsAgree` and
  `ConnectionOutlived` follow;
* `StreamInv` and `DeafInv`: while `receiving_` is set there is a read, in
  progress or completed or at the start of its callback, and when it is not set a
  thread is between the read and `ArmRead`. That is why the unsynchronised test of
  `enable_reception` may start two reads but never none. The exception of
  `NeverDeaf`, a read that was told of an error that is no disconnect, is
  `broken[c] = "read"`: it is there before such a read completes, and stays
  (`OverStays`), so that nothing else is excused.

The lemmas under `ServerInv` say what each kind of step may change (`WorkerLocal`,
`WorkerMoves`, `OutsideLocal`), and that a completed operation stays, in the run
queue or among those that wait for the strand, until a thread takes it (`OpsKept`,
`OpsFrom`, `OpsOutside`).

**`HttpStrand_proofs`**: `StrandInductive`, `StrandSafe`, `AnswersComplete`, on
top of `ServerInv`, about connections with a strand. `StrandInv`: the strand has
one owner, a thread in a callback or one operation that has been given it. The
owner, the operations that wait for the strand and those in the run queue form
one line (`Placed`, `Precedes`), and `LineKept` and `LineOutside` show that no
step overtakes in it. From the line follow

* `ReadInv`: one read in all, in progress, completed or at the start of its
  callback, and `receiving_` tells which;
* `BufferInv`: the packet of that read is in the block in front until the blocks
  are swapped, and in the other one while it is parsed;
* `TransmitInv`: `transmitting_` and `disconnect_pending_` are set only while a
  write is in progress or its callback has still to reset them, unless the
  connection has failed;
* `RequestInv` and `AnswerInv`, for `Window = 1`: the only request without a
  response is in one place, and a write that has completed is ahead of it in the
  line, so that `transmitting_` has been reset when it is parsed.

`StrandSafe` (`StrandProtects`) holds for any `Window`. `AnswersComplete`
(`StrandAnswers`) is about a client that waits for each response, `Window = 1`:
one that does not loses responses with a strand as well, because `send_data`
sends nothing while a response is being sent.

**`RequestReceiver_proofs`**: `ReceiverTypes` for any cuts; `SplitsAgree` and
`AcceptedLegally` under `~Anywhere`. The invariant (`SplitInv`) is that both
parsers are equal, that the two only differ in `fresh` where the cut before the
next unit is harmless, and that the CR flags are where they can be (`Tidy`); the
lemmas show that a parser step depends on `fresh` and `peek` only at harmful
cuts. `LegalInv` bounds the
fields of a header that `whole` is reading, and says that a header which
`HeaderRead` has let pass without `chunked` has no `Content-Length` that is wrong
or too long (`Acceptable`), which is needed while its body is awaited; with
`SplitInv` the same holds of `rx`.

`NoDropAboveThreads`, `ClockTypes`, `LedgerIsExact`, `AlignedRowsFit`, `FramesWhole`,
`ServerInductive` and `StrandInductive` state what no run checks.

Every invariant, every action property and both refinements of the passing runs are
theorems.

**Only model-checked**: the liveness properties (`ShutdownCompletes`,
`CaptureContinues`, `QueuedSaveRuns`, `EveryRequestAnswered`,
`TakePictureReturns`, `HangUpNoticed`), because reasoning about fairness and
`ENABLED` is out of the prover's reach, and the three counterexamples, which
are about one behaviour each. So would be what a recursive definition computes on
every input; the models have none.

## 7. What is not modelled

See the components with status `not_modelled` or `partly` in `PROJECT.json`.

* *HTTP*: the response encoder, the router, HEAD and TRACE, chunked responses and
  the list of buffers behind `send_data` (the program uses none of them but the
  encoder); the contents of responses, so that a second response overwriting
  `tx_header_` and `tx_body_` while the first is being written does not show;
  the second acceptor; the exception of `remote_endpoint()` in
  the constructor of `http_connection`.
* *Pure functions and I/O*: `UrlParser`, `isinteger`, `tokenize`, the command
  tokeniser, the options, the index page, the JPEG encoder. They are sequential,
  keep no state, and are within the reach of ordinary tests.
* *Not part of the server*: HTTP client, UDP, TLS, authentication, mock and test
  programs.
* *Third-party code* is modelled only where the server relies on it: the run
  queue, timers, strand and sockets of asio, and the ports and the reference counts
  of MMAL, translated from the copies under `src/include`. It is by far the
  largest part of the repository (asio, spdlog, jsoncpp, the headers of MMAL and
  VCOS), so that the lines behind the models are a small part of all lines.
* *Memory*: weak memory effects and the other undefined behaviour of
  unsynchronised variables and maps.
