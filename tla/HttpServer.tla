----------------------------- MODULE HttpServer -----------------------------
(***************************************************************************)
(* The HTTP server: http_server (src/include/via/http_server.hpp) and      *)
(* comms::server (src/include/via/comms/server.hpp), the connections they  *)
(* register, the clients, and the shutdown that main's signal handler      *)
(* (src/src/simple_http_server.cpp) starts.                                *)
(*                                                                         *)
(* comms::server owns the connections, http_server owns an http_connection *)
(* for each of them that only has a weak pointer to it.  An object exists  *)
(* while something refers to it, so Alive and HttpAlive are definitions;   *)
(* the destructors of both close the socket.                               *)
(***************************************************************************)
EXTENDS HttpConnection, SequencesExt

CONSTANTS
  Window,           \* requests a client sends before it has the responses
  MaxRequests       \* bound: requests of a client

ASSUME ClientAssumption == Window \in Nat /\ MaxRequests \in Nat

VARIABLES
  connections_,         \* comms::server::connections_
  next_connection_,     \* comms::server::next_connection_, once accepted
  listening,            \* the acceptor is open
  http_connections_,    \* http_server::http_connections_
  shutting_down_,       \* http_server::shutting_down_
  walk,                 \* what the loop of shutdown() has not visited yet
  signalled,            \* a signal has been received
  asked,                \* requests sent by the client of c
  answered,             \* requests the client of c has the response to
  inbox,                \* requests the socket of c has received
  hungUp,               \* the client of c has closed
  broken,               \* "no", "error" when the kernel has given up c and no
                        \* operation was told, "read" or "write" that was told
  created,              \* an http_connection was made for c
  ended,                \* the end of the stream was handed to a callback of c
  raced                 \* c received or was disconnected, or all connections
                        \* were deleted, while c was being registered

acceptVars == <<next_connection_, listening>>
setVars == <<connections_, http_connections_>>
stopVars == <<shutting_down_, walk, signalled>>
clientVars == <<asked, answered, inbox, hungUp, broken>>
historyVars == <<created, ended, raced>>
serverVars == <<acceptVars, setVars, stopVars>>
vars == <<opQueue, stopped, pc, connectionVars, serverVars, clientVars,
          historyVars>>

Init ==
  /\ IoInit
  /\ ConnectionInit
  /\ connections_ = {}
  /\ next_connection_ = NoConn
  /\ listening = TRUE
  /\ http_connections_ = {}
  /\ shutting_down_ = FALSE
  /\ walk = {}
  /\ signalled = FALSE
  /\ asked = [c \in Conns |-> 0]
  /\ answered = [c \in Conns |-> {}]
  /\ inbox = [c \in Conns |-> 0]
  /\ hungUp = [c \in Conns |-> FALSE]
  /\ broken = [c \in Conns |-> "no"]
  /\ created = [c \in Conns |-> FALSE]
  /\ ended = [c \in Conns |-> FALSE]
  /\ raced = [c \in Conns |-> FALSE]

(* Where a thread has locked the weak pointer to its connection. *)
ReceivePcs == {"received", "swap", "enable", "arm", "parse", "start",
               "mark", "invalid", "leave"}
EndPcs == {"unmark", "disconnect", "pend", "shut", "disconnected", "closing",
           "erase"}
AcceptPcs == {"accept", "connected", "insert"}
HoldingPcs == ReceivePcs \cup EndPcs

At(labels) == {w \in Workers : pc[w] \in labels}

(* Something refers to the comms connection of c. *)
Alive(c) ==
  \/ c \in connections_
  \/ c = next_connection_
  \/ \E w \in At(HoldingPcs) : Mine(w) = c

(* Something refers to the http_connection of c. *)
HttpAlive(c) ==
  \/ c \in http_connections_
  \/ \E w \in At(HoldingPcs) : Mine(w) = c /\ frame[w].http

(* The connection of c is over at the other end. *)
Lost(c) == hungUp[c] \/ broken[c] # "no"

(* No destructor has closed the socket. *)
SocketOpen(c) ==
  /\ socket[c] # "none"
  /\ Alive(c)
  /\ created[c] => HttpAlive(c)

-----------------------------------------------------------------------------
(* Clients and the network *)

(* The acceptor takes a connection for next_connection_, or fails for want *)
(* of file descriptors and leaves it without a socket.                     *)
ClientConnect(c) ==
  /\ listening /\ ~ stopped
  /\ next_connection_ = NoConn /\ socket[c] = "none"
  /\ next_connection_' = c
  /\ \/ Set(socket, c, "open") /\ Enqueue(Op("accept", c, 0, "ok"))
     \/ UNCHANGED socket /\ Enqueue(Op("accept", c, 0, "failed"))
  /\ UNCHANGED <<stopped, pc, strandVars, frame, rxVars, txVars, listening,
                 setVars, stopVars, clientVars, historyVars>>

(* The client sends its next request, as one packet. *)
ClientAsk(c) ==
  /\ socket[c] = "open" /\ SocketOpen(c) /\ ~ Lost(c)
  /\ asked[c] < MaxRequests
  /\ Cardinality((1 .. asked[c]) \ answered[c]) < Window
  /\ Set(asked, c, asked[c] + 1)
  /\ Set(inbox, c, inbox[c] + 1)
  /\ UNCHANGED <<opQueue, stopped, pc, connectionVars, serverVars, answered,
                 hungUp, broken, historyVars>>

(* The client closes its end. *)
ClientHangUp(c) ==
  /\ socket[c] # "none" /\ ~ Lost(c)
  /\ Set(hungUp, c, TRUE)
  /\ UNCHANGED <<opQueue, stopped, pc, connectionVars, serverVars, asked,
                 answered, inbox, broken, historyVars>>

(* The client can no longer be reached: what the kernel has sent to it is  *)
(* not acknowledged and after some time the kernel gives the connection    *)
(* up.  An error waits on the socket for the next operation.               *)
Break(c) ==
  /\ socket[c] = "open" /\ SocketOpen(c) /\ ~ Lost(c)
  /\ unsent[c] \cup answered[c] # {}
  /\ Set(broken, c, "error")
  /\ UNCHANGED <<opQueue, stopped, pc, connectionVars, serverVars, asked,
                 answered, inbox, hungUp, historyVars>>

Client(c) ==
  \/ ClientConnect(c)
  \/ ClientAsk(c)
  \/ ClientHangUp(c)
  \/ Break(c)

-----------------------------------------------------------------------------
(* The reactor: what the socket can do completes an operation. *)

(* The first read in progress gets the next packet. *)
ReceivePacket(c) ==
  LET packet == asked[c] - inbox[c] + 1 IN
  /\ ~ stopped /\ SocketOpen(c)
  /\ reads[c] # << >> /\ inbox[c] > 0
  /\ Set(reads, c, Tail(reads[c]))
  /\ buffers' = [buffers EXCEPT ![c][Head(reads[c])] = packet]
  /\ Set(inbox, c, inbox[c] - 1)
  /\ Enqueue(Op("read", c, packet, "ok"))
  /\ UNCHANGED <<stopped, pc, strandVars, frame, socket, receiving_, front,
                 txVars, serverVars, asked, answered, hungUp, broken,
                 historyVars>>

(* The client has closed, the socket was shut down, or another operation   *)
(* was told that the connection is broken.                                 *)
ReceiveEnd(c) ==
  /\ ~ stopped /\ SocketOpen(c)
  /\ reads[c] # << >> /\ inbox[c] = 0
  /\ broken[c] # "error"
  /\ Lost(c) \/ socket[c] = "shut"
  /\ Set(reads, c, Tail(reads[c]))
  /\ Set(ended, c, TRUE)
  /\ Enqueue(Op("read", c, 0, "eof"))
  /\ UNCHANGED <<stopped, pc, strandVars, frame, socket, receiving_, buffers,
                 front, txVars, serverVars, clientVars, created, raced>>

(* The first read in progress is told of the error; a write would come     *)
(* first.                                                                  *)
ReceiveError(c) ==
  /\ ~ stopped /\ SocketOpen(c)
  /\ reads[c] # << >> /\ inbox[c] = 0
  /\ broken[c] = "error" /\ unsent[c] = {}
  /\ Set(reads, c, Tail(reads[c]))
  /\ Set(broken, c, "read")
  /\ Enqueue(Op("read", c, 0, "timedOut"))
  /\ UNCHANGED <<stopped, pc, strandVars, frame, socket, receiving_, buffers,
                 front, txVars, serverVars, asked, answered, inbox, hungUp,
                 historyVars>>

(* The client has taken the rest of a response. *)
FinishWrite(c) ==
  /\ ~ stopped /\ SocketOpen(c)
  /\ socket[c] = "open" /\ ~ Lost(c)
  /\ \E packet \in unsent[c] :
       /\ Set(unsent, c, unsent[c] \ {packet})
       /\ Set(answered, c, answered[c] \cup {packet})
  /\ Enqueue(Op("write", c, 0, "ok"))
  /\ UNCHANGED <<stopped, pc, strandVars, frame, socket, rxVars,
                 transmitting_, disconnect_pending_, serverVars, asked, inbox,
                 hungUp, broken, historyVars>>

(* The error a write ends with: a closed socket is a bad descriptor, one   *)
(* that was shut down is a broken pipe, a client that has closed may reset *)
(* the connection, and the error that waits on the socket comes first.     *)
WriteEnds(c, result) ==
  \/ result = "reset" /\ (~ SocketOpen(c) \/ hungUp[c])
  \/ result = "timedOut" /\ SocketOpen(c) /\ broken[c] = "error"
  \/ /\ result = "pipe" /\ SocketOpen(c) /\ broken[c] # "error"
     /\ Lost(c) \/ socket[c] = "shut"

(* A write in progress or one that starts ends with an error. *)
EndWrite(c) ==
  \E result \in {"reset", "pipe", "timedOut"} :
    /\ WriteEnds(c, result)
    /\ Enqueue(Op("write", c, 0, result))
    /\ broken' = IF result = "timedOut" THEN [broken EXCEPT ![c] = "write"]
                                        ELSE broken

(* The rest cannot be sent any more. *)
FailWrite(c) ==
  /\ ~ stopped /\ SocketOpen(c)
  /\ \E packet \in unsent[c] : Set(unsent, c, unsent[c] \ {packet})
  /\ EndWrite(c)
  /\ UNCHANGED <<stopped, pc, strandVars, frame, socket, rxVars,
                 transmitting_, disconnect_pending_, serverVars, asked,
                 answered, inbox, hungUp, historyVars>>

Reactor(c) ==
  \/ ReceivePacket(c)
  \/ ReceiveEnd(c)
  \/ ReceiveError(c)
  \/ FinishWrite(c)
  \/ FailWrite(c)

-----------------------------------------------------------------------------
(* Starting a write: async_write tries to send at once. *)

WriteWhole(w) ==
  LET c == Mine(w) IN
  /\ Goto(w, "start", "mark")
  /\ SocketOpen(c) /\ socket[c] = "open" /\ broken[c] = "no"
  /\ Set(answered, c, IF hungUp[c] THEN answered[c]
                      ELSE answered[c] \cup {frame[w].packet})
  /\ Enqueue(Op("write", c, 0, "ok"))
  /\ UNCHANGED <<stopped, connectionVars, serverVars, asked, inbox, hungUp,
                 broken, historyVars>>

WritePart(w) ==
  LET c == Mine(w) IN
  /\ Goto(w, "start", "mark")
  /\ SocketOpen(c) /\ socket[c] = "open" /\ broken[c] = "no"
  /\ Set(unsent, c, unsent[c] \cup {frame[w].packet})
  /\ UNCHANGED <<opQueue, stopped, strandVars, frame, socket, rxVars,
                 transmitting_, disconnect_pending_, serverVars, clientVars,
                 historyVars>>

WriteNothing(w) ==
  /\ Goto(w, "start", "mark")
  /\ EndWrite(Mine(w))
  /\ UNCHANGED <<stopped, connectionVars, serverVars, asked, answered, inbox,
                 hungUp, historyVars>>

StartWrite(w) == WriteWhole(w) \/ WritePart(w) \/ WriteNothing(w)

-----------------------------------------------------------------------------
(* accept_handler *)

EndHandler(w, from) ==
  /\ Goto(w, from, "run")
  /\ Set(frame, w, NoFrame)

(* The acceptor was closed while the handler was queued. *)
AcceptClosed(w) ==
  /\ ~ listening
  /\ EndHandler(w, "accept")
  /\ UNCHANGED <<opQueue, stopped, strandVars, socket, rxVars, txVars,
                 serverVars, clientVars, historyVars>>

(* error_callback_ logs the error; start_accept replaces the connection. *)
AcceptFailed(w) ==
  /\ listening /\ frame[w].result = "failed"
  /\ EndHandler(w, "accept")
  /\ next_connection_' = NoConn
  /\ UNCHANGED <<opQueue, stopped, strandVars, socket, rxVars, txVars,
                 listening, setVars, stopVars, clientVars, historyVars>>

(* start, handshake_callback: reception is enabled before CONNECTED.  The  *)
(* timeouts that are set on the socket are those of blocking operations    *)
(* and the reactor's do not block: they end nothing.                       *)
AcceptStart(w) ==
  /\ listening /\ frame[w].result = "ok"
  /\ Goto(w, "accept", "connected")
  /\ StartRead(Mine(w))
  /\ UNCHANGED <<opQueue, stopped, strandVars, frame, socket, txVars,
                 serverVars, clientVars, historyVars>>

(* connected_handler; a connection that is there already is left alone and *)
(* the union is what it was.                                               *)
RegisterHttp(w) ==
  /\ Goto(w, "connected", "insert")
  /\ http_connections_' = http_connections_ \cup {Mine(w)}
  /\ Set(created, Mine(w), TRUE)
  /\ Set(raced, Mine(w), raced[Mine(w)] \/ At({"closing", "closeAll"}) # {})
  /\ UNCHANGED <<opQueue, stopped, connectionVars, acceptVars, connections_,
                 stopVars, clientVars, ended>>

(* connections_.insert(next_connection_), reset, start_accept *)
RegisterComms(w) ==
  /\ EndHandler(w, "insert")
  /\ connections_' = connections_ \cup {Mine(w)}
  /\ next_connection_' = NoConn
  /\ UNCHANGED <<opQueue, stopped, strandVars, socket, rxVars, txVars,
                 listening, http_connections_, stopVars, clientVars,
                 historyVars>>

Accept(w) ==
  \/ AcceptClosed(w)
  \/ AcceptFailed(w)
  \/ AcceptStart(w)
  \/ RegisterHttp(w)
  \/ RegisterComms(w)

-----------------------------------------------------------------------------
(* Events of a connection *)

(* RECEIVED for a connection that is not in http_connections_: the packet  *)
(* is ignored.                                                             *)
ReceivedUnknown(w) ==
  /\ Goto(w, "received", "enable")
  /\ Mine(w) \notin http_connections_
  /\ Set(raced, Mine(w), raced[Mine(w)] \/ Mine(w) = next_connection_)
  /\ UNCHANGED <<opQueue, stopped, connectionVars, serverVars, clientVars,
                 created, ended>>

(* receive_handler *)
Received(w) ==
  /\ Mine(w) \in http_connections_
  /\ Goto(w, "received", "swap")
  /\ frame' = [frame EXCEPT ![w].http = TRUE]
  /\ UNCHANGED <<opQueue, stopped, strandVars, socket, rxVars, txVars,
                 serverVars, clientVars, historyVars>>

(* disconnected_handler: the last connection of a shutdown closes the      *)
(* server.                                                                 *)
Disconnected(w) ==
  LET c == Mine(w) IN
  /\ http_connections_' = http_connections_ \ {c}
  /\ Goto(w, "disconnected",
          IF /\ c \in http_connections_ /\ http_connections_ = {c}
             /\ shutting_down_
          THEN "closing" ELSE "erase")
  /\ Set(raced, c, raced[c] \/ c = next_connection_)
  /\ UNCHANGED <<opQueue, stopped, connectionVars, acceptVars, connections_,
                 stopVars, clientVars, created, ended>>

(* server_->close() in disconnected_handler *)
CloseServer(w) ==
  /\ Goto(w, "closing", "erase")
  /\ listening' = FALSE
  /\ connections_' = {}
  /\ UNCHANGED <<opQueue, stopped, connectionVars, next_connection_,
                 http_connections_, stopVars, clientVars, historyVars>>

(* Mutant: comms::server does not delete the connection. *)
EraseNothing(w) ==
  /\ Goto(w, "erase", frame[w].after)
  /\ UNCHANGED <<opQueue, stopped, connectionVars, serverVars, clientVars,
                 historyVars>>

(* comms::server::event_handler: the connection is deleted. *)
EraseConnection(w) ==
  /\ Goto(w, "erase", frame[w].after)
  /\ connections_' = connections_ \ {Mine(w)}
  /\ UNCHANGED <<opQueue, stopped, connectionVars, acceptVars,
                 http_connections_, stopVars, clientVars, historyVars>>

Event(w) ==
  \/ ReceivedUnknown(w)
  \/ Received(w)
  \/ Disconnected(w)
  \/ CloseServer(w)
  \/ EraseConnection(w)

-----------------------------------------------------------------------------
(* The signal handler of main: http_server.shutdown(), io_service.stop() *)

ReceiveSignal ==
  /\ ~ stopped /\ ~ signalled
  /\ signalled' = TRUE
  /\ Enqueue(Op("stop", NoConn, 0, "ok"))
  /\ UNCHANGED <<stopped, pc, connectionVars, acceptVars, setVars,
                 shutting_down_, walk, clientVars, historyVars>>

(* if (!shutting_down_ && !http_connections_.empty()) *)
BeginShutdown(w) ==
  /\ IF ~ shutting_down_ /\ http_connections_ # {}
     THEN /\ Goto(w, "stop", "walk")
          /\ shutting_down_' = TRUE
          /\ walk' = http_connections_
     ELSE /\ Goto(w, "stop", "clearAll")
          /\ UNCHANGED <<shutting_down_, walk>>
  /\ UNCHANGED <<opQueue, stopped, connectionVars, acceptVars, setVars,
                 signalled, clientVars, historyVars>>

(* What the loop finds when it moves on from the element it is at: when    *)
(* that element has been erased meanwhile, as an idle connection does      *)
(* itself, the iterator dangles and any of the others may be skipped.      *)
Ahead(w) ==
  {rest \cap http_connections_ :
     rest \in IF Mine(w) \in http_connections_ \cup {NoConn}
              THEN {walk} ELSE SUBSET walk}

(* elem.second->disconnect() *)
WalkOn(w) ==
  /\ Goto(w, "walk", "disconnect")
  /\ \E rest \in Ahead(w) : \E c \in rest :
       /\ walk' = rest \ {c}
       /\ frame' = [frame EXCEPT ![w].conn = c, ![w].after = "walk"]
  /\ UNCHANGED <<opQueue, stopped, strandVars, socket, rxVars, txVars,
                 acceptVars, setVars, shutting_down_, signalled, clientVars,
                 historyVars>>

WalkEnd(w) ==
  /\ {} \in Ahead(w)
  /\ Goto(w, "walk", "clear")
  /\ walk' = {}
  /\ UNCHANGED <<opQueue, stopped, connectionVars, acceptVars, setVars,
                 shutting_down_, signalled, clientVars, historyVars>>

(* http_connections_.clear() *)
DeleteAllHttp ==
  /\ http_connections_' = {}
  /\ raced' = [c \in Conns |-> raced[c] \/ c = next_connection_]

(* The end of shutdown(): the connections are deleted at once. *)
ClearHttp(w) ==
  /\ Goto(w, "clear", "stopIo")
  /\ DeleteAllHttp
  /\ UNCHANGED <<opQueue, stopped, connectionVars, acceptVars, connections_,
                 stopVars, clientVars, created, ended>>

(* Mutant: close() only closes the comms server. *)
CloseWithoutClear(w) ==
  /\ Goto(w, "clearAll", "closeAll")
  /\ UNCHANGED <<opQueue, stopped, connectionVars, serverVars, clientVars,
                 historyVars>>

(* close(): http_connections_.clear() *)
CloseHttp(w) ==
  /\ Goto(w, "clearAll", "closeAll")
  /\ DeleteAllHttp
  /\ UNCHANGED <<opQueue, stopped, connectionVars, acceptVars, connections_,
                 stopVars, clientVars, created, ended>>

(* server_->close() *)
CloseAll(w) ==
  /\ Goto(w, "closeAll", "stopIo")
  /\ listening' = FALSE
  /\ connections_' = {}
  /\ UNCHANGED <<opQueue, stopped, connectionVars, next_connection_,
                 http_connections_, stopVars, clientVars, historyVars>>

StopService(w) ==
  /\ EndHandler(w, "stopIo")
  /\ StopIo
  /\ UNCHANGED <<opQueue, strandVars, socket, rxVars, txVars, serverVars,
                 clientVars, historyVars>>

Stop(w) ==
  \/ BeginShutdown(w)
  \/ WalkOn(w)
  \/ WalkEnd(w)
  \/ ClearHttp(w)
  \/ CloseHttp(w)
  \/ CloseAll(w)
  \/ StopService(w)

-----------------------------------------------------------------------------

Callback(w) ==
  /\ ConnectionStep(w, Alive(Mine(w)))
  /\ UNCHANGED <<serverVars, clientVars, historyVars>>

Schedule(w) ==
  /\ RunHandler(w) \/ WaitForStrand(w) \/ CallbackReturns(w)
  /\ UNCHANGED <<serverVars, clientVars, historyVars>>

Leave(w) ==
  /\ LeaveRun(w)
  /\ UNCHANGED <<connectionVars, serverVars, clientVars, historyVars>>

Worker(w) ==
  \/ Schedule(w)
  \/ Callback(w)
  \/ StartWrite(w)
  \/ Accept(w)
  \/ Event(w)
  \/ Stop(w)
  \/ Leave(w)

(* Without a signal the server waits for clients, which may have gone. *)
Next ==
  \/ \E c \in Conns : Client(c) \/ Reactor(c)
  \/ ReceiveSignal
  \/ \E w \in Workers : Worker(w)

Spec == Init /\ [][Next]_vars

(* Threads are scheduled, and a socket that is ready is noticed.  Clients  *)
(* and signals do what they like.                                          *)
Fairness ==
  /\ \A c \in Conns : WF_vars(Reactor(c))
  /\ \A w \in Workers : WF_vars(Worker(w))

FairSpec == Spec /\ Fairness

-----------------------------------------------------------------------------
(* Properties *)

Kinds == {"read", "write", "accept", "stop"}
Results == {"ok", "eof", "reset", "pipe", "timedOut", "failed", "none"}
Ops == [kind : Kinds, conn : Conns \cup {NoConn}, packet : 0..MaxRequests,
        result : Results, locked : BOOLEAN]
Pcs == Kinds \cup HoldingPcs \cup AcceptPcs
       \cup {"run", "return", "returned", "walk", "clear", "clearAll",
             "closeAll", "stopIo"}
Frames == [conn : Conns \cup {NoConn}, packet : 0..MaxRequests,
           result : Results,
           http : BOOLEAN, reply : Replies \cup {"none"},
           after : {"return", "parse", "leave", "invalid", "walk"}]

(* Every variable of the server has a value of its type. *)
TypeOK ==
  /\ opQueue \in Seq(Ops) /\ stopped \in BOOLEAN /\ pc \in [Workers -> Pcs]
  /\ use_strand \in BOOLEAN /\ strand \in [Conns -> BOOLEAN]
  /\ waiting \in [Conns -> Seq(Ops)]
  /\ frame \in [Workers -> Frames]
  /\ socket \in [Conns -> {"none", "open", "shut"}]
  /\ receiving_ \in [Conns -> BOOLEAN]
  /\ reads \in [Conns -> Seq({1, 2})]
  /\ buffers \in [Conns -> [{1, 2} -> 0..MaxRequests]]
  /\ front \in [Conns -> {1, 2}]
  /\ transmitting_ \in [Conns -> BOOLEAN]
  /\ disconnect_pending_ \in [Conns -> BOOLEAN]
  /\ unsent \in [Conns -> SUBSET (1..MaxRequests)]
  /\ connections_ \subseteq Conns /\ http_connections_ \subseteq Conns
  /\ next_connection_ \in Conns \cup {NoConn}
  /\ listening \in BOOLEAN /\ shutting_down_ \in BOOLEAN
  /\ walk \subseteq Conns /\ signalled \in BOOLEAN
  /\ asked \in [Conns -> 0..MaxRequests]
  /\ answered \in [Conns -> SUBSET (1..MaxRequests)]
  /\ inbox \in [Conns -> 0..MaxRequests]
  /\ hungUp \in [Conns -> BOOLEAN]
  /\ broken \in [Conns -> {"no", "error", "read", "write"}]
  /\ created \in [Conns -> BOOLEAN] /\ ended \in [Conns -> BOOLEAN]
  /\ raced \in [Conns -> BOOLEAN]

(* A completed operation of connection c waits for a thread. *)
Pending(kind, c) ==
  \E op \in ToSet(opQueue) \cup ToSet(waiting[c]) :
    op.kind = kind /\ op.conn = c

(* A thread is at one of the control points for connection c. *)
Busy(labels, c) == \E w \in At(labels) : Mine(w) = c

(* The server still serves c: both classes have it, the socket is open and *)
(* the end of the stream has not been read.                                *)
Served(c) ==
  /\ c \in connections_ /\ c \in http_connections_
  /\ socket[c] = "open" /\ ~ ended[c]

(* A connection that is served always has a read in progress, or one whose *)
(* callback has still to start the next, unless a read was told that the   *)
(* connection is broken: whatever the threads that run its callbacks do,   *)
(* enable_reception, which is called twice for a packet, and writes that   *)
(* fail leave no other connection that will never hear from its client     *)
(* again (enable_reception, read_rx_buffer, signal_error).                 *)
NeverDeaf ==
  \A c \in Conns :
    Served(c) =>
      \/ broken[c] = "read"
      \/ reads[c] # << >>
      \/ Pending("read", c)
      \/ Busy({"read"} \cup ReceivePcs, c)

(* The http_connection of a connection that was registered before it was   *)
(* disconnected never outlives the comms connection: connection_.lock() is *)
(* dereferenced without a test in all of http_connection.                  *)
HttpHasConnection ==
  \A c \in Conns : HttpAlive(c) /\ ~ raced[c] => Alive(c)

(* No thread works for c and none will for what has happened so far. *)
Idle(c) ==
  /\ \A w \in Workers : Mine(w) # c
  /\ \A op \in ToSet(opQueue) \cup ToSet(waiting[c]) : op.conn # c

(* When its callbacks are done a connection that was registered before it  *)
(* was disconnected is in both sets or in none, and in none once the end   *)
(* of its stream was read: disconnected_handler and event_handler erase it *)
(* in two places.                                                          *)
AgreeAtRest ==
  \A c \in Conns :
    Idle(c) /\ ~ raced[c] /\ ~ shutting_down_ /\ At({"closeAll"}) = {} =>
      /\ c \in http_connections_ <=> c \in connections_
      /\ ended[c] => c \notin connections_

(* A write of c has been started and its callback has not reset the flag. *)
Writing(c) ==
  \/ unsent[c] # {}
  \/ Pending("write", c)
  \/ Busy({"write", "unmark", "mark", "shut"}, c)

(* transmitting_ is set only while a write is in progress (the comment of  *)
(* transmitting_, connection.hpp): a flag that stays set makes send_data   *)
(* refuse every later response without a word.                             *)
TransmittingMeansWriting ==
  \A c \in Conns :
    transmitting_[c] /\ Served(c) /\ ~ Lost(c) => Writing(c)

(* With a strand the callbacks of a connection exclude each other: the     *)
(* flag of the transmitter tells the truth, a disconnect that waits for    *)
(* the write has one to wait for, the parser reads the packet that was     *)
(* received and only one read is in progress.  The program's connections   *)
(* have no strand.                                                         *)
StrandProtects ==
  use_strand =>
    /\ TransmittingMeansWriting
    /\ \A c \in Conns :
         /\ Len(reads[c]) <= 1
         /\ disconnect_pending_[c] /\ Served(c) /\ ~ Lost(c)
            /\ ~ shutting_down_ => Writing(c)
    /\ \A w \in At({"parse"}) :
         buffers[Mine(w)][3 - front[Mine(w)]] = frame[w].packet

(* With a strand no request is left without an answer: when nothing is     *)
(* going on for a connection that is served, every request of its client   *)
(* was answered.  A request that came while the connection was being       *)
(* registered is ignored, strand or not.                                   *)
StrandAnswers ==
  use_strand =>
    \A c \in Conns :
      /\ Served(c) /\ Idle(c) /\ inbox[c] = 0 /\ unsent[c] = {}
      /\ ~ Lost(c) /\ ~ raced[c]
      => answered[c] = 1 .. asked[c]

(* A client that has closed is noticed, also in the middle of an answer,   *)
(* and so is a broken connection when a write was told of it, although     *)
(* that write only logs it: a connection that is served is deleted in the  *)
(* end, or the service stops (read_callback, signal_error).                *)
HangUpNoticed ==
  \A c \in Conns :
    (Served(c) /\ (hungUp[c] \/ broken[c] = "write"))
      ~> (c \notin connections_ \/ stopped)

=============================================================================
