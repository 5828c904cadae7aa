--------------------------- MODULE HttpConnection ---------------------------
(***************************************************************************)
(* The connections of the HTTP server: comms::connection                   *)
(* (src/include/via/comms/connection.hpp) on a TCP socket, with the        *)
(* http_connection (src/include/via/http_connection.hpp) that owns the     *)
(* receive and transmit buffers, run by the threads of the io_service.     *)
(*                                                                         *)
(* This module has the state of the connections and their operations: what *)
(* a read callback, a write callback, a send, a disconnect do to them, one *)
(* action per statement that touches shared state.  Events are control     *)
(* points that HttpServer gives their handlers: "received" for RECEIVED,   *)
(* "disconnected" for DISCONNECTED.                                        *)
(*                                                                         *)
(* A packet is one request and is represented by its number, 0 being the   *)
(* end of the stream.  A connection has two blocks of memory for packets,  *)
(* which rx_buffer_ of the two classes exchange: rx_buffer_ of             *)
(* comms::connection is block front, that of http_connection the other.    *)
(***************************************************************************)
EXTENDS IoContext

CONSTANTS
  Conns,            \* the connections
  NoConn,           \* a null pointer to a connection
  Strands           \* values of the template parameter use_strand to check

ASSUME NoConnAssumption == NoConn \notin Conns
ASSUME StrandAssumption == Strands \subseteq BOOLEAN

VARIABLES
  use_strand,           \* the template parameter: never changes
  strand,               \* strand[c]: the strand of c is held, or about to be
  waiting,              \* waiting[c]: operations that wait for the strand
  frame,                \* arguments and locals of the running handlers
  socket,               \* "none" before accept, "open", "shut" by shutdown()
  receiving_,           \* receiving_
  reads,                \* block of each async_read_some in progress
  buffers,              \* packet in each of the two blocks
  front,                \* the block of rx_buffer_
  transmitting_,        \* transmitting_
  disconnect_pending_,  \* disconnect_pending_
  unsent                \* requests whose response async_write is sending

strandVars == <<use_strand, strand, waiting>>
rxVars == <<receiving_, reads, buffers, front>>
txVars == <<transmitting_, disconnect_pending_, unsent>>
connectionVars == <<strandVars, frame, socket, rxVars, txVars>>

(* A completed operation: the packet of a read, and the result.  Of the    *)
(* errors, eof and reset are those of is_error_a_disconnect; pipe and      *)
(* timedOut are not.  locked: it has waited for the strand and now owns it. *)
Op(kind, c, packet, result) ==
  [kind |-> kind, conn |-> c, packet |-> packet, result |-> result,
   locked |-> FALSE]

(* conn is the locked weak pointer to the comms connection, http tells     *)
(* that receive_handler holds the http_connection, reply is what becomes   *)
(* of the connection after the response, after is where to go on when a    *)
(* call that is made from several places returns.                          *)
Frame(op) ==
  [conn |-> op.conn, packet |-> op.packet, result |-> op.result,
   http |-> FALSE, reply |-> "none", after |-> "return"]
NoFrame == Frame(Op("none", NoConn, 0, "none"))

ConnectionInit ==
  /\ use_strand \in Strands
  /\ strand = [c \in Conns |-> FALSE]
  /\ waiting = [c \in Conns |-> << >>]
  /\ frame = [w \in Workers |-> NoFrame]
  /\ socket = [c \in Conns |-> "none"]
  /\ receiving_ = [c \in Conns |-> FALSE]
  /\ reads = [c \in Conns |-> << >>]
  /\ buffers = [c \in Conns |-> [block \in {1, 2} |-> 0]]
  /\ front = [c \in Conns |-> 1]
  /\ transmitting_ = [c \in Conns |-> FALSE]
  /\ disconnect_pending_ = [c \in Conns |-> FALSE]
  /\ unsent = [c \in Conns |-> {}]

(* The connection that thread w works for. *)
Mine(w) == frame[w].conn

Set(f, c, value) == f' = [f EXCEPT ![c] = value]

-----------------------------------------------------------------------------
(* The strand, when use_strand is true: reads and writes are wrapped. *)

Wrapped(op) == use_strand /\ op.kind \in {"read", "write"} /\ ~ op.locked

(* A thread takes an operation and runs its handler, with the strand. *)
RunHandler(w) ==
  /\ Dequeue(w)
  /\ LET op == Head(opQueue) IN
     /\ Wrapped(op) => ~ strand[op.conn]
     /\ Set(frame, w, Frame(op))
     /\ strand' = IF Wrapped(op) THEN [strand EXCEPT ![op.conn] = TRUE]
                                 ELSE strand
  /\ UNCHANGED <<use_strand, waiting, socket, rxVars, txVars>>

(* The strand is held: the operation waits there, the thread goes on. *)
WaitForStrand(w) ==
  /\ pc[w] = "run" /\ ~ stopped /\ opQueue # << >>
  /\ LET op == Head(opQueue) IN
     /\ Wrapped(op) /\ strand[op.conn]
     /\ Set(waiting, op.conn, Append(waiting[op.conn], op))
  /\ opQueue' = Tail(opQueue)
  /\ UNCHANGED <<stopped, pc, use_strand, strand, frame, socket, rxVars,
                 txVars>>

(* A read or write callback returns.  The next operation that waits for    *)
(* the strand inherits it and is queued again.                             *)
CallbackReturns(w) ==
  /\ Goto(w, "return", "run")
  /\ Set(frame, w, NoFrame)
  /\ LET c == Mine(w) IN
     IF waiting[c] = << >>
     THEN /\ Set(strand, c, FALSE)
          /\ UNCHANGED <<waiting, opQueue>>
     ELSE /\ Set(waiting, c, Tail(waiting[c]))
          /\ Enqueue([Head(waiting[c]) EXCEPT !.locked = TRUE])
          /\ UNCHANGED strand
  /\ UNCHANGED <<stopped, use_strand, socket, rxVars, txVars>>

-----------------------------------------------------------------------------
(* Receiving *)

(* A read of the socket starts into rx_buffer_, which is resized. *)
StartRead(c) ==
  /\ Set(receiving_, c, TRUE)
  /\ Set(reads, c, Append(reads[c], front[c]))
  /\ buffers' = [buffers EXCEPT ![c][front[c]] = 0]
  /\ UNCHANGED front

(* Mutant: the flag of the read that has ended is not reset. *)
ReadDataStillReceiving(w, alive) ==
  /\ alive /\ frame[w].packet # 0
  /\ Goto(w, "read", "received")
  /\ UNCHANGED <<opQueue, stopped, strandVars, frame, socket, rxVars, txVars>>

(* read_callback: the connection has gone. *)
ReadExpired(w, alive) ==
  /\ ~ alive
  /\ Goto(w, "read", "return")
  /\ UNCHANGED <<opQueue, stopped, connectionVars>>

(* read_callback, read_handler: receiving_ = false, then RECEIVED *)
ReadData(w, alive) ==
  /\ alive /\ frame[w].packet # 0
  /\ Goto(w, "read", "received")
  /\ Set(receiving_, Mine(w), FALSE)
  /\ UNCHANGED <<opQueue, stopped, strandVars, frame, socket, reads, buffers,
                 front, txVars>>

(* Mutant: the end of the stream is logged like another error. *)
ReadEndLogged(w, alive) ==
  /\ alive /\ frame[w].packet = 0 /\ frame[w].result # "timedOut"
  /\ Goto(w, "read", "return")
  /\ UNCHANGED <<opQueue, stopped, connectionVars>>

(* read_callback with an error, signal_error: the peer has closed,         *)
(* DISCONNECTED                                                            *)
ReadEnd(w, alive) ==
  /\ alive /\ frame[w].packet = 0 /\ frame[w].result # "timedOut"
  /\ Goto(w, "read", "disconnected")
  /\ UNCHANGED <<opQueue, stopped, connectionVars>>

(* signal_error with an error that is no disconnect: error_callback_ logs  *)
(* it.  receiving_ stays set and no other read is started.                 *)
ReadError(w, alive) ==
  /\ alive /\ frame[w].packet = 0 /\ frame[w].result = "timedOut"
  /\ Goto(w, "read", "return")
  /\ UNCHANGED <<opQueue, stopped, connectionVars>>

(* Mutant: the parser works on the buffer that is being received into. *)
KeepBuffers(w) ==
  /\ Goto(w, "swap", "enable")
  /\ frame' = [frame EXCEPT ![w].after = "parse"]
  /\ UNCHANGED <<opQueue, stopped, strandVars, socket, rxVars, txVars>>

(* Mutant: each packet gets a buffer of its own. *)
NewBuffer(w) ==
  /\ Goto(w, "swap", "enable")
  /\ Set(front, Mine(w), front[Mine(w)] + 1)
  /\ frame' = [frame EXCEPT ![w].after = "parse"]
  /\ UNCHANGED <<opQueue, stopped, strandVars, socket, receiving_, reads,
                 buffers, txVars>>

(* http_connection::read_rx_buffer: the two buffers are swapped, then      *)
(* enable_reception is called.                                             *)
SwapBuffers(w) ==
  /\ Goto(w, "swap", "enable")
  /\ Set(front, Mine(w), 3 - front[Mine(w)])
  /\ frame' = [frame EXCEPT ![w].after = "parse"]
  /\ UNCHANGED <<opQueue, stopped, strandVars, socket, receiving_, reads,
                 buffers, txVars>>

(* enable_reception: if (!receiving_) *)
TestReceiving(w) ==
  /\ Goto(w, "enable",
          IF receiving_[Mine(w)] THEN frame[w].after ELSE "arm")
  /\ UNCHANGED <<opQueue, stopped, connectionVars>>

(* receiving_ = true; rx_buffer_->resize(); read_data() *)
ArmRead(w) ==
  /\ Goto(w, "arm", frame[w].after)
  /\ StartRead(Mine(w))
  /\ UNCHANGED <<opQueue, stopped, strandVars, frame, socket, txVars>>

-----------------------------------------------------------------------------
(* Sending: http_connection::send *)

(* What becomes of the connection after the response: shutdown() unless    *)
(* the request allows it to be kept, then disconnect() in invalid_request  *)
(* for one that is not valid.                                              *)
Replies == {"keep", "close", "invalid", "invalidClose"}
AfterSend(reply) ==
  CASE reply = "keep" -> "leave"
    [] reply = "invalid" -> "disconnect"
    [] OTHER -> "shut"

(* The request handler parses the packet and answers.  send_data: while a  *)
(* write is in progress nothing is sent, and its result is not looked at.  *)
Respond(w) ==
  \E reply \in Replies :
    /\ Goto(w, "parse", IF transmitting_[Mine(w)] THEN AfterSend(reply)
                                                 ELSE "start")
    /\ frame' = [frame EXCEPT ![w].reply = reply,
           ![w].after = IF reply = "invalidClose" THEN "invalid" ELSE "leave"]
    /\ UNCHANGED <<opQueue, stopped, strandVars, socket, rxVars, txVars>>

(* invalid_request disconnects a connection that send() has shut down. *)
DisconnectInvalid(w) ==
  /\ Goto(w, "invalid", "disconnect")
  /\ frame' = [frame EXCEPT ![w].after = "leave"]
  /\ UNCHANGED <<opQueue, stopped, strandVars, socket, rxVars, txVars>>

(* transmitting_ = write_data(...): the assignment follows the start of    *)
(* the write.                                                              *)
MarkTransmitting(w) ==
  /\ Goto(w, "mark", AfterSend(frame[w].reply))
  /\ Set(transmitting_, Mine(w), TRUE)
  /\ UNCHANGED <<opQueue, stopped, strandVars, frame, socket, rxVars,
                 disconnect_pending_, unsent>>

(* receive_handler returns: it lets go of the http_connection, and         *)
(* read_handler calls enable_reception.                                    *)
LeaveReceive(w) ==
  /\ Goto(w, "leave", "enable")
  /\ frame' = [frame EXCEPT ![w].http = FALSE, ![w].after = "return"]
  /\ UNCHANGED <<opQueue, stopped, strandVars, socket, rxVars, txVars>>

-----------------------------------------------------------------------------
(* The end of a write, and of the connection *)

(* write_callback: the connection has gone. *)
WriteExpired(w, alive) ==
  /\ ~ alive
  /\ Goto(w, "write", "return")
  /\ UNCHANGED <<opQueue, stopped, connectionVars>>

(* write_callback: if (disconnect_pending_) *)
WriteDone(w, alive) ==
  /\ alive /\ frame[w].result = "ok"
  /\ Goto(w, "write",
          IF disconnect_pending_[Mine(w)] THEN "shut" ELSE "unmark")
  /\ UNCHANGED <<opQueue, stopped, connectionVars>>

(* signal_error: only the errors of is_error_a_disconnect disconnect; a    *)
(* broken pipe and a timeout are none of them and are logged.              *)
WriteFailed(w, alive) ==
  /\ alive /\ frame[w].result # "ok"
  /\ Goto(w, "write",
          IF frame[w].result = "reset" THEN "disconnected" ELSE "return")
  /\ UNCHANGED <<opQueue, stopped, connectionVars>>

(* Mutant: the flag stays set. *)
UnmarkNothing(w) ==
  /\ Goto(w, "unmark", "return")
  /\ UNCHANGED <<opQueue, stopped, connectionVars>>

(* write_handler: transmitting_ = false, then SENT, which is only logged. *)
UnmarkTransmitting(w) ==
  /\ Goto(w, "unmark", "return")
  /\ Set(transmitting_, Mine(w), FALSE)
  /\ UNCHANGED <<opQueue, stopped, strandVars, frame, socket, rxVars,
                 disconnect_pending_, unsent>>

(* disconnect: shut the socket down now, or after the write. *)
Disconnect(w) ==
  /\ Goto(w, "disconnect", IF transmitting_[Mine(w)] THEN "pend" ELSE "shut")
  /\ UNCHANGED <<opQueue, stopped, connectionVars>>

(* disconnect_pending_ = true *)
PendDisconnect(w) ==
  /\ Goto(w, "pend", frame[w].after)
  /\ Set(disconnect_pending_, Mine(w), TRUE)
  /\ UNCHANGED <<opQueue, stopped, strandVars, frame, socket, rxVars,
                 transmitting_, unsent>>

(* shutdown: both directions of the socket, then write_callback with the   *)
(* end of the stream, at once: DISCONNECTED.                               *)
ShutSocket(w) ==
  /\ Goto(w, "shut", "disconnected")
  /\ Set(socket, Mine(w), "shut")
  /\ UNCHANGED <<opQueue, stopped, strandVars, frame, rxVars, txVars>>

(* What a thread does with a connection, apart from starting a write,      *)
(* which the socket decides, and from the events.                          *)
ConnectionStep(w, alive) ==
  \/ ReadExpired(w, alive)
  \/ ReadData(w, alive)
  \/ ReadEnd(w, alive)
  \/ ReadError(w, alive)
  \/ SwapBuffers(w)
  \/ TestReceiving(w)
  \/ ArmRead(w)
  \/ Respond(w)
  \/ DisconnectInvalid(w)
  \/ MarkTransmitting(w)
  \/ LeaveReceive(w)
  \/ WriteExpired(w, alive)
  \/ WriteDone(w, alive)
  \/ WriteFailed(w, alive)
  \/ UnmarkTransmitting(w)
  \/ Disconnect(w)
  \/ PendDisconnect(w)
  \/ ShutSocket(w)

=============================================================================
