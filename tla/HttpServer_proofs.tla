------------------------ MODULE HttpServer_proofs ------------------------
(***************************************************************************)
(* The types of HttpServer, its two sets of connections, the lifetimes of  *)
(* the two objects of a connection and the reads of a connection, for any  *)
(* number of threads and connections, with and without a strand.           *)
(***************************************************************************)
EXTENDS HttpServer, SequenceTheorems, FiniteSetTheorems, TLAPS

(* The control points of a handler that works for a connection, of one     *)
(* that ends a connection, and of one that has not yet answered a packet.  *)
Work == {"read", "write", "return"} \cup ReceivePcs \cup EndPcs
Ending == {"shut", "disconnected", "closing", "erase"}
Early == {"received", "swap", "parse", "start"}

(* Where a handler can be, by where it goes on after the call it is in.    *)
ControlInv(label, after) ==
  /\ after = "parse" => label \in {"enable", "arm", "parse"}
  /\ after = "leave" =>
       label \in {"start", "mark", "leave", "disconnect", "pend"} \cup Ending
  /\ after = "invalid" => label \in {"start", "mark", "invalid"} \cup Ending
  /\ after = "walk" =>
       label \in {"disconnect", "pend", "walk", "clear", "stopIo"} \cup Ending
  /\ after = "return" =>
       label \notin {"parse", "start", "mark", "invalid", "leave",
                     "disconnect", "pend"}

(* A handler that works for a connection has one; a thread in the run loop *)
(* has no arguments; a packet that is being handled is not the end of the  *)
(* stream, and its http_connection is held.                                *)
FrameInv(w) ==
  /\ pc[w] \in Work \cup AcceptPcs => Mine(w) \in Conns
  /\ pc[w] \in {"run", "returned"} => frame[w] = NoFrame
  /\ ControlInv(pc[w], frame[w].after)
  /\ pc[w] \in Early \/ frame[w].after = "parse" => frame[w].packet # 0
  /\ pc[w] \in Early \ {"received"} \/ frame[w].after = "parse" =>
       frame[w].http
  /\ pc[w] \in {"start", "mark"} =>
       /\ frame[w].reply \in Replies
       /\ frame[w].after = "invalid" <=> frame[w].reply = "invalidClose"

QueuedOps ==
  {op \in Ops : /\ op.kind # "stop" => op.conn \in Conns
                /\ op.locked => op.kind \in {"read", "write"}}
WaitingOps(c) ==
  {op \in Ops : op.conn = c /\ op.kind \in {"read", "write"} /\ ~ op.locked}

(* The types of TypeOK in four parts. *)
ThreadTypes ==
  /\ opQueue \in Seq(QueuedOps) /\ stopped \in BOOLEAN
  /\ pc \in [Workers -> Pcs] /\ frame \in [Workers -> Frames]
StrandTypes ==
  /\ use_strand \in BOOLEAN /\ strand \in [Conns -> BOOLEAN]
  /\ waiting \in [Conns -> Seq(Ops)]
  /\ \A c \in Conns : waiting[c] \in Seq(WaitingOps(c))
SocketTypes ==
  /\ socket \in [Conns -> {"none", "open", "shut"}]
  /\ receiving_ \in [Conns -> BOOLEAN]
  /\ reads \in [Conns -> Seq({1, 2})]
  /\ buffers \in [Conns -> [{1, 2} -> 0..MaxRequests]]
  /\ front \in [Conns -> {1, 2}]
  /\ transmitting_ \in [Conns -> BOOLEAN]
  /\ disconnect_pending_ \in [Conns -> BOOLEAN]
  /\ unsent \in [Conns -> SUBSET (1..MaxRequests)]
ServerTypes ==
  /\ connections_ \subseteq Conns /\ http_connections_ \subseteq Conns
  /\ next_connection_ \in Conns \cup {NoConn}
  /\ listening \in BOOLEAN /\ shutting_down_ \in BOOLEAN
  /\ walk \subseteq Conns /\ signalled \in BOOLEAN
ClientTypes ==
  /\ asked \in [Conns -> 0..MaxRequests]
  /\ answered \in [Conns -> SUBSET (1..MaxRequests)]
  /\ inbox \in [Conns -> 0..MaxRequests]
  /\ \A c \in Conns : inbox[c] <= asked[c]
  /\ hungUp \in [Conns -> BOOLEAN]
  /\ broken \in [Conns -> {"no", "error", "read", "write"}]
  /\ created \in [Conns -> BOOLEAN] /\ ended \in [Conns -> BOOLEAN]
  /\ raced \in [Conns -> BOOLEAN]

Typed ==
  /\ ThreadTypes /\ StrandTypes /\ SocketTypes /\ ServerTypes /\ ClientTypes
  /\ \A w \in Workers : FrameInv(w)

USE NoConnAssumption, ClientAssumption
    DEF Goto, Set, Mine, At, vars, connectionVars, strandVars, rxVars, txVars,
        serverVars, acceptVars, setVars, stopVars, clientVars, historyVars,
        Kinds, Results, Pcs, ReceivePcs, EndPcs, AcceptPcs, HoldingPcs,
        Work, Ending, Early

-----------------------------------------------------------------------------
(* Sequences *)

LEMMA HeadTail ==
  ASSUME NEW S, NEW s \in Seq(S), s # << >>
  PROVE  /\ Head(s) \in S /\ Head(s) = s[1] /\ Tail(s) \in Seq(S)
         /\ Len(s) \in Nat \ {0} /\ Len(Tail(s)) = Len(s) - 1
         /\ \A i \in 1 .. Len(s) - 1 : Tail(s)[i] = s[i + 1]
BY HeadTailProperties, EmptySeq

LEMMA Appended ==
  ASSUME NEW S, NEW s \in Seq(S), NEW e \in S
  PROVE  /\ Append(s, e) \in Seq(S) /\ Append(s, e) # << >>
         /\ Len(s) \in Nat /\ Len(Append(s, e)) = Len(s) + 1
         /\ \A i \in 1 .. Len(s) : Append(s, e)[i] = s[i]
         /\ Append(s, e)[Len(s) + 1] = e
BY AppendProperties, LenProperties

LEMMA OpsTyped ==
  ASSUME NEW c \in Conns
  PROVE  WaitingOps(c) \subseteq QueuedOps /\ QueuedOps \subseteq Ops
BY DEF WaitingOps, QueuedOps

-----------------------------------------------------------------------------
(* Types *)

LEMMA OpTyped ==
  ASSUME NEW kind \in Kinds, NEW c \in Conns, NEW packet \in 0 .. MaxRequests,
         NEW result \in Results
  PROVE  Op(kind, c, packet, result) \in QueuedOps
BY DEF Op, QueuedOps, Ops

LEMMA FrameTyped ==
  ASSUME NEW op \in Ops
  PROVE  Frame(op) \in Frames
BY DEF Frame, NoFrame, Op, Ops, Frames, Kinds

LEMMA NoFrameTyped == NoFrame \in Frames
BY DEF NoFrame, Frame, Op, Frames

LEMMA TypedIsTypeOK == Typed => TypeOK
<1> SUFFICES ASSUME Typed PROVE TypeOK
  OBVIOUS
<1>1. opQueue \in Seq(Ops)
  BY SeqMonotonic DEF Typed, ThreadTypes, QueuedOps
<1>2. QED
  BY <1>1 DEF Typed, ThreadTypes, StrandTypes, SocketTypes, ServerTypes,
     ClientTypes, TypeOK

LEMMA TypedInit == Init => Typed
<1> SUFFICES ASSUME Init PROVE Typed
  OBVIOUS
<1>1. ThreadTypes
  BY EmptySeq, NoFrameTyped DEF Init, IoInit, ConnectionInit, ThreadTypes, Pcs
<1>2. StrandTypes
  BY EmptySeq, StrandAssumption DEF Init, ConnectionInit, StrandTypes
<1>3. SocketTypes
  BY EmptySeq DEF Init, ConnectionInit, SocketTypes
<1>4. ServerTypes
  BY DEF Init, ServerTypes
<1>7. ClientTypes
  BY DEF Init, ClientTypes
<1>5. \A w \in Workers : FrameInv(w)
  BY DEF Init, IoInit, ConnectionInit, FrameInv, ControlInv, Work, ReceivePcs,
         EndPcs, AcceptPcs, Ending, Early, NoFrame, Frame, Op
<1>6. QED
  BY <1>1, <1>2, <1>3, <1>4, <1>5, <1>7 DEF Typed

(* A handler that has ended leaves its thread in the run loop. *)
LEMMA RunFrame ==
  ASSUME pc \in [Workers -> Pcs], frame \in [Workers -> Frames],
         NEW w \in Workers, pc' = [pc EXCEPT ![w] = "run"],
         frame' = [frame EXCEPT ![w] = NoFrame]
  PROVE  /\ pc' \in [Workers -> Pcs] /\ frame' \in [Workers -> Frames]
         /\ FrameInv(w)'
<1>1. frame' \in [Workers -> Frames]
  BY NoFrameTyped
<1>2. QED
  BY <1>1 DEF FrameInv, ControlInv, NoFrame, Frame, Op

(* Only the thread that takes a step changes its control point and frame.  *)
LEMMA OthersKeep ==
  ASSUME Typed, NEW w \in Workers, Worker(w), NEW v \in Workers, v # w
  PROVE  pc'[v] = pc[v] /\ frame'[v] = frame[v]
<1>1. pc \in [Workers -> Pcs] /\ frame \in [Workers -> Frames]
  BY DEF Typed, ThreadTypes
<1>2. CASE Schedule(w)
  BY <1>1, <1>2 DEF Schedule, RunHandler, Dequeue, WaitForStrand,
     CallbackReturns
<1>3. CASE Callback(w)
  BY <1>1, <1>3 DEF Callback, ConnectionStep, ReadExpired, ReadData, ReadEnd,
     ReadError, SwapBuffers, TestReceiving, ArmRead, Respond,
     DisconnectInvalid, MarkTransmitting, LeaveReceive, WriteExpired,
     WriteDone, WriteFailed, UnmarkTransmitting, Disconnect, PendDisconnect,
     ShutSocket
<1>4. CASE StartWrite(w)
  BY <1>1, <1>4 DEF StartWrite, WriteWhole, WritePart, WriteNothing, EndWrite
<1>5. CASE Accept(w)
  BY <1>1, <1>5 DEF Accept, AcceptClosed, AcceptFailed, AcceptStart,
     RegisterHttp, RegisterComms, EndHandler
<1>6. CASE Event(w)
  BY <1>1, <1>6 DEF Event, ReceivedUnknown, Received, Disconnected,
     CloseServer, EraseConnection
<1>7. CASE Stop(w)
  BY <1>1, <1>7 DEF Stop, BeginShutdown, WalkOn, WalkEnd, ClearHttp,
     CloseHttp, CloseAll, StopService, EndHandler
<1>8. CASE Leave(w)
  BY <1>1, <1>8 DEF Leave, LeaveRun
<1>9. QED
  BY <1>2, <1>3, <1>4, <1>5, <1>6, <1>7, <1>8 DEF Worker

(* A callback leaves queues, sets and clients alone. *)
LEMMA CallbackKeeps ==
  ASSUME NEW w \in Workers, Callback(w)
  PROVE  UNCHANGED <<opQueue, stopped, strandVars, serverVars, clientVars,
                     historyVars>>
BY DEF Callback, ConnectionStep, ReadExpired, ReadData, ReadEnd, ReadError,
   SwapBuffers, TestReceiving, ArmRead, StartRead, Respond, DisconnectInvalid,
   MarkTransmitting, LeaveReceive, WriteExpired, WriteDone, WriteFailed,
   UnmarkTransmitting, Disconnect, PendDisconnect, ShutSocket

LEMMA CallbackTyped ==
  ASSUME Typed, NEW w \in Workers, Callback(w)
  PROVE  ThreadTypes' /\ SocketTypes' /\ FrameInv(w)'
<1>1. /\ pc \in [Workers -> Pcs] /\ frame \in [Workers -> Frames]
      /\ FrameInv(w)
  BY DEF Typed, ThreadTypes
<1> USE DEF FrameInv, ControlInv, Frames
<1>2. /\ pc' \in [Workers -> Pcs] /\ frame' \in [Workers -> Frames]
      /\ FrameInv(w)'
  <2>1. CASE ReadExpired(w, Alive(Mine(w)))
    BY <1>1, <2>1 DEF ReadExpired
  <2>2. CASE ReadData(w, Alive(Mine(w)))
    BY <1>1, <2>2 DEF ReadData
  <2>3. CASE \/ ReadEnd(w, Alive(Mine(w)))
             \/ ReadError(w, Alive(Mine(w)))
    BY <1>1, <2>3 DEF ReadEnd, ReadError
  <2>4. CASE SwapBuffers(w)
    BY <1>1, <2>4 DEF SwapBuffers
  <2>5. CASE TestReceiving(w)
    BY <1>1, <2>5 DEF TestReceiving
  <2>6. CASE ArmRead(w)
    BY <1>1, <2>6 DEF ArmRead
  <2>7. CASE Respond(w)
    BY <1>1, <2>7 DEF Respond, Replies, AfterSend
  <2>8. CASE DisconnectInvalid(w)
    BY <1>1, <2>8 DEF DisconnectInvalid
  <2>9. CASE MarkTransmitting(w)
    BY <1>1, <2>9 DEF MarkTransmitting, AfterSend, Replies
  <2>10. CASE LeaveReceive(w)
    BY <1>1, <2>10 DEF LeaveReceive
  <2>11. CASE WriteExpired(w, Alive(Mine(w)))
    BY <1>1, <2>11 DEF WriteExpired
  <2>12. CASE WriteDone(w, Alive(Mine(w)))
    BY <1>1, <2>12 DEF WriteDone
  <2>13. CASE WriteFailed(w, Alive(Mine(w)))
    BY <1>1, <2>13 DEF WriteFailed
  <2>14. CASE UnmarkTransmitting(w)
    BY <1>1, <2>14 DEF UnmarkTransmitting
  <2>15. CASE Disconnect(w)
    BY <1>1, <2>15 DEF Disconnect
  <2>16. CASE PendDisconnect(w)
    BY <1>1, <2>16 DEF PendDisconnect
  <2>17. CASE ShutSocket(w)
    BY <1>1, <2>17 DEF ShutSocket
  <2>18. QED
    BY <2>1, <2>2, <2>3, <2>4, <2>5, <2>6, <2>7, <2>8, <2>9, <2>10, <2>11,
       <2>12, <2>13, <2>14, <2>15, <2>16, <2>17 DEF Callback, ConnectionStep
<1>3. ThreadTypes'
  BY <1>2, CallbackKeeps DEF Typed, ThreadTypes
<1>4. SocketTypes'
  <2>1. CASE ReadExpired(w, Alive(Mine(w)))
    BY <1>1, <2>1 DEF ReadExpired, Typed, SocketTypes
  <2>2. CASE ReadData(w, Alive(Mine(w)))
    BY <1>1, <2>2 DEF ReadData, Typed, SocketTypes
  <2>3. CASE \/ ReadEnd(w, Alive(Mine(w)))
             \/ ReadError(w, Alive(Mine(w)))
    BY <1>1, <2>3 DEF ReadEnd, ReadError, Typed, SocketTypes
  <2>4. CASE SwapBuffers(w)
    <3>1. Mine(w) \in Conns
      BY <1>1, <2>4 DEF SwapBuffers
    <3>2. front \in [Conns -> {1, 2}]
      BY DEF Typed, SocketTypes
    <3>3. front[Mine(w)] \in {1, 2}
      BY <3>1, <3>2
    <3>4. 3 - front[Mine(w)] \in {1, 2}
      BY <3>3
    <3>5. front' \in [Conns -> {1, 2}]
      BY <2>4, <3>1, <3>2, <3>4 DEF SwapBuffers
    <3>6. QED
      BY <2>4, <3>5 DEF SwapBuffers, Typed, SocketTypes
  <2>5. CASE TestReceiving(w)
    BY <1>1, <2>5 DEF TestReceiving, Typed, SocketTypes
  <2>6. CASE ArmRead(w)
    BY <1>1, <2>6, Appended DEF ArmRead, Typed, SocketTypes, StartRead
  <2>7. CASE Respond(w)
    BY <1>1, <2>7 DEF Respond, Typed, SocketTypes
  <2>8. CASE DisconnectInvalid(w)
    BY <1>1, <2>8 DEF DisconnectInvalid, Typed, SocketTypes
  <2>9. CASE MarkTransmitting(w)
    BY <1>1, <2>9 DEF MarkTransmitting, Typed, SocketTypes
  <2>10. CASE LeaveReceive(w)
    BY <1>1, <2>10 DEF LeaveReceive, Typed, SocketTypes
  <2>11. CASE WriteExpired(w, Alive(Mine(w)))
    BY <1>1, <2>11 DEF WriteExpired, Typed, SocketTypes
  <2>12. CASE WriteDone(w, Alive(Mine(w)))
    BY <1>1, <2>12 DEF WriteDone, Typed, SocketTypes
  <2>13. CASE WriteFailed(w, Alive(Mine(w)))
    BY <1>1, <2>13 DEF WriteFailed, Typed, SocketTypes
  <2>14. CASE UnmarkTransmitting(w)
    BY <1>1, <2>14 DEF UnmarkTransmitting, Typed, SocketTypes
  <2>15. CASE Disconnect(w)
    BY <1>1, <2>15 DEF Disconnect, Typed, SocketTypes
  <2>16. CASE PendDisconnect(w)
    BY <1>1, <2>16 DEF PendDisconnect, Typed, SocketTypes
  <2>17. CASE ShutSocket(w)
    BY <1>1, <2>17 DEF ShutSocket, Typed, SocketTypes
  <2>18. QED
    BY <2>1, <2>2, <2>3, <2>4, <2>5, <2>6, <2>7, <2>8, <2>9, <2>10, <2>11,
       <2>12, <2>13, <2>14, <2>15, <2>16, <2>17 DEF Callback, ConnectionStep
<1>5. QED
  BY <1>2, <1>3, <1>4

LEMMA WriteTyped ==
  ASSUME Typed, NEW w \in Workers, StartWrite(w)
  PROVE  /\ ThreadTypes' /\ SocketTypes' /\ StrandTypes' /\ ServerTypes'
         /\ ClientTypes' /\ FrameInv(w)'
<1>1. /\ pc \in [Workers -> Pcs] /\ frame \in [Workers -> Frames]
      /\ FrameInv(w) /\ pc[w] = "start" /\ opQueue \in Seq(QueuedOps)
  BY DEF Typed, ThreadTypes, StartWrite, WriteWhole, WritePart, WriteNothing,
     EndWrite
<1>2. Mine(w) \in Conns /\ frame[w].packet \in 1 .. MaxRequests
  BY <1>1 DEF FrameInv, Frames
<1>3. /\ pc' \in [Workers -> Pcs] /\ frame' = frame /\ FrameInv(w)'
  BY <1>1 DEF FrameInv, ControlInv, StartWrite, WriteWhole, WritePart,
     WriteNothing, EndWrite
<1>4. opQueue' \in Seq(QueuedOps)
  <2>1. \A result \in {"ok", "reset", "pipe", "timedOut"} :
          Op("write", Mine(w), 0, result) \in QueuedOps
    BY <1>2, OpTyped
  <2>2. \A result \in {"ok", "reset", "pipe", "timedOut"} :
          Append(opQueue, Op("write", Mine(w), 0, result)) \in Seq(QueuedOps)
    BY <1>1, <2>1, Appended
  <2>3. \/ opQueue' = opQueue
        \/ \E result \in {"ok", "reset", "pipe", "timedOut"} :
             opQueue' = Append(opQueue, Op("write", Mine(w), 0, result))
    BY DEF StartWrite, WriteWhole, WritePart, WriteNothing, EndWrite, Enqueue
  <2>4. QED
    BY <1>1, <2>2, <2>3
<1>5. ThreadTypes'
  BY <1>1, <1>3, <1>4 DEF ThreadTypes, Typed, StartWrite, WriteWhole,
     WritePart, WriteNothing, EndWrite
<1>6. SocketTypes'
  <2>1. unsent \in [Conns -> SUBSET (1 .. MaxRequests)]
    BY DEF Typed, SocketTypes
  <2>2. unsent[Mine(w)] \cup {frame[w].packet} \subseteq 1 .. MaxRequests
    BY <1>2, <2>1
  <2>3. unsent' \in [Conns -> SUBSET (1 .. MaxRequests)]
    BY <2>1, <2>2 DEF StartWrite, WriteWhole, WritePart, WriteNothing,
       EndWrite
  <2>4. QED
    BY <2>3 DEF Typed, SocketTypes, StartWrite, WriteWhole, WritePart,
       WriteNothing, EndWrite
<1>7. StrandTypes' /\ ServerTypes'
  BY DEF Typed, StrandTypes, ServerTypes, StartWrite, WriteWhole, WritePart,
     WriteNothing, EndWrite
<1>8. ClientTypes'
  <2>1. answered \in [Conns -> SUBSET (1 .. MaxRequests)]
    BY DEF Typed, ClientTypes
  <2>2. answered[Mine(w)] \cup {frame[w].packet} \subseteq 1 .. MaxRequests
    BY <1>2, <2>1
  <2>3. answered' \in [Conns -> SUBSET (1 .. MaxRequests)]
    BY <2>1, <2>2 DEF StartWrite, WriteWhole, WritePart, WriteNothing,
       EndWrite
  <2>4. QED
    BY <2>3 DEF Typed, ClientTypes, StartWrite, WriteWhole, WritePart,
       WriteNothing, EndWrite
<1>9. QED
  BY <1>3, <1>5, <1>6, <1>7, <1>8

LEMMA AcceptTyped ==
  ASSUME Typed, NEW w \in Workers, Accept(w)
  PROVE  /\ ThreadTypes' /\ SocketTypes' /\ StrandTypes' /\ ServerTypes'
         /\ ClientTypes' /\ FrameInv(w)'
<1>1. /\ pc \in [Workers -> Pcs] /\ frame \in [Workers -> Frames]
      /\ FrameInv(w) /\ pc[w] \in AcceptPcs
  BY DEF Typed, ThreadTypes, Accept, AcceptClosed, AcceptFailed, AcceptStart,
     RegisterHttp, RegisterComms, EndHandler
<1>2. Mine(w) \in Conns
  BY <1>1 DEF FrameInv
<1>3. /\ pc' \in [Workers -> Pcs] /\ frame' \in [Workers -> Frames]
      /\ FrameInv(w)'
  <2>1. CASE AcceptClosed(w) \/ AcceptFailed(w) \/ RegisterComms(w)
    BY <1>1, <2>1, RunFrame DEF AcceptClosed, AcceptFailed, RegisterComms,
       EndHandler
  <2>2. CASE AcceptStart(w) \/ RegisterHttp(w)
    BY <1>1, <2>2 DEF FrameInv, ControlInv, AcceptStart, RegisterHttp
  <2>3. QED
    BY <2>1, <2>2 DEF Accept
<1>4. ThreadTypes'
  BY <1>3 DEF Typed, ThreadTypes, Accept, AcceptClosed, AcceptFailed,
     AcceptStart, RegisterHttp, RegisterComms
<1>5. SocketTypes'
  <2>1. CASE AcceptStart(w)
    BY <1>2, <2>1, Appended DEF Typed, SocketTypes, AcceptStart, StartRead
  <2>2. CASE ~ AcceptStart(w)
    BY <2>2 DEF Typed, SocketTypes, Accept, AcceptClosed, AcceptFailed,
       RegisterHttp, RegisterComms
  <2>3. QED
    BY <2>1, <2>2
<1>6. StrandTypes' /\ ServerTypes' /\ ClientTypes'
  BY <1>2 DEF Typed, StrandTypes, ServerTypes, ClientTypes, Accept,
     AcceptClosed, AcceptFailed, AcceptStart, RegisterHttp, RegisterComms
<1>7. QED
  BY <1>3, <1>4, <1>5, <1>6

LEMMA EventTyped ==
  ASSUME Typed, NEW w \in Workers, Event(w)
  PROVE  /\ ThreadTypes' /\ SocketTypes' /\ StrandTypes' /\ ServerTypes'
         /\ ClientTypes' /\ FrameInv(w)'
<1>1. /\ pc \in [Workers -> Pcs] /\ frame \in [Workers -> Frames]
      /\ FrameInv(w) /\ pc[w] \in Work
  BY DEF Typed, ThreadTypes, Event, ReceivedUnknown, Received, Disconnected,
     CloseServer, EraseConnection
<1>2. Mine(w) \in Conns
  BY <1>1 DEF FrameInv
<1>3. /\ pc' \in [Workers -> Pcs] /\ frame' \in [Workers -> Frames]
      /\ FrameInv(w)'
  <2>1. CASE ReceivedUnknown(w)
    BY <1>1, <2>1 DEF FrameInv, ControlInv, ReceivedUnknown
  <2>2. CASE Received(w)
    <3>1. /\ pc[w] = "received" /\ pc' = [pc EXCEPT ![w] = "swap"]
          /\ frame' = [frame EXCEPT ![w].http = TRUE]
      BY <2>2 DEF Received
    <3>2. /\ frame' \in [Workers -> Frames]
          /\ frame'[w].conn = frame[w].conn
          /\ frame'[w].packet = frame[w].packet
          /\ frame'[w].after = frame[w].after /\ frame'[w].http
      <4>1. frame[w] \in Frames
        BY <1>1
      <4> DEFINE new == [frame[w] EXCEPT !.http = TRUE]
      <4>2. /\ new \in Frames /\ new.conn = frame[w].conn
            /\ new.packet = frame[w].packet /\ new.after = frame[w].after
            /\ new.http
        BY <4>1 DEF Frames
      <4>3. frame' = [frame EXCEPT ![w] = new]
        BY <3>1
      <4> HIDE DEF new
      <4>4. frame' \in [Workers -> Frames] /\ frame'[w] = new
        BY <1>1, <4>2, <4>3
      <4>5. QED
        BY <4>2, <4>4
    <3>3. pc' \in [Workers -> Pcs] /\ pc'[w] = "swap"
      BY <1>1, <3>1
    <3>4. QED
      BY <1>1, <3>1, <3>2, <3>3 DEF FrameInv, ControlInv
  <2>3. CASE Disconnected(w)
    BY <1>1, <2>3 DEF FrameInv, ControlInv, Disconnected
  <2>4. CASE CloseServer(w)
    BY <1>1, <2>4 DEF FrameInv, ControlInv, CloseServer
  <2>5. CASE EraseConnection(w)
    BY <1>1, <2>5 DEF FrameInv, ControlInv, EraseConnection, Frames
  <2>6. QED
    BY <2>1, <2>2, <2>3, <2>4, <2>5 DEF Event
<1>4. ThreadTypes'
  BY <1>3 DEF Typed, ThreadTypes, Event, ReceivedUnknown, Received,
     Disconnected, CloseServer, EraseConnection
<1>5. SocketTypes'
  BY DEF Typed, SocketTypes, Event, ReceivedUnknown, Received, Disconnected,
     CloseServer, EraseConnection
<1>6. StrandTypes' /\ ServerTypes' /\ ClientTypes'
  BY <1>2 DEF Typed, StrandTypes, ServerTypes, ClientTypes, Event,
     ReceivedUnknown, Received, Disconnected, CloseServer, EraseConnection
<1>7. QED
  BY <1>3, <1>4, <1>5, <1>6

LEMMA StopTyped ==
  ASSUME Typed, NEW w \in Workers, Stop(w)
  PROVE  /\ ThreadTypes' /\ SocketTypes' /\ StrandTypes' /\ ServerTypes'
         /\ ClientTypes' /\ FrameInv(w)'
<1>1. /\ pc \in [Workers -> Pcs] /\ frame \in [Workers -> Frames]
      /\ FrameInv(w) /\ walk \subseteq Conns
  BY DEF Typed, ThreadTypes, ServerTypes
<1>2. Ahead(w) \subseteq SUBSET (Conns \cap walk)
  BY <1>1 DEF Ahead
<1>3. /\ pc' \in [Workers -> Pcs] /\ frame' \in [Workers -> Frames]
      /\ FrameInv(w)'
  <2>1. CASE WalkOn(w)
    <3>1. PICK c \in Conns :
            frame' = [frame EXCEPT ![w].conn = c, ![w].after = "walk"]
      BY <1>2, <2>1 DEF WalkOn
    <3>2. frame' \in [Workers -> Frames]
      <4>1. frame' = [frame EXCEPT
                        ![w] = [frame[w] EXCEPT !.conn = c, !.after = "walk"]]
        BY <1>1, <3>1
      <4>2. [frame[w] EXCEPT !.conn = c, !.after = "walk"] \in Frames
        BY <1>1 DEF Frames
      <4>3. QED
        BY <1>1, <4>1, <4>2
    <3>3. /\ pc' = [pc EXCEPT ![w] = "disconnect"]
          /\ frame'[w].conn = c /\ frame'[w].after = "walk"
          /\ frame'[w].packet = frame[w].packet
          /\ frame'[w].http = frame[w].http
      BY <1>1, <2>1, <3>1 DEF WalkOn, Frames
    <3>4. QED
      BY <1>1, <3>2, <3>3 DEF FrameInv, ControlInv
  <2>2. CASE BeginShutdown(w)
    BY <1>1, <2>2 DEF FrameInv, ControlInv, BeginShutdown
  <2>3. CASE WalkEnd(w) \/ ClearHttp(w) \/ CloseHttp(w) \/ CloseAll(w)
    BY <1>1, <2>3 DEF FrameInv, ControlInv, WalkEnd, ClearHttp, CloseHttp,
       CloseAll
  <2>4. CASE StopService(w)
    BY <1>1, <2>4, RunFrame DEF StopService, EndHandler
  <2>5. QED
    BY <2>1, <2>2, <2>3, <2>4 DEF Stop
<1>4. ThreadTypes'
  BY <1>3 DEF Typed, ThreadTypes, Stop, BeginShutdown, WalkOn, WalkEnd,
     ClearHttp, CloseHttp, CloseAll, StopService, EndHandler, StopIo
<1>5. SocketTypes' /\ StrandTypes'
  BY DEF Typed, SocketTypes, StrandTypes, Stop, BeginShutdown, WalkOn,
     WalkEnd, ClearHttp, CloseHttp, CloseAll, StopService
<1>6. ServerTypes'
  <2>1. CASE WalkOn(w)
    BY <1>2, <2>1 DEF Typed, ServerTypes, WalkOn
  <2>2. CASE BeginShutdown(w) \/ WalkEnd(w) \/ StopService(w)
    BY <2>2 DEF Typed, ServerTypes, BeginShutdown, WalkEnd, StopService
  <2>3. CASE ClearHttp(w)
    BY <2>3 DEF Typed, ServerTypes, ClearHttp, DeleteAllHttp
  <2>4. CASE CloseHttp(w)
    BY <2>4 DEF Typed, ServerTypes, CloseHttp, DeleteAllHttp
  <2>5. CASE CloseAll(w)
    BY <2>5 DEF Typed, ServerTypes, CloseAll
  <2>6. QED
    BY <2>1, <2>2, <2>3, <2>4, <2>5 DEF Stop
<1>7. ClientTypes'
  BY DEF Typed, ClientTypes, Stop, BeginShutdown, WalkOn, WalkEnd,
     ClearHttp, CloseHttp, CloseAll, StopService, DeleteAllHttp
<1>8. QED
  BY <1>3, <1>4, <1>5, <1>6, <1>7

LEMMA ScheduleTyped ==
  ASSUME Typed, NEW w \in Workers, Schedule(w) \/ Leave(w)
  PROVE  /\ ThreadTypes' /\ SocketTypes' /\ StrandTypes' /\ ServerTypes'
         /\ ClientTypes' /\ FrameInv(w)'
<1>1. /\ pc \in [Workers -> Pcs] /\ frame \in [Workers -> Frames]
      /\ FrameInv(w) /\ opQueue \in Seq(QueuedOps) /\ stopped \in BOOLEAN
      /\ strand \in [Conns -> BOOLEAN] /\ waiting \in [Conns -> Seq(Ops)]
      /\ \A c \in Conns : waiting[c] \in Seq(WaitingOps(c))
  BY DEF Typed, ThreadTypes, StrandTypes
<1>2. SocketTypes' /\ ServerTypes' /\ ClientTypes'
  BY DEF Typed, SocketTypes, ServerTypes, ClientTypes, Schedule, RunHandler,
     WaitForStrand, CallbackReturns, Leave, LeaveRun
<1>3. ThreadTypes' /\ FrameInv(w)' /\ StrandTypes'
  <2>1. CASE RunHandler(w)
    <3> DEFINE op == Head(opQueue)
    <3>1. op \in QueuedOps /\ opQueue' \in Seq(QueuedOps)
      BY <1>1, <2>1, HeadTail DEF RunHandler, Dequeue
    <3>2. op.kind \in Kinds /\ (op.kind # "stop" => op.conn \in Conns)
      BY <3>1 DEF QueuedOps, Ops
    <3>3. Frame(op) \in Frames
      BY <3>1, FrameTyped DEF QueuedOps
    <3>4. pc' = [pc EXCEPT ![w] = op.kind]
          /\ frame' = [frame EXCEPT ![w] = Frame(op)] /\ UNCHANGED stopped
      BY <2>1 DEF RunHandler, Dequeue
    <3>5. ThreadTypes'
      BY <1>1, <3>1, <3>2, <3>3, <3>4 DEF ThreadTypes
    <3>6. FrameInv(w)'
      BY <1>1, <3>2, <3>4 DEF FrameInv, ControlInv, Frame
    <3>7. StrandTypes'
      BY <1>1, <2>1 DEF Typed, StrandTypes, RunHandler
    <3>8. QED
      BY <3>5, <3>6, <3>7
  <2>2. CASE WaitForStrand(w)
    <3> DEFINE op == Head(opQueue)
    <3>1. op \in QueuedOps /\ opQueue' \in Seq(QueuedOps)
      BY <1>1, <2>2, HeadTail DEF WaitForStrand
    <3>2. /\ op.conn \in Conns /\ op \in WaitingOps(op.conn) /\ op \in Ops
          /\ waiting' = [waiting EXCEPT ![op.conn] = Append(@, op)]
      BY <3>1, <2>2 DEF WaitForStrand, Wrapped, QueuedOps, WaitingOps
    <3>3. /\ Append(waiting[op.conn], op) \in Seq(WaitingOps(op.conn))
          /\ Append(waiting[op.conn], op) \in Seq(Ops)
      BY <1>1, <3>2, Appended
    <3>4. StrandTypes'
      BY <1>1, <2>2, <3>2, <3>3 DEF StrandTypes, Typed, WaitForStrand
    <3>5. QED
      BY <1>1, <2>2, <3>1, <3>4 DEF ThreadTypes, FrameInv, WaitForStrand
  <2>3. CASE CallbackReturns(w)
    <3> DEFINE c == Mine(w)
               op == [Head(waiting[c]) EXCEPT !.locked = TRUE]
    <3>1. c \in Conns /\ pc' = [pc EXCEPT ![w] = "run"]
          /\ frame' = [frame EXCEPT ![w] = NoFrame]
      BY <1>1, <2>3 DEF CallbackReturns, FrameInv
    <3>2. CASE waiting[c] = << >>
      <4>1. opQueue' = opQueue /\ waiting' = waiting
        BY <2>3, <3>2 DEF CallbackReturns
      <4>2. FrameInv(w)'
        BY <1>1, <3>1 DEF FrameInv, ControlInv, NoFrame, Frame, Op
      <4>3. StrandTypes'
        BY <1>1, <2>3, <3>2 DEF StrandTypes, Typed, CallbackReturns
      <4>4. QED
        BY <1>1, <2>3, <3>1, <4>1, <4>2, <4>3, NoFrameTyped
           DEF ThreadTypes, CallbackReturns
    <3>3. CASE waiting[c] # << >>
      <4>1. /\ Head(waiting[c]) \in WaitingOps(c)
            /\ Tail(waiting[c]) \in Seq(WaitingOps(c))
            /\ Tail(waiting[c]) \in Seq(Ops)
        BY <1>1, <3>1, <3>3, HeadTail
      <4>2. op \in QueuedOps
        BY <3>1, <4>1 DEF WaitingOps, QueuedOps, Ops
      <4>3. opQueue' \in Seq(QueuedOps)
        <5>1. opQueue' = Append(opQueue, op)
          BY <2>3, <3>3 DEF CallbackReturns, Enqueue
        <5>2. Append(opQueue, op) \in Seq(QueuedOps)
          BY <1>1, <4>2, Appended
        <5>3. QED
          BY <5>1, <5>2
      <4>4. FrameInv(w)'
        BY <1>1, <3>1 DEF FrameInv, ControlInv, NoFrame, Frame, Op
      <4>5. waiting' = [waiting EXCEPT ![c] = Tail(waiting[c])]
            /\ UNCHANGED <<use_strand, strand>>
        BY <2>3, <3>3 DEF CallbackReturns
      <4>6. StrandTypes'
        BY <1>1, <4>1, <4>5 DEF StrandTypes, Typed
      <4>7. QED
        BY <1>1, <2>3, <3>1, <4>3, <4>4, <4>6, NoFrameTyped
           DEF ThreadTypes, CallbackReturns
    <3>4. QED
      BY <3>2, <3>3
  <2>4. CASE Leave(w)
    BY <1>1, <2>4 DEF Leave, LeaveRun, ThreadTypes, FrameInv, ControlInv,
       NoFrame, Frame, Op, Typed, StrandTypes
  <2>5. QED
    BY <2>1, <2>2, <2>3, <2>4 DEF Schedule
<1>4. QED
  BY <1>2, <1>3

(* Steps of clients, sockets and signals leave the threads alone. *)
Outside ==
  \/ \E c \in Conns :
       Client(c) \/ Reactor(c)
  \/ ReceiveSignal

LEMMA OutsideKeeps ==
  ASSUME Outside
  PROVE  UNCHANGED <<pc, frame, stopped, strandVars, connections_,
                     http_connections_, listening, shutting_down_, walk,
                     created, raced, receiving_, front, transmitting_,
                     disconnect_pending_>>
BY DEF Outside, Client, ClientConnect, ClientAsk, ClientHangUp, Break, Reactor,
   ReceivePacket, ReceiveEnd, ReceiveError, FinishWrite, FailWrite, EndWrite,
   ReceiveSignal

LEMMA OutsideTyped ==
  ASSUME Typed, Outside
  PROVE  Typed'
<1>1. opQueue \in Seq(QueuedOps)
  BY DEF Typed, ThreadTypes
<1>2. opQueue' \in Seq(QueuedOps)
  <2>1. ASSUME NEW c \in Conns, ReceivePacket(c)
        PROVE  opQueue' \in Seq(QueuedOps)
    <3>1. asked[c] - inbox[c] + 1 \in 0 .. MaxRequests
      BY <2>1 DEF ReceivePacket, Typed, ClientTypes
    <3>2. QED
      BY <1>1, <2>1, <3>1, OpTyped, Appended DEF ReceivePacket, Enqueue
  <2>2. ASSUME NEW c \in Conns, ClientConnect(c) \/ ReceiveEnd(c)
                                \/ ReceiveError(c)
                                \/ FinishWrite(c) \/ FailWrite(c)
        PROVE  opQueue' \in Seq(QueuedOps)
    <3>1. /\ Op("accept", c, 0, "ok") \in QueuedOps
          /\ Op("accept", c, 0, "failed") \in QueuedOps
          /\ Op("read", c, 0, "eof") \in QueuedOps
          /\ Op("read", c, 0, "timedOut") \in QueuedOps
          /\ \A result \in {"ok", "reset", "pipe", "timedOut"} :
               Op("write", c, 0, result) \in QueuedOps
      BY OpTyped
    <3>2. QED
      BY <1>1, <2>2, <3>1, Appended DEF ClientConnect, Client, ReceiveEnd,
         ReceiveError, FinishWrite, FailWrite, EndWrite, Enqueue
  <2>3. CASE ReceiveSignal
    <3>1. Op("stop", NoConn, 0, "ok") \in QueuedOps
      BY DEF Op, QueuedOps, Ops
    <3>2. QED
      BY <1>1, <2>3, <3>1, Appended DEF ReceiveSignal, Enqueue
  <2>4. QED
    BY <1>1, <2>1, <2>2, <2>3 DEF Outside, Reactor, ClientAsk, ClientHangUp,
       Break, Client
<1>3. ThreadTypes' /\ StrandTypes'
  BY <1>2, OutsideKeeps DEF Typed, ThreadTypes, StrandTypes
<1>4. SocketTypes'
  <2>1. ASSUME NEW c \in Conns, ReceivePacket(c)
        PROVE  SocketTypes'
    <3>1. /\ asked[c] - inbox[c] + 1 \in 0 .. MaxRequests
          /\ reads[c] \in Seq({1, 2}) /\ reads[c] # << >>
      BY <2>1 DEF ReceivePacket, Typed, ClientTypes, SocketTypes
    <3>2. Head(reads[c]) \in {1, 2} /\ Tail(reads[c]) \in Seq({1, 2})
      BY <3>1, HeadTail
    <3>3. QED
      BY <2>1, <3>1, <3>2 DEF ReceivePacket, Typed, SocketTypes
  <2>2. ASSUME NEW c \in Conns, ReceiveEnd(c) \/ ReceiveError(c)
        PROVE  SocketTypes'
    <3>1. Tail(reads[c]) \in Seq({1, 2})
      BY <2>2, HeadTail DEF ReceiveEnd, ReceiveError, Typed, SocketTypes
    <3>2. CASE ReceiveEnd(c)
      BY <3>1, <3>2 DEF ReceiveEnd, Typed, SocketTypes
    <3>3. CASE ReceiveError(c)
      BY <3>1, <3>3 DEF ReceiveError, Typed, SocketTypes
    <3>4. QED
      BY <2>2, <3>2, <3>3
  <2>3. ASSUME NEW c \in Conns,
               \/ ClientConnect(c) \/ ClientAsk(c) \/ ClientHangUp(c)
               \/ Break(c)
        PROVE  SocketTypes'
    <3>1. socket \in [Conns -> {"none", "open", "shut"}]
      BY DEF Typed, SocketTypes
    <3>2. socket' \in [Conns -> {"none", "open", "shut"}]
      BY <2>3, <3>1 DEF ClientConnect, ClientAsk, ClientHangUp, Break
    <3>3. QED
      BY <2>3, <3>2 DEF ClientConnect, ClientAsk, ClientHangUp, Break, Typed,
         SocketTypes
  <2>4. ASSUME NEW c \in Conns, FinishWrite(c) \/ FailWrite(c)
        PROVE  SocketTypes'
    <3>1. unsent \in [Conns -> SUBSET (1 .. MaxRequests)]
      BY DEF Typed, SocketTypes
    <3>2. PICK packet : unsent' = [unsent EXCEPT ![c] = @ \ {packet}]
      BY <2>4 DEF FinishWrite, FailWrite, EndWrite
    <3>3. unsent' \in [Conns -> SUBSET (1 .. MaxRequests)]
      BY <3>1, <3>2
    <3>4. QED
      BY <2>4, <3>3 DEF FinishWrite, FailWrite, EndWrite, Typed, SocketTypes
  <2>5. CASE ReceiveSignal
    BY <2>5 DEF ReceiveSignal, Typed, SocketTypes
  <2>6. QED
    BY <2>1, <2>2, <2>3, <2>4, <2>5 DEF Outside, Reactor, Client
<1>5. ServerTypes'
  <2>1. ASSUME NEW c \in Conns, ClientConnect(c)
        PROVE  ServerTypes'
    BY <2>1 DEF ClientConnect, Client, Typed, ServerTypes
  <2>2. ASSUME NEW c \in Conns, ClientAsk(c) \/ ClientHangUp(c) \/ Break(c)
        PROVE  ServerTypes'
    BY <2>2 DEF ClientAsk, ClientHangUp, Break, Client, Typed,
       ServerTypes
  <2>3. ASSUME NEW c \in Conns,
               ReceivePacket(c) \/ ReceiveEnd(c) \/ ReceiveError(c)
        PROVE  ServerTypes'
    BY <2>3 DEF ReceivePacket, ReceiveEnd, ReceiveError, Typed, ServerTypes
  <2>4. ASSUME NEW c \in Conns, FinishWrite(c) \/ FailWrite(c)
        PROVE  ServerTypes'
    BY <2>4 DEF FinishWrite, FailWrite, EndWrite, Typed, ServerTypes
  <2>5. CASE ReceiveSignal
    BY <2>5 DEF ReceiveSignal, Typed, ServerTypes
  <2>6. QED
    BY <2>1, <2>2, <2>3, <2>4, <2>5 DEF Outside, Reactor, Client
<1>6. ClientTypes'
  <2>1. ASSUME NEW c \in Conns, FinishWrite(c)
        PROVE  ClientTypes'
    <3>1. unsent[c] \subseteq 1 .. MaxRequests
      BY DEF Typed, SocketTypes
    <3>2. QED
      BY <2>1, <3>1 DEF FinishWrite, Typed, ClientTypes
  <2>2. ASSUME NEW c \in Conns, ClientAsk(c)
        PROVE  ClientTypes'
    BY <2>2 DEF ClientAsk, Typed, ClientTypes
  <2>3. ASSUME NEW c \in Conns,
               ClientConnect(c) \/ FailWrite(c)
        PROVE  ClientTypes'
    BY <2>3 DEF ClientConnect, Client, FailWrite, EndWrite, Typed, ClientTypes
  <2>4. ASSUME NEW c \in Conns,
               \/ ClientHangUp(c) \/ Break(c) \/ ReceiveEnd(c)
               \/ ReceiveError(c)
        PROVE  ClientTypes'
    BY <2>4 DEF ClientHangUp, Break, Client, ReceiveEnd,
       ReceiveError, Typed, ClientTypes
  <2>5. ASSUME NEW c \in Conns, ReceivePacket(c)
        PROVE  ClientTypes'
    <3>1. inbox[c] - 1 \in 0 .. MaxRequests /\ inbox[c] - 1 <= asked[c]
      BY <2>5 DEF ReceivePacket, Typed, ClientTypes
    <3>2. QED
      BY <2>5, <3>1 DEF ReceivePacket, Typed, ClientTypes
  <2>6. CASE ReceiveSignal
    BY <2>6 DEF ReceiveSignal, Typed, ClientTypes
  <2>7. QED
    BY <2>1, <2>2, <2>3, <2>4, <2>5, <2>6 DEF Outside, Reactor, Client
<1>7. \A v \in Workers : FrameInv(v)'
  BY OutsideKeeps DEF Typed, FrameInv
<1>8. QED
  BY <1>3, <1>4, <1>5, <1>6, <1>7 DEF Typed

(* Every step of the server keeps its types. *)
LEMMA TypedNext == Typed /\ [Next]_vars => Typed'
<1> SUFFICES ASSUME Typed, [Next]_vars PROVE Typed'
  OBVIOUS
<1>1. ASSUME NEW w \in Workers, Worker(w)
      PROVE  Typed'
  <2>1. /\ ThreadTypes' /\ SocketTypes' /\ StrandTypes' /\ ServerTypes'
        /\ ClientTypes' /\ FrameInv(w)'
    <3>1. CASE Callback(w)
      BY <3>1, CallbackTyped, CallbackKeeps
         DEF Typed, StrandTypes, ServerTypes, ClientTypes
    <3>2. QED
      BY <1>1, <3>1, ScheduleTyped, WriteTyped, AcceptTyped, EventTyped,
         StopTyped DEF Worker
  <2>2. \A v \in Workers \ {w} : FrameInv(v)'
    BY <1>1, OthersKeep DEF Typed, FrameInv
  <2>3. QED
    BY <2>1, <2>2 DEF Typed
<1>2. CASE UNCHANGED vars
  BY <1>2 DEF Typed, ThreadTypes, StrandTypes, SocketTypes, ServerTypes,
     ClientTypes, FrameInv
<1>3. QED
  BY <1>1, <1>2, OutsideTyped DEF Next, Outside

(* Every variable of the HTTP server keeps its type (HttpServer), for any  *)
(* number of connections, threads, requests and any window.                *)
THEOREM ServerTyped == Spec => []TypeOK
<1>1. Spec => []Typed
  BY TypedInit, TypedNext, PTL DEF Spec
<1>2. QED
  BY <1>1, TypedIsTypeOK, PTL

(* The three ways to schedule, with what HttpServer says they leave alone. *)
ServerKept == UNCHANGED <<serverVars, clientVars, historyVars>>
Take(w) == RunHandler(w) /\ ServerKept
Delay(w) == WaitForStrand(w) /\ ServerKept
Return(w) == CallbackReturns(w) /\ ServerKept

-----------------------------------------------------------------------------
(* What the steps change *)

LEMMA Pushed ==
  ASSUME opQueue \in Seq(QueuedOps), NEW op \in QueuedOps,
         opQueue' = Append(opQueue, op)
  PROVE  /\ Len(opQueue) \in Nat /\ DOMAIN opQueue = 1 .. Len(opQueue)
         /\ DOMAIN opQueue' = 1 .. Len(opQueue) + 1
         /\ \A i \in DOMAIN opQueue : opQueue'[i] = opQueue[i]
         /\ opQueue'[Len(opQueue) + 1] = op
         /\ \A i \in DOMAIN opQueue' :
              \/ i \in DOMAIN opQueue /\ opQueue'[i] = opQueue[i]
              \/ i = Len(opQueue) + 1 /\ opQueue'[i] = op
<1>1. opQueue' \in Seq(QueuedOps) /\ Len(opQueue') = Len(opQueue) + 1
  BY Appended
<1>2. /\ Len(opQueue) \in Nat /\ DOMAIN opQueue = 1 .. Len(opQueue)
      /\ DOMAIN opQueue' = 1 .. Len(opQueue) + 1
  BY <1>1, LenProperties
<1>3. QED
  BY <1>2, Appended

LEMMA Popped ==
  ASSUME opQueue \in Seq(QueuedOps), opQueue # << >>,
         opQueue' = Tail(opQueue)
  PROVE  /\ Len(opQueue) \in Nat \ {0} /\ DOMAIN opQueue = 1 .. Len(opQueue)
         /\ DOMAIN opQueue' = 1 .. Len(opQueue) - 1
         /\ Head(opQueue) = opQueue[1] /\ Head(opQueue) \in QueuedOps
         /\ 1 \in DOMAIN opQueue /\ DOMAIN opQueue' \subseteq Nat \ {0}
         /\ \A i \in DOMAIN opQueue' :
              i + 1 \in DOMAIN opQueue /\ opQueue'[i] = opQueue[i + 1]
         /\ \A i \in DOMAIN opQueue :
              \/ i = 1
              \/ i - 1 \in DOMAIN opQueue' /\ opQueue'[i - 1] = opQueue[i]
<1>1. /\ Tail(opQueue) \in Seq(QueuedOps) /\ Len(opQueue) \in Nat \ {0}
      /\ Len(opQueue') = Len(opQueue) - 1
      /\ Head(opQueue) = opQueue[1] /\ Head(opQueue) \in QueuedOps
      /\ \A i \in 1 .. Len(opQueue) - 1 : opQueue'[i] = opQueue[i + 1]
  BY HeadTail
<1>2. /\ DOMAIN opQueue = 1 .. Len(opQueue)
      /\ DOMAIN opQueue' = 1 .. Len(opQueue) - 1
  BY <1>1, LenProperties
<1>3. QED
  BY <1>1, <1>2

(* A callback changes its own connection. *)
LEMMA CallbackLocal ==
  ASSUME Typed, NEW w \in Workers, Callback(w)
  PROVE  /\ pc[w] \in Work /\ pc'[w] \in Work \cup {"walk"}
         /\ Mine(w) \in Conns /\ Mine(w)' = Mine(w)
         /\ frame'[w].packet = frame[w].packet
         /\ UNCHANGED unsent
         /\ \A c \in Conns \ {Mine(w)} :
              /\ socket'[c] = socket[c] /\ receiving_'[c] = receiving_[c]
              /\ reads'[c] = reads[c] /\ buffers'[c] = buffers[c]
              /\ front'[c] = front[c] /\ transmitting_'[c] = transmitting_[c]
              /\ disconnect_pending_'[c] = disconnect_pending_[c]
<1>1. /\ pc \in [Workers -> Pcs] /\ frame \in [Workers -> Frames]
      /\ FrameInv(w) /\ frame[w] \in Frames
  BY DEF Typed, ThreadTypes
<1>2. frame[w].after \in {"return", "parse", "leave", "invalid", "walk"}
  BY <1>1 DEF Frames
<1>3. pc[w] \in Work
  BY DEF Callback, ConnectionStep, ReadExpired, ReadData, ReadEnd, ReadError,
     SwapBuffers, TestReceiving, ArmRead, Respond, DisconnectInvalid,
     MarkTransmitting, LeaveReceive, WriteExpired, WriteDone, WriteFailed,
     UnmarkTransmitting, Disconnect, PendDisconnect, ShutSocket
<1>4. pc'[w] \in Work \cup {"walk"}
  BY <1>1, <1>2 DEF Callback, ConnectionStep, ReadExpired, ReadData, ReadEnd,
     ReadError, SwapBuffers, TestReceiving, ArmRead, Respond,
     DisconnectInvalid, MarkTransmitting, LeaveReceive, WriteExpired,
     WriteDone, WriteFailed, UnmarkTransmitting, Disconnect, PendDisconnect,
     ShutSocket, AfterSend, Replies
<1>5. Mine(w)' = Mine(w) /\ frame'[w].packet = frame[w].packet
  <2>1. CASE SwapBuffers(w)
    BY <1>1, <2>1 DEF SwapBuffers, Frames
  <2>2. CASE Respond(w)
    BY <1>1, <2>2 DEF Respond, Frames
  <2>3. CASE DisconnectInvalid(w) \/ LeaveReceive(w)
    BY <1>1, <2>3 DEF DisconnectInvalid, LeaveReceive, Frames
  <2>4. CASE ~ (SwapBuffers(w) \/ Respond(w) \/ DisconnectInvalid(w)
                \/ LeaveReceive(w))
    BY <2>4 DEF Callback, ConnectionStep, ReadExpired, ReadData, ReadEnd,
       ReadError, TestReceiving, ArmRead, MarkTransmitting, WriteExpired,
       WriteDone, WriteFailed, UnmarkTransmitting, Disconnect, PendDisconnect,
       ShutSocket
  <2>5. QED
    BY <2>1, <2>2, <2>3, <2>4
<1>6. SocketTypes
  BY DEF Typed
<1>7. UNCHANGED unsent
  BY DEF Callback, ConnectionStep, ReadExpired, ReadData, ReadEnd, ReadError,
     SwapBuffers, TestReceiving, ArmRead, Respond, DisconnectInvalid,
     MarkTransmitting, LeaveReceive, WriteExpired, WriteDone, WriteFailed,
     UnmarkTransmitting, Disconnect, PendDisconnect, ShutSocket
<1>8. Mine(w) \in Conns
  BY <1>1, <1>3 DEF FrameInv
<1>9. \A c \in Conns \ {Mine(w)} :
        /\ socket'[c] = socket[c] /\ receiving_'[c] = receiving_[c]
        /\ reads'[c] = reads[c] /\ buffers'[c] = buffers[c]
        /\ front'[c] = front[c] /\ transmitting_'[c] = transmitting_[c]
        /\ disconnect_pending_'[c] = disconnect_pending_[c]
  BY <1>6, <1>8 DEF SocketTypes, Callback, ConnectionStep, ReadExpired,
     ReadData, ReadEnd, ReadError, SwapBuffers, TestReceiving, ArmRead,
     StartRead, Respond, DisconnectInvalid, MarkTransmitting, LeaveReceive,
     WriteExpired, WriteDone, WriteFailed, UnmarkTransmitting, Disconnect,
     PendDisconnect, ShutSocket
<1>10. QED
  BY <1>3, <1>4, <1>5, <1>7, <1>8, <1>9

(* The start of a write changes its own connection. *)
LEMMA WriteLocal ==
  ASSUME Typed, NEW w \in Workers, StartWrite(w)
  PROVE  /\ pc[w] = "start" /\ pc'[w] = "mark" /\ Mine(w) \in Conns
         /\ UNCHANGED <<stopped, strandVars, frame, socket, rxVars,
                        transmitting_, disconnect_pending_, serverVars, asked,
                        inbox, hungUp, historyVars>>
         /\ \A c \in Conns \ {Mine(w)} :
              /\ unsent'[c] = unsent[c] /\ answered'[c] = answered[c]
              /\ broken'[c] = broken[c]
         /\ \/ opQueue' = opQueue
            \/ \E op \in QueuedOps : /\ op.kind = "write"
                                     /\ op.conn = Mine(w) /\ ~ op.locked
                                     /\ opQueue' = Append(opQueue, op)
<1>1. /\ pc \in [Workers -> Pcs] /\ FrameInv(w) /\ pc[w] = "start"
      /\ SocketTypes /\ ClientTypes
  BY DEF Typed, ThreadTypes, StartWrite, WriteWhole, WritePart, WriteNothing,
     EndWrite
<1>2. pc'[w] = "mark" /\ Mine(w) \in Conns
  BY <1>1 DEF FrameInv, StartWrite, WriteWhole, WritePart, WriteNothing,
     EndWrite
<1>3. UNCHANGED <<stopped, strandVars, frame, socket, rxVars, transmitting_,
                  disconnect_pending_, serverVars, asked, inbox, hungUp,
                  historyVars>>
  BY DEF StartWrite, WriteWhole, WritePart, WriteNothing, EndWrite
<1>4. \A c \in Conns \ {Mine(w)} :
        /\ unsent'[c] = unsent[c] /\ answered'[c] = answered[c]
        /\ broken'[c] = broken[c]
  BY <1>1, <1>2 DEF SocketTypes, ClientTypes, StartWrite, WriteWhole,
     WritePart, WriteNothing, EndWrite
<1>5. \A result \in {"ok", "reset", "pipe", "timedOut"} :
        /\ Op("write", Mine(w), 0, result) \in QueuedOps
        /\ Op("write", Mine(w), 0, result).kind = "write"
        /\ Op("write", Mine(w), 0, result).conn = Mine(w)
        /\ ~ Op("write", Mine(w), 0, result).locked
  <2>1. \A result \in {"ok", "reset", "pipe", "timedOut"} :
          Op("write", Mine(w), 0, result) \in QueuedOps
    BY <1>2, OpTyped
  <2>2. QED
    BY <2>1 DEF Op
<1>6. \/ opQueue' = opQueue
      \/ \E result \in {"ok", "reset", "pipe", "timedOut"} :
           opQueue' = Append(opQueue, Op("write", Mine(w), 0, result))
  BY DEF StartWrite, WriteWhole, WritePart, WriteNothing, EndWrite, Enqueue
<1>7. QED
  BY <1>1, <1>2, <1>3, <1>4, <1>5, <1>6

(* An event only takes connections out of the sets. *)
LEMMA EventKeeps ==
  ASSUME Typed, NEW w \in Workers, Event(w)
  PROVE  /\ UNCHANGED <<opQueue, stopped, strandVars, socket, rxVars, txVars,
                        next_connection_, stopVars, clientVars, created,
                        ended>>
         /\ pc[w] \in {"received", "disconnected", "closing", "erase"}
         /\ pc'[w] \in Work \cup {"walk"}
         /\ Mine(w) \in Conns /\ Mine(w)' = Mine(w)
         /\ frame'[w].packet = frame[w].packet
         /\ connections_' \subseteq connections_
         /\ http_connections_' \subseteq http_connections_
         /\ \A c \in Conns : raced[c] => raced'[c]
<1>1. /\ pc \in [Workers -> Pcs] /\ frame \in [Workers -> Frames]
      /\ FrameInv(w) /\ ClientTypes
  BY DEF Typed, ThreadTypes
<1>2. pc[w] \in {"received", "disconnected", "closing", "erase"}
  BY DEF Event, ReceivedUnknown, Received, Disconnected, CloseServer,
     EraseConnection
<1>3. pc'[w] \in Work \cup {"walk"}
  <2>1. frame[w].after \in {"return", "parse", "leave", "invalid", "walk"}
    BY <1>1 DEF Frames
  <2>2. QED
    BY <1>1, <2>1 DEF Event, ReceivedUnknown, Received, Disconnected,
       CloseServer, EraseConnection
<1>4. Mine(w)' = Mine(w) /\ frame'[w].packet = frame[w].packet
  BY <1>1 DEF Event, ReceivedUnknown, Received, Disconnected, CloseServer,
     EraseConnection, Frames
<1>5. Mine(w) \in Conns
  BY <1>1, <1>2 DEF FrameInv
<1>6. QED
  BY <1>1, <1>2, <1>3, <1>4, <1>5 DEF ClientTypes, Event, ReceivedUnknown,
     Received, Disconnected, CloseServer, EraseConnection

(* So does the shutdown, which works for no connection until it            *)
(* disconnects one.                                                        *)
LEMMA StopKeeps ==
  ASSUME Typed, NEW w \in Workers, Stop(w)
  PROVE  /\ UNCHANGED <<opQueue, strandVars, socket, rxVars, txVars,
                        next_connection_, clientVars, created, ended>>
         /\ pc[w] \in {"stop", "walk", "clear", "clearAll", "closeAll",
                       "stopIo"}
         /\ \/ pc'[w] = "disconnect" /\ Mine(w)' \in http_connections_
            \/ /\ pc'[w] \in {"walk", "clear", "clearAll", "closeAll",
                              "stopIo"}
               /\ Mine(w)' = Mine(w)
            \/ pc'[w] = "run" /\ Mine(w)' = NoConn
         /\ connections_' \subseteq connections_
         /\ http_connections_' \subseteq http_connections_
         /\ \A c \in Conns : raced[c] => raced'[c]
<1>1. /\ pc \in [Workers -> Pcs] /\ frame \in [Workers -> Frames]
      /\ FrameInv(w) /\ ClientTypes
  BY DEF Typed, ThreadTypes
<1>2. CASE WalkOn(w)
  <2>1. PICK c \in http_connections_ :
          frame' = [frame EXCEPT ![w].conn = c, ![w].after = "walk"]
    <3>1. PICK ahead \in Ahead(w) :
            \E c \in http_connections_ :
              frame' = [frame EXCEPT ![w].conn = c, ![w].after = "walk"]
      BY <1>2 DEF WalkOn, Ahead
    <3>2. QED
      BY <3>1
  <2>2. c \in http_connections_ /\ Mine(w)' = c
    BY <1>1, <2>1 DEF Frames
  <2>3. QED
    BY <1>1, <1>2, <2>2 DEF WalkOn
<1>3. CASE StopService(w)
  BY <1>1, <1>3 DEF StopService, EndHandler, NoFrame, Frame, Op
<1>4. CASE BeginShutdown(w)
  BY <1>1, <1>4 DEF BeginShutdown
<1>5. CASE WalkEnd(w) \/ ClearHttp(w) \/ CloseHttp(w) \/ CloseAll(w)
  BY <1>1, <1>5 DEF WalkEnd, ClearHttp, CloseHttp, CloseAll, DeleteAllHttp,
     ClientTypes
<1>6. QED
  BY <1>2, <1>3, <1>4, <1>5 DEF Stop

(* What a client and its socket add to the queue. *)
LEMMA QueuedBy ==
  ASSUME Typed, NEW c \in Conns,
         Client(c) \/ Reactor(c),
         opQueue' # opQueue
  PROVE  \E op \in QueuedOps :
           /\ opQueue' = Append(opQueue, op) /\ op.conn = c /\ ~ op.locked
           /\ \/ op.kind = "accept" /\ ClientConnect(c)
              \/ /\ op.kind = "read"
                 /\ ReceivePacket(c) \/ ReceiveEnd(c) \/ ReceiveError(c)
              \/ op.kind = "write" /\ (FinishWrite(c) \/ FailWrite(c))
<1>1. \A kind \in Kinds, packet \in 0 .. MaxRequests,
         result \in Results :
        /\ Op(kind, c, packet, result) \in QueuedOps
        /\ Op(kind, c, packet, result).kind = kind
        /\ Op(kind, c, packet, result).conn = c
        /\ ~ Op(kind, c, packet, result).locked
  <2> SUFFICES ASSUME NEW kind \in Kinds, NEW packet \in 0 .. MaxRequests,
                      NEW result \in Results
               PROVE  /\ Op(kind, c, packet, result) \in QueuedOps
                      /\ Op(kind, c, packet, result).kind = kind
                      /\ Op(kind, c, packet, result).conn = c
                      /\ ~ Op(kind, c, packet, result).locked
    OBVIOUS
  <2>1. Op(kind, c, packet, result) \in QueuedOps
    BY OpTyped
  <2>2. QED
    BY <2>1 DEF Op
<1>2. CASE ClientConnect(c)
  BY <1>1, <1>2 DEF ClientConnect, Client, Enqueue
<1>3. CASE ReceivePacket(c)
  <2>1. asked[c] - inbox[c] + 1 \in 0 .. MaxRequests
    BY <1>3 DEF ReceivePacket, Typed, ClientTypes
  <2>2. opQueue' = Append(opQueue,
                          Op("read", c, asked[c] - inbox[c] + 1, "ok"))
    BY <1>3 DEF ReceivePacket, Enqueue
  <2>3. QED
    BY <1>1, <1>3, <2>1, <2>2
<1>4. CASE ReceiveEnd(c) \/ ReceiveError(c)
  BY <1>1, <1>4 DEF ReceiveEnd, ReceiveError, Enqueue
<1>5. CASE FinishWrite(c)
  <2>1. opQueue' = Append(opQueue, Op("write", c, 0, "ok"))
    BY <1>5 DEF FinishWrite, Enqueue
  <2>2. QED
    BY <1>1, <1>5, <2>1
<1>6. CASE FailWrite(c)
  <2>1. PICK result \in {"reset", "pipe", "timedOut"} :
          opQueue' = Append(opQueue, Op("write", c, 0, result))
    BY <1>6 DEF FailWrite, EndWrite, Enqueue
  <2>2. QED
    BY <1>1, <1>6, <2>1
<1>7. QED
  BY <1>2, <1>3, <1>4, <1>5, <1>6 DEF Reactor, ClientAsk, ClientHangUp,
     Break, Client

(* What clients, sockets and signals add to the queue. *)
LEMMA OutsideQueue ==
  ASSUME Typed, Outside, opQueue' # opQueue
  PROVE  \E op \in QueuedOps :
           /\ opQueue' = Append(opQueue, op) /\ ~ op.locked
           /\ \/ op.kind = "stop" /\ op.conn = NoConn /\ ReceiveSignal
              \/ \E c \in Conns :
                   /\ op.conn = c
                   /\ \/ op.kind = "accept" /\ ClientConnect(c)
                      \/ /\ op.kind = "read"
                         /\ \/ ReceivePacket(c) \/ ReceiveEnd(c)
                            \/ ReceiveError(c)
                      \/ /\ op.kind = "write"
                         /\ FinishWrite(c) \/ FailWrite(c)
<1>1. CASE ReceiveSignal
  <2>1. Op("stop", NoConn, 0, "ok") \in QueuedOps
    BY DEF Op, QueuedOps, Ops
  <2>2. QED
    BY <1>1, <2>1 DEF ReceiveSignal, Enqueue, Op
<1>2. CASE ~ ReceiveSignal
  BY <1>2, QueuedBy DEF Outside
<1>3. QED
  BY <1>1, <1>2

(* A thread takes an operation from the queue, or works on the accepted    *)
(* connection, or adds to the queue what its own connection has completed. *)
LEMMA WorkerQueue ==
  ASSUME Typed, NEW w \in Workers,
         \/ Return(w) \/ Callback(w) \/ StartWrite(w) \/ Event(w) \/ Stop(w)
         \/ Leave(w)
  PROVE  /\ pc[w] \notin AcceptPcs /\ pc'[w] \notin AcceptPcs
         /\ UNCHANGED next_connection_
         /\ \/ opQueue' = opQueue
            \/ \E op \in QueuedOps : /\ op.kind \in {"read", "write"}
                                     /\ op.conn = Mine(w) /\ Mine(w) \in Conns
                                     /\ opQueue' = Append(opQueue, op)
<1>1. CASE Return(w)
  <2> DEFINE c == Mine(w)
             op == [Head(waiting[c]) EXCEPT !.locked = TRUE]
  <2>1. CallbackReturns(w) /\ UNCHANGED serverVars
    BY <1>1 DEF Return, ServerKept
  <2>2. /\ pc[w] = "return" /\ pc'[w] = "run" /\ c \in Conns
        /\ waiting[c] \in Seq(WaitingOps(c))
    BY <2>1 DEF CallbackReturns, Typed, ThreadTypes, StrandTypes, FrameInv
  <2>3. CASE waiting[c] = << >>
    BY <2>1, <2>2, <2>3 DEF CallbackReturns
  <2>4. CASE waiting[c] # << >>
    <3>1. Head(waiting[c]) \in WaitingOps(c)
      BY <2>2, <2>4, HeadTail
    <3>2. op \in QueuedOps /\ op.kind \in {"read", "write"} /\ op.conn = c
      BY <2>2, <3>1 DEF WaitingOps, QueuedOps, Ops
    <3>3. opQueue' = Append(opQueue, op)
      BY <2>1, <2>4 DEF CallbackReturns, Enqueue
    <3>4. QED
      BY <2>1, <2>2, <3>2, <3>3
  <2>5. QED
    BY <2>3, <2>4
<1>2. CASE Callback(w)
  BY <1>2, CallbackKeeps, CallbackLocal
<1>3. CASE StartWrite(w)
  BY <1>3, WriteLocal
<1>4. CASE Event(w)
  BY <1>4, EventKeeps
<1>5. CASE Stop(w)
  BY <1>5, StopKeeps
<1>6. CASE Leave(w)
  BY <1>6 DEF Leave, LeaveRun, Typed, ThreadTypes
<1>7. QED
  BY <1>1, <1>2, <1>3, <1>4, <1>5, <1>6 DEF Worker

-----------------------------------------------------------------------------
(* The connection that is being accepted *)

(* At most one operation or thread accepts, and next_connection_ is what   *)
(* it accepts.                                                             *)
AcceptInv ==
  /\ \A i \in DOMAIN opQueue : opQueue[i].kind = "accept" =>
       /\ opQueue[i].conn = next_connection_
       /\ \A j \in DOMAIN opQueue : opQueue[j].kind = "accept" => i = j
       /\ \A w \in Workers : pc[w] \notin AcceptPcs
  /\ \A w \in Workers : pc[w] \in AcceptPcs =>
       /\ Mine(w) = next_connection_
       /\ \A v \in Workers : pc[v] \in AcceptPcs => v = w

LEMMA AcceptNext == Typed /\ AcceptInv /\ [Next]_vars => AcceptInv'
<1> SUFFICES ASSUME Typed, AcceptInv, [Next]_vars PROVE AcceptInv'
  OBVIOUS
<1>1. /\ opQueue \in Seq(QueuedOps) /\ pc \in [Workers -> Pcs]
      /\ frame \in [Workers -> Frames] /\ \A w \in Workers : FrameInv(w)
  BY DEF Typed, ThreadTypes
<1>2. ASSUME NEW w \in Workers, Worker(w)
      PROVE  AcceptInv'
  <2>1. \A v \in Workers \ {w} : pc'[v] = pc[v] /\ Mine(v)' = Mine(v)
    BY <1>2, OthersKeep
  <2>2. CASE Take(w)
    <3> DEFINE op == Head(opQueue)
    <3>1. /\ opQueue # << >> /\ opQueue' = Tail(opQueue) /\ pc[w] = "run"
          /\ pc'[w] = op.kind /\ Mine(w)' = op.conn
      BY <1>1, <2>2 DEF Take, RunHandler, Dequeue, Frame
    <3>2. next_connection_' = next_connection_
      BY <2>2 DEF Take, ServerKept
    <3>3. /\ DOMAIN opQueue' \subseteq Nat \ {0}
          /\ 1 \in DOMAIN opQueue /\ op = opQueue[1]
          /\ \A i \in DOMAIN opQueue' :
               i + 1 \in DOMAIN opQueue /\ opQueue'[i] = opQueue[i + 1]
      BY <1>1, <3>1, Popped
    <3>4. \A i \in DOMAIN opQueue' : opQueue'[i].kind = "accept" =>
            /\ opQueue'[i].conn = next_connection_
            /\ \A j \in DOMAIN opQueue' :
                 opQueue'[j].kind = "accept" => i = j
            /\ \A v \in Workers : pc[v] \notin AcceptPcs
            /\ op.kind # "accept"
      BY <3>3 DEF AcceptInv
    <3>5. CASE op.kind = "accept"
      BY <2>1, <3>1, <3>2, <3>3, <3>4, <3>5 DEF AcceptInv
    <3>6. CASE op.kind # "accept"
      <4>1. op.kind \notin AcceptPcs
        <5>1. op \in QueuedOps
          BY <1>1, <3>1, Popped
        <5>2. QED
          BY <3>6, <5>1 DEF QueuedOps, Ops
      <4>2. QED
        BY <2>1, <3>1, <3>2, <3>4, <4>1 DEF AcceptInv
    <3>7. QED
      BY <3>5, <3>6
  <2>3. CASE Delay(w)
    <3>1. /\ opQueue # << >> /\ opQueue' = Tail(opQueue)
          /\ UNCHANGED <<pc, frame>>
      BY <2>3 DEF Delay, WaitForStrand
    <3>2. next_connection_' = next_connection_
      BY <2>3 DEF Delay, ServerKept
    <3>3. /\ DOMAIN opQueue' \subseteq Nat \ {0}
          /\ \A i \in DOMAIN opQueue' :
               i + 1 \in DOMAIN opQueue /\ opQueue'[i] = opQueue[i + 1]
      BY <1>1, <3>1, Popped
    <3>4. QED
      BY <1>1, <3>1, <3>2, <3>3 DEF AcceptInv
  <2>4. CASE Accept(w)
    <3>1. /\ opQueue' = opQueue /\ pc[w] \in AcceptPcs
          /\ \/ pc'[w] = "run"
             \/ /\ pc'[w] \in AcceptPcs /\ Mine(w)' = Mine(w)
                /\ next_connection_' = next_connection_
      BY <1>1, <2>4 DEF Accept, AcceptClosed, AcceptFailed, AcceptStart,
         RegisterHttp, RegisterComms, EndHandler
    <3>2. QED
      BY <2>1, <3>1 DEF AcceptInv
  <2>5. CASE \/ Return(w) \/ Callback(w) \/ StartWrite(w) \/ Event(w)
             \/ Stop(w) \/ Leave(w)
    <3>1. /\ pc[w] \notin AcceptPcs /\ pc'[w] \notin AcceptPcs
          /\ UNCHANGED next_connection_
      BY <2>5, WorkerQueue
    <3>2. CASE opQueue' = opQueue
      BY <2>1, <3>1, <3>2 DEF AcceptInv
    <3>3. CASE opQueue' # opQueue
      <4>1. PICK op \in QueuedOps : /\ op.kind \in {"read", "write"}
                                    /\ opQueue' = Append(opQueue, op)
        BY <2>5, <3>3, WorkerQueue
      <4>2. QED
        BY <1>1, <2>1, <3>1, <4>1, Pushed DEF AcceptInv
    <3>4. QED
      BY <3>2, <3>3
  <2>6. QED
    BY <1>2, <2>2, <2>3, <2>4, <2>5
       DEF Worker, Schedule, Take, Delay, Return, ServerKept
<1>3. CASE Outside
  <2>1. UNCHANGED <<pc, frame>>
    BY <1>3, OutsideKeeps
  <2>2. ASSUME NEW c \in Conns, ClientConnect(c)
        PROVE  AcceptInv'
    <3>1. PICK result \in {"ok", "failed"} :
            /\ next_connection_ = NoConn /\ next_connection_' = c
            /\ opQueue' = Append(opQueue, Op("accept", c, 0, result))
      BY <2>2 DEF ClientConnect, Enqueue
    <3>2. /\ Op("accept", c, 0, result) \in QueuedOps
          /\ Op("accept", c, 0, result).conn = c
          /\ Op("accept", c, 0, result).kind = "accept"
      <4>1. Op("accept", c, 0, result) \in QueuedOps
        BY OpTyped
      <4>2. QED
        BY <4>1 DEF Op
    <3>3. \A i \in DOMAIN opQueue : opQueue[i].kind # "accept"
      BY <1>1, <3>1 DEF AcceptInv, QueuedOps
    <3>4. \A w \in Workers : pc[w] \notin AcceptPcs
      BY <1>1, <3>1 DEF AcceptInv, FrameInv
    <3>5. QED
      BY <1>1, <2>1, <3>1, <3>2, <3>3, <3>4, Pushed DEF AcceptInv
  <2>3. CASE \A c \in Conns : ~ ClientConnect(c)
    <3>1. next_connection_' = next_connection_
      BY <1>3, <2>3 DEF Outside, ClientAsk, ClientHangUp, Break,
         Client, Reactor, ReceivePacket, ReceiveEnd, ReceiveError,
         FinishWrite, FailWrite, EndWrite, ReceiveSignal
    <3>2. CASE opQueue' = opQueue
      BY <2>1, <3>1, <3>2 DEF AcceptInv
    <3>3. CASE opQueue' # opQueue
      <4>1. PICK op \in QueuedOps : /\ op.kind # "accept"
                                    /\ opQueue' = Append(opQueue, op)
        BY <1>3, <2>3, <3>3, OutsideQueue
      <4>2. QED
        BY <1>1, <2>1, <3>1, <4>1, Pushed DEF AcceptInv
    <3>4. QED
      BY <3>2, <3>3
  <2>4. QED
    BY <2>2, <2>3
<1>4. CASE UNCHANGED vars
  BY <1>4 DEF AcceptInv
<1>5. QED
  BY <1>2, <1>3, <1>4 DEF Next, Outside

-----------------------------------------------------------------------------
(* What a thread may change *)

(* A thread changes the sockets, buffers and histories of its connection   *)
(* only, and takes others out of the sets.                                 *)
LEMMA WorkerLocal ==
  ASSUME Typed, NEW w \in Workers, Worker(w), NEW c \in Conns, c # Mine(w)
  PROVE  /\ socket'[c] = socket[c] /\ receiving_'[c] = receiving_[c]
         /\ reads'[c] = reads[c] /\ buffers'[c] = buffers[c]
         /\ front'[c] = front[c] /\ transmitting_'[c] = transmitting_[c]
         /\ disconnect_pending_'[c] = disconnect_pending_[c]
         /\ unsent'[c] = unsent[c] /\ answered'[c] = answered[c]
         /\ created'[c] = created[c] /\ ended'[c] = ended[c]
         /\ UNCHANGED <<asked, inbox, hungUp>> /\ broken'[c] = broken[c]
         /\ c \in connections_' => c \in connections_
         /\ c \in http_connections_' => c \in http_connections_
         /\ raced[c] => raced'[c]
         /\ next_connection_' \in {next_connection_, NoConn}
<1>1. CASE Schedule(w)
  BY <1>1 DEF Schedule, RunHandler, WaitForStrand, CallbackReturns
<1>2. CASE Callback(w)
  BY <1>2, CallbackKeeps, CallbackLocal
<1>3. CASE StartWrite(w)
  BY <1>3, WriteLocal
<1>4. CASE Accept(w)
  <2>1. SocketTypes /\ ClientTypes
    BY DEF Typed
  <2>2. CASE AcceptStart(w)
    BY <2>1, <2>2 DEF SocketTypes, AcceptStart, StartRead
  <2>3. CASE RegisterHttp(w)
    BY <2>1, <2>3 DEF ClientTypes, RegisterHttp
  <2>4. CASE AcceptClosed(w) \/ AcceptFailed(w) \/ RegisterComms(w)
    BY <2>4 DEF AcceptClosed, AcceptFailed, RegisterComms
  <2>5. QED
    BY <1>4, <2>2, <2>3, <2>4 DEF Accept
<1>5. CASE Event(w)
  BY <1>5, EventKeeps
<1>6. CASE Stop(w)
  BY <1>6, StopKeeps
<1>7. CASE Leave(w)
  BY <1>7 DEF Leave, LeaveRun
<1>8. QED
  BY <1>1, <1>2, <1>3, <1>4, <1>5, <1>6, <1>7 DEF Worker

(* What a thread takes from the queue or adds to it, the connection it     *)
(* works for afterwards, and whose strand it touches.                      *)
LEMMA WorkerMoves ==
  ASSUME Typed, NEW w \in Workers, Worker(w)
  PROVE  /\ \A i \in DOMAIN opQueue' :
              \/ \E j \in DOMAIN opQueue : opQueue'[i] = opQueue[j]
              \/ /\ opQueue'[i].kind \in {"read", "write"}
                 /\ opQueue'[i].conn = Mine(w)
         /\ \/ Mine(w)' = Mine(w) /\ (pc'[w] = "accept" => pc[w] = "accept")
            \/ Mine(w)' = NoConn
            \/ Mine(w)' \in http_connections_ /\ pc'[w] # "accept"
            \/ /\ Take(w) /\ pc[w] = "run"
               /\ \E i \in DOMAIN opQueue :
                    /\ Mine(w)' = opQueue[i].conn
                    /\ pc'[w] = opQueue[i].kind
                    /\ frame'[w].result = opQueue[i].result
         /\ \A c \in Conns \ {Mine(w)} :
              \/ strand'[c] = strand[c] /\ waiting'[c] = waiting[c]
              \/ \E i \in DOMAIN opQueue : /\ opQueue[i].conn = c
                                           /\ opQueue[i].kind # "accept"
<1>1. /\ opQueue \in Seq(QueuedOps) /\ pc \in [Workers -> Pcs]
      /\ frame \in [Workers -> Frames] /\ FrameInv(w) /\ StrandTypes
  BY DEF Typed, ThreadTypes
<1>2. CASE Take(w) \/ Delay(w)
  <2>1. /\ opQueue # << >> /\ opQueue' = Tail(opQueue) /\ pc[w] = "run"
    BY <1>2 DEF Take, RunHandler, Dequeue, Delay, WaitForStrand
  <2>2. /\ 1 \in DOMAIN opQueue /\ Head(opQueue) = opQueue[1]
        /\ \A i \in DOMAIN opQueue' :
             i + 1 \in DOMAIN opQueue /\ opQueue'[i] = opQueue[i + 1]
    BY <1>1, <2>1, Popped
  <2>3. CASE Take(w)
    <3>1. /\ pc'[w] = opQueue[1].kind /\ Mine(w)' = opQueue[1].conn
          /\ frame'[w].result = opQueue[1].result
      BY <1>1, <2>2, <2>3 DEF Take, RunHandler, Dequeue, Frame
    <3>2. \A c \in Conns :
            \/ strand'[c] = strand[c] /\ waiting'[c] = waiting[c]
            \/ opQueue[1].conn = c /\ opQueue[1].kind # "accept"
      <4>1. strand \in [Conns -> BOOLEAN] /\ waiting' = waiting
        BY <1>1, <2>3 DEF StrandTypes, Take, RunHandler
      <4>2. \/ strand' = strand
            \/ /\ opQueue[1].kind # "accept"
               /\ strand' = [strand EXCEPT ![opQueue[1].conn] = TRUE]
        BY <2>2, <2>3 DEF Take, RunHandler, Wrapped
      <4>3. QED
        BY <4>1, <4>2
    <3>3. QED
      BY <2>1, <2>2, <2>3, <3>1, <3>2
  <2>4. CASE Delay(w)
    <3>1. UNCHANGED <<pc, frame>>
      BY <2>4 DEF Delay, WaitForStrand
    <3>2. \A c \in Conns :
            \/ strand'[c] = strand[c] /\ waiting'[c] = waiting[c]
            \/ opQueue[1].conn = c /\ opQueue[1].kind # "accept"
      BY <1>1, <2>2, <2>4 DEF Delay, WaitForStrand, Wrapped, StrandTypes
    <3>3. QED
      BY <2>1, <2>2, <3>1, <3>2
  <2>5. QED
    BY <1>2, <2>3, <2>4
<1>3. CASE Accept(w)
  <2>1. UNCHANGED <<opQueue, strand, waiting>>
    BY <1>3 DEF Accept, AcceptClosed, AcceptFailed, AcceptStart, RegisterHttp,
       RegisterComms
  <2>2. CASE AcceptClosed(w) \/ AcceptFailed(w) \/ RegisterComms(w)
    BY <1>1, <2>1, <2>2 DEF AcceptClosed, AcceptFailed, RegisterComms,
       EndHandler, NoFrame, Frame, Op
  <2>3. CASE AcceptStart(w) \/ RegisterHttp(w)
    BY <1>1, <2>1, <2>3 DEF AcceptStart, RegisterHttp
  <2>4. QED
    BY <1>3, <2>2, <2>3 DEF Accept
<1>4. CASE \/ Return(w) \/ Callback(w) \/ StartWrite(w) \/ Event(w)
           \/ Stop(w) \/ Leave(w)
  <2>1. \A i \in DOMAIN opQueue' :
          \/ \E j \in DOMAIN opQueue : opQueue'[i] = opQueue[j]
          \/ /\ opQueue'[i].kind \in {"read", "write"}
             /\ opQueue'[i].conn = Mine(w)
    <3>1. CASE opQueue' = opQueue
      BY <3>1
    <3>2. CASE opQueue' # opQueue
      <4>1. PICK op \in QueuedOps : /\ op.kind \in {"read", "write"}
                                    /\ op.conn = Mine(w)
                                    /\ opQueue' = Append(opQueue, op)
        BY <1>4, <3>2, WorkerQueue
      <4>2. QED
        BY <1>1, <4>1, Pushed
    <3>3. QED
      BY <3>1, <3>2
  <2>2. pc'[w] # "accept"
    BY <1>4, WorkerQueue
  <2>3. CASE Return(w)
    <3>1. Mine(w)' = NoConn
      BY <1>1, <2>3 DEF Return, CallbackReturns, NoFrame, Frame, Op
    <3>2. \A c \in Conns \ {Mine(w)} :
            strand'[c] = strand[c] /\ waiting'[c] = waiting[c]
      BY <1>1, <2>3 DEF Return, CallbackReturns, StrandTypes
    <3>3. QED
      BY <2>1, <3>1, <3>2
  <2>4. CASE Callback(w)
    BY <2>1, <2>2, <2>4, CallbackKeeps, CallbackLocal
  <2>5. CASE StartWrite(w)
    BY <2>1, <2>2, <2>5, WriteLocal
  <2>6. CASE Event(w)
    BY <2>1, <2>2, <2>6, EventKeeps
  <2>7. CASE Stop(w)
    BY <2>1, <2>2, <2>7, StopKeeps
  <2>8. CASE Leave(w)
    BY <2>1, <2>2, <2>8 DEF Leave
  <2>9. QED
    BY <1>4, <2>3, <2>4, <2>5, <2>6, <2>7, <2>8
<1>5. QED
  BY <1>2, <1>3, <1>4
     DEF Worker, Schedule, Take, Delay, Return, ServerKept

(* Only the acceptor gives a connection a socket. *)
LEMMA SocketStays ==
  ASSUME Typed, NEW w \in Workers, Worker(w), NEW c \in Conns,
         socket[c] # "none"
  PROVE  socket'[c] # "none"
<1>1. socket \in [Conns -> {"none", "open", "shut"}]
  BY DEF Typed, SocketTypes
<1>2. CASE Callback(w)
  BY <1>1, <1>2 DEF Callback, ConnectionStep, ReadExpired, ReadData, ReadEnd,
     ReadError, SwapBuffers, TestReceiving, ArmRead, Respond,
     DisconnectInvalid, MarkTransmitting, LeaveReceive, WriteExpired,
     WriteDone, WriteFailed, UnmarkTransmitting, Disconnect, PendDisconnect,
     ShutSocket
<1>3. CASE ~ Callback(w)
  <2>1. socket' = socket
    BY <1>3, WriteLocal, EventKeeps, StopKeeps DEF Worker, Schedule,
       RunHandler, WaitForStrand, CallbackReturns, Accept, AcceptClosed,
       AcceptFailed, AcceptStart, RegisterHttp, RegisterComms, Leave
  <2>2. QED
    BY <2>1
<1>4. QED
  BY <1>2, <1>3

(* What accept_handler does first. *)
LEMMA AcceptMoves ==
  ASSUME Typed, NEW w \in Workers, Worker(w), pc[w] = "accept"
  PROVE  Accept(w) /\ pc'[w] # "accept" /\ opQueue' = opQueue
<1>1. pc \in [Workers -> Pcs]
  BY DEF Typed, ThreadTypes
<1>2. ~ Callback(w)
  BY DEF Callback, ConnectionStep, ReadExpired, ReadData, ReadEnd, ReadError,
     SwapBuffers, TestReceiving, ArmRead, Respond, DisconnectInvalid,
     MarkTransmitting, LeaveReceive, WriteExpired, WriteDone, WriteFailed,
     UnmarkTransmitting, Disconnect, PendDisconnect, ShutSocket
<1>3. ~ (Schedule(w) \/ StartWrite(w) \/ Event(w) \/ Stop(w) \/ Leave(w))
  BY WriteLocal, EventKeeps, StopKeeps DEF Schedule, RunHandler, Dequeue,
     WaitForStrand, CallbackReturns, Leave, LeaveRun
<1>4. Accept(w)
  BY <1>2, <1>3 DEF Worker
<1>5. QED
  BY <1>1, <1>4 DEF Accept, AcceptClosed, AcceptFailed, AcceptStart,
     RegisterHttp, RegisterComms, EndHandler

(* A client and its socket change their connection only. *)
LEMMA OutsideLocal ==
  ASSUME Typed, NEW d \in Conns,
         Client(d) \/ Reactor(d),
         NEW c \in Conns, c # d
  PROVE  /\ socket'[c] = socket[c] /\ reads'[c] = reads[c]
         /\ buffers'[c] = buffers[c] /\ unsent'[c] = unsent[c]
         /\ answered'[c] = answered[c] /\ asked'[c] = asked[c]
         /\ inbox'[c] = inbox[c] /\ hungUp'[c] = hungUp[c]
         /\ broken'[c] = broken[c]
         /\ ended'[c] = ended[c]
<1>1. SocketTypes /\ ClientTypes
  BY DEF Typed
<1>2. QED
  BY <1>1 DEF SocketTypes, ClientTypes, Client, ClientConnect, ClientAsk,
     ClientHangUp, Break, Reactor, ReceivePacket, ReceiveEnd,
     ReceiveError, FinishWrite, FailWrite, EndWrite

(* Where the elements of the queue come from. *)
LEMMA OutsideMoves ==
  ASSUME Typed, NEW d \in Conns,
         Client(d) \/ Reactor(d)
  PROVE  /\ \A i \in DOMAIN opQueue' :
              \/ \E j \in DOMAIN opQueue : opQueue'[i] = opQueue[j]
              \/ /\ opQueue'[i].conn = d
                 /\ opQueue'[i].kind = "accept" => ClientConnect(d)
         /\ next_connection_' # next_connection_ => ClientConnect(d)
<1>1. opQueue \in Seq(QueuedOps)
  BY DEF Typed, ThreadTypes
<1>2. next_connection_' # next_connection_ => ClientConnect(d)
  BY DEF ClientAsk, ClientHangUp, Break, Client, Reactor,
     ReceivePacket, ReceiveEnd, ReceiveError, FinishWrite, FailWrite, EndWrite
<1>3. CASE opQueue' = opQueue
  BY <1>2, <1>3
<1>4. CASE opQueue' # opQueue
  <2>1. PICK op : /\ opQueue' = Append(opQueue, op) /\ op \in QueuedOps
                  /\ op.conn = d
                  /\ op.kind = "accept" => ClientConnect(d)
    BY <1>4, QueuedBy
  <2>2. QED
    BY <1>1, <1>2, <2>1, Pushed
<1>5. QED
  BY <1>3, <1>4

-----------------------------------------------------------------------------
(* A connection that no handler has worked for *)

Accepting(c) ==
  \/ \E i \in DOMAIN opQueue :
       opQueue[i].kind = "accept" /\ opQueue[i].conn = c
  \/ \E w \in Workers : pc[w] = "accept" /\ Mine(w) = c

(* A thread has or will have the connection c with a socket to start. *)
Accepted(c) ==
  \/ \E i \in DOMAIN opQueue : /\ opQueue[i].kind = "accept"
                               /\ opQueue[i].conn = c
                               /\ opQueue[i].result = "ok"
  \/ \E w \in Workers : /\ pc[w] = "accept" /\ Mine(w) = c
                        /\ frame[w].result = "ok"

Clean(c) ==
  /\ reads[c] = << >> /\ waiting[c] = << >> /\ ~ receiving_[c]
  /\ ~ transmitting_[c] /\ ~ disconnect_pending_[c] /\ unsent[c] = {}
  /\ answered[c] = {} /\ ~ created[c] /\ ~ ended[c] /\ ~ strand[c]
  /\ c \notin http_connections_ /\ c \notin connections_
  /\ \A i \in DOMAIN opQueue :
       opQueue[i].conn = c => opQueue[i].kind = "accept"
  /\ \A w \in Workers : Mine(w) = c => pc[w] = "accept"

(* A connection that was not accepted, or is about to be, was never used,  *)
(* and only one with a socket is started.                                  *)
FreshInv ==
  \A c \in Conns :
    /\ socket[c] = "none" => ~ Accepted(c) /\ asked[c] = 0
    /\ socket[c] = "none" \/ Accepting(c) => Clean(c)

LEMMA FreshWorker ==
  ASSUME Typed, AcceptInv, FreshInv, NEW w \in Workers, Worker(w)
  PROVE  FreshInv'
<1> SUFFICES ASSUME NEW c \in Conns
             PROVE  /\ socket'[c] = "none" =>
                         ~ Accepted(c)' /\ asked'[c] = 0
                    /\ socket'[c] = "none" \/ Accepting(c)' => Clean(c)'
  BY DEF FreshInv
<1>1. \A v \in Workers \ {w} : pc'[v] = pc[v] /\ Mine(v)' = Mine(v)
  BY OthersKeep
<1>2. CASE Mine(w) = c
  <2>1. /\ SocketTypes /\ FrameInv(w) /\ pc \in [Workers -> Pcs]
        /\ frame \in [Workers -> Frames]
    BY DEF Typed, ThreadTypes
  <2>2. CASE socket[c] = "none"
    <3>1. Clean(c) /\ ~ Accepted(c) /\ asked[c] = 0
      BY <2>2 DEF FreshInv
    <3>2. pc[w] = "accept" /\ frame[w].result # "ok"
      BY <1>2, <3>1 DEF Clean, Accepted
    <3>3. AcceptClosed(w) \/ AcceptFailed(w)
      BY <3>2, AcceptMoves DEF Accept, AcceptStart, RegisterHttp,
         RegisterComms, EndHandler
    <3>4. /\ UNCHANGED <<opQueue, strand, waiting, socket, rxVars, txVars,
                         connections_, http_connections_, clientVars,
                         historyVars>>
          /\ Mine(w)' = NoConn
      BY <2>1, <3>3 DEF AcceptClosed, AcceptFailed, EndHandler, NoFrame,
         Frame, Op
    <3>5. \A v \in Workers : Mine(v)' = c => v # w /\ pc'[v] = "accept"
      BY <1>1, <3>1, <3>4 DEF Clean
    <3>6. ~ Accepted(c)'
      <4>1. \A v \in Workers \ {w} : frame'[v] = frame[v]
        BY OthersKeep
      <4>2. QED
        BY <1>1, <3>1, <3>4, <4>1 DEF Accepted
    <3>7. Clean(c)'
      BY <3>1, <3>4, <3>5 DEF Clean
    <3>8. QED
      BY <3>1, <3>4, <3>6, <3>7
  <2>3. ASSUME socket[c] # "none"
        PROVE  socket'[c] # "none"
    BY <1>2, <2>1, <2>3, SocketStays
  <2>4. ASSUME socket[c] # "none"
        PROVE  ~ Accepting(c)'
    <3>1. CASE pc[w] = "accept"
      <4>1. Accept(w) /\ pc'[w] # "accept" /\ opQueue' = opQueue
        BY <2>1, <3>1, AcceptMoves
      <4>2. /\ \A v \in Workers \ {w} : pc[v] # "accept"
            /\ \A i \in DOMAIN opQueue : opQueue[i].kind # "accept"
        BY <3>1 DEF AcceptInv
      <4>3. QED
        BY <1>1, <4>1, <4>2 DEF Accepting
    <3>2. CASE pc[w] # "accept"
      <4>1. ~ Accepting(c)
        BY <1>2, <3>2 DEF FreshInv, Clean
      <4>2. pc[w] # "run"
        BY <1>2, <2>1 DEF FrameInv, NoFrame, Frame, Op
      <4>3. pc'[w] = "accept" => Mine(w)' = NoConn
        BY <3>2, <4>2, WorkerMoves
      <4>4. \A i \in DOMAIN opQueue' :
              opQueue'[i].kind = "accept" => opQueue'[i].conn # c
        BY <4>1, WorkerMoves DEF Accepting
      <4>5. QED
        BY <1>1, <4>1, <4>3, <4>4 DEF Accepting
    <3>3. QED
      BY <3>1, <3>2
  <2>5. QED
    BY <2>2, <2>3, <2>4
<1>3. CASE Mine(w) # c
  <2>1. socket'[c] = socket[c]
    BY <1>3, WorkerLocal
  <2>2. Accepting(c)' => Accepting(c)
    <3>1. \A i \in DOMAIN opQueue' :
            opQueue'[i].kind = "accept" /\ opQueue'[i].conn = c =>
              \E j \in DOMAIN opQueue : opQueue'[i] = opQueue[j]
      BY <1>3, WorkerMoves
    <3>2. pc'[w] = "accept" /\ Mine(w)' = c =>
            \E i \in DOMAIN opQueue :
              opQueue[i].kind = "accept" /\ opQueue[i].conn = c
      BY <1>3, WorkerMoves
    <3>3. QED
      BY <1>1, <3>1, <3>2 DEF Accepting
  <2>3. ASSUME socket[c] = "none" \/ Accepting(c)
        PROVE  Clean(c)'
    <3>1. Clean(c)
      BY <2>3 DEF FreshInv
    <3>2. strand'[c] = strand[c] /\ waiting'[c] = waiting[c]
      BY <1>3, <3>1, WorkerMoves DEF Clean
    <3>3. \A i \in DOMAIN opQueue' :
            opQueue'[i].conn = c => opQueue'[i].kind = "accept"
      BY <1>3, <3>1, WorkerMoves DEF Clean
    <3>4. \A v \in Workers : Mine(v)' = c => pc'[v] = "accept"
      <4>1. Mine(w)' = c => pc'[w] = "accept"
        BY <1>3, <3>1, WorkerMoves DEF Clean
      <4>2. QED
        BY <1>1, <3>1, <4>1 DEF Clean
    <3>5. QED
      BY <1>3, <3>1, <3>2, <3>3, <3>4, WorkerLocal DEF Clean
  <2>4. socket[c] = "none" => asked'[c] = 0 /\ ~ Accepted(c)'
    <3>1. \A i \in DOMAIN opQueue' :
            opQueue'[i].kind = "accept" /\ opQueue'[i].conn = c =>
              \E j \in DOMAIN opQueue : opQueue'[i] = opQueue[j]
      BY <1>3, WorkerMoves
    <3>2. pc'[w] = "accept" /\ Mine(w)' = c =>
            \E i \in DOMAIN opQueue : /\ opQueue[i].kind = "accept"
                                      /\ opQueue[i].conn = c
                                      /\ opQueue[i].result = frame'[w].result
      BY <1>3, WorkerMoves
    <3>3. \A v \in Workers \ {w} : frame'[v] = frame[v]
      BY OthersKeep
    <3>4. Accepted(c)' => Accepted(c)
      BY <1>1, <3>1, <3>2, <3>3 DEF Accepted
    <3>5. QED
      BY <1>3, <3>4, WorkerLocal DEF FreshInv
  <2>5. QED
    BY <2>1, <2>2, <2>3, <2>4
<1>4. QED
  BY <1>2, <1>3

LEMMA FreshOutside ==
  ASSUME Typed, FreshInv, Outside
  PROVE  FreshInv'
<1>1. UNCHANGED <<pc, frame, strandVars, connections_, http_connections_,
                  created, receiving_, transmitting_, disconnect_pending_>>
  BY OutsideKeeps
<1>2. opQueue \in Seq(QueuedOps) /\ SocketTypes /\ ClientTypes
  BY DEF Typed, ThreadTypes
<1>3. ASSUME NEW d \in Conns, NEW c \in Conns,
             Client(d) \/ Reactor(d)
      PROVE  /\ socket'[c] = "none" =>
                  ~ Accepted(c)' /\ asked'[c] = 0
             /\ socket'[c] = "none" \/ Accepting(c)' => Clean(c)'
  <2>1. CASE c # d
    <3>1. Accepting(c)' => Accepting(c)
      BY <1>1, <1>3, <2>1, OutsideMoves DEF Accepting
    <3>2. \A i \in DOMAIN opQueue' : opQueue'[i].conn = c =>
            \E j \in DOMAIN opQueue : opQueue'[i] = opQueue[j]
      BY <1>3, <2>1, OutsideMoves
    <3>3. Clean(c) => Clean(c)'
      BY <1>1, <1>3, <2>1, <3>2, OutsideLocal DEF Clean
    <3>4. Accepted(c)' => Accepted(c)
      BY <1>1, <1>3, <2>1, OutsideMoves DEF Accepted
    <3>5. asked'[c] = asked[c] /\ socket'[c] = socket[c]
      BY <1>3, <2>1, OutsideLocal
    <3>6. QED
      BY <3>1, <3>3, <3>4, <3>5 DEF FreshInv
  <2>2. CASE c = d /\ ClientConnect(c)
    <3>1. Clean(c) /\ socket[c] = "none" /\ ~ Accepted(c) /\ asked[c] = 0
      BY <2>2 DEF FreshInv, ClientConnect
    <3>2. PICK result \in {"ok", "failed"} :
            /\ opQueue' = Append(opQueue, Op("accept", c, 0, result))
            /\ result = "ok" => socket'[c] # "none"
      BY <1>2, <2>2 DEF ClientConnect, Enqueue, SocketTypes
    <3>3. /\ Op("accept", c, 0, result) \in QueuedOps
          /\ Op("accept", c, 0, result).kind = "accept"
          /\ Op("accept", c, 0, result).result = result
      <4>1. Op("accept", c, 0, result) \in QueuedOps
        BY OpTyped
      <4>2. QED
        BY <4>1 DEF Op
    <3>4. \A i \in DOMAIN opQueue' :
            opQueue'[i].conn = c =>
              /\ opQueue'[i].kind = "accept"
              /\ \/ i \in DOMAIN opQueue /\ opQueue'[i] = opQueue[i]
                 \/ opQueue'[i].result = result
      BY <1>2, <3>1, <3>2, <3>3, Pushed DEF Clean
    <3>5. UNCHANGED <<reads, unsent, answered, ended, asked>>
      BY <2>2 DEF ClientConnect
    <3>6. Clean(c)'
      BY <1>1, <3>1, <3>4, <3>5 DEF Clean
    <3>7. socket'[c] = "none" => ~ Accepted(c)'
      BY <1>1, <3>1, <3>2, <3>4 DEF Accepted
    <3>8. QED
      BY <3>1, <3>5, <3>6, <3>7
  <2>3. CASE c = d /\ ~ ClientConnect(c)
    <3>1. Accepting(c)' => Accepting(c)
      BY <1>1, <1>3, <2>3, OutsideMoves DEF Accepting
    <3>2. socket' = socket /\ (Accepted(c)' => Accepted(c))
      <4>1. Accepted(c)' => Accepted(c)
        BY <1>1, <1>3, <2>3, OutsideMoves DEF Accepted
      <4>2. QED
        BY <1>3, <2>3, <4>1 DEF ClientAsk, ClientHangUp, Break, Client,
         Reactor, ReceivePacket, ReceiveEnd, ReceiveError, FinishWrite,
         FailWrite, EndWrite
    <3>3. CASE ClientAsk(c) \/ ClientHangUp(c) \/ Break(c)
      <4>1. UNCHANGED <<opQueue, reads, unsent, answered, ended>>
        BY <3>3 DEF ClientAsk, ClientHangUp, Break, Client
      <4>2. socket[c] = "none" => asked'[c] = asked[c]
        BY <3>3 DEF ClientAsk, ClientHangUp, Break, Client
      <4>3. QED
        BY <1>1, <3>1, <3>2, <4>1, <4>2 DEF FreshInv, Clean
    <3>4. CASE Reactor(c)
      <4>1. socket[c] # "none" /\ ~ Clean(c)
        BY <3>4 DEF Reactor, ReceivePacket, ReceiveEnd, ReceiveError,
           FinishWrite, FailWrite, EndWrite, SocketOpen, Clean
      <4>2. QED
        BY <3>1, <3>2, <4>1 DEF FreshInv
    <3>5. QED
      BY <1>3, <2>3, <3>3, <3>4 DEF Client
  <2>4. QED
    BY <1>3, <2>1, <2>2, <2>3
<1>4. CASE ReceiveSignal
  <2>1. /\ UNCHANGED <<socket, reads, unsent, answered, ended, asked>>
        /\ opQueue' = Append(opQueue, Op("stop", NoConn, 0, "ok"))
    BY <1>4 DEF ReceiveSignal, Enqueue
  <2>2. /\ Op("stop", NoConn, 0, "ok") \in QueuedOps
        /\ Op("stop", NoConn, 0, "ok").kind = "stop"
        /\ Op("stop", NoConn, 0, "ok").conn = NoConn
    BY DEF Op, QueuedOps, Ops
  <2>3. \A i \in DOMAIN opQueue' :
          \/ i \in DOMAIN opQueue /\ opQueue'[i] = opQueue[i]
          \/ opQueue'[i].conn = NoConn /\ opQueue'[i].kind = "stop"
    BY <1>2, <2>1, <2>2, Pushed
  <2>4. \A c \in Conns : /\ Accepting(c)' => Accepting(c)
                         /\ Accepted(c)' => Accepted(c)
    BY <1>1, <2>3 DEF Accepting, Accepted
  <2>5. \A c \in Conns : (Clean(c) => Clean(c)')
    BY <1>1, <2>1, <2>3 DEF Clean
  <2>6. QED
    BY <2>1, <2>4, <2>5 DEF FreshInv
<1>5. QED
  BY <1>3, <1>4 DEF Outside, FreshInv

LEMMA FreshNext == Typed /\ AcceptInv /\ FreshInv /\ [Next]_vars => FreshInv'
<1> SUFFICES ASSUME Typed, AcceptInv, FreshInv, [Next]_vars PROVE FreshInv'
  OBVIOUS
<1>1. CASE UNCHANGED vars
  BY <1>1 DEF FreshInv, Clean, Accepting, Accepted
<1>2. QED
  BY <1>1, FreshWorker, FreshOutside DEF Next, Outside

LEMMA FreshInit == Init => AcceptInv /\ FreshInv
BY DEF Init, IoInit, ConnectionInit, AcceptInv, FreshInv, Clean, Accepting,
   Accepted, NoFrame, Frame, Op

-----------------------------------------------------------------------------
(* The two sets of connections *)

(* The loop of shutdown() runs only after the flag is set. *)
ShutInv ==
  \A w \in Workers :
    pc[w] \in {"walk", "clear"} \/ frame[w].after = "walk" => shutting_down_

(* The two classes register and delete a connection in separate steps.     *)
SetInv ==
  /\ \A c \in http_connections_ :
       /\ ~ raced[c] => c \in connections_ \/ c = next_connection_
       /\ c = next_connection_ =>
            \E w \in Workers : pc[w] = "insert" /\ Mine(w) = c
  /\ \A w \in Workers : pc[w] \in {"closing", "erase"} =>
       \/ raced[Mine(w)]
       \/ Mine(w) \notin http_connections_ /\ Mine(w) # next_connection_
  /\ \A w \in Workers : pc[w] \in {"closing", "closeAll"} =>
       \A c \in http_connections_ : raced[c]
  /\ \A w \in Workers : pc[w] = "insert" =>
       Mine(w) \in http_connections_ \/ raced[Mine(w)]
  /\ \A c \in connections_ :
       \/ raced[c] \/ shutting_down_ \/ c \in http_connections_
       \/ \E w \in Workers : pc[w] = "closeAll"
       \/ \E w \in Workers : pc[w] \in {"closing", "erase"} /\ Mine(w) = c

LEMMA TakenKind ==
  ASSUME Typed, opQueue # << >>
  PROVE  Head(opQueue).kind \in Kinds
<1>1. Head(opQueue) \in QueuedOps
  BY HeadTail DEF Typed, ThreadTypes
<1>2. QED
  BY <1>1 DEF QueuedOps, Ops

LEMMA ShutNext ==
  ASSUME Typed, ShutInv, [Next]_vars
  PROVE  ShutInv'
<1>1. /\ pc \in [Workers -> Pcs] /\ frame \in [Workers -> Frames]
      /\ shutting_down_ \in BOOLEAN
  BY DEF Typed, ThreadTypes, ServerTypes
<1>2. ASSUME NEW w \in Workers, Worker(w)
      PROVE  ShutInv'
  <2>1. \A v \in Workers \ {w} :
          pc'[v] = pc[v] /\ frame'[v].after = frame[v].after
    BY <1>2, OthersKeep
  <2>2. shutting_down_ => shutting_down_'
    BY <1>2, CallbackKeeps, WriteLocal, EventKeeps DEF Worker, Schedule,
       Accept, AcceptClosed, AcceptFailed, AcceptStart, RegisterHttp,
       RegisterComms, Leave, Stop, BeginShutdown, WalkOn, WalkEnd, ClearHttp,
       CloseHttp, CloseAll, StopService
  <2>3. pc'[w] \in {"walk", "clear"} \/ frame'[w].after = "walk" =>
          \/ pc[w] \in {"walk", "clear"} \/ frame[w].after = "walk"
          \/ shutting_down_'
    <3>1. CASE Schedule(w) \/ Leave(w)
      <4>1. CASE Schedule(w)
        <5>1. CASE RunHandler(w)
          BY <1>1, <5>1, TakenKind DEF RunHandler, Dequeue, Frame
        <5>2. CASE WaitForStrand(w) \/ CallbackReturns(w)
          BY <1>1, <5>2 DEF WaitForStrand, CallbackReturns, NoFrame, Frame
        <5>3. QED
          BY <4>1, <5>1, <5>2 DEF Schedule
      <4>2. CASE Leave(w)
        BY <1>1, <4>2 DEF Leave, LeaveRun
      <4>3. QED
        BY <3>1, <4>1, <4>2
    <3>2. CASE Callback(w)
      <4>1. CASE SwapBuffers(w) \/ LeaveReceive(w) \/ DisconnectInvalid(w)
        BY <1>1, <4>1 DEF SwapBuffers, LeaveReceive, DisconnectInvalid,
           Frames
      <4>2. CASE Respond(w)
        BY <1>1, <4>2 DEF Respond, AfterSend, Frames
      <4>3. CASE ~ (SwapBuffers(w) \/ Respond(w) \/ DisconnectInvalid(w)
                    \/ LeaveReceive(w))
        <5>1. frame' = frame
          BY <3>2, <4>3 DEF Callback, ConnectionStep, ReadExpired, ReadData,
             ReadEnd, ReadError, TestReceiving, ArmRead, MarkTransmitting,
             WriteExpired, WriteDone, WriteFailed, UnmarkTransmitting,
             Disconnect, PendDisconnect, ShutSocket
        <5>2. pc'[w] = "walk" => frame[w].after = "walk"
          BY <1>1, <3>2, <4>3 DEF Callback, ConnectionStep, ReadExpired,
             ReadData, ReadEnd, ReadError, TestReceiving, ArmRead,
             MarkTransmitting, WriteExpired, WriteDone, WriteFailed,
             UnmarkTransmitting, Disconnect, PendDisconnect, ShutSocket,
             AfterSend
        <5>3. QED
          BY <3>2, <5>1, <5>2, CallbackLocal
      <4>4. QED
        BY <4>1, <4>2, <4>3
    <3>3. CASE StartWrite(w)
      BY <3>3, WriteLocal
    <3>4. CASE Accept(w)
      BY <1>1, <3>4 DEF Accept, AcceptClosed, AcceptFailed, AcceptStart,
         RegisterHttp, RegisterComms, EndHandler, NoFrame, Frame
    <3>5. CASE Event(w)
      BY <1>1, <3>5 DEF Event, ReceivedUnknown, Received, Disconnected,
         CloseServer, EraseConnection, Frames
    <3>6. CASE Stop(w)
      BY <1>1, <3>6 DEF Stop, BeginShutdown, WalkOn, WalkEnd, ClearHttp,
         CloseHttp, CloseAll, StopService, EndHandler, NoFrame, Frame
    <3>7. QED
      BY <1>2, <3>1, <3>2, <3>3, <3>4, <3>5, <3>6 DEF Worker
  <2>4. QED
    BY <2>1, <2>2, <2>3 DEF ShutInv
<1>3. CASE Outside
  BY <1>3, OutsideKeeps DEF ShutInv
<1>4. CASE UNCHANGED vars
  BY <1>4 DEF ShutInv
<1>5. QED
  BY <1>2, <1>3, <1>4 DEF Next, Outside

(* Steps that do not change the sets, or the threads that do. *)
LEMMA SetQuiet ==
  ASSUME Typed, SetInv, NEW w \in Workers,
         UNCHANGED <<connections_, http_connections_, next_connection_>>,
         shutting_down_ => shutting_down_',
         \A c \in Conns : raced[c] => raced'[c],
         \A v \in Workers \ {w} : pc'[v] = pc[v] /\ Mine(v)' = Mine(v),
         pc[w] \notin {"insert", "closing", "erase", "closeAll"},
         pc'[w] \notin {"insert", "closing", "erase", "closeAll"}
  PROVE  SetInv'
<1>1. /\ connections_ \subseteq Conns /\ http_connections_ \subseteq Conns
      /\ \A v \in Workers : FrameInv(v)
  BY DEF Typed, ServerTypes
<1>2. \A v \in Workers :
        pc'[v] \in {"insert", "closing", "erase", "closeAll"} =>
          v # w /\ pc[v] = pc'[v] /\ Mine(v)' = Mine(v)
  OBVIOUS
<1>3. \A v \in Workers :
        pc[v] \in {"insert", "closing", "erase", "closeAll"} =>
          v # w /\ pc[v] = pc'[v] /\ Mine(v)' = Mine(v)
  OBVIOUS
<1>4. \A v \in Workers : pc[v] \in {"insert", "closing", "erase"} =>
        Mine(v) \in Conns
  BY <1>1 DEF FrameInv
<1>5. \A c \in http_connections_' :
        /\ ~ raced'[c] => c \in connections_' \/ c = next_connection_'
        /\ c = next_connection_' =>
             \E v \in Workers : pc'[v] = "insert" /\ Mine(v)' = c
  BY <1>1, <1>3 DEF SetInv
<1>6. \A v \in Workers : pc'[v] \in {"closing", "erase"} =>
        \/ raced'[Mine(v)']
        \/ /\ Mine(v)' \notin http_connections_'
           /\ Mine(v)' # next_connection_'
  BY <1>2, <1>4 DEF SetInv
<1>7. \A v \in Workers : pc'[v] \in {"closing", "closeAll"} =>
        \A c \in http_connections_' : raced'[c]
  BY <1>1, <1>2 DEF SetInv
<1>8. \A v \in Workers : pc'[v] = "insert" =>
        Mine(v)' \in http_connections_' \/ raced'[Mine(v)']
  BY <1>2, <1>4 DEF SetInv
<1>9. \A c \in connections_' :
        \/ raced'[c] \/ shutting_down_' \/ c \in http_connections_'
        \/ \E v \in Workers : pc'[v] = "closeAll"
        \/ \E v \in Workers : pc'[v] \in {"closing", "erase"} /\ Mine(v)' = c
  BY <1>1, <1>3 DEF SetInv
<1>10. QED
  BY <1>5, <1>6, <1>7, <1>8, <1>9 DEF SetInv

LEMMA SetAccept ==
  ASSUME Typed, AcceptInv, SetInv, NEW w \in Workers, Accept(w),
         \A v \in Workers \ {w} : pc'[v] = pc[v] /\ Mine(v)' = Mine(v)
  PROVE  SetInv'
<1> DEFINE c == Mine(w)
<1>1. /\ pc \in [Workers -> Pcs] /\ frame \in [Workers -> Frames]
      /\ \A v \in Workers : FrameInv(v)
      /\ connections_ \subseteq Conns /\ http_connections_ \subseteq Conns
      /\ raced \in [Conns -> BOOLEAN]
  BY DEF Typed, ThreadTypes, ServerTypes, ClientTypes
<1>2. pc[w] \in AcceptPcs
  BY DEF Accept, AcceptClosed, AcceptFailed, AcceptStart, RegisterHttp,
     RegisterComms, EndHandler
<1>3. /\ c \in Conns /\ c = next_connection_
      /\ \A v \in Workers \ {w} : pc[v] \notin AcceptPcs
  BY <1>1, <1>2 DEF AcceptInv, FrameInv
<1>4. CASE AcceptClosed(w) \/ AcceptStart(w)
  BY <1>1, <1>4, SetQuiet DEF AcceptClosed, AcceptStart, EndHandler
<1>5. CASE RegisterHttp(w)
  <2>1. /\ pc[w] = "connected" /\ pc'[w] = "insert" /\ Mine(w)' = c
        /\ http_connections_' = http_connections_ \cup {c}
        /\ UNCHANGED <<connections_, next_connection_, shutting_down_>>
        /\ \A d \in Conns : raced[d] => raced'[d]
        /\ (\E v \in Workers : pc[v] \in {"closing", "closeAll"}) => raced'[c]
    BY <1>1, <1>3, <1>5 DEF RegisterHttp
  <2>2. \A d \in http_connections_' :
          /\ ~ raced'[d] => d \in connections_' \/ d = next_connection_'
          /\ d = next_connection_' =>
               \E v \in Workers : pc'[v] = "insert" /\ Mine(v)' = d
    BY <1>1, <1>3, <2>1 DEF SetInv
  <2>3. \A v \in Workers : pc'[v] \in {"closing", "erase"} =>
          \/ raced'[Mine(v)']
          \/ /\ Mine(v)' \notin http_connections_'
             /\ Mine(v)' # next_connection_'
    <3>1. \A v \in Workers : pc'[v] \in {"closing", "erase"} =>
            /\ pc[v] = pc'[v] /\ Mine(v)' = Mine(v) /\ Mine(v) \in Conns
      BY <1>1, <2>1 DEF FrameInv
    <3>2. QED
      BY <1>3, <2>1, <3>1 DEF SetInv
  <2>4. \A v \in Workers : pc'[v] \in {"closing", "closeAll"} =>
          \A d \in http_connections_' : raced'[d]
    BY <1>1, <1>3, <2>1 DEF SetInv
  <2>5. \A v \in Workers : pc'[v] = "insert" =>
          Mine(v)' \in http_connections_' \/ raced'[Mine(v)']
    BY <1>3, <2>1
  <2>6. \A d \in connections_' :
          \/ raced'[d] \/ shutting_down_' \/ d \in http_connections_'
          \/ \E v \in Workers : pc'[v] = "closeAll"
          \/ \E v \in Workers : pc'[v] \in {"closing", "erase"} /\ Mine(v)' = d
    <3>1. \A v \in Workers : pc[v] \in {"closing", "erase", "closeAll"} =>
            pc'[v] = pc[v] /\ Mine(v)' = Mine(v)
      BY <2>1
    <3>2. QED
      BY <1>1, <2>1, <3>1 DEF SetInv
  <2>7. QED
    BY <2>2, <2>3, <2>4, <2>5, <2>6 DEF SetInv
<1>6. CASE RegisterComms(w)
  <2>1. /\ pc[w] = "insert" /\ pc'[w] = "run"
        /\ connections_' = connections_ \cup {c}
        /\ next_connection_' = NoConn
        /\ UNCHANGED <<http_connections_, shutting_down_, raced>>
    BY <1>1, <1>3, <1>6 DEF RegisterComms, EndHandler
  <2>2. \A d \in http_connections_' :
          /\ ~ raced'[d] => d \in connections_' \/ d = next_connection_'
          /\ d = next_connection_' =>
               \E v \in Workers : pc'[v] = "insert" /\ Mine(v)' = d
    BY <1>1, <1>3, <2>1 DEF SetInv
  <2>3. \A v \in Workers : pc'[v] \in {"closing", "erase"} =>
          \/ raced'[Mine(v)']
          \/ /\ Mine(v)' \notin http_connections_'
             /\ Mine(v)' # next_connection_'
    <3>1. \A v \in Workers : pc'[v] \in {"closing", "erase"} =>
            /\ pc[v] = pc'[v] /\ Mine(v)' = Mine(v) /\ Mine(v) \in Conns
      BY <1>1, <2>1 DEF FrameInv
    <3>2. QED
      BY <2>1, <3>1 DEF SetInv
  <2>4. \A v \in Workers : pc'[v] \in {"closing", "closeAll"} =>
          \A d \in http_connections_' : raced'[d]
    BY <2>1 DEF SetInv
  <2>5. \A v \in Workers : pc'[v] # "insert"
    BY <1>3, <2>1
  <2>6. \A d \in connections_' :
          \/ raced'[d] \/ shutting_down_' \/ d \in http_connections_'
          \/ \E v \in Workers : pc'[v] = "closeAll"
          \/ \E v \in Workers : pc'[v] \in {"closing", "erase"} /\ Mine(v)' = d
    <3>1. \A v \in Workers : pc[v] \in {"closing", "erase", "closeAll"} =>
            pc'[v] = pc[v] /\ Mine(v)' = Mine(v)
      BY <2>1
    <3>2. QED
      BY <1>1, <2>1, <3>1 DEF SetInv
  <2>7. QED
    BY <2>2, <2>3, <2>4, <2>5, <2>6 DEF SetInv
<1>7. CASE AcceptFailed(w)
  <2>1. /\ pc[w] = "accept" /\ pc'[w] = "run" /\ next_connection_' = NoConn
        /\ UNCHANGED <<http_connections_, connections_, shutting_down_, raced>>
    BY <1>1, <1>7 DEF AcceptFailed, EndHandler
  <2>2. c \notin http_connections_
    BY <1>3, <2>1 DEF SetInv
  <2>3. \A v \in Workers :
          /\ pc'[v] \in {"insert", "closing", "erase", "closeAll"} =>
               pc[v] = pc'[v] /\ Mine(v)' = Mine(v)
          /\ pc[v] \in {"insert", "closing", "erase", "closeAll"} =>
               pc[v] = pc'[v] /\ Mine(v)' = Mine(v)
    BY <2>1
  <2>4. \A v \in Workers : pc[v] \in {"closing", "erase"} =>
          Mine(v) \in Conns
    BY <1>1 DEF FrameInv
  <2>5. \A d \in http_connections_' :
          /\ ~ raced'[d] => d \in connections_'
          /\ d # next_connection_'
    BY <1>1, <1>3, <2>1, <2>2, NoConnAssumption DEF SetInv
  <2>6. \A v \in Workers : pc'[v] \in {"closing", "erase"} =>
          \/ raced'[Mine(v)']
          \/ /\ Mine(v)' \notin http_connections_'
             /\ Mine(v)' # next_connection_'
    BY <2>1, <2>3, <2>4, NoConnAssumption DEF SetInv
  <2>7. /\ \A v \in Workers : pc'[v] \in {"closing", "closeAll"} =>
             \A d \in http_connections_' : raced'[d]
        /\ \A v \in Workers : pc'[v] = "insert" =>
             Mine(v)' \in http_connections_' \/ raced'[Mine(v)']
    BY <2>1, <2>3 DEF SetInv
  <2>8. \A d \in connections_' :
          \/ raced'[d] \/ shutting_down_' \/ d \in http_connections_'
          \/ \E v \in Workers : pc'[v] = "closeAll"
          \/ \E v \in Workers : pc'[v] \in {"closing", "erase"} /\ Mine(v)' = d
    BY <2>1, <2>3 DEF SetInv
  <2>9. QED
    BY <2>5, <2>6, <2>7, <2>8 DEF SetInv
<1>8. QED
  BY <1>4, <1>5, <1>6, <1>7 DEF Accept

LEMMA SetEvent ==
  ASSUME Typed, AcceptInv, SetInv, NEW w \in Workers, Event(w),
         \A v \in Workers \ {w} : pc'[v] = pc[v] /\ Mine(v)' = Mine(v)
  PROVE  SetInv'
<1> DEFINE c == Mine(w)
<1>1. /\ pc \in [Workers -> Pcs] /\ frame \in [Workers -> Frames]
      /\ \A v \in Workers : FrameInv(v)
      /\ connections_ \subseteq Conns /\ http_connections_ \subseteq Conns
      /\ raced \in [Conns -> BOOLEAN]
      /\ frame[w].after \in {"return", "parse", "leave", "invalid", "walk"}
  BY DEF Typed, ThreadTypes, ServerTypes, ClientTypes, Frames
<1>2. /\ c \in Conns /\ Mine(w)' = c
      /\ UNCHANGED <<next_connection_, shutting_down_>>
      /\ \A d \in Conns : raced[d] => raced'[d]
  BY EventKeeps
<1>3. \A v \in Workers : pc[v] \in {"closing", "erase"} \cup AcceptPcs =>
        Mine(v) \in Conns
  BY <1>1 DEF FrameInv
<1>4. CASE ReceivedUnknown(w) \/ Received(w)
  <2>1. /\ pc[w] = "received" /\ pc'[w] \in {"enable", "swap"}
        /\ UNCHANGED <<connections_, http_connections_>>
    BY <1>1, <1>4 DEF ReceivedUnknown, Received
  <2>2. QED
    BY <1>2, <2>1, SetQuiet
<1>5. CASE Disconnected(w)
  <2>1. /\ pc[w] = "disconnected" /\ pc'[w] \in {"closing", "erase"}
        /\ http_connections_' = http_connections_ \ {c}
        /\ pc'[w] = "closing" => http_connections_' = {}
        /\ connections_' = connections_
        /\ c = next_connection_ => raced'[c]
    BY <1>1, <1>2, <1>5 DEF Disconnected
  <2>2. \A d \in http_connections_' :
          /\ ~ raced'[d] => d \in connections_' \/ d = next_connection_'
          /\ d = next_connection_' =>
               \E v \in Workers : pc'[v] = "insert" /\ Mine(v)' = d
    <3>1. \A v \in Workers : pc[v] = "insert" =>
            pc'[v] = "insert" /\ Mine(v)' = Mine(v)
      BY <2>1
    <3>2. QED
      BY <1>1, <1>2, <2>1, <3>1 DEF SetInv
  <2>3. \A v \in Workers : pc'[v] \in {"closing", "erase"} =>
          \/ raced'[Mine(v)']
          \/ /\ Mine(v)' \notin http_connections_'
             /\ Mine(v)' # next_connection_'
    BY <1>2, <1>3, <2>1 DEF SetInv
  <2>4. \A v \in Workers : pc'[v] \in {"closing", "closeAll"} =>
          \A d \in http_connections_' : raced'[d]
    BY <1>1, <1>2, <2>1 DEF SetInv
  <2>5. \A v \in Workers : pc'[v] = "insert" =>
          Mine(v)' \in http_connections_' \/ raced'[Mine(v)']
    <3>1. \A v \in Workers : pc'[v] = "insert" =>
            /\ pc[v] = "insert" /\ Mine(v)' = Mine(v)
            /\ Mine(v) = next_connection_ /\ Mine(v) \in Conns
      BY <1>3, <2>1 DEF AcceptInv
    <3>2. QED
      BY <1>2, <2>1, <3>1 DEF SetInv
  <2>6. \A d \in connections_' :
          \/ raced'[d] \/ shutting_down_' \/ d \in http_connections_'
          \/ \E v \in Workers : pc'[v] = "closeAll"
          \/ \E v \in Workers : pc'[v] \in {"closing", "erase"} /\ Mine(v)' = d
    <3>1. \A v \in Workers : pc[v] \in {"closing", "erase", "closeAll"} =>
            pc'[v] = pc[v] /\ Mine(v)' = Mine(v)
      BY <2>1
    <3>2. QED
      BY <1>1, <1>2, <2>1, <3>1 DEF SetInv
  <2>7. QED
    BY <2>2, <2>3, <2>4, <2>5, <2>6 DEF SetInv
<1>6. CASE CloseServer(w)
  <2>1. /\ pc[w] = "closing" /\ pc'[w] = "erase"
        /\ connections_' = {} /\ http_connections_' = http_connections_
        /\ raced' = raced
    BY <1>1, <1>6 DEF CloseServer
  <2>2. \A d \in http_connections_' :
          /\ ~ raced'[d] => d \in connections_' \/ d = next_connection_'
          /\ d = next_connection_' =>
               \E v \in Workers : pc'[v] = "insert" /\ Mine(v)' = d
    <3>1. \A v \in Workers : pc[v] = "insert" =>
            pc'[v] = "insert" /\ Mine(v)' = Mine(v)
      BY <2>1
    <3>2. QED
      BY <1>1, <1>2, <2>1, <3>1 DEF SetInv
  <2>3. \A v \in Workers : pc'[v] \in {"closing", "erase"} =>
          \/ raced'[Mine(v)']
          \/ /\ Mine(v)' \notin http_connections_'
             /\ Mine(v)' # next_connection_'
    <3>1. \A v \in Workers : pc'[v] \in {"closing", "erase"} =>
            pc[v] \in {"closing", "erase"} /\ Mine(v)' = Mine(v)
      BY <1>2, <2>1
    <3>2. QED
      BY <1>2, <2>1, <3>1 DEF SetInv
  <2>4. \A v \in Workers : pc'[v] \in {"closing", "closeAll"} =>
          \A d \in http_connections_' : raced'[d]
    BY <2>1 DEF SetInv
  <2>5. \A v \in Workers : pc'[v] = "insert" =>
          Mine(v)' \in http_connections_' \/ raced'[Mine(v)']
    <3>1. \A v \in Workers : pc'[v] = "insert" =>
            pc[v] = "insert" /\ Mine(v)' = Mine(v)
      BY <2>1
    <3>2. QED
      BY <2>1, <3>1 DEF SetInv
  <2>6. QED
    BY <2>1, <2>2, <2>3, <2>4, <2>5 DEF SetInv
<1>7. CASE EraseConnection(w)
  <2>1. /\ pc[w] = "erase"
        /\ pc'[w] \notin {"closing", "closeAll", "erase", "insert"}
        /\ connections_' = connections_ \ {c}
        /\ http_connections_' = http_connections_ /\ raced' = raced
    BY <1>1, <1>7 DEF EraseConnection
  <2>2. \A v \in Workers :
          pc'[v] \in {"closing", "closeAll", "erase", "insert"} =>
            v # w /\ pc[v] = pc'[v] /\ Mine(v)' = Mine(v)
    BY <2>1
  <2>3. \A d \in http_connections_' :
          /\ ~ raced'[d] => d \in connections_' \/ d = next_connection_'
          /\ d = next_connection_' =>
               \E v \in Workers : pc'[v] = "insert" /\ Mine(v)' = d
    <3>1. \A v \in Workers : pc[v] = "insert" =>
            pc'[v] = "insert" /\ Mine(v)' = Mine(v)
      BY <2>1
    <3>2. c \in http_connections_ => raced[c]
      BY <2>1 DEF SetInv
    <3>3. QED
      BY <1>1, <1>2, <2>1, <3>1, <3>2 DEF SetInv
  <2>4. \A v \in Workers : pc'[v] \in {"closing", "erase"} =>
          \/ raced'[Mine(v)']
          \/ /\ Mine(v)' \notin http_connections_'
             /\ Mine(v)' # next_connection_'
    BY <1>2, <2>1, <2>2 DEF SetInv
  <2>5. \A v \in Workers : pc'[v] \in {"closing", "closeAll"} =>
          \A d \in http_connections_' : raced'[d]
    BY <2>1, <2>2 DEF SetInv
  <2>6. \A v \in Workers : pc'[v] = "insert" =>
          Mine(v)' \in http_connections_' \/ raced'[Mine(v)']
    BY <2>1, <2>2 DEF SetInv
  <2>7. \A d \in connections_' :
          \/ raced'[d] \/ shutting_down_' \/ d \in http_connections_'
          \/ \E v \in Workers : pc'[v] = "closeAll"
          \/ \E v \in Workers : pc'[v] \in {"closing", "erase"} /\ Mine(v)' = d
    <3>1. \A v \in Workers :
            /\ pc[v] \in {"closing", "erase", "closeAll"}
            /\ v = w => Mine(v) # c
            => pc'[v] = pc[v] /\ Mine(v)' = Mine(v)
      BY <2>1
    <3>2. \A v \in Workers : pc[v] = "closeAll" => pc'[v] = "closeAll"
      BY <2>1
    <3>3. QED
      BY <1>1, <1>2, <2>1, <3>1, <3>2 DEF SetInv
  <2>8. QED
    BY <2>3, <2>4, <2>5, <2>6, <2>7 DEF SetInv
<1>8. QED
  BY <1>4, <1>5, <1>6, <1>7 DEF Event

LEMMA SetStop ==
  ASSUME Typed, AcceptInv, ShutInv, SetInv, NEW w \in Workers, Stop(w),
         \A v \in Workers \ {w} : pc'[v] = pc[v] /\ Mine(v)' = Mine(v)
  PROVE  SetInv'
<1>1. /\ pc \in [Workers -> Pcs] /\ frame \in [Workers -> Frames]
      /\ \A v \in Workers : FrameInv(v)
      /\ connections_ \subseteq Conns /\ http_connections_ \subseteq Conns
      /\ raced \in [Conns -> BOOLEAN]
  BY DEF Typed, ThreadTypes, ServerTypes, ClientTypes
<1>2. /\ next_connection_' = next_connection_
      /\ \A d \in Conns : raced[d] => raced'[d]
  BY StopKeeps
<1>3. \A v \in Workers : pc[v] \in {"closing", "erase"} \cup AcceptPcs =>
        Mine(v) \in Conns
  BY <1>1 DEF FrameInv
<1>4. CASE BeginShutdown(w) \/ WalkOn(w) \/ WalkEnd(w) \/ StopService(w)
  <2>1. /\ UNCHANGED <<connections_, http_connections_>>
        /\ shutting_down_ => shutting_down_'
        /\ pc[w] \notin {"insert", "closing", "erase", "closeAll"}
        /\ pc'[w] \notin {"insert", "closing", "erase", "closeAll"}
    BY <1>1, <1>4 DEF BeginShutdown, WalkOn, WalkEnd, StopService, EndHandler
  <2>2. QED
    BY <1>2, <2>1, SetQuiet
<1>5. CASE ClearHttp(w) \/ CloseHttp(w)
  <2>1. /\ http_connections_' = {}
        /\ UNCHANGED <<connections_, shutting_down_>>
        /\ \A d \in Conns : d = next_connection_ => raced'[d]
        /\ pc[w] \in {"clear", "clearAll"}
        /\ pc'[w] = IF pc[w] = "clear" THEN "stopIo" ELSE "closeAll"
    BY <1>1, <1>5 DEF ClearHttp, CloseHttp, DeleteAllHttp
  <2>2. \A v \in Workers : pc'[v] \in {"closing", "erase", "insert"} =>
          v # w /\ pc[v] = pc'[v] /\ Mine(v)' = Mine(v) /\ Mine(v) \in Conns
    BY <1>3, <2>1
  <2>3. \A v \in Workers : pc[v] \in {"closing", "erase", "insert"} =>
          v # w /\ pc[v] = pc'[v] /\ Mine(v)' = Mine(v)
    BY <2>1
  <2>4. \A v \in Workers : pc'[v] \in {"closing", "erase"} =>
          \/ raced'[Mine(v)']
          \/ /\ Mine(v)' \notin http_connections_'
             /\ Mine(v)' # next_connection_'
    BY <1>2, <2>1, <2>2 DEF SetInv
  <2>5. \A v \in Workers : pc'[v] = "insert" =>
          Mine(v)' \in http_connections_' \/ raced'[Mine(v)']
    BY <1>2, <2>1, <2>2 DEF AcceptInv
  <2>6. shutting_down_' \/ \E v \in Workers : pc'[v] = "closeAll"
    BY <2>1 DEF ShutInv
  <2>7. QED
    BY <2>1, <2>4, <2>5, <2>6 DEF SetInv
<1>6. CASE CloseAll(w)
  <2>1. /\ pc[w] = "closeAll" /\ pc'[w] = "stopIo"
        /\ connections_' = {} /\ UNCHANGED <<http_connections_, raced>>
    BY <1>1, <1>6 DEF CloseAll
  <2>2. \A v \in Workers :
          pc'[v] \in {"closing", "erase", "insert", "closeAll"} =>
            v # w /\ pc[v] = pc'[v] /\ Mine(v)' = Mine(v)
    BY <2>1
  <2>3. \A d \in http_connections_' :
          /\ raced'[d]
          /\ d = next_connection_' =>
               \E v \in Workers : pc'[v] = "insert" /\ Mine(v)' = d
    <3>1. \A v \in Workers : pc[v] = "insert" =>
            pc'[v] = "insert" /\ Mine(v)' = Mine(v)
      BY <2>1
    <3>2. QED
      BY <1>1, <1>2, <2>1, <3>1 DEF SetInv
  <2>4. \A v \in Workers : pc'[v] \in {"closing", "erase"} =>
          \/ raced'[Mine(v)']
          \/ /\ Mine(v)' \notin http_connections_'
             /\ Mine(v)' # next_connection_'
    BY <1>2, <2>1, <2>2 DEF SetInv
  <2>5. \A v \in Workers : pc'[v] = "insert" =>
          Mine(v)' \in http_connections_' \/ raced'[Mine(v)']
    BY <2>1, <2>2 DEF SetInv
  <2>6. QED
    BY <2>1, <2>3, <2>4, <2>5 DEF SetInv
<1>7. QED
  BY <1>4, <1>5, <1>6 DEF Stop

LEMMA SetWorker ==
  ASSUME Typed, AcceptInv, ShutInv, SetInv, NEW w \in Workers, Worker(w)
  PROVE  SetInv'
<1>1. \A v \in Workers \ {w} : pc'[v] = pc[v] /\ Mine(v)' = Mine(v)
  BY OthersKeep
<1>2. /\ pc \in [Workers -> Pcs] /\ frame \in [Workers -> Frames]
  BY DEF Typed, ThreadTypes
<1>3. CASE Schedule(w) \/ Leave(w)
  <2>1. /\ UNCHANGED <<connections_, http_connections_, next_connection_,
                       shutting_down_, raced>>
        /\ pc[w] \notin {"insert", "closing", "erase", "closeAll"}
    BY <1>3 DEF Schedule, RunHandler, Dequeue, WaitForStrand,
       CallbackReturns, Leave, LeaveRun
  <2>2. pc'[w] \notin {"insert", "closing", "erase", "closeAll"}
    BY <1>2, <1>3, TakenKind DEF Schedule, RunHandler, Dequeue,
       WaitForStrand, CallbackReturns, Leave, LeaveRun
  <2>3. QED
    BY <1>1, <2>1, <2>2, SetQuiet
<1>4. CASE Callback(w)
  <2>1. UNCHANGED <<connections_, http_connections_, next_connection_,
                    shutting_down_, raced>>
    BY <1>4, CallbackKeeps
  <2>2. frame[w].after \in {"return", "parse", "leave", "invalid", "walk"}
    BY <1>2 DEF Frames
  <2>3. /\ pc[w] \notin {"insert", "closing", "erase", "closeAll"}
        /\ pc'[w] \notin {"insert", "closing", "erase", "closeAll"}
    BY <1>2, <1>4, <2>2 DEF Callback, ConnectionStep, ReadExpired, ReadData,
       ReadEnd, ReadError, SwapBuffers, TestReceiving, ArmRead, Respond,
       DisconnectInvalid, MarkTransmitting, LeaveReceive, WriteExpired,
       WriteDone, WriteFailed, UnmarkTransmitting, Disconnect, PendDisconnect,
       ShutSocket, AfterSend, Replies
  <2>4. QED
    BY <1>1, <2>1, <2>3, SetQuiet
<1>5. CASE StartWrite(w)
  BY <1>1, <1>5, WriteLocal, SetQuiet
<1>6. QED
  BY <1>1, <1>3, <1>4, <1>5, SetAccept, SetEvent, SetStop DEF Worker

LEMMA SetNext ==
  ASSUME Typed, AcceptInv, FreshInv, ShutInv, SetInv, [Next]_vars
  PROVE  SetInv'
<1>1. CASE Outside
  <2>1. UNCHANGED <<pc, frame, connections_, http_connections_,
                    shutting_down_, raced>>
    BY <1>1, OutsideKeeps
  <2>2. CASE next_connection_' = next_connection_
    BY <2>1, <2>2 DEF SetInv
  <2>3. ASSUME NEW c \in Conns, ClientConnect(c)
        PROVE  SetInv'
    <3>1. /\ next_connection_ = NoConn /\ next_connection_' = c /\ Clean(c)
      BY <2>3 DEF ClientConnect, Client, FreshInv
    <3>2. NoConn \notin connections_
      BY DEF Typed, ServerTypes
    <3>3. /\ c \notin http_connections_
          /\ \A w \in Workers : pc[w] # "accept" => Mine(w) # c
      BY <3>1 DEF Clean
    <3>4. \A w \in Workers : pc[w] # "insert"
      BY <3>1 DEF AcceptInv, Typed, FrameInv
    <3>5. QED
      BY <2>1, <3>1, <3>2, <3>3, <3>4 DEF SetInv, Typed, ServerTypes
  <2>4. QED
    BY <1>1, <2>2, <2>3, OutsideMoves
       DEF Outside, ReceiveSignal
<1>2. CASE UNCHANGED vars
  BY <1>2 DEF SetInv
<1>3. QED
  BY <1>1, <1>2, SetWorker DEF Next, Outside

-----------------------------------------------------------------------------
(* Completed operations *)

(* The operations of c that wait for a thread, as Pending looks at them. *)
Completed(c) ==
  {op \in ToSet(opQueue) \cup ToSet(waiting[c]) : op.conn = c}

(* The same operation, with or without the strand. *)
Same(op, other) ==
  /\ op.kind = other.kind /\ op.conn = other.conn
  /\ op.packet = other.packet /\ op.result = other.result

LEMMA CompletedTyped ==
  ASSUME Typed, NEW c \in Conns
  PROVE  /\ Completed(c) \subseteq QueuedOps
         /\ ToSet(waiting[c]) \subseteq Completed(c)
         /\ \A i \in DOMAIN opQueue :
              opQueue[i].conn = c => opQueue[i] \in Completed(c)
         /\ \A op \in Completed(c) :
              \/ \E i \in DOMAIN opQueue : op = opQueue[i]
              \/ op \in ToSet(waiting[c])
<1>1. opQueue \in Seq(QueuedOps) /\ waiting[c] \in Seq(WaitingOps(c))
  BY DEF Typed, ThreadTypes, StrandTypes
<1>2. /\ \A i \in DOMAIN opQueue : opQueue[i] \in QueuedOps
      /\ \A i \in DOMAIN waiting[c] : waiting[c][i] \in WaitingOps(c)
  BY <1>1
<1>3. ToSet(opQueue) \subseteq QueuedOps
  BY <1>2 DEF ToSet
<1>4. ToSet(waiting[c]) \subseteq WaitingOps(c)
  BY <1>2 DEF ToSet
<1>5. ToSet(waiting[c]) \subseteq QueuedOps
  BY <1>4, OpsTyped
<1>6. \A op \in ToSet(waiting[c]) : op.conn = c
  BY <1>4 DEF WaitingOps
<1>7. QED
  BY <1>3, <1>5, <1>6 DEF Completed, ToSet

LEMMA ToSetAppend ==
  ASSUME NEW S, NEW s \in Seq(S), NEW e \in S
  PROVE  ToSet(Append(s, e)) = ToSet(s) \cup {e}
<1>1. /\ Append(s, e) \in Seq(S) /\ Len(s) \in Nat
      /\ Len(Append(s, e)) = Len(s) + 1
      /\ \A i \in 1 .. Len(s) : Append(s, e)[i] = s[i]
      /\ Append(s, e)[Len(s) + 1] = e
  BY Appended
<1>2. DOMAIN s = 1 .. Len(s) /\ DOMAIN Append(s, e) = 1 .. Len(s) + 1
  BY <1>1, LenProperties
<1>3. QED
  BY <1>1, <1>2 DEF ToSet

LEMMA ToSetTail ==
  ASSUME NEW S, NEW s \in Seq(S), s # << >>
  PROVE  /\ ToSet(Tail(s)) \subseteq ToSet(s) /\ Head(s) \in ToSet(s)
         /\ ToSet(s) = ToSet(Tail(s)) \cup {Head(s)}
<1>1. /\ Head(s) = s[1] /\ Tail(s) \in Seq(S)
      /\ Len(s) \in Nat \ {0} /\ Len(Tail(s)) = Len(s) - 1
      /\ \A i \in 1 .. Len(s) - 1 : Tail(s)[i] = s[i + 1]
  BY HeadTail
<1>2. DOMAIN s = 1 .. Len(s) /\ DOMAIN Tail(s) = 1 .. Len(s) - 1
  BY <1>1, LenProperties
<1>3. \A i \in DOMAIN s : i = 1 \/ (i - 1 \in DOMAIN Tail(s)
                                    /\ s[i] = Tail(s)[i - 1])
  BY <1>1, <1>2
<1>4. \A i \in DOMAIN Tail(s) : i + 1 \in DOMAIN s /\ Tail(s)[i] = s[i + 1]
  BY <1>1, <1>2
<1>5. 1 \in DOMAIN s
  BY <1>1, <1>2
<1>6. /\ ToSet(s) = {s[i] : i \in DOMAIN s}
      /\ ToSet(Tail(s)) = {Tail(s)[i] : i \in DOMAIN Tail(s)}
  BY DEF ToSet
<1>7. ToSet(Tail(s)) \subseteq ToSet(s)
  BY <1>4, <1>6
<1>8. Head(s) \in ToSet(s)
  BY <1>1, <1>5, <1>6
<1>9. \A e \in ToSet(s) : e \in ToSet(Tail(s)) \/ e = Head(s)
  <2> SUFFICES ASSUME NEW i \in DOMAIN s
               PROVE  s[i] \in ToSet(Tail(s)) \/ s[i] = Head(s)
    BY <1>6
  <2>1. QED
    BY <1>1, <1>3, <1>6
<1>10. QED
  BY <1>7, <1>8, <1>9

(* A completed operation stays until a thread takes it. *)
LEMMA OpsKept ==
  ASSUME Typed, NEW w \in Workers, Worker(w), NEW c \in Conns,
         NEW op \in Completed(c)
  PROVE  \/ \E other \in Completed(c)' : Same(op, other)
         \/ /\ Take(w) /\ pc'[w] = op.kind /\ frame'[w] = Frame(op)
<1>1. /\ opQueue \in Seq(QueuedOps) /\ waiting \in [Conns -> Seq(Ops)]
      /\ \A d \in Conns : waiting[d] \in Seq(WaitingOps(d))
      /\ pc \in [Workers -> Pcs] /\ frame \in [Workers -> Frames]
      /\ FrameInv(w)
  BY DEF Typed, ThreadTypes, StrandTypes
<1>2. op.conn = c /\ op \in ToSet(opQueue) \cup ToSet(waiting[c])
  BY DEF Completed
<1>3. CASE Take(w)
  <2>1. /\ opQueue # << >> /\ opQueue' = Tail(opQueue)
        /\ waiting' = waiting
        /\ pc' = [pc EXCEPT ![w] = Head(opQueue).kind]
        /\ frame' = [frame EXCEPT ![w] = Frame(Head(opQueue))]
    BY <1>3 DEF Take, RunHandler, Dequeue
  <2>2. ToSet(opQueue) = ToSet(opQueue') \cup {Head(opQueue)}
    BY <1>1, <2>1, ToSetTail
  <2>3. CASE op = Head(opQueue)
    BY <1>1, <1>3, <2>1, <2>3
  <2>4. CASE op # Head(opQueue)
    BY <1>2, <2>1, <2>2, <2>4 DEF Completed, Same
  <2>5. QED
    BY <2>3, <2>4
<1>4. CASE Delay(w)
  <2> DEFINE first == Head(opQueue)
  <2>1. /\ opQueue # << >> /\ opQueue' = Tail(opQueue)
        /\ first.kind \in {"read", "write"} /\ ~ first.locked
        /\ waiting' = [waiting EXCEPT ![first.conn] = Append(@, first)]
    BY <1>4 DEF Delay, WaitForStrand, Wrapped
  <2>2. /\ first \in QueuedOps
        /\ ToSet(opQueue) = ToSet(opQueue') \cup {first}
    BY <1>1, <2>1, ToSetTail, HeadTail
  <2>3. first.conn \in Conns /\ first \in WaitingOps(first.conn)
    BY <2>1, <2>2 DEF QueuedOps, WaitingOps
  <2>4. /\ waiting'[first.conn] = Append(waiting[first.conn], first)
        /\ \A d \in Conns \ {first.conn} : waiting'[d] = waiting[d]
    BY <1>1, <2>1, <2>3
  <2>5. ToSet(waiting'[first.conn]) =
          ToSet(waiting[first.conn]) \cup {first}
    BY <1>1, <2>3, <2>4, ToSetAppend
  <2>6. op \in Completed(c)'
    BY <1>2, <2>2, <2>4, <2>5 DEF Completed
  <2>7. QED
    BY <2>6 DEF Same
<1>5. CASE Return(w)
  <2> DEFINE d == Mine(w)
             locked == [Head(waiting[d]) EXCEPT !.locked = TRUE]
  <2>1. d \in Conns
    BY <1>1, <1>5 DEF Return, CallbackReturns, FrameInv
  <2>2. CASE waiting[d] = << >>
    <3>1. UNCHANGED <<opQueue, waiting>>
      BY <1>5, <2>2 DEF Return, CallbackReturns
    <3>2. QED
      BY <3>1 DEF Completed, Same
  <2>3. CASE waiting[d] # << >>
    <3>1. /\ waiting' = [waiting EXCEPT ![d] = Tail(waiting[d])]
          /\ opQueue' = Append(opQueue, locked)
      BY <1>5, <2>3 DEF Return, CallbackReturns, Enqueue
    <3>2. /\ Head(waiting[d]) \in WaitingOps(d)
          /\ ToSet(waiting[d]) = ToSet(Tail(waiting[d]))
                                 \cup {Head(waiting[d])}
      BY <1>1, <2>1, <2>3, HeadTail, ToSetTail
    <3>3. /\ locked \in QueuedOps /\ Same(Head(waiting[d]), locked)
          /\ locked.conn = d
      BY <2>1, <3>2 DEF WaitingOps, QueuedOps, Ops, Same
    <3> HIDE DEF locked
    <3>4. ToSet(opQueue') = ToSet(opQueue) \cup {locked}
      BY <1>1, <3>1, <3>3, ToSetAppend
    <3>5. /\ waiting'[d] = Tail(waiting[d])
          /\ \A e \in Conns \ {d} : waiting'[e] = waiting[e]
      BY <1>1, <2>1, <3>1
    <3>6. CASE op \in ToSet(opQueue)
      BY <1>2, <3>4, <3>6 DEF Completed, Same
    <3>7. CASE op \in ToSet(waiting[c])
      <4>1. CASE c = d
        BY <1>2, <3>2, <3>3, <3>4, <3>5, <3>7, <4>1 DEF Completed, Same
      <4>2. CASE c # d
        BY <1>2, <3>5, <3>7, <4>2 DEF Completed, Same
      <4>3. QED
        BY <4>1, <4>2
    <3>8. QED
      BY <1>2, <3>6, <3>7
  <2>4. QED
    BY <2>2, <2>3
<1>6. CASE \/ Callback(w) \/ StartWrite(w) \/ Event(w) \/ Stop(w)
           \/ Leave(w) \/ Accept(w)
  <2>1. waiting' = waiting
    BY <1>6, CallbackKeeps, WriteLocal, EventKeeps, StopKeeps DEF Leave,
       Accept, AcceptClosed, AcceptFailed, AcceptStart, RegisterHttp,
       RegisterComms
  <2>2. ToSet(opQueue) \subseteq ToSet(opQueue')
    <3>1. CASE opQueue' = opQueue
      BY <3>1
    <3>2. CASE opQueue' # opQueue
      <4>1. ~ Accept(w)
        BY <3>2 DEF Accept, AcceptClosed, AcceptFailed, AcceptStart,
           RegisterHttp, RegisterComms
      <4>2. PICK new \in QueuedOps : opQueue' = Append(opQueue, new)
        BY <1>6, <3>2, <4>1, WorkerQueue
      <4>3. QED
        BY <1>1, <4>2, ToSetAppend
    <3>3. QED
      BY <3>1, <3>2
  <2>3. QED
    BY <1>2, <2>1, <2>2 DEF Completed, Same
<1>7. QED
  BY <1>3, <1>4, <1>5, <1>6
     DEF Worker, Schedule, Take, Delay, Return, ServerKept

(* Threads complete no operation but a write that they start. *)
LEMMA OpsFrom ==
  ASSUME Typed, NEW w \in Workers, Worker(w), NEW c \in Conns,
         NEW op \in Completed(c)'
  PROVE  \/ \E other \in Completed(c) : Same(op, other)
         \/ StartWrite(w) /\ op.kind = "write" /\ c = Mine(w)
<1>1. /\ opQueue \in Seq(QueuedOps) /\ waiting \in [Conns -> Seq(Ops)]
      /\ \A d \in Conns : waiting[d] \in Seq(WaitingOps(d))
      /\ pc \in [Workers -> Pcs] /\ frame \in [Workers -> Frames]
      /\ FrameInv(w)
  BY DEF Typed, ThreadTypes, StrandTypes
<1>2. op.conn = c /\ op \in ToSet(opQueue') \cup ToSet(waiting'[c])
  BY DEF Completed
<1>3. CASE Take(w)
  <2>1. /\ opQueue # << >> /\ opQueue' = Tail(opQueue)
        /\ waiting' = waiting
    BY <1>3 DEF Take, RunHandler, Dequeue
  <2>2. ToSet(opQueue') \subseteq ToSet(opQueue)
    BY <1>1, <2>1, ToSetTail
  <2>3. QED
    BY <1>2, <2>1, <2>2 DEF Completed, Same
<1>4. CASE Delay(w)
  <2> DEFINE first == Head(opQueue)
  <2>1. /\ opQueue # << >> /\ opQueue' = Tail(opQueue)
        /\ first.kind \in {"read", "write"} /\ ~ first.locked
        /\ waiting' = [waiting EXCEPT ![first.conn] = Append(@, first)]
    BY <1>4 DEF Delay, WaitForStrand, Wrapped
  <2>2. /\ first \in QueuedOps /\ first \in ToSet(opQueue)
        /\ ToSet(opQueue') \subseteq ToSet(opQueue)
    BY <1>1, <2>1, ToSetTail, HeadTail
  <2>3. first.conn \in Conns /\ first \in WaitingOps(first.conn)
    BY <2>1, <2>2 DEF QueuedOps, WaitingOps
  <2>4. /\ waiting'[first.conn] = Append(waiting[first.conn], first)
        /\ \A d \in Conns \ {first.conn} : waiting'[d] = waiting[d]
    BY <1>1, <2>1, <2>3
  <2>5. ToSet(waiting'[first.conn]) =
          ToSet(waiting[first.conn]) \cup {first}
    BY <1>1, <2>3, <2>4, ToSetAppend
  <2>6. op \in Completed(c)
    BY <1>2, <2>2, <2>4, <2>5 DEF Completed
  <2>7. QED
    BY <2>6 DEF Same
<1>5. CASE Return(w)
  <2> DEFINE d == Mine(w)
             locked == [Head(waiting[d]) EXCEPT !.locked = TRUE]
  <2>1. d \in Conns
    BY <1>1, <1>5 DEF Return, CallbackReturns, FrameInv
  <2>2. CASE waiting[d] = << >>
    <3>1. UNCHANGED <<opQueue, waiting>>
      BY <1>5, <2>2 DEF Return, CallbackReturns
    <3>2. QED
      BY <3>1 DEF Completed, Same
  <2>3. CASE waiting[d] # << >>
    <3>1. /\ waiting' = [waiting EXCEPT ![d] = Tail(waiting[d])]
          /\ opQueue' = Append(opQueue, locked)
      BY <1>5, <2>3 DEF Return, CallbackReturns, Enqueue
    <3>2. /\ Head(waiting[d]) \in WaitingOps(d)
          /\ Head(waiting[d]) \in ToSet(waiting[d])
          /\ ToSet(Tail(waiting[d])) \subseteq ToSet(waiting[d])
      BY <1>1, <2>1, <2>3, HeadTail, ToSetTail
    <3>3. /\ locked \in QueuedOps /\ Same(locked, Head(waiting[d]))
          /\ locked.conn = d /\ Head(waiting[d]).conn = d
      BY <2>1, <3>2 DEF WaitingOps, QueuedOps, Ops, Same
    <3> HIDE DEF locked
    <3>4. ToSet(opQueue') = ToSet(opQueue) \cup {locked}
      BY <1>1, <3>1, <3>3, ToSetAppend
    <3>5. /\ waiting'[d] = Tail(waiting[d])
          /\ \A e \in Conns \ {d} : waiting'[e] = waiting[e]
      BY <1>1, <2>1, <3>1
    <3>6. CASE op = locked
      BY <1>2, <3>2, <3>3, <3>6 DEF Completed
    <3>7. CASE op # locked
      <4>1. op \in Completed(c)
        BY <1>2, <3>2, <3>4, <3>5, <3>7 DEF Completed
      <4>2. QED
        BY <4>1 DEF Same
    <3>8. QED
      BY <3>6, <3>7
  <2>4. QED
    BY <2>2, <2>3
<1>6. CASE Callback(w) \/ Event(w) \/ Stop(w) \/ Leave(w) \/ Accept(w)
  <2>1. UNCHANGED <<opQueue, waiting>>
    BY <1>6, CallbackKeeps, EventKeeps, StopKeeps DEF Leave, LeaveRun, Accept,
       AcceptClosed, AcceptFailed, AcceptStart, RegisterHttp, RegisterComms
  <2>2. QED
    BY <2>1 DEF Completed, Same
<1>7. CASE StartWrite(w)
  <2>1. waiting' = waiting
    BY <1>7, WriteLocal
  <2>2. CASE opQueue' = opQueue
    BY <2>1, <2>2 DEF Completed, Same
  <2>3. CASE opQueue' # opQueue
    <3>1. PICK new \in QueuedOps : /\ new.kind = "write"
                                   /\ new.conn = Mine(w)
                                   /\ opQueue' = Append(opQueue, new)
      BY <1>7, <2>3, WriteLocal
    <3>2. ToSet(opQueue') = ToSet(opQueue) \cup {new}
      BY <1>1, <3>1, ToSetAppend
    <3>3. CASE op = new
      BY <1>2, <1>7, <3>1, <3>3
    <3>4. CASE op # new
      BY <1>2, <2>1, <3>2, <3>4 DEF Completed, Same
    <3>5. QED
      BY <3>3, <3>4
  <2>4. QED
    BY <2>2, <2>3
<1>8. QED
  BY <1>3, <1>4, <1>5, <1>6, <1>7
     DEF Worker, Schedule, Take, Delay, Return, ServerKept

(* Clients, sockets and signals add what they complete. *)
LEMMA OpsOutside ==
  ASSUME Typed, Outside, NEW c \in Conns
  PROVE  /\ Completed(c) \subseteq Completed(c)'
         /\ \A op \in Completed(c)' \ Completed(c) :
              \/ op.kind = "accept" /\ ClientConnect(c)
              \/ /\ op.kind = "read"
                 /\ ReceivePacket(c) \/ ReceiveEnd(c) \/ ReceiveError(c)
              \/ op.kind = "write" /\ (FinishWrite(c) \/ FailWrite(c))
<1>1. opQueue \in Seq(QueuedOps) /\ waiting' = waiting
  BY OutsideKeeps DEF Typed, ThreadTypes
<1>2. CASE opQueue' = opQueue
  BY <1>1, <1>2 DEF Completed
<1>3. CASE opQueue' # opQueue
  <2>1. PICK new \in QueuedOps :
           /\ opQueue' = Append(opQueue, new)
           /\ \/ new.kind = "stop" /\ new.conn = NoConn /\ ReceiveSignal
              \/ \E d \in Conns :
                   /\ new.conn = d
                   /\ \/ new.kind = "accept" /\ ClientConnect(d)
                      \/ /\ new.kind = "read"
                         /\ \/ ReceivePacket(d) \/ ReceiveEnd(d)
                             \/ ReceiveError(d)
                      \/ /\ new.kind = "write"
                         /\ FinishWrite(d) \/ FailWrite(d)
    BY <1>3, OutsideQueue
  <2>2. ToSet(opQueue') = ToSet(opQueue) \cup {new}
    BY <1>1, <2>1, ToSetAppend
  <2>3. QED
    BY <1>1, <2>1, <2>2 DEF Completed
<1>4. QED
  BY <1>2, <1>3

(* Which steps a thread at a control point can take. *)
LEMMA ReadMoves ==
  ASSUME Typed, NEW w \in Workers, Worker(w),
         pc[w] \in {"read", "enable", "arm", "swap"}
  PROVE  Callback(w)
BY WriteLocal, EventKeeps, StopKeeps DEF Worker, Schedule, RunHandler,
   Dequeue, WaitForStrand, CallbackReturns, Leave, LeaveRun, Accept,
   AcceptClosed, AcceptFailed, AcceptStart, RegisterHttp, RegisterComms,
   EndHandler

LEMMA EventMoves ==
  ASSUME Typed, NEW w \in Workers, Worker(w),
         pc[w] \in {"received", "disconnected", "closing", "erase"}
  PROVE  Event(w)
<1>1. ~ Callback(w)
  BY DEF Callback, ConnectionStep, ReadExpired, ReadData, ReadEnd, ReadError,
     SwapBuffers, TestReceiving, ArmRead, Respond, DisconnectInvalid,
     MarkTransmitting, LeaveReceive, WriteExpired, WriteDone, WriteFailed,
     UnmarkTransmitting, Disconnect, PendDisconnect, ShutSocket
<1>2. QED
  BY <1>1, WriteLocal, StopKeeps DEF Worker, Schedule, RunHandler, Dequeue,
     WaitForStrand, CallbackReturns, Leave, LeaveRun, Accept, AcceptClosed,
     AcceptFailed, AcceptStart, RegisterHttp, RegisterComms, EndHandler

LEMMA HistoryKeeps ==
  ASSUME Typed, NEW w \in Workers, Worker(w)
  PROVE  ended' = ended /\ \A c \in Conns : raced[c] => raced'[c]
<1>1. raced \in [Conns -> BOOLEAN]
  BY DEF Typed, ClientTypes
<1>2. QED
  BY <1>1, CallbackKeeps, WriteLocal, EventKeeps, StopKeeps DEF Worker,
     Schedule, Leave, Accept, AcceptClosed, AcceptFailed, AcceptStart,
     RegisterHttp, RegisterComms

LEMMA NextKeeps ==
  ASSUME Typed, NEW w \in Workers, Worker(w)
  PROVE  next_connection_' \in {next_connection_, NoConn}
BY CallbackKeeps, WriteLocal, EventKeeps, StopKeeps DEF Worker, Schedule,
   Leave, Accept, AcceptClosed, AcceptFailed, AcceptStart, RegisterHttp,
   RegisterComms

LEMMA EndedBy ==
  ASSUME Typed, Outside, NEW c \in Conns, ended'[c] # ended[c]
  PROVE  ReceiveEnd(c)
<1>1. ended \in [Conns -> BOOLEAN]
  BY DEF Typed, ClientTypes
<1>2. PICK d \in Conns : ReceiveEnd(d)
  BY DEF Outside, Reactor, Client, ClientConnect, ClientAsk, ClientHangUp,
     Break, ReceivePacket, ReceiveError, FinishWrite, FailWrite, EndWrite,
     ReceiveSignal
<1>3. QED
  BY <1>1, <1>2 DEF ReceiveEnd

-----------------------------------------------------------------------------
(* The end of a stream *)

(* The end of the stream of c is on its way to a callback, or that         *)
(* callback is about to erase c.                                           *)
EndRead(c) ==
  \/ \E op \in Completed(c) :
       op.kind = "read" /\ op.packet = 0 /\ op.result = "eof"
  \/ \E w \in Workers :
       /\ pc[w] = "read" /\ Mine(w) = c
       /\ frame[w].packet = 0 /\ frame[w].result = "eof"
  \/ \E w \in Workers :
       pc[w] \in {"disconnected", "closing", "erase"} /\ Mine(w) = c

(* A connection that is still registered when the end of its stream was    *)
(* handed over will be erased by the callback.                             *)
EndInv ==
  \A c \in Conns :
    ended[c] /\ (c \in connections_ \/ c = next_connection_) =>
      raced[c] \/ EndRead(c)

(* A thread that has read the end of the stream goes on to erase c. *)
LEMMA EndWorker ==
  ASSUME Typed, AcceptInv, SetInv, NEW w \in Workers, Worker(w),
         NEW c \in Conns, EndRead(c),
         c \in connections_' \/ c = next_connection_'
  PROVE  raced'[c] \/ EndRead(c)'
<1>1. \A v \in Workers \ {w} : pc'[v] = pc[v] /\ frame'[v] = frame[v]
  BY OthersKeep
<1>2. /\ pc \in [Workers -> Pcs] /\ frame \in [Workers -> Frames]
      /\ raced \in [Conns -> BOOLEAN] /\ FrameInv(w)
  BY DEF Typed, ThreadTypes, ClientTypes
<1>3. CASE \E op \in Completed(c) :
             op.kind = "read" /\ op.packet = 0 /\ op.result = "eof"
  <2>1. PICK op \in Completed(c) :
               op.kind = "read" /\ op.packet = 0 /\ op.result = "eof"
    BY <1>3
  <2>2. CASE \E other \in Completed(c)' : Same(op, other)
    BY <2>1, <2>2 DEF EndRead, Same
  <2>3. CASE pc'[w] = op.kind /\ frame'[w] = Frame(op)
    BY <2>1, <2>3 DEF EndRead, Frame, Completed
  <2>4. QED
    BY <2>2, <2>3, OpsKept
<1>4. CASE \E v \in Workers \ {w} :
             \/ /\ pc[v] = "read" /\ Mine(v) = c
                /\ frame[v].packet = 0 /\ frame[v].result = "eof"
             \/ /\ pc[v] \in {"disconnected", "closing", "erase"}
                /\ Mine(v) = c
  BY <1>1, <1>4 DEF EndRead
<1>5. CASE /\ pc[w] = "read" /\ Mine(w) = c
           /\ frame[w].packet = 0 /\ frame[w].result = "eof"
  <2>1. Callback(w)
    BY <1>5, ReadMoves
  <2>2. Alive(c)
    <3>1. connections_' = connections_ /\ next_connection_' = next_connection_
      BY <2>1, CallbackKeeps
    <3>2. QED
      BY <3>1 DEF Alive
  <2>3. ReadEnd(w, Alive(Mine(w)))
    BY <1>5, <2>1, <2>2 DEF Callback, ConnectionStep, ReadExpired, ReadData,
       ReadError, SwapBuffers, TestReceiving, ArmRead, Respond,
       DisconnectInvalid, MarkTransmitting, LeaveReceive, WriteExpired,
       WriteDone, WriteFailed,
       UnmarkTransmitting, Disconnect, PendDisconnect, ShutSocket
  <2>4. pc'[w] = "disconnected" /\ Mine(w)' = c
    BY <1>2, <1>5, <2>3 DEF ReadEnd
  <2>5. QED
    BY <2>4 DEF EndRead
<1>6. CASE pc[w] \in {"disconnected", "closing", "erase"} /\ Mine(w) = c
  <2>1. Event(w)
    BY <1>6, EventMoves
  <2>2. Mine(w)' = c
    BY <1>6, <2>1, EventKeeps
  <2>3. CASE EraseConnection(w)
    <3>1. /\ connections_' = connections_ \ {c} /\ raced' = raced
          /\ next_connection_' = next_connection_ /\ pc[w] = "erase"
      BY <1>6, <2>3 DEF EraseConnection
    <3>2. QED
      BY <1>6, <3>1 DEF SetInv
  <2>4. CASE ~ EraseConnection(w)
    <3>1. pc'[w] \in {"closing", "erase"}
      BY <1>2, <1>6, <2>1, <2>4 DEF Event, ReceivedUnknown, Received,
         Disconnected, CloseServer
    <3>2. QED
      BY <2>2, <3>1 DEF EndRead
  <2>5. QED
    BY <2>3, <2>4
<1>7. QED
  BY <1>3, <1>4, <1>5, <1>6 DEF EndRead

LEMMA EndNext ==
  ASSUME Typed, AcceptInv, FreshInv, SetInv, EndInv, [Next]_vars
  PROVE  EndInv'
<1> SUFFICES ASSUME NEW c \in Conns, ended'[c],
                    c \in connections_' \/ c = next_connection_'
             PROVE  raced'[c] \/ EndRead(c)'
  BY DEF EndInv
<1>1. ASSUME NEW w \in Workers, Worker(w)
      PROVE  raced'[c] \/ EndRead(c)'
  <2>1. ended[c] /\ (raced[c] => raced'[c])
    BY <1>1, HistoryKeeps
  <2>2. CASE c \in connections_ \/ c = next_connection_
    BY <1>1, <2>1, <2>2, EndWorker DEF EndInv
  <2>3. CASE c \notin connections_ /\ c # next_connection_
    <3>1. c \in connections_'
      BY <1>1, <2>3, NextKeeps
    <3>2. CASE Mine(w) # c
      BY <1>1, <2>3, <3>1, <3>2, WorkerLocal
    <3>3. CASE Mine(w) = c
      <4>1. RegisterComms(w)
        BY <1>1, <2>3, <3>1, <3>3, CallbackKeeps, WriteLocal, EventKeeps,
           StopKeeps DEF Worker, Schedule, Leave, Accept, AcceptClosed,
              AcceptFailed, AcceptStart, RegisterHttp
      <4>2. QED
        BY <2>3, <3>3, <4>1 DEF RegisterComms, EndHandler, AcceptInv
    <3>4. QED
      BY <3>2, <3>3
  <2>4. QED
    BY <2>2, <2>3
<1>2. CASE Outside
  <2>1. UNCHANGED <<pc, frame, connections_, raced>>
    BY <1>2, OutsideKeeps
  <2>2. EndRead(c) => EndRead(c)'
    BY <1>2, <2>1, OpsOutside DEF EndRead
  <2>3. CASE ended[c] /\ (c \in connections_ \/ c = next_connection_)
    BY <2>1, <2>2, <2>3 DEF EndInv
  <2>4. CASE ended[c] /\ ~ (c \in connections_ \/ c = next_connection_)
    <3>1. ClientConnect(c)
      BY <1>2, <2>1, <2>4, OutsideMoves DEF Outside, ReceiveSignal,
         ClientConnect, Client
    <3>2. QED
      BY <2>4, <3>1 DEF ClientConnect, Client, FreshInv, Clean
  <2>5. CASE ~ ended[c]
    <3>1. ReceiveEnd(c)
      BY <1>2, <2>5, EndedBy
    <3>2. Op("read", c, 0, "eof") \in ToSet(opQueue')
      <4>1. Op("read", c, 0, "eof") \in QueuedOps
        BY OpTyped
      <4>2. QED
        BY <3>1, <4>1, ToSetAppend DEF ReceiveEnd, ReceiveError, Enqueue,
           Typed, ThreadTypes
    <3>3. Op("read", c, 0, "eof") \in Completed(c)'
      BY <3>2 DEF Completed, Op
    <3>4. QED
      BY <3>3 DEF EndRead, Op
  <2>6. QED
    BY <2>3, <2>4, <2>5
<1>3. CASE UNCHANGED vars
  BY <1>3 DEF EndInv, EndRead, Completed
<1>4. QED
  BY <1>1, <1>2, <1>3 DEF Next, Outside

-----------------------------------------------------------------------------
(* Reading *)

(* No packet is delivered only when the end of the stream was received, or *)
(* when a read was told that the connection is broken.                     *)
Over(c) == ended[c] \/ broken[c] = "read"
StreamInv ==
  /\ \A c \in Conns : \A op \in Completed(c) :
       op.kind = "read" /\ op.packet = 0 => Over(c)
  /\ \A w \in Workers :
       pc[w] = "read" /\ frame[w].packet = 0 => Over(Mine(w))

(* What is over stays over. *)
LEMMA OverStays ==
  ASSUME Typed, NEW c \in Conns, Over(c),
         Outside \/ \E w \in Workers : Worker(w)
  PROVE  Over(c)'
<1>1. broken \in [Conns -> {"no", "error", "read", "write"}]
      /\ ended \in [Conns -> BOOLEAN]
  BY DEF Typed, ClientTypes
<1>2. CASE Outside
  <2>1. CASE \E d \in Conns : Client(d)
    BY <1>1, <2>1 DEF Over, Client, ClientConnect, ClientAsk, ClientHangUp,
       Break, Lost
  <2>2. CASE \E d \in Conns : Reactor(d)
    BY <1>1, <2>2 DEF Over, Reactor, ReceivePacket, ReceiveEnd, ReceiveError,
       FinishWrite, FailWrite, EndWrite, WriteEnds
  <2>3. CASE ReceiveSignal
    BY <1>1, <2>3 DEF Over, ReceiveSignal
  <2>4. QED
    BY <1>2, <2>1, <2>2, <2>3 DEF Outside
<1>3. ASSUME NEW w \in Workers, Worker(w)
      PROVE  Over(c)'
  <2>1. ended' = ended
    BY <1>3, HistoryKeeps
  <2>2. CASE StartWrite(w)
    BY <1>1, <2>1, <2>2 DEF Over, StartWrite, WriteWhole, WritePart,
       WriteNothing, EndWrite, WriteEnds
  <2>3. CASE ~ StartWrite(w)
    <3>1. broken' = broken
      BY <1>3, <2>3, CallbackKeeps, EventKeeps, StopKeeps DEF Worker, Schedule,
         Leave, Accept, AcceptClosed, AcceptFailed, AcceptStart, RegisterHttp,
         RegisterComms
    <3>2. QED
      BY <2>1, <3>1 DEF Over
  <2>4. QED
    BY <2>2, <2>3
<1>4. QED
  BY <1>2, <1>3

(* The connection is registered, or being registered with its first read   *)
(* started.                                                                *)
Registered(c) ==
  \/ c \in connections_
  \/ \E w \in Workers : pc[w] \in {"connected", "insert"} /\ Mine(w) = c

(* A read is in progress, or its callback has not begun. *)
Reading(c) ==
  \/ reads[c] # << >>
  \/ \E op \in Completed(c) : op.kind = "read"
  \/ \E w \in Workers : pc[w] = "read" /\ Mine(w) = c

(* While receiving_ is set there is a read, and when it is not a thread is *)
(* on its way to set it, unless the stream has ended or a read has failed. *)
DeafInv ==
  \A c \in Conns :
    Registered(c) /\ ~ Over(c) =>
      /\ receiving_[c] => Reading(c)
      /\ socket[c] = "open" =>
           \/ Reading(c)
           \/ \E w \in Workers : /\ pc[w] \in {"received", "swap", "enable",
                                               "arm"}
                                 /\ Mine(w) = c

(* A handler gets the arguments of an operation that has completed. *)
LEMMA TakenFrom ==
  ASSUME Typed, NEW w \in Workers, Worker(w), pc'[w] \in {"read", "write"}
  PROVE  /\ Take(w) /\ Mine(w)' \in Conns
         /\ \E op \in Completed(Mine(w)') :
              op.kind = pc'[w] /\ frame'[w] = Frame(op)
<1>1. /\ opQueue \in Seq(QueuedOps) /\ pc \in [Workers -> Pcs]
      /\ frame \in [Workers -> Frames]
      /\ frame[w].after \in {"return", "parse", "leave", "invalid", "walk"}
  BY DEF Typed, ThreadTypes, Frames
<1>2. ~ Callback(w)
  BY <1>1 DEF Callback, ConnectionStep, ReadExpired, ReadData, ReadEnd,
     ReadError, SwapBuffers, TestReceiving, ArmRead, Respond,
     DisconnectInvalid, MarkTransmitting, LeaveReceive, WriteExpired,
     WriteDone, WriteFailed, UnmarkTransmitting, Disconnect, PendDisconnect,
     ShutSocket, AfterSend, Replies
<1>3. ~ StartWrite(w) /\ ~ Stop(w)
  BY WriteLocal, StopKeeps
<1>4. ~ Event(w)
  BY <1>1 DEF Event, ReceivedUnknown, Received, Disconnected, CloseServer,
     EraseConnection
<1>5. ~ Accept(w) /\ ~ Leave(w)
  BY <1>1 DEF Accept, AcceptClosed, AcceptFailed, AcceptStart, RegisterHttp,
     RegisterComms, EndHandler, Leave, LeaveRun
<1>6. Take(w)
  <2>1. Schedule(w)
    BY <1>2, <1>3, <1>4, <1>5 DEF Worker
  <2>2. ~ CallbackReturns(w)
    BY <1>1 DEF CallbackReturns
  <2>3. ~ WaitForStrand(w)
    BY <1>1 DEF WaitForStrand
  <2>4. QED
    BY <2>1, <2>2, <2>3 DEF Schedule, Take, ServerKept
<1>7. /\ opQueue # << >> /\ pc'[w] = Head(opQueue).kind
      /\ frame'[w] = Frame(Head(opQueue))
  BY <1>1, <1>6 DEF Take, RunHandler, Dequeue
<1>8. Head(opQueue) \in QueuedOps /\ Head(opQueue) \in ToSet(opQueue)
  BY <1>1, <1>7, HeadTail, ToSetTail
<1>9. /\ Head(opQueue).conn \in Conns
      /\ Mine(w)' = Head(opQueue).conn
  BY <1>7, <1>8 DEF QueuedOps, Frame
<1>10. Head(opQueue) \in Completed(Mine(w)')
  BY <1>8, <1>9 DEF Completed
<1>11. QED
  BY <1>6, <1>7, <1>9, <1>10

LEMMA StreamNext ==
  ASSUME Typed, StreamInv, [Next]_vars
  PROVE  StreamInv'
<1>1. ASSUME NEW w \in Workers, Worker(w)
      PROVE  StreamInv'
  <2>1. \A c \in Conns : Over(c) => Over(c)'
    BY <1>1, OverStays
  <2>2. ASSUME NEW c \in Conns, NEW op \in Completed(c)',
               op.kind = "read", op.packet = 0
        PROVE  Over(c)'
    BY <1>1, <2>1, <2>2, OpsFrom DEF StreamInv, Same
  <2>3. ASSUME NEW v \in Workers, pc'[v] = "read", frame'[v].packet = 0
        PROVE  Over(Mine(v))'
    <3>1. CASE v = w
      <4>1. PICK op \in Completed(Mine(w)') :
              op.kind = "read" /\ frame'[w] = Frame(op)
        BY <1>1, <2>3, <3>1, TakenFrom
      <4>2. op.packet = 0 /\ Mine(w)' \in Conns
        BY <1>1, <2>3, <3>1, <4>1, TakenFrom DEF Frame
      <4>3. QED
        BY <2>1, <3>1, <4>1, <4>2 DEF StreamInv
    <3>2. CASE v # w
      <4>1. pc[v] = "read" /\ frame[v].packet = 0 /\ Mine(v)' = Mine(v)
        BY <1>1, <2>3, <3>2, OthersKeep
      <4>2. Mine(v) \in Conns
        BY <4>1 DEF Typed, FrameInv
      <4>3. QED
        BY <2>1, <4>1, <4>2 DEF StreamInv, Over
    <3>3. QED
      BY <3>1, <3>2
  <2>4. QED
    BY <2>2, <2>3 DEF StreamInv
<1>2. CASE Outside
  <2>1. UNCHANGED <<pc, frame>>
    BY <1>2, OutsideKeeps
  <2>2. /\ ended \in [Conns -> BOOLEAN] /\ asked \in [Conns -> 0..MaxRequests]
        /\ inbox \in [Conns -> 0..MaxRequests]
        /\ \A c \in Conns : inbox[c] <= asked[c]
        /\ \A w \in Workers : pc[w] = "read" => Mine(w) \in Conns
    BY DEF Typed, ClientTypes, FrameInv
  <2>3. \A c \in Conns : Over(c) => Over(c)'
    BY <1>2, OverStays
  <2>4. ASSUME NEW c \in Conns, NEW op \in Completed(c)',
               op.kind = "read", op.packet = 0
        PROVE  Over(c)'
    <3>1. CASE op \in Completed(c)
      BY <2>3, <2>4, <3>1 DEF StreamInv
    <3>2. CASE op \notin Completed(c)
      <4>1. ReceivePacket(c) \/ ReceiveEnd(c) \/ ReceiveError(c)
        BY <1>2, <2>4, <3>2, OpsOutside
      <4>2. CASE ReceiveEnd(c) \/ ReceiveError(c)
        <5>1. broken \in [Conns -> {"no", "error", "read", "write"}]
          BY DEF Typed, ClientTypes
        <5>2. QED
          BY <2>2, <4>2, <5>1 DEF ReceiveEnd, ReceiveError, Over
      <4>3. CASE ReceivePacket(c)
        <5> DEFINE new == Op("read", c, asked[c] - inbox[c] + 1, "ok")
        <5>1. /\ opQueue' = Append(opQueue, new) /\ waiting' = waiting
              /\ asked[c] - inbox[c] + 1 \in 1 .. MaxRequests
          BY <2>2, <4>3 DEF ReceivePacket, Enqueue
        <5>2. new \in QueuedOps /\ new.packet # 0
          <6>1. new \in QueuedOps
            BY <5>1, OpTyped
          <6>2. new.packet = asked[c] - inbox[c] + 1
            BY DEF Op
          <6>3. QED
            BY <5>1, <6>1, <6>2
        <5>3. ToSet(opQueue') = ToSet(opQueue) \cup {new}
          BY <5>1, <5>2, ToSetAppend DEF Typed, ThreadTypes
        <5>4. op = new
          BY <3>2, <5>1, <5>3 DEF Completed
        <5>5. QED
          BY <2>4, <5>2, <5>4
      <4>4. QED
        BY <4>1, <4>2, <4>3
    <3>3. QED
      BY <3>1, <3>2
  <2>5. QED
    BY <2>1, <2>2, <2>3, <2>4 DEF StreamInv, Over
<1>3. CASE UNCHANGED vars
  BY <1>3 DEF StreamInv, Over, Completed
<1>4. QED
  BY <1>1, <1>2, <1>3 DEF Next, Outside

(* Threads only add reads, and finish them in read_callback. *)
LEMMA ReadingKept ==
  ASSUME Typed, NEW w \in Workers, Worker(w), NEW c \in Conns, Reading(c),
         ~ (pc[w] = "read" /\ Mine(w) = c)
  PROVE  Reading(c)'
<1>1. CASE reads[c] # << >>
  <2>1. reads'[c] # << >>
    <3>1. CASE Mine(w) # c
      BY <1>1, <3>1, WorkerLocal
    <3>2. CASE Mine(w) = c
      <4>1. /\ reads \in [Conns -> Seq({1, 2})] /\ front \in [Conns -> {1, 2}]
        BY DEF Typed, SocketTypes
      <4>2. Append(reads[c], front[c]) # << >>
        <5>1. reads[c] \in Seq({1, 2}) /\ front[c] \in {1, 2}
          BY <4>1
        <5>2. QED
          BY <5>1, Appended
      <4>3. \/ reads' = reads
            \/ reads' = [reads EXCEPT ![c] = Append(reads[c], front[c])]
        <5>1. CASE Callback(w)
          BY <3>2, <5>1 DEF Callback, ConnectionStep, ReadExpired, ReadData,
             ReadEnd, ReadError, SwapBuffers, TestReceiving, ArmRead,
             StartRead, Respond, DisconnectInvalid, MarkTransmitting,
             LeaveReceive, WriteExpired, WriteDone, WriteFailed,
             UnmarkTransmitting, Disconnect, PendDisconnect, ShutSocket
        <5>2. CASE ~ Callback(w)
          BY <3>2, <5>2, WriteLocal, EventKeeps, StopKeeps DEF Worker,
             Schedule, RunHandler, WaitForStrand, CallbackReturns, Leave,
             Accept, AcceptClosed, AcceptFailed, AcceptStart, StartRead,
             RegisterHttp, RegisterComms
        <5>3. QED
          BY <5>1, <5>2
      <4>4. QED
        BY <1>1, <4>1, <4>2, <4>3
    <3>3. QED
      BY <3>1, <3>2
  <2>2. QED
    BY <2>1 DEF Reading
<1>2. CASE \E op \in Completed(c) : op.kind = "read"
  <2>1. PICK op \in Completed(c) : op.kind = "read"
    BY <1>2
  <2>2. CASE \E other \in Completed(c)' : Same(op, other)
    BY <2>1, <2>2 DEF Reading, Same
  <2>3. CASE pc'[w] = op.kind /\ frame'[w] = Frame(op)
    BY <2>1, <2>3 DEF Reading, Frame, Completed
  <2>4. QED
    BY <2>2, <2>3, OpsKept
<1>3. CASE \E v \in Workers : pc[v] = "read" /\ Mine(v) = c
  BY <1>3, OthersKeep DEF Reading
<1>4. QED
  BY <1>1, <1>2, <1>3 DEF Reading

(* Only accept_handler registers connections, and it starts the first read. *)
LEMMA RegisteredBy ==
  ASSUME Typed, NEW w \in Workers, Worker(w), NEW c \in Conns,
         Registered(c)'
  PROVE  Registered(c) \/ (AcceptStart(w) /\ Mine(w) = c)
<1>1. /\ pc \in [Workers -> Pcs] /\ frame \in [Workers -> Frames]
      /\ frame[w].after \in {"return", "parse", "leave", "invalid", "walk"}
  BY DEF Typed, ThreadTypes, Frames
<1>2. \A v \in Workers \ {w} : pc'[v] = pc[v] /\ Mine(v)' = Mine(v)
  BY OthersKeep
<1>3. CASE Accept(w)
  <2>1. CASE AcceptClosed(w) \/ AcceptFailed(w) \/ RegisterHttp(w)
    <3>1. /\ connections_' = connections_ /\ Mine(w)' \in {Mine(w), NoConn}
          /\ pc'[w] = "insert" => pc[w] = "connected"
          /\ pc'[w] # "connected"
      BY <1>1, <2>1 DEF AcceptClosed, AcceptFailed, RegisterHttp, EndHandler,
         NoFrame, Frame, Op
    <3>2. QED
      BY <1>2, <3>1 DEF Registered
  <2>2. CASE AcceptStart(w)
    <3>1. connections_' = connections_ /\ Mine(w)' = Mine(w)
      BY <2>2 DEF AcceptStart
    <3>2. QED
      BY <1>2, <2>2, <3>1 DEF Registered
  <2>3. CASE RegisterComms(w)
    <3>1. /\ connections_' = connections_ \cup {Mine(w)} /\ pc'[w] = "run"
          /\ pc[w] = "insert"
      BY <1>1, <2>3 DEF RegisterComms, EndHandler
    <3>2. QED
      BY <1>2, <3>1 DEF Registered
  <2>4. QED
    BY <1>3, <2>1, <2>2, <2>3 DEF Accept
<1>4. CASE ~ Accept(w)
  <2>1. connections_' \subseteq connections_
    BY <1>4, CallbackKeeps, WriteLocal, EventKeeps, StopKeeps DEF Worker,
       Schedule, Leave
  <2>2. pc'[w] \notin {"connected", "insert"}
    <3>1. CASE Take(w)
      BY <1>1, <3>1, TakenKind DEF Take, RunHandler, Dequeue
    <3>2. CASE Delay(w)
      BY <1>1, <3>2 DEF Delay, WaitForStrand
    <3>3. QED
      BY <1>4, <3>1, <3>2, WorkerQueue
         DEF Worker, Schedule, Take, Delay, Return, ServerKept
  <2>3. ASSUME NEW v \in Workers, pc'[v] \in {"connected", "insert"},
               Mine(v)' = c
        PROVE  pc[v] \in {"connected", "insert"} /\ Mine(v) = c
    BY <1>2, <2>2, <2>3
  <2>4. QED
    BY <2>1, <2>3 DEF Registered
<1>5. QED
  BY <1>3, <1>4

LEMMA DeafWorker ==
  ASSUME Typed, AcceptInv, StreamInv, DeafInv, NEW w \in Workers, Worker(w),
         NEW c \in Conns, Registered(c)', ~ Over(c)'
  PROVE  /\ receiving_'[c] => Reading(c)'
         /\ socket'[c] = "open" =>
              \/ Reading(c)'
              \/ \E v \in Workers : /\ pc'[v] \in {"received", "swap",
                                                   "enable", "arm"}
                                    /\ Mine(v)' = c
<1>1. /\ pc \in [Workers -> Pcs] /\ frame \in [Workers -> Frames]
      /\ receiving_ \in [Conns -> BOOLEAN]
      /\ reads \in [Conns -> Seq({1, 2})] /\ front \in [Conns -> {1, 2}]
      /\ socket \in [Conns -> {"none", "open", "shut"}]
      /\ FrameInv(w)
  BY DEF Typed, ThreadTypes, SocketTypes
<1>2. \A v \in Workers \ {w} : pc'[v] = pc[v] /\ Mine(v)' = Mine(v)
  BY OthersKeep
<1>3. ~ Over(c)
  BY OverStays
<1>4. Append(reads[c], front[c]) # << >>
  BY <1>1, Appended
<1>5. CASE AcceptStart(w) /\ Mine(w) = c
  BY <1>1, <1>4, <1>5 DEF AcceptStart, StartRead, Reading
<1>6. CASE ArmRead(w) /\ Mine(w) = c
  BY <1>1, <1>4, <1>6 DEF ArmRead, StartRead, Reading
<1>7. CASE pc[w] = "read" /\ Mine(w) = c
  <2>1. Callback(w) /\ Registered(c)
    BY <1>7, ReadMoves, RegisteredBy DEF AcceptStart
  <2>2. Alive(c)
    BY <2>1 DEF Registered, Alive, AcceptInv
  <2>3. frame[w].packet # 0
    BY <1>3, <1>7 DEF StreamInv
  <2>4. ReadData(w, Alive(Mine(w)))
    BY <1>7, <2>1, <2>2, <2>3 DEF Callback, ConnectionStep, ReadExpired,
       ReadEnd, ReadError, SwapBuffers, TestReceiving, ArmRead, Respond,
       DisconnectInvalid, MarkTransmitting, LeaveReceive, WriteExpired,
       WriteDone, WriteFailed, UnmarkTransmitting, Disconnect, PendDisconnect,
       ShutSocket
  <2>5. QED
    BY <1>1, <1>7, <2>4 DEF ReadData
<1>8. CASE /\ ~ (AcceptStart(w) /\ Mine(w) = c)
           /\ ~ (ArmRead(w) /\ Mine(w) = c)
           /\ ~ (pc[w] = "read" /\ Mine(w) = c)
  <2>1. Registered(c)
    BY <1>8, RegisteredBy
  <2>2. CASE Reading(c)
    BY <1>8, <2>2, ReadingKept
  <2>3. CASE ~ Reading(c)
    <3>1. ~ receiving_[c]
      BY <1>3, <2>1, <2>3 DEF DeafInv
    <3>2. ~ receiving_'[c] /\ (socket'[c] = "open" => socket[c] = "open")
      <4>1. CASE Mine(w) # c
        BY <3>1, <4>1, WorkerLocal
      <4>2. CASE Mine(w) = c /\ Callback(w)
        BY <1>1, <1>8, <3>1, <4>2 DEF Callback, ConnectionStep, ReadExpired,
           ReadData, ReadEnd, ReadError, SwapBuffers, TestReceiving, Respond,
           DisconnectInvalid, MarkTransmitting, LeaveReceive, WriteExpired,
           WriteDone, WriteFailed, UnmarkTransmitting, Disconnect,
           PendDisconnect, ShutSocket
      <4>3. CASE Mine(w) = c /\ ~ Callback(w)
        <5>1. UNCHANGED <<receiving_, socket>>
          BY <1>8, <4>3, WriteLocal, EventKeeps, StopKeeps DEF Worker,
             Schedule, RunHandler, WaitForStrand, CallbackReturns, Leave,
             Accept, AcceptClosed, AcceptFailed, RegisterHttp, RegisterComms
        <5>2. QED
          BY <3>1, <5>1
      <4>4. QED
        BY <4>1, <4>2, <4>3
    <3>3. ASSUME NEW v \in Workers, Mine(v) = c,
                 pc[v] \in {"received", "swap", "enable", "arm"}
          PROVE  pc'[v] \in {"received", "swap", "enable", "arm"}
                 /\ Mine(v)' = c
      <4>1. CASE v # w
        BY <1>2, <3>3, <4>1
      <4>2. CASE v = w /\ pc[v] = "received"
        <5>1. Event(w)
          BY <4>2, EventMoves
        <5>2. QED
          BY <1>1, <3>3, <4>2, <5>1, EventKeeps DEF Event, ReceivedUnknown,
             Received, Disconnected, CloseServer, EraseConnection
      <4>3. CASE v = w /\ pc[v] # "received"
        <5>1. Callback(w)
          BY <3>3, <4>3, ReadMoves
        <5>2. SwapBuffers(w) \/ TestReceiving(w)
          BY <1>8, <3>3, <4>3, <5>1 DEF Callback, ConnectionStep, ReadExpired,
             ReadData, ReadEnd, ReadError, Respond, DisconnectInvalid,
             MarkTransmitting, LeaveReceive, WriteExpired, WriteDone,
             WriteFailed, UnmarkTransmitting, Disconnect, PendDisconnect,
             ShutSocket
        <5>3. pc'[w] \in {"enable", "arm"}
          BY <1>1, <3>1, <3>3, <4>3, <5>2 DEF SwapBuffers, TestReceiving
        <5>4. QED
          BY <3>3, <4>3, <5>1, <5>3, CallbackLocal
      <4>4. QED
        BY <4>1, <4>2, <4>3
    <3>4. QED
      BY <1>3, <2>1, <2>3, <3>2, <3>3 DEF DeafInv
  <2>4. QED
    BY <2>2, <2>3
<1>9. QED
  BY <1>5, <1>6, <1>7, <1>8

LEMMA DeafNext ==
  ASSUME Typed, AcceptInv, FreshInv, StreamInv, DeafInv, [Next]_vars
  PROVE  DeafInv'
<1>1. ASSUME NEW w \in Workers, Worker(w)
      PROVE  DeafInv'
  BY <1>1, DeafWorker DEF DeafInv
<1>2. CASE Outside
  <2>1. UNCHANGED <<pc, frame, connections_, receiving_>>
    BY <1>2, OutsideKeeps
  <2>2. /\ reads \in [Conns -> Seq({1, 2})]
        /\ socket \in [Conns -> {"none", "open", "shut"}]
        /\ ended \in [Conns -> BOOLEAN]
        /\ opQueue \in Seq(QueuedOps)
    BY DEF Typed, SocketTypes, ClientTypes, ThreadTypes
  <2>3. \A c \in Conns : Over(c) => Over(c)'
    BY <1>2, OverStays
  <2>4. ASSUME NEW c \in Conns, Reading(c)
        PROVE  Reading(c)'
    <3>1. CASE reads'[c] = reads[c]
      BY <1>2, <2>1, <2>4, <3>1, OpsOutside DEF Reading
    <3>2. CASE reads'[c] # reads[c]
      <4>1. ReceivePacket(c) \/ ReceiveEnd(c) \/ ReceiveError(c)
        <5>1. reads' # reads
          BY <3>2
        <5>2. PICK d \in Conns : \/ ReceivePacket(d) \/ ReceiveEnd(d)
                                \/ ReceiveError(d)
          BY <1>2, <5>1 DEF Outside, Reactor, ClientConnect, Client,
             ClientAsk, ClientHangUp, Break, FinishWrite,
             FailWrite, EndWrite, ReceiveSignal
        <5>3. d = c
          BY <3>2, <5>2, OutsideLocal DEF Reactor
        <5>4. QED
          BY <5>2, <5>3
      <4>2. PICK packet \in 0 .. MaxRequests,
                 result \in {"ok", "eof", "timedOut"} :
              opQueue' = Append(opQueue, Op("read", c, packet, result))
        <5>1. \/ asked[c] - inbox[c] + 1 \in 0 .. MaxRequests
              \/ ReceiveEnd(c) \/ ReceiveError(c)
          BY <4>1 DEF ReceivePacket, Typed, ClientTypes
        <5>2. QED
          BY <4>1, <5>1 DEF ReceivePacket, ReceiveEnd, ReceiveError, Enqueue
      <4>3. Op("read", c, packet, result) \in QueuedOps
        BY OpTyped
      <4>4. Op("read", c, packet, result) \in ToSet(opQueue')
        BY <2>2, <4>2, <4>3, ToSetAppend
      <4>5. Op("read", c, packet, result) \in Completed(c)'
        BY <4>4 DEF Completed, Op
      <4>6. QED
        BY <4>5 DEF Reading, Op
    <3>3. QED
      BY <3>1, <3>2
  <2>5. \A c \in Conns : Registered(c)' => Registered(c)
    BY <2>1 DEF Registered
  <2>6. ASSUME NEW c \in Conns, Registered(c)
        PROVE  socket'[c] = socket[c]
    <3>1. socket[c] # "none"
      BY <2>6 DEF FreshInv, Clean, Registered
    <3>2. QED
      BY <1>2, <2>2, <3>1 DEF Outside, Reactor, ClientConnect, Client,
         ClientAsk, ClientHangUp, Break, ReceivePacket,
         ReceiveEnd, ReceiveError, FinishWrite, FailWrite, EndWrite,
         ReceiveSignal
  <2>7. QED
    BY <2>1, <2>3, <2>4, <2>5, <2>6 DEF DeafInv
<1>3. CASE UNCHANGED vars
  BY <1>3 DEF DeafInv, Over, Registered, Reading, Completed
<1>4. QED
  BY <1>1, <1>2, <1>3 DEF Next, Outside

-----------------------------------------------------------------------------
(* Theorems *)

(* The inductive invariant of the server. *)
ServerInv ==
  /\ Typed /\ AcceptInv /\ FreshInv /\ ShutInv /\ SetInv /\ EndInv
  /\ StreamInv /\ DeafInv

LEMMA ServerInit == Init => ServerInv
<1> SUFFICES ASSUME Init PROVE ServerInv
  OBVIOUS
<1>1. Typed /\ AcceptInv /\ FreshInv
  BY TypedInit, FreshInit
<1>2. /\ opQueue = << >> /\ \A c \in Conns : waiting[c] = << >>
      /\ \A w \in Workers : pc[w] = "run" /\ frame[w] = NoFrame
  BY DEF Init, IoInit, ConnectionInit
<1>3. \A c \in Conns : Completed(c) = {}
  BY <1>2 DEF Completed, ToSet
<1>4. ShutInv /\ SetInv
  BY <1>2 DEF Init, ShutInv, SetInv, NoFrame, Frame, Op
<1>5. EndInv /\ StreamInv /\ DeafInv
  BY <1>2, <1>3 DEF Init, ConnectionInit, EndInv, StreamInv, DeafInv,
     Registered
<1>6. QED
  BY <1>1, <1>4, <1>5 DEF ServerInv

LEMMA ServerNext == ServerInv /\ [Next]_vars => ServerInv'
BY TypedNext, AcceptNext, FreshNext, ShutNext, SetNext, EndNext, StreamNext,
   DeafNext DEF ServerInv

(* The types and the four invariants about the accepted connection, the    *)
(* sets, the end of the streams and the reads hold in every state, with    *)
(* and without a strand (http_server.hpp, comms/server.hpp,                *)
(* comms/connection.hpp).                                                  *)
THEOREM ServerInductive == Spec => []ServerInv
BY ServerInit, ServerNext, PTL DEF Spec

(* An http_connection that was registered before its connection was        *)
(* disconnected does not outlive it: connection_.lock() in                 *)
(* http_connection may be dereferenced.                                    *)
THEOREM ConnectionOutlived == Spec => []HttpHasConnection
<1>1. ServerInv => HttpHasConnection
  BY DEF ServerInv, Typed, ServerTypes, SetInv, HttpHasConnection, HttpAlive,
     Alive
<1>2. QED
  BY <1>1, ServerInductive, PTL

(* At rest http_server and comms::server have the same connections, and    *)
(* none whose stream has ended: disconnected_handler and event_handler     *)
(* erase it in two places.                                                 *)
THEOREM SetsAgree == Spec => []AgreeAtRest
<1>1. ServerInv => AgreeAtRest
  <2> SUFFICES ASSUME ServerInv, NEW c \in Conns, Idle(c), ~ raced[c],
                      ~ shutting_down_, At({"closeAll"}) = {}
               PROVE  /\ c \in http_connections_ <=> c \in connections_
                      /\ ended[c] => c \notin connections_
    BY DEF AgreeAtRest
  <2>1. (\A w \in Workers : Mine(w) # c) /\ Completed(c) = {}
    BY DEF Idle, Completed
  <2>2. \A w \in Workers : pc[w] # "closeAll"
    OBVIOUS
  <2>3. c \in http_connections_ => c \in connections_
    BY <2>1 DEF ServerInv, SetInv
  <2>4. c \in connections_ => c \in http_connections_
    BY <2>1, <2>2 DEF ServerInv, SetInv
  <2>5. ended[c] => c \notin connections_
    BY <2>1 DEF ServerInv, EndInv, EndRead
  <2>6. QED
    BY <2>3, <2>4, <2>5
<1>2. QED
  BY <1>1, ServerInductive, PTL

(* A connection that is served has a read in progress or one that will be  *)
(* followed by another, whatever threads interleave in enable_reception,   *)
(* unless a read was told that the connection is broken (signal_error).    *)
THEOREM NoConnectionDeaf == Spec => []NeverDeaf
<1>1. ServerInv => NeverDeaf
  <2> SUFFICES ASSUME ServerInv, NEW c \in Conns, Served(c),
                      broken[c] # "read"
               PROVE  \/ reads[c] # << >>
                      \/ Pending("read", c)
                      \/ Busy({"read"} \cup ReceivePcs, c)
    BY DEF NeverDeaf
  <2>1. Registered(c) /\ ~ Over(c) /\ socket[c] = "open"
    BY DEF Served, Registered, Over
  <2>2. \/ Reading(c)
        \/ \E w \in Workers : /\ pc[w] \in {"received", "swap", "enable",
                                            "arm"}
                              /\ Mine(w) = c
    BY <2>1 DEF ServerInv, DeafInv
  <2>3. QED
    BY <2>2 DEF Reading, Completed, Pending, Busy
<1>2. QED
  BY <1>1, ServerInductive, PTL
=============================================================================
