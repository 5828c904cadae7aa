------------------------ MODULE HttpStrand_proofs ------------------------
(***************************************************************************)
(* What a strand gives the connections of HttpServer: callbacks that       *)
(* exclude each other, one read at a time, the packet where the parser     *)
(* looks for it, a transmitting_ that is true, and an answer to every      *)
(* request of a client that waits for it.                                  *)
(***************************************************************************)
EXTENDS HttpServer_proofs

USE NoConnAssumption, ClientAssumption
    DEF Goto, Set, Mine, At, vars, connectionVars, strandVars, rxVars, txVars,
        serverVars, acceptVars, setVars, stopVars, clientVars, historyVars,
        Kinds, Results, Pcs, ReceivePcs, EndPcs, AcceptPcs, HoldingPcs, Work,
        Ending,
        Early

-----------------------------------------------------------------------------
(* The strand *)

(* Thread w runs a read or write callback of c, which the strand wraps. *)
Owner(w, c) == pc[w] \in Work /\ frame[w].after # "walk" /\ Mine(w) = c

(* At most one callback of c runs or has been given the strand to run. *)
StrandInv ==
  use_strand => \A c \in Conns :
    /\ \A w, v \in Workers : Owner(w, c) /\ Owner(v, c) => w = v
    /\ \A i, j \in DOMAIN opQueue :
         /\ opQueue[i].conn = c /\ opQueue[i].locked
         /\ opQueue[j].conn = c /\ opQueue[j].locked
         => i = j
    /\ \A w \in Workers : Owner(w, c) =>
         /\ strand[c]
         /\ \A i \in DOMAIN opQueue :
              opQueue[i].conn = c => ~ opQueue[i].locked
    /\ \A i \in DOMAIN opQueue :
         opQueue[i].conn = c /\ opQueue[i].locked => strand[c]
    /\ waiting[c] # << >> => strand[c]

(* A step of a handler that neither takes an operation nor returns. *)
Inside(w) ==
  Callback(w) \/ StartWrite(w) \/ Accept(w) \/ Event(w) \/ Stop(w) \/ Leave(w)

(* What a thread does: take, delay, return from, or go on in a handler. *)
LEMMA WorkerSplit ==
  ASSUME NEW w \in Workers, Worker(w)
  PROVE  Take(w) \/ Delay(w) \/ Return(w) \/ Inside(w)
BY DEF Worker, Schedule, Take, Delay, Return, ServerKept, Inside

(* The only operation that a handler completes is a write. *)
LEMMA InsideKeeps ==
  ASSUME Typed, NEW w \in Workers, Inside(w)
  PROVE  /\ UNCHANGED strandVars
         /\ \/ opQueue' = opQueue
            \/ /\ StartWrite(w)
               /\ \E op \in QueuedOps :
                    /\ op.kind = "write" /\ op.conn = Mine(w) /\ ~ op.locked
                    /\ opQueue' = Append(opQueue, op)
BY CallbackKeeps, WriteLocal, EventKeeps, StopKeeps DEF Inside, Leave,
   LeaveRun, Accept, AcceptClosed, AcceptFailed, AcceptStart, RegisterHttp,
   RegisterComms

(* The template parameter does not change. *)
LEMMA StrandStays ==
  ASSUME Typed, [Next]_vars
  PROVE  use_strand' = use_strand
<1>1. ASSUME NEW w \in Workers, Worker(w)
      PROVE  use_strand' = use_strand
  BY <1>1, WorkerSplit, InsideKeeps DEF Take, RunHandler, Delay,
     WaitForStrand, Return, CallbackReturns
<1>2. QED
  BY <1>1, OutsideKeeps DEF Next, Outside

(* What taking an operation does. *)
LEMMA TakeDoes ==
  ASSUME Typed, NEW w \in Workers, Take(w)
  PROVE  /\ opQueue # << >> /\ opQueue' = Tail(opQueue)
         /\ waiting' = waiting /\ use_strand' = use_strand
         /\ opQueue[1] \in QueuedOps /\ Head(opQueue) = opQueue[1]
         /\ pc[w] = "run" /\ pc'[w] = opQueue[1].kind
         /\ frame'[w] = Frame(opQueue[1]) /\ Mine(w)' = opQueue[1].conn
         /\ frame'[w].after = "return"
         /\ Wrapped(opQueue[1]) => ~ strand[opQueue[1].conn]
         /\ strand' = IF Wrapped(opQueue[1])
                      THEN [strand EXCEPT ![opQueue[1].conn] = TRUE]
                      ELSE strand
         /\ UNCHANGED <<socket, rxVars, txVars, serverVars, clientVars,
                        historyVars>>
<1>1. /\ opQueue \in Seq(QueuedOps) /\ pc \in [Workers -> Pcs]
      /\ frame \in [Workers -> Frames]
  BY DEF Typed, ThreadTypes
<1>2. opQueue # << >> /\ opQueue' = Tail(opQueue)
  BY DEF Take, RunHandler, Dequeue
<1>3. opQueue[1] \in QueuedOps /\ Head(opQueue) = opQueue[1]
  BY <1>1, <1>2, HeadTail
<1>4. QED
  BY <1>1, <1>2, <1>3 DEF Take, RunHandler, Dequeue, Frame, ServerKept

(* Where the callbacks of a connection come from. *)
LEMMA OwnerMoves ==
  ASSUME Typed, NEW w \in Workers, Worker(w), NEW c \in Conns,
         NEW v \in Workers, Owner(v, c)'
  PROVE  \/ Owner(v, c)
         \/ /\ v = w /\ Take(w) /\ opQueue[1].conn = c
            /\ opQueue[1].kind \in {"read", "write"}
<1>1. /\ pc \in [Workers -> Pcs] /\ frame \in [Workers -> Frames]
      /\ FrameInv(w)
  BY DEF Typed, ThreadTypes
<1>2. CASE v # w
  BY <1>2, OthersKeep DEF Owner
<1>3. CASE v = w /\ Take(w)
  <2>1. pc'[w] \in Kinds
    BY <1>3, TakeDoes, TakenKind
  <2>2. QED
    BY <1>3, <2>1, TakeDoes DEF Owner
<1>4. CASE v = w /\ (Delay(w) \/ Return(w))
  BY <1>1, <1>4 DEF Delay, WaitForStrand, Return, CallbackReturns, Owner
<1>5. CASE v = w /\ Callback(w)
  <2>1. pc[w] \in Work /\ Mine(w) = Mine(w)'
    BY <1>5, CallbackLocal
  <2>2. frame[w].after = "walk" => frame'[w].after = "walk"
    BY <1>1, <1>5 DEF FrameInv, ControlInv, Callback, ConnectionStep,
       ReadExpired, ReadData, ReadEnd, ReadError, SwapBuffers, TestReceiving,
       ArmRead, Respond, DisconnectInvalid, MarkTransmitting, LeaveReceive,
       WriteExpired, WriteDone, WriteFailed, UnmarkTransmitting, Disconnect,
       PendDisconnect, ShutSocket
  <2>3. QED
    BY <1>5, <2>1, <2>2 DEF Owner
<1>6. CASE v = w /\ StartWrite(w)
  BY <1>6, WriteLocal DEF Owner
<1>7. CASE v = w /\ Accept(w)
  BY <1>1, <1>7 DEF Accept, AcceptClosed, AcceptFailed, AcceptStart,
     RegisterHttp, RegisterComms, EndHandler, Owner
<1>8. CASE v = w /\ Event(w)
  <2>1. frame'[w].after = frame[w].after
    BY <1>1, <1>8 DEF Event, ReceivedUnknown, Received, Disconnected,
       CloseServer, EraseConnection, Frames
  <2>2. QED
    BY <1>8, <2>1, EventKeeps DEF Owner
<1>9. CASE v = w /\ Stop(w)
  <2>1. CASE WalkOn(w)
    <3>1. PICK d : frame' = [frame EXCEPT ![w].conn = d, ![w].after = "walk"]
      BY <2>1 DEF WalkOn
    <3>2. frame'[w].after = "walk"
      BY <1>1, <3>1 DEF Frames
    <3>3. QED
      BY <1>9, <3>2 DEF Owner
  <2>2. CASE ~ WalkOn(w)
    BY <1>1, <1>9, <2>2 DEF Stop, BeginShutdown, WalkEnd, ClearHttp,
       CloseHttp, CloseAll, StopService, EndHandler, Owner
  <2>3. QED
    BY <2>1, <2>2
<1>10. CASE v = w /\ Leave(w)
  BY <1>1, <1>10 DEF Leave, LeaveRun, Owner
<1>11. QED
  BY <1>2, <1>3, <1>4, <1>5, <1>6, <1>7, <1>8, <1>9, <1>10, WorkerSplit
     DEF Inside

(* With the strand, an operation is taken when no callback runs. *)
LEMMA TakenAlone ==
  ASSUME Typed, StrandInv, use_strand, NEW w \in Workers, Take(w),
         NEW c \in Conns, opQueue[1].conn = c,
         opQueue[1].kind \in {"read", "write"}
  PROVE  /\ \A v \in Workers : ~ Owner(v, c)
         /\ waiting[c] = << >> \/ opQueue[1].locked
         /\ \A i \in DOMAIN opQueue :
              opQueue[i].conn = c /\ opQueue[i].locked => i = 1
<1>1. 1 \in DOMAIN opQueue
  BY TakeDoes, Popped DEF Typed, ThreadTypes
<1>2. CASE opQueue[1].locked
  BY <1>1, <1>2 DEF StrandInv
<1>3. CASE ~ opQueue[1].locked
  <2>1. ~ strand[c]
    BY <1>3, TakeDoes DEF Wrapped
  <2>2. QED
    BY <2>1 DEF StrandInv
<1>4. QED
  BY <1>2, <1>3

(* A returning callback is the owner. *)
LEMMA ReturnDoes ==
  ASSUME Typed, NEW w \in Workers, Return(w)
  PROVE  /\ Mine(w) \in Conns /\ Owner(w, Mine(w)) /\ pc[w] = "return"
         /\ pc'[w] = "run" /\ frame'[w] = NoFrame
         /\ use_strand' = use_strand
         /\ \A c \in Conns \ {Mine(w)} :
              strand'[c] = strand[c] /\ waiting'[c] = waiting[c]
         /\ \/ /\ waiting[Mine(w)] = << >> /\ waiting' = waiting
               /\ opQueue' = opQueue /\ ~ strand'[Mine(w)]
            \/ /\ waiting[Mine(w)] # << >> /\ strand' = strand
               /\ waiting'[Mine(w)] = Tail(waiting[Mine(w)])
               /\ \E op \in QueuedOps :
                    /\ op = [Head(waiting[Mine(w)]) EXCEPT !.locked = TRUE]
                    /\ op.locked /\ Same(op, Head(waiting[Mine(w)]))
                    /\ op.conn = Mine(w)
                    /\ opQueue' = Append(opQueue, op)
         /\ UNCHANGED <<socket, rxVars, txVars, serverVars, clientVars,
                        historyVars>>
<1> DEFINE c == Mine(w)
           op == [Head(waiting[c]) EXCEPT !.locked = TRUE]
<1>1. CallbackReturns(w) /\ ServerKept
  BY DEF Return
<1>2. /\ pc \in [Workers -> Pcs] /\ frame \in [Workers -> Frames]
      /\ FrameInv(w) /\ strand \in [Conns -> BOOLEAN]
      /\ waiting \in [Conns -> Seq(Ops)]
  BY DEF Typed, ThreadTypes, StrandTypes
<1>3. /\ pc[w] = "return" /\ pc'[w] = "run" /\ c \in Conns
      /\ waiting[c] \in Seq(WaitingOps(c)) /\ frame'[w] = NoFrame
      /\ frame[w].after # "walk"
  BY <1>1, <1>2 DEF CallbackReturns, Typed, StrandTypes, FrameInv, ControlInv
<1>4. UNCHANGED <<use_strand, socket, rxVars, txVars, serverVars, clientVars,
                  historyVars>>
  BY <1>1 DEF CallbackReturns, ServerKept
<1>5. CASE waiting[c] = << >>
  BY <1>1, <1>2, <1>3, <1>4, <1>5 DEF CallbackReturns, Owner
<1>6. CASE waiting[c] # << >>
  <2>1. Head(waiting[c]) \in WaitingOps(c)
    BY <1>3, <1>6, HeadTail
  <2>2. op \in QueuedOps /\ op.conn = c /\ op.locked
        /\ Same(op, Head(waiting[c]))
    BY <1>3, <2>1 DEF WaitingOps, QueuedOps, Ops, Same
  <2>3. /\ opQueue' = Append(opQueue, op) /\ strand' = strand
        /\ waiting' = [waiting EXCEPT ![c] = Tail(waiting[c])]
    BY <1>1, <1>6 DEF CallbackReturns, Enqueue
  <2> HIDE DEF op
  <2>4. /\ waiting'[c] = Tail(waiting[c])
        /\ \A d \in Conns \ {c} : waiting'[d] = waiting[d]
    BY <1>2, <1>3, <2>3
  <2>5. \E new \in QueuedOps :
          /\ new = op /\ new.locked /\ Same(new, Head(waiting[c]))
          /\ new.conn = c /\ opQueue' = Append(opQueue, new)
    BY <2>2, <2>3
  <2>6. QED
    BY <1>3, <1>4, <1>6, <2>3, <2>4, <2>5 DEF Owner, op
<1>7. QED
  BY <1>5, <1>6

(* An operation that finds the strand held goes to the waiting ones. *)
LEMMA DelayDoes ==
  ASSUME Typed, NEW w \in Workers, Delay(w)
  PROVE  /\ opQueue # << >> /\ opQueue' = Tail(opQueue)
         /\ opQueue[1] \in QueuedOps /\ opQueue[1].conn \in Conns
         /\ opQueue[1] \in WaitingOps(opQueue[1].conn)
         /\ opQueue[1].kind \in {"read", "write"} /\ ~ opQueue[1].locked
         /\ strand[opQueue[1].conn] /\ use_strand
         /\ waiting'[opQueue[1].conn] =
              Append(waiting[opQueue[1].conn], opQueue[1])
         /\ \A c \in Conns \ {opQueue[1].conn} : waiting'[c] = waiting[c]
         /\ UNCHANGED <<pc, frame, use_strand, strand, socket, rxVars, txVars,
                        serverVars, clientVars, historyVars>>
<1>1. opQueue \in Seq(QueuedOps) /\ waiting \in [Conns -> Seq(Ops)]
  BY DEF Typed, ThreadTypes, StrandTypes
<1>2. opQueue # << >> /\ opQueue' = Tail(opQueue)
  BY DEF Delay, WaitForStrand
<1>3. opQueue[1] \in QueuedOps /\ Head(opQueue) = opQueue[1]
  BY <1>1, <1>2, HeadTail
<1>4. /\ opQueue[1].kind \in {"read", "write"} /\ ~ opQueue[1].locked
      /\ strand[opQueue[1].conn] /\ use_strand
      /\ waiting' = [waiting EXCEPT ![opQueue[1].conn] =
                       Append(waiting[opQueue[1].conn], opQueue[1])]
  BY <1>3 DEF Delay, WaitForStrand, Wrapped
<1>5. opQueue[1].conn \in Conns /\ opQueue[1] \in WaitingOps(opQueue[1].conn)
  BY <1>3, <1>4 DEF QueuedOps, WaitingOps
<1>6. QED
  BY <1>1, <1>2, <1>3, <1>4, <1>5 DEF Delay, WaitForStrand, ServerKept

(* A step that only completes an operation leaves the strands alone. *)
LEMMA StrandPushed ==
  ASSUME Typed, StrandInv, UNCHANGED strandVars, NEW op \in QueuedOps,
         ~ op.locked, opQueue' = opQueue \/ opQueue' = Append(opQueue, op),
         \A w \in Workers, c \in Conns : Owner(w, c)' => Owner(w, c)
  PROVE  StrandInv'
<1>1. opQueue \in Seq(QueuedOps)
  BY DEF Typed, ThreadTypes
<1>2. \A i \in DOMAIN opQueue' : opQueue'[i].locked =>
        i \in DOMAIN opQueue /\ opQueue'[i] = opQueue[i]
  BY <1>1, Pushed
<1>3. QED
  BY <1>2 DEF StrandInv

(* Taking or delaying an operation gives the strand to one callback. *)
LEMMA StrandTaken ==
  ASSUME Typed, StrandInv, NEW w \in Workers, Take(w) \/ Delay(w),
         use_strand, NEW c \in Conns,
         \A v \in Workers : Owner(v, c)' =>
           \/ Owner(v, c)
           \/ /\ v = w /\ Take(w) /\ opQueue[1].conn = c
              /\ opQueue[1].kind \in {"read", "write"}
  PROVE  /\ \A v, u \in Workers : Owner(v, c)' /\ Owner(u, c)' => v = u
         /\ \A i, j \in DOMAIN opQueue' :
              /\ opQueue'[i].conn = c /\ opQueue'[i].locked
              /\ opQueue'[j].conn = c /\ opQueue'[j].locked
              => i = j
         /\ \A v \in Workers : Owner(v, c)' =>
              /\ strand'[c]
              /\ \A i \in DOMAIN opQueue' :
                   opQueue'[i].conn = c => ~ opQueue'[i].locked
         /\ \A i \in DOMAIN opQueue' :
              opQueue'[i].conn = c /\ opQueue'[i].locked => strand'[c]
         /\ waiting'[c] # << >> => strand'[c]
<1>1. /\ opQueue \in Seq(QueuedOps) /\ opQueue # << >>
      /\ opQueue' = Tail(opQueue) /\ strand \in [Conns -> BOOLEAN]
  BY TakeDoes, DelayDoes DEF Typed, ThreadTypes, StrandTypes
<1>2. /\ 1 \in DOMAIN opQueue
      /\ \A i \in DOMAIN opQueue' :
           /\ i \in Nat \ {0} /\ i + 1 \in DOMAIN opQueue
           /\ opQueue'[i] = opQueue[i + 1]
  BY <1>1, Popped
<1>3. \A i, j \in DOMAIN opQueue' :
        /\ opQueue'[i].conn = c /\ opQueue'[i].locked
        /\ opQueue'[j].conn = c /\ opQueue'[j].locked
        => i = j
  <2> SUFFICES ASSUME NEW i \in DOMAIN opQueue', NEW j \in DOMAIN opQueue',
                      opQueue'[i].conn = c, opQueue'[i].locked,
                      opQueue'[j].conn = c, opQueue'[j].locked
               PROVE  i = j
    OBVIOUS
  <2>1. i + 1 = j + 1
    BY <1>2 DEF StrandInv
  <2>2. QED
    BY <1>2, <2>1
<1>4. \A i \in DOMAIN opQueue' :
        opQueue'[i].conn = c /\ opQueue'[i].locked => strand[c]
  BY <1>2 DEF StrandInv
<1>5. strand[c] => strand'[c]
  BY <1>1, TakeDoes, DelayDoes DEF Wrapped
<1>6. CASE /\ Take(w) /\ opQueue[1].conn = c
           /\ opQueue[1].kind \in {"read", "write"}
  <2>1. /\ \A v \in Workers : ~ Owner(v, c)
        /\ waiting[c] = << >> \/ opQueue[1].locked
        /\ \A i \in DOMAIN opQueue :
             opQueue[i].conn = c /\ opQueue[i].locked => i = 1
    BY <1>6, TakenAlone
  <2>2. strand'[c]
    <3>1. CASE opQueue[1].locked
      BY <1>2, <1>5, <1>6, <3>1 DEF StrandInv
    <3>2. CASE ~ opQueue[1].locked
      BY <1>1, <1>6, <3>2, TakeDoes DEF Wrapped
    <3>3. QED
      BY <3>1, <3>2
  <2>3. \A i \in DOMAIN opQueue' :
          opQueue'[i].conn = c => ~ opQueue'[i].locked
    <3> SUFFICES ASSUME NEW i \in DOMAIN opQueue', opQueue'[i].conn = c,
                        opQueue'[i].locked
                 PROVE  FALSE
      OBVIOUS
    <3>1. i + 1 = 1 /\ i \in Nat \ {0}
      BY <1>2, <2>1
    <3>2. QED
      BY <3>1
  <2>4. QED
    BY <2>1, <2>2, <2>3
<1>7. CASE ~ (/\ Take(w) /\ opQueue[1].conn = c
              /\ opQueue[1].kind \in {"read", "write"})
  <2>1. \A v \in Workers : Owner(v, c)' => Owner(v, c)
    BY <1>7
  <2>2. waiting'[c] # << >> => strand[c]
    BY <1>1, TakeDoes, DelayDoes DEF StrandInv
  <2>3. \A v \in Workers : Owner(v, c)' =>
          \A i \in DOMAIN opQueue' :
            opQueue'[i].conn = c => ~ opQueue'[i].locked
    BY <1>2, <2>1 DEF StrandInv
  <2>4. \A v \in Workers : Owner(v, c) => strand[c]
    BY DEF StrandInv
  <2>5. \A v, u \in Workers : Owner(v, c)' /\ Owner(u, c)' => v = u
    BY <2>1 DEF StrandInv
  <2>6. QED
    BY <1>3, <1>4, <1>5, <2>1, <2>2, <2>3, <2>4, <2>5
<1>8. QED
  BY <1>6, <1>7

(* A callback that returns passes the strand on, or lets go of it. *)
LEMMA StrandReturned ==
  ASSUME Typed, StrandInv, NEW w \in Workers, Return(w), use_strand,
         NEW c \in Conns,
         \A v \in Workers : Owner(v, c)' => Owner(v, c)
  PROVE  /\ \A v, u \in Workers : Owner(v, c)' /\ Owner(u, c)' => v = u
         /\ \A i, j \in DOMAIN opQueue' :
              /\ opQueue'[i].conn = c /\ opQueue'[i].locked
              /\ opQueue'[j].conn = c /\ opQueue'[j].locked
              => i = j
         /\ \A v \in Workers : Owner(v, c)' =>
              /\ strand'[c]
              /\ \A i \in DOMAIN opQueue' :
                   opQueue'[i].conn = c => ~ opQueue'[i].locked
         /\ \A i \in DOMAIN opQueue' :
              opQueue'[i].conn = c /\ opQueue'[i].locked => strand'[c]
         /\ waiting'[c] # << >> => strand'[c]
<1>2. opQueue \in Seq(QueuedOps)
  BY DEF Typed, ThreadTypes
<1>3. ~ Owner(w, c)'
  BY ReturnDoes DEF Owner
<1>4. /\ Mine(w) \in Conns /\ Owner(w, Mine(w))
      /\ \A d \in Conns \ {Mine(w)} :
           strand'[d] = strand[d] /\ waiting'[d] = waiting[d]
  BY ReturnDoes
<1>5. \A i \in DOMAIN opQueue' :
        \/ i \in DOMAIN opQueue /\ opQueue'[i] = opQueue[i]
        \/ i = Len(opQueue) + 1 /\ opQueue'[i].conn = Mine(w)
  <2>1. CASE opQueue' = opQueue
    BY <2>1
  <2>2. CASE opQueue' # opQueue
    <3>1. PICK op \in QueuedOps :
            op.conn = Mine(w) /\ opQueue' = Append(opQueue, op)
      BY <2>2, ReturnDoes
    <3>2. QED
      BY <1>2, <3>1, Pushed
  <2>3. QED
    BY <2>1, <2>2
<1>6. CASE c # Mine(w)
  BY <1>4, <1>5, <1>6 DEF StrandInv
<1>7. CASE c = Mine(w)
  <2>1. /\ \A v \in Workers : ~ Owner(v, c)'
        /\ strand[c]
        /\ \A i \in DOMAIN opQueue :
             opQueue[i].conn = c => ~ opQueue[i].locked
    BY <1>3, <1>4, <1>7 DEF StrandInv
  <2>2. CASE waiting[c] = << >>
    <3>1. opQueue' = opQueue /\ waiting' = waiting
      BY <1>7, <2>2, ReturnDoes
    <3>2. QED
      BY <2>1, <2>2, <3>1
  <2>3. CASE waiting[c] # << >>
    <3>1. strand' = strand
      BY <1>7, <2>3, ReturnDoes
    <3>2. QED
      BY <1>5, <2>1, <3>1
  <2>4. QED
    BY <2>2, <2>3
<1>8. QED
  BY <1>6, <1>7

(* With a strand the callbacks of a connection exclude each other. *)
LEMMA StrandNext ==
  ASSUME Typed, StrandInv, [Next]_vars
  PROVE  StrandInv'
<1>1. ASSUME NEW w \in Workers, Worker(w)
      PROVE  StrandInv'
  <2>1. CASE Take(w) \/ Delay(w)
    <3> SUFFICES ASSUME use_strand'
                 PROVE  StrandInv'
      BY DEF StrandInv
    <3>1. use_strand
      BY <2>1, TakeDoes, DelayDoes
    <3>2. \A v \in Workers, c \in Conns : Owner(v, c)' =>
            \/ Owner(v, c)
            \/ /\ v = w /\ Take(w) /\ opQueue[1].conn = c
               /\ opQueue[1].kind \in {"read", "write"}
      BY <1>1, OwnerMoves
    <3>3. QED
      BY <2>1, <3>1, <3>2, StrandTaken DEF StrandInv
  <2>2. CASE Return(w)
    <3> SUFFICES ASSUME use_strand'
                 PROVE  StrandInv'
      BY DEF StrandInv
    <3>1. use_strand
      BY <2>2, ReturnDoes
    <3>2. \A v \in Workers, c \in Conns : Owner(v, c)' => Owner(v, c)
      <4>1. ~ Take(w)
        BY <2>2, ReturnDoes, TakeDoes
      <4>2. QED
        BY <1>1, <4>1, OwnerMoves
    <3>3. QED
      BY <2>2, <3>1, <3>2, StrandReturned DEF StrandInv
  <2>3. CASE Inside(w)
    <3>1. \A v \in Workers, c \in Conns : Owner(v, c)' => Owner(v, c)
      <4>1. CASE Take(w)
        <5>1. opQueue' = Tail(opQueue) /\ opQueue # << >>
          BY <4>1, TakeDoes
        <5>2. opQueue \in Seq(QueuedOps)
          BY DEF Typed, ThreadTypes
        <5>3. Len(opQueue') = Len(opQueue) - 1 /\ Len(opQueue) \in Nat
          BY <5>1, <5>2, HeadTail
        <5>4. \A op \in QueuedOps : Len(Append(opQueue, op)) = Len(opQueue) + 1
          BY <5>2, Appended
        <5>5. QED
          BY <2>3, <5>3, <5>4, InsideKeeps
      <4>2. QED
        BY <1>1, <4>1, OwnerMoves
    <3>2. Op("stop", NoConn, 0, "ok") \in QueuedOps
          /\ ~ Op("stop", NoConn, 0, "ok").locked
      BY DEF Op, QueuedOps, Ops
    <3>3. QED
      BY <2>3, <3>1, <3>2, InsideKeeps, StrandPushed
  <2>4. QED
    BY <1>1, <2>1, <2>2, <2>3, WorkerSplit
<1>2. CASE Outside
  <2>1. UNCHANGED <<pc, frame, strandVars>>
    BY <1>2, OutsideKeeps
  <2>2. \A v \in Workers, c \in Conns : Owner(v, c)' => Owner(v, c)
    BY <2>1 DEF Owner
  <2>3. Op("stop", NoConn, 0, "ok") \in QueuedOps
        /\ ~ Op("stop", NoConn, 0, "ok").locked
    BY DEF Op, QueuedOps, Ops
  <2>4. QED
    BY <1>2, <2>1, <2>2, <2>3, OutsideQueue, StrandPushed
<1>3. CASE UNCHANGED vars
  BY <1>3 DEF StrandInv, Owner
<1>4. QED
  BY <1>1, <1>2, <1>3 DEF Next, Outside

-----------------------------------------------------------------------------
(* The line of a connection: the order in which the strand runs what has   *)
(* completed, first the operation that owns the strand, then those that    *)
(* wait for it, then those of the run queue.                               *)

Places(c) == 0 .. Len(waiting[c]) + Len(opQueue)

Placed(c, p, op) ==
  /\ op.conn = c
  /\ \/ /\ p = 0
        /\ \E i \in DOMAIN opQueue : op = opQueue[i] /\ op.locked
     \/ p \in DOMAIN waiting[c] /\ op = waiting[c][p]
     \/ \E i \in DOMAIN opQueue :
          p = Len(waiting[c]) + i /\ op = opQueue[i] /\ ~ op.locked

(* The two queues that make the line of a connection. *)
LEMMA LineTypes ==
  ASSUME Typed, NEW c \in Conns
  PROVE  /\ opQueue \in Seq(QueuedOps) /\ waiting[c] \in Seq(WaitingOps(c))
         /\ Len(opQueue) \in Nat /\ DOMAIN opQueue = 1 .. Len(opQueue)
         /\ Len(waiting[c]) \in Nat
         /\ DOMAIN waiting[c] = 1 .. Len(waiting[c])
         /\ Places(c) \subseteq Nat
<1>1. opQueue \in Seq(QueuedOps) /\ waiting[c] \in Seq(WaitingOps(c))
  BY DEF Typed, ThreadTypes, StrandTypes
<1>2. QED
  BY <1>1, LenProperties DEF Places

(* Every completed operation has a place in the line. *)
LEMMA LineComplete ==
  ASSUME Typed, NEW c \in Conns, NEW op \in Completed(c)
  PROVE  \E p \in Places(c) : Placed(c, p, op)
<1>1. op.conn = c
  BY DEF Completed
<1>2. CASE op \in ToSet(waiting[c])
  <2>1. PICK p \in DOMAIN waiting[c] : op = waiting[c][p]
    BY <1>2 DEF ToSet
  <2>2. p \in Places(c)
    BY LineTypes DEF Places
  <2>3. QED
    BY <1>1, <2>1, <2>2 DEF Placed
<1>3. CASE op \in ToSet(opQueue)
  <2>1. PICK i \in DOMAIN opQueue : op = opQueue[i]
    BY <1>3 DEF ToSet
  <2>2. 0 \in Places(c) /\ Len(waiting[c]) + i \in Places(c)
    BY LineTypes DEF Places
  <2>3. QED
    BY <1>1, <2>1, <2>2 DEF Placed
<1>4. QED
  BY <1>2, <1>3 DEF Completed

(* What is in the line has completed. *)
LEMMA LinePlaced ==
  ASSUME Typed, NEW c \in Conns, NEW p, NEW op, Placed(c, p, op)
  PROVE  op \in Completed(c) /\ p \in Places(c)
<1>1. op.conn = c
  BY DEF Placed
<1>2. CASE p \in DOMAIN waiting[c] /\ op = waiting[c][p]
  BY <1>1, <1>2, LineTypes DEF ToSet, Completed, Places
<1>3. ASSUME NEW i \in DOMAIN opQueue, op = opQueue[i],
             p = 0 \/ p = Len(waiting[c]) + i
      PROVE  op \in Completed(c) /\ p \in Places(c)
  BY <1>1, <1>3, LineTypes DEF ToSet, Completed, Places
<1>4. QED
  BY <1>2, <1>3 DEF Placed

(* An operation that is queued goes to the end of the line. *)
LEMMA LinePushed ==
  ASSUME Typed, NEW c \in Conns, waiting'[c] = waiting[c],
         NEW new \in QueuedOps, opQueue' = Append(opQueue, new),
         new.conn = c => ~ new.locked,
         NEW p, NEW op, Placed(c, p, op)'
  PROVE  \/ Placed(c, p, op)
         \/ op = new /\ p = Len(waiting[c]) + Len(opQueue) + 1
<1>1. \A i \in DOMAIN opQueue' :
        \/ i \in DOMAIN opQueue /\ opQueue'[i] = opQueue[i]
        \/ i = Len(opQueue) + 1 /\ opQueue'[i] = new
  BY LineTypes, Pushed
<1>2. Len(waiting[c]) \in Nat /\ Len(opQueue) \in Nat
  BY LineTypes
<1>3. QED
  BY <1>1, <1>2 DEF Placed

(* One that waits for the strand instead keeps its place. *)
LEMMA LineDelayed ==
  ASSUME Typed, StrandInv, NEW w \in Workers, Delay(w), NEW c \in Conns,
         NEW p, NEW op, Placed(c, p, op)'
  PROVE  \E q \in Nat : /\ Placed(c, q, op)
                        /\ q = IF p <= Len(waiting[c]) \/ opQueue[1].conn = c
                               THEN p ELSE p + 1
<1>1. /\ \A i \in DOMAIN opQueue' :
           /\ i \in Nat \ {0} /\ i + 1 \in DOMAIN opQueue
           /\ opQueue'[i] = opQueue[i + 1]
      /\ 1 \in DOMAIN opQueue
  BY DelayDoes, Popped, LineTypes
<1> DEFINE n == Len(waiting[c])
<1>2. /\ n \in Nat /\ DOMAIN waiting[c] = 1 .. n
      /\ waiting[c] \in Seq(WaitingOps(c)) /\ op.conn = c
  BY LineTypes DEF Placed
<1>3. CASE opQueue[1].conn = c
  <2>1. /\ waiting'[c] = Append(waiting[c], opQueue[1])
        /\ opQueue[1] \in WaitingOps(c) /\ ~ opQueue[1].locked
    BY <1>3, DelayDoes
  <2>2. /\ Len(waiting'[c]) = n + 1 /\ DOMAIN waiting'[c] = 1 .. n + 1
        /\ \A i \in 1 .. n : waiting'[c][i] = waiting[c][i]
        /\ waiting'[c][n + 1] = opQueue[1]
    <3>1. waiting'[c] \in Seq(WaitingOps(c)) /\ Len(waiting'[c]) = n + 1
      BY <1>2, <2>1, Appended
    <3>2. DOMAIN waiting'[c] = 1 .. n + 1
      BY <3>1, LenProperties
    <3>3. QED
      BY <1>2, <2>1, <3>1, <3>2, Appended
  <2>3. CASE p \in DOMAIN waiting'[c] /\ op = waiting'[c][p]
    <3>1. CASE p = n + 1
      BY <1>1, <1>2, <1>3, <2>1, <2>2, <2>3, <3>1 DEF Placed
    <3>2. CASE p # n + 1
      BY <1>2, <1>3, <2>2, <2>3, <3>2 DEF Placed
    <3>3. QED
      BY <3>1, <3>2
  <2>4. CASE p = 0 /\ \E i \in DOMAIN opQueue' : op = opQueue'[i] /\ op.locked
    BY <1>1, <1>2, <1>3, <2>4 DEF Placed
  <2>5. ASSUME NEW i \in DOMAIN opQueue', p = Len(waiting'[c]) + i,
               op = opQueue'[i], ~ op.locked
        PROVE  Placed(c, p, op) /\ p \in Nat
    <3>1. i + 1 \in DOMAIN opQueue /\ p = n + (i + 1) /\ p \in Nat
      <4>1. i + 1 \in DOMAIN opQueue /\ i \in Nat
        BY <1>1, <2>5
      <4>2. n \in Nat /\ p = n + 1 + i
        BY <1>2, <2>2, <2>5
      <4> HIDE DEF n
      <4>3. QED
        BY <4>1, <4>2
    <3>2. op = opQueue[i + 1]
      BY <1>1, <2>5
    <3>3. QED
      BY <1>2, <2>5, <3>1, <3>2 DEF Placed
  <2>6. QED
    BY <1>2, <1>3, <2>3, <2>4, <2>5 DEF Placed
<1>4. CASE opQueue[1].conn # c
  <2>1. waiting'[c] = waiting[c]
    BY <1>4, DelayDoes
  <2>2. CASE p \in DOMAIN waiting[c] /\ op = waiting[c][p]
    BY <1>2, <2>2 DEF Placed
  <2>3. CASE p = 0 /\ \E i \in DOMAIN opQueue' : op = opQueue'[i] /\ op.locked
    BY <1>1, <1>2, <2>3 DEF Placed
  <2>4. ASSUME NEW i \in DOMAIN opQueue', p = Len(waiting'[c]) + i,
               op = opQueue'[i], ~ op.locked
        PROVE  Placed(c, p + 1, op) /\ p + 1 \in Nat /\ ~ (p <= n)
    <3>1. i + 1 \in DOMAIN opQueue /\ p + 1 = n + (i + 1) /\ p \in Nat
      BY <1>1, <1>2, <2>1, <2>4
    <3>2. op = opQueue[i + 1]
      BY <1>1, <2>4
    <3>3. p > n
      BY <1>1, <1>2, <2>1, <2>4
    <3> HIDE DEF n
    <3>4. p + 1 \in Nat /\ ~ (p <= n)
      BY <1>2, <3>1, <3>3
    <3> USE DEF n
    <3>5. Placed(c, p + 1, op)
      BY <1>2, <2>4, <3>1, <3>2, <3>4 DEF Placed
    <3>6. QED
      BY <3>4, <3>5
  <2>5. QED
    BY <1>4, <2>1, <2>2, <2>3, <2>4 DEF Placed
<1>5. QED
  BY <1>3, <1>4

(* The first of the line is taken. *)
LEMMA LineTaken ==
  ASSUME Typed, StrandInv, use_strand, NEW w \in Workers, Take(w),
         NEW c \in Conns, NEW p, NEW op, Placed(c, p, op)'
  PROVE  /\ \E q \in Nat : /\ Placed(c, q, op)
                           /\ q = IF p <= Len(waiting[c]) THEN p ELSE p + 1
         /\ opQueue[1].conn = c /\ opQueue[1].kind \in {"read", "write"} =>
              \E r \in Nat : /\ Placed(c, r, opQueue[1])
                             /\ r < IF p <= Len(waiting[c]) THEN p ELSE p + 1
<1>1. /\ \A i \in DOMAIN opQueue' :
           /\ i \in Nat \ {0} /\ i + 1 \in DOMAIN opQueue
           /\ opQueue'[i] = opQueue[i + 1]
      /\ 1 \in DOMAIN opQueue
  BY TakeDoes, Popped, LineTypes
<1> DEFINE n == Len(waiting[c])
<1>2. /\ n \in Nat /\ DOMAIN waiting[c] = 1 .. n /\ waiting' = waiting
      /\ op.conn = c
  BY LineTypes, TakeDoes DEF Placed
<1>3. \/ p \in DOMAIN waiting[c] /\ op = waiting[c][p]
      \/ \E i \in DOMAIN opQueue' :
           /\ op = opQueue'[i]
           /\ \/ p = 0 /\ op.locked
              \/ p = n + i /\ ~ op.locked
  BY <1>2 DEF Placed
<1>4. CASE p \in DOMAIN waiting[c] /\ op = waiting[c][p]
  <2>1. Placed(c, p, op) /\ p <= n /\ p \in Nat /\ 0 < p /\ n > 0
    BY <1>2, <1>4 DEF Placed
  <2>2. ASSUME opQueue[1].conn = c, opQueue[1].kind \in {"read", "write"}
        PROVE  Placed(c, 0, opQueue[1])
    <3>1. waiting[c] # << >>
      BY <1>2, <2>1, LineTypes, EmptySeq
    <3>2. opQueue[1].locked
      BY <2>2, <3>1, TakenAlone
    <3>3. QED
      BY <1>1, <2>2, <3>2 DEF Placed
  <2>3. QED
    BY <2>1, <2>2
<1>5. ASSUME NEW i \in DOMAIN opQueue', op = opQueue'[i],
             p = 0, op.locked
      PROVE  /\ Placed(c, p, op) /\ p <= n
             /\ ~ (/\ opQueue[1].conn = c
                   /\ opQueue[1].kind \in {"read", "write"})
  <2>1. i + 1 \in DOMAIN opQueue /\ op = opQueue[i + 1] /\ i + 1 # 1
    BY <1>1, <1>5
  <2>2. QED
    BY <1>2, <1>5, <2>1, TakenAlone DEF Placed
<1>6. ASSUME NEW i \in DOMAIN opQueue', op = opQueue'[i],
             p = n + i, ~ op.locked
      PROVE  /\ Placed(c, p + 1, op) /\ ~ (p <= n) /\ p + 1 \in Nat
             /\ opQueue[1].conn = c
                /\ opQueue[1].kind \in {"read", "write"} =>
                  \E r \in Nat : Placed(c, r, opQueue[1]) /\ r < p + 1
  <2>1. /\ i + 1 \in DOMAIN opQueue /\ op = opQueue[i + 1]
        /\ p + 1 = n + (i + 1) /\ p \in Nat /\ p > n
    <3>1. /\ i + 1 \in DOMAIN opQueue /\ op = opQueue[i + 1]
          /\ i \in Nat \ {0}
      BY <1>1, <1>6
    <3>2. n \in Nat /\ p = n + i
      BY <1>2, <1>6
    <3> HIDE DEF n
    <3>3. QED
      BY <3>1, <3>2
  <2>2. Placed(c, p + 1, op)
    BY <1>2, <1>6, <2>1 DEF Placed
  <2>3. ASSUME opQueue[1].conn = c, opQueue[1].kind \in {"read", "write"}
        PROVE  \E r \in Nat : Placed(c, r, opQueue[1]) /\ r < p + 1
    <3>1. CASE opQueue[1].locked
      BY <1>1, <2>1, <2>3, <3>1 DEF Placed
    <3>2. CASE ~ opQueue[1].locked
      <4>1. Placed(c, n + 1, opQueue[1])
        BY <1>1, <2>3, <3>2 DEF Placed
      <4>2. n + 1 < p + 1 /\ n + 1 \in Nat
        BY <1>2, <2>1
      <4>3. QED
        BY <4>1, <4>2
    <3>3. QED
      BY <3>1, <3>2
  <2>4. QED
    BY <1>2, <2>1, <2>2, <2>3
<1>7. QED
  BY <1>2, <1>3, <1>4, <1>5, <1>6

(* The first of the waiting gets the strand: all move up. *)
LEMMA LineReturned ==
  ASSUME Typed, StrandInv, use_strand, NEW w \in Workers, Return(w),
         NEW c \in Conns, NEW p, NEW op, Placed(c, p, op)'
  PROVE  \E q \in Nat : \E other :
           /\ Placed(c, q, other) /\ Same(op, other)
           /\ q = IF c = Mine(w) /\ waiting[c] # << >> THEN p + 1 ELSE p
<1> DEFINE n == Len(waiting[c])
<1>1. /\ opQueue \in Seq(QueuedOps) /\ Len(opQueue) \in Nat
      /\ n \in Nat /\ DOMAIN waiting[c] = 1 .. n
      /\ waiting[c] \in Seq(WaitingOps(c))
  BY LineTypes
<1>2. CASE opQueue' = opQueue /\ waiting'[c] = waiting[c]
  <2>1. Placed(c, p, op) /\ Same(op, op)
    BY <1>2 DEF Placed, Same
  <2>2. p \in Nat
    BY <2>1, LinePlaced, LineTypes
  <2>3. c # Mine(w) \/ waiting[c] = << >>
    <3>1. \A new \in QueuedOps : Append(opQueue, new) # opQueue
      <4>1. \A new \in QueuedOps : Len(Append(opQueue, new)) = Len(opQueue) + 1
        BY <1>1, Appended
      <4>2. QED
        BY <1>1, <4>1
    <3>2. QED
      BY <1>2, <3>1, ReturnDoes
  <2>4. QED
    BY <2>1, <2>2, <2>3
<1>3. CASE c # Mine(w)
  <2>1. waiting'[c] = waiting[c]
    BY <1>3, ReturnDoes
  <2>2. CASE opQueue' = opQueue
    BY <1>2, <2>1, <2>2
  <2>3. CASE opQueue' # opQueue
    <3>1. PICK new \in QueuedOps : /\ new.conn = Mine(w)
                                   /\ opQueue' = Append(opQueue, new)
      BY <2>3, ReturnDoes
    <3>2. op.conn = c
      BY DEF Placed
    <3>3. Placed(c, p, op) /\ Same(op, op)
      BY <1>3, <2>1, <3>1, <3>2, LinePushed DEF Same
    <3>4. p \in Nat
      BY <3>3, LinePlaced, LineTypes
    <3>5. QED
      BY <1>3, <3>3, <3>4
  <2>4. QED
    BY <2>2, <2>3
<1>4. CASE c = Mine(w) /\ waiting[c] # << >>
  <2>1. PICK new \in QueuedOps :
          /\ new.locked /\ Same(new, Head(waiting[c])) /\ new.conn = c
          /\ opQueue' = Append(opQueue, new)
    BY <1>4, ReturnDoes
  <2>2. /\ waiting'[c] = Tail(waiting[c]) /\ Len(waiting'[c]) = n - 1
        /\ Head(waiting[c]) = waiting[c][1] /\ n > 0
        /\ DOMAIN waiting'[c] = 1 .. n - 1
        /\ \A i \in 1 .. n - 1 : waiting'[c][i] = waiting[c][i + 1]
        /\ Head(waiting[c]).conn = c
    <3>1. waiting'[c] = Tail(waiting[c])
      BY <1>4, ReturnDoes
    <3>2. /\ waiting'[c] \in Seq(WaitingOps(c)) /\ Len(waiting'[c]) = n - 1
          /\ Head(waiting[c]) \in WaitingOps(c)
      BY <1>1, <1>4, <3>1, HeadTail
    <3>3. DOMAIN waiting'[c] = 1 .. n - 1
      BY <3>2, LenProperties
    <3>4. QED
      BY <1>1, <1>4, <3>1, <3>2, <3>3, HeadTail DEF WaitingOps
  <2>3. /\ Owner(w, c) /\ \A i \in DOMAIN opQueue :
                            opQueue[i].conn = c => ~ opQueue[i].locked
    BY <1>4, ReturnDoes DEF StrandInv
  <2>4. \A i \in DOMAIN opQueue' :
          \/ /\ i \in DOMAIN opQueue /\ opQueue'[i] = opQueue[i]
             /\ i \in Nat
          \/ opQueue'[i] = new
    BY <1>1, <2>1, Pushed
  <2>5. op.conn = c
    BY DEF Placed
  <2>6. CASE p \in DOMAIN waiting'[c] /\ op = waiting'[c][p]
    <3>1. /\ p + 1 \in DOMAIN waiting[c] /\ op = waiting[c][p + 1]
          /\ p + 1 \in Nat
      BY <1>1, <2>2, <2>6
    <3>2. Placed(c, p + 1, op) /\ Same(op, op)
      BY <2>5, <3>1 DEF Placed, Same
    <3>3. QED
      BY <1>4, <3>1, <3>2
  <2>7. ASSUME NEW i \in DOMAIN opQueue', op = opQueue'[i], op.locked, p = 0
        PROVE  /\ Placed(c, 1, Head(waiting[c])) /\ p + 1 = 1
               /\ Same(op, Head(waiting[c]))
    <3>1. op = new
      BY <2>3, <2>4, <2>5, <2>7
    <3>2. QED
      BY <1>1, <2>1, <2>2, <2>7, <3>1 DEF Placed
  <2>8. ASSUME NEW i \in DOMAIN opQueue', op = opQueue'[i], ~ op.locked,
               p = Len(waiting'[c]) + i
        PROVE  Placed(c, p + 1, op) /\ Same(op, op) /\ p + 1 \in Nat
    <3>1. /\ i \in DOMAIN opQueue /\ opQueue'[i] = opQueue[i] /\ i \in Nat
      BY <2>1, <2>4, <2>8
    <3>2. p + 1 = n + i /\ p + 1 \in Nat
      BY <1>1, <2>2, <2>8, <3>1
    <3>3. QED
      BY <2>5, <2>8, <3>1, <3>2 DEF Placed, Same
  <2>9. QED
    BY <1>4, <2>6, <2>7, <2>8 DEF Placed
<1>5. CASE c = Mine(w) /\ waiting[c] = << >>
  BY <1>2, <1>5, ReturnDoes
<1>6. QED
  BY <1>3, <1>4, <1>5

(* op is ahead of other in the line of c. *)
Precedes(c, op, other) ==
  \E p, q \in Nat : p < q /\ Placed(c, p, op) /\ Placed(c, q, other)

(* The steps of threads keep the order of the line. *)
LEMMA LineKept ==
  ASSUME Typed, StrandInv, use_strand, NEW w \in Workers, Worker(w),
         NEW c \in Conns, NEW op, NEW other, Precedes(c, op, other)'
  PROVE  \/ \E first, second : /\ Precedes(c, first, second)
                               /\ Same(op, first) /\ Same(other, second)
         \/ /\ StartWrite(w) /\ c = Mine(w) /\ other.kind = "write"
            /\ op \in Completed(c)
<1>1. PICK p \in Nat, q \in Nat :
        p < q /\ Placed(c, p, op)' /\ Placed(c, q, other)'
  BY DEF Precedes
<1>2. Same(op, op) /\ Same(other, other) /\ Len(waiting[c]) \in Nat
  BY LineTypes DEF Same
<1> DEFINE n == Len(waiting[c])
<1>3. CASE Take(w)
  <2>1. /\ Placed(c, IF p <= n THEN p ELSE p + 1, op)
        /\ Placed(c, IF q <= n THEN q ELSE q + 1, other)
    BY <1>1, <1>3, LineTaken
  <2> HIDE DEF n
  <2>2. QED
    BY <1>1, <1>2, <2>1 DEF Precedes, n
<1>4. CASE Delay(w)
  <2>1. CASE opQueue[1].conn = c
    <3>1. Placed(c, p, op) /\ Placed(c, q, other)
      BY <1>1, <1>4, <2>1, LineDelayed
    <3>2. QED
      BY <1>1, <1>2, <3>1 DEF Precedes
  <2>2. CASE opQueue[1].conn # c
    <3>1. /\ Placed(c, IF p <= n THEN p ELSE p + 1, op)
          /\ Placed(c, IF q <= n THEN q ELSE q + 1, other)
      BY <1>1, <1>4, <2>2, LineDelayed
    <3> HIDE DEF n
    <3>2. QED
      BY <1>1, <1>2, <3>1 DEF Precedes, n
  <2>3. QED
    BY <2>1, <2>2
<1>5. CASE Return(w)
  <2>1. CASE c = Mine(w) /\ waiting[c] # << >>
    <3>1. PICK first : Placed(c, p + 1, first) /\ Same(op, first)
      BY <1>1, <1>5, <2>1, LineReturned
    <3>2. PICK second : Placed(c, q + 1, second) /\ Same(other, second)
      BY <1>1, <1>5, <2>1, LineReturned
    <3>3. QED
      BY <1>1, <3>1, <3>2 DEF Precedes
  <2>2. CASE ~ (c = Mine(w) /\ waiting[c] # << >>)
    <3>1. PICK first : Placed(c, p, first) /\ Same(op, first)
      BY <1>1, <1>5, <2>2, LineReturned
    <3>2. PICK second : Placed(c, q, second) /\ Same(other, second)
      BY <1>1, <1>5, <2>2, LineReturned
    <3>3. QED
      BY <1>1, <3>1, <3>2 DEF Precedes
  <2>3. QED
    BY <2>1, <2>2
<1>6. CASE Inside(w)
  <2>1. waiting' = waiting
    BY <1>6, InsideKeeps
  <2>2. CASE opQueue' = opQueue
    <3>1. Placed(c, p, op) /\ Placed(c, q, other)
      BY <1>1, <2>1, <2>2 DEF Placed
    <3>2. QED
      BY <1>1, <1>2, <3>1 DEF Precedes
  <2>3. CASE opQueue' # opQueue
    <3>1. PICK new \in QueuedOps :
            /\ new.kind = "write" /\ new.conn = Mine(w) /\ ~ new.locked
            /\ opQueue' = Append(opQueue, new) /\ StartWrite(w)
      BY <1>6, <2>3, InsideKeeps
    <3>2. \/ Placed(c, p, op)
          \/ op = new /\ p = n + Len(opQueue) + 1
      BY <1>1, <2>1, <3>1, LinePushed
    <3>3. \/ Placed(c, q, other)
          \/ other = new /\ q = n + Len(opQueue) + 1
      BY <1>1, <2>1, <3>1, LinePushed
    <3>4. Placed(c, q, other) => q <= n + Len(opQueue)
      BY LinePlaced, LineTypes DEF Places
    <3>5. Placed(c, p, op)
      <4>1. Len(opQueue) \in Nat
        BY LineTypes
      <4> HIDE DEF n
      <4>2. QED
        BY <1>1, <1>2, <3>2, <3>3, <3>4, <4>1 DEF n
    <3>6. CASE Placed(c, q, other)
      BY <1>1, <1>2, <3>5, <3>6 DEF Precedes
    <3>7. CASE other = new
      <4>1. other.conn = c /\ op \in Completed(c)
        BY <1>1, <3>5, LinePlaced DEF Placed
      <4>2. QED
        BY <3>1, <3>7, <4>1
    <3>8. QED
      BY <3>3, <3>6, <3>7
  <2>4. QED
    BY <2>2, <2>3
<1>7. QED
  BY <1>3, <1>4, <1>5, <1>6, WorkerSplit

(* The operation that a thread takes was ahead of those that are left. *)
LEMMA TakenAhead ==
  ASSUME Typed, StrandInv, use_strand, NEW w \in Workers, Take(w),
         NEW c \in Conns, opQueue[1].conn = c,
         opQueue[1].kind \in {"read", "write"}, NEW op \in Completed(c)'
  PROVE  Precedes(c, opQueue[1], op)
<1>1. op.conn = c /\ waiting' = waiting
  BY TakeDoes DEF Completed
<1>2. \E p : Placed(c, p, op)'
  <2>1. CASE op \in ToSet(waiting[c])'
    <3>1. PICK i \in DOMAIN waiting'[c] : op = waiting'[c][i]
      BY <2>1 DEF ToSet
    <3>2. Placed(c, i, op)'
      BY <1>1, <3>1 DEF Placed
    <3>3. QED
      BY <3>2
  <2>2. CASE op \in ToSet(opQueue)'
    <3>1. PICK i \in DOMAIN opQueue' : op = opQueue'[i]
      BY <2>2 DEF ToSet
    <3>2. Placed(c, 0, op)' \/ Placed(c, Len(waiting[c]) + i, op)'
      BY <1>1, <3>1 DEF Placed
    <3>3. QED
      BY <1>1, <3>2
  <2>3. QED
    BY <2>1, <2>2 DEF Completed
<1>3. PICK p : Placed(c, p, op)'
  BY <1>2
<1>4. PICK q \in Nat : /\ Placed(c, q, op)
                       /\ q = IF p <= Len(waiting[c]) THEN p ELSE p + 1
  BY <1>3, LineTaken
<1>5. PICK r \in Nat : Placed(c, r, opQueue[1]) /\ r < q
  BY <1>3, <1>4, LineTaken
<1>6. QED
  BY <1>4, <1>5 DEF Precedes

(* What comes from outside goes to the end of the line. *)
LEMMA LineOutside ==
  ASSUME Typed, Outside, NEW c \in Conns, NEW op, NEW other,
         Precedes(c, op, other)'
  PROVE  \/ Precedes(c, op, other)
         \/ /\ op \in Completed(c)
            /\ \/ other.kind = "accept" /\ ClientConnect(c)
               \/ /\ other.kind = "read"
                  /\ ReceivePacket(c) \/ ReceiveEnd(c) \/ ReceiveError(c)
               \/ other.kind = "write" /\ (FinishWrite(c) \/ FailWrite(c))
<1>1. PICK p \in Nat, q \in Nat :
        p < q /\ Placed(c, p, op)' /\ Placed(c, q, other)'
  BY DEF Precedes
<1>2. waiting' = waiting
  BY OutsideKeeps
<1>3. CASE opQueue' = opQueue
  BY <1>1, <1>2, <1>3 DEF Precedes, Placed
<1>4. CASE opQueue' # opQueue
  <2>1. PICK new \in QueuedOps :
          /\ opQueue' = Append(opQueue, new) /\ ~ new.locked
          /\ \/ new.kind = "stop" /\ new.conn = NoConn /\ ReceiveSignal
             \/ \E d \in Conns :
                  /\ new.conn = d
                  /\ \/ new.kind = "accept" /\ ClientConnect(d)
                     \/ /\ new.kind = "read"
                        /\ \/ ReceivePacket(d) \/ ReceiveEnd(d)
                           \/ ReceiveError(d)
                     \/ /\ new.kind = "write"
                        /\ FinishWrite(d) \/ FailWrite(d)
    BY <1>4, OutsideQueue
  <2> DEFINE m == Len(waiting[c]) + Len(opQueue)
  <2>2. /\ Placed(c, p, op) \/ (op = new /\ p = m + 1)
        /\ Placed(c, q, other) \/ (other = new /\ q = m + 1)
    BY <1>1, <1>2, <2>1, LinePushed
  <2>3. /\ Placed(c, q, other) => q <= m
        /\ m \in Nat
    BY LinePlaced, LineTypes DEF Places
  <2>4. Placed(c, p, op)
    <3> HIDE DEF m
    <3>1. QED
      BY <1>1, <2>2, <2>3
  <2>5. CASE Placed(c, q, other)
    BY <1>1, <2>4, <2>5 DEF Precedes
  <2>6. CASE other = new
    <3>1. other.conn = c /\ op \in Completed(c)
      BY <1>1, <2>4, LinePlaced DEF Placed
    <3>2. PICK d \in Conns :
            /\ new.conn = d
            /\ \/ new.kind = "accept" /\ ClientConnect(d)
               \/ /\ new.kind = "read"
                  /\ ReceivePacket(d) \/ ReceiveEnd(d) \/ ReceiveError(d)
               \/ new.kind = "write" /\ (FinishWrite(d) \/ FailWrite(d))
      BY <2>1, <2>6, <3>1
    <3>3. d = c
      BY <2>6, <3>1, <3>2
    <3>4. QED
      BY <2>6, <3>1, <3>2, <3>3
  <2>7. QED
    BY <2>2, <2>5, <2>6
<1>5. QED
  BY <1>3, <1>4

-----------------------------------------------------------------------------
(* One read at a time *)

(* A read of c has completed and waits for a thread. *)
Delivered(c) == \E op \in Completed(c) : op.kind = "read"

(* A thread is about to run the callback of a read of c. *)
InRead(c) == \E w \in Workers : pc[w] = "read" /\ Mine(w) = c

(* With the strand there is at most one read of c, which is in progress,   *)
(* completed or at the start of its callback, and none when receiving_ is  *)
(* not set.                                                                *)
OneRead(c) ==
  /\ Len(reads[c]) <= 1
  /\ ~ receiving_[c] => reads[c] = << >>
  /\ reads[c] # << >> \/ ~ receiving_[c] => ~ Delivered(c) /\ ~ InRead(c)
  /\ Delivered(c) => ~ InRead(c)
  /\ \A op, other : Precedes(c, op, other) =>
       ~ (op.kind = "read" /\ other.kind = "read")
  /\ \A w \in Workers :
       pc[w] \in {"received", "swap", "arm"} /\ Mine(w) = c => ~ receiving_[c]

ReadInv == use_strand => \A c \in Conns : OneRead(c)

(* A thread inside a callback is its owner. *)
LEMMA OwnsFrame ==
  ASSUME Typed, NEW w \in Workers, NEW c \in Conns, Mine(w) = c,
         pc[w] \in {"read", "write", "return", "unmark"} \cup ReceivePcs
  PROVE  Owner(w, c)
BY DEF Owner, Typed, FrameInv, ControlInv

(* With the strand no other thread is inside a callback of c. *)
LEMMA Alone ==
  ASSUME Typed, StrandInv, use_strand, NEW c \in Conns,
         NEW w \in Workers, Mine(w) = c,
         pc[w] \in {"read", "write", "return", "unmark"} \cup ReceivePcs,
         NEW v \in Workers, Mine(v) = c,
         pc[v] \in {"read", "write", "return", "unmark"} \cup ReceivePcs
  PROVE  v = w
BY OwnsFrame DEF StrandInv

(* Threads deliver no reads, and keep those that are delivered in order. *)
LEMMA ReadsFrom ==
  ASSUME Typed, StrandInv, use_strand, NEW w \in Workers, Worker(w),
         NEW c \in Conns
  PROVE  /\ Delivered(c)' => Delivered(c)
         /\ \A op, other :
              /\ Precedes(c, op, other)' /\ op.kind = "read"
              /\ other.kind = "read"
              => \E first, second : /\ Precedes(c, first, second)
                                    /\ first.kind = "read"
                                    /\ second.kind = "read"
<1>1. Delivered(c)' => Delivered(c)
  <2> SUFFICES ASSUME Delivered(c)'
               PROVE  Delivered(c)
    OBVIOUS
  <2>1. PICK op \in Completed(c)' : op.kind = "read"
    BY DEF Delivered
  <2>2. PICK other \in Completed(c) : Same(op, other)
    BY <2>1, OpsFrom
  <2>3. QED
    BY <2>1, <2>2 DEF Same, Delivered
<1>2. ASSUME NEW op, NEW other, Precedes(c, op, other)', op.kind = "read",
             other.kind = "read"
      PROVE  \E first, second : /\ Precedes(c, first, second)
                                /\ first.kind = "read"
                                /\ second.kind = "read"
  <2>1. PICK first, second : /\ Precedes(c, first, second)
                             /\ Same(op, first) /\ Same(other, second)
    BY <1>2, LineKept
  <2>2. QED
    BY <1>2, <2>1 DEF Same
<1>3. QED
  BY <1>1, <1>2

(* A step that starts and ends no read of c. *)
LEMMA ReadQuiet ==
  ASSUME Typed, StrandInv, use_strand, NEW w \in Workers, Worker(w),
         NEW c \in Conns, OneRead(c),
         reads'[c] = reads[c], receiving_'[c] = receiving_[c],
         InRead(c)' => InRead(c),
         pc'[w] \in {"received", "swap", "arm"} /\ Mine(w)' = c =>
           ~ receiving_[c]
  PROVE  OneRead(c)'
<1>1. /\ Delivered(c)' => Delivered(c)
      /\ \A op, other : Precedes(c, op, other)' =>
           ~ (op.kind = "read" /\ other.kind = "read")
  BY ReadsFrom DEF OneRead
<1>2. \A v \in Workers :
        pc'[v] \in {"received", "swap", "arm"} /\ Mine(v)' = c =>
          ~ receiving_'[c]
  BY OthersKeep DEF OneRead
<1>3. QED
  BY <1>1, <1>2 DEF OneRead

(* Taking a read moves it from the line to its callback. *)
LEMMA ReadTaken ==
  ASSUME Typed, StrandInv, use_strand, NEW w \in Workers, Worker(w), Take(w),
         NEW c \in Conns, OneRead(c)
  PROVE  OneRead(c)'
<1>1. /\ UNCHANGED rxVars /\ pc'[w] \in Kinds
  BY TakeDoes, TakenKind
<1>2. CASE opQueue[1].conn = c /\ opQueue[1].kind = "read"
  <2>1. opQueue[1] \in Completed(c)
    <3>1. 1 \in DOMAIN opQueue
      BY TakeDoes, Popped DEF Typed, ThreadTypes
    <3>2. QED
      BY <1>2, <3>1, CompletedTyped
  <2>2. Delivered(c) /\ reads[c] = << >> /\ receiving_[c]
    BY <1>2, <2>1 DEF Delivered, OneRead
  <2>3. ~ Delivered(c)'
    <3> SUFFICES ASSUME NEW op \in Completed(c)', op.kind = "read"
                 PROVE  FALSE
      BY DEF Delivered
    <3>1. Precedes(c, opQueue[1], op)
      BY <1>2, TakenAhead
    <3>2. QED
      BY <1>2, <3>1 DEF OneRead
  <2>4. \A op, other : Precedes(c, op, other)' =>
          ~ (op.kind = "read" /\ other.kind = "read")
    BY ReadsFrom DEF OneRead
  <2>5. \A v \in Workers : ~ (/\ pc'[v] \in {"received", "swap", "arm"}
                              /\ Mine(v)' = c)
    BY <1>1, <2>2, OthersKeep DEF OneRead
  <2>6. QED
    BY <1>1, <2>2, <2>3, <2>4, <2>5 DEF OneRead
<1>3. CASE ~ (opQueue[1].conn = c /\ opQueue[1].kind = "read")
  <2>1. InRead(c)' => InRead(c)
    <3> SUFFICES ASSUME NEW v \in Workers, pc'[v] = "read", Mine(v)' = c
                 PROVE  InRead(c)
      BY DEF InRead
    <3>1. v # w
      BY <1>3, TakeDoes
    <3>2. pc'[v] = pc[v] /\ Mine(v)' = Mine(v)
      BY <3>1, OthersKeep
    <3>3. QED
      BY <3>2 DEF InRead
  <2>2. QED
    BY <1>1, <2>1, ReadQuiet
<1>4. QED
  BY <1>2, <1>3

(* Where a callback goes next while it receives. *)
LEMMA CallbackGoes ==
  ASSUME Typed, NEW w \in Workers, Callback(w)
  PROVE  /\ pc'[w] \notin {"read", "swap"}
         /\ pc'[w] = "received" => pc[w] = "read"
         /\ pc'[w] = "arm" => pc[w] = "enable" /\ ~ receiving_[Mine(w)]
<1>1. /\ pc \in [Workers -> Pcs] /\ frame \in [Workers -> Frames]
  BY DEF Typed, ThreadTypes
<1>2. /\ \A reply : AfterSend(reply) \in {"leave", "disconnect", "shut"}
      /\ frame[w].after \in {"return", "parse", "leave", "invalid", "walk"}
  BY <1>1 DEF AfterSend, Frames
<1> DEFINE a == Alive(Mine(w))
<1> HIDE DEF a
<1>3. CASE \/ ReadExpired(w, a) \/ ReadData(w, a)
           \/ ReadEnd(w, a) \/ ReadError(w, a)
  BY <1>1, <1>3 DEF ReadExpired, ReadData, ReadEnd, ReadError
<1>4. CASE SwapBuffers(w)
  BY <1>1, <1>4 DEF SwapBuffers
<1>5. CASE TestReceiving(w)
  BY <1>1, <1>2, <1>5 DEF TestReceiving
<1>6. CASE ArmRead(w) \/ LeaveReceive(w)
  BY <1>1, <1>2, <1>6 DEF ArmRead, LeaveReceive
<1>7. CASE Respond(w)
  BY <1>1, <1>2, <1>7 DEF Respond
<1>8. CASE DisconnectInvalid(w) \/ MarkTransmitting(w)
  BY <1>1, <1>2, <1>8 DEF DisconnectInvalid, MarkTransmitting
<1>9. CASE WriteExpired(w, a) \/ WriteDone(w, a) \/ WriteFailed(w, a)
  BY <1>1, <1>2, <1>9 DEF WriteExpired, WriteDone, WriteFailed
<1>10. CASE UnmarkTransmitting(w) \/ Disconnect(w)
  BY <1>1, <1>2, <1>10 DEF UnmarkTransmitting, Disconnect
<1>11. CASE PendDisconnect(w) \/ ShutSocket(w)
  BY <1>1, <1>2, <1>11 DEF PendDisconnect, ShutSocket
<1>12. QED
  BY <1>3, <1>4, <1>5, <1>6, <1>7, <1>8, <1>9, <1>10, <1>11
     DEF Callback, ConnectionStep, a

(* The callback of a read ends it before it starts the next. *)
LEMMA ReadCallback ==
  ASSUME Typed, StrandInv, use_strand, NEW w \in Workers, Worker(w),
         Callback(w), NEW c \in Conns, OneRead(c)
  PROVE  OneRead(c)'
<1>1. /\ pc \in [Workers -> Pcs] /\ frame \in [Workers -> Frames]
      /\ FrameInv(w) /\ Mine(w) \in Conns /\ Mine(w)' = Mine(w)
      /\ receiving_ \in [Conns -> BOOLEAN] /\ reads \in [Conns -> Seq({1, 2})]
      /\ front \in [Conns -> {1, 2}]
  BY CallbackLocal DEF Typed, ThreadTypes, SocketTypes
<1>2. /\ pc'[w] \notin {"read", "swap"}
      /\ pc'[w] = "received" => pc[w] = "read"
      /\ pc'[w] = "arm" => pc[w] = "enable" /\ ~ receiving_[Mine(w)]
  BY CallbackGoes
<1>3. InRead(c)' => InRead(c)
  BY <1>2, OthersKeep DEF InRead
<1>4. CASE Mine(w) # c
  BY <1>1, <1>3, <1>4, CallbackLocal, ReadQuiet
<1>5. CASE Mine(w) = c /\ pc[w] \in {"read", "arm"}
  <2>1. \A v \in Workers \ {w} :
          ~ (/\ pc'[v] \in {"read", "received", "swap", "arm"}
             /\ Mine(v)' = c)
    BY <1>5, Alone, OthersKeep
  <2>2. /\ Delivered(c)' => Delivered(c)
        /\ \A op, other : Precedes(c, op, other)' =>
             ~ (op.kind = "read" /\ other.kind = "read")
    BY ReadsFrom DEF OneRead
  <2>3. CASE pc[w] = "read" /\ ReadData(w, Alive(Mine(w)))
    <3>1. ~ receiving_'[c] /\ reads'[c] = reads[c] /\ pc'[w] = "received"
      BY <1>1, <1>5, <2>3 DEF ReadData
    <3>2. ~ Delivered(c) /\ reads[c] = << >>
      BY <1>5, <2>3 DEF OneRead, InRead
    <3>3. ~ InRead(c)'
      BY <2>1, <3>1 DEF InRead
    <3>4. QED
      BY <2>2, <3>1, <3>2, <3>3 DEF OneRead
  <2>4. CASE pc[w] = "read" /\ ~ ReadData(w, Alive(Mine(w)))
    <3>1. /\ UNCHANGED rxVars /\ pc'[w] \in {"return", "disconnected"}
      BY <1>1, <2>4 DEF Callback, ConnectionStep, ReadExpired, ReadEnd,
         ReadError, SwapBuffers, TestReceiving, ArmRead, Respond,
         DisconnectInvalid, MarkTransmitting, LeaveReceive, WriteExpired,
         WriteDone, WriteFailed, UnmarkTransmitting, Disconnect,
         PendDisconnect, ShutSocket
    <3>2. QED
      BY <1>3, <3>1, ReadQuiet
  <2>5. CASE pc[w] = "arm"
    <3>1. ArmRead(w)
      BY <2>5 DEF Callback, ConnectionStep, ReadExpired, ReadData, ReadEnd,
         ReadError, SwapBuffers, TestReceiving, ArmRead, Respond,
         DisconnectInvalid, MarkTransmitting, LeaveReceive, WriteExpired,
         WriteDone, WriteFailed, UnmarkTransmitting, Disconnect,
         PendDisconnect, ShutSocket
    <3>2. ~ receiving_[c] /\ reads[c] = << >> /\ ~ Delivered(c) /\ ~ InRead(c)
      BY <1>5, <2>5 DEF OneRead
    <3>3. receiving_'[c] /\ reads'[c] = Append(<< >>, front[c])
      BY <1>1, <1>5, <3>1, <3>2 DEF ArmRead, StartRead
    <3>4. Len(reads'[c]) <= 1
      BY <3>3
    <3>5. pc'[w] \in {"parse", "return"}
      BY <1>1, <3>1 DEF ArmRead, FrameInv, ControlInv, Frames
    <3>6. \A v \in Workers : ~ (/\ pc'[v] \in {"received", "swap", "arm"}
                                /\ Mine(v)' = c)
      BY <2>1, <3>5
    <3>7. QED
      BY <1>3, <2>2, <3>2, <3>3, <3>4, <3>6 DEF OneRead
  <2>6. QED
    BY <1>5, <2>3, <2>4, <2>5
<1>6. CASE Mine(w) = c /\ pc[w] \notin {"read", "arm"}
  <2>1. /\ reads' = reads /\ receiving_' = receiving_
        /\ pc'[w] \in {"received", "swap", "arm"} => ~ receiving_[c]
    BY <1>2, <1>6 DEF Callback, ConnectionStep, ReadExpired, ReadData,
       ReadEnd, ReadError, SwapBuffers, TestReceiving, ArmRead, Respond,
       DisconnectInvalid, MarkTransmitting, LeaveReceive, WriteExpired,
       WriteDone, WriteFailed, UnmarkTransmitting, Disconnect, PendDisconnect,
       ShutSocket
  <2>2. QED
    BY <1>3, <1>6, <2>1, ReadQuiet
<1>7. QED
  BY <1>4, <1>5, <1>6

(* accept_handler starts the first read of the connection. *)
LEMMA ReadAccept ==
  ASSUME Typed, StrandInv, FreshInv, use_strand, NEW w \in Workers,
         Worker(w), Accept(w), NEW c \in Conns, OneRead(c)
  PROVE  OneRead(c)'
<1>1. /\ pc \in [Workers -> Pcs] /\ frame \in [Workers -> Frames]
      /\ receiving_ \in [Conns -> BOOLEAN] /\ reads \in [Conns -> Seq({1, 2})]
      /\ front \in [Conns -> {1, 2}] /\ Mine(w) \in Conns
  <2>1. pc[w] \in AcceptPcs
    BY DEF Accept, AcceptClosed, AcceptFailed, AcceptStart, RegisterHttp,
       RegisterComms, EndHandler
  <2>2. QED
    BY <2>1 DEF Typed, ThreadTypes, SocketTypes, FrameInv
<1>2. pc'[w] \in {"connected", "insert", "run"}
  BY <1>1 DEF Accept, AcceptClosed, AcceptFailed, AcceptStart, RegisterHttp,
     RegisterComms, EndHandler
<1>3. InRead(c)' => InRead(c)
  BY <1>2, OthersKeep DEF InRead
<1>4. CASE AcceptStart(w) /\ Mine(w) = c
  <2>1. Clean(c)
    BY <1>4 DEF AcceptStart, FreshInv, Accepting
  <2>2. ~ Delivered(c)
    <3>1. waiting[c] = << >>
      BY <2>1 DEF Clean
    <3>2. ToSet(waiting[c]) = {}
      BY <3>1 DEF ToSet
    <3>3. QED
      BY <2>1, <3>2, CompletedTyped DEF Clean, Delivered, Completed
  <2>3. ~ InRead(c)
    BY <2>1 DEF Clean, InRead
  <2>4. receiving_'[c] /\ reads'[c] = Append(<< >>, front[c])
    BY <1>1, <1>4, <2>1 DEF AcceptStart, StartRead, Clean
  <2>5. Len(reads'[c]) <= 1
    BY <2>4
  <2>6. \A v \in Workers : ~ (/\ pc'[v] \in {"received", "swap", "arm"}
                              /\ Mine(v)' = c)
    BY <1>2, <2>1, OthersKeep DEF Clean
  <2>7. /\ Delivered(c)' => Delivered(c)
        /\ \A op, other : Precedes(c, op, other)' =>
             ~ (op.kind = "read" /\ other.kind = "read")
    BY ReadsFrom DEF OneRead
  <2>8. QED
    BY <1>3, <2>2, <2>3, <2>4, <2>5, <2>6, <2>7 DEF OneRead
<1>5. CASE ~ (AcceptStart(w) /\ Mine(w) = c)
  <2>1. reads'[c] = reads[c] /\ receiving_'[c] = receiving_[c]
    BY <1>1, <1>5 DEF Accept, AcceptClosed, AcceptFailed, AcceptStart,
       RegisterHttp, RegisterComms, EndHandler, StartRead
  <2>2. QED
    BY <1>2, <1>3, <2>1, ReadQuiet
<1>6. QED
  BY <1>4, <1>5

(* The steps of threads keep one read at a time. *)
LEMMA ReadWorker ==
  ASSUME Typed, StrandInv, FreshInv, use_strand, NEW w \in Workers,
         Worker(w), NEW c \in Conns, OneRead(c)
  PROVE  OneRead(c)'
<1>1. CASE Take(w)
  BY <1>1, ReadTaken
<1>2. CASE Delay(w)
  <2>1. UNCHANGED <<pc, frame, rxVars>>
    BY <1>2, DelayDoes
  <2>2. InRead(c)' => InRead(c)
    BY <2>1 DEF InRead
  <2>3. pc'[w] \in {"received", "swap", "arm"} /\ Mine(w)' = c =>
          ~ receiving_[c]
    BY <2>1 DEF OneRead
  <2>4. QED
    BY <2>1, <2>2, <2>3, ReadQuiet
<1>3. CASE Return(w)
  <2>1. /\ pc'[w] = "run" /\ UNCHANGED rxVars
    BY <1>3, ReturnDoes
  <2>2. InRead(c)' => InRead(c)
    BY <2>1, OthersKeep DEF InRead
  <2>3. QED
    BY <2>1, <2>2, ReadQuiet
<1>4. CASE Callback(w)
  BY <1>4, ReadCallback
<1>5. CASE StartWrite(w)
  <2>1. pc'[w] = "mark" /\ UNCHANGED rxVars
    BY <1>5, WriteLocal
  <2>2. InRead(c)' => InRead(c)
    BY <2>1, OthersKeep DEF InRead
  <2>3. QED
    BY <2>1, <2>2, ReadQuiet
<1>6. CASE Accept(w)
  BY <1>6, ReadAccept
<1>7. CASE Event(w)
  <2>1. /\ UNCHANGED rxVars /\ Mine(w)' = Mine(w)
    BY <1>7, EventKeeps
  <2>2. /\ pc'[w] \notin {"read", "arm", "received"}
        /\ pc'[w] = "swap" => pc[w] = "received"
    BY <1>7 DEF Event, ReceivedUnknown, Received, Disconnected, CloseServer,
       EraseConnection, Typed, ThreadTypes, Frames
  <2>3. InRead(c)' => InRead(c)
    BY <2>2, OthersKeep DEF InRead
  <2>4. QED
    BY <2>1, <2>2, <2>3, ReadQuiet DEF OneRead
<1>8. CASE Stop(w)
  <2>1. /\ UNCHANGED rxVars
        /\ pc'[w] \notin {"read", "received", "swap", "arm"}
    BY <1>8, StopKeeps
  <2>2. InRead(c)' => InRead(c)
    BY <2>1, OthersKeep DEF InRead
  <2>3. QED
    BY <2>1, <2>2, ReadQuiet
<1>9. CASE Leave(w)
  <2>1. pc'[w] = "returned" /\ UNCHANGED rxVars
    BY <1>9 DEF Leave, LeaveRun, Typed, ThreadTypes
  <2>2. InRead(c)' => InRead(c)
    BY <2>1, OthersKeep DEF InRead
  <2>3. QED
    BY <2>1, <2>2, ReadQuiet
<1>10. QED
  BY <1>1, <1>2, <1>3, <1>4, <1>5, <1>6, <1>7, <1>8, <1>9, WorkerSplit
     DEF Inside

(* A socket completes a read that is in progress. *)
LEMMA ReadOutside ==
  ASSUME Typed, Outside, NEW c \in Conns, OneRead(c)
  PROVE  OneRead(c)'
<1>1. UNCHANGED <<pc, frame, receiving_, waiting>>
  BY OutsideKeeps
<1>2. InRead(c)' <=> InRead(c)
  BY <1>1 DEF InRead
<1>3. CASE ReceivePacket(c) \/ ReceiveEnd(c) \/ ReceiveError(c)
  <2>1. reads[c] # << >> /\ reads'[c] = Tail(reads[c])
    BY <1>3 DEF ReceivePacket, ReceiveEnd, ReceiveError, Typed, SocketTypes
  <2>2. reads'[c] = << >> /\ Len(reads'[c]) <= 1
    <3>1. Len(Tail(reads[c])) <= 0 /\ Tail(reads[c]) \in Seq({1, 2})
      BY <2>1, HeadTail DEF OneRead, Typed, SocketTypes
    <3>2. QED
      BY <2>1, <3>1, EmptySeq, LenProperties
  <2>3. ~ Delivered(c) /\ ~ InRead(c) /\ receiving_[c]
    BY <2>1 DEF OneRead
  <2>4. \A op, other : Precedes(c, op, other)' =>
          ~ (op.kind = "read" /\ other.kind = "read")
    BY <2>3, LineOutside DEF OneRead, Delivered
  <2>5. QED
    BY <1>1, <1>2, <2>2, <2>3, <2>4 DEF OneRead
<1>4. CASE ~ (ReceivePacket(c) \/ ReceiveEnd(c) \/ ReceiveError(c))
  <2>1. reads'[c] = reads[c]
    <3>1. CASE ReceiveSignal
      BY <3>1 DEF ReceiveSignal
    <3>2. ASSUME NEW d \in Conns,
                 Client(d) \/ Reactor(d)
          PROVE  reads'[c] = reads[c]
      <4>1. CASE d # c
        BY <3>2, <4>1, OutsideLocal
      <4>2. CASE d = c
        BY <1>4, <3>2, <4>2 DEF Reactor, ClientConnect, Client, ClientAsk,
           ClientHangUp, Break, FinishWrite, FailWrite, EndWrite
      <4>3. QED
        BY <4>1, <4>2
    <3>3. QED
      BY <3>1, <3>2 DEF Outside
  <2>2. Delivered(c)' => Delivered(c)
    BY <1>4, OpsOutside DEF Delivered
  <2>3. \A op, other : Precedes(c, op, other)' =>
          ~ (op.kind = "read" /\ other.kind = "read")
    BY <1>4, LineOutside DEF OneRead
  <2>4. QED
    BY <1>1, <1>2, <2>1, <2>2, <2>3 DEF OneRead
<1>5. QED
  BY <1>3, <1>4

(* At most one read of a connection is under way with the strand. *)
LEMMA ReadNext ==
  ASSUME Typed, StrandInv, FreshInv, ReadInv, [Next]_vars
  PROVE  ReadInv'
<1>1. use_strand' = use_strand
  BY StrandStays
<1>2. CASE \E w \in Workers : Worker(w)
  BY <1>1, <1>2, ReadWorker DEF ReadInv
<1>3. CASE Outside
  BY <1>1, <1>3, ReadOutside DEF ReadInv
<1>4. CASE UNCHANGED vars
  BY <1>4 DEF ReadInv, OneRead, Delivered, InRead, Completed, Precedes, Placed
<1>5. QED
  BY <1>2, <1>3, <1>4 DEF Next, Outside

-----------------------------------------------------------------------------
(* The two buffers *)

(* The packet of a completed read is in the block of rx_buffer_ until the  *)
(* two buffers are swapped, and in the other one while it is parsed.  The  *)
(* read in progress is into rx_buffer_.                                    *)
RightBuffer(c) ==
  /\ reads[c] # << >> => Head(reads[c]) = front[c]
  /\ \A op \in Completed(c) :
       op.kind = "read" /\ op.packet # 0 =>
         buffers[c][front[c]] = op.packet
  /\ \A w \in Workers : Mine(w) = c =>
       /\ pc[w] \in {"read", "received", "swap"} /\ frame[w].packet # 0 =>
            buffers[c][front[c]] = frame[w].packet
       /\ frame[w].after = "parse" =>
            buffers[c][3 - front[c]] = frame[w].packet

BufferInv == use_strand => \A c \in Conns : RightBuffer(c)

(* What is queued for a connection is all that is new among its completed  *)
(* operations.                                                             *)
LEMMA CompletedPushed ==
  ASSUME Typed, NEW new \in QueuedOps, opQueue' = Append(opQueue, new),
         waiting' = waiting, NEW c \in Conns
  PROVE  /\ \A op \in Completed(c)' : op \in Completed(c) \/ op = new
         /\ new.conn = c => new \in Completed(c)'
<1>1. ToSet(opQueue') = ToSet(opQueue) \cup {new}
  BY ToSetAppend DEF Typed, ThreadTypes
<1>2. QED
  BY <1>1 DEF Completed

(* The packet of a completed read is the next of the client. *)
LEMMA PacketOf ==
  ASSUME Typed, NEW c \in Conns, ReceivePacket(c)
  PROVE  /\ asked[c] - inbox[c] + 1 \in 1 .. MaxRequests
         /\ \E op \in Completed(c)' :
              op.kind = "read" /\ op.packet = asked[c] - inbox[c] + 1
         /\ \A op \in Completed(c)' :
              \/ op \in Completed(c)
              \/ op.kind = "read" /\ op.packet = asked[c] - inbox[c] + 1
<1> DEFINE new == Op("read", c, asked[c] - inbox[c] + 1, "ok")
<1>1. /\ opQueue' = Append(opQueue, new) /\ waiting' = waiting
      /\ asked[c] - inbox[c] + 1 \in 1 .. MaxRequests
  <2>1. /\ asked[c] \in 0 .. MaxRequests /\ inbox[c] \in 0 .. MaxRequests
        /\ inbox[c] <= asked[c] /\ inbox[c] > 0
    BY DEF Typed, ClientTypes, ReceivePacket
  <2>2. asked[c] - inbox[c] + 1 \in 1 .. MaxRequests
    BY <2>1
  <2>3. QED
    BY <2>2 DEF ReceivePacket, Enqueue
<1>2. /\ new \in QueuedOps /\ new.kind = "read" /\ new.conn = c
      /\ new.packet = asked[c] - inbox[c] + 1
  <2>1. new \in QueuedOps
    BY <1>1, OpTyped
  <2>2. /\ new.kind = "read" /\ new.conn = c
        /\ new.packet = asked[c] - inbox[c] + 1
    BY DEF Op
  <2>3. QED
    BY <2>1, <2>2
<1> HIDE DEF new
<1>3. QED
  BY <1>1, <1>2, CompletedPushed

(* The end of the stream and an error are delivered as a read without a    *)
(* packet.                                                                 *)
LEMMA EndOf ==
  ASSUME Typed, NEW c \in Conns, ReceiveEnd(c) \/ ReceiveError(c)
  PROVE  \A op \in Completed(c)' :
           op \in Completed(c) \/ (op.kind = "read" /\ op.packet = 0)
<1> DEFINE new == Op("read", c, 0, IF ReceiveEnd(c) THEN "eof"
                                                     ELSE "timedOut")
<1>1. opQueue' = Append(opQueue, new) /\ waiting' = waiting
  BY DEF ReceiveEnd, ReceiveError, Enqueue
<1>2. new \in QueuedOps /\ new.kind = "read" /\ new.packet = 0
  <2>1. new \in QueuedOps
    BY OpTyped
  <2>2. new.kind = "read" /\ new.packet = 0
    BY DEF Op
  <2>3. QED
    BY <2>1, <2>2
<1> HIDE DEF new
<1>3. QED
  BY <1>1, <1>2, CompletedPushed

(* A step that leaves the buffers of c alone. *)
LEMMA BufferQuiet ==
  ASSUME Typed, NEW w \in Workers, Worker(w), NEW c \in Conns,
         RightBuffer(c), reads'[c] = reads[c], front'[c] = front[c],
         buffers'[c] = buffers[c],
         Mine(w)' = c =>
           /\ pc'[w] \in {"read", "received", "swap"}
              /\ frame'[w].packet # 0 =>
                buffers[c][front[c]] = frame'[w].packet
           /\ frame'[w].after = "parse" =>
                buffers[c][3 - front[c]] = frame'[w].packet
  PROVE  RightBuffer(c)'
<1>1. \A op \in Completed(c)' :
        op.kind = "read" /\ op.packet # 0 =>
          buffers'[c][front'[c]] = op.packet
  <2> SUFFICES ASSUME NEW op \in Completed(c)', op.kind = "read",
                      op.packet # 0
               PROVE  buffers'[c][front'[c]] = op.packet
    OBVIOUS
  <2>1. PICK other \in Completed(c) : Same(op, other)
    BY OpsFrom
  <2>2. QED
    BY <2>1 DEF Same, RightBuffer
<1>2. ASSUME NEW v \in Workers, Mine(v)' = c
      PROVE  /\ pc'[v] \in {"read", "received", "swap"}
                /\ frame'[v].packet # 0 =>
                  buffers'[c][front'[c]] = frame'[v].packet
             /\ frame'[v].after = "parse" =>
                  buffers'[c][3 - front'[c]] = frame'[v].packet
  <2>1. CASE v = w
    BY <1>2, <2>1
  <2>2. CASE v # w
    BY <1>2, <2>2, OthersKeep DEF RightBuffer
  <2>3. QED
    BY <2>1, <2>2
<1>3. QED
  BY <1>1, <1>2 DEF RightBuffer

(* A callback gets the packet that the block of its read holds. *)
LEMMA BufferTaken ==
  ASSUME Typed, NEW w \in Workers, Worker(w), Take(w), NEW c \in Conns,
         RightBuffer(c)
  PROVE  RightBuffer(c)'
<1>1. /\ UNCHANGED rxVars /\ frame'[w].after = "return"
      /\ pc'[w] = opQueue[1].kind
      /\ frame'[w] = Frame(opQueue[1]) /\ Mine(w)' = opQueue[1].conn
  BY TakeDoes
<1>2. frame'[w].packet = opQueue[1].packet
  BY <1>1 DEF Frame
<1>3. pc'[w] \notin {"received", "swap"}
  BY <1>1, TakeDoes DEF QueuedOps, Ops
<1>4. CASE Mine(w)' = c /\ pc'[w] = "read"
  <2>1. opQueue[1] \in Completed(c)
    <3>1. 1 \in DOMAIN opQueue
      BY TakeDoes, Popped DEF Typed, ThreadTypes
    <3>2. QED
      BY <1>1, <1>4, <3>1, CompletedTyped
  <2>2. opQueue[1].packet # 0 => buffers[c][front[c]] = opQueue[1].packet
    BY <1>1, <1>4, <2>1 DEF RightBuffer
  <2>3. QED
    BY <1>1, <1>2, <1>3, <2>2, BufferQuiet
<1>5. CASE ~ (Mine(w)' = c /\ pc'[w] = "read")
  BY <1>1, <1>3, <1>5, BufferQuiet
<1>6. QED
  BY <1>4, <1>5

(* With the strand, what the step of a callback overwrites is needed by    *)
(* nobody else.                                                            *)
LEMMA BufferAlone ==
  ASSUME Typed, StrandInv, use_strand, NEW w \in Workers, Worker(w),
         NEW c \in Conns, OneRead(c), Mine(w) = c, pc[w] \in {"swap", "arm"}
  PROVE  /\ ~ receiving_[c] /\ reads[c] = << >>
         /\ \A op \in Completed(c)' : op.kind # "read"
         /\ \A v \in Workers \ {w} : Mine(v)' = c =>
              /\ pc'[v] \notin {"read", "received", "swap"}
              /\ frame'[v].after # "parse"
<1>1. ~ receiving_[c] /\ reads[c] = << >> /\ ~ Delivered(c)
  BY DEF OneRead
<1>2. ~ Delivered(c)'
  BY <1>1, ReadsFrom
<1>3. ASSUME NEW v \in Workers \ {w}, Mine(v) = c
      PROVE  /\ pc[v] \notin {"read", "received", "swap"}
             /\ frame[v].after # "parse"
  BY <1>3, Alone DEF Typed, FrameInv, ControlInv
<1>4. QED
  BY <1>1, <1>2, <1>3, OthersKeep DEF Delivered

(* The callbacks exchange the blocks when no read is under way. *)
LEMMA BufferCallback ==
  ASSUME Typed, StrandInv, use_strand, NEW w \in Workers, Worker(w),
         Callback(w), NEW c \in Conns, OneRead(c), RightBuffer(c)
  PROVE  RightBuffer(c)'
<1>1. /\ pc \in [Workers -> Pcs] /\ frame \in [Workers -> Frames]
      /\ FrameInv(w) /\ Mine(w) \in Conns /\ Mine(w)' = Mine(w)
      /\ frame'[w].packet = frame[w].packet
      /\ reads \in [Conns -> Seq({1, 2})]
      /\ buffers \in [Conns -> [{1, 2} -> 0..MaxRequests]]
      /\ front \in [Conns -> {1, 2}]
  BY CallbackLocal DEF Typed, ThreadTypes, SocketTypes
<1>2. CASE Mine(w) # c
  BY <1>1, <1>2, CallbackLocal, BufferQuiet
<1>3. CASE Mine(w) = c /\ SwapBuffers(w)
  <2>1. /\ front'[c] = 3 - front[c] /\ reads' = reads /\ buffers' = buffers
        /\ pc'[w] = "enable" /\ frame[w].packet # 0 /\ pc[w] = "swap"
    BY <1>1, <1>3 DEF SwapBuffers, FrameInv
  <2>2. 3 - front'[c] = front[c]
    <3>1. front[c] \in {1, 2}
      BY <1>1
    <3>2. 3 - (3 - front[c]) = front[c]
      BY <3>1
    <3>3. QED
      BY <2>1, <3>2
  <2>3. buffers'[c][3 - front'[c]] = frame'[w].packet
    BY <1>1, <1>3, <2>1, <2>2 DEF RightBuffer
  <2>4. QED
    BY <1>3, <2>1, <2>3, BufferAlone DEF RightBuffer
<1>4. CASE Mine(w) = c /\ ArmRead(w)
  <2>1. /\ reads'[c] = Append(reads[c], front[c]) /\ front' = front
        /\ buffers'[c] = [buffers[c] EXCEPT ![front[c]] = 0]
        /\ frame' = frame /\ pc[w] = "arm" /\ pc'[w] \in {"parse", "return"}
    <3>1. frame[w].after \in {"parse", "return"}
      BY <1>1, <1>4 DEF ArmRead, FrameInv, ControlInv, Frames
    <3>2. QED
      BY <1>1, <1>4, <3>1 DEF ArmRead, StartRead
  <2>2. reads[c] = << >>
    BY <1>4, <2>1, BufferAlone
  <2>3. Head(reads'[c]) = front'[c]
    BY <2>1, <2>2
  <2>4. front[c] \in {1, 2} /\ buffers[c] \in [{1, 2} -> 0..MaxRequests]
    BY <1>1
  <2>5. buffers'[c][3 - front[c]] = buffers[c][3 - front[c]]
    BY <2>1, <2>4
  <2>6. frame[w].after = "parse" =>
          buffers'[c][3 - front'[c]] = frame'[w].packet
    BY <1>4, <2>1, <2>5 DEF RightBuffer
  <2>7. \A op \in Completed(c)' : op.kind # "read"
    BY <1>4, <2>1, BufferAlone
  <2>8. \A v \in Workers : Mine(v)' = c =>
          /\ pc'[v] \notin {"read", "received", "swap"}
          /\ frame'[v].after = "parse" => v = w
    BY <1>4, <2>1, BufferAlone
  <2>9. QED
    BY <2>1, <2>3, <2>6, <2>7, <2>8 DEF RightBuffer
<1>5. CASE Mine(w) = c /\ ~ SwapBuffers(w) /\ ~ ArmRead(w)
  <2>1. UNCHANGED <<reads, buffers, front>>
    BY <1>5 DEF Callback, ConnectionStep, ReadExpired, ReadData, ReadEnd,
       ReadError, TestReceiving, Respond, DisconnectInvalid, MarkTransmitting,
       LeaveReceive, WriteExpired, WriteDone, WriteFailed, UnmarkTransmitting,
       Disconnect, PendDisconnect, ShutSocket
  <2>2. frame'[w].after = "parse" => frame[w].after = "parse"
    <3>1. CASE Respond(w)
      <4>1. PICK reply :
              frame' = [frame EXCEPT ![w].reply = reply,
                ![w].after = IF reply = "invalidClose"
                             THEN "invalid" ELSE "leave"]
        BY <3>1 DEF Respond
      <4>2. frame'[w].after \in {"invalid", "leave"}
        BY <1>1, <4>1 DEF Frames
      <4>3. QED
        BY <4>2
    <3>2. CASE DisconnectInvalid(w) \/ LeaveReceive(w)
      <4>1. frame[w] \in Frames
        BY <1>1
      <4>2. \/ frame'[w] = [frame[w] EXCEPT !.after = "leave"]
            \/ frame'[w] = [frame[w] EXCEPT !.http = FALSE,
                                           !.after = "return"]
        BY <1>1, <3>2 DEF DisconnectInvalid, LeaveReceive
      <4>3. frame'[w].after \in {"return", "leave"}
        BY <4>1, <4>2 DEF Frames
      <4>4. QED
        BY <4>3
    <3>3. CASE ~ Respond(w) /\ ~ DisconnectInvalid(w) /\ ~ LeaveReceive(w)
      BY <1>5, <3>3 DEF Callback, ConnectionStep, ReadExpired, ReadData,
         ReadEnd, ReadError, TestReceiving, MarkTransmitting, WriteExpired,
         WriteDone, WriteFailed, UnmarkTransmitting, Disconnect,
         PendDisconnect, ShutSocket
    <3>4. QED
      BY <3>1, <3>2, <3>3
  <2>3. pc'[w] \in {"read", "received", "swap"} => pc[w] = "read"
    BY <1>5, CallbackGoes DEF Callback
  <2>4. Mine(w)' = c =>
          /\ pc'[w] \in {"read", "received", "swap"}
             /\ frame'[w].packet # 0 =>
               buffers[c][front[c]] = frame'[w].packet
          /\ frame'[w].after = "parse" =>
               buffers[c][3 - front[c]] = frame'[w].packet
    BY <1>1, <1>5, <2>2, <2>3 DEF RightBuffer
  <2>5. QED
    BY <2>1, <2>4, BufferQuiet
<1>6. QED
  BY <1>2, <1>3, <1>4, <1>5

(* The first read of a connection is into the block in front. *)
LEMMA BufferAccept ==
  ASSUME Typed, StrandInv, FreshInv, use_strand, NEW w \in Workers,
         Worker(w), Accept(w), NEW c \in Conns, RightBuffer(c)
  PROVE  RightBuffer(c)'
<1>1. /\ pc \in [Workers -> Pcs] /\ frame \in [Workers -> Frames]
      /\ reads \in [Conns -> Seq({1, 2})]
      /\ buffers \in [Conns -> [{1, 2} -> 0..MaxRequests]]
      /\ front \in [Conns -> {1, 2}] /\ Mine(w) \in Conns
      /\ frame[w].after # "parse" /\ NoFrame.after # "parse"
  <2>1. pc[w] \in AcceptPcs
    BY DEF Accept, AcceptClosed, AcceptFailed, AcceptStart, RegisterHttp,
       RegisterComms, EndHandler
  <2>2. QED
    BY <2>1 DEF Typed, ThreadTypes, SocketTypes, FrameInv, ControlInv,
       NoFrame, Frame
<1>2. /\ pc'[w] \in {"connected", "insert", "run"}
      /\ frame'[w].after # "parse"
  BY <1>1 DEF Accept, AcceptClosed, AcceptFailed, AcceptStart, RegisterHttp,
     RegisterComms, EndHandler
<1>3. CASE AcceptStart(w) /\ Mine(w) = c
  <2>1. Clean(c)
    BY <1>3 DEF AcceptStart, FreshInv, Accepting
  <2>2. \A op \in Completed(c)' : op.kind # "read"
    <3>1. waiting[c] = << >>
      BY <2>1 DEF Clean
    <3>2. ToSet(waiting[c]) = {}
      BY <3>1 DEF ToSet
    <3>3. \A op \in Completed(c) : op.kind # "read"
      BY <2>1, <3>2, CompletedTyped DEF Clean, Completed
    <3>4. QED
      BY <3>3, ReadsFrom DEF Delivered
  <2>3. reads'[c] = Append(<< >>, front[c]) /\ front' = front
    BY <1>1, <1>3, <2>1 DEF AcceptStart, StartRead, Clean
  <2>4. Head(reads'[c]) = front'[c]
    BY <2>3
  <2>5. \A v \in Workers : Mine(v)' = c =>
          /\ pc'[v] \notin {"read", "received", "swap"}
          /\ frame'[v].after # "parse"
    BY <1>2, <2>1, OthersKeep DEF Clean, Typed, FrameInv, ControlInv
  <2>6. QED
    BY <2>2, <2>4, <2>5 DEF RightBuffer
<1>4. CASE ~ (AcceptStart(w) /\ Mine(w) = c)
  <2>1. reads'[c] = reads[c] /\ buffers'[c] = buffers[c]
        /\ front'[c] = front[c]
    BY <1>1, <1>4 DEF Accept, AcceptClosed, AcceptFailed, AcceptStart,
       RegisterHttp, RegisterComms, EndHandler, StartRead
  <2>2. QED
    BY <1>2, <2>1, BufferQuiet
<1>5. QED
  BY <1>3, <1>4

(* The steps of threads keep the packets in their blocks. *)
LEMMA BufferWorker ==
  ASSUME Typed, StrandInv, FreshInv, use_strand, NEW w \in Workers,
         Worker(w), NEW c \in Conns, OneRead(c), RightBuffer(c)
  PROVE  RightBuffer(c)'
<1>1. NoFrame.after = "return"
  BY DEF NoFrame, Frame
<1>2. CASE Take(w)
  BY <1>2, BufferTaken
<1>3. CASE Delay(w)
  <2>1. UNCHANGED <<pc, frame, rxVars>>
    BY <1>3, DelayDoes
  <2>2. QED
    BY <2>1, BufferQuiet DEF RightBuffer
<1>4. CASE Return(w)
  <2>1. /\ pc'[w] = "run" /\ UNCHANGED rxVars /\ frame'[w] = NoFrame
    BY <1>4, ReturnDoes
  <2>2. QED
    BY <1>1, <2>1, BufferQuiet
<1>5. CASE Callback(w)
  BY <1>5, BufferCallback
<1>6. CASE StartWrite(w)
  <2>1. pc'[w] = "mark" /\ UNCHANGED <<rxVars, frame>>
    BY <1>6, WriteLocal
  <2>2. QED
    BY <2>1, BufferQuiet DEF RightBuffer
<1>7. CASE Accept(w)
  BY <1>7, BufferAccept
<1>8. CASE Event(w)
  <2>1. /\ UNCHANGED rxVars /\ Mine(w)' = Mine(w)
        /\ frame'[w].packet = frame[w].packet
    BY <1>8, EventKeeps
  <2>2. /\ pc'[w] \notin {"read", "received"}
        /\ pc'[w] = "swap" => pc[w] = "received"
        /\ frame'[w].after = frame[w].after
    <3>1. /\ pc \in [Workers -> Pcs] /\ frame \in [Workers -> Frames]
      BY DEF Typed, ThreadTypes
    <3>2. frame'[w].after = frame[w].after
      <4>1. frame[w] \in Frames
        BY <3>1
      <4>2. \/ frame'[w] = frame[w]
            \/ frame'[w] = [frame[w] EXCEPT !.http = TRUE]
        BY <1>8, <3>1 DEF Event, ReceivedUnknown, Received, Disconnected,
           CloseServer, EraseConnection
      <4>3. QED
        BY <4>1, <4>2 DEF Frames
    <3>3. frame[w].after \in {"return", "parse", "leave", "invalid", "walk"}
      BY <3>1 DEF Frames
    <3>4. /\ pc'[w] \notin {"read", "received"}
          /\ pc'[w] = "swap" => pc[w] = "received"
      BY <1>8, <3>1, <3>3 DEF Event, ReceivedUnknown, Received, Disconnected,
         CloseServer, EraseConnection
    <3>5. QED
      BY <3>2, <3>4
  <2>3. Mine(w)' = c =>
          /\ pc'[w] \in {"read", "received", "swap"}
             /\ frame'[w].packet # 0 =>
               buffers[c][front[c]] = frame'[w].packet
          /\ frame'[w].after = "parse" =>
               buffers[c][3 - front[c]] = frame'[w].packet
    BY <2>1, <2>2 DEF RightBuffer
  <2>4. QED
    BY <2>1, <2>3, BufferQuiet
<1>9. CASE Stop(w)
  <2>1. /\ UNCHANGED rxVars
        /\ pc'[w] \notin {"read", "received", "swap"}
    BY <1>9, StopKeeps
  <2>2. frame'[w].after # "parse"
    <3>1. /\ pc \in [Workers -> Pcs] /\ frame \in [Workers -> Frames]
          /\ FrameInv(w)
      BY DEF Typed, ThreadTypes
    <3>2. CASE WalkOn(w)
      <4>1. PICK d : frame' = [frame EXCEPT ![w].conn = d, ![w].after = "walk"]
        BY <3>2 DEF WalkOn
      <4>2. QED
        BY <3>1, <4>1 DEF Frames
    <3>3. CASE ~ WalkOn(w)
      BY <1>1, <1>9, <3>1, <3>3 DEF Stop, BeginShutdown, WalkEnd, ClearHttp,
         CloseHttp, CloseAll, StopService, EndHandler, FrameInv, ControlInv
    <3>4. QED
      BY <3>2, <3>3
  <2>3. QED
    BY <2>1, <2>2, BufferQuiet
<1>10. CASE Leave(w)
  <2>1. pc'[w] = "returned" /\ UNCHANGED <<rxVars, frame>>
    BY <1>10 DEF Leave, LeaveRun, Typed, ThreadTypes
  <2>2. QED
    BY <2>1, BufferQuiet DEF RightBuffer
<1>11. QED
  BY <1>2, <1>3, <1>4, <1>5, <1>6, <1>7, <1>8, <1>9, <1>10, WorkerSplit
     DEF Inside

(* A packet is received into the block in front. *)
LEMMA BufferOutside ==
  ASSUME Typed, Outside, NEW c \in Conns, OneRead(c), RightBuffer(c)
  PROVE  RightBuffer(c)'
<1>1. UNCHANGED <<pc, frame, front, waiting>>
  BY OutsideKeeps
<1>2. /\ reads \in [Conns -> Seq({1, 2})]
      /\ buffers \in [Conns -> [{1, 2} -> 0..MaxRequests]]
      /\ front \in [Conns -> {1, 2}]
  BY DEF Typed, SocketTypes
<1>3. ASSUME reads[c] # << >>, reads'[c] = Tail(reads[c])
      PROVE  /\ reads'[c] = << >> /\ ~ Delivered(c) /\ ~ InRead(c)
             /\ Head(reads[c]) = front[c]
             /\ \A w \in Workers :
                  ~ (pc[w] \in {"received", "swap"} /\ Mine(w) = c)
  <2>1. Len(Tail(reads[c])) <= 0 /\ Tail(reads[c]) \in Seq({1, 2})
    BY <1>2, <1>3, HeadTail DEF OneRead
  <2>2. QED
    BY <1>3, <2>1, EmptySeq, LenProperties DEF OneRead, RightBuffer
<1>4. CASE ReceivePacket(c)
  <2> DEFINE packet == asked[c] - inbox[c] + 1
  <2>1. /\ reads[c] # << >> /\ reads'[c] = Tail(reads[c])
        /\ buffers'[c] = [buffers[c] EXCEPT ![Head(reads[c])] = packet]
    BY <1>2, <1>4 DEF ReceivePacket
  <2>2. /\ front[c] \in {1, 2} /\ Head(reads[c]) = front[c]
        /\ buffers[c] \in [{1, 2} -> 0..MaxRequests]
    BY <1>2, <1>3, <2>1
  <2>3. /\ buffers'[c][front[c]] = packet
        /\ buffers'[c][3 - front[c]] = buffers[c][3 - front[c]]
    BY <2>1, <2>2
  <2>4. \A op \in Completed(c)' : op.kind = "read" => op.packet = packet
    BY <1>3, <1>4, <2>1, PacketOf DEF Delivered
  <2> HIDE DEF packet
  <2>5. \A w \in Workers : Mine(w) = c =>
          /\ pc[w] \notin {"read", "received", "swap"}
          /\ frame[w].after = "parse" =>
               buffers'[c][3 - front[c]] = frame[w].packet
    BY <1>3, <2>1, <2>3 DEF RightBuffer, InRead
  <2>6. QED
    BY <1>1, <1>3, <2>1, <2>3, <2>4, <2>5 DEF RightBuffer
<1>5. CASE ReceiveEnd(c) \/ ReceiveError(c)
  <2>1. /\ reads[c] # << >> /\ reads'[c] = Tail(reads[c])
        /\ buffers' = buffers
    BY <1>2, <1>5 DEF ReceiveEnd, ReceiveError
  <2>2. \A op \in Completed(c)' : op.kind = "read" => op.packet = 0
    BY <1>3, <1>5, <2>1, EndOf DEF Delivered
  <2>3. QED
    BY <1>1, <1>3, <2>1, <2>2 DEF RightBuffer
<1>6. CASE ~ (ReceivePacket(c) \/ ReceiveEnd(c) \/ ReceiveError(c))
  <2>1. reads'[c] = reads[c] /\ buffers'[c] = buffers[c]
    <3>1. CASE ReceiveSignal
      BY <3>1 DEF ReceiveSignal
    <3>2. ASSUME NEW d \in Conns,
                 Client(d) \/ Reactor(d)
          PROVE  reads'[c] = reads[c] /\ buffers'[c] = buffers[c]
      <4>1. CASE d # c
        BY <3>2, <4>1, OutsideLocal
      <4>2. CASE d = c
        BY <1>6, <3>2, <4>2 DEF Reactor, ClientConnect, Client, ClientAsk,
           ClientHangUp, Break, FinishWrite, FailWrite, EndWrite
      <4>3. QED
        BY <4>1, <4>2
    <3>3. QED
      BY <3>1, <3>2 DEF Outside
  <2>2. \A op \in Completed(c)' : op.kind = "read" => op \in Completed(c)
    BY <1>6, OpsOutside
  <2>3. QED
    BY <1>1, <2>1, <2>2 DEF RightBuffer
<1>7. QED
  BY <1>4, <1>5, <1>6

(* With a strand the packet is where the callbacks look for it. *)
LEMMA BufferNext ==
  ASSUME Typed, StrandInv, FreshInv, ReadInv, BufferInv, [Next]_vars
  PROVE  BufferInv'
<1>1. use_strand' = use_strand
  BY StrandStays
<1>2. CASE \E w \in Workers : Worker(w)
  BY <1>1, <1>2, BufferWorker DEF ReadInv, BufferInv
<1>3. CASE Outside
  BY <1>1, <1>3, BufferOutside DEF ReadInv, BufferInv
<1>4. CASE UNCHANGED vars
  BY <1>4 DEF BufferInv, RightBuffer, Completed
<1>5. QED
  BY <1>2, <1>3, <1>4 DEF Next, Outside

-----------------------------------------------------------------------------
(* The flags of the transmitter *)

(* A write to c may fail. *)
Failing(c) == Lost(c) \/ socket[c] = "shut"

(* A write of c is in progress, or its callback has not begun. *)
Out(c) == unsent[c] # {} \/ \E op \in Completed(c) : op.kind = "write"

(* The connection is registered and its socket can be written to. *)
Live(c) ==
  /\ c \in connections_ \/ c = next_connection_
  /\ socket[c] = "open" /\ ~ Lost(c)

(* A callback of c is at one of the labels. *)
OwnerAt(c, labels) == \E w \in Workers : Owner(w, c) /\ pc[w] \in labels

(* With the strand transmitting_ is set while a write is under way, and a  *)
(* disconnect that waits for a write has one to wait for, which fails only *)
(* when the connection does.                                               *)
TrueFlags(c) ==
  /\ \A op \in Completed(c) :
       op.kind = "write" /\ op.result # "ok" => Failing(c)
  /\ \A w \in Workers : Mine(w) = c =>
       /\ pc[w] = "write" /\ frame[w].result # "ok" => Failing(c)
       /\ pc[w] = "mark" => Out(c)
  /\ \A w \in Workers : Owner(w, c) /\ pc[w] = "pend" => transmitting_[c]
  /\ Live(c) /\ transmitting_[c] =>
       Out(c) \/ OwnerAt(c, {"write", "unmark", "shut"})
  /\ Live(c) /\ disconnect_pending_[c] /\ ~ shutting_down_ =>
       Out(c) \/ OwnerAt(c, {"write", "shut"})

TransmitInv == use_strand => \A c \in Conns : TrueFlags(c)

(* A client that is lost does not come back. *)
LEMMA LostStays ==
  ASSUME Typed, NEW c \in Conns, Lost(c),
         Outside \/ \E w \in Workers : Worker(w)
  PROVE  Lost(c)'
<1>1. broken \in [Conns -> {"no", "error", "read", "write"}]
      /\ hungUp \in [Conns -> BOOLEAN]
  BY DEF Typed, ClientTypes
<1>2. CASE Outside
  <2>1. CASE \E d \in Conns : Client(d)
    BY <1>1, <2>1 DEF Lost, Client, ClientConnect, ClientAsk, ClientHangUp,
       Break
  <2>2. CASE \E d \in Conns : Reactor(d)
    BY <1>1, <2>2 DEF Lost, Reactor, ReceivePacket, ReceiveEnd, ReceiveError,
       FinishWrite, FailWrite, EndWrite, WriteEnds
  <2>3. CASE ReceiveSignal
    BY <2>3 DEF Lost, ReceiveSignal
  <2>4. QED
    BY <1>2, <2>1, <2>2, <2>3 DEF Outside
<1>3. ASSUME NEW w \in Workers, Worker(w)
      PROVE  Lost(c)'
  <2>1. CASE StartWrite(w)
    BY <1>1, <2>1 DEF Lost, StartWrite, WriteWhole, WritePart, WriteNothing,
       EndWrite, WriteEnds
  <2>2. CASE ~ StartWrite(w)
    <3>1. hungUp' = hungUp /\ broken' = broken
      BY <1>3, <2>2, CallbackKeeps, EventKeeps, StopKeeps DEF Worker, Schedule,
         Leave, Accept, AcceptClosed, AcceptFailed, AcceptStart, RegisterHttp,
         RegisterComms
    <3>2. QED
      BY <3>1 DEF Lost
  <2>3. QED
    BY <2>1, <2>2
<1>4. QED
  BY <1>2, <1>3

(* Starting a write leaves one in progress or completed, and one that      *)
(* fails has found the client or the socket closed: receive_handler holds  *)
(* both classes of the connection.                                         *)
LEMMA WriteDoes ==
  ASSUME Typed, FreshInv, NEW w \in Workers, StartWrite(w), NEW c \in Conns,
         c = Mine(w)
  PROVE  /\ Out(c)' /\ (WriteNothing(w) => Failing(c))
         /\ \A op \in Completed(c)' :
              \/ op \in Completed(c)
              \/ op.kind = "write" /\ (op.result # "ok" => Failing(c))
<1>1. /\ pc[w] = "start" /\ frame[w].http /\ waiting' = waiting
      /\ unsent \in [Conns -> SUBSET (1..MaxRequests)]
  BY WriteLocal DEF Typed, FrameInv, SocketTypes
<1>2. SocketOpen(c)
  BY <1>1 DEF SocketOpen, Alive, HttpAlive, FreshInv, Clean
<1>3. ASSUME NEW result \in {"ok", "reset", "pipe", "timedOut"},
             Enqueue(Op("write", c, 0, result)),
             result # "ok" => Failing(c)
      PROVE  /\ Out(c)'
             /\ \A op \in Completed(c)' :
                  \/ op \in Completed(c)
                  \/ op.kind = "write" /\ (op.result # "ok" => Failing(c))
  <2> DEFINE new == Op("write", c, 0, result)
  <2>1. new \in QueuedOps
    BY OpTyped
  <2>2. new.kind = "write" /\ new.conn = c /\ new.result = result
    BY DEF Op
  <2>3. opQueue' = Append(opQueue, new)
    BY <1>3 DEF Enqueue
  <2> HIDE DEF new
  <2>4. QED
    BY <1>1, <1>3, <2>1, <2>2, <2>3, CompletedPushed DEF Out
<1>4. WriteNothing(w) => Failing(c)
  BY <1>2 DEF WriteNothing, EndWrite, WriteEnds, Failing, Lost
<1>5. CASE WriteWhole(w)
  BY <1>3, <1>4, <1>5 DEF WriteWhole
<1>6. CASE WritePart(w)
  <2>1. frame[w].packet \in unsent'[c] /\ opQueue' = opQueue
    BY <1>1, <1>6 DEF WritePart
  <2>2. QED
    BY <1>1, <1>4, <2>1 DEF Out, Completed
<1>7. CASE WriteNothing(w)
  <2>1. PICK result \in {"reset", "pipe", "timedOut"} :
          Enqueue(Op("write", c, 0, result))
    BY <1>7 DEF WriteNothing, EndWrite
  <2>2. QED
    BY <1>3, <1>4, <1>7, <2>1
<1>8. QED
  BY <1>5, <1>6, <1>7 DEF StartWrite

(* The requests whose response is being sent change when a write starts.   *)
LEMMA UnsentKept ==
  ASSUME Typed, NEW w \in Workers, Worker(w), ~ StartWrite(w)
  PROVE  unsent' = unsent /\ answered' = answered
<1>1. CASE Inside(w)
  BY <1>1, CallbackLocal, CallbackKeeps, EventKeeps, StopKeeps
     DEF Inside, Leave, Accept, AcceptClosed, AcceptFailed, AcceptStart,
        RegisterHttp, RegisterComms
<1>2. QED
  BY <1>1, WorkerSplit, TakeDoes, DelayDoes, ReturnDoes

(* A write that is under way stays so until a thread takes its completion. *)
LEMMA OutKept ==
  ASSUME Typed, FreshInv, NEW w \in Workers, Worker(w), NEW c \in Conns,
         Out(c)
  PROVE  \/ Out(c)'
         \/ /\ Take(w) /\ opQueue[1].conn = c /\ opQueue[1].kind = "write"
            /\ pc'[w] = "write" /\ Owner(w, c)'
<1>1. CASE unsent[c] # {}
  <2>1. CASE StartWrite(w) /\ c = Mine(w)
    BY <2>1, WriteDoes
  <2>2. CASE ~ (StartWrite(w) /\ c = Mine(w))
    BY <1>1, <2>2, UnsentKept, WriteLocal DEF Out
  <2>3. QED
    BY <2>1, <2>2
<1>2. ASSUME NEW op \in Completed(c), op.kind = "write"
      PROVE  \/ Out(c)'
             \/ /\ Take(w) /\ opQueue[1].conn = c /\ opQueue[1].kind = "write"
                /\ pc'[w] = "write" /\ Owner(w, c)'
  <2>1. CASE \E other \in Completed(c)' : Same(op, other)
    BY <1>2, <2>1 DEF Out, Same
  <2>2. CASE Take(w) /\ pc'[w] = op.kind /\ frame'[w] = Frame(op)
    <3>1. op.conn = c /\ Mine(w)' = c
      BY <2>2 DEF Completed, Frame
    <3>2. QED
      BY <1>2, <2>2, <3>1, TakeDoes DEF Owner
  <2>3. QED
    BY <1>2, <2>1, <2>2, OpsKept
<1>3. QED
  BY <1>1, <1>2 DEF Out

(* No thread makes a connection live, and one that fails does not recover. *)
LEMMA LiveWorker ==
  ASSUME Typed, AcceptInv, NEW w \in Workers, Worker(w), NEW c \in Conns
  PROVE  /\ Live(c)' => Live(c)
         /\ Failing(c) => Failing(c)'
<1>1. CASE Inside(w)
  <2>1. /\ socket'[c] = socket[c] \/ socket'[c] = "shut"
        /\ hungUp' = hungUp
    <3>1. CASE Callback(w)
      BY <3>1, CallbackKeeps DEF Callback, ConnectionStep, ReadExpired,
         ReadData, ReadEnd, ReadError, SwapBuffers, TestReceiving, ArmRead,
         Respond, DisconnectInvalid, MarkTransmitting, LeaveReceive,
         WriteExpired, WriteDone, WriteFailed, UnmarkTransmitting, Disconnect,
         PendDisconnect, ShutSocket, Typed, SocketTypes
    <3>2. QED
      BY <1>1, <3>1, WriteLocal, EventKeeps, StopKeeps
         DEF Inside, Leave, Accept, AcceptClosed, AcceptFailed, AcceptStart,
            RegisterHttp, RegisterComms
  <2>2. c \in connections_' \/ c = next_connection_' =>
          c \in connections_ \/ c = next_connection_
    <3>1. CASE Accept(w)
      <4>1. CASE RegisterComms(w)
        <5>1. Mine(w) = next_connection_
          BY <4>1 DEF RegisterComms, EndHandler, AcceptInv
        <5>2. QED
          BY <4>1, <5>1 DEF RegisterComms
      <4>2. CASE ~ RegisterComms(w)
        BY <3>1, <4>2 DEF Accept, AcceptClosed, AcceptFailed, AcceptStart,
           RegisterHttp
      <4>3. QED
        BY <4>1, <4>2
    <3>2. QED
      BY <1>1, <3>1, CallbackKeeps, WriteLocal, EventKeeps, StopKeeps
         DEF Inside, Leave
  <2>3. QED
    BY <2>1, <2>2, LostStays DEF Live, Failing
<1>2. CASE ~ Inside(w)
  <2>1. UNCHANGED <<socket, serverVars, clientVars>>
    BY <1>2, WorkerSplit, TakeDoes, DelayDoes, ReturnDoes
  <2>2. QED
    BY <2>1, LostStays DEF Live, Failing
<1>3. QED
  BY <1>1, <1>2

(* The flag of the shutdown is not reset. *)
LEMMA ShutStays ==
  ASSUME Typed, [Next]_vars, shutting_down_
  PROVE  shutting_down_'
<1>1. ASSUME NEW w \in Workers, Worker(w)
      PROVE  shutting_down_'
  <2>1. CASE Stop(w)
    BY <2>1 DEF Stop, BeginShutdown, WalkOn, WalkEnd, ClearHttp, CloseHttp,
       CloseAll, StopService
  <2>2. QED
    BY <1>1, <2>1, WorkerSplit, TakeDoes, DelayDoes, ReturnDoes,
       CallbackKeeps, WriteLocal, EventKeeps DEF Inside, Leave, Accept,
          AcceptClosed, AcceptFailed, AcceptStart, RegisterHttp, RegisterComms
<1>2. QED
  BY <1>1, OutsideKeeps DEF Next, Outside

(* Completed writes, and threads at their callbacks. *)
LEMMA FailedWorker ==
  ASSUME Typed, AcceptInv, FreshInv, NEW w \in Workers, Worker(w),
         NEW c \in Conns, TrueFlags(c)
  PROVE  /\ \A op \in Completed(c)' :
              op.kind = "write" /\ op.result # "ok" => Failing(c)'
         /\ \A v \in Workers :
              Mine(v)' = c /\ pc'[v] = "write" /\ frame'[v].result # "ok" =>
                Failing(c)'
<1>1. Failing(c) => Failing(c)'
  BY LiveWorker
<1>2. ASSUME NEW op \in Completed(c)', op.kind = "write", op.result # "ok"
      PROVE  Failing(c)
  <2>1. CASE StartWrite(w) /\ c = Mine(w)
    BY <1>2, <2>1, WriteDoes DEF TrueFlags
  <2>2. CASE ~ (StartWrite(w) /\ c = Mine(w))
    <3>1. PICK other \in Completed(c) : Same(op, other)
      BY <2>2, OpsFrom
    <3>2. QED
      BY <1>2, <3>1 DEF TrueFlags, Same
  <2>3. QED
    BY <2>1, <2>2
<1>3. ASSUME NEW v \in Workers, Mine(v)' = c, pc'[v] = "write",
             frame'[v].result # "ok"
      PROVE  Failing(c)
  <2>1. CASE v = w
    <3>1. PICK op \in Completed(Mine(w)') :
            op.kind = pc'[w] /\ frame'[w] = Frame(op)
      BY <1>3, <2>1, TakenFrom
    <3>2. op.kind = "write" /\ op.result # "ok"
      BY <1>3, <2>1, <3>1 DEF Frame
    <3>3. QED
      BY <1>3, <2>1, <3>1, <3>2 DEF TrueFlags
  <2>2. CASE v # w
    BY <1>3, <2>2, OthersKeep DEF TrueFlags
  <2>3. QED
    BY <2>1, <2>2
<1>4. QED
  BY <1>1, <1>2, <1>3

(* What the callbacks do to the flags of the transmitter. *)
LEMMA FlagsBy ==
  ASSUME Typed, NEW w \in Workers, Worker(w), NEW c \in Conns
  PROVE  /\ transmitting_'[c] /\ ~ transmitting_[c] =>
              pc[w] = "mark" /\ Mine(w) = c /\ Callback(w)
         /\ ~ transmitting_'[c] /\ transmitting_[c] =>
              pc[w] = "unmark" /\ Mine(w) = c
         /\ disconnect_pending_'[c] /\ ~ disconnect_pending_[c] =>
              pc[w] = "pend" /\ Mine(w) = c /\ Callback(w)
         /\ pc'[w] = "mark" => StartWrite(w) /\ Mine(w)' = Mine(w)
         /\ pc'[w] = "pend" => /\ transmitting_[Mine(w)] /\ Mine(w)' = Mine(w)
                               /\ pc[w] = "disconnect"
<1>1. /\ pc \in [Workers -> Pcs] /\ frame \in [Workers -> Frames]
      /\ transmitting_ \in [Conns -> BOOLEAN]
      /\ disconnect_pending_ \in [Conns -> BOOLEAN]
  BY DEF Typed, ThreadTypes, SocketTypes
<1>2. CASE Callback(w)
  <2>1. /\ \A reply : AfterSend(reply) \in {"leave", "disconnect", "shut"}
        /\ frame[w].after \in {"return", "parse", "leave", "invalid", "walk"}
    BY <1>1 DEF AfterSend, Frames
  <2>2. /\ Mine(w)' = Mine(w) /\ Mine(w) \in Conns
        /\ c # Mine(w) =>
             /\ transmitting_'[c] = transmitting_[c]
             /\ disconnect_pending_'[c] = disconnect_pending_[c]
    BY <1>2, CallbackLocal
  <2>3. pc'[w] # "mark" /\ (pc'[w] = "pend" => pc[w] = "disconnect")
    <3>1. CASE \/ Disconnect(w) \/ TestReceiving(w)
               \/ WriteDone(w, Alive(Mine(w)))
      BY <1>1, <2>1, <3>1 DEF Disconnect, TestReceiving, WriteDone
    <3>2. CASE Respond(w) \/ MarkTransmitting(w)
      <4>1. CASE Respond(w)
        <5>1. PICK reply :
                Goto(w, "parse", IF transmitting_[Mine(w)]
                                 THEN AfterSend(reply) ELSE "start")
          BY <4>1 DEF Respond
        <5>2. QED
          BY <1>1, <2>1, <5>1
      <4>2. CASE MarkTransmitting(w)
        BY <1>1, <2>1, <4>2 DEF MarkTransmitting
      <4>3. QED
        BY <3>2, <4>1, <4>2
    <3>3. CASE ~ (\/ Disconnect(w) \/ TestReceiving(w) \/ Respond(w)
                  \/ WriteDone(w, Alive(Mine(w))) \/ MarkTransmitting(w))
      BY <1>1, <1>2, <2>1, <3>3 DEF Callback, ConnectionStep, ReadExpired,
         ReadData, ReadEnd, ReadError, SwapBuffers, ArmRead,
         DisconnectInvalid, LeaveReceive, WriteExpired, WriteFailed,
         UnmarkTransmitting, PendDisconnect, ShutSocket
    <3>4. QED
      BY <3>1, <3>2, <3>3
  <2>4. CASE MarkTransmitting(w)
    BY <1>1, <1>2, <2>2, <2>3, <2>4 DEF MarkTransmitting
  <2>5. CASE UnmarkTransmitting(w)
    BY <1>1, <1>2, <2>2, <2>3, <2>5 DEF UnmarkTransmitting
  <2>6. CASE PendDisconnect(w)
    BY <1>1, <1>2, <2>2, <2>3, <2>6 DEF PendDisconnect
  <2>7. CASE Disconnect(w)
    BY <1>1, <1>2, <2>2, <2>3, <2>7 DEF Disconnect
  <2>8. CASE ~ (\/ MarkTransmitting(w) \/ UnmarkTransmitting(w)
                \/ PendDisconnect(w) \/ Disconnect(w))
    <3>1. transmitting_' = transmitting_
          /\ disconnect_pending_' = disconnect_pending_
      BY <1>2, <2>8 DEF Callback, ConnectionStep, ReadExpired, ReadData,
         ReadEnd, ReadError, SwapBuffers, TestReceiving, ArmRead, Respond,
         DisconnectInvalid, LeaveReceive, WriteExpired, WriteDone,
         WriteFailed, ShutSocket
    <3>2. pc'[w] # "pend"
      <4>1. pc[w] # "disconnect"
        BY <1>2, <2>8 DEF Callback, ConnectionStep, ReadExpired, ReadData,
           ReadEnd, ReadError, SwapBuffers, TestReceiving, ArmRead, Respond,
           DisconnectInvalid, LeaveReceive, WriteExpired, WriteDone,
           WriteFailed, ShutSocket
      <4>2. QED
        BY <2>3, <4>1
    <3>3. QED
      BY <2>3, <3>1, <3>2
  <2>9. QED
    BY <2>4, <2>5, <2>6, <2>7, <2>8
<1>3. CASE ~ Callback(w)
  <2>1. UNCHANGED <<transmitting_, disconnect_pending_>>
    BY <1>3, WorkerSplit, TakeDoes, DelayDoes, ReturnDoes, WriteLocal,
       EventKeeps, StopKeeps DEF Inside, Leave, Accept, AcceptClosed,
          AcceptFailed, AcceptStart, RegisterHttp, RegisterComms
  <2>2. CASE StartWrite(w)
    BY <2>1, <2>2, WriteLocal
  <2>3. CASE Event(w)
    <3>1. frame[w].after \in {"return", "parse", "leave", "invalid", "walk"}
      BY <1>1 DEF Frames
    <3>2. pc'[w] \notin {"mark", "pend"}
      BY <1>1, <2>3, <3>1 DEF Event, ReceivedUnknown, Received, Disconnected,
         CloseServer, EraseConnection
    <3>3. QED
      BY <2>1, <3>2
  <2>4. CASE Take(w) \/ Stop(w)
    <3>1. pc'[w] \notin {"mark", "pend"}
      BY <2>4, TakeDoes, TakenKind, StopKeeps
    <3>2. QED
      BY <2>1, <3>1
  <2>5. CASE Delay(w)
    <3>1. pc' = pc /\ pc[w] = "run"
      BY <2>5, DelayDoes DEF Delay, WaitForStrand
    <3>2. QED
      BY <2>1, <3>1
  <2>6. CASE Return(w)
    BY <2>1, <2>6, ReturnDoes
  <2>7. CASE Accept(w) \/ Leave(w)
    <3>1. pc'[w] \notin {"mark", "pend"}
      BY <1>1, <2>7 DEF Accept, AcceptClosed, AcceptFailed, AcceptStart,
         RegisterHttp, RegisterComms, EndHandler, Leave, LeaveRun
    <3>2. QED
      BY <2>1, <3>1
  <2>8. QED
    BY <1>3, <2>2, <2>3, <2>4, <2>5, <2>6, <2>7, WorkerSplit DEF Inside
<1>4. QED
  BY <1>2, <1>3

(* The owner at a write callback of a live connection does not leave it    *)
(* before it has reset the flag or shut the socket down.                   *)
LEMMA OwnerStays ==
  ASSUME Typed, NEW w \in Workers, Worker(w), NEW c \in Conns,
         TrueFlags(c), Live(c), Live(c)', Owner(w, c),
         pc[w] \in {"write", "unmark", "shut"}
  PROVE  \/ /\ pc[w] = "write" /\ Owner(w, c)'
            /\ pc'[w] = IF disconnect_pending_[c] THEN "shut" ELSE "unmark"
         \/ pc[w] = "unmark" /\ ~ transmitting_'[c]
<1>1. /\ pc \in [Workers -> Pcs] /\ frame \in [Workers -> Frames]
      /\ transmitting_ \in [Conns -> BOOLEAN]
      /\ socket \in [Conns -> {"none", "open", "shut"}] /\ Mine(w) = c
  BY DEF Typed, ThreadTypes, SocketTypes, Owner
<1>2. Callback(w)
  BY WriteLocal, EventKeeps, StopKeeps DEF Worker, Schedule, RunHandler,
     Dequeue, WaitForStrand, CallbackReturns, Leave, LeaveRun, Accept,
     AcceptClosed, AcceptFailed, AcceptStart, RegisterHttp, RegisterComms,
     EndHandler
<1>3. Alive(c) /\ ~ Failing(c)
  BY DEF Live, Alive, Failing
<1>4. pc[w] = "write" => frame[w].result = "ok"
  BY <1>1, <1>3 DEF TrueFlags
<1>5. CASE pc[w] = "write"
  <2>1. WriteDone(w, Alive(Mine(w)))
    BY <1>1, <1>2, <1>3, <1>4, <1>5 DEF Callback, ConnectionStep, ReadExpired,
       ReadData, ReadEnd, ReadError, SwapBuffers, TestReceiving, ArmRead,
       Respond, DisconnectInvalid, MarkTransmitting, LeaveReceive,
       WriteExpired, WriteFailed, UnmarkTransmitting, Disconnect,
       PendDisconnect, ShutSocket
  <2>2. frame' = frame
        /\ pc'[w] = IF disconnect_pending_[c] THEN "shut" ELSE "unmark"
    BY <1>1, <2>1 DEF WriteDone
  <2>3. QED
    BY <1>5, <2>2 DEF Owner
<1>6. CASE pc[w] = "unmark"
  <2>1. UnmarkTransmitting(w)
    BY <1>2, <1>6 DEF Callback, ConnectionStep, ReadExpired, ReadData,
       ReadEnd, ReadError, SwapBuffers, TestReceiving, ArmRead, Respond,
       DisconnectInvalid, MarkTransmitting, LeaveReceive, WriteExpired,
       WriteDone, WriteFailed, Disconnect, PendDisconnect, ShutSocket
  <2>2. QED
    BY <1>1, <1>6, <2>1 DEF UnmarkTransmitting
<1>7. CASE pc[w] = "shut"
  <2>1. ShutSocket(w)
    BY <1>2, <1>7 DEF Callback, ConnectionStep, ReadExpired, ReadData,
       ReadEnd, ReadError, SwapBuffers, TestReceiving, ArmRead, Respond,
       DisconnectInvalid, MarkTransmitting, LeaveReceive, WriteExpired,
       WriteDone, WriteFailed, UnmarkTransmitting, Disconnect, PendDisconnect
  <2>2. socket'[c] = "shut"
    BY <1>1, <2>1 DEF ShutSocket
  <2>3. QED
    BY <2>2 DEF Live
<1>8. QED
  BY <1>5, <1>6, <1>7

(* The steps of threads keep the flags of the transmitter true. *)
LEMMA FlagsWorker ==
  ASSUME Typed, AcceptInv, FreshInv, ShutInv, StrandInv, use_strand,
         NEW w \in Workers, Worker(w), NEW c \in Conns, TrueFlags(c)
  PROVE  TrueFlags(c)'
<1>1. /\ transmitting_ \in [Conns -> BOOLEAN]
      /\ disconnect_pending_ \in [Conns -> BOOLEAN]
      /\ Live(c)' => Live(c)
      /\ shutting_down_ => shutting_down_'
  BY LiveWorker, ShutStays DEF Typed, SocketTypes, Next
<1>2. ASSUME NEW v \in Workers, Mine(v)' = c, pc'[v] = "mark"
      PROVE  Out(c)'
  <2>1. CASE v = w
    BY <1>2, <2>1, FlagsBy, WriteDoes
  <2>2. CASE v # w
    <3>1. pc[v] = "mark" /\ Mine(v) = c
      BY <1>2, <2>2, OthersKeep
    <3>2. Out(c) /\ Owner(v, c)
      BY <3>1, OwnsFrame DEF TrueFlags
    <3>3. QED
      BY <3>2, OutKept, TakenAlone
  <2>3. QED
    BY <2>1, <2>2
<1>3. ASSUME NEW v \in Workers, Owner(v, c)', pc'[v] = "pend"
      PROVE  transmitting_'[c]
  <2>1. CASE v = w
    <3>1. /\ transmitting_[Mine(w)] /\ Mine(w) = c /\ pc[w] = "disconnect"
      BY <1>3, <2>1, FlagsBy DEF Owner
    <3>2. QED
      BY <3>1, FlagsBy
  <2>2. CASE v # w
    <3>1. Owner(v, c) /\ pc[v] = "pend"
      BY <1>3, <2>2, OthersKeep DEF Owner
    <3>2. transmitting_[c]
      BY <3>1 DEF TrueFlags
    <3>3. ~ (pc[w] = "unmark" /\ Mine(w) = c)
      BY <2>2, <3>1, OwnsFrame DEF StrandInv
    <3>4. QED
      BY <3>2, <3>3, FlagsBy
  <2>3. QED
    BY <2>1, <2>2
<1>4. ASSUME Live(c)', transmitting_'[c]
      PROVE  Out(c)' \/ OwnerAt(c, {"write", "unmark", "shut"})'
  <2>1. CASE ~ transmitting_[c]
    <3>1. pc[w] = "mark" /\ Mine(w) = c /\ Callback(w)
      BY <1>4, <2>1, FlagsBy
    <3>2. Out(c)
      BY <3>1 DEF TrueFlags
    <3>3. Owner(w, c)
      BY <3>1, OwnsFrame
    <3>4. QED
      BY <3>2, <3>3, OutKept, TakenAlone
  <2>2. CASE transmitting_[c] /\ Out(c)
    BY <2>2, OutKept DEF OwnerAt
  <2>3. ASSUME NEW v \in Workers, Owner(v, c), transmitting_[c],
               pc[v] \in {"write", "unmark", "shut"}
        PROVE  OwnerAt(c, {"write", "unmark", "shut"})'
    <3>1. CASE v # w
      <4>1. Owner(v, c)' /\ pc'[v] = pc[v]
        BY <2>3, <3>1, OthersKeep DEF Owner
      <4>2. QED
        BY <2>3, <4>1 DEF OwnerAt
    <3>2. CASE v = w
      <4>1. pc'[w] \in {"unmark", "shut"} /\ Owner(w, c)'
        BY <1>1, <1>4, <2>3, <3>2, OwnerStays
      <4>2. QED
        BY <4>1 DEF OwnerAt
    <3>3. QED
      BY <3>1, <3>2
  <2>4. QED
    BY <1>1, <1>4, <2>1, <2>2, <2>3 DEF TrueFlags, OwnerAt
<1>5. ASSUME Live(c)', disconnect_pending_'[c], ~ shutting_down_'
      PROVE  Out(c)' \/ OwnerAt(c, {"write", "shut"})'
  <2>1. Live(c) /\ ~ shutting_down_
    BY <1>1, <1>5
  <2>2. CASE ~ disconnect_pending_[c]
    <3>1. pc[w] = "pend" /\ Mine(w) = c /\ Callback(w)
      BY <1>5, <2>2, FlagsBy
    <3>2. Owner(w, c)
      BY <2>1, <3>1 DEF Owner, ShutInv
    <3>3. Out(c) \/ OwnerAt(c, {"write", "unmark", "shut"})
      BY <2>1, <3>1, <3>2 DEF TrueFlags
    <3>4. Out(c)
      BY <3>1, <3>2, <3>3 DEF OwnerAt, StrandInv
    <3>5. QED
      BY <3>2, <3>4, OutKept, TakenAlone
  <2>3. CASE disconnect_pending_[c] /\ Out(c)
    BY <2>3, OutKept DEF OwnerAt
  <2>4. ASSUME NEW v \in Workers, Owner(v, c), disconnect_pending_[c],
               pc[v] \in {"write", "shut"}
        PROVE  OwnerAt(c, {"write", "shut"})'
    <3>1. CASE v # w
      <4>1. Owner(v, c)' /\ pc'[v] = pc[v]
        BY <2>4, <3>1, OthersKeep DEF Owner
      <4>2. QED
        BY <2>4, <4>1 DEF OwnerAt
    <3>2. CASE v = w
      <4>1. pc'[w] = "shut" /\ Owner(w, c)'
        BY <1>5, <2>1, <2>4, <3>2, OwnerStays
      <4>2. QED
        BY <4>1 DEF OwnerAt
    <3>3. QED
      BY <3>1, <3>2
  <2>5. QED
    BY <2>1, <2>2, <2>3, <2>4 DEF TrueFlags, OwnerAt
<1>6. QED
  BY <1>2, <1>3, <1>4, <1>5, FailedWorker DEF TrueFlags

(* What a socket and its client do to the writes of c. *)
LEMMA FlagsOutside ==
  ASSUME Typed, FreshInv, Outside, NEW c \in Conns, TrueFlags(c)
  PROVE  TrueFlags(c)'
<1>1. UNCHANGED <<pc, frame, waiting, connections_, shutting_down_,
                  transmitting_, disconnect_pending_>>
  BY OutsideKeeps
<1>2. /\ socket \in [Conns -> {"none", "open", "shut"}]
      /\ unsent \in [Conns -> SUBSET (1..MaxRequests)]
      /\ hungUp \in [Conns -> BOOLEAN]
      /\ broken \in [Conns -> {"no", "error", "read", "write"}]
  BY DEF Typed, SocketTypes, ClientTypes
<1>3. ASSUME NEW result \in {"ok", "reset", "pipe", "timedOut"},
             Enqueue(Op("write", c, 0, result)),
             result # "ok" => Failing(c)
      PROVE  /\ Out(c)'
             /\ \A op \in Completed(c)' :
                  op \in Completed(c) \/ (op.result # "ok" => Failing(c))
  <2> DEFINE new == Op("write", c, 0, result)
  <2>1. new \in QueuedOps
    BY OpTyped
  <2>2. new.kind = "write" /\ new.conn = c /\ new.result = result
    BY DEF Op
  <2>3. opQueue' = Append(opQueue, new)
    BY <1>3 DEF Enqueue
  <2> HIDE DEF new
  <2>4. QED
    BY <1>1, <1>3, <2>1, <2>2, <2>3, CompletedPushed DEF Out
<1>4. CASE FinishWrite(c) \/ FailWrite(c)
  <2>1. /\ Out(c)'
        /\ \A op \in Completed(c)' :
             op \in Completed(c) \/ (op.result # "ok" => Failing(c))
    <3>1. CASE FinishWrite(c)
      BY <1>3, <3>1 DEF FinishWrite
    <3>2. CASE FailWrite(c)
      <4>1. PICK result \in {"reset", "pipe", "timedOut"} :
              WriteEnds(c, result) /\ Enqueue(Op("write", c, 0, result))
        BY <3>2 DEF FailWrite, EndWrite
      <4>2. Failing(c)
        BY <3>2, <4>1 DEF FailWrite, WriteEnds, Failing, Lost
      <4>3. QED
        BY <1>3, <4>1, <4>2
    <3>3. QED
      BY <1>4, <3>1, <3>2
  <2>2. /\ UNCHANGED <<socket, hungUp, next_connection_>>
        /\ Lost(c) => Lost(c)'
    BY <1>2, <1>4 DEF FinishWrite, FailWrite, EndWrite, WriteEnds, Lost
  <2>3. QED
    BY <1>1, <2>1, <2>2 DEF TrueFlags, Failing, Live, Owner, OwnerAt
<1>5. CASE ~ (FinishWrite(c) \/ FailWrite(c))
  <2>1. /\ \A op \in Completed(c)' : op.kind = "write" => op \in Completed(c)
        /\ Completed(c) \subseteq Completed(c)'
    BY <1>5, OpsOutside
  <2>2. /\ unsent'[c] = unsent[c] /\ (Lost(c) => Lost(c)')
        /\ socket[c] = "shut" => socket'[c] = "shut"
        /\ \/ ClientConnect(c)
           \/ socket'[c] = socket[c] /\ (c = next_connection_' =>
                                            c = next_connection_)
    <3>1. CASE ReceiveSignal
      BY <3>1 DEF ReceiveSignal, Lost
    <3>2. ASSUME NEW d \in Conns,
                 Client(d) \/ Reactor(d)
          PROVE  /\ unsent'[c] = unsent[c] /\ (Lost(c) => Lost(c)')
                 /\ socket[c] = "shut" => socket'[c] = "shut"
                 /\ \/ ClientConnect(c)
                    \/ socket'[c] = socket[c] /\ (c = next_connection_' =>
                                                     c = next_connection_)
      <4>1. CASE d # c
        <5>1. c = next_connection_' => c = next_connection_
          BY <3>2, <4>1, OutsideMoves DEF ClientConnect, Client
        <5>2. QED
          BY <3>2, <4>1, <5>1, OutsideLocal DEF Lost
      <4>2. CASE d = c
        BY <1>2, <1>5, <3>2, <4>2 DEF Reactor, ClientConnect, Client,
           ClientAsk, ClientHangUp, Break, ReceivePacket, ReceiveEnd,
           ReceiveError, Lost
      <4>3. QED
        BY <4>1, <4>2
    <3>3. QED
      BY <3>1, <3>2 DEF Outside
  <2>3. Failing(c) => Failing(c)'
    BY <2>2 DEF Failing
  <2>4. Out(c) => Out(c)'
    BY <2>1, <2>2 DEF Out
  <2>5. Live(c)' =>
          Live(c) \/ (~ transmitting_[c] /\ ~ disconnect_pending_[c])
    BY <1>1, <2>2 DEF Live, ClientConnect, Client, FreshInv, Clean
  <2>6. QED
    BY <1>1, <2>1, <2>3, <2>4, <2>5 DEF TrueFlags, Owner, OwnerAt
<1>6. QED
  BY <1>4, <1>5

(* With a strand the flags of the transmitter are true. *)
LEMMA TransmitNext ==
  ASSUME Typed, AcceptInv, FreshInv, ShutInv, StrandInv, TransmitInv,
         [Next]_vars
  PROVE  TransmitInv'
<1>1. use_strand' = use_strand
  BY StrandStays
<1>2. CASE \E w \in Workers : Worker(w)
  BY <1>1, <1>2, FlagsWorker DEF TransmitInv
<1>3. CASE Outside
  BY <1>1, <1>3, FlagsOutside DEF TransmitInv
<1>4. CASE UNCHANGED vars
  BY <1>4 DEF TransmitInv, TrueFlags, Failing, Lost, Out, Live, Owner,
     OwnerAt, Completed
<1>5. QED
  BY <1>2, <1>3, <1>4 DEF Next, Outside

-----------------------------------------------------------------------------
(* Requests *)

(* The requests that have no response yet. *)
Unanswered(c) == (1 .. asked[c]) \ answered[c]

(* Thread w has a request of c that it has not begun to answer. *)
Handling(w, c) ==
  /\ Mine(w) = c /\ frame[w].packet # 0
  /\ pc[w] \in {"read", "received", "swap", "parse", "start"}
     \/ frame[w].after = "parse"

(* A read of c with a request has completed. *)
Arrived(c) == \E op \in Completed(c) : op.kind = "read" /\ op.packet # 0

(* When the client waits for each response, its only request without one   *)
(* is in one place: in the socket, completed, handled or being answered.   *)
OneRequest(c) ==
  /\ answered[c] \subseteq 1 .. asked[c]
  /\ \A p, q \in Unanswered(c) : p = q
  /\ unsent[c] \subseteq Unanswered(c)
  /\ \A op \in Completed(c) : op.kind = "read" /\ op.packet # 0 =>
       op.packet \in Unanswered(c) \ unsent[c]
  /\ \A w \in Workers : Handling(w, c) =>
       frame[w].packet \in Unanswered(c) \ unsent[c] /\ ~ Arrived(c)
  /\ inbox[c] > 0 =>
       /\ inbox[c] = 1 /\ asked[c] \in Unanswered(c) \ unsent[c]
       /\ ~ Arrived(c) /\ \A w \in Workers : ~ Handling(w, c)

RequestInv == use_strand /\ Window = 1 => \A c \in Conns : OneRequest(c)

(* Where the requests that are handled come from. *)
LEMMA HandlingFrom ==
  ASSUME Typed, NEW w \in Workers, Worker(w), NEW c \in Conns,
         NEW v \in Workers, Handling(v, c)'
  PROVE  \/ /\ Handling(v, c) /\ frame'[v].packet = frame[v].packet
            /\ v = w => ~ StartWrite(w)
         \/ /\ v = w /\ Take(w) /\ opQueue[1] \in Completed(c)
            /\ opQueue[1].kind = "read" /\ opQueue[1].packet # 0
            /\ opQueue[1].conn = c
            /\ frame'[v].packet = opQueue[1].packet
<1>1. /\ pc \in [Workers -> Pcs] /\ frame \in [Workers -> Frames]
      /\ FrameInv(w) /\ NoFrame.after = "return"
      /\ frame[w].after \in {"return", "parse", "leave", "invalid", "walk"}
  BY DEF Typed, ThreadTypes, NoFrame, Frame, Frames
<1>2. CASE v # w
  BY <1>2, OthersKeep DEF Handling
<1>3. CASE v = w /\ Take(w)
  <2>1. /\ pc'[w] = opQueue[1].kind /\ frame'[w].after = "return"
        /\ Mine(w)' = opQueue[1].conn /\ frame'[w] = Frame(opQueue[1])
        /\ opQueue[1].kind \in Kinds
    BY <1>3, TakeDoes, TakenKind
  <2>2. frame'[w].packet = opQueue[1].packet
    BY <2>1 DEF Frame
  <2>3. 1 \in DOMAIN opQueue
    BY <1>3, TakeDoes, Popped DEF Typed, ThreadTypes
  <2>4. opQueue[1].conn = c /\ opQueue[1].kind = "read"
    BY <1>3, <2>1 DEF Handling
  <2>5. QED
    BY <1>3, <2>2, <2>3, <2>4, CompletedTyped DEF Handling
<1>4. CASE v = w /\ Delay(w)
  <2>1. pc' = pc /\ frame' = frame /\ pc[w] = "run"
    BY <1>4, DelayDoes DEF Delay, WaitForStrand
  <2>2. QED
    BY <1>1, <1>4, <2>1 DEF Handling, FrameInv
<1>5. CASE v = w /\ Return(w)
  BY <1>1, <1>5, ReturnDoes DEF Handling
<1>6. CASE v = w /\ Callback(w)
  <2>1. /\ Mine(w)' = Mine(w) /\ frame'[w].packet = frame[w].packet
    BY <1>6, CallbackLocal
  <2>2. ~ StartWrite(w)
    <3>1. pc[w] # "start"
      BY <1>6 DEF Callback, ConnectionStep, ReadExpired, ReadData, ReadEnd,
         ReadError, SwapBuffers, TestReceiving, ArmRead, Respond,
         DisconnectInvalid, MarkTransmitting, LeaveReceive, WriteExpired,
         WriteDone, WriteFailed, UnmarkTransmitting, Disconnect,
         PendDisconnect, ShutSocket
    <3>2. QED
      BY <3>1, WriteLocal
  <2>3. CASE pc[w] \in {"read", "swap", "parse"}
    BY <1>6, <2>1, <2>2, <2>3 DEF Handling
  <2>4. CASE pc[w] \in {"enable", "arm"}
    <3>1. /\ frame' = frame
          /\ pc'[w] \in {"arm", frame[w].after}
      BY <1>1, <1>6, <2>4 DEF Callback, ConnectionStep, ReadExpired, ReadData,
         ReadEnd, ReadError, SwapBuffers, TestReceiving, ArmRead, Respond,
         DisconnectInvalid, MarkTransmitting, LeaveReceive, WriteExpired,
         WriteDone, WriteFailed, UnmarkTransmitting, Disconnect,
         PendDisconnect, ShutSocket
    <3>2. QED
      BY <1>1, <1>6, <2>1, <2>2, <3>1 DEF Handling
  <2>5. CASE pc[w] \notin {"read", "swap", "parse", "enable", "arm"}
    <3>1. pc'[w] \notin {"read", "received", "swap"}
      BY <1>6, <2>5, CallbackGoes
    <3>2. pc'[w] \notin {"parse", "start"} /\ frame'[w].after # "parse"
      <4>1. CASE pc[w] \in {"mark", "invalid", "leave"}
        <5>1. CASE MarkTransmitting(w)
          <6>1. pc'[w] \in {"leave", "disconnect", "shut"}
            BY <1>1, <5>1 DEF MarkTransmitting, AfterSend
          <6>2. QED
            BY <1>1, <5>1, <6>1 DEF MarkTransmitting, FrameInv, ControlInv
        <5>2. CASE DisconnectInvalid(w)
          BY <1>1, <5>2 DEF DisconnectInvalid, Frames
        <5>3. CASE LeaveReceive(w)
          <6>1. frame[w] \in Frames
            BY <1>1
          <6>2. frame'[w] = [frame[w] EXCEPT !.http = FALSE,
                                            !.after = "return"]
            BY <1>1, <5>3 DEF LeaveReceive
          <6>3. frame'[w].after = "return"
            BY <6>1, <6>2 DEF Frames
          <6>4. QED
            BY <1>1, <5>3, <6>3 DEF LeaveReceive
        <5>4. QED
          BY <1>6, <4>1, <5>1, <5>2, <5>3 DEF Callback, ConnectionStep,
             ReadExpired, ReadData, ReadEnd, ReadError, SwapBuffers,
             TestReceiving, ArmRead, Respond, WriteExpired, WriteDone,
             WriteFailed, UnmarkTransmitting, Disconnect, PendDisconnect,
             ShutSocket
      <4>2. CASE pc[w] \notin {"mark", "invalid", "leave"}
        BY <1>1, <1>6, <2>5, <4>2 DEF FrameInv, ControlInv, Callback,
           ConnectionStep, ReadExpired, ReadData, ReadEnd, ReadError,
           SwapBuffers, TestReceiving, ArmRead, Respond, DisconnectInvalid,
           MarkTransmitting, LeaveReceive, WriteExpired, WriteDone,
           WriteFailed, UnmarkTransmitting, Disconnect, PendDisconnect,
           ShutSocket
      <4>3. QED
        BY <4>1, <4>2
    <3>3. QED
      BY <1>6, <3>1, <3>2 DEF Handling
  <2>6. QED
    BY <2>3, <2>4, <2>5
<1>7. CASE v = w /\ StartWrite(w)
  BY <1>1, <1>7, WriteLocal DEF Handling, FrameInv, ControlInv
<1>8. CASE v = w /\ Accept(w)
  BY <1>1, <1>8 DEF Accept, AcceptClosed, AcceptFailed, AcceptStart,
     RegisterHttp, RegisterComms, EndHandler, Handling, FrameInv, ControlInv
<1>9. CASE v = w /\ Event(w)
  <2>1. /\ Mine(w)' = Mine(w) /\ frame'[w].packet = frame[w].packet
        /\ pc[w] \in {"received", "disconnected", "closing", "erase"}
    BY <1>9, EventKeeps
  <2>2. frame'[w].after # "parse"
    <3>1. frame[w] \in Frames /\ frame[w].after # "parse"
      BY <1>1, <2>1 DEF FrameInv, ControlInv
    <3>2. \/ frame'[w] = frame[w]
          \/ frame'[w] = [frame[w] EXCEPT !.http = TRUE]
      BY <1>1, <1>9 DEF Event, ReceivedUnknown, Received, Disconnected,
         CloseServer, EraseConnection
    <3>3. QED
      BY <3>1, <3>2 DEF Frames
  <2>3. CASE pc[w] = "received"
    BY <1>9, <2>1, <2>3, WriteLocal DEF Handling
  <2>4. CASE pc[w] # "received"
    <3>1. pc'[w] \notin {"read", "received", "swap", "parse", "start"}
      BY <1>1, <1>9, <2>1, <2>4 DEF Event, ReceivedUnknown, Received,
         Disconnected, CloseServer, EraseConnection, FrameInv, ControlInv
    <3>2. QED
      BY <1>9, <2>2, <3>1 DEF Handling
  <2>5. QED
    BY <2>3, <2>4
<1>10. CASE v = w /\ Stop(w)
  <2>1. pc'[w] \notin {"read", "received", "swap", "parse", "start"}
    BY <1>10, StopKeeps
  <2>2. frame'[w].after # "parse"
    <3>1. CASE WalkOn(w)
      <4>1. PICK d : frame' = [frame EXCEPT ![w].conn = d, ![w].after = "walk"]
        BY <3>1 DEF WalkOn
      <4>2. QED
        BY <1>1, <4>1 DEF Frames
    <3>2. CASE ~ WalkOn(w)
      BY <1>1, <1>10, <3>2 DEF Stop, BeginShutdown, WalkEnd, ClearHttp,
         CloseHttp, CloseAll, StopService, EndHandler, FrameInv, ControlInv
    <3>3. QED
      BY <3>1, <3>2
  <2>3. QED
    BY <1>10, <2>1, <2>2 DEF Handling
<1>11. CASE v = w /\ Leave(w)
  BY <1>1, <1>11 DEF Leave, LeaveRun, Handling, FrameInv
<1>12. QED
  BY <1>2, <1>3, <1>4, <1>5, <1>6, <1>7, <1>8, <1>9, <1>10, <1>11,
     WorkerSplit DEF Inside

(* Threads receive nothing. *)
LEMMA ArrivedFrom ==
  ASSUME Typed, NEW w \in Workers, Worker(w), NEW c \in Conns
  PROVE  /\ Arrived(c)' => Arrived(c)
         /\ \A op \in Completed(c)' : op.kind = "read" =>
              \E other \in Completed(c) : Same(op, other)
<1>1. ASSUME NEW op \in Completed(c)', op.kind = "read"
      PROVE  \E other \in Completed(c) : Same(op, other)
  BY <1>1, OpsFrom
<1>2. QED
  BY <1>1 DEF Arrived, Same

(* Thread w handles a request until it starts to write the response. *)
LEMMA StartHandles ==
  ASSUME Typed, NEW w \in Workers, StartWrite(w), NEW c \in Conns,
         Mine(w) = c
  PROVE  /\ Handling(w, c)
         /\ \/ /\ unsent'[c] = unsent[c]
               /\ answered'[c] = answered[c] \cup {frame[w].packet}
            \/ /\ unsent'[c] = unsent[c] /\ answered'[c] = answered[c]
               /\ hungUp[c] \/ WriteNothing(w)
            \/ /\ unsent'[c] = unsent[c] \cup {frame[w].packet}
               /\ answered'[c] = answered[c]
<1>1. /\ pc[w] = "start" /\ frame[w].packet # 0
      /\ unsent \in [Conns -> SUBSET (1..MaxRequests)]
      /\ answered \in [Conns -> SUBSET (1..MaxRequests)]
  BY WriteLocal DEF Typed, FrameInv, SocketTypes, ClientTypes
<1>2. Handling(w, c)
  BY <1>1 DEF Handling
<1>3. QED
  BY <1>1, <1>2 DEF StartWrite, WriteWhole, WritePart, WriteNothing, EndWrite

(* A thread takes the request from one place to the next. *)
LEMMA RequestWorker ==
  ASSUME Typed, StrandInv, use_strand, NEW w \in Workers, Worker(w),
         NEW c \in Conns, OneRead(c), OneRequest(c)
  PROVE  OneRequest(c)'
<1>1. asked' = asked /\ inbox' = inbox
  BY WorkerLocal, WorkerSplit, TakeDoes, DelayDoes, ReturnDoes, CallbackKeeps,
     WriteLocal, EventKeeps, StopKeeps DEF Inside, Leave, Accept,
        AcceptClosed, AcceptFailed, AcceptStart, RegisterHttp, RegisterComms
<1>2. CASE StartWrite(w) /\ Mine(w) = c
  <2>1. Handling(w, c)
    BY <1>2, StartHandles
  <2>2. /\ frame[w].packet \in Unanswered(c) \ unsent[c] /\ ~ Arrived(c)
        /\ ~ (inbox[c] > 0)
    BY <2>1 DEF OneRequest
  <2>3. ~ Arrived(c)'
    BY <2>2, ArrivedFrom
  <2>4. \A v \in Workers : ~ Handling(v, c)'
    <3> SUFFICES ASSUME NEW v \in Workers, Handling(v, c)'
                 PROVE  FALSE
      OBVIOUS
    <3>1. /\ Handling(v, c) /\ v # w
      <4>1. ~ Take(w)
        BY <1>2, TakeDoes, WriteLocal
      <4>2. QED
        BY <1>2, <4>1, HandlingFrom
    <3>2. QED
      BY <1>2, <2>1, <3>1, Alone DEF Handling, Typed, FrameInv, ControlInv
  <2>5. /\ answered'[c] \subseteq answered[c] \cup {frame[w].packet}
        /\ answered[c] \subseteq answered'[c]
        /\ \/ unsent'[c] = unsent[c]
           \/ /\ unsent'[c] = unsent[c] \cup {frame[w].packet}
              /\ answered'[c] = answered[c]
    BY <1>2, StartHandles
  <2>6. Unanswered(c)' \subseteq Unanswered(c)
    BY <1>1, <2>5 DEF Unanswered
  <2>7. answered'[c] \subseteq 1 .. asked'[c]
    BY <1>1, <2>2, <2>5 DEF Unanswered, OneRequest
  <2>8. unsent'[c] \subseteq Unanswered(c)'
    BY <1>1, <2>2, <2>5 DEF Unanswered, OneRequest
  <2>9. \A op \in Completed(c)' : ~ (op.kind = "read" /\ op.packet # 0)
    BY <2>3 DEF Arrived
  <2>10. QED
    BY <1>1, <2>2, <2>3, <2>4, <2>6, <2>7, <2>8, <2>9 DEF OneRequest
<1>3. CASE ~ (StartWrite(w) /\ Mine(w) = c)
  <2>1. unsent'[c] = unsent[c] /\ answered'[c] = answered[c]
    BY <1>3, UnsentKept, WriteLocal
  <2>2. Unanswered(c)' = Unanswered(c)
    BY <1>1, <2>1 DEF Unanswered
  <2>3. Arrived(c)' => Arrived(c)
    BY ArrivedFrom
  <2>4. ASSUME NEW op \in Completed(c)', op.kind = "read", op.packet # 0
        PROVE  op.packet \in Unanswered(c) \ unsent[c]
    <3>1. PICK other \in Completed(c) : Same(op, other)
      BY <2>4, ArrivedFrom
    <3>2. QED
      BY <2>4, <3>1 DEF Same, OneRequest
  <2>5. ASSUME NEW v \in Workers, Handling(v, c)'
        PROVE  /\ frame'[v].packet \in Unanswered(c) \ unsent[c]
               /\ ~ Arrived(c)' /\ ~ (inbox[c] > 0)
    <3>1. CASE Handling(v, c) /\ frame'[v].packet = frame[v].packet
      BY <2>3, <3>1 DEF OneRequest
    <3>2. CASE /\ v = w /\ Take(w) /\ opQueue[1] \in Completed(c)
               /\ opQueue[1].kind = "read" /\ opQueue[1].packet # 0
               /\ opQueue[1].conn = c
               /\ frame'[v].packet = opQueue[1].packet
      <4>1. Arrived(c) /\ opQueue[1].packet \in Unanswered(c) \ unsent[c]
        BY <3>2 DEF Arrived, OneRequest
      <4>2. ~ Arrived(c)'
        <5> SUFFICES ASSUME NEW op \in Completed(c)', op.kind = "read"
                     PROVE  FALSE
          BY DEF Arrived
        <5>1. Precedes(c, opQueue[1], op)
          BY <3>2, TakenAhead
        <5>2. QED
          BY <3>2, <5>1 DEF OneRead
      <4>3. QED
        BY <3>2, <4>1, <4>2 DEF OneRequest
    <3>3. QED
      BY <2>5, <3>1, <3>2, HandlingFrom
  <2>6. QED
    BY <1>1, <2>1, <2>2, <2>3, <2>4, <2>5 DEF OneRequest
<1>4. QED
  BY <1>2, <1>3

(* A client that waits for each response sends when it has all of them. *)
LEMMA AsksAlone ==
  ASSUME Typed, Window = 1, NEW c \in Conns, ClientAsk(c)
  PROVE  Unanswered(c) = {}
<1>1. asked[c] \in Nat
  BY DEF Typed, ClientTypes
<1>2. IsFiniteSet(1 .. asked[c])
  BY <1>1, FS_Interval
<1>3. IsFiniteSet(Unanswered(c))
  BY <1>2, FS_Subset DEF Unanswered
<1>4. Cardinality(Unanswered(c)) \in Nat /\ Cardinality(Unanswered(c)) < 1
  BY <1>3, FS_CardinalityType DEF ClientAsk, Unanswered
<1>5. Cardinality(Unanswered(c)) = 0
  BY <1>4
<1>6. QED
  BY <1>3, <1>5, FS_EmptySet

(* So does the socket; a new request comes when there is none. *)
LEMMA RequestOutside ==
  ASSUME Typed, Outside, Window = 1, NEW c \in Conns, OneRead(c),
         OneRequest(c)
  PROVE  OneRequest(c)'
<1>1. UNCHANGED <<pc, frame, waiting>>
  BY OutsideKeeps
<1>2. \A w \in Workers : Handling(w, c)' <=> Handling(w, c)
  BY <1>1 DEF Handling
<1>3. /\ asked \in [Conns -> 0..MaxRequests]
      /\ inbox \in [Conns -> 0..MaxRequests] /\ inbox[c] <= asked[c]
      /\ unsent \in [Conns -> SUBSET (1..MaxRequests)]
      /\ answered \in [Conns -> SUBSET (1..MaxRequests)]
  BY DEF Typed, ClientTypes, SocketTypes
<1>4. ASSUME \A op \in Completed(c)' : op.kind = "read" =>
               op \in Completed(c) \/ op.packet = 0
      PROVE  /\ Arrived(c)' => Arrived(c)
             /\ \A op \in Completed(c)' : op.kind = "read" /\ op.packet # 0 =>
                  op.packet \in Unanswered(c) \ unsent[c]
  BY <1>4 DEF Arrived, OneRequest
<1>5. CASE ReceivePacket(c)
  <2>1. /\ inbox[c] > 0 /\ inbox'[c] = inbox[c] - 1 /\ reads[c] # << >>
        /\ UNCHANGED <<asked, answered, unsent>>
    BY <1>3, <1>5 DEF ReceivePacket
  <2>2. /\ inbox[c] = 1 /\ asked[c] \in Unanswered(c) \ unsent[c]
        /\ ~ Arrived(c) /\ \A w \in Workers : ~ Handling(w, c)
    BY <2>1 DEF OneRequest
  <2>3. asked[c] - inbox[c] + 1 = asked[c] /\ ~ (inbox'[c] > 0)
    BY <1>3, <2>1, <2>2
  <2>4. \A op \in Completed(c)' : op.kind = "read" /\ op.packet # 0 =>
          op.packet = asked[c]
    BY <1>5, <2>2, <2>3, PacketOf DEF Arrived
  <2>5. Unanswered(c)' = Unanswered(c)
    BY <2>1 DEF Unanswered
  <2>6. QED
    BY <1>2, <2>1, <2>2, <2>3, <2>4, <2>5 DEF OneRequest
<1>6. CASE ReceiveEnd(c) \/ ReceiveError(c)
  <2>1. UNCHANGED <<asked, answered, unsent, inbox>>
    BY <1>6 DEF ReceiveEnd, ReceiveError
  <2>2. Unanswered(c)' = Unanswered(c)
    BY <2>1 DEF Unanswered
  <2>3. \A op \in Completed(c)' : op.kind = "read" =>
          op \in Completed(c) \/ op.packet = 0
    BY <1>6, EndOf
  <2>4. QED
    BY <1>1, <1>2, <1>4, <2>1, <2>2, <2>3 DEF OneRequest
<1>7. CASE FinishWrite(c) \/ FailWrite(c)
  <2>1. \A op \in Completed(c)' : op.kind = "read" => op \in Completed(c)
    <3>1. ~ (ReceivePacket(c) \/ ReceiveEnd(c) \/ ReceiveError(c))
      <4>1. unsent' # unsent
        BY <1>3, <1>7 DEF FinishWrite, FailWrite, EndWrite
      <4>2. QED
        BY <4>1 DEF ReceivePacket, ReceiveEnd, ReceiveError
    <3>2. QED
      BY <3>1, OpsOutside
  <2>2. PICK packet \in unsent[c] :
          /\ unsent'[c] = unsent[c] \ {packet}
          /\ \/ answered'[c] = answered[c] \cup {packet}
             \/ answered'[c] = answered[c]
    BY <1>3, <1>7 DEF FinishWrite, FailWrite, EndWrite
  <2>3. asked' = asked /\ inbox' = inbox
    BY <1>7 DEF FinishWrite, FailWrite, EndWrite
  <2>4. packet \in Unanswered(c) /\ Unanswered(c) \ unsent[c] = {}
    BY <2>2 DEF OneRequest
  <2>5. /\ ~ Arrived(c) /\ ~ (inbox[c] > 0)
        /\ \A w \in Workers : ~ Handling(w, c)
    BY <2>4 DEF OneRequest, Arrived
  <2>6. /\ answered'[c] \subseteq 1 .. asked'[c]
        /\ Unanswered(c)' \subseteq Unanswered(c)
        /\ unsent'[c] \subseteq Unanswered(c)'
    BY <2>2, <2>3, <2>4 DEF OneRequest, Unanswered
  <2>7. QED
    BY <1>2, <1>4, <2>1, <2>3, <2>5, <2>6 DEF OneRequest, Arrived
<1>8. CASE ClientAsk(c)
  <2>1. /\ asked'[c] = asked[c] + 1 /\ inbox'[c] = inbox[c] + 1
        /\ UNCHANGED <<answered, unsent, opQueue>>
    BY <1>3, <1>8 DEF ClientAsk
  <2>2. Unanswered(c) = {}
    BY <1>8, AsksAlone
  <2>3. /\ unsent[c] = {} /\ ~ Arrived(c) /\ ~ (inbox[c] > 0)
        /\ \A w \in Workers : ~ Handling(w, c)
    BY <2>2 DEF OneRequest, Arrived
  <2>4. inbox'[c] = 1
    BY <1>3, <2>1, <2>3
  <2>5. Completed(c)' = Completed(c)
    BY <1>1, <2>1 DEF Completed
  <2>6. /\ answered[c] = 1 .. asked[c] /\ asked[c] \in Nat
    <3>1. answered[c] \subseteq 1 .. asked[c]
      BY DEF OneRequest
    <3>2. (1 .. asked[c]) \ answered[c] = {}
      BY <2>2 DEF Unanswered
    <3>3. answered[c] = 1 .. asked[c]
      BY <3>1, <3>2
    <3>4. QED
      BY <1>3, <3>3
  <2>7. Unanswered(c)' = {asked'[c]} /\ answered'[c] \subseteq 1 .. asked'[c]
    BY <2>1, <2>6 DEF Unanswered
  <2>8. QED
    BY <1>2, <2>1, <2>3, <2>4, <2>5, <2>7 DEF OneRequest, Arrived
<1>9. CASE ~ (\/ ReceivePacket(c) \/ ReceiveEnd(c) \/ ReceiveError(c)
              \/ FinishWrite(c) \/ FailWrite(c) \/ ClientAsk(c))
  <2>1. /\ asked'[c] = asked[c] /\ answered'[c] = answered[c]
        /\ unsent'[c] = unsent[c] /\ inbox'[c] = inbox[c]
    <3>1. CASE ReceiveSignal
      BY <3>1 DEF ReceiveSignal
    <3>2. ASSUME NEW d \in Conns,
                 Client(d) \/ Reactor(d)
          PROVE  /\ asked'[c] = asked[c] /\ answered'[c] = answered[c]
                 /\ unsent'[c] = unsent[c] /\ inbox'[c] = inbox[c]
      <4>1. CASE d # c
        BY <3>2, <4>1, OutsideLocal
      <4>2. CASE d = c
        BY <1>9, <3>2, <4>2 DEF Reactor, ClientConnect, Client, ClientHangUp,
           Break
      <4>3. QED
        BY <4>1, <4>2
    <3>3. QED
      BY <3>1, <3>2 DEF Outside
  <2>2. \A op \in Completed(c)' : op.kind = "read" => op \in Completed(c)
    BY <1>9, OpsOutside
  <2>3. Unanswered(c)' = Unanswered(c)
    BY <2>1 DEF Unanswered
  <2>4. QED
    BY <1>1, <1>2, <1>4, <2>1, <2>2, <2>3 DEF OneRequest
<1>10. QED
  BY <1>5, <1>6, <1>7, <1>8, <1>9

(* With a strand the only open request is in one place. *)
LEMMA RequestNext ==
  ASSUME Typed, StrandInv, ReadInv, RequestInv, [Next]_vars
  PROVE  RequestInv'
<1>1. use_strand' = use_strand
  BY StrandStays
<1>2. CASE \E w \in Workers : Worker(w)
  BY <1>1, <1>2, RequestWorker DEF ReadInv, RequestInv
<1>3. CASE Outside
  BY <1>1, <1>3, RequestOutside DEF ReadInv, RequestInv
<1>4. CASE UNCHANGED vars
  BY <1>4 DEF RequestInv, OneRequest, Unanswered, Handling, Arrived, Completed
<1>5. QED
  BY <1>2, <1>3, <1>4 DEF Next, Outside

-----------------------------------------------------------------------------
(* Responses *)

(* The connection is being accepted, before CONNECTED. *)
Opening(c) ==
  Accepting(c) \/ \E w \in Workers : pc[w] = "connected" /\ Mine(w) = c

(* The client of c is entitled to a response. *)
Good(c) ==
  /\ ~ Lost(c) /\ ~ raced[c] /\ socket[c] = "open"
  /\ c \in http_connections_ \/ Opening(c)

(* A request without response has not been lost, and no write completes    *)
(* after it was received: the flag of the transmitter is reset before the  *)
(* request is answered.                                                    *)
Answering(c) ==
  Good(c) =>
    /\ \A packet \in Unanswered(c) :
         \/ packet > asked[c] - inbox[c]
         \/ \E op \in Completed(c) : op.kind = "read" /\ op.packet = packet
         \/ \E w \in Workers : Handling(w, c) /\ frame[w].packet = packet
         \/ packet \in unsent[c]
    /\ \A op, other : Precedes(c, op, other) =>
         ~ (op.kind = "read" /\ op.packet # 0 /\ other.kind = "write")
    /\ \A w \in Workers : Handling(w, c) =>
         \A op \in Completed(c) : op.kind # "write"

AnswerInv == use_strand /\ Window = 1 => \A c \in Conns : Answering(c)

(* A connection that owes its client a response can be written to. *)
LEMMA GoodLive ==
  ASSUME Typed, AcceptInv, SetInv, NEW c \in Conns, Good(c)
  PROVE  Live(c) /\ Alive(c) /\ ~ Failing(c)
<1>1. c \in connections_ \/ c = next_connection_
  <2>1. CASE c \in http_connections_
    BY <2>1 DEF SetInv, Good
  <2>2. CASE Opening(c)
    BY <2>2 DEF Opening, Accepting, AcceptInv
  <2>3. QED
    BY <2>1, <2>2 DEF Good
<1>2. QED
  BY <1>1 DEF Good, Live, Alive, Failing

(* No thread makes a connection good. *)
LEMMA GoodWorker ==
  ASSUME Typed, AcceptInv, NEW w \in Workers, Worker(w), NEW c \in Conns,
         Good(c)'
  PROVE  Good(c)
<1>1. /\ pc \in [Workers -> Pcs] /\ FrameInv(w)
      /\ socket \in [Conns -> {"none", "open", "shut"}]
  BY DEF Typed, ThreadTypes, SocketTypes
<1>2. ~ raced[c]
  BY HistoryKeeps DEF Good
<1>3. socket[c] = "open"
  <2>1. CASE Inside(w)
    <3>1. CASE Callback(w)
      BY <3>1, CallbackKeeps DEF Good, Callback, ConnectionStep, ReadExpired,
         ReadData, ReadEnd, ReadError, SwapBuffers, TestReceiving, ArmRead,
         Respond, DisconnectInvalid, MarkTransmitting, LeaveReceive,
         WriteExpired, WriteDone, WriteFailed, UnmarkTransmitting, Disconnect,
         PendDisconnect, ShutSocket, Typed, SocketTypes
    <3>2. QED
      BY <2>1, <3>1, WriteLocal, EventKeeps, StopKeeps
         DEF Good, Inside, Leave, Accept, AcceptClosed, AcceptFailed,
            AcceptStart, RegisterHttp, RegisterComms
  <2>2. CASE ~ Inside(w)
    BY <2>2, WorkerSplit, TakeDoes, DelayDoes, ReturnDoes DEF Good
  <2>3. QED
    BY <2>1, <2>2
<1>4. Opening(c)' => Opening(c)
  <2>1. ASSUME NEW i \in DOMAIN opQueue', opQueue'[i].kind = "accept",
               opQueue'[i].conn = c
        PROVE  Accepting(c)
    BY <2>1, WorkerMoves DEF Accepting
  <2>2. ASSUME NEW v \in Workers, pc'[v] = "accept", Mine(v)' = c
        PROVE  Accepting(c)
    <3>1. CASE v = w
      <4>1. \/ Mine(w)' = Mine(w) /\ pc[w] = "accept"
            \/ \E i \in DOMAIN opQueue : /\ Mine(w)' = opQueue[i].conn
                                         /\ pc'[w] = opQueue[i].kind
        BY <2>2, <3>1, WorkerMoves
      <4>2. QED
        BY <2>2, <3>1, <4>1 DEF Accepting
    <3>2. CASE v # w
      BY <2>2, <3>2, OthersKeep DEF Accepting
    <3>3. QED
      BY <3>1, <3>2
  <2>3. ASSUME NEW v \in Workers, pc'[v] = "connected", Mine(v)' = c
        PROVE  Opening(c)
    <3>1. CASE v = w
      <4>1. AcceptStart(w)
        <5>1. CASE Accept(w)
          BY <1>1, <2>3, <3>1, <5>1 DEF Accept, AcceptClosed, AcceptFailed,
             RegisterHttp, RegisterComms, EndHandler
        <5>2. ~ (Callback(w) \/ StartWrite(w) \/ Event(w) \/ Stop(w))
          BY <2>3, <3>1, CallbackLocal, WriteLocal, EventKeeps, StopKeeps
        <5>3. ~ (Take(w) \/ Delay(w) \/ Return(w) \/ Leave(w))
          BY <1>1, <2>3, <3>1, TakeDoes, TakenKind, ReturnDoes
             DEF Delay, WaitForStrand, Leave, LeaveRun
        <5>4. QED
          BY <5>1, <5>2, <5>3, WorkerSplit DEF Inside
      <4>2. pc[w] = "accept" /\ Mine(w) = c
        BY <2>3, <3>1, <4>1 DEF AcceptStart
      <4>3. QED
        BY <4>2 DEF Opening, Accepting
    <3>2. CASE v # w
      BY <2>3, <3>2, OthersKeep DEF Opening
    <3>3. QED
      BY <3>1, <3>2
  <2>4. QED
    BY <2>1, <2>2, <2>3 DEF Opening, Accepting
<1>5. c \in http_connections_' => c \in http_connections_ \/ Opening(c)
  <2>1. CASE c # Mine(w)
    BY <2>1, WorkerLocal
  <2>2. CASE c = Mine(w) /\ RegisterHttp(w)
    BY <2>2 DEF RegisterHttp, Opening
  <2>3. CASE ~ RegisterHttp(w)
    BY <2>3, WorkerSplit, TakeDoes, DelayDoes, ReturnDoes, CallbackKeeps,
       WriteLocal, EventKeeps, StopKeeps DEF Inside, Leave, Accept,
          AcceptClosed, AcceptFailed, AcceptStart, RegisterComms
  <2>4. QED
    BY <2>1, <2>2, <2>3
<1>6. ~ Lost(c)
  BY LostStays DEF Good
<1>7. QED
  BY <1>2, <1>3, <1>4, <1>5, <1>6 DEF Good

(* A request is handled until its response is sent. *)
LEMMA HandlingStays ==
  ASSUME Typed, AcceptInv, NEW w \in Workers, Worker(w), NEW c \in Conns,
         Good(c), Good(c)', Alive(c), Handling(w, c),
         pc[w] = "parse" => ~ transmitting_[c]
  PROVE  \/ StartWrite(w)
         \/ Handling(w, c)' /\ frame'[w].packet = frame[w].packet
<1>1. /\ pc \in [Workers -> Pcs] /\ frame \in [Workers -> Frames]
      /\ FrameInv(w) /\ Mine(w) = c /\ frame[w].packet # 0
  BY DEF Typed, ThreadTypes, Handling
<1>2. pc[w] \in {"read", "received", "swap", "enable", "arm", "parse", "start"}
  BY <1>1 DEF Handling, FrameInv, ControlInv
<1>3. CASE pc[w] = "received"
  <2>1. Event(w) /\ ~ ReceivedUnknown(w)
    <3>1. Event(w)
      BY <1>3, EventMoves
    <3>2. ASSUME ReceivedUnknown(w)
          PROVE  FALSE
      <4>1. c \notin http_connections_
        BY <1>1, <3>2 DEF ReceivedUnknown
      <4>2. c = next_connection_
        BY <4>1 DEF Good, Opening, Accepting, AcceptInv
      <4>3. raced'[c]
        BY <1>1, <3>2, <4>2 DEF ReceivedUnknown, Typed, ClientTypes
      <4>4. QED
        BY <4>3 DEF Good
    <3>3. QED
      BY <3>1, <3>2
  <2>2. Received(w)
    BY <1>3, <2>1 DEF Event, Disconnected, CloseServer, EraseConnection
  <2>3. pc'[w] = "swap"
    BY <1>1, <2>2 DEF Received
  <2>4. QED
    BY <1>1, <2>1, <2>3, EventKeeps DEF Handling
<1>4. CASE pc[w] \in {"read", "enable", "arm", "swap", "parse"}
  <2>1. Callback(w)
    BY <1>4, WriteLocal, EventKeeps, StopKeeps DEF Worker, Schedule,
       RunHandler, Dequeue, WaitForStrand, CallbackReturns, Leave, LeaveRun,
       Accept, AcceptClosed, AcceptFailed, AcceptStart, RegisterHttp,
       RegisterComms, EndHandler
  <2>2. Mine(w)' = c /\ frame'[w].packet = frame[w].packet
    BY <1>1, <2>1, CallbackLocal
  <2>3. CASE pc[w] = "read"
    <3>1. ReadData(w, Alive(Mine(w)))
      BY <1>1, <2>1, <2>3 DEF Callback, ConnectionStep, ReadExpired, ReadEnd,
         ReadError, SwapBuffers, TestReceiving, ArmRead, Respond,
         DisconnectInvalid, MarkTransmitting, LeaveReceive, WriteExpired,
         WriteDone, WriteFailed, UnmarkTransmitting, Disconnect,
         PendDisconnect, ShutSocket
    <3>2. pc'[w] = "received"
      BY <1>1, <3>1 DEF ReadData
    <3>3. QED
      BY <1>1, <2>2, <3>2 DEF Handling
  <2>4. CASE pc[w] = "swap"
    <3>1. SwapBuffers(w)
      BY <2>1, <2>4 DEF Callback, ConnectionStep, ReadExpired, ReadData,
         ReadEnd, ReadError, TestReceiving, ArmRead, Respond,
         DisconnectInvalid, MarkTransmitting, LeaveReceive, WriteExpired,
         WriteDone, WriteFailed, UnmarkTransmitting, Disconnect,
         PendDisconnect, ShutSocket
    <3>2. frame'[w].after = "parse"
      BY <1>1, <3>1 DEF SwapBuffers, Frames
    <3>3. QED
      BY <1>1, <2>2, <3>2 DEF Handling
  <2>5. CASE pc[w] \in {"enable", "arm"}
    <3>1. TestReceiving(w) \/ ArmRead(w)
      BY <2>1, <2>5 DEF Callback, ConnectionStep, ReadExpired, ReadData,
         ReadEnd, ReadError, SwapBuffers, Respond, DisconnectInvalid,
         MarkTransmitting, LeaveReceive, WriteExpired, WriteDone, WriteFailed,
         UnmarkTransmitting, Disconnect, PendDisconnect, ShutSocket
    <3>2. frame' = frame /\ frame[w].after = "parse"
      BY <2>5, <3>1 DEF TestReceiving, ArmRead, Handling
    <3>3. QED
      BY <1>1, <2>2, <3>2 DEF Handling
  <2>6. CASE pc[w] = "parse"
    <3>1. Respond(w)
      BY <2>1, <2>6 DEF Callback, ConnectionStep, ReadExpired, ReadData,
         ReadEnd, ReadError, SwapBuffers, TestReceiving, ArmRead,
         DisconnectInvalid, MarkTransmitting, LeaveReceive, WriteExpired,
         WriteDone, WriteFailed, UnmarkTransmitting, Disconnect,
         PendDisconnect, ShutSocket
    <3>2. pc'[w] = "start"
      BY <1>1, <2>6, <3>1 DEF Respond
    <3>3. QED
      BY <1>1, <2>2, <3>2 DEF Handling
  <2>7. QED
    BY <1>4, <2>3, <2>4, <2>5, <2>6
<1>5. CASE pc[w] = "start"
  <2>1. ~ Callback(w)
    BY <1>5 DEF Callback, ConnectionStep, ReadExpired, ReadData, ReadEnd,
       ReadError, SwapBuffers, TestReceiving, ArmRead, Respond,
       DisconnectInvalid, MarkTransmitting, LeaveReceive, WriteExpired,
       WriteDone, WriteFailed, UnmarkTransmitting, Disconnect, PendDisconnect,
       ShutSocket
  <2>2. QED
    BY <1>5, <2>1, EventKeeps, StopKeeps DEF Worker, Schedule, RunHandler,
       Dequeue, WaitForStrand, CallbackReturns, Leave, LeaveRun, Accept,
       AcceptClosed, AcceptFailed, AcceptStart, RegisterHttp, RegisterComms,
       EndHandler
<1>6. QED
  BY <1>2, <1>3, <1>4, <1>5

(* When a request is answered nothing is being sent. *)
LEMMA ParseFree ==
  ASSUME Typed, AcceptInv, SetInv, StrandInv, use_strand, NEW c \in Conns,
         NEW w \in Workers, pc[w] = "parse", Mine(w) = c, TrueFlags(c),
         OneRequest(c), Answering(c), Good(c)
  PROVE  ~ transmitting_[c]
<1>1. Handling(w, c)
  BY DEF Handling, Typed, FrameInv
<1>2. unsent[c] = {}
  BY <1>1 DEF OneRequest
<1>3. ~ Out(c)
  BY <1>1, <1>2 DEF Answering, Out
<1>4. ~ OwnerAt(c, {"write", "unmark", "shut"})
  <2>1. Owner(w, c)
    BY OwnsFrame
  <2>2. QED
    BY <2>1 DEF StrandInv, OwnerAt
<1>5. QED
  BY <1>3, <1>4, GoodLive DEF TrueFlags

(* A request that has no response is not lost. *)
LEMMA AnswerKept ==
  ASSUME Typed, AcceptInv, FreshInv, SetInv, StrandInv, use_strand,
         NEW w \in Workers, Worker(w), NEW c \in Conns, TrueFlags(c),
         OneRequest(c), Answering(c), Good(c), Good(c)',
         NEW packet \in Unanswered(c)'
  PROVE  \/ packet > asked'[c] - inbox'[c]
         \/ \E op \in Completed(c)' : op.kind = "read" /\ op.packet = packet
         \/ \E v \in Workers : Handling(v, c)' /\ frame'[v].packet = packet
         \/ packet \in unsent'[c]
<1>1. asked' = asked /\ inbox' = inbox /\ hungUp' = hungUp
  BY WorkerLocal, WorkerSplit, TakeDoes, DelayDoes, ReturnDoes, CallbackKeeps,
     WriteLocal, EventKeeps, StopKeeps DEF Inside, Leave, Accept,
        AcceptClosed, AcceptFailed, AcceptStart, RegisterHttp, RegisterComms
<1>2. Live(c) /\ Alive(c) /\ ~ Failing(c)
  BY GoodLive
<1>3. \/ ~ (StartWrite(w) /\ Mine(w) = c)
      \/ /\ Handling(w, c)
         /\ \/ /\ unsent'[c] = unsent[c]
               /\ answered'[c] = answered[c] \cup {frame[w].packet}
            \/ /\ unsent'[c] = unsent[c] \cup {frame[w].packet}
               /\ answered'[c] = answered[c]
  BY <1>2, StartHandles, WriteDoes DEF Good, Lost, Failing
<1>4. \/ /\ ~ (StartWrite(w) /\ Mine(w) = c)
         /\ unsent'[c] = unsent[c] /\ answered'[c] = answered[c]
      \/ StartWrite(w) /\ Mine(w) = c
  BY UnsentKept, WriteLocal
<1>5. packet \in Unanswered(c) /\ unsent[c] \subseteq unsent'[c]
  BY <1>1, <1>3, <1>4 DEF Unanswered
<1>6. CASE packet > asked[c] - inbox[c] \/ packet \in unsent[c]
  BY <1>1, <1>5, <1>6
<1>7. CASE \E op \in Completed(c) : op.kind = "read" /\ op.packet = packet
  <2>1. PICK op \in Completed(c) : op.kind = "read" /\ op.packet = packet
    BY <1>7
  <2>2. CASE \E other \in Completed(c)' : Same(op, other)
    BY <2>1, <2>2 DEF Same
  <2>3. CASE Take(w) /\ pc'[w] = op.kind /\ frame'[w] = Frame(op)
    <3>1. packet # 0 /\ op.conn = c
      BY <1>5, <2>1 DEF Unanswered, Completed
    <3>2. Handling(w, c)' /\ frame'[w].packet = packet
      BY <2>1, <2>3, <3>1 DEF Handling, Frame
    <3>3. QED
      BY <3>2
  <2>4. QED
    BY <2>1, <2>2, <2>3, OpsKept
<1>8. CASE \E v \in Workers : Handling(v, c) /\ frame[v].packet = packet
  <2>1. PICK v \in Workers : Handling(v, c) /\ frame[v].packet = packet
    BY <1>8
  <2>2. CASE v # w
    <3>1. Handling(v, c)' /\ frame'[v].packet = packet
      BY <2>1, <2>2, OthersKeep DEF Handling
    <3>2. QED
      BY <3>1
  <2>3. CASE v = w /\ StartWrite(w)
    <3>1. Mine(w) = c
      BY <2>1, <2>3 DEF Handling
    <3>2. packet \in unsent'[c] \/ packet \in answered'[c]
      BY <1>3, <2>1, <2>3, <3>1
    <3>3. QED
      BY <3>2 DEF Unanswered
  <2>4. CASE v = w /\ ~ StartWrite(w)
    <3>1. pc[w] = "parse" => ~ transmitting_[c]
      BY <2>1, <2>4, ParseFree DEF Handling
    <3>2. Handling(w, c)' /\ frame'[w].packet = packet
      BY <1>2, <2>1, <2>4, <3>1, HandlingStays
    <3>3. QED
      BY <3>2
  <2>5. QED
    BY <2>2, <2>3, <2>4
<1>9. QED
  BY <1>5, <1>6, <1>7, <1>8 DEF Answering

(* The steps of threads lose no request. *)
LEMMA AnswerWorker ==
  ASSUME Typed, AcceptInv, FreshInv, SetInv, StrandInv, use_strand,
         NEW w \in Workers, Worker(w), NEW c \in Conns, TrueFlags(c),
         OneRequest(c), Answering(c)
  PROVE  Answering(c)'
<1> SUFFICES ASSUME Good(c)'
             PROVE  Answering(c)'
  BY DEF Answering
<1>1. Good(c)
  BY GoodWorker
<1>2. ASSUME NEW packet \in Unanswered(c)'
      PROVE  \/ packet > asked'[c] - inbox'[c]
             \/ \E op \in Completed(c)' :
                  op.kind = "read" /\ op.packet = packet
             \/ \E v \in Workers : Handling(v, c)' /\ frame'[v].packet = packet
             \/ packet \in unsent'[c]
  BY <1>1, <1>2, AnswerKept
<1>3. ASSUME NEW op, NEW other, Precedes(c, op, other)', op.kind = "read",
             op.packet # 0, other.kind = "write"
      PROVE  FALSE
  <2>1. CASE \E first, second : /\ Precedes(c, first, second)
                                /\ Same(op, first) /\ Same(other, second)
    BY <1>1, <1>3, <2>1 DEF Answering, Same
  <2>2. CASE StartWrite(w) /\ c = Mine(w) /\ op \in Completed(c)
    <3>1. Handling(w, c)
      BY <2>2, StartHandles
    <3>2. Arrived(c)
      BY <1>3, <2>2 DEF Arrived
    <3>3. QED
      BY <3>1, <3>2 DEF OneRequest
  <2>3. QED
    BY <1>3, <2>1, <2>2, LineKept
<1>4. ASSUME NEW v \in Workers, Handling(v, c)', NEW op \in Completed(c)',
             op.kind = "write"
      PROVE  FALSE
  <2>1. CASE /\ Handling(v, c) /\ frame'[v].packet = frame[v].packet
             /\ v = w => ~ StartWrite(w)
    <3>1. ~ \E other \in Completed(c) : Same(op, other)
      BY <1>1, <1>4, <2>1 DEF Answering, Same
    <3>2. StartWrite(w) /\ c = Mine(w)
      BY <3>1, OpsFrom
    <3>3. Handling(w, c) /\ v # w
      BY <2>1, <3>2, StartHandles
    <3>4. QED
      BY <2>1, <3>3, Alone DEF Handling, Typed, FrameInv, ControlInv
  <2>2. CASE /\ v = w /\ Take(w) /\ opQueue[1] \in Completed(c)
             /\ opQueue[1].kind = "read" /\ opQueue[1].packet # 0
             /\ opQueue[1].conn = c
    <3>1. Precedes(c, opQueue[1], op)
      BY <2>2, TakenAhead
    <3>2. QED
      BY <1>1, <1>4, <2>2, <3>1 DEF Answering
  <2>3. QED
    BY <1>4, <2>1, <2>2, HandlingFrom
<1>5. QED
  BY <1>2, <1>3, <1>4 DEF Answering

(* Only a connection that is accepted becomes good. *)
LEMMA GoodOutside ==
  ASSUME Typed, Outside, NEW c \in Conns, Good(c)'
  PROVE  Good(c) \/ ClientConnect(c)
<1> SUFFICES ASSUME ~ ClientConnect(c)
             PROVE  Good(c)
  OBVIOUS
<1>1. UNCHANGED <<pc, frame, http_connections_, raced>>
  BY OutsideKeeps
<1>2. socket'[c] = socket[c] /\ (Lost(c) => Lost(c)')
  <2>1. CASE ReceiveSignal
    BY <2>1 DEF ReceiveSignal, Lost
  <2>2. ASSUME NEW d \in Conns,
               Client(d) \/ Reactor(d)
        PROVE  socket'[c] = socket[c] /\ (Lost(c) => Lost(c)')
    <3>1. CASE d # c
      BY <2>2, <3>1, OutsideLocal DEF Lost
    <3>2. CASE d = c
      BY <2>2, <3>2 DEF ClientAsk, ClientHangUp, Break, Client,
         Reactor, ReceivePacket, ReceiveEnd, ReceiveError, FinishWrite,
         FailWrite, EndWrite, Lost, Typed, ClientTypes
    <3>3. QED
      BY <3>1, <3>2
  <2>3. QED
    BY <2>1, <2>2 DEF Outside
<1>3. ASSUME NEW i \in DOMAIN opQueue', opQueue'[i].kind = "accept",
             opQueue'[i].conn = c
      PROVE  Accepting(c)
  <2>1. CASE opQueue' = opQueue
    BY <1>3, <2>1 DEF Accepting
  <2>2. CASE opQueue' # opQueue
    <3>1. PICK op \in QueuedOps :
            /\ opQueue' = Append(opQueue, op)
            /\ op.kind = "accept" => op.conn # c
      <4>1. ASSUME NEW d \in Conns, ClientConnect(d)
            PROVE  d # c
        BY <4>1
      <4>2. QED
        BY <2>2, <4>1, OutsideQueue
    <3>2. opQueue \in Seq(QueuedOps) /\ Len(opQueue) \in Nat
      BY DEF Typed, ThreadTypes
    <3>3. i \in 1 .. Len(opQueue) + 1
      BY <1>3, <3>1, <3>2
    <3>4. CASE i \in 1 .. Len(opQueue)
      <4>1. opQueue'[i] = opQueue[i] /\ i \in DOMAIN opQueue
        BY <3>1, <3>2, <3>4
      <4>2. QED
        BY <1>3, <4>1 DEF Accepting
    <3>5. CASE i = Len(opQueue) + 1
      <4>1. opQueue'[i] = op
        BY <3>1, <3>2, <3>5
      <4>2. QED
        BY <1>3, <3>1, <4>1
    <3>6. QED
      BY <3>2, <3>3, <3>4, <3>5
  <2>3. QED
    BY <2>1, <2>2
<1>4. Opening(c)' => Opening(c)
  BY <1>1, <1>3 DEF Opening, Accepting
<1>5. QED
  BY <1>1, <1>2, <1>4 DEF Good

(* A connection that was not accepted yet has no requests. *)
LEMMA AnswerConnect ==
  ASSUME Typed, FreshInv, NEW c \in Conns, ClientConnect(c), OneRequest(c)
  PROVE  Answering(c)'
<1>1. Outside
  BY DEF Outside, Client
<1>2. Clean(c) /\ asked[c] = 0
  BY DEF ClientConnect, Client, FreshInv
<1>3. UNCHANGED <<pc, frame, waiting, asked, answered>>
  BY DEF ClientConnect, Client
<1>4. Unanswered(c)' = {}
  BY <1>2, <1>3 DEF Unanswered
<1>5. \A op \in Completed(c) : op.kind = "accept"
  BY <1>2, CompletedTyped DEF Clean, ToSet, Completed
<1>6. \A op \in Completed(c)' : op.kind = "accept"
  <2>1. ~ (\/ ReceivePacket(c) \/ ReceiveEnd(c) \/ ReceiveError(c)
           \/ FinishWrite(c) \/ FailWrite(c))
    BY <1>2 DEF Clean, ReceivePacket, ReceiveEnd, ReceiveError, FinishWrite,
       FailWrite, EndWrite
  <2>2. QED
    BY <1>1, <1>5, <2>1, OpsOutside
<1>7. ASSUME NEW op, NEW other, Precedes(c, op, other)'
      PROVE  op.kind # "read"
  <2>1. Precedes(c, op, other) \/ op \in Completed(c)
    BY <1>1, <1>7, LineOutside
  <2>2. op \in Completed(c)
    BY <2>1, LinePlaced DEF Precedes
  <2>3. QED
    BY <1>5, <2>2
<1>8. QED
  BY <1>4, <1>6, <1>7 DEF Answering

(* Neither does the socket. *)
LEMMA AnswerOutside ==
  ASSUME Typed, AcceptInv, FreshInv, SetInv, Outside, Window = 1,
         NEW c \in Conns, OneRequest(c), Answering(c)
  PROVE  Answering(c)'
<1> SUFFICES ASSUME ~ ClientConnect(c), Good(c)'
             PROVE  Answering(c)'
  BY AnswerConnect DEF Answering
<1>1. Good(c) /\ ~ Failing(c)
  BY GoodOutside, GoodLive
<1>2. UNCHANGED <<pc, frame, waiting>>
  BY OutsideKeeps
<1>3. \A w \in Workers : Handling(w, c)' <=> Handling(w, c)
  BY <1>2 DEF Handling
<1>4. /\ asked \in [Conns -> 0..MaxRequests]
      /\ inbox \in [Conns -> 0..MaxRequests] /\ inbox[c] <= asked[c]
      /\ unsent \in [Conns -> SUBSET (1..MaxRequests)]
      /\ answered \in [Conns -> SUBSET (1..MaxRequests)]
  BY DEF Typed, ClientTypes, SocketTypes
<1>5. Completed(c) \subseteq Completed(c)' /\ ~ FailWrite(c)
  BY <1>1, OpsOutside DEF FailWrite, EndWrite, WriteEnds, Failing, Lost
<1>6. FinishWrite(c) =>
        ~ Arrived(c) /\ \A w \in Workers : ~ Handling(w, c)
  <2> SUFFICES ASSUME FinishWrite(c)
               PROVE  ~ Arrived(c) /\ \A w \in Workers : ~ Handling(w, c)
    OBVIOUS
  <2>1. unsent[c] # {}
    BY DEF FinishWrite
  <2>2. Unanswered(c) \ unsent[c] = {}
    BY <2>1 DEF OneRequest
  <2>3. QED
    BY <2>2 DEF OneRequest, Arrived
<1>7. ASSUME NEW packet \in Unanswered(c)'
      PROVE  \/ packet > asked'[c] - inbox'[c]
             \/ \E op \in Completed(c)' :
                  op.kind = "read" /\ op.packet = packet
             \/ \E v \in Workers : Handling(v, c)' /\ frame'[v].packet = packet
             \/ packet \in unsent'[c]
  <2>1. packet \in Unanswered(c) =>
          \/ packet > asked[c] - inbox[c]
          \/ \E op \in Completed(c)' :
               op.kind = "read" /\ op.packet = packet
          \/ \E v \in Workers : Handling(v, c)' /\ frame'[v].packet = packet
          \/ packet \in unsent[c]
    BY <1>1, <1>2, <1>3, <1>5 DEF Answering
  <2>2. CASE ReceivePacket(c)
    <3>1. /\ inbox[c] > 0
          /\ UNCHANGED <<asked, answered, unsent>>
      BY <2>2 DEF ReceivePacket
    <3>2. inbox[c] = 1 /\ asked[c] - inbox[c] + 1 = asked[c]
      BY <1>4, <3>1 DEF OneRequest
    <3>3. packet \in Unanswered(c) /\ packet \in 1 .. asked[c]
      BY <3>1 DEF Unanswered
    <3>4. CASE packet > asked[c] - inbox[c]
      <4>1. packet = asked[c]
        BY <1>4, <3>2, <3>3, <3>4
      <4>2. QED
        BY <2>2, <3>2, <4>1, PacketOf
    <3>5. QED
      BY <2>1, <3>1, <3>3, <3>4
  <2>3. CASE FinishWrite(c)
    <3>1. PICK done \in unsent[c] :
            /\ unsent'[c] = unsent[c] \ {done}
            /\ answered'[c] = answered[c] \cup {done}
            /\ asked' = asked /\ inbox' = inbox
      BY <1>4, <2>3 DEF FinishWrite
    <3>2. packet \in Unanswered(c) /\ packet # done
      BY <3>1 DEF Unanswered
    <3>3. QED
      BY <2>1, <3>1, <3>2
  <2>4. CASE ClientAsk(c)
    <3>1. /\ asked'[c] = asked[c] + 1 /\ inbox'[c] = inbox[c] + 1
          /\ UNCHANGED <<answered, unsent>>
      BY <1>4, <2>4 DEF ClientAsk
    <3>2. Unanswered(c) = {}
      BY <2>4, AsksAlone
    <3>3. packet \in 1 .. asked[c] + 1 /\ packet \notin 1 .. asked[c]
      BY <3>1, <3>2 DEF Unanswered
    <3>4. asked[c] \in Nat /\ inbox[c] \in Nat
      BY <1>4
    <3>5. packet > asked'[c] - inbox'[c]
      BY <3>1, <3>3, <3>4
    <3>6. QED
      BY <3>5
  <2>5. CASE ~ (ReceivePacket(c) \/ FinishWrite(c) \/ ClientAsk(c))
    <3>1. /\ asked'[c] = asked[c] /\ answered'[c] = answered[c]
          /\ unsent'[c] = unsent[c] /\ inbox'[c] = inbox[c]
      <4>1. CASE ReceiveSignal
        BY <4>1 DEF ReceiveSignal
      <4>2. ASSUME NEW d \in Conns,
                   Client(d) \/ Reactor(d)
            PROVE  /\ asked'[c] = asked[c] /\ answered'[c] = answered[c]
                   /\ unsent'[c] = unsent[c] /\ inbox'[c] = inbox[c]
        <5>1. CASE d # c
          BY <4>2, <5>1, OutsideLocal
        <5>2. CASE d = c
          BY <1>5, <2>5, <4>2, <5>2 DEF Reactor, ReceiveEnd, ReceiveError,
             ClientHangUp, Break, Client
        <5>3. QED
          BY <5>1, <5>2
      <4>3. QED
        BY <4>1, <4>2 DEF Outside
    <3>2. packet \in Unanswered(c)
      BY <3>1 DEF Unanswered
    <3>3. QED
      BY <2>1, <3>1, <3>2
  <2>6. QED
    BY <2>2, <2>3, <2>4, <2>5
<1>8. ASSUME NEW op, NEW other, Precedes(c, op, other)', op.kind = "read",
             op.packet # 0, other.kind = "write"
      PROVE  FALSE
  <2>1. CASE Precedes(c, op, other)
    BY <1>1, <1>8, <2>1 DEF Answering
  <2>2. CASE op \in Completed(c) /\ FinishWrite(c)
    BY <1>6, <1>8, <2>2 DEF Arrived
  <2>3. QED
    BY <1>5, <1>8, <2>1, <2>2, LineOutside
<1>9. ASSUME NEW v \in Workers, Handling(v, c)', NEW op \in Completed(c)',
             op.kind = "write"
      PROVE  FALSE
  <2>1. Handling(v, c)
    BY <1>3, <1>9
  <2>2. op \notin Completed(c)
    BY <1>1, <1>9, <2>1 DEF Answering
  <2>3. FinishWrite(c)
    BY <1>5, <1>9, <2>2, OpsOutside
  <2>4. QED
    BY <1>6, <2>1, <2>3
<1>10. QED
  BY <1>7, <1>8, <1>9 DEF Answering

(* With a strand no request of a client that waits is lost. *)
LEMMA AnswerNext ==
  ASSUME Typed, AcceptInv, FreshInv, SetInv, StrandInv, TransmitInv,
         RequestInv, AnswerInv, [Next]_vars
  PROVE  AnswerInv'
<1>1. use_strand' = use_strand
  BY StrandStays
<1>2. CASE \E w \in Workers : Worker(w)
  BY <1>1, <1>2, AnswerWorker DEF TransmitInv, RequestInv, AnswerInv
<1>3. CASE Outside
  BY <1>1, <1>3, AnswerOutside DEF RequestInv, AnswerInv
<1>4. CASE UNCHANGED vars
  <2>1. \A c \in Conns : Answering(c) => Answering(c)'
    BY <1>4 DEF Answering, Good, Lost, Opening, Accepting, Unanswered,
       Completed,
       Handling, Precedes, Placed
  <2>2. QED
    BY <1>1, <2>1 DEF AnswerInv
<1>5. QED
  BY <1>2, <1>3, <1>4 DEF Next, Outside

-----------------------------------------------------------------------------
(* Theorems about the strand *)

(* What holds of a connection with a strand, with the rest of the server.  *)
StrandedInv ==
  /\ ServerInv /\ StrandInv /\ ReadInv /\ BufferInv /\ TransmitInv
  /\ RequestInv /\ AnswerInv

(* No connection has been accepted at the start. *)
LEMMA StrandedInit == Init => StrandedInv
<1> SUFFICES ASSUME Init
             PROVE  StrandedInv
  OBVIOUS
<1>1. ServerInv
  BY ServerInit
<1>2. /\ opQueue = << >> /\ \A c \in Conns : waiting[c] = << >>
      /\ \A w \in Workers : pc[w] = "run" /\ frame[w] = NoFrame
  BY DEF Init, IoInit, ConnectionInit
<1>3. \A c \in Conns : Completed(c) = {}
  BY <1>2 DEF Completed, ToSet
<1>4. /\ \A w \in Workers, c \in Conns :
           Mine(w) # c /\ ~ Owner(w, c) /\ ~ Handling(w, c)
      /\ \A c \in Conns : \A op, other : ~ Precedes(c, op, other)
  <2>1. \A w \in Workers : Mine(w) = NoConn
    BY <1>2 DEF NoFrame, Frame, Op
  <2>2. \A c \in Conns, p \in Nat : \A op : ~ Placed(c, p, op)
    BY <1>2 DEF Placed
  <2>3. QED
    BY <2>1, <2>2 DEF Owner, Handling, Precedes
<1>5. \A c \in Conns :
        /\ reads[c] = << >> /\ ~ receiving_[c] /\ ~ transmitting_[c]
        /\ ~ disconnect_pending_[c] /\ unsent[c] = {} /\ asked[c] = 0
        /\ answered[c] = {} /\ inbox[c] = 0
  BY DEF Init, ConnectionInit
<1>6. StrandInv
  BY <1>2, <1>4 DEF StrandInv
<1>7. ReadInv
  BY <1>2, <1>3, <1>4, <1>5 DEF ReadInv, OneRead, Delivered, InRead
<1>8. BufferInv
  BY <1>3, <1>4, <1>5 DEF BufferInv, RightBuffer
<1>9. TransmitInv
  BY <1>3, <1>4, <1>5 DEF TransmitInv, TrueFlags
<1>10. \A c \in Conns : Unanswered(c) = {}
  BY <1>5 DEF Unanswered
<1>11. RequestInv
  BY <1>3, <1>4, <1>5, <1>10 DEF RequestInv, OneRequest
<1>12. AnswerInv
  BY <1>3, <1>4, <1>10 DEF AnswerInv, Answering
<1>13. QED
  BY <1>1, <1>6, <1>7, <1>8, <1>9, <1>11, <1>12 DEF StrandedInv

(* The invariants about the strand are inductive together. *)
LEMMA StrandedNext == StrandedInv /\ [Next]_vars => StrandedInv'
<1> SUFFICES ASSUME StrandedInv, [Next]_vars
             PROVE  StrandedInv'
  OBVIOUS
<1>1. /\ Typed /\ AcceptInv /\ FreshInv /\ ShutInv /\ SetInv
      /\ StrandInv /\ ReadInv /\ BufferInv /\ TransmitInv
      /\ RequestInv /\ AnswerInv
  BY DEF StrandedInv, ServerInv
<1>2. ServerInv'
  BY ServerNext DEF StrandedInv
<1>3. StrandInv' /\ ReadInv'
  BY <1>1, StrandNext, ReadNext
<1>4. BufferInv'
  BY <1>1, BufferNext
<1>5. TransmitInv'
  BY <1>1, TransmitNext
<1>6. RequestInv' /\ AnswerInv'
  BY <1>1, RequestNext, AnswerNext
<1>7. QED
  BY <1>2, <1>3, <1>4, <1>5, <1>6 DEF StrandedInv

(* With a strand the callbacks of a connection exclude each other, there   *)
(* is one read at a time, the packet that was received stays where the     *)
(* parser looks for it, and the flags of the transmitter are true          *)
(* (comms/connection.hpp with use_strand).                                 *)
THEOREM StrandInductive == Spec => []StrandedInv
<1>1. Init => StrandedInv
  BY StrandedInit
<1>2. StrandedInv /\ [Next]_vars => StrandedInv'
  BY StrandedNext
<1>3. QED
  BY <1>1, <1>2, PTL DEF Spec

(* What the invariants say about the flags, buffers and reads. *)
LEMMA StrandedProtects == StrandedInv => StrandProtects
<1> SUFFICES ASSUME StrandedInv, use_strand
             PROVE  StrandProtects
  BY DEF StrandProtects
<1>1. /\ Typed /\ ReadInv /\ BufferInv /\ TransmitInv
  BY DEF StrandedInv, ServerInv
<1>2. ASSUME NEW c \in Conns, NEW labels, OwnerAt(c, labels),
             labels \subseteq {"write", "unmark", "shut"}
      PROVE  Writing(c)
  BY <1>2 DEF OwnerAt, Owner, Writing, Busy
<1>3. ASSUME NEW c \in Conns, Out(c)
      PROVE  Writing(c)
  BY <1>3 DEF Out, Completed, Pending, Writing
<1>4. ASSUME NEW c \in Conns, Served(c), ~ Lost(c)
      PROVE  Live(c)
  BY <1>4 DEF Served, Live
<1>5. TransmittingMeansWriting
  <2> SUFFICES ASSUME NEW c \in Conns, transmitting_[c], Served(c),
                      ~ Lost(c)
               PROVE  Writing(c)
    BY DEF TransmittingMeansWriting
  <2>1. Out(c) \/ OwnerAt(c, {"write", "unmark", "shut"})
    BY <1>1, <1>4 DEF TransmitInv, TrueFlags
  <2>2. QED
    BY <1>2, <1>3, <2>1
<1>6. ASSUME NEW c \in Conns, disconnect_pending_[c], Served(c), ~ Lost(c),
             ~ shutting_down_
      PROVE  Writing(c)
  <2>1. Out(c) \/ OwnerAt(c, {"write", "shut"})
    BY <1>1, <1>4, <1>6 DEF TransmitInv, TrueFlags
  <2>2. QED
    BY <1>2, <1>3, <2>1
<1>7. \A c \in Conns : Len(reads[c]) <= 1
  BY <1>1 DEF ReadInv, OneRead
<1>8. ASSUME NEW w \in At({"parse"})
      PROVE  buffers[Mine(w)][3 - front[Mine(w)]] = frame[w].packet
  <2>1. /\ pc[w] = "parse" /\ FrameInv(w) /\ frame[w] \in Frames
        /\ w \in Workers
    BY <1>1, <1>8 DEF Typed, ThreadTypes
  <2>2. Mine(w) \in Conns /\ frame[w].after = "parse"
    BY <2>1 DEF FrameInv, ControlInv, Frames
  <2>3. QED
    BY <1>1, <2>1, <2>2 DEF BufferInv, RightBuffer
<1>9. QED
  BY <1>5, <1>6, <1>7, <1>8 DEF StrandProtects

(* With a strand the transmitter's flag, the pending disconnect, the       *)
(* parser's buffer and the reads are as the comments of connection.hpp     *)
(* say, for any number of threads, connections and requests.               *)
THEOREM StrandSafe == Spec => []StrandProtects
<1>1. StrandedInv => StrandProtects
  BY StrandedProtects
<1>2. QED
  BY <1>1, StrandInductive, PTL

(* What they say about a connection that is at rest. *)
LEMMA StrandedAnswers ==
  ASSUME Window = 1, StrandedInv
  PROVE  StrandAnswers
<1> SUFFICES ASSUME use_strand, NEW c \in Conns, Served(c), Idle(c),
                    inbox[c] = 0, unsent[c] = {}, ~ Lost(c), ~ raced[c]
             PROVE  answered[c] = 1 .. asked[c]
  BY DEF StrandAnswers
<1>1. /\ OneRequest(c) /\ Answering(c) /\ asked[c] \in Nat
  BY DEF StrandedInv, ServerInv, RequestInv, AnswerInv, Typed, ClientTypes
<1>2. Good(c)
  BY DEF Served, Good
<1>3. /\ Completed(c) = {} /\ \A w \in Workers : ~ Handling(w, c)
  BY DEF Idle, Completed, Handling
<1>4. \A packet \in Unanswered(c) : packet > asked[c] - inbox[c]
  BY <1>1, <1>2, <1>3 DEF Answering
<1>5. Unanswered(c) = {}
  BY <1>1, <1>4 DEF Unanswered
<1>6. QED
  BY <1>1, <1>5 DEF OneRequest, Unanswered

(* With a strand, a client that waits for each response before it sends    *)
(* its next request gets an answer to every one of them: send_data never   *)
(* finds transmitting_ still set by the response before.                   *)
THEOREM AnswersComplete ==
  ASSUME Window = 1
  PROVE  Spec => []StrandAnswers
<1>1. StrandedInv => StrandAnswers
  BY StrandedAnswers
<1>2. QED
  BY <1>1, StrandInductive, PTL
=============================================================================
