----------------------- MODULE CaptureServer_proofs -----------------------
(***************************************************************************)
(* Proofs about CaptureServer, for any number of threads, any size of the  *)
(* ring, any limit and any number of pictures and requests: its types, the *)
(* order of captures and saves, which pictures are in the ring, in the     *)
(* saves and in the responses, and that it implements PictureLedger.       *)
(***************************************************************************)
EXTENDS CaptureServer, FiniteSetTheorems, TLAPS

(* The remainder modulo the size of the ring is a slot. *)
LEMMA RemainderIsSlot ==
  ASSUME NEW n \in Int
  PROVE  (n % Word) % MaxSize \in Slots
<1>1. n % Word \in Nat
  BY SizeAssumption
<1>2. QED
  BY <1>1, SizeAssumption DEF Slots

LEMMA ZeroIsSlot == 0 \in Slots
BY SizeAssumption DEF Slots

-----------------------------------------------------------------------------
(* Types *)

LEMMA TypeInit == Init => TypeOK
<1>1. SUFFICES ASSUME Init PROVE TypeOK
  OBVIOUS
<1>2. At(SavePcs) = {}
  BY <1>1 DEF Init, IoInit, At, SavePcs
<1>3. local \in [Workers -> [arg : Int, pic : Nat, next : Slots,
                             buffer : Nat, seen : Int]]
  BY <1>1, ZeroIsSlot DEF Init, NoLocals, Locals
<1>4. curImg \in Slots /\ currentCount \in 0 .. MaxSize
  BY <1>1, ZeroIsSlot, SizeAssumption DEF Init
<1>5. opQueue \in Seq(Ops)
  BY <1>1 DEF Init, IoInit
<1>6. pc \in [Workers -> Pcs]
  BY <1>1 DEF Init, IoInit, Pcs
<1>7. QED
  BY <1>1, <1>2, <1>3, <1>4, <1>5, <1>6 DEF Init, IoInit, TypeOK

(* The locals of a thread and its label stay well typed when one of them   *)
(* is assigned a value of its type.                                        *)
LEMMA TypeStart ==
  ASSUME TypeOK, NEW w \in Workers, StartHandler(w)
  PROVE  TypeOK'
<1> DEFINE head == Head(opQueue)
<1>1. opQueue \in Seq(Ops) /\ opQueue # << >>
  BY DEF TypeOK, StartHandler, Dequeue
<1>2. head \in Ops /\ Tail(opQueue) \in Seq(Ops)
  BY <1>1
<1>3. head.arg \in Int /\ head.pic \in Nat
      /\ (head.kind = "save" => head.arg \in Slots)
      /\ head.kind \in {"capture", "request", "stop", "save"}
  BY <1>2, SizeAssumption DEF Ops, Slots
<1>4. pc' = [pc EXCEPT ![w] = head.kind] /\ opQueue' = Tail(opQueue)
  BY DEF StartHandler, Dequeue
<1>5. pc' \in [Workers -> Pcs]
  BY <1>3, <1>4 DEF TypeOK, Pcs, CapturePcs, SavePcs, RequestPcs
<1>6. local' = [local EXCEPT ![w] = Locals(head.arg, head.pic)]
  BY DEF StartHandler
<1>7. Locals(head.arg, head.pic)
        \in [arg : Int, pic : Nat, next : Slots, buffer : Nat, seen : Int]
  BY <1>3, ZeroIsSlot DEF Locals
<1>8. local' \in [Workers -> [arg : Int, pic : Nat, next : Slots,
                              buffer : Nat, seen : Int]]
  BY <1>6, <1>7 DEF TypeOK
<1>9. ASSUME NEW v \in Workers, pc'[v] \in SavePcs
      PROVE  local'[v].arg \in Slots
  <2>1. CASE v = w
    BY <1>3, <1>4, <1>6, <1>9, <2>1 DEF TypeOK, SavePcs, Locals
  <2>2. CASE v # w
    BY <1>4, <1>6, <1>9, <2>2 DEF TypeOK, At
  <2>3. QED
    BY <2>1, <2>2
<1>10. QED
  BY <1>2, <1>4, <1>5, <1>8, <1>9
     DEF TypeOK, At, StartHandler, Dequeue, ringVars, saveVars,
         requestVars, quitVars

LEMMA TypeEnd ==
  ASSUME TypeOK, NEW w \in Workers, NEW from, EndHandler(w, from)
  PROVE  /\ pc' \in [Workers -> Pcs]
         /\ local' \in [Workers -> [arg : Int, pic : Nat, next : Slots,
                                    buffer : Nat, seen : Int]]
         /\ \A v \in At(SavePcs)' : local'[v].arg \in Slots
<1>1. NoLocals \in [arg : Int, pic : Nat, next : Slots, buffer : Nat,
                    seen : Int]
  BY ZeroIsSlot DEF NoLocals, Locals
<1>2. QED
  BY <1>1 DEF TypeOK, EndHandler, Goto, At, Pcs, SavePcs

LEMMA TypeNext == TypeOK /\ [Next]_vars => TypeOK'
<1> SUFFICES ASSUME TypeOK, [Next]_vars PROVE TypeOK'
  OBVIOUS
<1> USE DEF ringVars, saveVars, requestVars, quitVars
<1>1. CASE Expire
  <2>1. Op("capture", 0, 0) \in Ops
    BY DEF Op, Ops
  <2>2. opQueue' \in Seq(Ops)
    BY <1>1, <2>1 DEF TypeOK, Expire, Enqueue
  <2>3. UNCHANGED <<stopped, pc, quitVars, local, taken, ringVars, saveVars,
                    requestVars>> /\ armed' = FALSE
    BY <1>1 DEF Expire
  <2>4. QED
    BY <2>2, <2>3 DEF TypeOK, At
<1>2. CASE ReceiveRequest
  BY <1>2, RequestAssumption
     DEF TypeOK, ReceiveRequest, Enqueue, Op, Ops, At
<1>3. CASE ReceiveSignal
  BY <1>3 DEF TypeOK, ReceiveSignal, Enqueue, Op, Ops, At
<1>4. ASSUME NEW w \in Workers, StartHandler(w) PROVE TypeOK'
  BY <1>4, TypeStart
<1>5. ASSUME NEW w \in Workers, Capture(w) PROVE TypeOK'
  <2> USE DEF TypeOK, Goto, At, Pcs, CapturePcs, Capturing, SavePcs
  <2>1. CASE CaptureQuit(w)
    BY <2>1, TypeEnd DEF CaptureQuit
  <2>2. CASE CaptureBegin(w)
    BY <2>2 DEF CaptureBegin
  <2>3. CASE Grab(w)
    <3>1. taken + 1 \in Nat
      OBVIOUS
    <3>2. QED
      BY <2>3, <3>1 DEF Grab
  <2>4. CASE Store(w)
    BY <2>4 DEF Store
  <2>5. CASE Count(w)
    BY <2>5 DEF Count
  <2>6. CASE PostSave(w)
    <3>1. Op("save", local[w].next, local[w].buffer) \in Ops
      BY DEF Op, Ops
    <3>2. opQueue' \in Seq(Ops)
      BY <2>6, <3>1 DEF PostSave, Enqueue
    <3>3. /\ Goto(w, "post", "bump")
          /\ UNCHANGED <<stopped, quitVars, armed, local, taken, ringVars,
                         saveVars, requestVars>>
      BY <2>6 DEF PostSave
    <3>4. QED
      BY <3>2, <3>3
  <2>7. CASE DropSave(w)
    <3>1. pending_count - 1 \in Int /\ {local[w].buffer} \subseteq Nat
      OBVIOUS
    <3>2. QED
      BY <2>7, <3>1 DEF DropSave
  <2>8. CASE BumpCurrentCount(w)
    <3>1. currentCount' \in 0 .. MaxSize
      BY <2>8, SizeAssumption DEF BumpCurrentCount
    <3>2. /\ Goto(w, "bump", "advance")
          /\ UNCHANGED <<opQueue, stopped, quitVars, armed, local, taken,
                         curImg, imagebuffers, saveVars, requestVars>>
      BY <2>8 DEF BumpCurrentCount
    <3>3. QED
      BY <3>1, <3>2
  <2>9. CASE AdvanceCurImg(w)
    <3>1. curImg + 1 \in Int
      BY SizeAssumption DEF Slots
    <3>2. curImg' \in Slots
      BY <2>9, <3>1, RemainderIsSlot DEF AdvanceCurImg
    <3>3. QED
      BY <2>9, <3>2 DEF AdvanceCurImg
  <2>10. CASE Rearm(w)
    BY <2>10, TypeEnd DEF Rearm
  <2>11. QED
    BY <1>5, <2>1, <2>2, <2>3, <2>4, <2>5, <2>6, <2>7, <2>8, <2>9, <2>10
       DEF Capture
<1>6. ASSUME NEW w \in Workers, Save(w) PROVE TypeOK'
  <2> USE DEF TypeOK, Goto, At, Pcs, SavePcs
  <2>1. CASE SaveCopy(w)
    BY <2>1 DEF SaveCopy
  <2>2. CASE SaveWrite(w)
    BY <2>2 DEF SaveWrite
  <2>3. CASE SaveEnd(w)
    <3>1. pending_count - 1 \in Int
      OBVIOUS
    <3>2. QED
      BY <2>3, <3>1, TypeEnd DEF SaveEnd
  <2>4. QED
    BY <1>6, <2>1, <2>2, <2>3 DEF Save
<1>7. ASSUME NEW w \in Workers, Request(w) PROVE TypeOK'
  <2> USE DEF TypeOK, Goto, At, Pcs, RequestPcs, SavePcs
  <2>1. CASE CompareCount(w)
    BY <2>1 DEF CompareCount
  <2>2. CASE CompareSize(w)
    BY <2>2 DEF CompareSize
  <2>3. CASE Clamp(w)
    <3>1. currentCount - 1 \in Int
      BY SizeAssumption
    <3>2. QED
      BY <2>3, <3>1 DEF Clamp
  <2>4. CASE ReadIndex(w)
    <3> DEFINE difference == curImg - 1 - local[w].arg
    <3>a. difference \in Int
      BY SizeAssumption DEF Slots
    <3> HIDE DEF difference
    <3>b. (difference % Word) % MaxSize \in Slots
      BY <3>a, RemainderIsSlot
    <3>1. RingIndex(curImg, local[w].arg) \in Slots
      BY <3>b DEF RingIndex, difference
    <3>2. Accounted \in Int
      BY DEF Accounted
    <3>3. /\ Goto(w, "index", "copy")
          /\ local' =
               [local EXCEPT ![w].next = RingIndex(curImg, local[w].arg),
                             ![w].seen = Accounted]
          /\ UNCHANGED <<opQueue, stopped, quitVars, armed, taken, ringVars,
                         saveVars, requestVars>>
      BY <2>4 DEF ReadIndex
    <3>4. local' \in [Workers -> [arg : Int, pic : Nat, next : Slots,
                                  buffer : Nat, seen : Int]]
      BY <3>1, <3>2, <3>3
    <3>5. \A v \in Workers : local'[v].arg = local[v].arg
      BY <3>3
    <3>6. QED
      BY <3>3, <3>4, <3>5
  <2>5. CASE CopyImage(w)
    BY <2>5 DEF CopyImage
  <2>6. CASE Respond(w)
    <3>1. answered + 1 \in Nat
      OBVIOUS
    <3>2. QED
      BY <2>6, <3>1, TypeEnd DEF Respond
  <2>7. QED
    BY <1>7, <2>1, <2>2, <2>3, <2>4, <2>5, <2>6 DEF Request
<1>8. ASSUME NEW w \in Workers, Stop(w) PROVE TypeOK'
  <2>1. CASE StopCapture(w)
    BY <2>1 DEF StopCapture, TypeOK, Goto, At, Pcs, SavePcs
  <2>2. CASE StopService(w)
    BY <2>2, TypeEnd DEF StopService, StopIo, TypeOK
  <2>3. QED
    BY <1>8, <2>1, <2>2 DEF Stop
<1>9. ASSUME NEW w \in Workers, Leave(w) PROVE TypeOK'
  BY <1>9 DEF Leave, LeaveRun, TypeOK, Goto, At, Pcs, SavePcs
<1>10. CASE UNCHANGED vars
  BY <1>10 DEF TypeOK, vars, At
<1>11. QED
  BY <1>1, <1>2, <1>3, <1>4, <1>5, <1>6, <1>7, <1>8, <1>9, <1>10
     DEF Next, Worker, Terminated

(* Every variable of the capture server keeps its type. *)
THEOREM TypeCorrect == Spec => []TypeOK
BY TypeInit, TypeNext, PTL DEF Spec

-----------------------------------------------------------------------------
(* The capture token and the order of saves and captures in the queue      *)

Queued(kind) == {i \in DOMAIN opQueue : opQueue[i].kind = kind}

BeforePost == {"capture", "grab", "store", "count", "post", "drop"}

(* The capture is in one place: in the timer, in the queue or on a thread. *)
TokenInv ==
  /\ \A i, j \in Queued("capture") : i = j
  /\ \A v, w \in At(CapturePcs) : v = w
  /\ Queued("capture") # {} => ~ armed /\ At(CapturePcs) = {}
  /\ At(CapturePcs) # {} => ~ armed

(* At most one save is queued, ahead of the next capture; none is while a  *)
(* capture has not reached its post; and while one is, some thread is not  *)
(* saving, the one that posted it or one that became free since.           *)
OrderInv ==
  /\ \A i, j \in Queued("save") : i = j
  /\ \A i \in Queued("save"), j \in Queued("capture") : i < j
  /\ At(BeforePost) # {} => Queued("save") = {}
  /\ Queued("save") # {} => \E w \in Workers : pc[w] \notin SavePcs

(* A step of a handler that neither posts nor rearms: the thread stays     *)
(* within its handler or returns from it.                                  *)
QuietMove(w) ==
  /\ UNCHANGED <<opQueue, armed>>
  /\ \E from, to \in Pcs :
       /\ Goto(w, from, to)
       /\ to \in CapturePcs => from \in CapturePcs
       /\ to \in BeforePost => from \in BeforePost
       /\ to \in SavePcs => from \in SavePcs

LEMMA CaptureShape ==
  ASSUME NEW w \in Workers, Capture(w)
  PROVE  QuietMove(w) \/ PostSave(w) \/ Rearm(w)
<1> USE DEF QuietMove, EndHandler, Pcs, CapturePcs, Capturing, BeforePost,
            SavePcs
<1>1. CASE CaptureQuit(w)
  BY <1>1 DEF CaptureQuit
<1>2. CASE CaptureBegin(w)
  BY <1>2 DEF CaptureBegin
<1>3. CASE Grab(w)
  BY <1>3 DEF Grab
<1>4. CASE Store(w)
  BY <1>4 DEF Store
<1>5. CASE Count(w)
  <2>1. UNCHANGED <<opQueue, armed>>
        /\ \E to \in {"post", "drop"} : Goto(w, "count", to)
    BY <1>5 DEF Count
  <2>2. QED
    BY <2>1
<1>6. CASE DropSave(w)
  BY <1>6 DEF DropSave
<1>7. CASE BumpCurrentCount(w)
  BY <1>7 DEF BumpCurrentCount
<1>8. CASE AdvanceCurImg(w)
  BY <1>8 DEF AdvanceCurImg
<1>9. QED
  BY <1>1, <1>2, <1>3, <1>4, <1>5, <1>6, <1>7, <1>8 DEF Capture

LEMMA OtherShape ==
  ASSUME NEW w \in Workers,
         Save(w) \/ Request(w) \/ Stop(w) \/ Leave(w)
  PROVE  QuietMove(w)
<1> USE DEF QuietMove, EndHandler, Pcs, CapturePcs, Capturing, BeforePost,
            SavePcs, RequestPcs
<1>1. CASE Save(w)
  BY <1>1 DEF Save, SaveCopy, SaveWrite, SaveEnd
<1>2. CASE Request(w)
  <2>1. CASE CompareCount(w)
    <3>1. UNCHANGED <<opQueue, armed>>
          /\ \E to \in {"compareSize", "index"} : Goto(w, "request", to)
      BY <2>1 DEF CompareCount
    <3>2. QED
      BY <3>1
  <2>2. CASE CompareSize(w)
    <3>1. UNCHANGED <<opQueue, armed>>
          /\ \E to \in {"clamp", "index"} : Goto(w, "compareSize", to)
      BY <2>2 DEF CompareSize
    <3>2. QED
      BY <3>1
  <2>3. QED
    BY <1>2, <2>1, <2>2 DEF Request, Clamp, ReadIndex, CopyImage, Respond
<1>3. CASE Stop(w)
  BY <1>3 DEF Stop, StopCapture, StopService
<1>4. CASE Leave(w)
  BY <1>4 DEF Leave, LeaveRun
<1>5. QED
  BY <1>1, <1>2, <1>3, <1>4

(* Both invariants hold at first. *)
LEMMA OrderInit == Init => TokenInv /\ OrderInv
BY DEF Init, IoInit, TokenInv, OrderInv, Queued, At, CapturePcs, Capturing,
       BeforePost

LEMMA OrderAppend ==
  ASSUME TypeOK, TokenInv, OrderInv, NEW op \in Ops,
         opQueue' = Append(opQueue, op), UNCHANGED pc,
         op.kind = "capture" => armed /\ ~ armed',
         op.kind # "capture" => UNCHANGED armed,
         op.kind # "save"
  PROVE  TokenInv' /\ OrderInv'
<1>1. DOMAIN opQueue' = 1 .. Len(opQueue) + 1
      /\ DOMAIN opQueue = 1 .. Len(opQueue) /\ Len(opQueue) \in Nat
      /\ opQueue'[Len(opQueue) + 1] = op
      /\ \A i \in 1 .. Len(opQueue) : opQueue'[i] = opQueue[i]
  BY DEF TypeOK
<1>2. Queued("save")' = Queued("save")
  BY <1>1 DEF Queued
<1>3. At(CapturePcs)' = At(CapturePcs) /\ At(BeforePost)' = At(BeforePost)
  BY DEF At
<1>4. CASE op.kind = "capture"
  <2>1. Queued("capture") = {} /\ At(CapturePcs) = {}
    BY <1>4 DEF TokenInv
  <2>2. Queued("capture")' = {Len(opQueue) + 1}
    BY <1>1, <1>4, <2>1 DEF Queued
  <2>3. \A i \in Queued("save") : i < Len(opQueue) + 1
    BY <1>1 DEF Queued
  <2>4. QED
    BY <1>2, <1>3, <1>4, <2>1, <2>2, <2>3 DEF TokenInv, OrderInv
<1>5. CASE op.kind # "capture"
  <2>1. Queued("capture")' = Queued("capture")
    BY <1>1, <1>5 DEF Queued
  <2>2. QED
    BY <1>2, <1>3, <1>5, <2>1 DEF TokenInv, OrderInv
<1>6. QED
  BY <1>4, <1>5

LEMMA OrderStart ==
  ASSUME TypeOK, TokenInv, OrderInv, NEW w \in Workers, StartHandler(w)
  PROVE  TokenInv' /\ OrderInv'
<1> DEFINE kind == Head(opQueue).kind
<1>1. /\ pc[w] = "run" /\ opQueue # << >> /\ opQueue' = Tail(opQueue)
      /\ pc' = [pc EXCEPT ![w] = kind] /\ UNCHANGED armed
  BY DEF StartHandler, Dequeue
<1>2. /\ Len(opQueue) \in Nat \ {0} /\ DOMAIN opQueue = 1 .. Len(opQueue)
      /\ DOMAIN opQueue' = 1 .. Len(opQueue) - 1
      /\ \A i \in 1 .. Len(opQueue) - 1 : opQueue'[i] = opQueue[i + 1]
      /\ kind = opQueue[1].kind
  BY <1>1 DEF TypeOK
<1>3. /\ \A i \in Queued("capture")' :
           i + 1 \in Queued("capture") /\ i \in Nat \ {0}
      /\ \A i \in Queued("save")' :
           i + 1 \in Queued("save") /\ i \in Nat \ {0}
  BY <1>2 DEF Queued
<1>4. /\ kind = "capture" => 1 \in Queued("capture")
      /\ kind = "save" => 1 \in Queued("save")
  BY <1>2 DEF Queued
<1>5. /\ kind = "capture" => Queued("capture")' = {}
      /\ kind = "save" => Queued("save")' = {}
  <2>1. ASSUME NEW i \in Queued("capture")', kind = "capture" PROVE FALSE
    BY <1>3, <1>4, <2>1 DEF TokenInv
  <2>2. ASSUME NEW i \in Queued("save")', kind = "save" PROVE FALSE
    BY <1>3, <1>4, <2>2 DEF OrderInv
  <2>3. QED
    BY <2>1, <2>2
<1>6. kind \in {"capture", "request", "stop", "save"}
  BY <1>2 DEF TypeOK, Ops
<1>7. /\ kind # "capture" => At(CapturePcs)' = At(CapturePcs)
      /\ kind # "capture" => At(BeforePost)' = At(BeforePost)
      /\ kind = "capture" => At(CapturePcs)' = At(CapturePcs) \cup {w}
      /\ kind = "capture" => At(BeforePost)' = At(BeforePost) \cup {w}
  BY <1>1, <1>6 DEF TypeOK, At, CapturePcs, Capturing, BeforePost
<1>8. /\ \A i, j \in Queued("capture")' : i = j
      /\ \A i, j \in Queued("save")' : i = j
      /\ \A i \in Queued("save")', j \in Queued("capture")' : i < j
  <2>1. /\ \A i, j \in Queued("capture")' : i + 1 = j + 1
        /\ \A i, j \in Queued("save")' : i + 1 = j + 1
        /\ \A i \in Queued("save")', j \in Queued("capture")' : i + 1 < j + 1
    BY <1>3 DEF TokenInv, OrderInv
  <2>2. QED
    BY <1>3, <2>1
<1>9. TokenInv'
  <2>1. CASE kind = "capture"
    <3>1. At(CapturePcs)' = {w} /\ ~ armed' /\ Queued("capture")' = {}
      BY <1>1, <1>4, <1>5, <1>7, <2>1 DEF TokenInv
    <3>2. QED
      BY <1>8, <3>1 DEF TokenInv
  <2>2. CASE kind # "capture"
    <3>1. Queued("capture")' # {} => Queued("capture") # {}
      BY <1>3
    <3>2. QED
      BY <1>1, <1>7, <1>8, <2>2, <3>1 DEF TokenInv
  <2>3. QED
    BY <2>1, <2>2
<1>10. OrderInv'
  <2>1. At(BeforePost)' # {} => Queued("save")' = {}
    <3>1. CASE kind = "capture"
      <4>1. \A i \in Queued("save") : i < 1
        BY <1>4, <3>1 DEF OrderInv
      <4>2. QED
        BY <1>3, <4>1
    <3>2. CASE kind # "capture"
      BY <1>3, <1>7, <3>2 DEF OrderInv
    <3>3. QED
      BY <3>1, <3>2
  <2>2. Queued("save")' # {} => \E v \in Workers : pc'[v] \notin SavePcs
    <3>1. CASE kind = "save"
      BY <1>5, <3>1
    <3>2. CASE kind # "save"
      BY <1>1, <1>3, <1>6, <3>2 DEF OrderInv, SavePcs, TypeOK
    <3>3. QED
      BY <3>1, <3>2
  <2>3. QED
    BY <1>8, <2>1, <2>2 DEF OrderInv
<1>11. QED
  BY <1>9, <1>10

LEMMA OrderQuiet ==
  ASSUME TypeOK, TokenInv, OrderInv, NEW w \in Workers, QuietMove(w)
  PROVE  TokenInv' /\ OrderInv'
<1>1. /\ At(CapturePcs)' \subseteq At(CapturePcs)
      /\ At(BeforePost)' \subseteq At(BeforePost)
      /\ \A v \in Workers : pc[v] \notin SavePcs => pc'[v] \notin SavePcs
  BY DEF QuietMove, Goto, TypeOK, At
<1>2. /\ Queued("capture")' = Queued("capture")
      /\ Queued("save")' = Queued("save")
      /\ UNCHANGED armed
  BY DEF QuietMove, Queued
<1>3. QED
  BY <1>1, <1>2 DEF TokenInv, OrderInv

LEMMA OrderPost ==
  ASSUME TypeOK, TokenInv, OrderInv, NEW w \in Workers, PostSave(w)
  PROVE  TokenInv' /\ OrderInv'
<1> DEFINE op == Op("save", local[w].next, local[w].buffer)
<1>1. /\ pc[w] = "post" /\ pc' = [pc EXCEPT ![w] = "bump"]
      /\ opQueue' = Append(opQueue, op) /\ UNCHANGED armed
  BY DEF PostSave, Goto, Enqueue
<1>2. op.kind = "save"
  BY DEF Op
<1>3. DOMAIN opQueue' = 1 .. Len(opQueue) + 1
      /\ DOMAIN opQueue = 1 .. Len(opQueue) /\ Len(opQueue) \in Nat
      /\ opQueue'[Len(opQueue) + 1] = op
      /\ \A i \in 1 .. Len(opQueue) : opQueue'[i] = opQueue[i]
  BY <1>1 DEF TypeOK
<1>4. w \in At(BeforePost) /\ w \in At(CapturePcs)
  BY <1>1 DEF At, BeforePost, CapturePcs, Capturing
<1>5. Queued("save") = {} /\ Queued("capture") = {} /\ ~ armed
      /\ At(CapturePcs) = {w}
  BY <1>4 DEF TokenInv, OrderInv
<1>6. Queued("save")' = {Len(opQueue) + 1} /\ Queued("capture")' = {}
  BY <1>2, <1>3, <1>5 DEF Queued
<1>7. At(CapturePcs)' = {w} /\ At(BeforePost)' = {}
  BY <1>1, <1>5 DEF TypeOK, At, CapturePcs, Capturing, BeforePost
<1>8. pc'[w] \notin SavePcs
  BY <1>1 DEF TypeOK, SavePcs
<1>9. QED
  BY <1>1, <1>5, <1>6, <1>7, <1>8 DEF TokenInv, OrderInv

LEMMA OrderRearm ==
  ASSUME TypeOK, TokenInv, OrderInv, NEW w \in Workers, Rearm(w)
  PROVE  TokenInv' /\ OrderInv'
<1>1. pc[w] = "rearm" /\ pc' = [pc EXCEPT ![w] = "run"]
      /\ UNCHANGED opQueue
  BY DEF Rearm, EndHandler, Goto
<1>2. w \in At(CapturePcs)
  BY <1>1 DEF At, CapturePcs
<1>3. Queued("capture") = {} /\ At(CapturePcs) = {w}
  BY <1>2 DEF TokenInv
<1>4. At(CapturePcs)' = {} /\ At(BeforePost)' = {}
  BY <1>1, <1>3 DEF TypeOK, At, CapturePcs, Capturing, BeforePost
<1>5. Queued("capture")' = {} /\ Queued("save")' = Queued("save")
  BY <1>1, <1>3 DEF Queued
<1>6. pc'[w] \notin SavePcs
  BY <1>1 DEF TypeOK, SavePcs
<1>7. QED
  BY <1>4, <1>5, <1>6 DEF TokenInv, OrderInv

LEMMA OrderNext ==
  TypeOK /\ TokenInv /\ OrderInv /\ [Next]_vars => TokenInv' /\ OrderInv'
<1> SUFFICES ASSUME TypeOK, TokenInv, OrderInv, [Next]_vars
             PROVE  TokenInv' /\ OrderInv'
  OBVIOUS
<1>1. CASE Expire
  <2>1. Op("capture", 0, 0) \in Ops /\ Op("capture", 0, 0).kind = "capture"
    BY DEF Op, Ops
  <2>2. QED
    BY <1>1, <2>1, OrderAppend DEF Expire, Enqueue
<1>2. CASE ReceiveRequest
  <2>1. PICK k \in Ks : opQueue' = Append(opQueue, Op("request", k, 0))
    BY <1>2 DEF ReceiveRequest, Enqueue
  <2>2. /\ Op("request", k, 0) \in Ops
        /\ Op("request", k, 0).kind = "request"
    BY RequestAssumption DEF Op, Ops
  <2>3. QED
    BY <1>2, <2>1, <2>2, OrderAppend DEF ReceiveRequest
<1>3. CASE ReceiveSignal
  <2>1. Op("stop", 0, 0) \in Ops /\ Op("stop", 0, 0).kind = "stop"
    BY DEF Op, Ops
  <2>2. QED
    BY <1>3, <2>1, OrderAppend DEF ReceiveSignal, Enqueue
<1>4. ASSUME NEW w \in Workers, Worker(w) PROVE TokenInv' /\ OrderInv'
  BY <1>4, OrderStart, OrderQuiet, OrderPost, OrderRearm, CaptureShape,
     OtherShape DEF Worker
<1>5. CASE UNCHANGED vars
  BY <1>5 DEF vars, TokenInv, OrderInv, Queued, At
<1>6. QED
  BY <1>1, <1>2, <1>3, <1>4, <1>5 DEF Next, Terminated

LEMMA OrderCorrect == Spec => [](TypeOK /\ TokenInv /\ OrderInv)
BY TypeInit, TypeNext, OrderInit, OrderNext, PTL DEF Spec

-----------------------------------------------------------------------------
(* One capture at a time                                                   *)

LEMMA AtMostOne ==
  ASSUME NEW S, \A x, y \in S : x = y
  PROVE  /\ IsFiniteSet(S)
         /\ Cardinality(S) = IF S = {} THEN 0 ELSE 1
<1>1. CASE S = {}
  BY <1>1, FS_EmptySet
<1>2. CASE S # {}
  <2>1. PICK x \in S : TRUE
    BY <1>2
  <2>2. S = {x}
    BY <2>1
  <2>3. QED
    BY <1>2, <2>2, FS_Singleton
<1>3. QED
  BY <1>1, <1>2

(* At any point in time one instance of handle_timeout at most is running, *)
(* and if one is, or is queued, the timer is not armed.                    *)
THEOREM OneCapture == Spec => []SingleCapture
<1>1. TokenInv => SingleCapture
  <2>1. QueuedCaptures = Queued("capture")
    BY DEF QueuedCaptures, Queued
  <2>2. QED
    BY <2>1, AtMostOne DEF TokenInv, SingleCapture
<1>2. QED
  BY <1>1, OrderCorrect, PTL

(* After the flag is set a capture may be about to take its picture, or    *)
(* one picture has been taken since.                                       *)
QuitInv ==
  quitFlag =>
    /\ taken <= takenAtQuit + 1
    /\ At({"grab"}) # {} => taken <= takenAtQuit

LEMMA QuitNext == TypeOK /\ TokenInv /\ QuitInv /\ [Next]_vars => QuitInv'
<1> SUFFICES ASSUME TypeOK, TokenInv, QuitInv, [Next]_vars PROVE QuitInv'
  OBVIOUS
<1> DEFINE Quiet == /\ UNCHANGED <<quitVars, taken>>
                    /\ At({"grab"})' \subseteq At({"grab"})
<1>0. Quiet => QuitInv'
  BY DEF QuitInv, quitVars
<1>1. CASE Expire \/ ReceiveRequest \/ ReceiveSignal
  BY <1>0, <1>1 DEF Expire, ReceiveRequest, ReceiveSignal, At
<1>2. ASSUME NEW w \in Workers, StartHandler(w) PROVE QuitInv'
  <2>1. Head(opQueue) \in Ops
    BY <1>2 DEF StartHandler, Dequeue, TypeOK
  <2>2. Head(opQueue).kind # "grab"
    BY <2>1 DEF Ops
  <2>3. QED
    BY <1>0, <1>2, <2>2 DEF StartHandler, Dequeue, TypeOK, At
<1>3. ASSUME NEW w \in Workers, Capture(w) PROVE QuitInv'
  <2>1. CASE CaptureBegin(w)
    BY <2>1 DEF CaptureBegin, QuitInv, quitVars
  <2>2. CASE Grab(w)
    <3>1. At(CapturePcs) = {w} /\ At({"grab"}) = {w}
      BY <2>2 DEF Grab, Goto, TokenInv, At, CapturePcs
    <3>2. At({"grab"})' = {}
      BY <2>2, <3>1 DEF Grab, Goto, TypeOK, At
    <3>3. taken' = taken + 1 /\ UNCHANGED quitVars
      BY <2>2 DEF Grab
    <3>4. quitFlag => taken' <= takenAtQuit + 1
      <4>1. quitFlag => taken <= takenAtQuit
        BY <3>1 DEF QuitInv
      <4>2. taken <= takenAtQuit => taken + 1 <= takenAtQuit + 1
        BY DEF TypeOK
      <4>3. QED
        BY <3>3, <4>1, <4>2
    <3>5. QED
      BY <3>2, <3>3, <3>4 DEF QuitInv, quitVars
  <2>3. CASE ~ (CaptureBegin(w) \/ Grab(w))
    BY <1>0, <1>3, <2>3
       DEF Capture, CaptureQuit, Store, Count, PostSave, DropSave,
           BumpCurrentCount, AdvanceCurImg, Rearm, EndHandler, Goto, TypeOK,
           At
  <2>4. QED
    BY <2>1, <2>2, <2>3
<1>4. ASSUME NEW w \in Workers, Save(w) \/ Request(w) \/ Leave(w)
      PROVE  QuitInv'
  BY <1>0, <1>4
     DEF Save, SaveCopy, SaveWrite, SaveEnd, Request, CompareCount,
         CompareSize, Clamp, ReadIndex, CopyImage, Respond, Leave, LeaveRun,
         EndHandler, Goto, TypeOK, At
<1>5. ASSUME NEW w \in Workers, StopCapture(w) PROVE QuitInv'
  <2>1. takenAtQuit' = taken /\ taken' = taken
    BY <1>5 DEF StopCapture
  <2>2. QED
    BY <2>1 DEF QuitInv, TypeOK
<1>6. ASSUME NEW w \in Workers, StopService(w) PROVE QuitInv'
  BY <1>0, <1>6 DEF StopService, EndHandler, Goto, TypeOK, At
<1>7. CASE UNCHANGED vars
  BY <1>0, <1>7 DEF vars, At
<1>8. QED
  BY <1>1, <1>2, <1>3, <1>4, <1>5, <1>6, <1>7
     DEF Next, Worker, Stop, Terminated

(* A shutdown lets at most one more picture be taken. *)
THEOREM QuitStops == Spec => []QuitStopsCapture
<1>1. Init => QuitInv
  BY DEF Init, QuitInv
<1>2. QuitInv => QuitStopsCapture
  BY DEF QuitInv, QuitStopsCapture
<1>3. QED
  BY <1>1, <1>2, QuitNext, OrderCorrect, PTL DEF Spec

-----------------------------------------------------------------------------
(* The backlog                                                             *)

(* A step of one thread changes the number of threads at a set of labels   *)
(* by one at most.                                                         *)
LEMMA GotoCount ==
  ASSUME TypeOK, NEW w \in Workers, NEW from, NEW to, Goto(w, from, to),
         NEW S
  PROVE  /\ Cardinality(At(S)) \in Nat
         /\ Cardinality(At(S)') = Cardinality(At(S))
              + (IF to \in S THEN 1 ELSE 0) - (IF from \in S THEN 1 ELSE 0)
<1>1. IsFiniteSet(At(S))
  BY WorkersAssumption, FS_Subset DEF At
<1>2. Cardinality(At(S)) \in Nat
  BY <1>1, FS_CardinalityType
<1>3. w \in At(S) <=> from \in S
  BY DEF At, Goto
<1>4. At(S)' = IF to \in S THEN At(S) \cup {w} ELSE At(S) \ {w}
  BY DEF At, Goto, TypeOK
<1>5. Cardinality(At(S) \cup {w}) =
        IF w \in At(S) THEN Cardinality(At(S)) ELSE Cardinality(At(S)) + 1
  BY <1>1, FS_AddElement
<1>6. Cardinality(At(S) \ {w}) =
        IF w \in At(S) THEN Cardinality(At(S)) - 1 ELSE Cardinality(At(S))
  BY <1>1, FS_RemoveElement
<1>7. CASE to \in S
  <2>1. At(S)' = At(S) \cup {w}
    BY <1>4, <1>7
  <2>2. QED
    BY <1>2, <1>3, <1>5, <1>7, <2>1
<1>8. CASE to \notin S
  <2>1. At(S)' = At(S) \ {w}
    BY <1>4, <1>8
  <2>2. QED
    BY <1>2, <1>3, <1>6, <1>8, <2>1
<1>9. QED
  BY <1>7, <1>8

Backlog ==
  Cardinality(Queued("save")) + Cardinality(At(SavePcs))
    + Cardinality(At({"post", "drop"}))

CountInv == pending_count = Backlog

LEMMA QueuedSaveCount ==
  ASSUME OrderInv
  PROVE  Cardinality(Queued("save")) = IF Queued("save") = {} THEN 0 ELSE 1
BY AtMostOne DEF OrderInv

(* Steps that neither touch pending_count nor the saves in the queue, and  *)
(* keep the thread in or out of a save and of the branches of the test.    *)
LEMMA BacklogKept ==
  ASSUME TypeOK, NEW w \in Workers, NEW from, NEW to, Goto(w, from, to),
         from \in SavePcs <=> to \in SavePcs,
         from \in {"post", "drop"} <=> to \in {"post", "drop"},
         Queued("save")' = Queued("save")
  PROVE  Backlog' = Backlog
<1>1. Cardinality(At(SavePcs)') = Cardinality(At(SavePcs))
  BY GotoCount DEF SavePcs
<1>2. Cardinality(At({"post", "drop"})') = Cardinality(At({"post", "drop"}))
  BY GotoCount
<1>3. QED
  BY <1>1, <1>2 DEF Backlog, SavePcs

LEMMA CountNext ==
  TypeOK /\ TokenInv /\ OrderInv /\ CountInv /\ OrderInv' /\ [Next]_vars
    => CountInv'
<1> SUFFICES ASSUME TypeOK, TokenInv, OrderInv, CountInv, OrderInv',
                    [Next]_vars
             PROVE  CountInv'
  OBVIOUS
<1> DEFINE Kept == /\ pending_count' = pending_count
                   /\ Queued("save")' = Queued("save")
<1>a. \A w \in Workers : \A from, to :
        /\ Kept /\ Goto(w, from, to)
        /\ from \in SavePcs <=> to \in SavePcs
        /\ from \in {"post", "drop"} <=> to \in {"post", "drop"}
        => CountInv'
  BY BacklogKept DEF CountInv
<1>b. opQueue' = opQueue => Queued("save")' = Queued("save")
  BY DEF Queued
<1>c. \A w \in Workers : \A from, to :
        Goto(w, from, to) =>
          /\ Cardinality(At(SavePcs)) \in Nat
          /\ Cardinality(At({"post", "drop"})) \in Nat
          /\ Cardinality(At(SavePcs)') = Cardinality(At(SavePcs))
               + (IF to \in SavePcs THEN 1 ELSE 0)
               - (IF from \in SavePcs THEN 1 ELSE 0)
          /\ Cardinality(At({"post", "drop"})')
               = Cardinality(At({"post", "drop"}))
                   + (IF to \in {"post", "drop"} THEN 1 ELSE 0)
                   - (IF from \in {"post", "drop"} THEN 1 ELSE 0)
  BY GotoCount
<1>d. Cardinality(Queued("save")) = IF Queued("save") = {} THEN 0 ELSE 1
  BY QueuedSaveCount
<1>e. Cardinality(Queued("save")')
        = IF Queued("save")' = {} THEN 0 ELSE 1
  BY AtMostOne DEF OrderInv
<1> HIDE DEF Kept
<1>1. CASE Expire \/ ReceiveRequest \/ ReceiveSignal
  <2>1. PICK op \in Ops : opQueue' = Append(opQueue, op)
                            /\ op.kind # "save"
    <3>1. CASE Expire
      BY <3>1 DEF Expire, Enqueue, Op, Ops
    <3>2. CASE ReceiveRequest
      BY <3>2, RequestAssumption DEF ReceiveRequest, Enqueue, Op, Ops
    <3>3. CASE ReceiveSignal
      BY <3>3 DEF ReceiveSignal, Enqueue, Op, Ops
    <3>4. QED
      BY <1>1, <3>1, <3>2, <3>3
  <2>2. Queued("save")' = Queued("save")
    BY <2>1 DEF Queued, TypeOK
  <2>3. UNCHANGED <<pc, pending_count>>
    BY <1>1 DEF Expire, ReceiveRequest, ReceiveSignal, saveVars
  <2>4. At(SavePcs)' = At(SavePcs)
        /\ At({"post", "drop"})' = At({"post", "drop"})
    BY <2>3 DEF At
  <2>5. QED
    BY <2>2, <2>3, <2>4 DEF CountInv, Backlog
<1>2. ASSUME NEW w \in Workers, StartHandler(w) PROVE CountInv'
  <2> DEFINE kind == Head(opQueue).kind
  <2>1. /\ opQueue # << >> /\ opQueue' = Tail(opQueue)
        /\ Goto(w, "run", kind) /\ pending_count' = pending_count
        /\ kind \in {"capture", "request", "stop", "save"}
    BY <1>2 DEF StartHandler, Dequeue, Goto, saveVars, TypeOK, Ops
  <2>2. CASE kind = "save"
    <3>1. Queued("save") # {} /\ Queued("save")' = {}
      <4>1. 1 \in Queued("save")
        BY <2>1, <2>2 DEF Queued, TypeOK
      <4>2. \A i \in Queued("save")' : i + 1 \in Queued("save") /\ i # 0
        BY <2>1 DEF Queued, TypeOK
      <4>3. ASSUME NEW i \in Queued("save")' PROVE FALSE
        <5>1. i + 1 = 1 /\ i \in Nat
          BY <4>1, <4>2, <2>1 DEF OrderInv, Queued, TypeOK
        <5>2. QED
          BY <4>2, <5>1
      <4>4. QED
        BY <4>1, <4>3
    <3>2. Goto(w, "run", "save")
      BY <2>1, <2>2
    <3>3. /\ Cardinality(At(SavePcs)) \in Nat
          /\ Cardinality(At(SavePcs)') = Cardinality(At(SavePcs)) + 1
          /\ Cardinality(At({"post", "drop"})')
               = Cardinality(At({"post", "drop"}))
          /\ Cardinality(At({"post", "drop"})) \in Nat
      BY <3>2, GotoCount DEF SavePcs
    <3>4. QED
      BY <1>d, <1>e, <2>1, <3>1, <3>3 DEF CountInv, Backlog
  <2>3. CASE kind # "save"
    <3>1. Cardinality(Queued("save")') = Cardinality(Queued("save"))
      <4>1. Queued("save") = {} => Queued("save")' = {}
        BY <2>1 DEF Queued, TypeOK
      <4>2. Queued("save") # {} => Queued("save")' # {}
        <5>1. ASSUME NEW i \in Queued("save") PROVE i - 1 \in Queued("save")'
          <6>1. /\ i \in 1 .. Len(opQueue) /\ opQueue[i].kind = "save"
                /\ Len(opQueue) \in Nat
            BY DEF Queued, TypeOK
          <6>2. i # 1
            BY <2>1, <2>3, <6>1 DEF TypeOK
          <6>3. /\ DOMAIN opQueue' = 1 .. Len(opQueue) - 1
                /\ i - 1 \in 1 .. Len(opQueue) - 1
                /\ opQueue'[i - 1] = opQueue[i]
            BY <2>1, <6>1, <6>2 DEF TypeOK
          <6>4. QED
            BY <6>1, <6>3 DEF Queued
        <5>2. QED
          BY <5>1
      <4>3. QED
        BY <1>d, <1>e, <4>1, <4>2
    <3>2. kind \notin SavePcs /\ kind \notin {"post", "drop"}
      BY <2>1, <2>3 DEF SavePcs
    <3>3. /\ Cardinality(At(SavePcs)') = Cardinality(At(SavePcs))
          /\ Cardinality(At({"post", "drop"})')
               = Cardinality(At({"post", "drop"}))
      <4> HIDE DEF kind
      <4>1. "run" \notin SavePcs /\ "run" \notin {"post", "drop"}
        BY DEF SavePcs
      <4>2. QED
        BY <1>c, <2>1, <3>2, <4>1
    <3>4. QED
      BY <2>1, <3>1, <3>3 DEF CountInv, Backlog
  <2>4. QED
    BY <2>2, <2>3
<1>3. ASSUME NEW w \in Workers, Count(w) PROVE CountInv'
  <2>1. PICK to \in {"post", "drop"} : Goto(w, "count", to)
    BY <1>3 DEF Count
  <2>2. pending_count' = pending_count + 1
        /\ Queued("save")' = Queued("save")
    BY <1>3, <1>b DEF Count
  <2>3. /\ Cardinality(At(SavePcs)) \in Nat
        /\ Cardinality(At(SavePcs)') = Cardinality(At(SavePcs))
        /\ Cardinality(At({"post", "drop"}))  \in Nat
        /\ Cardinality(At({"post", "drop"})')
             = Cardinality(At({"post", "drop"})) + 1
    BY <2>1, GotoCount DEF SavePcs
  <2>4. QED
    BY <1>d, <2>2, <2>3 DEF CountInv, Backlog
<1>4. ASSUME NEW w \in Workers, PostSave(w) PROVE CountInv'
  <2>1. Goto(w, "post", "bump") /\ pending_count' = pending_count
    BY <1>4 DEF PostSave, saveVars
  <2>2. Queued("save") = {}
    BY <2>1 DEF OrderInv, At, BeforePost, Goto
  <2>3. Queued("save")' # {}
    <3>1. opQueue' =
            Append(opQueue, Op("save", local[w].next, local[w].buffer))
      BY <1>4 DEF PostSave, Enqueue
    <3>2. Len(opQueue) + 1 \in Queued("save")'
      BY <3>1 DEF Queued, TypeOK, Op
    <3>3. QED
      BY <3>2
  <2>4. /\ Cardinality(At(SavePcs)) \in Nat
        /\ Cardinality(At(SavePcs)') = Cardinality(At(SavePcs))
        /\ Cardinality(At({"post", "drop"}))  \in Nat
        /\ Cardinality(At({"post", "drop"})')
             = Cardinality(At({"post", "drop"})) - 1
    BY <2>1, GotoCount DEF SavePcs
  <2>5. QED
    BY <1>d, <1>e, <2>1, <2>2, <2>3, <2>4 DEF CountInv, Backlog
<1>5. ASSUME NEW w \in Workers, DropSave(w) PROVE CountInv'
  <2>1. /\ Goto(w, "drop", "bump") /\ pending_count' = pending_count - 1
        /\ Queued("save")' = Queued("save")
    BY <1>5, <1>b DEF DropSave
  <2>2. /\ Cardinality(At(SavePcs)) \in Nat
        /\ Cardinality(At(SavePcs)') = Cardinality(At(SavePcs))
        /\ Cardinality(At({"post", "drop"}))  \in Nat
        /\ Cardinality(At({"post", "drop"})')
             = Cardinality(At({"post", "drop"})) - 1
    BY <2>1, GotoCount DEF SavePcs
  <2>3. QED
    BY <1>d, <2>1, <2>2 DEF CountInv, Backlog
<1>6. ASSUME NEW w \in Workers, SaveEnd(w) PROVE CountInv'
  <2>1. /\ Goto(w, "saved", "run") /\ pending_count' = pending_count - 1
        /\ Queued("save")' = Queued("save")
    BY <1>6, <1>b DEF SaveEnd, EndHandler
  <2>2. /\ Cardinality(At(SavePcs)) \in Nat
        /\ Cardinality(At(SavePcs)') = Cardinality(At(SavePcs)) - 1
        /\ Cardinality(At({"post", "drop"}))  \in Nat
        /\ Cardinality(At({"post", "drop"})')
             = Cardinality(At({"post", "drop"}))
    BY <2>1, GotoCount DEF SavePcs
  <2>3. QED
    BY <1>d, <2>1, <2>2 DEF CountInv, Backlog
<1>7. ASSUME NEW w \in Workers,
             \/ CaptureQuit(w) \/ CaptureBegin(w) \/ Grab(w) \/ Store(w)
             \/ BumpCurrentCount(w) \/ AdvanceCurImg(w) \/ Rearm(w)
             \/ SaveCopy(w) \/ SaveWrite(w)
             \/ Request(w) \/ Stop(w) \/ Leave(w)
      PROVE  CountInv'
  <2>1. Kept
    BY <1>7, <1>b
       DEF Kept, CaptureQuit, CaptureBegin, Grab, Store, BumpCurrentCount,
           AdvanceCurImg, Rearm, SaveCopy, SaveWrite, Request, CompareCount,
           CompareSize, Clamp, ReadIndex, CopyImage, Respond, Stop,
           StopCapture, StopService, Leave, LeaveRun, saveVars
  <2>2. PICK from, to \in Pcs :
          /\ Goto(w, from, to)
          /\ from \in SavePcs <=> to \in SavePcs
          /\ from \in {"post", "drop"} <=> to \in {"post", "drop"}
    BY <1>7
       DEF CaptureQuit, CaptureBegin, Grab, Store, BumpCurrentCount,
           AdvanceCurImg, Rearm, SaveCopy, SaveWrite, Request, CompareCount,
           CompareSize, Clamp, ReadIndex, CopyImage, Respond, Stop,
           StopCapture, StopService, Leave, LeaveRun, EndHandler, SavePcs,
           Pcs, CapturePcs, Capturing, RequestPcs
  <2>3. QED
    BY <1>a, <2>1, <2>2
<1>8. CASE UNCHANGED vars
  BY <1>8 DEF vars, saveVars, CountInv, Backlog, Queued, At
<1>9. QED
  BY <1>1, <1>2, <1>3, <1>4, <1>5, <1>6, <1>7, <1>8
     DEF Next, Worker, Capture, Save, Terminated

LEMMA CountCorrect ==
  Spec => [](TypeOK /\ TokenInv /\ OrderInv /\ CountInv)
<1>1. Init => CountInv
  <2>1. ASSUME Init
        PROVE  /\ Queued("save") = {} /\ At(SavePcs) = {}
               /\ At({"post", "drop"}) = {} /\ pending_count = 0
    BY <2>1 DEF Init, IoInit, Queued, At, SavePcs
  <2>2. QED
    BY <2>1, FS_EmptySet DEF CountInv, Backlog
<1>2. QED
  BY <1>1, CountNext, OrderCorrect, PTL DEF Spec

(* pending_count is the number of saves that are queued or running, plus   *)
(* the one that a capture is about to post or to drop.                     *)
THEOREM PendingCounts == Spec => []PendingMatches
<1>1. QueuedSaves = Queued("save")
  BY DEF QueuedSaves, Queued
<1>2. CountInv => PendingMatches
  BY <1>1 DEF CountInv, Backlog, PendingMatches
<1>3. QED
  BY <1>2, CountCorrect, PTL

LEMMA BacklogLimit ==
  TypeOK /\ TokenInv /\ OrderInv /\ CountInv => BacklogBound
<1> SUFFICES ASSUME TypeOK, TokenInv, OrderInv, CountInv
             PROVE  BacklogBound
  OBVIOUS
<1> DEFINE branch == At({"post", "drop"})
<1>1. QueuedSaves = Queued("save")
  BY DEF QueuedSaves, Queued
<1>2. Cardinality(Queued("save")) = IF Queued("save") = {} THEN 0 ELSE 1
  BY QueuedSaveCount
<1>3. Cardinality(branch) = IF branch = {} THEN 0 ELSE 1
  <2>1. \A v, w \in branch : v = w
    BY DEF TokenInv, At, CapturePcs, Capturing
  <2>2. QED
    BY <2>1, AtMostOne
<1>4. Queued("save") = {} \/ branch = {}
  BY DEF OrderInv, At, BeforePost
<1>5. Cardinality(Workers) \in Nat
  BY WorkersAssumption, FS_CardinalityType
<1>6. Cardinality(At(SavePcs)) \in Nat
      /\ Cardinality(At(SavePcs)) <= Cardinality(Workers)
  BY WorkersAssumption, FS_Subset, FS_CardinalityType DEF At
<1>7. ASSUME Queued("save") # {} \/ branch # {}
      PROVE  Cardinality(At(SavePcs)) <= Cardinality(Workers) - 1
  <2>1. PICK w \in Workers : pc[w] \notin SavePcs
    BY <1>7 DEF OrderInv, At, SavePcs
  <2>2. /\ IsFiniteSet(Workers \ {w})
        /\ Cardinality(Workers \ {w}) = Cardinality(Workers) - 1
    BY WorkersAssumption, FS_RemoveElement
  <2>3. At(SavePcs) \subseteq Workers \ {w}
    BY <2>1 DEF At
  <2>4. QED
    BY <2>2, <2>3, FS_Subset
<1>8. pending_count <= Cardinality(Workers)
  <2>1. CASE Queued("save") = {} /\ branch = {}
    BY <1>2, <1>3, <1>5, <1>6, <2>1 DEF CountInv, Backlog
  <2>2. CASE Queued("save") # {} \/ branch # {}
    BY <1>2, <1>3, <1>4, <1>5, <1>6, <1>7, <2>2 DEF CountInv, Backlog
  <2>3. QED
    BY <2>1, <2>2
<1>9. QED
  BY <1>1, <1>2, <1>8 DEF BacklogBound

(* At most one save waits in the queue, and the saves that are not done    *)
(* are never more than the threads.                                        *)
THEOREM BacklogIsBounded == Spec => []BacklogBound
BY BacklogLimit, CountCorrect, PTL

LEMMA NeverDroppedNext ==
  TypeOK /\ NeverDropped /\ BacklogBound' /\ [Next]_vars => NeverDropped'
<1> SUFFICES ASSUME TypeOK, NeverDropped, BacklogBound', [Next]_vars,
                    BelowLimit(Cardinality(Workers))
             PROVE  At({"drop"})' = {}
  BY DEF NeverDropped, BelowLimit
<1>1. At({"drop"}) = {}
  BY DEF NeverDropped
<1>2. CASE UNCHANGED pc
  BY <1>1, <1>2 DEF At
<1>3. ASSUME NEW w \in Workers, NEW from, NEW to, Goto(w, from, to),
             to # "drop"
      PROVE  At({"drop"})' = {}
  BY <1>1, <1>3 DEF At, Goto, TypeOK
<1>4. ASSUME NEW w \in Workers, StartHandler(w)
      PROVE  At({"drop"})' = {}
  <2>1. /\ Goto(w, "run", Head(opQueue).kind)
        /\ Head(opQueue).kind # "drop"
    <3>1. Head(opQueue) \in Ops
      BY <1>4 DEF StartHandler, Dequeue, TypeOK
    <3>2. Head(opQueue).kind # "drop"
      BY <3>1 DEF Ops
    <3>3. QED
      BY <1>4, <3>2 DEF StartHandler, Dequeue, Goto
  <2>2. QED
    BY <1>3, <2>1
<1>5. ASSUME NEW w \in Workers, Count(w)
      PROVE  At({"drop"})' = {}
  <2>1. pending_count' \in Int /\ pending_count' <= Cardinality(Workers)
        /\ Cardinality(Workers) \in Nat
    BY <1>5, WorkersAssumption, FS_CardinalityType
       DEF Count, BacklogBound, TypeOK
  <2>2. MaxFileCount \div 10 \in Int /\ QueueFloor \in Int
    BY LimitAssumption
  <2>3. BelowLimit(pending_count')
    BY <2>1, <2>2 DEF BelowLimit
  <2>4. Goto(w, "count", "post")
    BY <1>5, <2>3 DEF Count
  <2>5. QED
    BY <1>3, <2>4
<1>6. ASSUME NEW w \in Workers,
             \/ CaptureQuit(w) \/ CaptureBegin(w) \/ Grab(w) \/ Store(w)
             \/ PostSave(w) \/ DropSave(w) \/ BumpCurrentCount(w)
             \/ AdvanceCurImg(w) \/ Rearm(w) \/ Save(w)
             \/ Request(w) \/ Stop(w) \/ Leave(w)
      PROVE  At({"drop"})' = {}
  <2>1. \E from, to \in Pcs : Goto(w, from, to) /\ to # "drop"
    BY <1>6
       DEF CaptureQuit, CaptureBegin, Grab, Store, PostSave, DropSave,
           BumpCurrentCount, AdvanceCurImg, Rearm, Save, SaveCopy,
           SaveWrite, SaveEnd, Request, CompareCount, CompareSize, Clamp,
           ReadIndex, CopyImage, Respond, Stop, StopCapture, StopService,
           Leave, LeaveRun, EndHandler, SavePcs, Pcs, CapturePcs, Capturing,
           RequestPcs
  <2>2. QED
    BY <1>3, <2>1
<1>7. QED
  BY <1>2, <1>4, <1>5, <1>6
     DEF Next, Worker, Capture, Terminated, vars, Expire, ReceiveRequest,
         ReceiveSignal

(* When the limit exceeds the number of threads no picture is dropped,     *)
(* however long a save takes.                                              *)
THEOREM NoDropAboveThreads == Spec => []NeverDropped
<1>1. Init => NeverDropped
  BY DEF Init, IoInit, NeverDropped, At
<1>2. QED
  BY <1>1, NeverDroppedNext, BacklogLimit, CountCorrect, PTL DEF Spec

-----------------------------------------------------------------------------
(* Pictures that are lost by a shutdown                                    *)

(* Where the save of a picture is: on the capture that took it, in the     *)
(* queue, or on the thread that runs it.                                   *)
OnCapture(n) ==
  \E w \in At({"store", "count", "post", "drop"}) : local[w].buffer = n
InQueue(n) == \E i \in Queued("save") : opQueue[i].pic = n
OnSave(n) == \E w \in At({"save", "write"}) : local[w].pic = n
HasPlace(n) == n \in settled \/ OnCapture(n) \/ InQueue(n) \/ OnSave(n)

LossInv == \A n \in 1 .. taken : HasPlace(n)

LEMMA LossNext == TypeOK /\ LossInv /\ [Next]_vars => LossInv'
<1> SUFFICES ASSUME TypeOK, LossInv, [Next]_vars, NEW n \in 1 .. taken'
             PROVE  HasPlace(n)'
  BY DEF LossInv
<1>a. taken' = taken => HasPlace(n)
  BY DEF LossInv
<1> USE DEF HasPlace, OnCapture, OnSave, At
<1>b. ASSUME NEW op, opQueue' = Append(opQueue, op), InQueue(n)
      PROVE  InQueue(n)'
  <2>1. PICK i \in DOMAIN opQueue :
          opQueue[i].kind = "save" /\ opQueue[i].pic = n
    BY <1>b DEF InQueue, Queued
  <2>2. i \in DOMAIN opQueue' /\ opQueue'[i] = opQueue[i]
    BY <1>b DEF TypeOK
  <2>3. QED
    BY <2>1, <2>2 DEF InQueue, Queued
<1>c. opQueue' = opQueue /\ InQueue(n) => InQueue(n)'
  BY DEF InQueue, Queued
<1>1. CASE Expire \/ ReceiveRequest \/ ReceiveSignal
  BY <1>1, <1>a, <1>b
     DEF Expire, ReceiveRequest, ReceiveSignal, Enqueue, saveVars
<1>2. ASSUME NEW w \in Workers, StartHandler(w) PROVE HasPlace(n)'
  <2>1. /\ pc[w] = "run" /\ opQueue # << >> /\ opQueue' = Tail(opQueue)
        /\ pc' = [pc EXCEPT ![w] = Head(opQueue).kind]
        /\ local' = [local EXCEPT ![w] =
                       Locals(Head(opQueue).arg, Head(opQueue).pic)]
        /\ settled' = settled /\ taken' = taken
    BY <1>2 DEF StartHandler, Dequeue, saveVars
  <2>2. CASE InQueue(n)
    <3>1. PICK i \in 1 .. Len(opQueue) :
            opQueue[i].kind = "save" /\ opQueue[i].pic = n
      BY <2>2 DEF InQueue, Queued, TypeOK
    <3>2. CASE i = 1
      <4>1. Head(opQueue) = opQueue[1]
        BY <2>1 DEF TypeOK
      <4>2. pc'[w] = "save" /\ local'[w].pic = n
        BY <2>1, <3>1, <3>2, <4>1 DEF TypeOK, Locals
      <4>3. QED
        BY <4>2
    <3>3. CASE i # 1
      <4>1. /\ i - 1 \in DOMAIN opQueue'
            /\ opQueue'[i - 1] = opQueue[i]
        BY <2>1, <3>3 DEF TypeOK
      <4>2. QED
        BY <3>1, <4>1 DEF InQueue, Queued
    <3>4. QED
      BY <3>2, <3>3
  <2>3. CASE ~ InQueue(n)
    BY <1>a, <2>1, <2>3 DEF TypeOK
  <2>4. QED
    BY <2>2, <2>3
<1>3. ASSUME NEW w \in Workers, Grab(w) PROVE HasPlace(n)'
  <2>1. /\ pc[w] = "grab" /\ pc' = [pc EXCEPT ![w] = "store"]
        /\ taken' = taken + 1
        /\ local' = [local EXCEPT ![w].buffer = taken + 1]
        /\ opQueue' = opQueue /\ settled' = settled
    BY <1>3 DEF Grab, Goto, saveVars
  <2>2. CASE n = taken + 1
    <3>1. pc'[w] = "store" /\ local'[w].buffer = n
      BY <2>1, <2>2 DEF TypeOK
    <3>2. QED
      BY <3>1
  <2>3. CASE n # taken + 1
    <3>1. n \in 1 .. taken
      <4>1. taken \in Nat /\ n \in 1 .. taken + 1
        BY <2>1 DEF TypeOK
      <4>2. QED
        BY <2>3, <4>1
    <3>2. HasPlace(n)
      BY <3>1 DEF LossInv
    <3>3. QED
      BY <1>c, <2>1, <3>2 DEF TypeOK
  <2>4. QED
    BY <2>2, <2>3
<1>4. ASSUME NEW w \in Workers, PostSave(w) PROVE HasPlace(n)'
  <2> DEFINE op == Op("save", local[w].next, local[w].buffer)
  <2>1. /\ pc[w] = "post" /\ pc' = [pc EXCEPT ![w] = "bump"]
        /\ opQueue' = Append(opQueue, op)
        /\ UNCHANGED <<local, settled, taken>>
    BY <1>4 DEF PostSave, Goto, Enqueue, saveVars
  <2>2. CASE local[w].buffer = n
    <3>1. op.kind = "save" /\ op.pic = n
      BY <2>2 DEF Op
    <3>2. /\ Len(opQueue) + 1 \in DOMAIN opQueue'
          /\ opQueue'[Len(opQueue) + 1] = op
      BY <2>1 DEF TypeOK
    <3>3. QED
      BY <3>1, <3>2 DEF InQueue, Queued
  <2>3. CASE local[w].buffer # n
    BY <1>a, <1>b, <2>1, <2>3 DEF TypeOK
  <2>4. QED
    BY <2>2, <2>3
<1>5. ASSUME NEW w \in Workers, DropSave(w) PROVE HasPlace(n)'
  BY <1>5, <1>a, <1>c DEF DropSave, Goto, TypeOK
<1>6. ASSUME NEW w \in Workers, SaveWrite(w) PROVE HasPlace(n)'
  BY <1>6, <1>a, <1>c DEF SaveWrite, Goto, TypeOK
<1>7. ASSUME NEW w \in Workers, SaveCopy(w) PROVE HasPlace(n)'
  BY <1>7, <1>a, <1>c DEF SaveCopy, Goto, TypeOK, saveVars
<1>8. ASSUME NEW w \in Workers, Store(w) \/ Count(w)
      PROVE  HasPlace(n)'
  BY <1>8, <1>a, <1>c DEF Store, Count, Goto, TypeOK, saveVars
<1>9. ASSUME NEW w \in Workers,
             \/ CaptureQuit(w) \/ CaptureBegin(w) \/ BumpCurrentCount(w)
             \/ AdvanceCurImg(w) \/ Rearm(w) \/ SaveEnd(w)
             \/ Request(w) \/ Stop(w) \/ Leave(w)
      PROVE  HasPlace(n)'
  <2>1. /\ UNCHANGED <<opQueue, settled, taken>>
        /\ pc[w] \notin {"store", "count", "post", "drop", "save", "write"}
        /\ \A v \in Workers \ {w} : pc'[v] = pc[v] /\ local'[v] = local[v]
    BY <1>9
       DEF CaptureQuit, CaptureBegin, BumpCurrentCount, AdvanceCurImg,
           Rearm, SaveEnd, Request, CompareCount, CompareSize, Clamp,
           ReadIndex, CopyImage, Respond, Stop, StopCapture, StopService,
           Leave, LeaveRun, EndHandler, Goto, saveVars, TypeOK
  <2>2. QED
    BY <1>a, <1>c, <2>1 DEF TypeOK
<1>10. CASE UNCHANGED vars
  BY <1>10, <1>a, <1>c DEF vars, saveVars
<1>11. QED
  BY <1>1, <1>2, <1>3, <1>4, <1>5, <1>6, <1>7, <1>8, <1>9, <1>10
     DEF Next, Worker, Capture, Save, Terminated

(* Once main has joined its threads, at most one picture has been neither  *)
(* saved nor given up.                                                     *)
THEOREM ShutdownLosesOne == Spec => []LossOnStop
<1>1. Init => LossInv
  BY DEF Init, LossInv
<1>2. OrderInv /\ LossInv => LossOnStop
  <2> SUFFICES ASSUME OrderInv, LossInv, Joined
               PROVE  Cardinality((1 .. taken) \ settled) <= 1
    BY DEF LossOnStop
  <2>1. \A n \in (1 .. taken) \ settled : InQueue(n)
    BY DEF LossInv, HasPlace, OnCapture, OnSave, At, Joined
  <2>2. \A m, n \in (1 .. taken) \ settled : m = n
    BY <2>1 DEF InQueue, OrderInv
  <2>3. QED
    BY <2>2, AtMostOne
<1>3. QED
  BY <1>1, <1>2, LossNext, OrderCorrect, PTL DEF Spec

-----------------------------------------------------------------------------
(* Remainders modulo the size of the ring *)

LEMMA Quotient ==
  ASSUME NEW x \in Nat
  PROVE  /\ x % MaxSize \in 0 .. MaxSize - 1
         /\ \E q \in Nat : x = MaxSize * q + (x % MaxSize)
<1>1. /\ x = MaxSize * (x \div MaxSize) + (x % MaxSize)
      /\ x \div MaxSize \in Nat
      /\ x % MaxSize \in 0 .. MaxSize - 1
  BY SizeAssumption
<1>2. QED
  BY <1>1

LEMMA RemainderIs ==
  ASSUME NEW q \in Nat, NEW r \in 0 .. MaxSize - 1
  PROVE  (MaxSize * q + r) % MaxSize = r
<1> DEFINE x == MaxSize * q + r
<1>1. MaxSize * q \in Nat /\ x \in Nat
  BY SizeAssumption
<1>2. PICK p \in Nat : x = MaxSize * p + (x % MaxSize)
  BY <1>1, Quotient
<1>3. x % MaxSize \in 0 .. MaxSize - 1
  BY <1>1, Quotient
<1>4. CASE p = q
  BY <1>1, <1>2, <1>3, <1>4, SizeAssumption
<1>5. CASE p < q
  <2>1. MaxSize * q >= MaxSize * (p + 1)
    BY <1>5, SizeAssumption
  <2>2. MaxSize * (p + 1) = MaxSize * p + MaxSize
    BY SizeAssumption
  <2>3. QED
    BY <1>1, <1>2, <1>3, <2>1, <2>2, SizeAssumption
<1>6. CASE p > q
  <2>1. MaxSize * p >= MaxSize * (q + 1)
    BY <1>6, SizeAssumption
  <2>2. MaxSize * (q + 1) = MaxSize * q + MaxSize
    BY SizeAssumption
  <2>3. QED
    BY <1>1, <1>2, <1>3, <2>1, <2>2, SizeAssumption
<1>7. QED
  BY <1>4, <1>5, <1>6

LEMMA SmallRemainder == \A r \in 0 .. MaxSize - 1 : r % MaxSize = r
<1>1. SUFFICES ASSUME NEW r \in 0 .. MaxSize - 1 PROVE r % MaxSize = r
  OBVIOUS
<1>2. MaxSize * 0 + r = r
  BY SizeAssumption
<1>3. QED
  BY <1>2, RemainderIs

(* The slot after the slot of a picture is that of the next picture.       *)
LEMMA NextSlot ==
  ASSUME NEW x \in Nat
  PROVE  (((x % MaxSize) + 1) % Word) % MaxSize = (x + 1) % MaxSize
<1> DEFINE r == x % MaxSize
<1>1. r \in 0 .. MaxSize - 1 /\ \E q \in Nat : x = MaxSize * q + r
  BY Quotient
<1>2. PICK q \in Nat : x = MaxSize * q + r
  BY <1>1
<1> HIDE DEF r
<1>3. (r + 1) % Word = r + 1
  BY <1>1, SizeAssumption
<1>4. CASE r + 1 < MaxSize
  <2>1. x + 1 = MaxSize * q + (r + 1) /\ r + 1 \in 0 .. MaxSize - 1
    BY <1>1, <1>2, <1>4, SizeAssumption
  <2>2. (x + 1) % MaxSize = r + 1
    BY <2>1, RemainderIs
  <2>3. QED
    BY <1>3, <2>1, <2>2, SmallRemainder DEF r
<1>5. CASE r + 1 = MaxSize
  <2>1. x + 1 = MaxSize * (q + 1) + 0 /\ MaxSize = MaxSize * 1 + 0
    BY <1>1, <1>2, <1>5, SizeAssumption
  <2>2. 0 \in 0 .. MaxSize - 1 /\ q + 1 \in Nat /\ 1 \in Nat
    BY SizeAssumption
  <2>3. /\ (MaxSize * (q + 1) + 0) % MaxSize = 0
        /\ (MaxSize * 1 + 0) % MaxSize = 0
    BY <2>2, RemainderIs
  <2>4. (x + 1) % MaxSize = 0 /\ MaxSize % MaxSize = 0
    BY <2>1, <2>3
  <2>5. QED
    BY <1>3, <1>5, <2>4 DEF r
<1>6. r + 1 < MaxSize \/ r + 1 = MaxSize
  BY <1>1, SizeAssumption
<1>7. QED
  BY <1>4, <1>5, <1>6

(* Two numbers less than a lap apart are in different slots, and numbers   *)
(* that are a lap apart in the same one.                                   *)
LEMMA LapApart ==
  ASSUME NEW a \in Nat, NEW b \in Nat, a < b
  PROVE  /\ b - a < MaxSize => a % MaxSize # b % MaxSize
         /\ b - a = MaxSize => a % MaxSize = b % MaxSize
<1>1. PICK p \in Nat : a = MaxSize * p + (a % MaxSize)
  BY Quotient
<1>2. PICK q \in Nat : b = MaxSize * q + (b % MaxSize)
  BY Quotient
<1>3. a % MaxSize \in 0 .. MaxSize - 1 /\ b % MaxSize \in 0 .. MaxSize - 1
  BY Quotient
<1>4. ASSUME b - a < MaxSize, a % MaxSize = b % MaxSize PROVE FALSE
  <2>1. b - a = MaxSize * q - MaxSize * p
    BY <1>1, <1>2, <1>3, <1>4, SizeAssumption
  <2>2. CASE q <= p
    <3>1. MaxSize * q <= MaxSize * p
      BY <2>2, SizeAssumption
    <3>2. MaxSize * q \in Nat /\ MaxSize * p \in Nat
      BY SizeAssumption
    <3>3. QED
      BY <2>1, <3>1, <3>2
  <2>3. CASE q > p
    <3>1. MaxSize * q >= MaxSize * (p + 1)
      BY <2>3, SizeAssumption
    <3>2. MaxSize * (p + 1) = MaxSize * p + MaxSize
      BY SizeAssumption
    <3>3. MaxSize * q \in Nat /\ MaxSize * p \in Nat
      BY SizeAssumption
    <3>4. QED
      BY <1>4, <2>1, <3>1, <3>2, <3>3, SizeAssumption
  <2>4. QED
    BY <2>2, <2>3
<1>5. ASSUME b - a = MaxSize PROVE a % MaxSize = b % MaxSize
  <2>1. MaxSize * (p + 1) = MaxSize * p + MaxSize /\ MaxSize * p \in Nat
    BY SizeAssumption
  <2> DEFINE laps == MaxSize * p
  <2> DEFINE r == a % MaxSize
  <2>2. a = laps + r /\ laps \in Nat /\ r \in 0 .. MaxSize - 1
    BY <1>1, <1>3, <2>1
  <2>3. MaxSize * (p + 1) = laps + MaxSize
    BY <2>1
  <2> HIDE DEF laps, r
  <2>4. b = (laps + MaxSize) + r
    BY <1>5, <2>2, SizeAssumption
  <2>5. (MaxSize * (p + 1) + r) % MaxSize = r
    BY <2>2, RemainderIs
  <2>6. QED
    BY <2>3, <2>4, <2>5 DEF r
<1>6. QED
  BY <1>4, <1>5

(* getImage finds the slot of the k-th previous picture as long as it does *)
(* not reach behind slot 0.                                                *)
LEMMA IndexInLap ==
  ASSUME NEW x \in Nat, NEW k \in 0 .. (x % MaxSize) - 1
  PROVE  /\ RingIndex(x % MaxSize, k) = SlotOf(x - k)
         /\ x - k \in 1 .. x
<1> DEFINE r == x % MaxSize
<1>1. r \in 0 .. MaxSize - 1 /\ \E q \in Nat : x = MaxSize * q + r
  BY Quotient
<1>2. PICK q \in Nat : x = MaxSize * q + r
  BY <1>1
<1>3. k \in 0 .. r - 1
  OBVIOUS
<1> HIDE DEF r
<1>4. r - 1 - k \in 0 .. MaxSize - 1 /\ r - 1 - k \in 0 .. Word - 1
  BY <1>1, <1>3, SizeAssumption
<1>5. x - k - 1 = MaxSize * q + (r - 1 - k) /\ MaxSize * q \in Nat
  BY <1>1, <1>2, <1>3, SizeAssumption
<1>6. (x - k - 1) % MaxSize = r - 1 - k
  BY <1>4, <1>5, RemainderIs
<1>7. (r - 1 - k) % Word = r - 1 - k
  BY <1>4, SizeAssumption
<1>8. RingIndex(r, k) = r - 1 - k
  BY <1>4, <1>7, SmallRemainder DEF RingIndex
<1>9. x - k \in 1 .. x
  BY <1>1, <1>2, <1>3, <1>5
<1>10. QED
  BY <1>6, <1>8, <1>9 DEF SlotOf, r

-----------------------------------------------------------------------------
(* The invariant                                                           *)

(* Pictures that have been stored in the ring. *)
Stored == IF \E v \in Workers : pc[v] = "store" THEN taken - 1 ELSE taken

(* Slot s holds picture n or one that replaced it. *)
Holds(s, n) == imagebuffers[s] >= n /\ SlotOf(imagebuffers[s]) = s

(* A capture in progress is filling the slot of curImg with the last       *)
(* picture.                                                                *)
CaptureInv(w) ==
  /\ pc[w] \in Capturing => local[w].buffer = taken /\ taken # 0
  /\ pc[w] \in Capturing \cup {"grab"} => local[w].next = curImg

(* The ring alone: each slot holds the latest picture stored in it. *)
RingInv ==
  /\ curImg = Accounted % MaxSize
  /\ \A w \in Workers : CaptureInv(w)
  /\ \A n \in 1 .. Stored : Holds(SlotOf(n), n)
  /\ \A s \in Slots : imagebuffers[s] <= Stored

(* A save is for a picture that has been stored, and for its slot. *)
Posted(pic, slot) == pic \in 1 .. Stored /\ SlotOf(pic) = slot

SaveInv(w) ==
  /\ pc[w] \in SavePcs => Posted(local[w].pic, local[w].arg)
  /\ pc[w] = "write" => /\ local[w].buffer >= local[w].pic
                        /\ SlotOf(local[w].buffer) = local[w].arg

(* A request whose k does not reach behind slot 0 reads the slot of the    *)
(* picture it wants.                                                       *)
InLap(w) == local[w].arg \in 0 .. (local[w].seen % MaxSize) - 1
Wanted(w) == local[w].seen - local[w].arg

RequestInv(w) ==
  InLap(w) =>
    /\ pc[w] = "copy" => Posted(Wanted(w), local[w].next)
    /\ pc[w] = "respond" => /\ local[w].buffer >= Wanted(w)
                            /\ SlotOf(local[w].buffer) = SlotOf(Wanted(w))

(* What saves and requests know of the ring. *)
UserInv ==
  /\ \A i \in Queued("save") : Posted(opQueue[i].pic, opQueue[i].arg)
  /\ \A w \in Workers : SaveInv(w) /\ RequestInv(w)

LEMMA RingInit == Init => RingInv /\ UserInv
<1> SUFFICES ASSUME Init PROVE RingInv /\ UserInv
  OBVIOUS
<1>1. /\ opQueue = << >> /\ taken = 0 /\ curImg = 0
      /\ \A w \in Workers : pc[w] = "run"
      /\ imagebuffers = [s \in Slots |-> 0]
  BY DEF Init, IoInit
<1>2. Stored = 0 /\ Accounted = 0
  BY <1>1 DEF Stored, Accounted, Capturing
<1>3. 0 % MaxSize = 0
  BY SmallRemainder, SizeAssumption
<1>4. RingInv
  BY <1>1, <1>2, <1>3 DEF RingInv, CaptureInv, Capturing
<1>5. UserInv
  BY <1>1 DEF UserInv, SaveInv, RequestInv, Queued, SavePcs
<1>6. QED
  BY <1>4, <1>5

(* How many pictures are stored, and how many of them curImg accounts for. *)
LEMMA Counts ==
  ASSUME TypeOK, RingInv
  PROVE  /\ Stored \in Nat /\ Accounted \in Nat
         /\ Accounted <= Stored /\ Stored <= taken /\ taken <= Accounted + 1
<1>1. taken \in Nat
  BY DEF TypeOK
<1>2. (\E w \in Workers : pc[w] \in Capturing) => taken - 1 \in Nat
  BY <1>1 DEF RingInv, CaptureInv
<1>3. (\E w \in Workers : pc[w] = "store")
        => \E w \in Workers : pc[w] \in Capturing
  BY DEF Capturing
<1>4. QED
  BY <1>1, <1>2, <1>3 DEF Stored, Accounted

LEMMA AloneCapturing ==
  ASSUME TokenInv, NEW w \in Workers, pc[w] \in CapturePcs
  PROVE  \A v \in Workers \ {w} : pc[v] \notin CapturePcs
BY DEF TokenInv, At

(* The slot of a stored picture holds it or one that replaced it. *)
LEMMA ReadSlot ==
  ASSUME RingInv, NEW n, NEW s, Posted(n, s)
  PROVE  Holds(s, n)
BY DEF RingInv, Posted

-----------------------------------------------------------------------------
(* Steps that leave the ring alone                                         *)

LEMMA RingSame ==
  ASSUME RingInv, UNCHANGED <<imagebuffers, curImg, taken>>,
         \A v \in Workers : (pc'[v] = "store") <=> (pc[v] = "store"),
         \A v \in Workers : pc'[v] \in Capturing <=> pc[v] \in Capturing,
         \A v \in Workers : pc'[v] \in Capturing \cup {"grab"} =>
           /\ pc[v] \in Capturing \cup {"grab"}
           /\ local'[v].next = local[v].next
           /\ local'[v].buffer = local[v].buffer
  PROVE  /\ RingInv' /\ Stored' = Stored /\ Accounted' = Accounted
<1>1. Stored' = Stored /\ Accounted' = Accounted
  BY DEF Stored, Accounted
<1>2. \A v \in Workers : CaptureInv(v)'
  BY DEF RingInv, CaptureInv
<1>3. QED
  BY <1>1, <1>2 DEF RingInv, Holds

(* One thread moves; more pictures may be stored than before.              *)
LEMMA UserStep ==
  ASSUME UserInv, Stored \in Nat, Stored' \in Nat, Stored <= Stored',
         NEW w \in Workers,
         \A v \in Workers \ {w} : pc'[v] = pc[v] /\ local'[v] = local[v],
         UNCHANGED opQueue, SaveInv(w)', RequestInv(w)'
  PROVE  UserInv'
<1>1. \A n, s : Posted(n, s) => Posted(n, s)'
  BY DEF Posted
<1>2. Queued("save")' = Queued("save")
  BY DEF Queued
<1>3. \A i \in Queued("save")' : Posted(opQueue[i].pic, opQueue[i].arg)'
  <2>1. SUFFICES ASSUME NEW i \in Queued("save")'
                 PROVE  Posted(opQueue[i].pic, opQueue[i].arg)'
    OBVIOUS
  <2>2. Posted(opQueue[i].pic, opQueue[i].arg)
    BY <1>2, <2>1 DEF UserInv
  <2>3. QED
    BY <2>2 DEF Posted
<1>4. ASSUME NEW v \in Workers \ {w} PROVE SaveInv(v)' /\ RequestInv(v)'
  <2>1. SaveInv(v) /\ RequestInv(v)
    BY DEF UserInv
  <2>2. SaveInv(v)'
    BY <1>1, <2>1 DEF SaveInv
  <2>3. RequestInv(v)'
    BY <1>1, <2>1 DEF RequestInv, InLap, Wanted
  <2>4. QED
    BY <2>2, <2>3
<1>5. \A v \in Workers : SaveInv(v)' /\ RequestInv(v)'
  BY <1>4
<1>6. QED
  BY <1>3, <1>5 DEF UserInv

(* A thread that neither saves nor has read the ring knows nothing. *)
LEMMA NoUser ==
  ASSUME NEW w \in Workers, pc'[w] \notin SavePcs \cup {"copy", "respond"}
  PROVE  SaveInv(w)' /\ RequestInv(w)'
BY DEF SaveInv, RequestInv, SavePcs

(* The step is outside the capture, or after the picture was stored. *)
LEMMA RingQuiet ==
  ASSUME TypeOK, RingInv, NEW w \in Workers,
         \A v \in Workers \ {w} : pc'[v] = pc[v] /\ local'[v] = local[v],
         UNCHANGED <<imagebuffers, curImg, taken>>,
         \/ /\ pc[w] \notin Capturing
            /\ pc'[w] \notin Capturing \cup {"grab"}
         \/ /\ pc[w] \in Capturing \ {"store"}
            /\ pc'[w] \in Capturing \ {"store"}
            /\ local'[w] = local[w]
  PROVE  RingInv' /\ Stored' = Stored /\ Stored \in Nat
<1>1. \A v \in Workers : (pc'[v] = "store") <=> (pc[v] = "store")
  BY DEF Capturing
<1>2. \A v \in Workers : pc'[v] \in Capturing <=> pc[v] \in Capturing
  OBVIOUS
<1>3. \A v \in Workers : pc'[v] \in Capturing \cup {"grab"} =>
           /\ pc[v] \in Capturing \cup {"grab"}
           /\ local'[v].next = local[v].next
           /\ local'[v].buffer = local[v].buffer
  OBVIOUS
<1>4. QED
  BY <1>1, <1>2, <1>3, RingSame, Counts

-----------------------------------------------------------------------------
(* Steps of handle_timeout                                                 *)

LEMMA RingBegin ==
  ASSUME TypeOK, RingInv, UserInv, NEW w \in Workers, CaptureBegin(w)
  PROVE  RingInv' /\ UserInv'
<1>1. /\ pc[w] = "capture" /\ pc' = [pc EXCEPT ![w] = "grab"]
      /\ local' = [local EXCEPT ![w].next = curImg]
      /\ UNCHANGED <<opQueue, taken, imagebuffers, curImg>>
  BY DEF CaptureBegin, Goto, ringVars
<1>2. /\ pc'[w] = "grab" /\ local'[w].next = curImg
      /\ \A v \in Workers \ {w} : pc'[v] = pc[v] /\ local'[v] = local[v]
  BY <1>1 DEF TypeOK
<1>3. Stored' = Stored /\ Accounted' = Accounted
  BY <1>1, <1>2 DEF Stored, Accounted, Capturing
<1>4. \A v \in Workers : CaptureInv(v)'
  BY <1>1, <1>2 DEF RingInv, CaptureInv, Capturing
<1>5. RingInv'
  BY <1>1, <1>3, <1>4 DEF RingInv, Holds
<1>6. SaveInv(w)' /\ RequestInv(w)'
  BY <1>2, NoUser DEF SavePcs
<1>7. QED
  BY <1>1, <1>2, <1>3, <1>5, <1>6, Counts, UserStep

LEMMA RingGrab ==
  ASSUME TypeOK, TokenInv, RingInv, UserInv, NEW w \in Workers, Grab(w)
  PROVE  RingInv' /\ UserInv'
<1>1. /\ pc[w] = "grab" /\ pc' = [pc EXCEPT ![w] = "store"]
      /\ taken' = taken + 1 /\ taken \in Nat
      /\ local' = [local EXCEPT ![w].buffer = taken + 1]
      /\ UNCHANGED <<opQueue, imagebuffers, curImg>>
  BY DEF Grab, Goto, ringVars, TypeOK
<1>2. /\ pc'[w] = "store" /\ local'[w].buffer = taken + 1
      /\ local'[w].next = local[w].next
      /\ \A v \in Workers \ {w} : pc'[v] = pc[v] /\ local'[v] = local[v]
  BY <1>1 DEF TypeOK
<1>3. \A v \in Workers : pc[v] \notin Capturing
  BY <1>1, AloneCapturing DEF CapturePcs, Capturing
<1>4. Stored = taken /\ Accounted = taken
  BY <1>3 DEF Stored, Accounted, Capturing
<1>5. Stored' = taken /\ Accounted' = taken
  BY <1>1, <1>2 DEF Stored, Accounted, Capturing
<1>6. \A v \in Workers : CaptureInv(v)'
  BY <1>1, <1>2, <1>3, AloneCapturing DEF RingInv, CaptureInv, CapturePcs
<1>7. RingInv'
  BY <1>1, <1>4, <1>5, <1>6 DEF RingInv, Holds
<1>8. SaveInv(w)' /\ RequestInv(w)'
  BY <1>2, NoUser DEF SavePcs
<1>9. QED
  BY <1>1, <1>2, <1>4, <1>5, <1>7, <1>8, UserStep

LEMMA RingStore ==
  ASSUME TypeOK, TokenInv, RingInv, UserInv, NEW w \in Workers, Store(w)
  PROVE  RingInv' /\ UserInv'
<1>1. /\ pc[w] = "store" /\ pc' = [pc EXCEPT ![w] = "count"]
      /\ imagebuffers' =
           [imagebuffers EXCEPT ![local[w].next] = local[w].buffer]
      /\ UNCHANGED <<opQueue, local, taken, curImg>>
  BY DEF Store, Goto
<1>2. pc'[w] = "count" /\ \A v \in Workers \ {w} : pc'[v] = pc[v]
  BY <1>1 DEF TypeOK
<1>3. /\ local[w].next = curImg /\ local[w].buffer = taken
      /\ taken # 0 /\ taken \in Nat
  BY <1>1 DEF RingInv, CaptureInv, Capturing, TypeOK
<1>4. \A v \in Workers \ {w} : pc[v] \notin Capturing
  BY <1>1, AloneCapturing DEF CapturePcs, Capturing
<1>5. Stored = taken - 1 /\ Accounted = taken - 1
  BY <1>1 DEF Stored, Accounted, Capturing
<1>6. Stored' = taken /\ Accounted' = taken - 1
  BY <1>1, <1>2, <1>4 DEF Stored, Accounted, Capturing
<1>7. curImg = SlotOf(taken) /\ curImg \in Slots
  BY <1>5 DEF RingInv, SlotOf, TypeOK
<1>8. /\ imagebuffers'[curImg] = taken
      /\ \A s \in Slots \ {curImg} : imagebuffers'[s] = imagebuffers[s]
  BY <1>1, <1>3, <1>7 DEF TypeOK
<1>9. ASSUME NEW n \in 1 .. taken PROVE Holds(SlotOf(n), n)'
  <2>1. CASE SlotOf(n) = curImg
    BY <1>7, <1>8, <2>1 DEF Holds, SlotOf
  <2>2. CASE SlotOf(n) # curImg
    <3>1. n \in 1 .. Stored
      BY <1>3, <1>5, <1>7, <2>2
    <3>2. n - 1 \in Nat
      BY <1>3
    <3>3. SlotOf(n) \in Slots
      BY <3>2, Quotient DEF SlotOf, Slots
    <3>4. Holds(SlotOf(n), n)
      BY <3>1 DEF RingInv
    <3>5. QED
      BY <1>8, <2>2, <3>3, <3>4 DEF Holds, SlotOf
  <2>3. QED
    BY <2>1, <2>2
<1>10. \A s \in Slots : imagebuffers'[s] <= taken
  <2>1. \A s \in Slots : imagebuffers[s] <= taken - 1
    BY <1>5 DEF RingInv
  <2>2. \A s \in Slots : imagebuffers[s] \in Nat
    BY DEF TypeOK
  <2>3. QED
    BY <1>3, <1>8, <2>1, <2>2
<1>11. \A v \in Workers : CaptureInv(v)'
  BY <1>1, <1>2 DEF RingInv, CaptureInv, Capturing
<1>12. RingInv'
  <2>1. curImg' = Accounted' % MaxSize
    BY <1>1, <1>5, <1>6 DEF RingInv
  <2>2. (\A n \in 1 .. Stored : Holds(SlotOf(n), n))'
    BY <1>6, <1>9 DEF SlotOf
  <2>3. (\A s \in Slots : imagebuffers[s] <= Stored)'
    BY <1>6, <1>10
  <2>4. (\A v \in Workers : CaptureInv(v))'
    BY <1>11
  <2>5. QED
    BY <2>1, <2>2, <2>3, <2>4 DEF RingInv
<1>13. SaveInv(w)' /\ RequestInv(w)'
  BY <1>2, NoUser DEF SavePcs
<1>14. Stored \in Nat /\ Stored' \in Nat /\ Stored <= Stored'
  BY <1>3, <1>5, <1>6
<1>15. QED
  BY <1>1, <1>2, <1>12, <1>13, <1>14, UserStep

LEMMA RingAdvance ==
  ASSUME TypeOK, TokenInv, RingInv, UserInv, NEW w \in Workers,
         AdvanceCurImg(w)
  PROVE  RingInv' /\ UserInv'
<1>1. /\ pc[w] = "advance" /\ pc' = [pc EXCEPT ![w] = "rearm"]
      /\ curImg' = ((curImg + 1) % Word) % MaxSize
      /\ UNCHANGED <<opQueue, local, taken, imagebuffers>>
  BY DEF AdvanceCurImg, Goto
<1>2. pc'[w] = "rearm" /\ \A v \in Workers \ {w} : pc'[v] = pc[v]
  BY <1>1 DEF TypeOK
<1>3. \A v \in Workers \ {w} : pc[v] \notin CapturePcs
  BY <1>1, AloneCapturing DEF CapturePcs, Capturing
<1>4. taken # 0 /\ taken \in Nat
  BY <1>1 DEF RingInv, CaptureInv, Capturing, TypeOK
<1>5. Stored' = Stored
  BY <1>1, <1>2 DEF Stored
<1>6. Accounted = taken - 1 /\ Accounted' = taken
  BY <1>1, <1>2, <1>3 DEF Accounted, CapturePcs, Capturing
<1>7. curImg' = taken % MaxSize
  <2>1. curImg = (taken - 1) % MaxSize /\ taken - 1 \in Nat
    BY <1>4, <1>6 DEF RingInv
  <2>2. curImg' = ((taken - 1) + 1) % MaxSize
    BY <1>1, <2>1, NextSlot
  <2>3. (taken - 1) + 1 = taken
    BY <1>4
  <2>4. QED
    BY <2>2, <2>3
<1>8. \A v \in Workers : CaptureInv(v)'
  BY <1>2, <1>3 DEF CaptureInv, CapturePcs, Capturing
<1>9. RingInv'
  BY <1>1, <1>5, <1>6, <1>7, <1>8 DEF RingInv, Holds
<1>10. SaveInv(w)' /\ RequestInv(w)'
  BY <1>2, NoUser DEF SavePcs
<1>11. QED
  BY <1>1, <1>2, <1>5, <1>9, <1>10, Counts, UserStep

(* The save is posted for the picture just stored, with its slot. *)
LEMMA RingPost ==
  ASSUME TypeOK, TokenInv, RingInv, UserInv, NEW w \in Workers, PostSave(w)
  PROVE  RingInv' /\ UserInv'
<1> DEFINE op == Op("save", local[w].next, local[w].buffer)
<1>1. /\ pc[w] = "post" /\ pc' = [pc EXCEPT ![w] = "bump"]
      /\ opQueue' = Append(opQueue, op)
      /\ UNCHANGED <<local, taken, imagebuffers, curImg>>
  BY DEF PostSave, Goto, Enqueue, ringVars
<1>2. pc'[w] = "bump" /\ \A v \in Workers \ {w} : pc'[v] = pc[v]
  BY <1>1 DEF TypeOK
<1>3. RingInv' /\ Stored' = Stored /\ Stored \in Nat
  BY <1>1, <1>2, RingQuiet DEF Capturing
<1>4. /\ local[w].next = curImg /\ local[w].buffer = taken
      /\ taken # 0 /\ taken \in Nat
  BY <1>1 DEF RingInv, CaptureInv, Capturing, TypeOK
<1>5. \A v \in Workers \ {w} : pc[v] \notin Capturing
  BY <1>1, AloneCapturing DEF CapturePcs, Capturing
<1>6. Stored = taken /\ Accounted = taken - 1
  BY <1>1, <1>5 DEF Stored, Accounted, Capturing
<1>7. Posted(taken, curImg)
  BY <1>4, <1>6 DEF Posted, RingInv, SlotOf
<1>8. op.pic = taken /\ op.arg = curImg
  BY <1>4 DEF Op
<1>9. /\ DOMAIN opQueue' = 1 .. Len(opQueue) + 1
      /\ DOMAIN opQueue = 1 .. Len(opQueue) /\ Len(opQueue) \in Nat
      /\ opQueue'[Len(opQueue) + 1] = op
      /\ \A i \in 1 .. Len(opQueue) : opQueue'[i] = opQueue[i]
  BY <1>1 DEF TypeOK
<1>10. ASSUME NEW i \in Queued("save")'
       PROVE  Posted(opQueue[i].pic, opQueue[i].arg)'
  <2>1. CASE i = Len(opQueue) + 1
    BY <1>3, <1>7, <1>8, <1>9, <2>1 DEF Posted
  <2>2. CASE i # Len(opQueue) + 1
    <3>1. i \in Queued("save") /\ opQueue'[i] = opQueue[i]
      BY <1>9, <2>2 DEF Queued
    <3>2. Posted(opQueue[i].pic, opQueue[i].arg)
      BY <3>1 DEF UserInv
    <3>3. QED
      BY <1>3, <3>1, <3>2 DEF Posted
  <2>3. QED
    BY <2>1, <2>2
<1>11. ASSUME NEW v \in Workers PROVE SaveInv(v)' /\ RequestInv(v)'
  <2>1. CASE v = w
    BY <1>2, <2>1, NoUser DEF SavePcs
  <2>2. CASE v # w
    <3>1. SaveInv(v) /\ RequestInv(v)
      BY DEF UserInv
    <3>2. QED
      BY <1>1, <1>2, <1>3, <2>2, <3>1
         DEF SaveInv, RequestInv, InLap, Wanted, Posted
  <2>3. QED
    BY <2>1, <2>2
<1>12. \A v \in Workers : SaveInv(v)' /\ RequestInv(v)'
  BY <1>11
<1>13. QED
  BY <1>3, <1>10, <1>12 DEF UserInv

LEMMA RingStart ==
  ASSUME TypeOK, RingInv, UserInv, NEW w \in Workers, StartHandler(w)
  PROVE  RingInv' /\ UserInv'
<1> DEFINE head == Head(opQueue)
<1>1. /\ pc[w] = "run" /\ opQueue # << >> /\ opQueue' = Tail(opQueue)
      /\ pc' = [pc EXCEPT ![w] = head.kind]
      /\ local' = [local EXCEPT ![w] = Locals(head.arg, head.pic)]
      /\ UNCHANGED <<taken, imagebuffers, curImg>>
  BY DEF StartHandler, Dequeue, ringVars
<1>2. /\ Len(opQueue) \in Nat \ {0} /\ DOMAIN opQueue = 1 .. Len(opQueue)
      /\ DOMAIN opQueue' = 1 .. Len(opQueue) - 1
      /\ \A i \in 1 .. Len(opQueue) - 1 : opQueue'[i] = opQueue[i + 1]
      /\ head = opQueue[1]
  BY <1>1 DEF TypeOK
<1>3. head.kind \in {"capture", "request", "stop", "save"}
  BY <1>2 DEF TypeOK, Ops
<1>4. /\ pc'[w] = head.kind
      /\ local'[w].pic = head.pic /\ local'[w].arg = head.arg
      /\ \A v \in Workers \ {w} : pc'[v] = pc[v] /\ local'[v] = local[v]
  BY <1>1 DEF TypeOK, Locals
<1>5. RingInv' /\ Stored' = Stored /\ Stored \in Nat
  BY <1>1, <1>3, <1>4, RingQuiet DEF Capturing
<1>6. ASSUME NEW i \in Queued("save")'
      PROVE  Posted(opQueue[i].pic, opQueue[i].arg)'
  <2>1. i + 1 \in Queued("save") /\ opQueue'[i] = opQueue[i + 1]
    BY <1>2 DEF Queued
  <2>2. Posted(opQueue[i + 1].pic, opQueue[i + 1].arg)
    BY <2>1 DEF UserInv
  <2>3. QED
    BY <1>5, <2>1, <2>2 DEF Posted
<1>7. SaveInv(w)' /\ RequestInv(w)'
  <2>1. CASE head.kind = "save"
    <3>1. 1 \in Queued("save")
      BY <1>2, <2>1 DEF Queued
    <3>2. Posted(head.pic, head.arg)
      BY <1>2, <3>1 DEF UserInv
    <3>3. QED
      BY <1>4, <1>5, <2>1, <3>2 DEF SaveInv, RequestInv, Posted
  <2>2. CASE head.kind # "save"
    BY <1>3, <1>4, <2>2, NoUser DEF SavePcs
  <2>3. QED
    BY <2>1, <2>2
<1>8. ASSUME NEW v \in Workers \ {w} PROVE SaveInv(v)' /\ RequestInv(v)'
  <2>1. SaveInv(v) /\ RequestInv(v)
    BY DEF UserInv
  <2>2. QED
    BY <1>4, <1>5, <2>1 DEF SaveInv, RequestInv, InLap, Wanted, Posted
<1>9. \A v \in Workers : SaveInv(v)' /\ RequestInv(v)'
  BY <1>7, <1>8
<1>10. QED
  BY <1>5, <1>6, <1>9 DEF UserInv

LEMMA RingAppend ==
  ASSUME TypeOK, RingInv, UserInv, NEW op, op.kind # "save",
         opQueue' = Append(opQueue, op),
         UNCHANGED <<pc, local, taken, imagebuffers, curImg>>
  PROVE  RingInv' /\ UserInv'
<1>1. /\ DOMAIN opQueue' = 1 .. Len(opQueue) + 1
      /\ DOMAIN opQueue = 1 .. Len(opQueue) /\ Len(opQueue) \in Nat
      /\ opQueue'[Len(opQueue) + 1] = op
      /\ \A i \in 1 .. Len(opQueue) : opQueue'[i] = opQueue[i]
  BY DEF TypeOK
<1>2. RingInv' /\ Stored' = Stored
  BY RingSame
<1>3. ASSUME NEW i \in Queued("save")'
      PROVE  Posted(opQueue[i].pic, opQueue[i].arg)'
  <2>1. i \in Queued("save") /\ opQueue'[i] = opQueue[i]
    BY <1>1 DEF Queued
  <2>2. Posted(opQueue[i].pic, opQueue[i].arg)
    BY <2>1 DEF UserInv
  <2>3. QED
    BY <1>2, <2>1, <2>2 DEF Posted
<1>4. ASSUME NEW v \in Workers PROVE SaveInv(v)' /\ RequestInv(v)'
  <2>1. SaveInv(v) /\ RequestInv(v)
    BY DEF UserInv
  <2>2. QED
    BY <1>2, <2>1 DEF SaveInv, RequestInv, InLap, Wanted, Posted
<1>5. \A v \in Workers : SaveInv(v)' /\ RequestInv(v)'
  BY <1>4
<1>6. QED
  BY <1>2, <1>3, <1>5 DEF UserInv

-----------------------------------------------------------------------------
(* Steps of save_file and getImage                                         *)

LEMMA RingCopy ==
  ASSUME TypeOK, RingInv, UserInv, NEW w \in Workers, SaveCopy(w)
  PROVE  RingInv' /\ UserInv'
<1>1. /\ pc[w] = "save" /\ pc' = [pc EXCEPT ![w] = "write"]
      /\ local' = [local EXCEPT ![w].buffer = imagebuffers[local[w].arg]]
      /\ UNCHANGED <<opQueue, taken, imagebuffers, curImg>>
  BY DEF SaveCopy, Goto, ringVars
<1>2. /\ pc'[w] = "write" /\ local'[w].pic = local[w].pic
      /\ local'[w].arg = local[w].arg
      /\ local'[w].buffer = imagebuffers[local[w].arg]
      /\ \A v \in Workers \ {w} : pc'[v] = pc[v] /\ local'[v] = local[v]
  BY <1>1 DEF TypeOK
<1>3. RingInv' /\ Stored' = Stored /\ Stored \in Nat
  BY <1>1, <1>2, RingQuiet DEF Capturing
<1>4. Posted(local[w].pic, local[w].arg)
  BY <1>1 DEF UserInv, SaveInv, SavePcs
<1>5. Holds(local[w].arg, local[w].pic)
  BY <1>4, ReadSlot
<1>6. SaveInv(w)'
  BY <1>2, <1>3, <1>4, <1>5 DEF SaveInv, Posted, Holds, SlotOf
<1>7. RequestInv(w)'
  BY <1>2 DEF RequestInv
<1>8. QED
  BY <1>1, <1>2, <1>3, <1>6, <1>7, UserStep

LEMMA RingIndexed ==
  ASSUME TypeOK, RingInv, UserInv, NEW w \in Workers, ReadIndex(w)
  PROVE  RingInv' /\ UserInv'
<1> DEFINE k == local[w].arg
<1>1. /\ pc[w] = "index" /\ pc' = [pc EXCEPT ![w] = "copy"]
      /\ local' = [local EXCEPT ![w].next = RingIndex(curImg, k),
                                ![w].seen = Accounted]
      /\ UNCHANGED <<opQueue, taken, imagebuffers, curImg>>
  BY DEF ReadIndex, Goto, ringVars
<1>2. /\ pc'[w] = "copy" /\ local'[w].arg = k
      /\ local'[w].next = RingIndex(curImg, k)
      /\ local'[w].seen = Accounted
      /\ \A v \in Workers \ {w} : pc'[v] = pc[v] /\ local'[v] = local[v]
  BY <1>1 DEF TypeOK
<1>3. RingInv' /\ Stored' = Stored /\ Stored \in Nat
  BY <1>1, <1>2, RingQuiet DEF Capturing
<1>4. /\ curImg = Accounted % MaxSize /\ Accounted \in Nat
      /\ Accounted <= Stored
  BY Counts DEF RingInv
<1>5. ASSUME k \in 0 .. (Accounted % MaxSize) - 1
      PROVE  Posted(Accounted - k, RingIndex(curImg, k))
  <2>1. /\ RingIndex(Accounted % MaxSize, k) = SlotOf(Accounted - k)
        /\ Accounted - k \in 1 .. Accounted
    BY <1>4, <1>5, IndexInLap
  <2>2. QED
    BY <1>3, <1>4, <2>1 DEF Posted
<1>6. RequestInv(w)'
  <2>1. SUFFICES ASSUME InLap(w)'
                 PROVE  Posted(Wanted(w), local[w].next)'
    BY <1>2 DEF RequestInv
  <2>2. k \in 0 .. (Accounted % MaxSize) - 1
    BY <1>2, <2>1 DEF InLap
  <2>3. QED
    BY <1>2, <1>3, <1>5, <2>2 DEF Posted, Wanted
<1>7. SaveInv(w)'
  BY <1>2 DEF SaveInv, SavePcs
<1>8. opQueue' = opQueue
  BY DEF ReadIndex
<1> HIDE DEF k
<1>9. UserInv'
  <2>1. \A v \in Workers \ {w} : pc'[v] = pc[v] /\ local'[v] = local[v]
    BY <1>2
  <2>2. QED
    BY <1>3, <1>6, <1>7, <1>8, <2>1, UserStep
<1>10. QED
  BY <1>3, <1>9

LEMMA RingServed ==
  ASSUME TypeOK, RingInv, UserInv, NEW w \in Workers, CopyImage(w)
  PROVE  RingInv' /\ UserInv'
<1>1. /\ pc[w] = "copy" /\ pc' = [pc EXCEPT ![w] = "respond"]
      /\ local' = [local EXCEPT ![w].buffer = imagebuffers[local[w].next]]
      /\ UNCHANGED <<opQueue, taken, imagebuffers, curImg>>
  BY DEF CopyImage, Goto, ringVars
<1>2. /\ pc'[w] = "respond" /\ local'[w].arg = local[w].arg
      /\ local'[w].seen = local[w].seen
      /\ local'[w].buffer = imagebuffers[local[w].next]
      /\ \A v \in Workers \ {w} : pc'[v] = pc[v] /\ local'[v] = local[v]
  BY <1>1 DEF TypeOK
<1>3. RingInv' /\ Stored' = Stored /\ Stored \in Nat
  BY <1>1, <1>2, RingQuiet DEF Capturing
<1>4. RequestInv(w)'
  <2>1. SUFFICES ASSUME InLap(w)
                 PROVE  /\ imagebuffers[local[w].next] >= Wanted(w)
                        /\ SlotOf(imagebuffers[local[w].next])
                             = SlotOf(Wanted(w))
    BY <1>2 DEF RequestInv, InLap, Wanted, SlotOf
  <2>2. Posted(Wanted(w), local[w].next)
    BY <1>1, <2>1 DEF UserInv, RequestInv
  <2>3. QED
    BY <2>2, ReadSlot DEF Holds, Posted
<1>5. SaveInv(w)'
  BY <1>2 DEF SaveInv, SavePcs
<1>6. QED
  BY <1>1, <1>2, <1>3, <1>4, <1>5, UserStep

(* Everything else that a thread does. *)
OtherStep(w) ==
  \/ CaptureQuit(w) \/ Count(w) \/ DropSave(w) \/ BumpCurrentCount(w)
  \/ Rearm(w) \/ SaveWrite(w) \/ SaveEnd(w) \/ CompareCount(w)
  \/ CompareSize(w) \/ Clamp(w) \/ Respond(w) \/ Stop(w) \/ Leave(w)

LEMMA OtherShapes ==
  ASSUME TypeOK, NEW w \in Workers, OtherStep(w)
  PROVE  /\ UNCHANGED <<opQueue, taken, imagebuffers, curImg>>
         /\ \A v \in Workers \ {w} : pc'[v] = pc[v] /\ local'[v] = local[v]
         /\ \/ /\ pc[w] \notin Capturing
               /\ pc'[w] \notin Capturing \cup SavePcs
               /\ pc'[w] \notin {"grab", "copy", "respond"}
            \/ /\ pc[w] \in Capturing \ {"store"}
               /\ pc'[w] \in Capturing \ {"store"}
               /\ local'[w] = local[w]
            \/ pc[w] = "write" /\ pc'[w] = "saved" /\ local'[w] = local[w]
<1> USE DEF EndHandler, Goto, ringVars, TypeOK, Capturing, SavePcs
<1>1. CASE CaptureQuit(w) \/ Rearm(w) \/ SaveEnd(w) \/ Respond(w)
  BY <1>1 DEF CaptureQuit, Rearm, SaveEnd, Respond
<1>2. CASE Count(w)
  BY <1>2 DEF Count
<1>3. CASE DropSave(w) \/ BumpCurrentCount(w)
  BY <1>3 DEF DropSave, BumpCurrentCount
<1>4. CASE SaveWrite(w)
  BY <1>4 DEF SaveWrite
<1>5. CASE CompareCount(w) \/ CompareSize(w) \/ Clamp(w)
  BY <1>5 DEF CompareCount, CompareSize, Clamp
<1>6. CASE Stop(w) \/ Leave(w)
  BY <1>6 DEF Stop, StopCapture, StopService, Leave, LeaveRun
<1>7. QED
  BY <1>1, <1>2, <1>3, <1>4, <1>5, <1>6 DEF OtherStep

LEMMA RingOther ==
  ASSUME TypeOK, RingInv, UserInv, NEW w \in Workers, OtherStep(w)
  PROVE  RingInv' /\ UserInv'
<1>1. /\ UNCHANGED <<opQueue, taken, imagebuffers, curImg>>
      /\ \A v \in Workers \ {w} : pc'[v] = pc[v] /\ local'[v] = local[v]
  BY OtherShapes
<1>2. CASE /\ pc[w] \notin Capturing
           /\ pc'[w] \notin Capturing \cup SavePcs
           /\ pc'[w] \notin {"grab", "copy", "respond"}
  <2>1. RingInv' /\ Stored' = Stored /\ Stored \in Nat
    BY <1>1, <1>2, RingQuiet
  <2>2. SaveInv(w)' /\ RequestInv(w)'
    BY <1>2, NoUser
  <2>3. QED
    BY <1>1, <2>1, <2>2, UserStep
<1>3. CASE /\ pc[w] \in Capturing \ {"store"}
           /\ pc'[w] \in Capturing \ {"store"}
           /\ local'[w] = local[w]
  <2>1. RingInv' /\ Stored' = Stored /\ Stored \in Nat
    BY <1>1, <1>3, RingQuiet
  <2>2. SaveInv(w)' /\ RequestInv(w)'
    BY <1>3, NoUser DEF Capturing, SavePcs
  <2>3. QED
    BY <1>1, <2>1, <2>2, UserStep
<1>4. CASE pc[w] = "write" /\ pc'[w] = "saved" /\ local'[w] = local[w]
  <2>1. RingInv' /\ Stored' = Stored /\ Stored \in Nat
    BY <1>1, <1>4, RingQuiet DEF Capturing
  <2>2. SaveInv(w)' /\ RequestInv(w)'
    BY <1>4, <2>1 DEF UserInv, SaveInv, RequestInv, SavePcs, Posted
  <2>3. QED
    BY <1>1, <2>1, <2>2, UserStep
<1>5. QED
  BY <1>2, <1>3, <1>4, OtherShapes

-----------------------------------------------------------------------------
(* The invariant holds                                                     *)

LEMMA RingNext ==
  TypeOK /\ TokenInv /\ RingInv /\ UserInv /\ [Next]_vars
    => RingInv' /\ UserInv'
<1> SUFFICES ASSUME TypeOK, TokenInv, RingInv, UserInv, [Next]_vars
             PROVE  RingInv' /\ UserInv'
  OBVIOUS
<1>1. CASE Expire
  BY <1>1, RingAppend DEF Expire, Enqueue, Op, ringVars
<1>2. CASE ReceiveRequest
  BY <1>2, RingAppend DEF ReceiveRequest, Enqueue, Op, ringVars
<1>3. CASE ReceiveSignal
  BY <1>3, RingAppend DEF ReceiveSignal, Enqueue, Op, ringVars
<1>4. ASSUME NEW w \in Workers, Worker(w) PROVE RingInv' /\ UserInv'
  <2>1. CASE StartHandler(w)
    BY <2>1, RingStart
  <2>2. CASE CaptureBegin(w) \/ Grab(w) \/ Store(w) \/ PostSave(w)
             \/ AdvanceCurImg(w)
    BY <2>2, RingBegin, RingGrab, RingStore, RingPost, RingAdvance
  <2>3. CASE SaveCopy(w) \/ ReadIndex(w) \/ CopyImage(w)
    BY <2>3, RingCopy, RingIndexed, RingServed
  <2>4. CASE OtherStep(w)
    BY <2>4, RingOther
  <2>5. QED
    BY <1>4, <2>1, <2>2, <2>3, <2>4
       DEF Worker, Capture, Save, Request, OtherStep
<1>5. CASE UNCHANGED vars
  <2>1. UNCHANGED <<opQueue, pc, local, taken, imagebuffers, curImg>>
    BY <1>5 DEF vars, ringVars
  <2>2. Stored' = Stored /\ Accounted' = Accounted
    BY <2>1 DEF Stored, Accounted
  <2>3. RingInv'
    BY <2>1, <2>2 DEF RingInv, CaptureInv, Holds
  <2>4. UserInv'
    BY <2>1, <2>2
       DEF UserInv, SaveInv, RequestInv, InLap, Wanted, Posted, Queued
  <2>5. QED
    BY <2>3, <2>4
<1>6. QED
  BY <1>1, <1>2, <1>3, <1>4, <1>5 DEF Next, Terminated

LEMMA RingCorrect == Spec => [](TypeOK /\ TokenInv /\ RingInv /\ UserInv)
<1>1. TypeOK /\ TokenInv /\ OrderInv /\ RingInv /\ UserInv /\ [Next]_vars
        => RingInv' /\ UserInv'
  BY RingNext
<1>2. QED
  BY <1>1, RingInit, TypeInit, TypeNext, OrderInit, OrderNext, PTL DEF Spec

(* A stored picture that is less than a lap old is still in its slot; one  *)
(* that is exactly a lap old has been replaced by the last.                *)
LEMMA StillThere ==
  ASSUME TypeOK, RingInv, NEW n \in 1 .. Stored
  PROVE  /\ n > Stored - MaxSize => imagebuffers[SlotOf(n)] = n
         /\ n = Stored - MaxSize => imagebuffers[SlotOf(n)] = Stored
<1> DEFINE b == imagebuffers[SlotOf(n)]
<1>1. Stored \in Nat /\ n - 1 \in Nat
  BY Counts
<1>2. SlotOf(n) \in Slots
  BY <1>1, Quotient DEF SlotOf, Slots
<1>3. b \in Nat /\ b <= Stored /\ b >= n /\ SlotOf(b) = SlotOf(n)
  BY <1>2 DEF RingInv, Holds, TypeOK
<1> HIDE DEF b
<1>4. ASSUME n > Stored - MaxSize, b # n PROVE FALSE
  <2>1. n - 1 < b - 1 /\ (b - 1) - (n - 1) < MaxSize /\ b - 1 \in Nat
    BY <1>1, <1>3, <1>4, SizeAssumption
  <2>2. (n - 1) % MaxSize # (b - 1) % MaxSize
    BY <1>1, <2>1, LapApart
  <2>3. QED
    BY <1>3, <2>2 DEF SlotOf
<1>5. ASSUME n = Stored - MaxSize PROVE b = Stored
  <2>1. /\ n - 1 < Stored - 1 /\ (Stored - 1) - (n - 1) = MaxSize
        /\ Stored - 1 \in Nat
    BY <1>1, <1>5, SizeAssumption
  <2>2. SlotOf(Stored) = SlotOf(n)
    BY <1>1, <2>1, LapApart DEF SlotOf
  <2>3. Stored \in 1 .. Stored
    BY <1>1, <2>1
  <2>4. b >= Stored
    BY <2>2, <2>3 DEF RingInv, Holds, b
  <2>5. QED
    BY <1>1, <1>3, <2>4
<1>6. QED
  BY <1>4, <1>5 DEF b

(* The ring holds the latest MaxSize pictures, each in its slot, and       *)
(* curImg is the slot after the last of them.                              *)
THEOREM RingIsLatest == Spec => []RingHoldsLatest
<1>1. TypeOK /\ RingInv => RingHoldsLatest
  <2> SUFFICES ASSUME TypeOK, RingInv PROVE RingHoldsLatest
    OBVIOUS
  <2>1. curImg = Accounted % MaxSize
    BY DEF RingInv
  <2>2. /\ Stored \in Nat /\ Accounted \in Nat /\ Accounted <= Stored
        /\ Stored <= taken /\ taken <= Accounted + 1
    BY Counts
  <2>3. ASSUME NEW n \in 1 .. Accounted, n > Accounted - MaxSize,
               imagebuffers[SlotOf(n)] # n
        PROVE  /\ n = Accounted - MaxSize + 1
               /\ At(Capturing \ {"store"}) # {}
               /\ imagebuffers[SlotOf(n)] = taken
    <3>1. n \in 1 .. Stored
      BY <2>2
    <3>2. ~ (n > Stored - MaxSize)
      BY <2>3, <3>1, StillThere
    <3>3. Stored = Accounted + 1 /\ taken = Stored
      <4>1. taken \in Nat /\ n \in Nat /\ MaxSize \in Nat
        BY <3>1, SizeAssumption DEF TypeOK
      <4>2. n <= Stored - MaxSize /\ n > Accounted - MaxSize
        BY <2>2, <2>3, <3>2, <4>1
      <4>3. QED
        BY <2>2, <4>1, <4>2
    <3>4. n = Stored - MaxSize
      BY <2>2, <2>3, <3>2, <3>3, SizeAssumption
    <3>5. imagebuffers[SlotOf(n)] = taken
      BY <3>1, <3>3, <3>4, StillThere
    <3>6. \E w \in Workers : pc[w] \in Capturing
      BY <2>2, <3>3 DEF Accounted
    <3>7. \A w \in Workers : pc[w] # "store"
      BY <2>2, <3>3 DEF Stored
    <3>8. At(Capturing \ {"store"}) # {}
      BY <3>6, <3>7 DEF At
    <3>9. n = Accounted - MaxSize + 1
      BY <2>2, <3>3, <3>4, SizeAssumption
    <3>10. QED
      BY <3>5, <3>8, <3>9
  <2>4. QED
    BY <2>1, <2>3 DEF RingHoldsLatest
<1>2. QED
  BY <1>1, RingCorrect, PTL

(* A save writes the picture it was posted for or a newer one of the slot. *)
THEOREM SavesAreCurrent == Spec => []SavesPostedOrNewer
<1>1. UserInv => SavesPostedOrNewer
  BY DEF UserInv, SaveInv, SavesPostedOrNewer, At, SavePcs, Posted
<1>2. QED
  BY <1>1, RingCorrect, PTL

(* A request that stays in the lap is served the picture it asks for, or   *)
(* the one that replaced it while the request was running.                 *)
LEMMA ServedCorrectly == Spec => []ServedInLap
<1>1. UserInv => ServedInLap
  BY DEF UserInv, RequestInv, InLap, Wanted, ServedInLap, At
<1>2. QED
  BY <1>1, RingCorrect, PTL


-----------------------------------------------------------------------------
(* The ledger *)

(* A capture that has taken a picture and neither posted nor dropped it. *)
Fresh == {"store", "count", "post", "drop"}

(* The picture of the capture in progress is the last one and not settled; *)
(* the saves that are queued or running are for different earlier ones,    *)
(* and exactly those that have written are settled.                        *)
FreshInv(w) ==
  pc[w] \in Fresh =>
    local[w].buffer = taken /\ taken # 0 /\ taken \notin settled
QueueInv(i) == opQueue[i].pic \in 1 .. taken /\ opQueue[i].pic \notin settled
SaverInv(v) ==
  pc[v] \in SavePcs =>
    /\ local[v].pic \in 1 .. taken
    /\ local[v].pic \in settled <=> pc[v] = "saved"
    /\ \A w \in Workers : pc[w] \in Fresh => local[v].pic # taken
    /\ \A w \in Workers :
         pc[w] \in SavePcs /\ w # v => local[w].pic # local[v].pic
    /\ \A i \in Queued("save") : opQueue[i].pic # local[v].pic

LedgerInv ==
  /\ settled \subseteq 1 .. taken
  /\ \A w \in Workers : FreshInv(w)
  /\ \A i \in Queued("save") : QueueInv(i)
  /\ \A v \in Workers : SaverInv(v)

LEMMA LedgerInit == Init => LedgerInv
BY DEF Init, IoInit, LedgerInv, FreshInv, SaverInv, Queued, Fresh, SavePcs

(* Steps of a thread that is in no save and has no fresh picture, before   *)
(* and after the step, and leaves the queue alone.                         *)
LEMMA LedgerQuiet ==
  ASSUME TypeOK, NEW w \in Workers,
         \A v \in Workers \ {w} : pc'[v] = pc[v] /\ local'[v] = local[v],
         pc[w] \notin SavePcs \cup Fresh, pc'[w] \notin SavePcs \cup Fresh,
         Queued("save")' = Queued("save"),
         \A i \in Queued("save") : opQueue'[i].pic = opQueue[i].pic,
         UNCHANGED <<taken, settled, pending_count>>
  PROVE  /\ LedgerInv => LedgerInv'
         /\ UNCHANGED Ledger!vars
<1> USE DEF SavePcs, Fresh
<1>1. LedgerInv => LedgerInv'
  BY DEF LedgerInv, FreshInv, QueueInv, SaverInv
<1>2. Counted' = Counted
  BY DEF Counted
<1>3. Unfinished' = Unfinished
  BY DEF Unfinished, QueuedSaves, Queued, At
<1>4. QED
  BY <1>1, <1>2, <1>3 DEF Ledger!vars

-----------------------------------------------------------------------------
(* The steps that the abstract specification sees                          *)

Step == Ledger!Next \/ UNCHANGED Ledger!vars

(* Only one thread runs handle_timeout. *)
LEMMA OneFresh ==
  ASSUME TokenInv, NEW w \in Workers, pc[w] \in CapturePcs
  PROVE  \A v \in Workers \ {w} : pc[v] \notin CapturePcs
BY DEF TokenInv, At

LEMMA LedgerStart ==
  ASSUME TypeOK, OrderInv, LedgerInv, NEW w \in Workers, StartHandler(w)
  PROVE  LedgerInv' /\ Step
<1> DEFINE head == Head(opQueue)
<1>1. /\ pc[w] = "run" /\ opQueue # << >> /\ opQueue' = Tail(opQueue)
      /\ pc' = [pc EXCEPT ![w] = head.kind]
      /\ local' = [local EXCEPT ![w] = Locals(head.arg, head.pic)]
      /\ UNCHANGED <<taken, settled, pending_count>>
  BY DEF StartHandler, Dequeue, saveVars
<1>2. /\ Len(opQueue) \in Nat \ {0} /\ DOMAIN opQueue = 1 .. Len(opQueue)
      /\ DOMAIN opQueue' = 1 .. Len(opQueue) - 1
      /\ \A i \in 1 .. Len(opQueue) - 1 : opQueue'[i] = opQueue[i + 1]
      /\ head = opQueue[1]
  BY <1>1 DEF TypeOK
<1>3. head.kind \in {"capture", "request", "stop", "save"}
  BY <1>2 DEF TypeOK, Ops
<1>4. /\ pc'[w] = head.kind /\ local'[w].pic = head.pic
      /\ \A v \in Workers \ {w} : pc'[v] = pc[v] /\ local'[v] = local[v]
  BY <1>1 DEF TypeOK, Locals
<1>5. CASE head.kind = "save"
  <2>1. 1 \in Queued("save")
    BY <1>2, <1>5 DEF Queued
  <2>2. Queued("save") = {1}
    BY <2>1 DEF OrderInv
  <2>3. Queued("save")' = {}
    <3>1. SUFFICES ASSUME NEW i \in Queued("save")' PROVE FALSE
      OBVIOUS
    <3>2. i \in 1 .. Len(opQueue) - 1 /\ i + 1 \in Queued("save")
      BY <1>2 DEF Queued
    <3>3. QED
      BY <2>2, <3>2
  <2>4. LedgerInv'
    <3>1. \A v \in Workers : FreshInv(v)'
      BY <1>1, <1>4, <1>5 DEF LedgerInv, FreshInv, Fresh
    <3>2. QueueInv(1) /\ \A v \in Workers :
            pc[v] \in SavePcs => opQueue[1].pic # local[v].pic
      BY <2>1 DEF LedgerInv, SaverInv
    <3>a. \A v \in Workers : pc[v] \notin Fresh
      BY <2>1 DEF OrderInv, At, BeforePost, Fresh
    <3>b. \A v \in Workers : pc'[v] \notin Fresh
      BY <1>4, <1>5, <3>a DEF Fresh
    <3>c. head.pic \in 1 .. taken /\ head.pic \notin settled
      BY <1>2, <3>2 DEF QueueInv
    <3>3. SaverInv(w)'
      BY <1>1, <1>2, <1>4, <1>5, <2>3, <3>b, <3>c, <3>2 DEF SaverInv
    <3>4. ASSUME NEW v \in Workers \ {w} PROVE SaverInv(v)'
      BY <1>1, <1>2, <1>4, <1>5, <2>3, <3>2
         DEF LedgerInv, SaverInv, SavePcs, Fresh
    <3>5. QED
      BY <1>1, <2>3, <3>1, <3>3, <3>4 DEF LedgerInv
  <2>5. Counted' = Counted
    BY <1>1, <1>4, <1>5 DEF Counted
  <2>6. Unfinished' = Unfinished
    <3>1. {opQueue'[i].pic : i \in QueuedSaves'} = {}
      BY <2>3 DEF QueuedSaves, Queued
    <3>2. {opQueue[i].pic : i \in QueuedSaves} = {head.pic}
      BY <1>2, <2>2 DEF QueuedSaves, Queued
    <3>3. {local'[v].pic : v \in At(SavePcs)'}
            = {local[v].pic : v \in At(SavePcs)} \cup {head.pic}
      BY <1>1, <1>4, <1>5 DEF At, SavePcs
    <3>4. {local'[v].buffer : v \in At({"post", "drop"})'}
            = {local[v].buffer : v \in At({"post", "drop"})}
      BY <1>1, <1>4, <1>5 DEF At
    <3>5. QED
      BY <3>1, <3>2, <3>3, <3>4 DEF Unfinished
  <2>7. QED
    BY <1>1, <2>4, <2>5, <2>6 DEF Step, Ledger!vars
<1>6. CASE head.kind # "save"
  <2>1. \A i \in Queued("save")' : i \in Nat /\ i + 1 \in Queued("save")
                                  /\ opQueue'[i].pic = opQueue[i + 1].pic
    BY <1>2 DEF Queued
  <2>2. \A i \in Queued("save") :
          i - 1 \in Queued("save")' /\ opQueue'[i - 1].pic = opQueue[i].pic
    BY <1>2, <1>6 DEF Queued
  <2>3. LedgerInv'
    <3>1. \A v \in Workers : FreshInv(v)'
      BY <1>1, <1>3, <1>4, <1>6 DEF LedgerInv, FreshInv, Fresh
    <3>2. \A i \in Queued("save")' : QueueInv(i)'
      BY <1>1, <2>1 DEF LedgerInv, QueueInv
    <3>3. ASSUME NEW v \in Workers PROVE SaverInv(v)'
      <4>1. CASE v = w
        BY <1>3, <1>4, <1>6, <4>1 DEF SaverInv, SavePcs
      <4>2. CASE v # w
        <5>1. SaverInv(v)
          BY DEF LedgerInv
        <5>2. \A u \in Workers : pc'[u] \in SavePcs \cup Fresh =>
                pc'[u] = pc[u] /\ local'[u] = local[u]
          BY <1>3, <1>4, <1>6 DEF SavePcs, Fresh
        <5>3. SUFFICES ASSUME pc'[v] \in SavePcs PROVE SaverInv(v)'
          BY DEF SaverInv
        <5>4. pc'[v] = pc[v] /\ local'[v] = local[v] /\ pc[v] \in SavePcs
          BY <5>2, <5>3
        <5>5. \A i \in Queued("save")' : opQueue'[i].pic # local'[v].pic
          BY <2>1, <5>1, <5>4 DEF SaverInv
        <5>6. \A u \in Workers : pc'[u] \in Fresh => local'[v].pic # taken
          BY <5>1, <5>2, <5>4 DEF SaverInv
        <5>7. \A u \in Workers :
                pc'[u] \in SavePcs /\ u # v => local'[u].pic # local'[v].pic
          BY <5>1, <5>2, <5>4 DEF SaverInv
        <5>8. /\ local'[v].pic \in 1 .. taken
              /\ local'[v].pic \in settled <=> pc'[v] = "saved"
          BY <5>1, <5>4 DEF SaverInv
        <5>9. QED
          BY <1>1, <5>5, <5>6, <5>7, <5>8 DEF SaverInv
      <4>3. QED
        BY <4>1, <4>2
    <3>4. QED
      BY <1>1, <3>1, <3>2, <3>3 DEF LedgerInv
  <2>4. Counted' = Counted
    BY <1>1, <1>3, <1>4 DEF Counted
  <2>5. {opQueue'[i].pic : i \in QueuedSaves'}
          = {opQueue[i].pic : i \in QueuedSaves}
    BY <2>1, <2>2 DEF QueuedSaves, Queued
  <2>6. /\ {local'[v].pic : v \in At(SavePcs)'}
             = {local[v].pic : v \in At(SavePcs)}
        /\ {local'[v].buffer : v \in At({"post", "drop"})'}
             = {local[v].buffer : v \in At({"post", "drop"})}
    BY <1>1, <1>3, <1>4, <1>6 DEF At, SavePcs
  <2>7. QED
    BY <1>1, <2>3, <2>4, <2>5, <2>6 DEF Step, Unfinished, Ledger!vars
<1>7. QED
  BY <1>5, <1>6

(* Pictures are taken one at a time: Take. *)
LEMMA LedgerGrab ==
  ASSUME TypeOK, TokenInv, LedgerInv, NEW w \in Workers, Grab(w)
  PROVE  LedgerInv' /\ Step
<1>1. /\ pc[w] = "grab" /\ pc' = [pc EXCEPT ![w] = "store"]
      /\ taken' = taken + 1 /\ taken \in Nat
      /\ local' = [local EXCEPT ![w].buffer = taken + 1]
      /\ UNCHANGED <<opQueue, settled, pending_count>>
  BY DEF Grab, Goto, saveVars, TypeOK
<1>2. /\ pc'[w] = "store" /\ local'[w].buffer = taken + 1
      /\ \A v \in Workers \ {w} : pc'[v] = pc[v] /\ local'[v] = local[v]
      /\ Queued("save")' = Queued("save")
  BY <1>1 DEF TypeOK, Queued
<1>3. \A v \in Workers \ {w} : pc[v] \notin CapturePcs
  BY <1>1, OneFresh DEF CapturePcs
<1>4. \A v \in Workers : pc[v] \notin Fresh
  BY <1>1, <1>3 DEF CapturePcs, Capturing, Fresh
<1>5. \A n \in 1 .. taken : n \in 1 .. taken' /\ n # taken'
  BY <1>1
<1>6. \A v \in Workers : FreshInv(v)'
  <2>1. taken' # 0 /\ taken' \notin settled
    BY <1>1, <1>5 DEF LedgerInv
  <2>2. QED
    BY <1>1, <1>2, <1>4, <2>1 DEF FreshInv
<1>7. \A i \in Queued("save")' : QueueInv(i)'
  BY <1>1, <1>2, <1>5 DEF LedgerInv, QueueInv
<1>8. ASSUME NEW v \in Workers, pc'[v] \in SavePcs PROVE SaverInv(v)'
  <2>1. v # w /\ pc[v] \in SavePcs /\ SaverInv(v) /\ pc[w] \notin SavePcs
    BY <1>1, <1>2, <1>8 DEF LedgerInv, SavePcs
  <2>2. local'[v].pic \in 1 .. taken' /\ local'[v].pic # taken'
    BY <1>2, <1>5, <2>1 DEF SaverInv
  <2>3. \A u \in Workers :
          pc'[u] \in SavePcs /\ u # v => local'[u].pic # local'[v].pic
    BY <1>2, <2>1 DEF SaverInv, SavePcs
  <2>4. QED
    BY <1>1, <1>2, <2>1, <2>2, <2>3 DEF SaverInv
<1>9. LedgerInv'
  <2>1. settled' \subseteq 1 .. taken'
    BY <1>1, <1>5 DEF LedgerInv
  <2>2. \A v \in Workers : SaverInv(v)'
    BY <1>8 DEF SaverInv
  <2>3. QED
    BY <1>6, <1>7, <2>1, <2>2 DEF LedgerInv
<1>10. Counted = taken /\ Counted' = taken
  BY <1>1, <1>2, <1>4 DEF Counted, Fresh
<1>11. Unfinished' = Unfinished
  <2>1. At(SavePcs)' = At(SavePcs) /\ w \notin At(SavePcs)
    BY <1>1, <1>2 DEF At, SavePcs
  <2>2. At({"post", "drop"})' = At({"post", "drop"})
        /\ w \notin At({"post", "drop"})
    BY <1>1, <1>2 DEF At
  <2>3. QED
    BY <1>1, <1>2, <2>1, <2>2 DEF Unfinished, QueuedSaves, At
<1>12. Ledger!Take
  BY <1>1, <1>10, <1>11 DEF Ledger!Take
<1>13. QED
  BY <1>9, <1>12 DEF Step, Ledger!Next

(* Steps that settle nothing and take, post or start nothing.              *)
LEMMA LedgerSame ==
  ASSUME LedgerInv, UNCHANGED <<opQueue, taken, settled>>,
         \A v \in Workers : pc'[v] \in Fresh =>
           pc[v] \in Fresh /\ local'[v].buffer = local[v].buffer,
         \A v \in Workers : pc'[v] \in SavePcs =>
           /\ pc[v] \in SavePcs /\ local'[v].pic = local[v].pic
           /\ pc'[v] = "saved" <=> pc[v] = "saved"
  PROVE  LedgerInv'
<1>1. Queued("save")' = Queued("save")
  BY DEF Queued
<1>2. \A v \in Workers : FreshInv(v)'
  BY DEF LedgerInv, FreshInv
<1>3. \A i \in Queued("save")' : QueueInv(i)'
  BY <1>1 DEF LedgerInv, QueueInv
<1>4. ASSUME NEW v \in Workers, pc'[v] \in SavePcs PROVE SaverInv(v)'
  <2>1. SaverInv(v)
    BY DEF LedgerInv
  <2>2. \A u \in Workers :
          pc'[u] \in SavePcs /\ u # v => local'[u].pic # local'[v].pic
    BY <1>4, <2>1 DEF SaverInv
  <2>3. \A i \in Queued("save")' : opQueue'[i].pic # local'[v].pic
    BY <1>1, <1>4, <2>1 DEF SaverInv
  <2>4. /\ local'[v].pic \in 1 .. taken'
        /\ local'[v].pic \in settled' <=> pc'[v] = "saved"
    BY <1>4, <2>1 DEF SaverInv
  <2>5. \A u \in Workers : pc'[u] \in Fresh => local'[v].pic # taken'
    BY <1>4, <2>1 DEF SaverInv
  <2>6. QED
    BY <2>2, <2>3, <2>4, <2>5 DEF SaverInv
<1>5. \A v \in Workers : SaverInv(v)'
  BY <1>4 DEF SaverInv
<1>6. QED
  BY <1>2, <1>3, <1>5 DEF LedgerInv

(* The buffer is stored: nothing the abstract specification sees.          *)
LEMMA LedgerStore ==
  ASSUME TypeOK, LedgerInv, NEW w \in Workers, Store(w)
  PROVE  LedgerInv' /\ Step
<1>1. /\ pc[w] = "store" /\ pc' = [pc EXCEPT ![w] = "count"]
      /\ UNCHANGED <<opQueue, local, taken, settled, pending_count>>
  BY DEF Store, Goto, saveVars
<1>2. pc'[w] = "count" /\ \A v \in Workers \ {w} : pc'[v] = pc[v]
  BY <1>1 DEF TypeOK
<1>3. LedgerInv'
  BY <1>1, <1>2, LedgerSame DEF Fresh, SavePcs
<1>4. Counted' = Counted
  BY <1>1, <1>2 DEF Counted
<1>5. /\ At(SavePcs)' = At(SavePcs)
      /\ At({"post", "drop"})' = At({"post", "drop"})
  BY <1>1, <1>2 DEF At, SavePcs
<1>6. Unfinished' = Unfinished
  BY <1>1, <1>5 DEF Unfinished, QueuedSaves
<1>7. QED
  BY <1>1, <1>3, <1>4, <1>6 DEF Step, Ledger!vars

(* ++pending_count: Join.                                                  *)
LEMMA LedgerCount ==
  ASSUME TypeOK, TokenInv, LedgerInv, NEW w \in Workers, Count(w)
  PROVE  LedgerInv' /\ Step
<1>1. /\ pc[w] = "count" /\ pending_count' = pending_count + 1
      /\ UNCHANGED <<opQueue, local, taken, settled>>
  BY DEF Count, Goto
<1>2. PICK to \in {"post", "drop"} : pc' = [pc EXCEPT ![w] = to]
  BY DEF Count, Goto
<1>3. pc'[w] = to /\ \A v \in Workers \ {w} : pc'[v] = pc[v]
  BY <1>2 DEF TypeOK
<1>4. LedgerInv'
  BY <1>1, <1>3, LedgerSame DEF Fresh, SavePcs
<1>5. \A v \in Workers \ {w} : pc[v] \notin Fresh
  BY <1>1, OneFresh DEF Fresh, CapturePcs, Capturing
<1>6. Counted = taken - 1 /\ Counted' = taken
  BY <1>1, <1>3, <1>5 DEF Counted, Fresh
<1>7. taken \in Nat /\ taken # 0 /\ local[w].buffer = taken
  BY <1>1 DEF LedgerInv, FreshInv, Fresh, TypeOK
<1>8. Unfinished' = Unfinished \cup {taken}
  <2>1. At(SavePcs)' = At(SavePcs)
    BY <1>1, <1>3 DEF At, SavePcs
  <2>2. At({"post", "drop"})' = At({"post", "drop"}) \cup {w}
    BY <1>1, <1>3 DEF At
  <2>3. QED
    BY <1>1, <1>7, <2>1, <2>2 DEF Unfinished, QueuedSaves
<1>9. Ledger!Join
  BY <1>1, <1>6, <1>7, <1>8 DEF Ledger!Join
<1>10. QED
  BY <1>4, <1>9 DEF Step, Ledger!Next

(* The save is posted: the picture moves from the capture to the queue.    *)
LEMMA LedgerPost ==
  ASSUME TypeOK, TokenInv, OrderInv, LedgerInv, NEW w \in Workers,
         PostSave(w)
  PROVE  LedgerInv' /\ Step
<1> DEFINE op == Op("save", local[w].next, local[w].buffer)
<1>1. /\ pc[w] = "post" /\ pc' = [pc EXCEPT ![w] = "bump"]
      /\ opQueue' = Append(opQueue, op)
      /\ UNCHANGED <<local, taken, settled, pending_count>>
  BY DEF PostSave, Goto, Enqueue, saveVars
<1>2. pc'[w] = "bump" /\ \A v \in Workers \ {w} : pc'[v] = pc[v]
  BY <1>1 DEF TypeOK
<1>3. /\ local[w].buffer = taken /\ taken \in Nat /\ taken # 0
      /\ taken \notin settled
  BY <1>1 DEF LedgerInv, FreshInv, Fresh, TypeOK
<1>4. /\ Queued("save") = {}
      /\ \A v \in Workers \ {w} : pc[v] \notin Fresh
  BY <1>1, OneFresh
     DEF OrderInv, At, BeforePost, Fresh, CapturePcs, Capturing
<1>5. /\ Queued("save")' = {Len(opQueue) + 1}
      /\ opQueue'[Len(opQueue) + 1].pic = taken
  <2>1. /\ DOMAIN opQueue' = 1 .. Len(opQueue) + 1
        /\ DOMAIN opQueue = 1 .. Len(opQueue) /\ Len(opQueue) \in Nat
        /\ opQueue'[Len(opQueue) + 1] = op
        /\ \A i \in 1 .. Len(opQueue) : opQueue'[i] = opQueue[i]
    BY <1>1 DEF TypeOK
  <2>2. op.kind = "save" /\ op.pic = taken
    BY <1>3 DEF Op
  <2>3. QED
    BY <1>4, <2>1, <2>2 DEF Queued
<1>6. LedgerInv'
  <2>1. \A v \in Workers : pc'[v] \notin Fresh
    BY <1>2, <1>4 DEF Fresh
  <2>2. \A i \in Queued("save")' : QueueInv(i)'
    BY <1>1, <1>3, <1>5 DEF QueueInv
  <2>3. ASSUME NEW v \in Workers, pc'[v] \in SavePcs PROVE SaverInv(v)'
    <3>1. v # w /\ pc[v] \in SavePcs /\ SaverInv(v)
      BY <1>2, <2>3 DEF LedgerInv, SavePcs
    <3>2. local[v].pic # taken
      BY <1>1, <3>1 DEF SaverInv, Fresh
    <3>3. \A u \in Workers : pc'[u] \in SavePcs => pc[u] \in SavePcs
      BY <1>2 DEF SavePcs
    <3>4. QED
      BY <1>1, <1>2, <1>5, <2>1, <3>1, <3>2, <3>3 DEF SaverInv
  <2>4. QED
    BY <1>1, <2>1, <2>2, <2>3 DEF LedgerInv, FreshInv, SaverInv
<1>7. Counted' = Counted
  BY <1>1, <1>2 DEF Counted
<1>8. Unfinished' = Unfinished
  <2>1. {opQueue'[i].pic : i \in QueuedSaves'} = {taken}
    BY <1>5 DEF QueuedSaves, Queued
  <2>2. {opQueue[i].pic : i \in QueuedSaves} = {}
    BY <1>4 DEF QueuedSaves, Queued
  <2>3. At({"post", "drop"}) = {w} /\ At({"post", "drop"})' = {}
    BY <1>1, <1>2, <1>4 DEF At, Fresh
  <2>4. At(SavePcs)' = At(SavePcs)
    BY <1>1, <1>2 DEF At, SavePcs
  <2>5. /\ {local[v].buffer : v \in At({"post", "drop"})} = {taken}
        /\ {local'[v].buffer : v \in At({"post", "drop"})'} = {}
    BY <1>3, <2>3
  <2>6. {local'[v].pic : v \in At(SavePcs)'}
          = {local[v].pic : v \in At(SavePcs)}
    BY <1>1, <2>4
  <2>7. QED
    BY <2>1, <2>2, <2>5, <2>6 DEF Unfinished
<1>9. QED
  BY <1>1, <1>6, <1>7, <1>8 DEF Step, Ledger!vars

(* The picture is dropped: GiveUp.                                         *)
LEMMA LedgerDrop ==
  ASSUME TypeOK, TokenInv, OrderInv, LedgerInv, NEW w \in Workers,
         DropSave(w)
  PROVE  LedgerInv' /\ Step
<1>1. /\ pc[w] = "drop" /\ pc' = [pc EXCEPT ![w] = "bump"]
      /\ pending_count' = pending_count - 1
      /\ settled' = settled \cup {local[w].buffer}
      /\ UNCHANGED <<opQueue, local, taken>>
  BY DEF DropSave, Goto
<1>2. pc'[w] = "bump" /\ \A v \in Workers \ {w} : pc'[v] = pc[v]
  BY <1>1 DEF TypeOK
<1>3. /\ local[w].buffer = taken /\ taken \in Nat /\ taken # 0
      /\ taken \notin settled
  BY <1>1 DEF LedgerInv, FreshInv, Fresh, TypeOK
<1>4. /\ Queued("save") = {} /\ Queued("save")' = {}
      /\ \A v \in Workers \ {w} : pc[v] \notin Fresh
  BY <1>1, OneFresh
     DEF OrderInv, At, BeforePost, Fresh, CapturePcs, Capturing, Queued
<1>5. \A v \in Workers : pc[v] \in SavePcs => local[v].pic # taken
  BY <1>1 DEF LedgerInv, SaverInv, Fresh
<1>6. LedgerInv'
  <2>1. \A v \in Workers : pc'[v] \notin Fresh
    BY <1>2, <1>4 DEF Fresh
  <2>2. ASSUME NEW v \in Workers, pc'[v] \in SavePcs PROVE SaverInv(v)'
    <3>1. v # w /\ pc[v] \in SavePcs /\ SaverInv(v)
      BY <1>2, <2>2 DEF LedgerInv, SavePcs
    <3>2. local[v].pic \in settled' <=> local[v].pic \in settled
      BY <1>1, <1>3, <1>5, <3>1
    <3>3. \A u \in Workers : pc'[u] \in SavePcs => pc[u] \in SavePcs
      BY <1>2 DEF SavePcs
    <3>4. QED
      BY <1>1, <1>2, <1>4, <2>1, <3>1, <3>2, <3>3 DEF SaverInv
  <2>3. settled' \subseteq 1 .. taken'
    BY <1>1, <1>3 DEF LedgerInv
  <2>4. QED
    BY <1>4, <2>1, <2>2, <2>3 DEF LedgerInv, FreshInv, SaverInv
<1>7. Counted = taken /\ Counted' = taken
  BY <1>1, <1>2, <1>4 DEF Counted, Fresh
<1>8. taken \in Unfinished /\ Unfinished' = Unfinished \ {taken}
  <2>1. /\ {opQueue[i].pic : i \in QueuedSaves} = {}
        /\ {opQueue'[i].pic : i \in QueuedSaves'} = {}
    BY <1>4 DEF QueuedSaves, Queued
  <2>2. At({"post", "drop"}) = {w} /\ At({"post", "drop"})' = {}
    BY <1>1, <1>2, <1>4 DEF At, Fresh
  <2>3. /\ {local[v].buffer : v \in At({"post", "drop"})} = {taken}
        /\ {local'[v].buffer : v \in At({"post", "drop"})'} = {}
    BY <1>3, <2>2
  <2>4. At(SavePcs)' = At(SavePcs)
    BY <1>1, <1>2 DEF At, SavePcs
  <2>5. /\ {local'[v].pic : v \in At(SavePcs)'}
             = {local[v].pic : v \in At(SavePcs)}
        /\ taken \notin {local[v].pic : v \in At(SavePcs)}
    BY <1>1, <1>5, <2>4 DEF At
  <2>6. QED
    BY <2>1, <2>3, <2>5 DEF Unfinished
<1>9. Ledger!GiveUp
  BY <1>1, <1>3, <1>7, <1>8 DEF Ledger!GiveUp
<1>10. QED
  BY <1>6, <1>9 DEF Step, Ledger!Next

(* The buffer is copied: nothing the abstract specification sees.          *)
LEMMA LedgerCopy ==
  ASSUME TypeOK, LedgerInv, NEW w \in Workers, SaveCopy(w)
  PROVE  LedgerInv' /\ Step
<1>1. /\ pc[w] = "save" /\ pc' = [pc EXCEPT ![w] = "write"]
      /\ local' = [local EXCEPT ![w].buffer = imagebuffers[local[w].arg]]
      /\ UNCHANGED <<opQueue, taken, settled, pending_count>>
  BY DEF SaveCopy, Goto, saveVars
<1>2. /\ pc'[w] = "write" /\ local'[w].pic = local[w].pic
      /\ \A v \in Workers \ {w} : pc'[v] = pc[v] /\ local'[v] = local[v]
  BY <1>1 DEF TypeOK
<1>3. LedgerInv'
  BY <1>1, <1>2, LedgerSame DEF Fresh, SavePcs
<1>4. Counted' = Counted
  BY <1>1, <1>2 DEF Counted
<1>5. /\ {local'[v].pic : v \in At(SavePcs)'}
           = {local[v].pic : v \in At(SavePcs)}
      /\ {local'[v].buffer : v \in At({"post", "drop"})'}
           = {local[v].buffer : v \in At({"post", "drop"})}
  BY <1>1, <1>2 DEF At, SavePcs
<1>6. Unfinished' = Unfinished
  BY <1>1, <1>5 DEF Unfinished, QueuedSaves
<1>7. QED
  BY <1>1, <1>3, <1>4, <1>6 DEF Step, Ledger!vars

(* The file is written, or not: Save.                                      *)
LEMMA LedgerWrite ==
  ASSUME TypeOK, LedgerInv, NEW w \in Workers, SaveWrite(w)
  PROVE  LedgerInv' /\ Step
<1> DEFINE n == local[w].pic
<1>1. /\ pc[w] = "write" /\ pc' = [pc EXCEPT ![w] = "saved"]
      /\ settled' = settled \cup {n}
      /\ UNCHANGED <<opQueue, local, taken, pending_count>>
  BY DEF SaveWrite, Goto
<1>2. pc'[w] = "saved" /\ \A v \in Workers \ {w} : pc'[v] = pc[v]
  BY <1>1 DEF TypeOK
<1>3. SaverInv(w) /\ pc[w] \in SavePcs
  BY <1>1 DEF LedgerInv, SavePcs
<1>4. n \in 1 .. taken /\ n \notin settled
  BY <1>1, <1>3 DEF SaverInv
<1>5. Queued("save")' = Queued("save")
  BY <1>1 DEF Queued
<1>6. LedgerInv'
  <2>1. \A v \in Workers : FreshInv(v)'
    BY <1>1, <1>2, <1>3 DEF LedgerInv, FreshInv, SaverInv, Fresh
  <2>2. \A i \in Queued("save")' : QueueInv(i)'
    BY <1>1, <1>3, <1>5 DEF LedgerInv, QueueInv, SaverInv
  <2>3. ASSUME NEW v \in Workers, pc'[v] \in SavePcs PROVE SaverInv(v)'
    <3>1. pc[v] \in SavePcs /\ SaverInv(v)
      BY <1>1, <1>2, <2>3 DEF LedgerInv, SavePcs
    <3>2. local[v].pic \in settled' <=> pc'[v] = "saved"
      <4>1. CASE v = w
        BY <1>1, <1>2, <4>1
      <4>2. CASE v # w
        <5>1. local[v].pic # n
          BY <1>3, <3>1, <4>2 DEF SaverInv
        <5>2. QED
          BY <1>1, <1>2, <3>1, <4>2, <5>1 DEF SaverInv
      <4>3. QED
        BY <4>1, <4>2
    <3>3. \A u \in Workers :
            /\ pc'[u] \in SavePcs => pc[u] \in SavePcs
            /\ pc'[u] \in Fresh => pc[u] \in Fresh
      BY <1>1, <1>2 DEF SavePcs, Fresh
    <3>4. QED
      BY <1>1, <1>5, <3>1, <3>2, <3>3 DEF SaverInv
  <2>4. settled' \subseteq 1 .. taken'
    BY <1>1, <1>4 DEF LedgerInv
  <2>5. QED
    BY <2>1, <2>2, <2>3, <2>4 DEF LedgerInv, SaverInv
<1>7. Counted' = Counted
  BY <1>1, <1>2 DEF Counted
<1>8. At(SavePcs)' = At(SavePcs) /\ w \in At(SavePcs)
      /\ At({"post", "drop"})' = At({"post", "drop"})
  BY <1>1, <1>2 DEF At, SavePcs
<1>9. Unfinished' = Unfinished /\ n \in Unfinished
  BY <1>1, <1>8 DEF Unfinished, QueuedSaves
<1>10. Ledger!Save(n)
  BY <1>1, <1>4, <1>7, <1>9 DEF Ledger!Save
<1>11. QED
  BY <1>6, <1>9, <1>10 DEF Step, Ledger!Next

(* --pending_count: Finish.                                                *)
LEMMA LedgerEnd ==
  ASSUME TypeOK, LedgerInv, NEW w \in Workers, SaveEnd(w)
  PROVE  LedgerInv' /\ Step
<1> DEFINE n == local[w].pic
<1>1. /\ pc[w] = "saved" /\ pc' = [pc EXCEPT ![w] = "run"]
      /\ local' = [local EXCEPT ![w] = NoLocals]
      /\ pending_count' = pending_count - 1
      /\ UNCHANGED <<opQueue, taken, settled>>
  BY DEF SaveEnd, EndHandler, Goto
<1>2. /\ pc'[w] = "run"
      /\ \A v \in Workers \ {w} : pc'[v] = pc[v] /\ local'[v] = local[v]
  BY <1>1 DEF TypeOK
<1>3. LedgerInv'
  BY <1>1, <1>2, LedgerSame DEF Fresh, SavePcs
<1>4. SaverInv(w) /\ pc[w] \in SavePcs /\ w \in At(SavePcs)
  BY <1>1 DEF LedgerInv, SavePcs, At
<1>5. n \in settled /\ n \in 1 .. taken
  BY <1>1, <1>4 DEF SaverInv
<1>6. Counted' = Counted
  BY <1>1, <1>2 DEF Counted
<1>7. n \in Unfinished /\ Unfinished' = Unfinished \ {n}
  <2>1. /\ {opQueue'[i].pic : i \in QueuedSaves'}
             = {opQueue[i].pic : i \in QueuedSaves}
        /\ n \notin {opQueue[i].pic : i \in QueuedSaves}
    BY <1>1, <1>4 DEF QueuedSaves, Queued, SaverInv
  <2>2. At(SavePcs)' = At(SavePcs) \ {w}
    BY <1>1, <1>2 DEF At, SavePcs
  <2>3. \A v \in At(SavePcs) \ {w} : local[v].pic # n
    BY <1>4 DEF SaverInv, At
  <2>4. {local'[v].pic : v \in At(SavePcs)'}
          = {local[v].pic : v \in At(SavePcs)} \ {n}
    BY <1>2, <1>4, <2>2, <2>3 DEF At
  <2>5. /\ At({"post", "drop"})' = At({"post", "drop"})
        /\ \A v \in At({"post", "drop"}) :
             local'[v] = local[v] /\ local[v].buffer # n
    BY <1>1, <1>2, <1>4 DEF At, LedgerInv, FreshInv, SaverInv, Fresh
  <2>6. /\ {local'[v].buffer : v \in At({"post", "drop"})'}
             = {local[v].buffer : v \in At({"post", "drop"})}
        /\ n \notin {local[v].buffer : v \in At({"post", "drop"})}
    BY <2>5
  <2>7. n \in {local[v].pic : v \in At(SavePcs)}
    BY <1>4
  <2>8. QED
    BY <2>1, <2>4, <2>6, <2>7 DEF Unfinished
<1>8. Ledger!Finish(n)
  BY <1>1, <1>5, <1>6, <1>7 DEF Ledger!Finish
<1>9. QED
  BY <1>3, <1>7, <1>8 DEF Step, Ledger!Next

-----------------------------------------------------------------------------
(* The steps that it does not see                                          *)

(* Something else than a save is queued.                                   *)
LEMMA LedgerAppend ==
  ASSUME TypeOK, LedgerInv, NEW op, op.kind # "save",
         opQueue' = Append(opQueue, op),
         UNCHANGED <<pc, local, taken, settled, pending_count>>
  PROVE  LedgerInv' /\ Step
<1>1. /\ DOMAIN opQueue' = 1 .. Len(opQueue) + 1
      /\ DOMAIN opQueue = 1 .. Len(opQueue) /\ Len(opQueue) \in Nat
      /\ opQueue'[Len(opQueue) + 1] = op
      /\ \A i \in 1 .. Len(opQueue) : opQueue'[i] = opQueue[i]
  BY DEF TypeOK
<1>2. /\ Queued("save")' = Queued("save")
      /\ \A i \in Queued("save") : opQueue'[i].pic = opQueue[i].pic
  BY <1>1 DEF Queued
<1>3. LedgerInv'
  <2>1. settled' \subseteq 1 .. taken' /\ \A w \in Workers : FreshInv(w)'
    BY DEF LedgerInv, FreshInv
  <2>2. \A i \in Queued("save")' : QueueInv(i)'
    BY <1>2 DEF LedgerInv, QueueInv
  <2>3. \A v \in Workers : SaverInv(v)'
    BY <1>2 DEF LedgerInv, SaverInv
  <2>4. QED
    BY <2>1, <2>2, <2>3 DEF LedgerInv
<1>4. Counted' = Counted /\ Unfinished' = Unfinished
  BY <1>2 DEF Counted, Unfinished, QueuedSaves, Queued, At
<1>5. QED
  BY <1>3, <1>4 DEF Step, Ledger!vars

(* Steps of a capture without a fresh picture, of a request, of the signal *)
(* handler, and of a thread that leaves.                                   *)
QuietStep(w) ==
  \/ CaptureQuit(w) \/ CaptureBegin(w) \/ BumpCurrentCount(w)
  \/ AdvanceCurImg(w) \/ Rearm(w) \/ Request(w) \/ Stop(w) \/ Leave(w)

LEMMA LedgerOther ==
  ASSUME TypeOK, LedgerInv, NEW w \in Workers, QuietStep(w)
  PROVE  LedgerInv' /\ Step
<1>1. /\ UNCHANGED <<opQueue, taken, settled, pending_count>>
      /\ pc[w] \notin SavePcs \cup Fresh
      /\ pc'[w] \notin SavePcs \cup Fresh
      /\ \A v \in Workers \ {w} : pc'[v] = pc[v] /\ local'[v] = local[v]
  <2> USE DEF EndHandler, Goto, saveVars, TypeOK, SavePcs, Fresh
  <2>1. CASE CaptureQuit(w) \/ CaptureBegin(w) \/ BumpCurrentCount(w)
             \/ AdvanceCurImg(w) \/ Rearm(w)
    BY <2>1 DEF CaptureQuit, CaptureBegin, BumpCurrentCount, AdvanceCurImg,
                Rearm
  <2>2. CASE Request(w)
    BY <2>2 DEF Request, CompareCount, CompareSize, Clamp, ReadIndex,
                CopyImage, Respond
  <2>3. CASE Stop(w) \/ Leave(w)
    BY <2>3 DEF Stop, StopCapture, StopService, Leave, LeaveRun
  <2>4. QED
    BY <2>1, <2>2, <2>3 DEF QuietStep
<1>2. Queued("save")' = Queued("save")
  BY <1>1 DEF Queued
<1>3. QED
  BY <1>1, <1>2, LedgerQuiet DEF Step

LEMMA LedgerNext ==
  TypeOK /\ TokenInv /\ OrderInv /\ LedgerInv /\ [Next]_vars
    => LedgerInv' /\ Step
<1> SUFFICES ASSUME TypeOK, TokenInv, OrderInv, LedgerInv, [Next]_vars
             PROVE  LedgerInv' /\ Step
  OBVIOUS
<1>1. CASE Expire
  BY <1>1, LedgerAppend DEF Expire, Enqueue, Op, saveVars
<1>2. CASE ReceiveRequest
  BY <1>2, LedgerAppend DEF ReceiveRequest, Enqueue, Op, saveVars
<1>3. CASE ReceiveSignal
  BY <1>3, LedgerAppend DEF ReceiveSignal, Enqueue, Op, saveVars
<1>4. ASSUME NEW w \in Workers, Worker(w) PROVE LedgerInv' /\ Step
  <2>1. CASE StartHandler(w)
    BY <2>1, LedgerStart
  <2>2. CASE Grab(w) \/ Store(w) \/ Count(w) \/ PostSave(w) \/ DropSave(w)
    BY <2>2, LedgerGrab, LedgerStore, LedgerCount, LedgerPost, LedgerDrop
  <2>3. CASE SaveCopy(w) \/ SaveWrite(w) \/ SaveEnd(w)
    BY <2>3, LedgerCopy, LedgerWrite, LedgerEnd
  <2>4. CASE QuietStep(w)
    BY <2>4, LedgerOther
  <2>5. QED
    BY <1>4, <2>1, <2>2, <2>3, <2>4 DEF Worker, Capture, Save, QuietStep
<1>5. CASE UNCHANGED vars
  <2>1. UNCHANGED <<opQueue, pc, local, taken, settled, pending_count>>
    BY <1>5 DEF vars, saveVars
  <2>2. Counted' = Counted /\ Unfinished' = Unfinished
    BY <2>1 DEF Counted, Unfinished, QueuedSaves, At
  <2>3. LedgerInv'
    BY <2>1 DEF LedgerInv, FreshInv, QueueInv, SaverInv, Queued
  <2>4. QED
    BY <2>1, <2>2, <2>3 DEF Step, Ledger!vars
<1>6. QED
  BY <1>1, <1>2, <1>3, <1>4, <1>5 DEF Next, Terminated

(* The capture server implements the ledger: pictures are counted once and *)
(* in order, saved or given up once, and pending_count goes up and down    *)
(* with the set of unfinished pictures.                                    *)
THEOREM Refinement == Spec => ImplementsLedger
<1>1. Init => LedgerInv
  BY LedgerInit
<1>2. Init => Ledger!Init
  <2>1. SUFFICES ASSUME Init PROVE Ledger!Init
    OBVIOUS
  <2>2. Counted = 0
    BY <2>1 DEF Init, IoInit, Counted
  <2>3. Unfinished = {}
    BY <2>1 DEF Init, IoInit, Unfinished, QueuedSaves, At, SavePcs
  <2>4. QED
    BY <2>1, <2>2, <2>3 DEF Init, Ledger!Init
<1>3. Spec => [](TypeOK /\ TokenInv /\ OrderInv /\ LedgerInv)
  BY <1>1, LedgerNext, TypeInit, TypeNext, OrderInit, OrderNext, PTL
     DEF Spec
<1>4. TypeOK /\ TokenInv /\ OrderInv /\ LedgerInv /\ [Next]_vars
        => [Ledger!Next]_(Ledger!vars)
  BY LedgerNext DEF Step
<1>5. QED
  BY <1>2, <1>3, <1>4, PTL DEF Spec, ImplementsLedger, Ledger!Spec

-----------------------------------------------------------------------------
(* The slot a request reads, whatever k it asks for                        *)

(* A remainder stays when a multiple of the ring is added. *)
LEMMA LapsAdded ==
  ASSUME NEW q \in Nat, NEW x \in Nat
  PROVE  (MaxSize * q + x) % MaxSize = x % MaxSize
<1>1. PICK p \in Nat : x = MaxSize * p + (x % MaxSize)
  BY Quotient
<1>2. x % MaxSize \in 0 .. MaxSize - 1
  BY Quotient
<1>3. MaxSize * (q + p) = MaxSize * q + MaxSize * p
  BY SizeAssumption
<1>4. /\ MaxSize * q \in Nat /\ MaxSize * p \in Nat /\ q + p \in Nat
  BY SizeAssumption
<1> DEFINE r == x % MaxSize
<1>5. (MaxSize * (q + p) + r) % MaxSize = r
  BY <1>2, <1>4, RemainderIs
<1>6. MaxSize * q + x = MaxSize * (q + p) + r
  <2> DEFINE a == MaxSize * q
  <2> DEFINE b == MaxSize * p
  <2>1. x = b + r /\ a \in Nat /\ b \in Nat /\ r \in Nat
        /\ MaxSize * (q + p) = a + b
    BY <1>1, <1>2, <1>3, <1>4
  <2> HIDE DEF a, b, r
  <2>2. a + x = (a + b) + r
    BY <2>1
  <2>3. QED
    BY <2>1, <2>2 DEF a
<1>7. QED
  BY <1>5, <1>6

(* A difference that is negative wraps at the range of an unsigned int. *)
LEMMA Wraps ==
  ASSUME NEW n \in 1 .. MaxSize
  PROVE  (0 - n) % Word = Word - n
<1> DEFINE x == 0 - n
<1> DEFINE q == x \div Word
<1> DEFINE r == x % Word
<1>1. /\ x \in Int /\ Word \in Nat \ {0} /\ n < Word /\ n > 0 /\ n \in Nat
  BY SizeAssumption
<1>2. x = Word * q + r /\ q \in Int /\ r \in 0 .. Word - 1
  BY <1>1
<1> HIDE DEF q, r
<1>3. q = -1
  <2>1. q >= 0 => Word * q >= 0
    BY <1>1, <1>2
  <2>2. q <= -2 => Word * q <= Word * (-2)
    BY <1>1, <1>2
  <2>3. Word * q \in Int /\ Word * (-2) = -(2 * Word)
    BY <1>1, <1>2
  <2>4. ~ (q >= 0)
    BY <1>1, <1>2, <2>1, <2>3
  <2>5. ~ (q <= -2)
    BY <1>1, <1>2, <2>2, <2>3
  <2>6. QED
    BY <1>2, <2>4, <2>5
<1>4. r = Word - n
  BY <1>1, <1>2, <1>3
<1>5. QED
  BY <1>4 DEF r

(* getImage finds another slot for a picture behind slot 0. *)
LEMMA IndexBehind ==
  ASSUME NEW x \in Nat, NEW k \in x % MaxSize .. MaxSize - 1, x >= MaxSize
  PROVE  RingIndex(x % MaxSize, k) = SlotOf(x - k + Word)
<1> DEFINE r == x % MaxSize
<1>1. r \in 0 .. MaxSize - 1 /\ \E q \in Nat : x = MaxSize * q + r
  BY Quotient
<1>2. PICK q \in Nat : x = MaxSize * q + r
  BY <1>1
<1>3. k \in r .. MaxSize - 1
  OBVIOUS
<1> HIDE DEF r
<1> DEFINE m == k + 1 - r
<1>4. m \in 1 .. MaxSize /\ r - 1 - k = 0 - m
  BY <1>1, <1>3, SizeAssumption
<1>5. (r - 1 - k) % Word = Word - m
  BY <1>4, Wraps
<1> DEFINE y == x - k + Word
<1>6. /\ Word - m \in Nat /\ MaxSize * q \in Nat
      /\ y - 1 = MaxSize * q + (Word - m) /\ y \in Int
  BY <1>1, <1>2, <1>3, <1>4, SizeAssumption
<1> HIDE DEF m, y
<1>7. (MaxSize * q + (Word - m)) % MaxSize = (Word - m) % MaxSize
  BY <1>6, LapsAdded
<1>8. RingIndex(r, k) = (Word - m) % MaxSize
  BY <1>5 DEF RingIndex
<1>9. SlotOf(y) = (Word - m) % MaxSize
  BY <1>6, <1>7 DEF SlotOf
<1>10. QED
  BY <1>8, <1>9 DEF r, y

(* Every slot has a number among any MaxSize in sequence. *)
LEMMA LapHasSlot ==
  ASSUME NEW x \in Nat, x >= MaxSize, NEW s \in Slots
  PROVE  \E n \in 1 .. x : n > x - MaxSize /\ SlotOf(n) = s
<1> DEFINE d == x - MaxSize
<1> DEFINE r == d % MaxSize
<1>1. d \in Nat
  BY SizeAssumption
<1>2. r \in 0 .. MaxSize - 1 /\ \E q \in Nat : d = MaxSize * q + r
  BY <1>1, Quotient
<1>3. PICK q \in Nat : d = MaxSize * q + r
  BY <1>2
<1>4. s \in 0 .. MaxSize - 1
  BY DEF Slots
<1> HIDE DEF d, r
<1>5. MaxSize * q \in Nat /\ MaxSize * (q + 1) = MaxSize * q + MaxSize
      /\ q + 1 \in Nat
  BY SizeAssumption
<1> DEFINE m == MaxSize * q
<1> DEFINE n == IF s >= r THEN m + s + 1 ELSE m + MaxSize + s + 1
<1>6. x = d + MaxSize /\ MaxSize \in Nat
  BY SizeAssumption DEF d
<1>7. d = m + r /\ m \in Nat
  BY <1>3, <1>5
<1>8. (m + s) % MaxSize = s /\ (m + MaxSize + s) % MaxSize = s
  BY <1>4, <1>5, RemainderIs
<1> HIDE DEF m
<1>9. n \in 1 .. x /\ n > d
  BY <1>2, <1>4, <1>6, <1>7
<1>10. n - 1 = m + s \/ n - 1 = m + MaxSize + s
  BY <1>4, <1>6, <1>7
<1>11. SlotOf(n) = s
  BY <1>8, <1>10 DEF SlotOf
<1>12. QED
  BY <1>9, <1>11 DEF d

(* Between its index and its response a request holds the slot that        *)
(* RingIndex gave it; once the ring is full, also a picture of that slot.  *)
SeenInv(w) ==
  /\ pc[w] \in {"copy", "respond"} =>
       /\ local[w].seen <= Stored
       /\ local[w].next = RingIndex(local[w].seen % MaxSize, local[w].arg)
  /\ pc[w] = "respond" /\ local[w].seen >= MaxSize =>
       /\ local[w].buffer > local[w].seen - MaxSize
       /\ SlotOf(local[w].buffer) = local[w].next

(* No step of a thread takes a picture out of the ring, and none moves     *)
(* another thread.                                                         *)
LEMMA StoredGrows ==
  ASSUME TypeOK, RingInv, NEW w \in Workers, Worker(w)
  PROVE  /\ Stored' \in Nat /\ Stored <= Stored'
         /\ \A v \in Workers \ {w} : pc'[v] = pc[v] /\ local'[v] = local[v]
<1>1. Stored \in Nat /\ Stored <= taken /\ taken \in Nat /\ taken <= Stored + 1
  <2>1. taken \in Nat
    BY DEF TypeOK
  <2>2. /\ Stored \in Nat /\ Accounted \in Nat
        /\ Accounted <= Stored /\ Stored <= taken /\ taken <= Accounted + 1
    BY Counts
  <2>3. QED
    BY <2>1, <2>2
<1>2. /\ \A v \in Workers \ {w} : pc'[v] = pc[v] /\ local'[v] = local[v]
      /\ \/ taken' = taken /\ pc'[w] # "store"
         \/ taken' = taken + 1 /\ pc'[w] = "store"
  <2>1. CASE StartHandler(w)
    <3>1. Head(opQueue) \in Ops
      BY <2>1 DEF StartHandler, Dequeue, TypeOK
    <3>2. Head(opQueue).kind # "store"
      BY <3>1 DEF Ops
    <3>3. QED
      BY <2>1, <3>2 DEF StartHandler, Dequeue, TypeOK
  <2>2. CASE CaptureBegin(w) \/ Grab(w) \/ Store(w) \/ PostSave(w)
             \/ AdvanceCurImg(w)
    BY <2>2 DEF CaptureBegin, Grab, Store, PostSave, AdvanceCurImg, Goto,
       TypeOK
  <2>3. CASE SaveCopy(w) \/ ReadIndex(w) \/ CopyImage(w)
    BY <2>3 DEF SaveCopy, ReadIndex, CopyImage, Goto, TypeOK
  <2>4. CASE OtherStep(w)
    BY <2>4, OtherShapes DEF Capturing
  <2>5. QED
    BY <2>1, <2>2, <2>3, <2>4 DEF Worker, Capture, Save, Request, OtherStep
<1>3. CASE taken' = taken /\ pc'[w] # "store"
  <2>1. (\E v \in Workers : pc'[v] = "store")
          => \E v \in Workers : pc[v] = "store"
    BY <1>2, <1>3
  <2>2. QED
    BY <1>1, <1>2, <1>3, <2>1 DEF Stored
<1>4. CASE taken' = taken + 1 /\ pc'[w] = "store"
  BY <1>1, <1>2, <1>4 DEF Stored
<1>5. QED
  BY <1>2, <1>3, <1>4
(* A step of one thread that knows what w has seen afterwards. *)
LEMMA SeenStep ==
  ASSUME TypeOK, RingInv, NEW w \in Workers, Worker(w),
         \A v \in Workers : SeenInv(v), SeenInv(w)'
  PROVE  \A v \in Workers : SeenInv(v)'
<1> SUFFICES ASSUME NEW v \in Workers \ {w} PROVE SeenInv(v)'
  OBVIOUS
<1>1. /\ Stored \in Nat /\ Stored' \in Nat /\ Stored <= Stored'
      /\ pc'[v] = pc[v] /\ local'[v] = local[v] /\ SeenInv(v)
  BY Counts, StoredGrows
<1>2. local[v].seen \in Int
  BY DEF TypeOK
<1>3. QED
  BY <1>1, <1>2 DEF SeenInv, SlotOf

(* A handler that is not a request between its index and its response.     *)
LEMMA NotSeeing ==
  ASSUME NEW w \in Workers, pc'[w] \notin {"copy", "respond"}
  PROVE  SeenInv(w)'
BY DEF SeenInv

(* A request notes how many pictures curImg accounts for, and the index of *)
(* its slot.                                                               *)
LEMMA SeenRead ==
  ASSUME TypeOK, RingInv, NEW w \in Workers, ReadIndex(w)
  PROVE  SeenInv(w)'
<1>1. /\ pc'[w] = "copy" /\ local'[w].seen = Accounted
      /\ local'[w].arg = local[w].arg
      /\ local'[w].next = RingIndex(curImg, local[w].arg)
  BY DEF ReadIndex, Goto, TypeOK
<1>2. Stored \in Nat /\ Stored' \in Nat /\ Stored <= Stored'
  BY StoredGrows, Counts DEF Worker, Request
<1>3. Accounted \in Nat /\ Accounted <= Stored
      /\ curImg = Accounted % MaxSize
  BY Counts DEF RingInv
<1>4. QED
  BY <1>1, <1>2, <1>3 DEF SeenInv, RingIndex

(* The slot it copies has been filled once the ring is full.               *)
LEMMA SeenCopy ==
  ASSUME TypeOK, RingInv, NEW w \in Workers, CopyImage(w), SeenInv(w)
  PROVE  SeenInv(w)'
<1> DEFINE x == local[w].seen
<1> DEFINE s == local[w].next
<1>1. /\ pc[w] = "copy" /\ pc'[w] = "respond" /\ local'[w].seen = x
      /\ local'[w].arg = local[w].arg /\ local'[w].next = s
      /\ local'[w].buffer = imagebuffers[s]
  BY DEF CopyImage, Goto, TypeOK
<1>2. Stored \in Nat /\ Stored' \in Nat /\ Stored <= Stored'
  BY StoredGrows, Counts DEF Worker, Request
<1>3. x <= Stored /\ s = RingIndex(x % MaxSize, local[w].arg)
  BY <1>1 DEF SeenInv
<1>4. s \in Slots /\ x \in Int /\ imagebuffers[s] \in Nat
  BY DEF TypeOK
<1>5. ASSUME x >= MaxSize
      PROVE  imagebuffers[s] > x - MaxSize /\ SlotOf(imagebuffers[s]) = s
  <2>1. x \in Nat
    BY <1>4, <1>5, SizeAssumption
  <2>2. PICK n \in 1 .. x : n > x - MaxSize /\ SlotOf(n) = s
    BY <1>4, <1>5, <2>1, LapHasSlot
  <2>3. n \in 1 .. Stored
    BY <1>2, <1>3, <2>1
  <2>4. Holds(s, n)
    BY <2>2, <2>3 DEF RingInv
  <2> HIDE DEF s, x
  <2>5. QED
    BY <1>4, <2>1, <2>2, <2>4, SizeAssumption DEF Holds
<1>6. /\ local'[w].seen <= Stored'
      /\ local'[w].next = RingIndex(local'[w].seen % MaxSize, local'[w].arg)
  BY <1>1, <1>2, <1>3, <1>4
<1>7. local'[w].seen >= MaxSize =>
        /\ local'[w].buffer > local'[w].seen - MaxSize
        /\ SlotOf(local'[w].buffer) = local'[w].next
  BY <1>1, <1>5
<1>8. QED
  BY <1>6, <1>7 DEF SeenInv, RingIndex, SlotOf

(* Every step keeps what the requests know.                                *)
LEMMA SeenNext ==
  TypeOK /\ RingInv /\ (\A w \in Workers : SeenInv(w)) /\ [Next]_vars
    => \A w \in Workers : SeenInv(w)'
<1> SUFFICES ASSUME TypeOK, RingInv, \A w \in Workers : SeenInv(w),
                    [Next]_vars
             PROVE  \A w \in Workers : SeenInv(w)'
  OBVIOUS
<1>1. CASE Expire \/ ReceiveRequest \/ ReceiveSignal \/ UNCHANGED vars
  <2>1. UNCHANGED <<pc, local, taken>>
    BY <1>1 DEF Expire, ReceiveRequest, ReceiveSignal, vars
  <2>2. Stored' = Stored
    BY <2>1 DEF Stored
  <2>3. QED
    BY <2>1, <2>2 DEF SeenInv, SlotOf, RingIndex
<1>2. ASSUME NEW w \in Workers, Worker(w)
      PROVE  \A v \in Workers : SeenInv(v)'
  <2>1. SUFFICES SeenInv(w)'
    BY <1>2, SeenStep
  <2>2. CASE StartHandler(w)
    <3>1. Head(opQueue) \in Ops
      BY <2>2 DEF StartHandler, Dequeue, TypeOK
    <3>2. Head(opQueue).kind \notin {"copy", "respond"}
      BY <3>1 DEF Ops
    <3>3. QED
      BY <2>2, <3>2, NotSeeing DEF StartHandler, Dequeue, TypeOK
  <2>3. CASE CaptureBegin(w) \/ Grab(w) \/ Store(w) \/ PostSave(w)
             \/ AdvanceCurImg(w) \/ SaveCopy(w)
    <3>1. pc'[w] \notin {"copy", "respond"}
      BY <2>3 DEF CaptureBegin, Grab, Store, PostSave, AdvanceCurImg,
         SaveCopy, Goto, TypeOK
    <3>2. QED
      BY <3>1, NotSeeing
  <2>4. CASE ReadIndex(w)
    BY <2>4, SeenRead
  <2>5. CASE CopyImage(w)
    BY <2>5, SeenCopy
  <2>6. CASE OtherStep(w)
    <3>1. pc'[w] \notin {"copy", "respond"}
      BY <2>6, OtherShapes DEF Capturing
    <3>2. QED
      BY <3>1, NotSeeing
  <2>7. QED
    BY <1>2, <2>2, <2>3, <2>4, <2>5, <2>6
       DEF Worker, Capture, Save, Request, OtherStep
<1>3. QED
  BY <1>1, <1>2 DEF Next, Terminated

-----------------------------------------------------------------------------
(* The ring while it fills                                                 *)

(* A capture between its ++currentCount and its curImg has counted one     *)
(* picture more than curImg accounts for.                                  *)
BumpInv ==
  /\ currentCount <= Accounted + 1
  /\ At({"advance"}) = {} => currentCount <= Accounted

(* A step that leaves the captures where they are, or moves one of them    *)
(* among the statements before its ++currentCount.                         *)
LEMMA BumpSame ==
  ASSUME BumpInv, NEW w \in Workers,
         \A v \in Workers \ {w} : pc'[v] = pc[v],
         UNCHANGED <<taken, currentCount>>,
         pc'[w] \in Capturing <=> pc[w] \in Capturing,
         pc'[w] = "advance" <=> pc[w] = "advance"
  PROVE  BumpInv'
<1>1. (\E v \in Workers : pc'[v] \in Capturing)
        <=> \E v \in Workers : pc[v] \in Capturing
  OBVIOUS
<1>2. Accounted' = Accounted
  BY <1>1 DEF Accounted
<1>3. At({"advance"})' = At({"advance"})
  BY DEF At
<1>4. QED
  BY <1>2, <1>3 DEF BumpInv

(* The picture that is taken is not yet accounted for.                     *)
LEMMA BumpGrab ==
  ASSUME TypeOK, TokenInv, BumpInv, NEW w \in Workers, Grab(w)
  PROVE  BumpInv'
<1>1. /\ pc[w] = "grab" /\ pc'[w] = "store" /\ taken' = taken + 1
      /\ taken \in Nat /\ UNCHANGED currentCount
      /\ \A v \in Workers \ {w} : pc'[v] = pc[v]
  BY DEF Grab, Goto, TypeOK, ringVars
<1>2. \A v \in Workers : pc[v] \notin Capturing
  BY <1>1, AloneCapturing DEF CapturePcs, Capturing
<1>3. Accounted = taken
  BY <1>2 DEF Accounted
<1>4. pc'[w] \in Capturing
  BY <1>1 DEF Capturing
<1>5. Accounted' = taken
  BY <1>1, <1>4 DEF Accounted
<1>6. At({"advance"}) = {}
  BY <1>2 DEF At, Capturing
<1>7. QED
  BY <1>1, <1>3, <1>5, <1>6, SizeAssumption DEF BumpInv, TypeOK

(* ++currentCount runs one ahead of curImg.                                *)
LEMMA BumpCount ==
  ASSUME TypeOK, TokenInv, RingInv, BumpInv, NEW w \in Workers,
         BumpCurrentCount(w)
  PROVE  BumpInv'
<1>1. /\ pc[w] = "bump" /\ pc'[w] = "advance" /\ UNCHANGED taken
      /\ currentCount' = currentCount \/ currentCount' = currentCount + 1
      /\ \A v \in Workers \ {w} : pc'[v] = pc[v]
  BY DEF BumpCurrentCount, Goto, TypeOK
<1>2. \A v \in Workers \ {w} : pc[v] \notin CapturePcs
  BY <1>1, AloneCapturing DEF CapturePcs, Capturing
<1>3. At({"advance"}) = {}
  BY <1>1, <1>2 DEF At, CapturePcs, Capturing
<1>4. w \in At({"advance"})'
  BY <1>1 DEF At
<1>5. pc[w] \in Capturing /\ pc'[w] \in Capturing
  BY <1>1 DEF Capturing
<1>6. Accounted' = Accounted
  BY <1>1, <1>5 DEF Accounted
<1>7. currentCount \in Nat
  BY SizeAssumption DEF TypeOK
<1>8. Accounted \in Nat
  BY Counts
<1>9. QED
  BY <1>1, <1>3, <1>4, <1>6, <1>7, <1>8 DEF BumpInv

(* curImg catches up.                                                      *)
LEMMA BumpAdvance ==
  ASSUME TypeOK, TokenInv, RingInv, BumpInv, NEW w \in Workers,
         AdvanceCurImg(w)
  PROVE  BumpInv'
<1>1. /\ pc[w] = "advance" /\ pc'[w] = "rearm"
      /\ UNCHANGED <<taken, currentCount>> /\ taken \in Nat
      /\ \A v \in Workers \ {w} : pc'[v] = pc[v]
  BY DEF AdvanceCurImg, Goto, TypeOK
<1>2. \A v \in Workers \ {w} : pc[v] \notin CapturePcs
  BY <1>1, AloneCapturing DEF CapturePcs, Capturing
<1>3. pc[w] \in Capturing
  BY <1>1 DEF Capturing
<1>4. Accounted = taken - 1
  BY <1>3 DEF Accounted
<1>5. \A v \in Workers : pc'[v] \notin Capturing
  BY <1>1, <1>2 DEF CapturePcs, Capturing
<1>6. Accounted' = taken
  BY <1>1, <1>5 DEF Accounted
<1>7. QED
  BY <1>1, <1>4, <1>6, SizeAssumption DEF BumpInv, TypeOK

(* currentCount never falls, and every step keeps its relation to curImg.  *)
LEMMA BumpNext ==
  TypeOK /\ TokenInv /\ RingInv /\ BumpInv /\ [Next]_vars
    => BumpInv' /\ currentCount <= currentCount'
<1> SUFFICES ASSUME TypeOK, TokenInv, RingInv, BumpInv, [Next]_vars
             PROVE  BumpInv' /\ currentCount <= currentCount'
  OBVIOUS
<1>0. currentCount \in Nat
  BY SizeAssumption DEF TypeOK
<1>1. CASE Expire \/ ReceiveRequest \/ ReceiveSignal \/ UNCHANGED vars
  <2>1. UNCHANGED <<pc, taken, currentCount>>
    BY <1>1 DEF Expire, ReceiveRequest, ReceiveSignal, vars, ringVars
  <2>2. Accounted' = Accounted /\ At({"advance"})' = At({"advance"})
    BY <2>1 DEF Accounted, At
  <2>3. QED
    BY <1>0, <2>1, <2>2 DEF BumpInv
<1>2. ASSUME NEW w \in Workers, Worker(w)
      PROVE  BumpInv' /\ currentCount <= currentCount'
  <2> USE DEF Goto, EndHandler, ringVars, Capturing
  <2>1. CASE StartHandler(w)
    <3>1. Head(opQueue) \in Ops
      BY <2>1 DEF StartHandler, Dequeue, TypeOK
    <3>2. Head(opQueue).kind \notin Capturing
      BY <3>1 DEF Ops
    <3>3. /\ pc[w] = "run" /\ pc'[w] = Head(opQueue).kind
          /\ \A v \in Workers \ {w} : pc'[v] = pc[v]
          /\ UNCHANGED <<taken, currentCount>>
      BY <2>1 DEF StartHandler, Dequeue, TypeOK
    <3>4. QED
      BY <1>0, <3>2, <3>3, BumpSame
  <2>2. CASE Grab(w)
    <3>1. UNCHANGED currentCount
      BY <2>2 DEF Grab
    <3>2. QED
      BY <1>0, <2>2, <3>1, BumpGrab
  <2>3. CASE BumpCurrentCount(w)
    <3>1. currentCount <= currentCount'
      BY <1>0, <2>3 DEF BumpCurrentCount
    <3>2. QED
      BY <2>3, <3>1, BumpCount
  <2>4. CASE AdvanceCurImg(w)
    <3>1. UNCHANGED currentCount
      BY <2>4 DEF AdvanceCurImg
    <3>2. QED
      BY <1>0, <2>4, <3>1, BumpAdvance
  <2>5. CASE CaptureQuit(w) \/ CaptureBegin(w) \/ Store(w) \/ PostSave(w)
             \/ DropSave(w) \/ Rearm(w)
    <3>1. /\ \A v \in Workers \ {w} : pc'[v] = pc[v]
          /\ UNCHANGED <<taken, currentCount>>
          /\ pc'[w] \in Capturing <=> pc[w] \in Capturing
          /\ pc'[w] = "advance" <=> pc[w] = "advance"
      BY <2>5 DEF CaptureQuit, CaptureBegin, Store, PostSave, DropSave,
         Rearm, TypeOK
    <3>2. QED
      BY <1>0, <3>1, BumpSame
  <2>6. CASE Count(w)
    <3>1. /\ \A v \in Workers \ {w} : pc'[v] = pc[v]
          /\ UNCHANGED <<taken, currentCount>>
          /\ pc'[w] \in {"post", "drop"} /\ pc[w] = "count"
      BY <2>6 DEF Count, TypeOK
    <3>2. QED
      BY <1>0, <3>1, BumpSame
  <2>7. CASE Save(w)
    <3>1. /\ \A v \in Workers \ {w} : pc'[v] = pc[v]
          /\ UNCHANGED <<taken, currentCount>>
          /\ pc'[w] \notin Capturing /\ pc[w] \notin Capturing
      BY <2>7 DEF Save, SaveCopy, SaveWrite, SaveEnd, TypeOK
    <3>2. QED
      BY <1>0, <3>1, BumpSame
  <2>8. CASE CompareCount(w) \/ CompareSize(w)
    <3>1. /\ \A v \in Workers \ {w} : pc'[v] = pc[v]
          /\ UNCHANGED <<taken, currentCount>>
          /\ pc'[w] \notin Capturing /\ pc[w] \notin Capturing
      BY <2>8 DEF CompareCount, CompareSize, TypeOK
    <3>2. QED
      BY <1>0, <3>1, BumpSame
  <2>9. CASE Clamp(w) \/ ReadIndex(w) \/ CopyImage(w) \/ Respond(w)
    <3>1. /\ \A v \in Workers \ {w} : pc'[v] = pc[v]
          /\ UNCHANGED <<taken, currentCount>>
          /\ pc'[w] \notin Capturing /\ pc[w] \notin Capturing
      BY <2>9 DEF Clamp, ReadIndex, CopyImage, Respond, TypeOK
    <3>2. QED
      BY <1>0, <3>1, BumpSame
  <2>10. CASE Stop(w) \/ Leave(w)
    <3>1. /\ \A v \in Workers \ {w} : pc'[v] = pc[v]
          /\ UNCHANGED <<taken, currentCount>>
          /\ pc'[w] \notin Capturing /\ pc[w] \notin Capturing
      BY <2>10 DEF Stop, StopCapture, StopService, Leave, LeaveRun, TypeOK
    <3>2. QED
      BY <1>0, <3>1, BumpSame
  <2>11. QED
    BY <1>2, <2>1, <2>2, <2>3, <2>4, <2>5, <2>6, <2>7, <2>8, <2>9, <2>10
       DEF Worker, Capture, Request
<1>3. QED
  BY <1>1, <1>2 DEF Next, Terminated

(* The pictures counted have been stored.                                  *)
LEMMA CountedAreStored ==
  ASSUME TypeOK, TokenInv, RingInv, BumpInv
  PROVE  currentCount <= Stored
<1>1. /\ Stored \in Nat /\ Accounted \in Nat /\ Accounted <= Stored
      /\ currentCount \in Nat
  BY Counts, SizeAssumption DEF TypeOK
<1>2. CASE At({"advance"}) = {}
  BY <1>1, <1>2 DEF BumpInv
<1>3. CASE At({"advance"}) # {}
  <2>1. PICK w \in Workers : pc[w] = "advance"
    BY <1>3 DEF At
  <2>2. \A v \in Workers : pc[v] # "store"
    BY <2>1, AloneCapturing DEF CapturePcs, Capturing
  <2>3. Stored = taken /\ Accounted = taken - 1 /\ taken \in Nat
    BY <2>1, <2>2 DEF Stored, Accounted, Capturing, TypeOK
  <2>4. QED
    BY <1>1, <2>3 DEF BumpInv
<1>4. QED
  BY <1>2, <1>3

(* A request past the tests of currentCount has a k of at most that count, *)
(* unless the ring is full; so it reaches at most two slots behind the     *)
(* first picture.                                                          *)
AskInv(w) ==
  /\ pc[w] = "index" => \/ local[w].arg <= currentCount
                        \/ currentCount = MaxSize
  /\ pc[w] = "copy" => \/ local[w].arg <= local[w].seen + 1
                       \/ Stored >= MaxSize
  /\ pc[w] = "respond" /\ local[w].buffer = 0 =>
       /\ local[w].seen < MaxSize
       /\ \/ local[w].arg < 0
          \/ local[w].arg \in {local[w].seen, local[w].seen + 1}

(* A step of one thread that knows its own k afterwards.                   *)
LEMMA AskStep ==
  ASSUME TypeOK, TypeOK', RingInv, NEW w \in Workers, Worker(w),
         currentCount <= currentCount',
         \A v \in Workers : AskInv(v), AskInv(w)'
  PROVE  \A v \in Workers : AskInv(v)'
<1> SUFFICES ASSUME NEW v \in Workers \ {w} PROVE AskInv(v)'
  OBVIOUS
<1>1. /\ Stored \in Nat /\ Stored' \in Nat /\ Stored <= Stored'
      /\ pc'[v] = pc[v] /\ local'[v] = local[v] /\ AskInv(v)
  BY Counts, StoredGrows
<1>3. MaxSize \in Nat
  BY SizeAssumption
<1>a. currentCount \in 0 .. MaxSize /\ currentCount' \in 0 .. MaxSize
  BY DEF TypeOK
<1>b. local[v].seen \in Int /\ local[v].arg \in Int
  BY DEF TypeOK
<1>2. /\ local[v].seen \in Int /\ local[v].arg \in Int
      /\ currentCount \in Int /\ currentCount' \in Int
      /\ currentCount <= MaxSize /\ currentCount' <= MaxSize
  BY <1>3, <1>a, <1>b
<1>4. pc[v] = "index" => \/ local[v].arg <= currentCount'
                         \/ currentCount' = MaxSize
  BY <1>1, <1>2, <1>3 DEF AskInv
<1>5. pc[v] = "copy" => \/ local[v].arg <= local[v].seen + 1
                        \/ Stored' >= MaxSize
  BY <1>1, <1>2, <1>3 DEF AskInv
<1>6. QED
  BY <1>1, <1>4, <1>5 DEF AskInv

LEMMA NotAsking ==
  ASSUME NEW w \in Workers, pc'[w] \notin {"index", "copy", "respond"}
  PROVE  AskInv(w)'
BY DEF AskInv

(* The tests against currentCount.                                         *)
LEMMA AskCompared ==
  ASSUME TypeOK, NEW w \in Workers,
         CompareCount(w) \/ CompareSize(w) \/ Clamp(w)
  PROVE  AskInv(w)'
<1>1. currentCount \in 0 .. MaxSize /\ MaxSize \in Nat
      /\ local[w].arg \in Int /\ UNCHANGED currentCount
  BY SizeAssumption
     DEF TypeOK, CompareCount, CompareSize, Clamp, ringVars
<1>2. CASE CompareCount(w)
  <2>1. /\ local' = local
        /\ pc'[w] = IF local[w].arg > currentCount
                    THEN "compareSize" ELSE "index"
    BY <1>2 DEF CompareCount, Goto, TypeOK
  <2>2. QED
    BY <1>1, <2>1 DEF AskInv
<1>3. CASE CompareSize(w)
  <2>1. pc'[w] = IF currentCount < MaxSize THEN "clamp" ELSE "index"
    BY <1>3 DEF CompareSize, Goto, TypeOK
  <2>2. QED
    BY <1>1, <2>1 DEF AskInv
<1>4. CASE Clamp(w)
  <2>1. pc'[w] = "index" /\ local'[w].arg = currentCount - 1
    BY <1>4 DEF Clamp, Goto, TypeOK
  <2>2. QED
    BY <1>1, <2>1 DEF AskInv
<1>5. QED
  BY <1>2, <1>3, <1>4

(* What curImg accounts for is at most one behind currentCount.            *)
LEMMA AskRead ==
  ASSUME TypeOK, TokenInv, RingInv, BumpInv, NEW w \in Workers,
         ReadIndex(w), AskInv(w)
  PROVE  AskInv(w)'
<1>1. /\ pc[w] = "index" /\ pc'[w] = "copy" /\ local'[w].seen = Accounted
      /\ local'[w].arg = local[w].arg
  BY DEF ReadIndex, Goto, TypeOK
<1>2. /\ Stored \in Nat /\ Stored' \in Nat /\ Stored <= Stored'
      /\ Accounted \in Nat
  BY StoredGrows, Counts DEF Worker, Request
<1>3. currentCount \in Nat /\ local[w].arg \in Int /\ MaxSize \in Nat
  BY SizeAssumption DEF TypeOK
<1>4. CASE local[w].arg <= currentCount
  <2>1. local[w].arg <= Accounted + 1
    BY <1>2, <1>3, <1>4 DEF BumpInv
  <2>2. QED
    BY <1>1, <2>1 DEF AskInv
<1>5. CASE currentCount = MaxSize
  <2>1. Stored' >= MaxSize
    BY <1>2, <1>3, <1>5, CountedAreStored
  <2>2. QED
    BY <1>1, <2>1 DEF AskInv
<1>6. QED
  BY <1>1, <1>4, <1>5 DEF AskInv

(* Every slot of a full ring has a picture; a k on this side of slot 0     *)
(* finds one in any case.                                                  *)
LEMMA AskCopy ==
  ASSUME TypeOK, RingInv, UserInv, UserInv', NEW w \in Workers,
         CopyImage(w), SeenInv(w), AskInv(w)
  PROVE  AskInv(w)'
<1> DEFINE x == local[w].seen
<1> DEFINE k == local[w].arg
<1> DEFINE s == local[w].next
<1>1. /\ pc[w] = "copy" /\ pc'[w] = "respond" /\ local'[w].seen = x
      /\ local'[w].arg = k /\ local'[w].buffer = imagebuffers[s]
  BY DEF CopyImage, Goto, TypeOK
<1>2. /\ Stored \in Nat /\ x <= Stored /\ x \in Int /\ k \in Int
      /\ s \in Slots /\ imagebuffers[s] \in Nat /\ MaxSize \in Nat
  BY <1>1, Counts, SizeAssumption DEF TypeOK, SeenInv
<1> HIDE DEF x, k, s
<1>3. SUFFICES ASSUME imagebuffers[s] = 0
               PROVE  x < MaxSize /\ (k < 0 \/ k \in {x, x + 1})
  BY <1>1 DEF AskInv
<1>4. Stored < MaxSize
  <2>1. SUFFICES ASSUME Stored >= MaxSize PROVE FALSE
    BY <1>2
  <2>2. PICK n \in 1 .. Stored : n > Stored - MaxSize /\ SlotOf(n) = s
    BY <1>2, <2>1, LapHasSlot
  <2>3. Holds(s, n)
    BY <2>2 DEF RingInv
  <2>4. QED
    BY <1>3, <2>2, <2>3 DEF Holds
<1>5. k <= x + 1
  BY <1>1, <1>2, <1>4 DEF AskInv, x, k
<1>6. ASSUME k \in 0 .. x - 1 PROVE FALSE
  <2>1. x \in 0 .. MaxSize - 1
    BY <1>2, <1>4, <1>6
  <2>2. x % MaxSize = x
    BY <2>1, SmallRemainder
  <2>3. local'[w].arg \in 0 .. (local'[w].seen % MaxSize) - 1
    BY <1>1, <1>6, <2>2
  <2>4. local'[w].buffer >= local'[w].seen - local'[w].arg
    BY <1>1, <2>3 DEF UserInv, RequestInv, InLap, Wanted
  <2>5. QED
    BY <1>1, <1>2, <1>3, <1>6, <2>4
<1>7. QED
  BY <1>2, <1>4, <1>5, <1>6

LEMMA AskNext ==
  ASSUME TypeOK, TokenInv, RingInv, UserInv, BumpInv,
         \A w \in Workers : SeenInv(w), \A w \in Workers : AskInv(w),
         TypeOK', UserInv', [Next]_vars
  PROVE  \A w \in Workers : AskInv(w)'
<1>1. CASE Expire \/ ReceiveRequest \/ ReceiveSignal \/ UNCHANGED vars
  <2>1. UNCHANGED <<pc, local, taken, currentCount>>
    BY <1>1 DEF Expire, ReceiveRequest, ReceiveSignal, vars, ringVars
  <2>2. Stored' = Stored
    BY <2>1 DEF Stored
  <2>3. QED
    BY <2>1, <2>2 DEF AskInv
<1>2. ASSUME NEW w \in Workers, Worker(w)
      PROVE  \A v \in Workers : AskInv(v)'
  <2>0. currentCount <= currentCount'
    BY <1>2, BumpNext DEF Next
  <2>1. SUFFICES AskInv(w)'
    BY <1>2, <2>0, AskStep
  <2>a. opQueue \in Seq(Ops) /\ pc \in [Workers -> Pcs]
    BY DEF TypeOK
  <2>2. CASE StartHandler(w)
    <3>1. Head(opQueue) \in Ops
      BY <2>2, <2>a DEF StartHandler, Dequeue
    <3>2. Head(opQueue).kind \notin {"index", "copy", "respond"}
      BY <3>1 DEF Ops
    <3>3. pc'[w] = Head(opQueue).kind
      BY <2>2, <2>a DEF StartHandler, Dequeue
    <3>4. QED
      BY <3>2, <3>3, NotAsking
  <2>3. CASE Capture(w)
    <3>1. CASE Count(w)
      <4>1. pc'[w] \in {"post", "drop"}
        BY <2>a, <3>1 DEF Count, Goto
      <4>2. QED
        BY <4>1, NotAsking
    <3>2. CASE ~ Count(w)
      <4>1. pc'[w] \notin {"index", "copy", "respond"}
        BY <2>3, <2>a, <3>2 DEF Capture, CaptureQuit, CaptureBegin, Grab,
           Store, PostSave, DropSave, BumpCurrentCount, AdvanceCurImg, Rearm,
           EndHandler, Goto
      <4>2. QED
        BY <4>1, NotAsking
    <3>3. QED
      BY <3>1, <3>2
  <2>4. CASE Save(w) \/ Respond(w) \/ Stop(w) \/ Leave(w)
    <3>1. pc'[w] \notin {"index", "copy", "respond"}
      BY <2>4, <2>a DEF Save, SaveCopy, SaveWrite, SaveEnd, Respond, Stop,
         StopCapture, StopService, Leave, LeaveRun, EndHandler, Goto
    <3>2. QED
      BY <3>1, NotAsking
  <2>5. CASE CompareCount(w) \/ CompareSize(w) \/ Clamp(w)
    BY <2>5, AskCompared
  <2>6. CASE ReadIndex(w)
    BY <2>6, AskRead
  <2>7. CASE CopyImage(w)
    BY <2>7, AskCopy
  <2>8. QED
    BY <1>2, <2>2, <2>3, <2>4, <2>5, <2>6, <2>7 DEF Worker, Request
<1>3. QED
  BY <1>1, <1>2 DEF Next, Terminated

(* A request whose k stays on this side of slot 0 is served the picture it *)
(* asks for or the one that replaced it; whatever its k, once the ring has *)
(* been filled it is served one of the last MaxSize pictures before its    *)
(* reading of curImg or a later one, and the slot that a k behind slot 0   *)
(* finds is off by the range of an unsigned int; and while the ring fills  *)
(* it is served no picture only when k is one of the two values that the   *)
(* test against currentCount lets through, or negative.                    *)
THEOREM ServedByRing == Spec => []ServedFromRing
<1> DEFINE Seen == \A w \in Workers : SeenInv(w)
<1> DEFINE Asked == \A w \in Workers : AskInv(w)
<1>1. TypeOK /\ TokenInv /\ RingInv /\ UserInv /\ Seen /\ [Next]_vars
        => Seen'
  BY SeenNext
<1>2. Init => Seen
  BY DEF Init, IoInit, SeenInv
<1>a. TypeOK /\ TokenInv /\ RingInv /\ UserInv /\ Seen /\ BumpInv /\ Asked
        /\ TypeOK' /\ UserInv' /\ [Next]_vars
          => BumpInv' /\ Asked'
  BY BumpNext, AskNext
<1>b. Init => BumpInv /\ Asked
  BY DEF Init, IoInit, BumpInv, AskInv, Accounted, At, Capturing
<1>c. Asked => UnfilledByTwo
  BY DEF AskInv, UnfilledByTwo, At
<1>3. TypeOK /\ RingInv /\ Seen => ServedBehind
  <2> SUFFICES ASSUME TypeOK, RingInv, Seen, NEW w \in At({"respond"}),
                      local[w].seen >= MaxSize
               PROVE  /\ local[w].buffer > local[w].seen - MaxSize
                      /\ local[w].arg
                            \in local[w].seen % MaxSize .. MaxSize - 1 =>
                         SlotOf(local[w].buffer)
                           = SlotOf(local[w].seen - local[w].arg + Word)
    BY DEF ServedBehind
  <2>1. w \in Workers /\ pc[w] = "respond" /\ local[w].seen \in Nat
    BY SizeAssumption DEF At, TypeOK
  <2>2. /\ local[w].buffer > local[w].seen - MaxSize
        /\ SlotOf(local[w].buffer)
              = RingIndex(local[w].seen % MaxSize, local[w].arg)
    BY <2>1 DEF SeenInv
  <2>3. QED
    BY <2>1, <2>2, IndexBehind
<1>4. ServedInLap /\ ServedBehind /\ UnfilledByTwo => ServedFromRing
  BY DEF ServedFromRing
<1>5. QED
  BY <1>1, <1>2, <1>a, <1>b, <1>c, <1>3, <1>4, RingCorrect,
     ServedCorrectly, PTL DEF Spec

=============================================================================
