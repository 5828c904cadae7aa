--------------------------- MODULE CaptureServer ---------------------------
(***************************************************************************)
(* The capture side of the server (src/src/timer.cpp) run by the threads   *)
(* of main() (src/src/simple_http_server.cpp): the timer handler takes a   *)
(* picture, stores it in a ring of buffers and posts a handler that saves  *)
(* the buffer to a file; HTTP requests read the ring; a signal stops the   *)
(* capture and then the io_service.                                        *)
(*                                                                         *)
(* One action per statement that touches shared state; a critical section  *)
(* under a buffer's mutex is one action.  A picture is its number: the     *)
(* n-th picture taken is n, and 0 is a buffer that was never filled.  Time *)
(* is left out: an armed timer may expire at any moment.                   *)
(***************************************************************************)
EXTENDS IoContext

CONSTANTS
  MaxSize,        \* maxSize: buffers in the ring (100)
  Word,           \* values of an unsigned int (2^32)
  MaxFileCount,   \* max_file_count, from options.json (1000)
  QueueFloor,     \* the literal of the backlog test (10)
  Ks,             \* values of k that requests ask for
  MaxPictures,    \* bound: pictures taken
  MaxRequests     \* bound: requests received

ASSUME SizeAssumption ==
  /\ MaxSize \in Nat \ {0}
  /\ Word \in Nat /\ Word > MaxSize
ASSUME LimitAssumption == MaxFileCount \in Nat /\ QueueFloor \in Nat
ASSUME BoundAssumption == MaxPictures \in Nat /\ MaxRequests \in Nat
ASSUME RequestAssumption == Ks \subseteq Int

VARIABLES
  quitFlag,        \* quitFlag
  armed,           \* the timer has a pending async_wait
  pending_count,   \* pending_count
  curImg,          \* curImg
  currentCount,    \* currentCount
  imagebuffers,    \* imagebuffers[i].buffer: number of the picture in it
  file,            \* picture in the file <prefix>%04d.jpg of each slot
  local,           \* the arguments and local variables of running handlers
  taken,           \* number of pictures taken by the camera
  takenAtQuit,     \* value of taken when quitFlag was set
  settled,         \* pictures whose save was attempted or was given up
  received,        \* requests received
  answered         \* requests answered

ringVars == <<curImg, currentCount, imagebuffers>>
saveVars == <<pending_count, file, settled>>
requestVars == <<received, answered>>
quitVars == <<quitFlag, takenAtQuit>>
vars == <<opQueue, stopped, pc, quitVars, armed, local, taken,
          ringVars, saveVars, requestVars>>

Slots == 0 .. MaxSize - 1

(* A queued handler with its bound argument: the slot of a save_file, the  *)
(* k of a request.  pic is the picture a save was posted for.              *)
Op(kind, arg, pic) == [kind |-> kind, arg |-> arg, pic |-> pic]

(* Locals of a handler: next and buffer of all three handlers, k or        *)
(* file_number as arg; seen is how many pictures curImg accounted for when *)
(* a request read it.                                                      *)
Locals(arg, pic) ==
  [arg |-> arg, pic |-> pic, next |-> 0, buffer |-> 0, seen |-> 0]
NoLocals == Locals(0, 0)

(* A capture between taking its picture and moving curImg past it. *)
Capturing == {"store", "count", "post", "drop", "bump", "advance"}
CapturePcs == {"capture", "grab", "rearm"} \cup Capturing
SavePcs == {"save", "write", "saved"}

(* Pictures that curImg accounts for. *)
Accounted ==
  IF \E w \in Workers : pc[w] \in Capturing THEN taken - 1 ELSE taken

SlotOf(n) == (n - 1) % MaxSize

-----------------------------------------------------------------------------

(* setTimer and the static initialisers; main then starts the threads. *)
Init ==
  /\ IoInit
  /\ quitFlag = FALSE
  /\ armed = TRUE
  /\ pending_count = 0
  /\ curImg = 0
  /\ currentCount = 0
  /\ imagebuffers = [s \in Slots |-> 0]
  /\ file = [s \in Slots |-> 0]
  /\ local = [w \in Workers |-> NoLocals]
  /\ taken = 0
  /\ takenAtQuit = 0
  /\ settled = {}
  /\ received = 0
  /\ answered = 0

(* The reactor finds the timer expired and queues handle_timeout. *)
Expire ==
  /\ armed /\ ~ stopped
  /\ taken < MaxPictures
  /\ armed' = FALSE
  /\ Enqueue(Op("capture", 0, 0))
  /\ UNCHANGED <<stopped, pc, quitVars, local, taken, ringVars, saveVars,
                 requestVars>>

(* A complete GET /img.jpg?prev=k has been read from some connection. *)
ReceiveRequest ==
  /\ ~ stopped
  /\ received < MaxRequests
  /\ received' = received + 1
  /\ \E k \in Ks : Enqueue(Op("request", k, 0))
  /\ UNCHANGED <<stopped, pc, quitVars, armed, local, taken, ringVars,
                 saveVars, answered>>

(* SIGINT, SIGTERM or SIGQUIT.  async_wait is not called again, so the     *)
(* handler runs for the first signal only.                                 *)
StopPending ==
  \/ \E i \in DOMAIN opQueue : opQueue[i].kind = "stop"
  \/ \E w \in Workers : pc[w] \in {"stop", "stopIo"}

ReceiveSignal ==
  /\ ~ stopped /\ ~ quitFlag /\ ~ StopPending
  /\ Enqueue(Op("stop", 0, 0))
  /\ UNCHANGED <<stopped, pc, quitVars, armed, local, taken, ringVars,
                 saveVars, requestVars>>

(* A thread of the pool takes the next handler. *)
StartHandler(w) ==
  /\ Dequeue(w)
  /\ local' =
       [local EXCEPT ![w] = Locals(Head(opQueue).arg, Head(opQueue).pic)]
  /\ UNCHANGED <<quitVars, armed, taken, ringVars, saveVars, requestVars>>

(* The handler of w returns: its locals are gone. *)
EndHandler(w, from) ==
  /\ Goto(w, from, "run")
  /\ local' = [local EXCEPT ![w] = NoLocals]

-----------------------------------------------------------------------------
(* handle_timeout *)

(* if (!quitFlag): a capture that finds the flag set does not rearm. *)
CaptureQuit(w) ==
  /\ quitFlag
  /\ EndHandler(w, "capture")
  /\ UNCHANGED <<opQueue, stopped, quitVars, armed, taken, ringVars,
                 saveVars, requestVars>>

(* Mutant: the timer is rearmed before the picture is taken. *)
CaptureBeginRearmed(w) ==
  /\ ~ quitFlag
  /\ Goto(w, "capture", "grab")
  /\ local' = [local EXCEPT ![w].next = curImg]
  /\ armed' = TRUE
  /\ UNCHANGED <<opQueue, stopped, quitVars, taken, ringVars, saveVars,
                 requestVars>>

(* Mutant: quitFlag is not tested. *)
CaptureBeginAlways(w) ==
  /\ Goto(w, "capture", "grab")
  /\ local' = [local EXCEPT ![w].next = curImg]
  /\ UNCHANGED <<opQueue, stopped, quitVars, armed, taken, ringVars,
                 saveVars, requestVars>>

(* next = curImg *)
CaptureBegin(w) ==
  /\ ~ quitFlag
  /\ Goto(w, "capture", "grab")
  /\ local' = [local EXCEPT ![w].next = curImg]
  /\ UNCHANGED <<opQueue, stopped, quitVars, armed, taken, ringVars,
                 saveVars, requestVars>>

(* grabPicture: the result of takePicture is not looked at. *)
Grab(w) ==
  /\ Goto(w, "grab", "store")
  /\ taken' = taken + 1
  /\ local' = [local EXCEPT ![w].buffer = taken + 1]
  /\ UNCHANGED <<opQueue, stopped, quitVars, armed, ringVars, saveVars,
                 requestVars>>

(* imagebuffers[next].buffer.swap(buffer) under the buffer's mutex *)
Store(w) ==
  /\ Goto(w, "store", "count")
  /\ imagebuffers' = [imagebuffers EXCEPT ![local[w].next] = local[w].buffer]
  /\ UNCHANGED <<opQueue, stopped, quitVars, armed, local, taken, curImg,
                 currentCount, saveVars, requestVars>>

(* files_in_queue < max_file_count / 10 || files_in_queue < 10 *)
BelowLimit(files_in_queue) ==
  \/ files_in_queue < MaxFileCount \div 10
  \/ files_in_queue < QueueFloor

(* files_in_queue = ++pending_count, and the branch it decides *)
Count(w) ==
  /\ pending_count' = pending_count + 1
  /\ Goto(w, "count", IF BelowLimit(pending_count') THEN "post" ELSE "drop")
  /\ UNCHANGED <<opQueue, stopped, quitVars, armed, local, taken, ringVars,
                 file, settled, requestVars>>

(* Mutant: the slot after the one just stored is saved. *)
PostNextSave(w) ==
  /\ Goto(w, "post", "bump")
  /\ Enqueue(Op("save", (local[w].next + 1) % MaxSize, local[w].buffer))
  /\ UNCHANGED <<stopped, quitVars, armed, local, taken, ringVars, saveVars,
                 requestVars>>

(* asio::post(save_file(next)) *)
PostSave(w) ==
  /\ Goto(w, "post", "bump")
  /\ Enqueue(Op("save", local[w].next, local[w].buffer))
  /\ UNCHANGED <<stopped, quitVars, armed, local, taken, ringVars, saveVars,
                 requestVars>>

(* Mutant: the count of a dropped save is not taken back. *)
DropWithoutDecrement(w) ==
  /\ Goto(w, "drop", "bump")
  /\ settled' = settled \cup {local[w].buffer}
  /\ UNCHANGED <<opQueue, stopped, quitVars, armed, local, taken, ringVars,
                 pending_count, file, requestVars>>

(* --pending_count: the picture stays in the ring but is never saved. *)
DropSave(w) ==
  /\ Goto(w, "drop", "bump")
  /\ pending_count' = pending_count - 1
  /\ settled' = settled \cup {local[w].buffer}
  /\ UNCHANGED <<opQueue, stopped, quitVars, armed, local, taken, ringVars,
                 file, requestVars>>

(* if (currentCount < maxSize) ++currentCount *)
BumpCurrentCount(w) ==
  /\ Goto(w, "bump", "advance")
  /\ currentCount' =
       IF currentCount < MaxSize THEN currentCount + 1 ELSE currentCount
  /\ UNCHANGED <<opQueue, stopped, quitVars, armed, local, taken, curImg,
                 imagebuffers, saveVars, requestVars>>

(* Mutant: no remainder. *)
AdvanceWithoutWrap(w) ==
  /\ Goto(w, "advance", "rearm")
  /\ curImg' = (curImg + 1) % Word
  /\ UNCHANGED <<opQueue, stopped, quitVars, armed, local, taken,
                 currentCount, imagebuffers, saveVars, requestVars>>

(* Mutant: the last buffer of the ring is left out. *)
AdvanceShortRing(w) ==
  /\ Goto(w, "advance", "rearm")
  /\ curImg' = (curImg + 1) % (MaxSize - 1)
  /\ UNCHANGED <<opQueue, stopped, quitVars, armed, local, taken,
                 currentCount, imagebuffers, saveVars, requestVars>>

(* curImg = (curImg+1) % maxSize *)
AdvanceCurImg(w) ==
  /\ Goto(w, "advance", "rearm")
  /\ curImg' = ((curImg + 1) % Word) % MaxSize
  /\ UNCHANGED <<opQueue, stopped, quitVars, armed, local, taken,
                 currentCount, imagebuffers, saveVars, requestVars>>

(* Mutant: the handler returns without a new wait. *)
NoRearm(w) ==
  /\ EndHandler(w, "rearm")
  /\ UNCHANGED <<opQueue, stopped, quitVars, armed, taken, ringVars,
                 saveVars, requestVars>>

(* timer.expires_at(...); timer.async_wait(handle_timeout) *)
Rearm(w) ==
  /\ EndHandler(w, "rearm")
  /\ armed' = TRUE
  /\ UNCHANGED <<opQueue, stopped, quitVars, taken, ringVars, saveVars,
                 requestVars>>

Capture(w) ==
  \/ CaptureQuit(w)
  \/ CaptureBegin(w)
  \/ Grab(w)
  \/ Store(w)
  \/ Count(w)
  \/ PostSave(w)
  \/ DropSave(w)
  \/ BumpCurrentCount(w)
  \/ AdvanceCurImg(w)
  \/ Rearm(w)

-----------------------------------------------------------------------------
(* save_file *)

(* The buffer is copied when the save runs, not when it was posted. *)
SaveCopy(w) ==
  /\ Goto(w, "save", "write")
  /\ local' = [local EXCEPT ![w].buffer = imagebuffers[local[w].arg]]
  /\ UNCHANGED <<opQueue, stopped, quitVars, armed, taken, ringVars,
                 saveVars, requestVars>>

(* Mutant: a save that cannot open its file returns at once. *)
SaveWriteOrReturn(w) ==
  /\ settled' = settled \cup {local[w].pic}
  /\ \/ /\ Goto(w, "write", "saved")
        /\ file' = [file EXCEPT ![local[w].arg] = local[w].buffer]
        /\ UNCHANGED local
     \/ /\ EndHandler(w, "write")
        /\ UNCHANGED file
  /\ UNCHANGED <<opQueue, stopped, quitVars, armed, taken, ringVars,
                 pending_count, requestVars>>

(* save_image: when fopen fails nothing is written and nobody is told. *)
SaveWrite(w) ==
  /\ Goto(w, "write", "saved")
  /\ \/ file' = [file EXCEPT ![local[w].arg] = local[w].buffer]
     \/ UNCHANGED file
  /\ settled' = settled \cup {local[w].pic}
  /\ UNCHANGED <<opQueue, stopped, quitVars, armed, local, taken, ringVars,
                 pending_count, requestVars>>

(* --pending_count *)
SaveEnd(w) ==
  /\ EndHandler(w, "saved")
  /\ pending_count' = pending_count - 1
  /\ UNCHANGED <<opQueue, stopped, quitVars, armed, taken, ringVars, file,
                 settled, requestVars>>

Save(w) == SaveCopy(w) \/ SaveWrite(w) \/ SaveEnd(w)

-----------------------------------------------------------------------------
(* getImage, called by Handlers::request *)

(* k > currentCount *)
CompareCount(w) ==
  /\ Goto(w, "request",
          IF local[w].arg > currentCount THEN "compareSize" ELSE "index")
  /\ UNCHANGED <<opQueue, stopped, quitVars, armed, local, taken, ringVars,
                 saveVars, requestVars>>

(* && currentCount < maxSize: a second read of the atomic *)
CompareSize(w) ==
  /\ Goto(w, "compareSize",
          IF currentCount < MaxSize THEN "clamp" ELSE "index")
  /\ UNCHANGED <<opQueue, stopped, quitVars, armed, local, taken, ringVars,
                 saveVars, requestVars>>

(* k = currentCount - 1: a third read *)
Clamp(w) ==
  /\ Goto(w, "clamp", "index")
  /\ local' = [local EXCEPT ![w].arg = currentCount - 1]
  /\ UNCHANGED <<opQueue, stopped, quitVars, armed, taken, ringVars,
                 saveVars, requestVars>>

(* Mutant: curImg is taken for the newest picture. *)
RingIndexFromCur(cur, k) == ((cur - k) % Word) % MaxSize

(* (curImg - 1 - k) % maxSize in unsigned arithmetic: a negative           *)
(* difference wraps at 2^32 before the remainder is taken.                 *)
RingIndex(cur, k) == ((cur - 1 - k) % Word) % MaxSize

(* next = ...: curImg is read without any lock. *)
ReadIndex(w) ==
  /\ Goto(w, "index", "copy")
  /\ local' = [local EXCEPT ![w].next = RingIndex(curImg, local[w].arg),
                            ![w].seen = Accounted]
  /\ UNCHANGED <<opQueue, stopped, quitVars, armed, taken, ringVars,
                 saveVars, requestVars>>

(* The buffer is copied under its mutex. *)
CopyImage(w) ==
  /\ Goto(w, "copy", "respond")
  /\ local' = [local EXCEPT ![w].buffer = imagebuffers[local[w].next]]
  /\ UNCHANGED <<opQueue, stopped, quitVars, armed, taken, ringVars,
                 saveVars, requestVars>>

(* The response goes to the connection. *)
Respond(w) ==
  /\ EndHandler(w, "respond")
  /\ answered' = answered + 1
  /\ UNCHANGED <<opQueue, stopped, quitVars, armed, taken, ringVars,
                 saveVars, received>>

Request(w) ==
  \/ CompareCount(w)
  \/ CompareSize(w)
  \/ Clamp(w)
  \/ ReadIndex(w)
  \/ CopyImage(w)
  \/ Respond(w)

-----------------------------------------------------------------------------
(* The signal handler of main *)

(* stopCapture() *)
StopCapture(w) ==
  /\ Goto(w, "stop", "stopIo")
  /\ quitFlag' = TRUE
  /\ takenAtQuit' = taken
  /\ UNCHANGED <<opQueue, stopped, armed, local, taken, ringVars, saveVars,
                 requestVars>>

(* io_service.stop(), after the HTTP server has been shut down *)
StopService(w) ==
  /\ EndHandler(w, "stopIo")
  /\ StopIo
  /\ UNCHANGED <<opQueue, quitVars, armed, taken, ringVars, saveVars,
                 requestVars>>

Stop(w) == StopCapture(w) \/ StopService(w)

(* run() returns on thread w. *)
Leave(w) ==
  /\ LeaveRun(w)
  /\ UNCHANGED <<quitVars, armed, local, taken, ringVars, saveVars,
                 requestVars>>

-----------------------------------------------------------------------------

Worker(w) ==
  \/ StartHandler(w)
  \/ Capture(w)
  \/ Save(w)
  \/ Request(w)
  \/ Stop(w)
  \/ Leave(w)

(* main has joined the threads. *)
Joined == \A w \in Workers : pc[w] = "returned"

Terminated == Joined /\ UNCHANGED vars

Next ==
  \/ Expire
  \/ ReceiveRequest
  \/ ReceiveSignal
  \/ \E w \in Workers : Worker(w)
  \/ Terminated

Spec == Init /\ [][Next]_vars

(* Threads are scheduled, the camera and the disk answer, and an armed     *)
(* timer expires.  Requests and signals may never come.                    *)
Fairness == WF_vars(Expire) /\ \A w \in Workers : WF_vars(Worker(w))

-----------------------------------------------------------------------------
(* Properties *)

Ops == [kind : {"capture", "request", "stop"}, arg : Int, pic : Nat]
         \cup [kind : {"save"}, arg : Slots, pic : Nat]
RequestPcs ==
  {"request", "compareSize", "clamp", "index", "copy", "respond"}
Pcs == {"run", "returned", "stop", "stopIo"}
         \cup CapturePcs \cup SavePcs \cup RequestPcs

QueuedSaves == {i \in DOMAIN opQueue : opQueue[i].kind = "save"}
QueuedCaptures == {i \in DOMAIN opQueue : opQueue[i].kind = "capture"}
At(labels) == {w \in Workers : pc[w] \in labels}

(* Every variable has its type. *)
TypeOK ==
  /\ opQueue \in Seq(Ops)
  /\ stopped \in BOOLEAN /\ quitFlag \in BOOLEAN /\ armed \in BOOLEAN
  /\ pc \in [Workers -> Pcs]
  /\ local \in [Workers -> [arg : Int, pic : Nat, next : Slots,
                            buffer : Nat, seen : Int]]
  /\ \A w \in At(SavePcs) : local[w].arg \in Slots
  /\ pending_count \in Int
  /\ curImg \in Slots
  /\ currentCount \in 0 .. MaxSize
  /\ imagebuffers \in [Slots -> Nat]
  /\ file \in [Slots -> Nat]
  /\ taken \in Nat /\ takenAtQuit \in Nat
  /\ settled \subseteq Nat
  /\ received \in Nat /\ answered \in Nat

(* handle_timeout and grabPicture say "At any point in time only one       *)
(* instance of this function will be running": the capture is one token    *)
(* that is in the timer, in the queue or on one thread.                    *)
SingleCapture ==
  Cardinality(QueuedCaptures) + Cardinality(At(CapturePcs))
    + (IF armed THEN 1 ELSE 0) <= 1

(* pending_count counts the saves that are queued or running, and the one  *)
(* the capture is about to post or drop: no path through save_file or the  *)
(* backlog test loses a decrement or makes two.                            *)
PendingMatches ==
  pending_count = Cardinality(QueuedSaves) + Cardinality(At(SavePcs))
                    + Cardinality(At({"post", "drop"}))

(* Because the queue is FIFO and the timer is rearmed after the save was   *)
(* posted, a capture starts only when the save before it has left the      *)
(* queue: at most one save waits, and never more are unfinished than there *)
(* are threads.                                                            *)
BacklogBound ==
  /\ Cardinality(QueuedSaves) <= 1
  /\ pending_count <= Cardinality(Workers)

(* Hence the branch of handle_timeout that gives a picture up is not       *)
(* reached when the limit exceeds the number of threads, as it does with   *)
(* three threads and a limit of 10 or more, however slow the disk is.      *)
NeverDropped ==
  BelowLimit(Cardinality(Workers)) => At({"drop"}) = {}

(* The ring holds the latest pictures: the last MaxSize ones stored are    *)
(* each in the buffer of their number, and curImg is the slot after them.  *)
RingHoldsLatest ==
  /\ curImg = Accounted % MaxSize
  /\ \A n \in 1 .. Accounted :
       n > Accounted - MaxSize =>
         \/ imagebuffers[SlotOf(n)] = n
         \/ /\ n = Accounted - MaxSize + 1
            /\ At(Capturing \ {"store"}) # {}
            /\ imagebuffers[SlotOf(n)] = taken

(* What a save writes is the picture it was posted for, or a newer one of  *)
(* the same slot when the save ran a whole lap of the ring late; it is     *)
(* never an older one and never an unfilled buffer.                        *)
SavesPostedOrNewer ==
  \A w \in At({"write"}) :
    /\ local[w].buffer >= local[w].pic
    /\ SlotOf(local[w].buffer) = local[w].arg
    /\ SlotOf(local[w].pic) = local[w].arg

(* A request for the k-th previous picture that does not reach behind slot *)
(* 0 of the ring is served that picture, or the one that replaced it while *)
(* the request was running; never an unfilled buffer or another slot.      *)
ServedInLap ==
  \A w \in At({"respond"}) :
    local[w].arg \in 0 .. (local[w].seen % MaxSize) - 1 =>
      /\ local[w].buffer >= local[w].seen - local[w].arg
      /\ SlotOf(local[w].buffer) = SlotOf(local[w].seen - local[w].arg)

(* Whatever k it asks for, once the ring has been filled a request is      *)
(* served one of the MaxSize pictures before its reading of curImg, or a   *)
(* later one; and a k that reaches behind slot 0 misses its picture by as  *)
(* many slots as the range of an unsigned int exceeds a multiple of the    *)
(* ring, no more and no fewer.                                             *)
ServedBehind ==
  \A w \in At({"respond"}) :
    local[w].seen >= MaxSize =>
      /\ local[w].buffer > local[w].seen - MaxSize
      /\ local[w].arg \in local[w].seen % MaxSize .. MaxSize - 1 =>
           SlotOf(local[w].buffer)
             = SlotOf(local[w].seen - local[w].arg + Word)

(* What the test against currentCount is worth while the ring fills: a     *)
(* request is served an unfilled buffer only when k, clamped or not, is    *)
(* negative, is the number of pictures that curImg accounts for, or is one *)
(* more, which takes a capture between its ++currentCount and its curImg.  *)
(* Every other k finds a picture.                                          *)
UnfilledByTwo ==
  \A w \in At({"respond"}) :
    local[w].buffer = 0 =>
      /\ local[w].seen < MaxSize
      /\ \/ local[w].arg < 0
         \/ local[w].arg \in {local[w].seen, local[w].seen + 1}

(* What getImage serves: the picture asked for when k stays on this side   *)
(* of slot 0, a picture of the last lap in every case once the ring has    *)
(* been filled, and before that some picture except for the k that the     *)
(* test against currentCount lets through.                                 *)
ServedFromRing == ServedInLap /\ ServedBehind /\ UnfilledByTwo

(* After a shutdown at most one picture has been neither saved nor given   *)
(* up: the one whose save was queued, or posted too late, when             *)
(* io_service.stop() was called.                                           *)
LossOnStop ==
  Joined => Cardinality((1 .. taken) \ settled) <= 1

(* Once the signal handler has called stopCapture, only a capture that has *)
(* already passed its test of quitFlag takes a picture: one, and no later  *)
(* expiry of the timer brings another.                                     *)
QuitStopsCapture == quitFlag => taken <= takenAtQuit + 1

-----------------------------------------------------------------------------
(* The abstract specification and the refinement *)

(* Pictures that have been counted, and those whose save has not ended. *)
Counted ==
  IF \E w \in Workers : pc[w] \in {"store", "count"} THEN taken - 1 ELSE taken

Unfinished ==
  {opQueue[i].pic : i \in QueuedSaves}
    \cup {local[w].pic : w \in At(SavePcs)}
    \cup {local[w].buffer : w \in At({"post", "drop"})}

Ledger ==
  INSTANCE PictureLedger WITH counted <- Counted, backlog <- Unfinished,
                              pending <- pending_count

(* Whatever the threads do, handle_timeout and save_file keep the promise  *)
(* of PictureLedger: no picture is saved twice, or saved after it was      *)
(* given up, and pending_count follows the set of unfinished pictures.     *)
ImplementsLedger == Ledger!Spec

-----------------------------------------------------------------------------

(* SIGTERM leads to the end of main: the signal handler gets its turn, the *)
(* running handlers end, and every thread leaves run().                    *)
ShutdownCompletes == StopPending ~> Joined

(* A queued save is taken by a thread, however often the timer fires and   *)
(* however many requests come, unless the server is stopped: a capture is  *)
(* never run ahead of the save it posted.                                  *)
QueuedSaveRuns == QueuedSaves # {} ~> QueuedSaves = {} \/ stopped

(* The capture never stalls: until the shutdown a thread enters            *)
(* handle_timeout again and again.                                         *)
CaptureContinues == []<>(At({"capture"}) # {} \/ quitFlag)

(* Every request is answered, however often the timer fires and however    *)
(* many requests come after it, unless the server is stopped: the three    *)
(* threads and the FIFO queue starve none.                                 *)
EveryRequestAnswered ==
  \A n \in 1 .. MaxRequests : received >= n ~> answered >= n \/ stopped

-----------------------------------------------------------------------------
(* What the documentation says and the code does not do *)

(* The page asks for /img.jpg?prev=10, the tenth previous picture: a       *)
(* request for a picture that is in the ring is served that one or the one *)
(* that replaced it.                                                       *)
KthPrevious ==
  \A w \in At({"respond"}) :
    (local[w].arg \in 0 .. MaxSize - 1 /\ local[w].arg < local[w].seen) =>
      /\ local[w].buffer >= local[w].seen - local[w].arg
      /\ SlotOf(local[w].buffer) = SlotOf(local[w].seen - local[w].arg)

=============================================================================
