---------------------------- MODULE StillCamera ----------------------------
(***************************************************************************)
(* Taking a picture: takePicture, startCapture, stopCapture and the        *)
(* buffer_callback of src/src/cam_still.cpp, after a successful open().    *)
(* The application thread hands the pool's buffers to the encoder's output *)
(* port, starts the capture and waits on a semaphore; the MMAL thread      *)
(* gives each filled buffer to buffer_callback, which copies it into the   *)
(* caller's memory and posts the semaphore at the end of the frame.        *)
(*                                                                         *)
(* Buffers are counted, bytes too.  The port behaves as in mmal_port.c of  *)
(* src/include/mmal/core; what the camera's firmware answers to a call is  *)
(* open, and Faults names the calls that may report an error.  Each        *)
(* takePicture allocates one RASPICAM_USERDATA, named by the number of the *)
(* call, and its semaphore lives until the call leaves sem_wait.           *)
(***************************************************************************)
EXTENDS Integers

CONSTANTS
  Width, Height,   \* size of the picture in pixels
  Header,          \* bytes of a BMP header (54)
  BufferNum,       \* buffers in encoder_pool
  BufferSize,      \* bytes in one of them
  Faults,          \* MMAL calls that may fail
  Freed,           \* what a read of a deleted offset may give
  MaxCalls         \* bound: calls of takePicture

ASSUME PictureAssumption ==
  /\ Width \in Nat \ {0} /\ Height \in Nat \ {0} /\ Header \in Nat \ {0}
ASSUME PoolAssumption == BufferNum \in Nat /\ BufferSize \in Nat \ {0}
ASSUME FaultAssumption ==
  Faults \subseteq {"enable", "send", "start", "transmission", "disable"}
ASSUME FreedAssumption == Freed \subseteq Nat
ASSUME CallAssumption == MaxCalls \in Nat

(* What the caller allocates. *)
getImageBufferSize == Width * Height * 3 + Header

(* What the encoder makes: a BMP row is padded to a multiple of 4 bytes. *)
RowBytes == ((3 * Width + 3) \div 4) * 4
ImageSize == Header + Height * RowBytes

VARIABLES
  app,          \* control point of the thread inside takePicture
  calls,        \* calls of takePicture so far
  num,          \* startCapture: buffers still to be sent
  sem,          \* value of the semaphore of the current call
  live,         \* allocated RASPICAM_USERDATA; the port has the latest
  offset,       \* its offset
  length,       \* *length as takePicture returned it
  enabled,      \* encoder_output_port->is_enabled
  pool,         \* buffers in encoder_pool->queue
  atPort,       \* buffers the encoder has been given
  remaining,    \* bytes of the frame the encoder has still to deliver
  mmal,         \* control point of the MMAL thread
  chunk,        \* length of the buffer in buffer_callback
  cut           \* ghost: the frame ended in TRANSMISSION_FAILED

appVars == <<app, calls, num, length>>
userVars == <<sem, live, offset>>
portVars == <<enabled, pool, atPort>>
mmalVars == <<remaining, mmal, chunk, cut>>
vars == <<appVars, userVars, portVars, mmalVars>>

MayFail(call) == call \in Faults

Init ==
  /\ app = "idle"
  /\ calls = 0
  /\ num = 0
  /\ sem = 0
  /\ live = {}
  /\ offset = 0
  /\ length = 0
  /\ enabled = FALSE
  /\ pool = BufferNum
  /\ atPort = 0
  /\ remaining = 0
  /\ mmal = "idle"
  /\ chunk = 0
  /\ cut = FALSE

AppGoto(from, to) == app = from /\ app' = to
MmalGoto(from, to) == mmal = from /\ mmal' = to

-----------------------------------------------------------------------------
(* takePicture, on the thread that runs handle_timeout *)

(* A new semaphore and RASPICAM_USERDATA, put in the port's userdata. *)
TakePicture ==
  /\ AppGoto("idle", "check")
  /\ calls < MaxCalls
  /\ calls' = calls + 1
  /\ sem' = 0
  /\ live' = live \cup {calls + 1}
  /\ offset' = 0
  /\ UNCHANGED <<num, length, portVars, mmalVars>>

(* startCapture: the port is still enabled, takePicture returns -1. *)
PortBusy ==
  /\ AppGoto("check", "idle")
  /\ enabled
  /\ UNCHANGED <<calls, num, length, userVars, portVars, mmalVars>>

(* startCapture: mmal_port_enable reports an error. *)
EnableFails ==
  /\ AppGoto("check", "idle")
  /\ ~ enabled /\ MayFail("enable")
  /\ UNCHANGED <<calls, num, length, userVars, portVars, mmalVars>>

(* mmal_port_enable, then num = mmal_queue_length(encoder_pool->queue) *)
EnablePort ==
  /\ AppGoto("check", "send")
  /\ ~ enabled
  /\ enabled' = TRUE
  /\ num' = pool
  /\ UNCHANGED <<calls, length, userVars, pool, atPort, mmalVars>>

(* Mutant: the loop makes one turn too many. *)
SendOneMore ==
  /\ app = "send" /\ num >= 0
  /\ num' = num - 1
  /\ pool' = pool - 1
  /\ atPort' = atPort + 1
  /\ UNCHANGED <<app, calls, length, userVars, enabled, mmalVars>>

(* One turn of the loop that gives the pool's buffers to the port.  When   *)
(* the port refuses a buffer, the error is logged and the buffer is gone.  *)
SendBuffer ==
  /\ app = "send" /\ num > 0
  /\ num' = num - 1
  /\ pool' = pool - 1
  /\ \/ atPort' = atPort + 1
     \/ MayFail("send") /\ UNCHANGED atPort
  /\ UNCHANGED <<app, calls, length, userVars, enabled, mmalVars>>

(* MMAL_PARAMETER_CAPTURE is set: the camera takes a picture. *)
StartCapture ==
  /\ AppGoto("send", "wait")
  /\ num = 0
  /\ remaining' = ImageSize
  /\ cut' = FALSE
  /\ UNCHANGED <<calls, num, length, userVars, portVars, mmal, chunk>>

(* It cannot be set: takePicture returns -1 and the port stays enabled. *)
StartFails ==
  /\ AppGoto("send", "idle")
  /\ num = 0 /\ MayFail("start")
  /\ UNCHANGED <<calls, num, length, userVars, portVars, mmalVars>>

(* sem_wait returns; sem_destroy. *)
WaitForFrame ==
  /\ AppGoto("wait", "stop")
  /\ sem > 0
  /\ sem' = sem - 1
  /\ UNCHANGED <<calls, num, length, live, offset, portVars, mmalVars>>

(* stopCapture: the first thing mmal_port_disable does is to clear         *)
(* is_enabled.  The early return of stopCapture cannot happen here: only   *)
(* this call clears the flag.                                              *)
BeginDisable ==
  /\ AppGoto("stop", "flush")
  /\ enabled
  /\ enabled' = FALSE
  /\ UNCHANGED <<calls, num, length, userVars, pool, atPort, mmalVars>>

(* Mutant: the port is disabled without waiting for a running callback. *)
EndDisableAtOnce ==
  /\ AppGoto("flush", "read")
  /\ pool' = pool + atPort
  /\ atPort' = 0
  /\ UNCHANGED <<calls, num, length, userVars, enabled, mmalVars>>

(* mmal_port_disable waits for a running callback and hands the empty      *)
(* buffers back through buffer_callback, which only releases them.         *)
EndDisable ==
  /\ AppGoto("flush", "read")
  /\ mmal = "idle"
  /\ pool' = pool + atPort
  /\ atPort' = 0
  /\ UNCHANGED <<calls, num, length, userVars, enabled, mmalVars>>

(* mmal_port_disable reports an error: the port is enabled again and       *)
(* stopCapture deletes the userdata.                                       *)
DisableFails ==
  /\ AppGoto("flush", "read")
  /\ mmal = "idle" /\ MayFail("disable")
  /\ enabled' = TRUE
  /\ live' = live \ {calls}
  /\ UNCHANGED <<calls, num, length, sem, offset, pool, atPort,
                 mmalVars>>

(* *length = userdata->offset; return 0.  When stopCapture has deleted the *)
(* userdata, the offset is read from freed memory.                         *)
ReturnLength ==
  /\ AppGoto("read", "idle")
  /\ length' \in {offset} \cup (IF calls \in live THEN {} ELSE Freed)
  /\ UNCHANGED <<calls, num, userVars, portVars, mmalVars>>

App ==
  \/ TakePicture
  \/ PortBusy
  \/ EnableFails
  \/ EnablePort
  \/ SendBuffer
  \/ StartCapture
  \/ StartFails
  \/ WaitForFrame
  \/ BeginDisable
  \/ EndDisable
  \/ DisableFails
  \/ ReturnLength

-----------------------------------------------------------------------------
(* The encoder and the MMAL thread *)

Smaller(a, b) == IF a < b THEN a ELSE b

(* The buffer in buffer_callback has one of the flags of END_FLAG.         *)
FrameEnd == remaining = 0

(* The encoder fills one of its buffers, the last one with FRAME_END, or   *)
(* gives up with TRANSMISSION_FAILED, and buffer_callback is called.       *)
Deliver ==
  /\ MmalGoto("idle", "copy")
  /\ enabled /\ remaining > 0 /\ atPort > 0
  /\ atPort' = atPort - 1
  /\ chunk' = Smaller(BufferSize, remaining)
  /\ \/ remaining' = remaining - chunk' /\ UNCHANGED cut
     \/ MayFail("transmission") /\ remaining' = 0 /\ cut' = TRUE
  /\ UNCHANGED <<appVars, userVars, enabled, pool>>

(* buffer->length + userdata->offset > userdata->length: the buffer is     *)
(* released, the semaphore is not posted and no buffer is sent instead.    *)
TooSmall ==
  /\ MmalGoto("copy", "idle")
  /\ chunk + offset > getImageBufferSize
  /\ pool' = pool + 1
  /\ UNCHANGED <<appVars, userVars, enabled, atPort, remaining, chunk,
                 cut>>

(* Mutant: the semaphore is posted for every buffer. *)
CopyAndAlwaysPost ==
  /\ chunk + offset <= getImageBufferSize
  /\ MmalGoto("copy", "post")
  /\ offset' = offset + chunk
  /\ UNCHANGED <<appVars, sem, live, portVars, remaining, chunk, cut>>

(* The bytes are copied. *)
CopyData ==
  /\ chunk + offset <= getImageBufferSize
  /\ MmalGoto("copy", IF FrameEnd THEN "post" ELSE "release")
  /\ offset' = offset + chunk
  /\ UNCHANGED <<appVars, sem, live, portVars, remaining, chunk, cut>>

(* Mutant: the end of the frame is not announced. *)
PostNothing ==
  /\ MmalGoto("post", "release")
  /\ UNCHANGED <<appVars, userVars, portVars, remaining, chunk, cut>>

(* sem_post(userdata->mutex) *)
PostFrame ==
  /\ MmalGoto("post", "release")
  /\ sem' = sem + 1
  /\ UNCHANGED <<appVars, live, offset, portVars, remaining, chunk, cut>>

(* Mutant: the buffer is not released. *)
KeepBuffer ==
  /\ MmalGoto("release", "resend")
  /\ UNCHANGED <<appVars, userVars, portVars, remaining, chunk, cut>>

(* mmal_buffer_header_release(buffer) *)
ReleaseBuffer ==
  /\ MmalGoto("release", "resend")
  /\ pool' = pool + 1
  /\ UNCHANGED <<appVars, userVars, enabled, atPort, remaining, chunk,
                 cut>>

(* port->is_enabled, then mmal_queue_get(userdata->encoderPool->queue) *)
TakeBuffer ==
  /\ MmalGoto("resend", "sendNew")
  /\ enabled /\ pool > 0
  /\ pool' = pool - 1
  /\ UNCHANGED <<appVars, userVars, enabled, atPort, remaining, chunk,
                 cut>>

(* Otherwise no buffer is sent and buffer_callback returns. *)
EndCallback ==
  /\ MmalGoto("resend", "idle")
  /\ ~ enabled \/ pool = 0
  /\ UNCHANGED <<appVars, userVars, portVars, remaining, chunk, cut>>

(* mmal_port_send_buffer(port, new_buffer): it fails when the port has     *)
(* been disabled since the test, and its result is not looked at.          *)
SendNewBuffer ==
  /\ MmalGoto("sendNew", "idle")
  /\ \/ enabled /\ atPort' = atPort + 1
     \/ (~ enabled \/ MayFail("send")) /\ UNCHANGED atPort
  /\ UNCHANGED <<appVars, userVars, enabled, pool, remaining, chunk, cut>>

Mmal ==
  \/ Deliver
  \/ TooSmall
  \/ CopyData
  \/ PostFrame
  \/ ReleaseBuffer
  \/ TakeBuffer
  \/ EndCallback
  \/ SendNewBuffer

(* The bound on the calls is reached: nothing is left to do. *)
Finished ==
  /\ app = "idle" /\ calls = MaxCalls /\ mmal = "idle"
  /\ UNCHANGED vars

Next == App \/ Mmal \/ Finished

Spec == Init /\ [][Next]_vars

(* Both threads are scheduled and the hardware delivers. *)
FairSpec == Spec /\ WF_vars(App) /\ WF_vars(Mmal)

-----------------------------------------------------------------------------

TypeOK ==
  /\ app \in {"idle", "check", "send", "wait", "stop", "flush", "read"}
  /\ mmal \in {"idle", "copy", "post", "release", "resend", "sendNew"}
  /\ calls \in Nat /\ num \in Nat /\ sem \in Nat
  /\ live \subseteq 1 .. calls
  /\ offset \in Nat /\ length \in Nat
  /\ enabled \in BOOLEAN /\ cut \in BOOLEAN
  /\ pool \in Nat /\ atPort \in Nat
  /\ remaining \in Nat /\ chunk \in Nat

(* The semaphore is on the stack of takePicture: buffer_callback posts it  *)
(* while takePicture still waits for it, and once for each picture.        *)
PostIsAwaited == mmal = "post" => app = "wait" /\ sem = 0

(* mmal_port_disable keeps takePicture until the callback has ended, so no *)
(* callback of one picture meets the userdata of the next.                 *)
NoStaleCallback == app \in {"idle", "check", "send", "read"} => mmal = "idle"

(* If the caller's memory is large enough, a picture for which takePicture *)
(* is about to return 0 is the whole frame, or the encoder has said that   *)
(* the transmission failed.                                                *)
PictureIntact ==
  app = "read" /\ ~ cut /\ ImageSize <= getImageBufferSize
    => offset = ImageSize

(* Buffers that are neither in the pool, nor with the encoder, nor in the  *)
(* hands of buffer_callback: nobody will ever give them back.              *)
Held == IF mmal \in {"copy", "post", "release", "sendNew"} THEN 1 ELSE 0
Lost == BufferNum - (pool + atPort + Held)

(* The race between the end of a callback and mmal_port_disable costs at   *)
(* most one buffer for each picture.                                       *)
OneLostPerPicture == "send" \notin Faults => Lost <= calls

-----------------------------------------------------------------------------
(* The transfer that the two threads implement                             *)

(* What is left of the frame is with the encoder or in buffer_callback.    *)
Copying == IF mmal = "copy" THEN chunk ELSE 0

(* A frame is complete from the copy of its last bytes on, before it is    *)
(* announced.                                                              *)
Progress ==
  CASE app = "idle" -> "idle"
    [] app \in {"check", "send"} -> "asked"
    [] app = "wait" /\ mmal # "post" /\ sem = 0 -> "exposed"
    [] OTHER -> "complete"

Transfer ==
  INSTANCE FrameTransfer WITH
    FrameSize <- ImageSize, Room <- getImageBufferSize,
    state <- Progress, left <- remaining + Copying, copied <- offset,
    kept <- calls \in live

(* Whatever call fails and whether or not the frame fits, takePicture and  *)
(* buffer_callback keep the promise of FrameTransfer: no byte of one frame *)
(* reaches the memory of another call, none is copied twice or after the   *)
(* call has returned, and takePicture does not return 0 before the frame   *)
(* is complete.                                                            *)
ImplementsTransfer == Transfer!Spec

-----------------------------------------------------------------------------

(* A picture that was begun is finished, one way or the other, as long as  *)
(* there are more buffers than pictures that may have lost one.            *)
TakePictureReturns == app = "check" ~> app = "idle"

=============================================================================
