------------------------- MODULE StillCamera_proofs -------------------------
(***************************************************************************)
(* Proofs about taking a picture, for every picture size, number and size  *)
(* of buffers and set of MMAL calls that may fail.  CallbackInv ties the   *)
(* control point of the MMAL thread to that of takePicture; FrameInv and   *)
(* LossInv account for the bytes of the frame and for the buffers.         *)
(***************************************************************************)
EXTENDS StillCamera, TLAPS

(* The sizes of the picture and of the caller's memory are numbers. *)
LEMMA Sizes ==
  /\ ImageSize \in Nat \ {0} /\ getImageBufferSize \in Nat
  /\ BufferNum \in Nat /\ BufferSize \in Nat \ {0}
<1>1. RowBytes \in Nat
  BY PictureAssumption DEF RowBytes
<1>2. Height * RowBytes \in Nat
  BY <1>1, PictureAssumption
<1>3. Width * Height \in Nat
  BY PictureAssumption
<1> QED
  BY <1>2, <1>3, PictureAssumption, PoolAssumption
     DEF ImageSize, getImageBufferSize

(* Rows that need no padding make a BMP picture that fits exactly. *)
LEMMA AlignedRowsFit ==
  ASSUME (3 * Width) % 4 = 0
  PROVE  ImageSize = getImageBufferSize
<1> DEFINE r == 3 * Width
<1>1. r \in Nat /\ r % 4 = 0
  BY PictureAssumption
<1>2. ((r + 3) \div 4) * 4 = r
  BY <1>1
<1>3. RowBytes = 3 * Width
  BY <1>2 DEF RowBytes
<1>4. Height * (3 * Width) = Width * Height * 3
  BY PictureAssumption
<1> QED BY <1>3, <1>4, PictureAssumption DEF ImageSize, getImageBufferSize

(* Where the MMAL thread can be for each step of takePicture: it works on  *)
(* a frame while takePicture waits, and ends its last callback while       *)
(* takePicture disables the port.  In "send", the buffers still to be sent *)
(* are in the pool.                                                        *)
CallbackInv ==
  /\ app \in {"check", "send"} => sem = 0
  /\ app = "send" => num <= pool
  /\ app # "wait" => remaining = 0
  /\ mmal # "idle" => app \in {"wait", "stop", "flush"}
  /\ mmal \in {"copy", "post"} => app = "wait" /\ sem = 0
  /\ mmal = "post" => remaining = 0
  /\ app = "wait" => sem \in {0, 1} /\ (sem = 1 => remaining = 0)
  /\ app \in {"send", "wait", "stop"} => enabled

Inv == TypeOK /\ CallbackInv

(* Every step keeps the types; SendBuffer needs num <= pool for it. *)
LEMMA TypeStep == TypeOK /\ CallbackInv /\ [Next]_vars => TypeOK'
<1> SUFFICES ASSUME TypeOK, CallbackInv, [Next]_vars PROVE TypeOK'
  OBVIOUS
<1> USE DEF TypeOK, AppGoto, MmalGoto, portVars, appVars, userVars, mmalVars
<1>1. CASE TakePicture
  <2>1. live' \subseteq 1 .. calls'
    BY <1>1 DEF TakePicture
  <2> QED BY <1>1, <2>1 DEF TakePicture
<1>2. CASE PortBusy
  BY <1>2 DEF PortBusy
<1>3. CASE EnableFails
  BY <1>3 DEF EnableFails
<1>4. CASE EnablePort
  BY <1>4 DEF EnablePort
<1>5. CASE SendBuffer
  BY <1>5 DEF SendBuffer, CallbackInv
<1>6. CASE StartCapture
  BY <1>6, Sizes DEF StartCapture
<1>7. CASE StartFails
  BY <1>7 DEF StartFails
<1>8. CASE WaitForFrame
  BY <1>8 DEF WaitForFrame
<1>9. CASE BeginDisable
  BY <1>9 DEF BeginDisable
<1>10. CASE EndDisable
  BY <1>10 DEF EndDisable
<1>11. CASE DisableFails
  BY <1>11 DEF DisableFails
<1>12. CASE ReturnLength
  BY <1>12, FreedAssumption DEF ReturnLength
<1>13. CASE Deliver
  <2>1. chunk' \in Nat /\ chunk' <= remaining
    BY <1>13, Sizes DEF Deliver, Smaller
  <2>2. remaining' \in Nat
    BY <1>13, <2>1 DEF Deliver
  <2>3. cut' \in BOOLEAN
    BY <1>13 DEF Deliver
  <2> QED BY <1>13, <2>1, <2>2, <2>3 DEF Deliver
<1>14. CASE TooSmall
  BY <1>14 DEF TooSmall
<1>15. CASE CopyData
  BY <1>15 DEF CopyData
<1>16. CASE PostFrame
  BY <1>16 DEF PostFrame
<1>17. CASE ReleaseBuffer
  BY <1>17 DEF ReleaseBuffer
<1>18. CASE TakeBuffer
  BY <1>18 DEF TakeBuffer
<1>19. CASE EndCallback
  BY <1>19 DEF EndCallback
<1>20. CASE SendNewBuffer
  BY <1>20 DEF SendNewBuffer
<1>21. CASE UNCHANGED vars
  BY <1>21 DEF vars
<1> QED
  BY <1>1, <1>2, <1>3, <1>4, <1>5, <1>6, <1>7, <1>8, <1>9, <1>10, <1>11,
     <1>12, <1>13, <1>14, <1>15, <1>16, <1>17, <1>18, <1>19, <1>20, <1>21
     DEF Next, App, Mmal, Finished

(* The two threads stay in step. *)
LEMMA CallbackStep == TypeOK /\ CallbackInv /\ [Next]_vars => CallbackInv'
<1> SUFFICES ASSUME TypeOK, CallbackInv, [Next]_vars PROVE CallbackInv'
  OBVIOUS
<1> USE DEF CallbackInv, AppGoto, MmalGoto, portVars, appVars, userVars,
            mmalVars
<1>1. CASE TakePicture
  BY <1>1 DEF TakePicture, TypeOK
<1>2. CASE PortBusy
  BY <1>2 DEF PortBusy
<1>3. CASE EnableFails
  BY <1>3 DEF EnableFails
<1>4. CASE EnablePort
  BY <1>4 DEF EnablePort, TypeOK
<1>5. CASE SendBuffer
  BY <1>5 DEF SendBuffer, TypeOK
<1>6. CASE StartCapture
  <2>1. mmal = "idle" /\ mmal' = "idle" /\ app' = "wait"
    BY <1>6 DEF StartCapture
  <2>2. sem' = 0
    BY <1>6 DEF StartCapture
  <2> QED BY <1>6, <2>1, <2>2 DEF StartCapture
<1>7. CASE StartFails
  BY <1>7 DEF StartFails
<1>8. CASE WaitForFrame
  BY <1>8 DEF WaitForFrame, TypeOK
<1>9. CASE BeginDisable
  BY <1>9 DEF BeginDisable
<1>10. CASE EndDisable
  BY <1>10 DEF EndDisable
<1>11. CASE DisableFails
  BY <1>11 DEF DisableFails
<1>12. CASE ReturnLength
  BY <1>12 DEF ReturnLength
<1>13. CASE Deliver
  BY <1>13 DEF Deliver, TypeOK
<1>14. CASE TooSmall
  BY <1>14 DEF TooSmall
<1>15. CASE CopyData
  BY <1>15 DEF CopyData, FrameEnd
<1>16. CASE PostFrame
  BY <1>16 DEF PostFrame, TypeOK
<1>17. CASE ReleaseBuffer
  BY <1>17 DEF ReleaseBuffer, TypeOK
<1>18. CASE TakeBuffer
  BY <1>18 DEF TakeBuffer
<1>19. CASE EndCallback
  BY <1>19 DEF EndCallback
<1>20. CASE SendNewBuffer
  BY <1>20 DEF SendNewBuffer
<1>21. CASE UNCHANGED vars
  BY <1>21 DEF vars
<1> QED
  BY <1>1, <1>2, <1>3, <1>4, <1>5, <1>6, <1>7, <1>8, <1>9, <1>10, <1>11,
     <1>12, <1>13, <1>14, <1>15, <1>16, <1>17, <1>18, <1>19, <1>20, <1>21
     DEF Next, App, Mmal, Finished

(* The invariant about the control points. *)
LEMMA ControlInvariant == Spec => []Inv
<1>1. Init => Inv
  <2> SUFFICES ASSUME Init PROVE Inv
    OBVIOUS
  <2>1. TypeOK
    BY Sizes DEF Init, TypeOK
  <2>2. CallbackInv
    BY DEF Init, CallbackInv
  <2> QED BY <2>1, <2>2 DEF Inv
<1>2. Inv /\ [Next]_vars => Inv'
  BY TypeStep, CallbackStep DEF Inv
<1> QED BY <1>1, <1>2, PTL DEF Spec

(* Every variable of the camera keeps its type. *)
THEOREM CameraTypes == Spec => []TypeOK
<1>1. Inv => TypeOK
  BY DEF Inv
<1> QED BY <1>1, ControlInvariant, PTL

(* The semaphore is posted once, while takePicture waits for it. *)
THEOREM PostsAreAwaited == Spec => []PostIsAwaited
<1>1. Inv => PostIsAwaited
  BY DEF Inv, CallbackInv, PostIsAwaited
<1> QED BY <1>1, ControlInvariant, PTL

(* A callback has ended before takePicture returns. *)
THEOREM CallbacksEnd == Spec => []NoStaleCallback
<1>1. Inv => NoStaleCallback
  BY DEF Inv, CallbackInv, TypeOK, NoStaleCallback
<1> QED BY <1>1, ControlInvariant, PTL

-----------------------------------------------------------------------------

(* What has been copied, is being copied and is still to come add up to    *)
(* the frame; a transmission that failed only takes away.                  *)
FrameInv ==
  /\ app \in {"check", "send"} => offset = 0
  /\ app = "wait" =>
       /\ offset + Copying + remaining <= ImageSize
       /\ ~ cut => offset + Copying + remaining = ImageSize
  /\ app \in {"stop", "flush", "read"} /\ ~ cut => offset = ImageSize

(* Moving b of c bytes keeps their sum. *)
LEMMA MoveBytes ==
  ASSUME NEW a \in Nat, NEW b \in Nat, NEW c \in Nat
  PROVE  a + b + (c - b) = a + 0 + c
OBVIOUS

(* No byte is left out or copied twice when the caller's memory is large   *)
(* enough for the frame.                                                   *)
LEMMA FrameStep ==
  ASSUME ImageSize <= getImageBufferSize
  PROVE  Inv /\ FrameInv /\ [Next]_vars => FrameInv'
<1> SUFFICES ASSUME Inv, FrameInv, [Next]_vars PROVE FrameInv'
  OBVIOUS
<1> USE DEF FrameInv, Copying, AppGoto, MmalGoto, portVars, appVars,
            userVars, mmalVars
<1>1. CASE TakePicture
  BY <1>1 DEF TakePicture
<1>2. CASE PortBusy
  BY <1>2 DEF PortBusy
<1>3. CASE EnableFails
  BY <1>3 DEF EnableFails
<1>4. CASE EnablePort
  BY <1>4 DEF EnablePort
<1>5. CASE SendBuffer
  BY <1>5 DEF SendBuffer
<1>6. CASE StartCapture
  <2>1. mmal = "idle" /\ offset = 0
    BY <1>6 DEF StartCapture, Inv, CallbackInv
  <2> QED BY <1>6, <2>1, Sizes DEF StartCapture
<1>7. CASE StartFails
  BY <1>7 DEF StartFails
<1>8. CASE WaitForFrame
  <2>1. remaining = 0 /\ mmal # "copy"
    BY <1>8 DEF WaitForFrame, Inv, CallbackInv, TypeOK
  <2> QED BY <1>8, <2>1, Sizes DEF WaitForFrame, Inv, TypeOK
<1>9. CASE BeginDisable
  BY <1>9 DEF BeginDisable
<1>10. CASE EndDisable
  BY <1>10 DEF EndDisable
<1>11. CASE DisableFails
  BY <1>11 DEF DisableFails
<1>12. CASE ReturnLength
  BY <1>12 DEF ReturnLength
<1>13. CASE Deliver
  <2>1. app = "wait"
    BY <1>13 DEF Deliver, Inv, CallbackInv, TypeOK
  <2>2. chunk' \in Nat /\ chunk' <= remaining
    BY <1>13, Sizes DEF Deliver, Smaller, Inv, TypeOK
  <2>3. /\ mmal = "idle" /\ mmal' = "copy"
        /\ app' = app /\ offset' = offset
        /\ \/ remaining' = remaining - chunk' /\ cut' = cut
           \/ remaining' = 0 /\ cut' = TRUE
    BY <1>13 DEF Deliver
  <2>4. Copying = 0 /\ Copying' = chunk' /\ app' = "wait"
    BY <2>1, <2>3
  <2> HIDE DEF Copying, FrameInv
  <2>5. offset \in Nat /\ remaining \in Nat /\ ImageSize \in Nat
    BY Sizes DEF Inv, TypeOK
  <2>6. /\ offset + Copying + remaining <= ImageSize
        /\ ~ cut => offset + Copying + remaining = ImageSize
    BY <2>1 DEF FrameInv
  <2>7. offset' + Copying' + remaining' <= ImageSize
    BY <2>2, <2>3, <2>4, <2>5, <2>6
  <2>8. CASE remaining' = remaining - chunk' /\ cut' = cut
    <3>0. offset' = offset /\ remaining' = remaining - chunk'
      BY <2>3, <2>8
    <3>1. offset' + Copying' + remaining' = offset + Copying + remaining
      <4>1. offset + chunk' + (remaining - chunk') = offset + 0 + remaining
        BY <2>2, <2>5, MoveBytes
      <4> QED BY <2>4, <3>0, <4>1
    <3>2. ~ cut' => offset' + Copying' + remaining' = ImageSize
      BY <2>6, <2>8, <3>1
    <3> QED BY <2>4, <2>7, <3>2 DEF FrameInv
  <2>9. CASE remaining' = 0 /\ cut' = TRUE
    BY <2>4, <2>7, <2>9 DEF FrameInv
  <2> QED BY <2>3, <2>8, <2>9
<1>14. CASE TooSmall
  <2>1. app = "wait" /\ offset + chunk + remaining <= ImageSize
    BY <1>14 DEF TooSmall, Inv, CallbackInv
  <2>2. FALSE
    BY <1>14, <2>1, Sizes DEF TooSmall, Inv, TypeOK
  <2> QED BY <2>2
<1>15. CASE CopyData
  <2>1. mmal = "copy" /\ mmal' # "copy" /\ app = "wait"
    BY <1>15 DEF CopyData, Inv, CallbackInv
  <2>2. offset' + 0 + remaining' = offset + chunk + remaining
    BY <1>15, Sizes DEF CopyData, Inv, TypeOK
  <2> QED BY <1>15, <2>1, <2>2, Sizes DEF CopyData, Inv, TypeOK
<1>16. CASE PostFrame
  BY <1>16 DEF PostFrame
<1>17. CASE ReleaseBuffer
  BY <1>17 DEF ReleaseBuffer
<1>18. CASE TakeBuffer
  BY <1>18 DEF TakeBuffer
<1>19. CASE EndCallback
  BY <1>19 DEF EndCallback
<1>20. CASE SendNewBuffer
  BY <1>20 DEF SendNewBuffer
<1>21. CASE UNCHANGED vars
  BY <1>21 DEF vars
<1> QED
  BY <1>1, <1>2, <1>3, <1>4, <1>5, <1>6, <1>7, <1>8, <1>9, <1>10, <1>11,
     <1>12, <1>13, <1>14, <1>15, <1>16, <1>17, <1>18, <1>19, <1>20, <1>21
     DEF Next, App, Mmal, Finished

(* A picture for which takePicture returns 0 is the whole frame, unless    *)
(* the transmission failed or the caller's memory is too small for it.     *)
THEOREM PicturesIntact == Spec => []PictureIntact
<1>1. CASE ImageSize <= getImageBufferSize
  <2>1. Init => FrameInv
    BY DEF Init, FrameInv
  <2>2. Inv /\ FrameInv /\ [Next]_vars => FrameInv'
    BY <1>1, FrameStep
  <2>3. FrameInv => PictureIntact
    BY DEF FrameInv, PictureIntact
  <2> QED BY <2>1, <2>2, <2>3, ControlInvariant, PTL DEF Spec
<1>2. CASE ~ (ImageSize <= getImageBufferSize)
  <2>1. PictureIntact
    BY <1>2 DEF PictureIntact
  <2> QED BY <2>1, PTL
<1> QED BY <1>1, <1>2

-----------------------------------------------------------------------------

(* The picture that is being taken has not lost its buffer yet, until the  *)
(* callback has ended under a disabled port.                               *)
LossInv ==
  /\ Lost <= calls
  /\ \/ app \in {"check", "send", "wait", "stop"}
     \/ app = "flush" /\ mmal # "idle"
     => Lost <= calls - 1

(* Only the last callback of a picture can lose its buffer. *)
LEMMA LossStep ==
  ASSUME "send" \notin Faults
  PROVE  Inv /\ LossInv /\ [Next]_vars => LossInv'
<1> SUFFICES ASSUME Inv, LossInv, [Next]_vars PROVE LossInv'
  OBVIOUS
<1>0. /\ calls \in Nat /\ pool \in Nat /\ atPort \in Nat /\ num \in Nat
      /\ BufferNum \in Nat
  BY Sizes DEF Inv, TypeOK
<1> USE <1>0 DEF LossInv, Lost, Held, AppGoto, MmalGoto, portVars, appVars,
            userVars, mmalVars
<1>1. CASE TakePicture
  BY <1>1 DEF TakePicture
<1>2. CASE PortBusy
  BY <1>2 DEF PortBusy
<1>3. CASE EnableFails
  BY <1>3 DEF EnableFails
<1>4. CASE EnablePort
  BY <1>4 DEF EnablePort
<1>5. CASE SendBuffer
  BY <1>5 DEF SendBuffer, MayFail
<1>6. CASE StartCapture
  BY <1>6 DEF StartCapture
<1>7. CASE StartFails
  BY <1>7 DEF StartFails
<1>8. CASE WaitForFrame
  BY <1>8 DEF WaitForFrame
<1>9. CASE BeginDisable
  BY <1>9 DEF BeginDisable
<1>10. CASE EndDisable
  BY <1>10 DEF EndDisable
<1>11. CASE DisableFails
  BY <1>11 DEF DisableFails
<1>12. CASE ReturnLength
  BY <1>12 DEF ReturnLength
<1>13. CASE Deliver
  BY <1>13 DEF Deliver, Inv, CallbackInv, TypeOK
<1>14. CASE TooSmall
  BY <1>14 DEF TooSmall, Inv, CallbackInv
<1>15. CASE CopyData
  BY <1>15 DEF CopyData, Inv, CallbackInv
<1>16. CASE PostFrame
  BY <1>16 DEF PostFrame
<1>17. CASE ReleaseBuffer
  BY <1>17 DEF ReleaseBuffer
<1>18. CASE TakeBuffer
  BY <1>18 DEF TakeBuffer
<1>19. CASE EndCallback
  BY <1>19 DEF EndCallback
<1>20. CASE SendNewBuffer
  <2>1. CASE enabled
    BY <1>20, <2>1 DEF SendNewBuffer, MayFail
  <2>2. CASE ~ enabled
    <3>1. app = "flush" /\ mmal = "sendNew"
      BY <1>20, <2>2 DEF SendNewBuffer, Inv, CallbackInv
    <3> QED BY <1>20, <2>2, <3>1 DEF SendNewBuffer
  <2> QED BY <2>1, <2>2
<1>21. CASE UNCHANGED vars
  BY <1>21 DEF vars
<1> QED
  BY <1>1, <1>2, <1>3, <1>4, <1>5, <1>6, <1>7, <1>8, <1>9, <1>10, <1>11,
     <1>12, <1>13, <1>14, <1>15, <1>16, <1>17, <1>18, <1>19, <1>20, <1>21
     DEF Next, App, Mmal, Finished

(* As long as the port takes the buffers it is sent, each picture costs    *)
(* one buffer of the pool at most.                                         *)
THEOREM OneLost == Spec => []OneLostPerPicture
<1>1. CASE "send" \notin Faults
  <2>1. Init => LossInv
    BY Sizes DEF Init, LossInv, Lost, Held
  <2>2. Inv /\ LossInv /\ [Next]_vars => LossInv'
    BY <1>1, LossStep
  <2>3. LossInv => OneLostPerPicture
    BY DEF LossInv, OneLostPerPicture
  <2> QED BY <2>1, <2>2, <2>3, ControlInvariant, PTL DEF Spec
<1>2. CASE ~ ("send" \notin Faults)
  <2>1. OneLostPerPicture
    BY <1>2 DEF OneLostPerPicture
  <2> QED BY <2>1, PTL
<1> QED BY <1>1, <1>2

-----------------------------------------------------------------------------
(* The two threads implement FrameTransfer                                 *)

(* A buffer in buffer_callback is not empty, and the port's userdata is    *)
(* there until mmal_port_disable has failed.                               *)
TransferInv ==
  /\ mmal = "copy" => chunk > 0
  /\ app \notin {"idle", "read"} => calls \in live

(* Every step keeps it; only DisableFails deletes a userdata. *)
LEMMA TransferStep ==
  Inv /\ TransferInv /\ [Next]_vars => TransferInv'
<1> SUFFICES ASSUME Inv, TransferInv, [Next]_vars PROVE TransferInv'
  OBVIOUS
<1> USE DEF TransferInv, AppGoto, MmalGoto, portVars, appVars, userVars,
            mmalVars
<1>1. CASE TakePicture
  BY <1>1 DEF TakePicture, Inv, CallbackInv
<1>2. CASE PortBusy \/ EnableFails \/ EnablePort \/ SendBuffer
  BY <1>2 DEF PortBusy, EnableFails, EnablePort, SendBuffer
<1>3. CASE StartCapture \/ StartFails \/ WaitForFrame \/ BeginDisable
  BY <1>3 DEF StartCapture, StartFails, WaitForFrame, BeginDisable
<1>4. CASE EndDisable \/ DisableFails \/ ReturnLength
  BY <1>4 DEF EndDisable, DisableFails, ReturnLength
<1>5. CASE Deliver
  <2>1. chunk' > 0
    BY <1>5, Sizes DEF Deliver, Smaller, Inv, TypeOK
  <2> QED BY <1>5, <2>1 DEF Deliver
<1>6. CASE TooSmall \/ CopyData
  BY <1>6 DEF TooSmall, CopyData
<1>7. CASE PostFrame \/ ReleaseBuffer \/ TakeBuffer
  BY <1>7 DEF PostFrame, ReleaseBuffer, TakeBuffer
<1>8. CASE EndCallback \/ SendNewBuffer
  BY <1>8 DEF EndCallback, SendNewBuffer
<1>9. CASE UNCHANGED vars
  BY <1>9 DEF vars
<1> QED
  BY <1>1, <1>2, <1>3, <1>4, <1>5, <1>6, <1>7, <1>8, <1>9
     DEF Next, App, Mmal, Finished

(* A step of one thread that moves no byte and changes neither the call    *)
(* nor its progress is a stutter of the transfer.                          *)
LEMMA Stutter ==
  ASSUME Progress' = Progress, Copying' = Copying, remaining' = remaining,
         UNCHANGED <<offset, cut, length, calls, live>>
  PROVE  UNCHANGED Transfer!vars
BY DEF Transfer!vars

(* The steps of takePicture. *)
LEMMA AppTransfers ==
  Inv /\ TransferInv /\ App => [Transfer!Next]_(Transfer!vars)
<1> SUFFICES ASSUME Inv, TransferInv, App
             PROVE  Transfer!Next \/ UNCHANGED Transfer!vars
  OBVIOUS
<1> USE DEF AppGoto, portVars, appVars, userVars, mmalVars
<1>1. CASE TakePicture
  <2>1. Progress = "idle" /\ Progress' = "asked"
    BY <1>1 DEF TakePicture, Progress
  <2>2. Copying' = Copying /\ remaining' = remaining
    BY <1>1 DEF TakePicture, Copying
  <2>3. calls' \in live' /\ offset' = 0 /\ UNCHANGED <<cut, length>>
    BY <1>1 DEF TakePicture
  <2>4. Transfer!Ask
    BY <2>1, <2>2, <2>3 DEF Transfer!Ask
  <2> QED BY <2>4 DEF Transfer!Next
<1>2. CASE PortBusy \/ EnableFails \/ StartFails
  <2>1. Progress = "asked" /\ Progress' = "idle"
    BY <1>2 DEF PortBusy, EnableFails, StartFails, Progress
  <2>2. Copying' = Copying /\ remaining' = remaining
    BY <1>2 DEF PortBusy, EnableFails, StartFails, Copying
  <2>3. UNCHANGED <<offset, cut, length, calls, live>>
    BY <1>2 DEF PortBusy, EnableFails, StartFails
  <2>4. Transfer!Refuse
    BY <2>1, <2>2, <2>3 DEF Transfer!Refuse
  <2> QED BY <2>4 DEF Transfer!Next
<1>3. CASE EnablePort \/ SendBuffer
  <2>1. Progress' = Progress
    BY <1>3 DEF EnablePort, SendBuffer, Progress
  <2>2. Copying' = Copying /\ remaining' = remaining
    BY <1>3 DEF EnablePort, SendBuffer, Copying
  <2>3. UNCHANGED <<offset, cut, length, calls, live>>
    BY <1>3 DEF EnablePort, SendBuffer
  <2> QED BY <2>1, <2>2, <2>3, Stutter
<1>4. CASE StartCapture
  <2>1. mmal = "idle" /\ mmal' = "idle" /\ sem' = 0
    BY <1>4 DEF StartCapture, Inv, CallbackInv
  <2>2. Progress = "asked" /\ Progress' = "exposed"
    BY <1>4, <2>1 DEF StartCapture, Progress
  <2>3. Copying' = 0 /\ remaining' = ImageSize
    BY <1>4, <2>1 DEF StartCapture, Copying
  <2>4. cut' = FALSE /\ UNCHANGED <<offset, length, calls, live>>
    BY <1>4 DEF StartCapture
  <2>5. Transfer!Expose
    BY <2>2, <2>3, <2>4, Sizes DEF Transfer!Expose
  <2> QED BY <2>5 DEF Transfer!Next
<1>5. CASE WaitForFrame
  <2>1. Progress = "complete" /\ Progress' = "complete"
    BY <1>5 DEF WaitForFrame, Progress
  <2>2. Copying' = Copying /\ remaining' = remaining
    BY <1>5 DEF WaitForFrame, Copying
  <2>3. UNCHANGED <<offset, cut, length, calls, live>>
    BY <1>5 DEF WaitForFrame
  <2> QED BY <2>1, <2>2, <2>3, Stutter
<1>6. CASE BeginDisable \/ EndDisable
  <2>1. Progress = "complete" /\ Progress' = "complete"
    BY <1>6 DEF BeginDisable, EndDisable, Progress
  <2>2. Copying' = Copying /\ remaining' = remaining
    BY <1>6 DEF BeginDisable, EndDisable, Copying
  <2>3. UNCHANGED <<offset, cut, length, calls, live>>
    BY <1>6 DEF BeginDisable, EndDisable
  <2> QED BY <2>1, <2>2, <2>3, Stutter
<1>7. CASE DisableFails
  <2>1. Progress = "complete" /\ Progress' = "complete"
    BY <1>7 DEF DisableFails, Progress
  <2>2. Copying' = Copying /\ remaining' = remaining
    BY <1>7 DEF DisableFails, Copying
  <2>3. calls \in live /\ calls' \notin live'
    BY <1>7 DEF DisableFails, TransferInv
  <2>4. UNCHANGED <<offset, cut, length>>
    BY <1>7 DEF DisableFails
  <2>5. Transfer!Free
    BY <2>1, <2>2, <2>3, <2>4 DEF Transfer!Free
  <2> QED BY <2>5 DEF Transfer!Next
<1>8. CASE ReturnLength
  <2>1. Progress = "complete" /\ Progress' = "idle"
    BY <1>8 DEF ReturnLength, Progress
  <2>2. Copying' = Copying /\ remaining' = remaining
    BY <1>8 DEF ReturnLength, Copying
  <2>3. length' \in Nat /\ (calls \in live => length' = offset)
    BY <1>8, FreedAssumption DEF ReturnLength, Inv, TypeOK
  <2>4. UNCHANGED <<offset, cut, calls, live>>
    BY <1>8 DEF ReturnLength
  <2>5. Transfer!Return
    BY <2>1, <2>2, <2>3, <2>4 DEF Transfer!Return
  <2> QED BY <2>5 DEF Transfer!Next
<1> QED
  BY <1>1, <1>2, <1>3, <1>4, <1>5, <1>6, <1>7, <1>8 DEF App

(* Nothing and a buffer are that buffer. *)
LEMMA NothingLeft ==
  ASSUME NEW n \in Nat
  PROVE  0 + n = n
OBVIOUS

(* The steps of the encoder and of buffer_callback. *)
LEMMA MmalTransfers ==
  Inv /\ TransferInv /\ Mmal => [Transfer!Next]_(Transfer!vars)
<1> SUFFICES ASSUME Inv, TransferInv, Mmal
             PROVE  Transfer!Next \/ UNCHANGED Transfer!vars
  OBVIOUS
<1> USE DEF MmalGoto, portVars, appVars, userVars, mmalVars
<1>0. /\ offset \in Nat /\ remaining \in Nat /\ chunk \in Nat
      /\ getImageBufferSize \in Nat
  BY Sizes DEF Inv, TypeOK
<1>1. CASE Deliver
  <2>1. app = "wait" /\ sem = 0
    BY <1>1 DEF Deliver, Inv, CallbackInv, TypeOK
  <2>2. Progress = "exposed" /\ Progress' = "exposed"
    BY <1>1, <2>1 DEF Deliver, Progress
  <2>3. chunk' \in 1 .. remaining
    BY <1>0, <1>1, Sizes DEF Deliver, Smaller
  <2>4. Copying = 0 /\ Copying' = chunk'
    BY <1>1 DEF Deliver, Copying
  <2>5. UNCHANGED <<offset, length, calls, live>>
    BY <1>1 DEF Deliver
  <2>6. CASE remaining' = remaining - chunk' /\ cut' = cut
    <3>1. /\ remaining \in Nat /\ chunk' \in Nat
          /\ remaining' + Copying' = (remaining - chunk') + chunk'
          /\ remaining + Copying = remaining + 0
      BY <1>0, <2>3, <2>4, <2>6
    <3>2. remaining' + Copying' = remaining + Copying
      BY <3>1
    <3> QED BY <2>2, <2>5, <2>6, <3>2 DEF Transfer!vars
  <2>7. CASE remaining' = 0 /\ cut' = TRUE
    <3>1. chunk' \in 1 .. remaining + Copying
      BY <1>0, <2>3, <2>4
    <3>2. (remaining + Copying)' = chunk'
      <4>1. chunk' \in Nat
        BY <1>0, <2>3
      <4>2. (remaining + Copying)' = 0 + chunk'
        BY <2>4, <2>7
      <4>3. 0 + chunk' = chunk'
        BY <4>1, NothingLeft
      <4> QED BY <4>2, <4>3
    <3>3. Transfer!Truncate(chunk')
      BY <2>2, <2>5, <2>7, <3>2 DEF Transfer!Truncate
    <3> QED BY <3>1, <3>3 DEF Transfer!Next
  <2> QED BY <1>1, <2>6, <2>7 DEF Deliver
<1>2. CASE TooSmall
  <2>1. mmal = "copy" /\ app = "wait" /\ sem = 0
    BY <1>2 DEF TooSmall, Inv, CallbackInv
  <2>2. Progress = "exposed" /\ Progress' = "exposed"
    BY <1>2, <2>1 DEF TooSmall, Progress
  <2>3. Copying = chunk /\ Copying' = 0
    BY <1>2 DEF TooSmall, Copying
  <2>4. UNCHANGED <<offset, cut, length, calls, live, remaining>>
    BY <1>2 DEF TooSmall
  <2>5. chunk \in 1 .. remaining + Copying
    BY <1>0, <2>1, <2>3 DEF TransferInv
  <2>6. offset + chunk > getImageBufferSize
    BY <1>0, <1>2 DEF TooSmall
  <2>7. (remaining + Copying)' = (remaining + Copying) - chunk
    BY <1>0, <2>3, <2>4
  <2>8. Transfer!Drop(chunk)
    BY <1>0, <2>3, <2>2, <2>4, <2>6, <2>7 DEF Transfer!Drop
  <2> QED BY <2>5, <2>8 DEF Transfer!Next
<1>3. CASE CopyData
  <2>1. mmal = "copy" /\ app = "wait" /\ sem = 0
    BY <1>3 DEF CopyData, Inv, CallbackInv
  <2>2. /\ Progress = "exposed"
        /\ Progress' = IF remaining = 0 THEN "complete" ELSE "exposed"
    BY <1>3, <2>1 DEF CopyData, FrameEnd, Progress
  <2>3. Copying = chunk /\ Copying' = 0
    BY <1>3 DEF CopyData, FrameEnd, Copying
  <2>4. UNCHANGED <<cut, length, calls, live, remaining>>
    BY <1>3 DEF CopyData
  <2>5. chunk \in 1 .. remaining + Copying
    BY <1>0, <2>1, <2>3 DEF TransferInv
  <2>6. offset + chunk <= getImageBufferSize /\ offset' = offset + chunk
    BY <1>0, <1>3 DEF CopyData
  <2>7. /\ (remaining + Copying)' = (remaining + Copying) - chunk
        /\ (remaining + Copying)' = remaining
    BY <1>0, <2>3, <2>4
  <2>8. Transfer!Copy(chunk)
    BY <1>0, <2>3, <2>2, <2>4, <2>6, <2>7 DEF Transfer!Copy
  <2> QED BY <2>5, <2>8 DEF Transfer!Next
<1>4. CASE PostFrame
  <2>1. app = "wait" /\ sem = 0 /\ sem' = 1
    BY <1>4 DEF PostFrame, Inv, CallbackInv
  <2>2. Progress = "complete" /\ Progress' = "complete"
    BY <1>4, <2>1 DEF PostFrame, Progress
  <2>3. Copying' = Copying /\ remaining' = remaining
    BY <1>4 DEF PostFrame, Copying
  <2>4. UNCHANGED <<offset, cut, length, calls, live>>
    BY <1>4 DEF PostFrame
  <2> QED BY <2>2, <2>3, <2>4, Stutter
<1>5. CASE ReleaseBuffer \/ TakeBuffer
  <2>1. Progress' = Progress
    BY <1>5 DEF ReleaseBuffer, TakeBuffer, Progress
  <2>2. Copying' = Copying /\ remaining' = remaining
    BY <1>5 DEF ReleaseBuffer, TakeBuffer, Copying
  <2>3. UNCHANGED <<offset, cut, length, calls, live>>
    BY <1>5 DEF ReleaseBuffer, TakeBuffer
  <2> QED BY <2>1, <2>2, <2>3, Stutter
<1>6. CASE EndCallback \/ SendNewBuffer
  <2>1. Progress' = Progress
    BY <1>6 DEF EndCallback, SendNewBuffer, Progress
  <2>2. Copying' = Copying /\ remaining' = remaining
    BY <1>6 DEF EndCallback, SendNewBuffer, Copying
  <2>3. UNCHANGED <<offset, cut, length, calls, live>>
    BY <1>6 DEF EndCallback, SendNewBuffer
  <2> QED BY <2>1, <2>2, <2>3, Stutter
<1> QED
  BY <1>1, <1>2, <1>3, <1>4, <1>5, <1>6 DEF Mmal

(* takePicture and buffer_callback together are a FrameTransfer, whatever  *)
(* the size of the picture and of the buffers and whichever call fails.    *)
THEOREM TransferRefined == Spec => ImplementsTransfer
<1>1. Init => TransferInv /\ Transfer!Init
  <2> SUFFICES ASSUME Init PROVE TransferInv /\ Transfer!Init
    OBVIOUS
  <2>1. TransferInv
    BY DEF Init, TransferInv
  <2>2. Progress = "idle" /\ Copying = 0 /\ calls \notin live
    BY DEF Init, Progress, Copying
  <2> QED BY <2>1, <2>2 DEF Init, Transfer!Init
<1>2. Inv /\ TransferInv /\ [Next]_vars => TransferInv'
  BY TransferStep
<1>3. Inv /\ TransferInv /\ [Next]_vars => [Transfer!Next]_(Transfer!vars)
  <2> SUFFICES ASSUME Inv, TransferInv, [Next]_vars
               PROVE  [Transfer!Next]_(Transfer!vars)
    OBVIOUS
  <2>1. CASE App
    BY <2>1, AppTransfers
  <2>2. CASE Mmal
    BY <2>2, MmalTransfers
  <2>3. CASE UNCHANGED vars
    <3>1. Progress' = Progress /\ Copying' = Copying
      BY <2>3 DEF vars, appVars, userVars, mmalVars, Progress, Copying
    <3>2. UNCHANGED <<remaining, offset, cut, length, calls, live>>
      BY <2>3 DEF vars, appVars, userVars, mmalVars
    <3> QED BY <3>1, <3>2, Stutter
  <2> QED BY <2>1, <2>2, <2>3 DEF Next, Finished
<1> QED
  BY <1>1, <1>2, <1>3, ControlInvariant, PTL
     DEF Spec, ImplementsTransfer, Transfer!Spec

(* While a frame comes in, what has been copied and what is left are the   *)
(* frame, if it fits and the transmission has not failed; nothing of it is *)
(* left with the encoder or in buffer_callback when the call goes on.      *)
THEOREM FramesWhole == Spec => []Transfer!Whole
<1>1. Inv => (Progress # "exposed" => remaining + Copying = 0)
  <2> SUFFICES ASSUME Inv, Progress # "exposed"
               PROVE  remaining + Copying = 0
    OBVIOUS
  <2>1. CASE app = "wait"
    <3>1. mmal = "post" \/ sem # 0
      BY <2>1 DEF Progress
    <3>2. remaining = 0 /\ mmal # "copy"
      BY <2>1, <3>1 DEF Inv, CallbackInv
    <3> QED BY <3>2 DEF Copying
  <2>2. CASE app # "wait"
    <3>1. remaining = 0 /\ mmal # "copy"
      BY <2>2 DEF Inv, CallbackInv
    <3> QED BY <3>1 DEF Copying
  <2> QED BY <2>1, <2>2
<1>2. CASE ImageSize <= getImageBufferSize
  <2>1. Init => FrameInv
    BY DEF Init, FrameInv
  <2>2. Inv /\ FrameInv /\ [Next]_vars => FrameInv'
    BY <1>2, FrameStep
  <2>3. Inv /\ FrameInv => Transfer!Whole
    <3> SUFFICES ASSUME Inv, FrameInv, Progress \in {"exposed", "complete"},
                        ~ cut
                 PROVE  offset + (remaining + Copying) = ImageSize
      BY <1>1 DEF Transfer!Whole
    <3>1. /\ offset \in Nat /\ remaining \in Nat /\ chunk \in Nat
          /\ ImageSize \in Nat
      BY Sizes DEF Inv, TypeOK
    <3>2. CASE app = "wait"
      <4>1. offset + Copying + remaining = ImageSize
        BY <3>2 DEF FrameInv
      <4>2. Copying \in Nat
        BY <3>1 DEF Copying
      <4> QED BY <3>1, <4>1, <4>2
    <3>3. CASE app # "wait"
      <4>1. app \in {"stop", "flush", "read"}
        BY <3>3 DEF Progress, Inv, TypeOK
      <4>2. remaining = 0 /\ Copying = 0
        BY <3>3 DEF Copying, Inv, CallbackInv
      <4>3. offset = ImageSize
        BY <4>1 DEF FrameInv
      <4> QED BY <3>1, <4>2, <4>3
    <3> QED BY <3>2, <3>3
  <2> QED BY <2>1, <2>2, <2>3, ControlInvariant, PTL DEF Spec
<1>3. CASE ~ (ImageSize <= getImageBufferSize)
  <2>1. Inv => Transfer!Whole
    BY <1>1, <1>3 DEF Transfer!Whole
  <2> QED BY <2>1, ControlInvariant, PTL
<1> QED BY <1>2, <1>3

=============================================================================
