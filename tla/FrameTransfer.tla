--------------------------- MODULE FrameTransfer ---------------------------
(***************************************************************************)
(* What takePicture of src/src/cam_still.cpp promises its caller, without  *)
(* ports, buffers, callbacks and semaphores: a call is refused, or one     *)
(* frame is exposed; bytes of this frame and of no other arrive until none *)
(* is left, and only when the last of them has been copied does the call   *)
(* return with their number.  A call whose last bytes have been dropped    *)
(* never returns.                                                          *)
(***************************************************************************)
EXTENDS Integers

CONSTANTS
  FrameSize,   \* bytes of a frame
  Room         \* bytes in the caller's memory

VARIABLES
  state,       \* "idle", "asked", "exposed" or "complete"
  left,        \* bytes of the frame that have not been copied or dropped
  copied,      \* bytes in the caller's memory
  cut,         \* the transmission of the frame has failed
  kept,        \* the number of copied bytes has not been freed
  length       \* *length when the last successful call returned

vars == <<state, left, copied, cut, kept, length>>

Init ==
  /\ state = "idle"
  /\ left = 0 /\ copied = 0 /\ length = 0
  /\ cut = FALSE /\ kept = FALSE

Ask ==
  /\ state = "idle" /\ state' = "asked"
  /\ copied' = 0 /\ kept' = TRUE
  /\ UNCHANGED <<left, cut, length>>

(* takePicture returns -1. *)
Refuse ==
  /\ state = "asked" /\ state' = "idle"
  /\ UNCHANGED <<left, copied, cut, kept, length>>

Expose ==
  /\ state = "asked" /\ state' = "exposed"
  /\ left' = FrameSize /\ cut' = FALSE
  /\ UNCHANGED <<copied, kept, length>>

(* The last bytes complete the frame. *)
Copy(n) ==
  /\ state = "exposed" /\ copied + n <= Room
  /\ copied' = copied + n /\ left' = left - n
  /\ state' = IF left' = 0 THEN "complete" ELSE "exposed"
  /\ UNCHANGED <<cut, kept, length>>

(* Bytes that do not fit. *)
Drop(n) ==
  /\ state = "exposed" /\ copied + n > Room
  /\ left' = left - n
  /\ UNCHANGED <<state, copied, cut, kept, length>>

(* The camera gives up: n bytes more and no others. *)
Truncate(n) ==
  /\ state = "exposed"
  /\ left' = n /\ cut' = TRUE
  /\ UNCHANGED <<state, copied, kept, length>>

Free ==
  /\ state = "complete" /\ kept
  /\ kept' = FALSE
  /\ UNCHANGED <<state, left, copied, cut, length>>

(* takePicture returns 0. *)
Return ==
  /\ state = "complete" /\ state' = "idle"
  /\ length' \in Nat /\ (kept => length' = copied)
  /\ UNCHANGED <<left, copied, cut, kept>>

Next ==
  \/ Ask \/ Refuse \/ Expose \/ Free \/ Return
  \/ \E n \in 1 .. left : Copy(n) \/ Drop(n) \/ Truncate(n)

Spec == Init /\ [][Next]_vars
-----------------------------------------------------------------------------

(* What follows from the transfer alone: while the frame comes in, the     *)
(* bytes copied and those that are left are the frame, if it fits and is   *)
(* not cut; and nothing is left when it is complete.                       *)
Whole ==
  /\ state # "exposed" => left = 0
  /\ state \in {"exposed", "complete"} /\ ~ cut /\ FrameSize <= Room =>
       copied + left = FrameSize

=============================================================================
