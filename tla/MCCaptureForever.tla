------------------------- MODULE MCCaptureForever -------------------------
(***************************************************************************)
(* CaptureServer with a timer that never stops firing and requests that    *)
(* never stop coming, as the server runs: what is bounded is not how often *)
(* something happens but how long it is remembered.  The numbers of the    *)
(* pictures and of the requests are history; ForgetPictures and            *)
(* ForgetRequests start them again from 0 when their bound is reached, and *)
(* change nothing that a thread's next step depends on.                    *)
(***************************************************************************)
EXTENDS CaptureServer

(* The numbers of the pictures start again.  The timer is armed, so no     *)
(* capture is between taking a picture and moving curImg past it.          *)
ForgetPictures ==
  /\ armed /\ ~ quitFlag /\ taken = MaxPictures
  /\ taken' = 0
  /\ settled' = {}
  /\ imagebuffers' = [s \in Slots |-> 0]
  /\ file' = [s \in Slots |-> 0]
  /\ local' = [w \in Workers |->
                 [local[w] EXCEPT !.pic = 0, !.buffer = 0, !.seen = 0]]
  /\ opQueue' = [i \in DOMAIN opQueue |-> [opQueue[i] EXCEPT !.pic = 0]]
  /\ UNCHANGED <<stopped, pc, quitVars, armed, curImg, currentCount,
                 pending_count, requestVars>>

(* The numbers of the requests start again when none is unanswered. *)
ForgetRequests ==
  /\ received = MaxRequests /\ answered = MaxRequests
  /\ received' = 0
  /\ answered' = 0
  /\ UNCHANGED <<opQueue, stopped, pc, quitVars, armed, local, taken,
                 ringVars, saveVars>>

ForeverNext == Next \/ ForgetPictures \/ ForgetRequests

(* The timer goes on: what is forgotten is no reason to stop. *)
ForeverSpec ==
  Init /\ [][ForeverNext]_vars /\ Fairness /\ WF_vars(ForgetPictures)

=============================================================================
