--------------------------- MODULE PictureLedger ---------------------------
(***************************************************************************)
(* What src/src/timer.cpp promises for the pictures it takes, without its  *)
(* threads, queue, ring and timer: every picture is counted once, in the   *)
(* order in which pictures are taken, is saved or given up once, and is in *)
(* the backlog from the time it is counted until its save has ended.       *)
(***************************************************************************)
EXTENDS Integers, FiniteSets

VARIABLES
  taken,            \* pictures taken by the camera
  counted,          \* the first so many of them have been counted
  backlog,          \* pictures counted whose save has not ended
  settled,          \* pictures whose save was attempted or was given up
  pending           \* pending_count

vars == <<taken, counted, backlog, settled, pending>>

Init ==
  /\ taken = 0
  /\ counted = 0
  /\ backlog = {}
  /\ settled = {}
  /\ pending = 0

(* Pictures are taken one at a time. *)
Take ==
  /\ counted = taken
  /\ taken' = taken + 1
  /\ UNCHANGED <<counted, backlog, settled, pending>>

(* The picture joins the backlog. *)
Join ==
  /\ counted < taken
  /\ counted' = counted + 1
  /\ backlog' = backlog \cup {counted + 1}
  /\ pending' = pending + 1
  /\ UNCHANGED <<taken, settled>>

(* Only the newest picture can be given up. *)
GiveUp ==
  /\ counted \in backlog \ settled
  /\ settled' = settled \cup {counted}
  /\ backlog' = backlog \ {counted}
  /\ pending' = pending - 1
  /\ UNCHANGED <<taken, counted>>

Save(n) ==
  /\ n \in backlog \ settled
  /\ settled' = settled \cup {n}
  /\ UNCHANGED <<taken, counted, backlog, pending>>

Finish(n) ==
  /\ n \in backlog \cap settled
  /\ backlog' = backlog \ {n}
  /\ pending' = pending - 1
  /\ UNCHANGED <<taken, counted, settled>>

Next ==
  \/ Take
  \/ Join
  \/ GiveUp
  \/ \E n \in backlog : Save(n) \/ Finish(n)

Spec == Init /\ [][Next]_vars
-----------------------------------------------------------------------------

(* What follows from the ledger alone: pending is the size of the backlog, *)
(* every counted picture is in the backlog or settled, and at most the     *)
(* last picture taken has not been counted.                                *)
Exact ==
  /\ pending = Cardinality(backlog)
  /\ 1 .. counted = backlog \cup settled
  /\ taken - counted \in {0, 1}

=============================================================================
