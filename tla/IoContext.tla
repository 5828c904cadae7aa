----------------------------- MODULE IoContext -----------------------------
(***************************************************************************)
(* The asio io_service as simple_http_server.cpp uses it: one FIFO queue   *)
(* of completed operations and a fixed pool of threads that all call       *)
(* run().  A thread in the run loop takes the operation at the head of the *)
(* queue and executes its handler to the end; once stop() has been called, *)
(* a thread leaves the loop the next time it comes back to it, and what is *)
(* still queued is never executed.                                         *)
(*                                                                         *)
(* pc[w] = "run" means that thread w is inside do_run_one, waiting for an  *)
(* operation.  While w executes a handler, pc[w] is the statement it is    *)
(* at; the first statement of a handler has the kind of its operation as   *)
(* its label.                                                              *)
(***************************************************************************)
EXTENDS Integers, Sequences, FiniteSets

CONSTANT Workers            \* the threads that call io_service.run()

ASSUME WorkersAssumption == IsFiniteSet(Workers)

VARIABLES
  opQueue,                  \* scheduler::op_queue_
  stopped,                  \* scheduler::stopped_
  pc                        \* control point of each thread

(* The queue is empty, run() has been entered by every thread. *)
IoInit ==
  /\ opQueue = << >>
  /\ stopped = FALSE
  /\ pc = [w \in Workers |-> "run"]

(* Mutant: the newest operation is run first. *)
EnqueueFirst(op) == opQueue' = <<op>> \o opQueue

(* Appends an operation: post() by a handler, or the reactor delivering a  *)
(* timer, a socket or a signal that has become ready.                      *)
Enqueue(op) == opQueue' = Append(opQueue, op)

(* Thread w takes the operation at the head and enters its handler. *)
Dequeue(w) ==
  /\ pc[w] = "run"
  /\ ~ stopped
  /\ opQueue # << >>
  /\ opQueue' = Tail(opQueue)
  /\ pc' = [pc EXCEPT ![w] = Head(opQueue).kind]
  /\ UNCHANGED stopped

(* Thread w goes from one statement of its handler to the next. *)
Goto(w, from, to) ==
  /\ pc[w] = from
  /\ pc' = [pc EXCEPT ![w] = to]

(* io_service.stop(): only the flag changes, running handlers go on. *)
StopIo == stopped' = TRUE

(* Thread w finds the flag set and returns from run(). *)
LeaveRun(w) ==
  /\ stopped
  /\ Goto(w, "run", "returned")
  /\ UNCHANGED <<opQueue, stopped>>

=============================================================================
