-------------------------- MODULE MCCaptureServer --------------------------
(* Instances of CaptureServer for TLC. *)
EXTENDS CaptureServer, TLC

(* The threads are interchangeable: sound for the runs without liveness. *)
Symmetry == Permutations(Workers)

=============================================================================
