---------------------------- MODULE MCMemoryQueue ---------------------------
(* The instance of MemoryQueue for TLC: keys and goroutines are model values *)
(* and not symmetric, for the run checks liveness too.                       *)
EXTENDS MemoryQueue

=============================================================================
