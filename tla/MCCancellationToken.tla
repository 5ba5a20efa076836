------------------------ MODULE MCCancellationToken ------------------------
(* The TLC instance of CancellationToken. *)
EXTENDS CancellationToken
=============================================================================
