---------------------------- MODULE MCCancelToken ----------------------------
(* A token with three callbacks, one of which fails, and two cancelling threads. *)
EXTENDS CancelToken
=============================================================================
