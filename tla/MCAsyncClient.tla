---------------------------- MODULE MCAsyncClient ----------------------------
(* Instances of AsyncClient for TLC: wait_for goes through all the calls. *)
EXTENDS AsyncClient

CONSTANTS c1, c2

TwoCalls == <<c1, c2>>
=============================================================================
