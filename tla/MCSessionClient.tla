------------------------------ MODULE MCSessionClient ------------------------------
(* One session with two faults: a lost socket and a failed attempt, so that *)
(* its reconnect can succeed, try again or give up; or two sessions with    *)
(* one fault, for what the goroutines of the first still do to the second.  *)
EXTENDS SessionClient
====================================================================================
