------------------------------ MODULE MCStreams ------------------------------
(* A small instance of Streams for TLC. *)
EXTENDS Streams

CONSTANTS client, server

\* The server opens the streams, as that of the game does.
ServerOpens == (server :> 1) @@ (client :> 0)
Sends       == (server :> 2) @@ (client :> 1)
OnePrio     == [s \in Sid |-> 3]
=============================================================================
