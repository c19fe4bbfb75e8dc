-------------------------- MODULE MC_SessionRequest --------------------------
(* Two threads that may process the same request, one request being that of *)
(* a connection, on a chat session and on a session that allows concurrency; *)
(* the backlog of the callback may exceed the cancellation window.          *)
EXTENDS SessionRequest
=============================================================================
