------------------------ MODULE MCWebSocketSession ------------------------
(* Small instances of WebSocketSession for TLC. *)
EXTENDS WebSocketSession
===========================================================================
