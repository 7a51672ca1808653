---------------------------- MODULE MCWsHandler ----------------------------
(* Instances of WsHandler for TLC.                                         *)
EXTENDS WsHandler

BothPollers == {"epoll", "kqueue"}
AllFrames == {"request", "chat", "app_ping", "ping", "empty_ping", "close", "huge"}
=============================================================================
