----------------------------- MODULE MCWatchLoop -----------------------------
(* WatchLoop with the shortest interval the configuration accepts.          *)
EXTENDS WatchLoop
=============================================================================
