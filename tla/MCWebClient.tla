----------------------------- MODULE MCWebClient -----------------------------
(* Two requests, one reconnect, and up to three snapshots of each session. *)
EXTENDS WebClient
=============================================================================
