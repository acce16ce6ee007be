----------------------------- MODULE MCBindings -----------------------------
(* Three requests and a quit, two reconnects, at most two crashes.        *)
EXTENDS Bindings
=============================================================================
