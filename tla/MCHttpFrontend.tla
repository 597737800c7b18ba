--------------------------- MODULE MCHttpFrontend ---------------------------
(* One HTTP connection, every kind of request. *)
EXTENDS HttpFrontend
=============================================================================
