-------------------------------- MODULE MCHttp --------------------------------
(* Small instances of the HTTP connector for TLC. *)
EXTENDS HttpConnector

CONSTANTS a, b, c

ThreeTasks == {a, b, c}
=============================================================================
