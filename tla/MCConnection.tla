----------------------------- MODULE MCConnection -----------------------------
(* The instance of Connection that Connection.cfg describes: two connect()s *)
(* that may overlap, one queue with a DLQ and one without.                  *)
EXTENDS Connection
=============================================================================
