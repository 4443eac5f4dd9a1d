--------------------------- MODULE MCThreadProxy ---------------------------
(* Descriptors for three clients.  *)
EXTENDS ThreadProxy
CONSTANTS c1, c2, c3
MCClient == {c1, c2, c3}
=============================================================================
