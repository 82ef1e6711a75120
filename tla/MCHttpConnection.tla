--------------------------- MODULE MCHttpConnection ---------------------------
(* HttpConnection with every kind of request, requests of one or two units   *)
(* and answers of two, and a send buffer that does not hold two answers.     *)
EXTENDS HttpConnection

MCKinds == {"keep", "close", "bad", "long"}
=============================================================================
