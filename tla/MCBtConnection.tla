--------------------------- MODULE MCBtConnection ---------------------------
(* Small instances of BtConnection: "app" owns the connection, "aux" is a  *)
(* second thread of the application.                                       *)
EXTENDS BtConnection

TwoThreads == {"app", "aux"}
OneReader  == {"aux"}
=============================================================================
