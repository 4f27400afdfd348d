----------------------------- MODULE MCBtLogger -----------------------------
(* BtLogger with one thread of the application besides main and io.        *)
EXTENDS BtLogger

OneWorker == {"aux"}
=============================================================================
