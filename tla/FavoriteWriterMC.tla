-------------------------- MODULE FavoriteWriterMC --------------------------
(* The threads of Remote Control (Wi-Fi and Bluetooth) and the worker, where  *)
(* two writes may run: each of the three may have to wait for the other two.  *)
EXTENDS FavoriteWriter, TLC

CONSTANTS a, b, c, wifi, bluetooth

ThreePaths == {a, b, c}
RequestThreads == {wifi, bluetooth}
=============================================================================
