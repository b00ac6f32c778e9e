--------------------------- MODULE MCNativeSession ---------------------------
(***************************************************************************)
(* NativeSession with one reader of each stream, one writer, the device,   *)
(* the watcher and those who close, cancel and set deadlines.              *)
(***************************************************************************)
EXTENDS NativeSession
=============================================================================
