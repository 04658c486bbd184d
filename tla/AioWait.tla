------------------------------ MODULE AioWait ------------------------------
(***************************************************************************)
(* WaitForIRQ and AbortRequest of the library src/aiowdm/aiowdm.cpp on top *)
(* of the ioctls of IrqWait: what a caller of the library gets to see.     *)
(***************************************************************************)
EXTENDS IrqWaitRefinement

(* The C library turns a negative return of the driver into -1 and errno. *)
Ioctl(s) == IF s < 0 THEN -1 ELSE s

(* Both functions return what ioctl() returned. *)
LibStatus(t) == Ioctl(status[t])
=============================================================================
