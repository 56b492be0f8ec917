--------------------------------- MODULE Kernel --------------------------------
(***************************************************************************)
(* What the services above the process kernel name of it: the processes,   *)
(* "none of them" and the capacity of its event queue.                     *)
(***************************************************************************)
CONSTANTS
  Proc,
  NULL,       (* PROCESS_NONE, and other pointers to nothing                *)
  NumEvents   (* PROCESS_CONF_NUMEVENTS                                     *)
================================================================================
