-------------------------------- MODULE MCMRT -------------------------------
(* The MRT transport on small instances: the cfg files MRT_*.cfg give the  *)
(* constants of module MRT their values.                                   *)
EXTENDS MRTInvariant, TLC

\* The sendBuf_timer threads run the same code; only runs without liveness
\* properties use this.
TimerSymmetry == Permutations(Timers)
=============================================================================
