-------------------------- MODULE MC_Q6Pipeline --------------------------
(* Model-checking instances of Q6Pipeline; see the MC_Q6Pipeline_*.cfg.  *)
EXTENDS Q6Pipeline

EnqueueFaults == {"enqueue"}
LeftoverFaults == {"ereport", "execute"}
===========================================================================
