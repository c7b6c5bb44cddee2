--------------------------- MODULE MC_Q6Session ---------------------------
(* The instance of Q6Session for model checking; see MC_Q6Session.cfg.   *)
EXTENDS Q6Session

TwoKernels == {"a.xclbin", "b.xclbin"}
TwoBoards == {0, 1}
===========================================================================
