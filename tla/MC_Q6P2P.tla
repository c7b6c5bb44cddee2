----------------------------- MODULE MC_Q6P2P -----------------------------
(* The environments of the runs of Q6P2P. *)
EXTENDS Q6P2P

ReadFaults == {"read"}
ReadEnqueueFaults == {"read", "enqueue"}

===========================================================================
