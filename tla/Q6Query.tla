------------------------------ MODULE Q6Query ------------------------------
(***************************************************************************)
(* What a hardware query promises, without rings, buffers and commands:    *)
(* the partial results of the relation's blocks are added one after        *)
(* another, each once, and a result is reported only when all of them      *)
(* were.  A query may be spoiled (it ran over the leftovers of a failed    *)
(* one, or the device reported an error the host does not look at): then   *)
(* the values added are anything, but still one per block.                 *)
(***************************************************************************)
EXTENDS Integers, Sequences

CONSTANTS
  MaxBlk,      \* blocks of the largest relation
  Results      \* what the device may hand back

VARIABLES
  running,     \* a query is being served
  query,       \* its number
  size,        \* blocks of its relation
  sum,         \* partial results added so far
  outcome,     \* how the last query ended ("none" while one is running)
  spoiled

qvars == <<running, query, size, sum, outcome, spoiled>>

Outcomes == {"ok", "fail", "error"}

Init ==
  /\ running = FALSE /\ query = 0 /\ size = 0 /\ sum = << >>
  /\ outcome = "ok" /\ spoiled = FALSE

Ask ==
  /\ ~running /\ running' = TRUE
  /\ query' = query + 1
  /\ size' \in 1 .. MaxBlk
  /\ sum' = << >> /\ outcome' = "none"
  /\ spoiled' \in BOOLEAN

Add ==
  /\ running /\ Len(sum) < size
  /\ Len(sum') = Len(sum) + 1
  /\ \A i \in 1 .. Len(sum) : sum'[i] = sum[i]
  /\ sum'[Len(sum')] \in Results
  /\ ~spoiled => sum'[Len(sum')] = <<query, Len(sum)>>
  /\ UNCHANGED <<running, query, size, outcome, spoiled>>

Spoil ==
  /\ spoiled' = TRUE
  /\ UNCHANGED <<running, query, size, sum, outcome>>

\* A result only for a complete sum; a failure only for an incomplete one.
Answer ==
  /\ running /\ running' = FALSE
  /\ outcome' \in IF Len(sum) = size THEN {"ok"} ELSE {"fail", "error"}
  /\ UNCHANGED <<query, size, sum, spoiled>>

Next == Ask \/ Add \/ Spoil \/ Answer

Spec == Init /\ [][Next]_qvars

===========================================================================
