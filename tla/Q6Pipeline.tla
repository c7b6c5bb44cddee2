---------------------------- MODULE Q6Pipeline ----------------------------
(***************************************************************************)
(* The offload loop of the Query 6 UDF: xql6_run_hw and the OpenCL wrapper *)
(* fpga_q6_enq_compute.                                                    *)
(*                                                                         *)
(* A query is cut into 2 MB blocks.  Block n is packed into the mapped     *)
(* input buffer pInp[n % NPIPES] and three commands are put on an          *)
(* out-of-order queue: migrate the input to the device ("wr"), run the     *)
(* kernel ("nd"), migrate the one-word result back ("rd").  Before block   *)
(* n reuses a slot the loop waits for half of the ring and adds up its     *)
(* results; when the relation is exhausted, or an enqueue fails, a second  *)
(* loop drains what is left.                                               *)
(*                                                                         *)
(* The four arrays of memory (the mapped host side and the device side of  *)
(* devInp and of devOut) outlive a query: they belong to the FPGA session. *)
(* Nothing waits for a command left behind by a query that failed, so the  *)
(* model runs a sequence of queries over the same memory.                  *)
(***************************************************************************)
EXTENDS Integers, Sequences, FiniteSets

CONSTANTS
  NCOMPUTES,   \* blocks whose results are read back together (5 in the code)
  MaxBlk,      \* bound: blocks of the largest relation
  MaxCalls,    \* bound: queries run in one FPGA session
  Faults       \* subset of FaultKinds: which failures the environment has

FaultKinds == {"enqueue", "execute", "ereport"}

ASSUME PipelineAssumption ==
  /\ NCOMPUTES \in Nat \ {0}
  /\ MaxBlk \in Nat \ {0}
  /\ MaxCalls \in Nat
  /\ Faults \subseteq FaultKinds

\* The ring has two halves: one is read back while the other is computed.
NPIPES == 2 * NCOMPUTES

Slots == 0 .. NPIPES - 1

\* A block is named by the query it belongs to and its number in that query.
Tags == Nat \X Nat
NoTag == <<0, 0>>          \* memory before the first query (queries count from 1)
Torn == <<0, 1>>           \* a buffer half written, or read while it was written

Ops == {"wr", "nd", "rd"}
Cmds == [op : Ops, tag : Tags]
Cmd(o, t) == [op |-> o, tag |-> t]

Slot(t) == t[2] % NPIPES

\* Each command moves a block one stage along the path of its slot.
Stages == {"pInp", "devInp", "devOut", "pOut"}
Src(o) == IF o = "wr" THEN "pInp" ELSE IF o = "nd" THEN "devInp" ELSE "devOut"
Dst(o) == IF o = "wr" THEN "devInp" ELSE IF o = "nd" THEN "devOut" ELSE "pOut"

VARIABLES
  pc,          \* where xql6_run_hw is
  call,        \* number of the current (or last) query
  total,       \* blocks that query's relation fills
  blkId, blkIdDone, bRealPages, status,    \* locals of xql6_run_hw
  k,           \* index of the read-back loop
  acc,         \* the partial results added to q6_sum, in order
  rdEvent,     \* rdEvent[slot]: the last result migration put on the slot
  mem,         \* mem[stage][slot]: the block held there
  pend,        \* commands enqueued, not started
  exec,        \* commands executing, with the value their source had at the start
  failed,      \* commands that ended with an error status
  tainted      \* this query began over unfinished commands, or one of its failed

host == <<pc, call, total, blkId, blkIdDone, bRealPages, status, k, acc>>
dev  == <<rdEvent, mem, pend, exec, failed, tainted>>
vars == <<host, dev>>

Tag == <<call, blkId>>

\* Commands whose event is not complete.
InFlight == pend \cup {e.cmd : e \in exec}
Done(c) == c \notin InFlight

\* Mutant: the result migration waits for the input migration.
WaitListSkipsKernel(c) == IF c.op = "wr" THEN {} ELSE {Cmd("wr", c.tag)}

\* What a command waits for: its one-entry event wait list.
WaitList(c) ==
  IF c.op = "wr" THEN {}
  ELSE {Cmd(IF c.op = "nd" THEN "wr" ELSE "nd", c.tag)}

Init ==
  /\ pc = "idle" /\ call = 0 /\ total = 0
  /\ blkId = 0 /\ blkIdDone = 0 /\ bRealPages = FALSE /\ status = "ok"
  /\ k = 0 /\ acc = << >>
  /\ rdEvent = [s \in Slots |-> Cmd("rd", NoTag)]
  /\ mem = [g \in Stages |-> [s \in Slots |-> NoTag]]
  /\ pend = {} /\ exec = {} /\ failed = {} /\ tainted = FALSE

---------------------------------------------------------------------------
(* The host: xql6_run_hw *)

\* The kernel is running and the relation, as its size was read, fills n blocks.
StartQuery ==
  /\ pc = "idle" /\ call < MaxCalls
  /\ call' = call + 1
  /\ total' \in 1 .. MaxBlk
  /\ blkId' = 0 /\ blkIdDone' = 0 /\ bRealPages' = TRUE /\ status' = "ok"
  /\ k' = 0 /\ acc' = << >>
  /\ pc' = "loop"
  /\ tainted' = (InFlight # {})
  /\ UNCHANGED <<rdEvent, mem, pend, exec, failed>>

\* Mutant: the full ring is not recognised the first time.
ReadBackDueLate == blkId % NCOMPUTES = 0 /\ blkId > NPIPES

\* if (blkId % 5 == 0 && blkId >= 10)
ReadBackDue == blkId % NCOMPUTES = 0 /\ blkId >= NPIPES

\* Mutant: the half just enqueued is waited for.
HalfOther == ((blkId - NCOMPUTES) \div NCOMPUTES) % 2

\* size_t j = ((blkId - 10)/5) % 2
Half == ((blkId - NPIPES) \div NCOMPUTES) % 2

\* clWaitForEvents (5, &rdEvent[j*5]); its status is ignored.
WaitHalf ==
  /\ pc = "loop" /\ bRealPages /\ ReadBackDue
  /\ \A i \in 0 .. NCOMPUTES - 1 : Done(rdEvent[Half * NCOMPUTES + i])
  /\ pc' = "sum" /\ k' = 0
  /\ UNCHANGED <<call, total, blkId, blkIdDone, bRealPages, status, acc, dev>>

\* One iteration of the loop that adds pOut[j*5+k] to q6_sum.
AddResult ==
  /\ pc = "sum" /\ k < NCOMPUTES
  /\ acc' = Append(acc, mem["pOut"][Half * NCOMPUTES + k])
  /\ k' = k + 1
  /\ UNCHANGED <<pc, call, total, blkId, blkIdDone, bRealPages, status, dev>>

\* Mutants: the books are not those of the results added.
HalfAddedAll ==
  /\ pc = "sum" /\ k >= NCOMPUTES
  /\ blkIdDone' = blkId
  /\ pc' = "fill"
  /\ UNCHANGED <<call, total, blkId, bRealPages, status, k, acc, dev>>

HalfAddedShort ==
  /\ pc = "sum" /\ k >= NCOMPUTES
  /\ blkIdDone' = blkId - NPIPES - NCOMPUTES
  /\ pc' = "fill"
  /\ UNCHANGED <<call, total, blkId, bRealPages, status, k, acc, dev>>

HalfAdded ==
  /\ pc = "sum" /\ k >= NCOMPUTES
  /\ blkIdDone' = blkId - NCOMPUTES
  /\ pc' = "fill"
  /\ UNCHANGED <<call, total, blkId, bRealPages, status, k, acc, dev>>

\* xql6FillBlock starts to write pages into pInp[blkId % 10].
FillBegin ==
  /\ \/ pc = "fill"
     \/ pc = "loop" /\ bRealPages /\ ~ReadBackDue
  /\ mem' = [mem EXCEPT !["pInp"][blkId % NPIPES] = Torn]
  /\ pc' = "filling"
  /\ UNCHANGED <<call, total, blkId, blkIdDone, bRealPages, status, k, acc,
                 rdEvent, pend, exec, failed, tainted>>

\* ... and returns; it returns false on the block that exhausts the relation.
FillEnd ==
  /\ pc = "filling"
  /\ mem' = [mem EXCEPT !["pInp"][blkId % NPIPES] = Tag]
  /\ bRealPages' = (blkId + 1 < total)
  /\ pc' = "enqWr"
  /\ UNCHANGED <<call, total, blkId, blkIdDone, status, k, acc,
                 rdEvent, pend, exec, failed, tainted>>

\* ereport (ERROR) inside ReadBuffer, or a cancelled query: longjmp out of
\* xql6_run_hw.  Nothing is waited for and nothing is undone.
FillError ==
  /\ "ereport" \in Faults
  /\ pc = "filling"
  /\ pc' = "idle" /\ status' = "error"
  /\ UNCHANGED <<call, total, blkId, blkIdDone, bRealPages, k, acc, dev>>

\* The three enqueues of fpga_q6_enq_compute, in order.
EnqWrite ==
  /\ pc = "enqWr"
  /\ pend' = pend \cup {Cmd("wr", Tag)}
  /\ pc' = "enqNd"
  /\ UNCHANGED <<call, total, blkId, blkIdDone, bRealPages, status, k, acc,
                 rdEvent, mem, exec, failed, tainted>>

EnqKernel ==
  /\ pc = "enqNd"
  /\ pend' = pend \cup {Cmd("nd", Tag)}
  /\ pc' = "enqRd"
  /\ UNCHANGED <<call, total, blkId, blkIdDone, bRealPages, status, k, acc,
                 rdEvent, mem, exec, failed, tainted>>

EnqRead ==
  /\ pc = "enqRd"
  /\ pend' = pend \cup {Cmd("rd", Tag)}
  /\ rdEvent' = [rdEvent EXCEPT ![blkId % NPIPES] = Cmd("rd", Tag)]
  /\ blkId' = blkId + 1
  /\ pc' = IF bRealPages THEN "loop" ELSE "drain"
  /\ UNCHANGED <<call, total, blkIdDone, bRealPages, status, k, acc,
                 mem, exec, failed, tainted>>

\* Mutant: the loop is left but the error is not kept.
EnqFailForgotten ==
  /\ "enqueue" \in Faults
  /\ pc \in {"enqWr", "enqNd", "enqRd"}
  /\ pc' = "drain"
  /\ UNCHANGED <<call, total, blkId, blkIdDone, bRealPages, status, k, acc, dev>>

\* One of the four OpenCL calls of fpga_q6_enq_compute returns an error.  What
\* the earlier ones enqueued stays on the queue; the loop is left.
EnqFail ==
  /\ "enqueue" \in Faults
  /\ pc \in {"enqWr", "enqNd", "enqRd"}
  /\ status' = "fail" /\ pc' = "drain"
  /\ UNCHANGED <<call, total, blkId, blkIdDone, bRealPages, k, acc, dev>>

\* Mutants: the result is read without waiting for its event, or waited for until
\* its migration succeeds.
DrainRetried ==
  /\ pc = "drain" /\ blkIdDone < blkId
  /\ Done(rdEvent[blkIdDone % NPIPES]) /\ rdEvent[blkIdDone % NPIPES] \notin failed
  /\ acc' = Append(acc, mem["pOut"][blkIdDone % NPIPES])
  /\ blkIdDone' = blkIdDone + 1
  /\ UNCHANGED <<pc, call, total, blkId, bRealPages, status, k, dev>>

DrainUnwaited ==
  /\ pc = "drain" /\ blkIdDone < blkId
  /\ acc' = Append(acc, mem["pOut"][blkIdDone % NPIPES])
  /\ blkIdDone' = blkIdDone + 1
  /\ UNCHANGED <<pc, call, total, blkId, bRealPages, status, k, dev>>

\* for ( ; blkIdDone < blkId; ++blkIdDone)
Drain ==
  /\ pc = "drain" /\ blkIdDone < blkId
  /\ Done(rdEvent[blkIdDone % NPIPES])
  /\ acc' = Append(acc, mem["pOut"][blkIdDone % NPIPES])
  /\ blkIdDone' = blkIdDone + 1
  /\ UNCHANGED <<pc, call, total, blkId, bRealPages, status, k, dev>>

\* Mutant: the drain ends one block early.
ReturnEarly ==
  /\ pc = "drain" /\ blkIdDone + 1 >= blkId
  /\ pc' = "idle"
  /\ UNCHANGED <<call, total, blkId, blkIdDone, bRealPages, status, k, acc, dev>>

Return ==
  /\ pc = "drain" /\ blkIdDone >= blkId
  /\ pc' = "idle"
  /\ UNCHANGED <<call, total, blkId, blkIdDone, bRealPages, status, k, acc, dev>>

---------------------------------------------------------------------------
(* The device: an out-of-order queue in front of two DMA engines and one   *)
(* compute unit, so kernels never overlap each other.                      *)

Ready(c) ==
  /\ c \in pend
  /\ \A d \in WaitList(c) : Done(d)

Start(c) ==
  /\ Ready(c) /\ WaitList(c) \cap failed = {}
  /\ c.op = "nd" => \A e \in exec : e.cmd.op # "nd"
  /\ pend' = pend \ {c}
  /\ exec' = exec \cup {[cmd |-> c, val |-> mem[Src(c.op)][Slot(c.tag)]]}
  /\ UNCHANGED <<host, rdEvent, mem, failed, tainted>>

\* A command whose source changed while it ran delivers a mixture.
Finish(e) ==
  /\ exec' = exec \ {e}
  /\ mem' = [mem EXCEPT ![Dst(e.cmd.op)][Slot(e.cmd.tag)] =
               IF mem[Src(e.cmd.op)][Slot(e.cmd.tag)] = e.val THEN e.val ELSE Torn]
  /\ UNCHANGED <<host, rdEvent, pend, failed, tainted>>

\* A command ends with an error status: the device refused it, or a command it
\* waited for failed.  Its event is complete and its target is unchanged.
Abort(c) ==
  /\ Ready(c)
  /\ "execute" \in Faults \/ WaitList(c) \cap failed # {}
  /\ pend' = pend \ {c}
  /\ failed' = failed \cup {c}
  /\ tainted' = TRUE
  /\ UNCHANGED <<host, rdEvent, mem, exec>>

---------------------------------------------------------------------------

Host ==
  \/ WaitHalf \/ AddResult \/ HalfAdded
  \/ FillBegin \/ FillEnd
  \/ EnqWrite \/ EnqKernel \/ EnqRead
  \/ Drain \/ Return

Device ==
  \/ \E c \in pend : Start(c) \/ Abort(c)
  \/ \E e \in exec : Finish(e)

Next == StartQuery \/ Host \/ FillError \/ EnqFail \/ Device

Spec == Init /\ [][Next]_vars

\* The backend runs, and the runtime makes progress on a non-empty queue.  A
\* query is started by the user and a fault by nobody: neither is fair.
FairSpec == Spec /\ WF_vars(Host) /\ WF_vars(Device)

---------------------------------------------------------------------------
(* Properties *)

PCs == {"idle", "loop", "sum", "fill", "filling", "enqWr", "enqNd", "enqRd", "drain"}

\* Every variable keeps to the values the code can give it.
TypeOK ==
  /\ pc \in PCs
  /\ call \in Nat /\ total \in Nat /\ k \in Nat
  /\ blkId \in Nat /\ blkIdDone \in Nat
  /\ bRealPages \in BOOLEAN /\ tainted \in BOOLEAN
  /\ status \in {"ok", "fail", "error"}
  /\ acc \in Seq(Tags)
  /\ rdEvent \in [Slots -> Cmds]
  /\ mem \in [Stages -> [Slots -> Tags]]
  /\ pend \subseteq Cmds /\ failed \subseteq Cmds
  /\ exec \subseteq [cmd : Cmds, val : Tags]

\* The ring index arithmetic (xql6.c:217-234, 260) keeps its books whatever
\* fails: the read-back at the top of the loop and the drain after it together
\* add one result for each block counted as done, and the ring never holds more
\* blocks than it has slots.
RingBooks ==
  /\ blkId - NPIPES <= blkIdDone /\ blkIdDone <= blkId
  /\ Len(acc) = blkIdDone + (IF pc = "sum" THEN k ELSE 0)

\* A slot is refilled (xql6.c:241) only when no command this query put on it is
\* still queued or running: the wait for half a ring covers the slot the next
\* block takes, for every block of the half, also when commands fail or the query
\* began over leftovers.  In an untainted query no other command uses the slot
\* either; over the leftovers of a failed query the code gives no such guarantee.
FillOwnsSlot ==
  pc \in {"fill", "filling"} =>
    \A c \in InFlight :
      c.tag[1] = call \/ ~tainted => Slot(c.tag) # blkId % NPIPES

\* While a transfer or a kernel of an untainted query runs, its source holds the
\* block it was enqueued for: neither the host's next fill nor another command
\* overwrites a buffer in use.
SourceStable ==
  pc # "idle" /\ ~tainted =>
    \A e \in exec : mem[Src(e.cmd.op)][Slot(e.cmd.tag)] = e.cmd.tag

\* The results added to q6_sum are those of blocks 0, 1, 2, ... of this query,
\* each once and in order (xql6.c:224-229, 260-268), also when the loop was left
\* by a failed enqueue.
EachBlockOnce ==
  ~tainted => \A i \in 1 .. Len(acc) : acc[i] = <<call, i - 1>>

\* A query that reports a result (xql6.c:280) has added every block of the
\* relation and nothing else; one that reports a failed enqueue has added the
\* blocks enqueued before it.
ResultComplete ==
  pc = "idle" /\ call > 0 =>
    /\ status = "ok" => Len(acc) = total
    /\ status = "fail" => Len(acc) = blkId /\ blkId < total

\* A query that reports a result (xql6.c:258-280) has none of its own commands on
\* the queue, whatever it ran over.  What may be there are commands of an earlier
\* query that failed, and only when this query began over them or saw one fail.
QuietAfterSuccess ==
  pc = "idle" /\ status = "ok" =>
    \A c \in InFlight : c.tag[1] < call /\ tainted

\* xql6.c:258 "wait for remaining enques to complete": when xql6_run_hw returns,
\* nothing it enqueued is unfinished.
RemainingEnquesComplete ==
  pc = "idle" /\ status # "error" => InFlight = {}

\* Every query returns: neither the wait for half a ring nor the drain waits
\* for an event that nothing will complete.
QueryReturns == pc # "idle" ~> pc = "idle"

\* The pipelined loop implements the sequential sum of Q6Query: the ring, the
\* half-ring read-back and the out-of-order queue are invisible in the result.
Query == INSTANCE Q6Query WITH
  Results <- Tags,
  running <- (pc # "idle"), query <- call, size <- total, sum <- acc,
  outcome <- (IF pc = "idle" THEN status ELSE "none"), spoiled <- tainted

ImplementsQuery == Query!Spec

---------------------------------------------------------------------------
(* The inductive invariant behind the properties above (proved in          *)
(* Q6PipelineProofs).  Ring is about the indices and Own about the query's *)
(* own commands: both hold whatever fails and whatever was left on the     *)
(* queue.  Data follows each block of an untainted query through memory.   *)

InLoop == {"loop", "sum", "fill", "filling", "enqWr", "enqNd", "enqRd"}

\* Results are taken in whole halves inside the loop, so a wait always finds the
\* ring exactly full and a fill never does.
RingIndices ==
  /\ blkIdDone <= blkId /\ blkId <= blkIdDone + NPIPES
  /\ pc \in InLoop => /\ blkIdDone % NCOMPUTES = 0
                      /\ blkIdDone > 0 => blkId >= blkIdDone + NCOMPUTES
  /\ pc = "loop" => (blkIdDone > 0 => blkId > blkIdDone + NCOMPUTES)
  /\ pc = "sum" => blkId = blkIdDone + NPIPES /\ k <= NCOMPUTES
  /\ pc \in {"fill", "filling", "enqWr", "enqNd", "enqRd"} => blkId < blkIdDone + NPIPES
  /\ pc = "drain" /\ status = "fail" => blkId < blkIdDone + NPIPES
  /\ Len(acc) = blkIdDone + (IF pc = "sum" THEN k ELSE 0)

\* How far the relation has been read, and with which status.
RingProgress ==
  /\ pc \in InLoop => status = "ok" /\ blkId < total
  /\ pc \in {"loop", "sum", "fill", "filling"} => bRealPages
  /\ pc \in {"enqWr", "enqNd", "enqRd"} => (bRealPages <=> blkId + 1 < total)
  /\ pc \in {"drain", "idle"} /\ call > 0 =>
       /\ status = "ok" => blkId = total
       /\ status = "fail" => blkId < total
  /\ pc = "drain" => status # "error"
  /\ pc = "idle" /\ status # "error" => blkIdDone = blkId
  /\ pc # "idle" => call > 0

Ring == RingIndices /\ RingProgress

\* Command o of block n of this query is unfinished.
Flying(o, n) == Cmd(o, <<call, n>>) \in InFlight

\* The query's own unfinished commands.
OwnFlight == {c \in InFlight : c.tag[1] = call}

\* They are of blocks in the window; the block being enqueued has only the commands
\* enqueued so far, and a query that succeeded has none.
OwnWindow ==
  /\ \A c \in InFlight : c.tag[1] <= call
  /\ pc = "idle" /\ status = "ok" => OwnFlight = {}
  /\ pc # "idle" =>
       \A c \in OwnFlight :
         /\ blkIdDone <= c.tag[2] /\ c.tag[2] <= blkId
         /\ c.tag[2] = blkId =>
              \/ pc = "enqNd" /\ c.op = "wr"
              \/ pc = "enqRd" /\ c.op # "rd"
              \/ pc = "drain" /\ status = "fail" /\ c.op # "rd"

\* Within a block they finish in the order they were enqueued.
OwnChain ==
  pc # "idle" =>
    /\ \A c \in OwnFlight :
         /\ c.tag[2] < blkId => Cmd("rd", c.tag) \in InFlight
         /\ c.op = "wr" /\ (c.tag[2] < blkId \/ pc = "enqRd") => Cmd("nd", c.tag) \in InFlight
    /\ \A e \in exec : e.cmd \in OwnFlight => \A d \in WaitList(e.cmd) : Done(d)

\* Every enqueued block whose result has not been added has its event in its slot
\* of rdEvent, and the half being added is finished.
OwnEvents ==
  pc # "idle" =>
    /\ \A n \in blkIdDone .. blkId - 1 : rdEvent[n % NPIPES] = Cmd("rd", <<call, n>>)
    /\ pc = "sum" => \A n \in blkIdDone .. blkIdDone + NCOMPUTES - 1 : ~Flying("rd", n)

Own == OwnWindow /\ OwnChain /\ OwnEvents

\* Unfinished commands belong to this query and to a block of the window; the
\* block being enqueued has only the commands enqueued so far.
DataWindow ==
  \A c \in InFlight :
    /\ c.tag[1] = call /\ blkIdDone <= c.tag[2] /\ c.tag[2] <= blkId
    /\ c.tag[2] = blkId =>
         \/ pc = "enqNd" /\ c.op = "wr"
         \/ pc = "enqRd" /\ c.op # "rd"
         \/ pc \in {"drain", "idle"} /\ status = "fail" /\ c.op # "rd"

\* A command is queued or executing, not both, and while it executes its source
\* holds its block and the command it waited for is finished.
DataExec ==
  \A e \in exec :
    /\ e.cmd \notin pend
    /\ e.val = e.cmd.tag
    /\ mem[Src(e.cmd.op)][Slot(e.cmd.tag)] = e.cmd.tag
    /\ \A d \in WaitList(e.cmd) : Done(d)

\* The source of a command whose predecessor is finished holds its block.
DataSource ==
  \A c \in InFlight :
    (\A d \in WaitList(c) : Done(d)) => mem[Src(c.op)][Slot(c.tag)] = c.tag

\* Within a block the commands finish in the order they were enqueued.
DataChain ==
  \A c \in InFlight :
    /\ c.tag[2] < blkId => Cmd("rd", c.tag) \in InFlight
    /\ c.op = "wr" /\ (c.tag[2] < blkId \/ pc = "enqRd") => Cmd("nd", c.tag) \in InFlight

\* The block being enqueued has reached the stage its next command reads.
DataEnq ==
  /\ pc = "enqWr" => mem["pInp"][Slot(Tag)] = Tag
  /\ pc = "enqNd" /\ Done(Cmd("wr", Tag)) => mem["devInp"][Slot(Tag)] = Tag
  /\ pc = "enqRd" /\ Done(Cmd("nd", Tag)) => mem["devOut"][Slot(Tag)] = Tag

\* Every enqueued block whose result has not been added has its event in its
\* slot of rdEvent, and its result in its slot of pOut once that completes.
DataResult ==
  \A n \in blkIdDone .. blkId - 1 :
    /\ rdEvent[n % NPIPES] = Cmd("rd", <<call, n>>)
    /\ ~Flying("rd", n) => mem["pOut"][n % NPIPES] = <<call, n>>

\* The half being added is finished.
DataSum ==
  pc = "sum" => \A n \in blkIdDone .. blkIdDone + NCOMPUTES - 1 : ~Flying("rd", n)

DataParts ==
  /\ DataWindow /\ DataExec /\ DataSource /\ DataChain
  /\ DataEnq /\ DataResult /\ DataSum

Data ==
  /\ EachBlockOnce
  /\ pc # "idle" => DataParts
  /\ pc = "idle" /\ status = "ok" => InFlight = {}

IndInv == TypeOK /\ Ring /\ Own /\ (~tainted => Data)

===========================================================================
