------------------------------- MODULE Q6P2P -------------------------------
(***************************************************************************)
(* The offload loop of xql6p2p: xql6_run_hw, the read path behind it       *)
(* (xql6FillBlock_new, xpgread_bigd, mdread_bigd) and fpga_q6_enq_compute. *)
(*                                                                         *)
(* Raw heap pages go from the relation's file straight into a device       *)
(* buffer: 2 MB of them at block number blkId * XQL6_BLK_SZ / BLCKSZ.  A   *)
(* read that does not fill the buffer is padded with zeros and is the last *)
(* one.  Two commands per block follow, the kernel ("nd") and the          *)
(* migration of its result ("rd"), over the same ring as in Q6Pipeline.    *)
(*                                                                         *)
(* The file is what md.c sees: segments of RELSEG_SIZE pages.              *)
(*                                                                         *)
(* Buffers, events and queue outlive a query.  A query that ends early     *)
(* (NoSegment, EnqueueFails) leaves commands on the queue, and the next    *)
(* one takes the slots from 0 on again without waiting for them.           *)
(***************************************************************************)
EXTENDS Integers, Sequences, FiniteSets

CONSTANTS
  NCOMPUTES,   \* blocks whose results are read back together (5 in the code)
  BLK_PAGES,   \* XQL6_BLK_SZ / BLCKSZ (256)
  RELSEG_SIZE, \* pages of a file segment (131072)
  INT_PAGES,   \* 2^31 / BLCKSZ: pages whose byte offset fits an int (262144)
  MaxPages,    \* bound: pages of the largest relation
  MaxCalls,    \* bound: queries of a session
  Faults       \* subset of FaultKinds: what the environment does

FaultKinds == {"enqueue", "read"}

ASSUME P2PAssumption ==
  /\ NCOMPUTES \in Nat \ {0} /\ BLK_PAGES \in Nat \ {0}
  /\ RELSEG_SIZE \in Nat \ {0} /\ RELSEG_SIZE % BLK_PAGES = 0
  /\ INT_PAGES \in Nat \ {0} /\ INT_PAGES % BLK_PAGES = 0
  /\ MaxPages \in Nat /\ MaxCalls \in Nat /\ Faults \subseteq FaultKinds

NPIPES == 2 * NCOMPUTES
Slots == 0 .. NPIPES - 1
Offsets == 0 .. BLK_PAGES - 1
MaxBlk == (MaxPages \div BLK_PAGES) + 1

\* A page of a buffer is named by the query that read it and its number in the
\* file; "whole" says that none of its bytes has been overwritten.
PageSet == [query : 0 .. MaxCalls, num : 0 .. MaxPages, whole : BOOLEAN]
Zero == [query |-> 0, num |-> 0, whole |-> TRUE]
Block == [Offsets -> PageSet]
ZeroBlock == [q \in Offsets |-> Zero]

Cmds == [op : {"nd", "rd"}, query : 0 .. MaxCalls, blk : 0 .. MaxBlk]
Command(o, q, n) == [op |-> o, query |-> q, blk |-> n]

VARIABLES
  pc, blkId, blkIdDone, bRealPages, status,   \* xql6_run_hw
  call,        \* queries started
  k,           \* index of the read-back loop
  nPages,      \* pages of the relation's file
  wraps,       \* in this build the int product of pgblk wraps around
  direct,      \* the file is open with O_DIRECT
  lost,        \* a read of this query has failed (history)
  tainted,     \* commands of earlier queries were on the queue at the start (history)
  acc,         \* what the kernels whose results are in q6_sum had read
  pInp,        \* pInp[s]: pages in the device buffer of slot s
  devOut,      \* devOut[s]: what the result word on the device stands for
  pOut,        \* pOut[s]: the same for the mapped result word
  rdEvent,     \* rdEvent[s]: the last result migration of the slot
  pend         \* commands not complete

host == <<pc, blkId, blkIdDone, bRealPages, status, call, k>>
file == <<nPages, wraps, direct, lost, tainted>>
mem == <<pInp, devOut, pOut>>
vars == <<host, file, acc, mem, rdEvent, pend>>

Init ==
  /\ pc = "idle" /\ blkId = 0 /\ blkIdDone = 0 /\ bRealPages = FALSE /\ status = "ok"
  /\ call = 0 /\ k = 0
  /\ nPages = 0
  /\ wraps \in BOOLEAN
  /\ direct = FALSE /\ lost = FALSE /\ tainted = FALSE /\ acc = << >>
  /\ pInp = [s \in Slots |-> ZeroBlock]
  /\ devOut = [s \in Slots |-> ZeroBlock] /\ pOut = [s \in Slots |-> ZeroBlock]
  /\ rdEvent = [s \in Slots |-> Command("rd", 0, 0)] /\ pend = {}

Slot(n) == n % NPIPES

\* A command and a page of the query that is running.
Cmd(o, n) == Command(o, call, n)
Page(n) == [query |-> call, num |-> n, whole |-> TRUE]

---------------------------------------------------------------------------
(* xql6_run_hw *)

\* Mutant: the results of the last query count as read back.
StartQueryStaleDone ==
  /\ pc = "idle" /\ call < MaxCalls
  /\ call' = call + 1
  /\ blkId' = 0 /\ bRealPages' = TRUE /\ status' = "ok"
  /\ nPages' \in 0 .. MaxPages
  /\ direct' = TRUE /\ lost' = FALSE /\ tainted' = (pend # {}) /\ acc' = << >>
  /\ pc' = "loop"
  /\ UNCHANGED <<blkIdDone, k, wraps, mem, rdEvent, pend>>

\* The kernel is running; xpgopen opens the file with O_DIRECT.  Nothing waits for
\* what an earlier query has left on the queue.
StartQuery ==
  /\ pc = "idle" /\ call < MaxCalls
  /\ call' = call + 1
  /\ blkId' = 0 /\ blkIdDone' = 0 /\ bRealPages' = TRUE /\ status' = "ok"
  /\ nPages' \in 0 .. MaxPages
  /\ direct' = TRUE /\ lost' = FALSE /\ tainted' = (pend # {}) /\ acc' = << >>
  /\ pc' = "loop"
  /\ UNCHANGED <<k, wraps, mem, rdEvent, pend>>

\* Mutant: the full ring is not recognised the first time.
ReadBackDueLate == blkId % NCOMPUTES = 0 /\ blkId > NPIPES

ReadBackDue == blkId % NCOMPUTES = 0 /\ blkId >= NPIPES
Half == ((blkId - NPIPES) \div NCOMPUTES) % 2

\* clWaitForEvents on half a ring, whose results are then added one by one.
WaitHalf ==
  /\ pc = "loop" /\ bRealPages /\ ReadBackDue
  /\ \A i \in 0 .. NCOMPUTES - 1 : rdEvent[Half * NCOMPUTES + i] \notin pend
  /\ pc' = "sum" /\ k' = 0
  /\ UNCHANGED <<blkId, blkIdDone, bRealPages, status, call, file, acc, mem, rdEvent, pend>>

\* Mutant: one result too many.
AddResultPast ==
  /\ pc = "sum"
  /\ acc' = Append(acc, pOut[Half * NCOMPUTES + k])
  /\ k' = k + 1
  /\ IF k' <= NCOMPUTES THEN UNCHANGED <<pc, blkIdDone>>
                       ELSE pc' = "fill" /\ blkIdDone' = blkId - NCOMPUTES
  /\ UNCHANGED <<blkId, bRealPages, status, call, file, mem, rdEvent, pend>>

AddResult ==
  /\ pc = "sum"
  /\ acc' = Append(acc, pOut[Half * NCOMPUTES + k])
  /\ k' = k + 1
  /\ IF k' < NCOMPUTES THEN UNCHANGED <<pc, blkIdDone>>
                       ELSE pc' = "fill" /\ blkIdDone' = blkId - NCOMPUTES
  /\ UNCHANGED <<blkId, bRealPages, status, call, file, mem, rdEvent, pend>>

\* The read into pInp[blkId % NPIPES] begins.
ReadBegin ==
  /\ \/ pc = "fill"
     \/ pc = "loop" /\ bRealPages /\ ~ReadBackDue
  /\ pc' = "reading"
  /\ UNCHANGED <<blkId, blkIdDone, bRealPages, status, call, k, file, acc, mem, rdEvent, pend>>

\* pgblk = (blkId * XQL6_BLK_SZ) / BLCKSZ.  The product is an int; beyond 2 GB
\* it overflows, which a build computes as meant or modulo 2^32, and a negative
\* one is no block of the relation.
NoBlock == -1
pgblk ==
  LET page == blkId * BLK_PAGES
      wrapped == page % (2 * INT_PAGES)
  IN  IF ~wraps THEN page ELSE IF wrapped < INT_PAGES THEN wrapped ELSE NoBlock

\* _mdfd_getseg finds the segment of page b.
SegmentExists(b) ==
  /\ b # NoBlock
  /\ LET seg == b \div RELSEG_SIZE IN seg = 0 \/ nPages > seg * RELSEG_SIZE

\* Pages FileRead finds at page b.
rdcnt(b) == IF nPages <= b THEN 0 ELSE IF nPages - b < BLK_PAGES THEN nPages - b ELSE BLK_PAGES

\* Mutant: what was not read stays as it was.
FilledUnpadded(b) ==
  [q \in Offsets |-> IF q < rdcnt(b) THEN Page(b + q) ELSE pInp[Slot(blkId)][q]]

\* The buffer after the read and the memset behind it.
Filled(b) == [q \in Offsets |-> IF q < rdcnt(b) THEN Page(b + q) ELSE Zero]

\* if (rdcnt != sz) bRealPages = false
MorePages(b) == rdcnt(b) = BLK_PAGES

ReadEnd ==
  /\ pc = "reading" /\ SegmentExists(pgblk)
  /\ pInp' = [pInp EXCEPT ![Slot(blkId)] = Filled(pgblk)]
  /\ bRealPages' = MorePages(pgblk)
  /\ pc' = "enqueue"
  /\ UNCHANGED <<blkId, blkIdDone, status, call, k, file, acc, devOut, pOut, rdEvent, pend>>

\* FileRead fails: -1, as a size_t not below 0 and not the size wanted.  The memset
\* begins at the byte before the buffer.  That byte may be the last one of another
\* slot's mapping, of something outside the model, or of nothing.
Torn(p) == IF p = Zero THEN Zero ELSE [p EXCEPT !.whole = FALSE]
TornBlock(b) == [b EXCEPT ![BLK_PAGES - 1] = Torn(b[BLK_PAGES - 1])]

ReadFails ==
  /\ "read" \in Faults
  /\ pc = "reading" /\ SegmentExists(pgblk)
  /\ \E s \in Slots :
       pInp' = [t \in Slots |-> IF t = Slot(blkId) THEN ZeroBlock
                               ELSE IF t = s THEN TornBlock(pInp[t]) ELSE pInp[t]]
  /\ bRealPages' = FALSE /\ lost' = TRUE
  /\ pc' = "enqueue"
  /\ UNCHANGED <<blkId, blkIdDone, status, call, k, nPages, wraps, direct, tainted, acc, devOut,
                 pOut, rdEvent, pend>>

\* The byte before the buffer is not mapped: the backend dies.
ReadCrashes ==
  /\ "read" \in Faults
  /\ pc = "reading" /\ SegmentExists(pgblk)
  /\ pc' = "dead"
  /\ UNCHANGED <<blkId, blkIdDone, bRealPages, status, call, k, file, acc, mem, rdEvent, pend>>

\* ereport (ERROR) in _mdfd_getseg: longjmp out of xql6_run_hw.
NoSegment ==
  /\ pc = "reading" /\ ~SegmentExists(pgblk)
  /\ status' = "error" /\ pc' = "idle"
  /\ UNCHANGED <<blkId, blkIdDone, bRealPages, call, k, file, acc, mem, rdEvent, pend>>

\* fpga_q6_enq_compute
Enqueue ==
  /\ pc = "enqueue"
  /\ pend' = pend \cup {Cmd("nd", blkId), Cmd("rd", blkId)}
  /\ rdEvent' = [rdEvent EXCEPT ![Slot(blkId)] = Cmd("rd", blkId)]
  /\ blkId' = blkId + 1
  /\ pc' = IF bRealPages THEN "loop" ELSE "close"
  /\ UNCHANGED <<blkIdDone, bRealPages, status, call, k, file, acc, mem>>

\* ... fails before or after the kernel is on the queue.
EnqueueFails ==
  /\ "enqueue" \in Faults
  /\ pc = "enqueue"
  /\ pend' \in {pend, pend \cup {Cmd("nd", blkId)}}
  /\ status' = "fail" /\ pc' = "close"
  /\ UNCHANGED <<blkId, blkIdDone, bRealPages, call, k, file, acc, mem, rdEvent>>

\* xpgclose
Close ==
  /\ pc = "close"
  /\ direct' = FALSE
  /\ pc' = "drain"
  /\ UNCHANGED <<blkId, blkIdDone, bRealPages, status, call, k, nPages, wraps, lost, tainted, acc,
                 mem, rdEvent, pend>>

Drain ==
  /\ pc = "drain" /\ blkIdDone < blkId
  /\ rdEvent[Slot(blkIdDone)] \notin pend
  /\ acc' = Append(acc, pOut[Slot(blkIdDone)])
  /\ blkIdDone' = blkIdDone + 1
  /\ UNCHANGED <<pc, blkId, bRealPages, status, call, k, file, mem, rdEvent, pend>>

Return ==
  /\ pc = "drain" /\ blkIdDone >= blkId
  /\ pc' = "idle"
  /\ UNCHANGED <<blkId, blkIdDone, bRealPages, status, call, k, file, acc, mem, rdEvent, pend>>

---------------------------------------------------------------------------
(* The device: the kernel has no wait list, the migration waits for it. *)

RunKernel(c) ==
  /\ c.op = "nd"
  /\ devOut' = [devOut EXCEPT ![Slot(c.blk)] = pInp[Slot(c.blk)]]
  /\ pend' = pend \ {c}
  /\ UNCHANGED <<host, file, acc, pInp, pOut, rdEvent>>

\* Mutant: rdEvent instead of ndEvent is what the migration waits for.
RunMigrationOwnEvent(c) ==
  /\ c.op = "rd" /\ Command("rd", c.query, c.blk) \notin pend
  /\ pOut' = [pOut EXCEPT ![Slot(c.blk)] = devOut[Slot(c.blk)]]
  /\ pend' = pend \ {c}
  /\ UNCHANGED <<host, file, acc, pInp, devOut, rdEvent>>

RunMigration(c) ==
  /\ c.op = "rd" /\ Command("nd", c.query, c.blk) \notin pend
  /\ pOut' = [pOut EXCEPT ![Slot(c.blk)] = devOut[Slot(c.blk)]]
  /\ pend' = pend \ {c}
  /\ UNCHANGED <<host, file, acc, pInp, devOut, rdEvent>>

Device == \E c \in pend : RunKernel(c) \/ RunMigration(c)

Host == WaitHalf \/ AddResult \/ ReadBegin \/ ReadEnd \/ NoSegment \/ Enqueue \/ Close \/ Drain \/ Return

Next == StartQuery \/ Host \/ ReadFails \/ ReadCrashes \/ EnqueueFails \/ Device

\* The backend runs and the runtime works its queue off.
Spec == Init /\ [][Next]_vars /\ WF_vars(Host) /\ WF_vars(Device)

---------------------------------------------------------------------------
(* Properties *)

\* Every variable keeps to the values the code can give it; a command names a
\* block the relation can have.
TypeOK ==
  /\ pc \in {"idle", "loop", "sum", "fill", "reading", "enqueue", "close", "drain", "dead"}
  /\ blkId \in 0 .. MaxBlk /\ blkIdDone \in 0 .. MaxBlk /\ k \in 0 .. NCOMPUTES
  /\ call \in 0 .. MaxCalls
  /\ bRealPages \in BOOLEAN /\ direct \in BOOLEAN /\ lost \in BOOLEAN /\ wraps \in BOOLEAN
  /\ tainted \in BOOLEAN
  /\ status \in {"ok", "fail", "error"}
  /\ acc \in Seq(Block)
  /\ pInp \in [Slots -> Block] /\ devOut \in [Slots -> Block] /\ pOut \in [Slots -> Block]
  /\ rdEvent \in [Slots -> Cmds] /\ pend \subseteq Cmds

\* While a read writes into a device buffer no kernel or migration of a block of
\* the same query that had it before is unfinished (xql6.c:250-268, 282): there is
\* no migration to the device, so the read itself is what must not overtake the
\* kernel.  Commands of an earlier query stand in its way only if that query left
\* them behind and they were on the queue when this one began; those the code
\* does not wait for, and the read may overtake them.
ReadOwnsSlot ==
  pc \in {"fill", "reading"} =>
    \A c \in pend : Slot(c.blk) = Slot(blkId) => c.query < call /\ tainted

PagesOf(b) == {<<b[q].query, b[q].num>> : q \in {o \in Offsets : b[o] # Zero}}

\* Within one query that found the queue empty, over a file of fixed size: whatever
\* fails, no page is aggregated twice.  Pages a slot held before never remain behind
\* a short or failed read (the memset at xql6.c:286).
NoPageTwice ==
  ~tainted =>
    \A i, j \in 1 .. Len(acc) : i # j => PagesOf(acc[i]) \cap PagesOf(acc[j]) = {}

\* Within one query that found the queue empty, over a file of fixed size: the
\* results added are those of blocks 0, 1, 2, ... of the relation, each over
\* the pages that block has, and a query that reports a result has added all of
\* them: for every size of the relation, the last block partly filled, empty, at
\* the end of a segment, or beyond the range of an int.
Expected(n) ==
  [q \in Offsets |-> IF n * BLK_PAGES + q < nPages THEN Page(n * BLK_PAGES + q) ELSE Zero]

EveryPageOnce ==
  ~lost /\ ~tainted =>
    /\ \A i \in 1 .. Len(acc) : acc[i] = Expected(i - 1)
    /\ pc = "idle" /\ call > 0 /\ status = "ok" => Len(acc) = (nPages \div BLK_PAGES) + 1

\* Every query ends: with a result, with an error, or, after a failed read, with the
\* backend.
QueryReturns == pc # "idle" ~> pc = "idle" \/ (pc = "dead" /\ "read" \in Faults)

\* xql6FillBlock_new, "if(ret < 0)" (xql6.c:456): a failed read is told from the
\* end of the relation, so no query that lost pages reports a result.
ReadErrorReported == pc = "idle" /\ status = "ok" => ~lost

===========================================================================
