------------------------- MODULE Q6PipelineProofs -------------------------
(***************************************************************************)
(* Proofs about Q6Pipeline, for every ring size, relation size, number of  *)
(* queries and set of faults: first how far the ring is filled, then which *)
(* of its own commands a query may still have unfinished, then that every  *)
(* block of an untainted query is transferred, computed, read back and     *)
(* added exactly once.                                                     *)
(***************************************************************************)
EXTENDS Q6Pipeline, RingArith

\* The ring has an even, positive number of slots, and a block number always
\* falls on one of them.
LEMMA SlotInRange ==
  /\ NCOMPUTES \in Nat \ {0}
  /\ NPIPES \in Nat \ {0} /\ NPIPES = 2 * NCOMPUTES
  /\ \A n \in Nat : n % NPIPES \in Slots
<1>1. NCOMPUTES \in Nat \ {0} /\ NPIPES \in Nat \ {0} /\ NPIPES = 2 * NCOMPUTES
  BY PipelineAssumption DEF NPIPES
<1>2. \A n \in Nat : n % NPIPES \in 0 .. NPIPES - 1
  BY <1>1, DivMod
<1> QED BY <1>1, <1>2 DEF Slots

\* The slots the loop reads back at block blkId are those of the oldest half of
\* a full ring, block by block.
LEMMA HalfIsOldest ==
  ASSUME blkId \in Nat, blkIdDone \in Nat, blkId = blkIdDone + NPIPES,
         blkIdDone % NCOMPUTES = 0, NEW i \in 0 .. NCOMPUTES - 1
  PROVE  /\ Half * NCOMPUTES + i = (blkIdDone + i) % NPIPES
         /\ Half * NCOMPUTES + i \in Slots
<1>1. NCOMPUTES \in Nat \ {0} /\ NPIPES = 2 * NCOMPUTES
  BY SlotInRange
<1>2. Half = (blkIdDone \div NCOMPUTES) % 2
  BY SlotInRange DEF Half
<1>3. ((blkIdDone \div NCOMPUTES) % 2) * NCOMPUTES + i = (blkIdDone + i) % (2 * NCOMPUTES)
  BY <1>1, HalfSlot
<1>4. Half * NCOMPUTES + i = (blkIdDone + i) % NPIPES
  BY <1>1, <1>2, <1>3, Zenon
<1>5. blkIdDone + i \in Nat
  BY <1>1
<1>6. (blkIdDone + i) % NPIPES \in Slots
  BY <1>5, SlotInRange
<1> QED BY <1>4, <1>6, Zenon

\* Commands and memory values are built from tags.
LEMMA CmdType ==
  ASSUME NEW o \in Ops, NEW t \in Tags
  PROVE  Cmd(o, t) \in Cmds /\ Cmd(o, t).op = o /\ Cmd(o, t).tag = t
BY DEF Cmd, Cmds

\* The four stages of a slot: where each command reads and writes.
LEMMA StageType ==
  ASSUME NEW o \in Ops
  PROVE  Src(o) \in Stages /\ Dst(o) \in Stages
BY DEF Ops, Src, Dst, Stages

\* A command names its block, whose slot is in the ring.
LEMMA CmdParts ==
  ASSUME NEW c \in Cmds
  PROVE  /\ c.op \in Ops /\ c.tag \in Tags /\ c.tag[1] \in Nat /\ c.tag[2] \in Nat
         /\ Slot(c.tag) \in Slots
         /\ c = Cmd(c.op, c.tag)
<1>1. c.op \in Ops /\ c.tag \in Tags /\ c = Cmd(c.op, c.tag)
  BY DEF Cmds, Cmd
<1>2. c.tag[1] \in Nat /\ c.tag[2] \in Nat
  BY <1>1 DEF Tags
<1> QED BY <1>1, <1>2, SlotInRange DEF Slot

LEMMA SpecialTags == NoTag \in Tags /\ Torn \in Tags
BY DEF NoTag, Torn, Tags

\* The current block's tag and the slots the loop indexes are well typed.
LEMMA CurrentTag ==
  ASSUME TypeOK
  PROVE  /\ Tag \in Tags /\ Slot(Tag) = blkId % NPIPES
         /\ blkId % NPIPES \in Slots /\ blkIdDone % NPIPES \in Slots
         /\ Cmd("wr", Tag) \in Cmds /\ Cmd("nd", Tag) \in Cmds /\ Cmd("rd", Tag) \in Cmds
<1>1. Tag \in Tags /\ Slot(Tag) = blkId % NPIPES
  BY DEF TypeOK, Tag, Tags, Slot
<1> QED BY <1>1, SlotInRange, CmdType DEF TypeOK, Ops

---------------------------------------------------------------------------
(* The indices: TypeOK /\ Ring is inductive *)

LEMMA InitRing == Init => TypeOK /\ Ring
<1> SUFFICES ASSUME Init PROVE TypeOK /\ Ring
  OBVIOUS
<1>1. Cmd("rd", NoTag) \in Cmds
  BY CmdType, SpecialTags DEF Ops
<1>2. rdEvent \in [Slots -> Cmds]
  BY <1>1 DEF Init
<1>3. mem \in [Stages -> [Slots -> Tags]]
  BY SpecialTags DEF Init
<1>4. acc \in Seq(Tags) /\ Len(acc) = 0
  BY DEF Init
<1>5. TypeOK
  BY <1>2, <1>3, <1>4 DEF Init, TypeOK, PCs
<1>6. Ring
  BY <1>4, SlotInRange DEF Init, Ring, RingIndices, RingProgress, InLoop
<1> QED BY <1>5, <1>6

LEMMA StartQueryRing == TypeOK /\ Ring /\ StartQuery => TypeOK' /\ Ring'
<1> SUFFICES ASSUME TypeOK, Ring, StartQuery PROVE TypeOK' /\ Ring'
  OBVIOUS
<1>1. total' \in Nat /\ total' > 0
  BY PipelineAssumption DEF StartQuery
<1>2. acc' \in Seq(Tags) /\ Len(acc') = 0
  BY DEF StartQuery
<1>3. TypeOK'
  BY <1>1, <1>2 DEF StartQuery, TypeOK, PCs
<1>4. 0 % NCOMPUTES = 0
  BY SlotInRange
<1>5. Ring'
  BY <1>1, <1>2, <1>4, SlotInRange
     DEF StartQuery, TypeOK, Ring, RingIndices, RingProgress, InLoop
<1> QED BY <1>3, <1>5

LEMMA WaitHalfRing == TypeOK /\ Ring /\ WaitHalf => TypeOK' /\ Ring'
<1> SUFFICES ASSUME TypeOK, Ring, WaitHalf PROVE TypeOK' /\ Ring'
  OBVIOUS
<1>1. TypeOK'
  BY DEF WaitHalf, TypeOK, PCs, dev
<1>2. blkId = blkIdDone + NPIPES
  <2>1. CASE blkIdDone = 0
    BY <2>1, SlotInRange DEF WaitHalf, ReadBackDue, TypeOK, Ring, RingIndices
  <2>2. CASE blkIdDone > 0
    <3>1. /\ blkIdDone % NCOMPUTES = 0 /\ blkId % NCOMPUTES = 0
          /\ blkIdDone + NCOMPUTES < blkId /\ blkId <= blkIdDone + 2 * NCOMPUTES
      BY <2>2, SlotInRange DEF WaitHalf, ReadBackDue, TypeOK, Ring, RingIndices, InLoop
    <3>2. blkId \in Int /\ blkIdDone \in Int /\ NCOMPUTES \in Nat \ {0}
      BY SlotInRange DEF TypeOK
    <3>3. blkId = blkIdDone + 2 * NCOMPUTES
      BY <3>1, <3>2, MultipleInWindow
    <3> QED BY <3>3, SlotInRange
  <2> QED BY <2>1, <2>2 DEF TypeOK
<1>3. Ring'
  BY <1>2, SlotInRange DEF WaitHalf, TypeOK, Ring, RingIndices, RingProgress, InLoop, dev
<1> QED BY <1>1, <1>3

LEMMA AddResultRing == TypeOK /\ Ring /\ AddResult => TypeOK' /\ Ring'
<1> SUFFICES ASSUME TypeOK, Ring, AddResult PROVE TypeOK' /\ Ring'
  OBVIOUS
<1>1. /\ k \in 0 .. NCOMPUTES - 1
      /\ blkId = blkIdDone + NPIPES /\ blkIdDone % NCOMPUTES = 0
  BY SlotInRange DEF AddResult, TypeOK, Ring, RingIndices, InLoop
<1>2. Half * NCOMPUTES + k \in Slots
  BY <1>1, HalfIsOldest DEF TypeOK
<1>3. mem["pOut"][Half * NCOMPUTES + k] \in Tags
  BY <1>2 DEF TypeOK, Stages
<1>4. acc' \in Seq(Tags) /\ Len(acc') = Len(acc) + 1
  BY <1>3 DEF AddResult, TypeOK
<1>5. TypeOK'
  BY <1>4 DEF AddResult, TypeOK, PCs, dev
<1>6. Ring'
  BY <1>1, <1>4, SlotInRange DEF AddResult, TypeOK, Ring, RingIndices, RingProgress, InLoop, dev
<1> QED BY <1>5, <1>6

LEMMA HalfAddedRing == TypeOK /\ Ring /\ HalfAdded => TypeOK' /\ Ring'
<1> SUFFICES ASSUME TypeOK, Ring, HalfAdded PROVE TypeOK' /\ Ring'
  OBVIOUS
<1>1. /\ blkId = blkIdDone + NPIPES /\ blkIdDone % NCOMPUTES = 0 /\ k = NCOMPUTES
      /\ Len(acc) = blkIdDone + NCOMPUTES
  BY SlotInRange DEF HalfAdded, TypeOK, Ring, RingIndices, InLoop
<1>2. blkIdDone' = blkIdDone + NCOMPUTES /\ blkIdDone' \in Nat
  BY <1>1, SlotInRange DEF HalfAdded, TypeOK
<1>3. blkIdDone' % NCOMPUTES = 0
  <2>1. (blkIdDone + NCOMPUTES) % NCOMPUTES = 0
    <3>1. blkIdDone \in Int /\ NCOMPUTES \in Nat \ {0}
      BY SlotInRange DEF TypeOK
    <3> QED BY <1>1, <3>1, MultipleShift
  <2> QED BY <1>2, <2>1
<1>4. TypeOK'
  BY <1>2 DEF HalfAdded, TypeOK, PCs, dev
<1>5. /\ pc' = "fill" /\ pc = "sum"
      /\ UNCHANGED <<call, total, blkId, bRealPages, status, k, acc>>
  BY DEF HalfAdded
<1>6. RingIndices'
  BY <1>1, <1>2, <1>3, <1>5, SlotInRange DEF TypeOK, RingIndices, InLoop
<1>7. RingProgress'
  BY <1>5 DEF Ring, RingProgress, InLoop
<1> QED BY <1>4, <1>6, <1>7 DEF Ring

LEMMA FillRing == TypeOK /\ Ring /\ (FillBegin \/ FillEnd) => TypeOK' /\ Ring'
<1> SUFFICES ASSUME TypeOK, Ring, FillBegin \/ FillEnd PROVE TypeOK' /\ Ring'
  OBVIOUS
<1>1. CASE FillBegin
  <2>1. TypeOK'
    BY <1>1, CurrentTag, SpecialTags DEF FillBegin, TypeOK, PCs, Stages
  <2>2. blkId < blkIdDone + NPIPES
    <3>1. CASE pc = "fill"
      BY <3>1 DEF Ring, RingIndices
    <3>2. CASE pc = "loop" /\ ~ReadBackDue
      <4>1. (blkIdDone + 2 * NCOMPUTES) % NCOMPUTES = 0
        <5>1. blkIdDone \in Int /\ NCOMPUTES \in Nat \ {0} /\ blkIdDone % NCOMPUTES = 0
          BY <3>2, SlotInRange DEF TypeOK, Ring, RingIndices, InLoop
        <5> QED BY <5>1, MultipleShift
      <4>2. blkId = blkIdDone + NPIPES => ReadBackDue
        BY <4>1, SlotInRange DEF ReadBackDue, TypeOK
      <4> QED BY <3>2, <4>2, SlotInRange DEF TypeOK, Ring, RingIndices
    <3> QED BY <1>1, <3>1, <3>2 DEF FillBegin
  <2>3. Ring'
    BY <1>1, <2>2, SlotInRange DEF FillBegin, TypeOK, Ring, RingIndices, RingProgress, InLoop
  <2> QED BY <2>1, <2>3
<1>2. CASE FillEnd
  <2>1. TypeOK'
    BY <1>2, CurrentTag DEF FillEnd, TypeOK, PCs, Stages
  <2>2. Ring'
    BY <1>2, SlotInRange DEF FillEnd, TypeOK, Ring, RingIndices, RingProgress, InLoop
  <2> QED BY <2>1, <2>2
<1> QED BY <1>1, <1>2

LEMMA FaultRing == TypeOK /\ Ring /\ (FillError \/ EnqFail) => TypeOK' /\ Ring'
<1> SUFFICES ASSUME TypeOK, Ring, FillError \/ EnqFail PROVE TypeOK' /\ Ring'
  OBVIOUS
<1>1. TypeOK'
  BY DEF FillError, EnqFail, TypeOK, PCs, dev
<1>2. Ring'
  BY SlotInRange DEF FillError, EnqFail, TypeOK, Ring, RingIndices, RingProgress, InLoop, dev
<1> QED BY <1>1, <1>2

LEMMA EnqRing == TypeOK /\ Ring /\ (EnqWrite \/ EnqKernel \/ EnqRead) => TypeOK' /\ Ring'
<1> SUFFICES ASSUME TypeOK, Ring, EnqWrite \/ EnqKernel \/ EnqRead PROVE TypeOK' /\ Ring'
  OBVIOUS
<1>1. TypeOK'
  BY CurrentTag DEF EnqWrite, EnqKernel, EnqRead, TypeOK, PCs
<1>2. CASE EnqWrite \/ EnqKernel
  BY <1>1, <1>2, SlotInRange
     DEF EnqWrite, EnqKernel, TypeOK, Ring, RingIndices, RingProgress, InLoop
<1>3. CASE EnqRead
  <2>1. /\ blkId' = blkId + 1 /\ pc' = (IF bRealPages THEN "loop" ELSE "drain") /\ pc = "enqRd"
        /\ UNCHANGED <<call, total, blkIdDone, bRealPages, status, k, acc>>
    BY <1>3 DEF EnqRead
  <2>2. RingIndices'
    <3>1. /\ blkIdDone \in Nat /\ blkId \in Nat /\ NPIPES \in Nat
          /\ blkIdDone <= blkId /\ blkId < blkIdDone + NPIPES
          /\ blkIdDone % NCOMPUTES = 0 /\ (blkIdDone > 0 => blkId >= blkIdDone + NCOMPUTES)
          /\ Len(acc) = blkIdDone /\ status = "ok" /\ NCOMPUTES \in Nat
      BY <2>1, SlotInRange DEF TypeOK, Ring, RingIndices, RingProgress, InLoop
    <3> QED BY <2>1, <3>1 DEF RingIndices, InLoop
  <2>3. RingProgress'
    BY <2>1 DEF TypeOK, Ring, RingIndices, RingProgress, InLoop
  <2> QED BY <1>1, <2>2, <2>3 DEF Ring
<1> QED BY <1>1, <1>2, <1>3

LEMMA DrainRing == TypeOK /\ Ring /\ (Drain \/ Return) => TypeOK' /\ Ring'
<1> SUFFICES ASSUME TypeOK, Ring, Drain \/ Return PROVE TypeOK' /\ Ring'
  OBVIOUS
<1>1. CASE Drain
  <2>1. mem["pOut"][blkIdDone % NPIPES] \in Tags
    BY CurrentTag DEF TypeOK, Stages
  <2>2. acc' \in Seq(Tags) /\ Len(acc') = Len(acc) + 1
    BY <1>1, <2>1 DEF Drain, TypeOK
  <2>3. TypeOK'
    BY <1>1, <2>2 DEF Drain, TypeOK, PCs, dev
  <2>4. Ring'
    BY <1>1, <2>2, SlotInRange DEF Drain, TypeOK, Ring, RingIndices, RingProgress, InLoop, dev
  <2> QED BY <2>3, <2>4
<1>2. CASE Return
  <2>1. TypeOK'
    BY <1>2 DEF Return, TypeOK, PCs, dev
  <2>2. Ring'
    BY <1>2, SlotInRange DEF Return, TypeOK, Ring, RingIndices, RingProgress, InLoop, dev
  <2> QED BY <2>1, <2>2
<1> QED BY <1>1, <1>2

\* The device changes no index.
LEMMA DeviceRing == TypeOK /\ Ring /\ Device => TypeOK' /\ Ring'
<1> SUFFICES ASSUME TypeOK, Ring, Device PROVE TypeOK' /\ Ring'
  OBVIOUS
<1>1. UNCHANGED host /\ UNCHANGED rdEvent
  BY DEF Device, Start, Abort, Finish
<1>2. /\ pend' \subseteq Cmds /\ failed' \subseteq Cmds /\ tainted' \in BOOLEAN
      /\ exec' \subseteq [cmd : Cmds, val : Tags]
      /\ mem' \in [Stages -> [Slots -> Tags]]
  <2>1. CASE \E c \in pend : Start(c)
    <3>1. PICK c \in pend : Start(c)
      BY <2>1
    <3>2. mem[Src(c.op)][Slot(c.tag)] \in Tags
      BY CmdParts, StageType DEF TypeOK
    <3> QED BY <3>1, <3>2 DEF Start, TypeOK
  <2>2. CASE \E c \in pend : Abort(c)
    BY <2>2 DEF Abort, TypeOK
  <2>3. CASE \E e \in exec : Finish(e)
    <3>1. PICK e \in exec : Finish(e)
      BY <2>3
    <3>2. e.cmd \in Cmds /\ e.val \in Tags
      BY DEF TypeOK
    <3>3. Dst(e.cmd.op) \in Stages /\ Slot(e.cmd.tag) \in Slots
      BY <3>2, CmdParts, StageType
    <3> QED BY <3>1, <3>2, <3>3, SpecialTags DEF Finish, TypeOK
  <2> QED BY <2>1, <2>2, <2>3 DEF Device
<1>3. TypeOK'
  BY <1>1, <1>2 DEF TypeOK, PCs, host
<1>4. Ring'
  BY <1>1 DEF host, Ring, RingIndices, RingProgress, InLoop
<1> QED BY <1>3, <1>4

LEMMA NextRing == TypeOK /\ Ring /\ [Next]_vars => TypeOK' /\ Ring'
<1> SUFFICES ASSUME TypeOK, Ring, [Next]_vars PROVE TypeOK' /\ Ring'
  OBVIOUS
<1>1. CASE Next
  BY <1>1, StartQueryRing, WaitHalfRing, AddResultRing, HalfAddedRing, FillRing,
     FaultRing, EnqRing, DrainRing, DeviceRing DEF Next, Host
<1>2. CASE UNCHANGED vars
  BY <1>2 DEF vars, host, dev, TypeOK, PCs, Ring, RingIndices, RingProgress, InLoop
<1> QED BY <1>1, <1>2

LEMMA RingAlways == Spec => [](TypeOK /\ Ring)
BY InitRing, NextRing, PTL DEF Spec

\* Type correctness, whatever fails: in particular no step indexes the ring
\* outside its slots and the books never go negative.
THEOREM TypeCorrect == Spec => []TypeOK
BY RingAlways, PTL

\* The ring index arithmetic of xql6_run_hw (xql6.c:217-268) adds one result per
\* finished block and never has more blocks in the ring than slots, for every
\* half length NCOMPUTES and every pattern of faults.
THEOREM RingBooksHold == Spec => []RingBooks
<1>1. TypeOK /\ Ring => RingBooks
  BY SlotInRange DEF TypeOK, Ring, RingIndices, RingBooks
<1> QED BY <1>1, RingAlways, PTL

\* A reported result covers all blocks of the relation, a reported failure
\* exactly the blocks enqueued before it (xql6.c:260-289).
THEOREM ResultCompleteHolds == Spec => []ResultComplete
<1>1. TypeOK /\ Ring => ResultComplete
  BY DEF TypeOK, Ring, RingIndices, RingProgress, ResultComplete
<1> QED BY <1>1, RingAlways, PTL

---------------------------------------------------------------------------
(* The query's own commands: Own is inductive, whatever fails and whatever *)
(* an earlier query left on the queue.                                     *)

\* Unfinished commands are commands.
LEMMA InFlightType == TypeOK => InFlight \subseteq Cmds
BY DEF TypeOK, InFlight

\* Inside the window a slot determines its block.
LEMMA SameSlot ==
  ASSUME TypeOK,
         NEW n \in blkIdDone .. blkIdDone + NPIPES - 1,
         NEW m \in blkIdDone .. blkIdDone + NPIPES - 1,
         n % NPIPES = m % NPIPES
  PROVE  n = m
<1>1. blkIdDone \in Int /\ NPIPES \in Nat \ {0}
  BY SlotInRange DEF TypeOK
<1> QED BY <1>1, SlotsDistinct

\* The tag of one of the query's own unfinished commands lies in the window.
LEMMA OwnInWindow ==
  ASSUME TypeOK, Ring, OwnWindow, pc # "idle", NEW c \in OwnFlight
  PROVE  /\ c \in InFlight /\ c \in Cmds /\ c.op \in Ops /\ c.tag \in Tags
         /\ c.tag = <<call, c.tag[2]>> /\ c.tag[2] \in Nat
         /\ c.tag[2] \in blkIdDone .. blkIdDone + NPIPES - 1
<1>0. c \in InFlight /\ c.tag[1] = call
  BY DEF OwnFlight
<1>1. c \in Cmds /\ c.op \in Ops /\ c.tag \in Tags /\ c.tag[2] \in Nat
  BY <1>0, InFlightType, CmdParts
<1>2. c.tag = <<call, c.tag[2]>>
  BY <1>0, <1>1 DEF Tags
<1>3. c.tag[2] <= blkId /\ blkIdDone <= c.tag[2]
  BY DEF OwnWindow
<1>4. c.tag[2] = blkId => blkId < blkIdDone + NPIPES
  BY DEF OwnWindow, Ring, RingIndices
<1>5. blkIdDone \in Nat /\ blkId \in Nat /\ blkId <= blkIdDone + NPIPES
  BY DEF TypeOK, Ring, RingIndices
<1>6. NPIPES \in Nat
  BY SlotInRange
<1>7. c.tag[2] \in blkIdDone .. blkIdDone + NPIPES - 1
  <2> DEFINE n == c.tag[2]
  <2>1. n \in Nat /\ n <= blkId /\ blkIdDone <= n /\ (n = blkId => blkId < blkIdDone + NPIPES)
    BY <1>1, <1>3, <1>4
  <2> HIDE DEF n
  <2>2. n \in blkIdDone .. blkIdDone + NPIPES - 1
    BY <2>1, <1>5, <1>6
  <2> QED BY <2>2 DEF n
<1> QED BY <1>0, <1>1, <1>2, <1>7

\* A new query has none yet: all there are belong to earlier ones.
LEMMA StartQueryOwn ==
  ASSUME TypeOK, Own, StartQuery PROVE Own'
<1>1. InFlight' = InFlight /\ call' = call + 1 /\ call \in Nat
  BY DEF StartQuery, InFlight, TypeOK
<1>2. \A c \in InFlight : c.tag[1] \in Nat /\ c.tag[1] <= call
  BY InFlightType, CmdParts DEF Own, OwnWindow
<1>3. (\A c \in InFlight' : c.tag[1] <= call') /\ OwnFlight' = {}
  BY <1>1, <1>2 DEF OwnFlight
<1>4. \A e \in exec' : e.cmd \notin OwnFlight'
  BY <1>3
<1>5. blkIdDone' = 0 /\ blkId' = 0 /\ pc' = "loop"
  BY DEF StartQuery
<1> QED BY <1>3, <1>4, <1>5 DEF Own, OwnWindow, OwnChain, OwnEvents

\* Host steps that leave the queue and the window alone.
LEMMA QuietHostOwn ==
  ASSUME TypeOK, Ring, Own, AddResult \/ FillBegin \/ FillEnd \/ FillError \/ EnqFail
  PROVE  Own'
<1>1. /\ UNCHANGED <<call, blkId, blkIdDone, rdEvent, pend, exec>> /\ pc # "idle"
      /\ \/ pc = "sum" /\ pc' = "sum" /\ status' = status
         \/ pc \in {"loop", "fill", "filling"} /\ pc' \in {"filling", "enqWr"} /\ status' = status
         \/ pc = "filling" /\ pc' = "idle" /\ status' = "error"
         \/ pc \in {"enqWr", "enqNd", "enqRd"} /\ pc' = "drain" /\ status' = "fail"
  BY DEF AddResult, FillBegin, FillEnd, FillError, EnqFail, dev
<1>2. InFlight' = InFlight /\ OwnFlight' = OwnFlight
  BY <1>1 DEF InFlight, OwnFlight
<1>3. OwnWindow'
  BY <1>1, <1>2 DEF Own, OwnWindow
<1>4. OwnChain'
  BY <1>1, <1>2 DEF Own, OwnChain, Done
<1>5. OwnEvents'
  BY <1>1, <1>2 DEF Own, OwnEvents, Flying
<1> QED BY <1>3, <1>4, <1>5 DEF Own

\* A command of an enqueued block is finished once the block's result is.
LEMMA OwnBlockDone ==
  ASSUME TypeOK, Ring, Own, pc # "idle", NEW c \in OwnFlight, c.tag[2] < blkId,
         ~Flying("rd", c.tag[2])
  PROVE  FALSE
<1>1. c.tag = <<call, c.tag[2]>>
  BY OwnInWindow DEF Own
<1>2. Cmd("rd", c.tag) \in InFlight
  BY DEF Own, OwnChain
<1> QED BY <1>1, <1>2 DEF Flying

\* The wait for half a ring is a wait for the half that is added next.
LEMMA WaitHalfOwn ==
  ASSUME TypeOK, Ring, Ring', Own, WaitHalf PROVE Own'
<1>1. /\ pc = "loop" /\ pc' = "sum"
      /\ UNCHANGED <<call, blkId, blkIdDone, status, rdEvent, pend, exec>>
  BY DEF WaitHalf, dev
<1>2. InFlight' = InFlight /\ OwnFlight' = OwnFlight
  BY <1>1 DEF InFlight, OwnFlight
<1>3. /\ blkId = blkIdDone + NPIPES /\ blkIdDone % NCOMPUTES = 0
      /\ blkId \in Nat /\ blkIdDone \in Nat
  BY <1>1 DEF TypeOK, Ring, RingIndices, InLoop
<1>4. ASSUME NEW n \in blkIdDone .. blkIdDone + NCOMPUTES - 1
      PROVE  ~Flying("rd", n)
  <2> DEFINE i == n - blkIdDone
  <2>1. i \in 0 .. NCOMPUTES - 1 /\ n = blkIdDone + i /\ n \in blkIdDone .. blkId - 1
    BY <1>3, SlotInRange
  <2> HIDE DEF i
  <2>2. Half * NCOMPUTES + i = n % NPIPES
    BY <1>3, <2>1, HalfIsOldest
  <2>3. Done(rdEvent[n % NPIPES])
    BY <2>1, <2>2 DEF WaitHalf
  <2>4. rdEvent[n % NPIPES] = Cmd("rd", <<call, n>>)
    BY <1>1, <2>1 DEF Own, OwnEvents
  <2> QED BY <2>3, <2>4 DEF Done, Flying
<1>5. OwnEvents'
  BY <1>1, <1>2, <1>4 DEF Own, OwnEvents, Flying
<1>6. OwnWindow'
  BY <1>1, <1>2 DEF Own, OwnWindow
<1>7. OwnChain'
  BY <1>1, <1>2 DEF Own, OwnChain, Done
<1> QED BY <1>5, <1>6, <1>7 DEF Own

\* The window moves over blocks that are finished.
LEMMA HalfAddedOwn ==
  ASSUME TypeOK, Ring, Own, HalfAdded PROVE Own'
<1>1. /\ pc = "sum" /\ pc' = "fill"
      /\ UNCHANGED <<call, blkId, status, rdEvent, pend, exec>>
  BY DEF HalfAdded, dev
<1>2. InFlight' = InFlight /\ OwnFlight' = OwnFlight
  BY <1>1 DEF InFlight, OwnFlight
<1>3. /\ blkId = blkIdDone + NPIPES /\ blkIdDone' = blkIdDone + NCOMPUTES
      /\ blkId \in Nat /\ blkIdDone \in Nat
  BY <1>1, SlotInRange DEF HalfAdded, TypeOK, Ring, RingIndices
<1>4. ASSUME NEW c \in OwnFlight
      PROVE  blkIdDone + NCOMPUTES <= c.tag[2] /\ c.tag[2] # blkId /\ c.tag[2] <= blkId
  <2>1. c.tag[2] \in Nat /\ blkIdDone <= c.tag[2] /\ c.tag[2] <= blkId /\ c.tag[2] # blkId
    BY <1>1, OwnInWindow DEF Own, OwnWindow
  <2>2. ~ (c.tag[2] \in blkIdDone .. blkIdDone + NCOMPUTES - 1)
    BY <1>1, <1>3, <2>1, OwnBlockDone DEF Own, OwnEvents
  <2> DEFINE n == c.tag[2]
  <2>3. n \in Nat /\ blkIdDone <= n /\ ~(n \in blkIdDone .. blkIdDone + NCOMPUTES - 1)
    BY <2>1, <2>2
  <2> HIDE DEF n
  <2>4. blkIdDone + NCOMPUTES <= n
    BY <1>3, <2>3, SlotInRange
  <2> QED BY <2>1, <2>4 DEF n
<1>5. OwnWindow'
  BY <1>1, <1>2, <1>3, <1>4 DEF Own, OwnWindow
<1>6. OwnEvents'
  <2>1. \A n \in blkIdDone' .. blkId' - 1 : n \in blkIdDone .. blkId - 1
    BY <1>1, <1>3, SlotInRange
  <2> QED BY <1>1, <2>1 DEF Own, OwnEvents
<1>7. OwnChain'
  BY <1>1, <1>2 DEF Own, OwnChain, Done
<1> QED BY <1>5, <1>6, <1>7 DEF Own

LEMMA DrainOwn ==
  ASSUME TypeOK, Ring, Own, Drain PROVE Own'
<1>1. /\ pc = "drain" /\ pc' = "drain" /\ blkIdDone < blkId /\ blkIdDone' = blkIdDone + 1
      /\ blkIdDone \in Nat /\ blkId \in Nat
      /\ UNCHANGED <<call, blkId, status, rdEvent, pend, exec>>
  BY DEF Drain, dev, TypeOK
<1>2. InFlight' = InFlight /\ OwnFlight' = OwnFlight
  BY <1>1 DEF InFlight, OwnFlight
<1>3. ~Flying("rd", blkIdDone)
  <2>1. blkIdDone \in blkIdDone .. blkId - 1
    BY <1>1
  <2>2. rdEvent[blkIdDone % NPIPES] = Cmd("rd", <<call, blkIdDone>>)
    BY <1>1, <2>1 DEF Own, OwnEvents
  <2> QED BY <2>2 DEF Drain, Flying, Done
<1>4. \A c \in OwnFlight : c.tag[2] # blkIdDone /\ c.tag[2] \in Nat
  BY <1>1, <1>3, OwnBlockDone, OwnInWindow DEF Own
<1>5. OwnWindow'
  BY <1>1, <1>2, <1>4 DEF Own, OwnWindow
<1>6. OwnEvents'
  <2>1. \A n \in blkIdDone' .. blkId' - 1 : n \in blkIdDone .. blkId - 1
    BY <1>1
  <2> QED BY <1>1, <2>1 DEF Own, OwnEvents
<1>7. OwnChain'
  BY <1>1, <1>2 DEF Own, OwnChain, Done
<1> QED BY <1>5, <1>6, <1>7 DEF Own

LEMMA ReturnOwn ==
  ASSUME TypeOK, Ring, Own, Return PROVE Own'
<1>1. /\ pc = "drain" /\ pc' = "idle" /\ blkIdDone = blkId /\ blkId \in Nat
      /\ UNCHANGED <<call, status, pend, exec>>
  BY DEF Return, dev, TypeOK, Ring, RingIndices
<1>2. InFlight' = InFlight /\ OwnFlight' = OwnFlight
  BY <1>1 DEF InFlight, OwnFlight
<1>3. status = "ok" => OwnFlight = {}
  <2>1. SUFFICES ASSUME NEW c \in OwnFlight, status = "ok" PROVE FALSE
    OBVIOUS
  <2>2. c.tag[2] \in Nat /\ blkId <= c.tag[2] /\ c.tag[2] <= blkId
    BY <1>1, <2>1, OwnInWindow DEF Own, OwnWindow
  <2> QED BY <1>1, <2>1, <2>2 DEF Own, OwnWindow
<1> QED BY <1>1, <1>2, <1>3 DEF Own, OwnWindow, OwnChain, OwnEvents

\* An enqueue adds one command of the current block.
LEMMA EnqOwn ==
  ASSUME TypeOK, Ring, Own, EnqWrite \/ EnqKernel \/ EnqRead PROVE Own'
<1> DEFINE o == IF pc = "enqWr" THEN "wr" ELSE IF pc = "enqNd" THEN "nd" ELSE "rd"
<1> DEFINE w == Cmd(o, Tag)
<1>1. /\ pend' = pend \cup {w} /\ UNCHANGED <<call, blkIdDone, status, exec>>
      /\ call \in Nat /\ blkId \in Nat /\ blkIdDone \in Nat
      /\ \/ pc = "enqWr" /\ pc' = "enqNd" /\ UNCHANGED <<blkId, rdEvent>>
         \/ pc = "enqNd" /\ pc' = "enqRd" /\ UNCHANGED <<blkId, rdEvent>>
         \/ /\ pc = "enqRd" /\ pc' \in {"loop", "drain"} /\ blkId' = blkId + 1
            /\ rdEvent' = [rdEvent EXCEPT ![blkId % NPIPES] = w]
  BY DEF EnqWrite, EnqKernel, EnqRead, TypeOK
<1>3. /\ w.op = o /\ w.tag = Tag /\ Tag[1] = call /\ Tag[2] = blkId /\ o \in Ops
      /\ Cmd(o, w.tag) = w
  BY CurrentTag, CmdType DEF Ops, Tag
<1>2. InFlight' = InFlight \cup {w} /\ OwnFlight' = OwnFlight \cup {w}
  BY <1>1, <1>3 DEF InFlight, OwnFlight
<1>4. ASSUME NEW c \in OwnFlight
      PROVE  /\ blkIdDone <= c.tag[2] /\ c.tag[2] <= blkId /\ c.tag[2] \in Nat
             /\ c.tag[2] = blkId => c.tag = Tag /\ pc # "enqWr" /\ (pc = "enqNd" => c.op = "wr")
                                    /\ (pc = "enqRd" => c.op # "rd")
  <2>1. c.tag = <<call, c.tag[2]>> /\ c.tag[2] \in Nat
    BY <1>1, OwnInWindow DEF Own
  <2> QED BY <1>1, <2>1 DEF Own, OwnWindow, Tag
<1>5. ASSUME NEW e \in exec, e.cmd \in OwnFlight, NEW d \in WaitList(e.cmd) PROVE d \notin InFlight'
  <2>1. d \notin InFlight
    BY <1>1, <1>5 DEF Own, OwnChain, Done
  <2>2. d.tag = e.cmd.tag /\ d.op # "rd" /\ (d.op = "wr" => e.cmd.op = "nd")
        /\ (d.op = "nd" => e.cmd.op # "wr")
    BY <1>5 DEF WaitList, Cmd
  <2>3. d # w
    BY <1>1, <1>3, <1>4, <1>5, <2>2
  <2> QED BY <1>2, <2>1, <2>3
<1>12. ASSUME NEW e \in exec, e.cmd = w PROVE FALSE
  <2>1. w \in OwnFlight
    BY <1>3, <1>12 DEF InFlight, OwnFlight
  <2> QED BY <1>1, <1>3, <1>4, <2>1
<1>13. blkId \in blkIdDone .. blkIdDone + NPIPES - 1 /\ NPIPES \in Nat
  BY <1>1, SlotInRange DEF Ring, RingIndices
<1> HIDE DEF w
<1>6. OwnWindow'
  <2>1. \A c \in InFlight' : c.tag[1] <= call'
    BY <1>1, <1>2, <1>3 DEF Own, OwnWindow
  <2>2. ASSUME NEW c \in OwnFlight'
        PROVE  /\ blkIdDone' <= c.tag[2] /\ c.tag[2] <= blkId'
               /\ c.tag[2] = blkId' => \/ pc' = "enqNd" /\ c.op = "wr"
                                       \/ pc' = "enqRd" /\ c.op # "rd"
    <3>1. CASE c = w
      BY <1>1, <1>3, <1>13, <3>1
    <3>2. CASE c \in OwnFlight
      BY <1>1, <1>4, <3>2
    <3> QED BY <1>2, <3>1, <3>2
  <2> QED BY <1>1, <2>1, <2>2 DEF OwnWindow
<1>7. OwnChain'
  <2>1. ASSUME NEW c \in OwnFlight'
        PROVE  /\ c.tag[2] < blkId' => Cmd("rd", c.tag) \in InFlight'
               /\ c.op = "wr" /\ (c.tag[2] < blkId' \/ pc' = "enqRd") => Cmd("nd", c.tag) \in InFlight'
    <3>1. CASE c = w
      BY <1>1, <1>2, <1>3, <3>1
    <3>2. CASE c \in OwnFlight /\ c.tag[2] = blkId
      <4>1. c.tag = w.tag
        BY <1>3, <1>4, <3>2
      <4>2. CASE pc = "enqNd"
        BY <1>1, <1>2, <1>3, <3>2, <4>1, <4>2
      <4>3. CASE pc = "enqRd"
        <5>1. Cmd("rd", c.tag) \in InFlight'
          BY <1>2, <1>3, <4>1, <4>3
        <5>2. c.op = "wr" => Cmd("nd", c.tag) \in InFlight
          BY <3>2, <4>3 DEF Own, OwnChain
        <5> QED BY <1>2, <5>1, <5>2
      <4> QED BY <1>1, <1>4, <3>2, <4>2, <4>3
    <3>3. CASE c \in OwnFlight /\ c.tag[2] # blkId
      <4>1. c.tag[2] < blkId
        BY <1>1, <1>4, <3>3
      <4> QED BY <1>1, <1>2, <3>3, <4>1 DEF Own, OwnChain
    <3> QED BY <1>2, <3>1, <3>2, <3>3
  <2>2. \A e \in exec' : e.cmd \in OwnFlight' => \A d \in WaitList(e.cmd) : d \notin InFlight'
    BY <1>1, <1>2, <1>5, <1>12
  <2> QED BY <2>1, <2>2 DEF OwnChain, Done
<1>8. OwnEvents'
  <2>1. pc' # "sum"
    BY <1>1
  <2>2. CASE pc # "enqRd"
    BY <1>1, <2>1, <2>2 DEF Own, OwnEvents
  <2>3. CASE pc = "enqRd"
    <3>1. blkId % NPIPES \in Slots /\ w = Cmd("rd", <<call, blkId>>)
      BY <2>3, CurrentTag DEF w, Tag
    <3>2. rdEvent'[blkId % NPIPES] = Cmd("rd", <<call, blkId>>)
      BY <1>1, <2>3, <3>1 DEF TypeOK
    <3>3. ASSUME NEW n \in blkIdDone .. blkId - 1
          PROVE  rdEvent'[n % NPIPES] = Cmd("rd", <<call, n>>)
      <4>1. n \in blkIdDone .. blkIdDone + NPIPES - 1 /\ n # blkId /\ n \in Nat
        BY <1>1, <1>13
      <4>2. n % NPIPES # blkId % NPIPES /\ n % NPIPES \in Slots
        BY <1>13, <4>1, SameSlot, SlotInRange
      <4>3. rdEvent'[n % NPIPES] = rdEvent[n % NPIPES]
        BY <1>1, <2>3, <4>2 DEF TypeOK
      <4> QED BY <1>1, <4>3 DEF Own, OwnEvents
    <3>4. \A n \in blkIdDone' .. blkId' - 1 : n = blkId \/ n \in blkIdDone .. blkId - 1
      BY <1>1, <2>3
    <3> QED BY <1>1, <2>1, <3>2, <3>3, <3>4 DEF OwnEvents
  <2> QED BY <2>2, <2>3
<1> QED BY <1>6, <1>7, <1>8 DEF Own

\* A step of the device ends at most one command, one whose wait is over, and lets
\* only such a command start.
LEMMA DeviceOwn ==
  ASSUME TypeOK, Ring, Own, Device PROVE Own'
<1>1. UNCHANGED <<pc, call, blkId, blkIdDone, status, rdEvent>>
  BY DEF Device, Start, Abort, Finish, host
<1>2. CASE \E c \in pend : Start(c)
  <2>1. PICK c \in pend : Start(c)
    BY <1>2
  <2> DEFINE e1 == [cmd |-> c, val |-> mem[Src(c.op)][Slot(c.tag)]]
  <2>2. pend' = pend \ {c} /\ exec' = exec \cup {e1} /\ e1.cmd = c
        /\ \A d \in WaitList(c) : Done(d)
    BY <2>1 DEF Start, Ready
  <2> HIDE DEF e1
  <2>3. {f.cmd : f \in exec'} = {f.cmd : f \in exec} \cup {c}
    BY <2>2
  <2>4. InFlight' = InFlight /\ OwnFlight' = OwnFlight
    BY <1>1, <2>2, <2>3 DEF InFlight, OwnFlight
  <2>5. OwnWindow' /\ OwnEvents'
    BY <1>1, <2>4 DEF Own, OwnWindow, OwnEvents, Flying
  <2>6. OwnChain'
    BY <1>1, <2>2, <2>4 DEF Own, OwnChain, Done
  <2> QED BY <2>5, <2>6 DEF Own
<1>3. ASSUME NEW c \in InFlight, InFlight' \subseteq InFlight, InFlight \ {c} \subseteq InFlight',
             exec' \subseteq exec, c \in OwnFlight /\ pc # "idle" => \A d \in WaitList(c) : Done(d)
      PROVE  Own'
  <2>1. OwnFlight' \subseteq OwnFlight
    BY <1>1, <1>3 DEF OwnFlight
  <2>2. OwnWindow' /\ OwnEvents'
    BY <1>1, <1>3, <2>1 DEF Own, OwnWindow, OwnEvents, Flying
  <2>3. ASSUME pc # "idle", NEW d \in OwnFlight'
        PROVE  /\ d.tag[2] < blkId => Cmd("rd", d.tag) \in InFlight'
               /\ d.op = "wr" /\ (d.tag[2] < blkId \/ pc = "enqRd") => Cmd("nd", d.tag) \in InFlight'
    <3>1. d \in OwnFlight /\ d \in InFlight' /\ d \in Cmds /\ d.op \in Ops /\ d.tag \in Tags
          /\ d = Cmd(d.op, d.tag) /\ d.tag[1] = call
      BY <2>1, <2>3, InFlightType, CmdParts DEF OwnFlight
    <3>2. ASSUME NEW x \in Ops, c = Cmd(x, d.tag)
          PROVE  c.op = x /\ c.tag = d.tag /\ c \in OwnFlight /\ \A y \in WaitList(c) : y \notin InFlight
      <4>1. c.op = x /\ c.tag = d.tag
        BY <3>1, <3>2, CmdType
      <4> QED BY <1>3, <2>3, <3>1, <4>1 DEF OwnFlight, Done
    <3>3. ASSUME d.op = "wr", Cmd("nd", d.tag) = c PROVE FALSE
      <4>1. c.op = "nd" /\ c.tag = d.tag /\ \A y \in WaitList(c) : y \notin InFlight
        BY <3>2, <3>3 DEF Ops
      <4>2. d \in WaitList(c)
        BY <3>1, <3>3, <4>1 DEF WaitList
      <4> QED BY <1>3, <3>1, <4>1, <4>2
    <3>4. ASSUME d.tag[2] < blkId, Cmd("rd", d.tag) = c PROVE c \in InFlight'
      <4>1. c.op = "rd" /\ c.tag = d.tag /\ \A y \in WaitList(c) : y \notin InFlight
        BY <3>2, <3>4 DEF Ops
      <4>2. Cmd("nd", d.tag) \notin InFlight
        BY <4>1 DEF WaitList
      <4>3. d.op # "nd"
        BY <1>3, <3>1, <4>2
      <4>4. d.op # "wr"
        BY <2>3, <3>1, <3>4, <4>2 DEF Own, OwnChain
      <4>5. d = c
        BY <3>1, <3>4, <4>3, <4>4 DEF Ops
      <4> QED BY <3>1, <4>5
    <3>5. d.tag[2] < blkId => Cmd("rd", d.tag) \in InFlight'
      BY <1>3, <2>3, <3>1, <3>4 DEF Own, OwnChain
    <3>6. d.op = "wr" /\ (d.tag[2] < blkId \/ pc = "enqRd") => Cmd("nd", d.tag) \in InFlight'
      BY <1>3, <2>3, <3>1, <3>3 DEF Own, OwnChain
    <3> QED BY <3>5, <3>6
  <2>4. OwnChain'
    BY <1>1, <1>3, <2>1, <2>3 DEF Own, OwnChain, Done
  <2> QED BY <2>2, <2>4 DEF Own
<1>4. CASE \E c \in pend : Abort(c)
  <2>1. PICK c \in pend : Abort(c)
    BY <1>4
  <2>2. pend' = pend \ {c} /\ exec' = exec /\ (\A d \in WaitList(c) : Done(d))
    BY <2>1 DEF Abort, Ready
  <2>3. c \in InFlight /\ InFlight' \subseteq InFlight /\ InFlight \ {c} \subseteq InFlight'
    BY <2>2 DEF InFlight
  <2> QED BY <1>3, <2>2, <2>3
<1>5. CASE \E e \in exec : Finish(e)
  <2>1. PICK e \in exec : Finish(e)
    BY <1>5
  <2>2. pend' = pend /\ exec' = exec \ {e}
    BY <2>1 DEF Finish
  <2>3. e.cmd \in InFlight /\ InFlight' \subseteq InFlight /\ InFlight \ {e.cmd} \subseteq InFlight'
    BY <2>2 DEF InFlight
  <2>4. e.cmd \in OwnFlight /\ pc # "idle" => \A d \in WaitList(e.cmd) : Done(d)
    BY DEF Own, OwnChain
  <2>5. exec' \subseteq exec
    BY <2>2
  <2> QED BY <1>3, <2>3, <2>4, <2>5
<1> QED BY <1>2, <1>4, <1>5 DEF Device

LEMMA NextOwn == TypeOK /\ Ring /\ Own /\ [Next]_vars => Own'
<1> SUFFICES ASSUME TypeOK, Ring, Own, [Next]_vars PROVE Own'
  OBVIOUS
<1>1. Ring'
  BY NextRing
<1>2. CASE Next
  BY <1>1, <1>2, StartQueryOwn, QuietHostOwn, WaitHalfOwn, HalfAddedOwn, EnqOwn, DrainOwn, ReturnOwn,
     DeviceOwn DEF Next, Host
<1>3. CASE UNCHANGED vars
  BY <1>3 DEF vars, host, dev, Own, OwnWindow, OwnChain, OwnEvents, OwnFlight, InFlight, Flying, Done
<1> QED BY <1>2, <1>3

LEMMA InitOwn == Init => Own
<1> SUFFICES ASSUME Init PROVE Own
  OBVIOUS
<1>1. InFlight = {} /\ pc = "idle"
  BY DEF Init, InFlight
<1> QED BY <1>1 DEF Own, OwnWindow, OwnChain, OwnEvents, OwnFlight

---------------------------------------------------------------------------
(* Data: IndInv of Q6Pipeline is inductive. *)

\* The tag of an unfinished command lies in the window of the ring.
LEMMA InWindow ==
  ASSUME TypeOK, Ring, DataWindow, pc # "idle", NEW c \in InFlight
  PROVE  /\ c \in Cmds /\ c.op \in Ops /\ c.tag \in Tags
         /\ c.tag = <<call, c.tag[2]>> /\ c.tag[2] \in Nat
         /\ c.tag[2] \in blkIdDone .. blkIdDone + NPIPES - 1
<1>1. c \in Cmds /\ c.op \in Ops /\ c.tag \in Tags /\ c.tag[2] \in Nat
  BY InFlightType, CmdParts
<1>2. c.tag = <<call, c.tag[2]>>
  BY <1>1 DEF DataWindow, Tags
<1>3. c.tag[2] <= blkId /\ blkIdDone <= c.tag[2]
  BY DEF DataWindow
<1>4. c.tag[2] = blkId => blkId < blkIdDone + NPIPES
  BY DEF DataWindow, Ring, RingIndices
<1>5. blkIdDone \in Nat /\ blkId \in Nat /\ blkId <= blkIdDone + NPIPES
  BY DEF TypeOK, Ring, RingIndices
<1>6. NPIPES \in Nat
  BY SlotInRange
<1>7. c.tag[2] \in blkIdDone .. blkIdDone + NPIPES - 1
  <2> DEFINE n == c.tag[2]
  <2>1. n \in Nat /\ n <= blkId /\ blkIdDone <= n /\ (n = blkId => blkId < blkIdDone + NPIPES)
    BY <1>1, <1>3, <1>4
  <2> HIDE DEF n
  <2>2. n \in blkIdDone .. blkIdDone + NPIPES - 1
    BY <2>1, <1>5, <1>6
  <2> QED BY <2>2 DEF n
<1> QED BY <1>1, <1>2, <1>7

\* While a block is filled or enqueued, its number is in the window too.
LEMMA CurrentInWindow ==
  ASSUME TypeOK, Ring, pc \in {"fill", "filling", "enqWr", "enqNd", "enqRd"}
  PROVE  blkId \in blkIdDone .. blkIdDone + NPIPES - 1
BY SlotInRange DEF TypeOK, Ring, RingIndices

\* A command whose waits are over and its block are at its source: nobody else
\* in the window shares that slot.
LEMMA SlotOfOther ==
  ASSUME TypeOK, Ring, DataWindow, pc # "idle",
         NEW c \in InFlight, NEW d \in InFlight, Slot(c.tag) = Slot(d.tag)
  PROVE  c.tag = d.tag
<1>1. /\ c.tag[2] \in blkIdDone .. blkIdDone + NPIPES - 1 /\ c.tag = <<call, c.tag[2]>>
      /\ d.tag[2] \in blkIdDone .. blkIdDone + NPIPES - 1 /\ d.tag = <<call, d.tag[2]>>
  BY InWindow
<1>2. c.tag[2] = d.tag[2]
  BY <1>1, SameSlot DEF Slot
<1> QED BY <1>1, <1>2

---------------------------------------------------------------------------
(* One lemma per group of actions *)

LEMMA InitData == Init => (~tainted => Data)
<1> SUFFICES ASSUME Init PROVE Data
  OBVIOUS
<1>1. EachBlockOnce
  BY DEF Init, EachBlockOnce
<1>2. InFlight = {} /\ pc = "idle"
  BY DEF Init, InFlight
<1> QED BY <1>1, <1>2 DEF Data

LEMMA StartQueryData ==
  ASSUME TypeOK, StartQuery, ~tainted' PROVE Data'
<1>1. InFlight = {} /\ pend = {} /\ exec = {}
  BY DEF StartQuery, InFlight
<1>2. InFlight' = {} /\ exec' = {} /\ pc' = "loop" /\ blkId' = 0 /\ blkIdDone' = 0
  BY <1>1 DEF StartQuery, InFlight
<1>3. EachBlockOnce'
  BY DEF StartQuery, EachBlockOnce
<1>4. DataParts'
  BY <1>2 DEF DataParts, DataWindow, DataExec, DataSource, DataChain, DataEnq,
              DataResult, DataSum
<1> QED BY <1>2, <1>3, <1>4 DEF Data

LEMMA WaitHalfData ==
  ASSUME TypeOK, Ring, Ring', ~tainted, Data, WaitHalf PROVE Data'
<1>1. /\ pc = "loop" /\ pc' = "sum" /\ DataParts
      /\ UNCHANGED <<call, blkId, blkIdDone, status, acc, rdEvent, mem, pend, exec, tainted>>
  BY DEF WaitHalf, Data, dev
<1>2. InFlight' = InFlight
  BY <1>1 DEF InFlight
<1>3. /\ blkId = blkIdDone + NPIPES /\ blkIdDone % NCOMPUTES = 0
      /\ blkId \in Nat /\ blkIdDone \in Nat
  BY <1>1 DEF TypeOK, Ring, RingIndices, InLoop
<1>4. ASSUME NEW n \in blkIdDone .. blkIdDone + NCOMPUTES - 1
      PROVE  ~Flying("rd", n)
  <2> DEFINE i == n - blkIdDone
  <2>1. i \in 0 .. NCOMPUTES - 1 /\ n = blkIdDone + i /\ n \in blkIdDone .. blkId - 1
    BY <1>3, SlotInRange
  <2> HIDE DEF i
  <2>2. Half * NCOMPUTES + i = n % NPIPES
    BY <1>3, <2>1, HalfIsOldest
  <2>3. Done(rdEvent[n % NPIPES])
    BY <2>1, <2>2 DEF WaitHalf
  <2>4. rdEvent[n % NPIPES] = Cmd("rd", <<call, n>>)
    BY <1>1, <2>1 DEF DataParts, DataResult
  <2> QED BY <2>3, <2>4 DEF Done, Flying
<1>5. DataSum'
  BY <1>1, <1>2, <1>4 DEF DataSum, Flying
<1>6. DataWindow'
  BY <1>1, <1>2 DEF DataParts, DataWindow
<1>7. DataChain' /\ DataEnq' /\ DataResult'
  BY <1>1, <1>2 DEF DataParts, DataChain, DataEnq, DataResult, Flying
<1>8. DataExec' /\ DataSource'
  BY <1>1, <1>2 DEF DataParts, DataExec, DataSource, Done
<1>9. EachBlockOnce'
  BY <1>1 DEF Data, EachBlockOnce
<1> QED BY <1>1, <1>5, <1>6, <1>7, <1>8, <1>9 DEF Data, DataParts

LEMMA AddResultData ==
  ASSUME TypeOK, Ring, ~tainted, Data, AddResult PROVE Data'
<1>1. /\ pc = "sum" /\ pc' = "sum" /\ DataParts
      /\ UNCHANGED <<call, blkId, blkIdDone, status, rdEvent, mem, pend, exec, tainted>>
  BY DEF AddResult, Data, dev
<1>2. InFlight' = InFlight
  BY <1>1 DEF InFlight
<1>3. /\ blkId = blkIdDone + NPIPES /\ blkIdDone % NCOMPUTES = 0 /\ Len(acc) = blkIdDone + k
      /\ blkId \in Nat /\ blkIdDone \in Nat /\ k \in 0 .. NCOMPUTES - 1 /\ acc \in Seq(Tags)
  BY <1>1, SlotInRange DEF AddResult, TypeOK, Ring, RingIndices, InLoop
<1>4. mem["pOut"][Half * NCOMPUTES + k] = <<call, blkIdDone + k>>
  <2> DEFINE n == blkIdDone + k
  <2>1. Half * NCOMPUTES + k = n % NPIPES
    BY <1>3, HalfIsOldest
  <2>2. n \in blkIdDone .. blkIdDone + NCOMPUTES - 1 /\ n \in blkIdDone .. blkId - 1
    BY <1>3, SlotInRange
  <2> HIDE DEF n
  <2>3. ~Flying("rd", n)
    BY <1>1, <2>2 DEF DataParts, DataSum
  <2>4. mem["pOut"][n % NPIPES] = <<call, n>>
    BY <1>1, <2>2, <2>3 DEF DataParts, DataResult
  <2> QED BY <2>1, <2>4 DEF n
<1>5. EachBlockOnce'
  <2>1. acc' = Append(acc, <<call, blkIdDone + k>>)
    BY <1>4 DEF AddResult
  <2>2. /\ Len(acc') = Len(acc) + 1 /\ Len(acc) \in Nat
        /\ \A i \in 1 .. Len(acc) : acc'[i] = acc[i]
        /\ acc'[Len(acc) + 1] = <<call, blkIdDone + k>>
    BY <1>3, <2>1
  <2>3. \A i \in 1 .. Len(acc) : acc[i] = <<call, i - 1>>
    BY DEF Data, EachBlockOnce
  <2>4. Len(acc) + 1 - 1 = blkIdDone + k
    BY <1>3
  <2> QED BY <1>1, <2>2, <2>3, <2>4 DEF EachBlockOnce
<1>6. DataParts'
  BY <1>1, <1>2 DEF DataParts, DataWindow, DataExec, DataSource, DataChain, DataEnq,
                    DataResult, DataSum, Flying, Done
<1> QED BY <1>1, <1>5, <1>6 DEF Data

LEMMA HalfAddedData ==
  ASSUME TypeOK, Ring, ~tainted, Data, HalfAdded PROVE Data'
<1>1. /\ pc = "sum" /\ pc' = "fill" /\ DataParts
      /\ UNCHANGED <<call, blkId, status, acc, rdEvent, mem, pend, exec, tainted>>
  BY DEF HalfAdded, Data, dev
<1>2. InFlight' = InFlight
  BY <1>1 DEF InFlight
<1>3. /\ blkId = blkIdDone + NPIPES /\ blkIdDone' = blkIdDone + NCOMPUTES
      /\ blkId \in Nat /\ blkIdDone \in Nat
  BY <1>1, SlotInRange DEF HalfAdded, TypeOK, Ring, RingIndices
<1>4. ASSUME NEW c \in InFlight PROVE blkIdDone + NCOMPUTES <= c.tag[2] /\ c.tag[2] # blkId
  <2>1. c.tag = <<call, c.tag[2]>> /\ c.tag[2] \in Nat /\ blkIdDone <= c.tag[2]
        /\ c.tag[2] <= blkId /\ c.tag[2] # blkId
    BY <1>1, <1>3, InWindow DEF DataParts, DataWindow
  <2>2. Cmd("rd", c.tag) \in InFlight
    BY <1>1, <1>3, <2>1 DEF DataParts, DataChain
  <2>3. ~ (c.tag[2] \in blkIdDone .. blkIdDone + NCOMPUTES - 1)
    BY <1>1, <2>1, <2>2 DEF DataParts, DataSum, Flying
  <2> QED BY <1>3, <2>1, <2>3, SlotInRange
<1>5. DataWindow'
  BY <1>1, <1>2, <1>3, <1>4 DEF DataParts, DataWindow
<1>6. DataResult'
  <2>1. \A n \in blkIdDone' .. blkId' - 1 : n \in blkIdDone .. blkId - 1
    BY <1>1, <1>3, SlotInRange
  <2> QED BY <1>1, <1>2, <2>1 DEF DataParts, DataResult, Flying
<1>7. DataChain' /\ DataEnq' /\ DataSum'
  BY <1>1, <1>2 DEF DataParts, DataChain, DataEnq, DataSum
<1>8. DataExec' /\ DataSource'
  BY <1>1, <1>2 DEF DataParts, DataExec, DataSource, Done
<1>9. EachBlockOnce'
  BY <1>1 DEF Data, EachBlockOnce
<1> QED BY <1>1, <1>5, <1>6, <1>7, <1>8, <1>9 DEF Data, DataParts

\* Writing the slot of a block that nothing in flight belongs to.
LEMMA FillData ==
  ASSUME TypeOK, Ring, Ring', ~tainted, Data, FillBegin \/ FillEnd PROVE Data'
<1> DEFINE s == blkId % NPIPES
<1>1. /\ pc \in {"loop", "fill", "filling"} /\ pc' \in {"filling", "enqWr"} /\ DataParts
      /\ pc' = "enqWr" => mem'["pInp"][s] = Tag
      /\ UNCHANGED <<call, blkId, blkIdDone, status, acc, rdEvent, pend, exec, tainted>>
      /\ \A g \in Stages, t \in Slots : (g # "pInp" \/ t # s) => mem'[g][t] = mem[g][t]
  BY CurrentTag DEF FillBegin, FillEnd, Data, TypeOK, Stages
<1>2. InFlight' = InFlight
  BY <1>1 DEF InFlight
<1>3. blkId \in blkIdDone .. blkIdDone + NPIPES - 1
  BY <1>1, SlotInRange DEF TypeOK, Ring, RingIndices
<1>4. ASSUME NEW c \in InFlight
      PROVE  /\ c \in Cmds /\ Src(c.op) \in Stages /\ Slot(c.tag) \in Slots
             /\ c.tag[2] # blkId /\ Slot(c.tag) # s
  <2>1. c \in Cmds /\ c.tag[2] \in blkIdDone .. blkIdDone + NPIPES - 1 /\ c.tag[2] # blkId
    BY <1>1, InWindow DEF DataParts, DataWindow
  <2>2. c.op \in Ops /\ Slot(c.tag) \in Slots
    BY <2>1, CmdParts
  <2>3. Slot(c.tag) # s
    BY <1>3, <2>1, SameSlot DEF Slot
  <2> QED BY <2>1, <2>2, <2>3, StageType
<1>5. ASSUME NEW c \in InFlight
      PROVE  mem'[Src(c.op)][Slot(c.tag)] = mem[Src(c.op)][Slot(c.tag)]
  BY <1>1, <1>4
<1>6. DataWindow'
  BY <1>1, <1>2, <1>4 DEF DataParts, DataWindow
<1>7. DataExec'
  <2>1. \A e \in exec : e.cmd \in InFlight
    BY DEF InFlight
  <2> QED BY <1>1, <1>2, <1>5, <2>1 DEF DataParts, DataExec, Done
<1>8. DataSource'
  BY <1>1, <1>2, <1>5 DEF DataParts, DataSource, Done
<1>9. DataChain'
  BY <1>1, <1>2 DEF DataParts, DataChain
<1>10. DataEnq' /\ DataSum'
  BY <1>1, CurrentTag DEF DataEnq, DataSum, Tag
<1>11. DataResult'
  <2>1. \A n \in blkIdDone .. blkId - 1 : n \in Nat
    BY DEF TypeOK
  <2>2. \A n \in blkIdDone .. blkId - 1 : n % NPIPES \in Slots
    BY <2>1, SlotInRange
  <2> QED BY <1>1, <1>2, <2>2 DEF DataParts, DataResult, Flying, Stages
<1>12. EachBlockOnce'
  BY <1>1 DEF Data, EachBlockOnce
<1> QED BY <1>1, <1>6, <1>7, <1>8, <1>9, <1>10, <1>11, <1>12 DEF Data, DataParts

LEMMA FillErrorData ==
  ASSUME ~tainted, Data, FillError PROVE Data'
<1>1. pc' = "idle" /\ status' = "error" /\ UNCHANGED <<call, acc, tainted>>
  BY DEF FillError, dev
<1> QED BY <1>1 DEF Data, EachBlockOnce

\* What an enqueue adds to the unfinished commands, and what it needs: the new
\* command is not there yet, and its source is ready when its wait is over.
LEMMA EnqWriteData ==
  ASSUME TypeOK, Ring, ~tainted, Data, EnqWrite PROVE Data'
<1> DEFINE w == Cmd("wr", Tag)
<1>1. /\ pc = "enqWr" /\ pc' = "enqNd" /\ DataParts /\ pend' = pend \cup {w}
      /\ UNCHANGED <<call, blkId, blkIdDone, status, acc, rdEvent, mem, exec, tainted>>
  BY DEF EnqWrite, Data
<1>2. InFlight' = InFlight \cup {w}
  BY <1>1 DEF InFlight
<1>3. w \in Cmds /\ w.op = "wr" /\ w.tag = Tag /\ Tag[1] = call /\ Tag[2] = blkId
  BY CurrentTag, CmdType DEF Ops, Tag
<1>4. \A c \in InFlight : c.tag[2] # blkId
  BY <1>1 DEF DataParts, DataWindow
<1>5. \A c \in InFlight : \A d \in WaitList(c) : d # w
  <2>1. SUFFICES ASSUME NEW c \in InFlight, NEW d \in WaitList(c) PROVE d.tag[2] # blkId
    BY <1>3
  <2>2. d.tag = c.tag
    BY <2>1 DEF WaitList, Cmd
  <2> QED BY <1>4, <2>2
<1> HIDE DEF w
<1>6. DataWindow'
  BY <1>1, <1>2, <1>3, <1>4 DEF DataParts, DataWindow, TypeOK, Ring, RingIndices
<1>7. DataExec'
  <2>1. \A e \in exec : e.cmd \in InFlight /\ e.cmd # w
    BY <1>3, <1>4 DEF InFlight
  <2> QED BY <1>1, <1>2, <1>5, <2>1 DEF DataParts, DataExec, Done
<1>8. DataSource'
  BY <1>1, <1>2, <1>3 DEF DataParts, DataSource, DataEnq, Done, Src
<1>9. DataChain'
  BY <1>1, <1>2, <1>3, <1>4 DEF DataParts, DataChain, TypeOK
<1>10. DataEnq' /\ DataSum'
  BY <1>1, <1>2, <1>3 DEF DataEnq, DataSum, Tag, Done, w
<1>11. DataResult'
  BY <1>1, <1>2 DEF DataParts, DataResult, Flying
<1>12. EachBlockOnce'
  BY <1>1 DEF Data, EachBlockOnce
<1> QED BY <1>1, <1>6, <1>7, <1>8, <1>9, <1>10, <1>11, <1>12 DEF Data, DataParts

LEMMA EnqKernelData ==
  ASSUME TypeOK, Ring, ~tainted, Data, EnqKernel PROVE Data'
<1> DEFINE w == Cmd("nd", Tag)
<1>1. /\ pc = "enqNd" /\ pc' = "enqRd" /\ DataParts /\ pend' = pend \cup {w}
      /\ UNCHANGED <<call, blkId, blkIdDone, status, acc, rdEvent, mem, exec, tainted>>
  BY DEF EnqKernel, Data
<1>2. InFlight' = InFlight \cup {w}
  BY <1>1 DEF InFlight
<1>3. w \in Cmds /\ w.op = "nd" /\ w.tag = Tag /\ Tag[1] = call /\ Tag[2] = blkId
  BY CurrentTag, CmdType DEF Ops, Tag
<1>4. \A c \in InFlight : c.tag[2] = blkId => c.op = "wr"
  BY <1>1 DEF DataParts, DataWindow
<1>5. \A c \in InFlight : \A d \in WaitList(c) : d # w
  <2>1. SUFFICES ASSUME NEW c \in InFlight, NEW d \in WaitList(c), d = w PROVE FALSE
    OBVIOUS
  <2>2. d.tag = c.tag /\ c.op # "wr"
    BY <2>1 DEF WaitList, Cmd
  <2> QED BY <1>3, <1>4, <2>1, <2>2
<1>6. WaitList(w) = {Cmd("wr", Tag)}
  BY <1>3 DEF WaitList
<1>7. \A c \in InFlight : c.tag[2] = blkId => c.tag = Tag
  <2>1. \A c \in InFlight : c.tag = <<call, c.tag[2]>>
    BY <1>1, InWindow DEF DataParts
  <2> QED BY <2>1 DEF Tag
<1> HIDE DEF w
<1>8. DataWindow'
  BY <1>1, <1>2, <1>3, SlotInRange DEF DataParts, DataWindow, TypeOK, Ring, RingIndices
<1>9. DataExec'
  <2>1. \A e \in exec : e.cmd \in InFlight /\ e.cmd # w
    BY <1>3, <1>4 DEF InFlight
  <2> QED BY <1>1, <1>2, <1>5, <2>1 DEF DataParts, DataExec, Done
<1>10. DataSource'
  <2>1. Done(Cmd("wr", Tag)) => mem["devInp"][Slot(Tag)] = Tag
    BY <1>1 DEF DataParts, DataEnq
  <2> QED BY <1>1, <1>2, <1>3, <1>6, <2>1 DEF DataParts, DataSource, Done, Src
<1>11. DataChain'
  <2>1. \A c \in InFlight : c.op = "wr" /\ c.tag[2] = blkId => Cmd("nd", c.tag) = w
    BY <1>7 DEF w
  <2>2. \A c \in InFlight : c.tag[2] <= blkId /\ c.tag[2] \in Nat
    BY <1>1, InWindow DEF DataParts, DataWindow
  <2> QED BY <1>1, <1>2, <1>3, <2>1, <2>2 DEF DataParts, DataChain, TypeOK
<1>12. DataEnq' /\ DataSum'
  BY <1>1, <1>2, <1>3 DEF DataEnq, DataSum, Tag, Done, w
<1>13. DataResult'
  BY <1>1, <1>2 DEF DataParts, DataResult, Flying
<1>14. EachBlockOnce'
  BY <1>1 DEF Data, EachBlockOnce
<1> QED BY <1>1, <1>8, <1>9, <1>10, <1>11, <1>12, <1>13, <1>14 DEF Data, DataParts

LEMMA EnqReadData ==
  ASSUME TypeOK, Ring, ~tainted, Data, EnqRead PROVE Data'
<1> DEFINE w == Cmd("rd", Tag)
<1>1. /\ pc = "enqRd" /\ pc' \in {"loop", "drain"} /\ DataParts /\ pend' = pend \cup {w}
      /\ blkId' = blkId + 1 /\ blkId \in Nat /\ blkIdDone \in Nat
      /\ rdEvent' = [rdEvent EXCEPT ![blkId % NPIPES] = w]
      /\ UNCHANGED <<call, blkIdDone, status, acc, mem, exec, tainted>>
  BY DEF EnqRead, Data, TypeOK
<1>2. InFlight' = InFlight \cup {w}
  BY <1>1 DEF InFlight
<1>3. w \in Cmds /\ w.op = "rd" /\ w.tag = Tag /\ Tag[1] = call /\ Tag[2] = blkId
  BY CurrentTag, CmdType DEF Ops, Tag
<1>4. \A c \in InFlight : /\ c.tag[2] = blkId => c.op # "rd" /\ c.tag = Tag
                          /\ c.tag[2] \in Nat /\ c.tag[2] <= blkId
  <2>1. \A c \in InFlight : c.tag = <<call, c.tag[2]>> /\ c.tag[2] \in Nat
    BY <1>1, InWindow DEF DataParts
  <2> QED BY <1>1, <2>1 DEF DataParts, DataWindow, Tag
<1>5. \A c \in InFlight : \A d \in WaitList(c) : d # w
  <2>1. SUFFICES ASSUME NEW c \in InFlight, NEW d \in WaitList(c) PROVE d.op # "rd"
    BY <1>3
  <2> QED BY <2>1 DEF WaitList, Cmd
<1>6. WaitList(w) = {Cmd("nd", Tag)}
  BY <1>3 DEF WaitList
<1> HIDE DEF w
<1>7. DataWindow'
  BY <1>1, <1>2, <1>3, <1>4 DEF DataParts, DataWindow, Ring, RingIndices
<1>8. DataExec'
  <2>1. \A e \in exec : e.cmd \in InFlight /\ e.cmd # w
    BY <1>3, <1>4 DEF InFlight
  <2> QED BY <1>1, <1>2, <1>5, <2>1 DEF DataParts, DataExec, Done
<1>9. DataSource'
  <2>1. Done(Cmd("nd", Tag)) => mem["devOut"][Slot(Tag)] = Tag
    BY <1>1 DEF DataParts, DataEnq
  <2> QED BY <1>1, <1>2, <1>3, <1>6, <2>1 DEF DataParts, DataSource, Done, Src
<1>10. DataChain'
  <2>1. \A c \in InFlight : c.tag[2] = blkId => Cmd("rd", c.tag) = w
    BY <1>4 DEF w
  <2>2. Cmd("rd", w.tag) = w
    BY <1>3 DEF w
  <2>3. ASSUME NEW c \in InFlight
        PROVE  Cmd("rd", c.tag) \in InFlight' /\ (c.op = "wr" => Cmd("nd", c.tag) \in InFlight')
    BY <1>1, <1>2, <1>4, <2>1 DEF DataParts, DataChain
  <2> QED BY <1>2, <1>3, <2>2, <2>3 DEF DataChain
<1>11. DataEnq' /\ DataSum'
  BY <1>1 DEF DataEnq, DataSum
<1>12. DataResult'
  <2>1. blkId \in blkIdDone .. blkIdDone + NPIPES - 1 /\ blkId % NPIPES \in Slots
    BY <1>1, CurrentInWindow, CurrentTag
  <2>2. rdEvent'[blkId % NPIPES] = Cmd("rd", <<call, blkId>>) /\ Cmd("rd", <<call, blkId>>) \in InFlight'
    BY <1>1, <1>2, <2>1 DEF TypeOK, Flying, w, Tag
  <2>3. ASSUME NEW n \in blkIdDone .. blkId - 1
        PROVE  /\ rdEvent'[n % NPIPES] = Cmd("rd", <<call, n>>)
               /\ ~Flying("rd", n)' => mem'["pOut"][n % NPIPES] = <<call, n>>
    <3>1. n \in blkIdDone .. blkIdDone + NPIPES - 1 /\ n # blkId
      BY <1>1, <2>1, SlotInRange
    <3>2. n % NPIPES # blkId % NPIPES
      BY <2>1, <3>1, SameSlot
    <3>3. n \in Nat
      BY <1>1
    <3>4. n % NPIPES \in Slots
      BY <3>3, SlotInRange
    <3>5. rdEvent'[n % NPIPES] = rdEvent[n % NPIPES]
      BY <1>1, <3>2, <3>4 DEF TypeOK
    <3> QED BY <1>1, <1>2, <3>5 DEF DataParts, DataResult, Flying
  <2>4. \A n \in blkIdDone' .. blkId' - 1 : n = blkId \/ n \in blkIdDone .. blkId - 1
    BY <1>1
  <2> QED BY <1>1, <2>2, <2>3, <2>4 DEF DataResult, Flying
<1>13. EachBlockOnce'
  BY <1>1 DEF Data, EachBlockOnce
<1> QED BY <1>1, <1>7, <1>8, <1>9, <1>10, <1>11, <1>12, <1>13 DEF Data, DataParts

LEMMA EnqFailData ==
  ASSUME TypeOK, ~tainted, Data, EnqFail PROVE Data'
<1>1. /\ pc \in {"enqWr", "enqNd", "enqRd"} /\ pc' = "drain" /\ status' = "fail" /\ DataParts
      /\ UNCHANGED <<call, blkId, blkIdDone, acc, rdEvent, mem, pend, exec, tainted>>
  BY DEF EnqFail, Data, dev
<1>2. InFlight' = InFlight
  BY <1>1 DEF InFlight
<1>3. DataWindow'
  BY <1>1, <1>2 DEF DataParts, DataWindow
<1>4. DataExec' /\ DataSource'
  BY <1>1, <1>2 DEF DataParts, DataExec, DataSource, Done
<1>5. DataChain' /\ DataEnq' /\ DataSum' /\ DataResult'
  BY <1>1, <1>2 DEF DataParts, DataChain, DataEnq, DataSum, DataResult, Flying
<1>6. EachBlockOnce'
  BY <1>1 DEF Data, EachBlockOnce
<1> QED BY <1>1, <1>3, <1>4, <1>5, <1>6 DEF Data, DataParts

LEMMA DrainData ==
  ASSUME TypeOK, Ring, ~tainted, Data, Drain PROVE Data'
<1>1. /\ pc = "drain" /\ pc' = "drain" /\ DataParts
      /\ blkIdDone < blkId /\ blkIdDone' = blkIdDone + 1
      /\ blkIdDone \in Nat /\ blkId \in Nat /\ acc \in Seq(Tags) /\ Len(acc) = blkIdDone
      /\ UNCHANGED <<call, blkId, status, rdEvent, mem, pend, exec, tainted>>
  BY DEF Drain, Data, dev, TypeOK, Ring, RingIndices
<1>2. InFlight' = InFlight
  BY <1>1 DEF InFlight
<1>3. ~Flying("rd", blkIdDone) /\ mem["pOut"][blkIdDone % NPIPES] = <<call, blkIdDone>>
  <2>1. blkIdDone \in blkIdDone .. blkId - 1
    BY <1>1
  <2>2. rdEvent[blkIdDone % NPIPES] = Cmd("rd", <<call, blkIdDone>>)
    BY <1>1, <2>1 DEF DataParts, DataResult
  <2> QED BY <1>1, <2>1, <2>2 DEF Drain, DataParts, DataResult, Flying, Done
<1>4. \A c \in InFlight : c.tag[2] # blkIdDone
  <2>1. SUFFICES ASSUME NEW c \in InFlight, c.tag[2] = blkIdDone PROVE FALSE
    OBVIOUS
  <2>2. c.tag = <<call, blkIdDone>>
    BY <1>1, <2>1, InWindow DEF DataParts
  <2> QED BY <1>1, <1>3, <2>1, <2>2 DEF DataParts, DataChain, Flying
<1>5. DataWindow'
  <2>1. \A c \in InFlight : c.tag[2] \in Nat
    BY <1>1, InWindow DEF DataParts
  <2> QED BY <1>1, <1>2, <1>4, <2>1 DEF DataParts, DataWindow
<1>6. DataExec' /\ DataSource'
  BY <1>1, <1>2 DEF DataParts, DataExec, DataSource, Done
<1>7. DataChain' /\ DataEnq' /\ DataSum'
  BY <1>1, <1>2 DEF DataParts, DataChain, DataEnq, DataSum
<1>8. DataResult'
  <2>1. \A n \in blkIdDone' .. blkId' - 1 : n \in blkIdDone .. blkId - 1
    BY <1>1
  <2> QED BY <1>1, <1>2, <2>1 DEF DataParts, DataResult, Flying
<1>9. EachBlockOnce'
  <2>1. acc' = Append(acc, <<call, blkIdDone>>)
    BY <1>3 DEF Drain
  <2>2. /\ Len(acc') = Len(acc) + 1 /\ Len(acc) \in Nat
        /\ \A i \in 1 .. Len(acc) : acc'[i] = acc[i]
        /\ acc'[Len(acc) + 1] = <<call, blkIdDone>>
    BY <1>1, <2>1
  <2>3. \A i \in 1 .. Len(acc) : acc[i] = <<call, i - 1>>
    BY DEF Data, EachBlockOnce
  <2>4. Len(acc) + 1 - 1 = blkIdDone
    BY <1>1
  <2> QED BY <1>1, <2>2, <2>3, <2>4 DEF EachBlockOnce
<1> QED BY <1>1, <1>5, <1>6, <1>7, <1>8, <1>9 DEF Data, DataParts

LEMMA ReturnData ==
  ASSUME TypeOK, Ring, ~tainted, Data, Return PROVE Data'
<1>1. /\ pc = "drain" /\ pc' = "idle" /\ DataParts /\ blkIdDone = blkId /\ blkId \in Nat
      /\ UNCHANGED <<call, status, acc, pend, exec, tainted>>
  BY DEF Return, Data, dev, TypeOK, Ring, RingIndices
<1>2. InFlight' = InFlight
  BY <1>1 DEF InFlight
<1>3. status = "ok" => InFlight = {}
  <2>1. SUFFICES ASSUME NEW c \in InFlight, status = "ok" PROVE FALSE
    OBVIOUS
  <2>2. c.tag[2] \in Nat /\ blkId <= c.tag[2] /\ c.tag[2] <= blkId
    BY <1>1, <2>1, InWindow DEF DataParts, DataWindow
  <2> QED BY <1>1, <2>1, <2>2 DEF DataParts, DataWindow
<1>4. EachBlockOnce'
  BY <1>1 DEF Data, EachBlockOnce
<1> QED BY <1>1, <1>2, <1>3, <1>4 DEF Data

\* Starting a command moves it from the queue to the device: the set of
\* unfinished commands stays, and what it reads is its own block.
LEMMA StartData ==
  ASSUME TypeOK, Ring, ~tainted, Data, NEW c \in pend, Start(c) PROVE Data'
<1> DEFINE e1 == [cmd |-> c, val |-> mem[Src(c.op)][Slot(c.tag)]]
<1>1. /\ pend' = pend \ {c} /\ exec' = exec \cup {e1}
      /\ UNCHANGED <<pc, call, blkId, blkIdDone, status, acc, rdEvent, mem, tainted>>
      /\ \A d \in WaitList(c) : Done(d)
  BY DEF Start, Ready, host
<1>2. InFlight' = InFlight
  <2>1. e1.cmd = c
    OBVIOUS
  <2> HIDE DEF e1
  <2>2. {f.cmd : f \in exec'} = {f.cmd : f \in exec} \cup {c}
    BY <1>1, <2>1
  <2> QED BY <1>1, <2>2 DEF InFlight
<1>3. EachBlockOnce'
  BY <1>1 DEF Data, EachBlockOnce
<1>4. CASE pc = "idle"
  BY <1>1, <1>2, <1>3, <1>4 DEF Data
<1>5. CASE pc # "idle"
  <2>1. DataParts /\ c \in InFlight
    BY <1>5 DEF Data, InFlight
  <2>2. mem[Src(c.op)][Slot(c.tag)] = c.tag
    BY <1>1, <2>1 DEF DataParts, DataSource
  <2>3. DataExec'
    BY <1>1, <1>2, <2>1, <2>2 DEF DataParts, DataExec, Done
  <2>4. DataWindow' /\ DataChain'
    BY <1>1, <1>2, <2>1 DEF DataParts, DataWindow, DataChain
  <2>5. DataSource' /\ DataEnq'
    BY <1>1, <1>2, <2>1 DEF DataParts, DataSource, DataEnq, Done, Tag
  <2>6. DataResult' /\ DataSum'
    BY <1>1, <1>2, <2>1 DEF DataParts, DataResult, DataSum, Flying
  <2> QED BY <1>1, <1>3, <1>5, <2>3, <2>4, <2>5, <2>6 DEF Data, DataParts
<1> QED BY <1>4, <1>5

\* Finishing a command delivers its block to the next stage of its slot.
LEMMA FinishData ==
  ASSUME TypeOK, Ring, ~tainted, Data, NEW e \in exec, Finish(e) PROVE Data'
<1> DEFINE c == e.cmd
<1> DEFINE g == Dst(c.op)
<1> DEFINE s == Slot(c.tag)
<1>1. /\ exec' = exec \ {e}
      /\ UNCHANGED <<pc, call, blkId, blkIdDone, status, acc, rdEvent, pend, tainted>>
  BY DEF Finish, host
<1>2. InFlight' \subseteq InFlight
  BY <1>1 DEF InFlight
<1>3. EachBlockOnce'
  BY <1>1 DEF Data, EachBlockOnce
<1>4. CASE pc = "idle"
  BY <1>1, <1>2, <1>3, <1>4 DEF Data
<1>5. CASE pc # "idle"
  <2>1. DataParts /\ c \in InFlight /\ e \in [cmd : Cmds, val : Tags]
    BY <1>5 DEF Data, InFlight, TypeOK
  <2>2. c \in Cmds /\ c.op \in Ops /\ g \in Stages /\ s \in Slots
    BY <2>1, CmdParts, StageType
  <2>3. InFlight' = InFlight \ {c}
    <3>1. \A f \in exec : f.cmd = c => f = e
      BY <2>1 DEF DataParts, DataExec, TypeOK
    <3>2. c \notin pend
      BY <2>1 DEF DataParts, DataExec
    <3> QED BY <1>1, <3>1, <3>2 DEF InFlight
  <2>4. /\ mem'[g][s] = c.tag
        /\ \A h \in Stages, t \in Slots : (h # g \/ t # s) => mem'[h][t] = mem[h][t]
    <3>1. mem' = [mem EXCEPT ![g][s] = c.tag]
      BY <2>1 DEF Finish, DataParts, DataExec
    <3> QED BY <2>2, <3>1 DEF TypeOK
  <2>5. \A d \in WaitList(c) : Done(d)
    BY <2>1 DEF DataParts, DataExec
  <2>6. ASSUME NEW n \in blkIdDone .. blkIdDone + NPIPES - 1, n % NPIPES = s
        PROVE  c.tag = <<call, n>>
    <3>1. c.tag = <<call, c.tag[2]>> /\ c.tag[2] \in blkIdDone .. blkIdDone + NPIPES - 1
      BY <1>5, <2>1, InWindow DEF DataParts
    <3>2. c.tag[2] = n
      BY <2>6, <3>1, SameSlot DEF Slot
    <3> QED BY <3>1, <3>2
  \* A stage of a slot in the window that held its block still does.
  <2>7. ASSUME NEW h \in Stages, NEW n \in blkIdDone .. blkIdDone + NPIPES - 1,
               n % NPIPES \in Slots, mem[h][n % NPIPES] = <<call, n>>
        PROVE  mem'[h][n % NPIPES] = <<call, n>>
    BY <2>4, <2>6, <2>7
  <2>8. ASSUME NEW d \in InFlight
        PROVE  /\ Src(d.op) \in Stages /\ Slot(d.tag) \in Slots
               /\ d.tag = <<call, d.tag[2]>>
               /\ mem[Src(d.op)][Slot(d.tag)] = d.tag => mem'[Src(d.op)][Slot(d.tag)] = d.tag
    <3>1. /\ d \in Cmds /\ d.op \in Ops /\ d.tag = <<call, d.tag[2]>>
          /\ d.tag[2] \in blkIdDone .. blkIdDone + NPIPES - 1
      BY <1>5, <2>1, InWindow DEF DataParts
    <3>2. Src(d.op) \in Stages /\ Slot(d.tag) \in Slots
      BY <3>1, CmdParts, StageType
    <3> QED BY <2>7, <3>1, <3>2 DEF Slot
  <2> HIDE DEF c, g, s
  <2>9. DataWindow'
    BY <1>1, <1>2, <2>1 DEF DataParts, DataWindow
  <2>10. DataExec'
    <3>1. \A f \in exec : f.cmd \in InFlight
      BY DEF InFlight
    <3> QED BY <1>1, <1>2, <2>1, <2>8, <3>1 DEF DataParts, DataExec, Done
  <2>11. DataSource'
    <3>1. SUFFICES ASSUME NEW d \in InFlight, d # c, \A x \in WaitList(d) : x \notin InFlight'
                   PROVE  mem'[Src(d.op)][Slot(d.tag)] = d.tag
      BY <2>3 DEF DataSource, Done
    <3>2. CASE c \in WaitList(d)
      <4>1. d.tag = c.tag /\ Src(d.op) = g
        BY <2>1, <2>2, <3>2 DEF WaitList, Cmd, Src, Dst, g
      <4> QED BY <2>4, <4>1 DEF s
    <3>3. CASE c \notin WaitList(d)
      <4>1. \A x \in WaitList(d) : Done(x)
        BY <2>3, <3>1, <3>3 DEF Done
      <4> QED BY <2>1, <2>8, <3>1, <4>1 DEF DataParts, DataSource
    <3> QED BY <3>2, <3>3
  <2>12. DataChain'
    <3>1. SUFFICES ASSUME NEW d \in InFlight, d # c
          PROVE  /\ d.tag[2] < blkId => Cmd("rd", d.tag) # c
                 /\ d.op = "wr" /\ (d.tag[2] < blkId \/ pc = "enqRd") => Cmd("nd", d.tag) # c
      BY <1>1, <2>1, <2>3 DEF DataParts, DataChain
    <3>2. d \in Cmds /\ d.op \in Ops /\ d.tag \in Tags /\ d = Cmd(d.op, d.tag)
      BY <2>1, InFlightType, CmdParts
    <3>3. ASSUME d.op = "wr", Cmd("nd", d.tag) = c PROVE FALSE
      <4>1. c.op = "nd" /\ c.tag = d.tag
        BY <3>2, <3>3, CmdType DEF Ops
      <4>2. d \in WaitList(c)
        BY <3>2, <3>3, <4>1 DEF WaitList
      <4> QED BY <2>5, <4>2 DEF Done
    <3>4. ASSUME d.tag[2] < blkId, Cmd("rd", d.tag) = c PROVE FALSE
      <4>1. c.op = "rd" /\ c.tag = d.tag
        BY <3>2, <3>4, CmdType DEF Ops
      <4>2. Cmd("nd", d.tag) \notin InFlight
        BY <2>5, <4>1 DEF WaitList, Done
      <4>3. d.op # "rd"
        BY <3>1, <3>2, <3>4
      <4>4. d.op # "nd"
        BY <3>2, <4>2
      <4>5. d.op = "wr"
        BY <3>2, <4>3, <4>4 DEF Ops
      <4> QED BY <2>1, <3>4, <4>2, <4>5 DEF DataParts, DataChain
    <3> QED BY <3>3, <3>4
  <2>13. DataEnq'
    <3>1. SUFFICES ASSUME pc \in {"enqWr", "enqNd", "enqRd"} PROVE DataEnq'
      BY <1>1 DEF DataEnq
    <3>2. /\ Tag = <<call, blkId>> /\ Tag' = Tag /\ Slot(Tag) = blkId % NPIPES /\ blkId % NPIPES \in Slots
          /\ blkId \in blkIdDone .. blkIdDone + NPIPES - 1
      BY <1>1, <3>1, CurrentTag, CurrentInWindow DEF Tag
    <3>3. ASSUME NEW o \in Ops, c = Cmd(o, Tag) PROVE mem'[Dst(o)][Slot(Tag)] = Tag
      <4>1. c.op = o /\ c.tag = Tag
        BY <3>3, CurrentTag, CmdType
      <4> QED BY <2>4, <4>1 DEF g, s
    <3>4. ASSUME NEW h \in Stages, mem[h][Slot(Tag)] = Tag PROVE mem'[h][Slot(Tag)] = Tag
      BY <2>7, <3>2, <3>4
    <3>5. pc = "enqWr" => mem'["pInp"][Slot(Tag)] = Tag
      BY <2>1, <3>4 DEF DataParts, DataEnq, Stages
    <3>6. pc = "enqNd" /\ Cmd("wr", Tag) \notin InFlight' => mem'["devInp"][Slot(Tag)] = Tag
      <4>1. c = Cmd("wr", Tag) => mem'["devInp"][Slot(Tag)] = Tag
        BY <3>3 DEF Ops, Dst
      <4> QED BY <2>1, <2>3, <3>4, <4>1 DEF DataParts, DataEnq, Stages, Done
    <3>7. pc = "enqRd" /\ Cmd("nd", Tag) \notin InFlight' => mem'["devOut"][Slot(Tag)] = Tag
      <4>1. c = Cmd("nd", Tag) => mem'["devOut"][Slot(Tag)] = Tag
        BY <3>3 DEF Ops, Dst
      <4> QED BY <2>1, <2>3, <3>4, <4>1 DEF DataParts, DataEnq, Stages, Done
    <3> QED BY <1>1, <3>2, <3>5, <3>6, <3>7 DEF DataEnq, Done
  <2>14. DataResult'
    <3>1. SUFFICES ASSUME NEW n \in blkIdDone .. blkId - 1, Cmd("rd", <<call, n>>) \notin InFlight'
                   PROVE  mem'["pOut"][n % NPIPES] = <<call, n>>
      BY <1>1, <2>1 DEF DataParts, DataResult, Flying
    <3>2. n \in Nat /\ n \in blkIdDone .. blkIdDone + NPIPES - 1
      BY <3>1, SlotInRange DEF TypeOK, Ring, RingIndices
    <3>3. n % NPIPES \in Slots /\ <<call, n>> \in Tags
      BY <3>2, SlotInRange DEF TypeOK, Tags
    <3>4. CASE c = Cmd("rd", <<call, n>>)
      <4>1. c.op = "rd" /\ c.tag = <<call, n>>
        BY <3>3, <3>4, CmdType DEF Ops
      <4>2. g = "pOut" /\ s = n % NPIPES
        BY <4>1 DEF g, s, Dst, Slot
      <4> QED BY <2>4, <4>1, <4>2
    <3>5. CASE c # Cmd("rd", <<call, n>>)
      <4>1. mem["pOut"][n % NPIPES] = <<call, n>>
        BY <2>1, <2>3, <3>1, <3>5 DEF DataParts, DataResult, Flying
      <4> QED BY <2>7, <3>2, <3>3, <4>1 DEF Stages
    <3> QED BY <3>4, <3>5
  <2>15. DataSum'
    BY <1>1, <1>2, <2>1 DEF DataParts, DataSum, Flying
  <2> QED BY <1>1, <1>3, <1>5, <2>9, <2>10, <2>11, <2>12, <2>13, <2>14, <2>15 DEF Data, DataParts
<1> QED BY <1>4, <1>5

---------------------------------------------------------------------------

LEMMA NextData == IndInv /\ [Next]_vars => IndInv'
<1> SUFFICES ASSUME IndInv, [Next]_vars PROVE IndInv'
  OBVIOUS
<1>1. TypeOK /\ Ring /\ TypeOK' /\ Ring' /\ Own'
  BY NextRing, NextOwn DEF IndInv
<1>2. SUFFICES ASSUME ~tainted' PROVE Data'
  BY <1>1 DEF IndInv
<1>3. CASE StartQuery
  BY <1>1, <1>2, <1>3, StartQueryData
<1>4. CASE UNCHANGED vars
  BY <1>2, <1>4 DEF vars, host, dev, IndInv, Data, DataParts, EachBlockOnce, DataWindow, DataExec,
     DataSource, DataChain, DataEnq, DataResult, DataSum, Flying, Done, InFlight, Tag
<1>5. CASE Host \/ FillError \/ EnqFail
  <2>1. ~tainted /\ Data
    BY <1>2, <1>5 DEF IndInv, Host, FillError, EnqFail, WaitHalf, AddResult, HalfAdded, FillBegin,
       FillEnd, EnqWrite, EnqKernel, EnqRead, Drain, Return, dev
  <2> QED BY <1>1, <1>5, <2>1, WaitHalfData, AddResultData, HalfAddedData, FillData, FillErrorData,
             EnqWriteData, EnqKernelData, EnqReadData, EnqFailData, DrainData, ReturnData DEF Host
<1>6. CASE Device
  <2>1. CASE \E c \in pend : Start(c)
    <3>1. ~tainted /\ Data
      BY <1>2, <2>1 DEF IndInv, Start
    <3> QED BY <1>1, <2>1, <3>1, StartData
  <2>2. CASE \E e \in exec : Finish(e)
    <3>1. ~tainted /\ Data
      BY <1>2, <2>2 DEF IndInv, Finish
    <3> QED BY <1>1, <2>2, <3>1, FinishData
  <2>3. CASE \E c \in pend : Abort(c)
    BY <1>2, <2>3 DEF Abort
  <2> QED BY <1>6, <2>1, <2>2, <2>3 DEF Device
<1> QED BY <1>3, <1>4, <1>5, <1>6 DEF Next

LEMMA IndInvAlways == Spec => []IndInv
<1>1. Init => IndInv
  BY InitRing, InitOwn, InitData DEF IndInv
<1> QED BY <1>1, NextData, PTL DEF Spec

\* The results added to q6_sum by an untainted query are those of its blocks 0,
\* 1, 2, ..., each once and in order (xql6.c:224-229, 260-268), for every ring
\* size and however the commands on the out-of-order queue interleave.
THEOREM EachBlockOnceHolds == Spec => []EachBlockOnce
<1>1. IndInv => EachBlockOnce
  BY DEF IndInv, Data, EachBlockOnce
<1> QED BY <1>1, IndInvAlways, PTL

\* No slot is refilled under a command of the query that still uses it, and in an
\* untainted query under no command at all (xql6.c:217-241).
THEOREM FillOwnsSlotHolds == Spec => []FillOwnsSlot
<1>1. IndInv => FillOwnsSlot
  <2> SUFFICES ASSUME IndInv, pc \in {"fill", "filling"}, NEW c \in InFlight,
                      c.tag[1] = call \/ ~tainted
               PROVE  Slot(c.tag) # blkId % NPIPES
    BY DEF FillOwnsSlot
  <2>1. TypeOK /\ Ring /\ OwnWindow /\ pc # "idle"
    BY DEF IndInv, Own
  <2>2. c \in OwnFlight
    BY <2>1 DEF IndInv, Data, DataParts, DataWindow, OwnFlight
  <2>3. c.tag[2] \in blkIdDone .. blkIdDone + NPIPES - 1 /\ c.tag[2] # blkId
    BY <2>1, <2>2, OwnInWindow DEF OwnWindow
  <2>4. blkId \in blkIdDone .. blkIdDone + NPIPES - 1
    BY <2>1, CurrentInWindow
  <2> QED BY <2>1, <2>3, <2>4, SameSlot DEF Slot
<1> QED BY <1>1, IndInvAlways, PTL

\* No command of an untainted query has its source overwritten while it runs
\* (fpga_q6.c:109-155).
THEOREM SourceStableHolds == Spec => []SourceStable
<1>1. IndInv => SourceStable
  BY DEF IndInv, Data, DataParts, DataExec, SourceStable
<1> QED BY <1>1, IndInvAlways, PTL

\* A query that succeeded has nothing of its own on the queue, whatever it ran over;
\* an untainted one leaves the queue empty.
THEOREM QuietAfterSuccessHolds == Spec => []QuietAfterSuccess
<1>1. IndInv => QuietAfterSuccess
  <2> SUFFICES ASSUME IndInv, pc = "idle", status = "ok", NEW c \in InFlight
               PROVE  c.tag[1] < call /\ tainted
    BY DEF QuietAfterSuccess
  <2>1. c.tag[1] \in Nat /\ call \in Nat /\ c.tag[1] <= call /\ tainted \in BOOLEAN
    BY InFlightType, CmdParts DEF IndInv, Own, OwnWindow, TypeOK
  <2>2. c.tag[1] # call
    BY DEF IndInv, Own, OwnWindow, OwnFlight
  <2>3. tainted
    BY <2>1 DEF IndInv, Data
  <2> QED BY <2>1, <2>2, <2>3
<1> QED BY <1>1, IndInvAlways, PTL

---------------------------------------------------------------------------
(* Refinement *)

\* Every step of the loop and of the device is a step of Q6Query or changes
\* nothing that Q6Query sees.
LEMMA StepRefines == IndInv /\ IndInv' /\ [Next]_vars => [Query!Next]_(Query!qvars)
<1> SUFFICES ASSUME IndInv, IndInv', [Next]_vars PROVE [Query!Next]_(Query!qvars)
  OBVIOUS
<1>1. TypeOK /\ Ring /\ TypeOK' /\ Ring'
  BY DEF IndInv
<1>2. CASE StartQuery
  <2>1. Query!Ask
    BY <1>1, <1>2 DEF StartQuery, Query!Ask, TypeOK
  <2> QED BY <2>1 DEF Query!Next
<1>3. CASE AddResult \/ Drain
  <2>1. pc # "idle" /\ pc' # "idle" /\ UNCHANGED <<call, total, status, tainted>>
    BY <1>3 DEF AddResult, Drain, dev
  <2>2. /\ Len(acc) \in Nat /\ Len(acc') = Len(acc) + 1 /\ acc' \in Seq(Tags)
        /\ \A i \in 1 .. Len(acc) : acc'[i] = acc[i]
    BY <1>1, <1>3 DEF AddResult, Drain, TypeOK
  <2>3. acc'[Len(acc')] \in Tags
    BY <2>2
  <2>4. ~tainted => acc'[Len(acc')] = <<call, Len(acc)>>
    <3>1. ~tainted => \A i \in 1 .. Len(acc') : acc'[i] = <<call, i - 1>>
      BY <2>1 DEF IndInv, Data, EachBlockOnce
    <3>2. Len(acc') \in 1 .. Len(acc') /\ Len(acc') - 1 = Len(acc)
      BY <2>2
    <3> QED BY <3>1, <3>2
  <2>5. Len(acc) < total
    <3>1. CASE AddResult
      <4>1. /\ Len(acc) = blkIdDone + k /\ k < NCOMPUTES /\ blkId = blkIdDone + NPIPES
            /\ blkId < total
        BY <1>1, <3>1 DEF AddResult, Ring, RingIndices, RingProgress, InLoop
      <4> QED BY <1>1, <4>1, SlotInRange DEF TypeOK
    <3>2. CASE Drain
      <4>1. Len(acc) = blkIdDone /\ blkIdDone < blkId /\ blkId <= total
        BY <1>1, <3>2 DEF Drain, TypeOK, Ring, RingIndices, RingProgress
      <4> QED BY <1>1, <4>1 DEF TypeOK
    <3> QED BY <1>3, <3>1, <3>2
  <2>6. Query!Add
    BY <2>1, <2>2, <2>3, <2>4, <2>5 DEF Query!Add
  <2> QED BY <2>6 DEF Query!Next
<1>4. CASE FillError \/ Return
  <2>1. /\ pc # "idle" /\ pc' = "idle" /\ UNCHANGED <<call, total, acc, tainted>>
        /\ status' \in IF Len(acc) = total THEN {"ok"} ELSE {"fail", "error"}
    <3>1. CASE FillError
      BY <1>1, <3>1, SlotInRange DEF FillError, dev, TypeOK, Ring, RingIndices, RingProgress, InLoop
    <3>2. CASE Return
      <4>1. Len(acc) = blkId /\ call > 0 /\ status \in {"ok", "fail"} /\ status' = status
        BY <1>1, <3>2 DEF Return, TypeOK, Ring, RingIndices, RingProgress
      <4>2. (status = "ok" => blkId = total) /\ (status = "fail" => blkId < total)
        BY <1>1, <3>2, <4>1 DEF Return, Ring, RingProgress
      <4>3. blkId \in Nat /\ total \in Nat
        BY <1>1 DEF TypeOK
      <4> QED BY <3>2, <4>1, <4>2, <4>3 DEF Return, dev
    <3> QED BY <1>4, <3>1, <3>2
  <2>2. Query!Answer
    BY <2>1 DEF Query!Answer
  <2> QED BY <2>2 DEF Query!Next
<1>5. CASE WaitHalf \/ HalfAdded \/ FillBegin \/ FillEnd \/ EnqWrite \/ EnqKernel \/ EnqRead \/ EnqFail
  <2>1. pc # "idle" /\ pc' # "idle" /\ UNCHANGED <<call, total, acc, tainted>>
    BY <1>5 DEF WaitHalf, HalfAdded, FillBegin, FillEnd, EnqWrite, EnqKernel, EnqRead, EnqFail, dev
  <2> QED BY <2>1 DEF Query!qvars
<1>6. CASE Device
  <2>1. CASE \E c \in pend : Abort(c)
    <3>1. UNCHANGED host /\ tainted' = TRUE
      BY <2>1 DEF Abort
    <3>2. Query!Spoil
      BY <3>1 DEF host, Query!Spoil
    <3> QED BY <3>2 DEF Query!Next
  <2>2. CASE (\E c \in pend : Start(c)) \/ (\E e \in exec : Finish(e))
    <3>1. UNCHANGED host /\ UNCHANGED tainted
      BY <2>2 DEF Start, Finish
    <3> QED BY <3>1 DEF host, Query!qvars
  <2> QED BY <1>6, <2>1, <2>2 DEF Device
<1>7. CASE UNCHANGED vars
  BY <1>7 DEF vars, host, dev, Query!qvars
<1> QED BY <1>2, <1>3, <1>4, <1>5, <1>6, <1>7 DEF Next, Host

\* The pipelined, out-of-order offload loop (xql6.c:180-290 over
\* fpga_q6.c:109-155) implements the sequential sum over blocks of Q6Query.
THEOREM LoopImplementsQuery == Spec => ImplementsQuery
<1>1. Init => Query!Init
  BY DEF Init, Query!Init
<1> QED BY <1>1, StepRefines, IndInvAlways, PTL DEF Spec, ImplementsQuery, Query!Spec

===========================================================================
