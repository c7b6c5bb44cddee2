---------------------------- MODULE Q6P2PProofs ----------------------------
(***************************************************************************)
(* Proofs about Q6P2P for every ring, block and segment size, every        *)
(* relation and every fault: which blocks are in flight, where the read    *)
(* ends, and which pages the results that are added stand for.             *)
(***************************************************************************)
EXTENDS Q6P2P, RingArith

Running == pc \notin {"idle", "dead"}

USE DEF Cmd, Running

Working == {"loop", "sum", "fill", "reading", "enqueue"}

\* The blocks enqueued whose results have not been added.
InFlight == blkIdDone .. blkId - 1

\* The loop stops at the first block that is not filled, and never computes a page
\* number beyond 2 GB in a build where the product wraps around.
Sized ==
  /\ nPages \in 0 .. MaxPages
  /\ pc \in Working \ {"enqueue"} => bRealPages
  /\ pc \in Working => blkId * BLK_PAGES <= nPages
  /\ pc \in Working /\ wraps => blkId * BLK_PAGES <= INT_PAGES
  /\ pc = "enqueue" /\ wraps => blkId * BLK_PAGES < INT_PAGES
  /\ pc = "enqueue" /\ bRealPages => (blkId + 1) * BLK_PAGES <= nPages
  /\ pc = "enqueue" /\ ~bRealPages /\ ~lost => nPages < (blkId + 1) * BLK_PAGES

\* Never more blocks in flight than the ring has slots.  Results are read back by
\* half rings, and behind the first one the loop is at most half a ring ahead.
Ring ==
  /\ Running => blkIdDone <= blkId /\ blkId <= blkIdDone + NPIPES
  /\ pc \in Working => blkIdDone % NCOMPUTES = 0
  /\ pc = "loop" => blkIdDone = 0 \/ blkIdDone + NCOMPUTES < blkId
  /\ pc = "sum" => blkId = blkIdDone + NPIPES /\ blkId % NCOMPUTES = 0 /\ k < NCOMPUTES
  /\ pc \in {"fill", "reading", "enqueue"} =>
       /\ blkId < blkIdDone + NPIPES
       /\ blkIdDone = 0 \/ blkIdDone + NCOMPUTES <= blkId

\* Commands of other queries are of earlier ones, and there are none if the query
\* found the queue empty.  Its own unfinished commands are of blocks in flight, but
\* for the kernel of an enqueue that failed; a kernel's migration is behind it; the
\* slot's event is the block's.
Pending ==
  /\ \A c \in pend : c.query <= call /\ (~tainted => c.query = call)
  /\ Running =>
       /\ \A c \in pend : c.query = call =>
            \/ c.blk \in InFlight
            \/ /\ pc \in {"close", "drain"} /\ c = Cmd("nd", blkId)
               /\ blkId < blkIdDone + NPIPES
       /\ \A n \in InFlight : Cmd("nd", n) \in pend => Cmd("rd", n) \in pend
       /\ \A n \in InFlight : rdEvent[Slot(n)] = Cmd("rd", n)
  /\ pc = "sum" => \A i \in 0 .. NCOMPUTES - 1 : Cmd("rd", blkIdDone + i) \notin pend

Window == TypeOK /\ Sized /\ Ring /\ Pending

\* A buffer or a result stands for block n: page by page for what the relation has
\* there or, if a read has failed, for nothing or for a page that was overwritten.
Good(n, b) ==
  \A q \in Offsets : \/ b[q] = Expected(n)[q]
                     \/ lost /\ b[q] \in {Zero, Torn(Expected(n)[q])}

\* Along its way a block is not overwritten: its pages are in the device buffer, and
\* behind the kernel and the migration the result words stand for them.
Blocks ==
  ~tainted /\ Running =>
    /\ \A n \in InFlight : Good(n, pInp[Slot(n)])
    /\ pc = "enqueue" => Good(blkId, pInp[Slot(blkId)])
    /\ \A n \in InFlight : Cmd("nd", n) \notin pend => Good(n, devOut[Slot(n)])
    /\ \A n \in InFlight : Cmd("rd", n) \notin pend => Good(n, pOut[Slot(n)])

\* The results added are those of the blocks before the ones in flight, in order.
Added ==
  ~tainted =>
    /\ \A i \in 1 .. Len(acc) : Good(i - 1, acc[i])
    /\ pc \in {"loop", "fill", "reading", "enqueue", "close", "drain"} => Len(acc) = blkIdDone
    /\ pc = "sum" => Len(acc) = blkIdDone + k
    /\ pc \in {"close", "drain"} /\ status = "ok" /\ ~lost => blkId = (nPages \div BLK_PAGES) + 1
    /\ pc = "idle" /\ call > 0 /\ status = "ok" /\ ~lost => Len(acc) = (nPages \div BLK_PAGES) + 1

IInv == Window /\ Blocks /\ Added

---------------------------------------------------------------------------
(* Slots, sizes and pages *)

\* A block of n full blocks of pages before it is no further than the file says.
LEMMA BlockBound ==
  ASSUME NEW B \in Nat \ {0}, NEW n \in Nat, NEW m \in Nat, n * B <= m
  PROVE  n <= m \div B
<1> DEFINE q == m \div B
<1> DEFINE r == m % B
<1>1. q \in Int /\ r \in 0 .. B - 1 /\ m = B * q + r
  BY DivMod
<1> HIDE DEF q, r
<1>2. ~ (n - q >= 1)
  <2> SUFFICES ASSUME n - q >= 1 PROVE FALSE
    OBVIOUS
  <2>1. B * (n - q) >= B
    BY <1>1, MultipleBound
  <2>2. B * (n - q) = n * B - B * q
    BY <1>1, Z3
  <2> QED BY <1>1, <2>1, <2>2
<1> QED BY <1>1, <1>2 DEF q

\* The block a page lies in.
LEMMA BlockOf ==
  ASSUME NEW B \in Nat \ {0}, NEW n \in Nat, NEW m \in Nat, n * B <= m, m < (n + 1) * B
  PROVE  m \div B = n
<1> DEFINE r == m - n * B
<1>1. r \in 0 .. B - 1 /\ m = B * n + r
  BY Z3
<1> HIDE DEF r
<1> QED BY <1>1, ModIs

\* The ring has slots.
LEMMA RingSize == NPIPES \in Nat \ {0} /\ NPIPES = 2 * NCOMPUTES /\ NCOMPUTES \in Nat \ {0}
BY P2PAssumption DEF NPIPES

\* blkId % NPIPES is a slot.
LEMMA SlotType == ASSUME NEW n \in Int PROVE Slot(n) \in Slots
BY RingSize, DivMod DEF Slot, Slots

\* Blocks less than a ring apart have slots of their own.
LEMMA SlotOwn ==
  ASSUME NEW d \in Int, NEW a \in d .. d + NPIPES - 1, NEW b \in d .. d + NPIPES - 1,
         Slot(a) = Slot(b)
  PROVE  a = b
BY RingSize, SlotsDistinct DEF Slot

\* Half a ring or a ring behind a boundary of halves there is another one.
LEMMA NextHalf ==
  ASSUME NEW a \in Nat, a % NCOMPUTES = 0
  PROVE  (a + NCOMPUTES) % NCOMPUTES = 0 /\ (a + NPIPES) % NCOMPUTES = 0
<1>1. NCOMPUTES \in Nat \ {0} /\ a \in Int
  BY RingSize
<1>2. (a + NCOMPUTES) % NCOMPUTES = 0 /\ (a + 2 * NCOMPUTES) % NCOMPUTES = 0
  BY <1>1, MultipleShift
<1> QED BY <1>2, RingSize

\* The half that is read back is the older one.
LEMMA HalfIsOldest ==
  ASSUME TypeOK, blkId = blkIdDone + NPIPES, blkIdDone % NCOMPUTES = 0,
         NEW i \in 0 .. NCOMPUTES - 1
  PROVE  Half * NCOMPUTES + i = Slot(blkIdDone + i)
<1>1. blkIdDone \in Nat /\ blkId - NPIPES = blkIdDone
  BY RingSize DEF TypeOK
<1>2. ((blkIdDone \div NCOMPUTES) % 2) * NCOMPUTES + i = (blkIdDone + i) % (2 * NCOMPUTES)
  BY <1>1, RingSize, HalfSlot
<1> QED BY <1>1, <1>2, RingSize DEF Half, Slot

\* When a read-back is due the ring is full.
LEMMA DueIsFull ==
  ASSUME TypeOK, Ring, pc = "loop", ReadBackDue
  PROVE  blkId = blkIdDone + NPIPES /\ blkId % NCOMPUTES = 0
<1>1. blkId \in Int /\ blkIdDone \in Int
  BY DEF TypeOK
<1>2. CASE blkIdDone = 0
  BY <1>1, <1>2, RingSize DEF Ring, ReadBackDue
<1>3. CASE blkIdDone + NCOMPUTES < blkId
  BY <1>1, <1>3, RingSize, MultipleInWindow DEF Ring, ReadBackDue, Working
<1> QED BY <1>2, <1>3 DEF Ring

\* Where a page number is computed it is the one meant, and the read finds there
\* what the relation has of the block.
LEMMA PageMeant ==
  ASSUME Window, pc = "reading", SegmentExists(pgblk)
  PROVE  /\ pgblk = blkId * BLK_PAGES /\ pgblk \in 0 .. nPages
         /\ wraps => pgblk < INT_PAGES
         /\ Filled(pgblk) = Expected(blkId)
         /\ MorePages(pgblk) <=> pgblk + BLK_PAGES <= nPages
<1> DEFINE page == blkId * BLK_PAGES
<1>1. blkId \in Nat /\ BLK_PAGES \in Nat \ {0} /\ INT_PAGES \in Nat \ {0} /\ nPages \in Nat
  BY P2PAssumption DEF Window, TypeOK, Sized
<1>2. page \in 0 .. nPages
  BY <1>1, Z3 DEF Window, Sized, Working
<1>3. wraps => page <= INT_PAGES
  BY DEF Window, Sized, Working
<1>4. pgblk = IF ~wraps THEN page
              ELSE IF page % (2 * INT_PAGES) < INT_PAGES THEN page % (2 * INT_PAGES) ELSE NoBlock
  BY DEF pgblk
<1>5. pgblk # NoBlock
  BY DEF SegmentExists
<1> HIDE DEF page
<1>6. wraps => page % (2 * INT_PAGES) = page
  <2> DEFINE M == 2 * INT_PAGES
  <2>1. wraps => M \in Nat \ {0} /\ page \in 0 .. M - 1
    BY <1>1, <1>2, <1>3
  <2> HIDE DEF M
  <2>2. wraps => (M * 0 + page) % M = page
    BY <2>1, ModIs
  <2>3. wraps => M * 0 + page = page
    BY <1>2, <2>1
  <2> QED BY <2>2, <2>3 DEF M
<1>7. pgblk = page /\ (wraps => pgblk < INT_PAGES)
  BY <1>1, <1>2, <1>4, <1>5, <1>6 DEF Window, TypeOK
<1>8. Filled(page) = Expected(blkId)
  BY <1>1, <1>2 DEF Filled, Expected, rdcnt, Offsets, page
<1>9. MorePages(page) <=> page + BLK_PAGES <= nPages
  BY <1>1, <1>2 DEF MorePages, rdcnt
<1> QED BY <1>2, <1>7, <1>8, <1>9 DEF page

\* A block of the relation, an empty one and one with its last page overwritten are
\* contents a buffer can have.
LEMMA ExpectedType ==
  ASSUME Window, NEW n \in Nat
  PROVE  Expected(n) \in Block
<1>1. nPages \in 0 .. MaxPages /\ BLK_PAGES \in Nat /\ MaxPages \in Nat /\ call \in 0 .. MaxCalls
  BY P2PAssumption DEF Window, Sized, TypeOK
<1>2. n * BLK_PAGES \in Nat
  BY <1>1, Z3
<1>3. Zero \in PageSet
  BY P2PAssumption DEF Zero, PageSet
<1>4. \A q \in Offsets : n * BLK_PAGES + q < nPages => Page(n * BLK_PAGES + q) \in PageSet
  BY <1>1, <1>2 DEF Page, PageSet, Offsets
<1> QED BY <1>3, <1>4 DEF Expected, Block

LEMMA ZeroType == Zero \in PageSet /\ ZeroBlock \in Block
BY P2PAssumption DEF ZeroBlock, Block, PageSet, Zero

LEMMA TornType ==
  /\ \A p \in PageSet : Torn(p) \in PageSet /\ Torn(Torn(p)) = Torn(p) /\ Torn(Zero) = Zero
  /\ \A b \in Block : /\ TornBlock(b) \in Block
                      /\ \A q \in Offsets : TornBlock(b)[q] \in {b[q], Torn(b[q])}
<1>1. \A p \in PageSet : Torn(p) \in PageSet /\ Torn(Torn(p)) = Torn(p) /\ Torn(Zero) = Zero
  BY DEF Torn, Zero, PageSet
<1>2. ASSUME NEW b \in Block
      PROVE  TornBlock(b) \in Block /\ \A q \in Offsets : TornBlock(b)[q] \in {b[q], Torn(b[q])}
  BY <1>1, <1>2 DEF TornBlock, Block
<1> QED BY <1>1, <1>2

\* A command is its kind, its query and its block.
LEMMA CmdParts ==
  /\ \A o, p, q, r, n, m : Command(o, q, n) = Command(p, r, m) => o = p /\ q = r /\ n = m
  /\ \A o, q, n : /\ Command(o, q, n).op = o /\ Command(o, q, n).query = q
                  /\ Command(o, q, n).blk = n
  /\ \A c \in Cmds : /\ c = Command(c.op, c.query, c.blk) /\ c.op \in {"nd", "rd"}
                     /\ c.query \in 0 .. MaxCalls /\ c.blk \in 0 .. MaxBlk
  /\ \A o \in {"nd", "rd"}, q \in 0 .. MaxCalls, n \in 0 .. MaxBlk : Command(o, q, n) \in Cmds
<1>1. \A o, q, n : /\ Command(o, q, n).op = o /\ Command(o, q, n).query = q
                  /\ Command(o, q, n).blk = n
  BY DEF Command
<1>2. \A o, p, q, r, n, m : Command(o, q, n) = Command(p, r, m) => o = p /\ q = r /\ n = m
  BY <1>1
<1> QED BY <1>1, <1>2 DEF Command, Cmds

\* The bound on block numbers is a number.
LEMMA MaxBlkType == MaxBlk \in Nat /\ 1 <= MaxBlk /\ MaxBlk = (MaxPages \div BLK_PAGES) + 1
<1>1. BLK_PAGES \in Nat \ {0} /\ MaxPages \in Nat
  BY P2PAssumption
<1>2. 0 <= MaxPages \div BLK_PAGES
  BY <1>1, BlockBound
<1>3. MaxPages \div BLK_PAGES \in Int
  BY <1>1, DivMod
<1> QED BY <1>2, <1>3 DEF MaxBlk

---------------------------------------------------------------------------
(* Which blocks are in flight *)

\* The ring is empty when a query starts.
LEMMA StartWindow == Window /\ StartQuery => Window'
<1> SUFFICES ASSUME Window, StartQuery PROVE Window'
  OBVIOUS
<1> USE DEF Window, StartQuery, mem
<1>1. TypeOK'
  <2>1. tainted' \in BOOLEAN /\ bRealPages' \in BOOLEAN /\ direct' \in BOOLEAN /\ lost' \in BOOLEAN
    BY Zenon
  <2>2. blkId' \in 0 .. MaxBlk /\ blkIdDone' \in 0 .. MaxBlk /\ call' \in 0 .. MaxCalls
    BY MaxBlkType, P2PAssumption DEF TypeOK
  <2>3. acc' \in Seq(Block)
    OBVIOUS
  <2> QED BY <2>1, <2>2, <2>3 DEF TypeOK
<1>2. BLK_PAGES \in Nat /\ INT_PAGES \in Nat /\ 0 * BLK_PAGES = 0
  BY P2PAssumption
<1>3. Sized'
  BY <1>2 DEF Sized, Working
<1>4. 0 % NCOMPUTES = 0
  BY RingSize, ModIs
<1>5. Ring'
  BY <1>4, RingSize DEF Ring, Working
<1>6. \A c \in pend : c.query \in Int /\ c.query <= call /\ call \in Int
  BY CmdParts DEF Pending, TypeOK
<1>7. ~tainted' => pend' = {}
  BY Zenon
<1>8. Pending'
  BY <1>6, <1>7 DEF Pending, InFlight, Working
<1> QED BY <1>1, <1>3, <1>5, <1>8

\* The wait for half a ring ends with the older half of the results there.
LEMMA WaitWindow == Window /\ WaitHalf => Window'
<1> SUFFICES ASSUME Window, WaitHalf PROVE Window'
  OBVIOUS
<1> USE DEF Window, WaitHalf, mem, file
<1>1. blkId = blkIdDone + NPIPES /\ blkId % NCOMPUTES = 0
  BY DueIsFull
<1>2. TypeOK'
  BY RingSize DEF TypeOK
<1>3. Sized'
  BY DEF Sized, Working
<1>4. Ring'
  BY <1>1, RingSize DEF Ring, Working
<1>5. \A i \in 0 .. NCOMPUTES - 1 : Cmd("rd", blkIdDone + i) \notin pend
  <2> SUFFICES ASSUME NEW i \in 0 .. NCOMPUTES - 1 PROVE Cmd("rd", blkIdDone + i) \notin pend
    OBVIOUS
  <2>1. Half * NCOMPUTES + i = Slot(blkIdDone + i)
    BY <1>1, HalfIsOldest DEF Ring, Working
  <2>2. blkIdDone + i \in InFlight
    BY <1>1, RingSize DEF InFlight, TypeOK
  <2>3. rdEvent[Slot(blkIdDone + i)] = Cmd("rd", blkIdDone + i)
    BY <2>2 DEF Pending
  <2> QED BY <2>1, <2>3
<1>6. Pending'
  BY <1>5 DEF Pending, InFlight, Working
<1> QED BY <1>2, <1>3, <1>4, <1>6

\* Only after the last result of the half its blocks are no longer in flight.
LEMMA AddWindow == Window /\ AddResult => Window'
<1> SUFFICES ASSUME Window, AddResult PROVE Window'
  OBVIOUS
<1> USE DEF Window, AddResult, mem, file
<1>0. /\ k \in 0 .. NCOMPUTES - 1 /\ blkId = blkIdDone + NPIPES /\ blkIdDone \in Nat
      /\ blkId \in 0 .. MaxBlk /\ blkIdDone % NCOMPUTES = 0
  BY RingSize DEF TypeOK, Ring, Working
<1>1. Half * NCOMPUTES + k \in Slots
  BY <1>0, HalfIsOldest, SlotType
<1>2. TypeOK'
  <2>1. blkIdDone' \in 0 .. MaxBlk /\ k' \in 0 .. NCOMPUTES
    BY <1>0, RingSize, MaxBlkType DEF TypeOK
  <2>2. pOut[Half * NCOMPUTES + k] \in Block
    BY <1>1 DEF TypeOK
  <2>3. acc' \in Seq(Block)
    BY <2>2 DEF TypeOK
  <2>4. pc' \in {"sum", "fill"}
    OBVIOUS
  <2> QED BY <2>1, <2>3, <2>4 DEF TypeOK
<1>3. Sized'
  BY DEF Sized, Working
<1>4. CASE k + 1 < NCOMPUTES
  <2>1. Ring'
    BY <1>0, <1>4, RingSize DEF Ring, Working
  <2>2. Pending'
    BY <1>4 DEF Pending, InFlight, Working
  <2> QED BY <1>2, <1>3, <2>1, <2>2
<1>5. CASE ~(k + 1 < NCOMPUTES)
  <2>1. pc' = "fill" /\ blkIdDone' = blkIdDone + NCOMPUTES
    BY <1>0, <1>5, RingSize
  <2>2. blkIdDone' % NCOMPUTES = 0
    BY <1>0, <2>1, NextHalf
  <2>3. Ring'
    BY <1>0, <2>1, <2>2, RingSize DEF Ring, Working
  <2>4. \A c \in pend : c.query = call => c.blk \in InFlight'
    <3> SUFFICES ASSUME NEW c \in pend, c.query = call, c.blk \notin InFlight' PROVE FALSE
      OBVIOUS
    <3>1. c.blk \in InFlight
      BY DEF Pending
    <3>2. c.blk \in Int /\ c.blk - blkIdDone \in 0 .. NCOMPUTES - 1
      BY <1>0, <2>1, <3>1, RingSize DEF InFlight
    <3>3. Cmd("rd", blkIdDone + (c.blk - blkIdDone)) \notin pend
      BY <3>2 DEF Pending
    <3>4. Cmd("rd", c.blk) \notin pend
      BY <1>0, <3>2, <3>3
    <3>5. c = Command(c.op, call, c.blk) /\ c.op \in {"nd", "rd"}
      BY CmdParts DEF TypeOK
    <3> QED BY <3>1, <3>4, <3>5 DEF Pending
  <2>5. InFlight' \subseteq InFlight
    BY <1>0, <2>1, RingSize DEF InFlight
  <2>6. Pending'
    BY <2>1, <2>4, <2>5 DEF Pending, Working
  <2> QED BY <1>2, <1>3, <2>3, <2>6
<1> QED BY <1>4, <1>5

\* A read begins only with a slot free.
LEMMA BeginWindow == Window /\ ReadBegin => Window'
<1> SUFFICES ASSUME Window, ReadBegin PROVE Window'
  OBVIOUS
<1> USE DEF Window, ReadBegin, mem, file
<1>1. TypeOK'
  BY DEF TypeOK
<1>2. Sized'
  BY DEF Sized, Working
<1>3. blkId < blkIdDone + NPIPES
  <2>1. CASE pc = "fill"
    BY <2>1 DEF Ring
  <2>2. CASE pc = "loop" /\ ~ReadBackDue
    <3> SUFFICES ASSUME blkId = blkIdDone + NPIPES PROVE FALSE
      BY <2>2, RingSize DEF Ring, TypeOK
    <3>1. blkIdDone \in Nat /\ blkIdDone % NCOMPUTES = 0 /\ blkId >= NPIPES
      BY <2>2, RingSize DEF Ring, TypeOK, Working
    <3>2. blkId % NCOMPUTES = 0
      BY <3>1, NextHalf
    <3> QED BY <2>2, <3>1, <3>2 DEF ReadBackDue
  <2> QED BY <2>1, <2>2
<1>4. Ring'
  BY <1>3, RingSize DEF Ring, Working, TypeOK
<1>5. Pending'
  BY DEF Pending, InFlight, Working
<1> QED BY <1>1, <1>2, <1>4, <1>5

\* The read, whole or short, leaves the ring as it is and settles whether there
\* are more pages.
LEMMA ReadWindow == Window /\ ReadEnd => Window'
<1> SUFFICES ASSUME Window, ReadEnd PROVE Window'
  OBVIOUS
<1> USE DEF Window, ReadEnd, file
<1>1. /\ pgblk = blkId * BLK_PAGES /\ pgblk \in 0 .. nPages
      /\ wraps => pgblk < INT_PAGES
      /\ Filled(pgblk) = Expected(blkId)
      /\ MorePages(pgblk) <=> pgblk + BLK_PAGES <= nPages
  BY PageMeant
<1>2. blkId \in Nat /\ BLK_PAGES \in Nat /\ nPages \in Nat
  BY P2PAssumption DEF TypeOK, Sized
<1>3. (blkId + 1) * BLK_PAGES = pgblk + BLK_PAGES
  BY <1>1, <1>2, Z3
<1>4. TypeOK'
  BY <1>1, <1>2, ExpectedType, SlotType DEF TypeOK, MorePages
<1>5. Sized'
  BY <1>1, <1>2, <1>3 DEF Sized, Working
<1>6. Ring'
  BY DEF Ring, Working
<1>7. Pending'
  BY DEF Pending, InFlight, Working
<1> QED BY <1>4, <1>5, <1>6, <1>7

\* Neither does a read that fails.
LEMMA ReadFailsWindow == Window /\ ReadFails => Window'
<1> SUFFICES ASSUME Window, ReadFails PROVE Window'
  OBVIOUS
<1> USE DEF Window, ReadFails
<1>1. pgblk = blkId * BLK_PAGES /\ pgblk \in 0 .. nPages /\ (wraps => pgblk < INT_PAGES)
  BY PageMeant
<1>2. blkId \in Nat
  BY DEF TypeOK
<1>3. TypeOK'
  <2>1. pInp' \in [Slots -> Block]
    BY ZeroType, TornType DEF TypeOK
  <2> QED BY <2>1 DEF TypeOK
<1>4. Sized'
  BY <1>1 DEF Sized, Working
<1>5. Ring'
  BY DEF Ring, Working
<1>6. Pending'
  BY DEF Pending, InFlight, Working
<1> QED BY <1>3, <1>4, <1>5, <1>6

\* An error leaves the function, a crash ends the backend.
LEMMA NoSegmentWindow == Window /\ (NoSegment \/ ReadCrashes) => Window'
BY DEF Window, NoSegment, ReadCrashes, mem, file, TypeOK, Sized, Ring, Pending, Working

\* Where a block is enqueued it is one the relation can have.
LEMMA EnqueuedBlock ==
  ASSUME Window, pc = "enqueue"
  PROVE  blkId \in Nat /\ blkId + 1 \in 0 .. MaxBlk
<1>1. /\ blkId \in Nat /\ BLK_PAGES \in Nat \ {0} /\ MaxPages \in Nat
      /\ blkId * BLK_PAGES \in Int /\ blkId * BLK_PAGES <= MaxPages
  <2>1. blkId \in Nat /\ BLK_PAGES \in Nat \ {0} /\ MaxPages \in Nat
    BY P2PAssumption DEF Window, TypeOK
  <2>2. blkId * BLK_PAGES \in Int
    BY <2>1, Z3
  <2> QED BY <2>1, <2>2 DEF Window, Sized, Working
<1>2. blkId <= MaxPages \div BLK_PAGES
  BY <1>1, BlockBound
<1> QED BY <1>1, <1>2, MaxBlkType

\* The block's commands and its event take a slot that was free.
LEMMA EnqueueWindow == Window /\ Enqueue => Window'
<1> SUFFICES ASSUME Window, Enqueue PROVE Window'
  OBVIOUS
<1> USE DEF Window, Enqueue, mem, file
<1>0. /\ blkId \in Nat /\ blkId + 1 \in 0 .. MaxBlk /\ blkId \in 0 .. MaxBlk
      /\ blkIdDone \in Nat /\ blkIdDone <= blkId /\ blkId < blkIdDone + NPIPES
  BY EnqueuedBlock DEF TypeOK, Ring
<1>1. Cmd("nd", blkId) \in Cmds /\ Cmd("rd", blkId) \in Cmds
  BY <1>0, CmdParts DEF TypeOK
<1>2. TypeOK'
  BY <1>0, <1>1, SlotType DEF TypeOK
<1>3. Sized'
  <2>1. BLK_PAGES \in Nat \ {0} /\ INT_PAGES \in Nat \ {0} /\ INT_PAGES % BLK_PAGES = 0
    BY P2PAssumption
  <2>2. wraps => (blkId + 1) * BLK_PAGES <= INT_PAGES
    BY <1>0, <2>1, NextMultiple DEF Sized
  <2> QED BY <2>2 DEF Sized, Working
<1>4. Ring'
  BY <1>0, RingSize DEF Ring, Working
<1>5. InFlight' = InFlight \cup {blkId}
  BY <1>0 DEF InFlight
<1>6. /\ \A c \in pend' : c.query = call => c.blk \in InFlight'
      /\ \A c \in pend' : c.query <= call /\ (~tainted => c.query = call)
  BY <1>5, CmdParts DEF Pending, TypeOK
<1>7. \A n \in InFlight' : Cmd("nd", n) \in pend' => Cmd("rd", n) \in pend'
  <2> SUFFICES ASSUME NEW n \in InFlight', Cmd("nd", n) \in pend' PROVE Cmd("rd", n) \in pend'
    OBVIOUS
  <2>1. CASE n = blkId
    BY <2>1
  <2>2. CASE n # blkId
    <3>1. n \in InFlight /\ n \in Int
      BY <1>5, <2>2 DEF InFlight
    <3>2. Cmd("nd", n) \in pend
      BY <1>0, <2>2, <3>1, CmdParts
    <3> QED BY <3>1, <3>2 DEF Pending
  <2> QED BY <2>1, <2>2
<1>8. \A n \in InFlight' : rdEvent'[Slot(n)] = Cmd("rd", n)
  <2> SUFFICES ASSUME NEW n \in InFlight' PROVE rdEvent'[Slot(n)] = Cmd("rd", n)
    OBVIOUS
  <2>1. CASE n = blkId
    BY <1>0, <2>1, SlotType DEF TypeOK
  <2>2. CASE n # blkId
    <3>1. n \in InFlight /\ n \in Int /\ n \in blkIdDone .. blkIdDone + NPIPES - 1
      BY <1>0, <1>5, <2>2, RingSize DEF InFlight
    <3>2. blkId \in blkIdDone .. blkIdDone + NPIPES - 1 /\ blkIdDone \in Int
      BY <1>0, RingSize
    <3>3. Slot(n) # Slot(blkId)
      BY <2>2, <3>1, <3>2, SlotOwn
    <3> QED BY <3>1, <3>3, SlotType DEF TypeOK, Pending
  <2> QED BY <2>1, <2>2
<1>9. Pending'
  BY <1>6, <1>7, <1>8 DEF Pending, Working
<1> QED BY <1>2, <1>3, <1>4, <1>9

\* A failed enqueue may leave the kernel of the block on the queue.
LEMMA EnqueueFailsWindow == Window /\ EnqueueFails => Window'
<1> SUFFICES ASSUME Window, EnqueueFails PROVE Window'
  OBVIOUS
<1> USE DEF Window, EnqueueFails, mem, file
<1>1. blkId \in 0 .. MaxBlk /\ blkId < blkIdDone + NPIPES /\ blkId \in Int
  BY DEF TypeOK, Ring
<1>2. Cmd("nd", blkId) \in Cmds
  BY <1>1, CmdParts DEF TypeOK
<1>3. TypeOK'
  BY <1>2 DEF TypeOK
<1>4. Sized'
  BY DEF Sized, Working
<1>5. Ring'
  BY DEF Ring, Working
<1>6. \A n \in InFlight' : Cmd("nd", n) \in pend' => Cmd("rd", n) \in pend'
  <2> SUFFICES ASSUME NEW n \in InFlight, Cmd("nd", n) \in pend' PROVE Cmd("rd", n) \in pend'
    BY DEF InFlight
  <2>1. n \in Int /\ n # blkId
    BY <1>1 DEF InFlight, TypeOK
  <2>2. Cmd("nd", n) \in pend
    BY <1>1, <2>1, CmdParts
  <2> QED BY <2>2 DEF Pending
<1>7. \A c \in pend' : c \in pend \/ (c = Cmd("nd", blkId) /\ c.query = call)
  BY CmdParts
<1>8. call \in Int
  BY DEF TypeOK
<1>9. Pending'
  BY <1>1, <1>6, <1>7, <1>8 DEF Pending, InFlight, Working
<1> QED BY <1>3, <1>4, <1>5, <1>9

\* Closing the file and returning change no block.
LEMMA EndWindow == Window /\ (Close \/ Return) => Window'
<1> SUFFICES ASSUME Window, Close \/ Return PROVE Window'
  OBVIOUS
<1> USE DEF Window, Close, Return, mem, file
<1>1. TypeOK'
  BY DEF TypeOK
<1>2. Sized'
  BY DEF Sized, Working
<1>3. Ring'
  BY DEF Ring, Working
<1>4. Pending'
  BY DEF Pending, InFlight, Working
<1> QED BY <1>1, <1>2, <1>3, <1>4

\* The oldest block leaves the ring once its migration is complete.
LEMMA DrainWindow == Window /\ Drain => Window'
<1> SUFFICES ASSUME Window, Drain PROVE Window'
  OBVIOUS
<1> USE DEF Window, Drain, mem, file
<1>0. blkIdDone \in Nat /\ blkId \in 0 .. MaxBlk /\ blkIdDone < blkId /\ blkIdDone \in InFlight
  BY DEF TypeOK, InFlight
<1>1. TypeOK'
  <2>1. pOut[Slot(blkIdDone)] \in Block
    BY <1>0, SlotType DEF TypeOK
  <2> QED BY <1>0, <2>1, MaxBlkType DEF TypeOK
<1>2. Sized'
  BY DEF Sized, Working
<1>3. Ring'
  BY <1>0, RingSize DEF Ring, Working
<1>4. InFlight' = InFlight \ {blkIdDone}
  BY <1>0 DEF InFlight
<1>5. Cmd("rd", blkIdDone) \notin pend /\ Cmd("nd", blkIdDone) \notin pend
  BY <1>0 DEF Pending
<1>6. \A c \in pend : c.query = call => c.blk # blkIdDone
  BY <1>5, CmdParts DEF TypeOK
<1>7. blkId < blkIdDone + NPIPES => blkId < blkIdDone' + NPIPES
  BY <1>0, RingSize
<1>8. Pending'
  BY <1>4, <1>6, <1>7 DEF Pending, Working
<1> QED BY <1>1, <1>2, <1>3, <1>8

\* A command that completes leaves the queue, a kernel before its migration.
LEMMA DeviceWindow == Window /\ Device => Window'
<1> SUFFICES ASSUME Window, NEW c \in pend, RunKernel(c) \/ RunMigration(c) PROVE Window'
  BY DEF Device
<1> USE DEF Window, RunKernel, RunMigration, host, file
<1>0. c \in Cmds /\ c.blk \in Int /\ c = Command(c.op, c.query, c.blk)
  BY CmdParts DEF TypeOK
<1>1. TypeOK'
  BY <1>0, SlotType DEF TypeOK
<1>2. Sized'
  BY DEF Sized
<1>3. Ring'
  BY DEF Ring
<1>4. pend' = pend \ {c} /\ InFlight' = InFlight
  BY DEF InFlight
<1>5. Running => \A m \in InFlight : Cmd("nd", m) \in pend' => Cmd("rd", m) \in pend'
  <2> SUFFICES ASSUME Running, NEW m \in InFlight, Cmd("nd", m) \in pend'
               PROVE  Cmd("rd", m) \in pend'
    OBVIOUS
  <2>1. Cmd("nd", m) \in pend /\ Cmd("rd", m) \in pend
    BY DEF Pending
  <2>2. c # Cmd("rd", m)
    BY <1>0, <2>1, CmdParts
  <2> QED BY <1>4, <2>1, <2>2
<1>6. Pending'
  BY <1>4, <1>5 DEF Pending
<1> QED BY <1>1, <1>2, <1>3, <1>6

\* Which blocks are in flight, for every size and every fault.
THEOREM WindowInv == Spec => []Window
<1>1. Init => Window
  <2> SUFFICES ASSUME Init PROVE Window
    OBVIOUS
  <2>1. Command("rd", 0, 0) \in Cmds
    BY CmdParts, MaxBlkType, P2PAssumption
  <2>2. ZeroBlock \in Block
    BY ZeroType
  <2>3. TypeOK
    <3>1. blkId \in 0 .. MaxBlk /\ blkIdDone \in 0 .. MaxBlk /\ k \in 0 .. NCOMPUTES
      BY MaxBlkType, RingSize DEF Init
    <3>2. rdEvent \in [Slots -> Cmds] /\ pend \subseteq Cmds
      BY <2>1 DEF Init
    <3>3. pInp \in [Slots -> Block] /\ devOut \in [Slots -> Block] /\ pOut \in [Slots -> Block]
      BY <2>2 DEF Init
    <3>4. acc \in Seq(Block)
      BY DEF Init
    <3>5. /\ bRealPages \in BOOLEAN /\ direct \in BOOLEAN /\ lost \in BOOLEAN /\ wraps \in BOOLEAN
          /\ pc = "idle" /\ status = "ok" /\ call = 0 /\ tainted \in BOOLEAN
      BY Zenon DEF Init
    <3>6. call \in 0 .. MaxCalls
      BY P2PAssumption DEF Init
    <3> QED BY <3>1, <3>2, <3>3, <3>4, <3>5, <3>6 DEF TypeOK
  <2> QED BY <2>3, P2PAssumption DEF Init, Window, Sized, Ring, Pending, Working
<1>2. Window /\ [Next]_vars => Window'
  <2> SUFFICES ASSUME Window, [Next]_vars PROVE Window'
    OBVIOUS
  <2>1. CASE Host
    BY <2>1, WaitWindow, AddWindow, BeginWindow, ReadWindow, NoSegmentWindow, EnqueueWindow,
       EndWindow, DrainWindow DEF Host
  <2>2. CASE UNCHANGED vars
    BY <2>2 DEF vars, host, file, mem, Window, TypeOK, Sized, Ring, Pending, InFlight
  <2> QED BY <2>1, <2>2, StartWindow, ReadFailsWindow, NoSegmentWindow, EnqueueFailsWindow,
         DeviceWindow DEF Next
<1> QED BY <1>1, <1>2, PTL DEF Spec

\* Every variable keeps its type: in particular the loop ends at the last block the
\* relation has, whatever its size, and whether or not the int product wraps.
THEOREM TypeCorrect == Spec => []TypeOK
<1>1. Window => TypeOK
  BY DEF Window
<1> QED BY <1>1, WindowInv, PTL

\* No read into a device buffer overtakes a kernel of its own query, and none of any
\* query if the queue was empty at the start, for every size of the ring and every
\* sequence of queries.
THEOREM ReadSafe == Spec => []ReadOwnsSlot
<1>1. Window => ReadOwnsSlot
  <2> SUFFICES ASSUME Window, pc \in {"fill", "reading"}, NEW c \in pend, Slot(c.blk) = Slot(blkId)
               PROVE  c.query < call /\ tainted
    BY DEF ReadOwnsSlot
  <2>1. blkIdDone \in Int /\ blkId \in Int /\ blkId \in blkIdDone .. blkIdDone + NPIPES - 1
    BY RingSize DEF Window, TypeOK, Ring
  <2>2. c.query # call
    <3> SUFFICES ASSUME c.query = call PROVE FALSE
      OBVIOUS
    <3>1. c.blk \in InFlight
      BY DEF Window, Pending
    <3>2. c.blk \in blkIdDone .. blkIdDone + NPIPES - 1 /\ c.blk # blkId
      BY <2>1, <3>1, RingSize DEF InFlight
    <3> QED BY <2>1, <3>2, SlotOwn
  <2>3. c.query \in Int /\ call \in Int
    BY CmdParts DEF Window, TypeOK
  <2> QED BY <2>2, <2>3 DEF Window, Pending
<1> QED BY <1>1, WindowInv, PTL

---------------------------------------------------------------------------
(* What the results stand for *)

\* Blocks in flight, and the one being filled or enqueued, have slots of their own.
LEMMA InFlightOwn ==
  ASSUME Window, Running, NEW n \in InFlight, NEW m \in Int,
         m \in InFlight \/ (m = blkId /\ blkId < blkIdDone + NPIPES),
         Slot(n) = Slot(m)
  PROVE  n = m
<1>1. blkIdDone \in Int /\ blkId \in Int /\ blkIdDone <= blkId /\ blkId <= blkIdDone + NPIPES
  BY DEF Window, TypeOK, Ring
<1>2. n \in blkIdDone .. blkIdDone + NPIPES - 1 /\ m \in blkIdDone .. blkIdDone + NPIPES - 1
  BY <1>1, RingSize DEF InFlight
<1> QED BY <1>1, <1>2, SlotOwn

\* One more result, of the block that comes next.
LEMMA OneMore ==
  ASSUME Window, \A i \in 1 .. Len(acc) : Good(i - 1, acc[i]), NEW b \in Block, Good(Len(acc), b)
  PROVE  /\ Len(Append(acc, b)) = Len(acc) + 1
         /\ \A i \in 1 .. Len(Append(acc, b)) : Good(i - 1, Append(acc, b)[i])
<1>1. acc \in Seq(Block) /\ Len(acc) \in Nat
  BY DEF Window, TypeOK
<1>2. Len(Append(acc, b)) = Len(acc) + 1
  BY <1>1
<1>3. ASSUME NEW i \in 1 .. Len(acc) + 1 PROVE Good(i - 1, Append(acc, b)[i])
  <2>1. CASE i = Len(acc) + 1
    BY <1>1, <2>1
  <2>2. CASE i # Len(acc) + 1
    BY <1>1, <1>3, <2>2
  <2> QED BY <2>1, <2>2
<1> QED BY <1>2, <1>3

\* Nothing is in flight and nothing added when a query starts.
LEMMA StartData == StartQuery => (Blocks /\ Added)'
<1> SUFFICES ASSUME StartQuery PROVE (Blocks /\ Added)'
  OBVIOUS
<1> USE DEF StartQuery, mem
<1>1. acc' = << >> /\ Len(acc') = 0
  OBVIOUS
<1>2. Blocks'
  BY DEF Blocks, InFlight
<1>3. Added'
  BY <1>1 DEF Added
<1> QED BY <1>2, <1>3

\* Steps that only move the host: to the read-back, to a read, to the end.
LEMMA MoveData ==
  IInv /\ (WaitHalf \/ ReadBegin \/ ReadCrashes \/ NoSegment \/ Close \/ Return) => (Blocks /\ Added)'
<1> SUFFICES ASSUME IInv, ~tainted,
                    WaitHalf \/ ReadBegin \/ ReadCrashes \/ NoSegment \/ Close \/ Return
             PROVE  (Blocks /\ Added)'
  <2>1. WaitHalf \/ ReadBegin \/ ReadCrashes \/ NoSegment \/ Close \/ Return => UNCHANGED tainted
    BY DEF WaitHalf, ReadBegin, ReadCrashes, NoSegment, Close, Return, file
  <2> QED BY <2>1, Zenon DEF Blocks, Added
<1> USE DEF IInv, mem, file
<1>1. UNCHANGED <<blkId, blkIdDone, call, nPages, lost, tainted, acc, pInp, devOut, pOut, pend>>
  BY DEF WaitHalf, ReadBegin, ReadCrashes, NoSegment, Close, Return
<1>2. \A n : Expected(n)' = Expected(n)
  BY <1>1 DEF Expected, Page
<1>3. pc \notin {"idle", "dead"} /\ pc' # "enqueue" /\ blkIdDone \in Nat /\ blkId \in Nat
  BY DEF WaitHalf, ReadBegin, ReadCrashes, NoSegment, Close, Return, Window, TypeOK
<1>4. Blocks'
  BY <1>1, <1>2, <1>3 DEF Blocks, InFlight, Good
<1>5. \A i \in 1 .. Len(acc') : Good(i - 1, acc[i])'
  BY <1>1, <1>2 DEF Added, Good
<1>6. Added'
  <2>1. CASE WaitHalf
    BY <1>1, <1>3, <1>5, <2>1 DEF Added, WaitHalf, Window, Pending, Working
  <2>2. CASE ReadBegin
    BY <1>1, <1>5, <2>2 DEF Added, ReadBegin, Window, Pending, Working
  <2>3. CASE NoSegment
    BY <1>1, <1>5, <2>3 DEF Added, NoSegment, Window, Pending, Working
  <2>4. CASE Close
    BY <1>1, <1>5, <2>4 DEF Added, Close, Window, Pending
  <2>5. CASE Return
    BY <1>1, <1>3, <1>5, <2>5 DEF Added, Return, Window, Pending, Ring
  <2>6. CASE ReadCrashes
    BY <1>1, <1>5, <2>6 DEF Added, ReadCrashes
  <2> QED BY <2>1, <2>2, <2>3, <2>4, <2>5, <2>6
<1> QED BY <1>4, <1>6

\* Result k of the older half is that of block blkIdDone + k.
LEMMA AddData == IInv /\ AddResult => (Blocks /\ Added)'
<1> SUFFICES ASSUME IInv, AddResult, ~tainted PROVE (Blocks /\ Added)'
  BY DEF Blocks, Added, AddResult, file
<1> USE DEF IInv, AddResult, mem, file
<1>0. /\ k \in 0 .. NCOMPUTES - 1 /\ blkId = blkIdDone + NPIPES /\ blkIdDone \in Nat
      /\ blkIdDone % NCOMPUTES = 0 /\ Len(acc) = blkIdDone + k
  BY RingSize DEF Window, TypeOK, Ring, Working, Added
<1>1. \A n : Expected(n)' = Expected(n)
  BY DEF Expected, Page
<1>2. blkIdDone + k \in InFlight /\ blkIdDone + k \in Int
  BY <1>0, RingSize DEF InFlight
<1>3. Cmd("rd", blkIdDone + k) \notin pend
  BY <1>0 DEF Window, Pending
<1>4. Good(blkIdDone + k, pOut[Slot(blkIdDone + k)])
  BY <1>2, <1>3 DEF Blocks
<1>5. Half * NCOMPUTES + k = Slot(blkIdDone + k)
  BY <1>0, HalfIsOldest DEF Window
<1>6. pOut[Slot(blkIdDone + k)] \in Block
  BY <1>2, SlotType DEF Window, TypeOK
<1>7. Len(acc') = Len(acc) + 1 /\ \A i \in 1 .. Len(acc') : Good(i - 1, acc'[i])
  BY <1>0, <1>4, <1>5, <1>6, OneMore DEF Added
<1>8. InFlight' \subseteq InFlight
  BY <1>0, RingSize DEF InFlight
<1>9. Blocks'
  BY <1>1, <1>8 DEF Blocks, Good
<1>10. Added'
  <2>1. \A i \in 1 .. Len(acc') : Good(i - 1, acc[i])'
    BY <1>1, <1>7 DEF Good
  <2>2. pc' = "sum" => Len(acc') = blkIdDone' + k'
    BY <1>0, <1>7
  <2>3. pc' = "fill" => Len(acc') = blkIdDone'
    <3>1. pc' = "fill" => ~(k + 1 < NCOMPUTES) /\ blkIdDone' = blkId - NCOMPUTES
      OBVIOUS
    <3> QED BY <1>0, <1>7, <3>1, RingSize
  <2>4. pc' \in {"sum", "fill"}
    OBVIOUS
  <2> QED BY <2>1, <2>2, <2>3, <2>4 DEF Added
<1> QED BY <1>9, <1>10

\* A read, whole, short or failed, fills the slot of the block being read; only a
\* failed one touches another slot.
LEMMA ReadData == IInv /\ (ReadEnd \/ ReadFails) => (Blocks /\ Added)'
<1> SUFFICES ASSUME IInv, ~tainted, ReadEnd \/ ReadFails PROVE (Blocks /\ Added)'
  <2>1. ReadEnd \/ ReadFails => UNCHANGED tainted
    BY DEF ReadEnd, ReadFails, file
  <2> QED BY <2>1, Zenon DEF Blocks, Added
<1> USE DEF IInv, file
<1>1. /\ UNCHANGED <<blkId, blkIdDone, call, k, nPages, tainted, acc, devOut, pOut, pend>>
      /\ lost => lost'
      /\ pc = "reading" /\ pc' = "enqueue"
  BY DEF ReadEnd, ReadFails
<1>2. \A n : Expected(n)' = Expected(n)
  BY <1>1 DEF Expected, Page
<1>3. blkId \in Nat /\ blkIdDone \in Int /\ blkId < blkIdDone + NPIPES
  BY <1>1 DEF Window, TypeOK, Ring
<1>4. \A n \in InFlight : n \in Nat /\ Slot(n) \in Slots /\ Slot(n) # Slot(blkId)
  <2> SUFFICES ASSUME NEW n \in InFlight
               PROVE  n \in Nat /\ Slot(n) \in Slots /\ Slot(n) # Slot(blkId)
    OBVIOUS
  <2>1. n \in Nat /\ n # blkId
    BY <1>3 DEF InFlight, Window, TypeOK
  <2> QED BY <1>1, <1>3, <2>1, InFlightOwn, SlotType
<1>5. Good(blkId, pInp[Slot(blkId)])'
  <2>1. CASE ReadEnd
    <3>1. pInp'[Slot(blkId)] = Expected(blkId)
      BY <1>3, <2>1, PageMeant, SlotType DEF ReadEnd, Window, TypeOK
    <3> QED BY <1>1, <1>2, <3>1 DEF Good
  <2>2. CASE ReadFails
    <3>1. pInp'[Slot(blkId)] = ZeroBlock /\ lost'
      BY <1>3, <2>2, SlotType DEF ReadFails
    <3> QED BY <1>1, <1>2, <3>1 DEF Good, ZeroBlock
  <2> QED BY <2>1, <2>2
<1>6. \A n \in InFlight : Good(n, pInp[Slot(n)])'
  <2> SUFFICES ASSUME NEW n \in InFlight PROVE Good(n, pInp[Slot(n)])'
    OBVIOUS
  <2>0. Good(n, pInp[Slot(n)]) /\ pInp[Slot(n)] \in Block
    BY <1>1, <1>4 DEF Blocks, Window, TypeOK
  <2>1. CASE pInp'[Slot(n)] = pInp[Slot(n)]
    BY <1>1, <1>2, <2>0, <2>1 DEF Good
  <2>2. CASE pInp'[Slot(n)] = TornBlock(pInp[Slot(n)]) /\ lost'
    <3> SUFFICES ASSUME NEW q \in Offsets
                 PROVE  pInp'[Slot(n)][q] \in {Expected(n)[q], Zero, Torn(Expected(n)[q])}
      BY <1>2, <2>2 DEF Good
    <3>1. pInp'[Slot(n)][q] \in {pInp[Slot(n)][q], Torn(pInp[Slot(n)][q])}
      BY <2>0, <2>2, TornType
    <3>2. pInp[Slot(n)][q] \in {Expected(n)[q], Zero, Torn(Expected(n)[q])}
      BY <2>0 DEF Good
    <3>3. Expected(n)[q] \in PageSet
      BY <1>4, ExpectedType DEF Block
    <3> QED BY <3>1, <3>2, <3>3, TornType, ZeroType
  <2>3. CASE ReadEnd
    <3>1. pInp'[Slot(n)] = pInp[Slot(n)]
      BY <1>4, <2>3 DEF ReadEnd, Window, TypeOK
    <3> QED BY <2>1, <3>1
  <2>4. CASE ReadFails
    <3>1. lost' /\ pInp'[Slot(n)] \in {pInp[Slot(n)], TornBlock(pInp[Slot(n)])}
      BY <1>4, <2>4 DEF ReadFails
    <3> QED BY <2>1, <2>2, <3>1
  <2> QED BY <2>3, <2>4
<1>7. InFlight' = InFlight
  BY <1>1 DEF InFlight
<1>8. Blocks'
  BY <1>1, <1>2, <1>5, <1>6, <1>7 DEF Blocks, Good
<1>9. Added'
  BY <1>1, <1>2 DEF Added, Good
<1> QED BY <1>8, <1>9

\* The block enqueued is in flight, and its buffer is filled.  If it was the last
\* one, the relation ends in it.
LEMMA EnqueueData == IInv /\ Enqueue => (Blocks /\ Added)'
<1> SUFFICES ASSUME IInv, Enqueue, ~tainted PROVE (Blocks /\ Added)'
  BY DEF Blocks, Added, Enqueue, file
<1> USE DEF IInv, Enqueue, mem, file
<1>0. blkId \in Nat /\ blkIdDone \in Nat /\ blkIdDone <= blkId
  BY DEF Window, TypeOK, Ring
<1>1. \A n : Expected(n)' = Expected(n)
  BY DEF Expected, Page
<1>2. InFlight' = InFlight \cup {blkId} /\ pc' # "enqueue" /\ pc' # "idle"
  BY <1>0 DEF InFlight
<1>3. \A n \in InFlight' : Good(n, pInp[Slot(n)])
  BY <1>2 DEF Blocks
<1>4. \A n \in InFlight' : Cmd("nd", n) \notin pend' =>
        n \in InFlight /\ Cmd("nd", n) \notin pend
  BY <1>2
<1>5. \A n \in InFlight' : Cmd("rd", n) \notin pend' =>
        n \in InFlight /\ Cmd("rd", n) \notin pend
  BY <1>2
<1>6. Blocks'
  BY <1>1, <1>2, <1>3, <1>4, <1>5 DEF Blocks, Good
<1>7. ~bRealPages /\ ~lost => blkId + 1 = (nPages \div BLK_PAGES) + 1
  <2>1. BLK_PAGES \in Nat \ {0} /\ nPages \in Nat
    BY P2PAssumption DEF Window, Sized
  <2>2. ~bRealPages /\ ~lost =>
          blkId * BLK_PAGES <= nPages /\ nPages < (blkId + 1) * BLK_PAGES
    BY DEF Window, Sized, Working
  <2>3. ~bRealPages /\ ~lost => nPages \div BLK_PAGES = blkId
    BY <1>0, <2>1, <2>2, BlockOf
  <2> QED BY <1>0, <2>3
<1>8. Added'
  BY <1>1, <1>7 DEF Added, Good, Window, Pending, Working
<1> QED BY <1>6, <1>8

\* A failed enqueue adds no block.
LEMMA EnqueueFailsData == IInv /\ EnqueueFails => (Blocks /\ Added)'
<1> SUFFICES ASSUME IInv, EnqueueFails, ~tainted PROVE (Blocks /\ Added)'
  BY DEF Blocks, Added, EnqueueFails, file
<1> USE DEF IInv, EnqueueFails, mem, file
<1>1. \A n : Expected(n)' = Expected(n)
  BY DEF Expected, Page
<1>2. InFlight' = InFlight /\ pend \subseteq pend'
  BY DEF InFlight
<1>3. Blocks'
  BY <1>1, <1>2 DEF Blocks, Good
<1>4. Added'
  BY <1>1 DEF Added, Good, Window, Pending, Working
<1> QED BY <1>3, <1>4

\* Behind the loop the results are added one by one, each after its migration.
LEMMA DrainData == IInv /\ Drain => (Blocks /\ Added)'
<1> SUFFICES ASSUME IInv, Drain, ~tainted PROVE (Blocks /\ Added)'
  BY DEF Blocks, Added, Drain, file
<1> USE DEF IInv, Drain, mem, file
<1>0. blkIdDone \in Nat /\ blkId \in Nat /\ blkIdDone \in InFlight /\ Len(acc) = blkIdDone
  BY DEF Window, TypeOK, InFlight, Added
<1>1. \A n : Expected(n)' = Expected(n)
  BY DEF Expected, Page
<1>2. Good(blkIdDone, pOut[Slot(blkIdDone)])
  BY <1>0 DEF Window, Pending, Blocks
<1>3. pOut[Slot(blkIdDone)] \in Block
  BY <1>0, SlotType DEF Window, TypeOK
<1>4. Len(acc') = Len(acc) + 1 /\ \A i \in 1 .. Len(acc') : Good(i - 1, acc'[i])
  BY <1>0, <1>2, <1>3, OneMore DEF Added
<1>5. InFlight' \subseteq InFlight
  BY <1>0 DEF InFlight
<1>6. Blocks'
  BY <1>1, <1>5 DEF Blocks, Good
<1>7. Added'
  BY <1>0, <1>1, <1>4 DEF Added, Good, Window, Pending
<1> QED BY <1>6, <1>7

\* A kernel or a migration finds the block it is for.
LEMMA DeviceData == IInv /\ Device => (Blocks /\ Added)'
<1> SUFFICES ASSUME IInv, ~tainted, NEW c \in pend, RunKernel(c) \/ RunMigration(c)
             PROVE  (Blocks /\ Added)'
  BY DEF Device, RunKernel, RunMigration, Blocks, Added, file
<1> USE DEF IInv, host, file
<1> DEFINE n == c.blk
<1>0. n \in Int /\ c = Cmd(c.op, n)
  BY CmdParts DEF Window, TypeOK, Pending
<1>1. /\ UNCHANGED <<pc, blkId, blkIdDone, bRealPages, status, call, k, nPages, lost, acc, pInp>>
      /\ pend' = pend \ {c}
  BY DEF RunKernel, RunMigration
<1>2. \A m : Expected(m)' = Expected(m)
  BY <1>1 DEF Expected, Page
<1>3. Added'
  BY <1>1, <1>2 DEF Added, Good
<1>4. CASE ~Running
  BY <1>1, <1>3, <1>4 DEF Blocks
<1>5. CASE Running /\ RunKernel(c)
  <2>0. c = Cmd("nd", n)
    BY <1>0, <1>5 DEF RunKernel
  <2>1. n \in InFlight \/ (n = blkId /\ blkId < blkIdDone + NPIPES)
    BY <1>5, CmdParts DEF Window, Pending
  <2>2. UNCHANGED pOut
    BY <1>5 DEF RunKernel
  <2>3. \A m \in InFlight : Cmd("nd", m) \notin pend' => Good(m, devOut'[Slot(m)])
    <3> SUFFICES ASSUME NEW m \in InFlight, Cmd("nd", m) \notin pend'
                 PROVE  Good(m, devOut'[Slot(m)])
      OBVIOUS
    <3>1. m \in Int
      BY DEF InFlight
    <3>2. CASE m = n
      <4>1. devOut'[Slot(m)] = pInp[Slot(m)]
        BY <1>5, <3>1, <3>2, SlotType DEF RunKernel, Window, TypeOK
      <4> QED BY <1>5, <4>1 DEF Blocks
    <3>3. CASE m # n
      <4>1. Slot(m) # Slot(n)
        BY <1>0, <1>5, <2>1, <3>3, InFlightOwn
      <4>2. devOut'[Slot(m)] = devOut[Slot(m)]
        BY <1>5, <3>1, <4>1, SlotType DEF RunKernel, Window, TypeOK
      <4>3. Cmd("nd", m) \notin pend
        BY <1>1, <2>0, <3>3, CmdParts
      <4> QED BY <1>5, <4>2, <4>3 DEF Blocks
    <3> QED BY <3>2, <3>3
  <2>4. \A m \in InFlight : Cmd("rd", m) \notin pend' => Cmd("rd", m) \notin pend
    BY <1>1, <2>0, CmdParts
  <2>5. Blocks'
    BY <1>1, <1>2, <1>5, <2>2, <2>3, <2>4 DEF Blocks, InFlight, Good
  <2> QED BY <1>3, <2>5
<1>6. CASE Running /\ RunMigration(c)
  <2>0. c = Cmd("rd", n) /\ Cmd("nd", n) \notin pend
    BY <1>0, <1>6, CmdParts DEF RunMigration
  <2>1. n \in InFlight
    BY <1>6, <2>0, CmdParts DEF Window, Pending
  <2>2. UNCHANGED devOut
    BY <1>6 DEF RunMigration
  <2>3. \A m \in InFlight : Cmd("rd", m) \notin pend' => Good(m, pOut'[Slot(m)])
    <3> SUFFICES ASSUME NEW m \in InFlight, Cmd("rd", m) \notin pend'
                 PROVE  Good(m, pOut'[Slot(m)])
      OBVIOUS
    <3>1. m \in Int
      BY DEF InFlight
    <3>2. CASE m = n
      <4>1. pOut'[Slot(m)] = devOut[Slot(m)]
        BY <1>6, <3>1, <3>2, SlotType DEF RunMigration, Window, TypeOK
      <4> QED BY <1>6, <2>0, <3>2, <4>1 DEF Blocks
    <3>3. CASE m # n
      <4>1. Slot(m) # Slot(n)
        BY <1>0, <1>6, <2>1, <3>3, InFlightOwn
      <4>2. pOut'[Slot(m)] = pOut[Slot(m)]
        BY <1>6, <3>1, <4>1, SlotType DEF RunMigration, Window, TypeOK
      <4>3. Cmd("rd", m) \notin pend
        BY <1>1, <2>0, <3>3, CmdParts
      <4> QED BY <1>6, <4>2, <4>3 DEF Blocks
    <3> QED BY <3>2, <3>3
  <2>4. \A m \in InFlight : Cmd("nd", m) \notin pend' => Cmd("nd", m) \notin pend
    BY <1>1, <2>0, CmdParts
  <2>5. Blocks'
    BY <1>1, <1>2, <1>6, <2>2, <2>3, <2>4 DEF Blocks, InFlight, Good
  <2> QED BY <1>3, <2>5
<1> QED BY <1>4, <1>5, <1>6

\* The inductive invariant: which blocks are in flight, what their buffers hold,
\* and what has been added.
THEOREM Inductive == Spec => []IInv
<1>1. Init => Blocks /\ Added
  BY DEF Init, Blocks, Added
<1>2. IInv /\ [Next]_vars => (Blocks /\ Added)'
  <2> SUFFICES ASSUME IInv, [Next]_vars PROVE (Blocks /\ Added)'
    OBVIOUS
  <2>1. CASE Host
    BY <2>1, MoveData, AddData, ReadData, EnqueueData, DrainData DEF Host
  <2>2. CASE UNCHANGED vars
    BY <2>2 DEF vars, host, file, mem, IInv, Blocks, Added, Good, Expected, Page, InFlight
  <2> QED BY <2>1, <2>2, StartData, MoveData, ReadData, EnqueueFailsData, DeviceData DEF Next
<1> QED BY <1>1, <1>2, WindowInv, PTL DEF Spec, IInv

\* In a query that found the queue empty and lost no read the results added are
\* those of the blocks of the relation in their order, each over all the pages the
\* block has, and if it reports a result it has added all of them: for every size of
\* the relation, of blocks, segments and the ring.
THEOREM PagesOnce == Spec => []EveryPageOnce
<1>1. IInv => EveryPageOnce
  <2> SUFFICES ASSUME IInv, ~lost, ~tainted, NEW i \in 1 .. Len(acc)
               PROVE  acc[i] = Expected(i - 1)
    BY DEF IInv, Added, EveryPageOnce
  <2>1. acc[i] \in [Offsets -> PageSet]
    BY DEF IInv, Window, TypeOK, Block
  <2>2. \A q \in Offsets : acc[i][q] = Expected(i - 1)[q]
    BY DEF IInv, Added, Good
  <2> QED BY <2>1, <2>2 DEF Expected
<1> QED BY <1>1, Inductive, PTL

\* Whatever fails, no page is aggregated twice in a query that found the queue empty.
THEOREM PagesDisjoint == Spec => []NoPageTwice
<1>1. IInv => NoPageTwice
  <2> SUFFICES ASSUME IInv, ~tainted, NEW i \in 1 .. Len(acc), NEW j \in 1 .. Len(acc), i < j
               PROVE  PagesOf(acc[i]) \cap PagesOf(acc[j]) = {}
    <3>1. \A i, j \in 1 .. Len(acc) : i # j => i < j \/ j < i
      BY DEF IInv, Window, TypeOK
    <3> QED BY <3>1 DEF NoPageTwice
  <2>0. i \in Nat /\ j \in Nat /\ BLK_PAGES \in Nat \ {0}
    BY P2PAssumption DEF IInv, Window, TypeOK
  <2>1. ASSUME NEW m \in Nat, NEW x \in PagesOf(acc[m + 1]), m + 1 \in 1 .. Len(acc)
        PROVE  x[2] \in Int /\ m * BLK_PAGES <= x[2] /\ x[2] < m * BLK_PAGES + BLK_PAGES
    <3>1. Good(m, acc[m + 1])
      BY <2>1 DEF IInv, Added
    <3>2. PICK q \in Offsets : x = <<acc[m + 1][q].query, acc[m + 1][q].num>> /\ acc[m + 1][q] # Zero
      BY DEF PagesOf
    <3>3. acc[m + 1][q] \in {Page(m * BLK_PAGES + q), Torn(Page(m * BLK_PAGES + q))}
      BY <3>1, <3>2 DEF Good, Expected, Torn
    <3>4. Page(m * BLK_PAGES + q).num = m * BLK_PAGES + q
          /\ (Torn(Page(m * BLK_PAGES + q)) # Zero =>
                Torn(Page(m * BLK_PAGES + q)).num = m * BLK_PAGES + q)
      BY DEF Page, Torn
    <3>5. x[2] = m * BLK_PAGES + q
      BY <3>2, <3>3, <3>4
    <3>6. m * BLK_PAGES \in Int
      BY <2>0, Z3
    <3> QED BY <2>0, <3>5, <3>6 DEF Offsets
  <2>2. (i - 1) * BLK_PAGES \in Int /\ (j - 1) * BLK_PAGES \in Int
        /\ (i - 1) * BLK_PAGES + BLK_PAGES <= (j - 1) * BLK_PAGES
    <3>1. (j - i) - 1 \in Nat
      BY <2>0
    <3>2. ((j - i) - 1) * BLK_PAGES >= 0
      BY <2>0, <3>1, Z3
    <3> QED BY <2>0, <3>2, Z3
  <2>3. ASSUME NEW x \in PagesOf(acc[i]), x \in PagesOf(acc[j]) PROVE FALSE
    <3>1. i - 1 \in Nat /\ (i - 1) + 1 = i /\ j - 1 \in Nat /\ (j - 1) + 1 = j
      BY <2>0
    <3>2. x[2] \in Int /\ x[2] < (i - 1) * BLK_PAGES + BLK_PAGES
      BY <2>1, <2>3, <3>1
    <3>3. (j - 1) * BLK_PAGES <= x[2]
      BY <2>1, <2>3, <3>1
    <3> QED BY <2>0, <2>2, <3>2, <3>3
  <2> QED BY <2>3
<1> QED BY <1>1, Inductive, PTL
===========================================================================
