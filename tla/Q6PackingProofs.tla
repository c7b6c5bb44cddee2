-------------------------- MODULE Q6PackingProofs --------------------------
(***************************************************************************)
(* Proofs about Q6Packing for every relation, page size, block size and    *)
(* number of inserts: where the scan is, and that everything before that   *)
(* position is packed, in order and once.                                  *)
(***************************************************************************)
EXTENDS Q6Packing, RingArith

\* The word before the line pointers, read as one, fits an empty packed page.
PhantomFits == \A n \in PhantomLens : n + 2 < PAGE_SZ

\* The heap page and the line the scan looks at next.
NextBlk == IF pc = "newPage" THEN fillState.blkNum ELSE blkNum
NextLine == IF pc \in {"newPage", "heapPage"} THEN fillState.linNum ELSE linNum
Position == <<NextBlk, NextLine>>

Scanning == pc \in {"newPage", "heapPage", "lines", "endPage"}

\* The scan is inside the relation where it looks at lines.
InRelation ==
  /\ pc # "idle" => fillState.nBlks = NHEAP
  /\ pc \in {"lines", "endPage"} => blkNum < NHEAP
  /\ pc = "lines" => fillState.linNum = 0
  /\ pc = "idle" => pages = << >>
  /\ \A b \in HeapPages : base[b] <= Len(heap[b])

\* A page being filled holds its count and its tuples, and fits.
InPage ==
  /\ pc \in {"lines", "heapPage", "endPage"} => Len(page) + 2 <= used /\ (page = << >> => used = 2)
  /\ PagesWellFormed

\* Everything packed lies before the position, in order.
InOrder ==
  /\ InOrderOnce
  /\ Scanning =>
       \A i \in 1 .. Len(PackedPages) : \A m \in 1 .. Len(PackedPages[i].items) :
         Before(PackedPages[i].items[m], Position)

\* Behind the relation.
Exhausted ==
  \/ pc = "newPage" /\ fillState.blkNum >= NHEAP
  \/ pc = "heapPage" /\ blkNum >= NHEAP /\ page = << >>
  \/ pc = "done"

\* A page that took no tuple means that there is no other one.
EmptyIsEnd ==
  /\ pc = "endPage" => page # << >>
  /\ \A i \in 1 .. Len(pages) : pages[i].items = << >> => Exhausted
  /\ EmptyPagesLast

\* Every tuple before the position that was there at the start is packed.
Covered ==
  /\ Scanning =>
       \A b \in HeapPages : \A l \in 1 .. base[b] :
         heap[b][l] \in Lens /\ Before(<<b, l>>, Position) => IsPacked(<<b, l>>)
  /\ ScanComplete

IInv == TypeOK /\ InRelation /\ InPage /\ InOrder /\ EmptyIsEnd /\ Covered

---------------------------------------------------------------------------
(* Types *)

Base == TypeOK /\ InRelation /\ InPage

\* The line pointers of a heap page form a sequence.
LEMMA LinesAreSeq ==
  ASSUME NEW h \in LineArrays
  PROVE  h \in Seq(Lens \cup DeadLens) /\ Len(h) \in 0 .. MaxLines
BY PackingAssumption DEF LineArrays

\* An insert appends a line pointer and leaves the others alone.
LEMMA InsertLine ==
  ASSUME NEW h \in LineArrays, NEW n \in Lens, Len(h) < MaxLines
  PROVE  /\ Append(h, n) \in LineArrays
         /\ Len(Append(h, n)) = Len(h) + 1
         /\ \A l \in 1 .. Len(h) : Append(h, n)[l] = h[l]
<1>1. h \in Seq(Lens \cup DeadLens) /\ Len(h) \in 0 .. MaxLines /\ MaxLines \in Nat
  BY LinesAreSeq, PackingAssumption
<1>2. Append(h, n) \in Seq(Lens \cup DeadLens) /\ Len(Append(h, n)) = Len(h) + 1
  BY <1>1
<1>3. Append(h, n) \in [1 .. Len(h) + 1 -> Lens \cup DeadLens]
  <2> DEFINE s == Append(h, n)
  <2>1. s \in Seq(Lens \cup DeadLens) /\ Len(s) = Len(h) + 1
    BY <1>2
  <2> HIDE DEF s
  <2>2. s \in [1 .. Len(s) -> Lens \cup DeadLens]
    BY <2>1
  <2> QED BY <2>1, <2>2 DEF s
<1>4. Append(h, n) \in LineArrays
  BY <1>1, <1>3 DEF LineArrays
<1> QED BY <1>1, <1>2, <1>4

\* The length behind a line pointer, and behind the word before the first one.
LEMMA ItemLenType ==
  ASSUME TypeOK, NEW b \in HeapPages, NEW l \in Int, 0 <= l, l <= Len(heap[b])
  PROVE  ItemLen(b, l) \in Lens \cup DeadLens \cup PhantomLens
<1>1. heap[b] \in LineArrays /\ phantom[b] \in PhantomLens
  BY DEF TypeOK
<1>2. heap[b] \in Seq(Lens \cup DeadLens)
  BY <1>1, LinesAreSeq
<1>3. CASE l = 0
  BY <1>1, <1>3 DEF ItemLen
<1>4. CASE l # 0
  BY <1>2, <1>4 DEF ItemLen
<1> QED BY <1>3, <1>4

\* What memcpy is given: a positive length as it is, a negative one as more than a
\* page.
LEMMA CopySizeIs ==
  ASSUME NEW n \in Lens \cup DeadLens \cup PhantomLens
  PROVE  /\ n \in Int /\ CopySize(n) \in Nat
         /\ n >= 0 => CopySize(n) = n
         /\ n < 0 => CopySize(n) > PAGE_SZ
<1>1. n \in Int /\ n < SIZE_MOD /\ PAGE_SZ < n + SIZE_MOD /\ SIZE_MOD \in Nat \ {0} /\ PAGE_SZ \in Nat
  BY PackingAssumption
<1>2. CASE n >= 0
  <2>1. n = SIZE_MOD * 0 + n /\ n \in 0 .. SIZE_MOD - 1
    BY <1>1, <1>2
  <2>2. (SIZE_MOD * 0 + n) % SIZE_MOD = n
    BY <1>1, <2>1, ModIs
  <2> QED BY <1>1, <1>2, <2>1, <2>2 DEF CopySize
<1>3. CASE n < 0
  <2> DEFINE k == n + SIZE_MOD
  <2>1. k \in 0 .. SIZE_MOD - 1 /\ n = SIZE_MOD * (-1) + k /\ k > PAGE_SZ
    BY <1>1, <1>3
  <2> HIDE DEF k
  <2>2. (SIZE_MOD * (-1) + k) % SIZE_MOD = k
    BY <1>1, <2>1, ModIs
  <2> QED BY <1>1, <1>3, <2>1, <2>2 DEF CopySize
<1> QED BY <1>1, <1>2, <1>3

\* The two bytes of the count read back as the count.
LEMMA CountReadsBack ==
  ASSUME NEW n \in Nat, n < PAGE_SZ
  PROVE  /\ CountBytes(n) \in (0 .. BYTE - 1) \X (0 .. BYTE - 1)
         /\ CountBytes(n)[1] + BYTE * CountBytes(n)[2] = n
<1> DEFINE q == n \div BYTE
<1>1. BYTE \in Nat \ {0} /\ PAGE_SZ \in Nat /\ PAGE_SZ <= BYTE * BYTE
  BY PackingAssumption
<1>2. q \in Nat /\ n % BYTE \in 0 .. BYTE - 1 /\ n = BYTE * q + (n % BYTE)
  BY <1>1, DivNat
<1> HIDE DEF q
<1>3. q < BYTE
  <2> SUFFICES ASSUME q >= BYTE PROVE FALSE
    BY <1>1, <1>2
  <2>1. BYTE * q >= BYTE * BYTE
    BY <1>1, <1>2, Z3
  <2> QED BY <1>1, <1>2, <2>1
<1>4. q % BYTE = q
  <2>1. q = BYTE * 0 + q /\ q \in 0 .. BYTE - 1
    BY <1>1, <1>2, <1>3
  <2>2. (BYTE * 0 + q) % BYTE = q
    BY <1>1, <2>1, ModIs
  <2> QED BY <2>1, <2>2
<1>5. CountBytes(n) = <<n % BYTE, q % BYTE>>
  BY DEF CountBytes, q
<1> QED BY <1>1, <1>2, <1>3, <1>4, <1>5

\* A line that is looked at is one of its heap page, or the word before the first.
LEMMA AtLine ==
  ASSUME Base, MoreLines
  PROVE  /\ blkNum \in HeapPages /\ linNum \in 0 .. MaxLines /\ linNum <= Len(heap[blkNum])
         /\ <<blkNum, linNum>> \in Items
         /\ ItemLen(blkNum, linNum) \in Lens \cup DeadLens \cup PhantomLens
         /\ pc = "lines"
<1>1. NHEAP \in Nat /\ MaxLines \in Nat
  BY PackingAssumption
<1>2. blkNum \in HeapPages
  BY <1>1 DEF Base, TypeOK, InRelation, MoreLines, HeapPages
<1>3. Len(heap[blkNum]) \in 0 .. MaxLines
  BY <1>2, LinesAreSeq DEF Base, TypeOK
<1>4. linNum \in 0 .. MaxLines /\ linNum <= Len(heap[blkNum]) /\ linNum \in Int /\ 0 <= linNum
  BY <1>1, <1>3 DEF Base, TypeOK, MoreLines
<1>5. <<blkNum, linNum>> \in Items
  BY <1>2, <1>4 DEF Items
<1>6. TypeOK
  BY DEF Base
<1> QED BY <1>2, <1>4, <1>5, <1>6, ItemLenType DEF MoreLines

\* A tuple that is copied has a positive length; a copy that leaves the page has a
\* negative one.
LEMMA CopyIsTuple ==
  ASSUME Base, MoreLines, ItemLen(blkNum, linNum) # 0, Fits(ItemLen(blkNum, linNum))
  PROVE  /\ ItemLen(blkNum, linNum) \in Int
         /\ used + CopySize(ItemLen(blkNum, linNum)) <= PAGE_SZ <=> ItemLen(blkNum, linNum) > 0
<1> DEFINE n == ItemLen(blkNum, linNum)
<1>1. n \in Lens \cup DeadLens \cup PhantomLens
  BY AtLine
<1>2. used \in Nat /\ PAGE_SZ \in Nat /\ n # 0 /\ used + n < PAGE_SZ
  BY PackingAssumption DEF Base, TypeOK, Fits
<1> HIDE DEF n
<1>3. n \in Int /\ (used + CopySize(n) <= PAGE_SZ <=> n > 0)
  BY <1>1, <1>2, CopySizeIs
<1> QED BY <1>3 DEF n

\* What a finished page looks like.
WellFormed(r) == r.size <= PAGE_SZ /\ r.count[1] + BYTE * r.count[2] = Len(r.items)

\* The page being filled is one.
LEMMA PackedPageType ==
  ASSUME TypeOK
  PROVE  PackedPage \in PageType /\ PackedPage.items = page
<1>1. used \in Nat /\ page \in Seq(Items) /\ Len(page) \in Nat
  BY DEF TypeOK
<1>2. CountBytes(Len(page)) \in (0 .. BYTE - 1) \X (0 .. BYTE - 1)
  <2>1. BYTE \in Nat \ {0}
    BY PackingAssumption
  <2>2. Len(page) % BYTE \in 0 .. BYTE - 1 /\ Len(page) \div BYTE \in Int
    BY <1>1, <2>1, DivMod
  <2>3. (Len(page) \div BYTE) % BYTE \in 0 .. BYTE - 1
    BY <2>1, <2>2, DivMod
  <2> QED BY <2>2, <2>3 DEF CountBytes
<1> QED BY <1>1, <1>2 DEF PackedPage, PageType

\* No tuple, heap page or packed page is touched outside its bounds.
LEMMA BaseStep == Base /\ [Next]_vars => Base'
<1> SUFFICES ASSUME Base, [Next]_vars PROVE Base'
  OBVIOUS
<1> USE DEF Base
<1>0. /\ NHEAP \in Nat /\ MaxLines \in Nat /\ PAGE_SZ \in Nat /\ PAGE_SZ > 2
      /\ PAGES_PER_BLK \in Nat \ {0} /\ MaxInserts \in Nat
  BY PackingAssumption
<1>1. CASE StartScan
  <2>1. base' \in [HeapPages -> 0 .. MaxLines]
    BY <1>1, LinesAreSeq DEF StartScan, TypeOK
  <2>2. TypeOK'
    BY <1>0, <1>1, <2>1 DEF StartScan, TypeOK
  <2>3. \A b \in HeapPages : base'[b] <= Len(heap'[b])
    <3> SUFFICES ASSUME NEW b \in HeapPages PROVE base'[b] <= Len(heap'[b])
      OBVIOUS
    <3>1. Len(heap[b]) \in 0 .. MaxLines
      BY LinesAreSeq DEF TypeOK
    <3> QED BY <1>0, <1>1, <3>1 DEF StartScan
  <2>4. InRelation'
    BY <1>1, <2>3 DEF StartScan, InRelation
  <2>5. InPage'
    BY <1>1 DEF StartScan, InPage, PagesWellFormed
  <2> QED BY <2>2, <2>4, <2>5
<1>2. CASE BeginPage
  <2>1. TypeOK'
    BY <1>0, <1>2 DEF BeginPage, TypeOK
  <2>2. InRelation'
    BY <1>2 DEF BeginPage, InRelation
  <2>3. InPage'
    BY <1>0, <1>2 DEF BeginPage, InPage, PagesWellFormed
  <2> QED BY <2>1, <2>2, <2>3
<1>3. CASE LockHeapPage
  <2>0. fillState' \in [blkNum : 0 .. NHEAP, linNum : 0 .. MaxLines + 1, nBlks : {0, NHEAP}]
    <3>1. 0 \in 0 .. MaxLines + 1
      BY <1>0
    <3>2. fillState' = [fillState EXCEPT !.linNum = 0]
      BY <1>3 DEF LockHeapPage
    <3>3. fillState \in [blkNum : 0 .. NHEAP, linNum : 0 .. MaxLines + 1, nBlks : {0, NHEAP}]
      BY DEF TypeOK
    <3> HIDE DEF Base
    <3> QED BY <3>1, <3>2, <3>3
  <2>1. TypeOK'
    BY <1>3, <2>0 DEF LockHeapPage, TypeOK
  <2>2. InRelation'
    BY <1>3 DEF LockHeapPage, InRelation, TypeOK
  <2>3. InPage'
    BY <1>3 DEF LockHeapPage, InPage, PagesWellFormed
  <2> QED BY <2>1, <2>2, <2>3
<1>4. CASE SkipEmpty
  <2>1. linNum \in 0 .. MaxLines
    BY <1>4, AtLine DEF SkipEmpty
  <2>2. TypeOK'
    BY <1>0, <1>4, <2>1 DEF SkipEmpty, TypeOK
  <2>3. InRelation'
    BY <1>4 DEF SkipEmpty, InRelation
  <2>4. InPage'
    BY <1>4 DEF SkipEmpty, InPage, PagesWellFormed
  <2> QED BY <2>2, <2>3, <2>4
<1>5. CASE CopyTuple
  <2>1. /\ linNum \in 0 .. MaxLines /\ <<blkNum, linNum>> \in Items /\ pc = "lines"
        /\ ItemLen(blkNum, linNum) \in Int /\ ItemLen(blkNum, linNum) > 0
    BY <1>5, AtLine, CopyIsTuple DEF CopyTuple
  <2>2. TypeOK'
    BY <1>0, <1>5, <2>1 DEF CopyTuple, TypeOK
  <2>3. InRelation'
    BY <1>5 DEF CopyTuple, InRelation
  <2>9. Len(page') = Len(page) + 1 /\ Len(page) \in Nat
    BY <1>5, <2>1 DEF CopyTuple, TypeOK
  <2>8. used' <= PAGE_SZ /\ Len(page') + 2 <= used'
    BY <1>0, <1>5, <2>1, <2>9 DEF CopyTuple, Fits, TypeOK, InPage
  <2>4. page' # << >>
    BY <2>9
  <2>5. InPage'
    BY <1>5, <2>1, <2>4, <2>8 DEF CopyTuple, InPage, PagesWellFormed
  <2> QED BY <2>2, <2>3, <2>5
<1>11. CASE Overrun
  <2>1. TypeOK'
    BY <1>11 DEF Overrun, fill, TypeOK
  <2>2. InRelation'
    BY <1>11 DEF Overrun, MoreLines, fill, InRelation
  <2>3. ItemLen(blkNum, linNum) < 0
    <3>1. ItemLen(blkNum, linNum) \in Int /\ ItemLen(blkNum, linNum) # 0
      BY <1>11, CopyIsTuple DEF Overrun
    <3>2. CopySize(ItemLen(blkNum, linNum)) \in Nat /\ used \in Nat
      BY <1>11, AtLine, CopySizeIs DEF Overrun, TypeOK
    <3>3. ~(ItemLen(blkNum, linNum) > 0)
      BY <1>0, <1>11, <3>2, CopyIsTuple DEF Overrun
    <3> QED BY <3>1, <3>3
  <2>4. (ItemLen(blkNum, linNum) < 0)'
    BY <1>11, <2>3 DEF Overrun, fill, ItemLen
  <2>5. InPage'
    BY <1>11, <2>4 DEF Overrun, fill, InPage, PagesWellFormed
  <2> QED BY <2>1, <2>2, <2>5
<1>6. CASE Filled
  <2>1. TypeOK'
    BY <1>6 DEF Filled, fill, TypeOK
  <2>2. InRelation'
    BY <1>6 DEF Filled, MoreLines, fill, InRelation
  <2>3. InPage'
    BY <1>6 DEF Filled, MoreLines, fill, InPage, PagesWellFormed
  <2> QED BY <2>1, <2>2, <2>3
<1>7. CASE UnlockHeapPage
  <2>1. TypeOK'
    BY <1>0, <1>7 DEF UnlockHeapPage, TypeOK, InRelation
  <2>2. InRelation'
    BY <1>7 DEF UnlockHeapPage, InRelation
  <2>3. InPage'
    BY <1>7 DEF UnlockHeapPage, InPage, PagesWellFormed
  <2> QED BY <2>1, <2>2, <2>3
<1>8. CASE EndPage
  <2>1. NextPgNum \in 0 .. PAGES_PER_BLK - 1
    <3>1. pgNum + 1 \in Int
      BY DEF TypeOK
    <3> QED BY <1>0, <3>1, DivMod DEF NextPgNum
  <2>0. Len(page) \in Nat /\ Len(page) < PAGE_SZ /\ page \in Seq(Items)
    <3>1. pc \in {"heapPage", "endPage"} /\ used \in Nat /\ page \in Seq(Items)
      BY <1>8 DEF EndPage, TypeOK
    <3>2. Len(page) + 2 <= used /\ used <= PAGE_SZ
      BY <3>1 DEF InPage, PagesWellFormed
    <3> QED BY <1>0, <3>1, <3>2
  <2>2. PackedPage \in PageType
    BY PackedPageType
  <2>3. bRealPages' \in BOOLEAN /\ pc' \in {"newPage", "done"}
    BY <1>8 DEF EndPage
  <2>4. fillState' \in [blkNum : 0 .. NHEAP, linNum : 0 .. MaxLines + 1, nBlks : {0, NHEAP}]
    BY <1>8 DEF EndPage, SavedPosition, TypeOK
  <2>5. pages' \in Seq(PageType)
    BY <1>8, <2>2 DEF EndPage, TypeOK
  <2>6. TypeOK'
    BY <1>8, <2>1, <2>3, <2>4, <2>5 DEF EndPage, TypeOK
  <2>7. InRelation'
    BY <1>8, <2>3 DEF EndPage, SavedPosition, InRelation, TypeOK
  <2>8. \A i \in 1 .. Len(pages') : WellFormed(pages'[i])
    <3> DEFINE r == PackedPage
    <3>1. pages' = Append(pages, r) /\ r \in PageType
      BY <1>8, <2>2 DEF EndPage
    <3>5. WellFormed(r)
      BY <2>0, CountReadsBack DEF WellFormed, PackedPage, InPage, PagesWellFormed
    <3> HIDE DEF r
    <3>2. pages \in Seq(PageType) /\ Len(pages) \in Nat
      BY DEF TypeOK
    <3>3. ASSUME NEW i \in 1 .. Len(pages) + 1
          PROVE  pages'[i] = IF i = Len(pages) + 1 THEN r ELSE pages[i]
      BY <3>1, <3>2
    <3>4. Len(pages') = Len(pages) + 1
      BY <3>1, <3>2
    <3>6. \A i \in 1 .. Len(pages) : WellFormed(pages[i])
      BY DEF InPage, PagesWellFormed, WellFormed
    <3> QED BY <3>2, <3>3, <3>4, <3>5, <3>6
  <2>9. InPage'
    BY <1>8, <2>3, <2>8 DEF EndPage, InPage, PagesWellFormed, WellFormed
  <2> QED BY <2>6, <2>7, <2>9
<1>9. ASSUME NEW b \in HeapPages, Insert(b) PROVE Base'
  <2>1. PICK n \in Lens : heap' = [heap EXCEPT ![b] = Append(@, n)]
    BY <1>9 DEF Insert
  <2>2. /\ Append(heap[b], n) \in LineArrays /\ Len(Append(heap[b], n)) = Len(heap[b]) + 1
        /\ Len(heap[b]) \in 0 .. MaxLines /\ heap[b] \in LineArrays
    BY <1>9, InsertLine, LinesAreSeq DEF Insert, TypeOK
  <2>3. TypeOK'
    BY <1>0, <1>9, <2>1, <2>2 DEF Insert, fill, TypeOK
  <2>4. \A c \in HeapPages : base'[c] <= Len(heap'[c])
    BY <1>9, <2>1, <2>2 DEF Insert, InRelation, TypeOK
  <2>5. InRelation'
    BY <1>9, <2>4 DEF Insert, fill, InRelation
  <2>6. InPage'
    BY <1>9 DEF Insert, fill, InPage, PagesWellFormed
  <2> QED BY <2>3, <2>5, <2>6
<1>10. CASE UNCHANGED vars
  BY <1>10 DEF vars, fill, TypeOK, InRelation, InPage, PagesWellFormed, ItemLen
<1> QED BY <1>1, <1>2, <1>3, <1>4, <1>5, <1>6, <1>7, <1>8, <1>9, <1>10, <1>11 DEF Next, Scan

\* It holds in the initial states.
LEMMA BaseInit == Init => Base
<1> SUFFICES ASSUME Init PROVE Base
  OBVIOUS
<1>0. NHEAP \in Nat /\ MaxLines \in Nat /\ PAGE_SZ \in Nat /\ PAGES_PER_BLK \in Nat \ {0}
      /\ MaxInserts \in Nat
  BY PackingAssumption
<1>1. \A b \in HeapPages : Len(heap[b]) \in 0 .. MaxLines
  BY LinesAreSeq DEF Init
<1>2. base \in [HeapPages -> 0 .. MaxLines] /\ \A b \in HeapPages : base[b] <= Len(heap[b])
  BY <1>0, <1>1 DEF Init
<1>3. TypeOK
  <2>1. bRealPages \in BOOLEAN /\ pc = "idle" /\ page = << >> /\ pages = << >>
    BY Zenon DEF Init
  <2>2. page \in Seq(Items) /\ pages \in Seq(PageType)
    BY <2>1
  <2>3. fillState \in [blkNum : 0 .. NHEAP, linNum : 0 .. MaxLines + 1, nBlks : {0, NHEAP}]
    BY <1>0 DEF Init
  <2> QED BY <1>0, <1>2, <2>1, <2>2, <2>3 DEF Init, TypeOK
<1>4. InRelation /\ InPage
  BY <1>0, <1>2 DEF Init, InRelation, InPage, PagesWellFormed
<1> QED BY <1>3, <1>4 DEF Base
---------------------------------------------------------------------------
(* Packed pages and the position *)

\* What is packed is a sequence of pages.
LEMMA PackedType ==
  ASSUME TypeOK
  PROVE  PackedPages \in Seq(PageType) /\ Len(PackedPages) \in Nat
<1>1. pages \in Seq(PageType) /\ PackedPage \in PageType
  BY PackedPageType DEF TypeOK
<1> QED BY <1>1 DEF PackedPages

\* Every packed tuple is an item of the heap.
LEMMA PackedItem ==
  ASSUME TypeOK, NEW i \in 1 .. Len(PackedPages), NEW m \in 1 .. Len(PackedPages[i].items)
  PROVE  PackedPages[i].items[m] \in Items
<1>1. PackedPages[i] \in PageType
  BY PackedType
<1>2. PackedPages[i].items \in Seq(Items)
  BY <1>1 DEF PageType
<1> QED BY <1>2

Still ==
  \/ StartScan \/ LockHeapPage \/ SkipEmpty \/ Overrun \/ Filled \/ UnlockHeapPage \/ EndPage
  \/ (\E b \in HeapPages : Insert(b)) \/ UNCHANGED vars

\* Only the start of a page and the copy of a tuple change what is packed; to close
\* a page does not.
LEMMA StillPacked == Still => PackedPages' = PackedPages
<1> SUFFICES ASSUME Still PROVE PackedPages' = PackedPages
  OBVIOUS
<1>1. CASE StartScan
  BY <1>1 DEF StartScan, PackedPages, PackedPage
<1>2. CASE LockHeapPage
  BY <1>2 DEF LockHeapPage, PackedPages, PackedPage
<1>3. CASE SkipEmpty
  BY <1>3 DEF SkipEmpty, PackedPages, PackedPage
<1>9. CASE Overrun
  BY <1>9 DEF Overrun, MoreLines, fill, PackedPages, PackedPage
<1>4. CASE Filled
  BY <1>4 DEF Filled, MoreLines, fill, PackedPages, PackedPage
<1>5. CASE UnlockHeapPage
  BY <1>5 DEF UnlockHeapPage, PackedPages, PackedPage
<1>6. CASE EndPage
  BY <1>6 DEF EndPage, PackedPages, PackedPage
<1>7. ASSUME NEW b \in HeapPages, Insert(b) PROVE PackedPages' = PackedPages
  BY <1>7 DEF Insert, fill, PackedPages, PackedPage
<1>8. CASE UNCHANGED vars
  BY <1>8 DEF vars, fill, PackedPages, PackedPage
<1> QED BY <1>1, <1>2, <1>3, <1>4, <1>5, <1>6, <1>7, <1>8, <1>9 DEF Still

\* A new page is empty.
LEMMA BeginPacked ==
  ASSUME TypeOK, BeginPage
  PROVE  /\ Len(PackedPages') = Len(PackedPages) + 1
         /\ \A i \in 1 .. Len(PackedPages) : PackedPages'[i] = PackedPages[i]
         /\ PackedPages'[Len(PackedPages) + 1].items = << >>
<1> DEFINE r == PackedPage'
<1>1. PackedPages = pages /\ PackedPages' = Append(pages, r)
  BY DEF BeginPage, PackedPages
<1>2. pages \in Seq(PageType) /\ r.items = << >>
  BY DEF TypeOK, BeginPage, PackedPage
<1> HIDE DEF r
<1> QED BY <1>1, <1>2

\* A copy appends the tuple at the position to the last page.
LEMMA CopyPacked ==
  ASSUME Base, CopyTuple
  PROVE  LET L == Len(PackedPages)
         IN  /\ L \in Nat \ {0} /\ Len(PackedPages') = L
             /\ \A i \in 1 .. L : i # L => PackedPages'[i] = PackedPages[i]
             /\ PackedPages[L].items \in Seq(Items)
             /\ PackedPages'[L].items = Append(PackedPages[L].items, <<blkNum, linNum>>)
             /\ <<blkNum, linNum>> \in Items /\ Position = <<blkNum, linNum>>
<1>1. pc = "lines" /\ <<blkNum, linNum>> \in Items
  BY AtLine DEF CopyTuple, MoreLines
<1> DEFINE r == PackedPage
<1> DEFINE q == PackedPage'
<1>2. PackedPages = Append(pages, r) /\ PackedPages' = Append(pages, q)
  BY <1>1 DEF CopyTuple, PackedPages
<1>3. pages \in Seq(PageType) /\ page \in Seq(Items)
  BY DEF Base, TypeOK
<1>4. q.items = Append(r.items, <<blkNum, linNum>>) /\ r.items = page
  BY DEF PackedPage, CopyTuple
<1> HIDE DEF r, q
<1>5. /\ Len(Append(pages, r)) = Len(pages) + 1 /\ Len(Append(pages, q)) = Len(pages) + 1
      /\ Len(pages) \in Nat
      /\ Append(pages, r)[Len(pages) + 1] = r /\ Append(pages, q)[Len(pages) + 1] = q
      /\ \A i \in 1 .. Len(pages) : Append(pages, r)[i] = pages[i] /\ Append(pages, q)[i] = pages[i]
  BY <1>3
<1>6. Position = <<blkNum, linNum>>
  BY <1>1 DEF Position, NextBlk, NextLine
<1> QED BY <1>1, <1>2, <1>3, <1>4, <1>5, <1>6

\* What the position is made of.
LEMMA PositionType ==
  ASSUME TypeOK
  PROVE  NextBlk \in Int /\ NextLine \in Int /\ blkNum \in Int /\ linNum \in Int
         /\ fillState.blkNum \in Int /\ fillState.linNum \in Int
BY PackingAssumption DEF TypeOK, NextBlk, NextLine

\* Where two positions have the same heap page and line, or the later one is in a
\* later heap page, what was before the earlier is before the later.
LEMMA BeforeMono ==
  ASSUME NEW x \in Items, NEW b \in Int, NEW l \in Int, NEW c \in Int, NEW k \in Int,
         Before(x, <<b, l>>), b < c \/ (b = c /\ l <= k)
  PROVE  Before(x, <<c, k>>)
<1>1. x[1] \in Int /\ x[2] \in Int
  BY PackingAssumption DEF Items, HeapPages
<1> QED BY <1>1 DEF Before

\* The position never goes back over a tuple: also where it is kept in the fill
\* state, and behind the last heap page where the line saved is meaningless.
LEMMA Forward ==
  ASSUME Base, Scanning, Still \/ BeginPage, Scanning', NEW x \in Items, Before(x, Position)
  PROVE  Before(x, Position')
<1>0. NextBlk \in Int /\ NextLine \in Int /\ blkNum \in Int /\ linNum \in Int
      /\ fillState.blkNum \in Int /\ fillState.linNum \in Int
  BY PositionType DEF Base
<1>1. CASE StartScan
  BY <1>1 DEF StartScan, Scanning
<1>2. CASE LockHeapPage
  BY <1>2 DEF LockHeapPage, Position, NextBlk, NextLine
<1>3. CASE SkipEmpty
  <2>1. Position = <<blkNum, linNum>> /\ Position' = <<blkNum, linNum + 1>>
    BY <1>3 DEF SkipEmpty, MoreLines, Position, NextBlk, NextLine
  <2> QED BY <1>0, <2>1, BeforeMono
<1>10. CASE Overrun
  BY <1>10 DEF Overrun, Scanning
<1>4. CASE Filled
  BY <1>4 DEF Filled, MoreLines, fill, Position, NextBlk, NextLine
<1>5. CASE UnlockHeapPage
  <2>1. Position = <<blkNum, linNum>> /\ Position' = <<blkNum + 1, fillState.linNum>>
    BY <1>5 DEF UnlockHeapPage, Position, NextBlk, NextLine
  <2> QED BY <1>0, <2>1, BeforeMono
<1>6. CASE EndPage
  <2>1. Position' = <<blkNum, linNum>>
    BY <1>6 DEF EndPage, SavedPosition, Position, NextBlk, NextLine, Scanning, Base, TypeOK
  <2>2. CASE pc = "endPage"
    BY <2>1, <2>2 DEF Position, NextBlk, NextLine
  <2>3. CASE pc = "heapPage" /\ blkNum >= fillState.nBlks
    <3>1. x[1] < blkNum
      BY <1>0, <2>3, PackingAssumption DEF Base, InRelation, Items, HeapPages
    <3> QED BY <2>1, <3>1 DEF Before
  <2> QED BY <1>6, <2>2, <2>3 DEF EndPage
<1>7. ASSUME NEW b \in HeapPages, Insert(b) PROVE Before(x, Position')
  BY <1>7 DEF Insert, fill, Position, NextBlk, NextLine
<1>8. CASE UNCHANGED vars
  BY <1>8 DEF vars, fill, Position, NextBlk, NextLine
<1>9. CASE BeginPage
  BY <1>9 DEF BeginPage, Position, NextBlk, NextLine
<1> QED BY <1>1, <1>2, <1>3, <1>4, <1>5, <1>6, <1>7, <1>8, <1>9, <1>10 DEF Still

\* Steps are of three kinds.
LEMMA StepKinds == [Next]_vars => Still \/ BeginPage \/ CopyTuple
BY DEF Next, Scan, Still

\* The order is kept, and the tuple copied next is behind all others.
LEMMA InOrderStep == Base /\ InOrder /\ [Next]_vars => InOrder'
<1> SUFFICES ASSUME Base, InOrder, [Next]_vars PROVE InOrder'
  OBVIOUS
<1>0. TypeOK /\ Len(PackedPages) \in Nat /\ PackedPages \in Seq(PageType)
  BY PackedType DEF Base
<1>1. CASE Still
  <2>1. PackedPages' = PackedPages
    BY <1>1, StillPacked
  <2>2. InOrderOnce'
    BY <2>1 DEF InOrder, InOrderOnce
  <2>3. ASSUME Scanning', NEW i \in 1 .. Len(PackedPages), NEW m \in 1 .. Len(PackedPages[i].items)
        PROVE  Before(PackedPages[i].items[m], Position')
    <3>1. CASE Scanning
      BY <1>0, <1>1, <2>3, <3>1, Forward, PackedItem DEF InOrder
    <3>2. CASE ~Scanning
      <4>1. pc = "idle" \/ pc = "done" \/ pc = "overrun"
        BY <1>0, <3>2 DEF Scanning, TypeOK
      <4>2. pc = "idle"
        BY <1>1, <2>3, <4>1 DEF Scanning, Still, StartScan, LockHeapPage, SkipEmpty, Overrun, Filled,
           UnlockHeapPage, EndPage, Insert, MoreLines, vars
      <4>3. PackedPages = << >>
        BY <4>2 DEF PackedPages, Base, InRelation
      <4> QED BY <4>3
    <3> QED BY <3>1, <3>2
  <2> QED BY <2>1, <2>2, <2>3 DEF InOrder
<1>2. CASE BeginPage
  <2>1. /\ Len(PackedPages') = Len(PackedPages) + 1
        /\ \A i \in 1 .. Len(PackedPages) : PackedPages'[i] = PackedPages[i]
        /\ PackedPages'[Len(PackedPages) + 1].items = << >>
    BY <1>0, <1>2, BeginPacked
  <2>2. \A i \in 1 .. Len(PackedPages') :
          \/ i \in 1 .. Len(PackedPages) /\ PackedPages'[i] = PackedPages[i]
          \/ i = Len(PackedPages) + 1 /\ Len(PackedPages'[i].items) = 0
    BY <1>0, <2>1
  <2>3. InOrderOnce'
    <3> SUFFICES ASSUME NEW i \in 1 .. Len(PackedPages'), NEW j \in 1 .. Len(PackedPages'),
                        NEW m \in 1 .. Len(PackedPages'[i].items),
                        NEW n \in 1 .. Len(PackedPages'[j].items),
                        i < j \/ (i = j /\ m < n)
                 PROVE  Before(PackedPages'[i].items[m], PackedPages'[j].items[n])
      BY DEF InOrderOnce
    <3>1. i \in 1 .. Len(PackedPages) /\ PackedPages'[i] = PackedPages[i]
      BY <2>2
    <3>2. j \in 1 .. Len(PackedPages) /\ PackedPages'[j] = PackedPages[j]
      BY <2>2
    <3> QED BY <3>1, <3>2 DEF InOrder, InOrderOnce
  <2>4. Scanning /\ Scanning'
    BY <1>2 DEF BeginPage, Scanning
  <2>5. ASSUME NEW i \in 1 .. Len(PackedPages'), NEW m \in 1 .. Len(PackedPages'[i].items)
        PROVE  Before(PackedPages'[i].items[m], Position')
    <3>1. i \in 1 .. Len(PackedPages) /\ PackedPages'[i] = PackedPages[i]
      BY <2>2, <2>5
    <3>2. m \in 1 .. Len(PackedPages[i].items)
      BY <3>1
    <3> QED BY <1>0, <1>2, <2>4, <3>1, <3>2, Forward, PackedItem DEF InOrder
  <2> QED BY <2>3, <2>5 DEF InOrder
<1>3. CASE CopyTuple
  <2> DEFINE L == Len(PackedPages)
  <2> DEFINE p == <<blkNum, linNum>>
  <2>1. /\ L \in Nat \ {0} /\ Len(PackedPages') = L
        /\ \A i \in 1 .. L : i # L => PackedPages'[i] = PackedPages[i]
        /\ PackedPages[L].items \in Seq(Items)
        /\ PackedPages'[L].items = Append(PackedPages[L].items, p)
        /\ p \in Items /\ Position = p
    BY <1>3, CopyPacked
  <2> HIDE DEF L, p
  <2> DEFINE E == Len(PackedPages[L].items)
  <2>2. /\ E \in Nat /\ Len(PackedPages'[L].items) = E + 1
        /\ PackedPages'[L].items[E + 1] = p
        /\ \A m \in 1 .. E : PackedPages'[L].items[m] = PackedPages[L].items[m]
    BY <2>1
  <2> HIDE DEF E
  <2>3. ASSUME NEW i \in 1 .. Len(PackedPages'), NEW m \in 1 .. Len(PackedPages'[i].items)
        PROVE  \/ /\ i \in 1 .. L /\ m \in 1 .. Len(PackedPages[i].items)
                  /\ PackedPages'[i].items[m] = PackedPages[i].items[m]
               \/ i = L /\ m = E + 1 /\ PackedPages'[i].items[m] = p
    <3>1. CASE i # L
      BY <2>1, <3>1
    <3>2. CASE i = L
      BY <2>1, <2>2, <3>2 DEF E
    <3> QED BY <3>1, <3>2
  <2>4. pc = "lines" /\ pc' = "lines"
    BY <1>3 DEF CopyTuple, MoreLines
  <2>5. \A i \in 1 .. L : \A m \in 1 .. Len(PackedPages[i].items) : Before(PackedPages[i].items[m], p)
    BY <2>1, <2>4 DEF InOrder, Scanning, L
  <2>6. ASSUME NEW i \in 1 .. Len(PackedPages'), NEW j \in 1 .. Len(PackedPages'),
               NEW m \in 1 .. Len(PackedPages'[i].items), NEW n \in 1 .. Len(PackedPages'[j].items),
               i < j \/ (i = j /\ m < n)
        PROVE  Before(PackedPages'[i].items[m], PackedPages'[j].items[n])
    <3>1. CASE i = L /\ m = E + 1
      <4>1. j = L /\ i = j /\ n \in 1 .. E + 1 /\ m < n
        BY <2>1, <2>2, <2>6, <3>1
      <4> QED BY <2>2, <3>1, <4>1
    <3>2. CASE ~(i = L /\ m = E + 1)
      <4>1. /\ i \in 1 .. L /\ m \in 1 .. Len(PackedPages[i].items)
            /\ PackedPages'[i].items[m] = PackedPages[i].items[m]
        BY <2>3, <3>2
      <4>2. CASE j = L /\ n = E + 1
        BY <2>3, <2>2, <2>5, <4>1, <4>2
      <4>3. CASE ~(j = L /\ n = E + 1)
        <5>1. /\ j \in 1 .. L /\ n \in 1 .. Len(PackedPages[j].items)
              /\ PackedPages'[j].items[n] = PackedPages[j].items[n]
          BY <2>3, <4>3
        <5> QED BY <2>6, <4>1, <5>1 DEF InOrder, InOrderOnce, L
      <4> QED BY <4>2, <4>3
    <3> QED BY <3>1, <3>2
  <2>7. Position' = <<blkNum, linNum + 1>> /\ blkNum \in Int /\ linNum \in Int
    BY <1>0, <1>3, <2>4, PositionType DEF CopyTuple, Position, NextBlk, NextLine
  <2>8. ASSUME NEW i \in 1 .. Len(PackedPages'), NEW m \in 1 .. Len(PackedPages'[i].items)
        PROVE  Before(PackedPages'[i].items[m], Position')
    <3>1. CASE i = L /\ m = E + 1
      <4>1. PackedPages'[i].items[m] = <<blkNum, linNum>>
        BY <2>2, <3>1 DEF p
      <4> QED BY <2>7, <4>1 DEF Before
    <3>2. CASE ~(i = L /\ m = E + 1)
      <4>1. /\ i \in 1 .. Len(PackedPages) /\ m \in 1 .. Len(PackedPages[i].items)
            /\ PackedPages'[i].items[m] = PackedPages[i].items[m]
        BY <2>3, <3>2 DEF L
      <4>2. Before(PackedPages[i].items[m], <<blkNum, linNum>>)
        BY <2>5, <4>1 DEF L, p
      <4>3. PackedPages[i].items[m] \in Items
        BY <1>0, <4>1, PackedItem
      <4> DEFINE x == PackedPages[i].items[m]
      <4>4. x \in Items /\ Before(x, <<blkNum, linNum>>)
        BY <4>2, <4>3
      <4> HIDE DEF x
      <4>5. linNum + 1 \in Int /\ linNum <= linNum + 1
        BY <2>7
      <4>6. Before(x, <<blkNum, linNum + 1>>)
        BY <2>7, <4>4, <4>5, BeforeMono
      <4> QED BY <2>7, <4>1, <4>6 DEF x
    <3> QED BY <3>1, <3>2
  <2> QED BY <2>6, <2>8 DEF InOrder, InOrderOnce
<1> QED BY <1>1, <1>2, <1>3, StepKinds
---------------------------------------------------------------------------
(* The end of the relation *)

\* A tuple always fits an empty page, so a page is closed before the end of the
\* relation only with tuples in it.
LEMMA FilledHasTuples ==
  ASSUME Base, PhantomFits, Filled
  PROVE  page # << >>
<1> SUFFICES ASSUME page = << >> PROVE FALSE
  OBVIOUS
<1>1. used = 2 /\ MoreLines
  BY DEF Filled, MoreLines, Base, InPage
<1> DEFINE n == ItemLen(blkNum, linNum)
<1>2. n \in Lens \cup DeadLens \cup PhantomLens /\ ~(2 + n < PAGE_SZ)
  BY <1>1, AtLine DEF Filled, Fits
<1> HIDE DEF n
<1>3. n \in Int /\ n + 2 < PAGE_SZ
  BY <1>2, PackingAssumption DEF PhantomFits
<1> QED BY <1>2, <1>3, PackingAssumption

\* Behind the relation the scan stays behind it.
LEMMA StaysExhausted == Base /\ Exhausted /\ [Next]_vars => Exhausted'
<1> SUFFICES ASSUME Base, Exhausted, [Next]_vars PROVE Exhausted'
  OBVIOUS
<1>0. NHEAP \in Nat /\ blkNum \in Int /\ (pc # "idle" => fillState.nBlks = NHEAP)
  BY PositionType, PackingAssumption DEF Base, InRelation
<1>1. CASE BeginPage
  BY <1>1 DEF BeginPage, Exhausted
<1>2. CASE EndPage
  BY <1>2 DEF EndPage, SavedPosition, Exhausted, Base, TypeOK
<1>3. ASSUME NEW b \in HeapPages, Insert(b) PROVE Exhausted'
  BY <1>3 DEF Insert, fill, Exhausted
<1>4. CASE UNCHANGED vars
  BY <1>4 DEF vars, fill, Exhausted
<1>5. ~StartScan /\ ~LockHeapPage /\ ~SkipEmpty /\ ~CopyTuple /\ ~Overrun /\ ~Filled /\ ~UnlockHeapPage
  BY <1>0 DEF StartScan, LockHeapPage, SkipEmpty, CopyTuple, Overrun, Filled, UnlockHeapPage, MoreLines,
     Exhausted
<1> QED BY <1>1, <1>2, <1>3, <1>4, <1>5 DEF Next, Scan

\* A page without tuples is closed at the end only.
LEMMA EmptyAtEnd ==
  ASSUME Base, EmptyIsEnd, EndPage, page = << >>
  PROVE  pc = "heapPage" /\ blkNum >= NHEAP /\ Exhausted /\ Exhausted'
<1>1. pc = "heapPage" /\ blkNum >= NHEAP
  BY DEF EndPage, EmptyIsEnd, Base, InRelation
<1> QED BY <1>1 DEF EndPage, SavedPosition, Exhausted, Base, TypeOK

\* Whether a page that took no tuple ends the data.
LEMMA EmptyStep ==
  ASSUME PhantomFits, Base, EmptyIsEnd, [Next]_vars
  PROVE  EmptyIsEnd'
<1>1. pc' = "endPage" => page' # << >>
  <2>1. CASE Filled
    BY <2>1, FilledHasTuples DEF Filled, fill
  <2>2. CASE CopyTuple
    BY <2>2 DEF CopyTuple, MoreLines
  <2>3. CASE ~Filled /\ ~CopyTuple
    BY <2>3 DEF Next, Scan, StartScan, BeginPage, LockHeapPage, SkipEmpty, Overrun, MoreLines,
       UnlockHeapPage, EndPage, Insert, fill, vars, EmptyIsEnd
  <2> QED BY <2>1, <2>2, <2>3
<1>2. CASE EndPage
  <2> DEFINE r == PackedPage
  <2>1. pages' = Append(pages, r) /\ r.items = page /\ r \in PageType /\ pages \in Seq(PageType)
    BY <1>2, PackedPageType DEF EndPage, Base, TypeOK
  <2> HIDE DEF r
  <2>2. /\ Len(pages) \in Nat /\ Len(pages') = Len(pages) + 1
        /\ \A i \in 1 .. Len(pages) : pages'[i] = pages[i]
        /\ pages'[Len(pages) + 1] = r
    BY <2>1
  <2>3. \A i \in 1 .. Len(pages') : \/ i \in 1 .. Len(pages) /\ pages'[i] = pages[i]
                                    \/ i = Len(pages) + 1 /\ pages'[i].items = page
    BY <2>1, <2>2
  <2>4. Exhausted => page = << >>
    BY <1>2 DEF EndPage, Exhausted
  <2>5. \A i \in 1 .. Len(pages') : pages'[i].items = << >> => Exhausted'
    BY <1>2, <2>3, EmptyAtEnd, StaysExhausted DEF EmptyIsEnd
  <2>6. ASSUME NEW i \in 1 .. Len(pages'), NEW j \in 1 .. Len(pages'), i < j,
               pages'[i].items = << >>
        PROVE  pages'[j].items = << >>
    <3>1. i \in 1 .. Len(pages) /\ pages'[i] = pages[i]
      BY <2>2, <2>3, <2>6
    <3>2. CASE j \in 1 .. Len(pages) /\ pages'[j] = pages[j]
      BY <2>6, <3>1, <3>2 DEF EmptyIsEnd, EmptyPagesLast
    <3>3. CASE pages'[j].items = page
      BY <2>4, <2>6, <3>1, <3>3 DEF EmptyIsEnd
    <3> QED BY <2>3, <3>2, <3>3
  <2> QED BY <1>1, <2>5, <2>6 DEF EmptyIsEnd, EmptyPagesLast
<1>3. CASE ~EndPage
  <2>1. pages' = pages
    BY <1>3 DEF Next, Scan, StartScan, BeginPage, LockHeapPage, SkipEmpty, CopyTuple, Overrun,
       Filled, UnlockHeapPage, Insert, fill, vars
  <2> QED BY <1>1, <2>1, StaysExhausted DEF EmptyIsEnd, EmptyPagesLast
<1> QED BY <1>2, <1>3

---------------------------------------------------------------------------
(* Completeness *)

\* A line that was there at the start does not change.
LEMMA LinesStay ==
  ASSUME Base, [Next]_vars, ~StartScan, NEW b \in HeapPages, NEW l \in 1 .. base[b]
  PROVE  base' = base /\ heap'[b][l] = heap[b][l]
<1>1. base' = base
  BY DEF Next, Scan, BeginPage, LockHeapPage, SkipEmpty, CopyTuple, Overrun, Filled,
     UnlockHeapPage, EndPage, fill,
     Insert, vars
<1>2. CASE heap' = heap
  BY <1>1, <1>2
<1>3. ASSUME NEW c \in HeapPages, Insert(c) PROVE heap'[b][l] = heap[b][l]
  <2>1. PICK n \in Lens : heap' = [heap EXCEPT ![c] = Append(@, n)]
    BY <1>3 DEF Insert
  <2>2. heap[c] \in LineArrays /\ Len(heap[c]) < MaxLines
    BY <1>3 DEF Insert, Base, TypeOK
  <2>3. \A i \in 1 .. Len(heap[c]) : Append(heap[c], n)[i] = heap[c][i]
    BY <2>2, InsertLine
  <2>4. l \in 1 .. Len(heap[b])
    <3>1. Len(heap[b]) \in Nat /\ base[b] <= Len(heap[b]) /\ base[b] \in Int
      BY LinesAreSeq, PackingAssumption DEF Base, TypeOK, InRelation
    <3> QED BY <3>1
  <2> QED BY <2>1, <2>3, <2>4 DEF Base, TypeOK
<1>4. heap' = heap \/ \E c \in HeapPages : Insert(c)
  BY DEF Next, Scan, BeginPage, LockHeapPage, SkipEmpty, CopyTuple, Overrun, Filled,
     UnlockHeapPage, EndPage, fill,
     vars
<1> QED BY <1>1, <1>2, <1>3, <1>4

\* What is packed stays packed, and a copy packs the tuple at the position.
LEMMA PackedStays ==
  ASSUME Base, [Next]_vars
  PROVE  /\ \A x : IsPacked(x) => IsPacked(x)'
         /\ CopyTuple => \A x : x = <<blkNum, linNum>> => IsPacked(x)'
<1>0. TypeOK /\ Len(PackedPages) \in Nat
  BY PackedType DEF Base
<1>1. CASE Still
  <2>1. PackedPages' = PackedPages
    BY <1>1, StillPacked
  <2>2. ~CopyTuple
    <3>1. CopyTuple => Len(page') # Len(page)
      BY AtLine DEF CopyTuple, Base, TypeOK
    <3>2. CopyTuple => page' # page /\ pc = "lines" /\ pc' = "lines"
      BY <3>1 DEF CopyTuple, MoreLines
    <3> QED BY <1>1, <3>2 DEF Still, StartScan, LockHeapPage, SkipEmpty, Overrun, Filled,
            UnlockHeapPage, EndPage, Insert, fill, vars
  <2> QED BY <2>1, <2>2 DEF IsPacked
<1>2. CASE BeginPage
  <2>1. /\ Len(PackedPages') = Len(PackedPages) + 1
        /\ \A i \in 1 .. Len(PackedPages) : PackedPages'[i] = PackedPages[i]
    BY <1>0, <1>2, BeginPacked
  <2>2. 1 .. Len(PackedPages) \subseteq 1 .. Len(PackedPages')
    BY <1>0, <2>1
  <2>3. ~CopyTuple
    BY <1>2 DEF BeginPage, CopyTuple, MoreLines
  <2> QED BY <2>1, <2>2, <2>3 DEF IsPacked
<1>3. CASE CopyTuple
  <2> DEFINE L == Len(PackedPages)
  <2> DEFINE p == <<blkNum, linNum>>
  <2>1. /\ L \in Nat \ {0} /\ Len(PackedPages') = L
        /\ \A i \in 1 .. L : i # L => PackedPages'[i] = PackedPages[i]
        /\ PackedPages[L].items \in Seq(Items)
        /\ PackedPages'[L].items = Append(PackedPages[L].items, p)
        /\ p \in Items
    BY <1>3, CopyPacked
  <2> HIDE DEF L, p
  <2> DEFINE E == Len(PackedPages[L].items)
  <2>2. /\ E \in Nat /\ Len(PackedPages'[L].items) = E + 1
        /\ PackedPages'[L].items[E + 1] = p
        /\ \A m \in 1 .. E : PackedPages'[L].items[m] = PackedPages[L].items[m]
    BY <2>1
  <2> HIDE DEF E
  <2>3. ASSUME NEW x, NEW i \in 1 .. L, NEW m \in 1 .. Len(PackedPages[i].items),
               PackedPages[i].items[m] = x
        PROVE  m \in 1 .. Len(PackedPages'[i].items) /\ PackedPages'[i].items[m] = x
    <3>1. CASE i = L
      BY <2>2, <2>3, <3>1 DEF E
    <3>2. CASE i # L
      BY <2>1, <2>3, <3>2
    <3> QED BY <3>1, <3>2
  <2>4. \A x : IsPacked(x) => IsPacked(x)'
    BY <2>1, <2>3 DEF IsPacked, L
  <2>5. L \in 1 .. Len(PackedPages') /\ E + 1 \in 1 .. Len(PackedPages'[L].items)
    BY <2>1, <2>2
  <2>6. \E i \in 1 .. Len(PackedPages') : \E m \in 1 .. Len(PackedPages'[i].items) :
          PackedPages'[i].items[m] = p
    BY <2>2, <2>5
  <2>7. \E i \in 1 .. Len(PackedPages') : \E m \in 1 .. Len(PackedPages'[i].items) :
          PackedPages'[i].items[m] = <<blkNum, linNum>>
    BY <2>6 DEF p
  <2> QED BY <2>4, <2>7 DEF IsPacked
<1> QED BY <1>1, <1>2, <1>3, StepKinds
\* The position passes a tuple only when it is copied: an empty line has none, and
\* a heap page is left behind its last line.
LEMMA PassedIsEmpty ==
  ASSUME Base, Scanning, Scanning', [Next]_vars, ~CopyTuple,
         NEW b \in HeapPages, NEW l \in 1 .. base[b], heap[b][l] \in Lens, Before(<<b, l>>, Position')
  PROVE  Before(<<b, l>>, Position)
<1>0. /\ NHEAP \in Nat /\ b \in Int /\ b < NHEAP /\ l \in Int /\ l >= 1
      /\ blkNum \in Int /\ linNum \in Int /\ fillState.blkNum \in Int /\ fillState.linNum \in Int
  BY PositionType, PackingAssumption DEF HeapPages, Base
<1>1. CASE BeginPage
  BY <1>1 DEF BeginPage, Position, NextBlk, NextLine
<1>2. CASE LockHeapPage
  BY <1>2 DEF LockHeapPage, Position, NextBlk, NextLine
<1>3. CASE SkipEmpty
  <2>1. Position = <<blkNum, linNum>> /\ Position' = <<blkNum, linNum + 1>>
    BY <1>3 DEF SkipEmpty, MoreLines, Position, NextBlk, NextLine
  <2>2. ~(b = blkNum /\ l = linNum)
    BY <1>0, <1>3, PackingAssumption DEF SkipEmpty, ItemLen
  <2> QED BY <1>0, <2>1, <2>2 DEF Before
<1>10. CASE Overrun
  BY <1>10 DEF Overrun, Scanning
<1>4. CASE Filled
  BY <1>4 DEF Filled, MoreLines, fill, Position, NextBlk, NextLine
<1>5. CASE UnlockHeapPage
  <2>1. Position = <<blkNum, linNum>> /\ Position' = <<blkNum + 1, 0>>
    BY <1>5 DEF UnlockHeapPage, Position, NextBlk, NextLine, Base, InRelation
  <2>2. b = blkNum => l < linNum
    <3>1. Len(heap[b]) \in Nat /\ base[b] <= Len(heap[b]) /\ base[b] \in Int
      BY LinesAreSeq, PackingAssumption DEF Base, TypeOK, InRelation
    <3> QED BY <1>0, <1>5, <3>1 DEF UnlockHeapPage
  <2> QED BY <1>0, <2>1, <2>2 DEF Before
<1>6. CASE EndPage
  <2>1. Position' = <<blkNum, linNum>>
    BY <1>6 DEF EndPage, SavedPosition, Position, NextBlk, NextLine, Scanning, Base, TypeOK
  <2>2. CASE pc = "endPage"
    BY <2>1, <2>2 DEF Position, NextBlk, NextLine
  <2>3. CASE pc = "heapPage" /\ blkNum >= fillState.nBlks
    BY <1>0, <2>3 DEF Before, Position, NextBlk, NextLine, Base, InRelation
  <2> QED BY <1>6, <2>2, <2>3 DEF EndPage
<1>7. ASSUME NEW c \in HeapPages, Insert(c) PROVE Before(<<b, l>>, Position)
  BY <1>7 DEF Insert, fill, Position, NextBlk, NextLine
<1>8. CASE UNCHANGED vars
  BY <1>8 DEF vars, fill, Position, NextBlk, NextLine
<1>9. ~StartScan
  BY DEF StartScan, Scanning
<1> QED BY <1>1, <1>2, <1>3, <1>4, <1>5, <1>6, <1>7, <1>8, <1>9, <1>10 DEF Next, Scan

\* Every tuple the position has passed is packed, and at the end it has passed all.
LEMMA CoveredStep ==
  ASSUME Base, EmptyIsEnd, Covered, [Next]_vars
  PROVE  Covered'
<1>0. NHEAP \in Nat /\ (pc # "idle" => fillState.nBlks = NHEAP)
  BY PackingAssumption DEF Base, InRelation
<1>1. CASE StartScan
  <2>1. pc' = "newPage" /\ Position' = <<0, 0>>
    BY <1>1 DEF StartScan, Position, NextBlk, NextLine
  <2>2. \A b \in HeapPages : \A l \in 1 .. base'[b] : ~Before(<<b, l>>, Position')
    <3> SUFFICES ASSUME NEW b \in HeapPages, NEW l \in 1 .. base'[b] PROVE ~Before(<<b, l>>, <<0, 0>>)
      BY <2>1
    <3>1. b \in Int /\ 0 <= b /\ l \in Int /\ 1 <= l
      BY <1>0 DEF HeapPages
    <3> QED BY <3>1 DEF Before
  <2> QED BY <2>1, <2>2 DEF Covered, ScanComplete
<1>2. CASE ~StartScan
  <2>1. ASSUME Scanning', NEW b \in HeapPages, NEW l \in 1 .. base'[b], heap'[b][l] \in Lens,
               Before(<<b, l>>, Position')
        PROVE  IsPacked(<<b, l>>)'
    <3>1. Scanning
      BY <1>2, <2>1 DEF Scanning, Base, TypeOK, Next, Scan, BeginPage, LockHeapPage, SkipEmpty,
         CopyTuple, Overrun, Filled, UnlockHeapPage, EndPage, MoreLines, Insert, vars
    <3>2. base' = base
      BY <1>2 DEF Next, Scan, BeginPage, LockHeapPage, SkipEmpty, CopyTuple, Overrun, Filled,
         UnlockHeapPage, EndPage, fill, Insert, vars
    <3>3. l \in 1 .. base[b] /\ heap[b][l] \in Lens
      BY <1>2, <2>1, <3>2, LinesStay
    <3>4. CASE ~CopyTuple
      BY <2>1, <3>1, <3>3, <3>4, PassedIsEmpty, PackedStays DEF Covered
    <3>5. CASE CopyTuple
      <4>1. /\ Position = <<blkNum, linNum>> /\ Position' = <<blkNum, linNum + 1>>
            /\ blkNum \in Int /\ linNum \in Int /\ b \in Int /\ l \in Int
        BY <1>0, <3>5, PositionType DEF CopyTuple, MoreLines, Position, NextBlk, NextLine, Base,
           HeapPages
      <4>2. CASE b = blkNum /\ l = linNum
        BY <3>5, <4>2, PackedStays
      <4>3. CASE ~(b = blkNum /\ l = linNum)
        <5>1. Before(<<b, l>>, Position)
          BY <2>1, <4>1, <4>3 DEF Before
        <5> QED BY <3>1, <3>3, <5>1, PackedStays DEF Covered
      <4> QED BY <4>2, <4>3
    <3> QED BY <3>4, <3>5
  <2>2. ASSUME pc' = "done", NEW b \in HeapPages, NEW l \in 1 .. base'[b], heap'[b][l] \in Lens
        PROVE  IsPacked(<<b, l>>)'
    <3>2. base' = base
      BY <1>2 DEF Next, Scan, BeginPage, LockHeapPage, SkipEmpty, CopyTuple, Overrun, Filled,
         UnlockHeapPage, EndPage, fill, Insert, vars
    <3>3. l \in 1 .. base[b] /\ heap[b][l] \in Lens
      BY <1>2, <2>2, <3>2, LinesStay
    <3>4. CASE pc = "done"
      BY <3>3, <3>4, PackedStays DEF Covered, ScanComplete
    <3>5. CASE pc # "done"
      <4>1. EndPage /\ page = << >>
        BY <2>2, <3>5 DEF Next, Scan, StartScan, BeginPage, LockHeapPage, SkipEmpty, CopyTuple,
           Overrun, Filled, UnlockHeapPage, EndPage, MoreLines, Insert, vars
      <4>2. pc = "heapPage" /\ blkNum >= NHEAP
        BY <4>1, EmptyAtEnd
      <4>3. Before(<<b, l>>, Position)
        BY <1>0, <4>2, PositionType DEF Before, Position, NextBlk, NextLine, HeapPages, Base
      <4> QED BY <3>3, <4>2, <4>3, PackedStays DEF Covered, Scanning
    <3> QED BY <3>4, <3>5
  <2> QED BY <2>1, <2>2 DEF Covered, ScanComplete
<1> QED BY <1>1, <1>2

---------------------------------------------------------------------------
(* Theorems *)

\* Types, bounds and order need no assumption about prune hints.
THEOREM OrderInv == FairSpec => [](Base /\ InOrder)
<1>1. Init => Base /\ InOrder
  <2>1. Init => InOrder
    BY DEF Init, InOrder, InOrderOnce, Scanning, PackedPages
  <2> QED BY <2>1, BaseInit
<1>2. Base /\ InOrder /\ [Next]_vars => (Base /\ InOrder)'
  BY BaseStep, InOrderStep
<1> QED BY <1>1, <1>2, PTL DEF FairSpec, Spec

\* Every variable keeps its type, for every relation and page size: no line pointer
\* and no heap page outside the relation is looked at.
THEOREM TypeCorrect == FairSpec => []TypeOK
<1>1. Base => TypeOK
  BY DEF Base
<1> QED BY <1>1, OrderInv, PTL

\* Whatever the lengths of tuples, of lines without a tuple and of prune hints:
\* memcpy leaves a packed page only at a line whose length is negative, and the
\* count of a finished page reads back as the number of its tuples.
THEOREM PageBounds == FairSpec => []PagesWellFormed
<1>1. Base => PagesWellFormed
  BY DEF Base, InPage
<1> QED BY <1>1, OrderInv, PTL

\* Tuples are packed in heap order and none twice, whatever other backends insert.
THEOREM PackedInOrder == FairSpec => []InOrderOnce
<1>1. InOrder => InOrderOnce
  BY DEF InOrder
<1> QED BY <1>1, OrderInv, PTL

\* The inductive invariant, where a prune hint does not look longer than a page.
THEOREM Inductive == ASSUME PhantomFits PROVE FairSpec => []IInv
<1>1. Init => EmptyIsEnd /\ Covered
  BY DEF Init, EmptyIsEnd, EmptyPagesLast, Covered, ScanComplete, Scanning
<1>2. Base /\ EmptyIsEnd /\ Covered /\ [Next]_vars => (EmptyIsEnd /\ Covered)'
  BY EmptyStep, CoveredStep
<1>3. Base /\ InOrder /\ EmptyIsEnd /\ Covered => IInv
  BY DEF Base, IInv
<1> QED BY <1>1, <1>2, <1>3, OrderInv, PTL DEF FairSpec, Spec

\* An empty packed page ends the data.
THEOREM EmptyLast == ASSUME PhantomFits PROVE FairSpec => []EmptyPagesLast
<1>1. IInv => EmptyPagesLast
  BY DEF IInv, EmptyIsEnd
<1> QED BY <1>1, Inductive, PTL

\* Every tuple that was there when the scan started is packed when it ends.
THEOREM Complete == ASSUME PhantomFits PROVE FairSpec => []ScanComplete
<1>1. IInv => ScanComplete
  BY DEF IInv, Covered
<1> QED BY <1>1, Inductive, PTL
===========================================================================
