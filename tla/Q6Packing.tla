----------------------------- MODULE Q6Packing -----------------------------
(***************************************************************************)
(* How tuples get from the heap of a PostgreSQL relation into the pages    *)
(* the kernel reads: xql6FillBlock and xql6GetNextPage.                    *)
(*                                                                         *)
(* A packed page is a 2-byte tuple count and the tuples' data, back to     *)
(* back, without their heap headers.  The scan position (heap page, line)  *)
(* is kept in Xql6FillState between packed pages, and a heap page that did *)
(* not fit is unlocked and visited again: other backends may insert into   *)
(* it meanwhile.  A tuple is named by its heap page and line number; of    *)
(* its data only the length matters here.                                  *)
(*                                                                         *)
(* The length is an int, lp_len - t_hoff, and is negative where a line is  *)
(* no tuple: the fit test then passes and memcpy is handed a negative      *)
(* length as a size_t.                                                     *)
(***************************************************************************)
EXTENDS Integers, Sequences, FiniteSets

CONSTANTS
  PAGE_SZ,         \* bytes of a packed page (XQL_PAGE_SZ, 8192 in the code)
  PAGES_PER_BLK,   \* packed pages of a block (256 in the code)
  NHEAP,           \* bound: heap pages of the relation
  MaxLines,        \* bound: line pointers of a heap page
  SIZE_MOD,        \* values of a size_t (2^64 in the code)
  BYTE,            \* values of an unsigned char (256 in the code)
  Lens,            \* data lengths of live tuples
  DeadLens,        \* lengths that lines without a tuple decode to (see ItemLen)
  PhantomLens,     \* lengths that line number 0 decodes to (see ItemLen)
  MaxInserts       \* bound: tuples other backends insert during the scan

ASSUME PackingAssumption ==
  /\ PAGE_SZ \in Nat /\ PAGE_SZ > 2 /\ PAGES_PER_BLK \in Nat \ {0}
  /\ NHEAP \in Nat /\ MaxLines \in Nat /\ MaxInserts \in Nat
  /\ Lens \subseteq Nat \ {0} /\ PhantomLens \subseteq Int
  /\ DeadLens \subseteq {n \in Int : n <= 0}
  \* A heap tuple fits a heap page with its 24 byte header and its line pointer.
  /\ \A n \in Lens : n + 2 < PAGE_SZ
  \* Lengths are 16 bits less 8 bits: a size_t holds the positive ones as they
  \* are, and turns a negative one into more than a page.
  /\ SIZE_MOD \in Nat /\ PAGE_SZ < SIZE_MOD
  /\ \A n \in PhantomLens \cup DeadLens : PAGE_SZ < n + SIZE_MOD /\ n < SIZE_MOD
  \* The two bytes hold the number of tuples a page can have.
  /\ BYTE \in Nat \ {0} /\ PAGE_SZ <= BYTE * BYTE

HeapPages == 0 .. NHEAP - 1
Items == HeapPages \X (0 .. MaxLines)

\* Line pointers of one heap page, by the length each decodes to.
LineArrays == UNION {[1 .. m -> Lens \cup DeadLens] : m \in 0 .. MaxLines}

VARIABLES
  heap,        \* heap[b]: data lengths behind the line pointers of page b
  phantom,     \* phantom[b]: what the word before the line pointers decodes to
  base,        \* lines each page had when the scan started
  pc,
  fillState,   \* Xql6FillState: blkNum, linNum, nBlks
  blkNum, linNum,    \* locals of xql6GetNextPage
  used,        \* p_dst - p_buf
  page,        \* tuples copied into the current packed page
  pages,       \* packed pages finished
  pgNum,       \* packed pages finished in the current block
  bRealPages,
  inserts

fill == <<fillState, blkNum, linNum, used, page, pages, pgNum, bRealPages>>
vars == <<heap, phantom, base, pc, fill, inserts>>

\* int tuple_data_len = lp_len - t_hoff.  A line without a tuple has lp_len 0 and
\* a t_hoff that is some byte of the page: of pd_prune_xid for an unused or dead
\* line (lp_off 0), of pd_prune_xid or the line pointers for LP_REDIRECT (lp_off
\* is the line it leads to).  Line pointers are numbered from 1; number 0 is the
\* word before them, pd_prune_xid itself, read as a line pointer: 0 on a page
\* without prune hint, negative for a small hint, positive for others.
ItemLen(b, l) == IF l = 0 THEN phantom[b] ELSE heap[b][l]

Init ==
  /\ heap \in [HeapPages -> LineArrays]
  /\ phantom \in [HeapPages -> PhantomLens]
  /\ base = [b \in HeapPages |-> Len(heap[b])]
  /\ pc = "idle"
  /\ fillState = [blkNum |-> 0, linNum |-> 0, nBlks |-> 0]
  /\ blkNum = 0 /\ linNum = 0 /\ used = 0 /\ page = << >> /\ pages = << >>
  /\ pgNum = 0 /\ bRealPages = TRUE /\ inserts = 0

\* The caller reads the relation's size and sets the fill state.
StartScan ==
  /\ pc = "idle"
  /\ fillState' = [blkNum |-> 0, linNum |-> 0, nBlks |-> NHEAP]
  /\ base' = [b \in HeapPages |-> Len(heap[b])]
  /\ pc' = "newPage"
  /\ UNCHANGED <<heap, phantom, blkNum, linNum, used, page, pages, pgNum, bRealPages, inserts>>

\* xql6GetNextPage starts: two bytes are kept for the tuple count.  The local
\* linNum is not initialised: behind the last heap page, where the loop does not
\* set it, it is saved as it is.
BeginPage ==
  /\ pc = "newPage"
  /\ used' = 2 /\ page' = << >> /\ blkNum' = fillState.blkNum
  /\ linNum' \in IF blkNum' < fillState.nBlks THEN {0} ELSE 0 .. MaxLines + 1
  /\ pc' = "heapPage"
  /\ UNCHANGED <<heap, phantom, base, fillState, pages, pgNum, bRealPages, inserts>>

\* Read and share-lock the next heap page.
LockHeapPage ==
  /\ pc = "heapPage" /\ blkNum < fillState.nBlks
  /\ linNum' = fillState.linNum
  /\ fillState' = [fillState EXCEPT !.linNum = 0]
  /\ pc' = "lines"
  /\ UNCHANGED <<heap, phantom, base, blkNum, used, page, pages, pgNum, bRealPages, inserts>>

MoreLines == pc = "lines" /\ linNum <= Len(heap[blkNum])

\* Mutants: the line number is not advanced, or advanced twice.
SkipEmptyStuck ==
  /\ MoreLines /\ ItemLen(blkNum, linNum) = 0
  /\ UNCHANGED vars

SkipEmptyTwice ==
  /\ MoreLines /\ ItemLen(blkNum, linNum) = 0
  /\ linNum' = linNum + 2
  /\ UNCHANGED <<heap, phantom, base, pc, fillState, blkNum, used, page, pages, pgNum,
                 bRealPages, inserts>>

SkipEmpty ==
  /\ MoreLines /\ ItemLen(blkNum, linNum) = 0
  /\ linNum' = linNum + 1
  /\ UNCHANGED <<heap, phantom, base, pc, fillState, blkNum, used, page, pages, pgNum,
                 bRealPages, inserts>>

\* Mutant: the two bytes of the count are not subtracted from the page.
FitsWithoutHeader(n) == used - 2 + n < PAGE_SZ

\* if (p_dst + tuple_data_len < p_dstEnd)
Fits(n) == used + n < PAGE_SZ

\* The size memcpy is given: the int converted to a size_t.
CopySize(n) == n % SIZE_MOD

CopyTuple ==
  /\ MoreLines /\ ItemLen(blkNum, linNum) # 0 /\ Fits(ItemLen(blkNum, linNum))
  /\ used + CopySize(ItemLen(blkNum, linNum)) <= PAGE_SZ
  /\ used' = used + ItemLen(blkNum, linNum)
  /\ page' = Append(page, <<blkNum, linNum>>)
  /\ linNum' = linNum + 1
  /\ UNCHANGED <<heap, phantom, base, pc, fillState, blkNum, pages, pgNum, bRealPages, inserts>>

\* memcpy writes past the end of the packed page.  With a negative length it runs
\* through the address space and the backend dies.
Overrun ==
  /\ MoreLines /\ ItemLen(blkNum, linNum) # 0 /\ Fits(ItemLen(blkNum, linNum))
  /\ used + CopySize(ItemLen(blkNum, linNum)) > PAGE_SZ
  /\ pc' = "overrun"
  /\ UNCHANGED <<heap, phantom, base, fill, inserts>>

\* The tuple does not fit: unlock the heap page and close the packed page.
Filled ==
  /\ MoreLines /\ ItemLen(blkNum, linNum) # 0 /\ ~Fits(ItemLen(blkNum, linNum))
  /\ pc' = "endPage"
  /\ UNCHANGED <<heap, phantom, base, fill, inserts>>

\* Mutant: the packed page ends with the heap page.
UnlockHeapPageFilled ==
  /\ pc = "lines" /\ linNum > Len(heap[blkNum])
  /\ blkNum' = blkNum + 1
  /\ pc' = "endPage"
  /\ UNCHANGED <<heap, phantom, base, fillState, linNum, used, page, pages, pgNum, bRealPages, inserts>>

UnlockHeapPage ==
  /\ pc = "lines" /\ linNum > Len(heap[blkNum])
  /\ blkNum' = blkNum + 1
  /\ pc' = "heapPage"
  /\ UNCHANGED <<heap, phantom, base, fillState, linNum, used, page, pages, pgNum, bRealPages, inserts>>

\* Mutants: the line is not saved, or the one after it is.
SavedPageOnly == [fillState EXCEPT !.blkNum = blkNum]
SavedNextLine == [fillState EXCEPT !.blkNum = blkNum, !.linNum = linNum + 1]

\* The position the next packed page starts from.
SavedPosition == [fillState EXCEPT !.blkNum = blkNum, !.linNum = linNum]

\* xql6FillBlock: the pages of a block are numbered from 0.
NextPgNum == (pgNum + 1) % PAGES_PER_BLK

\* p_buf[0] and p_buf[1]: the low and the high byte of nTups.
CountBytes(n) == <<n % BYTE, (n \div BYTE) % BYTE>>

PackedPage == [size |-> used, count |-> CountBytes(Len(page)), items |-> page]

\* Write the tuple count, save the position, return to xql6FillBlock; the block
\* is complete after PAGES_PER_BLK pages and the caller goes on to the next one
\* while the last page of this one held tuples.
EndPage ==
  /\ \/ pc = "endPage"
     \/ pc = "heapPage" /\ blkNum >= fillState.nBlks
  /\ pages' = Append(pages, PackedPage)
  /\ fillState' = SavedPosition
  /\ bRealPages' = (page # << >>)
  /\ pgNum' = NextPgNum
  /\ pc' = IF NextPgNum = 0 /\ page = << >> THEN "done" ELSE "newPage"
  /\ UNCHANGED <<heap, phantom, base, blkNum, linNum, used, page, inserts>>

\* Another backend adds a tuple to a heap page that is not locked here.  (When a
\* backend dies the postmaster ends all others.)
Insert(b) ==
  /\ pc # "overrun" /\ inserts < MaxInserts
  /\ Len(heap[b]) < MaxLines
  /\ ~ (pc = "lines" /\ b = blkNum)
  /\ \E n \in Lens : heap' = [heap EXCEPT ![b] = Append(@, n)]
  /\ inserts' = inserts + 1
  /\ UNCHANGED <<phantom, base, pc, fill>>

Scan ==
  \/ StartScan \/ BeginPage \/ LockHeapPage \/ SkipEmpty \/ CopyTuple \/ Overrun \/ Filled
  \/ UnlockHeapPage \/ EndPage

Next == Scan \/ \E b \in HeapPages : Insert(b)

Spec == Init /\ [][Next]_vars

\* The backend runs until the scan is over.
FairSpec == Spec /\ WF_vars(Scan)

---------------------------------------------------------------------------
(* Properties *)

PageType == [size : Nat, count : (0 .. BYTE - 1) \X (0 .. BYTE - 1), items : Seq(Items)]

\* Every variable keeps to the values the code can give it.
TypeOK ==
  /\ heap \in [HeapPages -> LineArrays]
  /\ phantom \in [HeapPages -> PhantomLens]
  /\ base \in [HeapPages -> 0 .. MaxLines]
  /\ pc \in {"idle", "newPage", "heapPage", "lines", "endPage", "overrun", "done"}
  /\ fillState \in [blkNum : 0 .. NHEAP, linNum : 0 .. MaxLines + 1, nBlks : {0, NHEAP}]
  /\ blkNum \in 0 .. NHEAP /\ linNum \in 0 .. MaxLines + 1
  /\ used \in Nat /\ pgNum \in 0 .. PAGES_PER_BLK - 1
  /\ page \in Seq(Items) /\ pages \in Seq(PageType)
  /\ bRealPages \in BOOLEAN /\ inserts \in 0 .. MaxInserts

\* The packed pages, the one being filled included.
PackedPages ==
  IF pc \in {"lines", "heapPage", "endPage", "overrun"}
  THEN Append(pages, PackedPage)
  ELSE pages

Before(x, y) == x[1] < y[1] \/ (x[1] = y[1] /\ x[2] < y[2])

\* Tuples are packed in heap order and none twice, across packed pages and
\* blocks: the saved position (xql6.c:472-473) never revisits a line although
\* the heap page was unlocked and may have grown.
InOrderOnce ==
  \A i, j \in 1 .. Len(PackedPages) :
    \A m \in 1 .. Len(PackedPages[i].items), n \in 1 .. Len(PackedPages[j].items) :
      i < j \/ (i = j /\ m < n) => Before(PackedPages[i].items[m], PackedPages[j].items[n])

IsPacked(x) ==
  \E i \in 1 .. Len(PackedPages) :
    \E m \in 1 .. Len(PackedPages[i].items) : PackedPages[i].items[m] = x

\* Every tuple that was there when the scan started is packed by the time the
\* loop ends: a last page without tuples (xql6.c:401) really means that the
\* relation is exhausted, and no tuple is lost where a packed page, a heap page
\* or a block ends.
ScanComplete ==
  pc = "done" =>
    \A b \in HeapPages : \A l \in 1 .. base[b] : heap[b][l] \in Lens => IsPacked(<<b, l>>)

\* The tuples of a packed page stay inside its PAGE_SZ bytes, also where the last
\* one comes within a byte of the end (xql6.c:442): what is behind them is the
\* next page's count, or the end of the mapped buffer.  The one thing that makes
\* memcpy leave the page is a line without a tuple whose length is negative.  And
\* the two bytes of a finished page read back as the number of its tuples.
PagesWellFormed ==
  /\ used <= PAGE_SZ
  /\ pc = "overrun" => ItemLen(blkNum, linNum) < 0
  /\ \A i \in 1 .. Len(pages) :
       /\ pages[i].size <= PAGE_SZ
       /\ pages[i].count[1] + BYTE * pages[i].count[2] = Len(pages[i].items)

\* An empty packed page ends the data: no page after it holds tuples, so the
\* pages the kernel is given behind the end of the relation add nothing.
EmptyPagesLast ==
  \A i, j \in 1 .. Len(pages) :
    i < j /\ pages[i].items = << >> => pages[j].items = << >>

\* The scan ends, or the backend dies of an overrun: a packed page that takes no
\* tuple is only produced when no tuple is left.
ScanEnds == <>(pc \in {"done", "overrun"})

===========================================================================
