------------------------------ MODULE Q6Swemu ------------------------------
(***************************************************************************)
(* What a block of pages adds up to: the software emulation (q6_swemu,     *)
(* q6_paged and the parser under them) and the parser and conversions of   *)
(* the two kernels (TupParser, snumToLong3, getJdate, agg), byte by byte,  *)
(* against Query 6 on the values of the tuples.                            *)
(*                                                                         *)
(* They take the bytes of a page in different ways.  The emulation loads   *)
(* words of WORD_SZ bytes and skips a field by whole words; a kernel reads *)
(* a stream that runs on from page to page, byte by byte, so it must skip  *)
(* each page to its end.  The kernel of xql6p2p gets heap pages as they    *)
(* are on disk and first takes the tuples out of them (getHeaderInt2).     *)
(* Lengths, alignment, numerics and dates are those of PostgreSQL.         *)
(*                                                                         *)
(* All are sequential; what happens between processes is in Q6PU.          *)
(***************************************************************************)
EXTENDS Integers, Sequences, FiniteSets, SequencesExt

CONSTANTS
  PAGE_SZ,     \* bytes of a page (8192 in the code)
  Blocks,      \* the blocks considered: sequences of pages, a page a sequence of tuples
  Hints        \* values of pd_prune_xid on a heap page, 0 where nothing is to be pruned

WORD_SZ == 8
DATE_SZ == 4

\* A tuple of lineitem: cents of the four numeric(15,2), a date in days after
\* 2000-01-01 and the length of l_comment.  The rest is constant.
Tuple == [qty : Int, ext : Int, dsc : Int, tax : Int, shp : Int, text : 0 .. 44]

---------------------------------------------------------------------------
(* PostgreSQL's side: how the values are stored. *)

Filler(n) == [i \in 1 .. n |-> 170]

\* A short varlena: a length byte that counts itself, then the data.
Varlena(bytes) == <<2 * (Len(bytes) + 1) + 1>> \o bytes

\* Digits to base 10000 without leading and trailing zeros; the weight is the
\* exponent of the first one.  Header: short form, sign, scale 2, weight.
Numeric(c) ==
  LET mag == IF c < 0 THEN -c ELSE c
      all == <<mag \div 1000000, (mag \div 100) % 10000, (mag % 100) * 100>>
      nonzero == {i \in 1 .. 3 : all[i] # 0}
      first == CHOOSE i \in nonzero : \A j \in nonzero : i <= j
      last == CHOOSE i \in nonzero : \A j \in nonzero : j <= i
      digits == IF nonzero = {} THEN << >> ELSE SubSeq(all, first, last)
      weight == IF nonzero = {} THEN 0 ELSE 2 - first
  IN  <<weight % 128, 129 + (IF c < 0 THEN 32 ELSE 0)>>
        \o [i \in 1 .. 2 * Len(digits) |->
              IF i % 2 = 1 THEN digits[(i + 1) \div 2] % 256 ELSE digits[i \div 2] \div 256]

\* Four bytes, little end first, two's complement.
Date(d) == <<d % 256, (d \div 256) % 256, (d \div 65536) % 256, (d \div 16777216) % 256>>

Aligned(n) == 4 * ((n + 3) \div 4)

\* The 16 fields of a tuple; the first date is aligned.
FieldBytes(t) ==
  LET front == <<Filler(8), Filler(8), Filler(8), Filler(4),
                 Varlena(Numeric(t.qty)), Varlena(Numeric(t.ext)), Varlena(Numeric(t.dsc)),
                 Varlena(Numeric(t.tax)), Varlena(Filler(1)), Varlena(Filler(1))>>
      off == Len(FlattenSeq(front))
  IN  front \o <<Filler(Aligned(off) - off) \o Date(t.shp), Date(t.shp + 30), Date(t.shp + 60),
                 Varlena(Filler(25)), Varlena(Filler(10)), Varlena(Filler(t.text))>>

TupleBytes(t) == FlattenSeq(FieldBytes(t))

\* What xql6GetNextPage makes of them: the count, the tuples, dead space.
PageBytes(tups) ==
  LET used == <<Len(tups) % 256, Len(tups) \div 256>>
                \o FlattenSeq([i \in 1 .. Len(tups) |-> TupleBytes(tups[i])])
  IN  used \o [i \in 1 .. PAGE_SZ - Len(used) |-> 0]

\* A heap page as it is on disk: header, line pointers, room, tuples from the end
\* down.  Behind the first line pointer there is one without storage: of a dead
\* tuple, or a redirection to the last line.  A page that was never used is zero.
SizeOfPageHeaderData == 24
ItemIdSz == 4

LittleEnd(x, n) == [i \in 1 .. n |-> (x \div 256 ^ (i - 1)) % 256]
MaxAligned(n) == 8 * ((n + 7) \div 8)

\* 23 bytes of header, the last of which is t_hoff, and one to align the data.
HeapTuple(t) == Filler(22) \o <<24, 0>> \o TupleBytes(t)

\* lp_off, lp_flags and lp_len in 15, 2 and 15 bits: two halves of 16.
LinePointer(off, flags, len) ==
  LittleEnd(off + (flags % 2) * 32768, 2) \o LittleEnd(flags \div 2 + 2 * len, 2)

LP_NORMAL == 1
LP_REDIRECT == 2
LP_DEAD == 3

PageKinds == [hint : Hints, empty : {LP_REDIRECT, LP_DEAD}]
Clean == [hint |-> 0, empty |-> LP_DEAD]

HeapPageUsed(tups) ==
  SizeOfPageHeaderData + ItemIdSz * (Len(tups) + 1)
    + FoldLeft(LAMBDA n, t : n + MaxAligned(Len(HeapTuple(t))), 0, tups)

HeapPageBytes(tups, kind) ==
  LET n == Len(tups)
      size(i) == MaxAligned(Len(HeapTuple(tups[i])))
      off[i \in 0 .. n] == IF i = 0 THEN PAGE_SZ ELSE off[i - 1] - size(i)
      line(i) == LinePointer(off[i], LP_NORMAL, Len(HeapTuple(tups[i])))
      target == IF kind.empty = LP_REDIRECT THEN IF n = 1 THEN 1 ELSE n + 1 ELSE 0
      lines == line(1) \o LinePointer(target, kind.empty, 0)
                 \o FlattenSeq([i \in 1 .. n - 1 |-> line(i + 1)])
      lower == SizeOfPageHeaderData + Len(lines)
      items == FlattenSeq([i \in 1 .. n |->
                 LET t == HeapTuple(tups[n + 1 - i])
                 IN  t \o [k \in 1 .. MaxAligned(Len(t)) - Len(t) |-> 0]])
  IN  IF n = 0 THEN [k \in 1 .. PAGE_SZ |-> 0]
      ELSE Filler(12) \o LittleEnd(lower, 2) \o Filler(6) \o LittleEnd(kind.hint, 4) \o lines
             \o [k \in 1 .. off[n] - lower |-> 0] \o items

\* The blocks that also fit into heap pages.
HeapBlocks == {b \in Blocks : \A p \in 1 .. Len(b) : HeapPageUsed(b[p]) <= PAGE_SZ}

ASSUME SwemuAssumption ==
  /\ PAGE_SZ \in Nat \ {0} /\ PAGE_SZ % WORD_SZ = 0
  /\ 0 \in Hints /\ \A x \in Hints : x \in Nat /\ (x % 32768) + 22 < PAGE_SZ
  /\ \A b \in Blocks : \A p \in 1 .. Len(b) :
       /\ b[p] \in Seq(Tuple)
       /\ 2 + Len(FlattenSeq([i \in 1 .. Len(b[p]) |-> TupleBytes(b[p][i])])) <= PAGE_SZ

---------------------------------------------------------------------------

VARIABLES
  who,         \* "swemu", "kernel" (of xql6) or "p2p" (the kernel of xql6p2p)
  block,       \* the tuples of each page
  pages,       \* the bytes of each page; in "p2p" as getHeaderInt2 has handed them on
  pc, page, tup, nTups, fPtr, fLen,
  rd,          \* where the reader is
  fields,      \* columns of this tuple converted so far
  sum          \* q6_sum

vars == <<who, block, pages, pc, page, tup, nTups, fPtr, fLen, rd, fields, sum>>

\* Bytes at the start of a page that are not for the parser.
HDR == IF who = "p2p" THEN 0 ELSE 2

\* swemu: statics off, woff, woffMax, bufIdx and where p_word was loaded from.
\* Kernels: off, pgOff and the place in the stream.  All: the last byte read,
\* and that there was none.
resetBuf(r) ==
  [r EXCEPT !.bufIdx = 0, !.woff = WORD_SZ, !.woffMax = WORD_SZ, !.pgOff = HDR]

Init ==
  /\ who \in {"swemu", "kernel", "p2p"}
  /\ block \in IF who = "p2p" THEN HeapBlocks ELSE Blocks
  /\ IF who = "p2p"
       THEN \E odd \in 1 .. Len(block), kind \in PageKinds :
              pages = [p \in 1 .. Len(block) |->
                        HeapPageBytes(block[p], IF p = odd THEN kind ELSE Clean)]
       ELSE pages = [p \in 1 .. Len(block) |-> PageBytes(block[p])]
  /\ pc = "page" /\ page = 1 /\ tup = 0 /\ nTups = 0 /\ fPtr = 0 /\ fLen = 0
  /\ rd = [bufIdx |-> 0, woff |-> WORD_SZ, woffMax |-> WORD_SZ, word |-> 0,
           pos |-> 0, pgOff |-> HDR, off |-> 0, ch |-> 0, eof |-> FALSE]
  /\ fields = << >> /\ sum = 0

---------------------------------------------------------------------------
(* The reader of the emulation *)

\* Mutant: the end of the page is not noticed.
getWordUnguarded(r) ==
  [r EXCEPT !.word = r.bufIdx, !.bufIdx = @ + WORD_SZ, !.woffMax = WORD_SZ]

\* Its result is assigned to woffMax.
getWord(r) ==
  IF r.bufIdx >= PAGE_SZ THEN [r EXCEPT !.woffMax = 0]
  ELSE [r EXCEPT !.word = r.bufIdx, !.bufIdx = @ + WORD_SZ, !.woffMax = WORD_SZ]

swemuGetByte(r) ==
  LET s == IF r.woff = r.woffMax THEN [getWord(r) EXCEPT !.woff = 0] ELSE r
  IN  IF s.woff = s.woffMax THEN [s EXCEPT !.eof = TRUE]
      ELSE [s EXCEPT !.ch = pages[page][s.word + s.woff + 1], !.off = @ + 1, !.woff = @ + 1]

\* Mutant: a field that ends with its word leaves the word in place.
swemuSkipBytesLazy(r, n) ==
  LET loads[i \in Nat] == IF i = 0 THEN r ELSE getWord(loads[i - 1])
  IN  [loads[(r.woff + n - 1) \div WORD_SZ] EXCEPT !.off = @ + n, !.woff = (r.woff + n) % WORD_SZ]

\* As many words are loaded as the field ends behind.
swemuSkipBytes(r, n) ==
  LET loads[i \in Nat] == IF i = 0 THEN r ELSE getWord(loads[i - 1])
  IN  [loads[(r.woff + n) \div WORD_SZ] EXCEPT !.off = @ + n, !.woff = (r.woff + n) % WORD_SZ]

---------------------------------------------------------------------------
(* TupParser, the reader of the kernel *)

\* The bytes of the block one after another.
Stream(i) ==
  LET p == (i \div PAGE_SZ) + 1 IN IF p > Len(pages) THEN 0 ELSE pages[p][(i % PAGE_SZ) + 1]

\* The code counts off in the callers of getByte, once for every byte of a tuple.
kernelGetByte(r) ==
  [r EXCEPT !.ch = Stream(r.pos), !.pos = @ + 1, !.pgOff = @ + 1, !.off = @ + 1]

kernelSkipBytes(r, n) == [r EXCEPT !.pos = @ + n, !.pgOff = @ + n, !.off = @ + n]

skipToPageEnd(r) == [r EXCEPT !.pos = @ + PAGE_SZ - r.pgOff, !.pgOff = PAGE_SZ]

---------------------------------------------------------------------------
(* getHeaderInt2 of xql6p2p *)

\* A number of n bytes at offset o.
NumberAt(p, o, n) == FoldLeft(LAMBDA x, i : 256 * x + p[o + n - i + 1], 0, [i \in 1 .. n |-> i])

nLines(p) ==
  LET pd_lower == NumberAt(p, 12, 2)
  IN  IF pd_lower <= SizeOfPageHeaderData THEN 0
      ELSE (pd_lower - SizeOfPageHeaderData) \div ItemIdSz

lp_flags(p, linp) == NumberAt(p, linp, 2) \div 32768 + 2 * (NumberAt(p, linp + 2, 2) % 2)

\* Mutant: negative lengths are passed over, and lines of length 0 are not.
PassedOverNegative(tuple_data_len) == tuple_data_len < 0

\* if (tuple_data_len == 0) continue
PassedOver(tuple_data_len) == tuple_data_len = 0

\* One line pointer, from number 0 on, which is the pd_prune_xid before the
\* array.  Whatever it holds is taken for a tuple unless its length comes out as 0;
\* a negative length hands on no byte, counts a tuple and moves outcnt back.
\* Tuples are taken while they fit.  "stray": a line was taken that has no storage.
TakeLine(p, taken, linNum) ==
  LET linp == SizeOfPageHeaderData + (linNum - 1) * ItemIdSz
      lp_offset == NumberAt(p, linp, 2) % 32768
      lp_len == NumberAt(p, linp + 2, 2) \div 2
      t_hoff == p[lp_offset + 22 + 1]
      tuple_data_len == lp_len - t_hoff
  IN  IF taken.break \/ PassedOver(tuple_data_len) THEN taken
      ELSE IF taken.outcnt + tuple_data_len < PAGE_SZ
      THEN [taken EXCEPT !.out = @ \o SubSeq(p, lp_offset + t_hoff + 1, lp_offset + lp_len),
                         !.outcnt = @ + tuple_data_len, !.nTups = @ + 1,
                         !.stray = @ \/ linNum = 0 \/ lp_flags(p, linp) # LP_NORMAL]
      ELSE [taken EXCEPT !.break = TRUE]

\* The page from offset n on; what lies before its array is anything.
PageFrom(p, n) == IF n >= 0 THEN SubSeq(p, n + 1, PAGE_SZ) ELSE Filler(-n) \o p

\* The tuples of a heap page, their count, and the rest of the page behind them.
getHeaderInt2(p) ==
  LET taken == FoldLeft(LAMBDA t, linNum : TakeLine(p, t, linNum),
                        [out |-> << >>, outcnt |-> 0, nTups |-> 0, break |-> FALSE, stray |-> FALSE],
                        [k \in 1 .. nLines(p) + 1 |-> k - 1])
  IN  [nTups |-> taken.nTups, stray |-> taken.stray,
       out |-> taken.out \o PageFrom(p, taken.outcnt)]

---------------------------------------------------------------------------
(* The parser over each reader *)

getByte(r) == IF who = "swemu" THEN swemuGetByte(r) ELSE kernelGetByte(r)
skipBytes(r, n) == IF who = "swemu" THEN swemuSkipBytes(r, n) ELSE kernelSkipBytes(r, n)

\* The reader after n bytes.
Read(r, n) == LET reads[i \in Nat] == IF i = 0 THEN r ELSE getByte(reads[i - 1]) IN reads[n]

nAttr == 16
attrLens == <<8, 8, 8, 4, -1, -1, -1, -1, -1, -1, 4, 4, 4, -1, -1, -1>>
align == {10, 11, 12}
Wanted == {4, 5, 6, 10}

\* INTALIGN (off) - off
Padding(r) == ((r.off + 3) \div 4) * 4 - r.off

\* In the kernel of xql6 getHeaderInt2 takes the header from the stream, not the parser.
HeaderByte(r) ==
  IF who = "swemu" THEN swemuGetByte(r) ELSE [r EXCEPT !.ch = Stream(r.pos), !.pos = @ + 1]

\* startTup for the first tuple.
FirstTuple ==
  /\ tup' = 1 /\ fPtr' = 0 /\ fields' = << >>
  /\ pc' = IF nTups' = 0 THEN "pageEnd" ELSE "len"
  /\ UNCHANGED <<who, block, page, fLen, sum>>

\* resetBuf and getHeaderInt.
getHeaderInt ==
  /\ pc = "page" /\ who # "p2p"
  /\ LET r1 == HeaderByte(resetBuf(rd))
         r2 == HeaderByte(r1)
     IN  /\ rd' = [r2 EXCEPT !.off = 0]
         /\ nTups' = r2.ch * 256 + r1.ch
  /\ FirstTuple
  /\ UNCHANGED pages

TakeTuples ==
  /\ pc = "page" /\ who = "p2p"
  /\ LET taken == getHeaderInt2(pages[page])
     IN  /\ nTups' = taken.nTups
         /\ ~taken.stray
         /\ pages' = [pages EXCEPT ![page] = taken.out]
  /\ rd' = [resetBuf(rd) EXCEPT !.off = 0]
  /\ FirstTuple

\* A line without storage was taken for a tuple: the count is too high, and
\* the stream is longer than the page or holds bytes of no tuple.  What the parser
\* makes of that is not followed.
TakeStray ==
  /\ pc = "page" /\ who = "p2p"
  /\ LET taken == getHeaderInt2(pages[page])
     IN  /\ taken.stray
         /\ nTups' = taken.nTups
         /\ pages' = [pages EXCEPT ![page] = taken.out]
  /\ pc' = "garbled"
  /\ UNCHANGED <<who, block, page, tup, fPtr, fLen, rd, fields, sum>>

\* Only short varlenas: no field of lineitem has 126 bytes.
getFieldLen ==
  /\ pc = "len"
  /\ LET fixed == attrLens[fPtr + 1]
         r == IF fixed = -1 THEN getByte(rd)
              ELSE Read(rd, IF fPtr \in align THEN Padding(rd) ELSE 0)
     IN  /\ rd' = [r EXCEPT !.eof = FALSE]
         /\ fLen' = IF r.eof THEN 0 ELSE IF fixed = -1 THEN r.ch \div 2 - 1 ELSE fixed
  /\ pc' = "field"
  /\ UNCHANGED <<who, block, pages, page, tup, nTups, fPtr, fields, sum>>

FieldDone ==
  IF fPtr + 1 < nAttr THEN fPtr' = fPtr + 1 /\ pc' = "len" ELSE fPtr' = 0 /\ pc' = "agg"

SkipField ==
  /\ pc = "field" /\ fPtr \notin Wanted
  /\ rd' = skipBytes(rd, fLen)
  /\ FieldDone
  /\ UNCHANGED <<who, block, pages, page, tup, nTups, fLen, fields, sum>>

\* Mutant: the last digit is lost.
DigitShort(d, j) == IF 2 * j + 2 < Len(d) THEN d[2 * j + 2] * 256 + d[2 * j + 1] ELSE 0

\* The digit at place j of a numeric; behind the last one they are 0.
Digit(d, j) == IF 2 * j < Len(d) THEN d[2 * j + 2] * 256 + d[2 * j + 1] ELSE 0

\* Seven bits, two's complement.
weight(d) == IF d[1] % 128 >= 64 THEN (d[1] % 128) - 128 ELSE d[1] % 128

\* The whole digits and half of one fraction digit: the value in cents.
snumToLong3(d) ==
  LET nWhlDigs == IF weight(d) >= 0 THEN weight(d) + 1 ELSE 0
      res[j \in Nat] == IF j = 0 THEN 0 ELSE res[j - 1] * 10000 + Digit(d, j)
      cents == res[nWhlDigs] * 100 + Digit(d, nWhlDigs + 1) \div 100
  IN  IF (d[2] \div 32) % 2 = 1 THEN -cents ELSE cents

\* An int from its four bytes.
getJdate(d) ==
  LET top == IF d[DATE_SZ] >= 128 THEN d[DATE_SZ] - 256 ELSE d[DATE_SZ]
  IN  ((top * 256 + d[3]) * 256 + d[2]) * 256 + d[1]

\* getField and the conversion; at the end of the page both loops are left.
getField ==
  /\ pc = "field" /\ fPtr \in Wanted
  /\ LET r == Read(rd, fLen)
         d == [i \in 1 .. fLen |-> Read(rd, i).ch]
     IN  /\ rd' = [r EXCEPT !.eof = FALSE]
         /\ IF r.eof
              THEN pc' = "pageEnd" /\ UNCHANGED <<fPtr, fields>>
              ELSE /\ fields' = Append(fields, IF fPtr = 10 THEN getJdate(d) ELSE snumToLong3(d))
                   /\ FieldDone
  /\ UNCHANGED <<who, block, pages, page, tup, nTups, fLen, sum>>

---------------------------------------------------------------------------
(* The aggregate *)

date2j(y, m, d) ==
  LET mm == IF m > 2 THEN m + 1 ELSE m + 13
      yy == IF m > 2 THEN y + 4800 ELSE y + 4799
      century == yy \div 100
  IN  yy * 365 - 32167 + (yy \div 4 - century + century \div 4) + ((7834 * mm) \div 256 + d)

POSTGRES_EPOCH_JDATE == 2451545

\* Computed in the emulation, written down in the kernel.
jd19940101 == IF who = "swemu" THEN date2j(1994, 1, 1) - POSTGRES_EPOCH_JDATE ELSE -2191
jd19950101 == IF who = "swemu" THEN date2j(1995, 1, 1) - POSTGRES_EPOCH_JDATE ELSE -1826

Matches(quantity, discount, shipDate) ==
  /\ shipDate >= jd19940101 /\ shipDate < jd19950101
  /\ discount >= 5 /\ discount <= 7
  /\ quantity < 2400

agg ==
  /\ pc = "agg"
  /\ sum' = IF Matches(fields[1], fields[3], fields[4]) THEN sum + fields[2] * fields[3] ELSE sum
  /\ tup' = tup + 1 /\ fields' = << >>
  /\ rd' = [rd EXCEPT !.off = 0]
  /\ pc' = IF tup < nTups THEN "len" ELSE "pageEnd"
  /\ UNCHANGED <<who, block, pages, page, nTups, fPtr, fLen>>

\* The kernel skips to the end of the page; the emulation copies the next one.
EndPage ==
  /\ pc = "pageEnd"
  /\ rd' = IF who = "swemu" THEN rd ELSE skipToPageEnd(rd)
  /\ IF page < Len(block) THEN page' = page + 1 /\ pc' = "page"
                          ELSE pc' = "done" /\ UNCHANGED page
  /\ UNCHANGED <<who, block, pages, tup, nTups, fPtr, fLen, fields, sum>>

Next == getHeaderInt \/ TakeTuples \/ TakeStray \/ getFieldLen \/ SkipField \/ getField \/ agg \/ EndPage

Spec == Init /\ [][Next]_vars

---------------------------------------------------------------------------
(* Properties *)

\* No reader leaves its page: the word index, the offset in the page and the
\* place in the stream stay in range, and no length is negative.
TypeOK ==
  /\ pc \in {"page", "len", "field", "agg", "pageEnd", "done", "garbled"}
  /\ page \in 1 .. Len(block) /\ fPtr \in 0 .. nAttr - 1 /\ nTups \in 0 .. 65535
  /\ fLen \in 0 .. 126 /\ Len(fields) \in 0 .. Cardinality(Wanted)
  /\ rd.bufIdx \in 0 .. PAGE_SZ /\ rd.woffMax \in {0, WORD_SZ} /\ rd.woff \in 0 .. WORD_SZ
  /\ rd.pgOff \in HDR .. PAGE_SZ /\ rd.pos \in 0 .. Len(pages) * PAGE_SZ

\* The byte of the page the reader stands before.
Position ==
  IF who # "swemu" THEN rd.pos - (page - 1) * PAGE_SZ
  ELSE IF rd.woffMax = 0 THEN rd.bufIdx ELSE rd.bufIdx - WORD_SZ + rd.woff

\* Before each field, and behind the last one, the reader stands before that
\* field's first byte: one reader skips by words and the others by bytes, a field
\* may end with a word or with the page, dates are aligned within the tuple, and
\* a heap page has dead lines and padding between its tuples (skipBytes, getByte,
\* INTALIGN, getHeaderInt2 of xql6p2p).  In xql6p2p up to the first page with a
\* line that getHeaderInt2 takes for a tuple and is none.
InStep ==
  pc \in {"len", "agg"} =>
    LET before == FlattenSeq([i \in 1 .. tup - 1 |-> TupleBytes(block[page][i])])
        n == IF pc = "agg" THEN nAttr ELSE fPtr
    IN  Position = HDR + Len(before) + Len(FlattenSeq(SubSeq(FieldBytes(block[page][tup]), 1, n)))

\* The kernel of xql6p2p takes a line without storage for a tuple only on a page with
\* a prune hint or a redirected line: dead lines by themselves, wherever they are,
\* have length 0 and are passed over (q6_paged.cpp:165-201).
StrayHasCause ==
  [][pc # "garbled" /\ pc' = "garbled" =>
       \/ NumberAt(pages[page], SizeOfPageHeaderData - ItemIdSz, ItemIdSz) # 0
       \/ \E i \in 1 .. nLines(pages[page]) :
            lp_flags(pages[page], SizeOfPageHeaderData + (i - 1) * ItemIdSz) = LP_REDIRECT]_vars

\* Query 6 on the values: the shipments of 1994 with a discount of 5 to 7
\* percent and a quantity below 24, in units of 1/10000.
YearDays(y) == IF y % 4 = 0 /\ (y % 100 # 0 \/ y % 400 = 0) THEN 366 ELSE 365
FirstDay(y) == FoldLeft(LAMBDA days, k : days - YearDays(k), 0, [i \in 1 .. 2000 - y |-> y + i - 1])

Selected(t) ==
  FirstDay(1994) <= t.shp /\ t.shp < FirstDay(1995) /\ t.dsc \in 5 .. 7 /\ t.qty < 2400

Query6(tups) == FoldLeft(LAMBDA s, t : IF Selected(t) THEN s + t.ext * t.dsc ELSE s, 0, tups)

\* The emulation and both kernels' conversions compute Query 6 of the block from
\* its bytes: lengths, alignment, trailing and leading zero digits, negative
\* weights and dates, and the two sets of date constants all agree.  In xql6p2p for
\* blocks without a redirected line and without a prune hint that reads as a length.
ResultIsQuery6 == pc = "done" => sum = Query6(FlattenSeq(block))

===========================================================================
