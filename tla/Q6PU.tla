-------------------------------- MODULE Q6PU --------------------------------
(***************************************************************************)
(* The Query 6 kernel: the reader that deals the pages of a block out to   *)
(* NUM_PU processing units, and one of the units in detail (me): the       *)
(* dataflow network of q6_paged and the loop of q6 around it, for both     *)
(* kernels.  Of the other units only matters when they take a word; what   *)
(* they do with it is what is shown of me, which may be any of them.       *)
(*                                                                         *)
(* A page enters as words, then as bytes.  getHeaderInt2 sends the tuple   *)
(* count to six consumers and the data bytes to q6_filter, which parses    *)
(* tuples and sends four columns to a converter each; agg reads the four   *)
(* converted columns of each tuple.  Every stream is a bounded FIFO: a     *)
(* write to a full one and a read from an empty one block.                 *)
(*                                                                         *)
(* The two kernels differ in the header.  In xql6 the host has packed the  *)
(* page: two bytes of count, then the data, passed on byte by byte.  In    *)
(* xql6p2p the page is a raw heap page: it is read completely, the tuples  *)
(* are sent first, then their count, then the rest of the page buffer.     *)
(*                                                                         *)
(* A byte is named by its page in the block and its place in the page (in  *)
(* a raw page: in the tuples in line order); what it holds does not        *)
(* matter, only whether the right one arrives.                             *)
(***************************************************************************)
EXTENDS Integers, Sequences

CONSTANTS
  NUM_PU,      \* processing units (32 in the code)
  PAGES,       \* PAGES_PER_PU (8 in the code)
  PAGE_SZ,     \* bytes of a page (8192 in the code)
  WORD_SZ,     \* bytes of a word of the block (16 in the code)
  IN_DEPTH,    \* words an inStream holds (512 in the code, a page)
  Layout,      \* fields of a tuple in order: a column the query needs, or "skip"
  Columns,     \* these columns in the order agg reads them
  PageCounts,  \* bound: how many tuples the pages of a unit may hold, page by page
  STREAM_DEPTH \* capacity of an hls::stream without a depth pragma (2)

\* A field is one byte.  Of the 16 fields of lineitem the query needs the four
\* at 4, 5, 6 and 10: quantity, extended price, discount, ship date.
NFIELDS == Len(Layout)
ColumnSet == {Columns[i] : i \in 1 .. Len(Columns)}

ASSUME PUAssumption ==
  /\ NUM_PU \in Nat \ {0} /\ PAGES \in Nat \ {0} /\ STREAM_DEPTH \in Nat \ {0}
  /\ PAGE_SZ \in Nat \ {0} /\ WORD_SZ \in Nat \ {0} /\ PAGE_SZ % WORD_SZ = 0
  /\ IN_DEPTH \in Nat \ {0}
  /\ \A n \in PageCounts :
       n \in [1 .. PAGES -> Nat] /\ \A p \in 1 .. PAGES : n[p] * NFIELDS + 2 <= PAGE_SZ

\* Every column is one of the fields, has a name of its own and is read once; a page has
\* more bytes than there are consumers of its count.
ASSUME LayoutAssumption ==
  /\ Layout \in Seq(STRING) /\ Columns \in Seq(STRING) /\ Len(Columns) > 0
  /\ Len(Columns) + 2 <= PAGE_SZ
  /\ \A i, j \in 1 .. Len(Columns) : Columns[i] = Columns[j] => i = j
  /\ \A c \in ColumnSet : \E f \in 1 .. NFIELDS : Layout[f] = c
  /\ \A f \in 1 .. NFIELDS : Layout[f] # "skip" =>
       Layout[f] \in ColumnSet /\ \A g \in 1 .. NFIELDS : Layout[g] = Layout[f] => g = f
  /\ ColumnSet \cap {"skip", "header", "filter", "agg"} = {}

Units == 0 .. NUM_PU - 1
WORDS_PER_PAGE == PAGE_SZ \div WORD_SZ
NUM_WORDS == PAGES * NUM_PU * WORDS_PER_PAGE

\* The consumers of the tuple count, in the order of nTupsStrm.
Consumers == <<"filter">> \o Columns \o <<"agg">>

Byte == <<"byte", "all">>
Data == <<"data", "all">>
Eop == <<"filterDone", "all">>
Count(x) == <<"nTups", x>>
Field(c) == <<"field", c>>
Native(c) == <<"native", c>>

Streams ==
  {Byte, Data, Eop} \cup {Count(Consumers[i]) : i \in 1 .. Len(Consumers)}
    \cup {Field(c) : c \in ColumnSet} \cup {Native(c) : c \in ColumnSet}

VARIABLES
  p2p,         \* the kernel is that of xql6p2p (else that of xql6)
  me,          \* the unit looked at
  counts,      \* counts[p]: tuples of page p of this unit
  dealt,       \* words read has written
  inStream,    \* inStream[u]: words of the block on their way to unit u
  word,        \* pageToByte: the word read (<< >>: none) and its bytes written
  page,        \* iteration of the loop in q6
  hdr,         \* getHeaderInt2: pc, i, buf (the bytes it has kept)
  flt,         \* q6_filter: pc, t, f, pgOff
  conv,        \* conv[c]: the converter of column c: pc, n
  aggr,        \* agg: pc, n, row
  hold,        \* hold[process]: a token read and not written yet
  ch,          \* ch[s]: contents of stream s
  sums         \* sums[p]: rows aggregated for page p

block == <<p2p, me, counts>>
feedVars == <<dealt, inStream, word>>
vars == <<p2p, me, counts, dealt, inStream, word, page, hdr, flt, conv, aggr, hold, ch, sums>>

\* Bytes getHeaderInt2 keeps for itself, and reads before it writes anything.
HDR == IF p2p THEN 0 ELSE 2
HDR_READ == IF p2p THEN PAGE_SZ ELSE 2

\* Mutant: the depth pragma of dataStream is missing.
PagedByteOnly == IF p2p THEN {Byte} ELSE {}

\* The streams with a depth pragma: they hold a page in xql6p2p.
Paged == IF p2p THEN {Byte, Data} ELSE {}

Depth(s) == IF s \in Paged THEN PAGE_SZ ELSE STREAM_DEPTH

NoToken == << >>
Processes == {"header", "filter"} \cup ColumnSet

\* The state of the processes when q6_paged is called.
HdrStart == [pc |-> "head", i |-> 0, buf |-> << >>]

\* The parser's offset in the page starts behind the two bytes of the header in
\* xql6, at 0 in xql6p2p.
FltStart == [pc |-> "count", t |-> 0, f |-> 1, pgOff |-> HDR]
ConvStart == [c \in ColumnSet |-> [pc |-> "count", n |-> 0]]
AggStart == [pc |-> "count", n |-> 0, row |-> << >>]

Init ==
  /\ p2p \in BOOLEAN
  /\ counts \in PageCounts
  /\ me \in Units
  /\ dealt = 0 /\ inStream = [u \in Units |-> << >>] /\ word = [w |-> NoToken, j |-> 0]
  /\ page = 1
  /\ hdr = HdrStart /\ flt = FltStart /\ conv = ConvStart /\ aggr = AggStart
  /\ hold = [p \in Processes |-> NoToken]
  /\ ch = [s \in Streams |-> << >>]
  /\ sums = [p \in 1 .. PAGES |-> << >>]

\* Mutant: one token too many.
CanWriteFull(s) == Len(ch[s]) <= Depth(s)

\* A stream that is full, or empty, blocks its process.
CanWrite(s) == Len(ch[s]) < Depth(s)
CanRead(s) == ch[s] # << >>

Put(s, v) == [ch EXCEPT ![s] = Append(@, v)]
Get(s) == [ch EXCEPT ![s] = Tail(@)]

---------------------------------------------------------------------------
(* The reader of the block, and pageToByte *)

\* The three loops of read: page i of unit u, word j, for the k-th write.
LoopI(k) == k \div (NUM_PU * WORDS_PER_PAGE)
LoopU(k) == (k \div WORDS_PER_PAGE) % NUM_PU
LoopJ(k) == k % WORDS_PER_PAGE

\* Mutant: the pages of a unit follow each other in the block.
InbufConsecutive(k) == LoopU(k) * PAGES * WORDS_PER_PAGE + LoopI(k) * WORDS_PER_PAGE + LoopJ(k)

\* The word of inbuf the k-th write takes.
Inbuf(k) == LoopI(k) * NUM_PU * WORDS_PER_PAGE + LoopU(k) * WORDS_PER_PAGE + LoopJ(k)

\* read: a full stream holds up the words of all units behind it.
Deal ==
  /\ dealt < NUM_WORDS /\ Len(inStream[LoopU(dealt)]) < IN_DEPTH
  /\ inStream' = [inStream EXCEPT ![LoopU(dealt)] = Append(@, Inbuf(dealt))]
  /\ dealt' = dealt + 1
  /\ UNCHANGED <<block, word, page, hdr, flt, conv, aggr, hold, ch, sums>>

\* Another unit takes a word, sooner or later.
OtherTakes(u) ==
  /\ u # me /\ inStream[u] # << >>
  /\ inStream' = [inStream EXCEPT ![u] = Tail(@)]
  /\ UNCHANGED <<block, dealt, word, page, hdr, flt, conv, aggr, hold, ch, sums>>

\* pageToByte of this unit reads a word ...
WordRead ==
  /\ word.w = NoToken /\ inStream[me] # << >>
  /\ word' = [w |-> <<Head(inStream[me])>>, j |-> 0]
  /\ inStream' = [inStream EXCEPT ![me] = Tail(@)]
  /\ UNCHANGED <<block, dealt, page, hdr, flt, conv, aggr, hold, ch, sums>>

\* ... and writes its bytes.
ByteWrite ==
  /\ word.w # NoToken /\ CanWrite(Byte)
  /\ LET a == word.w[1] * WORD_SZ + word.j
     IN  ch' = Put(Byte, <<a \div PAGE_SZ, (a % PAGE_SZ) + 1>>)
  /\ word' = IF word.j + 1 < WORD_SZ THEN [word EXCEPT !.j = @ + 1] ELSE [w |-> NoToken, j |-> 0]
  /\ UNCHANGED <<block, dealt, inStream, page, hdr, flt, conv, aggr, hold, sums>>

---------------------------------------------------------------------------
(* getHeaderInt2 *)

Header == UNCHANGED <<block, feedVars, page, flt, conv, aggr, sums>>

\* What the header of the page says, and the bytes of its tuples.
TupleCount == counts[(hdr.buf[1][1] \div NUM_PU) + 1]
TupleBytes == TupleCount * NFIELDS

\* The count (xql6), or the whole page (xql6p2p), is read.
HeadRead ==
  /\ hdr.pc = "head" /\ CanRead(Byte)
  /\ ch' = Get(Byte)
  /\ hdr' = [pc |-> IF hdr.i + 1 < HDR_READ THEN "head" ELSE IF p2p THEN "tuples" ELSE "counts",
             i |-> IF hdr.i + 1 < HDR_READ THEN hdr.i + 1 ELSE 0,
             buf |-> Append(hdr.buf, Head(ch[Byte]))]
  /\ UNCHANGED hold /\ Header

\* The count is written to the six consumers one after another.
CountWrite ==
  /\ hdr.pc = "counts" /\ CanWrite(Count(Consumers[hdr.i + 1]))
  /\ ch' = Put(Count(Consumers[hdr.i + 1]), TupleCount)
  /\ hdr' = IF hdr.i + 1 < Len(Consumers) THEN [hdr EXCEPT !.i = @ + 1]
            ELSE IF p2p THEN [hdr EXCEPT !.pc = "rest", !.i = TupleBytes]
            ELSE [hdr EXCEPT !.pc = "pass", !.i = HDR]
  /\ UNCHANGED hold /\ Header

\* xql6: the rest of the page is passed on byte by byte.
PassRead ==
  /\ hdr.pc = "pass" /\ hold["header"] = NoToken /\ CanRead(Byte)
  /\ hold' = [hold EXCEPT !["header"] = Head(ch[Byte])]
  /\ ch' = Get(Byte)
  /\ UNCHANGED hdr /\ Header

PassWrite ==
  /\ hdr.pc = "pass" /\ hold["header"] # NoToken /\ CanWrite(Data)
  /\ ch' = Put(Data, hold["header"])
  /\ hold' = [hold EXCEPT !["header"] = NoToken]
  /\ hdr' = [hdr EXCEPT !.pc = IF hdr.i + 1 < PAGE_SZ THEN "pass" ELSE "done", !.i = @ + 1]
  /\ Header

\* xql6p2p: the tuples of the page in line order ...
TuplesWrite ==
  /\ hdr.pc = "tuples" /\ hdr.i < TupleBytes /\ CanWrite(Data)
  /\ ch' = Put(Data, hdr.buf[hdr.i + 1])
  /\ hdr' = [hdr EXCEPT !.i = @ + 1]
  /\ UNCHANGED hold /\ Header

TuplesWritten ==
  /\ hdr.pc = "tuples" /\ hdr.i = TupleBytes
  /\ hdr' = [hdr EXCEPT !.pc = "counts", !.i = 0]
  /\ UNCHANGED <<hold, ch>> /\ Header

\* ... and, after the count, the rest of the page buffer.
RestWrite ==
  /\ hdr.pc = "rest" /\ CanWrite(Data)
  /\ ch' = Put(Data, hdr.buf[hdr.i + 1])
  /\ hdr' = [hdr EXCEPT !.pc = IF hdr.i + 1 < PAGE_SZ THEN "rest" ELSE "done", !.i = @ + 1]
  /\ UNCHANGED hold /\ Header

---------------------------------------------------------------------------
(* q6_filter *)

Filter == UNCHANGED <<block, feedVars, page, hdr, conv, aggr, sums>>

\* After t tuples the rest of the page is skipped.
Parsing(t) == IF t > 0 THEN "tuples" ELSE "skip"

FilterCount ==
  /\ flt.pc = "count" /\ CanRead(Count("filter"))
  /\ flt' = [flt EXCEPT !.pc = Parsing(Head(ch[Count("filter")])), !.t = Head(ch[Count("filter")])]
  /\ ch' = Get(Count("filter"))
  /\ UNCHANGED hold /\ Filter

\* The column field f belongs to.
Column(f) == Layout[f]

\* The parser behind a field.
FieldDone ==
  IF flt.f < NFIELDS THEN [flt EXCEPT !.f = @ + 1]
  ELSE [flt EXCEPT !.pc = Parsing(flt.t - 1), !.t = @ - 1, !.f = 1]

\* A field is read: one of no interest is dropped (skipBytes) ...
FieldSkip ==
  /\ flt.pc = "tuples" /\ Column(flt.f) = "skip" /\ CanRead(Data)
  /\ ch' = Get(Data)
  /\ flt' = [FieldDone EXCEPT !.pgOff = @ + 1]
  /\ UNCHANGED hold /\ Filter

\* ... one of the columns is kept (getField) until it can be written.
FieldRead ==
  /\ flt.pc = "tuples" /\ Column(flt.f) # "skip" /\ hold["filter"] = NoToken /\ CanRead(Data)
  /\ ch' = Get(Data)
  /\ hold' = [hold EXCEPT !["filter"] = Head(ch[Data])]
  /\ flt' = [flt EXCEPT !.pgOff = @ + 1]
  /\ Filter

FieldWrite ==
  /\ flt.pc = "tuples" /\ hold["filter"] # NoToken /\ CanWrite(Field(Column(flt.f)))
  /\ ch' = Put(Field(Column(flt.f)), hold["filter"])
  /\ hold' = [hold EXCEPT !["filter"] = NoToken]
  /\ flt' = FieldDone
  /\ Filter

\* skipToPageEnd
Skip ==
  /\ flt.pc = "skip" /\ flt.pgOff < PAGE_SZ /\ CanRead(Data)
  /\ ch' = Get(Data)
  /\ flt' = [flt EXCEPT !.pgOff = @ + 1]
  /\ UNCHANGED hold /\ Filter

\* Mutant: the last byte of the page stays in the stream.
SkippedEarly == flt.pc = "skip" /\ flt.pgOff >= PAGE_SZ - 1

Skipped == flt.pc = "skip" /\ flt.pgOff >= PAGE_SZ

FilterDone ==
  /\ Skipped /\ CanWrite(Eop)
  /\ ch' = Put(Eop, TRUE)
  /\ flt' = [flt EXCEPT !.pc = "done"]
  /\ UNCHANGED hold /\ Filter

---------------------------------------------------------------------------
(* toLong (three times) and toDate *)

Converter == UNCHANGED <<block, feedVars, page, hdr, flt, aggr, sums>>

Converting(n) == IF n > 0 THEN "fields" ELSE "done"

ConvCount(c) ==
  /\ conv[c].pc = "count" /\ CanRead(Count(c))
  /\ conv' = [conv EXCEPT ![c] = [pc |-> Converting(Head(ch[Count(c)])), n |-> Head(ch[Count(c)])]]
  /\ ch' = Get(Count(c))
  /\ UNCHANGED hold /\ Converter

ConvRead(c) ==
  /\ conv[c].pc = "fields" /\ hold[c] = NoToken /\ CanRead(Field(c))
  /\ hold' = [hold EXCEPT ![c] = Head(ch[Field(c)])]
  /\ ch' = Get(Field(c))
  /\ UNCHANGED conv /\ Converter

ConvWrite(c) ==
  /\ conv[c].pc = "fields" /\ hold[c] # NoToken /\ CanWrite(Native(c))
  /\ ch' = Put(Native(c), hold[c])
  /\ hold' = [hold EXCEPT ![c] = NoToken]
  /\ conv' = [conv EXCEPT ![c] = [pc |-> Converting(@.n - 1), n |-> @.n - 1]]
  /\ Converter

---------------------------------------------------------------------------
(* agg *)

Agg == UNCHANGED <<block, feedVars, page, hdr, flt, conv, hold>>

Aggregating(n) == IF n > 0 THEN "rows" ELSE "eop"

AggCount ==
  /\ aggr.pc = "count" /\ CanRead(Count("agg"))
  /\ aggr' = [aggr EXCEPT !.pc = Aggregating(Head(ch[Count("agg")])), !.n = Head(ch[Count("agg")])]
  /\ ch' = Get(Count("agg"))
  /\ UNCHANGED sums /\ Agg

\* The four columns of a row are read in order; the last one completes it.
AggRead ==
  /\ aggr.pc = "rows"
  /\ LET s == Native(Columns[Len(aggr.row) + 1])
         row == Append(aggr.row, Head(ch[s]))
     IN  /\ CanRead(s)
         /\ ch' = Get(s)
         /\ IF Len(row) < Len(Columns)
              THEN /\ aggr' = [aggr EXCEPT !.row = row]
                   /\ UNCHANGED sums
              ELSE /\ aggr' = [pc |-> Aggregating(aggr.n - 1), n |-> aggr.n - 1, row |-> << >>]
                   /\ sums' = [sums EXCEPT ![page] = Append(@, row)]
  /\ Agg

AggEop ==
  /\ aggr.pc = "eop" /\ CanRead(Eop)
  /\ ch' = Get(Eop)
  /\ aggr' = [aggr EXCEPT !.pc = "done"]
  /\ UNCHANGED sums /\ Agg

---------------------------------------------------------------------------
(* q6: q6_paged returns when all of its processes have; then the next page. *)

PageDone ==
  /\ hdr.pc = "done" /\ flt.pc = "done" /\ aggr.pc = "done"
  /\ \A c \in ColumnSet : conv[c].pc = "done"

NextPage ==
  /\ page < PAGES /\ PageDone
  /\ page' = page + 1
  /\ hdr' = HdrStart /\ flt' = FltStart /\ conv' = ConvStart /\ aggr' = AggStart
  /\ UNCHANGED <<block, feedVars, hold, ch, sums>>

\* The block is done: read and every unit have returned (flowWrap); the kernel
\* waits for the next start.
Finished ==
  /\ dealt = NUM_WORDS /\ \A u \in Units : inStream[u] = << >>
  /\ page = PAGES /\ PageDone

Next ==
  \/ Deal \/ (\E u \in Units : OtherTakes(u)) \/ WordRead \/ ByteWrite
  \/ HeadRead \/ CountWrite \/ PassRead \/ PassWrite \/ TuplesWrite \/ TuplesWritten \/ RestWrite
  \/ FilterCount \/ FieldSkip \/ FieldRead \/ FieldWrite \/ Skip \/ FilterDone
  \/ \E c \in ColumnSet : ConvCount(c) \/ ConvRead(c) \/ ConvWrite(c)
  \/ AggCount \/ AggRead \/ AggEop
  \/ NextPage

\* Hardware: some process that can move does.
Spec == Init /\ [][Next]_vars /\ WF_vars(Next)

---------------------------------------------------------------------------
(* Properties *)

\* No stream holds more than its depth, and the counters keep to their loops.
TypeOK ==
  /\ p2p \in BOOLEAN
  /\ dealt \in 0 .. NUM_WORDS /\ page \in 1 .. PAGES
  /\ \A u \in Units : Len(inStream[u]) <= IN_DEPTH
  /\ \A s \in Streams : Len(ch[s]) <= Depth(s)
  /\ hdr.i \in 0 .. PAGE_SZ
  /\ flt.t \in 0 .. PAGE_SZ /\ flt.pgOff \in 0 .. PAGE_SZ
  /\ \A c \in ColumnSet : conv[c].n \in 0 .. PAGE_SZ
  /\ aggr.n \in 0 .. PAGE_SZ

\* The field of a tuple that is column c.
FieldOf(c) == CHOOSE f \in 1 .. NFIELDS : Layout[f] = c

\* Tuple t of the unit's page p as it stands in the block: the bytes of its
\* columns.  The pages of the block go to the units in turn.
Expected(p, t) ==
  [i \in 1 .. Len(Columns) |->
     <<(p - 1) * NUM_PU + me, HDR + (t - 1) * NFIELDS + FieldOf(Columns[i])>>]

\* agg combines the columns of one tuple, tuple after tuple, of the pages of the
\* block that are this unit's: the reader deals each page to one unit and the four
\* converter chains never run out of step, whatever the interleaving
\* (q6_paged.cpp, read and agg).
RowsAligned ==
  \A p \in 1 .. page : \A t \in 1 .. Len(sums[p]) : sums[p][t] = Expected(p, t)

\* When q6_paged returns it has used up its page exactly: nothing is left in a
\* stream inside it for the next page, every tuple has been aggregated, and
\* pageToByte's stream stands at the first byte of the next page.
PageUsedUp ==
  PageDone =>
    /\ Len(sums[page]) = counts[page]
    /\ \A s \in Streams \ {Byte} : ch[s] = << >>
    /\ LET next == page * NUM_PU * PAGE_SZ + me * PAGE_SZ
           first == IF ch[Byte] # << >> THEN PAGE_SZ * ch[Byte][1][1] + ch[Byte][1][2] - 1
                    ELSE IF word.w # NoToken THEN word.w[1] * WORD_SZ + word.j
                    ELSE IF inStream[me] # << >> THEN Head(inStream[me]) * WORD_SZ ELSE next
       IN  first = next

\* The kernel finishes its block: no cycle of full and empty streams blocks a
\* unit, and a unit that is slow holds up the reader and so the others only for a
\* while (flowWrap).
BlockFinishes == <>Finished

===========================================================================
