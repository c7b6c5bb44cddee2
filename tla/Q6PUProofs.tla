----------------------------- MODULE Q6PUProofs -----------------------------
(***************************************************************************)
(* Proofs about Q6PU for every number of units, pages, words and tuples,   *)
(* every layout of a tuple, every depth of the streams and both kernels:   *)
(* each unit gets its pages, and in a unit every byte that is taken, sent, *)
(* converted or added keeps its number within the page.                    *)
(*                                                                         *)
(* Bytes, words, tuples of a page are counted from 0.                      *)
(***************************************************************************)
EXTENDS Q6PU, RingArith, SequenceTheorems

\* The page of the block the unit works on, and byte o of it.
Mine == (page - 1) * NUM_PU + me
PageByte(o) == <<Mine, o + 1>>
Bytes == Int \X Int

\* Byte x and word k of all that the unit gets.
ByteOf(x) == <<(x \div PAGE_SZ) * NUM_PU + me, (x % PAGE_SZ) + 1>>
WordOf(k) == ((k \div WORDS_PER_PAGE) * NUM_PU + me) * WORDS_PER_PAGE + (k % WORDS_PER_PAGE)

\* Tuples of this page, and their bytes.
Tuples == counts[page]
Filled == Tuples * NFIELDS

\* Column c of tuple m of this page.
Value(c, m) == <<Mine, HDR + m * NFIELDS + FieldOf(c)>>

Held(p) == IF hold[p] = NoToken THEN 0 ELSE 1

---------------------------------------------------------------------------
(* How far each process has got in this page *)

\* Bytes getHeaderInt2 has taken.
HdrTook ==
  IF hdr.pc = "head" THEN hdr.i
  ELSE IF p2p THEN PAGE_SZ
  ELSE IF hdr.pc = "counts" THEN 2 ELSE hdr.i + Held("header")

\* The offset up to which bytes have been handed to q6_filter.
Passed ==
  IF hdr.pc = "head" THEN HDR
  ELSE IF hdr.pc = "counts" THEN IF p2p THEN Filled ELSE 2
  ELSE hdr.i

\* Consumer i has been sent the count; consumer x has taken it.
Sent(i) == hdr.pc \in {"pass", "rest", "done"} \/ (hdr.pc = "counts" /\ i <= hdr.i)
Got(x) ==
  IF x = "filter" THEN flt.pc # "count" ELSE IF x = "agg" THEN aggr.pc # "count" ELSE conv[x].pc # "count"

\* Fields of column c that q6_filter has written, and that its converter has written and
\* taken; fields of column i that agg has taken.
Wrote(c) ==
  IF flt.pc = "count" THEN 0
  ELSE Tuples - flt.t + (IF flt.pc = "tuples" /\ FieldOf(c) < flt.f THEN 1 ELSE 0)
Converted(c) == IF conv[c].pc = "count" THEN 0 ELSE Tuples - conv[c].n
Took(c) == Converted(c) + Held(c)
Added == IF aggr.pc = "count" THEN 0 ELSE Tuples - aggr.n
Used(i) == Added + (IF i <= Len(aggr.row) THEN 1 ELSE 0)

\* The number of the next byte for getHeaderInt2, of the next one pageToByte writes, of
\* the next word it reads, and of the next word read deals out to this unit.
ToTake == (page - 1) * PAGE_SZ + HdrTook
ToWrite == ToTake + Len(ch[Byte])
ToRead == (ToWrite \div WORD_SZ) + (IF word.w = NoToken THEN 0 ELSE 1)
ToDeal == ToRead + Len(inStream[me])

---------------------------------------------------------------------------
(* The inductive invariant *)

Basics ==
  /\ p2p \in BOOLEAN /\ counts \in PageCounts /\ me \in Units /\ page \in 1 .. PAGES
  /\ DOMAIN ch = Streams /\ DOMAIN hold = Processes /\ DOMAIN conv = ColumnSet

\* No stream is filled beyond its depth.
Bounded ==
  /\ \A u \in Units : Len(inStream[u]) <= IN_DEPTH
  /\ \A s \in Streams : Len(ch[s]) <= Depth(s)

\* The words of this unit among those dealt out.
ReaderInv ==
  /\ dealt \in 0 .. NUM_WORDS
  /\ inStream \in [Units -> Seq(Int)]
  /\ \A j \in 1 .. Len(inStream[me]) : inStream[me][j] = WordOf(ToRead + j - 1)
  /\ dealt <= WordOf(ToDeal) /\ \A k \in 0 .. ToDeal - 1 : WordOf(k) < dealt

\* pageToByte.
WordInv ==
  /\ word.w = NoToken => word = [w |-> NoToken, j |-> 0] /\ ToWrite % WORD_SZ = 0
  /\ word.w # NoToken => word = [w |-> <<WordOf(ToWrite \div WORD_SZ)>>, j |-> ToWrite % WORD_SZ]

ByteInv ==
  /\ ch[Byte] \in Seq(Bytes)
  /\ \A j \in 1 .. Len(ch[Byte]) : ch[Byte][j] = ByteOf(ToTake + j - 1)

\* getHeaderInt2.
HdrStages == {"head", "counts", "done"} \cup (IF p2p THEN {"tuples", "rest"} ELSE {"pass"})

HdrInv ==
  /\ hdr \in [pc : HdrStages, i : 0 .. PAGE_SZ, buf : Seq(Bytes)]
  /\ hdr.pc = "head" => hdr.i < HDR_READ /\ Len(hdr.buf) = hdr.i
  /\ hdr.pc # "head" => Len(hdr.buf) = HDR_READ
  /\ hdr.pc = "tuples" => hdr.i <= Filled
  /\ hdr.pc = "counts" => hdr.i < Len(Consumers)
  /\ hdr.pc = "pass" => 2 <= hdr.i /\ hdr.i < PAGE_SZ
  /\ hdr.pc = "rest" => Filled <= hdr.i /\ hdr.i < PAGE_SZ
  /\ hdr.pc = "done" => hdr.i = PAGE_SZ
  /\ \A j \in 1 .. Len(hdr.buf) : hdr.buf[j] = PageByte(j - 1)
  /\ hold["header"] # NoToken => hdr.pc = "pass" /\ hold["header"] = PageByte(hdr.i)

\* The stream from it to q6_filter.
DataInv ==
  /\ ch[Data] \in Seq(Bytes)
  /\ flt.pgOff + Len(ch[Data]) = Passed
  /\ \A j \in 1 .. Len(ch[Data]) : ch[Data][j] = PageByte(flt.pgOff + j - 1)

\* q6_filter.
FltInv ==
  /\ flt \in [pc : {"count", "tuples", "skip", "done"}, t : 0 .. Tuples, f : 1 .. NFIELDS, pgOff : Nat]
  /\ flt.pc = "count" => flt.pgOff = HDR
  /\ flt.pc = "tuples" => /\ flt.t > 0
                          /\ flt.pgOff = HDR + (Tuples - flt.t) * NFIELDS + (flt.f - 1) + Held("filter")
  /\ flt.pc # "tuples" => flt.t = 0 /\ flt.f = 1
  /\ flt.pc = "done" => flt.pgOff = PAGE_SZ
  /\ hold["filter"] # NoToken =>
       flt.pc = "tuples" /\ Layout[flt.f] # "skip" /\ hold["filter"] = PageByte(flt.pgOff - 1)

\* The count on its way to consumer i.
CountInv(i) ==
  /\ Got(Consumers[i]) => Sent(i)
  /\ ch[Count(Consumers[i])] = IF Sent(i) /\ ~Got(Consumers[i]) THEN <<Tuples>> ELSE << >>

\* The stream to the converter of column c, and the converter.
FieldInv(c) ==
  /\ ch[Field(c)] \in Seq(Bytes)
  /\ Took(c) + Len(ch[Field(c)]) = Wrote(c)
  /\ \A j \in 1 .. Len(ch[Field(c)]) : ch[Field(c)][j] = Value(c, Took(c) + j - 1)

ConvInv(c) ==
  /\ conv[c] \in [pc : {"count", "fields", "done"}, n : 0 .. Tuples]
  /\ conv[c].pc = "fields" <=> conv[c].n > 0
  /\ hold[c] # NoToken => conv[c].pc = "fields" /\ hold[c] = Value(c, Converted(c))

\* The stream from the converter of column i to agg, and agg.
NativeInv(i) ==
  /\ ch[Native(Columns[i])] \in Seq(Bytes)
  /\ Used(i) + Len(ch[Native(Columns[i])]) = Converted(Columns[i])
  /\ \A j \in 1 .. Len(ch[Native(Columns[i])]) :
       ch[Native(Columns[i])][j] = Value(Columns[i], Used(i) + j - 1)

AggInv ==
  /\ aggr \in [pc : {"count", "rows", "eop", "done"}, n : 0 .. Tuples, row : Seq(Bytes)]
  /\ aggr.pc = "rows" <=> aggr.n > 0
  /\ aggr.pc # "rows" => aggr.row = << >>
  /\ Len(aggr.row) < Len(Columns)
  /\ \A i \in 1 .. Len(aggr.row) : aggr.row[i] = Value(Columns[i], Added)

EopInv ==
  /\ aggr.pc = "done" => flt.pc = "done"
  /\ ch[Eop] = IF flt.pc = "done" /\ aggr.pc # "done" THEN <<TRUE>> ELSE << >>

SumsInv ==
  /\ sums \in [1 .. PAGES -> Seq(Seq(Bytes))]
  /\ Len(sums[page]) = Added
  /\ \A p \in 1 .. page : \A t \in 1 .. Len(sums[p]) : sums[p][t] = Expected(p, t)
  /\ \A p \in page + 1 .. PAGES : sums[p] = << >>

\* q6_filter and what is behind it.
Behind ==
  /\ FltInv
  /\ \A c \in ColumnSet : FieldInv(c) /\ ConvInv(c)
  /\ \A i \in 1 .. Len(Columns) : NativeInv(i)
  /\ AggInv /\ EopInv /\ SumsInv

Inner == DataInv /\ (\A i \in 1 .. Len(Consumers) : CountInv(i)) /\ Behind

IInv == Basics /\ Bounded /\ ReaderInv /\ WordInv /\ ByteInv /\ HdrInv /\ Inner

---------------------------------------------------------------------------
(* Constants *)

LEMMA Sizes ==
  /\ NUM_PU \in Nat \ {0} /\ PAGES \in Nat \ {0} /\ PAGE_SZ \in Nat \ {0} /\ WORD_SZ \in Nat \ {0}
  /\ NFIELDS \in Nat \ {0} /\ Len(Columns) \in Nat \ {0} /\ PAGE_SZ >= 3
  /\ WORDS_PER_PAGE \in Nat \ {0} /\ PAGE_SZ = WORD_SZ * WORDS_PER_PAGE
  /\ STREAM_DEPTH \in Nat \ {0} /\ IN_DEPTH \in Nat \ {0}
<1>1. PAGE_SZ \in Nat \ {0} /\ WORD_SZ \in Nat \ {0} /\ PAGE_SZ % WORD_SZ = 0
  BY PUAssumption
<1>2. Len(Columns) \in Nat \ {0} /\ PAGE_SZ >= 3
  BY <1>1, LayoutAssumption
<1>3. NFIELDS \in Nat \ {0}
  <2>1. Columns[1] \in ColumnSet
    BY <1>2 DEF ColumnSet
  <2>2. \E f \in 1 .. NFIELDS : Layout[f] = Columns[1]
    BY <2>1, LayoutAssumption
  <2>3. NFIELDS \in Nat
    BY LayoutAssumption DEF NFIELDS
  <2> QED BY <2>2, <2>3
<1>4. WORDS_PER_PAGE \in Nat /\ PAGE_SZ = WORD_SZ * WORDS_PER_PAGE + (PAGE_SZ % WORD_SZ)
  BY <1>1, DivNat DEF WORDS_PER_PAGE
<1>5. PAGE_SZ = WORD_SZ * WORDS_PER_PAGE
  <2> DEFINE q == WORD_SZ * WORDS_PER_PAGE
  <2>1. q \in Int
    BY <1>1, <1>4, Z3
  <2> HIDE DEF q
  <2>2. PAGE_SZ = q + 0
    BY <1>1, <1>4 DEF q
  <2> QED BY <2>1, <2>2 DEF q
<1>6. WORDS_PER_PAGE # 0
  BY <1>1, <1>5
<1> QED BY <1>1, <1>2, <1>3, <1>4, <1>5, <1>6, PUAssumption

\* Columns and fields.
LEMMA ColumnField ==
  ASSUME NEW c \in ColumnSet
  PROVE  /\ FieldOf(c) \in 1 .. NFIELDS /\ Layout[FieldOf(c)] = c
         /\ c # "skip" /\ c # "header" /\ c # "filter" /\ c # "agg"
<1>1. \E f \in 1 .. NFIELDS : Layout[f] = c
  BY LayoutAssumption
<1>2. FieldOf(c) \in 1 .. NFIELDS /\ Layout[FieldOf(c)] = c
  BY <1>1 DEF FieldOf
<1> QED BY <1>2, LayoutAssumption

LEMMA FieldColumn ==
  ASSUME NEW f \in 1 .. NFIELDS
  PROVE  /\ Layout[f] # "skip" => Layout[f] \in ColumnSet /\ FieldOf(Layout[f]) = f
         /\ \A c \in ColumnSet : FieldOf(c) = f => Layout[f] = c
<1>1. Layout[f] # "skip" => Layout[f] \in ColumnSet /\ \A g \in 1 .. NFIELDS : Layout[g] = Layout[f] => g = f
  BY LayoutAssumption
<1> QED BY <1>1, ColumnField

\* The consumers of the count.
LEMMA ConsumerList ==
  /\ Len(Consumers) = Len(Columns) + 2
  /\ Consumers[1] = "filter" /\ Consumers[Len(Columns) + 2] = "agg"
  /\ \A i \in 1 .. Len(Columns) : Consumers[i + 1] = Columns[i] /\ Columns[i] \in ColumnSet
<1> DEFINE Names == ColumnSet \cup {"filter", "agg"}
<1> DEFINE front == <<"filter">> \o Columns
<1>1. Columns \in Seq(Names) /\ Len(Columns) \in Nat
  <2>1. Columns \in Seq(STRING) /\ \A i \in 1 .. Len(Columns) : Columns[i] \in Names
    BY LayoutAssumption DEF ColumnSet
  <2> QED BY <2>1
<1>2. <<"filter">> \in Seq(Names) /\ <<"agg">> \in Seq(Names)
  OBVIOUS
<1> HIDE DEF Names
<1>3. /\ front \in Seq(Names) /\ Len(front) = Len(Columns) + 1
      /\ front[1] = "filter" /\ \A i \in 1 .. Len(Columns) : front[i + 1] = Columns[i]
  BY <1>1, <1>2
<1>4. Consumers = front \o <<"agg">>
  BY DEF Consumers
<1> HIDE DEF front
<1>5. /\ Len(Consumers) = Len(front) + 1 /\ Consumers[Len(front) + 1] = "agg"
      /\ \A i \in 1 .. Len(front) : Consumers[i] = front[i]
  BY <1>2, <1>3, <1>4
<1>6. Consumers[1] = "filter" /\ Consumers[Len(Columns) + 2] = "agg"
  BY <1>1, <1>3, <1>5
<1>7. \A i \in 1 .. Len(Columns) : Consumers[i + 1] = Columns[i]
  BY <1>1, <1>3, <1>5
<1> QED BY <1>1, <1>3, <1>5, <1>6, <1>7 DEF ColumnSet

\* Each consumer is there once.
LEMMA ConsumerOnce ==
  /\ \A i, j \in 1 .. Len(Consumers) : Consumers[i] = Consumers[j] => i = j
  /\ \A i \in 1 .. Len(Consumers) : Consumers[i] \in {"filter", "agg"} \cup ColumnSet
  /\ \A c \in ColumnSet : \E i \in 1 .. Len(Columns) : Columns[i] = c /\ Consumers[i + 1] = c
<1>1. Len(Columns) \in Nat
  BY Sizes
<1>2. \A i \in 1 .. Len(Consumers) :
        \/ i = 1 /\ Consumers[i] = "filter"
        \/ i - 1 \in 1 .. Len(Columns) /\ Consumers[i] = Columns[i - 1] /\ Consumers[i] \in ColumnSet
        \/ i = Len(Columns) + 2 /\ Consumers[i] = "agg"
  <2> SUFFICES ASSUME NEW i \in 1 .. Len(Consumers), i # 1, i # Len(Columns) + 2
               PROVE  i - 1 \in 1 .. Len(Columns) /\ Consumers[i] = Columns[i - 1] /\ Consumers[i] \in ColumnSet
    BY ConsumerList
  <2>1. i - 1 \in 1 .. Len(Columns) /\ (i - 1) + 1 = i
    BY <1>1, ConsumerList
  <2> QED BY <2>1, ConsumerList
<1>3. \A c \in ColumnSet : c # "filter" /\ c # "agg"
  BY ColumnField
<1>4. \A i, j \in 1 .. Len(Consumers) : Consumers[i] = Consumers[j] => i = j
  <2> SUFFICES ASSUME NEW i \in 1 .. Len(Consumers), NEW j \in 1 .. Len(Consumers),
                      Consumers[i] = Consumers[j]
               PROVE  i = j
    OBVIOUS
  <2>1. CASE i - 1 \in 1 .. Len(Columns) /\ Consumers[i] = Columns[i - 1] /\ Consumers[i] \in ColumnSet
    <3>1. j - 1 \in 1 .. Len(Columns) /\ Consumers[j] = Columns[j - 1]
      BY <1>2, <1>3, <2>1
    <3>2. i - 1 = j - 1
      BY <2>1, <3>1, LayoutAssumption
    <3> QED BY <3>2
  <2>2. CASE i = 1 /\ Consumers[i] = "filter"
    BY <1>2, <1>3, <2>2
  <2>3. CASE i = Len(Columns) + 2 /\ Consumers[i] = "agg"
    BY <1>2, <1>3, <2>3
  <2> QED BY <1>2, <2>1, <2>2, <2>3
<1>5. \A c \in ColumnSet : \E i \in 1 .. Len(Columns) : Columns[i] = c /\ Consumers[i + 1] = c
  BY ConsumerList DEF ColumnSet
<1> QED BY <1>2, <1>4, <1>5

\* The streams, each under one name.
LEMMA StreamNames ==
  /\ Byte \in Streams /\ Data \in Streams /\ Eop \in Streams
  /\ \A i \in 1 .. Len(Consumers) : Count(Consumers[i]) \in Streams
  /\ \A c \in ColumnSet : Field(c) \in Streams /\ Native(c) \in Streams /\ Count(c) \in Streams
  /\ Count("filter") \in Streams /\ Count("agg") \in Streams
<1>1. Byte \in Streams /\ Data \in Streams /\ Eop \in Streams
  BY DEF Streams
<1>2. \A i \in 1 .. Len(Consumers) : Count(Consumers[i]) \in Streams
  BY DEF Streams
<1>3. \A c \in ColumnSet : Field(c) \in Streams /\ Native(c) \in Streams
  BY DEF Streams
<1>4. Len(Columns) \in Nat /\ Len(Consumers) = Len(Columns) + 2
  BY Sizes, ConsumerList
<1>5. \A c \in ColumnSet : Count(c) \in Streams
  <2> SUFFICES ASSUME NEW c \in ColumnSet PROVE Count(c) \in Streams
    OBVIOUS
  <2>1. PICK i \in 1 .. Len(Columns) : Consumers[i + 1] = c
    BY ConsumerOnce
  <2> QED BY <1>2, <1>4, <2>1
<1>6. Count("filter") \in Streams /\ Count("agg") \in Streams
  BY <1>2, <1>4, ConsumerList
<1> QED BY <1>1, <1>2, <1>3, <1>5, <1>6

LEMMA StreamsDiffer ==
  /\ Byte # Data /\ Byte # Eop /\ Data # Eop
  /\ \A x : /\ Byte # Count(x) /\ Byte # Field(x) /\ Byte # Native(x)
            /\ Data # Count(x) /\ Data # Field(x) /\ Data # Native(x)
            /\ Eop # Count(x) /\ Eop # Field(x) /\ Eop # Native(x)
  /\ \A x, y : Count(x) # Field(y) /\ Count(x) # Native(y) /\ Field(x) # Native(y)
  /\ \A x, y : /\ Count(x) = Count(y) => x = y
               /\ Field(x) = Field(y) => x = y
               /\ Native(x) = Native(y) => x = y
BY DEF Byte, Data, Eop, Count, Field, Native

\* A stream after a write, and after a read.
LEMMA PutStream ==
  ASSUME DOMAIN ch = Streams, NEW s \in Streams, NEW v, ch' = Put(s, v)
  PROVE  DOMAIN ch' = Streams /\ ch'[s] = Append(ch[s], v) /\ \A r \in Streams : r # s => ch'[r] = ch[r]
BY DEF Put

LEMMA GetStream ==
  ASSUME DOMAIN ch = Streams, NEW s \in Streams, ch' = Get(s)
  PROVE  DOMAIN ch' = Streams /\ ch'[s] = Tail(ch[s]) /\ \A r \in Streams : r # s => ch'[r] = ch[r]
BY DEF Get

\* A sequence whose entry j is F[j], and its first entry gone, or the next one added.
LEMMA TailShift ==
  ASSUME NEW S, NEW s \in Seq(S), s # << >>
  PROVE  /\ Tail(s) \in Seq(S) /\ Len(Tail(s)) = Len(s) - 1 /\ Len(s) \in Nat \ {0}
         /\ Head(s) = s[1] /\ Head(s) \in S
         /\ \A j \in 1 .. Len(s) - 1 : Tail(s)[j] = s[j + 1] /\ j + 1 \in 1 .. Len(s)
OBVIOUS

LEMMA AppendShift ==
  ASSUME NEW S, NEW s \in Seq(S), NEW v \in S
  PROVE  /\ Append(s, v) \in Seq(S) /\ Len(Append(s, v)) = Len(s) + 1 /\ Len(s) \in Nat
         /\ Append(s, v)[Len(s) + 1] = v
         /\ \A j \in 1 .. Len(s) : Append(s, v)[j] = s[j]
OBVIOUS

---------------------------------------------------------------------------
(* The bytes and words of a unit *)

\* Byte i of the unit's page number p.
LEMMA ByteOfPage ==
  ASSUME NEW p \in Nat, NEW i \in 0 .. PAGE_SZ - 1
  PROVE  ByteOf(p * PAGE_SZ + i) = <<p * NUM_PU + me, i + 1>>
<1>1. PAGE_SZ \in Nat \ {0}
  BY Sizes
<1>2. p * PAGE_SZ + i = PAGE_SZ * p + i
  BY <1>1, Z3
<1>3. (PAGE_SZ * p + i) \div PAGE_SZ = p /\ (PAGE_SZ * p + i) % PAGE_SZ = i
  BY <1>1, ModIs
<1> QED BY <1>2, <1>3 DEF ByteOf

\* Byte j of a word is a byte of the page the word is from.
LEMMA ByteOfWord ==
  ASSUME me \in Units, NEW y \in Nat
  PROVE  LET a == WordOf(y \div WORD_SZ) * WORD_SZ + (y % WORD_SZ)
         IN  <<a \div PAGE_SZ, (a % PAGE_SZ) + 1>> = ByteOf(y) /\ ByteOf(y) \in Bytes
<1> DEFINE W == WORD_SZ
<1> DEFINE L == WORDS_PER_PAGE
<1> DEFINE k == y \div W
<1> DEFINE j == y % W
<1> DEFINE q == k \div L
<1> DEFINE r == k % L
<1> DEFINE b == q * NUM_PU + me
<1> DEFINE e == r * W + j
<1>1. W \in Nat \ {0} /\ L \in Nat \ {0} /\ PAGE_SZ = W * L /\ PAGE_SZ \in Nat \ {0}
  BY Sizes
<1>2. k \in Nat /\ j \in 0 .. W - 1 /\ y = W * k + j
  BY <1>1, DivNat
<1> HIDE DEF W, L, k, j
<1>3. q \in Nat /\ r \in 0 .. L - 1 /\ k = L * q + r
  BY <1>1, <1>2, DivNat
<1> HIDE DEF q, r
<1>4. b \in Int
  <2>1. me \in Int /\ NUM_PU \in Int
    BY Sizes DEF Units
  <2> QED BY <1>3, <2>1, Z3
<1> HIDE DEF b
<1>5. e \in 0 .. PAGE_SZ - 1
  <2>1. W * (L - 1 - r) >= 0 /\ r * W >= 0 /\ r * W \in Int
    BY <1>1, <1>3, Z3
  <2>2. W * (L - 1 - r) = PAGE_SZ - W - r * W
    BY <1>1, <1>3, Z3
  <2> QED BY <1>1, <1>2, <2>1, <2>2
<1>6. WordOf(k) = b * L + r
  BY DEF WordOf, L, q, r, b
<1>7. WordOf(k) * W + j = PAGE_SZ * b + e
  <2>1. (b * L + r) * W + j = (W * L) * b + (r * W + j)
    BY <1>1, <1>2, <1>3, <1>4, Z3
  <2> QED BY <1>1, <1>6, <2>1
<1>8. y = PAGE_SZ * q + e
  <2>1. W * (L * q + r) + j = (W * L) * q + (r * W + j)
    BY <1>1, <1>2, <1>3, Z3
  <2> QED BY <1>1, <1>2, <1>3, <2>1
<1> HIDE DEF e
<1>9. /\ (PAGE_SZ * b + e) \div PAGE_SZ = b /\ (PAGE_SZ * b + e) % PAGE_SZ = e
      /\ (PAGE_SZ * q + e) \div PAGE_SZ = q /\ (PAGE_SZ * q + e) % PAGE_SZ = e
  BY <1>1, <1>3, <1>4, <1>5, ModIs
<1>10. ByteOf(y) = <<b, e + 1>>
  BY <1>8, <1>9 DEF ByteOf, b
<1>11. <<b, e + 1>> \in Bytes
  BY <1>1, <1>4, <1>5 DEF Bytes
<1> QED BY <1>7, <1>9, <1>10, <1>11 DEF k, j, W

\* The next byte is in this word or begins the next one.
LEMMA NextByte ==
  ASSUME NEW y \in Nat
  PROVE  /\ y \div WORD_SZ \in Nat /\ y % WORD_SZ \in 0 .. WORD_SZ - 1
         /\ (y % WORD_SZ) + 1 < WORD_SZ =>
              (y + 1) \div WORD_SZ = y \div WORD_SZ /\ (y + 1) % WORD_SZ = (y % WORD_SZ) + 1
         /\ ~((y % WORD_SZ) + 1 < WORD_SZ) =>
              (y + 1) \div WORD_SZ = (y \div WORD_SZ) + 1 /\ (y + 1) % WORD_SZ = 0
<1> DEFINE W == WORD_SZ
<1> DEFINE k == y \div W
<1> DEFINE j == y % W
<1>1. W \in Nat \ {0}
  BY Sizes
<1>2. k \in Nat /\ j \in 0 .. W - 1 /\ y = W * k + j
  BY <1>1, DivNat
<1> HIDE DEF W, k, j
<1>3. CASE j + 1 < W
  <2>1. j + 1 \in 0 .. W - 1 /\ y + 1 = W * k + (j + 1)
    BY <1>1, <1>2, <1>3, Z3
  <2>2. (W * k + (j + 1)) % W = j + 1 /\ (W * k + (j + 1)) \div W = k
    BY <1>1, <1>2, <2>1, ModIs
  <2> QED BY <1>2, <1>3, <2>1, <2>2 DEF W, k, j
<1>4. CASE ~(j + 1 < W)
  <2>1. 0 \in 0 .. W - 1 /\ y + 1 = W * (k + 1) + 0
    BY <1>1, <1>2, <1>4, Z3
  <2>2. (W * (k + 1) + 0) % W = 0 /\ (W * (k + 1) + 0) \div W = k + 1
    BY <1>1, <1>2, <2>1, ModIs
  <2> QED BY <1>2, <1>4, <2>1, <2>2 DEF W, k, j
<1> QED BY <1>3, <1>4 DEF W, j

\* The words of the unit in the order of the block.
LEMMA WordOrder ==
  ASSUME me \in Units
  PROVE  /\ \A k \in Nat : WordOf(k) \in Nat /\ LoopU(WordOf(k)) = me
         /\ \A a, b \in Nat : a < b => WordOf(a) < WordOf(b)
<1> DEFINE L == WORDS_PER_PAGE
<1> DEFINE N == NUM_PU
<1>1. L \in Nat \ {0} /\ N \in Nat \ {0} /\ me \in 0 .. N - 1
  BY Sizes DEF Units
<1> HIDE DEF L, N
<1>2. ASSUME NEW k \in Nat
      PROVE  /\ k \div L \in Nat /\ k % L \in 0 .. L - 1 /\ k = L * (k \div L) + (k % L)
             /\ WordOf(k) = L * (N * (k \div L) + me) + (k % L)
  <2> DEFINE q == k \div L
  <2> DEFINE r == k % L
  <2>1. q \in Nat /\ r \in 0 .. L - 1 /\ k = L * q + r
    BY <1>1, DivNat
  <2>2. WordOf(k) = (q * N + me) * L + r
    BY DEF WordOf, L, N
  <2> HIDE DEF q, r
  <2>3. (q * N + me) * L + r = L * (N * q + me) + r
    BY <1>1, <2>1, Z3
  <2> QED BY <2>1, <2>2, <2>3 DEF q, r
<1>3. ASSUME NEW k \in Nat PROVE WordOf(k) \in Nat /\ LoopU(WordOf(k)) = me
  <2> DEFINE q == k \div L
  <2> DEFINE r == k % L
  <2> DEFINE b == N * q + me
  <2>1. q \in Nat /\ r \in 0 .. L - 1 /\ WordOf(k) = L * b + r
    BY <1>2
  <2> HIDE DEF q, r
  <2>2. b \in Nat
    BY <1>1, <2>1, Z3
  <2>3. (N * q + me) % N = me
    BY <1>1, <2>1, ModIs
  <2>4. b % N = me
    BY <2>3
  <2> HIDE DEF b
  <2>5. (L * b + r) \div L = b
    BY <1>1, <2>1, <2>2, ModIs
  <2>6. L * b + r \in Nat
    BY <1>1, <2>1, <2>2, Z3
  <2> QED BY <2>1, <2>4, <2>5, <2>6 DEF LoopU, L, N
<1>4. ASSUME NEW a \in Nat, NEW b \in Nat, a < b PROVE WordOf(a) < WordOf(b)
  <2> DEFINE p == a \div L
  <2> DEFINE q == b \div L
  <2> DEFINE r == a % L
  <2> DEFINE s == b % L
  <2>1. /\ p \in Nat /\ r \in 0 .. L - 1 /\ a = L * p + r /\ WordOf(a) = L * (N * p + me) + r
        /\ q \in Nat /\ s \in 0 .. L - 1 /\ b = L * q + s /\ WordOf(b) = L * (N * q + me) + s
    BY <1>2
  <2> HIDE DEF p, q, r, s
  <2>2. (L * (N * q + me) + s) - (L * (N * p + me) + r) = (L * N) * (q - p) + (s - r)
    BY <1>1, <2>1, Z3
  <2>3. CASE p = q
    <3>1. r < s
      <4>1. L * q \in Int /\ a = L * q + r /\ b = L * q + s
        BY <1>1, <2>1, <2>3, Z3
      <4> QED BY <1>1, <1>4, <2>1, <4>1
    <3> QED BY <1>1, <2>1, <2>3, <3>1, Z3
  <2>4. CASE q - p >= 1
    <3>1. L * N \in Nat \ {0} /\ L * N >= L
      BY <1>1, Z3
    <3> DEFINE M == L * N
    <3> HIDE DEF M
    <3>2. M * (q - p) >= M
      BY <2>1, <2>4, <3>1, MultipleBound DEF M
    <3>3. M * (q - p) + (s - r) > 0
      <4>1. M * (q - p) \in Int /\ M \in Int /\ M >= L
        BY <2>1, <3>1, Z3 DEF M
      <4> QED BY <1>1, <2>1, <3>2, <4>1
    <3>4. L * (N * q + me) + s \in Int /\ L * (N * p + me) + r \in Int
      BY <1>1, <2>1, Z3
    <3>5. (L * (N * q + me) + s) - (L * (N * p + me) + r) > 0
      BY <2>2, <3>3 DEF M
    <3> DEFINE f == L * (N * p + me) + r
    <3> DEFINE h == L * (N * q + me) + s
    <3>6. f \in Int /\ h \in Int /\ h - f > 0 /\ WordOf(a) = f /\ WordOf(b) = h
      BY <2>1, <3>4, <3>5, Zenon
    <3> HIDE DEF f, h
    <3> QED BY <3>6
  <2>5. CASE p - q >= 1
    <3>1. L * (p - q) >= L
      BY <1>1, <2>1, <2>5, MultipleBound
    <3>2. L * (p - q) = L * p - L * q /\ L * p \in Int /\ L * q \in Int
      BY <1>1, <2>1, Z3
    <3> QED BY <1>1, <1>4, <2>1, <3>1, <3>2
  <2> QED BY <2>1, <2>3, <2>4, <2>5
<1> QED BY <1>3, <1>4

\* read takes the words of the block one after another, and each for one unit.
LEMMA DealtWord ==
  ASSUME me \in Units, NEW k \in Nat
  PROVE  /\ LoopU(k) \in Units /\ Inbuf(k) = k
         /\ LoopU(k) = me => \E g \in Nat : k = WordOf(g)
<1> DEFINE L == WORDS_PER_PAGE
<1> DEFINE N == NUM_PU
<1> DEFINE x == k \div L
<1> DEFINE j == k % L
<1> DEFINE i == x \div N
<1> DEFINE u == x % N
<1>1. L \in Nat \ {0} /\ N \in Nat \ {0}
  BY Sizes
<1> HIDE DEF L, N
<1>2. x \in Nat /\ j \in 0 .. L - 1 /\ k = L * x + j
  BY <1>1, DivNat
<1> HIDE DEF x, j
<1>3. i \in Nat /\ u \in 0 .. N - 1 /\ x = N * i + u
  BY <1>1, <1>2, DivNat
<1> HIDE DEF i, u
<1>4. LoopU(k) = u /\ LoopJ(k) = j
  BY DEF LoopU, LoopJ, L, N, x, j, u
<1> DEFINE M == N * L
<1> DEFINE e == L * u + j
<1>5. M \in Nat \ {0} /\ e \in 0 .. M - 1 /\ k = M * i + e
  <2>1. M \in Nat \ {0}
    BY <1>1, Z3
  <2>2. L * u \in Nat /\ L * (N - 1 - u) >= 0 /\ L * (N - 1 - u) = M - L - L * u
    BY <1>1, <1>3, Z3
  <2>3. e \in 0 .. M - 1
    BY <1>1, <1>2, <2>1, <2>2
  <2>4. L * (N * i + u) + j = (N * L) * i + (L * u + j)
    BY <1>1, <1>2, <1>3, Z3
  <2> QED BY <1>2, <1>3, <2>1, <2>3, <2>4
<1>6. LoopI(k) = i
  <2> HIDE DEF M, e
  <2>1. (M * i + e) \div M = i
    BY <1>3, <1>5, ModIs
  <2> QED BY <1>5, <2>1 DEF LoopI, M, N, L
<1>7. Inbuf(k) = k
  <2>1. i * N * L + u * L + j = (N * L) * i + (L * u + j)
    BY <1>1, <1>2, <1>3, Z3
  <2>2. Inbuf(k) = i * N * L + u * L + j
    BY <1>4, <1>6 DEF Inbuf, N, L
  <2> QED BY <1>5, <2>1, <2>2
<1>8. ASSUME u = me PROVE \E g \in Nat : k = WordOf(g)
  <2> DEFINE g == L * i + j
  <2>1. g \in Nat
    BY <1>1, <1>2, <1>3, Z3
  <2>2. g \div L = i /\ g % L = j
    BY <1>1, <1>2, <1>3, ModIs
  <2>3. WordOf(g) = (i * N + me) * L + j
    BY <2>2 DEF WordOf, L, N
  <2>4. (i * N + u) * L + j = L * (N * i + u) + j
    BY <1>1, <1>2, <1>3, Z3
  <2> QED BY <1>2, <1>3, <1>8, <2>1, <2>3, <2>4
<1> QED BY <1>3, <1>4, <1>7, <1>8 DEF Units, N

---------------------------------------------------------------------------
(* What a step leaves alone *)

\* The page at hand.
LEMMA PageFacts ==
  ASSUME Basics
  PROVE  /\ Mine \in Int /\ Tuples \in Nat /\ Filled \in Nat /\ Filled = Tuples * NFIELDS
         /\ Filled + 2 <= PAGE_SZ /\ Tuples <= PAGE_SZ
         /\ HDR \in {0, 2} /\ HDR_READ \in 1 .. PAGE_SZ
<1>1. /\ NFIELDS \in Nat \ {0} /\ PAGE_SZ \in Nat /\ PAGE_SZ >= 3 /\ NUM_PU \in Nat /\ PAGES \in Nat
  BY Sizes
<1>2. Tuples \in Nat /\ Tuples * NFIELDS + 2 <= PAGE_SZ /\ page \in Nat /\ me \in Nat
  <2>1. counts \in [1 .. PAGES -> Nat] /\ \A p \in 1 .. PAGES : counts[p] * NFIELDS + 2 <= PAGE_SZ
    BY PUAssumption DEF Basics
  <2> QED BY <1>1, <2>1 DEF Basics, Tuples, Units
<1>3. Mine \in Int
  BY <1>1, <1>2, Z3 DEF Mine
<1>4. Tuples * NFIELDS \in Nat /\ Tuples <= Tuples * NFIELDS
  <2> DEFINE t == Tuples
  <2>1. t \in Nat
    BY <1>2
  <2> HIDE DEF t
  <2>2. t * NFIELDS \in Nat /\ t <= t * NFIELDS
    BY <1>1, <2>1, Z3
  <2> QED BY <2>2 DEF t
<1>5. HDR \in {0, 2} /\ HDR_READ \in 1 .. PAGE_SZ
  BY <1>1 DEF Basics, HDR, HDR_READ
<1> DEFINE x == Tuples * NFIELDS
<1>6. Filled = x /\ x \in Nat /\ x + 2 <= PAGE_SZ /\ Tuples <= x
  BY <1>2, <1>4 DEF Filled
<1> HIDE DEF x
<1>7. Filled \in Nat /\ Filled + 2 <= PAGE_SZ /\ Tuples <= PAGE_SZ
  BY <1>1, <1>2, <1>6
<1> QED BY <1>3, <1>2, <1>5, <1>6, <1>7 DEF x

\* Names of bytes and values are those of the page.
LEMMA Steady ==
  ASSUME UNCHANGED <<block, page>>
  PROVE  /\ p2p' = p2p /\ me' = me /\ counts' = counts /\ page' = page
         /\ Mine' = Mine /\ Tuples' = Tuples /\ Filled' = Filled /\ HDR' = HDR /\ HDR_READ' = HDR_READ
         /\ \A x : PageByte(x)' = PageByte(x) /\ ByteOf(x)' = ByteOf(x) /\ WordOf(x)' = WordOf(x)
         /\ \A c, m : Value(c, m)' = Value(c, m) /\ Expected(c, m)' = Expected(c, m)
         /\ \A s : Depth(s)' = Depth(s)
<1>1. p2p' = p2p /\ me' = me /\ counts' = counts /\ page' = page
  BY DEF block
<1>2. Mine' = Mine /\ Tuples' = Tuples /\ Filled' = Filled /\ HDR' = HDR /\ HDR_READ' = HDR_READ
  BY <1>1 DEF Mine, Tuples, Filled, HDR, HDR_READ
<1>3. \A x : PageByte(x)' = PageByte(x) /\ ByteOf(x)' = ByteOf(x) /\ WordOf(x)' = WordOf(x)
  BY <1>1, <1>2 DEF PageByte, ByteOf, WordOf
<1>4. \A c, m : Value(c, m)' = Value(c, m) /\ Expected(c, m)' = Expected(c, m)
  BY <1>1, <1>2 DEF Value, Expected
<1>5. \A s : Depth(s)' = Depth(s)
  BY <1>1 DEF Depth, Paged
<1> QED BY <1>1, <1>2, <1>3, <1>4, <1>5

LEMMA KeepReader ==
  ASSUME UNCHANGED <<block, page, feedVars>>, ToWrite' = ToWrite, ReaderInv, WordInv
  PROVE  ReaderInv' /\ WordInv'
<1>1. dealt' = dealt /\ inStream' = inStream /\ word' = word /\ me' = me
  BY DEF feedVars, block
<1>2. ToRead' = ToRead /\ ToDeal' = ToDeal
  BY <1>1 DEF ToRead, ToDeal
<1>3. \A x : WordOf(x)' = WordOf(x)
  BY Steady
<1>4. ReaderInv'
  BY <1>1, <1>2, <1>3 DEF ReaderInv
<1>5. WordInv'
  BY <1>1, <1>3 DEF WordInv
<1> QED BY <1>4, <1>5

LEMMA KeepHdr ==
  ASSUME UNCHANGED <<block, page, hdr>>, hold'["header"] = hold["header"]
  PROVE  /\ HdrTook' = HdrTook /\ ToTake' = ToTake /\ Passed' = Passed /\ \A i : Sent(i)' = Sent(i)
         /\ HdrInv => HdrInv'
<1>1. HdrTook' = HdrTook /\ Passed' = Passed /\ \A i : Sent(i)' = Sent(i)
  BY Steady DEF HdrTook, Passed, Sent, Held
<1>2. ToTake' = ToTake
  BY <1>1 DEF ToTake
<1>3. HdrInv => HdrInv'
  BY Steady DEF HdrInv, HdrStages
<1> QED BY <1>1, <1>2, <1>3

LEMMA KeepBytes ==
  ASSUME UNCHANGED <<block, page>>, ToTake' = ToTake, ch'[Byte] = ch[Byte]
  PROVE  ToWrite' = ToWrite /\ (ByteInv => ByteInv')
BY Steady DEF ToWrite, ByteInv

LEMMA KeepData ==
  ASSUME UNCHANGED <<block, page>>, Passed' = Passed, flt'.pgOff = flt.pgOff, ch'[Data] = ch[Data], DataInv
  PROVE  DataInv'
BY Steady DEF DataInv

LEMMA KeepFlt ==
  ASSUME UNCHANGED <<block, page, flt>>, hold'["filter"] = hold["filter"]
  PROVE  (FltInv => FltInv') /\ \A c : Wrote(c)' = Wrote(c)
<1>1. FltInv => FltInv'
  BY Steady DEF FltInv, Held
<1>2. \A c : Wrote(c)' = Wrote(c)
  BY Steady DEF Wrote
<1> QED BY <1>1, <1>2

LEMMA KeepConv ==
  ASSUME UNCHANGED <<block, page>>, NEW c, conv'[c] = conv[c], hold'[c] = hold[c]
  PROVE  Took(c)' = Took(c) /\ Converted(c)' = Converted(c) /\ (ConvInv(c) => ConvInv(c)')
<1>1. Converted(c)' = Converted(c)
  BY Steady DEF Converted
<1>2. Took(c)' = Took(c)
  BY <1>1 DEF Took, Held
<1>3. ConvInv(c) => ConvInv(c)'
  BY <1>1, Steady DEF ConvInv
<1> QED BY <1>1, <1>2, <1>3

LEMMA KeepAgg ==
  ASSUME UNCHANGED <<block, page, aggr>>
  PROVE  /\ Added' = Added /\ \A i : Used(i)' = Used(i)
         /\ AggInv => AggInv'
         /\ sums' = sums /\ SumsInv => SumsInv'
<1>1. Added' = Added
  BY Steady DEF Added
<1>2. \A i : Used(i)' = Used(i)
  BY <1>1 DEF Used
<1>3. AggInv => AggInv'
  BY <1>1, Steady DEF AggInv
<1>4. sums' = sums /\ SumsInv => SumsInv'
  BY <1>1, Steady DEF SumsInv
<1> QED BY <1>1, <1>2, <1>3, <1>4

LEMMA KeepField ==
  ASSUME UNCHANGED <<block, page>>, NEW c, Took(c)' = Took(c), Wrote(c)' = Wrote(c),
         ch'[Field(c)] = ch[Field(c)], FieldInv(c)
  PROVE  FieldInv(c)'
BY Steady DEF FieldInv

LEMMA KeepNative ==
  ASSUME UNCHANGED <<block, page>>, NEW i, Used(i)' = Used(i), Converted(Columns[i])' = Converted(Columns[i]),
         ch'[Native(Columns[i])] = ch[Native(Columns[i])], NativeInv(i)
  PROVE  NativeInv(i)'
BY Steady DEF NativeInv

LEMMA KeepCount ==
  ASSUME UNCHANGED <<block, page>>, NEW i, Sent(i)' = Sent(i), Got(Consumers[i])' = Got(Consumers[i]),
         ch'[Count(Consumers[i])] = ch[Count(Consumers[i])], CountInv(i)
  PROVE  CountInv(i)'
BY Steady DEF CountInv

LEMMA KeepEop ==
  ASSUME flt'.pc = flt.pc, aggr'.pc = aggr.pc, ch'[Eop] = ch[Eop], EopInv
  PROVE  EopInv'
BY DEF EopInv

\* Depths are kept by every write that was possible, and by every read.
LEMMA BoundedPut ==
  ASSUME Basics, Bounded, UNCHANGED <<block, page, inStream>>, NEW s \in Streams, NEW v, NEW S,
         ch[s] \in Seq(S), v \in S, CanWrite(s), ch' = Put(s, v)
  PROVE  Bounded'
<1>1. /\ ch'[s] = Append(ch[s], v) /\ \A r \in Streams : r # s => ch'[r] = ch[r]
  BY PutStream DEF Basics
<1>2. Len(ch'[s]) = Len(ch[s]) + 1 /\ Len(ch[s]) \in Nat
  BY <1>1, AppendShift
<1>3. Depth(s) \in Nat
  BY Sizes DEF Depth
<1>4. Len(ch'[s]) <= Depth(s)
  BY <1>2, <1>3 DEF CanWrite
<1> QED BY <1>1, <1>4, Steady DEF Bounded

LEMMA BoundedGet ==
  ASSUME Basics, Bounded, UNCHANGED <<block, page, inStream>>, NEW s \in Streams, NEW S,
         ch[s] \in Seq(S), CanRead(s), ch' = Get(s)
  PROVE  Bounded'
<1>1. /\ ch'[s] = Tail(ch[s]) /\ \A r \in Streams : r # s => ch'[r] = ch[r]
  BY GetStream DEF Basics
<1>2. Len(ch'[s]) = Len(ch[s]) - 1 /\ Len(ch[s]) \in Nat
  BY <1>1, TailShift DEF CanRead
<1>3. Depth(s) \in Nat
  BY Sizes DEF Depth
<1>4. Len(ch'[s]) <= Depth(s)
  BY <1>2, <1>3 DEF Bounded
<1> QED BY <1>1, <1>4, Steady DEF Bounded

\* A step of the reader, of pageToByte or of getHeaderInt2 leaves alone what is behind q6_filter.
LEMMA KeepBehind ==
  ASSUME UNCHANGED <<block, page, flt, conv, aggr, sums>>, Behind,
         \A p \in {"filter"} \cup ColumnSet : hold'[p] = hold[p],
         ch'[Eop] = ch[Eop],
         \A c \in ColumnSet : ch'[Field(c)] = ch[Field(c)] /\ ch'[Native(c)] = ch[Native(c)]
  PROVE  Behind' /\ \A x : Got(x)' = Got(x)
<1>1. FltInv' /\ \A c : Wrote(c)' = Wrote(c)
  BY KeepFlt DEF Behind
<1>2. AggInv' /\ SumsInv' /\ \A i : Used(i)' = Used(i)
  BY KeepAgg DEF Behind
<1>3. EopInv'
  BY KeepEop DEF Behind
<1>4. \A c \in ColumnSet : Took(c)' = Took(c) /\ Converted(c)' = Converted(c) /\ ConvInv(c)'
  BY KeepConv DEF Behind
<1>5. \A c \in ColumnSet : FieldInv(c)'
  BY <1>1, <1>4, KeepField DEF Behind
<1>6. \A i \in 1 .. Len(Columns) : NativeInv(i)'
  BY <1>2, <1>4, KeepNative, ConsumerList DEF Behind
<1>7. \A x : Got(x)' = Got(x)
  BY DEF Got
<1> QED BY <1>1, <1>2, <1>3, <1>4, <1>5, <1>6, <1>7 DEF Behind

---------------------------------------------------------------------------
(* Steps of read and pageToByte *)

LEMMA Numbers ==
  ASSUME IInv
  PROVE  /\ HdrTook \in 0 .. PAGE_SZ /\ ToTake \in Nat /\ ToWrite \in Nat /\ ToWrite = ToTake + Len(ch[Byte])
         /\ Len(ch[Byte]) \in Nat /\ ToWrite \div WORD_SZ \in Nat /\ ToRead \in Nat /\ ToDeal \in Nat
         /\ ToDeal = ToRead + Len(inStream[me]) /\ Len(inStream[me]) \in Nat
<1>1. PAGE_SZ \in Nat /\ PAGE_SZ >= 3 /\ page \in Nat \ {0} /\ me \in Units
  BY Sizes DEF IInv, Basics
<1>2. HdrTook \in 0 .. PAGE_SZ
  BY <1>1 DEF IInv, HdrInv, HdrStages, HdrTook, Held, Basics, HDR_READ
<1>3. ToTake \in Nat
  <2>1. (page - 1) * PAGE_SZ \in Nat
    BY <1>1, Z3
  <2> QED BY <1>2, <2>1 DEF ToTake
<1>4. Len(ch[Byte]) \in Nat /\ Len(inStream[me]) \in Nat
  BY <1>1 DEF IInv, ByteInv, ReaderInv
<1>5. ToWrite \in Nat
  BY <1>3, <1>4 DEF ToWrite
<1>6. ToWrite \div WORD_SZ \in Nat
  BY <1>5, NextByte
<1>7. ToRead \in Nat
  BY <1>6 DEF ToRead
<1>8. ToDeal \in Nat
  BY <1>4, <1>7 DEF ToDeal
<1> QED BY <1>2, <1>3, <1>4, <1>5, <1>6, <1>7, <1>8 DEF ToWrite, ToDeal

\* They leave alone what is behind the stream of bytes.
LEMMA KeepPage ==
  ASSUME IInv, UNCHANGED <<block, page, hdr, flt, conv, aggr, hold, sums>>,
         DOMAIN ch' = Streams, \A s \in Streams : s # Byte => ch'[s] = ch[s]
  PROVE  Basics' /\ HdrInv' /\ Inner' /\ ToTake' = ToTake /\ \A x : WordOf(x)' = WordOf(x) /\ ByteOf(x)' = ByteOf(x)
<1>1. Basics'
  BY DEF IInv, Basics, block
<1>2. HdrInv' /\ ToTake' = ToTake /\ Passed' = Passed /\ \A i : Sent(i)' = Sent(i)
  BY KeepHdr DEF IInv
<1>3. /\ ch'[Data] = ch[Data] /\ ch'[Eop] = ch[Eop]
      /\ \A c \in ColumnSet : ch'[Field(c)] = ch[Field(c)] /\ ch'[Native(c)] = ch[Native(c)]
      /\ \A i \in 1 .. Len(Consumers) : ch'[Count(Consumers[i])] = ch[Count(Consumers[i])]
  BY StreamNames, StreamsDiffer
<1>4. Behind' /\ \A x : Got(x)' = Got(x)
  BY <1>3, KeepBehind DEF IInv, Inner
<1>5. DataInv'
  BY <1>2, <1>3, KeepData DEF IInv, Inner
<1>6. \A i \in 1 .. Len(Consumers) : CountInv(i)'
  BY <1>2, <1>3, <1>4, KeepCount DEF IInv, Inner
<1>7. Inner'
  BY <1>4, <1>5, <1>6 DEF Inner
<1> QED BY <1>1, <1>2, <1>7, Steady

\* The next word is this unit's exactly when it is the next of the unit's words.
LEMMA NextDealt ==
  ASSUME IInv, dealt < NUM_WORDS
  PROVE  /\ dealt \in Nat /\ dealt + 1 \in 0 .. NUM_WORDS
         /\ LoopU(dealt) = me <=> dealt = WordOf(ToDeal)
         /\ LoopU(dealt) = me =>
              dealt + 1 <= WordOf(ToDeal + 1) /\ \A k \in 0 .. ToDeal : WordOf(k) < dealt + 1
         /\ LoopU(dealt) # me =>
              dealt + 1 <= WordOf(ToDeal) /\ \A k \in 0 .. ToDeal - 1 : WordOf(k) < dealt + 1
<1>1. NUM_WORDS \in Nat
  <2>1. NUM_PU \in Nat /\ PAGES \in Nat /\ WORDS_PER_PAGE \in Nat
    BY Sizes
  <2> QED BY <2>1, Z3 DEF NUM_WORDS
<1>2. dealt \in Nat /\ dealt + 1 \in 0 .. NUM_WORDS
  BY <1>1 DEF IInv, ReaderInv
<1>3. ToDeal \in Nat /\ me \in Units
  BY Numbers DEF IInv, Basics
<1>4. dealt <= WordOf(ToDeal) /\ \A k \in 0 .. ToDeal - 1 : WordOf(k) < dealt
  BY DEF IInv, ReaderInv
<1>5. /\ \A k \in Nat : WordOf(k) \in Nat /\ LoopU(WordOf(k)) = me
      /\ \A a, b \in Nat : a < b => WordOf(a) < WordOf(b)
  BY <1>3, WordOrder
<1>6. ASSUME LoopU(dealt) = me PROVE dealt = WordOf(ToDeal)
  <2>1. PICK g \in Nat : dealt = WordOf(g)
    BY <1>2, <1>3, <1>6, DealtWord
  <2>2. ~(g < ToDeal)
    BY <1>2, <1>3, <1>4, <2>1
  <2>3. ~(ToDeal < g)
    <3> SUFFICES ASSUME ToDeal < g PROVE FALSE
      OBVIOUS
    <3>1. WordOf(ToDeal) < WordOf(g) /\ WordOf(ToDeal) \in Nat /\ WordOf(g) \in Nat
      BY <1>3, <1>5
    <3> QED BY <1>2, <1>4, <2>1, <3>1
  <2>4. g = ToDeal
    BY <1>3, <2>2, <2>3
  <2> QED BY <2>1, <2>4
<1>7. dealt = WordOf(ToDeal) => LoopU(dealt) = me
  BY <1>3, <1>5
<1>8. ASSUME LoopU(dealt) = me
      PROVE  dealt + 1 <= WordOf(ToDeal + 1) /\ \A k \in 0 .. ToDeal : WordOf(k) < dealt + 1
  <2>1. WordOf(ToDeal) < WordOf(ToDeal + 1) /\ WordOf(ToDeal) \in Nat /\ WordOf(ToDeal + 1) \in Nat
    <3>1. ToDeal + 1 \in Nat /\ ToDeal < ToDeal + 1
      BY <1>3
    <3> QED BY <1>3, <1>5, <3>1
  <2>2. dealt + 1 <= WordOf(ToDeal + 1)
    BY <1>2, <1>6, <1>8, <2>1
  <2>3. ASSUME NEW k \in 0 .. ToDeal PROVE WordOf(k) < dealt + 1
    <3>1. k \in Nat /\ WordOf(k) \in Nat
      BY <1>3, <1>5
    <3>2. CASE k = ToDeal
      BY <1>2, <1>6, <1>8, <3>2
    <3>3. CASE k # ToDeal
      <4>1. WordOf(k) < dealt
        BY <1>3, <1>4, <3>3
      <4> QED BY <1>2, <3>1, <4>1
    <3> QED BY <3>2, <3>3
  <2> QED BY <2>2, <2>3
<1>9. ASSUME LoopU(dealt) # me
      PROVE  dealt + 1 <= WordOf(ToDeal) /\ \A k \in 0 .. ToDeal - 1 : WordOf(k) < dealt + 1
  <2>1. dealt # WordOf(ToDeal) /\ WordOf(ToDeal) \in Nat
    BY <1>3, <1>5, <1>7, <1>9
  <2>2. dealt + 1 <= WordOf(ToDeal)
    BY <1>2, <1>4, <2>1
  <2>3. \A k \in 0 .. ToDeal - 1 : WordOf(k) \in Nat
    BY <1>3, <1>5
  <2> QED BY <1>2, <1>4, <2>2, <2>3
<1> QED BY <1>2, <1>6, <1>7, <1>8, <1>9

\* read.
LEMMA DealStep == IInv /\ Deal => IInv'
<1> SUFFICES ASSUME IInv, Deal PROVE IInv'
  OBVIOUS
<1> DEFINE u == LoopU(dealt)
<1>1. /\ dealt < NUM_WORDS /\ Len(inStream[u]) < IN_DEPTH /\ dealt' = dealt + 1
      /\ inStream' = [inStream EXCEPT ![u] = Append(@, Inbuf(dealt))]
      /\ UNCHANGED <<block, word, page, hdr, flt, conv, aggr, hold, ch, sums>>
  BY DEF Deal
<1>2. Basics' /\ HdrInv' /\ Inner' /\ ToTake' = ToTake /\ \A x : WordOf(x)' = WordOf(x) /\ ByteOf(x)' = ByteOf(x)
  BY <1>1, KeepPage DEF IInv, Basics
<1>3. ToWrite' = ToWrite /\ ByteInv' /\ word' = word /\ me' = me
  BY <1>1, <1>2, KeepBytes DEF IInv, block
<1>4. ToRead' = ToRead /\ WordInv'
  BY <1>2, <1>3 DEF ToRead, IInv, WordInv
<1>5. /\ u \in Units /\ Inbuf(dealt) = dealt /\ dealt \in Nat /\ me \in Units
  BY <1>1, NextDealt, DealtWord DEF IInv, Basics
<1>6. inStream \in [Units -> Seq(Int)] /\ \A v \in Units : Len(inStream[v]) <= IN_DEPTH
  BY DEF IInv, ReaderInv, Bounded
<1>7. inStream' = [inStream EXCEPT ![u] = Append(inStream[u], dealt)]
  BY <1>1, <1>5
<1> HIDE DEF u
<1>8. /\ inStream' \in [Units -> Seq(Int)] /\ inStream'[u] = Append(inStream[u], dealt)
      /\ \A v \in Units : v # u => inStream'[v] = inStream[v]
      /\ Len(inStream'[u]) = Len(inStream[u]) + 1 /\ Len(inStream[u]) \in Nat
  BY <1>5, <1>6, <1>7
<1>9. Bounded'
  <2>1. \A v \in Units : Len(inStream'[v]) <= IN_DEPTH
    BY <1>1, <1>6, <1>8, Sizes
  <2> QED BY <1>1, <2>1, Steady DEF IInv, Bounded
<1>10. ReaderInv'
  <2>1. /\ \A j \in 1 .. Len(inStream[me]) : inStream[me][j] = WordOf(ToRead + j - 1)
        /\ dealt + 1 \in 0 .. NUM_WORDS
    BY <1>1, NextDealt DEF IInv, ReaderInv
  <2>2. CASE u = me
    <3>1. ToDeal' = ToDeal + 1 /\ ToDeal \in Nat /\ ToRead \in Nat /\ ToDeal = ToRead + Len(inStream[me])
      <4>1. ToDeal' = ToRead + Len(inStream'[me])
        BY <1>3, <1>4 DEF ToDeal
      <4>2. ToDeal \in Nat /\ ToRead \in Nat /\ ToDeal = ToRead + Len(inStream[me])
        BY Numbers
      <4>3. Len(inStream'[me]) = Len(inStream[me]) + 1 /\ Len(inStream[me]) \in Nat
        BY <1>8, <2>2
      <4> QED BY <4>1, <4>2, <4>3
    <3>2. dealt + 1 <= WordOf(ToDeal + 1) /\ (\A k \in 0 .. ToDeal : WordOf(k) < dealt + 1) /\ dealt = WordOf(ToDeal)
      BY <1>1, <2>2, NextDealt DEF u
    <3>3. \A j \in 1 .. Len(inStream'[me]) : inStream'[me][j] = WordOf(ToRead + j - 1)
      <4> SUFFICES ASSUME NEW j \in 1 .. Len(inStream'[me]) PROVE inStream'[me][j] = WordOf(ToRead + j - 1)
        OBVIOUS
      <4>1. CASE j <= Len(inStream[me])
        <5>1. inStream[me] \in Seq(Int) /\ dealt \in Int /\ j \in 1 .. Len(inStream[me])
          BY <1>5, <1>6, <1>8, <2>2, <4>1
        <5>2. inStream'[me][j] = inStream[me][j]
          BY <1>8, <2>2, <5>1, AppendShift
        <5> QED BY <2>1, <5>1, <5>2
      <4>2. CASE j = Len(inStream[me]) + 1
        <5>1. ToRead + j - 1 = ToDeal
          BY <1>8, <2>2, <3>1, <4>2
        <5>2. inStream'[me][j] = dealt
          BY <1>5, <1>6, <1>8, <2>2, <4>2
        <5> QED BY <3>2, <5>1, <5>2
      <4> QED BY <1>8, <2>2, <4>1, <4>2
    <3>4. ToDeal' - 1 = ToDeal
      BY <3>1
    <3> QED BY <1>1, <1>2, <1>3, <1>4, <1>8, <2>1, <3>1, <3>2, <3>3, <3>4 DEF ReaderInv
  <2>3. CASE u # me
    <3>1. inStream'[me] = inStream[me]
      BY <1>5, <1>8, <2>3
    <3>2. ToDeal' = ToDeal
      BY <1>3, <1>4, <3>1 DEF ToDeal
    <3>3. dealt + 1 <= WordOf(ToDeal) /\ \A k \in 0 .. ToDeal - 1 : WordOf(k) < dealt + 1
      BY <1>1, <2>3, NextDealt DEF u
    <3> QED BY <1>1, <1>2, <1>3, <1>4, <1>8, <2>1, <3>1, <3>2, <3>3 DEF ReaderInv
  <2> QED BY <2>2, <2>3
<1> QED BY <1>2, <1>3, <1>4, <1>9, <1>10 DEF IInv

\* Another unit takes a word.
LEMMA OtherTakesStep ==
  ASSUME IInv, NEW u \in Units, OtherTakes(u)
  PROVE  IInv'
<1>1. /\ u # me /\ inStream[u] # << >> /\ inStream' = [inStream EXCEPT ![u] = Tail(@)] /\ dealt' = dealt
      /\ UNCHANGED <<block, word, page, hdr, flt, conv, aggr, hold, ch, sums>>
  BY DEF OtherTakes
<1>2. Basics' /\ HdrInv' /\ Inner' /\ ToTake' = ToTake /\ \A x : WordOf(x)' = WordOf(x) /\ ByteOf(x)' = ByteOf(x)
  BY <1>1, KeepPage DEF IInv, Basics
<1>3. ToWrite' = ToWrite /\ ByteInv' /\ word' = word /\ me' = me /\ me \in Units
  BY <1>1, <1>2, KeepBytes DEF IInv, block, Basics
<1>4. ToRead' = ToRead /\ WordInv'
  BY <1>2, <1>3 DEF ToRead, IInv, WordInv
<1>5. inStream \in [Units -> Seq(Int)] /\ \A v \in Units : Len(inStream[v]) <= IN_DEPTH
  BY DEF IInv, ReaderInv, Bounded
<1>6. /\ inStream' \in [Units -> Seq(Int)] /\ \A v \in Units : v # u => inStream'[v] = inStream[v]
      /\ Len(inStream'[u]) = Len(inStream[u]) - 1 /\ Len(inStream[u]) \in Nat
  <2>1. inStream'[u] = Tail(inStream[u]) /\ \A v \in Units : v # u => inStream'[v] = inStream[v]
    BY <1>1, <1>5
  <2>2. Tail(inStream[u]) \in Seq(Int) /\ Len(Tail(inStream[u])) = Len(inStream[u]) - 1 /\ Len(inStream[u]) \in Nat
    BY <1>1, <1>5, TailShift
  <2> QED BY <1>1, <1>5, <2>1, <2>2
<1>7. Bounded'
  <2>1. \A v \in Units : Len(inStream'[v]) <= IN_DEPTH
    <3>1. Len(inStream[u]) <= IN_DEPTH /\ IN_DEPTH \in Nat /\ Len(inStream[u]) \in Nat
      BY <1>5, <1>6, Sizes
    <3>2. Len(inStream'[u]) <= IN_DEPTH
      BY <1>6, <3>1
    <3> QED BY <1>5, <1>6, <3>2
  <2> QED BY <1>1, <2>1, Steady DEF IInv, Bounded
<1>8. ToDeal' = ToDeal /\ inStream'[me] = inStream[me]
  BY <1>1, <1>3, <1>4, <1>6 DEF ToDeal
<1>9. ReaderInv'
  BY <1>1, <1>2, <1>3, <1>4, <1>6, <1>8 DEF IInv, ReaderInv
<1> QED BY <1>2, <1>3, <1>4, <1>7, <1>9 DEF IInv

\* pageToByte reads a word.
LEMMA WordReadStep == IInv /\ WordRead => IInv'
<1> SUFFICES ASSUME IInv, WordRead PROVE IInv'
  OBVIOUS
<1>1. /\ word.w = NoToken /\ inStream[me] # << >> /\ word' = [w |-> <<Head(inStream[me])>>, j |-> 0]
      /\ inStream' = [inStream EXCEPT ![me] = Tail(@)] /\ dealt' = dealt
      /\ UNCHANGED <<block, page, hdr, flt, conv, aggr, hold, ch, sums>>
  BY DEF WordRead
<1>2. Basics' /\ HdrInv' /\ Inner' /\ ToTake' = ToTake /\ \A x : WordOf(x)' = WordOf(x) /\ ByteOf(x)' = ByteOf(x)
  BY <1>1, KeepPage DEF IInv, Basics
<1>3. ToWrite' = ToWrite /\ ByteInv' /\ me' = me /\ me \in Units
  BY <1>1, <1>2, KeepBytes DEF IInv, block, Basics
<1>4. inStream \in [Units -> Seq(Int)] /\ \A v \in Units : Len(inStream[v]) <= IN_DEPTH
  BY DEF IInv, ReaderInv, Bounded
<1>5. /\ inStream' \in [Units -> Seq(Int)] /\ \A v \in Units : v # me => inStream'[v] = inStream[v]
      /\ Len(inStream'[me]) = Len(inStream[me]) - 1 /\ Len(inStream[me]) \in Nat \ {0}
      /\ Head(inStream[me]) = inStream[me][1]
      /\ \A j \in 1 .. Len(inStream[me]) - 1 : inStream'[me][j] = inStream[me][j + 1] /\ j + 1 \in 1 .. Len(inStream[me])
  <2>1. inStream'[me] = Tail(inStream[me]) /\ \A v \in Units : v # me => inStream'[v] = inStream[v]
    BY <1>1, <1>3, <1>4
  <2> DEFINE s == inStream[me]
  <2>2. s \in Seq(Int) /\ s # << >>
    BY <1>1, <1>3, <1>4
  <2> HIDE DEF s
  <2>3. /\ Tail(s) \in Seq(Int) /\ Len(Tail(s)) = Len(s) - 1 /\ Len(s) \in Nat \ {0} /\ Head(s) = s[1]
        /\ \A j \in 1 .. Len(s) - 1 : Tail(s)[j] = s[j + 1] /\ j + 1 \in 1 .. Len(s)
    BY <2>2, TailShift
  <2>4. inStream' \in [Units -> Seq(Int)]
    BY <1>1, <1>3, <1>4, <2>3 DEF s
  <2> QED BY <2>1, <2>3, <2>4 DEF s
<1>6. Bounded'
  <2>1. \A v \in Units : Len(inStream'[v]) <= IN_DEPTH
    <3>1. Len(inStream[me]) <= IN_DEPTH /\ IN_DEPTH \in Nat /\ Len(inStream[me]) \in Nat
      BY <1>3, <1>4, <1>5, Sizes
    <3>2. Len(inStream'[me]) <= IN_DEPTH
      BY <1>5, <3>1
    <3> QED BY <1>3, <1>4, <1>5, <3>2
  <2> QED BY <1>1, <2>1, Steady DEF IInv, Bounded
<1>7. ToRead = ToWrite \div WORD_SZ /\ ToRead' = ToRead + 1 /\ ToRead \in Nat
  <2>1. word'.w # NoToken
    BY <1>1 DEF NoToken
  <2>2. ToRead = (ToWrite \div WORD_SZ) + 0 /\ ToRead' = (ToWrite \div WORD_SZ) + 1 /\ ToWrite \div WORD_SZ \in Nat
    BY <1>1, <1>3, <2>1, Numbers DEF ToRead
  <2> QED BY <2>2
<1>8. ToDeal' = ToDeal
  <2>1. ToDeal' = ToRead' + Len(inStream'[me]) /\ ToDeal = ToRead + Len(inStream[me])
    BY <1>3 DEF ToDeal
  <2> QED BY <1>5, <1>7, <2>1
<1>9. \A j \in 1 .. Len(inStream[me]) : inStream[me][j] = WordOf(ToRead + j - 1)
  BY DEF IInv, ReaderInv
<1>10. WordInv'
  <2>1. inStream[me][1] = WordOf(ToRead)
    <3>1. 1 \in 1 .. Len(inStream[me]) /\ ToRead + 1 - 1 = ToRead
      BY <1>5, <1>7
    <3> QED BY <1>9, <3>1
  <2>2. ToWrite % WORD_SZ = 0
    BY <1>1 DEF IInv, WordInv
  <2>3. word' = [w |-> <<WordOf(ToWrite \div WORD_SZ)>>, j |-> ToWrite % WORD_SZ]
    BY <1>1, <1>5, <1>7, <2>1, <2>2
  <2> QED BY <1>2, <1>3, <2>3 DEF WordInv, NoToken
<1>11. ReaderInv'
  <2>1. \A j \in 1 .. Len(inStream'[me]) : inStream'[me][j] = WordOf(ToRead' + j - 1)
    <3> SUFFICES ASSUME NEW j \in 1 .. Len(inStream[me]) - 1 PROVE inStream'[me][j] = WordOf(ToRead' + j - 1)
      BY <1>5
    <3>1. ToRead' + j - 1 = ToRead + (j + 1) - 1
      BY <1>7
    <3> QED BY <1>5, <1>9, <3>1
  <2> QED BY <1>1, <1>2, <1>3, <1>5, <1>8, <2>1 DEF IInv, ReaderInv
<1> QED BY <1>2, <1>3, <1>6, <1>10, <1>11 DEF IInv

\* It writes a byte.
LEMMA ByteWriteStep == IInv /\ ByteWrite => IInv'
<1> SUFFICES ASSUME IInv, ByteWrite PROVE IInv'
  OBVIOUS
<1> DEFINE a == word.w[1] * WORD_SZ + word.j
<1> DEFINE v == <<a \div PAGE_SZ, (a % PAGE_SZ) + 1>>
<1>1. /\ word.w # NoToken /\ CanWrite(Byte) /\ ch' = Put(Byte, v)
      /\ word' = IF word.j + 1 < WORD_SZ THEN [word EXCEPT !.j = @ + 1] ELSE [w |-> NoToken, j |-> 0]
      /\ UNCHANGED <<block, dealt, inStream, page, hdr, flt, conv, aggr, hold, sums>>
  BY DEF ByteWrite
<1>2. /\ DOMAIN ch' = Streams /\ ch'[Byte] = Append(ch[Byte], v)
      /\ \A r \in Streams : r # Byte => ch'[r] = ch[r]
  BY <1>1, PutStream, StreamNames DEF IInv, Basics
<1>3. Basics' /\ HdrInv' /\ Inner' /\ ToTake' = ToTake /\ \A x : WordOf(x)' = WordOf(x) /\ ByteOf(x)' = ByteOf(x)
  BY <1>1, <1>2, KeepPage
<1>4. /\ ToTake \in Nat /\ ToWrite \in Nat /\ ToWrite = ToTake + Len(ch[Byte]) /\ me \in Units /\ me' = me
      /\ ToRead = (ToWrite \div WORD_SZ) + 1
  BY <1>1, Numbers DEF IInv, Basics, block, ToRead
<1>5. word = [w |-> <<WordOf(ToWrite \div WORD_SZ)>>, j |-> ToWrite % WORD_SZ]
  BY <1>1 DEF IInv, WordInv
<1>6. v = ByteOf(ToWrite) /\ v \in Bytes
  <2>1. a = WordOf(ToWrite \div WORD_SZ) * WORD_SZ + (ToWrite % WORD_SZ)
    BY <1>5
  <2> QED BY <1>4, <2>1, ByteOfWord
<1> HIDE DEF v, a
<1>7. /\ ch'[Byte] \in Seq(Bytes) /\ Len(ch'[Byte]) = Len(ch[Byte]) + 1 /\ Len(ch[Byte]) \in Nat
      /\ ch'[Byte][Len(ch[Byte]) + 1] = v /\ \A j \in 1 .. Len(ch[Byte]) : ch'[Byte][j] = ch[Byte][j]
  BY <1>2, <1>6, AppendShift DEF IInv, ByteInv
<1>8. ToWrite' = ToWrite + 1
  <2>1. ToWrite' = ToTake + Len(ch'[Byte])
    BY <1>3 DEF ToWrite
  <2> QED BY <1>4, <1>7, <2>1
<1>9. ByteInv'
  <2>1. \A j \in 1 .. Len(ch'[Byte]) : ch'[Byte][j] = ByteOf(ToTake + j - 1)
    <3> SUFFICES ASSUME NEW j \in 1 .. Len(ch[Byte]) + 1 PROVE ch'[Byte][j] = ByteOf(ToTake + j - 1)
      BY <1>7
    <3>1. CASE j \in 1 .. Len(ch[Byte])
      BY <1>7, <3>1 DEF IInv, ByteInv
    <3>2. CASE j = Len(ch[Byte]) + 1
      <4>1. ToTake + j - 1 = ToWrite
        BY <1>4, <1>7, <3>2
      <4> QED BY <1>6, <1>7, <3>2, <4>1
    <3> QED BY <1>7, <3>1, <3>2
  <2> QED BY <1>3, <1>7, <2>1 DEF ByteInv
<1>10. Bounded'
  BY <1>1, <1>6, BoundedPut, StreamNames DEF IInv, ByteInv
<1> DEFINE k == ToWrite \div WORD_SZ
<1> DEFINE j == ToWrite % WORD_SZ
<1>11. /\ k \in Nat /\ j \in 0 .. WORD_SZ - 1
       /\ j + 1 < WORD_SZ => (ToWrite + 1) \div WORD_SZ = k /\ (ToWrite + 1) % WORD_SZ = j + 1
       /\ ~(j + 1 < WORD_SZ) => (ToWrite + 1) \div WORD_SZ = k + 1 /\ (ToWrite + 1) % WORD_SZ = 0
  BY <1>4, NextByte
<1>12. word.j = j /\ word = [w |-> <<WordOf(k)>>, j |-> j] /\ ToRead = k + 1
  BY <1>4, <1>5
<1> HIDE DEF k, j
<1>13. WordInv' /\ ToRead' = ToRead
  <2>1. CASE j + 1 < WORD_SZ
    <3>1. word' = [w |-> <<WordOf(k)>>, j |-> j + 1] /\ word'.w # NoToken
      BY <1>1, <1>12, <2>1 DEF NoToken
    <3>2. ToWrite' \div WORD_SZ = k /\ ToWrite' % WORD_SZ = j + 1
      BY <1>8, <1>11, <2>1
    <3>3. WordInv'
      BY <1>3, <3>1, <3>2 DEF WordInv
    <3>4. ToRead' = k + 1
      BY <3>1, <3>2 DEF ToRead
    <3> QED BY <1>12, <3>3, <3>4
  <2>2. CASE ~(j + 1 < WORD_SZ)
    <3>1. word' = [w |-> NoToken, j |-> 0] /\ word'.w = NoToken
      BY <1>1, <1>12, <2>2
    <3>2. ToWrite' \div WORD_SZ = k + 1 /\ ToWrite' % WORD_SZ = 0
      BY <1>8, <1>11, <2>2
    <3>3. WordInv'
      BY <3>1, <3>2 DEF WordInv
    <3>4. ToRead' = (k + 1) + 0
      BY <3>1, <3>2 DEF ToRead
    <3>5. ToRead' = k + 1
      BY <1>11, <3>4
    <3> QED BY <1>12, <3>3, <3>5
  <2> QED BY <2>1, <2>2
<1>14. ReaderInv'
  <2>1. ToDeal' = ToDeal /\ dealt' = dealt /\ inStream' = inStream
    BY <1>1, <1>4, <1>13 DEF ToDeal
  <2> QED BY <1>3, <1>4, <1>13, <2>1 DEF IInv, ReaderInv
<1> QED BY <1>3, <1>9, <1>10, <1>13, <1>14 DEF IInv

---------------------------------------------------------------------------
(* Steps of getHeaderInt2 *)

\* A step that takes no byte leaves alone what is in front.
LEMMA KeepFeed ==
  ASSUME IInv, UNCHANGED <<block, page, feedVars>>, HdrTook' = HdrTook, ch'[Byte] = ch[Byte]
  PROVE  ReaderInv' /\ WordInv' /\ ByteInv'
<1>1. ToTake' = ToTake
  BY Steady DEF ToTake
<1> QED BY <1>1, KeepBytes, KeepReader DEF IInv

\* A byte is taken: it is the next one of the page.
LEMMA TakeByte ==
  ASSUME IInv, UNCHANGED <<block, page, feedVars>>, CanRead(Byte), ch' = Get(Byte),
         HdrTook < PAGE_SZ, HdrTook' = HdrTook + 1
  PROVE  /\ ReaderInv' /\ WordInv' /\ ByteInv' /\ Bounded'
         /\ Head(ch[Byte]) = PageByte(HdrTook) /\ PageByte(HdrTook) \in Bytes
<1> DEFINE s == ch[Byte]
<1>1. DOMAIN ch' = Streams /\ ch'[Byte] = Tail(s) /\ \A r \in Streams : r # Byte => ch'[r] = ch[r]
  BY GetStream, StreamNames DEF IInv, Basics
<1>2. s \in Seq(Bytes) /\ s # << >>
  BY DEF IInv, ByteInv, CanRead
<1>3. \A j \in 1 .. Len(s) : s[j] = ByteOf(ToTake + j - 1)
  BY DEF IInv, ByteInv
<1>4. /\ HdrTook \in Nat /\ ToTake \in Nat /\ ToWrite = ToTake + Len(s) /\ page \in Nat \ {0} /\ PAGE_SZ \in Nat
      /\ inStream' = inStream
  BY Numbers, Sizes DEF IInv, Basics, feedVars
<1>5. Bounded'
  BY <1>2, <1>4, BoundedGet, StreamNames DEF IInv
<1> HIDE DEF s
<1>6. /\ Tail(s) \in Seq(Bytes) /\ Len(Tail(s)) = Len(s) - 1 /\ Len(s) \in Nat \ {0} /\ Head(s) = s[1] /\ Head(s) \in Bytes
      /\ \A j \in 1 .. Len(s) - 1 : Tail(s)[j] = s[j + 1] /\ j + 1 \in 1 .. Len(s)
  BY <1>2, TailShift
<1>7. ToTake' = ToTake + 1
  <2>1. ToTake = (page - 1) * PAGE_SZ + HdrTook /\ ToTake' = (page - 1) * PAGE_SZ + (HdrTook + 1)
    BY Steady DEF ToTake
  <2>2. (page - 1) * PAGE_SZ \in Int
    BY <1>4, Z3
  <2> QED BY <1>4, <2>1, <2>2
<1>8. ToWrite' = ToWrite
  <2>1. ToWrite' = ToTake' + Len(Tail(s))
    BY <1>1 DEF ToWrite
  <2> QED BY <1>4, <1>6, <1>7, <2>1
<1>9. ReaderInv' /\ WordInv'
  BY <1>8, KeepReader DEF IInv
<1>10. ByteInv'
  <2>1. \A j \in 1 .. Len(Tail(s)) : Tail(s)[j] = ByteOf(ToTake' + j - 1)
    <3> SUFFICES ASSUME NEW j \in 1 .. Len(s) - 1 PROVE Tail(s)[j] = ByteOf(ToTake' + j - 1)
      BY <1>6
    <3>1. ToTake' + j - 1 = ToTake + (j + 1) - 1
      BY <1>4, <1>7
    <3> QED BY <1>3, <1>6, <3>1
  <2> QED BY <1>1, <1>6, <2>1, Steady DEF ByteInv
<1>11. Head(s) = PageByte(HdrTook)
  <2>1. Head(s) = ByteOf(ToTake)
    <3>1. 1 \in 1 .. Len(s) /\ ToTake + 1 - 1 = ToTake
      BY <1>4, <1>6
    <3> QED BY <1>3, <1>6, <3>1
  <2>2. ToTake = (page - 1) * PAGE_SZ + HdrTook /\ page - 1 \in Nat /\ HdrTook \in 0 .. PAGE_SZ - 1
    BY <1>4 DEF ToTake
  <2>3. ByteOf((page - 1) * PAGE_SZ + HdrTook) = <<(page - 1) * NUM_PU + me, HdrTook + 1>>
    BY <2>2, ByteOfPage
  <2> QED BY <2>1, <2>2, <2>3 DEF PageByte, Mine
<1> QED BY <1>5, <1>6, <1>9, <1>10, <1>11 DEF s

\* A byte is handed to q6_filter: it is the next one of the page.
LEMMA PassByte ==
  ASSUME IInv, UNCHANGED <<block, page, feedVars, flt>>, CanWrite(Data), ch' = Put(Data, PageByte(Passed)),
         Passed' = Passed + 1
  PROVE  DataInv' /\ Bounded'
<1> DEFINE s == ch[Data]
<1> DEFINE v == PageByte(Passed)
<1> DEFINE o == flt.pgOff
<1>1. ch'[Data] = Append(s, v)
  BY PutStream, StreamNames DEF IInv, Basics
<1>2. s \in Seq(Bytes) /\ o + Len(s) = Passed /\ (\A j \in 1 .. Len(s) : s[j] = PageByte(o + j - 1)) /\ o \in Nat
  BY DEF IInv, Inner, DataInv, Behind, FltInv
<1>3. v \in Bytes
  <2>1. Mine \in Int /\ Passed \in Int
    BY <1>2, PageFacts DEF IInv
  <2> QED BY <2>1 DEF PageByte, Bytes
<1>4. Bounded'
  BY <1>2, <1>3, BoundedPut, StreamNames DEF IInv, feedVars
<1> HIDE DEF s, v
<1>5. /\ Append(s, v) \in Seq(Bytes) /\ Len(Append(s, v)) = Len(s) + 1 /\ Len(s) \in Nat
      /\ Append(s, v)[Len(s) + 1] = v /\ \A j \in 1 .. Len(s) : Append(s, v)[j] = s[j]
  BY <1>2, <1>3, AppendShift
<1>6. \A j \in 1 .. Len(Append(s, v)) : Append(s, v)[j] = PageByte(o + j - 1)
  <2> SUFFICES ASSUME NEW j \in 1 .. Len(s) + 1 PROVE Append(s, v)[j] = PageByte(o + j - 1)
    BY <1>5
  <2>1. CASE j \in 1 .. Len(s)
    BY <1>2, <1>5, <2>1
  <2>2. CASE j = Len(s) + 1
    <3>1. o + j - 1 = Passed
      BY <1>2, <1>5, <2>2
    <3> QED BY <1>5, <2>2, <3>1 DEF v
  <2> QED BY <1>5, <2>1, <2>2
<1>7. flt'.pgOff = o
  OBVIOUS
<1> HIDE DEF o
<1>8. o + Len(Append(s, v)) = Passed + 1
  BY <1>2, <1>5
<1>9. DataInv'
  BY <1>1, <1>5, <1>6, <1>7, <1>8, Steady DEF DataInv
<1> QED BY <1>4, <1>9

\* The header names this page, so the count is that of its tuples.
LEMMA CountIs ==
  ASSUME IInv, hdr.pc # "head"
  PROVE  TupleCount = Tuples /\ TupleBytes = Filled
<1>1. hdr.buf[1] = PageByte(0)
  <2>1. 1 \in 1 .. Len(hdr.buf)
    BY PageFacts, Sizes DEF IInv, HdrInv
  <2> QED BY <2>1 DEF IInv, HdrInv
<1>2. hdr.buf[1][1] = Mine
  BY <1>1 DEF PageByte
<1>3. (Mine \div NUM_PU) + 1 = page
  <2>1. NUM_PU \in Nat \ {0} /\ page - 1 \in Int /\ me \in 0 .. NUM_PU - 1 /\ page \in Int
    BY Sizes DEF IInv, Basics, Units
  <2>2. Mine = NUM_PU * (page - 1) + me
    BY <2>1, Z3 DEF Mine
  <2>3. (NUM_PU * (page - 1) + me) \div NUM_PU = page - 1
    BY <2>1, ModIs
  <2> QED BY <2>1, <2>2, <2>3
<1>4. TupleCount = Tuples
  BY <1>2, <1>3 DEF TupleCount, Tuples
<1> QED BY <1>4 DEF TupleBytes, Filled

\* What every step of getHeaderInt2 has in common.
LEMMA HeaderStep ==
  ASSUME IInv, Header, DOMAIN hold' = Processes, \A p \in Processes : p # "header" => hold'[p] = hold[p],
         DOMAIN ch' = Streams, ch'[Eop] = ch[Eop],
         \A c \in ColumnSet : ch'[Field(c)] = ch[Field(c)] /\ ch'[Native(c)] = ch[Native(c)],
         Bounded', ReaderInv', WordInv', ByteInv', HdrInv', DataInv',
         (\A x : Got(x)' = Got(x)) => \A i \in 1 .. Len(Consumers) : CountInv(i)'
  PROVE  IInv'
<1>1. UNCHANGED <<block, feedVars, page, flt, conv, aggr, sums>>
  BY DEF Header
<1>2. \A p \in {"filter"} \cup ColumnSet : hold'[p] = hold[p]
  BY ColumnField DEF Processes
<1>3. Behind' /\ \A x : Got(x)' = Got(x)
  BY <1>1, <1>2, KeepBehind DEF IInv, Inner
<1>4. Basics'
  BY <1>1 DEF IInv, Basics, block
<1> QED BY <1>3, <1>4 DEF IInv, Inner

\* The header is read.
LEMMA HeadReadStep == IInv /\ HeadRead => IInv'
<1> SUFFICES ASSUME IInv, HeadRead PROVE IInv'
  OBVIOUS
<1> DEFINE v == Head(ch[Byte])
<1> DEFINE last == ~(hdr.i + 1 < HDR_READ)
<1>1. /\ hdr.pc = "head" /\ CanRead(Byte) /\ ch' = Get(Byte) /\ hold' = hold
      /\ hdr' = [pc |-> IF hdr.i + 1 < HDR_READ THEN "head" ELSE IF p2p THEN "tuples" ELSE "counts",
                 i |-> IF hdr.i + 1 < HDR_READ THEN hdr.i + 1 ELSE 0, buf |-> Append(hdr.buf, v)]
      /\ UNCHANGED <<block, feedVars, page, flt, conv, aggr, sums>> /\ Header
  BY DEF HeadRead, Header
<1>2. /\ DOMAIN ch' = Streams /\ \A r \in Streams : r # Byte => ch'[r] = ch[r]
  BY <1>1, GetStream, StreamNames DEF IInv, Basics
<1>3. /\ ch'[Data] = ch[Data] /\ ch'[Eop] = ch[Eop]
      /\ \A c \in ColumnSet : ch'[Field(c)] = ch[Field(c)] /\ ch'[Native(c)] = ch[Native(c)]
      /\ \A i \in 1 .. Len(Consumers) : ch'[Count(Consumers[i])] = ch[Count(Consumers[i])]
  BY <1>2, StreamNames, StreamsDiffer
<1>4. /\ hdr.i \in Nat /\ hdr.i < HDR_READ /\ HDR_READ \in 1 .. PAGE_SZ /\ PAGE_SZ \in Nat /\ hdr.buf \in Seq(Bytes)
      /\ Len(hdr.buf) = hdr.i /\ hold["header"] = NoToken
      /\ \A j \in 1 .. Len(hdr.buf) : hdr.buf[j] = PageByte(j - 1)
  BY <1>1, PageFacts, Sizes DEF IInv, HdrInv
<1>5. HDR_READ = (IF p2p THEN PAGE_SZ ELSE 2) /\ HDR = (IF p2p THEN 0 ELSE 2)
  BY DEF HDR_READ, HDR
<1>6. last => hdr.i + 1 = HDR_READ
  BY <1>4
<1>7. HdrTook = hdr.i /\ HdrTook' = hdr.i + 1
  <2>1. HdrTook = hdr.i
    BY <1>1 DEF HdrTook
  <2>2. CASE ~last
    BY <1>1, <2>2 DEF HdrTook
  <2>3. CASE last
    BY <1>1, <1>5, <1>6, <2>3, Steady DEF HdrTook
  <2> QED BY <2>1, <2>2, <2>3
<1>8. Passed' = Passed
  <2>1. CASE ~last
    BY <1>1, <2>1, Steady DEF Passed
  <2>2. CASE last
    BY <1>1, <1>5, <2>2, Steady DEF Passed
  <2> QED BY <2>1, <2>2
<1>9. \A i \in 1 .. Len(Consumers) : Sent(i)' = Sent(i)
  <2>1. \A i \in 1 .. Len(Consumers) : ~Sent(i)
    BY <1>1 DEF Sent
  <2>2. \A i \in 1 .. Len(Consumers) : ~Sent(i)'
    BY <1>1 DEF Sent
  <2> QED BY <2>1, <2>2 DEF Sent
<1>10. ReaderInv' /\ WordInv' /\ ByteInv' /\ Bounded' /\ v = PageByte(hdr.i) /\ v \in Bytes
  <2>1. HdrTook < PAGE_SZ /\ HdrTook' = HdrTook + 1
    BY <1>4, <1>7
  <2> QED BY <1>1, <1>7, <2>1, TakeByte
<1>11. DataInv'
  BY <1>1, <1>3, <1>8, KeepData DEF IInv, Inner
<1>12. (\A x : Got(x)' = Got(x)) => \A i \in 1 .. Len(Consumers) : CountInv(i)'
  BY <1>1, <1>3, <1>9, KeepCount DEF IInv, Inner
<1>13. HdrInv'
  <2> HIDE DEF v
  <2>1. /\ Append(hdr.buf, v) \in Seq(Bytes) /\ Len(Append(hdr.buf, v)) = hdr.i + 1
        /\ Append(hdr.buf, v)[hdr.i + 1] = v /\ \A j \in 1 .. hdr.i : Append(hdr.buf, v)[j] = hdr.buf[j]
    BY <1>4, <1>10, AppendShift
  <2>2. \A j \in 1 .. Len(hdr'.buf) : hdr'.buf[j] = PageByte(j - 1)'
    <3>1. hdr'.buf = Append(hdr.buf, v) /\ \A x : PageByte(x)' = PageByte(x)
      BY <1>1, Steady
    <3> SUFFICES ASSUME NEW j \in 1 .. hdr.i + 1 PROVE Append(hdr.buf, v)[j] = PageByte(j - 1)
      BY <2>1, <3>1
    <3>2. CASE j \in 1 .. hdr.i
      BY <1>4, <2>1, <3>2
    <3>3. CASE j = hdr.i + 1
      <4>1. j - 1 = hdr.i
        BY <1>4, <3>3
      <4> QED BY <1>10, <2>1, <3>3, <4>1
    <3> QED BY <1>4, <3>2, <3>3
  <2>3. hdr' \in [pc : HdrStages', i : 0 .. PAGE_SZ, buf : Seq(Bytes)]
    <3>1. "head" \in HdrStages' /\ (p2p => "tuples" \in HdrStages') /\ "counts" \in HdrStages'
      BY <1>1, Steady DEF HdrStages
    <3> QED BY <1>1, <1>4, <2>1, <3>1
  <2>4. Len(Consumers) \in Nat \ {0} /\ Filled' \in Nat
    BY <1>1, ConsumerList, Sizes, PageFacts, Steady DEF IInv
  <2>5. hdr'.pc = "head" => hdr'.i < HDR_READ' /\ Len(hdr'.buf) = hdr'.i
    BY <1>1, <2>1, Steady
  <2>6. hdr'.pc # "head" => Len(hdr'.buf) = HDR_READ'
    BY <1>1, <1>6, <2>1, Steady
  <2>7. hdr'.pc = "tuples" => hdr'.i <= Filled'
    BY <1>1, <2>4
  <2>8. hdr'.pc = "counts" => hdr'.i < Len(Consumers)
    BY <1>1, <2>4
  <2>9. hdr'.pc \in {"head", "tuples", "counts"} /\ hold'["header"] = NoToken
    BY <1>1, <1>4
  <2> QED BY <2>2, <2>3, <2>5, <2>6, <2>7, <2>8, <2>9 DEF HdrInv
<1>14. DOMAIN hold' = Processes /\ \A p \in Processes : p # "header" => hold'[p] = hold[p]
  BY <1>1 DEF IInv, Basics
<1> QED BY <1>1, <1>2, <1>3, <1>10, <1>11, <1>12, <1>13, <1>14, HeaderStep

\* The state of getHeaderInt2 behind the header.
LEMMA HdrMoves ==
  ASSUME IInv, UNCHANGED <<block, page>>, hdr.pc # "head", NEW q \in HdrStages \ {"head"}, NEW n \in 0 .. PAGE_SZ,
         hdr' = [pc |-> q, i |-> n, buf |-> hdr.buf],
         q = "tuples" => n <= Filled, q = "counts" => n < Len(Consumers),
         q = "pass" => 2 <= n /\ n < PAGE_SZ, q = "rest" => Filled <= n /\ n < PAGE_SZ, q = "done" => n = PAGE_SZ,
         hold'["header"] # NoToken => q = "pass" /\ hold'["header"] = PageByte(n)
  PROVE  HdrInv'
<1>1. hdr'.pc = q /\ hdr'.i = n /\ hdr'.buf = hdr.buf /\ HdrStages' = HdrStages
  BY Steady DEF HdrStages
<1>2. hdr.buf \in Seq(Bytes) /\ Len(hdr.buf) = HDR_READ /\ \A j \in 1 .. Len(hdr.buf) : hdr.buf[j] = PageByte(j - 1)
  BY DEF IInv, HdrInv
<1>3. hdr' \in [pc : HdrStages, i : 0 .. PAGE_SZ, buf : Seq(Bytes)]
  BY <1>2
<1> QED BY <1>1, <1>2, <1>3, Steady DEF HdrInv

\* The state of getHeaderInt2, whatever the stage.
LEMMA HdrIs ==
  ASSUME IInv
  PROVE  /\ hdr = [pc |-> hdr.pc, i |-> hdr.i, buf |-> hdr.buf] /\ hdr.pc \in HdrStages /\ hdr.i \in 0 .. PAGE_SZ
         /\ hdr.pc # "pass" => hold["header"] = NoToken
         /\ hdr.pc = "pass" => ~p2p
         /\ hdr.pc \in {"tuples", "rest"} => p2p
         /\ DOMAIN hold = Processes /\ "header" \in Processes
<1>1. hdr \in [pc : HdrStages, i : 0 .. PAGE_SZ, buf : Seq(Bytes)]
  BY DEF IInv, HdrInv
<1>2. DOMAIN hold = Processes /\ "header" \in Processes
  BY DEF IInv, Basics, Processes
<1>3. hdr.pc # "pass" => hold["header"] = NoToken
  BY DEF IInv, HdrInv
<1>4. (hdr.pc = "pass" => ~p2p) /\ (hdr.pc \in {"tuples", "rest"} => p2p)
  BY <1>1 DEF HdrStages
<1> QED BY <1>1, <1>2, <1>3, <1>4

\* The count is sent to one more consumer.
LEMMA CountWriteStep == IInv /\ CountWrite => IInv'
<1> SUFFICES ASSUME IInv, CountWrite PROVE IInv'
  OBVIOUS
<1>0. PICK k \in Nat : k = hdr.i + 1
  <2>1. hdr.i \in Nat
    BY HdrIs
  <2> QED BY <2>1
<1> DEFINE s == Count(Consumers[k])
<1>1. /\ hdr.pc = "counts" /\ CanWrite(s) /\ ch' = Put(s, TupleCount) /\ hold' = hold
      /\ hdr' = IF k < Len(Consumers) THEN [hdr EXCEPT !.i = @ + 1]
                ELSE IF p2p THEN [hdr EXCEPT !.pc = "rest", !.i = TupleBytes]
                ELSE [hdr EXCEPT !.pc = "pass", !.i = HDR]
      /\ UNCHANGED <<block, feedVars, page, flt, conv, aggr, sums>> /\ Header
  BY <1>0 DEF CountWrite, Header
<1>2. TupleCount = Tuples /\ TupleBytes = Filled
  BY <1>1, CountIs
<1>3. /\ hdr.i \in Nat /\ hdr.i < Len(Consumers) /\ hold["header"] = NoToken /\ k \in 1 .. Len(Consumers)
      /\ hdr = [pc |-> "counts", i |-> hdr.i, buf |-> hdr.buf]
  <2>1. Len(Consumers) \in Nat /\ hdr.i < Len(Consumers)
    BY <1>1, ConsumerList, Sizes DEF IInv, HdrInv
  <2> QED BY <1>0, <1>1, <2>1, HdrIs
<1>4. s \in Streams
  BY <1>3, StreamNames
<1>5. DOMAIN ch' = Streams /\ ch'[s] = Append(ch[s], Tuples) /\ \A r \in Streams : r # s => ch'[r] = ch[r]
  BY <1>1, <1>2, <1>4, PutStream DEF IInv, Basics
<1>6. /\ ch'[Data] = ch[Data] /\ ch'[Eop] = ch[Eop] /\ ch'[Byte] = ch[Byte]
      /\ \A c \in ColumnSet : ch'[Field(c)] = ch[Field(c)] /\ ch'[Native(c)] = ch[Native(c)]
  BY <1>5, StreamNames, StreamsDiffer
<1>7. Filled \in Nat /\ Filled + 2 <= PAGE_SZ /\ PAGE_SZ \in Nat /\ PAGE_SZ >= 3 /\ Tuples \in Nat /\ (~p2p => HDR = 2)
  BY PageFacts, Sizes DEF IInv, HDR
<1>8. \E q \in HdrStages, n \in 0 .. PAGE_SZ :
        /\ hdr' = [pc |-> q, i |-> n, buf |-> hdr.buf]
        /\ \/ k < Len(Consumers) /\ q = "counts" /\ n = k
           \/ k = Len(Consumers) /\ p2p /\ q = "rest" /\ n = Filled
           \/ k = Len(Consumers) /\ ~p2p /\ q = "pass" /\ n = 2
  <2>1. CASE k < Len(Consumers)
    <3>1. k \in 0 .. PAGE_SZ
      BY <1>3, <1>7, <2>1, ConsumerList, Sizes, LayoutAssumption
    <3>2. hdr' = [pc |-> "counts", i |-> k, buf |-> hdr.buf]
      BY <1>0, <1>1, <1>3, <2>1
    <3> QED BY <2>1, <3>1, <3>2 DEF HdrStages
  <2>2. CASE ~(k < Len(Consumers)) /\ p2p
    <3>1. Filled \in 0 .. PAGE_SZ /\ k = Len(Consumers)
      BY <1>3, <1>7, <2>2
    <3>2. hdr' = [pc |-> "rest", i |-> Filled, buf |-> hdr.buf]
      BY <1>1, <1>2, <1>3, <2>2
    <3>3. "rest" \in HdrStages
      BY <2>2 DEF HdrStages
    <3> QED BY <2>2, <3>1, <3>2, <3>3
  <2>3. CASE ~(k < Len(Consumers)) /\ ~p2p
    <3>1. 2 \in 0 .. PAGE_SZ /\ k = Len(Consumers)
      BY <1>3, <1>7, <2>3
    <3>2. hdr' = [pc |-> "pass", i |-> 2, buf |-> hdr.buf]
      BY <1>1, <1>3, <1>7, <2>3
    <3>3. "pass" \in HdrStages
      BY <2>3 DEF HdrStages
    <3> QED BY <2>3, <3>1, <3>2, <3>3
  <2> QED BY <2>1, <2>2, <2>3
<1>9. PICK q \in HdrStages, n \in 0 .. PAGE_SZ :
        /\ hdr' = [pc |-> q, i |-> n, buf |-> hdr.buf]
        /\ \/ k < Len(Consumers) /\ q = "counts" /\ n = k
           \/ k = Len(Consumers) /\ p2p /\ q = "rest" /\ n = Filled
           \/ k = Len(Consumers) /\ ~p2p /\ q = "pass" /\ n = 2
  BY <1>8
<1>10. HdrInv'
  BY <1>1, <1>3, <1>7, <1>9, HdrMoves
<1>11. HdrTook = (IF p2p THEN PAGE_SZ ELSE 2) /\ Passed = (IF p2p THEN Filled ELSE 2)
  BY <1>1 DEF HdrTook, Passed
<1>12. HdrTook' = HdrTook /\ Passed' = Passed
  <2>0. Held("header")' = 0 /\ p2p' = p2p /\ Filled' = Filled
    BY <1>1, <1>3, Steady DEF Held
  <2>1. hdr'.pc = q /\ hdr'.i = n /\ Held("header")' = 0 /\ p2p' = p2p /\ Filled' = Filled
    BY <1>9, <2>0
  <2>2. CASE q = "counts"
    BY <1>11, <2>1, <2>2 DEF HdrTook, Passed
  <2>3. CASE q = "rest" /\ p2p /\ n = Filled
    BY <1>11, <2>1, <2>3 DEF HdrTook, Passed
  <2>4. CASE q = "pass" /\ ~p2p /\ n = 2
    BY <1>11, <2>1, <2>4 DEF HdrTook, Passed
  <2> QED BY <1>9, <2>2, <2>3, <2>4
<1>13. ReaderInv' /\ WordInv' /\ ByteInv' /\ DataInv'
  BY <1>1, <1>6, <1>12, KeepFeed, KeepData DEF IInv, Inner
<1>14. Sent(k)' /\ ~Sent(k) /\ \A i \in 1 .. Len(Consumers) : i # k => (Sent(i)' <=> Sent(i))
  <2>1. \A i \in 1 .. Len(Consumers) : Sent(i) <=> i <= hdr.i
    BY <1>1 DEF Sent
  <2>2. \A i \in 1 .. Len(Consumers) : Sent(i)' <=> i <= k
    <3>1. CASE q = "counts" /\ n = k
      BY <1>9, <3>1 DEF Sent
    <3>2. CASE q # "counts"
      BY <1>3, <1>9, <3>2 DEF Sent
    <3> QED BY <1>9, <3>1, <3>2
  <2>3. Sent(k)' /\ ~Sent(k)
    BY <1>0, <1>3, <2>1, <2>2
  <2>4. \A i \in 1 .. Len(Consumers) : i # k => (i <= k <=> i <= hdr.i)
    BY <1>0, <1>3
  <2> QED BY <2>1, <2>2, <2>3, <2>4
<1>15. CountInv(k) /\ ch[s] = << >>
  BY <1>3, <1>14 DEF IInv, Inner, CountInv
<1>16. Bounded'
  <2>1. ch[s] \in Seq(Nat) /\ TupleCount \in Nat /\ UNCHANGED <<block, page, inStream>>
    BY <1>1, <1>2, <1>7, <1>15 DEF feedVars
  <2> QED BY <1>1, <1>4, <2>1, BoundedPut DEF IInv
<1>17. ASSUME \A x : Got(x)' = Got(x) PROVE \A i \in 1 .. Len(Consumers) : CountInv(i)'
  <2> SUFFICES ASSUME NEW i \in 1 .. Len(Consumers) PROVE CountInv(i)'
    OBVIOUS
  <2>1. CASE i = k
    <3>1. ch'[s] = <<Tuples>> /\ Tuples' = Tuples
      BY <1>1, <1>5, <1>15, Steady
    <3>2. ~Got(Consumers[k])
      BY <1>14, <1>15 DEF CountInv
    <3>3. Sent(i)' /\ ~Got(Consumers[i])'
      BY <1>14, <1>17, <2>1, <3>2
    <3> QED BY <2>1, <3>1, <3>3 DEF CountInv
  <2>2. CASE i # k
    <3>1. Count(Consumers[i]) # s /\ Count(Consumers[i]) \in Streams
      BY <1>3, <2>2, ConsumerOnce, StreamNames, StreamsDiffer
    <3>2. ch'[Count(Consumers[i])] = ch[Count(Consumers[i])] /\ CountInv(i)
      BY <1>5, <3>1 DEF IInv, Inner
    <3>3. Sent(i)' = Sent(i)
      BY <1>14, <2>2 DEF Sent
    <3> QED BY <1>1, <1>17, <3>2, <3>3, KeepCount
  <2> QED BY <2>1, <2>2
<1>18. DOMAIN hold' = Processes /\ \A p \in Processes : p # "header" => hold'[p] = hold[p]
  BY <1>1 DEF IInv, Basics
<1> QED BY <1>1, <1>5, <1>6, <1>10, <1>13, <1>16, <1>17, <1>18, HeaderStep

\* Steps that send no count.
LEMMA NoCountStep ==
  ASSUME IInv, Header, DOMAIN hold' = Processes, \A p \in Processes : p # "header" => hold'[p] = hold[p],
         DOMAIN ch' = Streams, \A r \in Streams : r \notin {Byte, Data} => ch'[r] = ch[r],
         Bounded', ReaderInv', WordInv', ByteInv', HdrInv', DataInv',
         \A i \in 1 .. Len(Consumers) : Sent(i)' = Sent(i)
  PROVE  IInv'
<1>1. /\ ch'[Eop] = ch[Eop] /\ \A c \in ColumnSet : ch'[Field(c)] = ch[Field(c)] /\ ch'[Native(c)] = ch[Native(c)]
      /\ \A i \in 1 .. Len(Consumers) : ch'[Count(Consumers[i])] = ch[Count(Consumers[i])]
  BY StreamNames, StreamsDiffer
<1>2. UNCHANGED <<block, page>>
  BY DEF Header
<1>3. (\A x : Got(x)' = Got(x)) => \A i \in 1 .. Len(Consumers) : CountInv(i)'
  BY <1>1, <1>2, KeepCount DEF IInv, Inner
<1> QED BY <1>1, <1>3, HeaderStep

\* A byte is taken to be passed on.
LEMMA PassReadStep == IInv /\ PassRead => IInv'
<1> SUFFICES ASSUME IInv, PassRead PROVE IInv'
  OBVIOUS
<1> DEFINE v == Head(ch[Byte])
<1>1. /\ hdr.pc = "pass" /\ hold["header"] = NoToken /\ CanRead(Byte) /\ ch' = Get(Byte) /\ hdr' = hdr
      /\ hold' = [hold EXCEPT !["header"] = v]
      /\ UNCHANGED <<block, feedVars, page, flt, conv, aggr, sums>> /\ Header
  BY DEF PassRead, Header
<1>2. DOMAIN ch' = Streams /\ \A r \in Streams : r # Byte => ch'[r] = ch[r]
  BY <1>1, GetStream, StreamNames DEF IInv, Basics
<1>3. /\ hdr = [pc |-> "pass", i |-> hdr.i, buf |-> hdr.buf] /\ "pass" \in HdrStages /\ hdr.i \in 0 .. PAGE_SZ /\ ~p2p
      /\ 2 <= hdr.i /\ hdr.i < PAGE_SZ
  BY <1>1, HdrIs DEF IInv, HdrInv
<1>4. /\ DOMAIN hold' = Processes /\ hold'["header"] = v /\ \A p \in Processes : p # "header" => hold'[p] = hold[p]
  BY <1>1, HdrIs
<1>5. v # NoToken
  <2>1. v \in Bytes
    BY <1>1, TailShift DEF IInv, ByteInv, CanRead
  <2> QED BY <2>1 DEF Bytes, NoToken
<1>6. HdrTook = hdr.i + 0 /\ HdrTook' = hdr.i + 1
  BY <1>1, <1>3, <1>4, <1>5, Steady DEF HdrTook, Held
<1>7. HdrTook = hdr.i /\ HdrTook' = HdrTook + 1 /\ HdrTook < PAGE_SZ
  BY <1>3, <1>6
<1>8. ReaderInv' /\ WordInv' /\ ByteInv' /\ Bounded' /\ v = PageByte(hdr.i)
  BY <1>1, <1>7, TakeByte
<1>9. HdrInv'
  BY <1>1, <1>3, <1>4, <1>8, HdrMoves
<1>10. Passed' = Passed /\ \A i \in 1 .. Len(Consumers) : Sent(i)' = Sent(i)
  BY <1>1, Steady DEF Passed, Sent
<1>11. DataInv'
  BY <1>1, <1>2, <1>10, KeepData, StreamNames, StreamsDiffer DEF IInv, Inner
<1> QED BY <1>1, <1>2, <1>4, <1>8, <1>9, <1>10, <1>11, NoCountStep

\* A byte is passed on.
LEMMA PassWriteStep == IInv /\ PassWrite => IInv'
<1> SUFFICES ASSUME IInv, PassWrite PROVE IInv'
  OBVIOUS
<1> DEFINE q == IF hdr.i + 1 < PAGE_SZ THEN "pass" ELSE "done"
<1>1. /\ hdr.pc = "pass" /\ hold["header"] # NoToken /\ CanWrite(Data) /\ ch' = Put(Data, hold["header"])
      /\ hold' = [hold EXCEPT !["header"] = NoToken]
      /\ hdr' = [hdr EXCEPT !.pc = q, !.i = @ + 1]
      /\ UNCHANGED <<block, feedVars, page, flt, conv, aggr, sums>> /\ Header
  BY DEF PassWrite, Header
<1>2. /\ hdr = [pc |-> "pass", i |-> hdr.i, buf |-> hdr.buf] /\ hdr.i \in 0 .. PAGE_SZ /\ ~p2p
      /\ 2 <= hdr.i /\ hdr.i < PAGE_SZ /\ hold["header"] = PageByte(hdr.i) /\ PAGE_SZ \in Nat
  BY <1>1, HdrIs, Sizes DEF IInv, HdrInv
<1>3. DOMAIN ch' = Streams /\ \A r \in Streams : r # Data => ch'[r] = ch[r]
  BY <1>1, PutStream, StreamNames DEF IInv, Basics
<1>4. /\ DOMAIN hold' = Processes /\ hold'["header"] = NoToken /\ \A p \in Processes : p # "header" => hold'[p] = hold[p]
  BY <1>1, HdrIs
<1>5. hdr' = [pc |-> q, i |-> hdr.i + 1, buf |-> hdr.buf] /\ q \in HdrStages \ {"head"} /\ hdr.i + 1 \in 0 .. PAGE_SZ
  <2>1. q \in HdrStages \ {"head"}
    BY <1>2 DEF HdrStages
  <2>2. hdr.i + 1 \in 0 .. PAGE_SZ
    BY <1>2
  <2>3. hdr' = [pc |-> q, i |-> hdr.i + 1, buf |-> hdr.buf]
    <3> HIDE DEF q
    <3> QED BY <1>1, <1>2
  <2> QED BY <2>1, <2>2, <2>3
<1>6. HdrTook = hdr.i + 1 /\ HdrTook' = (hdr.i + 1) + 0 /\ hdr.i + 1 \in Nat
  BY <1>1, <1>2, <1>4, <1>5, Steady DEF HdrTook, Held
<1>7. HdrTook' = HdrTook
  BY <1>6
<1>8. ReaderInv' /\ WordInv' /\ ByteInv'
  BY <1>1, <1>3, <1>7, KeepFeed, StreamNames, StreamsDiffer
<1>9. Passed = hdr.i /\ Passed' = Passed + 1
  BY <1>1, <1>5 DEF Passed
<1>10. DataInv' /\ Bounded'
  BY <1>1, <1>2, <1>9, PassByte
<1>11. HdrInv'
  <2>1. /\ q \notin {"tuples", "counts", "rest"} /\ (q = "done" => hdr.i + 1 = PAGE_SZ)
        /\ q = "pass" => 2 <= hdr.i + 1 /\ hdr.i + 1 < PAGE_SZ
    BY <1>2
  <2>2. PICK r \in HdrStages \ {"head"}, n \in 0 .. PAGE_SZ : r = q /\ n = hdr.i + 1
    BY <1>5
  <2> HIDE DEF q
  <2>3. hdr' = [pc |-> r, i |-> n, buf |-> hdr.buf] /\ hdr.pc # "head" /\ UNCHANGED <<block, page>>
    BY <1>1, <1>5, <2>2
  <2> QED BY <1>4, <2>1, <2>2, <2>3, HdrMoves
<1>12. \A i \in 1 .. Len(Consumers) : Sent(i)' = Sent(i)
  BY <1>1, <1>5 DEF Sent
<1> QED BY <1>1, <1>3, <1>4, <1>8, <1>10, <1>11, <1>12, NoCountStep

\* A byte of the tuples is sent from the page buffer.
LEMMA TuplesWriteStep == IInv /\ TuplesWrite => IInv'
<1> SUFFICES ASSUME IInv, TuplesWrite PROVE IInv'
  OBVIOUS
<1>1. /\ hdr.pc = "tuples" /\ hdr.i < TupleBytes /\ CanWrite(Data) /\ ch' = Put(Data, hdr.buf[hdr.i + 1]) /\ hold' = hold
      /\ hdr' = [hdr EXCEPT !.i = @ + 1]
      /\ UNCHANGED <<block, feedVars, page, flt, conv, aggr, sums>> /\ Header
  BY DEF TuplesWrite, Header
<1>2. /\ hdr = [pc |-> "tuples", i |-> hdr.i, buf |-> hdr.buf] /\ hdr.i \in 0 .. PAGE_SZ /\ p2p /\ "tuples" \in HdrStages
      /\ hold["header"] = NoToken /\ PAGE_SZ \in Nat
  BY <1>1, HdrIs, Sizes
<1>3. hdr.i < Filled /\ Filled \in Nat /\ Filled + 2 <= PAGE_SZ
  BY <1>1, CountIs, PageFacts DEF IInv
<1>4. hdr.buf[hdr.i + 1] = PageByte(hdr.i)
  <2>1. Len(hdr.buf) = PAGE_SZ /\ \A j \in 1 .. Len(hdr.buf) : hdr.buf[j] = PageByte(j - 1)
    BY <1>1, <1>2 DEF IInv, HdrInv, HDR_READ
  <2>2. hdr.i + 1 \in 1 .. Len(hdr.buf) /\ (hdr.i + 1) - 1 = hdr.i
    BY <1>2, <1>3, <2>1
  <2> QED BY <2>1, <2>2
<1>5. DOMAIN ch' = Streams /\ \A r \in Streams : r # Data => ch'[r] = ch[r]
  BY <1>1, PutStream, StreamNames DEF IInv, Basics
<1>6. hdr' = [pc |-> "tuples", i |-> hdr.i + 1, buf |-> hdr.buf] /\ hdr.i + 1 \in 0 .. PAGE_SZ /\ hdr.i + 1 <= Filled
  BY <1>1, <1>2, <1>3
<1>7. HdrTook' = HdrTook
  BY <1>1, <1>2, <1>6, Steady DEF HdrTook
<1>8. ReaderInv' /\ WordInv' /\ ByteInv'
  BY <1>1, <1>5, <1>7, KeepFeed, StreamNames, StreamsDiffer
<1>9. Passed = hdr.i /\ Passed' = Passed + 1
  BY <1>1, <1>6 DEF Passed
<1>10. DataInv' /\ Bounded'
  BY <1>1, <1>4, <1>9, PassByte
<1>11. HdrInv'
  BY <1>1, <1>2, <1>6, HdrMoves
<1>12. \A i \in 1 .. Len(Consumers) : Sent(i)' = Sent(i)
  BY <1>1, <1>6 DEF Sent
<1>13. DOMAIN hold' = Processes /\ \A p \in Processes : p # "header" => hold'[p] = hold[p]
  BY <1>1, HdrIs
<1> QED BY <1>1, <1>5, <1>8, <1>10, <1>11, <1>12, <1>13, NoCountStep

\* All tuples have been sent.
LEMMA TuplesWrittenStep == IInv /\ TuplesWritten => IInv'
<1> SUFFICES ASSUME IInv, TuplesWritten PROVE IInv'
  OBVIOUS
<1>1. /\ hdr.pc = "tuples" /\ hdr.i = TupleBytes /\ ch' = ch /\ hold' = hold
      /\ hdr' = [hdr EXCEPT !.pc = "counts", !.i = 0]
      /\ UNCHANGED <<block, feedVars, page, flt, conv, aggr, sums>> /\ Header
  BY DEF TuplesWritten, Header
<1>2. /\ hdr = [pc |-> "tuples", i |-> hdr.i, buf |-> hdr.buf] /\ p2p /\ "counts" \in HdrStages
      /\ hold["header"] = NoToken /\ PAGE_SZ \in Nat /\ hdr.i = Filled
  BY <1>1, HdrIs, Sizes, CountIs DEF HdrStages
<1>3. hdr' = [pc |-> "counts", i |-> 0, buf |-> hdr.buf] /\ 0 \in 0 .. PAGE_SZ /\ 0 < Len(Consumers)
  <2>1. 0 < Len(Consumers)
    BY ConsumerList, Sizes
  <2>2. hdr' = [pc |-> "counts", i |-> 0, buf |-> hdr.buf]
    BY <1>1, <1>2
  <2>3. 0 \in 0 .. PAGE_SZ
    BY <1>2
  <2> QED BY <2>1, <2>2, <2>3
<1>4. HdrTook' = HdrTook /\ Passed' = Passed
  BY <1>1, <1>2, <1>3, Steady DEF HdrTook, Passed
<1>5. ReaderInv' /\ WordInv' /\ ByteInv' /\ DataInv'
  BY <1>1, <1>4, KeepFeed, KeepData DEF IInv, Inner
<1>6. HdrInv'
  BY <1>1, <1>2, <1>3, HdrMoves
<1>7. \A i \in 1 .. Len(Consumers) : Sent(i)' = Sent(i)
  BY <1>1, <1>3 DEF Sent
<1>8. Bounded'
  BY <1>1, Steady DEF IInv, Bounded, feedVars
<1>9. /\ DOMAIN hold' = Processes /\ \A p \in Processes : p # "header" => hold'[p] = hold[p]
      /\ DOMAIN ch' = Streams /\ \A r \in Streams : r \notin {Byte, Data} => ch'[r] = ch[r]
  BY <1>1, HdrIs DEF IInv, Basics
<1> QED BY <1>1, <1>5, <1>6, <1>7, <1>8, <1>9, NoCountStep

\* A byte of the rest of the page buffer is sent.
LEMMA RestWriteStep == IInv /\ RestWrite => IInv'
<1> SUFFICES ASSUME IInv, RestWrite PROVE IInv'
  OBVIOUS
<1> DEFINE q == IF hdr.i + 1 < PAGE_SZ THEN "rest" ELSE "done"
<1>1. /\ hdr.pc = "rest" /\ CanWrite(Data) /\ ch' = Put(Data, hdr.buf[hdr.i + 1]) /\ hold' = hold
      /\ hdr' = [hdr EXCEPT !.pc = q, !.i = @ + 1]
      /\ UNCHANGED <<block, feedVars, page, flt, conv, aggr, sums>> /\ Header
  BY DEF RestWrite, Header
<1>2. /\ hdr = [pc |-> "rest", i |-> hdr.i, buf |-> hdr.buf] /\ hdr.i \in 0 .. PAGE_SZ /\ p2p
      /\ hold["header"] = NoToken /\ PAGE_SZ \in Nat /\ Filled <= hdr.i /\ hdr.i < PAGE_SZ /\ Filled \in Nat
  BY <1>1, HdrIs, Sizes, PageFacts DEF IInv, HdrInv
<1>3. hdr.buf[hdr.i + 1] = PageByte(hdr.i)
  <2>1. Len(hdr.buf) = PAGE_SZ /\ \A j \in 1 .. Len(hdr.buf) : hdr.buf[j] = PageByte(j - 1)
    BY <1>1, <1>2 DEF IInv, HdrInv, HDR_READ
  <2>2. hdr.i + 1 \in 1 .. Len(hdr.buf) /\ (hdr.i + 1) - 1 = hdr.i
    BY <1>2, <2>1
  <2> QED BY <2>1, <2>2
<1>4. DOMAIN ch' = Streams /\ \A r \in Streams : r # Data => ch'[r] = ch[r]
  BY <1>1, PutStream, StreamNames DEF IInv, Basics
<1>5. hdr' = [pc |-> q, i |-> hdr.i + 1, buf |-> hdr.buf] /\ q \in HdrStages \ {"head"} /\ hdr.i + 1 \in 0 .. PAGE_SZ
  <2>1. q \in HdrStages \ {"head"}
    BY <1>2 DEF HdrStages
  <2>2. hdr.i + 1 \in 0 .. PAGE_SZ
    BY <1>2
  <2>3. hdr' = [pc |-> q, i |-> hdr.i + 1, buf |-> hdr.buf]
    <3> HIDE DEF q
    <3> QED BY <1>1, <1>2
  <2> QED BY <2>1, <2>2, <2>3
<1>6. HdrTook' = HdrTook
  BY <1>1, <1>2, <1>5, Steady DEF HdrTook
<1>7. ReaderInv' /\ WordInv' /\ ByteInv'
  BY <1>1, <1>4, <1>6, KeepFeed, StreamNames, StreamsDiffer
<1>8. Passed = hdr.i /\ Passed' = Passed + 1
  BY <1>1, <1>5 DEF Passed
<1>9. DataInv' /\ Bounded'
  BY <1>1, <1>3, <1>8, PassByte
<1>10. HdrInv'
  <2>1. /\ q \notin {"tuples", "counts", "pass"} /\ (q = "done" => hdr.i + 1 = PAGE_SZ)
        /\ q = "rest" => Filled <= hdr.i + 1 /\ hdr.i + 1 < PAGE_SZ
    BY <1>2
  <2>2. PICK r \in HdrStages \ {"head"}, n \in 0 .. PAGE_SZ : r = q /\ n = hdr.i + 1
    BY <1>5
  <2> HIDE DEF q
  <2>3. hdr' = [pc |-> r, i |-> n, buf |-> hdr.buf] /\ hdr.pc # "head" /\ UNCHANGED <<block, page>>
    BY <1>1, <1>5, <2>2
  <2>4. hold'["header"] = NoToken
    BY <1>1, <1>2
  <2> QED BY <2>1, <2>2, <2>3, <2>4, HdrMoves
<1>11. \A i \in 1 .. Len(Consumers) : Sent(i)' = Sent(i)
  BY <1>1, <1>5 DEF Sent
<1>12. DOMAIN hold' = Processes /\ \A p \in Processes : p # "header" => hold'[p] = hold[p]
  BY <1>1, HdrIs
<1> QED BY <1>1, <1>4, <1>7, <1>9, <1>10, <1>11, <1>12, NoCountStep

---------------------------------------------------------------------------
(* Streams whose entries are numbered *)

LEMMA TakeNext ==
  ASSUME NEW S, NEW s \in Seq(S), s # << >>, NEW F, NEW a \in Nat, \A j \in 1 .. Len(s) : s[j] = F[a + j - 1]
  PROVE  /\ Tail(s) \in Seq(S) /\ Len(Tail(s)) = Len(s) - 1 /\ Len(s) \in Nat \ {0}
         /\ Head(s) = F[a] /\ Head(s) \in S
         /\ \A j \in 1 .. Len(Tail(s)) : Tail(s)[j] = F[(a + 1) + j - 1]
<1>1. /\ Tail(s) \in Seq(S) /\ Len(Tail(s)) = Len(s) - 1 /\ Len(s) \in Nat \ {0} /\ Head(s) = s[1] /\ Head(s) \in S
      /\ \A j \in 1 .. Len(s) - 1 : Tail(s)[j] = s[j + 1] /\ j + 1 \in 1 .. Len(s)
  BY TailShift
<1>2. Head(s) = F[a]
  <2>1. 1 \in 1 .. Len(s) /\ a + 1 - 1 = a
    BY <1>1
  <2> QED BY <1>1, <2>1
<1>3. ASSUME NEW j \in 1 .. Len(s) - 1 PROVE Tail(s)[j] = F[(a + 1) + j - 1]
  <2>1. (a + 1) + j - 1 = a + (j + 1) - 1
    BY <1>1
  <2> QED BY <1>1, <2>1
<1> QED BY <1>1, <1>2, <1>3

LEMMA AddNext ==
  ASSUME NEW S, NEW s \in Seq(S), NEW F, NEW a \in Nat, NEW v \in S, v = F[a + Len(s)],
         \A j \in 1 .. Len(s) : s[j] = F[a + j - 1]
  PROVE  /\ Append(s, v) \in Seq(S) /\ Len(Append(s, v)) = Len(s) + 1 /\ Len(s) \in Nat
         /\ \A j \in 1 .. Len(Append(s, v)) : Append(s, v)[j] = F[a + j - 1]
<1>1. /\ Append(s, v) \in Seq(S) /\ Len(Append(s, v)) = Len(s) + 1 /\ Len(s) \in Nat
      /\ Append(s, v)[Len(s) + 1] = v /\ \A j \in 1 .. Len(s) : Append(s, v)[j] = s[j]
  BY AppendShift
<1>2. ASSUME NEW j \in 1 .. Len(s) + 1 PROVE Append(s, v)[j] = F[a + j - 1]
  <2>1. CASE j \in 1 .. Len(s)
    BY <1>1, <2>1
  <2>2. CASE j = Len(s) + 1
    <3>1. a + j - 1 = a + Len(s)
      BY <1>1, <2>2
    <3> QED BY <1>1, <2>2, <3>1
  <2> QED BY <1>1, <2>1, <2>2
<1> QED BY <1>1, <1>2

\* How far the processes behind getHeaderInt2 can be.
LEMMA Counters ==
  ASSUME IInv
  PROVE  /\ flt.pgOff \in Nat /\ flt.pgOff <= Passed /\ Passed \in Nat /\ Passed <= PAGE_SZ /\ Tuples \in Nat
         /\ \A c \in ColumnSet : Took(c) \in Nat /\ Converted(c) \in Nat /\ Wrote(c) \in Nat
         /\ Added \in Nat /\ \A i \in 1 .. Len(Columns) : Used(i) \in Nat
<1>1. Tuples \in Nat /\ Filled \in Nat /\ Filled + 2 <= PAGE_SZ /\ PAGE_SZ \in Nat /\ PAGE_SZ >= 3 /\ HDR \in {0, 2}
  BY PageFacts, Sizes DEF IInv
<1>2. Passed \in Nat /\ Passed <= PAGE_SZ
  BY <1>1 DEF IInv, HdrInv, HdrStages, Passed
<1>3. flt.pgOff \in Nat /\ flt.pgOff <= Passed
  <2>1. flt.pgOff \in Nat /\ flt.pgOff + Len(ch[Data]) = Passed /\ Len(ch[Data]) \in Nat
    BY DEF IInv, Inner, DataInv, Behind, FltInv
  <2> QED BY <1>2, <2>1
<1>4. ASSUME NEW c \in ColumnSet PROVE Took(c) \in Nat /\ Converted(c) \in Nat /\ Wrote(c) \in Nat
  <2>1. conv[c].n \in 0 .. Tuples /\ flt.t \in 0 .. Tuples
    BY DEF IInv, Inner, Behind, ConvInv, FltInv
  <2>2. Converted(c) \in Nat
    BY <1>1, <2>1 DEF Converted
  <2>3. Held(c) \in Nat
    BY DEF Held
  <2>4. Took(c) \in Nat
    BY <2>2, <2>3 DEF Took
  <2>5. Wrote(c) \in Nat
    BY <1>1, <2>1 DEF Wrote
  <2> QED BY <2>2, <2>4, <2>5
<1>5. Added \in Nat
  <2>1. aggr.n \in 0 .. Tuples
    BY DEF IInv, Inner, Behind, AggInv
  <2> QED BY <1>1, <2>1 DEF Added
<1>6. \A i \in 1 .. Len(Columns) : Used(i) \in Nat
  BY <1>5 DEF Used
<1> QED BY <1>1, <1>2, <1>3, <1>4, <1>5, <1>6

\* q6_filter takes a byte: it is the next one of the page.
LEMMA DataTake ==
  ASSUME IInv, UNCHANGED <<block, page, inStream>>, Passed' = Passed, CanRead(Data), ch' = Get(Data),
         flt'.pgOff = flt.pgOff + 1
  PROVE  /\ DataInv' /\ Bounded' /\ Head(ch[Data]) = PageByte(flt.pgOff) /\ Head(ch[Data]) \in Bytes
         /\ flt.pgOff + 1 <= Passed
<1> DEFINE s == ch[Data]
<1> DEFINE F == [x \in Nat |-> PageByte(x)]
<1> DEFINE o == flt.pgOff
<1>1. ch'[Data] = Tail(s) /\ s \in Seq(Bytes) /\ s # << >>
  BY GetStream, StreamNames DEF IInv, Basics, CanRead, Inner, DataInv
<1>2. o \in Nat /\ o + Len(s) = Passed /\ \A j \in 1 .. Len(s) : s[j] = PageByte(o + j - 1)
  BY Counters DEF IInv, Inner, DataInv
<1>3. Bounded'
  BY <1>1, BoundedGet, StreamNames DEF IInv
<1> HIDE DEF s, o
<1>4. \A x \in Nat : F[x] = PageByte(x)
  OBVIOUS
<1> HIDE DEF F
<1>5. \A j \in 1 .. Len(s) : s[j] = F[o + j - 1]
  <2> SUFFICES ASSUME NEW j \in 1 .. Len(s) PROVE s[j] = F[o + j - 1]
    OBVIOUS
  <2>1. o + j - 1 \in Nat
    BY <1>2
  <2> QED BY <1>2, <1>4, <2>1
<1>6. /\ Tail(s) \in Seq(Bytes) /\ Len(Tail(s)) = Len(s) - 1 /\ Len(s) \in Nat \ {0}
      /\ Head(s) = F[o] /\ Head(s) \in Bytes
      /\ \A j \in 1 .. Len(Tail(s)) : Tail(s)[j] = F[(o + 1) + j - 1]
  BY <1>1, <1>2, <1>5, TakeNext
<1>7. \A j \in 1 .. Len(Tail(s)) : Tail(s)[j] = PageByte((o + 1) + j - 1)
  <2> SUFFICES ASSUME NEW j \in 1 .. Len(Tail(s)) PROVE Tail(s)[j] = PageByte((o + 1) + j - 1)
    OBVIOUS
  <2>1. (o + 1) + j - 1 \in Nat
    BY <1>2
  <2> QED BY <1>4, <1>6, <2>1
<1>8. flt'.pgOff = o + 1 /\ (o + 1) + Len(Tail(s)) = Passed /\ o + 1 <= Passed
  <2>1. flt'.pgOff = o + 1
    BY DEF o
  <2> QED BY <1>2, <1>6, <2>1
<1>9. DataInv'
  BY <1>1, <1>6, <1>7, <1>8, Steady DEF DataInv
<1> QED BY <1>2, <1>3, <1>4, <1>6, <1>8, <1>9 DEF s, o

\* q6_filter writes a field to the converter of its column.
LEMMA FieldAdd ==
  ASSUME IInv, UNCHANGED <<block, page, inStream>>, NEW c \in ColumnSet, CanWrite(Field(c)),
         ch' = Put(Field(c), Value(c, Wrote(c))), Value(c, Wrote(c)) \in Bytes,
         Took(c)' = Took(c), Wrote(c)' = Wrote(c) + 1
  PROVE  FieldInv(c)' /\ Bounded'
<1> DEFINE s == ch[Field(c)]
<1> DEFINE F == [x \in Nat |-> Value(c, x)]
<1> DEFINE v == Value(c, Wrote(c))
<1> DEFINE a == Took(c)
<1>1. ch'[Field(c)] = Append(s, v) /\ s \in Seq(Bytes) /\ v \in Bytes
  BY PutStream, StreamNames DEF IInv, Basics, Inner, Behind, FieldInv
<1>2. a \in Nat /\ a + Len(s) = Wrote(c) /\ Wrote(c) \in Nat /\ \A j \in 1 .. Len(s) : s[j] = Value(c, a + j - 1)
  BY Counters DEF IInv, Inner, Behind, FieldInv
<1>3. Bounded'
  BY <1>1, BoundedPut, StreamNames DEF IInv
<1>4. (\A x \in Nat : F[x] = Value(c, x)) /\ v = Value(c, Wrote(c)) /\ Took(c)' = a
  OBVIOUS
<1> HIDE DEF s, a, F, v
<1>5. \A j \in 1 .. Len(s) : s[j] = F[a + j - 1]
  <2> SUFFICES ASSUME NEW j \in 1 .. Len(s) PROVE s[j] = F[a + j - 1]
    OBVIOUS
  <2>1. a + j - 1 \in Nat
    BY <1>2
  <2> QED BY <1>2, <1>4, <2>1
<1>6. /\ Append(s, v) \in Seq(Bytes) /\ Len(Append(s, v)) = Len(s) + 1 /\ Len(s) \in Nat
      /\ \A j \in 1 .. Len(Append(s, v)) : Append(s, v)[j] = F[a + j - 1]
  BY <1>1, <1>2, <1>4, <1>5, AddNext
<1>7. \A j \in 1 .. Len(Append(s, v)) : Append(s, v)[j] = Value(c, a + j - 1)
  <2> SUFFICES ASSUME NEW j \in 1 .. Len(Append(s, v)) PROVE Append(s, v)[j] = Value(c, a + j - 1)
    OBVIOUS
  <2>1. a + j - 1 \in Nat
    BY <1>2
  <2> QED BY <1>4, <1>6, <2>1
<1>8. a + Len(Append(s, v)) = Wrote(c)'
  BY <1>2, <1>6
<1>9. FieldInv(c)'
  BY <1>1, <1>4, <1>6, <1>7, <1>8, Steady DEF FieldInv
<1> QED BY <1>3, <1>9

\* The converter takes a field.
LEMMA FieldTake ==
  ASSUME IInv, UNCHANGED <<block, page, inStream>>, NEW c \in ColumnSet, CanRead(Field(c)), ch' = Get(Field(c)),
         Took(c)' = Took(c) + 1, Wrote(c)' = Wrote(c)
  PROVE  FieldInv(c)' /\ Bounded' /\ Head(ch[Field(c)]) = Value(c, Took(c)) /\ Head(ch[Field(c)]) \in Bytes
<1> DEFINE s == ch[Field(c)]
<1> DEFINE F == [x \in Nat |-> Value(c, x)]
<1> DEFINE a == Took(c)
<1>1. ch'[Field(c)] = Tail(s) /\ s \in Seq(Bytes) /\ s # << >>
  BY GetStream, StreamNames DEF IInv, Basics, Inner, Behind, FieldInv, CanRead
<1>2. a \in Nat /\ a + Len(s) = Wrote(c) /\ \A j \in 1 .. Len(s) : s[j] = Value(c, a + j - 1)
  BY Counters DEF IInv, Inner, Behind, FieldInv
<1>3. Bounded'
  BY <1>1, BoundedGet, StreamNames DEF IInv
<1>4. (\A x \in Nat : F[x] = Value(c, x)) /\ Took(c)' = a + 1
  OBVIOUS
<1> HIDE DEF s, a, F
<1>5. \A j \in 1 .. Len(s) : s[j] = F[a + j - 1]
  <2> SUFFICES ASSUME NEW j \in 1 .. Len(s) PROVE s[j] = F[a + j - 1]
    OBVIOUS
  <2>1. a + j - 1 \in Nat
    BY <1>2
  <2> QED BY <1>2, <1>4, <2>1
<1>6. /\ Tail(s) \in Seq(Bytes) /\ Len(Tail(s)) = Len(s) - 1 /\ Len(s) \in Nat \ {0}
      /\ Head(s) = F[a] /\ Head(s) \in Bytes
      /\ \A j \in 1 .. Len(Tail(s)) : Tail(s)[j] = F[(a + 1) + j - 1]
  BY <1>1, <1>2, <1>5, TakeNext
<1>7. \A j \in 1 .. Len(Tail(s)) : Tail(s)[j] = Value(c, (a + 1) + j - 1)
  <2> SUFFICES ASSUME NEW j \in 1 .. Len(Tail(s)) PROVE Tail(s)[j] = Value(c, (a + 1) + j - 1)
    OBVIOUS
  <2>1. (a + 1) + j - 1 \in Nat
    BY <1>2
  <2> QED BY <1>4, <1>6, <2>1
<1>8. (a + 1) + Len(Tail(s)) = Wrote(c)'
  BY <1>2, <1>6
<1>9. FieldInv(c)'
  BY <1>1, <1>4, <1>6, <1>7, <1>8, Steady DEF FieldInv
<1> QED BY <1>2, <1>3, <1>4, <1>6, <1>9 DEF s, a

\* It writes the converted field to agg.
LEMMA NativeAdd ==
  ASSUME IInv, UNCHANGED <<block, page, inStream>>, NEW i \in 1 .. Len(Columns), NEW c, c = Columns[i],
         CanWrite(Native(c)), ch' = Put(Native(c), Value(c, Converted(c))), Value(c, Converted(c)) \in Bytes,
         Used(i)' = Used(i), Converted(c)' = Converted(c) + 1
  PROVE  NativeInv(i)' /\ Bounded'
<1> DEFINE s == ch[Native(c)]
<1> DEFINE F == [x \in Nat |-> Value(c, x)]
<1> DEFINE v == Value(c, Converted(c))
<1> DEFINE a == Used(i)
<1>0. c \in ColumnSet
  BY ConsumerList
<1>1. ch'[Native(c)] = Append(s, v) /\ s \in Seq(Bytes) /\ v \in Bytes
  BY <1>0, PutStream, StreamNames DEF IInv, Basics, Inner, Behind, NativeInv
<1>2. /\ a \in Nat /\ a + Len(s) = Converted(c) /\ Converted(c) \in Nat
      /\ \A j \in 1 .. Len(s) : s[j] = Value(c, a + j - 1)
  BY <1>0, Counters DEF IInv, Inner, Behind, NativeInv
<1>3. Bounded'
  BY <1>0, <1>1, BoundedPut, StreamNames DEF IInv
<1>4. (\A x \in Nat : F[x] = Value(c, x)) /\ v = Value(c, Converted(c)) /\ Used(i)' = a
  OBVIOUS
<1> HIDE DEF s, a, F, v
<1>5. \A j \in 1 .. Len(s) : s[j] = F[a + j - 1]
  <2> SUFFICES ASSUME NEW j \in 1 .. Len(s) PROVE s[j] = F[a + j - 1]
    OBVIOUS
  <2>1. a + j - 1 \in Nat
    BY <1>2
  <2> QED BY <1>2, <1>4, <2>1
<1>6. /\ Append(s, v) \in Seq(Bytes) /\ Len(Append(s, v)) = Len(s) + 1 /\ Len(s) \in Nat
      /\ \A j \in 1 .. Len(Append(s, v)) : Append(s, v)[j] = F[a + j - 1]
  <2>1. v = F[a + Len(s)]
    BY <1>2, <1>4
  <2>2. s \in Seq(Bytes) /\ v \in Bytes /\ a \in Nat
    BY <1>1, <1>2
  <2> QED BY <1>5, <2>1, <2>2, AddNext
<1>7. \A j \in 1 .. Len(Append(s, v)) : Append(s, v)[j] = Value(c, a + j - 1)
  <2> SUFFICES ASSUME NEW j \in 1 .. Len(Append(s, v)) PROVE Append(s, v)[j] = Value(c, a + j - 1)
    OBVIOUS
  <2>1. a + j - 1 \in Nat
    BY <1>2
  <2> QED BY <1>4, <1>6, <2>1
<1>8. a + Len(Append(s, v)) = Converted(c)'
  BY <1>2, <1>6
<1>9. NativeInv(i)'
  BY <1>1, <1>4, <1>6, <1>7, <1>8, Steady DEF NativeInv
<1> QED BY <1>3, <1>9

\* agg takes a value of column i.
LEMMA NativeTake ==
  ASSUME IInv, UNCHANGED <<block, page, inStream>>, NEW i \in 1 .. Len(Columns), NEW c, c = Columns[i],
         CanRead(Native(c)), ch' = Get(Native(c)), Used(i)' = Used(i) + 1, Converted(c)' = Converted(c)
  PROVE  NativeInv(i)' /\ Bounded' /\ Head(ch[Native(c)]) = Value(c, Used(i)) /\ Head(ch[Native(c)]) \in Bytes
<1> DEFINE s == ch[Native(c)]
<1> DEFINE F == [x \in Nat |-> Value(c, x)]
<1> DEFINE a == Used(i)
<1>0. c \in ColumnSet
  BY ConsumerList
<1>1. ch'[Native(c)] = Tail(s) /\ s \in Seq(Bytes) /\ s # << >>
  BY <1>0, GetStream, StreamNames DEF IInv, Basics, Inner, Behind, NativeInv, CanRead
<1>2. a \in Nat /\ a + Len(s) = Converted(c) /\ \A j \in 1 .. Len(s) : s[j] = Value(c, a + j - 1)
  BY Counters DEF IInv, Inner, Behind, NativeInv
<1>3. Bounded'
  BY <1>0, <1>1, BoundedGet, StreamNames DEF IInv
<1>4. (\A x \in Nat : F[x] = Value(c, x)) /\ Used(i)' = a + 1
  OBVIOUS
<1> HIDE DEF s, a, F
<1>5. \A j \in 1 .. Len(s) : s[j] = F[a + j - 1]
  <2> SUFFICES ASSUME NEW j \in 1 .. Len(s) PROVE s[j] = F[a + j - 1]
    OBVIOUS
  <2>1. a + j - 1 \in Nat
    BY <1>2
  <2> QED BY <1>2, <1>4, <2>1
<1>6. /\ Tail(s) \in Seq(Bytes) /\ Len(Tail(s)) = Len(s) - 1 /\ Len(s) \in Nat \ {0}
      /\ Head(s) = F[a] /\ Head(s) \in Bytes
      /\ \A j \in 1 .. Len(Tail(s)) : Tail(s)[j] = F[(a + 1) + j - 1]
  BY <1>1, <1>2, <1>5, TakeNext
<1>7. \A j \in 1 .. Len(Tail(s)) : Tail(s)[j] = Value(c, (a + 1) + j - 1)
  <2> SUFFICES ASSUME NEW j \in 1 .. Len(Tail(s)) PROVE Tail(s)[j] = Value(c, (a + 1) + j - 1)
    OBVIOUS
  <2>1. (a + 1) + j - 1 \in Nat
    BY <1>2
  <2> QED BY <1>4, <1>6, <2>1
<1>8. (a + 1) + Len(Tail(s)) = Converted(c)'
  BY <1>2, <1>6
<1>9. NativeInv(i)'
  BY <1>1, <1>4, <1>6, <1>7, <1>8, Steady DEF NativeInv
<1> QED BY <1>2, <1>3, <1>4, <1>6, <1>9 DEF s, a

\* Consumer i takes the count.
LEMMA CountTake ==
  ASSUME IInv, UNCHANGED <<block, page, inStream>>, NEW i \in 1 .. Len(Consumers), NEW s, s = Count(Consumers[i]),
         CanRead(s), ch' = Get(s), Sent(i)' = Sent(i), Got(Consumers[i])'
  PROVE  /\ CountInv(i)' /\ Bounded' /\ Head(ch[s]) = Tuples /\ ~Got(Consumers[i]) /\ DOMAIN ch' = Streams
         /\ \A r \in Streams : r # s => ch'[r] = ch[r]
<1>1. CountInv(i) /\ s \in Streams
  BY StreamNames DEF IInv, Inner
<1>2. Sent(i) /\ ~Got(Consumers[i]) /\ ch[s] = <<Tuples>>
  BY <1>1 DEF CountInv, CanRead
<1>3. DOMAIN ch' = Streams /\ ch'[s] = Tail(ch[s]) /\ \A r \in Streams : r # s => ch'[r] = ch[r]
  BY <1>1, GetStream DEF IInv, Basics
<1>4. Head(ch[s]) = Tuples /\ ch'[s] = << >>
  BY <1>2, <1>3
<1>5. Bounded'
  <2>1. ch[s] \in Seq(Nat)
    BY <1>2, PageFacts DEF IInv
  <2> QED BY <1>1, <2>1, BoundedGet DEF IInv
<1>6. CountInv(i)'
  BY <1>2, <1>4 DEF CountInv
<1> QED BY <1>2, <1>3, <1>4, <1>5, <1>6

---------------------------------------------------------------------------
(* Steps of q6_filter *)

LEMMA FilterFrame ==
  ASSUME IInv, Filter, DOMAIN hold' = Processes, \A p \in Processes : p # "filter" => hold'[p] = hold[p]
  PROVE  /\ UNCHANGED <<block, page, inStream, feedVars, hdr, conv, aggr, sums>>
         /\ Passed' = Passed /\ ToTake' = ToTake /\ HdrInv' /\ \A i : Sent(i)' = Sent(i)
         /\ \A c \in ColumnSet : Took(c)' = Took(c) /\ Converted(c)' = Converted(c) /\ ConvInv(c)'
         /\ \A i : Used(i)' = Used(i)
         /\ AggInv' /\ SumsInv'
         /\ \A x : x # "filter" => Got(x)' = Got(x)
<1>1. UNCHANGED <<block, page, inStream, feedVars, hdr, conv, aggr, sums>>
  BY DEF Filter, feedVars
<1>2. hold'["header"] = hold["header"] /\ \A c \in ColumnSet : hold'[c] = hold[c]
  BY ColumnField DEF Processes
<1>3. Passed' = Passed /\ ToTake' = ToTake /\ HdrInv' /\ \A i : Sent(i)' = Sent(i)
  BY <1>1, <1>2, KeepHdr DEF IInv
<1>4. \A c \in ColumnSet : Took(c)' = Took(c) /\ Converted(c)' = Converted(c) /\ ConvInv(c)'
  BY <1>1, <1>2, KeepConv DEF IInv, Inner, Behind
<1>5. AggInv' /\ SumsInv' /\ \A i : Used(i)' = Used(i)
  BY <1>1, KeepAgg DEF IInv, Inner, Behind
<1>6. \A x : x # "filter" => Got(x)' = Got(x)
  BY <1>1 DEF Got
<1> QED BY <1>1, <1>3, <1>4, <1>5, <1>6

\* What every step of q6_filter has in common.
LEMMA FilterStep ==
  ASSUME IInv, Filter, DOMAIN hold' = Processes, \A p \in Processes : p # "filter" => hold'[p] = hold[p],
         DOMAIN ch' = Streams, ch'[Byte] = ch[Byte],
         \A c \in ColumnSet : ch'[Native(c)] = ch[Native(c)],
         \A i \in 1 .. Len(Consumers) : i # 1 => ch'[Count(Consumers[i])] = ch[Count(Consumers[i])],
         Bounded', DataInv', FltInv', EopInv', CountInv(1)', \A c \in ColumnSet : FieldInv(c)'
  PROVE  IInv'
<1>1. /\ UNCHANGED <<block, page, inStream, feedVars, hdr, conv, aggr, sums>>
      /\ Passed' = Passed /\ ToTake' = ToTake /\ HdrInv' /\ \A i : Sent(i)' = Sent(i)
      /\ \A c \in ColumnSet : Took(c)' = Took(c) /\ Converted(c)' = Converted(c) /\ ConvInv(c)'
      /\ \A i : Used(i)' = Used(i)
      /\ AggInv' /\ SumsInv'
      /\ \A x : x # "filter" => Got(x)' = Got(x)
  BY FilterFrame
<1>2. ToWrite' = ToWrite /\ ByteInv'
  BY <1>1, KeepBytes DEF IInv
<1>3. ReaderInv' /\ WordInv'
  BY <1>1, <1>2, KeepReader DEF IInv
<1>4. \A i \in 1 .. Len(Columns) : NativeInv(i)'
  BY <1>1, KeepNative, ConsumerList DEF IInv, Inner, Behind
<1>5. ASSUME NEW i \in 1 .. Len(Consumers), i # 1 PROVE CountInv(i)'
  <2>1. Consumers[i] # "filter"
    <3>1. 1 \in 1 .. Len(Consumers)
      BY ConsumerList, Sizes
    <3> QED BY <1>5, <3>1, ConsumerList, ConsumerOnce
  <2> QED BY <1>1, <1>5, <2>1, KeepCount DEF IInv, Inner
<1>6. Basics'
  BY <1>1 DEF IInv, Basics, block
<1>7. Behind'
  BY <1>1, <1>4 DEF Behind
<1>8. Inner'
  BY <1>5, <1>7 DEF Inner
<1> QED BY <1>1, <1>2, <1>3, <1>6, <1>8 DEF IInv

\* The count is taken.
LEMMA FilterCountStep == IInv /\ FilterCount => IInv'
<1> SUFFICES ASSUME IInv, FilterCount PROVE IInv'
  OBVIOUS
<1> DEFINE s == Count("filter")
<1> DEFINE n == Head(ch[s])
<1>1. /\ flt.pc = "count" /\ CanRead(s) /\ ch' = Get(s) /\ hold' = hold
      /\ flt' = [flt EXCEPT !.pc = Parsing(n), !.t = n] /\ Filter
  BY DEF FilterCount
<1>2. /\ flt \in [pc : {"count", "tuples", "skip", "done"}, t : 0 .. Tuples, f : 1 .. NFIELDS, pgOff : Nat]
      /\ flt.pgOff = HDR /\ flt.t = 0 /\ flt.f = 1 /\ hold["filter"] = NoToken
  BY <1>1 DEF IInv, Inner, Behind, FltInv
<1>3. DOMAIN hold' = Processes /\ \A p \in Processes : p # "filter" => hold'[p] = hold[p]
  BY <1>1 DEF IInv, Basics
<1>4. /\ UNCHANGED <<block, page, inStream, feedVars, hdr, conv, aggr, sums>> /\ Passed' = Passed
      /\ (\A i : Sent(i)' = Sent(i)) /\ \A c \in ColumnSet : Took(c)' = Took(c)
  BY <1>1, <1>3, FilterFrame
<1>5. 1 \in 1 .. Len(Consumers) /\ Consumers[1] = "filter"
  BY ConsumerList, Sizes
<1>6. flt'.pc = Parsing(n) /\ flt'.t = n /\ flt'.f = 1 /\ flt'.pgOff = HDR /\ Parsing(n) \in {"tuples", "skip"}
  BY <1>1, <1>2 DEF Parsing
<1>7. Got("filter")'
  BY <1>6 DEF Got
<1>8. /\ CountInv(1)' /\ Bounded' /\ n = Tuples /\ DOMAIN ch' = Streams /\ \A r \in Streams : r # s => ch'[r] = ch[r]
  BY <1>1, <1>4, <1>5, <1>7, CountTake
<1> HIDE DEF n
<1>9. /\ ch'[Byte] = ch[Byte] /\ ch'[Data] = ch[Data] /\ ch'[Eop] = ch[Eop]
      /\ \A c \in ColumnSet : ch'[Field(c)] = ch[Field(c)] /\ ch'[Native(c)] = ch[Native(c)]
      /\ \A i \in 1 .. Len(Consumers) : i # 1 => ch'[Count(Consumers[i])] = ch[Count(Consumers[i])]
  BY <1>5, <1>8, ConsumerOnce, StreamNames, StreamsDiffer
<1>10. Tuples \in Nat /\ NFIELDS \in Nat \ {0} /\ HDR \in {0, 2}
  BY PageFacts, Sizes DEF IInv
<1>11. DataInv'
  BY <1>2, <1>4, <1>6, <1>9, KeepData DEF IInv, Inner
<1>12. \A c \in ColumnSet : FieldInv(c)'
  <2> SUFFICES ASSUME NEW c \in ColumnSet PROVE FieldInv(c)'
    OBVIOUS
  <2>1. Wrote(c) = 0
    BY <1>1 DEF Wrote
  <2>2. ~(FieldOf(c) < 1)
    BY <1>10, ColumnField
  <2>3. Wrote(c)' = Tuples - Tuples + 0
    BY <1>4, <1>6, <1>8, <2>2, Steady DEF Wrote
  <2>4. Wrote(c)' = Wrote(c)
    BY <1>10, <2>1, <2>3
  <2> QED BY <1>4, <1>9, <2>4, KeepField DEF IInv, Inner, Behind
<1>13. EopInv'
  BY <1>1, <1>4, <1>6, <1>9 DEF IInv, Inner, Behind, EopInv
<1>14. FltInv'
  <2>1. Tuples' = Tuples /\ HDR' = HDR /\ hold'["filter"] = NoToken /\ Held("filter")' = 0
    BY <1>1, <1>2, <1>4, Steady DEF Held
  <2>2. flt' \in [pc : {"count", "tuples", "skip", "done"}, t : 0 .. Tuples, f : 1 .. NFIELDS, pgOff : Nat]
    <3>1. Parsing(n) \in {"count", "tuples", "skip", "done"} /\ n \in 0 .. Tuples
      BY <1>6, <1>8, <1>10
    <3> QED BY <1>1, <1>2, <3>1
  <2>3. Tuples > 0 => HDR = HDR + (Tuples - Tuples) * NFIELDS + (1 - 1) + 0
    <3>1. (Tuples - Tuples) * NFIELDS = 0
      <4>1. Tuples - Tuples = 0 /\ 0 * NFIELDS = 0
        BY <1>10
      <4> QED BY <4>1
    <3> QED BY <1>10, <3>1
  <2>4. (flt'.pc = "tuples" => Tuples > 0) /\ (flt'.pc # "tuples" => Tuples = 0)
    BY <1>6, <1>8, <1>10 DEF Parsing
  <2> QED BY <1>6, <1>8, <2>1, <2>2, <2>3, <2>4 DEF FltInv
<1> QED BY <1>1, <1>3, <1>8, <1>9, <1>11, <1>12, <1>13, <1>14, FilterStep

LEMMA FltRecord ==
  ASSUME NEW T, NEW t \in 0 .. T, NEW f \in 1 .. NFIELDS, NEW o \in Nat, NEW q \in {"count", "tuples", "skip", "done"}
  PROVE  [pc |-> q, t |-> t, f |-> f, pgOff |-> o] \in
           [pc : {"count", "tuples", "skip", "done"}, t : 0 .. T, f : 1 .. NFIELDS, pgOff : Nat]
OBVIOUS

LEMMA LastField ==
  ASSUME NEW a \in 1 .. NFIELDS
  PROVE  a = NFIELDS \/ a < NFIELDS
BY Sizes

\* The parser goes on to the next field, perhaps of the next tuple.
LEMMA FieldNext ==
  ASSUME IInv, UNCHANGED <<block, page>>, flt.pc = "tuples", NEW o \in Nat,
         flt' = [FieldDone EXCEPT !.pgOff = o], o = HDR + (Tuples - flt.t) * NFIELDS + flt.f,
         hold'["filter"] = NoToken
  PROVE  /\ FltInv' /\ flt'.pgOff = o /\ flt'.pc \in {"tuples", "skip"}
         /\ \A c \in ColumnSet : Wrote(c)' = Wrote(c) + (IF FieldOf(c) = flt.f THEN 1 ELSE 0)
<1> DEFINE t == flt.t
<1> DEFINE f == flt.f
<1> DEFINE x == (Tuples - t) * NFIELDS
<1>1. /\ flt \in [pc : {"count", "tuples", "skip", "done"}, t : 0 .. Tuples, f : 1 .. NFIELDS, pgOff : Nat]
      /\ t > 0
  BY DEF IInv, Inner, Behind, FltInv
<1>2. Tuples \in Nat /\ NFIELDS \in Nat \ {0} /\ HDR \in {0, 2}
  BY PageFacts, Sizes DEF IInv
<1>3. x \in Int /\ (Tuples - (t - 1)) * NFIELDS = x + NFIELDS
  BY <1>1, <1>2, Z3
<1>4. Tuples' = Tuples /\ HDR' = HDR /\ Held("filter")' = 0
  BY Steady DEF Held
<1>5. \A c \in ColumnSet : FieldOf(c) \in 1 .. NFIELDS /\ Wrote(c) = Tuples - t + (IF FieldOf(c) < f THEN 1 ELSE 0)
  BY ColumnField DEF Wrote
<1>6. CASE f < NFIELDS
  <2>1. /\ flt' = [pc |-> "tuples", t |-> t, f |-> f + 1, pgOff |-> o]
    BY <1>1, <1>6 DEF FieldDone
  <2>2. o = HDR + x + ((f + 1) - 1) + 0
    <3> HIDE DEF x
    <3>1. o = HDR + x + f
      BY DEF x
    <3> QED BY <1>1, <1>2, <1>3, <3>1
  <2>3. flt' \in [pc : {"count", "tuples", "skip", "done"}, t : 0 .. Tuples, f : 1 .. NFIELDS, pgOff : Nat]
    <3>1. f + 1 \in 1 .. NFIELDS /\ t \in 0 .. Tuples
      BY <1>1, <1>2, <1>6
    <3>2. "tuples" \in {"count", "tuples", "skip", "done"}
      OBVIOUS
    <3>3. [pc |-> "tuples", t |-> t, f |-> f + 1, pgOff |-> o] \in
            [pc : {"count", "tuples", "skip", "done"}, t : 0 .. Tuples, f : 1 .. NFIELDS, pgOff : Nat]
      BY <3>1, <3>2, FltRecord
    <3> QED BY <2>1, <3>3, Zenon
  <2>4. FltInv'
    BY <1>1, <1>4, <2>1, <2>2, <2>3 DEF FltInv
  <2>5. \A c \in ColumnSet : Wrote(c)' = Tuples - t + (IF FieldOf(c) < f + 1 THEN 1 ELSE 0)
    BY <1>4, <2>1 DEF Wrote
  <2>6. \A c \in ColumnSet : Wrote(c)' = Wrote(c) + (IF FieldOf(c) = f THEN 1 ELSE 0)
    BY <1>1, <1>2, <1>5, <2>5
  <2> QED BY <2>1, <2>4, <2>6
<1>7. CASE ~(f < NFIELDS)
  <2>1. flt' = [pc |-> Parsing(t - 1), t |-> t - 1, f |-> 1, pgOff |-> o]
    BY <1>1, <1>7 DEF FieldDone
  <2>2. f = NFIELDS /\ Parsing(t - 1) \in {"tuples", "skip"} /\ t - 1 \in 0 .. Tuples
        /\ (Parsing(t - 1) = "tuples" <=> t - 1 > 0)
    BY <1>1, <1>2, <1>7 DEF Parsing
  <2>3. o = HDR + (Tuples - (t - 1)) * NFIELDS + (1 - 1) + 0
    <3> DEFINE y == (Tuples - (t - 1)) * NFIELDS
    <3>1. o = HDR + x + f /\ y = x + NFIELDS
      BY <1>3
    <3> HIDE DEF x, y
    <3>2. o = HDR + y + (1 - 1) + 0
      BY <1>1, <1>2, <1>3, <2>2, <3>1
    <3> QED BY <3>2 DEF y
  <2>4. flt' \in [pc : {"count", "tuples", "skip", "done"}, t : 0 .. Tuples, f : 1 .. NFIELDS, pgOff : Nat]
    <3>1. 1 \in 1 .. NFIELDS
      BY <1>2
    <3>2. Parsing(t - 1) \in {"count", "tuples", "skip", "done"} /\ t - 1 \in 0 .. Tuples
      BY <2>2
    <3>3. [pc |-> Parsing(t - 1), t |-> t - 1, f |-> 1, pgOff |-> o] \in
            [pc : {"count", "tuples", "skip", "done"}, t : 0 .. Tuples, f : 1 .. NFIELDS, pgOff : Nat]
      BY <3>1, <3>2, FltRecord
    <3> QED BY <2>1, <3>3, Zenon
  <2>5. FltInv'
    <3> HIDE DEF x
    <3>1. flt'.pc = Parsing(t - 1) /\ flt'.t = t - 1 /\ flt'.f = 1 /\ flt'.pgOff = o
      BY <2>1
    <3>2. flt'.pc # "tuples" => t - 1 = 0
      BY <1>1, <1>2, <2>2, <3>1
    <3> QED BY <1>4, <2>2, <2>3, <2>4, <3>1, <3>2 DEF FltInv
  <2>6. \A c \in ColumnSet : Wrote(c)' = Tuples - (t - 1) + 0
    <3> SUFFICES ASSUME NEW c \in ColumnSet PROVE Wrote(c)' = Tuples - (t - 1) + 0
      OBVIOUS
    <3>1. ~(FieldOf(c) < 1)
      BY <1>2, <1>5
    <3> QED BY <1>4, <2>1, <2>2, <3>1 DEF Wrote
  <2>7. ASSUME NEW c \in ColumnSet PROVE Wrote(c)' = Wrote(c) + (IF FieldOf(c) = f THEN 1 ELSE 0)
    <3>1. FieldOf(c) \in 1 .. NFIELDS /\ t \in Int
      BY <1>1, <1>5
    <3>2. CASE FieldOf(c) = f
      <4>1. Wrote(c) = Tuples - t + 0 /\ Wrote(c)' = Tuples - (t - 1) + 0
        BY <1>2, <1>5, <2>2, <2>6, <3>2
      <4> QED BY <1>2, <3>1, <3>2, <4>1
    <3>3. CASE FieldOf(c) < f
      <4>1. Wrote(c) = Tuples - t + 1 /\ Wrote(c)' = Tuples - (t - 1) + 0
        BY <1>5, <2>6, <3>3
      <4> QED BY <1>2, <2>2, <3>1, <3>3, <4>1
    <3>4. FieldOf(c) = f \/ FieldOf(c) < f
      BY <2>2, <3>1, LastField, Zenon
    <3> QED BY <3>2, <3>3, <3>4
  <2> QED BY <2>1, <2>2, <2>5, <2>7
<1> QED BY <1>6, <1>7

\* The streams q6_filter does not write to when it takes a byte.
LEMMA DataOnly ==
  ASSUME IInv, ch' = Get(Data)
  PROVE  /\ DOMAIN ch' = Streams /\ ch'[Byte] = ch[Byte] /\ ch'[Eop] = ch[Eop]
         /\ \A c \in ColumnSet : ch'[Field(c)] = ch[Field(c)] /\ ch'[Native(c)] = ch[Native(c)]
         /\ \A i \in 1 .. Len(Consumers) : ch'[Count(Consumers[i])] = ch[Count(Consumers[i])]
<1>1. DOMAIN ch' = Streams /\ \A r \in Streams : r # Data => ch'[r] = ch[r]
  BY GetStream, StreamNames DEF IInv, Basics
<1> QED BY <1>1, StreamNames, StreamsDiffer

\* The count has been taken when the parser is at work, and stays so.
LEMMA FilterCounted ==
  ASSUME IInv, UNCHANGED <<block, page>>, flt.pc # "count", flt'.pc # "count", Sent(1)' = Sent(1),
         ch'[Count("filter")] = ch[Count("filter")]
  PROVE  CountInv(1)'
<1>1. 1 \in 1 .. Len(Consumers) /\ Consumers[1] = "filter"
  BY ConsumerList, Sizes
<1>2. Got("filter") /\ Got("filter")'
  BY DEF Got
<1>3. CountInv(1)
  BY <1>1 DEF IInv, Inner
<1> QED BY <1>1, <1>2, <1>3 DEF CountInv

LEMMA FieldSkipStep == IInv /\ FieldSkip => IInv'
<1> SUFFICES ASSUME IInv, FieldSkip PROVE IInv'
  OBVIOUS
<1>1. /\ flt.pc = "tuples" /\ Layout[flt.f] = "skip" /\ CanRead(Data) /\ ch' = Get(Data) /\ hold' = hold
      /\ flt' = [FieldDone EXCEPT !.pgOff = @ + 1] /\ Filter
  BY DEF FieldSkip, Column
<1>2. DOMAIN hold' = Processes /\ \A p \in Processes : p # "filter" => hold'[p] = hold[p]
  BY <1>1 DEF IInv, Basics
<1>3. /\ UNCHANGED <<block, page, inStream, feedVars, hdr, conv, aggr, sums>> /\ Passed' = Passed
      /\ (\A i : Sent(i)' = Sent(i)) /\ \A c \in ColumnSet : Took(c)' = Took(c)
  BY <1>1, <1>2, FilterFrame
<1>4. /\ flt \in [pc : {"count", "tuples", "skip", "done"}, t : 0 .. Tuples, f : 1 .. NFIELDS, pgOff : Nat]
      /\ hold["filter"] = NoToken /\ flt.pgOff = HDR + (Tuples - flt.t) * NFIELDS + (flt.f - 1) + 0
  BY <1>1 DEF IInv, Inner, Behind, FltInv, Held
<1>5. PICK o \in Nat : o = flt.pgOff + 1
  BY <1>4
<1>6. flt' = [FieldDone EXCEPT !.pgOff = o]
  <2>1. FieldDone.pgOff = flt.pgOff
    BY <1>4 DEF FieldDone
  <2> QED BY <1>1, <1>5, <2>1
<1>7. o = HDR + (Tuples - flt.t) * NFIELDS + flt.f
  <2> DEFINE x == (Tuples - flt.t) * NFIELDS
  <2>1. x \in Int /\ HDR \in {0, 2} /\ flt.f \in Int
    <3>1. Tuples \in Int /\ flt.t \in Int /\ NFIELDS \in Int
      BY <1>4, PageFacts, Sizes DEF IInv
    <3> QED BY <1>4, <3>1, PageFacts, Z3 DEF IInv
  <2>2. flt.pgOff = HDR + x + (flt.f - 1) + 0
    BY <1>4
  <2> HIDE DEF x
  <2>3. o = HDR + x + flt.f
    BY <1>5, <2>1, <2>2
  <2> QED BY <2>3 DEF x
<1>8. /\ FltInv' /\ flt'.pgOff = o /\ flt'.pc \in {"tuples", "skip"}
      /\ \A c \in ColumnSet : Wrote(c)' = Wrote(c) + (IF FieldOf(c) = flt.f THEN 1 ELSE 0)
  BY <1>1, <1>3, <1>4, <1>6, <1>7, FieldNext
<1>9. DataInv' /\ Bounded'
  BY <1>1, <1>3, <1>5, <1>8, DataTake
<1>10. /\ DOMAIN ch' = Streams /\ ch'[Byte] = ch[Byte] /\ ch'[Eop] = ch[Eop]
       /\ \A c \in ColumnSet : ch'[Field(c)] = ch[Field(c)] /\ ch'[Native(c)] = ch[Native(c)]
       /\ \A i \in 1 .. Len(Consumers) : ch'[Count(Consumers[i])] = ch[Count(Consumers[i])]
  BY <1>1, DataOnly
<1>11. \A c \in ColumnSet : FieldInv(c)'
  <2> SUFFICES ASSUME NEW c \in ColumnSet PROVE FieldInv(c)'
    OBVIOUS
  <2>1. FieldOf(c) # flt.f
    BY <1>1, ColumnField
  <2>2. Wrote(c)' = Wrote(c) + 0 /\ Wrote(c) \in Nat
    BY <1>8, <2>1, Counters
  <2>3. Wrote(c)' = Wrote(c)
    BY <2>2
  <2> QED BY <1>3, <1>10, <2>3, KeepField DEF IInv, Inner, Behind
<1>12. EopInv'
  BY <1>1, <1>3, <1>8, <1>10 DEF IInv, Inner, Behind, EopInv
<1>13. CountInv(1)'
  <2>1. ch'[Count("filter")] = ch[Count("filter")]
    BY <1>10, ConsumerList, Sizes
  <2> QED BY <1>1, <1>3, <1>8, <2>1, FilterCounted
<1> QED BY <1>1, <1>2, <1>8, <1>9, <1>10, <1>11, <1>12, <1>13, FilterStep

LEMMA FieldReadStep == IInv /\ FieldRead => IInv'
<1> SUFFICES ASSUME IInv, FieldRead PROVE IInv'
  OBVIOUS
<1> DEFINE v == Head(ch[Data])
<1>1. /\ flt.pc = "tuples" /\ Layout[flt.f] # "skip" /\ hold["filter"] = NoToken /\ CanRead(Data) /\ ch' = Get(Data)
      /\ hold' = [hold EXCEPT !["filter"] = v] /\ flt' = [flt EXCEPT !.pgOff = @ + 1] /\ Filter
  BY DEF FieldRead, Column
<1>2. /\ DOMAIN hold' = Processes /\ hold'["filter"] = v /\ \A p \in Processes : p # "filter" => hold'[p] = hold[p]
  BY <1>1 DEF IInv, Basics, Processes
<1>3. /\ UNCHANGED <<block, page, inStream, feedVars, hdr, conv, aggr, sums>> /\ Passed' = Passed
      /\ (\A i : Sent(i)' = Sent(i)) /\ \A c \in ColumnSet : Took(c)' = Took(c)
  BY <1>1, <1>2, FilterFrame
<1>4. /\ flt \in [pc : {"count", "tuples", "skip", "done"}, t : 0 .. Tuples, f : 1 .. NFIELDS, pgOff : Nat]
      /\ flt.pgOff = HDR + (Tuples - flt.t) * NFIELDS + (flt.f - 1) + 0 /\ flt.t > 0
  BY <1>1 DEF IInv, Inner, Behind, FltInv, Held
<1>5. flt' = [pc |-> "tuples", t |-> flt.t, f |-> flt.f, pgOff |-> flt.pgOff + 1]
  BY <1>1, <1>4
<1>6. DataInv' /\ Bounded' /\ v = PageByte(flt.pgOff) /\ v \in Bytes
  BY <1>1, <1>3, <1>5, DataTake
<1>7. /\ DOMAIN ch' = Streams /\ ch'[Byte] = ch[Byte] /\ ch'[Eop] = ch[Eop]
      /\ \A c \in ColumnSet : ch'[Field(c)] = ch[Field(c)] /\ ch'[Native(c)] = ch[Native(c)]
      /\ \A i \in 1 .. Len(Consumers) : ch'[Count(Consumers[i])] = ch[Count(Consumers[i])]
  BY <1>1, DataOnly
<1>8. \A c \in ColumnSet : FieldInv(c)'
  <2>1. \A c \in ColumnSet : Wrote(c)' = Wrote(c)
    BY <1>1, <1>3, <1>5, Steady DEF Wrote
  <2> QED BY <1>3, <1>7, <2>1, KeepField DEF IInv, Inner, Behind
<1>9. EopInv'
  BY <1>1, <1>3, <1>5, <1>7 DEF IInv, Inner, Behind, EopInv
<1>10. CountInv(1)'
  <2>1. ch'[Count("filter")] = ch[Count("filter")]
    BY <1>7, ConsumerList, Sizes
  <2> QED BY <1>1, <1>3, <1>5, <2>1, FilterCounted
<1>11. FltInv'
  <2> HIDE DEF v
  <2>1. v # NoToken
    BY <1>6 DEF Bytes, NoToken
  <2>2. Tuples' = Tuples /\ HDR' = HDR /\ Held("filter")' = 1 /\ v = PageByte(flt.pgOff - 1)'
    <3>1. Tuples' = Tuples /\ HDR' = HDR /\ Mine' = Mine
      BY <1>3, Steady
    <3>2. Held("filter")' = 1
      BY <1>2, <2>1 DEF Held
    <3>3. flt'.pgOff - 1 = flt.pgOff
      BY <1>4, <1>5
    <3> QED BY <1>6, <3>1, <3>2, <3>3 DEF PageByte
  <2>3. flt'.pgOff = HDR + (Tuples - flt'.t) * NFIELDS + (flt'.f - 1) + 1
    <3> DEFINE x == (Tuples - flt.t) * NFIELDS
    <3>1. Tuples \in Int /\ flt.t \in Int /\ NFIELDS \in Int /\ HDR \in {0, 2} /\ flt.f \in Int
      BY <1>4, PageFacts, Sizes DEF IInv
    <3>2. x \in Int
      BY <3>1, Z3
    <3>3. flt.pgOff = HDR + x + (flt.f - 1) + 0
      BY <1>4
    <3>4. (Tuples - flt'.t) * NFIELDS = x /\ flt'.pgOff = flt.pgOff + 1 /\ flt'.f = flt.f
      BY <1>5
    <3> HIDE DEF x
    <3> QED BY <3>1, <3>2, <3>3, <3>4
  <2>4. flt' \in [pc : {"count", "tuples", "skip", "done"}, t : 0 .. Tuples, f : 1 .. NFIELDS, pgOff : Nat]
    <3>1. flt.pgOff + 1 \in Nat /\ flt.t \in 0 .. Tuples /\ flt.f \in 1 .. NFIELDS
      BY <1>4
    <3> QED BY <1>5, <3>1, FltRecord
  <2>5. flt'.pc = "tuples" /\ flt'.t > 0 /\ Layout[flt'.f] # "skip"
    BY <1>1, <1>4, <1>5
  <2> QED BY <1>2, <2>2, <2>3, <2>4, <2>5 DEF FltInv
<1> QED BY <1>1, <1>2, <1>6, <1>7, <1>8, <1>9, <1>10, <1>11, FilterStep

\* A field is written to the converter of its column, with the number of its tuple.
LEMMA FieldWriteStep == IInv /\ FieldWrite => IInv'
<1> SUFFICES ASSUME IInv, FieldWrite PROVE IInv'
  OBVIOUS
<1>1. /\ flt.pc = "tuples" /\ hold["filter"] # NoToken /\ CanWrite(Field(Layout[flt.f]))
      /\ ch' = Put(Field(Layout[flt.f]), hold["filter"])
      /\ hold' = [hold EXCEPT !["filter"] = NoToken] /\ flt' = FieldDone /\ Filter
  BY DEF FieldWrite, Column
<1>2. /\ DOMAIN hold' = Processes /\ hold'["filter"] = NoToken /\ \A p \in Processes : p # "filter" => hold'[p] = hold[p]
  BY <1>1 DEF IInv, Basics, Processes
<1>3. /\ UNCHANGED <<block, page, inStream, feedVars, hdr, conv, aggr, sums>> /\ Passed' = Passed
      /\ (\A i : Sent(i)' = Sent(i)) /\ \A c \in ColumnSet : Took(c)' = Took(c)
  BY <1>1, <1>2, FilterFrame
<1>4. /\ flt \in [pc : {"count", "tuples", "skip", "done"}, t : 0 .. Tuples, f : 1 .. NFIELDS, pgOff : Nat]
      /\ flt.pgOff = HDR + (Tuples - flt.t) * NFIELDS + (flt.f - 1) + 1
      /\ Layout[flt.f] # "skip" /\ hold["filter"] = PageByte(flt.pgOff - 1)
  BY <1>1 DEF IInv, Inner, Behind, FltInv, Held
<1>5. PICK c \in ColumnSet : c = Layout[flt.f]
  BY <1>4, FieldColumn
<1>6. FieldOf(c) = flt.f /\ \A d \in ColumnSet : FieldOf(d) = flt.f <=> d = c
  BY <1>4, <1>5, FieldColumn
<1>7. PICK o \in Nat : o = flt.pgOff
  BY <1>4
<1>8. flt' = [FieldDone EXCEPT !.pgOff = o]
  BY <1>1, <1>4, <1>7 DEF FieldDone
<1>9. Tuples \in Nat /\ flt.t \in Int /\ NFIELDS \in Nat /\ HDR \in {0, 2} /\ flt.f \in Int /\ Mine \in Int
  BY <1>4, PageFacts, Sizes DEF IInv
<1>10. o = HDR + (Tuples - flt.t) * NFIELDS + flt.f
  <2> DEFINE x == (Tuples - flt.t) * NFIELDS
  <2>1. x \in Int
    BY <1>9, Z3
  <2>2. flt.pgOff = HDR + x + (flt.f - 1) + 1
    BY <1>4
  <2> HIDE DEF x
  <2>3. o = HDR + x + flt.f
    BY <1>7, <1>9, <2>1, <2>2
  <2> QED BY <2>3 DEF x
<1>11. /\ FltInv' /\ flt'.pgOff = o /\ flt'.pc \in {"tuples", "skip"}
       /\ \A d \in ColumnSet : Wrote(d)' = Wrote(d) + (IF FieldOf(d) = flt.f THEN 1 ELSE 0)
  BY <1>1, <1>2, <1>3, <1>8, <1>10, FieldNext
<1>12. hold["filter"] = Value(c, Wrote(c)) /\ Value(c, Wrote(c)) \in Bytes
  <2>1. Wrote(c) = Tuples - flt.t
    <3>1. Wrote(c) = Tuples - flt.t + 0
      BY <1>1, <1>6, <1>9 DEF Wrote
    <3> QED BY <1>9, <3>1
  <2>2. Value(c, Wrote(c)) = <<Mine, o>>
    BY <1>6, <1>10, <2>1 DEF Value
  <2>3. hold["filter"] = <<Mine, (o - 1) + 1>>
    BY <1>4, <1>7 DEF PageByte
  <2>4. (o - 1) + 1 = o
    OBVIOUS
  <2> QED BY <1>9, <2>2, <2>3, <2>4 DEF Bytes
<1>13. Wrote(c)' = Wrote(c) + 1 /\ \A d \in ColumnSet : d # c => Wrote(d)' = Wrote(d)
  <2>1. Wrote(c)' = Wrote(c) + 1
    BY <1>6, <1>11
  <2>2. \A d \in ColumnSet : d # c => Wrote(d)' = Wrote(d) + 0 /\ Wrote(d) \in Nat
    BY <1>6, <1>11, Counters
  <2> QED BY <2>1, <2>2
<1>14. FieldInv(c)' /\ Bounded'
  <2>1. ch' = Put(Field(c), Value(c, Wrote(c))) /\ CanWrite(Field(c))
    BY <1>1, <1>5, <1>12
  <2> QED BY <1>3, <1>12, <1>13, <2>1, FieldAdd
<1>15. DOMAIN ch' = Streams /\ \A r \in Streams : r # Field(c) => ch'[r] = ch[r]
  <2>1. ch' = Put(Field(c), hold["filter"]) /\ Field(c) \in Streams
    BY <1>1, <1>5, StreamNames
  <2> QED BY <2>1, PutStream DEF IInv, Basics
<1>16. /\ ch'[Byte] = ch[Byte] /\ ch'[Data] = ch[Data] /\ ch'[Eop] = ch[Eop]
       /\ \A d \in ColumnSet : (d # c => ch'[Field(d)] = ch[Field(d)]) /\ ch'[Native(d)] = ch[Native(d)]
       /\ \A i \in 1 .. Len(Consumers) : ch'[Count(Consumers[i])] = ch[Count(Consumers[i])]
  BY <1>15, StreamNames, StreamsDiffer
<1>17. \A d \in ColumnSet : FieldInv(d)'
  <2> SUFFICES ASSUME NEW d \in ColumnSet, d # c PROVE FieldInv(d)'
    BY <1>14
  <2> QED BY <1>3, <1>13, <1>16, KeepField DEF IInv, Inner, Behind
<1>18. EopInv'
  BY <1>1, <1>3, <1>11, <1>16 DEF IInv, Inner, Behind, EopInv
<1>19. CountInv(1)'
  <2>1. ch'[Count("filter")] = ch[Count("filter")]
    BY <1>16, ConsumerList, Sizes
  <2> QED BY <1>1, <1>3, <1>11, <2>1, FilterCounted
<1>20. DataInv'
  BY <1>3, <1>7, <1>11, <1>16, KeepData DEF IInv, Inner
<1> QED BY <1>1, <1>2, <1>11, <1>14, <1>15, <1>16, <1>17, <1>18, <1>19, <1>20, FilterStep

\* The rest of the page is skipped.
LEMMA SkipStep == IInv /\ Skip => IInv'
<1> SUFFICES ASSUME IInv, Skip PROVE IInv'
  OBVIOUS
<1>1. /\ flt.pc = "skip" /\ CanRead(Data) /\ ch' = Get(Data) /\ hold' = hold
      /\ flt' = [flt EXCEPT !.pgOff = @ + 1] /\ Filter
  BY DEF Skip
<1>2. DOMAIN hold' = Processes /\ \A p \in Processes : p # "filter" => hold'[p] = hold[p]
  BY <1>1 DEF IInv, Basics
<1>3. /\ UNCHANGED <<block, page, inStream, feedVars, hdr, conv, aggr, sums>> /\ Passed' = Passed
      /\ (\A i : Sent(i)' = Sent(i)) /\ \A c \in ColumnSet : Took(c)' = Took(c)
  BY <1>1, <1>2, FilterFrame
<1>4. /\ flt \in [pc : {"count", "tuples", "skip", "done"}, t : 0 .. Tuples, f : 1 .. NFIELDS, pgOff : Nat]
      /\ flt.t = 0 /\ flt.f = 1 /\ hold["filter"] = NoToken
  BY <1>1 DEF IInv, Inner, Behind, FltInv
<1>5. flt' = [pc |-> "skip", t |-> 0, f |-> 1, pgOff |-> flt.pgOff + 1]
  BY <1>1, <1>4
<1>6. DataInv' /\ Bounded'
  BY <1>1, <1>3, <1>5, DataTake
<1>7. /\ DOMAIN ch' = Streams /\ ch'[Byte] = ch[Byte] /\ ch'[Eop] = ch[Eop]
      /\ \A c \in ColumnSet : ch'[Field(c)] = ch[Field(c)] /\ ch'[Native(c)] = ch[Native(c)]
      /\ \A i \in 1 .. Len(Consumers) : ch'[Count(Consumers[i])] = ch[Count(Consumers[i])]
  BY <1>1, DataOnly
<1>8. \A c \in ColumnSet : FieldInv(c)'
  <2>1. \A c \in ColumnSet : Wrote(c)' = Wrote(c)
    BY <1>1, <1>3, <1>4, <1>5, Steady DEF Wrote
  <2> QED BY <1>3, <1>7, <2>1, KeepField DEF IInv, Inner, Behind
<1>9. EopInv'
  BY <1>1, <1>3, <1>5, <1>7 DEF IInv, Inner, Behind, EopInv
<1>10. CountInv(1)'
  <2>1. ch'[Count("filter")] = ch[Count("filter")]
    BY <1>7, ConsumerList, Sizes
  <2> QED BY <1>1, <1>3, <1>5, <2>1, FilterCounted
<1>11. FltInv'
  <2>1. Tuples' = Tuples /\ hold'["filter"] = NoToken
    BY <1>1, <1>3, <1>4, Steady
  <2>2. flt' \in [pc : {"count", "tuples", "skip", "done"}, t : 0 .. Tuples, f : 1 .. NFIELDS, pgOff : Nat]
    <3>1. flt.pgOff + 1 \in Nat /\ 0 \in 0 .. Tuples /\ 1 \in 1 .. NFIELDS
      BY <1>4
    <3> QED BY <1>5, <3>1, FltRecord
  <2> QED BY <1>5, <2>1, <2>2 DEF FltInv
<1> QED BY <1>1, <1>2, <1>6, <1>7, <1>8, <1>9, <1>10, <1>11, FilterStep

\* The end of the page is reported to agg.
LEMMA FilterDoneStep == IInv /\ FilterDone => IInv'
<1> SUFFICES ASSUME IInv, FilterDone PROVE IInv'
  OBVIOUS
<1>1. /\ flt.pc = "skip" /\ flt.pgOff >= PAGE_SZ /\ CanWrite(Eop) /\ ch' = Put(Eop, TRUE) /\ hold' = hold
      /\ flt' = [flt EXCEPT !.pc = "done"] /\ Filter
  BY DEF FilterDone, Skipped
<1>2. DOMAIN hold' = Processes /\ \A p \in Processes : p # "filter" => hold'[p] = hold[p]
  BY <1>1 DEF IInv, Basics
<1>3. /\ UNCHANGED <<block, page, inStream, feedVars, hdr, conv, aggr, sums>> /\ Passed' = Passed
      /\ (\A i : Sent(i)' = Sent(i)) /\ \A c \in ColumnSet : Took(c)' = Took(c)
  BY <1>1, <1>2, FilterFrame
<1>4. /\ flt \in [pc : {"count", "tuples", "skip", "done"}, t : 0 .. Tuples, f : 1 .. NFIELDS, pgOff : Nat]
      /\ flt.t = 0 /\ flt.f = 1 /\ hold["filter"] = NoToken
  BY <1>1 DEF IInv, Inner, Behind, FltInv
<1>5. flt.pgOff = PAGE_SZ
  <2>1. flt.pgOff \in Nat /\ flt.pgOff <= Passed /\ Passed \in Nat /\ Passed <= PAGE_SZ /\ PAGE_SZ \in Nat
    BY Counters, Sizes
  <2> QED BY <1>1, <2>1
<1>6. flt' = [pc |-> "done", t |-> 0, f |-> 1, pgOff |-> flt.pgOff]
  BY <1>1, <1>4
<1>7. DOMAIN ch' = Streams /\ ch'[Eop] = Append(ch[Eop], TRUE) /\ \A r \in Streams : r # Eop => ch'[r] = ch[r]
  BY <1>1, PutStream, StreamNames DEF IInv, Basics
<1>8. /\ ch'[Byte] = ch[Byte] /\ ch'[Data] = ch[Data]
      /\ \A c \in ColumnSet : ch'[Field(c)] = ch[Field(c)] /\ ch'[Native(c)] = ch[Native(c)]
      /\ \A i \in 1 .. Len(Consumers) : ch'[Count(Consumers[i])] = ch[Count(Consumers[i])]
  BY <1>7, StreamNames, StreamsDiffer
<1>9. ch[Eop] = << >> /\ aggr.pc # "done"
  BY <1>1 DEF IInv, Inner, Behind, EopInv
<1>10. EopInv'
  <2>1. ch'[Eop] = <<TRUE>>
    BY <1>7, <1>9
  <2> QED BY <1>3, <1>6, <1>9, <2>1 DEF EopInv
<1>11. Bounded'
  <2>1. ch[Eop] \in Seq(BOOLEAN) /\ TRUE \in BOOLEAN /\ Eop \in Streams
    BY <1>9, StreamNames
  <2> QED BY <1>1, <1>3, <2>1, BoundedPut DEF IInv
<1>12. \A c \in ColumnSet : FieldInv(c)'
  <2>1. \A c \in ColumnSet : Wrote(c)' = Wrote(c)
    BY <1>1, <1>3, <1>4, <1>6, Steady DEF Wrote
  <2> QED BY <1>3, <1>8, <2>1, KeepField DEF IInv, Inner, Behind
<1>13. CountInv(1)'
  <2>1. ch'[Count("filter")] = ch[Count("filter")]
    BY <1>8, ConsumerList, Sizes
  <2> QED BY <1>1, <1>3, <1>6, <2>1, FilterCounted
<1>14. DataInv'
  BY <1>3, <1>6, <1>8, KeepData DEF IInv, Inner
<1>15. FltInv'
  <2>1. Tuples' = Tuples /\ hold'["filter"] = NoToken
    BY <1>1, <1>3, <1>4, Steady
  <2>2. flt' \in [pc : {"count", "tuples", "skip", "done"}, t : 0 .. Tuples, f : 1 .. NFIELDS, pgOff : Nat]
    <3>1. flt.pgOff \in Nat /\ 0 \in 0 .. Tuples /\ 1 \in 1 .. NFIELDS
      BY <1>4
    <3> QED BY <1>6, <3>1, FltRecord
  <2> QED BY <1>5, <1>6, <2>1, <2>2 DEF FltInv
<1> QED BY <1>1, <1>2, <1>7, <1>8, <1>10, <1>11, <1>12, <1>13, <1>14, <1>15, FilterStep

---------------------------------------------------------------------------
(* Steps of a converter *)

LEMMA ValueByte ==
  ASSUME IInv, NEW c \in ColumnSet, NEW m \in Nat
  PROVE  Value(c, m) \in Bytes /\ Value(c, m) # NoToken
<1>1. Mine \in Int /\ HDR \in {0, 2} /\ NFIELDS \in Nat /\ FieldOf(c) \in Int
  BY PageFacts, Sizes, ColumnField DEF IInv
<1>2. m * NFIELDS \in Int
  BY <1>1, Z3
<1>3. HDR + m * NFIELDS + FieldOf(c) \in Int
  BY <1>1, <1>2
<1> QED BY <1>1, <1>3 DEF Value, Bytes, NoToken

LEMMA ConvFrame ==
  ASSUME IInv, Converter, NEW c \in ColumnSet, DOMAIN hold' = Processes, DOMAIN conv' = ColumnSet,
         \A p \in Processes : p # c => hold'[p] = hold[p], \A d \in ColumnSet : d # c => conv'[d] = conv[d]
  PROVE  /\ UNCHANGED <<block, page, inStream, feedVars, hdr, flt, aggr, sums>>
         /\ Passed' = Passed /\ ToTake' = ToTake /\ HdrInv' /\ \A i : Sent(i)' = Sent(i)
         /\ FltInv' /\ \A d : Wrote(d)' = Wrote(d)
         /\ AggInv' /\ SumsInv' /\ \A i : Used(i)' = Used(i)
         /\ \A d \in ColumnSet : d # c => Took(d)' = Took(d) /\ Converted(d)' = Converted(d) /\ ConvInv(d)'
         /\ \A x \in {"filter", "agg"} \cup ColumnSet : x # c => Got(x)' = Got(x)
<1>1. UNCHANGED <<block, page, inStream, feedVars, hdr, flt, aggr, sums>>
  BY DEF Converter, feedVars
<1>2. /\ hold'["header"] = hold["header"] /\ hold'["filter"] = hold["filter"]
      /\ \A d \in ColumnSet : d # c => hold'[d] = hold[d]
  BY ColumnField DEF Processes
<1>3. Passed' = Passed /\ ToTake' = ToTake /\ HdrInv' /\ \A i : Sent(i)' = Sent(i)
  BY <1>1, <1>2, KeepHdr DEF IInv
<1>4. FltInv' /\ \A d : Wrote(d)' = Wrote(d)
  BY <1>1, <1>2, KeepFlt DEF IInv, Inner, Behind
<1>5. AggInv' /\ SumsInv' /\ \A i : Used(i)' = Used(i)
  BY <1>1, KeepAgg DEF IInv, Inner, Behind
<1>6. \A d \in ColumnSet : d # c => Took(d)' = Took(d) /\ Converted(d)' = Converted(d) /\ ConvInv(d)'
  BY <1>1, <1>2, KeepConv DEF IInv, Inner, Behind
<1>7. \A x \in {"filter", "agg"} \cup ColumnSet : x # c => Got(x)' = Got(x)
  BY <1>1, ColumnField DEF Got
<1> QED BY <1>1, <1>3, <1>4, <1>5, <1>6, <1>7

\* What every step of the converter of column k has in common.
LEMMA ConvStep ==
  ASSUME IInv, Converter, NEW k \in 1 .. Len(Columns), NEW c, c = Columns[k],
         DOMAIN hold' = Processes, DOMAIN conv' = ColumnSet,
         \A p \in Processes : p # c => hold'[p] = hold[p], \A d \in ColumnSet : d # c => conv'[d] = conv[d],
         DOMAIN ch' = Streams, \A r \in Streams : r \notin {Count(c), Field(c), Native(c)} => ch'[r] = ch[r],
         Bounded', ConvInv(c)', FieldInv(c)', NativeInv(k)', CountInv(k + 1)'
  PROVE  IInv'
<1>0. c \in ColumnSet /\ k + 1 \in 1 .. Len(Consumers) /\ Consumers[k + 1] = c
  BY ConsumerList, Sizes
<1>1. /\ UNCHANGED <<block, page, inStream, feedVars, hdr, flt, aggr, sums>>
      /\ Passed' = Passed /\ ToTake' = ToTake /\ HdrInv' /\ \A i : Sent(i)' = Sent(i)
      /\ FltInv' /\ \A d : Wrote(d)' = Wrote(d)
      /\ AggInv' /\ SumsInv' /\ \A i : Used(i)' = Used(i)
      /\ \A d \in ColumnSet : d # c => Took(d)' = Took(d) /\ Converted(d)' = Converted(d) /\ ConvInv(d)'
      /\ \A x \in {"filter", "agg"} \cup ColumnSet : x # c => Got(x)' = Got(x)
  BY <1>0, ConvFrame
<1>2. /\ ch'[Byte] = ch[Byte] /\ ch'[Data] = ch[Data] /\ ch'[Eop] = ch[Eop]
      /\ \A d \in ColumnSet : d # c => ch'[Field(d)] = ch[Field(d)] /\ ch'[Native(d)] = ch[Native(d)]
      /\ \A i \in 1 .. Len(Consumers) : Consumers[i] # c => ch'[Count(Consumers[i])] = ch[Count(Consumers[i])]
  BY StreamNames, StreamsDiffer
<1>3. ToWrite' = ToWrite /\ ByteInv'
  BY <1>1, <1>2, KeepBytes DEF IInv
<1>4. ReaderInv' /\ WordInv'
  BY <1>1, <1>3, KeepReader DEF IInv
<1>5. DataInv'
  BY <1>1, <1>2, KeepData DEF IInv, Inner
<1>6. \A d \in ColumnSet : FieldInv(d)' /\ ConvInv(d)'
  <2> SUFFICES ASSUME NEW d \in ColumnSet, d # c PROVE FieldInv(d)' /\ ConvInv(d)'
    OBVIOUS
  <2> QED BY <1>1, <1>2, KeepField DEF IInv, Inner, Behind
<1>7. \A i \in 1 .. Len(Columns) : NativeInv(i)'
  <2> SUFFICES ASSUME NEW i \in 1 .. Len(Columns), i # k PROVE NativeInv(i)'
    OBVIOUS
  <2>1. Columns[i] # c /\ Columns[i] \in ColumnSet
    BY ConsumerList, LayoutAssumption
  <2> QED BY <1>1, <1>2, <2>1, KeepNative DEF IInv, Inner, Behind
<1>8. \A i \in 1 .. Len(Consumers) : CountInv(i)'
  <2> SUFFICES ASSUME NEW i \in 1 .. Len(Consumers), i # k + 1 PROVE CountInv(i)'
    OBVIOUS
  <2>1. Consumers[i] # c /\ Consumers[i] \in {"filter", "agg"} \cup ColumnSet
    BY <1>0, ConsumerOnce
  <2> QED BY <1>1, <1>2, <2>1, KeepCount DEF IInv, Inner
<1>9. EopInv'
  BY <1>1, <1>2, KeepEop DEF IInv, Inner, Behind
<1>10. Basics'
  BY <1>1 DEF IInv, Basics, block
<1>11. Inner'
  BY <1>1, <1>5, <1>6, <1>7, <1>8, <1>9 DEF Inner, Behind
<1> QED BY <1>1, <1>3, <1>4, <1>10, <1>11 DEF IInv

\* The count is taken.
LEMMA ConvCountStep ==
  ASSUME IInv, NEW c \in ColumnSet, ConvCount(c)
  PROVE  IInv'
<1> DEFINE s == Count(c)
<1> DEFINE n == Head(ch[s])
<1>1. /\ conv[c].pc = "count" /\ CanRead(s) /\ ch' = Get(s) /\ hold' = hold
      /\ conv' = [conv EXCEPT ![c] = [pc |-> Converting(n), n |-> n]] /\ Converter
  BY DEF ConvCount
<1>2. PICK k \in 1 .. Len(Columns) : c = Columns[k] /\ Consumers[k + 1] = c
  BY ConsumerOnce
<1>3. k + 1 \in 1 .. Len(Consumers)
  BY ConsumerList, Sizes
<1>4. /\ DOMAIN hold' = Processes /\ DOMAIN conv' = ColumnSet /\ conv'[c] = [pc |-> Converting(n), n |-> n]
      /\ \A p \in Processes : p # c => hold'[p] = hold[p]
      /\ \A d \in ColumnSet : d # c => conv'[d] = conv[d]
  BY <1>1 DEF IInv, Basics
<1>5. /\ UNCHANGED <<block, page, inStream, feedVars, hdr, flt, aggr, sums>>
      /\ (\A i : Sent(i)' = Sent(i)) /\ (\A d : Wrote(d)' = Wrote(d)) /\ \A i : Used(i)' = Used(i)
  BY <1>1, <1>4, ConvFrame
<1>6. Converting(n) \in {"fields", "done"}
  BY DEF Converting
<1>7. Got(c)'
  BY <1>4, <1>6, ColumnField DEF Got
<1>8. /\ CountInv(k + 1)' /\ Bounded' /\ n = Tuples /\ DOMAIN ch' = Streams /\ \A r \in Streams : r # s => ch'[r] = ch[r]
  BY <1>1, <1>2, <1>3, <1>5, <1>7, CountTake
<1> HIDE DEF n
<1>9. Tuples \in Nat /\ hold[c] = NoToken /\ Tuples' = Tuples
  BY <1>1, <1>5, Steady, PageFacts DEF IInv, Inner, Behind, ConvInv
<1>10. Converted(c)' = Converted(c) /\ Took(c)' = Took(c)
  <2>1. Converted(c) = 0
    BY <1>1 DEF Converted
  <2>2. Converted(c)' = Tuples - Tuples
    BY <1>4, <1>6, <1>8, <1>9 DEF Converted
  <2>3. Converted(c)' = Converted(c)
    BY <1>9, <2>1, <2>2
  <2> QED BY <1>1, <2>3 DEF Took, Held
<1>11. ConvInv(c)'
  <2>1. conv'[c].pc = Converting(Tuples) /\ conv'[c].n = Tuples /\ Tuples \in 0 .. Tuples
    BY <1>4, <1>8, <1>9
  <2>2. conv'[c] \in [pc : {"count", "fields", "done"}, n : 0 .. Tuples]
    BY <1>4, <1>6, <1>8, <2>1
  <2>3. conv'[c].pc = "fields" <=> conv'[c].n > 0
    BY <2>1 DEF Converting
  <2> QED BY <1>1, <1>9, <2>2, <2>3 DEF ConvInv
<1>12. s \in Streams /\ ch'[Field(c)] = ch[Field(c)] /\ ch'[Native(c)] = ch[Native(c)]
  BY <1>8, StreamNames, StreamsDiffer
<1>13. FieldInv(c)' /\ NativeInv(k)'
  BY <1>2, <1>5, <1>10, <1>12, KeepField, KeepNative DEF IInv, Inner, Behind
<1> QED BY <1>1, <1>2, <1>4, <1>8, <1>11, <1>13, ConvStep

\* A field is taken.
LEMMA ConvReadStep ==
  ASSUME IInv, NEW c \in ColumnSet, ConvRead(c)
  PROVE  IInv'
<1> DEFINE v == Head(ch[Field(c)])
<1>1. /\ conv[c].pc = "fields" /\ hold[c] = NoToken /\ CanRead(Field(c)) /\ ch' = Get(Field(c)) /\ conv' = conv
      /\ hold' = [hold EXCEPT ![c] = v] /\ Converter
  BY DEF ConvRead
<1>2. PICK k \in 1 .. Len(Columns) : c = Columns[k] /\ Consumers[k + 1] = c
  BY ConsumerOnce
<1>3. k + 1 \in 1 .. Len(Consumers)
  BY ConsumerList, Sizes
<1>4. /\ DOMAIN hold' = Processes /\ DOMAIN conv' = ColumnSet /\ hold'[c] = v
      /\ \A p \in Processes : p # c => hold'[p] = hold[p]
      /\ \A d \in ColumnSet : d # c => conv'[d] = conv[d]
  BY <1>1 DEF IInv, Basics, Processes
<1>5. /\ UNCHANGED <<block, page, inStream, feedVars, hdr, flt, aggr, sums>>
      /\ (\A i : Sent(i)' = Sent(i)) /\ (\A d : Wrote(d)' = Wrote(d)) /\ \A i : Used(i)' = Used(i)
  BY <1>1, <1>4, ConvFrame
<1>6. v # NoToken
  <2>1. ch[Field(c)] \in Seq(Bytes) /\ ch[Field(c)] # << >>
    BY <1>1 DEF IInv, Inner, Behind, FieldInv, CanRead
  <2>2. v \in Bytes
    BY <2>1, TailShift
  <2> QED BY <2>2 DEF Bytes, NoToken
<1>7. Converted(c)' = Converted(c) /\ Converted(c) \in Nat
  BY <1>1, <1>5, Steady, Counters DEF Converted
<1>8. Took(c) = Converted(c) /\ Took(c)' = Took(c) + 1
  <2>1. Took(c) = Converted(c) + 0 /\ Took(c)' = Converted(c) + 1
    BY <1>1, <1>4, <1>6, <1>7 DEF Took, Held
  <2> QED BY <1>7, <2>1
<1>9. FieldInv(c)' /\ Bounded' /\ v = Value(c, Converted(c))
  BY <1>1, <1>5, <1>8, FieldTake
<1>10. DOMAIN ch' = Streams /\ \A r \in Streams : r # Field(c) => ch'[r] = ch[r]
  BY <1>1, GetStream, StreamNames DEF IInv, Basics
<1>11. ch'[Count(c)] = ch[Count(c)] /\ ch'[Native(c)] = ch[Native(c)]
  BY <1>10, StreamNames, StreamsDiffer
<1>12. NativeInv(k)'
  BY <1>2, <1>5, <1>7, <1>11, KeepNative DEF IInv, Inner, Behind
<1>13. CountInv(k + 1)'
  <2>1. Got(c)' = Got(c)
    BY <1>1, <1>5 DEF Got
  <2> QED BY <1>2, <1>3, <1>5, <1>11, <2>1, KeepCount DEF IInv, Inner
<1>14. ConvInv(c)'
  <2> HIDE DEF v
  <2>1. Value(c, Converted(c))' = Value(c, Converted(c)) /\ Tuples' = Tuples
    BY <1>5, <1>7, Steady DEF Value
  <2> QED BY <1>1, <1>4, <1>9, <2>1 DEF IInv, Inner, Behind, ConvInv
<1> QED BY <1>1, <1>2, <1>4, <1>9, <1>10, <1>12, <1>13, <1>14, ConvStep

\* The converted field is written.
LEMMA ConvWriteStep ==
  ASSUME IInv, NEW c \in ColumnSet, ConvWrite(c)
  PROVE  IInv'
<1> DEFINE n == conv[c].n
<1>1. /\ conv[c].pc = "fields" /\ hold[c] # NoToken /\ CanWrite(Native(c)) /\ ch' = Put(Native(c), hold[c])
      /\ hold' = [hold EXCEPT ![c] = NoToken]
      /\ conv' = [conv EXCEPT ![c] = [pc |-> Converting(@.n - 1), n |-> @.n - 1]] /\ Converter
  BY DEF ConvWrite
<1>2. PICK k \in 1 .. Len(Columns) : c = Columns[k] /\ Consumers[k + 1] = c
  BY ConsumerOnce
<1>3. k + 1 \in 1 .. Len(Consumers)
  BY ConsumerList, Sizes
<1>4. /\ DOMAIN hold' = Processes /\ DOMAIN conv' = ColumnSet /\ hold'[c] = NoToken
      /\ conv'[c] = [pc |-> Converting(n - 1), n |-> n - 1]
      /\ \A p \in Processes : p # c => hold'[p] = hold[p]
      /\ \A d \in ColumnSet : d # c => conv'[d] = conv[d]
  BY <1>1 DEF IInv, Basics, Processes
<1>5. /\ UNCHANGED <<block, page, inStream, feedVars, hdr, flt, aggr, sums>>
      /\ (\A i : Sent(i)' = Sent(i)) /\ (\A d : Wrote(d)' = Wrote(d)) /\ \A i : Used(i)' = Used(i)
  BY <1>1, <1>4, ConvFrame
<1>6. n \in 0 .. Tuples /\ n > 0 /\ Tuples \in Nat /\ Tuples' = Tuples /\ hold[c] = Value(c, Converted(c))
  BY <1>1, <1>5, Steady, PageFacts DEF IInv, Inner, Behind, ConvInv
<1>7. Converting(n - 1) \in {"fields", "done"} /\ (Converting(n - 1) = "fields" <=> n - 1 > 0) /\ n - 1 \in 0 .. Tuples
  BY <1>6 DEF Converting
<1>8. Converted(c)' = Converted(c) + 1 /\ Converted(c) \in Nat
  <2>1. Converted(c) = Tuples - n /\ Converted(c)' = Tuples - (n - 1)
    BY <1>1, <1>4, <1>6, <1>7 DEF Converted
  <2> QED BY <1>6, <2>1, Counters
<1>9. Took(c)' = Took(c)
  <2>1. Took(c) = Converted(c) + 1 /\ Took(c)' = (Converted(c) + 1) + 0
    BY <1>1, <1>4, <1>8 DEF Took, Held
  <2> QED BY <1>8, <2>1
<1>10. Value(c, Converted(c)) \in Bytes
  BY <1>8, ValueByte
<1>11. NativeInv(k)' /\ Bounded'
  BY <1>1, <1>2, <1>5, <1>6, <1>8, <1>10, NativeAdd
<1>12. DOMAIN ch' = Streams /\ \A r \in Streams : r # Native(c) => ch'[r] = ch[r]
  BY <1>1, PutStream, StreamNames DEF IInv, Basics
<1>13. ch'[Count(c)] = ch[Count(c)] /\ ch'[Field(c)] = ch[Field(c)]
  BY <1>12, StreamNames, StreamsDiffer
<1>14. FieldInv(c)'
  BY <1>5, <1>9, <1>13, KeepField DEF IInv, Inner, Behind
<1>15. CountInv(k + 1)'
  <2>1. Got(c)' = Got(c)
    BY <1>1, <1>4, <1>5, <1>7, ColumnField DEF Got
  <2> QED BY <1>2, <1>3, <1>5, <1>13, <2>1, KeepCount DEF IInv, Inner
<1>16. ConvInv(c)'
  <2> HIDE DEF n
  <2>1. conv'[c] \in [pc : {"count", "fields", "done"}, n : 0 .. Tuples]
    BY <1>4, <1>7
  <2> QED BY <1>4, <1>6, <1>7, <2>1 DEF ConvInv
<1> QED BY <1>1, <1>2, <1>4, <1>11, <1>12, <1>14, <1>15, <1>16, ConvStep

---------------------------------------------------------------------------
(* Steps of agg *)

LEMMA AggFrame ==
  ASSUME IInv, Agg
  PROVE  /\ UNCHANGED <<block, page, inStream, feedVars, hdr, flt, conv, hold>>
         /\ Passed' = Passed /\ ToTake' = ToTake /\ HdrInv' /\ \A i : Sent(i)' = Sent(i)
         /\ FltInv' /\ \A d : Wrote(d)' = Wrote(d)
         /\ \A d \in ColumnSet : Took(d)' = Took(d) /\ Converted(d)' = Converted(d) /\ ConvInv(d)'
         /\ \A x : x # "agg" => Got(x)' = Got(x)
<1>1. UNCHANGED <<block, page, inStream, feedVars, hdr, flt, conv, hold>>
  BY DEF Agg, feedVars
<1>2. Passed' = Passed /\ ToTake' = ToTake /\ HdrInv' /\ \A i : Sent(i)' = Sent(i)
  BY <1>1, KeepHdr DEF IInv
<1>3. FltInv' /\ \A d : Wrote(d)' = Wrote(d)
  BY <1>1, KeepFlt DEF IInv, Inner, Behind
<1>4. \A d \in ColumnSet : Took(d)' = Took(d) /\ Converted(d)' = Converted(d) /\ ConvInv(d)'
  BY <1>1, KeepConv DEF IInv, Inner, Behind
<1>5. \A x : x # "agg" => Got(x)' = Got(x)
  BY <1>1 DEF Got
<1> QED BY <1>1, <1>2, <1>3, <1>4, <1>5

\* What every step of agg has in common.
LEMMA AggStep ==
  ASSUME IInv, Agg, DOMAIN ch' = Streams, ch'[Byte] = ch[Byte], ch'[Data] = ch[Data],
         \A d \in ColumnSet : ch'[Field(d)] = ch[Field(d)],
         \A i \in 1 .. Len(Consumers) : Consumers[i] # "agg" => ch'[Count(Consumers[i])] = ch[Count(Consumers[i])],
         Bounded', AggInv', SumsInv', EopInv', CountInv(Len(Columns) + 2)',
         \A i \in 1 .. Len(Columns) : NativeInv(i)'
  PROVE  IInv'
<1>1. /\ UNCHANGED <<block, page, inStream, feedVars, hdr, flt, conv, hold>>
      /\ Passed' = Passed /\ ToTake' = ToTake /\ HdrInv' /\ \A i : Sent(i)' = Sent(i)
      /\ FltInv' /\ \A d : Wrote(d)' = Wrote(d)
      /\ \A d \in ColumnSet : Took(d)' = Took(d) /\ Converted(d)' = Converted(d) /\ ConvInv(d)'
      /\ \A x : x # "agg" => Got(x)' = Got(x)
  BY AggFrame
<1>2. ToWrite' = ToWrite /\ ByteInv'
  BY <1>1, KeepBytes DEF IInv
<1>3. ReaderInv' /\ WordInv'
  BY <1>1, <1>2, KeepReader DEF IInv
<1>4. DataInv'
  BY <1>1, KeepData DEF IInv, Inner
<1>5. \A d \in ColumnSet : FieldInv(d)' /\ ConvInv(d)'
  BY <1>1, KeepField DEF IInv, Inner, Behind
<1>6. \A i \in 1 .. Len(Consumers) : CountInv(i)'
  <2> SUFFICES ASSUME NEW i \in 1 .. Len(Consumers), i # Len(Columns) + 2 PROVE CountInv(i)'
    OBVIOUS
  <2>1. Consumers[i] # "agg"
    <3>1. Len(Columns) + 2 \in 1 .. Len(Consumers)
      BY ConsumerList, Sizes
    <3> QED BY <3>1, ConsumerList, ConsumerOnce
  <2> QED BY <1>1, <2>1, KeepCount DEF IInv, Inner
<1>7. Basics'
  BY <1>1 DEF IInv, Basics, block
<1>8. Inner'
  BY <1>1, <1>4, <1>5, <1>6 DEF Inner, Behind
<1> QED BY <1>1, <1>2, <1>3, <1>7, <1>8 DEF IInv

LEMMA AggRecord ==
  ASSUME NEW T, NEW n \in 0 .. T, NEW row \in Seq(Bytes), NEW q \in {"count", "rows", "eop", "done"}
  PROVE  [pc |-> q, n |-> n, row |-> row] \in [pc : {"count", "rows", "eop", "done"}, n : 0 .. T, row : Seq(Bytes)]
OBVIOUS

\* The count is taken.
LEMMA AggCountStep == IInv /\ AggCount => IInv'
<1> SUFFICES ASSUME IInv, AggCount PROVE IInv'
  OBVIOUS
<1> DEFINE s == Count("agg")
<1> DEFINE n == Head(ch[s])
<1>1. /\ aggr.pc = "count" /\ CanRead(s) /\ ch' = Get(s) /\ sums' = sums
      /\ aggr' = [aggr EXCEPT !.pc = Aggregating(n), !.n = n] /\ Agg
  BY DEF AggCount
<1>2. /\ UNCHANGED <<block, page, inStream, feedVars, hdr, flt, conv, hold>> /\ (\A i : Sent(i)' = Sent(i))
      /\ \A d \in ColumnSet : Converted(d)' = Converted(d)
  BY <1>1, AggFrame
<1>3. /\ aggr \in [pc : {"count", "rows", "eop", "done"}, n : 0 .. Tuples, row : Seq(Bytes)] /\ aggr.row = << >>
  BY <1>1 DEF IInv, Inner, Behind, AggInv
<1>4. Aggregating(n) \in {"rows", "eop"}
  BY DEF Aggregating
<1>5. aggr' = [pc |-> Aggregating(n), n |-> n, row |-> << >>]
  BY <1>1, <1>3
<1>6. Got("agg")'
  BY <1>4, <1>5 DEF Got
<1>7. Len(Columns) + 2 \in 1 .. Len(Consumers) /\ Consumers[Len(Columns) + 2] = "agg" /\ Len(Columns) \in Nat \ {0}
  BY ConsumerList, Sizes
<1>8. /\ CountInv(Len(Columns) + 2)' /\ Bounded' /\ n = Tuples /\ DOMAIN ch' = Streams
      /\ \A r \in Streams : r # s => ch'[r] = ch[r]
  BY <1>1, <1>2, <1>6, <1>7, CountTake
<1> HIDE DEF n
<1>9. /\ ch'[Byte] = ch[Byte] /\ ch'[Data] = ch[Data] /\ ch'[Eop] = ch[Eop]
      /\ \A d \in ColumnSet : ch'[Field(d)] = ch[Field(d)] /\ ch'[Native(d)] = ch[Native(d)]
      /\ \A i \in 1 .. Len(Consumers) : Consumers[i] # "agg" => ch'[Count(Consumers[i])] = ch[Count(Consumers[i])]
  BY <1>8, StreamNames, StreamsDiffer
<1>10. Tuples \in Nat /\ Tuples' = Tuples
  BY <1>2, PageFacts, Steady DEF IInv
<1>11. Added = 0 /\ Added' = 0
  <2>1. Added = 0
    BY <1>1 DEF Added
  <2>2. Added' = Tuples - Tuples
    BY <1>4, <1>5, <1>8, <1>10 DEF Added
  <2> QED BY <1>10, <2>1, <2>2
<1>12. \A i : Used(i)' = Used(i)
  BY <1>3, <1>5, <1>11 DEF Used
<1>13. \A i \in 1 .. Len(Columns) : NativeInv(i)'
  BY <1>2, <1>9, <1>12, KeepNative, ConsumerList DEF IInv, Inner, Behind
<1>14. AggInv'
  <2>1. Aggregating(n) \in {"count", "rows", "eop", "done"} /\ n \in 0 .. Tuples /\ << >> \in Seq(Bytes)
    BY <1>4, <1>8, <1>10
  <2>2. aggr' \in [pc : {"count", "rows", "eop", "done"}, n : 0 .. Tuples, row : Seq(Bytes)]
    BY <1>5, <2>1, AggRecord
  <2>3. (Aggregating(n) = "rows" <=> n > 0) /\ Len(<< >>) < Len(Columns) /\ Len(<< >>) = 0
    BY <1>7 DEF Aggregating
  <2> QED BY <1>5, <1>10, <2>2, <2>3 DEF AggInv
<1>15. SumsInv'
  BY <1>1, <1>2, <1>11, Steady DEF IInv, Inner, Behind, SumsInv
<1>16. EopInv'
  BY <1>1, <1>2, <1>4, <1>5, <1>9 DEF IInv, Inner, Behind, EopInv
<1> QED BY <1>1, <1>8, <1>9, <1>13, <1>14, <1>15, <1>16, AggStep

\* The end of the page is taken note of.
LEMMA AggEopStep == IInv /\ AggEop => IInv'
<1> SUFFICES ASSUME IInv, AggEop PROVE IInv'
  OBVIOUS
<1>1. /\ aggr.pc = "eop" /\ CanRead(Eop) /\ ch' = Get(Eop) /\ sums' = sums /\ aggr' = [aggr EXCEPT !.pc = "done"] /\ Agg
  BY DEF AggEop
<1>2. /\ UNCHANGED <<block, page, inStream, feedVars, hdr, flt, conv, hold>> /\ (\A i : Sent(i)' = Sent(i))
      /\ \A d \in ColumnSet : Converted(d)' = Converted(d)
  BY <1>1, AggFrame
<1>3. /\ aggr \in [pc : {"count", "rows", "eop", "done"}, n : 0 .. Tuples, row : Seq(Bytes)] /\ aggr.row = << >>
      /\ ~(aggr.n > 0)
  BY <1>1 DEF IInv, Inner, Behind, AggInv
<1>4. aggr' = [pc |-> "done", n |-> aggr.n, row |-> << >>]
  BY <1>1, <1>3
<1>5. ch[Eop] = <<TRUE>> /\ flt.pc = "done"
  BY <1>1 DEF CanRead, IInv, Inner, Behind, EopInv
<1>6. DOMAIN ch' = Streams /\ ch'[Eop] = Tail(ch[Eop]) /\ \A r \in Streams : r # Eop => ch'[r] = ch[r]
  BY <1>1, GetStream, StreamNames DEF IInv, Basics
<1>7. Bounded'
  <2>1. ch[Eop] \in Seq(BOOLEAN) /\ Eop \in Streams
    BY <1>5, StreamNames
  <2> QED BY <1>1, <1>2, <2>1, BoundedGet DEF IInv
<1>8. /\ ch'[Byte] = ch[Byte] /\ ch'[Data] = ch[Data]
      /\ \A d \in ColumnSet : ch'[Field(d)] = ch[Field(d)] /\ ch'[Native(d)] = ch[Native(d)]
      /\ \A i \in 1 .. Len(Consumers) : ch'[Count(Consumers[i])] = ch[Count(Consumers[i])]
  BY <1>6, StreamNames, StreamsDiffer
<1>9. EopInv'
  <2>1. ch'[Eop] = << >>
    BY <1>5, <1>6
  <2> QED BY <1>2, <1>4, <1>5, <2>1 DEF EopInv
<1>10. Tuples' = Tuples /\ Len(Columns) \in Nat \ {0}
  BY <1>2, Steady, Sizes
<1>11. Added' = Added /\ \A i : Used(i)' = Used(i)
  <2>1. Added' = Added
    BY <1>1, <1>4, <1>10 DEF Added
  <2> QED BY <1>3, <1>4, <2>1 DEF Used
<1>12. \A i \in 1 .. Len(Columns) : NativeInv(i)'
  BY <1>2, <1>8, <1>11, KeepNative, ConsumerList DEF IInv, Inner, Behind
<1>13. AggInv'
  <2>1. aggr' \in [pc : {"count", "rows", "eop", "done"}, n : 0 .. Tuples, row : Seq(Bytes)]
    BY <1>3, <1>4
  <2>2. Len(<< >>) < Len(Columns) /\ Len(<< >>) = 0
    BY <1>10
  <2> QED BY <1>3, <1>4, <1>10, <2>1, <2>2 DEF AggInv
<1>14. SumsInv'
  BY <1>1, <1>2, <1>11, Steady DEF IInv, Inner, Behind, SumsInv
<1>15. CountInv(Len(Columns) + 2)'
  <2>1. Len(Columns) + 2 \in 1 .. Len(Consumers) /\ Consumers[Len(Columns) + 2] = "agg"
    BY ConsumerList, Sizes
  <2>2. Got("agg")' = Got("agg")
    BY <1>1, <1>4 DEF Got
  <2> QED BY <1>2, <1>8, <2>1, <2>2, KeepCount DEF IInv, Inner
<1> QED BY <1>1, <1>6, <1>7, <1>8, <1>9, <1>12, <1>13, <1>14, <1>15, AggStep

\* A column of the row is taken; the last one completes the row, which is a tuple of the page.
LEMMA AggReadStep == IInv /\ AggRead => IInv'
<1> SUFFICES ASSUME IInv, AggRead PROVE IInv'
  OBVIOUS
<1>0. /\ aggr \in [pc : {"count", "rows", "eop", "done"}, n : 0 .. Tuples, row : Seq(Bytes)]
      /\ Len(aggr.row) < Len(Columns) /\ \A i \in 1 .. Len(aggr.row) : aggr.row[i] = Value(Columns[i], Added)
      /\ (aggr.pc = "rows" <=> aggr.n > 0)
  BY DEF IInv, Inner, Behind, AggInv
<1>1. PICK k \in 1 .. Len(Columns) : k = Len(aggr.row) + 1
  <2>1. Len(aggr.row) \in Nat /\ Len(Columns) \in Nat
    BY <1>0, Sizes
  <2>2. Len(aggr.row) + 1 \in 1 .. Len(Columns)
    BY <1>0, <2>1
  <2> QED BY <2>2
<1>2. PICK c \in ColumnSet : c = Columns[k]
  BY ConsumerList
<1> DEFINE v == Head(ch[Native(c)])
<1> DEFINE row == Append(aggr.row, v)
<1>3. /\ aggr.pc = "rows" /\ CanRead(Native(c)) /\ ch' = Get(Native(c)) /\ Agg
      /\ IF Len(row) < Len(Columns)
           THEN aggr' = [aggr EXCEPT !.row = row] /\ sums' = sums
           ELSE /\ aggr' = [pc |-> Aggregating(aggr.n - 1), n |-> aggr.n - 1, row |-> << >>]
                /\ sums' = [sums EXCEPT ![page] = Append(@, row)]
  BY <1>1, <1>2 DEF AggRead
<1>4. /\ UNCHANGED <<block, page, inStream, feedVars, hdr, flt, conv, hold>> /\ (\A i : Sent(i)' = Sent(i))
      /\ \A d \in ColumnSet : Converted(d)' = Converted(d)
  BY <1>3, AggFrame
<1>5. ch[Native(c)] \in Seq(Bytes) /\ ch[Native(c)] # << >> /\ v \in Bytes
  <2>1. ch[Native(c)] \in Seq(Bytes) /\ ch[Native(c)] # << >>
    BY <1>2, <1>3 DEF IInv, Inner, Behind, NativeInv, CanRead
  <2> QED BY <2>1, TailShift
<1>6. /\ row \in Seq(Bytes) /\ Len(row) = k /\ row[k] = v /\ \A i \in 1 .. k - 1 : row[i] = aggr.row[i]
      /\ Len(aggr.row) = k - 1 /\ k \in Nat
  <2> HIDE DEF v
  <2>1. aggr.row \in Seq(Bytes)
    BY <1>0
  <2>2. /\ row \in Seq(Bytes) /\ Len(row) = Len(aggr.row) + 1 /\ Len(aggr.row) \in Nat /\ row[Len(aggr.row) + 1] = v
        /\ \A i \in 1 .. Len(aggr.row) : row[i] = aggr.row[i]
    BY <1>5, <2>1, AppendShift
  <2>3. Len(aggr.row) = k - 1
    BY <1>1, <2>2
  <2> QED BY <1>1, <2>2, <2>3
<1> HIDE DEF row
<1>7. /\ Tuples \in Nat /\ Tuples' = Tuples /\ Added \in Nat /\ aggr.n \in 0 .. Tuples /\ aggr.n > 0 /\ Added = Tuples - aggr.n
      /\ Len(Columns) \in Nat \ {0}
  BY <1>0, <1>3, <1>4, Steady, PageFacts, Counters, Sizes DEF IInv, Added
<1>8. Used(k) = Added /\ \A i \in 1 .. Len(Columns) : i # k => Used(i) = Added + (IF i < k THEN 1 ELSE 0)
  <2>1. Used(k) = Added + 0
    BY <1>6 DEF Used
  <2>2. \A i \in 1 .. Len(Columns) : i # k => (i <= k - 1 <=> i < k)
    BY <1>6
  <2> QED BY <1>6, <1>7, <2>1, <2>2 DEF Used
<1>9. /\ aggr'.pc \in {"rows", "eop"}
      /\ Used(k)' = Used(k) + 1 /\ \A i \in 1 .. Len(Columns) : i # k => Used(i)' = Used(i)
  <2>1. CASE k < Len(Columns)
    <3>1. aggr' = [pc |-> "rows", n |-> aggr.n, row |-> row]
      BY <1>0, <1>3, <1>6, <2>1
    <3>2. Added' = Added
      BY <1>7, <3>1 DEF Added
    <3>3. Used(k)' = Added + 1
      BY <1>6, <3>1, <3>2 DEF Used
    <3>4. \A i \in 1 .. Len(Columns) : i # k => (i <= k <=> i < k)
      BY <1>6
    <3>5. \A i \in 1 .. Len(Columns) : i # k => Used(i)' = Added + (IF i < k THEN 1 ELSE 0)
      BY <1>6, <3>1, <3>2, <3>4 DEF Used
    <3> QED BY <1>8, <3>1, <3>3, <3>5
  <2>2. CASE ~(k < Len(Columns))
    <3>1. aggr' = [pc |-> Aggregating(aggr.n - 1), n |-> aggr.n - 1, row |-> << >>]
      BY <1>3, <1>6, <2>2
    <3>2. Aggregating(aggr.n - 1) \in {"rows", "eop"}
      BY DEF Aggregating
    <3>3. Added' = Added + 1
      <4>1. Added' = Tuples - (aggr.n - 1)
        BY <1>7, <3>1, <3>2 DEF Added
      <4> QED BY <1>7, <4>1
    <3>4. \A i \in 1 .. Len(Columns) : Used(i)' = (Added + 1) + 0
      BY <3>1, <3>3 DEF Used
    <3>5. \A i \in 1 .. Len(Columns) : i # k => i < k
      BY <1>6, <1>7, <2>2
    <3> QED BY <1>7, <1>8, <3>1, <3>2, <3>4, <3>5
  <2> QED BY <2>1, <2>2
<1>10. NativeInv(k)' /\ Bounded' /\ v = Value(c, Added)
  BY <1>2, <1>3, <1>4, <1>8, <1>9, NativeTake
<1>11. \A i \in 1 .. k : row[i] = Value(Columns[i], Added)
  BY <1>0, <1>2, <1>6, <1>10
<1>12. DOMAIN ch' = Streams /\ \A r \in Streams : r # Native(c) => ch'[r] = ch[r]
  BY <1>3, GetStream, StreamNames DEF IInv, Basics
<1>13. /\ ch'[Byte] = ch[Byte] /\ ch'[Data] = ch[Data] /\ ch'[Eop] = ch[Eop]
       /\ \A d \in ColumnSet : ch'[Field(d)] = ch[Field(d)] /\ (d # c => ch'[Native(d)] = ch[Native(d)])
       /\ \A i \in 1 .. Len(Consumers) : ch'[Count(Consumers[i])] = ch[Count(Consumers[i])]
  BY <1>12, StreamNames, StreamsDiffer
<1>14. \A i \in 1 .. Len(Columns) : NativeInv(i)'
  <2> SUFFICES ASSUME NEW i \in 1 .. Len(Columns), i # k PROVE NativeInv(i)'
    BY <1>10
  <2>1. Columns[i] # c /\ Columns[i] \in ColumnSet
    BY <1>2, ConsumerList, LayoutAssumption
  <2> QED BY <1>4, <1>9, <1>13, <2>1, KeepNative DEF IInv, Inner, Behind
<1>15. EopInv'
  BY <1>3, <1>4, <1>9, <1>13 DEF IInv, Inner, Behind, EopInv
<1>16. CountInv(Len(Columns) + 2)'
  <2>1. Len(Columns) + 2 \in 1 .. Len(Consumers) /\ Consumers[Len(Columns) + 2] = "agg"
    BY ConsumerList, Sizes
  <2>2. Got("agg")' = Got("agg")
    BY <1>3, <1>9 DEF Got
  <2> QED BY <1>4, <1>13, <2>1, <2>2, KeepCount DEF IInv, Inner
<1>17. SumsInv /\ page \in 1 .. PAGES /\ page' = page /\ PAGES \in Nat
  BY <1>4, Sizes DEF IInv, Inner, Behind, Basics
<1>18. AggInv' /\ SumsInv'
  <2>1. CASE k < Len(Columns)
    <3>1. aggr' = [pc |-> "rows", n |-> aggr.n, row |-> row] /\ sums' = sums
      BY <1>0, <1>3, <1>6, <2>1
    <3>2. Added' = Added
      BY <1>7, <3>1 DEF Added
    <3>3. aggr' \in [pc : {"count", "rows", "eop", "done"}, n : 0 .. Tuples, row : Seq(Bytes)]
      BY <1>6, <1>7, <3>1, AggRecord
    <3>4. \A i \in 1 .. k : row[i] = Value(Columns[i], Added)'
      BY <1>4, <1>11, <3>2, Steady DEF Value
    <3>5. AggInv'
      BY <1>6, <1>7, <2>1, <3>1, <3>3, <3>4 DEF AggInv
    <3>6. SumsInv'
      BY <1>4, <1>17, <3>1, <3>2, Steady DEF SumsInv
    <3> QED BY <3>5, <3>6
  <2>2. CASE ~(k < Len(Columns))
    <3>1. /\ aggr' = [pc |-> Aggregating(aggr.n - 1), n |-> aggr.n - 1, row |-> << >>]
          /\ sums' = [sums EXCEPT ![page] = Append(@, row)] /\ k = Len(Columns)
      BY <1>3, <1>6, <1>7, <2>2
    <3>2. /\ Aggregating(aggr.n - 1) \in {"rows", "eop"} /\ aggr.n - 1 \in 0 .. Tuples
          /\ (Aggregating(aggr.n - 1) = "rows" <=> aggr.n - 1 > 0)
      BY <1>7 DEF Aggregating
    <3>3. Added' = Added + 1
      <4>1. Added' = Tuples - (aggr.n - 1)
        BY <1>7, <3>1, <3>2 DEF Added
      <4> QED BY <1>7, <4>1
    <3>4. AggInv'
      <4>1. aggr' \in [pc : {"count", "rows", "eop", "done"}, n : 0 .. Tuples, row : Seq(Bytes)]
        <5>1. << >> \in Seq(Bytes) /\ Aggregating(aggr.n - 1) \in {"count", "rows", "eop", "done"}
          BY <3>2
        <5> QED BY <3>1, <3>2, <5>1, AggRecord
      <4>2. Len(<< >>) < Len(Columns) /\ Len(<< >>) = 0
        BY <1>7
      <4> QED BY <1>7, <3>1, <3>2, <4>1, <4>2 DEF AggInv
    <3>5. row = Expected(page, Added + 1)
      <4> DEFINE E == Expected(page, Added + 1)
      <4>1. row \in [1 .. Len(Columns) -> Bytes]
        BY <1>6, <3>1
      <4>2. (Added + 1) - 1 = Added
        BY <1>7
      <4>3. E = [i \in 1 .. Len(Columns) |-> Value(Columns[i], Added)]
        BY <4>2 DEF Expected, Value, Mine
      <4> HIDE DEF E
      <4>4. \A i \in 1 .. Len(Columns) : row[i] = E[i]
        BY <1>11, <3>1, <4>3
      <4>5. row = E
        BY <4>1, <4>3, <4>4
      <4> QED BY <4>5 DEF E
    <3>6. SumsInv'
      <4> DEFINE s == sums[page]
      <4>1. /\ sums \in [1 .. PAGES -> Seq(Seq(Bytes))] /\ s \in Seq(Seq(Bytes)) /\ Len(s) = Added
            /\ \A p \in 1 .. page : \A t \in 1 .. Len(sums[p]) : sums[p][t] = Expected(p, t)
            /\ \A p \in page + 1 .. PAGES : sums[p] = << >>
        BY <1>17 DEF SumsInv
      <4>2. /\ sums'[page] = Append(s, row) /\ \A p \in 1 .. PAGES : p # page => sums'[p] = sums[p]
        BY <1>17, <3>1, <4>1
      <4>3. sums' = [sums EXCEPT ![page] = Append(s, row)]
        BY <3>1
      <4>4. \A t \in 1 .. Len(s) : s[t] = Expected(page, t)
        BY <1>17, <4>1
      <4> HIDE DEF s
      <4>5. /\ Append(s, row) \in Seq(Seq(Bytes)) /\ Len(Append(s, row)) = Added + 1
            /\ Append(s, row)[Added + 1] = row /\ \A t \in 1 .. Added : Append(s, row)[t] = s[t]
        BY <1>6, <4>1, AppendShift
      <4>6. sums' \in [1 .. PAGES -> Seq(Seq(Bytes))]
        BY <1>17, <4>1, <4>3, <4>5
      <4>7. \A t \in 1 .. Len(Append(s, row)) : Append(s, row)[t] = Expected(page, t)
        <5> SUFFICES ASSUME NEW t \in 1 .. Added + 1 PROVE Append(s, row)[t] = Expected(page, t)
          BY <4>5
        <5>1. CASE t \in 1 .. Added
          BY <4>1, <4>4, <4>5, <5>1
        <5>2. CASE t = Added + 1
          BY <3>5, <4>5, <5>2
        <5>3. Added \in Nat
          BY <1>7
        <5>4. t \in 1 .. Added \/ t = Added + 1
          BY <5>3
        <5> QED BY <5>1, <5>2, <5>4
      <4>8. \A p \in 1 .. page : \A t \in 1 .. Len(sums'[p]) : sums'[p][t] = Expected(p, t)
        <5> SUFFICES ASSUME NEW p \in 1 .. page PROVE \A t \in 1 .. Len(sums'[p]) : sums'[p][t] = Expected(p, t)
          OBVIOUS
        <5>1. CASE p = page
          BY <4>2, <4>7, <5>1
        <5>2. CASE p # page
          <6>1. sums'[p] = sums[p]
            BY <1>17, <4>2, <5>2
          <6> QED BY <4>1, <6>1
        <5> QED BY <5>1, <5>2
      <4>9. \A p \in page + 1 .. PAGES : sums'[p] = << >>
        BY <1>17, <4>1, <4>2
      <4>10. Len(sums'[page]) = Added'
        BY <3>3, <4>2, <4>5
      <4> QED BY <1>4, <1>17, <4>6, <4>8, <4>9, <4>10, Steady DEF SumsInv
    <3> QED BY <3>4, <3>6
  <2> QED BY <2>1, <2>2
<1> QED BY <1>3, <1>10, <1>12, <1>13, <1>14, <1>15, <1>16, <1>18, AggStep

---------------------------------------------------------------------------
(* From page to page *)

\* The unit at the first byte of a page.
PageStart ==
  /\ Basics
  /\ hdr = HdrStart /\ flt = FltStart /\ conv = ConvStart /\ aggr = AggStart
  /\ \A p \in Processes : hold[p] = NoToken
  /\ \A s \in Streams : s # Byte => ch[s] = << >>
  /\ sums \in [1 .. PAGES -> Seq(Seq(Bytes))]
  /\ \A p \in 1 .. page - 1 : \A t \in 1 .. Len(sums[p]) : sums[p][t] = Expected(p, t)
  /\ \A p \in page .. PAGES : sums[p] = << >>

LEMMA StartInv == PageStart => HdrInv /\ Inner /\ HdrTook = 0
<1> SUFFICES ASSUME PageStart PROVE HdrInv /\ Inner /\ HdrTook = 0
  OBVIOUS
<1>1. /\ Tuples \in Nat /\ Filled \in Nat /\ HDR \in {0, 2} /\ HDR_READ \in 1 .. PAGE_SZ
      /\ NFIELDS \in Nat \ {0} /\ PAGE_SZ \in Nat /\ PAGES \in Nat /\ page \in 1 .. PAGES /\ Len(Columns) \in Nat \ {0}
  BY PageFacts, Sizes DEF PageStart, Basics
<1>2. << >> \in Seq(Bytes) /\ Len(<< >>) = 0
  OBVIOUS
<1>3. /\ hold["header"] = NoToken /\ hold["filter"] = NoToken /\ \A c \in ColumnSet : hold[c] = NoToken
  BY DEF PageStart, Processes
<1>4. /\ ch[Data] = << >> /\ ch[Eop] = << >>
      /\ \A c \in ColumnSet : ch[Field(c)] = << >> /\ ch[Native(c)] = << >>
      /\ \A i \in 1 .. Len(Consumers) : ch[Count(Consumers[i])] = << >>
  BY StreamNames, StreamsDiffer DEF PageStart
<1>5. HdrInv /\ HdrTook = 0
  <2>1. hdr = [pc |-> "head", i |-> 0, buf |-> << >>] /\ 0 \in 0 .. PAGE_SZ /\ "head" \in HdrStages
    BY <1>1 DEF PageStart, HdrStart, HdrStages
  <2>2. hdr \in [pc : HdrStages, i : 0 .. PAGE_SZ, buf : Seq(Bytes)]
    BY <1>2, <2>1
  <2> QED BY <1>1, <1>2, <1>3, <2>1, <2>2 DEF HdrInv, HdrTook
<1>6. flt = [pc |-> "count", t |-> 0, f |-> 1, pgOff |-> HDR]
  BY DEF PageStart, FltStart
<1>7. aggr = [pc |-> "count", n |-> 0, row |-> << >>]
  BY DEF PageStart, AggStart
<1>8. \A c \in ColumnSet : conv[c] = [pc |-> "count", n |-> 0]
  BY DEF PageStart, ConvStart
<1>9. DataInv
  <2>1. Passed = HDR
    BY DEF PageStart, HdrStart, Passed
  <2> QED BY <1>1, <1>2, <1>4, <1>6, <2>1 DEF DataInv
<1>10. FltInv
  <2>1. "count" \in {"count", "tuples", "skip", "done"} /\ 0 \in 0 .. Tuples /\ 1 \in 1 .. NFIELDS /\ HDR \in Nat
    BY <1>1
  <2>2. flt \in [pc : {"count", "tuples", "skip", "done"}, t : 0 .. Tuples, f : 1 .. NFIELDS, pgOff : Nat]
    BY <1>6, <2>1, FltRecord
  <2> QED BY <1>3, <1>6, <2>2 DEF FltInv
<1>11. \A c \in ColumnSet : Wrote(c) = 0 /\ Converted(c) = 0 /\ Took(c) = 0
  BY <1>3, <1>6, <1>8 DEF Wrote, Converted, Took, Held
<1>12. \A c \in ColumnSet : FieldInv(c)
  <2> SUFFICES ASSUME NEW c \in ColumnSet PROVE FieldInv(c)
    OBVIOUS
  <2>1. ch[Field(c)] = << >> /\ Took(c) + Len(ch[Field(c)]) = Wrote(c) /\ Len(ch[Field(c)]) = 0
    BY <1>2, <1>4, <1>11
  <2> QED BY <1>2, <2>1 DEF FieldInv
<1>13. \A c \in ColumnSet : ConvInv(c)
  <2> SUFFICES ASSUME NEW c \in ColumnSet PROVE ConvInv(c)
    OBVIOUS
  <2>1. 0 \in 0 .. Tuples
    BY <1>1
  <2>2. conv[c] \in [pc : {"count", "fields", "done"}, n : 0 .. Tuples]
    BY <1>8, <2>1
  <2> QED BY <1>3, <1>8, <2>2 DEF ConvInv
<1>14. Added = 0 /\ \A i \in 1 .. Len(Columns) : Used(i) = 0
  <2>1. Added = 0
    BY <1>7 DEF Added
  <2>2. \A i \in 1 .. Len(Columns) : ~(i <= Len(aggr.row))
    BY <1>1, <1>2, <1>7
  <2> QED BY <2>1, <2>2 DEF Used
<1>15. \A i \in 1 .. Len(Columns) : NativeInv(i)
  <2> SUFFICES ASSUME NEW i \in 1 .. Len(Columns) PROVE NativeInv(i)
    OBVIOUS
  <2>1. Columns[i] \in ColumnSet
    BY ConsumerList
  <2>2. /\ ch[Native(Columns[i])] = << >> /\ Used(i) + Len(ch[Native(Columns[i])]) = Converted(Columns[i])
        /\ Len(ch[Native(Columns[i])]) = 0
    BY <1>2, <1>4, <1>11, <1>14, <2>1
  <2> QED BY <1>2, <2>2 DEF NativeInv
<1>16. AggInv
  <2>1. "count" \in {"count", "rows", "eop", "done"} /\ 0 \in 0 .. Tuples
    BY <1>1
  <2>2. aggr \in [pc : {"count", "rows", "eop", "done"}, n : 0 .. Tuples, row : Seq(Bytes)]
    BY <1>2, <1>7, <2>1, AggRecord
  <2> QED BY <1>1, <1>2, <1>7, <2>2 DEF AggInv
<1>17. EopInv
  BY <1>4, <1>6, <1>7 DEF EopInv
<1>18. SumsInv
  <2>1. sums[page] = << >> /\ \A p \in page + 1 .. PAGES : sums[p] = << >>
    BY <1>1 DEF PageStart
  <2>2. \A p \in 1 .. page : \A t \in 1 .. Len(sums[p]) : sums[p][t] = Expected(p, t)
    <3> SUFFICES ASSUME NEW p \in 1 .. page PROVE \A t \in 1 .. Len(sums[p]) : sums[p][t] = Expected(p, t)
      OBVIOUS
    <3>1. CASE p = page
      BY <2>1, <3>1
    <3>2. CASE p # page
      <4>1. p \in 1 .. page - 1
        BY <1>1, <3>2
      <4> QED BY <4>1 DEF PageStart
    <3> QED BY <3>1, <3>2
  <2> QED BY <1>2, <1>14, <2>1, <2>2 DEF SumsInv, PageStart
<1>19. \A i \in 1 .. Len(Consumers) : CountInv(i)
  <2> SUFFICES ASSUME NEW i \in 1 .. Len(Consumers) PROVE CountInv(i)
    OBVIOUS
  <2>1. ~Sent(i)
    BY DEF PageStart, HdrStart, Sent
  <2>2. ~Got(Consumers[i])
    <3>1. Consumers[i] \in {"filter", "agg"} \cup ColumnSet
      BY ConsumerOnce
    <3> QED BY <1>6, <1>7, <1>8, <3>1 DEF Got
  <2> QED BY <1>4, <2>1, <2>2 DEF CountInv
<1> QED BY <1>5, <1>9, <1>10, <1>12, <1>13, <1>15, <1>16, <1>17, <1>18, <1>19 DEF Inner, Behind

LEMMA StartInvNext == PageStart' => HdrInv' /\ Inner' /\ (HdrTook = 0)'
BY StartInv, PTL

\* What is left when q6_paged returns: nothing of its page.
LEMMA PageEnd ==
  ASSUME IInv, PageDone
  PROVE  /\ \A p \in Processes : hold[p] = NoToken
         /\ \A s \in Streams : s # Byte => ch[s] = << >>
         /\ HdrTook = PAGE_SZ /\ ToTake = page * PAGE_SZ /\ Added = Tuples
<1>1. /\ hdr.pc = "done" /\ flt.pc = "done" /\ aggr.pc = "done" /\ \A c \in ColumnSet : conv[c].pc = "done"
  BY DEF PageDone
<1>2. hold["header"] = NoToken /\ hold["filter"] = NoToken /\ \A c \in ColumnSet : hold[c] = NoToken
  BY <1>1 DEF IInv, HdrInv, Inner, Behind, FltInv, ConvInv
<1>3. hdr.i = PAGE_SZ /\ PAGE_SZ \in Nat /\ Tuples \in Nat
  BY <1>1, Sizes, PageFacts DEF IInv, HdrInv
<1>4. HdrTook = PAGE_SZ /\ Passed = PAGE_SZ
  <2>1. Held("header") = 0
    BY <1>2 DEF Held
  <2> QED BY <1>1, <1>3, <2>1 DEF HdrTook, Passed
<1>5. ToTake = page * PAGE_SZ
  <2>1. page \in Nat
    BY Sizes DEF IInv, Basics
  <2>2. (page - 1) * PAGE_SZ + PAGE_SZ = page * PAGE_SZ
    BY <1>3, <2>1, Z3
  <2> QED BY <1>4, <2>2 DEF ToTake
<1>6. ch[Data] = << >>
  <2>1. ch[Data] \in Seq(Bytes) /\ PAGE_SZ + Len(ch[Data]) = PAGE_SZ
    BY <1>1, <1>4 DEF IInv, Inner, Behind, FltInv, DataInv
  <2> QED BY <1>3, <2>1
<1>7. ch[Eop] = << >>
  BY <1>1 DEF IInv, Inner, Behind, EopInv
<1>8. \A i \in 1 .. Len(Consumers) : ch[Count(Consumers[i])] = << >>
  <2> SUFFICES ASSUME NEW i \in 1 .. Len(Consumers) PROVE ch[Count(Consumers[i])] = << >>
    OBVIOUS
  <2>1. Got(Consumers[i])
    BY <1>1, ConsumerOnce DEF Got
  <2> QED BY <2>1 DEF IInv, Inner, CountInv
<1>9. \A c \in ColumnSet : Converted(c) = Tuples /\ Took(c) = Tuples /\ Wrote(c) = Tuples
  <2> SUFFICES ASSUME NEW c \in ColumnSet PROVE Converted(c) = Tuples /\ Took(c) = Tuples /\ Wrote(c) = Tuples
    OBVIOUS
  <2>1. conv[c].n = 0 /\ flt.t = 0
    <3>1. conv[c].n \in 0 .. Tuples /\ ~(conv[c].n > 0) /\ flt.t = 0
      BY <1>1 DEF IInv, Inner, Behind, ConvInv, FltInv
    <3> QED BY <1>3, <3>1
  <2>2. Converted(c) = Tuples - 0 /\ Held(c) = 0 /\ Wrote(c) = Tuples - 0 + 0
    BY <1>1, <1>2, <2>1 DEF Converted, Held, Wrote
  <2>3. Took(c) = (Tuples - 0) + 0
    BY <2>2 DEF Took
  <2> QED BY <1>3, <2>2, <2>3
<1>10. Added = Tuples /\ \A i \in 1 .. Len(Columns) : Used(i) = Tuples
  <2>1. aggr.n \in 0 .. Tuples /\ ~(aggr.n > 0) /\ aggr.row = << >>
    BY <1>1 DEF IInv, Inner, Behind, AggInv
  <2>2. aggr.n = 0 /\ \A i \in 1 .. Len(Columns) : ~(i <= Len(aggr.row))
    BY <1>3, <2>1
  <2>3. Added = Tuples - 0
    BY <1>1, <2>2 DEF Added
  <2>4. \A i \in 1 .. Len(Columns) : Used(i) = Added + 0
    BY <2>2 DEF Used
  <2> QED BY <1>3, <2>3, <2>4
<1>11. \A c \in ColumnSet : ch[Field(c)] = << >>
  <2> SUFFICES ASSUME NEW c \in ColumnSet PROVE ch[Field(c)] = << >>
    OBVIOUS
  <2>1. ch[Field(c)] \in Seq(Bytes) /\ Tuples + Len(ch[Field(c)]) = Tuples
    BY <1>9 DEF IInv, Inner, Behind, FieldInv
  <2> QED BY <1>3, <2>1
<1>12. \A c \in ColumnSet : ch[Native(c)] = << >>
  <2> SUFFICES ASSUME NEW c \in ColumnSet PROVE ch[Native(c)] = << >>
    OBVIOUS
  <2>1. PICK i \in 1 .. Len(Columns) : Columns[i] = c
    BY ConsumerOnce
  <2>2. ch[Native(c)] \in Seq(Bytes) /\ Tuples + Len(ch[Native(c)]) = Tuples
    BY <1>9, <1>10, <2>1 DEF IInv, Inner, Behind, NativeInv
  <2> QED BY <1>3, <2>2
<1>13. \A s \in Streams : s # Byte => ch[s] = << >>
  BY <1>6, <1>7, <1>8, <1>11, <1>12 DEF Streams
<1>14. \A p \in Processes : hold[p] = NoToken
  BY <1>2 DEF Processes
<1> QED BY <1>4, <1>5, <1>10, <1>13, <1>14

\* q6 calls q6_paged for the next page.
LEMMA NextPageStep == IInv /\ NextPage => IInv'
<1> SUFFICES ASSUME IInv, NextPage PROVE IInv'
  OBVIOUS
<1>1. /\ page < PAGES /\ PageDone /\ page' = page + 1
      /\ hdr' = HdrStart /\ flt' = FltStart /\ conv' = ConvStart /\ aggr' = AggStart
      /\ UNCHANGED <<block, feedVars, hold, ch, sums>>
  BY DEF NextPage
<1>2. /\ p2p' = p2p /\ me' = me /\ counts' = counts /\ inStream' = inStream /\ word' = word /\ dealt' = dealt
      /\ hold' = hold /\ ch' = ch /\ sums' = sums
  BY <1>1 DEF block, feedVars
<1>3. page \in Nat \ {0} /\ page' \in 1 .. PAGES /\ PAGES \in Nat /\ PAGE_SZ \in Nat /\ page' - 1 = page
  BY <1>1, Sizes DEF IInv, Basics
<1>4. /\ (\A p \in Processes : hold[p] = NoToken) /\ (\A s \in Streams : s # Byte => ch[s] = << >>)
      /\ ToTake = page * PAGE_SZ
  BY <1>1, PageEnd
<1>5. Basics'
  BY <1>1, <1>2, <1>3 DEF IInv, Basics, ConvStart
<1>6. \A p, t : Expected(p, t)' = Expected(p, t)
  BY <1>2 DEF Expected, HDR
<1>7. PageStart'
  <2>1. FltStart' = FltStart /\ flt' = FltStart'
    BY <1>1, <1>2 DEF FltStart, HDR
  <2>2. hdr' = HdrStart' /\ conv' = ConvStart' /\ aggr' = AggStart'
    BY <1>1 DEF HdrStart, ConvStart, AggStart
  <2>3. /\ sums' \in [1 .. PAGES -> Seq(Seq(Bytes))]
        /\ \A p \in 1 .. page' - 1 : \A t \in 1 .. Len(sums'[p]) : sums'[p][t] = Expected(p, t)'
        /\ \A p \in page' .. PAGES : sums'[p] = << >>
    BY <1>1, <1>2, <1>3, <1>6 DEF IInv, Inner, Behind, SumsInv
  <2> QED BY <1>2, <1>4, <1>5, <2>1, <2>2, <2>3 DEF PageStart
<1>8. HdrInv' /\ Inner' /\ HdrTook' = 0
  BY <1>7, StartInvNext
<1>9. ToTake' = ToTake
  <2>1. ToTake' = (page' - 1) * PAGE_SZ + 0
    BY <1>8 DEF ToTake
  <2> DEFINE z == page * PAGE_SZ
  <2>2. z \in Int
    BY <1>3, Z3
  <2>3. ToTake' = z + 0 /\ ToTake = z
    BY <1>3, <1>4, <2>1
  <2> HIDE DEF z
  <2> QED BY <2>2, <2>3
<1>10. ToWrite' = ToWrite /\ \A x : WordOf(x)' = WordOf(x) /\ ByteOf(x)' = ByteOf(x)
  BY <1>2, <1>9 DEF ToWrite, WordOf, ByteOf
<1>11. ToRead' = ToRead /\ ToDeal' = ToDeal
  BY <1>2, <1>10 DEF ToRead, ToDeal
<1>12. ReaderInv' /\ WordInv' /\ ByteInv'
  BY <1>2, <1>9, <1>10, <1>11 DEF IInv, ReaderInv, WordInv, ByteInv
<1>13. Bounded'
  BY <1>2 DEF IInv, Bounded, Depth, Paged
<1> QED BY <1>5, <1>8, <1>12, <1>13 DEF IInv

---------------------------------------------------------------------------
(* The theorems *)

LEMMA InitInv == Init => IInv
<1> SUFFICES ASSUME Init PROVE IInv
  OBVIOUS
<1>1. /\ p2p \in BOOLEAN /\ counts \in PageCounts /\ me \in Units /\ dealt = 0 /\ inStream = [u \in Units |-> << >>]
      /\ word = [w |-> NoToken, j |-> 0] /\ page = 1 /\ hold = [p \in Processes |-> NoToken]
      /\ hdr = HdrStart /\ flt = FltStart /\ conv = ConvStart /\ aggr = AggStart
      /\ ch = [s \in Streams |-> << >>] /\ sums = [p \in 1 .. PAGES |-> << >>]
  BY DEF Init
<1>2. PAGES \in Nat \ {0} /\ IN_DEPTH \in Nat /\ WORD_SZ \in Nat \ {0} /\ PAGE_SZ \in Nat /\ STREAM_DEPTH \in Nat
  BY Sizes
<1>3. Basics
  BY <1>1, <1>2 DEF Basics, ConvStart
<1>4. PageStart
  <2>1. << >> \in Seq(Seq(Bytes)) /\ sums \in [1 .. PAGES -> Seq(Seq(Bytes))]
    BY <1>1
  <2> QED BY <1>1, <1>3, <2>1 DEF PageStart
<1>5. HdrInv /\ Inner /\ HdrTook = 0
  BY <1>4, StartInv
<1>6. ch[Byte] = << >> /\ inStream[me] = << >> /\ Len(<< >>) = 0 /\ << >> \in Seq(Bytes) /\ << >> \in Seq(Int)
  BY <1>1, StreamNames
<1>7. ToTake = 0 /\ ToWrite = 0
  <2>1. (page - 1) * PAGE_SZ = 0
    <3>1. page - 1 = 0 /\ 0 * PAGE_SZ = 0
      BY <1>1, <1>2
    <3> QED BY <3>1
  <2> QED BY <1>5, <1>6, <2>1 DEF ToTake, ToWrite
<1>8. 0 \div WORD_SZ = 0 /\ 0 % WORD_SZ = 0
  <2>1. WORD_SZ * 0 + 0 = 0 /\ 0 \in 0 .. WORD_SZ - 1
    BY <1>2
  <2>2. (WORD_SZ * 0 + 0) \div WORD_SZ = 0 /\ (WORD_SZ * 0 + 0) % WORD_SZ = 0
    BY <1>2, <2>1, ModIs
  <2> QED BY <2>1, <2>2
<1>9. ToRead = 0 /\ ToDeal = 0
  BY <1>1, <1>6, <1>7, <1>8 DEF ToRead, ToDeal
<1>10. WordInv
  BY <1>1, <1>7, <1>8 DEF WordInv
<1>11. ByteInv
  BY <1>6 DEF ByteInv
<1>12. ReaderInv
  <2>1. WordOf(0) \in Nat
    BY <1>1, WordOrder
  <2>2. NUM_WORDS \in Nat
    <3>1. NUM_PU \in Nat /\ PAGES \in Nat /\ WORDS_PER_PAGE \in Nat
      BY Sizes
    <3> QED BY <3>1, Z3 DEF NUM_WORDS
  <2>3. dealt \in 0 .. NUM_WORDS /\ dealt <= WordOf(ToDeal) /\ 0 .. ToDeal - 1 = {}
    BY <1>1, <1>9, <2>1, <2>2
  <2>4. inStream \in [Units -> Seq(Int)]
    BY <1>1, <1>6
  <2> QED BY <1>6, <2>3, <2>4 DEF ReaderInv
<1>13. Bounded
  <2>1. \A s \in Streams : Depth(s) \in Nat /\ ch[s] = << >>
    BY <1>1, <1>2 DEF Depth
  <2>2. \A u \in Units : inStream[u] = << >>
    BY <1>1
  <2> QED BY <1>2, <1>6, <2>1, <2>2 DEF Bounded
<1> QED BY <1>3, <1>5, <1>10, <1>11, <1>12, <1>13 DEF IInv

\* Every step keeps the invariant.
LEMMA NextInv == IInv /\ [Next]_vars => IInv'
<1> SUFFICES ASSUME IInv, [Next]_vars PROVE IInv'
  OBVIOUS
<1>1. CASE Next
  BY <1>1, DealStep, OtherTakesStep, WordReadStep, ByteWriteStep, HeadReadStep, CountWriteStep, PassReadStep,
     PassWriteStep, TuplesWriteStep, TuplesWrittenStep, RestWriteStep, FilterCountStep, FieldSkipStep,
     FieldReadStep, FieldWriteStep, SkipStep, FilterDoneStep, ConvCountStep, ConvReadStep, ConvWriteStep,
     AggCountStep, AggReadStep, AggEopStep, NextPageStep DEF Next
<1>2. CASE UNCHANGED vars
  <2>1. /\ UNCHANGED <<block, feedVars, page, hdr, flt, conv, aggr, hold, ch, sums>>
        /\ inStream' = inStream /\ word' = word /\ dealt' = dealt /\ me' = me
    BY <1>2 DEF vars, block, feedVars
  <2>2. Basics' /\ HdrInv' /\ Inner' /\ ToTake' = ToTake
    BY <2>1, KeepPage DEF IInv, Basics
  <2>3. ToWrite' = ToWrite /\ ByteInv'
    BY <2>1, <2>2, KeepBytes DEF IInv
  <2>4. ReaderInv' /\ WordInv'
    BY <2>1, <2>3, KeepReader DEF IInv
  <2>5. Bounded'
    BY <2>1, Steady DEF IInv, Bounded
  <2> QED BY <2>2, <2>3, <2>4, <2>5 DEF IInv
<1> QED BY <1>1, <1>2

\* In every reachable state each byte, field and value on its way through the unit has the
\* number its place in the streams gives it, and the counters of the processes agree with
\* what the streams hold (q6_paged.cpp, its dataflow region).
THEOREM Inductive == Spec => []IInv
BY InitInv, NextInv, PTL DEF Spec

\* No stream of the kernel holds more than its depth and every loop counter keeps to its
\* bound, for every depth of the streams (q6_paged.cpp: the depth pragmas of q6_paged and
\* flowWrap, the loops of its processes).
THEOREM TypeCorrect == Spec => []TypeOK
<1>1. IInv => TypeOK
  <2> SUFFICES ASSUME IInv PROVE TypeOK
    OBVIOUS
  <2>1. /\ p2p \in BOOLEAN /\ page \in 1 .. PAGES /\ dealt \in 0 .. NUM_WORDS
        /\ \A u \in Units : Len(inStream[u]) <= IN_DEPTH
        /\ \A s \in Streams : Len(ch[s]) <= Depth(s)
        /\ hdr.i \in 0 .. PAGE_SZ
    BY DEF IInv, Basics, ReaderInv, Bounded, HdrInv
  <2>2. Tuples \in Nat /\ Tuples <= PAGE_SZ /\ PAGE_SZ \in Nat
    BY PageFacts, Sizes DEF IInv
  <2>3. flt.t \in 0 .. Tuples /\ aggr.n \in 0 .. Tuples /\ \A c \in ColumnSet : conv[c].n \in 0 .. Tuples
    BY DEF IInv, Inner, Behind, FltInv, AggInv, ConvInv
  <2>4. flt.pgOff \in Nat /\ flt.pgOff <= Passed /\ Passed \in Nat /\ Passed <= PAGE_SZ
    BY Counters
  <2>5. flt.t \in 0 .. PAGE_SZ /\ aggr.n \in 0 .. PAGE_SZ /\ flt.pgOff \in 0 .. PAGE_SZ
    BY <2>2, <2>3, <2>4
  <2>6. \A c \in ColumnSet : conv[c].n \in 0 .. PAGE_SZ
    BY <2>2, <2>3
  <2> QED BY <2>1, <2>5, <2>6 DEF TypeOK
<1> QED BY <1>1, Inductive, PTL

\* agg never combines columns of different tuples, nor tuples of another unit's page: row t
\* of page p of a unit is tuple t of the page of the block that is its p-th, whatever the
\* interleaving of the processes and the depths of the streams (q6_paged.cpp, read and agg).
THEOREM RowsAlignedHolds == Spec => []RowsAligned
<1>1. IInv => RowsAligned
  BY DEF IInv, Inner, Behind, SumsInv, RowsAligned
<1> QED BY <1>1, Inductive, PTL

\* When q6_paged returns, all tuples of its page have been aggregated, the streams inside it
\* are empty, and the next byte for the unit is the first of its next page (q6_paged.cpp, q6).
THEOREM PageUsedUpHolds == Spec => []PageUsedUp
<1>1. IInv => PageUsedUp
  <2> SUFFICES ASSUME IInv, PageDone
               PROVE  /\ Len(sums[page]) = counts[page]
                      /\ \A s \in Streams \ {Byte} : ch[s] = << >>
                      /\ LET next == page * NUM_PU * PAGE_SZ + me * PAGE_SZ
                             first == IF ch[Byte] # << >> THEN PAGE_SZ * ch[Byte][1][1] + ch[Byte][1][2] - 1
                                      ELSE IF word.w # NoToken THEN word.w[1] * WORD_SZ + word.j
                                      ELSE IF inStream[me] # << >> THEN Head(inStream[me]) * WORD_SZ ELSE next
                         IN  first = next
    BY DEF PageUsedUp
  <2> DEFINE next == page * NUM_PU * PAGE_SZ + me * PAGE_SZ
  <2> DEFINE b == page * NUM_PU + me
  <2>1. /\ \A s \in Streams : s # Byte => ch[s] = << >>
        /\ HdrTook = PAGE_SZ /\ ToTake = page * PAGE_SZ /\ Added = Tuples
    BY PageEnd
  <2>2. Len(sums[page]) = counts[page]
    BY <2>1 DEF IInv, Inner, Behind, SumsInv, Tuples
  <2>3. /\ page \in Nat /\ me \in Nat /\ me \in Units /\ NUM_PU \in Nat /\ PAGE_SZ \in Nat \ {0} /\ WORD_SZ \in Nat \ {0}
        /\ ToTake \in Nat /\ ToWrite \in Nat /\ ToWrite = ToTake + Len(ch[Byte])
    BY Sizes, Numbers DEF IInv, Basics, Units
  <2>4. b \in Nat /\ next = PAGE_SZ * b
    BY <2>3, Z3
  <2>5. ByteOf(ToTake) = <<b, 1>>
    <3>0. 0 \in 0 .. PAGE_SZ - 1
      BY <2>3
    <3>1. ByteOf(page * PAGE_SZ + 0) = <<page * NUM_PU + me, 0 + 1>>
      BY <2>3, <3>0, ByteOfPage, Zenon
    <3>2. page * PAGE_SZ + 0 = ToTake
      BY <2>1, <2>3
    <3> QED BY <3>1, <3>2
  <2> HIDE DEF b, next
  <2>6. ASSUME ch[Byte] # << >> PROVE PAGE_SZ * ch[Byte][1][1] + ch[Byte][1][2] - 1 = next
    <3>1. ch[Byte][1] = ByteOf(ToTake)
      <4>1. 1 \in 1 .. Len(ch[Byte]) /\ ToTake + 1 - 1 = ToTake
        BY <2>3, <2>6 DEF IInv, ByteInv
      <4> QED BY <4>1 DEF IInv, ByteInv
    <3>2. PAGE_SZ * b + 1 - 1 = PAGE_SZ * b
      BY <2>3, <2>4, Z3
    <3> QED BY <2>4, <2>5, <3>1, <3>2
  <2>7. ASSUME ch[Byte] = << >>
        PROVE  /\ ToWrite = ToTake
               /\ WordOf(ToTake \div WORD_SZ) * WORD_SZ + (ToTake % WORD_SZ) = next
    <3>1. ToWrite = ToTake
      BY <2>3, <2>7
    <3> DEFINE k == ToTake \div WORD_SZ
    <3> DEFINE j == ToTake % WORD_SZ
    <3> DEFINE a == WordOf(k) * WORD_SZ + j
    <3>2. k \in Nat /\ j \in 0 .. WORD_SZ - 1
      BY <2>3, NextByte
    <3>3. <<a \div PAGE_SZ, (a % PAGE_SZ) + 1>> = <<b, 1>>
      BY <2>3, <2>5, ByteOfWord
    <3> HIDE DEF k, j
    <3>4. a \in Nat
      <4>1. WordOf(k) \in Nat
        BY <2>3, <3>2, WordOrder
      <4> QED BY <2>3, <3>2, <4>1, Z3
    <3> HIDE DEF a
    <3>5. a \div PAGE_SZ = b /\ a % PAGE_SZ \in Int /\ (a % PAGE_SZ) + 1 = 1 /\ a = PAGE_SZ * (a \div PAGE_SZ) + (a % PAGE_SZ)
      BY <2>3, <3>3, <3>4, DivNat
    <3>6. a % PAGE_SZ = 0
      BY <3>5
    <3>7. a = PAGE_SZ * b + 0
      BY <3>5, <3>6
    <3>8. a = next
      BY <2>3, <2>4, <3>7
    <3> QED BY <3>1, <3>8 DEF a, k, j
  <2>8. ASSUME ch[Byte] = << >>, word.w # NoToken PROVE word.w[1] * WORD_SZ + word.j = next
    <3>1. word = [w |-> <<WordOf(ToTake \div WORD_SZ)>>, j |-> ToTake % WORD_SZ]
      BY <2>7, <2>8 DEF IInv, WordInv
    <3>2. word.w[1] = WordOf(ToTake \div WORD_SZ) /\ word.j = ToTake % WORD_SZ
      BY <3>1
    <3> QED BY <2>7, <2>8, <3>2
  <2>9. ASSUME ch[Byte] = << >>, word.w = NoToken, inStream[me] # << >> PROVE Head(inStream[me]) * WORD_SZ = next
    <3>1. ToTake % WORD_SZ = 0 /\ ToWrite = ToTake
      BY <2>7, <2>9 DEF IInv, WordInv
    <3>2. ToRead = ToTake \div WORD_SZ /\ ToRead \in Nat
      <4>1. ToRead = (ToTake \div WORD_SZ) + 0 /\ ToTake \div WORD_SZ \in Nat
        BY <2>3, <2>9, <3>1, NextByte DEF ToRead
      <4> QED BY <4>1
    <3>3. Head(inStream[me]) = WordOf(ToRead)
      <4>1. inStream[me] \in Seq(Int)
        BY <2>3 DEF IInv, ReaderInv
      <4>2. Head(inStream[me]) = inStream[me][1] /\ 1 \in 1 .. Len(inStream[me]) /\ ToRead + 1 - 1 = ToRead
        BY <2>9, <3>2, <4>1
      <4> QED BY <4>2 DEF IInv, ReaderInv
    <3>4. WordOf(ToRead) \in Nat
      BY <2>3, <3>2, WordOrder
    <3> DEFINE z == WordOf(ToRead) * WORD_SZ
    <3>5. z \in Int
      BY <2>3, <3>4, Z3
    <3>6. z + 0 = next
      BY <2>7, <2>9, <3>1, <3>2
    <3>7. Head(inStream[me]) * WORD_SZ = z
      BY <3>3
    <3> HIDE DEF z
    <3> QED BY <3>5, <3>6, <3>7
  <2> QED BY <2>1, <2>2, <2>6, <2>8, <2>9 DEF next
<1> QED BY <1>1, Inductive, PTL

===========================================================================
