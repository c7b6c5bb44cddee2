----------------------------- MODULE OmxGather -----------------------------
(***************************************************************************)
(* The gather design on one block of lookups: main with its options, the   *)
(* layout of the database over HBM banks and the addresses it computes     *)
(* from the lookups, and the dataflow network of the kernel (gather).      *)
(*                                                                         *)
(* main splits the database A into one part per bank and turns lookup r    *)
(* into an address that is to reach row r whatever the options.  In the    *)
(* kernel bursts of addresses are dealt out to STREAM lanes, each lane     *)
(* reads two words per address from the memory behind its first argument,  *)
(* and the answers are collected into bursts again.  Streams are bounded   *)
(* FIFOs.  Unrolled loops read and write all of their streams at once.     *)
(*                                                                         *)
(* Rows of A are 8 bytes; sizes are counted in rows.  The loop over blocks *)
(* is in OmxPingPong.                                                      *)
(***************************************************************************)
EXTENDS Integers, Sequences, FiniteSets

CONSTANTS
  Rows,          \* rows and arrayu: rows of A (64M in the code)
  BankRows,      \* rows an HBM bank holds: MAX_DDR_SIZE (32M in the code)
  CommandLines,  \* options considered, records of
                 \*   sw_emu, p_ch, hbmNum, pu: the program's options,
                 \*   IN_ENTRIES: IN_ENTRIES_PER_BURST of the kernel built (8, 16 or 32)
  MAX_STREAM,    \* lanes built: NUM_PU (16 in the code)
  Work,          \* totalInWork: lookups of a block (256K in the code)
  DEPTH,         \* capacity of a stream (64 in the code)
  Lookups        \* blocks of lookups considered, sequences of row numbers

ASSUME GatherAssumption ==
  /\ Rows \in Nat \ {0} /\ BankRows \in Nat \ {0} /\ MAX_STREAM \in Nat \ {0}
  /\ Work \in Nat \ {0} /\ DEPTH \in Nat \ {0}
  /\ \A o \in CommandLines :
       /\ o.sw_emu \in BOOLEAN /\ o.p_ch \in 0 .. 1 /\ o.hbmNum \in Nat /\ o.pu \in 0 .. MAX_STREAM
       \* Powers of two, as is the size of a block.
       /\ o.IN_ENTRIES \in {2, 4, 8, 16, 32} /\ Work % o.IN_ENTRIES = 0
       /\ o.pu \in {1, 2, 4, 8, 16} => Work % o.pu = 0
  /\ Lookups \subseteq [1 .. Work -> 0 .. Rows - 1]

MAX_HBM_BANKCOUNT == 32
IN_HBM_BANKCOUNT_IDX == 8
mNoDdrA == 16

\* banks[] has 32 entries, of which the first 20 name a bank.
NamedBanks == 0 .. 19

\* The streams that can be selected, in the order the kernel tests them.
StreamMasks == <<1, 2, 4, 8, 16>>

Lanes == 0 .. MAX_STREAM - 1
OUT_IN_RATIO == 2

VARIABLES
  opt,                       \* options
  pc,                        \* where main is
  opmode,                    \* kernel argument: buffer selection and streams
  in,                        \* lookups of the block
  inbuf,                     \* inbuf[b]: addresses in input buffer b
  base,                      \* base[i]: address of part i of A, relative to argument ddr
  burstsRead,                \* gatherReadInBurst: bursts read
  inBurst,                   \* inBurstStream
  dist,                      \* gatherReadIn_Template: burst_count, burst, i
  din, lane, dout,           \* lanes: dinstream, loop and item, both dout streams
  coll,                      \* gatherWriteOut_Template: burst_count, dout
  outBurst,                  \* outBurstStream
  outbuf                     \* outbuf[b]: words of output buffer b written

options == <<opt, in>>
setup == <<options, opmode, inbuf, base>>
vars == <<options, pc, opmode, inbuf, base, burstsRead, inBurst, dist, din, lane, dout, coll,
          outBurst, outbuf>>

sw_emu == opt.sw_emu
p_ch == opt.p_ch
hbmNum == opt.hbmNum
pu == opt.pu
IN_ENTRIES == opt.IN_ENTRIES
OUT_ENTRIES == IN_ENTRIES \div OUT_IN_RATIO
totalInBurst == Work \div IN_ENTRIES

\* Mutant: as many bursts out as in.
totalOutBurstIn == Work \div IN_ENTRIES

totalOutBurst == (OUT_IN_RATIO * Work) \div IN_ENTRIES

kernelVars == <<burstsRead, inBurst, dist, din, lane, dout, coll, outBurst, outbuf>>

NoBurst == << >>
Elsewhere == -1

Init ==
  /\ opt \in CommandLines
  /\ in \in Lookups
  /\ pc = "options" /\ opmode = 0
  /\ inbuf = [b \in 0 .. 1 |-> << >>] /\ base = << >>
  /\ burstsRead = 0 /\ inBurst = << >>
  /\ dist = [burst_count |-> 0, burst |-> NoBurst, i |-> 0]
  /\ din = [u \in Lanes |-> << >>]
  /\ lane = [u \in Lanes |-> [i |-> 0, item |-> << >>]]
  /\ dout = [u \in Lanes |-> << >>]
  /\ coll = [burst_count |-> 0, dout |-> << >>]
  /\ outBurst = << >>
  /\ outbuf = [b \in 0 .. 1 |-> << >>]

---------------------------------------------------------------------------
(* main: options *)

PowerOfTwo(n) == \E k \in 0 .. 30 : n = 2 ^ k

\* A power of two too, so that the parts of A are of one size.
ASSUME RowsAssumption ==
  \A o \in CommandLines :
    0 < o.hbmNum /\ o.hbmNum <= MAX_HBM_BANKCOUNT /\ PowerOfTwo(o.hbmNum) => Rows % o.hbmNum = 0

\* Banks with the in and out buffers count half.
UsableRows == IF hbmNum > IN_HBM_BANKCOUNT_IDX THEN BankRows \div 2 ELSE BankRows

HBMBankCount_valid ==
  /\ 0 < hbmNum /\ hbmNum <= MAX_HBM_BANKCOUNT /\ PowerOfTwo(hbmNum)
  /\ hbmNum * UsableRows >= Rows

StreamValid == \E x \in 1 .. Len(StreamMasks) : pu = StreamMasks[x]

Refuse ==
  /\ pc = "options" /\ ~(HBMBankCount_valid /\ StreamValid)
  /\ pc' = "refused"
  /\ UNCHANGED <<setup, kernelVars>>

perInterDbIndx == Rows \div hbmNum

\* Mutant: the stride does not depend on the pseudo channels.
hbmIndxFixed == BankRows

\* From the start of a part to the start of the next one.
hbmIndx == IF p_ch = 1 THEN BankRows ELSE 2 * BankRows

\* The address of row r.
in_mapp(r) ==
  IF sw_emu THEN r
  ELSE LET flag == r \div perInterDbIndx IN r + flag * (hbmIndx - perInterDbIndx)

\* The lookups go to the buffer of this block, ping or pong; bits 0 and 1 of
\* the operation mode say which, the bits above give the streams.
Accept ==
  /\ pc = "options" /\ HBMBankCount_valid /\ StreamValid
  /\ \E ping \in 0 .. 1 :
       /\ opmode' = 4 * pu + 3 * ping
       /\ inbuf' = [inbuf EXCEPT ![ping] = [k \in 1 .. Work |-> in_mapp(in[k])]]
  /\ pc' = "context"
  /\ UNCHANGED <<options, base, kernelVars>>

\* OclAccel::connectPlatform: platform, device and context, then the program, then
\* kernel and queue.
Connected(stage, next) == pc = stage /\ pc' = next /\ UNCHANGED <<setup, kernelVars>>

createContext == Connected("context", "program")
createProgram == Connected("program", "commands")
connectPlatform == Connected("commands", "layout")

\* Any of its calls may fail; main then returns and clears nothing.
ConnectFails == \E stage \in {"context", "program", "commands"} : Connected(stage, "ended")

---------------------------------------------------------------------------
(* main: layout *)

Parts == IF sw_emu THEN 0 .. 0 ELSE 0 .. hbmNum - 1
PartRows == IF sw_emu THEN Rows ELSE Rows \div hbmNum

\* The entry of banks[] that buffer i asks for.
BankOf(i) == IF p_ch = 1 THEN i ELSE 2 * i

\* More banks than mDdrBuf, mDdrClMem and mBankMem have entries: they are
\* overrun, and what follows is undefined.
Overrun ==
  /\ pc = "layout" /\ ~sw_emu /\ hbmNum > mNoDdrA
  /\ pc' = "undefined"
  /\ UNCHANGED <<setup, kernelVars>>

\* The parts are created and filled.  The first buffer of a bank is at its
\* start; without a bank the runtime chooses a place.
PlaceBuffers ==
  /\ pc = "layout" /\ (sw_emu \/ hbmNum <= mNoDdrA)
  /\ base' = [i \in Parts |-> IF sw_emu THEN 0
                              ELSE IF BankOf(i) \in NamedBanks THEN BankOf(i) * BankRows
                              ELSE Elsewhere]
  /\ pc' = "kernel"
  /\ UNCHANGED <<options, opmode, inbuf, kernelVars>>

\* createBuf fails for a part: main does not look at it and copies A to a pointer
\* that was never set; what follows is undefined.
BufferFails ==
  /\ pc = "layout" /\ (sw_emu \/ hbmNum <= mNoDdrA)
  /\ pc' = "undefined"
  /\ UNCHANGED <<setup, kernelVars>>

\* The transfer of the parts to the device cannot be enqueued: main returns.
MigrateFails ==
  /\ pc = "layout" /\ (sw_emu \/ hbmNum <= mNoDdrA)
  /\ pc' = "ended"
  /\ UNCHANGED <<setup, kernelVars>>

\* The row of A at an address, if a part is there.
Holds(i, a) == base[i] # Elsewhere /\ a - base[i] \in 0 .. PartRows - 1
Cell(a) ==
  IF \E i \in Parts : Holds(i, a)
  THEN LET i == CHOOSE j \in Parts : Holds(j, a) IN i * PartRows + a - base[i]
  ELSE Elsewhere

---------------------------------------------------------------------------
(* The kernel *)

Bit(x, n) == (x \div n) % 2
inSel == Bit(opmode, 1)
outSel == Bit(opmode, 2)

\* The template instance chosen by the operation mode, and the number of lanes.
STREAM == LET x == CHOOSE j \in 1 .. Len(StreamMasks) :
                     /\ Bit(opmode, 4 * StreamMasks[j]) = 1
                     /\ \A l \in 1 .. j - 1 : Bit(opmode, 4 * StreamMasks[l]) = 0
          IN  StreamMasks[x]

opmode_stream == opmode \div 4

Running == pc = "kernel"

\* gatherReadInBurst
ReadInBurst ==
  /\ Running /\ burstsRead < totalInBurst /\ Len(inBurst) < DEPTH
  /\ inBurst' = Append(inBurst, SubSeq(inbuf[inSel], burstsRead * IN_ENTRIES + 1,
                                       (burstsRead + 1) * IN_ENTRIES))
  /\ burstsRead' = burstsRead + 1
  /\ UNCHANGED <<setup, pc, dist, din, lane, dout, coll, outBurst, outbuf>>

\* gatherReadIn_Template: the next burst ...
DistRead ==
  /\ Running /\ dist.burst_count < totalInBurst /\ dist.burst = NoBurst /\ inBurst # << >>
  /\ dist' = [dist EXCEPT !.burst = Head(inBurst), !.i = 0]
  /\ inBurst' = Tail(inBurst)
  /\ UNCHANGED <<setup, pc, burstsRead, din, lane, dout, coll, outBurst, outbuf>>

\* Mutant: every burst goes to the first lanes.
DistLaneFirst(idx) == idx

\* Mutant: bursts go round all the lanes that are built.
DistLaneAll(idx) ==
  IF STREAM <= IN_ENTRIES THEN idx
  ELSE (dist.burst_count % (MAX_STREAM \div IN_ENTRIES)) * IN_ENTRIES + idx

\* ... its entry idx of this cycle goes to a lane ...
DistLane(idx) ==
  IF STREAM <= IN_ENTRIES THEN idx
  ELSE (dist.burst_count % (STREAM \div IN_ENTRIES)) * IN_ENTRIES + idx

Width == IF STREAM <= IN_ENTRIES THEN STREAM ELSE IN_ENTRIES

\* ... as many in one cycle as there are lanes.
DistWrite ==
  /\ Running /\ dist.burst # NoBurst
  /\ LET to == {DistLane(idx) : idx \in 0 .. Width - 1}
     IN  /\ \A u \in to : Len(din[u]) < DEPTH
         /\ din' = [u \in Lanes |->
              IF u \in to
              THEN Append(din[u],
                          dist.burst[dist.i * STREAM
                                      + (CHOOSE idx \in 0 .. Width - 1 : DistLane(idx) = u) + 1])
              ELSE din[u]]
  /\ dist' = IF (dist.i + 1) * Width < IN_ENTRIES THEN [dist EXCEPT !.i = @ + 1]
             ELSE [burst_count |-> dist.burst_count + 1, burst |-> NoBurst, i |-> 0]
  /\ UNCHANGED <<setup, pc, burstsRead, inBurst, lane, dout, coll, outBurst, outbuf>>

\* readA: lanes that take part, and lookups of each.
Go(u) == u < opmode_stream
totalWork == Work \div STREAM

\* The word at an address of the memory: column c of a row.
WordAt(w) == <<Cell(w \div 2), IF w % 2 = 0 THEN "measure" ELSE "group">>

\* One burst is read, two of its words are used.
Fetch(addrA) ==
  LET burst == 2 * OUT_ENTRIES * (addrA \div OUT_ENTRIES)
      offset == 2 * (addrA % OUT_ENTRIES)
  IN  <<WordAt(burst + offset), WordAt(burst + offset + 1)>>

\* readAWork reads an address and the memory ...
LaneRead(u) ==
  /\ Running /\ Go(u) /\ lane[u].i < totalWork /\ lane[u].item = << >> /\ din[u] # << >>
  /\ lane' = [lane EXCEPT ![u].item = Fetch(Head(din[u]))]
  /\ din' = [din EXCEPT ![u] = Tail(@)]
  /\ UNCHANGED <<setup, pc, burstsRead, inBurst, dist, dout, coll, outBurst, outbuf>>

\* ... and writes both words.
LaneWrite(u) ==
  /\ Running /\ lane[u].item # << >> /\ Len(dout[u]) < DEPTH
  /\ dout' = [dout EXCEPT ![u] = Append(@, lane[u].item)]
  /\ lane' = [lane EXCEPT ![u] = [i |-> @.i + 1, item |-> << >>]]
  /\ UNCHANGED <<setup, pc, burstsRead, inBurst, dist, din, coll, outBurst, outbuf>>

\* gatherWriteOut_Template: entry idx of this cycle comes from a lane.
CollLane(idx) ==
  IF STREAM <= OUT_ENTRIES THEN idx
  ELSE (coll.burst_count % (STREAM \div OUT_ENTRIES)) * OUT_ENTRIES + idx

CollWidth == IF STREAM <= OUT_ENTRIES THEN STREAM ELSE OUT_ENTRIES

CollRead ==
  /\ Running /\ coll.burst_count < totalOutBurst /\ Len(coll.dout) < OUT_ENTRIES
  /\ LET from == {CollLane(idx) : idx \in 0 .. CollWidth - 1}
     IN  /\ \A u \in from : dout[u] # << >>
         /\ dout' = [u \in Lanes |-> IF u \in from THEN Tail(dout[u]) ELSE dout[u]]
  /\ coll' = [coll EXCEPT !.dout = @ \o [k \in 1 .. CollWidth |-> Head(dout[CollLane(k - 1)])]]
  /\ UNCHANGED <<setup, pc, burstsRead, inBurst, dist, din, lane, outBurst, outbuf>>

CollWrite ==
  /\ Running /\ Len(coll.dout) = OUT_ENTRIES /\ Len(outBurst) < DEPTH
  /\ outBurst' = Append(outBurst, coll.dout)
  /\ coll' = [burst_count |-> coll.burst_count + 1, dout |-> << >>]
  /\ UNCHANGED <<setup, pc, burstsRead, inBurst, dist, din, lane, dout, outbuf>>

\* gatherWriteOutResult
OutBursts == Len(outbuf[outSel]) \div OUT_ENTRIES

WriteOutResult ==
  /\ Running /\ OutBursts < totalOutBurst /\ outBurst # << >>
  /\ outbuf' = [outbuf EXCEPT ![outSel] = @ \o Head(outBurst)]
  /\ outBurst' = Tail(outBurst)
  /\ UNCHANGED <<setup, pc, burstsRead, inBurst, dist, din, lane, dout, coll>>

\* Every process has left its loop: the kernel is done; main compares, clears
\* and ends.
KernelDone ==
  /\ burstsRead = totalInBurst /\ dist.burst_count = totalInBurst
  /\ \A u \in Lanes : Go(u) => lane[u].i = totalWork
  /\ coll.burst_count = totalOutBurst /\ OutBursts = totalOutBurst

Finish == Running /\ KernelDone /\ pc' = "ended" /\ UNCHANGED <<setup, kernelVars>>

Kernel ==
  \/ ReadInBurst \/ DistRead \/ DistWrite
  \/ \E u \in Lanes : LaneRead(u) \/ LaneWrite(u)
  \/ CollRead \/ CollWrite \/ WriteOutResult

Next ==
  \/ Refuse \/ Accept \/ createContext \/ createProgram \/ connectPlatform \/ ConnectFails
  \/ Overrun \/ BufferFails \/ PlaceBuffers \/ MigrateFails
  \/ Kernel \/ Finish

\* The host runs, and some process of the circuit that can move does.
Spec == Init /\ [][Next]_vars /\ WF_vars(Next)

---------------------------------------------------------------------------
(* Properties *)

\* No stream holds more than its depth, no loop runs beyond its count, and no
\* lane beyond the ones selected is used.
TypeOK ==
  /\ pc \in {"options", "refused", "context", "program", "commands", "layout", "undefined", "kernel",
            "ended"}
  /\ burstsRead \in 0 .. totalInBurst /\ Len(inBurst) <= DEPTH /\ Len(outBurst) <= DEPTH
  /\ dist.burst_count \in 0 .. totalInBurst /\ coll.burst_count \in 0 .. totalOutBurst
  /\ \A u \in Lanes : Len(din[u]) <= DEPTH /\ Len(dout[u]) <= DEPTH /\ lane[u].i \in 0 .. Work
  /\ \A u \in Lanes : ~Go(u) => din[u] = << >> /\ dout[u] = << >>
  /\ \A b \in 0 .. 1 : Len(outbuf[b]) \in 0 .. Work

\* Every part of A has a bank of its own.  With -hbm up to 16 this fails for
\* -pc 0 -hbm 16 alone: the layout then asks for banks that banks[] does not name.
Placed == \A i \in Parts : base[i] # Elsewhere

\* The gather is the indirection cIndirect computes: entry k of the result is row
\* in[k] of A, and at the end they are all there, for every accepted bank count,
\* with and without pseudo channels, for every number of lanes and burst width,
\* in every order the lanes may run; and the other output buffer stays as it is
\* (in_mapp, the layout in main, gather.cpp).
GatherIsIndirection ==
  pc \in {"kernel", "ended"} /\ base # << >> /\ Placed =>
    /\ \A k \in 1 .. Len(outbuf[outSel]) :
         outbuf[outSel][k] = <<<<in[k], "measure">>, <<in[k], "group">>>>
    /\ pc = "ended" => Len(outbuf[outSel]) = Work
    /\ outbuf[1 - outSel] = << >>

\* A kernel call leaves no word in a stream or a lane for the next call: what is
\* distributed, looked up and collected is counted in three different units
\* (totalInBurst, totalWork, totalOutBurst).
NothingLeft ==
  Running /\ KernelDone =>
    /\ inBurst = << >> /\ outBurst = << >>
    /\ \A u \in Lanes : din[u] = << >> /\ dout[u] = << >> /\ lane[u].item = << >>

\* The program comes to an end: no cycle of full and empty streams blocks the
\* kernel, whatever the lanes and the width of a burst.
ProgramEnds == <>(pc \in {"refused", "undefined", "ended"})

===========================================================================
