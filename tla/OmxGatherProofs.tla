-------------------------- MODULE OmxGatherProofs --------------------------
(***************************************************************************)
(* Proofs about OmxGather for every size of the database, of the banks, of *)
(* a block and of the streams, and every accepted combination of options:  *)
(* addresses reach the rows they stand for, and every lookup keeps its     *)
(* place on its way through bursts, lanes and bursts again.                *)
(*                                                                         *)
(* Lookups are counted from 0.  Lookup g goes through lane g % pu; in a    *)
(* lane its number is g \div pu.                                           *)
(***************************************************************************)
EXTENDS OmxGather, RingArith, SequenceTheorems

\* The address of lookup g, and what a lane fetches for it.
Addr(g) == in_mapp(in[g + 1])
Ans(g) == Fetch(Addr(g))

Numbers == 0 .. Work - 1
Addresses == {Addr(g) : g \in Numbers}
Answers == {Ans(g) : g \in Numbers}

\* Bursts of E entries over S lanes: the number of lanes served in one cycle, and the
\* first one served in a cycle of burst b.
Served(S, E) == IF S <= E THEN S ELSE E
First(S, E, b) == IF S <= E THEN 0 ELSE (b % (S \div E)) * E

\* Lookup number n of lane u.
LookupOf(u, n) == u + pu * n

\* Lookups handed to the lanes, taken by lane u, and collected from the lanes.
Dealt == dist.burst_count * IN_ENTRIES + dist.i * Served(pu, IN_ENTRIES)
Looking(u) == IF lane[u].item = << >> THEN 0 ELSE 1
Taken(u) == lane[u].i + Looking(u)
Collected == coll.burst_count * OUT_ENTRIES + Len(coll.dout)

---------------------------------------------------------------------------
(* The inductive invariant *)

\* What main has decided: the operation mode says which buffer and how many lanes.
Accepted ==
  /\ HBMBankCount_valid /\ StreamValid
  /\ \E ping \in 0 .. 1 :
       /\ opmode = 4 * pu + 3 * ping
       /\ inbuf[ping] = [k \in 1 .. Work |-> in_mapp(in[k])]

Laid ==
  /\ sw_emu \/ hbmNum <= mNoDdrA
  /\ base = [i \in Parts |-> IF sw_emu THEN 0
                             ELSE IF BankOf(i) \in NamedBanks THEN BankOf(i) * BankRows
                             ELSE Elsewhere]

\* The kernel has not started.
Fresh ==
  /\ burstsRead = 0 /\ inBurst = << >>
  /\ dist = [burst_count |-> 0, burst |-> NoBurst, i |-> 0]
  /\ din = [u \in Lanes |-> << >>]
  /\ lane = [u \in Lanes |-> [i |-> 0, item |-> << >>]]
  /\ dout = [u \in Lanes |-> << >>]
  /\ coll = [burst_count |-> 0, dout |-> << >>]
  /\ outBurst = << >>
  /\ outbuf = [b \in 0 .. 1 |-> << >>]

\* b has the addresses of burst n, w the answers of output burst n.
InBurstIs(b, n) == Len(b) = IN_ENTRIES /\ \A m \in 1 .. IN_ENTRIES : b[m] = Addr(n * IN_ENTRIES + m - 1)
OutBurstIs(w, n) == Len(w) = OUT_ENTRIES /\ \A m \in 1 .. OUT_ENTRIES : w[m] = Ans(n * OUT_ENTRIES + m - 1)

\* A burst is being dealt out.
Dealing == IF dist.burst = NoBurst THEN 0 ELSE 1

\* Bursts on their way in: those read are dealt out, under way or being dealt out.
BurstCounts ==
  /\ burstsRead \in 0 .. totalInBurst
  /\ inBurst \in Seq(Seq(Addresses)) /\ Len(inBurst) <= DEPTH
  /\ dist \in [burst_count : Nat, burst : Seq(Addresses), i : Nat]
  /\ dist.burst_count + Len(inBurst) + Dealing = burstsRead
  /\ dist.burst = NoBurst => dist.i = 0

BurstData ==
  /\ dist.burst # NoBurst => InBurstIs(dist.burst, dist.burst_count)
  /\ \A j \in 1 .. Len(inBurst) : InBurstIs(inBurst[j], burstsRead - Len(inBurst) + j - 1)

InCycle == dist.i * Served(pu, IN_ENTRIES) < IN_ENTRIES

BurstsIn == BurstCounts /\ BurstData /\ InCycle

LaneTypes ==
  /\ din \in [Lanes -> Seq(Addresses)]
  /\ lane \in [Lanes -> [i : Nat, item : Answers \cup {<< >>}]]
  /\ dout \in [Lanes -> Seq(Answers)]
  /\ \A u \in Lanes : Len(din[u]) <= DEPTH /\ Len(dout[u]) <= DEPTH
  /\ \A u \in Lanes : pu <= u => din[u] = << >> /\ dout[u] = << >> /\ lane[u] = [i |-> 0, item |-> << >>]

\* In front of lane u are its next lookups, up to those dealt out; the next one it
\* gets is among the next pu.
LaneIn(u) ==
  /\ Dealt <= LookupOf(u, Taken(u) + Len(din[u])) /\ LookupOf(u, Taken(u) + Len(din[u])) < Dealt + pu
  /\ \A j \in 1 .. Len(din[u]) : din[u][j] = Addr(LookupOf(u, Taken(u) + j - 1))

\* In the lane and behind it are the answers up to there, from the first one not
\* collected; that one is among the next pu.
LaneOut(u) ==
  /\ lane[u].item # << >> => lane[u].item = Ans(LookupOf(u, lane[u].i))
  /\ Len(dout[u]) <= lane[u].i
  /\ Collected <= LookupOf(u, lane[u].i - Len(dout[u]))
  /\ LookupOf(u, lane[u].i - Len(dout[u])) < Collected + pu
  /\ \A j \in 1 .. Len(dout[u]) : dout[u][j] = Ans(LookupOf(u, lane[u].i - Len(dout[u]) + j - 1))

LanesIn == \A u \in 0 .. pu - 1 : LaneIn(u)
LanesOut == \A u \in 0 .. pu - 1 : LaneOut(u)

\* Bursts on their way out.
Gathering ==
  /\ coll \in [burst_count : 0 .. totalOutBurst, dout : Seq(Answers)]
  /\ Len(coll.dout) <= OUT_ENTRIES /\ Len(coll.dout) % Served(pu, OUT_ENTRIES) = 0
  /\ coll.burst_count = totalOutBurst => coll.dout = << >>
  /\ \A m \in 1 .. Len(coll.dout) : coll.dout[m] = Ans(coll.burst_count * OUT_ENTRIES + m - 1)

BurstsOut ==
  /\ outBurst \in Seq(Seq(Answers)) /\ Len(outBurst) <= DEPTH /\ Len(outBurst) <= coll.burst_count
  /\ \A j \in 1 .. Len(outBurst) : OutBurstIs(outBurst[j], coll.burst_count - Len(outBurst) + j - 1)
  /\ outbuf \in [0 .. 1 -> Seq(Answers)]
  /\ Len(outbuf[outSel]) = (coll.burst_count - Len(outBurst)) * OUT_ENTRIES
  /\ \A m \in 1 .. Len(outbuf[outSel]) : outbuf[outSel][m] = Ans(m - 1)
  /\ outbuf[1 - outSel] = << >>

Flow == BurstsIn /\ LaneTypes /\ LanesIn /\ LanesOut /\ Gathering /\ BurstsOut

Stages == {"options", "refused", "context", "program", "commands", "layout", "undefined", "kernel",
           "ended"}

Setup ==
  /\ opt \in CommandLines /\ in \in Lookups /\ pc \in Stages
  /\ pc = "options" => inbuf = [b \in 0 .. 1 |-> << >>]
  /\ pc \notin {"options", "refused"} => Accepted

IInv ==
  /\ Setup
  /\ pc \notin {"kernel", "ended"} => base = << >> /\ Fresh
  /\ pc = "kernel" => Laid /\ Flow
  /\ pc = "ended" => (base = << >> /\ Fresh) \/ (Laid /\ Flow /\ KernelDone)

---------------------------------------------------------------------------
(* Options *)

\* What the accepted options are.
LEMMA Options ==
  ASSUME opt \in CommandLines, StreamValid
  PROVE  /\ sw_emu \in BOOLEAN /\ p_ch \in 0 .. 1 /\ hbmNum \in Nat
         /\ pu \in {1, 2, 4, 8, 16} /\ pu <= MAX_STREAM /\ Work % pu = 0
         /\ IN_ENTRIES \in {2, 4, 8, 16, 32} /\ Work % IN_ENTRIES = 0
<1>1. pu \in {1, 2, 4, 8, 16}
  BY DEF StreamValid, StreamMasks
<1> QED BY <1>1, GatherAssumption DEF sw_emu, p_ch, hbmNum, pu, IN_ENTRIES

\* Bursts and lanes: one number divides the other, for bursts in and bursts out.
LEMMA Sizes ==
  ASSUME opt \in CommandLines, StreamValid
  PROVE  /\ pu \in Nat \ {0} /\ IN_ENTRIES \in Nat \ {0} /\ OUT_ENTRIES \in Nat \ {0}
         /\ IN_ENTRIES = 2 * OUT_ENTRIES
         /\ pu <= IN_ENTRIES => IN_ENTRIES % pu = 0
         /\ IN_ENTRIES < pu => pu % IN_ENTRIES = 0
         /\ pu <= OUT_ENTRIES => OUT_ENTRIES % pu = 0
         /\ OUT_ENTRIES < pu => pu % OUT_ENTRIES = 0
<1>1. pu \in {1, 2, 4, 8, 16} /\ IN_ENTRIES \in {2, 4, 8, 16, 32}
  BY Options
<1>2. OUT_ENTRIES \in {1, 2, 4, 8, 16} /\ IN_ENTRIES = 2 * OUT_ENTRIES
  BY <1>1 DEF OUT_ENTRIES, OUT_IN_RATIO
<1> QED BY <1>1, <1>2

\* Whole bursts make up a block, in and out.
LEMMA Totals ==
  ASSUME opt \in CommandLines, StreamValid
  PROVE  /\ totalInBurst \in Nat /\ totalInBurst * IN_ENTRIES = Work
         /\ totalOutBurst \in Nat /\ totalOutBurst * OUT_ENTRIES = Work
         /\ Work \div pu \in Nat /\ pu * (Work \div pu) = Work
<1>1. Work \in Nat /\ pu \in Nat \ {0} /\ IN_ENTRIES \in Nat \ {0} /\ OUT_ENTRIES \in Nat \ {0}
  BY Sizes, GatherAssumption
<1>2. Work % pu = 0 /\ Work % IN_ENTRIES = 0 /\ IN_ENTRIES = 2 * OUT_ENTRIES
  BY Options, Sizes
<1>3. Work \div pu \in Nat /\ pu * (Work \div pu) = Work
  BY <1>1, <1>2, DivNat
<1> DEFINE q == Work \div IN_ENTRIES
<1>4. q \in Nat /\ Work = IN_ENTRIES * q + (Work % IN_ENTRIES)
  BY <1>1, DivNat
<1> HIDE DEF q
<1>5. 2 * Work = IN_ENTRIES * (2 * q) + 0
  BY <1>1, <1>2, <1>4, Z3
<1>6. (2 * Work) \div IN_ENTRIES = 2 * q
  <2>1. 2 * q \in Int /\ 0 \in 0 .. IN_ENTRIES - 1
    BY <1>1, <1>4
  <2>2. (IN_ENTRIES * (2 * q) + 0) \div IN_ENTRIES = 2 * q
    BY <1>1, <2>1, ModIs
  <2> QED BY <1>5, <2>2
<1>7. totalOutBurst = 2 * q /\ totalInBurst = q
  BY <1>6 DEF totalOutBurst, totalInBurst, OUT_IN_RATIO, q
<1>8. q * IN_ENTRIES = Work /\ (2 * q) * OUT_ENTRIES = Work
  BY <1>1, <1>2, <1>4, Z3
<1> QED BY <1>3, <1>4, <1>7, <1>8

\* The operation mode is decoded to what main put in.
LEMMA Mode ==
  ASSUME opt \in CommandLines, Accepted
  PROVE  /\ STREAM = pu /\ opmode_stream = pu
         /\ inSel \in 0 .. 1 /\ outSel = inSel
         /\ inbuf[inSel] = [k \in 1 .. Work |-> in_mapp(in[k])]
<1>1. pu \in {1, 2, 4, 8, 16}
  BY Options DEF Accepted
<1>2. PICK ping \in 0 .. 1 : /\ opmode = 4 * pu + 3 * ping
                             /\ inbuf[ping] = [k \in 1 .. Work |-> in_mapp(in[k])]
  BY DEF Accepted
<1>3. opmode_stream = pu /\ inSel = ping /\ outSel = ping
  BY <1>1, <1>2 DEF opmode_stream, inSel, outSel, Bit
<1>4. \A m \in {1, 2, 4, 8, 16} : Bit(opmode, 4 * m) = IF m = pu THEN 1 ELSE 0
  <2>1. CASE pu = 1
    BY <1>2, <2>1 DEF Bit
  <2>2. CASE pu = 2
    BY <1>2, <2>2 DEF Bit
  <2>3. CASE pu = 4
    BY <1>2, <2>3 DEF Bit
  <2>4. CASE pu = 8
    BY <1>2, <2>4 DEF Bit
  <2>5. CASE pu = 16
    BY <1>2, <2>5 DEF Bit
  <2> QED BY <1>1, <2>1, <2>2, <2>3, <2>4, <2>5
<1>5. STREAM = pu
  <2> DEFINE Chosen(j) == /\ Bit(opmode, 4 * StreamMasks[j]) = 1
                          /\ \A l \in 1 .. j - 1 : Bit(opmode, 4 * StreamMasks[l]) = 0
  <2>1. \A j \in 1 .. 5 : StreamMasks[j] \in {1, 2, 4, 8, 16}
    BY DEF StreamMasks
  <2>2. \A j, l \in 1 .. 5 : StreamMasks[j] = StreamMasks[l] => j = l
    BY DEF StreamMasks
  <2>3. PICK x \in 1 .. 5 : StreamMasks[x] = pu
    BY <1>1 DEF StreamMasks
  <2>4. Len(StreamMasks) = 5
    BY DEF StreamMasks
  <2>5. Chosen(x)
    BY <1>4, <2>1, <2>2, <2>3
  <2>6. \A j \in 1 .. 5 : Chosen(j) => j = x
    BY <1>4, <2>1, <2>2, <2>3
  <2> HIDE DEF Chosen
  <2>7. (CHOOSE j \in 1 .. 5 : Chosen(j)) = x
    BY <2>5, <2>6
  <2> QED BY <2>3, <2>4, <2>7 DEF STREAM, Chosen
<1> QED BY <1>2, <1>3, <1>5

---------------------------------------------------------------------------
(* Layout *)

\* The parts of A are of one size and smaller than the distance of two parts.
LEMMA PartSize ==
  ASSUME opt \in CommandLines, Accepted
  PROVE  /\ perInterDbIndx \in Nat \ {0} /\ hbmNum \in Nat \ {0}
         /\ Rows = hbmNum * perInterDbIndx
         /\ hbmIndx \in Nat \ {0} /\ perInterDbIndx <= hbmIndx
<1> DEFINE P == perInterDbIndx
<1> DEFINE U == UsableRows
<1>1. /\ hbmNum \in Nat \ {0} /\ Rows \in Nat \ {0} /\ BankRows \in Nat \ {0}
      /\ Rows % hbmNum = 0
  BY Options, GatherAssumption, RowsAssumption DEF Accepted, HBMBankCount_valid, hbmNum
<1>2. P \in Nat /\ Rows = hbmNum * P + (Rows % hbmNum)
  BY <1>1, DivNat DEF perInterDbIndx
<1>3. U \in Nat /\ U <= BankRows /\ hbmNum * U >= Rows
  BY <1>1 DEF UsableRows, Accepted, HBMBankCount_valid
<1> HIDE DEF P, U
<1>4. Rows = hbmNum * P
  BY <1>1, <1>2, Z3
<1>5. P # 0
  BY <1>1, <1>4
<1>6. P <= U
  <2> SUFFICES ASSUME P - U >= 1 PROVE FALSE
    BY <1>2, <1>3
  <2>1. hbmNum * (P - U) >= hbmNum
    BY <1>1, <1>2, <1>3, MultipleBound
  <2>2. hbmNum * (P - U) = hbmNum * P - hbmNum * U
    BY <1>1, <1>2, <1>3, Z3
  <2> QED BY <1>1, <1>2, <1>3, <1>4, <2>1, <2>2
<1>7. hbmIndx \in Nat \ {0} /\ BankRows <= hbmIndx
  BY <1>1 DEF hbmIndx
<1> QED BY <1>1, <1>2, <1>3, <1>4, <1>5, <1>6, <1>7 DEF P

\* Part i starts at i times the distance in_mapp assumes.
LEMMA PartBase ==
  ASSUME opt \in CommandLines, Accepted, Laid, Placed, ~sw_emu, NEW i \in Parts
  PROVE  base[i] = i * hbmIndx
<1>1. i \in Nat /\ BankRows \in Nat /\ p_ch \in 0 .. 1
  BY Options, GatherAssumption DEF Parts, Accepted
<1>2. base[i] = BankOf(i) * BankRows
  BY DEF Laid, Placed
<1> QED BY <1>1, <1>2, Z3 DEF BankOf, hbmIndx

\* The address of a row reaches this row.
LEMMA CellOf ==
  ASSUME opt \in CommandLines, Accepted, Laid, Placed, NEW r \in 0 .. Rows - 1
  PROVE  in_mapp(r) \in Nat /\ Cell(in_mapp(r)) = r
<1>1. CASE sw_emu
  <2>1. in_mapp(r) = r /\ Parts = 0 .. 0 /\ PartRows = Rows
    BY <1>1 DEF in_mapp, Parts, PartRows
  <2>2. base[0] = 0 /\ Rows \in Nat
    BY <1>1, <2>1, GatherAssumption DEF Laid
  <2>3. \A i \in Parts : Holds(i, r) <=> i = 0
    BY <2>1, <2>2 DEF Holds, Elsewhere
  <2>4. Cell(r) = 0 * PartRows + r - base[0]
    BY <2>1, <2>3 DEF Cell
  <2> QED BY <2>1, <2>2, <2>4
<1>2. CASE ~sw_emu
  <2> DEFINE P == perInterDbIndx
  <2> DEFINE H == hbmIndx
  <2> DEFINE f == r \div P
  <2> DEFINE o == r % P
  <2>1. /\ P \in Nat \ {0} /\ H \in Nat \ {0} /\ P <= H
        /\ hbmNum \in Nat \ {0} /\ Rows = hbmNum * P
    BY PartSize
  <2>2. f \in Nat /\ o \in 0 .. P - 1 /\ r = P * f + o
    <3> HIDE DEF P
    <3>1. r \in Nat
      OBVIOUS
    <3> QED BY <2>1, <3>1, DivNat
  <2>3. in_mapp(r) = r + f * (H - P)
    BY <1>2 DEF in_mapp
  <2>4. PartRows = P /\ Parts = 0 .. hbmNum - 1
    BY <1>2 DEF PartRows, Parts, perInterDbIndx
  <2>5. \A i \in Parts : base[i] = i * H
    BY <1>2, PartBase
  <2> HIDE DEF P, H, f, o
  <2>6. in_mapp(r) = H * f + o
    BY <2>1, <2>2, <2>3, Z3
  <2>7. f \in Parts
    <3> SUFFICES ASSUME f - hbmNum >= 0 PROVE FALSE
      BY <2>1, <2>2, <2>4
    <3>1. P * (f - hbmNum) >= 0
      BY <2>1, <2>2, Z3
    <3>2. P * (f - hbmNum) = P * f - hbmNum * P
      BY <2>1, <2>2, Z3
    <3> QED BY <2>1, <2>2, <3>1, <3>2
  <2>8. \A i \in Parts : Holds(i, in_mapp(r)) => i = f
    <3> SUFFICES ASSUME NEW i \in Parts, Holds(i, in_mapp(r)) PROVE i = f
      OBVIOUS
    <3> DEFINE s == in_mapp(r) - i * H
    <3>1. i \in Nat /\ s \in 0 .. P - 1
      BY <2>4, <2>5 DEF Holds
    <3>2. in_mapp(r) \in Int /\ in_mapp(r) = s + i * H
      BY <2>1, <2>2, <2>6, <3>1
    <3> HIDE DEF s
    <3>3. H * i + s = H * f + o
      BY <2>1, <2>6, <3>1, <3>2, Z3
    <3>4. s \in 0 .. H - 1 /\ o \in 0 .. H - 1
      BY <2>1, <2>2, <3>1
    <3> QED BY <2>1, <2>2, <3>1, <3>3, <3>4, DivModUnique
  <2>9. base[f] = f * H
    BY <2>5, <2>7
  <2>10. in_mapp(r) - f * H = o
    BY <2>1, <2>2, <2>6, Z3
  <2>11. Holds(f, in_mapp(r))
    BY <2>2, <2>4, <2>7, <2>9, <2>10 DEF Holds, Placed
  <2>12. Cell(in_mapp(r)) = f * PartRows + in_mapp(r) - base[f]
    BY <2>7, <2>8, <2>11 DEF Cell
  <2>13. Cell(in_mapp(r)) = r
    BY <2>1, <2>2, <2>4, <2>6, <2>9, <2>12, Z3
  <2>14. in_mapp(r) \in Nat
    BY <2>1, <2>2, <2>6, Z3
  <2> QED BY <2>13, <2>14
<1> QED BY <1>1, <1>2

\* The two words a lane keeps of the burst it reads are those of its address.
LEMMA FetchIs ==
  ASSUME opt \in CommandLines, StreamValid, NEW a \in Nat
  PROVE  Fetch(a) = <<<<Cell(a), "measure">>, <<Cell(a), "group">>>>
<1> DEFINE q == a \div OUT_ENTRIES
<1> DEFINE m == a % OUT_ENTRIES
<1>1. OUT_ENTRIES \in Nat \ {0}
  BY Sizes
<1>2. q \in Nat /\ m \in Nat /\ a = OUT_ENTRIES * q + m
  BY <1>1, DivNat
<1>3. Fetch(a) = <<WordAt(2 * OUT_ENTRIES * q + 2 * m), WordAt(2 * OUT_ENTRIES * q + 2 * m + 1)>>
  BY DEF Fetch
<1> HIDE DEF q, m
<1>4. 2 * OUT_ENTRIES * q + 2 * m = 2 * a
  BY <1>1, <1>2, Z3
<1>5. WordAt(2 * a) = <<Cell(a), "measure">>
  <2>1. (2 * a) \div 2 = a /\ (2 * a) % 2 = 0
    OBVIOUS
  <2> QED BY <2>1 DEF WordAt
<1>6. WordAt(2 * a + 1) = <<Cell(a), "group">>
  <2>1. (2 * a + 1) \div 2 = a /\ (2 * a + 1) % 2 = 1
    OBVIOUS
  <2> QED BY <2>1 DEF WordAt
<1> QED BY <1>3, <1>4, <1>5, <1>6

\* The answer to a lookup is the row looked up.
LEMMA AnswerIsRow ==
  ASSUME opt \in CommandLines, in \in Lookups, Accepted, Laid, Placed, NEW g \in Numbers
  PROVE  Ans(g) = <<<<in[g + 1], "measure">>, <<in[g + 1], "group">>>>
<1>1. in[g + 1] \in 0 .. Rows - 1
  BY GatherAssumption DEF Numbers
<1>2. Addr(g) \in Nat /\ Cell(Addr(g)) = in[g + 1]
  BY <1>1, CellOf DEF Addr
<1> QED BY <1>2, FetchIs DEF Ans, Accepted

---------------------------------------------------------------------------
(* Going round the lanes *)

\* W of S lanes are served, from lane off on, where D = S * q + off lookups have gone
\* before.  The next lookup of a lane served is the one it is given, the next of any
\* other comes later.
TurnAt(S, q, D, off, W, u, n) ==
  off + W <= S /\ D = S * q + off /\ D <= u + S * n /\ u + S * n < D + S

TurnIs(S, D, off, W, u, n) ==
  /\ u \in off .. off + W - 1 => u + S * n = D + (u - off)
  /\ u \notin off .. off + W - 1 => D + W <= u + S * n

LEMMA Turn ==
  ASSUME NEW S \in Nat \ {0}, NEW q \in Int, NEW off \in Nat, NEW W \in Nat, NEW u \in 0 .. S - 1,
         NEW n \in Int, NEW D \in Int, TurnAt(S, q, D, off, W, u, n)
  PROVE  TurnIs(S, D, off, W, u, n)
<1> USE DEF TurnAt, TurnIs
<1> DEFINE d == u + S * n - D
<1>1. d \in 0 .. S - 1 /\ u + S * n = D + d
  <2>1. S * n \in Int
    BY Z3
  <2> QED BY <2>1
<1> HIDE DEF d
<1>2. CASE u >= off
  <2>1. S * n + (u - off) = S * q + d
    BY <1>1, Z3
  <2>2. u - off \in 0 .. S - 1
    BY <1>2
  <2>3. u - off = d
    BY <1>1, <2>1, <2>2, DivModUnique
  <2> QED BY <1>1, <1>2, <2>3
<1>3. CASE u < off
  <2> DEFINE p == n - 1
  <2> DEFINE s == u - off + S
  <2>1. S * p + s = S * q + d
    BY <1>1, Z3
  <2>2. s \in 0 .. S - 1 /\ p \in Int
    BY <1>3
  <2> HIDE DEF p, s
  <2>3. s = d
    BY <1>1, <2>1, <2>2, DivModUnique
  <2> QED BY <1>1, <1>3, <2>3 DEF s
<1> QED BY <1>2, <1>3

\* One of the numbers divides the other.
Even(S, E) == (S <= E => E % S = 0) /\ (E < S => S % E = 0)

\* Cycle i of burst b: the lanes served exist, the cycles fill the burst, and the first
\* lane served follows from what was dealt out before.
CycleFits(S, E, b, i) ==
  /\ Served(S, E) \in Nat \ {0} /\ First(S, E, b) \in Nat
  /\ First(S, E, b) + Served(S, E) <= S
  /\ E % Served(S, E) = 0 /\ (i + 1) * Served(S, E) <= E
  /\ i * Served(S, E) = i * S
  /\ \E q \in Int : b * E + i * Served(S, E) = S * q + First(S, E, b)

LEMMA Cycle ==
  ASSUME NEW S \in Nat \ {0}, NEW E \in Nat \ {0}, NEW b \in Nat, NEW i \in Nat,
         Even(S, E), i * Served(S, E) < E
  PROVE  CycleFits(S, E, b, i)
<1> USE DEF Even, CycleFits
<1> DEFINE W == Served(S, E)
<1> DEFINE off == First(S, E, b)
<1>1. CASE S <= E
  <2>1. W = S /\ off = 0 /\ W \in Nat \ {0} /\ E % W = 0
    BY <1>1 DEF Served, First
  <2> HIDE DEF W, off
  <2>2. (i + 1) * W <= E
    BY <2>1, NextMultiple DEF W
  <2> DEFINE e == E \div S
  <2>3. e \in Nat /\ E = S * e + (E % S)
    BY DivNat
  <2> HIDE DEF e
  <2>4. b * E + i * W = S * (b * e + i) + off
    BY <1>1, <2>1, <2>3, Z3
  <2>5. b * e + i \in Int
    BY <2>3, Z3
  <2>6. \E q \in Int : b * E + i * W = S * q + off
    BY <2>4, <2>5
  <2>7. off \in Nat /\ off + W <= S /\ i * W = i * S
    BY <1>1, <2>1
  <2> QED BY <2>1, <2>2, <2>6, <2>7 DEF W, off
<1>2. CASE E < S
  <2> DEFINE r == S \div E
  <2>1. W = E /\ off = (b % r) * E /\ W \in Nat \ {0}
    BY <1>2 DEF Served, First
  <2> HIDE DEF W, off
  <2>2. r \in Nat /\ S = E * r + (S % E)
    BY DivNat
  <2> DEFINE c == b \div r
  <2> DEFINE m == b % r
  <2> HIDE DEF r
  <2>3. S = E * r /\ r # 0
    BY <1>2, <2>2, Z3
  <2>4. c \in Nat /\ m \in 0 .. r - 1 /\ b = r * c + m
    BY <2>2, <2>3, DivNat
  <2>5. off = m * E
    BY <2>1
  <2> HIDE DEF c, m
  <2>6. off \in Nat
    BY <2>4, <2>5, Z3
  <2>7. i = 0
    <3> SUFFICES ASSUME i >= 1 PROVE FALSE
      OBVIOUS
    <3>1. E * i >= E
      BY MultipleBound
    <3> QED BY <2>1, <3>1, Z3 DEF W
  <2>8. off + W <= S
    <3>1. E * (r - m) >= E
      BY <2>2, <2>4, MultipleBound
    <3> QED BY <2>1, <2>2, <2>3, <2>4, <2>5, <3>1, Z3
  <2>9. b * E + i * W = S * c + off
    <3>1. (r * c + m) * E = E * r * c + m * E
      BY <2>2, <2>4, Z3
    <3>2. i * W = 0
      BY <2>1, <2>7
    <3>3. b * E = S * c + off
      BY <2>3, <2>4, <2>5, <3>1, Zenon
    <3>4. b * E \in Int
      BY Z3
    <3> QED BY <3>2, <3>3, <3>4
  <2>10. E % W = 0 /\ (i + 1) * W <= E
    <3>1. E = E * 1 + 0 /\ 0 \in 0 .. E - 1
      OBVIOUS
    <3>2. (E * 1 + 0) % E = 0
      BY <3>1, ModIs
    <3> QED BY <2>1, <2>7, <3>1, <3>2
  <2>11. \E q \in Int : b * E + i * W = S * q + off
    BY <2>4, <2>9
  <2>12. i * W = i * S
    BY <2>1, <2>7
  <2> QED BY <2>1, <2>6, <2>8, <2>10, <2>11, <2>12 DEF W, off
<1> QED BY <1>1, <1>2

---------------------------------------------------------------------------
(* Steps of the kernel *)

\* The options do not change any more.
LEMMA Steady ==
  ASSUME UNCHANGED setup
  PROVE  /\ pu' = pu /\ IN_ENTRIES' = IN_ENTRIES /\ OUT_ENTRIES' = OUT_ENTRIES
         /\ totalInBurst' = totalInBurst /\ totalOutBurst' = totalOutBurst
         /\ outSel' = outSel
         /\ \A g : Addr(g)' = Addr(g) /\ Ans(g)' = Ans(g)
         /\ Addresses' = Addresses /\ Answers' = Answers
         /\ Served(pu, IN_ENTRIES)' = Served(pu, IN_ENTRIES) /\ Served(pu, OUT_ENTRIES)' = Served(pu, OUT_ENTRIES)
<1> USE DEF setup, options
<1>1. pu' = pu /\ IN_ENTRIES' = IN_ENTRIES /\ OUT_ENTRIES' = OUT_ENTRIES /\ outSel' = outSel
  BY DEF pu, IN_ENTRIES, OUT_ENTRIES, outSel, Bit
<1>2. totalInBurst' = totalInBurst /\ totalOutBurst' = totalOutBurst
  BY <1>1 DEF totalInBurst, totalOutBurst
<1>3. \A g : Addr(g)' = Addr(g)
  BY DEF Addr, in_mapp, sw_emu, perInterDbIndx, hbmIndx, hbmNum, p_ch
<1>4. Parts' = Parts /\ PartRows' = PartRows
  BY DEF Parts, PartRows, sw_emu, hbmNum
<1>5. \A a : Cell(a)' = Cell(a)
  BY <1>4 DEF Cell, Holds
<1>6. \A a : Fetch(a)' = Fetch(a)
  BY <1>1, <1>5 DEF Fetch, WordAt
<1>7. \A g : Ans(g)' = Ans(g)
  BY <1>3, <1>6 DEF Ans
<1>8. Addresses' = Addresses /\ Answers' = Answers
  BY <1>3, <1>7 DEF Addresses, Answers
<1>9. Served(pu, IN_ENTRIES)' = Served(pu, IN_ENTRIES) /\ Served(pu, OUT_ENTRIES)' = Served(pu, OUT_ENTRIES)
  BY <1>1 DEF Served
<1> QED BY <1>1, <1>2, <1>3, <1>7, <1>8, <1>9

\* Which variables each part of the invariant is about.
LEMMA Frame ==
  ASSUME UNCHANGED setup
  PROVE  /\ BurstsIn /\ UNCHANGED <<burstsRead, inBurst, dist>> => BurstsIn'
         /\ LaneTypes /\ UNCHANGED <<din, lane, dout>> => LaneTypes'
         /\ LanesIn /\ UNCHANGED <<din, lane>> /\ Dealt' = Dealt => LanesIn'
         /\ LanesOut /\ UNCHANGED <<dout, lane>> /\ Collected' = Collected => LanesOut'
         /\ Gathering /\ UNCHANGED coll => Gathering'
         /\ BurstsOut /\ UNCHANGED <<coll, outBurst, outbuf>> => BurstsOut'
         /\ UNCHANGED dist => Dealt' = Dealt
         /\ UNCHANGED coll => Collected' = Collected
<1>1. BurstsIn /\ UNCHANGED <<burstsRead, inBurst, dist>> => BurstsIn'
  BY Steady DEF BurstsIn, BurstCounts, BurstData, InCycle, InBurstIs, Dealing
<1>2. LaneTypes /\ UNCHANGED <<din, lane, dout>> => LaneTypes'
  BY Steady DEF LaneTypes
<1>3. LanesIn /\ UNCHANGED <<din, lane>> /\ Dealt' = Dealt => LanesIn'
  BY Steady DEF LanesIn, LaneIn, LookupOf, Taken, Looking
<1>4. LanesOut /\ UNCHANGED <<dout, lane>> /\ Collected' = Collected => LanesOut'
  BY Steady DEF LanesOut, LaneOut, LookupOf
<1>5. Gathering /\ UNCHANGED coll => Gathering'
  BY Steady DEF Gathering
<1>6. BurstsOut /\ UNCHANGED <<coll, outBurst, outbuf>> => BurstsOut'
  BY Steady DEF BurstsOut, OutBurstIs
<1>7. (UNCHANGED dist => Dealt' = Dealt) /\ (UNCHANGED coll => Collected' = Collected)
  BY Steady DEF Dealt, Collected
<1> QED BY <1>1, <1>2, <1>3, <1>4, <1>5, <1>6, <1>7

\* Where a burst lies in the buffer.
LEMMA BurstInBlock ==
  ASSUME opt \in CommandLines, StreamValid, NEW n \in 0 .. totalInBurst - 1, NEW m \in 1 .. IN_ENTRIES
  PROVE  n * IN_ENTRIES + m - 1 \in Numbers
<1>1. /\ IN_ENTRIES \in Nat \ {0} /\ totalInBurst \in Nat /\ totalInBurst * IN_ENTRIES = Work
  BY Sizes, Totals
<1>2. IN_ENTRIES * (totalInBurst - n) >= IN_ENTRIES
  BY <1>1, MultipleBound
<1>3. IN_ENTRIES * (totalInBurst - n) = Work - n * IN_ENTRIES
  BY <1>1, Z3
<1>4. n * IN_ENTRIES \in Nat
  BY <1>1, Z3
<1> QED BY <1>1, <1>2, <1>3, <1>4 DEF Numbers

\* The burst read next is appended to the stream.
LEMMA ReadInBurstStep ==
  ASSUME opt \in CommandLines, Accepted, Flow, ReadInBurst
  PROVE  Flow'
<1> USE DEF Flow
<1>1. UNCHANGED setup /\ UNCHANGED <<dist, din, lane, dout, coll, outBurst, outbuf>>
  BY DEF ReadInBurst
<1>2. LaneTypes' /\ LanesIn' /\ LanesOut' /\ Gathering' /\ BurstsOut'
  BY <1>1, Frame
<1> DEFINE b == SubSeq(inbuf[inSel], burstsRead * IN_ENTRIES + 1, (burstsRead + 1) * IN_ENTRIES)
<1>3. /\ IN_ENTRIES \in Nat \ {0} /\ totalInBurst \in Nat /\ burstsRead \in 0 .. totalInBurst - 1
      /\ burstsRead * IN_ENTRIES \in Nat
      /\ (burstsRead + 1) * IN_ENTRIES = burstsRead * IN_ENTRIES + IN_ENTRIES
  <2>1. IN_ENTRIES \in Nat \ {0} /\ totalInBurst \in Nat /\ burstsRead \in 0 .. totalInBurst - 1
    BY Sizes, Totals DEF Accepted, BurstsIn, BurstCounts, ReadInBurst
  <2> QED BY <2>1, Z3
<1> DEFINE lo == burstsRead * IN_ENTRIES
<1>4. /\ lo \in Nat /\ (burstsRead + 1) * IN_ENTRIES = lo + IN_ENTRIES
      /\ b = SubSeq(inbuf[inSel], lo + 1, lo + IN_ENTRIES)
      /\ \A m \in 1 .. IN_ENTRIES : lo + m - 1 \in Numbers
      /\ InBurstIs(b, burstsRead) <=> Len(b) = IN_ENTRIES /\ \A m \in 1 .. IN_ENTRIES : b[m] = Addr(lo + m - 1)
  BY <1>3, BurstInBlock DEF Accepted, InBurstIs
<1> HIDE DEF lo, b
<1>5. \A m \in 1 .. IN_ENTRIES : inbuf[inSel][lo + m] = Addr(lo + m - 1) /\ inbuf[inSel][lo + m] \in Addresses
  <2> SUFFICES ASSUME NEW m \in 1 .. IN_ENTRIES
               PROVE  inbuf[inSel][lo + m] = Addr(lo + m - 1) /\ Addr(lo + m - 1) \in Addresses
    BY Zenon
  <2>1. lo + m \in 1 .. Work /\ lo + m - 1 \in Numbers /\ (lo + m - 1) + 1 = lo + m
    <3>1. lo + m - 1 \in Numbers /\ lo \in Nat /\ m \in Nat
      BY <1>3, <1>4
    <3>2. Work \in Nat
      BY GatherAssumption
    <3> QED BY <3>1, <3>2 DEF Numbers
  <2>2. inbuf[inSel][lo + m] = in_mapp(in[lo + m])
    BY <2>1, Mode
  <2>3. Addr(lo + m - 1) = in_mapp(in[lo + m])
    BY <2>1 DEF Addr
  <2>4. Addr(lo + m - 1) \in Addresses
    BY <2>1 DEF Addresses
  <2> QED BY <2>2, <2>3, <2>4
<1>6. b \in Seq(Addresses) /\ InBurstIs(b, burstsRead)
  <2>1. \A x \in lo + 1 .. lo + IN_ENTRIES : inbuf[inSel][x] \in Addresses
    <3> SUFFICES ASSUME NEW x \in lo + 1 .. lo + IN_ENTRIES PROVE inbuf[inSel][x] \in Addresses
      OBVIOUS
    <3>1. x - lo \in 1 .. IN_ENTRIES /\ lo + (x - lo) = x
      BY <1>3, <1>4
    <3> QED BY <1>5, <3>1
  <2>2. /\ b \in Seq(Addresses) /\ Len(b) = IN_ENTRIES
        /\ \A m \in 1 .. IN_ENTRIES : b[m] = inbuf[inSel][lo + m]
    <3>1. lo + 1 \in Int /\ lo + IN_ENTRIES \in Int /\ lo + 1 <= lo + IN_ENTRIES
          /\ (lo + IN_ENTRIES) - (lo + 1) + 1 = IN_ENTRIES
      BY <1>3, <1>4
    <3>2. /\ b \in Seq(Addresses)
          /\ Len(b) = IN_ENTRIES
          /\ \A m \in 1 .. IN_ENTRIES : b[m] = inbuf[inSel][(lo + 1) + m - 1]
      <4> DEFINE s == inbuf[inSel]
      <4> DEFINE p == lo + 1
      <4> DEFINE q == lo + IN_ENTRIES
      <4>1. p \in Int /\ q \in Int /\ \A x \in p .. q : s[x] \in Addresses
        BY <2>1, <3>1
      <4>2. b = SubSeq(s, p, q) /\ p <= q /\ q - p + 1 = IN_ENTRIES
        BY <1>4, <3>1
      <4> HIDE DEF s, p, q
      <4>3. /\ SubSeq(s, p, q) \in Seq(Addresses)
            /\ Len(SubSeq(s, p, q)) = IF p <= q THEN q - p + 1 ELSE 0
            /\ \A m \in 1 .. q - p + 1 : SubSeq(s, p, q)[m] = s[p + m - 1]
        BY <4>1, SubSeqProperties
      <4>4. /\ b \in Seq(Addresses) /\ Len(b) = IN_ENTRIES
            /\ \A m \in 1 .. IN_ENTRIES : b[m] = s[p + m - 1]
        BY <4>2, <4>3, Zenon
      <4> QED BY <4>4 DEF s, p
    <3>3. \A m \in 1 .. IN_ENTRIES : (lo + 1) + m - 1 = lo + m
      BY <1>3, <1>4
    <3> QED BY <3>2, <3>3
  <2> QED BY <1>4, <1>5, <2>2
<1>7. inBurst' = Append(inBurst, b) /\ burstsRead' = burstsRead + 1 /\ Len(inBurst) < DEPTH
  BY DEF ReadInBurst, b
<1>8. BurstsIn'
  <2>1. inBurst \in Seq(Seq(Addresses)) /\ Len(inBurst) \in Nat
    BY DEF BurstsIn, BurstCounts
  <2>2. inBurst' \in Seq(Seq(Addresses)) /\ Len(inBurst') = Len(inBurst) + 1
    BY <1>6, <1>7, <2>1
  <2>3. \A j \in 1 .. Len(inBurst') : InBurstIs(inBurst'[j], burstsRead' - Len(inBurst') + j - 1)
    <3> SUFFICES ASSUME NEW j \in 1 .. Len(inBurst')
                 PROVE  InBurstIs(inBurst'[j], burstsRead' - Len(inBurst') + j - 1)
      OBVIOUS
    <3>1. burstsRead' - Len(inBurst') + j - 1 = burstsRead - Len(inBurst) + j - 1
      BY <1>3, <1>7, <2>1, <2>2
    <3>2. CASE j <= Len(inBurst)
      BY <1>7, <2>1, <2>2, <3>1, <3>2 DEF BurstsIn, BurstData
    <3>3. CASE j = Len(inBurst) + 1
      <4>1. inBurst'[j] = b /\ burstsRead - Len(inBurst) + j - 1 = burstsRead
        BY <1>3, <1>6, <1>7, <2>1, <3>3
      <4> QED BY <1>6, <3>1, <4>1
    <3> QED BY <2>1, <2>2, <3>2, <3>3
  <2>4. \A j \in 1 .. Len(inBurst') : InBurstIs(inBurst[j], burstsRead - Len(inBurst) + j - 1)'
    BY <1>1, <2>3, Steady DEF InBurstIs
  <2>5. dist.burst # NoBurst => InBurstIs(dist.burst, dist.burst_count)'
    BY <1>1, Steady DEF BurstsIn, BurstData, InBurstIs
  <2>6. Len(inBurst') <= DEPTH /\ burstsRead' \in 0 .. totalInBurst'
    BY <1>1, <1>3, <1>7, <2>1, <2>2, Steady, GatherAssumption
  <2>7. dist' = dist /\ dist \in [burst_count : Nat, burst : Seq(Addresses'), i : Nat]
    BY <1>1, Steady DEF BurstsIn, BurstCounts
  <2>8. dist.burst_count + Len(inBurst') + Dealing' = burstsRead' /\ Dealing' = Dealing
    <3>1. Dealing \in 0 .. 1 /\ Dealing' = Dealing
      BY <2>7 DEF Dealing
    <3> QED BY <3>1, <1>3, <1>7, <2>1, <2>2, <2>7 DEF BurstsIn, BurstCounts
  <2>9. InCycle'
    BY <1>1, Steady DEF BurstsIn, InCycle
  <2>10. BurstCounts'
    BY <1>1, <2>2, <2>6, <2>7, <2>8, Steady DEF BurstsIn, BurstCounts
  <2>11. BurstData'
    BY <1>1, <2>4, <2>5 DEF BurstData
  <2> QED BY <2>9, <2>10, <2>11 DEF BurstsIn
<1> QED BY <1>2, <1>8

\* The next burst is taken from the stream to be dealt out.
LEMMA DistReadStep ==
  ASSUME opt \in CommandLines, Accepted, Flow, DistRead
  PROVE  Flow'
<1> USE DEF Flow
<1>1. UNCHANGED setup /\ UNCHANGED <<burstsRead, din, lane, dout, coll, outBurst, outbuf>>
  BY DEF DistRead
<1>2. LaneTypes' /\ LanesOut' /\ Gathering' /\ BurstsOut'
  BY <1>1, Frame
<1> DEFINE b == Head(inBurst)
<1>3. /\ IN_ENTRIES \in Nat \ {0} /\ burstsRead \in Nat /\ Served(pu, IN_ENTRIES) \in Nat
      /\ inBurst \in Seq(Seq(Addresses)) /\ Len(inBurst) \in Nat \ {0}
      /\ dist \in [burst_count : Nat, burst : Seq(Addresses), i : Nat]
      /\ dist.burst = NoBurst /\ dist.i = 0 /\ dist.burst_count \in Nat
  BY Sizes DEF Accepted, BurstsIn, BurstCounts, DistRead, Served
<1>4. dist.burst_count + Len(inBurst) = burstsRead
  BY <1>3 DEF BurstsIn, BurstCounts, Dealing
<1>5. b \in Seq(Addresses) /\ inBurst[1] = b
  BY <1>3
<1>6. InBurstIs(b, dist.burst_count)
  <2>1. burstsRead - Len(inBurst) + 1 - 1 = dist.burst_count
    <3> DEFINE n == Len(inBurst)
    <3> DEFINE c == dist.burst_count
    <3>1. n \in Nat /\ c \in Nat /\ c + n = burstsRead
      BY <1>3, <1>4
    <3> HIDE DEF n, c
    <3>2. burstsRead - n + 1 - 1 = c
      BY <3>1
    <3> QED BY <3>2 DEF n, c
  <2>2. InBurstIs(inBurst[1], burstsRead - Len(inBurst) + 1 - 1)
    BY <1>3 DEF BurstsIn, BurstData
  <2> QED BY <1>5, <2>1, <2>2
<1>7. b # NoBurst
  BY <1>3, <1>6 DEF InBurstIs, NoBurst
<1>8. /\ dist' \in [burst_count : Nat, burst : Seq(Addresses), i : Nat]
      /\ dist'.burst_count = dist.burst_count /\ dist'.burst = b /\ dist'.i = 0
  BY <1>3, <1>5 DEF DistRead
<1>9. /\ inBurst' \in Seq(Seq(Addresses)) /\ Len(inBurst') = Len(inBurst) - 1
      /\ \A j \in 1 .. Len(inBurst') : inBurst'[j] = inBurst[j + 1]
  BY <1>3 DEF DistRead
<1> HIDE DEF b
<1>10. BurstsIn'
  <2>1. Dealing' = 1
    BY <1>7, <1>8 DEF Dealing, NoBurst
  <2>2. dist'.burst_count + Len(inBurst') + 1 = burstsRead
    BY <1>3, <1>4, <1>8, <1>9
  <2>3. \A j \in 1 .. Len(inBurst') : InBurstIs(inBurst'[j], burstsRead - Len(inBurst') + j - 1)
    <3> SUFFICES ASSUME NEW j \in 1 .. Len(inBurst')
                 PROVE  InBurstIs(inBurst'[j], burstsRead - Len(inBurst') + j - 1)
      OBVIOUS
    <3>1. /\ burstsRead - Len(inBurst') + j - 1 = burstsRead - Len(inBurst) + (j + 1) - 1
          /\ j + 1 \in 1 .. Len(inBurst)
      BY <1>3, <1>9
    <3>2. InBurstIs(inBurst[j + 1], burstsRead - Len(inBurst) + (j + 1) - 1)
      BY <3>1 DEF BurstsIn, BurstData
    <3> QED BY <1>9, <3>1, <3>2
  <2>4. \A j \in 1 .. Len(inBurst') : InBurstIs(inBurst[j], burstsRead - Len(inBurst) + j - 1)'
    BY <1>1, <2>3, Steady DEF InBurstIs
  <2>5. InBurstIs(dist.burst, dist.burst_count)'
    BY <1>1, <1>6, <1>8, Steady DEF InBurstIs
  <2>6. burstsRead' \in 0 .. totalInBurst' /\ Len(inBurst') <= DEPTH
    BY <1>1, <1>3, <1>9, Steady, GatherAssumption DEF BurstsIn, BurstCounts
  <2>7. InCycle'
    BY <1>1, <1>3, <1>8, Steady DEF InCycle
  <2>8. BurstCounts'
    BY <1>1, <1>7, <1>8, <1>9, <2>1, <2>2, <2>6, Steady DEF BurstCounts
  <2>9. BurstData'
    BY <1>1, <2>4, <2>5 DEF BurstData
  <2> QED BY <2>7, <2>8, <2>9 DEF BurstsIn
<1>11. Dealt' = Dealt
  BY <1>1, <1>3, <1>8, Steady DEF Dealt
<1>12. LanesIn'
  BY <1>1, <1>11, Frame
<1> QED BY <1>2, <1>10, <1>12

\* One cycle of the distribution: the lanes served follow one another, from the one
\* whose turn it is.
LEMMA DistCycle ==
  ASSUME opt \in CommandLines, Accepted, BurstsIn
  PROVE  /\ Width = Served(pu, IN_ENTRIES) /\ Width \in Nat \ {0}
         /\ Dealt \in Nat /\ (dist.i + 1) * Width <= IN_ENTRIES
         /\ dist.i * pu = dist.i * Width
         /\ \E off \in Nat, q \in Int : /\ off + Width <= pu /\ Dealt = pu * q + off
                                        /\ \A idx \in 0 .. Width - 1 : DistLane(idx) = off + idx
<1> DEFINE i == dist.i
<1> DEFINE b == dist.burst_count
<1> DEFINE E == IN_ENTRIES
<1> DEFINE W == Served(pu, E)
<1> DEFINE off == First(pu, E, b)
<1>1. /\ pu \in Nat \ {0} /\ E \in Nat \ {0} /\ Even(pu, E)
  BY Sizes DEF Accepted, Even
<1>2. Width = W /\ \A idx \in Nat : DistLane(idx) = off + idx
  BY <1>1, Mode DEF Width, Served, First, DistLane
<1>3. i \in Nat /\ b \in Nat /\ i * W < E
  BY DEF BurstsIn, BurstCounts, InCycle
<1>4. Dealt = b * E + i * W
  BY DEF Dealt
<1> HIDE DEF i, b, E
<1>5. /\ W \in Nat \ {0} /\ off \in Nat /\ off + W <= pu
      /\ (i + 1) * W <= E /\ i * W = i * pu
      /\ \E q \in Int : b * E + i * W = pu * q + off
  <2>1. CycleFits(pu, E, b, i)
    BY <1>1, <1>3, Cycle
  <2> QED BY <2>1 DEF CycleFits
<1> HIDE DEF W, off
<1>6. b * E + i * W \in Nat
  BY <1>1, <1>3, <1>5, Z3
<1>7. \E o \in Nat, p \in Int : /\ o + Width <= pu /\ Dealt = pu * p + o
                                 /\ \A idx \in 0 .. Width - 1 : DistLane(idx) = o + idx
  BY <1>2, <1>4, <1>5
<1> QED BY <1>2, <1>4, <1>5, <1>6, <1>7 DEF i, E, W

\* What one cycle of the distribution writes: to each lane served its next lookup.
LEMMA DistWriteLanes ==
  ASSUME opt \in CommandLines, Accepted, Flow, DistWrite
  PROVE  /\ Dealt' = Dealt + Width
         /\ \E off \in Nat, q \in Int :
              /\ off + Width <= pu /\ Dealt = pu * q + off
              /\ \A u \in Lanes : u \in off .. off + Width - 1 =>
                   /\ Len(din[u]) < DEPTH /\ Addr(Dealt + (u - off)) \in Addresses
                   /\ din'[u] = Append(din[u], Addr(Dealt + (u - off)))
              /\ \A u \in Lanes : u \notin off .. off + Width - 1 => din'[u] = din[u]
<1> DEFINE W == Width
<1> DEFINE i == dist.i
<1> DEFINE c == dist.burst_count
<1> DEFINE E == IN_ENTRIES
<1>1. /\ W = Served(pu, IN_ENTRIES) /\ W \in Nat \ {0} /\ Dealt \in Nat
      /\ (i + 1) * W <= E /\ i * pu = i * W
  BY DistCycle DEF Flow
<1>2. PICK off \in Nat, q \in Int : /\ off + W <= pu /\ Dealt = pu * q + off
                                    /\ \A idx \in 0 .. W - 1 : DistLane(idx) = off + idx
  BY DistCycle DEF Flow
<1>3. /\ i \in Nat /\ c \in Nat /\ E \in Nat \ {0} /\ pu \in Nat \ {0} /\ dist.burst # NoBurst
      /\ InBurstIs(dist.burst, c)
      /\ c + 1 <= burstsRead /\ burstsRead <= totalInBurst /\ burstsRead \in Nat /\ totalInBurst \in Nat
  <2>1. i \in Nat /\ c \in Nat /\ dist.burst # NoBurst /\ InBurstIs(dist.burst, c)
    BY DEF Flow, BurstsIn, BurstCounts, BurstData, DistWrite
  <2>2. Dealing = 1
    BY <2>1 DEF Dealing
  <2>3. E \in Nat \ {0} /\ pu \in Nat \ {0} /\ totalInBurst \in Nat
    BY Sizes, Totals DEF Accepted
  <2>4. c + Len(inBurst) + 1 = burstsRead /\ Len(inBurst) \in Nat /\ burstsRead \in 0 .. totalInBurst
    BY <2>2 DEF Flow, BurstsIn, BurstCounts
  <2> QED BY <2>1, <2>3, <2>4
<1>4. STREAM = pu
  BY Mode
<1>5. Dealt = c * E + i * W
  BY <1>1 DEF Dealt
<1>6. Dealt' = Dealt + W
  <2>1. pu' = pu /\ IN_ENTRIES' = IN_ENTRIES
    BY Steady DEF DistWrite
  <2>2. dist' = IF (i + 1) * W < E THEN [dist EXCEPT !.i = i + 1]
                ELSE [burst_count |-> c + 1, burst |-> NoBurst, i |-> 0]
    BY DEF DistWrite
  <2>3. Dealt' = dist'.burst_count * E + dist'.i * W
    BY <1>1, <2>1 DEF Dealt
  <2>4. dist \in [burst_count : Nat, burst : Seq(Addresses), i : Nat]
    BY DEF Flow, BurstsIn, BurstCounts
  <2>5. CASE (i + 1) * W < E
    <3>1. dist'.burst_count = c /\ dist'.i = i + 1
      BY <2>2, <2>4, <2>5
    <3> HIDE DEF i, c, E, W
    <3>2. c * E + (i + 1) * W = c * E + i * W + W
      BY <1>1, <1>3, Z3
    <3> QED BY <1>5, <2>3, <3>1, <3>2
  <2>6. CASE ~((i + 1) * W < E)
    <3>1. dist'.burst_count = c + 1 /\ dist'.i = 0
      BY <2>2, <2>6
    <3> HIDE DEF i, c, E, W
    <3>2. (i + 1) * W = E
      BY <1>1, <1>3, <2>6
    <3>3. (c + 1) * E + 0 * W = c * E + i * W + W
      BY <1>1, <1>3, <3>2, Z3
    <3> QED BY <1>5, <2>3, <3>1, <3>3
  <2> QED BY <2>5, <2>6
<1> DEFINE to == {DistLane(idx) : idx \in 0 .. W - 1}
<1> DEFINE pick(u) == CHOOSE idx \in 0 .. W - 1 : DistLane(idx) = u
<1>7. /\ \A u \in to : Len(din[u]) < DEPTH
      /\ din' = [u \in Lanes |-> IF u \in to THEN Append(din[u], dist.burst[i * pu + pick(u) + 1])
                                 ELSE din[u]]
  <2>1. /\ \A u \in to : Len(din[u]) < DEPTH
        /\ din' = [u \in Lanes |-> IF u \in to THEN Append(din[u], dist.burst[i * STREAM + pick(u) + 1])
                                   ELSE din[u]]
    BY Zenon DEF DistWrite
  <2> QED BY <1>4, <2>1
<1> HIDE DEF W, i, c, E
<1>8. \A u \in Lanes : u \in to <=> u \in off .. off + W - 1
  <2> SUFFICES ASSUME NEW u \in Lanes PROVE u \in to <=> u \in off .. off + W - 1
    OBVIOUS
  <2>1. u \in Int
    BY GatherAssumption DEF Lanes
  <2>2. ASSUME u \in off .. off + W - 1 PROVE u \in to
    <3>1. u - off \in 0 .. W - 1 /\ off + (u - off) = u
      BY <1>1, <1>2, <2>1, <2>2
    <3> QED BY <1>2, <3>1
  <2>3. ASSUME u \in to PROVE u \in off .. off + W - 1
    <3>1. PICK idx \in 0 .. W - 1 : u = DistLane(idx)
      BY <2>3
    <3> QED BY <1>1, <1>2, <3>1
  <2> QED BY <2>2, <2>3
<1>9. \A u \in Lanes : u \in off .. off + W - 1 => pick(u) = u - off
  <2> SUFFICES ASSUME NEW u \in Lanes, u \in off .. off + W - 1 PROVE pick(u) = u - off
    OBVIOUS
  <2>1. u - off \in 0 .. W - 1 /\ off + (u - off) = u /\ u \in Int
    BY <1>1, <1>2
  <2>2. \A idx \in 0 .. W - 1 : DistLane(idx) = u <=> idx = u - off
    BY <1>1, <1>2, <2>1
  <2> QED BY <2>1, <2>2
<1> HIDE DEF to, pick
<1>10. \A u \in Lanes : u \in off .. off + W - 1 =>
         /\ dist.burst[i * pu + pick(u) + 1] = Addr(Dealt + (u - off))
         /\ Addr(Dealt + (u - off)) \in Addresses
  <2> SUFFICES ASSUME NEW u \in Lanes, u \in off .. off + W - 1
               PROVE  /\ dist.burst[i * pu + pick(u) + 1] = Addr(Dealt + (u - off))
                      /\ Addr(Dealt + (u - off)) \in Addresses
    OBVIOUS
  <2> DEFINE x == i * W
  <2> DEFINE y == c * E
  <2> DEFINE m == x + (u - off) + 1
  <2>1. x \in Nat /\ y \in Nat /\ x + W <= E /\ Dealt = y + x /\ i * pu = x
    BY <1>1, <1>3, <1>5, Z3
  <2>2. InBurstIs(dist.burst, c) <=> Len(dist.burst) = E /\ \A l \in 1 .. E : dist.burst[l] = Addr(y + l - 1)
    BY DEF InBurstIs, E
  <2>3. c \in 0 .. totalInBurst - 1
    BY <1>3
  <2>4. \A l \in 1 .. E : y + l - 1 \in Numbers
    BY <2>3, BurstInBlock DEF Accepted, E
  <2> HIDE DEF x, y
  <2>5. m \in 1 .. E /\ y + m - 1 = Dealt + (u - off) /\ i * pu + pick(u) + 1 = m
    BY <1>1, <1>2, <1>3, <1>9, <2>1
  <2> HIDE DEF m
  <2>6. dist.burst[m] = Addr(y + m - 1)
    BY <1>3, <2>2, <2>5
  <2>7. Addr(y + m - 1) \in Addresses
    BY <2>4, <2>5 DEF Addresses
  <2> QED BY <2>5, <2>6, <2>7
<1>11. \A u \in Lanes : u \in off .. off + W - 1 =>
         /\ Len(din[u]) < DEPTH /\ Addr(Dealt + (u - off)) \in Addresses
         /\ din'[u] = Append(din[u], Addr(Dealt + (u - off)))
  BY <1>7, <1>8, <1>10, Zenon
<1>12. \A u \in Lanes : u \notin off .. off + W - 1 => din'[u] = din[u]
  BY <1>7, <1>8, Zenon
<1> QED BY <1>2, <1>6, <1>11, <1>12 DEF W

\* The lane's counters are numbers.
LEMMA LaneCounts ==
  ASSUME LaneTypes, NEW u \in Lanes
  PROVE  /\ lane[u].i \in Nat /\ Looking(u) \in 0 .. 1 /\ Taken(u) \in Nat
         /\ Len(din[u]) \in Nat /\ Len(dout[u]) \in Nat
         /\ din[u] \in Seq(Addresses) /\ dout[u] \in Seq(Answers)
BY DEF LaneTypes, Looking, Taken

\* The lanes selected are lanes.
LEMMA SelectedLanes ==
  ASSUME opt \in CommandLines, StreamValid
  PROVE  \A u \in 0 .. pu - 1 : u \in Lanes
BY Options, Sizes, GatherAssumption DEF Lanes

\* A cycle of the distribution.
LEMMA DistWriteStep ==
  ASSUME opt \in CommandLines, Accepted, Flow, DistWrite
  PROVE  Flow'
<1> USE DEF Flow
<1>1. UNCHANGED setup /\ UNCHANGED <<burstsRead, inBurst, lane, dout, coll, outBurst, outbuf>>
  BY DEF DistWrite
<1>2. LanesOut' /\ Gathering' /\ BurstsOut'
  BY <1>1, Frame
<1>3. Width = Served(pu, IN_ENTRIES) /\ Width \in Nat \ {0} /\ Dealt \in Nat /\ pu \in Nat \ {0}
  BY DistCycle, Sizes DEF Accepted
<1>4. Dealt' = Dealt + Width
  BY DistWriteLanes
<1>5. PICK off \in Nat, q \in Int :
        /\ off + Width <= pu /\ Dealt = pu * q + off
        /\ \A u \in Lanes : u \in off .. off + Width - 1 =>
             /\ Len(din[u]) < DEPTH /\ Addr(Dealt + (u - off)) \in Addresses
             /\ din'[u] = Append(din[u], Addr(Dealt + (u - off)))
        /\ \A u \in Lanes : u \notin off .. off + Width - 1 => din'[u] = din[u]
  BY DistWriteLanes
<1>6. BurstsIn'
  <2>1. dist \in [burst_count : Nat, burst : Seq(Addresses), i : Nat] /\ dist.burst # NoBurst
    BY DEF BurstsIn, BurstCounts, DistWrite
  <2>2. dist' = IF (dist.i + 1) * Width < IN_ENTRIES THEN [dist EXCEPT !.i = dist.i + 1]
                ELSE [burst_count |-> dist.burst_count + 1, burst |-> NoBurst, i |-> 0]
    BY DEF DistWrite
  <2>3. Dealing = 1 /\ dist.burst_count + Len(inBurst) + 1 = burstsRead /\ Len(inBurst) \in Nat
    <3>1. Dealing = 1
      BY <2>1 DEF Dealing
    <3> QED BY <3>1 DEF BurstsIn, BurstCounts
  <2>4. CASE (dist.i + 1) * Width < IN_ENTRIES
    <3>1. /\ dist' \in [burst_count : Nat, burst : Seq(Addresses), i : Nat]
          /\ dist'.burst_count = dist.burst_count /\ dist'.burst = dist.burst /\ dist'.i = dist.i + 1
      BY <2>1, <2>2, <2>4
    <3>2. InCycle'
      BY <1>1, <1>3, <2>4, <3>1, Steady DEF InCycle
    <3>3. Dealing' = 1
      BY <2>1, <3>1 DEF Dealing, NoBurst
    <3>4. BurstCounts'
      BY <1>1, <2>1, <2>3, <3>1, <3>3, Steady DEF BurstsIn, BurstCounts, NoBurst
    <3>5. BurstData'
      BY <1>1, <3>1, Steady DEF BurstsIn, BurstData, InBurstIs
    <3> QED BY <3>2, <3>4, <3>5 DEF BurstsIn
  <2>5. CASE ~((dist.i + 1) * Width < IN_ENTRIES)
    <3>1. /\ dist' \in [burst_count : Nat, burst : Seq(Addresses), i : Nat]
          /\ dist'.burst_count = dist.burst_count + 1 /\ dist'.burst = NoBurst /\ dist'.i = 0
      BY <2>1, <2>2, <2>5 DEF NoBurst
    <3>2. InCycle'
      <4>1. IN_ENTRIES \in Nat \ {0}
        BY Sizes DEF Accepted
      <4> QED BY <1>1, <1>3, <3>1, <4>1, Steady DEF InCycle
    <3>3. Dealing' = 0
      BY <3>1 DEF Dealing, NoBurst
    <3>4. dist.burst_count + 1 + Len(inBurst) + 0 = burstsRead
      BY <2>1, <2>3
    <3>5. BurstCounts'
      BY <1>1, <3>1, <3>3, <3>4, Steady DEF BurstsIn, BurstCounts, NoBurst
    <3>6. BurstData'
      BY <1>1, <3>1, Steady DEF BurstsIn, BurstData, InBurstIs, NoBurst
    <3> QED BY <3>2, <3>5, <3>6 DEF BurstsIn
  <2> QED BY <2>4, <2>5
<1>7. \A u \in Lanes : /\ din'[u] \in Seq(Addresses) /\ Len(din'[u]) <= DEPTH
                       /\ pu <= u => din'[u] = << >>
  <2> SUFFICES ASSUME NEW u \in Lanes
               PROVE  din'[u] \in Seq(Addresses) /\ Len(din'[u]) <= DEPTH /\ (pu <= u => din'[u] = << >>)
    OBVIOUS
  <2>1. din[u] \in Seq(Addresses) /\ Len(din[u]) \in Nat /\ Len(din[u]) <= DEPTH /\ (pu <= u => din[u] = << >>)
    BY LaneCounts DEF LaneTypes
  <2>2. CASE u \in off .. off + Width - 1
    <3> DEFINE a == Addr(Dealt + (u - off))
    <3>0. din'[u] = Append(din[u], a) /\ a \in Addresses /\ Len(din[u]) < DEPTH
      BY <1>5, <2>2
    <3> HIDE DEF a
    <3>1. din'[u] \in Seq(Addresses) /\ Len(din'[u]) = Len(din[u]) + 1 /\ Len(din[u]) < DEPTH
      BY <2>1, <3>0
    <3>2. ~(pu <= u)
      BY <1>3, <1>5, <2>2
    <3> QED BY <2>1, <3>1, <3>2, GatherAssumption
  <2>3. CASE u \notin off .. off + Width - 1
    BY <1>5, <2>1, <2>3
  <2> QED BY <2>2, <2>3
<1>8. LaneTypes'
  <2>1. din' \in [Lanes -> Seq(Addresses)]
    <3>1. din' = [u \in Lanes |-> din'[u]]
      BY DEF DistWrite
    <3> QED BY <1>7, <3>1
  <2> QED BY <1>1, <1>7, <2>1, Steady DEF LaneTypes
<1>9. LanesIn'
  <2> SUFFICES ASSUME NEW u \in 0 .. pu - 1 PROVE LaneIn(u)'
    BY <1>1, Steady DEF LanesIn
  <2> DEFINE n == Taken(u) + Len(din[u])
  <2>1. u \in Lanes
    BY SelectedLanes DEF Accepted
  <2>2. /\ Taken(u) \in Nat /\ Len(din[u]) \in Nat /\ din[u] \in Seq(Addresses) /\ n \in Nat
        /\ Taken(u)' = Taken(u)
    BY <1>1, <2>1, LaneCounts DEF Taken, Looking
  <2>3. LaneIn(u)
    BY DEF LanesIn
  <2>4. Dealt <= u + pu * n /\ u + pu * n < Dealt + pu
    BY <2>3 DEF LaneIn, LookupOf
  <2>5. \A j \in 1 .. Len(din[u]) : din[u][j] = Addr(u + pu * (Taken(u) + j - 1))
    BY <2>3 DEF LaneIn, LookupOf
  <2>6. LaneIn(u)' <=>
          /\ Dealt + Width <= u + pu * (Taken(u) + Len(din'[u]))
          /\ u + pu * (Taken(u) + Len(din'[u])) < Dealt + Width + pu
          /\ \A j \in 1 .. Len(din'[u]) : din'[u][j] = Addr(u + pu * (Taken(u) + j - 1))
    BY <1>1, <1>4, <2>2, Steady DEF LaneIn, LookupOf
  <2> HIDE DEF n
  <2>7. /\ u \in off .. off + Width - 1 => u + pu * n = Dealt + (u - off)
        /\ u \notin off .. off + Width - 1 => Dealt + Width <= u + pu * n
    <3>1. TurnIs(pu, Dealt, off, Width, u, n)
      <4>1. TurnAt(pu, q, Dealt, off, Width, u, n)
        BY <1>5, <2>4 DEF TurnAt
      <4>2. n \in Int /\ Dealt \in Int /\ Width \in Nat
        BY <1>3, <2>2
      <4> QED BY <1>3, <4>1, <4>2, Turn
    <3> QED BY <3>1 DEF TurnIs
  <2>8. pu * n \in Int /\ pu * (n + 1) = pu * n + pu
    BY <1>3, <2>2, Z3
  <2>9. CASE u \in off .. off + Width - 1
    <3>1. din'[u] = Append(din[u], Addr(u + pu * n))
      BY <1>5, <2>1, <2>7, <2>9
    <3>2. Len(din'[u]) = Len(din[u]) + 1
      BY <2>2, <3>1
    <3>3. Taken(u) + Len(din'[u]) = n + 1
      BY <2>2, <3>2 DEF n
    <3>4. Dealt + Width <= u + pu * (n + 1) /\ u + pu * (n + 1) < Dealt + Width + pu
      BY <1>3, <1>5, <2>7, <2>8, <2>9
    <3>5. \A j \in 1 .. Len(din'[u]) : din'[u][j] = Addr(u + pu * (Taken(u) + j - 1))
      <4> SUFFICES ASSUME NEW j \in 1 .. Len(din'[u])
                   PROVE  din'[u][j] = Addr(u + pu * (Taken(u) + j - 1))
        OBVIOUS
      <4>1. CASE j = Len(din[u]) + 1
        <5>1. Taken(u) + j - 1 = n
          BY <2>2, <4>1 DEF n
        <5>2. din'[u][j] = Addr(u + pu * n)
          BY <2>2, <3>1, <4>1
        <5> QED BY <5>1, <5>2
      <4>2. CASE j \in 1 .. Len(din[u])
        <5>1. din'[u][j] = din[u][j]
          BY <2>2, <3>1, <4>2
        <5> QED BY <2>5, <4>2, <5>1
      <4> QED BY <2>2, <3>2, <4>1, <4>2
    <3> QED BY <2>6, <3>3, <3>4, <3>5
  <2>10. CASE u \notin off .. off + Width - 1
    <3>1. din'[u] = din[u]
      BY <1>5, <2>1, <2>10
    <3>2. Dealt + Width <= u + pu * n /\ u + pu * n < Dealt + Width + pu
      BY <1>3, <2>4, <2>7, <2>8, <2>10
    <3> QED BY <2>5, <2>6, <3>1, <3>2 DEF n
  <2> QED BY <2>9, <2>10
<1> QED BY <1>2, <1>6, <1>8, <1>9

\* A lane takes a lookup and reads the memory.
LEMMA LaneReadStep ==
  ASSUME opt \in CommandLines, Accepted, Flow, NEW v \in Lanes, LaneRead(v)
  PROVE  Flow'
<1> USE DEF Flow
<1>1. UNCHANGED setup /\ UNCHANGED <<burstsRead, inBurst, dist, dout, coll, outBurst, outbuf>>
  BY DEF LaneRead
<1>2. BurstsIn' /\ Gathering' /\ BurstsOut' /\ Dealt' = Dealt /\ Collected' = Collected
  BY <1>1, Frame
<1>3. pu \in Nat \ {0} /\ v \in 0 .. pu - 1
  BY Sizes, Mode, GatherAssumption DEF Accepted, LaneRead, Go, Lanes
<1> DEFINE f == Fetch(Head(din[v]))
<1>4. lane[v].i \in Nat /\ lane[v].item = << >> /\ din[v] \in Seq(Addresses) /\ din[v] # << >>
  BY LaneCounts DEF LaneRead
<1>5. f \in Answers /\ f # << >>
  <2>1. Head(din[v]) \in Addresses
    BY <1>4
  <2>2. f \in Answers
    BY <2>1 DEF Addresses, Answers, Ans
  <2>3. f # << >>
    BY DEF Fetch
  <2> QED BY <2>2, <2>3
<1>6. /\ lane' = [lane EXCEPT ![v] = [i |-> lane[v].i, item |-> f]]
      /\ din' = [din EXCEPT ![v] = Tail(din[v])]
  <2>1. lane' = [lane EXCEPT ![v].item = f] /\ din' = [din EXCEPT ![v] = Tail(din[v])]
    BY DEF LaneRead
  <2>2. lane[v] \in [i : Nat, item : Answers \cup {<< >>}]
    BY DEF LaneTypes
  <2> HIDE DEF f
  <2>3. [lane[v] EXCEPT !.item = f] = [i |-> lane[v].i, item |-> f]
    BY <2>2
  <2>4. [lane EXCEPT ![v].item = f] = [lane EXCEPT ![v] = [lane[v] EXCEPT !.item = f]]
    BY DEF LaneTypes
  <2> QED BY <2>1, <2>3, <2>4
<1>7. f = Fetch(Head(din[v]))
  OBVIOUS
<1> HIDE DEF f
<1>8. Len(din'[v]) = Len(din[v]) - 1 /\ din'[v] = Tail(din[v]) /\ din'[v] \in Seq(Addresses)
  BY <1>4, <1>6 DEF LaneTypes
<1>9. LaneTypes'
  <2>1. din' \in [Lanes -> Seq(Addresses)]
    BY <1>4, <1>6 DEF LaneTypes
  <2>2. lane' \in [Lanes -> [i : Nat, item : Answers \cup {<< >>}]]
    BY <1>4, <1>5, <1>6 DEF LaneTypes
  <2>3. \A u \in Lanes : Len(din'[u]) <= DEPTH
    BY <1>4, <1>6, <1>8, GatherAssumption DEF LaneTypes
  <2>4. \A u \in Lanes : pu <= u => din'[u] = << >> /\ dout[u] = << >> /\ lane'[u] = [i |-> 0, item |-> << >>]
    BY <1>3, <1>6 DEF LaneTypes
  <2> QED BY <1>1, <2>1, <2>2, <2>3, <2>4, Steady DEF LaneTypes
<1>10. lane'[v].i = lane[v].i /\ lane'[v].item = f
  BY <1>6 DEF LaneTypes
<1>11. \A u \in Lanes : u # v => lane'[u] = lane[u] /\ din'[u] = din[u]
  BY <1>6 DEF LaneTypes
<1>12. Taken(v) = lane[v].i /\ Taken(v)' = lane[v].i + 1
  <2>1. Looking(v) = 0 /\ Looking(v)' = 1
    BY <1>4, <1>5, <1>10 DEF Looking
  <2> QED BY <1>4, <1>10, <2>1 DEF Taken
<1>13. LaneIn(v)
  BY <1>3 DEF LanesIn
<1>14. LanesIn'
  <2> SUFFICES ASSUME NEW u \in 0 .. pu - 1 PROVE LaneIn(u)'
    BY <1>1, Steady DEF LanesIn
  <2>1. u \in Lanes
    BY SelectedLanes DEF Accepted
  <2>2. CASE u # v
    <3>1. Taken(u)' = Taken(u) /\ din'[u] = din[u] /\ LaneIn(u)
      BY <1>11, <2>1, <2>2 DEF Taken, Looking, LanesIn
    <3> QED BY <1>1, <1>2, <3>1, Steady DEF LaneIn, LookupOf
  <2>3. CASE u = v
    <3> DEFINE t == lane[v].i
    <3>1. t \in Nat /\ Len(din[v]) \in Nat
      BY <1>4
    <3>2. (t + 1) + Len(din'[v]) = t + Len(din[v])
      BY <1>8, <3>1
    <3>3. \A j \in 1 .. Len(din'[v]) : din'[v][j] = Addr(LookupOf(v, (t + 1) + j - 1))
      <4> SUFFICES ASSUME NEW j \in 1 .. Len(din'[v])
                   PROVE  din'[v][j] = Addr(LookupOf(v, (t + 1) + j - 1))
        OBVIOUS
      <4>1. j + 1 \in 1 .. Len(din[v]) /\ t + (j + 1) - 1 = (t + 1) + j - 1
        BY <1>8, <3>1
      <4>2. din'[v][j] = din[v][j + 1]
        BY <1>4, <1>8, <3>1
      <4>3. din[v][j + 1] = Addr(LookupOf(v, t + (j + 1) - 1))
        BY <1>12, <1>13, <4>1 DEF LaneIn
      <4> QED BY <4>1, <4>2, <4>3
    <3> HIDE DEF t
    <3>4. /\ Dealt <= LookupOf(v, (t + 1) + Len(din'[v]))
          /\ LookupOf(v, (t + 1) + Len(din'[v])) < Dealt + pu
      BY <1>12, <1>13, <3>2 DEF LaneIn, t
    <3>5. LaneIn(v)'
      BY <1>1, <1>2, <1>12, <3>3, <3>4, Steady DEF LaneIn, LookupOf, t
    <3> QED BY <2>3, <3>5
  <2> QED BY <2>2, <2>3
<1>15. LanesOut'
  <2> SUFFICES ASSUME NEW u \in 0 .. pu - 1 PROVE LaneOut(u)'
    BY <1>1, Steady DEF LanesOut
  <2>1. u \in Lanes /\ LaneOut(u)
    BY SelectedLanes DEF Accepted, LanesOut
  <2>2. CASE u # v
    <3>1. lane'[u] = lane[u]
      BY <1>11, <2>1, <2>2
    <3> QED BY <1>1, <1>2, <2>1, <3>1, Steady DEF LaneOut, LookupOf
  <2>3. CASE u = v
    <3>1. 1 \in 1 .. Len(din[v]) /\ din[v][1] = Head(din[v]) /\ lane[v].i + 1 - 1 = lane[v].i
      BY <1>4
    <3>2. Head(din[v]) = Addr(LookupOf(v, lane[v].i))
      <4>1. din[v][1] = Addr(LookupOf(v, lane[v].i + 1 - 1))
        BY <1>12, <1>13, <3>1 DEF LaneIn
      <4> QED BY <3>1, <4>1
    <3>3. lane'[v].item = Ans(LookupOf(v, lane[v].i))
      BY <1>7, <1>10, <3>2 DEF Ans
    <3>4. LaneOut(v)'
      BY <1>1, <1>2, <1>10, <2>1, <2>3, <3>3, Steady DEF LaneOut, LookupOf
    <3> QED BY <2>3, <3>4
  <2> QED BY <2>2, <2>3
<1> QED BY <1>2, <1>9, <1>14, <1>15

\* A lane writes the words it has read.
LEMMA LaneWriteStep ==
  ASSUME opt \in CommandLines, Accepted, Flow, NEW v \in Lanes, LaneWrite(v)
  PROVE  Flow'
<1> USE DEF Flow
<1>1. UNCHANGED setup /\ UNCHANGED <<burstsRead, inBurst, dist, din, coll, outBurst, outbuf>>
  BY DEF LaneWrite
<1>2. BurstsIn' /\ Gathering' /\ BurstsOut' /\ Dealt' = Dealt /\ Collected' = Collected
  BY <1>1, Frame
<1>3. lane[v].item # << >>
  BY DEF LaneWrite
<1>4. pu \in Nat \ {0} /\ v \in 0 .. pu - 1
  <2>1. ~(pu <= v)
    BY <1>3 DEF LaneTypes
  <2> QED BY <2>1, Sizes, GatherAssumption DEF Accepted, Lanes
<1>5. /\ lane[v].i \in Nat /\ lane[v].item \in Answers
      /\ dout[v] \in Seq(Answers) /\ Len(dout[v]) \in Nat /\ Len(dout[v]) < DEPTH
  BY <1>3, LaneCounts DEF LaneWrite, LaneTypes
<1>6. /\ lane' = [lane EXCEPT ![v] = [i |-> lane[v].i + 1, item |-> << >>]]
      /\ dout' = [dout EXCEPT ![v] = Append(dout[v], lane[v].item)]
  BY DEF LaneWrite, LaneTypes
<1>7. /\ lane'[v].i = lane[v].i + 1 /\ lane'[v].item = << >>
      /\ dout'[v] = Append(dout[v], lane[v].item)
      /\ dout'[v] \in Seq(Answers) /\ Len(dout'[v]) = Len(dout[v]) + 1
  BY <1>5, <1>6 DEF LaneTypes
<1>8. \A u \in Lanes : u # v => lane'[u] = lane[u] /\ dout'[u] = dout[u]
  BY <1>6 DEF LaneTypes
<1>9. LaneTypes'
  <2>1. dout' \in [Lanes -> Seq(Answers)]
    BY <1>6, <1>7 DEF LaneTypes
  <2>2. lane' \in [Lanes -> [i : Nat, item : Answers \cup {<< >>}]]
    BY <1>5, <1>6 DEF LaneTypes
  <2>3. \A u \in Lanes : Len(dout'[u]) <= DEPTH
    <3>1. Len(dout'[v]) <= DEPTH
      BY <1>5, <1>7, GatherAssumption
    <3> QED BY <1>8, <3>1 DEF LaneTypes
  <2>4. \A u \in Lanes : pu <= u => din[u] = << >> /\ dout'[u] = << >> /\ lane'[u] = [i |-> 0, item |-> << >>]
    BY <1>4, <1>8 DEF LaneTypes
  <2> QED BY <1>1, <2>1, <2>2, <2>3, <2>4, Steady DEF LaneTypes
<1>10. LanesIn'
  <2> SUFFICES ASSUME NEW u \in 0 .. pu - 1 PROVE LaneIn(u)'
    BY <1>1, Steady DEF LanesIn
  <2>1. u \in Lanes /\ LaneIn(u)
    BY SelectedLanes DEF Accepted, LanesIn
  <2>2. Taken(u)' = Taken(u)
    <3>1. CASE u = v
      <4>1. Looking(v) = 1 /\ Looking(v)' = 0
        BY <1>3, <1>7 DEF Looking
      <4> QED BY <1>5, <1>7, <3>1, <4>1 DEF Taken
    <3>2. CASE u # v
      BY <1>8, <2>1, <3>2 DEF Taken, Looking
    <3> QED BY <3>1, <3>2
  <2> QED BY <1>1, <1>2, <2>1, <2>2, Steady DEF LaneIn, LookupOf
<1>11. LanesOut'
  <2> SUFFICES ASSUME NEW u \in 0 .. pu - 1 PROVE LaneOut(u)'
    BY <1>1, Steady DEF LanesOut
  <2>1. u \in Lanes /\ LaneOut(u)
    BY SelectedLanes DEF Accepted, LanesOut
  <2>2. CASE u # v
    <3>1. lane'[u] = lane[u] /\ dout'[u] = dout[u]
      BY <1>8, <2>1, <2>2
    <3> QED BY <1>1, <1>2, <2>1, <3>1, Steady DEF LaneOut, LookupOf
  <2>3. CASE u = v
    <3> DEFINE s == lane[v].i - Len(dout[v])
    <3>1. LaneOut(v)
      BY <2>1, <2>3
    <3>2. /\ s \in Nat /\ lane[v].item = Ans(LookupOf(v, lane[v].i))
          /\ lane'[v].i - Len(dout'[v]) = s /\ Len(dout'[v]) <= lane'[v].i
          /\ s + (Len(dout[v]) + 1) - 1 = lane[v].i
      BY <1>3, <1>5, <1>7, <3>1 DEF LaneOut
    <3>3. Collected <= LookupOf(v, s) /\ LookupOf(v, s) < Collected + pu
      BY <3>1 DEF LaneOut
    <3>4. \A j \in 1 .. Len(dout'[v]) : dout'[v][j] = Ans(LookupOf(v, s + j - 1))
      <4> SUFFICES ASSUME NEW j \in 1 .. Len(dout'[v])
                   PROVE  dout'[v][j] = Ans(LookupOf(v, s + j - 1))
        OBVIOUS
      <4>1. CASE j = Len(dout[v]) + 1
        <5>1. dout'[v][j] = lane[v].item
          BY <1>5, <1>7, <4>1
        <5> QED BY <3>2, <4>1, <5>1
      <4>2. CASE j \in 1 .. Len(dout[v])
        <5>1. dout'[v][j] = dout[v][j]
          BY <1>5, <1>7, <4>2
        <5>2. dout[v][j] = Ans(LookupOf(v, s + j - 1))
          BY <3>1, <4>2 DEF LaneOut
        <5> QED BY <5>1, <5>2
      <4> QED BY <1>5, <1>7, <4>1, <4>2
    <3> HIDE DEF s
    <3>5. LaneOut(v)'
      BY <1>1, <1>2, <1>7, <3>2, <3>3, <3>4, Steady DEF LaneOut, LookupOf
    <3> QED BY <2>3, <3>5
  <2> QED BY <2>2, <2>3
<1> QED BY <1>2, <1>9, <1>10, <1>11

\* One cycle of the collection: the lanes read follow one another, from the one whose
\* turn it is.
LEMMA CollCycle ==
  ASSUME opt \in CommandLines, Accepted, Gathering, Len(coll.dout) < OUT_ENTRIES
  PROVE  /\ CollWidth = Served(pu, OUT_ENTRIES) /\ CollWidth \in Nat \ {0}
         /\ Collected \in Nat /\ Len(coll.dout) + CollWidth <= OUT_ENTRIES
         /\ \E off \in Nat, q \in Int : /\ off + CollWidth <= pu /\ Collected = pu * q + off
                                        /\ \A idx \in 0 .. CollWidth - 1 : CollLane(idx) = off + idx
<1> DEFINE L == Len(coll.dout)
<1> DEFINE b == coll.burst_count
<1> DEFINE E == OUT_ENTRIES
<1> DEFINE W == Served(pu, E)
<1> DEFINE off == First(pu, E, b)
<1>1. pu \in Nat \ {0} /\ E \in Nat \ {0} /\ Even(pu, E) /\ totalOutBurst \in Nat
  BY Sizes, Totals DEF Accepted, Even
<1>2. CollWidth = W /\ \A idx \in Nat : CollLane(idx) = off + idx
  BY <1>1, Mode DEF CollWidth, Served, First, CollLane
<1>3. L \in Nat /\ b \in Nat /\ L % W = 0 /\ L < E
  BY <1>1 DEF Gathering
<1>4. Collected = b * E + L
  BY DEF Collected
<1>5. W \in Nat \ {0}
  BY <1>1 DEF Served
<1> HIDE DEF L, b, E
<1> DEFINE i == L \div W
<1>6. i \in Nat /\ L = i * W
  <2> HIDE DEF W
  <2>1. i \in Nat /\ L = W * i + (L % W)
    BY <1>3, <1>5, DivNat
  <2> HIDE DEF i
  <2> QED BY <1>3, <1>5, <2>1, Z3
<1> HIDE DEF i
<1>7. CycleFits(pu, E, b, i)
  BY <1>1, <1>3, <1>6, Cycle
<1>8. /\ off \in Nat /\ off + W <= pu /\ (i + 1) * W <= E
      /\ \E q \in Int : b * E + i * W = pu * q + off
  BY <1>7 DEF CycleFits
<1> HIDE DEF W, off
<1>9. b * E + L \in Nat /\ L + W <= E
  BY <1>1, <1>3, <1>5, <1>6, <1>8, Z3
<1>10. \E o \in Nat, p \in Int : /\ o + CollWidth <= pu /\ Collected = pu * p + o
                                 /\ \A idx \in 0 .. CollWidth - 1 : CollLane(idx) = o + idx
  BY <1>2, <1>4, <1>5, <1>6, <1>8
<1> QED BY <1>2, <1>4, <1>5, <1>9, <1>10 DEF L, E, W

\* A cycle of the collection takes one answer from each lane whose turn it is.
LEMMA CollReadStep ==
  ASSUME opt \in CommandLines, Accepted, Flow, CollRead
  PROVE  Flow'
<1> USE DEF Flow
<1>1. UNCHANGED setup /\ UNCHANGED <<burstsRead, inBurst, dist, din, lane, outBurst, outbuf>>
  BY DEF CollRead
<1>2. BurstsIn' /\ LanesIn'
  BY <1>1, Frame
<1> DEFINE W == CollWidth
<1> DEFINE L == Len(coll.dout)
<1>3. /\ CollWidth = Served(pu, OUT_ENTRIES) /\ W \in Nat \ {0} /\ Collected \in Nat
      /\ L + W <= OUT_ENTRIES /\ pu \in Nat \ {0}
  BY CollCycle, Sizes DEF CollRead, Accepted
<1>4. PICK off \in Nat, q \in Int : /\ off + W <= pu /\ Collected = pu * q + off
                                    /\ \A idx \in 0 .. W - 1 : CollLane(idx) = off + idx
  BY CollCycle DEF CollRead
<1>5. coll \in [burst_count : 0 .. totalOutBurst, dout : Seq(Answers)] /\ L \in Nat
  BY DEF Gathering
<1> DEFINE from == {CollLane(idx) : idx \in 0 .. W - 1}
<1> DEFINE heads == [k \in 1 .. W |-> Head(dout[CollLane(k - 1)])]
<1>6. /\ \A u \in from : dout[u] # << >>
      /\ dout' = [u \in Lanes |-> IF u \in from THEN Tail(dout[u]) ELSE dout[u]]
      /\ coll' = [coll EXCEPT !.dout = coll.dout \o heads]
  BY Zenon DEF CollRead
<1>7. \A u \in Lanes : u \in from <=> u \in off .. off + W - 1
  <2> HIDE DEF W
  <2> SUFFICES ASSUME NEW u \in Lanes PROVE u \in from <=> u \in off .. off + W - 1
    OBVIOUS
  <2>1. u \in Int
    BY GatherAssumption DEF Lanes
  <2>2. ASSUME u \in off .. off + W - 1 PROVE u \in from
    <3>1. u - off \in 0 .. W - 1 /\ off + (u - off) = u
      BY <1>3, <1>4, <2>1, <2>2
    <3> QED BY <1>4, <3>1
  <2>3. ASSUME u \in from PROVE u \in off .. off + W - 1
    <3>1. PICK idx \in 0 .. W - 1 : u = CollLane(idx)
      BY <2>3
    <3> QED BY <1>3, <1>4, <3>1
  <2> QED BY <2>2, <2>3
<1> HIDE DEF from, heads, W, L
\* The lanes in turn have the next answers.
<1>8. \A u \in 0 .. pu - 1 :
        /\ u \in Lanes /\ LaneOut(u)
        /\ lane[u].i \in Nat /\ Len(dout[u]) \in Nat /\ dout[u] \in Seq(Answers)
        /\ lane[u].i - Len(dout[u]) \in Nat
  <2> SUFFICES ASSUME NEW u \in 0 .. pu - 1
               PROVE  /\ u \in Lanes /\ LaneOut(u)
                      /\ lane[u].i \in Nat /\ Len(dout[u]) \in Nat /\ dout[u] \in Seq(Answers)
                      /\ lane[u].i - Len(dout[u]) \in Nat
    OBVIOUS
  <2>1. u \in Lanes /\ LaneOut(u)
    BY SelectedLanes DEF Accepted, LanesOut
  <2>2. lane[u].i \in Nat /\ Len(dout[u]) \in Nat /\ dout[u] \in Seq(Answers)
    BY <2>1, LaneCounts
  <2>3. Len(dout[u]) <= lane[u].i
    BY <2>1 DEF LaneOut
  <2> QED BY <2>1, <2>2, <2>3
<1>9. \A u \in 0 .. pu - 1 : TurnIs(pu, Collected, off, W, u, lane[u].i - Len(dout[u]))
  <2> SUFFICES ASSUME NEW u \in 0 .. pu - 1
               PROVE  TurnIs(pu, Collected, off, W, u, lane[u].i - Len(dout[u]))
    OBVIOUS
  <2> DEFINE n == lane[u].i - Len(dout[u])
  <2>1. n \in Int /\ Collected <= u + pu * n /\ u + pu * n < Collected + pu
    BY <1>8 DEF LaneOut, LookupOf
  <2> HIDE DEF n
  <2>2. TurnAt(pu, q, Collected, off, W, u, n)
    BY <1>4, <2>1 DEF TurnAt
  <2>3. Collected \in Int /\ W \in Nat
    BY <1>3
  <2>4. TurnIs(pu, Collected, off, W, u, n)
    BY <1>3, <2>1, <2>2, <2>3, Turn
  <2> QED BY <2>4 DEF n
<1>10. \A k \in 1 .. W : heads[k] = Ans(Collected + k - 1) /\ heads[k] \in Answers
  <2> SUFFICES ASSUME NEW k \in 1 .. W PROVE heads[k] = Ans(Collected + k - 1) /\ heads[k] \in Answers
    OBVIOUS
  <2> DEFINE u == off + (k - 1)
  <2> DEFINE n == lane[u].i - Len(dout[u])
  <2>1. k - 1 \in 0 .. W - 1 /\ u \in 0 .. pu - 1 /\ u \in off .. off + W - 1 /\ u - off = k - 1
    BY <1>3, <1>4
  <2>2. CollLane(k - 1) = u
    BY <1>4, <2>1
  <2>3. heads[k] = Head(dout[u])
    BY <2>2 DEF heads
  <2> HIDE DEF u
  <2>4. dout[u] # << >> /\ dout[u] \in Seq(Answers) /\ Len(dout[u]) \in Nat
    BY <1>6, <1>7, <1>8, <2>1
  <2>5. Head(dout[u]) = dout[u][1] /\ 1 \in 1 .. Len(dout[u]) /\ Head(dout[u]) \in Answers
    BY <2>4
  <2>6. dout[u][1] = Ans(LookupOf(u, n + 1 - 1)) /\ n \in Nat
    BY <1>8, <2>1, <2>5 DEF LaneOut
  <2>7. TurnIs(pu, Collected, off, W, u, n)
    BY <1>9, <2>1
  <2> HIDE DEF n
  <2>8. LookupOf(u, n + 1 - 1) = Collected + k - 1
    <3>1. n + 1 - 1 = n
      BY <2>6
    <3>2. u + pu * n = Collected + (u - off)
      BY <2>1, <2>7 DEF TurnIs
    <3>3. Collected + (u - off) = Collected + k - 1
      BY <1>3, <2>1
    <3> QED BY <3>1, <3>2, <3>3 DEF LookupOf
  <2> QED BY <2>3, <2>5, <2>6, <2>8
<1>11. heads \in Seq(Answers) /\ Len(heads) = W
  <2>1. heads = [k \in 1 .. W |-> heads[k]]
    BY DEF heads
  <2>2. heads \in [1 .. W -> Answers]
    BY <1>10, <2>1
  <2> QED BY <1>3, <2>2
<1> DEFINE joined == coll.dout \o heads
<1>12. /\ joined \in Seq(Answers) /\ Len(joined) = L + W
       /\ \A m \in 1 .. L + W : joined[m] = IF m <= L THEN coll.dout[m] ELSE heads[m - L]
  <2>1. coll.dout \in Seq(Answers)
    BY <1>5
  <2> QED BY <1>11, <2>1, ConcatProperties DEF L
<1>13. coll' \in [burst_count : 0 .. totalOutBurst, dout : Seq(Answers)]
       /\ coll'.burst_count = coll.burst_count /\ coll'.dout = joined
  BY <1>5, <1>6, <1>12
<1> HIDE DEF joined
<1>14. Collected' = Collected + W /\ Collected = coll.burst_count * OUT_ENTRIES + L
  <2>1. Collected' = coll.burst_count * OUT_ENTRIES + (L + W)
    BY <1>1, <1>12, <1>13, Steady DEF Collected
  <2>2. Collected = coll.burst_count * OUT_ENTRIES + L
    BY DEF Collected, L
  <2>3. coll.burst_count * OUT_ENTRIES \in Int
    <3>1. coll.burst_count \in Int /\ OUT_ENTRIES \in Int
      BY <1>5, Sizes, Totals DEF Accepted
    <3> QED BY <3>1, Z3
  <2> QED BY <1>3, <1>5, <2>1, <2>2, <2>3
<1>15. Gathering'
  <2>1. Len(coll'.dout) % W = 0
    <3>1. L % W = 0
      BY <1>3, Zenon DEF Gathering, L, W
    <3>2. (L + W) % W = 0
      BY <1>3, <1>5, <3>1, MultipleShift
    <3> QED BY <1>12, <1>13, <3>2, Zenon
  <2>2. \A m \in 1 .. Len(coll'.dout) : coll'.dout[m] = Ans(coll.burst_count * OUT_ENTRIES + m - 1)
    <3> DEFINE y == coll.burst_count * OUT_ENTRIES
    <3>1. y \in Int /\ Collected = y + L
      <4>1. coll.burst_count \in Int /\ OUT_ENTRIES \in Int
        BY <1>5, Sizes, Totals DEF Accepted
      <4> QED BY <1>14, <4>1, Z3
    <3>2. \A m \in 1 .. L : coll.dout[m] = Ans(y + m - 1)
      BY DEF Gathering, L
    <3> HIDE DEF y
    <3> SUFFICES ASSUME NEW m \in 1 .. L + W PROVE joined[m] = Ans(y + m - 1)
      BY <1>12, <1>13 DEF y
    <3>3. CASE m <= L
      BY <1>5, <1>12, <3>2, <3>3
    <3>4. CASE m > L
      <4>1. m - L \in 1 .. W /\ Collected + (m - L) - 1 = y + m - 1
        BY <1>3, <1>5, <3>1, <3>4
      <4>2. joined[m] = heads[m - L]
        BY <1>5, <1>12, <3>4
      <4> QED BY <1>10, <4>1, <4>2
    <3> QED BY <1>5, <3>3, <3>4
  <2>3. coll.burst_count # totalOutBurst
    BY <1>5, Totals DEF CollRead, Accepted
  <2>4. Len(coll'.dout) <= OUT_ENTRIES
    BY <1>3, <1>12, <1>13
  <2>5. (Len(coll.dout) % Served(pu, OUT_ENTRIES) = 0)'
    <3>1. Served(pu, OUT_ENTRIES)' = W
      BY <1>1, <1>3, Steady, Zenon DEF W
    <3> QED BY <2>1, <3>1, Zenon
  <2> QED BY <1>1, <1>13, <2>2, <2>3, <2>4, <2>5, Steady DEF Gathering
<1>16. BurstsOut'
  BY <1>1, <1>13, Steady DEF BurstsOut, OutBurstIs
<1>17. \A u \in Lanes : /\ u \in off .. off + W - 1 => dout'[u] = Tail(dout[u]) /\ dout[u] # << >>
                        /\ u \notin off .. off + W - 1 => dout'[u] = dout[u]
  BY <1>6, <1>7
<1>18. LaneTypes'
  <2>1. \A u \in Lanes : /\ dout'[u] \in Seq(Answers) /\ Len(dout'[u]) <= DEPTH
                         /\ pu <= u => dout'[u] = << >>
    <3> SUFFICES ASSUME NEW u \in Lanes
                 PROVE  /\ dout'[u] \in Seq(Answers) /\ Len(dout'[u]) <= DEPTH
                        /\ pu <= u => dout'[u] = << >>
      OBVIOUS
    <3>1. /\ dout[u] \in Seq(Answers) /\ Len(dout[u]) \in Nat /\ Len(dout[u]) <= DEPTH
          /\ pu <= u => dout[u] = << >>
      BY LaneCounts DEF LaneTypes
    <3>2. CASE u \in off .. off + W - 1
      <4>0. dout'[u] = Tail(dout[u]) /\ dout[u] # << >>
        BY <1>17, <3>2
      <4>1. dout'[u] \in Seq(Answers) /\ Len(dout'[u]) = Len(dout[u]) - 1
        BY <3>1, <4>0, HeadTailProperties
      <4>2. ~(pu <= u)
        BY <1>3, <1>4, <3>2
      <4> QED BY <3>1, <4>1, <4>2, GatherAssumption
    <3>3. CASE u \notin off .. off + W - 1
      BY <1>17, <3>1, <3>3
    <3> QED BY <3>2, <3>3
  <2>2. dout' \in [Lanes -> Seq(Answers)]
    <3>1. dout' = [u \in Lanes |-> dout'[u]]
      BY <1>6
    <3> QED BY <2>1, <3>1
  <2> QED BY <1>1, <2>1, <2>2, Steady DEF LaneTypes
<1>19. LanesOut'
  <2> SUFFICES ASSUME NEW u \in 0 .. pu - 1 PROVE LaneOut(u)'
    BY <1>1, Steady DEF LanesOut
  <2> DEFINE n == lane[u].i - Len(dout[u])
  <2>1. /\ u \in Lanes /\ LaneOut(u) /\ lane[u].i \in Nat /\ Len(dout[u]) \in Nat
        /\ dout[u] \in Seq(Answers) /\ n \in Nat
    BY <1>8
  <2>2. TurnIs(pu, Collected, off, W, u, n)
    BY <1>9
  <2>3. /\ Collected <= u + pu * n /\ u + pu * n < Collected + pu
        /\ \A j \in 1 .. Len(dout[u]) : dout[u][j] = Ans(u + pu * (n + j - 1))
    BY <2>1 DEF LaneOut, LookupOf
  <2>4. LaneOut(u)' <=>
          /\ lane[u].item # << >> => lane[u].item = Ans(LookupOf(u, lane[u].i))
          /\ Len(dout'[u]) <= lane[u].i
          /\ Collected + W <= u + pu * (lane[u].i - Len(dout'[u]))
          /\ u + pu * (lane[u].i - Len(dout'[u])) < Collected + W + pu
          /\ \A j \in 1 .. Len(dout'[u]) : dout'[u][j] = Ans(u + pu * (lane[u].i - Len(dout'[u]) + j - 1))
    BY <1>1, <1>14, Steady DEF LaneOut, LookupOf
  <2>5. lane[u].item # << >> => lane[u].item = Ans(LookupOf(u, lane[u].i))
    BY <2>1 DEF LaneOut
  <2>6. pu * n \in Int /\ pu * (n + 1) = pu * n + pu
    <3> HIDE DEF n
    <3> QED BY <1>3, <2>1, Z3
  <2>7. CASE u \in off .. off + W - 1
    <3>1. /\ dout'[u] = Tail(dout[u]) /\ Len(dout'[u]) = Len(dout[u]) - 1
          /\ \A j \in 1 .. Len(dout'[u]) : dout'[u][j] = dout[u][j + 1]
      <4>1. dout'[u] = Tail(dout[u]) /\ dout[u] # << >>
        BY <1>17, <2>1, <2>7
      <4> QED BY <2>1, <4>1, HeadTailProperties
    <3>2. lane[u].i - Len(dout'[u]) = n + 1 /\ Len(dout'[u]) <= lane[u].i
      BY <2>1, <3>1
    <3> HIDE DEF n
    <3>3. u + pu * n = Collected + (u - off)
      BY <2>2, <2>7 DEF TurnIs
    <3>4. Collected + W <= u + pu * (n + 1) /\ u + pu * (n + 1) < Collected + W + pu
      BY <1>3, <1>4, <2>6, <2>7, <3>3
    <3>5. \A j \in 1 .. Len(dout'[u]) : dout'[u][j] = Ans(u + pu * ((n + 1) + j - 1))
      <4> SUFFICES ASSUME NEW j \in 1 .. Len(dout'[u])
                   PROVE  dout'[u][j] = Ans(u + pu * ((n + 1) + j - 1))
        OBVIOUS
      <4>1. j + 1 \in 1 .. Len(dout[u]) /\ n + (j + 1) - 1 = (n + 1) + j - 1
        BY <2>1, <3>1
      <4> QED BY <2>3, <3>1, <4>1
    <3> QED BY <2>4, <2>5, <3>2, <3>4, <3>5
  <2>8. CASE u \notin off .. off + W - 1
    <3>1. dout'[u] = dout[u]
      BY <1>17, <2>1, <2>8
    <3>2. Len(dout[u]) <= lane[u].i
      BY <2>1 DEF LaneOut
    <3>3. lane[u].i - Len(dout[u]) = n
      OBVIOUS
    <3> HIDE DEF n
    <3>4. Collected + W <= u + pu * n /\ u + pu * n < Collected + W + pu
      BY <1>3, <2>2, <2>3, <2>6, <2>8 DEF TurnIs
    <3> QED BY <2>3, <2>4, <2>5, <3>1, <3>2, <3>3, <3>4
  <2> QED BY <2>7, <2>8
<1> QED BY <1>2, <1>15, <1>16, <1>18, <1>19

\* An output burst that is complete goes to the stream.
LEMMA CollWriteStep ==
  ASSUME opt \in CommandLines, Accepted, Flow, CollWrite
  PROVE  Flow'
<1> USE DEF Flow
<1>1. UNCHANGED setup /\ UNCHANGED <<burstsRead, inBurst, dist, din, lane, dout, outbuf>>
  BY DEF CollWrite
<1>2. BurstsIn' /\ LaneTypes' /\ LanesIn'
  BY <1>1, Frame
<1> DEFINE c == coll.burst_count
<1> DEFINE E == OUT_ENTRIES
<1> DEFINE N == Len(outBurst)
<1>3. /\ E \in Nat \ {0} /\ totalOutBurst \in Nat
      /\ c \in 0 .. totalOutBurst /\ coll.dout \in Seq(Answers) /\ Len(coll.dout) = E
      /\ outBurst \in Seq(Seq(Answers)) /\ N \in Nat /\ N <= c /\ N < DEPTH
  BY Sizes, Totals DEF Accepted, Gathering, BurstsOut, CollWrite
<1>4. c < totalOutBurst
  BY <1>3 DEF Gathering
<1>5. /\ coll' = [burst_count |-> c + 1, dout |-> << >>]
      /\ outBurst' = Append(outBurst, coll.dout)
  BY DEF CollWrite
<1>6. coll'.burst_count = c + 1 /\ coll'.dout = << >> /\ Len(coll'.dout) = 0
  BY <1>5
<1>7. OutBurstIs(coll.dout, c)
  BY <1>3 DEF Gathering, OutBurstIs
<1>8. Collected' = Collected
  <2>1. Collected' = (c + 1) * E + 0
    BY <1>1, <1>6, Steady DEF Collected
  <2>2. Collected = c * E + E
    BY <1>3 DEF Collected
  <2> HIDE DEF c, E
  <2>3. (c + 1) * E + 0 = c * E + E
    BY <1>3, Z3
  <2> QED BY <2>1, <2>2, <2>3
<1>9. LanesOut'
  BY <1>1, <1>8, Frame
<1>10. Gathering'
  <2>1. coll' \in [burst_count : 0 .. totalOutBurst, dout : Seq(Answers)]
    BY <1>3, <1>4, <1>5
  <2>2. 0 % Served(pu, OUT_ENTRIES) = 0
    <3>1. Served(pu, OUT_ENTRIES) \in Nat \ {0}
      BY Sizes DEF Accepted, Served
    <3> QED BY <3>1
  <2> QED BY <1>1, <1>3, <1>6, <2>1, <2>2, Steady DEF Gathering
<1>11. BurstsOut'
  <2>1. /\ outBurst' \in Seq(Seq(Answers)) /\ Len(outBurst') = N + 1
        /\ outBurst'[N + 1] = coll.dout /\ \A j \in 1 .. N : outBurst'[j] = outBurst[j]
    BY <1>3, <1>5
  <2>2. Len(outBurst') <= DEPTH /\ Len(outBurst') <= coll'.burst_count /\ coll'.burst_count - Len(outBurst') = c - N
    BY <1>3, <1>6, <2>1, GatherAssumption
  <2>3. \A j \in 1 .. Len(outBurst') : OutBurstIs(outBurst'[j], (c - N) + j - 1)
    <3> SUFFICES ASSUME NEW j \in 1 .. N + 1 PROVE OutBurstIs(outBurst'[j], (c - N) + j - 1)
      BY <2>1
    <3>1. CASE j \in 1 .. N
      BY <2>1, <3>1 DEF BurstsOut
    <3>2. CASE j = N + 1
      <4>1. (c - N) + j - 1 = c
        BY <1>3, <3>2
      <4> QED BY <1>7, <2>1, <3>2, <4>1
    <3> QED BY <1>3, <3>1, <3>2
  <2>4. \A j \in 1 .. Len(outBurst') : OutBurstIs(outBurst[j], coll.burst_count - Len(outBurst) + j - 1)'
    BY <1>1, <2>2, <2>3, Steady DEF OutBurstIs
  <2>5. Len(outbuf[outSel])' = (coll'.burst_count - Len(outBurst')) * OUT_ENTRIES'
    BY <1>1, <2>2, Steady DEF BurstsOut
  <2> QED BY <1>1, <2>1, <2>2, <2>4, <2>5, Steady DEF BurstsOut
<1> QED BY <1>2, <1>9, <1>10, <1>11

\* An output burst is written behind the ones before it.
LEMMA WriteOutStep ==
  ASSUME opt \in CommandLines, Accepted, Flow, WriteOutResult
  PROVE  Flow'
<1> USE DEF Flow
<1>1. UNCHANGED setup /\ UNCHANGED <<burstsRead, inBurst, dist, din, lane, dout, coll>>
  BY DEF WriteOutResult
<1>2. BurstsIn' /\ LaneTypes' /\ LanesIn' /\ LanesOut' /\ Gathering'
  BY <1>1, Frame
<1> DEFINE c == coll.burst_count
<1> DEFINE E == OUT_ENTRIES
<1> DEFINE N == Len(outBurst)
<1> DEFINE h == Head(outBurst)
<1> DEFINE o == outbuf[outSel]
<1>3. outSel \in 0 .. 1 /\ 1 - outSel \in 0 .. 1 /\ 1 - outSel # outSel
  BY Mode
<1>4. /\ E \in Nat \ {0} /\ c \in Nat
      /\ outBurst \in Seq(Seq(Answers)) /\ outBurst # << >> /\ N \in Nat \ {0} /\ N <= c /\ N <= DEPTH
  BY Sizes, Totals DEF Accepted, Gathering, BurstsOut, WriteOutResult
<1>5. /\ outbuf \in [0 .. 1 -> Seq(Answers)] /\ o \in Seq(Answers) /\ Len(o) = (c - N) * E
      /\ \A m \in 1 .. Len(o) : o[m] = Ans(m - 1)
  BY <1>3 DEF BurstsOut
<1>6. /\ outbuf' = [outbuf EXCEPT ![outSel] = o \o h]
      /\ outBurst' = Tail(outBurst)
  BY DEF WriteOutResult
<1>7. /\ outBurst' \in Seq(Seq(Answers)) /\ Len(outBurst') = N - 1
      /\ \A j \in 1 .. N - 1 : outBurst'[j] = outBurst[j + 1]
      /\ h = outBurst[1] /\ h \in Seq(Answers)
  BY <1>4, <1>6
<1>8. OutBurstIs(h, c - N)
  <2>1. OutBurstIs(outBurst[1], c - N + 1 - 1)
    <3>1. 1 \in 1 .. Len(outBurst)
      BY <1>4
    <3> QED BY <3>1, Zenon DEF BurstsOut
  <2>2. c - N + 1 - 1 = c - N
    BY <1>4
  <2> QED BY <1>7, <2>1, <2>2
<1> DEFINE y == (c - N) * E
<1>9. /\ Len(h) = E /\ \A m \in 1 .. E : h[m] = Ans(y + m - 1)
  BY <1>8 DEF OutBurstIs
<1> HIDE DEF c, E, N, h, o
<1>10. y \in Nat /\ (c - (N - 1)) * E = y + E /\ Len(o) = y
  BY <1>4, <1>5, Z3
<1> HIDE DEF y
<1> DEFINE r == o \o h
<1>11. /\ r \in Seq(Answers) /\ Len(r) = y + E
       /\ \A m \in 1 .. y + E : r[m] = IF m <= y THEN o[m] ELSE h[m - y]
  BY <1>5, <1>7, <1>9, <1>10, ConcatProperties
<1> HIDE DEF r
<1>12. /\ outbuf'[outSel] = r /\ outbuf'[1 - outSel] = outbuf[1 - outSel]
       /\ outbuf' \in [0 .. 1 -> Seq(Answers)]
  BY <1>3, <1>5, <1>6, <1>11 DEF r
<1>13. \A m \in 1 .. y + E : r[m] = Ans(m - 1)
  <2> SUFFICES ASSUME NEW m \in 1 .. y + E PROVE r[m] = Ans(m - 1)
    OBVIOUS
  <2>1. CASE m <= y
    BY <1>5, <1>10, <1>11, <2>1
  <2>2. CASE m > y
    <3>1. m - y \in 1 .. E /\ y + (m - y) - 1 = m - 1
      BY <1>4, <1>10, <2>2
    <3>2. r[m] = h[m - y]
      BY <1>10, <1>11, <2>2
    <3> QED BY <1>9, <3>1, <3>2
  <2> QED BY <1>10, <2>1, <2>2
<1>14. BurstsOut'
  <2>1. \A j \in 1 .. Len(outBurst') : OutBurstIs(outBurst'[j], c - (N - 1) + j - 1)
    <3> SUFFICES ASSUME NEW j \in 1 .. N - 1 PROVE OutBurstIs(outBurst'[j], c - (N - 1) + j - 1)
      BY <1>7
    <3>1. j + 1 \in 1 .. N /\ c - (N - 1) + j - 1 = c - N + (j + 1) - 1
      BY <1>4
    <3>2. OutBurstIs(outBurst[j + 1], c - N + (j + 1) - 1)
      BY <3>1 DEF BurstsOut, c, N
    <3> QED BY <1>7, <3>1, <3>2
  <2>2. \A j \in 1 .. Len(outBurst') : OutBurstIs(outBurst[j], coll.burst_count - Len(outBurst) + j - 1)'
    BY <1>1, <1>7, <2>1, Steady DEF OutBurstIs, c
  <2>3. Len(outbuf'[outSel]) = (coll.burst_count - Len(outBurst')) * OUT_ENTRIES
    BY <1>7, <1>10, <1>11, <1>12 DEF c, E
  <2>4. Len(outBurst') <= DEPTH /\ Len(outBurst') <= coll.burst_count
    BY <1>4, <1>7, GatherAssumption DEF c
  <2>5. \A m \in 1 .. Len(outbuf'[outSel]) : outbuf'[outSel][m] = Ans(m - 1)
    BY <1>11, <1>12, <1>13
  <2>6. outbuf'[1 - outSel] = << >>
    BY <1>12 DEF BurstsOut
  <2> QED BY <1>1, <1>7, <1>12, <2>2, <2>3, <2>4, <2>5, <2>6, Steady DEF BurstsOut
<1> QED BY <1>2, <1>14

---------------------------------------------------------------------------
(* Steps of the host *)

\* What main has decided does not depend on what the kernel does.
LEMMA SetupKept ==
  ASSUME UNCHANGED setup
  PROVE  (Accepted => Accepted') /\ (Laid => Laid')
<1>1. opt' = opt /\ in' = in /\ base' = base /\ inbuf' = inbuf /\ opmode' = opmode
  BY DEF setup, options
<1>2. Accepted => Accepted'
  BY <1>1 DEF Accepted, HBMBankCount_valid, StreamValid, UsableRows, hbmNum, pu, in_mapp, sw_emu, p_ch,
              perInterDbIndx, hbmIndx
<1>3. Laid => Laid'
  BY <1>1 DEF Laid, Parts, BankOf, sw_emu, hbmNum, p_ch
<1> QED BY <1>2, <1>3

\* A step of main that only goes on keeps what is known.
LEMMA Same ==
  ASSUME UNCHANGED <<setup, kernelVars>>
  PROVE  /\ opt' = opt /\ in' = in /\ base' = base /\ inbuf' = inbuf
         /\ Accepted => Accepted'
         /\ Fresh => Fresh'
         /\ Laid => Laid'
         /\ Flow => Flow'
         /\ KernelDone => KernelDone'
<1>1. opt' = opt /\ in' = in /\ base' = base /\ inbuf' = inbuf /\ opmode' = opmode
  BY DEF setup, options
<1>2. (Accepted => Accepted') /\ (Laid => Laid')
  BY SetupKept
<1>3. Fresh => Fresh'
  BY DEF kernelVars, Fresh
<1>4. Flow => Flow'
  BY Frame DEF Flow, kernelVars, setup, options
<1>5. KernelDone => KernelDone'
  <2>1. /\ totalInBurst' = totalInBurst /\ totalOutBurst' = totalOutBurst
        /\ OUT_ENTRIES' = OUT_ENTRIES /\ outSel' = outSel
    BY <1>1, Steady
  <2>2. OutBursts' = OutBursts
    BY <2>1 DEF OutBursts, kernelVars
  <2>3. STREAM' = STREAM /\ opmode_stream' = opmode_stream
    BY <1>1 DEF STREAM, opmode_stream, Bit
  <2>4. totalWork' = totalWork /\ \A u : Go(u)' = Go(u)
    BY <2>3 DEF totalWork, Go
  <2> QED BY <2>1, <2>2, <2>4 DEF KernelDone, kernelVars
<1> QED BY <1>1, <1>2, <1>3, <1>4, <1>5

\* Nothing is in the kernel when it starts.
LEMMA StartFlow ==
  ASSUME opt \in CommandLines, Accepted, Fresh, UNCHANGED <<options, opmode, inbuf, kernelVars>>
  PROVE  Flow'
<1>1. /\ pu' = pu /\ IN_ENTRIES' = IN_ENTRIES /\ OUT_ENTRIES' = OUT_ENTRIES /\ outSel' = outSel
  BY DEF options, pu, IN_ENTRIES, OUT_ENTRIES, outSel, Bit
<1>2. totalInBurst' = totalInBurst /\ totalOutBurst' = totalOutBurst
  BY <1>1 DEF totalInBurst, totalOutBurst
<1>3. /\ pu \in Nat \ {0} /\ IN_ENTRIES \in Nat \ {0} /\ OUT_ENTRIES \in Nat \ {0}
      /\ totalInBurst \in Nat /\ totalOutBurst \in Nat /\ outSel \in 0 .. 1 /\ DEPTH \in Nat
  BY Sizes, Totals, Mode, GatherAssumption DEF Accepted
<1>4. Fresh'
  BY DEF kernelVars, Fresh
<1>5. Served(pu, IN_ENTRIES) \in Nat \ {0} /\ Served(pu, OUT_ENTRIES) \in Nat \ {0}
  BY <1>3 DEF Served
<1>6. BurstsIn'
  <2>1. BurstCounts'
    BY <1>2, <1>3, <1>4 DEF Fresh, BurstCounts, Dealing, NoBurst
  <2>2. BurstData'
    BY <1>4 DEF Fresh, BurstData, NoBurst
  <2>3. InCycle'
    BY <1>1, <1>3, <1>4, <1>5 DEF Fresh, InCycle
  <2> QED BY <2>1, <2>2, <2>3 DEF BurstsIn
<1>7. LaneTypes'
  BY <1>1, <1>3, <1>4 DEF Fresh, LaneTypes
<1>8. \A u \in 0 .. pu - 1 : u \in Lanes
  BY SelectedLanes DEF Accepted
<1>9. Dealt' = 0 /\ Collected' = 0
  BY <1>1, <1>3, <1>4, <1>5 DEF Fresh, Dealt, Collected
<1>10. \A u \in 0 .. pu - 1 : LaneIn(u)' /\ LaneOut(u)'
  <2> SUFFICES ASSUME NEW u \in 0 .. pu - 1 PROVE LaneIn(u)' /\ LaneOut(u)'
    OBVIOUS
  <2>1. u \in Lanes /\ pu * 0 = 0 /\ u + 0 = u
    BY <1>3, <1>8
  <2>2. /\ Len(din'[u]) = 0 /\ Len(dout'[u]) = 0 /\ lane'[u].i = 0 /\ lane'[u].item = << >>
    BY <1>4, <2>1 DEF Fresh
  <2>3. Taken(u)' = 0
    BY <2>2 DEF Taken, Looking
  <2>4. LookupOf(u, 0)' = u
    BY <1>1, <2>1 DEF LookupOf
  <2>5. LaneIn(u)'
    BY <1>1, <1>3, <1>9, <2>1, <2>2, <2>3, <2>4 DEF LaneIn, LookupOf
  <2>6. LaneOut(u)'
    BY <1>1, <1>3, <1>9, <2>1, <2>2, <2>4 DEF LaneOut, LookupOf
  <2> QED BY <2>5, <2>6
<1>11. LanesIn' /\ LanesOut'
  BY <1>1, <1>10 DEF LanesIn, LanesOut
<1>12. Gathering'
  <2>1. 0 % Served(pu, OUT_ENTRIES) = 0
    BY <1>5
  <2>2. coll'.burst_count = 0 /\ coll'.dout = << >> /\ Len(coll'.dout) = 0
    BY <1>4 DEF Fresh
  <2>3. coll' \in [burst_count : 0 .. totalOutBurst, dout : Seq(Answers')]
    BY <1>3, <1>4 DEF Fresh
  <2> QED BY <1>1, <1>2, <1>3, <2>1, <2>2, <2>3 DEF Gathering
<1>13. BurstsOut'
  <2>1. coll'.burst_count = 0 /\ outBurst' = << >> /\ Len(outBurst') = 0 /\ (0 - 0) * OUT_ENTRIES = 0
    BY <1>3, <1>4 DEF Fresh
  <2>2. /\ outbuf' \in [0 .. 1 -> Seq(Answers')] /\ outbuf'[outSel] = << >> /\ outbuf'[1 - outSel] = << >>
    BY <1>3, <1>4 DEF Fresh
  <2>3. Len(outbuf'[outSel]) = 0
    BY <2>2
  <2> QED BY <1>1, <1>3, <2>1, <2>2, <2>3 DEF BurstsOut
<1> QED BY <1>6, <1>7, <1>11, <1>12, <1>13 DEF Flow

\* Every step of the kernel keeps the flow.
LEMMA KernelStep ==
  ASSUME opt \in CommandLines, Accepted, Flow, Kernel
  PROVE  Flow' /\ UNCHANGED <<setup, pc>>
<1>1. CASE ReadInBurst
  BY <1>1, ReadInBurstStep DEF ReadInBurst
<1>2. CASE DistRead
  BY <1>2, DistReadStep DEF DistRead
<1>3. CASE DistWrite
  BY <1>3, DistWriteStep DEF DistWrite
<1>4. CASE \E u \in Lanes : LaneRead(u) \/ LaneWrite(u)
  <2>1. PICK u \in Lanes : LaneRead(u) \/ LaneWrite(u)
    BY <1>4
  <2>2. CASE LaneRead(u)
    BY <2>2, LaneReadStep DEF LaneRead
  <2>3. CASE LaneWrite(u)
    BY <2>3, LaneWriteStep DEF LaneWrite
  <2> QED BY <2>1, <2>2, <2>3
<1>5. CASE CollRead
  BY <1>5, CollReadStep DEF CollRead
<1>6. CASE CollWrite
  BY <1>6, CollWriteStep DEF CollWrite
<1>7. CASE WriteOutResult
  BY <1>7, WriteOutStep DEF WriteOutResult
<1> QED BY <1>1, <1>2, <1>3, <1>4, <1>5, <1>6, <1>7 DEF Kernel

\* The options are accepted: buffer and lanes are chosen.
LEMMA AcceptStep == IInv /\ Accept => IInv'
<1> SUFFICES ASSUME IInv, Accept PROVE IInv'
  OBVIOUS
<1>1. /\ opt' = opt /\ in' = in /\ base' = base /\ kernelVars' = kernelVars /\ pc = "options"
      /\ pc' = "context" /\ base = << >> /\ Fresh /\ inbuf = [b \in 0 .. 1 |-> << >>]
  BY DEF IInv, Setup, Accept, options
<1>2. Fresh'
  BY <1>1 DEF kernelVars, Fresh
<1>3. \A r : in_mapp(r)' = in_mapp(r)
  BY <1>1 DEF in_mapp, sw_emu, perInterDbIndx, hbmIndx, hbmNum, p_ch
<1>4. Accepted'
  <2>1. HBMBankCount_valid' /\ StreamValid' /\ pu' = pu
    BY <1>1 DEF Accept, HBMBankCount_valid, UsableRows, hbmNum, StreamValid, pu
  <2>2. PICK ping \in 0 .. 1 :
          /\ opmode' = 4 * pu + 3 * ping
          /\ inbuf' = [inbuf EXCEPT ![ping] = [k \in 1 .. Work |-> in_mapp(in[k])]]
    BY DEF Accept
  <2>3. inbuf'[ping] = [k \in 1 .. Work |-> in_mapp(in[k])]
    BY <1>1, <2>2
  <2>4. inbuf'[ping] = [k \in 1 .. Work |-> in_mapp(in[k])']
    BY <1>1, <1>3, <2>3
  <2> QED BY <2>1, <2>2, <2>4 DEF Accepted
<1> QED BY <1>1, <1>2, <1>4 DEF IInv, Setup, Stages

\* The parts of A are placed: the kernel can start.
LEMMA PlaceStep == IInv /\ PlaceBuffers => IInv'
<1> SUFFICES ASSUME IInv, PlaceBuffers PROVE IInv'
  OBVIOUS
<1>1. /\ UNCHANGED <<options, opmode, inbuf, kernelVars>> /\ pc = "layout" /\ pc' = "kernel"
      /\ opt \in CommandLines /\ in \in Lookups /\ Accepted /\ Fresh
  BY DEF IInv, Setup, PlaceBuffers
<1>2. opt' = opt /\ in' = in
  BY <1>1 DEF options
<1>3. Flow'
  BY <1>1, StartFlow
<1>4. Laid'
  BY <1>2 DEF PlaceBuffers, Laid, Parts, BankOf, sw_emu, hbmNum, p_ch
<1>5. Accepted'
  BY <1>1, <1>2 DEF Accepted, HBMBankCount_valid, StreamValid, UsableRows, hbmNum, pu, in_mapp, sw_emu,
                    p_ch, perInterDbIndx, hbmIndx
<1> QED BY <1>1, <1>2, <1>3, <1>4, <1>5 DEF IInv, Setup, Stages

\* Steps on which main only goes on.
GoesOn == Refuse \/ createContext \/ createProgram \/ connectPlatform \/ ConnectFails \/ Overrun
          \/ BufferFails \/ MigrateFails

LEMMA GoOnStep == IInv /\ GoesOn => IInv'
<1> SUFFICES ASSUME IInv, GoesOn PROVE IInv'
  OBVIOUS
<1>1. /\ UNCHANGED <<setup, kernelVars>> /\ pc \in {"options", "context", "program", "commands", "layout"}
      /\ pc' \in {"refused", "program", "commands", "layout", "undefined", "ended"}
      /\ pc = "options" => pc' = "refused"
  BY DEF GoesOn, Refuse, createContext, createProgram, connectPlatform, ConnectFails, Overrun,
         BufferFails, MigrateFails, Connected
<1>2. opt \in CommandLines /\ in \in Lookups /\ base = << >> /\ Fresh /\ (pc # "options" => Accepted)
  BY <1>1 DEF IInv, Setup
<1>3. opt' = opt /\ in' = in /\ base' = << >> /\ Fresh' /\ (pc # "options" => Accepted')
  BY <1>1, <1>2, Same
<1> QED BY <1>1, <1>2, <1>3 DEF IInv, Setup, Stages

---------------------------------------------------------------------------
(* Theorems *)

\* The inductive invariant, for every size and every combination of options.
THEOREM Inductive == Spec => []IInv
<1>1. Init => IInv
  BY DEF Init, IInv, Setup, Fresh, Stages
<1>2. IInv /\ [Next]_vars => IInv'
  <2> SUFFICES ASSUME IInv, [Next]_vars PROVE IInv'
    OBVIOUS
  <2>1. CASE Kernel
    <3>1. pc = "kernel"
      BY <2>1 DEF Kernel, ReadInBurst, DistRead, DistWrite, LaneRead, LaneWrite, CollRead, CollWrite,
                  WriteOutResult, Running
    <3>2. opt \in CommandLines /\ in \in Lookups /\ Accepted /\ Laid /\ Flow
      BY <3>1 DEF IInv, Setup
    <3>3. Flow' /\ UNCHANGED <<setup, pc>>
      BY <2>1, <3>2, KernelStep
    <3>4. Accepted' /\ Laid' /\ opt' = opt /\ in' = in /\ pc' = "kernel"
      BY <3>1, <3>2, <3>3, SetupKept DEF setup, options
    <3> QED BY <3>2, <3>3, <3>4 DEF IInv, Setup, Stages
  <2>2. CASE Finish
    <3>1. pc = "kernel" /\ pc' = "ended" /\ UNCHANGED <<setup, kernelVars>> /\ KernelDone
      BY <2>2 DEF Finish, Running
    <3>2. opt \in CommandLines /\ in \in Lookups /\ Accepted /\ Laid /\ Flow
      BY <3>1 DEF IInv, Setup
    <3>3. Accepted' /\ Laid' /\ Flow' /\ KernelDone' /\ opt' = opt /\ in' = in
      BY <3>1, <3>2, Same
    <3> QED BY <3>1, <3>2, <3>3 DEF IInv, Setup, Stages
  <2>3. CASE UNCHANGED vars
    <3>1. UNCHANGED <<setup, kernelVars>> /\ pc' = pc
      BY <2>3 DEF vars, setup, options, kernelVars
    <3> QED BY <3>1, Same DEF IInv, Setup
  <2> QED BY <2>1, <2>2, <2>3, AcceptStep, PlaceStep, GoOnStep DEF Next, GoesOn
<1> QED BY <1>1, <1>2, PTL DEF Spec

---------------------------------------------------------------------------
(* What follows from the invariant *)

\* No more is dealt out than the block has.
LEMMA DealtBound ==
  ASSUME opt \in CommandLines, Accepted, BurstsIn
  PROVE  Dealt \in 0 .. Work
<1> DEFINE E == IN_ENTRIES
<1> DEFINE c == dist.burst_count
<1> DEFINE x == dist.i * Served(pu, IN_ENTRIES)
<1>1. /\ E \in Nat \ {0} /\ totalInBurst \in Nat /\ totalInBurst * E = Work /\ Work \in Nat
  BY Sizes, Totals, GatherAssumption DEF Accepted
<1>2. Dealt \in Nat /\ Dealt = c * E + x
  BY DistCycle DEF Dealt
<1>3. /\ c \in Nat /\ Len(inBurst) \in Nat /\ Dealing \in 0 .. 1 /\ c + Len(inBurst) + Dealing = burstsRead
      /\ burstsRead \in 0 .. totalInBurst
  BY DEF BurstsIn, BurstCounts, Dealing
<1>4. CASE dist.burst = NoBurst
  <2>1. x = 0 /\ c <= totalInBurst
    <3>1. dist.i = 0 /\ Served(pu, IN_ENTRIES) \in Nat
      BY <1>4, Sizes DEF BurstsIn, BurstCounts, Served, Accepted
    <3>2. x = 0
      BY <3>1
    <3> QED BY <1>1, <1>3, <3>2
  <2> HIDE DEF E, c, x
  <2>2. E * (totalInBurst - c) >= 0
    BY <1>1, <1>3, <2>1, Z3
  <2> QED BY <1>1, <1>2, <1>3, <2>1, <2>2, Z3
<1>5. CASE dist.burst # NoBurst
  <2>1. x < E
    BY DEF BurstsIn, InCycle
  <2>2. Dealing = 1
    BY <1>5 DEF Dealing
  <2>3. x \in Int
    BY <1>5, Sizes, Z3 DEF BurstsIn, BurstCounts, Served, Accepted
  <2> HIDE DEF E, c, x
  <2>4. totalInBurst - c >= 1
    BY <1>1, <1>3, <2>2
  <2>5. E * (totalInBurst - c) >= E
    BY <1>1, <1>3, <2>4, MultipleBound
  <2>6. E * (totalInBurst - c) = Work - c * E
    BY <1>1, <1>3, Z3
  <2>7. c * E \in Int
    BY <1>1, <1>3, Z3
  <2> QED BY <1>1, <1>2, <2>1, <2>3, <2>5, <2>6, <2>7
<1> QED BY <1>4, <1>5

\* No lane gets more lookups than its share.
LEMMA ShareOfLane ==
  ASSUME opt \in CommandLines, Accepted, Flow, NEW u \in 0 .. pu - 1
  PROVE  Taken(u) + Len(din[u]) <= Work \div pu
<1> USE DEF Flow
<1> DEFINE n == Taken(u) + Len(din[u])
<1> DEFINE w == Work \div pu
<1>1. pu \in Nat \ {0} /\ w \in Nat /\ pu * w = Work /\ Work \in Nat /\ Dealt \in 0 .. Work
  BY Sizes, Totals, DealtBound, GatherAssumption DEF Accepted
<1>2. u \in Lanes /\ LaneIn(u)
  BY SelectedLanes DEF Accepted, LanesIn
<1>3. n \in Nat /\ u + pu * n < Dealt + pu
  BY <1>2, LaneCounts DEF LaneIn, LookupOf
<1> HIDE DEF n, w
<1>4. ~(n - w >= 1)
  <2> SUFFICES ASSUME n - w >= 1 PROVE FALSE
    OBVIOUS
  <2>1. pu * (n - w) >= pu
    BY <1>1, <1>3, MultipleBound
  <2>2. pu * (n - w) = pu * n - Work
    BY <1>1, <1>3, Z3
  <2>3. pu * n \in Int
    BY <1>1, <1>3, Z3
  <2> QED BY <1>1, <1>3, <2>1, <2>2, <2>3
<1> QED BY <1>1, <1>3, <1>4 DEF n, w

\* Types of a state before the kernel starts.
LEMMA FreshTypes ==
  ASSUME opt \in CommandLines, pc \in Stages, Fresh
  PROVE  TypeOK
<1>1. IN_ENTRIES \in Nat \ {0} /\ Work \in Nat /\ DEPTH \in Nat
  BY GatherAssumption DEF IN_ENTRIES
<1>2. totalInBurst \in Nat /\ totalOutBurst \in Nat
  BY <1>1, DivNat DEF totalInBurst, totalOutBurst, OUT_IN_RATIO
<1> QED BY <1>1, <1>2 DEF TypeOK, Fresh, Stages

\* Types of a state of the kernel.
LEMMA FlowTypes ==
  ASSUME opt \in CommandLines, pc \in Stages, Accepted, Flow
  PROVE  TypeOK
<1> USE DEF Flow
<1>1. /\ pu \in Nat \ {0} /\ OUT_ENTRIES \in Nat \ {0} /\ Work \in Nat
      /\ totalInBurst \in Nat /\ totalOutBurst \in Nat /\ totalOutBurst * OUT_ENTRIES = Work
      /\ Work \div pu \in Nat /\ pu * (Work \div pu) = Work
  BY Sizes, Totals, GatherAssumption DEF Accepted
<1>2. opmode_stream = pu /\ outSel \in 0 .. 1
  BY Mode
<1>3. dist.burst_count \in 0 .. totalInBurst
  <2>1. /\ dist.burst_count \in Nat /\ Len(inBurst) \in Nat /\ Dealing \in 0 .. 1
        /\ dist.burst_count + Len(inBurst) + Dealing = burstsRead /\ burstsRead \in 0 .. totalInBurst
    BY DEF BurstsIn, BurstCounts, Dealing
  <2> QED BY <1>1, <2>1
<1>4. Work \div pu <= Work
  <2> DEFINE w == Work \div pu
  <2>1. w \in Nat /\ pu * w = Work
    BY <1>1
  <2> HIDE DEF w
  <2>2. pu * w >= w
    BY <1>1, <2>1, Z3
  <2>3. w <= Work
    BY <2>1, <2>2
  <2> QED BY <2>3 DEF w
<1>5. \A u \in Lanes : lane[u].i \in 0 .. Work
  <2> SUFFICES ASSUME NEW u \in Lanes PROVE lane[u].i \in 0 .. Work
    OBVIOUS
  <2>1. CASE pu <= u
    BY <1>1, <2>1 DEF LaneTypes
  <2>2. CASE ~(pu <= u)
    <3>1. u \in 0 .. pu - 1
      BY <1>1, <2>2, GatherAssumption DEF Lanes
    <3>2. Taken(u) + Len(din[u]) <= Work \div pu
      BY <3>1, ShareOfLane
    <3>3. /\ lane[u].i \in Nat /\ Looking(u) \in 0 .. 1 /\ Len(din[u]) \in Nat
          /\ Taken(u) = lane[u].i + Looking(u)
      BY LaneCounts DEF Taken
    <3> DEFINE w == Work \div pu
    <3> DEFINE n == lane[u].i
    <3> DEFINE d == Len(din[u])
    <3>4. /\ w \in Nat /\ w <= Work /\ n \in Nat /\ d \in Nat
          /\ n + Looking(u) + d <= w /\ Looking(u) \in 0 .. 1
      BY <1>1, <1>4, <3>2, <3>3
    <3> HIDE DEF w, n, d
    <3>5. n \in 0 .. Work
      BY <1>1, <3>4
    <3> QED BY <3>5 DEF n
  <2> QED BY <2>1, <2>2
<1>6. \A u \in Lanes : ~Go(u) => din[u] = << >> /\ dout[u] = << >>
  <2> SUFFICES ASSUME NEW u \in Lanes, ~Go(u) PROVE din[u] = << >> /\ dout[u] = << >>
    OBVIOUS
  <2>1. u \in Int
    BY GatherAssumption DEF Lanes
  <2>2. pu <= u
    BY <1>1, <1>2, <2>1 DEF Go
  <2> QED BY <2>2 DEF LaneTypes
<1>7. \A b \in 0 .. 1 : Len(outbuf[b]) \in 0 .. Work
  <2>1. Len(outbuf[outSel]) \in 0 .. Work
    <3> DEFINE k == coll.burst_count - Len(outBurst)
    <3>1. k \in Nat /\ k <= totalOutBurst /\ Len(outbuf[outSel]) = k * OUT_ENTRIES
      BY <1>1 DEF Gathering, BurstsOut
    <3> HIDE DEF k
    <3>2. (totalOutBurst - k) * OUT_ENTRIES >= 0 /\ k * OUT_ENTRIES \in Nat
      BY <1>1, <3>1, Z3
    <3>3. (totalOutBurst - k) * OUT_ENTRIES = Work - k * OUT_ENTRIES
      BY <1>1, <3>1, Z3
    <3> QED BY <1>1, <3>1, <3>2, <3>3
  <2>2. Len(outbuf[1 - outSel]) = 0
    BY DEF BurstsOut
  <2> QED BY <1>1, <1>2, <2>1, <2>2
<1>8. burstsRead \in 0 .. totalInBurst /\ Len(inBurst) <= DEPTH
  BY DEF BurstsIn, BurstCounts
<1>9. coll.burst_count \in 0 .. totalOutBurst /\ Len(outBurst) <= DEPTH
  BY DEF Gathering, BurstsOut
<1>10. \A u \in Lanes : Len(din[u]) <= DEPTH /\ Len(dout[u]) <= DEPTH
  BY DEF LaneTypes
<1> QED BY <1>3, <1>5, <1>6, <1>7, <1>8, <1>9, <1>10 DEF TypeOK, Stages

\* Every stream keeps to its depth, every loop to its count, and the lanes that are not
\* selected stay empty, for every size and every combination of options.
THEOREM TypeCorrect == Spec => []TypeOK
<1>1. IInv => TypeOK
  BY FreshTypes, FlowTypes DEF IInv, Setup
<1> QED BY <1>1, Inductive, PTL

\* The counts of a kernel that is done agree: nothing is left anywhere.
LEMMA DoneIsEmpty ==
  ASSUME opt \in CommandLines, Accepted, Flow, KernelDone
  PROVE  /\ inBurst = << >> /\ outBurst = << >> /\ Len(outbuf[outSel]) = Work
         /\ \A u \in Lanes : din[u] = << >> /\ dout[u] = << >> /\ lane[u].item = << >>
<1> USE DEF Flow
<1>1. /\ pu \in Nat \ {0} /\ OUT_ENTRIES \in Nat \ {0} /\ Work \in Nat
      /\ totalInBurst \in Nat /\ totalOutBurst \in Nat /\ totalOutBurst * OUT_ENTRIES = Work
      /\ Work \div pu \in Nat /\ pu * (Work \div pu) = Work
  BY Sizes, Totals, GatherAssumption DEF Accepted
<1>2. opmode_stream = pu /\ STREAM = pu
  BY Mode
<1>3. inBurst = << >>
  <2>1. /\ dist.burst_count \in Nat /\ Len(inBurst) \in Nat /\ Dealing \in 0 .. 1
        /\ dist.burst_count + Len(inBurst) + Dealing = burstsRead /\ inBurst \in Seq(Seq(Addresses))
    BY DEF BurstsIn, BurstCounts, Dealing
  <2>2. dist.burst_count = burstsRead
    BY DEF KernelDone
  <2>3. Len(inBurst) = 0
    BY <2>1, <2>2
  <2> QED BY <2>1, <2>3
<1> DEFINE N == Len(outBurst)
<1>4. N = 0
  <2> DEFINE k == totalOutBurst - N
  <2>1. N \in Nat /\ N <= totalOutBurst /\ coll.burst_count = totalOutBurst
    BY DEF BurstsOut, KernelDone
  <2>2. Len(outbuf[outSel]) = k * OUT_ENTRIES
    BY <2>1 DEF BurstsOut
  <2>3. k \in Int /\ k * OUT_ENTRIES = OUT_ENTRIES * k + 0 /\ 0 \in 0 .. OUT_ENTRIES - 1
    BY <1>1, <2>1, Z3
  <2>4. Len(outbuf[outSel]) \div OUT_ENTRIES = totalOutBurst
    BY DEF KernelDone, OutBursts
  <2>5. k = totalOutBurst
    <3> HIDE DEF k
    <3>1. (OUT_ENTRIES * k + 0) \div OUT_ENTRIES = k
      BY <1>1, <2>3, ModIs
    <3> QED BY <2>2, <2>3, <2>4, <3>1
  <2> QED BY <1>1, <2>1, <2>5
<1>5. outBurst = << >>
  BY <1>4 DEF BurstsOut
<1>6. Len(outbuf[outSel]) = Work
  <2>1. (totalOutBurst - 0) = totalOutBurst /\ coll.burst_count = totalOutBurst
    BY <1>1 DEF KernelDone
  <2> QED BY <1>1, <1>4, <2>1 DEF BurstsOut
<1>7. Collected = Work
  <2>1. coll.burst_count = totalOutBurst /\ Len(coll.dout) = 0
    BY DEF KernelDone, Gathering
  <2> QED BY <1>1, <2>1 DEF Collected
<1>8. \A u \in Lanes : din[u] = << >> /\ dout[u] = << >> /\ lane[u].item = << >>
  <2> SUFFICES ASSUME NEW u \in Lanes PROVE din[u] = << >> /\ dout[u] = << >> /\ lane[u].item = << >>
    OBVIOUS
  <2>1. CASE pu <= u
    BY <2>1 DEF LaneTypes
  <2>2. CASE ~(pu <= u)
    <3> DEFINE w == Work \div pu
    <3> DEFINE n == Len(dout[u])
    <3>1. u \in 0 .. pu - 1
      BY <1>1, <2>2, GatherAssumption DEF Lanes
    <3>2. lane[u].i = w
      BY <1>1, <1>2, <3>1 DEF KernelDone, Go, totalWork
    <3>3. /\ lane[u].i \in Nat /\ Looking(u) \in 0 .. 1 /\ Len(din[u]) \in Nat /\ n \in Nat
          /\ Taken(u) = lane[u].i + Looking(u) /\ Taken(u) + Len(din[u]) <= w
          /\ din[u] \in Seq(Addresses) /\ dout[u] \in Seq(Answers)
      BY <3>1, LaneCounts, ShareOfLane DEF Taken
    <3>4. Looking(u) = 0 /\ Len(din[u]) = 0
      BY <3>2, <3>3
    <3>5. LaneOut(u)
      BY <3>1 DEF LanesOut
    <3>6. Work <= u + pu * (w - n)
      BY <1>7, <3>2, <3>5 DEF LaneOut, LookupOf
    <3>7. w \in Nat /\ pu * w = Work
      BY <1>1
    <3> HIDE DEF w, n
    <3>8. n = 0
      <4> SUFFICES ASSUME n >= 1 PROVE FALSE
        BY <3>3
      <4>1. pu * n >= pu
        BY <1>1, <3>3, MultipleBound
      <4>2. pu * (w - n) = Work - pu * n
        BY <1>1, <3>3, <3>7, Z3
      <4>3. pu * n \in Int
        BY <1>1, <3>3, Z3
      <4> QED BY <1>1, <3>1, <3>6, <4>1, <4>2, <4>3
    <3>9. lane[u].item = << >>
      BY <3>4 DEF Looking
    <3> QED BY <3>3, <3>4, <3>8, <3>9 DEF n
  <2> QED BY <2>1, <2>2
<1> QED BY <1>3, <1>5, <1>6, <1>8

\* The three counts of the kernel agree for every block, burst width and number of
\* lanes: no call leaves a word behind for the next one.
THEOREM NothingLeftHolds == Spec => []NothingLeft
<1>1. IInv => NothingLeft
  BY DoneIsEmpty DEF IInv, Setup, NothingLeft, Running
<1> QED BY <1>1, Inductive, PTL

\* The gather is the indirection: for every size of the database and of a block, every
\* accepted bank count with a bank for each part, every number of lanes and burst width,
\* and every order in which lanes and streams move.
THEOREM GatherCorrect == Spec => []GatherIsIndirection
<1>1. IInv => GatherIsIndirection
  <2> SUFFICES ASSUME IInv, pc \in {"kernel", "ended"}, base # << >>, Placed
               PROVE  /\ \A k \in 1 .. Len(outbuf[outSel]) :
                           outbuf[outSel][k] = <<<<in[k], "measure">>, <<in[k], "group">>>>
                      /\ pc = "ended" => Len(outbuf[outSel]) = Work
                      /\ outbuf[1 - outSel] = << >>
    BY DEF GatherIsIndirection
  <2>1. /\ opt \in CommandLines /\ in \in Lookups /\ Accepted /\ Laid /\ Flow
        /\ pc = "ended" => KernelDone
    BY DEF IInv, Setup
  <2>2. pc = "ended" => Len(outbuf[outSel]) = Work
    BY <2>1, DoneIsEmpty
  <2>3. outbuf[1 - outSel] = << >>
    BY <2>1 DEF Flow, BurstsOut
  <2>4. \A k \in 1 .. Len(outbuf[outSel]) : k \in 1 .. Work
    <3>1. Len(outbuf[outSel]) \in 0 .. Work /\ Work \in Nat
      BY <2>1, FlowTypes, Mode, GatherAssumption DEF TypeOK, IInv, Setup
    <3> QED BY <3>1
  <2>5. \A k \in 1 .. Len(outbuf[outSel]) :
          outbuf[outSel][k] = <<<<in[k], "measure">>, <<in[k], "group">>>>
    <3> SUFFICES ASSUME NEW k \in 1 .. Len(outbuf[outSel])
                 PROVE  outbuf[outSel][k] = <<<<in[k], "measure">>, <<in[k], "group">>>>
      OBVIOUS
    <3>1. outbuf[outSel][k] = Ans(k - 1)
      BY <2>1 DEF Flow, BurstsOut
    <3>2. k - 1 \in Numbers /\ (k - 1) + 1 = k
      BY <2>4, GatherAssumption DEF Numbers
    <3>3. Ans(k - 1) = <<<<in[(k - 1) + 1], "measure">>, <<in[(k - 1) + 1], "group">>>>
      BY <2>1, <3>2, AnswerIsRow
    <3> QED BY <3>1, <3>2, <3>3
  <2> QED BY <2>2, <2>3, <2>5
<1> QED BY <1>1, Inductive, PTL

===========================================================================
