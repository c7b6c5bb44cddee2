# Xilinx data-analytics: TLA+ models, checks and proofs

The repository accelerates database work on FPGA cards. It holds two designs
with sources, each a host program and an HLS kernel, and one variant:

* **xql6**: TPC-H Query 6 as a PostgreSQL user-defined function. The host part
  (`xql6/host`) packs tuples into 2 MB blocks and offloads them through OpenCL;
  the kernel (`xql6/kernel`) parses, filters and aggregates them.
* **xql6p2p**: the same query with the SSD reading straight into the card's
  memory (`xql6p2p/host`, `xql6p2p/kernel`): raw heap pages go to the kernel,
  which unpacks them itself.
* **omxgather**: an indexed gather for an option-matching workload
  (`omxgather/src`, `omxgather/kernel`), with a ping-pong host loop.

`xpg` (a SQL offload) is only there as binaries and tutorials; `postgresql` is a
copy of the PostgreSQL 9.6 server headers; `tb_data` holds test data.

Paths below are relative to the repository's root; `xql6.c` and `fpga_q6.c`
without a directory are those of `xql6/host`.

## 1. Inventory

| Component | State it keeps | Operations | What makes it correct |
|---|---|---|---|
| UDF and FPGA session (`xql6.c`, `fpga_q6.c`, both variants) | `p_fpgaKernelName`, the globals `context`, `commands`, `program`, `kernel`, `devInp[10]`, `devOut[10]`, `pInp[10]`, `pOut[10]` | `xql6(relation, 'stop' / 'swemu' / xclbin)`, `xql6_init_kernel`, `xql6_stop_kernel`, `start_fpga`, `open_fpga`, `end_fpga`, `close_fpga` | A query runs on the xclbin named; a used handle is live and of the last start; what was created is released |
| Offload loop (`xql6_run_hw`, `fpga_q6_enq_compute`) | `blkId`, `blkIdDone`, `bRealPages`, `q6_sum`, `rdEvent[10]`, the ring of buffers, the out-of-order queue | fill, three enqueues, half-ring wait, read-back, drain | Every block added once, complete when a result is reported, no buffer reused while in use, the query returns |
| Page packing (`xql6FillBlock`, `xql6GetNextPage`) | `Xql6FillState` (heap page, line), the packed page | copy tuples page by page, unlock and resume | Every tuple once, in order; pages within bounds; the end recognised |
| p2p read path (`xql6FillBlock_new`, `xpgopen`, `xpgread_bigd`, `mdread_bigd`) | block number, O_DIRECT state, device buffers | read 256 pages, pad with zeros | Every page once for every relation size; read errors reported |
| Kernel, one unit (`q6`, `q6_paged`, `getHeaderInt2`, `q6_filter`, `TupParser`, `toLong`, `toDate`, `agg`) | streams between dataflow processes | per page: header, fields, conversion, aggregation | No deadlock, columns of a tuple stay together, the page is used up exactly |
| Kernel distribution (`read`, `flowWrap`, `fpga_q6`) | 32 streams of words, one page deep | feed the units in turn, add 32 sums | Every page to one unit, no unit starved, no deadlock |
| Software emulation (`q6_swemu.c`) | word reader over a page, running sum | parse, convert, filter, sum | Same answer as Query 6 and as the kernel |
| Gather host loop (`execFpgaOp`, `execFpgaOp_cb`, `copyReadBuf`) | two pinned input buffers, output buffers, three event arrays, user events | memcpy, migrate, kernel, migrate back, callback | Every block through its own transfer and kernel, none lost, the loop ends |
| Gather kernel (`omx`, `gather.cpp`) | burst streams, 16 lanes with an index and two word streams each | read bursts, deal out indices, look up, collect, write bursts | Answer k belongs to lookup k; nothing left in a stream; no deadlock |
| `main` of omxgather and `OclAccel` | options, bank of each part of the database, mapped lookups; OpenCL objects | check options, `in_mapp`, place and fill the parts, set-up | The address computed for a row is where the row was put |

How they interact. A backend calls `xql6`, which dispatches on the command; for
an xclbin the session is brought up if needed and the offload loop runs over the
session's buffers. The loop calls the packer (xql6) or the read path (xql6p2p) to
fill a buffer and hands it to the queue. The kernel consumes one block per start:
a reader distributes its 256 pages over 32 units of 8 pages each. The emulation
uses the same packer on host memory. The session survives the query: buffers,
events and whatever is still queued are shared by successive queries.

What is hard: the device works on an out-of-order queue while the host fills the
next buffer; a query may be left at any fill by PostgreSQL's `longjmp`, or after
any of its enqueues, and the next query meets what it left; heap pages are
unlocked between two visits; a start is a chain of OpenCL calls that may fail
anywhere; dataflow processes wait on bounded streams; callbacks run in threads of
the OpenCL runtime. The list with line numbers is `hazards` in `PROJECT.json`.

## 2. Modules

| Module | Models | Kind |
|---|---|---|
| `Q6Query` | what a hardware query promises | abstract specification |
| `Q6Pipeline` | `xql6_run_hw`'s loop, `fpga_q6_enq_compute`, the queue and the device memory | detailed specification, refines `Q6Query` |
| `RingArith` | arithmetic of `%` and `\div`, for rings and for numbering words and bytes | lemmas |
| `Q6PipelineProofs` | - | theorems about `Q6Pipeline` |
| `Q6Packing` | `xql6FillBlock`, `xql6GetNextPage`, concurrent inserts | specification |
| `Q6PackingProofs` | - | theorems about `Q6Packing` |
| `Q6Session` | the UDF's commands and the life of every OpenCL object | specification |
| `Q6SessionProofs` | - | theorems about `Q6Session` |
| `Q6PU` | the reader of either kernel and one of the units it feeds | specification |
| `Q6PUProofs` | - | theorems about `Q6PU` |
| `Q6Swemu` | emulation and the decoding of both kernels, byte by byte | sequential algorithm against a reference definition |
| `Q6P2P` | loop and read path of xql6p2p | specification |
| `Q6P2PProofs` | - | theorems about `Q6P2P` |
| `OmxPingPong` | both gather host loops | specification |
| `OmxPingPongProofs` | - | theorems about `OmxPingPong` |
| `OmxGather` | options, bank layout and address mapping of `main`, and the gather kernel | specification |
| `OmxGatherProofs` | - | theorems about `OmxGather` |

`MC_*` modules only give values to constants. Definitions marked *Mutant* stand
before the one they deform; they are in no specification and show that a property
notices such a slip. `PROJECT.json` maps each definition to the lines it models.

### Q6Pipeline

State: the locals of `xql6_run_hw` under their own names (`blkId`, `blkIdDone`,
`bRealPages`, `status`, the read-back index `k`; `acc` is `q6_sum` as the sequence
of blocks added); `rdEvent`; `mem`, the four arrays `pInp`, `devInp`, `devOut`,
`pOut`; the queue as commands pending (`pend`), executing (`exec`) and `failed`. A
block is named by query and number, so memory that holds a stale block is told
from memory that holds the right one. A fill is two steps: in between the buffer
is `Torn`, and a command whose source changes while it runs delivers `Torn`.

Actions: `StartQuery`, `WaitHalf` (`xql6.c:217-223`), `AddResult`, `HalfAdded`
(224-234), `FillBegin`/`FillEnd` (241), `EnqWrite`, `EnqKernel`, `EnqRead`
(`fpga_q6.c`), `Drain` (260-268), `Return`; faults `EnqFail`, `FillError` (ereport
or cancel inside a fill); the device's `Start`, `Finish`, `Abort`. `Start` and
`Abort` respect the event wait lists; kernels do not overlap because there is one
compute unit. The status of `clWaitForEvents` is ignored by the code and so by
the model: a command that ended with an error counts as complete, and the old word in
`pOut` is added. `tainted` is a history variable: the query began over unfinished
commands of an earlier one, or one of the commands failed. What such a query
adds is unconstrained; how many words it adds, that it returns, and how it treats
its *own* commands is not: a tainted query too never refills a slot under a command
of its own and never succeeds with one of its own on the queue (`FillOwnsSlot`,
`QuietAfterSuccess`). Only leftovers of earlier queries may still be there when it
returns: a query of one block waits for its own event and for nothing else.

### Q6Packing

A tuple is its heap page and line, with its data length; a packed page is the
bytes used and the tuples. Each pass of the inner loop is a step (`SkipEmpty`,
`CopyTuple`, `Filled`), as are locking and unlocking a heap page and `EndPage`,
which saves the position and decides whether the block and the scan end.
`Insert` is another backend appending to a page not locked here.

The length of a line is the code's `int`, `lp_len - t_hoff`. For a live tuple it is
positive (`Lens`). A line without a tuple (unused, dead, redirected) has `lp_len` 0
and a `t_hoff` that is whatever byte its offset leads to: its length is 0 or negative
(`DeadLens`). The scan also visits line 0, the word `pd_prune_xid` before the line
pointers: without a prune hint its length is 0, with one it is negative for small
hints and positive for others (`PhantomLens`). A positive one is packed like a tuple.
A negative one passes the test whether it fits and goes to `memcpy` as a `size_t`
(`CopySize`, modulo `SIZE_MOD`): that is `Overrun`, with which the scan and the backend
end. `PagesWellFormed` says that nothing else leaves a page, and that the two count
bytes (base `BYTE`) read back as the number of tuples.

### Q6Session

`handle[h]` is the object a global refers to, named by the start that created it;
`live` the objects not released. `Create` is a group of OpenCL calls that the code
tests together, any subset of which succeeds; a failed start returns at once and
releases nothing. `EndFpga` is `end_fpga` with `close_fpga`. `RunQuery` stands for the
loop of `Q6Pipeline`, which leaves the handles as they are and keeps one reference of
an event for each block it enqueues (`events`: `fpga_q6_enq_compute` retains `rdEvent`
once, releases it once, and never releases the reference it was created with).
`binaries` counts the images of xclbins that `open_fpga` reads into memory and keeps.
No operation lowers either count; so what a session releases is stated of the objects
a global names (`HandlesReleased`); the context itself outlives the session (section 6). Both variants are covered: `board` matters in xql6p2p only.

### Q6PU

`Deal` is `read`: it goes through the pages of the block and writes page i of unit
u, word by word, to `inStream[u]`; a full stream stops it, and with it every unit
behind. One unit, `me`, is modelled in detail: `WordRead` and `ByteWrite` are its
`pageToByte`; then come the processes of `q6_paged` (`getHeaderInt2`, `q6_filter`, a
converter per column, `agg`) over bounded FIFOs; `NextPage` is the loop of `q6`. Of
the other units only the moment they take a word matters (`OtherTakes`), and it
may be any moment: this is sound because what a unit does depends on its own input
stream alone, and `me` may be each of them. A byte carries its page and place
in the block, so a byte of the wrong page is seen where it arrives. A process
that has read and cannot write keeps the token in `hold`. `p2p` chooses the kernel:
xql6 reads a two-byte count and passes bytes on; xql6p2p reads the page completely,
sends the tuples, then the count, then the rest of the page buffer. Fields are one
byte; `Q6Swemu` has the real lengths.

### Q6Swemu

Tuples of `lineitem` are encoded as PostgreSQL stores them (short varlenas,
numerics to base 10000 without zero digits at the ends, aligned dates) and put into
pages, packed ones for xql6 and heap pages with header, line pointers and tuple headers
for xql6p2p. A heap page has a prune hint and one line that is no tuple, dead or
redirected (`PageKinds`). Three readers take them: `swemu` loads 8-byte
words and skips by words; `kernel` takes a byte stream that runs on from page to
page; `p2p` first takes the tuples out of the heap page (`getHeaderInt2`, `TakeLine`)
and then reads like `kernel`. Parser, `snumToLong3`, `getJdate`, the filter and the
sum are common. `date2j` is computed in the emulation; the kernels' constants are
-2191 and -1826. The reference `Query6` works on the values and counts days by leap
years.

The line loop of xql6p2p (`q6_paged.cpp:160-197`) looks at line 0 as the packer does,
and computes the same signed length. `TakeLine` follows it: a line or hint whose length
is not 0 counts as a tuple and moves `outcnt` by the length, also backwards. From there
on the tuple stream is shifted (`stray`), and the reader goes to `garbled`, where what
it computes is not followed further. `StrayHasCause` says when this happens: only on a
page with a prune hint or a redirected line, never because of tuples or dead lines on a
page without hint. Left out: long and toasted varlenas (`lineitem` has none; the code's test
`ch & 0x03 == 0` parses as `ch & (0x03 == 0)` and never holds), numerics with more than
two decimals, `j2date` and `getNumTups`, which nothing calls.

### Q6P2P

The loop of `Q6Pipeline` without the input migration: `ReadBegin`/`ReadEnd` bring
the pages of a block into the device buffer. `pgblk` is the page number of a
block: an `int` product which overflows beyond 2 GB. That is undefined behaviour,
so a build may compute it as meant or modulo 2^32 (`wraps`); a negative product
is no block and ends in an `ereport` (`NoSegment`), as does a block behind the
last segment. The kernel's treatment of zero pages (no tuples) is what makes padding
harmless.

`ReadFails` is a read that returns -1 as a `size_t`. The `memset` that pads the buffer
then starts one byte before it: this byte may be the last of the buffer of another slot,
whose last page is torn, or it belongs to nobody, or it is not mapped and the
backend dies (`ReadCrashes`). The choice is nondeterministic, as it is for the build.

Buffers, events and queue outlive a query. A command and a page carry the number of their
query, and `tainted` says, as in `Q6Pipeline`, that a query began over commands an earlier
one had left behind (`NoSegment`, `EnqueueFails`). A read of such a query may overtake
those; `ReadOwnsSlot` says that it never overtakes one of its own, and that a query that
is not tainted overtakes none.

### OmxPingPong

Both loops with every wait and wait list in the order of the code. A datum carries
the block it is and the transfer and kernel call that brought it: the two questions
"did the device keep the transfers apart" and "was the right block in the pinned
buffer" have different answers (section 6). `Finish` is `clFinish`, which waits for
commands and not for callbacks: the comparison may begin with callbacks outstanding.
`OCL_CHECK` ends the program on any error, so errors are not modelled. `callback` is the
value of `-cb`, documented as 1 or 0 (`omxgather/README.md:71`) and not checked: any other
value runs `execFpgaOp` and never copies the results (`main.cpp:788`, 795).

### OmxGather

One call of the kernel on one block, and what `main` does before it. `opt` is the
command line and the burst width the kernel was built with. `Refuse` and `Accept`
are the checks of the options and, on success, `in_mapp`, which turns lookup r into
the address row r is meant to have. `createContext`,
`createProgram`, `connectPlatform` and `ConnectFails` are the set-up of `OclAccel`,
which may fail at each stage. `PlaceBuffers` puts the parts of A into banks: a bank's
first buffer lies at its start, and without a named bank the runtime chooses, which
is `Elsewhere`. A `createBuf` that fails for a part goes unnoticed, and `main` copies A to
a pointer that was not set (`BufferFails`). `Cell` is what memory holds at an address, so address mapping and
layout meet only there. More than 16 banks overrun three arrays of `main`, and what
follows is undefined (`Overrun`); the model stops there.

The kernel's processes are those of `gather`: `ReadInBurst`; `DistRead` and
`DistWrite` (`gatherReadIn_Template`); `LaneRead` and `LaneWrite` of each lane
(`readAWork`); `CollRead` and `CollWrite` (`gatherWriteOut_Template`);
`WriteOutResult`. An unrolled loop is one step that needs room, or a word, in all
its streams. A word is its row and column; nothing in the model ties an answer to
its lookup but the order of the streams, as in the code.

## 3. Runs

| Run | Bounds | Shows |
|---|---|---|
| `ring` | half ring 2 (ring of 4), up to 9 blocks, enqueues may fail at any of the calls | all safety properties of the loop |
| `sequence` | half ring 1, up to 3 blocks, 2 queries, `ereport` in a fill, any command may fail | no query refills a slot under its own commands or succeeds with one of them queued, an untainted one leaves the queue empty; the loop refines `Q6Query` across queries; every query returns |
| `packing` | 2 heap pages of up to 3 lines, two tuple lengths, lines without a tuple of length 0 and -1, hints of length 0, -1 and 1, one insert at any time, pages of 5 bytes, blocks of 2 pages, a `size_t` of 16 values, bytes of 3 | no tuple lost, repeated or out of order; a page left only at a negative length; counts right; the scan ends |
| `session` | 2 xclbins, 2 boards, 2 buffer pairs, 3 calls, every OpenCL call of every start may fail | live handles, the right xclbin, and without failure no object a global names is lost |
| `pu` | both kernels, 2 units of 2 pages with 0 to 2 tuples, 2 columns and a skipped field, words of 4 bytes, a page per input stream, streams of depth 2 | the right pages, columns aligned, page used up, no deadlock |
| `swemu` | 2 pages of 312 bytes with up to 3 and 1 tuples on each side of each bound; heap pages with a dead or redirected line and four prune hints | all readers in step; the sum is Query 6; the readers of xql6p2p are garbled by a hint or a redirected line only |
| `omx` | 5 blocks, with and without callbacks, and with another value of `-cb` | transfers and results kept apart in every order of the queue; only two callbacks can be late; the loop ends and all blocks arrive |
| `p2p` | half ring 1, 0 to 13 pages, blocks of 2, segments of 4, an `int` of 8 pages, 2 queries with failed reads and enqueues | a read overtakes leftovers of an earlier query only; a query that found the queue empty has each page once, none twice, whatever the earlier one left in the buffers; every query ends |
| `gather` | 32 rows, banks of 16, `-hbm` 0 to 64, with and without `-pc` and `sw_emu`; 0 to 8 lanes, bursts of 2 and 4 lookups; 8 lookups; streams of depth 1 | the result is `A[in[k]]` in order, nothing stays behind, the program ends |
| `remaining`, `omx_memcpy`, `p2p_readerror` | smallest instance | counterexamples, section 6 |

Why the bounds are enough. The ring's index expressions depend on `blkId` modulo
the ring and on whether `blkId` has reached it: 9 blocks over 4 slots go round
twice, with the read-back of both halves, a partial half and every length of
drain. With a half ring of 1 two queries fit, and leftovers of the first meet each
slot of the second. The proofs then remove these bounds. In `packing` three lines
of two lengths make a packed page end before, at and behind the end of a heap page, and
two pages per block make blocks end with and without tuples left; the three signs of a
length are all that its tests tell apart, and a `size_t` need only be larger than a page.
In `pu` two
pages show what one page leaves for the next, two units what one does to the other
through the reader, and two columns are the least that can run out of step. In `omx` five blocks use each of the two buffers at least twice with a
predecessor and a successor. In `p2p` 13 pages go beyond the
range of the `int`: with wrapping the first block behind it is negative and ends
the query, so larger relations add nothing; without it they are read to the end. Up to
seven blocks go over two slots, and the second query meets leftovers of the first, or its
torn, stale and zero pages, in both; read-back in halves of more than one block is
the same code as in `ring`, and the proofs have every length of the ring. In
`swemu` a page of 312 bytes lets tuples end on every offset in a word, and three of
them exactly with the page or one byte before it; it holds one tuple and a dead line,
or two, as a heap page. In `gather` the proportions are the code's (A fills two banks), the
lookups are the first and last rows of A and of parts, and the lanes are fewer than, as
many as and more than the entries of a burst in and of a burst out. Depth 1 is the
least: deeper streams only block less.

Deadlock is not checked where the program may stop (the user asks no more, the
program has ended); that nothing stops before is what `QueryReturns`,
`ScanEnds`, `BlockFinishes`, `AllArrive` and `ProgramEnds` say.

Fairness. `Q6Pipeline` and `Q6P2P`: weak fairness of the host's own steps (a
running backend) and of the device (the runtime works on a non-empty queue, as
OpenCL promises for commands whose wait lists are complete); none for queries
being asked or for faults. `Q6Packing`: the backend. `Q6PU` and `OmxGather`: some process that can move does,
the least a clocked circuit gives; it suffices because every token moves forward.
`OmxPingPong`: the host, the runtime, and the callbacks of complete events.

## 4. Properties

The module comments state each one. The central ones:

* `FillOwnsSlot`, `SourceStable`, `ReadOwnsSlot`: no buffer is overwritten while a
  command of the same query still needs it, though only half of the ring is ever waited
  for; leftovers of an earlier query are overtaken only by one that began over them.
* `QuietAfterSuccess`: whom a successful query can have left on the queue.
* `RingBooks`, `EachBlockOnce`, `ResultComplete`, `ImplementsQuery`: what is added,
  in which order, how much of it when a result is reported.
* `InOrderOnce`, `ScanComplete`, `EmptyPagesLast`, `PagesWellFormed`: the packer
  against concurrent inserts and at every boundary.
* `HandlesLive`, `LoadedAsAsked`, `HandlesReleased`: the session after any
  sequence of commands and failures.
* `RowsAligned`, `PageUsedUp`, `BlockFinishes`: reader and dataflow network of the
  Query 6 kernels.
* `InStep`, `ResultIsQuery6`, `StrayHasCause`: bytes to sum.
* `KernelReadsItsTransfer`, `ResultOfItsKernel`, `OnlyLastTwoLate`, `AllArrive`: the
  gather loop.
* `GatherIsIndirection`, `NothingLeft`, `ProgramEnds`: from the options to the words
  the gather kernel writes.
* `NoPageTwice`, `EveryPageOnce`: the p2p read path, within a query that found the queue
  empty and over a file of fixed size.

## 5. Proofs

Proved by TLAPS. For every half length `NCOMPUTES`, relation size, number of
queries and fault set (`PipelineAssumption`: positive natural numbers, faults of
the known kinds):

* `TypeCorrect`, `RingBooksHold`, `ResultCompleteHolds` (`Q6PipelineProofs`) from
  `TypeOK /\ Ring`. `Ring` is needed because the bound on the ring is not
  inductive: it rests on results being taken in whole halves, on the ring being
  exactly full at every wait, and on how `status`, `bRealPages` and `total` go
  together.
* `EachBlockOnceHolds`, `FillOwnsSlotHolds`, `SourceStableHolds`,
  `QuietAfterSuccessHolds`, `LoopImplementsQuery` (same module) from
  `IndInv == TypeOK /\ Ring /\ Own /\ (~tainted => Data)`. `Own` is about every query,
  tainted or not: its unfinished commands are of blocks it has not counted as done
  (`OwnWindow`), those of a block finish in order (`OwnChain`), and `rdEvent` has the
  last command of each (`OwnEvents`), so a block waited for has none left. `Data` follows each block:
  unfinished commands belong to the window `blkIdDone .. blkId` (`DataWindow`);
  within a block commands finish in order (`DataChain`); the source of a command
  whose predecessor is done holds its block (`DataSource`, `DataExec`, `DataEnq`);
  and a block not yet added has its event and then its result in its slot
  (`DataResult`, `DataSum`). Two blocks of the window never share a slot
  (`RingArith`), so no step on one block disturbs what is known of another. The
  refinement shows that each step maps to a step of `Q6Query` or stutters.
* `SessionTypeCorrect`, `HandlesLiveHolds`, `LoadedAsAskedHolds`, `HandlesReleasedHolds`
  (`Q6SessionProofs`), for all sets of kernels and boards and any number of
  buffers (`SessionAssumption`, `NoKernelAssumption`: "no kernel" is not the name
  of an xclbin), from `SessionInv`: what a start under way has assigned already
  is live and of this start (`BuiltLive`), what each stage knows of the request
  (`Names`), and that without failures no object of a kind a global names is live that
  no global refers to (`Tidy`).

* `OmxPingPongProofs`: `TypeCorrect`, `KernelSafe`, `ResultSafe`, `LateSafe`, for
  every number of blocks and every value of `-cb` (`OmxAssumption`: at least one
  block). The wait lists of block i name events of block i-2 only, and a buffer is
  safe because of all earlier blocks of its bank. The inductive invariant therefore
  has the closure of the wait lists (`WaitOrder`: a command is complete only after
  the one that had its buffer before it, for all `Earlier` blocks), what the host has
  enqueued (`Issued`), and what each buffer holds from the command that fills it to
  the one that empties it (`Contents`).
* `Q6P2PProofs`: `TypeCorrect` and `ReadSafe` from `Window`; `PagesOnce` and
  `PagesDisjoint` from `IInv == Window /\ Blocks /\ Added`, for every relation, block,
  segment and ring size, every fault and any number of queries (`P2PAssumption`: segments and the 2 GB
  boundary are whole numbers of blocks, as they are in the code). `Window` says which
  blocks are in flight (`Ring`, the same argument as for `Q6Pipeline`, and `Pending`,
  since here the host never waits before a read), and where the loop stops (`Sized`:
  this needs that a block is filled to the last page only inside the relation and, in
  a build where the int product wraps, below 2 GB). In `Window` commands of the running
  query are kept apart from those of earlier ones. `Blocks` and `Added` follow the pages of
  a block through device buffer, result words and sum, in a query that is not tainted.
* `Q6PackingProofs`: `TypeCorrect`, `PageBounds`, `PackedInOrder` for every relation,
  page and block size, with any inserts and lengths of either sign (`PackingAssumption`: a
  live tuple fits a packed page, which follows from its heap header; a line without a tuple
  has no positive length; a negative length becomes a `size_t` larger than a page; two bytes
  hold as many tuples as a page has bytes). The strengthening of
  `InOrderOnce` is `InOrder`: what is packed lies before the position of the scan,
  whether that is in the locals of `xql6GetNextPage` or saved in `Xql6FillState`.
  `EmptyLast` and `Complete` hold under `PhantomFits`, that the word before the line
  pointers does not decode to more than a page, from `EmptyIsEnd` (a page
  is left empty only behind the relation) and `Covered` (everything before the position
  is packed). The hypothesis is needed, see section 6; `packing` has hints that
  satisfy it.
* `OmxGatherProofs`: `TypeCorrect`, `NothingLeftHolds` and `GatherCorrect` for every
  size of the database, the banks, a block and the streams, and every set of options.
  `GatherAssumption` and `RowsAssumption` ask for what the sizes in the code give,
  being powers of two: whole bursts in a block, as many lookups for each lane, parts of
  A of one size; burst widths go up to the 32 of the code. No bank count or number of
  lanes is excluded, the model refuses what the program refuses. Two arguments meet.
  *Layout*: `CellOf` shows that the address `in_mapp` computes lies in the part
  `PlaceBuffers` put there and at the row looked up, for emulation, one bank and any
  accepted number of banks; it needs that every part has a bank (`Placed`, section 6).
  *Order*: in `Flow` every lookup g keeps its number. Lane g % pu gets it as its
  lookup number g \div pu; the next lookup of each lane is among the next pu to be
  dealt out (`LanesIn`), and the next answer among the next pu to be collected
  (`LanesOut`). `Turn` and `Cycle` then show that the lanes served in one cycle of a
  burst, narrower or wider than the lanes, are those whose turn it is. When all loops
  have made their counts, these bounds leave no room for a word in a stream
  (`DoneIsEmpty`).

* `Q6PUProofs`: `TypeCorrect`, `RowsAlignedHolds` and `PageUsedUpHolds` for every number
  of units, pages and tuples, every word and page size, every depth of the streams, every
  tuple layout and both kernels. `PUAssumption`: a page is a whole number of words and
  holds its count and its tuples. `LayoutAssumption`: each column the query needs is one
  field of the tuple, and a page has more bytes than its count has consumers; the
  constants of the kernels satisfy both by far. None of the properties is inductive:
  that agg's next row is right depends on what is in the streams to it, that on the
  converters, and so on back to the reader. The invariant `IInv` therefore numbers what
  passes each stream. Byte x of all that a unit gets is `ByteOf(x)`, word k is
  `WordOf(k)` of the block; element j of a stream has the number "taken by its consumer so
  far, plus j" (`ByteInv`, `DataInv`, `FieldInv`, and one conjunct for each further
  stream), and the loop counters of the two ends agree on how many that is (`HdrTook`,
  `Passed`, `Wrote`, `Converted`, `Added`). A process that has read and not yet written
  counts for one (`Held`). `ReaderInv` bounds the reader's one counter by the unit's next
  word from both sides: every word of the unit before it has been dealt out, and none
  from it on. When all processes have made their counts for a page, the equations leave
  nothing in the streams of `q6_paged`, and byte and word streams go on at the next page.

Only model-checked: all liveness properties (they need `ENABLED` under fairness, which the
prover does not handle), and `TypeOK`, `InStep`, `ResultIsQuery6` and `StrayHasCause` of `Q6Swemu`. These
compare what recursive functions and folds compute over the bytes of arbitrary tuples
(encoding and decoding of numerics, the days of a date, pages put together from tuples of
different lengths) with a reference. For every input this needs induction over data,
which is out of the prover's reach. Under the bounds of the run alone a proof would say
no more than the run does.

## 6. Where the code and its texts disagree

Shown by a run:

1. `remaining` / `RemainingEnquesComplete`: after a failed enqueue the commands
   enqueued for that block before are not waited for, though `xql6.c:258` says
   "wait for remaining enques to complete".
2. `omx_memcpy` / `KernelReadsItsBlock`: block i is copied into the pinned buffer
   before the loop waits for anything of block i-2 (`main.cpp:369`, 439), against
   the comment at `main.cpp:353-355`.
3. `p2p_readerror` / `ReadErrorReported`: `if(ret < 0)` on a `size_t` never holds
   (`xql6p2p/host/xql6.c:456`), so a failed read is taken for the end of the
   relation.

Seen while modelling, without a run:

* After a start that failed half way no kernel name is kept, so `stop` releases
  nothing (`xql6.c:368`; `xql6/README.md:97` says "stop : Release fpga kernel"),
  and the next start overwrites the handles. `HandlesReleased` is restricted
  accordingly.
* `end_fpga` is to "Close OpenCL FPGA context and release all buffers" (`fpga_q6.c:85`).
  The references of events that `fpga_q6_enq_compute` keeps, one for each block
  (`fpga_q6.c:147-151`), are never given back, also in a session without any failure,
  and OpenCL deletes no context that has live events. `open_fpga` keeps the image of each
  xclbin it reads (`fpga_q6.c:192`). `events` and `binaries` of `Q6Session` count them.
* The scan of the packer starts each heap page at line 0 (`xql6.c:201`, 430), not at
  `FirstOffsetNumber` as `xql6.h:13` says. What the word there, `pd_prune_xid`, decodes to
  depends on the hint. A positive length is packed as a tuple. A negative one, as
  of a redirected line, makes `memcpy` overrun the page (`Overrun`). One that is more than a
  packed page holds, possible with a transaction number above 2^30, fits no page: every
  further page stays empty, and the rest of the relation is not scanned. `packing` has
  the first two; `PhantomFits` (section 5) excludes the third.
* A command that names the running xclbin and another board keeps the first board
  (`xql6p2p/host/xql6.c:213`; `xql6p2p/host/README.md:77-78`).
* An `ereport` inside the p2p loop skips `xpgclose` (`xql6p2p/host/xql6.c:308`): the
  relation stays open with O_DIRECT.
* `clFinish` does not wait for event callbacks: the last two `copyReadBuf` calls may
  come while `main` compares the results or after the data is freed
  (`omxgather/src/main.cpp:501`). `OnlyLastTwoLate` shows that no others can.
* `-hbm 1` is in the option table (`omxgather/README.md:69`) and is refused: one bank
  of 256 MB does not hold the 512 MB database. `-hbm 32` is accepted though the
  arrays it indexes have 16 entries (`main.cpp:547`, 654-658). `-pc 0 -hbm 16` asks for
  entries of `banks` beyond the 20 that are filled in, so these parts have no bank of
  their own and the addresses of `in_mapp` need not reach them; `GatherIsIndirection`
  excludes this layout (`Placed`).
* The p2p read bypasses shared buffers, the emulation does not
  (`xql6p2p/host/xql6.c:282`, 504), so dirty pages make them read different data
  (`xql6p2p/host/README.md:25`).

## 7. Not modelled

* Logging, timing and the relation check of the UDF; test benches; random data and the
  option parser of omxgather: input and output.
* The objects `OclAccel` creates: `main` connects once, looks at the status only, and
  releases them once at the end.
* What other backends do to a heap page besides inserting (update, delete, prune, vacuum)
  while the packer has it unlocked: `Insert` is the only change. The scan takes no snapshot.
* What a decoder of xql6p2p computes behind a stray tuple (`garbled`), and a backend
  behind an overrun: the models stop there.
* What tainted queries add: the values are free in `Q6Query` and exempt in `Q6P2P`.
* A failed `createBuf` for an input or output buffer of omxgather: `main` prints it and goes on.
* The session composed with the loop. A restart while commands of a failed query are
  queued does not take objects away from them, since OpenCL keeps what a queued
  command uses; what the next query meets in the buffers is in `Q6Pipeline`.
* xpg, of which there is no source, and the PostgreSQL headers, which are vendored.
  These headers are by far the most of the repository's lines; of the sources of the
  designs themselves, comments, messages and test benches included, the map covers
  about half.

Each has its reason in `PROJECT.json`.

## 8. Plan

Done, in this order: the offload loop with its abstraction and proofs, packing,
session with proofs, one processing unit, the gather loop, the p2p loop, the
emulation; then the reader in front of the units, raw heap pages in the decoding,
the gather kernel with layout and options; then the proofs about the gather loop,
the p2p loop, packing, the gather kernel and the processing unit. Every safety property
a passing run checks is proved, except those of `Q6Swemu` (section 5). The type
invariants of `Q6Session` and `OmxPingPong` are proved and need no run. Left for a
prover with induction over data: that decoding inverts encoding for every tuple, from
which `InStep` and `ResultIsQuery6` follow.
