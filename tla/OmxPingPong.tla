---------------------------- MODULE OmxPingPong ----------------------------
(***************************************************************************)
(* The streaming loop of the gather host: execFpgaOp (without -cb) and      *)
(* execFpgaOp_cb (with -cb), with the comparison main makes after it.     *)
(*                                                                         *)
(* Block i goes through one of two input buffers: a memcpy into the pinned *)
(* mapping, a migration to the device (write event i), the kernel (kernel  *)
(* event i), a migration back (read event i).  With callbacks there are    *)
(* two output buffers as well, and a callback on read event i copies the   *)
(* block to xilout and sets a user event; without, each block has its own. *)
(* The command queue is out of order: only the wait lists order commands.  *)
(*                                                                         *)
(* A failed OpenCL call ends the program (OCL_CHECK), so none is modelled. *)
(* The option -cb is documented as 1 or 0 and not checked; main compares it *)
(* with 1 to choose the loop and with 0 to copy the results.               *)
(***************************************************************************)
EXTENDS Integers

CONSTANTS
  TotalBlocks  \* totalBlocks (256 in the code)

ASSUME OmxAssumption == TotalBlocks \in Nat \ {0}

Blocks == 0 .. TotalBlocks - 1
Banks == 0 .. 1

\* pingIdx
Bank(i) == i % 2

Status == {"none", "queued", "complete"}
Commands == {"write", "task", "read"}

\* What a buffer holds: the block, and the commands that brought it there.
NoData == [blk |-> -1, write |-> -1, task |-> -1]
DataSet == [blk : Blocks \cup {-1}, write : Blocks \cup {-1}, task : Blocks \cup {-1}]

VARIABLES
  callback, \* the option -cb
  pc,       \* the host in its loop, or behind it
  iterIdx,  \* the block of this iteration
  event,    \* event[c][i]: writeEvents, kernelEvents, readEvents
  user,     \* user[i]: the user event in readCallBackData[i] is complete
  called,   \* called[i]: copyReadBuf has been called for read event i
  mIn,      \* mIn[b]: block in the pinned mapping mInBuf[b]
  dIn,      \* dIn[b]: contents of the device side of mInClMem[b]
  dOut,     \* dOut[o]: contents of the device side of mOutClMem[o]
  mOut,     \* mOut[o]: contents of the mapping mOutBuf[o]
  ran,      \* ran[i]: what kernel call i found in its input buffer (history)
  xilout    \* xilout[i]: block i of the result

hostVars == <<pc, iterIdx>>
deviceVars == <<dIn, dOut, mOut, ran>>
vars == <<callback, pc, iterIdx, event, user, called, mIn, dIn, dOut, mOut, ran, xilout>>

\* -cb 0, -cb 1, and any other value.
CallbackValues == 0 .. 2

\* execFpgaOp_cb is the loop.
cb == callback = 1

\* The output buffers, and the one of block i.
OutBufs == IF cb THEN Banks ELSE Blocks
OutBuf(i) == IF cb THEN Bank(i) ELSE i

Init ==
  /\ callback \in CallbackValues
  /\ pc = "memcpy" /\ iterIdx = 0
  /\ event = [c \in Commands |-> [i \in Blocks |-> "none"]]
  /\ user = [i \in Blocks |-> FALSE] /\ called = [i \in Blocks |-> FALSE]
  /\ mIn = [b \in Banks |-> -1]
  /\ dIn = [b \in Banks |-> NoData]
  /\ dOut = [o \in OutBufs |-> NoData] /\ mOut = [o \in OutBufs |-> NoData]
  /\ ran = [i \in Blocks |-> NoData]
  /\ xilout = [i \in Blocks |-> NoData]

---------------------------------------------------------------------------
(* The host *)

First == iterIdx \in {0, 1}

\* The iteration that used the same buffers before.
TwoBack == iterIdx - 2

Enqueue(c) == event' = [event EXCEPT ![c][iterIdx] = "queued"]

\* The block is copied before anything is waited for.  execFpgaOp_cb waits for
\* the kernel before it enqueues the migration, execFpgaOp after it.
MemcpyIn ==
  /\ pc = "memcpy"
  /\ mIn' = [mIn EXCEPT ![Bank(iterIdx)] = iterIdx]
  /\ pc' = IF cb /\ ~First THEN "wait_kernel" ELSE "write"
  /\ UNCHANGED <<callback, iterIdx, event, user, called, deviceVars, xilout>>

\* clWaitForEvents(1, &(kernelEvents[iterIdx-2]))
WaitKernel ==
  /\ pc = "wait_kernel" /\ event["task"][TwoBack] = "complete"
  /\ pc' = IF cb THEN "write" ELSE "task"
  /\ UNCHANGED <<callback, iterIdx, event, user, called, mIn, deviceVars, xilout>>

EnqueueWrite ==
  /\ pc = "write"
  /\ Enqueue("write")
  /\ pc' = IF First THEN "task" ELSE IF cb THEN "wait_read" ELSE "wait_kernel"
  /\ UNCHANGED <<callback, iterIdx, user, called, mIn, deviceVars, xilout>>

\* clWaitForEvents(1, &(readEvents[iterIdx-2])), with callbacks only
WaitRead ==
  /\ pc = "wait_read" /\ event["read"][TwoBack] = "complete"
  /\ pc' = "task"
  /\ UNCHANGED <<callback, iterIdx, event, user, called, mIn, deviceVars, xilout>>

EnqueueTask ==
  /\ pc = "task"
  /\ Enqueue("task")
  /\ pc' = "read"
  /\ UNCHANGED <<callback, iterIdx, user, called, mIn, deviceVars, xilout>>

More == iterIdx + 1 < TotalBlocks

\* The migration back is enqueued, its callback registered; the next iteration.
EnqueueRead ==
  /\ pc = "read"
  /\ Enqueue("read")
  /\ IF More THEN pc' = "memcpy" /\ iterIdx' = iterIdx + 1
             ELSE pc' = "finish" /\ UNCHANGED iterIdx
  /\ UNCHANGED <<callback, user, called, mIn, deviceVars, xilout>>

\* Mutant: clFlush alone, which waits for nothing.
FinishAtOnce ==
  /\ pc = "finish"
  /\ pc' = "check"
  /\ xilout' = IF callback = 0 THEN [i \in Blocks |-> mOut[i]] ELSE xilout
  /\ UNCHANGED <<callback, iterIdx, event, user, called, mIn, deviceVars>>

\* clFinish returns when every command is complete; callbacks are no commands.
\* With -cb 0 main then copies the output buffers; it compares xilout.
Finish ==
  /\ pc = "finish"
  /\ \A c \in Commands, i \in Blocks : event[c][i] = "complete"
  /\ pc' = "check"
  /\ xilout' = IF callback = 0 THEN [i \in Blocks |-> mOut[i]] ELSE xilout
  /\ UNCHANGED <<callback, iterIdx, event, user, called, mIn, deviceVars>>

Host ==
  \/ MemcpyIn \/ WaitKernel \/ EnqueueWrite \/ WaitRead \/ EnqueueTask \/ EnqueueRead
  \/ Finish

---------------------------------------------------------------------------
(* The OpenCL runtime *)

IsComplete(c, i) == event[c][i] = "complete"

\* Mutant: the migration does not wait for the kernel.
WriteReadyAtOnce(i) == TRUE

\* The wait lists of the three commands of block i.
WriteReady(i) == i >= 2 => IsComplete("task", i - 2)

TaskReady(i) ==
  /\ IsComplete("write", i)
  /\ i >= 2 /\ cb => IsComplete("read", i - 2)

\* Mutant: the migration back does not wait for the callback.
ReadReadyKernelOnly(i) == IsComplete("task", i)

ReadReady(i) ==
  /\ IsComplete("task", i)
  /\ i >= 2 /\ cb => user[i - 2]

Complete(c, i) ==
  /\ event[c][i] = "queued"
  /\ event' = [event EXCEPT ![c][i] = "complete"]
  /\ UNCHANGED <<callback, hostVars, user, called, mIn, xilout>>

RunWrite(i) ==
  /\ WriteReady(i) /\ Complete("write", i)
  /\ dIn' = [dIn EXCEPT ![Bank(i)] = [blk |-> mIn[Bank(i)], write |-> i, task |-> -1]]
  /\ UNCHANGED <<dOut, mOut, ran>>

RunTask(i) ==
  /\ TaskReady(i) /\ Complete("task", i)
  /\ ran' = [ran EXCEPT ![i] = dIn[Bank(i)]]
  /\ dOut' = [dOut EXCEPT ![OutBuf(i)] = [dIn[Bank(i)] EXCEPT !.task = i]]
  /\ UNCHANGED <<dIn, mOut>>

RunRead(i) ==
  /\ ReadReady(i) /\ Complete("read", i)
  /\ mOut' = [mOut EXCEPT ![OutBuf(i)] = dOut[OutBuf(i)]]
  /\ UNCHANGED <<dIn, dOut, ran>>

Runtime == \E i \in Blocks : RunWrite(i) \/ RunTask(i) \/ RunRead(i)

\* Mutant: the user event is never set.
CopyReadBufSilent(i) ==
  /\ cb /\ IsComplete("read", i) /\ ~called[i]
  /\ called' = [called EXCEPT ![i] = TRUE]
  /\ xilout' = [xilout EXCEPT ![i] = mOut[OutBuf(i)]]
  /\ UNCHANGED <<callback, hostVars, event, user, mIn, deviceVars>>

\* The callback, in a thread of the runtime, some time after the event.
copyReadBuf(i) ==
  /\ cb /\ IsComplete("read", i) /\ ~called[i]
  /\ called' = [called EXCEPT ![i] = TRUE]
  /\ xilout' = [xilout EXCEPT ![i] = mOut[OutBuf(i)]]
  /\ user' = [user EXCEPT ![i] = TRUE]
  /\ UNCHANGED <<callback, hostVars, event, mIn, deviceVars>>

Callback == \E i \in Blocks : copyReadBuf(i)

Next == Host \/ Runtime \/ Callback

\* The host runs; the runtime runs a command whose wait list is complete and
\* calls the callbacks of complete events.
Fairness == WF_vars(Host) /\ WF_vars(Runtime) /\ WF_vars(Callback)

Spec == Init /\ [][Next]_vars /\ Fairness

---------------------------------------------------------------------------
(* Properties *)

\* Every variable keeps to the values the code can give it: two input buffers,
\* one event of each kind per block.
TypeOK ==
  /\ callback \in CallbackValues
  /\ pc \in {"memcpy", "wait_kernel", "write", "wait_read", "task", "read", "finish", "check"}
  /\ iterIdx \in Blocks
  /\ event \in [Commands -> [Blocks -> Status]]
  /\ user \in [Blocks -> BOOLEAN] /\ called \in [Blocks -> BOOLEAN]
  /\ mIn \in [Banks -> Blocks \cup {-1}] /\ dIn \in [Banks -> DataSet]
  /\ dOut \in [OutBufs -> DataSet] /\ mOut \in [OutBufs -> DataSet]
  /\ ran \in [Blocks -> DataSet] /\ xilout \in [Blocks -> DataSet]

\* On the device the ping-pong works: kernel call i finds in its input buffer
\* what migration i brought, never what i - 2 or i + 2 did, in any order the
\* out-of-order queue may choose (wait lists of execFpgaOp and execFpgaOp_cb).
KernelReadsItsTransfer ==
  \A i \in Blocks : IsComplete("task", i) => ran[i].write = i

\* No result is lost or taken twice: what arrives as block i of the result is
\* what kernel call i produced, although two output buffers serve all of them
\* (wait lists of the task and of the migration back, copyReadBuf).
ResultOfItsKernel ==
  \A i \in Blocks : xilout[i] # NoData => xilout[i].task = i

\* When main compares the result with the reference, at most the last two blocks
\* are not in it yet, and with -cb 0 none: their callbacks are all that may be
\* outstanding when clFinish returns (execFpgaOp_cb, checkOp in main).  With a
\* value of -cb that is not documented nothing is copied at all.
OnlyLastTwoLate ==
  pc = "check" => \A i \in Blocks :
    (cb /\ i + 2 < TotalBlocks) \/ callback = 0 => xilout[i].task = i

\* The loop ends and, with -cb 0 or 1, every block of the result arrives: no wait
\* of the host and no wait list is for something that never comes.
AllArrive ==
  <>(pc = "check" /\ (callback \in {0, 1} => \A i \in Blocks : xilout[i] # NoData))

\* "Once the kernel is finished processing the data, a new set of elements will
\* be written into the buffer": so kernel call i works on block i.
KernelReadsItsBlock ==
  \A i \in Blocks : IsComplete("task", i) => ran[i].blk = i

===========================================================================
