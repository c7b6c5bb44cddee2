------------------------- MODULE OmxPingPongProofs -------------------------
(***************************************************************************)
(* Proofs about OmxPingPong, for every number of blocks and with and       *)
(* without callbacks: what the wait lists order, and what follows for the  *)
(* contents of the two input and the two output buffers.                   *)
(***************************************************************************)
EXTENDS OmxPingPong, TLAPS

USE DEF cb

\* Two blocks through the same pair of buffers, the first one earlier.
Earlier(i, j) == i < j /\ Bank(i) = Bank(j)

\* What the host has enqueued: nothing of a block it has not come to, and of the
\* block it is at only what is behind it in the loop.
Issued ==
  /\ \A c \in Commands, j \in Blocks : j > iterIdx => event[c][j] = "none"
  /\ pc \in {"memcpy", "write"} \/ (cb /\ pc = "wait_kernel") => event["write"][iterIdx] = "none"
  /\ pc \notin {"read", "finish", "check"} => event["task"][iterIdx] = "none"
  /\ pc \notin {"finish", "check"} => event["read"][iterIdx] = "none"

\* What the wait lists order: a block goes through write, task and read, and a
\* command is complete only after the one that had its buffer before it, for all
\* earlier blocks of the same bank (the code's lists name the last of them).
WaitOrder ==
  /\ \A i \in Blocks : IsComplete("task", i) => IsComplete("write", i)
  /\ \A i \in Blocks : IsComplete("read", i) => IsComplete("task", i)
  /\ \A i \in Blocks : called[i] => cb /\ IsComplete("read", i)
  /\ user = called
  /\ \A i, j \in Blocks : Earlier(i, j) =>
       /\ IsComplete("write", j) => IsComplete("task", i)
       /\ cb /\ IsComplete("task", j) => IsComplete("read", i)
       /\ cb /\ IsComplete("read", j) => called[i]

\* What the buffers hold: from the command that fills one to the one that empties
\* it, the buffer of a block is the block's.
Contents ==
  /\ \A i \in Blocks : IsComplete("write", i) /\ ~IsComplete("task", i) => dIn[Bank(i)].write = i
  /\ \A i \in Blocks : IsComplete("task", i) => ran[i].write = i
  /\ \A i \in Blocks : IsComplete("task", i) /\ ~IsComplete("read", i) => dOut[OutBuf(i)].task = i
  /\ \A i \in Blocks : IsComplete("read", i) /\ ~called[i] => mOut[OutBuf(i)].task = i
  /\ \A i \in Blocks : called[i] => xilout[i].task = i
  /\ \A i \in Blocks : ~called[i] /\ (callback # 0 \/ pc # "check") => xilout[i] = NoData
  /\ pc = "check" =>
       /\ \A c \in Commands, i \in Blocks : IsComplete(c, i)
       /\ callback = 0 => \A i \in Blocks : xilout[i].task = i

IInv == TypeOK /\ Issued /\ WaitOrder /\ Contents

---------------------------------------------------------------------------
(* Banks and events *)

\* pingIdx is 0 or 1.
LEMMA BankType == ASSUME NEW i \in Blocks PROVE Bank(i) \in Banks
BY OmxAssumption DEF Bank, Banks, Blocks

\* The block two back is the last earlier one of the same bank.
LEMMA TwoBackIsLast ==
  ASSUME NEW i \in Blocks, NEW j \in Blocks, Earlier(i, j)
  PROVE  j - 2 \in Blocks /\ j >= 2 /\ (i = j - 2 \/ Earlier(i, j - 2))
BY OmxAssumption DEF Earlier, Bank, Blocks

\* Blocks of one bank are ordered.
LEMMA SameBank ==
  ASSUME NEW i \in Blocks, NEW j \in Blocks, Bank(i) = Bank(j)
  PROVE  i = j \/ Earlier(i, j) \/ Earlier(j, i)
BY OmxAssumption DEF Earlier, Blocks

\* The output buffer of a block is one of those there are.
LEMMA OutBufType == ASSUME NEW i \in Blocks PROVE OutBuf(i) \in OutBufs
BY BankType DEF OutBuf, OutBufs

\* Without callbacks no two blocks share an output buffer.
LEMMA SameOutBuf ==
  ASSUME NEW i \in Blocks, NEW j \in Blocks, OutBuf(i) = OutBuf(j), i # j
  PROVE  cb /\ (Earlier(i, j) \/ Earlier(j, i))
BY SameBank DEF OutBuf

\* An event that completes is the only one that changes.
LEMMA CompleteEvent ==
  ASSUME TypeOK, NEW c \in Commands, NEW i \in Blocks, Complete(c, i)
  PROVE  /\ event' \in [Commands -> [Blocks -> Status]]
         /\ ~IsComplete(c, i) /\ IsComplete(c, i)'
         /\ \A d \in Commands, j \in Blocks :
              d # c \/ j # i => (IsComplete(d, j)' <=> IsComplete(d, j))
BY DEF TypeOK, Complete, IsComplete, Status

\* To enqueue the next command completes none; no complete event is reset, because
\* the host has not come to this block before.
LEMMA EnqueueEvent ==
  ASSUME TypeOK, NEW c \in Commands, Enqueue(c), event[c][iterIdx] = "none"
  PROVE  /\ event' \in [Commands -> [Blocks -> Status]]
         /\ \A d \in Commands, j \in Blocks : IsComplete(d, j)' <=> IsComplete(d, j)
BY DEF TypeOK, Enqueue, IsComplete, Status
---------------------------------------------------------------------------
(* The host *)

\* The copy into the pinned mapping touches no event and no device buffer.
LEMMA MemcpyInv == IInv /\ MemcpyIn => IInv'
<1> SUFFICES ASSUME IInv, MemcpyIn PROVE IInv'
  OBVIOUS
<1> USE DEF IInv, MemcpyIn, deviceVars
<1>1. TypeOK'
  BY BankType DEF TypeOK, OutBufs
<1>2. Issued'
  BY DEF Issued, TypeOK
<1>3. WaitOrder'
  BY DEF WaitOrder, IsComplete
<1>4. Contents'
  BY DEF Contents, IsComplete, OutBuf
<1> QED BY <1>1, <1>2, <1>3, <1>4

\* Neither do the host's waits.
LEMMA WaitInv == IInv /\ (WaitKernel \/ WaitRead) => IInv'
<1> SUFFICES ASSUME IInv, WaitKernel \/ WaitRead PROVE IInv'
  OBVIOUS
<1> USE DEF IInv, WaitKernel, WaitRead, deviceVars
<1>1. TypeOK'
  BY DEF TypeOK, OutBufs
<1>2. Issued'
  BY DEF Issued, TypeOK
<1>3. WaitOrder'
  BY DEF WaitOrder, IsComplete
<1>4. Contents'
  BY DEF Contents, IsComplete, OutBuf
<1> QED BY <1>1, <1>2, <1>3, <1>4

\* Each command is enqueued once, so no complete event is set back.
LEMMA EnqueueInv == IInv /\ (EnqueueWrite \/ EnqueueTask \/ EnqueueRead) => IInv'
<1> SUFFICES ASSUME IInv, EnqueueWrite \/ EnqueueTask \/ EnqueueRead PROVE IInv'
  OBVIOUS
<1> USE DEF IInv, deviceVars
<1>1. PICK c \in Commands : Enqueue(c) /\ event[c][iterIdx] = "none"
  BY DEF EnqueueWrite, EnqueueTask, EnqueueRead, Issued, Commands
<1>2. /\ event' \in [Commands -> [Blocks -> Status]]
      /\ \A d \in Commands, j \in Blocks : IsComplete(d, j)' <=> IsComplete(d, j)
  BY <1>1, EnqueueEvent
<1>3. UNCHANGED <<callback, user, called, mIn, dIn, dOut, mOut, ran, xilout>>
  BY DEF EnqueueWrite, EnqueueTask, EnqueueRead
<1>4. pc # "check" /\ pc' # "check"
  BY DEF EnqueueWrite, EnqueueTask, EnqueueRead
<1>5. TypeOK'
  <2>1. iterIdx' \in Blocks
    BY OmxAssumption DEF TypeOK, EnqueueWrite, EnqueueTask, EnqueueRead, More, Blocks
  <2>2. pc' \in {"memcpy", "wait_kernel", "write", "wait_read", "task", "read", "finish", "check"}
    BY DEF EnqueueWrite, EnqueueTask, EnqueueRead
  <2> QED BY <1>2, <1>3, <2>1, <2>2 DEF TypeOK, OutBufs
<1>6. Issued'
  <2>1. CASE EnqueueWrite
    BY <2>1 DEF EnqueueWrite, Enqueue, Issued, TypeOK, Commands, Blocks
  <2>2. CASE EnqueueTask
    BY <2>2 DEF EnqueueTask, Enqueue, Issued, TypeOK, Commands, Blocks
  <2>3. CASE EnqueueRead
    BY <2>3, OmxAssumption DEF EnqueueRead, Enqueue, More, Issued, TypeOK, Commands, Blocks
  <2> QED BY <2>1, <2>2, <2>3
<1>7. WaitOrder'
  BY <1>2, <1>3 DEF WaitOrder, Commands, Earlier, Bank
<1>8. Contents'
  BY <1>2, <1>3, <1>4 DEF Contents, Commands, OutBuf
<1> QED BY <1>5, <1>6, <1>7, <1>8

\* Behind clFinish every migration back is done, so without callbacks every output
\* buffer holds its block.
LEMMA FinishInv == IInv /\ Finish => IInv'
<1> SUFFICES ASSUME IInv, Finish PROVE IInv'
  OBVIOUS
<1> USE DEF IInv, Finish, deviceVars
<1>1. \A c \in Commands, i \in Blocks : IsComplete(c, i) /\ IsComplete(c, i)'
  BY DEF IsComplete
<1>2. callback = 0 => \A i \in Blocks : mOut[i].task = i
  BY <1>1 DEF Contents, WaitOrder, OutBuf, Commands
<1>3. TypeOK'
  BY DEF TypeOK, OutBufs
<1>4. Issued'
  BY DEF Issued
<1>5. WaitOrder'
  BY DEF WaitOrder, IsComplete
<1>6. Contents'
  BY <1>1, <1>2 DEF Contents, WaitOrder, IsComplete, OutBuf, Commands
<1> QED BY <1>3, <1>4, <1>5, <1>6

---------------------------------------------------------------------------
(* The runtime *)

\* Before the migration of block i writes its input buffer, the kernel calls of
\* all earlier blocks of the bank are complete, and it is before all later ones.
LEMMA RunWriteInv == ASSUME NEW i \in Blocks, IInv, RunWrite(i) PROVE IInv'
<1> USE DEF IInv
<1>0. Complete("write", i) /\ "write" \in Commands
  BY DEF RunWrite, Commands
<1>1. /\ event' \in [Commands -> [Blocks -> Status]]
      /\ ~IsComplete("write", i) /\ IsComplete("write", i)'
      /\ \A d \in Commands, j \in Blocks :
           d # "write" \/ j # i => (IsComplete(d, j)' <=> IsComplete(d, j))
  BY <1>0, CompleteEvent
<1>2. UNCHANGED <<callback, pc, iterIdx, user, called, mIn, dOut, mOut, ran, xilout>>
  BY DEF RunWrite, Complete, hostVars
<1>3. \A j \in Blocks : Earlier(j, i) => IsComplete("task", j)
  BY TwoBackIsLast DEF RunWrite, WriteReady, WaitOrder
<1>4. \A j \in Blocks : Earlier(i, j) => ~IsComplete("write", j)
  BY <1>1 DEF WaitOrder
<1>5. TypeOK'
  <2>1. [blk |-> mIn[Bank(i)], write |-> i, task |-> -1] \in DataSet
    BY BankType DEF TypeOK, DataSet
  <2> QED BY <1>1, <1>2, <2>1, BankType DEF TypeOK, OutBufs, RunWrite
<1>6. Issued'
  BY <1>0, <1>2 DEF Issued, Complete, TypeOK, Commands
<1>7. WaitOrder'
  BY <1>1, <1>2, <1>3 DEF WaitOrder, Commands, Earlier, Bank
<1>8. Contents'
  <2>1. \A j \in Blocks : IsComplete("write", j)' /\ ~IsComplete("task", j)' => dIn'[Bank(j)].write = j
    <3> SUFFICES ASSUME NEW j \in Blocks, IsComplete("write", j)', ~IsComplete("task", j)'
                 PROVE  dIn'[Bank(j)].write = j
      OBVIOUS
    <3>1. CASE j = i
      BY <3>1, BankType DEF RunWrite, TypeOK
    <3>2. CASE j # i
      <4>1. IsComplete("write", j) /\ ~IsComplete("task", j)
        BY <1>1, <3>2 DEF Commands
      <4>2. Bank(j) # Bank(i)
        BY <1>3, <1>4, <3>2, <4>1, SameBank
      <4> QED BY <4>1, <4>2, BankType DEF RunWrite, TypeOK, Contents
    <3> QED BY <3>1, <3>2
  <2> QED BY <1>1, <1>2, <2>1 DEF Contents, Commands, OutBuf
<1> QED BY <1>5, <1>6, <1>7, <1>8

\* Before kernel call i writes its output buffer, the results of all earlier blocks
\* that share it are migrated, and it is before all later ones.
LEMMA RunTaskInv == ASSUME NEW i \in Blocks, IInv, RunTask(i) PROVE IInv'
<1> USE DEF IInv
<1>0. Complete("task", i) /\ "task" \in Commands
  BY DEF RunTask, Commands
<1>1. /\ event' \in [Commands -> [Blocks -> Status]]
      /\ ~IsComplete("task", i) /\ IsComplete("task", i)'
      /\ \A d \in Commands, j \in Blocks :
           d # "task" \/ j # i => (IsComplete(d, j)' <=> IsComplete(d, j))
  BY <1>0, CompleteEvent
<1>2. UNCHANGED <<callback, pc, iterIdx, user, called, mIn, dIn, mOut, xilout>>
  BY DEF RunTask, Complete, hostVars
<1>3. cb => \A j \in Blocks : Earlier(j, i) => IsComplete("read", j)
  BY TwoBackIsLast DEF RunTask, TaskReady, WaitOrder
<1>4. cb => \A j \in Blocks : Earlier(i, j) => ~IsComplete("task", j)
  BY <1>1 DEF WaitOrder
<1>5. dIn[Bank(i)] \in DataSet /\ dIn[Bank(i)].write = i
  BY <1>1, BankType DEF RunTask, TaskReady, Contents, TypeOK
<1>6. TypeOK'
  <2>1. [dIn[Bank(i)] EXCEPT !.task = i] \in DataSet
    BY <1>5 DEF DataSet
  <2> QED BY <1>1, <1>2, <1>5, <2>1, OutBufType DEF TypeOK, OutBufs, RunTask
<1>7. Issued'
  BY <1>0, <1>2 DEF Issued, Complete, TypeOK, Commands
<1>8. WaitOrder'
  BY <1>1, <1>2, <1>3 DEF WaitOrder, Commands, Earlier, Bank, RunTask, TaskReady
<1>9. Contents'
  <2>1. \A j \in Blocks : IsComplete("task", j)' => ran'[j].write = j
    BY <1>1, <1>5 DEF RunTask, TypeOK, Contents, Commands
  <2>2. \A j \in Blocks : IsComplete("task", j)' /\ ~IsComplete("read", j)' => dOut'[OutBuf(j)].task = j
    <3> SUFFICES ASSUME NEW j \in Blocks, IsComplete("task", j)', ~IsComplete("read", j)'
                 PROVE  dOut'[OutBuf(j)].task = j
      OBVIOUS
    <3>1. CASE j = i
      BY <1>5, <3>1, OutBufType DEF RunTask, TypeOK, DataSet
    <3>2. CASE j # i
      <4>1. IsComplete("task", j) /\ ~IsComplete("read", j)
        BY <1>1, <3>2 DEF Commands
      <4>2. OutBuf(j) # OutBuf(i)
        BY <1>3, <1>4, <3>2, <4>1, SameOutBuf
      <4> QED BY <4>1, <4>2, OutBufType DEF RunTask, TypeOK, Contents
    <3> QED BY <3>1, <3>2
  <2> QED BY <1>1, <1>2, <2>1, <2>2 DEF Contents, Commands, OutBuf
<1> QED BY <1>6, <1>7, <1>8, <1>9

\* Before migration i writes the mapping of its output buffer, the callbacks of all
\* earlier blocks that share it have copied it, and it is before all later ones.
LEMMA RunReadInv == ASSUME NEW i \in Blocks, IInv, RunRead(i) PROVE IInv'
<1> USE DEF IInv
<1>0. Complete("read", i) /\ "read" \in Commands
  BY DEF RunRead, Commands
<1>1. /\ event' \in [Commands -> [Blocks -> Status]]
      /\ ~IsComplete("read", i) /\ IsComplete("read", i)'
      /\ \A d \in Commands, j \in Blocks :
           d # "read" \/ j # i => (IsComplete(d, j)' <=> IsComplete(d, j))
  BY <1>0, CompleteEvent
<1>2. UNCHANGED <<callback, pc, iterIdx, user, called, mIn, dIn, dOut, ran, xilout>>
  BY DEF RunRead, Complete, hostVars
<1>3. cb => \A j \in Blocks : Earlier(j, i) => called[j]
  BY TwoBackIsLast DEF RunRead, ReadReady, WaitOrder
<1>4. cb => \A j \in Blocks : Earlier(i, j) => ~IsComplete("read", j)
  BY <1>1 DEF WaitOrder
<1>5. dOut[OutBuf(i)] \in DataSet /\ dOut[OutBuf(i)].task = i
  BY <1>1, OutBufType DEF RunRead, ReadReady, Contents, TypeOK
<1>6. TypeOK'
  BY <1>1, <1>2, <1>5, OutBufType DEF TypeOK, OutBufs, RunRead
<1>7. Issued'
  BY <1>0, <1>2 DEF Issued, Complete, TypeOK, Commands
<1>8. WaitOrder'
  BY <1>1, <1>2, <1>3 DEF WaitOrder, Commands, Earlier, Bank, RunRead, ReadReady
<1>9. Contents'
  <2>1. \A j \in Blocks : IsComplete("read", j)' /\ ~called[j] => mOut'[OutBuf(j)].task = j
    <3> SUFFICES ASSUME NEW j \in Blocks, IsComplete("read", j)', ~called[j]
                 PROVE  mOut'[OutBuf(j)].task = j
      OBVIOUS
    <3>1. CASE j = i
      BY <1>5, <3>1, OutBufType DEF RunRead, TypeOK
    <3>2. CASE j # i
      <4>1. IsComplete("read", j)
        BY <1>1, <3>2 DEF Commands
      <4>2. OutBuf(j) # OutBuf(i)
        BY <1>3, <1>4, <3>2, <4>1, SameOutBuf
      <4> QED BY <4>1, <4>2, OutBufType DEF RunRead, TypeOK, Contents
    <3> QED BY <3>1, <3>2
  <2> QED BY <1>1, <1>2, <2>1 DEF Contents, Commands, OutBuf
<1> QED BY <1>6, <1>7, <1>8, <1>9

\* A callback finds the block it is called for in the mapping.
LEMMA CallbackInv == ASSUME NEW i \in Blocks, IInv, copyReadBuf(i) PROVE IInv'
<1> USE DEF IInv, copyReadBuf, deviceVars, hostVars
<1>1. mOut[OutBuf(i)] \in DataSet /\ mOut[OutBuf(i)].task = i
  BY OutBufType DEF Contents, TypeOK
<1>2. TypeOK'
  BY <1>1 DEF TypeOK, OutBufs
<1>3. Issued'
  BY DEF Issued
<1>4. \A j \in Blocks : called'[j] <=> called[j] \/ j = i
  BY DEF TypeOK
<1>5. WaitOrder'
  BY <1>4 DEF WaitOrder, IsComplete, Earlier, Bank, TypeOK
<1>6. Contents'
  BY <1>1, <1>4 DEF Contents, IsComplete, OutBuf, TypeOK
<1> QED BY <1>2, <1>3, <1>5, <1>6

---------------------------------------------------------------------------
(* Theorems *)

\* The inductive invariant, of execFpgaOp and of execFpgaOp_cb.
THEOREM Inductive == Spec => []IInv
<1>1. Init => IInv
  <2> SUFFICES ASSUME Init PROVE IInv
    OBVIOUS
  <2>1. NoData \in DataSet
    BY DEF NoData, DataSet
  <2>2. TypeOK
    BY <2>1, OmxAssumption DEF Init, TypeOK, Status, Blocks
  <2>3. \A c \in Commands, i \in Blocks : event[c][i] = "none" /\ ~IsComplete(c, i) /\ ~called[i]
    BY DEF Init, IsComplete
  <2>4. Issued /\ WaitOrder /\ Contents
    BY <2>2, <2>3 DEF Init, TypeOK, Issued, WaitOrder, Contents, Commands
  <2> QED BY <2>2, <2>4 DEF IInv
<1>2. IInv /\ [Next]_vars => IInv'
  <2> SUFFICES ASSUME IInv, [Next]_vars PROVE IInv'
    OBVIOUS
  <2>1. CASE Host
    BY <2>1, MemcpyInv, WaitInv, EnqueueInv, FinishInv DEF Host
  <2>2. CASE Runtime
    BY <2>2, RunWriteInv, RunTaskInv, RunReadInv DEF Runtime
  <2>3. CASE Callback
    BY <2>3, CallbackInv DEF Callback
  <2>4. CASE UNCHANGED vars
    BY <2>4 DEF vars, IInv, TypeOK, Issued, WaitOrder, Contents, IsComplete, OutBufs, OutBuf
  <2> QED BY <2>1, <2>2, <2>3, <2>4 DEF Next
<1> QED BY <1>1, <1>2, PTL DEF Spec

\* Every variable keeps its type, for every number of blocks: the loop never
\* indexes an event, a buffer or a block that does not exist.
THEOREM TypeCorrect == Spec => []TypeOK
BY Inductive, PTL DEF IInv

\* Kernel call i finds in its input buffer what migration i brought, for every
\* number of blocks and every order the out-of-order queue allows.
THEOREM KernelSafe == Spec => []KernelReadsItsTransfer
<1>1. IInv => KernelReadsItsTransfer
  BY DEF IInv, Contents, KernelReadsItsTransfer
<1> QED BY <1>1, Inductive, PTL

\* Block i of the result is what kernel call i produced, although two output
\* buffers serve all of them.
THEOREM ResultSafe == Spec => []ResultOfItsKernel
<1>1. IInv => ResultOfItsKernel
  BY DEF IInv, WaitOrder, Contents, ResultOfItsKernel
<1> QED BY <1>1, Inductive, PTL

\* When main compares the result, at most the last two blocks are not in it.
THEOREM LateSafe == Spec => []OnlyLastTwoLate
<1>1. IInv => OnlyLastTwoLate
  <2> SUFFICES ASSUME IInv, pc = "check", NEW i \in Blocks,
                      (cb /\ i + 2 < TotalBlocks) \/ callback = 0
               PROVE  xilout[i].task = i
    BY DEF OnlyLastTwoLate
  <2>1. CASE callback = 0
    BY <2>1 DEF IInv, Contents
  <2>2. CASE cb /\ i + 2 < TotalBlocks
    <3>1. i + 2 \in Blocks /\ Earlier(i, i + 2)
      BY <2>2, OmxAssumption DEF Blocks, Earlier, Bank
    <3>2. called[i]
      BY <2>2, <3>1 DEF IInv, Contents, WaitOrder, Commands
    <3> QED BY <3>2 DEF IInv, Contents
  <2> QED BY <2>1, <2>2
<1> QED BY <1>1, Inductive, PTL
===========================================================================
