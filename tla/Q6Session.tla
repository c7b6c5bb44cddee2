----------------------------- MODULE Q6Session -----------------------------
(***************************************************************************)
(* The FPGA session behind the UDF: which xclbin is loaded, and which      *)
(* OpenCL objects the globals of fpga_q6.c refer to.                       *)
(*                                                                         *)
(* A backend keeps its session between calls of xql6(relation, command).   *)
(* A command is 'stop', 'swemu' or the name of an xclbin; naming another   *)
(* xclbin stops the running kernel and starts the new one.  Starting is a  *)
(* chain of OpenCL calls each of which may fail; a failed start returns at *)
(* once and releases nothing.  The object a handle refers to is named by   *)
(* the number of the start that created it, 0 being NULL.  Two resources   *)
(* have no global to release them by and are counted: references to result *)
(* events, and the memory an xclbin is read into.                          *)
(*                                                                         *)
(* xql6p2p adds a board number to the command; xql6 has the one board 0.   *)
(***************************************************************************)
EXTENDS Integers, FiniteSets

CONSTANTS
  Kernels,     \* names of xclbin files
  Boards,      \* board numbers a command may name
  NBUF,        \* pairs of buffers (10 in the code)
  MaxBlocks,   \* bound: blocks a query enqueues
  MaxCalls     \* bound: calls of the UDF

ASSUME SessionAssumption == NBUF \in Nat \ {0} /\ MaxBlocks \in Nat /\ MaxCalls \in Nat

NoKernel == "no kernel"
ASSUME NoKernelAssumption == NoKernel \notin Kernels

Bufs == 0 .. NBUF - 1

\* The globals that hold an OpenCL object or a mapping.
Singles == {"context", "commands", "program", "kernel"} \X {0}
Buffers == {"devInp", "devOut"} \X Bufs
Mappings == {"pInp", "pOut"} \X Bufs
Handles == Singles \cup Buffers \cup Mappings

Requests ==
  [cmd : {"stop", "swemu"}, krn : {NoKernel}, board : Boards]
    \cup [cmd : {"hw"}, krn : Kernels, board : Boards]

VARIABLES
  pc,
  calls,       \* calls of the UDF so far
  req,         \* arguments of the current (or last) call
  krn,         \* p_fpgaKernelName
  gen,         \* number of the last start
  handle,      \* handle[h]: the object global h refers to
  live,        \* objects created and not released
  loaded,      \* xclbin the program of the last start was created from
  board,       \* board its context was created on
  buf,         \* index of start_fpga's loop over the buffers
  failures,    \* starts that failed
  events,      \* event references the host holds
  binaries     \* xclbin images in memory

kept == <<events, binaries>>
vars == <<pc, calls, req, krn, gen, handle, live, loaded, board, buf, failures, kept>>

Init ==
  /\ pc = "idle" /\ calls = 0
  /\ req \in [cmd : {"swemu"}, krn : {NoKernel}, board : Boards]
  /\ krn = NoKernel /\ gen = 0
  /\ handle = [h \in Handles |-> 0]
  /\ live = {} /\ loaded = NoKernel /\ board \in Boards
  /\ buf = 0 /\ failures = 0 /\ events = 0 /\ binaries = 0

\* xql6 (relation, command, board): the arguments are read, the relation opened.
Call ==
  /\ pc = "idle" /\ calls < MaxCalls
  /\ calls' = calls + 1
  /\ req' \in Requests
  /\ pc' = "dispatch"
  /\ UNCHANGED <<krn, gen, handle, live, loaded, board, buf, failures, kept>>

---------------------------------------------------------------------------
(* end_fpga, close_fpga *)

\* Mutant: the result buffers are forgotten.
ReleasedNoOutput == {h \in Handles : h[1] # "devOut"}

\* What end_fpga unmaps and releases.
Released == Handles

\* Every mapping and object is released; the globals of the buffers are set to
\* NULL, those of context, queue, program and kernel keep their old value.  Event
\* references and the memory of the xclbin stay.
EndFpga ==
  /\ live' = live \ {<<h, handle[h]>> : h \in Released}
  /\ handle' = [h \in Handles |-> IF h \in Singles THEN handle[h] ELSE 0]
  /\ krn' = NoKernel
  /\ UNCHANGED <<calls, req, gen, loaded, board, buf, failures, kept>>

StopKernel ==
  /\ pc = "dispatch" /\ req.cmd = "stop" /\ krn # NoKernel
  /\ EndFpga
  /\ pc' = "idle"

\* "No running kernel."
StopNothing ==
  /\ pc = "dispatch" /\ req.cmd = "stop" /\ krn = NoKernel
  /\ pc' = "idle"
  /\ UNCHANGED <<calls, req, krn, gen, handle, live, loaded, board, buf, failures, kept>>

\* The software path does not touch the session.
Swemu ==
  /\ pc = "dispatch" /\ req.cmd = "swemu"
  /\ pc' = "idle"
  /\ UNCHANGED <<calls, req, krn, gen, handle, live, loaded, board, buf, failures, kept>>

---------------------------------------------------------------------------
(* xql6_run_hw up to its loop *)

\* new kernel and old one exists. stop old
StopOld ==
  /\ pc = "dispatch" /\ req.cmd = "hw" /\ krn \notin {NoKernel, req.krn}
  /\ EndFpga
  /\ UNCHANGED pc

\* Mutant: any running kernel is taken for the one asked for.
ReuseAny ==
  /\ pc = "dispatch" /\ req.cmd = "hw" /\ krn # NoKernel
  /\ pc' = "query"
  /\ UNCHANGED <<calls, req, krn, gen, handle, live, loaded, board, buf, failures, kept>>

\* The kernel of that name is running.
Reuse ==
  /\ pc = "dispatch" /\ req.cmd = "hw" /\ krn = req.krn
  /\ pc' = "query"
  /\ UNCHANGED <<calls, req, krn, gen, handle, live, loaded, board, buf, failures, kept>>

\* Mutant: the name is set before the kernel is started.
InitKernelNamedFirst ==
  /\ pc = "dispatch" /\ req.cmd = "hw" /\ krn = NoKernel
  /\ gen' = gen + 1 /\ krn' = req.krn
  /\ pc' = "open"
  /\ UNCHANGED <<calls, req, handle, live, loaded, board, buf, failures, kept>>

\* xql6_init_kernel calls start_fpga, which calls open_fpga.
InitKernel ==
  /\ pc = "dispatch" /\ req.cmd = "hw" /\ krn = NoKernel
  /\ gen' = gen + 1
  /\ pc' = "open"
  /\ UNCHANGED <<calls, req, krn, handle, live, loaded, board, buf, failures, kept>>

---------------------------------------------------------------------------
(* open_fpga and start_fpga *)

\* A call fails: EXIT_FAILURE all the way up, xql6_run_hw returns.
StartFails == pc' = "idle" /\ failures' = failures + 1

\* The handles in hs are assigned: those in ok get a new object, the others NULL.
Assign(hs, ok) ==
  /\ handle' = [h \in Handles |-> IF h \in ok THEN gen ELSE IF h \in hs THEN 0 ELSE handle[h]]
  /\ live' = live \cup (ok \X {gen})

\* OpenCL calls that create the objects of hs, tested together: on to the next
\* stage when all were created.
Create(hs, next) ==
  \E ok \in SUBSET hs :
    /\ Assign(hs, ok)
    /\ \/ ok = hs /\ pc' = next /\ UNCHANGED failures
       \/ ok # hs /\ StartFails

\* The xclbin is read into memory, the platform and the device are found; or not.
\* Nothing frees the memory once it holds the file.
OpenDevice ==
  /\ pc = "open"
  /\ \/ pc' = "context" /\ binaries' = binaries + 1 /\ UNCHANGED failures
     \/ StartFails /\ binaries' \in {binaries, binaries + 1}
  /\ UNCHANGED <<calls, req, krn, gen, handle, live, loaded, board, buf, events>>

CreateContext ==
  /\ pc = "context"
  /\ Create({<<"context", 0>>}, "commands")
  /\ board' = req.board
  /\ UNCHANGED <<calls, req, krn, gen, loaded, buf, kept>>

CreateCommandQueue ==
  /\ pc = "commands"
  /\ Create({<<"commands", 0>>}, "program")
  /\ UNCHANGED <<calls, req, krn, gen, loaded, board, buf, kept>>

CreateProgram ==
  /\ pc = "program"
  /\ Create({<<"program", 0>>}, "build")
  /\ loaded' = req.krn
  /\ UNCHANGED <<calls, req, krn, gen, board, buf, kept>>

BuildProgram ==
  /\ pc = "build"
  /\ \/ pc' = "kernel" /\ UNCHANGED failures
     \/ StartFails
  /\ UNCHANGED <<calls, req, krn, gen, handle, live, loaded, board, buf, kept>>

CreateKernel ==
  /\ pc = "kernel"
  /\ Create({<<"kernel", 0>>}, "buffers")
  /\ buf' = 0
  /\ UNCHANGED <<calls, req, krn, gen, loaded, board, kept>>

\* devInp[i] and devOut[i] are both created before either is tested.
CreateBuffers ==
  /\ pc = "buffers"
  /\ Create({<<"devInp", buf>>, <<"devOut", buf>>}, "map")
  /\ UNCHANGED <<calls, req, krn, gen, loaded, board, buf, kept>>

\* for (i=0; i<10; ++i) is left.
LastBuffer == buf = NBUF - 1

\* Both are mapped; after the last pair start_fpga succeeds and the name is kept.
MapBuffers ==
  /\ pc = "map"
  /\ Create({<<"pInp", buf>>, <<"pOut", buf>>}, IF LastBuffer THEN "query" ELSE "buffers")
  /\ buf' = IF pc' = "buffers" THEN buf + 1 ELSE buf
  /\ krn' = IF pc' = "query" THEN req.krn ELSE krn
  /\ UNCHANGED <<calls, req, gen, loaded, board, kept>>

\* The offload loop (Q6Pipeline) ends: result, failure or ereport.  Handles and
\* kernel stay as they are.  fpga_q6_enq_compute retains rdEvent, releases it once
\* and so keeps a reference per block; if an enqueue fails, the events of the
\* commands before it (wrEvent, ndEvent) are not released either.
RunQuery ==
  /\ pc = "query"
  /\ \E blocks \in 0 .. MaxBlocks, early \in 0 .. 2 : events' = events + blocks + early
  /\ pc' = "idle"
  /\ UNCHANGED <<calls, req, krn, gen, handle, live, loaded, board, buf, failures, binaries>>

---------------------------------------------------------------------------

Serve ==
  \/ StopKernel \/ StopNothing \/ Swemu
  \/ StopOld \/ Reuse \/ InitKernel
  \/ OpenDevice \/ CreateContext \/ CreateCommandQueue \/ CreateProgram
  \/ BuildProgram \/ CreateKernel \/ CreateBuffers \/ MapBuffers
  \/ RunQuery

Next == Call \/ Serve

Spec == Init /\ [][Next]_vars

---------------------------------------------------------------------------
(* Properties *)

Starting == {"open", "context", "commands", "program", "build", "kernel", "buffers", "map"}

\* Every variable keeps to the values the code can give it.
TypeOK ==
  /\ pc \in {"idle", "dispatch", "query"} \cup Starting
  /\ calls \in Nat /\ gen \in Nat /\ failures \in Nat
  /\ req \in Requests
  /\ krn \in Kernels \cup {NoKernel} /\ loaded \in Kernels \cup {NoKernel}
  /\ handle \in [Handles -> Nat]
  /\ live \subseteq Handles \X Nat
  /\ board \in Boards /\ buf \in Bufs
  /\ events \in Nat /\ binaries \in Nat

\* While a kernel name is kept, and so whenever a query runs or end_fpga is
\* called, every global refers to a live object and all of them come from one
\* start: no mixture of a failed and a successful start, nothing released twice
\* (xql6.c:188-194, fpga_q6.c:51-104).
HandlesLive ==
  krn # NoKernel =>
    \A h \in Handles : handle[h] = gen /\ <<h, handle[h]>> \in live

\* A query runs on the xclbin the command names, after any sequence of stops,
\* restarts and failed starts (xql6.c:182-194).
LoadedAsAsked == pc = "query" => krn = req.krn /\ loaded = req.krn

\* Of the objects the globals of fpga_q6.c name (context, queue, program, kernel,
\* buffers and mappings) none is lost as long as every start succeeded: what is live
\* is what a global refers to, over any sequence of commands, and a stopped session
\* has none of them.  Event references and xclbin images are no such objects.
HandlesReleased ==
  failures = 0 =>
    /\ \A o \in live : handle[o[1]] = o[2]
    /\ pc = "idle" /\ krn = NoKernel => live = {}

---------------------------------------------------------------------------
(* The inductive invariant behind the properties above (proved in          *)
(* Q6SessionProofs).                                                       *)

\* The handles a start under way has assigned already.
Built ==
  {h \in Handles :
     \/ h[1] = "context" /\ pc \in Starting \ {"open", "context"}
     \/ h[1] = "commands" /\ pc \in {"program", "build", "kernel", "buffers", "map"}
     \/ h[1] = "program" /\ pc \in {"build", "kernel", "buffers", "map"}
     \/ h[1] = "kernel" /\ pc \in {"buffers", "map"}
     \/ h[1] \in {"devInp", "devOut"} /\ pc = "buffers" /\ h[2] < buf
     \/ h[1] \in {"devInp", "devOut"} /\ pc = "map" /\ h[2] <= buf
     \/ h[1] \in {"pInp", "pOut"} /\ pc \in {"buffers", "map"} /\ h[2] < buf}

\* Assigned handles refer to live objects of this start.
BuiltLive == \A h \in Built : handle[h] = gen /\ <<h, gen>> \in live

\* What each stage of a call knows about the request and the names.
Names ==
  /\ pc \in Starting => krn = NoKernel /\ req.cmd = "hw"
  /\ pc \in {"build", "kernel", "buffers", "map"} => loaded = req.krn
  /\ krn # NoKernel => loaded = krn
  /\ pc = "query" => krn = req.krn /\ krn # NoKernel

\* Without a failed start: outside a start nothing is live unless a kernel runs,
\* and what is live is referred to.
Tidy ==
  failures = 0 =>
    /\ \A o \in live : handle[o[1]] = o[2]
    /\ krn = NoKernel /\ pc \notin Starting => live = {}
    /\ pc \in Starting => \A o \in live : o[1] \in Built

SessionInv == TypeOK /\ HandlesLive /\ BuiltLive /\ Names /\ Tidy

===========================================================================
