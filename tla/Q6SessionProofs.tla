-------------------------- MODULE Q6SessionProofs --------------------------
(***************************************************************************)
(* The session invariants of Q6Session hold for any number of buffers, any *)
(* set of kernels and boards, and any sequence of calls and failures.      *)
(***************************************************************************)
EXTENDS Q6Session, TLAPS

\* The parts of a handle.
LEMMA HandleParts ==
  ASSUME NEW h \in Handles
  PROVE  /\ h = <<h[1], h[2]>> /\ h[2] \in Nat
         /\ h[1] \in {"context", "commands", "program", "kernel"} <=> h \in Singles
         /\ h[1] \in {"devInp", "devOut"} <=> h \in Buffers
         /\ h[1] \in {"pInp", "pOut"} <=> h \in Mappings
         /\ h \in Singles => h[2] = 0
         /\ h \in Buffers \cup Mappings => h[2] \in Bufs
BY SessionAssumption DEF Handles, Singles, Buffers, Mappings, Bufs

LEMMA SomeHandles ==
  ASSUME NEW b \in Bufs
  PROVE  /\ {<<"context", 0>>, <<"commands", 0>>, <<"program", 0>>, <<"kernel", 0>>} \subseteq Handles
         /\ {<<"devInp", b>>, <<"devOut", b>>} \subseteq Handles
         /\ {<<"pInp", b>>, <<"pOut", b>>} \subseteq Handles
BY DEF Handles, Singles, Buffers, Mappings

\* A creation assigns some of the handles and leaves the others alone.
LEMMA CreateFacts ==
  ASSUME TypeOK, NEW hs \in SUBSET Handles, NEW next, Create(hs, next)
  PROVE  /\ handle' \in [Handles -> Nat] /\ live' \subseteq Handles \X Nat
         /\ \A h \in Handles : h \notin hs => handle'[h] = handle[h]
         /\ live \subseteq live'
         /\ \/ /\ pc' = next /\ failures' = failures
               /\ \A h \in hs : handle'[h] = gen /\ <<h, gen>> \in live'
               /\ \A o \in live' : o \in live \/ (o[1] \in hs /\ o[2] = gen)
            \/ pc' = "idle" /\ failures' = failures + 1
<1> PICK ok \in SUBSET hs :
       /\ Assign(hs, ok)
       /\ \/ ok = hs /\ pc' = next /\ UNCHANGED failures
          \/ ok # hs /\ StartFails
  BY DEF Create
<1>1. handle' \in [Handles -> Nat] /\ \A h \in Handles : h \notin hs => handle'[h] = handle[h]
  BY DEF Assign, TypeOK
<1>2. live' \subseteq Handles \X Nat /\ live \subseteq live'
  BY DEF Assign, TypeOK
<1>3. \A h \in ok : handle'[h] = gen /\ <<h, gen>> \in live'
  BY DEF Assign, TypeOK
<1>4. \A o \in live' : o \in live \/ (o[1] \in ok /\ o[2] = gen)
  BY DEF Assign
<1> QED BY <1>1, <1>2, <1>3, <1>4 DEF StartFails

---------------------------------------------------------------------------
(* Type correctness *)

LEMMA RequestParts ==
  ASSUME NEW r \in Requests
  PROVE  /\ r.cmd \in {"stop", "swemu", "hw"}
         /\ r.krn \in Kernels \cup {NoKernel} /\ r.board \in Boards
         /\ r.cmd = "hw" => r.krn \in Kernels
BY DEF Requests

LEMMA TypeInit == Init => TypeOK
BY SessionAssumption DEF Init, TypeOK, Requests, Bufs

LEMMA TypeStep == TypeOK /\ [Next]_vars => TypeOK'
<1> SUFFICES ASSUME TypeOK, [Next]_vars PROVE TypeOK'
  OBVIOUS
<1> USE RequestParts
<1>1. CASE Call
  BY <1>1 DEF Call, TypeOK, kept
<1>2. CASE StopKernel \/ StopOld
  BY <1>2 DEF StopKernel, StopOld, EndFpga, TypeOK, kept
<1>3. CASE StopNothing \/ Swemu \/ Reuse \/ RunQuery
  BY <1>3, SessionAssumption DEF StopNothing, Swemu, Reuse, RunQuery, TypeOK, kept
<1>4. CASE InitKernel
  BY <1>4 DEF InitKernel, TypeOK, Starting, kept
<1>5. CASE OpenDevice \/ BuildProgram
  BY <1>5 DEF OpenDevice, BuildProgram, StartFails, TypeOK, Starting, kept
<1>6. buf \in Bufs /\ 0 \in Bufs
  BY SessionAssumption DEF TypeOK, Bufs
<1>7. CASE CreateContext \/ CreateCommandQueue \/ CreateProgram \/ CreateKernel \/ CreateBuffers
  <2>1. PICK hs \in SUBSET Handles, next \in Starting : Create(hs, next)
    <3>1. CASE CreateContext
      BY <3>1, <1>6, SomeHandles DEF CreateContext, Starting
    <3>2. CASE CreateCommandQueue
      BY <3>2, <1>6, SomeHandles DEF CreateCommandQueue, Starting
    <3>3. CASE CreateProgram
      BY <3>3, <1>6, SomeHandles DEF CreateProgram, Starting
    <3>4. CASE CreateKernel
      BY <3>4, <1>6, SomeHandles DEF CreateKernel, Starting
    <3>5. CASE CreateBuffers
      BY <3>5, <1>6, SomeHandles DEF CreateBuffers, Starting
    <3> QED BY <1>7, <3>1, <3>2, <3>3, <3>4, <3>5
  <2>2. /\ handle' \in [Handles -> Nat] /\ live' \subseteq Handles \X Nat
        /\ (pc' = next /\ failures' = failures) \/ (pc' = "idle" /\ failures' = failures + 1)
    BY <2>1, CreateFacts, Zenon
  <2>3. pc' \in {"idle"} \cup Starting /\ failures' \in Nat
    BY <2>1, <2>2 DEF TypeOK
  <2> QED BY <1>6, <1>7, <2>2, <2>3
      DEF CreateContext, CreateCommandQueue, CreateProgram, CreateKernel, CreateBuffers,
          TypeOK, kept
<1>8. CASE MapBuffers
  <2>1. /\ handle' \in [Handles -> Nat] /\ live' \subseteq Handles \X Nat
        /\ pc' \in {"idle", "query", "buffers"} /\ failures' \in Nat
        /\ pc' = "buffers" => ~LastBuffer
    <3>1. {<<"pInp", buf>>, <<"pOut", buf>>} \in SUBSET Handles
      BY <1>6, SomeHandles
    <3> DEFINE next == IF LastBuffer THEN "query" ELSE "buffers"
    <3>2. Create({<<"pInp", buf>>, <<"pOut", buf>>}, next)
      BY <1>8 DEF MapBuffers
    <3> HIDE DEF next
    <3>3. /\ handle' \in [Handles -> Nat] /\ live' \subseteq Handles \X Nat
          /\ (pc' = next /\ failures' = failures) \/ (pc' = "idle" /\ failures' = failures + 1)
      BY <3>1, <3>2, CreateFacts, Zenon
    <3> QED BY <3>3 DEF next, TypeOK
  <2>2. buf' \in Bufs
    BY <1>8, <2>1, SessionAssumption DEF MapBuffers, LastBuffer, Bufs, TypeOK
  <2> QED BY <1>8, <2>1, <2>2 DEF MapBuffers, TypeOK, Starting, kept
<1>9. CASE UNCHANGED vars
  BY <1>9 DEF vars, kept, TypeOK
<1> QED BY <1>1, <1>2, <1>3, <1>4, <1>5, <1>6, <1>7, <1>8, <1>9 DEF Next, Serve

\* The session keeps to its types.
THEOREM SessionTypeCorrect == Spec => []TypeOK
BY TypeInit, TypeStep, PTL DEF Spec

---------------------------------------------------------------------------
(* The inductive invariant *)

LEMMA InvInit == Init => SessionInv
<1> SUFFICES ASSUME Init PROVE SessionInv
  OBVIOUS
<1>1. TypeOK
  BY TypeInit
<1>2. Built = {}
  BY DEF Init, Built, Starting
<1> QED BY <1>1, <1>2
    DEF Init, SessionInv, HandlesLive, BuiltLive, Names, Tidy, Starting

\* Outside a start nothing is being built.
LEMMA NothingBuilt == pc \notin Starting \ {"open", "context"} => Built = {}
BY DEF Built, Starting

\* What the last stages of a start have built.
LEMMA BuiltWhole ==
  ASSUME TypeOK, pc = "map", LastBuffer
  PROVE  Handles \subseteq Built \cup {<<"pInp", buf>>, <<"pOut", buf>>}
<1> SUFFICES ASSUME NEW h \in Handles PROVE h \in Built \cup {<<"pInp", buf>>, <<"pOut", buf>>}
  OBVIOUS
<1>1. CASE h \in Singles
  BY <1>1, HandleParts DEF Built, Starting
<1>2. CASE h \in Buffers
  <2>1. h[2] <= buf
    BY <1>2, HandleParts, SessionAssumption DEF LastBuffer, Bufs
  <2> QED BY <1>2, <2>1, HandleParts DEF Built
<1>3. CASE h \in Mappings
  <2>1. h[2] < buf \/ h[2] = buf
    BY <1>3, HandleParts, SessionAssumption DEF LastBuffer, Bufs
  <2> QED BY <1>3, <2>1, HandleParts DEF Built
<1> QED BY <1>1, <1>2, <1>3 DEF Handles

\* A successful creation extends what is built by the handles it assigned.
LEMMA Extend ==
  ASSUME TypeOK, BuiltLive, NEW hs \in SUBSET Handles, NEW next, Create(hs, next),
         pc' # "idle", gen' = gen, hs \cap Built = {}
  PROVE  /\ \A h \in Built \cup hs : handle'[h] = gen' /\ <<h, gen'>> \in live'
         /\ pc' = next /\ failures' = failures
         /\ \A o \in live' : o \in live \/ (o[1] \in hs /\ o[2] = gen)
<1>1. /\ \A h \in Handles : h \notin hs => handle'[h] = handle[h]
      /\ live \subseteq live'
      /\ pc' = next /\ failures' = failures
      /\ \A h \in hs : handle'[h] = gen /\ <<h, gen>> \in live'
      /\ \A o \in live' : o \in live \/ (o[1] \in hs /\ o[2] = gen)
  BY CreateFacts, Zenon
<1>2. Built \subseteq Handles
  BY DEF Built
<1> QED BY <1>1, <1>2 DEF BuiltLive

\* A failed call of a start ends it without a kernel name.
LEMMA FailedStart ==
  ASSUME SessionInv, pc \in Starting, pc' = "idle", krn' = krn, failures' = failures + 1
  PROVE  HandlesLive' /\ BuiltLive' /\ Names' /\ Tidy'
<1>1. Built' = {}
  BY NothingBuilt DEF Built, Starting
<1>2. krn' = NoKernel /\ failures' # 0 /\ pc' \notin Starting
  BY DEF SessionInv, Names, TypeOK, Starting
<1> QED BY <1>1, <1>2 DEF HandlesLive, BuiltLive, Names, Tidy, Starting

\* A creation that is not the last step of a start preserves the invariant.
LEMMA CreateStep ==
  ASSUME SessionInv, NEW hs \in SUBSET Handles, NEW next \in Starting, Create(hs, next),
         pc \in Starting, pc' # "idle", hs \cap Built = {}, Built' = Built \cup hs,
         gen' = gen, krn' = krn
  PROVE  HandlesLive' /\ BuiltLive' /\ Tidy'
<1>1. /\ \A h \in Built \cup hs : handle'[h] = gen' /\ <<h, gen'>> \in live'
      /\ pc' = next /\ failures' = failures
      /\ \A o \in live' : o \in live \/ (o[1] \in hs /\ o[2] = gen)
  BY Extend, Zenon DEF SessionInv
<1>2. HandlesLive' /\ BuiltLive'
  BY <1>1 DEF SessionInv, Names, HandlesLive, BuiltLive
<1>3. ASSUME failures' = 0, NEW o \in live'
      PROVE  o[1] \in Built' /\ handle'[o[1]] = o[2]
  <2>1. CASE o[1] \in hs /\ o[2] = gen
    BY <1>1, <2>1
  <2>2. CASE o \in live
    <3>1. o[1] \in Built /\ handle[o[1]] = o[2]
      BY <1>1, <1>3, <2>2 DEF SessionInv, Tidy
    <3> QED BY <1>1, <3>1 DEF SessionInv, BuiltLive
  <2> QED BY <1>1, <2>1, <2>2
<1> QED BY <1>1, <1>2, <1>3 DEF Tidy

LEMMA InvStep == SessionInv /\ [Next]_vars => SessionInv'
<1> SUFFICES ASSUME SessionInv, [Next]_vars PROVE HandlesLive' /\ BuiltLive' /\ Names' /\ Tidy'
  BY TypeStep DEF SessionInv
<1>0. TypeOK /\ buf \in Bufs /\ 0 \in Bufs
  BY SessionAssumption DEF SessionInv, TypeOK, Bufs
<1>1. CASE Call \/ StopNothing \/ Swemu \/ Reuse \/ RunQuery
  <2>1. /\ pc' \notin Starting /\ pc \notin Starting
        /\ UNCHANGED <<krn, gen, handle, live, loaded, failures>>
        /\ pc' = "query" => krn' = req'.krn /\ krn' # NoKernel
    BY <1>1, <1>0, RequestParts, NoKernelAssumption
    DEF Call, StopNothing, Swemu, Reuse, RunQuery, Starting, TypeOK
  <2>2. Built' = {}
    BY <2>1 DEF Built, Starting
  <2> QED BY <2>1, <2>2 DEF SessionInv, HandlesLive, BuiltLive, Names, Tidy, Starting
<1>2. CASE StopKernel \/ StopOld
  <2>1. /\ pc' \notin Starting /\ pc' # "query" /\ pc \notin Starting /\ krn' = NoKernel
        /\ krn # NoKernel /\ live' = live \ {<<h, handle[h]>> : h \in Handles}
        /\ failures' = failures
    BY <1>2 DEF StopKernel, StopOld, EndFpga, Released, Starting
  <2>2. Built' = {}
    BY <2>1 DEF Built, Starting
  <2>3. failures = 0 => live' = {}
    <3> SUFFICES ASSUME failures = 0, NEW o \in live PROVE o \in {<<h, handle[h]>> : h \in Handles}
      BY <2>1
    <3>1. o = <<o[1], o[2]>> /\ o[1] \in Handles
      BY <1>0 DEF TypeOK
    <3>2. handle[o[1]] = o[2]
      BY DEF SessionInv, Tidy
    <3> QED BY <3>1, <3>2
  <2> QED BY <2>1, <2>2, <2>3 DEF HandlesLive, BuiltLive, Names, Tidy, Starting
<1>3. CASE InitKernel
  <2>1. /\ pc' = "open" /\ pc \notin Starting /\ krn = NoKernel /\ req.cmd = "hw"
        /\ UNCHANGED <<req, krn, handle, live, loaded, failures>>
    BY <1>3 DEF InitKernel, Starting
  <2>2. Built' = {}
    BY <2>1 DEF Built, Starting
  <2>3. failures = 0 => live = {}
    BY <2>1 DEF SessionInv, Tidy
  <2> QED BY <2>1, <2>2, <2>3 DEF SessionInv, HandlesLive, BuiltLive, Names, Tidy, Starting
<1>4. CASE OpenDevice \/ BuildProgram
  <2>1. pc \in Starting /\ UNCHANGED <<req, krn, gen, handle, live, loaded, buf>>
    BY <1>4 DEF OpenDevice, BuildProgram, Starting
  <2>2. CASE pc' = "idle"
    <3>1. failures' = failures + 1
      BY <1>4, <2>2 DEF OpenDevice, BuildProgram, StartFails
    <3> QED BY <2>1, <2>2, <3>1, FailedStart
  <2>3. CASE pc' # "idle"
    <3>1. /\ (pc = "open" /\ pc' = "context") \/ (pc = "build" /\ pc' = "kernel")
          /\ failures' = failures
      BY <1>4, <2>3 DEF OpenDevice, BuildProgram, StartFails
    <3>2. Built' = Built
      BY <2>1, <3>1 DEF Built, Starting
    <3> QED BY <2>1, <3>1, <3>2 DEF SessionInv, HandlesLive, BuiltLive, Names, Tidy, Starting
  <2> QED BY <2>2, <2>3
<1>5. CASE CreateContext
  <2> DEFINE hs == {<<"context", 0>>}
  <2>1. hs \in SUBSET Handles
    BY <1>0, SomeHandles
  <2>2. Create(hs, "commands") /\ gen' = gen /\ krn' = krn /\ pc \in Starting
    BY <1>5 DEF CreateContext, Starting
  <2>3. hs \cap Built = {}
    BY <1>5, <1>0 DEF CreateContext, Built, Bufs
  <2>4. pc' = "idle" => HandlesLive' /\ BuiltLive' /\ Names' /\ Tidy'
    <3> SUFFICES ASSUME pc' = "idle" PROVE HandlesLive' /\ BuiltLive' /\ Names' /\ Tidy'
      OBVIOUS
    <3>1. failures' = failures + 1
      BY <2>2 DEF Create, StartFails
    <3> QED BY <2>2, <3>1, FailedStart
  <2>5. ASSUME pc' # "idle" PROVE HandlesLive' /\ BuiltLive' /\ Names' /\ Tidy'
    <3>1. pc' = "commands" /\ "commands" \in Starting
      BY <2>2, <2>5 DEF Create, StartFails, Starting
    <3>2. Built' = Built \cup hs
      BY <1>5, <1>0, <3>1, HandleParts, <2>1 DEF CreateContext, Built, Starting, Bufs
    <3>3. Names'
      BY <1>5, <3>1 DEF CreateContext, SessionInv, Names, Starting
    <3> HIDE DEF hs
    <3> QED BY <2>1, <2>2, <2>3, <2>5, <3>1, <3>2, <3>3, CreateStep
  <2> QED BY <2>4, <2>5
<1>6. CASE CreateCommandQueue
  <2> DEFINE hs == {<<"commands", 0>>}
  <2>1. hs \in SUBSET Handles
    BY <1>0, SomeHandles
  <2>2. Create(hs, "program") /\ gen' = gen /\ krn' = krn /\ pc \in Starting
    BY <1>6 DEF CreateCommandQueue, Starting
  <2>3. hs \cap Built = {}
    BY <1>6, <1>0 DEF CreateCommandQueue, Built, Bufs
  <2>4. pc' = "idle" => HandlesLive' /\ BuiltLive' /\ Names' /\ Tidy'
    <3> SUFFICES ASSUME pc' = "idle" PROVE HandlesLive' /\ BuiltLive' /\ Names' /\ Tidy'
      OBVIOUS
    <3>1. failures' = failures + 1
      BY <2>2 DEF Create, StartFails
    <3> QED BY <2>2, <3>1, FailedStart
  <2>5. ASSUME pc' # "idle" PROVE HandlesLive' /\ BuiltLive' /\ Names' /\ Tidy'
    <3>1. pc' = "program" /\ "program" \in Starting
      BY <2>2, <2>5 DEF Create, StartFails, Starting
    <3>2. Built' = Built \cup hs
      BY <1>6, <1>0, <3>1, HandleParts, <2>1 DEF CreateCommandQueue, Built, Starting, Bufs
    <3>3. Names'
      BY <1>6, <3>1 DEF CreateCommandQueue, SessionInv, Names, Starting
    <3> HIDE DEF hs
    <3> QED BY <2>1, <2>2, <2>3, <2>5, <3>1, <3>2, <3>3, CreateStep
  <2> QED BY <2>4, <2>5
<1>7. CASE CreateProgram
  <2> DEFINE hs == {<<"program", 0>>}
  <2>1. hs \in SUBSET Handles
    BY <1>0, SomeHandles
  <2>2. Create(hs, "build") /\ gen' = gen /\ krn' = krn /\ pc \in Starting
    BY <1>7 DEF CreateProgram, Starting
  <2>3. hs \cap Built = {}
    BY <1>7, <1>0 DEF CreateProgram, Built, Bufs
  <2>4. pc' = "idle" => HandlesLive' /\ BuiltLive' /\ Names' /\ Tidy'
    <3> SUFFICES ASSUME pc' = "idle" PROVE HandlesLive' /\ BuiltLive' /\ Names' /\ Tidy'
      OBVIOUS
    <3>1. failures' = failures + 1
      BY <2>2 DEF Create, StartFails
    <3> QED BY <2>2, <3>1, FailedStart
  <2>5. ASSUME pc' # "idle" PROVE HandlesLive' /\ BuiltLive' /\ Names' /\ Tidy'
    <3>1. pc' = "build" /\ "build" \in Starting
      BY <2>2, <2>5 DEF Create, StartFails, Starting
    <3>2. Built' = Built \cup hs
      BY <1>7, <1>0, <3>1, HandleParts, <2>1 DEF CreateProgram, Built, Starting, Bufs
    <3>3. Names'
      BY <1>7, <3>1 DEF CreateProgram, SessionInv, Names, Starting
    <3> HIDE DEF hs
    <3> QED BY <2>1, <2>2, <2>3, <2>5, <3>1, <3>2, <3>3, CreateStep
  <2> QED BY <2>4, <2>5
<1>8. CASE CreateKernel
  <2> DEFINE hs == {<<"kernel", 0>>}
  <2>1. hs \in SUBSET Handles
    BY <1>0, SomeHandles
  <2>2. Create(hs, "buffers") /\ gen' = gen /\ krn' = krn /\ pc \in Starting
    BY <1>8 DEF CreateKernel, Starting
  <2>3. hs \cap Built = {}
    BY <1>8, <1>0 DEF CreateKernel, Built, Bufs
  <2>4. pc' = "idle" => HandlesLive' /\ BuiltLive' /\ Names' /\ Tidy'
    <3> SUFFICES ASSUME pc' = "idle" PROVE HandlesLive' /\ BuiltLive' /\ Names' /\ Tidy'
      OBVIOUS
    <3>1. failures' = failures + 1
      BY <2>2 DEF Create, StartFails
    <3> QED BY <2>2, <3>1, FailedStart
  <2>5. ASSUME pc' # "idle" PROVE HandlesLive' /\ BuiltLive' /\ Names' /\ Tidy'
    <3>1. pc' = "buffers" /\ "buffers" \in Starting
      BY <2>2, <2>5 DEF Create, StartFails, Starting
    <3>2. Built' = Built \cup hs
      BY <1>8, <1>0, <3>1, HandleParts, <2>1 DEF CreateKernel, Built, Starting, Bufs
    <3>3. Names'
      BY <1>8, <3>1 DEF CreateKernel, SessionInv, Names, Starting
    <3> HIDE DEF hs
    <3> QED BY <2>1, <2>2, <2>3, <2>5, <3>1, <3>2, <3>3, CreateStep
  <2> QED BY <2>4, <2>5
<1>9. CASE CreateBuffers
  <2> DEFINE hs == {<<"devInp", buf>>, <<"devOut", buf>>}
  <2>1. hs \in SUBSET Handles
    BY <1>0, SomeHandles
  <2>2. Create(hs, "map") /\ gen' = gen /\ krn' = krn /\ pc \in Starting
    BY <1>9 DEF CreateBuffers, Starting
  <2>3. hs \cap Built = {}
    BY <1>9, <1>0 DEF CreateBuffers, Built, Bufs
  <2>4. pc' = "idle" => HandlesLive' /\ BuiltLive' /\ Names' /\ Tidy'
    <3> SUFFICES ASSUME pc' = "idle" PROVE HandlesLive' /\ BuiltLive' /\ Names' /\ Tidy'
      OBVIOUS
    <3>1. failures' = failures + 1
      BY <2>2 DEF Create, StartFails
    <3> QED BY <2>2, <3>1, FailedStart
  <2>5. ASSUME pc' # "idle" PROVE HandlesLive' /\ BuiltLive' /\ Names' /\ Tidy'
    <3>1. pc' = "map" /\ "map" \in Starting
      BY <2>2, <2>5 DEF Create, StartFails, Starting
    <3>2. Built' = Built \cup hs
      BY <1>9, <1>0, <3>1, HandleParts, <2>1 DEF CreateBuffers, Built, Starting, Bufs
    <3>3. Names'
      BY <1>9, <3>1 DEF CreateBuffers, SessionInv, Names, Starting
    <3> HIDE DEF hs
    <3> QED BY <2>1, <2>2, <2>3, <2>5, <3>1, <3>2, <3>3, CreateStep
  <2> QED BY <2>4, <2>5
<1>10. CASE MapBuffers
  <2> DEFINE hs == {<<"pInp", buf>>, <<"pOut", buf>>}
  <2> DEFINE next == IF LastBuffer THEN "query" ELSE "buffers"
  <2>1. hs \in SUBSET Handles
    BY <1>0, SomeHandles
  <2>2. Create(hs, next) /\ gen' = gen /\ req' = req /\ loaded' = loaded /\ pc = "map"
    BY <1>10 DEF MapBuffers
  <2>3. hs \cap Built = {}
    BY <1>10, <1>0 DEF MapBuffers, Built, Bufs
  <2>4. krn = NoKernel /\ loaded = req.krn /\ req.cmd = "hw" /\ req.krn # NoKernel
    BY <1>0, <2>2, RequestParts, NoKernelAssumption DEF SessionInv, Names, Starting, TypeOK
  <2>5. CASE pc' = "idle"
    <3>1. failures' = failures + 1
      BY <2>2, <2>5 DEF Create, StartFails
    <3>2. krn' = krn /\ pc \in Starting
      BY <1>10, <2>5 DEF MapBuffers, Starting
    <3> QED BY <2>5, <3>1, <3>2, FailedStart
  <2>6. CASE pc' = "buffers"
    <3>1. krn' = krn /\ buf' = buf + 1 /\ pc \in Starting /\ "buffers" \in Starting
      BY <1>10, <2>6 DEF MapBuffers, Starting
    <3>2. Create(hs, "buffers")
      BY <2>2, <2>6 DEF Create, StartFails
    <3>3. Built' = Built \cup hs
      BY <1>0, <2>1, <2>2, <2>6, <3>1, HandleParts DEF Built, Starting, Bufs
    <3>4. Names'
      BY <2>2, <2>4, <2>6, <3>1 DEF Names, Starting
    <3> HIDE DEF hs
    <3> QED BY <2>1, <2>2, <2>3, <2>6, <3>1, <3>2, <3>3, <3>4, CreateStep
  <2>7. CASE pc' = "query"
    <3>1. krn' = req.krn /\ LastBuffer
      BY <1>10, <2>2, <2>7 DEF MapBuffers, Create, StartFails
    <3>2. Handles \subseteq Built \cup hs
      BY <1>0, <2>2, <3>1, BuiltWhole
    <3> HIDE DEF hs, next
    <3>3. /\ \A h \in Built \cup hs : handle'[h] = gen' /\ <<h, gen'>> \in live'
          /\ failures' = failures
          /\ \A o \in live' : o \in live \/ (o[1] \in hs /\ o[2] = gen)
      <4>1. BuiltLive /\ pc' # "idle"
        BY <2>7 DEF SessionInv
      <4> QED BY <1>0, <2>1, <2>2, <2>3, <4>1, Extend, Zenon
    <3>4. HandlesLive'
      BY <3>2, <3>3 DEF HandlesLive
    <3>5. Built' = {} /\ pc' \notin Starting
      BY <2>7 DEF Built, Starting
    <3>6. Tidy'
      <4>1. ASSUME failures' = 0, NEW o \in live' PROVE handle'[o[1]] = o[2]
        <5>1. CASE o[1] \in hs /\ o[2] = gen
          BY <2>2, <3>3, <5>1
        <5>2. CASE o \in live
          <6>1. o[1] \in Built /\ handle[o[1]] = o[2]
            BY <2>2, <3>3, <4>1, <5>2 DEF SessionInv, Tidy, Starting
          <6> QED BY <2>2, <3>3, <6>1 DEF SessionInv, BuiltLive
        <5> QED BY <3>3, <5>1, <5>2
      <4> QED BY <2>4, <3>1, <3>5, <4>1 DEF Tidy
    <3>7. Names'
      BY <2>2, <2>4, <2>7, <3>1 DEF Names, Starting
    <3> QED BY <3>4, <3>5, <3>6, <3>7 DEF BuiltLive
  <2>8. pc' \in {"idle", "buffers", "query"}
    BY <2>2 DEF Create, StartFails
  <2> QED BY <2>5, <2>6, <2>7, <2>8
<1>11. CASE UNCHANGED vars
  BY <1>11 DEF vars, SessionInv, HandlesLive, BuiltLive, Built, Names, Tidy
<1> QED
  BY <1>1, <1>2, <1>3, <1>4, <1>5, <1>6, <1>7, <1>8, <1>9, <1>10, <1>11 DEF Next, Serve

LEMMA InvAlways == Spec => []SessionInv
BY InvInit, InvStep, PTL DEF Spec

\* Whenever a kernel name is kept, every global of the session refers to a live
\* object of the one start that succeeded.
THEOREM HandlesLiveHolds == Spec => []HandlesLive
<1>1. SessionInv => HandlesLive
  BY DEF SessionInv
<1> QED BY <1>1, InvAlways, PTL

\* Every query runs on the xclbin its command names.
THEOREM LoadedAsAskedHolds == Spec => []LoadedAsAsked
<1>1. SessionInv => LoadedAsAsked
  BY DEF SessionInv, Names, LoadedAsAsked
<1> QED BY <1>1, InvAlways, PTL

\* A session none of whose starts failed loses none of the objects its globals name.
THEOREM HandlesReleasedHolds == Spec => []HandlesReleased
<1>1. SessionInv => HandlesReleased
  BY DEF SessionInv, Tidy, HandlesReleased, Starting
<1> QED BY <1>1, InvAlways, PTL

===========================================================================
