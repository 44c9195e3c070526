------------------------ MODULE PoesieServiceProofs ------------------------
(***************************************************************************)
(* The server implements the service of VmService: clients that take turns *)
(* on their buffers cannot tell it from one that serves each request in    *)
(* one indivisible step.                                                   *)
(***************************************************************************)
EXTENDS PoesieBufferProofs

(* Clients in the process of the server do not lend their buffers as IN:    *)
(* scripts access them in place.                                            *)
LocalWritable == \A c \in Calls : c.buffer \in LocalBuffers => c.intent # "IN"

-----------------------------------------------------------------------------
(* Views of shared buffers *)

(* At most one handler has a view that may be pushed into b.                *)
LEMMA OneWriter ==
    ASSUME TypeOK, HolderInv, ViewPlace, TakeTurns, NEW b \in Buffers,
           NEW r \in Writers(b), NEW s \in Writers(b),
           view[r].state # "none", view[s].state # "none"
    PROVE  r = s
  <1> SUFFICES ASSUME r # s PROVE FALSE
    OBVIOUS
  <1>1. r \in Requests /\ s \in Requests
    BY DEF Writers
  <1>2. MutexOf(r) = MutexOf(s) /\ ~ViewOutlivesLock(r) /\ ~ViewOutlivesLock(s)
    BY DEF TakeTurns
  <1>3. Holds(r) /\ Holds(s)
    BY <1>1, <1>2 DEF ViewPlace, Holds, InVm
  <1> QED
    BY <1>1, <1>2, <1>3 DEF HolderInv

(* A JavaScript view that is lost is not one to write back.                 *)
LEMMA LostViewsAreRead ==
    ASSUME JavascriptWritesLocal, TypeOK, NEW r \in Requests, HasView(r), ~Local(r),
           Kind(r) = "javascript"
    PROVE  ~WritesBack(r)
  <1>1. call[r] \in Calls
    BY DEF TypeOK
  <1> QED
    BY <1>1 DEF JavascriptWritesLocal, HasView, Local, Kind, Vm, WritesBack

LEMMA FreshStep ==
    ASSUME UncaughtTerminates, JavascriptWritesLocal, TypeOK, HolderInv, AliasInv,
           CopyInv, ViewPlace, TakeTurns, CopyFresh, [Next]_vars
    PROVE  CopyFresh'
  <1> SUFFICES ASSUME NEW s \in Requests, NEW b, b = call[s].buffer,
                      view'[s].state = "copy", WritesBack(s),
                      pc'[s] \in {"begin", "running"}
               PROVE  view'[s].data = IF call[s].intent = "OUT" THEN {Unfilled}
                                      ELSE memory'[b]
    BY Steps, SameDiscipline DEF CopyFresh
  <1> DEFINE Goal == view'[s].data = IF call[s].intent = "OUT" THEN {Unfilled}
                                     ELSE memory'[b]
  <1>1. b \in Buffers /\ ~Local(s) /\ s \in Writers(b)
    <2>1. HasView(s) /\ ~Local(s)
      BY CopyStep, Steps, SameDiscipline DEF CopyInv
    <2> QED
      BY <2>1, CallType DEF HasView, Writers
  <1>2. view'[s] = view[s] => Goal \/ memory'[b] # memory[b]
    <2> SUFFICES ASSUME view'[s] = view[s], memory'[b] = memory[b] PROVE Goal
      OBVIOUS
    <2>1. pc[s] \in {"begin", "running"}
      <3>1. ~Served(s)
        BY ServedStays DEF Served
      <3> QED
        BY <3>1 DEF ViewPlace, Served
    <2> QED
      BY <2>1 DEF CopyFresh
  <1>3. CASE UNCHANGED <<view, memory>>
    BY <1>2, <1>3
  <1>4. ASSUME NEW r \in Requests, Takes(r) PROVE Goal
    <2>1. CASE s = r
      BY <1>1, <1>4, <2>1, PreparedView DEF Takes, TypeOK
    <2>2. CASE s # r
      BY <1>2, <1>4, <2>2 DEF Takes, TypeOK
    <2> QED
      BY <2>1, <2>2
  <1>5. ASSUME NEW r \in Requests, Loses(r) PROVE Goal
    <2>1. view'[s] = view[s]
      BY <1>5 DEF Loses, TypeOK
    <2>2. memory'[b] = memory[b]
      BY <1>1, <1>5, LostViewsAreRead, PushedBackValue DEF Loses
    <2> QED
      BY <1>2, <2>1, <2>2
  <1>6. ASSUME NEW r \in Requests, Returns(r) PROVE Goal
    <2>1. r # s /\ view'[s] = view[s]
      BY <1>6 DEF Returns, NoView, TypeOK
    <2>2. ~(view[r].state = "copy" /\ WritesBack(r) /\ call[r].buffer = b)
      BY <1>1, <2>1, OneWriter DEF Writers
    <2>3. memory'[b] = memory[b]
      BY <1>1, <1>6, <2>2, PushedBackValue DEF Returns
    <2> QED
      BY <1>2, <2>1, <2>3
  <1>7. ASSUME NEW r \in Requests, Served(r)', Writes(r) PROVE Goal
    <2>1. r # s
      BY <1>7 DEF Served
    <2>2. memory'[b] = memory[b]
      BY <1>1, <1>7 DEF Writes, AliasInv, Local
    <2> QED
      BY <1>2, <1>7, <2>1, <2>2 DEF Writes
  <1> QED
    BY <1>3, <1>4, <1>5, <1>6, <1>7, BufferSteps DEF Unwinds
-----------------------------------------------------------------------------
(* VMs, which are created once and for all *)

LEMMA ReachedStep ==
    ASSUME TypeOK, ReachedInv, [Next]_vars
    PROVE  ReachedInv'
  <1> USE DEF TypeOK, Goto, providerVars, dataVars
  <1>1. ASSUME UNCHANGED <<pc, call>>, \A p \in Providers : m_backend[p] => m_backend'[p]
        PROVE  ReachedInv'
    BY <1>1, CallType DEF ReachedInv, Vm
  <1>2. ASSUME UNCHANGED <<m_backend, call>>, NEW r \in Requests,
               pc'[r] \in {"lock", "convert", "begin", "running"} => m_backend[Vm(r)],
               \A s \in Requests : s # r => pc'[s] = pc[s]
        PROVE  ReachedInv'
    BY <1>2 DEF ReachedInv, Vm
  <1>3. ASSUME NEW p \in Providers, ConstructorStep(p) PROVE ReachedInv'
    BY <1>1, <1>3 DEF ConstructorStep, DefineRpcs, SkipVm, CreateVm, CreateVmFails
  <1>4. ASSUME NEW r \in Requests, Send(r) \/ HandlerStep(r) PROVE ReachedInv'
    <2>1. CASE Acquire(r) \/ Convert(r) \/ BeginScript(r)
      <3>1. m_backend[Vm(r)]
        BY <2>1 DEF ReachedInv, Acquire, Convert, BeginScript
      <3> QED
        BY <1>2, <2>1, <3>1 DEF Acquire, Convert, BeginScript
    <2>2. CASE EnterBackend(r)
      BY <1>2, <2>2 DEF EnterBackend
    <2>3. CASE \/ Send(r) \/ Unreachable(r) \/ NoVmAttached(r) \/ FileMissing(r)
               \/ RejectEarly(r) \/ LookupFails(r) \/ Unlock(r) \/ Respond(r)
      BY <1>2, <2>3 DEF Send, Unreachable, NoVmAttached, FileMissing, RejectEarly,
         LookupFails, Unlock, Respond
    <2>4. CASE DestroyViews(r) \/ \E ok, wrote \in BOOLEAN : EndScript(r, ok, wrote)
      <3>1. /\ UNCHANGED <<m_backend, call>>
            /\ \E l \in {"destroy", "unlock", "respond"} : pc' = [pc EXCEPT ![r] = l]
        BY <2>4 DEF DestroyViews, EndScript, AfterScript
      <3> QED
        BY <1>2, <3>1
    <2> QED
      BY <1>4, <2>1, <2>2, <2>3, <2>4 DEF HandlerStep
  <1>5. ASSUME NEW r \in Requests, Fault(r) PROVE ReachedInv'
    <2>1. /\ UNCHANGED <<m_backend, call>>
          /\ pc' = pc \/ pc' = [pc EXCEPT ![r] = "destroy"]
      BY <1>5 DEF Fault, Throw, ConversionThrows, ScriptFetchThrows,
         ReturnValueThrows, PushThrows, ArgumentOverrun, DanglingWrite
    <2> QED
      BY <1>1, <1>2, <2>1
  <1>6. CASE UNCHANGED vars
    BY <1>1, <1>6 DEF vars
  <1> QED
    BY <1>3, <1>4, <1>5, <1>6 DEF Next, Finished

(* The one step that gives a provider its VM changes nothing else that a    *)
(* client could see.                                                        *)
LEMMA Opening ==
    ASSUME TypeOK, [Next]_vars
    PROVE  \/ UNCHANGED openBar
           \/ NoData /\ \E p \in Providers : openBar' = openBar \cup {p}
  <1> USE DEF Goto, providerVars, dataVars
  <1>1. UNCHANGED m_backend => UNCHANGED openBar
    BY DEF openBar
  <1>2. ASSUME NEW p \in Providers, CreateVm(p)
        PROVE  NoData /\ openBar' = openBar \cup {p}
    BY <1>2 DEF CreateVm, NoData, openBar, TypeOK
  <1>3. ASSUME NEW p \in Providers, DefineRpcs(p) \/ SkipVm(p) \/ CreateVmFails(p)
        PROVE  UNCHANGED m_backend
    BY <1>3 DEF DefineRpcs, SkipVm, CreateVmFails
  <1>4. ASSUME NEW r \in Requests, Send(r) \/ HandlerStep(r)
        PROVE  UNCHANGED m_backend
    BY <1>4 DEF HandlerStep, Send, Unreachable, NoVmAttached, FileMissing,
       EnterBackend, Acquire, RejectEarly, Convert, BeginScript, LookupFails,
       EndScript, DestroyViews, Unlock, Respond
  <1>5. ASSUME NEW r \in Requests, Fault(r) PROVE UNCHANGED m_backend
    BY <1>5 DEF Fault, ConversionThrows, ScriptFetchThrows, ReturnValueThrows,
       PushThrows, ArgumentOverrun, DanglingWrite
  <1>6. UNCHANGED vars => UNCHANGED m_backend
    BY DEF vars
  <1> QED
    BY <1>1, <1>2, <1>3, <1>4, <1>5, <1>6 DEF Next, ConstructorStep, Finished
-----------------------------------------------------------------------------
(* The mapped variables *)

SInv == /\ TypeOK /\ HolderInv /\ AnsweredInv /\ SeenInv /\ AliasInv /\ CopyInv
        /\ ViewPlace /\ TakeTurns /\ CopyFresh /\ ReachedInv

(* At most one view waits to be pushed into a buffer, and the mapped memory *)
(* anticipates it.                                                          *)
BarInv ==
    \A b \in Buffers :
        /\ \A r \in Requests : PendingPush(r, b) =>
              /\ memoryBar[b] = view[r].data
              /\ \A s \in Requests : PendingPush(s, b) => s = r
        /\ (\A r \in Requests : ~PendingPush(r, b)) => memoryBar[b] = memory[b]

PhaseInv ==
    \A r \in Requests :
        /\ pc[r] = "idle" => phaseBar[r] = "idle"
        /\ pc[r] \in {"queued", "lock", "convert", "begin", "running"}
              => phaseBar[r] = "pending"
        /\ Served(r) /\ ~Answered(r) => phaseBar[r] = "served"
        /\ Answered(r) => phaseBar[r] = "answered"
        /\ Served(r) => resultBar[r] = result[r]
        /\ ~Served(r) => resultBar[r] = ErrorResult

LEMMA Bars == SInv => BarInv /\ PhaseInv
  <1> SUFFICES ASSUME SInv PROVE BarInv /\ PhaseInv
    OBVIOUS
  <1>1. BarInv
    <2> SUFFICES ASSUME NEW b \in Buffers
                 PROVE  /\ \A r \in Requests : PendingPush(r, b) =>
                              /\ memoryBar[b] = view[r].data
                              /\ \A s \in Requests : PendingPush(s, b) => s = r
                        /\ (\A r \in Requests : ~PendingPush(r, b)) => memoryBar[b] = memory[b]
      BY DEF BarInv
    <2>1. ASSUME NEW r \in Requests, PendingPush(r, b)
          PROVE  r \in Writers(b) /\ view[r].state # "none"
      BY <2>1 DEF PendingPush, Writers
    <2>2. \A r, s \in Requests : PendingPush(r, b) /\ PendingPush(s, b) => s = r
      BY <2>1, OneWriter DEF SInv
    <2>3. ASSUME NEW r \in Requests, PendingPush(r, b)
          PROVE  memoryBar[b] = view[r].data
      <3> DEFINE c == CHOOSE t \in Requests : PendingPush(t, b)
      <3>1. c \in Requests /\ PendingPush(c, b)
        BY <2>3
      <3>2. memoryBar[b] = view[c].data
        BY <2>3 DEF memoryBar
      <3> HIDE DEF c
      <3> QED
        BY <2>2, <2>3, <3>1, <3>2
    <2>4. (\A r \in Requests : ~PendingPush(r, b)) => memoryBar[b] = memory[b]
      BY DEF memoryBar
    <2> QED
      BY <2>2, <2>3, <2>4
  <1>2. PhaseInv
    <2> SUFFICES ASSUME NEW r \in Requests
                 PROVE  /\ pc[r] = "idle" => phaseBar[r] = "idle"
                        /\ pc[r] \in {"queued", "lock", "convert", "begin", "running"}
                              => phaseBar[r] = "pending"
                        /\ Served(r) /\ ~Answered(r) => phaseBar[r] = "served"
                        /\ Answered(r) => phaseBar[r] = "answered"
                        /\ Served(r) => resultBar[r] = result[r]
                        /\ ~Served(r) => resultBar[r] = ErrorResult
      BY DEF PhaseInv
    <2>1. Answered(r) => pc[r] = "done"
      BY DEF SInv, AnsweredInv
    <2>2. phaseBar[r] = CASE pc[r] = "idle" -> "idle"
                          [] Answered(r) -> "answered"
                          [] Served(r) /\ ~Answered(r) -> "served"
                          [] OTHER -> "pending"
      BY DEF phaseBar
    <2>3. resultBar[r] = IF Served(r) THEN result[r] ELSE ErrorResult
      BY DEF resultBar
    <2> QED
      BY <2>1, <2>2, <2>3 DEF Served
  <1> QED
    BY <1>1, <1>2

LEMMA BarsNext == SInv' => BarInv' /\ PhaseInv'
  BY Bars, PTL

(* Functions that agree everywhere, or everywhere but at one place.         *)
LEMMA SamePhases ==
    /\ (\A r \in Requests : phaseBar'[r] = phaseBar[r]) => phaseBar' = phaseBar
    /\ (\A r \in Requests : resultBar'[r] = resultBar[r]) => resultBar' = resultBar
    /\ (\A b \in Buffers : memoryBar'[b] = memoryBar[b]) => memoryBar' = memoryBar
  BY DEF phaseBar, resultBar, memoryBar

LEMMA OnePhase ==
    ASSUME NEW r \in Requests, NEW x
    PROVE  /\ phaseBar'[r] = x /\ (\A s \in Requests : s # r => phaseBar'[s] = phaseBar[s])
                 => phaseBar' = [phaseBar EXCEPT ![r] = x]
           /\ resultBar'[r] = x /\ (\A s \in Requests : s # r => resultBar'[s] = resultBar[s])
                 => resultBar' = [resultBar EXCEPT ![r] = x]
  BY DEF phaseBar, resultBar

LEMMA OneBuffer ==
    ASSUME NEW b \in Buffers, NEW x, memoryBar'[b] = x,
           \A c \in Buffers : c # b => memoryBar'[c] = memoryBar[c]
    PROVE  memoryBar' = [memoryBar EXCEPT ![b] = x]
  BY DEF memoryBar
-----------------------------------------------------------------------------
(* The steps, mapped *)

LEMMA PhaseStays ==
    ASSUME SInv, SInv', NEW s \in Requests,
           pc'[s] = pc[s], response'[s] = response[s], result'[s] = result[s]
    PROVE  phaseBar'[s] = phaseBar[s] /\ resultBar'[s] = resultBar[s]
  <1>1. (Served(s)' <=> Served(s)) /\ (Answered(s)' <=> Answered(s))
    BY DEF Served, Answered
  <1>2. \/ pc[s] = "idle" \/ Served(s)
        \/ pc[s] \in {"queued", "lock", "convert", "begin", "running"}
    BY DEF SInv, TypeOK, Served
  <1> QED
    BY <1>1, <1>2, Bars, BarsNext DEF PhaseInv

LEMMA BarStays ==
    ASSUME SInv, SInv', NEW b \in Buffers, memory'[b] = memory[b],
           \A s \in Requests : /\ PendingPush(s, b)' <=> PendingPush(s, b)
                               /\ PendingPush(s, b) => view'[s].data = view[s].data
    PROVE  memoryBar'[b] = memoryBar[b]
  BY Bars, BarsNext DEF BarInv

(* A step of r that changes no view that waits to be pushed.                *)
LEMMA BarQuiet ==
    ASSUME SInv, SInv', UNCHANGED <<call, memory>>, NEW r \in Requests,
           \A s \in Requests : s # r => pc'[s] = pc[s] /\ view'[s] = view[s],
           \/ view'[r] = view[r] /\ (Served(r)' <=> Served(r))
           \/ /\ ~Served(r) \/ view[r].state # "copy"
              /\ ~Served(r)' \/ view'[r].state # "copy"
    PROVE  memoryBar' = memoryBar
  <1> SUFFICES ASSUME NEW b \in Buffers PROVE memoryBar'[b] = memoryBar[b]
    BY SamePhases
  <1>1. ASSUME NEW s \in Requests
        PROVE  /\ PendingPush(s, b)' <=> PendingPush(s, b)
               /\ PendingPush(s, b) => view'[s].data = view[s].data
    <2>1. CASE s # r
      BY <2>1 DEF PendingPush, Served, WritesBack
    <2>2. CASE s = r
      BY <2>2 DEF PendingPush, WritesBack
    <2> QED
      BY <2>1, <2>2
  <1> QED
    BY <1>1, BarStays

LEMMA SameError == Service!ErrorResult = ErrorResult
  BY DEF Service!ErrorResult, ErrorResult

LEMMA EarlyMaps ==
    ASSUME SInv, SInv', UNCHANGED <<call, openBar>>, NEW r \in Requests, EarlyMove(r)
    PROVE  UNCHANGED Service!vars \/ Service!Invoke(r) \/ Service!Refuse(r)
  <1> USE DEF EarlyMove
  <1>1. \A s \in Requests : s # r =>
           phaseBar'[s] = phaseBar[s] /\ resultBar'[s] = resultBar[s]
    BY PhaseStays DEF SInv, TypeOK
  <1>2. memoryBar' = memoryBar
    <2>1. view[r].state = "none" /\ view' = view /\ UNCHANGED memory
      BY DEF SInv, ViewPlace
    <2>2. \A s \in Requests : s # r => pc'[s] = pc[s]
      BY DEF SInv, TypeOK
    <2> QED
      BY <2>1, <2>2, BarQuiet
  <1>3. ~Answered(r) /\ ~Answered(r)' /\ ~Served(r) /\ UNCHANGED vm
    BY DEF SInv, AnsweredInv, Answered, Served
  <1>4. CASE \E l \in {"queued", "lock", "convert"} : pc' = [pc EXCEPT ![r] = l]
    <2>1. pc'[r] \in {"queued", "lock", "convert"}
      BY <1>4 DEF SInv, TypeOK
    <2>2. phaseBar'[r] = "pending" /\ resultBar'[r] = resultBar[r]
      BY <1>3, <2>1, Bars, BarsNext DEF PhaseInv, Served
    <2>3. resultBar' = resultBar
      BY <1>1, <2>2, SamePhases
    <2>4. CASE pc[r] = "idle"
      <3>1. phaseBar[r] = "idle"
        BY <2>4, Bars DEF PhaseInv
      <3>2. phaseBar' = [phaseBar EXCEPT ![r] = "pending"]
        BY <1>1, <2>2, OnePhase
      <3> QED
        BY <1>2, <1>3, <2>3, <3>1, <3>2 DEF Service!Invoke
    <2>5. CASE pc[r] # "idle"
      <3>1. phaseBar[r] = "pending"
        BY <2>5, Bars DEF PhaseInv
      <3>2. phaseBar' = phaseBar
        BY <1>1, <2>2, <3>1, SamePhases
      <3> QED
        BY <1>2, <1>3, <2>3, <3>2 DEF Service!vars
    <2> QED
      BY <2>4, <2>5
  <1>5. CASE /\ pc[r] # "idle" /\ result' = [result EXCEPT ![r] = ErrorResult]
             /\ \E l \in {"respond", "unlock"} : pc' = [pc EXCEPT ![r] = l]
    <2>1. pc'[r] \in {"respond", "unlock"} /\ result'[r] = ErrorResult
      BY <1>5 DEF SInv, TypeOK
    <2>2. phaseBar[r] = "pending"
      BY <1>5, Bars DEF PhaseInv
    <2>3. phaseBar'[r] = "served" /\ resultBar'[r] = ErrorResult
      BY <1>3, <2>1, BarsNext DEF PhaseInv, Served
    <2>4. /\ phaseBar' = [phaseBar EXCEPT ![r] = "served"]
          /\ resultBar' = [resultBar EXCEPT ![r] = ErrorResult]
      BY <1>1, <2>3, OnePhase
    <2> QED
      BY <1>2, <1>3, <2>2, <2>4, SameError DEF Service!Refuse
  <1> QED
    BY <1>4, <1>5

(* Before the script, and after it: only the last step is seen.             *)
LEMMA QuietMaps ==
    ASSUME JavascriptWritesLocal, SInv, SInv', UNCHANGED <<call, openBar>>, NEW r \in Requests,
           Convert(r) \/ BeginScript(r) \/ Unlock(r)
    PROVE  UNCHANGED Service!vars
  <1> USE DEF Goto, providerVars, dataVars
  <1>1. /\ UNCHANGED <<vm, result, response>>
        /\ \A s \in Requests : s # r => pc'[s] = pc[s] /\ view'[s] = view[s]
    BY DEF SInv, TypeOK, Convert, BeginScript, Unlock
  <1>2. UNCHANGED memory
    <2>1. CASE Convert(r)
      <3>1. UNCHANGED memory \/ Loses(r)
        BY <2>1 DEF Convert, Loses, ViewDiesInConversion
      <3>2. Loses(r) => UNCHANGED memory
        BY LostViewsAreRead DEF SInv, Loses, PushedBack
      <3> QED
        BY <3>1, <3>2
    <2> QED
      BY <2>1 DEF BeginScript, Unlock
  <1>3. /\ Served(r)' <=> Served(r)
        /\ ~Served(r) \/ view'[r] = view[r]
    BY DEF SInv, TypeOK, Convert, BeginScript, Unlock, Served
  <1>4. memoryBar' = memoryBar
    BY <1>1, <1>2, <1>3, BarQuiet
  <1>5. ~Answered(r) /\ ~Answered(r)'
    BY <1>1 DEF SInv, AnsweredInv, Answered, Convert, BeginScript, Unlock
  <1>6. phaseBar'[r] = phaseBar[r] /\ resultBar'[r] = resultBar[r]
    <2>1. CASE Served(r)
      BY <1>1, <1>3, <1>5, <2>1, Bars, BarsNext DEF PhaseInv
    <2>2. CASE ~Served(r)
      <3>1. /\ pc[r] \in {"queued", "lock", "convert", "begin", "running"}
            /\ pc'[r] \in {"queued", "lock", "convert", "begin", "running"}
        BY <2>2 DEF SInv, TypeOK, Convert, BeginScript, Unlock, Served
      <3> QED
        BY <1>3, <2>2, <3>1, Bars, BarsNext DEF PhaseInv
    <2> QED
      BY <2>1, <2>2
  <1>7. \A s \in Requests : phaseBar'[s] = phaseBar[s] /\ resultBar'[s] = resultBar[s]
    BY <1>1, <1>6, PhaseStays
  <1> QED
    BY <1>1, <1>4, <1>7, SamePhases DEF Service!vars

LEMMA RespondMaps ==
    ASSUME SInv, SInv', UNCHANGED <<call, openBar>>, NEW r \in Requests, Respond(r)
    PROVE  Service!Answer(r)
  <1> USE DEF Goto, providerVars, dataVars
  <1>1. /\ UNCHANGED <<vm, result, memory, view>>
        /\ \A s \in Requests : s # r => pc'[s] = pc[s] /\ response'[s] = response[s]
        /\ pc[r] = "respond" /\ pc'[r] = "done"
    BY DEF SInv, TypeOK, Respond
  <1>2. memoryBar' = memoryBar
    BY <1>1, BarQuiet DEF Served
  <1>3. ~Answered(r) /\ Answered(r)'
    <2>1. ~Answered(r)
      BY <1>1 DEF SInv, AnsweredInv
    <2>2. response'[r] \in Results
      BY ResultTypes DEF SInv, TypeOK, Respond
    <2> QED
      BY <2>1, <2>2, ResultTypes DEF Answered
  <1>4. phaseBar[r] = "served" /\ phaseBar'[r] = "answered" /\ resultBar'[r] = resultBar[r]
    BY <1>1, <1>3, Bars, BarsNext DEF PhaseInv, Served
  <1>5. \A s \in Requests : s # r =>
           phaseBar'[s] = phaseBar[s] /\ resultBar'[s] = resultBar[s]
    BY <1>1, PhaseStays
  <1>6. /\ phaseBar' = [phaseBar EXCEPT ![r] = "answered"]
        /\ resultBar' = resultBar
    BY <1>4, <1>5, OnePhase, SamePhases
  <1> QED
    BY <1>1, <1>2, <1>4, <1>6 DEF Service!Answer

(* The mapped memory already has what ~MemoryView pushes.                   *)
LEMMA DestroyMaps ==
    ASSUME SInv, SInv', UNCHANGED <<call, openBar>>, NEW r \in Requests, DestroyViews(r)
    PROVE  UNCHANGED Service!vars
  <1> USE DEF Goto, providerVars, dataVars
  <1>1. /\ UNCHANGED <<vm, result, response>>
        /\ \A s \in Requests : s # r => pc'[s] = pc[s] /\ view'[s] = view[s]
        /\ memory' = PushedBack(r, view[r]) /\ view'[r].state = "none"
        /\ Served(r) /\ Served(r)'
    BY DEF SInv, TypeOK, DestroyViews, NoView, Served
  <1>2. ASSUME NEW b \in Buffers PROVE memoryBar'[b] = memoryBar[b]
    <2>1. ASSUME NEW s \in Requests, s # r
          PROVE  /\ PendingPush(s, b)' <=> PendingPush(s, b)
                 /\ PendingPush(s, b) => view'[s].data = view[s].data
      BY <1>1, <2>1 DEF PendingPush, Served, WritesBack
    <2>2. ~PendingPush(r, b)'
      BY <1>1 DEF PendingPush
    <2>3. CASE PendingPush(r, b)
      <3>1. memoryBar[b] = view[r].data /\ \A s \in Requests : PendingPush(s, b) => s = r
        BY <2>3, Bars DEF BarInv
      <3>2. memory'[b] = view[r].data
        BY <1>1, <2>3, PushedBackValue DEF SInv, PendingPush
      <3>3. \A s \in Requests : ~PendingPush(s, b)'
        BY <2>1, <2>2, <3>1
      <3> QED
        BY <3>1, <3>2, <3>3, BarsNext DEF BarInv
    <2>4. CASE ~PendingPush(r, b)
      <3>1. memory'[b] = memory[b]
        BY <1>1, <2>4, PushedBackValue DEF SInv, PendingPush
      <3> QED
        BY <2>1, <2>2, <2>4, <3>1, BarStays
    <2> QED
      BY <2>3, <2>4
  <1>3. ~Answered(r) /\ ~Answered(r)'
    BY <1>1 DEF SInv, AnsweredInv, Answered, DestroyViews
  <1>4. phaseBar'[r] = phaseBar[r] /\ resultBar'[r] = resultBar[r]
    BY <1>1, <1>3, Bars, BarsNext DEF PhaseInv
  <1>5. \A s \in Requests : phaseBar'[s] = phaseBar[s] /\ resultBar'[s] = resultBar[s]
    BY <1>1, <1>4, PhaseStays
  <1> QED
    BY <1>1, <1>2, <1>5, SamePhases DEF Service!vars
-----------------------------------------------------------------------------
(* The end of a script *)

(* r is over, and has written into its view or not.                         *)
Ends(r, wrote) ==
    /\ pc[r] \in {"begin", "running"} /\ Served(r)'
    /\ \A s \in Requests : s # r =>
          pc'[s] = pc[s] /\ result'[s] = result[s] /\ view'[s] = view[s]
    /\ IF wrote THEN view[r].state # "none" /\ Writes(r) ELSE UNCHANGED <<view, memory>>
    /\ UNCHANGED <<call, response>>

LEMMA OwnBuffer ==
    ASSUME JavascriptWritesLocal, LocalWritable, SInv, SInv', NEW r \in Requests,
           NEW wrote \in BOOLEAN, Ends(r, wrote), HasView(r), NEW b, b = call[r].buffer
    PROVE  memoryBar'[b] \in Service!BufferAfter(r, b, wrote)
  <1>1. b \in Buffers /\ call[r] \in Calls /\ call[r].intent \in Intents
    BY CallType, CallsAssumption DEF SInv, HasView, TypeOK, CallRecords
  <1>2. ~Served(r) /\ \A s \in Requests : s # r => (PendingPush(s, b)' <=> PendingPush(s, b))
                                                  /\ view'[s] = view[s]
    BY DEF Ends, PendingPush, Served, WritesBack
  <1>3. CASE call[r].intent = "IN"
    <2>1. ~PendingPush(r, b) /\ ~PendingPush(r, b)'
      BY <1>3 DEF PendingPush, WritesBack, Ends
    <2>2. view[r].state # "alias"
      BY <1>1, <1>3 DEF SInv, AliasInv, Local, LocalWritable
    <2>3. memory'[b] = memory[b]
      BY <1>1, <2>2 DEF Ends, Writes
    <2>4. memoryBar'[b] = memoryBar[b]
      BY <1>1, <1>2, <2>1, <2>3, BarStays
    <2> QED
      BY <1>3, <2>4 DEF Service!BufferAfter
  <1>4. CASE WritesBack(r) /\ view[r].state = "none"
    <2>1. ~wrote /\ UNCHANGED <<view, memory>>
      BY <1>4 DEF Ends
    <2>2. ~PendingPush(r, b) /\ ~PendingPush(r, b)'
      BY <1>4, <2>1 DEF PendingPush
    <2>3. memoryBar'[b] = memoryBar[b]
      BY <1>1, <1>2, <2>1, <2>2, BarStays
    <2> QED
      BY <1>4, <2>1, <2>3 DEF Service!BufferAfter, WritesBack
  <1>5. CASE WritesBack(r) /\ view[r].state = "copy"
    <2>1. \A s \in Requests : ~PendingPush(s, b)
      <3> SUFFICES ASSUME NEW s \in Requests, PendingPush(s, b) PROVE FALSE
        OBVIOUS
      <3>1. s \in Writers(b) /\ r \in Writers(b) /\ s # r
        BY <1>2, <1>5 DEF PendingPush, Writers
      <3> QED
        BY <1>1, <1>5, <3>1, OneWriter DEF SInv, PendingPush
    <2>2. memoryBar[b] = memory[b]
      BY <1>1, <2>1, Bars DEF BarInv
    <2>3. view[r].data = IF call[r].intent = "OUT" THEN {Unfilled} ELSE memoryBar[b]
      BY <1>5, <2>2 DEF SInv, CopyFresh, Ends
    <2>4. /\ view'[r].state = "copy"
          /\ view'[r].data = IF wrote THEN NewContent(r, view[r].data) ELSE view[r].data
      BY <1>5 DEF Ends, Writes
    <2>5. PendingPush(r, b)'
      BY <1>5, <2>4 DEF Ends, PendingPush, WritesBack
    <2>6. memoryBar'[b] = view'[r].data
      BY <1>1, <2>5, BarsNext DEF BarInv
    <2> QED
      BY <1>5, <2>3, <2>4, <2>6 DEF Service!BufferAfter, WritesBack, NewContent
  <1>6. CASE WritesBack(r) /\ view[r].state = "alias"
    <2>1. b \in LocalBuffers
      BY <1>6 DEF SInv, AliasInv, Local
    <2>2. \A s \in Requests : ~PendingPush(s, b)
      BY <2>1 DEF SInv, CopyInv, PendingPush, Local
    <2>3. \A s \in Requests : ~PendingPush(s, b)'
      BY <1>2, <1>6, <2>2 DEF Ends, Writes, PendingPush
    <2>4. memoryBar[b] = memory[b] /\ memoryBar'[b] = memory'[b]
      BY <1>1, <2>2, <2>3, Bars, BarsNext DEF BarInv
    <2>5. memory'[b] = IF wrote THEN NewContent(r, memory[b]) ELSE memory[b]
      BY <1>1, <1>6 DEF Ends, Writes
    <2> QED
      BY <1>6, <2>4, <2>5 DEF Service!BufferAfter, WritesBack, NewContent
  <1>7. view[r].state # "dangling" \/ ~WritesBack(r)
    BY LostViewsAreRead DEF SInv, CopyInv
  <1>8. /\ view[r].state \in {"none", "alias", "copy", "dangling"}
        /\ call[r].intent = "IN" \/ WritesBack(r)
    BY <1>1 DEF SInv, TypeOK, Views, Intents, WritesBack
  <1> QED
    BY <1>3, <1>4, <1>5, <1>6, <1>7, <1>8

LEMMA MemoryMaps ==
    ASSUME JavascriptWritesLocal, LocalWritable, SInv, SInv', NEW r \in Requests,
           NEW wrote \in BOOLEAN, Ends(r, wrote)
    PROVE  memoryBar' \in Service!MemoryAfter(r, wrote)
  <1> DEFINE b == call[r].buffer
  <1>1. CASE ~HasView(r)
    <2>1. view[r].state = "none"
      <3>1. ~Local(r)
        BY <1>1, LocalBuffersAssumption, NoBufferAssumption DEF HasView, Local
      <3>2. view[r].state \in {"none", "alias", "copy", "dangling"}
        BY DEF SInv, TypeOK, Views
      <3> QED
        BY <1>1, <3>1, <3>2 DEF SInv, AliasInv, CopyInv
    <2>2. UNCHANGED <<view, memory>>
      BY <2>1 DEF Ends
    <2>3. memoryBar' = memoryBar
      BY <2>1, <2>2, BarQuiet DEF Ends
    <2> QED
      BY <1>1, <2>3 DEF Service!MemoryAfter, HasView
  <1>2. CASE HasView(r)
    <2>1. b \in Buffers
      BY <1>2, CallType DEF SInv, HasView
    <2>2. memoryBar'[b] \in Service!BufferAfter(r, b, wrote)
      BY <1>2, OwnBuffer
    <2>3. ASSUME NEW c \in Buffers, c # b PROVE memoryBar'[c] = memoryBar[c]
      <3>1. memory'[c] = memory[c]
        BY <2>3 DEF Ends, Writes
      <3>2. ASSUME NEW s \in Requests
            PROVE  /\ PendingPush(s, c)' <=> PendingPush(s, c)
                   /\ PendingPush(s, c) => view'[s].data = view[s].data
        <4>1. CASE s # r
          BY <4>1 DEF Ends, PendingPush, Served, WritesBack
        <4>2. CASE s = r
          BY <2>3, <4>2 DEF Ends, PendingPush
        <4> QED
          BY <4>1, <4>2
      <3> QED
        BY <3>1, <3>2, BarStays
    <2> HIDE DEF b
    <2>4. memoryBar' = [memoryBar EXCEPT ![b] = memoryBar'[b]]
      BY <2>1, <2>3, OneBuffer
    <2> QED
      BY <1>2, <2>2, <2>4 DEF Service!MemoryAfter, HasView, b
  <1> QED
    BY <1>1, <1>2

(* The script, and everything around it, is the indivisible step.           *)
LEMMA EndMaps ==
    ASSUME JavascriptWritesLocal, LocalWritable, SInv, SInv', NEW r \in Requests,
           NEW wrote \in BOOLEAN, Ends(r, wrote), UNCHANGED openBar,
           \/ /\ result'[r] = [status |-> "ok", value |-> vm[Vm(r)], wrote |-> wrote]
              /\ vm' = [vm EXCEPT ![Vm(r)] = Append(vm[Vm(r)], r)]
           \/ /\ result'[r] = ErrorResult
              /\ vm' \in {vm, [vm EXCEPT ![Vm(r)] = Append(vm[Vm(r)], r)]}
    PROVE  Service!Serve(r)
  <1>1. memoryBar' \in Service!MemoryAfter(r, wrote)
    BY MemoryMaps
  <1>2. ~Answered(r) /\ ~Answered(r)' /\ Served(r)' /\ UNCHANGED call
    BY DEF Ends, SInv, AnsweredInv, Answered
  <1>3. phaseBar[r] = "pending"
    BY Bars DEF PhaseInv, Ends
  <1>4. phaseBar'[r] = "served" /\ resultBar'[r] = result'[r]
    BY <1>2, BarsNext DEF PhaseInv
  <1>5. \A s \in Requests : s # r =>
           phaseBar'[s] = phaseBar[s] /\ resultBar'[s] = resultBar[s]
    BY PhaseStays DEF Ends
  <1>6. /\ phaseBar' = [phaseBar EXCEPT ![r] = "served"]
        /\ resultBar' = [resultBar EXCEPT ![r] = result'[r]]
    BY <1>4, <1>5, OnePhase
  <1>7. Vm(r) \in openBar
    BY CallType DEF SInv, ReachedInv, Ends, openBar
  <1> QED
    BY <1>1, <1>2, <1>3, <1>6, <1>7, SameError DEF Service!Serve, Vm

LEMMA ScriptMaps ==
    ASSUME JavascriptWritesLocal, LocalWritable, SInv, SInv', UNCHANGED <<call, openBar>>,
           NEW r \in Requests,
           LookupFails(r) \/ \E ok, wrote \in BOOLEAN : EndScript(r, ok, wrote)
    PROVE  Service!Serve(r)
  <1> USE DEF Goto, SetResult, providerVars, dataVars
  <1>1. CASE LookupFails(r)
    <2>1. /\ Ends(r, FALSE) /\ result'[r] = ErrorResult /\ UNCHANGED vm
      BY <1>1 DEF SInv, TypeOK, LookupFails, Ends, Served
    <2> QED
      BY <2>1, EndMaps
  <1>2. ASSUME NEW ok \in BOOLEAN, NEW wrote \in BOOLEAN, EndScript(r, ok, wrote)
        PROVE  Service!Serve(r)
    <2>1. pc[r] = "running" /\ Served(r)' /\ UNCHANGED <<call, response>>
      BY <1>2 DEF SInv, TypeOK, EndScript, AfterScript, Served
    <2>2. \A s \in Requests : s # r => pc'[s] = pc[s] /\ result'[s] = result[s]
      BY <1>2 DEF SInv, TypeOK, EndScript
    <2>3. IF wrote THEN view[r].state # "none" /\ Writes(r) ELSE UNCHANGED <<view, memory>>
      BY <1>2, WriteViewWrites DEF SInv, EndScript
    <2>4. \A s \in Requests : s # r => view'[s] = view[s]
      BY <2>3 DEF Writes
    <2>5. Ends(r, wrote)
      BY <2>1, <2>2, <2>3, <2>4 DEF Ends
    <2>6. seen[r] = vm[Vm(r)]
      BY <2>1 DEF SInv, SeenInv
    <2>7. \/ /\ result'[r] = [status |-> "ok", value |-> vm[Vm(r)], wrote |-> wrote]
             /\ vm' = [vm EXCEPT ![Vm(r)] = Append(vm[Vm(r)], r)]
          \/ /\ result'[r] = ErrorResult
             /\ vm' \in {vm, [vm EXCEPT ![Vm(r)] = Append(vm[Vm(r)], r)]}
      BY <1>2, <2>6 DEF SInv, TypeOK, EndScript
    <2> QED
      BY <2>5, <2>7, EndMaps
  <1> QED
    BY <1>1, <1>2

LEMMA NextMaps ==
    ASSUME UncaughtTerminates, JavascriptWritesLocal, LocalWritable, SInv, SInv',
           [Next]_vars
    PROVE  [Service!Next]_(Service!vars)
  <1>1. UNCHANGED call /\ (UNCHANGED openBar \/ NoData)
    BY Steps, Opening DEF SInv
  <1>2. CASE NoData
    <2>0. UNCHANGED openBar \/ \E p \in Providers : openBar' = openBar \cup {p}
      BY Opening DEF SInv
    <2>1. \A s \in Requests : phaseBar'[s] = phaseBar[s] /\ resultBar'[s] = resultBar[s]
      BY <1>2, PhaseStays DEF NoData
    <2>2. ASSUME NEW b \in Buffers PROVE memoryBar'[b] = memoryBar[b]
      BY <1>1, <1>2, BarStays DEF NoData, PendingPush, Served, WritesBack
    <2> QED
      BY <1>1, <1>2, <2>0, <2>1, <2>2, SamePhases
      DEF NoData, Service!vars, Service!Next, Service!Open
  <1>3. ASSUME NEW r \in Requests, UNCHANGED openBar, EarlyMove(r)
        PROVE  UNCHANGED Service!vars \/ Service!Next
    BY <1>1, <1>3, EarlyMaps DEF Service!Next
  <1>4. ASSUME NEW r \in Requests, UNCHANGED openBar,
               Convert(r) \/ BeginScript(r) \/ Unlock(r)
        PROVE  UNCHANGED Service!vars
    BY <1>1, <1>4, QuietMaps
  <1>5. ASSUME NEW r \in Requests, UNCHANGED openBar, DestroyViews(r)
        PROVE  UNCHANGED Service!vars
    BY <1>1, <1>5, DestroyMaps
  <1>6. ASSUME NEW r \in Requests, UNCHANGED openBar, Respond(r) PROVE Service!Next
    BY <1>1, <1>6, RespondMaps DEF Service!Next
  <1>7. ASSUME NEW r \in Requests, UNCHANGED openBar,
               LookupFails(r) \/ \E ok, wrote \in BOOLEAN : EndScript(r, ok, wrote)
        PROVE  Service!Next
    BY <1>1, <1>7, ScriptMaps DEF Service!Next
  <1> QED
    BY <1>1, <1>2, <1>3, <1>4, <1>5, <1>6, <1>7, Steps DEF SInv, Unwinds

LEMMA InitMaps == Init => Service!Init
  <1> SUFFICES ASSUME Init PROVE Service!Init
    OBVIOUS
  <1>1. \A r \in Requests : /\ pc[r] = "idle" /\ ~Answered(r) /\ ~Served(r)
                            /\ view[r].state = "none"
    BY DEF Init, Idle, Answered, Served, NoView
  <1>2. phaseBar = [r \in Requests |-> "idle"]
    BY <1>1 DEF phaseBar
  <1>3. resultBar = [r \in Requests |-> ErrorResult]
    BY <1>1 DEF resultBar
  <1>4. memoryBar = [b \in Buffers |-> {}]
    BY <1>1 DEF Init, Idle, memoryBar, PendingPush
  <1>5. openBar = {}
    BY DEF Init, Idle, openBar
  <1> QED
    BY <1>2, <1>3, <1>4, <1>5, SameError DEF Init, Idle, Service!Init

(* The locks, the order in which a handler converts, runs, destroys and      *)
(* replies, and the write-backs add up to the service a client is promised: *)
(* whatever the VMs and the interleaving, each request that is answered was *)
(* served in one step, as if alone. Clients that may change the same buffer *)
(* must use it in turns; nothing else is asked of them.                     *)
THEOREM ServerImplementsService ==
    ASSUME UncaughtTerminates, JavascriptWritesLocal, LocalWritable
    PROVE  Spec /\ TakeTurns => ServiceSafety
  <1>1. Init /\ TakeTurns => SInv
    <2> SUFFICES ASSUME Init, TakeTurns PROVE SInv
      OBVIOUS
    <2>1. \A r \in Requests : /\ pc[r] = "idle" /\ view[r].state = "none"
                              /\ response[r] = NoResponse
      BY DEF Init, Idle, NoView
    <2> QED
      BY <2>1, InitType
      DEF SInv, HolderInv, Holds, InVm, AnsweredInv, Answered, SeenInv, AliasInv,
          CopyInv, ViewPlace, CopyFresh, ReachedInv
  <1>2. SInv /\ [Next]_vars => SInv'
    <2> SUFFICES ASSUME SInv, [Next]_vars PROVE SInv'
      OBVIOUS
    <2>1. TakeTurns'
      <3>1. UNCHANGED call
        BY Steps DEF SInv
      <3> QED
        BY <3>1 DEF SInv, TakeTurns, Writers, WritesBack, MutexOf, ViewOutlivesLock,
           Kind, Vm
    <2> QED
      BY <2>1, NextType, HolderStep, AnsweredStep, SeenStep, AliasStep, CopyStep,
         PlaceStep, FreshStep, ReachedStep
      DEF SInv
  <1>3. SInv /\ SInv' /\ [Next]_vars => [Service!Next]_(Service!vars)
    BY NextMaps
  <1> QED
    BY <1>1, <1>2, <1>3, InitMaps, PTL DEF Spec, ServiceSafety, Service!Spec
=============================================================================
