------------------------- MODULE PoesieServerProofs -------------------------
(***************************************************************************)
(* Theorems about PoesieServer, for every set of requests, providers and   *)
(* buffers, every choice of backends and every set of calls.               *)
(***************************************************************************)
EXTENDS PoesieServer, TLAPS

(* A call carries what CallRecords says. *)
LEMMA CallType ==
    ASSUME TypeOK, NEW r \in Requests
    PROVE  /\ call[r] \in CallRecords
           /\ Vm(r) \in Providers
           /\ call[r].buffer \in Buffers \cup {NoBuffer}
           /\ Kind(r) \in VmTypes \cup {"none"}
           /\ MutexOf(r) \in Mutexes
  <1>1. call[r] \in CallRecords
    BY CallsAssumption DEF TypeOK
  <1>2. Vm(r) \in Providers /\ call[r].buffer \in Buffers \cup {NoBuffer}
    BY <1>1 DEF CallRecords, Vm
  <1>3. Kind(r) \in VmTypes \cup {"none"}
    BY <1>2, BackendAssumption DEF Kind
  <1>4. MutexOf(r) \in Mutexes
    BY <1>2 DEF MutexOf, Mutexes
  <1> QED
    BY <1>1, <1>2, <1>3, <1>4

(* Views, and memory after a view is pushed back, are well typed. *)
LEMMA ViewTypes ==
    ASSUME TypeOK, NEW r \in Requests
    PROVE  /\ NoView \in Views
           /\ [state |-> "dangling", data |-> {}] \in Views
           /\ HasView(r) => Prepared(r) \in Views
           /\ Unfetched(r) \in Views
  <1>1. {} \in Contents /\ {Unfilled} \in Contents
    BY DEF Contents
  <1>2. HasView(r) => memory[call[r].buffer] \in Contents
    BY CallType DEF HasView, TypeOK
  <1> QED
    BY <1>1, <1>2 DEF NoView, Views, Prepared, Unfetched

LEMMA PushedBackType ==
    ASSUME TypeOK, NEW r \in Requests, NEW v \in Views
    PROVE  PushedBack(r, v) \in [Buffers -> Contents]
  <1>1. v.data \in Contents
    BY DEF Views
  <1> QED
    BY <1>1 DEF PushedBack, TypeOK

LEMMA ResultTypes ==
    /\ ErrorResult \in Results
    /\ DefaultResult \in Results
    /\ ErrorResult.status = "error"
    /\ Thrown \notin Results
    /\ NoResponse \notin Results
  <1>1. <<>> \in Seq(Requests)
    OBVIOUS
  <1> QED
    BY <1>1 DEF ErrorResult, DefaultResult, Results, Thrown, NoResponse

(* Writing a view keeps memory and views well typed. *)
LEMMA WriteViewType ==
    ASSUME TypeOK, NEW r \in Requests, WriteView(r)
    PROVE  memory' \in [Buffers -> Contents] /\ view' \in [Requests -> Views]
  <1> DEFINE old == IF view[r].state = "alias" THEN memory[call[r].buffer]
                    ELSE view[r].data
             new == IF call[r].intent = "OUT" THEN {r} ELSE old \cup {r}
  <1>1. view[r] \in Views /\ view[r].data \in Contents
    BY DEF TypeOK, Views
  <1>2. CASE view[r].state = "alias"
    <2>1. memory' = [memory EXCEPT ![call[r].buffer] = new] /\ view' = view
      BY <1>2 DEF WriteView
    <2>2. call[r].buffer \in Buffers => new \in Contents
      BY <1>2 DEF TypeOK, Contents
    <2> QED
      BY <2>1, <2>2 DEF TypeOK
  <1>3. CASE view[r].state = "copy"
    <2>1. view' = [view EXCEPT ![r].data = new] /\ memory' = memory
      BY <1>3 DEF WriteView
    <2>2. new \in Contents
      BY <1>1, <1>3 DEF Contents
    <2>3. [view[r] EXCEPT !.data = new] \in Views
      BY <1>1, <2>2 DEF Views
    <2> QED
      BY <2>1, <2>3 DEF TypeOK
  <1>4. CASE view[r].state \notin {"alias", "copy"}
    BY <1>4 DEF WriteView, TypeOK
  <1> QED
    BY <1>2, <1>3, <1>4
-----------------------------------------------------------------------------
(* Types *)

LEMMA InitType == Init => TypeOK
  <1> SUFFICES ASSUME Init PROVE TypeOK
    OBVIOUS
  <1>1. <<>> \in Seq(Requests) /\ {} \in Contents
    BY DEF Contents
  <1>2. NoView \in Views
    BY <1>1 DEF NoView, Views
  <1> QED
    BY <1>1, <1>2, ResultTypes DEF Init, Idle, TypeOK

(* Constructor steps change nothing but stage and m_backend. *)
LEMMA ConstructorType ==
    ASSUME TypeOK, UNCHANGED alive, NEW p \in Providers, ConstructorStep(p)
    PROVE  TypeOK'
  <1>1. CASE DefineRpcs(p)
    BY <1>1 DEF DefineRpcs, TypeOK, dataVars
  <1>2. CASE SkipVm(p)
    BY <1>2 DEF SkipVm, TypeOK, dataVars
  <1>3. CASE CreateVm(p)
    BY <1>3 DEF CreateVm, TypeOK, dataVars
  <1>4. CASE CreateVmFails(p)
    BY <1>4 DEF CreateVmFails, TypeOK, dataVars
  <1> QED
    BY <1>1, <1>2, <1>3, <1>4 DEF ConstructorStep

(* Steps that only move the handler, and maybe set its result. *)
LEMMA EarlyStepType ==
    ASSUME TypeOK, UNCHANGED alive, NEW r \in Requests,
           \/ Send(r) \/ Unreachable(r) \/ NoVmAttached(r) \/ FileMissing(r)
           \/ EnterBackend(r) \/ RejectEarly(r) \/ LookupFails(r)
    PROVE  TypeOK'
  <1> USE ResultTypes DEF providerVars, dataVars, Goto, SetResult, TypeOK
  <1>1. CASE Send(r)
    BY <1>1 DEF Send
  <1>2. CASE Unreachable(r)
    BY <1>2 DEF Unreachable
  <1>3. CASE NoVmAttached(r)
    BY <1>3 DEF NoVmAttached
  <1>4. CASE FileMissing(r)
    BY <1>4 DEF FileMissing
  <1>5. CASE EnterBackend(r)
    BY <1>5 DEF EnterBackend
  <1>6. CASE RejectEarly(r)
    BY <1>6 DEF RejectEarly
  <1>7. CASE LookupFails(r)
    BY <1>7 DEF LookupFails
  <1> QED
    BY <1>1, <1>2, <1>3, <1>4, <1>5, <1>6, <1>7

LEMMA LockStepType ==
    ASSUME TypeOK, UNCHANGED alive, NEW r \in Requests, Acquire(r) \/ Unlock(r)
    PROVE  TypeOK'
  <1> USE CallType DEF providerVars, dataVars, Goto, TypeOK
  <1>1. CASE Acquire(r)
    BY <1>1 DEF Acquire
  <1>2. CASE Unlock(r)
    BY <1>2 DEF Unlock
  <1> QED
    BY <1>1, <1>2

LEMMA ConvertType ==
    ASSUME TypeOK, UNCHANGED alive, NEW r \in Requests, Convert(r)
    PROVE  TypeOK'
  <1>1. view' \in [Requests -> Views]
    BY ViewTypes DEF Convert, TypeOK
  <1>2. memory' \in [Buffers -> Contents]
    BY ViewTypes, PushedBackType DEF Convert, TypeOK
  <1>3. pc' \in [Requests -> {"idle", "queued", "lock", "convert", "begin",
                    "running", "destroy", "unlock", "respond", "done"}]
    BY DEF Convert, Goto, TypeOK
  <1> QED
    BY <1>1, <1>2, <1>3 DEF Convert, TypeOK, providerVars

LEMMA BeginScriptType ==
    ASSUME TypeOK, UNCHANGED alive, NEW r \in Requests, BeginScript(r)
    PROVE  TypeOK'
  <1>1. view' \in [Requests -> Views]
    BY ViewTypes DEF BeginScript, TypeOK
  <1>2. seen' \in [Requests -> Seq(Requests)]
    BY CallType DEF BeginScript, TypeOK
  <1> QED
    BY <1>1, <1>2 DEF BeginScript, Goto, TypeOK, providerVars

LEMMA RanType ==
    ASSUME TypeOK, NEW r \in Requests
    PROVE  [vm EXCEPT ![Vm(r)] = Append(seen[r], r)] \in [Providers -> Seq(Requests)]
  <1>1. Append(seen[r], r) \in Seq(Requests)
    BY DEF TypeOK
  <1> QED
    BY <1>1 DEF TypeOK

LEMMA EndScriptType ==
    ASSUME TypeOK, UNCHANGED alive, NEW r \in Requests,
           NEW ok \in BOOLEAN, NEW wrote \in BOOLEAN, EndScript(r, ok, wrote)
    PROVE  TypeOK'
  <1>1. memory' \in [Buffers -> Contents] /\ view' \in [Requests -> Views]
    BY WriteViewType DEF EndScript, TypeOK
  <1>2. vm' \in [Providers -> Seq(Requests)]
    BY RanType DEF EndScript, TypeOK
  <1>3. result' \in [Requests -> Results \cup {Thrown}]
    <2>1. seen[r] \in Seq(Requests)
      BY DEF TypeOK
    <2>2. [status |-> "ok", value |-> seen[r], wrote |-> wrote] \in Results
      BY <2>1 DEF Results
    <2> QED
      BY <2>2, ResultTypes DEF EndScript, SetResult, TypeOK
  <1>4. AfterScript(r) \in {"unlock", "destroy"}
    BY DEF AfterScript
  <1>5. pc' \in [Requests -> {"idle", "queued", "lock", "convert", "begin",
                    "running", "destroy", "unlock", "respond", "done"}]
    BY <1>4 DEF EndScript, Goto, TypeOK
  <1> QED
    BY <1>1, <1>2, <1>3, <1>5 DEF EndScript, TypeOK, providerVars

LEMMA ExitStepType ==
    ASSUME TypeOK, UNCHANGED alive, NEW r \in Requests,
           DestroyViews(r) \/ Respond(r)
    PROVE  TypeOK'
  <1>1. CASE DestroyViews(r)
    <2>1. view[r] \in Views
      BY DEF TypeOK
    <2>2. memory' \in [Buffers -> Contents]
      BY <1>1, <2>1, PushedBackType DEF DestroyViews
    <2>3. view' \in [Requests -> Views]
      BY <1>1, ViewTypes DEF DestroyViews, TypeOK
    <2> QED
      BY <1>1, <2>2, <2>3 DEF DestroyViews, Goto, TypeOK, providerVars
  <1>2. CASE Respond(r)
    BY <1>2, ResultTypes DEF Respond, Goto, TypeOK, providerVars, dataVars
  <1> QED
    BY <1>1, <1>2

LEMMA ThrowType ==
    ASSUME TypeOK, NEW r \in Requests, NEW v \in Views, Throw(r, v)
    PROVE  /\ alive' \in BOOLEAN
           /\ view' \in [Requests -> Views]
           /\ pc' \in [Requests -> {"idle", "queued", "lock", "convert",
                        "begin", "running", "destroy", "unlock", "respond",
                        "done"}]
           /\ result' \in [Requests -> Results \cup {Thrown}]
  <1>1. CASE UncaughtTerminates
    BY <1>1 DEF Throw, TypeOK
  <1>2. CASE ~UncaughtTerminates
    BY <1>2 DEF Throw, Goto, SetResult, TypeOK
  <1> QED
    BY <1>1, <1>2

LEMMA FaultType ==
    ASSUME TypeOK, NEW r \in Requests, Fault(r)
    PROVE  TypeOK'
  <1>1. CASE ConversionThrows(r)
    <2>1. PICK v \in Views : Throw(r, v)
      BY <1>1, ViewTypes DEF ConversionThrows
    <2> QED
      BY <1>1, <2>1, ThrowType DEF ConversionThrows, TypeOK, providerVars
  <1>2. CASE ScriptFetchThrows(r)
    <2>1. PICK v \in Views : Throw(r, v)
      BY <1>2, ViewTypes DEF ScriptFetchThrows
    <2> QED
      BY <1>2, <2>1, ThrowType DEF ScriptFetchThrows, TypeOK, providerVars
  <1>3. CASE ReturnValueThrows(r)
    <2>1. view[r] \in Views /\ Throw(r, view[r])
      BY <1>3 DEF ReturnValueThrows, TypeOK
    <2>2. vm' \in [Providers -> Seq(Requests)]
      BY <1>3, RanType DEF ReturnValueThrows, TypeOK
    <2> QED
      BY <1>3, <2>1, <2>2, ThrowType
      DEF ReturnValueThrows, TypeOK, providerVars
  <1>4. CASE PushThrows(r)
    BY <1>4 DEF PushThrows, TypeOK, providerVars, dataVars
  <1>5. CASE ArgumentOverrun(r)
    BY <1>5 DEF ArgumentOverrun, TypeOK, providerVars, dataVars
  <1>6. CASE DanglingWrite(r)
    BY <1>6 DEF DanglingWrite, TypeOK, providerVars, dataVars
  <1> QED
    BY <1>1, <1>2, <1>3, <1>4, <1>5, <1>6 DEF Fault

LEMMA NextType == TypeOK /\ [Next]_vars => TypeOK'
  <1> SUFFICES ASSUME TypeOK, [Next]_vars PROVE TypeOK'
    OBVIOUS
  <1>1. ASSUME UNCHANGED alive, NEW p \in Providers, ConstructorStep(p)
        PROVE  TypeOK'
    BY <1>1, ConstructorType
  <1>2. ASSUME UNCHANGED alive, NEW r \in Requests, Send(r) \/ HandlerStep(r)
        PROVE  TypeOK'
    BY <1>2, EarlyStepType, LockStepType, ConvertType, BeginScriptType,
       EndScriptType, ExitStepType DEF HandlerStep
  <1>3. ASSUME NEW r \in Requests, Fault(r) PROVE TypeOK'
    BY <1>3, FaultType
  <1>4. CASE UNCHANGED vars
    BY <1>4 DEF vars, TypeOK
  <1> QED
    BY <1>1, <1>2, <1>3, <1>4 DEF Next, Finished

(* Every variable of the server always has its type: a view that is pushed *)
(* back, a result that is sent and the history of an interpreter are what  *)
(* the clients' futures and buffers can hold (ProviderImpl.hpp).           *)
THEOREM TypeCorrect == Spec => []TypeOK
  <1> QED
    BY InitType, NextType, PTL DEF Spec
-----------------------------------------------------------------------------
(* The discipline of the mutexes *)

(* What the disciplines say of a request depends on its call only. *)
LEMMA SameCall ==
    ASSUME UNCHANGED call, NEW r \in Requests
    PROVE  /\ ViewOutlivesLock(r)' = ViewOutlivesLock(r)
           /\ MutexOf(r)' = MutexOf(r)
           /\ Raii(r)' = Raii(r)
  BY DEF ViewOutlivesLock, MutexOf, Raii, Kind, Vm

(* The steps of a handler other than locking and unlocking. *)
QuietStep(r) ==
    \/ Send(r) \/ Unreachable(r) \/ NoVmAttached(r) \/ FileMissing(r)
    \/ EnterBackend(r) \/ RejectEarly(r) \/ Convert(r) \/ BeginScript(r)
    \/ LookupFails(r)
    \/ \E ok, wrote \in BOOLEAN : EndScript(r, ok, wrote)
    \/ DestroyViews(r) \/ Respond(r) \/ Fault(r)

(* They leave the mutexes alone, and nobody starts or stops holding one. *)
LEMMA QuietStepKeepsLocks ==
    ASSUME TypeOK, NEW r \in Requests, QuietStep(r), NEW s \in Requests
    PROVE  /\ UNCHANGED <<m_mtx, call>>
           /\ Holds(s)' => Holds(s)
           /\ NobodyForgets /\ NobodyForgets' /\ Holds(s) => Holds(s)'
  <1> USE DEF Goto, Holds, InVm, providerVars, dataVars, TypeOK
  <1>1. CASE Send(r) \/ Unreachable(r) \/ NoVmAttached(r) \/ FileMissing(r)
             \/ EnterBackend(r)
    BY <1>1, SameCall
    DEF Send, Unreachable, NoVmAttached, FileMissing, EnterBackend
  <1>2. CASE RejectEarly(r)
    BY <1>2, SameCall DEF RejectEarly
  <1>3. CASE Convert(r)
    BY <1>3, SameCall DEF Convert
  <1>4. CASE BeginScript(r)
    BY <1>4, SameCall DEF BeginScript
  <1>5. CASE LookupFails(r)
    <2>1. ~ViewOutlivesLock(r)
      BY <1>5 DEF LookupFails, ViewOutlivesLock
    <2> QED
      BY <1>5, <2>1, SameCall DEF LookupFails
  <1>6. CASE \E ok, wrote \in BOOLEAN : EndScript(r, ok, wrote)
    <2>1. PICK ok, wrote \in BOOLEAN : EndScript(r, ok, wrote)
      BY <1>6
    <2>2. UNCHANGED <<m_mtx, call>> /\ pc[r] = "running"
          /\ pc' = [pc EXCEPT ![r] = AfterScript(r)]
      BY <2>1 DEF EndScript
    <2> QED
      BY <2>2, SameCall DEF AfterScript
  <1>7. CASE DestroyViews(r)
    BY <1>7, SameCall DEF DestroyViews, NobodyForgets
  <1>8. CASE Respond(r)
    BY <1>8, SameCall DEF Respond
  <1>9. CASE Fault(r)
    <2>1. UNCHANGED <<m_mtx, call>>
      BY <1>9 DEF Fault, ConversionThrows, ScriptFetchThrows,
         ReturnValueThrows, PushThrows, ArgumentOverrun, DanglingWrite
    <2>2. CASE pc' = pc
      BY <2>1, <2>2, SameCall
    <2>3. CASE /\ pc' = [pc EXCEPT ![r] = "destroy"]
               /\ pc[r] \in {"convert", "running"}
               /\ ~ViewOutlivesLock(r)
      BY <2>1, <2>3, SameCall
    <2>4. CASE /\ pc' = [pc EXCEPT ![r] = "destroy"]
               /\ pc[r] \in {"convert", "running"}
               /\ result'[r] = Thrown
               /\ ViewOutlivesLock(r)
      <3>1. ~Raii(r)'
        BY <2>1, <2>4, SameCall DEF ViewOutlivesLock, Raii
      <3>2. ~NobodyForgets'
        BY <2>4, <3>1 DEF NobodyForgets
      <3> QED
        BY <2>1, <2>4, <3>2, SameCall
    <2>5. \/ pc' = pc
          \/ /\ pc' = [pc EXCEPT ![r] = "destroy"]
             /\ pc[r] \in {"convert", "running"}
             /\ result'[r] = Thrown
      BY <1>9 DEF Fault, Throw, SetResult, ConversionThrows, ScriptFetchThrows,
         ReturnValueThrows, PushThrows, ArgumentOverrun, DanglingWrite
    <2> QED
      BY <2>2, <2>3, <2>4, <2>5
  <1> QED
    BY <1>1, <1>2, <1>3, <1>4, <1>5, <1>6, <1>7, <1>8, <1>9 DEF QuietStep

(* Whoever is between lock and unlock owns the mutex of its VM. *)
LEMMA HolderStep ==
    ASSUME TypeOK, HolderInv, [Next]_vars
    PROVE  HolderInv'
  <1>1. ASSUME NEW p \in Providers, ConstructorStep(p) PROVE HolderInv'
    <2>1. UNCHANGED <<m_mtx, call, pc>>
      BY <1>1 DEF ConstructorStep, DefineRpcs, SkipVm, CreateVm, CreateVmFails
    <2> QED
      BY <2>1, SameCall DEF HolderInv, Holds, InVm
  <1>2. ASSUME NEW r \in Requests, QuietStep(r) PROVE HolderInv'
    BY <1>2, QuietStepKeepsLocks, SameCall DEF HolderInv
  <1>3. ASSUME NEW r \in Requests, Acquire(r) PROVE HolderInv'
    <2> SUFFICES ASSUME NEW s \in Requests, Holds(s)'
                 PROVE  m_mtx'[MutexOf(s)] = s
      BY <1>3, SameCall DEF HolderInv, Acquire
    <2>1. CASE s = r
      BY <1>3, <2>1, CallType DEF Acquire, TypeOK
    <2>2. CASE s # r
      <3>1. Holds(s)
        BY <1>3, <2>2, SameCall DEF Acquire, Goto, Holds, InVm, TypeOK
      <3>2. m_mtx[MutexOf(s)] = s /\ m_mtx[MutexOf(r)] = Unlocked
        BY <1>3, <3>1 DEF HolderInv, Acquire
      <3> QED
        BY <1>3, <3>2, UnlockedAssumption, CallType DEF Acquire, TypeOK
    <2> QED
      BY <2>1, <2>2
  <1>4. ASSUME NEW r \in Requests, Unlock(r) PROVE HolderInv'
    <2> SUFFICES ASSUME NEW s \in Requests, Holds(s)'
                 PROVE  m_mtx'[MutexOf(s)] = s
      BY <1>4, SameCall DEF HolderInv, Unlock, dataVars
    <2>1. m_mtx[MutexOf(r)] = r
      BY <1>4 DEF HolderInv, Holds, Unlock
    <2>2. s # r
      BY <1>4, SameCall DEF Unlock, Goto, Holds, InVm, TypeOK
    <2>3. Holds(s)
      BY <1>4, <2>2, SameCall DEF Unlock, Goto, Holds, InVm, TypeOK
    <2>4. m_mtx[MutexOf(s)] = s
      BY <2>3 DEF HolderInv
    <2> QED
      BY <1>4, <2>1, <2>2, <2>4, CallType DEF Unlock, TypeOK
  <1>5. CASE UNCHANGED vars
    <2>1. UNCHANGED <<m_mtx, call, pc>>
      BY <1>5 DEF vars
    <2> QED
      BY <2>1, SameCall DEF HolderInv, Holds, InVm
  <1> QED
    BY <1>1, <1>2, <1>3, <1>4, <1>5
    DEF Next, HandlerStep, QuietStep, Finished

LEMMA HolderImpliesExclusion == TypeOK /\ HolderInv => MutualExclusion
  BY DEF HolderInv, Holds, MutualExclusion

(* An interpreter is used by at most one handler at a time: the unique_lock *)
(* on m_mtx (ABT_mutex_lock on s_mtx in Python) covers the conversion of    *)
(* the arguments, the script and the conversion of its value.              *)
THEOREM Exclusion == Spec => []MutualExclusion
  <1>1. Init => TypeOK /\ HolderInv
    BY InitType DEF Init, Idle, HolderInv, Holds, InVm
  <1>2. TypeOK /\ HolderInv /\ [Next]_vars => (TypeOK /\ HolderInv)'
    BY NextType, HolderStep
  <1> QED
    BY <1>1, <1>2, HolderImpliesExclusion, PTL DEF Spec
-----------------------------------------------------------------------------
(* No mutex is left behind *)

(* Either exceptions that leave a handler end the process, or every VM's   *)
(* mutex is held by a unique_lock.                                         *)
NoForgottenMutex == UncaughtTerminates \/ \A p \in Providers : BackendOf[p] # "python"

(* A future is ready once its handler has nothing left to do. *)
LEMMA AnsweredStep ==
    ASSUME TypeOK, AnsweredInv, [Next]_vars
    PROVE  AnsweredInv'
  <1> USE DEF AnsweredInv, Answered, TypeOK, Goto, providerVars, dataVars
  <1>1. ASSUME NEW p \in Providers, ConstructorStep(p) PROVE AnsweredInv'
    BY <1>1 DEF ConstructorStep, DefineRpcs, SkipVm, CreateVm, CreateVmFails
  <1>2. ASSUME NEW r \in Requests,
               \/ Send(r) \/ Unreachable(r) \/ NoVmAttached(r)
               \/ FileMissing(r) \/ EnterBackend(r) \/ Acquire(r)
        PROVE  AnsweredInv'
    BY <1>2
    DEF Send, Unreachable, NoVmAttached, FileMissing, EnterBackend, Acquire
  <1>3. ASSUME NEW r \in Requests,
               \/ RejectEarly(r) \/ Convert(r) \/ BeginScript(r)
               \/ LookupFails(r) \/ DestroyViews(r) \/ Unlock(r)
        PROVE  AnsweredInv'
    BY <1>3 DEF RejectEarly, Convert, BeginScript, LookupFails,
       DestroyViews, Unlock
  <1>4. ASSUME NEW r \in Requests, NEW ok \in BOOLEAN, NEW wrote \in BOOLEAN,
               EndScript(r, ok, wrote)
        PROVE  AnsweredInv'
    BY <1>4 DEF EndScript
  <1>5. ASSUME NEW r \in Requests, Respond(r) PROVE AnsweredInv'
    BY <1>5 DEF Respond
  <1>6. ASSUME NEW r \in Requests, Fault(r) PROVE AnsweredInv'
    <2>1. response' = response
      BY <1>6 DEF Fault, ConversionThrows, ScriptFetchThrows,
         ReturnValueThrows, PushThrows, ArgumentOverrun, DanglingWrite
    <2>2. \/ pc' = pc
          \/ pc' = [pc EXCEPT ![r] = "destroy"] /\ pc[r] \in {"convert", "running"}
      BY <1>6 DEF Fault, Throw, ConversionThrows, ScriptFetchThrows,
         ReturnValueThrows, PushThrows, ArgumentOverrun, DanglingWrite
    <2> QED
      BY <2>1, <2>2
  <1>7. CASE UNCHANGED vars
    BY <1>7 DEF vars
  <1> QED
    BY <1>1, <1>2, <1>3, <1>4, <1>5, <1>6, <1>7
    DEF Next, HandlerStep, Finished

(* Where NoForgottenMutex holds, unwinding releases every mutex. *)
LEMMA ForgetStep ==
    ASSUME NoForgottenMutex, TypeOK, NobodyForgets, [Next]_vars
    PROVE  NobodyForgets'
  <1> USE ResultTypes DEF TypeOK, providerVars, dataVars, SetResult
  <1>0. ASSUME UNCHANGED <<call, result>> PROVE NobodyForgets'
    BY <1>0, SameCall DEF NobodyForgets
  <1>1. ASSUME NEW r \in Requests, NEW res \in Results, UNCHANGED call,
               result' = [result EXCEPT ![r] = res]
        PROVE  NobodyForgets'
    BY <1>1, SameCall DEF NobodyForgets
  <1>2. ASSUME NEW p \in Providers, ConstructorStep(p) PROVE NobodyForgets'
    BY <1>0, <1>2 DEF ConstructorStep, DefineRpcs, SkipVm, CreateVm, CreateVmFails
  <1>3. ASSUME NEW r \in Requests,
               \/ Send(r) \/ EnterBackend(r) \/ Acquire(r) \/ Convert(r)
               \/ BeginScript(r) \/ DestroyViews(r) \/ Unlock(r) \/ Respond(r)
        PROVE  NobodyForgets'
    BY <1>0, <1>3 DEF Send, EnterBackend, Acquire, Convert, BeginScript,
       DestroyViews, Unlock, Respond
  <1>4. ASSUME NEW r \in Requests,
               \/ Unreachable(r) \/ NoVmAttached(r) \/ FileMissing(r)
               \/ RejectEarly(r) \/ LookupFails(r)
        PROVE  NobodyForgets'
    BY <1>1, <1>4 DEF Unreachable, NoVmAttached, FileMissing, RejectEarly,
       LookupFails
  <1>5. ASSUME NEW r \in Requests, NEW ok \in BOOLEAN, NEW wrote \in BOOLEAN,
               EndScript(r, ok, wrote)
        PROVE  NobodyForgets'
    <2>1. seen[r] \in Seq(Requests)
      OBVIOUS
    <2>2. [status |-> "ok", value |-> seen[r], wrote |-> wrote] \in Results
      BY <2>1 DEF Results
    <2> QED
      BY <1>1, <1>5, <2>2 DEF EndScript
  <1>6. ASSUME NEW r \in Requests, Fault(r) PROVE NobodyForgets'
    <2>1. UNCHANGED call
      BY <1>6 DEF Fault, ConversionThrows, ScriptFetchThrows,
         ReturnValueThrows, PushThrows, ArgumentOverrun, DanglingWrite
    <2>2. CASE UncaughtTerminates
      <3>1. UNCHANGED result
        BY <1>6, <2>2 DEF Fault, Throw, ConversionThrows, ScriptFetchThrows,
           ReturnValueThrows, PushThrows, ArgumentOverrun, DanglingWrite
      <3> QED
        BY <1>0, <2>1, <3>1
    <2>3. CASE ~UncaughtTerminates
      <3>1. \A s \in Requests : Raii(s)
        BY <2>3, CallType DEF NoForgottenMutex, Raii, Kind
      <3> QED
        BY <2>1, <3>1, SameCall DEF NobodyForgets
    <2> QED
      BY <2>2, <2>3
  <1>7. CASE UNCHANGED vars
    BY <1>0, <1>7 DEF vars
  <1> QED
    BY <1>2, <1>3, <1>4, <1>5, <1>6, <1>7 DEF Next, HandlerStep, Finished

(* Nobody but a handler between lock and unlock owns a mutex. *)
LEMMA OwnerStep ==
    ASSUME TypeOK, OwnerInv, NobodyForgets, NobodyForgets', [Next]_vars
    PROVE  OwnerInv'
  <1>1. ASSUME NEW p \in Providers, ConstructorStep(p) PROVE OwnerInv'
    <2>1. UNCHANGED <<m_mtx, call, pc>>
      BY <1>1 DEF ConstructorStep, DefineRpcs, SkipVm, CreateVm, CreateVmFails
    <2> QED
      BY <2>1, SameCall DEF OwnerInv, Holds, InVm
  <1>2. ASSUME NEW r \in Requests, QuietStep(r) PROVE OwnerInv'
    BY <1>2, QuietStepKeepsLocks, SameCall DEF OwnerInv
  <1>3. ASSUME NEW r \in Requests, Acquire(r) PROVE OwnerInv'
    <2>1. UNCHANGED call /\ Holds(r)'
      BY <1>3 DEF Acquire, Goto, Holds, InVm, TypeOK
    <2>2. \A s \in Requests : s # r /\ Holds(s) => Holds(s)'
      BY <1>3, <2>1, SameCall DEF Acquire, Goto, Holds, InVm, TypeOK
    <2> QED
      BY <1>3, <2>1, <2>2, SameCall, CallType DEF OwnerInv, Acquire, TypeOK
  <1>4. ASSUME NEW r \in Requests, Unlock(r) PROVE OwnerInv'
    <2>1. UNCHANGED call /\ m_mtx' = [m_mtx EXCEPT ![MutexOf(r)] = Unlocked]
      BY <1>4 DEF Unlock
    <2>2. \A m \in Mutexes : m_mtx'[m] # r
      BY <2>1, UnlockedAssumption, CallType DEF OwnerInv, TypeOK
    <2>3. \A s \in Requests : s # r /\ Holds(s) => Holds(s)'
      BY <1>4, <2>1, SameCall DEF Unlock, Goto, Holds, InVm, TypeOK
    <2>4. \A m \in Mutexes, s \in Requests : m_mtx'[m] = s => m_mtx[m] = s
      BY <2>1, UnlockedAssumption, CallType DEF TypeOK
    <2> QED
      BY <2>1, <2>2, <2>3, <2>4, SameCall DEF OwnerInv
  <1>5. CASE UNCHANGED vars
    <2>1. UNCHANGED <<m_mtx, call, pc>>
      BY <1>5 DEF vars
    <2> QED
      BY <2>1, SameCall DEF OwnerInv, Holds, InVm
  <1> QED
    BY <1>1, <1>2, <1>3, <1>4, <1>5
    DEF Next, HandlerStep, QuietStep, Finished

(* A handler that has responded holds no mutex, on every path out of every *)
(* backend: early returns, script errors and exceptions (unique_lock, or    *)
(* the unlock calls of PythonVm).                                          *)
THEOREM NoLockLeak ==
    ASSUME NoForgottenMutex
    PROVE  Spec => []LockReleased
  <1> DEFINE IInv == TypeOK /\ OwnerInv /\ AnsweredInv /\ NobodyForgets
  <1>1. Init => IInv
    <2> SUFFICES ASSUME Init PROVE IInv
      OBVIOUS
    <2>1. TypeOK
      BY InitType
    <2>2. OwnerInv
      BY UnlockedAssumption DEF Init, Idle, OwnerInv
    <2>3. AnsweredInv
      BY DEF Init, Idle, AnsweredInv, Answered
    <2>4. NobodyForgets
      BY ResultTypes DEF Init, Idle, NobodyForgets
    <2> QED
      BY <2>1, <2>2, <2>3, <2>4
  <1>2. IInv /\ [Next]_vars => IInv'
    BY NextType, OwnerStep, AnsweredStep, ForgetStep
  <1>3. IInv => LockReleased
    BY DEF OwnerInv, AnsweredInv, LockReleased, Holds, InVm
  <1> QED
    BY <1>1, <1>2, <1>3, PTL DEF Spec
=============================================================================
