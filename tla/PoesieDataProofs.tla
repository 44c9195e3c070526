-------------------------- MODULE PoesieDataProofs --------------------------
(***************************************************************************)
(* What happens to the data under the locking discipline: the interpreters *)
(* and the results sent to clients, and the clients' buffers.              *)
(***************************************************************************)
EXTENDS PoesieServerProofs

(* Running one more script leaves the outcome of the earlier ones alone. *)
LEMMA OutcomeMonotone ==
    ASSUME NEW S, NEW h \in Seq(S), NEW s \in S, NEW r, NEW res,
           OutcomeIn(h, r, res)
    PROVE  OutcomeIn(Append(h, s), r, res)
  <1>1. PICK i \in DOMAIN h : h[i] = r /\ res.value = SubSeq(h, 1, i - 1)
    BY DEF OutcomeIn
  <1>2. i \in 1 .. Len(h) /\ i \in DOMAIN Append(h, s)
    OBVIOUS
  <1>3. Append(h, s)[i] = r
    BY <1>1, <1>2
  <1>4. SubSeq(Append(h, s), 1, i - 1) = SubSeq(h, 1, i - 1)
    BY <1>2
  <1> QED
    BY <1>1, <1>2, <1>3, <1>4 DEF OutcomeIn

(* A script that has just run has the outcome it returns. *)
LEMMA OutcomeOfLast ==
    ASSUME NEW S, NEW h \in Seq(S), NEW r \in S, NEW res, res.value = h
    PROVE  OutcomeIn(Append(h, r), r, res)
  <1> DEFINE i == Len(h) + 1
  <1>1. i \in DOMAIN Append(h, r) /\ Append(h, r)[i] = r
    OBVIOUS
  <1>2. SubSeq(Append(h, r), 1, i - 1) = h
    OBVIOUS
  <1> QED
    BY <1>1, <1>2 DEF OutcomeIn
-----------------------------------------------------------------------------
(* Results *)

(* An exception that leaves a handler ends the process, and changes nothing *)
(* that a client could see.                                                 *)
LEMMA FaultIsTheEnd ==
    ASSUME UncaughtTerminates, TypeOK, NEW r \in Requests, Fault(r)
    PROVE  UNCHANGED <<m_mtx, vm, memory, call, pc, seen, view, result, response>>
  BY DEF Fault, Throw, ConversionThrows, ScriptFetchThrows, ReturnValueThrows,
     PushThrows, ArgumentOverrun, DanglingWrite, dataVars, providerVars

(* What a running script read is still there when it ends: nobody else uses *)
(* its interpreter meanwhile.                                              *)
LEMMA SeenStep ==
    ASSUME UncaughtTerminates, TypeOK, HolderInv, SeenInv, [Next]_vars
    PROVE  SeenInv'
  <1> USE DEF TypeOK, SeenInv, Goto, Vm, providerVars, dataVars
  <1>1. ASSUME NEW p \in Providers, ConstructorStep(p) PROVE SeenInv'
    BY <1>1 DEF ConstructorStep, DefineRpcs, SkipVm, CreateVm, CreateVmFails
  <1>2. ASSUME NEW r \in Requests,
               \/ Send(r) \/ Unreachable(r) \/ NoVmAttached(r)
               \/ FileMissing(r) \/ EnterBackend(r) \/ Acquire(r)
        PROVE  SeenInv'
    BY <1>2
    DEF Send, Unreachable, NoVmAttached, FileMissing, EnterBackend, Acquire
  <1>3. ASSUME NEW r \in Requests,
               \/ RejectEarly(r) \/ Convert(r) \/ LookupFails(r)
               \/ DestroyViews(r) \/ Unlock(r) \/ Respond(r)
        PROVE  SeenInv'
    BY <1>3 DEF RejectEarly, Convert, LookupFails, DestroyViews, Unlock, Respond
  <1>4. ASSUME NEW r \in Requests, BeginScript(r) PROVE SeenInv'
    BY <1>4 DEF BeginScript
  <1>5. ASSUME NEW r \in Requests, NEW ok \in BOOLEAN, NEW wrote \in BOOLEAN,
               EndScript(r, ok, wrote)
        PROVE  SeenInv'
    <2> SUFFICES ASSUME NEW s \in Requests, pc'[s] = "running"
                 PROVE  seen'[s] = vm'[Vm(s)']
      OBVIOUS
    <2>1. s # r /\ pc[s] = "running" /\ UNCHANGED <<call, seen>>
      BY <1>5 DEF EndScript, AfterScript
    <2>2. Vm(s) # Vm(r)
      <3>1. MutexOf(s) # MutexOf(r)
        BY <1>5, <2>1, HolderImpliesExclusion
        DEF MutualExclusion, InVm, EndScript
      <3> QED
        BY <3>1 DEF MutexOf, Kind
    <2>3. vm'[Vm(s)] = vm[Vm(s)]
      <3>1. vm' = vm \/ vm' = [vm EXCEPT ![Vm(r)] = Append(seen[r], r)]
        BY <1>5 DEF EndScript
      <3> HIDE DEF Vm
      <3>2. Vm(s) \in Providers
        BY CallType
      <3> QED
        BY <2>2, <3>1, <3>2
    <2> QED
      BY <2>1, <2>3
  <1>6. ASSUME NEW r \in Requests, Fault(r) PROVE SeenInv'
    BY <1>6, FaultIsTheEnd
  <1>7. CASE UNCHANGED vars
    BY <1>7 DEF vars
  <1> QED
    BY <1>1, <1>2, <1>3, <1>4, <1>5, <1>6, <1>7
    DEF Next, HandlerStep, Finished

(* A step that leaves the interpreters and the answers alone, and sets the *)
(* result of r to an error if it ends its script.                          *)
LEMMA OutcomeQuiet ==
    ASSUME TypeOK, OutcomeInv, UNCHANGED <<vm, call, response>>,
           NEW r \in Requests, ~Answered(r),
           \/ UNCHANGED result
           \/ result' = [result EXCEPT ![r] = ErrorResult],
           \A s \in Requests : s # r => pc'[s] = pc[s],
           Served(r)' => Served(r) \/ result'[r] = ErrorResult
    PROVE  OutcomeInv'
  <1> SUFFICES ASSUME NEW s \in Requests
               PROVE  /\ Served(s)' /\ result'[s].status = "ok"
                            => OutcomeIn(vm[Vm(s)], s, result'[s])
                      /\ Answered(s) => pc'[s] = "done" /\ response[s] = result'[s]
                      /\ result'[s] # Thrown
    BY DEF OutcomeInv, Answered, Vm, OutcomeIn
  <1>1. CASE s # r
    BY <1>1 DEF OutcomeInv, Served, TypeOK
  <1>2. CASE s = r
    BY <1>2, ResultTypes DEF OutcomeInv, TypeOK
  <1> QED
    BY <1>1, <1>2

(* The end of a script, under the lock: the interpreter remembers it, and   *)
(* the script's value is what it read.                                     *)
LEMMA OutcomeEndScript ==
    ASSUME TypeOK, SeenInv, OutcomeInv, AnsweredInv,
           NEW r \in Requests, NEW ok \in BOOLEAN, NEW wrote \in BOOLEAN,
           EndScript(r, ok, wrote)
    PROVE  OutcomeInv'
  <1> DEFINE res == [status |-> "ok", value |-> seen[r], wrote |-> wrote]
             ran == [vm EXCEPT ![Vm(r)] = Append(seen[r], r)]
  <1>1. /\ pc[r] = "running" /\ UNCHANGED <<call, response>>
        /\ pc' = [pc EXCEPT ![r] = AfterScript(r)]
        /\ ok => vm' = ran /\ result' = [result EXCEPT ![r] = res]
        /\ ~ok => /\ vm' = vm \/ vm' = ran
                  /\ result' = [result EXCEPT ![r] = ErrorResult]
    BY DEF EndScript, Goto, SetResult
  <1>2. seen[r] = vm[Vm(r)] /\ vm[Vm(r)] \in Seq(Requests) /\ Vm(r) \in Providers
    BY <1>1, CallType DEF SeenInv, TypeOK
  <1>3. ASSUME NEW s \in Requests, NEW x, OutcomeIn(vm[Vm(s)], s, x)
        PROVE  OutcomeIn(vm'[Vm(s)], s, x)
    <2>1. vm'[Vm(s)] \in {vm[Vm(s)], Append(vm[Vm(s)], r)}
      BY <1>1, <1>2, CallType DEF TypeOK
    <2>2. vm[Vm(s)] \in Seq(Requests)
      BY CallType DEF TypeOK
    <2> QED
      BY <1>3, <2>1, <2>2, OutcomeMonotone
  <1>4. ~Answered(r) /\ ~Served(r)
    BY <1>1 DEF AnsweredInv, Served
  <1>5. SUFFICES ASSUME NEW s \in Requests
        PROVE  /\ Served(s)' /\ result'[s].status = "ok"
                     => OutcomeIn(vm'[Vm(s)], s, result'[s])
               /\ Answered(s) => pc'[s] = "done" /\ response[s] = result'[s]
               /\ result'[s] # Thrown
    BY <1>1 DEF OutcomeInv, Answered, Vm, OutcomeIn
  <1>6. CASE s # r
    <2>1. result'[s] = result[s] /\ pc'[s] = pc[s]
      BY <1>1, <1>6 DEF TypeOK
    <2> QED
      BY <2>1, <1>3 DEF OutcomeInv, Served
  <1>7. CASE s = r /\ ok
    <2>1. result'[s] = res /\ vm'[Vm(s)] = Append(vm[Vm(r)], r)
      BY <1>1, <1>2, <1>7 DEF TypeOK
    <2>2. OutcomeIn(vm'[Vm(s)], s, res)
      BY <1>2, <1>7, <2>1, OutcomeOfLast
    <2>3. res # Thrown
      BY DEF Thrown
    <2> QED
      BY <1>4, <1>7, <2>1, <2>2, <2>3
  <1>8. CASE s = r /\ ~ok
    <2>1. result'[s] = ErrorResult
      BY <1>1, <1>8 DEF TypeOK
    <2> QED
      BY <1>4, <1>8, <2>1, ResultTypes
  <1> QED
    BY <1>6, <1>7, <1>8

(* What is on its way to a client is what its own script returned. *)
LEMMA OutcomeStep ==
    ASSUME UncaughtTerminates, TypeOK, SeenInv, AnsweredInv, OutcomeInv,
           [Next]_vars
    PROVE  OutcomeInv'
  <1> USE DEF Goto, SetResult, Served, AnsweredInv, providerVars, dataVars
  <1>0. ASSUME UNCHANGED <<vm, call, response, result, pc>> PROVE OutcomeInv'
    BY <1>0 DEF OutcomeInv, OutcomeIn, Answered, Vm
  <1>1. ASSUME NEW p \in Providers, ConstructorStep(p) PROVE OutcomeInv'
    BY <1>0, <1>1 DEF ConstructorStep, DefineRpcs, SkipVm, CreateVm, CreateVmFails
  <1>2. ASSUME NEW r \in Requests,
               \/ Send(r) \/ Unreachable(r) \/ NoVmAttached(r)
               \/ FileMissing(r) \/ EnterBackend(r) \/ Acquire(r)
        PROVE  OutcomeInv'
    <2>1. /\ UNCHANGED <<vm, call, response>> /\ ~Answered(r)
          /\ \/ UNCHANGED result
             \/ result' = [result EXCEPT ![r] = ErrorResult]
          /\ \A s \in Requests : s # r => pc'[s] = pc[s]
          /\ Served(r)' => result'[r] = ErrorResult
      BY <1>2 DEF Send, Unreachable, NoVmAttached, FileMissing, EnterBackend,
         Acquire, TypeOK
    <2> QED
      BY <2>1, OutcomeQuiet
  <1>3. ASSUME NEW r \in Requests,
               \/ RejectEarly(r) \/ Convert(r) \/ LookupFails(r)
               \/ BeginScript(r) \/ DestroyViews(r) \/ Unlock(r)
        PROVE  OutcomeInv'
    <2>1. /\ UNCHANGED <<vm, call, response>> /\ ~Answered(r)
          /\ \/ UNCHANGED result
             \/ result' = [result EXCEPT ![r] = ErrorResult]
          /\ \A s \in Requests : s # r => pc'[s] = pc[s]
          /\ Served(r)' => Served(r) \/ result'[r] = ErrorResult
      BY <1>3 DEF RejectEarly, Convert, LookupFails, BeginScript,
         DestroyViews, Unlock, TypeOK
    <2> QED
      BY <2>1, OutcomeQuiet
  <1>4. ASSUME NEW r \in Requests, NEW ok \in BOOLEAN, NEW wrote \in BOOLEAN,
               EndScript(r, ok, wrote)
        PROVE  OutcomeInv'
    BY <1>4, OutcomeEndScript
  <1>5. ASSUME NEW r \in Requests, Respond(r) PROVE OutcomeInv'
    <2>1. /\ UNCHANGED <<vm, call, result>> /\ pc[r] = "respond"
          /\ pc' = [pc EXCEPT ![r] = "done"]
          /\ response' = [response EXCEPT ![r] = result[r]]
      BY <1>5 DEF Respond, OutcomeInv
    <2> QED
      BY <2>1 DEF OutcomeInv, OutcomeIn, Answered, Vm, TypeOK
  <1>6. ASSUME NEW r \in Requests, Fault(r) PROVE OutcomeInv'
    BY <1>0, <1>6, FaultIsTheEnd
  <1>7. CASE UNCHANGED vars
    BY <1>0, <1>7 DEF vars
  <1> QED
    BY <1>1, <1>2, <1>3, <1>4, <1>5, <1>6, <1>7
    DEF Next, HandlerStep, Finished

LEMMA OutcomeIsFaithful ==
    ASSUME AnsweredInv, OutcomeInv
    PROVE  SuccessIsFaithful
  <1> SUFFICES ASSUME NEW r \in Requests, response[r].status = "ok"
               PROVE  OutcomeIn(vm[Vm(r)], r, response[r])
    BY DEF SuccessIsFaithful
  <1>1. Answered(r)
    BY DEF Answered, NoResponse
  <1> QED
    BY <1>1 DEF OutcomeInv, AnsweredInv, Served

(* A future that reports a success carries what its own script returned,   *)
(* run once, on the state left by the scripts before it and seen by the    *)
(* ones after it. Exceptions that no backend catches must end the process: *)
(* auto_respond would otherwise send the default value of result.          *)
THEOREM FaithfulAnswers ==
    ASSUME UncaughtTerminates
    PROVE  Spec => []SuccessIsFaithful
  <1> DEFINE IInv == /\ TypeOK /\ HolderInv /\ AnsweredInv
                     /\ SeenInv /\ OutcomeInv
  <1>1. Init => IInv
    <2> SUFFICES ASSUME Init PROVE IInv
      OBVIOUS
    <2>1. TypeOK
      BY InitType
    <2>2. HolderInv
      BY DEF Init, Idle, HolderInv, Holds, InVm
    <2>3. AnsweredInv /\ SeenInv
      BY DEF Init, Idle, AnsweredInv, SeenInv, Answered
    <2>4. OutcomeInv
      BY ResultTypes DEF Init, Idle, OutcomeInv, Served, Answered
    <2> QED
      BY <2>1, <2>2, <2>3, <2>4
  <1>2. IInv /\ [Next]_vars => IInv'
    BY NextType, HolderStep, AnsweredStep, SeenStep, OutcomeStep
  <1>3. IInv => SuccessIsFaithful
    BY OutcomeIsFaithful
  <1> QED
    BY <1>1, <1>2, <1>3, PTL DEF Spec
-----------------------------------------------------------------------------
(* Buffers *)

(* A view that points into a buffer is one of the process's own buffers. *)
LEMMA AliasStep ==
    ASSUME TypeOK, AliasInv, [Next]_vars
    PROVE  AliasInv'
  <1> USE DEF TypeOK, AliasInv, Local, NoView, providerVars, dataVars
  <1>0. ASSUME UNCHANGED <<call, view>> PROVE AliasInv'
    BY <1>0
  <1>1. ASSUME NEW r \in Requests, NEW v, v.state = "alias" => Local(r),
               UNCHANGED call, view' = [view EXCEPT ![r] = v]
        PROVE  AliasInv'
    BY <1>1
  <1>2. ASSUME NEW p \in Providers, ConstructorStep(p) PROVE AliasInv'
    BY <1>0, <1>2 DEF ConstructorStep, DefineRpcs, SkipVm, CreateVm, CreateVmFails
  <1>3. ASSUME NEW r \in Requests,
               \/ Send(r) \/ Unreachable(r) \/ NoVmAttached(r)
               \/ FileMissing(r) \/ EnterBackend(r) \/ Acquire(r)
        PROVE  AliasInv'
    BY <1>0, <1>3
    DEF Send, Unreachable, NoVmAttached, FileMissing, EnterBackend, Acquire
  <1>4. ASSUME NEW r \in Requests,
               \/ RejectEarly(r) \/ LookupFails(r) \/ Unlock(r) \/ Respond(r)
        PROVE  AliasInv'
    BY <1>0, <1>4 DEF RejectEarly, LookupFails, Unlock, Respond
  <1>5. ASSUME NEW r \in Requests,
               Convert(r) \/ BeginScript(r) \/ DestroyViews(r)
        PROVE  AliasInv'
    <2>1. Prepared(r).state = "alias" => Local(r)
      BY DEF Prepared
    <2> QED
      BY <1>0, <1>1, <1>5, <2>1 DEF Convert, BeginScript, DestroyViews
  <1>6. ASSUME NEW r \in Requests, NEW ok \in BOOLEAN, NEW wrote \in BOOLEAN,
               EndScript(r, ok, wrote)
        PROVE  AliasInv'
    <2>1. \A s \in Requests : view'[s].state = view[s].state
      <3>1. view' = view \/ \E d : view' = [view EXCEPT ![r].data = d]
        BY <1>6 DEF EndScript, WriteView
      <3>2. view[r] \in Views
        OBVIOUS
      <3>3. \A d : [view[r] EXCEPT !.data = d].state = view[r].state
        BY <3>2 DEF Views
      <3>4. ASSUME NEW d, view' = [view EXCEPT ![r].data = d], NEW s \in Requests
            PROVE  view'[s].state = view[s].state
        BY <3>3, <3>4
      <3> QED
        BY <3>1, <3>4
    <2>2. UNCHANGED call
      BY <1>6 DEF EndScript
    <2> QED
      BY <2>1, <2>2
  <1>7. ASSUME NEW r \in Requests, Fault(r) PROVE AliasInv'
    <2>1. UNCHANGED call
      BY <1>7 DEF Fault, ConversionThrows, ScriptFetchThrows,
         ReturnValueThrows, PushThrows, ArgumentOverrun, DanglingWrite
    <2>2. \/ view' = view
          \/ \E v \in {NoView, Unfetched(r), view[r]} :
                view' = [view EXCEPT ![r] = v]
      BY <1>7 DEF Fault, Throw, ConversionThrows, ScriptFetchThrows,
         ReturnValueThrows, PushThrows, ArgumentOverrun, DanglingWrite
    <2>3. \A v \in {NoView, Unfetched(r), view[r]} :
              v.state = "alias" => Local(r)
      BY DEF Unfetched
    <2> QED
      BY <1>0, <1>1, <2>1, <2>2, <2>3
  <1>8. CASE UNCHANGED vars
    BY <1>0, <1>8 DEF vars
  <1> QED
    BY <1>2, <1>3, <1>4, <1>5, <1>6, <1>7, <1>8
    DEF Next, HandlerStep, Finished

(* Memory changes when a script writes in place, or when a view is pushed  *)
(* back: only on behalf of a request that may write and has no answer yet. *)
LEMMA QuietStepBuffers ==
    ASSUME TypeOK, AnsweredInv, AliasInv, [Next]_vars, NEW b \in Buffers
    PROVE  OnlyPendingWritersTouch(b)
  <1> USE DEF OnlyPendingWritersTouch, Goto, providerVars, dataVars
  <1>1. ASSUME NEW p \in Providers, ConstructorStep(p) PROVE UNCHANGED memory
    BY <1>1 DEF ConstructorStep, DefineRpcs, SkipVm, CreateVm, CreateVmFails
  <1>2. ASSUME NEW r \in Requests,
               \/ Send(r) \/ Unreachable(r) \/ NoVmAttached(r)
               \/ FileMissing(r) \/ EnterBackend(r) \/ Acquire(r)
               \/ RejectEarly(r) \/ BeginScript(r) \/ LookupFails(r)
               \/ Unlock(r) \/ Respond(r)
        PROVE  UNCHANGED memory
    BY <1>2 DEF Send, Unreachable, NoVmAttached, FileMissing, EnterBackend,
       Acquire, RejectEarly, BeginScript, LookupFails, Unlock, Respond
  <1>3. ASSUME NEW r \in Requests, NEW v, pc[r] # "done",
               memory' = PushedBack(r, v)
        PROVE  OnlyPendingWritersTouch(b)
    <2>1. ~Answered(r)
      BY <1>3 DEF AnsweredInv
    <2> QED
      BY <1>3, <2>1 DEF PushedBack, TypeOK
  <1>4. ASSUME NEW r \in Requests, Convert(r)
        PROVE  OnlyPendingWritersTouch(b)
    BY <1>3, <1>4 DEF Convert
  <1>5. ASSUME NEW r \in Requests, DestroyViews(r)
        PROVE  OnlyPendingWritersTouch(b)
    BY <1>3, <1>5 DEF DestroyViews
  <1>6. ASSUME NEW r \in Requests, NEW ok \in BOOLEAN, NEW wrote \in BOOLEAN,
               EndScript(r, ok, wrote)
        PROVE  OnlyPendingWritersTouch(b)
    <2>1. ~Answered(r)
      BY <1>6 DEF EndScript, AnsweredInv
    <2>2. CASE UNCHANGED memory
      BY <2>2
    <2>3. CASE /\ view[r].state = "alias"
               /\ \E new : memory' = [memory EXCEPT ![call[r].buffer] = new]
      BY <2>1, <2>3 DEF AliasInv, TypeOK
    <2> QED
      BY <1>6, <2>2, <2>3 DEF EndScript, WriteView
  <1>7. ASSUME NEW r \in Requests, Fault(r) PROVE UNCHANGED memory
    BY <1>7 DEF Fault, ConversionThrows, ScriptFetchThrows,
       ReturnValueThrows, PushThrows, ArgumentOverrun, DanglingWrite
  <1>8. CASE UNCHANGED vars
    BY <1>8 DEF vars
  <1> QED
    BY <1>1, <1>2, <1>4, <1>5, <1>6, <1>7, <1>8
    DEF Next, HandlerStep, Finished

(* A client owns its buffers again once the futures of the requests that   *)
(* carry them are ready: the views die, and push, before auto_respond      *)
(* sends the answer.                                                       *)
THEOREM BuffersQuiet == Spec => AnsweredBuffersQuiet
  <1> DEFINE IInv == TypeOK /\ AnsweredInv /\ AliasInv
  <1>1. Init => IInv
    <2> SUFFICES ASSUME Init PROVE IInv
      OBVIOUS
    <2>1. TypeOK
      BY InitType
    <2>2. AnsweredInv /\ AliasInv
      BY DEF Init, Idle, AnsweredInv, AliasInv, Answered, NoView
    <2> QED
      BY <2>1, <2>2
  <1>2. IInv /\ [Next]_vars => IInv'
    BY NextType, AnsweredStep, AliasStep
  <1>3. IInv /\ [Next]_vars
            => [\A b \in Buffers : OnlyPendingWritersTouch(b)]_vars
    BY QuietStepBuffers
  <1> QED
    BY <1>1, <1>2, <1>3, PTL DEF Spec, AnsweredBuffersQuiet
=============================================================================
