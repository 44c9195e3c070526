-------------------------- MODULE PoesieBufferProofs --------------------------
(***************************************************************************)
(* What clients find in their buffers and in the global state of Jx9 after *)
(* an answer.                                                              *)
(***************************************************************************)
EXTENDS PoesieDataProofs

-----------------------------------------------------------------------------
(* The steps, by what they do to data                                      *)

(* Nothing that a client or a script could see changes: a constructor, or   *)
(* the end of the process.                                                  *)
NoData == UNCHANGED <<vm, memory, pc, seen, view, result, response>>

(* A handler before the conversion of its arguments.                        *)
EarlyMove(r) ==
    /\ UNCHANGED <<vm, memory, seen, view, response>>
    /\ pc[r] \in {"idle", "queued", "lock", "convert"}
    /\ \/ /\ \E l \in {"queued", "lock", "convert"} : pc' = [pc EXCEPT ![r] = l]
          /\ UNCHANGED result
       \/ /\ pc[r] # "idle"
          /\ \E l \in {"respond", "unlock"} : pc' = [pc EXCEPT ![r] = l]
          /\ result' = [result EXCEPT ![r] = ErrorResult]

(* An exception leaves the backend, and the process survives it.            *)
Unwinds(r) ==
    /\ ~UncaughtTerminates /\ pc[r] \in {"convert", "running"}
    /\ pc' = [pc EXCEPT ![r] = "destroy"] /\ result' = [result EXCEPT ![r] = Thrown]
    /\ \E v \in {NoView, view[r]} \cup {Unfetched(s) : s \in {r} \cap {t \in Requests : HasView(t)}} :
          view' = [view EXCEPT ![r] = v]
    /\ \/ UNCHANGED vm
       \/ Kind(r) = "python" /\ vm' = [vm EXCEPT ![Vm(r)] = Append(seen[r], r)]
    /\ UNCHANGED <<memory, seen, response>>

LEMMA Steps ==
    ASSUME TypeOK, [Next]_vars
    PROVE  /\ UNCHANGED call
           /\ \/ NoData
              \/ \E r \in Requests :
                    \/ EarlyMove(r) \/ Convert(r) \/ BeginScript(r) \/ LookupFails(r)
                    \/ \E ok, wrote \in BOOLEAN : EndScript(r, ok, wrote)
                    \/ DestroyViews(r) \/ Unlock(r) \/ Respond(r) \/ Unwinds(r)
  <1> USE DEF Goto, SetResult, providerVars, dataVars
  <1>1. ASSUME NEW p \in Providers, ConstructorStep(p) PROVE UNCHANGED call /\ NoData
    BY <1>1 DEF NoData, ConstructorStep, DefineRpcs, SkipVm, CreateVm, CreateVmFails
  <1>2. ASSUME NEW r \in Requests,
               \/ Send(r) \/ Unreachable(r) \/ NoVmAttached(r) \/ FileMissing(r)
               \/ EnterBackend(r) \/ Acquire(r) \/ RejectEarly(r)
        PROVE  UNCHANGED call /\ EarlyMove(r)
    BY <1>2 DEF EarlyMove, Send, Unreachable, NoVmAttached, FileMissing,
       EnterBackend, Acquire, RejectEarly
  <1>3. ASSUME NEW r \in Requests,
               \/ Convert(r) \/ BeginScript(r) \/ LookupFails(r)
               \/ \E ok, wrote \in BOOLEAN : EndScript(r, ok, wrote)
               \/ DestroyViews(r) \/ Unlock(r) \/ Respond(r)
        PROVE  UNCHANGED call
    BY <1>3 DEF Convert, BeginScript, LookupFails, EndScript, DestroyViews,
       Unlock, Respond
  <1>4. ASSUME NEW r \in Requests, Fault(r)
        PROVE  UNCHANGED call /\ (NoData \/ Unwinds(r))
    <2>1. CASE UncaughtTerminates \/ PushThrows(r) \/ ArgumentOverrun(r) \/ DanglingWrite(r)
      BY <1>4, <2>1 DEF NoData, Fault, Throw, ConversionThrows, ScriptFetchThrows,
         ReturnValueThrows, PushThrows, ArgumentOverrun, DanglingWrite
    <2>2. CASE ~UncaughtTerminates /\ ConversionThrows(r)
      BY <2>2 DEF ConversionThrows, Throw, Unwinds
    <2>3. CASE ~UncaughtTerminates /\ ScriptFetchThrows(r)
      BY <2>3 DEF ScriptFetchThrows, Throw, Unwinds
    <2>4. CASE ~UncaughtTerminates /\ ReturnValueThrows(r)
      BY <2>4 DEF ReturnValueThrows, Throw, Unwinds
    <2> QED
      BY <1>4, <2>1, <2>2, <2>3, <2>4 DEF Fault
  <1>5. CASE UNCHANGED vars
    BY <1>5 DEF vars, NoData
  <1> QED
    BY <1>1, <1>2, <1>3, <1>4, <1>5 DEF Next, HandlerStep, Finished

(* What depends on the calls only stays.                                    *)
LEMMA SameDiscipline ==
    ASSUME UNCHANGED call
    PROVE  /\ \A r \in Requests : /\ Kind(r)' = Kind(r) /\ Vm(r)' = Vm(r)
                                  /\ HasView(r)' = HasView(r) /\ Local(r)' = Local(r)
                                  /\ WritesBack(r)' = WritesBack(r)
                                  /\ ViewOutlivesLock(r)' = ViewOutlivesLock(r)
                                  /\ MutexOf(r)' = MutexOf(r)
           /\ \A b : Serialised(b)' = Serialised(b) /\ NotFilled(b)' = NotFilled(b)
  BY DEF Kind, Vm, HasView, Local, WritesBack, ViewOutlivesLock, MutexOf,
     Serialised, Writers, NotFilled
-----------------------------------------------------------------------------
(* Answers *)

LEMMA ReplyStep ==
    ASSUME TypeOK, ReplyInv, [Next]_vars
    PROVE  ReplyInv'
  <1> USE DEF TypeOK, Goto, SetResult, providerVars, dataVars
  <1>1. ASSUME UNCHANGED <<response>>, NEW r \in Requests, pc[r] # "done",
               \A s \in Requests : s # r => pc'[s] = pc[s] /\ result'[s] = result[s]
        PROVE  ReplyInv'
    BY <1>1 DEF ReplyInv, Answered
  <1>2. ASSUME NoData PROVE ReplyInv'
    BY <1>2 DEF NoData, ReplyInv, Answered
  <1>3. ASSUME NEW r \in Requests,
               \/ EarlyMove(r) \/ Convert(r) \/ BeginScript(r) \/ LookupFails(r)
               \/ \E ok, wrote \in BOOLEAN : EndScript(r, ok, wrote)
               \/ DestroyViews(r) \/ Unlock(r) \/ Unwinds(r)
        PROVE  ReplyInv'
    <2>1. /\ UNCHANGED response /\ pc[r] # "done"
          /\ \A s \in Requests : s # r => pc'[s] = pc[s] /\ result'[s] = result[s]
      BY <1>3 DEF EarlyMove, Convert, BeginScript, LookupFails, EndScript,
         DestroyViews, Unlock, Unwinds
    <2> QED
      BY <1>1, <2>1
  <1>4. ASSUME NEW r \in Requests, Respond(r) PROVE ReplyInv'
    BY <1>4 DEF Respond, ReplyInv, Answered
  <1> QED
    BY <1>2, <1>3, <1>4, Steps
-----------------------------------------------------------------------------
(* The global state of Jx9 *)

(* A script that is over stays so, with the result it has.                  *)
LEMMA ServedStays ==
    ASSUME TypeOK, [Next]_vars, NEW s \in Requests, Served(s)
    PROVE  Served(s)' /\ result'[s] = result[s]
  <1> USE DEF Served, TypeOK, Goto, SetResult, providerVars, dataVars
  <1>1. ASSUME NoData PROVE Served(s)' /\ result'[s] = result[s]
    BY <1>1 DEF NoData
  <1>2. ASSUME NEW r \in Requests,
               \/ EarlyMove(r) \/ Convert(r) \/ BeginScript(r) \/ LookupFails(r)
               \/ \E ok, wrote \in BOOLEAN : EndScript(r, ok, wrote)
               \/ Unwinds(r)
        PROVE  Served(s)' /\ result'[s] = result[s]
    <2>1. /\ r # s
          /\ \A t \in Requests : t # r => pc'[t] = pc[t] /\ result'[t] = result[t]
      BY <1>2 DEF EarlyMove, Convert, BeginScript, LookupFails, EndScript, Unwinds
    <2> QED
      BY <2>1
  <1>3. ASSUME NEW r \in Requests, DestroyViews(r) \/ Unlock(r) \/ Respond(r)
        PROVE  Served(s)' /\ result'[s] = result[s]
    BY <1>3 DEF DestroyViews, Unlock, Respond
  <1> QED
    BY <1>1, <1>2, <1>3, Steps

(* Interpreters and scripts remember what they did, and the script that     *)
(* ends: in Jx9, one that succeeds.                                         *)
LEMMA MemoriesGrow ==
    ASSUME TypeOK, [Next]_vars
    PROVE  \/ UNCHANGED <<vm, seen>>
           \/ \E r \in Requests : UNCHANGED vm /\ seen' = [seen EXCEPT ![r] = vm[Vm(r)]]
           \/ \E r \in Requests :
                 /\ UNCHANGED seen
                 /\ vm' = [vm EXCEPT ![Vm(r)] = Append(seen[r], r)]
                 /\ Kind(r) = "jx9" => Served(r)' /\ result'[r].status = "ok"
  <1> USE DEF Goto, SetResult, providerVars, dataVars
  <1>1. ASSUME NEW r \in Requests,
               \/ EarlyMove(r) \/ Convert(r) \/ LookupFails(r)
               \/ DestroyViews(r) \/ Unlock(r) \/ Respond(r)
        PROVE  UNCHANGED <<vm, seen>>
    BY <1>1 DEF EarlyMove, Convert, LookupFails, DestroyViews, Unlock, Respond
  <1>2. ASSUME NEW r \in Requests, NEW ok \in BOOLEAN, NEW wrote \in BOOLEAN,
               EndScript(r, ok, wrote)
        PROVE  /\ UNCHANGED seen
               /\ \/ UNCHANGED vm
                  \/ /\ vm' = [vm EXCEPT ![Vm(r)] = Append(seen[r], r)]
                     /\ Kind(r) = "jx9" => Served(r)' /\ result'[r].status = "ok"
    <2>1. Served(r)'
      BY <1>2 DEF EndScript, AfterScript, Served, TypeOK
    <2>2. ok => result'[r].status = "ok"
      BY <1>2 DEF EndScript, TypeOK
    <2> QED
      BY <1>2, <2>1, <2>2 DEF EndScript
  <1>3. ASSUME NEW r \in Requests, Unwinds(r)
        PROVE  /\ UNCHANGED seen
               /\ \/ UNCHANGED vm
                  \/ /\ vm' = [vm EXCEPT ![Vm(r)] = Append(seen[r], r)]
                     /\ Kind(r) # "jx9"
    BY <1>3 DEF Unwinds
  <1> QED
    BY <1>1, <1>2, <1>3, Steps DEF NoData, BeginScript

LEMMA RememberedBefore ==
    ASSUME NEW S, NEW h \in Seq(S), NEW x, NEW r, Remembers(Append(h, x), r)
    PROVE  Remembers(h, r) \/ r = x
  <1>1. PICK i \in 1 .. Len(h) + 1 : Append(h, x)[i] = r
    BY DEF Remembers
  <1>2. CASE i = Len(h) + 1
    BY <1>1, <1>2
  <1>3. CASE i \in 1 .. Len(h)
    BY <1>1, <1>3 DEF Remembers
  <1> QED
    BY <1>2, <1>3

LEMMA TraceStep ==
    ASSUME TypeOK, TraceInv, [Next]_vars
    PROVE  TraceInv'
  <1> SUFFICES ASSUME NEW t \in Requests, Kind(t)' = "jx9"
               PROVE  /\ \A p \in Providers : Remembers(vm'[p], t)
                             => Served(t)' /\ result'[t].status = "ok"
                      /\ \A s \in Requests : Remembers(seen'[s], t)
                             => Served(t)' /\ result'[t].status = "ok"
    BY DEF TraceInv, Remembers
  <1>1. Kind(t) = "jx9"
    BY Steps, SameDiscipline
  <1>2. ASSUME \/ \E p \in Providers : Remembers(vm[p], t)
               \/ \E s \in Requests : Remembers(seen[s], t)
        PROVE  Served(t)' /\ result'[t].status = "ok"
    BY <1>1, <1>2, ServedStays DEF TraceInv
  <1>3. CASE UNCHANGED <<vm, seen>>
    BY <1>2, <1>3
  <1>4. ASSUME NEW r \in Requests, UNCHANGED vm, seen' = [seen EXCEPT ![r] = vm[Vm(r)]]
        PROVE  /\ \A p \in Providers : Remembers(vm'[p], t)
                      => Served(t)' /\ result'[t].status = "ok"
               /\ \A s \in Requests : Remembers(seen'[s], t)
                      => Served(t)' /\ result'[t].status = "ok"
    <2>1. \A s \in Requests : seen'[s] \in {seen[s], vm[Vm(r)]}
      BY <1>4 DEF TypeOK
    <2>2. Vm(r) \in Providers
      BY CallType
    <2> QED
      BY <1>2, <1>4, <2>1, <2>2
  <1>5. ASSUME NEW r \in Requests, UNCHANGED seen,
               vm' = [vm EXCEPT ![Vm(r)] = Append(seen[r], r)],
               Kind(r) = "jx9" => Served(r)' /\ result'[r].status = "ok"
        PROVE  /\ \A p \in Providers : Remembers(vm'[p], t)
                      => Served(t)' /\ result'[t].status = "ok"
               /\ \A s \in Requests : Remembers(seen'[s], t)
                      => Served(t)' /\ result'[t].status = "ok"
    <2>1. \A p \in Providers : vm'[p] \in {vm[p], Append(seen[r], r)}
      BY <1>5 DEF TypeOK
    <2>2. seen[r] \in Seq(Requests)
      BY DEF TypeOK
    <2>3. Remembers(Append(seen[r], r), t) => Remembers(seen[r], t) \/ t = r
      BY <2>2, RememberedBefore
    <2> QED
      BY <1>1, <1>2, <1>5, <2>1, <2>3
  <1> QED
    BY <1>3, <1>4, <1>5, MemoriesGrow

(* Jx9Vm::execute extracts __global__ into m_global only after the program  *)
(* ran to its end without an error: whatever a failing script did to it, no *)
(* later script sees.                                                       *)
THEOREM FailuresLeaveGlobal == Spec => []FailedJx9LeavesGlobal
  <1> DEFINE IInv == TypeOK /\ ReplyInv /\ TraceInv
  <1>1. Init => IInv
    <2> SUFFICES ASSUME Init PROVE IInv
      OBVIOUS
    <2>1. ReplyInv
      BY DEF Init, Idle, ReplyInv, Answered
    <2>2. TraceInv
      BY DEF Init, Idle, TraceInv, Remembers
    <2> QED
      BY <2>1, <2>2, InitType
  <1>2. IInv /\ [Next]_vars => IInv'
    BY NextType, ReplyStep, TraceStep
  <1>3. IInv => FailedJx9LeavesGlobal
    <2> SUFFICES ASSUME IInv, NEW r \in Requests, Kind(r) = "jx9",
                        response[r].status = "error",
                        Remembers(vm[Vm(r)], r)
                 PROVE  FALSE
      BY DEF FailedJx9LeavesGlobal, Remembers
    <2>1. Answered(r)
      BY DEF Answered, NoResponse
    <2>2. result[r].status = "ok"
      BY CallType DEF TraceInv
    <2> QED
      BY <2>1, <2>2 DEF ReplyInv, Thrown, DefaultResult
  <1> QED
    BY <1>1, <1>2, <1>3, PTL DEF Spec
-----------------------------------------------------------------------------
(* What the operators on views do                                          *)

LEMMA PreparedView ==
    ASSUME TypeOK, NEW r \in Requests, HasView(r)
    PROVE  /\ Local(r) => Prepared(r).state = "alias"
           /\ ~Local(r) => /\ Prepared(r).state = "copy"
                           /\ Prepared(r).data = IF call[r].intent = "OUT" THEN {Unfilled}
                                                 ELSE memory[call[r].buffer]
  BY DEF Prepared

(* A buffer keeps its content unless the view of r is pushed back into it.  *)
LEMMA PushedBackValue ==
    ASSUME TypeOK, NEW r \in Requests, NEW v, NEW b \in Buffers
    PROVE  \/ /\ PushedBack(r, v)[b] = memory[b]
              /\ ~(v.state = "copy" /\ WritesBack(r) /\ call[r].buffer = b)
           \/ /\ v.state = "copy" /\ WritesBack(r) /\ call[r].buffer = b
              /\ PushedBack(r, v)[b] = v.data
  BY DEF PushedBack, TypeOK

(* A script adds itself to its copy, or to the buffer if it works in place. *)
NewContent(r, old) == IF call[r].intent = "OUT" THEN {r} ELSE old \cup {r}

Writes(r) ==
    /\ \A s \in Requests : s # r => view'[s] = view[s]
    /\ view'[r].state = view[r].state
    /\ view[r].state = "copy" => view'[r].data = NewContent(r, view[r].data)
    /\ \A b \in Buffers :
          \/ /\ memory'[b] = memory[b]
             /\ ~(view[r].state = "alias" /\ call[r].buffer = b)
          \/ /\ view[r].state = "alias" /\ call[r].buffer = b
             /\ memory'[b] = NewContent(r, memory[b])

LEMMA WriteViewWrites ==
    ASSUME TypeOK, NEW r \in Requests, WriteView(r)
    PROVE  Writes(r)
  <1>1. view[r] \in Views
    BY DEF TypeOK
  <1>2. CASE view[r].state = "copy"
    <2>1. /\ view' = [view EXCEPT ![r].data = NewContent(r, view[r].data)]
          /\ UNCHANGED memory
      BY <1>2 DEF WriteView, NewContent
    <2>2. view'[r] = [view[r] EXCEPT !.data = NewContent(r, view[r].data)]
      BY <2>1 DEF TypeOK
    <2> QED
      BY <1>1, <1>2, <2>1, <2>2 DEF Writes, TypeOK, Views
  <1>3. CASE view[r].state = "alias"
    BY <1>3 DEF WriteView, Writes, NewContent, TypeOK
  <1>4. CASE view[r].state \notin {"copy", "alias"}
    BY <1>4 DEF WriteView, Writes
  <1> QED
    BY <1>2, <1>3, <1>4

(* Who touches buffers and views, in a process that ends with an exception  *)
(* that nobody catches.                                                     *)
Takes(r) ==
    /\ pc[r] \in {"convert", "begin"} /\ HasView(r)
    /\ view' = [view EXCEPT ![r] = Prepared(r)] /\ UNCHANGED memory

Loses(r) ==
    /\ pc[r] = "convert" /\ HasView(r) /\ ~Local(r) /\ Kind(r) = "javascript"
    /\ view' = [view EXCEPT ![r] = [state |-> "dangling", data |-> {}]]
    /\ memory' = PushedBack(r, Prepared(r))

Returns(r) ==
    /\ view' = [view EXCEPT ![r] = NoView] /\ memory' = PushedBack(r, view[r])

LEMMA BufferSteps ==
    ASSUME TypeOK, [Next]_vars
    PROVE  \/ UNCHANGED <<view, memory>>
           \/ \E r \in Requests :
                 \/ Takes(r) \/ Loses(r) \/ Returns(r)
                 \/ pc[r] = "running" /\ Served(r)' /\ Writes(r)
                 \/ Unwinds(r)
  <1> USE DEF Goto, SetResult, providerVars, dataVars
  <1>1. ASSUME NEW r \in Requests, Convert(r)
        PROVE  UNCHANGED <<view, memory>> \/ Takes(r) \/ Loses(r)
    BY <1>1 DEF Convert, Takes, Loses, ViewDiesInConversion
  <1>2. ASSUME NEW r \in Requests, BeginScript(r)
        PROVE  UNCHANGED <<view, memory>> \/ Takes(r)
    BY <1>2 DEF BeginScript, Takes
  <1>3. ASSUME NEW r \in Requests, NEW ok \in BOOLEAN, NEW wrote \in BOOLEAN,
               EndScript(r, ok, wrote)
        PROVE  UNCHANGED <<view, memory>> \/ (pc[r] = "running" /\ Served(r)' /\ Writes(r))
    <2>1. pc[r] = "running" /\ Served(r)'
      BY <1>3 DEF EndScript, AfterScript, Served, TypeOK
    <2> QED
      BY <1>3, <2>1, WriteViewWrites DEF EndScript
  <1>4. ASSUME NEW r \in Requests, DestroyViews(r) PROVE Returns(r)
    BY <1>4 DEF DestroyViews, Returns
  <1>5. ASSUME NEW r \in Requests,
               EarlyMove(r) \/ LookupFails(r) \/ Unlock(r) \/ Respond(r)
        PROVE  UNCHANGED <<view, memory>>
    BY <1>5 DEF EarlyMove, LookupFails, Unlock, Respond
  <1> QED
    BY <1>1, <1>2, <1>3, <1>4, <1>5, Steps DEF NoData
-----------------------------------------------------------------------------
(* Uninitialised bytes *)

LEMMA UnfilledStep ==
    ASSUME UncaughtTerminates, TypeOK, UnfilledInv, [Next]_vars
    PROVE  UnfilledInv'
  <1> SUFFICES ASSUME NEW b \in Buffers, NotFilled(b)
               PROVE  /\ Unfilled \notin memory'[b]
                      /\ \A r \in Requests :
                            call[r].buffer = b /\ view'[r].state = "copy"
                               => Unfilled \notin view'[r].data
    BY Steps, SameDiscipline DEF UnfilledInv
  <1>0. /\ Unfilled \notin memory[b]
        /\ \A r \in Requests : call[r].buffer = b /\ view[r].state = "copy"
                                 => Unfilled \notin view[r].data
    BY DEF UnfilledInv
  <1>1. ASSUME NEW r \in Requests, call[r].buffer = b
        PROVE  /\ call[r].intent # "OUT" /\ HasView(r) /\ r # Unfilled
               /\ \A old : Unfilled \notin old => Unfilled \notin NewContent(r, old)
    BY <1>1, UnfilledAssumption, NoBufferAssumption DEF NotFilled, HasView, NewContent
  <1>2. ASSUME NEW r \in Requests, call[r].buffer = b, Prepared(r).state = "copy"
        PROVE  Unfilled \notin Prepared(r).data
    BY <1>0, <1>1, <1>2, PreparedView
  <1>3. CASE UNCHANGED <<view, memory>>
    BY <1>0, <1>3
  <1>4. ASSUME NEW r \in Requests, Takes(r)
        PROVE  /\ Unfilled \notin memory'[b]
               /\ \A s \in Requests : call[s].buffer = b /\ view'[s].state = "copy"
                                        => Unfilled \notin view'[s].data
    BY <1>0, <1>2, <1>4 DEF Takes, TypeOK
  <1>5. ASSUME NEW r \in Requests, Loses(r)
        PROVE  /\ Unfilled \notin memory'[b]
               /\ \A s \in Requests : call[s].buffer = b /\ view'[s].state = "copy"
                                        => Unfilled \notin view'[s].data
    <2>1. Unfilled \notin memory'[b]
      BY <1>0, <1>2, <1>5, PushedBackValue DEF Loses
    <2> QED
      BY <1>0, <1>5, <2>1 DEF Loses, TypeOK
  <1>6. ASSUME NEW r \in Requests, Returns(r)
        PROVE  /\ Unfilled \notin memory'[b]
               /\ \A s \in Requests : call[s].buffer = b /\ view'[s].state = "copy"
                                        => Unfilled \notin view'[s].data
    <2>1. Unfilled \notin memory'[b]
      BY <1>0, <1>6, PushedBackValue DEF Returns
    <2> QED
      BY <1>0, <1>6, <2>1 DEF Returns, NoView, TypeOK
  <1>7. ASSUME NEW r \in Requests, Writes(r)
        PROVE  /\ Unfilled \notin memory'[b]
               /\ \A s \in Requests : call[s].buffer = b /\ view'[s].state = "copy"
                                        => Unfilled \notin view'[s].data
    <2>1. Unfilled \notin memory'[b]
      BY <1>0, <1>1, <1>7 DEF Writes
    <2> QED
      BY <1>0, <1>1, <1>7, <2>1 DEF Writes
  <1> QED
    BY <1>3, <1>4, <1>5, <1>6, <1>7, BufferSteps DEF Unwinds

(* prepareLocalData fetches every buffer that is not OUT before it exposes  *)
(* it: the uninitialised bytes of a new allocation are never pushed over    *)
(* what a client sent, unless someone lends the buffer as OUT.              *)
THEOREM NothingUnfilledReturns ==
    ASSUME UncaughtTerminates
    PROVE  Spec => []NoUnfilledBytes
  <1> DEFINE IInv == TypeOK /\ UnfilledInv
  <1>1. Init => IInv
    BY InitType DEF Init, Idle, UnfilledInv, NoView
  <1>2. IInv /\ [Next]_vars => IInv'
    BY NextType, UnfilledStep
  <1>3. IInv => NoUnfilledBytes
    BY DEF UnfilledInv, NoUnfilledBytes, NotFilled
  <1> QED
    BY <1>1, <1>2, <1>3, PTL DEF Spec
-----------------------------------------------------------------------------
(* The life of a view *)

LEMMA CopyStep ==
    ASSUME TypeOK, CopyInv, [Next]_vars
    PROVE  CopyInv'
  <1> SUFFICES ASSUME NEW s \in Requests
               PROVE  /\ view'[s].state \in {"copy", "dangling"} => HasView(s) /\ ~Local(s)
                      /\ view'[s].state = "dangling" => Kind(s) = "javascript"
    BY Steps, SameDiscipline DEF CopyInv
  <1>1. ASSUME view'[s] = view[s] \/ view'[s].state \in {"none", "alias", view[s].state}
        PROVE  /\ view'[s].state \in {"copy", "dangling"} => HasView(s) /\ ~Local(s)
               /\ view'[s].state = "dangling" => Kind(s) = "javascript"
    BY <1>1 DEF CopyInv
  <1>2. CASE UNCHANGED <<view, memory>>
    BY <1>1, <1>2
  <1>4. ASSUME NEW r \in Requests, Takes(r)
        PROVE  /\ view'[s].state \in {"copy", "dangling"} => HasView(s) /\ ~Local(s)
               /\ view'[s].state = "dangling" => Kind(s) = "javascript"
    <2>1. CASE s # r
      BY <1>1, <1>4, <2>1 DEF Takes, TypeOK
    <2>2. CASE s = r
      BY <1>4, <2>2, PreparedView DEF Takes, TypeOK
    <2> QED
      BY <2>1, <2>2
  <1>5. ASSUME NEW r \in Requests, Loses(r)
        PROVE  /\ view'[s].state \in {"copy", "dangling"} => HasView(s) /\ ~Local(s)
               /\ view'[s].state = "dangling" => Kind(s) = "javascript"
    BY <1>1, <1>5 DEF Loses, TypeOK
  <1>6. ASSUME NEW r \in Requests, Returns(r)
        PROVE  /\ view'[s].state \in {"copy", "dangling"} => HasView(s) /\ ~Local(s)
               /\ view'[s].state = "dangling" => Kind(s) = "javascript"
    BY <1>1, <1>6 DEF Returns, NoView, TypeOK
  <1>7. ASSUME NEW r \in Requests, Writes(r)
        PROVE  /\ view'[s].state \in {"copy", "dangling"} => HasView(s) /\ ~Local(s)
               /\ view'[s].state = "dangling" => Kind(s) = "javascript"
    BY <1>1, <1>7 DEF Writes
  <1>8. ASSUME NEW r \in Requests, Unwinds(r)
        PROVE  /\ view'[s].state \in {"copy", "dangling"} => HasView(s) /\ ~Local(s)
               /\ view'[s].state = "dangling" => Kind(s) = "javascript"
    <2>1. CASE s # r
      BY <1>1, <1>8, <2>1 DEF Unwinds, TypeOK
    <2>2. CASE s = r
      <3>1. \/ view'[r] = NoView \/ view'[r] = view[r]
            \/ HasView(r) /\ view'[r] = Unfetched(r)
        BY <1>8 DEF Unwinds, TypeOK
      <3> QED
        BY <1>1, <2>2, <3>1 DEF Unfetched, NoView
    <2> QED
      BY <2>1, <2>2
  <1> QED
    BY <1>2, <1>4, <1>5, <1>6, <1>7, <1>8, BufferSteps

LEMMA PlaceStep ==
    ASSUME TypeOK, ViewPlace, [Next]_vars
    PROVE  ViewPlace'
  <1> DEFINE Placed(s) == view'[s].state # "none" =>
                \/ pc'[s] \in {"begin", "running", "destroy"}
                \/ pc'[s] = "unlock" /\ ViewOutlivesLock(s)
  <1> SUFFICES ASSUME NEW s \in Requests PROVE Placed(s)
    BY Steps, SameDiscipline DEF ViewPlace
  <1> USE DEF Goto, SetResult, providerVars, dataVars
  <1>1. ASSUME view'[s] = view[s], pc'[s] = pc[s] PROVE Placed(s)
    BY <1>1 DEF ViewPlace
  <1>2. ASSUME NoData PROVE Placed(s)
    BY <1>1, <1>2 DEF NoData
  <1>3. ASSUME NEW r \in Requests, s # r,
               \/ EarlyMove(r) \/ Convert(r) \/ BeginScript(r) \/ LookupFails(r)
               \/ DestroyViews(r) \/ Unlock(r) \/ Respond(r) \/ Unwinds(r)
        PROVE  Placed(s)
    BY <1>1, <1>3 DEF TypeOK, EarlyMove, Convert, BeginScript, LookupFails,
       DestroyViews, Unlock, Respond, Unwinds
  <1>4. ASSUME NEW r \in Requests, NEW ok \in BOOLEAN, NEW wrote \in BOOLEAN,
               EndScript(r, ok, wrote)
        PROVE  Placed(s)
    <2>1. pc' = [pc EXCEPT ![r] = AfterScript(r)]
      BY <1>4 DEF EndScript
    <2>2. CASE s = r
      BY <2>1, <2>2 DEF AfterScript, TypeOK
    <2>3. CASE s # r
      <3>1. view'[s] = view[s]
        BY <1>4, <2>3, WriteViewWrites DEF EndScript, Writes
      <3> QED
        BY <1>1, <2>1, <2>3, <3>1 DEF TypeOK
    <2> QED
      BY <2>2, <2>3
  <1>5. CASE EarlyMove(s)
    <2>1. view[s].state = "none" /\ view'[s] = view[s]
      BY <1>5 DEF EarlyMove, ViewPlace
    <2> QED
      BY <2>1
  <1>6. CASE Convert(s) \/ BeginScript(s) \/ LookupFails(s) \/ Unwinds(s)
    BY <1>6 DEF Convert, BeginScript, LookupFails, Unwinds, TypeOK
  <1>7. CASE DestroyViews(s)
    BY <1>7 DEF DestroyViews, NoView, TypeOK
  <1>8. CASE Unlock(s) \/ Respond(s)
    BY <1>8 DEF Unlock, Respond, ViewPlace, TypeOK
  <1> QED
    BY <1>2, <1>3, <1>4, <1>5, <1>6, <1>7, <1>8, Steps

(* Among writers that take turns, one has a view.                           *)
LEMMA OneView ==
    ASSUME TypeOK, HolderInv, ViewPlace, NEW b, Serialised(b),
           NEW r \in Writers(b), NEW s \in Writers(b),
           view[r].state # "none", view[s].state # "none"
    PROVE  r = s
  <1> SUFFICES ASSUME r # s PROVE FALSE
    OBVIOUS
  <1>1. r \in Requests /\ s \in Requests
    BY DEF Writers
  <1>2. MutexOf(r) = MutexOf(s) /\ ~ViewOutlivesLock(r) /\ ~ViewOutlivesLock(s)
    BY DEF Serialised
  <1>3. Holds(r) /\ Holds(s)
    BY <1>1, <1>2 DEF ViewPlace, Holds, InVm
  <1> QED
    BY <1>1, <1>2, <1>3 DEF HolderInv

LEMMA CurrentStep ==
    ASSUME UncaughtTerminates, TypeOK, HolderInv, AliasInv, CopyInv, ViewPlace,
           CopyCurrent, [Next]_vars
    PROVE  CopyCurrent'
  <1> SUFFICES ASSUME NEW s \in Requests, NEW b, b = call[s].buffer,
                      view'[s].state = "copy", call[s].intent = "INOUT", Serialised(b)
               PROVE  memory'[b] \subseteq view'[s].data
    BY Steps, SameDiscipline DEF CopyCurrent
  <1>1. b \in Buffers /\ ~Local(s)
    <2>1. HasView(s) /\ ~Local(s)
      BY CopyStep, Steps, SameDiscipline DEF CopyInv
    <2> QED
      BY <2>1, CallType DEF HasView
  <1>2. s \in Writers(b)
    BY DEF Writers, WritesBack
  <1>3. view[s].state = "copy" => memory[b] \subseteq view[s].data
    BY DEF CopyCurrent
  <1>4. CASE UNCHANGED <<view, memory>>
    BY <1>3, <1>4
  <1>5. ASSUME NEW r \in Requests, Takes(r)
        PROVE  memory'[b] \subseteq view'[s].data
    <2>1. CASE s = r
      BY <1>1, <1>5, <2>1, PreparedView DEF Takes, TypeOK
    <2>2. CASE s # r
      BY <1>3, <1>5, <2>2 DEF Takes, TypeOK
    <2> QED
      BY <2>1, <2>2
  <1>6. ASSUME NEW r \in Requests, Loses(r)
        PROVE  memory'[b] \subseteq view'[s].data
    <2>1. r # s /\ view'[s] = view[s]
      BY <1>6 DEF Loses, TypeOK
    <2>2. memory'[b] = memory[b]
      <3>1. CASE WritesBack(r) /\ call[r].buffer = b
        <4>1. call[r].intent = "INOUT"
          BY <1>2, <2>1, <3>1 DEF Serialised, Writers
        <4> QED
          BY <1>1, <1>6, <3>1, <4>1, PushedBackValue, PreparedView DEF Loses
      <3> QED
        BY <1>1, <1>6, <3>1, PushedBackValue DEF Loses
    <2> QED
      BY <1>3, <2>1, <2>2
  <1>7. ASSUME NEW r \in Requests, Returns(r)
        PROVE  memory'[b] \subseteq view'[s].data
    <2>1. r # s /\ view'[s] = view[s]
      BY <1>7 DEF Returns, NoView, TypeOK
    <2>2. memory'[b] = memory[b]
      <3>1. ~(view[r].state = "copy" /\ WritesBack(r) /\ call[r].buffer = b)
        BY <1>2, <2>1, OneView DEF Writers
      <3> QED
        BY <1>1, <1>7, <3>1, PushedBackValue DEF Returns
    <2> QED
      BY <1>3, <2>1, <2>2
  <1>8. ASSUME NEW r \in Requests, Writes(r)
        PROVE  memory'[b] \subseteq view'[s].data
    <2>1. memory'[b] = memory[b]
      BY <1>1, <1>8 DEF Writes, AliasInv, Local
    <2>2. CASE s = r
      BY <1>3, <1>8, <2>1, <2>2 DEF Writes, NewContent
    <2>3. CASE s # r
      BY <1>3, <1>8, <2>1, <2>3 DEF Writes
    <2> QED
      BY <2>2, <2>3
  <1> QED
    BY <1>4, <1>5, <1>6, <1>7, <1>8, BufferSteps DEF Unwinds
-----------------------------------------------------------------------------
(* Write-backs *)

(* The JavaScript backend drops the views of remote buffers before the      *)
(* script runs: clients of it lend buffers of the process itself, or buffers *)
(* that the script only reads.                                              *)
JavascriptWritesLocal ==
    \A c \in Calls : BackendOf[c.provider] = "javascript" /\ c.intent # "IN" =>
        c.buffer \in LocalBuffers \cup {NoBuffer}

(* A request that becomes a success has just run its script.                *)
LEMMA JustServed ==
    ASSUME UncaughtTerminates, TypeOK, [Next]_vars, NEW s \in Requests,
           ~Served(s), Served(s)', result'[s].status = "ok"
    PROVE  \E ok, wrote \in BOOLEAN : EndScript(s, ok, wrote)
  <1> USE DEF Served, TypeOK, Goto, SetResult, providerVars, dataVars
  <1>1. ASSUME NoData PROVE FALSE
    BY <1>1 DEF NoData
  <1>2. ASSUME NEW r \in Requests, r # s,
               \/ EarlyMove(r) \/ Convert(r) \/ BeginScript(r) \/ LookupFails(r)
               \/ \E ok, wrote \in BOOLEAN : EndScript(r, ok, wrote)
               \/ DestroyViews(r) \/ Unlock(r) \/ Respond(r)
        PROVE  FALSE
    <2>1. pc'[s] = pc[s]
      BY <1>2 DEF EarlyMove, Convert, BeginScript, LookupFails, EndScript,
         DestroyViews, Unlock, Respond
    <2> QED
      BY <2>1
  <1>3. CASE EarlyMove(s) \/ LookupFails(s)
    <2>1. result'[s] = ErrorResult
      BY <1>3 DEF EarlyMove, LookupFails
    <2> QED
      BY <2>1, ResultTypes
  <1>4. CASE Convert(s) \/ BeginScript(s) \/ DestroyViews(s) \/ Unlock(s) \/ Respond(s)
    BY <1>4 DEF Convert, BeginScript, DestroyViews, Unlock, Respond
  <1> QED
    BY <1>1, <1>2, <1>3, <1>4, Steps DEF Unwinds

LEMMA VisibleStep ==
    ASSUME UncaughtTerminates, JavascriptWritesLocal, TypeOK, AliasInv, CopyInv,
           CopyCurrent, VisibleInv, [Next]_vars
    PROVE  VisibleInv'
  <1> SUFFICES ASSUME NEW s \in Requests, Served(s)', result'[s].status = "ok",
                      result'[s].wrote, WritesBack(s), NEW b, b = call[s].buffer,
                      Serialised(b)
               PROVE  /\ HasView(s)
                      /\ IF view'[s].state = "copy" THEN s \in view'[s].data
                         ELSE s \in memory'[b]
    BY Steps, SameDiscipline DEF VisibleInv, Written
  <1>1. s \in Writers(b)
    BY DEF Writers
  <1>2. CASE ~Served(s)
    <2>1. PICK ok \in BOOLEAN, wrote \in BOOLEAN : EndScript(s, ok, wrote)
      BY <1>2, JustServed
    <2>2. wrote
      BY <2>1 DEF EndScript, SetResult, ErrorResult, TypeOK
    <2>3. Writes(s) /\ view[s].state # "none"
      BY <2>1, <2>2, WriteViewWrites DEF EndScript
    <2>4. view[s].state \in {"copy", "alias"}
      <3>1. view[s].state \in {"none", "alias", "copy", "dangling"}
        BY DEF TypeOK, Views
      <3>2. call[s] \in Calls
        BY DEF TypeOK
      <3> QED
        BY <2>3, <3>1, <3>2
        DEF CopyInv, JavascriptWritesLocal, WritesBack, Kind, Vm, Local, HasView
    <2>5. HasView(s) /\ b \in Buffers
      BY <2>4, CallType, LocalBuffersAssumption, NoBufferAssumption
      DEF CopyInv, AliasInv, Local, HasView
    <2> QED
      BY <2>3, <2>4, <2>5 DEF Writes, NewContent
  <1>3. CASE Served(s)
    <2>1. /\ HasView(s) /\ b \in Buffers
          /\ IF view[s].state = "copy" THEN s \in view[s].data ELSE s \in memory[b]
      BY <1>3, ServedStays, CallType DEF VisibleInv, Written, HasView
    <2>2. pc[s] \notin {"convert", "begin", "running"}
      BY <1>3 DEF Served
    <2>3. CASE UNCHANGED <<view, memory>>
      BY <2>1, <2>3
    <2>4. ASSUME NEW r \in Requests, Takes(r)
          PROVE  IF view'[s].state = "copy" THEN s \in view'[s].data ELSE s \in memory'[b]
      BY <2>1, <2>2, <2>4 DEF Takes, TypeOK
    <2>5. ASSUME NEW r \in Requests, Loses(r)
          PROVE  IF view'[s].state = "copy" THEN s \in view'[s].data ELSE s \in memory'[b]
      <3>1. r # s /\ view'[s] = view[s]
        BY <2>2, <2>5 DEF Loses, TypeOK
      <3>2. memory'[b] = memory[b]
        <4>1. CASE WritesBack(r) /\ call[r].buffer = b
          <5>1. call[r].intent = "INOUT"
            BY <1>1, <3>1, <4>1 DEF Serialised, Writers
          <5> QED
            BY <2>1, <2>5, <4>1, <5>1, PushedBackValue, PreparedView DEF Loses
        <4> QED
          BY <2>1, <2>5, <4>1, PushedBackValue DEF Loses
      <3> QED
        BY <2>1, <3>1, <3>2
    <2>6. ASSUME NEW r \in Requests, Returns(r)
          PROVE  IF view'[s].state = "copy" THEN s \in view'[s].data ELSE s \in memory'[b]
      <3>1. CASE r = s
        BY <2>1, <2>6, <3>1, PushedBackValue DEF Returns, NoView, TypeOK
      <3>2. CASE r # s
        <4>1. view'[s] = view[s]
          BY <2>6, <3>2 DEF Returns, TypeOK
        <4>2. memory[b] \subseteq memory'[b]
          <5>1. ASSUME view[r].state = "copy", WritesBack(r), call[r].buffer = b
                PROVE  memory[b] \subseteq view[r].data
            <6>1. call[r].intent = "INOUT"
              BY <1>1, <3>2, <5>1 DEF Serialised, Writers
            <6> QED
              BY <5>1, <6>1 DEF CopyCurrent
          <5> QED
            BY <2>1, <2>6, <5>1, PushedBackValue DEF Returns
        <4> QED
          BY <2>1, <4>1, <4>2
      <3> QED
        BY <3>1, <3>2
    <2>7. ASSUME NEW r \in Requests, pc[r] = "running", Writes(r)
          PROVE  IF view'[s].state = "copy" THEN s \in view'[s].data ELSE s \in memory'[b]
      <3>1. r # s /\ view'[s] = view[s]
        BY <2>2, <2>7 DEF Writes
      <3>2. memory[b] \subseteq memory'[b]
        <4>1. call[r].intent = "OUT" => call[r].buffer # b
          BY <1>1, <3>1 DEF Serialised, Writers, WritesBack
        <4> QED
          BY <2>1, <2>7, <4>1 DEF Writes, NewContent
      <3> QED
        BY <2>1, <3>1, <3>2
    <2> QED
      BY <2>1, <2>3, <2>4, <2>5, <2>6, <2>7, BufferSteps DEF Unwinds
  <1> QED
    BY <1>2, <1>3

(* ~MemoryView pushes what the script wrote before auto_respond runs, and   *)
(* nobody who works under the same mutex pushes an older copy over it: a    *)
(* client that waits for its future finds the script's writes in its buffer. *)
THEOREM WritesReturn ==
    ASSUME UncaughtTerminates, JavascriptWritesLocal
    PROVE  Spec => []WriteBackVisible
  <1> DEFINE IInv == /\ TypeOK /\ HolderInv /\ ReplyInv /\ AliasInv /\ CopyInv
                     /\ ViewPlace /\ CopyCurrent /\ VisibleInv
  <1>1. Init => IInv
    <2> SUFFICES ASSUME Init PROVE IInv
      OBVIOUS
    <2>1. \A r \in Requests : /\ pc[r] = "idle" /\ view[r].state = "none"
                              /\ response[r] = NoResponse
      BY DEF Init, Idle, NoView
    <2> QED
      BY <2>1, InitType
      DEF HolderInv, Holds, InVm, ReplyInv, Answered, AliasInv, CopyInv, ViewPlace,
          CopyCurrent, VisibleInv, Served
  <1>2. IInv /\ [Next]_vars => IInv'
    BY NextType, HolderStep, ReplyStep, AliasStep, CopyStep, PlaceStep,
       CurrentStep, VisibleStep
  <1>3. IInv => WriteBackVisible
    <2> SUFFICES ASSUME IInv, NEW r \in Requests, response[r].status = "ok",
                        response[r].wrote, WritesBack(r), Serialised(call[r].buffer)
                 PROVE  r \in memory[call[r].buffer]
      BY DEF WriteBackVisible
    <2>1. Answered(r)
      BY DEF Answered, NoResponse
    <2>2. pc[r] = "done" /\ result[r] = response[r]
      BY <2>1 DEF ReplyInv, DefaultResult
    <2>3. view[r].state = "none"
      BY <2>2 DEF ViewPlace
    <2> QED
      BY <2>2, <2>3 DEF VisibleInv, Served, Written
  <1> QED
    BY <1>1, <1>2, <1>3, PTL DEF Spec
=============================================================================
