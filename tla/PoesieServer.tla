---------------------------- MODULE PoesieServer ----------------------------
(***************************************************************************)
(* A poesie server process: providers being constructed, and the handlers  *)
(* (user-level threads) of their execute, load and call RPCs, from the     *)
(* moment a client sends a request to the moment its future is ready.      *)
(*                                                                         *)
(* The five VM backends share one skeleton (lock the VM, convert the       *)
(* arguments, run the script, destroy the MemoryViews, unlock, respond)    *)
(* but not its order; the operators of the section "Backend disciplines"   *)
(* say where they differ, and everything else follows from them.           *)
(***************************************************************************)
EXTENDS PoesieBase

CONSTANTS
    LocalBuffers,       \* buffers owned by the server process itself
    Unlocked,           \* owner of a free mutex
    Client,             \* "sent by a client", not by a script
    Within,             \* whose script sends a request, through a foreign function
    MayThrow,           \* can fetches and conversions throw?
    PushMayThrow,       \* can write-backs throw?
    UncaughtTerminates  \* does an exception that leaves a handler end the process?

ASSUME LocalBuffersAssumption == LocalBuffers \subseteq Buffers
ASSUME UnlockedAssumption == Unlocked \notin Requests
ASSUME ClientAssumption == Client \notin Requests
ASSUME WithinAssumption == Within \in [Requests -> Requests \cup {Client}]
ASSUME MayThrowAssumption == MayThrow \in BOOLEAN /\ PushMayThrow \in BOOLEAN
ASSUME UncaughtAssumption == UncaughtTerminates \in BOOLEAN

VARIABLES
    alive,      \* the server process has not been terminated
    stage,      \* how far each provider's constructor has got
    m_backend,  \* does ProviderImpl::m_backend point to a VM?
    m_mtx,      \* owner of each VM mutex
    vm,         \* state of each interpreter: the scripts it has run, in order
    memory,     \* the clients' buffers
    call,       \* the call each request carries
    pc,         \* where each request's handler is
    seen,       \* interpreter state read by a running script
    view,       \* the MemoryView in createdViews
    result,     \* ProviderImpl's local variable result
    response    \* what the client's future holds

vars == <<alive, stage, m_backend, m_mtx, vm, memory,
          call, pc, seen, view, result, response>>

providerVars == <<stage, m_backend>>
dataVars == <<vm, memory, view, seen>>
-----------------------------------------------------------------------------
(* Backend disciplines *)

Vm(r) == call[r].provider
Kind(r) == BackendOf[Vm(r)]

\* Mutant: the mutex is static in every backend.
OneMutexForAll(r) == "s_mtx"

\* Every VM has its mutex; the Python VMs share a static one.
MutexOf(r) == IF Kind(r) = "python" THEN "s_mtx" ELSE Vm(r)
Mutexes == Providers \cup {"s_mtx"}

\* load opens the file before it locks the VM, except in Lua.
OpensFileUnlocked(r) == call[r].op = "load" /\ Kind(r) # "lua"

\* Mutant: every backend unlocks by hand.
RaiiNowhere(r) == FALSE

\* The VM mutex is held by a unique_lock, except in Python.
Raii(r) == Kind(r) # "python"

\* Errors found under the lock before any argument is converted: a function
\* or a target that does not exist (JavaScript, Python), code that does not
\* compile (Jx9).
RejectsEarly(r) ==
    \/ Kind(r) \in {"javascript", "python"} /\ call[r].op = "call"
    \/ Kind(r) = "jx9"

\* JSONtoDukValue takes createdViews by value: the view dies with the copy.
ViewDiesInConversion(r) == Kind(r) = "javascript"

\* Conversion calls MemoryView::data(), except in Jx9, where the script's
\* memory_view_* functions do.
FetchesEagerly(r) == Kind(r) # "jx9"

\* Mutant: every backend declares createdViews outside its lock.
ViewOutlivesLockAlways(r) == TRUE

\* PythonVm::call destroys createdViews when it returns, after the unlock.
ViewOutlivesLock(r) == Kind(r) = "python" /\ call[r].op = "call"

\* Jx9Vm::call compares an index with a vector of JSON values (i < args) and
\* runs past the end of the arguments.
OverrunsArguments(r) == Kind(r) = "jx9" /\ call[r].op = "call"
-----------------------------------------------------------------------------
(* MemoryViews *)

HasView(r) == call[r].buffer # NoBuffer
Local(r) == call[r].buffer \in LocalBuffers
WritesBack(r) == call[r].intent \in {"OUT", "INOUT"}

\* state: "none"     no view, or one whose data was never asked for;
\*        "alias"    m_local_data points into the client's own buffer;
\*        "copy"     m_local_data is a buffer of the view;
\*        "dangling" the script holds a pointer to a deleted buffer.
Views == [state : {"none", "alias", "copy", "dangling"}, data : Contents]
NoView == [state |-> "none", data |-> {}]

\* Mutant: INOUT buffers are not fetched.
PreparedUnfetched(r) ==
    IF Local(r) THEN [state |-> "alias", data |-> {}]
    ELSE [state |-> "copy",
          data |-> IF call[r].intent = "IN" THEN memory[call[r].buffer]
                   ELSE {Unfilled}]

\* MemoryViewImpl::prepareLocalData.
Prepared(r) ==
    IF Local(r) THEN [state |-> "alias", data |-> {}]
    ELSE [state |-> "copy",
          data |-> IF call[r].intent = "OUT" THEN {Unfilled}
                   ELSE memory[call[r].buffer]]

\* The buffer of a view whose fetch failed: allocated, exposed, not filled.
Unfetched(r) ==
    IF Local(r) THEN NoView ELSE [state |-> "copy", data |-> {Unfilled}]

\* Mutant: INOUT buffers are not pushed back.
PushedBackOutOnly(r, v) ==
    IF v.state = "copy" /\ call[r].intent = "OUT"
    THEN [memory EXCEPT ![call[r].buffer] = v.data]
    ELSE memory

\* MemoryViewImpl::~MemoryViewImpl: the memory once v has been pushed back.
\* The views of this module cover whole buffers, so the push of one in place
\* copies the buffer to itself (MemoryView has windows).
PushedBack(r, v) ==
    IF v.state = "copy" /\ WritesBack(r)
    THEN [memory EXCEPT ![call[r].buffer] = v.data]
    ELSE memory
-----------------------------------------------------------------------------
NoResponse == [status |-> "none", value |-> <<>>, wrote |-> FALSE]

\* Result's default value, which auto_respond sends if nobody assigned it.
DefaultResult == [status |-> "ok", value |-> <<>>, wrote |-> FALSE]

Thrown == [status |-> "thrown", value |-> <<>>, wrote |-> FALSE]

\* No request has been sent and no VM has been created.
Idle ==
    /\ alive = TRUE
    /\ m_backend = [p \in Providers |-> FALSE]
    /\ m_mtx = [m \in Mutexes |-> Unlocked]
    /\ vm = [p \in Providers |-> <<>>]
    /\ memory = [b \in Buffers |-> {}]
    /\ call \in [Requests -> Calls]
    /\ pc = [r \in Requests |-> "idle"]
    /\ seen = [r \in Requests |-> <<>>]
    /\ view = [r \in Requests |-> NoView]
    /\ result = [r \in Requests |-> DefaultResult]
    /\ response = [r \in Requests |-> NoResponse]

Init == Idle /\ stage = [p \in Providers |-> "absent"]

Goto(r, label) == pc' = [pc EXCEPT ![r] = label]
SetResult(r, res) == result' = [result EXCEPT ![r] = res]
-----------------------------------------------------------------------------
(* Construction of a provider: its RPCs are defined first, then the VM is  *)
(* created, so requests may come in between.                               *)

DefineRpcs(p) ==
    /\ stage[p] = "absent"
    /\ stage' = [stage EXCEPT ![p] = "defined"]
    /\ UNCHANGED <<m_backend, m_mtx, dataVars, call, pc, result, response>>

\* The configuration has no "vm" entry of the right shape.
SkipVm(p) ==
    /\ stage[p] = "defined" /\ BackendOf[p] = "none"
    /\ stage' = [stage EXCEPT ![p] = "constructed"]
    /\ UNCHANGED <<m_backend, m_mtx, dataVars, call, pc, result, response>>

\* pybind11 allows one scoped_interpreter in a process.
InterpreterAvailable(p) ==
    BackendOf[p] = "python" =>
        \A q \in Providers : ~(m_backend[q] /\ BackendOf[q] = "python")

CreateVm(p) ==
    /\ stage[p] = "defined" /\ BackendOf[p] # "none"
    /\ InterpreterAvailable(p)
    /\ stage' = [stage EXCEPT ![p] = "constructed"]
    /\ m_backend' = [m_backend EXCEPT ![p] = TRUE]
    /\ UNCHANGED <<m_mtx, dataVars, call, pc, result, response>>

\* createVm fails and result.check() throws out of the constructor: the
\* members are destroyed, which deregisters the RPCs.
CreateVmFails(p) ==
    /\ stage[p] = "defined" /\ BackendOf[p] # "none"
    /\ MayThrow \/ ~InterpreterAvailable(p)
    /\ stage' = [stage EXCEPT ![p] = "failed"]
    /\ UNCHANGED <<m_backend, m_mtx, dataVars, call, pc, result, response>>
-----------------------------------------------------------------------------
(* From the client to the mutex *)

\* VmHandle::execute, load, call, by a client or by a foreign function.
Send(r) ==
    /\ pc[r] = "idle"
    /\ Within[r] # Client => pc[Within[r]] = "running"
    /\ Goto(r, "queued")
    /\ UNCHANGED <<providerVars, m_mtx, dataVars, call, result, response>>

Registered(p) == stage[p] \in {"defined", "constructed"}

\* No such RPC at this address: Future::wait throws.
Unreachable(r) ==
    /\ pc[r] = "queued" /\ ~Registered(Vm(r))
    /\ Goto(r, "respond") /\ SetResult(r, ErrorResult)
    /\ UNCHANGED <<providerVars, m_mtx, dataVars, call, response>>

\* "Provider has no VM attached".
NoVmAttached(r) ==
    /\ pc[r] = "queued" /\ Registered(Vm(r)) /\ ~m_backend[Vm(r)]
    /\ Goto(r, "respond") /\ SetResult(r, ErrorResult)
    /\ UNCHANGED <<providerVars, m_mtx, dataVars, call, response>>

\* m_backend->load cannot open the file and returns before locking.
FileMissing(r) ==
    /\ pc[r] = "queued" /\ Registered(Vm(r)) /\ m_backend[Vm(r)]
    /\ OpensFileUnlocked(r)
    /\ Goto(r, "respond") /\ SetResult(r, ErrorResult)
    /\ UNCHANGED <<providerVars, m_mtx, dataVars, call, response>>

EnterBackend(r) ==
    /\ pc[r] = "queued" /\ Registered(Vm(r)) /\ m_backend[Vm(r)]
    /\ ~OverrunsArguments(r)
    /\ Goto(r, "lock")
    /\ UNCHANGED <<providerVars, m_mtx, dataVars, call, result, response>>

\* Mutant: the handler does not wait for the VM.
AcquireWithoutWaiting(r) ==
    /\ pc[r] = "lock"
    /\ m_mtx' = [m_mtx EXCEPT ![MutexOf(r)] = r]
    /\ Goto(r, "convert")
    /\ UNCHANGED <<providerVars, dataVars, call, result, response>>

Acquire(r) ==
    /\ pc[r] = "lock" /\ m_mtx[MutexOf(r)] = Unlocked
    /\ m_mtx' = [m_mtx EXCEPT ![MutexOf(r)] = r]
    /\ Goto(r, "convert")
    /\ UNCHANGED <<providerVars, dataVars, call, result, response>>
-----------------------------------------------------------------------------
(* Under the mutex *)

\* Mutant: an early return forgets the mutex.
RejectEarlyHoldingMutex(r) ==
    /\ pc[r] = "convert" /\ RejectsEarly(r)
    /\ Goto(r, "respond") /\ SetResult(r, ErrorResult)
    /\ UNCHANGED <<providerVars, m_mtx, dataVars, call, response>>

RejectEarly(r) ==
    /\ pc[r] = "convert" /\ RejectsEarly(r)
    /\ Goto(r, "unlock") /\ SetResult(r, ErrorResult)
    /\ UNCHANGED <<providerVars, m_mtx, dataVars, call, response>>

\* The arguments become values of the interpreter.
Convert(r) ==
    /\ pc[r] = "convert"
    /\ Goto(r, "begin")
    /\ IF HasView(r) /\ FetchesEagerly(r)
       THEN IF ViewDiesInConversion(r) /\ ~Local(r)
            THEN /\ view' = [view EXCEPT ![r] =
                                [state |-> "dangling", data |-> {}]]
                 /\ memory' = PushedBack(r, Prepared(r))
            ELSE /\ view' = [view EXCEPT ![r] = Prepared(r)]
                 /\ UNCHANGED memory
       ELSE UNCHANGED <<view, memory>>
    /\ UNCHANGED <<providerVars, m_mtx, vm, seen, call, result, response>>

\* The script starts: it reads the interpreter's globals and, in Jx9, may
\* ask for the view's data.
BeginScript(r) ==
    /\ pc[r] = "begin"
    /\ Goto(r, "running")
    /\ seen' = [seen EXCEPT ![r] = vm[Vm(r)]]
    /\ \/ view' = view
       \/ /\ HasView(r) /\ ~FetchesEagerly(r)
          /\ view' = [view EXCEPT ![r] = Prepared(r)]
    /\ UNCHANGED <<providerVars, m_mtx, vm, memory, call, result, response>>

\* A method or a function that the interpreter cannot find: an error, and
\* no effect (Lua looks the target up after the conversion, Ruby raises).
LookupFails(r) ==
    /\ pc[r] = "begin" /\ call[r].op = "call" /\ Kind(r) \in {"lua", "ruby"}
    /\ Goto(r, "destroy") /\ SetResult(r, ErrorResult)
    /\ UNCHANGED <<providerVars, m_mtx, dataVars, call, response>>

\* A script is in a foreign function that waits for the answer to a request;
\* the handler keeps its VM locked.
Blocked(r) ==
    \E s \in Requests : Within[s] = r /\ pc[s] \notin {"idle", "done"}

\* What follows the script: ~createdViews then unlock, or the reverse.
AfterScript(r) == IF ViewOutlivesLock(r) THEN "unlock" ELSE "destroy"

\* Mutant: the content of the view becomes the identity of the buffer.
WriteViewMistyped(r) ==
    /\ view[r].state = "copy"
    /\ view' = [view EXCEPT ![r].data = {call[r].buffer}]
    /\ UNCHANGED memory

\* The script writes into its view.
WriteView(r) ==
    LET old == IF view[r].state = "alias" THEN memory[call[r].buffer]
               ELSE view[r].data
        new == IF call[r].intent = "OUT" THEN {r} ELSE old \cup {r}
    IN CASE view[r].state = "alias" ->
              /\ memory' = [memory EXCEPT ![call[r].buffer] = new]
              /\ UNCHANGED view
         [] view[r].state = "copy" ->
              /\ view' = [view EXCEPT ![r].data = new]
              /\ UNCHANGED memory
         [] OTHER -> UNCHANGED <<view, memory>>  \* lost in freed memory

\* Mutant: m_global is extracted before the result code is looked at.
EndScriptSavingGlobal(r, ok, wrote) ==
    /\ pc[r] = "running" /\ ~Blocked(r)
    /\ wrote => view[r].state # "none"
    /\ IF wrote THEN WriteView(r) ELSE UNCHANGED <<view, memory>>
    /\ vm' = [vm EXCEPT ![Vm(r)] = Append(seen[r], r)]
    /\ SetResult(r, IF ok THEN [status |-> "ok", value |-> seen[r],
                                wrote |-> wrote] ELSE ErrorResult)
    /\ Goto(r, AfterScript(r))
    /\ UNCHANGED <<providerVars, m_mtx, seen, call, response>>

\* Mutant: the reply leaves before createdViews goes out of scope.
EndScriptRepliesEarly(r, ok, wrote) ==
    LET res == [status |-> "ok", value |-> seen[r], wrote |-> wrote] IN
    /\ pc[r] = "running" /\ ~Blocked(r) /\ ok
    /\ wrote => view[r].state # "none"
    /\ IF wrote THEN WriteView(r) ELSE UNCHANGED <<view, memory>>
    /\ vm' = [vm EXCEPT ![Vm(r)] = Append(seen[r], r)]
    /\ SetResult(r, res)
    /\ response' = [response EXCEPT ![r] = res]
    /\ Goto(r, AfterScript(r))
    /\ UNCHANGED <<providerVars, m_mtx, seen, call>>

\* A script modifies the interpreter's state and, maybe, its view, then
\* returns or raises. A Jx9 script that fails leaves m_global as it was;
\* the others keep what they did before the error.
EndScript(r, ok, wrote) ==
    LET ran == [vm EXCEPT ![Vm(r)] = Append(seen[r], r)] IN
    /\ pc[r] = "running" /\ ~Blocked(r)
    /\ wrote => view[r].state # "none"
    /\ IF wrote THEN WriteView(r) ELSE UNCHANGED <<view, memory>>
    /\ IF ok THEN /\ vm' = ran
                  /\ SetResult(r, [status |-> "ok", value |-> seen[r],
                                   wrote |-> wrote])
       ELSE /\ vm' \in IF Kind(r) = "jx9" THEN {vm} ELSE {vm, ran}
            /\ SetResult(r, ErrorResult)
    /\ Goto(r, AfterScript(r))
    /\ UNCHANGED <<providerVars, m_mtx, seen, call, response>>
-----------------------------------------------------------------------------
(* The way out *)

\* ~createdViews.
DestroyViews(r) ==
    /\ pc[r] = "destroy"
    /\ memory' = PushedBack(r, view[r])
    /\ view' = [view EXCEPT ![r] = NoView]
    /\ Goto(r, IF ViewOutlivesLock(r) \/ (result[r] = Thrown /\ ~Raii(r))
               THEN "respond" ELSE "unlock")
    /\ UNCHANGED <<providerVars, m_mtx, vm, seen, call, result, response>>

Unlock(r) ==
    /\ pc[r] = "unlock"
    /\ m_mtx' = [m_mtx EXCEPT ![MutexOf(r)] = Unlocked]
    /\ Goto(r, IF ViewOutlivesLock(r) THEN "destroy" ELSE "respond")
    /\ UNCHANGED <<providerVars, dataVars, call, result, response>>

\* ~auto_respond sends result, or its default value during unwinding; the
\* client's future becomes ready.
Respond(r) ==
    /\ pc[r] = "respond"
    /\ response' = [response EXCEPT ![r] =
                       IF result[r] = Thrown THEN DefaultResult ELSE result[r]]
    /\ Goto(r, "done")
    /\ UNCHANGED <<providerVars, m_mtx, dataVars, call, result>>

HandlerStep(r) ==
    \/ Unreachable(r) \/ NoVmAttached(r) \/ FileMissing(r) \/ EnterBackend(r)
    \/ Acquire(r) \/ RejectEarly(r) \/ Convert(r) \/ BeginScript(r)
    \/ LookupFails(r)
    \/ \E ok, wrote \in BOOLEAN : EndScript(r, ok, wrote)
    \/ DestroyViews(r) \/ Unlock(r) \/ Respond(r)

ConstructorStep(p) ==
    DefineRpcs(p) \/ SkipVm(p) \/ CreateVm(p) \/ CreateVmFails(p)
-----------------------------------------------------------------------------
(* Exceptions that no backend catches, and undefined behaviour *)

Throw(r, v) ==
    IF UncaughtTerminates
    THEN /\ alive' = FALSE
         /\ UNCHANGED <<view, pc, result>>
    ELSE /\ view' = [view EXCEPT ![r] = v]
         /\ Goto(r, "destroy") /\ SetResult(r, Thrown)
         /\ UNCHANGED alive

\* MemoryView's constructor or data() throws during the conversion. In
\* JavaScript the copy of the view dies, and pushes, while unwinding.
ConversionThrows(r) ==
    /\ alive /\ MayThrow
    /\ pc[r] = "convert" /\ HasView(r) /\ FetchesEagerly(r)
    /\ Throw(r, NoView) \/ Throw(r, Unfetched(r))
    /\ UNCHANGED <<providerVars, m_mtx, vm, memory, seen, call, response>>

\* to_json throws on the value returned by a Python function.
ReturnValueThrows(r) ==
    /\ alive /\ MayThrow
    /\ pc[r] = "running" /\ ~Blocked(r)
    /\ Kind(r) = "python" /\ call[r].op = "call"
    /\ vm' = IF UncaughtTerminates THEN vm
             ELSE [vm EXCEPT ![Vm(r)] = Append(seen[r], r)]
    /\ Throw(r, view[r])
    /\ UNCHANGED <<providerVars, m_mtx, memory, seen, call, response>>

\* data() throws in a memory_view_* function called by a Jx9 script.
ScriptFetchThrows(r) ==
    /\ alive /\ MayThrow
    /\ pc[r] = "running" /\ ~Blocked(r) /\ HasView(r) /\ ~FetchesEagerly(r)
    /\ Throw(r, Unfetched(r))
    /\ UNCHANGED <<providerVars, m_mtx, vm, memory, seen, call, response>>

\* ~MemoryViewImpl throws, and destructors are noexcept.
PushThrows(r) ==
    /\ alive /\ PushMayThrow
    /\ pc[r] = "destroy" /\ view[r].state \in {"alias", "copy"} /\ WritesBack(r)
    /\ alive' = FALSE
    /\ UNCHANGED <<providerVars, m_mtx, dataVars, call, pc, result, response>>

\* Jx9Vm::call reads args[i] without end, until the process faults.
ArgumentOverrun(r) ==
    /\ alive /\ pc[r] = "queued" /\ Registered(Vm(r)) /\ m_backend[Vm(r)]
    /\ OverrunsArguments(r)
    /\ alive' = FALSE
    /\ UNCHANGED <<providerVars, m_mtx, dataVars, call, pc, result, response>>

\* The script writes through the pointer to the deleted buffer.
DanglingWrite(r) ==
    /\ alive /\ pc[r] = "running" /\ ~Blocked(r) /\ view[r].state = "dangling"
    /\ alive' = FALSE
    /\ UNCHANGED <<providerVars, m_mtx, dataVars, call, pc, result, response>>

Fault(r) ==
    \/ ConversionThrows(r) \/ ScriptFetchThrows(r) \/ ReturnValueThrows(r)
    \/ PushThrows(r) \/ ArgumentOverrun(r) \/ DanglingWrite(r)
-----------------------------------------------------------------------------
\* Nothing is left to do: every future is ready, or the process is gone.
Finished ==
    /\ \/ ~alive
       \/ /\ \A r \in Requests :
                 pc[r] = "done" \/ (pc[r] = "idle" /\ Within[r] # Client)
          /\ \A p \in Providers : stage[p] \in {"constructed", "failed"}
    /\ UNCHANGED vars

Next ==
    \/ /\ alive /\ UNCHANGED alive
       /\ \/ \E p \in Providers : ConstructorStep(p)
          \/ \E r \in Requests : Send(r) \/ HandlerStep(r)
    \/ \E r \in Requests : Fault(r)
    \/ Finished

\* Argobots keeps scheduling runnable threads: a handler that can take a
\* step eventually does. Nothing obliges a client to send.
Fairness ==
    \A r \in Requests : WF_vars(alive /\ UNCHANGED alive /\ HandlerStep(r))

Spec == Init /\ [][Next]_vars /\ Fairness
-----------------------------------------------------------------------------
(* Properties *)

\* The interpreter is touched by the handler between lock and unlock.
InVm(r) == pc[r] \in {"convert", "begin", "running"}

TypeOK ==
    /\ alive \in BOOLEAN
    /\ stage \in [Providers -> {"absent", "defined", "constructed", "failed"}]
    /\ m_backend \in [Providers -> BOOLEAN]
    /\ m_mtx \in [Mutexes -> Requests \cup {Unlocked}]
    /\ vm \in [Providers -> Seq(Requests)]
    /\ memory \in [Buffers -> Contents]
    /\ call \in [Requests -> Calls]
    /\ pc \in [Requests -> {"idle", "queued", "lock", "convert", "begin",
                            "running", "destroy", "unlock", "respond", "done"}]
    /\ seen \in [Requests -> Seq(Requests)]
    /\ view \in [Requests -> Views]
    /\ result \in [Requests -> Results \cup {Thrown}]
    /\ response \in [Requests -> Results \cup {NoResponse}]

\* Answered(r): the future of r is ready.
Answered(r) == response[r] # NoResponse

\* Requests that may change the content of buffer b.
Writers(b) == {r \in Requests : call[r].buffer = b /\ WritesBack(r)}

\* The interpreter is touched by one handler at a time, whatever the number
\* of handlers, VMs sharing a mutex and yields in the middle of a conversion
\* or of a script (m_mtx, PythonVm::s_mtx).
MutualExclusion ==
    \A r1, r2 \in Requests :
        InVm(r1) /\ InVm(r2) /\ MutexOf(r1) = MutexOf(r2) => r1 = r2

\* A handler that has responded holds no mutex: every path out of a backend,
\* early returns and exceptions included, releases the VM.
LockReleased ==
    \A r \in Requests : Answered(r) => \A m \in Mutexes : m_mtx[m] # r

\* res is what r's script returned, run once, on the state left by the scripts
\* that precede it in h.
OutcomeIn(h, r, res) ==
    \E i \in DOMAIN h : h[i] = r /\ res.value = SubSeq(h, 1, i - 1)

\* A success is the outcome of this very script, on the state left by the
\* scripts that precede it and seen by those that follow: nothing a handler
\* did to an interpreter is lost (read of the globals, execution and reply
\* are three separate steps).
SuccessIsFaithful ==
    \A r \in Requests :
        response[r].status = "ok" => OutcomeIn(vm[Vm(r)], r, response[r])

\* A Jx9 script that is reported as failed left no trace in __global__,
\* wherever on the way it failed.
FailedJx9LeavesGlobal ==
    \A r \in Requests : Kind(r) = "jx9" /\ response[r].status = "error" =>
        \A i \in DOMAIN vm[Vm(r)] : vm[Vm(r)][i] # r

\* All writers of b work under one mutex, read b before they write it, and
\* destroy their views before they unlock.
Serialised(b) ==
    \A r, s \in Writers(b) : /\ MutexOf(r) = MutexOf(s)
                             /\ r # s => call[r].intent = "INOUT"
                             /\ r # s => ~ViewOutlivesLock(r)

\* When the future of a script that wrote into its OUT or INOUT view is
\* ready, the client's buffer holds what the script wrote, and keeps it:
\* neither an early reply nor another handler's write-back hides it.
WriteBackVisible ==
    \A r \in Requests :
        /\ response[r].status = "ok" /\ response[r].wrote
        /\ WritesBack(r) /\ Serialised(call[r].buffer)
        => r \in memory[call[r].buffer]

\* Bytes that neither the client nor a script wrote never reach a buffer that
\* is only passed as IN or INOUT.
NoUnfilledBytes ==
    \A b \in Buffers :
        (\A r \in Requests : call[r].buffer = b => call[r].intent # "OUT")
            => Unfilled \notin memory[b]

\* A client may reuse a buffer as soon as the futures of the requests that
\* carry it are ready: the server then never touches it again. A remote
\* buffer passed as IN is never modified.
OnlyPendingWritersTouch(b) ==
    memory'[b] # memory[b] =>
        \E r \in Requests : /\ call[r].buffer = b /\ ~Answered(r)
                            /\ WritesBack(r) \/ Local(r)

AnsweredBuffersQuiet == [][\A b \in Buffers : OnlyPendingWritersTouch(b)]_vars

\* The process outlives every request (Backend.hpp: call returns a Result).
ServerSurvives == alive

\* The interpreters that scripts hold while they wait: the Python VMs are one.
Held(r) == IF Kind(r) = "python" THEN "python" ELSE Vm(r)

\* Scripts call each other in one direction: there is an order of the
\* interpreters in which a request sent by a script goes to a later one, so
\* in particular not to the interpreter that sends it.
NestingOrdered ==
    \E rank \in [{Held(r) : r \in Requests} -> 1 .. Cardinality(Requests)] :
        \A r \in Requests : Within[r] # Client => rank[Held(Within[r])] < rank[Held(r)]

\* Every request that was sent is answered, unless the process dies: no path
\* through a backend leaves a handler, or the ones waiting for its VM, stuck,
\* even if foreign functions wait for requests of their own, in one direction.
EveryRequestAnswered ==
    NestingOrdered =>
        \A r \in Requests : pc[r] = "queued" ~> (Answered(r) \/ ~alive)
-----------------------------------------------------------------------------
(* The discipline of the mutexes, from which MutualExclusion and           *)
(* LockReleased follow: between lock and unlock a handler owns its VM's    *)
(* mutex, and nobody else owns one.                                        *)

Holds(r) ==
    \/ InVm(r) \/ pc[r] = "unlock"
    \/ pc[r] = "destroy" /\ ~ViewOutlivesLock(r)

HolderInv == \A r \in Requests : Holds(r) => m_mtx[MutexOf(r)] = r

OwnerInv ==
    \A m \in Mutexes : \A r \in Requests :
        m_mtx[m] = r => MutexOf(r) = m /\ Holds(r)

AnsweredInv == \A r \in Requests : Answered(r) => pc[r] = "done"

\* An exception that leaves the handler is not seen by anyone if it ends the
\* process, and releases the mutex if unique_lock holds it.
NobodyForgets ==
    \A r \in Requests : result[r] # Thrown \/ Raii(r)

\* Only the buffers of the process itself are accessed in place.
AliasInv == \A r \in Requests : view[r].state = "alias" => Local(r)

\* A request gets past the handler's check only when the VM exists.
ReachedInv ==
    \A r \in Requests : pc[r] \in {"lock", "convert", "begin", "running"} =>
        m_backend[Vm(r)]

\* The script of r is over, or will never run.
Served(r) == pc[r] \in {"destroy", "unlock", "respond", "done"}

\* A running script works on the current state of its interpreter.
SeenInv == \A r \in Requests : pc[r] = "running" => seen[r] = vm[Vm(r)]

\* A success that is on its way is faithful, and nothing else is sent.
OutcomeInv ==
    \A r \in Requests :
        /\ Served(r) /\ result[r].status = "ok"
              => OutcomeIn(vm[Vm(r)], r, result[r])
        /\ Answered(r) => pc[r] = "done" /\ response[r] = result[r]
        /\ result[r] # Thrown

LockInv == HolderInv /\ OwnerInv /\ AnsweredInv /\ NobodyForgets

\* A response is the result, or its default value.
ReplyInv ==
    \A r \in Requests : Answered(r) =>
        /\ pc[r] = "done"
        /\ response[r] = IF result[r] = Thrown THEN DefaultResult ELSE result[r]

\* A Jx9 script that an interpreter remembers, or that a script has seen, ended
\* well.
Remembers(h, r) == \E i \in DOMAIN h : h[i] = r

TraceInv ==
    \A r \in Requests : Kind(r) = "jx9" =>
        /\ \A p \in Providers :
              Remembers(vm[p], r) => Served(r) /\ result[r].status = "ok"
        /\ \A s \in Requests :
              Remembers(seen[s], r) => Served(r) /\ result[r].status = "ok"
-----------------------------------------------------------------------------
(* The life of a view, from which WriteBackVisible and NoUnfilledBytes     *)
(* follow.                                                                 *)

\* Only the buffers of other processes are copied, and only JavaScript loses
\* the copy.
CopyInv ==
    \A r \in Requests :
        /\ view[r].state \in {"copy", "dangling"} => HasView(r) /\ ~Local(r)
        /\ view[r].state = "dangling" => Kind(r) = "javascript"

\* A view lives from the conversion to ~createdViews.
ViewPlace ==
    \A r \in Requests : view[r].state # "none" =>
        \/ pc[r] \in {"begin", "running", "destroy"}
        \/ pc[r] = "unlock" /\ ViewOutlivesLock(r)

\* Nobody lends b to be filled by a script.
NotFilled(b) == \A r \in Requests : call[r].buffer = b => call[r].intent # "OUT"

UnfilledInv ==
    \A b \in Buffers : NotFilled(b) =>
        /\ Unfilled \notin memory[b]
        /\ \A r \in Requests :
              call[r].buffer = b /\ view[r].state = "copy" => Unfilled \notin view[r].data

\* While a handler has a copy of a buffer that it reads and writes back, the
\* buffer gets nothing that the copy has not.
CopyCurrent ==
    \A r \in Requests :
        /\ view[r].state = "copy" /\ call[r].intent = "INOUT"
        /\ Serialised(call[r].buffer)
        => memory[call[r].buffer] \subseteq view[r].data

\* What a script that reports a write wrote: in the copy until it is pushed.
Written(r) ==
    IF view[r].state = "copy" THEN r \in view[r].data ELSE r \in memory[call[r].buffer]

VisibleInv ==
    \A r \in Requests :
        /\ Served(r) /\ result[r].status = "ok" /\ result[r].wrote
        /\ WritesBack(r) /\ Serialised(call[r].buffer)
        => HasView(r) /\ Written(r)

\* Requests that may change the same buffer use it one after the other: they
\* work under one mutex and destroy their views before they unlock it.
TakeTurns ==
    \A b \in Buffers : \A r, s \in Writers(b) :
        r # s => MutexOf(r) = MutexOf(s) /\ ~ViewOutlivesLock(r)

\* Until its script ends, a view that will be pushed back holds what the buffer
\* does, or the bytes of a new allocation.
CopyFresh ==
    \A r \in Requests :
        view[r].state = "copy" /\ WritesBack(r) /\ pc[r] \in {"begin", "running"} =>
            view[r].data = IF call[r].intent = "OUT" THEN {Unfilled}
                           ELSE memory[call[r].buffer]
-----------------------------------------------------------------------------
(* The server implements the service, as long as exceptions nobody catches *)
(* end the process: a request is served when its script ends, and a buffer *)
(* already contains what a view that will still be pushed back holds.      *)

phaseBar == [r \in Requests |->
    CASE pc[r] = "idle" -> "idle"
      [] Answered(r) -> "answered"
      [] Served(r) /\ ~Answered(r) -> "served"
      [] OTHER -> "pending"]

resultBar == [r \in Requests |-> IF Served(r) THEN result[r] ELSE ErrorResult]

PendingPush(r, b) ==
    call[r].buffer = b /\ Served(r) /\ view[r].state = "copy" /\ WritesBack(r)

memoryBar == [b \in Buffers |->
    IF \E r \in Requests : PendingPush(r, b)
    THEN view[CHOOSE r \in Requests : PendingPush(r, b)].data
    ELSE memory[b]]

openBar == {p \in Providers : m_backend[p]}

Service == INSTANCE VmService
               WITH open <- openBar, phase <- phaseBar, result <- resultBar, memory <- memoryBar

\* Clients cannot tell the server from one that serves each request in one
\* indivisible step, once the provider has its VM and never before.
ServiceSafety == Service!Spec
=============================================================================
