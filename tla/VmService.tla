------------------------------ MODULE VmService ------------------------------
(***************************************************************************)
(* What poesie promises to a client (VmHandle.hpp, Backend.hpp): a request *)
(* sent to a VM is served in one indivisible step, at most once, and the   *)
(* future of the request delivers the outcome of that very step, whose     *)
(* effects on the client's buffers are visible by then. A provider without *)
(* a VM, or whose VM is still to come, serves nothing.                     *)
(***************************************************************************)
EXTENDS PoesieBase

VARIABLES
    open,      \* the providers that have a VM
    call,      \* the call each request carries
    phase,     \* "idle", "pending", "served" or "answered"
    result,    \* the outcome of a served request
    vm,        \* state of each interpreter: the scripts it has run, in order
    memory     \* the clients' buffers

vars == <<open, call, phase, result, vm, memory>>

Init ==
    /\ open = {}
    /\ call \in [Requests -> Calls]
    /\ phase = [r \in Requests |-> "idle"]
    /\ result = [r \in Requests |-> ErrorResult]
    /\ vm = [p \in Providers |-> <<>>]
    /\ memory = [b \in Buffers |-> {}]

\* Provider::Provider attaches a VM.
Open(p) ==
    /\ open' = open \cup {p}
    /\ UNCHANGED <<call, phase, result, vm, memory>>

\* VmHandle::execute, load or call sends the RPC and returns a Future.
Invoke(r) ==
    /\ phase[r] = "idle"
    /\ phase' = [phase EXCEPT ![r] = "pending"]
    /\ UNCHANGED <<open, call, result, vm, memory>>

\* The request fails without running anything.
Refuse(r) ==
    /\ phase[r] = "pending"
    /\ phase' = [phase EXCEPT ![r] = "served"]
    /\ result' = [result EXCEPT ![r] = ErrorResult]
    /\ UNCHANGED <<open, call, vm, memory>>

\* What a script may leave in the buffer b of r: a script that says it wrote
\* did; IN buffers are never modified; the part of an OUT buffer that the
\* script does not fill is unspecified.
BufferAfter(r, b, wrote) ==
    CASE call[r].intent = "IN" -> {memory[b]}
      [] call[r].intent = "INOUT" ->
            IF wrote THEN {memory[b] \cup {r}} ELSE {memory[b]}
      [] call[r].intent = "OUT" ->
            IF wrote THEN {{r}} ELSE {memory[b], {Unfilled}}

MemoryAfter(r, wrote) ==
    IF call[r].buffer = NoBuffer THEN {memory}
    ELSE {[memory EXCEPT ![call[r].buffer] = m] :
            m \in BufferAfter(r, call[r].buffer, wrote)}

\* The script runs: one indivisible step on the interpreter and the buffer.
\* A script that fails may have had part of its effects.
Serve(r) ==
    LET p == call[r].provider IN
    /\ phase[r] = "pending" /\ p \in open
    /\ phase' = [phase EXCEPT ![r] = "served"]
    /\ \E wrote \in BOOLEAN :
         /\ memory' \in MemoryAfter(r, wrote)
         /\ \/ /\ result' = [result EXCEPT ![r] =
                     [status |-> "ok", value |-> vm[p], wrote |-> wrote]]
               /\ vm' = [vm EXCEPT ![p] = Append(@, r)]
            \/ /\ result' = [result EXCEPT ![r] = ErrorResult]
               /\ vm' \in {vm, [vm EXCEPT ![p] = Append(@, r)]}
    /\ UNCHANGED <<open, call>>

\* The future becomes ready.
Answer(r) ==
    /\ phase[r] = "served"
    /\ phase' = [phase EXCEPT ![r] = "answered"]
    /\ UNCHANGED <<open, call, result, vm, memory>>

Next ==
    \/ \E p \in Providers : Open(p)
    \/ \E r \in Requests : Invoke(r) \/ Refuse(r) \/ Serve(r) \/ Answer(r)

Spec == Init /\ [][Next]_vars
=============================================================================
