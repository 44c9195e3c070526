-------------------------- MODULE ProviderLifecycle --------------------------
(***************************************************************************)
(* Provider objects, the implementations they own and the finalize         *)
(* callbacks they leave with the engine: construction, moves (as a growing *)
(* vector of providers makes them), destruction, and finalization of the   *)
(* engine, with RPC handlers in flight.                                    *)
(***************************************************************************)
EXTENDS Naturals, Sequences, FiniteSets

CONSTANTS
    Addresses,      \* places in memory where a Provider may live
    Impls,          \* ProviderImpl objects
    NoObject,       \* nothing lives there
    Empty,          \* a Provider whose self is null
    MaxInFlight,    \* bound on the handlers of a provider in flight
    MovedFromDies   \* are moved-from objects destroyed before finalization?

ASSUME LifecycleAssumption ==
    /\ MaxInFlight \in Nat
    /\ MovedFromDies \in BOOLEAN
    /\ NoObject # Empty /\ {NoObject, Empty} \cap Impls = {}

VARIABLES
    engine,     \* "running", "finalizing" or "finalized"
    object,     \* what lives at each address: a Provider, by its self
    impl,       \* the state of each ProviderImpl
    callbacks,  \* finalize callbacks: the address each one captured (p)
    inflight    \* handlers that are using each ProviderImpl

vars == <<engine, object, impl, callbacks, inflight>>

\* "unborn", "live", "novm" (its VM is destroyed, its RPCs are still
\* registered) or "gone".
ImplStates == {"unborn", "live", "novm", "gone"}

Init ==
    /\ engine = "running"
    /\ object = [a \in Addresses |-> NoObject]
    /\ impl = [i \in Impls |-> "unborn"]
    /\ callbacks = <<>>
    /\ inflight = [i \in Impls |-> 0]

\* engine.pop_finalize_callback(owner): the last callback of that owner, if
\* there is one.
PopCallback(owner) ==
    LET mine == {k \in DOMAIN callbacks : callbacks[k] = owner} IN
    IF mine = {} THEN callbacks
    ELSE LET last == CHOOSE k \in mine : \A j \in mine : j <= k
         IN SubSeq(callbacks, 1, last - 1) \o SubSeq(callbacks, last + 1, Len(callbacks))

\* Provider::Provider(engine, provider_id, config, pool)
Construct(a, i) ==
    /\ engine = "running" /\ object[a] = NoObject /\ impl[i] = "unborn"
    /\ object' = [object EXCEPT ![a] = i]
    /\ impl' = [impl EXCEPT ![i] = "live"]
    /\ callbacks' = Append(callbacks, a)
    /\ UNCHANGED <<engine, inflight>>

\* result.check() throws in ProviderImpl's constructor: there is no object.
ConstructFails(i) ==
    /\ engine = "running" /\ impl[i] = "unborn"
    /\ impl' = [impl EXCEPT ![i] = "gone"]
    /\ UNCHANGED <<engine, object, callbacks, inflight>>

\* Mutant: the object moved to leaves no callback, and the other's is popped.
MoveWithoutCallback(a, b) ==
    /\ engine = "running" /\ object[a] \in Impls /\ object[b] = NoObject
    /\ callbacks' = PopCallback(a)
    /\ object' = [object EXCEPT ![a] = Empty, ![b] = object[a]]
    /\ UNCHANGED <<engine, impl, inflight>>

\* Mutant: self is copied, not moved.
MoveSharing(a, b) ==
    /\ engine = "running" /\ object[a] \in Impls /\ object[b] = NoObject
    /\ callbacks' = Append(PopCallback(b), b)
    /\ object' = [object EXCEPT ![b] = object[a]]
    /\ UNCHANGED <<engine, impl, inflight>>

\* Provider::Provider(Provider&&): pops the callback of the new object, not
\* of the other one.
Move(a, b) ==
    /\ engine = "running" /\ object[a] \in Impls /\ object[b] = NoObject
    /\ callbacks' = Append(PopCallback(b), b)
    /\ object' = [object EXCEPT ![a] = Empty, ![b] = object[a]]
    /\ UNCHANGED <<engine, impl, inflight>>

\* ~ProviderImpl destroys m_backend first, then the RPC members.
DropImpl(i) == impl' = [impl EXCEPT ![i] = "novm"]

Deregister(i) ==
    /\ impl[i] = "novm"
    /\ impl' = [impl EXCEPT ![i] = "gone"]
    /\ UNCHANGED <<engine, object, callbacks, inflight>>

\* Mutant: the destructor leaves its callback behind.
DestroyWithCallback(a) ==
    /\ object[a] # NoObject
    /\ object' = [object EXCEPT ![a] = NoObject]
    /\ UNCHANGED callbacks
    /\ IF object[a] \in Impls THEN DropImpl(object[a]) ELSE UNCHANGED impl
    /\ UNCHANGED <<engine, inflight>>

\* ~Provider, of an object that owns an implementation or not.
Destroy(a) ==
    /\ object[a] # NoObject
    /\ object' = [object EXCEPT ![a] = NoObject]
    /\ IF object[a] \in Impls
       THEN callbacks' = PopCallback(a) /\ DropImpl(object[a])
       ELSE UNCHANGED <<callbacks, impl>>
    /\ UNCHANGED <<engine, inflight>>

\* The application destroys a provider, handlers or not: ~ProviderImpl does
\* not wait for them. It destroys a moved-from one at once or only after
\* finalization.
ApplicationDestroys(a) ==
    /\ object[a] = Empty => MovedFromDies \/ engine = "finalized"
    /\ engine # "finalizing"
    /\ Destroy(a)

\* A request reaches a provider whose RPCs are registered, its VM destroyed
\* or not: what the handler then does is undefined.
Arrive(i) ==
    /\ engine = "running" /\ inflight[i] < MaxInFlight
    /\ impl[i] \in {"live", "novm"}
    /\ inflight' = [inflight EXCEPT ![i] = @ + 1]
    /\ UNCHANGED <<engine, object, impl, callbacks>>

\* Mutant: a handler is counted out twice.
LeaveAgain(i) ==
    /\ inflight' = [inflight EXCEPT ![i] = @ - 1]
    /\ UNCHANGED <<engine, object, impl, callbacks>>

Leave(i) ==
    /\ inflight[i] > 0
    /\ inflight' = [inflight EXCEPT ![i] = @ - 1]
    /\ UNCHANGED <<engine, object, impl, callbacks>>

\* engine.finalize(), or a remote shutdown: no request is accepted any more.
Finalize ==
    /\ engine = "running"
    /\ engine' = "finalizing"
    /\ UNCHANGED <<object, impl, callbacks, inflight>>

\* Margo runs the callbacks, the last one first, once no handler is left.
Drained == \A i \in Impls : inflight[i] = 0

\* p->self.reset()
RunCallback ==
    LET p == callbacks[Len(callbacks)] IN
    /\ engine = "finalizing" /\ Drained /\ callbacks # <<>>
    /\ \A i \in Impls : impl[i] # "novm"
    /\ object[p] # NoObject        \* otherwise undefined: see NoDanglingCallback
    /\ callbacks' = SubSeq(callbacks, 1, Len(callbacks) - 1)
    /\ IF object[p] \in Impls
       THEN object' = [object EXCEPT ![p] = Empty] /\ DropImpl(object[p])
       ELSE UNCHANGED <<object, impl>>
    /\ UNCHANGED <<engine, inflight>>

Finalized ==
    /\ engine = "finalizing" /\ Drained /\ callbacks = <<>>
    /\ \A i \in Impls : impl[i] # "novm"
    /\ engine' = "finalized"
    /\ UNCHANGED <<object, impl, callbacks, inflight>>

Next ==
    \/ \E a \in Addresses, i \in Impls : Construct(a, i)
    \/ \E a, b \in Addresses : Move(a, b)
    \/ \E a \in Addresses : ApplicationDestroys(a)
    \/ \E i \in Impls : ConstructFails(i) \/ Deregister(i) \/ Arrive(i) \/ Leave(i)
    \/ Finalize \/ RunCallback \/ Finalized

\* Destructors and handlers run to their end, and so does margo_finalize.
Fairness ==
    /\ WF_vars(RunCallback) /\ WF_vars(Finalized)
    /\ \A i \in Impls : WF_vars(Deregister(i)) /\ WF_vars(Leave(i))

Spec == Init /\ [][Next]_vars /\ Fairness
-----------------------------------------------------------------------------
(* Properties *)

TypeOK ==
    /\ engine \in {"running", "finalizing", "finalized"}
    /\ object \in [Addresses -> Impls \cup {NoObject, Empty}]
    /\ impl \in [Impls -> ImplStates]
    /\ callbacks \in Seq(Addresses)
    /\ inflight \in [Impls -> 0 .. MaxInFlight]

\* Every finalize callback refers to a Provider that exists: p->self.reset()
\* never runs on memory that is not one (Provider.cpp).
NoDanglingCallback ==
    \A k \in DOMAIN callbacks : object[callbacks[k]] # NoObject

\* A ProviderImpl in use is owned by exactly one Provider, wherever moves
\* have taken it, and one that nobody owns is gone or on its way.
OneOwner ==
    \A i \in Impls :
        Cardinality({a \in Addresses : object[a] = i}) = IF impl[i] = "live" THEN 1 ELSE 0

\* Once the engine is finalized no ProviderImpl needs it any more: a Provider
\* that outlives its engine is empty, so its destructor does not use it.
NothingOutlivesEngine ==
    engine = "finalized" => \A i \in Impls : impl[i] \in {"unborn", "gone"}

\* Finalization ends.
FinalizationEnds == engine = "finalizing" ~> engine = "finalized"
-----------------------------------------------------------------------------
(* Why the properties hold: the parts of the inductive invariant.          *)

\* Wherever moves have taken it, a live ProviderImpl has one Provider, and no
\* Provider has any other.
Owned ==
    /\ \A a \in Addresses : object[a] \in Impls => impl[object[a]] = "live"
    /\ \A a, b \in Addresses : object[a] \in Impls /\ object[a] = object[b] => a = b
    /\ \A i \in Impls : impl[i] = "live" => \E a \in Addresses : object[a] = i

\* Every Provider that owns one has a callback, which finalization has run.
Captured ==
    /\ \A a \in Addresses : object[a] \in Impls =>
          \E k \in DOMAIN callbacks : callbacks[k] = a
    /\ engine = "finalized" =>
          callbacks = <<>> /\ \A i \in Impls : impl[i] # "novm"

\* No Provider has two callbacks (unless one died moved-from).
CapturedOnce ==
    \A j, k \in DOMAIN callbacks : callbacks[j] = callbacks[k] => j = k

LifecycleInv == TypeOK /\ Owned /\ Captured

ReferenceInv == LifecycleInv /\ CapturedOnce /\ NoDanglingCallback
=============================================================================
