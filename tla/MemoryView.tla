------------------------------ MODULE MemoryView ------------------------------
(***************************************************************************)
(* The MemoryView class in one process: handles (MemoryView objects) that  *)
(* share implementations (MemoryViewImpl), each a window on a buffer that  *)
(* its owner exposed as a Mercury bulk. The bytes of the window are        *)
(* fetched, or accessed in place, the first time data() is called, and     *)
(* pushed back when the last handle dies.                                  *)
(*                                                                         *)
(* A byte is the identity of the view through which it was last written.   *)
(***************************************************************************)
EXTENDS Naturals, FiniteSets

CONSTANTS
    Handles,     \* MemoryView objects
    Impls,       \* MemoryViewImpl objects
    Null,        \* an empty handle
    BulkSize,    \* bulk.size()
    Cut,         \* where the pieces of a buffer in several meet
    SizeMod,     \* size_t arithmetic is modulo SizeMod
    OffsetArgs,  \* offsets callers may pass
    SizeArgs,    \* sizes callers may pass
    Default,     \* std::nullopt
    Sites,       \* where the process is: see the variable site
    MayFail,     \* can a transfer fail?
    OwnerByte,   \* the bytes the owner put in its buffer
    Unfilled     \* the bytes of a fresh allocation

ASSUME SizeAssumption == /\ BulkSize \in Nat /\ SizeMod \in Nat /\ Cut \in Nat
                         /\ BulkSize < SizeMod
                         /\ OffsetArgs \cup SizeArgs \subseteq 0 .. SizeMod - 1
ASSUME SitesAssumption == Sites \subseteq {"remote", "contiguous", "fragmented"}
ASSUME NullAssumption == Null \notin Impls /\ Default \notin Nat
ASSUME MayFailAssumption == MayFail \in BOOLEAN

VARIABLES
    site,    \* not the owner's process, the owner's with a buffer in one
             \* piece, or the owner's with a buffer in two, that meet at Cut
    bulk,    \* the owner's buffer
    handle,  \* the implementation that each handle shares
    impl,    \* the state of the implementations
    poked    \* history: the bytes written through each implementation

vars == <<site, bulk, handle, impl, poked>>

Positions == 0 .. BulkSize - 1
Bytes == Impls \cup {OwnerByte, Unfilled}
Intents == {"IN", "OUT", "INOUT"}

\* local: "unborn"  not constructed yet;
\*        "null"    m_local_data is null;
\*        "alias"   m_local_data points into the owner's buffer;
\*        "copy"    m_local_data is the view's own buffer;
\*        "raw"     its own buffer, which could not be fetched.
\* data is indexed like the bulk, inside the window.
ImplStates == [intent : Intents, offset : 0 .. SizeMod - 1, size : 0 .. SizeMod - 1,
               local : {"unborn", "null", "alias", "copy", "raw"},
               data : [Positions -> Bytes]]

Writable(v) == v.intent \in {"OUT", "INOUT"}
Covers(v, k) == v.offset <= k /\ k < v.offset + v.size
Fits(v) == v.offset + v.size <= BulkSize
Window(v) == {k \in Positions : Covers(v, k)}
Blank == [k \in Positions |-> Unfilled]

Init ==
    /\ site \in Sites
    /\ bulk = [k \in Positions |-> OwnerByte]
    /\ handle = [h \in Handles |-> Null]
    /\ impl = [i \in Impls |-> [intent |-> "IN", offset |-> 0, size |-> 0,
                                local |-> "unborn", data |-> Blank]]
    /\ poked = [i \in Impls |-> {}]
-----------------------------------------------------------------------------
(* Constructors *)

OrElse(arg, value) == IF arg = Default THEN value ELSE arg

\* Mutant: the offset is left out of the check.
AcceptsSizeOnly(offset, size) == OrElse(size, BulkSize) <= BulkSize

\* offset + size > bulk.size() throws.
Accepts(offset, size) ==
    (OrElse(offset, 0) + OrElse(size, BulkSize)) % SizeMod <= BulkSize

\* Mutant: the end of the window is stored for its size.
NewImplWithEnd(h, i, intent, offset, size) ==
    /\ handle[h] = Null /\ impl[i].local = "unborn"
    /\ handle' = [handle EXCEPT ![h] = i]
    /\ impl' = [impl EXCEPT ![i] = [intent |-> intent, offset |-> offset,
                    size |-> offset + size, local |-> "null", data |-> Blank]]
    /\ UNCHANGED <<site, bulk, poked>>

NewImpl(h, i, intent, offset, size) ==
    /\ handle[h] = Null /\ impl[i].local = "unborn"
    /\ handle' = [handle EXCEPT ![h] = i]
    /\ impl' = [impl EXCEPT ![i] = [intent |-> intent, offset |-> offset,
                    size |-> size, local |-> "null", data |-> Blank]]
    /\ UNCHANGED <<site, bulk, poked>>

\* MemoryView{engine, bulk, owner, intent, offset, size}; a view of a whole
\* local buffer goes through the same constructor.
Construct(h, i, intent, offset, size) ==
    /\ Accepts(offset, size)
    /\ NewImpl(h, i, intent, OrElse(offset, 0), OrElse(size, BulkSize))

\* MemoryView{engine, g.toJson()}: another implementation, same window.
FromJson(g, h, i) ==
    /\ handle[g] # Null
    /\ LET v == impl[handle[g]] IN
         /\ Accepts(v.offset, v.size)
         /\ NewImpl(h, i, v.intent, v.offset, v.size)
-----------------------------------------------------------------------------
(* data() *)

\* In the owner's process, HG_Bulk_access gives a pointer to the window if it
\* lies in one piece.
InPlace(v) ==
    \/ site = "contiguous"
    \/ site = "fragmented" /\ ~(v.offset < Cut /\ Cut < v.offset + v.size)

\* Mutant: only IN views are fetched.
FetchedInOnly(v) ==
    IF v.intent = "IN" THEN [k \in Positions |-> IF Covers(v, k) THEN bulk[k] ELSE Unfilled]
    ELSE Blank

Fetched(v) ==
    IF v.intent \in {"IN", "INOUT"}
    THEN [k \in Positions |-> IF Covers(v, k) THEN bulk[k] ELSE Unfilled]
    ELSE Blank

\* prepareLocalData, for a window inside the bulk.
Data(h) ==
    LET i == handle[h] IN
    /\ i # Null
    /\ impl[i].local = "null" /\ Fits(impl[i])
    /\ impl' = IF InPlace(impl[i]) THEN [impl EXCEPT ![i].local = "alias"]
               ELSE [impl EXCEPT ![i].local = "copy", ![i].data = Fetched(impl[i])]
    /\ UNCHANGED <<site, bulk, handle, poked>>

\* The transfer throws once the local buffer is in place: the next call of
\* data() returns that buffer without fetching.
DataFails(h) ==
    LET i == handle[h] IN
    /\ MayFail /\ i # Null
    /\ impl[i].local = "null" /\ Fits(impl[i])
    /\ ~InPlace(impl[i]) /\ impl[i].intent \in {"IN", "INOUT"}
    /\ impl' = [impl EXCEPT ![i].local = "raw"]
    /\ UNCHANGED <<site, bulk, handle, poked>>

\* The user of h writes a byte through data().
Poke(h, k) ==
    LET i == handle[h] IN
    /\ i # Null
    /\ impl[i].local \in {"alias", "copy", "raw"} /\ Covers(impl[i], k)
    /\ poked' = [poked EXCEPT ![i] = @ \cup {k}]
    /\ IF impl[i].local = "alias"
       THEN bulk' = [bulk EXCEPT ![k] = i] /\ UNCHANGED impl
       ELSE impl' = [impl EXCEPT ![i].data[k] = i] /\ UNCHANGED bulk
    /\ UNCHANGED <<site, handle>>
-----------------------------------------------------------------------------
(* Copies, moves and destruction *)

\* Where the bytes come from when the first v.size bytes of the bulk are
\* copied to a window of the same bulk: source and destination may overlap, so
\* that the copy, piece by piece, reads bytes it has just written.
Sources(v) ==
    {from \in [Positions -> Positions] : \A k \in Positions :
        IF Covers(v, k) THEN \E j \in 1 .. BulkSize : from[k] + j * v.offset = k
        ELSE from[k] = k}

\* What the buffer may be once v has been pushed. In place, m_local_bulk is
\* the whole bulk, so the transfer reads from its start.
Pushed(v) ==
    CASE ~Writable(v) \/ v.local \in {"unborn", "null"} -> {bulk}
      [] Writable(v) /\ v.local \in {"copy", "raw"} ->
            {[k \in Positions |-> IF Covers(v, k) THEN v.data[k] ELSE bulk[k]]}
      [] Writable(v) /\ v.local = "alias" ->
            {[k \in Positions |-> bulk[from[k]]] : from \in Sources(v)}

Alive(i) == \E h \in Handles : handle[h] = i

\* Mutant: a handle pushes when it dies, whoever shares its view.
ReleaseEach(i) ==
    IF i = Null THEN UNCHANGED bulk ELSE bulk' \in Pushed(impl[i])

\* Mutant: views die without being pushed.
ReleaseSilently(i) == UNCHANGED bulk

\* ~shared_ptr: the last handle takes the implementation with it.
Release(i) ==
    IF i = Null \/ (\E h \in Handles : handle'[h] = i)
    THEN UNCHANGED bulk
    ELSE bulk' \in Pushed(impl[i])

\* Copy construction, or assignment over another view.
Copy(g, h) ==
    /\ handle[g] # Null
    /\ handle' = [handle EXCEPT ![h] = handle[g]]
    /\ Release(handle[h])
    /\ UNCHANGED <<site, impl, poked>>

Move(g, h) ==
    /\ g # h /\ handle[g] # Null
    /\ handle' = [handle EXCEPT ![h] = handle[g], ![g] = Null]
    /\ Release(handle[h])
    /\ UNCHANGED <<site, impl, poked>>

Destroy(h) ==
    /\ handle[h] # Null
    /\ handle' = [handle EXCEPT ![h] = Null]
    /\ Release(handle[h])
    /\ UNCHANGED <<site, impl, poked>>

Next ==
    \/ \E h \in Handles, i \in Impls, intent \in Intents,
          offset \in OffsetArgs \cup {Default}, size \in SizeArgs \cup {Default} :
              Construct(h, i, intent, offset, size)
    \/ \E g, h \in Handles, i \in Impls : FromJson(g, h, i)
    \/ \E h \in Handles : Data(h) \/ DataFails(h) \/ Destroy(h)
    \/ \E h \in Handles, k \in Positions : Poke(h, k)
    \/ \E g, h \in Handles : Copy(g, h) \/ Move(g, h)

Spec == Init /\ [][Next]_vars
-----------------------------------------------------------------------------
(* Properties *)

Dead(i) == impl[i].local # "unborn" /\ ~Alive(i)

TypeOK ==
    /\ site \in Sites
    /\ bulk \in [Positions -> Bytes]
    /\ handle \in [Handles -> Impls \cup {Null}]
    /\ impl \in [Impls -> ImplStates]
    /\ poked \in [Impls -> SUBSET Positions]
    /\ \A h \in Handles : handle[h] # Null => impl[handle[h]].local # "unborn"

\* A view that was accepted, by its own constructor or after a round trip
\* through JSON, lies inside its bulk, unless offset + size wrapped around.
WindowsFit ==
    \A i \in Impls : impl[i].offset + impl[i].size < SizeMod => Fits(impl[i])

\* Views that may change bytes of i's window, other than i itself.
Rivals(i) ==
    {j \in Impls \ {i} : /\ \/ impl[j].local = "alias"
                            \/ Writable(impl[j]) /\ impl[j].local \in {"copy", "raw"}
                         /\ Window(impl[i]) \cap Window(impl[j]) # {}}

Arrived(i) ==
    Dead(i) /\ Writable(impl[i]) /\ Rivals(i) = {}
        => \A k \in poked[i] : bulk[k] = i

\* Once the last handle of an OUT or INOUT view is gone, every byte written
\* through any of its handles is in the owner's buffer (two views on the same
\* bytes overwrite each other). Views in place start with their bulk.
WritesArrive ==
    \A i \in Impls : (impl[i].local = "alias" => impl[i].offset = 0) => Arrived(i)

\* The same for every view, also in the owner's own process: the offset of a
\* view is part of it (MemoryView.hpp, documentation of the constructor).
OffsetViewsArrive == \A i \in Impls : Arrived(i)

\* A byte of the owner's buffer that nobody wrote keeps its value, unless it
\* was passed as OUT, the fetch of an INOUT view failed, or a view in place
\* does not start with its bulk: the uninitialized bytes of local buffers go
\* nowhere else.
UnwrittenBytesKept ==
    (\A i \in Impls : impl[i].local = "alias" => impl[i].offset = 0) =>
        \A k \in Positions :
            \/ bulk[k] = OwnerByte
            \/ \E i \in Impls : k \in poked[i] /\ bulk[k] = i
            \/ \E i \in Impls : /\ Covers(impl[i], k)
                                /\ \/ impl[i].intent = "OUT"
                                   \/ impl[i].local = "raw"

\* The owner sees a view's bytes change when its last handle dies, and not
\* before, unless the view is in place; other bytes never change.
OnlyDyingViewsPush ==
    [][\A k \in Positions : bulk'[k] # bulk[k] =>
          \E i \in Impls : /\ Covers(impl[i], k)
                           /\ \/ impl[i].local = "alias"
                              \/ Dead(i)' /\ ~Dead(i)]_vars
-----------------------------------------------------------------------------
(* Why the properties hold *)

\* A view has no window before its constructor, and no written byte outside its
\* window or before data().
BornInv ==
    \A i \in Impls :
        /\ impl[i].local = "unborn" => impl[i].offset = 0 /\ impl[i].size = 0
        /\ poked[i] # {} => impl[i].local \in {"alias", "copy", "raw"}
        /\ poked[i] \subseteq Window(impl[i])

\* The bytes written through i are in its local buffer, and in the owner's if
\* they are the same or if i is dead.
WritesHeld(i) ==
    Rivals(i) = {} /\ (impl[i].local = "alias" => impl[i].offset = 0) =>
        \A k \in poked[i] :
            /\ impl[i].local \in {"copy", "raw"} => impl[i].data[k] = i
            /\ impl[i].local = "alias" \/ (Dead(i) /\ Writable(impl[i])) => bulk[k] = i

WritesInv == \A i \in Impls : WritesHeld(i)

\* Byte b may be at position k, in the owner's buffer or in a fetched one.
Legitimate(k, b) ==
    \/ b = OwnerByte
    \/ \E i \in Impls : k \in poked[i] /\ b = i
    \/ \E i \in Impls : /\ Covers(impl[i], k)
                        /\ impl[i].intent = "OUT" \/ impl[i].local = "raw"

NoShift == \A i \in Impls : impl[i].local = "alias" => impl[i].offset = 0

BytesInv ==
    NoShift => \A k \in Positions :
        /\ Legitimate(k, bulk[k])
        /\ \A i \in Impls : impl[i].local = "copy" /\ Covers(impl[i], k)
                                => Legitimate(k, impl[i].data[k])
=============================================================================
