-------------------------- MODULE MemoryViewProofs --------------------------
(***************************************************************************)
(* Theorems about MemoryView, for every buffer, every width of size_t and  *)
(* every set of offsets and sizes that callers may pass.                   *)
(***************************************************************************)
EXTENDS MemoryView, TLAPS

(* Addition modulo SizeMod is exact as long as it does not wrap. *)
LEMMA NoWrap ==
    ASSUME NEW a \in Nat, a < SizeMod
    PROVE  a % SizeMod = a
  BY SizeAssumption

(* What an argument or its default stands for is a size_t. *)
LEMMA ArgumentTypes ==
    /\ \A offset \in OffsetArgs \cup {Default} :
            OrElse(offset, 0) \in 0 .. SizeMod - 1
    /\ \A size \in SizeArgs \cup {Default} :
            OrElse(size, BulkSize) \in 0 .. SizeMod - 1
  <1>1. 0 \in 0 .. SizeMod - 1 /\ BulkSize \in 0 .. SizeMod - 1
    BY SizeAssumption
  <1>2. \A a \in OffsetArgs \cup SizeArgs : a \in 0 .. SizeMod - 1
    BY SizeAssumption
  <1> QED
    BY <1>1, <1>2 DEF OrElse

(* An accepted window lies inside the bulk, unless its end wraps around. *)
LEMMA AcceptedFits ==
    ASSUME NEW offset \in 0 .. SizeMod - 1, NEW size \in 0 .. SizeMod - 1,
           Accepts(offset, size), offset + size < SizeMod
    PROVE  offset + size <= BulkSize
  <1>1. offset # Default /\ size # Default
    BY SizeAssumption, NullAssumption
  <1>2. (offset + size) % SizeMod <= BulkSize
    BY <1>1 DEF Accepts, OrElse
  <1>3. offset + size \in Nat
    BY SizeAssumption
  <1> QED
    BY <1>2, <1>3, NoWrap

(* Defaults are checked for what they stand for. *)
LEMMA AcceptsDefaults ==
    ASSUME NEW offset \in OffsetArgs \cup {Default},
           NEW size \in SizeArgs \cup {Default}, Accepts(offset, size)
    PROVE  Accepts(OrElse(offset, 0), OrElse(size, BulkSize))
  <1>1. OrElse(offset, 0) # Default /\ OrElse(size, BulkSize) # Default
    BY ArgumentTypes, SizeAssumption, NullAssumption
  <1> QED
    BY <1>1 DEF Accepts, OrElse

(* What Release can do to the buffer. *)
LEMMA PushedType ==
    ASSUME TypeOK, NEW i \in Impls, NEW b \in Pushed(impl[i])
    PROVE  b \in [Positions -> Bytes]
  <1>1. impl[i] \in ImplStates /\ bulk \in [Positions -> Bytes]
    BY DEF TypeOK
  <1>2. CASE b = bulk
    BY <1>1, <1>2
  <1>3. CASE b = [k \in Positions |->
                    IF Covers(impl[i], k) THEN impl[i].data[k] ELSE bulk[k]]
    BY <1>1, <1>3 DEF ImplStates
  <1>4. CASE \E from \in Sources(impl[i]) : b = [k \in Positions |-> bulk[from[k]]]
    BY <1>1, <1>4 DEF Sources
  <1>5. impl[i].local \in {"unborn", "null", "alias", "copy", "raw"}
    BY <1>1 DEF ImplStates
  <1>6. CASE impl[i].local # "alias" \/ ~Writable(impl[i])
    BY <1>2, <1>3, <1>5, <1>6 DEF Pushed
  <1>7. CASE impl[i].local = "alias" /\ Writable(impl[i])
    BY <1>4, <1>7 DEF Pushed
  <1> QED
    BY <1>6, <1>7

LEMMA ReleaseType ==
    ASSUME TypeOK, NEW i \in Impls \cup {Null}, Release(i)
    PROVE  bulk' \in [Positions -> Bytes]
  BY PushedType DEF Release, TypeOK
-----------------------------------------------------------------------------
(* The invariant: types, and windows inside the bulk *)

LEMMA InitWindows == Init => TypeOK /\ WindowsFit
  <1> SUFFICES ASSUME Init PROVE TypeOK /\ WindowsFit
    OBVIOUS
  <1>1. 0 \in 0 .. SizeMod - 1 /\ 0 <= BulkSize
    BY SizeAssumption
  <1>2. Blank \in [Positions -> Bytes]
    BY DEF Blank, Bytes
  <1>3. OwnerByte \in Bytes
    BY DEF Bytes
  <1>4. TypeOK
    BY <1>1, <1>2, <1>3, NullAssumption DEF Init, TypeOK, ImplStates, Intents
  <1>5. WindowsFit
    BY <1>1 DEF Init, WindowsFit, Fits
  <1> QED
    BY <1>4, <1>5

LEMMA NewImplWindows ==
    ASSUME TypeOK, WindowsFit, NEW h \in Handles, NEW i \in Impls,
           NEW intent \in Intents, NEW offset \in 0 .. SizeMod - 1,
           NEW size \in 0 .. SizeMod - 1, Accepts(offset, size),
           NewImpl(h, i, intent, offset, size)
    PROVE  (TypeOK /\ WindowsFit)'
  <1> DEFINE v == [intent |-> intent, offset |-> offset, size |-> size,
                   local |-> "null", data |-> Blank]
  <1>1. Blank \in [Positions -> Bytes]
    BY DEF Blank, Bytes
  <1>2. v \in ImplStates
    BY <1>1 DEF ImplStates
  <1>3. impl' = [impl EXCEPT ![i] = v] /\ handle' = [handle EXCEPT ![h] = i]
        /\ UNCHANGED <<site, bulk, poked>>
    BY DEF NewImpl
  <1>4. TypeOK'
    BY <1>2, <1>3 DEF TypeOK
  <1>5. offset + size < SizeMod => Fits(v)
    BY AcceptedFits DEF Fits
  <1>6. WindowsFit'
    BY <1>3, <1>5 DEF WindowsFit, Fits, TypeOK
  <1> QED
    BY <1>4, <1>6

(* Steps that change neither the windows nor who was born. *)
LEMMA SameWindows ==
    ASSUME TypeOK, WindowsFit, impl' \in [Impls -> ImplStates],
           \A i \in Impls : /\ impl'[i].offset = impl[i].offset
                            /\ impl'[i].size = impl[i].size
    PROVE  WindowsFit'
  BY DEF WindowsFit, Fits

LEMMA DataWindows ==
    ASSUME TypeOK, WindowsFit, NEW h \in Handles, Data(h) \/ DataFails(h)
    PROVE  (TypeOK /\ WindowsFit)'
  <1> DEFINE i == handle[h]
  <1>1. i \in Impls /\ impl[i] \in ImplStates
    BY DEF TypeOK, Data, DataFails
  <1>2. Fetched(impl[i]) \in [Positions -> Bytes]
    BY DEF Fetched, Blank, TypeOK, Bytes
  <1>3. PICK local \in {"alias", "copy", "raw"}, d \in [Positions -> Bytes] :
            impl' = [impl EXCEPT ![i] = [impl[i] EXCEPT !.local = local, !.data = d]]
    <2>1. impl[i].data \in [Positions -> Bytes]
      BY <1>1 DEF ImplStates
    <2>2. \A local : [impl[i] EXCEPT !.local = local] =
                     [impl[i] EXCEPT !.local = local, !.data = impl[i].data]
      BY <1>1 DEF ImplStates
    <2>3. \/ impl' = [impl EXCEPT ![i] = [impl[i] EXCEPT !.local = "alias"]]
          \/ impl' = [impl EXCEPT ![i] = [impl[i] EXCEPT !.local = "copy",
                                                         !.data = Fetched(impl[i])]]
          \/ impl' = [impl EXCEPT ![i] = [impl[i] EXCEPT !.local = "raw"]]
      BY <1>1 DEF Data, DataFails, TypeOK
    <2>a. CASE impl' = [impl EXCEPT ![i] = [impl[i] EXCEPT !.local = "alias"]]
      BY <2>1, <2>2, <2>a
    <2>b. CASE impl' = [impl EXCEPT ![i] = [impl[i] EXCEPT !.local = "copy",
                                                !.data = Fetched(impl[i])]]
      BY <1>2, <2>b
    <2>c. CASE impl' = [impl EXCEPT ![i] = [impl[i] EXCEPT !.local = "raw"]]
      BY <2>1, <2>2, <2>c
    <2> QED
      BY <2>3, <2>a, <2>b, <2>c
  <1> DEFINE v == [impl[i] EXCEPT !.local = local, !.data = d]
  <1>4. /\ v \in ImplStates /\ v.local # "unborn"
        /\ v.offset = impl[i].offset /\ v.size = impl[i].size
    BY <1>1 DEF ImplStates
  <1>5. UNCHANGED <<site, bulk, handle, poked>>
    BY DEF Data, DataFails
  <1> HIDE DEF v, i
  <1>6. impl' = [impl EXCEPT ![i] = v]
    BY <1>3 DEF v
  <1>7. impl' \in [Impls -> ImplStates]
    BY <1>4, <1>6 DEF TypeOK
  <1>8. TypeOK'
    BY <1>1, <1>4, <1>5, <1>6, <1>7 DEF TypeOK
  <1>9. WindowsFit'
    BY <1>4, <1>6, <1>7, <1>1, SameWindows DEF TypeOK
  <1> QED
    BY <1>8, <1>9

LEMMA PokeWindows ==
    ASSUME TypeOK, WindowsFit, NEW h \in Handles, NEW k \in Positions, Poke(h, k)
    PROVE  (TypeOK /\ WindowsFit)'
  <1> DEFINE i == handle[h]
  <1>1. i \in Impls /\ impl[i] \in ImplStates /\ i \in Bytes
    BY DEF TypeOK, Poke, Bytes
  <1>2. poked' \in [Impls -> SUBSET Positions] /\ UNCHANGED <<site, handle>>
    BY <1>1 DEF Poke, TypeOK
  <1>3. CASE impl[i].local = "alias"
    <2>1. bulk' = [bulk EXCEPT ![k] = i] /\ UNCHANGED impl
      BY <1>3 DEF Poke
    <2>2. bulk' \in [Positions -> Bytes]
      BY <1>1, <2>1 DEF TypeOK
    <2> QED
      BY <1>2, <2>1, <2>2 DEF TypeOK, WindowsFit
  <1>4. CASE impl[i].local # "alias"
    <2> DEFINE v == [impl[i] EXCEPT !.data = [impl[i].data EXCEPT ![k] = i]]
    <2>1. impl' = [impl EXCEPT ![i] = v] /\ UNCHANGED bulk
      BY <1>4 DEF Poke
    <2>2. [impl[i].data EXCEPT ![k] = i] \in [Positions -> Bytes]
      BY <1>1 DEF ImplStates
    <2>3. /\ v \in ImplStates /\ v.local = impl[i].local
          /\ v.offset = impl[i].offset /\ v.size = impl[i].size
      BY <1>1, <2>2 DEF ImplStates
    <2> HIDE DEF v, i
    <2>4. impl' \in [Impls -> ImplStates]
      BY <2>1, <2>3 DEF TypeOK
    <2>5. \A j \in Impls : impl'[j].local = impl[j].local
      BY <2>1, <2>3 DEF TypeOK
    <2>6. TypeOK'
      BY <1>2, <2>1, <2>4, <2>5 DEF TypeOK
    <2>7. WindowsFit'
      BY <2>1, <2>3, <2>4, SameWindows DEF TypeOK
    <2> QED
      BY <2>6, <2>7
  <1> QED
    BY <1>3, <1>4

LEMMA HandleWindows ==
    ASSUME TypeOK, WindowsFit, NEW g \in Handles, NEW h \in Handles,
           Copy(g, h) \/ Move(g, h) \/ Destroy(h)
    PROVE  (TypeOK /\ WindowsFit)'
  <1>1. UNCHANGED <<site, impl, poked>> /\ Release(handle[h])
    BY DEF Copy, Move, Destroy
  <1>2. bulk' \in [Positions -> Bytes]
    BY <1>1, ReleaseType DEF TypeOK
  <1>3. \/ handle' = [handle EXCEPT ![h] = handle[g]]
        \/ handle' = [handle EXCEPT ![h] = handle[g], ![g] = Null]
        \/ handle' = [handle EXCEPT ![h] = Null]
    BY DEF Copy, Move, Destroy
  <1>4. /\ handle' \in [Handles -> Impls \cup {Null}]
        /\ \A x \in Handles : handle'[x] = Null
                                 \/ \E y \in Handles : handle'[x] = handle[y]
    BY <1>3 DEF TypeOK
  <1>5. TypeOK'
    BY <1>1, <1>2, <1>4 DEF TypeOK
  <1> QED
    BY <1>1, <1>5 DEF WindowsFit

LEMMA NextWindows == TypeOK /\ WindowsFit /\ [Next]_vars => (TypeOK /\ WindowsFit)'
  <1> SUFFICES ASSUME TypeOK, WindowsFit, [Next]_vars
               PROVE  (TypeOK /\ WindowsFit)'
    OBVIOUS
  <1>1. ASSUME NEW h \in Handles, NEW i \in Impls, NEW intent \in Intents,
               NEW offset \in OffsetArgs \cup {Default},
               NEW size \in SizeArgs \cup {Default},
               Construct(h, i, intent, offset, size)
        PROVE  (TypeOK /\ WindowsFit)'
    BY <1>1, ArgumentTypes, AcceptsDefaults, NewImplWindows DEF Construct
  <1>2. ASSUME NEW g \in Handles, NEW h \in Handles, NEW i \in Impls,
               FromJson(g, h, i)
        PROVE  (TypeOK /\ WindowsFit)'
    <2>1. impl[handle[g]] \in ImplStates
      BY <1>2 DEF FromJson, TypeOK
    <2> QED
      BY <1>2, <2>1, NewImplWindows DEF FromJson, ImplStates
  <1>3. ASSUME NEW h \in Handles, Data(h) \/ DataFails(h)
        PROVE  (TypeOK /\ WindowsFit)'
    BY <1>3, DataWindows
  <1>4. ASSUME NEW h \in Handles, NEW k \in Positions, Poke(h, k)
        PROVE  (TypeOK /\ WindowsFit)'
    BY <1>4, PokeWindows
  <1>5. ASSUME NEW g \in Handles, NEW h \in Handles,
               Copy(g, h) \/ Move(g, h) \/ Destroy(h)
        PROVE  (TypeOK /\ WindowsFit)'
    BY <1>5, HandleWindows
  <1>6. CASE UNCHANGED vars
    BY <1>6 DEF vars, TypeOK, WindowsFit, Fits
  <1> QED
    BY <1>1, <1>2, <1>3, <1>4, <1>5, <1>6 DEF Next

(* A view that the constructor accepted, directly or after a round trip     *)
(* through JSON, lies inside its bulk, whatever the width of size_t, unless *)
(* the sum the constructor checks wraps around.                            *)
THEOREM WindowsStayInside == Spec => [](TypeOK /\ WindowsFit)
  <1> QED
    BY InitWindows, NextWindows, PTL DEF Spec

(* The fields of the implementations have the types of the C++ members, and *)
(* every handle shares an implementation that was constructed.              *)
THEOREM TypesHold == Spec => []TypeOK
  <1> QED
    BY InitWindows, NextWindows, PTL DEF Spec
-----------------------------------------------------------------------------
(* The steps, by what they do to views *)

Begins(h, i) ==
    /\ handle[h] = Null /\ impl[i].local = "unborn"
    /\ handle' = [handle EXCEPT ![h] = i]
    /\ \A j \in Impls : j # i => impl'[j] = impl[j]
    /\ impl'[i].local = "null"
    /\ UNCHANGED <<site, bulk, poked>>

Prepares(i) ==
    /\ Alive(i) /\ impl[i].local = "null"
    /\ \A j \in Impls : j # i => impl'[j] = impl[j]
    /\ \A j \in Impls : /\ impl'[j].offset = impl[j].offset
                        /\ impl'[j].size = impl[j].size
                        /\ impl'[j].intent = impl[j].intent
    /\ \/ impl'[i].local = "alias"
       \/ impl'[i].local = "copy" /\ impl'[i].data = Fetched(impl[i])
       \/ impl'[i].local = "raw"
    /\ UNCHANGED <<site, bulk, handle, poked>>

Changes(i, k) ==
    /\ Alive(i) /\ impl[i].local \in {"alias", "copy", "raw"} /\ Covers(impl[i], k)
    /\ poked' = [poked EXCEPT ![i] = poked[i] \cup {k}]
    /\ \A j \in Impls : /\ impl'[j].offset = impl[j].offset
                        /\ impl'[j].size = impl[j].size
                        /\ impl'[j].intent = impl[j].intent
                        /\ impl'[j].local = impl[j].local
    /\ \A j \in Impls : j # i => impl'[j] = impl[j]
    /\ \/ impl[i].local = "alias" /\ bulk' = [bulk EXCEPT ![k] = i] /\ UNCHANGED impl
       \/ /\ impl[i].local # "alias" /\ UNCHANGED bulk
          /\ impl'[i].data = [impl[i].data EXCEPT ![k] = i]
    /\ UNCHANGED <<site, handle>>

Passes(h) ==
    /\ Release(handle[h])
    /\ \A i \in Impls : i # handle[h] => (Alive(i)' <=> Alive(i))
    /\ UNCHANGED <<site, impl, poked>>

LEMMA ViewSteps ==
    ASSUME TypeOK, [Next]_vars
    PROVE  \/ UNCHANGED vars
           \/ \E h \in Handles, i \in Impls : Begins(h, i)
           \/ \E i \in Impls : Prepares(i)
           \/ \E i \in Impls, k \in Positions : Changes(i, k)
           \/ \E h \in Handles : Passes(h)
  <1>1. ASSUME NEW h \in Handles, NEW i \in Impls, NEW intent, NEW offset, NEW size,
               NewImpl(h, i, intent, offset, size)
        PROVE  Begins(h, i)
    BY <1>1 DEF NewImpl, Begins, TypeOK
  <1>2. ASSUME NEW h \in Handles, Data(h) \/ DataFails(h) PROVE Prepares(handle[h])
    <2> DEFINE i == handle[h]
    <2>1. i \in Impls /\ Alive(i) /\ impl[i] \in ImplStates
      BY <1>2 DEF Data, DataFails, Alive, TypeOK
    <2>2. \/ impl' = [impl EXCEPT ![i] = [impl[i] EXCEPT !.local = "alias"]]
          \/ impl' = [impl EXCEPT ![i] = [impl[i] EXCEPT !.local = "copy",
                                                         !.data = Fetched(impl[i])]]
          \/ impl' = [impl EXCEPT ![i] = [impl[i] EXCEPT !.local = "raw"]]
      BY <1>2, <2>1 DEF Data, DataFails, TypeOK
    <2>3. impl[i].local = "null" /\ UNCHANGED <<site, bulk, handle, poked>>
      BY <1>2 DEF Data, DataFails
    <2> HIDE DEF i
    <2>4. \A j \in Impls : j # i => impl'[j] = impl[j]
      BY <2>1, <2>2 DEF TypeOK
    <2>5. /\ impl'[i].offset = impl[i].offset /\ impl'[i].size = impl[i].size
          /\ impl'[i].intent = impl[i].intent
          /\ \/ impl'[i].local = "alias"
             \/ impl'[i].local = "copy" /\ impl'[i].data = Fetched(impl[i])
             \/ impl'[i].local = "raw"
      <3>1. CASE impl' = [impl EXCEPT ![i] = [impl[i] EXCEPT !.local = "alias"]]
        BY <2>1, <3>1 DEF TypeOK, ImplStates
      <3>2. CASE impl' = [impl EXCEPT ![i] = [impl[i] EXCEPT !.local = "copy",
                                                  !.data = Fetched(impl[i])]]
        BY <2>1, <3>2 DEF TypeOK, ImplStates
      <3>3. CASE impl' = [impl EXCEPT ![i] = [impl[i] EXCEPT !.local = "raw"]]
        BY <2>1, <3>3 DEF TypeOK, ImplStates
      <3> QED
        BY <2>2, <3>1, <3>2, <3>3
    <2> QED
      BY <2>1, <2>3, <2>4, <2>5 DEF Prepares, i
  <1>3. ASSUME NEW h \in Handles, NEW k \in Positions, Poke(h, k)
        PROVE  Changes(handle[h], k)
    <2> DEFINE i == handle[h]
    <2>1. i \in Impls /\ Alive(i) /\ impl[i] \in ImplStates
      BY <1>3 DEF Poke, Alive, TypeOK
    <2>2. CASE impl[i].local = "alias"
      BY <1>3, <2>1, <2>2 DEF Poke, Changes
    <2>3. CASE impl[i].local # "alias"
      <3>1. impl' = [impl EXCEPT ![i] = [impl[i] EXCEPT !.data =
                                            [impl[i].data EXCEPT ![k] = i]]]
        BY <1>3, <2>3 DEF Poke
      <3>2. /\ impl[i].local \in {"copy", "raw"} /\ Covers(impl[i], k)
            /\ poked' = [poked EXCEPT ![i] = poked[i] \cup {k}]
            /\ UNCHANGED <<site, handle, bulk>>
        BY <1>3, <2>3 DEF Poke
      <3> HIDE DEF i
      <3>3. /\ \A j \in Impls : j # i => impl'[j] = impl[j]
            /\ impl'[i] = [impl[i] EXCEPT !.data = [impl[i].data EXCEPT ![k] = i]]
        BY <2>1, <3>1 DEF TypeOK
      <3>4. /\ impl'[i].offset = impl[i].offset /\ impl'[i].size = impl[i].size
            /\ impl'[i].intent = impl[i].intent /\ impl'[i].local = impl[i].local
            /\ impl'[i].data = [impl[i].data EXCEPT ![k] = i]
        BY <2>1, <3>3 DEF ImplStates
      <3> QED
        BY <2>1, <2>3, <3>2, <3>3, <3>4 DEF Changes, i
    <2> QED
      BY <2>2, <2>3
  <1>4. ASSUME NEW g \in Handles, NEW h \in Handles,
               Copy(g, h) \/ Move(g, h) \/ Destroy(h)
        PROVE  Passes(h)
    <2>1. Release(handle[h]) /\ UNCHANGED <<site, impl, poked>>
      BY <1>4 DEF Copy, Move, Destroy
    <2>2. \/ handle' = [handle EXCEPT ![h] = handle[g]]
          \/ handle' = [handle EXCEPT ![h] = handle[g], ![g] = Null] /\ g # h
          \/ handle' = [handle EXCEPT ![h] = Null]
      BY <1>4 DEF Copy, Move, Destroy
    <2>3. ASSUME NEW i \in Impls, i # handle[h] PROVE Alive(i)' <=> Alive(i)
      <3>1. Alive(i)' => Alive(i)
        BY <2>2, <2>3, NullAssumption DEF Alive, TypeOK
      <3>2. ASSUME NEW x \in Handles, handle[x] = i PROVE Alive(i)'
        <4>1. handle'[x] = i \/ (x = g /\ handle'[h] = i)
          BY <2>2, <2>3, <3>2 DEF TypeOK
        <4> QED
          BY <4>1 DEF Alive
      <3> QED
        BY <3>1, <3>2 DEF Alive
    <2> QED
      BY <2>1, <2>3 DEF Passes
  <1> QED
    BY <1>1, <1>2, <1>3, <1>4 DEF Next, Construct, FromJson, Data, DataFails, Poke, TypeOK
-----------------------------------------------------------------------------
(* What a push changes *)

LEMMA ReleaseTouches ==
    ASSUME TypeOK, NEW i \in Impls \cup {Null}, Release(i), NEW k \in Positions,
           bulk'[k] # bulk[k]
    PROVE  /\ i \in Impls /\ ~Alive(i)'
           /\ Covers(impl[i], k) /\ Writable(impl[i])
           /\ impl[i].local \in {"alias", "copy", "raw"}
           /\ impl[i].local = "alias" => impl[i].offset # 0
           /\ impl[i].local # "alias" => bulk'[k] = impl[i].data[k]
  <1>1. i \in Impls /\ ~Alive(i)' /\ bulk' \in Pushed(impl[i])
    BY DEF Release, Alive
  <1>2. impl[i].local \in {"unborn", "null", "alias", "copy", "raw"}
    BY <1>1 DEF TypeOK, ImplStates
  <1>3. Writable(impl[i]) /\ impl[i].local \in {"alias", "copy", "raw"}
    BY <1>1, <1>2 DEF Pushed
  <1>4. CASE impl[i].local \in {"copy", "raw"}
    <2>1. bulk' = [m \in Positions |->
                      IF Covers(impl[i], m) THEN impl[i].data[m] ELSE bulk[m]]
      BY <1>1, <1>3, <1>4 DEF Pushed
    <2> QED
      BY <1>1, <1>3, <1>4, <2>1
  <1>5. CASE impl[i].local = "alias"
    <2>1. PICK from \in Sources(impl[i]) : bulk' = [m \in Positions |-> bulk[from[m]]]
      BY <1>1, <1>3, <1>5 DEF Pushed
    <2>2. from[k] # k /\ from[k] \in Positions
      BY <2>1 DEF Sources
    <2>3. PICK j \in 1 .. BulkSize : Covers(impl[i], k) /\ from[k] + j * impl[i].offset = k
      BY <2>2 DEF Sources
    <2>4. impl[i].offset # 0
      <3>1. j * 0 = 0 /\ from[k] + 0 = from[k]
        BY <2>2, SizeAssumption DEF Positions
      <3> QED
        BY <2>2, <2>3, <3>1
    <2> QED
      BY <1>1, <1>3, <1>5, <2>3, <2>4
  <1> QED
    BY <1>3, <1>4, <1>5

(* A copied or fetched view leaves its bytes where it was a window on.      *)
LEMMA ReleaseDelivers ==
    ASSUME TypeOK, NEW i \in Impls, Release(i), ~Alive(i)', Writable(impl[i]),
           impl[i].local \in {"copy", "raw"}, NEW k \in Window(impl[i])
    PROVE  bulk'[k] = impl[i].data[k]
  <1>1. bulk' \in Pushed(impl[i])
    BY NullAssumption DEF Release, Alive
  <1>2. bulk' = [m \in Positions |->
                    IF Covers(impl[i], m) THEN impl[i].data[m] ELSE bulk[m]]
    BY <1>1 DEF Pushed
  <1> QED
    BY <1>2 DEF Window

(* The destructor of the last MemoryView on a MemoryViewImpl is the only    *)
(* place where a local copy is pushed: until then the owner's bytes do not  *)
(* change, unless data() gave a pointer to them.                            *)
THEOREM PushedByTheLast == Spec => OnlyDyingViewsPush
  <1> DEFINE Step == \A k \in Positions : bulk'[k] # bulk[k] =>
                         \E i \in Impls : /\ Covers(impl[i], k)
                                          /\ \/ impl[i].local = "alias"
                                             \/ Dead(i)' /\ ~Dead(i)
  <1>1. ASSUME TypeOK, [Next]_vars PROVE Step
    <2> SUFFICES ASSUME NEW k \in Positions, bulk'[k] # bulk[k]
                 PROVE  \E i \in Impls : /\ Covers(impl[i], k)
                                         /\ \/ impl[i].local = "alias"
                                            \/ Dead(i)' /\ ~Dead(i)
      OBVIOUS
    <2>1. ASSUME NEW i \in Impls, NEW m \in Positions, Changes(i, m)
          PROVE  Covers(impl[i], k) /\ impl[i].local = "alias"
      BY <1>1, <2>1 DEF Changes, TypeOK
    <2>2. ASSUME NEW h \in Handles, Passes(h)
          PROVE  \E i \in Impls : Covers(impl[i], k) /\ Dead(i)' /\ ~Dead(i)
      <3>0. PICK i \in Impls \cup {Null} : i = handle[h]
        BY <1>1 DEF TypeOK
      <3>1. i \in Impls /\ ~Alive(i)' /\ Covers(impl[i], k) /\ UNCHANGED impl
        BY <1>1, <2>2, <3>0, ReleaseTouches DEF Passes
      <3>2. Alive(i) /\ impl[i].local # "unborn"
        BY <1>1, <3>0, <3>1, NullAssumption DEF Alive, TypeOK
      <3> QED
        BY <3>1, <3>2 DEF Dead
    <2> QED
      BY <1>1, <2>1, <2>2, ViewSteps DEF Begins, Prepares, vars
  <1>2. TypeOK /\ [Next]_vars => [Step]_vars
    BY <1>1
  <1> QED
    BY <1>2, TypesHold, PTL DEF Spec, OnlyDyingViewsPush
-----------------------------------------------------------------------------
(* The life of a view *)

LEMMA InitViews == Init => BornInv /\ WritesInv /\ BytesInv
  BY DEF Init, BornInv, WritesInv, WritesHeld, BytesInv, Legitimate

LEMMA BornStep ==
    ASSUME TypeOK, BornInv, [Next]_vars
    PROVE  BornInv'
  <1> USE DEF BornInv
  <1>1. ASSUME NEW i \in Impls, NEW j \in Impls,
               impl'[j].offset = impl[j].offset, impl'[j].size = impl[j].size
        PROVE  Window(impl[j])' = Window(impl[j])
    BY <1>1 DEF Window, Covers
  <1>2. ASSUME NEW h \in Handles, NEW i \in Impls, Begins(h, i) PROVE BornInv'
    <2>1. ASSUME NEW j \in Impls, j # i PROVE Window(impl[j])' = Window(impl[j])
      BY <1>2, <2>1 DEF Begins, Window, Covers
    <2> QED
      BY <1>2, <2>1 DEF Begins
  <1>3. ASSUME NEW i \in Impls, Prepares(i) PROVE BornInv'
    <2>1. \A j \in Impls : Window(impl[j])' = Window(impl[j])
      BY <1>3 DEF Prepares, Window, Covers
    <2> QED
      BY <1>3, <2>1 DEF Prepares
  <1>4. ASSUME NEW i \in Impls, NEW k \in Positions, Changes(i, k) PROVE BornInv'
    <2>1. \A j \in Impls : Window(impl[j])' = Window(impl[j])
      BY <1>4 DEF Changes, Window, Covers
    <2>2. k \in Window(impl[i])
      BY <1>4 DEF Changes, Window
    <2>3. \A j \in Impls : poked'[j] = poked[j] \/ (j = i /\ poked'[j] = poked[j] \cup {k})
      BY <1>4 DEF Changes, TypeOK
    <2> QED
      BY <1>4, <2>1, <2>2, <2>3 DEF Changes
  <1>5. ASSUME NEW h \in Handles, Passes(h) PROVE BornInv'
    BY <1>5 DEF Passes, Window, Covers
  <1>6. CASE UNCHANGED vars
    BY <1>6 DEF vars, Window, Covers
  <1> QED
    BY <1>2, <1>3, <1>4, <1>5, <1>6, ViewSteps

(* Views only gain rivals: windows stay, and so do buffers.                 *)
LEMMA RivalsStay ==
    ASSUME TypeOK, BornInv, [Next]_vars, NEW i \in Impls, impl[i].local # "unborn"
    PROVE  /\ Rivals(i) \subseteq Rivals(i)'
           /\ Window(impl[i])' = Window(impl[i])
           /\ impl'[i].offset = impl[i].offset /\ impl'[i].intent = impl[i].intent
           /\ impl[i].local \in {"alias", "copy", "raw"} => impl'[i].local = impl[i].local
  <1>1. ASSUME NEW j \in Impls, impl[j].local # "unborn"
        PROVE  /\ impl'[j].offset = impl[j].offset /\ impl'[j].size = impl[j].size
               /\ impl'[j].intent = impl[j].intent
               /\ impl[j].local \in {"alias", "copy", "raw"} => impl'[j].local = impl[j].local
    <2>1. ASSUME NEW h \in Handles, NEW m \in Impls, Begins(h, m) PROVE impl'[j] = impl[j]
      BY <1>1, <2>1 DEF Begins
    <2>2. ASSUME NEW m \in Impls, Prepares(m)
          PROVE  /\ impl'[j].offset = impl[j].offset /\ impl'[j].size = impl[j].size
                 /\ impl'[j].intent = impl[j].intent
                 /\ impl[j].local \in {"alias", "copy", "raw"} => impl'[j] = impl[j]
      BY <2>2 DEF Prepares
    <2> QED
      BY <2>1, <2>2, ViewSteps DEF Changes, Passes, vars
  <1>2. ASSUME NEW j \in Impls, impl[j].local # "unborn"
        PROVE  Window(impl[j])' = Window(impl[j])
    BY <1>1, <1>2 DEF Window, Covers
  <1>3. ASSUME NEW j \in Rivals(i) PROVE j \in Rivals(i)'
    BY <1>1, <1>2, <1>3 DEF Rivals, Writable
  <1> QED
    BY <1>1, <1>2, <1>3
-----------------------------------------------------------------------------
(* Bytes that were written *)

LEMMA WritesStep ==
    ASSUME TypeOK, BornInv, WritesInv, [Next]_vars
    PROVE  WritesInv'
  <1> SUFFICES ASSUME NEW i \in Impls, Rivals(i)' = {},
                      impl'[i].local = "alias" => impl'[i].offset = 0,
                      NEW k \in poked'[i]
               PROVE  /\ impl'[i].local \in {"copy", "raw"} => impl'[i].data[k] = i
                      /\ impl'[i].local = "alias" \/ (Dead(i)' /\ Writable(impl[i])')
                            => bulk'[k] = i
    BY DEF WritesInv, WritesHeld
  <1> DEFINE Goal == /\ impl'[i].local \in {"copy", "raw"} => impl'[i].data[k] = i
                     /\ impl'[i].local = "alias" \/ (Dead(i)' /\ Writable(impl[i])')
                            => bulk'[k] = i
  <1>1. BornInv'
    BY BornStep
  <1>2. ASSUME NEW h \in Handles, NEW j \in Impls, Begins(h, j) PROVE Goal
    <2>1. i # j
      BY <1>2 DEF Begins, BornInv
    <2>2. impl'[i] = impl[i] /\ k \in poked[i] /\ UNCHANGED bulk
      BY <1>2, <2>1 DEF Begins
    <2>3. impl[i].local # "unborn"
      BY <2>2 DEF BornInv
    <2>4. Rivals(i) = {}
      BY <2>3, RivalsStay
    <2>5. Dead(i)' => Dead(i)
      <3>1. ASSUME NEW x \in Handles, handle[x] = i PROVE handle'[x] = i
        BY <1>2, <3>1, NullAssumption DEF Begins, TypeOK
      <3> QED
        BY <2>2, <3>1 DEF Dead, Alive
    <2> QED
      BY <2>2, <2>4, <2>5 DEF WritesInv, WritesHeld, Writable
  <1>3. ASSUME NEW j \in Impls, Prepares(j) PROVE Goal
    <2>1. i # j
      BY <1>3 DEF Prepares, BornInv
    <2>2. impl'[i] = impl[i] /\ k \in poked[i] /\ UNCHANGED <<bulk, handle>>
      BY <1>3, <2>1 DEF Prepares
    <2>3. impl[i].local # "unborn"
      BY <2>2 DEF BornInv
    <2>4. Rivals(i) = {}
      BY <2>3, RivalsStay
    <2> QED
      BY <2>2, <2>4 DEF WritesInv, WritesHeld, Writable, Dead, Alive
  <1>4. ASSUME NEW j \in Impls, NEW m \in Positions, Changes(j, m) PROVE Goal
    <2>1. UNCHANGED handle /\ impl'[i].local = impl[i].local
          /\ impl'[i].offset = impl[i].offset /\ impl'[i].intent = impl[i].intent
      BY <1>4 DEF Changes
    <2>2. impl[i].local # "unborn"
      BY <1>1, <2>1 DEF BornInv
    <2>3. Rivals(i) = {}
      BY <2>2, RivalsStay
    <2>4. Dead(i)' <=> Dead(i)
      BY <2>1 DEF Dead, Alive
    <2>5. CASE i = j
      <3>1. k = m \/ k \in poked[i]
        BY <1>4, <2>5 DEF Changes, TypeOK
      <3>2. impl[i].data \in [Positions -> Bytes] /\ bulk \in [Positions -> Bytes]
            /\ poked[i] \subseteq Positions
        BY DEF TypeOK, ImplStates
      <3>3. ~Dead(i)
        BY <1>4, <2>5 DEF Changes, Dead
      <3>4. CASE impl[i].local = "alias"
        BY <1>4, <2>1, <2>3, <2>4, <2>5, <3>1, <3>2, <3>3, <3>4
        DEF Changes, WritesInv, WritesHeld
      <3>5. CASE impl[i].local # "alias"
        <4>1. impl'[i].data = [impl[i].data EXCEPT ![m] = i]
          BY <1>4, <2>5, <3>5 DEF Changes
        <4> QED
          BY <2>1, <2>3, <2>4, <3>1, <3>2, <3>3, <3>5, <4>1 DEF WritesInv, WritesHeld
      <3> QED
        BY <3>4, <3>5
    <2>6. CASE i # j
      <3>1. k \in poked[i] /\ impl'[i] = impl[i] /\ k \in Window(impl[i])
        BY <1>4, <2>6 DEF Changes, TypeOK, BornInv
      <3>2. bulk'[k] = bulk[k]
        <4>1. CASE impl[j].local = "alias"
          <5>1. Window(impl[i]) \cap Window(impl[j]) = {}
            BY <2>3, <2>6, <4>1 DEF Rivals
          <5>2. k # m
            BY <1>4, <3>1, <5>1 DEF Changes, Window
          <5> QED
            BY <1>4, <4>1, <5>2 DEF Changes, TypeOK
        <4>2. CASE impl[j].local # "alias"
          BY <1>4, <4>2 DEF Changes
        <4> QED
          BY <4>1, <4>2
      <3> QED
        BY <2>3, <2>4, <3>1, <3>2 DEF WritesInv, WritesHeld, Writable
    <2> QED
      BY <2>5, <2>6
  <1>5. ASSUME NEW h \in Handles, Passes(h) PROVE Goal
    <2>1. PICK j \in Impls \cup {Null} : j = handle[h]
      BY DEF TypeOK
    <2>2. /\ UNCHANGED <<impl, poked>> /\ Release(j)
          /\ i # j => (Alive(i)' <=> Alive(i))
      BY <1>5, <2>1 DEF Passes
    <2>3. impl[i].local \in {"alias", "copy", "raw"} /\ k \in Window(impl[i])
          /\ k \in Positions
      BY <2>2 DEF BornInv, Window
    <2>4. Rivals(i) = {}
      BY <2>3, RivalsStay
    <2>5. /\ impl[i].local \in {"copy", "raw"} => impl[i].data[k] = i
          /\ impl[i].local = "alias" \/ (Dead(i) /\ Writable(impl[i])) => bulk[k] = i
      BY <2>2, <2>4 DEF WritesInv, WritesHeld
    <2>6. CASE i = j
      <3>1. impl[i].local = "alias" => bulk'[k] = bulk[k]
        BY <2>2, <2>3, <2>6, ReleaseTouches
      <3>2. Dead(i)' /\ Writable(impl[i]) /\ impl[i].local # "alias" =>
               bulk'[k] = impl[i].data[k]
        BY <2>2, <2>3, <2>6, ReleaseDelivers DEF Dead
      <3> QED
        BY <2>2, <2>3, <2>5, <3>1, <3>2 DEF Writable
    <2>7. CASE i # j
      <3>1. bulk'[k] = bulk[k]
        <4> SUFFICES ASSUME bulk'[k] # bulk[k] PROVE FALSE
          OBVIOUS
        <4>1. /\ j \in Impls /\ Covers(impl[j], k) /\ Writable(impl[j])
              /\ impl[j].local \in {"alias", "copy", "raw"}
          BY <2>2, <2>3, ReleaseTouches
        <4>2. j \in Rivals(i)
          BY <2>3, <2>7, <4>1 DEF Rivals, Window
        <4> QED
          BY <2>4, <4>2
      <3>2. Dead(i)' => Dead(i)
        BY <2>2, <2>7 DEF Dead
      <3> QED
        BY <2>2, <2>5, <3>1, <3>2 DEF Writable
    <2> QED
      BY <2>6, <2>7
  <1>6. CASE UNCHANGED vars
    BY <1>6 DEF vars, WritesInv, WritesHeld, Rivals, Window, Covers, Writable, Dead, Alive
  <1> QED
    BY <1>2, <1>3, <1>4, <1>5, <1>6, ViewSteps

(* MemoryViewImpl's destructor pushes the whole window from the buffer that  *)
(* data() returned, so no byte is lost that was written through any handle, *)
(* whichever handles were copied, moved or destroyed in between.            *)
THEOREM NothingWrittenLost == Spec => []WritesArrive
  <1> DEFINE IInv == TypeOK /\ WindowsFit /\ BornInv /\ WritesInv
  <1>1. Init => IInv
    BY InitWindows, InitViews
  <1>2. IInv /\ [Next]_vars => IInv'
    BY NextWindows, BornStep, WritesStep
  <1>3. IInv => WritesArrive
    BY DEF WritesInv, WritesHeld, WritesArrive, Arrived
  <1> QED
    BY <1>1, <1>2, <1>3, PTL DEF Spec
-----------------------------------------------------------------------------
(* Bytes that nobody wrote *)

(* What may be in a buffer may stay there.                                  *)
LegitimateNext(k, b) ==
    \/ b = OwnerByte
    \/ \E i \in Impls : k \in poked'[i] /\ b = i
    \/ \E i \in Impls : /\ Covers(impl'[i], k)
                        /\ impl'[i].intent = "OUT" \/ impl'[i].local = "raw"

LEMMA LegitimateStays ==
    ASSUME TypeOK, BornInv, [Next]_vars, NEW k \in Positions, NEW b, Legitimate(k, b)
    PROVE  LegitimateNext(k, b)
  <1>1. ASSUME NEW i \in Impls, k \in poked[i] PROVE k \in poked'[i]
    BY <1>1, ViewSteps DEF Begins, Prepares, Changes, Passes, vars, TypeOK
  <1>2. ASSUME NEW i \in Impls, Covers(impl[i], k) PROVE impl[i].local # "unborn"
    <2>1. k \in Nat
      BY SizeAssumption DEF Positions
    <2> QED
      BY <1>2, <2>1 DEF BornInv, Covers
  <1>3. ASSUME NEW i \in Impls, Covers(impl[i], k)
        PROVE  /\ Covers(impl'[i], k)
               /\ impl[i].intent = "OUT" => impl'[i].intent = "OUT"
               /\ impl[i].local = "raw" => impl'[i].local = "raw"
    <2>1. k \in Window(impl[i]) /\ impl[i].local # "unborn"
      BY <1>2, <1>3 DEF Window
    <2>2. k \in Window(impl[i])'
      BY <2>1, RivalsStay
    <2> QED
      BY <2>1, <2>2, RivalsStay DEF Window
  <1> QED
    BY <1>1, <1>3 DEF Legitimate, LegitimateNext

LEMMA BytesStep ==
    ASSUME TypeOK, BornInv, BytesInv, [Next]_vars
    PROVE  BytesInv'
  <1> SUFFICES ASSUME NoShift', NEW k \in Positions
               PROVE  /\ LegitimateNext(k, bulk'[k])
                      /\ \A i \in Impls : impl'[i].local = "copy" /\ Covers(impl'[i], k)
                                             => LegitimateNext(k, impl'[i].data[k])
    BY DEF BytesInv, Legitimate, LegitimateNext
  <1> DEFINE Goal == /\ LegitimateNext(k, bulk'[k])
                     /\ \A i \in Impls : impl'[i].local = "copy" /\ Covers(impl'[i], k)
                                             => LegitimateNext(k, impl'[i].data[k])
  <1>1. NoShift
    <2>1. ASSUME NEW i \in Impls, impl[i].local = "alias"
          PROVE  impl'[i].local = "alias" /\ impl'[i].offset = impl[i].offset
      BY <2>1, RivalsStay
    <2> QED
      BY <2>1 DEF NoShift
  <1>2. /\ Legitimate(k, bulk[k])
        /\ \A i \in Impls : impl[i].local = "copy" /\ Covers(impl[i], k)
                               => Legitimate(k, impl[i].data[k])
    BY <1>1 DEF BytesInv
  <1>3. /\ LegitimateNext(k, bulk[k])
        /\ \A i \in Impls : impl[i].local = "copy" /\ Covers(impl[i], k)
                               => LegitimateNext(k, impl[i].data[k])
    BY <1>2, LegitimateStays
  <1>4. ASSUME NEW h \in Handles, NEW j \in Impls, Begins(h, j) PROVE Goal
    BY <1>3, <1>4 DEF Begins
  <1>5. ASSUME NEW j \in Impls, Prepares(j) PROVE Goal
    <2>1. LegitimateNext(k, bulk'[k])
      BY <1>3, <1>5 DEF Prepares
    <2>2. ASSUME NEW i \in Impls, impl'[i].local = "copy", Covers(impl'[i], k)
          PROVE  LegitimateNext(k, impl'[i].data[k])
      <3>1. CASE i # j
        BY <1>3, <1>5, <2>2, <3>1 DEF Prepares
      <3>2. CASE i = j /\ impl[j].intent = "OUT"
        BY <1>5, <2>2, <3>2 DEF Prepares, LegitimateNext
      <3>3. CASE i = j /\ impl[j].intent # "OUT"
        <4>1. impl[j].intent \in {"IN", "INOUT"}
          BY <3>3 DEF TypeOK, ImplStates, Intents
        <4>2. Covers(impl[j], k) /\ impl'[j].data = Fetched(impl[j])
          BY <1>5, <2>2, <3>3 DEF Prepares, Covers
        <4>3. impl'[j].data[k] = bulk[k]
          BY <4>1, <4>2 DEF Fetched
        <4> QED
          BY <1>3, <3>3, <4>3
      <3> QED
        BY <3>1, <3>2, <3>3
    <2> QED
      BY <2>1, <2>2
  <1>6. ASSUME NEW j \in Impls, NEW m \in Positions, Changes(j, m) PROVE Goal
    <2>1. LegitimateNext(m, j)
      BY <1>6 DEF Changes, TypeOK, LegitimateNext
    <2>2. LegitimateNext(k, bulk'[k])
      BY <1>3, <1>6, <2>1 DEF Changes, TypeOK
    <2>3. ASSUME NEW i \in Impls, impl'[i].local = "copy", Covers(impl'[i], k)
          PROVE  LegitimateNext(k, impl'[i].data[k])
      <3>1. impl[i].local = "copy" /\ Covers(impl[i], k)
        BY <1>6, <2>3 DEF Changes, Covers
      <3>2. impl'[i].data[k] = impl[i].data[k] \/ (k = m /\ impl'[i].data[k] = j)
        BY <1>6, <3>1 DEF Changes, TypeOK, ImplStates
      <3> QED
        BY <1>3, <2>1, <3>1, <3>2
    <2> QED
      BY <2>2, <2>3
  <1>7. ASSUME NEW h \in Handles, Passes(h) PROVE Goal
    <2>1. PICK j \in Impls \cup {Null} : j = handle[h]
      BY DEF TypeOK
    <2>2. Release(j) /\ UNCHANGED <<site, impl, poked>>
      BY <1>7, <2>1 DEF Passes
    <2>3. ASSUME bulk'[k] # bulk[k] PROVE LegitimateNext(k, bulk'[k])
      <3>1. /\ j \in Impls /\ Covers(impl[j], k)
            /\ impl[j].local \in {"alias", "copy", "raw"}
            /\ impl[j].local = "alias" => impl[j].offset # 0
            /\ impl[j].local # "alias" => bulk'[k] = impl[j].data[k]
        BY <2>2, <2>3, ReleaseTouches
      <3>2. impl[j].local # "alias"
        BY <1>1, <3>1 DEF NoShift
      <3>3. CASE impl[j].local = "copy"
        BY <1>3, <3>1, <3>3
      <3>4. CASE impl[j].local = "raw"
        BY <2>2, <3>1, <3>4 DEF LegitimateNext
      <3> QED
        BY <3>1, <3>2, <3>3, <3>4
    <2> QED
      BY <1>3, <2>2, <2>3
  <1>8. CASE UNCHANGED vars
    BY <1>3, <1>8 DEF vars
  <1> QED
    BY <1>4, <1>5, <1>6, <1>7, <1>8, ViewSteps

(* A push copies the whole window, so what is in the local buffer beside the *)
(* bytes that were written matters: it is what the fetch found, unless the  *)
(* view is OUT or its fetch failed.                                        *)
THEOREM NothingElsePushed == Spec => []UnwrittenBytesKept
  <1> DEFINE IInv == TypeOK /\ WindowsFit /\ BornInv /\ BytesInv
  <1>1. Init => IInv
    BY InitWindows, InitViews
  <1>2. IInv /\ [Next]_vars => IInv'
    BY NextWindows, BornStep, BytesStep
  <1>3. IInv => UnwrittenBytesKept
    BY DEF BytesInv, NoShift, Legitimate, UnwrittenBytesKept
  <1> QED
    BY <1>1, <1>2, <1>3, PTL DEF Spec
=============================================================================
