------------------------- MODULE ScriptMemoryProofs -------------------------
(***************************************************************************)
(* What scripts read, write, fill, find, pack and unpack in a memory, for  *)
(* every length, every position and every content. memfill, the loops of   *)
(* mem_pack and mem_unpack, the search, the comparison and the number that *)
(* digits make up are recursive functions; induction is an argument about  *)
(* the least element of a set of numbers (Least), which a prover can use   *)
(* without instantiating an operator.                                      *)
(***************************************************************************)
EXTENDS ScriptMemory, NaturalsInduction, FiniteSetTheorems, SequenceTheorems, TLAPS

\* Every set of numbers has a least one: what takes the place of induction.
LEMMA Least ==
    ASSUME NEW T \in SUBSET Nat, T # {}
    PROVE  \E m \in T : \A k \in T : m <= k
  <1>1. PICK m \in T : \A k \in T : <<k, m>> \notin OpToRel(<, Nat)
    BY NatLessThanWellFounded, WFMin
  <1>2. \A k \in T : ~(k < m)
    BY <1>1 DEF OpToRel
  <1> QED  BY <1>2

\* Induction up to n, over a set in place of a predicate.
LEMMA Induction ==
    ASSUME NEW n \in Nat, NEW S, 0 \in S,
           \A c \in 1 .. n : c - 1 \in S => c \in S
    PROVE  \A c \in 0 .. n : c \in S
  <1> SUFFICES ASSUME NEW e \in 0 .. n, e \notin S  PROVE FALSE
    OBVIOUS
  <1> DEFINE T == {c \in 0 .. n : c \notin S}
  <1>1. T \in SUBSET Nat /\ T # {}
    OBVIOUS
  <1>2. PICK m \in T : \A k \in T : m <= k
    BY <1>1, Least
  <1>3. m \in 1 .. n /\ m - 1 \in 0 .. n /\ m - 1 \notin T
    BY <1>2
  <1> QED  BY <1>2, <1>3

\* f is computed from f[0] = a by the functions F[1], ..., F[n].
Computes(f, n, a, F) == f[0] = a /\ \A c \in 1 .. n : f[c] = F[c][f[c - 1]]

\* Recursive functions over 0 .. n exist, if their values have a type.
LEMMA Recursion ==
    ASSUME NEW n \in Nat, NEW M, NEW a \in M, NEW F \in [1 .. n -> [M -> M]]
    PROVE  \E f \in [0 .. n -> M] : Computes(f, n, a, F)
  <1> DEFINE S == {m \in 0 .. n : \E f \in [0 .. m -> M] : Computes(f, m, a, F)}
  <1>1. 0 \in S
    <2> DEFINE f == [c \in 0 .. 0 |-> a]
    <2>1. f \in [0 .. 0 -> M] /\ Computes(f, 0, a, F)
      BY DEF Computes
    <2> HIDE DEF f
    <2> QED  BY <2>1
  <1>2. ASSUME NEW m \in 1 .. n, m - 1 \in S  PROVE m \in S
    <2>1. PICK f \in [0 .. m - 1 -> M] : Computes(f, m - 1, a, F)
      BY <1>2
    <2> DEFINE g == [c \in 0 .. m |-> IF c = m THEN F[m][f[m - 1]] ELSE f[c]]
    <2>2. m - 1 \in 0 .. m - 1 /\ f[m - 1] \in M /\ F[m] \in [M -> M]
      OBVIOUS
    <2>3. g \in [0 .. m -> M]
      BY <2>2
    <2>4. g[0] = a
      BY <2>1 DEF Computes
    <2>5. ASSUME NEW c \in 1 .. m  PROVE g[c] = F[c][g[c - 1]]
      <3>1. c - 1 \in 0 .. m - 1 /\ g[c - 1] = f[c - 1]
        OBVIOUS
      <3>2. CASE c = m
        BY <3>1, <3>2
      <3>3. CASE c # m
        <4>1. c \in 1 .. m - 1 /\ g[c] = f[c]
          BY <3>3
        <4> QED  BY <2>1, <3>1, <4>1 DEF Computes
      <3> QED  BY <3>2, <3>3
    <2> HIDE DEF g
    <2>6. Computes(g, m, a, F) /\ m \in 0 .. n
      BY <2>4, <2>5 DEF Computes
    <2> QED  BY <2>3, <2>6
  <1>3. n \in S
    <2> HIDE DEF S
    <2>1. \A c \in 1 .. n : c - 1 \in S => c \in S
      BY <1>2
    <2>2. \A c \in 0 .. n : c \in S
      BY <1>1, <2>1, Induction
    <2> QED  BY <2>2
  <1> QED  BY <1>3

\* Stated for the nonlinear terms of the proofs below.
LEMMA Products ==
    ASSUME NEW a \in Nat, NEW b \in Nat
    PROVE  a * b \in Nat
  OBVIOUS

\* Functions on 1 .. len are sequences.
LEMMA FunctionIsSeq ==
    ASSUME NEW S, NEW len \in Nat, NEW m \in [1 .. len -> S]
    PROVE  m \in Seq(S) /\ Len(m) = len /\ DOMAIN m = 1 .. len
  <1>1. m \in Seq(S)
    BY SeqDef
  <1>2. DOMAIN m = 1 .. len
    OBVIOUS
  <1>3. Len(m) \in Nat /\ DOMAIN m = 1 .. Len(m)
    BY <1>1, LenProperties
  <1>4. Len(m) = len
    BY <1>2, <1>3
  <1> QED  BY <1>1, <1>2, <1>4

\* Sequences are functions on 1 .. their length.
LEMMA SeqIsFunction ==
    ASSUME NEW S, NEW m \in Seq(S)
    PROVE  m \in [1 .. Len(m) -> S] /\ Len(m) \in Nat /\ DOMAIN m = 1 .. Len(m)
  BY LenProperties

\* mem and new have the same bytes outside i .. i + n - 1.
SameOutside(mem, new, i, n) ==
    \A k \in DOMAIN mem : k \notin i .. i + n - 1 => new[k] = mem[k]

\* One memmove of memfill.
LEMMA TurnFills ==
    ASSUME NEW len \in Nat, NEW m \in [1 .. len -> Bytes], NEW i \in Int, NEW n \in Nat,
           NEW s, s = Self \/ s \in Seq(Bytes), NEW os \in Nat, os >= 1,
           NEW c \in Nat, c >= 1
    PROVE  /\ FillTurn(m, c, i, n, s, os) \in [1 .. len -> Bytes]
           /\ SameOutside(m, FillTurn(m, c, i, n, s, os), i, n)
  <1> DEFINE t == IF s = Self THEN m ELSE s
             chunk == Len(t) - os + 1
             first == i + (c - 1) * chunk
  <1>1. m \in Seq(Bytes) /\ Len(m) = len /\ DOMAIN m = 1 .. len
    BY FunctionIsSeq
  <1>2. t \in [1 .. Len(t) -> Bytes] /\ Len(t) \in Nat
    <2>1. t \in Seq(Bytes)
      BY <1>1
    <2> HIDE DEF t
    <2> QED  BY <2>1, SeqIsFunction
  <1>3. chunk \in Int
    <2> HIDE DEF t
    <2> QED  BY <1>2
  <1>4. first \in Int
    <2> HIDE DEF chunk
    <2> QED  BY <1>3
  <1>5. chunk >= 1 => first >= i
    <2> SUFFICES ASSUME chunk >= 1  PROVE first >= i
      OBVIOUS
    <2> HIDE DEF chunk
    <2>1. (c - 1) * chunk \in Nat
      BY <1>3, Products
    <2> QED  BY <2>1
  <1>6. FillTurn(m, c, i, n, s, os) =
           [k \in 1 .. len |-> IF k \in first .. first + chunk - 1 /\ k < i + n
                               THEN t[os + k - first] ELSE m[k]]
    BY <1>1 DEF FillTurn
  <1>7. ASSUME NEW k \in first .. first + chunk - 1
        PROVE  os + k - first \in 1 .. Len(t)
    <2> HIDE DEF t, first
    <2> QED  BY <1>2, <1>3, <1>4
  <1>8. ASSUME NEW k \in first .. first + chunk - 1
        PROVE  k >= i
    <2> HIDE DEF chunk, first
    <2> QED  BY <1>3, <1>4, <1>5
  <1> HIDE DEF t, chunk, first
  <1>9. ASSUME NEW k \in 1 .. len
        PROVE  FillTurn(m, c, i, n, s, os)[k] \in Bytes
    BY <1>2, <1>6, <1>7
  <1>10. ASSUME NEW k \in 1 .. len, k \notin i .. i + n - 1
         PROVE  FillTurn(m, c, i, n, s, os)[k] = m[k]
    <2>1. ~(k \in first .. first + chunk - 1 /\ k < i + n)
      BY <1>8, <1>10
    <2> QED  BY <1>6, <2>1
  <1> QED  BY <1>6, <1>9, <1>10 DEF SameOutside

\* f is the sequence of memories that memfill's memmoves leave.
Fills(f, mem, i, n, s, os) ==
    /\ f[0] = mem
    /\ \A c \in 1 .. n : f[c] = FillTurn(f[c - 1], c, i, n, s, os)
    /\ MemFill(mem, i, n, s, os) = f[n]

\* The recursive function of memfill has a value, and these are its values.
LEMMA FillRuns ==
    ASSUME NEW len \in Nat, NEW mem \in [1 .. len -> Bytes], NEW i \in Int, NEW n \in Nat,
           NEW s, s = Self \/ s \in Seq(Bytes), NEW os \in Nat, os >= 1
    PROVE  \E f \in [0 .. n -> [1 .. len -> Bytes]] : Fills(f, mem, i, n, s, os)
  <1> DEFINE M == [1 .. len -> Bytes]
             F == [c \in 1 .. n |-> [m \in M |-> FillTurn(m, c, i, n, s, os)]]
             Turns(f) == f = [c \in 0 .. n |->
                IF c = 0 THEN mem ELSE FillTurn(f[c - 1], c, i, n, s, os)]
             fill == CHOOSE f : Turns(f)
  <1>1. MemFill(mem, i, n, s, os) = fill[n]
    BY DEF MemFill
  <1>2. F \in [1 .. n -> [M -> M]]
    <2>1. ASSUME NEW c \in 1 .. n, NEW m \in M
          PROVE  FillTurn(m, c, i, n, s, os) \in M
      <3>1. c \in Nat /\ c >= 1
        OBVIOUS
      <3> QED  BY <3>1, TurnFills
    <2> HIDE DEF M
    <2> QED  BY <2>1
  <1>3. PICK g \in [0 .. n -> M] : Computes(g, n, mem, F)
    <2> HIDE DEF F, M
    <2>1. mem \in M
      BY DEF M
    <2> QED  BY <1>2, <2>1, Recursion
  <1>4. Turns(g)
    <2>1. \A c \in 1 .. n : g[c - 1] \in M
      <3> HIDE DEF M
      <3> QED  OBVIOUS
    <2>2. \A c \in 1 .. n : F[c][g[c - 1]] = FillTurn(g[c - 1], c, i, n, s, os)
      <3> HIDE DEF M
      <3> QED  BY <2>1
    <2> HIDE DEF F, M
    <2>3. \A c \in 0 .. n : g[c] =
             IF c = 0 THEN mem ELSE FillTurn(g[c - 1], c, i, n, s, os)
      BY <1>3, <2>2 DEF Computes
    <2> DEFINE h == [c \in 0 .. n |->
                IF c = 0 THEN mem ELSE FillTurn(g[c - 1], c, i, n, s, os)]
    <2>4. g = h
      BY <2>3
    <2> QED  BY <2>4
  <1>5. Turns(fill)
    <2> HIDE DEF Turns
    <2> QED  BY <1>4
  <1> HIDE DEF fill
  <1>6. /\ fill[0] = mem
        /\ \A c \in 1 .. n : fill[c] = FillTurn(fill[c - 1], c, i, n, s, os)
    BY <1>5
  <1>7. \A c \in 0 .. n : fill[c] \in M
    <2> DEFINE S == {c \in 0 .. n : fill[c] \in M}
    <2>1. 0 \in S
      BY <1>6
    <2>2. ASSUME NEW c \in 1 .. n, c - 1 \in S  PROVE c \in S
      <3>1. fill[c - 1] \in M
        BY <2>2
      <3>2. c \in Nat /\ c >= 1 /\ c \in 0 .. n
        OBVIOUS
      <3>3. FillTurn(fill[c - 1], c, i, n, s, os) \in M
        BY <3>1, <3>2, TurnFills
      <3> QED  BY <1>6, <3>2, <3>3
    <2> HIDE DEF S
    <2>3. \A c \in 0 .. n : c \in S
      BY <2>1, <2>2, Induction
    <2> QED  BY <2>3 DEF S
  <1>8. fill \in [0 .. n -> M]
    <2> HIDE DEF M
    <2> QED  BY <1>5, <1>7
  <1> QED  BY <1>1, <1>6, <1>8 DEF Fills

\* memfill keeps the length, and every byte outside i .. i + n - 1.
LEMMA FillKeeps ==
    ASSUME NEW mem \in Seq(Bytes), NEW i \in Int, NEW n \in Nat,
           NEW s, s = Self \/ s \in Seq(Bytes), NEW os \in Nat, os >= 1
    PROVE  /\ MemFill(mem, i, n, s, os) \in Seq(Bytes)
           /\ Len(MemFill(mem, i, n, s, os)) = Len(mem)
           /\ SameOutside(mem, MemFill(mem, i, n, s, os), i, n)
  <1> DEFINE len == Len(mem)
  <1>1. len \in Nat /\ mem \in [1 .. len -> Bytes]
    BY SeqIsFunction
  <1> HIDE DEF len
  <1>2. PICK f \in [0 .. n -> [1 .. len -> Bytes]] : Fills(f, mem, i, n, s, os)
    BY <1>1, FillRuns
  <1> DEFINE S == {c \in 0 .. n : SameOutside(mem, f[c], i, n)}
  <1>3. 0 \in S
    BY <1>2 DEF Fills, SameOutside
  <1>4. ASSUME NEW c \in 1 .. n, c - 1 \in S  PROVE c \in S
    <2>1. f[c - 1] \in [1 .. len -> Bytes] /\ c \in Nat /\ c >= 1
      OBVIOUS
    <2>2. SameOutside(f[c - 1], FillTurn(f[c - 1], c, i, n, s, os), i, n)
      BY <1>1, <2>1, TurnFills
    <2>3. SameOutside(f[c - 1], f[c], i, n) /\ SameOutside(mem, f[c - 1], i, n)
      BY <1>2, <1>4, <2>2 DEF Fills
    <2>4. SameOutside(mem, f[c], i, n)
      BY <1>1, <2>1, <2>3 DEF SameOutside
    <2> QED  BY <2>4
  <1> HIDE DEF S
  <1>5. n \in S
    <2>1. \A c \in 0 .. n : c \in S
      BY <1>3, <1>4, Induction
    <2> QED  BY <2>1
  <1>6. f[n] \in [1 .. len -> Bytes]
    OBVIOUS
  <1>7. f[n] \in Seq(Bytes) /\ Len(f[n]) = len
    BY <1>1, <1>6, FunctionIsSeq
  <1> QED  BY <1>2, <1>5, <1>7 DEF S, len, Fills

-----------------------------------------------------------------------------
\* Positions and slices.

\* Where posrelatI and getendpos put a position.
LEMMA Clipped ==
    ASSUME NEW len \in Nat, NEW pos \in Int
    PROVE  /\ PosRelat(pos, len) \in Nat /\ PosRelat(pos, len) >= 1
           /\ EndPos(pos, len) \in 0 .. len
  <1>1. CASE pos > 0
    BY <1>1 DEF PosRelat, EndPos
  <1>2. CASE pos = 0
    BY <1>2 DEF PosRelat, EndPos
  <1>3. CASE pos < 0 /\ pos < -len
    BY <1>3 DEF PosRelat, EndPos
  <1>4. CASE pos < 0 /\ ~(pos < -len)
    BY <1>4 DEF PosRelat, EndPos
  <1> QED  BY <1>1, <1>2, <1>3, <1>4

\* posrelatI keeps exactly the positions that are not before pos.
LEMMA StartsAtPosition ==
    ASSUME NEW len \in Nat, NEW pos \in Int, NEW k \in 1 .. len
    PROVE  k >= PosRelat(pos, len) <=> NotBefore(k, pos, len)
  BY DEF PosRelat, NotBefore

\* getendpos keeps exactly the positions that are not after pos.
LEMMA EndsAtPosition ==
    ASSUME NEW len \in Nat, NEW pos \in Int, NEW k \in 1 .. len
    PROVE  k <= EndPos(pos, len) <=> NotAfter(k, pos, len)
  BY DEF EndPos, NotAfter

\* mem_get, mem_tostring, mem_find, mem_fill and mem_create never leave the
\* memory: whenever the start is not behind the end, both are positions of it.
THEOREM SliceInside ==
    ASSUME NEW len \in Nat, NEW i \in Int, NEW j \in Int,
           PosRelat(i, len) <= EndPos(j, len)
    PROVE  1 <= PosRelat(i, len) /\ EndPos(j, len) <= len
  BY Clipped

\* ... and the slice they take is the window that i and j denote, negative
\* positions, positions past either end and empty slices included.
THEOREM SliceIsWindow ==
    ASSUME NEW len \in Nat, NEW i \in Int, NEW j \in Int
    PROVE  PosRelat(i, len) .. EndPos(j, len) = Window(i, j, len)
  <1>1. ASSUME NEW k \in PosRelat(i, len) .. EndPos(j, len)
        PROVE  k \in Window(i, j, len)
    <2>1. PosRelat(i, len) \in Nat /\ EndPos(j, len) \in 0 .. len
      BY Clipped
    <2>2. k >= PosRelat(i, len) /\ k <= EndPos(j, len) /\ k \in 1 .. len
      BY <2>1, Clipped
    <2>3. NotBefore(k, i, len) /\ NotAfter(k, j, len)
      BY <2>2, StartsAtPosition, EndsAtPosition
    <2> QED  BY <2>2, <2>3 DEF Window
  <1>2. ASSUME NEW k \in Window(i, j, len)
        PROVE  k \in PosRelat(i, len) .. EndPos(j, len)
    <2>1. k \in 1 .. len /\ NotBefore(k, i, len) /\ NotAfter(k, j, len)
      BY <1>2 DEF Window
    <2>2. k >= PosRelat(i, len) /\ k <= EndPos(j, len)
      BY <2>1, StartsAtPosition, EndsAtPosition
    <2> QED  BY <2>1, <2>2, Clipped
  <1> QED  BY <1>1, <1>2

\* SubSeq and Slice agree, for a sequence and its own positions.
LEMMA SubSeqIsSlice ==
    ASSUME NEW s \in Seq(Bytes), NEW i \in Int, NEW j \in Int
    PROVE  SubSeq(s, PosRelat(i, Len(s)), EndPos(j, Len(s))) = Slice(s, i, j)
  <1> DEFINE from == PosRelat(i, Len(s))
             to == EndPos(j, Len(s))
             w == Window(i, j, Len(s))
  <1>0. Len(s) \in Nat
    OBVIOUS
  <1>1. /\ from \in Nat /\ from >= 1 /\ to \in 0 .. Len(s)
    BY <1>0, Clipped
  <1>2. w = from .. to
    BY <1>0, SliceIsWindow
  <1>3. Cardinality(w) = IF from > to THEN 0 ELSE to - from + 1
    <2>1. from \in Int /\ to \in Int
      BY <1>0, <1>1
    <2>2. Cardinality(from .. to) = IF from > to THEN 0 ELSE to - from + 1
      BY <2>1, FS_Interval
    <2> QED  BY <2>2, <1>2
  <1>4. CASE from > to
    <2>1. SubSeq(s, from, to) = <<>>
      BY <1>0, <1>1, <1>4
    <2>2. Slice(s, i, j) = <<>>
      BY <1>3, <1>4 DEF Slice
    <2> QED  BY <2>1, <2>2
  <1>5. CASE from <= to
    <2>1. Min(w) = from
      <3>1. from \in w /\ \A y \in w : from <= y
        BY <1>1, <1>2, <1>5
      <3>2. \A x \in w : (\A y \in w : x <= y) => x = from
        BY <1>1, <1>2, <3>1
      <3> QED  BY <3>1, <3>2 DEF Min
    <2>2. SubSeq(s, from, to) = [k \in 1 .. to - from + 1 |-> s[from + k - 1]]
      BY <1>1, <1>5
    <2>3. Slice(s, i, j) = [k \in 1 .. to - from + 1 |-> s[from - 1 + k]]
      BY <1>1, <1>3, <1>5, <2>1 DEF Slice
    <2>4. ASSUME NEW k \in 1 .. to - from + 1
          PROVE  from + k - 1 = from - 1 + k
      BY <1>1
    <2> QED  BY <2>2, <2>3, <2>4
  <1> QED  BY <1>1, <1>4, <1>5

\* What get, tostring and create return is what the positions denote, for a
\* memory of any length: the part of ReadsDenoted that is about Lua.
THEOREM SlicesDenoted ==
    ASSUME bytes \in Seq(Bytes), NEW i \in Int, NEW j \in Int
    PROVE  /\ Get(i, j) \/ MemToString(i, j) => answer'.value = Slice(bytes, i, j)
           /\ CreateCopy(Self, i, j) => bytes' = Slice(bytes, i, j)
  <1>1. ASSUME Get(i, j)
        PROVE  answer'.value = Slice(bytes, i, j)
    BY <1>1, SubSeqIsSlice DEF Get, Answers, Size
  <1>2. ASSUME MemToString(i, j)
        PROVE  answer'.value = Slice(bytes, i, j)
    BY <1>2, SubSeqIsSlice DEF MemToString, Answers, Size
  <1>3. ASSUME CreateCopy(Self, i, j)
        PROVE  bytes' = Slice(bytes, i, j)
    BY <1>3, SubSeqIsSlice DEF CreateCopy, Array
  <1> QED  BY <1>1, <1>2, <1>3

-----------------------------------------------------------------------------
\* mem_pack: options and pieces.

\* mem_pack

\* The header of a format: byte order and maximal alignment.
Headers == [little : BOOLEAN, maxalign : Nat]

\* The states of mem_pack's loop, for a memory of len bytes.
PackStates(len) ==
    [mem : [1 .. len -> Bytes], i : Nat, h : Headers, used : Nat,
     end : {"running", "failed", "error"}]

\* From st to new the loop has only written behind st.i.
Onwards(st, new) ==
    /\ new.i >= st.i
    /\ \A k \in DOMAIN st.mem : k <= st.i => new.mem[k] = st.mem[k]

\* new is a state of the loop that follows from st by writing onwards.
Stays(len, st, new) == new \in PackStates(len) /\ Onwards(st, new)

\* Steps of the loop compose.
LEMMA StaysTransitive ==
    ASSUME NEW len \in Nat, NEW a \in PackStates(len), NEW b, NEW c,
           Stays(len, a, b), Stays(len, b, c)
    PROVE  Stays(len, a, c)
  <1>0. /\ b \in PackStates(len) /\ Onwards(a, b)
        /\ c \in PackStates(len) /\ Onwards(b, c)
    BY DEF Stays
  <1>1. /\ DOMAIN a.mem = 1 .. len /\ DOMAIN b.mem = 1 .. len
        /\ a.i \in Nat /\ b.i \in Nat /\ c.i \in Nat
    BY <1>0 DEF PackStates
  <1>2. b.i >= a.i /\ c.i >= b.i
    BY <1>0 DEF Onwards
  <1>3. c.i >= a.i
    BY <1>1, <1>2
  <1>4. ASSUME NEW k \in 1 .. len, k <= a.i  PROVE c.mem[k] = a.mem[k]
    <2>1. k <= b.i
      BY <1>1, <1>2, <1>4
    <2> QED  BY <1>0, <1>1, <1>4, <2>1 DEF Onwards
  <1> QED  BY <1>0, <1>1, <1>3, <1>4 DEF Onwards, Stays

\* getbytes and packchar write behind the position they move, or nothing.
LEMMA PutStays ==
    ASSUME NEW len \in Nat, NEW st \in PackStates(len), NEW piece \in Seq(Bytes)
    PROVE  Stays(len, st, Put(st, piece))
  <1> DEFINE new == [d \in DOMAIN st.mem |->
                        IF d \in st.i + 1 .. st.i + Len(piece)
                        THEN piece[d - st.i] ELSE st.mem[d]]
  <1>1. /\ st.mem \in [1 .. len -> Bytes] /\ DOMAIN st.mem = 1 .. len /\ st.i \in Nat
        /\ Len(piece) \in Nat /\ piece \in [1 .. Len(piece) -> Bytes]
    BY SeqIsFunction DEF PackStates
  <1>2. CASE st.end # "running"
    BY <1>1, <1>2 DEF Put, Onwards, Stays
  <1>3. CASE st.end = "running" /\ st.i + Len(piece) > Len(st.mem)
    <2>1. Put(st, piece) = [st EXCEPT !.end = "failed"]
      BY <1>3 DEF Put
    <2> QED  BY <1>1, <2>1 DEF PackStates, Onwards, Stays
  <1>4. CASE st.end = "running" /\ ~(st.i + Len(piece) > Len(st.mem))
    <2>1. Put(st, piece) = [st EXCEPT !.mem = new, !.i = @ + Len(piece)]
      BY <1>4 DEF Put
    <2>2. new \in [1 .. len -> Bytes]
      <3>1. ASSUME NEW d \in 1 .. len  PROVE new[d] \in Bytes
        <4>1. CASE d \in st.i + 1 .. st.i + Len(piece)
          <5>1. d - st.i \in 1 .. Len(piece)
            BY <1>1, <4>1
          <5> QED  BY <1>1, <4>1, <5>1
        <4>2. CASE d \notin st.i + 1 .. st.i + Len(piece)
          BY <1>1, <4>2
        <4> QED  BY <4>1, <4>2
      <3> QED  BY <1>1, <3>1
    <2>3. ASSUME NEW k \in 1 .. len, k <= st.i  PROVE new[k] = st.mem[k]
      BY <1>1, <2>3
    <2> HIDE DEF new
    <2>4. Put(st, piece).mem = new /\ Put(st, piece).i = st.i + Len(piece)
      BY <2>1 DEF PackStates
    <2>5. Put(st, piece) \in PackStates(len)
      <3> DEFINE i == st.i + Len(piece)
      <3>1. i \in Nat
        BY <1>1
      <3>2. Put(st, piece) = [st EXCEPT !.mem = new, !.i = i]
        BY <2>1
      <3> HIDE DEF i
      <3> QED  BY <2>2, <3>1, <3>2 DEF PackStates
    <2> QED  BY <1>1, <2>3, <2>4, <2>5 DEF Onwards, Stays
  <1> QED  BY <1>2, <1>3, <1>4

\* The recursive function of the powers of Base has a value, and these are its
\* values.
LEMMA Powers ==
    /\ Power \in [0 .. SzInt -> Nat] /\ Power[0] = 1
    /\ \A d \in 1 .. SzInt : Power[d] = Base * Power[d - 1]
    /\ \A d \in 0 .. SzInt : Power[d] >= 1
  <1> DEFINE F == [c \in 1 .. SzInt |-> [m \in Nat |-> Base * m]]
             Turns(f) == f = [n \in 0 .. SzInt |-> IF n = 0 THEN 1 ELSE Base * f[n - 1]]
  <1>0. SzInt \in Nat /\ Base \in Nat /\ Base > 1
    BY BaseAssumption, WidthAssumption
  <1>1. F \in [1 .. SzInt -> [Nat -> Nat]]
    BY <1>0, Products
  <1>2. PICK g \in [0 .. SzInt -> Nat] : Computes(g, SzInt, 1, F)
    <2> HIDE DEF F
    <2>1. 1 \in Nat
      OBVIOUS
    <2> QED  BY <1>0, <1>1, <2>1, Recursion
  <1>3. Turns(g)
    <2>1. \A n \in 0 .. SzInt : g[n] = IF n = 0 THEN 1 ELSE Base * g[n - 1]
      <3>1. ASSUME NEW n \in 1 .. SzInt  PROVE g[n] = Base * g[n - 1]
        <4>1. n - 1 \in 0 .. SzInt /\ g[n - 1] \in Nat
          BY <1>0
        <4>2. F[n][g[n - 1]] = Base * g[n - 1]
          BY <4>1
        <4> QED  BY <1>2, <4>2 DEF Computes
      <3> QED  BY <1>0, <1>2, <3>1 DEF Computes
    <2> DEFINE h == [n \in 0 .. SzInt |-> IF n = 0 THEN 1 ELSE Base * g[n - 1]]
    <2>2. g = h
      BY <2>1
    <2> QED  BY <2>2
  <1>4. Turns(Power)
    <2>1. Power = CHOOSE f : Turns(f)
      BY DEF Power
    <2> HIDE DEF Turns
    <2> QED  BY <1>3, <2>1
  <1>5. /\ Power[0] = 1
        /\ \A d \in 1 .. SzInt : Power[d] = Base * Power[d - 1]
    BY <1>0, <1>4
  <1> DEFINE S == {d \in 0 .. SzInt : Power[d] \in Nat /\ Power[d] >= 1}
  <1>6. 0 \in S
    BY <1>0, <1>5
  <1>7. ASSUME NEW d \in 1 .. SzInt, d - 1 \in S  PROVE d \in S
    <2>1. \A m \in Nat : m >= 1 => Base * m \in Nat /\ Base * m >= 1
      BY <1>0
    <2>2. Power[d - 1] \in Nat /\ Power[d - 1] >= 1
      BY <1>7
    <2>3. Power[d] \in Nat /\ Power[d] >= 1
      BY <1>5, <2>1, <2>2
    <2>4. d \in 0 .. SzInt
      BY <1>0
    <2> QED  BY <2>3, <2>4
  <1> HIDE DEF S
  <1>8. \A d \in 0 .. SzInt : d \in S
    BY <1>0, <1>6, <1>7, Induction
  <1>9. \A d \in 0 .. SzInt : Power[d] \in Nat /\ Power[d] >= 1
    BY <1>8 DEF S
  <1>10. Power \in [0 .. SzInt -> Nat]
    BY <1>4, <1>9
  <1> QED  BY <1>5, <1>9, <1>10

\* A digit of a number is a byte.
LEMMA DigitIsByte ==
    ASSUME NEW n \in Int, NEW p \in Int, NEW q \in Int
    PROVE  ((n % p) \div q) % Base \in Bytes
  BY BaseAssumption DEF Bytes

\* packint writes bytes.
LEMMA DigitsAreBytes ==
    ASSUME NEW n \in Int, NEW size \in Nat, NEW neg \in BOOLEAN, NEW h
    PROVE  Ordered(h, Digits(n, size, neg)) \in Seq(Bytes)
  <1> DEFINE p == Power[SzInt]
             q(d) == Power[d - 1]
  <1>1. p \in Int /\ \A d \in 1 .. size : d <= SzInt => q(d) \in Int
    BY WidthAssumption, Powers
  <1>2. ASSUME NEW d \in 1 .. size, d <= SzInt
        PROVE  ((n % p) \div q(d)) % Base \in Bytes
    <2>1. q(d) \in Int /\ p \in Int
      BY <1>1, <1>2
    <2> HIDE DEF p, q
    <2> QED  BY <2>1, DigitIsByte
  <1>3. 0 \in Bytes /\ Base - 1 \in Bytes
    BY BaseAssumption DEF Bytes
  <1>4. ASSUME NEW d \in 1 .. size  PROVE Digits(n, size, neg)[d] \in Bytes
    BY <1>2, <1>3 DEF Digits
  <1> DEFINE s == Digits(n, size, neg)
  <1>5. s \in [1 .. size -> Bytes]
    <2>1. s = [d \in 1 .. size |-> s[d]]
      BY DEF Digits
    <2> HIDE DEF s
    <2> QED  BY <1>4, <2>1 DEF s
  <1> HIDE DEF s
  <1>6. s \in Seq(Bytes) /\ Len(s) = size
    BY <1>5, FunctionIsSeq
  <1>7. Reverse(s) \in [1 .. size -> Bytes]
    <2>1. \A d \in 1 .. size : Len(s) - d + 1 \in 1 .. size
      BY <1>6
    <2> QED  BY <1>5, <1>6, <2>1 DEF Reverse
  <1>8. Reverse(s) \in Seq(Bytes)
    BY <1>7, FunctionIsSeq
  <1> QED  BY <1>6, <1>8 DEF Ordered, s

\* What packstream writes for one option: one or two strings.
ArePieces(pieces) ==
    /\ Len(pieces) \in 1 .. 2
    /\ \A k \in 1 .. Len(pieces) : pieces[k] \in Seq(Bytes)

\* One string is a list of pieces.
LEMMA OnePiece ==
    ASSUME NEW a \in Seq(Bytes)
    PROVE  ArePieces(<<a>>)
  BY DEF ArePieces

\* So are two strings.
LEMMA TwoPieces ==
    ASSUME NEW a \in Seq(Bytes), NEW b \in Seq(Bytes)
    PROVE  ArePieces(<<a, b>>)
  BY DEF ArePieces

\* What is written for an argument that mem_pack accepts is bytes.
LEMMA PiecesAreBytes ==
    ASSUME NEW h \in Headers, NEW o \in Options, NEW x, TakesArgument(o), Packable(o, x)
    PROVE  ArePieces(Pieces(h, o, x))
  <1>1. o.n \in Nat
    BY DEF Options
  <1>2. CASE o.k = "int"
    <2>1. x \in Int /\ (x < 0) \in BOOLEAN
      BY <1>2 DEF Packable, HasType, FitsInteger
    <2>2. Pieces(h, o, x) = <<Ordered(h, Digits(x, o.n, x < 0))>>
      BY <1>2 DEF Pieces
    <2>3. Ordered(h, Digits(x, o.n, x < 0)) \in Seq(Bytes)
      BY <1>1, <2>1, DigitsAreBytes
    <2> QED  BY <2>2, <2>3, OnePiece
  <1>3. CASE o.k = "uint"
    <2>1. x \in Int /\ FALSE \in BOOLEAN
      BY <1>3 DEF Packable, HasType, FitsInteger
    <2>2. Pieces(h, o, x) = <<Ordered(h, Digits(x, o.n, FALSE))>>
      BY <1>3 DEF Pieces
    <2>3. Ordered(h, Digits(x, o.n, FALSE)) \in Seq(Bytes)
      BY <1>1, <2>1, DigitsAreBytes
    <2> QED  BY <2>2, <2>3, OnePiece
  <1>4. CASE o.k = "char"
    <2>1. x \in Seq(Bytes)
      BY <1>4 DEF Packable, HasType
    <2>2. Pieces(h, o, x) = <<x>>
      BY <1>4 DEF Pieces
    <2> QED  BY <2>1, <2>2, OnePiece
  <1>5. CASE o.k = "string"
    <2>1. x \in Seq(Bytes) /\ Len(x) \in Int /\ FALSE \in BOOLEAN
      BY <1>5 DEF Packable, HasType
    <2>2. Pieces(h, o, x) = <<Ordered(h, Digits(Len(x), o.n, FALSE)), x>>
      BY <1>5 DEF Pieces
    <2>3. Ordered(h, Digits(Len(x), o.n, FALSE)) \in Seq(Bytes)
      BY <1>1, <2>1, DigitsAreBytes
    <2> QED  BY <2>1, <2>2, <2>3, TwoPieces
  <1>6. CASE o.k = "zstr"
    <2>1. x \in Seq(Bytes) /\ <<0>> \in Seq(Bytes)
      BY <1>6, BaseAssumption DEF Packable, HasType, Bytes
    <2>2. Pieces(h, o, x) = <<x, <<0>>>>
      BY <1>6 DEF Pieces
    <2> QED  BY <2>1, <2>2, TwoPieces
  <1> QED  BY <1>2, <1>3, <1>4, <1>5, <1>6 DEF TakesArgument

\* The pieces of an option are written onwards.
LEMMA PutAllStays ==
    ASSUME NEW len \in Nat, NEW st \in PackStates(len), NEW pieces, ArePieces(pieces)
    PROVE  Stays(len, st, PutAll(st, pieces))
  <1> DEFINE one == Put(st, pieces[1])
  <1>1. pieces[1] \in Seq(Bytes)
    BY DEF ArePieces
  <1>2. Stays(len, st, one)
    BY <1>1, PutStays
  <1>3. CASE Len(pieces) = 1
    BY <1>2, <1>3 DEF PutAll
  <1>4. CASE Len(pieces) = 2
    <2>1. pieces[2] \in Seq(Bytes)
      BY <1>4 DEF ArePieces
    <2>2. PutAll(st, pieces) = Put(one, pieces[2])
      BY <1>4 DEF PutAll
    <2> HIDE DEF one
    <2>3. one \in PackStates(len)
      BY <1>2 DEF Stays
    <2>4. Stays(len, one, Put(one, pieces[2]))
      BY <2>1, <2>3, PutStays
    <2> QED  BY <1>2, <2>2, <2>4, StaysTransitive
  <1> QED  BY <1>3, <1>4 DEF ArePieces

\* getdetails answers a number of bytes to skip, or an error.
LEMMA AlignmentIsInt ==
    ASSUME NEW h \in Headers, NEW o \in Options, NEW total \in Nat
    PROVE  ToAlign(h, o, total) \in Int
  <1> DEFINE align == IF o.n > h.maxalign THEN h.maxalign ELSE o.n
  <1>1. align \in Nat
    BY DEF Headers, Options
  <1>2. align \in {1, 2, 4, 8, 16} => (align - (total % align)) % align \in Int
    <2> HIDE DEF align
    <2> QED  BY <1>1
  <1>3. ToAlign(h, o, total) = 0 \/ ToAlign(h, o, total) = -1
        \/ /\ align \in {1, 2, 4, 8, 16}
           /\ ToAlign(h, o, total) = (align - (total % align)) % align
    BY DEF ToAlign
  <1> HIDE DEF align
  <1> QED  BY <1>2, <1>3

\* An option that configures leaves a header.
LEMMA ConfiguredIsHeader ==
    ASSUME NEW h \in Headers, NEW o \in Options
    PROVE  Configured(h, o) \in Headers
  <1>1. o.n \in Nat
    BY DEF Options
  <1>2. CASE o.k = "little"
    BY <1>2 DEF Configured, Headers
  <1>3. CASE o.k = "big"
    BY <1>3 DEF Configured, Headers
  <1>4. CASE o.k = "maxalign"
    BY <1>1, <1>4 DEF Configured, Headers
  <1>5. CASE o.k \notin {"little", "big", "maxalign"}
    BY <1>5 DEF Configured, Headers
  <1> QED  BY <1>2, <1>3, <1>4, <1>5

\* Skipping bytes, for alignment or padding, writes none.
LEMMA MoveStays ==
    ASSUME NEW len \in Nat, NEW st \in PackStates(len), NEW n \in Nat, n >= st.i
    PROVE  Stays(len, st, [st EXCEPT !.i = n])
  BY DEF Stays, Onwards, PackStates

\* A failure or an error writes nothing.
LEMMA EndStays ==
    ASSUME NEW len \in Nat, NEW st \in PackStates(len), NEW e \in {"failed", "error"}
    PROVE  Stays(len, st, [st EXCEPT !.end = e])
  BY DEF Stays, Onwards, PackStates

\* Neither does a change of the header,
LEMMA ConfigureStays ==
    ASSUME NEW len \in Nat, NEW st \in PackStates(len), NEW h \in Headers
    PROVE  Stays(len, st, [st EXCEPT !.h = h])
  BY DEF Stays, Onwards, PackStates

\* counting arguments,
LEMMA CountStays ==
    ASSUME NEW len \in Nat, NEW st \in PackStates(len), NEW used \in Nat
    PROVE  Stays(len, st, [st EXCEPT !.used = used])
  BY DEF Stays, Onwards, PackStates

\* or a loop that has ended.
LEMMA StutterStays ==
    ASSUME NEW len \in Nat, NEW st \in PackStates(len)
    PROVE  Stays(len, st, st)
  BY DEF Stays, Onwards, PackStates

\* A turn of the loop, in three parts: the alignment,
Aligned(st, o) == [st EXCEPT !.i = @ + ToAlign(st.h, o, st.i)]

\* the option,
Turn(a, o, args) ==
    CASE TakesArgument(o) ->
           IF Len(args) = a.used \/ ~Packable(o, args[a.used + 1])
           THEN [a EXCEPT !.end = "error"]
           ELSE PutAll(a, Pieces(a.h, o, args[a.used + 1]))
      [] o.k = "pad" ->
           IF a.i < Len(a.mem) THEN [a EXCEPT !.i = @ + 1]
           ELSE [a EXCEPT !.end = "failed"]
      [] OTHER -> [a EXCEPT !.h = Configured(a.h, o)]

\* and the count of the arguments.
Counted(st, o) == IF TakesArgument(o) THEN [st EXCEPT !.used = @ + 1] ELSE st

\* The alignment is within the memory.
HasRoom(st, o, null) ==
    /\ ToAlign(st.h, o, st.i) >= 0
    /\ ~null /\ st.i + ToAlign(st.h, o, st.i) <= Len(st.mem)

\* The loop has ended.
Ended(st, e) == [st EXCEPT !.end = e]

LEMMA EndedState ==
    ASSUME NEW len \in Nat, NEW st \in PackStates(len), NEW e \in {"failed", "error"}
    PROVE  /\ Ended(st, e) \in PackStates(len) /\ Ended(st, e).end = e
           /\ Ended(st, e).mem = st.mem /\ Ended(st, e).i = st.i
           /\ Ended(st, e).h = st.h /\ Ended(st, e).used = st.used
  BY DEF Ended, PackStates

\* A turn of the loop consists of these parts.
LEMMA OptionTurns ==
    ASSUME NEW len \in Nat, NEW st \in PackStates(len), NEW o \in Options,
           NEW args, NEW null \in BOOLEAN
    PROVE  LET skip == ToAlign(st.h, o, st.i)
               new == PackOption(st, o, args, null)
               turned == Turn(Aligned(st, o), o, args)
           IN  /\ skip \in Int
               /\ st.end # "running" => new = st
               /\ st.end = "running" /\ skip < 0 => new = Ended(st, "error")
               /\ st.end = "running" /\ skip >= 0 /\ ~HasRoom(st, o, null)
                     => new = Ended(st, "failed")
               /\ st.end = "running" /\ HasRoom(st, o, null) =>
                     new = IF turned.end # "running" THEN turned ELSE Counted(turned, o)
  <1> DEFINE skip == ToAlign(st.h, o, st.i)
             new == PackOption(st, o, args, null)
             turned == Turn(Aligned(st, o), o, args)
  <1>1. st.i \in Nat /\ st.h \in Headers /\ Len(st.mem) = len
    BY FunctionIsSeq DEF PackStates
  <1>2. skip \in Int
    BY <1>1, AlignmentIsInt
  <1>3. st.end # "running" => new = st
    BY DEF PackOption
  <1>4. st.end = "running" /\ skip < 0 => new = Ended(st, "error")
    <2>1. skip < 0 => ~(skip >= 0)
      BY <1>2
    <2> QED  BY <2>1 DEF PackOption, Ended
  <1>5. ASSUME st.end = "running", skip >= 0, ~HasRoom(st, o, null)
        PROVE  new = Ended(st, "failed")
    <2>1. null \/ st.i + skip > Len(st.mem)
      BY <1>1, <1>2, <1>5 DEF HasRoom
    <2>2. ~(skip < 0)
      BY <1>2, <1>5
    <2> QED  BY <1>5, <2>1, <2>2 DEF PackOption, Ended
  <1>6. ASSUME st.end = "running", HasRoom(st, o, null)
        PROVE  new = IF turned.end # "running" THEN turned ELSE Counted(turned, o)
    <2>1. ~(null \/ st.i + skip > Len(st.mem)) /\ ~(skip < 0)
      BY <1>1, <1>2, <1>6 DEF HasRoom
    <2>2. Aligned(st, o).h = st.h /\ Aligned(st, o).used = st.used
      BY DEF Aligned, PackStates
    <2> DEFINE aligned == [st EXCEPT !.i = @ + skip]
               x == args[st.used + 1]
               packed ==
                  CASE TakesArgument(o) ->
                         IF Len(args) = st.used \/ ~Packable(o, x)
                         THEN [aligned EXCEPT !.end = "error"]
                         ELSE PutAll(aligned, Pieces(st.h, o, x))
                    [] o.k = "pad" ->
                         IF aligned.i < Len(st.mem) THEN [aligned EXCEPT !.i = @ + 1]
                         ELSE [aligned EXCEPT !.end = "failed"]
                    [] OTHER -> [aligned EXCEPT !.h = Configured(st.h, o)]
    <2>3. packed = turned
      <3>1. aligned = Aligned(st, o) /\ aligned.mem = st.mem
        BY DEF Aligned, PackStates
      <3> QED  BY <2>2, <3>1 DEF Turn
    <2>4. new = IF packed.end # "running" THEN packed
                ELSE IF TakesArgument(o) THEN [packed EXCEPT !.used = @ + 1]
                ELSE packed
      BY <1>6, <2>1 DEF PackOption
    <2> HIDE DEF packed, turned, new
    <2> QED  BY <2>3, <2>4 DEF Counted
  <1> QED  BY <1>2, <1>3, <1>4, <1>5, <1>6

\* Aligning moves behind the position.
LEMMA AlignedStays ==
    ASSUME NEW len \in Nat, NEW st \in PackStates(len), NEW o \in Options,
           ToAlign(st.h, o, st.i) >= 0
    PROVE  /\ Stays(len, st, Aligned(st, o))
           /\ Aligned(st, o) \in PackStates(len)
           /\ Aligned(st, o).i = st.i + ToAlign(st.h, o, st.i)
           /\ Aligned(st, o).mem = st.mem /\ Aligned(st, o).h = st.h
           /\ Aligned(st, o).used = st.used /\ Aligned(st, o).end = st.end
  <1> DEFINE skip == ToAlign(st.h, o, st.i)
             n == st.i + skip
  <1>1. skip \in Nat /\ st.i \in Nat
    BY AlignmentIsInt DEF PackStates
  <1> HIDE DEF skip
  <1>2. n \in Nat /\ n >= st.i /\ Aligned(st, o) = [st EXCEPT !.i = n]
    BY <1>1 DEF Aligned, skip
  <1> HIDE DEF n
  <1>3. Stays(len, st, Aligned(st, o))
    BY <1>2, MoveStays
  <1>4. /\ Aligned(st, o).i = n /\ Aligned(st, o).mem = st.mem
        /\ Aligned(st, o).h = st.h /\ Aligned(st, o).used = st.used
        /\ Aligned(st, o).end = st.end
    BY <1>2 DEF PackStates
  <1>5. Aligned(st, o) \in PackStates(len)
    BY <1>3 DEF Stays
  <1> QED  BY <1>3, <1>4, <1>5 DEF n, skip

\* One option, once aligned.
LEMMA TurnStays ==
    ASSUME NEW len \in Nat, NEW a \in PackStates(len), NEW o \in Options, NEW args
    PROVE  Stays(len, a, Turn(a, o, args))
  <1> DEFINE x == args[a.used + 1]
             refused == Len(args) = a.used \/ ~Packable(o, x)
  <1>1. a.h \in Headers /\ a.i \in Nat
    BY DEF PackStates
  <1>2. CASE TakesArgument(o) /\ refused
    <2>1. o.k # "pad"
      BY <1>2 DEF TakesArgument
    <2>2. Turn(a, o, args) = [a EXCEPT !.end = "error"]
      BY <1>2, <2>1 DEF Turn
    <2>3. "error" \in {"failed", "error"}
      OBVIOUS
    <2> QED  BY <2>2, <2>3, EndStays
  <1>3. CASE TakesArgument(o) /\ ~refused
    <2>1. ArePieces(Pieces(a.h, o, x))
      BY <1>1, <1>3, PiecesAreBytes
    <2>2. o.k # "pad"
      BY <1>3 DEF TakesArgument
    <2>3. Turn(a, o, args) = PutAll(a, Pieces(a.h, o, x))
      BY <1>3, <2>2 DEF Turn
    <2> QED  BY <2>1, <2>3, PutAllStays
  <1>4. CASE o.k = "pad"
    <2>1. ~TakesArgument(o)
      BY <1>4 DEF TakesArgument
    <2>2. \/ Turn(a, o, args) = [a EXCEPT !.i = a.i + 1]
          \/ Turn(a, o, args) = [a EXCEPT !.end = "failed"]
      BY <1>4, <2>1 DEF Turn
    <2>3. a.i + 1 \in Nat /\ a.i + 1 >= a.i
      BY <1>1
    <2> QED  BY <2>2, <2>3, MoveStays, EndStays
  <1>5. CASE ~TakesArgument(o) /\ o.k # "pad"
    <2>1. Turn(a, o, args) = [a EXCEPT !.h = Configured(a.h, o)]
      BY <1>5 DEF Turn
    <2>2. Configured(a.h, o) \in Headers
      BY <1>1, ConfiguredIsHeader
    <2> QED  BY <2>1, <2>2, ConfigureStays
  <1> QED  BY <1>2, <1>3, <1>4, <1>5

\* One option of a format.
LEMMA OptionStays ==
    ASSUME NEW len \in Nat, NEW st \in PackStates(len), NEW o \in Options,
           NEW args, NEW null \in BOOLEAN
    PROVE  Stays(len, st, PackOption(st, o, args, null))
  <1> DEFINE new == PackOption(st, o, args, null)
             turned == Turn(Aligned(st, o), o, args)
  <1>1. \/ new = st
        \/ new = Ended(st, "error")
        \/ new = Ended(st, "failed")
        \/ HasRoom(st, o, null) /\ (new = turned \/ new = Counted(turned, o))
    BY OptionTurns
  <1>2. /\ Stays(len, st, st) /\ Stays(len, st, Ended(st, "error"))
        /\ Stays(len, st, Ended(st, "failed"))
    BY StutterStays, EndStays DEF Ended
  <1>3. ASSUME HasRoom(st, o, null)
        PROVE  Stays(len, st, turned) /\ Stays(len, st, Counted(turned, o))
    <2>1. Stays(len, st, Aligned(st, o)) /\ Aligned(st, o) \in PackStates(len)
      BY <1>3, AlignedStays DEF HasRoom
    <2>2. Stays(len, Aligned(st, o), turned)
      BY <2>1, TurnStays
    <2> HIDE DEF turned
    <2>3. Stays(len, st, turned)
      BY <2>1, <2>2, StaysTransitive
    <2>4. turned \in PackStates(len) /\ turned.used + 1 \in Nat
      BY <2>3 DEF Stays, PackStates
    <2>5. Stays(len, turned, Counted(turned, o))
      BY <2>4, CountStays, StutterStays DEF Counted
    <2> QED  BY <2>3, <2>5, StaysTransitive
  <1> HIDE DEF turned, new
  <1> QED  BY <1>1, <1>2, <1>3 DEF new

\* f is the sequence of states that mem_pack's loop goes through.
Runs(f, mem, null, h, fmt, i, args) ==
    /\ f[0] = [mem |-> mem, i |-> i, h |-> h, used |-> 0, end |-> "running"]
    /\ \A d \in 1 .. Len(fmt) : f[d] = PackOption(f[d - 1], fmt[d], args, null)
    /\ Packed(mem, null, h, fmt, i, args) = f[Len(fmt)]

\* The recursive function of mem_pack's loop has a value, and these are its values.
LEMMA PackRuns ==
    ASSUME NEW len \in Nat, NEW mem \in [1 .. len -> Bytes], NEW null \in BOOLEAN,
           NEW h \in Headers, NEW fmt \in Seq(Options), NEW i \in Nat, NEW args
    PROVE  \E f \in [0 .. Len(fmt) -> PackStates(len)] :
              Runs(f, mem, null, h, fmt, i, args)
  <1> DEFINE n == Len(fmt)
             M == PackStates(len)
             a == [mem |-> mem, i |-> i, h |-> h, used |-> 0, end |-> "running"]
             F == [c \in 1 .. n |-> [st \in M |-> PackOption(st, fmt[c], args, null)]]
             Turns(f) == f = [c \in 0 .. n |->
                IF c = 0 THEN a ELSE PackOption(f[c - 1], fmt[c], args, null)]
             run == CHOOSE f : Turns(f)
  <1>0. n \in Nat /\ \A c \in 1 .. n : fmt[c] \in Options
    BY SeqIsFunction
  <1>1. Packed(mem, null, h, fmt, i, args) = run[n]
    BY DEF Packed
  <1>2. a \in M
    BY DEF PackStates
  <1> HIDE DEF n, a
  <1>3. ASSUME NEW c \in 1 .. n, NEW st \in M
        PROVE  PackOption(st, fmt[c], args, null) \in M
    <2>1. Stays(len, st, PackOption(st, fmt[c], args, null))
      BY <1>0, OptionStays
    <2> QED  BY <2>1 DEF Stays
  <1> HIDE DEF M
  <1>4. F \in [1 .. n -> [M -> M]]
    BY <1>3
  <1>5. PICK g \in [0 .. n -> M] : Computes(g, n, a, F)
    <2> HIDE DEF F
    <2> QED  BY <1>0, <1>2, <1>4, Recursion
  <1>6. Turns(g)
    <2>1. \A c \in 1 .. n : g[c - 1] \in M
      BY <1>0
    <2>2. \A c \in 1 .. n : F[c][g[c - 1]] = PackOption(g[c - 1], fmt[c], args, null)
      BY <2>1
    <2> HIDE DEF F
    <2>3. \A c \in 0 .. n : g[c] =
             IF c = 0 THEN a ELSE PackOption(g[c - 1], fmt[c], args, null)
      BY <1>0, <1>5, <2>2 DEF Computes
    <2> DEFINE k == [c \in 0 .. n |->
                IF c = 0 THEN a ELSE PackOption(g[c - 1], fmt[c], args, null)]
    <2>4. g = k
      BY <2>3
    <2> QED  BY <2>4
  <1>7. Turns(run)
    <2> HIDE DEF Turns
    <2> QED  BY <1>6
  <1> HIDE DEF run
  <1>8. /\ run[0] = a
        /\ \A c \in 1 .. n : run[c] = PackOption(run[c - 1], fmt[c], args, null)
    BY <1>0, <1>7
  <1>9. \A c \in 0 .. n : run[c] \in M
    <2> DEFINE S == {c \in 0 .. n : run[c] \in M}
    <2>1. 0 \in S
      BY <1>0, <1>2, <1>8
    <2>2. ASSUME NEW c \in 1 .. n, c - 1 \in S  PROVE c \in S
      BY <1>0, <1>3, <1>8, <2>2
    <2> HIDE DEF S
    <2>3. \A c \in 0 .. n : c \in S
      BY <1>0, <2>1, <2>2, Induction
    <2> QED  BY <2>3 DEF S
  <1>10. run \in [0 .. n -> M]
    BY <1>7, <1>9
  <1> QED  BY <1>1, <1>8, <1>10 DEF Runs, n, a, M

\* mem_pack keeps the length, and every byte before the start.
LEMMA PackKeeps ==
    ASSUME NEW mem \in Seq(Bytes), NEW null \in BOOLEAN,
           NEW h \in Headers, NEW fmt \in Seq(Options), NEW i \in Nat, NEW args
    PROVE  LET st == Packed(mem, null, h, fmt, i, args)
           IN  /\ st \in PackStates(Len(mem))
               /\ \A k \in DOMAIN mem : k <= i => st.mem[k] = mem[k]
  <1> DEFINE len == Len(mem)
             n == Len(fmt)
  <1>1. len \in Nat /\ mem \in [1 .. len -> Bytes] /\ n \in Nat
    BY SeqIsFunction
  <1> HIDE DEF len
  <1>2. PICK f \in [0 .. n -> PackStates(len)] : Runs(f, mem, null, h, fmt, i, args)
    BY <1>1, PackRuns
  <1>3. \A c \in 1 .. n : fmt[c] \in Options
    BY SeqIsFunction
  <1> HIDE DEF n
  <1> DEFINE S == {c \in 0 .. n : Stays(len, f[0], f[c])}
  <1>4. f[0] \in PackStates(len)
    BY <1>1
  <1>5. 0 \in S
    BY <1>1, <1>4, StutterStays
  <1>6. ASSUME NEW c \in 1 .. n, c - 1 \in S  PROVE c \in S
    <2>1. f[c - 1] \in PackStates(len)
      BY <1>1
    <2>2. Stays(len, f[c - 1], PackOption(f[c - 1], fmt[c], args, null))
      BY <1>1, <1>3, <2>1, OptionStays
    <2>3. Stays(len, f[c - 1], f[c])
      BY <1>2, <2>2 DEF Runs, n
    <2>4. Stays(len, f[0], f[c])
      BY <1>1, <1>4, <1>6, <2>3, StaysTransitive
    <2> QED  BY <1>1, <2>4
  <1>7. Stays(len, f[0], f[n])
    <2> HIDE DEF S
    <2>1. \A c \in 0 .. n : c \in S
      BY <1>1, <1>5, <1>6, Induction
    <2>2. n \in S
      BY <1>1, <2>1
    <2> QED  BY <2>2 DEF S
  <1>8. f[0].mem = mem /\ f[0].i = i /\ Packed(mem, null, h, fmt, i, args) = f[n]
    BY <1>2 DEF Runs, n
  <1>9. f[n] \in PackStates(len) /\ \A k \in DOMAIN mem : k <= i => f[n].mem[k] = mem[k]
    BY <1>7, <1>8 DEF Stays, Onwards
  <1> HIDE DEF S
  <1> QED  BY <1>8, <1>9 DEF len

\* initheader.
LEMMA HeaderIsHeader == Header \in Headers
  BY DEF Header, Headers

-----------------------------------------------------------------------------
\* Bytes.

\* The type invariant: a memory of one of its kinds holds bytes. Its answer is
\* whatever the last operation returned.
TypeOK == kind \in Kinds /\ bytes \in Seq(Bytes)

\* The start that positions denote is the one posrelatI computes.
LEMMA FirstIsStart ==
    ASSUME NEW len \in Nat, NEW pos \in Int
    PROVE  First(pos, len) = PosRelat(pos, len)
  <1> DEFINE T == {k \in 1 .. len + 1 : NotBefore(k, pos, len)}
  <1>1. CASE pos > len
    BY <1>1 DEF First, PosRelat
  <1>2. CASE ~(pos > len)
    <2>1. PosRelat(pos, len) \in T /\ \A y \in T : PosRelat(pos, len) <= y
      <3>1. CASE pos > 0
        BY <1>2, <3>1 DEF PosRelat, NotBefore
      <3>2. CASE pos = 0
        BY <3>2 DEF PosRelat, NotBefore
      <3>3. CASE pos < 0 /\ pos < -len
        BY <3>3 DEF PosRelat, NotBefore
      <3>4. CASE pos < 0 /\ ~(pos < -len)
        BY <3>4 DEF PosRelat, NotBefore
      <3> QED  BY <3>1, <3>2, <3>3, <3>4
    <2>2. \A x \in T : (\A y \in T : x <= y) => x = PosRelat(pos, len)
      <3>1. PosRelat(pos, len) \in Int /\ T \subseteq Int
        BY Clipped
      <3> HIDE DEF T
      <3> QED  BY <2>1, <3>1
    <2>3. Min(T) = PosRelat(pos, len)
      <3> HIDE DEF T
      <3> QED  BY <2>1, <2>2 DEF Min
    <2> QED  BY <1>2, <2>3 DEF First
  <1> QED  BY <1>1, <1>2

\* A clipped slice of bytes is bytes.
LEMMA SubSeqIsBytes ==
    ASSUME NEW s \in Seq(Bytes), NEW i \in Int, NEW j \in Int
    PROVE  SubSeq(s, PosRelat(i, Len(s)), EndPos(j, Len(s))) \in Seq(Bytes)
  <1>1. Len(s) \in Nat
    OBVIOUS
  <1>2. PosRelat(i, Len(s)) \in Nat /\ PosRelat(i, Len(s)) >= 1 /\ EndPos(j, Len(s)) \in 0 .. Len(s)
    BY <1>1, Clipped
  <1> QED  BY <1>2, SubSeqProperties

\* mem_create and mem_resize zero what they add.
LEMMA ZerosAreBytes ==
    ASSUME NEW n \in Nat
    PROVE  Zeros(n) \in Seq(Bytes) /\ Len(Zeros(n)) = n
  <1>1. 0 \in Bytes
    BY BaseAssumption DEF Bytes
  <1>2. Zeros(n) \in [1 .. n -> Bytes]
    BY <1>1 DEF Zeros
  <1> QED  BY <1>2, FunctionIsSeq

\* An operand is a string or the memory itself.
LEMMA OperandIsBytes ==
    ASSUME NEW s \in Operands, bytes \in Seq(Bytes)
    PROVE  Array(s) \in Seq(Bytes) /\ Len(Array(s)) \in Nat /\ (s = Self \/ s \in Seq(Bytes))
  BY TextsAssumption DEF Operands, Array

\* code2char writes one byte for each number, up to the first that is no byte.
LEMMA CodesWritten ==
    ASSUME NEW mem \in Seq(Bytes), NEW i \in Nat, i >= 1, NEW codes \in Seq(Int)
    PROVE  /\ CodeToChar(mem, i, codes) \in Seq(Bytes)
           /\ Len(CodeToChar(mem, i, codes)) = Len(mem)
           /\ SameOutside(mem, CodeToChar(mem, i, codes), i, Len(codes))
  <1>1. mem \in [1 .. Len(mem) -> Bytes] /\ Len(mem) \in Nat /\ Len(codes) \in Nat
        /\ DOMAIN mem = 1 .. Len(mem)
    BY SeqIsFunction
  <1> DEFINE new == CodeToChar(mem, i, codes)
  <1>2. ASSUME NEW k \in 1 .. Len(mem)  PROVE new[k] \in Bytes
    <2>1. CASE /\ k \in i .. i + Len(codes) - 1
               /\ \A c \in 1 .. k - i + 1 : codes[c] \in Bytes
      <3>1. k - i + 1 \in 1 .. k - i + 1
        BY <2>1
      <3> QED  BY <1>1, <2>1, <3>1 DEF CodeToChar
    <2>2. CASE ~(/\ k \in i .. i + Len(codes) - 1
                 /\ \A c \in 1 .. k - i + 1 : codes[c] \in Bytes)
      BY <1>1, <2>2 DEF CodeToChar
    <2> QED  BY <2>1, <2>2
  <1>3. new \in [1 .. Len(mem) -> Bytes]
    BY <1>1, <1>2 DEF CodeToChar
  <1>4. SameOutside(mem, new, i, Len(codes))
    BY <1>1 DEF CodeToChar, SameOutside
  <1> HIDE DEF new
  <1>5. new \in Seq(Bytes) /\ Len(new) = Len(mem)
    BY <1>1, <1>3, FunctionIsSeq
  <1> QED  BY <1>4, <1>5 DEF new

-----------------------------------------------------------------------------
\* mem_resize and mem_fill.

\* The inputs that Next draws from are numbers and sequences of them.
LEMMA Numbers ==
    /\ MaxLen \in Nat
    /\ \A n \in -1 .. MaxLen : n \in Int
    /\ \A c \in -1 .. Base : c \in Int
    /\ \A i \in Positions : i \in Int
    /\ \A codes \in Codes : codes \in Seq(Int) /\ Len(codes) \in Nat /\ codes # <<>>
    /\ \A c \in Contents : c \in Seq(Bytes)
  <1>1. ASSUME NEW codes \in Codes
        PROVE  codes \in Seq(Int)
    <2>1. PICK m \in 0 .. 3 : codes \in [1 .. m -> -1 .. Base]
      BY DEF Codes, BoundedSeq, SeqOf
    <2>2. codes \in [1 .. m -> Int] /\ m \in Nat
      BY <2>1, BaseAssumption
    <2> QED  BY <2>2, FunctionIsSeq
  <1>2. ASSUME NEW c \in Contents
        PROVE  c \in Seq(Bytes)
    <2>1. PICK m \in 1 .. MaxLen : c \in [1 .. m -> Bytes]
      BY DEF Contents
    <2>2. m \in Nat
      BY WidthAssumption
    <2> QED  BY <2>1, <2>2, FunctionIsSeq
  <1>3. \A codes \in Codes : codes # <<>>
    BY DEF Codes
  <1> QED  BY <1>1, <1>2, <1>3, BaseAssumption, WidthAssumption, PositionsAssumption

\* mem_resize.
LEMMA ResizeKeeps ==
    ASSUME TypeOK, NEW n \in Int, NEW s \in Operands, Resize(n, s)
    PROVE  /\ bytes' \in Seq(Bytes)
           /\ answer'.op = "resize" /\ answer'.before = bytes
           /\ \A k \in DOMAIN bytes : k <= Len(bytes') => bytes'[k] = bytes[k]
  <1> DEFINE longer == bytes \o Zeros(n - Size)
  <1>1. bytes \in Seq(Bytes) /\ Size \in Nat /\ Size = Len(bytes) /\ DOMAIN bytes = 1 .. Size
    BY DEF TypeOK, Size
  <1>2. answer'.op = "resize" /\ answer'.before = bytes
    BY DEF Resize, Answers
  <1>3. CASE bytes' = bytes
    BY <1>1, <1>2, <1>3
  <1>4. CASE n >= 0 /\ n <= Size /\ bytes' = SubSeq(bytes, 1, n)
    <2>1. bytes' \in Seq(Bytes) /\ Len(bytes') = n
      BY <1>1, <1>4
    <2>2. \A k \in 1 .. n : bytes'[k] = bytes[k]
      BY <1>1, <1>4
    <2> QED  BY <1>1, <1>2, <2>1, <2>2
  <1>5. ASSUME n > Size
        PROVE  /\ longer \in Seq(Bytes) /\ Len(longer) = n
               /\ \A k \in 1 .. Size : longer[k] = bytes[k]
    <2> DEFINE d == n - Size
    <2>0. d \in Nat /\ Size + d = n
      BY <1>1, <1>5
    <2> HIDE DEF d
    <2>1. Zeros(d) \in Seq(Bytes) /\ Len(Zeros(d)) = d
      BY <2>0, ZerosAreBytes
    <2>2. longer = bytes \o Zeros(d)
      BY DEF d
    <2>3. /\ bytes \o Zeros(d) \in Seq(Bytes)
          /\ Len(bytes \o Zeros(d)) = Len(bytes) + Len(Zeros(d))
          /\ \A k \in 1 .. Len(bytes) + Len(Zeros(d)) : (bytes \o Zeros(d))[k] =
                IF k <= Len(bytes) THEN bytes[k] ELSE Zeros(d)[k - Len(bytes)]
      BY <1>1, <2>1, ConcatProperties
    <2> HIDE DEF longer
    <2>4. \A k \in 1 .. Size : k \in 1 .. Size + d /\ k <= Size
      BY <1>1, <2>0
    <2> QED  BY <1>1, <2>0, <2>1, <2>2, <2>3, <2>4
  <1>6. CASE n > Size /\ bytes' = longer
    BY <1>1, <1>2, <1>5, <1>6
  <1>7. CASE n > Size /\ \E junk \in [1 .. n - Size -> Bytes] : bytes' = bytes \o junk
    <2>1. PICK junk \in [1 .. n - Size -> Bytes] : bytes' = bytes \o junk
      BY <1>7
    <2> DEFINE d == n - Size
    <2>2. junk \in Seq(Bytes)
      <3>1. d \in Nat /\ junk \in [1 .. d -> Bytes]
        BY <1>1, <1>7
      <3> HIDE DEF d
      <3> QED  BY <3>1, FunctionIsSeq
    <2>3. bytes' \in Seq(Bytes) /\ \A k \in 1 .. Size : bytes'[k] = bytes[k]
      BY <1>1, <2>1, <2>2, ConcatProperties
    <2> QED  BY <1>1, <1>2, <2>3
  <1>8. CASE n > Size /\ s # Self /\ bytes' = MemFill(longer, Size + 1, n - Size, s, 1)
    <2>1. s \in Seq(Bytes)
      BY <1>1, <1>8, OperandIsBytes
    <2>2. n - Size \in Nat /\ Size + 1 \in Int /\ 1 \in Nat
      BY <1>1, <1>8
    <2> HIDE DEF longer
    <2>3. longer \in Seq(Bytes) /\ DOMAIN longer = 1 .. n
      BY <1>5, <1>8
    <2>4. /\ bytes' \in Seq(Bytes)
          /\ SameOutside(longer, bytes', Size + 1, n - Size)
      BY <1>8, <2>1, <2>2, <2>3, FillKeeps
    <2>5. \A k \in 1 .. Size : bytes'[k] = longer[k]
      BY <1>1, <1>8, <2>3, <2>4 DEF SameOutside
    <2> QED  BY <1>1, <1>2, <1>5, <1>8, <2>4, <2>5
  <1>9. \/ bytes' = bytes
        \/ n >= 0 /\ n <= Size /\ bytes' = SubSeq(bytes, 1, n)
        \/ n > Size /\ bytes' = longer
        \/ n > Size /\ \E junk \in [1 .. n - Size -> Bytes] : bytes' = bytes \o junk
        \/ n > Size /\ s # Self /\ bytes' = MemFill(longer, Size + 1, n - Size, s, 1)
    BY <1>1 DEF Resize
  <1> QED  BY <1>3, <1>4, <1>6, <1>7, <1>8, <1>9

\* mem_fill.
LEMMA WindowFilled ==
    ASSUME TypeOK, NEW s, s = Self \/ s \in Seq(Bytes), NEW i \in Int, NEW j \in Int,
           NEW os \in Nat, os >= 1, PosRelat(i, Size) <= EndPos(j, Size),
           bytes' = MemFill(bytes, PosRelat(i, Size),
                            EndPos(j, Size) - PosRelat(i, Size) + 1, s, os)
    PROVE  /\ bytes' \in Seq(Bytes) /\ Len(bytes') = Len(bytes)
           /\ \A k \in DOMAIN bytes : k \notin Window(i, j, Len(bytes)) => bytes'[k] = bytes[k]
  <1> DEFINE from == PosRelat(i, Size)
             to == EndPos(j, Size)
  <1>1. bytes \in Seq(Bytes) /\ Size \in Nat /\ Size = Len(bytes)
    BY DEF TypeOK, Size
  <1>2. from \in Nat /\ to \in Nat
    BY <1>1, Clipped
  <1>3. Window(i, j, Len(bytes)) = from .. to
    BY <1>1, SliceIsWindow
  <1> HIDE DEF from, to
  <1>4. to - from + 1 \in Nat /\ from \in Int /\ from + (to - from + 1) - 1 = to
    BY <1>2 DEF from, to
  <1> DEFINE n == to - from + 1
  <1>5. bytes' = MemFill(bytes, from, n, s, os) /\ n \in Nat
    BY <1>4 DEF from, to
  <1>6. /\ bytes' \in Seq(Bytes) /\ Len(bytes') = Len(bytes)
        /\ SameOutside(bytes, bytes', from, n)
    <2>1. from \in Int /\ n \in Nat /\ bytes \in Seq(Bytes)
      BY <1>1, <1>4
    <2> HIDE DEF n
    <2>2. /\ MemFill(bytes, from, n, s, os) \in Seq(Bytes)
          /\ Len(MemFill(bytes, from, n, s, os)) = Len(bytes)
          /\ SameOutside(bytes, MemFill(bytes, from, n, s, os), from, n)
      BY <2>1, FillKeeps
    <2> QED  BY <1>5, <2>2
  <1>7. ASSUME NEW k \in DOMAIN bytes, k \notin from .. to  PROVE bytes'[k] = bytes[k]
    <2>1. k \notin from .. from + n - 1
      BY <1>4, <1>7
    <2> HIDE DEF n
    <2> QED  BY <1>6, <2>1 DEF SameOutside
  <1> QED  BY <1>3, <1>6, <1>7

\* mem_fill with a string or a memory writes its window only.
LEMMA FillKeepsRest ==
    ASSUME TypeOK, NEW s \in Operands, NEW i \in Int, NEW j \in Int, NEW o \in Int,
           Fill(s, i, j, o)
    PROVE  /\ bytes' \in Seq(Bytes) /\ Len(bytes') = Len(bytes)
           /\ answer' = [op |-> "fill", args |-> <<s, i, j, o>>, before |-> bytes,
                         value |-> <<>>]
           /\ \A k \in DOMAIN bytes : k \notin Window(i, j, Len(bytes)) => bytes'[k] = bytes[k]
  <1> DEFINE os == PosRelat(o, Len(Array(s)))
  <1>1. bytes \in Seq(Bytes)
    BY DEF TypeOK
  <1>2. Len(Array(s)) \in Nat /\ (s = Self \/ s \in Seq(Bytes))
    BY <1>1, OperandIsBytes
  <1>3. os \in Nat /\ os >= 1
    BY <1>2, Clipped
  <1>4. answer' = [op |-> "fill", args |-> <<s, i, j, o>>, before |-> bytes, value |-> <<>>]
    BY DEF Fill, Answers
  <1>5. \/ bytes' = bytes
        \/ /\ PosRelat(i, Size) <= EndPos(j, Size)
           /\ bytes' = MemFill(bytes, PosRelat(i, Size),
                            EndPos(j, Size) - PosRelat(i, Size) + 1, s, os)
    BY DEF Fill
  <1> HIDE DEF os
  <1> QED  BY <1>1, <1>2, <1>3, <1>4, <1>5, WindowFilled

\* mem_fill with a number does.
LEMMA FillNumberKeepsRest ==
    ASSUME TypeOK, NEW c \in Int, NEW i \in Int, NEW j \in Int, FillNumber(c, i, j)
    PROVE  /\ bytes' \in Seq(Bytes) /\ Len(bytes') = Len(bytes)
           /\ answer'.op = "fill" /\ answer'.args = <<<<c>>, i, j, 1>> /\ answer'.before = bytes
           /\ \A k \in DOMAIN bytes : k \notin Window(i, j, Len(bytes)) => bytes'[k] = bytes[k]
  <1>1. bytes \in Seq(Bytes)
    BY DEF TypeOK
  <1>2. answer'.op = "fill" /\ answer'.args = <<<<c>>, i, j, 1>> /\ answer'.before = bytes
    BY DEF FillNumber, Answers
  <1>3. \/ bytes' = bytes
        \/ /\ c \in Bytes
           /\ PosRelat(i, Size) <= EndPos(j, Size)
           /\ bytes' = MemFill(bytes, PosRelat(i, Size),
                            EndPos(j, Size) - PosRelat(i, Size) + 1, <<c>>, 1)
    BY DEF FillNumber
  <1>4. c \in Bytes => <<c>> \in Seq(Bytes)
    OBVIOUS
  <1>5. 1 \in Nat /\ 1 >= 1
    OBVIOUS
  <1> QED  BY <1>1, <1>2, <1>3, <1>4, <1>5, WindowFilled

-----------------------------------------------------------------------------
\* mem_set, mem_pack and the views.

\* mem_set.
LEMMA SetWrites ==
    ASSUME TypeOK, NEW i \in Int, NEW codes \in Seq(Int), Set(i, codes)
    PROVE  /\ bytes' \in Seq(Bytes) /\ Len(bytes') = Len(bytes)
           /\ answer'.op = "set" /\ answer'.args = <<i, codes>> /\ answer'.before = bytes
           /\ SameOutside(bytes, bytes', First(i, Len(bytes)), Len(codes))
           /\ \A c \in DOMAIN codes :
                /\ \A d \in 1 .. c : codes[d] \in Bytes
                /\ First(i, Len(bytes)) + c - 1 <= Len(bytes)
                => bytes'[First(i, Len(bytes)) + c - 1] = codes[c]
  <1> DEFINE from == PosRelat(i, Size)
             room == Size - from + 1
             last == IF Len(codes) < room THEN Len(codes) ELSE room
             used == SubSeq(codes, 1, last)
  <1>1. /\ bytes \in Seq(Bytes) /\ Size \in Nat /\ Size = Len(bytes)
        /\ DOMAIN bytes = 1 .. Size /\ DOMAIN codes = 1 .. Len(codes) /\ Len(codes) \in Nat
        /\ codes \in [1 .. Len(codes) -> Int]
    BY SeqIsFunction DEF TypeOK, Size
  <1>2. from \in Nat /\ from >= 1 /\ First(i, Len(bytes)) = from
    BY <1>1, Clipped, FirstIsStart
  <1>3. answer'.op = "set" /\ answer'.args = <<i, codes>> /\ answer'.before = bytes
    BY DEF Set, Answers
  <1>4. CASE from > Size
    <2>1. bytes' = bytes
      BY <1>4 DEF Set
    <2> HIDE DEF from
    <2> QED  BY <1>1, <1>2, <1>3, <1>4, <2>1 DEF SameOutside
  <1>5. CASE ~(from > Size)
    <2>1. bytes' = CodeToChar(bytes, from, used)
      BY <1>5 DEF Set
    <2> HIDE DEF from
    <2>2. /\ room \in Nat /\ last \in Nat /\ last <= Len(codes) /\ last <= room
          /\ (last = Len(codes) \/ last = room)
      BY <1>1, <1>2, <1>5
    <2> HIDE DEF room, last
    <2>3. used \in Seq(Int) /\ Len(used) = last /\ \A c \in 1 .. last : used[c] = codes[c]
      <3>1. ASSUME NEW c \in 1 .. last  PROVE codes[c] \in Int
        <4> DEFINE len == Len(codes)
        <4>1. len \in Nat /\ last \in Nat /\ last <= len /\ codes \in [1 .. len -> Int]
          BY <1>1, <2>2
        <4> HIDE DEF len
        <4>2. c \in 1 .. len
          BY <4>1
        <4> QED  BY <4>1, <4>2
      <3>2. 1 \in Int /\ last \in Int /\ (1 <= last \/ last = 0)
        BY <2>2
      <3>3. /\ SubSeq(codes, 1, last) \in Seq(Int)
            /\ Len(SubSeq(codes, 1, last)) = IF 1 <= last THEN last - 1 + 1 ELSE 0
            /\ \A c \in 1 .. last - 1 + 1 : SubSeq(codes, 1, last)[c] = codes[1 + c - 1]
        BY <3>1, <3>2, SubSeqProperties
      <3> QED  BY <2>2, <3>2, <3>3
    <2> HIDE DEF used
    <2>4. /\ bytes' \in Seq(Bytes) /\ Len(bytes') = Len(bytes)
          /\ SameOutside(bytes, bytes', from, last)
      <3>1. /\ CodeToChar(bytes, from, used) \in Seq(Bytes)
            /\ Len(CodeToChar(bytes, from, used)) = Len(bytes)
            /\ SameOutside(bytes, CodeToChar(bytes, from, used), from, Len(used))
        BY <1>1, <1>2, <2>3, CodesWritten
      <3> QED  BY <2>1, <2>3, <3>1
    <2>5. SameOutside(bytes, bytes', from, Len(codes))
      <3> DEFINE len == Len(codes)
      <3>0. len \in Nat /\ last \in Nat /\ last <= len /\ from \in Nat
        BY <1>1, <1>2, <2>2
      <3>1. \A k \in Int : k \notin from .. from + len - 1
                              => k \notin from .. from + last - 1
        <4> HIDE DEF len
        <4> QED  BY <3>0
      <3>2. \A k \in DOMAIN bytes : k \in Int
        BY <1>1
      <3> QED  BY <2>4, <3>1, <3>2 DEF SameOutside
    <2>6. ASSUME NEW c \in DOMAIN codes, \A d \in 1 .. c : codes[d] \in Bytes,
                 from + c - 1 <= Len(bytes)
          PROVE  bytes'[from + c - 1] = codes[c]
      <3> DEFINE k == from + c - 1
      <3>0. c \in Nat /\ c >= 1 /\ c <= Len(codes)
        BY <1>1
      <3>1. /\ c \in 1 .. last /\ k \in 1 .. Size /\ k - from + 1 = c
            /\ k \in from .. from + last - 1
        <4>1. from + c - 1 <= Size /\ room = Size - from + 1
          BY <1>1, <2>6 DEF room
        <4>2. c <= room
          BY <1>1, <1>2, <3>0, <4>1
        <4>3. c <= last
          BY <2>2, <3>0, <4>2
        <4>4. k \in 1 .. Size /\ k - from + 1 = c
          BY <1>1, <1>2, <3>0, <4>1
        <4>5. k <= from + last - 1 /\ k >= from /\ from + last - 1 \in Int /\ k \in Int
          BY <1>2, <2>2, <3>0, <4>3
        <4> HIDE DEF k
        <4>6. c \in 1 .. last
          BY <2>2, <3>0, <4>3
        <4> QED  BY <1>2, <4>4, <4>5, <4>6
      <3>2. \A d \in 1 .. c : used[d] \in Bytes
        <4>1. \A d \in 1 .. c : d \in 1 .. last
          BY <2>2, <3>1
        <4> QED  BY <2>3, <2>6, <4>1
      <3> HIDE DEF k
      <3>3. bytes'[k] = used[c]
        BY <1>1, <2>1, <2>3, <3>1, <3>2 DEF CodeToChar
      <3> QED  BY <2>3, <3>1, <3>3 DEF k
    <2> QED  BY <1>2, <1>3, <2>4, <2>5, <2>6
  <1> QED  BY <1>4, <1>5

\* mem_pack.
LEMMA PackWrites ==
    ASSUME TypeOK, NEW fmt \in Seq(Options), NEW pos \in Int, NEW args,
           Pack(fmt, pos, args)
    PROVE  /\ bytes' \in Seq(Bytes) /\ Len(bytes') = Len(bytes)
           /\ answer'.op = "pack" /\ answer'.args = <<fmt, pos, args>>
           /\ answer'.before = bytes
           /\ \A k \in DOMAIN bytes : k < First(pos, Len(bytes)) => bytes'[k] = bytes[k]
  <1> DEFINE i == PosRelat(pos, Size) - 1
             st == Packed(bytes, NullPointer, Header, fmt, i, args)
  <1>1. bytes \in Seq(Bytes) /\ Size \in Nat /\ Size = Len(bytes) /\ DOMAIN bytes = 1 .. Size
    BY DEF TypeOK, Size
  <1>2. i \in Nat /\ First(pos, Len(bytes)) = i + 1
    <2> DEFINE from == PosRelat(pos, Size)
    <2>1. from \in Nat /\ from >= 1 /\ First(pos, Len(bytes)) = from
      BY <1>1, Clipped, FirstIsStart
    <2> HIDE DEF from
    <2>2. from - 1 \in Nat /\ from = from - 1 + 1
      BY <2>1
    <2> QED  BY <2>1, <2>2 DEF from
  <1>3. answer'.op = "pack" /\ answer'.args = <<fmt, pos, args>> /\ answer'.before = bytes
    BY DEF Pack, Answers
  <1>4. bytes' = bytes \/ bytes' = st.mem
    BY DEF Pack
  <1> HIDE DEF i
  <1>5. st \in PackStates(Len(bytes)) /\ \A k \in DOMAIN bytes : k <= i => st.mem[k] = bytes[k]
    <2>1. NullPointer \in BOOLEAN
      BY DEF NullPointer
    <2> QED  BY <1>1, <1>2, <2>1, HeaderIsHeader, PackKeeps
  <1> HIDE DEF st
  <1>6. st.mem \in Seq(Bytes) /\ Len(st.mem) = Len(bytes)
    <2>1. st.mem \in [1 .. Size -> Bytes]
      BY <1>1, <1>5 DEF PackStates
    <2> QED  BY <1>1, <2>1, FunctionIsSeq
  <1>7. \A k \in DOMAIN bytes : k < i + 1 => k <= i
    BY <1>1, <1>2
  <1> QED  BY <1>1, <1>2, <1>3, <1>4, <1>5, <1>6, <1>7

\* memory_view_set_byte, MemoryView_set.
LEMMA ViewSetWrites ==
    ASSUME TypeOK, NEW i \in Int, NEW c \in Int, ViewSet(i, c)
    PROVE  /\ bytes' \in Seq(Bytes) /\ Len(bytes') = Len(bytes)
           /\ answer'.op = "viewset" /\ answer'.args = <<i, c>> /\ answer'.before = bytes
           /\ \A k \in DOMAIN bytes : k # i + 1 => bytes'[k] = bytes[k]
  <1>1. bytes \in Seq(Bytes) /\ Size \in Nat /\ Size = Len(bytes)
        /\ bytes \in [1 .. Size -> Bytes]
    BY SeqIsFunction DEF TypeOK, Size
  <1>2. answer'.op = "viewset" /\ answer'.args = <<i, c>> /\ answer'.before = bytes
    BY DEF ViewSet, Answers
  <1>3. bytes' = bytes \/ (c \in Bytes /\ bytes' = [bytes EXCEPT ![i + 1] = c])
    BY DEF ViewSet
  <1>4. CASE c \in Bytes /\ bytes' = [bytes EXCEPT ![i + 1] = c]
    <2>1. bytes' \in [1 .. Size -> Bytes] /\ \A k \in 1 .. Size : k # i + 1 => bytes'[k] = bytes[k]
      BY <1>1, <1>4
    <2> QED  BY <1>1, <1>2, <2>1, FunctionIsSeq
  <1> QED  BY <1>1, <1>2, <1>3, <1>4

-----------------------------------------------------------------------------
\* Types.

\* Before any operation the memory is typed.
LEMMA InitTyped == Init => TypeOK
  BY DEF Init, TypeOK, Kinds, LuaKinds

\* mem_create copies the slice that its positions denote.
LEMMA CopyDenoted ==
    ASSUME TypeOK, NEW s \in Operands, NEW i \in Int, NEW j \in Int, CreateCopy(s, i, j)
    PROVE  /\ bytes' \in Seq(Bytes) /\ kind' = "fixed"
           /\ answer'.op = "copy" /\ answer'.args = <<s, i, j>> /\ answer'.before = bytes
           /\ bytes' = Slice(IF s = Self THEN bytes ELSE s, i, j)
  <1> DEFINE t == Array(s)
  <1>1. t \in Seq(Bytes)
    BY OperandIsBytes DEF TypeOK
  <1>2. bytes' = SubSeq(t, PosRelat(i, Len(t)), EndPos(j, Len(t))) /\ kind' = "fixed"
    BY DEF CreateCopy
  <1>3. answer'.op = "copy" /\ answer'.args = <<s, i, j>> /\ answer'.before = bytes
    BY DEF CreateCopy, Answers
  <1>4. t = IF s = Self THEN bytes ELSE s
    BY DEF Array
  <1> HIDE DEF t
  <1>5. bytes' \in Seq(Bytes) /\ bytes' = Slice(t, i, j)
    BY <1>1, <1>2, SubSeqIsBytes, SubSeqIsSlice
  <1> QED  BY <1>2, <1>3, <1>4, <1>5

\* Every operation keeps the types.
LEMMA TypeStep == TypeOK /\ [Next]_vars => TypeOK'
  <1> SUFFICES ASSUME TypeOK, [Next]_vars  PROVE TypeOK'
    OBVIOUS
  <1> USE Numbers
  <1>0. kind \in Kinds /\ bytes \in Seq(Bytes)
    BY DEF TypeOK
  <1>1. CASE CreateResizable
    BY <1>1 DEF CreateResizable, TypeOK, Kinds, LuaKinds
  <1>2. CASE Length \/ ViewToString \/ Return \/ UNCHANGED vars
    BY <1>0, <1>2 DEF Length, ViewToString, Return, vars, TypeOK
  <1>3. CASE Close
    <2>1. <<>> \in Seq(Bytes)
      OBVIOUS
    <2>2. \/ kind' = "other" /\ bytes' = <<>>
          \/ UNCHANGED <<kind, bytes>>
      BY <1>3 DEF Close
    <2> QED  BY <1>0, <2>1, <2>2 DEF TypeOK, Kinds, LuaKinds
  <1>4. ASSUME NEW n \in -1 .. MaxLen, CreateZeros(n)  PROVE TypeOK'
    <2>1. CASE n < 0
      BY <1>0, <1>4, <2>1 DEF CreateZeros, TypeOK
    <2>2. CASE n \in Nat
      <3>1. kind' = "fixed" /\ bytes' = Zeros(n)
        BY <1>4, <2>2 DEF CreateZeros
      <3> QED  BY <2>2, <3>1, ZerosAreBytes DEF TypeOK, Kinds, LuaKinds
    <2> QED  BY <2>1, <2>2
  <1>5. ASSUME NEW n \in -1 .. MaxLen, NEW s \in Operands, Resize(n, s)  PROVE TypeOK'
    <2>1. bytes' \in Seq(Bytes)
      BY <1>5, ResizeKeeps
    <2>2. kind' = kind
      BY <1>5 DEF Resize
    <2> QED  BY <1>0, <2>1, <2>2 DEF TypeOK
  <1>6. ASSUME NEW s \in Operands, Concat(s) \/ Diff(s)  PROVE TypeOK'
    BY <1>0, <1>6 DEF Concat, Diff, TypeOK
  <1>7. ASSUME NEW k \in {"other", "ruby", "jx9"}, NEW c \in Contents, Lend(k, c)
        PROVE  TypeOK'
    BY <1>7 DEF Lend, TypeOK, Kinds, LuaKinds
  <1>8. ASSUME NEW i \in Positions, NEW j \in Positions, Get(i, j) \/ MemToString(i, j)
        PROVE  TypeOK'
    BY <1>0, <1>8 DEF Get, MemToString, TypeOK
  <1>9. ASSUME NEW i \in Positions, NEW j \in Positions, NEW s \in Operands,
               CreateCopy(s, i, j)
        PROVE  TypeOK'
    BY <1>9, CopyDenoted DEF TypeOK, Kinds, LuaKinds
  <1>10. ASSUME NEW i \in Positions, NEW j \in Positions, NEW c \in -1 .. Base,
                FillNumber(c, i, j)
         PROVE  TypeOK'
    <2>1. bytes' \in Seq(Bytes)
      BY <1>10, FillNumberKeepsRest
    <2>2. kind' = kind
      BY <1>10 DEF FillNumber
    <2> QED  BY <1>0, <2>1, <2>2 DEF TypeOK
  <1>11. ASSUME NEW i \in Positions, NEW j \in Positions, NEW s \in Operands,
                NEW o \in Positions, Find(s, i, j, o)
         PROVE  TypeOK'
    BY <1>0, <1>11 DEF Find, TypeOK
  <1>12. ASSUME NEW i \in Positions, NEW j \in Positions, NEW s \in Operands,
                NEW o \in Positions, Fill(s, i, j, o)
         PROVE  TypeOK'
    <2>1. bytes' \in Seq(Bytes)
      BY <1>12, FillKeepsRest
    <2>2. kind' = kind
      BY <1>12 DEF Fill
    <2> QED  BY <1>0, <2>1, <2>2 DEF TypeOK
  <1>13. ASSUME NEW i \in Positions, ViewGet(i)  PROVE TypeOK'
    BY <1>0, <1>13 DEF ViewGet, TypeOK
  <1>14. ASSUME NEW i \in Positions, NEW c \in -1 .. Base, ViewSet(i, c)
         PROVE  TypeOK'
    <2>1. bytes' \in Seq(Bytes)
      BY <1>14, ViewSetWrites
    <2>2. kind' = kind
      BY <1>14 DEF ViewSet
    <2> QED  BY <1>0, <2>1, <2>2 DEF TypeOK
  <1>15. ASSUME NEW i \in Positions, NEW codes \in Codes, Set(i, codes)
         PROVE  TypeOK'
    <2>1. bytes' \in Seq(Bytes)
      BY <1>15, SetWrites
    <2>2. kind' = kind
      BY <1>15 DEF Set
    <2> QED  BY <1>0, <2>1, <2>2 DEF TypeOK
  <1>16. ASSUME NEW i \in Positions, NEW fmt \in Formats, Unpack(fmt, i)
         PROVE  TypeOK'
    BY <1>0, <1>16 DEF Unpack, TypeOK
  <1>17. ASSUME NEW i \in Positions, NEW fmt \in Formats, NEW args, Pack(fmt, i, args)
         PROVE  TypeOK'
    <2>1. bytes' \in Seq(Bytes)
      <3>1. fmt \in Seq(Options) /\ i \in Int
        BY FormatsAssumption
      <3> QED  BY <1>17, <3>1, PackWrites
    <2>2. kind' = kind
      BY <1>17 DEF Pack
    <2> QED  BY <1>0, <2>1, <2>2 DEF TypeOK
  <1> QED  BY <1>1, <1>2, <1>3, <1>4, <1>5, <1>6, <1>7, <1>8, <1>9, <1>10, <1>11,
              <1>12, <1>13, <1>14, <1>15, <1>16, <1>17 DEF Next

\* Whatever scripts do, a memory has a kind, and bytes: no operation of the
\* library or of the views leaves a value that is none, for every length.
THEOREM Typed == Spec => []TypeOK
  BY InitTyped, TypeStep, PTL DEF Spec

-----------------------------------------------------------------------------
\* Reads.

\* No operation was called yet.
LEMMA ReadsInit == Init => ReadsDenoted
  BY DEF Init, ReadsDenoted, Did

\* The operations that ReadsDenoted says something about.
Read == {"get", "tostring", "concat", "copy", "viewget"}

\* mem_concat: both operands are slices of the result.
LEMMA ConcatDenoted ==
    ASSUME NEW b \in Seq(Bytes), NEW t \in Seq(Bytes)
    PROVE  /\ b = Slice(b \o t, 1, Len(b \o t) - Len(t))
           /\ t = <<>> \/ t = Slice(b \o t, -Len(t), -1)
  <1> DEFINE w == b \o t
  <1>1. /\ w \in Seq(Bytes) /\ Len(w) = Len(b) + Len(t)
        /\ Len(b) \in Nat /\ Len(t) \in Nat
        /\ \A k \in 1 .. Len(b) + Len(t) : w[k] =
              IF k <= Len(b) THEN b[k] ELSE t[k - Len(b)]
    BY ConcatProperties
  <1> HIDE DEF w
  <1>2. PosRelat(1, Len(w)) = 1 /\ EndPos(Len(w) - Len(t), Len(w)) = Len(b)
    BY <1>1 DEF PosRelat, EndPos
  <1>3. Slice(w, 1, Len(w) - Len(t)) = SubSeq(w, 1, Len(b))
    <2>1. 1 \in Int /\ Len(w) - Len(t) \in Int
      BY <1>1
    <2> QED  BY <1>1, <1>2, <2>1, SubSeqIsSlice
  <1>4. SubSeq(w, 1, Len(b)) = b
    BY <1>1
  <1>5. ASSUME t # <<>>  PROVE t = Slice(w, -Len(t), -1)
    <2>1. Len(t) >= 1
      BY <1>1, <1>5
    <2>2. PosRelat(-Len(t), Len(w)) = Len(b) + 1
      BY <1>1, <2>1 DEF PosRelat
    <2>3. EndPos(-1, Len(w)) = Len(b) + Len(t)
      BY <1>1, <2>1 DEF EndPos
    <2>4. -Len(t) \in Int /\ -1 \in Int
      BY <1>1
    <2>5. Slice(w, -Len(t), -1) = SubSeq(w, Len(b) + 1, Len(b) + Len(t))
      BY <1>1, <2>2, <2>3, <2>4, SubSeqIsSlice
    <2>6. SubSeq(w, Len(b) + 1, Len(b) + Len(t)) = t
      BY <1>1, <2>1
    <2> QED  BY <2>5, <2>6
  <1> QED  BY <1>3, <1>4, <1>5 DEF w

\* Every operation reads what its arguments denote.
LEMMA ReadsStep == TypeOK /\ ReadsDenoted /\ [Next]_vars => ReadsDenoted'
  <1> SUFFICES ASSUME TypeOK, ReadsDenoted, [Next]_vars  PROVE ReadsDenoted'
    OBVIOUS
  <1>0. kind \in Kinds /\ bytes \in Seq(Bytes)
    BY DEF TypeOK
  <1>1. CASE UNCHANGED vars
    BY <1>1 DEF vars, ReadsDenoted, Did, Was
  <1>2. CASE Return
    BY <1>2 DEF Return, ReadsDenoted, Did
  <1>3. ASSUME answer'.op \notin Read  PROVE ReadsDenoted'
    BY <1>3 DEF Read, ReadsDenoted, Did
  <1>4. CASE CreateResizable \/ Length \/ Close
    BY <1>3, <1>4 DEF CreateResizable, Length, Close, Answers, Read
  <1>5. CASE ViewToString
    <2>1. /\ answer' = [op |-> "tostring", args |-> <<1, -1>>, before |-> bytes, value |-> bytes]
          /\ bytes' = bytes
      BY <1>5 DEF ViewToString, Answers
    <2>2. bytes = Slice(bytes, 1, -1)
      <3>1. Len(bytes) \in Nat /\ 1 \in Int /\ -1 \in Int
        BY <1>0
      <3>2. PosRelat(1, Len(bytes)) = 1 /\ EndPos(-1, Len(bytes)) = Len(bytes)
        BY <3>1 DEF PosRelat, EndPos
      <3>3. SubSeq(bytes, 1, Len(bytes)) = bytes
        BY <1>0
      <3> QED  BY <1>0, <3>1, <3>2, <3>3, SubSeqIsSlice
    <2> QED  BY <2>1, <2>2 DEF ReadsDenoted, Did
  <1>6. ASSUME NEW n, CreateZeros(n)  PROVE ReadsDenoted'
    BY <1>3, <1>6 DEF CreateZeros, Answers, Read
  <1>7. ASSUME NEW n, NEW s, Resize(n, s)  PROVE ReadsDenoted'
    BY <1>3, <1>7 DEF Resize, Answers, Read
  <1>8. ASSUME NEW s, Diff(s)  PROVE ReadsDenoted'
    BY <1>3, <1>8 DEF Diff, Answers, Read
  <1>9. ASSUME NEW s \in Operands, Concat(s)  PROVE ReadsDenoted'
    <2> DEFINE t == Array(s)
    <2>1. t \in Seq(Bytes)
      BY <1>0, OperandIsBytes
    <2>2. /\ answer'.op = "concat" /\ answer'.args = <<s>> /\ answer'.before = bytes
          /\ answer'.value = Fault \/ answer'.value = bytes \o t
          /\ bytes' = bytes
      BY <1>9 DEF Concat, Answers
    <2>3. Was(s)' = t
      BY <2>2 DEF Was, Array
    <2> HIDE DEF t
    <2>4. /\ bytes = Slice(bytes \o t, 1, Len(bytes \o t) - Len(t))
          /\ t = <<>> \/ t = Slice(bytes \o t, -Len(t), -1)
      BY <1>0, <2>1, ConcatDenoted
    <2>5. answer'.args[1] = s
      BY <2>2
    <2> QED  BY <2>2, <2>3, <2>4, <2>5 DEF ReadsDenoted, Did
  <1>10. ASSUME NEW k, NEW c, Lend(k, c)  PROVE ReadsDenoted'
    BY <1>3, <1>10 DEF Lend, Answers, Read
  <1>11. ASSUME NEW i \in Positions, NEW j \in Positions, Get(i, j) \/ MemToString(i, j)
         PROVE  ReadsDenoted'
    <2>1. i \in Int /\ j \in Int
      BY Numbers
    <2>2. answer'.value = Slice(bytes, i, j)
      BY <1>0, <1>11, <2>1, SlicesDenoted
    <2>3. /\ answer'.op \in {"get", "tostring"} /\ answer'.args = <<i, j>>
          /\ bytes' = bytes
      BY <1>11 DEF Get, MemToString, Answers
    <2> QED  BY <2>2, <2>3 DEF ReadsDenoted, Did
  <1>12. ASSUME NEW i \in Positions, NEW j \in Positions, NEW s \in Operands,
                CreateCopy(s, i, j)
         PROVE  ReadsDenoted'
    <2>1. i \in Int /\ j \in Int
      BY Numbers
    <2>2. /\ answer'.op = "copy" /\ answer'.args = <<s, i, j>> /\ answer'.before = bytes
          /\ bytes' = Slice(IF s = Self THEN bytes ELSE s, i, j)
      BY <1>12, <2>1, CopyDenoted
    <2> QED  BY <2>2 DEF ReadsDenoted, Did, Was
  <1>13. ASSUME NEW i, NEW j, NEW c, FillNumber(c, i, j)  PROVE ReadsDenoted'
    BY <1>3, <1>13 DEF FillNumber, Answers, Read
  <1>14. ASSUME NEW i, NEW j, NEW s, NEW o, Find(s, i, j, o) \/ Fill(s, i, j, o)
         PROVE  ReadsDenoted'
    BY <1>3, <1>14 DEF Find, Fill, Answers, Read
  <1>15. ASSUME NEW i \in Positions, ViewGet(i)  PROVE ReadsDenoted'
    <2>1. /\ answer'.op = "viewget" /\ answer'.args = <<i>>
          /\ bytes' = bytes /\ kind' = kind
      BY <1>15 DEF ViewGet, Answers
    <2>2. CASE answer'.value = Fault
      BY <2>1, <2>2 DEF ReadsDenoted, Did
    <2>3. CASE /\ i \in 0 .. Size - 1
               /\ answer'.value = IF kind = "ruby" THEN <<bytes[i + 1]>>
                                  ELSE <<AsChar(bytes[i + 1])>>
      <3>1. kind \in {"ruby", "jx9"}
        BY <1>0, <1>15 DEF ViewGet, Lua, Kinds
      <3> DEFINE b == bytes[i + 1]
      <3>2. b \in Nat
        <4>1. bytes \in [1 .. Size -> Bytes] /\ Size \in Nat
          BY <1>0, SeqIsFunction DEF Size
        <4>2. i + 1 \in 1 .. Size
          BY <2>3, <4>1
        <4>3. Bytes \subseteq Nat
          BY BaseAssumption DEF Bytes
        <4> QED  BY <4>1, <4>2, <4>3
      <3> HIDE DEF b
      <3>3. 2 * b >= Base <=> b >= Base - Base \div 2
        BY <3>2, BaseAssumption
      <3>4. answer'.value = <<IF kind = "jx9" /\ b >= Base - Base \div 2
                              THEN b - Base ELSE b>>
        BY <2>3, <3>1, <3>3 DEF AsChar, b
      <3>5. answer'.args[1] = i
        BY <2>1
      <3> QED  BY <2>1, <3>4, <3>5 DEF ReadsDenoted, Did, b
    <2>4. \/ answer'.value = Fault
          \/ /\ i \in 0 .. Size - 1
             /\ answer'.value = IF kind = "ruby" THEN <<bytes[i + 1]>>
                                  ELSE <<AsChar(bytes[i + 1])>>
      BY <1>15 DEF ViewGet, Answers
    <2> QED  BY <2>2, <2>3, <2>4
  <1>16. ASSUME NEW i, NEW c, ViewSet(i, c)  PROVE ReadsDenoted'
    BY <1>3, <1>16 DEF ViewSet, Answers, Read
  <1>17. ASSUME NEW i, NEW codes, Set(i, codes)  PROVE ReadsDenoted'
    BY <1>3, <1>17 DEF Set, Answers, Read
  <1>18. ASSUME NEW i, NEW fmt, Unpack(fmt, i)  PROVE ReadsDenoted'
    BY <1>3, <1>18 DEF Unpack, Answers, Read
  <1>19. ASSUME NEW i, NEW fmt, NEW args, Pack(fmt, i, args)  PROVE ReadsDenoted'
    BY <1>3, <1>19 DEF Pack, Answers, Read
  <1> QED  BY <1>1, <1>2, <1>4, <1>5, <1>6, <1>7, <1>8, <1>9, <1>10, <1>11,
              <1>12, <1>13, <1>14, <1>15, <1>16, <1>17, <1>18, <1>19 DEF Next

\* mem_get, mem_tostring, mem_concat, mem_create and the accessors of the views
\* read the bytes that their positions denote, and only these, for every length.
THEOREM ReadsWhatIsDenoted == Spec => []ReadsDenoted
  BY Typed, ReadsInit, TypeStep, ReadsStep, PTL DEF Spec

-----------------------------------------------------------------------------
\* Writes.

\* No operation was called yet.
LEMMA WritesInit == Init => WritesDenoted
  BY DEF Init, WritesDenoted, Did

\* A step that keeps the positions it may not write, and the length.
LEMMA WritesSuffices ==
    ASSUME TypeOK, answer'.before = bytes, bytes' \in Seq(Bytes), Len(bytes') = Len(bytes),
           \A k \in DOMAIN bytes : k \notin Writable' => bytes'[k] = bytes[k],
           answer'.op # "set"
    PROVE  WritesDenoted'
  <1>1. DOMAIN bytes' = DOMAIN bytes
    BY DEF TypeOK
  <1> QED  BY <1>1 DEF WritesDenoted, Did

\* Every operation writes only where its arguments say.
LEMMA WritesStep == TypeOK /\ WritesDenoted /\ [Next]_vars => WritesDenoted'
  <1> SUFFICES ASSUME TypeOK, WritesDenoted, [Next]_vars  PROVE WritesDenoted'
    OBVIOUS
  <1>0. /\ kind \in Kinds /\ bytes \in Seq(Bytes) /\ Len(bytes) \in Nat
        /\ DOMAIN bytes = 1 .. Len(bytes)
    BY DEF TypeOK
  <1>1. CASE UNCHANGED vars
    BY <1>1 DEF vars, WritesDenoted, Did, Writable
  <1>2. CASE Return
    BY <1>2 DEF Return, WritesDenoted, Did
  <1>3. ASSUME answer'.op \in {"create", "copy", "lend", "close"}  PROVE WritesDenoted'
    BY <1>3 DEF WritesDenoted, Did
  <1>4. CASE CreateResizable \/ Close
    BY <1>3, <1>4 DEF CreateResizable, Close, Answers
  <1>5. ASSUME bytes' = bytes, answer'.before = bytes, answer'.op # "set"
        PROVE  WritesDenoted'
    BY <1>0, <1>5, WritesSuffices
  <1>6. CASE Length \/ ViewToString
    BY <1>5, <1>6 DEF Length, ViewToString, Answers
  <1>7. ASSUME NEW n, CreateZeros(n)  PROVE WritesDenoted'
    BY <1>3, <1>7 DEF CreateZeros, Answers
  <1>8. ASSUME NEW n \in -1 .. MaxLen, NEW s \in Operands, Resize(n, s)
        PROVE  WritesDenoted'
    <2>1. n \in Int
      OBVIOUS
    <2>2. /\ bytes' \in Seq(Bytes)
          /\ answer'.op = "resize" /\ answer'.before = bytes
          /\ \A k \in DOMAIN bytes : k <= Len(bytes') => bytes'[k] = bytes[k]
      BY <1>8, <2>1, ResizeKeeps
    <2>3. Writable' = Len(bytes') + 1 .. Len(bytes)
      BY <2>2 DEF Writable
    <2>4. Len(bytes') \in Nat /\ DOMAIN bytes' = 1 .. Len(bytes')
      BY <2>2
    <2>5. ASSUME NEW k \in DOMAIN bytes, k \notin Writable'
          PROVE  k \in DOMAIN bytes' /\ bytes'[k] = bytes[k]
      <3>1. k <= Len(bytes') /\ k \in 1 .. Len(bytes')
        BY <1>0, <2>3, <2>4, <2>5
      <3> QED  BY <2>2, <2>4, <3>1
    <2> QED  BY <2>2, <2>5 DEF WritesDenoted, Did
  <1>9. ASSUME NEW s, Concat(s) \/ Diff(s)  PROVE WritesDenoted'
    <2>1. CASE Concat(s)
      BY <1>5, <2>1 DEF Concat, Answers
    <2>2. CASE Diff(s)
      BY <1>5, <2>2 DEF Diff, Answers
    <2> QED  BY <1>9, <2>1, <2>2
  <1>10. ASSUME NEW k, NEW c, Lend(k, c)  PROVE WritesDenoted'
    BY <1>3, <1>10 DEF Lend, Answers
  <1>11. ASSUME NEW i, NEW j, Get(i, j) \/ MemToString(i, j)  PROVE WritesDenoted'
    BY <1>5, <1>11 DEF Get, MemToString, Answers
  <1>12. ASSUME NEW i, NEW j, NEW s, CreateCopy(s, i, j)  PROVE WritesDenoted'
    BY <1>3, <1>12 DEF CreateCopy, Answers
  <1>13. ASSUME NEW i \in Positions, NEW j \in Positions, NEW c \in -1 .. Base,
                FillNumber(c, i, j)
         PROVE  WritesDenoted'
    <2>1. i \in Int /\ j \in Int /\ c \in Int
      BY Numbers
    <2>2. /\ bytes' \in Seq(Bytes) /\ Len(bytes') = Len(bytes)
          /\ answer'.op = "fill" /\ answer'.args = <<<<c>>, i, j, 1>> /\ answer'.before = bytes
          /\ \A k \in DOMAIN bytes : k \notin Window(i, j, Len(bytes)) => bytes'[k] = bytes[k]
      BY <1>13, <2>1, FillNumberKeepsRest
    <2>3. Writable' = Window(i, j, Len(bytes))
      BY <2>2 DEF Writable
    <2> QED  BY <2>2, <2>3, WritesSuffices
  <1>14. ASSUME NEW i, NEW j, NEW s, NEW o, Find(s, i, j, o)  PROVE WritesDenoted'
    BY <1>5, <1>14 DEF Find, Answers
  <1>15. ASSUME NEW i \in Positions, NEW j \in Positions, NEW s \in Operands,
                NEW o \in Positions, Fill(s, i, j, o)
         PROVE  WritesDenoted'
    <2>1. i \in Int /\ j \in Int /\ o \in Int
      BY Numbers
    <2>2. /\ bytes' \in Seq(Bytes) /\ Len(bytes') = Len(bytes)
          /\ answer' = [op |-> "fill", args |-> <<s, i, j, o>>, before |-> bytes,
                        value |-> <<>>]
          /\ \A k \in DOMAIN bytes : k \notin Window(i, j, Len(bytes)) => bytes'[k] = bytes[k]
      BY <1>15, <2>1, FillKeepsRest
    <2>3. Writable' = Window(i, j, Len(bytes))
      BY <2>2 DEF Writable
    <2> QED  BY <2>2, <2>3, WritesSuffices
  <1>16. ASSUME NEW i, ViewGet(i)  PROVE WritesDenoted'
    BY <1>5, <1>16 DEF ViewGet, Answers
  <1>17. ASSUME NEW i \in Positions, NEW c \in -1 .. Base, ViewSet(i, c)
         PROVE  WritesDenoted'
    <2>1. i \in Int /\ c \in Int
      BY Numbers
    <2>2. /\ bytes' \in Seq(Bytes) /\ Len(bytes') = Len(bytes)
          /\ answer'.op = "viewset" /\ answer'.args = <<i, c>> /\ answer'.before = bytes
          /\ \A k \in DOMAIN bytes : k # i + 1 => bytes'[k] = bytes[k]
      BY <1>17, <2>1, ViewSetWrites
    <2>3. Writable' = {i + 1}
      BY <2>2 DEF Writable
    <2> QED  BY <2>2, <2>3, WritesSuffices
  <1>18. ASSUME NEW i \in Positions, NEW codes \in Codes, Set(i, codes)
         PROVE  WritesDenoted'
    <2>1. i \in Int /\ codes \in Seq(Int) /\ Len(codes) \in Nat
      BY Numbers
    <2> DEFINE first == First(i, Len(bytes))
    <2>2. /\ bytes' \in Seq(Bytes) /\ Len(bytes') = Len(bytes)
          /\ answer'.op = "set" /\ answer'.args = <<i, codes>> /\ answer'.before = bytes
          /\ SameOutside(bytes, bytes', first, Len(codes))
          /\ \A c \in DOMAIN codes :
                /\ \A d \in 1 .. c : codes[d] \in Bytes
                /\ first + c - 1 <= Len(bytes)
                => bytes'[first + c - 1] = codes[c]
      BY <1>18, <2>1, SetWrites
    <2>3. Writable' = {k \in 1 .. Len(bytes) : k - first \in 0 .. Len(codes) - 1}
      BY <2>2 DEF Writable
    <2>4. first \in Int
      BY <1>0, <2>1, FirstIsStart, Clipped
    <2> HIDE DEF first
    <2>5. ASSUME NEW k \in DOMAIN bytes, k \notin Writable'  PROVE bytes'[k] = bytes[k]
      <3>1. k \notin first .. first + Len(codes) - 1
        BY <1>0, <2>1, <2>3, <2>4, <2>5
      <3> QED  BY <2>2, <3>1 DEF SameOutside
    <2>6. DOMAIN bytes' = DOMAIN bytes /\ first = First(i, Len(bytes'))
      BY <2>2 DEF TypeOK, first
    <2> QED  BY <2>2, <2>5, <2>6 DEF WritesDenoted, Did
  <1>19. ASSUME NEW i, NEW fmt, Unpack(fmt, i)  PROVE WritesDenoted'
    BY <1>5, <1>19 DEF Unpack, Answers
  <1>20. ASSUME NEW i \in Positions, NEW fmt \in Formats, NEW args, Pack(fmt, i, args)
         PROVE  WritesDenoted'
    <2>1. i \in Int /\ fmt \in Seq(Options)
      BY Numbers, FormatsAssumption
    <2>2. /\ bytes' \in Seq(Bytes) /\ Len(bytes') = Len(bytes)
          /\ answer'.op = "pack" /\ answer'.args = <<fmt, i, args>>
          /\ answer'.before = bytes
          /\ \A k \in DOMAIN bytes : k < First(i, Len(bytes)) => bytes'[k] = bytes[k]
      BY <1>20, <2>1, PackWrites
    <2>3. Writable' = {k \in 1 .. Len(bytes) : k >= First(i, Len(bytes))}
      BY <2>2 DEF Writable
    <2>4. First(i, Len(bytes)) \in Int
      BY <1>0, <2>1, FirstIsStart, Clipped
    <2>5. ASSUME NEW k \in DOMAIN bytes, k \notin Writable'  PROVE bytes'[k] = bytes[k]
      <3>1. k < First(i, Len(bytes))
        BY <1>0, <2>3, <2>4, <2>5
      <3> QED  BY <2>2, <3>1
    <2> QED  BY <2>2, <2>5, WritesSuffices
  <1> QED  BY <1>1, <1>2, <1>4, <1>6, <1>7, <1>8, <1>9, <1>10, <1>11, <1>12, <1>13,
              <1>14, <1>15, <1>16, <1>17, <1>18, <1>19, <1>20 DEF Next

\* mem_set, mem_fill, mem_pack, mem_resize and the views change no byte but
\* those that their arguments denote; mem_set writes every code before the first
\* that is no byte, as far as the memory reaches.
THEOREM WritesOnlyDenoted == Spec => []WritesDenoted
  BY Typed, WritesInit, TypeStep, WritesStep, PTL DEF Spec

-----------------------------------------------------------------------------
\* Fills.

\* The remainder of a multiple and a rest,
LEMMA Remainder ==
    ASSUME NEW q \in Nat, NEW n \in Nat, n >= 1, NEW r \in 0 .. n - 1
    PROVE  (q * n + r) % n = r
  <1> DEFINE a == q * n + r
  <1>1. a \in Nat
    BY Products
  <1> DEFINE d == a \div n
             m == a % n
  <1>2. a = n * d + m /\ m \in 0 .. n - 1 /\ d \in Int
    BY <1>1
  <1>3. (q - d) * n = m - r
    BY <1>2
  <1>4. q - d <= 0
    BY <1>2, <1>3
  <1>5. q - d >= 0
    BY <1>2, <1>3
  <1> QED  BY <1>2, <1>3, <1>4, <1>5

\* the multiple below a number,
LEMMA Quotient ==
    ASSUME NEW a \in Nat, NEW n \in Nat, n >= 1
    PROVE  /\ a \div n \in Nat
           /\ (a \div n) * n <= a
           /\ a < (a \div n) * n + n
           /\ a \div n <= a
  OBVIOUS

\* and the distance of two multiples,
LEMMA Multiples ==
    ASSUME NEW p \in Nat, NEW q \in Nat, NEW n \in Nat, p * n < q * n
    PROVE  p + 1 <= q /\ p * n + n <= q * n
  OBVIOUS

\* of one divisor. The proofs of memfill count chunks with them.
LEMMA NextMultiple ==
    ASSUME NEW c \in Nat, NEW n \in Int, c >= 1
    PROVE  (c - 1) * n + n = c * n
  OBVIOUS

\* What turn c reads, as far as it writes, is what s held at first: t.
Intact(t, i, n, s, os) ==
    s = Self => \A c \in 2 .. n : LET first == i + (c - 1) * (Len(t) - os + 1) IN
                                 first < i + n => first <= os

\* The bytes of w repeat t from os on.
Repeats(mem, i, n, t, os) ==
    \A k \in i .. i + n - 1 : mem[k] = t[os + ((k - i) % (Len(t) - os + 1))]

\* The bytes that are filled after c turns, and the ones that are not.
FilledUpTo(old, mem, i, n, t, os, c) ==
    LET first == i + c * (Len(t) - os + 1) IN
    /\ \A k \in i .. i + n - 1 :
          k < first => mem[k] = t[os + ((k - i) % (Len(t) - os + 1))]
    /\ \A k \in i .. i + n - 1 : k >= first => mem[k] = old[k]
    /\ SameOutside(old, mem, i, n)

\* One memmove fills one more chunk.
LEMMA TurnRepeats ==
    ASSUME NEW len \in Nat, NEW old \in [1 .. len -> Bytes], NEW m \in [1 .. len -> Bytes],
           NEW i \in Nat, NEW n \in Nat, i >= 1, i + n <= len + 1,
           NEW s, NEW t \in Seq(Bytes), t = (IF s = Self THEN old ELSE s),
           NEW os \in Nat, os >= 1, os <= Len(t),
           Intact(t, i, n, s, os),
           NEW c \in 1 .. n, FilledUpTo(old, m, i, n, t, os, c - 1)
    PROVE  FilledUpTo(old, FillTurn(m, c, i, n, s, os), i, n, t, os, c)
  <1> DEFINE chunk == Len(t) - os + 1
             first == i + (c - 1) * chunk
             next == i + c * chunk
             src == IF s = Self THEN m ELSE s
             new == FillTurn(m, c, i, n, s, os)
  <1>1. /\ m \in Seq(Bytes) /\ Len(m) = len /\ DOMAIN m = 1 .. len
        /\ old \in Seq(Bytes) /\ Len(old) = len /\ DOMAIN old = 1 .. len
        /\ Len(t) \in Nat
    BY FunctionIsSeq
  <1>2. chunk \in Nat /\ chunk >= 1 /\ Len(src) = Len(t)
    BY <1>1
  <1>3. new = [k \in 1 .. len |-> IF k \in first .. first + chunk - 1 /\ k < i + n
                                  THEN src[os + k - first] ELSE m[k]]
    BY <1>1, <1>2 DEF FillTurn
  <1>4. first \in Nat /\ next = first + chunk /\ first >= i
    <2> HIDE DEF chunk
    <2>1. (c - 1) * chunk \in Nat /\ (c - 1) * chunk + chunk = c * chunk
      BY <1>2, Products, NextMultiple
    <2> QED  BY <1>2, <2>1
  <1>5. /\ \A k \in i .. i + n - 1 :
              k < first => m[k] = t[os + ((k - i) % chunk)]
        /\ \A k \in i .. i + n - 1 : k >= first => m[k] = old[k]
        /\ SameOutside(old, m, i, n)
    BY DEF FilledUpTo
  <1>6. s = Self /\ c # 1 /\ first < i + n => first <= os
    <2>1. c # 1 => c \in 2 .. n
      OBVIOUS
    <2> QED  BY <2>1 DEF Intact
  <1>7. c = 1 => first = i
    BY <1>2
  <1>8. os + chunk - 1 = Len(t)
    BY <1>1
  <1>9. ASSUME NEW k \in first .. next - 1
        PROVE  (k - i) % chunk = k - first
    <2> DEFINE r == k - first
    <2>1. r \in 0 .. chunk - 1 /\ c - 1 \in Nat /\ k \in Int
      <3>1. c - 1 \in Nat
        OBVIOUS
      <3> HIDE DEF chunk, first, next
      <3> QED  BY <1>2, <1>4, <3>1
    <2>2. (c - 1) * chunk + r = k - i
      <3> DEFINE a == (c - 1) * chunk
      <3>1. a \in Nat /\ first = i + a /\ k \in Int
        <4>1. first = i + a
          OBVIOUS
        <4> HIDE DEF chunk, first, next
        <4>2. a \in Nat
          BY <1>2, <2>1, Products
        <4> QED  BY <2>1, <4>1, <4>2
      <3> HIDE DEF a
      <3>2. a + (k - (i + a)) = k - i
        BY <3>1
      <3> QED  BY <3>1, <3>2 DEF a
    <2> HIDE DEF chunk, r
    <2>3. ((c - 1) * chunk + r) % chunk = r
      BY <1>2, <2>1, Remainder
    <2> QED  BY <2>2, <2>3 DEF r
  <1> HIDE DEF chunk, first, next, src, new
  <1>10. ASSUME NEW k \in first .. next - 1, k < i + n
         PROVE  src[os + k - first] = t[os + k - first]
    <2>1. CASE s # Self
      BY <2>1 DEF src
    <2>2. CASE s = Self
      <3> DEFINE x == os + k - first
      <3>1. x \in 1 .. len
        BY <1>1, <1>2, <1>4, <1>8, <2>2
      <3>2. x >= i => x >= first
        <4>1. CASE c = 1
          BY <1>4, <1>7, <4>1, <3>1
        <4>2. CASE c # 1
          BY <1>4, <1>6, <1>10, <2>2, <4>2
        <4> QED  BY <4>1, <4>2
      <3> HIDE DEF x
      <3>3. m[x] = old[x]
        <4>1. CASE x \in i .. i + n - 1
          BY <1>5, <3>2, <4>1
        <4>2. CASE x \notin i .. i + n - 1
          BY <1>1, <1>5, <3>1, <4>2 DEF SameOutside
        <4> QED  BY <4>1, <4>2
      <3> QED  BY <2>2, <3>3 DEF src, x
    <2> QED  BY <2>1, <2>2
  <1>11. \A k \in i .. i + n - 1 : k \in 1 .. len
    OBVIOUS
  <1>12. ASSUME NEW k \in i .. i + n - 1, k < next
         PROVE  new[k] = t[os + ((k - i) % chunk)]
    <2>1. CASE k < first
      <3>1. new[k] = m[k]
        BY <1>3, <1>4, <1>11, <2>1
      <3> QED  BY <1>5, <2>1, <3>1
    <2>2. CASE k >= first
      <3>1. k \in first .. next - 1 /\ k \in first .. first + chunk - 1 /\ k < i + n
        BY <1>2, <1>4, <1>12, <2>2
      <3>2. new[k] = src[os + k - first]
        BY <1>3, <1>11, <3>1
      <3>3. os + ((k - i) % chunk) = os + k - first
        <4> DEFINE q == (k - i) % chunk
        <4>1. q = k - first
          BY <1>9, <3>1
        <4>2. k \in Int /\ first \in Int
          BY <1>4
        <4> HIDE DEF q
        <4>3. os + q = os + k - first
          BY <4>1, <4>2
        <4> QED  BY <4>3 DEF q
      <3> QED  BY <1>10, <3>1, <3>2, <3>3
    <2> QED  BY <1>4, <2>1, <2>2
  <1>13. ASSUME NEW k \in i .. i + n - 1, k >= next
         PROVE  new[k] = old[k]
    <2>1. k >= first /\ k \notin first .. first + chunk - 1
      BY <1>2, <1>4, <1>13
    <2> QED  BY <1>3, <1>5, <1>11, <2>1
  <1>14. SameOutside(old, new, i, n)
    <2>1. ASSUME NEW k \in 1 .. len, k \notin i .. i + n - 1  PROVE new[k] = old[k]
      <3>1. ~(k \in first .. first + chunk - 1 /\ k < i + n)
        BY <1>2, <1>4, <2>1
      <3> QED  BY <1>1, <1>3, <1>5, <2>1, <3>1 DEF SameOutside
    <2> QED  BY <1>1, <2>1 DEF SameOutside
  <1> QED  BY <1>12, <1>13, <1>14 DEF FilledUpTo, chunk, next, new

\* memfill repeats the operand.
LEMMA FillIsRepetition ==
    ASSUME NEW mem \in Seq(Bytes), NEW i \in Nat, NEW n \in Nat, i >= 1,
           i + n <= Len(mem) + 1,
           NEW s, s = Self \/ s \in Seq(Bytes),
           NEW t \in Seq(Bytes), t = (IF s = Self THEN mem ELSE s),
           NEW os \in Nat, os >= 1, os <= Len(t),
           Intact(t, i, n, s, os)
    PROVE  Repeats(MemFill(mem, i, n, s, os), i, n, t, os)
  <1> DEFINE len == Len(mem)
             chunk == Len(t) - os + 1
  <1>1. len \in Nat /\ mem \in [1 .. len -> Bytes] /\ i \in Int /\ i + n <= len + 1
        /\ Len(t) \in Nat
    BY SeqIsFunction
  <1> HIDE DEF len
  <1>2. PICK f \in [0 .. n -> [1 .. len -> Bytes]] : Fills(f, mem, i, n, s, os)
    BY <1>1, FillRuns
  <1> DEFINE S == {c \in 0 .. n : FilledUpTo(mem, f[c], i, n, t, os, c)}
  <1>3. 0 \in S
    <2>1. f[0] = mem
      BY <1>2 DEF Fills
    <2>2. i + 0 * chunk = i
      BY <1>1
    <2>3. FilledUpTo(mem, f[0], i, n, t, os, 0)
      BY <2>1, <2>2 DEF FilledUpTo, SameOutside
    <2> QED  BY <2>3
  <1>4. ASSUME NEW c \in 1 .. n, c - 1 \in S  PROVE c \in S
    <2>1. f[c - 1] \in [1 .. len -> Bytes] /\ c \in 0 .. n
      OBVIOUS
    <2>2. FilledUpTo(mem, f[c - 1], i, n, t, os, c - 1)
      BY <1>4
    <2>3. FilledUpTo(mem, FillTurn(f[c - 1], c, i, n, s, os), i, n, t, os, c)
      BY <1>1, <2>1, <2>2, TurnRepeats
    <2>4. f[c] = FillTurn(f[c - 1], c, i, n, s, os)
      BY <1>2 DEF Fills
    <2> QED  BY <2>1, <2>3, <2>4
  <1>5. FilledUpTo(mem, f[n], i, n, t, os, n)
    <2> HIDE DEF S
    <2>1. \A c \in 0 .. n : c \in S
      BY <1>3, <1>4, Induction
    <2> QED  BY <2>1 DEF S
  <1>6. i + n * chunk >= i + n
    <2>1. chunk \in Nat /\ chunk >= 1
      BY <1>1
    <2> HIDE DEF chunk
    <2>2. n * chunk >= n
      BY <2>1
    <2> QED  BY <2>1, <2>2, Products
  <1>7. \A k \in i .. i + n - 1 : k < i + n * chunk
    <2>1. n * chunk \in Int
      BY <1>1
    <2> HIDE DEF chunk
    <2> QED  BY <1>6, <2>1
  <1>8. MemFill(mem, i, n, s, os) = f[n]
    BY <1>2 DEF Fills
  <1> QED  BY <1>5, <1>7, <1>8 DEF FilledUpTo, Repeats

\* An interval starts at its least and ends at its greatest number.
LEMMA Ends ==
    ASSUME NEW from \in Int, NEW to \in Int, from <= to
    PROVE  Min(from .. to) = from /\ Max(from .. to) = to
  <1> DEFINE T == from .. to
  <1>1. from \in T /\ to \in T /\ T \subseteq Int /\ \A y \in T : from <= y /\ y <= to
    OBVIOUS
  <1> HIDE DEF T
  <1>2. \A x \in T : (\A y \in T : x <= y) => x = from
    BY <1>1
  <1>3. \A x \in T : (\A y \in T : x >= y) => x = to
    BY <1>1
  <1>4. Min(T) = from
    BY <1>1, <1>2 DEF Min
  <1>5. Max(T) = to
    BY <1>1, <1>3 DEF Max
  <1> QED  BY <1>4, <1>5 DEF T

\* A memory that fills itself does not reread what it has overwritten,
\* unless FillRepeats says so.
LEMMA NotReread ==
    ASSUME NEW t \in Seq(Bytes), NEW from \in Nat, NEW to \in 0 .. Len(t),
           from >= 1, from <= to,
           NEW os \in Nat, os >= 1, os <= Len(t),
           NEW s,
           ~(s = Self /\ \E c \in 0 .. Len(t) :
                LET chunk == from + c * (Len(t) - os + 1) IN
                chunk < os /\ os < chunk + (Len(t) - os + 1)
                /\ chunk + (Len(t) - os + 1) <= to)
    PROVE  Intact(t, from, to - from + 1, s, os)
  <1> DEFINE n == Len(t) - os + 1
             len == Len(t)
  <1>1. n \in Nat /\ n >= 1 /\ len \in Nat /\ os + n = len + 1 /\ to \in Nat
    OBVIOUS
  <1> SUFFICES ASSUME s = Self, NEW c \in 2 .. to - from + 1,
                      from + (c - 1) * n < from + (to - from + 1),
                      ~(from + (c - 1) * n <= os)
               PROVE  FALSE
    BY DEF Intact
  <1> HIDE DEF n, len
  <1> DEFINE a == (c - 1) * n
  <1>2. c - 1 \in Nat /\ c - 1 >= 1 /\ a \in Nat
    BY <1>1, Products
  <1>3. from + a <= to /\ os < from + a
    <2> HIDE DEF a
    <2> QED  BY <1>1, <1>2 DEF a
  <1>4. CASE os < from
    <2>1. a >= n
      BY <1>1, <1>2
    <2> HIDE DEF a
    <2> QED  BY <1>1, <1>2, <1>3, <1>4, <2>1 DEF len
  <1>5. CASE os >= from
    <2> DEFINE e == (os - from) \div n
               b == e * n
    <2>1. os - from \in Nat
      BY <1>5
    <2>2. /\ e \in Nat /\ b <= os - from /\ os - from < b + n /\ e <= os - from
          /\ b \in Nat
      BY <1>1, <2>1, Quotient, Products
    <2> HIDE DEF e
    <2>3. b < a
      <3> HIDE DEF a, b
      <3> QED  BY <1>2, <1>3, <2>1, <2>2
    <2>4. b + n <= a
      BY <1>1, <1>2, <2>2, <2>3, Multiples
    <2>5. e \in 0 .. Len(t)
      BY <2>2
    <2>6. ~(from + b < os /\ os < from + b + n /\ from + b + n <= to)
      BY <2>5 DEF n
    <2> HIDE DEF a, b
    <2>7. os < from + b + n /\ from + b + n <= to
      BY <1>1, <1>2, <1>3, <2>2, <2>4
    <2>8. from + b = os
      BY <2>1, <2>2, <2>6, <2>7
    <2> QED  BY <1>1, <2>7, <2>8 DEF len
  <1> QED  BY <1>4, <1>5

\* No operation was called yet.
LEMMA FillsInit == Init => FillRepeats
  BY DEF Init, FillRepeats, Did

\* FillRepeats, of a fill of w that turned old into new.
RepeatsOver(old, new, s, t, w, os) ==
    LET n == Len(t) - os + 1
        rereads == s = Self /\ \E c \in 0 .. Len(t) :
                      LET chunk == Min(w) + c * n IN
                      chunk < os /\ os < chunk + n /\ chunk + n <= Max(w)
    IN  IF w = {} \/ n <= 0 THEN new = old
        ELSE rereads \/ \A k \in w : new[k] = t[os + ((k - Min(w)) % n)]

\* What has to be shown of a fill.
LEMMA FillRepeatsSuffices ==
    ASSUME answer'.op = "fill",
           RepeatsOver(answer.before, bytes, answer.args[1], Was(answer.args[1]),
                       Window(answer.args[2], answer.args[3], Len(bytes)),
                       First(answer.args[4], Len(Was(answer.args[1]))))'
    PROVE  FillRepeats'
  <1>1. ~Did("resize")'
    BY DEF Did
  <1> QED  BY <1>1 DEF FillRepeats, RepeatsOver

\* What mem_fill has written.
LEMMA FillWrites ==
    ASSUME TypeOK, NEW s, s = Self \/ s \in Seq(Bytes),
           NEW t \in Seq(Bytes), t = (IF s = Self THEN bytes ELSE s),
           NEW i \in Int, NEW j \in Int, NEW o \in Int,
           bytes' = IF PosRelat(i, Size) <= EndPos(j, Size) /\ PosRelat(o, Len(t)) <= Len(t)
                    THEN MemFill(bytes, PosRelat(i, Size),
                                 EndPos(j, Size) - PosRelat(i, Size) + 1, s,
                                 PosRelat(o, Len(t)))
                    ELSE bytes,
           Len(bytes') = Len(bytes),
           answer'.op = "fill", answer'.args = <<s, i, j, o>>, answer'.before = bytes
    PROVE  FillRepeats'
  <1> DEFINE from == PosRelat(i, Size)
             to == EndPos(j, Size)
             os == PosRelat(o, Len(t))
             w == Window(i, j, Len(bytes))
             n == Len(t) - os + 1
             size == to - from + 1
             rereads == s = Self /\ \E c \in 0 .. Len(t) :
                          LET chunk == Min(w) + c * n IN
                          chunk < os /\ os < chunk + n /\ chunk + n <= Max(w)
  <1>1. /\ bytes \in Seq(Bytes) /\ Size \in Nat /\ Size = Len(bytes)
        /\ Len(t) \in Nat
    BY DEF TypeOK, Size
  <1>2. /\ from \in Nat /\ from >= 1 /\ to \in 0 .. Size /\ w = from .. to
        /\ os \in Nat /\ os >= 1 /\ First(o, Len(t)) = os
    BY <1>1, Clipped, SliceIsWindow, FirstIsStart
  <1>3. bytes' = IF from <= to /\ os <= Len(t)
                 THEN MemFill(bytes, from, size, s, os) ELSE bytes
    OBVIOUS
  <1>4. Len(bytes') = Len(bytes)
    OBVIOUS
  <1>5. Was(s)' = t
    BY DEF Was
  <1>6. answer'.args[1] = s /\ answer'.args[2] = i /\ answer'.args[3] = j
        /\ answer'.args[4] = o
    OBVIOUS
  <1>7. ASSUME IF w = {} \/ n <= 0 THEN bytes' = bytes
               ELSE rereads \/ \A k \in w : bytes'[k] = t[os + ((k - Min(w)) % n)]
        PROVE  FillRepeats'
    <2> HIDE DEF from, to, os
    <2>1. RepeatsOver(bytes, bytes', s, t, w, os)
      BY <1>7 DEF RepeatsOver
    <2>2. /\ Window(i, j, Len(bytes')) = w
          /\ First(o, Len(t)) = os
      BY <1>2, <1>4
    <2> HIDE DEF w
    <2>3. RepeatsOver(answer.before, bytes, answer.args[1], Was(answer.args[1]),
                      Window(answer.args[2], answer.args[3], Len(bytes)),
                      First(answer.args[4], Len(Was(answer.args[1]))))'
      BY <1>5, <1>6, <2>1, <2>2
    <2> QED  BY <2>3, FillRepeatsSuffices
  <1> HIDE DEF from, to, os
  <1>8. CASE from > to \/ os > Len(t)
    <2>1. w = {} \/ n <= 0
      BY <1>1, <1>2, <1>8
    <2>2. bytes' = bytes
      <3>1. ~(from <= to /\ os <= Len(t))
        BY <1>1, <1>2, <1>8
      <3> QED  BY <1>3, <3>1
    <2> QED  BY <1>7, <2>1, <2>2
  <1>9. CASE from <= to /\ os <= Len(t)
    <2>1. Min(w) = from /\ Max(w) = to
      BY <1>2, <1>9, Ends
    <2>2. /\ size \in Nat /\ from + size <= Len(bytes) + 1
          /\ from .. from + size - 1 = from .. to
      BY <1>1, <1>2, <1>9
    <2>3. bytes' = MemFill(bytes, from, size, s, os)
      BY <1>3, <1>9
    <2>4. CASE ~rereads
      <3>1. Intact(t, from, size, s, os)
        <4>1. CASE s # Self
          BY <4>1 DEF Intact
        <4>2. CASE s = Self
          <5>1. t = bytes /\ to \in 0 .. Len(t)
            BY <1>1, <1>2, <4>2
          <5>2. ~(s = Self /\ \E c \in 0 .. Len(t) :
                LET chunk == from + c * (Len(t) - os + 1) IN
                chunk < os /\ os < chunk + (Len(t) - os + 1)
                /\ chunk + (Len(t) - os + 1) <= to)
            BY <2>1, <2>4
          <5> QED  BY <1>2, <1>9, <5>1, <5>2, NotReread
        <4> QED  BY <4>1, <4>2
      <3> HIDE DEF size
      <3>2. Repeats(MemFill(bytes, from, size, s, os), from, size, t, os)
        BY <1>1, <1>2, <1>9, <2>2, <3>1, FillIsRepetition
      <3>3. \A k \in from .. to : bytes'[k] = t[os + ((k - from) % n)]
        BY <2>2, <2>3, <3>2 DEF Repeats
      <3>4. \A k \in w : bytes'[k] = t[os + ((k - Min(w)) % n)]
        BY <1>2, <2>1, <3>3
      <3>5. ~(w = {} \/ n <= 0)
        BY <1>1, <1>2, <1>9
      <3> HIDE DEF w, n, rereads
      <3> QED  BY <1>7, <3>4, <3>5
    <2>5. CASE rereads
      <3>1. ~(w = {} \/ n <= 0)
        BY <1>1, <1>2, <1>9
      <3> HIDE DEF w, n, rereads
      <3> QED  BY <1>7, <2>5, <3>1
    <2> QED  BY <2>4, <2>5
  <1> QED  BY <1>1, <1>2, <1>8, <1>9

\* Every fill repeats its operand, and every resize its filler.
LEMMA FillsStep == TypeOK /\ FillRepeats /\ [Next]_vars => FillRepeats'
  <1> SUFFICES ASSUME TypeOK, FillRepeats, [Next]_vars  PROVE FillRepeats'
    OBVIOUS
  <1>0. kind \in Kinds /\ bytes \in Seq(Bytes) /\ Size = Len(bytes) /\ Size \in Nat
    BY DEF TypeOK, Size
  <1>1. CASE UNCHANGED vars
    BY <1>1 DEF vars, FillRepeats, Did, Was
  <1>2. CASE Return
    BY <1>2 DEF Return, FillRepeats, Did
  <1>3. ASSUME answer'.op \notin {"fill", "resize"}  PROVE FillRepeats'
    BY <1>3 DEF FillRepeats, Did
  <1>4. CASE CreateResizable \/ Length \/ ViewToString \/ Close
    BY <1>3, <1>4 DEF CreateResizable, Length, ViewToString, Close, Answers
  <1>5. ASSUME NEW n, CreateZeros(n)  PROVE FillRepeats'
    BY <1>3, <1>5 DEF CreateZeros, Answers
  <1>6. ASSUME NEW n \in -1 .. MaxLen, NEW s \in Operands, Resize(n, s)
        PROVE  FillRepeats'
    <2> DEFINE old == Len(bytes)
               longer == bytes \o Zeros(n - Size)
               d == n - Size
    <2>1. /\ answer'.op = "resize" /\ answer'.args = <<n, s>> /\ answer'.before = bytes
      BY <1>6 DEF Resize, Answers
    <2>2. ASSUME \A k \in Size + 1 .. Len(bytes') :
                    bytes'[k] = IF Was(s)' = <<>> THEN 0
                                ELSE IF s = Self THEN bytes'[k]
                                ELSE s[((k - Size - 1) % Len(s)) + 1]
          PROVE  FillRepeats'
      <3>1. ~Did("fill")'
        BY <2>1 DEF Did
      <3>2. answer'.args[2] = s /\ Len(answer'.before) = Size
        BY <1>0, <2>1
      <3> QED  BY <2>2, <3>1, <3>2 DEF FillRepeats
    <2>3. Was(s)' = Array(s)
      BY <2>1 DEF Was, Array
    <2>4. Array(s) \in Seq(Bytes) /\ (s = Self \/ s \in Seq(Bytes))
      BY <1>0, OperandIsBytes
    <2>5. CASE Len(bytes') <= Size /\ bytes' \in Seq(Bytes)
      BY <1>0, <2>2, <2>5
    <2>6. ASSUME n > Size
          PROVE  /\ d \in Nat /\ longer \in Seq(Bytes) /\ Len(longer) = n
                 /\ \A k \in Size + 1 .. n : longer[k] = 0
      <3>1. d \in Nat /\ Size + d = n
        BY <1>0, <2>6
      <3> DEFINE z == Zeros(d)
      <3>2. z \in Seq(Bytes) /\ Len(z) = d /\ \A k \in 1 .. d : z[k] = 0
        BY <3>1, ZerosAreBytes DEF Zeros
      <3>3. longer = bytes \o z
        OBVIOUS
      <3> HIDE DEF z, d, longer
      <3>4. /\ bytes \o z \in Seq(Bytes)
            /\ Len(bytes \o z) = Len(bytes) + Len(z)
            /\ \A k \in 1 .. Len(bytes) + Len(z) : (bytes \o z)[k] =
                  IF k <= Len(bytes) THEN bytes[k] ELSE z[k - Len(bytes)]
        BY <1>0, <3>2, ConcatProperties
      <3>5. ASSUME NEW k \in Size + 1 .. n  PROVE longer[k] = 0
        <4>1. k \in 1 .. Size + d /\ ~(k <= Size) /\ k - Size \in 1 .. d
          BY <1>0, <3>1
        <4> QED  BY <1>0, <3>2, <3>3, <3>4, <4>1
      <3> QED  BY <1>0, <3>1, <3>2, <3>3, <3>4, <3>5
    <2>7. CASE n > Size /\ Array(s) = <<>> /\ bytes' = longer
      BY <1>0, <2>2, <2>3, <2>6, <2>7
    <2>8. CASE Array(s) # <<>> /\ s = Self
      BY <1>0, <2>2, <2>3, <2>8
    <2>9. CASE n > Size /\ s # Self /\ s # <<>> /\ bytes' = MemFill(longer, Size + 1, n - Size, s, 1)
      <3> HIDE DEF longer
      <3>1. /\ d \in Nat /\ Size + 1 \in Nat /\ Size + 1 >= 1 /\ Size + 1 + d <= Len(longer) + 1
            /\ Size + 1 + d - 1 = n /\ Size + 1 \in Int
        BY <1>0, <2>6, <2>9
      <3>2. /\ s \in Seq(Bytes) /\ 1 \in Nat /\ 1 >= 1 /\ 1 <= Len(s)
            /\ Len(s) - 1 + 1 = Len(s)
        BY <2>4, <2>9
      <3>3. Intact(s, Size + 1, d, s, 1) /\ s = (IF s = Self THEN longer ELSE s)
        BY <2>9 DEF Intact
      <3>4. longer \in Seq(Bytes) /\ Len(longer) = n
        BY <2>6, <2>9
      <3>5. bytes' = MemFill(longer, Size + 1, d, s, 1)
        BY <2>9
      <3> HIDE DEF d
      <3> DEFINE i == Size + 1
      <3>6. Repeats(bytes', i, d, s, 1)
        <4> HIDE DEF i
        <4> QED  BY <3>1, <3>2, <3>3, <3>4, <3>5, FillIsRepetition DEF i
      <3>7. Len(bytes') = n
        <4>1. /\ MemFill(longer, i, d, s, 1) \in Seq(Bytes)
              /\ Len(MemFill(longer, i, d, s, 1)) = Len(longer)
              /\ SameOutside(longer, MemFill(longer, i, d, s, 1), i, d)
          BY <3>1, <3>2, <3>4, FillKeeps
        <4> QED  BY <3>4, <3>5, <4>1
      <3>8. ASSUME NEW k \in Size + 1 .. n
            PROVE  bytes'[k] = s[((k - Size - 1) % Len(s)) + 1]
        <4>1. bytes'[k] = s[1 + ((k - (Size + 1)) % (Len(s) - 1 + 1))]
          BY <3>1, <3>6 DEF Repeats
        <4>2. k - (Size + 1) = k - Size - 1
          BY <1>0
        <4> DEFINE q == (k - Size - 1) % Len(s)
        <4>3. bytes'[k] = s[1 + q]
          BY <3>2, <4>1, <4>2
        <4>4. q \in Int
          BY <1>0, <3>2
        <4> HIDE DEF q
        <4>5. 1 + q = q + 1
          BY <4>4
        <4> QED  BY <4>3, <4>5 DEF q
      <3>9. Was(s)' # <<>>
        BY <2>3, <2>9 DEF Array
      <3> QED  BY <2>2, <2>9, <3>7, <3>8, <3>9
    <2>10. \/ Len(bytes') <= Size /\ bytes' \in Seq(Bytes)
           \/ n > Size /\ Array(s) = <<>> /\ bytes' = longer
           \/ Array(s) # <<>> /\ s = Self
           \/ /\ n > Size /\ s # Self /\ s # <<>>
              /\ bytes' = MemFill(longer, Size + 1, n - Size, s, 1)
      <3>1. CASE n < 0 \/ kind # "resizable"
        <4>1. bytes' = bytes
          BY <1>6, <3>1 DEF Resize
        <4> QED  BY <1>0, <4>1
      <3>2. CASE ~(n < 0 \/ kind # "resizable") /\ n <= Size
        <4>1. bytes' = SubSeq(bytes, 1, n) /\ n \in Nat
          BY <1>6, <3>2 DEF Resize
        <4>2. bytes' \in Seq(Bytes) /\ Len(bytes') = n
          BY <1>0, <3>2, <4>1
        <4> QED  BY <3>2, <4>2
      <3>3. CASE ~(n < 0 \/ kind # "resizable") /\ n > Size
        BY <1>0, <1>6, <3>3 DEF Resize, Array
      <3> QED  BY <1>0, <3>1, <3>2, <3>3
    <2> QED  BY <2>5, <2>7, <2>8, <2>9, <2>10
  <1>7. ASSUME NEW s, Concat(s)  PROVE FillRepeats'
    BY <1>3, <1>7 DEF Concat, Answers
  <1>8. ASSUME NEW s, Diff(s)  PROVE FillRepeats'
    BY <1>3, <1>8 DEF Diff, Answers
  <1>9. ASSUME NEW k, NEW c, Lend(k, c)  PROVE FillRepeats'
    BY <1>3, <1>9 DEF Lend, Answers
  <1>10. ASSUME NEW i, NEW j, Get(i, j) \/ MemToString(i, j)  PROVE FillRepeats'
    BY <1>3, <1>10 DEF Get, MemToString, Answers
  <1>11. ASSUME NEW i, NEW j, NEW s, CreateCopy(s, i, j)  PROVE FillRepeats'
    BY <1>3, <1>11 DEF CreateCopy, Answers
  <1>12. ASSUME NEW i \in Positions, NEW j \in Positions, NEW c \in -1 .. Base,
                FillNumber(c, i, j)
         PROVE  FillRepeats'
    <2>1. i \in Int /\ j \in Int /\ c \in Int /\ 1 \in Int
      BY Numbers
    <2>2. Len(bytes') = Len(bytes) /\ answer'.op = "fill"
          /\ answer'.args = <<<<c>>, i, j, 1>> /\ answer'.before = bytes
      BY <1>12, <2>1, FillNumberKeepsRest
    <2>3. CASE c \in Bytes
      <3> DEFINE t == <<c>>
      <3>1. t \in Seq(Bytes) /\ Len(t) = 1
        BY <2>3
      <3>2. t # Self
        BY <3>1, SelfAssumption
      <3>3. PosRelat(1, Len(t)) = 1
        BY <3>1 DEF PosRelat
      <3>4. bytes' = IF PosRelat(i, Size) <= EndPos(j, Size)
                     THEN MemFill(bytes, PosRelat(i, Size),
                                  EndPos(j, Size) - PosRelat(i, Size) + 1, t, 1)
                     ELSE bytes
        BY <1>12, <2>3 DEF FillNumber
      <3> HIDE DEF t
      <3>5. bytes' = IF PosRelat(i, Size) <= EndPos(j, Size) /\ PosRelat(1, Len(t)) <= Len(t)
                     THEN MemFill(bytes, PosRelat(i, Size),
                                  EndPos(j, Size) - PosRelat(i, Size) + 1, t,
                                  PosRelat(1, Len(t)))
                     ELSE bytes
        BY <3>1, <3>3, <3>4
      <3> QED  BY <2>1, <2>2, <3>1, <3>2, <3>5, FillWrites DEF t
    <2>4. CASE c \notin Bytes
      <3>1. answer'.value = Fault
        BY <1>12, <2>4 DEF FillNumber, Answers
      <3>2. ~Did("resize")'
        BY <2>2 DEF Did
      <3> QED  BY <3>1, <3>2 DEF FillRepeats
    <2> QED  BY <2>3, <2>4
  <1>13. ASSUME NEW i, NEW j, NEW s, NEW o, Find(s, i, j, o)  PROVE FillRepeats'
    BY <1>3, <1>13 DEF Find, Answers
  <1>14. ASSUME NEW i \in Positions, NEW j \in Positions, NEW s \in Operands,
                NEW o \in Positions, Fill(s, i, j, o)
         PROVE  FillRepeats'
    <2> DEFINE t == Array(s)
    <2>1. i \in Int /\ j \in Int /\ o \in Int
      BY Numbers
    <2>2. Len(bytes') = Len(bytes) /\ answer'.op = "fill"
          /\ answer'.args = <<s, i, j, o>> /\ answer'.before = bytes
      BY <1>14, <2>1, FillKeepsRest
    <2>3. t \in Seq(Bytes) /\ (s = Self \/ s \in Seq(Bytes))
      BY <1>0, OperandIsBytes
    <2>4. t = IF s = Self THEN bytes ELSE s
      BY DEF Array
    <2>5. bytes' = IF PosRelat(i, Size) <= EndPos(j, Size) /\ PosRelat(o, Len(t)) <= Len(t)
                   THEN MemFill(bytes, PosRelat(i, Size),
                                EndPos(j, Size) - PosRelat(i, Size) + 1, s,
                                PosRelat(o, Len(t)))
                   ELSE bytes
      BY <1>14 DEF Fill
    <2> HIDE DEF t
    <2> QED  BY <2>1, <2>2, <2>3, <2>4, <2>5, FillWrites
  <1>15. ASSUME NEW i, ViewGet(i)  PROVE FillRepeats'
    BY <1>3, <1>15 DEF ViewGet, Answers
  <1>16. ASSUME NEW i, NEW c, ViewSet(i, c)  PROVE FillRepeats'
    BY <1>3, <1>16 DEF ViewSet, Answers
  <1>17. ASSUME NEW i, NEW codes, Set(i, codes)  PROVE FillRepeats'
    BY <1>3, <1>17 DEF Set, Answers
  <1>18. ASSUME NEW i, NEW fmt, Unpack(fmt, i)  PROVE FillRepeats'
    BY <1>3, <1>18 DEF Unpack, Answers
  <1>19. ASSUME NEW i, NEW fmt, NEW args, Pack(fmt, i, args)  PROVE FillRepeats'
    BY <1>3, <1>19 DEF Pack, Answers
  <1> QED  BY <1>1, <1>2, <1>4, <1>5, <1>6, <1>7, <1>8, <1>9, <1>10, <1>11, <1>12,
              <1>13, <1>14, <1>15, <1>16, <1>17, <1>18, <1>19 DEF Next

\* memfill repeats its source over the whole window of mem_fill and over what
\* mem_resize adds, whatever the chunk and however the last one is cut; a memory
\* that fills itself does as well, unless an earlier chunk than the last
\* overwrites where the source starts.
THEOREM FillsRepeat == Spec => []FillRepeats
  BY Typed, FillsInit, TypeStep, FillsStep, PTL DEF Spec

-----------------------------------------------------------------------------
\* Searches.

\* f searches T from below: its value at p is the first place of T from p
\* on, or z if there is none before b.
Scans(f, a, b, T, z) ==
    f = [p \in a .. b |-> IF p = b THEN z ELSE IF p \in T THEN p ELSE f[p + 1]]

\* m is the least place of T, or b if T is empty.
Leads(m, b, T) ==
    /\ \A k \in T : k >= m
    /\ m = b \/ m \in T
    /\ m = b <=> T = {}

\* The recursive search has a value,
LEMMA ScanExists ==
    ASSUME NEW a \in Nat, NEW b \in Nat, NEW T \in SUBSET (a .. b - 1), NEW z
    PROVE  \E f : Scans(f, a, b, T, z)
  <1> DEFINE Rest(p) == {k \in T : k >= p}
             Minimum(S) == CHOOSE m \in S : \A k \in S : m <= k
             g == [p \in a .. b |-> IF Rest(p) = {} THEN z ELSE Minimum(Rest(p))]
             h == [p \in a .. b |-> IF p = b THEN z ELSE IF p \in T THEN p ELSE g[p + 1]]
  <1>0. \A k \in T : k \in Int /\ k >= a /\ k < b
    OBVIOUS
  <1>1. ASSUME NEW p \in a .. b
        PROVE  g[p] = h[p]
    <2>1. CASE p = b
      <3>1. Rest(p) = {}
        <4>1. \A k \in T : ~(k >= b)
          BY <1>0
        <4> QED  BY <2>1, <4>1
      <3> QED  BY <2>1, <3>1
    <2>2. CASE p # b /\ p \in T
      <3>1. p \in Rest(p) /\ \A k \in Rest(p) : p <= k
        BY <2>2
      <3>2. \A m \in Rest(p) : (\A k \in Rest(p) : m <= k) => m = p
        <4>1. Rest(p) \subseteq Int
          BY <1>0
        <4> HIDE DEF Rest
        <4> QED  BY <3>1, <4>1
      <3>3. Minimum(Rest(p)) = p
        <4> HIDE DEF Rest
        <4> QED  BY <3>1, <3>2
      <3>4. Rest(p) # {}
        BY <3>1
      <3> HIDE DEF Minimum, Rest
      <3> QED  BY <2>2, <3>3, <3>4
    <2>3. CASE p # b /\ p \notin T
      <3>1. p + 1 \in a .. b
        BY <2>3
      <3>2. Rest(p) = Rest(p + 1)
        <4>1. \A k \in T : k >= p <=> k >= p + 1
          BY <1>0, <2>3
        <4> QED  BY <4>1
      <3> HIDE DEF Minimum, Rest
      <3> QED  BY <2>3, <3>1, <3>2
    <2> QED  BY <2>1, <2>2, <2>3
  <1>2. g = h
    <2> HIDE DEF Rest, Minimum
    <2> QED  BY <1>1
  <1>3. Scans(g, a, b, T, z)
    <2> HIDE DEF g
    <2> QED  BY <1>2 DEF Scans
  <1> HIDE DEF g
  <1> QED  BY <1>3

\* which is the least place.
LEMMA ScanFinds ==
    ASSUME NEW a \in Nat, NEW b \in Nat, NEW T \in SUBSET (a .. b - 1), NEW z,
           NEW f, Scans(f, a, b, T, z),
           NEW m \in a .. b, Leads(m, b, T)
    PROVE  f[a] = IF m = b THEN z ELSE m
  <1>1. \A p \in a .. b : f[p] = IF p = b THEN z ELSE IF p \in T THEN p ELSE f[p + 1]
    BY DEF Scans
  <1> DEFINE n == m - a
             S == {c \in 0 .. n : f[m - c] = f[m]}
  <1>2. n \in Nat /\ m - n = a /\ m - 0 = m
    OBVIOUS
  <1>3. 0 \in S
    BY <1>2
  <1>4. ASSUME NEW c \in 1 .. n, c - 1 \in S  PROVE c \in S
    <2> DEFINE p == m - c
    <2>1. p \in a .. b /\ p < m /\ p + 1 = m - (c - 1) /\ p # b
      OBVIOUS
    <2>2. p \notin T
      BY <2>1 DEF Leads
    <2>3. f[p] = f[p + 1]
      BY <1>1, <2>1, <2>2
    <2>4. f[p + 1] = f[m]
      BY <1>4, <2>1
    <2> QED  BY <2>3, <2>4
  <1>5. f[a] = f[m]
    <2> HIDE DEF S
    <2>1. \A c \in 0 .. n : c \in S
      BY <1>2, <1>3, <1>4, Induction
    <2>2. n \in S
      BY <1>2, <2>1
    <2> QED  BY <1>2, <2>2 DEF S
  <1>6. f[m] = IF m = b THEN z ELSE m
    BY <1>1 DEF Leads
  <1> QED  BY <1>5, <1>6

\* The least place of T, or b.
LEMMA LeastOrEnd ==
    ASSUME NEW a \in Nat, NEW b \in Nat, a <= b, NEW T \in SUBSET (a .. b - 1)
    PROVE  \E m \in a .. b : Leads(m, b, T)
  <1>1. CASE T = {}
    <2>1. b \in a .. b
      OBVIOUS
    <2> QED  BY <1>1, <2>1 DEF Leads
  <1>2. CASE T # {}
    <2>1. T \in SUBSET Nat
      OBVIOUS
    <2>2. PICK m \in T : \A k \in T : m <= k
      BY <1>2, <2>1, Least
    <2>3. m \in a .. b /\ m # b
      OBVIOUS
    <2>4. \A k \in T : k >= m
      BY <2>1, <2>2
    <2> QED  BY <1>2, <2>3, <2>4 DEF Leads
  <1> QED  BY <1>1, <1>2

\* Where needle is, in hay, from a place of from .. last on.
Places(hay, from, last, needle) ==
    {p \in from .. last : SubSeq(hay, p, p + Len(needle) - 1) = needle}

\* lmemfind
LEMMA FindsFirst ==
    ASSUME NEW hay \in Seq(Bytes), NEW from \in Nat, from >= 1, NEW n \in Nat,
           NEW needle \in Seq(Bytes), Len(needle) >= 1, Len(needle) <= n
    PROVE  LET T == Places(hay, from, from + n - Len(needle), needle)
           IN  LMemFind(hay, from, n, needle) = IF T = {} THEN 0 ELSE Min(T)
  <1> DEFINE T == Places(hay, from, from + n - Len(needle), needle)
             last == from + n - Len(needle)
             b == last + 1
             Turns(f) == f = [p \in from .. last + 1 |->
                IF p > last THEN 0
                ELSE IF SubSeq(hay, p, p + Len(needle) - 1) = needle THEN p
                ELSE f[p + 1]]
             scan == CHOOSE f : Turns(f)
  <1>1. Len(needle) \in Nat /\ last \in Nat /\ b \in Nat /\ from <= b
        /\ T \in SUBSET (from .. b - 1) /\ from \in from .. b
    BY DEF Places
  <1>2. LMemFind(hay, from, n, needle) = scan[from]
    BY <1>1 DEF LMemFind
  <1>3. ASSUME NEW f  PROVE Turns(f) <=> Scans(f, from, b, T, 0)
    <2>1. \A p \in from .. b : p > last <=> p = b
      BY <1>1
    <2>2. \A p \in from .. b : p # b =>
             (p \in T <=> SubSeq(hay, p, p + Len(needle) - 1) = needle)
      <3>1. \A p \in from .. b : p # b => p \in from .. from + n - Len(needle)
        BY <1>1
      <3> QED  BY <3>1 DEF Places
    <2> DEFINE l == [p \in from .. b |-> IF p > last THEN 0
                ELSE IF SubSeq(hay, p, p + Len(needle) - 1) = needle THEN p
                ELSE f[p + 1]]
               r == [p \in from .. b |-> IF p = b THEN 0 ELSE IF p \in T THEN p ELSE f[p + 1]]
    <2>3. \A p \in from .. b : l[p] = r[p]
      <3> HIDE DEF last, b
      <3> QED  BY <2>1, <2>2
    <2>4. l = r
      <3> HIDE DEF last
      <3> QED  BY <2>3
    <2> HIDE DEF l, r
    <2> QED  BY <2>4 DEF Scans, l, r
  <1>4. Scans(scan, from, b, T, 0)
    <2> HIDE DEF Turns, b
    <2>1. \E f : Scans(f, from, b, T, 0)
      BY <1>1, ScanExists
    <2>2. \E f : Turns(f)
      BY <1>3, <2>1
    <2>3. Turns(scan)
      BY <2>2
    <2> HIDE DEF scan
    <2> QED  BY <1>3, <2>3
  <1> HIDE DEF scan, b, last, T
  <1>5. PICK m \in from .. b : Leads(m, b, T)
    BY <1>1, LeastOrEnd
  <1>6. scan[from] = IF m = b THEN 0 ELSE m
    BY <1>1, <1>4, <1>5, ScanFinds
  <1>7. ASSUME T # {}  PROVE Min(T) = m
    <2>1. m \in T /\ T \subseteq Int /\ \A k \in T : m <= k
      <3>1. m \in T /\ \A k \in T : k >= m
        BY <1>5, <1>7 DEF Leads
      <3>2. \A k \in T : k \in Int
        BY <1>1
      <3>3. \A k \in T : k >= m => m <= k
        BY <3>1, <3>2
      <3> QED  BY <3>1, <3>2, <3>3
    <2>2. \A x \in T : (\A y \in T : x <= y) => x = m
      <3>1. m \in Int /\ \A x \in T : x \in Int
        BY <2>1
      <3> QED  BY <2>1, <3>1
    <2> QED  BY <2>1, <2>2 DEF Min
  <1>8. LMemFind(hay, from, n, needle) = IF T = {} THEN 0 ELSE Min(T)
    BY <1>2, <1>5, <1>6, <1>7 DEF Leads
  <1> QED  BY <1>8 DEF T

\* SearchesExact, of a search for needle in the window w of b.
FoundExactly(b, w, needle, value) ==
    LET places == {p \in w : /\ p + Len(needle) - 1 \in w
                             /\ SubSeq(b, p, p + Len(needle) - 1) = needle}
    IN  CASE needle = <<>> -> value = <<>>
          [] needle # <<>> /\ Len(needle) > Cardinality(w) ->
               value # <<>> => value[2] \notin w
          [] OTHER ->
               IF places = {} THEN value = <<>>
               ELSE value = <<Min(places), Min(places) + Len(needle) - 1>>

\* SearchesExact, of a comparison of b and t.
DiffersExactly(b, t, at) ==
    LET AgreeBefore(k) == \A d \in 1 .. k - 1 : b[d] = t[d]
    IN  IF at = 0 THEN b = t
        ELSE /\ AgreeBefore(at)
             /\ \/ at \in DOMAIN b \cap DOMAIN t /\ b[at] # t[at]
                \/ at = 1 + Min({Len(b), Len(t)}) /\ Len(b) # Len(t)

\* What has to be shown of a search and of a comparison.
LEMMA SearchesSuffices ==
    ASSUME Did("find")' =>
              FoundExactly(bytes, Window(answer.args[2], answer.args[3], Len(bytes)),
                           Slice(Was(answer.args[1]), answer.args[4], -1),
                           answer.value)',
           Did("diff")' => DiffersExactly(bytes, Was(answer.args[1]), answer.value[1])'
    PROVE  SearchesExact'
  BY DEF SearchesExact, FoundExactly, DiffersExactly

\* What mem_find returns for a needle that fits, and for one that does not.
LEMMA FitFound ==
    ASSUME NEW hay \in Seq(Bytes), NEW from \in Nat, NEW to \in Nat, from >= 1, from <= to,
           NEW needle \in Seq(Bytes), Len(needle) >= 1, Len(needle) <= to - from + 1,
           NEW p, p = LMemFind(hay, from, to - from + 1, needle),
           NEW value, value = IF p # 0 THEN <<p, p - 1 + Len(needle)>> ELSE <<>>
    PROVE  FoundExactly(hay, from .. to, needle, value)
  <1> DEFINE n == to - from + 1
             sl == Len(needle)
             w == from .. to
             T == Places(hay, from, from + n - Len(needle), needle)
             places == {q \in w : /\ q + Len(needle) - 1 \in w
                                  /\ SubSeq(hay, q, q + Len(needle) - 1) = needle}
  <1>1. n \in Nat /\ n >= 1 /\ sl \in Nat /\ sl >= 1 /\ sl <= n
    OBVIOUS
  <1>2. p = IF T = {} THEN 0 ELSE Min(T)
    <2>1. T = Places(hay, from, from + n - Len(needle), needle)
      OBVIOUS
    <2>2. p = LMemFind(hay, from, n, needle)
      OBVIOUS
    <2> HIDE DEF n, T
    <2> QED  BY <1>1, <2>1, <2>2, FindsFirst
  <1>3. T \in SUBSET Nat /\ \A q \in T : q >= from
    <2>1. from + n - Len(needle) \in Int
      OBVIOUS
    <2> QED  BY <2>1 DEF Places
  <1>4. places = T
    <2> DEFINE last == from + n - Len(needle)
    <2>1. ASSUME NEW q
          PROVE  q \in w /\ q + sl - 1 \in w <=> q \in from .. last
      <3>1. last = to + 1 - sl
        OBVIOUS
      <3> HIDE DEF sl, last
      <3> QED  BY <1>1, <3>1
    <2> QED  BY <2>1 DEF Places
  <1>5. Cardinality(w) = n
    <2>1. from \in Int /\ to \in Int /\ ~(from > to)
      OBVIOUS
    <2>2. Cardinality(from .. to) = IF from > to THEN 0 ELSE to - from + 1
      BY <2>1, FS_Interval
    <2> QED  BY <2>1, <2>2
  <1>6. needle # <<>> /\ ~(Len(needle) > Cardinality(w))
    BY <1>1, <1>5
  <1>7. IF T = {} THEN value = <<>>
        ELSE value = <<Min(T), Min(T) + sl - 1>>
    <2> HIDE DEF T
    <2>1. CASE T = {}
      BY <1>2, <2>1
    <2>2. CASE T # {}
      <3>1. PICK m \in T : \A k \in T : m <= k
        BY <1>3, <2>2, Least
      <3>2. Min(T) \in T
        BY <3>1 DEF Min
      <3>3. p = Min(T) /\ p \in Nat /\ p >= from
        BY <1>2, <1>3, <2>2, <3>2
      <3>4. p # 0 /\ p - 1 + sl = p + sl - 1
        BY <1>1, <3>3
      <3>5. value = <<p, p - 1 + sl>>
        BY <3>4
      <3> QED  BY <2>2, <3>3, <3>4, <3>5
    <2> QED  BY <2>1, <2>2
  <1> HIDE DEF T, w
  <1> QED  BY <1>4, <1>6, <1>7 DEF FoundExactly, w

\* A needle longer than the window is cut to it: what mem_find then returns
\* ends outside the window.
LEMMA LongNotFound ==
    ASSUME NEW hay \in Seq(Bytes), NEW from \in Nat, NEW to \in Nat, from >= 1, from <= to,
           NEW needle \in Seq(Bytes), Len(needle) > to - from + 1,
           NEW cut \in Seq(Bytes), Len(cut) = to - from + 1,
           NEW p, p = LMemFind(hay, from, to - from + 1, cut),
           NEW value, value = IF p # 0 THEN <<p, p - 1 + Len(needle)>> ELSE <<>>
    PROVE  FoundExactly(hay, from .. to, needle, value)
  <1> DEFINE n == to - from + 1
             sl == Len(needle)
             w == from .. to
             T == Places(hay, from, from + n - Len(cut), cut)
  <1>1. n \in Nat /\ n >= 1 /\ sl \in Nat /\ sl > n
    OBVIOUS
  <1>2. p = IF T = {} THEN 0 ELSE Min(T)
    <2>1. T = Places(hay, from, from + n - Len(cut), cut)
      OBVIOUS
    <2>2. p = LMemFind(hay, from, n, cut) /\ Len(cut) = n
      OBVIOUS
    <2> HIDE DEF n, T
    <2>3. Len(cut) >= 1 /\ Len(cut) <= n /\ n \in Nat
      BY <1>1, <2>2
    <2>4. LET P == Places(hay, from, from + n - Len(cut), cut)
          IN  LMemFind(hay, from, n, cut) = IF P = {} THEN 0 ELSE Min(P)
      BY <2>3, FindsFirst
    <2> QED  BY <2>1, <2>2, <2>4
  <1>3. T \in SUBSET Nat /\ \A q \in T : q >= from
    <2>1. from + n - Len(cut) \in Int
      OBVIOUS
    <2> QED  BY <2>1 DEF Places
  <1>4. Cardinality(w) = n
    <2>1. from \in Int /\ to \in Int /\ ~(from > to)
      OBVIOUS
    <2>2. Cardinality(from .. to) = IF from > to THEN 0 ELSE to - from + 1
      BY <2>1, FS_Interval
    <2> QED  BY <2>1, <2>2
  <1>5. needle # <<>> /\ Len(needle) > Cardinality(w)
    BY <1>1, <1>4
  <1>6. p # 0 => p \in Nat /\ p >= from
    <2> HIDE DEF T
    <2>1. ASSUME T # {}  PROVE Min(T) \in T
      <3>1. PICK m \in T : \A k \in T : m <= k
        BY <1>3, <2>1, Least
      <3> QED  BY <3>1 DEF Min
    <2> QED  BY <1>2, <1>3, <2>1
  <1>7. value # <<>> => value[2] \notin w
    <2>1. CASE p = 0
      BY <2>1
    <2>2. CASE p # 0
      <3>1. p - 1 + sl > to
        BY <1>1, <1>6, <2>2
      <3>2. value[2] = p - 1 + sl
        BY <2>2
      <3>3. p - 1 + sl \notin from .. to
        BY <3>1
      <3> QED  BY <3>2, <3>3
    <2> QED  BY <2>1, <2>2
  <1> HIDE DEF T, w
  <1> QED  BY <1>5, <1>7 DEF FoundExactly, w

\* Nothing is searched for in vain, or in an empty window.
LEMMA EmptyNotFound ==
    ASSUME NEW hay, NEW w, NEW needle \in Seq(Bytes), needle = <<>> \/ w = {}
    PROVE  FoundExactly(hay, w, needle, <<>>)
  <1>1. CASE needle = <<>>
    BY <1>1 DEF FoundExactly
  <1>2. CASE needle # <<>> /\ w = {}
    <2>1. Cardinality(w) = 0
      BY <1>2, FS_EmptySet
    <2>2. Len(needle) > Cardinality(w)
      BY <1>2, <2>1
    <2> QED  BY <1>2, <2>2 DEF FoundExactly
  <1> QED  BY <1>1, <1>2

\* mem_find.
LEMMA FindIsExact ==
    ASSUME NEW s, NEW i \in Int, NEW j \in Int, NEW o \in Int, Find(s, i, j, o),
           bytes \in Seq(Bytes), Array(s) \in Seq(Bytes)
    PROVE  FoundExactly(bytes, Window(i, j, Len(bytes)), Slice(Array(s), o, -1),
                        answer'.value)
  <1> DEFINE t == Array(s)
             from == PosRelat(i, Size)
             to == EndPos(j, Size)
             os == PosRelat(o, Len(t))
             n == to - from + 1
             sl == Len(t) - os + 1
             size == IF sl < n THEN sl ELSE n
             cut == SubSeq(t, os, os + size - 1)
             p == LMemFind(bytes, from, n, cut)
             value == answer'.value
             needle == Slice(t, o, -1)
             w == Window(i, j, Len(bytes))
  <1>1. Size \in Nat /\ Size = Len(bytes) /\ Len(t) \in Nat
    BY DEF Size
  <1>2. /\ from \in Nat /\ from >= 1 /\ to \in 0 .. Size /\ w = from .. to
        /\ os \in Nat /\ os >= 1
    BY <1>1, Clipped, SliceIsWindow
  <1>3. value = IF from <= to /\ os <= Len(t) /\ p # 0
                THEN <<p, p - 1 + sl>> ELSE <<>>
    BY DEF Find, Answers
  <1>4. needle = SubSeq(t, os, Len(t))
    <2>1. EndPos(-1, Len(t)) = Len(t)
      BY <1>1 DEF EndPos
    <2>2. -1 \in Int
      OBVIOUS
    <2> QED  BY <2>1, <2>2, SubSeqIsSlice
  <1> HIDE DEF t, from, to, os, p, value, needle, w
  <1>5. CASE from > to \/ os > Len(t)
    <2>1. value = <<>>
      BY <1>1, <1>2, <1>3, <1>5
    <2>2. needle \in Seq(Bytes)
      <3>1. \A k \in os .. Len(t) : t[k] \in Bytes
        BY <1>1, <1>2 DEF t
      <3> QED  BY <1>1, <1>2, <1>4, <3>1, SubSeqProperties
    <2>3. needle = <<>> \/ w = {}
      BY <1>1, <1>2, <1>4, <1>5
    <2> QED  BY <2>1, <2>2, <2>3, EmptyNotFound DEF w, needle, value, t
  <1>6. CASE from <= to /\ os <= Len(t)
    <2>1. n \in Nat /\ n >= 1 /\ sl \in Nat /\ sl >= 1
      BY <1>1, <1>2, <1>6
    <2>2. size \in Nat /\ size >= 1 /\ size <= n /\ size <= sl
          /\ (sl < n => size = sl) /\ (~(sl < n) => size = n)
      BY <2>1
    <2>3. needle \in Seq(Bytes) /\ Len(needle) = sl
      <3>1. \A k \in os .. Len(t) : t[k] \in Bytes
        BY <1>1, <1>2 DEF t
      <3>2. os \in Int /\ Len(t) \in Int
        BY <1>1, <1>2
      <3>3. SubSeq(t, os, Len(t)) \in Seq(Bytes)
            /\ Len(SubSeq(t, os, Len(t))) = IF os <= Len(t) THEN Len(t) - os + 1 ELSE 0
        BY <3>1, <3>2, SubSeqProperties
      <3> QED  BY <1>4, <1>6, <3>3
    <2>4. cut \in Seq(Bytes) /\ Len(cut) = size
      <3> DEFINE last == os + size - 1
      <3>1. last \in Int /\ os \in Int /\ os <= last /\ last <= Len(t) /\ last - os + 1 = size
        <4>1. sl = Len(t) - os + 1
          OBVIOUS
        <4> HIDE DEF sl, size
        <4> QED  BY <1>1, <1>2, <2>1, <2>2, <4>1
      <3> HIDE DEF size
      <3>2. \A k \in os .. last : t[k] \in Bytes
        <4>1. \A k \in os .. last : k \in 1 .. Len(t)
          BY <1>1, <1>2, <3>1
        <4> QED  BY <4>1 DEF t
      <3> HIDE DEF last
      <3>3. SubSeq(t, os, last) \in Seq(Bytes)
            /\ Len(SubSeq(t, os, last)) = IF os <= last THEN last - os + 1 ELSE 0
        BY <3>1, <3>2, SubSeqProperties
      <3> QED  BY <3>1, <3>3 DEF last
    <2>5. value = IF p # 0 THEN <<p, p - 1 + Len(needle)>> ELSE <<>>
      BY <1>3, <1>6, <2>3
    <2>6. p = LMemFind(bytes, from, to - from + 1, cut)
      BY DEF p
    <2>7. from \in Nat /\ to \in Nat /\ from >= 1 /\ from <= to
      BY <1>2, <1>6
    <2>8. CASE sl <= n
      <3>1. cut = needle
        <4>1. size = sl /\ os + sl - 1 = Len(t)
          BY <1>1, <1>2, <2>1, <2>2, <2>8
        <4> QED  BY <1>4, <4>1
      <3>2. Len(needle) >= 1 /\ Len(needle) <= to - from + 1
        BY <2>1, <2>3, <2>8
      <3> HIDE DEF cut, n, sl, size
      <3>3. FoundExactly(bytes, from .. to, needle, value)
        BY <2>3, <2>5, <2>6, <2>7, <3>1, <3>2, FitFound
      <3> QED  BY <1>2, <3>3 DEF w, needle, value, t
    <2>9. CASE sl > n
      <3>1. Len(cut) = to - from + 1 /\ Len(needle) > to - from + 1
        BY <2>1, <2>2, <2>3, <2>4, <2>9
      <3> HIDE DEF cut, n, sl, size
      <3>2. FoundExactly(bytes, from .. to, needle, value)
        BY <2>3, <2>4, <2>5, <2>6, <2>7, <3>1, LongNotFound
      <3> QED  BY <1>2, <3>2 DEF w, needle, value, t
    <2> QED  BY <2>1, <2>8, <2>9
  <1> QED  BY <1>1, <1>2, <1>5, <1>6

\* mem_diff.
LEMMA DiffIsExact ==
    ASSUME NEW s, Diff(s), bytes \in Seq(Bytes), Array(s) \in Seq(Bytes)
    PROVE  DiffersExactly(bytes, Array(s), answer'.value[1])
  <1> DEFINE t == Array(s)
             n == IF Size < Len(t) THEN Size ELSE Len(t)
             b == n + 1
             Turns(f) == f = [i \in 1 .. n + 1 |->
                IF i <= n /\ bytes[i] = t[i] THEN f[i + 1] ELSE i]
             skip == CHOOSE f : Turns(f)
             at == skip[1]
             T == {i \in 1 .. n : bytes[i] # t[i]}
  <1>1. Size \in Nat /\ Size = Len(bytes) /\ Len(t) \in Nat
        /\ DOMAIN bytes = 1 .. Size /\ DOMAIN t = 1 .. Len(t)
    BY DEF Size
  <1>2. answer'.value = IF at <= n THEN <<at, AsChar(bytes[at]) < AsChar(t[at])>>
                        ELSE IF Size = Len(t) THEN <<0, FALSE>>
                        ELSE <<at, Size < Len(t)>>
    BY DEF Diff, Answers
  <1> HIDE DEF t
  <1>3. n \in Nat /\ n <= Size /\ n <= Len(t) /\ (n = Size \/ n = Len(t))
    BY <1>1
  <1> HIDE DEF n
  <1>4. b \in Nat /\ 1 \in Nat /\ 1 <= b /\ T \in SUBSET (1 .. b - 1)
    BY <1>3
  <1>5. ASSUME NEW f  PROVE Turns(f) <=> Scans(f, 1, b, T, b)
    <2> DEFINE l == [i \in 1 .. b |-> IF i <= n /\ bytes[i] = t[i] THEN f[i + 1] ELSE i]
               r == [i \in 1 .. b |-> IF i = b THEN b ELSE IF i \in T THEN i ELSE f[i + 1]]
    <2>1. \A i \in 1 .. b : i <= n <=> i # b
      BY <1>3
    <2>2. \A i \in 1 .. b : i # b => (i \in T <=> ~(bytes[i] = t[i]))
      BY <1>3
    <2>3. \A i \in 1 .. b : l[i] = r[i]
      <3> HIDE DEF b, T
      <3> QED  BY <2>1, <2>2
    <2>4. l = r
      <3> HIDE DEF b, T
      <3> QED  BY <2>3
    <2> HIDE DEF l, r
    <2> QED  BY <2>4 DEF Scans, l, r
  <1>6. Scans(skip, 1, b, T, b)
    <2> HIDE DEF Turns, b, T
    <2>1. \E f : Scans(f, 1, b, T, b)
      BY <1>4, ScanExists
    <2>2. \E f : Turns(f)
      BY <1>5, <2>1
    <2>3. Turns(skip)
      BY <2>2
    <2> HIDE DEF skip
    <2> QED  BY <1>5, <2>3
  <1> HIDE DEF skip, T
  <1>7. PICK m \in 1 .. b : Leads(m, b, T)
    <2> HIDE DEF b
    <2> QED  BY <1>4, LeastOrEnd
  <1>8. at = m
    <2> HIDE DEF b
    <2>1. 1 \in Nat /\ skip[1] = IF m = b THEN b ELSE m
      BY <1>4, <1>6, <1>7, ScanFinds
    <2> QED  BY <2>1
  <1> HIDE DEF at
  <1>9. \A d \in 1 .. m - 1 : bytes[d] = t[d]
    <2>1. ASSUME NEW d \in 1 .. m - 1  PROVE bytes[d] = t[d]
      <3>1. d \in 1 .. n /\ ~(d >= m)
        BY <1>3, <1>7
      <3>2. d \notin T
        BY <1>7, <3>1 DEF Leads
      <3> QED  BY <3>1, <3>2 DEF T
    <2> QED  BY <2>1
  <1>10. CASE m <= n
    <2>1. m \in T
      BY <1>3, <1>7, <1>10 DEF Leads
    <2>2. m \in 1 .. n /\ bytes[m] # t[m]
      BY <2>1 DEF T
    <2>3. m \in DOMAIN bytes \cap DOMAIN t /\ m # 0
      <3> DEFINE tl == Len(t)
      <3>1. n \in Nat /\ n <= Size /\ n <= tl /\ Size \in Nat /\ tl \in Nat
        BY <1>1, <1>3
      <3>2. DOMAIN bytes = 1 .. Size /\ DOMAIN t = 1 .. tl
        BY <1>1
      <3> HIDE DEF tl
      <3>3. m \in 1 .. Size /\ m \in 1 .. tl /\ m # 0
        BY <2>2, <3>1
      <3> QED  BY <3>2, <3>3
    <2>4. answer'.value[1] = m
      BY <1>2, <1>8, <1>10
    <2> QED  BY <1>9, <2>2, <2>3, <2>4 DEF DiffersExactly, t
  <1>11. CASE ~(m <= n) /\ Size = Len(t)
    <2>1. answer'.value[1] = 0
      BY <1>2, <1>8, <1>11
    <2>2. m = n + 1 /\ n = Size
      BY <1>3, <1>7, <1>11
    <2>3. \A d \in 1 .. Size : bytes[d] = t[d]
      BY <1>3, <1>9, <2>2
    <2>4. bytes = t
      BY <1>1, <1>11, <2>3 DEF t
    <2> QED  BY <2>1, <2>4 DEF DiffersExactly, t
  <1>12. CASE ~(m <= n) /\ Size # Len(t)
    <2>1. answer'.value[1] = m
      BY <1>2, <1>8, <1>12
    <2>2. m = n + 1 /\ m # 0
      BY <1>3, <1>7, <1>12
    <2>3. Min({Len(bytes), Len(t)}) = n
      <3> DEFINE P == {Len(bytes), Len(t)}
      <3> DEFINE tl == Len(t)
      <3>0. /\ n \in Nat /\ n <= Size /\ n <= tl /\ (n = Size \/ n = tl)
            /\ P = {Size, tl}
        BY <1>1, <1>3
      <3>1. n \in P /\ \A y \in P : n <= y
        <4> HIDE DEF tl, P
        <4> QED  BY <3>0
      <3>2. \A x \in P : (\A y \in P : x <= y) => x = n
        <4>0. Size \in Int /\ tl \in Int
          BY <1>1
        <4> HIDE DEF P, tl
        <4>1. n \in Int /\ \A x \in P : x \in Int
          BY <3>0, <4>0
        <4> QED  BY <3>1, <4>1
      <3> QED  BY <3>1, <3>2 DEF Min
    <2>4. m = 1 + Min({Len(bytes), Len(t)}) /\ Len(bytes) # Len(t)
      <3>1. 1 + n = n + 1
        BY <1>3
      <3>2. Len(bytes) # Len(t)
        BY <1>1, <1>12
      <3> QED  BY <2>2, <2>3, <3>1, <3>2
    <2> QED  BY <1>9, <2>1, <2>2, <2>4 DEF DiffersExactly, t
  <1> QED  BY <1>10, <1>11, <1>12

\* No operation was called yet.
LEMMA SearchesInit == Init => SearchesExact
  BY DEF Init, SearchesExact, Did

\* Every search and every comparison is exact.
LEMMA SearchesStep == TypeOK /\ SearchesExact /\ [Next]_vars => SearchesExact'
  <1> SUFFICES ASSUME TypeOK, SearchesExact, [Next]_vars  PROVE SearchesExact'
    OBVIOUS
  <1>0. bytes \in Seq(Bytes)
    BY DEF TypeOK
  <1>1. CASE UNCHANGED vars
    BY <1>1 DEF vars, SearchesExact, Did, Was
  <1>2. CASE Return
    BY <1>2 DEF Return, SearchesExact, Did
  <1>3. ASSUME answer'.op \notin {"find", "diff"}  PROVE SearchesExact'
    BY <1>3 DEF SearchesExact, Did
  <1>4. CASE CreateResizable \/ Length \/ ViewToString \/ Close
    BY <1>3, <1>4 DEF CreateResizable, Length, ViewToString, Close, Answers
  <1>5. ASSUME NEW n, CreateZeros(n)  PROVE SearchesExact'
    BY <1>3, <1>5 DEF CreateZeros, Answers
  <1>6. ASSUME NEW n, NEW s, Resize(n, s)  PROVE SearchesExact'
    BY <1>3, <1>6 DEF Resize, Answers
  <1>7. ASSUME NEW s, Concat(s)  PROVE SearchesExact'
    BY <1>3, <1>7 DEF Concat, Answers
  <1>8. ASSUME NEW s \in Operands, Diff(s)  PROVE SearchesExact'
    <2>1. answer'.op = "diff" /\ answer'.args = <<s>> /\ answer'.before = bytes
          /\ bytes' = bytes
      BY <1>8 DEF Diff, Answers
    <2>2. Was(s)' = Array(s) /\ Array(s) \in Seq(Bytes)
      BY <1>0, <2>1, OperandIsBytes DEF Was, Array
    <2>3. DiffersExactly(bytes, Array(s), answer'.value[1])
      BY <1>0, <1>8, <2>2, DiffIsExact
    <2>4. answer'.args[1] = s /\ ~Did("find")'
      BY <2>1 DEF Did
    <2>5. DiffersExactly(bytes, Was(answer.args[1]), answer.value[1])'
      BY <2>1, <2>2, <2>3, <2>4
    <2> QED  BY <2>4, <2>5, SearchesSuffices
  <1>9. ASSUME NEW k, NEW c, Lend(k, c)  PROVE SearchesExact'
    BY <1>3, <1>9 DEF Lend, Answers
  <1>10. ASSUME NEW i, NEW j, Get(i, j) \/ MemToString(i, j)  PROVE SearchesExact'
    BY <1>3, <1>10 DEF Get, MemToString, Answers
  <1>11. ASSUME NEW i, NEW j, NEW s, CreateCopy(s, i, j)  PROVE SearchesExact'
    BY <1>3, <1>11 DEF CreateCopy, Answers
  <1>12. ASSUME NEW i, NEW j, NEW c, FillNumber(c, i, j)  PROVE SearchesExact'
    BY <1>3, <1>12 DEF FillNumber, Answers
  <1>13. ASSUME NEW i \in Positions, NEW j \in Positions, NEW s \in Operands,
                NEW o \in Positions, Find(s, i, j, o)
         PROVE  SearchesExact'
    <2>1. answer'.op = "find" /\ answer'.args = <<s, i, j, o>> /\ answer'.before = bytes
          /\ bytes' = bytes
      BY <1>13 DEF Find, Answers
    <2>2. Was(s)' = Array(s) /\ Array(s) \in Seq(Bytes)
      BY <1>0, <2>1, OperandIsBytes DEF Was, Array
    <2>3. i \in Int /\ j \in Int /\ o \in Int
      BY Numbers
    <2>4. FoundExactly(bytes, Window(i, j, Len(bytes)), Slice(Array(s), o, -1),
                       answer'.value)
      BY <1>0, <1>13, <2>2, <2>3, FindIsExact
    <2>5. /\ answer'.args[1] = s /\ answer'.args[2] = i /\ answer'.args[3] = j
          /\ answer'.args[4] = o /\ ~Did("diff")'
      BY <2>1 DEF Did
    <2>6. FoundExactly(bytes, Window(answer.args[2], answer.args[3], Len(bytes)),
                       Slice(Was(answer.args[1]), answer.args[4], -1),
                       answer.value)'
      BY <2>1, <2>2, <2>4, <2>5
    <2> QED  BY <2>5, <2>6, SearchesSuffices
  <1>14. ASSUME NEW i, NEW j, NEW s, NEW o, Fill(s, i, j, o)  PROVE SearchesExact'
    BY <1>3, <1>14 DEF Fill, Answers
  <1>15. ASSUME NEW i, ViewGet(i)  PROVE SearchesExact'
    BY <1>3, <1>15 DEF ViewGet, Answers
  <1>16. ASSUME NEW i, NEW c, ViewSet(i, c)  PROVE SearchesExact'
    BY <1>3, <1>16 DEF ViewSet, Answers
  <1>17. ASSUME NEW i, NEW codes, Set(i, codes)  PROVE SearchesExact'
    BY <1>3, <1>17 DEF Set, Answers
  <1>18. ASSUME NEW i, NEW fmt, Unpack(fmt, i)  PROVE SearchesExact'
    BY <1>3, <1>18 DEF Unpack, Answers
  <1>19. ASSUME NEW i, NEW fmt, NEW args, Pack(fmt, i, args)  PROVE SearchesExact'
    BY <1>3, <1>19 DEF Pack, Answers
  <1> QED  BY <1>1, <1>2, <1>4, <1>5, <1>6, <1>7, <1>8, <1>9, <1>10, <1>11, <1>12,
              <1>13, <1>14, <1>15, <1>16, <1>17, <1>18, <1>19 DEF Next

\* mem_find returns the first occurrence of its needle in the window and none
\* if there is none, and mem_diff the first place that differs, for every length:
\* lmemfind skips no place; a needle longer than the window is found only past
\* its end.
THEOREM SearchesAreExact == Spec => []SearchesExact
  BY Typed, SearchesInit, TypeStep, SearchesStep, PTL DEF Spec

-----------------------------------------------------------------------------
\* mem_pack, resumed: the same loop in a longer memory.

\* st, in a memory that goes on with more.
Extended(st, more) == [st EXCEPT !.mem = @ \o more]

\* The bytes of a memory that goes on.
LEMMA Longer ==
    ASSUME NEW len \in Nat, NEW ext \in Nat, NEW mem \in [1 .. len -> Bytes],
           NEW more \in [1 .. ext -> Bytes]
    PROVE  /\ mem \o more \in [1 .. len + ext -> Bytes]
           /\ Len(mem \o more) = len + ext /\ DOMAIN (mem \o more) = 1 .. len + ext
           /\ \A k \in 1 .. len : (mem \o more)[k] = mem[k]
           /\ \A k \in len + 1 .. len + ext : (mem \o more)[k] = more[k - len]
  <1>1. mem \in Seq(Bytes) /\ Len(mem) = len /\ more \in Seq(Bytes) /\ Len(more) = ext
    BY FunctionIsSeq
  <1>2. mem \o more \in Seq(Bytes) /\ Len(mem \o more) = len + ext
    BY <1>1, ConcatProperties
  <1>3. \A k \in 1 .. len + ext : (mem \o more)[k] = IF k <= len THEN mem[k] ELSE more[k - len]
    BY <1>1, ConcatProperties
  <1>4. mem \o more \in [1 .. len + ext -> Bytes] /\ DOMAIN (mem \o more) = 1 .. len + ext
    BY <1>2, SeqIsFunction
  <1> QED  BY <1>2, <1>3, <1>4

\* A longer state is a state.
LEMMA ExtendedIsState ==
    ASSUME NEW len \in Nat, NEW ext \in Nat, NEW st \in PackStates(len),
           NEW more \in [1 .. ext -> Bytes]
    PROVE  /\ Extended(st, more) \in PackStates(len + ext)
           /\ Extended(st, more).mem = st.mem \o more
           /\ Extended(st, more).i = st.i /\ Extended(st, more).h = st.h
           /\ Extended(st, more).used = st.used /\ Extended(st, more).end = st.end
           /\ Len(st.mem) = len /\ Len(st.mem \o more) = len + ext
  <1>1. st.mem \in [1 .. len -> Bytes] /\ Len(st.mem) = len
    BY FunctionIsSeq DEF PackStates
  <1>2. st.mem \o more \in [1 .. len + ext -> Bytes] /\ Len(st.mem \o more) = len + ext
    BY <1>1, Longer
  <1> QED  BY <1>1, <1>2 DEF Extended, PackStates

\* mem with piece behind i.
Written(mem, len, i, piece) ==
    [d \in 1 .. len |-> IF d \in i + 1 .. i + Len(piece) THEN piece[d - i] ELSE mem[d]]

\* The state after a piece that fits.
Wrote(st, len, piece) ==
    [st EXCEPT !.mem = Written(st.mem, len, st.i, piece), !.i = st.i + Len(piece)]

\* What Put does, if the loop is running.
LEMMA PutCases ==
    ASSUME NEW len \in Nat, NEW st \in PackStates(len), NEW piece \in Seq(Bytes),
           st.end = "running"
    PROVE  LET new == Put(st, piece) IN
           /\ new \in PackStates(len)
           /\ Len(piece) \in Nat /\ st.i \in Nat
           /\ new.used = st.used /\ new.h = st.h
           /\ \/ /\ st.i + Len(piece) > len
                 /\ new = Ended(st, "failed") /\ new.end = "failed"
                 /\ new.i = st.i /\ new.mem = st.mem
              \/ /\ st.i + Len(piece) <= len
                 /\ new = Wrote(st, len, piece)
                 /\ new.mem = Written(st.mem, len, st.i, piece)
                 /\ new.i = st.i + Len(piece) /\ new.end = "running"
  <1>1. /\ st.mem \in [1 .. len -> Bytes] /\ DOMAIN st.mem = 1 .. len /\ Len(st.mem) = len
        /\ st.i \in Nat /\ Len(piece) \in Nat
    BY FunctionIsSeq DEF PackStates
  <1>2. Put(st, piece) \in PackStates(len)
    BY PutStays DEF Stays
  <1>3. CASE st.i + Len(piece) > len
    <2>1. Put(st, piece) = [st EXCEPT !.end = "failed"]
      BY <1>1, <1>3 DEF Put
    <2>2. /\ Put(st, piece).end = "failed" /\ Put(st, piece).i = st.i
          /\ Put(st, piece).used = st.used /\ Put(st, piece).h = st.h
          /\ Put(st, piece).mem = st.mem
      BY <2>1 DEF PackStates
    <2> QED  BY <1>1, <1>2, <1>3, <2>1, <2>2 DEF Ended
  <1>4. CASE st.i + Len(piece) <= len
    <2> DEFINE new == Written(st.mem, len, st.i, piece)
               i == st.i + Len(piece)
    <2>1. Put(st, piece) = [st EXCEPT !.mem = new, !.i = i]
      BY <1>1, <1>4 DEF Put, Written
    <2> HIDE DEF new, i
    <2>2. /\ Put(st, piece).end = "running" /\ Put(st, piece).i = i
          /\ Put(st, piece).used = st.used /\ Put(st, piece).h = st.h
          /\ Put(st, piece).mem = new
      BY <2>1 DEF PackStates
    <2>3. Put(st, piece) = Wrote(st, len, piece)
      BY <2>1 DEF Wrote, new, i
    <2> QED  BY <1>1, <1>2, <1>4, <2>2, <2>3 DEF new, i
  <1> QED  BY <1>1, <1>3, <1>4

\* A piece that fits is written in the same place of a longer memory.
LEMMA PutExtends ==
    ASSUME NEW len \in Nat, NEW ext \in Nat, NEW st \in PackStates(len),
           NEW more \in [1 .. ext -> Bytes], NEW piece \in Seq(Bytes),
           st.end = "running", Put(st, piece).end = "running"
    PROVE  Put(Extended(st, more), piece) = Extended(Put(st, piece), more)
  <1> DEFINE long == Extended(st, more)
             i == st.i + Len(piece)
             small == Written(st.mem, len, st.i, piece)
             large == Written(st.mem \o more, len + ext, st.i, piece)
  <1>1. /\ long \in PackStates(len + ext) /\ long.mem = st.mem \o more /\ long.i = st.i
        /\ long.end = "running" /\ len + ext \in Nat
    BY ExtendedIsState
  <1>2. /\ Len(piece) \in Nat /\ st.i \in Nat /\ st.i + Len(piece) <= len
        /\ Put(st, piece) = Wrote(st, len, piece)
        /\ Put(st, piece).mem = small /\ Put(st, piece) \in PackStates(len)
    BY PutCases
  <1>3. Put(long, piece) = Wrote(long, len + ext, piece)
    <2>1. ~(st.i + Len(piece) > len + ext)
      BY <1>2
    <2> HIDE DEF long
    <2> QED  BY <1>1, <2>1, PutCases
  <1>4. st.mem \in [1 .. len -> Bytes] /\ small \in [1 .. len -> Bytes]
    BY <1>2 DEF PackStates
  <1>5. large = small \o more
    <2> DEFINE both == small \o more
    <2>1. /\ both \in [1 .. len + ext -> Bytes]
          /\ \A k \in 1 .. len : both[k] = small[k]
          /\ \A k \in len + 1 .. len + ext : both[k] = more[k - len]
      <3> HIDE DEF small
      <3> QED  BY <1>4, Longer
    <2>2. /\ \A k \in 1 .. len : (st.mem \o more)[k] = st.mem[k]
          /\ \A k \in len + 1 .. len + ext : (st.mem \o more)[k] = more[k - len]
      BY <1>4, Longer
    <2> HIDE DEF both
    <2>3. ASSUME NEW k \in 1 .. len + ext  PROVE large[k] = both[k]
      <3>1. CASE k <= len
        <4>1. k \in 1 .. len
          BY <3>1
        <4> QED  BY <2>1, <2>2, <4>1 DEF Written
      <3>2. CASE ~(k <= len)
        <4>1. k \in len + 1 .. len + ext /\ k \notin st.i + 1 .. st.i + Len(piece)
          BY <1>2, <3>2
        <4> QED  BY <2>1, <2>2, <4>1 DEF Written
      <3> QED  BY <3>1, <3>2
    <2>4. large = [k \in 1 .. len + ext |-> large[k]]
      BY DEF Written
    <2> HIDE DEF large
    <2>5. large = both
      BY <2>1, <2>3, <2>4
    <2> QED  BY <2>5 DEF both
  <1> HIDE DEF small, large, i
  <1>6. Put(long, piece) = [st EXCEPT !.mem = small \o more, !.i = i]
    <2>1. Wrote(long, len + ext, piece) = [long EXCEPT !.mem = large, !.i = i]
      <3> HIDE DEF long
      <3> QED  BY <1>1 DEF Wrote, large, i
    <2> QED  BY <1>3, <1>5, <2>1 DEF Extended, PackStates
  <1>7. Extended(Put(st, piece), more) = [st EXCEPT !.mem = small \o more, !.i = i]
    <2>1. Wrote(st, len, piece) = [st EXCEPT !.mem = small, !.i = i]
      BY DEF Wrote, small, i
    <2> QED  BY <1>2, <2>1 DEF Extended, PackStates
  <1> QED  BY <1>6, <1>7

\* A piece that does not fit reaches past the end.
LEMMA PutFails ==
    ASSUME NEW len \in Nat, NEW ext \in Nat, NEW st \in PackStates(len),
           NEW more \in [1 .. ext -> Bytes], NEW piece \in Seq(Bytes),
           st.end = "running", Put(st, piece).end # "running",
           Put(Extended(st, more), piece).end = "running"
    PROVE  Put(Extended(st, more), piece).i > len
  <1>1. /\ Extended(st, more) \in PackStates(len + ext) /\ Extended(st, more).i = st.i
        /\ Extended(st, more).end = "running" /\ len + ext \in Nat
    BY ExtendedIsState
  <1>2. st.i + Len(piece) > len
    BY PutCases
  <1> HIDE DEF Extended
  <1>3. Put(Extended(st, more), piece).i = st.i + Len(piece)
    BY <1>1, PutCases
  <1> QED  BY <1>2, <1>3

\* The pieces of an option that fit are written in the same places of a longer
\* memory.
LEMMA PutAllExtends ==
    ASSUME NEW len \in Nat, NEW ext \in Nat, NEW st \in PackStates(len),
           NEW more \in [1 .. ext -> Bytes], NEW pieces, ArePieces(pieces),
           st.end = "running", PutAll(st, pieces).end = "running"
    PROVE  PutAll(Extended(st, more), pieces) = Extended(PutAll(st, pieces), more)
  <1> DEFINE one == Put(st, pieces[1])
  <1>1. pieces[1] \in Seq(Bytes)
    BY DEF ArePieces
  <1>2. one \in PackStates(len)
    BY <1>1, PutStays DEF Stays
  <1>3. one.end = "running"
    BY DEF PutAll, Put
  <1>4. Put(Extended(st, more), pieces[1]) = Extended(one, more)
    BY <1>1, <1>3, PutExtends
  <1> HIDE DEF one
  <1>5. CASE Len(pieces) = 1
    BY <1>4, <1>5 DEF PutAll, one
  <1>6. CASE Len(pieces) # 1
    <2>1. pieces[2] \in Seq(Bytes)
      BY <1>6 DEF ArePieces
    <2>2. PutAll(st, pieces) = Put(one, pieces[2])
      BY <1>6 DEF PutAll, one
    <2>3. Put(Extended(one, more), pieces[2]) = Extended(Put(one, pieces[2]), more)
      BY <1>2, <1>3, <2>1, <2>2, PutExtends
    <2>4. PutAll(Extended(st, more), pieces) = Put(Extended(one, more), pieces[2])
      BY <1>4, <1>6 DEF PutAll
    <2> QED  BY <2>2, <2>3, <2>4
  <1> QED  BY <1>5, <1>6

\* Nothing is written for an empty piece.
LEMMA NothingWritten ==
    ASSUME NEW len \in Nat, NEW mem \in [1 .. len -> Bytes], NEW i \in Nat, NEW piece,
           Len(piece) = 0
    PROVE  Written(mem, len, i, piece) = mem
  <1>1. \A d \in 1 .. len : d \notin i + 1 .. i + Len(piece)
    OBVIOUS
  <1> DEFINE new == [d \in 1 .. len |-> IF d \in i + 1 .. i + Len(piece)
                                        THEN piece[d - i] ELSE mem[d]]
  <1>2. new = mem
    BY <1>1
  <1> QED  BY <1>2 DEF Written

\* If one of the pieces does not fit, then nothing has been written, or the first
\* of two. In a longer memory where they fit, they reach past the end.
LEMMA PutAllFails ==
    ASSUME NEW len \in Nat, NEW ext \in Nat, NEW st \in PackStates(len),
           NEW more \in [1 .. ext -> Bytes], NEW pieces, ArePieces(pieces),
           st.end = "running", PutAll(st, pieces).end # "running"
    PROVE  LET new == PutAll(st, pieces)
               long == PutAll(Extended(st, more), pieces)
           IN  /\ new.used = st.used /\ new.h = st.h /\ new.end = "failed"
               /\ \/ new.mem = st.mem /\ new.i = st.i
                  \/ Len(pieces) = 2 /\ new.i > st.i
               /\ long.end = "running" => long.i > len
  <1> DEFINE one == Put(st, pieces[1])
             long == Extended(st, more)
             first == Put(long, pieces[1])
  <1>1. pieces[1] \in Seq(Bytes) /\ Len(pieces) \in 1 .. 2
    BY DEF ArePieces
  <1>2. one \in PackStates(len) /\ long \in PackStates(len + ext) /\ long.end = "running"
    BY <1>1, ExtendedIsState, PutStays DEF Stays
  <1>3. first \in PackStates(len + ext) /\ first.i \in Nat /\ len + ext \in Nat
    <2> HIDE DEF long
    <2>1. len + ext \in Nat
      OBVIOUS
    <2>2. first \in PackStates(len + ext)
      BY <1>1, <1>2, <2>1, PutStays DEF Stays
    <2> QED  BY <2>1, <2>2 DEF PackStates
  <1>4. CASE one.end # "running"
    <2>1. /\ one.used = st.used /\ one.h = st.h /\ one.end = "failed"
          /\ one.mem = st.mem /\ one.i = st.i
      BY <1>1, <1>4, PutCases
    <2>2. PutAll(st, pieces) = one
      BY <1>4 DEF PutAll, Put
    <2>3. ASSUME PutAll(long, pieces).end = "running"  PROVE PutAll(long, pieces).i > len
      <3>1. first.end = "running"
        <4> HIDE DEF long
        <4> QED  BY <2>3 DEF PutAll, Put
      <3>2. first.i > len
        BY <1>1, <1>4, <3>1, PutFails
      <3> HIDE DEF first, long
      <3>3. CASE Len(pieces) = 1
        BY <3>2, <3>3 DEF PutAll, first
      <3>4. CASE Len(pieces) = 2
        <4>1. PutAll(long, pieces) = Put(first, pieces[2]) /\ pieces[2] \in Seq(Bytes)
          <5>1. pieces[2] \in Seq(Bytes)
            BY <3>4 DEF ArePieces
          <5>2. PutAll(long, pieces) = Put(first, pieces[2])
            BY <3>4 DEF PutAll, first
          <5> QED  BY <5>1, <5>2
        <4>2. Put(first, pieces[2]).i >= first.i
          BY <1>3, <4>1, PutStays DEF Stays, Onwards
        <4>3. Put(first, pieces[2]).i \in Nat
          BY <1>3, <4>1, PutStays DEF Stays, PackStates
        <4> QED  BY <1>3, <3>2, <4>1, <4>2, <4>3
      <3> QED  BY <1>1, <3>3, <3>4
    <2> HIDE DEF one
    <2> QED  BY <2>1, <2>2, <2>3
  <1>5. CASE one.end = "running"
    <2>1. /\ one.used = st.used /\ one.h = st.h /\ st.i \in Nat
          /\ Len(pieces[1]) \in Nat /\ one.i = st.i + Len(pieces[1])
          /\ one.mem = Written(st.mem, len, st.i, pieces[1])
      BY <1>1, <1>5, PutCases
    <2>2. first = Extended(one, more)
      BY <1>1, <1>5, PutExtends
    <2> HIDE DEF one
    <2>3. Len(pieces) = 2 /\ PutAll(st, pieces) = Put(one, pieces[2])
      BY <1>1, <1>5 DEF PutAll, one
    <2>4. pieces[2] \in Seq(Bytes)
      BY <2>3 DEF ArePieces
    <2> DEFINE new == Put(one, pieces[2])
    <2>5. /\ new.used = one.used /\ new.h = one.h /\ new.end = "failed"
          /\ new.mem = one.mem /\ new.i = one.i
      BY <1>2, <1>5, <2>3, <2>4, PutCases
    <2>6. PutAll(long, pieces) = Put(Extended(one, more), pieces[2])
      BY <2>2, <2>3 DEF PutAll
    <2>7. PutAll(long, pieces).end = "running" => PutAll(long, pieces).i > len
      BY <1>2, <1>5, <2>3, <2>4, <2>6, PutFails
    <2>8. one.i > st.i \/ (one.mem = st.mem /\ one.i = st.i)
      <3>1. st.mem \in [1 .. len -> Bytes]
        BY DEF PackStates
      <3>2. CASE Len(pieces[1]) = 0
        <4>1. Written(st.mem, len, st.i, pieces[1]) = st.mem
          BY <2>1, <3>1, <3>2, NothingWritten
        <4> QED  BY <2>1, <3>2, <4>1
      <3>3. CASE Len(pieces[1]) # 0
        BY <2>1, <3>3
      <3> QED  BY <3>2, <3>3
    <2> HIDE DEF new, long
    <2>9. PutAll(st, pieces) = new
      BY <2>3 DEF new
    <2> QED  BY <2>1, <2>3, <2>5, <2>7, <2>8, <2>9 DEF long
  <1> QED  BY <1>4, <1>5

\* What a turn does, by the option.
LEMMA TurnCases ==
    ASSUME NEW a, NEW o, NEW args
    PROVE  LET refused == Len(args) = a.used \/ ~Packable(o, args[a.used + 1]) IN
           /\ TakesArgument(o) /\ refused => Turn(a, o, args) = Ended(a, "error")
           /\ TakesArgument(o) /\ ~refused
                 => Turn(a, o, args) = PutAll(a, Pieces(a.h, o, args[a.used + 1]))
           /\ o.k = "pad" =>
                 /\ ~TakesArgument(o)
                 /\ a.i < Len(a.mem) => Turn(a, o, args) = [a EXCEPT !.i = @ + 1]
                 /\ ~(a.i < Len(a.mem)) => Turn(a, o, args) = Ended(a, "failed")
           /\ ~TakesArgument(o) /\ o.k # "pad"
                 => Turn(a, o, args) = [a EXCEPT !.h = Configured(a.h, o)]
  <1>1. o.k = "pad" => ~TakesArgument(o)
    BY DEF TakesArgument
  <1> QED  BY <1>1 DEF Turn, Ended

\* An option that is packed is packed alike in a longer memory.
LEMMA TurnExtends ==
    ASSUME NEW len \in Nat, NEW ext \in Nat, NEW a \in PackStates(len),
           NEW more \in [1 .. ext -> Bytes], NEW o \in Options, NEW args,
           a.end = "running", Turn(a, o, args).end = "running"
    PROVE  Turn(Extended(a, more), o, args) = Extended(Turn(a, o, args), more)
  <1> DEFINE long == Extended(a, more)
             x == args[a.used + 1]
             refused == Len(args) = a.used \/ ~Packable(o, x)
  <1>1. /\ long.h = a.h /\ long.used = a.used /\ long.i = a.i
        /\ long.mem = a.mem \o more /\ Len(a.mem) = len /\ Len(long.mem) = len + ext
        /\ a.h \in Headers /\ a.i \in Nat
    <2>1. a.h \in Headers /\ a.i \in Nat
      BY DEF PackStates
    <2> QED  BY <2>1, ExtendedIsState
  <1>2. CASE TakesArgument(o)
    <2>1. ~refused
      <3> SUFFICES ASSUME refused  PROVE FALSE
        OBVIOUS
      <3>1. Turn(a, o, args) = Ended(a, "error")
        BY <1>2, TurnCases
      <3> QED  BY <3>1 DEF PackStates, Ended
    <2>2. ArePieces(Pieces(a.h, o, x))
      BY <1>1, <1>2, <2>1, PiecesAreBytes
    <2>3. Turn(a, o, args) = PutAll(a, Pieces(a.h, o, x))
      BY <1>2, <2>1, TurnCases
    <2>4. Turn(long, o, args) = PutAll(long, Pieces(a.h, o, x))
      <3> HIDE DEF long
      <3> QED  BY <1>1, <1>2, <2>1, TurnCases
    <2> QED  BY <2>2, <2>3, <2>4, PutAllExtends
  <1>3. CASE o.k = "pad"
    <2>1. a.i < len
      <3> SUFFICES ASSUME ~(a.i < len)  PROVE FALSE
        OBVIOUS
      <3>1. Turn(a, o, args) = Ended(a, "failed")
        BY <1>1, <1>3, TurnCases
      <3> QED  BY <3>1 DEF PackStates, Ended
    <2>2. Turn(a, o, args) = [a EXCEPT !.i = @ + 1]
      BY <1>1, <1>3, <2>1, TurnCases
    <2>3. Turn(long, o, args) = [long EXCEPT !.i = @ + 1]
      <3>1. long.i < Len(long.mem)
        BY <1>1, <2>1
      <3> HIDE DEF long
      <3> QED  BY <1>3, <3>1, TurnCases
    <2> QED  BY <2>2, <2>3 DEF Extended, PackStates
  <1>4. CASE ~TakesArgument(o) /\ o.k # "pad"
    <2>1. Turn(a, o, args) = [a EXCEPT !.h = Configured(a.h, o)]
      BY <1>4, TurnCases
    <2>2. Turn(long, o, args) = [long EXCEPT !.h = Configured(a.h, o)]
      <3> HIDE DEF long
      <3> QED  BY <1>1, <1>4, TurnCases
    <2> QED  BY <2>1, <2>2 DEF Extended, PackStates
  <1> QED  BY <1>2, <1>3, <1>4

\* An option that fails, but not for an error, has written nothing, or the first
\* piece of a string. It fails for want of room.
LEMMA TurnFails ==
    ASSUME NEW len \in Nat, NEW ext \in Nat, NEW a \in PackStates(len),
           NEW more \in [1 .. ext -> Bytes], NEW o \in Options, NEW args,
           a.end = "running", Turn(a, o, args).end = "failed"
    PROVE  LET new == Turn(a, o, args)
               long == Turn(Extended(a, more), o, args)
           IN  /\ new.used = a.used
               /\ \/ new.mem = a.mem /\ new.i = a.i
                  \/ o.k \in {"string", "zstr"} /\ new.i > a.i
               /\ long.end = "running" => long.i > len
  <1> DEFINE ext2 == Extended(a, more)
             x == args[a.used + 1]
             refused == Len(args) = a.used \/ ~Packable(o, x)
  <1>1. /\ ext2.h = a.h /\ ext2.used = a.used /\ ext2.i = a.i /\ ext2.end = "running"
        /\ ext2 \in PackStates(len + ext) /\ Len(a.mem) = len /\ Len(ext2.mem) = len + ext
        /\ a.h \in Headers /\ a.i \in Nat
    <2>1. a.h \in Headers /\ a.i \in Nat
      BY DEF PackStates
    <2>2. /\ ext2 \in PackStates(len + ext) /\ ext2.i = a.i /\ ext2.used = a.used
          /\ ext2.h = a.h /\ ext2.end = a.end
      BY ExtendedIsState
    <2>3. Len(a.mem) = len /\ Len(a.mem \o more) = len + ext /\ ext2.mem = a.mem \o more
      BY ExtendedIsState
    <2> HIDE DEF ext2
    <2> QED  BY <2>1, <2>2, <2>3
  <1>2. CASE TakesArgument(o)
    <2> DEFINE pieces == Pieces(a.h, o, x)
    <2>1. ~refused
      <3> SUFFICES ASSUME refused  PROVE FALSE
        OBVIOUS
      <3>1. Turn(a, o, args) = Ended(a, "error")
        BY <1>2, TurnCases
      <3> QED  BY <3>1 DEF PackStates, Ended
    <2>2. ArePieces(pieces)
      BY <1>1, <1>2, <2>1, PiecesAreBytes
    <2>3. Turn(a, o, args) = PutAll(a, pieces)
      BY <1>2, <2>1, TurnCases
    <2>4. Turn(ext2, o, args) = PutAll(ext2, pieces)
      <3> HIDE DEF ext2
      <3> QED  BY <1>1, <1>2, <2>1, TurnCases
    <2>5. Len(pieces) = 2 => o.k \in {"string", "zstr"}
      BY <1>2 DEF Pieces, TakesArgument
    <2> HIDE DEF pieces
    <2> QED  BY <2>2, <2>3, <2>4, <2>5, PutAllFails
  <1>3. CASE o.k = "pad"
    <2>1. ~(a.i < len)
      <3> SUFFICES ASSUME a.i < len  PROVE FALSE
        OBVIOUS
      <3>1. Turn(a, o, args) = [a EXCEPT !.i = @ + 1]
        BY <1>1, <1>3, TurnCases
      <3> QED  BY <3>1 DEF PackStates, Ended
    <2>2. Turn(a, o, args) = Ended(a, "failed")
      BY <1>1, <1>3, <2>1, TurnCases
    <2>3. /\ Turn(a, o, args).used = a.used /\ Turn(a, o, args).mem = a.mem
          /\ Turn(a, o, args).i = a.i
      BY <2>2 DEF PackStates, Ended
    <2>4. \/ Turn(ext2, o, args) = [ext2 EXCEPT !.i = @ + 1]
          \/ Turn(ext2, o, args) = Ended(ext2, "failed")
      <3> HIDE DEF ext2
      <3> QED  BY <1>3, TurnCases
    <2>5. ASSUME Turn(ext2, o, args).end = "running"
          PROVE  Turn(ext2, o, args).i > len
      <3> HIDE DEF ext2
      <3>1. Turn(ext2, o, args).i = ext2.i + 1
        BY <1>1, <2>4, <2>5 DEF PackStates, Ended
      <3> QED  BY <1>1, <2>1, <3>1
    <2> QED  BY <2>3, <2>5
  <1>4. CASE ~TakesArgument(o) /\ o.k # "pad"
    <2>1. Turn(a, o, args) = [a EXCEPT !.h = Configured(a.h, o)]
      BY <1>4, TurnCases
    <2> QED  BY <2>1 DEF PackStates
  <1> QED  BY <1>2, <1>3, <1>4

\* What it takes for the loop to go on.
LEMMA OptionRuns ==
    ASSUME NEW len \in Nat, NEW st \in PackStates(len), NEW o \in Options,
           NEW args, NEW null \in BOOLEAN, PackOption(st, o, args, null).end = "running"
    PROVE  /\ st.end = "running" /\ HasRoom(st, o, null)
           /\ Turn(Aligned(st, o), o, args).end = "running"
           /\ PackOption(st, o, args, null) = Counted(Turn(Aligned(st, o), o, args), o)
           /\ Aligned(st, o) \in PackStates(len) /\ Aligned(st, o).end = "running"
  <1> DEFINE skip == ToAlign(st.h, o, st.i)
             new == PackOption(st, o, args, null)
             turned == Turn(Aligned(st, o), o, args)
  <1>1. /\ skip \in Int
        /\ st.end # "running" => new = st
        /\ st.end = "running" /\ skip < 0 => new = Ended(st, "error")
        /\ st.end = "running" /\ skip >= 0 /\ ~HasRoom(st, o, null)
              => new = Ended(st, "failed")
        /\ st.end = "running" /\ HasRoom(st, o, null) =>
              new = IF turned.end # "running" THEN turned ELSE Counted(turned, o)
    BY OptionTurns
  <1>2. new.end = "running"
    OBVIOUS
  <1>3. Ended(st, "error").end = "error" /\ Ended(st, "failed").end = "failed"
    BY EndedState
  <1> HIDE DEF new, turned, skip
  <1>4. st.end = "running"
    BY <1>1, <1>2
  <1>5. skip >= 0
    BY <1>1, <1>2, <1>3, <1>4
  <1>6. HasRoom(st, o, null)
    BY <1>1, <1>2, <1>3, <1>4, <1>5
  <1>7. turned.end = "running" /\ new = Counted(turned, o)
    BY <1>1, <1>2, <1>4, <1>6
  <1>8. Aligned(st, o) \in PackStates(len) /\ Aligned(st, o).end = st.end
    BY <1>5, AlignedStays DEF skip
  <1> QED  BY <1>4, <1>6, <1>7, <1>8 DEF new, turned

\* An option that is packed is packed alike, from the same position of a longer
\* memory.
LEMMA OptionExtends ==
    ASSUME NEW len \in Nat, NEW ext \in Nat, NEW st \in PackStates(len),
           NEW more \in [1 .. ext -> Bytes], NEW o \in Options, NEW args,
           NEW null \in BOOLEAN, NEW no \in BOOLEAN, ~no,
           PackOption(st, o, args, null).end = "running"
    PROVE  PackOption(Extended(st, more), o, args, no)
              = Extended(PackOption(st, o, args, null), more)
  <1> DEFINE long == Extended(st, more)
             turned == Turn(Aligned(st, o), o, args)
  <1>1. /\ st.end = "running" /\ HasRoom(st, o, null)
        /\ turned.end = "running" /\ PackOption(st, o, args, null) = Counted(turned, o)
        /\ Aligned(st, o) \in PackStates(len) /\ Aligned(st, o).end = "running"
    BY OptionRuns
  <1>2. /\ long \in PackStates(len + ext) /\ long.i = st.i /\ long.h = st.h
        /\ long.end = "running" /\ Len(long.mem) = len + ext /\ Len(st.mem) = len
        /\ len + ext \in Nat
    <2>1. /\ long \in PackStates(len + ext) /\ long.i = st.i /\ long.h = st.h
          /\ long.end = "running" /\ long.mem = st.mem \o more
      BY <1>1, ExtendedIsState
    <2>2. Len(st.mem) = len /\ Len(st.mem \o more) = len + ext
      BY ExtendedIsState
    <2> HIDE DEF long
    <2> QED  BY <2>1, <2>2
  <1>3. HasRoom(long, o, no)
    <2>1. /\ ToAlign(st.h, o, st.i) >= 0
          /\ st.i + ToAlign(st.h, o, st.i) <= len
      BY <1>1, <1>2 DEF HasRoom
    <2>2. ToAlign(st.h, o, st.i) \in Int /\ st.i \in Nat
      BY AlignmentIsInt DEF PackStates
    <2> HIDE DEF long
    <2>3. st.i + ToAlign(st.h, o, st.i) <= len + ext
      BY <2>1, <2>2
    <2> QED  BY <1>2, <2>1, <2>3 DEF HasRoom
  <1>4. Aligned(long, o) = Extended(Aligned(st, o), more)
    BY DEF Aligned, Extended, PackStates
  <1>5. Turn(Aligned(long, o), o, args) = Extended(turned, more)
    BY <1>1, <1>4, TurnExtends
  <1>6. turned \in PackStates(len)
    BY <1>1, TurnStays DEF Stays
  <1> HIDE DEF long, turned
  <1>7. Extended(turned, more).end = "running"
    BY <1>1, <1>6, ExtendedIsState
  <1>8. PackOption(long, o, args, no) = Counted(Extended(turned, more), o)
    <2>1. PackOption(long, o, args, no) =
             IF Turn(Aligned(long, o), o, args).end # "running"
             THEN Turn(Aligned(long, o), o, args)
             ELSE Counted(Turn(Aligned(long, o), o, args), o)
      BY <1>2, <1>3, OptionTurns
    <2> QED  BY <1>5, <1>7, <2>1
  <1>9. Counted(Extended(turned, more), o) = Extended(Counted(turned, o), more)
    BY <1>6 DEF Counted, Extended, PackStates
  <1> QED  BY <1>1, <1>8, <1>9 DEF long

\* An option that does not fit leaves the state as it was before it, or after its
\* alignment; or it has written the first piece of a string.
LEMMA OptionFails ==
    ASSUME NEW len \in Nat, NEW ext \in Nat, NEW st \in PackStates(len),
           NEW more \in [1 .. ext -> Bytes], NEW o \in Options, NEW args,
           NEW null \in BOOLEAN, NEW no \in BOOLEAN, ~no, st.end = "running",
           PackOption(st, o, args, null).end = "failed"
    PROVE  LET new == PackOption(st, o, args, null)
               long == PackOption(Extended(st, more), o, args, no)
           IN  /\ new.used = st.used
               /\ \/ new.mem = st.mem /\ new.i = st.i
                  \/ /\ ToAlign(st.h, o, st.i) >= 0
                     /\ new.mem = st.mem /\ new.i = Aligned(st, o).i
                  \/ o.k \in {"string", "zstr"} /\ new.i > st.i
               /\ ~null /\ long.end = "running" => long.i > len
  <1> DEFINE skip == ToAlign(st.h, o, st.i)
             new == PackOption(st, o, args, null)
             ext2 == Extended(st, more)
             long == PackOption(ext2, o, args, no)
             a == Aligned(st, o)
             turned == Turn(a, o, args)
  <1>1. /\ skip \in Int
        /\ st.end = "running" /\ skip < 0 => new = Ended(st, "error")
        /\ st.end = "running" /\ skip >= 0 /\ ~HasRoom(st, o, null) => new = Ended(st, "failed")
        /\ st.end = "running" /\ HasRoom(st, o, null) =>
              new = IF turned.end # "running" THEN turned ELSE Counted(turned, o)
    BY OptionTurns
  <1>2. skip >= 0
    <2> SUFFICES ASSUME skip < 0  PROVE FALSE
      BY <1>1
    <2>1. new = Ended(st, "error")
      BY <1>1
    <2>2. new.end = "failed"
      OBVIOUS
    <2>3. new.end = "error"
      <3> HIDE DEF new
      <3> QED  BY <2>1, EndedState
    <2> HIDE DEF new
    <2> QED  BY <2>2, <2>3
  <1>3. /\ a \in PackStates(len) /\ a.i = st.i + skip /\ a.mem = st.mem
        /\ a.used = st.used /\ a.end = "running" /\ st.i \in Nat /\ a.i \in Nat
    <2>1. st.i \in Nat
      BY DEF PackStates
    <2>2. /\ a \in PackStates(len) /\ a.i = st.i + skip /\ a.mem = st.mem
          /\ a.used = st.used /\ a.end = "running"
      BY <1>2, AlignedStays
    <2> HIDE DEF a
    <2> QED  BY <1>1, <1>2, <2>1, <2>2
  <1>4. /\ ext2 \in PackStates(len + ext) /\ ext2.i = st.i /\ ext2.h = st.h
        /\ ext2.end = "running" /\ len + ext \in Nat
    BY ExtendedIsState
  <1>5. ASSUME long.end = "running"
        PROVE  /\ Turn(Extended(a, more), o, args).end = "running"
               /\ long.i = Turn(Extended(a, more), o, args).i
               /\ long.i \in Nat /\ long.i >= a.i
    <2>1. Aligned(ext2, o) = Extended(a, more)
      BY DEF Aligned, Extended, PackStates
    <2> HIDE DEF ext2
    <2>2. /\ long = Counted(Turn(Extended(a, more), o, args), o)
          /\ Turn(Extended(a, more), o, args).end = "running"
      BY <1>4, <1>5, <2>1, OptionRuns
    <2>3. Extended(a, more) \in PackStates(len + ext) /\ Extended(a, more).i = a.i
      BY <1>3, ExtendedIsState
    <2> DEFINE t == Turn(Extended(a, more), o, args)
    <2>4. t \in PackStates(len + ext) /\ t.i >= a.i
      BY <1>4, <2>3, TurnStays DEF Stays, Onwards
    <2> HIDE DEF t
    <2>5. Counted(t, o).i = t.i /\ t.i \in Nat
      BY <2>4 DEF Counted, PackStates
    <2> QED  BY <2>2, <2>4, <2>5 DEF t
  <1>6. CASE ~HasRoom(st, o, null)
    <2>1. new = Ended(st, "failed")
      BY <1>1, <1>2, <1>6
    <2> HIDE DEF new
    <2>2. new.used = st.used /\ new.mem = st.mem /\ new.i = st.i
      BY <2>1, EndedState
    <2>3. ASSUME ~null, long.end = "running"  PROVE long.i > len
      <3>1. Len(st.mem) = len
        BY ExtendedIsState
      <3>2. a.i > len
        BY <1>1, <1>2, <1>3, <1>6, <2>3, <3>1 DEF HasRoom
      <3> HIDE DEF long, a
      <3> QED  BY <1>3, <1>5, <2>3, <3>2
    <2> QED  BY <2>2, <2>3 DEF new
  <1>7. CASE HasRoom(st, o, null)
    <2>1. new.end = "failed" /\ new = IF turned.end # "running" THEN turned ELSE Counted(turned, o)
      BY <1>1, <1>7
    <2>2. turned \in PackStates(len)
      BY <1>3, TurnStays DEF Stays
    <2>3. new = turned /\ turned.end = "failed"
      <3>1. Counted(turned, o).end = turned.end
        <4> HIDE DEF turned
        <4> QED  BY <2>2 DEF Counted, PackStates
      <3> HIDE DEF turned, new
      <3> QED  BY <2>1, <3>1
    <2>4. /\ turned.used = a.used
          /\ \/ turned.mem = a.mem /\ turned.i = a.i
             \/ o.k \in {"string", "zstr"} /\ turned.i > a.i
          /\ Turn(Extended(a, more), o, args).end = "running"
                => Turn(Extended(a, more), o, args).i > len
      BY <1>3, <2>3, TurnFails
    <2>5. turned.i \in Nat
      <3> HIDE DEF turned
      <3> QED  BY <2>2 DEF PackStates
    <2> HIDE DEF turned, a, new, long
    <2>6. turned.i > a.i => turned.i > st.i
      BY <1>1, <1>2, <1>3, <2>5
    <2>7. ~null /\ long.end = "running" => long.i > len
      BY <1>5, <2>4
    <2> QED  BY <1>2, <1>3, <2>3, <2>4, <2>6, <2>7 DEF a, new, long, skip, ext2
  <1> QED  BY <1>6, <1>7

\* What is aligned needs no alignment.
LEMMA AlignsOnce ==
    ASSUME NEW h \in Headers, NEW o \in Options, NEW total \in Nat,
           ToAlign(h, o, total) >= 0
    PROVE  ToAlign(h, o, total + ToAlign(h, o, total)) = 0
  <1> DEFINE align == IF o.n > h.maxalign THEN h.maxalign ELSE o.n
             none == o.k \notin {"int", "uint", "string", "align"} \/ o.n <= 1
             skip(t) == (align - (t % align)) % align
             s == ToAlign(h, o, total)
  <1>1. align \in Nat
    BY DEF Headers, Options
  <1>2. CASE none
    BY <1>2 DEF ToAlign
  <1>3. CASE ~none /\ align \in {1, 2, 4, 8, 16}
    <2>1. \A t : ToAlign(h, o, t) = skip(t)
      BY <1>3 DEF ToAlign
    <2>2. skip(total + skip(total)) = 0
      <3> HIDE DEF align, none
      <3>1. CASE align = 1
        BY <3>1
      <3>2. CASE align = 2
        BY <3>2
      <3>3. CASE align = 4
        BY <3>3
      <3>4. CASE align = 8
        BY <3>4
      <3>5. CASE align = 16
        BY <3>5
      <3> QED  BY <1>3, <3>1, <3>2, <3>3, <3>4, <3>5
    <2> HIDE DEF skip
    <2> QED  BY <2>1, <2>2
  <1>4. CASE ~none /\ align \notin {1, 2, 4, 8, 16}
    <2>1. s = -1
      BY <1>4 DEF ToAlign
    <2> HIDE DEF s
    <2> QED  BY <2>1 DEF s
  <1> QED  BY <1>2, <1>3, <1>4

\* An option that is packed is packed alike from behind its alignment.
LEMMA OptionAligns ==
    ASSUME NEW len \in Nat, NEW st \in PackStates(len), NEW o \in Options,
           NEW args, NEW null \in BOOLEAN, PackOption(st, o, args, null).end = "running"
    PROVE  PackOption(Aligned(st, o), o, args, null) = PackOption(st, o, args, null)
  <1> DEFINE a == Aligned(st, o)
             new == PackOption(st, o, args, null)
             turned == Turn(a, o, args)
  <1>1. /\ HasRoom(st, o, null) /\ turned.end = "running"
        /\ new = Counted(turned, o) /\ a \in PackStates(len) /\ a.end = "running"
    BY OptionRuns
  <1>2. /\ st.h \in Headers /\ st.i \in Nat /\ ToAlign(st.h, o, st.i) >= 0
        /\ ToAlign(st.h, o, st.i) \in Int
    BY <1>1, AlignmentIsInt DEF HasRoom, PackStates
  <1>3. a.i = st.i + ToAlign(st.h, o, st.i) /\ a.mem = st.mem /\ a.h = st.h
    BY <1>2, AlignedStays
  <1>4. ToAlign(a.h, o, a.i) = 0
    BY <1>2, <1>3, AlignsOnce
  <1>5. a.i \in Nat
    <2> HIDE DEF a
    <2> QED  BY <1>1 DEF PackStates
  <1>6. HasRoom(a, o, null)
    BY <1>1, <1>2, <1>3, <1>4, <1>5 DEF HasRoom
  <1> HIDE DEF a, new
  <1>7. Aligned(a, o) = a
    BY <1>1, <1>4, <1>5 DEF Aligned, PackStates
  <1>8. PackOption(a, o, args, null) = Counted(turned, o)
    BY <1>1, <1>6, <1>7, OptionTurns
  <1> QED  BY <1>1, <1>8 DEF a, new

\* st, when the first u arguments are not there any more.
Shifted(st, u) == [st EXCEPT !.used = @ - u]

\* It is a state.
LEMMA ShiftedIsState ==
    ASSUME NEW len \in Nat, NEW st \in PackStates(len), NEW u \in Nat, u <= st.used
    PROVE  /\ Shifted(st, u) \in PackStates(len)
           /\ Shifted(st, u).mem = st.mem /\ Shifted(st, u).i = st.i
           /\ Shifted(st, u).h = st.h /\ Shifted(st, u).end = st.end
           /\ Shifted(st, u).used = st.used - u
  <1> DEFINE n == st.used - u
  <1>1. n \in Nat
    BY DEF PackStates
  <1>2. Shifted(st, u) = [st EXCEPT !.used = n]
    BY DEF Shifted
  <1> HIDE DEF n
  <1>3. /\ Shifted(st, u) \in PackStates(len)
        /\ Shifted(st, u).mem = st.mem /\ Shifted(st, u).i = st.i
        /\ Shifted(st, u).h = st.h /\ Shifted(st, u).end = st.end
        /\ Shifted(st, u).used = n
    BY <1>1, <1>2 DEF PackStates
  <1> QED  BY <1>3 DEF n

\* Pieces are written alike in it.
LEMMA PutShifts ==
    ASSUME NEW len \in Nat, NEW st \in PackStates(len), NEW piece \in Seq(Bytes),
           NEW u \in Nat, u <= st.used
    PROVE  Put(Shifted(st, u), piece) = Shifted(Put(st, piece), u)
  <1> DEFINE s == Shifted(st, u)
  <1>1. /\ s \in PackStates(len) /\ s.mem = st.mem /\ s.i = st.i /\ s.end = st.end
    BY ShiftedIsState
  <1>2. CASE st.end # "running"
    <2> HIDE DEF s
    <2>1. Put(s, piece) = s /\ Put(st, piece) = st
      BY <1>1, <1>2 DEF Put
    <2> QED  BY <2>1 DEF s
  <1>3. CASE st.end = "running" /\ st.i + Len(piece) > len
    <2>1. Put(st, piece) = Ended(st, "failed")
      <3>1. ~(st.i + Len(piece) <= len)
        BY <1>3 DEF PackStates
      <3> QED  BY <1>3, <3>1, PutCases
    <2>2. Put(s, piece) = Ended(s, "failed")
      <3>1. ~(st.i + Len(piece) <= len)
        BY <1>3 DEF PackStates
      <3> HIDE DEF s
      <3> QED  BY <1>1, <1>3, <3>1, PutCases
    <2> QED  BY <2>1, <2>2 DEF Ended, Shifted, PackStates
  <1>4. CASE st.end = "running" /\ st.i + Len(piece) <= len
    <2> DEFINE new == Written(st.mem, len, st.i, piece)
               i == st.i + Len(piece)
    <2>0. ~(st.i + Len(piece) > len)
      BY <1>4 DEF PackStates
    <2>1. Put(st, piece) = Wrote(st, len, piece)
      BY <1>4, <2>0, PutCases
    <2>2. Put(s, piece) = Wrote(s, len, piece)
      <3> HIDE DEF s
      <3> QED  BY <1>1, <1>4, <2>0, PutCases
    <2>3. Wrote(s, len, piece) = [s EXCEPT !.mem = new, !.i = i]
      <3> HIDE DEF s
      <3>1. Written(s.mem, len, s.i, piece) = new /\ s.i + Len(piece) = i
        BY <1>1
      <3> HIDE DEF new, i
      <3> QED  BY <3>1 DEF Wrote
    <2>4. Wrote(st, len, piece) = [st EXCEPT !.mem = new, !.i = i]
      BY DEF Wrote
    <2> DEFINE v == st.used - u
               both == [st EXCEPT !.mem = new, !.i = i]
    <2>5. both.used = st.used /\ s = [st EXCEPT !.used = v]
      <3> HIDE DEF new, i
      <3> QED  BY DEF Shifted, PackStates
    <2>6. Shifted(both, u) = [both EXCEPT !.used = v]
      <3> HIDE DEF both
      <3> QED  BY <2>5 DEF Shifted
    <2> HIDE DEF new, i, v, s
    <2>7. [s EXCEPT !.mem = new, !.i = i] = [both EXCEPT !.used = v]
      BY <2>5 DEF PackStates
    <2> QED  BY <2>1, <2>2, <2>3, <2>4, <2>6, <2>7 DEF s
  <1>5. st.i \in Nat /\ Len(piece) \in Nat
    BY DEF PackStates
  <1> QED  BY <1>2, <1>3, <1>4, <1>5

\* So are those of an option.
LEMMA PutAllShifts ==
    ASSUME NEW len \in Nat, NEW st \in PackStates(len), NEW pieces, ArePieces(pieces),
           NEW u \in Nat, u <= st.used
    PROVE  /\ PutAll(Shifted(st, u), pieces) = Shifted(PutAll(st, pieces), u)
           /\ PutAll(st, pieces).used = st.used
  <1> DEFINE one == Put(st, pieces[1])
  <1>1. pieces[1] \in Seq(Bytes)
    BY DEF ArePieces
  <1>2. one \in PackStates(len)
    BY <1>1, PutStays DEF Stays
  <1>3. ASSUME NEW a \in PackStates(len), NEW piece  PROVE Put(a, piece).used = a.used
    BY DEF Put, PackStates
  <1>4. one.used = st.used
    BY <1>3
  <1>5. Put(Shifted(st, u), pieces[1]) = Shifted(one, u)
    BY <1>1, PutShifts
  <1> HIDE DEF one
  <1>6. CASE Len(pieces) = 1
    BY <1>4, <1>5, <1>6 DEF PutAll, one
  <1>7. CASE Len(pieces) # 1
    <2>1. pieces[2] \in Seq(Bytes)
      BY <1>7 DEF ArePieces
    <2>2. PutAll(st, pieces) = Put(one, pieces[2])
      BY <1>7 DEF PutAll, one
    <2>3. PutAll(Shifted(st, u), pieces) = Put(Shifted(one, u), pieces[2])
      BY <1>5, <1>7 DEF PutAll
    <2>4. Put(Shifted(one, u), pieces[2]) = Shifted(Put(one, pieces[2]), u)
      BY <1>2, <1>4, <2>1, PutShifts
    <2>5. Put(one, pieces[2]).used = one.used
      BY <1>2, <1>3
    <2> QED  BY <1>4, <2>2, <2>3, <2>4, <2>5
  <1> QED  BY <1>6, <1>7

\* The rest of a list of arguments.
LEMMA RestOfArguments ==
    ASSUME NEW V, NEW args \in Seq(V), NEW u \in 0 .. Len(args)
    PROVE  LET rest == SubSeq(args, u + 1, Len(args)) IN
           /\ rest \in Seq(V) /\ Len(rest) = Len(args) - u
           /\ \A k \in 1 .. Len(args) - u : rest[k] = args[u + k]
           /\ args = SubSeq(args, 1, u) \o rest
  <1> DEFINE n == Len(args)
             rest == SubSeq(args, u + 1, n)
             begun == SubSeq(args, 1, u)
  <1>1. n \in Nat /\ args \in [1 .. n -> V] /\ u \in Nat /\ u <= n
    BY SeqIsFunction
  <1>2. /\ rest \in Seq(V) /\ Len(rest) = n - u
        /\ \A k \in 1 .. n - u : rest[k] = args[u + k]
    <2> DEFINE from == u + 1
    <2>1. from \in Int /\ n \in Int /\ \A k \in from .. n : args[k] \in V
      BY <1>1
    <2> HIDE DEF n
    <2>2. n - from + 1 = n - u /\ \A k \in 1 .. n - u : from + k - 1 = u + k
      <3>1. n - from + 1 = n - u
        BY <1>1
      <3>2. \A k \in Int : from + k - 1 = u + k
        BY <1>1
      <3> QED  BY <3>1, <3>2
    <2>3. from <= n \/ n - u = 0
      BY <1>1
    <2> HIDE DEF from
    <2>4. /\ SubSeq(args, from, n) \in Seq(V)
          /\ Len(SubSeq(args, from, n)) = IF from <= n THEN n - from + 1 ELSE 0
          /\ \A k \in 1 .. n - from + 1 : SubSeq(args, from, n)[k] = args[from + k - 1]
      BY <2>1, SubSeqProperties
    <2>5. SubSeq(args, from, n) = rest
      BY DEF from
    <2> HIDE DEF rest
    <2>6. \A k \in 1 .. n - u : rest[k] = args[u + k]
      BY <2>2, <2>4, <2>5
    <2>7. Len(rest) = n - u
      <3>1. ~(from <= n) => n - u = 0
        BY <2>3
      <3> QED  BY <2>2, <2>4, <2>5, <3>1
    <2> QED  BY <2>4, <2>5, <2>6, <2>7
  <1>3. \A k \in 1 .. n - u : rest[k] = args[u + k]
    BY <1>2
  <1>4. begun \in Seq(V) /\ Len(begun) = u /\ \A k \in 1 .. u : begun[k] = args[k]
    <2>1. 1 \in Int /\ u \in Int /\ \A k \in 1 .. u : args[k] \in V
      BY <1>1
    <2>2. /\ SubSeq(args, 1, u) \in Seq(V)
          /\ Len(SubSeq(args, 1, u)) = IF 1 <= u THEN u - 1 + 1 ELSE 0
          /\ \A k \in 1 .. u - 1 + 1 : SubSeq(args, 1, u)[k] = args[1 + k - 1]
      BY <2>1, SubSeqProperties
    <2> HIDE DEF n
    <2>3. u - 1 + 1 = u /\ \A k \in 1 .. u : 1 + k - 1 = k
      BY <1>1
    <2>4. Len(SubSeq(args, 1, u)) = u
      BY <1>1, <2>2
    <2> QED  BY <2>2, <2>3, <2>4
  <1>5. args = begun \o rest
    <2> HIDE DEF n, rest, begun
    <2>0. /\ begun \o rest \in Seq(V)
          /\ Len(begun \o rest) = Len(begun) + Len(rest)
          /\ \A k \in 1 .. Len(begun) + Len(rest) :
                (begun \o rest)[k] = IF k <= Len(begun) THEN begun[k] ELSE rest[k - Len(begun)]
      BY <1>2, <1>4, ConcatProperties
    <2>1. Len(begun) + Len(rest) = n /\ Len(begun) = u
      BY <1>1, <1>2, <1>4
    <2>2. ASSUME NEW k \in 1 .. n  PROVE args[k] = (begun \o rest)[k]
      <3>1. CASE k <= u
        BY <1>1, <1>4, <2>0, <2>1, <3>1
      <3>2. CASE ~(k <= u)
        <4>1. k - u \in 1 .. n - u /\ u + (k - u) = k
          BY <1>1, <3>2
        <4>2. (begun \o rest)[k] = rest[k - u]
          BY <2>0, <2>1, <3>2
        <4> QED  BY <1>3, <4>1, <4>2
      <3> QED  BY <3>1, <3>2
    <2>3. Len(args) = n
      BY DEF n
    <2> QED  BY <2>0, <2>1, <2>2, <2>3, SeqEqual
  <1> QED  BY <1>2, <1>3, <1>5 DEF n

\* What the loop does depends on the arguments that it has not used only.
LEMMA TurnShifts ==
    ASSUME NEW len \in Nat, NEW a \in PackStates(len), NEW o \in Options,
           NEW V, NEW args \in Seq(V), NEW u \in 0 .. Len(args),
           u <= a.used, a.used <= Len(args)
    PROVE  Turn(Shifted(a, u), o, SubSeq(args, u + 1, Len(args)))
              = Shifted(Turn(a, o, args), u)
  <1> DEFINE rest == SubSeq(args, u + 1, Len(args))
             s == Shifted(a, u)
             x == args[a.used + 1]
             refused == Len(args) = a.used \/ ~Packable(o, x)
             pieces == Pieces(a.h, o, x)
  <1>1. u \in Nat /\ Len(args) \in Nat /\ a.used \in Nat /\ a.h \in Headers
    BY DEF PackStates
  <1>2. /\ s \in PackStates(len) /\ s.mem = a.mem /\ s.i = a.i /\ s.h = a.h
        /\ s.end = a.end /\ s.used = a.used - u
    BY <1>1, ShiftedIsState
  <1>3. Len(rest) = Len(args) - u /\ \A k \in 1 .. Len(args) - u : rest[k] = args[u + k]
    BY RestOfArguments
  <1>4. CASE TakesArgument(o)
    <2>1. Len(rest) = s.used <=> Len(args) = a.used
      BY <1>1, <1>2, <1>3
    <2>2. Len(args) # a.used => rest[s.used + 1] = x
      <3> SUFFICES ASSUME Len(args) # a.used  PROVE rest[s.used + 1] = x
        OBVIOUS
      <3>1. s.used + 1 \in 1 .. Len(args) - u /\ u + (s.used + 1) = a.used + 1
        BY <1>1, <1>2
      <3> QED  BY <1>3, <3>1
    <2> HIDE DEF rest, s, x
    <2>3. refused <=> (Len(rest) = s.used \/ ~Packable(o, rest[s.used + 1]))
      BY <2>1, <2>2
    <2>4. CASE refused
      <3>1. Turn(a, o, args) = Ended(a, "error")
        BY <1>4, <2>4, TurnCases DEF x
      <3>2. Turn(s, o, rest) = Ended(s, "error")
        BY <1>4, <2>3, <2>4, TurnCases
      <3> QED  BY <3>1, <3>2 DEF Ended, Shifted, PackStates, s, rest
    <2>5. CASE ~refused
      <3>1. Turn(a, o, args) = PutAll(a, pieces)
        BY <1>4, <2>5, TurnCases DEF x
      <3>2. Turn(s, o, rest) = PutAll(s, pieces)
        <4>1. Turn(s, o, rest) = PutAll(s, Pieces(s.h, o, rest[s.used + 1]))
          BY <1>4, <2>3, <2>5, TurnCases
        <4>2. rest[s.used + 1] = x
          BY <2>2, <2>5
        <4> QED  BY <1>2, <4>1, <4>2
      <3>3. ArePieces(pieces)
        BY <1>1, <1>4, <2>5, PiecesAreBytes DEF x
      <3> HIDE DEF pieces
      <3> QED  BY <1>1, <3>1, <3>2, <3>3, PutAllShifts DEF s, rest
    <2> QED  BY <2>4, <2>5
  <1>5. CASE o.k = "pad"
    <2>1. CASE a.i < Len(a.mem)
      <3>1. Turn(a, o, args) = [a EXCEPT !.i = @ + 1]
        BY <1>5, <2>1, TurnCases
      <3>2. Turn(s, o, rest) = [s EXCEPT !.i = @ + 1]
        <4> HIDE DEF s, rest
        <4> QED  BY <1>2, <1>5, <2>1, TurnCases
      <3> QED  BY <3>1, <3>2 DEF Shifted, PackStates
    <2>2. CASE ~(a.i < Len(a.mem))
      <3>1. Turn(a, o, args) = Ended(a, "failed")
        BY <1>5, <2>2, TurnCases
      <3>2. Turn(s, o, rest) = Ended(s, "failed")
        <4> HIDE DEF s, rest
        <4> QED  BY <1>2, <1>5, <2>2, TurnCases
      <3> QED  BY <3>1, <3>2 DEF Ended, Shifted, PackStates
    <2> QED  BY <2>1, <2>2
  <1>6. CASE ~TakesArgument(o) /\ o.k # "pad"
    <2>1. Turn(a, o, args) = [a EXCEPT !.h = Configured(a.h, o)]
      BY <1>6, TurnCases
    <2>2. Turn(s, o, rest) = [s EXCEPT !.h = Configured(a.h, o)]
      <3> HIDE DEF s, rest
      <3> QED  BY <1>2, <1>6, TurnCases
    <2> QED  BY <2>1, <2>2 DEF Shifted, PackStates
  <1> QED  BY <1>4, <1>5, <1>6

\* An option that is packed uses an argument that is there, or none.
LEMMA OptionUses ==
    ASSUME NEW len \in Nat, NEW st \in PackStates(len), NEW o \in Options,
           NEW V, NEW args \in Seq(V), NEW null \in BOOLEAN,
           PackOption(st, o, args, null).end = "running", st.used <= Len(args)
    PROVE  LET new == PackOption(st, o, args, null) IN
           new.used >= st.used /\ new.used <= Len(args)
  <1> DEFINE a == Aligned(st, o)
             new == PackOption(st, o, args, null)
             turned == Turn(a, o, args)
             x == args[a.used + 1]
             refused == Len(args) = a.used \/ ~Packable(o, x)
  <1>1. /\ HasRoom(st, o, null) /\ turned.end = "running" /\ new = Counted(turned, o)
        /\ a \in PackStates(len) /\ a.end = "running"
    BY OptionRuns
  <1>2. a.used = st.used /\ st.used \in Nat /\ Len(args) \in Nat /\ a.h \in Headers
    <2>1. a.used = st.used
      BY <1>1, AlignedStays DEF HasRoom
    <2>2. st.used \in Nat
      BY DEF PackStates
    <2> HIDE DEF a
    <2>3. a.h \in Headers
      BY <1>1 DEF PackStates
    <2> QED  BY <2>1, <2>2, <2>3
  <1> HIDE DEF a, new
  <1>3. turned \in PackStates(len)
    BY <1>1, TurnStays DEF Stays
  <1>4. CASE TakesArgument(o)
    <2>1. ~refused
      <3> SUFFICES ASSUME refused  PROVE FALSE
        OBVIOUS
      <3>1. turned = Ended(a, "error")
        BY <1>4, TurnCases
      <3>2. turned.end = "error"
        <4> HIDE DEF turned
        <4> QED  BY <1>1, <3>1, EndedState
      <3> QED  BY <1>1, <3>2
    <2>2. ArePieces(Pieces(a.h, o, x))
      BY <1>2, <1>4, <2>1, PiecesAreBytes
    <2>3. turned = PutAll(a, Pieces(a.h, o, x))
      BY <1>4, <2>1, TurnCases
    <2>4. 0 \in Nat /\ 0 <= a.used
      BY <1>2
    <2>5. turned.used = a.used
      <3> HIDE DEF turned, x
      <3> QED  BY <1>1, <2>2, <2>3, <2>4, PutAllShifts
    <2> HIDE DEF turned
    <2>6. Counted(turned, o).used = st.used + 1
      BY <1>2, <1>3, <1>4, <2>5 DEF Counted, PackStates
    <2> QED  BY <1>1, <1>2, <2>1, <2>6 DEF new
  <1>5. CASE ~TakesArgument(o)
    <2>1. turned.used = a.used
      <3>1. CASE o.k = "pad"
        <4>1. turned = [a EXCEPT !.i = @ + 1] \/ turned = Ended(a, "failed")
          BY <3>1, TurnCases
        <4> HIDE DEF turned
        <4> QED  BY <1>1, <4>1 DEF Ended, PackStates
      <3>2. CASE o.k # "pad"
        <4>1. turned = [a EXCEPT !.h = Configured(a.h, o)]
          BY <1>5, <3>2, TurnCases
        <4> HIDE DEF turned
        <4> QED  BY <1>1, <4>1 DEF PackStates
      <3> QED  BY <3>1, <3>2
    <2>2. new = turned
      BY <1>1, <1>5 DEF Counted
    <2> HIDE DEF turned
    <2> QED  BY <1>2, <2>1, <2>2 DEF new
  <1> QED  BY <1>4, <1>5

\* A turn that goes on with all arguments goes on with those that are left.
LEMMA OptionShifts ==
    ASSUME NEW len \in Nat, NEW st \in PackStates(len), NEW o \in Options,
           NEW V, NEW args \in Seq(V), NEW u \in 0 .. Len(args), NEW null \in BOOLEAN,
           u <= st.used, st.used <= Len(args), PackOption(st, o, args, null).end = "running"
    PROVE  PackOption(Shifted(st, u), o, SubSeq(args, u + 1, Len(args)), null)
              = Shifted(PackOption(st, o, args, null), u)
  <1> DEFINE s == Shifted(st, u)
             rest == SubSeq(args, u + 1, Len(args))
             a == Aligned(st, o)
             turned == Turn(a, o, args)
  <1>1. /\ st.end = "running" /\ HasRoom(st, o, null)
        /\ turned.end = "running" /\ PackOption(st, o, args, null) = Counted(turned, o)
        /\ a \in PackStates(len) /\ a.end = "running"
    BY OptionRuns
  <1>2. u \in Nat
    OBVIOUS
  <1>3. /\ s \in PackStates(len) /\ s.i = st.i /\ s.h = st.h /\ s.end = "running"
        /\ s.mem = st.mem
    BY <1>1, <1>2, ShiftedIsState
  <1>4. HasRoom(s, o, null)
    <2> HIDE DEF s
    <2> QED  BY <1>1, <1>3 DEF HasRoom
  <1>5. Aligned(s, o) = Shifted(a, u)
    BY DEF Aligned, Shifted, PackStates
  <1>6. a.used = st.used
    BY <1>1, AlignedStays DEF HasRoom
  <1>7. Turn(Shifted(a, u), o, rest) = Shifted(turned, u)
    <2> HIDE DEF a
    <2> QED  BY <1>1, <1>6, TurnShifts
  <1>8. turned \in PackStates(len)
    BY <1>1, TurnStays DEF Stays
  <1>9. Shifted(turned, u).end = "running"
    <2> HIDE DEF turned
    <2> QED  BY <1>1, <1>8 DEF Shifted, PackStates
  <1> HIDE DEF s, a, rest, turned
  <1>10. PackOption(s, o, rest, null) = Counted(Shifted(turned, u), o)
    <2>1. PackOption(s, o, rest, null) =
             IF Turn(Aligned(s, o), o, rest).end # "running"
             THEN Turn(Aligned(s, o), o, rest)
             ELSE Counted(Turn(Aligned(s, o), o, rest), o)
      BY <1>3, <1>4, OptionTurns
    <2> QED  BY <1>5, <1>7, <1>9, <2>1
  <1>11. Counted(Shifted(turned, u), o) = Shifted(Counted(turned, o), u)
    <2>1. turned.used \in Nat
      BY <1>8 DEF PackStates
    <2>2. (turned.used - u) + 1 = (turned.used + 1) - u
      BY <1>2, <2>1
    <2> QED  BY <1>8, <2>2 DEF Counted, Shifted, PackStates
  <1> QED  BY <1>1, <1>10, <1>11 DEF s, rest

\* The arguments of mem_pack: integers and strings.
Values == Integer \cup Texts

\* Scripts pass lists of them.
LEMMA ArgumentsAreLists ==
    ASSUME NEW fmt \in Seq(Options), NEW args \in Arguments(fmt)
    PROVE  args \in Seq(Values)
  <1> DEFINE n == Len(fmt)
             M == SUBSET Seq(Values)
             none == {<<>>}
             F == [c \in 1 .. n |-> [s \in M |-> WithArgument(s, fmt[c])]]
             Turns(f) == f = [c \in 0 .. n |->
                                IF c = 0 THEN none ELSE WithArgument(f[c - 1], fmt[c])]
             lists == CHOOSE f : Turns(f)
  <1>0. n \in Nat
    OBVIOUS
  <1>1. args \in lists[n] \cup {Front(a) : a \in lists[n] \ {<<>>}}
    BY DEF Arguments
  <1> HIDE DEF n
  <1>2. none \in M
    BY EmptySeq
  <1> HIDE DEF none
  <1>3. ASSUME NEW c \in 1 .. n, NEW s \in M  PROVE WithArgument(s, fmt[c]) \in M
    <2> DEFINE X == IF fmt[c].k \in {"int", "uint"} THEN Integer ELSE Texts
    <2>1. ASSUME NEW a \in s, NEW x \in X  PROVE Append(a, x) \in Seq(Values)
      <3>1. a \in Seq(Values) /\ x \in Values
        BY DEF Values
      <3> HIDE DEF X
      <3> QED  BY <3>1
    <2>2. CASE TakesArgument(fmt[c])
      <3>1. WithArgument(s, fmt[c]) = {Append(a, x) : a \in s, x \in X}
        BY <2>2 DEF WithArgument
      <3> HIDE DEF X
      <3> QED  BY <2>1, <3>1
    <2>3. CASE ~TakesArgument(fmt[c])
      BY <2>3 DEF WithArgument
    <2> QED  BY <2>2, <2>3
  <1> HIDE DEF M
  <1>4. F \in [1 .. n -> [M -> M]]
    BY <1>3
  <1>5. PICK g \in [0 .. n -> M] : Computes(g, n, none, F)
    <2> HIDE DEF F
    <2> QED  BY <1>0, <1>2, <1>4, Recursion
  <1>6. Turns(g)
    <2>1. \A c \in 1 .. n : g[c - 1] \in M
      BY <1>0
    <2>2. \A c \in 1 .. n : F[c][g[c - 1]] = WithArgument(g[c - 1], fmt[c])
      BY <2>1
    <2> HIDE DEF F
    <2>3. \A c \in 0 .. n : g[c] = IF c = 0 THEN none ELSE WithArgument(g[c - 1], fmt[c])
      BY <1>0, <1>5, <2>2 DEF Computes
    <2> DEFINE k == [c \in 0 .. n |-> IF c = 0 THEN none ELSE WithArgument(g[c - 1], fmt[c])]
    <2>4. g = k
      BY <2>3
    <2> QED  BY <2>4
  <1>7. Turns(lists)
    <2> HIDE DEF Turns
    <2> QED  BY <1>6
  <1> HIDE DEF lists
  <1>8. lists[0] = none /\ \A c \in 1 .. n : lists[c] = WithArgument(lists[c - 1], fmt[c])
    BY <1>0, <1>7
  <1>9. lists[n] \in M
    <2> DEFINE S == {c \in 0 .. n : lists[c] \in M}
    <2>1. 0 \in S
      BY <1>0, <1>2, <1>8
    <2>2. ASSUME NEW c \in 1 .. n, c - 1 \in S  PROVE c \in S
      BY <1>0, <1>3, <1>8, <2>2
    <2> HIDE DEF S
    <2>3. \A c \in 0 .. n : c \in S
      BY <1>0, <2>1, <2>2, Induction
    <2>4. n \in S
      BY <1>0, <2>3
    <2> QED  BY <2>4 DEF S
  <1>10. ASSUME NEW a \in lists[n], a # <<>>  PROVE Front(a) \in Seq(Values)
    <2>1. a \in Seq(Values)
      BY <1>9 DEF M
    <2>2. Len(a) \in Nat /\ \A k \in 1 .. Len(a) - 1 : a[k] \in Values
      BY <2>1
    <2> QED  BY <2>2, SubSeqProperties DEF Front
  <1> QED  BY <1>1, <1>9, <1>10 DEF M

-----------------------------------------------------------------------------
\* Runs of mem_pack's loop.

\* Once the loop has ended, nothing changes.
LEMMA EndedRun ==
    ASSUME NEW len \in Nat, NEW mem, NEW null \in BOOLEAN, NEW h,
           NEW fmt \in Seq(Options), NEW i, NEW args,
           NEW f \in [0 .. Len(fmt) -> PackStates(len)],
           Runs(f, mem, null, h, fmt, i, args),
           NEW m \in 0 .. Len(fmt), f[m].end # "running"
    PROVE  f[Len(fmt)] = f[m]
  <1> DEFINE n == Len(fmt)
             S == {c \in 0 .. n : c >= m => f[c] = f[m]}
  <1>0. n \in Nat /\ m \in Nat /\ m <= n /\ \A c \in 1 .. n : fmt[c] \in Options
    BY SeqIsFunction
  <1> HIDE DEF n
  <1>1. 0 \in S
    BY <1>0
  <1>2. ASSUME NEW c \in 1 .. n, c - 1 \in S  PROVE c \in S
    <2>1. CASE c > m
      <3>1. f[c - 1] = f[m]
        BY <1>0, <1>2, <2>1
      <3>2. f[c] = PackOption(f[c - 1], fmt[c], args, null)
        BY DEF Runs, n
      <3>3. f[m] \in PackStates(len)
        BY <1>0 DEF n
      <3>4. PackOption(f[m], fmt[c], args, null) = f[m]
        BY <1>0, <3>3, OptionTurns
      <3> QED  BY <1>0, <3>1, <3>2, <3>4
    <2>2. CASE ~(c > m)
      BY <1>0, <2>2
    <2> QED  BY <2>1, <2>2
  <1>3. n \in S
    <2> HIDE DEF S
    <2>1. \A c \in 0 .. n : c \in S
      BY <1>0, <1>1, <1>2, Induction
    <2> QED  BY <1>0, <2>1
  <1> QED  BY <1>0, <1>3 DEF n

\* A run ends where its first failing option leaves it, or runs to the end.
LEMMA FirstFailure ==
    ASSUME NEW len \in Nat, NEW mem, NEW null \in BOOLEAN, NEW h,
           NEW fmt \in Seq(Options), NEW i, NEW args,
           NEW f \in [0 .. Len(fmt) -> PackStates(len)],
           Runs(f, mem, null, h, fmt, i, args), f[Len(fmt)].end # "running"
    PROVE  \E d \in 0 .. Len(fmt) - 1 :
              /\ \A c \in 0 .. d : f[c].end = "running"
              /\ f[d + 1] = f[Len(fmt)]
  <1> DEFINE n == Len(fmt)
             T == {c \in 0 .. n : f[c].end # "running"}
  <1>0. n \in Nat
    OBVIOUS
  <1> HIDE DEF n
  <1>1. T \in SUBSET Nat /\ n \in T
    BY <1>0 DEF n
  <1>2. PICK m \in T : \A c \in T : m <= c
    <2> HIDE DEF T
    <2> QED  BY <1>1, Least
  <1>3. m # 0
    BY <1>2 DEF Runs
  <1>4. m - 1 \in 0 .. n - 1 /\ m - 1 + 1 = m /\ m \in 0 .. n
    BY <1>0, <1>2, <1>3
  <1>5. ASSUME NEW c \in 0 .. m - 1  PROVE f[c].end = "running"
    <2>1. c \in 0 .. n /\ ~(m <= c)
      BY <1>0, <1>2
    <2> QED  BY <1>2, <2>1
  <1>6. f[m] = f[n]
    <2>1. f[m].end # "running" /\ m \in 0 .. n
      BY <1>2
    <2> QED  BY <2>1, EndedRun DEF n
  <1> QED  BY <1>4, <1>5, <1>6 DEF n

\* What a run does with the first options of a format.
LEMMA PrefixRuns ==
    ASSUME NEW len \in Nat, NEW mem \in [1 .. len -> Bytes], NEW null \in BOOLEAN,
           NEW h \in Headers, NEW fmt \in Seq(Options), NEW i \in Nat, NEW args,
           NEW f \in [0 .. Len(fmt) -> PackStates(len)],
           Runs(f, mem, null, h, fmt, i, args), NEW d \in 0 .. Len(fmt)
    PROVE  Packed(mem, null, h, SubSeq(fmt, 1, d), i, args) = f[d]
  <1> DEFINE begun == SubSeq(fmt, 1, d)
             S == {c \in 0 .. d : \E g \in [0 .. d -> PackStates(len)] :
                     Runs(g, mem, null, h, begun, i, args) /\ g[c] = f[c]}
  <1>0. Len(fmt) \in Nat /\ d \in Nat /\ d <= Len(fmt)
    OBVIOUS
  <1>1. begun \in Seq(Options) /\ Len(begun) = d /\ \A c \in 1 .. d : begun[c] = fmt[c]
    <2>1. 1 \in Int /\ d \in Int /\ \A c \in 1 .. d : fmt[c] \in Options
      BY <1>0, SeqIsFunction
    <2>2. /\ SubSeq(fmt, 1, d) \in Seq(Options)
          /\ Len(SubSeq(fmt, 1, d)) = IF 1 <= d THEN d - 1 + 1 ELSE 0
          /\ \A c \in 1 .. d - 1 + 1 : SubSeq(fmt, 1, d)[c] = fmt[1 + c - 1]
      BY <2>1, SubSeqProperties
    <2>3. d - 1 + 1 = d /\ \A c \in 1 .. d : 1 + c - 1 = c
      BY <1>0
    <2>4. Len(SubSeq(fmt, 1, d)) = d
      BY <1>0, <2>2
    <2> QED  BY <2>2, <2>3, <2>4
  <1> HIDE DEF begun
  <1>2. PICK g \in [0 .. d -> PackStates(len)] : Runs(g, mem, null, h, begun, i, args)
    BY <1>1, PackRuns
  <1>3. \A c \in 0 .. d : g[c] = f[c]
    <2> DEFINE T == {c \in 0 .. d : g[c] = f[c]}
    <2>1. 0 \in T
      BY <1>0, <1>2 DEF Runs
    <2>2. ASSUME NEW c \in 1 .. d, c - 1 \in T  PROVE c \in T
      <3>1. c \in 1 .. Len(fmt) /\ c \in 1 .. Len(begun)
        BY <1>0, <1>1
      <3>2. /\ f[c] = PackOption(f[c - 1], fmt[c], args, null)
            /\ g[c] = PackOption(g[c - 1], begun[c], args, null)
        BY <1>2, <3>1 DEF Runs
      <3> QED  BY <1>0, <1>1, <2>2, <3>2
    <2> HIDE DEF T
    <2>3. \A c \in 0 .. d : c \in T
      BY <1>0, <2>1, <2>2, Induction
    <2> QED  BY <2>3 DEF T
  <1>4. Packed(mem, null, h, begun, i, args) = g[d]
    BY <1>1, <1>2 DEF Runs
  <1> QED  BY <1>0, <1>3, <1>4 DEF begun

\* A run that does not end early uses its arguments one after another.
LEMMA RunsOn ==
    ASSUME NEW len \in Nat, NEW mem, NEW null \in BOOLEAN, NEW h,
           NEW fmt \in Seq(Options), NEW i, NEW V, NEW args \in Seq(V),
           NEW g \in [0 .. Len(fmt) -> PackStates(len)],
           Runs(g, mem, null, h, fmt, i, args),
           NEW n \in 0 .. Len(fmt), \A c \in 0 .. n : g[c].end = "running"
    PROVE  /\ \A c \in 0 .. n : g[c].used <= Len(args)
           /\ \A c \in 1 .. n : g[c - 1].used <= g[c].used
  <1> DEFINE S == {c \in 0 .. n : g[c].used <= Len(args)}
  <1>0. /\ Len(fmt) \in Nat /\ Len(args) \in Nat /\ n \in Nat /\ n <= Len(fmt)
        /\ \A c \in 1 .. n : fmt[c] \in Options
    BY SeqIsFunction
  <1>1. 0 \in S
    BY <1>0 DEF Runs
  <1>2. ASSUME NEW c \in 1 .. n, c - 1 \in S
        PROVE  c \in S /\ g[c - 1].used <= g[c].used
    <2> DEFINE st == g[c - 1]
    <2>1. st \in PackStates(len) /\ st.used <= Len(args)
      BY <1>0, <1>2
    <2>2. g[c] = PackOption(st, fmt[c], args, null) /\ g[c].end = "running"
      BY <1>0 DEF Runs
    <2>3. g[c].used \in Nat /\ st.used \in Nat
      <3>1. g[c] \in PackStates(len) /\ g[c - 1] \in PackStates(len)
        BY <1>0
      <3> QED  BY <3>1 DEF PackStates
    <2> HIDE DEF st
    <2>4. g[c].used >= st.used /\ g[c].used <= Len(args)
      BY <1>0, <2>1, <2>2, OptionUses
    <2> QED  BY <1>0, <2>3, <2>4 DEF st
  <1>3. \A c \in 0 .. n : c \in S
    <2> HIDE DEF S
    <2> QED  BY <1>0, <1>1, <1>2, Induction
  <1>4. \A c \in 1 .. n : g[c - 1].used <= g[c].used
    BY <1>0, <1>2, <1>3
  <1> QED  BY <1>3, <1>4

\* f are the states of a pack that found no room, and g those of the pack in a
\* longer memory, which found room.
OutOfRoom(f, g, len, mem, ext, more, null, no, fmt, V, args, start) ==
    /\ mem \in [1 .. len -> Bytes] /\ more \in [1 .. ext -> Bytes]
    /\ null \in BOOLEAN /\ no \in BOOLEAN /\ ~no
    /\ args \in Seq(V) /\ start \in Nat
    /\ f \in [0 .. Len(fmt) -> PackStates(len)]
    /\ Runs(f, mem, null, Header, fmt, start, args) /\ f[Len(fmt)].end = "failed"
    /\ g \in [0 .. Len(fmt) -> PackStates(len + ext)]
    /\ Runs(g, mem \o more, no, Header, fmt, start, args)
    /\ g[Len(fmt)].end = "running"

\* As long as the options fit, a run in a longer memory is the same.
LEMMA LongerRuns ==
    ASSUME NEW len \in Nat, NEW mem, NEW ext \in Nat, NEW more, NEW null, NEW no,
           NEW fmt \in Seq(Options), NEW V, NEW args, NEW start, NEW f, NEW g,
           OutOfRoom(f, g, len, mem, ext, more, null, no, fmt, V, args, start),
           NEW d \in 0 .. Len(fmt), \A c \in 0 .. d : f[c].end = "running"
    PROVE  g[d] = Extended(f[d], more)
  <1> DEFINE S == {c \in 0 .. d : g[c] = Extended(f[c], more)}
  <1>1. /\ Len(fmt) \in Nat /\ d \in Nat /\ d <= Len(fmt)
        /\ \A c \in 1 .. d : fmt[c] \in Options
    BY SeqIsFunction
  <1>2. /\ f \in [0 .. Len(fmt) -> PackStates(len)]
        /\ Runs(f, mem, null, Header, fmt, start, args)
        /\ Runs(g, mem \o more, no, Header, fmt, start, args)
    BY DEF OutOfRoom
  <1>3. more \in [1 .. ext -> Bytes] /\ null \in BOOLEAN /\ no \in BOOLEAN /\ ~no
    BY DEF OutOfRoom
  <1>4. 0 \in S
    <2>1. f[0] = [mem |-> mem, i |-> start, h |-> Header, used |-> 0, end |-> "running"]
      BY <1>2 DEF Runs
    <2>2. g[0] = [mem |-> mem \o more, i |-> start, h |-> Header, used |-> 0, end |-> "running"]
      BY <1>2 DEF Runs
    <2>3. g[0] = Extended(f[0], more)
      <3> DEFINE long == mem \o more
      <3>1. f[0].mem \o more = long
        BY <2>1
      <3>2. Extended(f[0], more) = [f[0] EXCEPT !.mem = long]
        <4> HIDE DEF long
        <4> QED  BY <3>1 DEF Extended
      <3>3. g[0] = [mem |-> long, i |-> start, h |-> Header, used |-> 0, end |-> "running"]
        BY <2>2
      <3> HIDE DEF long, Extended
      <3> QED  BY <2>1, <3>2, <3>3
    <2> QED  BY <1>1, <2>3
  <1>5. ASSUME NEW c \in 1 .. d, c - 1 \in S  PROVE c \in S
    <2> DEFINE st == f[c - 1]
    <2>1. st \in PackStates(len) /\ g[c - 1] = Extended(st, more)
      BY <1>1, <1>5, <1>2
    <2>2. /\ f[c] = PackOption(st, fmt[c], args, null) /\ f[c].end = "running"
          /\ g[c] = PackOption(g[c - 1], fmt[c], args, no)
      BY <1>1, <1>2 DEF Runs
    <2> HIDE DEF st
    <2>3. PackOption(Extended(st, more), fmt[c], args, no)
             = Extended(PackOption(st, fmt[c], args, null), more)
      BY <1>1, <1>3, <2>1, <2>2, OptionExtends
    <2> QED  BY <1>1, <2>1, <2>2, <2>3
  <1> HIDE DEF S
  <1>6. \A c \in 0 .. d : c \in S
    BY <1>1, <1>4, <1>5, Induction
  <1>7. d \in S
    BY <1>1, <1>6
  <1> QED  BY <1>7 DEF S

\* From the state after d options, or after the alignment of the next one, the
\* rest of the format does with the rest of the arguments what is left to do.
LEMMA RestRuns ==
    ASSUME NEW len \in Nat, NEW mem, NEW no \in BOOLEAN,
           NEW h, NEW fmt \in Seq(Options), NEW i,
           NEW V, NEW args \in Seq(V),
           NEW g \in [0 .. Len(fmt) -> PackStates(len)],
           Runs(g, mem, no, h, fmt, i, args), g[Len(fmt)].end = "running",
           NEW d \in 0 .. Len(fmt) - 1, NEW a \in PackStates(len),
           \/ a = g[d]
           \/ ToAlign(g[d].h, fmt[d + 1], g[d].i) >= 0 /\ a = Aligned(g[d], fmt[d + 1])
    PROVE  LET u == g[d].used IN
           Packed(a.mem, no, g[d].h, SubSeq(fmt, d + 1, Len(fmt)), a.i,
                  SubSeq(args, u + 1, Len(args))) = Shifted(g[Len(fmt)], u)
  <1> DEFINE n == Len(fmt)
             u == g[d].used
             left == SubSeq(fmt, d + 1, Len(fmt))
             rest == SubSeq(args, u + 1, Len(args))
             m == n - d
  <1>0. /\ n \in Nat /\ d \in Nat /\ d + 1 \in 1 .. n /\ m \in Nat /\ m >= 1 /\ d + m = n
        /\ \A c \in 1 .. n : fmt[c] \in Options
    BY SeqIsFunction
  <1>1. left \in Seq(Options) /\ Len(left) = m /\ \A c \in 1 .. m : left[c] = fmt[d + c]
    <2>1. d \in 0 .. Len(fmt)
      BY <1>0
    <2> QED  BY <2>1, RestOfArguments
  <1>2. ASSUME NEW c \in 0 .. n  PROVE g[c].end = "running"
    <2> SUFFICES ASSUME g[c].end # "running"  PROVE FALSE
      OBVIOUS
    <2>1. g[n] = g[c]
      BY EndedRun
    <2> QED  BY <2>1
  <1>3. /\ \A c \in 0 .. n : g[c].used <= Len(args)
        /\ \A c \in 1 .. n : g[c - 1].used <= g[c].used
    <2>1. n \in 0 .. Len(fmt)
      BY <1>0
    <2> QED  BY <1>2, <2>1, RunsOn
  <1>4. g[d] \in PackStates(len) /\ g[d].h \in Headers /\ u \in Nat /\ Len(args) \in Nat
    <2>1. g[d] \in PackStates(len)
      BY <1>0
    <2> QED  BY <2>1 DEF PackStates
  <1>5. u \in 0 .. Len(args)
    BY <1>0, <1>3, <1>4
  <1>6. a.h = g[d].h /\ a.used = u /\ a.end = "running"
    BY <1>0, <1>2, <1>4, AlignedStays
  <1>7. /\ g[d + 1] = PackOption(g[d], fmt[d + 1], args, no)
        /\ g[d + 1] = PackOption(a, fmt[d + 1], args, no)
    <2>1. g[d + 1] = PackOption(g[d], fmt[d + 1], args, no) /\ g[d + 1].end = "running"
      <3>1. d + 1 - 1 = d /\ d + 1 \in 0 .. n
        BY <1>0
      <3> QED  BY <1>0, <1>2, <3>1 DEF Runs
    <2>2. CASE a = g[d]
      BY <2>1, <2>2
    <2>3. CASE a = Aligned(g[d], fmt[d + 1])
      BY <1>0, <1>4, <2>1, <2>3, OptionAligns
    <2> QED  BY <2>1, <2>2, <2>3
  <1> HIDE DEF n, u, left, rest, m
  <1>8. a.mem \in [1 .. len -> Bytes] /\ a.i \in Nat
    BY DEF PackStates
  <1>9. PICK k \in [0 .. m -> PackStates(len)] :
           Runs(k, a.mem, no, g[d].h, left, a.i, rest)
    BY <1>1, <1>4, <1>8, PackRuns
  <1> DEFINE S == {c \in 0 .. m : c >= 1 => k[c] = Shifted(g[d + c], u)}
  <1>10. 0 \in S
    BY <1>0
  <1>11. ASSUME NEW c \in 1 .. m, c - 1 \in S  PROVE c \in S
    <2> DEFINE st == IF c = 1 THEN a ELSE g[d + (c - 1)]
               o == fmt[d + c]
    <2>1. /\ c \in Nat /\ d + c \in 1 .. n /\ d + (c - 1) \in 0 .. n /\ d + c - 1 = d + (c - 1)
          /\ o \in Options /\ d + c \in 0 .. n
      BY <1>0
    <2>2. k[c] = PackOption(k[c - 1], o, rest, no)
      BY <1>1, <1>9, <2>1 DEF Runs
    <2>3. /\ st \in PackStates(len) /\ u <= st.used /\ st.used <= Len(args)
          /\ g[d + c] = PackOption(st, o, args, no) /\ k[c - 1] = Shifted(st, u)
      <3>1. CASE c = 1
        <4>1. k[0] = [mem |-> a.mem, i |-> a.i, h |-> g[d].h, used |-> 0, end |-> "running"]
          BY <1>9 DEF Runs
        <4>2. k[0] = Shifted(a, u)
          <5>1. u <= a.used
            BY <1>4, <1>6
          <5>2. /\ Shifted(a, u) \in PackStates(len)
                /\ Shifted(a, u).mem = a.mem /\ Shifted(a, u).i = a.i
                /\ Shifted(a, u).h = a.h /\ Shifted(a, u).end = a.end
                /\ Shifted(a, u).used = a.used - u
            BY <1>4, <5>1, ShiftedIsState
          <5>3. a.used - u = 0
            BY <1>4, <1>6
          <5>4. \A r \in PackStates(len) :
                   r = [mem |-> r.mem, i |-> r.i, h |-> r.h, used |-> r.used, end |-> r.end]
            BY DEF PackStates
          <5> HIDE DEF Shifted
          <5> QED  BY <1>6, <4>1, <5>2, <5>3, <5>4
        <4>3. st = a /\ c - 1 = 0 /\ d + c = d + 1
          BY <3>1
        <4>4. u <= a.used /\ a.used <= Len(args)
          BY <1>4, <1>5, <1>6
        <4> QED  BY <1>7, <4>2, <4>3, <4>4
      <3>2. CASE c # 1
        <4> DEFINE T == {e \in 0 .. m : u <= g[d + e].used}
        <4>1. 0 \in T
          BY <1>0, <1>4 DEF u
        <4>2. ASSUME NEW e \in 1 .. m, e - 1 \in T  PROVE e \in T
          <5>1. /\ d + e \in 1 .. n /\ d + e - 1 = d + (e - 1)
                /\ d + (e - 1) \in 0 .. n /\ d + e \in 0 .. n
            BY <1>0
          <5>2. u <= g[d + (e - 1)].used /\ g[d + (e - 1)].used <= g[d + e].used
            BY <1>3, <4>2, <5>1
          <5>3. g[d + (e - 1)] \in PackStates(len) /\ g[d + e] \in PackStates(len)
            BY <5>1 DEF n
          <5>4. g[d + (e - 1)].used \in Nat /\ g[d + e].used \in Nat
            BY <5>3 DEF PackStates
          <5> DEFINE earlier == g[d + (e - 1)].used
                     later == g[d + e].used
          <5>5. /\ u <= earlier /\ earlier <= later /\ u \in Nat
                /\ earlier \in Nat /\ later \in Nat
            BY <1>4, <5>2, <5>4
          <5> HIDE DEF earlier, later
          <5>6. u <= later
            BY <5>5
          <5> QED  BY <5>6 DEF later
        <4> HIDE DEF T
        <4>3. \A e \in 0 .. m : e \in T
          BY <1>0, <4>1, <4>2, Induction
        <4>4. u <= g[d + (c - 1)].used
          <5>1. c - 1 \in 0 .. m
            BY <1>0
          <5> QED  BY <4>3, <5>1 DEF T
        <4>5. st = g[d + (c - 1)]
          BY <3>2
        <4>6. k[c - 1] = Shifted(g[d + (c - 1)], u)
          BY <1>0, <1>11, <3>2
        <4>7. g[d + c] = PackOption(g[d + c - 1], fmt[d + c], args, no)
          BY <2>1 DEF Runs, n
        <4>8. g[d + (c - 1)] \in PackStates(len)
          BY <2>1 DEF n
        <4> QED  BY <1>3, <2>1, <4>4, <4>5, <4>6, <4>7, <4>8
      <3> QED  BY <3>1, <3>2
    <2> HIDE DEF st, o
    <2>4. g[d + c].end = "running"
      BY <1>2, <2>1
    <2>5. PackOption(Shifted(st, u), o, rest, no) = Shifted(g[d + c], u)
      <3>1. PackOption(Shifted(st, u), o, SubSeq(args, u + 1, Len(args)), no)
               = Shifted(PackOption(st, o, args, no), u)
        BY <1>5, <2>1, <2>3, <2>4, OptionShifts
      <3> QED  BY <2>3, <3>1 DEF rest
    <2> QED  BY <2>2, <2>3, <2>5
  <1> HIDE DEF S
  <1>12. k[m] = Shifted(g[n], u)
    <2>1. \A c \in 0 .. m : c \in S
      BY <1>0, <1>10, <1>11, Induction
    <2>2. m \in 0 .. m
      BY <1>0
    <2>3. m >= 1 => k[m] = Shifted(g[d + m], u)
      BY <2>1, <2>2 DEF S
    <2> QED  BY <1>0, <2>3
  <1>13. Packed(a.mem, no, g[d].h, left, a.i, rest) = k[m]
    BY <1>1, <1>9 DEF Runs
  <1> QED  BY <1>12, <1>13 DEF left, rest, n, u

\* What PackResumes says of a pack that found no room: it left new, the position
\* next and the arguments rest; in long, what was memory and more, it would have
\* ended in whole. no is FALSE: a longer memory is not NULL.
Resumed(no, more, null, long, whole, new, fmt, args, start, next, rest) ==
    /\ null \/ whole.i > Len(new)
    /\ \E d \in 0 .. Len(fmt) - 1 :
         LET before == Packed(long, no, Header, SubSeq(fmt, 1, d), start, args)
             after == Packed(new \o more, no, before.h,
                             SubSeq(fmt, d + 1, Len(fmt)), next - 1, rest)
         IN  /\ args = SubSeq(args, 1, before.used) \o rest
             /\ \/ after.end = "running" /\ after.mem = whole.mem
                \/ fmt[d + 1].k \in {"string", "zstr"} /\ next > before.i + 1

\* It says so if the longer memory has room.
Resumable(no, more, null, mem, new, fmt, args, start, next, rest) ==
    LET whole == Packed(mem \o more, no, Header, fmt, start, args)
    IN  whole.end = "running" =>
        Resumed(no, more, null, mem \o more, whole, new, fmt, args, start, next, rest)

\* Each turn in the longer memory goes on from the one before.
LEMMA LongerStays ==
    ASSUME NEW len \in Nat, NEW mem, NEW ext \in Nat, NEW more, NEW null, NEW no,
           NEW fmt \in Seq(Options), NEW V, NEW args, NEW start, NEW f, NEW g,
           OutOfRoom(f, g, len, mem, ext, more, null, no, fmt, V, args, start),
           NEW c \in 1 .. Len(fmt)
    PROVE  Stays(len + ext, g[c - 1], g[c])
  <1> DEFINE total == len + ext
             st == g[c - 1]
             o == fmt[c]
  <1>1. total \in Nat /\ st \in PackStates(total) /\ o \in Options
    <2>1. g \in [0 .. Len(fmt) -> PackStates(total)]
      BY DEF OutOfRoom
    <2>2. c - 1 \in 0 .. Len(fmt) /\ fmt[c] \in Options
      BY SeqIsFunction
    <2> QED  BY <2>1, <2>2
  <1>2. g[c] = PackOption(st, o, args, no) /\ no \in BOOLEAN
    BY DEF OutOfRoom, Runs
  <1> HIDE DEF st, o, total
  <1>3. Stays(total, st, PackOption(st, o, args, no))
    BY <1>1, <1>2, OptionStays
  <1> QED  BY <1>2, <1>3 DEF st, o, total

\* A pack that finds no room has done what the longer one does first, and leaves
\* what the longer one does next.
LEMMA FailedRunResumes ==
    ASSUME NEW len \in Nat, NEW mem, NEW ext \in Nat, NEW more, NEW null, NEW no,
           NEW fmt \in Seq(Options), NEW V, NEW args, NEW start, NEW f, NEW g,
           OutOfRoom(f, g, len, mem, ext, more, null, no, fmt, V, args, start)
    PROVE  LET st == f[Len(fmt)] IN
           Resumed(no, more, null, mem \o more, g[Len(fmt)], st.mem, fmt, args,
                   start, st.i + 1, SubSeq(args, st.used + 1, Len(args)))
  <1> DEFINE n == Len(fmt)
             st == f[n]
             whole == g[n]
             long == mem \o more
             total == len + ext
             rest == SubSeq(args, st.used + 1, Len(args))
  <1>1. /\ n \in Nat /\ total \in Nat /\ \A c \in 1 .. n : fmt[c] \in Options
        /\ f \in [0 .. n -> PackStates(len)] /\ g \in [0 .. n -> PackStates(total)]
    BY DEF OutOfRoom
  <1>2. mem \in [1 .. len -> Bytes] /\ more \in [1 .. ext -> Bytes]
    BY DEF OutOfRoom
  <1>3. null \in BOOLEAN
    BY DEF OutOfRoom
  <1>4. no \in BOOLEAN /\ ~no
    BY DEF OutOfRoom
  <1>5. long \in [1 .. total -> Bytes] /\ no \in BOOLEAN /\ ~no /\ Header \in Headers
    BY <1>2, <1>4, Longer, HeaderIsHeader
  <1>6. Runs(f, mem, null, Header, fmt, start, args)
    BY DEF OutOfRoom
  <1>7. Runs(g, long, no, Header, fmt, start, args)
    BY DEF OutOfRoom
  <1>8. st = f[n] /\ whole = g[n] /\ f[n].end = "failed" /\ g[n].end = "running"
    BY DEF OutOfRoom
  <1>9. args \in Seq(V)
    BY DEF OutOfRoom
  <1>10. start \in Nat
    BY DEF OutOfRoom
  <1> HIDE DEF st, whole, long, total, rest
  <1>11. PICK d \in 0 .. n - 1 : /\ \A c \in 0 .. d : f[c].end = "running"
                                /\ f[d + 1] = f[n]
    <2>1. f \in [0 .. Len(fmt) -> PackStates(len)] /\ f[Len(fmt)].end # "running"
      BY <1>1, <1>8
    <2> QED  BY <1>3, <1>6, <2>1, FirstFailure
  <1> HIDE DEF n
  <1>12. /\ d \in 0 .. n /\ d + 1 \in 1 .. n /\ d + 1 \in 0 .. n /\ d + 1 - 1 = d /\ d \in 0 .. d
        /\ fmt[d + 1] \in Options /\ d \in Nat
    BY <1>1
  <1> DEFINE o == fmt[d + 1]
             s == f[d]
             t == g[d]
             u == s.used
             before == Packed(long, no, Header, SubSeq(fmt, 1, d), start, args)
             after == Packed(st.mem \o more, no, t.h,
                             SubSeq(fmt, d + 1, n), st.i, rest)
  <1> HIDE DEF n, before, after
  <1>13. t = Extended(s, more)
    <2>1. d \in 0 .. Len(fmt) /\ \A c \in 0 .. d : f[c].end = "running"
      BY <1>11, <1>12 DEF n
    <2> QED  BY <2>1, LongerRuns
  <1>14. s \in PackStates(len) /\ t \in PackStates(total) /\ s.end = "running"
    BY <1>1, <1>11, <1>12
  <1>15. /\ st = PackOption(s, o, args, null)
         /\ g[d + 1] = PackOption(t, o, args, no) /\ o \in Options
    <2>1. /\ f[d + 1] = PackOption(s, o, args, null)
          /\ g[d + 1] = PackOption(t, o, args, no) /\ o \in Options
      BY <1>6, <1>7, <1>12 DEF Runs, n
    <2> QED  BY <1>8, <1>11, <2>1
  <1>16. before = t
    <2>1. g \in [0 .. Len(fmt) -> PackStates(total)] /\ d \in 0 .. Len(fmt)
      BY <1>1, <1>12 DEF n
    <2> QED  BY <1>1, <1>5, <1>7, <1>10, <2>1, PrefixRuns DEF before
  <1> HIDE DEF o, s, t, u
  <1>17. /\ t.mem = s.mem \o more /\ t.i = s.i /\ t.h = s.h /\ t.used = u
         /\ t.end = "running"
    BY <1>2, <1>13, <1>14, ExtendedIsState DEF u
  <1>18. /\ st.used = u
         /\ \/ st.mem = s.mem /\ st.i = s.i
            \/ /\ ToAlign(s.h, o, s.i) >= 0
               /\ st.mem = s.mem /\ st.i = Aligned(s, o).i
            \/ o.k \in {"string", "zstr"} /\ st.i > s.i
         /\ ~null /\ g[d + 1].end = "running" => g[d + 1].i > len
    <2> DEFINE new == PackOption(s, o, args, null)
               next == PackOption(Extended(s, more), o, args, no)
    <2>1. new.end = "failed" /\ new = st /\ next = g[d + 1]
      BY <1>8, <1>13, <1>15
    <2>2. /\ new.used = s.used
          /\ \/ new.mem = s.mem /\ new.i = s.i
             \/ /\ ToAlign(s.h, o, s.i) >= 0
                /\ new.mem = s.mem /\ new.i = Aligned(s, o).i
             \/ o.k \in {"string", "zstr"} /\ new.i > s.i
          /\ ~null /\ next.end = "running" => next.i > len
      BY <1>2, <1>3, <1>4, <1>14, <1>15, <2>1, OptionFails
    <2> HIDE DEF new, next
    <2> QED  BY <2>1, <2>2 DEF u
  <1>19. \A c \in 0 .. n : g[c].end = "running"
    <2> SUFFICES ASSUME NEW c \in 0 .. n, g[c].end # "running"  PROVE FALSE
      OBVIOUS
    <2>1. g[n] = g[c]
      BY <1>1, <1>4, <1>7, EndedRun DEF n
    <2> QED  BY <1>8, <2>1
  <1>20. u <= Len(args) /\ u \in Nat /\ u \in 0 .. Len(args)
    <2>1. n \in 0 .. Len(fmt)
      BY <1>1, <1>6, <1>7 DEF n
    <2>2. t.used <= Len(args)
      <3>1. \A c \in 0 .. n : g[c].used <= Len(args)
        BY <1>1, <1>7, <1>19, <1>9, <1>4, <2>1, RunsOn DEF n
      <3> QED  BY <1>12, <3>1 DEF t
    <2>3. u \in Nat /\ Len(args) \in Nat
      BY <1>14 DEF PackStates, u
    <2> QED  BY <1>17, <2>2, <2>3
  <1>21. args = SubSeq(args, 1, u) \o rest
    BY <1>18, <1>20, <1>9, RestOfArguments DEF rest
  <1>22. ASSUME ~null  PROVE whole.i > Len(st.mem)
    <2>1. g[d + 1].i > len
      BY <1>12, <1>18, <1>19, <1>22
    <2>2. Len(st.mem) = len
      <3>1. st \in PackStates(len)
        BY <1>1, <1>6, <1>7, <1>8
      <3>2. st.mem \in [1 .. len -> Bytes]
        BY <3>1 DEF PackStates
      <3> QED  BY <1>1, <1>6, <1>7, <3>2, FunctionIsSeq
    <2>3. g[n].i >= g[d + 1].i
      <3> DEFINE S == {c \in 0 .. n : c >= d + 1 => Stays(total, g[d + 1], g[c])}
      <3>1. 0 \in S
        BY <1>1, <1>6, <1>7, <1>12
      <3>2. ASSUME NEW c \in 1 .. n, c - 1 \in S  PROVE c \in S
        <4>1. CASE c = d + 1
          <5>1. g[c] \in PackStates(total)
            BY <1>1, <1>6, <1>7
          <5> QED  BY <1>1, <1>6, <1>7, <1>5, <4>1, <5>1, StutterStays
        <4>2. CASE c > d + 1
          <5>1. Stays(total, g[d + 1], g[c - 1]) /\ g[d + 1] \in PackStates(total)
            BY <1>1, <1>6, <1>7, <1>12, <3>2, <4>2
          <5>3. Stays(total, g[c - 1], g[c])
            <6>1. c \in 1 .. Len(fmt)
              BY DEF n
            <6> QED  BY <6>1, LongerStays DEF total
          <5>4. Stays(total, g[d + 1], g[c])
            BY <1>1, <5>1, <5>3, StaysTransitive
          <5> QED  BY <1>1, <1>6, <1>7, <5>4
        <4>3. CASE c < d + 1
          BY <1>1, <1>6, <1>7, <1>12, <4>3
        <4> QED  BY <1>12, <4>1, <4>2, <4>3
      <3> HIDE DEF S
      <3>3. \A c \in 0 .. n : c \in S
        BY <1>1, <1>6, <1>7, <3>1, <3>2, Induction
      <3>4. n \in S /\ n >= d + 1
        BY <1>1, <1>6, <1>7, <1>12, <3>3
      <3> QED  BY <3>4 DEF S, Stays, Onwards
    <2>4. g[n].i \in Nat /\ g[d + 1].i \in Nat
      <3>1. g[n] \in PackStates(total) /\ g[d + 1] \in PackStates(total)
        BY <1>1, <1>6, <1>7, <1>12
      <3> QED  BY <3>1 DEF PackStates
    <2> QED  BY <1>1, <1>6, <1>7, <1>8, <2>1, <2>2, <2>3, <2>4
  <1>23. ASSUME NEW a \in PackStates(total),
                \/ a = t
                \/ ToAlign(t.h, o, t.i) >= 0 /\ a = Aligned(t, o),
                st.mem \o more = a.mem, st.i = a.i
         PROVE  after.end = "running" /\ after.mem = whole.mem
    <2>1. Packed(a.mem, no, t.h, SubSeq(fmt, d + 1, Len(fmt)), a.i,
                 SubSeq(args, t.used + 1, Len(args))) = Shifted(g[Len(fmt)], t.used)
      <3>1. \/ a = g[d]
            \/ ToAlign(g[d].h, fmt[d + 1], g[d].i) >= 0 /\ a = Aligned(g[d], fmt[d + 1])
        BY <1>23 DEF o, t
      <3>2. g \in [0 .. Len(fmt) -> PackStates(total)] /\ d \in 0 .. Len(fmt) - 1
        BY <1>1 DEF n
      <3>3. g[Len(fmt)].end = "running"
        BY <1>8 DEF n
      <3>4. total \in Nat
        BY <1>1
      <3> QED  BY <1>7, <1>23, <1>9, <1>4, <3>1, <3>2, <3>3, <3>4, RestRuns DEF t
    <2>3. after = Shifted(g[n], u)
      BY <1>17, <1>18, <1>23, <2>1 DEF after, rest, n, u
    <2>4. g[n] \in PackStates(total)
      BY <1>1, <1>6, <1>7
    <2>5. Shifted(g[n], u).end = g[n].end /\ Shifted(g[n], u).mem = g[n].mem
      BY <2>4 DEF Shifted, PackStates
    <2> QED  BY <1>8, <2>3, <2>5
  <1>24. \/ after.end = "running" /\ after.mem = whole.mem
         \/ o.k \in {"string", "zstr"} /\ st.i + 1 > before.i + 1
    <2>1. CASE st.mem = s.mem /\ st.i = s.i
      <3>1. st.mem \o more = t.mem /\ st.i = t.i
        BY <1>17, <2>1
      <3> QED  BY <1>23, <1>14, <3>1
    <2>2. CASE /\ ToAlign(s.h, o, s.i) >= 0
               /\ st.mem = s.mem /\ st.i = Aligned(s, o).i
      <3> DEFINE a == Aligned(t, o)
      <3>1. /\ a \in PackStates(total) /\ a.mem = t.mem
            /\ a.i = t.i + ToAlign(t.h, o, t.i)
        BY <1>1, <1>14, <1>15, <1>17, <2>2, AlignedStays
      <3>2. Aligned(s, o).i = s.i + ToAlign(s.h, o, s.i)
        BY <1>14, <1>15, <2>2, AlignedStays
      <3>3. a.i = st.i /\ st.mem \o more = a.mem /\ ToAlign(t.h, o, t.i) >= 0
        BY <1>17, <2>2, <3>1, <3>2
      <3> QED  BY <1>23, <3>1, <3>3
    <2>3. CASE o.k \in {"string", "zstr"} /\ st.i > s.i
      <3>1. st \in PackStates(len)
        BY <1>1, <1>8
      <3>2. st.i \in Nat /\ s.i \in Nat
        BY <1>14, <3>1 DEF PackStates
      <3> QED  BY <1>17, <1>16, <2>3, <3>2
    <2>4. \/ st.mem = s.mem /\ st.i = s.i
          \/ /\ ToAlign(s.h, o, s.i) >= 0
             /\ st.mem = s.mem /\ st.i = Aligned(s, o).i
          \/ o.k \in {"string", "zstr"} /\ st.i > s.i
      BY <1>18
    <2> QED  BY <2>1, <2>2, <2>3, <2>4
  <1>25. st.i \in Nat /\ st.i + 1 - 1 = st.i
    <2>1. st \in PackStates(len)
      BY <1>1, <1>8
    <2>2. st.i \in Nat
      BY <2>1 DEF PackStates
    <2> QED  BY <2>2
  <1>26. args = SubSeq(args, 1, before.used) \o rest
    BY <1>17, <1>21, <1>16
  <1> DEFINE next == st.i + 1
  <1>27. after = Packed(st.mem \o more, no, before.h,
                        SubSeq(fmt, d + 1, n), next - 1, rest)
    <2>1. after = Packed(st.mem \o more, no, t.h, SubSeq(fmt, d + 1, n), st.i, rest)
      BY DEF after
    <2>2. next - 1 = st.i
      BY <1>25
    <2> HIDE DEF next
    <2> QED  BY <1>16, <2>1, <2>2
  <1>28. o = fmt[d + 1] /\ d \in 0 .. n - 1
    BY DEF o
  <1>29. before = Packed(long, no, Header, SubSeq(fmt, 1, d), start, args)
    BY DEF before
  <1>30. \/ after.end = "running" /\ after.mem = whole.mem
         \/ o.k \in {"string", "zstr"} /\ next > before.i + 1
    BY <1>24
  <1> HIDE DEF before, after, next
  <1>31. Resumed(no, more, null, long, whole, st.mem, fmt, args, start, next, rest)
    BY <1>22, <1>26, <1>27, <1>28, <1>29, <1>30 DEF n, Resumed
  <1> QED  BY <1>31 DEF n, st, whole, long, rest, next

\* A pack that finds no room can be resumed.
LEMMA FailedPackResumes ==
    ASSUME NEW len \in Nat, NEW mem \in [1 .. len -> Bytes], NEW ext \in Nat,
           NEW more \in [1 .. ext -> Bytes], NEW null \in BOOLEAN,
           NEW no \in BOOLEAN, ~no, NEW fmt \in Seq(Options),
           NEW V, NEW args \in Seq(V), NEW start \in Nat, NEW st,
           st = Packed(mem, null, Header, fmt, start, args), st.end = "failed"
    PROVE  Resumable(no, more, null, mem, st.mem, fmt, args, start, st.i + 1,
                     SubSeq(args, st.used + 1, Len(args)))
  <1> DEFINE long == mem \o more
             whole == Packed(long, no, Header, fmt, start, args)
             rest == SubSeq(args, st.used + 1, Len(args))
  <1>1. Len(fmt) \in 0 .. Len(fmt)
    BY SeqIsFunction
  <1>2. ASSUME whole.end = "running"
        PROVE  Resumed(no, more, null, long, whole, st.mem, fmt, args, start,
                       st.i + 1, rest)
    <2>1. Header \in Headers
      BY HeaderIsHeader
    <2>2. long \in [1 .. len + ext -> Bytes] /\ len + ext \in Nat
      BY Longer
    <2>3. PICK f \in [0 .. Len(fmt) -> PackStates(len)] :
             Runs(f, mem, null, Header, fmt, start, args)
      BY <2>1, PackRuns
    <2>4. PICK g \in [0 .. Len(fmt) -> PackStates(len + ext)] :
             Runs(g, long, no, Header, fmt, start, args)
      <3> HIDE DEF long
      <3> QED  BY <2>1, <2>2, PackRuns
    <2>5. st = f[Len(fmt)] /\ whole = g[Len(fmt)]
      BY <2>3, <2>4 DEF Runs
    <2>6. OutOfRoom(f, g, len, mem, ext, more, null, no, fmt, V, args, start)
      <3>1. f[Len(fmt)].end = "failed" /\ g[Len(fmt)].end = "running"
        BY <1>2, <2>5
      <3> QED  BY <2>3, <2>4, <3>1 DEF OutOfRoom
    <2> HIDE DEF long, whole
    <2>7. Resumed(no, more, null, mem \o more, g[Len(fmt)], f[Len(fmt)].mem, fmt, args,
                  start, f[Len(fmt)].i + 1,
                  SubSeq(args, f[Len(fmt)].used + 1, Len(args)))
      BY <2>6, FailedRunResumes
    <2> QED  BY <2>5, <2>7 DEF long
  <1> QED  BY <1>2 DEF Resumable
-----------------------------------------------------------------------------
\* What PackResumes says of the last operation, if it was a failed pack.
LastResumable(no) ==
    Resumable(no, Zeros(4 * MaxLen), NullPointer, answer.before, bytes, answer.args[1],
              answer.args[3], First(answer.args[2], Len(bytes)) - 1,
              answer.value.next, answer.value.rest)

\* What has to be shown of a failed pack.
LEMMA ResumesSuffices ==
    ASSUME (Did("pack") /\ answer.value # Fault /\ ~answer.value.ok => LastResumable(FALSE))'
    PROVE  PackResumes'
  BY DEF PackResumes, LastResumable, Resumable, Resumed

\* mem_pack: what a failed pack returned is where it can be resumed.
LEMMA PackedResumes ==
    ASSUME TypeOK, NEW fmt \in Seq(Options), NEW pos \in Int, NEW V, NEW args \in Seq(V),
           Pack(fmt, pos, args)
    PROVE  PackResumes'
  <1> DEFINE start == PosRelat(pos, Size) - 1
             st == Packed(bytes, NullPointer, Header, fmt, start, args)
             rest == SubSeq(args, st.used + 1, Len(args))
             more == Zeros(4 * MaxLen)
  <1>1. /\ bytes \in Seq(Bytes) /\ Len(bytes') = Len(bytes) /\ bytes' \in Seq(Bytes)
        /\ answer'.op = "pack" /\ answer'.args = <<fmt, pos, args>>
        /\ answer'.before = bytes /\ kind' = kind
    BY PackWrites DEF TypeOK, Pack
  <1>2. start \in Nat /\ First(pos, Len(bytes)) - 1 = start
    <2>1. Size = Len(bytes) /\ Size \in Nat
      BY <1>1 DEF Size
    <2>2. PosRelat(pos, Size) \in Nat /\ PosRelat(pos, Size) >= 1
      BY <2>1, Clipped
    <2>3. First(pos, Len(bytes)) = PosRelat(pos, Size)
      BY <2>1, FirstIsStart
    <2> QED  BY <2>2, <2>3
  <1>3. NullPointer' = NullPointer /\ NullPointer \in BOOLEAN
    <2>1. bytes = <<>> <=> bytes' = <<>>
      BY <1>1
    <2> QED  BY <1>1, <2>1 DEF NullPointer
  <1>4. /\ answer'.value # Fault /\ ~answer'.value.ok =>
             /\ st.end = "failed" /\ bytes' = st.mem
             /\ answer'.value.next = st.i + 1 /\ answer'.value.rest = rest
    <2>1. st.end \in {"running", "failed", "error"}
      <3> HIDE DEF start
      <3>1. st \in PackStates(Len(bytes))
        BY <1>1, <1>2, <1>3, HeaderIsHeader, PackKeeps
      <3> HIDE DEF st
      <3> QED  BY <3>1 DEF PackStates
    <2> DEFINE value == IF st.end = "error" THEN Fault
                        ELSE [ok |-> st.end = "running", next |-> st.i + 1, rest |-> rest]
    <2>2. CASE PosRelat(pos, Size) > Size + 1
      <3>1. answer'.value = Fault
        BY <2>2 DEF Pack, Answers
      <3> QED  BY <3>1
    <2>3. CASE ~(PosRelat(pos, Size) > Size + 1)
      <3>1. bytes' = st.mem /\ Answers("pack", <<fmt, pos, args>>, value)
        BY <2>3 DEF Pack
      <3> HIDE DEF value
      <3>2. answer'.value = value
        BY <3>1 DEF Answers
      <3> HIDE DEF st, rest
      <3>3. CASE st.end = "error"
        BY <3>2, <3>3 DEF value
      <3>4. CASE st.end # "error"
        <4> DEFINE ok == st.end = "running"
        <4>1. answer'.value = [ok |-> ok, next |-> st.i + 1, rest |-> rest]
          BY <3>2, <3>4 DEF value
        <4>2. /\ answer'.value.ok = ok /\ answer'.value.next = st.i + 1
              /\ answer'.value.rest = rest
          <5> HIDE DEF ok
          <5> QED  BY <4>1
        <4> QED  BY <2>1, <3>1, <3>4, <4>2
      <3> QED  BY <3>3, <3>4
    <2> QED  BY <2>2, <2>3
  <1>5. ASSUME answer'.value # Fault, ~answer'.value.ok, NEW no \in BOOLEAN, ~no
        PROVE  LastResumable(no)'
    <2> DEFINE len == Len(bytes)
               ext == 4 * MaxLen
    <2>1. len \in Nat /\ bytes \in [1 .. len -> Bytes] /\ ext \in Nat
      BY <1>1, SeqIsFunction, WidthAssumption
    <2>2. more \in [1 .. ext -> Bytes]
      <3>1. \A n \in Nat : Zeros(n) \in [1 .. n -> Bytes]
        BY BaseAssumption DEF Zeros, Bytes
      <3> QED  BY <2>1, <3>1
    <2> HIDE DEF len, ext, more, start
    <2>3. Resumable(no, more, NullPointer, bytes, st.mem, fmt, args, start, st.i + 1, rest)
      <3>1. st.end = "failed"
        BY <1>4, <1>5
      <3> HIDE DEF st
      <3>2. st = Packed(bytes, NullPointer, Header, fmt, start, args)
        BY DEF st
      <3> QED  BY <1>2, <1>3, <1>5, <2>1, <2>2, <3>1, <3>2, FailedPackResumes DEF rest
    <2>4. /\ answer'.before = bytes /\ bytes' = st.mem /\ answer'.args[1] = fmt
          /\ answer'.args[3] = args /\ answer'.args[2] = pos /\ Len(bytes') = Len(bytes)
          /\ answer'.value.next = st.i + 1 /\ answer'.value.rest = rest
      BY <1>1, <1>4, <1>5
    <2> HIDE DEF st, rest
    <2>5. Resumable(no, more, NullPointer', answer'.before, bytes', answer'.args[1],
                    answer'.args[3], First(answer'.args[2], Len(bytes')) - 1,
                    answer'.value.next, answer'.value.rest)
      BY <1>2, <1>3, <2>3, <2>4
    <2> QED  BY <2>5 DEF LastResumable, more
  <1>6. (Did("pack") /\ answer.value # Fault /\ ~answer.value.ok => LastResumable(FALSE))'
    BY <1>5
  <1> QED  BY <1>6, ResumesSuffices

\* No operation has run.
LEMMA PackResumesInit == Init => PackResumes
  BY DEF Init, PackResumes, Did

\* A pack that fails for want of room can be resumed.
LEMMA PackResumesStep == TypeOK /\ PackResumes /\ [Next]_vars => PackResumes'
  <1> SUFFICES ASSUME TypeOK, PackResumes, [Next]_vars  PROVE PackResumes'
    OBVIOUS
  <1>1. CASE UNCHANGED vars
    BY <1>1 DEF vars, PackResumes, Did, NullPointer
  <1>2. CASE Return
    BY <1>2 DEF Return, PackResumes, Did
  <1>3. ASSUME answer'.op # "pack"  PROVE PackResumes'
    BY <1>3 DEF PackResumes, Did
  <1>4. CASE CreateResizable \/ Length \/ ViewToString \/ Close
    BY <1>3, <1>4 DEF CreateResizable, Length, ViewToString, Close, Answers
  <1>5. ASSUME NEW n, CreateZeros(n)  PROVE PackResumes'
    BY <1>3, <1>5 DEF CreateZeros, Answers
  <1>6. ASSUME NEW n, NEW s, Resize(n, s)  PROVE PackResumes'
    BY <1>3, <1>6 DEF Resize, Answers
  <1>7. ASSUME NEW s, Concat(s)  PROVE PackResumes'
    BY <1>3, <1>7 DEF Concat, Answers
  <1>8. ASSUME NEW s, Diff(s)  PROVE PackResumes'
    BY <1>3, <1>8 DEF Diff, Answers
  <1>9. ASSUME NEW k, NEW c, Lend(k, c)  PROVE PackResumes'
    BY <1>3, <1>9 DEF Lend, Answers
  <1>10. ASSUME NEW i, NEW j, Get(i, j) \/ MemToString(i, j)  PROVE PackResumes'
    BY <1>3, <1>10 DEF Get, MemToString, Answers
  <1>11. ASSUME NEW i, NEW j, NEW s, CreateCopy(s, i, j)  PROVE PackResumes'
    BY <1>3, <1>11 DEF CreateCopy, Answers
  <1>12. ASSUME NEW i, NEW j, NEW c, FillNumber(c, i, j)  PROVE PackResumes'
    BY <1>3, <1>12 DEF FillNumber, Answers
  <1>13. ASSUME NEW i, NEW j, NEW s, NEW o, Find(s, i, j, o)  PROVE PackResumes'
    BY <1>3, <1>13 DEF Find, Answers
  <1>14. ASSUME NEW i, NEW j, NEW s, NEW o, Fill(s, i, j, o)  PROVE PackResumes'
    BY <1>3, <1>14 DEF Fill, Answers
  <1>15. ASSUME NEW i, ViewGet(i)  PROVE PackResumes'
    BY <1>3, <1>15 DEF ViewGet, Answers
  <1>16. ASSUME NEW i, NEW c, ViewSet(i, c)  PROVE PackResumes'
    BY <1>3, <1>16 DEF ViewSet, Answers
  <1>17. ASSUME NEW i, NEW codes, Set(i, codes)  PROVE PackResumes'
    BY <1>3, <1>17 DEF Set, Answers
  <1>18. ASSUME NEW i, NEW fmt, Unpack(fmt, i)  PROVE PackResumes'
    BY <1>3, <1>18 DEF Unpack, Answers
  <1>19. ASSUME NEW i \in Positions, NEW fmt \in Formats, NEW args \in Arguments(fmt),
                Pack(fmt, i, args)
         PROVE  PackResumes'
    <2>1. fmt \in Seq(Options) /\ i \in Int
      BY FormatsAssumption, Numbers
    <2>2. args \in Seq(Values)
      BY <2>1, ArgumentsAreLists
    <2> QED  BY <1>19, <2>1, <2>2, PackedResumes
  <1> QED  BY <1>1, <1>2, <1>4, <1>5, <1>6, <1>7, <1>8, <1>9, <1>10, <1>11, <1>12,
              <1>13, <1>14, <1>15, <1>16, <1>17, <1>18, <1>19 DEF Next

\* mem_pack and packfailed, for every format, memory and start: a pack that runs
\* out of room has written what the options before the failing one write, has
\* skipped its alignment, and returns the position and the arguments from which
\* the rest of the format completes it in a longer memory; only a string is not
\* resumed when its length or its content had been written. It never fails in a
\* memory that has room, unless that is NULL.
THEOREM PacksResume == Spec => []PackResumes
  BY Typed, PackResumesInit, TypeStep, PackResumesStep, PTL DEF Spec
-----------------------------------------------------------------------------
\* The digits of a number.

\* A quotient and a remainder are what they have to be,
LEMMA Division ==
    ASSUME NEW q \in Int, NEW n \in Nat, n >= 1, NEW r \in 0 .. n - 1
    PROVE  (q * n + r) % n = r /\ (q * n + r) \div n = q
  <1> DEFINE a == q * n + r
             d == a \div n
             m == a % n
  <1>1. a \in Int
    OBVIOUS
  <1>2. a = n * d + m /\ m \in 0 .. n - 1 /\ d \in Int
    <2> HIDE DEF a
    <2> QED  BY <1>1
  <1>3. (q - d) * n = m - r
    BY <1>2
  <1> HIDE DEF a, d, m
  <1>4. q - d <= 0
    BY <1>2, <1>3
  <1>5. q - d >= 0
    BY <1>2, <1>3
  <1>6. d = q /\ m = r
    BY <1>2, <1>3, <1>4, <1>5
  <1> QED  BY <1>6 DEF a, d, m

\* and exist.
LEMMA Remains ==
    ASSUME NEW a \in Int, NEW n \in Nat, n >= 1
    PROVE  a = n * (a \div n) + (a % n) /\ a % n \in 0 .. n - 1 /\ a \div n \in Int
  OBVIOUS

\* The quotient of natural numbers is one.
LEMMA Divided ==
    ASSUME NEW a \in Nat, NEW n \in Nat, n >= 1
    PROVE  /\ a \div n \in Nat /\ a % n \in 0 .. n - 1
           /\ a = (a \div n) * n + (a % n)
  <1> DEFINE d == a \div n
             m == a % n
  <1>1. d \in Nat
    BY Quotient
  <1>2. a \in Int /\ a = n * d + m /\ m \in 0 .. n - 1
    BY Remains
  <1> HIDE DEF d, m
  <1>3. n * d = d * n /\ d * n \in Nat
    BY <1>1
  <1>4. a = d * n + m
    BY <1>2, <1>3
  <1> QED  BY <1>1, <1>2, <1>4 DEF d, m

\* Products of three numbers.
LEMMA Associates ==
    ASSUME NEW a \in Nat, NEW b \in Nat, NEW c \in Nat, NEW d \in Nat
    PROVE  (a * b + d) * c = a * (b * c) + d * c /\ d * c \in Nat
  <1>1. (a * b + d) * c = (a * b) * c + d * c
    OBVIOUS
  <1>2. (a * b) * c = a * (b * c)
    OBVIOUS
  <1>3. d * c \in Nat
    OBVIOUS
  <1> QED  BY <1>1, <1>2, <1>3

\* A number below b * p in two parts.
LEMMA TwoParts ==
    ASSUME NEW b \in Nat, NEW p \in Nat, NEW u \in 0 .. b - 1, NEW r \in 0 .. p - 1
    PROVE  u * p + r \in 0 .. b * p - 1 /\ b * p \in Nat
  <1>1. (u + 1) * p <= b * p /\ (u + 1) * p = u * p + p /\ u * p \in Nat /\ b * p \in Nat
    OBVIOUS
  <1> DEFINE x == u * p
             y == b * p
  <1>2. x + p <= y /\ x \in Nat /\ y \in Nat
    BY <1>1
  <1> HIDE DEF x, y
  <1>3. x + r \in 0 .. y - 1
    BY <1>2
  <1> QED  BY <1>2, <1>3 DEF x, y

\* Dividing twice is dividing by the product.
LEMMA DivideTwice ==
    ASSUME NEW a \in Nat, NEW p \in Nat, p >= 1, NEW b \in Nat, b >= 1
    PROVE  /\ (a \div p) \div b = a \div (b * p)
           /\ a % (b * p) = ((a \div p) % b) * p + (a % p)
  <1> DEFINE q == a \div p
             r == a % p
             t == q \div b
             u == q % b
             n == b * p
             v == u * p + r
  <1>1. q \in Nat /\ r \in 0 .. p - 1 /\ a = q * p + r
    BY Divided
  <1> HIDE DEF q, r
  <1>2. t \in Nat /\ u \in 0 .. b - 1 /\ q = t * b + u
    BY <1>1, Divided
  <1> HIDE DEF t, u
  <1>3. v \in 0 .. n - 1 /\ n \in Nat
    BY <1>1, <1>2, TwoParts
  <1>4. a = t * n + v
    <2>1. (t * b + u) * p = t * (b * p) + u * p /\ u * p \in Nat
      BY <1>2, Associates
    <2> DEFINE x == t * n
               y == u * p
    <2>2. q * p = x + y
      BY <1>2, <2>1
    <2>3. x \in Nat /\ y \in Nat /\ r \in Nat
      BY <1>1, <1>2, <1>3, Products
    <2> HIDE DEF x, y
    <2>4. a = x + (y + r)
      BY <1>1, <2>2, <2>3
    <2> QED  BY <2>4 DEF x, y
  <1>5. n >= 1
    BY <1>3
  <1> HIDE DEF n, v
  <1>6. a \div n = t /\ a % n = v
    BY <1>2, <1>3, <1>4, <1>5, Division
  <1>7. (a \div p) \div b = a \div (b * p)
    BY <1>6 DEF n, t, q
  <1>8. a % (b * p) = ((a \div p) % b) * p + (a % p)
    BY <1>6 DEF n, v, u, q, r
  <1> QED  BY <1>7, <1>8

\* What wraps around once.
LEMMA Wrapped ==
    ASSUME NEW x \in Int, NEW n \in Nat, n >= 1
    PROVE  /\ x % n \in 0 .. n - 1
           /\ x \in 0 .. n - 1 => x % n = x
           /\ x \in -n .. -1 => x % n = x + n
  <1>1. x % n \in 0 .. n - 1
    BY Remains
  <1>2. ASSUME x \in 0 .. n - 1  PROVE x % n = x
    <2>1. (0 * n + x) % n = x
      BY <1>2, Division
    <2>2. 0 * n + x = x
      BY <1>2
    <2> QED  BY <2>1, <2>2
  <1>3. ASSUME x \in -n .. -1  PROVE x % n = x + n
    <2> DEFINE r == x + n
    <2>1. r \in 0 .. n - 1 /\ (-1) * n + r = x /\ -1 \in Int
      BY <1>3
    <2> HIDE DEF r
    <2>2. ((-1) * n + r) % n = r
      BY <2>1, Division
    <2> QED  BY <2>1, <2>2 DEF r
  <1> QED  BY <1>1, <1>2, <1>3

\* v are the numbers that unpackint's loop goes through.
Adds(v, digits, n) ==
    /\ v[0] = 0 /\ \A d \in 1 .. n : v[d] = v[d - 1] * Base + digits[n - d + 1]
    /\ NumberOf(digits, n) = v[n]

\* The recursive function of unpackint's loop has a value.
LEMMA NumberAdds ==
    ASSUME NEW n \in Nat, NEW digits, \A d \in 1 .. n : digits[d] \in Bytes
    PROVE  \E v \in [0 .. n -> Nat] : Adds(v, digits, n)
  <1> DEFINE F == [c \in 1 .. n |-> [m \in Nat |-> m * Base + digits[n - c + 1]]]
             Turns(f) == f = [d \in 0 .. n |->
                IF d = 0 THEN 0 ELSE f[d - 1] * Base + digits[n - d + 1]]
             value == CHOOSE f : Turns(f)
  <1>0. n \in Nat /\ 0 \in Nat /\ Base \in Nat /\ Base > 1
    BY BaseAssumption
  <1>1. ASSUME NEW c \in 1 .. n, NEW m \in Nat
        PROVE  m * Base + digits[n - c + 1] \in Nat
    <2>1. n - c + 1 \in 1 .. n
      BY <1>0
    <2>2. digits[n - c + 1] \in Nat /\ m * Base \in Nat
      BY <1>0, <2>1, Products DEF Bytes
    <2> QED  BY <2>2
  <1>2. F \in [1 .. n -> [Nat -> Nat]]
    BY <1>1
  <1>3. PICK g \in [0 .. n -> Nat] : Computes(g, n, 0, F)
    <2> HIDE DEF F
    <2> QED  BY <1>0, <1>2, Recursion
  <1>4. Turns(g)
    <2>1. ASSUME NEW d \in 1 .. n  PROVE g[d] = g[d - 1] * Base + digits[n - d + 1]
      <3>1. d - 1 \in 0 .. n /\ g[d - 1] \in Nat
        BY <1>0
      <3>2. F[d][g[d - 1]] = g[d - 1] * Base + digits[n - d + 1]
        BY <3>1
      <3> QED  BY <1>3, <3>2 DEF Computes
    <2>2. g[0] = 0
      BY <1>3 DEF Computes
    <2> DEFINE k == [d \in 0 .. n |->
                IF d = 0 THEN 0 ELSE g[d - 1] * Base + digits[n - d + 1]]
    <2>3. ASSUME NEW d \in 0 .. n  PROVE g[d] = k[d]
      BY <1>0, <2>1, <2>2
    <2>4. k = [d \in 0 .. n |-> k[d]]
      OBVIOUS
    <2> HIDE DEF k
    <2>5. g = k
      BY <2>3, <2>4
    <2> QED  BY <2>5 DEF k
  <1>5. Turns(value)
    <2> HIDE DEF Turns
    <2> QED  BY <1>4
  <1>6. NumberOf(digits, n) = value[n]
    BY DEF NumberOf
  <1> HIDE DEF value
  <1>7. /\ value[0] = 0
        /\ \A d \in 1 .. n : value[d] = value[d - 1] * Base + digits[n - d + 1]
        /\ value = [d \in 0 .. n |-> value[d]]
    <2> DEFINE k == [d \in 0 .. n |->
                IF d = 0 THEN 0 ELSE value[d - 1] * Base + digits[n - d + 1]]
    <2>1. value = k
      BY <1>5
    <2>2. \A d \in 0 .. n :
             k[d] = IF d = 0 THEN 0 ELSE value[d - 1] * Base + digits[n - d + 1]
      OBVIOUS
    <2>3. k = [d \in 0 .. n |-> k[d]]
      OBVIOUS
    <2> HIDE DEF k
    <2>4. value = [d \in 0 .. n |-> value[d]]
      BY <2>1, <2>3
    <2>5. \A d \in 1 .. n : d \in 0 .. n /\ d # 0
      BY <1>0
    <2>6. 0 \in 0 .. n
      BY <1>0
    <2> QED  BY <2>1, <2>2, <2>4, <2>5, <2>6
  <1> DEFINE S == {d \in 0 .. n : value[d] \in Nat}
  <1>8. 0 \in S
    BY <1>0, <1>7
  <1>9. ASSUME NEW d \in 1 .. n, d - 1 \in S  PROVE d \in S
    <2>1. value[d - 1] \in Nat /\ d \in 0 .. n
      BY <1>9
    <2>2. value[d] \in Nat
      BY <1>1, <1>7, <2>1
    <2> QED  BY <2>1, <2>2
  <1> HIDE DEF S
  <1>10. \A d \in 0 .. n : d \in S
    BY <1>0, <1>8, <1>9, Induction
  <1>11. value \in [0 .. n -> Nat]
    BY <1>7, <1>10 DEF S
  <1> QED  BY <1>6, <1>7, <1>11 DEF Adds

\* The digits of a number make up that number, as far as they go,
LEMMA DigitsMakeNumber ==
    ASSUME NEW m \in Nat, NEW n \in 0 .. SzInt, NEW digits,
           \A d \in 1 .. n : digits[d] = (m \div Power[d - 1]) % Base
    PROVE  NumberOf(digits, n) = m % Power[n]
  <1>0. /\ SzInt \in Nat /\ Base \in Nat /\ Base >= 1 /\ n \in Nat
    BY BaseAssumption, WidthAssumption
  <1>1. ASSUME NEW d \in 0 .. n
        PROVE  Power[d] \in Nat /\ Power[d] >= 1
    BY <1>0, <1>1, Powers
  <1>2. \A d \in 1 .. n : Power[d] = Base * Power[d - 1]
    BY <1>0, Powers
  <1>3. ASSUME NEW d \in 0 .. n  PROVE m \div Power[d] \in Nat
    BY <1>1, Divided
  <1>4. \A d \in 1 .. n : digits[d] \in Bytes
    <2> TAKE d \in 1 .. n
    <2>1. m \div Power[d - 1] \in Nat
      BY <1>0, <1>3
    <2>2. (m \div Power[d - 1]) % Base \in 0 .. Base - 1
      BY <1>0, <2>1, Divided
    <2> QED  BY <2>2 DEF Bytes
  <1>5. PICK v \in [0 .. n -> Nat] : Adds(v, digits, n)
    BY <1>0, <1>4, NumberAdds
  <1> DEFINE S == {d \in 0 .. n : v[d] = (m \div Power[n - d]) % Power[d]}
  <1>6. 0 \in S
    <2>1. (m \div Power[n]) % 1 = 0
      <3>1. m \div Power[n] \in Nat
        BY <1>0, <1>3
      <3>2. (m \div Power[n]) % 1 \in 0 .. 1 - 1
        BY <3>1, Divided
      <3> QED  BY <3>2
    <2>2. Power[0] = 1 /\ v[0] = 0 /\ n - 0 = n /\ 0 \in 0 .. n
      BY <1>0, <1>5, Powers DEF Adds
    <2> QED  BY <2>1, <2>2
  <1>7. ASSUME NEW d \in 1 .. n, d - 1 \in S  PROVE d \in S
    <2> DEFINE p == Power[n - d]
               q == m \div p
               b == Power[d - 1]
    <2>1. /\ n - d \in 0 .. n /\ n - (d - 1) \in 1 .. n /\ n - (d - 1) - 1 = n - d
          /\ d - 1 \in 0 .. n /\ n - d + 1 \in 1 .. n /\ n - d + 1 - 1 = n - d
          /\ d \in 0 .. n
      BY <1>0
    <2>2. p \in Nat /\ p >= 1 /\ b \in Nat /\ b >= 1 /\ q \in Nat
      BY <1>1, <1>3, <2>1
    <2>3. Power[n - (d - 1)] = Base * p /\ Power[d] = Base * b
      BY <1>2, <2>1
    <2>4. digits[n - d + 1] = q % Base
      BY <2>1
    <2>5. v[d - 1] = (m \div (Base * p)) % b
      BY <1>7, <2>3
    <2>6. v[d] = v[d - 1] * Base + digits[n - d + 1]
      BY <1>5 DEF Adds
    <2>7. q \div Base = m \div (Base * p)
      <3> HIDE DEF p
      <3> QED  BY <1>0, <2>2, DivideTwice
    <2> HIDE DEF p, q, b
    <2>8. q % (b * Base) = ((q \div Base) % b) * Base + (q % Base)
      BY <1>0, <2>2, DivideTwice
    <2>9. b * Base = Base * b
      BY <1>0, <2>2
    <2>10. v[d] = q % Power[d]
      BY <2>3, <2>4, <2>5, <2>6, <2>7, <2>8, <2>9
    <2> QED  BY <2>1, <2>10 DEF q, p
  <1> HIDE DEF S
  <1>8. \A d \in 0 .. n : d \in S
    BY <1>0, <1>6, <1>7, Induction
  <1>9. v[n] = (m \div Power[n - n]) % Power[n]
    <2>1. n \in S
      BY <1>0, <1>8
    <2> QED  BY <2>1 DEF S
  <1>10. m \div Power[n - n] = m
    <2>1. Power[n - n] = 1
      BY <1>0, Powers
    <2>2. m \div 1 = m
      OBVIOUS
    <2> QED  BY <2>1, <2>2
  <1> QED  BY <1>5, <1>9, <1>10 DEF Adds

\* and the number that bytes make up has these digits.
LEMMA NumberHasDigits ==
    ASSUME NEW n \in 0 .. SzInt, NEW digits, \A d \in 1 .. n : digits[d] \in Bytes
    PROVE  /\ NumberOf(digits, n) \in 0 .. Power[n] - 1
           /\ \A d \in 1 .. n : digits[d] = (NumberOf(digits, n) \div Power[d - 1]) % Base
  <1>0. /\ SzInt \in Nat /\ Base \in Nat /\ Base >= 1 /\ n \in Nat
    BY BaseAssumption, WidthAssumption
  <1>1. ASSUME NEW d \in 0 .. n
        PROVE  Power[d] \in Nat /\ Power[d] >= 1
    BY <1>0, <1>1, Powers
  <1>2. \A d \in 1 .. n : Power[d] = Base * Power[d - 1]
    BY <1>0, Powers
  <1>3. PICK v \in [0 .. n -> Nat] : Adds(v, digits, n)
    BY <1>0, NumberAdds
  <1> DEFINE m == v[n]
             S == {d \in 0 .. n : v[d] \in 0 .. Power[d] - 1}
             T == {d \in 0 .. n : m \div Power[d] = v[n - d]}
  <1>4. NumberOf(digits, n) = m /\ m \in Nat
    BY <1>0, <1>3 DEF Adds
  <1>5. 0 \in S
    BY <1>0, <1>3, Powers DEF Adds
  <1>6. ASSUME NEW d \in 1 .. n, d - 1 \in S  PROVE d \in S
    <2>1. /\ v[d] = v[d - 1] * Base + digits[n - d + 1] /\ d - 1 \in 0 .. n /\ d \in 0 .. n
          /\ n - d + 1 \in 1 .. n
      BY <1>0, <1>3 DEF Adds
    <2>2. digits[n - d + 1] \in 0 .. Base - 1 /\ Power[d - 1] \in Nat
      BY <1>1, <2>1 DEF Bytes
    <2>3. v[d - 1] \in 0 .. Power[d - 1] - 1
      BY <1>6
    <2>4. v[d - 1] * Base + digits[n - d + 1] \in 0 .. Power[d - 1] * Base - 1
      BY <1>0, <2>2, <2>3, TwoParts
    <2>5. Power[d - 1] * Base = Power[d]
      BY <1>0, <1>2, <2>2
    <2> QED  BY <2>1, <2>4, <2>5
  <1>7. \A d \in 0 .. n : d \in S
    <2> HIDE DEF S
    <2> QED  BY <1>0, <1>5, <1>6, Induction
  <1>8. m \in 0 .. Power[n] - 1
    <2>1. n \in S
      BY <1>0, <1>7
    <2> QED  BY <2>1
  <1> HIDE DEF S, m
  <1>9. 0 \in T
    <2>1. Power[0] = 1 /\ n - 0 = n
      BY <1>0, Powers
    <2>2. m \div 1 = m
      BY <1>4
    <2> QED  BY <1>0, <2>1, <2>2 DEF m
  <1>10. ASSUME NEW d \in 1 .. n, d - 1 \in T
         PROVE  d \in T /\ digits[d] = (m \div Power[d - 1]) % Base
    <2> DEFINE p == Power[d - 1]
               u == v[n - d]
               r == digits[d]
    <2>1. /\ n - d \in 0 .. n /\ n - (d - 1) \in 1 .. n /\ n - (d - 1) - 1 = n - d
          /\ d - 1 \in 0 .. n /\ n - (n - (d - 1)) + 1 = d /\ d \in 0 .. n
      BY <1>0
    <2>2. p \in Nat /\ p >= 1 /\ u \in Nat /\ Power[d] = Base * p /\ r \in 0 .. Base - 1
      BY <1>1, <1>2, <2>1 DEF Bytes
    <2>3. m \div p = u * Base + r
      <3>1. m \div p = v[n - (d - 1)]
        BY <1>10
      <3>2. v[n - (d - 1)] = v[n - (d - 1) - 1] * Base + digits[n - (n - (d - 1)) + 1]
        BY <1>3, <2>1 DEF Adds
      <3> QED  BY <2>1, <3>1, <3>2
    <2>4. (m \div p) \div Base = m \div (Base * p)
      <3> HIDE DEF p
      <3> QED  BY <1>0, <1>4, <2>2, DivideTwice
    <2> HIDE DEF p, u, r
    <2>5. (u * Base + r) % Base = r /\ (u * Base + r) \div Base = u
      <3>1. u \in Int /\ r \in 0 .. Base - 1
        BY <2>2
      <3> QED  BY <1>0, <3>1, Division
    <2>6. m \div Power[d] = u /\ (m \div p) % Base = r
      BY <2>2, <2>3, <2>4, <2>5
    <2> QED  BY <2>1, <2>6 DEF u, r, p
  <1> HIDE DEF T
  <1>11. \A d \in 0 .. n : d \in T
    BY <1>0, <1>9, <1>10, Induction
  <1>12. ASSUME NEW d \in 1 .. n  PROVE digits[d] = (m \div Power[d - 1]) % Base
    <2>1. d - 1 \in 0 .. n
      BY <1>0
    <2> QED  BY <1>10, <1>11, <2>1
  <1> QED  BY <1>4, <1>8, <1>12

\* A power of Base divides those above it.
LEMMA PowersDivide ==
    ASSUME NEW n \in 0 .. SzInt
    PROVE  /\ \E c \in Nat : c >= 1 /\ Power[SzInt] = c * Power[n]
           /\ Power[n] \in Nat /\ Power[n] >= 1
           /\ Power[SzInt] \in Nat /\ Power[SzInt] >= Power[n]
           /\ n < SzInt => Power[SzInt] >= 2 * Power[n]
  <1>0. SzInt \in Nat /\ Base \in Nat /\ Base >= 2 /\ n \in Nat
    BY BaseAssumption, WidthAssumption
  <1>1. \A d \in 0 .. SzInt : Power[d] \in Nat /\ Power[d] >= 1
    BY Powers
  <1> DEFINE Divides(d) == \E c \in Nat : c >= 1 /\ Power[SzInt] = c * Power[d]
             S == {d \in 0 .. SzInt : Divides(SzInt - d)}
  <1>2. 0 \in S
    <2>1. SzInt - 0 = SzInt /\ SzInt \in 0 .. SzInt
      BY <1>0
    <2>2. Power[SzInt] \in Nat
      BY <1>1, <2>1
    <2>3. 1 \in Nat /\ 1 >= 1 /\ Power[SzInt] = 1 * Power[SzInt]
      BY <2>2
    <2>4. Divides(SzInt)
      BY <2>3
    <2> HIDE DEF Divides
    <2> QED  BY <1>0, <2>1, <2>4
  <1>3. ASSUME NEW d \in 1 .. SzInt, d - 1 \in S  PROVE d \in S
    <2> DEFINE p == Power[SzInt - d]
    <2>1. /\ SzInt - (d - 1) \in 1 .. SzInt /\ SzInt - (d - 1) - 1 = SzInt - d
          /\ SzInt - d \in 0 .. SzInt /\ d \in 0 .. SzInt
      BY <1>0
    <2>2. Power[SzInt - (d - 1)] = Base * p /\ p \in Nat
      BY <1>1, <2>1, Powers
    <2>3. PICK c \in Nat : c >= 1 /\ Power[SzInt] = c * Power[SzInt - (d - 1)]
      BY <1>3
    <2> HIDE DEF p
    <2>4. c * (Base * p) = (c * Base) * p /\ c * Base \in Nat /\ c * Base >= 1
      BY <1>0, <2>2, <2>3
    <2>5. Divides(SzInt - d)
      BY <2>2, <2>3, <2>4 DEF p
    <2> HIDE DEF Divides
    <2> QED  BY <2>1, <2>5
  <1> HIDE DEF S
  <1>4. \A d \in 0 .. SzInt : d \in S
    BY <1>0, <1>2, <1>3, Induction
  <1>5. ASSUME NEW d \in 0 .. SzInt  PROVE Divides(d)
    <2>1. SzInt - d \in S /\ SzInt - (SzInt - d) = d
      BY <1>0, <1>4
    <2> HIDE DEF Divides
    <2> QED  BY <2>1 DEF S
  <1>6. ASSUME NEW d \in 0 .. SzInt  PROVE Power[SzInt] >= Power[d]
    <2>1. PICK c \in Nat : c >= 1 /\ Power[SzInt] = c * Power[d]
      BY <1>5
    <2>2. \A k \in Nat : c * k >= k
      BY <2>1
    <2> QED  BY <1>1, <2>1, <2>2
  <1>7. ASSUME n < SzInt  PROVE Power[SzInt] >= 2 * Power[n]
    <2>1. n + 1 \in 1 .. SzInt /\ n + 1 \in 0 .. SzInt /\ n + 1 - 1 = n
      BY <1>0, <1>7
    <2>2. Power[n + 1] = Base * Power[n] /\ Power[SzInt] >= Power[n + 1]
      BY <1>6, <2>1, Powers
    <2>3. \A k \in Nat : Base * k >= 2 * k /\ Base * k \in Nat
      BY <1>0
    <2>4. SzInt \in 0 .. SzInt
      BY <1>0
    <2>5. Power[n] \in Nat /\ Power[SzInt] \in Nat
      BY <1>1, <2>4
    <2>6. Base * Power[n] >= 2 * Power[n] /\ Base * Power[n] \in Nat
      BY <2>3, <2>5
    <2> QED  BY <2>2, <2>5, <2>6
  <1>8. SzInt \in 0 .. SzInt
    BY <1>0
  <1> QED  BY <1>1, <1>5, <1>6, <1>7, <1>8

\* A number cut at SzInt bytes, and then at n.
LEMMA WrappedTwice ==
    ASSUME NEW n \in 0 .. SzInt, NEW x \in Int, x \in -Power[n] .. Power[n] - 1
    PROVE  (x % Power[SzInt]) % Power[n] = IF x < 0 THEN x + Power[n] ELSE x
  <1> DEFINE p == Power[n]
             all == Power[SzInt]
  <1>1. /\ p \in Nat /\ p >= 1 /\ all \in Nat /\ all >= p
        /\ \E c \in Nat : c >= 1 /\ all = c * p
    BY PowersDivide
  <1>2. x \in -p .. p - 1
    OBVIOUS
  <1> HIDE DEF p, all
  <1>3. CASE x < 0
    <2>1. x \in -all .. -1 /\ all \in Nat /\ all >= 1
      BY <1>1, <1>2, <1>3
    <2>2. x % all = x + all
      BY <2>1, Wrapped
    <2>3. PICK c \in Nat : c >= 1 /\ all = c * p
      BY <1>1
    <2>4. x + p \in 0 .. p - 1 /\ c - 1 \in Int
      BY <1>1, <1>2, <1>3
    <2>5. (c - 1) * p + p = c * p /\ (c - 1) * p \in Int
      BY <1>1
    <2>6. x + all = (c - 1) * p + (x + p)
      BY <1>1, <2>3, <2>5
    <2> DEFINE r == x + p
               b == c - 1
    <2> HIDE DEF r, b
    <2>7. (b * p + r) % p = r
      BY <1>1, <2>4, Division DEF r, b
    <2> QED  BY <1>3, <2>2, <2>6, <2>7 DEF r, b, p, all
  <1>4. CASE ~(x < 0)
    <2>1. x \in 0 .. p - 1 /\ x \in 0 .. all - 1 /\ all >= 1
      BY <1>1, <1>2, <1>4
    <2>2. x % all = x
      <3>1. all \in Nat
        BY <1>1
      <3> QED  BY <2>1, <3>1, Wrapped
    <2>3. x % p = x
      <3>1. p \in Nat /\ p >= 1
        BY <1>1
      <3> QED  BY <2>1, <3>1, Wrapped
    <2> QED  BY <1>4, <2>2, <2>3 DEF p, all
  <1> QED  BY <1>3, <1>4

\* How many of size bytes a lua_Integer has.
Low(size) == IF size < SzInt THEN size ELSE SzInt

\* What packint writes: bytes, of which the low ones make up the number.
LEMMA DigitsOf ==
    ASSUME NEW x \in Int, NEW size \in Nat, NEW neg \in BOOLEAN
    PROVE  LET digits == Digits(x, size, neg)
               m == x % Power[SzInt]
           IN  /\ digits \in [1 .. size -> Bytes] /\ digits \in Seq(Bytes)
               /\ Len(digits) = size /\ Low(size) \in 0 .. SzInt
               /\ m \in Nat /\ \A d \in 1 .. Low(size) : d \in 1 .. size
               /\ NumberOf(digits, Low(size)) = m % Power[Low(size)]
               /\ \A d \in SzInt + 1 .. size : digits[d] = IF neg THEN Base - 1 ELSE 0
  <1> DEFINE digits == Digits(x, size, neg)
             m == x % Power[SzInt]
             low == Low(size)
  <1>0. SzInt \in Nat /\ SzInt \in 0 .. SzInt /\ Base \in Nat /\ Base > 1
    BY BaseAssumption, WidthAssumption
  <1>1. /\ Power[SzInt] \in Nat /\ Power[SzInt] >= 1
        /\ \A d \in 1 .. SzInt : Power[d - 1] \in Nat /\ Power[d - 1] >= 1
    <2>1. \A d \in 1 .. SzInt : d - 1 \in 0 .. SzInt
      BY <1>0
    <2> QED  BY <1>0, <2>1, Powers
  <1>2. m \in Nat
    <2>1. m \in 0 .. Power[SzInt] - 1
      BY <1>1, Wrapped
    <2> QED  BY <1>1, <2>1
  <1>3. low \in 0 .. SzInt /\ \A d \in 1 .. low : d \in 1 .. size /\ d <= SzInt
    BY <1>0 DEF Low
  <1>4. digits = [d \in 1 .. size |-> IF d <= SzInt THEN (m \div Power[d - 1]) % Base
                                      ELSE IF neg THEN Base - 1 ELSE 0]
    BY DEF Digits
  <1>5. \A d \in SzInt + 1 .. size : digits[d] = IF neg THEN Base - 1 ELSE 0
    <2>1. \A d \in SzInt + 1 .. size : d \in 1 .. size /\ ~(d <= SzInt)
      BY <1>0
    <2> HIDE DEF digits, m
    <2> QED  BY <1>4, <2>1
  <1>6. \A d \in 1 .. size : d <= SzInt => digits[d] = (m \div Power[d - 1]) % Base
    <2> HIDE DEF digits, m
    <2> QED  BY <1>4
  <1> HIDE DEF digits, m
  <1>7. ASSUME NEW d \in 1 .. size  PROVE digits[d] \in Bytes
    <2>1. CASE d <= SzInt
      <3>1. d \in 1 .. SzInt
        BY <1>0, <2>1
      <3> DEFINE p == Power[d - 1]
                 q == m \div p
      <3>2. p \in Nat /\ p >= 1
        BY <1>1, <3>1
      <3> HIDE DEF p
      <3>3. q \in Nat
        BY <1>2, <3>2, Divided
      <3> HIDE DEF q
      <3>4. q % Base \in 0 .. Base - 1
        BY <1>0, <3>3, Divided
      <3> QED  BY <1>6, <2>1, <3>4 DEF Bytes, q, p
    <2>2. CASE ~(d <= SzInt)
      <3>1. d \in SzInt + 1 .. size
        BY <1>0, <2>2
      <3> QED  BY <1>0, <1>5, <3>1 DEF Bytes
    <2> QED  BY <2>1, <2>2
  <1>8. digits \in [1 .. size -> Bytes]
    <2>1. digits = [d \in 1 .. size |-> digits[d]]
      <3> DEFINE k == [d \in 1 .. size |-> IF d <= SzInt THEN (m \div Power[d - 1]) % Base
                                           ELSE IF neg THEN Base - 1 ELSE 0]
      <3>1. k = [d \in 1 .. size |-> k[d]]
        OBVIOUS
      <3>2. digits = k
        BY <1>4
      <3> HIDE DEF k
      <3> QED  BY <3>1, <3>2
    <2> QED  BY <1>7, <2>1
  <1>9. digits \in Seq(Bytes) /\ Len(digits) = size
    BY <1>8, FunctionIsSeq
  <1>10. NumberOf(digits, low) = m % Power[low]
    <2>1. \A d \in 1 .. low : digits[d] = (m \div Power[d - 1]) % Base
      BY <1>3, <1>6
    <2> HIDE DEF low
    <2> QED  BY <1>2, <1>3, <2>1, DigitsMakeNumber
  <1> QED  BY <1>2, <1>3, <1>5, <1>8, <1>9, <1>10 DEF digits, m

\* The sign extension of unpackint undoes what the width cuts,
LEMMA SignReturns ==
    ASSUME NEW n \in 0 .. SzInt, NEW x \in Int, 2 * x \in -Power[n] .. Power[n] - 1
    PROVE  /\ AsInteger((x % Power[SzInt]) % Power[n], n) = x
           /\ x \in -Power[n] .. Power[n] - 1
  <1> DEFINE p == Power[n]
             m == (x % Power[SzInt]) % Power[n]
  <1>1. p \in Nat /\ p >= 1
    BY PowersDivide
  <1>2. 2 * x \in -p .. p - 1
    OBVIOUS
  <1>3. x \in -p .. p - 1
    <2> HIDE DEF p
    <2> QED  BY <1>1, <1>2
  <1>4. m = IF x < 0 THEN x + p ELSE x
    BY <1>3, WrappedTwice
  <1> HIDE DEF p, m
  <1>5. (IF 2 * m >= p THEN m - p ELSE m) = x
    BY <1>1, <1>2, <1>3, <1>4
  <1> QED  BY <1>3, <1>5 DEF AsInteger, p, m

\* and makes an integer of every number of that width.
LEMMA SignExtends ==
    ASSUME NEW n \in 0 .. SzInt, NEW m \in 0 .. Power[n] - 1
    PROVE  LET y == AsInteger(m, n) IN
           /\ y \in Int /\ 2 * y \in -Power[n] .. Power[n] - 1
           /\ (y % Power[SzInt]) % Power[n] = m
  <1> DEFINE p == Power[n]
             y == IF 2 * m >= p THEN m - p ELSE m
  <1>1. p \in Nat /\ p >= 1
    BY PowersDivide
  <1>2. m \in 0 .. p - 1
    OBVIOUS
  <1> HIDE DEF p
  <1>3. /\ y \in Int /\ 2 * y \in -p .. p - 1 /\ y \in -p .. p - 1
        /\ m = IF y < 0 THEN y + p ELSE y
    BY <1>1, <1>2
  <1>4. AsInteger(m, n) = y
    BY DEF AsInteger, p
  <1> HIDE DEF y
  <1>5. (y % Power[SzInt]) % Power[n] = m
    <2>1. y \in -Power[n] .. Power[n] - 1
      BY <1>3 DEF p
    <2>2. (y % Power[SzInt]) % Power[n] = IF y < 0 THEN y + Power[n] ELSE y
      BY <1>3, <2>1, WrappedTwice
    <2> QED  BY <1>3, <2>2 DEF p
  <1> QED  BY <1>3, <1>4, <1>5 DEF p

\* What packint accepts for an option of size bytes.
Accepted(x, size, signed) ==
    /\ FitsInteger(x)
    /\ size < SzInt => IF signed THEN 2 * x \in -Power[size] .. Power[size] - 1
                       ELSE x \in 0 .. Power[size] - 1

\* unpackint reads the integer that packint has written, of any width and sign.
LEMMA IntegerReturns ==
    ASSUME NEW x, NEW size \in Nat, NEW signed \in BOOLEAN, Accepted(x, size, signed)
    PROVE  FromDigits(Digits(x, size, signed /\ x < 0), signed) = x
  <1> DEFINE neg == signed /\ x < 0
             digits == Digits(x, size, neg)
             low == Low(size)
             n == NumberOf(digits, low)
             res == IF size < SzInt /\ ~signed THEN n ELSE AsInteger(n, low)
  <1>0. SzInt \in Nat
    BY WidthAssumption
  <1>1. x \in Int /\ 2 * x \in -Power[SzInt] .. Power[SzInt] - 1 /\ neg \in BOOLEAN
    BY DEF Accepted, FitsInteger
  <1>2. /\ Len(digits) = size /\ low \in 0 .. SzInt
        /\ n = (x % Power[SzInt]) % Power[low]
        /\ \A d \in SzInt + 1 .. size : digits[d] = IF neg THEN Base - 1 ELSE 0
    <2> HIDE DEF neg
    <2> QED  BY <1>1, DigitsOf
  <1>3. res = x
    <2>1. CASE size < SzInt /\ ~signed
      <3>1. x \in 0 .. Power[low] - 1 /\ low = size
        BY <2>1 DEF Accepted, Low
      <3>2. Power[low] \in Nat
        BY <1>2, PowersDivide
      <3>3. x \in -Power[low] .. Power[low] - 1 /\ ~(x < 0)
        BY <3>1, <3>2
      <3> HIDE DEF low, n
      <3>4. n = x
        BY <1>1, <1>2, <3>3, WrappedTwice
      <3> QED  BY <2>1, <3>4
    <2>2. CASE ~(size < SzInt /\ ~signed)
      <3>1. 2 * x \in -Power[low] .. Power[low] - 1
        BY <1>1, <2>2 DEF Accepted, Low
      <3> HIDE DEF low, n
      <3>2. AsInteger(n, low) = x
        BY <1>1, <1>2, <3>1, SignReturns
      <3> QED  BY <2>2, <3>2
    <2> QED  BY <2>1, <2>2
  <1>4. FromDigits(digits, signed) =
           IF \A d \in SzInt + 1 .. Len(digits) :
                digits[d] = IF signed /\ res < 0 THEN Base - 1 ELSE 0
           THEN res ELSE Fault
    <2> HIDE DEF digits
    <2> QED  BY <1>2 DEF FromDigits, Low
  <1> HIDE DEF digits, res
  <1> QED  BY <1>2, <1>3, <1>4 DEF digits

\* unpackint reads the length that packint has written: a size_t.
LEMMA LengthReturns ==
    ASSUME NEW len \in Nat, NEW size \in Nat, len < Power[SzInt],
           size < SzInt => len < Power[size]
    PROVE  LET int == FromDigits(Digits(len, size, FALSE), FALSE) IN
           int # Fault /\ int \in Int /\ int % Power[SzInt] = len
  <1> DEFINE digits == Digits(len, size, FALSE)
             low == Low(size)
             n == NumberOf(digits, low)
             res == IF size < SzInt THEN n ELSE AsInteger(n, low)
             all == Power[SzInt]
  <1>0. /\ SzInt \in Nat /\ all \in Nat /\ all >= 1
    <2>1. SzInt \in Nat /\ SzInt \in 0 .. SzInt
      BY WidthAssumption
    <2> QED  BY <2>1, PowersDivide
  <1>1. /\ Len(digits) = size /\ low \in 0 .. SzInt
        /\ n = (len % all) % Power[low]
        /\ \A d \in SzInt + 1 .. size : digits[d] = 0
    <2>1. len \in Int /\ FALSE \in BOOLEAN
      OBVIOUS
    <2> QED  BY <2>1, DigitsOf
  <1>2. len < all
    OBVIOUS
  <1>3. n = len
    <2>1. Power[low] \in Nat /\ len < Power[low]
      <3>1. Power[low] \in Nat
        BY <1>1, PowersDivide
      <3> QED  BY <3>1 DEF Low
    <2>2. len \in -Power[low] .. Power[low] - 1 /\ ~(len < 0) /\ len \in Int
      BY <2>1
    <2> HIDE DEF low, n
    <2> QED  BY <1>1, <2>2, WrappedTwice DEF all
  <1>4. FromDigits(digits, FALSE) = res
    <2>1. FromDigits(digits, FALSE) =
             IF \A d \in SzInt + 1 .. Len(digits) : digits[d] = 0 THEN res ELSE Fault
      <3> HIDE DEF digits
      <3> QED  BY <1>1 DEF FromDigits, Low
    <2> HIDE DEF digits, res
    <2> QED  BY <1>1, <2>1
  <1>5. res = len \/ res = len - all
    BY <1>3 DEF AsInteger, Low
  <1>6. res \in Int /\ res % all = len
    <2> HIDE DEF res, all
    <2>1. CASE res = len
      <3>1. len \in 0 .. all - 1 /\ len \in Int
        BY <1>0, <1>2
      <3> QED  BY <1>0, <2>1, <3>1, Wrapped
    <2>2. CASE res = len - all
      <3>1. res \in -all .. -1 /\ res \in Int
        BY <1>0, <1>2, <2>2
      <3>2. res % all = res + all
        BY <1>0, <3>1, Wrapped
      <3> QED  BY <1>0, <2>2, <3>1, <3>2
    <2> QED  BY <1>5, <2>1, <2>2
  <1>7. res # Fault
    BY <1>6, FaultAssumption
  <1> QED  BY <1>4, <1>6, <1>7

\* packint writes the digits that unpackint has read, of any width and sign.
LEMMA DigitsReturn ==
    ASSUME NEW digits \in Seq(Bytes), NEW signed \in BOOLEAN,
           FromDigits(digits, signed) # Fault
    PROVE  LET y == FromDigits(digits, signed)
               size == Len(digits)
               len == y % Power[SzInt]
           IN  /\ Accepted(y, size, signed)
               /\ Digits(y, size, signed /\ y < 0) = digits
               /\ len \in Nat /\ len < Power[SzInt]
               /\ ~signed => /\ Digits(len, size, FALSE) = digits
                             /\ size < SzInt => len < Power[size]
  <1> DEFINE size == Len(digits)
             low == Low(size)
             n == NumberOf(digits, low)
             y == IF size < SzInt /\ ~signed THEN n ELSE AsInteger(n, low)
             all == Power[SzInt]
             len == y % all
  <1>0. /\ SzInt \in Nat /\ size \in Nat /\ digits \in [1 .. size -> Bytes]
    BY WidthAssumption, SeqIsFunction
  <1>1. /\ FromDigits(digits, signed) = y
        /\ \A d \in SzInt + 1 .. size :
              digits[d] = IF signed /\ y < 0 THEN Base - 1 ELSE 0
    <2>1. FromDigits(digits, signed) =
             IF \A d \in SzInt + 1 .. size :
                  digits[d] = IF signed /\ y < 0 THEN Base - 1 ELSE 0
             THEN y ELSE Fault
      BY DEF FromDigits, Low
    <2> HIDE DEF y
    <2> QED  BY <2>1
  <1> HIDE DEF size
  <1>2. low \in 0 .. SzInt /\ \A d \in 1 .. low : d \in 1 .. size
    BY <1>0 DEF Low
  <1>3. n \in 0 .. Power[low] - 1
    <2>1. \A d \in 1 .. low : digits[d] \in Bytes
      BY <1>0, <1>2
    <2> HIDE DEF low
    <2> QED  BY <1>2, <2>1, NumberHasDigits
  <1>4. /\ Power[low] \in Nat /\ Power[low] >= 1 /\ all \in Nat /\ all >= Power[low]
        /\ low < SzInt => all >= 2 * Power[low]
    BY <1>2, PowersDivide
  <1> HIDE DEF all, n
  <1>5. Accepted(y, size, signed) /\ (y % Power[SzInt]) % Power[low] = n
    <2>1. CASE size < SzInt /\ ~signed
      <3>1. y = n /\ low = size
        BY <2>1 DEF Low
      <3>2. n \in -Power[low] .. Power[low] - 1 /\ ~(n < 0) /\ n \in Int
        BY <1>3, <1>4
      <3>3. (n % Power[SzInt]) % Power[low] = n
        BY <1>2, <3>2, WrappedTwice
      <3>4. 2 * n \in -all .. all - 1
        BY <1>3, <1>4, <2>1, <3>1
      <3> QED  BY <1>3, <2>1, <3>1, <3>2, <3>3, <3>4 DEF Accepted, FitsInteger, all
    <2>2. CASE ~(size < SzInt /\ ~signed)
      <3>1. y = AsInteger(n, low)
        BY <2>2
      <3>2. /\ y \in Int /\ 2 * y \in -Power[low] .. Power[low] - 1
            /\ (y % Power[SzInt]) % Power[low] = n
        BY <1>2, <1>3, <3>1, SignExtends
      <3> HIDE DEF y
      <3>3. 2 * y \in -all .. all - 1
        BY <1>4, <3>2
      <3> QED  BY <2>2, <3>2, <3>3 DEF Accepted, FitsInteger, all, Low
    <2> QED  BY <2>1, <2>2
  <1>6. y \in Int
    BY <1>5 DEF Accepted, FitsInteger
  <1> HIDE DEF y, low
  <1>7. len \in Nat /\ len < all
    <2>1. all \in Nat /\ all >= 1
      BY <1>4
    <2>2. len \in 0 .. all - 1
      BY <1>6, <2>1, Wrapped
    <2> QED  BY <2>1, <2>2
  <1>8. ASSUME NEW x \in Int, x % all = len, NEW neg \in BOOLEAN, neg = (signed /\ y < 0)
        PROVE  Digits(x, size, neg) = digits
    <2> DEFINE new == Digits(x, size, neg)
    <2>1. /\ new \in [1 .. size -> Bytes]
          /\ NumberOf(new, low) = (x % all) % Power[low]
          /\ \A d \in SzInt + 1 .. size : new[d] = IF neg THEN Base - 1 ELSE 0
      BY <1>0, DigitsOf DEF all, low
    <2> HIDE DEF new
    <2>2. NumberOf(new, low) = n
      BY <1>5, <1>8, <2>1 DEF len, all
    <2>3. \A d \in 1 .. low : new[d] = (n \div Power[d - 1]) % Base
      <3>1. \A d \in 1 .. low : new[d] \in Bytes
        BY <1>2, <2>1
      <3> QED  BY <1>2, <2>2, <3>1, NumberHasDigits
    <2>4. \A d \in 1 .. low : digits[d] = (n \div Power[d - 1]) % Base
      <3>1. \A d \in 1 .. low : digits[d] \in Bytes
        BY <1>0, <1>2
      <3> QED  BY <1>2, <3>1, NumberHasDigits DEF n
    <2>5. ASSUME NEW d \in 1 .. size  PROVE new[d] = digits[d]
      <3>1. CASE d \in 1 .. low
        BY <2>3, <2>4, <3>1
      <3>2. CASE d \notin 1 .. low
        <4>1. d \in SzInt + 1 .. size
          BY <1>0, <3>2 DEF Low, low
        <4> DEFINE less == signed /\ y < 0
        <4>2. digits[d] = IF less THEN Base - 1 ELSE 0
          BY <1>1, <4>1
        <4>3. new[d] = IF neg THEN Base - 1 ELSE 0
          BY <2>1, <4>1
        <4>4. neg = less
          BY <1>8
        <4> HIDE DEF less
        <4> QED  BY <4>2, <4>3, <4>4
      <3> QED  BY <3>1, <3>2
    <2>6. new = digits
      BY <1>0, <2>1, <2>5
    <2> QED  BY <2>6 DEF new
  <1>9. Digits(y, size, signed /\ y < 0) = digits
    BY <1>6, <1>8
  <1>10. ASSUME ~signed  PROVE Digits(len, size, FALSE) = digits
    <2>1. len \in 0 .. all - 1 /\ len \in Int /\ all >= 1
      BY <1>4, <1>7
    <2> HIDE DEF len
    <2>2. len % all = len
      BY <1>4, <2>1, Wrapped
    <2> QED  BY <1>8, <1>10, <2>1, <2>2
  <1>11. ASSUME ~signed, size < SzInt  PROVE len < Power[size]
    <2>1. y \in 0 .. Power[size] - 1 /\ low = size
      BY <1>11, <1>5 DEF Accepted, Low, low
    <2>2. y \in 0 .. all - 1 /\ all >= 1
      BY <1>4, <2>1
    <2>3. len = y
      BY <1>4, <1>6, <2>2, Wrapped
    <2> QED  BY <1>4, <2>1, <2>3
  <1> QED  BY <1>1, <1>5, <1>7, <1>9, <1>10, <1>11 DEF len, all, size
-----------------------------------------------------------------------------
\* The bytes of an option.

\* A part of a sequence.
LEMMA Part ==
    ASSUME NEW V, NEW s \in Seq(V), NEW i \in Nat, NEW n \in Nat, i + n <= Len(s)
    PROVE  LET part == SubSeq(s, i + 1, i + n) IN
           /\ part \in Seq(V) /\ Len(part) = n
           /\ \A k \in 1 .. n : part[k] = s[i + k]
  <1> DEFINE from == i + 1
             to == i + n
  <1>1. /\ from \in Int /\ to \in Int /\ s \in [1 .. Len(s) -> V] /\ Len(s) \in Nat
        /\ to - from + 1 = n /\ \A k \in 1 .. n : from + k - 1 = i + k
        /\ ~(from <= to) => n = 0
    BY SeqIsFunction
  <1>2. \A k \in from .. to : s[k] \in V
    BY <1>1
  <1> HIDE DEF from, to
  <1>3. /\ SubSeq(s, from, to) \in Seq(V)
        /\ Len(SubSeq(s, from, to)) = IF from <= to THEN to - from + 1 ELSE 0
        /\ \A k \in 1 .. to - from + 1 : SubSeq(s, from, to)[k] = s[from + k - 1]
    BY <1>1, <1>2, SubSeqProperties
  <1>4. Len(SubSeq(s, from, to)) = n
    BY <1>1, <1>3
  <1>5. \A k \in 1 .. n : SubSeq(s, from, to)[k] = s[i + k]
    BY <1>1, <1>3
  <1> QED  BY <1>3, <1>4, <1>5 DEF from, to

\* Behind byte i of data lies piece.
Lies(data, i, piece) == \A k \in 1 .. Len(piece) : data[i + k] = piece[k]

\* What lies there is what can be read there.
LEMMA LiesRead ==
    ASSUME NEW data \in Seq(Bytes), NEW i \in Nat, NEW piece \in Seq(Bytes),
           i + Len(piece) <= Len(data), Lies(data, i, piece)
    PROVE  SubSeq(data, i + 1, i + Len(piece)) = piece
  <1> DEFINE n == Len(piece)
             part == SubSeq(data, i + 1, i + n)
  <1>1. n \in Nat
    OBVIOUS
  <1>2. i + n <= Len(data) /\ \A k \in 1 .. n : data[i + k] = piece[k]
    BY DEF Lies
  <1> HIDE DEF n
  <1>3. part \in Seq(Bytes) /\ Len(part) = n /\ \A k \in 1 .. n : part[k] = data[i + k]
    BY <1>1, <1>2, Part
  <1>4. \A k \in 1 .. n : part[k] = piece[k]
    BY <1>2, <1>3
  <1> HIDE DEF part
  <1>5. part = piece
    <2>1. Len(piece) = n
      BY DEF n
    <2> QED  BY <1>3, <1>4, <2>1, SeqEqual
  <1> QED  BY <1>5 DEF part, n

\* What can be read lies there.
LEMMA ReadLies ==
    ASSUME NEW data \in Seq(Bytes), NEW i \in Nat, NEW n \in Nat, i + n <= Len(data)
    PROVE  LET piece == SubSeq(data, i + 1, i + n) IN
           piece \in Seq(Bytes) /\ Len(piece) = n /\ Lies(data, i, piece)
  <1> DEFINE piece == SubSeq(data, i + 1, i + n)
  <1>1. /\ piece \in Seq(Bytes) /\ Len(piece) = n
        /\ \A k \in 1 .. n : piece[k] = data[i + k]
    BY Part
  <1> HIDE DEF piece
  <1>2. Lies(data, i, piece)
    BY <1>1 DEF Lies
  <1> QED  BY <1>1, <1>2 DEF piece

\* Reversing twice changes nothing.
LEMMA OrderedTwice ==
    ASSUME NEW h, NEW s \in Seq(Bytes)
    PROVE  /\ Ordered(h, s) \in Seq(Bytes) /\ Len(Ordered(h, s)) = Len(s)
           /\ Ordered(h, Ordered(h, s)) = s
  <1> DEFINE n == Len(s)
             r == Reverse(s)
  <1>1. n \in Nat /\ s \in [1 .. n -> Bytes]
    BY SeqIsFunction
  <1>2. r = [k \in 1 .. n |-> s[n - k + 1]]
    BY DEF Reverse
  <1> HIDE DEF n, r
  <1>3. \A k \in 1 .. n : n - k + 1 \in 1 .. n /\ n - (n - k + 1) + 1 = k
    BY <1>1
  <1>4. r \in [1 .. n -> Bytes] /\ \A k \in 1 .. n : r[k] = s[n - k + 1]
    BY <1>1, <1>2, <1>3
  <1>5. r \in Seq(Bytes) /\ Len(r) = n
    BY <1>1, <1>4, FunctionIsSeq
  <1>6. Reverse(r) = s
    <2>1. Reverse(r) = [k \in 1 .. n |-> r[n - k + 1]]
      BY <1>5 DEF Reverse
    <2>2. \A k \in 1 .. n : r[n - k + 1] = s[k]
      BY <1>3, <1>4
    <2>3. s = [k \in 1 .. n |-> s[k]]
      BY <1>1
    <2> QED  BY <2>1, <2>2, <2>3
  <1> QED  BY <1>5, <1>6 DEF Ordered, r, n

\* What an option leaves behind byte at and before byte to, for the argument x.
Laid(data, at, pieces, to) ==
    /\ Lies(data, at, pieces[1])
    /\ IF Len(pieces) = 1 THEN to = at + Len(pieces[1])
       ELSE /\ Lies(data, at + Len(pieces[1]), pieces[2])
            /\ to = at + Len(pieces[1]) + Len(pieces[2])

\* From byte i to byte to lies what mem_pack writes for option o and argument x.
Holds(data, o, h, i, x, to) ==
    LET skip == ToAlign(h, o, i)
        at == i + skip
    IN  /\ skip >= 0 /\ at <= to /\ to <= Len(data)
        /\ CASE TakesArgument(o) -> Packable(o, x) /\ Laid(data, at, Pieces(h, o, x), to)
             [] o.k = "pad" -> to = at + 1
             [] OTHER -> to = at

\* For options with an argument, for padding, and for the others.
LEMMA HoldsCases ==
    ASSUME NEW data, NEW o, NEW h, NEW i, NEW x, NEW to
    PROVE  LET skip == ToAlign(h, o, i)
               at == i + skip
               within == skip >= 0 /\ at <= to /\ to <= Len(data)
           IN  /\ TakesArgument(o) =>
                    (Holds(data, o, h, i, x, to) <=>
                        within /\ Packable(o, x) /\ Laid(data, at, Pieces(h, o, x), to))
               /\ o.k = "pad" =>
                    (Holds(data, o, h, i, x, to) <=> within /\ to = at + 1)
               /\ ~TakesArgument(o) /\ o.k # "pad" =>
                    (Holds(data, o, h, i, x, to) <=> within /\ to = at)
  <1>1. o.k = "pad" => ~TakesArgument(o)
    BY DEF TakesArgument
  <1> DEFINE skip == ToAlign(h, o, i)
             at == i + skip
             within == skip >= 0 /\ at <= to /\ to <= Len(data)
             laid == Packable(o, x) /\ Laid(data, at, Pieces(h, o, x), to)
  <1>2. Holds(data, o, h, i, x, to) <=>
           within /\ CASE TakesArgument(o) -> laid
                      [] o.k = "pad" -> to = at + 1
                      [] OTHER -> to = at
    BY DEF Holds
  <1> HIDE DEF within, laid, at
  <1>3. /\ TakesArgument(o) => (Holds(data, o, h, i, x, to) <=> within /\ laid)
        /\ o.k = "pad" => (Holds(data, o, h, i, x, to) <=> within /\ to = at + 1)
        /\ ~TakesArgument(o) /\ o.k # "pad" =>
              (Holds(data, o, h, i, x, to) <=> within /\ to = at)
    BY <1>1, <1>2
  <1> QED  BY <1>3 DEF within, laid, at

\* Only the bytes up to there matter.
LEMMA HoldsUpTo ==
    ASSUME NEW data \in Seq(Bytes), NEW new \in Seq(Bytes), Len(new) = Len(data),
           NEW o \in Options, NEW h \in Headers, NEW i \in Nat, NEW x, NEW to \in Nat,
           Holds(data, o, h, i, x, to), \A k \in 1 .. Len(data) : k <= to => new[k] = data[k]
    PROVE  Holds(new, o, h, i, x, to)
  <1> DEFINE skip == ToAlign(h, o, i)
             at == i + skip
             pieces == Pieces(h, o, x)
  <1>1. skip \in Int /\ skip >= 0 /\ at \in Nat /\ at <= to /\ to <= Len(data) /\ Len(data) \in Nat
    <2>1. skip \in Int
      BY AlignmentIsInt
    <2>2. skip >= 0 /\ at <= to /\ to <= Len(data) /\ Len(data) \in Nat
      BY DEF Holds
    <2> HIDE DEF skip
    <2> QED  BY <2>1, <2>2
  <1>2. CASE TakesArgument(o)
    <2>1. Packable(o, x) /\ Laid(data, at, pieces, to) /\ o.k # "pad"
      BY <1>2 DEF Holds, TakesArgument
    <2>2. ArePieces(pieces)
      BY <1>2, <2>1, PiecesAreBytes
    <2> HIDE DEF skip, at, pieces
    <2>3. Laid(new, at, pieces, to)
      <3>1. ASSUME NEW j \in Nat, NEW piece \in Seq(Bytes), j + Len(piece) <= to,
                   Lies(data, j, piece)
            PROVE  Lies(new, j, piece)
        <4>1. \A k \in 1 .. Len(piece) : j + k \in 1 .. Len(data) /\ j + k <= to
          <5>1. Len(piece) \in Nat
            OBVIOUS
          <5> QED  BY <1>1, <3>1, <5>1
        <4> QED  BY <3>1, <4>1 DEF Lies
      <3>2. pieces[1] \in Seq(Bytes) /\ Len(pieces) \in 1 .. 2
        BY <2>2 DEF ArePieces
      <3>3. CASE Len(pieces) = 1
        <4>1. Lies(data, at, pieces[1]) /\ to = at + Len(pieces[1])
          BY <2>1, <3>3 DEF Laid
        <4> QED  BY <1>1, <3>1, <3>2, <3>3, <4>1 DEF Laid
      <3>4. CASE Len(pieces) = 2
        <4>1. pieces[2] \in Seq(Bytes)
          BY <2>2, <3>4 DEF ArePieces
        <4> DEFINE j == at + Len(pieces[1])
        <4>2. Lies(data, at, pieces[1]) /\ Lies(data, j, pieces[2])
              /\ to = j + Len(pieces[2])
          BY <2>1, <3>4 DEF Laid
        <4>3. j \in Nat /\ j <= to /\ j + Len(pieces[2]) <= to
          <5>1. Len(pieces[1]) \in Nat /\ Len(pieces[2]) \in Nat
            BY <3>2, <4>1
          <5> QED  BY <1>1, <4>2, <5>1
        <4>4. Lies(new, at, pieces[1])
          BY <1>1, <3>1, <3>2, <4>2, <4>3
        <4> HIDE DEF j
        <4>5. Lies(new, j, pieces[2])
          BY <3>1, <4>1, <4>2, <4>3
        <4> QED  BY <3>4, <4>2, <4>4, <4>5 DEF Laid, j
      <3> QED  BY <3>2, <3>3, <3>4
    <2> QED  BY <1>1, <1>2, <2>1, <2>3 DEF Holds, skip, at, pieces
  <1>3. CASE ~TakesArgument(o)
    <2>1. IF o.k = "pad" THEN to = at + 1 ELSE to = at
      BY <1>3 DEF Holds
    <2> QED  BY <1>1, <1>3, <2>1 DEF Holds
  <1> QED  BY <1>2, <1>3
-----------------------------------------------------------------------------
\* mem_pack writes what it holds, and writes nothing else.

\* A piece that has been written lies there.
LEMMA PutLies ==
    ASSUME NEW len \in Nat, NEW st \in PackStates(len), NEW piece \in Seq(Bytes),
           st.end = "running", Put(st, piece).end = "running"
    PROVE  Lies(Put(st, piece).mem, st.i, piece)
  <1>1. /\ Len(piece) \in Nat /\ st.i \in Nat /\ st.i + Len(piece) <= len
        /\ Put(st, piece).mem = Written(st.mem, len, st.i, piece)
    BY PutCases
  <1>2. ASSUME NEW k \in 1 .. Len(piece)
        PROVE  Written(st.mem, len, st.i, piece)[st.i + k] = piece[k]
    <2> DEFINE j == st.i + k
    <2>1. j \in 1 .. len /\ j \in st.i + 1 .. st.i + Len(piece) /\ j - st.i = k
      BY <1>1
    <2> HIDE DEF j
    <2>2. Written(st.mem, len, st.i, piece)[j] = piece[k]
      BY <2>1 DEF Written
    <2> QED  BY <2>2 DEF j
  <1> QED  BY <1>1, <1>2 DEF Lies

\* So do all pieces.
LEMMA PutAllLies ==
    ASSUME NEW len \in Nat, NEW a \in PackStates(len), NEW pieces, ArePieces(pieces),
           a.end = "running", PutAll(a, pieces).end = "running"
    PROVE  LET new == PutAll(a, pieces) IN
           /\ Laid(new.mem, a.i, pieces, new.i) /\ new.i <= len /\ new.i >= a.i
           /\ new.h = a.h /\ new.used = a.used
  <1> DEFINE one == Put(a, pieces[1])
             new == PutAll(a, pieces)
  <1>1. pieces[1] \in Seq(Bytes) /\ Len(pieces) \in 1 .. 2 /\ a.i \in Nat
    BY DEF ArePieces, PackStates
  <1>2. one.end = "running"
    <2> SUFFICES ASSUME one.end # "running"  PROVE FALSE
      OBVIOUS
    <2>1. new = one
      <3> HIDE DEF one
      <3>1. PutAll(a, pieces) = one \/ PutAll(a, pieces) = Put(one, pieces[2])
        BY DEF PutAll, one
      <3>2. Put(one, pieces[2]) = one
        BY DEF Put
      <3> QED  BY <3>1, <3>2
    <2> QED  BY <2>1
  <1>3. /\ one \in PackStates(len) /\ Len(pieces[1]) \in Nat /\ one.h = a.h /\ one.used = a.used
        /\ one.i = a.i + Len(pieces[1]) /\ one.i <= len /\ Lies(one.mem, a.i, pieces[1])
    BY <1>1, <1>2, PutCases, PutLies
  <1> HIDE DEF one, new
  <1>4. CASE Len(pieces) = 1
    <2>1. new = one
      BY <1>4 DEF PutAll, one, new
    <2> QED  BY <1>1, <1>3, <1>4, <2>1 DEF Laid, new
  <1>5. CASE Len(pieces) = 2
    <2>1. new = Put(one, pieces[2]) /\ pieces[2] \in Seq(Bytes) /\ new.end = "running"
      <3>1. new = Put(one, pieces[2])
        BY <1>5 DEF PutAll, one, new
      <3>2. pieces[2] \in Seq(Bytes)
        BY <1>5 DEF ArePieces
      <3> QED  BY <3>1, <3>2 DEF new
    <2>2. /\ Len(pieces[2]) \in Nat /\ new.h = one.h /\ new.used = one.used
          /\ new.i = one.i + Len(pieces[2]) /\ new.i <= len /\ Lies(new.mem, one.i, pieces[2])
      BY <1>2, <1>3, <2>1, PutCases, PutLies
    <2>3. Lies(new.mem, a.i, pieces[1])
      <3>1. Stays(len, one, new)
        BY <1>3, <2>1, PutStays
      <3>2. \A k \in 1 .. len : k <= one.i => new.mem[k] = one.mem[k]
        BY <1>3, <3>1 DEF Stays, Onwards, PackStates
      <3>3. \A k \in 1 .. Len(pieces[1]) : a.i + k \in 1 .. len /\ a.i + k <= one.i
        BY <1>1, <1>3
      <3> QED  BY <1>3, <3>2, <3>3 DEF Lies
    <2>4. Laid(new.mem, a.i, pieces, new.i)
      BY <1>3, <1>5, <2>2, <2>3 DEF Laid
    <2>5. new.i >= a.i
      BY <1>1, <1>3, <2>2
    <2> QED  BY <1>3, <2>2, <2>4, <2>5 DEF new
  <1> QED  BY <1>1, <1>4, <1>5

\* An option that takes an argument configures nothing, nor does padding.
LEMMA ConfiguresNothing ==
    ASSUME NEW h, NEW o, TakesArgument(o) \/ o.k = "pad"
    PROVE  Configured(h, o) = h
  BY DEF Configured, TakesArgument

\* The arguments after an option.
Used(u, o) == IF TakesArgument(o) THEN u + 1 ELSE u

\* What mem_pack has written for an option is what the option holds.
LEMMA PackHolds ==
    ASSUME NEW len \in Nat, NEW st \in PackStates(len), NEW o \in Options,
           NEW args, NEW null \in BOOLEAN, PackOption(st, o, args, null).end = "running"
    PROVE  LET new == PackOption(st, o, args, null) IN
           /\ Holds(new.mem, o, st.h, st.i, args[st.used + 1], new.i)
           /\ new.h = Configured(st.h, o) /\ new.used = Used(st.used, o)
           /\ TakesArgument(o) => Len(args) # st.used
  <1> DEFINE a == Aligned(st, o)
             new == PackOption(st, o, args, null)
             turned == Turn(a, o, args)
             x == args[st.used + 1]
             refused == Len(args) = st.used \/ ~Packable(o, x)
             skip == ToAlign(st.h, o, st.i)
             at == st.i + skip
  <1>1. /\ HasRoom(st, o, null) /\ turned.end = "running" /\ new = Counted(turned, o)
        /\ a \in PackStates(len) /\ a.end = "running"
    BY OptionRuns
  <1>2. /\ skip \in Int /\ skip >= 0 /\ at <= Len(st.mem) /\ Len(st.mem) = len
        /\ st.i \in Nat /\ st.h \in Headers /\ st.used \in Nat
    <2>1. /\ st.mem \in [1 .. len -> Bytes] /\ st.i \in Nat /\ st.h \in Headers
          /\ st.used \in Nat
      BY DEF PackStates
    <2>2. Len(st.mem) = len
      BY <2>1, FunctionIsSeq
    <2>3. skip \in Int
      BY <2>1, AlignmentIsInt
    <2>4. skip >= 0 /\ at <= Len(st.mem)
      BY <1>1 DEF HasRoom
    <2> QED  BY <2>1, <2>2, <2>3, <2>4
  <1>3. a.used = st.used /\ a.i = at /\ a.h = st.h /\ a.mem = st.mem
    BY <1>1, AlignedStays DEF HasRoom
  <1>4. turned \in PackStates(len)
    <2> HIDE DEF a
    <2> QED  BY <1>1, TurnStays DEF Stays
  <1>5. /\ turned.mem \in [1 .. len -> Bytes] /\ Len(turned.mem) = len
        /\ turned.i \in Nat /\ turned.used \in Nat
    <2> HIDE DEF turned
    <2>1. turned.mem \in [1 .. len -> Bytes] /\ turned.i \in Nat /\ turned.used \in Nat
      BY <1>4 DEF PackStates
    <2> QED  BY <2>1, FunctionIsSeq
  <1>6. new.mem = turned.mem /\ new.i = turned.i /\ new.h = turned.h
        /\ new.used = Used(turned.used, o)
    <2> HIDE DEF turned, new
    <2> QED  BY <1>1, <1>4 DEF Counted, Used, PackStates
  <1> HIDE DEF new, a, skip, at
  <1>7. CASE TakesArgument(o)
    <2>1. ~refused
      <3> SUFFICES ASSUME refused  PROVE FALSE
        OBVIOUS
      <3>1. Len(args) = a.used \/ ~Packable(o, args[a.used + 1])
        BY <1>3
      <3>2. turned = Ended(a, "error")
        BY <1>7, <3>1, TurnCases
      <3>3. turned.end = "error"
        <4> HIDE DEF turned
        <4> QED  BY <1>1, <3>2, EndedState
      <3> QED  BY <1>1, <3>3
    <2> DEFINE pieces == Pieces(st.h, o, x)
    <2>2. ArePieces(pieces)
      BY <1>2, <1>7, <2>1, PiecesAreBytes
    <2>3. turned = PutAll(a, pieces)
      <3>1. ~(Len(args) = a.used \/ ~Packable(o, args[a.used + 1]))
        BY <1>3, <2>1
      <3>2. turned = PutAll(a, Pieces(a.h, o, args[a.used + 1]))
        BY <1>7, <3>1, TurnCases
      <3> QED  BY <1>3, <3>2
    <2> HIDE DEF turned, pieces
    <2>4. /\ Laid(turned.mem, at, pieces, turned.i) /\ turned.i <= len /\ turned.i >= at
          /\ turned.h = st.h /\ turned.used = st.used
      BY <1>1, <1>3, <2>2, <2>3, PutAllLies
    <2>5. Holds(turned.mem, o, st.h, st.i, x, turned.i)
      <3>1. skip >= 0 /\ at <= turned.i /\ turned.i <= Len(turned.mem) /\ Packable(o, x)
        BY <1>2, <1>5, <2>1, <2>4
      <3> QED  BY <1>7, <2>4, <3>1, HoldsCases DEF skip, at, pieces
    <2>6. Configured(st.h, o) = st.h
      BY <1>7, ConfiguresNothing
    <2> QED  BY <1>6, <2>1, <2>4, <2>5, <2>6 DEF new
  <1>8. CASE o.k = "pad"
    <2>1. ~TakesArgument(o)
      BY <1>8 DEF TakesArgument
    <2>2. a.i < Len(a.mem) /\ turned = [a EXCEPT !.i = @ + 1]
      <3>1. ~(a.i < Len(a.mem)) => turned = Ended(a, "failed")
        BY <1>8, TurnCases
      <3>2. a.i < Len(a.mem) => turned = [a EXCEPT !.i = @ + 1]
        BY <1>8, TurnCases
      <3>3. Ended(a, "failed").end = "failed"
        BY <1>1, EndedState
      <3> HIDE DEF turned
      <3> QED  BY <1>1, <3>1, <3>2, <3>3
    <2> HIDE DEF turned
    <2>3. /\ turned.i = at + 1 /\ turned.h = st.h /\ turned.used = st.used
          /\ turned.mem = st.mem
      BY <1>1, <1>3, <2>2 DEF PackStates
    <2>4. at \in Nat /\ at + 1 <= len
      BY <1>2, <1>3, <2>2 DEF at
    <2>5. Holds(turned.mem, o, st.h, st.i, x, turned.i)
      BY <1>2, <1>8, <2>1, <2>3, <2>4 DEF Holds, skip, at
    <2>6. Configured(st.h, o) = st.h
      BY <1>8, ConfiguresNothing
    <2> QED  BY <1>6, <2>1, <2>3, <2>5, <2>6 DEF new
  <1>9. CASE ~TakesArgument(o) /\ o.k # "pad"
    <2>1. turned = [a EXCEPT !.h = Configured(a.h, o)]
      BY <1>9, TurnCases
    <2> HIDE DEF turned
    <2>2. /\ turned.i = at /\ turned.h = Configured(st.h, o) /\ turned.used = st.used
          /\ turned.mem = st.mem
      BY <1>1, <1>3, <2>1 DEF PackStates
    <2>3. at \in Nat /\ at <= len
      BY <1>2 DEF at
    <2>4. Holds(turned.mem, o, st.h, st.i, x, turned.i)
      BY <1>2, <1>9, <2>2, <2>3 DEF Holds, skip, at
    <2> QED  BY <1>6, <1>9, <2>2, <2>4 DEF new
  <1> QED  BY <1>7, <1>8, <1>9

\* A piece that lies there already is written without a change.
LEMMA PutHere ==
    ASSUME NEW len \in Nat, NEW st \in PackStates(len), NEW piece \in Seq(Bytes),
           st.end = "running", st.i + Len(piece) <= len, Lies(st.mem, st.i, piece)
    PROVE  LET new == Put(st, piece) IN
           /\ new \in PackStates(len) /\ new.end = "running" /\ new.mem = st.mem
           /\ new.i = st.i + Len(piece) /\ new.h = st.h /\ new.used = st.used
  <1>1. st.mem \in [1 .. len -> Bytes] /\ st.i \in Nat /\ Len(piece) \in Nat
    BY DEF PackStates
  <1>2. ~(st.i + Len(piece) > len)
    BY <1>1
  <1>3. /\ Put(st, piece) \in PackStates(len) /\ Put(st, piece).end = "running"
        /\ Put(st, piece).mem = Written(st.mem, len, st.i, piece)
        /\ Put(st, piece).i = st.i + Len(piece)
        /\ Put(st, piece).h = st.h /\ Put(st, piece).used = st.used
    BY <1>2, PutCases
  <1>4. Written(st.mem, len, st.i, piece) = st.mem
    <2> DEFINE new == Written(st.mem, len, st.i, piece)
    <2>1. ASSUME NEW d \in 1 .. len  PROVE new[d] = st.mem[d]
      <3>1. CASE d \in st.i + 1 .. st.i + Len(piece)
        <4>1. d - st.i \in 1 .. Len(piece) /\ st.i + (d - st.i) = d
          BY <1>1, <3>1
        <4>2. new[d] = piece[d - st.i]
          BY <3>1 DEF Written
        <4> HIDE DEF new
        <4> QED  BY <4>1, <4>2 DEF Lies
      <3>2. CASE d \notin st.i + 1 .. st.i + Len(piece)
        BY <3>2 DEF Written
      <3> QED  BY <3>1, <3>2
    <2>2. new = [d \in 1 .. len |-> new[d]]
      BY DEF Written
    <2> HIDE DEF new
    <2>3. new = st.mem
      BY <1>1, <2>1, <2>2
    <2> QED  BY <2>3 DEF new
  <1> QED  BY <1>3, <1>4

\* So are all pieces.
LEMMA PutAllHere ==
    ASSUME NEW len \in Nat, NEW a \in PackStates(len), NEW pieces, ArePieces(pieces),
           a.end = "running", NEW to \in Nat, to <= len, Laid(a.mem, a.i, pieces, to)
    PROVE  LET new == PutAll(a, pieces) IN
           /\ new \in PackStates(len) /\ new.end = "running" /\ new.mem = a.mem
           /\ new.i = to /\ new.h = a.h /\ new.used = a.used
  <1> DEFINE one == Put(a, pieces[1])
             new == PutAll(a, pieces)
  <1>1. /\ pieces[1] \in Seq(Bytes) /\ Len(pieces) \in 1 .. 2 /\ a.i \in Nat
        /\ Len(pieces[1]) \in Nat
    <2>1. pieces[1] \in Seq(Bytes) /\ Len(pieces) \in 1 .. 2
      BY DEF ArePieces
    <2> QED  BY <2>1 DEF PackStates
  <1>2. CASE Len(pieces) = 1
    <2>1. Lies(a.mem, a.i, pieces[1]) /\ to = a.i + Len(pieces[1])
      BY <1>2 DEF Laid
    <2>2. new = one
      BY <1>2 DEF PutAll
    <2> HIDE DEF new
    <2> QED  BY <1>1, <2>1, <2>2, PutHere DEF new
  <1>3. CASE Len(pieces) = 2
    <2>1. pieces[2] \in Seq(Bytes) /\ Len(pieces[2]) \in Nat
      <3>1. pieces[2] \in Seq(Bytes)
        BY <1>3 DEF ArePieces
      <3> QED  BY <3>1
    <2>2. /\ Lies(a.mem, a.i, pieces[1]) /\ Lies(a.mem, a.i + Len(pieces[1]), pieces[2])
          /\ to = a.i + Len(pieces[1]) + Len(pieces[2])
      BY <1>3 DEF Laid
    <2>3. a.i + Len(pieces[1]) <= len
      BY <1>1, <2>1, <2>2
    <2>4. /\ one \in PackStates(len) /\ one.end = "running" /\ one.mem = a.mem
          /\ one.i = a.i + Len(pieces[1]) /\ one.h = a.h /\ one.used = a.used
      BY <1>1, <2>2, <2>3, PutHere
    <2>5. new = Put(one, pieces[2])
      BY <1>3 DEF PutAll
    <2> HIDE DEF one, new
    <2>6. one.i + Len(pieces[2]) <= len /\ Lies(one.mem, one.i, pieces[2])
      BY <2>2, <2>4
    <2>7. /\ new \in PackStates(len) /\ new.end = "running" /\ new.mem = one.mem
          /\ new.i = one.i + Len(pieces[2]) /\ new.h = one.h /\ new.used = one.used
      BY <2>1, <2>4, <2>5, <2>6, PutHere
    <2> QED  BY <2>2, <2>4, <2>7 DEF new
  <1> QED  BY <1>1, <1>2, <1>3

\* An option that takes an argument finds x behind the first u arguments.
GoesOn(o, args, u, x) == TakesArgument(o) => Len(args) # u /\ args[u + 1] = x

\* new follows from st when byte to is reached and nothing is changed.
Passes(len, st, o, new, to) ==
    /\ new \in PackStates(len) /\ new.end = "running" /\ new.mem = st.mem
    /\ new.i = to /\ new.h = Configured(st.h, o) /\ new.used = Used(st.used, o)

\* An option whose bytes are there already is packed without a change.
LEMMA HoldsPack ==
    ASSUME NEW len \in Nat, NEW st \in PackStates(len), NEW o \in Options,
           NEW args, NEW no \in BOOLEAN, ~no, NEW x, NEW to \in Nat,
           st.end = "running", Holds(st.mem, o, st.h, st.i, x, to),
           GoesOn(o, args, st.used, x)
    PROVE  Passes(len, st, o, PackOption(st, o, args, no), to)
  <1> DEFINE a == Aligned(st, o)
             new == PackOption(st, o, args, no)
             turned == Turn(a, o, args)
             skip == ToAlign(st.h, o, st.i)
             at == st.i + skip
             pieces == Pieces(st.h, o, x)
  <1>1. /\ st.i \in Nat /\ st.h \in Headers /\ st.used \in Nat /\ Len(st.mem) = len
    <2>1. /\ st.mem \in [1 .. len -> Bytes] /\ st.i \in Nat /\ st.h \in Headers
          /\ st.used \in Nat
      BY DEF PackStates
    <2> QED  BY <2>1, FunctionIsSeq
  <1>2. /\ skip \in Int /\ skip >= 0 /\ at <= to /\ to <= len
    <2>1. skip \in Int
      BY <1>1, AlignmentIsInt
    <2>2. skip >= 0 /\ at <= to /\ to <= Len(st.mem)
      BY DEF Holds
    <2> QED  BY <1>1, <2>1, <2>2
  <1>3. HasRoom(st, o, no)
    <2>1. at <= len
      BY <1>1, <1>2
    <2> QED  BY <1>1, <1>2, <2>1 DEF HasRoom
  <1>4. /\ a \in PackStates(len) /\ a.end = "running" /\ a.used = st.used /\ a.i = at
        /\ a.h = st.h /\ a.mem = st.mem
    BY <1>2, AlignedStays
  <1>5. new = IF turned.end # "running" THEN turned ELSE Counted(turned, o)
    BY <1>3, OptionTurns
  <1> HIDE DEF a, new, skip, at
  <1>6. SUFFICES /\ turned \in PackStates(len) /\ turned.end = "running"
                 /\ turned.mem = st.mem /\ turned.i = to
                 /\ turned.h = Configured(st.h, o) /\ turned.used = st.used
    <2> HIDE DEF turned
    <2>1. new = Counted(turned, o)
      BY <1>5, <1>6
    <2>2. new \in PackStates(len)
      BY <1>6, <2>1 DEF Counted, PackStates
    <2>3. /\ new.end = "running" /\ new.mem = st.mem /\ new.i = to
          /\ new.h = Configured(st.h, o) /\ new.used = Used(st.used, o)
      BY <1>6, <2>1 DEF Counted, Used, PackStates
    <2> QED  BY <2>2, <2>3 DEF new, Passes
  <1>7. CASE TakesArgument(o)
    <2>1. Packable(o, x) /\ Laid(st.mem, at, pieces, to)
      BY <1>7, HoldsCases DEF skip, at
    <2>2. ArePieces(pieces)
      BY <1>1, <1>7, <2>1, PiecesAreBytes
    <2>3. turned = PutAll(a, pieces)
      <3>1. ~(Len(args) = a.used \/ ~Packable(o, args[a.used + 1]))
        BY <1>4, <1>7, <2>1 DEF GoesOn
      <3>2. turned = PutAll(a, Pieces(a.h, o, args[a.used + 1]))
        BY <1>7, <3>1, TurnCases
      <3> QED  BY <1>4, <1>7, <3>2 DEF GoesOn
    <2> HIDE DEF turned, pieces
    <2>4. Configured(st.h, o) = st.h
      BY <1>7, ConfiguresNothing
    <2>5. Laid(a.mem, a.i, pieces, to)
      BY <1>4, <2>1
    <2>6. /\ turned \in PackStates(len) /\ turned.end = "running" /\ turned.mem = a.mem
          /\ turned.i = to /\ turned.h = a.h /\ turned.used = a.used
      BY <1>2, <1>4, <2>2, <2>3, <2>5, PutAllHere
    <2> QED  BY <1>4, <2>4, <2>6 DEF turned
  <1>8. CASE o.k = "pad"
    <2>1. ~TakesArgument(o)
      BY <1>8 DEF TakesArgument
    <2>2. to = at + 1
      BY <1>8, <2>1 DEF Holds, skip, at
    <2>3. a.i < Len(a.mem)
      BY <1>1, <1>2, <1>4, <2>2 DEF at
    <2>4. turned = [a EXCEPT !.i = @ + 1]
      BY <1>8, <2>3, TurnCases
    <2>5. Configured(st.h, o) = st.h
      BY <1>8, ConfiguresNothing
    <2> HIDE DEF turned
    <2> QED  BY <1>4, <2>2, <2>4, <2>5 DEF PackStates, turned
  <1>9. CASE ~TakesArgument(o) /\ o.k # "pad"
    <2>1. turned = [a EXCEPT !.h = Configured(a.h, o)]
      BY <1>9, TurnCases
    <2>2. to = at
      BY <1>9 DEF Holds, skip, at
    <2>3. Configured(st.h, o) \in Headers
      BY <1>1, ConfiguredIsHeader
    <2> HIDE DEF turned
    <2> QED  BY <1>4, <2>1, <2>2, <2>3 DEF PackStates, turned
  <1> QED  BY <1>7, <1>8, <1>9
-----------------------------------------------------------------------------
\* mem_unpack reads what the bytes hold, and nothing else.

\* What mem_unpack can return.
Unpackables == Int \cup Seq(Bytes)

\* The states of its loop.
UnpackStates ==
    [i : Nat, h : Headers, values : Seq(Unpackables), end : {"running", "error"}]

\* After an option that was read, with what it holds,
Yielded(st, o, x, to) ==
    IF TakesArgument(o) THEN [st EXCEPT !.i = to, !.values = Append(@, x)]
    ELSE [st EXCEPT !.i = to, !.h = Configured(st.h, o)]

\* or was not.
Refused(st) == [st EXCEPT !.end = "error"]

\* The bytes of an integer or of a length, read.
Word(data, h, at, n, signed) ==
    FromDigits(Ordered(h, SubSeq(data, at + 1, at + n)), signed)

\* The positions of zeros behind byte at, and the first one.
ZerosBehind(data, at) == {d \in at + 1 .. Len(data) : data[d] = 0}
FirstZero(data, at) ==
    CHOOSE d \in ZerosBehind(data, at) : \A e \in ZerosBehind(data, at) : d <= e

\* A turn of mem_unpack's loop, by the option: there is no room for it,
LEMMA UnpackStops ==
    ASSUME NEW st, st.end = "running", NEW o, NEW data,
           NEW size, size = (IF TakesArgument(o) /\ o.k # "zstr" THEN o.n
                             ELSE IF o.k = "pad" THEN 1 ELSE 0),
           ToAlign(st.h, o, st.i) < 0
             \/ ToAlign(st.h, o, st.i) + size > Len(data) - st.i
    PROVE  UnpackOption(st, o, data) = Refused(st)
  <1>1. st.end # "error"
    OBVIOUS
  <1>2. o.k = "pad" => ~TakesArgument(o)
    BY DEF TakesArgument
  <1>3. size = CASE TakesArgument(o) /\ o.k # "zstr" -> o.n
                 [] o.k = "pad" -> 1
                 [] OTHER -> 0
    BY <1>2
  <1> QED  BY <1>1, <1>3 DEF UnpackOption, Refused

\* it is an integer,
LEMMA UnpackInteger ==
    ASSUME NEW st, st.end = "running", NEW o, NEW data, o.k \in {"int", "uint"},
           NEW at, at = st.i + ToAlign(st.h, o, st.i),
           ~(ToAlign(st.h, o, st.i) < 0), ~(ToAlign(st.h, o, st.i) + o.n > Len(data) - st.i)
    PROVE  LET int == Word(data, st.h, at, o.n, o.k = "int") IN
           UnpackOption(st, o, data) =
              IF int = Fault THEN Refused(st) ELSE Yielded(st, o, int, at + o.n)
  <1>1. st.end # "error" /\ TakesArgument(o) /\ o.k # "zstr"
    BY DEF TakesArgument
  <1> DEFINE int == Word(data, st.h, at, o.n, o.k = "int")
  <1>2. UnpackOption(st, o, data) =
           IF int = Fault THEN Refused(st)
           ELSE [st EXCEPT !.i = at + o.n, !.values = Append(@, int)]
    BY <1>1 DEF UnpackOption, Refused, Word
  <1> HIDE DEF int
  <1> QED  BY <1>1, <1>2 DEF Yielded, int

\* a string of fixed size,
LEMMA UnpackChars ==
    ASSUME NEW st, st.end = "running", NEW o, NEW data, o.k = "char",
           NEW at, at = st.i + ToAlign(st.h, o, st.i),
           ~(ToAlign(st.h, o, st.i) < 0), ~(ToAlign(st.h, o, st.i) + o.n > Len(data) - st.i)
    PROVE  UnpackOption(st, o, data) =
              Yielded(st, o, SubSeq(data, at + 1, at + o.n), at + o.n)
  <1>1. st.end # "error" /\ TakesArgument(o) /\ o.k # "zstr"
    BY DEF TakesArgument
  <1> DEFINE x == SubSeq(data, at + 1, at + o.n)
  <1>2. UnpackOption(st, o, data) = [st EXCEPT !.i = at + o.n, !.values = Append(@, x)]
    BY <1>1 DEF UnpackOption
  <1> HIDE DEF x
  <1> QED  BY <1>1, <1>2 DEF Yielded, x

\* a string behind its length,
LEMMA UnpackString ==
    ASSUME NEW st, st.end = "running", NEW o, NEW data, o.k = "string",
           NEW at, at = st.i + ToAlign(st.h, o, st.i),
           ~(ToAlign(st.h, o, st.i) < 0), ~(ToAlign(st.h, o, st.i) + o.n > Len(data) - st.i)
    PROVE  LET int == Word(data, st.h, at, o.n, FALSE)
               len == int % Power[SzInt]
           IN  UnpackOption(st, o, data) =
                  IF int = Fault \/ len > Len(data) - at - o.n THEN Refused(st)
                  ELSE Yielded(st, o, SubSeq(data, at + o.n + 1, at + o.n + len),
                            at + o.n + len)
  <1>1. st.end # "error" /\ TakesArgument(o) /\ o.k # "zstr"
    BY DEF TakesArgument
  <1> DEFINE int == Word(data, st.h, at, o.n, o.k = "int")
             len == int % Power[SzInt]
             x == SubSeq(data, at + o.n + 1, at + o.n + len)
  <1>2. UnpackOption(st, o, data) =
           IF int = Fault THEN Refused(st)
           ELSE IF len > Len(data) - at - o.n THEN Refused(st)
           ELSE [st EXCEPT !.i = at + o.n + len, !.values = Append(@, x)]
    BY <1>1 DEF UnpackOption, Refused, Word
  <1>3. (o.k = "int") = FALSE
    OBVIOUS
  <1>4. int = Word(data, st.h, at, o.n, FALSE)
    BY <1>3
  <1> HIDE DEF int
  <1>5. UnpackOption(st, o, data) =
           IF int = Fault \/ len > Len(data) - at - o.n THEN Refused(st)
           ELSE Yielded(st, o, x, at + o.n + len)
    <2> HIDE DEF x, len
    <2> QED  BY <1>1, <1>2 DEF Yielded
  <1> QED  BY <1>4, <1>5

\* a string up to its zero,
LEMMA UnpackZString ==
    ASSUME NEW st, st.end = "running", NEW o, NEW data, o.k = "zstr",
           NEW at, at = st.i + ToAlign(st.h, o, st.i),
           ~(ToAlign(st.h, o, st.i) < 0), ~(ToAlign(st.h, o, st.i) + 0 > Len(data) - st.i)
    PROVE  UnpackOption(st, o, data) =
              IF ZerosBehind(data, at) = {} THEN Refused(st)
              ELSE Yielded(st, o, SubSeq(data, at + 1, FirstZero(data, at) - 1),
                        FirstZero(data, at))
  <1>1. st.end # "error" /\ TakesArgument(o) /\ o.k = "zstr" /\ o.k # "pad"
    BY DEF TakesArgument
  <1> DEFINE zero == FirstZero(data, at)
             x == SubSeq(data, at + 1, zero - 1)
  <1>2. UnpackOption(st, o, data) =
           IF ZerosBehind(data, at) = {} THEN Refused(st)
           ELSE [st EXCEPT !.i = zero, !.values = Append(@, x)]
    BY <1>1 DEF UnpackOption, Refused, ZerosBehind, FirstZero
  <1> HIDE DEF x, zero
  <1> QED  BY <1>1, <1>2 DEF Yielded, x, zero

\* or takes no argument.
LEMMA UnpackNothing ==
    ASSUME NEW st, st.end = "running", NEW o, NEW data, ~TakesArgument(o),
           NEW size, size = (IF o.k = "pad" THEN 1 ELSE 0),
           NEW at, at = st.i + ToAlign(st.h, o, st.i), NEW x,
           ~(ToAlign(st.h, o, st.i) < 0), ~(ToAlign(st.h, o, st.i) + size > Len(data) - st.i)
    PROVE  UnpackOption(st, o, data) = Yielded(st, o, x, at + size)
  <1>1. st.end # "error" /\ o.k \notin {"int", "uint", "char", "string", "zstr"}
    BY DEF TakesArgument
  <1>2. size = CASE TakesArgument(o) /\ o.k # "zstr" -> o.n
                 [] o.k = "pad" -> 1
                 [] OTHER -> 0
    OBVIOUS
  <1>3. UnpackOption(st, o, data) = [st EXCEPT !.i = at + size, !.h = Configured(st.h, o)]
    BY <1>1, <1>2 DEF UnpackOption
  <1> QED  BY <1>3 DEF Yielded

\* mem_unpack has ended with an error.
LEMMA UnpackEnded ==
    ASSUME NEW st, st.end = "error", NEW o, NEW data
    PROVE  UnpackOption(st, o, data) = st
  BY DEF UnpackOption

\* The numbers that a turn of mem_unpack's loop computes with.
LEMMA UnpackNumbers ==
    ASSUME NEW data \in Seq(Bytes), NEW o \in Options, NEW st \in UnpackStates
    PROVE  /\ st.i \in Nat /\ st.h \in Headers /\ o.n \in Nat /\ Len(data) \in Nat
           /\ ToAlign(st.h, o, st.i) \in Int
  <1>1. st.i \in Nat /\ st.h \in Headers /\ o.n \in Nat /\ Len(data) \in Nat
    BY DEF UnpackStates, Options
  <1> QED  BY <1>1, AlignmentIsInt

\* What mem_pack does with integers, signed or not.
LEMMA IntegerPieces ==
    ASSUME NEW o \in Options, o.k \in {"int", "uint"}, NEW h, NEW x
    PROVE  LET signed == o.k = "int" IN
           /\ Packable(o, x) <=> Accepted(x, o.n, signed)
           /\ Pieces(h, o, x) = <<Ordered(h, Digits(x, o.n, signed /\ x < 0))>>
  <1> DEFINE signed == o.k = "int"
  <1>1. CASE o.k = "int"
    <2>1. signed <=> TRUE
      BY <1>1
    <2>2. Pieces(h, o, x) = <<Ordered(h, Digits(x, o.n, x < 0))>>
      BY <1>1 DEF Pieces
    <2>3. Packable(o, x) <=> Accepted(x, o.n, TRUE)
      BY <1>1 DEF Packable, HasType, Accepted
    <2>4. Digits(x, o.n, signed /\ x < 0) = Digits(x, o.n, x < 0)
      BY <2>1 DEF Digits
    <2>5. Accepted(x, o.n, signed) <=> Accepted(x, o.n, TRUE)
      BY <2>1 DEF Accepted
    <2> DEFINE left == Digits(x, o.n, signed /\ x < 0)
               right == Digits(x, o.n, x < 0)
    <2>6. left = right
      BY <2>4
    <2> HIDE DEF left, right
    <2>7. Pieces(h, o, x) = <<Ordered(h, left)>>
      BY <2>2, <2>6 DEF right
    <2> QED  BY <2>3, <2>5, <2>7 DEF left
  <1>2. CASE o.k = "uint"
    <2>1. signed = FALSE /\ (signed /\ x < 0) = FALSE
      BY <1>2
    <2>2. Pieces(h, o, x) = <<Ordered(h, Digits(x, o.n, FALSE))>>
      BY <1>2 DEF Pieces
    <2>3. Packable(o, x) <=> Accepted(x, o.n, FALSE)
      BY <1>2 DEF Packable, HasType, Accepted
    <2> QED  BY <2>1, <2>2, <2>3
  <1> QED  BY <1>1, <1>2

\* The first zero, if there is one.
LEMMA FirstZeroIs ==
    ASSUME NEW data \in Seq(Bytes), NEW at \in Nat
    PROVE  /\ \A z \in ZerosBehind(data, at) :
                 (\A e \in ZerosBehind(data, at) : z <= e) => FirstZero(data, at) = z
           /\ ZerosBehind(data, at) # {} =>
                 /\ FirstZero(data, at) \in ZerosBehind(data, at)
                 /\ \A e \in ZerosBehind(data, at) : FirstZero(data, at) <= e
  <1> DEFINE Z == ZerosBehind(data, at)
  <1>1. Z \in SUBSET Nat
    BY DEF ZerosBehind
  <1>2. FirstZero(data, at) = CHOOSE d \in Z : \A e \in Z : d <= e
    BY DEF FirstZero
  <1> HIDE DEF Z
  <1>3. ASSUME NEW z \in Z, \A e \in Z : z <= e  PROVE FirstZero(data, at) = z
    <2>1. ASSUME NEW d \in Z, \A e \in Z : d <= e  PROVE d = z
      BY <1>1, <1>3, <2>1
    <2> QED  BY <1>2, <1>3, <2>1
  <1>4. ASSUME Z # {}
        PROVE  FirstZero(data, at) \in Z /\ \A e \in Z : FirstZero(data, at) <= e
    <2>1. PICK m \in Z : \A e \in Z : m <= e
      BY <1>1, <1>4, Least
    <2> QED  BY <1>2, <2>1
  <1> QED  BY <1>3, <1>4 DEF Z

\* mem_unpack reads what the bytes hold.
LEMMA HoldsUnpack ==
    ASSUME NEW data \in Seq(Bytes), NEW o \in Options, NEW st \in UnpackStates,
           st.end = "running", NEW x, NEW to \in Nat, Holds(data, o, st.h, st.i, x, to)
    PROVE  UnpackOption(st, o, data) = Yielded(st, o, x, to)
  <1> DEFINE skip == ToAlign(st.h, o, st.i)
             at == st.i + skip
             pieces == Pieces(st.h, o, x)
  <1>1. /\ st.i \in Nat /\ st.h \in Headers /\ o.n \in Nat /\ Len(data) \in Nat
        /\ skip \in Int
    BY UnpackNumbers
  <1>2. skip >= 0 /\ at <= to /\ to <= Len(data)
    BY HoldsCases DEF Holds
  <1>3. ~(skip < 0) /\ at \in Nat
    BY <1>1, <1>2
  <1>4. ASSUME NEW n \in Nat, at + n <= to  PROVE ~(skip + n > Len(data) - st.i)
    BY <1>1, <1>2, <1>4
  <1>5. TakesArgument(o) => Packable(o, x) /\ Laid(data, at, pieces, to)
    BY HoldsCases
  <1>6. CASE o.k \in {"int", "uint"}
    <2> DEFINE signed == o.k = "int"
               digits == Digits(x, o.n, signed /\ x < 0)
    <2>1. TakesArgument(o)
      BY <1>6 DEF TakesArgument
    <2>2. Accepted(x, o.n, signed) /\ pieces = <<Ordered(st.h, digits)>>
      BY <1>5, <1>6, <2>1, IntegerPieces
    <2>3. digits \in Seq(Bytes) /\ Len(digits) = o.n
      <3>1. x \in Int /\ (signed /\ x < 0) \in BOOLEAN
        BY <2>2 DEF Accepted, FitsInteger
      <3> QED  BY <1>1, <3>1, DigitsOf
    <2>4. FromDigits(digits, signed) = x
      <3>1. signed \in BOOLEAN
        OBVIOUS
      <3> HIDE DEF signed
      <3> QED  BY <1>1, <2>2, <3>1, IntegerReturns
    <2> HIDE DEF digits
    <2> DEFINE piece == Ordered(st.h, digits)
    <2>5. piece \in Seq(Bytes) /\ Len(piece) = o.n /\ Ordered(st.h, piece) = digits
      BY <2>3, OrderedTwice
    <2> HIDE DEF piece
    <2>6. Lies(data, at, piece) /\ to = at + o.n
      <3>1. Len(pieces) = 1 /\ pieces[1] = piece
        BY <2>2 DEF piece
      <3> HIDE DEF pieces
      <3> QED  BY <1>5, <2>1, <2>5, <3>1 DEF Laid
    <2>7. SubSeq(data, at + 1, at + o.n) = piece
      <3> HIDE DEF at
      <3> QED  BY <1>2, <1>3, <2>5, <2>6, LiesRead
    <2>8. Word(data, st.h, at, o.n, signed) = x
      BY <2>4, <2>5, <2>7 DEF Word
    <2>9. x # Fault
      BY <2>2, FaultAssumption DEF Accepted, FitsInteger
    <2>10. ~(skip + o.n > Len(data) - st.i)
      BY <1>1, <1>4, <2>6
    <2>11. UnpackOption(st, o, data) =
              IF Word(data, st.h, at, o.n, signed) = Fault THEN Refused(st)
              ELSE Yielded(st, o, Word(data, st.h, at, o.n, signed), at + o.n)
      BY <1>3, <1>6, <2>10, UnpackInteger
    <2> HIDE DEF at, signed
    <2> QED  BY <2>6, <2>8, <2>9, <2>11
  <1>7. CASE o.k = "char"
    <2>1. TakesArgument(o)
      BY <1>7 DEF TakesArgument
    <2>2. x \in Seq(Bytes) /\ Len(x) = o.n /\ pieces = <<x>>
      BY <1>5, <1>7, <2>1 DEF Packable, HasType, Pieces
    <2>3. Lies(data, at, x) /\ to = at + o.n
      <3>1. Len(pieces) = 1 /\ pieces[1] = x
        BY <2>2
      <3> HIDE DEF pieces
      <3> QED  BY <1>5, <2>1, <2>2, <3>1 DEF Laid
    <2>4. SubSeq(data, at + 1, at + o.n) = x
      <3> HIDE DEF at
      <3> QED  BY <1>2, <1>3, <2>2, <2>3, LiesRead
    <2>5. ~(skip + o.n > Len(data) - st.i)
      BY <1>1, <1>4, <2>3
    <2>6. UnpackOption(st, o, data) = Yielded(st, o, SubSeq(data, at + 1, at + o.n), at + o.n)
      BY <1>3, <1>7, <2>5, UnpackChars
    <2> QED  BY <2>3, <2>4, <2>6
  <1>8. CASE o.k = "string"
    <2> DEFINE digits == Digits(Len(x), o.n, FALSE)
               piece == Ordered(st.h, digits)
               int == Word(data, st.h, at, o.n, FALSE)
    <2>1. TakesArgument(o)
      BY <1>8 DEF TakesArgument
    <2>2. /\ x \in Seq(Bytes) /\ Len(x) < Power[SzInt] /\ Len(x) \in Nat
          /\ o.n < SzInt => Len(x) < Power[o.n]
      <3>1. /\ x \in Seq(Bytes) /\ Len(x) < Power[SzInt]
            /\ o.n < SzInt => Len(x) < Power[o.n]
        BY <1>5, <1>8, <2>1 DEF Packable, HasType
      <3> QED  BY <3>1
    <2>3. pieces = <<piece, x>>
      BY <1>8 DEF Pieces
    <2>4. digits \in Seq(Bytes) /\ Len(digits) = o.n
      <3>1. Len(x) \in Int /\ FALSE \in BOOLEAN
        BY <2>2
      <3> QED  BY <1>1, <3>1, DigitsOf
    <2>5. LET y == FromDigits(digits, FALSE) IN y # Fault /\ y % Power[SzInt] = Len(x)
      BY <1>1, <2>2, LengthReturns
    <2> HIDE DEF digits
    <2>6. piece \in Seq(Bytes) /\ Len(piece) = o.n /\ Ordered(st.h, piece) = digits
      BY <2>4, OrderedTwice
    <2> HIDE DEF piece
    <2>7. /\ Lies(data, at, piece) /\ Lies(data, at + o.n, x)
          /\ to = at + o.n + Len(x)
      <3>1. Len(pieces) = 2 /\ pieces[1] = piece /\ pieces[2] = x
        BY <2>3
      <3> HIDE DEF pieces
      <3> QED  BY <1>5, <2>1, <2>6, <3>1 DEF Laid
    <2>8. at + o.n \in Nat /\ at + o.n <= Len(data) /\ at + o.n + Len(x) <= Len(data)
          /\ at + o.n <= to
      BY <1>1, <1>2, <1>3, <2>2, <2>7
    <2>9. SubSeq(data, at + 1, at + o.n) = piece
      <3> HIDE DEF at
      <3> QED  BY <1>3, <2>6, <2>7, <2>8, LiesRead
    <2>10. SubSeq(data, at + o.n + 1, at + o.n + Len(x)) = x
      <3> DEFINE j == at + o.n
      <3>1. j \in Nat /\ j + Len(x) <= Len(data) /\ Lies(data, j, x)
        BY <2>7, <2>8
      <3> HIDE DEF j
      <3>2. SubSeq(data, j + 1, j + Len(x)) = x
        BY <2>2, <3>1, LiesRead
      <3> QED  BY <3>2 DEF j
    <2>11. int # Fault /\ int % Power[SzInt] = Len(x)
      BY <2>5, <2>6, <2>9 DEF Word
    <2>12. ~(skip + o.n > Len(data) - st.i)
      BY <1>1, <1>4, <2>8
    <2>13. UnpackOption(st, o, data) =
              IF int = Fault \/ int % Power[SzInt] > Len(data) - at - o.n THEN Refused(st)
              ELSE Yielded(st, o, SubSeq(data, at + o.n + 1, at + o.n + (int % Power[SzInt])),
                           at + o.n + (int % Power[SzInt]))
      BY <1>3, <1>8, <2>12, UnpackString
    <2> HIDE DEF int
    <2>14. ~(Len(x) > Len(data) - at - o.n)
      BY <1>1, <1>3, <2>2, <2>8
    <2> HIDE DEF at
    <2> QED  BY <2>7, <2>10, <2>11, <2>13, <2>14
  <1>9. CASE o.k = "zstr"
    <2> DEFINE Z == ZerosBehind(data, at)
    <2>1. TakesArgument(o)
      BY <1>9 DEF TakesArgument
    <2>2. /\ x \in Seq(Bytes) /\ Len(x) \in Nat /\ DOMAIN x = 1 .. Len(x)
          /\ \A k \in 1 .. Len(x) : x[k] # 0
      <3>1. x \in Seq(Bytes) /\ 0 \notin {x[d] : d \in DOMAIN x}
        BY <1>5, <1>9, <2>1 DEF Packable, HasType
      <3>2. DOMAIN x = 1 .. Len(x) /\ Len(x) \in Nat
        BY <3>1, SeqIsFunction
      <3> QED  BY <3>1, <3>2
    <2>3. Lies(data, at, x) /\ Lies(data, at + Len(x), <<0>>) /\ to = at + Len(x) + 1
      <3>1. pieces = <<x, <<0>>>>
        BY <1>9 DEF Pieces
      <3>2. Len(pieces) = 2 /\ pieces[1] = x /\ pieces[2] = <<0>> /\ Len(<<0>>) = 1
        BY <3>1
      <3> HIDE DEF pieces
      <3> QED  BY <1>5, <2>1, <3>2 DEF Laid
    <2>4. data[to] = 0
      <3>1. Len(<<0>>) = 1 /\ <<0>>[1] = 0 /\ 1 \in 1 .. 1
        OBVIOUS
      <3>2. data[at + Len(x) + 1] = 0
        BY <2>3, <3>1 DEF Lies
      <3> QED  BY <2>3, <3>2
    <2>5. to \in Z
      BY <1>2, <1>3, <2>2, <2>3, <2>4 DEF ZerosBehind
    <2>6. ASSUME NEW e \in Z  PROVE to <= e
      <3> SUFFICES ASSUME e < to  PROVE FALSE
        BY <1>3 DEF ZerosBehind
      <3>1. e \in at + 1 .. Len(data) /\ data[e] = 0
        BY DEF ZerosBehind
      <3> DEFINE k == e - at
      <3>2. k \in 1 .. Len(x) /\ at + k = e
        BY <1>3, <2>2, <2>3, <3>1
      <3> HIDE DEF k
      <3>3. data[at + k] = x[k]
        BY <2>3, <3>2 DEF Lies
      <3> QED  BY <2>2, <3>1, <3>2, <3>3
    <2>7. FirstZero(data, at) = to /\ Z # {}
      <3> HIDE DEF at
      <3> QED  BY <1>3, <2>5, <2>6, FirstZeroIs
    <2>8. to - 1 = at + Len(x) /\ at + Len(x) <= Len(data)
      BY <1>2, <1>3, <2>2, <2>3
    <2>9. SubSeq(data, at + 1, to - 1) = x
      <3> HIDE DEF at
      <3> QED  BY <1>3, <2>2, <2>3, <2>8, LiesRead
    <2>10. ~(skip + 0 > Len(data) - st.i)
      <3>1. 0 \in Nat /\ at + 0 <= to
        BY <1>2, <1>3
      <3> QED  BY <1>4, <3>1
    <2>11. UnpackOption(st, o, data) =
              IF Z = {} THEN Refused(st)
              ELSE Yielded(st, o, SubSeq(data, at + 1, FirstZero(data, at) - 1),
                           FirstZero(data, at))
      BY <1>3, <1>9, <2>10, UnpackZString
    <2> HIDE DEF at, Z
    <2> QED  BY <2>7, <2>9, <2>11
  <1>10. CASE ~TakesArgument(o)
    <2> DEFINE size == IF o.k = "pad" THEN 1 ELSE 0
    <2>1. to = at + size /\ size \in Nat
      <3>1. o.k = "pad" => to = at + 1
        BY HoldsCases
      <3>2. o.k # "pad" => to = at
        BY <1>10, HoldsCases
      <3> QED  BY <1>3, <3>1, <3>2
    <2> HIDE DEF size
    <2>2. ~(skip + size > Len(data) - st.i)
      <3>1. at + size <= to
        BY <1>3, <2>1
      <3> QED  BY <1>4, <2>1, <3>1
    <2>3. UnpackOption(st, o, data) = Yielded(st, o, x, at + size)
      BY <1>3, <1>10, <2>2, UnpackNothing DEF size
    <2> QED  BY <2>1, <2>3
  <1> QED  BY <1>6, <1>7, <1>8, <1>9, <1>10 DEF TakesArgument

\* The bytes of an integer that is read are those that are written for it.
LEMMA IntegerReads ==
    ASSUME NEW data \in Seq(Bytes), NEW h, NEW at \in Nat, NEW o \in Options,
           at + o.n <= Len(data), Word(data, h, at, o.n, o.k = "int") # Fault
    PROVE  LET signed == o.k = "int"
               y == Word(data, h, at, o.n, signed)
               piece == Ordered(h, Digits(y, o.n, signed /\ y < 0))
           IN  Accepted(y, o.n, signed) /\ Lies(data, at, piece) /\ Len(piece) = o.n
  <1> DEFINE n == o.n
             read == SubSeq(data, at + 1, at + n)
             digits == Ordered(h, read)
             signed == o.k = "int"
             y == FromDigits(digits, signed)
  <1>1. n \in Nat /\ at + n <= Len(data) /\ signed \in BOOLEAN
    BY DEF Options
  <1>2. y = Word(data, h, at, n, signed) /\ y # Fault
    BY DEF Word
  <1> HIDE DEF n, signed
  <1>3. read \in Seq(Bytes) /\ Len(read) = n /\ Lies(data, at, read)
    BY <1>1, ReadLies
  <1> HIDE DEF read
  <1>4. digits \in Seq(Bytes) /\ Len(digits) = n /\ Ordered(h, digits) = read
    BY <1>3, OrderedTwice
  <1> HIDE DEF digits
  <1>5. /\ Accepted(y, Len(digits), signed)
        /\ Digits(y, Len(digits), signed /\ y < 0) = digits
    BY <1>1, <1>2, <1>4, DigitsReturn
  <1> HIDE DEF y
  <1> DEFINE own == Digits(y, n, signed /\ y < 0)
  <1>6. own = digits /\ Accepted(y, n, signed)
    BY <1>4, <1>5
  <1> HIDE DEF own
  <1>7. Lies(data, at, Ordered(h, own)) /\ Len(Ordered(h, own)) = n
    BY <1>3, <1>4, <1>6
  <1>8. /\ Accepted(y, n, signed)
        /\ Lies(data, at, Ordered(h, Digits(y, n, signed /\ y < 0)))
        /\ Len(Ordered(h, Digits(y, n, signed /\ y < 0))) = n
    BY <1>6, <1>7 DEF own
  <1> QED  BY <1>2, <1>8 DEF n, signed

\* So are those of a length.
LEMMA LengthReads ==
    ASSUME NEW data \in Seq(Bytes), NEW h, NEW at \in Nat, NEW n \in Nat,
           at + n <= Len(data), Word(data, h, at, n, FALSE) # Fault
    PROVE  LET len == Word(data, h, at, n, FALSE) % Power[SzInt]
               word == Ordered(h, Digits(len, n, FALSE))
           IN  /\ Lies(data, at, word) /\ Len(word) = n
               /\ len \in Nat /\ len < Power[SzInt] /\ (n < SzInt => len < Power[n])
  <1> DEFINE read == SubSeq(data, at + 1, at + n)
             digits == Ordered(h, read)
             y == FromDigits(digits, FALSE)
             len == y % Power[SzInt]
  <1>1. read \in Seq(Bytes) /\ Len(read) = n /\ Lies(data, at, read)
    BY ReadLies
  <1>2. y = Word(data, h, at, n, FALSE) /\ y # Fault
    BY DEF Word
  <1> HIDE DEF read
  <1>3. digits \in Seq(Bytes) /\ Len(digits) = n /\ Ordered(h, digits) = read
    BY <1>1, OrderedTwice
  <1> HIDE DEF digits
  <1>4. FALSE \in BOOLEAN /\ ~FALSE
    OBVIOUS
  <1>5. len \in Nat /\ len < Power[SzInt]
    BY <1>2, <1>3, <1>4, DigitsReturn
  <1>6. Digits(len, Len(digits), FALSE) = digits
    BY <1>2, <1>3, <1>4, DigitsReturn
  <1>7. Len(digits) < SzInt => len < Power[Len(digits)]
    BY <1>2, <1>3, <1>4, DigitsReturn
  <1> HIDE DEF len
  <1> DEFINE lens == Digits(len, n, FALSE)
  <1>8. lens = digits
    BY <1>3, <1>6
  <1> HIDE DEF lens
  <1>9. Lies(data, at, Ordered(h, lens)) /\ Len(Ordered(h, lens)) = n
    BY <1>1, <1>3, <1>8
  <1>10. Word(data, h, at, n, FALSE) % Power[SzInt] = len
    BY <1>2 DEF len
  <1>11. n < SzInt => len < Power[n]
    BY <1>3, <1>7
  <1> QED  BY <1>5, <1>9, <1>10, <1>11 DEF lens

\* mem_unpack refuses an option, or reads what the bytes hold.
LEMMA UnpackHolds ==
    ASSUME NEW data \in Seq(Bytes), NEW o \in Options, NEW st \in UnpackStates,
           st.end = "running", UnpackOption(st, o, data) # Refused(st)
    PROVE  \E x \in Unpackables, to \in Nat :
              Holds(data, o, st.h, st.i, x, to)
              /\ UnpackOption(st, o, data) = Yielded(st, o, x, to)
  <1> DEFINE skip == ToAlign(st.h, o, st.i)
             at == st.i + skip
             size == IF TakesArgument(o) /\ o.k # "zstr" THEN o.n
                     ELSE IF o.k = "pad" THEN 1 ELSE 0
  <1>1. /\ st.i \in Nat /\ st.h \in Headers /\ o.n \in Nat /\ Len(data) \in Nat
        /\ skip \in Int
    BY UnpackNumbers
  <1>2. ~(skip < 0) /\ ~(skip + size > Len(data) - st.i)
    BY UnpackStops
  <1>3. size \in Nat
    BY <1>1
  <1>4. at \in Nat /\ skip >= 0 /\ at + size <= Len(data)
    <2> HIDE DEF skip, size
    <2> QED  BY <1>1, <1>2, <1>3
  <1>5. ASSUME NEW x, NEW to \in Nat, TakesArgument(o), Packable(o, x),
               Laid(data, at, Pieces(st.h, o, x), to), at <= to, to <= Len(data)
        PROVE  Holds(data, o, st.h, st.i, x, to)
    BY <1>4, <1>5, HoldsCases
  <1>6. CASE o.k \in {"int", "uint"}
    <2> DEFINE signed == o.k = "int"
               y == Word(data, st.h, at, o.n, signed)
               piece == Ordered(st.h, Digits(y, o.n, signed /\ y < 0))
    <2>1. TakesArgument(o) /\ size = o.n /\ signed \in BOOLEAN
      BY <1>6 DEF TakesArgument
    <2>2. UnpackOption(st, o, data) = IF y = Fault THEN Refused(st)
                                      ELSE Yielded(st, o, y, at + o.n)
      BY <1>2, <1>6, <2>1, UnpackInteger
    <2>3. y # Fault /\ UnpackOption(st, o, data) = Yielded(st, o, y, at + o.n)
      <3> HIDE DEF y
      <3> QED  BY <2>2
    <2>4. at + o.n <= Len(data) /\ at + o.n \in Nat /\ at <= at + o.n
      BY <1>1, <1>4, <2>1
    <2>5. Accepted(y, o.n, signed) /\ Lies(data, at, piece) /\ Len(piece) = o.n
      <3> HIDE DEF at
      <3> QED  BY <1>1, <1>4, <2>3, <2>4, IntegerReads
    <2>6. Packable(o, y) /\ Pieces(st.h, o, y) = <<piece>>
      BY <1>6, <2>5, IntegerPieces
    <2> HIDE DEF at, piece, y
    <2>7. Laid(data, at, Pieces(st.h, o, y), at + o.n)
      <3>1. Len(<<piece>>) = 1 /\ <<piece>>[1] = piece
        OBVIOUS
      <3> QED  BY <2>5, <2>6, <3>1 DEF Laid
    <2>8. y \in Unpackables
      BY <2>5 DEF Unpackables, Accepted, FitsInteger
    <2> QED  BY <1>5, <2>1, <2>3, <2>4, <2>6, <2>7, <2>8
  <1>7. CASE o.k = "char"
    <2> DEFINE x == SubSeq(data, at + 1, at + o.n)
    <2>1. TakesArgument(o) /\ size = o.n
      BY <1>7 DEF TakesArgument
    <2>2. UnpackOption(st, o, data) = Yielded(st, o, x, at + o.n)
      BY <1>2, <1>7, <2>1, UnpackChars
    <2>3. at + o.n <= Len(data) /\ at + o.n \in Nat /\ at <= at + o.n
      BY <1>1, <1>4, <2>1
    <2>4. x \in Seq(Bytes) /\ Len(x) = o.n /\ Lies(data, at, x)
      <3> HIDE DEF at
      <3> QED  BY <1>1, <1>4, <2>3, ReadLies
    <2> HIDE DEF x, at
    <2>5. Packable(o, x) /\ Pieces(st.h, o, x) = <<x>>
      BY <1>7, <2>4 DEF Packable, HasType, Pieces
    <2>6. Laid(data, at, Pieces(st.h, o, x), at + o.n)
      <3>1. Len(<<x>>) = 1 /\ <<x>>[1] = x
        OBVIOUS
      <3> QED  BY <2>4, <2>5, <3>1 DEF Laid
    <2> QED  BY <1>5, <2>1, <2>2, <2>3, <2>4, <2>5, <2>6 DEF Unpackables
  <1>8. CASE o.k = "string"
    <2> DEFINE int == Word(data, st.h, at, o.n, FALSE)
               len == int % Power[SzInt]
               word == Ordered(st.h, Digits(len, o.n, FALSE))
               from == at + o.n
               x == SubSeq(data, from + 1, from + len)
    <2>1. TakesArgument(o) /\ size = o.n
      BY <1>8 DEF TakesArgument
    <2>2. UnpackOption(st, o, data) =
             IF int = Fault \/ len > Len(data) - at - o.n THEN Refused(st)
             ELSE Yielded(st, o, x, from + len)
      BY <1>2, <1>8, <2>1, UnpackString
    <2>3. /\ int # Fault /\ ~(len > Len(data) - at - o.n)
          /\ UnpackOption(st, o, data) = Yielded(st, o, x, from + len)
      <3> HIDE DEF int, len, x
      <3> QED  BY <2>2
    <2>4. at + o.n <= Len(data) /\ from \in Nat /\ at <= from
      BY <1>1, <1>4, <2>1
    <2>5. /\ Lies(data, at, word) /\ Len(word) = o.n
          /\ len \in Nat /\ len < Power[SzInt] /\ (o.n < SzInt => len < Power[o.n])
      <3> HIDE DEF at
      <3> QED  BY <1>1, <1>4, <2>3, <2>4, LengthReads
    <2> HIDE DEF len, word
    <2>6. from + len <= Len(data) /\ from + len \in Nat /\ at <= from + len
      <3> HIDE DEF at
      <3> QED  BY <1>1, <1>4, <2>3, <2>4, <2>5
    <2>7. x \in Seq(Bytes) /\ Len(x) = len /\ Lies(data, from, x)
      <3> HIDE DEF from
      <3> QED  BY <2>4, <2>5, <2>6, ReadLies
    <2> HIDE DEF x
    <2>8. Packable(o, x)
      BY <1>8, <2>5, <2>7 DEF Packable, HasType
    <2>9. Pieces(st.h, o, x) = <<word, x>>
      BY <1>8, <2>7 DEF Pieces, word
    <2> HIDE DEF at
    <2>10. Laid(data, at, Pieces(st.h, o, x), from + len)
      <3>1. Len(<<word, x>>) = 2 /\ <<word, x>>[1] = word /\ <<word, x>>[2] = x
        OBVIOUS
      <3> QED  BY <2>5, <2>7, <2>9, <3>1 DEF Laid
    <2>11. x \in Unpackables
      BY <2>7 DEF Unpackables
    <2> HIDE DEF from
    <2> QED  BY <1>5, <2>1, <2>3, <2>6, <2>8, <2>10, <2>11
  <1>9. CASE o.k = "zstr"
    <2> DEFINE Z == ZerosBehind(data, at)
               zero == FirstZero(data, at)
               n == zero - 1 - at
               x == SubSeq(data, at + 1, at + n)
    <2>1. TakesArgument(o) /\ size = 0
      BY <1>9 DEF TakesArgument
    <2>2. UnpackOption(st, o, data) =
             IF Z = {} THEN Refused(st)
             ELSE Yielded(st, o, SubSeq(data, at + 1, zero - 1), zero)
      BY <1>2, <1>9, <2>1, UnpackZString
    <2>3. /\ Z # {}
          /\ UnpackOption(st, o, data) = Yielded(st, o, SubSeq(data, at + 1, zero - 1), zero)
      <3> HIDE DEF zero, Z
      <3> QED  BY <2>2
    <2>4. zero \in Z /\ \A e \in Z : zero <= e
      <3> HIDE DEF at
      <3> QED  BY <1>4, <2>3, FirstZeroIs
    <2> HIDE DEF zero
    <2>5. zero \in at + 1 .. Len(data) /\ data[zero] = 0
      BY <2>4 DEF ZerosBehind
    <2> HIDE DEF at
    <2>6. n \in Nat /\ at + n = zero - 1 /\ at + n <= Len(data) /\ zero \in Nat
          /\ at <= zero /\ zero <= Len(data)
      BY <1>1, <1>4, <2>5
    <2> HIDE DEF n
    <2>7. x \in Seq(Bytes) /\ Len(x) = n /\ Lies(data, at, x)
      BY <1>4, <2>6, ReadLies
    <2>8. UnpackOption(st, o, data) = Yielded(st, o, x, zero)
      BY <2>3, <2>6
    <2> HIDE DEF x
    <2>9. ASSUME NEW k \in 1 .. n, x[k] = 0  PROVE FALSE
      <3> DEFINE e == at + k
      <3>1. e \in at + 1 .. Len(data) /\ e < zero
        BY <1>1, <1>4, <2>6
      <3>2. data[e] = 0
        BY <2>7, <2>9 DEF Lies
      <3> HIDE DEF e
      <3>3. e \in Z
        BY <3>1, <3>2 DEF ZerosBehind
      <3> HIDE DEF Z
      <3>4. zero <= e
        BY <2>4, <3>3
      <3> QED  BY <1>4, <2>6, <3>1, <3>4
    <2>10. Packable(o, x)
      <3>1. DOMAIN x = 1 .. n
        BY <2>7, SeqIsFunction
      <3>2. 0 \notin {x[d] : d \in DOMAIN x}
        BY <2>9, <3>1
      <3> QED  BY <1>9, <2>7, <3>2 DEF Packable, HasType
    <2>11. Pieces(st.h, o, x) = <<x, <<0>>>>
      BY <1>9 DEF Pieces
    <2>12. Lies(data, at + n, <<0>>) /\ zero = at + n + 1
      <3>1. at + n + 1 = zero
        BY <1>4, <2>6
      <3>2. Len(<<0>>) = 1 /\ <<0>>[1] = 0 /\ \A k \in 1 .. 1 : k = 1
        OBVIOUS
      <3>3. \A k \in 1 .. Len(<<0>>) : data[at + n + k] = <<0>>[k]
        BY <2>5, <3>1, <3>2
      <3> QED  BY <3>1, <3>3 DEF Lies
    <2>13. Laid(data, at, Pieces(st.h, o, x), zero)
      <3> DEFINE p == <<x, <<0>>>>
      <3>1. Len(p) = 2 /\ p[1] = x /\ p[2] = <<0>> /\ Len(<<0>>) = 1
        OBVIOUS
      <3>2. Pieces(st.h, o, x) = p
        BY <2>11
      <3> HIDE DEF p
      <3>3. at + Len(p[1]) = at + n /\ at + Len(p[1]) + Len(p[2]) = at + n + 1
        BY <2>7, <3>1
      <3>4. Lies(data, at, p[1]) /\ Lies(data, at + Len(p[1]), p[2])
            /\ zero = at + Len(p[1]) + Len(p[2])
        BY <2>7, <2>12, <3>1, <3>3
      <3> HIDE DEF zero
      <3>5. Laid(data, at, p, zero)
        BY <3>1, <3>4 DEF Laid
      <3> QED  BY <3>2, <3>5
    <2>14. x \in Unpackables
      BY <2>7 DEF Unpackables
    <2> QED  BY <1>5, <2>1, <2>6, <2>8, <2>10, <2>13, <2>14
  <1>10. CASE ~TakesArgument(o)
    <2> DEFINE step == IF o.k = "pad" THEN 1 ELSE 0
    <2>1. size = step /\ step \in Nat
      BY <1>10
    <2>2. ~(skip + step > Len(data) - st.i) /\ at + step <= Len(data)
      BY <1>2, <1>4, <2>1
    <2>3. 0 \in Unpackables /\ at + step \in Nat /\ at <= at + step
      BY <1>4, <2>1 DEF Unpackables
    <2>4. UnpackOption(st, o, data) = Yielded(st, o, 0, at + step)
      <3> DEFINE s == step
      <3>1. s = (IF o.k = "pad" THEN 1 ELSE 0) /\ ~(skip + s > Len(data) - st.i)
        BY <2>2
      <3> HIDE DEF s
      <3>2. UnpackOption(st, o, data) = Yielded(st, o, 0, at + s)
        BY <1>2, <1>10, <3>1, UnpackNothing
      <3> QED  BY <3>2 DEF s
    <2>5. Holds(data, o, st.h, st.i, 0, at + step)
      <3>1. CASE o.k = "pad"
        BY <1>4, <2>2, <2>3, <3>1, HoldsCases
      <3>2. CASE o.k # "pad"
        <4>1. at + step = at
          BY <1>4, <3>2
        <4> QED  BY <1>4, <1>10, <2>2, <2>3, <3>2, <4>1, HoldsCases
      <3> QED  BY <3>1, <3>2
    <2> QED  BY <2>3, <2>4, <2>5
  <1> QED  BY <1>6, <1>7, <1>8, <1>9, <1>10 DEF TakesArgument

\* The state after an option that was read.
LEMMA YieldedState ==
    ASSUME NEW st \in UnpackStates, NEW o \in Options, NEW x, NEW to \in Nat
    PROVE  LET new == Yielded(st, o, x, to) IN
           /\ new.i = to /\ new.h = Configured(st.h, o) /\ new.end = st.end
           /\ new.values = IF TakesArgument(o) THEN Append(st.values, x) ELSE st.values
           /\ x \in Unpackables => new \in UnpackStates
  <1>1. st.values \in Seq(Unpackables) /\ st.h \in Headers
    BY DEF UnpackStates
  <1>2. CASE TakesArgument(o)
    <2> DEFINE more == Append(st.values, x)
    <2>1. Yielded(st, o, x, to) = [st EXCEPT !.i = to, !.values = more]
      BY <1>2 DEF Yielded, UnpackStates
    <2>2. Configured(st.h, o) = st.h
      BY <1>2, ConfiguresNothing
    <2>3. x \in Unpackables => more \in Seq(Unpackables)
      BY <1>1
    <2> HIDE DEF more
    <2> QED  BY <1>2, <2>1, <2>2, <2>3 DEF UnpackStates, more
  <1>3. CASE ~TakesArgument(o)
    <2> DEFINE h == Configured(st.h, o)
    <2>1. Yielded(st, o, x, to) = [st EXCEPT !.i = to, !.h = h]
      BY <1>3 DEF Yielded
    <2>2. h \in Headers
      BY <1>1, ConfiguredIsHeader
    <2> HIDE DEF h
    <2> QED  BY <1>3, <2>1, <2>2 DEF UnpackStates, h
  <1> QED  BY <1>2, <1>3

\* A turn of mem_unpack's loop leads to a state of it.
LEMMA UnpackTyped ==
    ASSUME NEW data \in Seq(Bytes), NEW o \in Options, NEW st \in UnpackStates
    PROVE  UnpackOption(st, o, data) \in UnpackStates
  <1>1. st.end \in {"running", "error"}
    BY DEF UnpackStates
  <1>2. CASE st.end = "error"
    BY <1>2, UnpackEnded
  <1>3. CASE UnpackOption(st, o, data) = Refused(st)
    BY <1>3 DEF Refused, UnpackStates
  <1>4. CASE st.end = "running" /\ UnpackOption(st, o, data) # Refused(st)
    <2>1. PICK x \in Unpackables, to \in Nat : UnpackOption(st, o, data) = Yielded(st, o, x, to)
      BY <1>4, UnpackHolds
    <2> QED  BY <2>1, YieldedState
  <1> QED  BY <1>1, <1>2, <1>3, <1>4

\* u is the sequence of states that mem_unpack's loop goes through.
Unpacks(u, data, fmt, i) ==
    /\ u[0] = [i |-> i, h |-> Header, values |-> <<>>, end |-> "running"]
    /\ \A d \in 1 .. Len(fmt) : u[d] = UnpackOption(u[d - 1], fmt[d], data)
    /\ Unpacked(data, fmt, i) = u[Len(fmt)]

\* The recursive function of mem_unpack's loop has a value, and these are its values.
LEMMA UnpackRuns ==
    ASSUME NEW data \in Seq(Bytes), NEW fmt \in Seq(Options), NEW i \in Nat
    PROVE  \E u \in [0 .. Len(fmt) -> UnpackStates] : Unpacks(u, data, fmt, i)
  <1> DEFINE n == Len(fmt)
             M == UnpackStates
             a == [i |-> i, h |-> Header, values |-> <<>>, end |-> "running"]
             F == [c \in 1 .. n |-> [st \in M |-> UnpackOption(st, fmt[c], data)]]
             Turns(u) == u = [c \in 0 .. n |->
                IF c = 0 THEN a ELSE UnpackOption(u[c - 1], fmt[c], data)]
             run == CHOOSE u : Turns(u)
  <1>0. n \in Nat /\ \A c \in 1 .. n : fmt[c] \in Options
    BY SeqIsFunction
  <1>1. Unpacked(data, fmt, i) = run[n]
    BY DEF Unpacked
  <1>2. a \in M
    BY HeaderIsHeader, EmptySeq DEF UnpackStates
  <1> HIDE DEF n, a
  <1>3. ASSUME NEW c \in 1 .. n, NEW st \in M
        PROVE  UnpackOption(st, fmt[c], data) \in M
    BY <1>0, UnpackTyped
  <1> HIDE DEF M
  <1>4. F \in [1 .. n -> [M -> M]]
    BY <1>3
  <1>5. PICK g \in [0 .. n -> M] : Computes(g, n, a, F)
    <2> HIDE DEF F
    <2> QED  BY <1>0, <1>2, <1>4, Recursion
  <1>6. Turns(g)
    <2>1. \A c \in 1 .. n : g[c - 1] \in M
      BY <1>0
    <2>2. \A c \in 1 .. n : F[c][g[c - 1]] = UnpackOption(g[c - 1], fmt[c], data)
      BY <2>1
    <2> HIDE DEF F
    <2>3. \A c \in 0 .. n : g[c] = IF c = 0 THEN a ELSE UnpackOption(g[c - 1], fmt[c], data)
      BY <1>0, <1>5, <2>2 DEF Computes
    <2> DEFINE k == [c \in 0 .. n |->
                IF c = 0 THEN a ELSE UnpackOption(g[c - 1], fmt[c], data)]
    <2>4. g = k
      BY <2>3
    <2> QED  BY <2>4
  <1>7. Turns(run)
    <2> HIDE DEF Turns
    <2> QED  BY <1>6
  <1> HIDE DEF run
  <1>8. /\ run[0] = a
        /\ \A c \in 1 .. n : run[c] = UnpackOption(run[c - 1], fmt[c], data)
    BY <1>0, <1>7
  <1>9. \A c \in 0 .. n : run[c] \in M
    <2> DEFINE S == {c \in 0 .. n : run[c] \in M}
    <2>1. 0 \in S
      BY <1>0, <1>2, <1>8
    <2>2. ASSUME NEW c \in 1 .. n, c - 1 \in S  PROVE c \in S
      BY <1>0, <1>3, <1>8, <2>2
    <2> HIDE DEF S
    <2>3. \A c \in 0 .. n : c \in S
      BY <1>0, <2>1, <2>2, Induction
    <2> QED  BY <2>3 DEF S
  <1>10. run \in [0 .. n -> M]
    BY <1>7, <1>9
  <1> QED  BY <1>1, <1>8, <1>10 DEF Unpacks, n, a, M

\* A list of arguments up to one more.
LEMMA OneMore ==
    ASSUME NEW V, NEW args \in Seq(V), NEW u \in Nat, u < Len(args)
    PROVE  Append(SubSeq(args, 1, u), args[u + 1]) = SubSeq(args, 1, u + 1)
  <1> DEFINE one == SubSeq(args, 1, u)
             two == SubSeq(args, 1, u + 1)
  <1>1. Len(args) \in Nat /\ args \in [1 .. Len(args) -> V]
    BY SeqIsFunction
  <1>2. ASSUME NEW m \in Nat, m <= Len(args)
        PROVE  /\ SubSeq(args, 1, m) \in Seq(V) /\ Len(SubSeq(args, 1, m)) = m
               /\ \A k \in 1 .. m : SubSeq(args, 1, m)[k] = args[k]
    <2>1. 0 \in Nat /\ 0 + m <= Len(args) /\ 0 + m = m /\ 0 + 1 = 1
      BY <1>2
    <2>2. LET part == SubSeq(args, 0 + 1, 0 + m) IN
          part \in Seq(V) /\ Len(part) = m /\ \A k \in 1 .. m : part[k] = args[0 + k]
      BY <1>2, <2>1, Part
    <2>3. \A k \in 1 .. m : 0 + k = k
      BY <1>2
    <2> QED  BY <2>1, <2>2, <2>3
  <1>3. one \in Seq(V) /\ Len(one) = u /\ \A k \in 1 .. u : one[k] = args[k]
    BY <1>1, <1>2
  <1>4. two \in Seq(V) /\ Len(two) = u + 1 /\ \A k \in 1 .. u + 1 : two[k] = args[k]
    <2>1. u + 1 \in Nat /\ u + 1 <= Len(args)
      BY <1>1
    <2> QED  BY <1>2, <2>1
  <1> DEFINE x == args[u + 1]
  <1>5. x \in V
    <2>1. u + 1 \in 1 .. Len(args)
      BY <1>1
    <2> QED  BY <1>1, <2>1
  <1> HIDE DEF one, two, x
  <1>6. /\ Append(one, x) \in Seq(V) /\ Len(Append(one, x)) = u + 1
        /\ \A k \in 1 .. u : Append(one, x)[k] = args[k]
        /\ Append(one, x)[u + 1] = x
    BY <1>3, <1>5, AppendProperties
  <1>7. \A k \in 1 .. u + 1 : Append(one, x)[k] = two[k]
    <2>1. ASSUME NEW k \in 1 .. u + 1  PROVE Append(one, x)[k] = two[k]
      <3>1. CASE k = u + 1
        BY <1>4, <1>6, <3>1 DEF x
      <3>2. CASE k # u + 1
        <4>1. k \in 1 .. u
          BY <3>2
        <4> QED  BY <1>4, <1>6, <4>1
      <3> QED  BY <3>1, <3>2
    <2> QED  BY <2>1
  <1> DEFINE more == Append(one, x)
  <1>8. more \in Seq(V) /\ Len(more) = Len(two) /\ \A k \in 1 .. Len(two) : more[k] = two[k]
    BY <1>4, <1>6, <1>7
  <1> HIDE DEF more
  <1>9. more = two
    BY <1>4, <1>8, SeqEqual
  <1> QED  BY <1>9 DEF more, one, two, x

\* Behind a complete pack, mem_unpack is at the same place as mem_pack was, and has
\* returned the arguments that mem_pack had used.
Follows(st, un, args) ==
    /\ un.end = "running" /\ un.i = st.i /\ un.h = st.h
    /\ un.values = SubSeq(args, 1, st.used)

\* From one option to the next.
LEMMA FollowsOn ==
    ASSUME NEW len \in Nat, NEW data \in [1 .. len -> Bytes], NEW st \in PackStates(len),
           NEW un \in UnpackStates, NEW o \in Options, NEW V, NEW args \in Seq(V),
           NEW null \in BOOLEAN, Follows(st, un, args),
           NEW new, new = PackOption(st, o, args, null), new.end = "running",
           new \in PackStates(len), new.used <= Len(args),
           \A k \in 1 .. len : k <= new.i => data[k] = new.mem[k]
    PROVE  Follows(new, UnpackOption(un, o, data), args)
  <1> DEFINE x == args[st.used + 1]
  <1>1. /\ Holds(new.mem, o, st.h, st.i, x, new.i)
        /\ new.h = Configured(st.h, o) /\ new.used = Used(st.used, o)
        /\ TakesArgument(o) => Len(args) # st.used
    BY PackHolds
  <1>2. /\ st.h \in Headers /\ st.i \in Nat /\ st.used \in Nat /\ new.i \in Nat
        /\ new.mem \in [1 .. len -> Bytes]
    BY DEF PackStates
  <1>3. /\ new.mem \in Seq(Bytes) /\ Len(new.mem) = len
        /\ data \in Seq(Bytes) /\ Len(data) = len
    BY <1>2, FunctionIsSeq
  <1> HIDE DEF x
  <1>4. Holds(data, o, st.h, st.i, x, new.i)
    BY <1>1, <1>2, <1>3, HoldsUpTo
  <1>5. un.end = "running" /\ un.i = st.i /\ un.h = st.h
        /\ un.values = SubSeq(args, 1, st.used)
    BY DEF Follows
  <1> DEFINE next == UnpackOption(un, o, data)
  <1>6. next = Yielded(un, o, x, new.i)
    <2>1. Holds(data, o, un.h, un.i, x, new.i)
      BY <1>4, <1>5
    <2> QED  BY <1>2, <1>3, <1>5, <2>1, HoldsUnpack
  <1>7. /\ next.i = new.i /\ next.h = Configured(un.h, o) /\ next.end = un.end
        /\ next.values = IF TakesArgument(o) THEN Append(un.values, x) ELSE un.values
    BY <1>2, <1>6, YieldedState
  <1> HIDE DEF next
  <1>8. next.values = SubSeq(args, 1, new.used)
    <2>1. CASE TakesArgument(o)
      <3>1. new.used = st.used + 1 /\ Len(args) \in Nat
        BY <1>1, <2>1 DEF Used
      <3>2. st.used < Len(args)
        BY <1>2, <3>1
      <3>3. Append(SubSeq(args, 1, st.used), x) = SubSeq(args, 1, st.used + 1)
        BY <1>2, <3>2, OneMore DEF x
      <3> QED  BY <1>5, <1>7, <2>1, <3>1, <3>3
    <2>2. CASE ~TakesArgument(o)
      BY <1>1, <1>5, <1>7, <2>2 DEF Used
    <2> QED  BY <2>1, <2>2
  <1> QED  BY <1>1, <1>5, <1>7, <1>8 DEF Follows, next

\* What a complete run of mem_pack has written stays till its end.
LEMMA RunStays ==
    ASSUME NEW len \in Nat, NEW mem, NEW null \in BOOLEAN, NEW h,
           NEW fmt \in Seq(Options), NEW i, NEW args,
           NEW f \in [0 .. Len(fmt) -> PackStates(len)],
           Runs(f, mem, null, h, fmt, i, args), NEW m \in 0 .. Len(fmt)
    PROVE  Stays(len, f[m], f[Len(fmt)])
  <1> DEFINE n == Len(fmt)
             S == {c \in 0 .. n : c >= m => Stays(len, f[m], f[c])}
  <1>0. n \in Nat /\ m \in Nat /\ m <= n /\ \A c \in 1 .. n : fmt[c] \in Options
    BY SeqIsFunction
  <1>1. \A c \in 0 .. n : f[c] \in PackStates(len)
    OBVIOUS
  <1>2. \A c \in 1 .. n : f[c] = PackOption(f[c - 1], fmt[c], args, null)
    BY DEF Runs
  <1>3. m \in 0 .. n
    OBVIOUS
  <1> HIDE DEF n
  <1>4. Stays(len, f[m], f[m])
    BY <1>1, <1>3, StutterStays
  <1>5. 0 \in S
    BY <1>0, <1>4
  <1>6. ASSUME NEW c \in 1 .. n, c - 1 \in S  PROVE c \in S
    <2>1. CASE c > m
      <3>1. c - 1 \in 0 .. n /\ c - 1 >= m
        BY <1>0, <2>1
      <3>2. Stays(len, f[m], f[c - 1])
        BY <1>6, <3>1
      <3>3. Stays(len, f[c - 1], f[c])
        <4>1. Stays(len, f[c - 1], PackOption(f[c - 1], fmt[c], args, null))
          BY <1>0, <1>1, <3>1, OptionStays
        <4> QED  BY <1>2, <4>1
      <3>4. Stays(len, f[m], f[c])
        BY <1>1, <1>3, <3>2, <3>3, StaysTransitive
      <3> QED  BY <1>0, <3>4
    <2>2. CASE c = m
      BY <1>0, <1>4, <2>2
    <2>3. CASE c < m
      BY <1>0, <2>3
    <2> QED  BY <1>0, <2>1, <2>2, <2>3
  <1>7. n \in S
    <2> HIDE DEF S
    <2>1. \A c \in 0 .. n : c \in S
      BY <1>0, <1>5, <1>6, Induction
    <2> QED  BY <1>0, <2>1
  <1> QED  BY <1>0, <1>7 DEF n

\* mem_unpack ends where the complete pack did, with the arguments that pack used.
Returns(st, un, args) ==
    /\ un.end = "running" /\ un.i = st.i
    /\ un.values \o SubSeq(args, st.used + 1, Len(args)) = args

\* What was packed is unpacked.
LEMMA PackedIsUnpacked ==
    ASSUME NEW mem \in Seq(Bytes), NEW null \in BOOLEAN, NEW fmt \in Seq(Options),
           NEW i \in Nat, NEW V, NEW args \in Seq(V),
           NEW st, st = Packed(mem, null, Header, fmt, i, args), st.end = "running"
    PROVE  Returns(st, Unpacked(st.mem, fmt, i), args)
  <1> DEFINE len == Len(mem)
             n == Len(fmt)
  <1>1. len \in Nat /\ mem \in [1 .. len -> Bytes]
    BY SeqIsFunction
  <1> HIDE DEF len
  <1>2. PICK f \in [0 .. n -> PackStates(len)] : Runs(f, mem, null, Header, fmt, i, args)
    BY <1>1, HeaderIsHeader, PackRuns
  <1>3. n \in Nat /\ \A c \in 1 .. n : fmt[c] \in Options
    BY SeqIsFunction
  <1>4. f[n] = st
    BY <1>2 DEF Runs
  <1>5. \A c \in 0 .. n : f[c].end = "running"
    <2> SUFFICES ASSUME NEW c \in 0 .. n, f[c].end # "running"  PROVE FALSE
      OBVIOUS
    <2>1. f[n] = f[c]
      BY <1>1, <1>2, EndedRun
    <2> QED  BY <1>4, <2>1
  <1>6. \A c \in 0 .. n : f[c].used <= Len(args)
    <2>1. n \in 0 .. Len(fmt)
      BY <1>3
    <2> QED  BY <1>1, <1>2, <1>5, <2>1, RunsOn
  <1>7. \A c \in 0 .. n : Stays(len, f[c], f[n])
    BY <1>1, <1>2, RunStays
  <1> DEFINE data == st.mem
  <1>8. st \in PackStates(len) /\ data \in [1 .. len -> Bytes] /\ data \in Seq(Bytes)
    <2>1. st \in PackStates(len)
      BY <1>3, <1>4
    <2>2. data \in [1 .. len -> Bytes]
      BY <2>1 DEF PackStates
    <2> QED  BY <1>1, <2>1, <2>2, FunctionIsSeq
  <1>9. \A c \in 0 .. n : \A k \in 1 .. len : k <= f[c].i => data[k] = f[c].mem[k]
    <2>1. ASSUME NEW c \in 0 .. n, NEW k \in 1 .. len, k <= f[c].i
          PROVE  data[k] = f[c].mem[k]
      <3>1. f[c] \in PackStates(len) /\ Onwards(f[c], f[n])
        BY <1>7 DEF Stays
      <3>2. DOMAIN f[c].mem = 1 .. len
        BY <3>1 DEF PackStates
      <3> QED  BY <1>4, <2>1, <3>1, <3>2 DEF Onwards
    <2> QED  BY <2>1
  <1> HIDE DEF data
  <1>10. PICK u \in [0 .. n -> UnpackStates] : Unpacks(u, data, fmt, i)
    BY <1>8, UnpackRuns
  <1>11. \A c \in 1 .. n : /\ f[c] = PackOption(f[c - 1], fmt[c], args, null)
                          /\ u[c] = UnpackOption(u[c - 1], fmt[c], data)
    BY <1>2, <1>10 DEF Runs, Unpacks
  <1>12. /\ f[0] = [mem |-> mem, i |-> i, h |-> Header, used |-> 0, end |-> "running"]
         /\ u[0] = [i |-> i, h |-> Header, values |-> <<>>, end |-> "running"]
    BY <1>2, <1>10 DEF Runs, Unpacks
  <1>13. Unpacked(data, fmt, i) = u[n]
    BY <1>10 DEF Unpacks
  <1> HIDE DEF n
  <1> DEFINE S == {c \in 0 .. n : Follows(f[c], u[c], args)}
  <1>14. 0 \in S
    <2>1. SubSeq(args, 1, 0) = <<>>
      <3>1. 0 \in Nat /\ 0 + 0 <= Len(args) /\ 0 + 1 = 1 /\ 0 + 0 = 0
        OBVIOUS
      <3>2. Len(SubSeq(args, 0 + 1, 0 + 0)) = 0 /\ SubSeq(args, 0 + 1, 0 + 0) \in Seq(V)
        BY <3>1, Part
      <3> QED  BY <3>1, <3>2, EmptySeq
    <2>2. /\ f[0].i = i /\ f[0].h = Header /\ f[0].used = 0
          /\ u[0].end = "running" /\ u[0].i = i /\ u[0].h = Header /\ u[0].values = <<>>
      BY <1>12
    <2>3. Follows(f[0], u[0], args)
      BY <2>1, <2>2 DEF Follows
    <2> QED  BY <1>3, <2>3
  <1>15. ASSUME NEW c \in 1 .. n, c - 1 \in S  PROVE c \in S
    <2> DEFINE a == f[c - 1]
               b == f[c]
               v == u[c - 1]
               o == fmt[c]
    <2>1. /\ a \in PackStates(len) /\ b \in PackStates(len) /\ v \in UnpackStates
          /\ o \in Options /\ Follows(a, v, args) /\ b.used <= Len(args)
      BY <1>3, <1>6, <1>15
    <2>2. b = PackOption(a, o, args, null) /\ b.end = "running"
      BY <1>3, <1>5, <1>11
    <2>3. \A k \in 1 .. len : k <= b.i => data[k] = b.mem[k]
      BY <1>3, <1>9
    <2>4. u[c] = UnpackOption(v, o, data)
      BY <1>11
    <2> HIDE DEF a, b, v, o
    <2>5. Follows(b, UnpackOption(v, o, data), args)
      BY <1>1, <1>8, <2>1, <2>2, <2>3, FollowsOn
    <2> QED  BY <2>4, <2>5 DEF b
  <1>16. Follows(st, u[n], args)
    <2> HIDE DEF S
    <2>1. \A c \in 0 .. n : c \in S
      BY <1>3, <1>14, <1>15, Induction
    <2>2. n \in S
      BY <1>3, <2>1
    <2> QED  BY <1>4, <2>2 DEF S
  <1>17. st.used \in 0 .. Len(args)
    <2>1. st.used \in Nat
      BY <1>8 DEF PackStates
    <2>2. st.used <= Len(args) /\ Len(args) \in Nat
      BY <1>3, <1>4, <1>6
    <2> QED  BY <2>1, <2>2
  <1>18. args = SubSeq(args, 1, st.used) \o SubSeq(args, st.used + 1, Len(args))
    BY <1>17, RestOfArguments
  <1> QED  BY <1>13, <1>16, <1>18 DEF Follows, Returns, data

\* Once mem_unpack has failed, nothing changes.
LEMMA FailedUnpack ==
    ASSUME NEW data, NEW fmt \in Seq(Options), NEW i,
           NEW u \in [0 .. Len(fmt) -> UnpackStates], Unpacks(u, data, fmt, i),
           NEW m \in 0 .. Len(fmt), u[m].end = "error"
    PROVE  u[Len(fmt)] = u[m]
  <1> DEFINE n == Len(fmt)
             S == {c \in 0 .. n : c >= m => u[c] = u[m]}
  <1>0. n \in Nat /\ m \in Nat /\ m <= n
    BY SeqIsFunction
  <1>1. \A c \in 1 .. n : u[c] = UnpackOption(u[c - 1], fmt[c], data)
    BY DEF Unpacks
  <1> HIDE DEF n
  <1>2. 0 \in S
    BY <1>0
  <1>3. ASSUME NEW c \in 1 .. n, c - 1 \in S  PROVE c \in S
    <2>1. CASE c > m
      <3>1. u[c - 1] = u[m]
        BY <1>0, <1>3, <2>1
      <3>2. UnpackOption(u[m], fmt[c], data) = u[m]
        BY UnpackEnded
      <3> QED  BY <1>0, <1>1, <3>1, <3>2
    <2>2. CASE ~(c > m)
      BY <1>0, <2>2
    <2> QED  BY <2>1, <2>2
  <1>4. n \in S
    <2> HIDE DEF S
    <2>1. \A c \in 0 .. n : c \in S
      BY <1>0, <1>2, <1>3, Induction
    <2> QED  BY <1>0, <2>1
  <1> QED  BY <1>0, <1>4 DEF n

\* The list all starts with the list some.
Begins(some, all) ==
    /\ Len(some) <= Len(all)
    /\ \A k \in 1 .. Len(some) : all[k] = some[k]

\* What a turn of the loop does to the values.
LEMMA ValuesGrow ==
    ASSUME NEW st \in UnpackStates, NEW o \in Options, NEW x \in Unpackables, NEW to \in Nat
    PROVE  LET new == Yielded(st, o, x, to) IN
           /\ st.values \in Seq(Unpackables) /\ new.values \in Seq(Unpackables)
           /\ Begins(st.values, new.values)
           /\ Len(new.values) = Used(Len(st.values), o)
           /\ TakesArgument(o) => new.values[Len(st.values) + 1] = x
  <1> DEFINE new == Yielded(st, o, x, to)
             s == st.values
             t == new.values
  <1>1. s \in Seq(Unpackables) /\ Len(s) \in Nat
    <2>1. s \in Seq(Unpackables)
      BY DEF UnpackStates
    <2> QED  BY <2>1
  <1>2. t = IF TakesArgument(o) THEN Append(s, x) ELSE s
    BY YieldedState
  <1> HIDE DEF s, t
  <1>3. CASE TakesArgument(o)
    <2>1. t = Append(s, x)
      BY <1>2, <1>3
    <2>2. /\ t \in Seq(Unpackables) /\ Len(t) = Len(s) + 1
          /\ \A k \in 1 .. Len(s) : t[k] = s[k]
          /\ t[Len(s) + 1] = x
      BY <1>1, <2>1, AppendProperties
    <2>3. Begins(s, t)
      BY <1>1, <2>2 DEF Begins
    <2> QED  BY <1>1, <1>3, <2>2, <2>3 DEF Used, s, t
  <1>4. CASE ~TakesArgument(o)
    <2>1. t = s /\ Begins(s, s)
      BY <1>1, <1>2, <1>4 DEF Begins
    <2> QED  BY <1>1, <1>4, <2>1 DEF Used, s, t
  <1> QED  BY <1>3, <1>4

\* What mem_unpack has read stays among what it returns.
LEMMA ValuesStay ==
    ASSUME NEW data \in Seq(Bytes), NEW fmt \in Seq(Options), NEW i,
           NEW u \in [0 .. Len(fmt) -> UnpackStates], Unpacks(u, data, fmt, i),
           \A c \in 0 .. Len(fmt) : u[c].end = "running", NEW m \in 0 .. Len(fmt)
    PROVE  Begins(u[m].values, u[Len(fmt)].values)
  <1> DEFINE n == Len(fmt)
             S == {c \in 0 .. n : c >= m => Begins(u[m].values, u[c].values)}
  <1>0. n \in Nat /\ m \in 0 .. n /\ m \in Nat /\ m <= n /\ \A c \in 1 .. n : fmt[c] \in Options
    BY SeqIsFunction
  <1>1. /\ \A c \in 0 .. n : u[c] \in UnpackStates /\ u[c].end = "running"
        /\ \A c \in 1 .. n : u[c] = UnpackOption(u[c - 1], fmt[c], data)
    BY DEF Unpacks
  <1>2. \A c \in 0 .. n : u[c].values \in Seq(Unpackables)
    BY <1>1 DEF UnpackStates
  <1> HIDE DEF n
  <1>3. Begins(u[m].values, u[m].values)
    <2>1. Len(u[m].values) \in Nat
      BY <1>0, <1>2
    <2> QED  BY <2>1 DEF Begins
  <1>4. 0 \in S
    BY <1>0, <1>3
  <1>5. ASSUME NEW c \in 1 .. n, c - 1 \in S  PROVE c \in S
    <2>1. CASE c > m
      <3> DEFINE st == u[c - 1]
                 o == fmt[c]
      <3>1. /\ c - 1 \in 0 .. n /\ c - 1 >= m /\ c \in 0 .. n
            /\ st \in UnpackStates /\ st.end = "running" /\ o \in Options
        BY <1>0, <1>1, <2>1
      <3>2. Begins(u[m].values, st.values)
        BY <1>5, <3>1
      <3>3. u[c] = UnpackOption(st, o, data) /\ u[c].end = "running"
        BY <1>1, <3>1
      <3> HIDE DEF st, o
      <3>4. UnpackOption(st, o, data) # Refused(st)
        <4>1. Refused(st).end = "error"
          BY <3>1 DEF Refused, UnpackStates
        <4> QED  BY <3>3, <4>1
      <3>5. PICK x \in Unpackables, to \in Nat : u[c] = Yielded(st, o, x, to)
        BY <3>1, <3>3, <3>4, UnpackHolds
      <3>6. Begins(st.values, u[c].values) /\ st.values \in Seq(Unpackables)
        BY <3>1, <3>5, ValuesGrow
      <3>7. Begins(u[m].values, u[c].values)
        <4>1. /\ Len(u[m].values) \in Nat /\ Len(st.values) \in Nat
              /\ Len(u[c].values) \in Nat
          BY <1>0, <1>2, <3>1, <3>6
        <4> QED  BY <3>2, <3>6, <4>1 DEF Begins
      <3> QED  BY <1>0, <3>7
    <2>2. CASE c = m
      BY <1>0, <1>3, <2>2
    <2>3. CASE c < m
      BY <1>0, <2>3
    <2> QED  BY <1>0, <2>1, <2>2, <2>3
  <1>6. n \in S
    <2> HIDE DEF S
    <2>1. \A c \in 0 .. n : c \in S
      BY <1>0, <1>4, <1>5, Induction
    <2> QED  BY <1>0, <2>1
  <1> QED  BY <1>0, <1>6 DEF n

\* Packing what was unpacked, mem_pack is where mem_unpack was, has used what that
\* had returned, and has changed nothing.
Mirrors(st, un, data) ==
    /\ st.end = "running" /\ st.mem = data /\ st.i = un.i /\ st.h = un.h
    /\ st.used = Len(un.values)

\* From one option to the next.
LEMMA MirrorsOn ==
    ASSUME NEW len \in Nat, NEW data \in Seq(Bytes), Len(data) = len,
           NEW st \in PackStates(len), NEW un \in UnpackStates, NEW o \in Options,
           NEW args, NEW no \in BOOLEAN, ~no, Mirrors(st, un, data), un.end = "running",
           NEW new, new = UnpackOption(un, o, data), new.end = "running",
           Begins(new.values, args), Len(args) \in Nat
    PROVE  Mirrors(PackOption(st, o, args, no), new, data)
  <1>1. new # Refused(un)
    <2>1. Refused(un).end = "error"
      BY DEF Refused, UnpackStates
    <2> QED  BY <2>1
  <1>2. PICK x \in Unpackables, to \in Nat :
           Holds(data, o, un.h, un.i, x, to) /\ new = Yielded(un, o, x, to)
    BY <1>1, UnpackHolds
  <1>3. /\ new.i = to /\ new.h = Configured(un.h, o)
        /\ Len(new.values) = Used(Len(un.values), o)
        /\ TakesArgument(o) => new.values[Len(un.values) + 1] = x
        /\ Len(un.values) \in Nat
    <2>1. un.values \in Seq(Unpackables)
      BY <1>2, ValuesGrow
    <2> QED  BY <1>2, <2>1, YieldedState, ValuesGrow
  <1>4. /\ st.end = "running" /\ st.mem = data /\ st.i = un.i /\ st.h = un.h
        /\ st.used = Len(un.values)
    BY DEF Mirrors
  <1>5. TakesArgument(o) => Len(args) # st.used /\ args[st.used + 1] = x
    <2> SUFFICES ASSUME TakesArgument(o)
                 PROVE  Len(args) # st.used /\ args[st.used + 1] = x
      OBVIOUS
    <2> DEFINE k == Len(un.values) + 1
    <2>1. Len(new.values) = k /\ k \in 1 .. k /\ k \in Nat
      BY <1>3 DEF Used
    <2>2. k <= Len(args) /\ args[k] = new.values[k]
      <3> HIDE DEF k
      <3> QED  BY <2>1 DEF Begins
    <2> QED  BY <1>3, <1>4, <2>2
  <1>6. Holds(st.mem, o, st.h, st.i, x, to)
    BY <1>2, <1>4
  <1> DEFINE next == PackOption(st, o, args, no)
  <1>7. /\ next \in PackStates(len) /\ next.end = "running" /\ next.mem = st.mem
        /\ next.i = to /\ next.h = Configured(st.h, o) /\ next.used = Used(st.used, o)
    <2>1. GoesOn(o, args, st.used, x)
      BY <1>5 DEF GoesOn
    <2>2. Passes(len, st, o, next, to)
      BY <1>4, <1>6, <2>1, HoldsPack
    <2> HIDE DEF next
    <2> QED  BY <2>2 DEF Passes
  <1> HIDE DEF next
  <1>8. Mirrors(next, new, data)
    BY <1>3, <1>4, <1>7 DEF Mirrors
  <1> QED  BY <1>8 DEF next

\* What was unpacked is packed back without a change.
LEMMA UnpackedIsPacked ==
    ASSUME NEW data \in Seq(Bytes), NEW no \in BOOLEAN, ~no, NEW fmt \in Seq(Options),
           NEW i \in Nat, NEW un, un = Unpacked(data, fmt, i), un.end = "running"
    PROVE  LET st == Packed(data, no, Header, fmt, i, un.values) IN
           st.end = "running" /\ st.mem = data /\ st.i = un.i
  <1> DEFINE len == Len(data)
             n == Len(fmt)
             args == un.values
  <1>1. len \in Nat /\ data \in [1 .. len -> Bytes]
    BY SeqIsFunction
  <1> HIDE DEF len
  <1>2. PICK u \in [0 .. n -> UnpackStates] : Unpacks(u, data, fmt, i)
    BY UnpackRuns
  <1>3. n \in Nat /\ \A c \in 1 .. n : fmt[c] \in Options
    BY SeqIsFunction
  <1>4. u[n] = un /\ un \in UnpackStates
    BY <1>2, <1>3 DEF Unpacks
  <1>5. \A c \in 0 .. n : u[c].end = "running"
    <2> SUFFICES ASSUME NEW c \in 0 .. n, u[c].end # "running"  PROVE FALSE
      OBVIOUS
    <2>1. u[c].end = "error"
      <3>1. u[c] \in UnpackStates
        BY <1>2
      <3> QED  BY <3>1 DEF UnpackStates
    <2>2. u[n] = u[c]
      BY <1>2, <2>1, FailedUnpack
    <2> QED  BY <1>4, <2>2
  <1>6. \A c \in 0 .. n : Begins(u[c].values, args)
    BY <1>2, <1>4, <1>5, ValuesStay
  <1>7. args \in Seq(Unpackables) /\ Len(args) \in Nat
    <2>1. args \in Seq(Unpackables)
      BY <1>4 DEF UnpackStates
    <2> QED  BY <2>1
  <1> HIDE DEF args
  <1>8. PICK f \in [0 .. n -> PackStates(len)] : Runs(f, data, no, Header, fmt, i, args)
    BY <1>1, HeaderIsHeader, PackRuns
  <1>9. \A c \in 1 .. n : /\ f[c] = PackOption(f[c - 1], fmt[c], args, no)
                         /\ u[c] = UnpackOption(u[c - 1], fmt[c], data)
    BY <1>2, <1>8 DEF Runs, Unpacks
  <1>10. /\ f[0] = [mem |-> data, i |-> i, h |-> Header, used |-> 0, end |-> "running"]
         /\ u[0] = [i |-> i, h |-> Header, values |-> <<>>, end |-> "running"]
    BY <1>2, <1>8 DEF Runs, Unpacks
  <1>11. Packed(data, no, Header, fmt, i, args) = f[n]
    BY <1>8 DEF Runs
  <1> HIDE DEF n
  <1> DEFINE S == {c \in 0 .. n : Mirrors(f[c], u[c], data)}
  <1>12. 0 \in S
    <2>1. /\ f[0].end = "running" /\ f[0].mem = data /\ f[0].i = i /\ f[0].h = Header
          /\ f[0].used = 0 /\ u[0].i = i /\ u[0].h = Header /\ u[0].values = <<>>
      BY <1>10
    <2>2. Len(<<>>) = 0
      OBVIOUS
    <2>3. Mirrors(f[0], u[0], data)
      BY <2>1, <2>2 DEF Mirrors
    <2> QED  BY <1>3, <2>3
  <1>13. ASSUME NEW c \in 1 .. n, c - 1 \in S  PROVE c \in S
    <2> DEFINE a == f[c - 1]
               v == u[c - 1]
               w == u[c]
               o == fmt[c]
    <2>1. c - 1 \in 0 .. n /\ c \in 0 .. n
      BY <1>3
    <2>2. /\ a \in PackStates(len) /\ v \in UnpackStates /\ o \in Options
          /\ Mirrors(a, v, data) /\ v.end = "running" /\ w.end = "running"
          /\ Begins(w.values, args)
      BY <1>3, <1>5, <1>6, <1>13, <2>1
    <2>3. w = UnpackOption(v, o, data) /\ f[c] = PackOption(a, o, args, no)
      BY <1>9
    <2> HIDE DEF a, v, w, o
    <2>4. Mirrors(PackOption(a, o, args, no), w, data)
      BY <1>1, <1>7, <2>2, <2>3, MirrorsOn DEF len
    <2> QED  BY <2>1, <2>3, <2>4 DEF w
  <1>14. Mirrors(f[n], un, data)
    <2> HIDE DEF S
    <2>1. \A c \in 0 .. n : c \in S
      BY <1>3, <1>12, <1>13, Induction
    <2>2. n \in S
      BY <1>3, <2>1
    <2> QED  BY <1>4, <2>2 DEF S
  <1> QED  BY <1>11, <1>14 DEF Mirrors, args
-----------------------------------------------------------------------------
\* What PackedUnpacks says of the last operation, if it was a pack,
LastUnpacks ==
    LET st == Unpacked(bytes, answer.args[1], First(answer.args[2], Len(bytes)) - 1) IN
    /\ st.end = "running" /\ st.i + 1 = answer.value.next
    /\ st.values \o answer.value.rest = answer.args[3]

\* and if it was an unpack. no is FALSE: the memory that is packed back is not NULL.
LastPacks(no) ==
    LET st == Packed(bytes, no, Header, answer.args[1],
                     First(answer.args[2], Len(bytes)) - 1, answer.value.values)
    IN  st.end = "running" /\ st.mem = bytes /\ st.i + 1 = answer.value.next

\* What has to be shown of a pack and of an unpack.
LEMMA UnpacksSuffices ==
    ASSUME (Did("pack") /\ answer.value # Fault /\ answer.value.ok => LastUnpacks)',
           (Did("unpack") /\ answer.value # Fault => LastPacks(FALSE))'
    PROVE  PackedUnpacks'
  BY DEF PackedUnpacks, LastUnpacks, LastPacks

\* mem_pack: what was packed can be unpacked.
LEMMA PackUnpacks ==
    ASSUME TypeOK, NEW fmt \in Seq(Options), NEW pos \in Int, NEW V, NEW args \in Seq(V),
           Pack(fmt, pos, args)
    PROVE  PackedUnpacks'
  <1> DEFINE start == PosRelat(pos, Size) - 1
             st == Packed(bytes, NullPointer, Header, fmt, start, args)
             rest == SubSeq(args, st.used + 1, Len(args))
  <1>1. /\ bytes \in Seq(Bytes) /\ Len(bytes') = Len(bytes) /\ bytes' \in Seq(Bytes)
        /\ answer'.op = "pack" /\ answer'.args = <<fmt, pos, args>>
    BY PackWrites DEF TypeOK
  <1>2. start \in Nat /\ First(pos, Len(bytes)) - 1 = start
    <2>1. Size = Len(bytes) /\ Size \in Nat
      BY <1>1 DEF Size
    <2>2. PosRelat(pos, Size) \in Nat /\ PosRelat(pos, Size) >= 1
      BY <2>1, Clipped
    <2>3. First(pos, Len(bytes)) = PosRelat(pos, Size)
      BY <2>1, FirstIsStart
    <2> QED  BY <2>2, <2>3
  <1>3. NullPointer \in BOOLEAN
    BY DEF NullPointer
  <1> DEFINE ok == st.end = "running"
             result == [ok |-> ok, next |-> st.i + 1, rest |-> rest]
             value == IF st.end = "error" THEN Fault ELSE result
  <1>4. ASSUME answer'.value # Fault, answer'.value.ok
        PROVE  /\ ok /\ bytes' = st.mem
               /\ answer'.value.next = st.i + 1 /\ answer'.value.rest = rest
    <2>1. ~(PosRelat(pos, Size) > Size + 1)
      BY <1>4 DEF Pack, Answers
    <2>2. bytes' = st.mem /\ Answers("pack", <<fmt, pos, args>>, value)
      BY <2>1 DEF Pack
    <2> HIDE DEF value
    <2>3. answer'.value = value
      BY <2>2 DEF Answers
    <2> HIDE DEF result
    <2>4. answer'.value = result
      BY <1>4, <2>3 DEF value
    <2> HIDE DEF st, rest, ok
    <2>5. result.ok = ok /\ result.next = st.i + 1 /\ result.rest = rest
      BY DEF result
    <2> QED  BY <1>4, <2>2, <2>4, <2>5
  <1>5. ASSUME answer'.value # Fault, answer'.value.ok  PROVE LastUnpacks'
    <2>1. /\ st.end = "running" /\ bytes' = st.mem
          /\ answer'.value.next = st.i + 1 /\ answer'.value.rest = rest
      BY <1>4, <1>5
    <2> HIDE DEF st, start
    <2>2. st = Packed(bytes, NullPointer, Header, fmt, start, args)
      BY DEF st
    <2> DEFINE un == Unpacked(st.mem, fmt, start)
    <2>3. /\ un.end = "running" /\ un.i = st.i
          /\ un.values \o SubSeq(args, st.used + 1, Len(args)) = args
      <3>1. Returns(st, Unpacked(st.mem, fmt, start), args)
        BY <1>1, <1>2, <1>3, <2>1, <2>2, PackedIsUnpacked
      <3> QED  BY <3>1 DEF Returns
    <2>4. /\ answer'.args[1] = fmt /\ answer'.args[2] = pos /\ answer'.args[3] = args
          /\ First(answer'.args[2], Len(bytes')) - 1 = start
      BY <1>1, <1>2
    <2>5. un = Unpacked(bytes', answer'.args[1], First(answer'.args[2], Len(bytes')) - 1)
      BY <2>1, <2>4
    <2>6. un.i + 1 = answer'.value.next /\ un.values \o answer'.value.rest = answer'.args[3]
      <3> HIDE DEF un
      <3> QED  BY <2>1, <2>3, <2>4
    <2> HIDE DEF un
    <2> QED  BY <2>3, <2>5, <2>6 DEF LastUnpacks
  <1>6. (Did("pack") /\ answer.value # Fault /\ answer.value.ok => LastUnpacks)'
    BY <1>5
  <1>7. (Did("unpack") /\ answer.value # Fault => LastPacks(FALSE))'
    BY <1>1 DEF Did
  <1> QED  BY <1>6, <1>7, UnpacksSuffices

\* mem_unpack: what was unpacked can be packed back.
LEMMA UnpackPacks ==
    ASSUME TypeOK, NEW fmt \in Seq(Options), NEW pos \in Int, Unpack(fmt, pos)
    PROVE  PackedUnpacks'
  <1> DEFINE start == PosRelat(pos, Size) - 1
             un == Unpacked(bytes, fmt, start)
             result == [values |-> un.values, next |-> un.i + 1]
             value == IF PosRelat(pos, Size) > Size + 1 THEN Fault
                      ELSE IF un.end = "error" THEN Fault ELSE result
  <1>1. /\ bytes \in Seq(Bytes) /\ bytes' = bytes
        /\ Answers("unpack", <<fmt, pos>>, value)
    BY DEF TypeOK, Unpack
  <1>2. start \in Nat /\ First(pos, Len(bytes)) - 1 = start
    <2>1. Size = Len(bytes) /\ Size \in Nat
      BY <1>1 DEF Size
    <2>2. PosRelat(pos, Size) \in Nat /\ PosRelat(pos, Size) >= 1
      BY <2>1, Clipped
    <2>3. First(pos, Len(bytes)) = PosRelat(pos, Size)
      BY <2>1, FirstIsStart
    <2> QED  BY <2>2, <2>3
  <1> HIDE DEF start, value
  <1>3. answer'.op = "unpack" /\ answer'.args = <<fmt, pos>> /\ answer'.value = value
    BY <1>1 DEF Answers
  <1>4. ASSUME answer'.value # Fault, NEW no \in BOOLEAN, ~no  PROVE LastPacks(no)'
    <2> HIDE DEF un, result
    <2>1. value = result /\ un.end # "error"
      BY <1>3, <1>4 DEF value
    <2>2. un \in UnpackStates
      <3>1. PICK u \in [0 .. Len(fmt) -> UnpackStates] : Unpacks(u, bytes, fmt, start)
        BY <1>1, <1>2, UnpackRuns
      <3>2. Len(fmt) \in 0 .. Len(fmt)
        BY SeqIsFunction
      <3> QED  BY <3>1, <3>2 DEF Unpacks, un
    <2>3. un.end = "running"
      BY <2>1, <2>2 DEF UnpackStates
    <2> DEFINE st == Packed(bytes, no, Header, fmt, start, un.values)
    <2>4. st.end = "running" /\ st.mem = bytes /\ st.i = un.i
      <3>1. un = Unpacked(bytes, fmt, start)
        BY DEF un
      <3> QED  BY <1>1, <1>2, <1>4, <2>3, <3>1, UnpackedIsPacked
    <2>5. answer'.value.values = un.values /\ answer'.value.next = un.i + 1
      BY <1>3, <2>1 DEF result
    <2>6. /\ answer'.args[1] = fmt /\ First(answer'.args[2], Len(bytes')) - 1 = start
      BY <1>1, <1>2, <1>3
    <2>7. st = Packed(bytes', no, Header, answer'.args[1],
                      First(answer'.args[2], Len(bytes')) - 1, answer'.value.values)
      BY <1>1, <2>5, <2>6
    <2> HIDE DEF st
    <2> QED  BY <1>1, <2>4, <2>5, <2>7 DEF LastPacks
  <1>5. (Did("unpack") /\ answer.value # Fault => LastPacks(FALSE))'
    BY <1>4
  <1>6. (Did("pack") /\ answer.value # Fault /\ answer.value.ok => LastUnpacks)'
    BY <1>3 DEF Did
  <1> QED  BY <1>5, <1>6, UnpacksSuffices

\* No operation has run.
LEMMA PackedUnpacksInit == Init => PackedUnpacks
  BY DEF Init, PackedUnpacks, Did

\* What was packed is unpacked, and what was unpacked is packed.
LEMMA PackedUnpacksStep == TypeOK /\ PackedUnpacks /\ [Next]_vars => PackedUnpacks'
  <1> SUFFICES ASSUME TypeOK, PackedUnpacks, [Next]_vars  PROVE PackedUnpacks'
    OBVIOUS
  <1>1. CASE UNCHANGED vars
    BY <1>1 DEF vars, PackedUnpacks, Did
  <1>2. CASE Return
    BY <1>2 DEF Return, PackedUnpacks, Did
  <1>3. ASSUME answer'.op \notin {"pack", "unpack"}  PROVE PackedUnpacks'
    BY <1>3 DEF PackedUnpacks, Did
  <1>4. CASE CreateResizable \/ Length \/ ViewToString \/ Close
    BY <1>3, <1>4 DEF CreateResizable, Length, ViewToString, Close, Answers
  <1>5. ASSUME NEW n, CreateZeros(n)  PROVE PackedUnpacks'
    BY <1>3, <1>5 DEF CreateZeros, Answers
  <1>6. ASSUME NEW n, NEW s, Resize(n, s)  PROVE PackedUnpacks'
    BY <1>3, <1>6 DEF Resize, Answers
  <1>7. ASSUME NEW s, Concat(s)  PROVE PackedUnpacks'
    BY <1>3, <1>7 DEF Concat, Answers
  <1>8. ASSUME NEW s, Diff(s)  PROVE PackedUnpacks'
    BY <1>3, <1>8 DEF Diff, Answers
  <1>9. ASSUME NEW k, NEW c, Lend(k, c)  PROVE PackedUnpacks'
    BY <1>3, <1>9 DEF Lend, Answers
  <1>10. ASSUME NEW i, NEW j, Get(i, j) \/ MemToString(i, j)  PROVE PackedUnpacks'
    BY <1>3, <1>10 DEF Get, MemToString, Answers
  <1>11. ASSUME NEW i, NEW j, NEW s, CreateCopy(s, i, j)  PROVE PackedUnpacks'
    BY <1>3, <1>11 DEF CreateCopy, Answers
  <1>12. ASSUME NEW i, NEW j, NEW c, FillNumber(c, i, j)  PROVE PackedUnpacks'
    BY <1>3, <1>12 DEF FillNumber, Answers
  <1>13. ASSUME NEW i, NEW j, NEW s, NEW o, Find(s, i, j, o)  PROVE PackedUnpacks'
    BY <1>3, <1>13 DEF Find, Answers
  <1>14. ASSUME NEW i, NEW j, NEW s, NEW o, Fill(s, i, j, o)  PROVE PackedUnpacks'
    BY <1>3, <1>14 DEF Fill, Answers
  <1>15. ASSUME NEW i, ViewGet(i)  PROVE PackedUnpacks'
    BY <1>3, <1>15 DEF ViewGet, Answers
  <1>16. ASSUME NEW i, NEW c, ViewSet(i, c)  PROVE PackedUnpacks'
    BY <1>3, <1>16 DEF ViewSet, Answers
  <1>17. ASSUME NEW i, NEW codes, Set(i, codes)  PROVE PackedUnpacks'
    BY <1>3, <1>17 DEF Set, Answers
  <1>18. ASSUME NEW i \in Positions, NEW fmt \in Formats, Unpack(fmt, i)
         PROVE  PackedUnpacks'
    BY <1>18, FormatsAssumption, Numbers, UnpackPacks
  <1>19. ASSUME NEW i \in Positions, NEW fmt \in Formats, NEW args \in Arguments(fmt),
                Pack(fmt, i, args)
         PROVE  PackedUnpacks'
    <2>1. fmt \in Seq(Options) /\ i \in Int
      BY FormatsAssumption, Numbers
    <2>2. args \in Seq(Values)
      BY <2>1, ArgumentsAreLists
    <2> QED  BY <1>19, <2>1, <2>2, PackUnpacks
  <1> QED  BY <1>1, <1>2, <1>4, <1>5, <1>6, <1>7, <1>8, <1>9, <1>10, <1>11, <1>12,
              <1>13, <1>14, <1>15, <1>16, <1>17, <1>18, <1>19 DEF Next

\* mem_pack and mem_unpack are inverses of each other, for every format, memory,
\* start, base and width: after a complete pack, unpack returns the arguments that
\* pack had used from the bytes it left, and ends where it ended, with the same
\* alignment, byte order, sign and sign extension; what unpack has returned can
\* be packed in the same place, and changes no byte.
THEOREM PacksUnpack == Spec => []PackedUnpacks
  BY Typed, PackedUnpacksInit, TypeStep, PackedUnpacksStep, PTL DEF Spec
=============================================================================
