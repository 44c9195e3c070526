---------------------------- MODULE ScriptMemory ----------------------------
(***************************************************************************)
(* How a script reads and writes the bytes of a MemoryView: the memory     *)
(* library of Lua (lmemlib.c, luamem.c), the accessors of Ruby's class     *)
(* MemoryView and Jx9's memory_view_* functions.                           *)
(*                                                                         *)
(* One memory, one operation at a time: an operation leaves its outcome in *)
(* answer, and Return takes it away. Positions count from 1, negative ones *)
(* from the end, as in Lua's strings. Widths are scaled down: a byte has   *)
(* Base values, a lua_Integer and a size_t have SzInt bytes.               *)
(***************************************************************************)
EXTENDS Integers, Sequences, FiniteSets, FiniteSetsExt, SequencesExt

CONSTANTS
    Base,        \* number of values of a byte (256)
    SzInt,       \* bytes of a lua_Integer and of a size_t (8)
    MaxLen,      \* bound: the longest memory
    Positions,   \* positions, sizes and integers that scripts pass
    Texts,       \* the strings that scripts pass
    Formats,     \* formats of pack and unpack: sequences of options
    Self,        \* "the memory itself", as an operand
    NoAnswer,    \* no operation has run since the last Return
    Fault        \* the answer of an operation that raises

ASSUME BaseAssumption == Base \in Nat /\ Base > 1
ASSUME WidthAssumption == SzInt \in Nat \ {0} /\ MaxLen \in Nat
ASSUME PositionsAssumption == Positions \subseteq Int

Bytes == 0 .. Base - 1

\* 1 << (n * NB): how many values n bytes have, as far as a lua_Integer goes.
Power[n \in 0 .. SzInt] == IF n = 0 THEN 1 ELSE Base * Power[n - 1]

ASSUME TextsAssumption == Texts \subseteq Seq(Bytes)
ASSUME SelfAssumption == Self \notin Seq(Bytes)
ASSUME FaultAssumption == Fault \notin Int

VARIABLES
    kind,    \* what the script holds
    bytes,   \* its content
    answer   \* the operation that has just run, and what it returned

vars == <<kind, bytes, answer>>

\* memory.type tells "fixed" (a userdata), "resizable" (a reference whose
\* unref is luamem_free) and "other" (any other reference: a view lent by
\* JSONToLuaObject, a closed one) apart; the last two are not Lua's.
LuaKinds == {"fixed", "resizable", "other"}
Kinds == LuaKinds \cup {"ruby", "jx9"}

Lua == kind \in LuaKinds
Size == Len(bytes)

\* luamem_tomemoryx: the mem of an empty reference is NULL.
NullPointer == kind \in {"resizable", "other"} /\ bytes = <<>>

Operands == Texts \cup {Self}

\* luamem_checkarray.
Array(s) == IF s = Self THEN bytes ELSE s

Zeros(n) == [k \in 1 .. n |-> 0]
-----------------------------------------------------------------------------
(* Positions *)

\* Mutant: negative positions are one too small.
PosRelatShifted(pos, len) ==
    CASE pos > 0 -> pos
      [] pos = 0 \/ pos <= -len -> 1
      [] OTHER -> len + pos

\* posrelatI: a start, clipped to [1, inf).
PosRelat(pos, len) ==
    CASE pos > 0 -> pos
      [] pos = 0 \/ pos < -len -> 1
      [] OTHER -> len + pos + 1

\* getendpos: an end, clipped to [0, len].
EndPos(pos, len) ==
    CASE pos > len -> len
      [] pos >= 0 /\ pos <= len -> pos
      [] pos < -len -> 0
      [] OTHER -> len + pos + 1
-----------------------------------------------------------------------------
(* Operations that do not write *)

\* Op returned value; before is what the memory held when it started.
Answers(op, args, value) ==
    answer' = [op |-> op, args |-> args, before |-> bytes, value |-> value]

Ready == answer = NoAnswer

\* mem_get with str2byte: the end of the slice is, by default, its start.
Get(i, j) ==
    LET from == PosRelat(i, Size) to == EndPos(j, Size) IN
    /\ Ready /\ Lua
    /\ Answers("get", <<i, j>>, SubSeq(bytes, from, to))
    /\ UNCHANGED <<kind, bytes>>

\* mem_tostring, also the metamethod.
MemToString(i, j) ==
    LET from == PosRelat(i, Size) to == EndPos(j, Size) IN
    /\ Ready /\ Lua
    /\ Answers("tostring", <<i, j>>, SubSeq(bytes, from, to))
    /\ UNCHANGED <<kind, bytes>>

\* mem_len.
Length ==
    /\ Ready /\ Lua
    /\ Answers("len", <<>>, <<Size>>)
    /\ UNCHANGED <<kind, bytes>>

\* mem_concat: a new string; nothing can be concatenated with NULL.
Concat(s) ==
    /\ Ready /\ Lua
    /\ Answers("concat", <<s>>, IF NullPointer THEN Fault ELSE bytes \o Array(s))
    /\ UNCHANGED <<kind, bytes>>

\* A char is signed where poesie runs.
AsChar(b) == IF 2 * b >= Base THEN b - Base ELSE b

\* mem_diff: the first position that differs, and which array is less.
Diff(s) ==
    LET t == Array(s)
        n == IF Size < Len(t) THEN Size ELSE Len(t)
        skip[i \in 1 .. n + 1] ==
            IF i <= n /\ bytes[i] = t[i] THEN skip[i + 1] ELSE i
        at == skip[1]
    IN  /\ Ready /\ Lua
        /\ Answers("diff", <<s>>,
             IF at <= n THEN <<at, AsChar(bytes[at]) < AsChar(t[at])>>
             ELSE IF Size = Len(t) THEN <<0, FALSE>>
             ELSE <<at, Size < Len(t)>>)
        /\ UNCHANGED <<kind, bytes>>

\* Mutant: the last place where the needle fits is not looked at.
LMemFindShort(hay, from, n, needle) ==
    LET last == from + n - Len(needle)
        scan[p \in from .. last + 1] ==
            IF p >= last THEN 0
            ELSE IF SubSeq(hay, p, p + Len(needle) - 1) = needle THEN p
            ELSE scan[p + 1]
    IN  IF Len(needle) > n THEN 0 ELSE scan[from]

\* lmemfind: the first place in hay[from .. from+n-1] that starts with
\* needle, 0 if there is none.
LMemFind(hay, from, n, needle) ==
    LET last == from + n - Len(needle)
        scan[p \in from .. last + 1] ==
            IF p > last THEN 0
            ELSE IF SubSeq(hay, p, p + Len(needle) - 1) = needle THEN p
            ELSE scan[p + 1]
    IN  IF Len(needle) > n THEN 0 ELSE scan[from]

\* mem_find: a needle longer than the window is cut to it, but the end that
\* is returned has the whole needle's length; an empty needle is not found.
Find(s, i, j, o) ==
    LET t == Array(s)
        from == PosRelat(i, Size)  to == EndPos(j, Size)
        os == PosRelat(o, Len(t))
        n == to - from + 1
        sl == Len(t) - os + 1
        cut == SubSeq(t, os, os + (IF sl < n THEN sl ELSE n) - 1)
        p == LMemFind(bytes, from, n, cut)
    IN  /\ Ready /\ Lua
        /\ Answers("find", <<s, i, j, o>>,
             IF from <= to /\ os <= Len(t) /\ p # 0
             THEN <<p, p - 1 + sl>> ELSE <<>>)
        /\ UNCHANGED <<kind, bytes>>
-----------------------------------------------------------------------------
(* Operations that write *)

\* code2char: mem after the codes have been written from i on, up to the
\* first one that is not a byte.
CodeToChar(mem, i, codes) ==
    [k \in DOMAIN mem |->
        IF /\ k \in i .. i + Len(codes) - 1
           /\ \A c \in 1 .. k - i + 1 : codes[c] \in Bytes
        THEN codes[k - i + 1] ELSE mem[k]]

\* mem_set: codes that do not fit behind i are not looked at.
Set(i, codes) ==
    LET from == PosRelat(i, Size)
        room == Size - from + 1
        used == SubSeq(codes, 1, IF Len(codes) < room THEN Len(codes) ELSE room)
    IN  /\ Ready /\ Lua
        /\ IF from > Size
           THEN Answers("set", <<i, codes>>, Fault) /\ UNCHANGED bytes
           ELSE /\ bytes' = CodeToChar(bytes, from, used)
                /\ Answers("set", <<i, codes>>,
                     IF \A k \in DOMAIN used : used[k] \in Bytes
                     THEN <<>> ELSE Fault)
        /\ UNCHANGED kind

\* Mutant: a chunk that is cut starts at the end of the source.
MemFillBackwards(mem, i, n, s, os) ==
    LET chunk == Len(IF s = Self THEN mem ELSE s) - os + 1
        fill[c \in 0 .. n] ==
          IF c = 0 THEN mem
          ELSE LET m == fill[c - 1]
                   first == i + (c - 1) * chunk
                   size == IF first + chunk <= i + n THEN chunk ELSE i + n - first
               IN  [k \in DOMAIN mem |->
                      IF k \in first .. first + size - 1
                      THEN (IF s = Self THEN m ELSE s)[os + chunk - size + k - first]
                      ELSE m[k]]
    IN  fill[n]

\* The c-th memmove of memfill. Its source s[os ..] is mem itself if s is Self.
FillTurn(mem, c, i, n, s, os) ==
    LET t == IF s = Self THEN mem ELSE s
        chunk == Len(t) - os + 1
        first == i + (c - 1) * chunk
    IN  [k \in DOMAIN mem |->
            IF k \in first .. first + chunk - 1 /\ k < i + n
            THEN t[os + k - first] ELSE mem[k]]

\* memfill: n bytes from i on, chunk by chunk.
MemFill(mem, i, n, s, os) ==
    LET fill[c \in 0 .. n] ==
            IF c = 0 THEN mem ELSE FillTurn(fill[c - 1], c, i, n, s, os)
    IN  fill[n]

\* mem_fill with a string or a memory.
Fill(s, i, j, o) ==
    LET t == Array(s)
        from == PosRelat(i, Size)  to == EndPos(j, Size)
        os == PosRelat(o, Len(t))
    IN  /\ Ready /\ Lua
        /\ bytes' = IF from <= to /\ os <= Len(t)
                    THEN MemFill(bytes, from, to - from + 1, s, os)
                    ELSE bytes
        /\ Answers("fill", <<s, i, j, o>>, <<>>)
        /\ UNCHANGED kind

\* mem_fill with a number: one byte, which is checked first.
FillNumber(c, i, j) ==
    LET from == PosRelat(i, Size) to == EndPos(j, Size) IN
    /\ Ready /\ Lua
    /\ IF c \in Bytes
       THEN /\ bytes' = IF from <= to
                        THEN MemFill(bytes, from, to - from + 1, <<c>>, 1)
                        ELSE bytes
            /\ Answers("fill", <<<<c>>, i, j, 1>>, <<>>)
       ELSE /\ UNCHANGED bytes
            /\ Answers("fill", <<<<c>>, i, j, 1>>, Fault)
    /\ UNCHANGED kind

\* memory_view_get_byte, MemoryView_get: Ruby raises, Jx9 returns null;
\* Jx9's byte is a char.
ViewGet(i) ==
    /\ Ready /\ ~Lua
    /\ Answers("viewget", <<i>>,
         IF i \notin 0 .. Size - 1 THEN Fault
         ELSE IF kind = "ruby" THEN <<bytes[i + 1]>>
         ELSE <<AsChar(bytes[i + 1])>>)
    /\ UNCHANGED <<kind, bytes>>

\* memory_view_set_byte, MemoryView_set: Ruby returns the value or raises, Jx9
\* returns whether it wrote.
ViewSet(i, c) ==
    LET wrote == i \in 0 .. Size - 1 /\ c \in Bytes IN
    /\ Ready /\ ~Lua
    /\ bytes' = IF wrote THEN [bytes EXCEPT ![i + 1] = c] ELSE bytes
    /\ Answers("viewset", <<i, c>>,
         IF kind = "jx9" THEN <<wrote>> ELSE IF wrote THEN <<c>> ELSE Fault)
    /\ UNCHANGED kind

\* memory_view_size, to_s, memory_view_length, memory_view_to_string.
ViewToString ==
    /\ Ready /\ ~Lua
    /\ Answers("tostring", <<1, -1>>, bytes)
    /\ UNCHANGED <<kind, bytes>>
-----------------------------------------------------------------------------
(* pack and unpack *)

\* An option of a format: what it is, and its size, or the alignment it asks
\* for ("align": X and the option that follows it; "maxalign": !).
OptionKinds == {"int", "uint", "char", "string", "zstr", "pad", "align",
                "little", "big", "maxalign"}
Options == [k : OptionKinds, n : Nat]

ASSUME FormatsAssumption == Formats \subseteq Seq(Options)

TakesArgument(o) == o.k \in {"int", "uint", "char", "string", "zstr"}

\* Header.
Header == [little |-> TRUE, maxalign |-> 1]
Configured(h, o) ==
    CASE o.k = "little" -> [h EXCEPT !.little = TRUE]
      [] o.k = "big" -> [h EXCEPT !.little = FALSE]
      [] o.k = "maxalign" -> [h EXCEPT !.maxalign = o.n]
      [] OTHER -> h

\* getdetails: the bytes to skip before option o when total ones precede it;
\* negative if the alignment is not a power of two.
ToAlign(h, o, total) ==
    LET align == IF o.n > h.maxalign THEN h.maxalign ELSE o.n IN
    CASE o.k \notin {"int", "uint", "string", "align"} \/ o.n <= 1 -> 0
      [] align \in {1, 2, 4, 8, 16} -> (align - (total % align)) % align
      [] OTHER -> -1

\* Mutant: no sign extension.
DigitsUnsigned(n, size, neg) ==
    [d \in 1 .. size |->
        IF d <= SzInt THEN ((n % Power[SzInt]) \div Power[d - 1]) % Base ELSE 0]

\* packint: size digits of n in base Base, least significant first; those
\* that a lua_Integer does not have are zeros, or the sign of n if neg.
Digits(n, size, neg) ==
    [d \in 1 .. size |->
        IF d <= SzInt THEN ((n % Power[SzInt]) \div Power[d - 1]) % Base
        ELSE IF neg THEN Base - 1 ELSE 0]

Ordered(h, digits) == IF h.little THEN digits ELSE Reverse(digits)

\* x is a lua_Integer.
FitsInteger(x) == x \in Int /\ 2 * x \in -Power[SzInt] .. Power[SzInt] - 1

\* luaL_checkinteger, luamem_checkarray.
HasType(o, x) ==
    IF o.k \in {"int", "uint"} THEN FitsInteger(x) ELSE x \in Seq(Bytes)

\* The argument is one that the option accepts; a length is a size_t.
Packable(o, x) ==
    /\ HasType(o, x)
    /\ CASE o.k = "int" ->
              o.n < SzInt => 2 * x \in -Power[o.n] .. Power[o.n] - 1
         [] o.k = "uint" -> o.n < SzInt => x \in 0 .. Power[o.n] - 1
         [] o.k = "char" -> Len(x) = o.n
         [] o.k = "string" ->
              Len(x) < Power[SzInt] /\ (o.n < SzInt => Len(x) < Power[o.n])
         [] o.k = "zstr" -> 0 \notin {x[d] : d \in DOMAIN x}

\* What the option writes, in pieces that are written whole or not at all.
Pieces(h, o, x) ==
    CASE o.k = "int" -> <<Ordered(h, Digits(x, o.n, x < 0))>>
      [] o.k = "uint" -> <<Ordered(h, Digits(x, o.n, FALSE))>>
      [] o.k = "char" -> <<x>>
      [] o.k = "string" -> <<Ordered(h, Digits(Len(x), o.n, FALSE)), x>>
      [] o.k = "zstr" -> <<x, <<0>>>>

\* Mutant: a piece that does not fit is written as far as it goes.
PutPartly(st, piece) ==
    IF st.end # "running" THEN st
    ELSE [st EXCEPT
            !.mem = [d \in DOMAIN st.mem |->
                       IF d \in st.i + 1 .. st.i + Len(piece)
                       THEN piece[d - st.i] ELSE st.mem[d]],
            !.i = @ + Len(piece),
            !.end = IF st.i + Len(piece) > Len(st.mem) THEN "failed" ELSE @]

\* getbytes and memcpy.
Put(st, piece) ==
    IF st.end # "running" THEN st
    ELSE IF st.i + Len(piece) > Len(st.mem) THEN [st EXCEPT !.end = "failed"]
    ELSE [st EXCEPT
            !.mem = [d \in DOMAIN st.mem |->
                       IF d \in st.i + 1 .. st.i + Len(piece)
                       THEN piece[d - st.i] ELSE st.mem[d]],
            !.i = @ + Len(piece)]

PutAll(st, pieces) ==
    IF Len(pieces) = 1 THEN Put(st, pieces[1])
    ELSE Put(Put(st, pieces[1]), pieces[2])

\* One turn of mem_pack's loop. A NULL memory has no room for nothing.
PackOption(st, o, args, null) ==
    LET skip == ToAlign(st.h, o, st.i)
        aligned == [st EXCEPT !.i = @ + skip]
        x == args[st.used + 1]
        packed ==
            CASE TakesArgument(o) ->
                   IF Len(args) = st.used \/ ~Packable(o, x)
                   THEN [aligned EXCEPT !.end = "error"]
                   ELSE PutAll(aligned, Pieces(st.h, o, x))
              [] o.k = "pad" ->
                   IF aligned.i < Len(st.mem) THEN [aligned EXCEPT !.i = @ + 1]
                   ELSE [aligned EXCEPT !.end = "failed"]
              [] OTHER -> [aligned EXCEPT !.h = Configured(st.h, o)]
    IN  CASE st.end # "running" -> st
          [] st.end = "running" /\ skip < 0 -> [st EXCEPT !.end = "error"]
          [] st.end = "running" /\ skip >= 0
                /\ (null \/ st.i + skip > Len(st.mem)) ->
               [st EXCEPT !.end = "failed"]
          [] OTHER ->
               IF packed.end # "running" THEN packed
               ELSE IF TakesArgument(o) THEN [packed EXCEPT !.used = @ + 1]
               ELSE packed

\* mem_pack's loop from byte i (counted from 0) on.
Packed(mem, null, h, fmt, i, args) ==
    LET run[d \in 0 .. Len(fmt)] ==
            IF d = 0 THEN [mem |-> mem, i |-> i, h |-> h, used |-> 0, end |-> "running"]
            ELSE PackOption(run[d - 1], fmt[d], args, null)
    IN  run[Len(fmt)]

\* mem_pack: true and the next position, or false, the position reached and
\* the arguments left (packfailed).
Pack(fmt, pos, args) ==
    LET st == Packed(bytes, NullPointer, Header, fmt, PosRelat(pos, Size) - 1, args)
    IN  /\ Ready /\ Lua
        /\ IF PosRelat(pos, Size) > Size + 1
           THEN Answers("pack", <<fmt, pos, args>>, Fault) /\ UNCHANGED bytes
           ELSE /\ bytes' = st.mem
                /\ Answers("pack", <<fmt, pos, args>>,
                     IF st.end = "error" THEN Fault
                     ELSE [ok |-> st.end = "running", next |-> st.i + 1,
                           rest |-> SubSeq(args, st.used + 1, Len(args))])
        /\ UNCHANGED kind

AsInteger(n, size) == IF 2 * n >= Power[size] THEN n - Power[size] ELSE n

\* The number that the first n of digits, least significant first, make up.
NumberOf(digits, n) ==
    LET value[d \in 0 .. n] ==
            IF d = 0 THEN 0 ELSE value[d - 1] * Base + digits[n - d + 1]
    IN  value[n]

\* unpackint: digits, least significant first, as a lua_Integer; Fault if it
\* does not fit.
FromDigits(digits, signed) ==
    LET size == Len(digits)
        low == IF size < SzInt THEN size ELSE SzInt
        n == NumberOf(digits, low)
        res == IF size < SzInt /\ ~signed THEN n ELSE AsInteger(n, low)
    IN  IF \A d \in SzInt + 1 .. size :
             digits[d] = IF signed /\ res < 0 THEN Base - 1 ELSE 0
        THEN res ELSE Fault

\* One turn of mem_unpack's loop.
UnpackOption(st, o, data) ==
    LET skip == ToAlign(st.h, o, st.i)
        at == st.i + skip
        size == CASE TakesArgument(o) /\ o.k # "zstr" -> o.n
                  [] o.k = "pad" -> 1
                  [] OTHER -> 0
        int == FromDigits(Ordered(st.h, SubSeq(data, at + 1, at + size)),
                          o.k = "int")
        len == int % Power[SzInt]
        zeros == {d \in at + 1 .. Len(data) : data[d] = 0}
        zero == CHOOSE d \in zeros : \A e \in zeros : d <= e
        Yield(x, to) == [st EXCEPT !.i = to, !.values = Append(@, x)]
        Fails == [st EXCEPT !.end = "error"]
    IN  CASE st.end = "error" -> st
          [] st.end # "error" /\ (skip < 0 \/ skip + size > Len(data) - st.i) -> Fails
          [] OTHER ->
               CASE o.k \in {"int", "uint"} ->
                      IF int = Fault THEN Fails ELSE Yield(int, at + size)
                 [] o.k = "char" -> Yield(SubSeq(data, at + 1, at + size), at + size)
                 [] o.k = "string" ->
                      IF int = Fault THEN Fails
                      ELSE IF len > Len(data) - at - size THEN Fails
                      ELSE Yield(SubSeq(data, at + size + 1, at + size + len),
                                 at + size + len)
                 [] o.k = "zstr" ->
                      IF zeros = {} THEN Fails
                      ELSE Yield(SubSeq(data, at + 1, zero - 1), zero)
                 [] OTHER -> [st EXCEPT !.i = at + size, !.h = Configured(st.h, o)]

Unpacked(data, fmt, i) ==
    LET run[d \in 0 .. Len(fmt)] ==
            IF d = 0 THEN [i |-> i, h |-> Header, values |-> <<>>, end |-> "running"]
            ELSE UnpackOption(run[d - 1], fmt[d], data)
    IN  run[Len(fmt)]

\* mem_unpack: the values and the next position.
Unpack(fmt, pos) ==
    LET st == Unpacked(bytes, fmt, PosRelat(pos, Size) - 1) IN
    /\ Ready /\ Lua
    /\ Answers("unpack", <<fmt, pos>>,
         IF PosRelat(pos, Size) > Size + 1 THEN Fault
         ELSE IF st.end = "error" THEN Fault
         ELSE [values |-> st.values, next |-> st.i + 1])
    /\ UNCHANGED <<kind, bytes>>
-----------------------------------------------------------------------------
(* Where memories come from *)

\* memory.create(), create(n) and create(s, i, j).
CreateResizable ==
    /\ Ready
    /\ kind' = "resizable" /\ bytes' = <<>>
    /\ Answers("create", <<>>, <<>>)

CreateZeros(n) ==
    /\ Ready
    /\ IF n < 0 THEN UNCHANGED <<kind, bytes>>
       ELSE kind' = "fixed" /\ bytes' = Zeros(n)
    /\ Answers("create", <<n>>, IF n < 0 THEN Fault ELSE <<>>)

CreateCopy(s, i, j) ==
    LET t == Array(s) IN
    /\ Ready /\ (s = Self => Lua)
    /\ kind' = "fixed"
    /\ bytes' = SubSeq(t, PosRelat(i, Len(t)), EndPos(j, Len(t)))
    /\ Answers("copy", <<s, i, j>>, <<>>)

\* JSONToLuaObject, JSONtoMrubyValue, JSONtoJx9Value: a client's view.
Lend(k, content) ==
    /\ Ready
    /\ kind' = k /\ bytes' = content
    /\ Answers("lend", <<>>, <<>>)

\* Mutant: the bytes that were there are filled, too.
ResizeRefills(n, s) ==
    LET t == Array(s) IN
    /\ Ready /\ Lua
    /\ IF n < 0 \/ kind # "resizable"
       THEN Answers("resize", <<n, s>>, Fault) /\ UNCHANGED bytes
       ELSE /\ bytes' = IF n <= Size THEN SubSeq(bytes, 1, n)
                        ELSE IF t = <<>> THEN bytes \o Zeros(n - Size)
                        ELSE MemFill(Zeros(n), 1, n, t, 1)
            /\ Answers("resize", <<n, s>>, <<>>)
    /\ UNCHANGED kind

\* mem_resize: the new bytes are filled with s, from its pointer. If s is the
\* memory itself, realloc may have freed what it points to.
Resize(n, s) ==
    LET t == Array(s)
        longer == bytes \o Zeros(n - Size)
    IN  /\ Ready /\ Lua
        /\ IF n < 0 \/ kind # "resizable"
           THEN Answers("resize", <<n, s>>, Fault) /\ UNCHANGED bytes
           ELSE /\ IF n <= Size THEN bytes' = SubSeq(bytes, 1, n)
                   ELSE IF t = <<>> THEN bytes' = longer
                   ELSE IF s = Self
                   THEN \E junk \in [1 .. n - Size -> Bytes] : bytes' = bytes \o junk
                   ELSE bytes' = MemFill(longer, Size + 1, n - Size, s, 1)
                /\ Answers("resize", <<n, s>>, <<>>)
        /\ UNCHANGED kind

\* refgc, as __close: the reference forgets its memory, unless it is empty.
Close ==
    /\ Ready /\ kind \in {"resizable", "other"}
    /\ IF Size > 0 THEN kind' = "other" /\ bytes' = <<>>
       ELSE UNCHANGED <<kind, bytes>>
    /\ Answers("close", <<>>, <<>>)

Return ==
    /\ answer # NoAnswer
    /\ answer' = NoAnswer
    /\ UNCHANGED <<kind, bytes>>
-----------------------------------------------------------------------------
(* Behaviours: a script that calls one operation after another. *)

\* The lua_Integers that scripts pass.
Integer == {x \in Positions : FitsInteger(x)}

\* The lists in lists, each with one argument more if option o takes one.
WithArgument(lists, o) ==
    IF TakesArgument(o)
    THEN {Append(a, x) : a \in lists,
            x \in IF o.k \in {"int", "uint"} THEN Integer ELSE Texts}
    ELSE lists

\* Arguments of the types that fmt asks for; the last one may be missing.
Arguments(fmt) ==
    LET args[d \in 0 .. Len(fmt)] ==
            IF d = 0 THEN {<<>>} ELSE WithArgument(args[d - 1], fmt[d])
        all == args[Len(fmt)]
    IN  all \cup {Front(a) : a \in all \ {<<>>}}

Codes == BoundedSeq(-1 .. Base, 3) \ {<<>>}

Contents == UNION {[1 .. n -> Bytes] : n \in 1 .. MaxLen}

Init == kind = "resizable" /\ bytes = <<>> /\ answer = NoAnswer

Next ==
    \/ CreateResizable \/ Length \/ ViewToString \/ Close \/ Return
    \/ \E n \in -1 .. MaxLen : CreateZeros(n) \/ \E s \in Operands : Resize(n, s)
    \/ \E s \in Operands : Concat(s) \/ Diff(s)
    \/ \E k \in {"other", "ruby", "jx9"}, c \in Contents : Lend(k, c)
    \/ \E i, j \in Positions :
          \/ Get(i, j) \/ MemToString(i, j)
          \/ \E s \in Operands : CreateCopy(s, i, j)
          \/ \E c \in -1 .. Base : FillNumber(c, i, j)
          \/ \E s \in Operands, o \in Positions : Find(s, i, j, o) \/ Fill(s, i, j, o)
    \/ \E i \in Positions :
          \/ ViewGet(i)
          \/ \E c \in -1 .. Base : ViewSet(i, c)
          \/ \E codes \in Codes : Set(i, codes)
          \/ \E fmt \in Formats :
                \/ Unpack(fmt, i)
                \/ \E args \in Arguments(fmt) : Pack(fmt, i, args)

Spec == Init /\ [][Next]_vars
-----------------------------------------------------------------------------
(* Properties. They say what positions denote without clipping: i is where  *)
(* a slice starts, j where it ends, negative ones count back from the end. *)

NotBefore(k, i, len) == IF i >= 0 THEN k >= i ELSE k >= len + 1 + i
NotAfter(k, j, len) == IF j >= 0 THEN k <= j ELSE k <= len + 1 + j
Window(i, j, len) == {k \in 1 .. len : NotBefore(k, i, len) /\ NotAfter(k, j, len)}
Slice(s, i, j) ==
    LET w == Window(i, j, Len(s)) IN
    [k \in 1 .. Cardinality(w) |-> s[Min(w) - 1 + k]]

\* The first position that i denotes, which may be past the end.
First(i, len) == IF i > len THEN i ELSE Min({k \in 1 .. len + 1 : NotBefore(k, i, len)})

Did(op) == answer # NoAnswer /\ answer.op = op

\* What operand s of the last operation was.
Was(s) == IF s = Self THEN answer.before ELSE s

\* The positions the last operation may change.
Writable ==
    LET len == Len(answer.before) a == answer.args IN
    CASE answer.op = "fill" -> Window(a[2], a[3], len)
      [] answer.op = "set" -> {k \in 1 .. len :
            k - First(a[1], len) \in 0 .. Len(a[2]) - 1}
      [] answer.op = "pack" -> {k \in 1 .. len : k >= First(a[2], len)}
      [] answer.op = "viewset" -> {a[1] + 1}
      [] answer.op = "resize" -> Len(bytes) + 1 .. len
      [] OTHER -> {}

\* A script changes only the bytes its positions denote, and no length but
\* that of a resizable memory. set writes its codes up to the first one that is
\* not a byte, and those that reach past the end are dropped without an error.
WritesDenoted ==
    /\ answer # NoAnswer /\ answer.op \notin {"create", "copy", "lend", "close"} =>
        /\ \A k \in DOMAIN answer.before :
              k \notin Writable => k \in DOMAIN bytes /\ bytes[k] = answer.before[k]
        /\ answer.op # "resize" => Len(bytes) = Len(answer.before)
    /\ Did("set") =>
        LET codes == answer.args[2] first == First(answer.args[1], Len(bytes)) IN
        \A c \in DOMAIN codes :
            /\ \A d \in 1 .. c : codes[d] \in Bytes
            /\ first + c - 1 <= Len(bytes)
            => bytes[first + c - 1] = codes[c]

\* What is read is what the positions denote, in Lua, Ruby and Jx9; Jx9 gets
\* the bytes of the upper half as negative numbers.
ReadsDenoted ==
    /\ Did("get") \/ Did("tostring") =>
         answer.value = Slice(bytes, answer.args[1], answer.args[2])
    /\ Did("concat") /\ answer.value # Fault =>
         LET whole == answer.value s == Was(answer.args[1]) IN
         /\ bytes = Slice(whole, 1, Len(whole) - Len(s))
         /\ s = <<>> \/ s = Slice(whole, -Len(s), -1)
    /\ Did("copy") =>
         bytes = Slice(Was(answer.args[1]), answer.args[2], answer.args[3])
    /\ Did("viewget") /\ answer.value # Fault =>
         LET b == bytes[answer.args[1] + 1] IN
         answer.value = <<IF kind = "jx9" /\ b >= Base - Base \div 2 THEN b - Base ELSE b>>

\* fill and resize repeat their operand over the window, from the window's
\* start. A memory that fills itself does so only if no chunk but the last
\* overwrites where the source starts; one that is resized with itself, never
\* surely.
FillRepeats ==
    /\ Did("fill") /\ answer.value # Fault =>
        LET s == answer.args[1]
            t == Was(s)
            w == Window(answer.args[2], answer.args[3], Len(bytes))
            os == First(answer.args[4], Len(t))
            n == Len(t) - os + 1
            rereads == s = Self /\ \E c \in 0 .. Len(t) :
                          LET chunk == Min(w) + c * n IN
                          chunk < os /\ os < chunk + n /\ chunk + n <= Max(w)
        IN  IF w = {} \/ n <= 0 THEN bytes = answer.before
            ELSE rereads \/ \A k \in w : bytes[k] = t[os + ((k - Min(w)) % n)]
    /\ Did("resize") /\ answer.value # Fault =>
        LET s == answer.args[2] old == Len(answer.before) IN
        \A k \in old + 1 .. Len(bytes) :
            bytes[k] = IF Was(s) = <<>> THEN 0
                       ELSE IF s = Self THEN bytes[k]
                       ELSE s[((k - old - 1) % Len(s)) + 1]

\* find returns the first occurrence that lies in the window, and its last
\* position, or nothing if there is none; diff, the first difference. A needle
\* that is longer than the window is not what find looks for.
SearchesExact ==
    /\ Did("find") =>
        LET t == Was(answer.args[1])
            w == Window(answer.args[2], answer.args[3], Len(bytes))
            needle == Slice(t, answer.args[4], -1)
            places == {p \in w : /\ p + Len(needle) - 1 \in w
                                 /\ SubSeq(bytes, p, p + Len(needle) - 1) = needle}
        IN  CASE needle = <<>> -> answer.value = <<>>
              [] needle # <<>> /\ Len(needle) > Cardinality(w) ->
                   answer.value # <<>> => answer.value[2] \notin w
              [] OTHER ->
                   IF places = {} THEN answer.value = <<>>
                   ELSE answer.value = <<Min(places), Min(places) + Len(needle) - 1>>
    /\ Did("diff") =>
        LET t == Was(answer.args[1])
            at == answer.value[1]
            AgreeBefore(k) == \A d \in 1 .. k - 1 : bytes[d] = t[d]
        IN  IF at = 0 THEN bytes = t
            ELSE /\ AgreeBefore(at)
                 /\ \/ at \in DOMAIN bytes \cap DOMAIN t /\ bytes[at] # t[at]
                    \/ at = 1 + Min({Len(bytes), Len(t)}) /\ Len(bytes) # Len(t)

\* pack and unpack are inverses of each other: what was packed is unpacked
\* from the same place, with the same alignment, sign and end; what was
\* unpacked can be packed back without a change.
PackedUnpacks ==
    /\ Did("pack") /\ answer.value # Fault /\ answer.value.ok =>
        LET st == Unpacked(bytes, answer.args[1],
                           First(answer.args[2], Len(bytes)) - 1)
        IN  /\ st.end = "running" /\ st.i + 1 = answer.value.next
            /\ st.values \o answer.value.rest = answer.args[3]
    /\ Did("unpack") /\ answer.value # Fault =>
        LET st == Packed(bytes, FALSE, Header, answer.args[1],
                         First(answer.args[2], Len(bytes)) - 1, answer.value.values)
        IN  st.end = "running" /\ st.mem = bytes /\ st.i + 1 = answer.value.next

\* A pack that finds no room can be resumed: in a longer memory, from the
\* position and with the arguments it returned, it completes what it would
\* have written there at once. It fails only for want of room, or because the
\* memory is NULL. A string whose length was written, or whose content was and
\* its zero was not, cannot be resumed.
PackResumes ==
    Did("pack") /\ answer.value # Fault /\ ~answer.value.ok =>
        LET fmt == answer.args[1]
            args == answer.args[3]
            start == First(answer.args[2], Len(bytes)) - 1
            more == Zeros(4 * MaxLen)
            whole == Packed(answer.before \o more, FALSE, Header, fmt, start, args)
            before(d) == Packed(answer.before \o more, FALSE, Header,
                                SubSeq(fmt, 1, d), start, args)
            after(d) == Packed(bytes \o more, FALSE, before(d).h,
                               SubSeq(fmt, d + 1, Len(fmt)),
                               answer.value.next - 1, answer.value.rest)
        IN  whole.end = "running" =>
            /\ NullPointer \/ whole.i > Len(bytes)
            /\ \E d \in 0 .. Len(fmt) - 1 :
                 /\ args = SubSeq(args, 1, before(d).used) \o answer.value.rest
                 /\ \/ after(d).end = "running" /\ after(d).mem = whole.mem
                    \/ /\ fmt[d + 1].k \in {"string", "zstr"}
                       /\ answer.value.next > before(d).i + 1
=============================================================================
