---------------------------- MODULE ValueExchange ----------------------------
(***************************************************************************)
(* A JSON value on its way from a client to a script and back: archived by *)
(* saveJSON, restored by loadJSON, converted by the backend of the VM into *)
(* a value of its language, and returned by the script unchanged.  Text is *)
(* a sequence of character codes; integer widths are scaled down.          *)
(***************************************************************************)
EXTENDS Integers, Sequences, FiniteSets, SequencesExt

CONSTANTS
    Values,        \* the JSON values clients send
    IntBits,       \* width of a C++ int
    WordBits,      \* width of a 64-bit integer
    DoubleBits,    \* integers of up to so many bits are exact doubles
    ByteMax,       \* 255
    ViewCode       \* MEMORY_VIEW_SUBTYPE_CODE

ASSUME WidthAssumption ==
    /\ {IntBits, WordBits, DoubleBits, ByteMax, ViewCode} \subseteq Nat \ {0}
    /\ IntBits < DoubleBits /\ WordBits = DoubleBits + 1

VARIABLES
    stage,  \* where the value is
    lang,   \* the type of the VM
    sent,   \* what the client sent
    wire,   \* the archive in transit
    args,   \* what the handler has restored
    held,   \* the value in the language
    got     \* what the client received
vars == <<stage, lang, sent, wire, args, held, got>>

Languages == {"lua", "javascript", "jx9", "python", "ruby"}

\* JSON values, by nlohmann's value_t.  A float is given by its double, so
\* that halves are integers; sub is the subtype of a binary.
Null == [t |-> "null"]
Bool(b) == [t |-> "bool", b |-> b]
Signed(n) == [t |-> "int", n |-> n]
Unsigned(n) == [t |-> "uint", n |-> n]
Float(h) == [t |-> "float", h |-> h]
Str(s) == [t |-> "str", s |-> s]
Arr(e) == [t |-> "arr", e |-> e]
Obj(m) == [t |-> "obj", m |-> m]
Bin(s, sub) == [t |-> "bin", s |-> s, sub |-> sub]

\* A binary may have no subtype: subtype() then returns the greatest number.
NoSubtype == -1
Greatest == 2^WordBits - 1
Absent == [t |-> "absent"]
Thrown == [t |-> "thrown"]      \* an exception leaves the backend
Aborted == [t |-> "aborted"]    \* the process is gone

IsInteger(v) == v.t \in {"int", "uint"}
IsNumber(v) == IsInteger(v) \/ v.t = "float"
Halves(v) == IF v.t = "float" THEN v.h ELSE 2 * v.n

\* Names: the order of std::map, which nlohmann's objects follow.
Before(x, y) ==
    \/ IsStrictPrefix(x, y)
    \/ \E i \in DOMAIN x \cap DOMAIN y :
        x[i] < y[i] /\ \A j \in 1 .. i - 1 : x[j] = y[j]
InOrder(m) == SetToSortSeq(DOMAIN m, Before)
-----------------------------------------------------------------------------
(* The archive: a sequence of items.  loadJSON returns the value and what   *)
(* is left of the archive.                                                 *)

Item(x) == [x |-> x]

\* Mutant: the two cases of integers fall together.
TagSigned(v) == <<Item(IF v.t = "uint" THEN "int" ELSE v.t)>>

Tag(v) == <<Item(v.t)>>

\* subtype(), which is archived whether there is one or not.
SubtypeOf(v) == IF v.sub = NoSubtype THEN Greatest ELSE v.sub

RECURSIVE Save(_)
\* saveJSON
Save(v) ==
    Tag(v) \o
    CASE v.t = "null" -> <<>>
      [] IsInteger(v) -> <<Item(v.n)>>
      [] v.t = "float" -> <<Item(v.h)>>
      [] v.t = "str" -> <<Item(v.s)>>
      [] v.t = "bool" -> <<Item(v.b)>>
      [] v.t = "arr" ->
            <<Item(Len(v.e))>> \o FlattenSeq([i \in DOMAIN v.e |-> Save(v.e[i])])
      [] v.t = "obj" ->
            LET keys == InOrder(v.m) IN
            <<Item(Len(keys))>> \o
            FlattenSeq([i \in DOMAIN keys |-> <<Item(keys[i])>> \o Save(v.m[keys[i]])])
      [] v.t = "bin" -> <<Item(Len(v.s)), Item(SubtypeOf(v))>> \o [i \in DOMAIN v.s |-> Item(v.s[i])]

Contents(items) == [i \in DOMAIN items |-> items[i].x]

\* val.emplace(key, value): a key that exists keeps its value.
Emplace(m, k, v) == IF k \in DOMAIN m THEN m ELSE [x \in DOMAIN m \cup {k} |->
                                                    IF x = k THEN v ELSE m[x]]
EmptyMap == [k \in {} |-> Null]

RECURSIVE Load(_), LoadElements(_, _, _), LoadMembers(_, _, _)
\* loadJSON into a fresh value; a binary gets the archived subtype.
Load(ar) ==
    LET tag == ar[1].x rest == SubSeq(ar, 3, Len(ar)) IN
    CASE tag = "null" -> <<Null, Tail(ar)>>
      [] tag = "int" -> <<Signed(ar[2].x), rest>>
      [] tag = "uint" -> <<Unsigned(ar[2].x), rest>>
      [] tag = "float" -> <<Float(ar[2].x), rest>>
      [] tag = "str" -> <<Str(ar[2].x), rest>>
      [] tag = "bool" -> <<Bool(ar[2].x), rest>>
      [] tag = "arr" -> LoadElements(ar[2].x, rest, <<>>)
      [] tag = "obj" -> LoadMembers(ar[2].x, rest, EmptyMap)
      [] tag = "bin" ->
            LET n == ar[2].x IN
            <<Bin(Contents(SubSeq(ar, 4, n + 3)), ar[3].x), SubSeq(ar, n + 4, Len(ar))>>
LoadElements(n, ar, e) ==
    IF n = 0 THEN <<Arr(e), ar>>
    ELSE LET r == Load(ar) IN LoadElements(n - 1, r[2], Append(e, r[1]))
LoadMembers(n, ar, m) ==
    IF n = 0 THEN <<Obj(m), ar>>
    ELSE LET r == Load(Tail(ar)) IN LoadMembers(n - 1, r[2], Emplace(m, ar[1].x, r[1]))

\* The args of an RPC, a vector<json>.
SaveArgs(a) == <<Item(Len(a))>> \o FlattenSeq([i \in DOMAIN a |-> Save(a[i])])
LoadArgs(ar) == LoadElements(ar[1].x, Tail(ar), <<>>)
-----------------------------------------------------------------------------
(* The leaves of the conversions *)

\* Mutant: get<unsigned>.
NarrowUnsigned(n) == n % 2^IntBits

\* get<int>() of a wider integer.
Narrow(n) == ((n + 2^(IntBits - 1)) % 2^IntBits) - 2^(IntBits - 1)

\* get<double>(): the nearest double, ties to even, in halves, for words that
\* have one bit too many.
ToDouble(n) ==
    IF n \in -(2^DoubleBits) .. 2^DoubleBits \/ n % 2 = 0 THEN 2 * n
    ELSE IF (n - 1) % 4 = 0 THEN 2 * (n - 1) ELSE 2 * (n + 1)

\* c_str(): everything up to the first NUL.
CStr(s) ==
    IF \E i \in DOMAIN s : s[i] = 0
    THEN SubSeq(s, 1, (CHOOSE i \in DOMAIN s : s[i] = 0 /\ \A j \in 1 .. i - 1 : s[j] # 0) - 1)
    ELSE s

CutsText(l) == l \in {"javascript", "jx9", "ruby"}
Text(l, s) == IF CutsText(l) THEN CStr(s) ELSE s

\* base64, as far as it matters: another text.
Base64(s) == <<64>> \o s

\* std::to_string of an index, as Lua spells it.
Decimal(i) == <<48 + i>>

\* Mutant: the last byte value is refused.
ByteBelowMax(b) == b.t = "uint" /\ b.n < ByteMax

IsByte(b) == b.t = "uint" /\ b.n <= ByteMax

Subtype == <<115>>
Bytes == <<98>>

\* MemoryView::IsMemoryView
IsMemoryView(j) ==
    \/ j.t = "bin" /\ j.sub = ViewCode
    \/ /\ j.t = "obj" /\ {Bytes, Subtype} \subseteq DOMAIN j.m
       /\ j.m[Subtype].t = "uint" /\ Narrow(j.m[Subtype].n) = ViewCode
       /\ j.m[Bytes].t = "arr"
       /\ \A i \in DOMAIN j.m[Bytes].e : IsByte(j.m[Bytes].e[i])

\* A binary after dump() and parse().
Dumped(v) ==
    Obj([k \in {Bytes, Subtype} |->
            CASE k = Bytes -> Arr([i \in DOMAIN v.s |-> Unsigned(v.s[i])])
              [] k = Subtype -> IF v.sub = NoSubtype THEN Null ELSE Unsigned(v.sub)])
-----------------------------------------------------------------------------
(* JSON to a value of the language: numbers, texts and containers as in    *)
(* JSON; a Lua table has positions and names; what Jx9 does not mark as an *)
(* object is an array.                                                     *)

NumberInto(l, v) ==
    CASE l = "javascript" /\ IsInteger(v) -> Float(ToDouble(v.n))
      [] l \in {"lua", "jx9", "ruby"} /\ IsInteger(v) -> Signed(Narrow(v.n))
      [] OTHER -> v

BinaryInto(l, v) ==
    CASE IsMemoryView(v) -> [t |-> "view"]
      [] ~IsMemoryView(v) /\ l \in {"javascript", "python"} -> [t |-> "bytes", s |-> v.s]
      [] OTHER -> Str(v.s)

\* The members of m that remain: of names that become equal the last one
\* wins, and Lua has no nil in its tables.
Remaining(l, m) ==
    SelectSeq(InOrder(m),
              LAMBDA k : /\ l = "lua" => m[k] # Null
                         /\ \A j \in DOMAIN m :
                             Before(k, j) /\ Text(l, k) # <<>> => Text(l, j) # Text(l, k))

\* jx9_array_add_strkey_elem gives a member without a name an index, and a
\* map is an object if the first member has a name.
BecomesArray(l, m) ==
    l = "jx9" /\ (m = EmptyMap \/ \E k \in DOMAIN m : Text(l, k) = <<>>)

Table(positions, names) == [t |-> "table", positions |-> positions, names |-> names]

RECURSIVE Into(_, _)
\* What the five functions below share.
Into(l, v) ==
    CASE IsNumber(v) -> NumberInto(l, v)
      [] v.t = "str" -> Str(Text(l, v.s))
      [] v.t = "bin" -> BinaryInto(l, v)
      [] v.t = "arr" ->
            IF l = "lua"
            THEN Table([i \in {j \in DOMAIN v.e : v.e[j] # Null} |-> Into(l, v.e[i])], EmptyMap)
            ELSE Arr([i \in DOMAIN v.e |-> Into(l, v.e[i])])
      [] v.t = "obj" ->
            LET keys == Remaining(l, v.m)
                names == [x \in {Text(l, keys[i]) : i \in DOMAIN keys} |->
                            Into(l, v.m[CHOOSE k \in ToSet(keys) : Text(l, k) = x])]
            IN IF BecomesArray(l, v.m) THEN Arr([i \in DOMAIN keys |-> Into(l, v.m[keys[i]])])
               ELSE IF l = "lua" THEN Table(<<>>, names)
               ELSE Obj(names)
      [] OTHER -> v

JSONToLuaObject(v) == Into("lua", v)
JSONtoDukValue(v) == Into("javascript", v)
JSONtoJx9Value(v) == Into("jx9", v)
from_json(v) == Into("python", v)
json_to_mrb_value(v) == Into("ruby", v)

ToScript(l, v) ==
    CASE l = "lua" -> JSONToLuaObject(v)
      [] l = "javascript" -> JSONtoDukValue(v)
      [] l = "jx9" -> JSONtoJx9Value(v)
      [] l = "python" -> from_json(v)
      [] l = "ruby" -> json_to_mrb_value(v)
-----------------------------------------------------------------------------
(* A value of the language to JSON.                                        *)

NumberBack(l, v) ==
    CASE l = "lua" -> Float(Halves(v))
      [] l = "python" /\ IsInteger(v) ->
            IF v.n < 2^(WordBits - 1) THEN Signed(v.n) ELSE Unsigned(v.n)
      [] OTHER -> v

\* mrb_str_to_cstr raises, and outside of a Ruby frame that aborts.
TextBack(l, s) ==
    IF l = "ruby" /\ CStr(s) # s THEN Aborted ELSE Str(Text(l, s))

\* Mutant: the encoding is applied to text as well.
PythonTextEncoded(v) == Str(Base64(v.s))

PythonText(v) == IF v.t = "bytes" THEN Str(Base64(v.s)) ELSE Str(v.s)

\* What a script gets to return of a view: nothing that leads to its bytes.
ViewBack(l) ==
    CASE l = "lua" -> Str(<<117>>)                  \* "<userdata>"
      [] l \in {"javascript", "ruby"} -> Null
      [] l = "jx9" -> Bin(<<1>>, NoSubtype)         \* the address of the view
      [] l = "python" -> Thrown                     \* "to_json not implemented"

RECURSIVE Back(_, _)
\* What the five functions below share.
Back(l, v) ==
    CASE IsNumber(v) -> NumberBack(l, v)
      [] v.t \in {"str", "bytes"} /\ l = "python" -> PythonText(v)
      [] v.t = "str" /\ l # "python" -> TextBack(l, v.s)
      [] v.t = "bytes" /\ l # "python" -> Null
      [] v.t = "view" -> ViewBack(l)
      [] v.t = "arr" -> Arr([i \in DOMAIN v.e |-> Back(l, v.e[i])])
      [] v.t = "obj" -> Obj([k \in DOMAIN v.m |-> Back(l, v.m[k])])
      [] v.t = "table" ->
            IF v.names = EmptyMap /\ DOMAIN v.positions = 1 .. Cardinality(DOMAIN v.positions)
            THEN Arr([i \in DOMAIN v.positions |-> Back(l, v.positions[i])])
            ELSE Obj([k \in DOMAIN v.names \cup {Decimal(i) : i \in DOMAIN v.positions} |->
                        IF k \in DOMAIN v.names THEN Back(l, v.names[k])
                        ELSE Back(l, v.positions[CHOOSE i \in DOMAIN v.positions : Decimal(i) = k])])
      [] OTHER -> v

LuaObjectToJSON(v) == Back("lua", v)
dukValueToJSON(v) == Back("javascript", v)
Jx9ValueToJSON(v) == Back("jx9", v)
to_json(v) == Back("python", v)
mrb_value_to_json(v) == Back("ruby", v)

ToJson(l, v) ==
    CASE l = "lua" -> LuaObjectToJSON(v)
      [] l = "javascript" -> dukValueToJSON(v)
      [] l = "jx9" -> Jx9ValueToJSON(v)
      [] l = "python" -> to_json(v)
      [] l = "ruby" -> mrb_value_to_json(v)

RECURSIVE Nodes(_)
\* The values a value is made of.
Nodes(v) ==
    {v} \cup CASE v.t = "arr" -> UNION {Nodes(v.e[i]) : i \in DOMAIN v.e}
               [] v.t = "obj" -> UNION {Nodes(v.m[k]) : k \in DOMAIN v.m}
               [] OTHER -> {}

Returned(l, v) ==
    LET j == ToJson(l, v) IN
    IF Aborted \in Nodes(j) THEN Aborted ELSE IF Thrown \in Nodes(j) THEN Thrown ELSE j
-----------------------------------------------------------------------------
Init ==
    /\ stage = "client"
    /\ lang \in Languages /\ sent \in Values
    /\ wire = <<>> /\ args = <<>> /\ held = Absent /\ got = Absent

\* VmHandle::call: the value, and another argument after it.
Send ==
    /\ stage = "client" /\ stage' = "request"
    /\ wire' = SaveArgs(<<sent, Signed(1)>>)
    /\ UNCHANGED <<lang, sent, args, held, got>>

\* The arguments of the RPC handler.
Restore ==
    /\ stage = "request" /\ stage' = "handler"
    /\ args' = LoadArgs(wire)
    /\ UNCHANGED <<lang, sent, wire, held, got>>

\* The backend converts them.
Convert ==
    /\ stage = "handler" /\ stage' = "script"
    /\ held' = ToScript(lang, args[1].e[1])
    /\ UNCHANGED <<lang, sent, wire, args, got>>

\* The script returns its argument, and the handler responds.
Return ==
    /\ stage = "script"
    /\ LET j == Returned(lang, held) IN
        IF j \in {Thrown, Aborted} THEN stage' = "failed" /\ UNCHANGED wire
        ELSE stage' = "response" /\ wire' = Save(j)
    /\ UNCHANGED <<lang, sent, args, held, got>>

\* Future::wait
Deliver ==
    /\ stage = "response" /\ stage' = "done"
    /\ got' = Load(wire)[1]
    /\ UNCHANGED <<lang, sent, wire, args, held>>

Next == Send \/ Restore \/ Convert \/ Return \/ Deliver

Spec == Init /\ [][Next]_vars
-----------------------------------------------------------------------------
(* Properties *)

RECURSIVE Same(_, _)
\* nlohmann's ==, but exact on numbers.
Same(v, w) ==
    \/ IsNumber(v) /\ IsNumber(w) /\ Halves(v) = Halves(w)
    \/ /\ v.t = "arr" /\ w.t = "arr" /\ DOMAIN v.e = DOMAIN w.e
       /\ \A i \in DOMAIN v.e : Same(v.e[i], w.e[i])
    \/ /\ v.t = "obj" /\ w.t = "obj" /\ DOMAIN v.m = DOMAIN w.m
       /\ \A k \in DOMAIN v.m : Same(v.m[k], w.m[k])
    \/ v = w

RECURSIVE SubtypesGiven(_)
\* v, with the greatest number for the subtype of every binary that has none.
SubtypesGiven(v) ==
    CASE v.t = "bin" /\ v.sub = NoSubtype -> Bin(v.s, Greatest)
      [] v.t = "arr" -> Arr([i \in DOMAIN v.e |-> SubtypesGiven(v.e[i])])
      [] v.t = "obj" -> Obj([k \in DOMAIN v.m |-> SubtypesGiven(v.m[k])])
      [] OTHER -> v

\* loadJSON reads exactly what saveJSON wrote, however deep the value, and is
\* at the right place for the next argument; only a binary without subtype
\* arrives as another value, with the greatest subtype, at every depth
\* (JsonSerialize.hpp:132, 217).
ArchiveFaithful ==
    args # <<>> => args = <<Arr(<<SubtypesGiven(sent), Signed(1)>>), <<>>>>

FitsInt(n) == n \in -(2^(IntBits - 1)) .. 2^(IntBits - 1) - 1
FitsDouble(n) == n \in -(2^DoubleBits) .. 2^DoubleBits \/ n % 2 = 0
HasNul(s) == \E i \in DOMAIN s : s[i] = 0

\* What a language can hold and give back.
Keeps(l, v) ==
    CASE IsInteger(v) -> /\ l \in {"lua", "jx9", "ruby"} => FitsInt(v.n)
                         /\ l = "javascript" => FitsDouble(v.n)
      [] v.t = "str" -> CutsText(l) => ~HasNul(v.s)
      [] v.t = "bin" -> FALSE
      [] v.t = "arr" -> l = "lua" => \A i \in DOMAIN v.e : v.e[i] # Null
      [] v.t = "obj" -> /\ CutsText(l) => \A k \in DOMAIN v.m : ~HasNul(k)
                        /\ l = "lua" => \A k \in DOMAIN v.m : v.m[k] # Null
                        /\ l = "jx9" => <<>> \notin DOMAIN v.m
                        /\ l \in {"lua", "jx9"} => v.m # EmptyMap
      [] OTHER -> TRUE

\* A script that returns its argument returns the same JSON value exactly if
\* the language keeps every part of it: integers wider than an int, text with
\* NULs, nulls in tables and empty objects are what gets lost (the
\* conversions of the five backends, both ways).
EchoExact ==
    stage \in {"done", "failed"} =>
        (stage = "done" /\ Same(got, sent) <=> \A x \in Nodes(sent) : Keeps(lang, x))

\* What came back once comes back unchanged from then on: values do not keep
\* degrading as they travel between client and script.
EchoSettles ==
    stage = "done" /\ (\A x \in Nodes(sent) : x.t = "bin" => ~IsMemoryView(x)) =>
        Same(Returned(lang, ToScript(lang, got)), got)

\* A binary is a MemoryView after a dump() and a parse() if and only if it
\* was one before (IsMemoryView accepts both forms), if an int can hold its
\* subtype: that of the second form is narrowed before it is compared.
DumpKeepsViews ==
    \A x \in Nodes(sent) :
        x.t = "bin" /\ FitsInt(x.sub) => (IsMemoryView(Dumped(x)) <=> IsMemoryView(x))
=============================================================================
