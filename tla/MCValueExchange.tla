--------------------------- MODULE MCValueExchange ---------------------------
(***************************************************************************)
(* Values for ValueExchange: scalars at the boundaries of the widths, and  *)
(* containers that hold what some language cannot.                         *)
(***************************************************************************)
EXTENDS ValueExchange

\* int is -4..3, int64_t -16..15, uint64_t 0..31, doubles exact up to 16.
Texts == {<<>>, <<97>>, <<97, 0, 97>>, <<0>>}

Scalars ==
    {Null, Bool(TRUE), Bool(FALSE)}
    \cup {Signed(n) : n \in -16 .. 15} \cup {Unsigned(n) : n \in 0 .. 31}
    \cup {Float(h) : h \in {-1, 0, 1, 8}}
    \cup {Str(s) : s \in Texts}
    \cup {Bin(s, b) : s \in {<<>>, <<1, 2>>, <<2, 0>>}, b \in {NoSubtype, 1, ViewCode, ViewCode + 2^IntBits}}

Small == {Null, Unsigned(1), Unsigned(17), Str(<<97, 0, 97>>), Bin(<<2, 0>>, NoSubtype),
          Bin(<<2>>, ViewCode)}

Arrays(S, n) == {Arr(e) : e \in UNION {[1 .. k -> S] : k \in 0 .. n}}
Objects(S) == {Obj(m) : m \in UNION {[K -> S] : K \in SUBSET Texts}}

Shallow == Arrays(Small, 3) \cup Objects({Null, Unsigned(1), Str(<<97>>)})

Inner == {Obj(EmptyMap), Arr(<<>>), Arr(<<Null>>), Arr(<<Unsigned(1), Null>>), Obj(<<97>> :> Null),
          Obj(<<97>> :> Unsigned(9)), Bin(<<2>>, ViewCode)}

MCValues == Scalars \cup Shallow \cup Arrays(Inner, 2) \cup Objects(Inner)
=============================================================================
