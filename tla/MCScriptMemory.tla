--------------------------- MODULE MCScriptMemory ---------------------------
(***************************************************************************)
(* An instance of ScriptMemory for TLC.                                    *)
(***************************************************************************)
EXTENDS ScriptMemory

MCPositions == {-5, -2, -1, 0, 1, 3}

MCTexts == {<<>>, <<0>>, <<1>>, <<0, 1>>, <<1, 1>>, <<1, 0, 1>>}

O(k, n) == [k |-> k, n |-> n]

MCFormats ==
    {<<O("int", 1)>>, <<O("uint", 1), O("int", 1)>>,
     <<O("int", 2), O("uint", 1)>>, <<O("big", 0), O("int", 3)>>,
     <<O("uint", 3)>>, <<O("big", 0), O("uint", 2), O("little", 0), O("int", 2)>>,
     <<O("char", 1), O("zstr", 0)>>, <<O("string", 1), O("int", 1)>>,
     <<O("string", 2)>>, <<O("zstr", 0), O("uint", 1)>>,
     <<O("maxalign", 2), O("pad", 1), O("int", 2)>>,
     <<O("maxalign", 2), O("uint", 1), O("align", 2), O("char", 1)>>,
     <<O("maxalign", 3), O("int", 3)>>, <<O("pad", 1), O("uint", 1)>>,
     <<O("big", 0), O("char", 0)>>}
=============================================================================
