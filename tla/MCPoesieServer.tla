--------------------------- MODULE MCPoesieServer ---------------------------
(***************************************************************************)
(* Instances of PoesieServer for TLC.                                      *)
(***************************************************************************)
EXTENDS PoesieServer, TLC

CONSTANTS p1, p2, b1, b2, b3

Symmetry == Permutations(Requests)

\* No script sends requests of its own.
NoNesting == [r \in Requests |-> Client]

\* The script of request 1 sends request 2.
OneSendsTwo == [r \in Requests |-> IF r = 2 THEN 1 ELSE Client]

\* One provider of each kind, and a second Python one.
BackendsOf6 == "lua" :> "lua" @@ "jx9" :> "jx9" @@ "javascript" :> "javascript"
               @@ "ruby" :> "ruby" @@ "python" :> "python" @@ "python2" :> "python"
AllProviders == DOMAIN BackendsOf6

\* The vm types of two providers.
JavascriptAndNone == p1 :> "javascript" @@ p2 :> "none"
Jx9AndNone == p1 :> "jx9" @@ p2 :> "none"

C(p, op, b, i) == [provider |-> p, op |-> op, buffer |-> b, intent |-> i]

\* Which providers meet in one behaviour: two that share nothing but the
\* process, two that differ in where their clients live, two that share a mutex.
Families == {{"lua", "jx9"}, {"javascript", "ruby"}, {"python", "python2"}}

\* b1 and b2 belong to remote clients, b3 to the server's process.
AllCalls ==
    {C("lua", "execute", b1, "INOUT"), C("lua", "load", b1, "IN"),
     C("jx9", "execute", b2, "OUT"), C("jx9", "load", b2, "INOUT"),
     C("jx9", "call", NoBuffer, "IN"),
     C("javascript", "execute", b3, "INOUT"), C("javascript", "call", b3, "INOUT"),
     C("javascript", "load", b2, "IN"),
     C("ruby", "execute", b2, "INOUT"),
     C("python", "execute", b1, "INOUT"), C("python", "load", b1, "INOUT"),
     C("python", "call", b2, "OUT"), C("python2", "execute", b2, "IN")}

Chosen == {Vm(r) : r \in Requests}

\* Clients that do not lend to a Python call a buffer that another request
\* carries at the same time: such a view is pushed back after the unlock.
PrivateCallViews ==
    \A r, s \in Requests :
        /\ r # s /\ HasView(r) /\ call[r].op = "call"
        /\ BackendOf[Vm(r)] = "python"
        => call[s].buffer # call[r].buffer

\* The providers of the other families failed to start.
FamilyInit(families) ==
    /\ Idle
    /\ PrivateCallViews
    /\ \E F \in families :
        /\ Chosen \subseteq F
        /\ stage = [p \in Providers |-> IF p \in F THEN "absent" ELSE "failed"]

FamilySpec == FamilyInit(Families) /\ [][Next]_vars

\* Two that hold their mutex with a unique_lock, and a pair with Python, whose
\* scripts are not lent views: an exception there would leave s_mtx locked.
LiveFamilies == {{"lua", "jx9"}, {"lua", "python"}}

LiveSpec == FamilyInit(LiveFamilies) /\ [][Next]_vars /\ Fairness

LiveCalls ==
    {C("lua", "execute", b1, "INOUT"), C("lua", "call", NoBuffer, "IN"),
     C("jx9", "execute", b2, "OUT"), C("python", "load", NoBuffer, "IN")}

\* What tests/JavascriptVmTest.cpp does, from another process.
RemoteViewCalls == {C(p1, "call", b1, "INOUT")}

Jx9Calls == {C(p1, "execute", NoBuffer, "IN"), C(p1, "call", NoBuffer, "IN"),
             C(p2, "execute", NoBuffer, "IN")}
=============================================================================
