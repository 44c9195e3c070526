--------------------------- MODULE VmSessionProofs ---------------------------
(***************************************************************************)
(* Theorems about VmSession, for every set of names and every bound on     *)
(* arguments, installs, views and entries of the value stack.              *)
(***************************************************************************)
EXTENDS VmSession, TLAPS

(* Meanings differ by their kind, and by the function or the view. *)
LEMMA Kinds ==
    /\ Undefined.k = "undefined" /\ Own.k = "own" /\ Removed.k = "removed"
    /\ \A h : Foreign(h).k = "foreign" /\ Foreign(h).h = h
    /\ \A v : Keeper(v).k = "keeper" /\ Keeper(v).v = v
  BY DEF Undefined, Own, Removed, Foreign, Keeper

(* The bounds are natural numbers. *)
LEMMA Bounds ==
    /\ MaxArgs \in Nat /\ StackReserve \in Nat /\ StackRenewal \in Nat
    /\ MaxInstalls \in Nat /\ MaxViews \in Nat /\ MaxDepth \in Nat
    /\ StackRenewal <= StackReserve
  BY SessionAssumption

(* One more install keeps the earlier ones where they are. *)
LEMMA Appended ==
    ASSUME NEW S, NEW s \in Seq(S), NEW x \in S
    PROVE  /\ Append(s, x) \in Seq(S)
           /\ DOMAIN s = 1 .. Len(s) /\ Len(s) \in Nat
           /\ DOMAIN Append(s, x) = 1 .. Len(s) + 1
           /\ \A k \in DOMAIN s : k \in DOMAIN Append(s, x) /\ Append(s, x)[k] = s[k]
           /\ Append(s, x)[Len(s) + 1] = x
  OBVIOUS
-----------------------------------------------------------------------------
(* What names mean *)

(* The parts of the invariant about names. *)
NamesInv ==
    /\ installs \in Seq([name : Names, nargs : 0..MaxArgs])
    /\ freed \subseteq DOMAIN installs
    /\ globals \in [Names -> Meanings]
    /\ m_ffuncs \in [Names -> {0} \cup (DOMAIN installs \ freed)]
    /\ \A n \in Names : m_ffuncs[n] # 0 => installs[m_ffuncs[n]].name = n
    /\ FirstHolds /\ LastBound /\ Jx9Forgets

(* Installing a function under n. *)
LEMMA InstallNames ==
    ASSUME NamesInv, NEW n \in Names, NEW k \in 0..MaxArgs, Install(n, k)
    PROVE  NamesInv'
  <1> DEFINE h == Len(installs) + 1
  <1>0. /\ FirstHolds /\ LastBound /\ Jx9Forgets
        /\ freed \subseteq DOMAIN installs
        /\ globals \in [Names -> Meanings]
        /\ m_ffuncs \in [Names -> {0} \cup (DOMAIN installs \ freed)]
        /\ \A m \in Names : m_ffuncs[m] # 0 => installs[m_ffuncs[m]].name = m
    BY DEF NamesInv
  <1>1. /\ installs' = Append(installs, [name |-> n, nargs |-> k])
        /\ m_ffuncs' = IF OwnsHolders THEN InsertHolder(n, h) ELSE m_ffuncs
        /\ freed' = freed \cup (IF OwnsHolders /\ m_ffuncs[n] # 0 THEN {h} ELSE Replaced(n))
        /\ globals' = IF lang = "jx9" \/ HidesInstalls(n) THEN globals
                      ELSE [globals EXCEPT ![n] = Foreign(h)]
        /\ UNCHANGED <<lang, views>>
    BY DEF Install, Bind, viewVars
  <1>a. [name |-> n, nargs |-> k] \in [name : Names, nargs : 0..MaxArgs]
    OBVIOUS
  <1>b. installs' \in Seq([name : Names, nargs : 0..MaxArgs])
    BY <1>1, <1>a, Appended DEF NamesInv
  <1>2. /\ DOMAIN installs = 1 .. h - 1 /\ h \in Nat \ {0}
        /\ DOMAIN installs' = 1 .. h
        /\ \A g \in 1 .. h - 1 : installs'[g] = installs[g]
        /\ installs'[h].name = n
    <2>1. DOMAIN installs = 1 .. h - 1 /\ h \in Nat \ {0}
      BY Appended DEF NamesInv
    <2> QED
      BY <1>1, <1>a, <2>1, Appended DEF NamesInv
  <1> HIDE DEF h
  <1>3. freed' \subseteq DOMAIN installs'
    BY <1>0, <1>1, <1>2 DEF Replaced, Dropped
  <1>4. \A m \in Names : globals'[m] = IF m = n /\ lang # "jx9" /\ ~HidesInstalls(n)
                                        THEN Foreign(h) ELSE globals[m]
    BY <1>0, <1>1
  <1>5. globals' \in [Names -> Meanings']
    BY <1>0, <1>1, <1>2 DEF Meanings
  <1>6. \A m \in Names : m_ffuncs'[m] =
              IF OwnsHolders /\ m = n /\ m_ffuncs[n] = 0 THEN h ELSE m_ffuncs[m]
    BY <1>0, <1>1 DEF InsertHolder
  <1>7. /\ m_ffuncs' \in [Names -> {0} \cup (DOMAIN installs' \ freed')]
        /\ \A m \in Names : m_ffuncs'[m] # 0 => installs'[m_ffuncs'[m]].name = m
    <2>1. CASE OwnsHolders
      <3>1. freed' = freed \cup (IF m_ffuncs[n] # 0 THEN {h} ELSE {})
        BY <1>1, <2>1 DEF Replaced, Dropped, OwnsHolders
      <3>2. m_ffuncs' \in [Names -> {0} \cup (DOMAIN installs' \ freed')]
        BY <1>0, <1>1, <1>2, <2>1, <3>1 DEF InsertHolder
      <3> QED
        BY <1>0, <1>2, <1>6, <3>2
    <2>2. CASE ~OwnsHolders
      <3>1. m_ffuncs' = m_ffuncs /\ \A m \in Names : m_ffuncs[m] = 0
        BY <1>0, <1>1, <2>2 DEF FirstHolds
      <3> QED
        BY <1>0, <3>1
    <2> QED
      BY <2>1, <2>2
  <1>8. FirstHolds'
    <2> SUFFICES ASSUME NEW m \in Names
                 PROVE  IF OwnsHolders /\ m_ffuncs'[m] # 0
                        THEN /\ installs'[m_ffuncs'[m]].name = m
                             /\ \A g \in DOMAIN installs' :
                                   installs'[g].name = m => m_ffuncs'[m] <= g
                        ELSE /\ m_ffuncs'[m] = 0
                             /\ OwnsHolders =>
                                   \A g \in DOMAIN installs' : installs'[g].name # m
      BY <1>0, <1>1 DEF FirstHolds, OwnsHolders
    <2>1. CASE OwnsHolders /\ m_ffuncs[m] # 0
      <3>1. m_ffuncs'[m] = m_ffuncs[m] /\ m_ffuncs[m] \in 1 .. h - 1
        BY <1>0, <1>2, <1>6, <2>1
      <3> QED
        BY <1>0, <1>2, <2>1, <3>1 DEF FirstHolds
    <2>2. CASE OwnsHolders /\ m_ffuncs[m] = 0 /\ m = n
      <3>1. m_ffuncs'[m] = h /\ \A g \in DOMAIN installs : installs'[g].name # m
        BY <1>0, <1>2, <1>6, <2>2 DEF FirstHolds
      <3> QED
        BY <1>0, <1>2, <2>2, <3>1
    <2>3. CASE OwnsHolders /\ m_ffuncs[m] = 0 /\ m # n
      <3>1. m_ffuncs'[m] = 0 /\ \A g \in DOMAIN installs : installs'[g].name # m
        BY <1>0, <1>2, <1>6, <2>3 DEF FirstHolds
      <3> QED
        BY <1>0, <1>2, <2>3, <3>1
    <2>4. CASE ~OwnsHolders
      BY <1>0, <1>6, <2>4 DEF FirstHolds
    <2> QED
      BY <2>1, <2>2, <2>3, <2>4
  <1>9. LastBound'
    <2> SUFFICES ASSUME NEW m \in Names, NEW f \in DOMAIN installs',
                        globals'[m] = Foreign(f)
                 PROVE  /\ installs'[f].name = m
                        /\ \A g \in DOMAIN installs' : installs'[g].name = m => g <= f
                        /\ f \in freed' <=>
                             lang = "javascript"
                               /\ \E g \in 1..f - 1 : installs'[g].name = m
      BY <1>0, <1>1 DEF LastBound
    <2>1. lang # "jx9"
      BY <1>0, <1>4, Kinds DEF Jx9Forgets
    <2>2. CASE m = n
      <3>1. f = h
        BY <1>0, <1>4, <2>1, <2>2, Kinds DEF HidesInstalls
      <3>2. f \in freed' <=> OwnsHolders /\ m_ffuncs[n] # 0
        BY <1>0, <1>1, <1>2, <3>1 DEF Replaced, Dropped
      <3>3. OwnsHolders <=> lang = "javascript"
        BY <2>1 DEF OwnsHolders
      <3>4. OwnsHolders => (m_ffuncs[n] # 0 <=> \E g \in DOMAIN installs : installs[g].name = n)
        BY <1>0 DEF FirstHolds
      <3> QED
        BY <1>0, <1>2, <2>2, <3>1, <3>2, <3>3, <3>4
    <2>3. CASE m # n
      <3>1. globals[m] = Foreign(f)
        BY <1>0, <1>4, <2>3
      <3>2. f \in DOMAIN installs
        BY <1>0, <3>1, Kinds DEF Meanings
      <3>3. f # h /\ f \notin Replaced(n)
        BY <1>0, <1>2, <2>3, <3>1, <3>2 DEF Replaced, Dropped, LastBound
      <3>4. f \in freed' <=> f \in freed
        BY <1>0, <1>1, <3>3
      <3>5. /\ installs[f].name = m
            /\ \A g \in DOMAIN installs : installs[g].name = m => g <= f
            /\ f \in freed <=>
                 lang = "javascript" /\ \E g \in 1..f - 1 : installs[g].name = m
        BY <1>0, <3>1, <3>2 DEF LastBound
      <3>6. f \in Nat /\ \A g \in 1..f - 1 : installs'[g] = installs[g]
        BY <1>0, <1>2, <3>2
      <3> QED
        BY <1>0, <1>2, <2>3, <3>2, <3>4, <3>5, <3>6
    <2> QED
      BY <2>2, <2>3
  <1>10. Jx9Forgets'
    BY <1>0, <1>1, <1>4 DEF Jx9Forgets
  <1> QED
    BY <1>b, <1>3, <1>4, <1>5, <1>6, <1>7, <1>8, <1>9, <1>10 DEF NamesInv

(* A script gives a name a meaning of its own, or takes its meaning away.   *)
(* The meaning may refer to a view that the same step makes.               *)
LEMMA RedefineNames ==
    ASSUME NamesInv, NEW n \in Names, NEW meaning, Redefine(n, meaning),
           UNCHANGED lang, \A h : meaning # Foreign(h),
           DOMAIN views \subseteq DOMAIN views',
           meaning \in {Own, Deleted} \cup {Keeper(v) : v \in DOMAIN views'}
    PROVE  NamesInv'
  <1>1. UNCHANGED <<m_ffuncs, installs, lang>>
    BY DEF Redefine
  <1>2. /\ globals' \in [Names -> Meanings']
        /\ \A m \in Names : \/ globals'[m] = globals[m]
                            \/ lang # "jx9" /\ globals'[m] = meaning
    <2>1. globals \in [Names -> Meanings'] /\ meaning \in Meanings'
      BY <1>1 DEF NamesInv, Meanings, Deleted
    <2>2. \/ globals' = globals
          \/ lang # "jx9" /\ globals' = [globals EXCEPT ![n] = meaning]
      BY DEF Redefine
    <2> QED
      BY <2>1, <2>2
  <1>3. freed \subseteq freed' /\ freed' \subseteq freed \cup Dropped(n)
    BY DEF Redefine
  <1>4. /\ installs \in Seq([name : Names, nargs : 0..MaxArgs])
        /\ freed' \subseteq DOMAIN installs
    BY <1>3 DEF NamesInv, Dropped
  <1>6. OwnsHolders => freed' = freed
    BY <1>3 DEF Dropped, OwnsHolders
  <1>7. m_ffuncs \in [Names -> {0} \cup (DOMAIN installs \ freed')]
    BY <1>6 DEF NamesInv, FirstHolds
  <1>8. FirstHolds'
    BY <1>1 DEF NamesInv, FirstHolds, OwnsHolders
  <1>9. LastBound'
    <2> SUFFICES ASSUME NEW m \in Names, NEW h \in DOMAIN installs,
                        globals'[m] = Foreign(h)
                 PROVE  /\ installs[h].name = m
                        /\ \A g \in DOMAIN installs : installs[g].name = m => g <= h
                        /\ h \in freed' <=>
                             lang = "javascript"
                               /\ \E g \in 1..h - 1 : installs[g].name = m
      BY <1>1 DEF LastBound
    <2>1. globals[m] = Foreign(h)
      BY <1>2
    <2>2. h \notin freed => h \notin freed'
      <3>1. CASE m = n /\ lang # "jx9"
        BY <3>1, <2>1 DEF Redefine, NamesInv
      <3>2. CASE m # n
        BY <1>3, <2>1, <3>2 DEF Dropped, NamesInv, LastBound
      <3>3. CASE lang = "jx9"
        BY <3>3 DEF Redefine
      <3> QED
        BY <3>1, <3>2, <3>3
    <2> QED
      BY <1>3, <2>1, <2>2 DEF NamesInv, LastBound
  <1>10. Jx9Forgets'
    BY <1>1, <1>2 DEF NamesInv, Jx9Forgets
  <1> QED
    BY <1>1, <1>2, <1>4, <1>7, <1>8, <1>9, <1>10 DEF NamesInv

(* Requests that install and define nothing. *)
LEMMA SameNames ==
    ASSUME NamesInv, UNCHANGED <<interpreterVars, lang>>,
           DOMAIN views \subseteq DOMAIN views'
    PROVE  NamesInv'
  <1>1. UNCHANGED <<globals, m_ffuncs, installs, freed, lang>>
    BY DEF interpreterVars
  <1> QED
    BY <1>1 DEF NamesInv, Meanings, FirstHolds, LastBound, Jx9Forgets, OwnsHolders

(* The constructor runs the preamble in an interpreter without names. *)
LEMMA CreateNames ==
    ASSUME NamesInv, Create
    PROVE  NamesInv'
  <1>1. UNCHANGED <<m_ffuncs, installs, freed, lang, views>>
    BY DEF Create, viewVars
  <1>2. /\ globals' \in [Names -> Meanings']
        /\ \A n \in Names : \/ globals'[n] = globals[n]
                            \/ lang # "jx9" /\ globals'[n] = Own
    <2>1. CASE RefusesConfig
      BY <1>1, <2>1 DEF Create, NamesInv, Meanings
    <2>2. CASE ~RefusesConfig
      BY <1>1, <2>2 DEF Create, PreambleRan, NamesInv, Meanings
    <2> QED
      BY <2>1, <2>2
  <1>3. FirstHolds' /\ Jx9Forgets'
    BY <1>1, <1>2 DEF NamesInv, FirstHolds, OwnsHolders, Jx9Forgets
  <1>4. \A n \in Names : \A h : globals'[n] = Foreign(h) => globals[n] = Foreign(h)
    BY <1>2, Kinds
  <1>5. LastBound'
    BY <1>1, <1>4 DEF NamesInv, LastBound
  <1> QED
    BY <1>1, <1>2, <1>3, <1>5 DEF NamesInv
-----------------------------------------------------------------------------
(* Views *)

(* The parts of the invariant about views. *)
ViewsInv ==
    /\ views \in Seq(Buffers)
    /\ lost \subseteq DOMAIN views
    /\ argument \in 0..Len(views)
    /\ OwnLost

(* A view that is made next to the others. *)
LEMMA MakeViewKeeps ==
    ASSUME ViewsInv, NEW b \in Buffers, MakeView(b)
    PROVE  /\ views' \in Seq(Buffers)
           /\ Len(views') = Len(views) + 1 /\ Len(views) \in Nat
           /\ DOMAIN views \subseteq DOMAIN views'
           /\ NewView \in DOMAIN views' /\ views'[NewView] = b
           /\ lost' \subseteq DOMAIN views'
           /\ OwnLost'
  <1>1. /\ views' = Append(views, b)
        /\ lost' = IF b = "own" THEN lost \cup {Len(views) + 1} ELSE lost
    BY DEF MakeView, NewView
  <1>2. /\ Len(views) \in Nat /\ DOMAIN views = 1 .. Len(views)
        /\ DOMAIN views' = 1 .. Len(views) + 1
        /\ Len(views') = Len(views) + 1
        /\ views' \in Seq(Buffers)
        /\ \A v \in 1 .. Len(views) : views'[v] = views[v]
        /\ views'[Len(views) + 1] = b
    BY <1>1, Appended DEF ViewsInv
  <1>3. lost \subseteq 1 .. Len(views) /\ \A v \in 1 .. Len(views) : v \in lost <=> views[v] = "own"
    BY <1>2 DEF ViewsInv, OwnLost
  <1>4. OwnLost'
    BY <1>1, <1>2, <1>3 DEF OwnLost
  <1> QED
    BY <1>1, <1>2, <1>3, <1>4 DEF NewView, ViewsInv

(* A request with a view, whose argument list it becomes or not. *)
LEMMA ViewMade ==
    ASSUME ViewsInv, NEW b \in Buffers, MakeView(b),
           argument' \in {0, argument, NewView}
    PROVE  ViewsInv' /\ DOMAIN views \subseteq DOMAIN views'
  BY MakeViewKeeps DEF ViewsInv, NewView

(* A request without one. *)
LEMMA NoViewMade ==
    ASSUME ViewsInv, UNCHANGED <<views, lost>>, argument' \in {0, argument}
    PROVE  ViewsInv' /\ DOMAIN views \subseteq DOMAIN views'
  <1>1. Len(views) \in Nat
    BY DEF ViewsInv
  <1> QED
    BY <1>1 DEF ViewsInv, OwnLost
-----------------------------------------------------------------------------
(* The value stack *)

(* The parts of the invariant about Duktape's value stack. *)
StackInv ==
    /\ depth \in Nat /\ reserve \in Nat /\ failures \in Nat
    /\ depth <= reserve
    /\ RoomLeft

(* Running a script renews the room. *)
LEMMA ScriptStack ==
    ASSUME StackInv, ScriptRan, UNCHANGED lang
    PROVE  StackInv'
  BY Bounds DEF StackInv, ScriptRan, RoomLeft

(* A lookup that fails leaves one entry, one that does not leaves none. *)
LEMMA LookupStack ==
    ASSUME StackInv, Fits(LookupNeeds), UNCHANGED lang,
           NEW found \in {"nothing", "target", "function"}, LookedUp(found)
    PROVE  StackInv'
  <1>1. Left(found) = IF found = "function" THEN 0 ELSE 1
    BY DEF Left
  <1>2. UNCHANGED reserve
    BY DEF LookedUp
  <1>3. /\ depth' = IF lang = "javascript" /\ found # "function" THEN depth + 1 ELSE depth
        /\ failures' = IF lang = "javascript" /\ found # "function"
                       THEN failures + 1 ELSE failures
    BY <1>1 DEF LookedUp, StackInv
  <1>4. lang = "javascript" => depth + 2 <= reserve
    BY DEF Fits, LookupNeeds
  <1> QED
    BY <1>2, <1>3, <1>4, Bounds DEF StackInv, RoomLeft
-----------------------------------------------------------------------------
(* Answers *)

(* The parts of the invariant about the last answer. *)
AnswersInv == RunsTheInstalled /\ DeadViews

(* The function that a name means for a request. *)
LEMMA MeaningForeign ==
    ASSUME NamesInv, NEW n \in Names, NEW h, Meaning(n).k = "foreign",
           Meaning(n).h = h
    PROVE  /\ h \in DOMAIN installs
           /\ installs[h].name = n
           /\ \A g \in DOMAIN installs : installs[g].name = n =>
                 IF lang = "jx9" THEN h <= g ELSE g <= h
           /\ h \in freed <=>
                 lang = "javascript" /\ \E g \in DOMAIN installs :
                                           installs[g].name = n /\ g < h
  <1>1. DOMAIN installs = 1 .. Len(installs) /\ Len(installs) \in Nat
    BY Appended DEF NamesInv
  <1>2. CASE lang = "jx9"
    <2>1. m_ffuncs[n] # 0 /\ h = m_ffuncs[n]
      BY <1>2, Kinds DEF Meaning
    <2>2. h \in DOMAIN installs \ freed /\ installs[h].name = n
      BY <2>1 DEF NamesInv
    <2>3. \A g \in DOMAIN installs : installs[g].name = n => h <= g
      BY <1>2, <2>1 DEF NamesInv, FirstHolds, OwnsHolders
    <2> QED
      BY <1>2, <2>2, <2>3
  <1>3. CASE lang # "jx9"
    <2>1. globals[n] = Foreign(h) /\ h \in DOMAIN installs
      BY <1>3, Kinds DEF Meaning, NamesInv, Meanings
    <2>2. /\ installs[h].name = n
          /\ \A g \in DOMAIN installs : installs[g].name = n => g <= h
          /\ h \in freed <=>
                lang = "javascript" /\ \E g \in 1..h - 1 : installs[g].name = n
      BY <2>1 DEF NamesInv, LastBound
    <2>3. h \in Nat /\ \A g : g \in 1..h - 1 <=> g \in DOMAIN installs /\ g < h
      BY <1>1, <2>1
    <2> QED
      BY <1>3, <2>1, <2>2, <2>3
  <1> QED
    BY <1>2, <1>3

(* Nothing else has a function or a view. *)
LEMMA MeaningKinds ==
    ASSUME NamesInv, NEW n \in Names
    PROVE  /\ Meaning(n).k \in {"undefined", "own", "foreign", "keeper"}
           /\ Meaning(n).k = "own" <=> Meaning(n) = Own
           /\ Meaning(n).k = "keeper" =>
                 lang # "jx9" /\ Meaning(n).v \in DOMAIN views
  <1>1. globals[n] \in Meanings
    BY DEF NamesInv
  <1>2. CASE lang = "jx9"
    BY <1>2, Kinds DEF Meaning
  <1>3. CASE lang # "jx9"
    BY <1>1, <1>3, Kinds DEF Meaning, Meanings
  <1> QED
    BY <1>2, <1>3

(* An answer that says nothing of functions and views. *)
LEMMA PlainAnswer ==
    ASSUME answer' \in {Success, Failure}
    PROVE  AnswersInv'
  BY DEF AnswersInv, RunsTheInstalled, DeadViews, Success, Failure

(* An answer about a view. *)
LEMMA ViewAnswer ==
    ASSUME NEW v, NEW gone, NEW from, answer' = Use(v, gone, from),
           gone <=> /\ views'[v] = "own" /\ lang' # "jx9"
                    /\ lang' = "javascript" \/ from # "arguments"
    PROVE  AnswersInv'
  BY DEF AnswersInv, RunsTheInstalled, DeadViews, Use

(* The answer stays, and so does what it says. *)
LEMMA SameAnswer ==
    ASSUME AnswersInv, UNCHANGED <<answer, lang, installs, views>>
    PROVE  AnswersInv'
  BY DEF AnswersInv, RunsTheInstalled, DeadViews, SameName

(* An answer of a request that runs the function n. *)
LEMMA RunAnswer ==
    ASSUME NamesInv, ViewsInv, NEW n \in Names, NEW k \in 0..MaxArgs,
           answer' = Run(n, k), UNCHANGED <<lang, installs, views>>
    PROVE  AnswersInv'
  <1> DEFINE m == Meaning(n)
  <1>1. m.k \in {"undefined", "own", "foreign", "keeper"} /\ (m.k = "own" <=> m = Own)
    BY MeaningKinds
  <1> HIDE DEF m
  <1>2. CASE m.k = "keeper"
    <2>1. answer' = Use(m.v, m.v \in lost, "name")
      BY <1>1, <1>2, Kinds DEF Run, m
    <2>2. lang # "jx9" /\ m.v \in DOMAIN views
      BY <1>2, MeaningKinds DEF m
    <2>3. m.v \in lost <=> views[m.v] = "own"
      BY <2>2 DEF ViewsInv, OwnLost
    <2> QED
      BY <2>1, <2>2, <2>3, ViewAnswer
  <1>3. CASE m.k = "foreign" /\ m.h \notin freed /\ AcceptsArgs(m.h, k)
    <2> DEFINE h == m.h
    <2>1. answer' = [what |-> "ran", h |-> h]
      BY <1>1, <1>3, Kinds DEF Run, m
    <2>2. /\ installs[h].name = n
          /\ \A g \in DOMAIN installs : installs[g].name = n =>
                IF lang = "jx9" THEN h <= g ELSE g <= h
      BY <1>3, MeaningForeign DEF m
    <2> HIDE DEF h
    <2> QED
      BY <2>1, <2>2 DEF AnswersInv, RunsTheInstalled, DeadViews, SameName
  <1>4. CASE m.k = "foreign" /\ m.h \in freed
    <2>1. answer' = [what |-> "freed", h |-> m.h]
      BY <1>1, <1>4, Kinds DEF Run, m
    <2> QED
      BY <2>1 DEF AnswersInv, RunsTheInstalled, DeadViews
  <1>5. CASE \/ m.k \in {"undefined", "own"}
             \/ m.k = "foreign" /\ m.h \notin freed /\ ~AcceptsArgs(m.h, k)
    <2>1. answer' \in {Success, Failure}
      BY <1>1, <1>5, Kinds DEF Run, ScriptFails, m
    <2> QED
      BY <2>1, PlainAnswer
  <1> QED
    BY <1>1, <1>2, <1>3, <1>4, <1>5
-----------------------------------------------------------------------------
(* The inductive invariant *)

(* Its parts, as the lemmas above have them. *)
LEMMA Parts ==
    SessionInv <=>
        /\ stage \in {"absent", "open", "failed", "aborted"}
        /\ lang \in Languages /\ config \in Configs
        /\ NamesInv /\ ViewsInv /\ StackInv /\ AnswersInv
        /\ AbortsAfterFailures
  BY DEF SessionInv, TypeOK, NamesInv, ViewsInv, StackInv, AnswersInv, RoomLeft

LEMMA PartsNext ==
    ASSUME stage' \in {"absent", "open", "failed", "aborted"},
           lang' \in Languages, config' \in Configs,
           NamesInv', ViewsInv', StackInv', AnswersInv',
           AbortsAfterFailures'
    PROVE  SessionInv'
  BY DEF SessionInv, TypeOK, NamesInv, ViewsInv, StackInv, AnswersInv, RoomLeft

LEMMA InitSession == Init => SessionInv
  <1> SUFFICES ASSUME Init PROVE SessionInv
    OBVIOUS
  <1> USE DEF Init
  <1>1. <<>> \in Seq([name : Names, nargs : 0..MaxArgs]) /\ <<>> \in Seq(Buffers)
        /\ DOMAIN <<>> = {}
    OBVIOUS
  <1>2. NamesInv
    BY <1>1, Kinds DEF NamesInv, Meanings, FirstHolds, LastBound, Jx9Forgets
  <1>3. ViewsInv
    BY <1>1 DEF ViewsInv, OwnLost
  <1>4. StackInv
    BY Bounds DEF StackInv, RoomLeft
  <1>5. AnswersInv
    BY DEF AnswersInv, RunsTheInstalled, DeadViews, Success
  <1>6. AbortsAfterFailures
    BY DEF AbortsAfterFailures
  <1> QED
    BY <1>2, <1>3, <1>4, <1>5, <1>6, Parts

(* What every request of an open VM leaves to be shown. *)
LEMMA RequestKeeps ==
    ASSUME SessionInv, stage = "open", UNCHANGED <<stage, lang, config>>,
           NamesInv', ViewsInv', StackInv', AnswersInv'
    PROVE  SessionInv'
  <1>1. AbortsAfterFailures'
    BY DEF AbortsAfterFailures
  <1> QED
    BY <1>1, Parts, PartsNext

LEMMA CreateStep ==
    ASSUME SessionInv, Create
    PROVE  SessionInv'
  <1>1. /\ NamesInv /\ ViewsInv /\ StackInv /\ AnswersInv
        /\ lang \in Languages /\ config \in Configs
    BY Parts
  <1>2. UNCHANGED <<lang, config, installs, argument, views, lost, depth,
                    reserve, failures, answer>>
    BY DEF Create, viewVars, stackVars
  <1>3. stage' \in {"open", "failed"}
    BY DEF Create
  <1>4. NamesInv'
    BY <1>1, CreateNames
  <1>5. ViewsInv' /\ StackInv' /\ AnswersInv'
    BY <1>1, <1>2, NoViewMade, SameAnswer DEF StackInv, RoomLeft
  <1>6. AbortsAfterFailures'
    BY <1>3 DEF AbortsAfterFailures
  <1> QED
    BY <1>1, <1>2, <1>3, <1>4, <1>5, <1>6, PartsNext

LEMMA InstallStep ==
    ASSUME SessionInv, NEW n \in Names, NEW k \in 0..MaxArgs, Install(n, k)
    PROVE  SessionInv'
  <1>1. NamesInv /\ ViewsInv /\ StackInv
    BY Parts
  <1>2. /\ stage = "open" /\ answer' = Success
        /\ UNCHANGED <<stage, lang, config, argument, views, lost, depth,
                       reserve, failures>>
    BY DEF Install, viewVars, stackVars
  <1>3. NamesInv'
    BY <1>1, InstallNames
  <1>4. ViewsInv' /\ StackInv' /\ AnswersInv'
    BY <1>1, <1>2, NoViewMade, PlainAnswer DEF StackInv, RoomLeft
  <1> QED
    BY <1>2, <1>3, <1>4, RequestKeeps

(* Abort is reached from a stack without room. *)
LEMMA AbortStep ==
    ASSUME SessionInv, Abort
    PROVE  SessionInv'
  <1>1. /\ NamesInv /\ ViewsInv /\ StackInv /\ AnswersInv
        /\ lang \in Languages /\ config \in Configs
    BY Parts
  <1>2. /\ UNCHANGED <<interpreterVars, installs, lang, config, argument, views,
                       lost, depth, reserve, failures, answer>>
        /\ stage' = "aborted" /\ ~Fits(ExecuteNeeds)
    BY DEF Abort, interpreterVars, viewVars, stackVars
  <1>3. NamesInv' /\ ViewsInv' /\ StackInv' /\ AnswersInv'
    BY <1>1, <1>2, SameNames, NoViewMade, SameAnswer DEF StackInv, RoomLeft
  <1>4. AbortsAfterFailures'
    BY <1>1, <1>2, Bounds
    DEF AbortsAfterFailures, Fits, ExecuteNeeds, StackInv, RoomLeft
  <1> QED
    BY <1>1, <1>2, <1>3, <1>4, PartsNext
-----------------------------------------------------------------------------
(* Requests *)

(* A request that defines nothing. *)
LEMMA DefinesNothing ==
    ASSUME SessionInv, stage = "open",
           UNCHANGED <<stage, lang, config, interpreterVars>>,
           ViewsInv', DOMAIN views \subseteq DOMAIN views', StackInv', AnswersInv'
    PROVE  SessionInv'
  <1>1. NamesInv'
    BY Parts, SameNames
  <1> QED
    BY <1>1, RequestKeeps

(* A request that defines or deletes n. *)
LEMMA DefinesName ==
    ASSUME SessionInv, stage = "open", UNCHANGED <<stage, lang, config>>,
           NEW n \in Names, NEW meaning, Redefine(n, meaning),
           meaning \in {Own, Deleted} \cup {Keeper(v) : v \in DOMAIN views'},
           ViewsInv', DOMAIN views \subseteq DOMAIN views', StackInv', AnswersInv'
    PROVE  SessionInv'
  <1>1. \A h : meaning # Foreign(h)
    BY Kinds DEF Deleted
  <1>2. NamesInv'
    BY <1>1, Parts, RedefineNames
  <1> QED
    BY <1>2, RequestKeeps

LEMMA ExecuteStep ==
    ASSUME SessionInv, NEW n \in Names, NEW k \in 0..MaxArgs, Execute(n, k)
    PROVE  SessionInv'
  <1>1. NamesInv /\ ViewsInv /\ StackInv
    BY Parts
  <1>2. /\ stage = "open" /\ answer' = Run(n, k) /\ ScriptRan
        /\ UNCHANGED <<stage, lang, config, interpreterVars, installs, views, lost>>
        /\ argument' = 0
    BY DEF Execute, ReplaceArguments, interpreterVars
  <1>3. ViewsInv' /\ DOMAIN views \subseteq DOMAIN views'
    BY <1>1, <1>2, NoViewMade
  <1>4. StackInv' /\ AnswersInv'
    BY <1>1, <1>2, ScriptStack, RunAnswer
  <1> QED
    BY <1>2, <1>3, <1>4, DefinesNothing

LEMMA DefineStep ==
    ASSUME SessionInv, NEW n \in Names, Define(n)
    PROVE  SessionInv'
  <1>1. ViewsInv /\ StackInv
    BY Parts
  <1>2. /\ stage = "open" /\ Redefine(n, Own) /\ ScriptRan
        /\ answer' \in {Success, Failure}
        /\ UNCHANGED <<stage, lang, config, views, lost>> /\ argument' = 0
    BY DEF Define, ReplaceArguments, ScriptFails
  <1>3. ViewsInv' /\ DOMAIN views \subseteq DOMAIN views'
    BY <1>1, <1>2, NoViewMade
  <1>4. StackInv' /\ AnswersInv'
    BY <1>1, <1>2, ScriptStack, PlainAnswer
  <1> QED
    BY <1>2, <1>3, <1>4, DefinesName

LEMMA DeleteStep ==
    ASSUME SessionInv, NEW n \in Names, Delete(n)
    PROVE  SessionInv'
  <1>1. ViewsInv /\ StackInv
    BY Parts
  <1>2. /\ stage = "open" /\ Redefine(n, Deleted) /\ ScriptRan
        /\ answer' = Success
        /\ UNCHANGED <<stage, lang, config, views, lost>> /\ argument' = 0
    BY DEF Delete, ReplaceArguments
  <1>3. ViewsInv' /\ DOMAIN views \subseteq DOMAIN views'
    BY <1>1, <1>2, NoViewMade
  <1>4. StackInv' /\ AnswersInv'
    BY <1>1, <1>2, ScriptStack, PlainAnswer
  <1> QED
    BY <1>2, <1>3, <1>4, DefinesName

(* The argument list has been replaced when the script looks at it. *)
LEMMA UseArgumentsStep ==
    ASSUME SessionInv, UseArguments
    PROVE  SessionInv'
  <1>1. ViewsInv /\ StackInv
    BY Parts
  <1>2. /\ stage = "open" /\ ScriptRan /\ argument' = 0
        /\ answer' \in {Success, Failure}
        /\ UNCHANGED <<stage, lang, config, interpreterVars, views, lost>>
    BY DEF UseArguments, ReplaceArguments, ScriptFails
  <1>3. ViewsInv' /\ DOMAIN views \subseteq DOMAIN views'
    BY <1>1, <1>2, NoViewMade
  <1>4. StackInv' /\ AnswersInv'
    BY <1>1, <1>2, ScriptStack, PlainAnswer
  <1> QED
    BY <1>2, <1>3, <1>4, DefinesNothing

LEMMA KeepStep ==
    ASSUME SessionInv, NEW n \in Names, NEW b \in Buffers, Keep(n, b)
    PROVE  SessionInv'
  <1>1. ViewsInv /\ StackInv
    BY Parts
  <1>2. /\ stage = "open" /\ Redefine(n, Keeper(NewView)) /\ ScriptRan
        /\ answer' = Use(NewView, LostAtOnce(b), "arguments")
        /\ MakeView(b) /\ argument' \in {0, NewView}
        /\ UNCHANGED <<stage, lang, config>>
    BY DEF Keep, ReplaceArguments
  <1>3. ViewsInv' /\ DOMAIN views \subseteq DOMAIN views'
    BY <1>1, <1>2, ViewMade
  <1>4. NewView \in DOMAIN views' /\ views'[NewView] = b
    BY <1>1, <1>2, MakeViewKeeps
  <1>5. StackInv'
    BY <1>1, <1>2, ScriptStack
  <1>6. LostAtOnce(b) <=> /\ views'[NewView] = "own" /\ lang' # "jx9"
                          /\ lang' = "javascript" \/ "arguments" # "arguments"
    BY <1>2, <1>4 DEF LostAtOnce
  <1>7. AnswersInv'
    BY <1>2, <1>6, ViewAnswer
  <1> QED
    BY <1>2, <1>3, <1>4, <1>5, <1>7, DefinesName

LEMMA UseResultStep ==
    ASSUME SessionInv, NEW n \in Names, NEW k \in 0..MaxArgs, NEW b \in Buffers,
           UseResult(n, k, b)
    PROVE  SessionInv'
  <1>1. ViewsInv /\ StackInv
    BY Parts
  <1>2. /\ stage = "open" /\ lang # "jx9" /\ ScriptRan
        /\ answer' = Use(NewView, b = "own", "function")
        /\ MakeView(b) /\ argument' = 0
        /\ UNCHANGED <<stage, lang, config, interpreterVars>>
    BY DEF UseResult, ReplaceArguments
  <1>3. ViewsInv' /\ DOMAIN views \subseteq DOMAIN views'
    BY <1>1, <1>2, ViewMade
  <1>4. views'[NewView] = b
    BY <1>1, <1>2, MakeViewKeeps
  <1>5. StackInv'
    BY <1>1, <1>2, ScriptStack
  <1>6. (b = "own") <=> /\ views'[NewView] = "own" /\ lang' # "jx9"
                        /\ lang' = "javascript" \/ "function" # "arguments"
    BY <1>2, <1>4
  <1>7. AnswersInv'
    BY <1>2, <1>6, ViewAnswer
  <1> QED
    BY <1>2, <1>3, <1>5, <1>7, DefinesNothing

(* Whatever a call needs, it needs at least what a lookup does. *)
LEMMA NeedsLookup ==
    ASSUME NEW needs \in Nat, needs >= 2, Fits(needs), StackInv
    PROVE  Fits(LookupNeeds)
  BY DEF Fits, LookupNeeds, StackInv

LEMMA CallStep ==
    ASSUME SessionInv, NEW n \in Names, NEW k \in 0..MaxArgs, Call(n, k)
    PROVE  SessionInv'
  <1> DEFINE found == IF Meaning(n) = Undefined THEN "nothing" ELSE "function"
  <1>1. NamesInv /\ ViewsInv /\ StackInv
    BY Parts
  <1>2. /\ stage = "open" /\ answer' = Run(n, k) /\ LookedUp(found)
        /\ UNCHANGED <<stage, lang, config, interpreterVars, installs, argument,
                       views, lost>>
    BY DEF Call, interpreterVars, viewVars
  <1>3. Fits(LookupNeeds)
    <2>1. CallNeeds(Meaning(n), k) \in Nat /\ CallNeeds(Meaning(n), k) >= 2
      BY Bounds DEF CallNeeds, LookupNeeds
    <2> QED
      BY <1>1, <2>1, NeedsLookup DEF Call
  <1>4. ViewsInv' /\ DOMAIN views \subseteq DOMAIN views'
    BY <1>1, <1>2, NoViewMade
  <1>5. StackInv' /\ AnswersInv'
    BY <1>1, <1>2, <1>3, LookupStack, RunAnswer
  <1> QED
    BY <1>2, <1>4, <1>5, DefinesNothing

LEMMA CallReaderStep ==
    ASSUME SessionInv, NEW n \in Names, CallReader(n)
    PROVE  SessionInv'
  <1>1. ViewsInv /\ StackInv
    BY Parts
  <1>2. /\ stage = "open" /\ lang # "jx9" /\ LookedUp("function")
        /\ UNCHANGED <<stage, lang, config, interpreterVars, argument, views, lost>>
        /\ answer' = IF argument = 0 THEN ScriptFails
                     ELSE Use(argument, argument \in lost, "call")
    BY DEF CallReader, viewVars
  <1>3. Fits(LookupNeeds)
    BY Kinds DEF CallReader, CallNeeds, LookupNeeds
  <1>4. ViewsInv' /\ DOMAIN views \subseteq DOMAIN views'
    BY <1>1, <1>2, NoViewMade
  <1>5. StackInv'
    BY <1>1, <1>2, <1>3, LookupStack
  <1>6. CASE argument = 0
    <2>1. AnswersInv'
      BY <1>2, <1>6, PlainAnswer DEF ScriptFails
    <2> QED
      BY <1>2, <1>4, <1>5, <2>1, DefinesNothing
  <1>7. CASE argument # 0
    <2>1. argument \in DOMAIN views
      BY <1>1, <1>7 DEF ViewsInv
    <2>2. (argument \in lost) <=> /\ views'[argument] = "own" /\ lang' # "jx9"
                                  /\ lang' = "javascript" \/ "call" # "arguments"
      BY <1>1, <1>2, <2>1 DEF ViewsInv, OwnLost
    <2>3. AnswersInv'
      BY <1>2, <1>7, <2>2, ViewAnswer
    <2> QED
      BY <1>2, <1>4, <1>5, <2>3, DefinesNothing
  <1> QED
    BY <1>6, <1>7

LEMMA CallKeeperStep ==
    ASSUME SessionInv, NEW n \in Names, NEW m \in Names, NEW b \in Buffers,
           CallKeeper(n, m, b)
    PROVE  SessionInv'
  <1>1. ViewsInv /\ StackInv
    BY Parts
  <1>2. /\ stage = "open" /\ lang # "jx9" /\ Redefine(m, Keeper(NewView))
        /\ answer' = Use(NewView, LostAtOnce(b), "arguments")
        /\ LookedUp("function") /\ MakeView(b)
        /\ UNCHANGED <<stage, lang, config, argument>>
    BY DEF CallKeeper
  <1>3. Fits(LookupNeeds)
    BY Kinds DEF CallKeeper, CallNeeds, LookupNeeds
  <1>4. ViewsInv' /\ DOMAIN views \subseteq DOMAIN views'
    BY <1>1, <1>2, ViewMade
  <1>5. NewView \in DOMAIN views' /\ views'[NewView] = b
    BY <1>1, <1>2, MakeViewKeeps
  <1>6. StackInv'
    BY <1>1, <1>2, <1>3, LookupStack
  <1>7. LostAtOnce(b) <=> /\ views'[NewView] = "own" /\ lang' # "jx9"
                          /\ lang' = "javascript" \/ "arguments" # "arguments"
    BY <1>2, <1>5 DEF LostAtOnce
  <1>8. AnswersInv'
    BY <1>2, <1>7, ViewAnswer
  <1> QED
    BY <1>2, <1>4, <1>5, <1>6, <1>8, DefinesName

LEMMA CallDeleterStep ==
    ASSUME SessionInv, NEW n \in Names, NEW m \in Names, CallDeleter(n, m)
    PROVE  SessionInv'
  <1>1. ViewsInv /\ StackInv
    BY Parts
  <1>2. /\ stage = "open" /\ Redefine(m, Deleted) /\ answer' = Success
        /\ LookedUp("function")
        /\ UNCHANGED <<stage, lang, config, argument, views, lost>>
    BY DEF CallDeleter, viewVars
  <1>3. Fits(LookupNeeds)
    BY Kinds DEF CallDeleter, CallNeeds, LookupNeeds
  <1>4. ViewsInv' /\ DOMAIN views \subseteq DOMAIN views'
    BY <1>1, <1>2, NoViewMade
  <1>5. StackInv' /\ AnswersInv'
    BY <1>1, <1>2, <1>3, LookupStack, PlainAnswer
  <1> QED
    BY <1>2, <1>4, <1>5, DefinesName

LEMMA CallMethodStep ==
    ASSUME SessionInv, NEW n \in Names, NEW has \in BOOLEAN, NEW k \in 0..MaxArgs,
           CallMethod(n, has, k)
    PROVE  SessionInv'
  <1> DEFINE found == IF Meaning(n) = Undefined THEN "nothing"
                      ELSE IF has THEN "function" ELSE "target"
  <1>1. ViewsInv /\ StackInv
    BY Parts
  <1>2. /\ stage = "open" /\ answer' \in {Success, Failure} /\ LookedUp(found)
        /\ UNCHANGED <<stage, lang, config, interpreterVars, argument, views, lost>>
    BY DEF CallMethod, viewVars
  <1>3. Fits(LookupNeeds)
    <2>1. MethodNeeds(found, k) \in Nat /\ MethodNeeds(found, k) >= 2
      BY Bounds DEF MethodNeeds, LookupNeeds
    <2> QED
      BY <1>1, <2>1, NeedsLookup DEF CallMethod
  <1>4. ViewsInv' /\ DOMAIN views \subseteq DOMAIN views'
    BY <1>1, <1>2, NoViewMade
  <1>5. StackInv' /\ AnswersInv'
    BY <1>1, <1>2, <1>3, LookupStack, PlainAnswer
  <1> QED
    BY <1>2, <1>4, <1>5, DefinesNothing

LEMMA StutterSession ==
    ASSUME SessionInv, UNCHANGED vars
    PROVE  SessionInv'
  <1>1. /\ NamesInv /\ ViewsInv /\ StackInv /\ AnswersInv
        /\ lang \in Languages /\ config \in Configs
        /\ stage \in {"absent", "open", "failed", "aborted"}
        /\ AbortsAfterFailures
    BY Parts
  <1>2. UNCHANGED <<interpreterVars, stage, globals, installs, lang, config, argument,
                    views, lost, depth, reserve, failures, answer>>
    BY DEF vars, interpreterVars, viewVars, stackVars
  <1>3. NamesInv' /\ ViewsInv' /\ StackInv' /\ AnswersInv'
    BY <1>1, <1>2, SameNames, NoViewMade, SameAnswer DEF StackInv, RoomLeft
  <1>4. AbortsAfterFailures'
    BY <1>1, <1>2 DEF AbortsAfterFailures
  <1> QED
    BY <1>1, <1>2, <1>3, <1>4, PartsNext

LEMMA NextSession == SessionInv /\ [Next]_vars => SessionInv'
  BY CreateStep, InstallStep, AbortStep, ExecuteStep, DefineStep, DeleteStep,
     UseArgumentsStep, KeepStep, UseResultStep, CallStep, CallReaderStep,
     CallKeeperStep, CallDeleterStep, CallMethodStep, StutterSession DEF Next

LEMMA SessionHolds == Spec => []SessionInv
  BY InitSession, NextSession, PTL DEF Spec
-----------------------------------------------------------------------------
(* The properties of the requests *)

(* Types, and the bookkeeping of holders: the holders that JavaScript and   *)
(* Jx9 own in m_ffuncs are functions that were installed under that name    *)
(* and still exist, and call pops no more than it pushed (duk_pop in        *)
(* JavascriptBackend.cpp).                                                  *)
THEOREM TypesHold == Spec => []TypeOK
  <1>1. SessionInv => TypeOK
    BY DEF SessionInv
  <1> QED
    BY <1>1, SessionHolds, PTL

(* Backend::install frees what a name refers to only in a JavaScript VM,    *)
(* and there from the second install of the name on, however often scripts  *)
(* define the name between the installs.                                    *)
THEOREM OnlyReinstalledFreed == Spec => []FreedFunctions
  <1>1. SessionInv => FreedFunctions
    <2> SUFFICES ASSUME SessionInv, NEW n \in Names, Meaning(n).k = "foreign"
                 PROVE  Meaning(n).h \in freed <=>
                           /\ lang = "javascript"
                           /\ \E g \in SameName(Meaning(n).h) : g < Meaning(n).h
      BY DEF FreedFunctions
    <2>1. NamesInv
      BY Parts
    <2> DEFINE h == Meaning(n).h
    <2>2. /\ installs[h].name = n
          /\ h \in freed <=>
                lang = "javascript" /\ \E g \in DOMAIN installs :
                                          installs[g].name = n /\ g < h
      BY <2>1, MeaningForeign
    <2> HIDE DEF h
    <2>3. h \in freed <=> lang = "javascript" /\ \E g \in SameName(h) : g < h
      BY <2>2 DEF SameName
    <2> QED
      BY <2>3 DEF h
  <1> QED
    BY <1>1, SessionHolds, PTL

(* A request that runs an installed function runs the last one installed    *)
(* under its name, and in Jx9, whose m_ffuncs keeps the first holder, the   *)
(* first.                                                                   *)
THEOREM LastInstalledRuns == Spec => []RunsTheInstalled
  <1>1. SessionInv => RunsTheInstalled
    BY DEF SessionInv
  <1> QED
    BY <1>1, SessionHolds, PTL

(* A step changes what a name of an interpreter means to one thing only.    *)
LEMMA RedefinedName ==
    ASSUME NamesInv, lang # "jx9", NEW n \in Names, NEW m \in Names, NEW meaning,
           Redefine(m, meaning), globals'[n] # globals[n]
    PROVE  n = m /\ globals'[n] = meaning
  BY DEF Redefine, NamesInv

(* No step but Create gives the preamble's names their first meaning, and   *)
(* none but a deletion takes one away.                                      *)
LEMMA NameStep ==
    ASSUME SessionInv, Next, lang # "jx9", NEW n \in PreambleNames,
           stage' = "open", globals'[n] \in {Undefined, Removed}
    PROVE  stage = "open" /\ (globals'[n] = globals[n] \/ Deletes(n))
  <1>1. n \in Names /\ NamesInv
    BY Parts DEF PreambleNames
  <1>2. ASSUME Create PROVE FALSE
    BY <1>1, <1>2, Kinds DEF Create, PreambleRan, NamesInv
  <1>3. ASSUME NEW m \in Names, NEW k \in 0..MaxArgs, Install(m, k)
        PROVE  stage = "open" /\ globals'[n] = globals[n]
    BY <1>1, <1>3, Kinds DEF Install, Bind, NamesInv
  <1>4. ASSUME NEW m \in Names, NEW meaning, Redefine(m, meaning),
               meaning \in {Own} \cup {Keeper(v) : v \in {NewView}}
        PROVE  globals'[n] = globals[n]
    BY <1>1, <1>4, RedefinedName, Kinds
  <1>5. ASSUME NEW m \in Names, Delete(m)
        PROVE  stage = "open" /\ (globals'[n] = globals[n] \/ Deletes(n))
    BY <1>1, <1>5, RedefinedName DEF Delete, Deletes
  <1>6. ASSUME NEW f \in Names, NEW m \in Names, CallDeleter(f, m)
        PROVE  stage = "open" /\ (globals'[n] = globals[n] \/ Deletes(n))
    BY <1>1, <1>6, RedefinedName DEF CallDeleter, Deletes
  <1>7. ASSUME NEW m \in Names, Define(m)
        PROVE  stage = "open" /\ globals'[n] = globals[n]
    BY <1>4, <1>7 DEF Define
  <1>8. ASSUME NEW m \in Names, NEW b \in Buffers, Keep(m, b)
        PROVE  stage = "open" /\ globals'[n] = globals[n]
    BY <1>4, <1>8 DEF Keep
  <1>9. ASSUME NEW f \in Names, NEW m \in Names, NEW b \in Buffers, CallKeeper(f, m, b)
        PROVE  stage = "open" /\ globals'[n] = globals[n]
    BY <1>4, <1>9 DEF CallKeeper
  <1>10. ASSUME NEW m \in Names, NEW k \in 0..MaxArgs,
                \/ Execute(m, k) \/ Call(m, k) \/ CallReader(m) \/ UseArguments
                \/ \E b \in Buffers : UseResult(m, k, b)
                \/ \E has \in BOOLEAN : CallMethod(m, has, k)
         PROVE  stage = "open" /\ globals'[n] = globals[n]
    BY <1>10 DEF Execute, Call, CallReader, UseArguments, UseResult, CallMethod,
                 interpreterVars
  <1>11. ~Abort
    BY DEF Abort
  <1>12. 0 \in 0..MaxArgs
    BY Bounds
  <1> QED
    BY <1>1, <1>2, <1>3, <1>5, <1>6, <1>7, <1>8, <1>9, <1>10, <1>11, <1>12 DEF Next

(* Requests belong to one VM.                                               *)
LEMMA SameVm == Next => UNCHANGED <<lang, config>>
  BY DEF Next, Create, Install, Execute, Call, Define, Delete, CallReader,
         UseArguments, Keep, UseResult, CallKeeper, CallDeleter, CallMethod, Abort

(* What the preamble defines has a meaning when a VM is created, and loses  *)
(* it only by a request whose script deletes the name: installs, the other  *)
(* requests, their errors and views never take it away.  In Jx9, which      *)
(* compiles its preamble with every script, nothing does, unless the        *)
(* preamble does not compile.                                               *)
THEOREM PreambleStays == Spec => PreambleKept
  <1>1. SessionInv /\ [Next]_vars =>
          [\A n \in PreambleNames : stage' = "open" /\ Meaning(n)' = Undefined =>
             \/ lang = "jx9" /\ config.code = "bad"
             \/ lang # "jx9" /\ stage = "open" /\ (Meaning(n) = Undefined \/ Deletes(n))]_vars
    <2> SUFFICES ASSUME SessionInv, Next, NEW n \in PreambleNames, stage' = "open",
                        Meaning(n)' = Undefined, ~(lang = "jx9" /\ config.code = "bad")
                 PROVE  /\ lang # "jx9" /\ stage = "open"
                        /\ Meaning(n) = Undefined \/ Deletes(n)
      OBVIOUS
    <2>1. UNCHANGED <<lang, config>>
      BY SameVm
    <2>2. lang # "jx9"
      BY <2>1, Kinds DEF Meaning, PreambleNames
    <2>3. globals'[n] \in {Undefined, Removed}
      BY <2>1, <2>2 DEF Meaning
    <2>4. stage = "open" /\ (globals'[n] = globals[n] \/ Deletes(n))
      BY <2>2, <2>3, NameStep
    <2> QED
      BY <2>2, <2>3, <2>4 DEF Meaning
  <1> QED
    BY <1>1, SessionHolds, PTL DEF Spec, PreambleKept

(* Which buffers of a view are gone when a script uses it: those of         *)
(* createdViews, unless the script is the one that the view was made for    *)
(* and the language is not JavaScript.                                      *)
THEOREM GoneBuffers == Spec => []DeadViews
  <1>1. SessionInv => DeadViews
    BY DEF SessionInv
  <1> QED
    BY <1>1, SessionHolds, PTL

(* Only the entries that failed lookups leave on Duktape's value stack can  *)
(* abort the process, and it takes StackRenewal of them, less what an       *)
(* execute needs, since the last script (JavascriptBackend.cpp:211).        *)
THEOREM OnlyLookupsAbort == Spec => []AbortsAfterFailures
  <1>1. SessionInv => AbortsAfterFailures
    BY DEF SessionInv
  <1> QED
    BY <1>1, SessionHolds, PTL
=============================================================================
