----------------------- MODULE ProviderLifecycleProofs -----------------------
(***************************************************************************)
(* Theorems about ProviderLifecycle, for every number of addresses and of  *)
(* implementations, and every bound on the handlers in flight.             *)
(***************************************************************************)
EXTENDS ProviderLifecycle, FiniteSetTheorems, SequenceTheorems, TLAPS

-----------------------------------------------------------------------------
(* Finalize callbacks *)

(* A nonempty set of indices has a greatest one: the sets of the indices    *)
(* above each are ordered by inclusion, and one of them is smallest.        *)
LEMMA Greatest ==
    ASSUME NEW n \in Nat, NEW T, T \subseteq 1..n, T # {}
    PROVE  \E k \in T : \A j \in T : j <= k
  <1> DEFINE Above(k) == {j \in T : j > k}
             A == {Above(k) : k \in T}
  <1>1. IsFiniteSet(T)
    <2>1. IsFiniteSet(1..n)
      BY FS_Interval
    <2> QED
      BY <2>1, FS_Subset
  <1>2. \A k \in T : Above(k) \in FiniteSubsetsOf(1..n)
    <2> SUFFICES ASSUME NEW k \in T PROVE Above(k) \in FiniteSubsetsOf(1..n)
      OBVIOUS
    <2>1. Above(k) \subseteq T
      OBVIOUS
    <2> HIDE DEF Above
    <2> QED
      BY <1>1, <2>1, FS_Subset DEF FiniteSubsetsOf
  <1>3. A \subseteq FiniteSubsetsOf(1..n) /\ A # {}
    <2> HIDE DEF Above
    <2> QED
      BY <1>2
  <1>4. \E S \in A : \A R \in A : <<R, S>> \notin StrictSubsetOrdering(1..n)
    <2> HIDE DEF A
    <2> QED
      BY <1>3, FS_StrictSubsetOrderingWellFounded, WFMin
  <1>5. PICK k \in T : \A j \in T :
            <<Above(j), Above(k)>> \notin StrictSubsetOrdering(1..n)
    <2> HIDE DEF Above
    <2> QED
      BY <1>4
  <1>6. SUFFICES ASSUME NEW j \in T, ~(j <= k)  PROVE FALSE
    OBVIOUS
  <1>7. j > k /\ \A i \in T : i \in Nat
    BY <1>6
  <1>8. Above(j) \subseteq Above(k) /\ j \in Above(k) /\ j \notin Above(j)
    <2>1. Above(j) \subseteq Above(k)
      <3> SUFFICES ASSUME NEW i \in T, i > j PROVE i > k
        OBVIOUS
      <3> QED
        BY <1>7
    <2> QED
      BY <1>7, <2>1
  <1>9. Above(j) \in SUBSET (1..n) /\ Above(k) \in SUBSET (1..n)
    OBVIOUS
  <1> HIDE DEF Above
  <1> QED
    BY <1>5, <1>8, <1>9 DEF StrictSubsetOrdering

(* An index past the n-th of l elements, and where it was. *)
LEMMA Shifted ==
    ASSUME NEW l \in Nat, NEW n \in 1 .. l, NEW k \in n .. l - 1
    PROVE  /\ ~(k <= n - 1) /\ k \in 1 .. (n - 1) + (l - n)
           /\ k - (n - 1) \in 1 .. l - n /\ n + (k - (n - 1)) = k + 1
  OBVIOUS

(* A sequence without its n-th element. *)
Without(s, n) == SubSeq(s, 1, n - 1) \o SubSeq(s, n + 1, Len(s))

LEMMA Cut ==
    ASSUME NEW S, NEW s \in Seq(S), NEW n \in DOMAIN s, NEW t, t = Without(s, n)
    PROVE  /\ t \in Seq(S)
           /\ DOMAIN s = 1 .. Len(s) /\ Len(s) \in Nat \ {0} /\ n \in 1 .. Len(s)
           /\ DOMAIN t = 1 .. Len(s) - 1
           /\ \A k \in DOMAIN t : t[k] = IF k < n THEN s[k] ELSE s[k + 1]
  <1> DEFINE u == SubSeq(s, 1, n - 1)
             v == SubSeq(s, n + 1, Len(s))
  <1>1. /\ DOMAIN s = 1 .. Len(s) /\ Len(s) \in Nat \ {0} /\ n \in 1 .. Len(s)
        /\ \A k \in 1 .. Len(s) : s[k] \in S
    OBVIOUS
  <1>a. n \in Int /\ n - 1 \in Int /\ n + 1 \in Int /\ Len(s) \in Int /\ 1 \in Int
    BY <1>1
  <1>2. /\ u \in Seq(S) /\ Len(u) = n - 1
        /\ \A k \in 1 .. n - 1 : u[k] = s[k]
    <2>1. \A i \in 1 .. n - 1 : s[i] \in S
      BY <1>1
    <2>2. /\ u \in Seq(S)
          /\ Len(u) = IF 1 <= n - 1 THEN n - 1 - 1 + 1 ELSE 0
          /\ \A i \in 1 .. n - 1 - 1 + 1 : u[i] = s[1 + i - 1]
      BY <1>a, <2>1, SubSeqProperties
    <2> HIDE DEF u
    <2> QED
      BY <1>1, <2>2
  <1>3. /\ v \in Seq(S) /\ Len(v) = Len(s) - n
        /\ \A k \in 1 .. Len(s) - n : v[k] = s[n + k]
    <2>1. \A i \in n + 1 .. Len(s) : s[i] \in S
      BY <1>1
    <2>2. /\ v \in Seq(S)
          /\ Len(v) = IF n + 1 <= Len(s) THEN Len(s) - (n + 1) + 1 ELSE 0
          /\ \A i \in 1 .. Len(s) - (n + 1) + 1 : v[i] = s[n + 1 + i - 1]
      BY <1>a, <2>1, SubSeqProperties
    <2> HIDE DEF v
    <2>3. Len(s) - (n + 1) + 1 = Len(s) - n /\ (n + 1 <= Len(s) \/ Len(s) - n = 0)
      BY <1>1
    <2>4. \A k \in 1 .. Len(s) - n : v[k] = s[n + 1 + k - 1]
      BY <2>2, <2>3
    <2>5. \A k \in 1 .. Len(s) - n : n + 1 + k - 1 = n + k
      BY <1>1
    <2> QED
      BY <2>2, <2>3, <2>4, <2>5
  <1>4. t = u \o v
    BY DEF Without
  <1> HIDE DEF u, v
  <1>5. /\ t \in Seq(S) /\ Len(t) = Len(u) + Len(v)
        /\ \A k \in 1 .. Len(u) + Len(v) :
              t[k] = IF k <= Len(u) THEN u[k] ELSE v[k - Len(u)]
    <2>1. u \in Seq(S) /\ v \in Seq(S)
      BY <1>2, <1>3
    <2> QED
      BY <1>4, <2>1, ConcatProperties
  <1>6. DOMAIN t = 1 .. Len(s) - 1
    BY <1>1, <1>2, <1>3, <1>5
  <1>7. \A k \in 1 .. Len(s) - 1 : t[k] = IF k < n THEN s[k] ELSE s[k + 1]
    <2> SUFFICES ASSUME NEW k \in 1 .. Len(s) - 1
                 PROVE  t[k] = IF k < n THEN s[k] ELSE s[k + 1]
      OBVIOUS
    <2>1. CASE k < n
      <3>1. k \in 1 .. n - 1 /\ k <= Len(u) /\ k \in 1 .. Len(u) + Len(v)
        BY <1>1, <1>2, <1>3, <2>1
      <3> QED
        BY <1>2, <1>5, <2>1, <3>1
    <2>2. CASE ~(k < n)
      <3>1. /\ ~(k <= Len(u)) /\ k \in 1 .. Len(u) + Len(v)
            /\ Len(u) = n - 1 /\ k - (n - 1) \in 1 .. Len(s) - n
            /\ n + (k - (n - 1)) = k + 1
        <4>1. Len(s) \in Nat /\ n \in 1 .. Len(s) /\ k \in n .. Len(s) - 1
          BY <1>1, <2>2
        <4> QED
          BY <1>2, <1>3, <4>1, Shifted
      <3>2. t[k] = v[k - (n - 1)]
        BY <1>5, <3>1
      <3> QED
        BY <1>3, <2>2, <3>1, <3>2
    <2> QED
      BY <2>1, <2>2
  <1> QED
    BY <1>1, <1>5, <1>6, <1>7

(* Some callback captured the address a, and none has been captured twice. *)
Captures(s, a) == \E k \in DOMAIN s : s[k] = a

Once(s) == \A j, k \in DOMAIN s : s[j] = s[k] => j = k

(* What makes t an s of l elements without the n-th.                        *)
IsCut(t, s, l, n) ==
    /\ l \in Nat /\ n \in 1 .. l
    /\ DOMAIN s = 1 .. l /\ DOMAIN t = 1 .. l - 1
    /\ \A k \in 1 .. l - 1 : t[k] = IF k < n THEN s[k] ELSE s[k + 1]

LEMMA CutElements ==
    ASSUME NEW l, NEW n, NEW s, NEW t, IsCut(t, s, l, n)
    PROVE  /\ \A a : Captures(t, a) => Captures(s, a)
           /\ \A a : Captures(s, a) /\ a # s[n] => Captures(t, a)
           /\ Once(s) => Once(t) /\ ~Captures(t, s[n])
  <1> DEFINE old(k) == IF k < n THEN k ELSE k + 1
  <1> USE DEF IsCut
  <1>1. \A k \in 1 .. l - 1 : t[k] = s[old(k)] /\ old(k) \in 1 .. l /\ old(k) # n
    OBVIOUS
  <1>2. \A i, j \in 1 .. l - 1 : old(i) = old(j) => i = j
    OBVIOUS
  <1>3. ASSUME NEW j \in 1 .. l, j # n PROVE \E k \in 1 .. l - 1 : t[k] = s[j]
    <2>1. CASE j < n
      <3>1. j \in 1 .. l - 1
        BY <2>1
      <3> QED
        BY <2>1, <3>1
    <2>2. CASE ~(j < n)
      <3>1. j - 1 \in 1 .. l - 1 /\ ~(j - 1 < n) /\ j - 1 + 1 = j
        BY <1>3, <2>2
      <3> QED
        BY <3>1
    <2> QED
      BY <2>1, <2>2
  <1> HIDE DEF old
  <1>4. \A a : Captures(t, a) => Captures(s, a)
    BY <1>1 DEF Captures
  <1>5. \A a : Captures(s, a) /\ a # s[n] => Captures(t, a)
    BY <1>3 DEF Captures
  <1>6. Once(s) => Once(t) /\ ~Captures(t, s[n])
    <2> SUFFICES ASSUME Once(s) PROVE Once(t) /\ ~Captures(t, s[n])
      OBVIOUS
    <2>1. \A k \in 1 .. l - 1 : t[k] # s[n]
      BY <1>1 DEF Once
    <2>2. ASSUME NEW i \in 1 .. l - 1, NEW j \in 1 .. l - 1, t[i] = t[j] PROVE i = j
      <3>1. old(i) = old(j)
        BY <1>1, <2>2 DEF Once
      <3> QED
        BY <1>2, <3>1
    <2> QED
      BY <2>1, <2>2 DEF Captures, Once
  <1> QED
    BY <1>4, <1>5, <1>6

(* Without one callback, the addresses that others captured are as before.  *)
LEMMA CutCaptures ==
    ASSUME NEW S, NEW s \in Seq(S), NEW n \in DOMAIN s, NEW t, t = Without(s, n)
    PROVE  /\ t \in Seq(S)
           /\ \A a : Captures(t, a) => Captures(s, a)
           /\ \A a : Captures(s, a) /\ a # s[n] => Captures(t, a)
           /\ Once(s) => Once(t) /\ ~Captures(t, s[n])
  <1> DEFINE l == Len(s)
  <1>1. /\ t \in Seq(S)
        /\ DOMAIN s = 1 .. l /\ l \in Nat /\ n \in 1 .. l
        /\ DOMAIN t = 1 .. l - 1
        /\ \A k \in DOMAIN t : t[k] = IF k < n THEN s[k] ELSE s[k + 1]
    BY Cut
  <1> HIDE DEF l
  <1>2. IsCut(t, s, l, n)
    BY <1>1 DEF IsCut
  <1>3. /\ \A a : Captures(t, a) => Captures(s, a)
        /\ \A a : Captures(s, a) /\ a # s[n] => Captures(t, a)
        /\ Once(s) => Once(t) /\ ~Captures(t, s[n])
    BY <1>1, <1>2, CutElements
  <1> QED
    BY <1>1, <1>3

(* What pop_finalize_callback leaves. *)
LEMMA Popped ==
    ASSUME callbacks \in Seq(Addresses), NEW p, NEW t, t = PopCallback(p)
    PROVE  /\ t \in Seq(Addresses)
           /\ \A a : Captures(t, a) => Captures(callbacks, a)
           /\ \A a : Captures(callbacks, a) /\ a # p => Captures(t, a)
           /\ Once(callbacks) => Once(t) /\ ~Captures(t, p)
  <1> DEFINE mine == {k \in DOMAIN callbacks : callbacks[k] = p}
             last == CHOOSE k \in mine : \A j \in mine : j <= k
  <1>1. CASE mine = {}
    BY <1>1 DEF PopCallback, Captures, Once
  <1>2. CASE mine # {}
    <2>1. Len(callbacks) \in Nat /\ mine \subseteq 1 .. Len(callbacks)
      OBVIOUS
    <2>2. \E k \in mine : \A j \in mine : j <= k
      <3> HIDE DEF mine
      <3> QED
        BY <1>2, <2>1, Greatest
    <2>3. last \in mine
      <3> HIDE DEF mine
      <3> QED
        BY <2>2
    <2>4. last \in DOMAIN callbacks /\ callbacks[last] = p
      <3> HIDE DEF last
      <3> QED
        BY <2>3
    <2>5. t = Without(callbacks, last)
      BY <1>2 DEF PopCallback, Without
    <2> HIDE DEF last
    <2> QED
      BY <2>4, <2>5, CutCaptures
  <1> QED
    BY <1>1, <1>2

(* What push_finalize_callback adds. *)
LEMMA Pushed ==
    ASSUME NEW s \in Seq(Addresses), NEW p \in Addresses, NEW t, t = Append(s, p)
    PROVE  /\ t \in Seq(Addresses)
           /\ \A a : Captures(t, a) <=> Captures(s, a) \/ a = p
           /\ Once(s) /\ ~Captures(s, p) => Once(t)
  <1>1. /\ t \in Seq(Addresses)
        /\ DOMAIN s = 1 .. Len(s) /\ Len(s) \in Nat
        /\ DOMAIN t = 1 .. Len(s) + 1
        /\ \A k \in 1 .. Len(s) : t[k] = s[k]
        /\ t[Len(s) + 1] = p
    OBVIOUS
  <1>2. \A k : k \in DOMAIN t <=> k \in DOMAIN s \/ k = Len(s) + 1
    BY <1>1
  <1> QED
    BY <1>1, <1>2 DEF Captures, Once

(* The last callback runs, and is no more. *)
LEMMA Ran ==
    ASSUME NEW s \in Seq(Addresses), s # <<>>,
           NEW t, t = SubSeq(s, 1, Len(s) - 1), NEW p, p = s[Len(s)]
    PROVE  /\ p \in Addresses /\ Captures(s, p)
           /\ t \in Seq(Addresses)
           /\ \A a : Captures(t, a) => Captures(s, a)
           /\ \A a : Captures(s, a) /\ a # p => Captures(t, a)
           /\ Once(s) => Once(t) /\ ~Captures(t, p)
  <1>1. Len(s) \in DOMAIN s /\ Len(s) \in Nat
    OBVIOUS
  <1>2. SubSeq(s, Len(s) + 1, Len(s)) = <<>>
    BY <1>1, SubSeqEmpty
  <1>3. t \in Seq(Addresses)
    BY <1>1
  <1>4. t = t \o <<>>
    BY <1>3
  <1>5. t = Without(s, Len(s))
    BY <1>2, <1>4 DEF Without
  <1>6. p \in Addresses /\ Captures(s, p)
    BY <1>1 DEF Captures
  <1> QED
    BY <1>1, <1>5, <1>6, CutCaptures
-----------------------------------------------------------------------------
(* The inductive invariant, action by action *)

(* What is assumed of the constants. *)
LEMMA Constants ==
    MaxInFlight \in Nat /\ NoObject # Empty /\ NoObject \notin Impls /\ Empty \notin Impls
  BY LifecycleAssumption

(* Callbacks and objects, in the words of the lemmas above. *)
LEMMA CapturedAs ==
    Captured <=>
        /\ \A a \in Addresses : object[a] \in Impls => Captures(callbacks, a)
        /\ engine = "finalized" => callbacks = <<>> /\ \A i \in Impls : impl[i] # "novm"
  BY DEF Captured, Captures

LEMMA CapturedNext ==
    ASSUME \A a \in Addresses : object'[a] \in Impls => Captures(callbacks', a),
           engine' = "finalized" =>
               callbacks' = <<>> /\ \A i \in Impls : impl'[i] # "novm"
    PROVE  Captured'
  BY DEF Captured, Captures

LEMMA InitLifecycle == Init => LifecycleInv
  <1> SUFFICES ASSUME Init PROVE LifecycleInv
    OBVIOUS
  <1> USE DEF Init
  <1>1. TypeOK
    BY Constants DEF TypeOK, ImplStates
  <1>2. Owned
    BY Constants DEF Owned
  <1>3. Captured
    BY Constants DEF Captured
  <1> QED
    BY <1>1, <1>2, <1>3 DEF LifecycleInv

LEMMA ConstructStep ==
    ASSUME LifecycleInv, NEW a \in Addresses, NEW i \in Impls, Construct(a, i)
    PROVE  LifecycleInv'
  <1>1. TypeOK /\ Owned /\ Captured
    BY DEF LifecycleInv
  <1>2. /\ engine = "running" /\ object[a] = NoObject /\ impl[i] = "unborn"
        /\ object' = [object EXCEPT ![a] = i] /\ impl' = [impl EXCEPT ![i] = "live"]
        /\ callbacks' = Append(callbacks, a) /\ UNCHANGED <<engine, inflight>>
    BY DEF Construct
  <1>3. /\ callbacks' \in Seq(Addresses)
        /\ \A b : Captures(callbacks', b) <=> Captures(callbacks, b) \/ b = a
    BY <1>1, <1>2, Pushed DEF TypeOK
  <1>4. TypeOK'
    BY <1>1, <1>2, <1>3 DEF TypeOK, ImplStates
  <1>5. Owned'
    BY <1>1, <1>2, Constants DEF TypeOK, Owned
  <1>6. Captured'
    BY <1>1, <1>2, <1>3, CapturedAs, CapturedNext DEF TypeOK
  <1> QED
    BY <1>4, <1>5, <1>6 DEF LifecycleInv

LEMMA ConstructFailsStep ==
    ASSUME LifecycleInv, NEW i \in Impls, ConstructFails(i)
    PROVE  LifecycleInv'
  <1>1. TypeOK /\ Owned /\ Captured
    BY DEF LifecycleInv
  <1>2. /\ engine = "running" /\ impl[i] = "unborn"
        /\ impl' = [impl EXCEPT ![i] = "gone"]
        /\ UNCHANGED <<engine, object, callbacks, inflight>>
    BY DEF ConstructFails
  <1>3. TypeOK'
    BY <1>1, <1>2 DEF TypeOK, ImplStates
  <1>4. Owned'
    BY <1>1, <1>2 DEF TypeOK, Owned
  <1>5. Captured'
    BY <1>1, <1>2 DEF Captured
  <1> QED
    BY <1>3, <1>4, <1>5 DEF LifecycleInv

(* The callback of the object that is moved from stays, and so the one that *)
(* is moved to gets another.                                                *)
LEMMA MoveStep ==
    ASSUME LifecycleInv, NEW a \in Addresses, NEW b \in Addresses, Move(a, b)
    PROVE  LifecycleInv'
  <1>1. TypeOK /\ Owned /\ Captured
    BY DEF LifecycleInv
  <1>2. /\ engine = "running" /\ object[a] \in Impls /\ object[b] = NoObject
        /\ callbacks' = Append(PopCallback(b), b)
        /\ object' = [object EXCEPT ![a] = Empty, ![b] = object[a]]
        /\ UNCHANGED <<engine, impl, inflight>>
    BY DEF Move
  <1>3. /\ callbacks' \in Seq(Addresses)
        /\ \A c : Captures(callbacks, c) \/ c = b => Captures(callbacks', c)
    <2>1. /\ PopCallback(b) \in Seq(Addresses)
          /\ \A c : Captures(callbacks, c) /\ c # b => Captures(PopCallback(b), c)
      BY <1>1, Popped DEF TypeOK
    <2> QED
      BY <1>2, <2>1, Pushed
  <1>4. /\ a # b /\ object' \in [Addresses -> Impls \cup {NoObject, Empty}]
        /\ object'[a] = Empty /\ object'[b] = object[a]
        /\ \A c \in Addresses : c # a /\ c # b => object'[c] = object[c]
    BY <1>1, <1>2, Constants DEF TypeOK
  <1>5. TypeOK'
    BY <1>1, <1>2, <1>3, <1>4 DEF TypeOK
  <1>6. Owned'
    <2>1. \A c \in Addresses : object'[c] \in Impls => impl'[object'[c]] = "live"
      BY <1>1, <1>2, <1>4, Constants DEF Owned
    <2>2. \A c, d \in Addresses :
              object'[c] \in Impls /\ object'[c] = object'[d] => c = d
      BY <1>1, <1>2, <1>4, Constants DEF Owned
    <2>3. \A i \in Impls : impl'[i] = "live" => \E c \in Addresses : object'[c] = i
      BY <1>1, <1>2, <1>4, Constants DEF Owned
    <2> QED
      BY <2>1, <2>2, <2>3 DEF Owned
  <1>7. Captured'
    BY <1>1, <1>2, <1>3, <1>4, Constants, CapturedAs, CapturedNext
  <1> QED
    BY <1>5, <1>6, <1>7 DEF LifecycleInv

(* An object lets its implementation go.                                   *)
LEMMA LetGo ==
    ASSUME TypeOK, Owned, NEW a \in Addresses, object[a] \in Impls,
           NEW x \in {NoObject, Empty}, object' = [object EXCEPT ![a] = x],
           DropImpl(object[a])
    PROVE  /\ object' \in [Addresses -> Impls \cup {NoObject, Empty}]
           /\ impl' \in [Impls -> ImplStates]
           /\ \A b \in Addresses : object'[b] \in Impls => b # a /\ object[b] \in Impls
           /\ Owned'
  <1>1. /\ object' \in [Addresses -> Impls \cup {NoObject, Empty}]
        /\ object'[a] = x /\ x \notin Impls
        /\ \A b \in Addresses : b # a => object'[b] = object[b]
    BY Constants DEF TypeOK
  <1>2. /\ impl' \in [Impls -> ImplStates]
        /\ impl'[object[a]] = "novm"
        /\ \A i \in Impls : i # object[a] => impl'[i] = impl[i]
    BY DEF TypeOK, DropImpl, ImplStates
  <1>3. Owned'
    <2>1. \A c \in Addresses : object'[c] \in Impls => impl'[object'[c]] = "live"
      BY <1>1, <1>2 DEF Owned
    <2>2. \A c, d \in Addresses :
              object'[c] \in Impls /\ object'[c] = object'[d] => c = d
      BY <1>1 DEF Owned
    <2>3. \A i \in Impls : impl'[i] = "live" => \E c \in Addresses : object'[c] = i
      BY <1>1, <1>2 DEF Owned
    <2> QED
      BY <2>1, <2>2, <2>3 DEF Owned
  <1> QED
    BY <1>1, <1>2, <1>3

LEMMA DestroyStep ==
    ASSUME LifecycleInv, NEW a \in Addresses, ApplicationDestroys(a)
    PROVE  LifecycleInv'
  <1>1. TypeOK /\ Owned /\ Captured
    BY DEF LifecycleInv
  <1>2. /\ engine # "finalizing" /\ object[a] # NoObject
        /\ object' = [object EXCEPT ![a] = NoObject]
        /\ UNCHANGED <<engine, inflight>>
    BY DEF ApplicationDestroys, Destroy
  <1>3. CASE object[a] \in Impls
    <2>1. callbacks' = PopCallback(a) /\ DropImpl(object[a])
      BY <1>3 DEF ApplicationDestroys, Destroy
    <2>2. /\ object' \in [Addresses -> Impls \cup {NoObject, Empty}]
          /\ impl' \in [Impls -> ImplStates]
          /\ \A b \in Addresses : object'[b] \in Impls => b # a /\ object[b] \in Impls
          /\ Owned'
      BY <1>1, <1>2, <1>3, <2>1, LetGo
    <2>3. /\ callbacks' \in Seq(Addresses)
          /\ \A b : Captures(callbacks, b) /\ b # a => Captures(callbacks', b)
      BY <1>1, <2>1, Popped DEF TypeOK
    <2>4. TypeOK'
      BY <1>1, <1>2, <2>2, <2>3 DEF TypeOK
    <2>5. engine' # "finalized"
      BY <1>1, <1>2, <1>3 DEF Captured
    <2>6. Captured'
      BY <1>1, <2>2, <2>3, <2>5, CapturedAs, CapturedNext
    <2> QED
      BY <2>2, <2>4, <2>6 DEF LifecycleInv
  <1>4. CASE object[a] \notin Impls
    <2>1. UNCHANGED <<callbacks, impl>>
      BY <1>4 DEF ApplicationDestroys, Destroy
    <2>2. /\ object' \in [Addresses -> Impls \cup {NoObject, Empty}]
          /\ \A b \in Addresses : object'[b] \in Impls => object'[b] = object[b]
          /\ \A b \in Addresses : object[b] \in Impls => object'[b] = object[b]
      BY <1>1, <1>2, <1>4, Constants DEF TypeOK
    <2>3. TypeOK' /\ Owned'
      BY <1>1, <1>2, <2>1, <2>2 DEF TypeOK, Owned
    <2>4. Captured'
      BY <1>1, <1>2, <2>1, <2>2 DEF Captured
    <2> QED
      BY <2>3, <2>4 DEF LifecycleInv
  <1> QED
    BY <1>3, <1>4

LEMMA RunCallbackStep ==
    ASSUME LifecycleInv, RunCallback
    PROVE  LifecycleInv'
  <1> DEFINE p == callbacks[Len(callbacks)]
  <1>1. TypeOK /\ Owned /\ Captured
    BY DEF LifecycleInv
  <1>2. /\ engine = "finalizing" /\ Drained /\ callbacks # <<>>
        /\ callbacks' = SubSeq(callbacks, 1, Len(callbacks) - 1)
        /\ UNCHANGED <<engine, inflight>>
    BY DEF RunCallback
  <1>3. /\ p \in Addresses /\ callbacks' \in Seq(Addresses)
        /\ \A b : Captures(callbacks, b) /\ b # p => Captures(callbacks', b)
    BY <1>1, <1>2, Ran DEF TypeOK
  <1>4. CASE object[p] \in Impls
    <2>1. object' = [object EXCEPT ![p] = Empty] /\ DropImpl(object[p])
      BY <1>4 DEF RunCallback
    <2> HIDE DEF p
    <2>2. /\ object' \in [Addresses -> Impls \cup {NoObject, Empty}]
          /\ impl' \in [Impls -> ImplStates]
          /\ \A b \in Addresses : object'[b] \in Impls => b # p /\ object[b] \in Impls
          /\ Owned'
      BY <1>1, <1>2, <1>3, <1>4, <2>1, LetGo
    <2>3. TypeOK'
      BY <1>1, <1>2, <1>3, <2>2 DEF TypeOK
    <2>4. Captured'
      BY <1>1, <1>2, <1>3, <2>2, CapturedAs, CapturedNext
    <2> QED
      BY <2>2, <2>3, <2>4 DEF LifecycleInv
  <1>5. CASE object[p] \notin Impls
    <2>1. UNCHANGED <<object, impl>>
      BY <1>5 DEF RunCallback
    <2> HIDE DEF p
    <2>2. TypeOK' /\ Owned'
      BY <1>1, <1>2, <1>3, <2>1 DEF TypeOK, Owned
    <2>3. Captured'
      BY <1>1, <1>2, <1>3, <1>5, <2>1, CapturedAs, CapturedNext
    <2> QED
      BY <2>2, <2>3 DEF LifecycleInv
  <1> QED
    BY <1>4, <1>5

(* ~ProviderImpl goes on, requests come and go, and finalization begins.    *)
LEMMA OtherSteps ==
    ASSUME LifecycleInv,
           \/ \E i \in Impls : Deregister(i) \/ Arrive(i) \/ Leave(i)
           \/ Finalize \/ Finalized \/ UNCHANGED vars
    PROVE  LifecycleInv'
  <1>1. TypeOK /\ Owned /\ Captured
    BY DEF LifecycleInv
  <1>2. UNCHANGED <<object, callbacks>>
    BY DEF Deregister, Arrive, Leave, Finalize, Finalized, vars
  <1>3. CASE \E i \in Impls : Deregister(i)
    <2>1. PICK i \in Impls : Deregister(i)
      BY <1>3
    <2>2. /\ impl[i] = "novm" /\ impl' = [impl EXCEPT ![i] = "gone"]
          /\ UNCHANGED <<engine, inflight>>
      BY <2>1 DEF Deregister
    <2>3. TypeOK'
      BY <1>1, <1>2, <2>2 DEF TypeOK, ImplStates
    <2>4. Owned' /\ Captured'
      BY <1>1, <1>2, <2>2 DEF TypeOK, Owned, Captured
    <2> QED
      BY <2>3, <2>4 DEF LifecycleInv
  <1>4. CASE \E i \in Impls : Arrive(i) \/ Leave(i)
    <2>1. PICK i \in Impls : Arrive(i) \/ Leave(i)
      BY <1>4
    <2>2. /\ UNCHANGED <<engine, impl>>
          /\ \/ inflight[i] < MaxInFlight /\ inflight' = [inflight EXCEPT ![i] = @ + 1]
             \/ inflight[i] > 0 /\ inflight' = [inflight EXCEPT ![i] = @ - 1]
      BY <2>1 DEF Arrive, Leave
    <2>3. TypeOK'
      <3>1. /\ inflight[i] \in 0..MaxInFlight /\ MaxInFlight \in Nat
            /\ inflight \in [Impls -> 0..MaxInFlight]
        BY <1>1, Constants DEF TypeOK
      <3>2. PICK n \in 0..MaxInFlight : inflight' = [inflight EXCEPT ![i] = n]
        <4>1. /\ inflight[i] < MaxInFlight => inflight[i] + 1 \in 0..MaxInFlight
              /\ inflight[i] > 0 => inflight[i] - 1 \in 0..MaxInFlight
          BY <3>1
        <4> QED  BY <2>2, <4>1
      <3> QED
        BY <1>1, <1>2, <2>2, <3>2 DEF TypeOK
    <2>4. Owned' /\ Captured'
      BY <1>1, <1>2, <2>2 DEF Owned, Captured
    <2> QED
      BY <2>3, <2>4 DEF LifecycleInv
  <1>5. CASE Finalize \/ Finalized
    <2>1. /\ UNCHANGED <<impl, inflight>>
          /\ \/ engine' = "finalizing"
             \/ /\ engine' = "finalized" /\ callbacks = <<>>
                /\ \A i \in Impls : impl[i] # "novm"
      BY <1>5 DEF Finalize, Finalized
    <2>2. TypeOK' /\ Owned' /\ Captured'
      BY <1>1, <1>2, <2>1 DEF TypeOK, Owned, Captured
    <2> QED
      BY <2>2 DEF LifecycleInv
  <1>6. CASE UNCHANGED vars
    <2>1. UNCHANGED <<engine, impl, inflight>>
      BY <1>6 DEF vars
    <2>2. TypeOK' /\ Owned' /\ Captured'
      BY <1>1, <1>2, <2>1 DEF TypeOK, Owned, Captured
    <2> QED
      BY <2>2 DEF LifecycleInv
  <1> QED
    BY <1>3, <1>4, <1>5, <1>6

LEMMA NextLifecycle == LifecycleInv /\ [Next]_vars => LifecycleInv'
  BY ConstructStep, ConstructFailsStep, MoveStep, DestroyStep, RunCallbackStep,
     OtherSteps DEF Next

LEMMA LifecycleHolds == Spec => []LifecycleInv
  BY InitLifecycle, NextLifecycle, PTL DEF Spec
-----------------------------------------------------------------------------
(* Callbacks refer to objects, when none dies moved-from                    *)

(* In the words of the lemmas above: *)
LEMMA ReferenceAs ==
    ReferenceInv =>
        /\ Once(callbacks)
        /\ \A a \in Addresses : Captures(callbacks, a) => object[a] # NoObject
  BY DEF ReferenceInv, CapturedOnce, NoDanglingCallback, Captures, Once

LEMMA ReferenceNext ==
    ASSUME LifecycleInv', Once(callbacks'),
           \A a \in Addresses : Captures(callbacks', a) => object'[a] # NoObject
    PROVE  ReferenceInv'
  <1>1. \A k \in DOMAIN callbacks' : callbacks'[k] \in Addresses
    BY DEF LifecycleInv, TypeOK
  <1> QED
    BY <1>1 DEF ReferenceInv, CapturedOnce, NoDanglingCallback, Captures, Once

LEMMA NextReference ==
    ASSUME ~MovedFromDies, ReferenceInv, [Next]_vars
    PROVE  ReferenceInv'
  <1>1. /\ TypeOK /\ Captured /\ LifecycleInv
        /\ Once(callbacks)
        /\ \A a \in Addresses : Captures(callbacks, a) => object[a] # NoObject
    BY ReferenceAs DEF ReferenceInv, LifecycleInv
  <1>2. LifecycleInv'
    BY <1>1, NextLifecycle
  <1>3. CASE \E a \in Addresses, i \in Impls : Construct(a, i)
    <2>1. PICK a \in Addresses, i \in Impls : Construct(a, i)
      BY <1>3
    <2>2. /\ object[a] = NoObject /\ callbacks' = Append(callbacks, a)
          /\ object' = [object EXCEPT ![a] = i]
      BY <2>1 DEF Construct
    <2>3. /\ \A b : Captures(callbacks', b) <=> Captures(callbacks, b) \/ b = a
          /\ Once(callbacks')
      BY <1>1, <2>2, Pushed DEF TypeOK
    <2>4. object'[a] # NoObject /\ \A b : b # a => object'[b] = object[b]
      BY <1>1, <2>2, Constants DEF TypeOK
    <2> QED
      BY <1>1, <1>2, <2>3, <2>4, ReferenceNext
  <1>4. CASE \E a, b \in Addresses : Move(a, b)
    <2>1. PICK a \in Addresses, b \in Addresses : Move(a, b)
      BY <1>4
    <2>2. /\ object[a] \in Impls /\ object[b] = NoObject
          /\ callbacks' = Append(PopCallback(b), b)
          /\ object' = [object EXCEPT ![a] = Empty, ![b] = object[a]]
      BY <2>1 DEF Move
    <2>3. /\ PopCallback(b) \in Seq(Addresses)
          /\ \A c : Captures(PopCallback(b), c) => Captures(callbacks, c)
          /\ Once(PopCallback(b)) /\ ~Captures(PopCallback(b), b)
      BY <1>1, Popped DEF TypeOK
    <2>4. /\ Once(callbacks')
          /\ \A c : Captures(callbacks', c) => Captures(callbacks, c) \/ c = b
      BY <2>2, <2>3, Pushed
    <2>5. \A c \in Addresses : object[c] # NoObject \/ c = b => object'[c] # NoObject
      BY <1>1, <2>2, Constants DEF TypeOK
    <2> QED
      BY <1>1, <1>2, <2>4, <2>5, ReferenceNext
  <1>5. CASE \E a \in Addresses : ApplicationDestroys(a)
    <2>1. PICK a \in Addresses : ApplicationDestroys(a)
      BY <1>5
    <2>2. /\ object[a] = Empty => engine = "finalized"
          /\ object[a] # NoObject /\ object' = [object EXCEPT ![a] = NoObject]
          /\ IF object[a] \in Impls THEN callbacks' = PopCallback(a)
             ELSE callbacks' = callbacks
      BY <2>1 DEF ApplicationDestroys, Destroy
    <2>3. /\ Once(callbacks') /\ ~Captures(callbacks', a)
          /\ \A b : Captures(callbacks', b) => Captures(callbacks, b)
      <3>1. CASE object[a] \in Impls
        BY <1>1, <2>2, <3>1, Popped DEF TypeOK
      <3>2. CASE object[a] \notin Impls
        <4>1. callbacks = <<>> /\ callbacks' = callbacks
          BY <1>1, <2>2, <3>2 DEF TypeOK, Captured
        <4> QED
          BY <1>1, <4>1 DEF Captures
      <3> QED
        BY <3>1, <3>2
    <2>4. \A b : b # a => object'[b] = object[b]
      BY <1>1, <2>2 DEF TypeOK
    <2> QED
      BY <1>1, <1>2, <2>3, <2>4, ReferenceNext
  <1>6. CASE RunCallback
    <2> DEFINE p == callbacks[Len(callbacks)]
    <2>1. /\ callbacks # <<>>
          /\ callbacks' = SubSeq(callbacks, 1, Len(callbacks) - 1)
          /\ object' = [object EXCEPT ![p] = Empty] \/ object' = object
      BY <1>6 DEF RunCallback
    <2>2. /\ p \in Addresses /\ Once(callbacks')
          /\ \A b : Captures(callbacks', b) => Captures(callbacks, b)
      <3>1. callbacks \in Seq(Addresses)
        BY <1>1 DEF TypeOK
      <3>2. /\ p \in Addresses
            /\ \A b : Captures(callbacks', b) => Captures(callbacks, b)
            /\ Once(callbacks) => Once(callbacks') /\ ~Captures(callbacks', p)
        BY <2>1, <3>1, Ran
      <3> QED
        BY <1>1, <3>2
    <2> HIDE DEF p
    <2>3. \A b \in Addresses : object[b] # NoObject => object'[b] # NoObject
      BY <1>1, <2>1, Constants DEF TypeOK
    <2> QED
      BY <1>1, <1>2, <2>2, <2>3, ReferenceNext
  <1>7. CASE UNCHANGED <<object, callbacks>>
    BY <1>1, <1>2, <1>7, ReferenceNext
  <1> QED
    BY <1>3, <1>4, <1>5, <1>6, <1>7
    DEF Next, ConstructFails, Deregister, Arrive, Leave, Finalize, Finalized, vars
-----------------------------------------------------------------------------
(* The properties of providers *)

(* Types: in particular the callbacks are of addresses, whichever of them   *)
(* pop_finalize_callback removes, and no handler is counted out twice.      *)
THEOREM TypesHold == Spec => []TypeOK
  <1>1. LifecycleInv => TypeOK
    BY DEF LifecycleInv
  <1> QED
    BY <1>1, LifecycleHolds, PTL

(* The move constructor and the destructor of Provider keep self unique:    *)
(* a ProviderImpl in use has one Provider, whatever moves and destructions  *)
(* there were, and one that is not in use has none.                         *)
THEOREM OneProviderEach == Spec => []OneOwner
  <1>1. LifecycleInv => OneOwner
    <2> SUFFICES ASSUME LifecycleInv, NEW i \in Impls
                 PROVE  Cardinality({a \in Addresses : object[a] = i}) =
                           IF impl[i] = "live" THEN 1 ELSE 0
      BY DEF OneOwner
    <2> DEFINE owners == {a \in Addresses : object[a] = i}
    <2>1. Owned
      BY DEF LifecycleInv
    <2>2. CASE impl[i] = "live"
      <3>1. PICK a \in Addresses : object[a] = i
        BY <2>1, <2>2 DEF Owned
      <3>2. owners = {a}
        BY <2>1, <3>1 DEF Owned
      <3> HIDE DEF owners
      <3>3. Cardinality(owners) = 1
        BY <3>2, FS_Singleton
      <3> QED
        BY <2>2, <3>3 DEF owners
    <2>3. CASE impl[i] # "live"
      <3>1. owners = {}
        BY <2>1, <2>3 DEF Owned
      <3> HIDE DEF owners
      <3>2. Cardinality(owners) = 0
        BY <3>1, FS_EmptySet
      <3> QED
        BY <2>3, <3>2 DEF owners
    <2> QED
      BY <2>2, <2>3
  <1> QED
    BY <1>1, LifecycleHolds, PTL

(* margo_finalize runs the callback of every Provider that owns a           *)
(* ProviderImpl, even if a moved-from object's dangled: none outlives the   *)
(* engine that its destructor uses.                                         *)
THEOREM EngineOutlives == Spec => []NothingOutlivesEngine
  <1>1. LifecycleInv => NothingOutlivesEngine
    <2> SUFFICES ASSUME LifecycleInv, engine = "finalized", NEW i \in Impls
                 PROVE  impl[i] \in {"unborn", "gone"}
      BY DEF NothingOutlivesEngine
    <2>1. /\ impl[i] \in ImplStates /\ impl[i] # "novm"
          /\ \A a \in Addresses : object[a] \notin Impls
      BY DEF LifecycleInv, TypeOK, Captured
    <2>2. impl[i] # "live"
      BY <2>1 DEF LifecycleInv, Owned
    <2> QED
      BY <2>1, <2>2 DEF ImplStates
  <1> QED
    BY <1>1, LifecycleHolds, PTL

(* As long as every object that a Provider was moved from lives until the   *)
(* engine is finalized, p->self.reset() runs on a Provider, although the    *)
(* move constructor pops the callback of the wrong object (Provider.cpp:22).*)
(* The hypothesis is needed: the run providers_moved has the counterexample *)
(* without it.                                                              *)
THEOREM CallbacksRefer ==
    ASSUME ~MovedFromDies
    PROVE  Spec => []NoDanglingCallback
  <1>1. Init => ReferenceInv
    BY InitLifecycle DEF Init, ReferenceInv, CapturedOnce, NoDanglingCallback
  <1>2. ReferenceInv /\ [Next]_vars => ReferenceInv'
    BY NextReference
  <1>3. ReferenceInv => NoDanglingCallback
    BY DEF ReferenceInv
  <1> QED
    BY <1>1, <1>2, <1>3, PTL DEF Spec
=============================================================================
