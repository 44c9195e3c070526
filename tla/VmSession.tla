------------------------------ MODULE VmSession ------------------------------
(***************************************************************************)
(* What the interpreter of one VM keeps from one request to the next: the  *)
(* names that its preamble, its scripts and Backend::install define, the   *)
(* functions behind the installed names, the argument list and the views   *)
(* that scripts keep, and Duktape's value stack.                           *)
(* Requests are atomic: PoesieServer models the mutex that makes them so,  *)
(* and why Python has one interpreter.                                     *)
(***************************************************************************)
EXTENDS Naturals, Sequences

CONSTANTS
    Names,         \* names of functions and objects
    MaxArgs,       \* bound on the number of arguments
    StackReserve,  \* entries of a new Duktape value stack (DUK_API_ENTRY_STACK)
    StackRenewal,  \* entries above its top that compiling a script leaves free
    MaxInstalls,   \* bound on the calls of install
    MaxViews,      \* bound on the views that requests and functions make
    MaxDepth       \* bound on the entries left on the value stack

ASSUME SessionAssumption ==
    /\ {MaxArgs, StackReserve, StackRenewal, MaxInstalls, MaxViews, MaxDepth} \subseteq Nat
    /\ StackRenewal <= StackReserve

VARIABLES
    stage,      \* "absent", "open", "failed" (its constructor threw) or "aborted"
    lang,       \* language of the VM
    config,     \* what its configuration says of the preamble
    globals,    \* what each name means in the interpreter
    m_ffuncs,   \* the holder that JavaScript and Jx9 own for each name
    installs,   \* calls of install so far: name and nargs
    freed,      \* functions that have been destroyed (indices of installs)
    argument,   \* the view in arg, process.argv, sys.argv or ARGV, 0 if none
    views,      \* the buffer of each view made so far
    lost,       \* views whose buffer has been deleted
    depth,      \* entries left on the value stack
    reserve,    \* entries that the value stack is sure to have room for
    failures,   \* JavaScript lookups that failed since the last script
    answer      \* outcome of the last request

interpreterVars == <<globals, m_ffuncs, installs, freed>>
viewVars == <<argument, views, lost>>
stackVars == <<depth, reserve, failures>>
vars == <<stage, lang, config, interpreterVars, viewVars, stackVars, answer>>

Languages == {"lua", "javascript", "jx9", "python", "ruby"}

\* What a name means: nothing, something a script defined, the function of the
\* h-th install, or a script's function that uses the v-th view.  Ruby's undef
\* leaves an entry in Object, where the methods of scripts are.
Undefined == [k |-> "undefined"]
Removed == [k |-> "removed"]
Own == [k |-> "own"]
Foreign(h) == [k |-> "foreign", h |-> h]
Keeper(v) == [k |-> "keeper", v |-> v]

\* preamble_argv may be no array, preamble_file may be missing, preamble may
\* not run; else each defines a name.
Configs == [argv : {"none", "array", "other"}, file : {"none", "missing"} \cup Names,
            code : {"none", "bad"} \cup Names]

\* The names that the preamble defines when it runs.
PreambleNames == {config.file, config.code} \cap Names

Success == [what |-> "success"]
Failure == [what |-> "error"]

Init ==
    /\ stage = "absent"
    /\ lang \in Languages
    /\ config \in Configs
    /\ globals = [n \in Names |-> Undefined]
    /\ m_ffuncs = [n \in Names |-> 0]
    /\ installs = <<>>
    /\ freed = {}
    /\ argument = 0
    /\ views = <<>>
    /\ lost = {}
    /\ depth = 0
    /\ reserve = StackReserve
    /\ failures = 0
    /\ answer = Success

\* The meaning of n for a request.  A Jx9 script is compiled after the
\* preamble into a VM of its own, which gets the functions of m_ffuncs.
Meaning(n) ==
    IF lang # "jx9" THEN IF globals[n] = Removed THEN Undefined ELSE globals[n]
    ELSE IF config.code = "bad" THEN Undefined
    ELSE IF n \in PreambleNames THEN Own
    ELSE IF m_ffuncs[n] # 0 THEN Foreign(m_ffuncs[n])
    ELSE Undefined

-----------------------------------------------------------------------------
(* The constructor *)

\* Jx9Vm does not read preamble_argv, and does not compile the preamble.
RefusesConfig ==
    \/ config.file = "missing"
    \/ lang # "jx9" /\ (config.argv = "other" \/ config.code = "bad")

\* The names the preamble defines in the new interpreter.
FileOnlyRan == IF lang = "jx9" THEN {} ELSE {config.file} \cap Names

PreambleRan == IF lang = "jx9" THEN {} ELSE PreambleNames

Create ==
    /\ stage = "absent"
    /\ IF RefusesConfig
       THEN stage' = "failed" /\ UNCHANGED globals
       ELSE /\ stage' = "open"
            /\ globals' = [n \in Names |-> IF n \in PreambleRan THEN Own ELSE globals[n]]
    /\ UNCHANGED <<lang, config, m_ffuncs, installs, freed, viewVars, stackVars, answer>>
-----------------------------------------------------------------------------
(* Duktape's value stack: a push beyond the reserve is an error that       *)
(* nobody catches, and duk_fatal aborts the process.                       *)

\* The most entries that each operation has on the stack at once: the globals,
\* process, argv, an argument and its index; a function, its holder and the
\* property's name; a target or function and the name looked up in it.
ExecuteNeeds == 5
InstallNeeds == 3
LookupNeeds == 2

Fits(needs) == lang = "javascript" => depth + needs <= reserve

\* Duktape makes room for its compiler, and the room stays.
ScriptRan ==
    /\ reserve' = IF lang = "javascript" /\ depth + StackRenewal > reserve
                  THEN depth + StackRenewal ELSE reserve
    /\ failures' = 0
    /\ UNCHANGED depth

\* The first operation that needs more than the stack has left: an execute
\* needs the most.
Abort ==
    /\ stage = "open" /\ ~Fits(ExecuteNeeds)
    /\ stage' = "aborted"
    /\ UNCHANGED <<lang, config, interpreterVars, viewVars, stackVars, answer>>
-----------------------------------------------------------------------------
(* Backend::install *)

OwnsHolders == lang \in {"javascript", "jx9"}

\* m_ffuncs.insert does nothing when the name has a holder already: the new
\* holder is destroyed, although JavaScript's global points to it.
ReplaceHolder(n, h) == [m_ffuncs EXCEPT ![n] = h]

InsertHolder(n, h) == IF m_ffuncs[n] # 0 THEN m_ffuncs ELSE [m_ffuncs EXCEPT ![n] = h]

\* Ruby installs into Kernel, and Object, which a script has written n to,
\* comes before Kernel.
HidesInstalls(n) == lang = "ruby" /\ globals[n].k \in {"own", "keeper", "removed"}

BindIfUndefined(n, h) ==
    IF globals[n] # Undefined THEN globals ELSE [globals EXCEPT ![n] = Foreign(h)]

\* The name becomes the function in the interpreter, whatever it was before.
Bind(n, h) == IF HidesInstalls(n) THEN globals ELSE [globals EXCEPT ![n] = Foreign(h)]

\* Functions that n meant and that nothing refers to once it means another:
\* the interpreter destroys the closure it owns.  Ruby's FuncInfo is in a class
\* variable, which only another install replaces.
Dropped(n) ==
    IF lang \in {"lua", "python"} THEN {g \in DOMAIN installs : globals[n] = Foreign(g)}
    ELSE {}

Replaced(n) ==
    IF lang = "ruby" THEN {g \in DOMAIN installs : installs[g].name = n} ELSE Dropped(n)

Install(n, nargs) ==
    LET h == Len(installs) + 1 IN
    /\ stage = "open" /\ h <= MaxInstalls /\ Fits(InstallNeeds)
    /\ installs' = Append(installs, [name |-> n, nargs |-> nargs])
    /\ m_ffuncs' = IF OwnsHolders THEN InsertHolder(n, h) ELSE m_ffuncs
    /\ freed' = freed \cup (IF OwnsHolders /\ m_ffuncs[n] # 0 THEN {h} ELSE Replaced(n))
    /\ globals' = IF lang = "jx9" THEN globals ELSE Bind(n, h)
    /\ answer' = Success
    /\ UNCHANGED <<stage, lang, config, viewVars, stackVars>>
-----------------------------------------------------------------------------
(* Views: what JSON conversion makes of a binary argument.  In the owner's   *)
(* process a view uses the owner's memory; elsewhere it fetches a copy into  *)
(* a buffer of its own, which its destructor deletes (MemoryViewImpl).       *)

Buffers == {"owner", "own"}

\* The view of the request that comes next.
NewView == Len(views) + 1

\* Whether the converter's createdViews, and the view in it, is gone before the
\* script uses it: JSONtoDukValue has a copy of its own.
LostAtOnce(b) == lang = "javascript" /\ b = "own"

\* A request, or a foreign function, makes a view with buffer b.  createdViews
\* is local to it, so the buffer does not outlive it.
MakeView(b) ==
    /\ NewView <= MaxViews
    /\ views' = Append(views, b)
    /\ lost' = IF b = "own" THEN lost \cup {NewView} ELSE lost

\* execute and load replace the argument list, call does not; the VM of a Jx9
\* script takes it along.
ReplaceIfGiven(v) == argument' = IF lang = "jx9" THEN 0 ELSE IF v = 0 THEN argument ELSE v

ReplaceArguments(v) == argument' = IF lang = "jx9" THEN 0 ELSE v

\* A script uses the view v, which it has from there.
Use(v, gone, from) == [what |-> "view", v |-> v, gone |-> gone, from |-> from]
-----------------------------------------------------------------------------
(* Requests *)

\* Does the function of the h-th install run when a script passes k arguments?
\* Duktape adjusts them to nargs, so the count in binding never differs; Ruby's
\* resolver does not count and mruby refuses arguments to functions of none
\* only; the other backends refuse a wrong number.
AcceptsArgs(h, k) ==
    CASE lang = "javascript" -> TRUE
      [] lang = "ruby" -> k = 0 \/ installs[h].nargs > 0
      [] OTHER -> k = installs[h].nargs

\* A script fails.  For Jx9 a name without meaning and a wrong number of
\* arguments are null, but no script compiles after a preamble that does not.
ScriptFails == IF lang = "jx9" /\ config.code # "bad" THEN Success ELSE Failure

\* A script or a client runs the function n with k arguments.
Run(n, k) ==
    LET m == Meaning(n) IN
    CASE m = Own -> Success
      [] m.k = "foreign" /\ m.h \in freed -> [what |-> "freed", h |-> m.h]
      [] m.k = "foreign" /\ m.h \notin freed /\ AcceptsArgs(m.h, k) ->
            [what |-> "ran", h |-> m.h]
      [] m.k = "keeper" -> Use(m.v, m.v \in lost, "name")
      [] OTHER -> ScriptFails

\* execute or load of a script that runs n: a missing name is an exception
\* inside the script.
Execute(n, k) ==
    /\ stage = "open" /\ Fits(ExecuteNeeds)
    /\ answer' = Run(n, k)
    /\ ScriptRan
    /\ ReplaceArguments(0)
    /\ UNCHANGED <<stage, lang, config, interpreterVars, views, lost>>

\* A script gives n a meaning, or takes it away.  It may replace an installed
\* function; what a Jx9 script does to names ends with the script.
Redefine(n, meaning) ==
    /\ IF lang = "jx9" THEN UNCHANGED <<globals, freed>>
       ELSE /\ globals' = [globals EXCEPT ![n] = meaning]
            /\ freed' = freed \cup Dropped(n)
    /\ UNCHANGED <<m_ffuncs, installs>>

\* execute or load of a script that defines n.
Define(n) ==
    /\ stage = "open" /\ Fits(ExecuteNeeds)
    /\ Redefine(n, Own)
    /\ answer' = IF lang = "jx9" THEN ScriptFails ELSE Success
    /\ ScriptRan
    /\ ReplaceArguments(0)
    /\ UNCHANGED <<stage, lang, config, views, lost>>

\* n = nil, del n, delete n, undef n.
Deleted == IF lang = "ruby" THEN Removed ELSE Undefined

\* execute or load of a script that deletes n.
Delete(n) ==
    /\ stage = "open" /\ Fits(ExecuteNeeds)
    /\ Meaning(n) # Undefined
    /\ Redefine(n, Deleted)
    /\ answer' = Success
    /\ ScriptRan
    /\ ReplaceArguments(0)
    /\ UNCHANGED <<stage, lang, config, views, lost>>

\* execute or load, with no view, of a script that uses the argument list.
UseArguments ==
    /\ stage = "open" /\ Fits(ExecuteNeeds)
    /\ ReplaceArguments(0)
    /\ answer' = IF argument' = 0 THEN ScriptFails
                 ELSE Use(argument', argument' \in lost, "arguments")
    /\ ScriptRan
    /\ UNCHANGED <<stage, lang, config, interpreterVars, views, lost>>

\* execute or load, with a view, of a script that uses it, and keeps it in a
\* function n.
Keep(n, b) ==
    /\ stage = "open" /\ Fits(ExecuteNeeds)
    /\ lang = "jx9" => config.code # "bad"
    /\ Redefine(n, Keeper(NewView))
    /\ answer' = Use(NewView, LostAtOnce(b), "arguments")
    /\ ScriptRan
    /\ ReplaceArguments(NewView)
    /\ MakeView(b)
    /\ UNCHANGED <<stage, lang, config>>

\* execute or load of a script that runs the function n with k arguments and
\* uses the view it returns: a Jx9 script gets a text.
UseResult(n, k, b) ==
    /\ stage = "open" /\ Fits(ExecuteNeeds)
    /\ lang # "jx9" /\ Run(n, k).what = "ran"
    /\ answer' = Use(NewView, b = "own", "function")
    /\ ScriptRan
    /\ ReplaceArguments(0)
    /\ MakeView(b)
    /\ UNCHANGED <<stage, lang, config, interpreterVars>>

\* What call leaves on the value stack, for each way it ends: a lookup pushes
\* undefined for what it does not find.
LeftWithoutPop(found) ==
    CASE found = "nothing" -> 1
      [] found = "target" -> 2
      [] found = "function" -> 0

LeftPoppingTwice(found) ==
    CASE found = "nothing" -> 1
      [] found = "target" -> 2 - 2
      [] found = "function" -> 1 - 2

Left(found) ==
    CASE found = "nothing" -> 1            \* [undefined]
      [] found = "target" -> 2 - 1         \* [target undefined], duk_pop
      [] found = "function" -> 1 - 1       \* [result], duk_pop

\* What the lookups of a call change when they find that much.
LookedUp(found) ==
    /\ depth < MaxDepth \/ found = "function"
    /\ depth' = IF lang = "javascript" THEN depth + Left(found) ELSE depth
    /\ failures' = IF lang = "javascript" /\ found # "function" THEN failures + 1
                   ELSE failures
    /\ UNCHANGED reserve

\* k arguments lie above the function, or above a method and its target, which
\* was there twice before.
CallNeeds(m, k) == IF m = Undefined \/ k = 0 THEN LookupNeeds ELSE 1 + k
MethodNeeds(found, k) ==
    IF found # "function" THEN LookupNeeds ELSE IF k = 0 THEN 3 ELSE 2 + k

\* call of the function n with k arguments; a Jx9 call is an execute.
Call(n, k) ==
    /\ stage = "open" /\ lang # "jx9" /\ Fits(CallNeeds(Meaning(n), k))
    /\ answer' = Run(n, k)
    /\ LookedUp(IF Meaning(n) = Undefined THEN "nothing" ELSE "function")
    /\ UNCHANGED <<stage, lang, config, interpreterVars, viewVars>>

\* call of a script's function n that uses the argument list.
CallReader(n) ==
    /\ stage = "open" /\ lang # "jx9" /\ Fits(CallNeeds(Own, 0))
    /\ Meaning(n) = Own
    /\ answer' = IF argument = 0 THEN ScriptFails
                 ELSE Use(argument, argument \in lost, "call")
    /\ LookedUp("function")
    /\ UNCHANGED <<stage, lang, config, interpreterVars, viewVars>>

\* call of a script's function n with a view, which it uses and keeps in a
\* function m.
CallKeeper(n, m, b) ==
    /\ stage = "open" /\ lang # "jx9" /\ Fits(CallNeeds(Own, 1))
    /\ Meaning(n) = Own
    /\ Redefine(m, Keeper(NewView))
    /\ answer' = Use(NewView, LostAtOnce(b), "arguments")
    /\ LookedUp("function")
    /\ MakeView(b)
    /\ UNCHANGED <<stage, lang, config, argument>>

\* call of a script's function n that deletes m.
CallDeleter(n, m) ==
    /\ stage = "open" /\ lang # "jx9" /\ Fits(CallNeeds(Own, 0))
    /\ Meaning(n) = Own /\ Meaning(m) # Undefined
    /\ Redefine(m, Deleted)
    /\ answer' = Success
    /\ LookedUp("function")
    /\ UNCHANGED <<stage, lang, config, viewVars>>

\* call of a method, which the object called target has or not, with k
\* arguments.
CallMethod(target, has, k) ==
    LET found == IF Meaning(target) = Undefined THEN "nothing"
                 ELSE IF has THEN "function" ELSE "target" IN
    /\ stage = "open" /\ lang # "jx9" /\ Fits(MethodNeeds(found, k))
    /\ answer' = IF found = "function" THEN Success ELSE Failure
    /\ LookedUp(found)
    /\ UNCHANGED <<stage, lang, config, interpreterVars, viewVars>>

Next ==
    \/ Create
    \/ \E n \in Names, k \in 0..MaxArgs : Install(n, k) \/ Execute(n, k) \/ Call(n, k)
    \/ \E n \in Names : Define(n) \/ Delete(n) \/ CallReader(n)
    \/ UseArguments
    \/ \E n \in Names, b \in Buffers : Keep(n, b)
    \/ \E n \in Names, k \in 0..MaxArgs, b \in Buffers : UseResult(n, k, b)
    \/ \E n, m \in Names, b \in Buffers : CallKeeper(n, m, b)
    \/ \E n, m \in Names : CallDeleter(n, m)
    \/ \E n \in Names, has \in BOOLEAN, k \in 0..MaxArgs : CallMethod(n, has, k)
    \/ Abort

Spec == Init /\ [][Next]_vars
-----------------------------------------------------------------------------
(* Properties *)

\* The meanings of names that the installs and the views allow.
Meanings == {Undefined, Removed, Own} \cup {Foreign(h) : h \in DOMAIN installs}
                                      \cup {Keeper(v) : v \in DOMAIN views}

\* Types: the holders that JavaScript and Jx9 own are functions that were
\* installed under that name and still exist, and no more is popped than was
\* pushed (JavascriptBackend.cpp: m_ffuncs, duk_pop).
TypeOK ==
    /\ stage \in {"absent", "open", "failed", "aborted"}
    /\ lang \in Languages /\ config \in Configs
    /\ installs \in Seq([name : Names, nargs : 0..MaxArgs])
    /\ views \in Seq(Buffers)
    /\ freed \subseteq DOMAIN installs
    /\ argument \in 0..Len(views) /\ lost \subseteq DOMAIN views
    /\ reserve \in Nat /\ depth \in 0..reserve /\ failures \in Nat
    /\ globals \in [Names -> Meanings]
    /\ m_ffuncs \in [Names -> {0} \cup (DOMAIN installs \ freed)]
    /\ \A n \in Names : m_ffuncs[n] # 0 => installs[m_ffuncs[n]].name = n

\* The installs of the same name, the h-th included.
SameName(h) == {g \in DOMAIN installs : installs[g].name = installs[h].name}

\* An installed function that runs is the last one installed under its name;
\* in Jx9 it is the first (Backend::install, Jx9Backend.cpp:431).
RunsTheInstalled ==
    answer.what = "ran" =>
        \A g \in SameName(answer.h) :
            IF lang = "jx9" THEN answer.h <= g ELSE g <= answer.h

\* A name means a function that has been destroyed exactly when a JavaScript VM
\* installed it after another of the same name (JavascriptBackend.cpp:296).
FreedFunctions ==
    \A n \in Names :
        stage = "open" /\ Meaning(n).k = "foreign" =>
            LET h == Meaning(n).h IN
            h \in freed <=> lang = "javascript" /\ \E g \in SameName(h) : g < h

\* A request of a script that deletes n.
Deletes(n) == Delete(n) \/ \E m \in Names : CallDeleter(m, n)

\* What the preamble defines is defined in every VM that is created, and stays
\* defined until a script deletes it: no install and no other request takes it
\* away.  In Jx9 no script can; but a Jx9 VM is created with a preamble that
\* does not compile, and then knows no name (Jx9Backend.cpp:247).
PreambleKept ==
    [][\A n \in PreambleNames : stage' = "open" /\ Meaning(n)' = Undefined =>
           \/ lang = "jx9" /\ config.code = "bad"
           \/ lang # "jx9" /\ stage = "open" /\ (Meaning(n) = Undefined \/ Deletes(n))]_vars

\* A script that uses the view its own request was given finds its buffer,
\* except in JavaScript; through the argument list of an earlier request, a
\* name, or the result of a foreign function it finds a buffer that is gone,
\* unless the buffer is the owner's.  No Jx9 script ever does
\* (LuaBackend.cpp:195, LuaBackend.cpp:310, JavascriptBackend.cpp:60).
DeadViews ==
    answer.what = "view" =>
        (answer.gone <=>
            /\ views[answer.v] = "own" /\ lang # "jx9"
            /\ lang = "javascript" \/ answer.from # "arguments")

\* The process is aborted only after so many failed lookups in a JavaScript VM,
\* with no script between them, that they leave no room for a request
\* (JavascriptBackend.cpp:211).
AbortsAfterFailures ==
    stage = "aborted" =>
        /\ lang = "javascript"
        /\ failures + ExecuteNeeds > StackRenewal

\* Every request is answered by a Result that says whether it succeeded, the
\* process goes on (Result.hpp:18).
ProcessSurvives == stage # "aborted"
-----------------------------------------------------------------------------
(* Why the properties hold: the parts of the inductive invariant.          *)

\* The holder of a name is that of its first install; only JavaScript and Jx9
\* have holders.
FirstHolds ==
    \A n \in Names :
        IF OwnsHolders /\ m_ffuncs[n] # 0
        THEN \A g \in DOMAIN installs : installs[g].name = n => m_ffuncs[n] <= g
        ELSE /\ m_ffuncs[n] = 0
             /\ OwnsHolders => \A g \in DOMAIN installs : installs[g].name # n

\* A name that means an installed function means its last install, which is
\* alive unless JavaScript had a holder for that name already.
LastBound ==
    \A n \in Names : \A h \in DOMAIN installs : globals[n] = Foreign(h) =>
        /\ installs[h].name = n
        /\ \A g \in DOMAIN installs : installs[g].name = n => g <= h
        /\ h \in freed <=>
              lang = "javascript" /\ \E g \in 1..h - 1 : installs[g].name = n

\* A view is lost if, and only if, its buffer was its own.
OwnLost == \A v \in DOMAIN views : v \in lost <=> views[v] = "own"

\* No name means anything in the interpreter of Jx9.
Jx9Forgets == lang = "jx9" => \A n \in Names : globals[n] = Undefined

\* Each failed lookup costs one entry of the room that the last script renewed.
RoomLeft == lang = "javascript" => depth + StackRenewal <= reserve + failures

SessionInv == /\ TypeOK /\ FirstHolds /\ LastBound /\ OwnLost
              /\ Jx9Forgets /\ RoomLeft
              /\ AbortsAfterFailures /\ RunsTheInstalled /\ DeadViews
=============================================================================
