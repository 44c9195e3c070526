# A verification development of poesie

poesie (Mochi's embedded scripting service) lets clients run scripts in
interpreters that live in a server process: Lua, JavaScript (Duktape), Jx9,
Python or Ruby (mruby). A client sends `execute`, `load` or `call` to a
provider and gets a future; scripts may access memory of the client through
`MemoryView` arguments, which are fetched from and pushed back to the client by
RDMA. This directory specifies that program in TLA+, model-checks it with TLC
and proves theorems about it with TLAPS.

## 1. Inventory

| Component | State it keeps | Operations | What makes it correct |
|---|---|---|---|
| Client library (`Client`, `VmHandle`, `Future`) | the pending response | `execute`, `load`, `call`, `wait`, `completed` | a request runs at most once; its future delivers the outcome of that run |
| Provider (`Provider`, `ProviderImpl`) | RPC registrations, `m_backend`, finalize callbacks | constructor, `createVm`, three handlers, move, destruction | a handler never uses a VM that is not there; every request is answered; no callback outlives its object |
| VM backends (`LuaVm`, `JavascriptVm`, `Jx9Vm`, `PythonVm`, `RubyVm`) | the interpreter with its names and, in JavaScript, Duktape's value stack; `m_mtx` (`s_mtx`, static, in Python); `m_ffuncs` in JavaScript and Jx9; `m_global` and `m_preamble` in Jx9 | constructor with preambles, `execute`, `load`, `call`, `install`, foreign function bindings | one script at a time per interpreter; no mutex is left locked; failures have the effects they should; a name means what was defined or installed last |
| `MemoryView` | shared implementation: window, local data, local bulk | constructors, `toJson`, `data`, copy, move, destruction | a view stays inside its bulk; what was written arrives, once, and nothing else does |
| `Result`, JSON serialization | none | `serialize`, `check`, `saveJSON`, `loadJSON` | the client decodes what the server encoded |
| Value conversions | none | JSON to and from each language | round trips keep values, or lose what they are known to lose |
| Lua memory library (`lmemlib.c`, `luamem.c`), Ruby's class `MemoryView`, Jx9's `memory_view_*` | a buffer, owned or lent | create, resize, get, set, find, fill, compare, concat, pack, unpack; size, text, one byte | only the bytes that the positions denote are read or written; searches find what is there; pack and unpack are inverses |
| Bedrock module | a `Provider` | construction | none of its own |
| Duktape, Jx9 (vendored), Lua, CPython, mruby, thallium, Mercury, Argobots | | | external |

How they interact: `VmHandle` sends an RPC; thallium runs the handler of
`ProviderImpl` in a user-level thread; the handler calls the backend, which locks
the VM, converts the JSON arguments (constructing `MemoryView`s, which pull the
client's bytes), runs the script, lets the views die (which pushes bytes back),
and unlocks; the destructor of `auto_respond` sends the result. Every bulk
transfer, lock and foreign function is a point where another handler may run.

The hard behaviours: the interleaving of handlers at those points; the order of
four destructors at the end of a handler (views, lock, arguments, response), which is
not the same in every backend; exceptions, which no backend catches in general;
requests that arrive while a provider is being built; views that share buffers.
`PROJECT.json` lists the hazards one by one, at the line where each bites.

## 2. Modules

| Module | What it is |
|---|---|
| `PoesieBase` | constants and data shared by the next two: requests, providers, calls, buffers, results |
| `VmService` | abstract specification: a provider gets its VM; each request to it is served in one indivisible step, then answered |
| `PoesieServer` | the server: constructors, handlers, mutexes, views, replies, faults; properties; the refinement mapping to `VmService` |
| `MCPoesieServer` | instances of `PoesieServer` for TLC |
| `PoesieServerProofs` | types, mutual exclusion, release of the mutexes |
| `PoesieDataProofs` | faithful answers, quiet buffers |
| `PoesieBufferProofs` | what failures leave in Jx9's globals, what reaches the buffers |
| `PoesieServiceProofs` | the refinement: `PoesieServer` implements `VmService` |
| `MemoryView` | the class in detail, byte by byte: windows, default arguments, shared implementations, write-back |
| `MCMemoryView` | instances of `MemoryView` |
| `MemoryViewProofs` | types, windows inside the bulk, who pushes, which bytes arrive and which stay |
| `ProviderLifecycle` | provider objects, what they own, the finalize callbacks they leave, finalization |
| `ProviderLifecycleProofs` | owners, callbacks and finalization, for every number of them |
| `ValueExchange` | a value on its way from the client to a script and back: archive, conversions, `IsMemoryView` |
| `MCValueExchange` | the values that are sent |
| `VmSession` | what one interpreter keeps between requests: preambles, installed functions, argument lists and views, the value stack |
| `MCVmSession` | its symmetry |
| `VmSessionProofs` | its six properties, for every bound |
| `ScriptMemory` | how scripts read and write the bytes of a view: the Lua memory library, and the accessors of Ruby and Jx9 |
| `MCScriptMemory` | the positions, strings and formats that scripts pass |
| `ScriptMemoryProofs` | positions and slices, types, reads, writes, fills, searches, packs that run out of room, and pack and unpack as inverses, for every length |

### PoesieServer

State against code: `stage` is how far `ProviderImpl`'s constructor has got (RPCs
defined by the member initializers, then the VM); `m_backend` says whether the
pointer is set; `m_mtx` is the owner of each mutex (one per VM, and `s_mtx` for all
Python VMs); `vm` is the state of each interpreter, abstracted to the sequence of
scripts that ran in it; `memory` is what the clients' buffers contain, as the set
of scripts whose writes they carry; `pc`, `seen`, `view`, `result` are the locals
of a handler; `response` is what the future holds; `alive` is false once
the process has been terminated.

A request goes through `Send`, `EnterBackend`, `Acquire`, `Convert`, `BeginScript`,
`EndScript`, `DestroyViews`, `Unlock`, `Respond`; the other actions are the ways out:
`Unreachable`, `NoVmAttached`, `FileMissing`, `RejectEarly`, `LookupFails`, and the
faults. The five backends share this skeleton and differ in seven predicates
(section "Backend disciplines"), each read off the code:

| Predicate | Lua | JavaScript | Jx9 | Python | Ruby |
|---|---|---|---|---|---|
| `OpensFileUnlocked` (load) | no | yes | yes | yes | yes |
| `Raii` | yes | yes | yes | no | yes |
| `RejectsEarly` | no | call | yes | call | no |
| `ViewDiesInConversion` | no | yes | no | no | no |
| `FetchesEagerly` | yes | yes | no | yes | yes |
| `ViewOutlivesLock` | no | no | no | call | no |
| `OverrunsArguments` | no | no | call | no | no |

A script is abstracted to its effects: it reads the globals when it starts
(`BeginScript`), it adds itself to the interpreter when it ends, it may write its view,
and it succeeds or fails. Reading and ending are two steps, so that a
missing lock shows. A call carries at most one view.

A script may call a foreign function that sends a request and waits for its answer: `Within[r]` is the
request whose script sends `r`, or `Client`. `Send` then needs that script to be running, and `Blocked` keeps the
script from ending before the answer is there. The binding (`LuaVm::install` and its four like) runs with the VM's mutex
held, so the mutex stays taken all the while.

Three facts about the libraries are constants. `UncaughtTerminates`: does an exception that
leaves a handler end the process, or is it swallowed after unwinding? That is up
to thallium, which is not part of the repository: both answers are kept, and each
run and theorem that needs one says which. `MayThrow`: may fetches and
conversions throw? `PushMayThrow`: may write-backs, whose destructors are noexcept? pybind11's rule of one interpreter per process is
`InterpreterAvailable`.

Refinement: `ServiceSafety` says that `PoesieServer` implements `VmService` under the mapping
`openBar`, `phaseBar`, `resultBar`, `memoryBar`. A provider is open when its `m_backend` is set, and a request that ran before would not be
a step of the service. A request is served when its script ends; a buffer already has
the content that a view waiting to be pushed will give it. The abstract service is
not indulgent: the value of a success is the exact state of the interpreter, and
the effect on a buffer takes place in the same step as the effect on the interpreter.

### MemoryView

One buffer of `BulkSize` bytes, `Handles` (the C++ objects) sharing `Impls` (the
`shared_ptr` targets). A byte is the identity of the view through which it was last
written, so that properties can tell writes apart. `site` is where the process is:
remote, the owner's with a contiguous buffer (then `data()` gives a pointer into it), or
the owner's with a buffer in two pieces that meet at `Cut`: there `HG_Bulk_access` gives a pointer for a window inside one
piece, and the view has a copy of a window across both (`InPlace`). A view in place is pushed, too, from the start of its bulk (`Sources`), which
is a copy of the window onto itself only at offset 0. `Accepts` computes in
`size_t` (modulo `SizeMod`). A window outside the bulk can only be built by a
sum that wraps; its `data()` is not modelled, because Mercury decides what happens.

### ProviderLifecycle

`object` is what lives at each address (a `Provider`, by its `self`); `impl` is how far each
`ProviderImpl` has got (while it is `novm` its destructor has dropped `m_backend` and not
yet its RPCs); `callbacks` is the engine's list, each entry the address that the lambda
captured as `p`; `inflight` counts the handlers that use each implementation. `Construct`, `Move`,
`Destroy` and `RunCallback` are `Provider.cpp` line by line; `Deregister` is the second half of
`~ProviderImpl`. External are `PopCallback` (margo forgets the last callback of that owner, if any), the
order of the callbacks (last first) and that margo waits for handlers before it runs them.
The application may destroy a provider at any time, also one that serves: nothing in `~ProviderImpl` waits for handlers, and
between the death of `m_backend` and the deregistration requests may still arrive (`Arrive` when `impl` is `live` or `novm`).
The constant `MovedFromDies` says whether the
application destroys a moved-from object before the engine is finalized.

### ValueExchange

A value is a record with a tag (`t`), the archive a sequence of items (a tag, a size, a name, a number), as
`saveJSON` writes them; `Load` gives back the value and what is left. `Into` is what the
five `JSONTo...` functions do and `Back` what the five opposite ones do; where a language
differs from JSON it has a trait of its own:

| Trait | Where |
|---|---|
| integers are narrowed to an `int` (`Narrow`) | Lua, Jx9, Ruby |
| empty objects and objects with an unnamed member become arrays (`BecomesArray`) | Jx9 |
| all numbers are doubles (`ToDouble`), buffers come back as null | JavaScript |
| nulls vanish from tables, an empty table is an array (`Remaining`, `Table`) | Lua |
| bytes come back as base64 text (`PythonText`) | Python |
| text is cut at a NUL on the way in (`CutsText`) | JavaScript, Jx9, Ruby |
| a text with a NUL on the way out ends the process (`TextBack`) | Ruby |
| a view cannot be returned (`ViewBack`) | all, each in its way |

Widths are scaled down: `int` has 3 bits, `int64_t` 5 and doubles are exact up to 16, so that every boundary is
crossed by small numbers; `ByteMax` stands for 255 and `ViewCode` for the subtype of views.
A binary without subtype (`NoSubtype`) is archived with the greatest one, which `loadJSON` then gives it. Keys that look
like integers, which Jx9 takes for positions, are not among the names. The operators over values are
RECURSIVE, so nothing is proved about them.

A behaviour is one exchange: `Send`, `Restore`, `Convert`, `Return`, `Deliver`, with a script that
returns its argument.

### VmSession

One VM, of any language: VMs share nothing (there is one Python interpreter per process). `globals` is what
each name means: nothing, something a script defined, or the h-th installed function (`Removed` is what Ruby's `undef` leaves);
`m_ffuncs` are the holders that JavaScript and Jx9 own; `freed` the functions that are gone.
`Meaning` is where the languages differ: a Jx9 request compiles preamble and
script into a fresh VM and adds the functions of `m_ffuncs`. `Create` is the constructor with its
preambles, `Install` is `Backend::install`, `Run` a foreign function's binding with its check of the
arguments, `Call` and `CallMethod` the lookups of `call`. A script may define or delete any name, also an installed one (`Define`, `Keep`,
`Delete`, `CallKeeper`, `CallDeleter`); in Jx9 that ends with the script. In Ruby what a script defines is a method of Object and
an installed function one of Kernel, which comes later: from then on installs of that name do not take effect (`HidesInstalls`).

`depth` is what failed lookups leave on Duktape's value stack and `reserve` how many
entries the stack is sure to have room for: the API does not extend it before a push, compiling a script
does, to `StackRenewal` above its top. Every operation needs some entries (`ExecuteNeeds`, `CallNeeds`, ...);
when they do not fit, Duktape raises an error outside any protected call and aborts.

A view is an index of `views`, which says whose buffer it uses: the owner's (in the owner's process, contiguous) or
its own. `createdViews` is local to each handler and to each binding of a foreign function, so an own buffer is `lost` when
that ends, and in JavaScript, where the converter has a copy of `createdViews`, before the script starts (`LostAtOnce`).
`argument` is what `arg`, `process.argv`, `sys.argv` or `ARGV` hold: `execute` and `load` replace it, `call` does not, and Jx9
puts it into the VM of one request. A script may keep a view in a function (`Keep`, `CallKeeper`), read the argument list
(`UseArguments`, `CallReader`), or get a view from a foreign function (`UseResult`).

### ScriptMemory

One memory (`kind`, `bytes`) and one operation at a time, whose arguments, result and initial content stay in
`answer` until `Return`. `kind` tells Lua's userdata ("fixed"), its references with `luamem_free` ("resizable"), all other references (the
views that `JSONToLuaObject` lends, and closed ones), and the views of Ruby and Jx9 apart. `PosRelat`,
`EndPos`, `LMemFind`, `MemFill`, `CodeToChar`, `ToAlign`, `Digits`, `FromDigits` are the C functions of
those names, over sequences instead of pointers; `Packed` and `Unpacked` are the loops of `mem_pack` and `mem_unpack`. A format is a sequence
of options that `getoption` has read already; the size of a `T`, `j` or `s` is a number of bytes like any other.

Widths are scaled down: a byte has `Base` values, a `lua_Integer` and a `size_t` have `SzInt` bytes. The properties speak
of positions without clipping (`Window`, `Slice`, `First`), so that they do not repeat the code. A memory that is resized with itself as
filler reads what `realloc` may have freed: any bytes.

## 3. Runs

| Run | Question | Verdict |
|---|---|---|
| `server` | three requests to Lua and Jx9 (eager and lazy fetches, an interpreter per request), JavaScript and Ruby (clients in the server's process, as in the tests, and remote ones), or two Python providers (one static mutex, views that outlive it): is the service atomic, faithful, and are buffers written only when they should? | holds, when clients do not share the buffer lent to a Python `call` |
| `server_live` | requests inside requests, exceptions of Lua and Jx9 handlers that the runtime swallows: does every handler give back its mutex, is every request answered? | holds, if nested requests reach for interpreters in one order |
| `memory_views` | which bytes reach the owner, and when | holds |
| `javascript_remote_view` | does a JavaScript function's write reach a remote buffer? | violated |
| `jx9_call` | does the process survive a `call` to a Jx9 provider? | violated |
| `offset_view` | do the writes of a view with an offset arrive, in the owner's process? | violated |
| `providers` | moves, failures, destructions, also of providers in use: do callbacks refer to objects, has each implementation one owner, does finalization end? | holds, if moved-from objects live until finalization |
| `providers_moved` | the same callbacks, when moved-from objects die | violated |
| `values` | does what was sent arrive, and come back, in each language? | holds, with the losses that the properties name |
| `session` | does a name mean what was defined or installed last, is a destroyed function or a deleted buffer reachable, do deletions last, do failed lookups add up? | holds, with the exceptions that the properties name |
| `script_memory` | which bytes does each operation of a script read and write, are searches exact, does unpack undo pack, can a pack that found no room go on? | holds, with the exceptions that the properties name |
| `javascript_stack` | does the process survive misspelled calls? | violated: not the 60-odd ones that fit on Duktape's stack |

The violated ones are the findings of `PROJECT.json`, with the line of documentation or
test that the code disagrees with. Other disagreements are in the models, without a run of their own:
- a view without a size has the size of its whole bulk (MemoryView.cpp:35), so an offset above 0 throws, while
  MemoryView.hpp:56 documents the size of the bulk minus the offset (`Construct`, `Accepts`);
- Ruby installs a function with `MRB_ARGS_REQ(nargs)`, which mruby does not enforce for functions that take arguments, and its resolver
  does not count them (RubyBackend.cpp:270), while Backend.hpp:134 speaks of the number of arguments (`AcceptsArgs`);
- a second `install` of a name succeeds but does not take effect in Jx9 (Jx9Backend.cpp:431), and in JavaScript leaves the name with a
  destroyed function (JavascriptBackend.cpp:296); `RunsTheInstalled` and `FreedFunctions` say exactly when;
- Ruby's `install` defines a method of Kernel, which one of Object with the same name hides (RubyBackend.cpp:307; `HidesInstalls`);
- a provider may be destroyed while its handlers run, and its VM before its RPCs are deregistered (ProviderImpl.hpp:89): `Arrive` and
  `ApplicationDestroys` allow both, and what a handler then does is undefined.

Properties of the server: `MutualExclusion`, `LockReleased`, `SuccessIsFaithful` (a
success is the outcome of that script, on the state left by the ones before it and seen by the ones after it),
`FailedJx9LeavesGlobal`, `WriteBackVisible` (the effects on the buffers are there
when the future is ready), `NoUnfilledBytes` (uninitialized memory does not reach a
client), `AnsweredBuffersQuiet` (an action property: the server touches a buffer only for a
request that is still pending), `EveryRequestAnswered`, `ServiceSafety`; `ServerSurvives` is a property of `jx9_call` only. `EveryRequestAnswered`
assumes `NestingOrdered`: there is an order of the interpreters such that a script only sends requests to later ones. Without it TLC
finds the script that waits for a request to its own interpreter, and the two that wait for each other's.
Of views: `WindowsFit`, `WritesArrive`, `UnwrittenBytesKept`, `OnlyDyingViewsPush`; `OffsetViewsArrive` is violated.
Of providers: `NoDanglingCallback`, `OneOwner`, `NothingOutlivesEngine` (a `Provider` that is destroyed after its
engine is empty, and does not touch it), `FinalizationEnds`.
Of values: `ArchiveFaithful` (the backend gets the arguments the client sent, nothing shifted, except that binaries without subtype have one), `EchoExact` (which values
come back as they were sent), `EchoSettles` (a value that came back comes back unchanged the next time), `DumpKeepsViews`
(a view is recognized after its JSON was dumped as text, and nothing else is).
Of sessions: `RunsTheInstalled`, `FreedFunctions` (an equivalence: in JavaScript, and only after a second `install` of a name, the
name means a destroyed function), `PreambleKept` (an action property: a name of the preamble is lost only to a script that deletes it, and never in
Jx9), `DeadViews` (an equivalence, too: which views that a script can reach have
lost their buffer), `AbortsAfterFailures`. Four of them name exceptions
which are how the code behaves today: Jx9 keeps the first function, a JavaScript name that is installed twice means a destroyed one, Jx9 accepts a preamble that
does not compile, and views that arrive by an old argument list, a kept name or a foreign function (in JavaScript, any) are dead
unless their buffer is the owner's.
Of memories: `WritesDenoted`, `ReadsDenoted`, `FillRepeats`, `SearchesExact`, `PackedUnpacks`, `PackResumes`. Their exceptions are the code's:
`set` drops the codes behind the end and keeps those before a bad one; Jx9 reads upper bytes as negative numbers; a memory
that fills itself reads what it has just written, if a chunk other than the last overwrites where the source starts (the exact
condition, which the first attempt to prove `FillRepeats` turned up; the least example has five bytes); `find` cuts a needle that is longer than its window; a NULL memory has no room
for options without bytes; a string whose length was packed before the room ran out cannot be resumed.

Bounds. Three requests are enough for a running script, a waiter and a
latecomer on one VM, and for a provider's third request to find the leftovers of two; `server_live` uses three, without symmetry:
one that is sent by another's script, and one in between.
Six providers in three families, of which one is up in a behaviour: two that share nothing but the process, two whose clients
live in the server and elsewhere, two that share a mutex (`FamilySpec`). Three buffers, two remote and one in the server's process. The calls of an instance mix operations and intents on purpose: the
INOUT calls of a provider meet on one buffer. Views: two implementations (interference needs
two), three handles (two share, one does not), three bytes (a window with a byte before and a byte
after, windows that overlap, and two pieces of which one has two bytes), and a `SizeMod` small enough for sums to wrap.
Providers: four addresses for three implementations, so that one can be moved twice while two others hold a
callback each, and two handlers in flight. Values: two arguments, containers inside containers, and every number on
either side of a boundary. Sessions: two names, two installs (of one name or of both), two views, and a
stack where one failed lookup is harmless and two are not, before and after a script renews the reserve; `javascript_stack` has
Duktape's 64 entries, and 48 as the least that its compiler leaves free. Memories: every content of at most four bytes with two values, six
positions on either side of both ends, integers of one to three bytes around a `SzInt` of two, and 15 formats that mix byte orders,
alignments, texts and paddings. The properties hold for five bytes, too; beyond that all six are theorems.
Deadlock is checked for the server (`Finished` is its only legitimate end) and for memories, not for `server_live`, where scripts that
wait for each other are a deadlock that its properties exclude by `NestingOrdered`, and
not for views and providers, where a process may just have run out of objects to create, nor for exchanges and
sessions, which end.

Conditions in the properties, and why. `WriteBackVisible` is claimed for a buffer whose writers
use one mutex and read before they write, and not for one lent to several
VMs, to overlapping OUT calls, or to a Python `call` together with another request: clients
that do that get the last write-back. `server` assumes the last condition from the start (`PrivateCallViews`),
because refinement has no place for it; on its calls, this implies `TakeTurns`, which the theorem assumes. `NoUnfilledBytes` is about buffers nobody passed as OUT:
an OUT buffer that a script does not fill receives uninitialized bytes by design.

Fairness. `Fairness` is weak fairness of each handler: Argobots
runs every runnable thread, and mutexes wake their waiters. Scripts are assumed to end (`EndScript` is a
handler step). Clients and constructors are under no obligation. Weak fairness of
a handler is enough for `Acquire` here, because with finitely many requests
a mutex is eventually left alone.
Finalization is fair to handlers, destructors and callbacks, which margo runs to their end.

## 4. Proofs

All theorems hold for every value of the constants, within the named `ASSUME`s of `PoesieBase`, `PoesieServer`,
`MemoryView`, `ProviderLifecycle`, `VmSession` and `ScriptMemory`; what a theorem assumes besides is in its statement. The
inductive invariants are definitions of the modules they are about (sections "Why the properties hold", "The discipline of the
mutexes", "The life of a view"), where TLC checked them on the instances of the runs before they were proved; a theorem module says how
they fit together. Proofs go by action. `PoesieBufferProofs` first sorts the actions of the server by what they do to data
(`NoData`, `EarlyMove`, `Unwinds` each stand for several), so that later proofs treat kinds of steps.

### Mutexes and answers (`PoesieServerProofs`, `PoesieDataProofs`)

* `TypeCorrect`: `TypeOK` is inductive.
* `Exclusion`: mutual exclusion is not inductive; `HolderInv` (whoever is between lock and
  unlock owns the mutex of its VM) is, together with `TypeOK`, and implies it. It holds also when exceptions
  are swallowed: a mutex that is forgotten excludes more, not less.
* `NoLockLeak`: `OwnerInv`, the converse (whoever owns a mutex is between lock and
  unlock of that VM), needs `NobodyForgets`, which holds if uncaught exceptions end
  the process or no VM is a Python VM. `AnsweredInv` places an answered handler at its end.
  The hypothesis `NoForgottenMutex` is necessary: with Python and exceptions that are swallowed, TLC finds the mutex lost.
* `FaithfulAnswers`: `SeenInv` (what a running script read is still the state of
  its interpreter) rests on mutual exclusion; `OutcomeInv` says the same of results that are on their way. The lemmas
  `OutcomeMonotone` and `OutcomeOfLast` say that history only grows at its end. If exceptions were
  swallowed, `auto_respond` would send a default success, so the theorem assumes they are not.
* `BuffersQuiet`: from `AnsweredInv` and `AliasInv` (only local buffers are accessed in place).

### Buffers and failures (`PoesieBufferProofs`)

* `FailuresLeaveGlobal`: a response does not say whether its script failed when `auto_respond` sent a default one, so
  `ReplyInv` ties responses to results; `TraceInv` then says that whatever a Jx9 interpreter or a script
  remembers was a success. No hypothesis on exceptions is needed.
* `NothingUnfilledReturns`: `UnfilledInv` speaks of copies as well as of buffers, because a push makes one the other.
* `WritesReturn`: `VisibleInv` says where a write is while it is on its way: in the copy, then in the buffer (`Written`). That a
  later push keeps it needs `CopyCurrent` (a copy that is read and written back misses nothing that the buffer got), which holds
  because handlers with such copies exclude each other (`ViewPlace`, `HolderInv`). `JavascriptWritesLocal` excludes what the run
  `javascript_remote_view` finds: JavaScript drops the view of a remote buffer before the script runs.

### The service (`PoesieServiceProofs`)

`ServerImplementsService`: initial states map to initial states, and a step maps to a step of `VmService` or a stutter under
`openBar`, `phaseBar`, `resultBar`, `memoryBar`. `EndScript` serves the request; a failure on any earlier path serves a
failure; `CreateVm` opens the provider, and `ReachedInv` (a handler that has got to the lock found a VM) lets `EndScript` be a step of `Serve`; the write-back in `DestroyViews` is a stutter, because `memoryBar` already shows the copy (`DestroyMaps`). Two facts
carry the proof: at most one handler has a view that may be pushed into a buffer (`OneWriter`), so that the `CHOOSE` of
`memoryBar` is that handler's; and until its script ends, such a view holds what the buffer does, or the bytes of a
new allocation (`CopyFresh`), so that the abstract service, which takes the buffer at that moment, sees the same.
The hypotheses are those of `WritesReturn`; `TakeTurns`, the discipline that clients need anyway; and
`LocalWritable`: a script can modify a local IN buffer in place, which the abstract service does not allow. The instance of
the run `server` satisfies all of them. The values of `phaseBar` and `memoryBar` in the next state are obtained by priming
whole equations in temporal steps (`BarInv`, `PhaseInv`).

### Views (`MemoryViewProofs`)

* `TypesHold`, `WindowsStayInside`: by the lemma `AcceptedFits` on addition modulo `SizeMod`.
* `PushedByTheLast`: an action property, by kinds of steps.
* `NothingWrittenLost`: `WritesHeld` says the written bytes are in the local buffer before the push and in the owner's after it,
  `BornInv` that none was written before `data()` or outside the window. A view that has become a rival
  stays one, also when it is dead, so `Rivals(i) = {}` speaks of the past, too.
* `NothingElsePushed`: `BytesInv` gives each byte that the owner or a copy contains a reason to be there (`Legitimate`).

### Providers (`ProviderLifecycleProofs`)

* `OneProviderEach`, `EngineOutlives` follow from `LifecycleInv`: each live implementation has one object
  (`Owned`), and each object that owns one has a callback (`Captured`), even though the move constructor pops the wrong one.
  Which callback a pop removes is the greatest index of that owner, and that there is one is the lemma `Greatest`:
  induction theorems cannot be instantiated, so it orders the indices by the sets above them and takes a minimal set.
* `CallbacksRefer`: `CapturedOnce` (no object has two callbacks) makes popping one enough. It fails if moved-from objects die
  early, which is the finding of `providers_moved`.

### Sessions (`VmSessionProofs`)

`SessionInv` is one invariant for all theorems: `FirstHolds` (whose holder `m_ffuncs` keeps) and `LastBound` (a name that
means an installed function means its last install, freed or not) give `LastInstalledRuns` and `OnlyReinstalledFreed`;
`OwnLost` gives `GoneBuffers`; `PreambleStays`, an action property, goes by action (`NameStep`: what a step may do to a name of the
preamble) and needs of the invariant only the types; `RoomLeft` is the arithmetic of
`OnlyLookupsAbort`: each failed lookup costs one entry, and each script renews the room.

### Memories (`ScriptMemoryProofs`)

* `SliceIsWindow` and `SlicesDenoted`: clipping a start below and an end above, as `posrelatI` and `getendpos` do, leaves exactly
  the positions that they denote, none of them outside the memory, and the bytes taken are theirs. They hold for every length and
  every integer.
* `Typed`, `ReadsWhatIsDenoted`, `WritesOnlyDenoted`, `FillsRepeat`, `SearchesAreExact`: a step of an operation makes each property
  true of its own answer, so that only the types (`TypeOK`: a memory holds bytes) have to be carried along. The work is in the C
  loops, which are recursive functions. Induction theorems cannot be instantiated, but sets can: `Induction`
  takes the set of numbers for which something holds, and rests on `Least` (every set of numbers has a least one). `Recursion` shows
  that a function defined by recursion exists, without which nothing follows from its definition. `FillRuns` and `PackRuns`
  apply it to `memfill` and to the loop of `mem_pack`, and then each turn is looked at by itself: `TurnFills` (a `memmove` stays
  inside the window), `TurnRepeats` (it fills one chunk more, with what the source held at first), `OptionStays` (an option writes
  behind the position where it starts). `ScanExists` and `ScanFinds` do the same for the searches of `lmemfind` and `mem_diff`, from the end
  down. `SelfAssumption` (a script can tell a memory from a string), `FaultAssumption` (the error that unpack raises for an integer
  too large is no integer) and `FormatsAssumption` (a format is a sequence of options) are all that is assumed besides widths and inputs.
* `PacksResume` compares three runs of `mem_pack`'s loop: the one that ran out of room, the one that would have had room, and the
  one that takes over. `LongerRuns`: in a longer memory, a run that has not failed yet writes the same bytes, so the run with room
  agrees with the failed one up to the option that failed (`FirstFailure`). `OptionFails`: that option has left nothing, or
  its alignment, or a part of a string, and it is the only one that can (`OptionAligns`: the alignment that is behind it
  need not be skipped again; a part of a string is the property's exception). `RestRuns`: the rest of the format, with the rest of the
  arguments, from the byte reached, is the rest of the run with room, shifted by the arguments used (`TurnShifts`, `OptionShifts`).
  `LongerStays` is the converse of the first: a run with room would not have failed in a memory that holds all it wrote, so a
  failure is for want of room. None of this needs to know what the bytes are, so widths stay out of it; `Power` is a recursive function
  because the provers have no exponentiation.
* `PacksUnpack` is about the bytes. `Holds` relates what both loops do: from byte `i` to byte `to` lies what `mem_pack` writes for an
  option and an argument, alignment and padding included. One option that packs leaves what it holds (`PackHolds`), and packing what is held
  changes nothing (`HoldsPack`); one that unpacks has found what is held (`UnpackHolds`), and what is held is what it finds
  (`HoldsUnpack`). The loops follow by induction over the format: `Follows` says that the unpack of a complete pack is, option by option, where
  the pack was and has its arguments; `Mirrors` the same of the pack of what unpack returned.
  Integers are the hard part, as their width has three cases: below a `lua_Integer`, equal, and above, where the bytes beyond
  must repeat the sign. `NumberHasDigits` and `DigitsMakeNumber` say that `Digits` and `NumberOf` are inverses of each other
  (division and remainder by `Base`, digit by digit), `IntegerReturns` and `DigitsReturn` carry that to signed and extended integers,
  `LengthReturns` to the length of a string. A string's length is a `size_t`, and `Packable` says so; a char or zstr option
  writes no length and needs no such bound.

### Only model-checked

Liveness (`EveryRequestAnswered`, `FinalizationEnds`), which the provers do not reach. `ValueExchange`: its
operators over values are RECURSIVE, because values nest. Every other safety property of a passing run is a theorem.

## 5. Not modelled

What scripts compute; the layout of messages; logging; configuration parsing other than "there is a
vm, or not" and the preambles; several views in one call; timeouts (the client API has none).
Of the memory library: floating-point options of pack and unpack, a memory that is packed into itself, failed allocations, and the
`luaL_Buffer` half of `luamem.c`, which no code of poesie calls. Of scripts: the names that the libraries define in an interpreter, and the
reference counts of Python objects that die after the unlock. `BedrockModule` hands its arguments to a `Provider`, and adds no state.

Duktape (`duktape.c`, `duktape.h`, `duk_config.h`) and Jx9 (`jx9.c`, `jx9.h`) are vendored third-party interpreters: 150 of the 158 thousand lines
under `src/` in the languages of the implementation. What poesie relies on of them (a value stack with a reserve, a VM for each compiled script, a jx9 call
that sees the functions of its VM) is modelled as external definitions; their insides are not. Of poesie's own 6000
lines the definitions translate a little less than half; the rest are class declarations, wrappers, parsing and error texts. Lua, CPython,
mruby, thallium, Mercury and Argobots are not part of the repository.

## 6. Plan

Done: the server core with its abstract service and nested requests, views, the lifecycle of providers, values, sessions with their
views, the memory library; theorems for every safety property of the server, of views, of providers, of sessions and of the memory
library, and the refinement. Left: of `ValueExchange`, what can be said of its conversions without recursion.
