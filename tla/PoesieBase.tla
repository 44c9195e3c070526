----------------------------- MODULE PoesieBase -----------------------------
(***************************************************************************)
(* What the promised service (VmService) and the program (PoesieServer)    *)
(* talk about: the RPCs a client may issue, the VMs behind the providers   *)
(* and the client buffers that travel by reference as MemoryViews.         *)
(***************************************************************************)
EXTENDS Naturals, Sequences, FiniteSets

CONSTANTS
    Requests,      \* identities of the RPCs in flight (VmHandle calls)
    Providers,     \* providers living in the server process
    Buffers,       \* memory regions the clients expose as MemoryViews
    NoBuffer,      \* "this call carries no MemoryView"
    BackendOf,     \* the vm type in each provider's configuration
    Calls,         \* the calls clients may make (a subset of CallRecords)
    Unfilled       \* content of a freshly allocated, never written buffer

\* The vm types registered with POESIE_REGISTER_BACKEND.
VmTypes == {"lua", "javascript", "jx9", "python", "ruby"}

\* MemoryView::Intent.
Intents == {"IN", "OUT", "INOUT"}

\* The three RPCs of a provider.
Ops == {"execute", "load", "call"}

CallRecords == [provider : Providers, op : Ops,
                buffer : Buffers \cup {NoBuffer}, intent : Intents]

\* The content of a buffer: which scripts' writes it carries.
Contents == SUBSET (Requests \cup {Unfilled})

\* What a provider answers.  value is the part of the interpreter's state
\* the script saw and returned, wrote tells the client that the script
\* modified the view it was given.
Results == [status : {"ok", "error"}, value : Seq(Requests), wrote : BOOLEAN]

ErrorResult == [status |-> "error", value |-> <<>>, wrote |-> FALSE]

ASSUME NoBufferAssumption == NoBuffer \notin Buffers
ASSUME UnfilledAssumption == Unfilled \notin Requests
ASSUME BackendAssumption == BackendOf \in [Providers -> VmTypes \cup {"none"}]
ASSUME CallsAssumption == Calls \subseteq CallRecords
=============================================================================
