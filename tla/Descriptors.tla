----------------------------- MODULE Descriptors -----------------------------
(***************************************************************************)
(* The two walks over the imports of the proto files.  Before main, the    *)
(* init functions of gen/go/sample/v1/*.pb.go register every file with the *)
(* protobuf runtime, each after the file it imports.  Later,               *)
(* agentMCPDescriptors (internal/api/agentmcp.go:71-91) lists the files    *)
(* behind the AgentQueryService, each after its imports.  Both recurse:    *)
(* the stack below is the stack of their calls.  They never overlap.       *)
(***************************************************************************)
EXTENDS Naturals, Sequences, FiniteSets, SequencesExt

CONSTANTS
    Paths,   \* the proto files
    Root,    \* the file that agentMCPDescriptors starts from
    Graphs   \* the import graphs considered: the imports of each file, in order

\* protoc accepts no import cycle: files can be ranked above their imports.
Acyclic(graph) ==
    \E rank \in [Paths -> 0 .. Cardinality(Paths)] :
        \A f \in Paths : \A g \in ToSet(graph[f]) : rank[g] < rank[f]

ASSUME GraphsAssumption ==
    /\ IsFiniteSet(Paths) /\ Root \in Paths
    /\ \A graph \in Graphs : graph \in [Paths -> Seq(Paths)] /\ Acyclic(graph)

VARIABLES
    imports,     \* the graph
    stack,       \* the calls in progress, the innermost last: a file, and the
                 \* position in its imports that is visited next
    registered,  \* the files registered with the runtime, in order
    seen,        \* `seen' of agentMCPDescriptors
    out          \* `out.File' of agentMCPDescriptors

walks == <<imports, stack, registered, seen, out>>

InitDescriptors ==
    /\ imports \in Graphs
    /\ stack = <<>>
    /\ registered = <<>>
    /\ seen = {}
    /\ out = <<>>

Call(f)  == Append(stack, [file |-> f, next |-> 1])
Caller   == Last(stack).file
Pending  == Last(stack).next <= Len(imports[Caller])
Import   == imports[Caller][Last(stack).next]
Advanced == [stack EXCEPT ![Len(stack)].next = @ + 1]

-----------------------------------------------------------------------------
(* Registration: file_sample_v1_*_proto_init.                              *)

AllRegistered == Paths \subseteq ToSet(registered)

\* The init function of a file: does nothing if the file is registered.  The
\* compiler orders the files of a package; any order is allowed here.
RunInit(f) ==
    /\ stack = <<>>
    /\ f \notin ToSet(registered)
    /\ stack' = Call(f)
    /\ UNCHANGED <<imports, registered, seen, out>>

\* It first runs the init function of each file it imports.
InitImport ==
    /\ stack # <<>> /\ Pending
    /\ stack' = IF Import \in ToSet(registered)
                THEN Advanced
                ELSE Append(Advanced, [file |-> Import, next |-> 1])
    /\ UNCHANGED <<imports, registered, seen, out>>

\* TypeBuilder.Build resolves the file's dependencies and registers it.
Build ==
    /\ stack # <<>> /\ ~Pending
    /\ registered' = Append(registered, Caller)
    /\ stack' = Front(stack)
    /\ UNCHANGED <<imports, seen, out>>

PackageInit == (\E f \in Paths : RunInit(f)) \/ InitImport \/ Build

-----------------------------------------------------------------------------
(* agentMCPDescriptors.                                                    *)

Listed == stack = <<>> /\ Root \in seen

\* add(samplev1.File_sample_v1_agentquery_proto)
AddRoot ==
    /\ stack = <<>> /\ Root \notin seen
    /\ seen' = seen \cup {Root}
    /\ stack' = Call(Root)
    /\ UNCHANGED <<imports, registered, out>>

\* Fault: a file that was seen is entered again.
AddImport_NeverSkips ==
    /\ stack # <<>> /\ Pending
    /\ seen' = seen \cup {Import}
    /\ stack' = Append(Advanced, [file |-> Import, next |-> 1])
    /\ UNCHANGED <<imports, registered, out>>

\* A file that was seen is skipped; another one is marked and entered.
AddImport ==
    /\ stack # <<>> /\ Pending
    /\ seen' = seen \cup {Import}
    /\ stack' = IF Import \in seen
                THEN Advanced
                ELSE Append(Advanced, [file |-> Import, next |-> 1])
    /\ UNCHANGED <<imports, registered, out>>

\* After its imports the file itself is listed.
ListFile ==
    /\ stack # <<>> /\ ~Pending
    /\ out' = Append(out, Caller)
    /\ stack' = Front(stack)
    /\ UNCHANGED <<imports, registered, seen>>

ListDescriptors == AddRoot \/ AddImport \/ ListFile

\* ensure returns: the walk's variables are gone.
Forget ==
    /\ stack' = <<>> /\ seen' = {} /\ out' = <<>>
    /\ UNCHANGED <<imports, registered>>

-----------------------------------------------------------------------------
\* Every file of the list comes after the files it imports.
ImportsPrecede(files) ==
    \A i \in 1 .. Len(files) :
        ToSet(imports[files[i]]) \subseteq {files[j] : j \in 1 .. (i - 1)}

\* The files that Root needs: those in every set that holds Root and, with a
\* file, its imports.
Reachable ==
    {f \in Paths : \A S \in SUBSET Paths :
        Root \in S /\ (\A g \in S : ToSet(imports[g]) \subseteq S) => f \in S}

DescriptorsTypeOK ==
    /\ imports \in Graphs
    /\ stack \in Seq([file : Paths, next : Nat \ {0}])
    /\ registered \in Seq(Paths)
    /\ seen \in SUBSET Paths
    /\ out \in Seq(Paths)

RegisteredAfterImports ==
    ImportsPrecede(registered) /\ IsInjective(registered)

DescriptorsResolve ==
    /\ ImportsPrecede(out) /\ IsInjective(out)
    /\ Listed => ToSet(out) = Reachable

\* Whatever order the package's init functions run in (*.pb.go), a file is
\* registered once and after its imports, so that Build never meets an unknown
\* type.  The list given to grpcmcp.NewServer (agentmcp.go:71-91) has the files
\* the root needs and no others, each once and after its imports: each entry
\* can be resolved against the ones before it.
ImportsComeFirst == RegisteredAfterImports /\ DescriptorsResolve
=============================================================================
