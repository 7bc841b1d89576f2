------------------------------ MODULE MCExecutor ------------------------------
\* Small instances of the Executor: sets of operations of each kind, in one of
\* several workspaces, each with its own operations.  The operations of the
\* others are never called.
EXTENDS Executor

CONSTANTS Reads, Writes, Registrations, Containers, Natives, old, new

CONSTANT Workspaces      \* sets of operations

MCOps == Reads \cup Writes \cup Registrations \cup Containers \cup Natives

MCKind ==
  [o \in MCOps |-> CASE o \in Reads -> "file_read"
                     [] o \in Writes -> "file_write"
                     [] o \in Registrations -> "capability_request"
                     [] o \in Containers -> "container"
                     [] o \in Natives -> "native"]

MCContents == {old, new}
MCData == [o \in MCOps |-> IF o \in Containers THEN old ELSE new]

\* A write whose parent directory it must create expects no file there; the
\* others state no expected hash.
MCExpected == [o \in MCOps |-> IF o \in NewParent THEN Absent ELSE Unchecked]

ASSUME WorkspacesAssumption == Workspaces \subseteq SUBSET Ops

VARIABLE workspace

WorkspaceInit == workspace \in Workspaces /\ Init

WorkspaceNext ==
  /\ Next
  /\ UNCHANGED workspace
  /\ \A o \in Ops \ workspace : journal'[o] = journal[o] /\ answer'[o] = answer[o]

WorkspaceSpec == WorkspaceInit /\ [][WorkspaceNext]_<<vars, workspace>>

===============================================================================
