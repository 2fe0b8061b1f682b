---------------------------- MODULE MasterIndices ----------------------------
(***************************************************************************)
(* The indices of one master: MasterController::create_index(),            *)
(* remove_index() and init() (src/vsfs/masterd/master_controller.cpp) over *)
(* its IndexNamespace and its PartitionManager, called by the threads of   *)
(* the thrift server.  "TODO: ... share a single mutex to avoid            *)
(* inconsistency issues between them": each call into a part is a step of  *)
(* its own.                                                                *)
(*                                                                         *)
(* The master's Namespace appears as the set of index directories that     *)
(* have a record; Namespace.tla models it.                                 *)
(***************************************************************************)
EXTENDS IndexNamespace, PartitionManager

CONSTANTS
    Request,        \* pairs of a path and a name that callers ask for
    Removable,      \* requests that are also removed, by name or by directory
    Partitioned     \* indices whose partitions callers work on

IndexOf(r) == <<cleanup_path[r[1]], r[2]>>

ASSUME MasterIndicesAssumption ==
    /\ Request \subseteq Path \X Name
    /\ IndexPath \subseteq Path \X Name
    /\ \A r \in Request : IndexOf(r) \in IndexPath
    /\ Partitioned \subseteq IndexPath
    /\ Removable \subseteq Request

VARIABLES
    dirs,           \* index directories with a record in the Namespace
    call,           \* what each thread is doing: see Call
    created,        \* history: indices whose create_index() has returned OK
    process         \* "running" or "down"

vars == <<nodes, idxStore, partitions, partStore, job, acked, memory,
          dirs, call, created, process>>

NoCall == [at |-> "idle"]
Call == [at : {"mkdir", "rollback", "partitions"}, req : Request]

TypeOK ==
    /\ IndexNamespaceTypeOK
    /\ PartitionManagerTypeOK
    /\ dirs \in SUBSET IndexPath
    /\ call \in [Thread -> Call \cup {NoCall}]
    /\ created \in SUBSET IndexPath
    /\ process \in {"running", "down"}

Init ==
    /\ nodes = Empty /\ idxStore = Empty
    /\ partitions = NoPartitions /\ partStore = NoPartitions
    /\ job = [t \in Thread |-> Idle]
    /\ acked = {} /\ memory = "good"
    /\ dirs = {} /\ created = {}
    /\ call = [t \in Thread |-> NoCall]
    /\ process = "running"

Up == process = "running" /\ memory = "good"
Free(t) == call[t] = NoCall /\ job[t] = Idle
idxVars == <<nodes, idxStore>>
At(t, where) == call' = [call EXCEPT ![t].at = where]
Returns(t) == call' = [call EXCEPT ![t] = NoCall]

-----------------------------------------------------------------------------
(* create_index(): insert, mkdir, and a rollback when the mkdir fails *)

\* Mutant: an insert that is refused is rolled back too.
create_index_cleaning_up(t, r) ==
    /\ Up /\ Free(t)
    /\ \E status \in Status :
        /\ insert(r[1], r[2], status)
        /\ call' = [call EXCEPT ![t] =
                       [at |-> IF status = "OK" THEN "mkdir" ELSE "rollback",
                        req |-> r]]
    /\ UNCHANGED <<pmVars, dirs, created, process>>
create_index(t, r) ==
    /\ Up /\ Free(t)
    /\ \E status \in Status :
        /\ insert(r[1], r[2], status)
        /\ call' = IF status # "OK" THEN call
                   ELSE [call EXCEPT ![t] = [at |-> "mkdir", req |-> r]]
    /\ UNCHANGED <<pmVars, dirs, created, process>>

\* The mkdir is refused when the directory has a record, or by the store.
create_index_mkdir(t) ==
    /\ Up /\ call[t].at = "mkdir"
    /\ LET i == IndexOf(call[t].req) IN
       \/ /\ i \notin dirs
          /\ dirs' = dirs \cup {i}
          /\ created' = created \cup {i}
          /\ Returns(t)
       \/ /\ At(t, "rollback")
          /\ UNCHANGED <<dirs, created>>
    /\ UNCHANGED <<idxVars, pmVars, process>>

\* The status of the rollback is ignored.
create_index_rollback(t) ==
    /\ Up /\ call[t].at = "rollback"
    /\ LET r == call[t].req IN \E status \in Status : remove(r[1], r[2], status)
    /\ Returns(t)
    /\ UNCHANGED <<pmVars, dirs, created, process>>

-----------------------------------------------------------------------------
(* remove_index(): the name, then the partitions; the directory stays *)

remove_index_name(t, r) ==
    /\ Up /\ Free(t)
    /\ \E status \in Status : remove(r[1], r[2], status)
    /\ call' = [call EXCEPT ![t] = [at |-> "partitions", req |-> r]]
    /\ UNCHANGED <<pmVars, dirs, created, process>>

remove_index_partitions(t) ==
    /\ Up /\ call[t].at = "partitions"
    /\ \E written \in BOOLEAN : remove_index(IndexOf(call[t].req), written)
    /\ Returns(t)
    /\ UNCHANGED <<idxVars, dirs, created, process>>

\* IndexNamespace::remove(path), of everything on a directory.
remove_directory(r) ==
    /\ Up
    /\ \E status \in Status : remove_node(r[1], status)
    /\ UNCHANGED <<pmVars, dirs, call, created, process>>

-----------------------------------------------------------------------------
(* The partitions' own operations, and the life of the process *)

Partitioning ==
    /\ Up
    /\ \/ \E i \in Partitioned, written \in BOOLEAN : add_index(i, written)
       \/ \E t \in Thread, i \in Partitioned :
          /\ Free(t)
          /\ \/ \E op \in {"add", "remove"}, s \in Sep : find_partition(t, op, i, s)
             \/ find_partition(t, "get", i, 0)
       \/ \E t \in Thread : use_partition(t)
       \/ \E t \in Thread, written \in BOOLEAN : write_partition_map(t, written)
       \/ \E t \in Thread : use_freed(t)
    /\ UNCHANGED <<idxVars, dirs, call, created, process>>

Crash ==
    /\ Up
    /\ process' = "down"
    /\ nodes' = Empty /\ partitions' = NoPartitions
    /\ job' = [t \in Thread |-> Idle]
    /\ call' = [t \in Thread |-> NoCall]
    /\ UNCHANGED <<idxStore, partStore, acked, memory, dirs, created>>

init ==
    /\ process = "down"
    /\ process' = "running"
    /\ load_nodes /\ load_partitions
    /\ UNCHANGED <<job, acked, memory, dirs, call, created>>

Next ==
    \/ \E t \in Thread :
        \/ \E r \in Request : create_index(t, r)
        \/ create_index_mkdir(t)
        \/ create_index_rollback(t)
        \/ \E r \in Removable : remove_index_name(t, r)
        \/ remove_index_partitions(t)
    \/ \E r \in Removable : remove_directory(r)
    \/ Partitioning
    \/ Crash
    \/ init

Spec == Init /\ [][Next]_vars

-----------------------------------------------------------------------------
(* Properties *)

Listed(i) == i[2] \in NamesIn(nodes, i[1])

\* IndexNamespace "works as a write-through cache" (index_namespace.h:44):
\* after any failed put, and in any order of calls, memory lists what a
\* restart would read back.
WriteThrough == process = "running" => IndicesWrittenThrough

Kept(i) == \A r \in Removable : cleanup_path[r[1]] # i[1]

\* An index whose create_index() returned OK keeps its name and its directory,
\* whatever the other threads' creates and rollbacks, failed writes and
\* restarts do.  (For an index that is also removed this is false: a
\* create_index() that lost its name to a remove_index() rolls back the name
\* that a third call has inserted since.)
CreatedIsListed ==
    process = "running" =>
        \A i \in created : Kept(i) => Listed(i) /\ i \in dirs

\* Updates look for an index's directory and searches for its name: an index
\* that an update can find is one that a search can find, also between the
\* two steps of create_index() and after a crash between them.
DirectoryIsListed ==
    process = "running" => \A i \in dirs : Kept(i) => Listed(i)
=============================================================================
