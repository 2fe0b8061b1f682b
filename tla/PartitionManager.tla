-------------------------- MODULE PartitionManager ---------------------------
(***************************************************************************)
(* A master's PartitionManager (src/vsfs/masterd/partition_manager.cpp):   *)
(* the partitions of every index, in memory and in a LevelDB store.        *)
(*                                                                         *)
(* add_index() and remove_index() hold mutex_ throughout: one step each.   *)
(* The operations on one partition look its Partition up under mutex_, let *)
(* mutex_ go, and work on it under the Partition's own mutex, up to and    *)
(* including the write: in between, remove_index() may have freed it.      *)
(***************************************************************************)
EXTENDS Integers

CONSTANTS
    IndexPath,
    Sep,            \* separators; a partition is known by its separator
    NoIndex,        \* the maps have no such index
    Thread

ASSUME PartitionManagerAssumption ==
    /\ 0 \in Sep
    /\ \A s \in SUBSET Sep : s # NoIndex

VARIABLES
    partitions,     \* partition_map_by_index_path_
    partStore,      \* store_
    job,            \* what each thread is doing: see Job
    acked,          \* history: partitions whose addition returned OK and that
                    \*   nobody has removed since
    memory          \* "good", or "undefined" once freed memory was used

pmVars == <<partitions, partStore, job, acked, memory>>

\* live is FALSE once the Partition the thread points to is freed.
Idle == [at |-> "idle"]
Job == [at : {"found", "changed"}, op : {"add", "remove", "get"},
        index : IndexPath, sep : Sep, live : BOOLEAN, buffer : SUBSET Sep]

PartitionManagerTypeOK ==
    /\ partitions \in [IndexPath -> (SUBSET Sep) \cup {NoIndex}]
    /\ partStore \in [IndexPath -> (SUBSET Sep) \cup {NoIndex}]
    /\ job \in [Thread -> Job \cup {Idle}]
    /\ acked \in SUBSET (IndexPath \X Sep)
    /\ memory \in {"good", "undefined"}

NoPartitions == [i \in IndexPath |-> NoIndex]
load_partitions == partitions' = partStore /\ UNCHANGED partStore

-----------------------------------------------------------------------------
\* written is FALSE when the store refuses the write.
\* Mutant: an initial separator that is none.
add_index_unset(i, written) ==
    /\ partitions[i] = NoIndex
    /\ partitions' = [partitions EXCEPT ![i] = {-1}]
    /\ \/ /\ written
          /\ partStore' = [partStore EXCEPT ![i] = {-1}]
          /\ acked' = acked \cup {<<i, 0>>}
       \/ /\ ~written
          /\ UNCHANGED <<partStore, acked>>
    /\ UNCHANGED <<job, memory>>
add_index(i, written) ==
    /\ partitions[i] = NoIndex
    /\ partitions' = [partitions EXCEPT ![i] = {0}]
    /\ \/ /\ written
          /\ partStore' = [partStore EXCEPT ![i] = {0}]
          /\ acked' = acked \cup {<<i, 0>>}
       \/ /\ ~written
          /\ UNCHANGED <<partStore, acked>>
    /\ UNCHANGED <<job, memory>>

\* Frees the Partition whoever points to it.
remove_index(i, written) ==
    \/ /\ written
       /\ partStore' = [partStore EXCEPT ![i] = NoIndex]
       /\ partitions' = [partitions EXCEPT ![i] = NoIndex]
       /\ acked' = {a \in acked : a[1] # i}
       /\ job' = [t \in Thread |->
                    IF job[t].at # "idle" /\ job[t].index = i
                    THEN [job[t] EXCEPT !.live = FALSE] ELSE job[t]]
       /\ UNCHANGED memory
    \/ /\ ~written
       /\ UNCHANGED pmVars

-----------------------------------------------------------------------------
(* add_partition(), remove_partition(), and get_partition_path() and its   *)
(* like as "get".                                                          *)

find_partition(t, op, i, s) ==
    /\ job[t] = Idle
    /\ partitions[i] # NoIndex
    /\ job' = [job EXCEPT ![t] = [at |-> "found", op |-> op, index |-> i,
                                  sep |-> s, live |-> TRUE, buffer |-> {}]]
    /\ UNCHANGED <<partitions, partStore, acked, memory>>

\* The mutex of the Partition is held from the change to the end of the write.
Locked(i) == \E t \in Thread : job[t].at = "changed" /\ job[t].index = i

Return(t) == job' = [job EXCEPT ![t] = Idle]

\* The map changes and is serialized into the buffer to put.
Change(t, i, seps) ==
    /\ partitions' = [partitions EXCEPT ![i] = seps]
    /\ job' = [job EXCEPT ![t].at = "changed", ![t].buffer = seps]

\* Mutant: without the mutex of the Partition.
use_partition_unlocked(t) ==
    /\ job[t].at = "found" /\ job[t].live
    /\ LET i == job[t].index  s == job[t].sep IN
       /\ \/ /\ \/ job[t].op = "get"
                \/ job[t].op = "add" /\ s \in partitions[i]
                \/ job[t].op = "remove" /\ s \notin partitions[i]
             /\ Return(t)
             /\ UNCHANGED <<partitions, acked>>
          \/ /\ job[t].op = "add" /\ s \notin partitions[i]
             /\ Change(t, i, partitions[i] \cup {s})
             /\ UNCHANGED acked
          \/ /\ job[t].op = "remove" /\ s \in partitions[i]
             /\ Change(t, i, partitions[i] \ {s})
             /\ acked' = acked \ {<<i, s>>}
    /\ UNCHANGED <<partStore, memory>>
use_partition(t) ==
    /\ job[t].at = "found" /\ job[t].live
    /\ LET i == job[t].index  s == job[t].sep IN
       /\ ~Locked(i)
       /\ \/ /\ \/ job[t].op = "get"
                \/ job[t].op = "add" /\ s \in partitions[i]
                \/ job[t].op = "remove" /\ s \notin partitions[i]
             /\ Return(t)
             /\ UNCHANGED <<partitions, acked>>
          \/ /\ job[t].op = "add" /\ s \notin partitions[i]
             /\ Change(t, i, partitions[i] \cup {s})
             /\ UNCHANGED acked
          \/ /\ job[t].op = "remove" /\ s \in partitions[i]
             /\ Change(t, i, partitions[i] \ {s})
             /\ acked' = acked \ {<<i, s>>}
    /\ UNCHANGED <<partStore, memory>>

\* The put of write_partition_map(): add_partition() returns its status,
\* remove_partition() OK in any case.
write_partition_map(t, written) ==
    /\ job[t].at = "changed" /\ job[t].live
    /\ LET i == job[t].index IN
       \/ /\ written
          /\ partStore' = [partStore EXCEPT ![i] = job[t].buffer]
          /\ acked' = IF job[t].op = "add" THEN acked \cup {<<i, job[t].sep>>}
                      ELSE acked
       \/ /\ ~written
          /\ UNCHANGED <<partStore, acked>>
    /\ Return(t)
    /\ UNCHANGED <<partitions, memory>>

\* A thread that goes on with a Partition that remove_index() has freed.
use_freed(t) ==
    /\ job[t].at # "idle" /\ ~job[t].live
    /\ memory' = "undefined"
    /\ UNCHANGED <<partitions, partStore, job, acked>>

-----------------------------------------------------------------------------
\* A partition whose addition was acknowledged, and that nobody has removed,
\* is in the store: a restart brings it back.
AckedPartitionsStored ==
    memory = "good" =>
        \A a \in acked : partStore[a[1]] # NoIndex /\ a[2] \in partStore[a[1]]
=============================================================================
