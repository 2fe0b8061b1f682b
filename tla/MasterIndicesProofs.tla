------------------------- MODULE MasterIndicesProofs -------------------------
(***************************************************************************)
(* Proofs about MasterIndices.tla, for any paths, names, separators,       *)
(* threads and requests.                                                   *)
(***************************************************************************)
EXTENDS MasterIndices, WellFoundedInduction, TLAPS

\* Leaves are for Zenon, unless they name SMT.
USE Zenon

\* A request for an index names the index of its cleaned-up path.
LEMMA Requests ==
    ASSUME NEW r \in Request
    PROVE  /\ r[1] \in Path /\ r[2] \in Name /\ cleanup_path[r[1]] \in Path
           /\ IndexOf(r) \in IndexPath
           /\ IndexOf(r)[1] = cleanup_path[r[1]] /\ IndexOf(r)[2] = r[2]
BY MasterIndicesAssumption, IndexNamespaceAssumption DEF IndexOf

(***************************************************************************)
(* What the operations of an IndexNamespace do to the names of a key, in   *)
(* memory and in the store.                                                *)
(***************************************************************************)

NodesType == [Path -> (SUBSET Name) \cup {NoNode}]

\* A node holds names.
LEMMA NamesTyped == ASSUME NEW map \in NodesType, NEW key \in Path PROVE NamesIn(map, key) \in SUBSET Name
BY DEF NodesType, NamesIn

\* What insert() and remove() come to when memory and store agree: a name is
\* added or taken away in both, or nothing that can be listed changes.
LEMMA InsertEffect ==
    ASSUME IndexNamespaceTypeOK, IndicesWrittenThrough,
           NEW p \in Path, NEW n \in Name, NEW status \in Status, cleanup_path[p] \in Path,
           insert(p, n, status)
    PROVE  /\ IndexNamespaceTypeOK' /\ IndicesWrittenThrough'
           /\ \A q \in Path : NamesIn(idxStore, q)' =
                IF q = cleanup_path[p] /\ status = "OK" THEN NamesIn(idxStore, q) \cup {n}
                ELSE NamesIn(idxStore, q)
           /\ status = "OK" => n \notin NamesIn(idxStore, cleanup_path[p])
<1>. DEFINE key == cleanup_path[p]  names == NamesIn(nodes, key)
<1>1. nodes \in NodesType /\ idxStore \in NodesType BY DEF IndexNamespaceTypeOK, NodesType
<1>2. names \in SUBSET Name /\ names \cup {n} \in SUBSET Name /\ names = NamesIn(idxStore, key)
  BY <1>1, NamesTyped DEF IndicesWrittenThrough
<1>3. CASE status = "EEXIST" /\ UNCHANGED <<nodes, idxStore>>
  BY <1>3 DEF IndexNamespaceTypeOK, IndicesWrittenThrough, NamesIn
<1>4. CASE /\ status = "OK" /\ ~have(p, n)
           /\ nodes' = [nodes EXCEPT ![key] = names \cup {n}]
           /\ idxStore' = [idxStore EXCEPT ![key] = names \cup {n}]
  <2>1. /\ nodes' \in NodesType /\ idxStore' \in NodesType
        /\ NamesIn(nodes', key) = names \cup {n} /\ NamesIn(idxStore', key) = names \cup {n}
        /\ \A q \in Path \ {key} : /\ NamesIn(nodes', q) = NamesIn(nodes, q)
                                   /\ NamesIn(idxStore', q) = NamesIn(idxStore, q)
    BY <1>1, <1>2, <1>4, IndexNamespaceAssumption DEF NodesType, NamesIn
  <2>2. IndexNamespaceTypeOK' BY <2>1 DEF IndexNamespaceTypeOK, NodesType
  <2>3. IndicesWrittenThrough' BY <2>1 DEF IndicesWrittenThrough
  <2>4. n \notin NamesIn(idxStore, key) BY <1>2, <1>4 DEF have
  <2>. QED BY <1>2, <1>4, <2>1, <2>2, <2>3, <2>4
<1>5. CASE /\ status = "EIO"
           /\ nodes' = [nodes EXCEPT ![key] = names] /\ UNCHANGED idxStore
  <2>1. /\ nodes' \in NodesType /\ NamesIn(nodes', key) = names
        /\ \A q \in Path \ {key} : NamesIn(nodes', q) = NamesIn(nodes, q)
    BY <1>1, <1>2, <1>5, IndexNamespaceAssumption DEF NodesType, NamesIn
  <2>2. \A q \in Path : NamesIn(idxStore, q)' = NamesIn(idxStore, q) BY <1>5 DEF NamesIn
  <2>3. IndexNamespaceTypeOK' BY <1>5, <2>1 DEF IndexNamespaceTypeOK, NodesType
  <2>4. IndicesWrittenThrough' BY <1>2, <2>1, <2>2 DEF IndicesWrittenThrough
  <2>. QED BY <1>5, <2>2, <2>3, <2>4
<1>. QED BY <1>3, <1>4, <1>5 DEF insert

\* remove() takes one name from memory and store, or changes nothing.
LEMMA RemoveEffect ==
    ASSUME IndexNamespaceTypeOK, IndicesWrittenThrough,
           NEW p \in Path, NEW n \in Name, NEW status \in Status, cleanup_path[p] \in Path,
           remove(p, n, status)
    PROVE  /\ IndexNamespaceTypeOK' /\ IndicesWrittenThrough'
           /\ \A q \in Path, m \in Name :
                /\ m \in NamesIn(idxStore, q)' => m \in NamesIn(idxStore, q)
                /\ m \in NamesIn(idxStore, q) /\ (q # cleanup_path[p] \/ m # n)
                     => m \in NamesIn(idxStore, q)'
<1>. DEFINE key == cleanup_path[p]  names == NamesIn(nodes, key)
<1>1. nodes \in NodesType /\ idxStore \in NodesType BY DEF IndexNamespaceTypeOK, NodesType
<1>2. names \ {n} \in SUBSET Name /\ names = NamesIn(idxStore, key)
  BY <1>1, NamesTyped DEF IndicesWrittenThrough
<1>3. CASE UNCHANGED <<nodes, idxStore>>
  BY <1>3 DEF IndexNamespaceTypeOK, IndicesWrittenThrough, NamesIn
<1>4. CASE /\ nodes' = [nodes EXCEPT ![key] = names \ {n}]
           /\ idxStore' = [idxStore EXCEPT ![key] = names \ {n}]
  <2>1. /\ nodes' \in NodesType /\ idxStore' \in NodesType
        /\ NamesIn(nodes', key) = names \ {n} /\ NamesIn(idxStore', key) = names \ {n}
        /\ \A q \in Path \ {key} : /\ NamesIn(nodes', q) = NamesIn(nodes, q)
                                   /\ NamesIn(idxStore', q) = NamesIn(idxStore, q)
    BY <1>1, <1>2, <1>4, IndexNamespaceAssumption DEF NodesType, NamesIn
  <2>2. IndexNamespaceTypeOK' BY <2>1 DEF IndexNamespaceTypeOK, NodesType
  <2>3. IndicesWrittenThrough' BY <2>1 DEF IndicesWrittenThrough
  <2>. QED BY <1>2, <2>1, <2>2, <2>3
<1>. QED BY <1>3, <1>4 DEF remove

\* remove() of a directory takes the names of that node only.
LEMMA RemoveNodeEffect ==
    ASSUME IndexNamespaceTypeOK, IndicesWrittenThrough,
           NEW p \in Path, NEW status \in Status, cleanup_path[p] \in Path, remove_node(p, status)
    PROVE  /\ IndexNamespaceTypeOK' /\ IndicesWrittenThrough'
           /\ \A q \in Path \ {cleanup_path[p]} : NamesIn(idxStore, q)' = NamesIn(idxStore, q)
<1>. DEFINE key == cleanup_path[p]
<1>1. nodes \in NodesType /\ idxStore \in NodesType BY DEF IndexNamespaceTypeOK, NodesType
<1>2. CASE UNCHANGED <<nodes, idxStore>>
  BY <1>2 DEF IndexNamespaceTypeOK, IndicesWrittenThrough, NamesIn
<1>3. CASE nodes' = [nodes EXCEPT ![key] = NoNode] /\ idxStore' = [idxStore EXCEPT ![key] = NoNode]
  <2>1. /\ nodes' \in NodesType /\ idxStore' \in NodesType
        /\ NamesIn(nodes', key) = {} /\ NamesIn(idxStore', key) = {}
        /\ \A q \in Path \ {key} : /\ NamesIn(nodes', q) = NamesIn(nodes, q)
                                   /\ NamesIn(idxStore', q) = NamesIn(idxStore, q)
    BY <1>1, <1>3, IndexNamespaceAssumption DEF NodesType, NamesIn
  <2>2. IndexNamespaceTypeOK' BY <2>1 DEF IndexNamespaceTypeOK, NodesType
  <2>3. IndicesWrittenThrough' BY <2>1 DEF IndicesWrittenThrough
  <2>. QED BY <2>1, <2>2, <2>3
<1>. QED BY <1>2, <1>3 DEF remove_node

(***************************************************************************)
(* Types                                                                   *)
(***************************************************************************)

\* A thread that points to a Partition that is not freed points to one of the
\* map; one that has changed it, and not yet written it, holds what the map has,
\* and no other thread has changed it since.
Pointers ==
    /\ \A t \in Thread : job[t].at # "idle" /\ job[t].live =>
         /\ partitions[job[t].index] # NoIndex
         /\ job[t].at = "changed" =>
              /\ partitions[job[t].index] = job[t].buffer
              /\ job[t].op = "add" => job[t].sep \in job[t].buffer
    /\ \A t, u \in Thread :
         job[t].at = "changed" /\ job[u].at = "changed" /\ job[t].live /\ job[u].live
           /\ job[t].index = job[u].index => t = u

\* Every step on partitions keeps them well typed.
LEMMA PartitionsTyped ==
    ASSUME PartitionManagerTypeOK, Pointers,
           \/ \E i \in IndexPath, written \in BOOLEAN :
                add_index(i, written) \/ remove_index(i, written)
           \/ \E t \in Thread, i \in IndexPath, op \in {"add", "remove", "get"}, s \in Sep :
                find_partition(t, op, i, s)
           \/ \E t \in Thread : use_partition(t) \/ use_freed(t)
           \/ \E t \in Thread, written \in BOOLEAN : write_partition_map(t, written)
    PROVE  PartitionManagerTypeOK'
<1>1. ASSUME NEW i \in IndexPath, NEW written \in BOOLEAN, add_index(i, written)
      PROVE  PartitionManagerTypeOK'
  BY SMT, <1>1, PartitionManagerAssumption DEF add_index, PartitionManagerTypeOK
<1>2. ASSUME NEW i \in IndexPath, NEW written \in BOOLEAN, remove_index(i, written)
      PROVE  PartitionManagerTypeOK'
  <2>1. CASE UNCHANGED pmVars BY <2>1 DEF pmVars, PartitionManagerTypeOK
  <2>2. CASE ~UNCHANGED pmVars
    <3>1. ASSUME NEW t \in Thread PROVE job'[t] \in Job \cup {Idle}
      <4>1. job[t] \in Job \cup {Idle} BY DEF PartitionManagerTypeOK
      <4>2. CASE job'[t] = job[t] BY <4>1, <4>2
      <4>3. CASE job[t].at # "idle" /\ job'[t] = [job[t] EXCEPT !.live = FALSE]
        BY <4>1, <4>3 DEF Job, Idle
      <4>. QED BY <1>2, <2>2, <4>2, <4>3 DEF remove_index
    <3>2. job' \in [Thread -> Job \cup {Idle}] BY <1>2, <2>2, <3>1 DEF remove_index
    <3>. QED BY <1>2, <2>2, <3>2 DEF remove_index, PartitionManagerTypeOK
  <2>. QED BY <2>1, <2>2
<1>3. ASSUME NEW t \in Thread, NEW i \in IndexPath, NEW op \in {"add", "remove", "get"},
             NEW s \in Sep, find_partition(t, op, i, s)
      PROVE  PartitionManagerTypeOK'
  BY <1>3 DEF find_partition, PartitionManagerTypeOK, Job
<1>4. ASSUME NEW t \in Thread, use_partition(t) PROVE PartitionManagerTypeOK'
  <2>1. job[t] \in Job BY SMT, <1>4 DEF use_partition, PartitionManagerTypeOK, Idle
  <2>2. job[t].index \in IndexPath /\ job[t].sep \in Sep BY <2>1 DEF Job
  <2>. DEFINE i == job[t].index
  <2>3. CASE Return(t) /\ UNCHANGED <<partitions, acked>>
    BY <1>4, <2>3 DEF use_partition, Return, PartitionManagerTypeOK
  <2>4. CASE \E seps \in SUBSET Sep : Change(t, i, seps)
    <3>1. PICK seps \in SUBSET Sep : Change(t, i, seps) BY <2>4
    <3>2. job' \in [Thread -> Job \cup {Idle}]
      BY <2>1, <3>1 DEF Change, PartitionManagerTypeOK, Job
    <3>3. partitions' \in [IndexPath -> (SUBSET Sep) \cup {NoIndex}]
      BY <2>2, <3>1 DEF Change, PartitionManagerTypeOK
    <3>4. acked' \in SUBSET (IndexPath \X Sep)
      BY <1>4 DEF use_partition, PartitionManagerTypeOK
    <3>. QED BY <1>4, <3>2, <3>3, <3>4 DEF use_partition, PartitionManagerTypeOK
  <2>5. partitions[i] \in SUBSET Sep
    BY <1>4, <2>2 DEF use_partition, Pointers, PartitionManagerTypeOK
  <2>. QED BY <1>4, <2>2, <2>3, <2>4, <2>5 DEF use_partition
<1>5. ASSUME NEW t \in Thread, use_freed(t) PROVE PartitionManagerTypeOK'
  BY <1>5 DEF use_freed, PartitionManagerTypeOK
<1>6. ASSUME NEW t \in Thread, NEW written \in BOOLEAN, write_partition_map(t, written)
      PROVE  PartitionManagerTypeOK'
  <2>1. job[t] \in Job BY SMT, <1>6 DEF write_partition_map, PartitionManagerTypeOK, Idle
  <2>2. job[t].index \in IndexPath /\ job[t].sep \in Sep /\ job[t].buffer \in SUBSET Sep
    BY <2>1 DEF Job
  <2>. QED BY SMT, <1>6, <2>2 DEF write_partition_map, Return, PartitionManagerTypeOK
<1>. QED BY <1>1, <1>2, <1>3, <1>4, <1>5, <1>6

(***************************************************************************)
(* Partitions.  That an acknowledged partition stays in the store needs    *)
(* more than that it is there: a put writes all the partitions of an index *)
(* as its thread had them, so these must be all that were acknowledged.    *)
(***************************************************************************)

AckedIn(map) == \A a \in acked : map[a[1]] # NoIndex /\ a[2] \in map[a[1]]
Partitions == Pointers /\ AckedIn(partStore) /\ AckedIn(partitions)

\* What is acknowledged are partitions of indices.
LEMMA Pairs == ASSUME PartitionManagerTypeOK, NEW a \in acked
               PROVE  a[1] \in IndexPath /\ a[2] \in Sep /\ a = <<a[1], a[2]>>
BY SMT DEF PartitionManagerTypeOK

\* add_index() keeps what is acknowledged.
LEMMA AddIndexKept ==
    ASSUME PartitionManagerTypeOK, Partitions, NEW i \in IndexPath, NEW written \in BOOLEAN,
           add_index(i, written)
    PROVE  Partitions'
<1>1. /\ partitions[i] = NoIndex /\ job' = job
      /\ partitions'[i] = {0} /\ \A j \in IndexPath \ {i} : partitions'[j] = partitions[j]
  BY DEF add_index, PartitionManagerTypeOK
<1>2. {0} # NoIndex /\ {0} \in SUBSET Sep BY PartitionManagerAssumption
<1>3. \A a \in acked : a[1] # i BY <1>1 DEF Partitions, AckedIn
<1>4. \A t \in Thread : job[t].at # "idle" => job[t].index \in IndexPath
  BY SMT DEF PartitionManagerTypeOK, Job, Idle
<1>5. Pointers' BY SMT, <1>1, <1>4 DEF Partitions, Pointers
<1>6. \A a \in acked' : a \in acked \/ a = <<i, 0>> BY DEF add_index
<1>7. AckedIn(partitions)' BY SMT, <1>1, <1>2, <1>3, <1>6, Pairs DEF Partitions, AckedIn
<1>8. AckedIn(partStore)'
  <2>1. CASE written
    <3>1. partStore'[i] = {0} /\ \A j \in IndexPath \ {i} : partStore'[j] = partStore[j]
      BY <2>1 DEF add_index, PartitionManagerTypeOK
    <3>. QED BY SMT, <1>2, <1>3, <1>6, <3>1, Pairs DEF Partitions, AckedIn
  <2>2. CASE ~written BY <2>2 DEF add_index, Partitions, AckedIn
  <2>. QED BY <2>1, <2>2
<1>. QED BY <1>5, <1>7, <1>8 DEF Partitions

\* remove_index() withdraws what it removes.
LEMMA RemoveIndexKept ==
    ASSUME PartitionManagerTypeOK, Partitions, NEW i \in IndexPath, NEW written \in BOOLEAN,
           remove_index(i, written)
    PROVE  Partitions'
<1>1. CASE UNCHANGED pmVars BY <1>1 DEF pmVars, Partitions, Pointers, AckedIn
<1>2. CASE ~UNCHANGED pmVars
  <2>1. /\ acked' = {a \in acked : a[1] # i}
        /\ \A j \in IndexPath \ {i} : partitions'[j] = partitions[j] /\ partStore'[j] = partStore[j]
    BY <1>2 DEF remove_index, PartitionManagerTypeOK
  <2>2. AckedIn(partitions)' /\ AckedIn(partStore)' BY <2>1, Pairs DEF Partitions, AckedIn
  <2>3. ASSUME NEW t \in Thread, job'[t].at # "idle", job'[t].live
        PROVE  job'[t] = job[t] /\ job[t].index \in IndexPath \ {i}
    <3>1. job[t] \in Job \cup {Idle} BY DEF PartitionManagerTypeOK
    <3>2. CASE job[t].at # "idle" /\ job[t].index = i
      <4>1. job'[t] = [job[t] EXCEPT !.live = FALSE] BY <1>2, <3>2 DEF remove_index
      <4>. QED BY SMT, <2>3, <3>1, <3>2, <4>1 DEF Job, Idle
    <3>3. CASE ~(job[t].at # "idle" /\ job[t].index = i)
      <4>1. job'[t] = job[t] BY <1>2, <3>3 DEF remove_index
      <4>. QED BY SMT, <2>3, <3>1, <3>3, <4>1 DEF Job, Idle
    <3>. QED BY <3>2, <3>3
  <2>4. Pointers' BY SMT, <2>1, <2>3 DEF Partitions, Pointers
  <2>. QED BY <2>2, <2>4 DEF Partitions
<1>. QED BY <1>1, <1>2

\* A lookup of a partition changes none.
LEMMA FindPartitionKept ==
    ASSUME PartitionManagerTypeOK, Partitions, NEW t \in Thread, NEW i \in IndexPath, NEW op,
           NEW s, find_partition(t, op, i, s)
    PROVE  Partitions'
<1>1. /\ \A u \in Thread \ {t} : job'[u] = job[u]
      /\ job'[t].at = "found" /\ job'[t].index = i /\ partitions[i] # NoIndex
      /\ UNCHANGED <<partitions, partStore, acked>>
  BY DEF find_partition, PartitionManagerTypeOK
<1>2. Pointers' BY <1>1 DEF Partitions, Pointers
<1>. QED BY <1>1, <1>2 DEF Partitions, AckedIn

\* The mutex of the Partition keeps the others from changing it.
LEMMA UsePartitionKept ==
    ASSUME PartitionManagerTypeOK, Partitions, NEW t \in Thread, use_partition(t)
    PROVE  Partitions'
<1>. DEFINE i == job[t].index  s == job[t].sep
<1>1. job[t] \in Job BY SMT DEF use_partition, PartitionManagerTypeOK, Idle
<1>2. i \in IndexPath /\ s \in Sep BY <1>1 DEF Job
<1>3. partitions[i] \in SUBSET Sep
  BY <1>2 DEF use_partition, Partitions, Pointers, PartitionManagerTypeOK
<1>4. \A u \in Thread : job[u].at = "changed" => job[u].index # i
  BY DEF use_partition, Locked
<1>5. partStore' = partStore BY DEF use_partition
<1>6. CASE Return(t) /\ UNCHANGED <<partitions, acked>>
  <2>1. job'[t] = Idle /\ \A u \in Thread \ {t} : job'[u] = job[u]
    BY <1>6 DEF Return, PartitionManagerTypeOK
  <2>2. Pointers' BY SMT, <1>6, <2>1 DEF Partitions, Pointers, Idle
  <2>. QED BY <1>5, <1>6, <2>2 DEF Partitions, AckedIn
<1>7. ASSUME NEW seps \in SUBSET Sep, Change(t, i, seps), job[t].op = "add" => s \in seps,
             \A a \in acked' : a \in acked /\ (a[1] = i => a[2] \in seps)
      PROVE  Partitions'
  <2>1. /\ partitions'[i] = seps /\ \A j \in IndexPath \ {i} : partitions'[j] = partitions[j]
        /\ seps # NoIndex
    BY <1>2, <1>7, PartitionManagerAssumption DEF Change, PartitionManagerTypeOK
  <2>2. /\ job'[t].at = "changed" /\ job'[t].buffer = seps /\ job'[t].index = i
        /\ job'[t].op = job[t].op /\ job'[t].sep = s
        /\ \A u \in Thread \ {t} : job'[u] = job[u]
    BY <1>1, <1>7 DEF Change, PartitionManagerTypeOK, Job
  <2>3. \A u \in Thread : job[u].at # "idle" => job[u].index \in IndexPath
    BY SMT DEF PartitionManagerTypeOK, Job, Idle
  <2>4. Pointers' BY SMT, <1>4, <1>7, <2>1, <2>2, <2>3 DEF Partitions, Pointers
  <2>5. AckedIn(partitions)' BY <1>7, <2>1, Pairs DEF Partitions, AckedIn
  <2>6. AckedIn(partStore)' BY <1>5, <1>7 DEF Partitions, AckedIn
  <2>. QED BY <2>4, <2>5, <2>6 DEF Partitions
<1>8. \A a \in acked : a[1] = i => a[2] \in partitions[i] BY DEF Partitions, AckedIn
<1>9. CASE Change(t, i, partitions[i] \cup {s}) /\ UNCHANGED acked
  <2>1. partitions[i] \cup {s} \in SUBSET Sep BY <1>2, <1>3
  <2>2. PICK seps \in SUBSET Sep : seps = partitions[i] \cup {s} BY <2>1
  <2>. QED BY <1>7, <1>8, <1>9, <2>2
<1>10. CASE /\ job[t].op = "remove" /\ Change(t, i, partitions[i] \ {s})
            /\ acked' = acked \ {<<i, s>>}
  <2>1. partitions[i] \ {s} \in SUBSET Sep BY <1>3
  <2>2. PICK seps \in SUBSET Sep : seps = partitions[i] \ {s} BY <2>1
  <2>3. \A a \in acked' : a \in acked /\ (a[1] = i => a[2] \in seps)
    BY <1>8, <1>10, <2>2, Pairs
  <2>. QED BY <1>7, <1>10, <2>2, <2>3
<1>. QED BY <1>6, <1>9, <1>10 DEF use_partition

\* The put of a changed map stores what is acknowledged with it.
LEMMA WriteKept ==
    ASSUME PartitionManagerTypeOK, Partitions, NEW t \in Thread, NEW written \in BOOLEAN,
           write_partition_map(t, written)
    PROVE  Partitions'
<1>. DEFINE i == job[t].index
<1>1. job[t] \in Job BY SMT DEF write_partition_map, PartitionManagerTypeOK, Idle
<1>2. i \in IndexPath /\ job[t].sep \in Sep /\ job[t].buffer \in SUBSET Sep BY <1>1 DEF Job
<1>3. /\ partitions[i] = job[t].buffer /\ job[t].buffer # NoIndex
      /\ job[t].op = "add" => job[t].sep \in job[t].buffer
  BY DEF write_partition_map, Partitions, Pointers
<1>4. /\ job'[t] = Idle /\ \A u \in Thread \ {t} : job'[u] = job[u]
      /\ partitions' = partitions
  BY DEF write_partition_map, Return, PartitionManagerTypeOK
<1>5. Pointers' BY SMT, <1>4 DEF Partitions, Pointers, Idle
<1>6. CASE written
  <2>1. /\ partStore'[i] = job[t].buffer
        /\ \A j \in IndexPath \ {i} : partStore'[j] = partStore[j]
        /\ \A a \in acked' : a \in acked \/ (job[t].op = "add" /\ a = <<i, job[t].sep>>)
    BY <1>2, <1>6 DEF write_partition_map, PartitionManagerTypeOK
  <2>2. AckedIn(partitions)' BY SMT, <1>3, <1>4, <2>1, Pairs DEF Partitions, AckedIn
  <2>3. AckedIn(partStore)' BY SMT, <1>2, <1>3, <2>1, Pairs DEF Partitions, AckedIn
  <2>. QED BY <1>5, <2>2, <2>3 DEF Partitions
<1>7. CASE ~written
  BY <1>4, <1>5, <1>7 DEF write_partition_map, Partitions, AckedIn
<1>. QED BY <1>6, <1>7

(***************************************************************************)
(* Names and directories.  Between its insert and its mkdir a              *)
(* create_index() is alone with its name: no other can insert it, so the   *)
(* rollback takes away nobody else's.                                      *)
(***************************************************************************)

Stored(i) == i[2] \in NamesIn(idxStore, i[1])
Pending(t) == call[t].at \in {"mkdir", "rollback"}
Mine(t) == IndexOf(call[t].req)
Names ==
    /\ WriteThrough
    /\ created \subseteq dirs
    /\ \A i \in dirs : Kept(i) => Stored(i)
    /\ \A t \in Thread : Pending(t) /\ Kept(Mine(t)) =>
         /\ Stored(Mine(t)) /\ Mine(t) \notin dirs
         /\ \A u \in Thread : Pending(u) /\ Mine(u) = Mine(t) => u = t

\* Calls in progress stay well typed.
LEMMA CallsTyped ==
    ASSUME TypeOK, NEW t \in Thread, call[t] # NoCall
    PROVE  call[t] \in Call /\ call[t].req \in Request /\ Mine(t) \in IndexPath
BY Requests DEF TypeOK, Call, Mine

\* Steps that keep every name of a kept index, and neither begin a creation nor
\* add a directory.
LEMMA NamesFramed ==
    ASSUME TypeOK, Names, WriteThrough', UNCHANGED <<dirs, created>>,
           \A i \in IndexPath : Kept(i) /\ Stored(i) => Stored(i)',
           \A t \in Thread : Pending(t)' => call'[t].req = call[t].req /\ Pending(t)
    PROVE  Names'
<1>1. \A t \in Thread : Pending(t) => Mine(t) \in IndexPath
  BY SMT, CallsTyped DEF Pending, NoCall
<1>2. \A t \in Thread : Pending(t)' => Mine(t)' = Mine(t) /\ Pending(t) BY DEF Mine
<1>3. \A i \in dirs : Kept(i) => Stored(i)' BY DEF Names, TypeOK
<1>4. ASSUME NEW t \in Thread, Pending(t)', Kept(Mine(t))'
      PROVE  /\ Stored(Mine(t))' /\ Mine(t)' \notin dirs'
             /\ \A u \in Thread : Pending(u)' /\ Mine(u)' = Mine(t)' => u = t
  <2>1. Pending(t) /\ Mine(t)' = Mine(t) BY <1>2, <1>4
  <2>2. PICK i \in IndexPath : i = Mine(t) BY <1>1, <2>1
  <2>3. Kept(i) BY <1>4, <2>1, <2>2 DEF Kept
  <2>4. Stored(i) /\ i \notin dirs /\ \A u \in Thread : Pending(u) /\ Mine(u) = i => u = t
    BY <2>1, <2>2, <2>3 DEF Names
  <2>5. Stored(i)' BY <2>3, <2>4
  <2>6. Stored(Mine(t))' BY <2>1, <2>2, <2>5 DEF Stored
  <2>. QED BY <1>2, <2>1, <2>2, <2>4, <2>6
<1>. QED BY <1>3, <1>4 DEF Names, Stored, Kept

\* insert() of create_index(): its caller is alone with the name.
LEMMA CreateNames ==
    ASSUME TypeOK, Names, NEW t \in Thread, NEW r \in Request, create_index(t, r)
    PROVE  TypeOK' /\ Names'
<1>1. PICK status \in Status :
        /\ insert(r[1], r[2], status)
        /\ call' = IF status # "OK" THEN call ELSE [call EXCEPT ![t] = [at |-> "mkdir", req |-> r]]
  BY DEF create_index
<1>2. /\ call[t] = NoCall /\ process = "running" /\ UNCHANGED <<pmVars, dirs, created, process>>
  BY DEF create_index, Free, Up
<1>3. IndexNamespaceTypeOK /\ IndicesWrittenThrough BY <1>2 DEF TypeOK, Names, WriteThrough
<1>. DEFINE i == IndexOf(r)
<1>4. /\ IndexNamespaceTypeOK' /\ IndicesWrittenThrough'
      /\ \A q \in Path : NamesIn(idxStore, q)' =
           IF q = i[1] /\ status = "OK" THEN NamesIn(idxStore, q) \cup {i[2]}
           ELSE NamesIn(idxStore, q)
      /\ status = "OK" => ~Stored(i)
  BY SMT, <1>1, <1>3, Requests, InsertEffect DEF Stored
<1>5. TypeOK'
  <2>1. call' \in [Thread -> Call \cup {NoCall}] BY <1>1 DEF TypeOK, Call
  <2>2. PartitionManagerTypeOK' BY <1>2 DEF TypeOK, PartitionManagerTypeOK, pmVars
  <2>. QED BY <1>2, <1>4, <2>1, <2>2 DEF TypeOK
<1>6. WriteThrough' BY <1>4 DEF WriteThrough
<1>7. \A j \in IndexPath : Stored(j) => Stored(j)'
  <2>1. \A j \in IndexPath : j[1] \in Path BY MasterIndicesAssumption
  <2>. QED BY <1>4, <2>1 DEF Stored
<1>8. CASE status # "OK"
  <2>1. \A u \in Thread : Pending(u)' => call'[u].req = call[u].req /\ Pending(u)
    BY <1>1, <1>8 DEF Pending
  <2>. QED BY <1>2, <1>5, <1>6, <1>7, <2>1, NamesFramed
<1>9. CASE status = "OK"
  <2>1. call'[t] = [at |-> "mkdir", req |-> r] /\ \A u \in Thread \ {t} : call'[u] = call[u]
    BY <1>1, <1>9 DEF TypeOK
  <2>2. Mine(t)' = i /\ ~Pending(t) BY SMT, <1>2, <2>1 DEF Mine, Pending, NoCall
  <2>3. \A u \in Thread \ {t} : Mine(u)' = Mine(u) /\ (Pending(u)' <=> Pending(u))
    BY <2>1 DEF Mine, Pending
  <2>4. i \in IndexPath /\ Stored(i)' /\ ~Stored(i)
    <3>1. i \in IndexPath /\ i[1] \in Path BY Requests
    <3>. QED BY <1>4, <1>9, <3>1 DEF Stored
  <2>5. \A j \in dirs : Kept(j) => Stored(j)' BY <1>7 DEF Names, TypeOK
  <2>6. Kept(i) => i \notin dirs /\ \A u \in Thread : Pending(u) => Mine(u) # i
    BY <2>4 DEF Names
  <2>7. ASSUME NEW u \in Thread, Pending(u)', Kept(Mine(u))'
        PROVE  /\ Stored(Mine(u))' /\ Mine(u)' \notin dirs'
               /\ \A v \in Thread : Pending(v)' /\ Mine(v)' = Mine(u)' => v = u
    <3>1. CASE u = t
      <4>1. Kept(i) BY <2>2, <2>7, <3>1 DEF Kept
      <4>2. Stored(Mine(t))' BY <2>2, <2>4 DEF Stored
      <4>. QED BY <1>2, <2>2, <2>3, <2>6, <3>1, <4>1, <4>2
    <3>2. CASE u # t
      <4>1. Pending(u) /\ Mine(u)' = Mine(u) BY <2>3, <2>7, <3>2
      <4>2. PICK j \in IndexPath : j = Mine(u) BY SMT, <4>1, CallsTyped DEF Pending, NoCall
      <4>3. Kept(j) BY <2>7, <4>1, <4>2 DEF Kept
      <4>4. Stored(j) /\ j \notin dirs /\ \A v \in Thread : Pending(v) /\ Mine(v) = j => v = u
        BY <4>1, <4>2, <4>3 DEF Names
      <4>5. j # i BY <2>4, <4>4
      <4>6. Stored(Mine(u))' BY <1>7, <4>1, <4>2, <4>4 DEF Stored
      <4>. QED BY <1>2, <2>2, <2>3, <4>1, <4>2, <4>4, <4>5, <4>6
    <3>. QED BY <3>1, <3>2
  <2>. QED BY <1>2, <1>5, <1>6, <2>5, <2>7 DEF Names, Stored, Kept
<1>. QED BY <1>8, <1>9

\* mkdir of create_index(): the directory is made under a listed name.
LEMMA MkdirNames ==
    ASSUME TypeOK, Names, NEW t \in Thread, create_index_mkdir(t)
    PROVE  TypeOK' /\ Names'
<1>. DEFINE i == Mine(t)
<1>1. call[t] # NoCall /\ call[t].at = "mkdir" /\ Pending(t)
  BY SMT DEF create_index_mkdir, NoCall, Pending
<1>2. call[t] \in Call /\ i \in IndexPath BY <1>1, CallsTyped
<1>3. UNCHANGED <<idxVars, pmVars, process>> BY DEF create_index_mkdir
<1>4. WriteThrough' /\ \A j : Stored(j)' <=> Stored(j)
  BY <1>3 DEF idxVars, Names, WriteThrough, IndicesWrittenThrough, NamesIn, Stored
<1>5. IndexNamespaceTypeOK' /\ PartitionManagerTypeOK' /\ process' \in {"running", "down"}
  BY <1>3 DEF TypeOK, idxVars, pmVars, IndexNamespaceTypeOK, PartitionManagerTypeOK
<1>6. CASE At(t, "rollback") /\ UNCHANGED <<dirs, created>>
  <2>1. call' \in [Thread -> Call \cup {NoCall}] BY <1>2, <1>6 DEF At, TypeOK, Call
  <2>2. \A u \in Thread : Pending(u)' => call'[u].req = call[u].req /\ Pending(u)
    BY <1>1, <1>2, <1>6 DEF At, TypeOK, Pending, Call
  <2>3. TypeOK' BY <1>5, <1>6, <2>1 DEF TypeOK
  <2>. QED BY <1>4, <1>6, <2>2, <2>3, NamesFramed
<1>7. CASE i \notin dirs /\ dirs' = dirs \cup {i} /\ created' = created \cup {i} /\ Returns(t)
  <2>1. call'[t] = NoCall /\ \A u \in Thread \ {t} : call'[u] = call[u]
    BY <1>7 DEF Returns, TypeOK
  <2>2. TypeOK' BY <1>2, <1>5, <1>7 DEF TypeOK, Returns
  <2>3. ~Pending(t)' BY SMT, <2>1 DEF Pending, NoCall
  <2>4. \A u \in Thread \ {t} : Mine(u)' = Mine(u) /\ (Pending(u)' <=> Pending(u))
    BY <2>1 DEF Mine, Pending
  <2>5. ASSUME NEW j \in dirs', Kept(j) PROVE Stored(j)'
    <3>1. CASE j \in dirs BY <1>4, <2>5, <3>1 DEF Names
    <3>2. CASE j = i BY <1>1, <1>4, <2>5, <3>2 DEF Names
    <3>. QED BY <1>7, <2>5, <3>1, <3>2
  <2>6. ASSUME NEW u \in Thread, Pending(u)', Kept(Mine(u))'
        PROVE  /\ Stored(Mine(u))' /\ Mine(u)' \notin dirs'
               /\ \A v \in Thread : Pending(v)' /\ Mine(v)' = Mine(u)' => v = u
    <3>1. u # t /\ Pending(u) /\ Mine(u)' = Mine(u) BY <2>3, <2>4, <2>6
    <3>2. PICK j \in IndexPath : j = Mine(u) BY SMT, <3>1, CallsTyped DEF Pending, NoCall
    <3>3. Kept(j) BY <2>6, <3>1, <3>2 DEF Kept
    <3>4. Stored(j) /\ j \notin dirs /\ \A v \in Thread : Pending(v) /\ Mine(v) = j => v = u
      BY <3>1, <3>2, <3>3 DEF Names
    <3>5. j # i BY <1>1, <3>1, <3>4
    <3>6. Stored(Mine(u))' BY <1>4, <3>1, <3>2, <3>4 DEF Stored
    <3>. QED BY <1>7, <2>3, <2>4, <3>1, <3>2, <3>4, <3>5, <3>6
  <2>. QED BY <1>4, <1>7, <2>2, <2>5, <2>6 DEF Names, Stored, Kept
<1>. QED BY <1>6, <1>7 DEF create_index_mkdir, Mine

\* The roll back of create_index() takes a name that has no directory.
LEMMA RollbackNames ==
    ASSUME TypeOK, Names, NEW t \in Thread, create_index_rollback(t)
    PROVE  TypeOK' /\ Names'
<1>. DEFINE r == call[t].req  i == Mine(t)
<1>1. call[t] # NoCall /\ Pending(t) /\ process = "running"
  BY SMT DEF create_index_rollback, NoCall, Pending, Up
<1>2. r \in Request /\ i \in IndexPath BY <1>1, CallsTyped
<1>3. PICK status \in Status : remove(r[1], r[2], status) BY DEF create_index_rollback
<1>4. /\ call' \in [Thread -> Call \cup {NoCall}]
      /\ call'[t] = NoCall /\ \A u \in Thread \ {t} : call'[u] = call[u]
      /\ UNCHANGED <<pmVars, dirs, created, process>>
  BY DEF create_index_rollback, Returns, TypeOK
<1>5. IndexNamespaceTypeOK /\ IndicesWrittenThrough BY <1>1 DEF TypeOK, Names, WriteThrough
<1>6. /\ IndexNamespaceTypeOK' /\ IndicesWrittenThrough'
      /\ \A q \in Path, m \in Name :
           m \in NamesIn(idxStore, q) /\ (q # i[1] \/ m # i[2]) => m \in NamesIn(idxStore, q)'
  BY SMT, <1>2, <1>3, <1>5, Requests, RemoveEffect DEF Mine
<1>7. TypeOK'
  <2>1. PartitionManagerTypeOK' BY <1>4 DEF TypeOK, PartitionManagerTypeOK, pmVars
  <2>. QED BY <1>4, <1>6, <2>1 DEF TypeOK
<1>8. WriteThrough' BY <1>6 DEF WriteThrough
<1>9. ASSUME NEW j \in IndexPath, j # i, Stored(j) PROVE Stored(j)'
  <2>1. j[1] \in Path /\ j[2] \in Name /\ (j[1] # i[1] \/ j[2] # i[2])
    BY SMT, <1>2, <1>9, MasterIndicesAssumption
  <2>. QED BY <1>6, <1>9, <2>1 DEF Stored
<1>10. \A j \in dirs : Kept(j) => Stored(j)' BY <1>1, <1>9 DEF Names, TypeOK
<1>11. ~Pending(t)' BY SMT, <1>4 DEF Pending, NoCall
<1>12. \A u \in Thread \ {t} : Mine(u)' = Mine(u) /\ (Pending(u)' <=> Pending(u))
  BY <1>4 DEF Mine, Pending
<1>13. ASSUME NEW u \in Thread, Pending(u)', Kept(Mine(u))'
       PROVE  /\ Stored(Mine(u))' /\ Mine(u)' \notin dirs'
              /\ \A v \in Thread : Pending(v)' /\ Mine(v)' = Mine(u)' => v = u
  <2>1. u # t /\ Pending(u) /\ Mine(u)' = Mine(u) BY <1>11, <1>12, <1>13
  <2>2. PICK j \in IndexPath : j = Mine(u) BY SMT, <2>1, CallsTyped DEF Pending, NoCall
  <2>3. Kept(j) BY <1>13, <2>1, <2>2 DEF Kept
  <2>4. Stored(j) /\ j \notin dirs /\ \A v \in Thread : Pending(v) /\ Mine(v) = j => v = u
    BY <2>1, <2>2, <2>3 DEF Names
  <2>5. j # i BY <1>1, <2>1, <2>4
  <2>6. Stored(Mine(u))' BY <1>9, <2>1, <2>2, <2>4, <2>5 DEF Stored
  <2>. QED BY <1>4, <1>11, <1>12, <2>1, <2>2, <2>4, <2>6
<1>. QED BY <1>4, <1>7, <1>8, <1>10, <1>13 DEF Names, Stored, Kept

\* remove_index() touches removable indices only.
LEMMA RemoveNames ==
    ASSUME TypeOK, Names, NEW r \in Removable,
           (\E t \in Thread : remove_index_name(t, r)) \/ remove_directory(r)
    PROVE  TypeOK' /\ Names'
<1>1. process = "running" /\ UNCHANGED <<pmVars, dirs, created, process>>
  BY DEF remove_index_name, remove_directory, Up
<1>2. r \in Request BY MasterIndicesAssumption
<1>3. IndexNamespaceTypeOK /\ IndicesWrittenThrough BY <1>1 DEF TypeOK, Names, WriteThrough
<1>4. /\ IndexNamespaceTypeOK' /\ IndicesWrittenThrough'
      /\ \A q \in Path, m \in Name :
           m \in NamesIn(idxStore, q) /\ q # cleanup_path[r[1]] => m \in NamesIn(idxStore, q)'
  <2>1. CASE \E status \in Status : remove(r[1], r[2], status)
    BY <1>2, <1>3, <2>1, Requests, RemoveEffect
  <2>2. CASE \E status \in Status : remove_node(r[1], status)
    BY <1>2, <1>3, <2>2, Requests, RemoveNodeEffect
  <2>. QED BY <2>1, <2>2 DEF remove_index_name, remove_directory
<1>5. /\ call' \in [Thread -> Call \cup {NoCall}]
      /\ \A u \in Thread : Pending(u)' => call'[u].req = call[u].req /\ Pending(u)
  <2>1. CASE \E t \in Thread : remove_index_name(t, r)
    <3>1. PICK t \in Thread : remove_index_name(t, r) BY <2>1
    <3>2. call' = [call EXCEPT ![t] = [at |-> "partitions", req |-> r]]
      BY <3>1 DEF remove_index_name
    <3>. QED BY <1>2, <3>2 DEF TypeOK, Call, Pending
  <2>2. CASE remove_directory(r) BY <2>2 DEF remove_directory, TypeOK, Pending
  <2>. QED BY <2>1, <2>2
<1>6. TypeOK'
  <2>1. PartitionManagerTypeOK' BY <1>1 DEF TypeOK, PartitionManagerTypeOK, pmVars
  <2>. QED BY <1>1, <1>4, <1>5, <2>1 DEF TypeOK
<1>7. WriteThrough' BY <1>4 DEF WriteThrough
<1>8. \A i \in IndexPath : Kept(i) /\ Stored(i) => Stored(i)'
  <2>1. \A i \in IndexPath : i[1] \in Path /\ i[2] \in Name BY MasterIndicesAssumption
  <2>. QED BY <1>4, <2>1 DEF Stored, Kept
<1>. QED BY <1>1, <1>5, <1>6, <1>7, <1>8, NamesFramed

\* The other steps leave the names alone, or read them back.
LEMMA OtherNames ==
    ASSUME TypeOK, Names, TypeOK', UNCHANGED <<idxStore, dirs, created>>,
           \/ UNCHANGED <<nodes, process>> \/ process' = "down"
           \/ nodes' = idxStore,
           \A t \in Thread : call'[t] = call[t] \/ ~Pending(t)'
    PROVE  Names'
<1>1. \A i : Stored(i) => Stored(i)' BY DEF Stored, NamesIn
<1>2. WriteThrough' BY DEF Names, WriteThrough, IndicesWrittenThrough, NamesIn
<1>3. \A t \in Thread : Pending(t)' => call'[t].req = call[t].req /\ Pending(t)
  BY DEF Pending
<1>. QED BY <1>1, <1>2, <1>3, NamesFramed

(***************************************************************************)
(* The invariant of a master                                               *)
(***************************************************************************)

Stopped == process = "down" => \A t \in Thread : job[t] = Idle
Inv ==
    /\ TypeOK /\ Names /\ Stopped
    /\ Pointers /\ AckedIn(partStore) /\ (process = "running" => AckedIn(partitions))

\* The invariant holds of a master that starts with empty stores.
LEMMA InitInv == Init => Inv
<1>. SUFFICES ASSUME Init PROVE Inv OBVIOUS
<1>1. TypeOK
  <2>1. IndexNamespaceTypeOK BY DEF Init, Empty, IndexNamespaceTypeOK
  <2>2. PartitionManagerTypeOK BY DEF Init, NoPartitions, PartitionManagerTypeOK
  <2>. QED BY <2>1, <2>2 DEF Init, TypeOK
<1>2. Names
  <2>1. \A t \in Thread : ~Pending(t) BY DEF Init, Pending, NoCall
  <2>. QED BY <2>1 DEF Init, Names, WriteThrough, IndicesWrittenThrough
<1>3. Pointers BY DEF Init, Pointers, Idle
<1>. QED BY <1>1, <1>2, <1>3 DEF Init, Inv, Stopped, AckedIn

\* The steps of the partitions' own operations.
LEMMA PartitioningKept ==
    ASSUME Inv, Partitioning
    PROVE  Inv'
<1>1. process = "running" /\ UNCHANGED <<idxVars, dirs, call, created, process>>
  BY DEF Partitioning, Up
<1>2. PartitionManagerTypeOK /\ Partitions BY <1>1 DEF Inv, TypeOK, Partitions
<1>3. PartitionManagerTypeOK' /\ Partitions'
  <2>1. Partitioned \subseteq IndexPath /\ 0 \in Sep
    BY MasterIndicesAssumption, PartitionManagerAssumption
  <2>2. ASSUME NEW i \in Partitioned, NEW written \in BOOLEAN, add_index(i, written)
        PROVE  PartitionManagerTypeOK' /\ Partitions'
    BY <1>2, <2>1, <2>2, PartitionsTyped, AddIndexKept DEF Partitions
  <2>3. ASSUME NEW t \in Thread, NEW i \in Partitioned, NEW op \in {"add", "remove", "get"},
               NEW s \in Sep, find_partition(t, op, i, s)
        PROVE  PartitionManagerTypeOK' /\ Partitions'
    BY <1>2, <2>1, <2>3, PartitionsTyped, FindPartitionKept DEF Partitions
  <2>4. ASSUME NEW t \in Thread, use_partition(t) PROVE PartitionManagerTypeOK' /\ Partitions'
    BY <1>2, <2>4, PartitionsTyped, UsePartitionKept DEF Partitions
  <2>5. ASSUME NEW t \in Thread, NEW written \in BOOLEAN, write_partition_map(t, written)
        PROVE  PartitionManagerTypeOK' /\ Partitions'
    BY <1>2, <2>5, PartitionsTyped, WriteKept DEF Partitions
  <2>6. ASSUME NEW t \in Thread, use_freed(t) PROVE PartitionManagerTypeOK' /\ Partitions'
    <3>1. PartitionManagerTypeOK' BY <1>2, <2>6, PartitionsTyped DEF Partitions
    <3>2. Partitions' BY <1>2, <2>6 DEF use_freed, Partitions, Pointers, AckedIn
    <3>. QED BY <3>1, <3>2
  <2>. QED BY <2>1, <2>2, <2>3, <2>4, <2>5, <2>6 DEF Partitioning
<1>4. TypeOK' BY <1>1, <1>3 DEF Inv, TypeOK, idxVars, IndexNamespaceTypeOK
<1>5. Names' BY <1>1, <1>4, OtherNames DEF Inv, idxVars
<1>6. Stopped' BY <1>1 DEF Stopped
<1>. QED BY <1>3, <1>4, <1>5, <1>6 DEF Inv, Partitions

\* remove_index() of the partitions keeps the invariant.
LEMMA RemovePartitionsKept ==
    ASSUME Inv, NEW t \in Thread, remove_index_partitions(t)
    PROVE  Inv'
<1>0. call[t].at = "partitions" /\ Up BY DEF remove_index_partitions
<1>1. /\ process = "running" /\ UNCHANGED <<idxVars, dirs, created, process>>
      /\ call[t] # NoCall
  <2>1. UNCHANGED <<idxVars, dirs, created, process>>
    BY DEF remove_index_partitions
  <2>. QED BY SMT, <1>0, <2>1 DEF Up, NoCall
<1>2. Mine(t) \in IndexPath BY <1>1, CallsTyped DEF Inv
<1>3. PICK i \in IndexPath, written \in BOOLEAN : remove_index(i, written)
  BY <1>2 DEF remove_index_partitions, Mine
<1>4. PartitionManagerTypeOK /\ Partitions BY <1>1 DEF Inv, TypeOK, Partitions
<1>5. PartitionManagerTypeOK' BY <1>3, <1>4, PartitionsTyped DEF Partitions
<1>6. Partitions' BY <1>3, <1>4, RemoveIndexKept
<1>7. call' = [call EXCEPT ![t] = NoCall] BY DEF remove_index_partitions, Returns
<1>8. TypeOK' BY <1>1, <1>5, <1>7 DEF Inv, TypeOK, idxVars, IndexNamespaceTypeOK
<1>9. \A u \in Thread : call'[u] = call[u] \/ ~Pending(u)'
  BY <1>7 DEF Inv, TypeOK, Pending, NoCall
<1>10. Names' BY <1>1, <1>8, <1>9, OtherNames DEF Inv, idxVars
<1>11. Stopped' BY <1>1 DEF Stopped
<1>. QED BY <1>6, <1>8, <1>10, <1>11 DEF Inv, Partitions

\* So does a crash,
LEMMA CrashKept == ASSUME Inv, Crash PROVE Inv'
<1>1. TypeOK'
  <2>1. IndexNamespaceTypeOK' BY DEF Crash, Empty, Inv, TypeOK, IndexNamespaceTypeOK
  <2>2. PartitionManagerTypeOK' BY DEF Crash, NoPartitions, Inv, TypeOK, PartitionManagerTypeOK
  <2>. QED BY <2>1, <2>2 DEF Crash, Inv, TypeOK
<1>2. \A t \in Thread : ~Pending(t)' BY DEF Crash, Pending, NoCall
<1>3. Names' BY <1>1, <1>2, OtherNames DEF Crash, Inv
<1>4. Stopped' /\ Pointers' BY DEF Crash, Stopped, Pointers, Idle
<1>5. AckedIn(partStore)' BY DEF Crash, Inv, AckedIn
<1>. QED BY <1>1, <1>3, <1>4, <1>5 DEF Crash, Inv

\* and a restart, which reads the stores.
LEMMA RestartKept == ASSUME Inv, init PROVE Inv'
<1>1. TypeOK'
  BY DEF init, load_nodes, load_partitions, Inv, TypeOK, IndexNamespaceTypeOK, PartitionManagerTypeOK
<1>2. Names' BY <1>1, OtherNames DEF init, load_nodes, Inv
<1>3. Pointers'
  <2>1. \A t \in Thread : job'[t] = Idle BY DEF init, Inv, Stopped
  <2>2. Idle.at = "idle" BY DEF Idle
  <2>. QED BY <2>1, <2>2 DEF Pointers
<1>4. AckedIn(partStore)' /\ AckedIn(partitions)'
  BY DEF init, load_partitions, Inv, AckedIn
<1>. QED BY <1>1, <1>2, <1>3, <1>4 DEF init, Inv, Stopped

\* Every step keeps the invariant.
LEMMA InvKept == Inv /\ [Next]_vars => Inv'
<1>. SUFFICES ASSUME Inv, [Next]_vars PROVE Inv' OBVIOUS
<1>1. ASSUME UNCHANGED pmVars, process' = process, TypeOK', Names' PROVE Inv'
  BY <1>1 DEF pmVars, Inv, Stopped, Pointers, AckedIn
<1>2. ASSUME NEW t \in Thread, NEW r \in Request, create_index(t, r) PROVE Inv'
  BY <1>1, <1>2, CreateNames DEF create_index, Inv
<1>3. ASSUME NEW t \in Thread, create_index_mkdir(t) PROVE Inv'
  BY <1>1, <1>3, MkdirNames DEF create_index_mkdir, Inv
<1>4. ASSUME NEW t \in Thread, create_index_rollback(t) PROVE Inv'
  BY <1>1, <1>4, RollbackNames DEF create_index_rollback, Inv
<1>5. ASSUME NEW r \in Removable, (\E t \in Thread : remove_index_name(t, r)) \/ remove_directory(r)
      PROVE  Inv'
  BY <1>1, <1>5, RemoveNames DEF remove_index_name, remove_directory, Inv
<1>6. CASE UNCHANGED vars
  <2>1. TypeOK' BY <1>6 DEF vars, Inv, TypeOK, IndexNamespaceTypeOK, PartitionManagerTypeOK
  <2>2. Names' BY <1>6, <2>1, OtherNames DEF vars, Inv
  <2>. QED BY <1>1, <1>6, <2>1, <2>2 DEF vars, pmVars
<1>. QED
  BY <1>2, <1>3, <1>4, <1>5, <1>6, PartitioningKept, RemovePartitionsKept, CrashKept, RestartKept
  DEF Next

\* The variables of a master keep their types.
THEOREM MasterTypeOK == Spec => []TypeOK
<1>1. Inv => TypeOK BY DEF Inv
<1>. QED BY <1>1, InitInv, InvKept, PTL DEF Spec

\* In every order of calls, failed writes, crashes and restarts, memory lists
\* the indices that a restart would read back.
THEOREM MasterWriteThrough == Spec => []WriteThrough
<1>1. Inv => WriteThrough BY DEF Inv, Names
<1>. QED BY <1>1, InitInv, InvKept, PTL DEF Spec

\* No rollback, refused call or restart takes away the name or the directory of
\* an index whose create_index() returned OK and that nobody removes.
THEOREM MasterCreatedIsListed == Spec => []CreatedIsListed
<1>1. Inv => CreatedIsListed
  <2>1. \A i \in IndexPath : i[1] \in Path BY MasterIndicesAssumption
  <2>. QED BY <2>1 DEF Inv, TypeOK, Names, WriteThrough, IndicesWrittenThrough, CreatedIsListed,
                      Stored, Listed
<1>. QED BY <1>1, InitInv, InvKept, PTL DEF Spec

\* A directory of an index that nobody removes never lacks its name.
THEOREM MasterDirectoryIsListed == Spec => []DirectoryIsListed
<1>1. Inv => DirectoryIsListed
  <2>1. \A i \in IndexPath : i[1] \in Path BY MasterIndicesAssumption
  <2>. QED BY <2>1 DEF Inv, TypeOK, Names, WriteThrough, IndicesWrittenThrough, DirectoryIsListed,
                      Stored, Listed
<1>. QED BY <1>1, InitInv, InvKept, PTL DEF Spec

\* Until freed memory is used, a partition whose addition was acknowledged is in
\* the store until it is removed, whatever other threads add and remove.
THEOREM MasterAckedPartitionsStored == Spec => []AckedPartitionsStored
<1>1. Inv => AckedPartitionsStored BY DEF Inv, AckedIn, AckedPartitionsStored
<1>. QED BY <1>1, InitInv, InvKept, PTL DEF Spec

(***************************************************************************)
(* Lookups                                                                 *)
(***************************************************************************)

\* Only cleaned paths become keys.
LEMMA KeysCleaned ==
    ASSUME IndexNamespaceTypeOK, KeysClean, NEW p \in Path, NEW n \in Name, NEW status \in Status,
           insert(p, n, status) \/ remove(p, n, status) \/ remove_node(p, status)
    PROVE  KeysClean'
<1>. DEFINE key == cleanup_path[p]
<1>1. key \in Path /\ Clean(key) BY PathAssumption, IndexNamespaceAssumption
<1>2. \A q \in Path \ {key} : nodes'[q] = nodes[q] /\ idxStore'[q] = idxStore[q]
  BY DEF insert, remove, remove_node, IndexNamespaceTypeOK
<1>. QED BY <1>1, <1>2 DEF KeysClean, Clean

\* So the keys are clean after every step.
LEMMA KeysCleanKept == ASSUME Inv, KeysClean, [Next]_vars PROVE KeysClean'
<1>1. IndexNamespaceTypeOK BY DEF Inv, TypeOK
<1>2. CASE UNCHANGED <<nodes, idxStore>> BY <1>2 DEF KeysClean, Clean
<1>3. ASSUME NEW t \in Thread, NEW r \in Request, create_index(t, r) PROVE KeysClean'
  BY <1>1, <1>3, Requests, KeysCleaned DEF create_index
<1>4. ASSUME NEW t \in Thread, create_index_rollback(t) PROVE KeysClean'
  <2>1. call[t].at = "rollback" BY <1>4 DEF create_index_rollback
  <2>2. call[t] # NoCall BY SMT, <2>1 DEF NoCall
  <2>3. PICK r \in Request : r = call[t].req BY <2>2, CallsTyped DEF Inv
  <2>. QED BY <1>1, <1>4, <2>3, Requests, KeysCleaned DEF create_index_rollback
<1>5. ASSUME NEW r \in Removable, (\E t \in Thread : remove_index_name(t, r)) \/ remove_directory(r)
      PROVE  KeysClean'
  <2>1. r \in Request BY MasterIndicesAssumption
  <2>. QED BY <1>1, <1>5, <2>1, Requests, KeysCleaned DEF remove_index_name, remove_directory
<1>6. CASE Crash BY <1>6 DEF Crash, Empty, KeysClean, Clean
<1>7. CASE init BY <1>7 DEF init, load_nodes, KeysClean, Clean
<1>. QED
  BY <1>2, <1>3, <1>4, <1>5, <1>6, <1>7
  DEF Next, vars, idxVars, create_index_mkdir, remove_index_partitions, Partitioning

\* A set of places has a first one.
LEMMA FirstPlace ==
    ASSUME NEW S, S \subseteq Nat, S # {}
    PROVE  \E i \in S : \A j \in S : i <= j
<1>1. PICK i \in S : \A j \in S : ~(<<j, i>> \in OpToRel(<, Nat))
  BY NatLessThanWellFounded, WFMin
<1>2. ASSUME NEW j \in S PROVE i <= j
  <2>1. ~(j < i) BY <1>1 DEF OpToRel
  <2>. QED BY SMT, <2>1
<1>. QED BY <1>2

\* The partial paths of a file are paths, the whole path the first of them.
LEMMA StepsTyped ==
    ASSUME NEW f \in Path
    PROVE  Steps(f) \in Seq(Path) /\ 1 \in DOMAIN Steps(f) /\ DOMAIN Steps(f) \subseteq Nat
<1>1. Partials[f] \in Seq(Path) /\ Root \in Path BY IndexNamespaceAssumption
<1>. QED BY SMT, <1>1 DEF Steps

\* The loop of collect() and get_indices() reaches what is under a clean root.
LEMMA ScanReaches ==
    ASSUME IndexNamespaceTypeOK, NEW r \in Path, NEW n \in Name, NEW p \in Path,
           Clean(r), n \in NamesIn(nodes, p), <<r, p>> \in Below
    PROVE  p \in collect(r, n) /\ <<p, n>> \in get_indices(r, TRUE)
<1>1. nodes[p] # NoNode /\ n \in nodes[p] BY DEF NamesIn
<1>2. <<r, p>> \in StartsWith BY PathAssumption
<1>3. /\ Order[r] <= Order[p]
      /\ \A q \in Path : Order[r] <= Order[q] /\ Order[q] <= Order[p] => <<r, q>> \in StartsWith
  BY <1>2, PathAssumption
<1>4. \A a, b \in Path : Order[a] >= Order[b] <=> Order[b] <= Order[a]
  BY SMT, IndexNamespaceAssumption
<1>5. p \in scan(r) BY <1>1, <1>3, <1>4 DEF scan
<1>6. p \in collect(r, n) BY <1>1, <1>5 DEF collect
<1>7. <<p, n>> \in {p} \X nodes[p] BY <1>1
<1>8. <<p, n>> \in UNION {{q} \X nodes[q] : q \in scan(r)} BY <1>5, <1>7
<1>. QED BY <1>6, <1>8 DEF get_indices

\* find() stops at the innermost index above a clean path, when there is one.
LEMMA FindInnermost ==
    ASSUME IndexNamespaceTypeOK, KeysClean, NEW r \in Path, NEW n \in Name, Clean(r)
    PROVE  LET above == {p \in Path : n \in NamesIn(nodes, p) /\ <<p, r>> \in Below}
           IN  IF above = {} THEN find(r, n) = NoNode
               ELSE find(r, n) \in above /\ \A p \in above : <<p, find(r, n)>> \in Below
<1>. DEFINE above == {p \in Path : n \in NamesIn(nodes, p) /\ <<p, r>> \in Below}
            hits == {i \in DOMAIN Steps(r) : n \in NamesIn(nodes, Steps(r)[i])}
            first == CHOOSE i \in hits : \A j \in hits : i <= j
<1>1. /\ 1 \in DOMAIN Steps(r) /\ DOMAIN Steps(r) \subseteq Nat
      /\ \A i \in DOMAIN Steps(r) : Steps(r)[i] \in Path /\ 1 <= i
  <2>1. Steps(r) \in Seq(Path) BY StepsTyped
  <2>2. \A i \in DOMAIN Steps(r) : Steps(r)[i] \in Path /\ 1 <= i BY SMT, <2>1
  <2>. QED BY <2>2, StepsTyped
<1>2. \A i \in hits : Steps(r)[i] \in above
  <2>1. Steps(r)[1] = r /\ \A i, j \in DOMAIN Steps(r) : i <= j => <<Steps(r)[j], Steps(r)[i]>> \in Below
    BY PathAssumption
  <2>. QED BY <1>1, <2>1
<1>3. \A p \in above : \E i \in hits : Steps(r)[i] = p
  <2>. SUFFICES ASSUME NEW p \in above PROVE \E i \in hits : Steps(r)[i] = p OBVIOUS
  <2>1. Clean(p) BY DEF KeysClean, NamesIn
  <2>2. \E i \in DOMAIN Steps(r) : Steps(r)[i] = p BY <2>1, PathAssumption
  <2>. QED BY <2>2
<1>4. CASE above = {}
  <2>1. hits = {} BY <1>2, <1>4
  <2>. QED BY <1>4, <2>1 DEF find
<1>5. CASE above # {}
  <2>1. hits # {} /\ hits \subseteq Nat BY <1>1, <1>3, <1>5
  <2>2. first \in hits /\ \A j \in hits : first <= j
    <3>. HIDE DEF hits
    <3>. QED BY <2>1, FirstPlace
  <2>3. find(r, n) = Steps(r)[first] BY <2>1 DEF find
  <2>4. \A i, j \in DOMAIN Steps(r) : i <= j => <<Steps(r)[j], Steps(r)[i]>> \in Below
    BY PathAssumption
  <2>5. \A p \in above : <<p, Steps(r)[first]>> \in Below
    <3>. HIDE DEF first
    <3>. SUFFICES ASSUME NEW p \in above PROVE <<p, Steps(r)[first]>> \in Below OBVIOUS
    <3>1. PICK i \in hits : Steps(r)[i] = p BY <1>3
    <3>. QED BY <2>2, <2>4, <3>1
  <2>6. Steps(r)[first] \in above BY <1>2, <2>2
  <2>. QED BY <1>5, <2>3, <2>5, <2>6
<1>. QED BY <1>4, <1>5

\* Whatever has been inserted, removed, rolled back and reloaded, comparing
\* strings finds what the directory tree says: everything under a clean root,
\* and the innermost index above a clean path.
THEOREM MasterLookupsFollowTree == Spec => []LookupsFollowTree
<1>1. Init => KeysClean BY DEF Init, Empty, KeysClean
<1>2. Inv /\ KeysClean /\ [Next]_vars => KeysClean' BY KeysCleanKept
<1>3. ASSUME Inv, KeysClean PROVE LookupsFollowTree
  <2>. SUFFICES ASSUME NEW r \in Path, NEW n \in Name, Clean(r)
       PROVE  LET listed == {p \in Path : n \in NamesIn(nodes, p)}
                  above == {p \in listed : <<p, r>> \in Below}
              IN  /\ \A p \in listed : <<r, p>> \in Below =>
                         p \in collect(r, n) /\ <<p, n>> \in get_indices(r, TRUE)
                  /\ IF above = {} THEN find(r, n) = NoNode
                     ELSE /\ find(r, n) \in above
                          /\ \A p \in above : <<p, find(r, n)>> \in Below
    BY DEF LookupsFollowTree
  <2>0. IndexNamespaceTypeOK BY <1>3 DEF Inv, TypeOK
  <2>. DEFINE listed == {p \in Path : n \in NamesIn(nodes, p)}
              above == {p \in listed : <<p, r>> \in Below}
  <2>1. \A p \in listed : <<r, p>> \in Below =>
          p \in collect(r, n) /\ <<p, n>> \in get_indices(r, TRUE)
    BY <2>0, ScanReaches
  <2>2. above = {p \in Path : n \in NamesIn(nodes, p) /\ <<p, r>> \in Below} OBVIOUS
  <2>3. IF above = {} THEN find(r, n) = NoNode
        ELSE find(r, n) \in above /\ \A p \in above : <<p, find(r, n)>> \in Below
    <3>. HIDE DEF above
    <3>. QED BY <1>3, <2>0, <2>2, FindInnermost
  <2>. QED BY <2>1, <2>3
<1>. QED BY <1>1, <1>2, <1>3, InitInv, InvKept, PTL DEF Spec
=============================================================================
