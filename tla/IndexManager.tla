---------------------------- MODULE IndexManager ----------------------------
(***************************************************************************)
(* The indices of the index servers: IndexServer, IndexController and      *)
(* IndexManager (src/vsfs/indexd), with IndexImpl (src/vsfs/index), on     *)
(* servers that run with --update_immediately; RangeIndexWrapper.tla has   *)
(* the log of the others.                                                  *)
(*                                                                         *)
(* An index is known by the path of its partition, of which there is one,  *)
(* and lives in memory only.  create() changes the two maps of the manager *)
(* under lock_, but the map of the range indices is read without it.       *)
(***************************************************************************)
EXTENDS CommandLine

CONSTANTS
    Index,          \* the indices, each with its root directory and its name
    Server,         \* the index servers, 1 .. n
    Client,         \* the clients, each with a thread on the server it calls
    File,           \* the files, each its own object id
    NoIndex         \* what a server holds of an index it does not know

NoObject == "0"     \* the object id of a path that has no record
Unlocked == 0

Record == [key : Key, id : File \cup {NoObject}]

ASSUME IndexManagerAssumption ==
    /\ \A s \in SUBSET Record : s # NoIndex
    /\ Unlocked \notin Client
    /\ NoObject \notin File
    /\ Server \subseteq Nat

VARIABLES
    home,           \* the server that the path of a partition hashes to
    served,         \* the records of each index on its server
    lock,           \* the thread in create() on each server
    gone            \* history: indices that a server acknowledged and did not keep

imVars == <<home, served, lock, gone>>

IndexManagerTypeOK ==
    /\ home \in [Index -> Server]
    /\ DOMAIN served = Index
    /\ \A i \in Index : served[i] = NoIndex \/ served[i] \subseteq Record
    /\ lock \in [Server -> Client \cup {Unlocked}]
    /\ gone \in SUBSET Index

-----------------------------------------------------------------------------
(* create(), which keeps lock_ while it fills the maps *)

\* There is a range index for every type of key but the unknown one.
create_range_index(key) == key \in KeyType

\* Mutant: an index that is there is created again.
create_again(c, i, type, key, status) ==
    /\ lock[home[i]] = Unlocked
    /\ type = "btree" /\ status = "filling"
    /\ lock' = [lock EXCEPT ![home[i]] = c]
    /\ UNCHANGED <<home, served, gone>>
create(c, i, type, key, status) ==
    /\ lock[home[i]] = Unlocked
    /\ \/ /\ served[i] # NoIndex
          /\ status = "EEXIST"
          /\ UNCHANGED <<lock, gone>>
       \/ /\ served[i] = NoIndex /\ type = "btree" /\ create_range_index(key)
          /\ status = "filling"
          /\ lock' = [lock EXCEPT ![home[i]] = c]
          /\ UNCHANGED gone
       \/ /\ served[i] = NoIndex /\ type = "hash"       \* nothing is kept
          /\ status = "OK"
          /\ gone' = gone \cup {i}
          /\ UNCHANGED lock
       \/ /\ served[i] = NoIndex
          /\ type \notin {"btree", "hash"} \/ (type = "btree" /\ ~create_range_index(key))
          /\ status = "EINVAL"
          /\ UNCHANGED <<lock, gone>>
    /\ UNCHANGED <<home, served>>

create_filled(c, i) ==
    /\ lock[home[i]] = c
    /\ lock' = [lock EXCEPT ![home[i]] = Unlocked]
    /\ served' = [served EXCEPT ![i] = {}]
    /\ UNCHANGED <<home, gone>>

-----------------------------------------------------------------------------
(* update(), search() and info() of one index *)

\* Mutant: keys are not checked.
CastKeys_all(ops) == DOMAIN ops

\* The updates of a list, each at its place, up to the first that cannot be cast.
CastKeys(ops) == {j \in DOMAIN ops : \A h \in DOMAIN ops : h <= j => ops[h].key \in Key}
RecordsOf(ops) == {[key |-> ops[j].key, id |-> ops[j].id] : j \in CastKeys(ops)}

apply(records, kind, ops) ==
    IF kind = "REMOVE" THEN records \ RecordsOf(ops) ELSE records \cup RecordsOf(ops)

update_single_index(i, kind, ops, status) ==
    \/ /\ served[i] = NoIndex
       /\ status = "ENOENT"
       /\ UNCHANGED imVars
    \/ /\ served[i] # NoIndex
       /\ status = IF CastKeys(ops) = DOMAIN ops THEN "OK" ELSE "EINVAL"
       /\ served' = [served EXCEPT ![i] = apply(@, kind, ops)]
       /\ UNCHANGED <<home, lock, gone>>

search(i, range) == {r.id : r \in range_search(served[i], range)}

\* Every index that is kept is a range index, and so info() finds its size.
info(i, status) == status = IF served[i] = NoIndex THEN "ENOENT" ELSE "OK"

\* range_index_map_ is read while a create() may be moving its buckets.
ReadsMovingMap(i) == served[i] # NoIndex /\ lock[home[i]] # Unlocked

\* The process ends and is started again, with no index.
Crash(s) ==
    /\ served' = [i \in Index |-> IF home[i] = s THEN NoIndex ELSE served[i]]
    /\ gone' = gone \cup {i \in Index : home[i] = s /\ served[i] # NoIndex}
    /\ lock' = [lock EXCEPT ![s] = Unlocked]
    /\ UNCHANGED home
=============================================================================
