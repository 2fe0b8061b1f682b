------------------------------ MODULE Namespace ------------------------------
(***************************************************************************)
(* The namespace of one master (src/vsfs/masterd/namespace.cpp): three     *)
(* in-memory maps in front of a LevelDB store that they are written        *)
(* through to.  Every operation holds mutex_ from its first read to its    *)
(* last write, so each one is a single action; what interleaves with them  *)
(* is the failure of a store write, the death of the process, and init(),  *)
(* which rebuilds the maps from the store.                                 *)
(*                                                                         *)
(* The maps keep their names without the trailing underscore.  The store   *)
(* is shown as its two kinds of keys: "/path" (metadata) and "dir:/path"   *)
(* (directory entries).  A failed CHECK() aborts the process.              *)
(***************************************************************************)
EXTENDS Integers

CONSTANTS
    Path,           \* every absolute path that may appear in a request
    FilePath,       \* those that create() is called with
    DirPath,        \* those that mkdir() is called with
    Root,           \* "/"
    Parent,         \* fs::path(c).parent_path(), for each path but the root
    KeyOrder,       \* the order in which the store's iterator yields the paths
    HashPrefix,     \* the top 16 bits of path_to_hash(p)
    IdModulus,      \* 2^48: the counter part of an object id wraps here
    MaxCreates,     \* bound: object ids one process hands out
    Attr,           \* the metadata that no operation looks at
    Absent          \* no such key

Child == Path \ {Root}
Serial == 0 .. IdModulus - 1
ObjectId == {<<HashPrefix[p], n>> : p \in Path, n \in Serial} \cup {<<0, 0>>}
DirObject == <<0, 0>>
FileMetadata == [type : {"reg", "dir", "none"}, object_id : ObjectId, attr : Attr]

ASSUME PathAssumption ==
    /\ Root \in Path
    /\ FilePath \subseteq Path
    /\ DirPath \subseteq Path
    /\ Parent \in [Child -> Path]

\* A scan of the store ends: some key is the last one.
ASSUME KeyOrderAssumption ==
    /\ KeyOrder \in [Path -> Nat]
    /\ \A p, q \in Path : KeyOrder[p] = KeyOrder[q] => p = q
    /\ \A S \in SUBSET Path : S # {} =>
            \E p \in S : \A q \in S : KeyOrder[q] <= KeyOrder[p]

\* Left out: a path whose hash begins with 16 zero bits and that is handed
\* serial 0, and so the object id 0 that stands for "no object".
ASSUME IdAssumption ==
    /\ HashPrefix \in [Path -> Nat \ {0}]
    /\ IdModulus \in Nat \ {0}
    /\ MaxCreates \in Nat
    /\ MaxCreates <= IdModulus

ASSUME AbsentAssumption ==
    /\ Absent \notin Path
    /\ Absent \notin FileMetadata
    /\ \A S \in SUBSET Child : Absent # S

VARIABLES
    process,            \* what became of the master process
    metadata_map,       \* path -> metadata
    directories,        \* path -> the children it lists
    id_to_path_map,     \* object id -> path
    next_obj_id,        \* its low 48 bits
    metaStore,          \* the "/..." keys of the store
    dirStore,           \* the "dir:/..." keys of the store
    reply,              \* the status of the last operation
    creates,            \* history: object ids handed out by this process
    young               \* history: the files this process created

memory == <<metadata_map, directories, id_to_path_map>>
store == <<metaStore, dirStore>>
history == <<creates, young>>
vars == <<process, memory, next_obj_id, store, reply, history>>

Op == {"create", "remove", "mkdir", "rmdir", "add_subfile",
       "remove_subfile", "setattr"}
Status == {"OK", "EEXIST", "ENOENT", "EISDIR", "ENOTEMPTY", "EIO"}
NoReply == [op |-> "nop", path |-> Root, status |-> "lost"]

TypeOK ==
    /\ process \in {"down", "running", "check_init", "check_create",
                    "check_remove"}
    /\ metadata_map \in [Path -> FileMetadata \cup {Absent}]
    /\ directories \in [Path -> {Absent} \cup SUBSET Child]
    /\ id_to_path_map \in [ObjectId -> Path \cup {Absent}]
    /\ next_obj_id \in Serial
    /\ metaStore \in [Path -> FileMetadata \cup {Absent}]
    /\ dirStore \in SUBSET Child
    /\ reply \in [op : Op, path : Path, status : Status] \cup {NoReply}
    /\ creates \in 0 .. MaxCreates
    /\ young \in SUBSET Path

running == process = "running"
present(map, k) == map[k] # Absent

-----------------------------------------------------------------------------
(* Lookups *)

object_id(p) == metadata_map[p].object_id
file_path(oid) == id_to_path_map[oid]
getattr(p) == metadata_map[p]
readdir(d) == directories[d]

\* The id of a path, 0 for a path that is not there.
find_objects(p) == IF present(metadata_map, p) THEN object_id(p) ELSE <<0, 0>>

\* The path of an id, "" for an id that is not there.
find_files(oid) == IF present(id_to_path_map, oid) THEN id_to_path_map[oid] ELSE Absent

-----------------------------------------------------------------------------
Answer(op, p, s) == reply' = [op |-> op, path |-> p, status |-> s]

\* An operation that looks at the maps and returns an error.
Refuse(op, p, s) ==
    /\ Answer(op, p, s)
    /\ UNCHANGED <<process, memory, next_obj_id, store, history>>

\* Nothing of the maps survives the process.
LoseMemory ==
    /\ metadata_map' = [p \in Path |-> Absent]
    /\ directories' = [p \in Path |-> Absent]
    /\ id_to_path_map' = [o \in ObjectId |-> Absent]
    /\ creates' = 0
    /\ young' = {}
    /\ reply' = NoReply
    /\ UNCHANGED next_obj_id

\* A CHECK() that does not hold.
Abort(check) ==
    /\ process' = check
    /\ LoseMemory

\* Mutant: the counter is left out of the id.
get_object_id_prefix_only(p) == <<HashPrefix[p], 0>>

get_object_id(p) == <<HashPrefix[p], next_obj_id>>

\* Mutant: the counter spills into the hash bits.
NextSerialUnmasked == next_obj_id + 1

NextSerial == IF next_obj_id + 1 = IdModulus THEN 0 ELSE next_obj_id + 1

create(p) ==
    LET oid == get_object_id(p)
        meta(a) == [type |-> "reg", object_id |-> oid, attr |-> a]
    IN
    /\ running
    /\ \/ /\ present(metadata_map, p)
          /\ Refuse("create", p, "EEXIST")
       \/ /\ ~present(metadata_map, p)
          /\ creates < MaxCreates
          /\ IF id_to_path_map[oid] = p
             THEN Abort("check_create") /\ UNCHANGED store
             ELSE /\ next_obj_id' = NextSerial
                  /\ creates' = creates + 1
                  /\ \/ /\ \E a \in Attr :
                             /\ metadata_map' = [metadata_map EXCEPT ![p] = meta(a)]
                             /\ metaStore' = [metaStore EXCEPT ![p] = meta(a)]
                        /\ id_to_path_map' = [id_to_path_map EXCEPT ![oid] = p]
                        /\ young' = young \cup {p}
                        /\ Answer("create", p, "OK")
                     \* store_->put() failed.  The roll back reads the id
                     \* through a reference into the node it has just erased:
                     \* either the id is still there, or the entry stays.
                     \/ /\ \E left \in {p, Absent} :
                             id_to_path_map' = [id_to_path_map EXCEPT ![oid] = left]
                        /\ Answer("create", p, "EIO")
                        /\ UNCHANGED <<metadata_map, metaStore, young>>
                  /\ UNCHANGED <<process, directories, dirStore>>

remove(p) ==
    LET oid == object_id(p) IN
    /\ running
    /\ \/ /\ ~present(metadata_map, p)
          /\ Refuse("remove", p, "ENOENT")
       \/ /\ present(metadata_map, p)
          /\ metadata_map[p].type = "dir"
          /\ Refuse("remove", p, "EISDIR")
       \/ /\ present(metadata_map, p)
          /\ metadata_map[p].type # "dir"
          /\ Refuse("remove", p, "EIO")
       \/ /\ present(metadata_map, p)
          /\ metadata_map[p].type # "dir"
          /\ metaStore' = [metaStore EXCEPT ![p] = Absent]
          /\ IF id_to_path_map[oid] # p
             THEN Abort("check_remove")
             ELSE /\ metadata_map' = [metadata_map EXCEPT ![p] = Absent]
                  /\ id_to_path_map' = [id_to_path_map EXCEPT ![oid] = Absent]
                  /\ young' = young \ {p}
                  /\ Answer("remove", p, "OK")
                  /\ UNCHANGED <<process, directories, next_obj_id, creates>>
          /\ UNCHANGED dirStore

\* Mutant: no roll back when the record cannot be stored.
mkdir_no_rollback(p) ==
    LET meta(a) == [type |-> "dir", object_id |-> DirObject, attr |-> a] IN
    /\ running
    /\ ~present(metadata_map, p)
    /\ \E a \in Attr : metadata_map' = [metadata_map EXCEPT ![p] = meta(a)]
    /\ directories' = [directories EXCEPT ![p] = {}]
    /\ \/ /\ metaStore' = [metaStore EXCEPT ![p] = metadata_map'[p]]
          /\ Answer("mkdir", p, "OK")
       \/ /\ Answer("mkdir", p, "EIO")
          /\ UNCHANGED metaStore
    /\ UNCHANGED <<process, id_to_path_map, next_obj_id, dirStore, history>>

mkdir(p) ==
    LET meta(a) == [type |-> "dir", object_id |-> DirObject, attr |-> a] IN
    /\ running
    /\ \/ /\ present(metadata_map, p)
          /\ Refuse("mkdir", p, "EEXIST")
       \/ /\ ~present(metadata_map, p)
          /\ \E a \in Attr :
               /\ metadata_map' = [metadata_map EXCEPT ![p] = meta(a)]
               /\ metaStore' = [metaStore EXCEPT ![p] = meta(a)]
          \* emplace() leaves an existing Directory as it is.
          /\ directories' = [directories EXCEPT ![p] = IF @ = Absent THEN {} ELSE @]
          /\ Answer("mkdir", p, "OK")
          /\ UNCHANGED <<process, id_to_path_map, next_obj_id, dirStore, history>>
       \* store_->put() failed: both maps are rolled back.
       \/ /\ ~present(metadata_map, p)
          /\ directories' = [directories EXCEPT ![p] = Absent]
          /\ Answer("mkdir", p, "EIO")
          /\ UNCHANGED <<process, metadata_map, id_to_path_map, next_obj_id,
                         store, history>>

\* Mutant: the directory need not be empty.
rmdir_any(p) ==
    /\ running
    /\ present(directories, p)
    /\ metaStore' = [metaStore EXCEPT ![p] = Absent]
    /\ metadata_map' = [metadata_map EXCEPT ![p] = Absent]
    /\ directories' = [directories EXCEPT ![p] = Absent]
    /\ Answer("rmdir", p, "OK")
    /\ UNCHANGED <<process, id_to_path_map, next_obj_id, dirStore, history>>

rmdir(p) ==
    /\ running
    /\ \/ /\ ~present(directories, p)
          /\ Refuse("rmdir", p, "ENOENT")
       \/ /\ present(directories, p)
          /\ directories[p] # {}
          /\ Refuse("rmdir", p, "ENOTEMPTY")
       \/ /\ directories[p] = {}
          /\ Refuse("rmdir", p, "EIO")
       \/ /\ directories[p] = {}
          /\ metaStore' = [metaStore EXCEPT ![p] = Absent]
          /\ metadata_map' = [metadata_map EXCEPT ![p] = Absent]
          /\ directories' = [directories EXCEPT ![p] = Absent]
          /\ Answer("rmdir", p, "OK")
          /\ UNCHANGED <<process, id_to_path_map, next_obj_id, dirStore, history>>

add_subfile(c) ==
    LET parent == Parent[c] IN
    /\ running
    /\ \/ /\ ~present(directories, parent)
          /\ Refuse("add_subfile", c, "ENOENT")
       \/ /\ present(directories, parent)
          /\ c \in directories[parent]
          /\ Refuse("add_subfile", c, "EEXIST")
       \/ /\ present(directories, parent)
          /\ c \notin directories[parent]
          /\ Refuse("add_subfile", c, "EIO")
       \/ /\ present(directories, parent)
          /\ c \notin directories[parent]
          /\ dirStore' = dirStore \cup {c}
          /\ directories' = [directories EXCEPT ![parent] = @ \cup {c}]
          /\ Answer("add_subfile", c, "OK")
          /\ UNCHANGED <<process, metadata_map, id_to_path_map, next_obj_id,
                         metaStore, history>>

remove_subfile(c) ==
    LET parent == Parent[c] IN
    /\ running
    /\ \/ /\ ~present(directories, parent)
          /\ Refuse("remove_subfile", c, "ENOENT")
       \/ /\ present(directories, parent)
          /\ c \notin directories[parent]
          /\ Refuse("remove_subfile", c, "ENOENT")
       \/ /\ present(directories, parent)
          /\ c \in directories[parent]
          /\ Refuse("remove_subfile", c, "EIO")
       \/ /\ present(directories, parent)
          /\ c \in directories[parent]
          /\ dirStore' = dirStore \ {c}
          /\ directories' = [directories EXCEPT ![parent] = @ \ {c}]
          /\ Answer("remove_subfile", c, "OK")
          /\ UNCHANGED <<process, metadata_map, id_to_path_map, next_obj_id,
                         metaStore, history>>

\* The mode of the request replaces the stored one whole.  The FUSE kernel
\* sends the type bits along; a bare VSFSRpcClient::chmod(path, 0755) does not.
setattr(p, keepsType, a) ==
    LET meta == [metadata_map[p] EXCEPT
                    !.attr = a, !.type = IF keepsType THEN @ ELSE "none"]
    IN
    /\ running
    /\ \/ /\ ~present(metadata_map, p)
          /\ Refuse("setattr", p, "ENOENT")
       \/ /\ present(metadata_map, p)
          /\ metadata_map' = [metadata_map EXCEPT ![p] = meta]
          \* The change stays in memory when the store refuses it.
          /\ \/ /\ metaStore' = [metaStore EXCEPT ![p] = meta]
                /\ Answer("setattr", p, "OK")
             \/ /\ Answer("setattr", p, "EIO")
                /\ UNCHANGED metaStore
          /\ UNCHANGED <<process, directories, id_to_path_map, next_obj_id,
                         dirStore, history>>

-----------------------------------------------------------------------------
(* The process *)

Crash ==
    /\ running
    /\ process' = "down"
    /\ LoseMemory
    /\ UNCHANGED store

\* The store's records whose key init() enters into id_to_path_map_ under oid.
LoadedAs(oid) == {p \in Path : /\ present(metaStore, p)
                               /\ metaStore[p].type # "dir"
                               /\ metaStore[p].object_id = oid}

isStoredDir(p) == present(metaStore, p) /\ metaStore[p].type = "dir"

\* The iterator yields the "/" keys before the "dir:" keys, each kind in order.
init ==
    /\ ~running
    /\ IF \A c \in dirStore : isStoredDir(Parent[c])
       THEN /\ process' = "running"
            /\ metadata_map' = metaStore
            /\ directories' = [p \in Path |->
                   IF isStoredDir(p) THEN {c \in dirStore : Parent[c] = p} ELSE Absent]
            /\ id_to_path_map' = [oid \in ObjectId |->
                   IF LoadedAs(oid) = {} THEN Absent
                   ELSE CHOOSE p \in LoadedAs(oid) :
                          \A q \in LoadedAs(oid) : KeyOrder[q] <= KeyOrder[p]]
            \* No constructor gives next_obj_id_ a value, nor does init().
            /\ next_obj_id' \in Serial
            /\ reply' = NoReply
            /\ UNCHANGED history
       ELSE Abort("check_init")
    /\ UNCHANGED store

-----------------------------------------------------------------------------
Init ==
    /\ process = "down"
    /\ metadata_map = [p \in Path |-> Absent]
    /\ directories = [p \in Path |-> Absent]
    /\ id_to_path_map = [o \in ObjectId |-> Absent]
    /\ next_obj_id = 0
    /\ metaStore = [p \in Path |-> Absent]
    /\ dirStore = {}
    /\ reply = NoReply
    /\ creates = 0
    /\ young = {}

Next ==
    \/ \E p \in FilePath : create(p)
    \/ \E p \in DirPath : mkdir(p)
    \/ \E p \in Path : remove(p) \/ rmdir(p)
    \/ \E c \in Child : add_subfile(c) \/ remove_subfile(c)
    \/ \E p \in Path, keepsType \in BOOLEAN, a \in Attr : setattr(p, keepsType, a)
    \/ Crash
    \/ init

Spec == Init /\ [][Next]_vars

-----------------------------------------------------------------------------
(* The inductive invariant: what each map and the store owe each other. *)

\* The CHECK in create(), that the new id is not already mapped to the path,
\* never fails, although failed creates may leave such entries behind.
CreateCheckHolds == process # "check_create"

\* The serials that this process has handed out, of files or of failed creates.
Recent(n) ==
    \/ n < next_obj_id /\ next_obj_id - n <= creates
    \/ n >= next_obj_id /\ next_obj_id + IdModulus - n <= creates

MetadataAgree == \A p \in Path :
    /\ present(metadata_map, p) <=> present(metaStore, p)
    /\ present(metaStore, p) =>
          /\ metadata_map[p].object_id = metaStore[p].object_id
          /\ metadata_map[p].type \in {metaStore[p].type, "none"}

DirectoriesAgree == \A d \in Path :
    /\ present(directories, d) =>
          /\ directories[d] = {c \in dirStore : Parent[c] = d}
          /\ present(metadata_map, d)
          /\ metadata_map[d].object_id = DirObject
          /\ metadata_map[d].type # "reg"
    /\ (present(metadata_map, d) /\ metadata_map[d].type = "dir")
          => present(directories, d)

EntriesListed == \A c \in dirStore : present(directories, Parent[c])

\* An id leads to the file that has it, or was handed out by this process.
IdsLead == \A o \in ObjectId : present(id_to_path_map, o) =>
    \/ o # DirObject /\ Recent(o[2])
    \/ /\ present(metadata_map, id_to_path_map[o])
       /\ metadata_map[id_to_path_map[o]].object_id = o
       /\ ~present(directories, id_to_path_map[o])

YoungFound == \A p \in young :
    /\ present(metadata_map, p)
    /\ metadata_map[p].object_id # DirObject
    /\ Recent(metadata_map[p].object_id[2])
    /\ id_to_path_map[metadata_map[p].object_id] = p

StoredDirsHaveNoObject == \A p \in Path :
    isStoredDir(p) => metaStore[p].object_id = DirObject

IInv ==
    /\ StoredDirsHaveNoObject
    /\ CreateCheckHolds
    /\ running => /\ MetadataAgree
                  /\ DirectoriesAgree
                  /\ EntriesListed
                  /\ IdsLead
                  /\ YoungFound
    /\ ~running => creates = 0 /\ young = {}

-----------------------------------------------------------------------------
(* Properties *)

\* While the master runs, its maps hold the paths, the object ids and the
\* directory listings that init() would rebuild from the store, whatever store
\* writes failed and however often the process died and came back.  Only the
\* other attributes may differ (a setattr whose put() failed).
WriteThrough ==
    running =>
        /\ \A p \in Path :
              /\ present(metadata_map, p) <=> present(metaStore, p)
              /\ present(metaStore, p) =>
                    /\ object_id(p) = metaStore[p].object_id
                    /\ metadata_map[p].type \in {metaStore[p].type, "none"}
        /\ \A d \in Path : present(directories, d) =>
              directories[d] = {c \in dirStore : Parent[c] = d}

\* A directory that lists a child is never deleted, by rmdir() or by remove():
\* no "dir:" key survives the record of its directory while the master runs.
ListedParentStays ==
    running => \A c \in dirStore : /\ present(directories, Parent[c])
                                   /\ present(metaStore, Parent[c])

\* A file created by this process is found again under the id that create()
\* returned for it, until it is removed: no other create(), failed create() or
\* remove() takes its entry out of id_to_path_map_.
LookupRoundTrip ==
    running => \A p \in young : /\ present(metadata_map, p)
                                /\ find_files(find_objects(p)) = p
                                /\ file_path(getattr(p).object_id) = p

\* "An object ID is the global unique ID in the system" (namespace.h): no two
\* files that exist together have the same id.
ObjectIdUnique ==
    \A p, q \in Path :
        /\ present(metaStore, p) /\ metaStore[p].type = "reg"
        /\ present(metaStore, q) /\ metaStore[q].type = "reg"
        /\ metaStore[p].object_id = metaStore[q].object_id
        => p = q

\* The namespace is a DirTree: seen through the maps while the master runs and
\* through the store while it does not, each operation is atomic, its status
\* is true of the tree, and a crash undoes only what no reply acknowledged.
kindOf(meta) == IF meta = Absent THEN "absent" ELSE meta.type

Tree == INSTANCE DirTree WITH
    records <- [p \in Path |->
                  IF running THEN kindOf(metadata_map[p]) ELSE kindOf(metaStore[p])],
    entries <- dirStore

ImplementsDirTree == Tree!Spec
=============================================================================
