--------------------------- MODULE NamespaceProofs ---------------------------
(* Proofs about Namespace, for every set of paths and every bound.          *)
EXTENDS Namespace, TLAPS

\* Leaves are for Zenon, unless they name SMT.
USE Zenon

\* The ids that create() and mkdir() put into a record are object ids, and the
\* counter part of an id stays within its 48 bits.
LEMMA IdTypes ==
    ASSUME TypeOK
    PROVE  /\ \A p \in Path : get_object_id(p) \in ObjectId
           /\ DirObject \in ObjectId
           /\ NextSerial \in Serial
BY SMT, IdAssumption DEF TypeOK, get_object_id, ObjectId, DirObject, Serial,
                           NextSerial

\* An answer is one of the replies that TypeOK allows.
LEMMA AnswerType ==
    ASSUME NEW op \in Op, NEW p \in Path, NEW s \in Status, Answer(op, p, s)
    PROVE  reply' \in [op : Op, path : Path, status : Status] \cup {NoReply}
BY DEF Answer

\* Losing the maps, in a crash or a failed CHECK, keeps the types.
LEMMA LoseMemoryType ==
    ASSUME TypeOK, LoseMemory,
           process' \in {"down", "running", "check_init", "check_create",
                         "check_remove"},
           metaStore' \in [Path -> FileMetadata \cup {Absent}],
           dirStore' \in SUBSET Child
    PROVE  TypeOK'
BY SMT, IdAssumption DEF TypeOK, LoseMemory

\* The record that init() enters last under an id is one of those with that id.
LEMMA LastKey ==
    ASSUME NEW S \in SUBSET Path, S # {}
    PROVE  (CHOOSE p \in S : \A q \in S : KeyOrder[q] <= KeyOrder[p]) \in S
BY KeyOrderAssumption

\* Every operation, crash and restart of the master keeps each map a map.
THEOREM TypeCorrect == Spec => []TypeOK
<1>1. Init => TypeOK
  BY SMT, IdAssumption DEF Init, TypeOK, Serial
<1>2. TypeOK /\ [Next]_vars => TypeOK'
  <2> SUFFICES ASSUME TypeOK, [Next]_vars PROVE TypeOK'
    OBVIOUS
  <2> USE PathAssumption
  <2>r. ASSUME NEW op \in Op, NEW p \in Path, NEW s \in Status, Refuse(op, p, s)
        PROVE  TypeOK'
    BY <2>r, AnswerType DEF Refuse, TypeOK, memory, store, history
  <2>1. ASSUME NEW p \in FilePath, create(p) PROVE TypeOK'
    <3> DEFINE oid == get_object_id(p)
    <3> DEFINE meta(x) == [type |-> "reg", object_id |-> oid, attr |-> x]
    <3>1. CASE Refuse("create", p, "EEXIST")
      BY <3>1, <2>r DEF Op, Status
    <3>2. CASE Abort("check_create") /\ UNCHANGED store
      BY <3>2, LoseMemoryType DEF Abort, store, TypeOK
    <3>3. ASSUME creates < MaxCreates,
                 next_obj_id' = NextSerial, creates' = creates + 1,
                 UNCHANGED <<process, directories, dirStore>>,
                 NEW x \in Attr,
                 metadata_map' = [metadata_map EXCEPT ![p] = meta(x)],
                 metaStore' = [metaStore EXCEPT ![p] = meta(x)],
                 id_to_path_map' = [id_to_path_map EXCEPT ![oid] = p],
                 young' = young \cup {p},
                 Answer("create", p, "OK")
          PROVE  TypeOK'
      <4>1. meta(x) \in FileMetadata
        BY <3>3, IdTypes DEF FileMetadata
      <4>2. reply' \in [op : Op, path : Path, status : Status]
        BY <3>3 DEF Answer, Op, Status
      <4> HIDE DEF meta, oid
      <4>3. creates' \in 0 .. MaxCreates
        BY SMT, <3>3, IdAssumption DEF TypeOK
      <4> QED BY <3>3, <4>1, <4>2, <4>3, IdTypes DEF TypeOK
    <3>4. ASSUME creates < MaxCreates,
                 next_obj_id' = NextSerial, creates' = creates + 1,
                 UNCHANGED <<process, directories, dirStore>>,
                 NEW left \in {p, Absent},
                 id_to_path_map' = [id_to_path_map EXCEPT ![oid] = left],
                 Answer("create", p, "EIO"),
                 UNCHANGED <<metadata_map, metaStore, young>>
          PROVE  TypeOK'
      <4>2. reply' \in [op : Op, path : Path, status : Status]
        BY <3>4 DEF Answer, Op, Status
      <4> HIDE DEF oid
      <4>3. creates' \in 0 .. MaxCreates
        BY SMT, <3>4, IdAssumption DEF TypeOK
      <4> QED BY <3>4, <4>2, <4>3, IdTypes DEF TypeOK
    <3> QED BY <2>1, <3>1, <3>2, <3>3, <3>4 DEF create
  <2>2. ASSUME NEW p \in Path, remove(p) PROVE TypeOK'
    <3>1. ASSUME NEW s \in {"ENOENT", "EISDIR", "EIO"}, Refuse("remove", p, s)
          PROVE  TypeOK'
      BY <3>1, <2>r DEF Op, Status
    <3>2. CASE /\ Abort("check_remove")
               /\ metaStore' = [metaStore EXCEPT ![p] = Absent]
               /\ UNCHANGED dirStore
      BY <3>2, LoseMemoryType DEF Abort, TypeOK
    <3>3. CASE /\ metaStore' = [metaStore EXCEPT ![p] = Absent]
               /\ metadata_map' = [metadata_map EXCEPT ![p] = Absent]
               /\ id_to_path_map' = [id_to_path_map EXCEPT ![object_id(p)] = Absent]
               /\ young' = young \ {p}
               /\ Answer("remove", p, "OK")
               /\ UNCHANGED <<process, directories, next_obj_id, creates, dirStore>>
      <4>1. reply' \in [op : Op, path : Path, status : Status]
        BY <3>3 DEF Answer, Op, Status
      <4> QED BY <3>3, <4>1 DEF TypeOK
    <3> QED BY <2>2, <3>1, <3>2, <3>3 DEF remove
  <2>3. ASSUME NEW p \in DirPath, mkdir(p) PROVE TypeOK'
    <3> DEFINE meta(x) == [type |-> "dir", object_id |-> DirObject, attr |-> x]
    <3>1. CASE Refuse("mkdir", p, "EEXIST")
      BY <3>1, <2>r DEF Op, Status
    <3>2. ASSUME NEW x \in Attr,
                 metadata_map' = [metadata_map EXCEPT ![p] = meta(x)],
                 metaStore' = [metaStore EXCEPT ![p] = meta(x)],
                 directories' = [directories EXCEPT ![p] =
                                    IF @ = Absent THEN {} ELSE @],
                 Answer("mkdir", p, "OK"),
                 UNCHANGED <<process, id_to_path_map, next_obj_id, dirStore, history>>
          PROVE  TypeOK'
      <4>1. meta(x) \in FileMetadata
        BY <3>2, IdTypes DEF FileMetadata
      <4>2. reply' \in [op : Op, path : Path, status : Status]
        BY <3>2 DEF Answer, Op, Status
      <4> HIDE DEF meta
      <4> QED BY <3>2, <4>1, <4>2 DEF TypeOK, history
    <3>3. CASE /\ directories' = [directories EXCEPT ![p] = Absent]
               /\ Answer("mkdir", p, "EIO")
               /\ UNCHANGED <<process, metadata_map, id_to_path_map, next_obj_id,
                              store, history>>
      <4>1. reply' \in [op : Op, path : Path, status : Status]
        BY <3>3 DEF Answer, Op, Status
      <4> QED BY <3>3, <4>1 DEF TypeOK, store, history
    <3> QED BY <2>3, <3>1, <3>2, <3>3 DEF mkdir
  <2>4. ASSUME NEW p \in Path, rmdir(p) PROVE TypeOK'
    <3>1. ASSUME NEW s \in {"ENOENT", "ENOTEMPTY", "EIO"}, Refuse("rmdir", p, s)
          PROVE  TypeOK'
      BY <3>1, <2>r DEF Op, Status
    <3>2. CASE /\ metaStore' = [metaStore EXCEPT ![p] = Absent]
               /\ metadata_map' = [metadata_map EXCEPT ![p] = Absent]
               /\ directories' = [directories EXCEPT ![p] = Absent]
               /\ Answer("rmdir", p, "OK")
               /\ UNCHANGED <<process, id_to_path_map, next_obj_id, dirStore, history>>
      <4>1. reply' \in [op : Op, path : Path, status : Status]
        BY <3>2 DEF Answer, Op, Status
      <4> QED BY <3>2, <4>1 DEF TypeOK, history
    <3> QED BY <2>4, <3>1, <3>2 DEF rmdir
  <2>5. ASSUME NEW c \in Child, add_subfile(c) PROVE TypeOK'
    <3>p. Parent[c] \in Path /\ c \in Path
      BY DEF Child
    <3>1. ASSUME NEW s \in {"ENOENT", "EEXIST", "EIO"}, Refuse("add_subfile", c, s)
          PROVE  TypeOK'
      BY <3>1, <3>p, <2>r DEF Op, Status
    <3>2. CASE /\ present(directories, Parent[c])
               /\ dirStore' = dirStore \cup {c}
               /\ directories' = [directories EXCEPT ![Parent[c]] = @ \cup {c}]
               /\ Answer("add_subfile", c, "OK")
               /\ UNCHANGED <<process, metadata_map, id_to_path_map, next_obj_id,
                              metaStore, history>>
      <4>1. reply' \in [op : Op, path : Path, status : Status]
        BY <3>2, <3>p DEF Answer, Op, Status
      <4>2. directories[Parent[c]] \cup {c} \in SUBSET Child
        BY <3>2, <3>p DEF TypeOK, present
      <4> QED BY <3>2, <4>1, <4>2 DEF TypeOK, history
    <3> QED BY <2>5, <3>1, <3>2 DEF add_subfile
  <2>6. ASSUME NEW c \in Child, remove_subfile(c) PROVE TypeOK'
    <3>p. Parent[c] \in Path /\ c \in Path
      BY DEF Child
    <3>1. ASSUME NEW s \in {"ENOENT", "EIO"}, Refuse("remove_subfile", c, s)
          PROVE  TypeOK'
      BY <3>1, <3>p, <2>r DEF Op, Status
    <3>2. CASE /\ present(directories, Parent[c])
               /\ dirStore' = dirStore \ {c}
               /\ directories' = [directories EXCEPT ![Parent[c]] = @ \ {c}]
               /\ Answer("remove_subfile", c, "OK")
               /\ UNCHANGED <<process, metadata_map, id_to_path_map, next_obj_id,
                              metaStore, history>>
      <4>1. reply' \in [op : Op, path : Path, status : Status]
        BY <3>2, <3>p DEF Answer, Op, Status
      <4>2. directories[Parent[c]] \ {c} \in SUBSET Child
        BY <3>2, <3>p DEF TypeOK, present
      <4> QED BY <3>2, <4>1, <4>2 DEF TypeOK, history
    <3> QED BY <2>6, <3>1, <3>2 DEF remove_subfile
  <2>7. ASSUME NEW p \in Path, NEW keepsType \in BOOLEAN, NEW x \in Attr,
               setattr(p, keepsType, x)
        PROVE  TypeOK'
    <3> DEFINE meta == [metadata_map[p] EXCEPT
                          !.attr = x, !.type = IF keepsType THEN @ ELSE "none"]
    <3>1. CASE Refuse("setattr", p, "ENOENT")
      BY <3>1, <2>r DEF Op, Status
    <3>2. CASE /\ present(metadata_map, p)
               /\ metadata_map' = [metadata_map EXCEPT ![p] = meta]
               /\ metaStore' \in {metaStore, [metaStore EXCEPT ![p] = meta]}
               /\ \E s \in {"OK", "EIO"} : Answer("setattr", p, s)
               /\ UNCHANGED <<process, directories, id_to_path_map, next_obj_id,
                              dirStore, history>>
      <4>1. meta \in FileMetadata
        <5>1. metadata_map[p] \in FileMetadata
          BY <3>2 DEF TypeOK, present
        <5>2. CASE keepsType
          BY <5>1, <5>2 DEF FileMetadata
        <5>3. CASE ~keepsType
          BY <5>1, <5>3 DEF FileMetadata
        <5> QED BY <5>2, <5>3
      <4>2. reply' \in [op : Op, path : Path, status : Status]
        BY SMT, <3>2 DEF Answer, Op, Status
      <4> HIDE DEF meta
      <4> QED BY SMT, <3>2, <4>1, <4>2 DEF TypeOK, history
    <3> QED BY <2>7, <3>1, <3>2 DEF setattr
  <2>8. CASE Crash
    BY <2>8, LoseMemoryType DEF Crash, store, TypeOK
  <2>9. CASE init
    <3>1. CASE Abort("check_init") /\ UNCHANGED store
      BY <3>1, LoseMemoryType DEF Abort, store, TypeOK
    <3>2. CASE ~Abort("check_init")
      <4>1. \A oid \in ObjectId : LoadedAs(oid) # {} =>
               (CHOOSE p \in LoadedAs(oid) :
                  \A q \in LoadedAs(oid) : KeyOrder[q] <= KeyOrder[p]) \in Path
        <5> SUFFICES ASSUME NEW oid \in ObjectId, LoadedAs(oid) # {}
                     PROVE  (CHOOSE p \in LoadedAs(oid) :
                               \A q \in LoadedAs(oid) : KeyOrder[q] <= KeyOrder[p])
                            \in Path
          OBVIOUS
        <5>1. LoadedAs(oid) \in SUBSET Path
          BY DEF LoadedAs
        <5> QED BY <5>1, LastKey
      <4>2. id_to_path_map' \in [ObjectId -> Path \cup {Absent}]
        BY SMT, <2>9, <3>2, <4>1 DEF init
      <4>3. directories' \in [Path -> {Absent} \cup SUBSET Child]
        BY SMT, <2>9, <3>2 DEF init, TypeOK
      <4> QED BY <2>9, <3>2, <4>2, <4>3 DEF init, TypeOK, store, history
    <3> QED BY <2>9, <3>1, <3>2 DEF init
  <2>10. CASE UNCHANGED vars
    BY <2>10 DEF vars, memory, store, history, TypeOK
  <2> QED
    BY <2>1, <2>2, <2>3, <2>4, <2>5, <2>6, <2>7, <2>8, <2>9, <2>10 DEF Next
<1>3. QED BY <1>1, <1>2, PTL DEF Spec

-----------------------------------------------------------------------------
(* The inductive invariant *)

\* A refused operation changes nothing that the invariant speaks of.
LEMMA RefuseKeeps ==
    ASSUME IInv, NEW op, NEW p, NEW s, Refuse(op, p, s)
    PROVE  IInv'
BY DEF IInv, Refuse, memory, store, history, running, present, isStoredDir,
       MetadataAgree, DirectoriesAgree, EntriesListed, IdsLead, YoungFound,
       StoredDirsHaveNoObject, CreateCheckHolds, Recent

\* A process that loses its maps leaves only the store to speak of.
LEMMA DownKeeps ==
    ASSUME LoseMemory, process' \notin {"running", "check_create"},
           StoredDirsHaveNoObject'
    PROVE  IInv'
BY DEF IInv, LoseMemory, running, CreateCheckHolds

\* Handing out an id adds its serial to the recent ones, where it was not.
LEMMA RecentGrows ==
    ASSUME TypeOK, creates < MaxCreates,
           next_obj_id' = NextSerial, creates' = creates + 1
    PROVE  /\ ~Recent(next_obj_id)
           /\ \A n \in Serial : Recent(n) \/ n = next_obj_id => Recent(n)'
<1>1. next_obj_id \in 0 .. IdModulus - 1 /\ creates \in Nat /\ creates < IdModulus
  BY SMT, IdAssumption DEF TypeOK, Serial
<1>2. ~Recent(next_obj_id)
  BY SMT, <1>1, IdAssumption DEF Recent
<1>3. ASSUME NEW n \in 0 .. IdModulus - 1, Recent(n) \/ n = next_obj_id
      PROVE  Recent(n)'
  <2>1. CASE next_obj_id + 1 = IdModulus
    BY SMT, <1>1, <1>3, <2>1, IdAssumption DEF Recent, NextSerial
  <2>2. CASE next_obj_id + 1 # IdModulus
    BY SMT, <1>1, <1>3, <2>2, IdAssumption DEF Recent, NextSerial
  <2> QED BY <2>1, <2>2
<1> QED BY <1>2, <1>3 DEF Serial

\* The parts of an object id.
LEMMA ObjectIdParts ==
    /\ \A o \in ObjectId : o # DirObject => o[2] \in Serial
    /\ \A p \in Path : /\ get_object_id(p)[2] = next_obj_id
                       /\ get_object_id(p) # DirObject
BY SMT, IdAssumption DEF ObjectId, DirObject, get_object_id

\* create() keeps the invariant: its CHECK holds because the serial is not
\* recent, and neither outcome of its roll back touches another file's id.
LEMMA CreateKeeps ==
    ASSUME TypeOK, IInv, NEW p \in Path, create(p)
    PROVE  IInv'
<1> DEFINE oid == get_object_id(p)
<1> DEFINE meta(x) == [type |-> "reg", object_id |-> oid, attr |-> x]
<1>0. running
  BY DEF create
<1>1. CASE present(metadata_map, p)
  BY <1>1, RefuseKeeps DEF create
<1>2. CASE ~present(metadata_map, p)
  <2> USE <1>0, <1>2
  <2>0. /\ oid \in ObjectId
        /\ oid # DirObject
        /\ oid[2] = next_obj_id
        /\ next_obj_id \in Serial
    BY IdTypes, ObjectIdParts DEF TypeOK
  <2>1. creates < MaxCreates
    BY DEF create
  <2>2. ~Recent(next_obj_id)
    BY SMT, <2>1, IdAssumption DEF Recent, TypeOK, Serial
  <2>3. id_to_path_map[oid] # p
    <3> HIDE DEF oid
    <3> QED BY <2>0, <2>2, AbsentAssumption DEF IInv, IdsLead, present
  <2>4. next_obj_id' = NextSerial /\ creates' = creates + 1
    BY <2>3 DEF create
  <2>5. \A n \in Serial : Recent(n) \/ n = next_obj_id => Recent(n)'
    BY <2>1, <2>4, RecentGrows
  <2>6. \A o \in ObjectId : o # DirObject => o[2] \in Serial
    BY ObjectIdParts
  <2>7. ~present(directories, p)
    BY DEF IInv, DirectoriesAgree
  <2>8. ~present(metaStore, p)
    BY DEF IInv, MetadataAgree
  <2>9. /\ process' = process
        /\ directories' = directories
        /\ dirStore' = dirStore
    BY <2>3 DEF create
  <2>10. ASSUME NEW x \in Attr,
                metadata_map' = [metadata_map EXCEPT ![p] = meta(x)],
                metaStore' = [metaStore EXCEPT ![p] = meta(x)],
                id_to_path_map' = [id_to_path_map EXCEPT ![oid] = p],
                young' = young \cup {p}
         PROVE  IInv'
    <3>1. /\ meta(x) \in FileMetadata
          /\ meta(x) # Absent
          /\ meta(x).object_id = oid
          /\ meta(x).type = "reg"
      BY SMT, <2>0, AbsentAssumption DEF FileMetadata
    <3> HIDE DEF meta, oid
    <3>2. StoredDirsHaveNoObject'
      BY <2>10, <3>1 DEF IInv, StoredDirsHaveNoObject, isStoredDir, present, TypeOK
    <3>3. MetadataAgree'
      BY <2>10, <3>1 DEF IInv, MetadataAgree, present, TypeOK
    <3>4. DirectoriesAgree'
      BY <2>7, <2>9, <2>10, <3>1 DEF IInv, DirectoriesAgree, present, TypeOK
    <3>5. EntriesListed'
      BY <2>9 DEF IInv, EntriesListed, present
    <3>6. IdsLead'
      <4> SUFFICES ASSUME NEW o \in ObjectId, present(id_to_path_map, o)'
                   PROVE  \/ o # DirObject /\ Recent(o[2])'
                          \/ /\ present(metadata_map, id_to_path_map[o])'
                             /\ metadata_map'[id_to_path_map'[o]].object_id = o
                             /\ ~present(directories, id_to_path_map[o])'
        BY DEF IdsLead
      <4>1. CASE o = oid
        BY <4>1, <2>0, <2>5
      <4>2. CASE o # oid
        <5>1. id_to_path_map'[o] = id_to_path_map[o] /\ id_to_path_map[o] \in Path
          BY <4>2, <2>10, AbsentAssumption DEF present, TypeOK
        <5>2. CASE o # DirObject /\ Recent(o[2])
          BY <5>2, <2>5, <2>6
        <5>3. CASE /\ present(metadata_map, id_to_path_map[o])
                   /\ metadata_map[id_to_path_map[o]].object_id = o
                   /\ ~present(directories, id_to_path_map[o])
          BY <5>1, <5>3, <2>9, <2>10 DEF present, TypeOK
        <5> QED BY <5>1, <5>2, <5>3 DEF IInv, IdsLead, present
      <4> QED BY <4>1, <4>2
    <3>7. YoungFound'
      <4> SUFFICES ASSUME NEW q \in young'
                   PROVE  /\ present(metadata_map, q)'
                          /\ metadata_map'[q].object_id # DirObject
                          /\ Recent(metadata_map[q].object_id[2])'
                          /\ id_to_path_map'[metadata_map'[q].object_id] = q
        BY DEF YoungFound
      <4>1. CASE q = p
        <5>1. metadata_map'[q] = meta(x)
          BY <4>1, <2>10 DEF TypeOK
        <5>2. PICK o \in ObjectId : o = oid
          BY <2>0
        <5>3. Recent(o[2])'
          BY <5>2, <2>0, <2>5
        <5>4. metadata_map'[q].object_id = o
          BY <5>1, <5>2, <3>1
        <5>5. Recent(metadata_map[q].object_id[2])'
          BY <5>3, <5>4 DEF Recent
        <5>6. id_to_path_map'[o] = p
          BY <5>2, <2>10 DEF TypeOK
        <5> QED BY <4>1, <5>1, <5>2, <5>4, <5>5, <5>6, <3>1, <2>0 DEF present
      <4>2. CASE q # p
        <5>1. q \in young /\ q \in Path
          BY <4>2, <2>10 DEF TypeOK
        <5>2. metadata_map'[q] = metadata_map[q]
          BY <4>2, <2>10, <5>1 DEF TypeOK
        <5>3. /\ present(metadata_map, q)
              /\ metadata_map[q].object_id # DirObject
              /\ Recent(metadata_map[q].object_id[2])
              /\ id_to_path_map[metadata_map[q].object_id] = q
          BY <5>1 DEF IInv, YoungFound
        <5>4. metadata_map[q].object_id \in ObjectId
          BY <5>1, <5>3 DEF TypeOK, present, FileMetadata
        <5>5. metadata_map[q].object_id # oid
          BY <5>3, <2>0, <2>2
        <5>6. Recent(metadata_map[q].object_id[2])'
          BY <5>2, <5>3, <5>4, <2>5, <2>6 DEF Recent
        <5> QED BY <5>2, <5>3, <5>4, <5>5, <5>6, <2>10 DEF present, TypeOK
      <4> QED BY <4>1, <4>2
    <3> QED
      BY <2>9, <3>2, <3>3, <3>4, <3>5, <3>6, <3>7 DEF IInv, running, CreateCheckHolds
  <2>11. ASSUME NEW left \in {p, Absent},
                id_to_path_map' = [id_to_path_map EXCEPT ![oid] = left],
                UNCHANGED <<metadata_map, metaStore, young>>
         PROVE  IInv'
    <3> HIDE DEF oid
    <3>1. IdsLead'
      <4> SUFFICES ASSUME NEW o \in ObjectId, present(id_to_path_map, o)'
                   PROVE  \/ o # DirObject /\ Recent(o[2])'
                          \/ /\ present(metadata_map, id_to_path_map[o])'
                             /\ metadata_map'[id_to_path_map'[o]].object_id = o
                             /\ ~present(directories, id_to_path_map[o])'
        BY DEF IdsLead
      <4>1. CASE o = oid
        BY <4>1, <2>0, <2>5
      <4>2. CASE o # oid
        <5>1. id_to_path_map'[o] = id_to_path_map[o]
          BY <4>2, <2>11 DEF TypeOK
        <5> QED BY <5>1, <2>5, <2>6, <2>9, <2>11 DEF IInv, IdsLead, present
      <4> QED BY <4>1, <4>2
    <3>2. YoungFound'
      <4> SUFFICES ASSUME NEW q \in young
                   PROVE  /\ present(metadata_map, q)
                          /\ metadata_map[q].object_id # DirObject
                          /\ Recent(metadata_map[q].object_id[2])'
                          /\ id_to_path_map'[metadata_map[q].object_id] = q
        BY <2>11 DEF YoungFound, present, Recent
      <4>1. /\ present(metadata_map, q)
            /\ metadata_map[q].object_id # DirObject
            /\ Recent(metadata_map[q].object_id[2])
            /\ id_to_path_map[metadata_map[q].object_id] = q
        BY DEF IInv, YoungFound
      <4>2. metadata_map[q].object_id \in ObjectId
        BY <4>1 DEF TypeOK, present, FileMetadata
      <4>3. metadata_map[q].object_id # oid
        BY <4>1, <2>0, <2>2
      <4>4. Recent(metadata_map[q].object_id[2])'
        BY <4>1, <4>2, <2>5, <2>6, <2>11 DEF Recent
      <4> QED BY <4>1, <4>2, <4>3, <4>4, <2>11 DEF TypeOK
    <3> QED
      BY <2>9, <2>11, <3>1, <3>2
      DEF IInv, running, CreateCheckHolds, MetadataAgree, DirectoriesAgree,
          EntriesListed, StoredDirsHaveNoObject, isStoredDir, present
  <2> QED BY <2>3, <2>10, <2>11 DEF create
<1> QED BY <1>1, <1>2

\* remove() keeps it: the id it erases leads to the removed path, so it is the
\* id of no other file of this process.
LEMMA RemoveKeeps ==
    ASSUME TypeOK, IInv, NEW p \in Path, remove(p)
    PROVE  IInv'
<1> DEFINE oid == object_id(p)
<1>0. running
  BY DEF remove
<1>1. ASSUME NEW s, Refuse("remove", p, s)
      PROVE  IInv'
  BY <1>1, RefuseKeeps
<1>2. ASSUME present(metadata_map, p),
             metadata_map[p].type # "dir",
             metaStore' = [metaStore EXCEPT ![p] = Absent],
             dirStore' = dirStore,
             IF id_to_path_map[oid] # p
             THEN Abort("check_remove")
             ELSE /\ metadata_map' = [metadata_map EXCEPT ![p] = Absent]
                  /\ id_to_path_map' = [id_to_path_map EXCEPT ![oid] = Absent]
                  /\ young' = young \ {p}
                  /\ UNCHANGED <<process, directories, next_obj_id, creates>>
      PROVE  IInv'
  <2> USE <1>0, <1>2
  <2>1. StoredDirsHaveNoObject'
    BY DEF IInv, StoredDirsHaveNoObject, isStoredDir, present, TypeOK
  <2>2. CASE id_to_path_map[oid] # p
    BY <2>1, <2>2, DownKeeps DEF Abort
  <2>3. CASE id_to_path_map[oid] = p
    <3> USE <2>3
    <3>0. oid \in ObjectId
      BY DEF TypeOK, present, FileMetadata, object_id
    <3>1. ~present(directories, p)
      BY SMT, <3>0, AbsentAssumption
      DEF IInv, IdsLead, DirectoriesAgree, present, object_id
    <3>2. MetadataAgree'
      BY DEF IInv, MetadataAgree, present, TypeOK
    <3>3. DirectoriesAgree'
      BY <3>1 DEF IInv, DirectoriesAgree, present, TypeOK
    <3>4. EntriesListed'
      BY DEF IInv, EntriesListed, present
    <3>5. IdsLead'
      <4> SUFFICES ASSUME NEW o \in ObjectId, present(id_to_path_map, o)'
                   PROVE  \/ o # DirObject /\ Recent(o[2])'
                          \/ /\ present(metadata_map, id_to_path_map[o])'
                             /\ metadata_map'[id_to_path_map'[o]].object_id = o
                             /\ ~present(directories, id_to_path_map[o])'
        BY DEF IdsLead
      <4>1. o # oid /\ id_to_path_map'[o] = id_to_path_map[o]
        BY <3>0 DEF present, TypeOK
      <4>2. id_to_path_map[o] \in Path
        BY <4>1 DEF present, TypeOK
      <4>3. CASE o # DirObject /\ Recent(o[2])
        BY <4>3 DEF Recent
      <4>4. CASE /\ present(metadata_map, id_to_path_map[o])
                 /\ metadata_map[id_to_path_map[o]].object_id = o
                 /\ ~present(directories, id_to_path_map[o])
        <5>1. id_to_path_map[o] # p
          BY <4>1, <4>4 DEF object_id
        <5> QED BY SMT, <4>1, <4>2, <4>4, <5>1 DEF present, TypeOK
      <4> QED BY <4>1, <4>2, <4>3, <4>4 DEF IInv, IdsLead, present
    <3>6. YoungFound'
      <4> SUFFICES ASSUME NEW q \in young, q # p
                   PROVE  /\ present(metadata_map, q)'
                          /\ metadata_map'[q].object_id # DirObject
                          /\ Recent(metadata_map[q].object_id[2])'
                          /\ id_to_path_map'[metadata_map'[q].object_id] = q
        BY DEF YoungFound
      <4>1. q \in Path /\ metadata_map'[q] = metadata_map[q]
        BY DEF TypeOK
      <4>2. /\ present(metadata_map, q)
            /\ metadata_map[q].object_id # DirObject
            /\ Recent(metadata_map[q].object_id[2])
            /\ id_to_path_map[metadata_map[q].object_id] = q
        BY DEF IInv, YoungFound
      <4>3. metadata_map[q].object_id \in ObjectId
        BY <4>1, <4>2 DEF TypeOK, present, FileMetadata
      <4> QED BY SMT, <4>1, <4>2, <4>3 DEF present, Recent, TypeOK
    <3> QED
      BY <2>1, <3>2, <3>3, <3>4, <3>5, <3>6 DEF IInv, running, CreateCheckHolds
  <2> QED BY <2>2, <2>3
<1> QED BY <1>1, <1>2 DEF remove

\* An operation that changes neither an id nor the ids' serials.
LEMMA IdsUntouched ==
    ASSUME IInv, running,
           UNCHANGED <<id_to_path_map, next_obj_id, creates, young>>,
           \A o \in ObjectId :
              /\ id_to_path_map[o] \in Path
              /\ present(metadata_map, id_to_path_map[o])
              /\ metadata_map[id_to_path_map[o]].object_id = o
              /\ ~present(directories, id_to_path_map[o])
              => /\ present(metadata_map, id_to_path_map[o])'
                 /\ metadata_map'[id_to_path_map[o]].object_id = o
                 /\ ~present(directories, id_to_path_map[o])',
           \A p \in young : /\ present(metadata_map, p)'
                            /\ metadata_map'[p].object_id = metadata_map[p].object_id,
           TypeOK
    PROVE  IdsLead' /\ YoungFound'
<1>1. IdsLead'
  BY SMT DEF IInv, IdsLead, present, Recent, TypeOK
<1>2. YoungFound'
  BY DEF IInv, YoungFound, present, Recent
<1> QED BY <1>1, <1>2

\* mkdir() keeps it: no listing and no live id belongs to a path that is absent.
LEMMA MkdirKeeps ==
    ASSUME TypeOK, IInv, NEW p \in Path, mkdir(p)
    PROVE  IInv'
<1>0. running
  BY DEF mkdir
<1>1. CASE present(metadata_map, p)
  BY <1>1, RefuseKeeps DEF mkdir
<1>2. CASE ~present(metadata_map, p)
  <2> USE <1>0, <1>2
  <2>1. directories[p] = Absent /\ p \notin young
    BY DEF IInv, DirectoriesAgree, YoungFound, present
  <2>2. \A c \in dirStore : Parent[c] # p
    BY <2>1 DEF IInv, EntriesListed, present
  <2>3. ASSUME NEW meta \in FileMetadata,
               meta.type = "dir", meta.object_id = DirObject,
               metadata_map' = [metadata_map EXCEPT ![p] = meta],
               metaStore' = [metaStore EXCEPT ![p] = meta],
               directories' = [directories EXCEPT ![p] = {}],
               UNCHANGED <<process, id_to_path_map, next_obj_id, dirStore, history>>
        PROVE  IInv'
    <3> USE <2>3
    <3>0. meta # Absent /\ Absent # {}
      BY AbsentAssumption
    <3>1. StoredDirsHaveNoObject'
      BY DEF IInv, StoredDirsHaveNoObject, isStoredDir, present, TypeOK
    <3>2. MetadataAgree'
      BY <3>0 DEF IInv, MetadataAgree, present, TypeOK
    <3>3. DirectoriesAgree'
      BY SMT, <2>2, <3>0 DEF IInv, DirectoriesAgree, present, TypeOK
    <3>4. EntriesListed'
      BY <2>2, PathAssumption DEF IInv, EntriesListed, present, TypeOK
    <3>5. IdsLead' /\ YoungFound'
      <4>1. \A o \in ObjectId :
                /\ id_to_path_map[o] \in Path
                /\ present(metadata_map, id_to_path_map[o])
                /\ metadata_map[id_to_path_map[o]].object_id = o
                /\ ~present(directories, id_to_path_map[o])
                => /\ present(metadata_map, id_to_path_map[o])'
                   /\ metadata_map'[id_to_path_map[o]].object_id = o
                   /\ ~present(directories, id_to_path_map[o])'
        BY DEF present, TypeOK
      <4>2. \A q \in young : /\ present(metadata_map, q)'
                             /\ metadata_map'[q].object_id = metadata_map[q].object_id
        BY <2>1 DEF IInv, YoungFound, present, TypeOK
      <4> QED BY <4>1, <4>2, IdsUntouched DEF history
    <3> QED
      BY <3>1, <3>2, <3>3, <3>4, <3>5 DEF IInv, running, CreateCheckHolds
  <2>4. ASSUME directories' = [directories EXCEPT ![p] = Absent],
               UNCHANGED <<process, metadata_map, id_to_path_map, next_obj_id,
                           store, history>>
        PROVE  IInv'
    <3>1. directories' = directories
      BY <2>1, <2>4 DEF TypeOK
    <3> QED
      BY SMT, <2>4, <3>1 DEF IInv, store, history, running, present, isStoredDir,
         MetadataAgree, DirectoriesAgree, EntriesListed, IdsLead, YoungFound,
         StoredDirsHaveNoObject, CreateCheckHolds, Recent
  <2>5. \A a \in Attr :
            [type |-> "dir", object_id |-> DirObject, attr |-> a] \in FileMetadata
    BY IdTypes DEF FileMetadata
  <2>6. CASE \E a \in Attr :
               /\ metadata_map' = [metadata_map EXCEPT ![p] =
                        [type |-> "dir", object_id |-> DirObject, attr |-> a]]
               /\ metaStore' = [metaStore EXCEPT ![p] =
                        [type |-> "dir", object_id |-> DirObject, attr |-> a]]
               /\ directories' = [directories EXCEPT ![p] =
                        IF @ = Absent THEN {} ELSE @]
               /\ UNCHANGED <<process, id_to_path_map, next_obj_id, dirStore,
                              history>>
    <3>1. directories' = [directories EXCEPT ![p] = {}]
      BY <2>1, <2>6
    <3> QED BY <2>3, <2>5, <2>6, <3>1
  <2> QED BY <2>4, <2>6 DEF mkdir
<1> QED BY <1>1, <1>2

\* rmdir() keeps it: only an empty directory goes, so no entry loses its parent.
LEMMA RmdirKeeps ==
    ASSUME TypeOK, IInv, NEW p \in Path, rmdir(p)
    PROVE  IInv'
<1>0. running
  BY DEF rmdir
<1>1. ASSUME NEW s, Refuse("rmdir", p, s)
      PROVE  IInv'
  BY <1>1, RefuseKeeps
<1>2. ASSUME directories[p] = {},
             metaStore' = [metaStore EXCEPT ![p] = Absent],
             metadata_map' = [metadata_map EXCEPT ![p] = Absent],
             directories' = [directories EXCEPT ![p] = Absent],
             UNCHANGED <<process, id_to_path_map, next_obj_id, dirStore, history>>
      PROVE  IInv'
  <2> USE <1>0, <1>2
  <2>1. present(directories, p)
    BY AbsentAssumption DEF present
  <2>2. /\ present(metadata_map, p)
        /\ metadata_map[p].object_id = DirObject
        /\ \A c \in dirStore : Parent[c] # p
    BY <2>1 DEF IInv, DirectoriesAgree
  <2>3. p \notin young
    BY <2>2 DEF IInv, YoungFound
  <2>4. StoredDirsHaveNoObject'
    BY DEF IInv, StoredDirsHaveNoObject, isStoredDir, present, TypeOK
  <2>5. MetadataAgree'
    BY DEF IInv, MetadataAgree, present, TypeOK
  <2>6. DirectoriesAgree'
    BY DEF IInv, DirectoriesAgree, present, TypeOK
  <2>7. EntriesListed'
    BY <2>2, PathAssumption DEF IInv, EntriesListed, present, TypeOK
  <2>8. IdsLead' /\ YoungFound'
    <3>1. \A o \in ObjectId :
              /\ id_to_path_map[o] \in Path
              /\ present(metadata_map, id_to_path_map[o])
              /\ metadata_map[id_to_path_map[o]].object_id = o
              /\ ~present(directories, id_to_path_map[o])
              => /\ present(metadata_map, id_to_path_map[o])'
                 /\ metadata_map'[id_to_path_map[o]].object_id = o
                 /\ ~present(directories, id_to_path_map[o])'
      BY <2>1 DEF present, TypeOK
    <3>2. \A q \in young : /\ present(metadata_map, q)'
                           /\ metadata_map'[q].object_id = metadata_map[q].object_id
      BY <2>3 DEF IInv, YoungFound, present, TypeOK
    <3> QED BY <3>1, <3>2, IdsUntouched DEF history
  <2> QED
    BY <2>4, <2>5, <2>6, <2>7, <2>8 DEF IInv, running, CreateCheckHolds
<1> QED BY <1>1, <1>2 DEF rmdir

\* Both add_subfile() and remove_subfile() change a listing and its stored
\* keys together.
LEMMA EntriesKeep ==
    ASSUME TypeOK, IInv, running, NEW c \in Child,
           present(directories, Parent[c]),
           NEW kids \in SUBSET Child,
           \A d \in Child : d # c => (d \in kids <=> d \in directories[Parent[c]]),
           dirStore' \in SUBSET Child,
           \A d \in Child : d # c => (d \in dirStore' <=> d \in dirStore),
           c \in kids <=> c \in dirStore',
           directories' = [directories EXCEPT ![Parent[c]] = kids],
           UNCHANGED <<process, metadata_map, id_to_path_map, next_obj_id,
                       metaStore, history>>
    PROVE  IInv'
<1>0. Parent[c] \in Path /\ kids # Absent
  BY PathAssumption, AbsentAssumption
<1>1. StoredDirsHaveNoObject'
  BY DEF IInv, StoredDirsHaveNoObject, isStoredDir, present
<1>2. MetadataAgree'
  BY DEF IInv, MetadataAgree, present
<1>3. DirectoriesAgree'
  <2> SUFFICES ASSUME NEW d \in Path
               PROVE  /\ present(directories, d)' =>
                            /\ directories'[d] = {x \in dirStore' : Parent[x] = d}
                            /\ present(metadata_map, d)
                            /\ metadata_map[d].object_id = DirObject
                            /\ metadata_map[d].type # "reg"
                      /\ (present(metadata_map, d) /\ metadata_map[d].type = "dir")
                            => present(directories, d)'
    BY DEF DirectoriesAgree, present
  <2>1. CASE d = Parent[c]
    <3>1. directories'[d] = kids
      BY <2>1, <1>0 DEF TypeOK
    <3>2. directories[d] = {x \in dirStore : Parent[x] = d}
      BY <2>1 DEF IInv, DirectoriesAgree
    <3>3. \A x \in Child : x \in kids <=> (x \in dirStore' /\ Parent[x] = d)
      BY <2>1, <3>2
    <3>4. kids = {x \in dirStore' : Parent[x] = d}
      BY <3>3
    <3> QED BY <2>1, <1>0, <3>1, <3>4 DEF IInv, DirectoriesAgree, present
  <2>2. CASE d # Parent[c]
    <3>1. directories'[d] = directories[d]
      BY <2>2 DEF TypeOK
    <3>2. {x \in dirStore' : Parent[x] = d} = {x \in dirStore : Parent[x] = d}
      BY <2>2 DEF TypeOK
    <3> QED BY <3>1, <3>2 DEF IInv, DirectoriesAgree, present
  <2> QED BY <2>1, <2>2
<1>4. EntriesListed'
  <2> SUFFICES ASSUME NEW x \in dirStore'
               PROVE  present(directories, Parent[x])'
    BY DEF EntriesListed, present
  <2>1. CASE Parent[x] = Parent[c]
    BY <2>1, <1>0 DEF present, TypeOK
  <2>2. CASE Parent[x] # Parent[c]
    <3>1. x \in dirStore /\ Parent[x] \in Path
      BY <2>2, PathAssumption
    <3> QED BY <2>2, <3>1 DEF IInv, EntriesListed, present, TypeOK
  <2> QED BY <2>1, <2>2
<1>5. IdsLead' /\ YoungFound'
  <2>1. \A d \in Path : present(directories, d)' <=> present(directories, d)
    BY <1>0 DEF present, TypeOK
  <2>2. \A q \in young : present(metadata_map, q)'
    BY DEF IInv, YoungFound, present
  <2> QED BY <2>1, <2>2, IdsUntouched DEF present, history
<1> QED
  BY <1>1, <1>2, <1>3, <1>4, <1>5 DEF IInv, running, CreateCheckHolds

\* add_subfile() keeps the invariant.
LEMMA AddSubfileKeeps ==
    ASSUME TypeOK, IInv, NEW c \in Child, add_subfile(c)
    PROVE  IInv'
<1>1. ASSUME NEW s, Refuse("add_subfile", c, s)
      PROVE  IInv'
  BY <1>1, RefuseKeeps
<1>2. ASSUME running,
             present(directories, Parent[c]),
             dirStore' = dirStore \cup {c},
             directories' = [directories EXCEPT ![Parent[c]] = @ \cup {c}],
             UNCHANGED <<process, metadata_map, id_to_path_map, next_obj_id,
                         metaStore, history>>
      PROVE  IInv'
  <2>1. Parent[c] \in Path
    BY PathAssumption
  <2>2. directories[Parent[c]] \in SUBSET Child
    BY <1>2, <2>1 DEF TypeOK, present
  <2>3. dirStore' \in SUBSET Child
    BY <1>2 DEF TypeOK
  <2>4. PICK kids \in SUBSET Child : kids = directories[Parent[c]] \cup {c}
    BY <2>2
  <2>5. directories' = [directories EXCEPT ![Parent[c]] = kids]
    BY <1>2, <2>4
  <2>6. /\ \A d \in Child : d # c => (d \in kids <=> d \in directories[Parent[c]])
        /\ \A d \in Child : d # c => (d \in dirStore' <=> d \in dirStore)
        /\ c \in kids <=> c \in dirStore'
    BY <1>2, <2>4
  <2> QED BY <1>2, <2>3, <2>5, <2>6, EntriesKeep
<1> QED BY <1>1, <1>2 DEF add_subfile

\* remove_subfile() keeps the invariant.
LEMMA RemoveSubfileKeeps ==
    ASSUME TypeOK, IInv, NEW c \in Child, remove_subfile(c)
    PROVE  IInv'
<1>1. ASSUME NEW s, Refuse("remove_subfile", c, s)
      PROVE  IInv'
  BY <1>1, RefuseKeeps
<1>2. ASSUME running,
             present(directories, Parent[c]),
             dirStore' = dirStore \ {c},
             directories' = [directories EXCEPT ![Parent[c]] = @ \ {c}],
             UNCHANGED <<process, metadata_map, id_to_path_map, next_obj_id,
                         metaStore, history>>
      PROVE  IInv'
  <2>1. Parent[c] \in Path
    BY PathAssumption
  <2>2. directories[Parent[c]] \in SUBSET Child
    BY <1>2, <2>1 DEF TypeOK, present
  <2>3. dirStore' \in SUBSET Child
    BY <1>2 DEF TypeOK
  <2>4. PICK kids \in SUBSET Child : kids = directories[Parent[c]] \ {c}
    BY <2>2
  <2>5. directories' = [directories EXCEPT ![Parent[c]] = kids]
    BY <1>2, <2>4
  <2>6. /\ \A d \in Child : d # c => (d \in kids <=> d \in directories[Parent[c]])
        /\ \A d \in Child : d # c => (d \in dirStore' <=> d \in dirStore)
        /\ c \in kids <=> c \in dirStore'
    BY <1>2, <2>4
  <2> QED BY <1>2, <2>3, <2>5, <2>6, EntriesKeep
<1> QED BY <1>1, <1>2 DEF remove_subfile

\* setattr() keeps it: it may take the type bits off a record, in memory alone
\* if the store refuses it, but it touches neither an id nor a listing.
LEMMA SetattrKeeps ==
    ASSUME TypeOK, IInv, NEW p \in Path, NEW keepsType \in BOOLEAN, NEW a \in Attr,
           setattr(p, keepsType, a)
    PROVE  IInv'
<1>0. running
  BY DEF setattr
<1>1. CASE ~present(metadata_map, p)
  BY <1>1, RefuseKeeps DEF setattr
<1>2. CASE present(metadata_map, p)
  <2> USE <1>0, <1>2
  <2>0. PICK meta : meta = [metadata_map[p] EXCEPT
                        !.attr = a, !.type = IF keepsType THEN @ ELSE "none"]
    OBVIOUS
  <2>1. metadata_map[p] \in FileMetadata
    BY DEF present, TypeOK
  <2>2. /\ meta.object_id = metadata_map[p].object_id
        /\ meta.type \in {metadata_map[p].type, "none"}
        /\ meta \in FileMetadata
    <3>1. CASE keepsType
      BY <2>0, <2>1, <3>1 DEF FileMetadata
    <3>2. CASE ~keepsType
      BY <2>0, <2>1, <3>2 DEF FileMetadata
    <3> QED BY <3>1, <3>2
  <2>3. meta # Absent
    BY <2>2, AbsentAssumption
  <2>4. /\ metadata_map' = [metadata_map EXCEPT ![p] = meta]
        /\ metaStore' \in {metaStore, [metaStore EXCEPT ![p] = meta]}
        /\ UNCHANGED <<process, directories, id_to_path_map, next_obj_id,
                       dirStore, history>>
    BY <2>0 DEF setattr
  <2>5. \A q \in Path :
            /\ present(metadata_map, q)' <=> present(metadata_map, q)
            /\ present(metadata_map, q) =>
                  /\ metadata_map'[q].object_id = metadata_map[q].object_id
                  /\ metadata_map'[q].type \in {metadata_map[q].type, "none"}
    BY <2>2, <2>3, <2>4 DEF present, TypeOK
  <2>6. present(metaStore, p)
    BY DEF IInv, MetadataAgree
  <2>7. \A q \in Path :
            /\ present(metaStore, q)' <=> present(metaStore, q)
            /\ present(metaStore, q) =>
                  metaStore'[q].object_id = metaStore[q].object_id
            /\ metaStore'[q] \in {metaStore[q], metadata_map'[q]}
    BY <2>2, <2>3, <2>4, <2>6 DEF IInv, MetadataAgree, present, TypeOK
  <2>8. StoredDirsHaveNoObject'
    <3> SUFFICES ASSUME NEW q \in Path, isStoredDir(q)'
                 PROVE  metaStore'[q].object_id = DirObject
      BY DEF StoredDirsHaveNoObject
    <3>1. present(metaStore, q) /\ present(metadata_map, q)
      BY <2>7 DEF isStoredDir, present, IInv, MetadataAgree
    <3>2. CASE metaStore'[q] = metaStore[q]
      BY <3>1, <3>2 DEF IInv, StoredDirsHaveNoObject, isStoredDir, present
    <3>3. CASE metaStore'[q] = metadata_map'[q]
      <4>1. metadata_map[q].type = "dir"
        BY <3>1, <3>3, <2>5 DEF isStoredDir
      <4> QED BY <3>1, <3>3, <4>1, <2>5 DEF IInv, DirectoriesAgree
    <3> QED BY <2>7, <3>2, <3>3
  <2>9. MetadataAgree'
    BY <2>5, <2>7 DEF IInv, MetadataAgree, present
  <2>10. DirectoriesAgree' /\ EntriesListed'
    BY <2>4, <2>5 DEF IInv, DirectoriesAgree, EntriesListed, present
  <2>11. IdsLead' /\ YoungFound'
    <3>1. young \subseteq Path /\ \A q \in young : present(metadata_map, q)
      BY DEF IInv, YoungFound, TypeOK
    <3>2. \A q \in young : /\ present(metadata_map, q)'
                           /\ metadata_map'[q].object_id = metadata_map[q].object_id
      BY <2>5, <3>1
    <3>3. \A o \in ObjectId :
              /\ id_to_path_map[o] \in Path
              /\ present(metadata_map, id_to_path_map[o])
              /\ metadata_map[id_to_path_map[o]].object_id = o
              /\ ~present(directories, id_to_path_map[o])
              => /\ present(metadata_map, id_to_path_map[o])'
                 /\ metadata_map'[id_to_path_map[o]].object_id = o
                 /\ ~present(directories, id_to_path_map[o])'
      BY <2>4, <2>5 DEF present
    <3> QED BY <2>4, <3>2, <3>3, IdsUntouched DEF history
  <2> QED
    BY <2>4, <2>8, <2>9, <2>10, <2>11 DEF IInv, running, CreateCheckHolds
<1> QED BY <1>1, <1>2

\* init() establishes it from the store alone, or dies in its own CHECK.
LEMMA InitKeeps ==
    ASSUME TypeOK, IInv, init
    PROVE  IInv'
<1>0. ~running /\ UNCHANGED store
  BY DEF init
<1>1. StoredDirsHaveNoObject'
  BY <1>0 DEF IInv, StoredDirsHaveNoObject, isStoredDir, present, store
<1>2. CASE ~ \A c \in dirStore : isStoredDir(Parent[c])
  BY <1>1, <1>2, DownKeeps DEF init, Abort
<1>3. CASE \A c \in dirStore : isStoredDir(Parent[c])
  <2> USE <1>0, <1>3
  <2>0. /\ process' = "running"
        /\ metadata_map' = metaStore
        /\ directories' = [p \in Path |->
               IF isStoredDir(p) THEN {c \in dirStore : Parent[c] = p} ELSE Absent]
        /\ UNCHANGED <<metaStore, dirStore, creates, young>>
    BY DEF init, store, history
  <2>1. \A p \in Path : present(directories, p)' <=> isStoredDir(p)
    BY <2>0, AbsentAssumption DEF present, TypeOK
  <2>2. MetadataAgree'
    BY <2>0 DEF MetadataAgree, present
  <2>3. DirectoriesAgree'
    BY <2>0, <2>1 DEF IInv, StoredDirsHaveNoObject, DirectoriesAgree, isStoredDir,
                      present
  <2>4. EntriesListed'
    BY <2>0, <2>1, PathAssumption DEF EntriesListed, present, TypeOK
  <2>5. IdsLead'
    <3> SUFFICES ASSUME NEW o \in ObjectId, present(id_to_path_map, o)'
                 PROVE  /\ present(metadata_map, id_to_path_map[o])'
                        /\ metadata_map'[id_to_path_map'[o]].object_id = o
                        /\ ~present(directories, id_to_path_map[o])'
      BY DEF IdsLead
    <3>1. LoadedAs(o) \in SUBSET Path
      BY DEF LoadedAs
    <3>2. id_to_path_map'[o] =
              IF LoadedAs(o) = {} THEN Absent
              ELSE CHOOSE p \in LoadedAs(o) :
                     \A q \in LoadedAs(o) : KeyOrder[q] <= KeyOrder[p]
      BY DEF init
    <3>3. LoadedAs(o) # {}
      BY <3>2 DEF present
    <3>4. id_to_path_map'[o] \in LoadedAs(o)
      BY <3>1, <3>2, <3>3, LastKey
    <3> QED BY <2>0, <2>1, <3>4 DEF LoadedAs, present, isStoredDir
  <2>6. YoungFound'
    BY <2>0 DEF IInv, YoungFound
  <2> QED
    BY <1>1, <2>0, <2>2, <2>3, <2>4, <2>5, <2>6 DEF IInv, running, CreateCheckHolds
<1> QED BY <1>2, <1>3

\* What the maps and the store owe each other, in every reachable state.
THEOREM Inductive == Spec => []IInv
<1>1. Init => IInv
  BY DEF Init, IInv, StoredDirsHaveNoObject, isStoredDir, present, running,
         CreateCheckHolds
<1>2. TypeOK /\ IInv /\ [Next]_vars => IInv'
  <2> SUFFICES ASSUME TypeOK, IInv, [Next]_vars
               PROVE  IInv'
    OBVIOUS
  <2>1. ASSUME NEW p \in FilePath, create(p) PROVE IInv'
    BY <2>1, CreateKeeps, PathAssumption
  <2>2. ASSUME NEW p \in DirPath, mkdir(p) PROVE IInv'
    BY <2>2, MkdirKeeps, PathAssumption
  <2>3. ASSUME NEW p \in Path, remove(p) PROVE IInv'
    BY <2>3, RemoveKeeps
  <2>4. ASSUME NEW p \in Path, rmdir(p) PROVE IInv'
    BY <2>4, RmdirKeeps
  <2>5. ASSUME NEW c \in Child, add_subfile(c) PROVE IInv'
    BY <2>5, AddSubfileKeeps
  <2>6. ASSUME NEW c \in Child, remove_subfile(c) PROVE IInv'
    BY <2>6, RemoveSubfileKeeps
  <2>7. ASSUME NEW p \in Path, NEW keepsType \in BOOLEAN, NEW a \in Attr,
               setattr(p, keepsType, a)
        PROVE  IInv'
    BY <2>7, SetattrKeeps
  <2>8. CASE Crash
    <3>1. StoredDirsHaveNoObject'
      BY <2>8 DEF Crash, store, IInv, StoredDirsHaveNoObject, isStoredDir, present
    <3> QED BY <2>8, <3>1, DownKeeps DEF Crash
  <2>9. CASE init
    BY <2>9, InitKeeps
  <2>10. CASE UNCHANGED vars
    BY <2>10 DEF vars, memory, store, history, IInv, running, present, isStoredDir,
       MetadataAgree, DirectoriesAgree, EntriesListed, IdsLead, YoungFound,
       StoredDirsHaveNoObject, CreateCheckHolds, Recent
  <2> QED
    BY <2>1, <2>2, <2>3, <2>4, <2>5, <2>6, <2>7, <2>8, <2>9, <2>10 DEF Next
<1>3. QED BY <1>1, <1>2, TypeCorrect, PTL DEF Spec

\* The maps hold what init() would rebuild from the store.
THEOREM MapsMatchStore == Spec => []WriteThrough
<1>1. IInv => WriteThrough
  BY DEF IInv, MetadataAgree, DirectoriesAgree, WriteThrough, object_id
<1>2. QED BY <1>1, Inductive, PTL

\* No operation deletes a directory that still lists a child.
THEOREM NoOrphanEntries == Spec => []ListedParentStays
<1>1. TypeOK /\ IInv => ListedParentStays
  BY PathAssumption
  DEF TypeOK, IInv, MetadataAgree, DirectoriesAgree, EntriesListed, ListedParentStays
<1>2. QED BY <1>1, TypeCorrect, Inductive, PTL

\* A file this process created is found under the id that create() gave it.
THEOREM CreatedFilesFound == Spec => []LookupRoundTrip
<1>1. IInv => LookupRoundTrip
  BY AbsentAssumption
  DEF IInv, YoungFound, LookupRoundTrip, find_files, find_objects, file_path, getattr,
      object_id, present
<1>2. QED BY <1>1, Inductive, PTL

\* The CHECK in create() never fails.
THEOREM CreateNeverAborts == Spec => []CreateCheckHolds
<1>1. IInv => CreateCheckHolds
  BY DEF IInv
<1>2. QED BY <1>1, Inductive, PTL

(***************************************************************************)
(* The namespace of a master implements the abstract DirTree: every step,  *)
(* failed store writes, crashes, aborts and restarts included, is a step   *)
(* of the tree that is seen through the maps while the master runs and     *)
(* through the store while it does not.                                    *)
(***************************************************************************)

\* The kinds of the records, as the refinement mapping has them.
rec == [p \in Path |-> IF running THEN kindOf(metadata_map[p]) ELSE kindOf(metaStore[p])]

TreeStep == Tree!Next \/ UNCHANGED Tree!vars

Known == TypeOK /\ IInv

\* A record has one of the four kinds, and none is "absent" that is there.
LEMMA Kinds ==
    ASSUME NEW meta \in FileMetadata \cup {Absent}
    PROVE  /\ kindOf(meta) \in Tree!Kind
           /\ meta = Absent <=> kindOf(meta) = "absent"
           /\ meta # Absent => kindOf(meta) = meta.type
<1>1. CASE meta = Absent BY <1>1 DEF kindOf, Tree!Kind
<1>2. CASE meta \in FileMetadata
  <2>1. meta # Absent BY <1>2, AbsentAssumption
  <2>2. meta.type \in {"reg", "dir", "none"} BY <1>2 DEF FileMetadata
  <2>. QED BY <2>1, <2>2 DEF kindOf, Tree!Kind
<1>. QED BY <1>1, <1>2

\* The records of a running master.
LEMMA Running ==
    ASSUME Known, running
    PROVE  \A p \in Path :
             /\ rec[p] \in Tree!Kind
             /\ rec[p] = kindOf(metadata_map[p])
             /\ rec[p] = "absent" <=> ~present(metadata_map, p)
             /\ present(metadata_map, p) => rec[p] = metadata_map[p].type
<1>1. \A p \in Path : metadata_map[p] \in FileMetadata \cup {Absent} BY DEF Known, TypeOK
<1>. QED BY <1>1, Kinds DEF rec, present

\* An operation that leaves the maps and the store alone.
LEMMA Kept ==
    ASSUME UNCHANGED <<process, metadata_map, metaStore>>
    PROVE  rec' = rec
BY DEF rec, running

\* A store write failed, and the tree is as it was.
LEMMA Failed ==
    ASSUME rec' = rec, dirStore' = dirStore, NEW op \in Op, NEW p \in Path,
           Answer(op, p, "EIO")
    PROVE  TreeStep
<1>1. Tree!StoreFails(op, p) BY DEF Tree!StoreFails, Tree!Answer, Answer, rec
<1>. QED BY <1>1 DEF TreeStep, Tree!Next, Tree!Op, Op

\* One record changes while the master runs.
LEMMA Changed ==
    ASSUME Known, running, UNCHANGED process, NEW p \in Path,
           \E meta : metadata_map' = [metadata_map EXCEPT ![p] = meta]
    PROVE  rec' = [rec EXCEPT ![p] = kindOf(metadata_map'[p])]
<1>1. metadata_map \in [Path -> FileMetadata \cup {Absent}] BY DEF Known, TypeOK
<1>2. rec = [q \in Path |-> kindOf(metadata_map[q])] BY DEF rec
<1>3. rec' = [q \in Path |-> kindOf(metadata_map'[q])] BY DEF rec, running
<1>. QED BY <1>1, <1>2, <1>3

\* create() is Create, or a failed write; its CHECK holds.
LEMMA CreateStep ==
    ASSUME Known, Known', NEW p \in Path, create(p) PROVE TreeStep
<1>1. running BY DEF create
<1>2. CASE present(metadata_map, p) /\ Refuse("create", p, "EEXIST")
  <2>1. rec' = rec /\ dirStore' = dirStore BY <1>2, Kept DEF Refuse, memory, store
  <2>2. rec[p] # "absent" BY <1>1, <1>2, Running
  <2>3. Tree!Create(p) BY <1>2, <2>1, <2>2 DEF Tree!Create, Tree!Answer, Refuse, Answer, rec
  <2>. QED BY <2>3 DEF TreeStep, Tree!Next
<1>3. CASE ~present(metadata_map, p) /\ Abort("check_create")
  BY <1>3 DEF Abort, Known, IInv, CreateCheckHolds
<1>4. CASE /\ ~present(metadata_map, p)
           /\ \E a \in Attr : metadata_map' =
                [metadata_map EXCEPT ![p] =
                   [type |-> "reg", object_id |-> get_object_id(p), attr |-> a]]
           /\ Answer("create", p, "OK") /\ UNCHANGED <<process, dirStore>>
  <2>1. PICK a \in Attr : metadata_map' =
                [metadata_map EXCEPT ![p] =
                   [type |-> "reg", object_id |-> get_object_id(p), attr |-> a]]
    BY <1>4
  <2>2. metadata_map'[p] \in FileMetadata \cup {Absent} BY DEF Known, TypeOK
  <2>3. metadata_map'[p] = [type |-> "reg", object_id |-> get_object_id(p), attr |-> a]
    BY <2>1 DEF Known, TypeOK
  <2>4. metadata_map'[p] # Absent /\ metadata_map'[p].type = "reg"
    BY SMT, <2>3, AbsentAssumption, IdTypes DEF FileMetadata, Known, TypeOK
  <2>5. kindOf(metadata_map'[p]) = "reg" BY <2>4 DEF kindOf
  <2>6. rec' = [rec EXCEPT ![p] = "reg"] BY <1>1, <1>4, <2>5, Changed
  <2>7. rec[p] = "absent" BY <1>1, <1>4, Running
  <2>8. Tree!Create(p)
    BY <1>4, <2>6, <2>7 DEF Tree!Create, Tree!SetRecord, Tree!Answer, Answer, rec
  <2>. QED BY <2>8 DEF TreeStep, Tree!Next
<1>5. CASE /\ Answer("create", p, "EIO")
           /\ UNCHANGED <<process, metadata_map, metaStore, dirStore>>
  BY <1>5, Kept, Failed DEF Op
<1>. QED BY <1>2, <1>3, <1>4, <1>5 DEF create

\* mkdir() is Mkdir, or a failed write.
LEMMA MkdirStep ==
    ASSUME Known, Known', NEW p \in Path, mkdir(p) PROVE TreeStep
<1>1. running BY DEF mkdir
<1>2. CASE present(metadata_map, p) /\ Refuse("mkdir", p, "EEXIST")
  <2>1. rec' = rec /\ dirStore' = dirStore BY <1>2, Kept DEF Refuse, memory, store
  <2>2. rec[p] # "absent" BY <1>1, <1>2, Running
  <2>3. Tree!Mkdir(p) BY <1>2, <2>1, <2>2 DEF Tree!Mkdir, Tree!Answer, Refuse, Answer, rec
  <2>. QED BY <2>3 DEF TreeStep, Tree!Next
<1>3. CASE /\ ~present(metadata_map, p)
           /\ \E a \in Attr : metadata_map' =
                [metadata_map EXCEPT ![p] =
                   [type |-> "dir", object_id |-> DirObject, attr |-> a]]
           /\ Answer("mkdir", p, "OK") /\ UNCHANGED <<process, dirStore>>
  <2>1. PICK a \in Attr : metadata_map' =
                [metadata_map EXCEPT ![p] =
                   [type |-> "dir", object_id |-> DirObject, attr |-> a]]
    BY <1>3
  <2>2. metadata_map'[p] = [type |-> "dir", object_id |-> DirObject, attr |-> a]
    BY <2>1 DEF Known, TypeOK
  <2>3. metadata_map'[p] # Absent /\ metadata_map'[p].type = "dir"
    BY SMT, <2>2, AbsentAssumption, IdTypes DEF FileMetadata, Known, TypeOK
  <2>4. kindOf(metadata_map'[p]) = "dir" BY <2>3 DEF kindOf
  <2>5. rec' = [rec EXCEPT ![p] = "dir"] BY <1>1, <1>3, <2>4, Changed
  <2>6. rec[p] = "absent" BY <1>1, <1>3, Running
  <2>7. Tree!Mkdir(p)
    BY <1>3, <2>5, <2>6 DEF Tree!Mkdir, Tree!SetRecord, Tree!Answer, Answer, rec
  <2>. QED BY <2>7 DEF TreeStep, Tree!Next
<1>4. CASE Answer("mkdir", p, "EIO") /\ UNCHANGED <<process, metadata_map, store>>
  BY <1>4, Kept, Failed DEF Op, store
<1>. QED BY <1>2, <1>3, <1>4 DEF mkdir

\* Memory is gone: of each record there is what the store has, which differs
\* from what the maps had in type bits that a setattr has cleared.
LEMMA Lost ==
    ASSUME Known, running, ~running', NEW q \in Path, metaStore'[q] = metaStore[q]
    PROVE  rec'[q] \in Tree!AfterCrash(q)
<1>1. rec'[q] = kindOf(metaStore[q]) BY DEF rec
<1>2. metaStore[q] \in FileMetadata \cup {Absent} BY DEF Known, TypeOK
<1>3. rec[q] = kindOf(metadata_map[q]) BY Running
<1>4. MetadataAgree BY DEF Known, IInv
<1>5. CASE metaStore[q] = Absent
  <2>1. ~present(metadata_map, q) BY <1>4, <1>5 DEF MetadataAgree, present
  <2>2. rec[q] = "absent" BY <2>1, Running
  <2>3. rec'[q] = "absent" BY <1>1, <1>2, <1>5, Kinds
  <2>. QED BY <2>2, <2>3 DEF Tree!AfterCrash, rec
<1>6. CASE metaStore[q] # Absent
  <2>1. present(metadata_map, q) /\ metadata_map[q].type \in {metaStore[q].type, "none"}
    BY <1>4, <1>6 DEF MetadataAgree, present
  <2>2. rec[q] \in {metaStore[q].type, "none"} BY <2>1, Running
  <2>3. rec'[q] = metaStore[q].type BY <1>1, <1>2, <1>6, Kinds
  <2>4. metaStore[q].type \in {"reg", "dir", "none"} BY <1>2, <1>6 DEF FileMetadata
  <2>. QED BY <2>2, <2>3, <2>4 DEF Tree!AfterCrash, rec
<1>. QED BY <1>5, <1>6

\* The kinds after any step.
LEMMA Typed == ASSUME Known' PROVE rec' \in [Path -> Tree!Kind]
<1>1. \A q \in Path : /\ metadata_map'[q] \in FileMetadata \cup {Absent}
                      /\ metaStore'[q] \in FileMetadata \cup {Absent}
  BY DEF Known, TypeOK
<1>2. \A q \in Path : kindOf(metadata_map'[q]) \in Tree!Kind /\ kindOf(metaStore'[q]) \in Tree!Kind
  BY <1>1, Kinds
<1>3. rec' = [q \in Path |-> IF running' THEN kindOf(metadata_map'[q]) ELSE kindOf(metaStore'[q])]
  BY DEF rec
<1>. QED BY <1>2, <1>3

\* remove() is Remove, a failed write, or RemoveAborted when its CHECK fails.
LEMMA RemoveStep ==
    ASSUME Known, Known', NEW p \in Path, remove(p) PROVE TreeStep
<1>1. running BY DEF remove
<1>2. CASE ~present(metadata_map, p) /\ Refuse("remove", p, "ENOENT")
  <2>1. rec' = rec /\ dirStore' = dirStore BY <1>2, Kept DEF Refuse, memory, store
  <2>2. rec[p] = "absent" BY <1>1, <1>2, Running
  <2>3. Tree!Remove(p) BY <1>2, <2>1, <2>2 DEF Tree!Remove, Tree!Answer, Refuse, Answer, rec
  <2>. QED BY <2>3 DEF TreeStep, Tree!Next
<1>3. CASE /\ present(metadata_map, p) /\ metadata_map[p].type = "dir"
           /\ Refuse("remove", p, "EISDIR")
  <2>1. rec' = rec /\ dirStore' = dirStore BY <1>3, Kept DEF Refuse, memory, store
  <2>2. rec[p] = "dir" BY <1>1, <1>3, Running
  <2>3. Tree!Remove(p) BY <1>3, <2>1, <2>2 DEF Tree!Remove, Tree!Answer, Refuse, Answer, rec
  <2>. QED BY <2>3 DEF TreeStep, Tree!Next
<1>4. CASE Refuse("remove", p, "EIO")
  BY <1>4, Kept, Failed DEF Refuse, memory, store, Op
<1>5. ASSUME present(metadata_map, p), metadata_map[p].type # "dir"
      PROVE  rec[p] \in {"reg", "none"}
  <2>1. rec[p] = metadata_map[p].type /\ rec[p] # "absent" /\ rec[p] \in Tree!Kind
    BY <1>1, <1>5, Running
  <2>. QED BY <1>5, <2>1 DEF Tree!Kind
<1>6. CASE /\ present(metadata_map, p) /\ metadata_map[p].type # "dir"
           /\ metaStore' = [metaStore EXCEPT ![p] = Absent] /\ UNCHANGED dirStore
           /\ Abort("check_remove")
  <2>1. ~running' /\ reply' = NoReply BY <1>6 DEF Abort, LoseMemory, running
  <2>2. metaStore \in [Path -> FileMetadata \cup {Absent}] BY DEF Known, TypeOK
  <2>3. metaStore'[p] = Absent /\ \A q \in Path \ {p} : metaStore'[q] = metaStore[q]
    BY <1>6, <2>2
  <2>4. rec'[p] = "absent" BY <2>1, <2>3 DEF rec, kindOf
  <2>5. \A q \in Path \ {p} : rec'[q] \in Tree!AfterCrash(q) BY <1>1, <2>1, <2>3, Lost
  <2>6. Tree!RemoveAborted(p)
    BY <1>5, <1>6, <2>1, <2>4, <2>5, Typed DEF Tree!RemoveAborted, Tree!NoReply, NoReply, rec
  <2>. QED BY <2>6 DEF TreeStep, Tree!Next
<1>7. CASE /\ present(metadata_map, p) /\ metadata_map[p].type # "dir"
           /\ metadata_map' = [metadata_map EXCEPT ![p] = Absent]
           /\ Answer("remove", p, "OK") /\ UNCHANGED <<process, dirStore>>
  <2>1. metadata_map'[p] = Absent BY <1>7 DEF Known, TypeOK
  <2>2. rec' = [rec EXCEPT ![p] = "absent"] BY <1>1, <1>7, <2>1, Changed DEF kindOf
  <2>3. Tree!Remove(p)
    BY <1>5, <1>7, <2>2 DEF Tree!Remove, Tree!SetRecord, Tree!Answer, Answer, rec
  <2>. QED BY <2>3 DEF TreeStep, Tree!Next
<1>. QED BY <1>2, <1>3, <1>4, <1>6, <1>7 DEF remove

\* What the directories of a running master say of the tree.
LEMMA Listings ==
    ASSUME Known, running, NEW d \in Path
    PROVE  /\ present(directories, d) =>
                /\ Tree!MayBeDir(d)
                /\ directories[d] = Tree!ChildrenOf(d)
           /\ ~present(directories, d) =>
                /\ rec[d] # "dir"
                /\ \A c \in dirStore : Parent[c] # d
<1>1. DirectoriesAgree /\ EntriesListed BY DEF Known, IInv
<1>2. CASE present(directories, d)
  <2>1. /\ present(metadata_map, d) /\ metadata_map[d].type # "reg"
        /\ directories[d] = {c \in dirStore : Parent[c] = d}
    BY <1>1, <1>2 DEF DirectoriesAgree
  <2>2. rec[d] \in Tree!Kind /\ rec[d] # "absent" /\ rec[d] # "reg" BY <2>1, Running
  <2>3. rec[d] \in {"dir", "none"} BY <2>2 DEF Tree!Kind
  <2>. QED BY <1>2, <2>1, <2>3 DEF Tree!MayBeDir, Tree!ChildrenOf, rec
<1>3. CASE ~present(directories, d)
  <2>1. ~(present(metadata_map, d) /\ metadata_map[d].type = "dir")
    BY <1>1, <1>3 DEF DirectoriesAgree
  <2>2. rec[d] # "dir" BY <2>1, Running
  <2>. QED BY <1>1, <1>3, <2>2 DEF EntriesListed
<1>. QED BY <1>2, <1>3

\* rmdir() is Rmdir, or a failed write.
LEMMA RmdirStep ==
    ASSUME Known, Known', NEW p \in Path, rmdir(p) PROVE TreeStep
<1>1. running BY DEF rmdir
<1>2. CASE ~present(directories, p) /\ Refuse("rmdir", p, "ENOENT")
  <2>1. rec' = rec /\ dirStore' = dirStore BY <1>2, Kept DEF Refuse, memory, store
  <2>2. rec[p] # "dir" BY <1>1, <1>2, Listings
  <2>3. Tree!Rmdir(p) BY <1>2, <2>1, <2>2 DEF Tree!Rmdir, Tree!Answer, Refuse, Answer, rec
  <2>. QED BY <2>3 DEF TreeStep, Tree!Next
<1>3. CASE present(directories, p) /\ directories[p] # {} /\ Refuse("rmdir", p, "ENOTEMPTY")
  <2>1. rec' = rec /\ dirStore' = dirStore BY <1>3, Kept DEF Refuse, memory, store
  <2>2. Tree!MayBeDir(p) /\ Tree!ChildrenOf(p) # {} BY <1>1, <1>3, Listings
  <2>3. Tree!Rmdir(p) BY <1>3, <2>1, <2>2 DEF Tree!Rmdir, Tree!Answer, Refuse, Answer, rec
  <2>. QED BY <2>3 DEF TreeStep, Tree!Next
<1>4. CASE Refuse("rmdir", p, "EIO")
  BY <1>4, Kept, Failed DEF Refuse, memory, store, Op
<1>5. CASE /\ directories[p] = {}
           /\ metadata_map' = [metadata_map EXCEPT ![p] = Absent]
           /\ Answer("rmdir", p, "OK") /\ UNCHANGED <<process, dirStore>>
  <2>1. present(directories, p) BY <1>5, AbsentAssumption DEF present
  <2>2. Tree!MayBeDir(p) /\ Tree!ChildrenOf(p) = {} BY <1>1, <1>5, <2>1, Listings
  <2>3. metadata_map'[p] = Absent BY <1>5 DEF Known, TypeOK
  <2>4. rec' = [rec EXCEPT ![p] = "absent"] BY <1>1, <1>5, <2>3, Changed DEF kindOf
  <2>5. Tree!Rmdir(p)
    BY <1>5, <2>2, <2>4 DEF Tree!Rmdir, Tree!SetRecord, Tree!Answer, Answer, rec
  <2>. QED BY <2>5 DEF TreeStep, Tree!Next
<1>. QED BY <1>2, <1>3, <1>4, <1>5 DEF rmdir

\* add_subfile() is AddSubfile, or a failed write.
LEMMA AddSubfileStep ==
    ASSUME Known, NEW c \in Child, add_subfile(c) PROVE TreeStep
<1>. DEFINE d == Parent[c]
<1>1. running BY DEF add_subfile
<1>2. d \in Path /\ c \in Path /\ c \in Tree!Child BY PathAssumption DEF Child, Tree!Child
<1>3. CASE ~present(directories, d) /\ Refuse("add_subfile", c, "ENOENT")
  <2>1. rec' = rec /\ dirStore' = dirStore BY <1>3, Kept DEF Refuse, memory, store
  <2>2. rec[d] # "dir" BY <1>1, <1>2, <1>3, Listings
  <2>3. Tree!AddSubfile(c)
    BY <1>3, <2>1, <2>2 DEF Tree!AddSubfile, Tree!Answer, Refuse, Answer, rec
  <2>. QED BY <1>2, <2>3 DEF TreeStep, Tree!Next
<1>4. CASE /\ present(directories, d) /\ c \in directories[d]
           /\ Refuse("add_subfile", c, "EEXIST")
  <2>1. rec' = rec /\ dirStore' = dirStore BY <1>4, Kept DEF Refuse, memory, store
  <2>2. c \in dirStore BY <1>1, <1>2, <1>4, Listings DEF Tree!ChildrenOf
  <2>3. Tree!AddSubfile(c)
    BY <1>4, <2>1, <2>2 DEF Tree!AddSubfile, Tree!Answer, Refuse, Answer, rec
  <2>. QED BY <1>2, <2>3 DEF TreeStep, Tree!Next
<1>5. CASE Refuse("add_subfile", c, "EIO")
  BY <1>2, <1>5, Kept, Failed DEF Refuse, memory, store, Op
<1>6. CASE /\ present(directories, d) /\ c \notin directories[d]
           /\ dirStore' = dirStore \cup {c}
           /\ Answer("add_subfile", c, "OK") /\ UNCHANGED <<process, metadata_map, metaStore>>
  <2>1. rec' = rec BY <1>6, Kept
  <2>2. c \notin dirStore BY <1>1, <1>2, <1>6, Listings DEF Tree!ChildrenOf
  <2>3. Tree!MayBeDir(d) BY <1>1, <1>2, <1>6, Listings
  <2>4. Tree!AddSubfile(c)
    BY <1>6, <2>1, <2>2, <2>3 DEF Tree!AddSubfile, Tree!Answer, Answer, rec
  <2>. QED BY <1>2, <2>4 DEF TreeStep, Tree!Next
<1>. QED BY <1>3, <1>4, <1>5, <1>6 DEF add_subfile

\* remove_subfile() is RemoveSubfile, or a failed write.
LEMMA RemoveSubfileStep ==
    ASSUME Known, NEW c \in Child, remove_subfile(c) PROVE TreeStep
<1>. DEFINE d == Parent[c]
<1>1. running BY DEF remove_subfile
<1>2. d \in Path /\ c \in Path /\ c \in Tree!Child BY PathAssumption DEF Child, Tree!Child
<1>3. CASE /\ ~present(directories, d) \/ c \notin directories[d]
           /\ Refuse("remove_subfile", c, "ENOENT")
  <2>1. rec' = rec /\ dirStore' = dirStore BY <1>3, Kept DEF Refuse, memory, store
  <2>2. c \notin dirStore
    <3>1. CASE present(directories, d) BY <1>1, <1>2, <1>3, <3>1, Listings DEF Tree!ChildrenOf
    <3>2. CASE ~present(directories, d) BY <1>1, <1>2, <3>2, Listings
    <3>. QED BY <3>1, <3>2
  <2>3. Tree!RemoveSubfile(c)
    BY <1>3, <2>1, <2>2 DEF Tree!RemoveSubfile, Tree!Answer, Refuse, Answer, rec
  <2>. QED BY <1>2, <2>3 DEF TreeStep, Tree!Next
<1>4. CASE Refuse("remove_subfile", c, "EIO")
  BY <1>2, <1>4, Kept, Failed DEF Refuse, memory, store, Op
<1>5. CASE /\ present(directories, d) /\ c \in directories[d]
           /\ dirStore' = dirStore \ {c}
           /\ Answer("remove_subfile", c, "OK") /\ UNCHANGED <<process, metadata_map, metaStore>>
  <2>1. rec' = rec BY <1>5, Kept
  <2>2. c \in dirStore BY <1>1, <1>2, <1>5, Listings DEF Tree!ChildrenOf
  <2>3. Tree!RemoveSubfile(c)
    BY <1>5, <2>1, <2>2 DEF Tree!RemoveSubfile, Tree!Answer, Answer, rec
  <2>. QED BY <1>2, <2>3 DEF TreeStep, Tree!Next
<1>. QED BY <1>3, <1>4, <1>5 DEF remove_subfile

\* setattr() is Setattr, in memory at least.
LEMMA SetattrStep ==
    ASSUME Known, NEW p \in Path, NEW keepsType \in BOOLEAN, NEW a \in Attr,
           setattr(p, keepsType, a)
    PROVE  TreeStep
<1>. DEFINE type == IF keepsType THEN metadata_map[p].type ELSE "none"
            meta == [metadata_map[p] EXCEPT !.attr = a, !.type = type]
<1>1. running BY DEF setattr
<1>2. CASE ~present(metadata_map, p) /\ Refuse("setattr", p, "ENOENT")
  <2>1. rec' = rec /\ dirStore' = dirStore BY <1>2, Kept DEF Refuse, memory, store
  <2>2. rec[p] = "absent" BY <1>1, <1>2, Running
  <2>3. Tree!Setattr(p) BY <1>2, <2>1, <2>2 DEF Tree!Setattr, Tree!Answer, Refuse, Answer, rec
  <2>. QED BY <2>3 DEF TreeStep, Tree!Next
<1>3. CASE /\ present(metadata_map, p)
           /\ metadata_map' = [metadata_map EXCEPT ![p] = meta]
           /\ \E s \in {"OK", "EIO"} : Answer("setattr", p, s)
           /\ UNCHANGED <<process, dirStore>>
  <2>1. metadata_map \in [Path -> FileMetadata \cup {Absent}] BY DEF Known, TypeOK
  <2>2. metadata_map[p] \in FileMetadata BY <1>3, <2>1 DEF present
  <2>3. meta \in FileMetadata /\ meta.type = type BY <2>2 DEF FileMetadata
  <2>4. metadata_map'[p] = meta BY <1>3, <2>1
  <2>. HIDE DEF meta
  <2>5. kindOf(metadata_map'[p]) = type BY <2>3, <2>4, AbsentAssumption DEF kindOf
  <2>6. rec' = [rec EXCEPT ![p] = type] BY <1>1, <1>3, <2>5, Changed
  <2>7. rec[p] # "absent" /\ type \in {rec[p], "none"} BY <1>1, <1>3, Running
  <2>. HIDE DEF type
  <2>8. Tree!Setattr(p)
    BY <1>3, <2>6, <2>7 DEF Tree!Setattr, Tree!SetRecord, Tree!Answer, Answer, rec
  <2>. QED BY <2>8 DEF TreeStep, Tree!Next
<1>. QED BY <1>2, <1>3 DEF setattr

\* A crash is Crash,
LEMMA CrashStep == ASSUME Known, Known', Crash PROVE TreeStep
<1>1. /\ running /\ ~running' /\ reply' = NoReply /\ UNCHANGED <<metaStore, dirStore>>
  BY DEF Crash, LoseMemory, running, store
<1>2. \A q \in Path : rec'[q] \in Tree!AfterCrash(q) BY <1>1, Lost
<1>3. Tree!Crash BY <1>1, <1>2, Typed DEF Tree!Crash, Tree!NoReply, NoReply, rec
<1>. QED BY <1>3 DEF TreeStep, Tree!Next

\* and so is a restart, which finds what the store had, or an abort in it.
LEMMA RestartStep == ASSUME Known, Known', init PROVE TreeStep
<1>1. ~running /\ reply' = NoReply /\ UNCHANGED <<metaStore, dirStore>>
  BY DEF init, Abort, LoseMemory, store
<1>2. running' => metadata_map' = metaStore BY DEF init, Abort, running
<1>3. rec' = rec BY <1>1, <1>2 DEF rec
<1>4. \A q \in Path : rec'[q] \in Tree!AfterCrash(q) BY <1>3 DEF Tree!AfterCrash, rec
<1>5. Tree!Crash BY <1>1, <1>4, Typed DEF Tree!Crash, Tree!NoReply, NoReply, rec
<1>. QED BY <1>5 DEF TreeStep, Tree!Next

\* Every step of the master is one of the tree, or leaves it as it is.
LEMMA EveryStep == ASSUME Known, Known', [Next]_vars PROVE TreeStep
<1>1. CASE UNCHANGED vars
  <2>1. rec' = rec /\ dirStore' = dirStore /\ reply' = reply
    BY <1>1, Kept DEF vars, memory, store
  <2>. QED BY <2>1 DEF TreeStep, Tree!vars, rec
<1>2. CASE \E p \in FilePath : create(p) BY <1>2, CreateStep, PathAssumption
<1>3. CASE \E p \in DirPath : mkdir(p) BY <1>3, MkdirStep, PathAssumption
<1>4. CASE \E p \in Path : remove(p) \/ rmdir(p) BY <1>4, RemoveStep, RmdirStep
<1>5. CASE \E c \in Child : add_subfile(c) \/ remove_subfile(c)
  BY <1>5, AddSubfileStep, RemoveSubfileStep
<1>6. CASE \E p \in Path, keepsType \in BOOLEAN, a \in Attr : setattr(p, keepsType, a)
  BY <1>6, SetattrStep
<1>7. CASE Crash BY <1>7, CrashStep
<1>8. CASE init BY <1>8, RestartStep
<1>. QED BY <1>1, <1>2, <1>3, <1>4, <1>5, <1>6, <1>7, <1>8 DEF Next

\* The namespace of a master (namespace.cpp), with its store, failing writes,
\* crashes, aborts and restarts, implements the abstract directory tree, for
\* any set of paths.
THEOREM NamespaceIsDirTree == Spec => ImplementsDirTree
<1>1. Init => Tree!Init
  BY DEF Init, Tree!Init, running, kindOf, Tree!NoReply, NoReply
<1>2. Known /\ Known' /\ [Next]_vars => [Tree!Next]_(Tree!vars) BY EveryStep DEF TreeStep
<1>. QED BY <1>1, <1>2, TypeCorrect, Inductive, PTL DEF Spec, ImplementsDirTree, Tree!Spec, Known
=============================================================================
