----------------------------- MODULE MountProofs -----------------------------
(***************************************************************************)
(* Proofs about Mount.tla, for any paths, descriptors, threads and number  *)
(* of object ids: types, who owns a descriptor, and which object has which *)
(* record.                                                                 *)
(***************************************************************************)
EXTENDS Mount, TLAPS

\* Leaves are for Zenon, unless they name SMT.
USE Zenon

(***************************************************************************)
(* Types                                                                   *)
(***************************************************************************)

\* Object ids are neither None nor Dir.
LEMMA OidTyped == /\ None \notin Oid \cup {Dir} /\ Dir \notin Oid
                  /\ nextOid \in 1 .. MaxOid + 1 /\ nextOid <= MaxOid
                        => nextOid \in Oid /\ nextOid + 1 \in 1 .. MaxOid + 1
BY SMT, StorageAssumption DEF Oid

\* The calls to the masters.
LEMMA NamespaceTyped ==
    ASSUME TypeOK, NEW p \in Path
    PROVE  /\ client_create(p) => /\ record' \in [Path -> Oid \cup {Dir, None}]
                                  /\ nextOid' \in 1 .. MaxOid + 1 /\ nextOid \in Oid
           /\ client_mkdir(p) \/ client_rmdir(p) => record' \in [Path -> Oid \cup {Dir, None}]
           /\ \A oid \in Oid : client_unlink(p, oid) =>
                  record' \in [Path -> Oid \cup {Dir, None}]
BY OidTyped DEF TypeOK, client_create, client_mkdir, client_rmdir, client_unlink

\* The calls to the storage manager.
Names == Path \cup Oid
\* The storage stays well typed.
LEMMA FilesTyped ==
    ASSUME TypeOK, NEW p \in Path
    PROVE  /\ \A oid \in Oid : sm_create_elsewhere(p, oid) \/ sm_unlink(p, oid) \/ sm_symlink(p, oid)
                                => files' \in [Names -> Oid \cup {Dir, None}]
           /\ sm_mkdir(p) \/ sm_rmdir(p) => files' \in [Names -> Oid \cup {Dir, None}]
<1>1. files \in [Names -> Oid \cup {Dir, None}] BY DEF TypeOK, StorageTypeOK, Names
<1>2. p \in Names /\ Oid \subseteq Names BY DEF Names
<1>. QED
  BY <1>1, <1>2
  DEF sm_create_elsewhere, sm_unlink, sm_symlink, sm_mkdir, sm_rmdir, object_path, posix_path,
      object_unlink, posix_unlink, object_symlink, posix_symlink, object_mkdir, posix_mkdir,
      object_rmdir, posix_rmdir, sys_creat_elsewhere, sys_unlink, sys_symlink, sys_mkdir, sys_rmdir

\* The opens: a descriptor that was free is open on some file.
LEMMA OpenTyped ==
    ASSUME TypeOK, NEW p \in Path, NEW oid \in Oid, NEW fd \in Fd,
           sm_create(p, oid, fd) \/ sm_open(p, oid, fd)
    PROVE  /\ files' \in [Names -> Oid \cup {Dir, None}]
           /\ fds[fd] = None
           /\ \E file \in Oid \cup {Dir} : fds' = [fds EXCEPT ![fd] = file]
<1>1. files \in [Names -> Oid \cup {Dir, None}] BY DEF TypeOK, StorageTypeOK, Names
<1>2. p \in Names /\ oid \in Names BY DEF Names
<1>3. PICK name \in Names : sys_open(name, fd) \/ sys_creat(name, oid, fd)
  BY <1>2 DEF sm_create, sm_open, object_create, object_open, posix_create, posix_open,
              object_path, posix_path
<1>4. CASE sys_open(name, fd) BY <1>1, <1>4 DEF sys_open
<1>5. CASE sys_creat(name, oid, fd)
  BY <1>1, <1>5, OidTyped DEF sys_creat, sys_creat_elsewhere
<1>. QED BY <1>3, <1>4, <1>5

\* Every step keeps the variables in their types.
LEMMA Typed == TypeOK /\ [Next]_vars => TypeOK'
<1>. SUFFICES ASSUME TypeOK, [Next]_vars PROVE TypeOK' OBVIOUS
<1>. USE DEF Names
<1>1. ASSUME NEW t \in Thread, NEW p \in Path,
             vsfs_create(t, p) \/ vsfs_symlink(t, p) \/ vsfs_mknod(t, p) \/ api_create(t, p)
      PROVE  TypeOK'
  BY SMT, <1>1, NamespaceTyped
  DEF vsfs_create, vsfs_symlink, vsfs_mknod, api_create, Storage, Begins, storageVars, history,
      TypeOK, StorageTypeOK, Call
<1>2. ASSUME NEW t \in Thread, NEW p \in Path,
             vsfs_open(t, p) \/ vsfs_getattr(t, p) \/ vsfs_readlink(t, p)
      PROVE  TypeOK'
  BY SMT, <1>2
  DEF vsfs_open, vsfs_getattr, vsfs_readlink, Storage, Begins, storageVars, nsVars, history,
      TypeOK, StorageTypeOK, Call
<1>3. ASSUME NEW t \in Thread, NEW p \in Path,
             \/ vsfs_unlink(t, p) \/ vsfs_mkdir(t, p) \/ vsfs_rmdir(t, p)
             \/ api_unlink(t, p) \/ api_directory(t, p)
      PROVE  TypeOK'
  BY SMT, <1>3, NamespaceTyped
  DEF vsfs_unlink, vsfs_mkdir, vsfs_rmdir, api_unlink, api_directory, Storage, Begins,
      storageVars, history, TypeOK, StorageTypeOK, Call
<1>4. ASSUME NEW t \in Thread, NEW fd \in Fd, storage_create(t, fd) \/ storage_open(t, fd)
      PROVE  TypeOK'
  <2>1. call[t] \in Call /\ call[t].at = "storage" /\ call[t].op \in {"create", "open"}
    BY SMT, <1>4 DEF storage_create, storage_open, AtStorage, TypeOK, Idle
  <2>2. call[t].path \in Path /\ call[t].oid \in Oid BY <2>1 DEF Call
  <2>3. PICK file \in Oid \cup {Dir} : fds' = [fds EXCEPT ![fd] = file]
    BY <1>4, <2>2, OpenTyped DEF storage_create, storage_open
  <2>4. fds'[fd] = file /\ fds' \in [Fd -> Oid \cup {Dir, None}]
    BY <2>3 DEF TypeOK, StorageTypeOK
  <2>5. call' \in [Thread -> Call \cup {Idle}]
    BY SMT, <1>4, <2>1, <2>2, <2>4 DEF storage_create, storage_open, Opened, TypeOK, Call
  <2>. QED
    BY <1>4, <2>2, <2>4, <2>5, OpenTyped
    DEF storage_create, storage_open, nsVars, history, TypeOK, StorageTypeOK
<1>5. ASSUME NEW t \in Thread,
             \/ storage_symlink(t) \/ storage_api_create(t) \/ storage_unlink(t)
             \/ storage_mkdir(t) \/ storage_rmdir(t) \/ storage_look(t) \/ storage_fails(t)
      PROVE  TypeOK'
  <2>1. call[t] \in Call /\ call[t].at = "storage"
    BY SMT, <1>5 DEF storage_symlink, storage_api_create, storage_unlink, storage_mkdir,
                storage_rmdir, storage_look, storage_fails, AtStorage, TypeOK, Idle
  <2>2. /\ call[t].path \in Path
        /\ call[t].op \notin {"mkdir", "rmdir"} => call[t].oid \in Oid
    BY <2>1 DEF Call
  <2>3. call' \in [Thread -> Call \cup {Idle}]
    BY <1>5 DEF storage_symlink, storage_api_create, storage_unlink, storage_mkdir,
                storage_rmdir, storage_look, storage_fails, Returns, TypeOK
  <2>4. files' \in [Names -> Oid \cup {Dir, None}] /\ made' \in SUBSET Oid
    BY <1>5, <2>2, FilesTyped
    DEF storage_symlink, storage_api_create, storage_unlink, storage_mkdir, storage_rmdir,
        storage_look, storage_fails, AtStorage, storageVars, history, TypeOK, StorageTypeOK
  <2>. QED
    BY <1>5, <2>3, <2>4
    DEF storage_symlink, storage_api_create, storage_unlink, storage_mkdir, storage_rmdir,
        storage_look, storage_fails, storageVars, nsVars, history, TypeOK, StorageTypeOK
<1>6. ASSUME NEW t \in Thread, add_file(t) \/ erase_file(t) \/ close_copy(t) \/ use_file(t)
      PROVE  TypeOK'
  <2>1. call[t] \in Call \/ call[t] = Idle BY DEF TypeOK
  <2>2. /\ call[t].at = "opened" => /\ call[t].fd \in Fd /\ call[t].oid \in Oid
                                    /\ call[t].file \in Oid \cup {Dir}
        /\ call[t].at = "closed" => call[t].fd \in Fd
        /\ call[t].at = "dup" => call[t].copy \in Fd
    BY SMT, <2>1 DEF Call, Idle
  <2>3. call' \in [Thread -> Call \cup {Idle}]
    BY <1>6 DEF add_file, erase_file, close_copy, use_file, Returns, TypeOK
  <2>4. CASE add_file(t)
    BY <2>2, <2>3, <2>4
    DEF add_file, destroy, sys_close, nsVars, TypeOK, StorageTypeOK, FileState, Handle
  <2>5. CASE erase_file(t) \/ close_copy(t) \/ use_file(t)
    BY <2>2, <2>3, <2>5
    DEF erase_file, close_copy, use_file, destroy, sys_close, nsVars, storageVars, history,
        TypeOK, StorageTypeOK, FileState
  <2>. QED BY <1>6, <2>4, <2>5
<1>7. ASSUME NEW t \in Thread, NEW fd \in Fd, Using(t, fd) PROVE TypeOK'
  BY SMT, <1>7 DEF Using, Begins, storageVars, nsVars, history, TypeOK, StorageTypeOK, Call
<1>8. ASSUME NEW t \in Thread, NEW fd \in Fd, NEW copy \in Fd, vsfs_flush(t, fd, copy)
      PROVE  TypeOK'
  BY SMT, <1>8 DEF vsfs_flush, sys_dup, Begins, nsVars, history, TypeOK, StorageTypeOK, Call
<1>9. ASSUME NEW t \in Thread, NEW fd \in Fd, close_file(t, fd) PROVE TypeOK'
  BY SMT, <1>9 DEF close_file, close, sys_close, Begins, nsVars, TypeOK, StorageTypeOK, Call, FileState
<1>10. CASE Remount
  BY <1>10 DEF Remount, nsVars, TypeOK, StorageTypeOK
<1>11. CASE UNCHANGED vars
  BY <1>11 DEF vars, TypeOK, StorageTypeOK
<1>. QED
  BY <1>1, <1>2, <1>3, <1>4, <1>5, <1>6, <1>7, <1>8, <1>9, <1>10, <1>11
  DEF Next, vsfs_read, vsfs_write, vsfs_write_buf, vsfs_fgetattr, vsfs_ioctl, vsfs_flock,
      vsfs_lock, vsfs_fsync

(***************************************************************************)
(* The table of open files.  DescriptorsOwned is not inductive: a step may *)
(* close a descriptor that another thread has just been given, unless that *)
(* thread's is nobody else's and its number has no File but one that is    *)
(* being erased by the thread that holds the mutex.                        *)
(***************************************************************************)

Owns(t, fd) ==
    \/ call[t].at = "opened" /\ call[t].fd = fd
    \/ call[t].at = "dup" /\ call[t].copy = fd

Tabled == \A fd \in Fd :
    /\ handle[fd] # None => table[fd] = "open" /\ fds[fd] = handle[fd].file
    /\ table[fd] # "stale"
    /\ table[fd] = "open" => handle[fd] # None
NotLost == \A fd \in Fd :
    fds[fd] # None => handle[fd] # None \/ \E t \in Thread : Owns(t, fd)
Own == \A t \in Thread, fd \in Fd : Owns(t, fd) =>
    /\ fds[fd] # None /\ handle[fd] = None
    /\ \A u \in Thread : Owns(u, fd) => u = t
Threads == \A t \in Thread :
    /\ call[t].at = "opened" => fds[call[t].fd] = call[t].file
    /\ call[t].at = "closed" => handle[call[t].fd] = None /\ table[call[t].fd] = "closed"
Locked == \A t \in Thread : call[t].at = "closed" => mutex = t
Owned == Locked /\ (~reported => Tabled /\ NotLost /\ Own /\ Threads)

\* Steps that leave the descriptors, the table and the handles alone.
LEMMA OwnedFramed ==
    ASSUME TypeOK, Owned, NEW t \in Thread, NEW c,
           UNCHANGED <<handle, table, fds, reported, mutex>>,
           call' = [call EXCEPT ![t] = c] \/ call' = call,
           call[t].at \notin {"opened", "dup", "closed"}, c.at \notin {"opened", "dup", "closed"}
    PROVE  Owned'
<1>1. \A u \in Thread : call'[u] = call[u] \/ (u = t /\ call'[u] = c) BY DEF TypeOK
<1>2. \A u \in Thread, fd \in Fd : Owns(u, fd)' <=> Owns(u, fd)
  <2>. SUFFICES ASSUME NEW u \in Thread, NEW fd \in Fd PROVE Owns(u, fd)' <=> Owns(u, fd)
    OBVIOUS
  <2>1. CASE call'[u] = call[u] BY <2>1 DEF Owns
  <2>2. CASE u = t /\ call'[u] = c
    <3>1. ~Owns(u, fd) BY <2>2 DEF Owns
    <3>2. ~Owns(u, fd)' BY <2>2 DEF Owns
    <3>. QED BY <3>1, <3>2
  <2>. QED BY <1>1, <2>1, <2>2
<1>3. \A u \in Thread : call'[u].at \in {"opened", "dup", "closed"} => call'[u] = call[u]
  BY <1>1
<1>4. Locked' BY <1>3 DEF Owned, Locked
<1>5. ~reported => Tabled' BY DEF Owned, Tabled
<1>6. ~reported => NotLost' BY <1>2 DEF Owned, NotLost
<1>7. ~reported => Own' BY <1>2 DEF Owned, Own
<1>8. ~reported => Threads' BY <1>3 DEF Owned, Threads
<1>. QED BY <1>4, <1>5, <1>6, <1>7, <1>8 DEF Owned

\* An open gives a thread a descriptor that is nobody's.
LEMMA OpenOwned ==
    ASSUME TypeOK, Owned, NEW t \in Thread, NEW fd \in Fd,
           storage_create(t, fd) \/ storage_open(t, fd)
    PROVE  Owned'
<1>1. call[t] \in Call /\ call[t].at = "storage" /\ call[t].op \in {"create", "open"}
  BY SMT DEF storage_create, storage_open, AtStorage, TypeOK, Idle
<1>2. call[t].path \in Path /\ call[t].oid \in Oid BY <1>1 DEF Call
<1>3. fds[fd] = None /\ \E file \in Oid \cup {Dir} : fds' = [fds EXCEPT ![fd] = file]
  BY <1>2, OpenTyped DEF storage_create, storage_open
<1>4. PICK file \in Oid \cup {Dir} : fds' = [fds EXCEPT ![fd] = file] BY <1>3
<1>5. /\ fds'[fd] = file /\ file # None
      /\ \A f \in Fd \ {fd} : fds'[f] = fds[f]
  BY <1>4, OidTyped DEF TypeOK, StorageTypeOK
<1>6. /\ call'[t].at = "opened" /\ call'[t].fd = fd /\ call'[t].file = file
      /\ \A u \in Thread \ {t} : call'[u] = call[u]
  BY SMT, <1>5 DEF storage_create, storage_open, Opened, TypeOK
<1>7. UNCHANGED <<handle, table, reported, mutex>>
  BY DEF storage_create, storage_open, history
<1>8. Locked' BY <1>6, <1>7 DEF Owned, Locked
<1>9. \A u \in Thread, f \in Fd : Owns(u, f)' <=> (Owns(u, f) /\ u # t) \/ (u = t /\ f = fd)
  BY <1>1, <1>6 DEF Owns
<1>10. ASSUME ~reported PROVE Tabled' /\ NotLost' /\ Own' /\ Threads'
  <2>1. Tabled /\ NotLost /\ Own /\ Threads BY <1>10 DEF Owned
  <2>2. handle[fd] = None
    BY <1>3, <2>1, OidTyped DEF Tabled, TypeOK, Handle
  <2>3. Tabled' BY <1>5, <1>7, <2>1, <2>2 DEF Tabled
  <2>4. \A u \in Thread : ~Owns(u, fd) BY <1>3, <2>1 DEF Own
  <2>5. NotLost' BY SMT, <1>1, <1>5, <1>7, <1>9, <2>1 DEF NotLost, Owns
  <2>6. Own' BY SMT, <1>5, <1>7, <1>9, <2>1, <2>2, <2>4 DEF Own
  <2>7. Threads'
    <3>1. \A u \in Thread \ {t} : call[u].at = "opened" => call[u].fd \in Fd \ {fd}
      BY SMT, <2>4 DEF Owns, TypeOK, Call, Idle
    <3>. QED BY SMT, <1>5, <1>6, <1>7, <2>1, <3>1 DEF Threads
  <2>. QED BY <2>3, <2>5, <2>6, <2>7
<1>. QED BY <1>7, <1>8, <1>10 DEF Owned

\* The thread's descriptor becomes the handle's: no File with its number is
\* left in the table.
LEMMA AddOwned ==
    ASSUME TypeOK, Owned, NEW t \in Thread, add_file(t)
    PROVE  Owned'
<1>. DEFINE fd == call[t].fd
<1>1. call[t] \in Call /\ call[t].at = "opened" BY SMT DEF add_file, TypeOK, Idle
<1>2. fd \in Fd /\ call[t].oid \in Oid /\ call[t].file \in Oid \cup {Dir} BY <1>1 DEF Call
<1>3. /\ call'[t] = Idle
      /\ \A u \in Thread \ {t} : call'[u] = call[u]
      /\ UNCHANGED <<reported, mutex>> /\ mutex = None
  BY DEF add_file, Returns, TypeOK
<1>4. Locked' BY SMT, <1>3 DEF Owned, Locked, Idle
<1>5. ASSUME ~reported PROVE Tabled' /\ NotLost' /\ Own' /\ Threads'
  <2>1. Tabled /\ NotLost /\ Own /\ Threads /\ Locked BY <1>5 DEF Owned
  <2>2. Owns(t, fd) BY <1>1 DEF Owns
  <2>3. handle[fd] = None /\ fds[fd] = call[t].file /\ \A u \in Thread : Owns(u, fd) => u = t
    BY <1>1, <1>2, <2>1, <2>2 DEF Own, Threads
  <2>4. fds' = fds BY <1>2, <2>1, <2>3 DEF add_file, destroy, Tabled
  <2>5. /\ table'[fd] = "open" /\ handle'[fd] # None /\ handle'[fd].file = call[t].file
        /\ \A f \in Fd \ {fd} : table'[f] = table[f] /\ handle'[f] = handle[f]
    <3>1. None # [oid |-> call[t].oid, file |-> call[t].file]
      BY SMT, <1>2, MountAssumption DEF Handle
    <3>. QED BY <1>2, <3>1 DEF add_file, TypeOK, StorageTypeOK
  <2>6. Tabled' BY <2>1, <2>3, <2>4, <2>5 DEF Tabled
  <2>7. \A u \in Thread, f \in Fd : Owns(u, f)' <=> Owns(u, f) /\ u # t
    BY SMT, <1>1, <1>3 DEF Owns, Idle
  <2>8. NotLost'
    <3>1. \A f \in Fd : Owns(t, f) => f = fd BY <1>1 DEF Owns
    <3>. QED BY <2>1, <2>4, <2>5, <2>7, <3>1 DEF NotLost
  <2>9. Own' BY SMT, <2>1, <2>3, <2>4, <2>5, <2>7 DEF Own
  <2>10. Threads'
    <3>1. \A u \in Thread \ {t} : call[u].at = "opened" => call[u].fd # fd
      BY <2>3 DEF Owns
    <3>2. \A u \in Thread : call[u].at # "closed"
      BY <1>3, <2>1, MountAssumption DEF Locked
    <3>. QED BY SMT, <1>3, <2>1, <2>4, <3>2 DEF Threads, Idle
  <2>. QED BY <2>6, <2>8, <2>9, <2>10
<1>. QED BY <1>3, <1>4, <1>5 DEF Owned

\* A flush gets a copy of its own.
LEMMA FlushOwned ==
    ASSUME TypeOK, Owned, NEW t \in Thread, NEW fd \in Fd, NEW copy \in Fd,
           vsfs_flush(t, fd, copy)
    PROVE  Owned'
<1>1. /\ call[t] = Idle /\ call'[t] = [at |-> "dup", fd |-> fd, copy |-> copy]
      /\ \A u \in Thread \ {t} : call'[u] = call[u]
      /\ UNCHANGED <<handle, table, reported, mutex>>
      /\ fds[copy] = None /\ fds'[copy] # None /\ \A f \in Fd \ {copy} : fds'[f] = fds[f]
  BY DEF vsfs_flush, sys_dup, Begins, history, TypeOK, StorageTypeOK
<1>2. Locked' BY SMT, <1>1 DEF Owned, Locked
<1>3. \A u \in Thread, f \in Fd : Owns(u, f)' <=> Owns(u, f) \/ (u = t /\ f = copy)
  BY SMT, <1>1 DEF Owns, Idle
<1>4. ASSUME ~reported PROVE Tabled' /\ NotLost' /\ Own' /\ Threads'
  <2>1. Tabled /\ NotLost /\ Own /\ Threads BY <1>4 DEF Owned
  <2>2. handle[copy] = None BY <1>1, <2>1, OidTyped DEF Tabled, TypeOK, Handle
  <2>3. Tabled' BY <1>1, <2>1, <2>2 DEF Tabled
  <2>4. NotLost' BY <1>1, <1>3, <2>1 DEF NotLost
  <2>5. \A u \in Thread : ~Owns(u, copy) BY <1>1, <2>1 DEF Own
  <2>6. ASSUME NEW u \in Thread, NEW f \in Fd, Owns(u, f)'
        PROVE  (fds[f] # None)' /\ (handle[f] = None)' /\ \A v \in Thread : Owns(v, f)' => v = u
    <3>1. CASE f = copy BY <1>1, <1>3, <2>2, <2>5, <2>6, <3>1
    <3>2. CASE f # copy BY <1>1, <1>3, <2>1, <2>6, <3>2 DEF Own
    <3>. QED BY <3>1, <3>2
  <2>7. Own' BY <2>6 DEF Own
  <2>8. Threads'
    <3>1. \A u \in Thread : call[u].at = "opened" => call[u].fd \in Fd \ {copy}
      BY SMT, <2>5 DEF Owns, TypeOK, Call, Idle
    <3>. QED BY SMT, <1>1, <2>1, <3>1 DEF Threads
  <2>. QED BY <2>3, <2>4, <2>7, <2>8
<1>. QED BY <1>1, <1>2, <1>4 DEF Owned

\* The close of the duplicate in vsfs_flush() frees nobody else's descriptor.
LEMMA CloseCopyOwned ==
    ASSUME TypeOK, Owned, NEW t \in Thread, close_copy(t)
    PROVE  Owned'
<1>. DEFINE copy == call[t].copy
<1>1. call[t] \in Call /\ call[t].at = "dup" BY SMT DEF close_copy, TypeOK, Idle
<1>2. copy \in Fd BY <1>1 DEF Call
<1>3. /\ call'[t] = Idle
      /\ \A u \in Thread \ {t} : call'[u] = call[u]
      /\ UNCHANGED <<handle, table, reported, mutex>>
      /\ fds'[copy] = None /\ \A f \in Fd \ {copy} : fds'[f] = fds[f]
  BY <1>2 DEF close_copy, sys_close, Returns, history, TypeOK, StorageTypeOK
<1>4. Locked' BY SMT, <1>3 DEF Owned, Locked, Idle
<1>5. \A u \in Thread, f \in Fd : Owns(u, f)' <=> Owns(u, f) /\ u # t
  BY SMT, <1>1, <1>3 DEF Owns, Idle
<1>6. ASSUME ~reported PROVE Tabled' /\ NotLost' /\ Own' /\ Threads'
  <2>1. Tabled /\ NotLost /\ Own /\ Threads BY <1>6 DEF Owned
  <2>2. Owns(t, copy) BY <1>1 DEF Owns
  <2>3. handle[copy] = None /\ \A u \in Thread : Owns(u, copy) => u = t
    BY <1>2, <2>1, <2>2 DEF Own
  <2>4. \A f \in Fd : Owns(t, f) => f = copy BY <1>1 DEF Owns
  <2>5. Tabled' BY <1>3, <2>1, <2>3 DEF Tabled
  <2>6. NotLost' BY <1>3, <1>5, <2>1, <2>4 DEF NotLost
  <2>7. Own' BY SMT, <1>3, <1>5, <2>1, <2>3 DEF Own
  <2>8. Threads'
    <3>1. \A u \in Thread \ {t} : call[u].at = "opened" => call[u].fd \in Fd \ {copy}
      BY SMT, <2>3 DEF Owns, TypeOK, Call, Idle
    <3>. QED BY SMT, <1>3, <2>1, <3>1 DEF Threads, Idle
  <2>. QED BY <2>5, <2>6, <2>7, <2>8
<1>. QED BY <1>3, <1>4, <1>6 DEF Owned

\* The descriptor is given back, and the number stays in the table, under the
\* mutex, without a handler.
LEMMA CloseOwned ==
    ASSUME TypeOK, Owned, NEW t \in Thread, NEW fd \in Fd, close_file(t, fd)
    PROVE  Owned'
<1>1. /\ call[t] = Idle /\ call'[t] = [at |-> "closed", fd |-> fd]
      /\ \A u \in Thread \ {t} : call'[u] = call[u]
      /\ mutex = None /\ mutex' = t
      /\ handle[fd] # None /\ handle'[fd] = None
      /\ \A f \in Fd \ {fd} : handle'[f] = handle[f]
  BY DEF close_file, Begins, TypeOK
<1>2. \A u \in Thread : call[u].at # "closed" BY <1>1, MountAssumption DEF Owned, Locked
<1>3. Locked' BY <1>1, <1>2 DEF Locked
<1>4. \A u \in Thread, f \in Fd : Owns(u, f)' <=> Owns(u, f) BY SMT, <1>1 DEF Owns, Idle
<1>5. ASSUME ~reported' PROVE Tabled' /\ NotLost' /\ Own' /\ Threads'
  <2>1. ~reported /\ close(fd, "OK") BY <1>5 DEF close_file
  <2>2. Tabled /\ NotLost /\ Own /\ Threads BY <2>1 DEF Owned
  <2>3. /\ fds'[fd] = None /\ table'[fd] = "closed"
        /\ \A f \in Fd \ {fd} : fds'[f] = fds[f] /\ table'[f] = table[f]
    BY <2>1 DEF close, sys_close, TypeOK, StorageTypeOK
  <2>4. \A u \in Thread : ~Owns(u, fd) BY <1>1, <2>2 DEF Own
  <2>5. Tabled' BY <1>1, <2>2, <2>3 DEF Tabled
  <2>6. NotLost' BY <1>1, <1>4, <2>2, <2>3 DEF NotLost
  <2>7. Own' BY <1>1, <1>4, <2>2, <2>3, <2>4 DEF Own
  <2>8. Threads'
    <3>1. \A u \in Thread \ {t} : call[u].at = "opened" => call[u].fd \in Fd \ {fd}
      BY SMT, <2>4 DEF Owns, TypeOK, Call, Idle
    <3>. QED BY SMT, <1>1, <1>2, <2>2, <2>3, <3>1 DEF Threads
  <2>. QED BY <2>5, <2>6, <2>7, <2>8
<1>. QED BY <1>3, <1>5 DEF Owned

\* The entry that is erased has no handler: a descriptor that another thread
\* has got under the same number stays open.
LEMMA EraseOwned ==
    ASSUME TypeOK, Owned, NEW t \in Thread, erase_file(t)
    PROVE  Owned'
<1>. DEFINE fd == call[t].fd
<1>1. call[t] \in Call /\ call[t].at = "closed" BY SMT DEF erase_file, TypeOK, Idle
<1>2. fd \in Fd BY <1>1 DEF Call
<1>3. /\ call'[t] = Idle
      /\ \A u \in Thread \ {t} : call'[u] = call[u]
      /\ UNCHANGED <<handle, reported>>
      /\ table'[fd] = None /\ \A f \in Fd \ {fd} : table'[f] = table[f]
  BY <1>2 DEF erase_file, Returns, history, TypeOK, StorageTypeOK
<1>4. \A u \in Thread \ {t} : call[u].at # "closed" BY <1>1 DEF Owned, Locked
<1>5. Locked' BY SMT, <1>3, <1>4 DEF Locked, Idle
<1>6. \A u \in Thread, f \in Fd : Owns(u, f)' <=> Owns(u, f) BY SMT, <1>1, <1>3 DEF Owns, Idle
<1>7. ASSUME ~reported PROVE Tabled' /\ NotLost' /\ Own' /\ Threads'
  <2>1. Tabled /\ NotLost /\ Own /\ Threads BY <1>7 DEF Owned
  <2>2. handle[fd] = None /\ table[fd] = "closed" BY <1>1, <2>1 DEF Threads
  <2>3. fds' = fds BY <2>2 DEF erase_file, destroy
  <2>4. Tabled' BY <1>3, <2>1, <2>2, <2>3, StorageAssumption DEF Tabled, FileState
  <2>5. NotLost' /\ Own' BY <1>3, <1>6, <2>1, <2>3 DEF NotLost, Own
  <2>6. Threads' BY SMT, <1>3, <1>4, <2>1, <2>3 DEF Threads, Idle
  <2>. QED BY <2>4, <2>5, <2>6
<1>. QED BY <1>3, <1>5, <1>7 DEF Owned

\* Every step keeps the ownership of descriptors.
LEMMA OwnedKept == TypeOK /\ Owned /\ [Next]_vars => Owned'
<1>. SUFFICES ASSUME TypeOK, Owned, [Next]_vars PROVE Owned' OBVIOUS
<1>1. ASSUME NEW t \in Thread, NEW p \in Path,
             \/ vsfs_create(t, p) \/ vsfs_symlink(t, p) \/ vsfs_mknod(t, p)
             \/ vsfs_open(t, p) \/ vsfs_getattr(t, p) \/ vsfs_readlink(t, p)
             \/ vsfs_unlink(t, p) \/ vsfs_mkdir(t, p) \/ vsfs_rmdir(t, p)
             \/ api_create(t, p) \/ api_unlink(t, p) \/ api_directory(t, p)
      PROVE  Owned'
  <2>1. UNCHANGED <<handle, table, fds, reported, mutex>>
    BY <1>1 DEF vsfs_create, vsfs_symlink, vsfs_mknod, vsfs_open, vsfs_getattr, vsfs_readlink,
                vsfs_unlink, vsfs_mkdir, vsfs_rmdir, api_create, api_unlink, api_directory,
                storageVars, history
  <2>2. PICK c : /\ call' = [call EXCEPT ![t] = c] \/ call' = call
                 /\ call[t] = Idle /\ c.at \notin {"opened", "dup", "closed"}
    <3>1. \/ call[t] = Idle /\ call' = call
          \/ \E op, oid : Storage(t, op, p, oid)
      <4>1. CASE vsfs_create(t, p) \/ vsfs_symlink(t, p) \/ api_create(t, p)
        BY <4>1 DEF vsfs_create, vsfs_symlink, api_create
      <4>2. CASE vsfs_open(t, p) \/ vsfs_getattr(t, p) \/ vsfs_readlink(t, p)
        BY <4>2 DEF vsfs_open, vsfs_getattr, vsfs_readlink
      <4>3. CASE vsfs_unlink(t, p) \/ api_unlink(t, p)
        BY <4>3 DEF vsfs_unlink, api_unlink
      <4>4. CASE vsfs_mkdir(t, p) \/ vsfs_rmdir(t, p)
        BY <4>4 DEF vsfs_mkdir, vsfs_rmdir
      <4>5. CASE vsfs_mknod(t, p) \/ api_directory(t, p)
        BY <4>5 DEF vsfs_mknod, api_directory
      <4>. QED BY <1>1, <4>1, <4>2, <4>3, <4>4, <4>5
    <3>2. CASE call[t] = Idle /\ call' = call BY SMT, <3>2 DEF Idle
    <3>3. CASE \E op, oid : Storage(t, op, p, oid)
      <4>1. PICK op, oid : Storage(t, op, p, oid) BY <3>3
      <4>2. [at |-> "storage", op |-> op, path |-> p, oid |-> oid].at = "storage" OBVIOUS
      <4>. QED BY <4>1, <4>2 DEF Storage, Begins
    <3>. QED BY <3>1, <3>2, <3>3
  <2>3. call[t].at \notin {"opened", "dup", "closed"} BY SMT, <2>2 DEF Idle
  <2>. QED BY <2>1, <2>2, <2>3, OwnedFramed
<1>2. ASSUME NEW t \in Thread,
             \/ storage_symlink(t) \/ storage_api_create(t) \/ storage_unlink(t)
             \/ storage_mkdir(t) \/ storage_rmdir(t) \/ storage_look(t) \/ storage_fails(t)
             \/ use_file(t)
      PROVE  Owned'
  <2>1. UNCHANGED <<handle, table, fds, reported, mutex>> /\ call' = [call EXCEPT ![t] = Idle]
    BY <1>2 DEF storage_symlink, storage_api_create, storage_unlink, storage_mkdir, storage_rmdir,
                storage_look, storage_fails, use_file, Returns, storageVars, history
  <2>2. call[t].at \notin {"opened", "dup", "closed"}
    BY <1>2 DEF storage_symlink, storage_api_create, storage_unlink, storage_mkdir, storage_rmdir,
                storage_look, storage_fails, use_file, AtStorage
  <2>3. Idle.at \notin {"opened", "dup", "closed"} BY DEF Idle
  <2>. QED BY <2>1, <2>2, <2>3, OwnedFramed
<1>3. ASSUME NEW t \in Thread, NEW fd \in Fd, Using(t, fd) PROVE Owned'
  <2>. DEFINE c == [at |-> "using", fd |-> fd]
  <2>1. /\ UNCHANGED <<handle, table, fds, reported, mutex>>
        /\ call[t] = Idle /\ call' = [call EXCEPT ![t] = c]
    BY <1>3 DEF Using, Begins, storageVars, history
  <2>2. c.at \notin {"opened", "dup", "closed"} OBVIOUS
  <2>3. call[t].at \notin {"opened", "dup", "closed"} BY SMT, <2>1 DEF Idle
  <2>. HIDE DEF c
  <2>. QED BY <2>1, <2>2, <2>3, OwnedFramed
<1>4. CASE Remount
  <2>1. \A t \in Thread : call'[t].at \notin {"opened", "dup", "closed"}
    BY <1>4 DEF Remount, AtStorage, Idle
  <2>2. \A fd \in Fd : fds'[fd] = None /\ table'[fd] = None /\ handle'[fd] = None
    BY <1>4 DEF Remount
  <2>3. Locked' BY <2>1 DEF Locked
  <2>4. Tabled' BY <2>2, StorageAssumption DEF Tabled, FileState
  <2>5. NotLost' BY <2>2 DEF NotLost
  <2>6. Own' BY <2>1 DEF Own, Owns
  <2>7. Threads' BY <2>1 DEF Threads
  <2>. QED BY <2>3, <2>4, <2>5, <2>6, <2>7 DEF Owned
<1>5. CASE UNCHANGED vars
  BY SMT, <1>5 DEF vars, Owned, Locked, Tabled, NotLost, Own, Owns, Threads
<1>. QED
  BY <1>1, <1>2, <1>3, <1>4, <1>5, OpenOwned, AddOwned, FlushOwned, CloseCopyOwned, CloseOwned,
     EraseOwned
  DEF Next, vsfs_read, vsfs_write, vsfs_write_buf, vsfs_fgetattr, vsfs_ioctl, vsfs_flock,
      vsfs_lock, vsfs_fsync

\* It holds of a mount that starts.
LEMMA InitTyped == Init => TypeOK /\ Owned
<1>. SUFFICES ASSUME Init PROVE TypeOK /\ Owned OBVIOUS
<1>1. manager \in {"object", "posix"} BY DEF Init, mounts, storage
<1>2. TypeOK
  <2>1. StorageTypeOK BY <1>1 DEF Init, StorageTypeOK
  <2>2. nextOid \in 1 .. MaxOid + 1 BY SMT, StorageAssumption DEF Init
  <2>. QED BY <2>1, <2>2 DEF Init, TypeOK
<1>3. \A t \in Thread : call[t].at \notin {"opened", "dup", "closed"} BY DEF Init, Idle
<1>4. \A fd \in Fd : fds[fd] = None /\ table[fd] = None /\ handle[fd] = None BY DEF Init
<1>5. Locked BY <1>3 DEF Locked
<1>6. Tabled BY <1>4, StorageAssumption DEF Tabled, FileState
<1>7. NotLost BY <1>4 DEF NotLost
<1>8. Own BY <1>3 DEF Own, Owns
<1>9. Threads BY <1>3 DEF Threads
<1>. QED BY <1>2, <1>5, <1>6, <1>7, <1>8, <1>9 DEF Owned

\* The variables of a mount keep their types.
THEOREM MountTypeOK == Spec => []TypeOK
<1>1. Init => TypeOK BY InitTyped
<1>2. TypeOK /\ [Next]_vars => TypeOK' BY Typed
<1>. QED BY <1>1, <1>2, PTL DEF Spec

\* For any number of threads and descriptors, and for opens, flushes, releases
\* and deaths of the mount in any order, no request closes a descriptor that is
\* not its own, and none is lost, until a close(2) reports an error.
THEOREM MountDescriptorsOwned == Spec => []DescriptorsOwned
<1>1. Init => TypeOK /\ Owned BY InitTyped
<1>2. TypeOK /\ Owned /\ [Next]_vars => (TypeOK /\ Owned)' BY Typed, OwnedKept
<1>3. Owned => DescriptorsOwned BY DEF Owned, Tabled, NotLost, Owns, DescriptorsOwned
<1>. QED BY <1>1, <1>2, <1>3, PTL DEF Spec

(***************************************************************************)
(* Records and objects.  An id is handed out once, belongs to one record   *)
(* at most, and once a call is to unlink its object to none.               *)
(***************************************************************************)

Unlinks == {"unlink", "api_unlink"}
CallIds(c) ==
    /\ c.at \in {"storage", "opened"} /\ c.oid \in Oid => c.oid < nextOid
    /\ c.at = "storage" /\ c.op \in Unlinks => \A p \in Path : record[p] # c.oid
Ids ==
    /\ \A o \in made : o < nextOid
    /\ \A p \in Path : record[p] \in Oid => record[p] < nextOid
    /\ \A p, q \in Path : record[p] \in Oid /\ record[p] = record[q] => p = q
    /\ \A t \in Thread : CallIds(call[t])

\* With the object storage manager: what is under an id is that object, and what
\* has been made and has a record is there.
Objects == manager = "object" =>
    /\ \A o \in Oid : files[o] \in {o, None}
    /\ \A p \in Path : record[p] \in made => files[record[p]] # None
    /\ \A t \in Thread : call[t].at = "opened" =>
         /\ call[t].file = call[t].oid
         /\ call[t].op = "create" =>
              \A p \in Path : record[p] = call[t].oid => files[call[t].oid] # None
    /\ \A fd \in Fd : handle[fd] # None => handle[fd].file = handle[fd].oid
Inv == TypeOK /\ Ids /\ Objects

\* The calls that carry an object id.
LEMMA CallOids ==
    ASSUME TypeOK, NEW u \in Thread
    PROVE  /\ call[u].at = "opened" => call[u].oid \in Oid
           /\ call[u].at = "storage" /\ call[u].op \in Unlinks => call[u].oid \in Oid
<1>. DEFINE c == call[u]
<1>1. c \in Call \cup {Idle} BY DEF TypeOK
<1>. HIDE DEF c
<1>2. CASE c = Idle BY SMT, <1>2 DEF Idle, c
<1>3. CASE c \in Call /\ c.at = "opened" BY <1>3 DEF Call, c
<1>4. CASE c \in Call /\ c.at = "storage" BY <1>4 DEF Call, Unlinks, c
<1>. QED BY <1>1, <1>2, <1>3, <1>4 DEF c

\* The masters hand out an id.
LEMMA CreateKept ==
    ASSUME Inv, NEW t \in Thread, NEW p \in Path,
           vsfs_create(t, p) \/ vsfs_symlink(t, p) \/ vsfs_mknod(t, p) \/ api_create(t, p)
    PROVE  Ids' /\ Objects'
<1>1. client_create(p) /\ UNCHANGED <<manager, files, handle, made>>
  BY DEF vsfs_create, vsfs_symlink, vsfs_mknod, api_create, storageVars, history
<1>2. nextOid \in Oid /\ nextOid' = nextOid + 1 /\ nextOid \in Int
  BY SMT, <1>1, OidTyped DEF client_create, Inv, TypeOK
<1>3. record'[p] = nextOid /\ record[p] = None /\ \A q \in Path \ {p} : record'[q] = record[q]
  BY <1>1 DEF client_create, Inv, TypeOK
<1>4. /\ \A u \in Thread \ {t} : call'[u] = call[u]
      /\ \/ call'[t] = call[t]
         \/ /\ call'[t].at = "storage" /\ call'[t].oid = nextOid
            /\ call'[t].op \notin Unlinks
  BY SMT DEF vsfs_create, vsfs_symlink, vsfs_mknod, api_create, Storage, Begins, Unlinks, Inv, TypeOK
<1>5. /\ \A o \in Oid : o < nextOid => o < nextOid'
      /\ nextOid < nextOid'
  BY SMT, <1>2 DEF Oid
<1>6. Ids'
  <2>1. (\A o \in made : o < nextOid)' BY <1>1, <1>2, <1>5 DEF Inv, Ids, TypeOK
  <2>2. (\A q \in Path : record[q] \in Oid => record[q] < nextOid)'
    BY <1>3, <1>5 DEF Inv, Ids
  <2>3. \A q \in Path \ {p} : record[q] # nextOid BY SMT, <1>2 DEF Inv, Ids
  <2>4. (\A q, r \in Path : record[q] \in Oid /\ record[q] = record[r] => q = r)'
    <3>1. SUFFICES ASSUME NEW q \in Path, NEW r \in Path, record'[q] \in Oid, record'[q] = record'[r]
                   PROVE  q = r
      OBVIOUS
    <3>2. CASE q = p \/ r = p BY <1>3, <2>3, <3>1, <3>2
    <3>3. CASE q # p /\ r # p BY <1>3, <3>1, <3>3 DEF Inv, Ids
    <3>. QED BY <3>2, <3>3
  <2>5. ASSUME NEW u \in Thread, call'[u] = call[u] PROVE CallIds(call[u])'
    <3>1. CallIds(call[u]) BY DEF Inv, Ids
    <3>2. call[u].at = "storage" /\ call[u].op \in Unlinks => call[u].oid \in Oid
      BY CallOids DEF Inv
    <3>3. call[u].at \in {"storage", "opened"} /\ call[u].oid \in Oid => call[u].oid < nextOid'
      BY <1>5, <3>1 DEF CallIds
    <3>4. call[u].at = "storage" /\ call[u].op \in Unlinks => \A q \in Path : record'[q] # call[u].oid
      <4>1. ASSUME call[u].at = "storage", call[u].op \in Unlinks PROVE call[u].oid # nextOid
        BY SMT, <1>2, <3>1, <3>2, <4>1 DEF CallIds
      <4>. QED BY <1>3, <3>1, <4>1 DEF CallIds
    <3>. QED BY <2>5, <3>3, <3>4 DEF CallIds
  <2>6. CASE call'[t] # call[t]
    <3>1. CallIds(call[t])' BY <1>4, <1>5, <2>6 DEF CallIds
    <3>. QED BY <1>4, <2>1, <2>2, <2>4, <2>5, <3>1 DEF Ids
  <2>. QED BY <1>4, <2>1, <2>2, <2>4, <2>5, <2>6 DEF Ids
<1>7. ASSUME manager = "object" PROVE Objects'
  <2>1. nextOid \notin made BY SMT, <1>2 DEF Inv, Ids
  <2>2. (\A q \in Path : record[q] \in made => files[record[q]] # None)'
    BY <1>1, <1>3, <1>7, <2>1 DEF Inv, Objects
  <2>3. \A u \in Thread : call'[u].at = "opened" => call'[u] = call[u]
    BY <1>4
  <2>4. \A u \in Thread : call[u].at = "opened" => call[u].oid # nextOid
    BY SMT, <1>2 DEF Inv, Ids, CallIds, TypeOK
  <2>5. (\A u \in Thread : call[u].at = "opened" =>
            /\ call[u].file = call[u].oid
            /\ call[u].op = "create" =>
                 \A q \in Path : record[q] = call[u].oid => files[call[u].oid] # None)'
    BY SMT, <1>1, <1>3, <1>7, <2>3, <2>4 DEF Inv, Objects
  <2>. QED BY <1>1, <1>7, <2>2, <2>5 DEF Inv, Objects
<1>. QED BY <1>1, <1>6, <1>7 DEF Objects

\* A call begins that is to open or to look at what the masters have.
LEMMA LookupKept ==
    ASSUME Inv, NEW t \in Thread, NEW p \in Path,
           vsfs_open(t, p) \/ vsfs_getattr(t, p) \/ vsfs_readlink(t, p)
    PROVE  Ids' /\ Objects'
<1>1. /\ UNCHANGED <<manager, files, handle, made, record, nextOid>>
      /\ \A u \in Thread \ {t} : call'[u] = call[u]
      /\ call'[t].at = "storage" /\ call'[t].op \notin Unlinks /\ call'[t].oid = record[p]
  BY SMT DEF vsfs_open, vsfs_getattr, vsfs_readlink, client_open, client_getattr, client_object_id,
         Storage, Begins, Unlinks, storageVars, nsVars, history, Inv, TypeOK
<1>2. CallIds(call[t])' BY <1>1 DEF CallIds, Inv, Ids
<1>3. \A u \in Thread \ {t} : CallIds(call[u])' BY <1>1 DEF CallIds, Inv, Ids
<1>4. Ids' BY <1>1, <1>2, <1>3 DEF Inv, Ids
<1>5. Objects' BY <1>1 DEF Inv, Objects
<1>. QED BY <1>4, <1>5

\* A record is removed before its object is.
LEMMA UnlinkKept ==
    ASSUME Inv, NEW t \in Thread, NEW p \in Path, vsfs_unlink(t, p) \/ api_unlink(t, p)
    PROVE  Ids' /\ Objects'
<1>1. /\ UNCHANGED <<manager, files, handle, made, nextOid>>
      /\ \A u \in Thread \ {t} : call'[u] = call[u]
      /\ call'[t].at = "storage" /\ call'[t].oid = record[p] /\ record[p] \in Oid
      /\ record'[p] = None /\ \A q \in Path \ {p} : record'[q] = record[q]
  BY SMT DEF vsfs_unlink, api_unlink, client_unlink, Storage, Begins, storageVars, history, Inv, TypeOK
<1>2. None \notin Oid BY OidTyped
<1>3. CallIds(call[t])' BY <1>1, <1>2 DEF CallIds, Inv, Ids
<1>4. ASSUME NEW u \in Thread \ {t} PROVE CallIds(call[u])'
  <2>1. CallIds(call[u]) /\ call'[u] = call[u] BY <1>1 DEF Inv, Ids
  <2>2. call[u].at = "storage" /\ call[u].op \in Unlinks => call[u].oid \in Oid
    BY CallOids DEF Inv
  <2>. QED BY <1>1, <1>2, <2>1, <2>2 DEF CallIds
<1>5. Ids' BY <1>1, <1>2, <1>3, <1>4 DEF Inv, Ids
<1>6. Objects'
  <2>1. \A u \in Thread : call[u].at = "opened" => call[u].oid \in Oid
    BY CallOids DEF Inv
  <2>2. None \notin made BY <1>2 DEF Inv, TypeOK
  <2>3. \A u \in Thread : call'[u].at = "opened" => call'[u] = call[u] BY <1>1
  <2>4. \A q \in Path : record'[q] \in Oid => record'[q] = record[q] BY <1>1, <1>2
  <2>5. made \subseteq Oid BY DEF Inv, TypeOK
  <2>6. (\A q \in Path : record[q] \in made => files[record[q]] # None)'
        \/ manager # "object"
    BY <1>1, <2>4, <2>5 DEF Inv, Objects
  <2>7. (\A u \in Thread : call[u].at = "opened" =>
            /\ call[u].file = call[u].oid
            /\ call[u].op = "create" =>
                 \A q \in Path : record[q] = call[u].oid => files[call[u].oid] # None)'
        \/ manager # "object"
    BY SMT, <1>1, <2>1, <2>3, <2>4 DEF Inv, Objects
  <2>. QED BY <1>1, <2>6, <2>7 DEF Inv, Objects
<1>. QED BY <1>5, <1>6

\* mkdir and rmdir change no object.
LEMMA DirectoryKept ==
    ASSUME Inv, NEW t \in Thread, NEW p \in Path,
           vsfs_mkdir(t, p) \/ vsfs_rmdir(t, p) \/ api_directory(t, p)
    PROVE  Ids' /\ Objects'
<1>1. /\ UNCHANGED <<manager, files, handle, made, nextOid>>
      /\ \A u \in Thread \ {t} : call'[u] = call[u]
      /\ \/ call'[t] = call[t]
         \/ call'[t].at = "storage" /\ call'[t].op \notin Unlinks /\ call'[t].oid = Dir
      /\ record'[p] \in {Dir, None} /\ \A q \in Path \ {p} : record'[q] = record[q]
  BY SMT DEF vsfs_mkdir, vsfs_rmdir, api_directory, client_mkdir, client_rmdir, Storage, Begins,
         Unlinks, storageVars, history, Inv, TypeOK
<1>2. None \notin Oid /\ Dir \notin Oid BY OidTyped
<1>3. ASSUME NEW u \in Thread, call'[u] = call[u] PROVE CallIds(call[u])'
  <2>1. CallIds(call[u]) BY DEF Inv, Ids
  <2>2. call[u].at = "storage" /\ call[u].op \in Unlinks => call[u].oid \in Oid
    BY CallOids DEF Inv
  <2>. QED BY <1>1, <1>2, <1>3, <2>1, <2>2 DEF CallIds
<1>4. CallIds(call[t])'
  <2>1. CASE call'[t] = call[t] BY <1>3, <2>1
  <2>2. CASE call'[t] # call[t] BY <1>1, <1>2, <2>2 DEF CallIds
  <2>. QED BY <2>1, <2>2
<1>5. \A u \in Thread : CallIds(call[u])' BY <1>1, <1>3, <1>4
<1>6. Ids'
  <2>1. \A q \in Path : record'[q] \in Oid => record'[q] = record[q] BY <1>1, <1>2
  <2>. QED BY <1>1, <1>5, <2>1 DEF Inv, Ids
<1>7. Objects'
  <2>1. \A u \in Thread : call[u].at = "opened" => call[u].oid \in Oid
    BY CallOids DEF Inv
  <2>2. None \notin made /\ Dir \notin made BY <1>2 DEF Inv, TypeOK
  <2>3. \A u \in Thread : call'[u].at = "opened" => call'[u] = call[u] BY <1>1
  <2>4. \A q \in Path : record'[q] \in Oid => record'[q] = record[q] BY <1>1, <1>2
  <2>5. made \subseteq Oid BY DEF Inv, TypeOK
  <2>6. (\A q \in Path : record[q] \in made => files[record[q]] # None)'
        \/ manager # "object"
    BY <1>1, <2>4, <2>5 DEF Inv, Objects
  <2>7. (\A u \in Thread : call[u].at = "opened" =>
            /\ call[u].file = call[u].oid
            /\ call[u].op = "create" =>
                 \A q \in Path : record[q] = call[u].oid => files[call[u].oid] # None)'
        \/ manager # "object"
    BY SMT, <1>1, <2>1, <2>3, <2>4 DEF Inv, Objects
  <2>. QED BY <1>1, <2>6, <2>7 DEF Inv, Objects
<1>. QED BY <1>6, <1>7

\* The other steps leave the records alone, and make only objects whose id some
\* call has been given.
Later ==
    /\ UNCHANGED <<manager, record, nextOid>>
    /\ \A t \in Thread :
         \/ call'[t] = call[t] \/ call'[t].at \notin {"storage", "opened"}
         \/ call'[t].at = "opened" /\ call[t].at = "storage" /\ call'[t].oid = call[t].oid
    /\ \A o \in made' \ made : \E t \in Thread :
         call[t].at \in {"storage", "opened"} /\ call[t].oid = o
\* Every id in use stays below the next one the masters hand out.
LEMMA LaterIds == ASSUME Inv, TypeOK', Later PROVE Ids'
<1>1. ASSUME NEW t \in Thread PROVE CallIds(call[t])'
  <2>1. CallIds(call[t]) BY DEF Inv, Ids
  <2>. QED BY <2>1 DEF CallIds, Later
<1>2. \A o \in made' : o < nextOid
  <2>1. made' \subseteq Oid BY DEF TypeOK
  <2>. QED BY SMT, <2>1 DEF Later, Inv, Ids, CallIds
<1>. QED BY <1>1, <1>2 DEF Inv, Ids, Later

\* An open gets the object that was looked up.
LEMMA OpenKept ==
    ASSUME Inv, NEW t \in Thread, NEW fd \in Fd, storage_create(t, fd) \/ storage_open(t, fd)
    PROVE  Later /\ Objects'
<1>. DEFINE oid == call[t].oid
<1>0. call[t] \in Call \cup {Idle} BY DEF Inv, TypeOK
<1>1. call[t] \in Call /\ call[t].at = "storage" /\ call[t].op \in {"create", "open"}
  <2>1. call[t].at = "storage" /\ call[t].op \in {"create", "open"}
    BY DEF storage_create, storage_open, AtStorage
  <2>2. call[t] # Idle BY SMT, <2>1 DEF Idle
  <2>. QED BY <1>0, <2>1, <2>2
<1>2. oid \in Oid /\ oid \in Path \cup Oid BY <1>1 DEF Call
<1>3. /\ UNCHANGED <<manager, record, nextOid, made, handle>>
      /\ \A u \in Thread \ {t} : call'[u] = call[u]
      /\ call'[t].at = "opened" /\ call'[t].oid = oid /\ call'[t].op = call[t].op
      /\ call'[t].file = fds'[fd]
  BY SMT DEF storage_create, storage_open, Opened, nsVars, history, Inv, TypeOK
<1>4. Later BY <1>1, <1>3 DEF Later
<1>5. ASSUME manager = "object"
      PROVE  /\ files'[oid] = oid /\ fds'[fd] = oid
             /\ \A o \in Oid \ {oid} : files'[o] = files[o]
  <2>1. files \in [Path \cup Oid -> Oid \cup {Dir, None}] /\ fds \in [Fd -> Oid \cup {Dir, None}]
    BY DEF Inv, TypeOK, StorageTypeOK
  <2>2. files[oid] \in {oid, None} BY <1>2, <1>5 DEF Inv, Objects
  <2>3. CASE storage_open(t, fd)
    BY <1>2, <1>5, <2>1, <2>2, <2>3 DEF storage_open, sm_open, object_open, object_path, sys_open
  <2>4. CASE storage_create(t, fd)
    BY <1>2, <1>5, <2>1, <2>2, <2>4
    DEF storage_create, sm_create, object_create, object_path, sys_creat, sys_creat_elsewhere
  <2>. QED BY <2>3, <2>4
<1>6. oid # None BY <1>2, OidTyped
<1>7. made \subseteq Oid BY DEF Inv, TypeOK
<1>8. \A u \in Thread : call[u].at = "opened" => call[u].oid \in Oid
  BY CallOids DEF Inv
<1>9. ASSUME manager = "object" PROVE Objects'
  <2>1. (\A o \in Oid : files[o] \in {o, None})' BY <1>5, <1>9 DEF Inv, Objects
  <2>2. \A o \in Oid : files[o] # None => files'[o] # None BY <1>5, <1>6, <1>9
  <2>3. (\A p \in Path : record[p] \in made => files[record[p]] # None)'
    BY <1>3, <1>7, <1>9, <2>2 DEF Inv, Objects
  <2>4. (\A u \in Thread : call[u].at = "opened" =>
            /\ call[u].file = call[u].oid
            /\ call[u].op = "create" =>
                 \A q \in Path : record[q] = call[u].oid => files[call[u].oid] # None)'
    <3>1. call'[t].file = call'[t].oid /\ files'[call'[t].oid] # None
      BY <1>3, <1>5, <1>6, <1>9
    <3>2. ASSUME NEW u \in Thread \ {t}, call[u].at = "opened"
          PROVE  /\ call[u].file = call[u].oid
                 /\ call[u].op = "create" =>
                      \A q \in Path : record[q] = call[u].oid => files'[call[u].oid] # None
      BY <1>8, <1>9, <2>2, <3>2 DEF Inv, Objects
    <3>. QED BY <1>3, <3>1, <3>2
  <2>. QED BY <1>3, <1>9, <2>1, <2>3, <2>4 DEF Inv, Objects
<1>. QED BY <1>3, <1>4, <1>9 DEF Objects

\* An object is made, and its creation returns 0.
LEMMA MakeKept ==
    ASSUME Inv, NEW t \in Thread, storage_symlink(t) \/ storage_api_create(t)
    PROVE  Later /\ Objects'
<1>. DEFINE oid == call[t].oid
<1>1. call[t] \in Call /\ call[t].at = "storage" /\ call[t].op \in {"symlink", "api_create"}
  BY SMT DEF storage_symlink, storage_api_create, AtStorage, Inv, TypeOK, Idle
<1>2. oid \in Oid /\ oid \in Path \cup Oid BY <1>1 DEF Call
<1>3. /\ UNCHANGED <<manager, record, nextOid, handle>>
      /\ made' = made \cup {oid}
      /\ \A u \in Thread \ {t} : call'[u] = call[u]
      /\ call'[t] = Idle
  BY DEF storage_symlink, storage_api_create, Returns, nsVars, Inv, TypeOK
<1>4. Later BY SMT, <1>1, <1>3 DEF Later, Idle
<1>5. ASSUME manager = "object"
      PROVE  files'[oid] = oid /\ \A o \in Oid \ {oid} : files'[o] = files[o]
  <2>1. files \in [Path \cup Oid -> Oid \cup {Dir, None}] BY DEF Inv, TypeOK, StorageTypeOK
  <2>2. files[oid] \in {oid, None} BY <1>2, <1>5 DEF Inv, Objects
  <2>3. CASE storage_symlink(t)
    BY <1>2, <1>5, <2>1, <2>2, <2>3
    DEF storage_symlink, sm_symlink, object_symlink, object_path, sys_symlink
  <2>4. CASE storage_api_create(t)
    BY <1>2, <1>5, <2>1, <2>2, <2>4
    DEF storage_api_create, sm_create_elsewhere, object_path, sys_creat_elsewhere
  <2>. QED BY <2>3, <2>4
<1>6. oid # None BY <1>2, OidTyped
<1>7. made \subseteq Oid BY DEF Inv, TypeOK
<1>8. \A u \in Thread : call[u].at = "opened" => call[u].oid \in Oid
  BY CallOids DEF Inv
<1>9. ASSUME manager = "object" PROVE Objects'
  <2>1. (\A o \in Oid : files[o] \in {o, None})' BY <1>5, <1>9 DEF Inv, Objects
  <2>2. \A o \in Oid : files[o] # None => files'[o] # None BY <1>5, <1>6, <1>9
  <2>3. (\A p \in Path : record[p] \in made => files[record[p]] # None)'
    BY <1>3, <1>5, <1>6, <1>7, <1>9, <2>2 DEF Inv, Objects
  <2>4. (\A u \in Thread : call[u].at = "opened" =>
            /\ call[u].file = call[u].oid
            /\ call[u].op = "create" =>
                 \A q \in Path : record[q] = call[u].oid => files[call[u].oid] # None)'
    BY SMT, <1>3, <1>8, <1>9, <2>2 DEF Inv, Objects, Idle
  <2>. QED BY <1>3, <1>9, <2>1, <2>3, <2>4 DEF Inv, Objects
<1>. QED BY <1>3, <1>4, <1>9 DEF Objects

\* The object that is removed has no record.
LEMMA RemoveKept ==
    ASSUME Inv, NEW t \in Thread, storage_unlink(t)
    PROVE  Later /\ Objects'
<1>. DEFINE oid == call[t].oid
<1>1. call[t] \in Call /\ call[t].at = "storage" /\ call[t].op \in Unlinks
  BY SMT DEF storage_unlink, AtStorage, Unlinks, Inv, TypeOK, Idle
<1>2. oid \in Oid /\ oid \in Path \cup Oid BY <1>1 DEF Call, Unlinks
<1>3. /\ UNCHANGED <<manager, record, nextOid, handle, made>>
      /\ \A u \in Thread \ {t} : call'[u] = call[u]
      /\ call'[t] = Idle
  BY DEF storage_unlink, Returns, nsVars, history, Inv, TypeOK
<1>4. Later BY SMT, <1>3 DEF Later, Idle
<1>5. \A p \in Path : record[p] # oid BY <1>1 DEF Inv, Ids, CallIds
<1>6. ASSUME manager = "object"
      PROVE  files'[oid] = None /\ \A o \in Oid \ {oid} : files'[o] = files[o]
  BY <1>2, <1>6
  DEF storage_unlink, sm_unlink, object_unlink, object_path, sys_unlink, Inv, TypeOK, StorageTypeOK
<1>7. made \subseteq Oid BY DEF Inv, TypeOK
<1>8. \A u \in Thread : call[u].at = "opened" => call[u].oid \in Oid
  BY CallOids DEF Inv
<1>9. ASSUME manager = "object" PROVE Objects'
  <2>1. (\A o \in Oid : files[o] \in {o, None})' BY <1>6, <1>9 DEF Inv, Objects
  <2>2. (\A p \in Path : record[p] \in made => files[record[p]] # None)'
    BY <1>3, <1>5, <1>6, <1>7, <1>9 DEF Inv, Objects
  <2>3. (\A u \in Thread : call[u].at = "opened" =>
            /\ call[u].file = call[u].oid
            /\ call[u].op = "create" =>
                 \A q \in Path : record[q] = call[u].oid => files[call[u].oid] # None)'
    BY SMT, <1>3, <1>5, <1>6, <1>8, <1>9 DEF Inv, Objects, Idle
  <2>. QED BY <1>3, <1>9, <2>1, <2>2, <2>3 DEF Inv, Objects
<1>. QED BY <1>3, <1>4, <1>9 DEF Objects

\* So does the handle made of it.
LEMMA AddKept == ASSUME Inv, NEW t \in Thread, add_file(t) PROVE Later /\ Objects'
<1>. DEFINE c == call[t]
<1>1. c \in Call /\ c.at = "opened" BY SMT DEF add_file, Inv, TypeOK, Idle
<1>2. c.oid \in Oid /\ c.fd \in Fd /\ c.file \in Oid \cup {Dir} BY <1>1 DEF Call
<1>3. /\ UNCHANGED <<manager, files, record, nextOid>>
      /\ made' = IF c.op = "create" THEN made \cup {c.oid} ELSE made
      /\ \A u \in Thread \ {t} : call'[u] = call[u]
      /\ call'[t] = Idle
      /\ handle'[c.fd].file = c.file /\ handle'[c.fd].oid = c.oid
      /\ \A f \in Fd \ {c.fd} : handle'[f] = handle[f]
  BY <1>2 DEF add_file, Returns, nsVars, Inv, TypeOK
<1>4. Later
  <2>1. \A u \in Thread : call'[u] = call[u] \/ call'[u].at = "idle" BY SMT, <1>3 DEF Idle
  <2>2. \A o \in made' \ made : call[t].at = "opened" /\ call[t].oid = o BY <1>1, <1>3
  <2>. QED BY <1>3, <2>1, <2>2 DEF Later
<1>5. ASSUME manager = "object" PROVE Objects'
  <2>1. (\A p \in Path : record[p] \in made => files[record[p]] # None)'
    BY <1>1, <1>3, <1>5 DEF Inv, Objects
  <2>2. (\A fd \in Fd : handle[fd] # None => handle[fd].file = handle[fd].oid)'
    BY <1>1, <1>3, <1>5 DEF Inv, Objects
  <2>3. \A u \in Thread : call'[u].at = "opened" => call'[u] = call[u] BY SMT, <1>3 DEF Idle
  <2>. QED BY SMT, <1>3, <1>5, <2>1, <2>2, <2>3 DEF Inv, Objects
<1>. QED BY <1>3, <1>4, <1>5 DEF Objects

\* Steps that make and remove no object and open none.
LEMMA RestKept ==
    ASSUME Inv, UNCHANGED <<manager, record, nextOid, made>>,
           manager = "object" => files' = files,
           \A t \in Thread : call'[t] = call[t] \/ call'[t].at \notin {"storage", "opened"},
           \A fd \in Fd : handle'[fd] \in {handle[fd], None}
    PROVE  Later /\ Objects'
<1>1. Later BY DEF Later
<1>2. \A t \in Thread : call'[t].at = "opened" => call'[t] = call[t] OBVIOUS
<1>3. Objects' BY <1>2 DEF Inv, Objects
<1>. QED BY <1>1, <1>3

\* Every step keeps the invariant.
LEMMA InvKept == Inv /\ [Next]_vars => Inv'
<1>. SUFFICES ASSUME Inv, [Next]_vars PROVE Inv' OBVIOUS
<1>1. TypeOK' BY Typed DEF Inv
<1>2. ASSUME NEW t \in Thread,
             \/ storage_mkdir(t) \/ storage_rmdir(t) \/ storage_look(t) \/ storage_fails(t)
             \/ use_file(t) \/ close_copy(t) \/ erase_file(t)
      PROVE  Later /\ Objects'
  <2>1. /\ UNCHANGED <<manager, record, nextOid, made, handle>>
        /\ manager = "object" => files' = files
    BY <1>2 DEF storage_mkdir, storage_rmdir, storage_look, storage_fails, use_file, close_copy,
                erase_file, sm_mkdir, sm_rmdir, object_mkdir, object_rmdir, storageVars, nsVars,
                history
  <2>2. call' = [call EXCEPT ![t] = Idle]
    BY <1>2 DEF storage_mkdir, storage_rmdir, storage_look, storage_fails, use_file, close_copy,
                erase_file, Returns
  <2>3. \A u \in Thread : call'[u] = call[u] \/ call'[u].at \notin {"storage", "opened"}
    BY <2>2 DEF Idle, Inv, TypeOK
  <2>. QED BY <2>1, <2>3, RestKept
<1>3. ASSUME NEW t \in Thread, NEW fd \in Fd, Using(t, fd) PROVE Later /\ Objects'
  <2>1. \A u \in Thread : call'[u] = call[u] \/ call'[u].at \notin {"storage", "opened"}
    BY <1>3 DEF Using, Begins, Inv, TypeOK
  <2>. QED BY <1>3, <2>1, RestKept DEF Using, storageVars, nsVars, history
<1>4. ASSUME NEW t \in Thread, NEW fd \in Fd, NEW copy \in Fd, vsfs_flush(t, fd, copy)
      PROVE  Later /\ Objects'
  <2>1. \A u \in Thread : call'[u] = call[u] \/ call'[u].at \notin {"storage", "opened"}
    BY <1>4 DEF vsfs_flush, Begins, Inv, TypeOK
  <2>. QED BY <1>4, <2>1, RestKept DEF vsfs_flush, nsVars, history
<1>5. ASSUME NEW t \in Thread, NEW fd \in Fd, close_file(t, fd) PROVE Later /\ Objects'
  <2>1. \A u \in Thread : call'[u] = call[u] \/ call'[u].at \notin {"storage", "opened"}
    BY <1>5 DEF close_file, Begins, Inv, TypeOK
  <2>2. \A f \in Fd : handle'[f] \in {handle[f], None}
    BY <1>5 DEF close_file, Inv, TypeOK
  <2>. QED BY <1>5, <2>1, <2>2, RestKept DEF close_file, nsVars
<1>6. ASSUME Remount PROVE Later /\ Objects'
  <2>1. \A u \in Thread : call'[u] = call[u] \/ call'[u].at \notin {"storage", "opened"}
    BY <1>6 DEF Remount, Idle
  <2>. QED BY <1>6, <2>1, RestKept DEF Remount, nsVars
<1>7. ASSUME UNCHANGED vars PROVE Later /\ Objects'
  BY <1>7, RestKept DEF vars
<1>8. ASSUME Later, Objects' PROVE Inv' BY <1>1, <1>8, LaterIds DEF Inv
<1>9. ASSUME Ids', Objects' PROVE Inv' BY <1>1, <1>9 DEF Inv
<1>. QED
  BY <1>2, <1>3, <1>4, <1>5, <1>6, <1>7, <1>8, <1>9, CreateKept, LookupKept, UnlinkKept,
     DirectoryKept, OpenKept, MakeKept, RemoveKept, AddKept
  DEF Next, vsfs_read, vsfs_write, vsfs_write_buf, vsfs_fgetattr, vsfs_ioctl, vsfs_flock,
      vsfs_lock, vsfs_fsync

\* The invariant holds of a mount that starts.
LEMMA InitInv == Init => Inv
<1>. SUFFICES ASSUME Init PROVE Inv OBVIOUS
<1>1. TypeOK BY InitTyped
<1>2. /\ \A p \in Path : record[p] = None
      /\ \A t \in Thread : call[t].at \notin {"storage", "opened"}
      /\ \A n \in Path \cup Oid : files[n] = None
      /\ \A fd \in Fd : handle[fd] = None
      /\ made = {}
  BY DEF Init, Idle
<1>3. Ids BY <1>2, OidTyped DEF Ids, CallIds
<1>4. Objects BY <1>2 DEF Objects
<1>. QED BY <1>1, <1>3, <1>4 DEF Inv

\* With the object storage manager no order of creates, unlinks, failures and
\* deaths takes away a file that has its record and whose creation returned 0.
THEOREM MountCreatedIsStored == Spec => []CreatedIsStored
<1>1. Inv => CreatedIsStored BY DEF Inv, Objects, CreatedIsStored, object_path
<1>. QED BY <1>1, InitInv, InvKept, PTL DEF Spec

\* With the object storage manager every handle is open on the file that its
\* path was looked up as.
THEOREM MountOpensWhatWasLookedUp == Spec => []OpensWhatWasLookedUp
<1>1. Inv => OpensWhatWasLookedUp BY DEF Inv, Objects, OpensWhatWasLookedUp
<1>. QED BY <1>1, InitInv, InvKept, PTL DEF Spec
=============================================================================
