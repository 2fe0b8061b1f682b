-------------------------------- MODULE Mount --------------------------------
(***************************************************************************)
(* A FUSE mount (src/vsfs/fuse/vsfs_ops.cpp): threads that serve the       *)
(* kernel's requests, each request a call to the masters, a call to the    *)
(* storage manager, and the table of open files.  The calls to the masters *)
(* are single steps here; Client.tla takes them apart.  The kernel opens    *)
(* and unlinks only what it knows not to be a directory, and makes         *)
(* requests for a handle only while it holds it.                           *)
(*                                                                         *)
(* A thread may also be one of an application that uses the C++ library    *)
(* (src/vsfs/api/cpp/vsfs.cpp) beside the mount, on the same masters, with *)
(* a storage manager like the mount's.                                     *)
(***************************************************************************)
EXTENDS Storage

CONSTANTS Thread        \* of the mount, and of applications

Handle == [oid : Oid, file : Oid \cup {Dir}]

ASSUME MountAssumption == None \notin Thread \cup Handle

VARIABLES
    record,         \* the masters' records: the object id of each path, or Dir
    nextOid,        \* the next object id the masters hand out
    handle,         \* file handles the kernel holds, with the id they were
                    \*   looked up under and the file that was opened
    call,           \* what each thread is doing: see Call
    mutex,          \* obj_map_mutex_: the thread in close_file(), or None
    made,           \* history: object ids whose creation returned 0
    reported        \* history: some close(2) has reported an error

vars == <<manager, files, links, fds, table, record, nextOid, handle, call,
          mutex, made, reported>>

Idle == [at |-> "idle"]
Call ==
    [at : {"storage"}, op : {"create", "symlink", "open", "unlink", "getattr", "readlink",
                             "api_create", "api_unlink"}, path : Path, oid : Oid]
    \cup [at : {"storage"}, op : {"mkdir", "rmdir"}, path : Path, oid : {Dir}]
    \cup [at : {"opened"}, op : {"create", "open"}, oid : Oid, fd : Fd,
          file : Oid \cup {Dir}]
    \cup [at : {"using", "closed"}, fd : Fd]
    \cup [at : {"dup"}, fd : Fd, copy : Fd]

TypeOK ==
    /\ StorageTypeOK
    /\ record \in [Path -> Oid \cup {Dir, None}]
    /\ nextOid \in 1 .. MaxOid + 1
    /\ handle \in [Fd -> Handle \cup {None}]
    /\ call \in [Thread -> Call \cup {Idle}]
    /\ mutex \in Thread \cup {None}
    /\ made \in SUBSET Oid
    /\ reported \in BOOLEAN

\* The options of vsfs.mount that decide how it stores files; "" was not given.
Options == [basedir : {"", "dir"}, storage : {"", "posix", "object", "other"}]
storage(o) == IF o.storage = "" THEN "posix" ELSE o.storage
mounts(o) == o.basedir # "" /\ storage(o) \in {"posix", "object"}

Init ==
    /\ \E o \in Options : mounts(o) /\ manager = storage(o)
    /\ files = [n \in Path \cup Oid |-> None]
    /\ fds = [fd \in Fd |-> None] /\ table = [fd \in Fd |-> None]
    /\ record = [p \in Path |-> None]
    /\ links = {} /\ nextOid = 1
    /\ handle = [fd \in Fd |-> None]
    /\ call = [t \in Thread |-> Idle]
    /\ mutex = None
    /\ made = {} /\ reported = FALSE

storageVars == <<manager, files, links, fds, table>>
nsVars == <<record, nextOid>>
history == <<made, reported>>
Begins(t, c) == call[t] = Idle /\ call' = [call EXCEPT ![t] = c]
Returns(t) == call' = [call EXCEPT ![t] = Idle]
AtStorage(t, op) == call[t].at = "storage" /\ call[t].op = op

-----------------------------------------------------------------------------
(* The calls to the masters.  A refused one changes nothing.               *)

client_create(p) ==
    /\ record[p] = None /\ nextOid <= MaxOid
    /\ record' = [record EXCEPT ![p] = nextOid]
    /\ nextOid' = nextOid + 1
client_open(p, oid) == record[p] # None /\ oid = record[p]
client_getattr(p, oid) == record[p] # None /\ oid = record[p]
client_object_id(p, oid) == record[p] # None /\ oid = record[p]
client_mkdir(p) == record[p] = None /\ record' = [record EXCEPT ![p] = Dir]
client_rmdir(p) == record[p] = Dir /\ record' = [record EXCEPT ![p] = None]
client_unlink(p, oid) ==
    /\ record[p] \in Oid /\ oid = record[p]
    /\ record' = [record EXCEPT ![p] = None]

\* On to the storage manager, with what the masters answered.
Storage(t, op, p, oid) ==
    Begins(t, [at |-> "storage", op |-> op, path |-> p, oid |-> oid])

vsfs_create(t, p) ==
    /\ Storage(t, "create", p, nextOid)
    /\ client_create(p)
    /\ UNCHANGED <<storageVars, handle, mutex, history>>

vsfs_symlink(t, p) ==
    /\ Storage(t, "symlink", p, nextOid)
    /\ client_create(p)
    /\ links' = links \cup {nextOid}
    /\ UNCHANGED <<manager, files, fds, table, handle, mutex, history>>

\* Returns at once: the file is not created on the storage.
vsfs_mknod(t, p) ==
    /\ call[t] = Idle
    /\ client_create(p)
    /\ UNCHANGED <<storageVars, handle, call, mutex, history>>

\* Mutant: the status of the masters' answer is not checked.
vsfs_open_unchecked(t, p) ==
    /\ record[p] \notin links
    /\ Storage(t, "open", p, record[p])
    /\ UNCHANGED <<storageVars, nsVars, handle, mutex, history>>
vsfs_open(t, p) ==
    /\ \E oid \in Oid \ links : client_open(p, oid) /\ Storage(t, "open", p, oid)
    /\ UNCHANGED <<storageVars, nsVars, handle, mutex, history>>

\* Of directories and links the record is all that is asked for.
vsfs_getattr(t, p) ==
    /\ \E oid \in Oid \ links : client_getattr(p, oid) /\ Storage(t, "getattr", p, oid)
    /\ UNCHANGED <<storageVars, nsVars, handle, mutex, history>>

vsfs_readlink(t, p) ==
    /\ \E oid \in links : client_object_id(p, oid) /\ Storage(t, "readlink", p, oid)
    /\ UNCHANGED <<storageVars, nsVars, handle, mutex, history>>

vsfs_mkdir(t, p) ==
    /\ client_mkdir(p)
    /\ Storage(t, "mkdir", p, Dir)
    /\ UNCHANGED <<storageVars, nextOid, handle, mutex, history>>

vsfs_rmdir(t, p) ==
    /\ client_rmdir(p)
    /\ Storage(t, "rmdir", p, Dir)
    /\ UNCHANGED <<storageVars, nextOid, handle, mutex, history>>

\* Mutant: the storage first, the record last.
vsfs_unlink_storage_first(t, p) ==
    /\ record[p] \in Oid /\ call[t] = Idle
    /\ \/ sm_unlink(p, record[p]) /\ UNCHANGED record
       \/ record' = [record EXCEPT ![p] = None] /\ UNCHANGED files
    /\ UNCHANGED <<manager, links, fds, table, nextOid, handle, call, mutex, history>>
vsfs_unlink(t, p) ==
    /\ \E oid \in Oid : client_unlink(p, oid) /\ Storage(t, "unlink", p, oid)
    /\ UNCHANGED <<storageVars, nextOid, handle, mutex, history>>

\* The library's calls.  It makes directories with the masters alone, and
\* keeps the descriptors it opens in the application's process.
api_create(t, p) ==
    /\ Storage(t, "api_create", p, nextOid)
    /\ client_create(p)
    /\ UNCHANGED <<storageVars, handle, mutex, history>>

api_unlink(t, p) ==
    /\ \E oid \in Oid : client_unlink(p, oid) /\ Storage(t, "api_unlink", p, oid)
    /\ UNCHANGED <<storageVars, nextOid, handle, mutex, history>>

api_directory(t, p) ==
    /\ call[t] = Idle
    /\ client_mkdir(p) \/ client_rmdir(p)
    /\ UNCHANGED <<storageVars, nextOid, handle, call, mutex, history>>

-----------------------------------------------------------------------------
(* The calls to the storage manager.  A failed one returns its error, and  *)
(* what the masters recorded stays.                                        *)

Opened(t, fd) ==
    call' = [call EXCEPT ![t] = [at |-> "opened", op |-> call[t].op, oid |-> call[t].oid,
                                 fd |-> fd, file |-> fds'[fd]]]

storage_create(t, fd) ==
    /\ AtStorage(t, "create")
    /\ sm_create(call[t].path, call[t].oid, fd)
    /\ Opened(t, fd)
    /\ UNCHANGED <<manager, links, table, nsVars, handle, mutex, history>>

storage_open(t, fd) ==
    /\ AtStorage(t, "open")
    /\ sm_open(call[t].path, call[t].oid, fd)
    /\ Opened(t, fd)
    /\ UNCHANGED <<manager, links, table, nsVars, handle, mutex, history>>

storage_symlink(t) ==
    /\ AtStorage(t, "symlink")
    /\ sm_symlink(call[t].path, call[t].oid)
    /\ made' = made \cup {call[t].oid}
    /\ Returns(t)
    /\ UNCHANGED <<manager, links, fds, table, nsVars, handle, mutex, reported>>

storage_api_create(t) ==
    /\ AtStorage(t, "api_create")
    /\ sm_create_elsewhere(call[t].path, call[t].oid)
    /\ made' = made \cup {call[t].oid}
    /\ Returns(t)
    /\ UNCHANGED <<manager, links, fds, table, nsVars, handle, mutex, reported>>

storage_unlink(t) ==
    /\ AtStorage(t, "unlink") \/ AtStorage(t, "api_unlink")
    /\ sm_unlink(call[t].path, call[t].oid)
    /\ Returns(t)
    /\ UNCHANGED <<manager, links, fds, table, nsVars, handle, mutex, history>>

storage_mkdir(t) ==
    /\ AtStorage(t, "mkdir")
    /\ sm_mkdir(call[t].path)
    /\ Returns(t)
    /\ UNCHANGED <<manager, links, fds, table, nsVars, handle, mutex, history>>

storage_rmdir(t) ==
    /\ AtStorage(t, "rmdir")
    /\ sm_rmdir(call[t].path)
    /\ Returns(t)
    /\ UNCHANGED <<manager, links, fds, table, nsVars, handle, mutex, history>>

storage_look(t) ==
    /\ \/ AtStorage(t, "getattr") /\ sm_getattr(call[t].path, call[t].oid)
       \/ AtStorage(t, "readlink") /\ sm_readlink(call[t].path, call[t].oid)
    /\ Returns(t)
    /\ UNCHANGED <<storageVars, nsVars, handle, mutex, history>>

storage_fails(t) ==
    /\ call[t].at = "storage"
    /\ Returns(t)
    /\ UNCHANGED <<storageVars, nsVars, handle, mutex, history>>

-----------------------------------------------------------------------------
(* The table of open files *)

\* The table entry, the handle and the return: a File that was there before
\* is destroyed.
add_file(t) ==
    /\ call[t].at = "opened" /\ mutex = None
    /\ LET c == call[t] IN
       /\ fds' = destroy(c.fd)
       /\ table' = [table EXCEPT ![c.fd] = "open"]
       /\ handle' = [handle EXCEPT ![c.fd] = [oid |-> c.oid, file |-> c.file]]
       /\ made' = IF c.op = "create" THEN made \cup {c.oid} ELSE made
    /\ Returns(t)
    /\ UNCHANGED <<manager, files, links, nsVars, mutex, reported>>

\* A pointer to the File comes from the table, under the mutex; it is used, or
\* its descriptor is, after the mutex has been released.
get_file(fd) == mutex = None /\ table[fd] # None
Using(t, fd) ==
    /\ handle[fd] # None
    /\ Begins(t, [at |-> "using", fd |-> fd])
    /\ UNCHANGED <<storageVars, nsVars, handle, mutex, history>>
vsfs_read(t, fd) == get_file(fd) /\ Using(t, fd)
vsfs_write(t, fd) == get_file(fd) /\ Using(t, fd)
vsfs_write_buf(t, fd) == get_file(fd) /\ Using(t, fd)

\* These go by the number of the descriptor alone.
vsfs_fgetattr(t, fd) == Using(t, fd)
vsfs_ioctl(t, fd) == Using(t, fd)
vsfs_flock(t, fd) == Using(t, fd)
vsfs_lock(t, fd) == Using(t, fd)
vsfs_fsync(t, fd) == Using(t, fd)

\* vsfs_flush() closes a copy of the descriptor.
vsfs_flush(t, fd, copy) ==
    /\ handle[fd] # None
    /\ sys_dup(fd, copy)
    /\ Begins(t, [at |-> "dup", fd |-> fd, copy |-> copy])
    /\ UNCHANGED <<manager, files, links, table, nsVars, handle, mutex, history>>

close_copy(t) ==
    /\ call[t].at = "dup"
    /\ fds' = sys_close(call[t].copy)
    /\ Returns(t)
    /\ UNCHANGED <<manager, files, links, table, nsVars, handle, mutex, history>>

use_file(t) ==
    /\ call[t].at = "using"
    /\ Returns(t)
    /\ UNCHANGED <<storageVars, nsVars, handle, mutex, history>>

\* vsfs_release(): the kernel releases a handle once, when no request uses
\* it.  close_file() holds the mutex from the close to the erase.
\* Mutant: the mutex is taken for the lookup and the erase only.
close_file_unlocked(t, fd) ==
    /\ handle[fd] # None /\ mutex = None
    /\ \A u \in Thread : call[u].at \in {"using", "dup"} => call[u].fd # fd
    /\ table[fd] # None
    /\ Begins(t, [at |-> "closed", fd |-> fd])
    /\ handle' = [handle EXCEPT ![fd] = None]
    /\ \E status \in {"OK", "EIO"} :
        /\ close(fd, status)
        /\ reported' = (reported \/ status = "EIO")
    /\ UNCHANGED <<manager, files, links, nsVars, mutex, made>>
close_file(t, fd) ==
    /\ handle[fd] # None /\ mutex = None
    /\ \A u \in Thread : call[u].at \in {"using", "dup"} => call[u].fd # fd
    /\ table[fd] # None
    /\ Begins(t, [at |-> "closed", fd |-> fd])
    /\ handle' = [handle EXCEPT ![fd] = None]
    /\ mutex' = t
    /\ \E status \in {"OK", "EIO"} :
        /\ close(fd, status)
        /\ reported' = (reported \/ status = "EIO")
    /\ UNCHANGED <<manager, files, links, nsVars, made>>

erase_file(t) ==
    /\ call[t].at = "closed"
    /\ fds' = destroy(call[t].fd)
    /\ table' = [table EXCEPT ![call[t].fd] = None]
    /\ mutex' = None
    /\ Returns(t)
    /\ UNCHANGED <<manager, files, links, nsVars, handle, history>>

\* The mount process dies and the file system is mounted again, with the same
\* options; applications go on.
Remount ==
    /\ fds' = [fd \in Fd |-> None] /\ table' = [fd \in Fd |-> None]
    /\ handle' = [fd \in Fd |-> None]
    /\ call' = [t \in Thread |->
         IF AtStorage(t, "api_create") \/ AtStorage(t, "api_unlink") THEN call[t] ELSE Idle]
    /\ mutex' = None
    /\ reported' = FALSE
    /\ UNCHANGED <<manager, files, links, nsVars, made>>

Next ==
    \/ \E t \in Thread :
        \/ \E p \in Path :
            \/ vsfs_create(t, p) \/ vsfs_symlink(t, p) \/ vsfs_mknod(t, p)
            \/ vsfs_open(t, p) \/ vsfs_getattr(t, p) \/ vsfs_readlink(t, p)
            \/ vsfs_unlink(t, p) \/ vsfs_mkdir(t, p) \/ vsfs_rmdir(t, p)
            \/ api_create(t, p) \/ api_unlink(t, p) \/ api_directory(t, p)
        \/ \E fd \in Fd : storage_create(t, fd) \/ storage_open(t, fd)
        \/ storage_api_create(t) \/ storage_symlink(t) \/ storage_unlink(t) \/ storage_mkdir(t)
        \/ storage_rmdir(t) \/ storage_look(t) \/ storage_fails(t)
        \/ add_file(t)
        \/ \E fd \in Fd :
            \/ vsfs_read(t, fd) \/ vsfs_write(t, fd) \/ vsfs_write_buf(t, fd)
            \/ vsfs_fgetattr(t, fd) \/ vsfs_ioctl(t, fd) \/ vsfs_flock(t, fd)
            \/ vsfs_lock(t, fd) \/ vsfs_fsync(t, fd)
            \/ \E copy \in Fd : vsfs_flush(t, fd, copy)
            \/ close_file(t, fd)
        \/ use_file(t) \/ close_copy(t) \/ erase_file(t)
    \/ Remount

Spec == Init /\ [][Next]_vars

-----------------------------------------------------------------------------
(* Properties *)

\* As long as no close(2) reports an error, a handle that the kernel holds has
\* its File in the table, with its descriptor open on the file that vsfs_open()
\* opened, however the kernel's requests reuse the descriptor's number; and a
\* descriptor is open for a handle, or for an open or a flush in progress, never
\* lost.
DescriptorsOwned ==
    ~reported => \A fd \in Fd :
        /\ handle[fd] # None => table[fd] = "open" /\ fds[fd] = handle[fd].file
        /\ fds[fd] # None =>
             \/ handle[fd] # None
             \/ \E t \in Thread : call[t].at = "opened" /\ call[t].fd = fd
             \/ \E t \in Thread : call[t].at = "dup" /\ call[t].copy = fd

\* With the object storage manager a file whose creation returned 0 is on the
\* storage for as long as it has its record: no failure, unlink or create of the
\* same path by another request or application, and no death of the mount, takes
\* it away.
CreatedIsStored ==
    manager = "object" => \A p \in Path : record[p] \in made => files[object_path(p, record[p])] # None

\* With the object storage manager a handle is open on the file that its path
\* was looked up as, though the path may be unlinked and created again between
\* the lookup and the open.
OpensWhatWasLookedUp ==
    manager = "object" => \A fd \in Fd :
        handle[fd] # None => handle[fd].file = handle[fd].oid
=============================================================================
