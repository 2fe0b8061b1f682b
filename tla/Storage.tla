------------------------------- MODULE Storage -------------------------------
(***************************************************************************)
(* The storage under a mount: ObjectStorageManager, PosixStorageManager,   *)
(* File and PosixFileHandler (src/vsfs/common/).  The two managers differ  *)
(* in the name they give a file on the underlying file system: the object  *)
(* manager its object id, the POSIX manager its path.                      *)
(*                                                                         *)
(* A file of the underlying file system is known by the object id that was *)
(* current when it was created; a file that is unlinked lives on in the    *)
(* descriptors that are open on it.                                        *)
(***************************************************************************)
EXTENDS Integers

CONSTANTS
    Path, Fd,
    MaxOid,         \* bound: object ids the masters hand out
    Dir,            \* a directory, as a record or as a file
    None            \* no record, file, descriptor or handle

Oid == 1 .. MaxOid

\* A File whose handler is closed is "closed"; one whose close() has reported
\* an error keeps its handler, with the number of a descriptor that is gone.
FileState == {"open", "closed", "stale"}

ASSUME StorageAssumption ==
    /\ MaxOid \in Nat
    /\ None # Dir /\ {None, Dir} \cap Oid = {}
    /\ Path \cap Oid = {}
    /\ None \notin FileState

VARIABLES
    manager,        \* "object" or "posix": option -s of the mount
    files,          \* names on the underlying file system and the files there
    links,          \* the files that are symbolic links
    fds,            \* the process's descriptors and the files they are open on
    table           \* VsfsFuse::fh_to_obj_map_: the File of each descriptor

StorageTypeOK ==
    /\ manager \in {"object", "posix"}
    /\ files \in [Path \cup Oid -> Oid \cup {Dir, None}]
    /\ links \in SUBSET Oid
    /\ fds \in [Fd -> Oid \cup {Dir, None}]
    /\ table \in [Fd -> FileState \cup {None}]

-----------------------------------------------------------------------------
(* The calls to the underlying file system *)

\* open(2) of an existing file, on any free descriptor.
sys_open(name, fd) ==
    /\ files[name] # None
    /\ fds[fd] = None
    /\ fds' = [fds EXCEPT ![fd] = files[name]]
    /\ UNCHANGED files

\* open(2) with O_CREAT: an existing file of that name is opened as it is.
sys_creat_elsewhere(name, oid) ==
    /\ files[name] # Dir
    /\ files' = [files EXCEPT ![name] = IF @ = None THEN oid ELSE @]
sys_creat(name, oid, fd) ==
    /\ sys_creat_elsewhere(name, oid)
    /\ fds[fd] = None
    /\ fds' = [fds EXCEPT ![fd] = files'[name]]

\* dup(2), to any free descriptor.
sys_dup(fd, copy) ==
    /\ fds[fd] # None /\ fds[copy] = None
    /\ fds' = [fds EXCEPT ![copy] = fds[fd]]

sys_unlink(name) == files[name] \in Oid /\ files' = [files EXCEPT ![name] = None]
sys_symlink(name, oid) == files[name] = None /\ files' = [files EXCEPT ![name] = oid]
sys_mkdir(name) == files[name] = None /\ files' = [files EXCEPT ![name] = Dir]
sys_rmdir(name) == files[name] = Dir /\ files' = [files EXCEPT ![name] = None]
sys_stat(name) == files[name] # None
sys_readlink(name) == files[name] \in links

-----------------------------------------------------------------------------
(* ObjectStorageManager, which has no directories but its own *)

\* Mutant: objects are stored under their paths.
object_path_by_name(p, oid) == p
object_path(p, oid) == oid
object_open(p, oid, fd) == sys_open(object_path(p, oid), fd)
object_create(p, oid, fd) == sys_creat(object_path(p, oid), oid, fd)
object_unlink(p, oid) == sys_unlink(object_path(p, oid))
object_symlink(p, oid) == sys_symlink(object_path(p, oid), oid)
object_mkdir(p) == UNCHANGED files
object_rmdir(p) == UNCHANGED files
object_getattr(p, oid) == sys_stat(object_path(p, oid))
object_readlink(p, oid) == sys_readlink(object_path(p, oid))

(* PosixStorageManager *)

posix_path(p) == p
posix_open(p, fd) == sys_open(posix_path(p), fd)
posix_create(p, oid, fd) == sys_creat(posix_path(p), oid, fd)
posix_unlink(p) == sys_unlink(posix_path(p))
posix_symlink(p, oid) == sys_symlink(posix_path(p), oid)
posix_mkdir(p) == sys_mkdir(posix_path(p))
posix_rmdir(p) == sys_rmdir(posix_path(p))
posix_getattr(p) == sys_stat(posix_path(p))
posix_readlink(p) == sys_readlink(posix_path(p))

(* storage_manager(): the one that the mount was made with *)

sm_open(p, oid, fd) ==
    IF manager = "object" THEN object_open(p, oid, fd) ELSE posix_open(p, fd)
sm_create(p, oid, fd) ==
    IF manager = "object" THEN object_create(p, oid, fd) ELSE posix_create(p, oid, fd)
\* The same by another process, with descriptors of its own.
sm_create_elsewhere(p, oid) ==
    sys_creat_elsewhere(IF manager = "object" THEN object_path(p, oid) ELSE posix_path(p), oid)
sm_unlink(p, oid) == IF manager = "object" THEN object_unlink(p, oid) ELSE posix_unlink(p)
sm_symlink(p, oid) ==
    IF manager = "object" THEN object_symlink(p, oid) ELSE posix_symlink(p, oid)
sm_mkdir(p) == IF manager = "object" THEN object_mkdir(p) ELSE posix_mkdir(p)
sm_rmdir(p) == IF manager = "object" THEN object_rmdir(p) ELSE posix_rmdir(p)
sm_getattr(p, oid) == IF manager = "object" THEN object_getattr(p, oid) ELSE posix_getattr(p)
sm_readlink(p, oid) ==
    IF manager = "object" THEN object_readlink(p, oid) ELSE posix_readlink(p)

-----------------------------------------------------------------------------
(* File and PosixFileHandler *)

\* File::close(): close(2) gives the descriptor back even when it reports an
\* error, but then the handler is not reset.
sys_close(fd) == [fds EXCEPT ![fd] = None]
close(fd, reported) ==
    /\ fds' = sys_close(fd)
    /\ table' = [table EXCEPT ![fd] = IF reported = "OK" THEN "closed" ELSE "stale"]

\* File::~File() and ~PosixFileHandler(): a handler that was not reset closes
\* its descriptor's number again, whatever has that number by now.
destroy(fd) ==
    IF table[fd] \in {"open", "stale"} THEN sys_close(fd) ELSE fds
=============================================================================
