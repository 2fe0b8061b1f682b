------------------------------- MODULE Client --------------------------------
(***************************************************************************)
(* VSFSRpcClient's operations on files and directories                     *)
(* (src/vsfs/client/vsfs_rpc_client.cpp).  A path has its record on one    *)
(* master and its entry in the listing of its parent on another, so each   *)
(* operation is two remote calls, retried and rolled back by the client;   *)
(* other clients run between them.  The masters are a DirTree, one call at *)
(* a time.                                                                 *)
(*                                                                         *)
(* A call is acknowledged, refused (RpcInvalidOp) or broken off            *)
(* (TTransportException), in which case it was carried out or not, and the *)
(* client cannot tell.                                                     *)
(***************************************************************************)
EXTENDS Integers

CONSTANTS
    Client,     \* threads that call the client library
    Path, Root, Parent,
    Ops,        \* the operations the clients use
    LooksUp,    \* the caller looks up the parent first, as the FUSE kernel does
    Faults      \* what may go wrong

Child == Path \ {Root}

ASSUME TreeAssumption ==
    /\ Root \in Path
    /\ Parent \in [Child -> Path]
    /\ \A p \in Child : Parent[p] # p

ASSUME EnvironmentAssumption ==
    /\ Ops \subseteq {"create", "mkdir", "unlink", "rmdir"}
    /\ LooksUp \in BOOLEAN
    /\ Faults \subseteq {"transport", "store", "die"}

kNumBackOffs == 3

VARIABLES
    records, entries, reply,    \* the masters
    op, path,                   \* what each client is doing, and to which path
    pc,                         \* the remote call it is at
    backoff,                    \* tries left
    failed,                     \* `status` holds the error of an earlier try
    result                      \* what its last operation returned

tree == <<records, entries, reply>>
progress == <<op, path, pc, backoff, failed>>
vars == <<tree, progress, result>>

Tree == INSTANCE DirTree

TypeOK ==
    /\ Tree!TypeOK
    /\ op \in [Client -> {"create", "mkdir", "unlink", "rmdir", "nop"}]
    /\ path \in [Client -> Path]
    /\ pc \in [Client -> {"idle", "record", "entry", "rollback"}]
    /\ backoff \in [Client -> 1 .. kNumBackOffs]
    /\ failed \in [Client -> BOOLEAN]
    /\ result \in [Client -> {"none", "OK", "error", "died"}]
    /\ \A c \in Client : IF pc[c] = "idle"
                         THEN op[c] = "nop"
                         ELSE op[c] \in Ops /\ path[c] \in Child

-----------------------------------------------------------------------------
(* One remote call *)

Call(c) ==
    CASE pc[c] = "entry" /\ op[c] \in {"create", "mkdir"} -> "add_subfile"
      [] pc[c] = "entry" /\ op[c] \in {"unlink", "rmdir"} -> "remove_subfile"
      [] pc[c] = "record" /\ op[c] # "unlink"              -> op[c]
      [] OTHER                                             -> "remove"

Request(c) ==
    \/ Call(c) = "create" /\ Tree!Create(path[c])
    \/ Call(c) = "mkdir" /\ Tree!Mkdir(path[c])
    \/ Call(c) = "remove" /\ Tree!Remove(path[c])
    \/ Call(c) = "rmdir" /\ Tree!Rmdir(path[c])
    \/ Call(c) = "add_subfile" /\ Tree!AddSubfile(path[c])
    \/ Call(c) = "remove_subfile" /\ Tree!RemoveSubfile(path[c])

Acked(c) == Request(c) /\ reply'.status = "OK"

Refused(c) ==
    \/ Request(c) /\ reply'.status # "OK"
    \/ "store" \in Faults /\ Tree!StoreFails(Call(c), path[c])

Broken(c) == "transport" \in Faults /\ (Request(c) \/ UNCHANGED tree)

-----------------------------------------------------------------------------
(* What the client does with the outcome *)

Return(c, status) ==
    /\ pc' = [pc EXCEPT ![c] = "idle"]
    /\ op' = [op EXCEPT ![c] = "nop"]
    /\ path' = [path EXCEPT ![c] = Root]
    /\ backoff' = [backoff EXCEPT ![c] = kNumBackOffs]
    /\ failed' = [failed EXCEPT ![c] = FALSE]
    /\ result' = [result EXCEPT ![c] = status]

Enter(c, call) ==
    /\ pc' = [pc EXCEPT ![c] = call]
    /\ backoff' = [backoff EXCEPT ![c] = kNumBackOffs]
    /\ failed' = [failed EXCEPT ![c] = FALSE]
    /\ UNCHANGED <<op, path, result>>

\* Mutant: the loop does not end when the tries are used up.
NoTriesLeftNever(c) == FALSE
NoTriesLeft(c) == backoff[c] = 1

\* The error stays in `status` whatever the next try brings.
TryAgain(c) ==
    /\ ~NoTriesLeft(c)
    /\ backoff' = [backoff EXCEPT ![c] = @ - 1]
    /\ failed' = [failed EXCEPT ![c] = TRUE]
    /\ UNCHANGED <<op, path, pc, result>>

\* Mutant: unlink removes the record before the entry.
FirstCallRecord(o) == "record"
FirstCall(o) == IF o = "unlink" THEN "entry" ELSE "record"

\* The root is made once, when the file system is mounted.
Start(c, o, p) ==
    /\ pc[c] = "idle"
    /\ LooksUp => records[Parent[p]] = "dir"
    /\ op' = [op EXCEPT ![c] = o]
    /\ path' = [path EXCEPT ![c] = p]
    /\ pc' = [pc EXCEPT ![c] = FirstCall(o)]
    /\ backoff' = [backoff EXCEPT ![c] = kNumBackOffs]
    /\ failed' = [failed EXCEPT ![c] = FALSE]
    /\ result' = [result EXCEPT ![c] = "none"]
    /\ UNCHANGED tree

\* Mutant: a file that is there already counts as created.
create_existing(c) ==
    /\ pc[c] = "record" /\ op[c] = "create"
    /\ Acked(c) \/ Refused(c)
    /\ Enter(c, "entry")

create(c) ==
    /\ pc[c] = "record" /\ op[c] = "create"
    /\ \/ /\ Acked(c)
          /\ IF failed[c] THEN Return(c, "error") ELSE Enter(c, "entry")
       \/ /\ Refused(c) \/ Broken(c)
          /\ \/ TryAgain(c)
             \/ NoTriesLeft(c) /\ Return(c, "error")

mkdir(c) ==
    /\ pc[c] = "record" /\ op[c] = "mkdir"
    /\ \/ Acked(c) /\ Enter(c, "entry")
       \/ (Refused(c) \/ Broken(c)) /\ Return(c, "error")

rmdir(c) ==
    /\ pc[c] = "record" /\ op[c] = "rmdir"
    /\ \/ Acked(c) /\ Enter(c, "entry")
       \/ (Refused(c) \/ Broken(c)) /\ Return(c, "error")

unlink(c) ==
    /\ pc[c] = "record" /\ op[c] = "unlink"
    /\ \/ Acked(c) /\ Return(c, "OK")
       \/ (Refused(c) \/ Broken(c)) /\ Return(c, "error")

\* A refusal is tried again without counting it.
KeepTrying(c) ==
    /\ failed' = [failed EXCEPT ![c] = TRUE]
    /\ UNCHANGED <<op, path, pc, backoff, result>>

add_subfile(c) ==
    /\ pc[c] = "entry" /\ op[c] \in {"create", "mkdir"}
    /\ \/ /\ Acked(c)
          /\ IF failed[c] THEN Enter(c, "rollback") ELSE Return(c, "OK")
       \/ Refused(c) /\ KeepTrying(c)
       \/ /\ Broken(c)
          /\ \/ TryAgain(c)
             \/ NoTriesLeft(c) /\ Enter(c, "rollback")

\* Mutant: unlink and rmdir answer OK once the entry cannot be removed.
remove_subfile_gives_up(c) ==
    /\ pc[c] = "entry" /\ op[c] \in {"unlink", "rmdir"}
    /\ \/ /\ Acked(c)
          /\ IF op[c] = "rmdir" THEN Return(c, "OK") ELSE Enter(c, "record")
       \/ Broken(c) /\ Return(c, "OK")

remove_subfile(c) ==
    /\ pc[c] = "entry" /\ op[c] \in {"unlink", "rmdir"}
    /\ \/ /\ Acked(c)
          /\ CASE failed[c]                       -> Return(c, "error")
               [] ~failed[c] /\ op[c] = "unlink"  -> Enter(c, "record")
               [] ~failed[c] /\ op[c] = "rmdir"   -> Return(c, "OK")
       \/ Refused(c) /\ KeepTrying(c)
       \/ /\ Broken(c)
          /\ \/ TryAgain(c)
             \/ NoTriesLeft(c) /\ Return(c, "error")

\* create() and mkdir() answer OK after a successful roll back.  mkdir() rolls
\* back with remove() as well and does not catch its refusal.
rollback(c) ==
    /\ pc[c] = "rollback"
    /\ \/ Acked(c) /\ Return(c, "OK")
       \/ Refused(c) /\ Return(c, IF op[c] = "create" THEN "error" ELSE "died")
       \/ Broken(c) /\ Return(c, "error")

\* The process of the client dies between two calls, and is started again.
Die(c) ==
    /\ "die" \in Faults
    /\ pc[c] # "idle"
    /\ Return(c, "died")
    /\ UNCHANGED tree

-----------------------------------------------------------------------------
Init ==
    /\ records = [p \in Path |-> IF p = Root THEN "dir" ELSE "absent"]
    /\ entries = {}
    /\ reply = Tree!NoReply
    /\ op = [c \in Client |-> "nop"]
    /\ path = [c \in Client |-> Root]
    /\ pc = [c \in Client |-> "idle"]
    /\ backoff = [c \in Client |-> kNumBackOffs]
    /\ failed = [c \in Client |-> FALSE]
    /\ result = [c \in Client |-> "none"]

Step(c) ==
    create(c) \/ mkdir(c) \/ rmdir(c) \/ unlink(c)
        \/ add_subfile(c) \/ remove_subfile(c) \/ rollback(c)

Next == \E c \in Client :
    \/ \E o \in Ops, p \in Child : Start(c, o, p)
    \/ Step(c)
    \/ Die(c)

\* A thread inside an operation goes on to its next call.
Spec == Init /\ [][Next]_vars /\ \A c \in Client : WF_vars(Step(c))

-----------------------------------------------------------------------------
(* Properties *)

\* Where the clients are used as the FUSE front end uses them, directories are
\* not removed, and no call is lost or fails in a store.
Undisturbed ==
    /\ Ops \subseteq {"create", "mkdir", "unlink"}
    /\ LooksUp
    /\ Faults \subseteq {"die"}

\* Every name a directory lists has a record: create() and mkdir() make the
\* record first and unlink() removes it last, so that neither another client
\* nor a client that dies half way leaves a name that leads nowhere.
NoDanglingEntry == \A p \in entries : records[p] # "absent"

\* The client is between the two calls of an operation that needs both.
Holds(c, p) ==
    /\ path[c] = p
    /\ \/ pc[c] = "entry" /\ op[c] \in {"create", "mkdir"}
       \/ pc[c] = "record" /\ op[c] = "unlink"

\* A record that is not listed is a lock: of all the clients that create or
\* unlink a path, at most one is between its two calls, and meanwhile the
\* record stays and the name stays unlisted.
OneHolder == \A c \in Client, p \in Path : Holds(c, p) =>
    /\ records[p] # "absent"
    /\ p \notin entries
    /\ \A d \in Client : Holds(d, p) => d = c

\* A create() or mkdir() whose record was accepted is never rolled back: no
\* other client can make add_subfile() fail.
NeverRolledBack == \A c \in Client : pc[c] # "rollback"

\* A directory that a client has looked up stays, and so add_subfile() of a
\* path the client holds is acknowledged at once.
ParentsStay == \A c \in Client : pc[c] # "idle" => records[Parent[path[c]]] = "dir"
FirstTry == \A c \in Client :
    pc[c] = "entry" /\ op[c] \in {"create", "mkdir"} => ~failed[c]

IInv ==
    /\ NoDanglingEntry
    /\ OneHolder
    /\ NeverRolledBack
    /\ ParentsStay
    /\ FirstTry

\* An operation that answers OK has done what it says, at that moment.
Done(o, p) ==
    CASE o = "create" -> records[p] = "reg" /\ p \in entries
      [] o = "mkdir" -> records[p] = "dir" /\ p \in entries
      [] o \in {"unlink", "rmdir"} -> records[p] = "absent" /\ p \notin entries

ReturnsOK(c, o, p) ==
    /\ op[c] = o /\ path[c] = p
    /\ op'[c] = "nop" /\ result'[c] = "OK"

OkIsTrue ==
    [][\A c \in Client, o \in Ops, p \in Child :
         ReturnsOK(c, o, p) => Done(o, p)']_vars

\* The same of mkdir(), unlink() and rmdir(), whatever calls fail or are lost.
OkIsTrueButForCreate ==
    [][\A c \in Client, o \in Ops \ {"create"}, p \in Child :
         ReturnsOK(c, o, p) => Done(o, p)']_vars

\* create() returns: its tries to make the record are counted, and the call
\* that lists the file, which it would repeat for ever, is not refused.
CreateReturns ==
    \A c \in Client : op[c] = "create" ~> pc[c] = "idle"
=============================================================================
