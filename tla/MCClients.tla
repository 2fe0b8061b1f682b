----------------------------- MODULE MCClients ------------------------------
(* The clients in two environments.  A behaviour is one of two clients as   *)
(* the FUSE kernel uses them, which may die, or one of a single client      *)
(* whose calls may be refused by a store or broken off; the other system    *)
(* stays as it started.                                                     *)
EXTENDS MCClient

VARIABLES lossy, l_records, l_entries, l_reply, l_op, l_path, l_pc,
          l_backoff, l_failed, l_result

Lossy == INSTANCE Client WITH
    Client <- {1},
    Ops <- {"create", "mkdir", "unlink", "rmdir"},
    LooksUp <- FALSE,
    Faults <- {"transport", "store", "die"},
    records <- l_records, entries <- l_entries, reply <- l_reply,
    op <- l_op, path <- l_path, pc <- l_pc, backoff <- l_backoff,
    failed <- l_failed, result <- l_result

l_vars == <<l_records, l_entries, l_reply, l_op, l_path, l_pc, l_backoff,
            l_failed, l_result>>

MCInit == Init /\ Lossy!Init /\ lossy \in BOOLEAN

MCNext ==
    /\ \/ ~lossy /\ Next /\ UNCHANGED l_vars
       \/ lossy /\ Lossy!Next /\ UNCHANGED vars
    /\ UNCHANGED lossy

MCSpec ==
    /\ MCInit
    /\ [][MCNext]_<<vars, l_vars, lossy>>
    /\ \A c \in Client : WF_vars(Step(c))

\* Whatever calls fail or are lost, mkdir(), unlink() and rmdir() of the
\* client (vsfs_rpc_client.cpp) answer OK only when the record and the entry
\* are as the operation says: a retried or half-done operation does not pass
\* for a success.
OkUnderLoss == Lossy!OkIsTrueButForCreate
=============================================================================
