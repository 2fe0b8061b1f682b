------------------------------- MODULE DirTree -------------------------------
(***************************************************************************)
(* What the namespace of the masters promises its callers: a set of file   *)
(* and directory records and a set of directory entries, each changed by   *)
(* one atomic operation at a time, every operation with the status the     *)
(* caller is told.  Records and entries are separate: the master does not  *)
(* create or delete one when it creates or deletes the other.              *)
(* Namespace implements this specification; Client is built on it.         *)
(***************************************************************************)
CONSTANTS
    Path,       \* every absolute path that may appear in a request
    Root,       \* "/"
    Parent      \* Parent[c] is the directory part of c # Root

Child == Path \ {Root}

\* The file type bits of a record's mode: S_IFREG, S_IFDIR, or neither.
Kind == {"absent", "reg", "dir", "none"}

Op == {"create", "remove", "mkdir", "rmdir", "add_subfile",
       "remove_subfile", "setattr"}
Status == {"OK", "EEXIST", "ENOENT", "EISDIR", "ENOTEMPTY", "EIO"}
NoReply == [op |-> "nop", path |-> Root, status |-> "lost"]
Reply == [op : Op, path : Path, status : Status] \cup {NoReply}

VARIABLES
    records,    \* the kind of each path's record
    entries,    \* the children that their parent directory lists
    reply       \* the answer to the last request

vars == <<records, entries, reply>>

TypeOK ==
    /\ records \in [Path -> Kind]
    /\ entries \in SUBSET Child
    /\ reply \in Reply

Init ==
    /\ records = [p \in Path |-> "absent"]
    /\ entries = {}
    /\ reply = NoReply

-----------------------------------------------------------------------------
Answer(op, p, s) == reply' = [op |-> op, path |-> p, status |-> s]

SetRecord(p, k) == records' = [records EXCEPT ![p] = k]

MayBeDir(p) == records[p] \in {"dir", "none"}
ChildrenOf(p) == {c \in entries : Parent[c] = p}

Create(p) ==
    /\ \/ /\ records[p] = "absent"
          /\ SetRecord(p, "reg")
          /\ Answer("create", p, "OK")
       \/ /\ records[p] # "absent"
          /\ Answer("create", p, "EEXIST")
          /\ UNCHANGED records
    /\ UNCHANGED entries

Mkdir(p) ==
    /\ \/ /\ records[p] = "absent"
          /\ SetRecord(p, "dir")
          /\ Answer("mkdir", p, "OK")
       \/ /\ records[p] # "absent"
          /\ Answer("mkdir", p, "EEXIST")
          /\ UNCHANGED records
    /\ UNCHANGED entries

Remove(p) ==
    /\ \/ /\ records[p] \in {"reg", "none"}
          /\ SetRecord(p, "absent")
          /\ Answer("remove", p, "OK")
       \/ /\ records[p] = "absent"
          /\ Answer("remove", p, "ENOENT")
          /\ UNCHANGED records
       \/ /\ records[p] = "dir"
          /\ Answer("remove", p, "EISDIR")
          /\ UNCHANGED records
    /\ UNCHANGED entries

\* A directory goes only when it lists nothing.
Rmdir(p) ==
    /\ \/ /\ MayBeDir(p)
          /\ ChildrenOf(p) = {}
          /\ SetRecord(p, "absent")
          /\ Answer("rmdir", p, "OK")
       \/ /\ MayBeDir(p)
          /\ ChildrenOf(p) # {}
          /\ Answer("rmdir", p, "ENOTEMPTY")
          /\ UNCHANGED records
       \/ /\ records[p] # "dir"
          /\ Answer("rmdir", p, "ENOENT")
          /\ UNCHANGED records
    /\ UNCHANGED entries

AddSubfile(c) ==
    /\ \/ /\ MayBeDir(Parent[c])
          /\ c \notin entries
          /\ entries' = entries \cup {c}
          /\ Answer("add_subfile", c, "OK")
       \/ /\ c \in entries
          /\ Answer("add_subfile", c, "EEXIST")
          /\ UNCHANGED entries
       \/ /\ records[Parent[c]] # "dir"
          /\ Answer("add_subfile", c, "ENOENT")
          /\ UNCHANGED entries
    /\ UNCHANGED records

RemoveSubfile(c) ==
    /\ \/ /\ c \in entries
          /\ entries' = entries \ {c}
          /\ Answer("remove_subfile", c, "OK")
       \/ /\ c \notin entries
          /\ Answer("remove_subfile", c, "ENOENT")
          /\ UNCHANGED entries
    /\ UNCHANGED records

\* A setattr may replace the mode, and the type bits with it.
Setattr(p) ==
    /\ \/ /\ records[p] # "absent"
          /\ \E k \in {records[p], "none"} : SetRecord(p, k)
          /\ \E s \in {"OK", "EIO"} : Answer("setattr", p, s)
       \/ /\ records[p] = "absent"
          /\ Answer("setattr", p, "ENOENT")
          /\ UNCHANGED records
    /\ UNCHANGED entries

\* The operation failed in the store and left the tree alone.
StoreFails(op, p) ==
    /\ Answer(op, p, "EIO")
    /\ UNCHANGED <<records, entries>>

\* A crash undoes the setattrs that never reached the store, and nothing else.
AfterCrash(p) == IF records[p] = "none" THEN {"none", "reg", "dir"}
                                        ELSE {records[p]}

Crash ==
    /\ reply' = NoReply
    /\ records' \in [Path -> Kind]
    /\ \A p \in Path : records'[p] \in AfterCrash(p)
    /\ UNCHANGED entries

\* The process died in a remove that had already reached the store.
RemoveAborted(q) ==
    /\ records[q] \in {"reg", "none"}
    /\ reply' = NoReply
    /\ records' \in [Path -> Kind]
    /\ records'[q] = "absent"
    /\ \A p \in Path \ {q} : records'[p] \in AfterCrash(p)
    /\ UNCHANGED entries

Next ==
    \/ \E p \in Path : \/ Create(p) \/ Mkdir(p) \/ Remove(p) \/ Rmdir(p)
                       \/ Setattr(p) \/ RemoveAborted(p)
                       \/ \E op \in Op : StoreFails(op, p)
    \/ \E c \in Child : AddSubfile(c) \/ RemoveSubfile(c)
    \/ Crash

Spec == Init /\ [][Next]_vars
=============================================================================
