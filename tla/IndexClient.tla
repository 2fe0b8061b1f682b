----------------------------- MODULE IndexClient -----------------------------
(***************************************************************************)
(* Indices from end to end: the index commands of the command line tool    *)
(* (src/vsfs/ui/cli/commands.cpp) and the operations of VSFSRpcClient      *)
(* (src/vsfs/client/vsfs_rpc_client.cpp) they run, between the masters,    *)
(* which list the indices and keep their directories, and the index        *)
(* servers, which keep their records.                                      *)
(*                                                                         *)
(* Every RPC is a step.  Of the masters there is what the operations read  *)
(* and write: MasterIndices.tla has the two steps of their create_index(), *)
(* Namespace.tla the records and Client.tla the tries of a call that       *)
(* fails.  The index servers are those of IndexManager.tla.                *)
(***************************************************************************)
EXTENDS IndexManager

CONSTANTS
    Root,           \* "/"
    Dir,            \* the directories, among them Root
    Up,             \* the parent_path() of each directory but Root
    DirOf,          \* the directory of each file
    Master,         \* the masters, 1 .. n, in the order of their positions
    IndexMaster,    \* the master of each index directory,
    MasterOf,       \* and of each file
    Placement,      \* the ways in which the indices may hash to index servers
    StartsWith,     \* pairs of directories: the path of the first begins the second
    Existing,       \* the sets of indices that may be there at first
    Volatile,       \* files that come and go
    CommandLines,   \* the command lines that each client may be given
    LibraryCalls,   \* the calls of the library that it may make
    Listings,       \* the queries that are listed as directories of the mount
    MaxCommands     \* bound: commands given

ASSUME IndexClientAssumption ==
    /\ Root \in Dir
    /\ Up \in [Dir \ {Root} -> Dir]
    /\ DirOf \in [File -> Dir]
    /\ IndexMaster \in [Index -> Master]
    /\ MasterOf \in [File -> Master]
    /\ Master # {} /\ Master \subseteq Nat
    /\ \A i \in Index : i.root \in Dir \cup File
    /\ Placement \subseteq [Index -> Server]
    /\ \A set \in Existing : \A i \in set : i \in Index /\ i.root \in Dir
    /\ Volatile \subseteq File
    /\ MaxCommands \in Nat

VARIABLES
    listed,         \* indices in the index namespace of their master
    vsfsDirs,       \* directories that have a ".vsfs" in them
    indexDirs,      \* indices whose directory has a record
    partRecord,     \* indices whose partition file has a record,
    partEntry,      \* and is listed in the directory of the index
    files,          \* files that have a record
    given,          \* commands given so far
    call,           \* what each client is doing: see Call
    answer,         \* what the operation returned that this step has ended
    faulty,         \* may index servers crash and may stores fail?
    acked,          \* history: insertions acknowledged and in force
    mine,           \* history: those a client has made in its update
    due,            \* history: those acknowledged when a search began
    ever            \* history: every insertion

masters == <<listed, vsfsDirs, indexDirs, partRecord, partEntry>>
histories == <<acked, mine, due, ever>>
vars == <<imVars, masters, files, given, call, answer, faulty, histories>>

NoPath == ""
NoAnswer == [status |-> "none", found |-> {}]
Idle == [at |-> "idle"]
Call == [at : {"getattr", "server", "filling", "mkdir", "insert", "dir", "record", "entry",
               "roll back", "rmdir", "spin", "undo", "undo entry", "undo record",
               "climb", "resolve", "send", "locate", "ask", "paths", "getattrs",
               "readdir", "subfiles", "infos", "info"}]
Insertion == [index : Index, key : Key, file : File]

TypeOK ==
    /\ IndexManagerTypeOK
    /\ \A set \in {listed, indexDirs, partRecord, partEntry} : set \subseteq Index
    /\ vsfsDirs \subseteq Dir /\ files \subseteq File
    /\ given \in 0 .. MaxCommands
    /\ \A c \in Client : call[c] = Idle \/ [at |-> call[c].at] \in Call
    /\ answer \in [status : {"none", "OK", "error", "died"}, found : SUBSET (File \cup {NoPath})]
    /\ faulty \in BOOLEAN
    /\ \A set \in {acked, ever} : set \subseteq Insertion
    /\ mine \in [Client -> SUBSET Insertion] /\ due \in [Client -> SUBSET Insertion]

-----------------------------------------------------------------------------
(* Steps *)

At(c, where) == call[c].at = where
Goto(c, where) == call' = [call EXCEPT ![c].at = where]
Becomes(c, new) == call' = [call EXCEPT ![c] = new]
Keep == answer' = NoAnswer
ReturnFound(c, status, found) ==
    /\ call' = [call EXCEPT ![c] = Idle]
    /\ answer' = [status |-> status, found |-> found]
Return(c, status) == ReturnFound(c, status, {})
Env == <<files, given, faulty>>

\* The index a command names.
Named(c) == call[c].cmd.index

\* Insertions that are no longer in force.
Forget(lost) ==
    /\ acked' = acked \ lost
    /\ mine' = [c \in Client |-> mine[c] \ lost]
    /\ due' = [c \in Client |-> due[c] \ lost]

\* The call of a client to an index server is lost, or its answer is.
Unreachable(c, status) == faulty /\ Return(c, status)

-----------------------------------------------------------------------------
(* create_index() *)

create_index(c) ==
    /\ At(c, "getattr")
    /\ IF Named(c).root \in Dir THEN Goto(c, "server") /\ Keep ELSE Return(c, "error")
    /\ UNCHANGED <<imVars, masters, Env, histories>>

\* Mutant: a server that cannot be reached does not stop the client.
create_on_server_regardless(c) ==
    /\ At(c, "server")
    /\ \/ \E status \in {"filling", "OK", "EEXIST", "EINVAL"} :
            /\ create(c, Named(c), call[c].cmd.type, call[c].cmd.key, status)
            /\ CASE status = "filling" -> Goto(c, "filling") /\ Keep
                 [] status = "OK"      -> Goto(c, "mkdir") /\ Keep
                 [] OTHER              -> Return(c, "error")
       \/ faulty /\ Goto(c, "mkdir") /\ Keep /\ UNCHANGED imVars
    /\ UNCHANGED <<masters, Env, histories>>
create_on_server(c) ==
    /\ At(c, "server")
    /\ \/ \E status \in {"filling", "OK", "EEXIST", "EINVAL"} :
            /\ create(c, Named(c), call[c].cmd.type, call[c].cmd.key, status)
            /\ CASE status = "filling" -> Goto(c, "filling") /\ Keep
                 [] status = "OK"      -> Goto(c, "mkdir") /\ Keep
                 [] OTHER              -> Return(c, "error")
       \/ Unreachable(c, "error") /\ UNCHANGED imVars
    /\ UNCHANGED <<masters, Env, histories>>

created_on_server(c) ==
    /\ At(c, "filling")
    /\ \/ create_filled(c, Named(c)) /\ ((Goto(c, "mkdir") /\ Keep) \/ Unreachable(c, "error"))
       \/ lock[home[Named(c)]] # c /\ UNCHANGED imVars /\ Return(c, "error")
    /\ UNCHANGED <<masters, Env, histories>>

\* Go to remove_index(), and on to `then` after it.
Undo(c, then) ==
    /\ Becomes(c, [at |-> "undo", cmd |-> call[c].cmd, then |-> then, failed |-> FALSE])
    /\ Keep
Partition(c) ==
    /\ Becomes(c, [at |-> "record", cmd |-> call[c].cmd, failed |-> FALSE])
    /\ Keep

\* mkdir() of "<root>/.vsfs", which may be there already.
make_vsfs_dir(c) ==
    /\ At(c, "mkdir")
    /\ \/ vsfsDirs' = vsfsDirs \cup {Named(c).root} /\ Goto(c, "insert") /\ Keep
       \/ faulty /\ Named(c).root \notin vsfsDirs /\ Undo(c, "return") /\ UNCHANGED vsfsDirs
    /\ UNCHANGED <<imVars, listed, indexDirs, partRecord, partEntry, Env, histories>>

\* create_index() of the master: the name, and then the directory.
insert_name(c) ==
    /\ At(c, "insert")
    /\ LET i == Named(c) IN
       \/ i \notin listed /\ listed' = listed \cup {i} /\ Goto(c, "dir") /\ Keep
       \/ (i \in listed \/ faulty) /\ Undo(c, "partition") /\ UNCHANGED listed
    /\ UNCHANGED <<imVars, vsfsDirs, indexDirs, partRecord, partEntry, Env, histories>>

make_index_dir(c) ==
    /\ At(c, "dir")
    /\ LET i == Named(c) IN
       \/ /\ i \notin indexDirs
          /\ indexDirs' = indexDirs \cup {i}
          /\ Partition(c)
          /\ UNCHANGED listed
       \/ /\ i \in indexDirs \/ faulty
          /\ listed' = listed \ {i}
          /\ Undo(c, "partition")
          /\ UNCHANGED indexDirs
    /\ UNCHANGED <<imVars, vsfsDirs, partRecord, partEntry, Env, histories>>

Failing(c) == Becomes(c, [call[c] EXCEPT !.failed = TRUE]) /\ Keep

\* create() of the partition: a try that succeeds after one that was refused
\* counts as a failure, and so does the last one that is refused.
create_partition(c) ==
    /\ At(c, "record")
    /\ LET i == Named(c) IN
       \/ /\ i \notin partRecord
          /\ partRecord' = partRecord \cup {i}
          /\ Goto(c, IF call[c].failed THEN "rmdir" ELSE "entry") /\ Keep
       \/ /\ i \in partRecord
          /\ Failing(c) \/ (Goto(c, "rmdir") /\ Keep)
          /\ UNCHANGED partRecord
    /\ UNCHANGED <<imVars, listed, vsfsDirs, indexDirs, partEntry, Env, histories>>

\* add_subfile() tries until it is not refused.
list_partition(c) ==
    /\ At(c, "entry")
    /\ LET i == Named(c) IN
       \/ /\ i \in indexDirs /\ i \notin partEntry
          /\ partEntry' = partEntry \cup {i}
          /\ IF call[c].failed THEN Goto(c, "roll back") /\ Keep ELSE Return(c, "OK")
       \/ /\ i \notin indexDirs \/ i \in partEntry
          /\ Failing(c)
          /\ UNCHANGED partEntry
    /\ UNCHANGED <<imVars, listed, vsfsDirs, indexDirs, partRecord, Env, histories>>

roll_back_partition(c) ==
    /\ At(c, "roll back")
    /\ partRecord' = partRecord \ {Named(c)}
    /\ IF Named(c) \in partRecord THEN Return(c, "OK") ELSE Goto(c, "rmdir") /\ Keep
    /\ UNCHANGED <<imVars, listed, vsfsDirs, indexDirs, partEntry, Env, histories>>

\* rmdir() of the index directory.  The name was never added to "<root>/.vsfs",
\* and remove_subfile() tries until it is not refused.
remove_index_dir(c) ==
    /\ At(c, "rmdir")
    /\ LET i == Named(c) IN
       IF i \in indexDirs /\ i \notin partEntry
       THEN indexDirs' = indexDirs \ {i} /\ Goto(c, "spin") /\ Keep
       ELSE Undo(c, "succeed") /\ UNCHANGED indexDirs
    /\ UNCHANGED <<imVars, listed, vsfsDirs, partRecord, partEntry, Env, histories>>

-----------------------------------------------------------------------------
(* remove_index(), a command and a rollback: the name stays on the master,
   and remove_index() of the index server does nothing *)

Undone(c, status) ==
    CASE call[c].then = "return"    -> Return(c, status)
      [] call[c].then = "partition" -> Partition(c)
      [] call[c].then = "succeed"   -> Return(c, "OK")

remove_index(c) ==
    /\ At(c, "undo")
    /\ CASE Named(c) \notin indexDirs -> Undone(c, "error")
         [] Named(c) \in indexDirs \ partEntry -> Undone(c, "OK")
         [] Named(c) \in indexDirs \cap partEntry -> Goto(c, "undo entry") /\ Keep
    /\ UNCHANGED <<imVars, masters, Env, histories>>

\* unlink() of the partition.
unlink_entry(c) ==
    /\ At(c, "undo entry")
    /\ LET i == Named(c) IN
       \/ /\ i \in indexDirs \cap partEntry
          /\ partEntry' = partEntry \ {i}
          /\ IF call[c].failed THEN Undone(c, "OK") ELSE Goto(c, "undo record") /\ Keep
       \/ /\ i \notin indexDirs \cap partEntry
          /\ Failing(c)
          /\ UNCHANGED partEntry
    /\ UNCHANGED <<imVars, listed, vsfsDirs, indexDirs, partRecord, Env, histories>>

unlink_record(c) ==
    /\ At(c, "undo record")
    /\ partRecord' = partRecord \ {Named(c)}
    /\ Undone(c, "OK")
    /\ UNCHANGED <<imVars, listed, vsfsDirs, indexDirs, partEntry, Env, histories>>

-----------------------------------------------------------------------------
(* update(): one IndexUpdateTask *)

\* The requests of the batch that is being sent.
Reqs(cmd, batch) == cmd.batches[batch]
DirsOf(cmd, batch) == {DirOf[r.file] : r \in Range(Reqs(cmd, batch))}
FilesOf(c) == {r.file : r \in Range(Reqs(call[c].cmd, call[c].batch))}

Climb(cmd, batch, dirs, target) ==
    LET dir == CHOOSE d \in dirs : TRUE
    IN  [at |-> "climb", cmd |-> cmd, batch |-> batch, dirs |-> dirs, dir |-> dir, tmp |-> dir,
         target |-> target]

\* get_parent_path_to_index_path_map(): from the directory of a file upwards,
\* to the first that has the index.  A task that fails ends the client: its
\* status is taken from its future twice.
climb(c) ==
    /\ At(c, "climb")
    /\ LET here == {i \in indexDirs : i.root = call[c].tmp /\ i.name = call[c].cmd.name}
           target == call[c].target \cup ({call[c].dir} \X here)
           rest == call[c].dirs \ {call[c].dir}
       IN  CASE here # {} /\ rest # {} -> Becomes(c, Climb(call[c].cmd, call[c].batch, rest, target)) /\ Keep
             [] here # {} /\ rest = {} ->
                    /\ Becomes(c, [at |-> "resolve", cmd |-> call[c].cmd, batch |-> call[c].batch,
                                   target |-> target, ids |-> {},
                                   left |-> {MasterOf[f] : f \in FilesOf(c)}])
                    /\ Keep
             [] here = {} /\ call[c].tmp # Root ->
                    Becomes(c, [call[c] EXCEPT !.tmp = Up[call[c].tmp]]) /\ Keep
             [] here = {} /\ call[c].tmp = Root -> Return(c, "died")
    /\ UNCHANGED <<imVars, masters, Env, histories>>

\* The index that the requests about a file go to, and those of one server.
TargetOf(target, f) == (CHOOSE p \in target : p[1] = DirOf[f])[2]
ListsOn(target, s) == {p[2] : p \in {q \in target : home[q[2]] = s}}
Send(c, ids, servers) ==
    [at |-> "send", cmd |-> call[c].cmd, batch |-> call[c].batch, target |-> call[c].target,
     ids |-> ids, left |-> servers, lists |-> ListsOn(call[c].target, Min(servers)),
     bad |-> FALSE]

\* find_objects(), one master after the other.
find_objects(c) ==
    /\ At(c, "resolve")
    /\ LET m == Min(call[c].left)
           rest == call[c].left \ {m}
           here == {f \in FilesOf(c) : MasterOf[f] = m}
           ids == call[c].ids \cup {<<f, IF f \in files THEN f ELSE NoObject>> : f \in here}
       IN  Becomes(c, IF rest # {} THEN [call[c] EXCEPT !.left = rest, !.ids = ids]
                      ELSE Send(c, ids, {home[p[2]] : p \in call[c].target}))
    /\ Keep
    /\ UNCHANGED <<imVars, masters, Env, histories>>

\* The record updates for an index, in the places of the requests.
OpsFor(c, i) ==
    LET reqs == Reqs(call[c].cmd, call[c].batch)
        asked == {j \in DOMAIN reqs : TargetOf(call[c].target, reqs[j].file) = i}
    IN  [j \in asked |-> [key |-> reqs[j].key,
                          id |-> (CHOOSE p \in call[c].ids : p[1] = reqs[j].file)[2]]]
InsertionsOf(i, records) ==
    {[index |-> i, key |-> r.key, file |-> r.id] : r \in {q \in records : q.id # NoObject}}
Asked(ops) == {[key |-> ops[j].key, id |-> ops[j].id] : j \in DOMAIN ops} \cap Record

\* The batch is done: the next one is sent, and after the last one a line that
\* is malformed fails the command.
Status(cmd) == IF cmd.malformed THEN "error" ELSE "OK"
NextBatch(c) ==
    LET cmd == call[c].cmd
        next == call[c].batch + 1
    IN  IF next > Len(cmd.batches) THEN Return(c, Status(cmd))
        ELSE Becomes(c, Climb(cmd, next, DirsOf(cmd, next), {})) /\ Keep
BatchDone(c) ==
    IF call'[c] = Idle THEN answer'.status # "died" ELSE call'[c].at = "climb"

\* Mutant: only the status of the last list counts.
Sent_last(c, i, status) ==
    LET lists == call[c].lists \ {i}
        rest == IF lists = {} THEN call[c].left \ {home[i]} ELSE call[c].left
        bad == status # "OK"
    IN  CASE lists = {} /\ bad -> Return(c, "died")
          [] lists = {} /\ ~bad /\ rest = {} -> NextBatch(c)
          [] lists = {} /\ ~bad /\ rest # {} ->
                 Becomes(c, Send(c, call[c].ids, rest)) /\ Keep
          [] lists # {} -> Becomes(c, [call[c] EXCEPT !.lists = lists, !.bad = bad]) /\ Keep

\* Mutant: the batch ends with the first server.
Sent_first(c, i, status) ==
    LET lists == call[c].lists \ {i}
        bad == call[c].bad \/ status # "OK"
    IN  CASE lists = {} /\ bad -> Return(c, "died")
          [] lists = {} /\ ~bad -> NextBatch(c)
          [] lists # {} -> Becomes(c, [call[c] EXCEPT !.lists = lists, !.bad = bad]) /\ Keep

\* One list is done: a server answers when all its lists are, and a failure
\* there keeps the updates from the servers that are left.
Sent(c, i, status) ==
    LET lists == call[c].lists \ {i}
        rest == IF lists = {} THEN call[c].left \ {home[i]} ELSE call[c].left
        bad == call[c].bad \/ status # "OK"
    IN  CASE lists = {} /\ bad -> Return(c, "died")
          [] lists = {} /\ ~bad /\ rest = {} -> NextBatch(c)
          [] lists = {} /\ ~bad /\ rest # {} ->
                 Becomes(c, Send(c, call[c].ids, rest)) /\ Keep
          [] lists # {} -> Becomes(c, [call[c] EXCEPT !.lists = lists, !.bad = bad]) /\ Keep

\* What a list does to the insertions in force; update() acknowledges all that
\* it was asked to insert when it returns OK.
Happens(c, i, kind, ops) ==
    IF kind = "REMOVE" THEN Forget(InsertionsOf(i, RecordsOf(ops))) /\ UNCHANGED ever
    ELSE LET asked == {a \in InsertionsOf(i, Asked(ops)) : a.file \in files}
             made == mine[c] \cup asked
         IN
         /\ ever' = IF served[i] = NoIndex THEN ever
                    ELSE ever \cup InsertionsOf(i, RecordsOf(ops))
         /\ mine' = [mine EXCEPT ![c] = IF call'[c] = Idle \/ BatchDone(c) THEN {} ELSE made]
         /\ acked' = IF BatchDone(c) THEN acked \cup made ELSE acked
         /\ UNCHANGED due

LostWith(s) == {a \in ever : home[a.index] = s}
ServerDies(c, i, status) ==
    /\ ReadsMovingMap(i)
    /\ Crash(home[i])
    /\ Return(c, status)
    /\ LET lost == LostWith(home[i]) IN
       /\ acked' = acked \ lost
       /\ mine' = [d \in Client |-> IF d = c THEN {} ELSE mine[d] \ lost]
       /\ due' = [d \in Client |-> IF d = c THEN {} ELSE due[d] \ lost]
    /\ UNCHANGED ever

\* Each list has a thread of its own on its server.
update(c) ==
    /\ At(c, "send")
    /\ LET kind == call[c].cmd.kind IN
       \E i \in call[c].lists :
        LET ops == OpsFor(c, i) IN
        \/ \E status \in {"OK", "ENOENT", "EINVAL"} :
            /\ update_single_index(i, kind, ops, status)
            /\ Sent(c, i, status) \/ Unreachable(c, "died")
            /\ Happens(c, i, kind, ops)
        \/ Unreachable(c, "died") /\ UNCHANGED imVars /\ Happens(c, i, kind, <<>>)
        \/ ServerDies(c, i, "died")
    /\ UNCHANGED <<masters, Env>>

-----------------------------------------------------------------------------
(* search() *)

Matches(i, cmd) ==
    /\ <<cmd.path.root, i.root>> \in StartsWith
    /\ i.name \in get_names_of_range_queries(cmd.query)

\* The insertions that were due when a search began are due no more.
Over(c) == due' = [due EXCEPT ![c] = {}] /\ UNCHANGED <<acked, mine, ever>>

\* search() returns OK: the listing of a query goes on with each file.
Searched(c, found) ==
    IF call[c].cmd.op = "search" \/ found = {} THEN ReturnFound(c, "OK", found) /\ Over(c)
    ELSE /\ Becomes(c, [at |-> "getattrs", cmd |-> call[c].cmd, left |-> found, found |-> found])
         /\ Keep
         /\ UNCHANGED histories

\* The masters are asked one after the other, and answer from their listings.
Located(c, indices) ==
    LET m == Min(call[c].left) IN
    [call[c] EXCEPT !.left = @ \ {m}, !.hits = @ \cup {i \in indices : IndexMaster[i] = m}]
Locating(cmd) == [at |-> "locate", cmd |-> cmd, left |-> Master, hits |-> {}]

locate_index_for_search(c) ==
    /\ At(c, "locate")
    /\ LET next == Located(c, {i \in listed : Matches(i, call[c].cmd)}) IN
       CASE next.left # {} -> Becomes(c, next) /\ Keep /\ UNCHANGED histories
         [] next.left = {} /\ next.hits = {} -> Searched(c, {})
         [] next.left = {} /\ next.hits # {} ->
                /\ Becomes(c, [at |-> "ask", cmd |-> call[c].cmd, hits |-> next.hits,
                               objects |-> {}])
                /\ Keep
                /\ UNCHANGED histories
    /\ UNCHANGED <<imVars, masters, Env>>

\* gen_search_plan(): the partitions, server by server.
NextHit(hits) ==
    LET s == Min({home[i] : i \in hits}) IN CHOOSE i \in hits : home[i] = s
MasterOfId(o) == IF o = NoObject THEN Min(Master) ELSE MasterOf[o]
Paths(cmd, objects) ==
    [at |-> "paths", cmd |-> cmd, objects |-> objects,
     left |-> {MasterOfId(o) : o \in objects}, found |-> {}]

\* Any index that its server does not know fails the whole search.
search_server(c) ==
    /\ At(c, "ask")
    /\ LET i == NextHit(call[c].hits)
           rest == call[c].hits \ {i}
       IN  \/ /\ served[i] # NoIndex
              /\ LET objects == call[c].objects \cup search(i, range_query(call[c].cmd.query, i.name)) IN
                 IF rest = {} /\ objects = {} THEN Searched(c, {})
                 ELSE /\ Becomes(c, IF rest = {} THEN Paths(call[c].cmd, objects)
                                    ELSE [call[c] EXCEPT !.hits = rest, !.objects = objects])
                      /\ Keep
                      /\ UNCHANGED histories
              /\ UNCHANGED imVars
           \/ /\ served[i] = NoIndex \/ faulty
              /\ Return(c, "error") /\ Over(c)
              /\ UNCHANGED imVars
           \/ ServerDies(c, i, "error")
    /\ UNCHANGED <<masters, Env>>

\* get_file_paths_from_objects(): an id without a file has an empty path.
find_files(c) ==
    /\ At(c, "paths")
    /\ LET m == Min(call[c].left)
           rest == call[c].left \ {m}
           here == {o \in call[c].objects : MasterOfId(o) = m}
           found == call[c].found \cup {IF o \in files THEN o ELSE NoPath : o \in here}
       IN  IF rest = {} THEN Searched(c, found)
           ELSE /\ Becomes(c, [call[c] EXCEPT !.left = rest, !.found = found])
                /\ Keep
                /\ UNCHANGED histories
    /\ UNCHANGED <<imVars, masters, Env>>

getattr(path) == path \in Dir \cup files

\* vsfs_readdir() of a query: a file that is not there fails the listing.
readdir_getattr(c) ==
    /\ At(c, "getattrs")
    /\ \E f \in call[c].left :
        LET rest == call[c].left \ {f} IN
        CASE ~getattr(f) -> Return(c, "error") /\ Over(c)
          [] getattr(f) /\ rest = {} -> ReturnFound(c, "OK", call[c].found) /\ Over(c)
          [] getattr(f) /\ rest # {} ->
                 Becomes(c, [call[c] EXCEPT !.left = rest]) /\ Keep /\ UNCHANGED histories
    /\ UNCHANGED <<imVars, masters, Env>>

-----------------------------------------------------------------------------
(* print_index_info() and get_index_infos() *)

\* The entries of a directory, without its ".vsfs".
Subfiles(dir) == {d \in Dir \ {Root} : Up[d] = dir} \cup {f \in files : DirOf[f] = dir}

\* Go on in the directory that was entered last, or with its indices.
Resume(cmd, stack) ==
    LET top == Head(stack) IN
    IF top.left # {} THEN [at |-> "subfiles", cmd |-> cmd, stack |-> stack]
    ELSE [at |-> "infos", cmd |-> cmd, stack |-> Tail(stack), dir |-> top.dir,
          left |-> Master, hits |-> {}]
Listed(c) ==
    IF call[c].stack = <<>> THEN Return(c, "OK")
    ELSE Becomes(c, Resume(call[c].cmd, call[c].stack)) /\ Keep

list_subfiles(c) ==
    /\ At(c, "readdir")
    /\ LET dir == call[c].dir IN
       IF dir \notin Dir THEN Return(c, "error")
       ELSE /\ Becomes(c, Resume(call[c].cmd,
                                 <<[dir |-> dir, left |-> Subfiles(dir)]>> \o call[c].stack))
            /\ Keep
    /\ UNCHANGED <<imVars, masters, Env, histories>>

\* The path of an entry of "/" begins with "//", and has no record.
getattr_subfile(c) ==
    /\ At(c, "subfiles")
    /\ LET top == Head(call[c].stack) IN
       \E path \in top.left :
        LET stack == <<[top EXCEPT !.left = @ \ {path}]>> \o Tail(call[c].stack) IN
        CASE top.dir = Root \/ ~getattr(path) -> Return(c, "error")
          [] top.dir # Root /\ path \in files -> Becomes(c, Resume(call[c].cmd, stack)) /\ Keep
          [] top.dir # Root /\ path \in Dir ->
                 /\ Becomes(c, [at |-> "readdir", cmd |-> call[c].cmd, dir |-> path,
                                stack |-> stack])
                 /\ Keep
    /\ UNCHANGED <<imVars, masters, Env, histories>>

get_index_infos(c) ==
    /\ At(c, "infos")
    /\ LET next == Located(c, {i \in listed : i.root = call[c].dir}) IN
       CASE next.left # {} -> Becomes(c, next) /\ Keep
         [] next.left = {} /\ next.hits = {} -> Listed(c)
         [] next.left = {} /\ next.hits # {} ->
                Becomes(c, [next EXCEPT !.at = "info"]) /\ Keep
    /\ UNCHANGED <<imVars, masters, Env, histories>>

info_server(c) ==
    /\ At(c, "info")
    /\ LET i == NextHit(call[c].hits)
           rest == call[c].hits \ {i}
       IN  \/ /\ info(i, "OK")
              /\ IF rest # {} THEN Becomes(c, [call[c] EXCEPT !.hits = rest]) /\ Keep
                 ELSE Listed(c)
              /\ UNCHANGED <<imVars, histories>>
           \/ /\ info(i, "ENOENT") \/ faulty
              /\ Return(c, "error")
              /\ UNCHANGED <<imVars, histories>>
           \/ ServerDies(c, i, "error")
    /\ UNCHANGED <<masters, Env>>

-----------------------------------------------------------------------------
(* Commands *)

\* Those of the command line tool, and the listings of queries through the
\* mount, which search for what could be parsed of them.
Parsed == [c \in Client |-> [line \in CommandLines[c] |-> create_command(line)]]
Queried ==
    [c \in Client |-> [path \in Listings[c] |-> [op |-> "readdir", path |-> path, query |-> parse(path)]]]
Commands == UNION {Range(Parsed[c]) \cup LibraryCalls[c] \cup Range(Queried[c]) : c \in Client}

\* The commands name indices of Index, files of File and directories, and no
\* batch is sent that is empty.
ASSUME CommandAssumption ==
    \A cmd \in Commands :
        /\ cmd.op \in {"usage", "help", "create", "destroy", "update", "list", "search", "readdir"}
        /\ cmd.op \in {"create", "destroy"} => cmd.index \in Index
        /\ cmd.op = "list" => cmd.root \in Dir \cup File
        /\ cmd.op = "update" =>
             /\ cmd.batches \in Seq(Seq([file : File, key : Nat]))
             /\ cmd.batches = <<<<>>>> \/ \A n \in DOMAIN cmd.batches : cmd.batches[n] # <<>>

\* The range that is made of a query for an index selects the keys that satisfy
\* the query: so it does if the query compares one field, and each end once.
Understood ==
    \A cmd \in Commands :
        cmd.op \in {"search", "readdir"} /\ cmd.query.ok /\ Plain(cmd.path) =>
            \A name \in get_names_of_range_queries(cmd.query), key \in Key :
                LET selected == Selected(key, range_query(cmd.query, name)) IN
                /\ selected => Satisfies(key, cmd.path)
                /\ Satisfies(key, cmd.path) /\ Regular(key, cmd.path) => selected

\* The batches of an update have its records: so they do if every file is named
\* in FileOrder.
SentInFull ==
    \A cmd \in Commands : cmd.op = "update" /\ ~cmd.malformed =>
        \A r \in cmd.records : \E n \in DOMAIN cmd.batches :
            [file |-> r[1], key |-> r[2]] \in Range(cmd.batches[n])

\* run() of each command, up to its first call.
create_run(cmd) == [at |-> "getattr", cmd |-> cmd]
destroy_run(cmd) == [at |-> "undo", cmd |-> cmd, then |-> "return", failed |-> FALSE]
update_run(cmd) == Climb(cmd, 1, DirsOf(cmd, 1), {})
list_run(cmd) ==
    IF cmd.recursive THEN [at |-> "readdir", cmd |-> cmd, dir |-> cmd.root, stack |-> <<>>]
    ELSE Resume(cmd, <<[dir |-> cmd.root, left |-> {}]>>)
run(cmd) ==
    CASE cmd.op = "create"  -> create_run(cmd)
      [] cmd.op = "destroy" -> destroy_run(cmd)
      [] cmd.op = "update"  -> update_run(cmd)
      [] cmd.op = "list"    -> list_run(cmd)
      [] cmd.op \in {"search", "readdir"} -> Locating(cmd)

\* A command that makes no call: its line is refused, it prints help, its query
\* cannot be parsed, or it has nothing to send.
help_run(cmd) == IF cmd.topic \in {"search", "index"} THEN "OK" ELSE "error"
Ends(cmd) ==
    CASE cmd.op = "usage" -> "error"
      [] cmd.op = "help" -> help_run(cmd)
      [] cmd.op = "search" /\ ~cmd.query.ok -> "error"
      [] cmd.op = "update" /\ cmd.batches \in {<<>>, <<<<>>>>} -> Status(cmd)
      [] OTHER -> "none"

\* The insertions that a search has to find.
Due(cmd) ==
    IF cmd.op \notin {"search", "readdir"} \/ ~cmd.query.ok \/ ~Plain(cmd.path) THEN {}
    ELSE {a \in acked : /\ Matches(a.index, cmd)
                        /\ Satisfies(a.key, cmd.path)
                        /\ Regular(a.key, cmd.path)}

Begin(c, cmd) ==
    /\ call[c] = Idle
    /\ given < MaxCommands
    /\ given' = given + 1
    /\ IF Ends(cmd) # "none" THEN Return(c, Ends(cmd)) /\ UNCHANGED due
       ELSE Becomes(c, run(cmd)) /\ Keep /\ due' = [due EXCEPT ![c] = Due(cmd)]
    /\ UNCHANGED <<imVars, masters, files, faulty, acked, mine, ever>>

\* main() of the command line tool.
main(c, line) == Begin(c, Parsed[c][line])

\* An application calls the library.
Vsfs(c, cmd) == Begin(c, cmd)

\* readdir() of a query through the mount.
vsfs_readdir(c, path) == is_query(path) /\ Begin(c, Queried[c][path])

Step(c) ==
    \/ create_index(c) \/ create_on_server(c) \/ created_on_server(c) \/ make_vsfs_dir(c)
    \/ insert_name(c) \/ make_index_dir(c) \/ create_partition(c) \/ list_partition(c)
    \/ roll_back_partition(c) \/ remove_index_dir(c)
    \/ remove_index(c) \/ unlink_entry(c) \/ unlink_record(c)
    \/ climb(c) \/ find_objects(c) \/ update(c)
    \/ locate_index_for_search(c) \/ search_server(c) \/ find_files(c) \/ readdir_getattr(c)
    \/ list_subfiles(c) \/ getattr_subfile(c) \/ get_index_infos(c) \/ info_server(c)

\* Other users create and unlink files.
CreateFile(f) ==
    /\ f \in Volatile \ files
    /\ files' = files \cup {f}
    /\ Keep
    /\ UNCHANGED <<imVars, masters, given, call, faulty, histories>>
UnlinkFile(f) ==
    /\ f \in Volatile \cap files
    /\ files' = files \ {f}
    /\ Forget({a \in ever : a.file = f})
    /\ Keep
    /\ UNCHANGED <<imVars, masters, given, call, faulty, ever>>

Restart(s) ==
    /\ faulty
    /\ Crash(s)
    /\ Forget(LostWith(s))
    /\ Keep
    /\ UNCHANGED <<masters, Env, call, ever>>

\* Some indices are there already.
Init ==
    /\ listed \in Existing
    /\ indexDirs = listed /\ partRecord = listed /\ partEntry = listed
    /\ vsfsDirs = {i.root : i \in listed}
    /\ home \in Placement
    /\ served = [i \in Index |-> IF i \in listed THEN {} ELSE NoIndex]
    /\ lock = [s \in Server |-> Unlocked]
    /\ gone = {}
    /\ files = File
    /\ given = 0
    /\ call = [c \in Client |-> Idle]
    /\ answer = NoAnswer
    /\ faulty \in BOOLEAN
    /\ acked = {} /\ ever = {}
    /\ mine = [c \in Client |-> {}] /\ due = [c \in Client |-> {}]

Next ==
    \/ \E c \in Client : \/ Step(c)
                        \/ \E line \in CommandLines[c] : main(c, line)
                        \/ \E cmd \in LibraryCalls[c] : Vsfs(c, cmd)
                        \/ \E path \in Listings[c] : vsfs_readdir(c, path)
    \/ \E f \in File : CreateFile(f) \/ UnlinkFile(f)
    \/ \E s \in Server : Restart(s)

Spec == Init /\ [][Next]_vars

-----------------------------------------------------------------------------
(* Properties *)

\* An index that a master lists is known to its index server, unless that lost
\* it in a crash or never kept it, as it keeps no hash index: create_index()
\* goes to the index server first, and only then is the index listed, so that a
\* search is not failed by an index that somebody is just creating.
ListedIsServed == \A i \in listed : served[i] # NoIndex \/ i \in gone

SearchEnds(c) ==
    /\ call[c].at \in {"locate", "ask", "paths", "getattrs"}
    /\ call[c].cmd.query.ok /\ Plain(call[c].cmd.path)
    /\ call'[c] = Idle /\ answer'.status = "OK"

\* A search, or the listing of a query, that returns OK has found every file whose
\* insertion, into an index at or below the root of the query, was acknowledged
\* before it began and not withdrawn since, if its key satisfies the query.
SearchComplete ==
    [][\A c \in Client : SearchEnds(c) => {a.file : a \in due[c]} \subseteq answer'.found]_vars

\* And it has found no file but those that were inserted, in such an index,
\* with a key that satisfies the query.
SearchSound ==
    [][\A c \in Client : SearchEnds(c) =>
         \A f \in answer'.found \ {NoPath} : \E a \in ever :
            /\ a.file = f
            /\ Matches(a.index, call[c].cmd)
            /\ Satisfies(a.key, call[c].cmd.path)]_vars

\* An insertion that returns OK has inserted every record that it was given, in
\* its words or through stdin, where what is left over after the last full
\* batch is sent as well (but a file that somebody unlinks meanwhile has no id).
UpdateEnds(c) ==
    /\ call[c].at = "send" /\ call[c].cmd.kind \in {"INSERT", "UPDATE"}
    /\ call'[c] = Idle /\ answer'.status = "OK"
UpdateSendsAll ==
    [][\A c \in Client : UpdateEnds(c) =>
         \A r \in call[c].cmd.records :
            r[1] \notin Volatile => \E a \in ever' : a.file = r[1] /\ a.key = r[2]]_vars

\* Unless a server crashed or a store failed, or a hash index was asked for, no
\* create_index() is stuck in a call that it repeats until it succeeds: the
\* index server lets only one of them go on, and so the directory of the index
\* stays and its partition is listed once.
Stuck(c) ==
    \/ At(c, "spin")
    \/ At(c, "entry") /\ (Named(c) \notin indexDirs \/ Named(c) \in partEntry)
NeverStuck == faulty \/ gone # {} \/ \A c \in Client : ~Stuck(c)
=============================================================================
