-------------------------- MODULE IndexClientProofs --------------------------
(***************************************************************************)
(* Proofs about IndexClient.tla, for any directories, files, indices,      *)
(* clients, masters, index servers and commands.                           *)
(***************************************************************************)
EXTENDS IndexClient, WellFoundedInduction, TLAPS

\* Leaves are for Zenon, unless they name SMT.
USE Zenon

(***************************************************************************)
(* What a client holds at each place of an operation                       *)
(***************************************************************************)

IndexCmd == {cmd \in Commands : cmd.op \in {"create", "destroy"}}
UpdateCmd ==
    {cmd \in Commands : /\ cmd.op = "update"
                        /\ \A n \in DOMAIN cmd.batches : cmd.batches[n] # <<>>}
SearchCmd == {cmd \in Commands : cmd.op \in {"search", "readdir"}}
ListCmd == {cmd \in Commands : cmd.op = "list"}
Object == File \cup {NoObject}
Found == File \cup {NoPath}
Target == SUBSET (Dir \X Index)

Creating == {"getattr", "server", "filling", "mkdir", "insert", "dir"}
Partitioning == {"record", "entry", "roll back", "rmdir", "spin"}
Undoing == {"undo", "undo entry", "undo record"}

\* What is asked of a batch: an index for the directory of each file, and the id
\* of each file.
FilesIn(k) == {r.file : r \in Range(Reqs(k.cmd, k.batch))}
Covers(target, f) == \E p \in target : p[1] = DirOf[f]
Identified(ids, f) == \E p \in ids : p[1] = f
Ids == {ids \in SUBSET (File \X Object) : \A p \in ids : p[1] \notin Volatile => p[2] = p[1]}

CreateCall ==
    {k \in [at : Creating, cmd : IndexCmd] : k.at # "getattr" => k.cmd.index.root \in Dir}
PartitionCall == [at : Partitioning, cmd : IndexCmd, failed : BOOLEAN]
UndoCall == [at : Undoing, cmd : IndexCmd, then : {"return", "partition", "succeed"},
             failed : BOOLEAN]
ClimbCall ==
    {k \in [at : {"climb"}, cmd : UpdateCmd, batch : Nat, dirs : SUBSET Dir, dir : Dir,
            tmp : Dir, target : Target] :
        /\ k.batch \in DOMAIN k.cmd.batches /\ k.dir \in k.dirs
        /\ \A f \in FilesIn(k) : DirOf[f] \in k.dirs \/ Covers(k.target, f)}
ResolveCall ==
    {k \in [at : {"resolve"}, cmd : UpdateCmd, batch : Nat, target : Target, ids : Ids,
            left : SUBSET Master] :
        /\ k.batch \in DOMAIN k.cmd.batches /\ k.left # {}
        /\ \A f \in FilesIn(k) : Covers(k.target, f)
        /\ \A f \in FilesIn(k) : MasterOf[f] \in k.left \/ Identified(k.ids, f)}
SendCall ==
    {k \in [at : {"send"}, cmd : UpdateCmd, batch : Nat, target : Target, ids : Ids,
            left : SUBSET Server, lists : SUBSET Index, bad : BOOLEAN] :
        /\ k.batch \in DOMAIN k.cmd.batches /\ k.left # {}
        /\ \A f \in FilesIn(k) : Covers(k.target, f) /\ Identified(k.ids, f)
        /\ \A i \in k.lists : \E p \in k.target : p[2] = i}
LocateCall ==
    {k \in [at : {"locate"}, cmd : SearchCmd, left : SUBSET Master, hits : SUBSET Index] :
        k.left # {} /\ \A i \in k.hits : Matches(i, k.cmd)}
AskCall ==
    {k \in [at : {"ask"}, cmd : SearchCmd, hits : SUBSET Index, objects : SUBSET Object] :
        k.hits # {} /\ \A i \in k.hits : Matches(i, k.cmd)}
PathsCall ==
    {k \in [at : {"paths"}, cmd : SearchCmd, objects : SUBSET Object, left : SUBSET Master,
            found : SUBSET Found] : k.left # {}}
GetattrsCall == [at : {"getattrs"}, cmd : SearchCmd, left : SUBSET Found, found : SUBSET Found]
Entered == [dir : Dir \cup File, left : SUBSET (Dir \cup File)]
ReaddirCall == [at : {"readdir"}, cmd : ListCmd, dir : Dir \cup File, stack : Seq(Entered)]
SubfilesCall ==
    {k \in [at : {"subfiles"}, cmd : ListCmd, stack : Seq(Entered)] : k.stack # <<>>}
InfosCall ==
    {k \in [at : {"infos", "info"}, cmd : ListCmd, stack : Seq(Entered), dir : Dir \cup File,
            left : SUBSET Master, hits : SUBSET Index] : k.at = "info" => k.hits # {}}

CallOK(k) ==
    /\ k.at \in Creating \cup Partitioning \cup Undoing
                \cup {"idle", "climb", "resolve", "send", "locate", "ask", "paths", "getattrs",
                      "readdir", "subfiles", "infos", "info"}
    /\ k.at = "idle" => k = Idle
    /\ k.at \in Creating => k \in CreateCall
    /\ k.at \in Partitioning => k \in PartitionCall
    /\ k.at \in Undoing => k \in UndoCall
    /\ k.at = "climb" => k \in ClimbCall
    /\ k.at = "resolve" => k \in ResolveCall
    /\ k.at = "send" => k \in SendCall
    /\ k.at = "locate" => k \in LocateCall
    /\ k.at = "ask" => k \in AskCall
    /\ k.at = "paths" => k \in PathsCall
    /\ k.at = "getattrs" => k \in GetattrsCall
    /\ k.at = "readdir" => k \in ReaddirCall
    /\ k.at = "subfiles" => k \in SubfilesCall
    /\ k.at \in {"infos", "info"} => k \in InfosCall
CallsTyped == call = [c \in Client |-> call[c]] /\ \A c \in Client : CallOK(call[c])

\* A record of each kind is what a client may hold.
LEMMA Kinds ==
    /\ CallOK(Idle)
    /\ \A k \in CreateCall : CallOK(k)
    /\ \A k \in PartitionCall : CallOK(k)
    /\ \A k \in UndoCall : CallOK(k)
    /\ \A k \in ClimbCall : CallOK(k)
    /\ \A k \in ResolveCall : CallOK(k)
    /\ \A k \in SendCall : CallOK(k)
    /\ \A k \in LocateCall : CallOK(k)
    /\ \A k \in AskCall : CallOK(k)
    /\ \A k \in PathsCall : CallOK(k)
    /\ \A k \in GetattrsCall : CallOK(k)
    /\ \A k \in ReaddirCall : CallOK(k)
    /\ \A k \in SubfilesCall : CallOK(k)
    /\ \A k \in InfosCall : CallOK(k)
<1>. USE DEF CallOK, Creating, Partitioning, Undoing
<1>1. CallOK(Idle) BY DEF Idle
<1>2. \A k \in CreateCall : CallOK(k) BY DEF CreateCall
<1>3. \A k \in PartitionCall : CallOK(k) BY DEF PartitionCall
<1>4. \A k \in UndoCall : CallOK(k) BY DEF UndoCall
<1>5. \A k \in ClimbCall : CallOK(k) BY DEF ClimbCall
<1>6. \A k \in ResolveCall : CallOK(k) BY DEF ResolveCall
<1>7. \A k \in SendCall : CallOK(k) BY DEF SendCall
<1>8. \A k \in LocateCall : CallOK(k) BY DEF LocateCall
<1>9. \A k \in AskCall : CallOK(k) BY DEF AskCall
<1>10. \A k \in PathsCall : CallOK(k) BY DEF PathsCall
<1>11. \A k \in GetattrsCall : CallOK(k) BY DEF GetattrsCall
<1>12. \A k \in ReaddirCall : CallOK(k) BY DEF ReaddirCall
<1>13. \A k \in SubfilesCall : CallOK(k) BY DEF SubfilesCall
<1>14. \A k \in InfosCall : CallOK(k) BY DEF InfosCall
<1>. HIDE DEF CallOK
<1>. QED BY <1>1, <1>2, <1>3, <1>4, <1>5, <1>6, <1>7, <1>8, <1>9, <1>10, <1>11, <1>12, <1>13, <1>14

\* What a client does moves it alone.
LEMMA Moved ==
    ASSUME CallsTyped, NEW c \in Client, NEW new, call' = [call EXCEPT ![c] = new]
    PROVE  /\ call'[c] = new /\ \A d \in Client \ {c} : call'[d] = call[d]
           /\ CallOK(new) => CallsTyped'
BY DEF CallsTyped

\* Between two calls, a client keeps what it holds.
LEMMA Gone ==
    /\ \A k \in CreateCall, w \in Creating :
         k.cmd.index.root \in Dir => [k EXCEPT !.at = w] \in CreateCall
    /\ \A k \in PartitionCall, w \in Partitioning :
         [k EXCEPT !.at = w] \in PartitionCall /\ [k EXCEPT !.failed = TRUE] \in PartitionCall
    /\ \A k \in UndoCall, w \in Undoing :
         [k EXCEPT !.at = w] \in UndoCall /\ [k EXCEPT !.failed = TRUE] \in UndoCall
<1>1. \A k \in CreateCall, w \in Creating :
        k.cmd.index.root \in Dir => [k EXCEPT !.at = w] \in CreateCall
  BY DEF CreateCall
<1>2. \A k \in PartitionCall, w \in Partitioning :
        [k EXCEPT !.at = w] \in PartitionCall /\ [k EXCEPT !.failed = TRUE] \in PartitionCall
  BY DEF PartitionCall
<1>3. \A k \in UndoCall, w \in Undoing :
         [k EXCEPT !.at = w] \in UndoCall /\ [k EXCEPT !.failed = TRUE] \in UndoCall
  BY DEF UndoCall
<1>. QED BY <1>1, <1>2, <1>3

(***************************************************************************)
(* Types                                                                   *)
(***************************************************************************)

MastersTyped ==
    /\ listed \subseteq Index /\ indexDirs \subseteq Index
    /\ partRecord \subseteq Index /\ partEntry \subseteq Index
    /\ vsfsDirs \subseteq Dir
HistoriesTyped ==
    /\ acked \subseteq Insertion /\ ever \subseteq Insertion
    /\ mine \in [Client -> SUBSET Insertion] /\ due \in [Client -> SUBSET Insertion]
EnvTyped ==
    /\ files \subseteq File /\ File \ Volatile \subseteq files
    /\ given \in 0 .. MaxCommands /\ faulty \in BOOLEAN
Answer == [status : {"none", "OK", "error", "died"}, found : SUBSET Found]

Typed ==
    /\ IndexManagerTypeOK /\ MastersTyped /\ EnvTyped /\ answer \in Answer /\ HistoriesTyped
    /\ CallsTyped

\* The commands in progress name what they should.
LEMMA CommandsAre ==
    /\ \A cmd \in IndexCmd : cmd.index \in Index
    /\ \A cmd \in UpdateCmd : cmd.batches \in Seq(Seq([file : File, key : Nat]))
    /\ \A cmd \in ListCmd : cmd.root \in Dir \cup File
<1>1. \A cmd \in IndexCmd : cmd.index \in Index BY CommandAssumption DEF IndexCmd
<1>2. \A cmd \in UpdateCmd : cmd.batches \in Seq(Seq([file : File, key : Nat]))
  BY CommandAssumption DEF UpdateCmd
<1>3. \A cmd \in ListCmd : cmd.root \in Dir \cup File BY CommandAssumption DEF ListCmd
<1>. QED BY <1>1, <1>2, <1>3

\* A client that ends an operation is idle; none other moves.
LEMMA Returned ==
    ASSUME CallsTyped, NEW c \in Client, NEW status, NEW found, ReturnFound(c, status, found)
    PROVE  /\ call' = [call EXCEPT ![c] = Idle] /\ CallOK(Idle)
           /\ answer' = [status |-> status, found |-> found]
BY Kinds DEF ReturnFound

\* What a step of a client may leave it with.
Moves(c) == \E new : CallOK(new) /\ call' = [call EXCEPT ![c] = new]

\* The steps of create_index() up to the master's answer.
LEMMA CreateMoves ==
    ASSUME Typed, NEW c \in Client,
           create_index(c) \/ create_on_server(c) \/ created_on_server(c) \/ make_vsfs_dir(c)
             \/ insert_name(c) \/ make_index_dir(c)
    PROVE  Moves(c)
<1>1. call[c].at \in Creating
  BY DEF create_index, create_on_server, created_on_server, make_vsfs_dir, insert_name,
         make_index_dir, At, Creating
<1>2. call[c] \in CreateCall BY <1>1 DEF Typed, CallsTyped, CallOK
<1>3. ASSUME Named(c).root \in Dir, NEW w \in Creating, Goto(c, w) PROVE Moves(c)
  BY <1>2, <1>3, Gone, Kinds DEF Goto, Moves, Named
<1>4. \A status : Return(c, status) => Moves(c)
  BY Kinds DEF Return, ReturnFound, Moves
<1>5. Partition(c) => Moves(c)
  <2>1. [at |-> "record", cmd |-> call[c].cmd, failed |-> FALSE] \in PartitionCall
    BY <1>2 DEF CreateCall, PartitionCall, Partitioning
  <2>. QED BY <2>1, Kinds DEF Partition, Becomes, Moves
<1>6. \A then \in {"return", "partition", "succeed"} :
        Undo(c, then) => Moves(c)
  <2>1. \A then \in {"return", "partition", "succeed"} :
          [at |-> "undo", cmd |-> call[c].cmd, then |-> then, failed |-> FALSE] \in UndoCall
    BY <1>2 DEF CreateCall, UndoCall, Undoing
  <2>. QED BY <2>1, Kinds DEF Undo, Becomes, Moves
<1>7. \A w \in {"server", "filling", "mkdir", "insert", "dir"} : w \in Creating BY DEF Creating
<1>8. call[c].at # "getattr" => Named(c).root \in Dir BY <1>2 DEF CreateCall, Named
<1>9. \/ Named(c).root \in Dir /\ \E w \in {"server", "filling", "mkdir", "insert", "dir"} : Goto(c, w)
      \/ \E status : Return(c, status)
      \/ Partition(c)
      \/ \E then \in {"return", "partition", "succeed"} : Undo(c, then)
  <2>1. CASE create_index(c) BY <2>1 DEF create_index
  <2>2. CASE create_on_server(c)
    <3>1. CASE Unreachable(c, "error") BY <3>1 DEF Unreachable
    <3>2. ASSUME NEW status \in {"filling", "OK", "EEXIST", "EINVAL"},
                 CASE status = "filling" -> Goto(c, "filling") /\ Keep
                   [] status = "OK"      -> Goto(c, "mkdir") /\ Keep
                   [] OTHER              -> Return(c, "error")
          PROVE  \/ \E w \in {"server", "filling", "mkdir", "insert", "dir"} : Goto(c, w)
                 \/ \E s : Return(c, s)
      BY <3>2
    <3>3. Named(c).root \in Dir BY <1>8, <2>2 DEF create_on_server, At
    <3>. QED BY <2>2, <3>1, <3>2, <3>3 DEF create_on_server
  <2>3. CASE created_on_server(c) BY <1>8, <2>3 DEF created_on_server, Unreachable, At
  <2>4. CASE make_vsfs_dir(c) BY <1>8, <2>4 DEF make_vsfs_dir, At
  <2>5. CASE insert_name(c) BY <1>8, <2>5 DEF insert_name, At
  <2>6. CASE make_index_dir(c) BY <1>8, <2>6 DEF make_index_dir, At
  <2>. QED BY <2>1, <2>2, <2>3, <2>4, <2>5, <2>6
<1>. QED BY <1>3, <1>4, <1>5, <1>6, <1>7, <1>9

\* The steps with a partition.
LEMMA PartitionMoves ==
    ASSUME Typed, NEW c \in Client,
           create_partition(c) \/ list_partition(c) \/ roll_back_partition(c) \/ remove_index_dir(c)
    PROVE  Moves(c)
<1>1. call[c].at \in Partitioning
  BY DEF create_partition, list_partition, roll_back_partition, remove_index_dir, At, Partitioning
<1>2. call[c] \in PartitionCall BY <1>1 DEF Typed, CallsTyped, CallOK
<1>3. \A w \in Partitioning : Goto(c, w) => Moves(c) BY <1>2, Gone, Kinds DEF Goto, Moves
<1>4. \A status : Return(c, status) => Moves(c) BY Kinds DEF Return, ReturnFound, Moves
<1>5. Failing(c) => Moves(c)
  <2>1. [call[c] EXCEPT !.failed = TRUE] \in PartitionCall BY <1>1, <1>2, Gone
  <2>. QED BY <2>1, Kinds DEF Failing, Becomes, Moves
<1>6. Undo(c, "succeed") => Moves(c)
  <2>1. [at |-> "undo", cmd |-> call[c].cmd, then |-> "succeed", failed |-> FALSE] \in UndoCall
    BY <1>2 DEF PartitionCall, UndoCall, Undoing
  <2>. QED BY <2>1, Kinds DEF Undo, Becomes, Moves
<1>7. \A w \in {"entry", "roll back", "rmdir", "spin"} : w \in Partitioning BY DEF Partitioning
<1>8. \/ \E w \in {"entry", "roll back", "rmdir", "spin"} : Goto(c, w)
      \/ \E status : Return(c, status)
      \/ Failing(c)
      \/ Undo(c, "succeed")
  <2>1. CASE create_partition(c)
    <3>1. (IF call[c].failed THEN "rmdir" ELSE "entry") \in {"entry", "roll back", "rmdir", "spin"}
      OBVIOUS
    <3>. QED BY <2>1, <3>1 DEF create_partition
  <2>2. CASE list_partition(c) BY <2>2 DEF list_partition
  <2>3. CASE roll_back_partition(c) BY <2>3 DEF roll_back_partition
  <2>4. CASE remove_index_dir(c) BY <2>4 DEF remove_index_dir
  <2>. QED BY <2>1, <2>2, <2>3, <2>4
<1>. QED BY <1>3, <1>4, <1>5, <1>6, <1>7, <1>8

\* The steps of remove_index().
LEMMA UndoMoves ==
    ASSUME Typed, NEW c \in Client, remove_index(c) \/ unlink_entry(c) \/ unlink_record(c)
    PROVE  Moves(c)
<1>1. call[c].at \in Undoing
  BY DEF remove_index, unlink_entry, unlink_record, At, Undoing
<1>2. call[c] \in UndoCall BY <1>1 DEF Typed, CallsTyped, CallOK
<1>3. \A w \in Undoing : Goto(c, w) => Moves(c) BY <1>2, Gone, Kinds DEF Goto, Moves
<1>4. \A status : Return(c, status) => Moves(c) BY Kinds DEF Return, ReturnFound, Moves
<1>5. Failing(c) => Moves(c)
  <2>1. [call[c] EXCEPT !.failed = TRUE] \in UndoCall BY <1>1, <1>2, Gone
  <2>. QED BY <2>1, Kinds DEF Failing, Becomes, Moves
<1>6. Partition(c) => Moves(c)
  <2>1. [at |-> "record", cmd |-> call[c].cmd, failed |-> FALSE] \in PartitionCall
    BY <1>2 DEF PartitionCall, UndoCall, Partitioning
  <2>. QED BY <2>1, Kinds DEF Partition, Becomes, Moves
<1>7. \A status : Undone(c, status) => Moves(c)
  <2>1. call[c].then \in {"return", "partition", "succeed"} BY <1>2 DEF UndoCall
  <2>. QED BY <1>4, <1>6, <2>1 DEF Undone
<1>8. "undo entry" \in Undoing /\ "undo record" \in Undoing BY DEF Undoing
<1>9. CASE remove_index(c)
  <2>1. \/ Named(c) \notin indexDirs \/ Named(c) \in indexDirs \ partEntry
        \/ Named(c) \in indexDirs \cap partEntry
    OBVIOUS
  <2>. QED BY <1>3, <1>7, <1>8, <1>9, <2>1 DEF remove_index
<1>10. CASE unlink_entry(c) BY <1>3, <1>5, <1>7, <1>8, <1>10 DEF unlink_entry
<1>11. CASE unlink_record(c) BY <1>7, <1>11 DEF unlink_record
<1>. QED BY <1>9, <1>10, <1>11

\* A set of masters or servers has a first one.
LEMMA FirstIn == ASSUME NEW S, S \subseteq Nat, S # {} PROVE Min(S) \in S
<1>1. PICK x \in S : \A y \in S : ~(<<y, x>> \in OpToRel(<, Nat))
  BY NatLessThanWellFounded, WFMin
<1>2. ASSUME NEW y \in S PROVE x <= y
  <2>1. ~(y < x) BY <1>1 DEF OpToRel
  <2>. QED BY SMT, <2>1
<1>. QED BY <1>2 DEF Min

\* The elements of a sequence.
LEMMA Elements == ASSUME NEW T, NEW q \in Seq(T) PROVE \A j \in DOMAIN q : q[j] \in T
BY SMT

\* A batch has requests, and they are about files.
LEMMA BatchIs ==
    ASSUME NEW cmd \in UpdateCmd, NEW n \in DOMAIN cmd.batches
    PROVE  /\ n \in Nat
           /\ Reqs(cmd, n) \in Seq([file : File, key : Nat])
           /\ Range(Reqs(cmd, n)) \subseteq [file : File, key : Nat] /\ Range(Reqs(cmd, n)) # {}
           /\ DirsOf(cmd, n) \in SUBSET Dir /\ DirsOf(cmd, n) # {}
<1>1. cmd.batches \in Seq(Seq([file : File, key : Nat])) /\ cmd.batches[n] # <<>>
  BY CommandsAre DEF UpdateCmd
<1>2. n \in Nat /\ cmd.batches[n] \in Seq([file : File, key : Nat]) BY SMT, <1>1
<1>3. 1 \in DOMAIN cmd.batches[n] BY SMT, <1>1, <1>2
<1>4. \A j \in DOMAIN cmd.batches[n] : cmd.batches[n][j] \in [file : File, key : Nat]
  BY <1>2, Elements
<1>5. /\ Range(Reqs(cmd, n)) \subseteq [file : File, key : Nat]
      /\ Range(Reqs(cmd, n)) # {}
  BY <1>3, <1>4 DEF Reqs, Range
<1>6. DirsOf(cmd, n) \in SUBSET Dir /\ DirsOf(cmd, n) # {}
  <2>1. \A r \in Range(Reqs(cmd, n)) : DirOf[r.file] \in Dir BY <1>5, IndexClientAssumption
  <2>. QED BY <1>5, <2>1 DEF DirsOf
<1>. QED BY <1>2, <1>5, <1>6 DEF Reqs

\* A client that starts on directories is in one of them.
LEMMA ClimbIs ==
    ASSUME NEW cmd \in UpdateCmd, NEW n \in DOMAIN cmd.batches, NEW dirs \in SUBSET Dir,
           dirs # {}, NEW target \in Target,
           \A r \in Range(Reqs(cmd, n)) : DirOf[r.file] \in dirs \/ Covers(target, r.file)
    PROVE  Climb(cmd, n, dirs, target) \in ClimbCall
<1>. DEFINE dir == CHOOSE d \in dirs : TRUE  k == Climb(cmd, n, dirs, target)
<1>1. dir \in dirs /\ dir \in Dir /\ n \in Nat BY BatchIs
<1>. HIDE DEF dir
<1>2. k = [at |-> "climb", cmd |-> cmd, batch |-> n, dirs |-> dirs, dir |-> dir, tmp |-> dir,
           target |-> target]
  BY DEF Climb, dir
<1>. HIDE DEF k
<1>3. /\ k \in [at : {"climb"}, cmd : UpdateCmd, batch : Nat, dirs : SUBSET Dir, dir : Dir,
                tmp : Dir, target : Target]
      /\ k.cmd = cmd /\ k.batch = n /\ k.dirs = dirs /\ k.dir = dir /\ k.target = target
  BY <1>1, <1>2
<1>4. \A f \in FilesIn(k) : DirOf[f] \in k.dirs \/ Covers(k.target, f) BY <1>3 DEF FilesIn
<1>5. k \in ClimbCall BY <1>1, <1>3, <1>4 DEF ClimbCall
<1>. QED BY <1>5 DEF k

\* A client climbs from directory to directory.
LEMMA ClimbMoves == ASSUME Typed, NEW c \in Client, climb(c) PROVE Moves(c)
<1>. DEFINE k == call[c]
            here == {i \in indexDirs : i.root = k.tmp /\ i.name = k.cmd.name}
            target == k.target \cup ({k.dir} \X here)
            rest == k.dirs \ {k.dir}
<1>1. k \in ClimbCall BY DEF climb, At, Typed, CallsTyped, CallOK
<1>2. /\ k.cmd \in UpdateCmd /\ k.batch \in DOMAIN k.cmd.batches /\ k.batch \in Nat
      /\ k.dirs \in SUBSET Dir /\ k.dir \in Dir /\ k.tmp \in Dir /\ k.target \in Target
      /\ \A f \in FilesIn(k) : DirOf[f] \in k.dirs \/ Covers(k.target, f)
  BY <1>1 DEF ClimbCall
<1>3. here \subseteq Index BY DEF Typed, MastersTyped
<1>4. target \in Target BY <1>2, <1>3 DEF Target
<1>5. here # {} => \A f \in FilesIn(k) : DirOf[f] \in rest \/ Covers(target, f)
  <2>. SUFFICES ASSUME NEW i \in here, NEW f \in FilesIn(k), DirOf[f] \notin rest
       PROVE  Covers(target, f)
    OBVIOUS
  <2>1. CASE DirOf[f] = k.dir
    <3>1. <<k.dir, i>> \in target /\ <<k.dir, i>>[1] = k.dir OBVIOUS
    <3>. QED BY <2>1, <3>1 DEF Covers
  <2>2. CASE Covers(k.target, f) BY <2>2 DEF Covers
  <2>. QED BY <1>2, <2>1, <2>2
<1>6. CASE here # {} /\ rest # {} /\ Becomes(c, Climb(k.cmd, k.batch, rest, target))
  <2>1. rest \in SUBSET Dir BY <1>2
  <2>2. \A r \in Range(Reqs(k.cmd, k.batch)) : DirOf[r.file] \in rest \/ Covers(target, r.file)
    BY <1>5, <1>6 DEF FilesIn
  <2>. HIDE DEF rest, target, k
  <2>3. Climb(k.cmd, k.batch, rest, target) \in ClimbCall BY <1>2, <1>4, <1>6, <2>1, <2>2, ClimbIs
  <2>. QED BY <1>6, <2>3, Kinds DEF Becomes, Moves
<1>7. CASE /\ here # {} /\ rest = {}
           /\ Becomes(c, [at |-> "resolve", cmd |-> k.cmd, batch |-> k.batch, target |-> target,
                          ids |-> {}, left |-> {MasterOf[f] : f \in FilesOf(c)}])
  <2>. DEFINE left == {MasterOf[f] : f \in FilesOf(c)}
              new == [at |-> "resolve", cmd |-> k.cmd, batch |-> k.batch, target |-> target,
                      ids |-> {}, left |-> left]
  <2>1. FilesOf(c) = FilesIn(k) BY DEF FilesOf, FilesIn
  <2>2. FilesIn(k) \subseteq File /\ FilesIn(k) # {} BY <1>2, BatchIs DEF FilesIn
  <2>3. \A f \in FilesIn(k) : MasterOf[f] \in Master BY <2>2, IndexClientAssumption
  <2>4. left \in SUBSET Master /\ left # {} /\ \A f \in FilesIn(k) : MasterOf[f] \in left
    BY <2>1, <2>2, <2>3
  <2>5. {} \in Ids BY DEF Ids
  <2>6. \A f \in FilesIn(k) : Covers(target, f) BY <1>5, <1>7
  <2>. HIDE DEF left, target, k
  <2>7. /\ new \in [at : {"resolve"}, cmd : UpdateCmd, batch : Nat, target : Target, ids : Ids,
                    left : SUBSET Master]
        /\ new.cmd = k.cmd /\ new.batch = k.batch /\ new.left = left /\ new.target = target
    BY <1>2, <1>4, <2>4, <2>5
  <2>. HIDE DEF new
  <2>8. FilesIn(new) = FilesIn(k) BY <2>7 DEF FilesIn
  <2>9. new \in ResolveCall BY <1>2, <2>4, <2>6, <2>7, <2>8 DEF ResolveCall
  <2>. QED BY <1>7, <2>9, Kinds DEF Becomes, Moves, new, left
<1>8. CASE here = {} /\ k.tmp # Root /\ Becomes(c, [k EXCEPT !.tmp = Up[k.tmp]])
  <2>. DEFINE new == [k EXCEPT !.tmp = Up[k.tmp]]
  <2>1. Up[k.tmp] \in Dir BY <1>2, <1>8, IndexClientAssumption
  <2>2. /\ new \in [at : {"climb"}, cmd : UpdateCmd, batch : Nat, dirs : SUBSET Dir, dir : Dir,
                    tmp : Dir, target : Target]
        /\ new.cmd = k.cmd /\ new.batch = k.batch /\ new.dirs = k.dirs /\ new.dir = k.dir
        /\ new.target = k.target
    <3>. HIDE DEF k
    <3>. QED BY <1>1, <2>1 DEF ClimbCall
  <2>. HIDE DEF new
  <2>3. FilesIn(new) = FilesIn(k) BY <2>2 DEF FilesIn
  <2>4. new \in ClimbCall BY <1>1, <2>2, <2>3 DEF ClimbCall
  <2>. QED BY <1>8, <2>4, Kinds DEF Becomes, Moves, new
<1>9. CASE Return(c, "died") BY <1>9, Kinds DEF Return, ReturnFound, Moves
<1>. QED
  <2>1. \/ (here # {} /\ rest # {}) \/ (here # {} /\ rest = {})
        \/ (here = {} /\ k.tmp # Root) \/ (here = {} /\ k.tmp = Root)
    <3>. HIDE DEF here, rest, k
    <3>. QED OBVIOUS
  <2>2. CASE here # {} /\ rest # {} BY <1>6, <2>2 DEF climb
  <2>3. CASE here # {} /\ rest = {} BY <1>7, <2>3 DEF climb
  <2>4. CASE here = {} /\ k.tmp # Root BY <1>8, <2>4 DEF climb
  <2>5. CASE here = {} /\ k.tmp = Root BY <1>9, <2>5 DEF climb
  <2>. QED BY <2>1, <2>2, <2>3, <2>4, <2>5

\* A client that sends has servers to send to, and lists for the first of them.
LEMMA SendIs ==
    ASSUME Typed, NEW c \in Client, NEW ids \in Ids, NEW servers \in SUBSET Server, servers # {},
           call[c] \in ResolveCall \cup SendCall,
           \A f \in FilesIn(call[c]) : Identified(ids, f)
    PROVE  Send(c, ids, servers) \in SendCall
<1>. DEFINE k == call[c]
            lists == ListsOn(k.target, Min(servers))
            new == Send(c, ids, servers)
<1>1. /\ k.cmd \in UpdateCmd /\ k.batch \in Nat /\ k.target \in Target
      /\ k.batch \in DOMAIN k.cmd.batches
      /\ \A f \in FilesIn(k) : Covers(k.target, f)
  <2>1. CASE k \in ResolveCall BY <2>1 DEF ResolveCall
  <2>2. CASE k \in SendCall BY <2>2 DEF SendCall
  <2>. QED BY <2>1, <2>2
<1>2. \A i \in lists : \E p \in k.target : p[2] = i BY DEF ListsOn
<1>3. lists \in SUBSET Index
  <2>1. \A p \in k.target : p[2] \in Index BY <1>1 DEF Target
  <2>. QED BY <1>2, <2>1
<1>4. new = [at |-> "send", cmd |-> k.cmd, batch |-> k.batch, target |-> k.target, ids |-> ids,
             left |-> servers, lists |-> lists, bad |-> FALSE]
  BY DEF Send
<1>. HIDE DEF new, k, lists
<1>5. /\ new \in [at : {"send"}, cmd : UpdateCmd, batch : Nat, target : Target, ids : Ids,
                  left : SUBSET Server, lists : SUBSET Index, bad : BOOLEAN]
      /\ new.cmd = k.cmd /\ new.batch = k.batch /\ new.target = k.target /\ new.ids = ids
      /\ new.left = servers /\ new.lists = lists
  BY <1>1, <1>3, <1>4
<1>6. FilesIn(new) = FilesIn(k) BY <1>5 DEF FilesIn
<1>7. \A f \in FilesIn(k) : Identified(ids, f) BY DEF k
<1>8. new \in SendCall BY <1>1, <1>2, <1>5, <1>6, <1>7 DEF SendCall
<1>. QED BY <1>8 DEF new

\* The masters are asked for the ids of the files, one after the other.
LEMMA ResolveMoves == ASSUME Typed, NEW c \in Client, find_objects(c) PROVE Moves(c)
<1>. DEFINE k == call[c]
            m == Min(k.left)
            rest == k.left \ {m}
            here == {f \in FilesOf(c) : MasterOf[f] = m}
            ids == k.ids \cup {<<f, IF f \in files THEN f ELSE NoObject>> : f \in here}
            servers == {home[p[2]] : p \in k.target}
<1>1. k \in ResolveCall BY DEF find_objects, At, Typed, CallsTyped, CallOK
<1>2. /\ k.cmd \in UpdateCmd /\ k.batch \in DOMAIN k.cmd.batches /\ k.target \in Target
      /\ k.ids \in Ids /\ k.left \in SUBSET Master
      /\ \A f \in FilesIn(k) : Covers(k.target, f)
      /\ \A f \in FilesIn(k) : MasterOf[f] \in k.left \/ Identified(k.ids, f)
  BY <1>1 DEF ResolveCall
<1>3. FilesOf(c) = FilesIn(k) BY DEF FilesOf, FilesIn
<1>4. FilesIn(k) \subseteq File /\ FilesIn(k) # {} BY <1>2, BatchIs DEF FilesIn
<1>5. \A f \in here : f \in File /\ (f \notin Volatile => f \in files)
  BY <1>3, <1>4 DEF Typed, EnvTyped
<1>6. ids \in Ids
  <2>1. \A p \in k.ids : p \in File \X Object /\ (p[1] \notin Volatile => p[2] = p[1])
    BY <1>2 DEF Ids
  <2>. DEFINE Id(f) == IF f \in files THEN f ELSE NoObject
  <2>2. \A f \in here : f \in File /\ Id(f) \in Object /\ (f \notin Volatile => Id(f) = f)
    BY <1>5 DEF Object
  <2>3. \A p \in ids : p \in File \X Object /\ (p[1] \notin Volatile => p[2] = p[1])
    <3>. SUFFICES ASSUME NEW p \in ids, p \notin k.ids
         PROVE  p \in File \X Object /\ (p[1] \notin Volatile => p[2] = p[1])
      BY <2>1
    <3>1. PICK f \in here : p = <<f, Id(f)>> OBVIOUS
    <3>. HIDE DEF Id, here, ids
    <3>. QED BY <2>2, <3>1
  <2>. HIDE DEF ids
  <2>. QED BY <2>3 DEF Ids
<1>7. \A f \in FilesIn(k) : MasterOf[f] \in rest \/ Identified(ids, f)
  <2>. SUFFICES ASSUME NEW f \in FilesIn(k), MasterOf[f] \notin rest PROVE Identified(ids, f)
    OBVIOUS
  <2>1. CASE Identified(k.ids, f) BY <2>1 DEF Identified
  <2>2. CASE MasterOf[f] = m
    <3>1. f \in here BY <1>3, <2>2
    <3>2. <<f, IF f \in files THEN f ELSE NoObject>> \in ids BY <3>1
    <3>. QED BY <3>2 DEF Identified
  <2>. QED BY <1>2, <2>1, <2>2
<1>8. CASE rest # {} /\ Becomes(c, [k EXCEPT !.left = rest, !.ids = ids])
  <2>. DEFINE new == [k EXCEPT !.left = rest, !.ids = ids]
  <2>1. rest \in SUBSET Master BY <1>2
  <2>2. /\ new \in [at : {"resolve"}, cmd : UpdateCmd, batch : Nat, target : Target, ids : Ids,
                    left : SUBSET Master]
        /\ new.cmd = k.cmd /\ new.batch = k.batch /\ new.left = rest /\ new.ids = ids
        /\ new.target = k.target
    <3>. HIDE DEF k, rest, ids
    <3>. QED BY <1>1, <1>6, <2>1 DEF ResolveCall
  <2>. HIDE DEF new, rest, ids
  <2>3. FilesIn(new) = FilesIn(k) BY <2>2 DEF FilesIn
  <2>4. new \in ResolveCall BY <1>2, <1>7, <1>8, <2>2, <2>3 DEF ResolveCall
  <2>. QED BY <1>8, <2>4, Kinds DEF Becomes, Moves, new
<1>9. CASE rest = {} /\ Becomes(c, Send(c, ids, servers))
  <2>1. servers \in SUBSET Server
    <3>1. \A p \in k.target : p[2] \in Index BY <1>2 DEF Target
    <3>2. home \in [Index -> Server] BY DEF Typed, IndexManagerTypeOK
    <3>. QED BY <3>1, <3>2
  <2>2. servers # {} BY <1>2, <1>4 DEF Covers
  <2>3. \A f \in FilesIn(k) : Identified(ids, f) BY <1>7, <1>9
  <2>. HIDE DEF ids, servers
  <2>4. Send(c, ids, servers) \in SendCall BY <1>1, <1>6, <2>1, <2>2, <2>3, SendIs
  <2>. QED BY <1>9, <2>4, Kinds DEF Becomes, Moves
<1>. QED
  <2>1. CASE rest # {} BY <1>8, <2>1 DEF find_objects
  <2>2. CASE rest = {} BY <1>9, <2>2 DEF find_objects
  <2>. QED BY <2>1, <2>2

\* The next batch starts with the directories of its files.
LEMMA NextIs ==
    ASSUME NEW cmd \in UpdateCmd, NEW n \in DOMAIN cmd.batches
    PROVE  Climb(cmd, n, DirsOf(cmd, n), {}) \in ClimbCall
<1>1. DirsOf(cmd, n) \in SUBSET Dir /\ DirsOf(cmd, n) # {} BY BatchIs
<1>2. {} \in Target BY DEF Target
<1>3. \A r \in Range(Reqs(cmd, n)) : DirOf[r.file] \in DirsOf(cmd, n) BY DEF DirsOf
<1>. QED BY <1>1, <1>2, <1>3, ClimbIs

\* The batches of a command are numbered.
LEMMA BatchNumbers ==
    ASSUME NEW cmd \in UpdateCmd, NEW n \in DOMAIN cmd.batches
    PROVE  /\ n \in Nat /\ n >= 1 /\ n <= Len(cmd.batches)
           /\ n + 1 \in Nat /\ (~(n + 1 > Len(cmd.batches)) => n + 1 \in DOMAIN cmd.batches)
           /\ (n + 1 > Len(cmd.batches) => DOMAIN cmd.batches = 1 .. n)
<1>1. cmd.batches \in Seq(Seq([file : File, key : Nat])) BY CommandsAre
<1>. QED BY SMT, <1>1

\* Where a client goes when a list is done.
LEMMA SentMoves ==
    ASSUME Typed, NEW c \in Client, At(c, "send"), NEW i, NEW status, Sent(c, i, status)
    PROVE  Moves(c)
<1>. DEFINE k == call[c]
            lists == k.lists \ {i}
            rest == IF lists = {} THEN k.left \ {home[i]} ELSE k.left
            bad == k.bad \/ status # "OK"
<1>1. k \in SendCall BY DEF At, Typed, CallsTyped, CallOK
<1>2. /\ k.cmd \in UpdateCmd /\ k.batch \in DOMAIN k.cmd.batches /\ k.ids \in Ids
      /\ k.left \in SUBSET Server /\ k.lists \in SUBSET Index
      /\ \A f \in FilesIn(k) : Covers(k.target, f) /\ Identified(k.ids, f)
      /\ \A j \in k.lists : \E p \in k.target : p[2] = j
  BY <1>1 DEF SendCall
<1>3. \A s : Return(c, s) => Moves(c) BY Kinds DEF Return, ReturnFound, Moves
<1>4. CASE NextBatch(c)
  <2>1. CASE k.batch + 1 > Len(k.cmd.batches) BY <1>3, <1>4, <2>1 DEF NextBatch
  <2>2. CASE ~(k.batch + 1 > Len(k.cmd.batches))
    <3>1. Climb(k.cmd, k.batch + 1, DirsOf(k.cmd, k.batch + 1), {}) \in ClimbCall
      BY <1>2, <2>2, BatchNumbers, NextIs
    <3>. QED BY <1>4, <2>2, <3>1, Kinds DEF NextBatch, Becomes, Moves
  <2>. QED BY <2>1, <2>2
<1>5. CASE lists = {} /\ rest # {} /\ Becomes(c, Send(c, k.ids, rest))
  <2>1. rest \in SUBSET Server BY <1>2
  <2>. HIDE DEF rest
  <2>2. Send(c, k.ids, rest) \in SendCall BY <1>1, <1>2, <1>5, <2>1, SendIs
  <2>. QED BY <1>5, <2>2, Kinds DEF Becomes, Moves
<1>6. CASE Becomes(c, [k EXCEPT !.lists = lists, !.bad = bad])
  <2>. DEFINE new == [k EXCEPT !.lists = lists, !.bad = bad]
  <2>1. lists \in SUBSET Index /\ bad \in BOOLEAN BY <1>1, <1>2 DEF SendCall
  <2>2. /\ new \in [at : {"send"}, cmd : UpdateCmd, batch : Nat, target : Target, ids : Ids,
                    left : SUBSET Server, lists : SUBSET Index, bad : BOOLEAN]
        /\ new.cmd = k.cmd /\ new.batch = k.batch /\ new.target = k.target /\ new.ids = k.ids
        /\ new.left = k.left /\ new.lists = lists
    <3>. HIDE DEF k, lists, bad
    <3>. QED BY <1>1, <2>1 DEF SendCall
  <2>. HIDE DEF new
  <2>3. FilesIn(new) = FilesIn(k) BY <2>2 DEF FilesIn
  <2>4. k.left # {} /\ \A j \in lists : \E p \in k.target : p[2] = j BY <1>1, <1>2 DEF SendCall
  <2>5. new \in SendCall BY <1>2, <2>2, <2>3, <2>4 DEF SendCall
  <2>. QED BY <1>6, <2>5, Kinds DEF Becomes, Moves, new
<1>. QED
  <2>1. CASE lists = {} /\ bad BY <1>3, <2>1 DEF Sent
  <2>2. CASE lists = {} /\ ~bad /\ rest = {} BY <1>4, <2>2 DEF Sent
  <2>3. CASE lists = {} /\ ~bad /\ rest # {} BY <1>5, <2>3 DEF Sent
  <2>4. CASE lists # {} BY <1>6, <2>4 DEF Sent
  <2>. QED BY <2>1, <2>2, <2>3, <2>4

\* A list of updates is sent to its index server.
LEMMA UpdateMoves == ASSUME Typed, NEW c \in Client, update(c) PROVE Moves(c)
<1>1. \A s : Return(c, s) => Moves(c) BY Kinds DEF Return, ReturnFound, Moves
<1>2. At(c, "send") BY DEF update
<1>. QED BY <1>1, <1>2, SentMoves DEF update, Unreachable, ServerDies

\* A search that has its files ends, or goes on with each file.
LEMMA SearchedMoves ==
    ASSUME Typed, NEW c \in Client, call[c].cmd \in SearchCmd, NEW found \in SUBSET Found,
           Searched(c, found)
    PROVE  Moves(c)
<1>1. \A s, f : ReturnFound(c, s, f) => Moves(c) BY Kinds DEF ReturnFound, Moves
<1>2. [at |-> "getattrs", cmd |-> call[c].cmd, left |-> found, found |-> found] \in GetattrsCall
  BY DEF GetattrsCall
<1>. QED BY <1>1, <1>2, Kinds DEF Searched, Becomes, Moves

\* The masters are asked for the indices, one after the other.
LEMMA LocateMoves ==
    ASSUME Typed, NEW c \in Client, locate_index_for_search(c)
    PROVE  Moves(c)
<1>. DEFINE k == call[c]
            indices == {i \in listed : Matches(i, k.cmd)}
            next == Located(c, indices)
            m == Min(k.left)
<1>1. k \in LocateCall BY DEF locate_index_for_search, At, Typed, CallsTyped, CallOK
<1>2. /\ k.cmd \in SearchCmd /\ k.left \in SUBSET Master /\ k.hits \in SUBSET Index
      /\ \A i \in k.hits : Matches(i, k.cmd)
  BY <1>1 DEF LocateCall
<1>3. indices \in SUBSET Index BY DEF Typed, MastersTyped
<1>. DEFINE left == k.left \ {m}
            hits == k.hits \cup {i \in indices : IndexMaster[i] = m}
<1>4. next = [k EXCEPT !.left = left, !.hits = hits] BY DEF Located
<1>5. left \in SUBSET Master /\ hits \in SUBSET Index /\ \A i \in hits : Matches(i, k.cmd)
  BY <1>2, <1>3
<1>. HIDE DEF next
<1>6. /\ next \in [at : {"locate"}, cmd : SearchCmd, left : SUBSET Master, hits : SUBSET Index]
      /\ next.cmd = k.cmd /\ next.left = left /\ next.hits = hits
  <2>. HIDE DEF k, left, hits
  <2>. QED BY <1>1, <1>4, <1>5 DEF LocateCall
<1>. HIDE DEF left, hits
<1>7. CASE next.left # {} /\ Becomes(c, next)
  <2>1. next \in LocateCall BY <1>5, <1>6, <1>7 DEF LocateCall
  <2>. QED BY <1>7, <2>1, Kinds DEF Becomes, Moves
<1>8. CASE Searched(c, {}) BY <1>2, <1>8, SearchedMoves
<1>9. CASE /\ next.hits # {}
           /\ Becomes(c, [at |-> "ask", cmd |-> k.cmd, hits |-> next.hits, objects |-> {}])
  <2>1. [at |-> "ask", cmd |-> k.cmd, hits |-> next.hits, objects |-> {}] \in AskCall
    BY <1>2, <1>5, <1>6, <1>9 DEF AskCall
  <2>. QED BY <1>9, <2>1, Kinds DEF Becomes, Moves
<1>. QED
  <2>1. CASE next.left # {} BY <1>7, <2>1 DEF locate_index_for_search, next
  <2>2. CASE next.left = {} /\ next.hits = {} BY <1>8, <2>2 DEF locate_index_for_search, next
  <2>3. CASE next.left = {} /\ next.hits # {} BY <1>9, <2>3 DEF locate_index_for_search, next
  <2>. QED BY <2>1, <2>2, <2>3

\* The next index that is asked is one of the hits.
LEMMA NextIsHit ==
    ASSUME Typed, NEW hits \in SUBSET Index, hits # {}
    PROVE  NextHit(hits) \in hits
<1>. DEFINE S == {home[i] : i \in hits}
<1>0. \A i \in Index : home[i] \in Nat
  <2>1. home \in [Index -> Server] BY DEF Typed, IndexManagerTypeOK
  <2>. QED BY <2>1, IndexManagerAssumption
<1>1. S \subseteq Nat /\ S # {} BY <1>0
<1>2. Min(S) \in S
  <2>. HIDE DEF S
  <2>. QED BY <1>1, FirstIn
<1>3. PICK i \in hits : home[i] = Min(S) BY <1>2
<1>. QED BY <1>3 DEF NextHit

\* The ids that are found in an index are those of files, or none.
LEMMA SearchTyped ==
    ASSUME Typed, NEW i \in Index, NEW range, served[i] # NoIndex
    PROVE  search(i, range) \subseteq Object
<1>1. served[i] \subseteq Record BY DEF Typed, IndexManagerTypeOK
<1>. QED BY <1>1 DEF search, range_search, Record, Object

\* The masters of ids are masters.
LEMMA MastersOfIds ==
    ASSUME NEW o \in Object
    PROVE  MasterOfId(o) \in Master /\ (o \in File => MasterOfId(o) = MasterOf[o])
<1>1. Min(Master) \in Master BY FirstIn, IndexClientAssumption
<1>2. o \in File => o # NoObject BY IndexManagerAssumption
<1>3. o \in File => MasterOf[o] \in Master BY IndexClientAssumption
<1>. QED BY <1>1, <1>2, <1>3 DEF MasterOfId, Object

\* The index servers are asked one after the other.
LEMMA AskMoves == ASSUME Typed, NEW c \in Client, search_server(c) PROVE Moves(c)
<1>. DEFINE k == call[c]
            i == NextHit(k.hits)
            rest == k.hits \ {i}
            objects == k.objects \cup search(i, range_query(k.cmd.query, i.name))
<1>1. k \in AskCall BY DEF search_server, At, Typed, CallsTyped, CallOK
<1>2. /\ k.cmd \in SearchCmd /\ k.hits \in SUBSET Index /\ k.hits # {} /\ k.objects \in SUBSET Object
      /\ \A j \in k.hits : Matches(j, k.cmd)
  BY <1>1 DEF AskCall
<1>3. i \in k.hits BY <1>2, NextIsHit
<1>4. \A s : Return(c, s) => Moves(c) BY Kinds DEF Return, ReturnFound, Moves
<1>5. served[i] # NoIndex => objects \in SUBSET Object BY <1>2, <1>3, SearchTyped
<1>6. CASE Searched(c, {}) BY <1>2, <1>6, SearchedMoves
<1>7. CASE served[i] # NoIndex /\ rest = {} /\ objects # {} /\ Becomes(c, Paths(k.cmd, objects))
  <2>. DEFINE left == {MasterOfId(o) : o \in objects}
  <2>1. objects \in SUBSET Object BY <1>5, <1>7
  <2>. HIDE DEF objects
  <2>2. left \in SUBSET Master /\ left # {} BY <1>7, <2>1, MastersOfIds
  <2>. HIDE DEF left
  <2>3. [at |-> "paths", cmd |-> k.cmd, objects |-> objects, left |-> left, found |-> {}] \in PathsCall
    BY <1>2, <2>1, <2>2 DEF PathsCall
  <2>. QED BY <1>7, <2>3, Kinds DEF Becomes, Moves, Paths, left
<1>8. CASE /\ served[i] # NoIndex /\ rest # {}
           /\ Becomes(c, [k EXCEPT !.hits = rest, !.objects = objects])
  <2>. DEFINE new == [k EXCEPT !.hits = rest, !.objects = objects]
  <2>1. objects \in SUBSET Object /\ rest \in SUBSET Index /\ \A j \in rest : Matches(j, k.cmd)
    BY <1>2, <1>5, <1>8
  <2>. HIDE DEF k, objects, rest
  <2>2. /\ new \in [at : {"ask"}, cmd : SearchCmd, hits : SUBSET Index, objects : SUBSET Object]
        /\ new.hits = rest /\ new.cmd = k.cmd
    BY <1>1, <2>1 DEF AskCall
  <2>. HIDE DEF new
  <2>3. new \in AskCall BY <1>8, <2>1, <2>2 DEF AskCall
  <2>. QED BY <1>8, <2>3, Kinds DEF Becomes, Moves, new, k
<1>9. \/ served[i] # NoIndex /\ Searched(c, {})
      \/ /\ served[i] # NoIndex /\ (rest # {} \/ objects # {})
         /\ Becomes(c, IF rest = {} THEN Paths(k.cmd, objects)
                       ELSE [k EXCEPT !.hits = rest, !.objects = objects])
      \/ \E s : Return(c, s)
  BY DEF search_server, ServerDies
<1>. HIDE DEF rest, objects, i
<1>. QED BY <1>4, <1>6, <1>7, <1>8, <1>9

\* The masters are asked for the paths of the ids, one after the other.
LEMMA PathsMoves == ASSUME Typed, NEW c \in Client, find_files(c) PROVE Moves(c)
<1>. DEFINE k == call[c]
            m == Min(k.left)
            rest == k.left \ {m}
            here == {o \in k.objects : MasterOfId(o) = m}
            found == k.found \cup {IF o \in files THEN o ELSE NoPath : o \in here}
<1>1. k \in PathsCall BY DEF find_files, At, Typed, CallsTyped, CallOK
<1>2. k.cmd \in SearchCmd /\ k.left \in SUBSET Master /\ k.found \in SUBSET Found
  BY <1>1 DEF PathsCall
<1>3. found \in SUBSET Found /\ rest \in SUBSET Master
  <2>1. \A o : (IF o \in files THEN o ELSE NoPath) \in Found BY DEF Typed, EnvTyped, Found
  <2>. QED BY <1>2, <2>1
<1>4. CASE Searched(c, found)
  <2>. HIDE DEF found
  <2>. QED BY <1>2, <1>3, <1>4, SearchedMoves
<1>5. CASE rest # {} /\ Becomes(c, [k EXCEPT !.left = rest, !.found = found])
  <2>. DEFINE new == [k EXCEPT !.left = rest, !.found = found]
  <2>. HIDE DEF k, rest, found
  <2>1. /\ new \in [at : {"paths"}, cmd : SearchCmd, objects : SUBSET Object, left : SUBSET Master,
                    found : SUBSET Found]
        /\ new.left = rest
    BY <1>1, <1>3 DEF PathsCall
  <2>. HIDE DEF new
  <2>2. new \in PathsCall BY <1>5, <2>1 DEF PathsCall
  <2>. QED BY <1>5, <2>2, Kinds DEF Becomes, Moves, new, k
<1>. QED
  <2>1. CASE rest = {} BY <1>4, <2>1 DEF find_files
  <2>2. CASE rest # {} BY <1>5, <2>2 DEF find_files
  <2>. QED BY <2>1, <2>2

\* The files of a listing are looked at one after the other.
LEMMA GetattrsMoves == ASSUME Typed, NEW c \in Client, readdir_getattr(c) PROVE Moves(c)
<1>1. call[c] \in GetattrsCall BY DEF readdir_getattr, At, Typed, CallsTyped, CallOK
<1>2. \A s, f : ReturnFound(c, s, f) => Moves(c) BY Kinds DEF ReturnFound, Moves
<1>3. PICK f \in call[c].left :
        LET rest == call[c].left \ {f} IN
        CASE ~getattr(f) -> Return(c, "error") /\ Over(c)
          [] getattr(f) /\ rest = {} -> ReturnFound(c, "OK", call[c].found) /\ Over(c)
          [] getattr(f) /\ rest # {} ->
                 Becomes(c, [call[c] EXCEPT !.left = rest]) /\ Keep /\ UNCHANGED histories
  BY DEF readdir_getattr
<1>. DEFINE rest == call[c].left \ {f}
<1>4. [call[c] EXCEPT !.left = rest] \in GetattrsCall BY <1>1 DEF GetattrsCall
<1>5. CASE ~getattr(f) BY <1>2, <1>3, <1>5 DEF Return
<1>6. CASE getattr(f) /\ rest = {} BY <1>2, <1>3, <1>6
<1>7. CASE getattr(f) /\ rest # {}
  <2>1. Becomes(c, [call[c] EXCEPT !.left = rest]) BY <1>3, <1>7
  <2>. QED BY <1>4, <2>1, Kinds DEF Becomes, Moves
<1>. QED BY <1>5, <1>6, <1>7

\* A client in a directory goes on with its entries, or with its indices.
LEMMA ResumeIs ==
    ASSUME NEW cmd \in ListCmd, NEW stack \in Seq(Entered), stack # <<>>
    PROVE  CallOK(Resume(cmd, stack))
<1>1. Head(stack) \in Entered /\ Tail(stack) \in Seq(Entered) BY SMT
<1>2. Head(stack).dir \in Dir \cup File BY <1>1 DEF Entered
<1>3. [at |-> "subfiles", cmd |-> cmd, stack |-> stack] \in SubfilesCall BY DEF SubfilesCall
<1>4. [at |-> "infos", cmd |-> cmd, stack |-> Tail(stack), dir |-> Head(stack).dir,
       left |-> Master, hits |-> {}] \in InfosCall
  BY <1>1, <1>2 DEF InfosCall
<1>. QED BY <1>3, <1>4, Kinds DEF Resume

\* A client that has the indices of a directory goes on in the one above.
LEMMA ListedMoves ==
    ASSUME Typed, NEW c \in Client, call[c] \in InfosCall, Listed(c)
    PROVE  Moves(c)
<1>1. call[c].cmd \in ListCmd /\ call[c].stack \in Seq(Entered) BY DEF InfosCall
<1>2. CASE call[c].stack = <<>> BY <1>2, Kinds DEF Listed, Return, ReturnFound, Moves
<1>3. CASE call[c].stack # <<>>
  <2>1. CallOK(Resume(call[c].cmd, call[c].stack)) BY <1>1, <1>3, ResumeIs
  <2>. QED BY <1>3, <2>1 DEF Listed, Becomes, Moves
<1>. QED BY <1>2, <1>3

\* Entering a directory.
LEMMA ReaddirMoves == ASSUME Typed, NEW c \in Client, list_subfiles(c) PROVE Moves(c)
<1>. DEFINE k == call[c]
            top == [dir |-> k.dir, left |-> Subfiles(k.dir)]
<1>1. k \in ReaddirCall BY DEF list_subfiles, At, Typed, CallsTyped, CallOK
<1>2. k.cmd \in ListCmd /\ k.dir \in Dir \cup File /\ k.stack \in Seq(Entered)
  BY <1>1 DEF ReaddirCall
<1>3. Subfiles(k.dir) \subseteq Dir \cup File BY DEF Subfiles, Typed, EnvTyped
<1>4. top \in Entered BY <1>2, <1>3 DEF Entered
<1>5. <<top>> \o k.stack \in Seq(Entered) /\ <<top>> \o k.stack # <<>>
  <2>. HIDE DEF top, k
  <2>. QED BY SMT, <1>2, <1>4
<1>6. CallOK(Resume(k.cmd, <<top>> \o k.stack))
  <2>. HIDE DEF top, k
  <2>. QED BY <1>2, <1>5, ResumeIs
<1>7. Return(c, "error") => Moves(c) BY Kinds DEF Return, ReturnFound, Moves
<1>. QED BY <1>6, <1>7 DEF list_subfiles, Becomes, Moves

\* Looking at an entry.
LEMMA SubfilesMoves == ASSUME Typed, NEW c \in Client, getattr_subfile(c) PROVE Moves(c)
<1>. DEFINE k == call[c]
            top == Head(k.stack)
<1>1. k \in SubfilesCall BY DEF getattr_subfile, At, Typed, CallsTyped, CallOK
<1>2. k.cmd \in ListCmd /\ k.stack \in Seq(Entered) /\ k.stack # <<>> BY <1>1 DEF SubfilesCall
<1>3. top \in Entered /\ Tail(k.stack) \in Seq(Entered) BY SMT, <1>2
<1>4. PICK path \in top.left :
        LET stack == <<[top EXCEPT !.left = @ \ {path}]>> \o Tail(k.stack) IN
        CASE top.dir = Root \/ ~getattr(path) -> Return(c, "error")
          [] top.dir # Root /\ path \in files -> Becomes(c, Resume(k.cmd, stack)) /\ Keep
          [] top.dir # Root /\ path \in Dir ->
                 /\ Becomes(c, [at |-> "readdir", cmd |-> k.cmd, dir |-> path, stack |-> stack])
                 /\ Keep
  BY DEF getattr_subfile
<1>. DEFINE less == [top EXCEPT !.left = @ \ {path}]
            stack == <<less>> \o Tail(k.stack)
<1>5. less \in Entered /\ path \in Dir \cup File
  <2>. HIDE DEF top
  <2>. QED BY <1>3 DEF Entered
<1>6. stack \in Seq(Entered) /\ stack # <<>>
  <2>. HIDE DEF less, k, top
  <2>. QED BY SMT, <1>3, <1>5
<1>7. Return(c, "error") => Moves(c) BY Kinds DEF Return, ReturnFound, Moves
<1>. HIDE DEF less
<1>8. Becomes(c, Resume(k.cmd, stack)) => Moves(c)
  <2>. HIDE DEF stack, k
  <2>1. CallOK(Resume(k.cmd, stack)) BY <1>2, <1>6, ResumeIs
  <2>. QED BY <2>1 DEF Becomes, Moves
<1>9. Becomes(c, [at |-> "readdir", cmd |-> k.cmd, dir |-> path, stack |-> stack]) => Moves(c)
  <2>. HIDE DEF stack, k
  <2>1. [at |-> "readdir", cmd |-> k.cmd, dir |-> path, stack |-> stack] \in ReaddirCall
    BY <1>2, <1>5, <1>6 DEF ReaddirCall
  <2>. QED BY <2>1, Kinds DEF Becomes, Moves
<1>10. \/ Return(c, "error") \/ Becomes(c, Resume(k.cmd, stack))
       \/ Becomes(c, [at |-> "readdir", cmd |-> k.cmd, dir |-> path, stack |-> stack])
  <2>. HIDE DEF stack
  <2>1. CASE top.dir = Root \/ ~getattr(path) BY <1>4, <2>1 DEF stack, less
  <2>2. CASE top.dir # Root /\ path \in files BY <1>4, <2>2 DEF stack, less
  <2>3. CASE top.dir # Root /\ path \in Dir BY <1>4, <2>3 DEF stack, less
  <2>. QED BY <2>1, <2>2, <2>3 DEF getattr
<1>. QED BY <1>7, <1>8, <1>9, <1>10

\* The masters are asked for the indices of a directory, one after the other.
LEMMA InfosMoves == ASSUME Typed, NEW c \in Client, get_index_infos(c) PROVE Moves(c)
<1>. DEFINE k == call[c]
            indices == {i \in listed : i.root = k.dir}
            next == Located(c, indices)
            m == Min(k.left)
            left == k.left \ {m}
            hits == k.hits \cup {i \in indices : IndexMaster[i] = m}
<1>1. k \in InfosCall /\ k.at = "infos" BY DEF get_index_infos, At, Typed, CallsTyped, CallOK
<1>2. k.left \in SUBSET Master /\ k.hits \in SUBSET Index BY <1>1 DEF InfosCall
<1>3. indices \in SUBSET Index BY DEF Typed, MastersTyped
<1>4. next = [k EXCEPT !.left = left, !.hits = hits] BY DEF Located
<1>5. left \in SUBSET Master /\ hits \in SUBSET Index BY <1>2, <1>3
<1>6. next \in InfosCall /\ next.at = "infos"
  <2>. HIDE DEF k, left, hits, next
  <2>. QED BY <1>1, <1>4, <1>5 DEF InfosCall
<1>. HIDE DEF next
<1>7. CASE Becomes(c, next) BY <1>6, <1>7, Kinds DEF Becomes, Moves
<1>8. CASE Listed(c) BY <1>1, <1>8, ListedMoves
<1>9. CASE next.hits # {} /\ Becomes(c, [next EXCEPT !.at = "info"])
  <2>1. [next EXCEPT !.at = "info"] \in InfosCall BY <1>6, <1>9 DEF InfosCall
  <2>. QED BY <1>9, <2>1, Kinds DEF Becomes, Moves
<1>. QED
  <2>1. CASE next.left # {} BY <1>7, <2>1 DEF get_index_infos, next
  <2>2. CASE next.left = {} /\ next.hits = {} BY <1>8, <2>2 DEF get_index_infos, next
  <2>3. CASE next.left = {} /\ next.hits # {} BY <1>9, <2>3 DEF get_index_infos, next
  <2>. QED BY <2>1, <2>2, <2>3

\* The index servers are asked for the sizes of the indices of a directory.
LEMMA InfoMoves == ASSUME Typed, NEW c \in Client, info_server(c) PROVE Moves(c)
<1>. DEFINE k == call[c]
            rest == k.hits \ {NextHit(k.hits)}
<1>1. k \in InfosCall BY DEF info_server, At, Typed, CallsTyped, CallOK
<1>2. \A s : Return(c, s) => Moves(c) BY Kinds DEF Return, ReturnFound, Moves
<1>3. CASE rest # {} /\ Becomes(c, [k EXCEPT !.hits = rest])
  <2>1. rest \in SUBSET Index BY <1>1 DEF InfosCall
  <2>. HIDE DEF rest
  <2>2. [k EXCEPT !.hits = rest] \in InfosCall BY <1>1, <1>3, <2>1 DEF InfosCall
  <2>. QED BY <1>3, <2>2, Kinds DEF Becomes, Moves
<1>4. CASE Listed(c) BY <1>1, <1>4, ListedMoves
<1>5. \/ rest # {} /\ Becomes(c, [k EXCEPT !.hits = rest])
      \/ Listed(c)
      \/ \E s : Return(c, s)
  <2>1. CASE info(NextHit(k.hits), "OK") /\ IF rest # {} THEN Becomes(c, [k EXCEPT !.hits = rest]) /\ Keep
                                            ELSE Listed(c)
    BY <2>1
  <2>. QED BY <2>1 DEF info_server, ServerDies
<1>. HIDE DEF rest
<1>. QED BY <1>2, <1>3, <1>4, <1>5

\* A command that is not over at once makes its first call.
LEMMA RunIs == ASSUME NEW cmd \in Commands, Ends(cmd) = "none" PROVE CallOK(run(cmd))
<1>1. cmd.op \in {"usage", "help", "create", "destroy", "update", "list", "search", "readdir"}
  BY CommandAssumption
<1>2. cmd.op # "usage" BY DEF Ends
<1>3. cmd.op # "help" BY DEF Ends, help_run
<1>4. CASE cmd.op = "create"
  <2>1. create_run(cmd) \in CreateCall BY <1>4 DEF create_run, CreateCall, Creating, IndexCmd
  <2>. QED BY <1>4, <2>1, Kinds DEF run
<1>5. CASE cmd.op = "destroy"
  <2>1. destroy_run(cmd) \in UndoCall BY <1>5 DEF destroy_run, UndoCall, Undoing, IndexCmd
  <2>. QED BY <1>5, <2>1, Kinds DEF run
<1>6. CASE cmd.op = "update"
  <2>1. cmd.batches \notin {<<>>, <<<<>>>>} BY <1>6 DEF Ends, Status
  <2>2. /\ cmd.batches \in Seq(Seq([file : File, key : Nat]))
        /\ \A n \in DOMAIN cmd.batches : cmd.batches[n] # <<>>
    BY <1>6, <2>1, CommandAssumption
  <2>3. cmd \in UpdateCmd BY <1>6, <2>2 DEF UpdateCmd
  <2>4. 1 \in DOMAIN cmd.batches BY SMT, <2>1, <2>2
  <2>5. update_run(cmd) \in ClimbCall BY <2>3, <2>4, NextIs DEF update_run
  <2>. QED BY <1>6, <2>5, Kinds DEF run
<1>7. CASE cmd.op = "list"
  <2>1. cmd \in ListCmd /\ cmd.root \in Dir \cup File BY <1>7, CommandAssumption DEF ListCmd
  <2>2. [at |-> "readdir", cmd |-> cmd, dir |-> cmd.root, stack |-> <<>>] \in ReaddirCall
    <3>1. <<>> \in Seq(Entered) BY SMT
    <3>. QED BY <2>1, <3>1 DEF ReaddirCall
  <2>3. CallOK(Resume(cmd, <<[dir |-> cmd.root, left |-> {}]>>))
    <3>. DEFINE top == [dir |-> cmd.root, left |-> {}]
    <3>1. top \in Entered BY <2>1 DEF Entered
    <3>. HIDE DEF top
    <3>2. <<top>> \in Seq(Entered) /\ <<top>> # <<>> BY SMT, <3>1
    <3>. QED BY <2>1, <3>2, ResumeIs DEF top
  <2>. QED BY <1>7, <2>2, <2>3, Kinds DEF run, list_run
<1>8. CASE cmd.op \in {"search", "readdir"}
  <2>1. Locating(cmd) \in LocateCall
    <3>1. cmd \in SearchCmd BY <1>8 DEF SearchCmd
    <3>. QED BY <3>1, IndexClientAssumption DEF Locating, LocateCall
  <2>. QED BY <1>8, <2>1, Kinds DEF run
<1>. QED BY <1>1, <1>2, <1>3, <1>4, <1>5, <1>6, <1>7, <1>8

\* A command that begins puts its client at the first of its calls.
LEMMA BeginMoves == ASSUME Typed, NEW c \in Client, NEW cmd \in Commands, Begin(c, cmd) PROVE Moves(c)
BY RunIs, Kinds DEF Begin, Return, ReturnFound, Becomes, Moves

\* What a client begins is a command.
LEMMA BeginsCommand ==
    ASSUME NEW c \in Client,
           \/ \E line \in CommandLines[c] : main(c, line)
           \/ \E cmd \in LibraryCalls[c] : Vsfs(c, cmd)
           \/ \E path \in Listings[c] : vsfs_readdir(c, path)
    PROVE  \E cmd \in Commands : Begin(c, cmd)
<1>. DEFINE Of(d) == Range(Parsed[d]) \cup LibraryCalls[d] \cup Range(Queried[d])
<1>0. \A x \in Of(c) : x \in Commands
  <2>1. Commands = UNION {Of(d) : d \in Client} BY DEF Commands
  <2>. HIDE DEF Of
  <2>. QED BY <2>1
<1>1. \A line \in CommandLines[c] : Parsed[c][line] \in Commands
  <2>1. \A line \in CommandLines[c] : Parsed[c][line] \in Range(Parsed[c]) BY DEF Parsed, Range
  <2>. QED BY <1>0, <2>1
<1>2. \A path \in Listings[c] : Queried[c][path] \in Commands
  <2>1. \A path \in Listings[c] : Queried[c][path] \in Range(Queried[c]) BY DEF Queried, Range
  <2>. QED BY <1>0, <2>1
<1>3. \A cmd \in LibraryCalls[c] : cmd \in Commands BY <1>0
<1>. QED BY <1>1, <1>2, <1>3 DEF main, Vsfs, vsfs_readdir

\* Every step of a client leaves it with what it may hold.
LEMMA StepMoves == ASSUME Typed, NEW c \in Client, Step(c) PROVE Moves(c)
BY CreateMoves, PartitionMoves, UndoMoves, ClimbMoves, ResolveMoves, UpdateMoves, LocateMoves,
   AskMoves, PathsMoves, GetattrsMoves, ReaddirMoves, SubfilesMoves, InfosMoves, InfoMoves
   DEF Step

\* The steps of a client, by what they leave alone.
Quiet(c) ==
    \/ create_index(c) \/ remove_index(c) \/ climb(c) \/ find_objects(c)
    \/ list_subfiles(c) \/ getattr_subfile(c) \/ get_index_infos(c)
OnMasters(c) ==
    \/ make_vsfs_dir(c) \/ insert_name(c) \/ make_index_dir(c) \/ create_partition(c)
    \/ list_partition(c) \/ roll_back_partition(c) \/ remove_index_dir(c)
    \/ unlink_entry(c) \/ unlink_record(c)
Creates(c) == create_on_server(c) \/ created_on_server(c)
Reads(c) == locate_index_for_search(c) \/ find_files(c) \/ readdir_getattr(c)
Begins(c) == \E cmd \in Commands : Begin(c, cmd)

\* The steps, by what they change.
LEMMA Groups ==
    ASSUME Next
    PROVE  \/ \E c \in Client :
                \/ Quiet(c) \/ OnMasters(c) \/ Creates(c) \/ Reads(c) \/ Begins(c)
                \/ update(c) \/ search_server(c) \/ info_server(c)
           \/ \E f \in File : CreateFile(f) \/ UnlinkFile(f)
           \/ \E s \in Server : Restart(s)
<1>1. \A c \in Client : Step(c) => \/ Quiet(c) \/ OnMasters(c) \/ Creates(c) \/ Reads(c)
                                  \/ update(c) \/ search_server(c) \/ info_server(c)
  BY DEF Step, Quiet, OnMasters, Creates, Reads
<1>. QED BY <1>1, BeginsCommand DEF Next, Begins

\* What the steps of a group leave alone.
LEMMA Frames ==
    ASSUME NEW c \in Client
    PROVE  /\ Quiet(c) => UNCHANGED <<imVars, masters, Env, histories>>
           /\ OnMasters(c) => UNCHANGED <<imVars, Env, histories>>
           /\ Creates(c) => UNCHANGED <<masters, Env, histories>>
           /\ Reads(c) => UNCHANGED <<imVars, masters, Env>> /\ UNCHANGED <<acked, mine, ever>>
           /\ update(c) \/ search_server(c) \/ info_server(c) => UNCHANGED <<masters, Env>>
           /\ Begins(c) => UNCHANGED <<imVars, masters, files, faulty, acked, mine, ever>>
<1>1. Quiet(c) => UNCHANGED <<imVars, masters, Env, histories>>
  BY DEF Quiet, create_index, remove_index, climb, find_objects, list_subfiles, getattr_subfile,
         get_index_infos
<1>2. OnMasters(c) => UNCHANGED <<imVars, Env, histories>>
  <2>. USE DEF imVars, Env, histories
  <2>1. make_vsfs_dir(c) \/ insert_name(c) \/ make_index_dir(c) => UNCHANGED <<imVars, Env, histories>>
    BY DEF make_vsfs_dir, insert_name, make_index_dir
  <2>2. create_partition(c) \/ list_partition(c) \/ roll_back_partition(c)
          => UNCHANGED <<imVars, Env, histories>>
    BY DEF create_partition, list_partition, roll_back_partition
  <2>3. remove_index_dir(c) \/ unlink_entry(c) \/ unlink_record(c) => UNCHANGED <<imVars, Env, histories>>
    BY DEF remove_index_dir, unlink_entry, unlink_record
  <2>. QED BY <2>1, <2>2, <2>3 DEF OnMasters
<1>3. Creates(c) => UNCHANGED <<masters, Env, histories>>
  BY DEF Creates, create_on_server, created_on_server
<1>4. Reads(c) => UNCHANGED <<imVars, masters, Env>> /\ UNCHANGED <<acked, mine, ever>>
  <2>1. \A found : Searched(c, found) => UNCHANGED <<acked, mine, ever>>
    BY DEF Searched, Over, histories
  <2>2. locate_index_for_search(c) => UNCHANGED <<acked, mine, ever>>
    <3>. DEFINE next == Located(c, {i \in listed : Matches(i, call[c].cmd)})
    <3>. HIDE DEF next
    <3>1. next.left # {} \/ (next.left = {} /\ next.hits = {}) \/ (next.left = {} /\ next.hits # {})
      OBVIOUS
    <3>. QED BY <2>1, <3>1 DEF locate_index_for_search, histories, next
  <2>3. find_files(c) => UNCHANGED <<acked, mine, ever>> BY <2>1 DEF find_files, histories
  <2>4. readdir_getattr(c) => UNCHANGED <<acked, mine, ever>> BY DEF readdir_getattr, Over, histories
  <2>. QED BY <2>2, <2>3, <2>4 DEF Reads, locate_index_for_search, find_files, readdir_getattr
<1>5. update(c) \/ search_server(c) \/ info_server(c) => UNCHANGED <<masters, Env>>
  BY DEF update, search_server, info_server
<1>6. Begins(c) => UNCHANGED <<imVars, masters, files, faulty, acked, mine, ever>>
  BY DEF Begins, Begin
<1>. QED BY <1>1, <1>2, <1>3, <1>4, <1>5, <1>6

\* The records that an update asks for.
LEMMA OpsAre ==
    ASSUME Typed, NEW c \in Client, At(c, "send"), NEW i
    PROVE  /\ DOMAIN OpsFor(c, i) \subseteq DOMAIN Reqs(call[c].cmd, call[c].batch)
           /\ DOMAIN OpsFor(c, i) \subseteq Nat
           /\ \A j \in DOMAIN OpsFor(c, i) :
                LET r == Reqs(call[c].cmd, call[c].batch)[j] IN
                /\ r \in [file : File, key : Nat]
                /\ TargetOf(call[c].target, r.file) = i
                /\ OpsFor(c, i)[j].key = r.key
                /\ OpsFor(c, i)[j].id \in Object
                /\ r.file \notin Volatile => OpsFor(c, i)[j].id = r.file
<1>. DEFINE k == call[c]
            reqs == Reqs(k.cmd, k.batch)
            asked == {j \in DOMAIN reqs : TargetOf(k.target, reqs[j].file) = i}
            Id(f) == (CHOOSE p \in k.ids : p[1] = f)[2]
            ops == [j \in asked |-> [key |-> reqs[j].key, id |-> Id(reqs[j].file)]]
<1>1. k \in SendCall BY DEF At, Typed, CallsTyped, CallOK
<1>2. /\ k.cmd \in UpdateCmd /\ k.batch \in DOMAIN k.cmd.batches /\ k.ids \in Ids
      /\ \A f \in FilesIn(k) : Identified(k.ids, f)
  BY <1>1 DEF SendCall
<1>3. reqs \in Seq([file : File, key : Nat]) BY <1>2, BatchIs
<1>4. ops = OpsFor(c, i) BY DEF OpsFor
<1>5. asked \subseteq DOMAIN reqs /\ DOMAIN reqs \subseteq Nat
  <2>. HIDE DEF reqs
  <2>1. DOMAIN reqs \subseteq Nat BY SMT, <1>3
  <2>. QED BY <2>1
<1>6. ASSUME NEW j \in DOMAIN reqs
      PROVE  reqs[j] \in [file : File, key : Nat] /\ reqs[j].file \in FilesIn(k)
  <2>1. reqs[j] \in [file : File, key : Nat]
    <3>. HIDE DEF reqs
    <3>. QED BY <1>3, Elements
  <2>2. reqs[j] \in Range(reqs) BY DEF Range
  <2>. QED BY <2>1, <2>2 DEF FilesIn
<1>7. ASSUME NEW f \in FilesIn(k)
      PROVE  Id(f) \in Object /\ (f \notin Volatile => Id(f) = f)
  <2>1. PICK p \in k.ids : p[1] = f BY <1>2 DEF Identified
  <2>. DEFINE q == CHOOSE p2 \in k.ids : p2[1] = f
  <2>2. q \in k.ids /\ q[1] = f BY <2>1
  <2>. HIDE DEF q
  <2>3. q \in File \X Object /\ (q[1] \notin Volatile => q[2] = q[1]) BY <1>2, <2>2 DEF Ids
  <2>4. q[2] \in Object BY <2>3
  <2>. QED BY <2>2, <2>3, <2>4 DEF q
<1>. HIDE DEF Id, k, reqs
<1>8. DOMAIN ops = asked /\ \A j \in asked : ops[j].key = reqs[j].key /\ ops[j].id = Id(reqs[j].file)
  OBVIOUS
<1>9. ASSUME NEW j \in DOMAIN ops
      PROVE  /\ reqs[j] \in [file : File, key : Nat] /\ TargetOf(k.target, reqs[j].file) = i
             /\ ops[j].key = reqs[j].key /\ ops[j].id \in Object
             /\ reqs[j].file \notin Volatile => ops[j].id = reqs[j].file
  BY <1>5, <1>6, <1>7, <1>8
<1>10. DOMAIN ops \subseteq DOMAIN reqs /\ DOMAIN ops \subseteq Nat BY <1>5, <1>8
<1>. HIDE DEF ops
<1>. QED BY <1>4, <1>9, <1>10 DEF k, reqs

\* What is cast of them are records, and what they insert are insertions.
LEMMA RecordsAre ==
    ASSUME Typed, NEW c \in Client, At(c, "send"), NEW i \in Index
    PROVE  RecordsOf(OpsFor(c, i)) \subseteq Record
<1>. DEFINE ops == OpsFor(c, i)
<1>1. DOMAIN ops \subseteq Nat /\ \A j \in DOMAIN ops : ops[j].id \in Object BY OpsAre
<1>. HIDE DEF ops
<1>2. ASSUME NEW j \in CastKeys(ops) PROVE ops[j].key \in Key /\ ops[j].id \in Object
  <2>1. j \in DOMAIN ops /\ \A h \in DOMAIN ops : h <= j => ops[h].key \in Key BY DEF CastKeys
  <2>2. j <= j BY SMT, <1>1, <2>1
  <2>. QED BY <1>1, <2>1, <2>2
<1>3. \A j \in CastKeys(ops) : [key |-> ops[j].key, id |-> ops[j].id] \in Record
  BY <1>2 DEF Record, Object
<1>. QED BY <1>3 DEF RecordsOf, ops

\* Insertions of records are insertions.
LEMMA InsertionsAre ==
    ASSUME NEW i \in Index, NEW records, records \subseteq Record
    PROVE  InsertionsOf(i, records) \subseteq Insertion
<1>1. \A r \in records : r.id # NoObject => [index |-> i, key |-> r.key, file |-> r.id] \in Insertion
  <2>1. \A r \in records : r.key \in Key /\ r.id \in File \cup {NoObject} BY DEF Record
  <2>. QED BY <2>1 DEF Insertion
<1>. QED BY <1>1 DEF InsertionsOf

\* A list that is sent names an index.
LEMMA ListIs ==
    ASSUME Typed, NEW c \in Client, At(c, "send")
    PROVE  /\ call[c].lists \subseteq Index
           /\ call[c].cmd \in UpdateCmd
BY DEF At, Typed, CallsTyped, CallOK, SendCall

\* A client names an index in each call of create_index() and remove_index().
LEMMA NamesIndex ==
    ASSUME Typed, NEW c \in Client, call[c].at \in Creating \cup Partitioning \cup Undoing
    PROVE  Named(c) \in Index
<1>1. call[c].cmd \in IndexCmd
  BY DEF Typed, CallsTyped, CallOK, CreateCall, PartitionCall, UndoCall
<1>. QED BY <1>1, CommandsAre DEF Named

\* What the index servers do keeps their types.
LEMMA ServersTyped ==
    ASSUME IndexManagerTypeOK
    PROVE  /\ \A c \in Client, i \in Index : \A type, key, status :
                create(c, i, type, key, status) => IndexManagerTypeOK'
           /\ \A c \in Client, i \in Index : create_filled(c, i) => IndexManagerTypeOK'
           /\ \A i \in Index : \A kind, ops, status :
                RecordsOf(ops) \subseteq Record /\ update_single_index(i, kind, ops, status)
                  => IndexManagerTypeOK'
           /\ \A s : Crash(s) => IndexManagerTypeOK'
           /\ UNCHANGED imVars => IndexManagerTypeOK'
<1>. USE DEF IndexManagerTypeOK
<1>1. ASSUME NEW c \in Client, NEW i \in Index, NEW type, NEW key, NEW status,
             create(c, i, type, key, status)
      PROVE  IndexManagerTypeOK'
  <2>1. lock' = lock \/ lock' = [lock EXCEPT ![home[i]] = c] BY <1>1 DEF create
  <2>2. gone' = gone \/ gone' = gone \cup {i} BY <1>1 DEF create
  <2>3. lock' \in [Server -> Client \cup {Unlocked}] BY <2>1
  <2>4. gone' \in SUBSET Index BY <2>2
  <2>. QED BY <1>1, <2>3, <2>4 DEF create
<1>2. ASSUME NEW c \in Client, NEW i \in Index, create_filled(c, i) PROVE IndexManagerTypeOK'
  <2>1. lock' \in [Server -> Client \cup {Unlocked}] BY <1>2 DEF create_filled
  <2>2. DOMAIN served' = Index /\ \A j \in Index : served'[j] = NoIndex \/ served'[j] \subseteq Record
    BY <1>2 DEF create_filled
  <2>. QED BY <1>2, <2>1, <2>2 DEF create_filled
<1>3. ASSUME NEW i \in Index, NEW kind, NEW ops, NEW status, RecordsOf(ops) \subseteq Record,
             update_single_index(i, kind, ops, status)
      PROVE  IndexManagerTypeOK'
  <2>1. CASE served[i] = NoIndex BY <1>3, <2>1 DEF update_single_index, imVars
  <2>2. CASE served[i] # NoIndex
    <3>1. apply(served[i], kind, ops) \subseteq Record BY <1>3, <2>2 DEF apply
    <3>2. served' = [served EXCEPT ![i] = apply(served[i], kind, ops)] BY <1>3, <2>2 DEF update_single_index
    <3>3. DOMAIN served' = Index /\ \A j \in Index : served'[j] = NoIndex \/ served'[j] \subseteq Record
      BY <3>1, <3>2
    <3>. QED BY <1>3, <2>2, <3>3 DEF update_single_index
  <2>. QED BY <2>1, <2>2
<1>4. ASSUME NEW s, Crash(s) PROVE IndexManagerTypeOK'
  <2>1. lock' \in [Server -> Client \cup {Unlocked}] BY <1>4 DEF Crash
  <2>2. DOMAIN served' = Index /\ \A j \in Index : served'[j] = NoIndex \/ served'[j] \subseteq Record
    BY <1>4 DEF Crash
  <2>3. gone' \in SUBSET Index BY <1>4 DEF Crash
  <2>. QED BY <1>4, <2>1, <2>2, <2>3 DEF Crash
<1>5. UNCHANGED imVars => IndexManagerTypeOK' BY DEF imVars
<1>. HIDE DEF IndexManagerTypeOK
<1>. QED BY <1>1, <1>2, <1>3, <1>4, <1>5

\* The types of the index servers hold after each step.
LEMMA ServersKept == ASSUME Typed, Next PROVE IndexManagerTypeOK'
<1>0. IndexManagerTypeOK BY DEF Typed
<1>1. ASSUME NEW c \in Client, Quiet(c) \/ OnMasters(c) \/ Reads(c) \/ Begins(c)
      PROVE  IndexManagerTypeOK'
  BY <1>0, <1>1, Frames, ServersTyped
<1>2. ASSUME NEW c \in Client, Creates(c) PROVE IndexManagerTypeOK'
  <2>1. Named(c) \in Index
    BY <1>2, NamesIndex DEF Creates, create_on_server, created_on_server, At, Creating
  <2>. QED BY <1>0, <1>2, <2>1, ServersTyped DEF Creates, create_on_server, created_on_server
<1>3. ASSUME NEW c \in Client, update(c) PROVE IndexManagerTypeOK'
  <2>1. At(c, "send") BY <1>3 DEF update
  <2>2. PICK i \in call[c].lists :
          \/ \E status : update_single_index(i, call[c].cmd.kind, OpsFor(c, i), status)
          \/ UNCHANGED imVars
          \/ ServerDies(c, i, "died")
    BY <1>3 DEF update
  <2>3. i \in Index /\ RecordsOf(OpsFor(c, i)) \subseteq Record BY <2>1, ListIs, RecordsAre
  <2>. QED BY <1>0, <2>2, <2>3, ServersTyped DEF ServerDies
<1>4. ASSUME NEW c \in Client, search_server(c) \/ info_server(c) PROVE IndexManagerTypeOK'
  <2>1. UNCHANGED imVars \/ \E s : Crash(s) BY <1>4 DEF search_server, info_server, ServerDies
  <2>. QED BY <1>0, <2>1, ServersTyped
<1>5. ASSUME NEW f \in File, CreateFile(f) \/ UnlinkFile(f) PROVE IndexManagerTypeOK'
  BY <1>0, <1>5, ServersTyped DEF CreateFile, UnlinkFile
<1>6. ASSUME NEW s \in Server, Restart(s) PROVE IndexManagerTypeOK'
  BY <1>0, <1>6, ServersTyped DEF Restart
<1>. QED BY <1>1, <1>2, <1>3, <1>4, <1>5, <1>6, Groups

\* The types of the masters hold after each step.
LEMMA MastersKept == ASSUME Typed, Next PROVE MastersTyped'
<1>0. MastersTyped BY DEF Typed
<1>1. UNCHANGED masters => MastersTyped' BY <1>0 DEF masters, MastersTyped
<1>2. ASSUME NEW c \in Client, OnMasters(c) PROVE MastersTyped'
  <2>1. Named(c) \in Index
    BY <1>2, NamesIndex DEF OnMasters, make_vsfs_dir, insert_name, make_index_dir, create_partition,
       list_partition, roll_back_partition, remove_index_dir, unlink_entry, unlink_record, At,
       Creating, Partitioning, Undoing
  <2>2. make_vsfs_dir(c) => Named(c).root \in Dir
    BY DEF make_vsfs_dir, At, Typed, CallsTyped, CallOK, CreateCall, Creating, Named
  <2>. USE DEF MastersTyped
  <2>3. CASE make_vsfs_dir(c) BY <1>0, <2>2, <2>3 DEF make_vsfs_dir
  <2>4. CASE insert_name(c) BY <1>0, <2>1, <2>4 DEF insert_name
  <2>5. CASE make_index_dir(c) BY <1>0, <2>1, <2>5 DEF make_index_dir
  <2>6. CASE create_partition(c) BY <1>0, <2>1, <2>6 DEF create_partition
  <2>7. CASE list_partition(c) BY <1>0, <2>1, <2>7 DEF list_partition
  <2>8. CASE roll_back_partition(c) BY <1>0, <2>8 DEF roll_back_partition
  <2>9. CASE remove_index_dir(c) BY <1>0, <2>9 DEF remove_index_dir
  <2>10. CASE unlink_entry(c) BY <1>0, <2>10 DEF unlink_entry
  <2>11. CASE unlink_record(c) BY <1>0, <2>11 DEF unlink_record
  <2>. QED BY <1>2, <2>3, <2>4, <2>5, <2>6, <2>7, <2>8, <2>9, <2>10, <2>11 DEF OnMasters
<1>3. \A f : CreateFile(f) \/ UnlinkFile(f) => UNCHANGED masters BY DEF CreateFile, UnlinkFile
<1>4. \A s : Restart(s) => UNCHANGED masters BY DEF Restart
<1>. QED BY <1>1, <1>2, <1>3, <1>4, Groups, Frames

\* The types of the environment hold after each step.
LEMMA EnvKept == ASSUME Typed, Next PROVE EnvTyped'
<1>0. EnvTyped BY DEF Typed
<1>1. UNCHANGED Env => EnvTyped' BY <1>0 DEF Env, EnvTyped
<1>2. ASSUME NEW c \in Client, Begins(c) PROVE EnvTyped'
  <2>1. given < MaxCommands /\ given' = given + 1 BY <1>2 DEF Begins, Begin
  <2>2. given' \in 0 .. MaxCommands BY SMT, <1>0, <2>1, IndexClientAssumption DEF EnvTyped
  <2>. QED BY <1>0, <1>2, <2>2, Frames DEF EnvTyped
<1>3. ASSUME NEW f \in File, CreateFile(f) \/ UnlinkFile(f) PROVE EnvTyped'
  BY <1>0, <1>3 DEF CreateFile, UnlinkFile, EnvTyped
<1>4. \A s : Restart(s) => UNCHANGED Env BY DEF Restart
<1>. QED BY <1>1, <1>2, <1>3, <1>4, Groups, Frames

\* What is not in force any longer leaves insertions.
LEMMA ForgetTyped ==
    ASSUME HistoriesTyped, NEW lost, Forget(lost), UNCHANGED ever
    PROVE  HistoriesTyped'
<1>1. \A c \in Client : mine[c] \in SUBSET Insertion /\ due[c] \in SUBSET Insertion BY DEF HistoriesTyped
<1>2. mine' \in [Client -> SUBSET Insertion] BY <1>1 DEF Forget
<1>3. due' \in [Client -> SUBSET Insertion] BY <1>1 DEF Forget
<1>. QED BY <1>2, <1>3 DEF Forget, HistoriesTyped

\* A server that dies keeps the types of the histories.
LEMMA DiesTyped ==
    ASSUME HistoriesTyped, NEW c \in Client, NEW i, NEW status, ServerDies(c, i, status)
    PROVE  HistoriesTyped'
<1>1. \A d \in Client : mine[d] \in SUBSET Insertion /\ due[d] \in SUBSET Insertion BY DEF HistoriesTyped
<1>2. mine' \in [Client -> SUBSET Insertion] BY <1>1 DEF ServerDies
<1>3. due' \in [Client -> SUBSET Insertion] BY <1>1 DEF ServerDies
<1>. QED BY <1>2, <1>3 DEF ServerDies, HistoriesTyped

\* An update that happens keeps the types of the histories.
LEMMA HappensTyped ==
    ASSUME HistoriesTyped, NEW c \in Client, NEW i \in Index, NEW kind, NEW ops,
           RecordsOf(ops) \subseteq Record, Happens(c, i, kind, ops)
    PROVE  HistoriesTyped'
<1>1. CASE kind = "REMOVE" BY <1>1, ForgetTyped DEF Happens
<1>2. CASE kind # "REMOVE"
  <2>. DEFINE asked == {a \in InsertionsOf(i, Asked(ops)) : a.file \in files}
              made == mine[c] \cup asked
  <2>1. InsertionsOf(i, RecordsOf(ops)) \subseteq Insertion BY InsertionsAre
  <2>2. InsertionsOf(i, Asked(ops)) \subseteq Insertion
    <3>1. Asked(ops) \subseteq Record BY DEF Asked
    <3>. QED BY <3>1, InsertionsAre
  <2>3. made \subseteq Insertion BY <2>2 DEF HistoriesTyped
  <2>. HIDE DEF made
  <2>4. /\ ever' = ever \/ ever' = ever \cup InsertionsOf(i, RecordsOf(ops))
        /\ mine' = [mine EXCEPT ![c] = IF call'[c] = Idle \/ BatchDone(c) THEN {} ELSE made]
        /\ acked' = acked \/ acked' = acked \cup made
        /\ due' = due
    BY <1>2 DEF Happens, made
  <2>5. mine' \in [Client -> SUBSET Insertion] BY <2>3, <2>4 DEF HistoriesTyped
  <2>. QED BY <2>1, <2>3, <2>4, <2>5 DEF HistoriesTyped
<1>. QED BY <1>1, <1>2

\* The types of the histories hold after each step.
LEMMA HistoriesKept == ASSUME Typed, Next PROVE HistoriesTyped'
<1>0. HistoriesTyped BY DEF Typed
<1>1. UNCHANGED histories => HistoriesTyped' BY <1>0 DEF histories, HistoriesTyped
<1>2. ASSUME NEW c \in Client, Over(c) PROVE HistoriesTyped' BY <1>0, <1>2 DEF Over, HistoriesTyped
<1>3. ASSUME NEW c \in Client, NEW found, Searched(c, found) PROVE HistoriesTyped'
  BY <1>1, <1>2, <1>3 DEF Searched
<1>4. ASSUME NEW c \in Client, Reads(c) PROVE HistoriesTyped'
  <2>1. CASE locate_index_for_search(c)
    <3>. DEFINE next == Located(c, {i \in listed : Matches(i, call[c].cmd)})
    <3>. HIDE DEF next
    <3>1. next.left # {} \/ (next.left = {} /\ next.hits = {}) \/ (next.left = {} /\ next.hits # {})
      OBVIOUS
    <3>. QED BY <1>1, <1>3, <2>1, <3>1 DEF locate_index_for_search, next
  <2>2. CASE find_files(c) BY <1>1, <1>3, <2>2 DEF find_files
  <2>3. CASE readdir_getattr(c) BY <1>1, <1>2, <2>3 DEF readdir_getattr
  <2>. QED BY <1>4, <2>1, <2>2, <2>3 DEF Reads
<1>5. ASSUME NEW c \in Client, Begins(c) PROVE HistoriesTyped'
  <2>1. PICK cmd \in Commands : Begin(c, cmd) BY <1>5 DEF Begins
  <2>2. Due(cmd) \subseteq Insertion BY <1>0 DEF Due, HistoriesTyped
  <2>3. due' = due \/ due' = [due EXCEPT ![c] = Due(cmd)] BY <2>1 DEF Begin
  <2>. QED BY <1>0, <2>1, <2>2, <2>3 DEF Begin, HistoriesTyped
<1>6. ASSUME NEW c \in Client, update(c) PROVE HistoriesTyped'
  <2>1. At(c, "send") BY <1>6 DEF update
  <2>2. PICK i \in call[c].lists :
          \/ Happens(c, i, call[c].cmd.kind, OpsFor(c, i)) \/ Happens(c, i, call[c].cmd.kind, <<>>)
          \/ ServerDies(c, i, "died")
    BY <1>6 DEF update
  <2>3. i \in Index /\ RecordsOf(OpsFor(c, i)) \subseteq Record BY <2>1, ListIs, RecordsAre
  <2>4. RecordsOf(<<>>) \subseteq Record
    <3>1. CastKeys(<<>>) = {} BY SMT DEF CastKeys
    <3>. QED BY <3>1 DEF RecordsOf
  <2>. QED BY <1>0, <2>2, <2>3, <2>4, HappensTyped, DiesTyped
<1>7. ASSUME NEW c \in Client, search_server(c) PROVE HistoriesTyped'
  <2>1. \/ \E found : Searched(c, found)
        \/ UNCHANGED histories \/ Over(c) \/ \E i, s : ServerDies(c, i, s)
    BY <1>7 DEF search_server
  <2>. QED BY <1>0, <1>1, <1>2, <1>3, <2>1, DiesTyped
<1>8. ASSUME NEW c \in Client, info_server(c) PROVE HistoriesTyped'
  BY <1>0, <1>1, <1>8, DiesTyped DEF info_server
<1>9. ASSUME NEW f \in File, CreateFile(f) \/ UnlinkFile(f) PROVE HistoriesTyped'
  BY <1>0, <1>1, <1>9, ForgetTyped DEF CreateFile, UnlinkFile
<1>10. ASSUME NEW s \in Server, Restart(s) PROVE HistoriesTyped'
  BY <1>0, <1>10, ForgetTyped DEF Restart
<1>. QED BY <1>1, <1>4, <1>5, <1>6, <1>7, <1>8, <1>9, <1>10, Groups, Frames

\* What may be returned.
LEMMA AnswersAre ==
    /\ \A c, found, status : status \in {"OK", "error", "died"} /\ found \in SUBSET Found
         /\ ReturnFound(c, status, found) => answer' \in Answer
    /\ \A c, status : status \in {"OK", "error", "died"} /\ Return(c, status) => answer' \in Answer
    /\ Keep => answer' \in Answer
<1>1. \A status \in {"none", "OK", "error", "died"}, found \in SUBSET Found :
        [status |-> status, found |-> found] \in Answer
  BY DEF Answer
<1>2. {} \in SUBSET Found OBVIOUS
<1>. QED BY <1>1, <1>2 DEF Return, ReturnFound, Keep, NoAnswer

\* A search returns files, or paths that are empty.
LEMMA SearchedAnswers ==
    ASSUME NEW c \in Client, NEW found \in SUBSET Found, Searched(c, found)
    PROVE  answer' \in Answer
BY AnswersAre DEF Searched

\* A step of a search keeps the type of the answer.
LEMMA SearchAnswers ==
    ASSUME Typed, NEW c \in Client, Reads(c) \/ search_server(c)
    PROVE  answer' \in Answer
<1>1. \A status \in {"OK", "error", "died"} : Return(c, status) => answer' \in Answer
  BY AnswersAre
<1>2. Keep => answer' \in Answer BY AnswersAre
<1>3. CASE locate_index_for_search(c)
  <2>. DEFINE next == Located(c, {i \in listed : Matches(i, call[c].cmd)})
  <2>. HIDE DEF next
  <2>1. next.left # {} \/ (next.left = {} /\ next.hits = {}) \/ (next.left = {} /\ next.hits # {})
    OBVIOUS
  <2>2. Keep \/ Searched(c, {}) BY <1>3, <2>1 DEF locate_index_for_search, next
  <2>. QED BY <1>2, <2>2, SearchedAnswers
<1>4. CASE find_files(c)
  <2>. DEFINE here == {o \in call[c].objects : MasterOfId(o) = Min(call[c].left)}
              found == call[c].found \cup {IF o \in files THEN o ELSE NoPath : o \in here}
  <2>1. call[c].found \in SUBSET Found
    BY <1>4 DEF find_files, At, Typed, CallsTyped, CallOK, PathsCall
  <2>2. \A o : (IF o \in files THEN o ELSE NoPath) \in Found BY DEF Typed, EnvTyped, Found
  <2>3. found \in SUBSET Found BY <2>1, <2>2
  <2>4. Keep \/ Searched(c, found) BY <1>4 DEF find_files
  <2>. HIDE DEF found
  <2>. QED BY <1>2, <2>3, <2>4, SearchedAnswers
<1>5. CASE readdir_getattr(c)
  <2>1. call[c].found \in SUBSET Found
    BY <1>5 DEF readdir_getattr, At, Typed, CallsTyped, CallOK, GetattrsCall
  <2>2. Keep \/ Return(c, "error") \/ ReturnFound(c, "OK", call[c].found) BY <1>5 DEF readdir_getattr
  <2>. QED BY <1>1, <1>2, <2>1, <2>2, AnswersAre
<1>6. CASE search_server(c)
  <2>1. Keep \/ Return(c, "error") \/ Searched(c, {}) BY <1>6 DEF search_server, ServerDies
  <2>. QED BY <1>1, <1>2, <2>1, SearchedAnswers
<1>. QED BY <1>3, <1>4, <1>5, <1>6 DEF Reads

\* The type of the answer holds after each step.
LEMMA AnswersKept == ASSUME Typed, Next PROVE answer' \in Answer
<1>1. \A c, status : status \in {"OK", "error", "died"} /\ Return(c, status) => answer' \in Answer
  BY AnswersAre
<1>2. Keep => answer' \in Answer BY AnswersAre
<1>3. \A c : Listed(c) => Keep \/ Return(c, "OK") BY DEF Listed
<1>4. \A c, then : Undo(c, then) => Keep BY DEF Undo
<1>5. \A c : (Partition(c) => Keep) /\ (Failing(c) => Keep) BY DEF Partition, Failing
<1>6. ASSUME NEW c \in Client, NEW status \in {"OK", "error"}, call[c].at \in Undoing, Undone(c, status)
      PROVE  Keep \/ Return(c, status) \/ Return(c, "OK")
  <2>1. call[c].then \in {"return", "partition", "succeed"}
    BY <1>6 DEF Typed, CallsTyped, CallOK, UndoCall
  <2>. QED BY <1>5, <1>6, <2>1 DEF Undone
<1>7. ASSUME NEW c \in Client, Quiet(c) PROVE answer' \in Answer
  <2>1. CASE create_index(c) BY <1>1, <1>2, <2>1 DEF create_index
  <2>2. CASE remove_index(c)
    <3>1. call[c].at \in Undoing BY <2>2 DEF remove_index, At, Undoing
    <3>2. \/ Named(c) \notin indexDirs \/ Named(c) \in indexDirs \ partEntry
          \/ Named(c) \in indexDirs \cap partEntry
      OBVIOUS
    <3>. QED BY <1>1, <1>2, <1>6, <2>2, <3>1, <3>2 DEF remove_index
  <2>3. CASE climb(c)
    <3>. DEFINE here == {i \in indexDirs : i.root = call[c].tmp /\ i.name = call[c].cmd.name}
                rest == call[c].dirs \ {call[c].dir}
    <3>. HIDE DEF here, rest
    <3>1. \/ (here # {} /\ rest # {}) \/ (here # {} /\ rest = {})
          \/ (here = {} /\ call[c].tmp # Root) \/ (here = {} /\ call[c].tmp = Root)
      OBVIOUS
    <3>2. Keep \/ Return(c, "died") BY <2>3, <3>1 DEF climb, here, rest
    <3>. QED BY <1>1, <1>2, <3>2
  <2>4. CASE find_objects(c) BY <1>2, <2>4 DEF find_objects
  <2>5. CASE list_subfiles(c) BY <1>1, <1>2, <2>5 DEF list_subfiles
  <2>6. CASE getattr_subfile(c)
    <3>1. Keep \/ Return(c, "error") BY <2>6 DEF getattr_subfile, getattr
    <3>. QED BY <1>1, <1>2, <3>1
  <2>7. CASE get_index_infos(c)
    <3>. DEFINE next == Located(c, {i \in listed : i.root = call[c].dir})
    <3>. HIDE DEF next
    <3>1. next.left # {} \/ (next.left = {} /\ next.hits = {}) \/ (next.left = {} /\ next.hits # {})
      OBVIOUS
    <3>2. Keep \/ Listed(c) BY <2>7, <3>1 DEF get_index_infos, next
    <3>. QED BY <1>1, <1>2, <1>3, <3>2
  <2>. QED BY <1>7, <2>1, <2>2, <2>3, <2>4, <2>5, <2>6, <2>7 DEF Quiet
<1>8. ASSUME NEW c \in Client, OnMasters(c) PROVE answer' \in Answer
  <2>1. CASE make_vsfs_dir(c) \/ insert_name(c) \/ make_index_dir(c)
    BY <1>2, <1>4, <1>5, <2>1 DEF make_vsfs_dir, insert_name, make_index_dir
  <2>2. CASE create_partition(c) \/ list_partition(c) \/ roll_back_partition(c) \/ remove_index_dir(c)
    BY <1>1, <1>2, <1>4, <1>5, <2>2
       DEF create_partition, list_partition, roll_back_partition, remove_index_dir
  <2>3. CASE unlink_entry(c) \/ unlink_record(c)
    <3>1. call[c].at \in Undoing BY <2>3 DEF unlink_entry, unlink_record, At, Undoing
    <3>. QED BY <1>1, <1>2, <1>5, <1>6, <2>3, <3>1 DEF unlink_entry, unlink_record
  <2>. QED BY <1>8, <2>1, <2>2, <2>3 DEF OnMasters
<1>9. ASSUME NEW c \in Client, Creates(c) PROVE answer' \in Answer
  <2>1. Keep \/ Return(c, "error") BY <1>9 DEF Creates, create_on_server, created_on_server, Unreachable
  <2>. QED BY <1>1, <1>2, <2>1
<1>10. ASSUME NEW c \in Client, Begins(c) PROVE answer' \in Answer
  <2>1. PICK cmd \in Commands : Begin(c, cmd) BY <1>10 DEF Begins
  <2>2. Ends(cmd) \in {"none", "OK", "error"} BY DEF Ends, help_run, Status
  <2>. QED BY <1>1, <1>2, <2>1, <2>2 DEF Begin
<1>11. ASSUME NEW c \in Client, update(c) PROVE answer' \in Answer
  <2>1. \A i, s : Sent(c, i, s) => Keep \/ Return(c, "died") \/ Return(c, "OK") \/ Return(c, "error")
    <3>1. NextBatch(c) => Keep \/ Return(c, "OK") \/ Return(c, "error") BY DEF NextBatch, Status
    <3>. TAKE i, s
    <3>. DEFINE lists == call[c].lists \ {i}
                rest == IF lists = {} THEN call[c].left \ {home[i]} ELSE call[c].left
                bad == call[c].bad \/ s # "OK"
    <3>. HIDE DEF lists, rest, bad
    <3>2. \/ (lists = {} /\ bad) \/ (lists = {} /\ ~bad /\ rest = {})
          \/ (lists = {} /\ ~bad /\ rest # {}) \/ lists # {}
      OBVIOUS
    <3>. QED BY <3>1, <3>2 DEF Sent, lists, rest, bad
  <2>2. Keep \/ Return(c, "died") \/ Return(c, "OK") \/ Return(c, "error")
    BY <1>11, <2>1 DEF update, Unreachable, ServerDies
  <2>. QED BY <1>1, <1>2, <2>2
<1>12. ASSUME NEW c \in Client, info_server(c) PROVE answer' \in Answer
  <2>1. Keep \/ Return(c, "OK") \/ Return(c, "error") BY <1>3, <1>12 DEF info_server, ServerDies
  <2>. QED BY <1>1, <1>2, <2>1
<1>13. \A f : CreateFile(f) \/ UnlinkFile(f) => Keep BY DEF CreateFile, UnlinkFile
<1>14. \A s : Restart(s) => Keep BY DEF Restart
<1>. QED BY <1>2, <1>7, <1>8, <1>9, <1>10, <1>11, <1>12, <1>13, <1>14, SearchAnswers, Groups

\* The types of the calls that clients are at hold after each step.
LEMMA CallsKept == ASSUME Typed, Next PROVE CallsTyped'
<1>0. CallsTyped BY DEF Typed
<1>1. ASSUME NEW c \in Client, Moves(c) PROVE CallsTyped' BY <1>0, <1>1, Moved DEF Moves
<1>2. UNCHANGED call => CallsTyped' BY <1>0 DEF CallsTyped
<1>3. \A f : CreateFile(f) \/ UnlinkFile(f) => UNCHANGED call BY DEF CreateFile, UnlinkFile
<1>4. \A s : Restart(s) => UNCHANGED call BY DEF Restart
<1>. QED BY <1>1, <1>2, <1>3, <1>4, StepMoves, BeginsCommand, BeginMoves DEF Next

\* All types hold at first.
LEMMA TypedAtFirst == ASSUME Init PROVE Typed
<1>. USE DEF Init
<1>1. listed \subseteq Index /\ \A i \in listed : i.root \in Dir BY IndexClientAssumption
<1>2. home \in [Index -> Server] BY IndexClientAssumption
<1>3. DOMAIN served = Index /\ \A i \in Index : served[i] = NoIndex \/ served[i] \subseteq Record
  OBVIOUS
<1>4. lock \in [Server -> Client \cup {Unlocked}] OBVIOUS
<1>5. IndexManagerTypeOK BY <1>2, <1>3, <1>4 DEF IndexManagerTypeOK
<1>6. MastersTyped BY <1>1 DEF MastersTyped
<1>7. EnvTyped
  <2>1. given \in 0 .. MaxCommands BY SMT, IndexClientAssumption
  <2>. QED BY <2>1 DEF EnvTyped
<1>8. answer \in Answer BY DEF Answer, NoAnswer
<1>9. HistoriesTyped BY DEF HistoriesTyped
<1>10. CallsTyped BY Kinds DEF CallsTyped
<1>. QED BY <1>5, <1>6, <1>7, <1>8, <1>9, <1>10 DEF Typed

\* All types hold after each step.
LEMMA TypedKept == ASSUME Typed, [Next]_vars PROVE Typed'
<1>1. ASSUME Next PROVE Typed'
  BY <1>1, ServersKept, MastersKept, EnvKept, AnswersKept, HistoriesKept, CallsKept DEF Typed
<1>2. ASSUME UNCHANGED vars PROVE Typed'
  BY <1>2 DEF vars, imVars, masters, histories, Typed, IndexManagerTypeOK, MastersTyped, EnvTyped,
              HistoriesTyped, CallsTyped
<1>. QED BY <1>1, <1>2

\* The state of the index servers, of the masters and of the clients stays within
\* its types, whatever the commands, and a client holds, at each place of an
\* operation, what its next call needs: an index for the directory and an id for
\* each file before a list is sent, a server or a master that is left to be asked.
THEOREM IndexClientTypeOK == Spec => []TypeOK
<1>1. Init => Typed BY TypedAtFirst
<1>2. Typed /\ [Next]_vars => Typed' BY TypedKept
<1>3. Typed => TypeOK
  <2>. SUFFICES ASSUME Typed PROVE TypeOK OBVIOUS
  <2>1. ASSUME NEW c \in Client PROVE call[c] = Idle \/ [at |-> call[c].at] \in Call
    <3>. DEFINE w == call[c].at
    <3>1. w = "idle" => call[c] = Idle BY DEF Typed, CallsTyped, CallOK
    <3>2. w \in Creating \cup Partitioning \cup Undoing
                \cup {"idle", "climb", "resolve", "send", "locate", "ask", "paths", "getattrs",
                      "readdir", "subfiles", "infos", "info"}
      BY DEF Typed, CallsTyped, CallOK
    <3>. HIDE DEF w
    <3>3. w # "idle" => [at |-> w] \in Call BY <3>2 DEF Call, Creating, Partitioning, Undoing
    <3>. QED BY <3>1, <3>3 DEF w
  <2>2. answer \in [status : {"none", "OK", "error", "died"}, found : SUBSET (File \cup {NoPath})]
    BY DEF Typed, Answer, Found
  <2>. QED BY <2>1, <2>2 DEF Typed, MastersTyped, EnvTyped, HistoriesTyped, TypeOK
<1>. QED BY <1>1, <1>2, <1>3, PTL DEF Spec

(***************************************************************************)
(* Where a step leads                                                      *)
(***************************************************************************)

\* An idle client is at no call.
LEMMA IdleIs == Idle.at = "idle"
BY DEF Idle

\* A client that is not idle has a command.
LEMMA Fields ==
    ASSUME Typed, NEW c \in Client, call[c].at # "idle"
    PROVE  "at" \in DOMAIN call[c] /\ "cmd" \in DOMAIN call[c]
<1>. DEFINE k == call[c]
            Has == "at" \in DOMAIN k /\ "cmd" \in DOMAIN k
<1>0. CallOK(k) BY DEF Typed, CallsTyped
<1>. HIDE DEF k
<1>1. k \in CreateCall => Has BY DEF CreateCall
<1>2. k \in PartitionCall => Has BY DEF PartitionCall
<1>3. k \in UndoCall => Has BY DEF UndoCall
<1>4. k \in ClimbCall => Has BY DEF ClimbCall
<1>5. k \in ResolveCall => Has BY DEF ResolveCall
<1>6. k \in SendCall => Has BY DEF SendCall
<1>7. k \in LocateCall => Has BY DEF LocateCall
<1>8. k \in AskCall => Has BY DEF AskCall
<1>9. k \in PathsCall => Has BY DEF PathsCall
<1>10. k \in GetattrsCall => Has BY DEF GetattrsCall
<1>11. k \in ReaddirCall => Has BY DEF ReaddirCall
<1>12. k \in SubfilesCall => Has BY DEF SubfilesCall
<1>13. k \in InfosCall => Has BY DEF InfosCall
<1>. HIDE DEF Has
<1>14. Has
  BY <1>0, <1>1, <1>2, <1>3, <1>4, <1>5, <1>6, <1>7, <1>8, <1>9, <1>10, <1>11, <1>12, <1>13 DEF CallOK, k
<1>. QED BY <1>14 DEF Has, k

\* An operation carries its command to its end.
Carries(c) == call'[c] = Idle \/ call'[c].cmd = call[c].cmd

\* A client goes on with its command until it returns.
LEMMA SameCommand == ASSUME Typed, NEW c \in Client, Step(c) PROVE Carries(c)
<1>0. \A new : call' = [call EXCEPT ![c] = new] => call'[c] = new BY Moved DEF Typed
<1>1. \A s, f : ReturnFound(c, s, f) => Carries(c) BY <1>0 DEF ReturnFound, Carries
<1>2. \A s : Return(c, s) => Carries(c) BY <1>1 DEF Return
<1>3. \A new : Becomes(c, new) /\ new.cmd = call[c].cmd => Carries(c) BY <1>0 DEF Becomes, Carries
<1>4. \A w : call[c].at # "idle" /\ Goto(c, w) => Carries(c)
  BY <1>0, Fields DEF Goto, Carries
<1>5. /\ \A then : Undo(c, then) => Carries(c)
      /\ Partition(c) => Carries(c)
  BY <1>3 DEF Undo, Partition
<1>6. call[c].at # "idle" /\ Failing(c) => Carries(c) BY <1>3, Fields DEF Failing
<1>7. CASE create_index(c) \/ create_on_server(c) \/ created_on_server(c)
  BY <1>2, <1>4, <1>7 DEF create_index, create_on_server, created_on_server, Unreachable, At
<1>8. CASE make_vsfs_dir(c) \/ insert_name(c) \/ make_index_dir(c)
  BY <1>4, <1>5, <1>8 DEF make_vsfs_dir, insert_name, make_index_dir, At
<1>9. CASE create_partition(c) \/ list_partition(c)
  BY <1>2, <1>4, <1>6, <1>9 DEF create_partition, list_partition, At
<1>10. CASE roll_back_partition(c) \/ remove_index_dir(c)
  BY <1>2, <1>4, <1>5, <1>10 DEF roll_back_partition, remove_index_dir, At
<1>11. CASE remove_index(c) \/ unlink_entry(c) \/ unlink_record(c)
  <2>1. call[c].then \in {"return", "partition", "succeed"}
    BY <1>11 DEF remove_index, unlink_entry, unlink_record, At, Undoing, Typed, CallsTyped, CallOK, UndoCall
  <2>2. \A s : Undone(c, s) => Carries(c) BY <1>2, <1>5, <2>1 DEF Undone
  <2>3. \/ Named(c) \notin indexDirs \/ Named(c) \in indexDirs \ partEntry
        \/ Named(c) \in indexDirs \cap partEntry
    OBVIOUS
  <2>4. CASE remove_index(c) BY <1>4, <2>2, <2>3, <2>4 DEF remove_index, At
  <2>. QED BY <1>4, <1>6, <1>11, <2>2, <2>4 DEF unlink_entry, unlink_record, At
<1>12. CASE climb(c)
  <2>. DEFINE here == {i \in indexDirs : i.root = call[c].tmp /\ i.name = call[c].cmd.name}
              rest == call[c].dirs \ {call[c].dir}
  <2>. HIDE DEF here, rest
  <2>1. \/ (here # {} /\ rest # {}) \/ (here # {} /\ rest = {})
        \/ (here = {} /\ call[c].tmp # Root) \/ (here = {} /\ call[c].tmp = Root)
    OBVIOUS
  <2>2. \A b, ds, t : Climb(call[c].cmd, b, ds, t).cmd = call[c].cmd BY DEF Climb
  <2>3. \A t : [call[c] EXCEPT !.tmp = t].cmd = call[c].cmd BY <1>12, Fields DEF climb, At
  <2>4. CASE here # {} /\ rest # {}
    <3>1. \E b, ds, t : Becomes(c, Climb(call[c].cmd, b, ds, t)) BY <1>12, <2>4 DEF climb, here, rest
    <3>. QED BY <1>3, <2>2, <3>1
  <2>5. CASE here # {} /\ rest = {} BY <1>3, <1>12, <2>5 DEF climb, here, rest
  <2>6. CASE here = {} /\ call[c].tmp # Root BY <1>3, <1>12, <2>3, <2>6 DEF climb, here
  <2>7. CASE here = {} /\ call[c].tmp = Root BY <1>2, <1>12, <2>7 DEF climb, here
  <2>. QED BY <2>1, <2>4, <2>5, <2>6, <2>7
<1>13. CASE find_objects(c)
  <2>1. \A l, is : [call[c] EXCEPT !.left = l, !.ids = is].cmd = call[c].cmd
    BY <1>13, Fields DEF find_objects, At
  <2>2. \A is, ss : Send(c, is, ss).cmd = call[c].cmd BY DEF Send
  <2>. QED BY <1>3, <1>13, <2>1, <2>2 DEF find_objects
<1>14. CASE update(c)
  <2>1. NextBatch(c) => Carries(c)
    <3>1. \A b, ds, t : Climb(call[c].cmd, b, ds, t).cmd = call[c].cmd BY DEF Climb
    <3>. QED BY <1>2, <1>3, <3>1 DEF NextBatch
  <2>2. ASSUME NEW i, NEW s, Sent(c, i, s) PROVE Carries(c)
    <3>. DEFINE lists == call[c].lists \ {i}
                rest == IF lists = {} THEN call[c].left \ {home[i]} ELSE call[c].left
                bad == call[c].bad \/ s # "OK"
    <3>. HIDE DEF lists, rest, bad
    <3>1. \/ (lists = {} /\ bad) \/ (lists = {} /\ ~bad /\ rest = {})
          \/ (lists = {} /\ ~bad /\ rest # {}) \/ lists # {}
      OBVIOUS
    <3>2. \A is, ss : Send(c, is, ss).cmd = call[c].cmd BY DEF Send
    <3>3. \A l, b : [call[c] EXCEPT !.lists = l, !.bad = b].cmd = call[c].cmd
      BY <1>14, Fields DEF update, At
    <3>. QED BY <1>2, <1>3, <2>1, <2>2, <3>1, <3>2, <3>3 DEF Sent, lists, rest, bad
  <2>. QED BY <1>2, <1>14, <2>2 DEF update, Unreachable, ServerDies
<1>15. \A found : Searched(c, found) => Carries(c) BY <1>1, <1>3 DEF Searched
<1>16. \A indices : call[c].at # "idle" => Located(c, indices).cmd = call[c].cmd BY Fields DEF Located
<1>17. CASE locate_index_for_search(c)
  <2>. DEFINE next == Located(c, {i \in listed : Matches(i, call[c].cmd)})
  <2>1. next.cmd = call[c].cmd BY <1>16, <1>17 DEF locate_index_for_search, At
  <2>. HIDE DEF next
  <2>2. next.left # {} \/ (next.left = {} /\ next.hits = {}) \/ (next.left = {} /\ next.hits # {})
    OBVIOUS
  <2>. QED BY <1>3, <1>15, <1>17, <2>1, <2>2 DEF locate_index_for_search, next
<1>18. CASE search_server(c)
  <2>1. \A h, os : [call[c] EXCEPT !.hits = h, !.objects = os].cmd = call[c].cmd
    BY <1>18, Fields DEF search_server, At
  <2>2. \A os : Paths(call[c].cmd, os).cmd = call[c].cmd BY DEF Paths
  <2>. QED BY <1>2, <1>3, <1>15, <1>18, <2>1, <2>2 DEF search_server, ServerDies
<1>19. CASE find_files(c)
  <2>1. \A l, f : [call[c] EXCEPT !.left = l, !.found = f].cmd = call[c].cmd
    BY <1>19, Fields DEF find_files, At
  <2>. QED BY <1>3, <1>15, <1>19, <2>1 DEF find_files
<1>20. CASE readdir_getattr(c)
  <2>1. \A l : [call[c] EXCEPT !.left = l].cmd = call[c].cmd BY <1>20, Fields DEF readdir_getattr, At
  <2>. QED BY <1>1, <1>2, <1>3, <1>20, <2>1 DEF readdir_getattr
<1>21. \A stack : Resume(call[c].cmd, stack).cmd = call[c].cmd BY DEF Resume
<1>22. Listed(c) => Carries(c) BY <1>2, <1>3, <1>21 DEF Listed
<1>23. CASE list_subfiles(c) BY <1>2, <1>3, <1>21, <1>23 DEF list_subfiles
<1>24. CASE getattr_subfile(c) BY <1>2, <1>3, <1>21, <1>24 DEF getattr_subfile, getattr
<1>25. CASE get_index_infos(c)
  <2>. DEFINE next == Located(c, {i \in listed : i.root = call[c].dir})
  <2>1. next.cmd = call[c].cmd /\ [next EXCEPT !.at = "info"].cmd = call[c].cmd
    BY <1>16, <1>25, Fields DEF get_index_infos, At, Located
  <2>. HIDE DEF next
  <2>2. next.left # {} \/ (next.left = {} /\ next.hits = {}) \/ (next.left = {} /\ next.hits # {})
    OBVIOUS
  <2>. QED BY <1>3, <1>22, <1>25, <2>1, <2>2 DEF get_index_infos, next
<1>26. CASE info_server(c)
  <2>1. \A h : [call[c] EXCEPT !.hits = h].cmd = call[c].cmd BY <1>26, Fields DEF info_server, At
  <2>. QED BY <1>2, <1>3, <1>22, <1>26, <2>1 DEF info_server, ServerDies
<1>. QED
  BY <1>7, <1>8, <1>9, <1>10, <1>11, <1>12, <1>13, <1>14, <1>17, <1>18, <1>19, <1>20, <1>23, <1>24,
     <1>25, <1>26 DEF Step

\* Where the steps of create_index() and remove_index() may go.
LEMMA Places ==
    ASSUME Typed, NEW c \in Client, call[c].at \in Creating \cup Partitioning \cup Undoing
    PROVE  /\ \A w : Goto(c, w) =>
                /\ call'[c].at = w /\ call'[c].cmd = call[c].cmd
                /\ call[c].at \in Partitioning \cup Undoing => call'[c].failed = call[c].failed
                /\ call[c].at \in Undoing => call'[c].then = call[c].then
           /\ \A then : Undo(c, then) =>
                call'[c].at = "undo" /\ call'[c].cmd = call[c].cmd /\ call'[c].then = then
           /\ Partition(c) =>
                call'[c].at = "record" /\ call'[c].cmd = call[c].cmd /\ ~call'[c].failed
           /\ call[c].at \in Partitioning \cup Undoing /\ Failing(c) =>
                /\ call'[c].at = call[c].at /\ call'[c].cmd = call[c].cmd /\ call'[c].failed
                /\ call[c].at \in Undoing => call'[c].then = call[c].then
           /\ \A status : Return(c, status) => call'[c] = Idle
<1>0. \A new : call' = [call EXCEPT ![c] = new] => call'[c] = new BY Moved DEF Typed
<1>1. "at" \in DOMAIN call[c] /\ "cmd" \in DOMAIN call[c]
  BY Fields DEF Creating, Partitioning, Undoing
<1>2. /\ call[c].at \in Partitioning => "failed" \in DOMAIN call[c]
      /\ call[c].at \in Undoing => "failed" \in DOMAIN call[c] /\ "then" \in DOMAIN call[c]
  BY DEF Typed, CallsTyped, CallOK, PartitionCall, UndoCall
<1>3. ASSUME NEW w, Goto(c, w)
      PROVE  /\ call'[c].at = w /\ call'[c].cmd = call[c].cmd
             /\ call[c].at \in Partitioning \cup Undoing => call'[c].failed = call[c].failed
             /\ call[c].at \in Undoing => call'[c].then = call[c].then
  <2>1. call'[c] = [call[c] EXCEPT !.at = w] BY <1>0, <1>3 DEF Goto
  <2>. QED BY <1>1, <1>2, <2>1
<1>4. ASSUME call[c].at \in Partitioning \cup Undoing, Failing(c)
      PROVE  /\ call'[c].at = call[c].at /\ call'[c].cmd = call[c].cmd /\ call'[c].failed
             /\ call[c].at \in Undoing => call'[c].then = call[c].then
  <2>1. call'[c] = [call[c] EXCEPT !.failed = TRUE] BY <1>0, <1>4 DEF Failing, Becomes
  <2>. QED BY <1>1, <1>2, <1>4, <2>1
<1>5. ASSUME NEW then, Undo(c, then)
      PROVE  call'[c].at = "undo" /\ call'[c].cmd = call[c].cmd /\ call'[c].then = then
  <2>. DEFINE new == [at |-> "undo", cmd |-> call[c].cmd, then |-> then, failed |-> FALSE]
  <2>1. new.at = "undo" /\ new.cmd = call[c].cmd /\ new.then = then OBVIOUS
  <2>2. call'[c] = new BY <1>0, <1>5 DEF Undo, Becomes
  <2>. HIDE DEF new
  <2>. QED BY <2>1, <2>2
<1>6. ASSUME Partition(c)
      PROVE  call'[c].at = "record" /\ call'[c].cmd = call[c].cmd /\ ~call'[c].failed
  <2>. DEFINE new == [at |-> "record", cmd |-> call[c].cmd, failed |-> FALSE]
  <2>1. new.at = "record" /\ new.cmd = call[c].cmd /\ ~new.failed OBVIOUS
  <2>2. call'[c] = new BY <1>0, <1>6 DEF Partition, Becomes
  <2>. HIDE DEF new
  <2>. QED BY <2>1, <2>2
<1>7. \A status : Return(c, status) => call'[c] = Idle BY <1>0 DEF Return, ReturnFound
<1>. QED BY <1>3, <1>4, <1>5, <1>6, <1>7

\* The kind of its command tells where a client is.
LEMMA Kept ==
    ASSUME NEW k, CallOK(k)
    PROVE  /\ k.at \in Creating \cup Partitioning \cup Undoing => k.cmd \in IndexCmd
           /\ k.at \in {"climb", "resolve", "send"} => k.cmd \in UpdateCmd
           /\ k.at \in {"locate", "ask", "paths", "getattrs"} => k.cmd \in SearchCmd
           /\ k.at \in {"readdir", "subfiles", "infos", "info"} => k.cmd \in ListCmd
<1>1. k.at \in Creating \cup Partitioning \cup Undoing => k.cmd \in IndexCmd
  BY DEF CallOK, CreateCall, PartitionCall, UndoCall
<1>2. k.at \in {"climb", "resolve", "send"} => k.cmd \in UpdateCmd
  BY DEF CallOK, ClimbCall, ResolveCall, SendCall
<1>3. k.at \in {"locate", "ask", "paths", "getattrs"} => k.cmd \in SearchCmd
  BY DEF CallOK, LocateCall, AskCall, PathsCall, GetattrsCall
<1>4. k.at \in {"readdir", "subfiles", "infos", "info"} => k.cmd \in ListCmd
  BY DEF CallOK, ReaddirCall, SubfilesCall, InfosCall
<1>. QED BY <1>1, <1>2, <1>3, <1>4

\* A step that is not one of create_index() or remove_index() does not lead there.
LEMMA Elsewhere ==
    ASSUME Typed, CallsTyped', NEW c \in Client, Step(c),
           call[c].at \notin Creating \cup Partitioning \cup Undoing
    PROVE  call'[c].at \notin Creating \cup Partitioning \cup Undoing
<1>1. call[c].at # "idle"
  BY DEF Step, create_index, create_on_server, created_on_server, make_vsfs_dir, insert_name,
     make_index_dir, create_partition, list_partition, roll_back_partition, remove_index_dir,
     remove_index, unlink_entry, unlink_record, climb, find_objects, update,
     locate_index_for_search, search_server, find_files, readdir_getattr, list_subfiles,
     getattr_subfile, get_index_infos, info_server, At
<1>2. CallOK(call[c]) BY DEF Typed, CallsTyped
<1>3. call[c].cmd \in UpdateCmd \cup SearchCmd \cup ListCmd BY <1>1, <1>2, Kept DEF CallOK
<1>4. call[c].cmd \notin IndexCmd BY <1>3 DEF IndexCmd, UpdateCmd, SearchCmd, ListCmd
<1>5. CASE call'[c] = Idle
  <2>1. call'[c].at = "idle" BY <1>5, IdleIs
  <2>. QED BY <2>1 DEF Creating, Partitioning, Undoing
<1>6. CASE call'[c].cmd = call[c].cmd
  <2>1. CallOK(call'[c]) BY DEF CallsTyped
  <2>. HIDE DEF CallOK
  <2>2. call'[c].at \in Creating \cup Partitioning \cup Undoing => call'[c].cmd \in IndexCmd
    BY <2>1, Kept
  <2>. QED BY <1>4, <1>6, <2>2
<1>. QED BY <1>5, <1>6, SameCommand DEF Carries

\* Where a command begins.
LEMMA Starts ==
    ASSUME Typed, NEW c \in Client, Begins(c)
    PROVE  /\ call[c] = Idle
           /\ \/ call'[c] = Idle
              \/ call'[c].at \in {"getattr", "climb", "readdir", "subfiles", "infos", "locate"}
              \/ call'[c].at = "undo" /\ call'[c].then = "return"
<1>0. \A new : call' = [call EXCEPT ![c] = new] => call'[c] = new BY Moved DEF Typed
<1>1. PICK cmd \in Commands : Begin(c, cmd) BY DEF Begins
<1>2. call[c] = Idle BY <1>1 DEF Begin
<1>3. CASE Ends(cmd) # "none" BY <1>0, <1>1, <1>2, <1>3 DEF Begin, Return, ReturnFound
<1>4. CASE Ends(cmd) = "none"
  <2>1. call'[c] = run(cmd) BY <1>0, <1>1, <1>4 DEF Begin, Becomes
  <2>2. cmd.op \in {"usage", "help", "create", "destroy", "update", "list", "search", "readdir"}
    BY CommandAssumption
  <2>3. cmd.op # "usage" BY <1>4 DEF Ends
  <2>4. cmd.op # "help" BY <1>4 DEF Ends, help_run
  <2>5. CASE cmd.op = "create"
    <3>1. call'[c] = create_run(cmd) BY <2>1, <2>5 DEF run
    <3>2. create_run(cmd).at = "getattr" BY DEF create_run
    <3>. QED BY <1>2, <3>1, <3>2
  <2>6. CASE cmd.op = "destroy"
    <3>1. call'[c] = destroy_run(cmd) BY <2>1, <2>6 DEF run
    <3>2. destroy_run(cmd).at = "undo" /\ destroy_run(cmd).then = "return" BY DEF destroy_run
    <3>. QED BY <1>2, <3>1, <3>2
  <2>7. CASE cmd.op = "update"
    <3>1. call'[c] = update_run(cmd) BY <2>1, <2>7 DEF run
    <3>2. update_run(cmd).at = "climb" BY DEF update_run, Climb
    <3>. QED BY <1>2, <3>1, <3>2
  <2>8. CASE cmd.op = "list"
    <3>1. call'[c] = list_run(cmd) BY <2>1, <2>8 DEF run
    <3>2. \A stack : Resume(cmd, stack).at \in {"subfiles", "infos"} BY DEF Resume
    <3>3. list_run(cmd).at \in {"readdir", "subfiles", "infos"} BY <3>2 DEF list_run
    <3>. QED BY <1>2, <3>1, <3>3
  <2>9. CASE cmd.op \in {"search", "readdir"}
    <3>1. call'[c] = Locating(cmd) BY <2>1, <2>9 DEF run
    <3>2. Locating(cmd).at = "locate" BY DEF Locating
    <3>. QED BY <1>2, <3>1, <3>2
  <2>. QED BY <2>2, <2>3, <2>4, <2>5, <2>6, <2>7, <2>8, <2>9
<1>. QED BY <1>3, <1>4

\* A step moves one client at most.
LEMMA OneMoves ==
    ASSUME Typed, Next
    PROVE  \/ UNCHANGED call
           \/ \E c \in Client : (Step(c) \/ Begins(c)) /\ \A d \in Client \ {c} : call'[d] = call[d]
<1>1. ASSUME NEW c \in Client, Moves(c) PROVE \A d \in Client \ {c} : call'[d] = call[d]
  BY <1>1, Moved DEF Typed, Moves
<1>2. \A f : CreateFile(f) \/ UnlinkFile(f) => UNCHANGED call BY DEF CreateFile, UnlinkFile
<1>3. \A s : Restart(s) => UNCHANGED call BY DEF Restart
<1>4. \A c \in Client : Begins(c) => Moves(c) BY BeginMoves DEF Begins
<1>. QED BY <1>1, <1>2, <1>3, <1>4, StepMoves, BeginsCommand DEF Next, Begins

(***************************************************************************)
(* Listed and served                                                       *)
(***************************************************************************)

\* A server knows an index, or lost it.  A client that is about to have an index
\* listed was told by its server that it is there.
Known(i) == served[i] # NoIndex \/ i \in gone
AllKnown ==
    /\ ListedIsServed
    /\ \A c \in Client : call[c].at \in {"mkdir", "insert"} => Known(Named(c))

\* A server never forgets an index in secret.
LEMMA KnownForGood == ASSUME Typed, Next PROVE \A i \in Index : Known(i) => Known(i)'
<1>. DEFINE Lasts == \A i \in Index : Known(i) => Known(i)'
<1>1. UNCHANGED imVars => Lasts BY DEF imVars, Known
<1>2. ASSUME NEW s, Crash(s) PROVE Lasts BY <1>2 DEF Crash, Known
<1>3. ASSUME NEW c \in Client, NEW i \in Index, create_filled(c, i) PROVE Lasts
  <2>1. \A j \in Index : served[j] # NoIndex => served'[j] # NoIndex
    BY <1>3, IndexManagerAssumption DEF create_filled, Typed, IndexManagerTypeOK
  <2>. QED BY <1>3, <2>1 DEF create_filled, Known
<1>4. ASSUME NEW i \in Index, NEW kind, NEW ops, NEW status, RecordsOf(ops) \subseteq Record,
             update_single_index(i, kind, ops, status)
      PROVE  Lasts
  <2>1. CASE served[i] = NoIndex BY <1>1, <1>4, <2>1 DEF update_single_index
  <2>2. CASE served[i] # NoIndex
    <3>1. apply(served[i], kind, ops) \subseteq Record
      BY <1>4, <2>2 DEF apply, Typed, IndexManagerTypeOK
    <3>2. apply(served[i], kind, ops) # NoIndex BY <3>1, IndexManagerAssumption
    <3>3. served' = [served EXCEPT ![i] = apply(served[i], kind, ops)] /\ gone' = gone
      BY <1>4, <2>2 DEF update_single_index
    <3>4. \A j \in Index : served[j] # NoIndex => served'[j] # NoIndex
      BY <3>2, <3>3 DEF Typed, IndexManagerTypeOK
    <3>. QED BY <3>3, <3>4 DEF Known
  <2>. QED BY <2>1, <2>2
<1>5. ASSUME NEW c, NEW i, NEW type, NEW key, NEW status, create(c, i, type, key, status) PROVE Lasts
  BY <1>5 DEF create, Known
<1>. HIDE DEF Lasts
<1>6. ASSUME NEW c \in Client, Quiet(c) \/ OnMasters(c) \/ Reads(c) \/ Begins(c) PROVE Lasts
  BY <1>1, <1>6, Frames
<1>7. ASSUME NEW c \in Client, Creates(c) PROVE Lasts
  <2>1. Named(c) \in Index
    BY <1>7, NamesIndex DEF Creates, create_on_server, created_on_server, At, Creating
  <2>. QED BY <1>1, <1>3, <1>5, <1>7, <2>1 DEF Creates, create_on_server, created_on_server
<1>8. ASSUME NEW c \in Client, update(c) PROVE Lasts
  <2>1. At(c, "send") BY <1>8 DEF update
  <2>2. PICK i \in call[c].lists :
          \/ \E status : update_single_index(i, call[c].cmd.kind, OpsFor(c, i), status)
          \/ UNCHANGED imVars
          \/ ServerDies(c, i, "died")
    BY <1>8 DEF update
  <2>3. i \in Index /\ RecordsOf(OpsFor(c, i)) \subseteq Record BY <2>1, ListIs, RecordsAre
  <2>. QED BY <1>1, <1>2, <1>4, <2>2, <2>3 DEF ServerDies
<1>9. ASSUME NEW c \in Client, search_server(c) \/ info_server(c) PROVE Lasts
  BY <1>1, <1>2, <1>9 DEF search_server, info_server, ServerDies
<1>10. \A f \in File : CreateFile(f) \/ UnlinkFile(f) => Lasts BY <1>1 DEF CreateFile, UnlinkFile
<1>11. \A s \in Server : Restart(s) => Lasts BY <1>2 DEF Restart
<1>12. Lasts BY <1>6, <1>7, <1>8, <1>9, <1>10, <1>11, Groups
<1>. QED BY <1>12 DEF Lasts

\* A client comes to have an index listed only after its server answered.
LEMMA Answered ==
    ASSUME Typed, Typed', AllKnown, NEW c \in Client, Step(c), call'[c].at \in {"mkdir", "insert"}
    PROVE  Known(Named(c))' /\ Named(c)' = Named(c)
<1>0. call[c].at \in Creating \cup Partitioning \cup Undoing
  BY Elsewhere DEF Typed, Creating
<1>1. call'[c] # Idle BY IdleIs
<1>2. Named(c)' = Named(c) BY <1>1, SameCommand DEF Carries, Named
<1>3. Named(c) \in Index BY <1>0, NamesIndex
<1>4. \A w : Goto(c, w) => call'[c].at = w BY <1>0, Places
<1>5. /\ \A then : Undo(c, then) => call'[c].at = "undo"
      /\ Partition(c) => call'[c].at = "record"
      /\ \A status : ~Return(c, status)
  <2>1. \A then : Undo(c, then) => call'[c].at = "undo" BY <1>0, Places
  <2>2. Partition(c) => call'[c].at = "record" BY <1>0, Places
  <2>3. \A status : ~Return(c, status) BY <1>0, <1>1, Places
  <2>. QED BY <2>1, <2>2, <2>3
<1>6. call[c].at \in Partitioning \cup Undoing /\ Failing(c) => call'[c].at = call[c].at
  BY <1>0, Places
<1>7. CASE create_index(c) BY <1>4, <1>5, <1>7 DEF create_index
<1>8. CASE create_on_server(c)
  <2>1. PICK status \in {"filling", "OK", "EEXIST", "EINVAL"} :
          /\ create(c, Named(c), call[c].cmd.type, call[c].cmd.key, status)
          /\ CASE status = "filling" -> Goto(c, "filling") /\ Keep
               [] status = "OK"      -> Goto(c, "mkdir") /\ Keep
               [] OTHER              -> Return(c, "error")
    BY <1>5, <1>8 DEF create_on_server, Unreachable
  <2>2. status = "OK" BY <1>4, <1>5, <2>1
  <2>3. Named(c) \in gone' BY <2>1, <2>2 DEF create
  <2>. QED BY <1>2, <2>3 DEF Known
<1>9. CASE created_on_server(c)
  <2>1. create_filled(c, Named(c)) BY <1>5, <1>9 DEF created_on_server
  <2>2. served'[Named(c)] = {}
    BY <1>3, <2>1 DEF create_filled, Typed, IndexManagerTypeOK
  <2>3. served'[Named(c)] # NoIndex BY <2>2, IndexManagerAssumption
  <2>. QED BY <1>2, <2>3 DEF Known
<1>10. CASE make_vsfs_dir(c)
  <2>1. UNCHANGED imVars /\ At(c, "mkdir") BY <1>10 DEF make_vsfs_dir
  <2>. QED BY <1>2, <2>1 DEF At, AllKnown, Known, imVars
<1>11. CASE insert_name(c) \/ make_index_dir(c)
  BY <1>4, <1>5, <1>11 DEF insert_name, make_index_dir
<1>12. CASE create_partition(c) \/ list_partition(c)
  BY <1>4, <1>5, <1>6, <1>12 DEF create_partition, list_partition, At, Partitioning
<1>13. CASE roll_back_partition(c) \/ remove_index_dir(c)
  BY <1>4, <1>5, <1>13 DEF roll_back_partition, remove_index_dir
<1>14. CASE remove_index(c) \/ unlink_entry(c) \/ unlink_record(c)
  <2>1. call[c].then \in {"return", "partition", "succeed"}
    BY <1>14 DEF remove_index, unlink_entry, unlink_record, At, Undoing, Typed, CallsTyped, CallOK, UndoCall
  <2>2. \A s : Undone(c, s) => call'[c].at = "record" BY <1>5, <2>1 DEF Undone
  <2>3. \/ Named(c) \notin indexDirs \/ Named(c) \in indexDirs \ partEntry
        \/ Named(c) \in indexDirs \cap partEntry
    OBVIOUS
  <2>4. CASE remove_index(c) BY <1>4, <2>2, <2>3, <2>4 DEF remove_index
  <2>. QED BY <1>4, <1>6, <1>14, <2>2, <2>4 DEF unlink_entry, unlink_record, At, Undoing
<1>15. ~(\/ climb(c) \/ find_objects(c) \/ update(c) \/ locate_index_for_search(c) \/ search_server(c)
         \/ find_files(c) \/ readdir_getattr(c) \/ list_subfiles(c) \/ getattr_subfile(c)
         \/ get_index_infos(c) \/ info_server(c))
  BY <1>0 DEF climb, find_objects, update, locate_index_for_search, search_server, find_files,
     readdir_getattr, list_subfiles, getattr_subfile, get_index_infos, info_server, At,
     Creating, Partitioning, Undoing
<1>. QED BY <1>7, <1>8, <1>9, <1>10, <1>11, <1>12, <1>13, <1>14, <1>15 DEF Step

\* What a master lists stays known to the index server.
LEMMA AllKnownKept == ASSUME Typed, AllKnown, [Next]_vars PROVE AllKnown'
<1>0. Typed' BY TypedKept
<1>1. CASE UNCHANGED vars
  BY <1>1 DEF vars, imVars, masters, AllKnown, ListedIsServed, Known, Named
<1>2. CASE Next
  <2>1. \A i \in Index : Known(i) => Known(i)' BY <1>2, KnownForGood
  <2>2. ListedIsServed'
    <3>1. \A i \in listed : i \in Index /\ Known(i) BY DEF AllKnown, ListedIsServed, Known, Typed, MastersTyped
    <3>2. \/ listed' \subseteq listed
          \/ \E c \in Client : insert_name(c) /\ listed' = listed \cup {Named(c)}
      <4>1. UNCHANGED masters => listed' = listed BY DEF masters
      <4>2. \A c \in Client : OnMasters(c) =>
              \/ listed' \subseteq listed
              \/ insert_name(c) /\ listed' = listed \cup {Named(c)}
        BY DEF OnMasters, make_vsfs_dir, insert_name, make_index_dir, create_partition,
           list_partition, roll_back_partition, remove_index_dir, unlink_entry, unlink_record
      <4>3. \A f : CreateFile(f) \/ UnlinkFile(f) => UNCHANGED masters BY DEF CreateFile, UnlinkFile
      <4>4. \A s : Restart(s) => UNCHANGED masters BY DEF Restart
      <4>. QED BY <1>2, <4>1, <4>2, <4>3, <4>4, Groups, Frames
    <3>3. ASSUME NEW c \in Client, insert_name(c) PROVE Named(c) \in Index /\ Known(Named(c))
      BY <3>3, NamesIndex DEF insert_name, At, AllKnown, Creating
    <3>4. ASSUME NEW i \in listed' PROVE i \in Index /\ Known(i)
      <4>1. CASE i \in listed BY <3>1, <4>1
      <4>2. CASE i \notin listed
        <5>1. PICK c \in Client : insert_name(c) /\ i = Named(c) BY <3>2, <4>2
        <5>. QED BY <3>3, <5>1
      <4>. QED BY <4>1, <4>2
    <3>5. \A i \in listed' : Known(i)' BY <2>1, <3>4
    <3>. QED BY <3>5 DEF ListedIsServed, Known
  <2>3. ASSUME NEW d \in Client, call'[d].at \in {"mkdir", "insert"} PROVE Known(Named(d))'
    <3>1. CASE call'[d] = call[d]
      <4>1. call[d].at \in Creating BY <2>3, <3>1 DEF Creating
      <4>2. Named(d) \in Index /\ Named(d)' = Named(d) BY <3>1, <4>1, NamesIndex DEF Named
      <4>. QED BY <2>1, <2>3, <3>1, <4>2 DEF AllKnown, Known
    <3>2. CASE Step(d) BY <1>0, <2>3, <3>2, Answered
    <3>3. CASE Begins(d)
      <4>1. call'[d] # Idle BY <2>3, IdleIs
      <4>. QED BY <2>3, <3>3, <4>1, Starts
    <3>. QED BY <1>2, <3>1, <3>2, <3>3, OneMoves
  <2>. QED BY <2>2, <2>3 DEF AllKnown
<1>. QED BY <1>1, <1>2

\* An index that a master lists is known to its index server, or was lost by it,
\* for any number of clients that create and remove it and any crashes.
THEOREM IndexClientListedIsServed == Spec => []ListedIsServed
<1>1. Init => Typed /\ AllKnown
  <2>. SUFFICES ASSUME Init PROVE Typed /\ AllKnown OBVIOUS
  <2>1. Typed BY TypedAtFirst
  <2>2. \A i \in listed : served[i] # NoIndex
    BY <2>1, IndexManagerAssumption DEF Init, Typed, MastersTyped
  <2>3. \A c \in Client : call[c].at = "idle" BY DEF Init, Idle
  <2>. QED BY <2>1, <2>2, <2>3 DEF AllKnown, ListedIsServed
<1>2. Typed /\ AllKnown /\ [Next]_vars => (Typed /\ AllKnown)' BY TypedKept, AllKnownKept
<1>3. AllKnown => ListedIsServed BY DEF AllKnown
<1>. QED BY <1>1, <1>2, <1>3, PTL DEF Spec

(***************************************************************************)
(* One creator                                                             *)
(***************************************************************************)

\* As long as no server crashed, no store failed and no hash index was asked for,
\* a client that creates an index is the only one, from the time its server took
\* the lock for it, and finds nothing of the index on the masters; so none of its
\* calls is refused, and it comes to no rollback.
Building(c) == call[c].at \in {"filling", "mkdir", "insert", "dir", "record", "entry"}
LoneAt(c) ==
    /\ At(c, "filling") => lock[home[Named(c)]] = c /\ served[Named(c)] = NoIndex
    /\ Building(c) /\ ~At(c, "filling") => served[Named(c)] # NoIndex
    /\ call[c].at \in {"mkdir", "insert"} => Named(c) \notin listed
    /\ call[c].at \in {"mkdir", "insert", "dir"} => Named(c) \notin indexDirs
    /\ call[c].at \in {"mkdir", "insert", "dir", "record"} => Named(c) \notin partRecord
    /\ call[c].at \in {"mkdir", "insert", "dir", "record", "entry"} => Named(c) \notin partEntry
    /\ call[c].at \in {"record", "entry"} => Named(c) \in indexDirs /\ ~call[c].failed
    /\ call[c].at \notin {"roll back", "rmdir", "spin"}
    /\ call[c].at \in Undoing => call[c].then = "return"
ServedFirst == \A i \in listed \cup indexDirs \cup partRecord \cup partEntry : served[i] # NoIndex
Lone ==
    /\ ServedFirst
    /\ \A c \in Client : LoneAt(c)
    /\ \A c, d \in Client : Building(c) /\ Building(d) /\ Named(c) = Named(d) => c = d
OneCreator == ~faulty /\ gone = {} => Lone

\* Clients that do not create are of no concern.
LEMMA NotBuilding ==
    ASSUME NEW c \in Client
    PROVE  /\ call[c].at \notin (Creating \ {"getattr", "server"}) \cup Partitioning \cup Undoing
                => LoneAt(c) /\ ~Building(c)
           /\ call[c].at \in Undoing /\ call[c].then = "return" => LoneAt(c) /\ ~Building(c)
           /\ call[c] = Idle => LoneAt(c) /\ ~Building(c)
<1>1. ASSUME call[c].at \notin (Creating \ {"getattr", "server"}) \cup Partitioning \cup Undoing
      PROVE  LoneAt(c) /\ ~Building(c)
  BY <1>1 DEF LoneAt, Building, At, Creating, Partitioning, Undoing
<1>2. ASSUME call[c].at \in Undoing, call[c].then = "return"
      PROVE  LoneAt(c) /\ ~Building(c)
  <2>1. call[c].at \notin {"filling", "mkdir", "insert", "dir", "record", "entry", "roll back", "rmdir",
                           "spin"}
    BY <1>2 DEF Undoing
  <2>. QED BY <1>2, <2>1 DEF LoneAt, Building, At
<1>3. ASSUME call[c] = Idle PROVE LoneAt(c) /\ ~Building(c)
  <2>1. call[c].at = "idle" BY <1>3, IdleIs
  <2>2. call[c].at \notin (Creating \ {"getattr", "server"}) \cup Partitioning \cup Undoing
    BY <2>1 DEF Creating, Partitioning, Undoing
  <2>. QED BY <1>1, <2>2
<1>. QED BY <1>1, <1>2, <1>3

\* What a step leaves to a client that creates an index.
Spared(d) ==
    LET i == Named(d) IN
    /\ call'[d] = call[d] /\ home' = home
    /\ Building(d) =>
         /\ i \in listed' => i \in listed
         /\ i \in indexDirs' <=> i \in indexDirs
         /\ i \in partRecord' => i \in partRecord
         /\ i \in partEntry' => i \in partEntry
         /\ served'[i] = NoIndex <=> served[i] = NoIndex
         /\ lock[home[i]] = d => lock'[home[i]] = d

\* A client that is spared by a step is as lone as before.
LEMMA SparedIs == ASSUME NEW d \in Client, LoneAt(d), Spared(d) PROVE LoneAt(d)' /\ Named(d)' = Named(d)
<1>1. Named(d)' = Named(d) /\ call'[d] = call[d] BY DEF Spared, Named
<1>2. CASE ~Building(d)
  BY <1>1, <1>2 DEF Building, LoneAt, At
<1>3. CASE Building(d)
  <2>. DEFINE i == Named(d)
  <2>1. /\ i \in listed' => i \in listed
        /\ i \in indexDirs' <=> i \in indexDirs
        /\ i \in partRecord' => i \in partRecord
        /\ i \in partEntry' => i \in partEntry
        /\ served'[i] = NoIndex <=> served[i] = NoIndex
        /\ lock[home[i]] = d => lock'[home'[i]] = d
    BY <1>3 DEF Spared
  <2>2. Named(d)' = i BY <1>1
  <2>. HIDE DEF i
  <2>. QED BY <1>1, <1>3, <2>1, <2>2 DEF LoneAt, Building, At, i
<1>. QED BY <1>1, <1>2, <1>3

\* The creators of indices stay alone when one client moves and spares the others.
LEMMA LoneStep ==
    ASSUME Lone, NEW c \in Client, ServedFirst', LoneAt(c)',
           \A d \in Client \ {c} : Spared(d),
           \A d \in Client \ {c} : Building(d) /\ Building(c)' => Named(d) # Named(c)'
    PROVE  Lone'
<1>1. \A d \in Client \ {c} : LoneAt(d)' /\ Named(d)' = Named(d) BY SparedIs DEF Lone
<1>2. \A d \in Client \ {c} : Building(d)' <=> Building(d) BY DEF Spared, Building
<1>3. ASSUME NEW d \in Client, NEW e \in Client, Building(d)', Building(e)', Named(d)' = Named(e)'
      PROVE  d = e
  <2>1. CASE d # c /\ e # c BY <1>1, <1>2, <1>3, <2>1 DEF Lone
  <2>2. CASE d = c /\ e # c BY <1>1, <1>2, <1>3, <2>2
  <2>3. CASE d # c /\ e = c BY <1>1, <1>2, <1>3, <2>3
  <2>. QED BY <2>1, <2>2, <2>3
<1>. QED BY <1>1, <1>3 DEF Lone

\* The steps on the index server.
LEMMA LoneCreates ==
    ASSUME Typed, Lone, ~faulty, gone' = {}, NEW c \in Client, Creates(c),
           \A d \in Client \ {c} : call'[d] = call[d]
    PROVE  Lone'
<1>. DEFINE i == Named(c)
<1>0. call[c].at \in Creating \cup Partitioning \cup Undoing
  BY DEF Creates, create_on_server, created_on_server, At, Creating
<1>1. i \in Index BY <1>0, NamesIndex
<1>2. UNCHANGED masters BY Frames
<1>3. /\ \A w : Goto(c, w) => call'[c].at = w /\ call'[c].cmd = call[c].cmd
      /\ \A status : Return(c, status) => call'[c] = Idle
  BY <1>0, Places
<1>4. \A w : Goto(c, w) => Named(c)' = i BY <1>3 DEF Named
<1>5. \A s : ~Unreachable(c, s) BY DEF Unreachable
<1>. HIDE DEF i
<1>6. CASE create_on_server(c)
  <2>1. PICK status \in {"filling", "OK", "EEXIST", "EINVAL"} :
          /\ create(c, i, call[c].cmd.type, call[c].cmd.key, status)
          /\ CASE status = "filling" -> Goto(c, "filling") /\ Keep
               [] status = "OK"      -> Goto(c, "mkdir") /\ Keep
               [] OTHER              -> Return(c, "error")
    BY <1>5, <1>6 DEF create_on_server, i
  <2>2. status # "OK" BY <2>1 DEF create
  <2>3. UNCHANGED <<home, served>> BY <2>1 DEF create
  <2>4. ServedFirst' BY <1>2, <2>3 DEF Lone, ServedFirst, masters
  <2>5. CASE status = "filling"
    <3>1. Goto(c, "filling") BY <2>1, <2>5
    <3>2. /\ lock[home[i]] = Unlocked /\ served[i] = NoIndex
          /\ lock' = [lock EXCEPT ![home[i]] = c]
      BY <2>1, <2>5 DEF create
    <3>3. home[i] \in Server /\ DOMAIN lock = Server BY <1>1 DEF Typed, IndexManagerTypeOK
    <3>4. lock'[home[i]] = c BY <3>2, <3>3
    <3>5. At(c, "filling")' /\ Named(c)' = i BY <1>3, <1>4, <3>1 DEF At
    <3>6. LoneAt(c)'
      <4>1. call'[c].at = "filling" BY <3>5 DEF At
      <4>2. At(c, "filling")' => lock'[home'[Named(c)']] = c /\ served'[Named(c)'] = NoIndex
        BY <2>3, <3>2, <3>4, <3>5
      <4>. QED BY <3>5, <4>1, <4>2 DEF LoneAt, Undoing
    <3>7. ASSUME NEW d \in Client \ {c} PROVE Spared(d) /\ (Building(d) => Named(d) # i)
      <4>1. Building(d) /\ lock[home[Named(d)]] = d => lock'[home[Named(d)]] = d
        <5>1. d # Unlocked BY IndexManagerAssumption
        <5>2. ASSUME Building(d), lock[home[Named(d)]] = d
              PROVE  lock'[home[Named(d)]] = lock[home[Named(d)]]
          <6>1. home[Named(d)] # home[i] BY <3>2, <5>1, <5>2
          <6>2. Named(d) \in Index BY <5>2, NamesIndex DEF Building, Creating, Partitioning
          <6>3. home[Named(d)] \in Server BY <6>2 DEF Typed, IndexManagerTypeOK
          <6>. QED BY <3>2, <3>3, <6>1, <6>3
        <5>. QED BY <5>2
      <4>2. Building(d) => Named(d) # i
        <5>1. d # Unlocked BY IndexManagerAssumption
        <5>. QED BY <3>2, <5>1 DEF Lone, LoneAt
      <4>. QED BY <1>2, <2>3, <4>1, <4>2 DEF Spared, masters
    <3>. QED BY <2>4, <3>5, <3>6, <3>7, LoneStep
  <2>6. CASE status # "filling"
    <3>1. call'[c] = Idle BY <1>3, <2>1, <2>2, <2>6
    <3>2. LoneAt(c)' /\ ~Building(c)'
      <4>1. (call[c] = Idle)' BY <3>1
      <4>. QED BY <4>1, NotBuilding, PTL
    <3>3. UNCHANGED lock BY <2>1, <2>2, <2>6 DEF create
    <3>4. \A d \in Client \ {c} : Spared(d) BY <1>2, <2>3, <3>3 DEF Spared, masters
    <3>. QED BY <2>4, <3>2, <3>4, LoneStep
  <2>. QED BY <2>5, <2>6
<1>7. CASE created_on_server(c)
  <2>1. At(c, "filling") /\ lock[home[i]] = c /\ served[i] = NoIndex
    BY <1>7 DEF created_on_server, Lone, LoneAt, i
  <2>2. create_filled(c, i) /\ Goto(c, "mkdir") BY <1>5, <1>7, <2>1 DEF created_on_server, i
  <2>3. /\ lock' = [lock EXCEPT ![home[i]] = Unlocked]
        /\ served' = [served EXCEPT ![i] = {}] /\ UNCHANGED home
    BY <2>2 DEF create_filled
  <2>4. served'[i] # NoIndex
    <3>1. served'[i] = {} BY <1>1, <2>3 DEF Typed, IndexManagerTypeOK
    <3>. QED BY <3>1, IndexManagerAssumption
  <2>5. \A j \in Index \ {i} : served'[j] = served[j] BY <2>3 DEF Typed, IndexManagerTypeOK
  <2>6. call'[c].at = "mkdir" /\ Named(c)' = i BY <1>3, <1>4, <2>2
  <2>7. i \notin listed' \cup indexDirs' \cup partRecord' \cup partEntry'
    BY <1>2, <2>1 DEF Lone, ServedFirst, masters
  <2>8. ServedFirst'
    <3>1. \A j \in listed' \cup indexDirs' \cup partRecord' \cup partEntry' : j \in Index /\ served[j] # NoIndex
      BY <1>2 DEF Lone, ServedFirst, masters, Typed, MastersTyped
    <3>. QED BY <2>5, <2>7, <3>1 DEF ServedFirst
  <2>9. LoneAt(c)' BY <2>4, <2>6, <2>7 DEF LoneAt, At, Undoing, Building
  <2>10. ASSUME NEW d \in Client \ {c}, Building(d) PROVE Named(d) # i
    <3>1. Building(c) BY <2>1 DEF Building, At
    <3>. QED BY <2>10, <3>1 DEF Lone, i
  <2>11. ASSUME NEW d \in Client \ {c} PROVE Spared(d)
    <3>1. ASSUME Building(d)
          PROVE  /\ served'[Named(d)] = served[Named(d)]
                 /\ lock[home[Named(d)]] = d => lock'[home[Named(d)]] = d
      <4>1. Named(d) \in Index BY <3>1, NamesIndex DEF Building, Creating, Partitioning
      <4>2. home[Named(d)] \in Server /\ DOMAIN lock = Server BY <4>1 DEF Typed, IndexManagerTypeOK
      <4>3. lock[home[Named(d)]] = d => home[Named(d)] # home[i] BY <2>1
      <4>4. lock[home[Named(d)]] = d => lock'[home[Named(d)]] = d BY <2>3, <4>2, <4>3
      <4>. QED BY <2>5, <2>10, <3>1, <4>1, <4>4
    <3>. QED BY <1>2, <2>3, <3>1 DEF Spared, masters
  <2>. QED BY <2>6, <2>8, <2>9, <2>10, <2>11, LoneStep
<1>. QED BY <1>6, <1>7 DEF Creates

\* The steps on the masters.
LEMMA LoneOnMasters ==
    ASSUME Typed, Lone, ~faulty, NEW c \in Client,
           OnMasters(c) \/ create_index(c) \/ remove_index(c),
           \A d \in Client \ {c} : call'[d] = call[d]
    PROVE  Lone'
<1>. DEFINE i == Named(c)
<1>0. call[c].at \in Creating \cup Partitioning \cup Undoing
  BY DEF OnMasters, make_vsfs_dir, insert_name, make_index_dir, create_partition,
     list_partition, roll_back_partition, remove_index_dir, unlink_entry, unlink_record,
     create_index, remove_index, At, Creating, Partitioning, Undoing
<1>1. UNCHANGED imVars BY Frames DEF Quiet
<1>2. LoneAt(c) /\ ServedFirst BY DEF Lone
<1>3. \A w : Goto(c, w) => call'[c].at = w /\ Named(c)' = i BY <1>0, Places DEF Named
<1>4. Partition(c) => call'[c].at = "record" /\ Named(c)' = i /\ ~call'[c].failed
  BY <1>0, Places DEF Named
<1>5. \A status : Return(c, status) => LoneAt(c)' /\ ~Building(c)'
  <2>1. \A status : Return(c, status) => (call[c] = Idle)' BY <1>0, Places
  <2>2. (call[c] = Idle)' => LoneAt(c)' /\ ~Building(c)' BY NotBuilding, PTL
  <2>. QED BY <2>1, <2>2
<1>6. ASSUME Building(c), NEW d \in Client \ {c}, Building(d) PROVE Named(d) # i BY <1>6 DEF Lone
<1>7. Building(c) /\ ~At(c, "filling") => served'[i] # NoIndex BY <1>1, <1>2 DEF LoneAt, imVars
<1>8. ServedFirst => \A j \in listed \cup indexDirs \cup partRecord \cup partEntry : served'[j] # NoIndex
  BY <1>1 DEF ServedFirst, imVars
<1>9. \A d \in Client \ {c} : UNCHANGED masters => Spared(d) BY <1>1 DEF Spared, imVars, masters
<1>. HIDE DEF i
<1>10. CASE create_index(c)
  <2>1. UNCHANGED masters BY <1>10 DEF create_index
  <2>2. LoneAt(c)' /\ ~Building(c)'
    <3>1. CASE Goto(c, "server")
      <4>1. call'[c].at = "server" BY <1>3, <3>1
      <4>2. (call[c].at \notin (Creating \ {"getattr", "server"}) \cup Partitioning \cup Undoing)'
        BY <4>1 DEF Creating, Partitioning, Undoing
      <4>. QED BY <4>2, NotBuilding, PTL
    <3>. QED BY <1>5, <1>10, <3>1 DEF create_index
  <2>3. ServedFirst' BY <1>2, <1>8, <2>1 DEF ServedFirst, masters
  <2>. QED BY <1>9, <2>1, <2>2, <2>3, LoneStep
<1>11. CASE make_vsfs_dir(c)
  <2>1. At(c, "mkdir") /\ Goto(c, "insert") BY <1>11 DEF make_vsfs_dir
  <2>2. UNCHANGED <<listed, indexDirs, partRecord, partEntry>> BY <1>11 DEF make_vsfs_dir
  <2>3. Building(c) /\ ~At(c, "filling") BY <2>1 DEF Building, At
  <2>4. call'[c].at = "insert" /\ Named(c)' = i BY <1>3, <2>1
  <2>5. LoneAt(c)'
    <3>1. i \notin listed /\ i \notin indexDirs /\ i \notin partRecord /\ i \notin partEntry
      BY <1>2, <2>1 DEF LoneAt, At, i
    <3>. QED BY <1>7, <2>2, <2>3, <2>4, <3>1 DEF LoneAt, At, Undoing, Building
  <2>6. ServedFirst' BY <1>2, <1>8, <2>2 DEF ServedFirst
  <2>7. \A d \in Client \ {c} : Spared(d) BY <1>1, <2>2 DEF Spared, imVars
  <2>. QED BY <1>6, <2>3, <2>4, <2>5, <2>6, <2>7, LoneStep
<1>12. CASE insert_name(c)
  <2>1. At(c, "insert") BY <1>12 DEF insert_name
  <2>2. i \notin listed /\ i \notin indexDirs /\ i \notin partRecord /\ i \notin partEntry
    BY <1>2, <2>1 DEF LoneAt, At, i
  <2>3. listed' = listed \cup {i} /\ Goto(c, "dir") BY <1>12, <2>2 DEF insert_name, i
  <2>4. UNCHANGED <<indexDirs, partRecord, partEntry>> BY <1>12 DEF insert_name
  <2>5. Building(c) /\ ~At(c, "filling") BY <2>1 DEF Building, At
  <2>6. call'[c].at = "dir" /\ Named(c)' = i BY <1>3, <2>3
  <2>7. LoneAt(c)' BY <1>7, <2>2, <2>4, <2>5, <2>6 DEF LoneAt, At, Undoing, Building
  <2>8. ServedFirst' BY <1>2, <1>7, <1>8, <2>3, <2>4, <2>5 DEF ServedFirst
  <2>9. \A d \in Client \ {c} : Spared(d) BY <1>1, <1>6, <2>3, <2>4, <2>5 DEF Spared, imVars
  <2>. QED BY <1>6, <2>5, <2>6, <2>7, <2>8, <2>9, LoneStep
<1>13. CASE make_index_dir(c)
  <2>1. At(c, "dir") BY <1>13 DEF make_index_dir
  <2>2. i \notin indexDirs /\ i \notin partRecord /\ i \notin partEntry BY <1>2, <2>1 DEF LoneAt, At, i
  <2>3. indexDirs' = indexDirs \cup {i} /\ Partition(c) BY <1>13, <2>2 DEF make_index_dir, i
  <2>4. UNCHANGED <<listed, partRecord, partEntry>> BY <1>13, <2>2 DEF make_index_dir, i
  <2>5. Building(c) /\ ~At(c, "filling") BY <2>1 DEF Building, At
  <2>6. call'[c].at = "record" /\ Named(c)' = i /\ ~call'[c].failed BY <1>4, <2>3
  <2>7. LoneAt(c)' BY <1>7, <2>2, <2>3, <2>4, <2>5, <2>6 DEF LoneAt, At, Undoing, Building
  <2>8. ServedFirst' BY <1>2, <1>7, <1>8, <2>3, <2>4, <2>5 DEF ServedFirst
  <2>9. \A d \in Client \ {c} : Spared(d) BY <1>1, <1>6, <2>3, <2>4, <2>5 DEF Spared, imVars
  <2>. QED BY <1>6, <2>5, <2>6, <2>7, <2>8, <2>9, LoneStep
<1>14. CASE create_partition(c)
  <2>1. At(c, "record") BY <1>14 DEF create_partition
  <2>2. i \in indexDirs /\ i \notin partRecord /\ i \notin partEntry /\ ~call[c].failed
    BY <1>2, <2>1 DEF LoneAt, At, i
  <2>3. partRecord' = partRecord \cup {i} /\ Goto(c, "entry") BY <1>14, <2>2 DEF create_partition, i
  <2>4. UNCHANGED <<listed, indexDirs, partEntry>> BY <1>14 DEF create_partition
  <2>5. Building(c) /\ ~At(c, "filling") BY <2>1 DEF Building, At
  <2>6. call'[c].at = "entry" /\ Named(c)' = i BY <1>3, <2>3
  <2>7. call'[c].failed = call[c].failed BY <1>0, <2>1, <2>3, Places DEF At, Partitioning
  <2>8. LoneAt(c)' BY <1>7, <2>2, <2>4, <2>5, <2>6, <2>7 DEF LoneAt, At, Undoing, Building
  <2>9. ServedFirst' BY <1>2, <1>7, <1>8, <2>3, <2>4, <2>5 DEF ServedFirst
  <2>10. \A d \in Client \ {c} : Spared(d) BY <1>1, <1>6, <2>3, <2>4, <2>5 DEF Spared, imVars
  <2>. QED BY <1>6, <2>5, <2>6, <2>8, <2>9, <2>10, LoneStep
<1>15. CASE list_partition(c)
  <2>1. At(c, "entry") BY <1>15 DEF list_partition
  <2>2. i \in indexDirs /\ i \notin partEntry /\ ~call[c].failed BY <1>2, <2>1 DEF LoneAt, At, i
  <2>3. partEntry' = partEntry \cup {i} /\ Return(c, "OK") BY <1>15, <2>2 DEF list_partition, i
  <2>4. UNCHANGED <<listed, indexDirs, partRecord>> BY <1>15 DEF list_partition
  <2>5. Building(c) /\ ~At(c, "filling") BY <2>1 DEF Building, At
  <2>6. ServedFirst' BY <1>2, <1>7, <1>8, <2>3, <2>4, <2>5 DEF ServedFirst
  <2>7. \A d \in Client \ {c} : Spared(d) BY <1>1, <1>6, <2>3, <2>4, <2>5 DEF Spared, imVars
  <2>. QED BY <1>5, <2>3, <2>6, <2>7, LoneStep
<1>16. ~roll_back_partition(c) /\ ~remove_index_dir(c)
  BY <1>2 DEF roll_back_partition, remove_index_dir, LoneAt, At
<1>17. CASE remove_index(c) \/ unlink_entry(c) \/ unlink_record(c)
  <2>1. call[c].at \in Undoing BY <1>17 DEF remove_index, unlink_entry, unlink_record, At, Undoing
  <2>2. call[c].then = "return" BY <1>2, <2>1 DEF LoneAt
  <2>3. \A s : Undone(c, s) => LoneAt(c)' /\ ~Building(c)' BY <1>5, <2>2 DEF Undone
  <2>4. ASSUME \/ Goto(c, "undo entry") \/ Goto(c, "undo record") \/ Failing(c)
        PROVE  LoneAt(c)' /\ ~Building(c)'
    <3>1. call'[c].at \in Undoing /\ call'[c].then = "return"
      <4>1. CASE Goto(c, "undo entry") \/ Goto(c, "undo record")
        BY <1>0, <2>1, <2>2, <4>1, Places DEF Undoing
      <4>2. CASE Failing(c) BY <1>0, <2>1, <2>2, <4>2, Places
      <4>. QED BY <2>4, <4>1, <4>2
    <3>2. (call[c].at \in Undoing /\ call[c].then = "return")' BY <3>1 DEF Undoing
    <3>. QED BY <3>2, NotBuilding, PTL
  <2>5. LoneAt(c)' /\ ~Building(c)'
    <3>1. \/ Named(c) \notin indexDirs \/ Named(c) \in indexDirs \ partEntry
          \/ Named(c) \in indexDirs \cap partEntry
      OBVIOUS
    <3>2. CASE remove_index(c) BY <2>3, <2>4, <3>1, <3>2 DEF remove_index
    <3>3. CASE unlink_entry(c) BY <2>3, <2>4, <3>3 DEF unlink_entry
    <3>4. CASE unlink_record(c) BY <2>3, <3>4 DEF unlink_record
    <3>. QED BY <1>17, <3>2, <3>3, <3>4
  <2>6. /\ UNCHANGED <<listed, indexDirs>>
        /\ partRecord' \subseteq partRecord /\ partEntry' \subseteq partEntry
    BY <1>17 DEF remove_index, unlink_entry, unlink_record, masters
  <2>7. ServedFirst' BY <1>2, <1>8, <2>6 DEF ServedFirst
  <2>8. \A d \in Client \ {c} : Spared(d) BY <1>1, <2>6 DEF Spared, imVars
  <2>. QED BY <2>5, <2>7, <2>8, LoneStep
<1>. QED BY <1>10, <1>11, <1>12, <1>13, <1>14, <1>15, <1>16, <1>17 DEF OnMasters

\* All other steps: the servers know what they knew.
LEMMA LoneElse ==
    ASSUME Typed, Typed', Lone, gone' = {}, NEW c \in Client,
           \/ Reads(c) \/ Begins(c) \/ update(c) \/ search_server(c) \/ info_server(c)
           \/ (Quiet(c) /\ ~create_index(c) /\ ~remove_index(c)),
           \A d \in Client \ {c} : call'[d] = call[d]
    PROVE  Lone'
<1>. DEFINE Steady == /\ home' = home /\ lock' = lock
                      /\ \A i \in Index : served'[i] = NoIndex <=> served[i] = NoIndex
<1>1. UNCHANGED masters BY Frames
<1>2. ASSUME NEW i \in Index, NEW s PROVE ~ServerDies(c, i, s)
  <2>1. ServerDies(c, i, s) => i \in gone' BY DEF ServerDies, ReadsMovingMap, Crash
  <2>. QED BY <2>1
<1>3. UNCHANGED imVars => Steady BY DEF imVars
<1>4. ASSUME Reads(c) \/ Begins(c) \/ Quiet(c) PROVE Steady BY <1>3, <1>4, Frames
<1>5. ASSUME update(c) PROVE Steady
  <2>1. At(c, "send") BY <1>5 DEF update
  <2>2. PICK i \in call[c].lists :
          \/ \E status : update_single_index(i, call[c].cmd.kind, OpsFor(c, i), status)
          \/ UNCHANGED imVars
          \/ ServerDies(c, i, "died")
    BY <1>5 DEF update
  <2>3. i \in Index /\ RecordsOf(OpsFor(c, i)) \subseteq Record BY <2>1, ListIs, RecordsAre
  <2>4. CASE UNCHANGED imVars BY <1>3, <2>4
  <2>5. ASSUME NEW status, NEW ops, NEW kind, RecordsOf(ops) \subseteq Record,
               update_single_index(i, kind, ops, status), served[i] # NoIndex
        PROVE  Steady
    <3>1. apply(served[i], kind, ops) \subseteq Record
      BY <2>3, <2>5 DEF apply, Typed, IndexManagerTypeOK
    <3>2. apply(served[i], kind, ops) # NoIndex BY <3>1, IndexManagerAssumption
    <3>3. served' = [served EXCEPT ![i] = apply(served[i], kind, ops)] /\ UNCHANGED <<home, lock>>
      BY <2>5 DEF update_single_index
    <3>4. \A j \in Index : served'[j] = NoIndex <=> served[j] = NoIndex
      BY <2>3, <2>5, <3>2, <3>3 DEF Typed, IndexManagerTypeOK
    <3>. QED BY <3>3, <3>4
  <2>. QED BY <1>2, <1>3, <2>2, <2>3, <2>5 DEF update_single_index
<1>6. ASSUME search_server(c) PROVE Steady
  <2>1. NextHit(call[c].hits) \in Index
    BY <1>6, NextIsHit DEF search_server, At, Typed, CallsTyped, CallOK, AskCall
  <2>. QED BY <1>2, <1>3, <1>6, <2>1 DEF search_server
<1>7. ASSUME info_server(c) PROVE Steady
  <2>1. NextHit(call[c].hits) \in Index
    BY <1>7, NextIsHit DEF info_server, At, Typed, CallsTyped, CallOK, InfosCall
  <2>. QED BY <1>2, <1>3, <1>7, <2>1 DEF info_server, imVars
<1>8. Steady BY <1>4, <1>5, <1>6, <1>7
<1>9. LoneAt(c)' /\ ~Building(c)'
  <2>1. CASE Begins(c)
    <3>1. CASE call'[c] = Idle
      <4>1. (call[c] = Idle)' BY <3>1
      <4>. QED BY <4>1, NotBuilding, PTL
    <3>2. CASE call'[c].at \in {"getattr", "climb", "readdir", "subfiles", "infos", "locate"}
      <4>1. (call[c].at \notin (Creating \ {"getattr", "server"}) \cup Partitioning \cup Undoing)'
        BY <3>2 DEF Creating, Partitioning, Undoing
      <4>. QED BY <4>1, NotBuilding, PTL
    <3>3. CASE call'[c].at = "undo" /\ call'[c].then = "return"
      <4>1. (call[c].at \in Undoing /\ call[c].then = "return")' BY <3>3 DEF Undoing
      <4>. QED BY <4>1, NotBuilding, PTL
    <3>. QED BY <2>1, <3>1, <3>2, <3>3, Starts
  <2>2. CASE ~Begins(c)
    <3>1. Step(c) BY <2>2 DEF Step, Reads, Quiet
    <3>2. call[c].at \notin Creating \cup Partitioning \cup Undoing
      BY <2>2 DEF Reads, Quiet, climb, find_objects, update, locate_index_for_search, search_server,
         find_files, readdir_getattr, list_subfiles, getattr_subfile, get_index_infos, info_server,
         At, Creating, Partitioning, Undoing
    <3>3. CallsTyped' BY DEF Typed
    <3>4. call'[c].at \notin Creating \cup Partitioning \cup Undoing BY <3>1, <3>2, <3>3, Elsewhere
    <3>5. (call[c].at \notin (Creating \ {"getattr", "server"}) \cup Partitioning \cup Undoing)'
      BY <3>4 DEF Creating, Partitioning, Undoing
    <3>. QED BY <3>5, NotBuilding, PTL
  <2>. QED BY <2>1, <2>2
<1>10. ServedFirst'
  <2>1. \A j \in listed' \cup indexDirs' \cup partRecord' \cup partEntry' : j \in Index /\ served[j] # NoIndex
    BY <1>1 DEF Lone, ServedFirst, masters, Typed, MastersTyped
  <2>. QED BY <1>8, <2>1 DEF ServedFirst
<1>11. ASSUME NEW d \in Client \ {c} PROVE Spared(d)
  <2>1. Building(d) => Named(d) \in Index BY NamesIndex DEF Building, Creating, Partitioning
  <2>. QED BY <1>1, <1>8, <2>1 DEF Spared, masters
<1>. QED BY <1>9, <1>10, <1>11, LoneStep

\* The creators of indices stay alone when nothing that matters to them changes.
LEMMA LoneSame ==
    ASSUME Lone, UNCHANGED <<listed, indexDirs, partRecord, partEntry, served, home, lock, call>>
    PROVE  Lone'
<1>1. ServedFirst' BY DEF Lone, ServedFirst
<1>2. \A c \in Client : Spared(c) BY DEF Spared
<1>3. \A c \in Client : LoneAt(c)' /\ Named(c)' = Named(c) BY <1>2, SparedIs DEF Lone
<1>4. \A c \in Client : Building(c)' <=> Building(c) BY DEF Building
<1>5. \A c, d \in Client : Building(c)' /\ Building(d)' /\ Named(c)' = Named(d)' => c = d
  BY <1>3, <1>4 DEF Lone
<1>. QED BY <1>1, <1>3, <1>5 DEF Lone

\* There is one creator of an index at a time.
LEMMA OneCreatorKept == ASSUME Typed, OneCreator, [Next]_vars PROVE OneCreator'
<1>0. Typed' BY TypedKept
<1>1. SUFFICES ASSUME ~faulty', gone' = {} PROVE Lone' BY DEF OneCreator
<1>2. CASE UNCHANGED vars
  <2>1. Lone BY <1>1, <1>2 DEF OneCreator, vars, imVars
  <2>. QED BY <1>2, <2>1, LoneSame DEF vars, imVars, masters
<1>3. CASE Next
  <2>1. gone \subseteq gone'
    <3>1. UNCHANGED imVars => gone' = gone BY DEF imVars
    <3>2. \A s : Crash(s) => gone \subseteq gone' BY DEF Crash
    <3>3. \A c, i, type, key, status : create(c, i, type, key, status) => gone \subseteq gone' BY DEF create
    <3>4. \A c, i : create_filled(c, i) => gone' = gone BY DEF create_filled
    <3>5. \A i, kind, ops, status : update_single_index(i, kind, ops, status) => gone' = gone
      BY <3>1 DEF update_single_index
    <3>6. ASSUME NEW c \in Client, Creates(c) PROVE gone \subseteq gone'
      BY <3>1, <3>3, <3>4, <3>6 DEF Creates, create_on_server, created_on_server
    <3>7. ASSUME NEW c \in Client, update(c) \/ search_server(c) \/ info_server(c) PROVE gone \subseteq gone'
      BY <3>1, <3>2, <3>5, <3>7 DEF update, search_server, info_server, ServerDies
    <3>8. ASSUME NEW c \in Client, Quiet(c) \/ OnMasters(c) \/ Reads(c) \/ Begins(c) PROVE gone' = gone
      BY <3>1, <3>8, Frames
    <3>9. \A f : CreateFile(f) \/ UnlinkFile(f) => gone' = gone BY <3>1 DEF CreateFile, UnlinkFile
    <3>10. \A s : Restart(s) => gone \subseteq gone' BY <3>2 DEF Restart
    <3>. QED BY <1>3, <3>6, <3>7, <3>8, <3>9, <3>10, Groups
  <2>2. faulty' = faulty
    <3>1. UNCHANGED Env => faulty' = faulty BY DEF Env
    <3>2. \A f : CreateFile(f) \/ UnlinkFile(f) => faulty' = faulty BY DEF CreateFile, UnlinkFile
    <3>3. \A s : Restart(s) => faulty' = faulty BY <3>1 DEF Restart
    <3>. QED BY <1>3, <3>1, <3>2, <3>3, Groups, Frames
  <2>3. Lone /\ ~faulty BY <1>1, <2>1, <2>2 DEF OneCreator
  <2>4. ASSUME NEW c \in Client, Step(c) \/ Begins(c) PROVE \A d \in Client \ {c} : call'[d] = call[d]
    <3>1. Moves(c) BY <2>4, StepMoves, BeginMoves DEF Begins
    <3>. QED BY <3>1, Moved DEF Typed, Moves
  <2>5. ASSUME NEW c \in Client, Creates(c) PROVE Lone'
    BY <1>1, <2>3, <2>4, <2>5, LoneCreates DEF Step, Creates
  <2>6. ASSUME NEW c \in Client, OnMasters(c) \/ create_index(c) \/ remove_index(c) PROVE Lone'
    <3>1. Step(c) BY <2>6 DEF Step, OnMasters
    <3>. QED BY <2>3, <2>4, <2>6, <3>1, LoneOnMasters
  <2>7. ASSUME NEW c \in Client,
               \/ Reads(c) \/ Begins(c) \/ update(c) \/ search_server(c) \/ info_server(c)
               \/ (Quiet(c) /\ ~create_index(c) /\ ~remove_index(c))
        PROVE  Lone'
    <3>1. Step(c) \/ Begins(c) BY <2>7 DEF Step, Reads, Quiet
    <3>. QED BY <1>0, <1>1, <2>3, <2>4, <2>7, <3>1, LoneElse
  <2>8. ASSUME NEW f, CreateFile(f) \/ UnlinkFile(f) PROVE Lone'
    BY <2>3, <2>8, LoneSame DEF CreateFile, UnlinkFile, imVars, masters
  <2>9. \A s : ~Restart(s) BY <2>3 DEF Restart
  <2>. QED BY <1>3, <2>5, <2>6, <2>7, <2>8, <2>9, Groups
<1>. QED BY <1>2, <1>3

\* Without crashes, failed stores and hash indices, no create_index() comes to a
\* call that it would repeat for ever, whatever else is created and removed at
\* the same time: the lock of the index server admits one creator of an index.
THEOREM IndexClientNeverStuck == Spec => []NeverStuck
<1>1. Init => Typed /\ OneCreator
  <2>. SUFFICES ASSUME Init PROVE Typed /\ OneCreator OBVIOUS
  <2>1. Typed BY TypedAtFirst
  <2>2. \A i \in listed : served[i] # NoIndex
    BY <2>1, IndexManagerAssumption DEF Init, Typed, MastersTyped
  <2>3. \A c \in Client : call[c] = Idle BY DEF Init
  <2>4. \A c \in Client : LoneAt(c) /\ ~Building(c) BY <2>3, NotBuilding
  <2>5. ServedFirst BY <2>2 DEF Init, ServedFirst
  <2>. QED BY <2>1, <2>4, <2>5 DEF OneCreator, Lone
<1>2. Typed /\ OneCreator /\ [Next]_vars => (Typed /\ OneCreator)' BY TypedKept, OneCreatorKept
<1>3. OneCreator => NeverStuck BY DEF OneCreator, Lone, LoneAt, NeverStuck, Stuck, At
<1>. QED BY <1>1, <1>2, <1>3, PTL DEF Spec
=============================================================================
