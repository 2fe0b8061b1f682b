------------------------- MODULE IndexRecordsProofs -------------------------
(***************************************************************************)
(* Proofs about IndexClient.tla: what a search finds, and what an update   *)
(* inserts.  IndexClientProofs.tla has the types, and where the steps of a *)
(* client lead.                                                            *)
(***************************************************************************)
EXTENDS IndexClientProofs

\* Leaves are for Zenon, unless they name SMT.
USE Zenon

(***************************************************************************)
(* What a search returns was inserted                                      *)
(***************************************************************************)

\* The records of the servers were inserted.
Inserted ==
    \A i \in Index : served[i] # NoIndex =>
        InsertionsOf(i, served[i]) \subseteq ever

\* What a step may do to the servers and to the history of insertions.
LEMMA Effects ==
    ASSUME Typed, Next
    PROVE  \/ UNCHANGED <<served, home>> /\ ever' = ever
           \/ /\ ever' = ever /\ home' = home
              /\ \A i \in Index : served'[i] = served[i] \/ served'[i] = NoIndex
           \/ \E c \in Client :
                /\ call[c].at = "filling" /\ Named(c) \in Index /\ create_filled(c, Named(c))
                /\ ever' = ever
           \/ \E c \in Client : At(c, "send") /\ \E i \in call[c].lists : \E status :
                /\ update_single_index(i, call[c].cmd.kind, OpsFor(c, i), status)
                /\ Sent(c, i, status) \/ Unreachable(c, "died")
                /\ Happens(c, i, call[c].cmd.kind, OpsFor(c, i))
                /\ update(c)
<1>. DEFINE Same == UNCHANGED <<served, home>> /\ ever' = ever
            Less == /\ ever' = ever /\ home' = home
                    /\ \A i \in Index : served'[i] = served[i] \/ served'[i] = NoIndex
<1>1. UNCHANGED imVars => UNCHANGED <<served, home>> BY DEF imVars
<1>2. UNCHANGED histories => ever' = ever BY DEF histories
<1>3. ASSUME NEW c \in Client, Quiet(c) \/ OnMasters(c) \/ Reads(c) \/ Begins(c) PROVE Same
  BY <1>1, <1>2, <1>3, Frames
<1>4. \A s : Crash(s) /\ ever' = ever => Less BY DEF Crash
<1>5. \A c, i, status : ServerDies(c, i, status) => Less BY <1>4 DEF ServerDies
<1>6. ASSUME NEW c \in Client, Creates(c)
      PROVE  Same \/ (call[c].at = "filling" /\ Named(c) \in Index /\ create_filled(c, Named(c)) /\ ever' = ever)
  <2>1. ever' = ever BY <1>2, <1>6, Frames
  <2>2. Named(c) \in Index
    BY <1>6, NamesIndex DEF Creates, create_on_server, created_on_server, At, Creating
  <2>3. CASE create_on_server(c) BY <1>1, <2>1, <2>3 DEF create_on_server, create
  <2>4. CASE created_on_server(c) BY <1>1, <2>1, <2>2, <2>4 DEF created_on_server, At
  <2>. QED BY <1>6, <2>3, <2>4 DEF Creates
<1>7. ASSUME NEW c \in Client, search_server(c) \/ info_server(c) PROVE Same \/ Less
  <2>1. \A found : Searched(c, found) => ever' = ever BY <1>2 DEF Searched, Over
  <2>2. search_server(c) => (UNCHANGED imVars /\ ever' = ever) \/ \E i, s : ServerDies(c, i, s)
    BY <1>2, <2>1 DEF search_server, Over
  <2>3. info_server(c) => (UNCHANGED imVars /\ ever' = ever) \/ \E i, s : ServerDies(c, i, s)
    BY <1>2 DEF info_server
  <2>. HIDE DEF Same, Less
  <2>4. UNCHANGED imVars /\ ever' = ever => Same BY <1>1 DEF Same
  <2>. QED BY <1>5, <1>7, <2>2, <2>3, <2>4
<1>8. \A f : CreateFile(f) \/ UnlinkFile(f) => Same BY <1>1, <1>2 DEF CreateFile, UnlinkFile
<1>9. \A s : Restart(s) => Less BY <1>4 DEF Restart
<1>10. ASSUME NEW c \in Client, update(c)
       PROVE  \/ Same \/ Less
              \/ At(c, "send") /\ \E i \in call[c].lists : \E status :
                   /\ update_single_index(i, call[c].cmd.kind, OpsFor(c, i), status)
                   /\ Sent(c, i, status) \/ Unreachable(c, "died")
                   /\ Happens(c, i, call[c].cmd.kind, OpsFor(c, i))
  <2>1. At(c, "send") BY <1>10 DEF update
  <2>2. PICK i \in call[c].lists :
          \/ \E status : /\ update_single_index(i, call[c].cmd.kind, OpsFor(c, i), status)
                         /\ Sent(c, i, status) \/ Unreachable(c, "died")
                         /\ Happens(c, i, call[c].cmd.kind, OpsFor(c, i))
          \/ UNCHANGED imVars /\ Happens(c, i, call[c].cmd.kind, <<>>)
          \/ ServerDies(c, i, "died")
    BY <1>10 DEF update
  <2>3. Happens(c, i, call[c].cmd.kind, <<>>) => ever' = ever
    <3>1. CastKeys(<<>>) = {} BY SMT DEF CastKeys
    <3>2. InsertionsOf(i, RecordsOf(<<>>)) = {} BY <3>1 DEF RecordsOf, InsertionsOf
    <3>3. ever \cup {} = ever OBVIOUS
    <3>. QED BY <3>2, <3>3 DEF Happens
  <2>. HIDE DEF Same, Less
  <2>4. UNCHANGED imVars /\ ever' = ever => Same BY <1>1 DEF Same
  <2>. QED BY <1>5, <2>1, <2>2, <2>3, <2>4
<1>. HIDE DEF Same, Less
<1>11. \/ Same \/ Less
       \/ \E c \in Client : /\ call[c].at = "filling" /\ Named(c) \in Index
                            /\ create_filled(c, Named(c)) /\ ever' = ever
       \/ \E c \in Client : At(c, "send") /\ \E i \in call[c].lists : \E status :
            /\ update_single_index(i, call[c].cmd.kind, OpsFor(c, i), status)
            /\ Sent(c, i, status) \/ Unreachable(c, "died")
            /\ Happens(c, i, call[c].cmd.kind, OpsFor(c, i))
            /\ update(c)
  BY <1>3, <1>6, <1>7, <1>8, <1>9, <1>10, Groups
<1>. QED BY <1>11 DEF Same, Less

\* An insertion stays in the history.
LEMMA EverGrows == ASSUME Typed, [Next]_vars PROVE ever \subseteq ever'
<1>1. CASE UNCHANGED vars BY <1>1 DEF vars, histories
<1>2. CASE Next
  <2>1. \A c, i, kind, ops : Happens(c, i, kind, ops) => ever \subseteq ever' BY DEF Happens
  <2>. QED BY <1>2, <2>1, Effects
<1>. QED BY <1>1, <1>2

\* What an index holds was inserted into it.
LEMMA InsertedKept == ASSUME Typed, Inserted, [Next]_vars PROVE Inserted'
<1>1. CASE UNCHANGED vars BY <1>1 DEF vars, imVars, histories, Inserted
<1>2. CASE Next
  <2>. SUFFICES ASSUME NEW j \in Index, served'[j] # NoIndex, NEW r \in served'[j], r.id # NoObject
                PROVE  [index |-> j, key |-> r.key, file |-> r.id] \in ever'
    BY DEF Inserted, InsertionsOf
  <2>. DEFINE a == [index |-> j, key |-> r.key, file |-> r.id]
  <2>1. ASSUME served[j] # NoIndex, r \in served[j] PROVE a \in ever'
    <3>1. a \in InsertionsOf(j, served[j]) BY <2>1 DEF InsertionsOf
    <3>. QED BY <1>2, <2>1, <3>1, EverGrows DEF Inserted
  <2>. HIDE DEF a
  <2>2. ASSUME served'[j] = served[j] PROVE a \in ever' BY <2>1, <2>2
  <2>3. ASSUME NEW c \in Client, Named(c) \in Index, create_filled(c, Named(c)) PROVE a \in ever'
    <3>1. served'[j] = IF j = Named(c) THEN {} ELSE served[j]
      BY <2>3 DEF create_filled, Typed, IndexManagerTypeOK
    <3>. QED BY <2>1, <3>1
  <2>4. ASSUME NEW c \in Client, At(c, "send"), NEW i \in call[c].lists, NEW status,
               update_single_index(i, call[c].cmd.kind, OpsFor(c, i), status),
               Happens(c, i, call[c].cmd.kind, OpsFor(c, i))
        PROVE  a \in ever'
    <3>. DEFINE kind == call[c].cmd.kind
                ops == OpsFor(c, i)
    <3>. HIDE DEF ops
    <3>1. update_single_index(i, kind, ops, status) /\ Happens(c, i, kind, ops) BY <2>4 DEF ops
    <3>2. CASE UNCHANGED imVars BY <2>2, <3>2 DEF imVars
    <3>3. CASE served[i] # NoIndex /\ served' = [served EXCEPT ![i] = apply(@, kind, ops)]
      <4>1. i \in Index BY <2>4, ListIs
      <4>2. served'[j] = IF j = i THEN apply(served[i], kind, ops) ELSE served[j]
        BY <3>3, <4>1 DEF Typed, IndexManagerTypeOK
      <4>3. CASE j = i /\ r \notin served[i]
        <5>1. kind # "REMOVE" /\ r \in RecordsOf(ops) BY <4>2, <4>3 DEF apply
        <5>2. a \in InsertionsOf(i, RecordsOf(ops)) BY <4>3, <5>1 DEF InsertionsOf, a
        <5>3. ever' = ever \cup InsertionsOf(i, RecordsOf(ops)) BY <3>1, <3>3, <5>1 DEF Happens
        <5>. QED BY <5>2, <5>3
      <4>. QED BY <2>1, <3>3, <4>2, <4>3
    <3>. QED BY <3>1, <3>2, <3>3 DEF update_single_index
  <2>5. a \in ever' BY <1>2, <2>2, <2>3, <2>4, Effects
  <2>. QED BY <2>5 DEF a
<1>. QED BY <1>1, <1>2

\* The steps that lead a client on in an update or in a search.
LEMMA Onwards ==
    ASSUME Typed, CallsTyped', NEW c \in Client, Step(c)
    PROVE  /\ call'[c].at \in {"climb", "resolve", "send"} => climb(c) \/ find_objects(c) \/ update(c)
           /\ call'[c].at \in {"locate", "ask", "paths", "getattrs"} =>
                locate_index_for_search(c) \/ search_server(c) \/ find_files(c) \/ readdir_getattr(c)
<1>1. call'[c].at # "idle" => call'[c].cmd = call[c].cmd BY SameCommand, IdleIs DEF Carries
<1>2. CallOK(call'[c]) BY DEF CallsTyped
<1>3. CallOK(call[c]) BY DEF Typed, CallsTyped
<1>4. ASSUME call'[c].at \in {"climb", "resolve", "send"}
      PROVE  climb(c) \/ find_objects(c) \/ update(c)
  <2>1. call[c].cmd \in UpdateCmd BY <1>1, <1>2, <1>4, Kept
  <2>2. call[c].cmd \notin IndexCmd \cup SearchCmd \cup ListCmd
    BY <2>1 DEF IndexCmd, UpdateCmd, SearchCmd, ListCmd
  <2>3. call[c].at \notin Creating \cup Partitioning \cup Undoing BY <1>3, <2>2, Kept
  <2>4. call[c].at \notin {"locate", "ask", "paths", "getattrs"} BY <1>3, <2>2, Kept
  <2>5. call[c].at \notin {"readdir", "subfiles", "infos", "info"} BY <1>3, <2>2, Kept
  <2>. QED BY <2>3, <2>4, <2>5
         DEF Step, create_index, create_on_server, created_on_server, make_vsfs_dir, insert_name,
             make_index_dir, create_partition, list_partition, roll_back_partition,
             remove_index_dir, remove_index, unlink_entry, unlink_record, locate_index_for_search,
             search_server, find_files, readdir_getattr, list_subfiles, getattr_subfile,
             get_index_infos, info_server, At, Creating, Partitioning, Undoing
<1>5. ASSUME call'[c].at \in {"locate", "ask", "paths", "getattrs"}
      PROVE  locate_index_for_search(c) \/ search_server(c) \/ find_files(c) \/ readdir_getattr(c)
  <2>1. call[c].cmd \in SearchCmd BY <1>1, <1>2, <1>5, Kept
  <2>2. call[c].cmd \notin IndexCmd \cup UpdateCmd \cup ListCmd
    BY <2>1 DEF IndexCmd, UpdateCmd, SearchCmd, ListCmd
  <2>3. call[c].at \notin Creating \cup Partitioning \cup Undoing BY <1>3, <2>2, Kept
  <2>4. call[c].at \notin {"climb", "resolve", "send"} BY <1>3, <2>2, Kept
  <2>5. call[c].at \notin {"readdir", "subfiles", "infos", "info"} BY <1>3, <2>2, Kept
  <2>. QED BY <2>3, <2>4, <2>5
         DEF Step, create_index, create_on_server, created_on_server, make_vsfs_dir, insert_name,
             make_index_dir, create_partition, list_partition, roll_back_partition,
             remove_index_dir, remove_index, unlink_entry, unlink_record, climb, find_objects,
             update, list_subfiles, getattr_subfile, get_index_infos, info_server, At, Creating,
             Partitioning, Undoing
<1>. QED BY <1>4, <1>5

\* What an operation returns.
LEMMA Ended ==
    ASSUME Typed, NEW c \in Client, NEW status
    PROVE  /\ Return(c, status) => call'[c] = Idle /\ answer'.status = status /\ answer'.found = {}
           /\ \A found : ReturnFound(c, status, found) =>
                call'[c] = Idle /\ answer'.status = status /\ answer'.found = found
<1>1. ASSUME NEW found, ReturnFound(c, status, found)
      PROVE  call'[c] = Idle /\ answer'.status = status /\ answer'.found = found
  <2>1. call'[c] = Idle BY <1>1, Moved DEF ReturnFound, Typed
  <2>2. answer' = [status |-> status, found |-> found] BY <1>1 DEF ReturnFound
  <2>. QED BY <2>1, <2>2
<1>. QED BY <1>1 DEF Return

\* What each step of a search leaves the client with.
LEMMA SearchedIs ==
    ASSUME Typed, NEW c \in Client, NEW found, Searched(c, found)
    PROVE  \/ call'[c] = Idle /\ answer' = [status |-> "OK", found |-> found] /\ Over(c)
           \/ /\ call'[c].at = "getattrs" /\ call'[c].cmd = call[c].cmd /\ call'[c].found = found
              /\ UNCHANGED histories
<1>0. \A new : call' = [call EXCEPT ![c] = new] => call'[c] = new BY Moved DEF Typed
<1>. DEFINE new == [at |-> "getattrs", cmd |-> call[c].cmd, left |-> found, found |-> found]
<1>1. new.at = "getattrs" /\ new.cmd = call[c].cmd /\ new.found = found OBVIOUS
<1>2. \/ ReturnFound(c, "OK", found) /\ Over(c)
      \/ Becomes(c, new) /\ UNCHANGED histories
  BY DEF Searched
<1>. HIDE DEF new
<1>. QED BY <1>0, <1>1, <1>2 DEF ReturnFound, Becomes

\* A master is asked for the indices that match: where this leads.
LEMMA LocateIs ==
    ASSUME Typed, NEW c \in Client, locate_index_for_search(c)
    PROVE  \E left, hits :
             /\ left = call[c].left \ {Min(call[c].left)}
             /\ hits = call[c].hits \cup {i \in listed : /\ Matches(i, call[c].cmd)
                                                         /\ IndexMaster[i] = Min(call[c].left)}
             /\ \/ /\ left # {} /\ call'[c].at = "locate" /\ call'[c].cmd = call[c].cmd
                   /\ call'[c].left = left /\ call'[c].hits = hits /\ UNCHANGED histories
                \/ left = {} /\ hits = {} /\ Searched(c, {})
                \/ /\ left = {} /\ call'[c].at = "ask" /\ call'[c].cmd = call[c].cmd
                   /\ call'[c].hits = hits /\ call'[c].objects = {} /\ UNCHANGED histories
<1>0. \A new : Becomes(c, new) => call'[c] = new BY Moved DEF Typed, Becomes
<1>. DEFINE k == call[c]
            m == Min(k.left)
            indices == {i \in listed : Matches(i, k.cmd)}
            next == Located(c, indices)
            left == k.left \ {m}
            hits == k.hits \cup {i \in indices : IndexMaster[i] = m}
            asks == [at |-> "ask", cmd |-> k.cmd, hits |-> next.hits, objects |-> {}]
<1>1. k \in LocateCall BY DEF locate_index_for_search, At, Typed, CallsTyped, CallOK
<1>2. next = [k EXCEPT !.left = left, !.hits = hits] BY DEF Located
<1>3. hits = k.hits \cup {i \in listed : Matches(i, k.cmd) /\ IndexMaster[i] = m} OBVIOUS
<1>4. asks.at = "ask" /\ asks.cmd = k.cmd /\ asks.hits = next.hits /\ asks.objects = {} OBVIOUS
<1>5. \/ next.left # {} /\ Becomes(c, next) /\ UNCHANGED histories
      \/ next.left = {} /\ next.hits = {} /\ Searched(c, {})
      \/ next.left = {} /\ next.hits # {} /\ Becomes(c, asks) /\ UNCHANGED histories
  <2>. HIDE DEF next, asks
  <2>1. next.left # {} \/ (next.left = {} /\ next.hits = {}) \/ (next.left = {} /\ next.hits # {})
    OBVIOUS
  <2>. QED BY <2>1 DEF locate_index_for_search, next, asks
<1>. HIDE DEF next, asks
<1>6. next.at = "locate" /\ next.cmd = k.cmd /\ next.left = left /\ next.hits = hits
  <2>. HIDE DEF k, left, hits
  <2>. QED BY <1>1, <1>2 DEF LocateCall
<1>. HIDE DEF left, hits
<1>7. \/ /\ left # {} /\ call'[c].at = "locate" /\ call'[c].cmd = k.cmd
         /\ call'[c].left = left /\ call'[c].hits = hits /\ UNCHANGED histories
      \/ left = {} /\ hits = {} /\ Searched(c, {})
      \/ /\ left = {} /\ call'[c].at = "ask" /\ call'[c].cmd = k.cmd
         /\ call'[c].hits = hits /\ call'[c].objects = {} /\ UNCHANGED histories
  BY <1>0, <1>4, <1>5, <1>6
<1>. QED BY <1>3, <1>7 DEF left

\* An index is asked for the objects in range: where this leads.
LEMMA AskIs ==
    ASSUME Typed, NEW c \in Client, search_server(c)
    PROVE  \E i \in call[c].hits : \E rest, objects :
             /\ rest = call[c].hits \ {i}
             /\ \/ call'[c] = Idle /\ answer'.status = "error"
                \/ /\ served[i] # NoIndex
                   /\ objects = call[c].objects \cup search(i, range_query(call[c].cmd.query, i.name))
                   /\ \/ rest = {} /\ objects = {} /\ Searched(c, {})
                      \/ /\ rest = {} /\ objects # {} /\ call'[c].at = "paths"
                         /\ call'[c].cmd = call[c].cmd /\ call'[c].objects = objects
                         /\ call'[c].left = {MasterOfId(o) : o \in objects}
                         /\ call'[c].found = {} /\ UNCHANGED histories
                      \/ /\ rest # {} /\ call'[c].at = "ask" /\ call'[c].cmd = call[c].cmd
                         /\ call'[c].hits = rest /\ call'[c].objects = objects
                         /\ UNCHANGED histories
<1>0. \A new : Becomes(c, new) => call'[c] = new BY Moved DEF Typed, Becomes
<1>. DEFINE k == call[c]
            i == NextHit(k.hits)
            rest == k.hits \ {i}
            objects == k.objects \cup search(i, range_query(k.cmd.query, i.name))
            more == [k EXCEPT !.hits = rest, !.objects = objects]
            last == Paths(k.cmd, objects)
<1>1. k \in AskCall BY DEF search_server, At, Typed, CallsTyped, CallOK
<1>2. i \in k.hits BY <1>1, NextIsHit DEF AskCall
<1>3. \/ served[i] # NoIndex /\ rest = {} /\ objects = {} /\ Searched(c, {})
      \/ /\ served[i] # NoIndex /\ (rest # {} \/ objects # {})
         /\ Becomes(c, IF rest = {} THEN last ELSE more) /\ UNCHANGED histories
      \/ Return(c, "error")
  BY DEF search_server, ServerDies
<1>. HIDE DEF i, rest, objects
<1>4. /\ last.at = "paths" /\ last.cmd = k.cmd /\ last.objects = objects
      /\ last.left = {MasterOfId(o) : o \in objects} /\ last.found = {}
  BY DEF Paths
<1>5. more.at = "ask" /\ more.cmd = k.cmd /\ more.hits = rest /\ more.objects = objects
  <2>. HIDE DEF k
  <2>. QED BY <1>1 DEF AskCall
<1>6. Return(c, "error") => call'[c] = Idle /\ answer'.status = "error"
  BY Ended
<1>. HIDE DEF last, more
<1>7. \/ call'[c] = Idle /\ answer'.status = "error"
      \/ /\ served[i] # NoIndex
         /\ \/ rest = {} /\ objects = {} /\ Searched(c, {})
            \/ /\ rest = {} /\ objects # {} /\ call'[c].at = "paths"
               /\ call'[c].cmd = k.cmd /\ call'[c].objects = objects
               /\ call'[c].left = {MasterOfId(o) : o \in objects}
               /\ call'[c].found = {} /\ UNCHANGED histories
            \/ /\ rest # {} /\ call'[c].at = "ask" /\ call'[c].cmd = k.cmd
               /\ call'[c].hits = rest /\ call'[c].objects = objects
               /\ UNCHANGED histories
  <2>1. CASE rest = {} BY <1>0, <1>3, <1>4, <1>6, <2>1
  <2>2. CASE rest # {} BY <1>0, <1>3, <1>5, <1>6, <2>2
  <2>. QED BY <2>1, <2>2
<1>8. objects = k.objects \cup search(i, range_query(k.cmd.query, i.name)) /\ rest = k.hits \ {i}
  BY DEF objects, rest
<1>. HIDE DEF k
<1>. QED BY <1>2, <1>7, <1>8 DEF k

\* A master is asked for the paths of objects: where this leads.
LEMMA PathsIs ==
    ASSUME Typed, NEW c \in Client, find_files(c)
    PROVE  \E rest, found :
             /\ rest = call[c].left \ {Min(call[c].left)}
             /\ found = call[c].found \cup {IF o \in files THEN o ELSE NoPath :
                          o \in {o \in call[c].objects : MasterOfId(o) = Min(call[c].left)}}
             /\ \/ rest = {} /\ Searched(c, found)
                \/ /\ rest # {} /\ call'[c].at = "paths" /\ call'[c].cmd = call[c].cmd
                   /\ call'[c].objects = call[c].objects /\ call'[c].left = rest
                   /\ call'[c].found = found /\ UNCHANGED histories
<1>0. \A new : Becomes(c, new) => call'[c] = new BY Moved DEF Typed, Becomes
<1>. DEFINE k == call[c]
            m == Min(k.left)
            rest == k.left \ {m}
            here == {o \in k.objects : MasterOfId(o) = m}
            found == k.found \cup {IF o \in files THEN o ELSE NoPath : o \in here}
            more == [k EXCEPT !.left = rest, !.found = found]
<1>1. k \in PathsCall BY DEF find_files, At, Typed, CallsTyped, CallOK
<1>2. \/ rest = {} /\ Searched(c, found)
      \/ rest # {} /\ Becomes(c, more) /\ UNCHANGED histories
  BY DEF find_files
<1>. HIDE DEF rest, found
<1>3. /\ more.at = "paths" /\ more.cmd = k.cmd /\ more.objects = k.objects /\ more.left = rest
      /\ more.found = found
  <2>. HIDE DEF k
  <2>. QED BY <1>1 DEF PathsCall
<1>. HIDE DEF more
<1>4. \/ rest = {} /\ Searched(c, found)
      \/ /\ rest # {} /\ call'[c].at = "paths" /\ call'[c].cmd = k.cmd
         /\ call'[c].objects = k.objects /\ call'[c].left = rest
         /\ call'[c].found = found /\ UNCHANGED histories
  BY <1>0, <1>2, <1>3
<1>. QED BY <1>4 DEF rest, found

\* The files of a listing are looked up: where this leads.
LEMMA GetattrsIs ==
    ASSUME Typed, NEW c \in Client, readdir_getattr(c)
    PROVE  \/ call'[c] = Idle /\ answer'.status = "error"
           \/ call'[c] = Idle /\ answer'.found = call[c].found /\ Over(c)
           \/ /\ call'[c].at = "getattrs" /\ call'[c].cmd = call[c].cmd
              /\ call'[c].found = call[c].found /\ UNCHANGED histories
<1>0. \A new : Becomes(c, new) => call'[c] = new BY Moved DEF Typed, Becomes
<1>. DEFINE k == call[c]
<1>1. k \in GetattrsCall BY DEF readdir_getattr, At, Typed, CallsTyped, CallOK
<1>2. \/ Return(c, "error")
      \/ ReturnFound(c, "OK", k.found) /\ Over(c)
      \/ \E rest : Becomes(c, [k EXCEPT !.left = rest]) /\ UNCHANGED histories
  BY DEF readdir_getattr
<1>. HIDE DEF k
<1>3. \A rest : LET more == [k EXCEPT !.left = rest] IN
        more.at = "getattrs" /\ more.cmd = k.cmd /\ more.found = k.found
  BY <1>1 DEF GetattrsCall
<1>4. CASE Return(c, "error") BY <1>4, Ended
<1>5. CASE ReturnFound(c, "OK", k.found) /\ Over(c)
  <2>1. answer' = [status |-> "OK", found |-> k.found] /\ call'[c] = Idle
    BY <1>5, Moved DEF ReturnFound, Typed
  <2>2. answer'.found = k.found BY <2>1
  <2>. QED BY <1>5, <2>1, <2>2 DEF k
<1>6. CASE \E rest : Becomes(c, [k EXCEPT !.left = rest]) /\ UNCHANGED histories
  <2>1. PICK rest : Becomes(c, [k EXCEPT !.left = rest]) /\ UNCHANGED histories BY <1>6
  <2>2. call'[c] = [k EXCEPT !.left = rest] BY <1>0, <2>1
  <2>3. call'[c].at = "getattrs" /\ call'[c].cmd = k.cmd /\ call'[c].found = k.found
    BY <1>3, <2>2
  <2>. QED BY <2>1, <2>3 DEF k
<1>. QED BY <1>2, <1>4, <1>5, <1>6

\* A file that a search has found so far was inserted, with a key that the range
\* selects that was made of the query, in an index that the query is about.
Hit(known, cmd, f) ==
    \E a \in known : /\ a.file = f
                    /\ Matches(a.index, cmd)
                    /\ Selected(a.key, range_query(cmd.query, a.index.name))
Hits(c) ==
    /\ call[c].at \in {"ask", "paths"} => \A o \in call[c].objects \ {NoObject} : Hit(ever, call[c].cmd, o)
    /\ call[c].at \in {"paths", "getattrs"} => \A f \in call[c].found \ {NoPath} : Hit(ever, call[c].cmd, f)

\* What was inserted stays so.
LEMMA HitForGood ==
    ASSUME Typed, [Next]_vars, NEW cmd, NEW f, Hit(ever, cmd, f)
    PROVE  Hit(ever', cmd, f)
BY EverGrows DEF Hit

\* The step of a search keeps to what was inserted, and so does its answer.
LEMMA HitStep ==
    ASSUME Typed, CallsTyped', Inserted, NEW c \in Client, Hits(c), Step(c), Next
    PROVE  /\ Hits(c)'
           /\ call[c].at \in {"locate", "ask", "paths", "getattrs"} /\ call'[c] = Idle
                /\ answer'.status = "OK" =>
                \A f \in answer'.found \ {NoPath} : Hit(ever, call[c].cmd, f)
<1>. DEFINE k == call[c]
            Answers == call'[c] = Idle /\ answer'.status = "OK" =>
                      \A f \in answer'.found \ {NoPath} : Hit(ever, k.cmd, f)
<1>0. \A f : Hit(ever, k.cmd, f) => Hit(ever', k.cmd, f) BY HitForGood
<1>1. call'[c] = Idle => Hits(c)' BY IdleIs DEF Hits
<1>2. ASSUME NEW found, \A f \in found \ {NoPath} : Hit(ever, k.cmd, f), Searched(c, found)
      PROVE  Hits(c)' /\ Answers
  <2>1. CASE call'[c] = Idle /\ answer' = [status |-> "OK", found |-> found]
    <3>1. answer'.found = found BY <2>1
    <3>. QED BY <1>1, <1>2, <2>1, <3>1
  <2>2. CASE call'[c].at = "getattrs" /\ call'[c].cmd = k.cmd /\ call'[c].found = found
    <3>1. call'[c] # Idle BY <2>2, IdleIs
    <3>2. \A f \in call'[c].found \ {NoPath} : Hit(ever', call'[c].cmd, f) BY <1>0, <1>2, <2>2
    <3>. QED BY <2>2, <3>1, <3>2 DEF Hits
  <2>. QED BY <1>2, <2>1, <2>2, SearchedIs
<1>3. Searched(c, {}) => Hits(c)' /\ Answers BY <1>2
<1>4. ASSUME locate_index_for_search(c) PROVE Hits(c)' /\ Answers
  <2>1. \/ Searched(c, {}) \/ call'[c].at = "locate"
        \/ call'[c].at = "ask" /\ call'[c].objects = {}
    BY <1>4, LocateIs
  <2>2. call'[c].at \in {"locate", "ask"} => call'[c] # Idle BY IdleIs
  <2>. QED BY <1>3, <2>1, <2>2 DEF Hits
<1>5. ASSUME search_server(c) PROVE Hits(c)' /\ Answers
  <2>1. k \in AskCall BY <1>5 DEF search_server, At, Typed, CallsTyped, CallOK
  <2>2. /\ k.at = "ask" /\ k.cmd \in SearchCmd /\ k.hits \in SUBSET Index
        /\ \A j \in k.hits : Matches(j, k.cmd)
    BY <2>1 DEF AskCall
  <2>3. PICK i \in k.hits : \E rest, objects :
             /\ rest = call[c].hits \ {i}
             /\ \/ call'[c] = Idle /\ answer'.status = "error"
                \/ /\ served[i] # NoIndex
                   /\ objects = call[c].objects \cup search(i, range_query(call[c].cmd.query, i.name))
                   /\ \/ rest = {} /\ objects = {} /\ Searched(c, {})
                      \/ /\ rest = {} /\ objects # {} /\ call'[c].at = "paths"
                         /\ call'[c].cmd = call[c].cmd /\ call'[c].objects = objects
                         /\ call'[c].left = {MasterOfId(o) : o \in objects}
                         /\ call'[c].found = {} /\ UNCHANGED histories
                      \/ /\ rest # {} /\ call'[c].at = "ask" /\ call'[c].cmd = call[c].cmd
                         /\ call'[c].hits = rest /\ call'[c].objects = objects
                         /\ UNCHANGED histories
    BY <1>5, AskIs
  <2>. DEFINE range == range_query(k.cmd.query, i.name)
              all == k.objects \cup search(i, range)
  <2>4. ASSUME served[i] # NoIndex, NEW o \in search(i, range), o # NoObject PROVE Hit(ever, k.cmd, o)
    <3>1. PICK r \in served[i] : Selected(r.key, range) /\ r.id = o
      BY <2>4 DEF search, range_search
    <3>. DEFINE a == [index |-> i, key |-> r.key, file |-> r.id]
    <3>2. a \in InsertionsOf(i, served[i]) BY <2>4, <3>1 DEF InsertionsOf
    <3>3. i \in Index /\ Matches(i, k.cmd) BY <2>2
    <3>4. a \in ever BY <2>4, <3>2, <3>3 DEF Inserted
    <3>5. a.index = i /\ a.key = r.key /\ a.file = o BY <3>1
    <3>. HIDE DEF a
    <3>. QED BY <3>1, <3>3, <3>4, <3>5 DEF Hit
  <2>5. served[i] # NoIndex => \A o \in all \ {NoObject} : Hit(ever', k.cmd, o) BY <1>0, <2>2, <2>4 DEF Hits
  <2>6. CASE call'[c] = Idle /\ answer'.status = "error" BY <1>1, <2>6
  <2>7. CASE Searched(c, {}) BY <1>3, <2>7
  <2>8. CASE /\ served[i] # NoIndex /\ call'[c].at \in {"ask", "paths"} /\ call'[c].cmd = k.cmd
             /\ call'[c].objects = all /\ (call'[c].at = "paths" => call'[c].found = {})
    <3>1. call'[c] # Idle BY <2>8, IdleIs
    <3>. HIDE DEF all
    <3>2. \A o \in call'[c].objects \ {NoObject} : Hit(ever', call'[c].cmd, o) BY <2>5, <2>8
    <3>3. call'[c].at \in {"paths", "getattrs"} => call'[c].found = {} BY <2>8
    <3>. QED BY <3>1, <3>2, <3>3 DEF Hits
  <2>. QED BY <2>3, <2>6, <2>7, <2>8
<1>6. ASSUME find_files(c) PROVE Hits(c)' /\ Answers
  <2>. DEFINE here == {o \in k.objects : MasterOfId(o) = Min(k.left)}
              found == k.found \cup {IF o \in files THEN o ELSE NoPath : o \in here}
  <2>1. k \in PathsCall /\ k.at = "paths" BY <1>6 DEF find_files, At, Typed, CallsTyped, CallOK
  <2>2. /\ \A o \in k.objects \ {NoObject} : Hit(ever, k.cmd, o)
        /\ \A f \in k.found \ {NoPath} : Hit(ever, k.cmd, f)
    BY <2>1 DEF Hits
  <2>3. \A o \in files : o # NoObject BY IndexManagerAssumption DEF Typed, EnvTyped
  <2>4. \A f \in found \ {NoPath} : Hit(ever, k.cmd, f) BY <2>2, <2>3
  <2>. HIDE DEF found
  <2>5. \/ Searched(c, found)
        \/ /\ call'[c].at = "paths" /\ call'[c].cmd = k.cmd /\ call'[c].objects = k.objects
           /\ call'[c].found = found
    BY <1>6, PathsIs DEF found
  <2>6. CASE Searched(c, found) BY <1>2, <2>4, <2>6
  <2>7. CASE /\ call'[c].at = "paths" /\ call'[c].cmd = k.cmd /\ call'[c].objects = k.objects
             /\ call'[c].found = found
    <3>1. call'[c] # Idle BY <2>7, IdleIs
    <3>2. /\ \A o \in call'[c].objects \ {NoObject} : Hit(ever', call'[c].cmd, o)
          /\ \A f \in call'[c].found \ {NoPath} : Hit(ever', call'[c].cmd, f)
      BY <1>0, <2>2, <2>4, <2>7
    <3>. QED BY <3>1, <3>2 DEF Hits
  <2>. QED BY <2>5, <2>6, <2>7
<1>7. ASSUME readdir_getattr(c) PROVE Hits(c)' /\ Answers
  <2>1. k.at = "getattrs" BY <1>7 DEF readdir_getattr, At
  <2>2. \A f \in k.found \ {NoPath} : Hit(ever, k.cmd, f) BY <2>1 DEF Hits
  <2>3. CASE call'[c].at = "getattrs" /\ call'[c].cmd = k.cmd /\ call'[c].found = k.found
    <3>1. call'[c] # Idle BY <2>3, IdleIs
    <3>2. \A f \in call'[c].found \ {NoPath} : Hit(ever', call'[c].cmd, f) BY <1>0, <2>2, <2>3
    <3>. QED BY <2>3, <3>1, <3>2 DEF Hits
  <2>4. CASE call'[c] = Idle /\ answer'.status = "error" BY <1>1, <2>4
  <2>5. CASE call'[c] = Idle /\ answer'.found = k.found BY <1>1, <2>2, <2>5
  <2>. QED BY <1>7, <2>3, <2>4, <2>5, GetattrsIs
<1>. HIDE DEF Answers
<1>8. CASE locate_index_for_search(c) \/ search_server(c) \/ find_files(c) \/ readdir_getattr(c)
  BY <1>4, <1>5, <1>6, <1>7, <1>8 DEF Answers
<1>9. CASE ~(locate_index_for_search(c) \/ search_server(c) \/ find_files(c) \/ readdir_getattr(c))
  <2>1. call'[c].at \notin {"locate", "ask", "paths", "getattrs"} BY <1>9, Onwards
  <2>2. Hits(c)' BY <2>1 DEF Hits
  <2>3. k.at \notin {"locate", "ask", "paths", "getattrs"}
    BY <1>9 DEF Step, create_index, create_on_server, created_on_server, make_vsfs_dir, insert_name,
       make_index_dir, create_partition, list_partition, roll_back_partition, remove_index_dir,
       remove_index, unlink_entry, unlink_record, climb, find_objects, update, list_subfiles,
       getattr_subfile, get_index_infos, info_server, At
  <2>. QED BY <2>2, <2>3
<1>. QED BY <1>8, <1>9

\* Every search keeps to what was inserted.
LEMMA HitsKept ==
    ASSUME Typed, Inserted, \A c \in Client : Hits(c), [Next]_vars
    PROVE  \A c \in Client : Hits(c)'
<1>0. Typed' BY TypedKept
<1>. SUFFICES ASSUME NEW c \in Client PROVE Hits(c)' OBVIOUS
<1>1. CASE call'[c] = call[c]
  <2>1. \A f : Hit(ever, call[c].cmd, f) => Hit(ever', call'[c].cmd, f) BY <1>1, HitForGood
  <2>. QED BY <1>1, <2>1 DEF Hits
<1>2. CASE Next /\ Step(c) BY <1>0, <1>2, HitStep DEF Typed
<1>3. CASE Begins(c)
  <2>1. call'[c] = Idle => call'[c].at = "idle" BY IdleIs
  <2>2. call'[c].at \notin {"ask", "paths", "getattrs"} BY <1>3, <2>1, Starts
  <2>. QED BY <2>2 DEF Hits
<1>4. UNCHANGED vars => call'[c] = call[c] BY DEF vars
<1>. QED BY <1>1, <1>2, <1>3, <1>4, OneMoves

\* A step that ends a search is one of the search.
LEMMA SearchEndsInStep ==
    ASSUME Typed, [Next]_vars, NEW c \in Client, SearchEnds(c)
    PROVE  Next /\ Step(c)
<1>1. call[c].at # "idle" /\ call'[c].at = "idle" BY IdleIs DEF SearchEnds
<1>2. ~UNCHANGED vars BY <1>1 DEF vars
<1>3. ~Begins(c) BY <1>1, Starts, IdleIs
<1>. QED BY <1>1, <1>2, <1>3, OneMoves

SoundStep ==
    \A c \in Client : SearchEnds(c) =>
         \A f \in answer'.found \ {NoPath} : \E a \in ever :
            /\ a.file = f
            /\ Matches(a.index, call[c].cmd)
            /\ Satisfies(a.key, call[c].cmd.path)

\* A search, or the listing of a query, that returns OK has found no file but
\* those that were inserted with a key that satisfies the query: whatever is
\* created, updated and removed meanwhile, whichever servers crash and come back,
\* and for any commands whose ranges are Understood.
THEOREM IndexClientSearchSound ==
    ASSUME Understood
    PROVE  Spec => SearchSound
<1>. DEFINE Inv == Typed /\ Inserted /\ \A c \in Client : Hits(c)
<1>1. Init => Inv
  <2>. SUFFICES ASSUME Init PROVE Inv OBVIOUS
  <2>1. Typed BY TypedAtFirst
  <2>2. Inserted
    <3>1. \A i \in Index : served[i] # NoIndex => served[i] = {} BY DEF Init
    <3>. QED BY <3>1 DEF Inserted, InsertionsOf
  <2>3. \A c \in Client : call[c].at = "idle" BY DEF Init, Idle
  <2>. QED BY <2>1, <2>2, <2>3 DEF Hits
<1>2. Inv /\ [Next]_vars => Inv' BY TypedKept, InsertedKept, HitsKept
<1>3. Inv /\ [Next]_vars => [SoundStep]_vars
  <2>. SUFFICES ASSUME Inv, [Next]_vars, NEW c \in Client, SearchEnds(c), NEW f \in answer'.found \ {NoPath}
                PROVE  \E a \in ever : /\ a.file = f /\ Matches(a.index, call[c].cmd)
                                       /\ Satisfies(a.key, call[c].cmd.path)
    BY DEF SoundStep
  <2>. DEFINE cmd == call[c].cmd
  <2>1. Typed /\ Typed' BY TypedKept
  <2>2. Next /\ Step(c) BY <2>1, SearchEndsInStep
  <2>3. Hit(ever, cmd, f) BY <2>1, <2>2, HitStep DEF SearchEnds, Typed
  <2>4. PICK a \in ever : /\ a.file = f /\ Matches(a.index, cmd)
                          /\ Selected(a.key, range_query(cmd.query, a.index.name))
    BY <2>3 DEF Hit
  <2>5. CallOK(call[c]) BY <2>1 DEF Typed, CallsTyped
  <2>6. cmd \in SearchCmd BY <2>5, Kept DEF SearchEnds
  <2>7. a.index.name \in get_names_of_range_queries(cmd.query) BY <2>4 DEF Matches
  <2>8. a.key \in Key BY <2>1 DEF Typed, HistoriesTyped, Insertion
  <2>9. cmd \in Commands /\ cmd.op \in {"search", "readdir"} /\ cmd.query.ok /\ Plain(cmd.path)
    BY <2>6 DEF SearchCmd, SearchEnds
  <2>10. Satisfies(a.key, cmd.path) BY <2>4, <2>7, <2>8, <2>9 DEF Understood
  <2>. QED BY <2>4, <2>10
<1>4. Spec => [][SoundStep]_vars BY <1>1, <1>2, <1>3, PTL DEF Spec
<1>. QED BY <1>4 DEF SearchSound, SoundStep

(***************************************************************************)
(* Insertions in force                                                     *)
(***************************************************************************)

\* The thread that holds the lock of a server is about to fill in an index that
\* the server does not know.
Locked ==
    \A s \in Server, c \in Client : lock[s] = c =>
        At(c, "filling") /\ home[Named(c)] = s /\ served[Named(c)] = NoIndex

\* How a client comes to fill in an index, and to make the directory of one.
LEMMA Comings ==
    ASSUME Typed, Typed', NEW c \in Client, Step(c), call'[c].at \in {"filling", "dir"}
    PROVE  /\ Named(c)' = Named(c) /\ Named(c) \in Index
           /\ call'[c].at = "filling" => create_on_server(c)
           /\ call'[c].at = "dir" =>
                insert_name(c) /\ Named(c) \notin listed /\ listed' = listed \cup {Named(c)}
<1>0. call[c].at \in Creating \cup Partitioning \cup Undoing
  BY Elsewhere DEF Typed, Creating
<1>1. call'[c] # Idle BY IdleIs
<1>2. Named(c)' = Named(c) BY <1>1, SameCommand DEF Carries, Named
<1>3. Named(c) \in Index BY <1>0, NamesIndex
<1>4. \A w : Goto(c, w) => call'[c].at = w BY <1>0, Places
<1>5. \A then : ~Undo(c, then) BY <1>0, Places
<1>6. ~Partition(c) BY <1>0, Places
<1>7. \A status : ~Return(c, status) BY <1>0, <1>1, Places
<1>8. call[c].at \in Partitioning \cup Undoing => ~Failing(c)
  <2>1. call[c].at \in Partitioning \cup Undoing => call[c].at \notin {"filling", "dir"}
    BY DEF Partitioning, Undoing
  <2>. QED BY <1>0, <2>1, Places
<1>9. CASE create_on_server(c)
  <2>1. call'[c].at # "dir" BY <1>4, <1>7, <1>9 DEF create_on_server, Unreachable
  <2>. QED BY <1>2, <1>3, <1>9, <2>1
<1>10. CASE insert_name(c)
  <2>1. Named(c) \notin listed /\ listed' = listed \cup {Named(c)} /\ Goto(c, "dir")
    BY <1>5, <1>10 DEF insert_name
  <2>. QED BY <1>2, <1>3, <1>4, <1>10, <2>1
<1>11. ~create_index(c) BY <1>4, <1>7 DEF create_index
<1>12. ~created_on_server(c) BY <1>4, <1>7 DEF created_on_server, Unreachable
<1>13. ~make_vsfs_dir(c) /\ ~make_index_dir(c)
  BY <1>4, <1>5, <1>6 DEF make_vsfs_dir, make_index_dir
<1>14. ~create_partition(c) /\ ~list_partition(c)
  BY <1>4, <1>7, <1>8 DEF create_partition, list_partition, At, Partitioning
<1>15. ~roll_back_partition(c) /\ ~remove_index_dir(c)
  BY <1>4, <1>5, <1>7 DEF roll_back_partition, remove_index_dir
<1>16. ~remove_index(c) /\ ~unlink_entry(c) /\ ~unlink_record(c)
  <2>1. ASSUME call[c].at \in Undoing PROVE \A s : ~Undone(c, s)
    <3>1. call[c].then \in {"return", "partition", "succeed"}
      BY <2>1 DEF Typed, CallsTyped, CallOK, UndoCall
    <3>. QED BY <1>6, <1>7, <3>1 DEF Undone
  <2>2. \/ Named(c) \notin indexDirs \/ Named(c) \in indexDirs \ partEntry
        \/ Named(c) \in indexDirs \cap partEntry
    OBVIOUS
  <2>3. ~remove_index(c) BY <1>4, <2>1, <2>2 DEF remove_index, At, Undoing
  <2>. QED BY <1>4, <1>8, <2>1, <2>3 DEF unlink_entry, unlink_record, At, Undoing
<1>17. ~(\/ climb(c) \/ find_objects(c) \/ update(c) \/ locate_index_for_search(c) \/ search_server(c)
         \/ find_files(c) \/ readdir_getattr(c) \/ list_subfiles(c) \/ getattr_subfile(c)
         \/ get_index_infos(c) \/ info_server(c))
  BY <1>0 DEF climb, find_objects, update, locate_index_for_search, search_server, find_files,
     readdir_getattr, list_subfiles, getattr_subfile, get_index_infos, info_server, At,
     Creating, Partitioning, Undoing
<1>. QED BY <1>9, <1>10, <1>11, <1>12, <1>13, <1>14, <1>15, <1>16, <1>17 DEF Step

\* A server comes to know an index by what the holder of its lock fills in.
LEMMA Fillings ==
    ASSUME Typed, Next, NEW i \in Index, served[i] = NoIndex, served'[i] # NoIndex
    PROVE  \E c \in Client : call[c].at = "filling" /\ Named(c) = i /\ create_filled(c, i)
<1>1. ASSUME NEW c \in Client, At(c, "send"), NEW j \in call[c].lists, NEW status, NEW kind, NEW ops,
             update_single_index(j, kind, ops, status)
      PROVE  FALSE
  <2>1. j \in Index BY <1>1, ListIs
  <2>2. CASE UNCHANGED imVars BY <2>2 DEF imVars
  <2>3. CASE served[j] # NoIndex /\ served' = [served EXCEPT ![j] = apply(@, kind, ops)]
    BY <2>3 DEF Typed, IndexManagerTypeOK
  <2>. QED BY <1>1, <2>2, <2>3 DEF update_single_index
<1>2. ASSUME NEW c \in Client, call[c].at = "filling", Named(c) \in Index, create_filled(c, Named(c))
      PROVE  Named(c) = i
  BY <1>2 DEF create_filled, Typed, IndexManagerTypeOK
<1>. QED BY <1>1, <1>2, Effects

\* The lock of a server is taken by a client that is about to fill in an index.
LEMMA Locks ==
    ASSUME Typed, Next
    PROVE  /\ home' = home
           /\ \A s \in Server :
                \/ lock'[s] \in {lock[s], Unlocked}
                \/ \E c \in Client :
                     /\ create_on_server(c) /\ Goto(c, "filling") /\ s = home[Named(c)] /\ lock'[s] = c
                     /\ served[Named(c)] = NoIndex /\ UNCHANGED served
<1>. DEFINE Takes(c, s) ==
                /\ create_on_server(c) /\ Goto(c, "filling") /\ s = home[Named(c)] /\ lock'[s] = c
                /\ served[Named(c)] = NoIndex /\ UNCHANGED served
            Free == home' = home /\ \A s \in Server : lock'[s] \in {lock[s], Unlocked}
<1>0. lock \in [Server -> Client \cup {Unlocked}] BY DEF Typed, IndexManagerTypeOK
<1>1. UNCHANGED imVars => Free BY DEF imVars
<1>2. \A s : Crash(s) => Free BY <1>0 DEF Crash
<1>3. \A c, i, status : ServerDies(c, i, status) => Free BY <1>2 DEF ServerDies
<1>4. \A c, i : create_filled(c, i) => Free BY <1>0 DEF create_filled
<1>5. \A i, kind, ops, status : update_single_index(i, kind, ops, status) => Free
  BY <1>1 DEF update_single_index
<1>6. ASSUME NEW c \in Client, create_on_server(c), NEW status,
             create(c, Named(c), call[c].cmd.type, call[c].cmd.key, status),
             CASE status = "filling" -> Goto(c, "filling") /\ Keep
               [] status = "OK"      -> Goto(c, "mkdir") /\ Keep
               [] OTHER              -> Return(c, "error")
      PROVE  home' = home /\ \A s \in Server : lock'[s] \in {lock[s], Unlocked} \/ Takes(c, s)
  <2>1. CASE lock' = lock BY <1>6, <2>1 DEF create
  <2>2. CASE status = "filling"
    <3>1. /\ home' = home /\ served' = served /\ served[Named(c)] = NoIndex
          /\ lock' = [lock EXCEPT ![home[Named(c)]] = c]
      BY <1>6, <2>2 DEF create
    <3>2. \A s \in Server : lock'[s] = lock[s] \/ (s = home[Named(c)] /\ lock'[s] = c) BY <1>0, <3>1
    <3>. QED BY <1>6, <2>2, <3>1, <3>2
  <2>. QED BY <1>6, <2>1, <2>2 DEF create
<1>. HIDE DEF Free, Takes
<1>7. ASSUME NEW c \in Client, create_on_server(c)
      PROVE  Free \/ (home' = home /\ \A s \in Server : lock'[s] \in {lock[s], Unlocked} \/ Takes(c, s))
  BY <1>1, <1>6, <1>7 DEF create_on_server
<1>8. \A c \in Client : created_on_server(c) => Free BY <1>1, <1>4 DEF created_on_server
<1>9. \A c \in Client : update(c) => Free BY <1>1, <1>3, <1>5 DEF update
<1>10. \A c \in Client : search_server(c) \/ info_server(c) => Free BY <1>1, <1>3 DEF search_server, info_server
<1>11. \A c \in Client : Quiet(c) \/ OnMasters(c) \/ Reads(c) \/ Begins(c) => Free BY <1>1, Frames
<1>12. \A f : CreateFile(f) \/ UnlinkFile(f) => Free BY <1>1 DEF CreateFile, UnlinkFile
<1>13. \A s : Restart(s) => Free BY <1>2 DEF Restart
<1>. QED BY <1>7, <1>8, <1>9, <1>10, <1>11, <1>12, <1>13, Groups DEF Creates, Free, Takes

\* The holder of a lock is alone with its index.
LEMMA LockedKept == ASSUME Typed, Locked, [Next]_vars PROVE Locked'
<1>0. Typed' BY TypedKept
<1>. SUFFICES ASSUME NEW s \in Server, NEW c \in Client, lock'[s] = c
              PROVE  (At(c, "filling") /\ home[Named(c)] = s /\ served[Named(c)] = NoIndex)'
  BY DEF Locked
<1>1. CASE UNCHANGED vars BY <1>1 DEF vars, imVars, Locked, At, Named
<1>2. CASE Next /\ lock[s] = c
  <2>1. call[c].at = "filling" /\ home[Named(c)] = s /\ served[Named(c)] = NoIndex
    BY <1>2 DEF Locked, At
  <2>2. Named(c) \in Index BY <2>1, NamesIndex DEF Creating
  <2>3. home' = home BY <1>2, Locks
  <2>4. c # Unlocked BY IndexManagerAssumption
  <2>5. ASSUME NEW d \in Client, create_filled(d, Named(c)) PROVE FALSE
    <3>1. lock[s] = d /\ lock'[s] = Unlocked BY <2>1, <2>5 DEF create_filled, Typed, IndexManagerTypeOK
    <3>. QED BY <2>4, <3>1
  <2>6. served'[Named(c)] = NoIndex BY <1>2, <2>1, <2>2, <2>5, Fillings
  <2>7. CASE call'[c] = call[c] BY <2>1, <2>3, <2>6, <2>7 DEF At, Named
  <2>8. ~Begins(c) BY <2>1, Starts, IdleIs
  <2>9. ASSUME Step(c) PROVE FALSE
    <3>1. created_on_server(c)
      BY <2>1, <2>9 DEF Step, create_index, create_on_server, make_vsfs_dir, insert_name,
         make_index_dir, create_partition, list_partition, roll_back_partition,
         remove_index_dir, remove_index, unlink_entry, unlink_record, climb, find_objects, update,
         locate_index_for_search, search_server, find_files, readdir_getattr, list_subfiles,
         getattr_subfile, get_index_infos, info_server, At
    <3>. QED BY <1>2, <2>1, <2>5, <3>1 DEF created_on_server
  <2>. QED BY <1>2, <2>7, <2>8, <2>9, OneMoves
<1>3. CASE Next /\ lock[s] # c
  <2>1. c # Unlocked BY IndexManagerAssumption
  <2>2. PICK d \in Client :
          /\ create_on_server(d) /\ Goto(d, "filling") /\ s = home[Named(d)] /\ lock'[s] = d
          /\ served[Named(d)] = NoIndex /\ UNCHANGED served
    BY <1>3, <2>1, Locks
  <2>3. d = c BY <2>2
  <2>4. call[c].at \in Creating BY <2>2, <2>3 DEF create_on_server, At, Creating
  <2>5. call'[c].at = "filling" /\ call'[c].cmd = call[c].cmd BY <2>2, <2>3, <2>4, Places
  <2>6. home' = home BY <1>3, Locks
  <2>. QED BY <2>2, <2>3, <2>5, <2>6 DEF At, Named
<1>. QED BY <1>1, <1>2, <1>3

(***************************************************************************)
(* What each step of an update leaves the client with                      *)
(***************************************************************************)

\* A climb finds its index, goes up by one directory, or gives up at the root.
LEMMA ClimbedTo ==
    ASSUME Typed, NEW c \in Client, climb(c)
    PROVE  \/ call'[c] = Idle /\ answer'.status = "died"
           \/ /\ call'[c].at \in {"climb", "resolve"} /\ call'[c].cmd = call[c].cmd
              /\ call'[c].batch = call[c].batch
              /\ \A p \in call'[c].target : p \in call[c].target \/ p[2] \in indexDirs
<1>0. \A new : Becomes(c, new) => call'[c] = new BY Moved DEF Typed, Becomes
<1>. DEFINE k == call[c]
            here == {i \in indexDirs : i.root = k.tmp /\ i.name = k.cmd.name}
            target == k.target \cup ({k.dir} \X here)
            rest == k.dirs \ {k.dir}
            on == Climb(k.cmd, k.batch, rest, target)
            up == [k EXCEPT !.tmp = Up[k.tmp]]
            resolves == [at |-> "resolve", cmd |-> k.cmd, batch |-> k.batch, target |-> target,
                         ids |-> {}, left |-> {MasterOf[f] : f \in FilesOf(c)}]
<1>1. k \in ClimbCall BY DEF climb, At, Typed, CallsTyped, CallOK
<1>2. \A p \in target : p \in k.target \/ p[2] \in indexDirs OBVIOUS
<1>3. on.at = "climb" /\ on.cmd = k.cmd /\ on.batch = k.batch /\ on.target = target
  <2>. HIDE DEF k, target, rest
  <2>. QED BY DEF Climb
<1>4. /\ resolves.at = "resolve" /\ resolves.cmd = k.cmd /\ resolves.batch = k.batch
      /\ resolves.target = target
  <2>. HIDE DEF k, target
  <2>. QED OBVIOUS
<1>5. up.at = "climb" /\ up.cmd = k.cmd /\ up.batch = k.batch /\ up.target = k.target
  <2>. HIDE DEF k
  <2>. QED BY <1>1 DEF ClimbCall
<1>6. Becomes(c, on) \/ Becomes(c, up) \/ Becomes(c, resolves) \/ Return(c, "died")
  <2>. HIDE DEF here, on, up, resolves
  <2>1. \/ here # {} /\ rest # {}
        \/ here # {} /\ rest = {}
        \/ here = {} /\ k.tmp # Root
        \/ here = {} /\ k.tmp = Root
    OBVIOUS
  <2>. QED BY <2>1 DEF climb, here, on, up, resolves
<1>. HIDE DEF target, on, up, resolves
<1>. QED BY <1>0, <1>2, <1>3, <1>4, <1>5, <1>6, Ended

\* The objects are found, server by server, and then the lists are sent.
LEMMA ResolvedTo ==
    ASSUME Typed, NEW c \in Client, find_objects(c)
    PROVE  /\ call'[c].at \in {"resolve", "send"} /\ call'[c].cmd = call[c].cmd
           /\ call'[c].batch = call[c].batch /\ call'[c].target = call[c].target
           /\ call'[c].at = "send" =>
                /\ call'[c].left = {home[p[2]] : p \in call[c].target} /\ ~call'[c].bad
                /\ call'[c].lists = ListsOn(call[c].target, Min(call'[c].left))
<1>0. \A new : Becomes(c, new) => call'[c] = new BY Moved DEF Typed, Becomes
<1>. DEFINE k == call[c]
            rest == k.left \ {Min(k.left)}
            here == {f \in FilesOf(c) : MasterOf[f] = Min(k.left)}
            ids == k.ids \cup {<<f, IF f \in files THEN f ELSE NoObject>> : f \in here}
            servers == {home[p[2]] : p \in k.target}
            more == [k EXCEPT !.left = rest, !.ids = ids]
            sends == Send(c, ids, servers)
<1>1. k \in ResolveCall BY DEF find_objects, At, Typed, CallsTyped, CallOK
<1>2. more.at = "resolve" /\ more.cmd = k.cmd /\ more.batch = k.batch /\ more.target = k.target
  <2>. HIDE DEF k, rest, ids
  <2>. QED BY <1>1 DEF ResolveCall
<1>3. /\ sends.at = "send" /\ sends.cmd = k.cmd /\ sends.batch = k.batch /\ sends.target = k.target
      /\ sends.left = servers /\ ~sends.bad /\ sends.lists = ListsOn(k.target, Min(servers))
  <2>. HIDE DEF ids, servers
  <2>. QED BY DEF Send
<1>4. Becomes(c, IF rest # {} THEN more ELSE sends) BY DEF find_objects
<1>. HIDE DEF rest, servers, more, sends
<1>5. call'[c] = more \/ call'[c] = sends BY <1>0, <1>4
<1>6. /\ call'[c].at \in {"resolve", "send"} /\ call'[c].cmd = k.cmd
      /\ call'[c].batch = k.batch /\ call'[c].target = k.target
      /\ call'[c].at = "send" => call'[c].left = servers /\ ~call'[c].bad
                                 /\ call'[c].lists = ListsOn(k.target, Min(call'[c].left))
  BY <1>2, <1>3, <1>5
<1>. QED BY <1>6 DEF servers

\* What is left of the servers once the list of an index has been sent, and what
\* may then come next.
LeftAfter(c, i) == IF call[c].lists \ {i} = {} THEN call[c].left \ {home[i]} ELSE call[c].left
Outcome(c, status, lists, rest) ==
    \/ call'[c] = Idle /\ answer'.status = "died"
    \/ /\ ~call[c].bad /\ status = "OK" /\ lists = {} /\ rest = {}
       /\ call[c].batch + 1 > Len(call[c].cmd.batches)
       /\ call'[c] = Idle /\ answer'.status = Status(call[c].cmd)
    \/ /\ ~call[c].bad /\ status = "OK" /\ lists = {} /\ rest = {}
       /\ ~(call[c].batch + 1 > Len(call[c].cmd.batches))
       /\ call'[c].at = "climb" /\ call'[c].cmd = call[c].cmd
       /\ call'[c].batch = call[c].batch + 1 /\ call'[c].target = {}
    \/ /\ call'[c].at = "send" /\ call'[c].cmd = call[c].cmd
       /\ call'[c].batch = call[c].batch /\ call'[c].target = call[c].target
       /\ call'[c].left = rest
       /\ ~call'[c].bad => ~call[c].bad /\ status = "OK"
       /\ \/ lists # {} /\ call'[c].lists = lists
          \/ /\ lists = {} /\ rest # {} /\ ~call[c].bad /\ status = "OK"
             /\ call'[c].lists = ListsOn(call[c].target, Min(rest))

\* A list that was sent leaves the update where Outcome says.
LEMMA SentTo ==
    ASSUME Typed, NEW c \in Client, At(c, "send"), NEW i, NEW status, Sent(c, i, status)
    PROVE  Outcome(c, status, call[c].lists \ {i}, LeftAfter(c, i))
<1>0. \A new : Becomes(c, new) => call'[c] = new BY Moved DEF Typed, Becomes
<1>. DEFINE k == call[c]
            lists == k.lists \ {i}
            rest == LeftAfter(c, i)
            bad == k.bad \/ status # "OK"
            next == Climb(k.cmd, k.batch + 1, DirsOf(k.cmd, k.batch + 1), {})
            sends == Send(c, k.ids, rest)
            more == [k EXCEPT !.lists = lists, !.bad = bad]
            last == k.batch + 1 > Len(k.cmd.batches)
<1>1. k \in SendCall BY DEF At, Typed, CallsTyped, CallOK
<1>2. \/ Return(c, "died")
      \/ lists = {} /\ ~bad /\ rest = {} /\ NextBatch(c)
      \/ lists = {} /\ ~bad /\ rest # {} /\ Becomes(c, sends)
      \/ lists # {} /\ Becomes(c, more)
  <2>. HIDE DEF lists, rest, bad, sends, more
  <2>1. \/ lists = {} /\ bad
        \/ lists = {} /\ ~bad /\ rest = {}
        \/ lists = {} /\ ~bad /\ rest # {}
        \/ lists # {}
    OBVIOUS
  <2>. QED BY <2>1 DEF Sent, LeftAfter, lists, rest, bad, sends, more
<1>3. NextBatch(c) => (last /\ Return(c, Status(k.cmd))) \/ (~last /\ Becomes(c, next)) BY DEF NextBatch
<1>4. next.at = "climb" /\ next.cmd = k.cmd /\ next.batch = k.batch + 1 /\ next.target = {}
  <2>. HIDE DEF k
  <2>. QED BY DEF Climb
<1>. HIDE DEF rest, lists
<1>5. /\ sends.at = "send" /\ sends.cmd = k.cmd /\ sends.batch = k.batch /\ sends.target = k.target
      /\ sends.left = rest /\ sends.bad = FALSE /\ sends.lists = ListsOn(k.target, Min(rest))
  BY DEF Send
<1>6. bad \in BOOLEAN OBVIOUS
<1>. HIDE DEF bad
<1>7. /\ more.at = "send" /\ more.cmd = k.cmd /\ more.batch = k.batch /\ more.target = k.target
      /\ more.left = k.left /\ more.bad = bad /\ more.lists = lists
  <2>. HIDE DEF k
  <2>. QED BY <1>1 DEF SendCall
<1>8. ~bad => ~k.bad /\ status = "OK" BY DEF bad
<1>9. lists # {} => rest = k.left BY DEF rest, lists, LeftAfter
<1>. HIDE DEF last, next, sends, more
<1>. SUFFICES Outcome(c, status, lists, rest) BY DEF lists, rest
<1>10. CASE Return(c, "died")
  <2>1. call'[c] = Idle /\ answer'.status = "died" BY <1>10, Ended
  <2>. QED BY <2>1 DEF Outcome
<1>11. CASE lists = {} /\ ~bad /\ rest = {} /\ NextBatch(c)
  <2>1. \/ last /\ call'[c] = Idle /\ answer'.status = Status(k.cmd)
        \/ /\ ~last /\ call'[c].at = "climb" /\ call'[c].cmd = k.cmd
           /\ call'[c].batch = k.batch + 1 /\ call'[c].target = {}
    BY <1>0, <1>3, <1>4, <1>11, Ended
  <2>. QED BY <1>8, <1>11, <2>1 DEF Outcome, last
<1>12. CASE lists = {} /\ ~bad /\ rest # {} /\ Becomes(c, sends)
  <2>1. /\ call'[c].at = "send" /\ call'[c].cmd = k.cmd /\ call'[c].batch = k.batch
        /\ call'[c].target = k.target /\ call'[c].left = rest /\ (~call'[c].bad => ~bad)
        /\ call'[c].lists = ListsOn(k.target, Min(rest))
    BY <1>0, <1>5, <1>12
  <2>. QED BY <1>8, <1>12, <2>1 DEF Outcome
<1>13. CASE lists # {} /\ Becomes(c, more)
  <2>1. /\ call'[c].at = "send" /\ call'[c].cmd = k.cmd /\ call'[c].batch = k.batch
        /\ call'[c].target = k.target /\ call'[c].left = rest /\ (~call'[c].bad => ~bad)
        /\ call'[c].lists = lists
    BY <1>0, <1>7, <1>9, <1>13
  <2>. QED BY <1>8, <1>13, <2>1 DEF Outcome
<1>. QED BY <1>2, <1>10, <1>11, <1>12, <1>13

\* What an update has of targets was found among the directories of indices.
LEMMA TargetsFrom ==
    ASSUME Typed, CallsTyped', NEW c \in Client, Step(c), call'[c].at \in {"climb", "resolve", "send"}
    PROVE  /\ call[c].at \in {"climb", "resolve", "send"}
           /\ \A p \in call'[c].target : p \in call[c].target \/ p[2] \in indexDirs
<1>1. climb(c) \/ find_objects(c) \/ update(c) BY Onwards
<1>2. call'[c] # Idle BY IdleIs
<1>3. CASE climb(c) BY <1>2, <1>3, ClimbedTo DEF climb, At
<1>4. CASE find_objects(c) BY <1>4, ResolvedTo DEF find_objects, At
<1>5. CASE update(c)
  <2>1. call[c].at = "send" BY <1>5 DEF update, At
  <2>2. \A status : ~Return(c, status) BY <1>2, Ended
  <2>3. PICK i, status : Sent(c, i, status) BY <1>5, <2>2 DEF update, Unreachable, ServerDies
  <2>. QED BY <1>2, <2>1, <2>3, SentTo DEF At, Outcome
<1>. QED BY <1>1, <1>3, <1>4, <1>5

\* An update begins with the first batch, and no target.
LEMMA UpdateStarts ==
    ASSUME Typed, NEW c \in Client, Begins(c), call'[c].at \in {"climb", "resolve", "send"}
    PROVE  call'[c].at = "climb" /\ call'[c].target = {} /\ call'[c].batch = 1
<1>0. \A new : call' = [call EXCEPT ![c] = new] => call'[c] = new BY Moved DEF Typed
<1>1. PICK cmd \in Commands : Begin(c, cmd) BY DEF Begins
<1>2. call'[c] # Idle BY IdleIs
<1>3. call'[c] = run(cmd) BY <1>0, <1>1, <1>2 DEF Begin, Becomes, Return, ReturnFound
<1>4. cmd.op \in {"usage", "help", "create", "destroy", "update", "list", "search", "readdir"}
  BY CommandAssumption
<1>5. Ends(cmd) = "none" BY <1>0, <1>1, <1>2 DEF Begin, Return, ReturnFound
<1>6. cmd.op # "usage" /\ cmd.op # "help" BY <1>5 DEF Ends, help_run
<1>7. cmd.op # "create"
  <2>1. create_run(cmd).at = "getattr" BY DEF create_run
  <2>. QED BY <1>3, <2>1 DEF run
<1>8. cmd.op # "destroy"
  <2>1. destroy_run(cmd).at = "undo" BY DEF destroy_run
  <2>. QED BY <1>3, <2>1 DEF run
<1>9. cmd.op # "list"
  <2>1. \A stack : Resume(cmd, stack).at \in {"subfiles", "infos"} BY DEF Resume
  <2>2. list_run(cmd).at \in {"readdir", "subfiles", "infos"} BY <2>1 DEF list_run
  <2>. QED BY <1>3, <2>2 DEF run
<1>10. cmd.op \notin {"search", "readdir"}
  <2>1. Locating(cmd).at = "locate" BY DEF Locating
  <2>. QED BY <1>3, <2>1 DEF run
<1>11. cmd.op = "update" BY <1>4, <1>6, <1>7, <1>8, <1>9, <1>10
<1>12. call'[c] = update_run(cmd) BY <1>3, <1>11 DEF run
<1>13. update_run(cmd).at = "climb" /\ update_run(cmd).target = {} /\ update_run(cmd).batch = 1
  BY DEF update_run, Climb
<1>. QED BY <1>12, <1>13

\* An index is settled when its master lists it, and is not about to take it off
\* the list again for want of a directory.
Settled(i) == i \in listed /\ \A c \in Client : At(c, "dir") => Named(c) # i

\* What the masters list comes from create_index(), and so do the directories.
LEMMA Listing ==
    ASSUME Next
    PROVE  \/ UNCHANGED listed /\ indexDirs' \subseteq indexDirs
           \/ \E c \in Client : insert_name(c) /\ indexDirs' = indexDirs /\ listed \subseteq listed'
           \/ \E c \in Client : make_index_dir(c)
<1>1. UNCHANGED masters => UNCHANGED listed /\ indexDirs' \subseteq indexDirs BY DEF masters
<1>2. ASSUME NEW c \in Client, OnMasters(c)
      PROVE  \/ UNCHANGED listed /\ indexDirs' \subseteq indexDirs
             \/ insert_name(c) /\ indexDirs' = indexDirs /\ listed \subseteq listed'
             \/ make_index_dir(c)
  <2>1. CASE make_vsfs_dir(c) BY <2>1 DEF make_vsfs_dir
  <2>2. CASE insert_name(c) BY <2>2 DEF insert_name
  <2>3. CASE create_partition(c) \/ list_partition(c) \/ roll_back_partition(c)
    BY <2>3 DEF create_partition, list_partition, roll_back_partition
  <2>4. CASE remove_index_dir(c) BY <2>4 DEF remove_index_dir
  <2>5. CASE unlink_entry(c) \/ unlink_record(c) BY <2>5 DEF unlink_entry, unlink_record
  <2>. QED BY <1>2, <2>1, <2>2, <2>3, <2>4, <2>5 DEF OnMasters
<1>3. \A f : CreateFile(f) \/ UnlinkFile(f) => UNCHANGED masters BY DEF CreateFile, UnlinkFile
<1>4. \A s : Restart(s) => UNCHANGED masters BY DEF Restart
<1>. QED BY <1>1, <1>2, <1>3, <1>4, Groups, Frames

\* A client that is about to make the directory of an index has just been, or has
\* come there by listing it.
LEMMA ComesToDir ==
    ASSUME Typed, Typed', Next, NEW c \in Client, call'[c].at = "dir"
    PROVE  \/ call'[c] = call[c]
           \/ /\ Named(c)' = Named(c) /\ Named(c) \notin listed /\ listed' = listed \cup {Named(c)}
              /\ insert_name(c) /\ \A d \in Client \ {c} : call'[d] = call[d]
<1>1. call'[c] # Idle BY IdleIs
<1>2. ~Begins(c) BY <1>1, Starts
<1>3. \/ call'[c] = call[c]
      \/ Step(c) /\ \A d \in Client \ {c} : call'[d] = call[d]
  BY <1>2, OneMoves
<1>. QED BY <1>3, Comings

\* An index stays settled.
LEMMA SettledForGood ==
    ASSUME Typed, Typed', Next, NEW i, Settled(i)
    PROVE  Settled(i)'
<1>1. ASSUME NEW c \in Client, call'[c].at = "dir", Named(c)' = i PROVE FALSE
  <2>1. CASE call'[c] = call[c] BY <1>1, <2>1 DEF Settled, At, Named
  <2>2. CASE Named(c)' = Named(c) /\ Named(c) \notin listed BY <1>1, <2>2 DEF Settled
  <2>. QED BY <1>1, <2>1, <2>2, ComesToDir
<1>2. i \in listed'
  <2>1. \A c \in Client : make_index_dir(c) => Named(c) # i BY DEF make_index_dir, Settled
  <2>2. \A c \in Client : make_index_dir(c) => listed' = listed \/ listed' = listed \ {Named(c)}
    BY DEF make_index_dir
  <2>. QED BY <2>1, <2>2, Listing DEF Settled
<1>. QED BY <1>1, <1>2 DEF Settled, At

\* The indices that have a directory are settled, and so are those that an update
\* has found by their directories: a master makes the directory of an index for
\* one client at a time, which has just listed it.
Directories ==
    /\ \A i \in indexDirs : Settled(i)
    /\ \A c \in Client : At(c, "dir") => Named(c) \in listed
    /\ \A c, d \in Client : At(c, "dir") /\ At(d, "dir") /\ Named(c) = Named(d) => c = d
    /\ \A c \in Client : call[c].at \in {"climb", "resolve", "send"} =>
         \A p \in call[c].target : Settled(p[2])

\* The directories of indices that updates go to stay settled.
LEMMA DirectoriesKept == ASSUME Typed, Directories, [Next]_vars PROVE Directories'
<1>0. Typed' BY TypedKept
<1>1. CASE UNCHANGED vars BY <1>1 DEF vars, masters, Directories, Settled, At, Named
<1>2. CASE Next
  <2>1. \A i : Settled(i) => Settled(i)' BY <1>0, <1>2, SettledForGood
  <2>2. ASSUME NEW c \in Client, make_index_dir(c), NEW i \in indexDirs' \ indexDirs PROVE Settled(i)'
    <3>1. i = Named(c) /\ Partition(c) /\ listed' = listed BY <2>2 DEF make_index_dir
    <3>2. call[c].at = "dir" BY <2>2 DEF make_index_dir, At
    <3>3. call'[c].at = "record" BY <3>1, <3>2, Places DEF Creating
    <3>4. i \in listed BY <3>1, <3>2 DEF Directories, At
    <3>5. ASSUME NEW d \in Client, call'[d].at = "dir", Named(d)' = i PROVE FALSE
      <4>1. CASE call'[d] = call[d]
        <5>1. d = c BY <3>1, <3>2, <3>5, <4>1 DEF Directories, At, Named
        <5>. QED BY <3>3, <3>5, <5>1
      <4>2. CASE Named(d)' = Named(d) /\ Named(d) \notin listed BY <3>4, <3>5, <4>2
      <4>. QED BY <1>0, <1>2, <3>5, <4>1, <4>2, ComesToDir
    <3>. QED BY <3>1, <3>4, <3>5 DEF Settled, At
  <2>3. \A i \in indexDirs' : Settled(i)'
    <3>1. \A i \in indexDirs : Settled(i)' BY <2>1 DEF Directories
    <3>2. indexDirs' \subseteq indexDirs \/ \E c \in Client : make_index_dir(c) BY <1>2, Listing
    <3>. QED BY <2>2, <3>1, <3>2
  <2>4. ASSUME NEW c \in Client, call'[c].at = "dir" PROVE Named(c)' \in listed'
    <3>1. CASE call'[c] = call[c]
      <4>1. Named(c)' = Named(c) /\ call[c].at = "dir" BY <2>4, <3>1 DEF Named
      <4>2. Named(c) \in listed BY <4>1 DEF Directories, At
      <4>3. ASSUME NEW d \in Client, make_index_dir(d), listed' = listed \ {Named(d)} PROVE Named(d) # Named(c)
        <5>1. call[d].at = "dir" BY <4>3 DEF make_index_dir, At
        <5>2. call'[d].at # "dir"
          <6>1. \A then : Undo(d, then) => call'[d].at = "undo" BY <5>1, Places DEF Creating
          <6>2. Partition(d) => call'[d].at = "record" BY <5>1, Places DEF Creating
          <6>. QED BY <4>3, <6>1, <6>2 DEF make_index_dir
        <5>. QED BY <2>4, <4>1, <5>1, <5>2 DEF Directories, At
      <4>4. \A d \in Client : make_index_dir(d) => listed' = listed \/ listed' = listed \ {Named(d)}
        BY DEF make_index_dir
      <4>5. Named(c) \in listed' BY <1>2, <4>2, <4>3, <4>4, Listing
      <4>. QED BY <4>1, <4>5
    <3>2. CASE Named(c)' = Named(c) /\ listed' = listed \cup {Named(c)} BY <3>2
    <3>. QED BY <1>0, <1>2, <2>4, <3>1, <3>2, ComesToDir
  <2>5. ASSUME NEW c \in Client, NEW d \in Client, call'[c].at = "dir", call'[d].at = "dir",
               Named(c)' = Named(d)', c # d
        PROVE  FALSE
    <3>1. ASSUME NEW e \in Client, NEW f \in Client, call'[f].at = "dir", Named(e)' = Named(f)', e # f,
                 Named(e)' = Named(e), Named(e) \notin listed,
                 \A g \in Client \ {e} : call'[g] = call[g]
          PROVE  FALSE
      <4>1. call'[f] = call[f] BY <3>1
      <4>2. Named(f) \in listed BY <3>1, <4>1 DEF Directories, At
      <4>3. Named(f)' = Named(f) BY <4>1 DEF Named
      <4>. QED BY <3>1, <4>2, <4>3
    <3>2. CASE call'[c] = call[c] /\ call'[d] = call[d] BY <2>5, <3>2 DEF Directories, At, Named
    <3>. QED BY <1>0, <1>2, <2>5, <3>1, <3>2, ComesToDir
  <2>6. ASSUME NEW c \in Client, call'[c].at \in {"climb", "resolve", "send"}, NEW p \in call'[c].target
        PROVE  Settled(p[2])'
    <3>1. CASE call'[c] = call[c] BY <2>1, <2>6, <3>1 DEF Directories
    <3>2. CASE Begins(c) BY <2>6, <3>2, UpdateStarts
    <3>3. CASE Step(c) BY <1>0, <2>1, <2>6, <3>3, TargetsFrom DEF Directories, Typed
    <3>. QED BY <1>2, <3>1, <3>2, <3>3, OneMoves
  <2>. QED BY <2>3, <2>4, <2>5, <2>6 DEF Directories, At
<1>. QED BY <1>1, <1>2

\* An insertion is in force: a search that comes after it has to find it.
InForce(a) ==
    /\ a \in ever /\ a.file \in files /\ Settled(a.index)
    /\ served[a.index] # NoIndex
    /\ [key |-> a.key, id |-> a.file] \in served[a.index]

\* So are those that are acknowledged, those that a search has to find, and those
\* that an update has made whose servers all have answered well so far.
Forces ==
    /\ \A a \in acked : InForce(a)
    /\ \A c \in Client : \A a \in due[c] : InForce(a)
    /\ \A c \in Client : At(c, "send") /\ ~call[c].bad => \A a \in mine[c] : InForce(a)
    /\ \A c \in Client : ~At(c, "send") \/ call[c].cmd.kind = "REMOVE" => mine[c] = {}

Held(a) == a \in acked \/ \E c \in Client : a \in mine[c] \/ a \in due[c]

\* An insertion that is no longer in force is no longer held to be.
LEMMA ForceLost ==
    ASSUME Typed, Locked, Next, NEW a, InForce(a), ~InForce(a)'
    PROVE  ~Held(a)'
<1>0. Typed' BY TypedKept
<1>. DEFINE i == a.index
            r == [key |-> a.key, id |-> a.file]
<1>1. a \in ever' BY EverGrows DEF InForce
<1>2. Settled(i)' BY <1>0, SettledForGood DEF InForce
<1>3. i \in Index /\ a \in Insertion BY DEF InForce, Settled, Typed, MastersTyped, HistoriesTyped
<1>4. a.file \in files /\ served[i] # NoIndex /\ r \in served[i] /\ a \in ever BY DEF InForce
<1>5. r.key = a.key /\ r.id = a.file OBVIOUS
<1>. HIDE DEF r
<1>6. a.file \notin files' \/ served'[i] = NoIndex \/ r \notin served'[i]
  BY <1>1, <1>2 DEF InForce, r
<1>. HIDE DEF i
<1>7. ASSUME NEW lost, Forget(lost), a \in lost PROVE ~Held(a)' BY <1>7 DEF Forget, Held
<1>8. ASSUME UNCHANGED served, files' = files PROVE FALSE BY <1>4, <1>6, <1>8
<1>9. ASSUME NEW s, Crash(s), files' = files PROVE a \in LostWith(s)
  <2>1. served'[i] = IF home[i] = s THEN NoIndex ELSE served[i] BY <1>3, <1>9 DEF Crash
  <2>2. home[i] = s BY <1>4, <1>6, <1>9, <2>1
  <2>. QED BY <1>4, <2>2 DEF LostWith, i
<1>10. ASSUME NEW c \in Client, NEW j, NEW status, ServerDies(c, j, status), files' = files
       PROVE  ~Held(a)'
  <2>1. a \in LostWith(home[j]) BY <1>9, <1>10 DEF ServerDies
  <2>2. /\ acked' = acked \ LostWith(home[j])
        /\ mine' = [d \in Client |-> IF d = c THEN {} ELSE mine[d] \ LostWith(home[j])]
        /\ due' = [d \in Client |-> IF d = c THEN {} ELSE due[d] \ LostWith(home[j])]
    BY <1>10 DEF ServerDies
  <2>. QED BY <2>1, <2>2 DEF Held
<1>11. ASSUME NEW c \in Client, At(c, "send"), NEW j \in call[c].lists, NEW status,
              update_single_index(j, call[c].cmd.kind, OpsFor(c, j), status),
              Happens(c, j, call[c].cmd.kind, OpsFor(c, j)), files' = files
       PROVE  ~Held(a)'
  <2>. DEFINE kind == call[c].cmd.kind
              ops == OpsFor(c, j)
  <2>1. j \in Index BY <1>11, ListIs
  <2>2. RecordsOf(ops) \subseteq Record BY <1>11, <2>1, RecordsAre
  <2>. HIDE DEF ops
  <2>3. update_single_index(j, kind, ops, status) /\ Happens(c, j, kind, ops) BY <1>11 DEF ops
  <2>. HIDE DEF kind
  <2>4. served' # served BY <1>8, <1>11
  <2>5. served' = [served EXCEPT ![j] = apply(@, kind, ops)]
    BY <2>3, <2>4 DEF update_single_index, imVars
  <2>6. i = j /\ served'[i] = apply(served[i], kind, ops)
    BY <1>3, <1>4, <1>6, <1>11, <2>1, <2>5 DEF Typed, IndexManagerTypeOK
  <2>7. served'[i] # NoIndex
    <3>1. served[i] \subseteq Record BY <1>3, <1>4 DEF Typed, IndexManagerTypeOK
    <3>2. served'[i] \subseteq Record BY <2>2, <2>6, <3>1 DEF apply
    <3>. QED BY <3>2, IndexManagerAssumption
  <2>8. kind = "REMOVE" /\ r \in RecordsOf(ops) BY <1>4, <1>6, <1>11, <2>6, <2>7 DEF apply
  <2>9. a = [index |-> i, key |-> r.key, file |-> r.id] BY <1>3, <1>5 DEF Insertion, i
  <2>10. r.id # NoObject BY <1>4, <1>5, IndexManagerAssumption DEF Typed, EnvTyped
  <2>11. a \in InsertionsOf(i, RecordsOf(ops)) BY <2>8, <2>9, <2>10 DEF InsertionsOf
  <2>. QED BY <1>7, <2>3, <2>6, <2>8, <2>11 DEF Happens
<1>12. UNCHANGED Env => files' = files BY DEF Env
<1>13. UNCHANGED imVars => UNCHANGED served BY DEF imVars
<1>14. ASSUME NEW c \in Client, Quiet(c) \/ OnMasters(c) \/ Reads(c) \/ Begins(c) PROVE FALSE
  BY <1>8, <1>12, <1>13, <1>14, Frames
<1>15. ASSUME NEW c \in Client, Creates(c) PROVE FALSE
  <2>1. files' = files BY <1>12, <1>15, Frames
  <2>2. CASE create_filled(c, Named(c)) /\ At(c, "filling")
    <3>1. Named(c) \in Index BY <2>2, NamesIndex DEF At, Creating
    <3>2. home[Named(c)] \in Server BY <3>1 DEF Typed, IndexManagerTypeOK
    <3>3. served[Named(c)] = NoIndex BY <2>2, <3>2 DEF Locked, create_filled
    <3>4. served'[i] = served[i]
      BY <1>3, <1>4, <2>2, <3>3 DEF create_filled, Typed, IndexManagerTypeOK
    <3>. QED BY <1>4, <1>6, <2>1, <3>4
  <2>3. UNCHANGED served \/ (create_filled(c, Named(c)) /\ At(c, "filling"))
    BY <1>13, <1>15 DEF Creates, create_on_server, created_on_server, create
  <2>. QED BY <1>8, <2>1, <2>2, <2>3
<1>16. ASSUME NEW c \in Client, update(c) PROVE ~Held(a)'
  <2>1. files' = files /\ At(c, "send") BY <1>12, <1>16, Frames DEF update
  <2>2. PICK j \in call[c].lists :
          \/ \E status : /\ update_single_index(j, call[c].cmd.kind, OpsFor(c, j), status)
                         /\ Happens(c, j, call[c].cmd.kind, OpsFor(c, j))
          \/ UNCHANGED imVars
          \/ ServerDies(c, j, "died")
    BY <1>16 DEF update
  <2>. QED BY <1>8, <1>10, <1>11, <1>13, <2>1, <2>2
<1>17. ASSUME NEW c \in Client, search_server(c) \/ info_server(c) PROVE ~Held(a)'
  <2>1. files' = files BY <1>12, <1>17, Frames
  <2>2. UNCHANGED imVars \/ \E j : ServerDies(c, j, "error") BY <1>17 DEF search_server, info_server
  <2>. QED BY <1>8, <1>10, <1>13, <2>1, <2>2
<1>18. ASSUME NEW f, CreateFile(f) PROVE FALSE
  BY <1>4, <1>6, <1>13, <1>18 DEF CreateFile
<1>19. ASSUME NEW f, UnlinkFile(f) PROVE ~Held(a)'
  <2>1. a.file = f BY <1>4, <1>6, <1>13, <1>19 DEF UnlinkFile
  <2>2. a \in {b \in ever : b.file = f} BY <1>4, <2>1
  <2>. QED BY <1>7, <1>19, <2>2 DEF UnlinkFile
<1>20. ASSUME NEW s, Restart(s) PROVE ~Held(a)'
  BY <1>7, <1>9, <1>12, <1>20 DEF Restart
<1>. QED BY <1>14, <1>15, <1>16, <1>17, <1>18, <1>19, <1>20, Groups

\* The insertions that a list makes when its server answers well.
Fresh(c, i) ==
    \E status :
        /\ call[c].cmd.kind # "REMOVE" /\ At(c, "send") /\ i \in call[c].lists
        /\ update_single_index(i, call[c].cmd.kind, OpsFor(c, i), status)
        /\ Sent(c, i, status)
        /\ Happens(c, i, call[c].cmd.kind, OpsFor(c, i))
        /\ update(c)
AskedOf(c, i) == {a \in InsertionsOf(i, Asked(OpsFor(c, i))) : a.file \in files}

\* Where the insertions that are held to be in force come from.
LEMMA HeldFrom ==
    ASSUME Typed, Next
    PROVE  /\ \A c \in Client : due'[c] \subseteq due[c] \/ (Begins(c) /\ due'[c] \subseteq acked)
           /\ \A c \in Client : mine'[c] \subseteq mine[c] \/ \E i : Fresh(c, i)
           /\ acked' \subseteq acked \/ \E c \in Client : \E i : Fresh(c, i)
<1>. DEFINE Fewer == /\ \A c \in Client : \/ due'[c] \subseteq due[c]
                                          \/ Begins(c) /\ due'[c] \subseteq acked
                     /\ \A c \in Client : mine'[c] \subseteq mine[c]
                     /\ acked' \subseteq acked
<1>0. HistoriesTyped BY DEF Typed
<1>1. UNCHANGED histories => Fewer BY DEF histories
<1>2. \A lost : Forget(lost) => Fewer BY DEF Forget
<1>3. \A c \in Client : \A i, status : ServerDies(c, i, status) => Fewer BY DEF ServerDies
<1>4. \A c \in Client : Over(c) => Fewer BY <1>0 DEF Over, HistoriesTyped
<1>5. ASSUME NEW c \in Client, Begins(c) PROVE Fewer
  <2>1. PICK cmd \in Commands : Begin(c, cmd) BY <1>5 DEF Begins
  <2>2. acked' = acked /\ mine' = mine BY <2>1 DEF Begin
  <2>3. due' = due \/ due' = [due EXCEPT ![c] = Due(cmd)] BY <2>1 DEF Begin
  <2>4. Due(cmd) \subseteq acked BY DEF Due
  <2>. QED BY <1>0, <1>5, <2>2, <2>3, <2>4 DEF HistoriesTyped
<1>6. ASSUME NEW c \in Client, NEW i, NEW kind, NEW ops, Happens(c, i, kind, ops), call'[c] = Idle,
             answer'.status = "died"
      PROVE  Fewer
  <2>1. ~BatchDone(c) BY <1>6 DEF BatchDone
  <2>2. CASE kind = "REMOVE" BY <1>2, <1>6, <2>2 DEF Happens
  <2>3. CASE kind # "REMOVE"
    <3>1. due' = due /\ acked' = acked /\ mine' = [mine EXCEPT ![c] = {}]
      BY <1>6, <2>1, <2>3 DEF Happens
    <3>. QED BY <1>0, <3>1 DEF HistoriesTyped
  <2>. QED BY <2>2, <2>3
<1>7. ASSUME NEW c \in Client, NEW i, Fresh(c, i)
      PROVE  due' = due /\ \A d \in Client \ {c} : mine'[d] = mine[d]
  BY <1>0, <1>7 DEF Fresh, Happens, HistoriesTyped
<1>. HIDE DEF Fewer
<1>8. ASSUME NEW c \in Client, update(c) PROVE Fewer \/ \E i : Fresh(c, i)
  <2>1. PICK i \in call[c].lists :
          \/ \E status : /\ update_single_index(i, call[c].cmd.kind, OpsFor(c, i), status)
                         /\ Sent(c, i, status) \/ Return(c, "died")
                         /\ Happens(c, i, call[c].cmd.kind, OpsFor(c, i))
          \/ Return(c, "died") /\ Happens(c, i, call[c].cmd.kind, <<>>)
          \/ ServerDies(c, i, "died")
    BY <1>8 DEF update, Unreachable
  <2>2. \A ops : Return(c, "died") /\ Happens(c, i, call[c].cmd.kind, ops) => Fewer BY <1>6, Ended
  <2>3. \A ops : call[c].cmd.kind = "REMOVE" /\ Happens(c, i, call[c].cmd.kind, ops) => Fewer
    BY <1>2 DEF Happens
  <2>4. At(c, "send") BY <1>8 DEF update
  <2>. QED BY <1>3, <1>8, <2>1, <2>2, <2>3, <2>4 DEF Fresh
<1>9. \A c \in Client : \A found : Searched(c, found) => Fewer BY <1>1, <1>4 DEF Searched
<1>10. ASSUME NEW c \in Client, search_server(c) \/ info_server(c) PROVE Fewer
  BY <1>1, <1>3, <1>4, <1>9, <1>10 DEF search_server, info_server
<1>11. ASSUME NEW c \in Client, Reads(c) PROVE Fewer
  <2>1. CASE locate_index_for_search(c) BY <1>1, <1>9, <2>1, LocateIs
  <2>2. CASE find_files(c) BY <1>1, <1>9, <2>2, PathsIs
  <2>3. CASE readdir_getattr(c) BY <1>1, <1>4, <2>3 DEF readdir_getattr
  <2>. QED BY <1>11, <2>1, <2>2, <2>3 DEF Reads
<1>12. ASSUME NEW c \in Client, Quiet(c) \/ OnMasters(c) \/ Creates(c) PROVE Fewer
  BY <1>1, <1>12, Frames
<1>13. \A f : CreateFile(f) \/ UnlinkFile(f) => Fewer BY <1>1, <1>2 DEF CreateFile, UnlinkFile
<1>14. \A s : Restart(s) => Fewer BY <1>2 DEF Restart
<1>15. Fewer \/ \E c \in Client : \E i : Fresh(c, i)
  BY <1>5, <1>8, <1>10, <1>11, <1>12, <1>13, <1>14, Groups
<1>16. CASE Fewer BY <1>16 DEF Fewer
<1>17. ASSUME NEW c \in Client, NEW i, Fresh(c, i)
       PROVE  /\ \A d \in Client : due'[d] \subseteq due[d]
              /\ \A d \in Client : mine'[d] \subseteq mine[d] \/ \E j : Fresh(d, j)
  BY <1>7, <1>17
<1>. QED BY <1>15, <1>16, <1>17

\* What a list inserts is in force then.
LEMMA Made ==
    ASSUME Typed, Directories, Next, NEW c \in Client, At(c, "send"), NEW i \in call[c].lists,
           call[c].cmd.kind # "REMOVE",
           update_single_index(i, call[c].cmd.kind, OpsFor(c, i), "OK"),
           Happens(c, i, call[c].cmd.kind, OpsFor(c, i)), files' = files,
           NEW a \in AskedOf(c, i)
    PROVE  InForce(a)'
<1>0. Typed' BY TypedKept
<1>. DEFINE ops == OpsFor(c, i)
            kind == call[c].cmd.kind
<1>1. i \in Index BY ListIs
<1>2. RecordsOf(ops) \subseteq Record BY <1>1, RecordsAre
<1>3. a \in InsertionsOf(i, Asked(ops)) /\ a.file \in files BY DEF AskedOf
<1>. HIDE DEF ops
<1>4. update_single_index(i, kind, ops, "OK") /\ Happens(c, i, kind, ops) BY DEF ops
<1>5. /\ served[i] # NoIndex /\ CastKeys(ops) = DOMAIN ops
      /\ served' = [served EXCEPT ![i] = apply(@, kind, ops)]
  BY <1>4 DEF update_single_index
<1>6. Asked(ops) \subseteq RecordsOf(ops) BY <1>5 DEF Asked, RecordsOf
<1>7. a \in InsertionsOf(i, RecordsOf(ops)) BY <1>3, <1>6 DEF InsertionsOf
<1>8. a \in ever' BY <1>4, <1>5, <1>7 DEF Happens
<1>9. served'[i] = served[i] \cup RecordsOf(ops) BY <1>1, <1>5 DEF apply, Typed, IndexManagerTypeOK
<1>10. served[i] \subseteq Record BY <1>1, <1>5 DEF Typed, IndexManagerTypeOK
<1>11. served'[i] # NoIndex
  <2>1. served'[i] \subseteq Record BY <1>2, <1>9, <1>10
  <2>. QED BY <2>1, IndexManagerAssumption
<1>12. Settled(i)'
  <2>1. \E p \in call[c].target : p[2] = i BY DEF At, Typed, CallsTyped, CallOK, SendCall
  <2>2. Settled(i) BY <2>1 DEF Directories, At
  <2>. QED BY <1>0, <2>2, SettledForGood
<1>13. PICK r \in RecordsOf(ops) : a = [index |-> i, key |-> r.key, file |-> r.id]
  BY <1>7 DEF InsertionsOf
<1>14. a.index = i /\ a.key = r.key /\ a.file = r.id BY <1>13
<1>15. r = [key |-> a.key, id |-> a.file] BY <1>2, <1>14 DEF Record
<1>. QED BY <1>3, <1>8, <1>9, <1>11, <1>12, <1>14, <1>15 DEF InForce

\* The insertions of a list are acknowledged once its batch is done, and no
\* server has answered badly before.
LEMMA FreshIs ==
    ASSUME Typed, Directories, Forces, Next, NEW c \in Client, NEW i, Fresh(c, i)
    PROVE  /\ call'[c].at \in {"climb", "resolve", "send"} \/ call'[c] = Idle
           /\ call'[c].at # "send" => mine'[c] = {}
           /\ call'[c].at = "send" => call'[c].cmd = call[c].cmd
           /\ call'[c].at = "send" /\ ~call'[c].bad => \A a \in mine'[c] : InForce(a) \/ InForce(a)'
           /\ \A a \in acked' : InForce(a) \/ InForce(a)'
<1>. DEFINE k == call[c]
            ops == OpsFor(c, i)
            made == mine[c] \cup AskedOf(c, i)
<1>1. PICK status :
        /\ k.cmd.kind # "REMOVE" /\ At(c, "send") /\ i \in k.lists
        /\ update_single_index(i, k.cmd.kind, ops, status) /\ Sent(c, i, status)
        /\ Happens(c, i, k.cmd.kind, ops)
  BY DEF Fresh
<1>2. /\ mine' = [mine EXCEPT ![c] = IF call'[c] = Idle \/ BatchDone(c) THEN {} ELSE made]
      /\ acked' = IF BatchDone(c) THEN acked \cup made ELSE acked
  BY <1>1 DEF Happens, AskedOf
<1>3. mine'[c] = IF call'[c] = Idle \/ BatchDone(c) THEN {} ELSE made
  BY <1>2 DEF Typed, HistoriesTyped
<1>4. files' = files
  <2>1. update(c) BY DEF Fresh
  <2>. QED BY <2>1, Frames DEF Env
<1>5. ASSUME status = "OK", ~k.bad, NEW a \in made PROVE InForce(a) \/ InForce(a)'
  <2>1. CASE a \in mine[c] BY <1>1, <1>5, <2>1 DEF Forces
  <2>2. CASE a \in AskedOf(c, i) BY <1>1, <1>4, <1>5, <2>2, Made
  <2>. QED BY <1>5, <2>1, <2>2
<1>6. \A a \in acked : InForce(a) BY DEF Forces
<1>. HIDE DEF made, ops
<1>7. CASE call'[c] = Idle /\ answer'.status = "died"
  <2>1. ~BatchDone(c) BY <1>7 DEF BatchDone
  <2>. QED BY <1>2, <1>3, <1>6, <1>7, <2>1, IdleIs
<1>8. CASE status = "OK" /\ ~k.bad /\ call'[c] = Idle BY <1>2, <1>3, <1>5, <1>6, <1>8, IdleIs
<1>9. CASE status = "OK" /\ ~k.bad /\ call'[c].at = "climb"
  <2>1. call'[c] # Idle BY <1>9, IdleIs
  <2>2. BatchDone(c) BY <1>9, <2>1 DEF BatchDone
  <2>. QED BY <1>2, <1>3, <1>5, <1>6, <1>9, <2>2
<1>10. CASE /\ call'[c].at = "send" /\ call'[c].cmd = k.cmd
            /\ ~call'[c].bad => status = "OK" /\ ~k.bad
  <2>1. call'[c] # Idle BY <1>10, IdleIs
  <2>2. ~BatchDone(c) BY <1>10, <2>1 DEF BatchDone
  <2>. QED BY <1>2, <1>3, <1>5, <1>6, <1>10, <2>1, <2>2
<1>11. \/ call'[c] = Idle /\ answer'.status = "died"
       \/ status = "OK" /\ ~k.bad /\ call'[c] = Idle
       \/ status = "OK" /\ ~k.bad /\ call'[c].at = "climb"
       \/ /\ call'[c].at = "send" /\ call'[c].cmd = k.cmd
          /\ ~call'[c].bad => status = "OK" /\ ~k.bad
  BY <1>1, SentTo DEF Outcome
<1>. QED BY <1>7, <1>8, <1>9, <1>10, <1>11

\* A call that is lost ends the update, and what it has made is not acknowledged.
LEMMA NotFresh ==
    ASSUME Typed, NEW c \in Client, update(c), call[c].cmd.kind # "REMOVE", \A i : ~Fresh(c, i)
    PROVE  call'[c] = Idle /\ answer'.status = "died" /\ mine'[c] = {}
<1>1. PICK i \in call[c].lists :
          \/ \E status : /\ update_single_index(i, call[c].cmd.kind, OpsFor(c, i), status)
                         /\ Sent(c, i, status) \/ Return(c, "died")
                         /\ Happens(c, i, call[c].cmd.kind, OpsFor(c, i))
          \/ Return(c, "died") /\ Happens(c, i, call[c].cmd.kind, <<>>)
          \/ ServerDies(c, i, "died")
  BY DEF update, Unreachable
<1>2. At(c, "send") BY DEF update
<1>3. \/ Return(c, "died") /\ \E ops : Happens(c, i, call[c].cmd.kind, ops)
      \/ ServerDies(c, i, "died")
  BY <1>1, <1>2 DEF Fresh
<1>4. ASSUME call'[c] = Idle, NEW ops, Happens(c, i, call[c].cmd.kind, ops) PROVE mine'[c] = {}
  BY <1>4 DEF Happens, Typed, HistoriesTyped
<1>5. ServerDies(c, i, "died") => Return(c, "died") /\ mine'[c] = {} BY DEF ServerDies
<1>6. Return(c, "died") => call'[c] = Idle /\ answer'.status = "died" BY Ended
<1>. QED BY <1>3, <1>4, <1>5, <1>6

\* The insertions that are held to be in force are in their indices.
LEMMA ForcesKept == ASSUME Typed, Locked, Directories, Forces, [Next]_vars PROVE Forces'
<1>1. CASE UNCHANGED vars
  <2>1. UNCHANGED <<served, listed, files, call, acked, mine, due, ever>>
    BY <1>1 DEF vars, imVars, masters, histories
  <2>2. \A i : Settled(i) => Settled(i)' BY <2>1 DEF Settled, At, Named
  <2>3. \A a : InForce(a) => InForce(a)' BY <2>1, <2>2 DEF InForce
  <2>. QED BY <2>1, <2>3 DEF Forces, At
<1>2. CASE Next
  <2>1. \A a : (InForce(a) \/ InForce(a)') /\ Held(a)' => InForce(a)' BY <1>2, ForceLost
  <2>2. \A a \in acked' : InForce(a)'
    <3>1. \A a \in acked' : InForce(a) \/ InForce(a)' BY <1>2, HeldFrom, FreshIs DEF Forces
    <3>2. \A a \in acked' : Held(a)' BY DEF Held
    <3>. QED BY <2>1, <3>1, <3>2
  <2>3. ASSUME NEW c \in Client, NEW a \in due'[c] PROVE InForce(a)'
    <3>1. InForce(a) BY <1>2, <2>3, HeldFrom DEF Forces
    <3>2. Held(a)' BY <2>3 DEF Held
    <3>. QED BY <2>1, <3>1, <3>2
  <2>4. ASSUME NEW c \in Client, \A i : ~Fresh(c, i), NEW a \in mine'[c]
        PROVE  call'[c] = call[c] /\ a \in mine[c] /\ At(c, "send") /\ call[c].cmd.kind # "REMOVE"
    <3>1. a \in mine[c] BY <1>2, <2>4, HeldFrom
    <3>2. call[c].at = "send" /\ call[c].cmd.kind # "REMOVE" BY <3>1 DEF Forces, At
    <3>3. ~Begins(c) BY <3>2, Starts, IdleIs
    <3>4. ~update(c) BY <2>4, <3>2, NotFresh
    <3>5. ~Step(c)
      BY <3>2, <3>4 DEF Step, create_index, create_on_server, created_on_server, make_vsfs_dir,
         insert_name, make_index_dir, create_partition, list_partition, roll_back_partition,
         remove_index_dir, remove_index, unlink_entry, unlink_record, climb, find_objects,
         locate_index_for_search, search_server, find_files, readdir_getattr, list_subfiles,
         getattr_subfile, get_index_infos, info_server, At
    <3>. QED BY <1>2, <3>1, <3>2, <3>3, <3>5, OneMoves DEF At
  <2>5. ASSUME NEW c \in Client, call'[c].at = "send", ~call'[c].bad, NEW a \in mine'[c] PROVE InForce(a)'
    <3>1. Held(a)' BY <2>5 DEF Held
    <3>2. InForce(a) \/ InForce(a)'
      <4>1. CASE \E i : Fresh(c, i) BY <1>2, <2>5, <4>1, FreshIs
      <4>2. CASE \A i : ~Fresh(c, i) BY <2>4, <2>5, <4>2 DEF Forces
      <4>. QED BY <4>1, <4>2
    <3>. QED BY <2>1, <3>1, <3>2
  <2>6. ASSUME NEW c \in Client, call'[c].at # "send" \/ call'[c].cmd.kind = "REMOVE" PROVE mine'[c] = {}
    <3>1. CASE \E i : Fresh(c, i)
      <4>1. call[c].cmd.kind # "REMOVE" BY <3>1 DEF Fresh
      <4>. QED BY <1>2, <2>6, <3>1, <4>1, FreshIs
    <3>2. CASE \A i : ~Fresh(c, i)
      <4>1. \A a : a \notin mine'[c] BY <2>4, <2>6, <3>2 DEF At
      <4>. QED BY <4>1
    <3>. QED BY <3>1, <3>2
  <2>. QED BY <2>2, <2>3, <2>5, <2>6 DEF Forces, At
<1>. QED BY <1>1, <1>2

(***************************************************************************)
(* What was inserted a search returns                                      *)
(***************************************************************************)

\* An insertion that a search has to find is about an index of its query, with a
\* key that satisfies it, and the search has found it or will come to it: its
\* index is on a master that has not been asked yet, or among those to be asked
\* for; its file is among the objects, on a master that is left, or is found.
Wanted(cmd, a) ==
    /\ cmd.query.ok /\ Plain(cmd.path)
    /\ Matches(a.index, cmd) /\ Satisfies(a.key, cmd.path) /\ Regular(a.key, cmd.path)
Seen(c) ==
    LET k == call[c] IN
    \A a \in due[c] :
        /\ k.at = "locate" => Wanted(k.cmd, a) /\ (IndexMaster[a.index] \in k.left \/ a.index \in k.hits)
        /\ k.at = "ask" => Wanted(k.cmd, a) /\ (a.index \in k.hits \/ a.file \in k.objects)
        /\ k.at = "paths" => a.file \in k.objects /\ (MasterOf[a.file] \in k.left \/ a.file \in k.found)
        /\ k.at = "getattrs" => a.file \in k.found

\* A search begins with all the masters, and what is due then is wanted.
LEMMA SearchStarts ==
    ASSUME Typed, NEW c \in Client, Begins(c), call'[c].at \in {"locate", "ask", "paths", "getattrs"}
    PROVE  /\ call'[c].at = "locate" /\ call'[c].left = Master
           /\ \A a \in due'[c] : Wanted(call'[c].cmd, a) /\ a \in acked
<1>0. \A new : call' = [call EXCEPT ![c] = new] => call'[c] = new BY Moved DEF Typed
<1>1. PICK cmd \in Commands : Begin(c, cmd) BY DEF Begins
<1>2. call'[c] # Idle BY IdleIs
<1>3. call'[c] = run(cmd) /\ due' = [due EXCEPT ![c] = Due(cmd)]
  BY <1>0, <1>1, <1>2 DEF Begin, Becomes, Return, ReturnFound
<1>4. cmd.op \in {"usage", "help", "create", "destroy", "update", "list", "search", "readdir"}
  BY CommandAssumption
<1>5. Ends(cmd) = "none" BY <1>0, <1>1, <1>2 DEF Begin, Return, ReturnFound
<1>6. cmd.op # "usage" /\ cmd.op # "help" BY <1>5 DEF Ends, help_run
<1>7. cmd.op # "create"
  <2>1. create_run(cmd).at = "getattr" BY DEF create_run
  <2>. QED BY <1>3, <2>1 DEF run
<1>8. cmd.op # "destroy"
  <2>1. destroy_run(cmd).at = "undo" BY DEF destroy_run
  <2>. QED BY <1>3, <2>1 DEF run
<1>9. cmd.op # "list"
  <2>1. \A stack : Resume(cmd, stack).at \in {"subfiles", "infos"} BY DEF Resume
  <2>2. list_run(cmd).at \in {"readdir", "subfiles", "infos"} BY <2>1 DEF list_run
  <2>. QED BY <1>3, <2>2 DEF run
<1>10. cmd.op # "update"
  <2>1. update_run(cmd).at = "climb" BY DEF update_run, Climb
  <2>. QED BY <1>3, <2>1 DEF run
<1>11. cmd.op \in {"search", "readdir"} BY <1>4, <1>6, <1>7, <1>8, <1>9, <1>10
<1>12. call'[c] = Locating(cmd) BY <1>3, <1>11 DEF run
<1>13. Locating(cmd).at = "locate" /\ Locating(cmd).left = Master /\ Locating(cmd).cmd = cmd
  BY DEF Locating
<1>14. due'[c] = Due(cmd) BY <1>3 DEF Typed, HistoriesTyped
<1>15. \A a \in Due(cmd) : Wanted(cmd, a) /\ a \in acked BY DEF Due, Wanted
<1>. QED BY <1>12, <1>13, <1>14, <1>15

\* A search that asks the server of an index finds what is in force there.
LEMMA FoundInForce ==
    ASSUME Understood, Typed, NEW cmd \in SearchCmd, NEW a, InForce(a), Wanted(cmd, a)
    PROVE  a.file \in search(a.index, range_query(cmd.query, a.index.name))
<1>. DEFINE range == range_query(cmd.query, a.index.name)
            r == [key |-> a.key, id |-> a.file]
<1>1. r \in served[a.index] BY DEF InForce
<1>2. a.key \in Key BY DEF InForce, Typed, HistoriesTyped, Insertion
<1>3. /\ cmd \in Commands /\ cmd.op \in {"search", "readdir"} /\ cmd.query.ok /\ Plain(cmd.path)
      /\ a.index.name \in get_names_of_range_queries(cmd.query)
      /\ Satisfies(a.key, cmd.path) /\ Regular(a.key, cmd.path)
  BY DEF Wanted, Matches, SearchCmd
<1>4. Selected(a.key, range) BY <1>2, <1>3 DEF Understood
<1>5. r.key = a.key /\ r.id = a.file OBVIOUS
<1>. HIDE DEF r, range
<1>6. r \in range_search(served[a.index], range) BY <1>1, <1>4, <1>5 DEF range_search
<1>7. a.file \in search(a.index, range) BY <1>5, <1>6 DEF search
<1>. QED BY <1>7 DEF range

\* The step of a search loses nothing that is due, and its answer has all of it.
LEMMA SeenStep ==
    ASSUME Understood, Typed, CallsTyped', Forces, NEW c \in Client, Seen(c), Step(c)
    PROVE  /\ Seen(c)'
           /\ call[c].at \in {"locate", "ask", "paths", "getattrs"} /\ call'[c] = Idle
                /\ answer'.status = "OK" =>
                \A a \in due[c] : a.file \in answer'.found
<1>. DEFINE k == call[c]
            All == call'[c] = Idle /\ answer'.status = "OK" => \A a \in due[c] : a.file \in answer'.found
<1>1. \A a \in due[c] : InForce(a) BY DEF Forces
<1>2. \A a \in due[c] : a.index \in listed /\ a.index \in Index /\ a.file \in files /\ a.file \in File
  BY <1>1 DEF InForce, Settled, Typed, MastersTyped, EnvTyped
<1>3. call'[c] = Idle => Seen(c)' BY IdleIs DEF Seen
<1>4. UNCHANGED histories => due' = due BY DEF histories
<1>5. ASSUME NEW found, \A a \in due[c] : a.file \in found, Searched(c, found)
      PROVE  Seen(c)' /\ All
  <2>1. CASE call'[c] = Idle /\ answer' = [status |-> "OK", found |-> found]
    <3>1. answer'.found = found BY <2>1
    <3>. QED BY <1>3, <1>5, <2>1, <3>1
  <2>2. CASE call'[c].at = "getattrs" /\ call'[c].found = found /\ UNCHANGED histories
    <3>1. call'[c] # Idle BY <2>2, IdleIs
    <3>. QED BY <1>4, <1>5, <2>2, <3>1 DEF Seen
  <2>. QED BY <1>5, <2>1, <2>2, SearchedIs
<1>6. ASSUME Searched(c, {}), \A a \in due[c] : FALSE PROVE Seen(c)' /\ All BY <1>5, <1>6
<1>7. ASSUME locate_index_for_search(c) PROVE Seen(c)' /\ All
  <2>1. k.at = "locate" BY <1>7 DEF locate_index_for_search, At
  <2>2. PICK left, hits :
             /\ left = k.left \ {Min(k.left)}
             /\ hits = k.hits \cup {i \in listed : /\ Matches(i, k.cmd)
                                                   /\ IndexMaster[i] = Min(k.left)}
             /\ \/ /\ left # {} /\ call'[c].at = "locate" /\ call'[c].cmd = k.cmd
                   /\ call'[c].left = left /\ call'[c].hits = hits /\ UNCHANGED histories
                \/ left = {} /\ hits = {} /\ Searched(c, {})
                \/ /\ left = {} /\ call'[c].at = "ask" /\ call'[c].cmd = k.cmd
                   /\ call'[c].hits = hits /\ call'[c].objects = {} /\ UNCHANGED histories
    BY <1>7, LocateIs
  <2>3. ASSUME NEW a \in due[c] PROVE Wanted(k.cmd, a) /\ (IndexMaster[a.index] \in left \/ a.index \in hits)
    <3>1. Wanted(k.cmd, a) /\ (IndexMaster[a.index] \in k.left \/ a.index \in k.hits) BY <2>1 DEF Seen
    <3>2. Matches(a.index, k.cmd) /\ a.index \in listed BY <1>2, <3>1 DEF Wanted
    <3>3. CASE IndexMaster[a.index] = Min(k.left) BY <2>2, <3>1, <3>2, <3>3
    <3>4. CASE IndexMaster[a.index] # Min(k.left) BY <2>2, <3>1, <3>4
    <3>. QED BY <3>3, <3>4
  <2>4. CASE /\ call'[c].at = "locate" /\ call'[c].cmd = k.cmd
             /\ call'[c].left = left /\ call'[c].hits = hits /\ UNCHANGED histories
    <3>1. call'[c] # Idle BY <2>4, IdleIs
    <3>. QED BY <1>4, <2>3, <2>4, <3>1 DEF Seen
  <2>5. CASE left = {} /\ hits = {} /\ Searched(c, {}) BY <1>6, <2>3, <2>5
  <2>6. CASE /\ left = {} /\ call'[c].at = "ask" /\ call'[c].cmd = k.cmd
             /\ call'[c].hits = hits /\ UNCHANGED histories
    <3>1. call'[c] # Idle BY <2>6, IdleIs
    <3>. QED BY <1>4, <2>3, <2>6, <3>1 DEF Seen
  <2>. QED BY <2>2, <2>4, <2>5, <2>6
<1>8. ASSUME search_server(c) PROVE Seen(c)' /\ All
  <2>1. k.at = "ask" /\ k \in AskCall BY <1>8 DEF search_server, At, Typed, CallsTyped, CallOK
  <2>2. k.cmd \in SearchCmd BY <2>1 DEF AskCall
  <2>3. PICK i \in k.hits : \E rest, objects :
             /\ rest = call[c].hits \ {i}
             /\ \/ call'[c] = Idle /\ answer'.status = "error"
                \/ /\ served[i] # NoIndex
                   /\ objects = call[c].objects \cup search(i, range_query(call[c].cmd.query, i.name))
                   /\ \/ rest = {} /\ objects = {} /\ Searched(c, {})
                      \/ /\ rest = {} /\ objects # {} /\ call'[c].at = "paths"
                         /\ call'[c].cmd = call[c].cmd /\ call'[c].objects = objects
                         /\ call'[c].left = {MasterOfId(o) : o \in objects}
                         /\ call'[c].found = {} /\ UNCHANGED histories
                      \/ /\ rest # {} /\ call'[c].at = "ask" /\ call'[c].cmd = call[c].cmd
                         /\ call'[c].hits = rest /\ call'[c].objects = objects
                         /\ UNCHANGED histories
    BY <1>8, AskIs
  <2>. DEFINE rest == k.hits \ {i}
              all == k.objects \cup search(i, range_query(k.cmd.query, i.name))
  <2>4. ASSUME NEW a \in due[c] PROVE Wanted(k.cmd, a) /\ (a.index \in rest \/ a.file \in all)
    <3>1. Wanted(k.cmd, a) /\ (a.index \in k.hits \/ a.file \in k.objects) BY <2>1 DEF Seen
    <3>2. CASE a.index = i BY <1>1, <2>2, <3>1, <3>2, FoundInForce
    <3>3. CASE a.index # i BY <3>1, <3>3
    <3>. QED BY <3>2, <3>3
  <2>. HIDE DEF all, rest
  <2>5. CASE call'[c] = Idle /\ answer'.status = "error" BY <1>3, <2>5
  <2>6. CASE rest = {} /\ all = {} /\ Searched(c, {}) BY <1>6, <2>4, <2>6
  <2>7. CASE /\ rest = {} /\ call'[c].at = "paths" /\ call'[c].objects = all
             /\ call'[c].left = {MasterOfId(o) : o \in all} /\ UNCHANGED histories
    <3>1. call'[c] # Idle BY <2>7, IdleIs
    <3>2. ASSUME NEW a \in due[c] PROVE a.file \in all /\ MasterOf[a.file] \in call'[c].left
      <4>1. a.file \in all BY <2>4, <2>7
      <4>2. MasterOfId(a.file) = MasterOf[a.file] BY <1>2, MastersOfIds DEF Object
      <4>. QED BY <2>7, <4>1, <4>2
    <3>. QED BY <1>4, <2>7, <3>1, <3>2 DEF Seen
  <2>8. CASE /\ call'[c].at = "ask" /\ call'[c].cmd = k.cmd /\ call'[c].hits = rest
             /\ call'[c].objects = all /\ UNCHANGED histories
    <3>1. call'[c] # Idle BY <2>8, IdleIs
    <3>. QED BY <1>4, <2>4, <2>8, <3>1 DEF Seen
  <2>. QED BY <2>3, <2>5, <2>6, <2>7, <2>8 DEF rest, all
<1>9. ASSUME find_files(c) PROVE Seen(c)' /\ All
  <2>. DEFINE m == Min(k.left)
              rest == k.left \ {m}
              found == k.found \cup {IF o \in files THEN o ELSE NoPath :
                                       o \in {o \in k.objects : MasterOfId(o) = m}}
  <2>1. k.at = "paths" BY <1>9 DEF find_files, At
  <2>2. \/ rest = {} /\ Searched(c, found)
        \/ /\ call'[c].at = "paths" /\ call'[c].objects = k.objects /\ call'[c].left = rest
           /\ call'[c].found = found /\ UNCHANGED histories
    BY <1>9, PathsIs
  <2>3. ASSUME NEW a \in due[c]
        PROVE  a.file \in k.objects /\ (MasterOf[a.file] \in rest \/ a.file \in found)
    <3>1. a.file \in k.objects /\ (MasterOf[a.file] \in k.left \/ a.file \in k.found) BY <2>1 DEF Seen
    <3>2. MasterOfId(a.file) = MasterOf[a.file] BY <1>2, MastersOfIds DEF Object
    <3>3. a.file \in files BY <1>2
    <3>4. CASE MasterOf[a.file] = m BY <3>1, <3>2, <3>3, <3>4
    <3>5. CASE MasterOf[a.file] # m BY <3>1, <3>5
    <3>. QED BY <3>4, <3>5
  <2>. HIDE DEF found, rest
  <2>4. CASE rest = {} /\ Searched(c, found) BY <1>5, <2>3, <2>4
  <2>5. CASE /\ call'[c].at = "paths" /\ call'[c].objects = k.objects /\ call'[c].left = rest
             /\ call'[c].found = found /\ UNCHANGED histories
    <3>1. call'[c] # Idle BY <2>5, IdleIs
    <3>. QED BY <1>4, <2>3, <2>5, <3>1 DEF Seen
  <2>. QED BY <2>2, <2>4, <2>5
<1>10. ASSUME readdir_getattr(c) PROVE Seen(c)' /\ All
  <2>1. k.at = "getattrs" BY <1>10 DEF readdir_getattr, At
  <2>2. \A a \in due[c] : a.file \in k.found BY <2>1 DEF Seen
  <2>3. CASE call'[c].at = "getattrs" /\ call'[c].found = k.found /\ UNCHANGED histories
    <3>1. call'[c] # Idle BY <2>3, IdleIs
    <3>. QED BY <1>4, <2>2, <2>3, <3>1 DEF Seen
  <2>4. CASE call'[c] = Idle /\ answer'.status = "error" BY <1>3, <2>4
  <2>5. CASE call'[c] = Idle /\ answer'.found = k.found BY <1>3, <2>2, <2>5
  <2>. QED BY <1>10, <2>3, <2>4, <2>5, GetattrsIs
<1>. HIDE DEF All
<1>11. CASE locate_index_for_search(c) \/ search_server(c) \/ find_files(c) \/ readdir_getattr(c)
  BY <1>7, <1>8, <1>9, <1>10, <1>11 DEF All
<1>12. CASE ~(locate_index_for_search(c) \/ search_server(c) \/ find_files(c) \/ readdir_getattr(c))
  <2>1. call'[c].at \notin {"locate", "ask", "paths", "getattrs"} BY <1>12, Onwards
  <2>2. Seen(c)' BY <2>1 DEF Seen
  <2>3. k.at \notin {"locate", "ask", "paths", "getattrs"}
    BY <1>12 DEF Step, create_index, create_on_server, created_on_server, make_vsfs_dir, insert_name,
       make_index_dir, create_partition, list_partition, roll_back_partition, remove_index_dir,
       remove_index, unlink_entry, unlink_record, climb, find_objects, update, list_subfiles,
       getattr_subfile, get_index_infos, info_server, At
  <2>. QED BY <2>2, <2>3
<1>. QED BY <1>11, <1>12

\* No search loses what is due.
LEMMA SeenKept ==
    ASSUME Understood, Typed, Forces, \A c \in Client : Seen(c), [Next]_vars
    PROVE  \A c \in Client : Seen(c)'
<1>0. Typed' BY TypedKept
<1>. SUFFICES ASSUME NEW c \in Client PROVE Seen(c)' OBVIOUS
<1>1. CASE UNCHANGED vars BY <1>1 DEF vars, histories, Seen
<1>2. CASE Next
  <2>1. CASE Begins(c)
    <3>1. CASE call'[c].at \in {"locate", "ask", "paths", "getattrs"}
      <4>1. /\ call'[c].at = "locate" /\ call'[c].left = Master
            /\ \A a \in due'[c] : Wanted(call'[c].cmd, a) /\ a \in acked
        BY <2>1, <3>1, SearchStarts
      <4>2. \A a \in acked : a.index \in Index BY DEF Typed, HistoriesTyped, Insertion
      <4>3. \A a \in due'[c] : IndexMaster[a.index] \in call'[c].left BY <4>1, <4>2, IndexClientAssumption
      <4>. QED BY <4>1, <4>3 DEF Seen
    <3>2. CASE call'[c].at \notin {"locate", "ask", "paths", "getattrs"} BY <3>2 DEF Seen
    <3>. QED BY <3>1, <3>2
  <2>2. CASE call'[c] = call[c] /\ ~Begins(c)
    <3>1. due'[c] \subseteq due[c] BY <1>2, <2>2, HeldFrom
    <3>. QED BY <2>2, <3>1 DEF Seen
  <2>3. CASE Step(c) BY <1>0, <2>3, SeenStep DEF Typed
  <2>. QED BY <1>2, <2>1, <2>2, <2>3, OneMoves
<1>. QED BY <1>1, <1>2

CompleteStep == \A c \in Client : SearchEnds(c) => {a.file : a \in due[c]} \subseteq answer'.found

\* A search, or the listing of a query, that returns OK has found every file whose
\* insertion was acknowledged before it began and is still in force: a step of
\* the search asks each master for its indices and each server for its files
\* while others create indices, update and unlink, and servers come and go.
THEOREM IndexClientSearchComplete ==
    ASSUME Understood
    PROVE  Spec => SearchComplete
<1>. DEFINE Inv == Typed /\ Locked /\ Directories /\ Forces /\ \A c \in Client : Seen(c)
<1>1. Init => Inv
  <2>. SUFFICES ASSUME Init PROVE Inv OBVIOUS
  <2>1. Typed BY TypedAtFirst
  <2>2. \A c \in Client : call[c].at = "idle" BY DEF Init, Idle
  <2>3. Locked BY IndexManagerAssumption DEF Init, Locked
  <2>4. Directories BY <2>2 DEF Init, Directories, Settled, At
  <2>5. Forces BY DEF Init, Forces
  <2>6. \A c \in Client : Seen(c) BY DEF Init, Seen
  <2>. QED BY <2>1, <2>3, <2>4, <2>5, <2>6
<1>2. Inv /\ [Next]_vars => Inv' BY TypedKept, LockedKept, DirectoriesKept, ForcesKept, SeenKept
<1>3. Inv /\ [Next]_vars => [CompleteStep]_vars
  <2>. SUFFICES ASSUME Inv, [Next]_vars, NEW c \in Client, SearchEnds(c), NEW a \in due[c]
                PROVE  a.file \in answer'.found
    BY DEF CompleteStep
  <2>1. Typed /\ Typed' BY TypedKept
  <2>2. Next /\ Step(c) BY <2>1, SearchEndsInStep
  <2>. QED BY <2>1, <2>2, SeenStep DEF SearchEnds, Typed
<1>4. Spec => [][CompleteStep]_vars BY <1>1, <1>2, <1>3, PTL DEF Spec
<1>. QED BY <1>4 DEF SearchComplete, CompleteStep

(***************************************************************************)
(* An update sends all its records                                         *)
(***************************************************************************)

\* A request is done with when its record was inserted, or its file may be gone.
Done(known, r) == r.file \in Volatile \/ \E a \in known : a.file = r.file /\ a.key = r.key

\* The requests of the batches before are done with; in the one that is being
\* sent, so are those but for the lists of the servers that are left, and the
\* lists that are sent go to the first of these.
Sending(c) ==
    LET k == call[c] IN
    k.at \in {"climb", "resolve", "send"} /\ k.cmd.kind # "REMOVE" =>
      /\ \A n \in DOMAIN k.cmd.batches : n < k.batch =>
           \A r \in Range(Reqs(k.cmd, n)) : Done(ever, r)
      /\ k.at = "send" => \A i \in k.lists : home[i] = Min(k.left)
      /\ k.at = "send" /\ ~k.bad => \A r \in Range(Reqs(k.cmd, k.batch)) :
           LET i == TargetOf(k.target, r.file) IN
           Done(ever, r) \/ (home[i] \in k.left /\ (home[i] = Min(k.left) => i \in k.lists))

\* The requests of a list are done with when the server has answered well.
LEMMA DoneNow ==
    ASSUME Typed, NEW c \in Client, At(c, "send"), NEW i \in call[c].lists, call[c].cmd.kind # "REMOVE",
           update_single_index(i, call[c].cmd.kind, OpsFor(c, i), "OK"),
           Happens(c, i, call[c].cmd.kind, OpsFor(c, i)),
           NEW r \in Range(Reqs(call[c].cmd, call[c].batch)), TargetOf(call[c].target, r.file) = i
    PROVE  Done(ever', r)
<1>. DEFINE reqs == Reqs(call[c].cmd, call[c].batch)
            ops == OpsFor(c, i)
            kind == call[c].cmd.kind
<1>1. PICK j \in DOMAIN reqs : r = reqs[j] BY DEF Range
<1>2. j \in DOMAIN ops BY <1>1 DEF OpsFor
<1>3. r \in [file : File, key : Nat] /\ ops[j].key = r.key /\ (r.file \notin Volatile => ops[j].id = r.file)
  <2>1. LET q == reqs[j] IN
        /\ q \in [file : File, key : Nat] /\ ops[j].key = q.key
        /\ q.file \notin Volatile => ops[j].id = q.file
    BY SMT, <1>2, OpsAre
  <2>. HIDE DEF ops, reqs
  <2>. QED BY <1>1, <2>1
<1>. HIDE DEF ops
<1>4. update_single_index(i, kind, ops, "OK") /\ Happens(c, i, kind, ops) BY DEF ops
<1>5. served[i] # NoIndex /\ CastKeys(ops) = DOMAIN ops BY <1>4 DEF update_single_index
<1>6. ever' = ever \cup InsertionsOf(i, RecordsOf(ops)) BY <1>4, <1>5 DEF Happens
<1>7. CASE r.file \notin Volatile
  <2>. DEFINE q == [key |-> ops[j].key, id |-> ops[j].id]
              a == [index |-> i, key |-> q.key, file |-> q.id]
  <2>1. q \in RecordsOf(ops) BY <1>2, <1>5 DEF RecordsOf
  <2>2. q.key = r.key /\ q.id = r.file BY <1>3, <1>7
  <2>. HIDE DEF q
  <2>3. q.id # NoObject BY <1>3, <2>2, IndexManagerAssumption
  <2>4. a \in InsertionsOf(i, RecordsOf(ops)) BY <2>1, <2>3 DEF InsertionsOf
  <2>5. a.file = r.file /\ a.key = r.key BY <2>2
  <2>. HIDE DEF a
  <2>. QED BY <1>6, <2>4, <2>5 DEF Done
<1>8. CASE r.file \in Volatile BY <1>8 DEF Done
<1>. QED BY <1>7, <1>8

\* The target of a request is one of those that were found.
LEMMA TargetIs ==
    ASSUME NEW target, NEW f, Covers(target, f)
    PROVE  \E p \in target : p[2] = TargetOf(target, f)
BY DEF Covers, TargetOf

\* How the requests of a batch get done with, list by list.
LEMMA ListDone ==
    ASSUME Typed, [Next]_vars, NEW c \in Client, Sending(c), At(c, "send"), call[c].cmd.kind # "REMOVE",
           NEW i, Fresh(c, i)
    PROVE  /\ \/ call'[c] = Idle /\ answer'.status = "died"
              \/ /\ call'[c] = Idle /\ answer'.status = Status(call[c].cmd)
                 /\ DOMAIN call[c].cmd.batches = 1 .. call[c].batch
                 /\ \A r \in Range(Reqs(call[c].cmd, call[c].batch)) : Done(ever', r)
              \/ /\ call'[c].at = "climb" /\ call'[c].cmd = call[c].cmd
                 /\ call'[c].batch = call[c].batch + 1
                 /\ \A r \in Range(Reqs(call[c].cmd, call[c].batch)) : Done(ever', r)
              \/ /\ call'[c].at = "send" /\ call'[c].cmd = call[c].cmd
                 /\ call'[c].batch = call[c].batch
                 /\ \A j \in call'[c].lists : home[j] = Min(call'[c].left)
                 /\ ~call'[c].bad => \A r \in Range(Reqs(call[c].cmd, call[c].batch)) :
                      LET t == TargetOf(call'[c].target, r.file) IN
                      \/ Done(ever', r)
                      \/ home[t] \in call'[c].left /\ (home[t] = Min(call'[c].left) => t \in call'[c].lists)
<1>. DEFINE k == call[c]
            reqs == Range(Reqs(k.cmd, k.batch))
            lists == k.lists \ {i}
            rest == LeftAfter(c, i)
            T(r) == TargetOf(k.target, r.file)
<1>1. PICK status :
        /\ i \in k.lists /\ update_single_index(i, k.cmd.kind, OpsFor(c, i), status)
        /\ Sent(c, i, status) /\ Happens(c, i, k.cmd.kind, OpsFor(c, i))
  BY DEF Fresh
<1>2. k \in SendCall /\ k.at = "send" BY DEF At, Typed, CallsTyped, CallOK
<1>3. \A f \in FilesIn(k) : Covers(k.target, f) BY <1>2 DEF SendCall
<1>4. \A r \in reqs : \E p \in k.target : p[2] = T(r) BY <1>3, TargetIs DEF FilesIn
<1>5. home[i] = Min(k.left) /\ \A j \in k.lists : home[j] = Min(k.left) BY <1>1, <1>2 DEF Sending
<1>6. \A r \in reqs : Done(ever, r) => Done(ever', r) BY EverGrows DEF Done
<1>7. ASSUME ~k.bad, status = "OK", NEW r \in reqs, ~Done(ever', r)
      PROVE  home[T(r)] \in k.left /\ T(r) # i /\ (home[T(r)] = home[i] => T(r) \in lists)
  <2>1. T(r) # i BY <1>1, <1>7, DoneNow
  <2>2. home[T(r)] \in k.left /\ (home[T(r)] = Min(k.left) => T(r) \in k.lists)
    BY <1>2, <1>6, <1>7 DEF Sending
  <2>. QED BY <1>5, <2>1, <2>2
<1>8. ASSUME ~k.bad, status = "OK", lists = {}, NEW r \in reqs, ~Done(ever', r)
      PROVE  home[T(r)] \in rest
  BY <1>7, <1>8 DEF LeftAfter
<1>9. k.cmd \in UpdateCmd /\ k.batch \in DOMAIN k.cmd.batches BY <1>2 DEF SendCall
<1>10. k.batch + 1 > Len(k.cmd.batches) => DOMAIN k.cmd.batches = 1 .. k.batch BY <1>9, BatchNumbers
<1>11. \A j \in lists : home[j] = Min(k.left) BY <1>5
<1>12. \A s, j : j \in ListsOn(k.target, s) <=> \E p \in k.target : home[p[2]] = s /\ j = p[2]
  BY DEF ListsOn
<1>13. lists # {} => rest = k.left BY DEF LeftAfter
<1>. HIDE DEF lists, rest, T
<1>14. \/ call'[c] = Idle /\ answer'.status = "died"
       \/ /\ ~k.bad /\ status = "OK" /\ lists = {} /\ rest = {}
          /\ k.batch + 1 > Len(k.cmd.batches)
          /\ call'[c] = Idle /\ answer'.status = Status(k.cmd)
       \/ /\ ~k.bad /\ status = "OK" /\ lists = {} /\ rest = {}
          /\ call'[c].at = "climb" /\ call'[c].cmd = k.cmd
          /\ call'[c].batch = k.batch + 1
       \/ /\ call'[c].at = "send" /\ call'[c].cmd = k.cmd
          /\ call'[c].batch = k.batch /\ call'[c].target = k.target
          /\ call'[c].left = rest
          /\ ~call'[c].bad => ~k.bad /\ status = "OK"
          /\ \/ lists # {} /\ call'[c].lists = lists
             \/ /\ lists = {} /\ rest # {} /\ ~k.bad /\ status = "OK"
                /\ call'[c].lists = ListsOn(k.target, Min(rest))
  <2>1. Outcome(c, status, lists, rest) BY <1>1, SentTo DEF lists, rest
  <2>. QED BY <2>1 DEF Outcome
<1>15. ASSUME /\ call'[c].at = "send" /\ call'[c].cmd = k.cmd
              /\ call'[c].batch = k.batch /\ call'[c].target = k.target
              /\ call'[c].left = rest
              /\ ~call'[c].bad => ~k.bad /\ status = "OK",
              \/ lists # {} /\ call'[c].lists = lists
              \/ lists = {} /\ call'[c].lists = ListsOn(k.target, Min(rest))
       PROVE  /\ \A j \in call'[c].lists : home[j] = Min(call'[c].left)
              /\ ~call'[c].bad => \A r \in reqs :
                    \/ Done(ever', r)
                    \/ home[T(r)] \in call'[c].left
                       /\ (home[T(r)] = Min(call'[c].left) => T(r) \in call'[c].lists)
  <2>1. CASE lists # {} /\ call'[c].lists = lists BY <1>5, <1>7, <1>11, <1>13, <1>15, <2>1
  <2>2. CASE lists = {} /\ call'[c].lists = ListsOn(k.target, Min(rest))
    <3>1. call'[c].left = rest BY <1>15
    <3>2. \A j \in call'[c].lists : home[j] = Min(rest) BY <2>2 DEF ListsOn
    <3>3. ASSUME ~call'[c].bad, NEW r \in reqs, ~Done(ever', r)
          PROVE  home[T(r)] \in rest /\ (home[T(r)] = Min(rest) => T(r) \in call'[c].lists)
      <4>1. home[T(r)] \in rest BY <1>8, <1>15, <2>2, <3>3
      <4>2. home[T(r)] = Min(rest) => T(r) \in ListsOn(k.target, Min(rest)) BY <1>4, <1>12
      <4>. QED BY <2>2, <4>1, <4>2
    <3>. QED BY <3>1, <3>2, <3>3
  <2>. QED BY <1>15, <2>1, <2>2
<1>16. ~k.bad /\ status = "OK" /\ lists = {} /\ rest = {} => \A r \in reqs : Done(ever', r) BY <1>8
<1>17. CASE /\ call'[c].at = "send" /\ call'[c].cmd = k.cmd
            /\ call'[c].batch = k.batch /\ call'[c].target = k.target
            /\ \A j \in call'[c].lists : home[j] = Min(call'[c].left)
            /\ ~call'[c].bad => \A r \in reqs :
                    \/ Done(ever', r)
                    \/ home[T(r)] \in call'[c].left
                       /\ (home[T(r)] = Min(call'[c].left) => T(r) \in call'[c].lists)
  BY <1>17 DEF T
<1>. HIDE DEF reqs
<1>18. CASE call'[c] = Idle /\ answer'.status = "died" BY <1>18
<1>19. CASE /\ call'[c] = Idle /\ answer'.status = Status(k.cmd) /\ DOMAIN k.cmd.batches = 1 .. k.batch
            /\ \A r \in reqs : Done(ever', r)
  BY <1>19 DEF reqs
<1>20. CASE /\ call'[c].at = "climb" /\ call'[c].cmd = k.cmd /\ call'[c].batch = k.batch + 1
            /\ \A r \in reqs : Done(ever', r)
  BY <1>20 DEF reqs
<1>. QED BY <1>10, <1>14, <1>15, <1>16, <1>17, <1>18, <1>19, <1>20

\* The step of an update keeps what Sending says of it.
LEMMA SendingStep ==
    ASSUME Typed, Next, NEW c \in Client, Step(c), Sending(c)
    PROVE  Sending(c)'
<1>0. Typed' /\ home' = home /\ ever \subseteq ever' BY TypedKept, Locks, EverGrows
<1>1. \A r : Done(ever, r) => Done(ever', r) BY <1>0 DEF Done
<1>. DEFINE k == call[c]
            Before(n) == \A r \in Range(Reqs(k.cmd, n)) : Done(ever', r)
<1>. SUFFICES ASSUME call'[c].at \in {"climb", "resolve", "send"}, call'[c].cmd.kind # "REMOVE"
              PROVE  Sending(c)'
  BY DEF Sending
<1>2. call'[c] # Idle BY IdleIs
<1>3. call'[c].cmd = k.cmd BY <1>2, SameCommand DEF Carries
<1>4. climb(c) \/ find_objects(c) \/ update(c) BY <1>0, Onwards DEF Typed
<1>5. k.at \in {"climb", "resolve", "send"} BY <1>4 DEF climb, find_objects, update, At
<1>6. \A n \in DOMAIN k.cmd.batches : n < k.batch => Before(n) BY <1>1, <1>3, <1>5 DEF Sending
<1>. HIDE DEF Before
<1>7. CASE climb(c)
  <2>1. call'[c].at # "send" /\ call'[c].batch = k.batch BY <1>2, <1>7, ClimbedTo
  <2>. QED BY <1>3, <1>6, <2>1 DEF Sending, Before
<1>8. CASE find_objects(c)
  <2>1. call'[c].batch = k.batch /\ call'[c].target = k.target BY <1>8, ResolvedTo
  <2>2. CASE call'[c].at # "send" BY <1>3, <1>6, <2>1, <2>2 DEF Sending, Before
  <2>3. CASE call'[c].at = "send"
    <3>1. /\ call'[c].left = {home[p[2]] : p \in k.target}
          /\ call'[c].lists = ListsOn(k.target, Min(call'[c].left))
      BY <1>8, <2>3, ResolvedTo
    <3>2. \A j \in call'[c].lists : home[j] = Min(call'[c].left) BY <3>1 DEF ListsOn
    <3>3. k \in ResolveCall BY <1>8 DEF find_objects, At, Typed, CallsTyped, CallOK
    <3>4. \A r \in Range(Reqs(k.cmd, k.batch)) : \E p \in k.target : p[2] = TargetOf(k.target, r.file)
      <4>1. \A f \in FilesIn(k) : Covers(k.target, f) BY <3>3 DEF ResolveCall
      <4>. QED BY <4>1, TargetIs DEF FilesIn
    <3>5. \A r \in Range(Reqs(k.cmd, k.batch)) :
             LET i == TargetOf(k.target, r.file) IN
             home[i] \in call'[c].left /\ (home[i] = Min(call'[c].left) => i \in call'[c].lists)
      BY <3>1, <3>4 DEF ListsOn
    <3>. QED BY <1>0, <1>3, <1>6, <2>1, <3>2, <3>5 DEF Sending, Before
  <2>. QED BY <2>2, <2>3
<1>9. CASE update(c)
  <2>1. k.at = "send" /\ At(c, "send") BY <1>9 DEF update, At
  <2>2. PICK i : Fresh(c, i) BY <1>2, <1>3, <1>9, NotFresh
  <2>3. \/ /\ call'[c].at = "climb" /\ call'[c].batch = k.batch + 1 /\ Before(k.batch)
        \/ /\ call'[c].at = "send" /\ call'[c].batch = k.batch
           /\ \A j \in call'[c].lists : home[j] = Min(call'[c].left)
           /\ ~call'[c].bad => \A r \in Range(Reqs(k.cmd, k.batch)) :
                LET t == TargetOf(call'[c].target, r.file) IN
                \/ Done(ever', r)
                \/ home[t] \in call'[c].left /\ (home[t] = Min(call'[c].left) => t \in call'[c].lists)
    BY <1>2, <1>3, <2>1, <2>2, ListDone DEF Before
  <2>4. CASE call'[c].at = "climb" /\ call'[c].batch = k.batch + 1 /\ Before(k.batch)
    <3>1. k.cmd \in UpdateCmd /\ k.batch \in DOMAIN k.cmd.batches
      BY <2>1 DEF Typed, CallsTyped, CallOK, SendCall
    <3>2. \A n \in DOMAIN k.cmd.batches : n \in Nat /\ k.batch \in Nat BY <3>1, BatchNumbers
    <3>3. \A n \in DOMAIN k.cmd.batches : n < k.batch + 1 => n < k.batch \/ n = k.batch BY SMT, <3>2
    <3>4. \A n \in DOMAIN k.cmd.batches : n < k.batch + 1 => Before(n) BY <1>6, <2>4, <3>3
    <3>. QED BY <1>3, <2>4, <3>4 DEF Sending, Before
  <2>5. CASE call'[c].at = "send" /\ call'[c].batch = k.batch
    BY <1>0, <1>3, <1>6, <2>3, <2>5 DEF Sending, Before
  <2>. QED BY <2>3, <2>4, <2>5
<1>. QED BY <1>4, <1>7, <1>8, <1>9

\* What Sending says stays true of every client.
LEMMA SendingKept ==
    ASSUME Typed, \A c \in Client : Sending(c), [Next]_vars
    PROVE  \A c \in Client : Sending(c)'
<1>0. Typed' BY TypedKept
<1>. SUFFICES ASSUME NEW c \in Client PROVE Sending(c)' OBVIOUS
<1>1. CASE UNCHANGED vars BY <1>1 DEF vars, imVars, histories, Sending
<1>2. CASE Next
  <2>1. CASE Begins(c)
    <3>1. CASE call'[c].at \in {"climb", "resolve", "send"}
      <4>1. call'[c].at = "climb" /\ call'[c].batch = 1 BY <2>1, <3>1, UpdateStarts
      <4>2. call'[c].cmd \in UpdateCmd BY <1>0, <3>1, Kept DEF Typed, CallsTyped
      <4>3. \A n \in DOMAIN call'[c].cmd.batches : n \in Nat /\ n >= 1 BY <4>2, BatchNumbers
      <4>4. \A n \in DOMAIN call'[c].cmd.batches : ~(n < 1) BY SMT, <4>3
      <4>. QED BY <4>1, <4>4 DEF Sending
    <3>2. CASE call'[c].at \notin {"climb", "resolve", "send"} BY <3>2 DEF Sending
    <3>. QED BY <3>1, <3>2
  <2>2. CASE call'[c] = call[c]
    <3>1. home' = home /\ ever \subseteq ever' BY <1>2, Locks, EverGrows
    <3>2. \A r : Done(ever, r) => Done(ever', r) BY <3>1 DEF Done
    <3>. QED BY <2>2, <3>1, <3>2 DEF Sending
  <2>3. CASE Step(c) BY <1>2, <2>3, SendingStep
  <2>. QED BY <1>2, <2>1, <2>2, <2>3, OneMoves
<1>. QED BY <1>1, <1>2

SendsAllStep ==
    \A c \in Client : UpdateEnds(c) =>
        \A r \in call[c].cmd.records :
            r[1] \notin Volatile => \E a \in ever' : a.file = r[1] /\ a.key = r[2]

\* The last list of the last batch is the last of all the requests.
LEMMA AllSent ==
    ASSUME SentInFull, Typed, Next, NEW c \in Client, Sending(c), UpdateEnds(c),
           NEW rec \in call[c].cmd.records, rec[1] \notin Volatile
    PROVE  \E a \in ever' : a.file = rec[1] /\ a.key = rec[2]
<1>. DEFINE k == call[c]
            q == [file |-> rec[1], key |-> rec[2]]
<1>1. k.at = "send" /\ k.cmd.kind # "REMOVE" /\ call'[c] = Idle /\ answer'.status = "OK" BY DEF UpdateEnds
<1>2. k.cmd \in UpdateCmd /\ k.batch \in DOMAIN k.cmd.batches
  BY <1>1 DEF Typed, CallsTyped, CallOK, SendCall
<1>3. Step(c) /\ ~Begins(c) BY <1>1, OneMoves, Starts, IdleIs
<1>4. update(c)
  BY <1>1, <1>3 DEF Step, create_index, create_on_server, created_on_server, make_vsfs_dir, insert_name,
     make_index_dir, create_partition, list_partition, roll_back_partition,
     remove_index_dir, remove_index, unlink_entry, unlink_record, climb, find_objects,
     locate_index_for_search, search_server, find_files, readdir_getattr, list_subfiles,
     getattr_subfile, get_index_infos, info_server, At
<1>5. PICK i : Fresh(c, i) BY <1>1, <1>4, NotFresh
<1>6. /\ Status(k.cmd) = "OK" /\ DOMAIN k.cmd.batches = 1 .. k.batch
      /\ \A r \in Range(Reqs(k.cmd, k.batch)) : Done(ever', r)
  BY <1>1, <1>5, ListDone, IdleIs DEF At
<1>7. ~k.cmd.malformed BY <1>6 DEF Status
<1>8. PICK n \in DOMAIN k.cmd.batches : q \in Range(k.cmd.batches[n])
  BY <1>2, <1>7 DEF SentInFull, UpdateCmd
<1>9. k.batch \in Nat BY <1>2, BatchNumbers
<1>10. n < k.batch \/ n = k.batch BY SMT, <1>6, <1>8, <1>9
<1>11. ever \subseteq ever' BY EverGrows
<1>12. Done(ever', q)
  <2>1. CASE n < k.batch
    <3>1. Done(ever, q) BY <1>1, <1>8, <2>1 DEF Sending, Reqs
    <3>. QED BY <1>11, <3>1 DEF Done
  <2>2. CASE n = k.batch BY <1>6, <1>8, <2>2 DEF Reqs
  <2>. QED BY <1>10, <2>1, <2>2
<1>13. q.file = rec[1] /\ q.key = rec[2] OBVIOUS
<1>. HIDE DEF q
<1>. QED BY <1>12, <1>13 DEF Done

\* An insertion that returns OK has inserted every record that it was given, the
\* last and incomplete batch included, unless the file may be unlinked meanwhile:
\* batch by batch it climbs to the indices, resolves the files, and sends a list
\* to each index of each server, and the first that fails makes the status bad.
THEOREM IndexClientUpdateSendsAll ==
    ASSUME SentInFull
    PROVE  Spec => UpdateSendsAll
<1>. DEFINE Inv == Typed /\ \A c \in Client : Sending(c)
<1>1. Init => Inv
  <2>. SUFFICES ASSUME Init PROVE Inv OBVIOUS
  <2>1. \A c \in Client : call[c].at = "idle" BY DEF Init, Idle
  <2>2. \A c \in Client : Sending(c) BY <2>1 DEF Sending
  <2>. QED BY <2>2, TypedAtFirst
<1>2. Inv /\ [Next]_vars => Inv' BY TypedKept, SendingKept
<1>3. Inv /\ [Next]_vars => [SendsAllStep]_vars BY AllSent DEF SendsAllStep
<1>4. Spec => [][SendsAllStep]_vars BY <1>1, <1>2, <1>3, PTL DEF Spec
<1>. QED BY <1>4 DEF UpdateSendsAll, SendsAllStep
=============================================================================
