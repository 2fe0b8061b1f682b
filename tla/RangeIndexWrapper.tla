-------------------------- MODULE RangeIndexWrapper --------------------------
(***************************************************************************)
(* One index of an index server: RangeIndexWrapper                         *)
(* (src/vsfs/indexd/index_manager.cpp) with its LogManager                 *)
(* (src/vsfs/common/log_manager.h) and the index they keep.  The RPC       *)
(* threads of the server append updates to a log and merge the log into    *)
(* the index when they search; a background thread writes the log to a     *)
(* file and erases what it believes to be merged and written.              *)
(*                                                                         *)
(* An update is about one record, a key with an object id, and a search    *)
(* asks for every record: which keys a range holds is not this module's    *)
(* concern.  update() and merge() hold the wrapper's lock_, but the        *)
(* background thread does not take it, and neither does the search of the  *)
(* index that follows a merge.                                             *)
(*                                                                         *)
(* Updates are numbered in the order they are appended.  The log is erased *)
(* from its front only, so log_ is what was appended after the first       *)
(* `erased` updates, and a pointer to a record of log_ is its number.      *)
(***************************************************************************)
EXTENDS Integers, Sequences

CONSTANTS
    Thread,             \* RPC threads of the server
    Record,             \* <<key, object id>> pairs
    Ordered,            \* do transaction ids tell requests apart?
    FlushLogSize,       \* --flush_log_size, counted in updates
    Garbage,            \* what uninitialised memory may hold
    MaxRequests         \* bound: requests served

NoThread == "none"

ASSUME WrapperAssumption ==
    /\ NoThread \notin Thread
    /\ Ordered \in BOOLEAN
    /\ FlushLogSize \in Nat \ {0}
    /\ Garbage \subseteq Nat
    /\ MaxRequests \in Nat

Op == {"INSERT", "REMOVE", "bad cast"}
Txn == 0 .. MaxRequests

VARIABLES
    update_immediately, \* --update_immediately
    appended,           \* history: every update that log_ ever held
    erased,             \* how many of them are erased from log_
    log_buffer,         \* the numbers of the updates waiting to be written
    file,               \* the numbers of the updates in the log file
    last_flushed_txn_id,
    last_merged_log_id,
    lock,               \* who holds lock_
    index,              \* the records of the index
    pc, merged, last, txn_id,       \* the search that a thread is in
    flusher,            \* the background thread
    process,            \* "undefined" after a read of an erased record
    requests,           \* requests served
    first_merged,       \* history: last_merged_log_id_ when it was constructed
    truth,              \* history: the records, had updates been applied at once
    seen,               \* history: `truth` since the search of a thread began
    found               \* what the last search of a thread returned

log == <<appended, erased, log_buffer, file, last_flushed_txn_id>>
search_state == <<pc, merged, last, txn_id>>
history == <<truth, seen>>
vars == <<update_immediately, log, last_merged_log_id, lock, index, search_state,
          flusher, process, requests, first_merged, history, found>>

NoAnswer == {"none"}

TypeOK ==
    /\ update_immediately \in BOOLEAN
    /\ appended \in Seq([txn : Txn, op : Op, record : Record])
    /\ erased \in 0 .. Len(appended)
    /\ log_buffer \in Seq(1 .. Len(appended))
    /\ Len(log_buffer) < FlushLogSize
    /\ file \subseteq 1 .. Len(appended)
    /\ last_flushed_txn_id \in Txn
    /\ last_merged_log_id \in Txn \cup Garbage
    /\ lock \in Thread \cup {NoThread}
    /\ index \subseteq Record
    /\ pc \in [Thread -> {"idle", "merging", "reading"}]
    /\ merged \in [Thread -> 0 .. Len(appended)]
    /\ last \in [Thread -> 0 .. Len(appended)]
    /\ txn_id \in [Thread -> Txn]
    /\ flusher \in {"waiting", "erasing"}
    /\ process \in {"running", "undefined"}
    /\ requests \in 0 .. MaxRequests
    /\ first_merged \in Garbage
    /\ truth \subseteq Record
    /\ seen \in [Thread -> SUBSET SUBSET Record]
    /\ found \in [Thread -> {NoAnswer} \cup SUBSET Record]

running == process = "running"

\* The id a request carries: the callers of the RPC client never set it.
RequestTxn == IF Ordered THEN requests + 1 ELSE 0

Serve == requests < MaxRequests /\ requests' = requests + 1

-----------------------------------------------------------------------------
(* IndexImpl *)

\* An update whose key or value cannot be cast is an error.
Applies(u) == u.op # "bad cast"

apply(u, records) ==
    IF u.op = "INSERT" THEN records \cup {u.record} ELSE records \ {u.record}

\* The records as they should be change: searches under way may see it.
Happens(u) ==
    /\ truth' = apply(u, truth)
    /\ seen' = [t \in Thread |->
                  IF pc[t] = "idle" THEN seen[t] ELSE seen[t] \cup {truth'}]

-----------------------------------------------------------------------------
(* LogManager *)

\* The iterator of a loop `it->txn_id() <= limit` over log_ stops after n.
StopsAfter(n, limit) ==
    /\ n \in erased .. Len(appended)
    /\ \A i \in erased + 1 .. n : appended[i].txn <= limit
    /\ n < Len(appended) => appended[n + 1].txn > limit

append(u) ==
    /\ appended' = Append(appended, u)
    /\ UNCHANGED <<erased, log_buffer, file, last_flushed_txn_id>>

\* What flush() skips: nothing, before the first flush.
Skipped(n) ==
    IF last_flushed_txn_id = 0 THEN n = erased ELSE StopsAfter(n, last_flushed_txn_id)

\* How many updates after n flush() copies: until the buffer is full.
Taken(n) ==
    LET room == FlushLogSize - Len(log_buffer)
    IN  IF Len(appended) - n <= room THEN Len(appended) - n ELSE room

\* Mutant: an exactly full buffer is not written yet.
Full_exceeds(buffer) == Len(buffer) > FlushLogSize
Full(buffer) == Len(buffer) >= FlushLogSize

flush ==
    \E n \in erased .. Len(appended) :
        /\ Skipped(n)
        /\ LET buffer == log_buffer \o [i \in 1 .. Taken(n) |-> n + i]
           IN  IF Full(buffer)
               THEN /\ last_flushed_txn_id' = appended[buffer[Len(buffer)]].txn
                    /\ file' = file \cup {buffer[i] : i \in 1 .. Len(buffer)}
                    /\ log_buffer' = <<>>
               ELSE /\ log_buffer' = buffer
                    /\ UNCHANGED <<file, last_flushed_txn_id>>
    /\ UNCHANGED <<appended, erased>>

erase(limit) ==
    /\ \E n \in erased .. Len(appended) : StopsAfter(n, limit) /\ erased' = n
    /\ UNCHANGED <<appended, log_buffer, file, last_flushed_txn_id>>

-----------------------------------------------------------------------------
(* RangeIndexWrapper *)

\* update() answers: the update is acknowledged.
update(u) ==
    /\ running /\ Serve
    /\ IF update_immediately
       THEN /\ index' = IF Applies(u) THEN apply(u, index) ELSE index
            /\ UNCHANGED log
       ELSE /\ lock = NoThread
            /\ append(u)
            /\ UNCHANGED index
    /\ IF Applies(u) THEN Happens(u) ELSE UNCHANGED history
    /\ UNCHANGED <<update_immediately, last_merged_log_id, lock, search_state,
                   flusher, process, first_merged, found>>

\* search() and info() begin: merge() takes lock_ and the pointers to the
\* records to apply.
scan(t) ==
    /\ running /\ Serve
    /\ pc[t] = "idle"
    /\ lock = NoThread
    /\ lock' = t
    /\ pc' = [pc EXCEPT ![t] = "merging"]
    /\ merged' = [merged EXCEPT ![t] = erased]
    /\ \E n \in erased .. Len(appended) :
          StopsAfter(n, RequestTxn) /\ last' = [last EXCEPT ![t] = n]
    /\ txn_id' = [txn_id EXCEPT ![t] = RequestTxn]
    /\ seen' = [seen EXCEPT ![t] = {truth}]
    /\ found' = [found EXCEPT ![t] = NoAnswer]
    /\ UNCHANGED <<update_immediately, log, last_merged_log_id, index, flusher,
                   process, first_merged, truth>>

Idle(t) ==
    /\ pc' = [pc EXCEPT ![t] = "idle"]
    /\ merged' = [merged EXCEPT ![t] = 0]
    /\ last' = [last EXCEPT ![t] = 0]
    /\ txn_id' = [txn_id EXCEPT ![t] = 0]

\* merge() applies the next record.  Its pointer may be dangling by now.
merge_record(t) ==
    /\ running
    /\ pc[t] = "merging" /\ merged[t] < last[t]
    /\ LET n == merged[t] + 1 IN
       \/ /\ n <= erased
          /\ process' = "undefined"
          /\ UNCHANGED <<index, lock, search_state, seen>>
       \/ /\ n > erased /\ Applies(appended[n])
          /\ index' = apply(appended[n], index)
          /\ merged' = [merged EXCEPT ![t] = n]
          /\ UNCHANGED <<process, lock, pc, last, txn_id, seen>>
       \/ /\ n > erased /\ ~Applies(appended[n])
          /\ lock' = NoThread
          /\ Idle(t)
          /\ seen' = [seen EXCEPT ![t] = {}]
          /\ UNCHANGED <<process, index>>
    /\ UNCHANGED <<update_immediately, log, last_merged_log_id, flusher,
                   requests, first_merged, truth, found>>

merge_done(t) ==
    /\ running
    /\ pc[t] = "merging" /\ merged[t] = last[t]
    /\ last_merged_log_id' = txn_id[t]
    /\ lock' = NoThread
    /\ pc' = [pc EXCEPT ![t] = "reading"]
    /\ UNCHANGED <<update_immediately, log, index, merged, last, txn_id, flusher,
                   process, requests, first_merged, history, found>>

\* Without lock_, search() reads the index.
search(t) ==
    /\ running
    /\ pc[t] = "reading"
    /\ found' = [found EXCEPT ![t] = index]
    /\ Idle(t)
    /\ UNCHANGED <<update_immediately, log, last_merged_log_id, lock, index,
                   flusher, process, requests, first_merged, history>>

\* dirty_ is set by the first update and never reset; of an index that was only
\* updated at once there is no log to flush.
dirty == appended # <<>>

\* The background thread looks for dirty indices every 30 seconds, or sooner.
background_flush_thread == running /\ flusher = "waiting" /\ dirty

\* flush_log(), called by the background thread without lock_.
flush_log ==
    /\ background_flush_thread
    /\ flush
    /\ flusher' = "erasing"
    /\ UNCHANGED <<update_immediately, last_merged_log_id, lock, index,
                   search_state, process, requests, first_merged, history, found>>

\* Mutants: what is merged, or what is written, is enough to erase.
EraseLimit_merged == last_merged_log_id
EraseLimit_flushed == last_flushed_txn_id
EraseLimit ==
    IF last_merged_log_id <= last_flushed_txn_id
    THEN last_merged_log_id ELSE last_flushed_txn_id

flush_log_erase ==
    /\ running
    /\ flusher = "erasing"
    /\ erase(EraseLimit)
    /\ flusher' = "waiting"
    /\ UNCHANGED <<update_immediately, last_merged_log_id, lock, index,
                   search_state, process, requests, first_merged, history, found>>

-----------------------------------------------------------------------------
Init ==
    /\ update_immediately \in BOOLEAN
    /\ appended = <<>> /\ erased = 0
    /\ log_buffer = <<>> /\ file = {} /\ last_flushed_txn_id = 0
    /\ first_merged \in Garbage
    /\ last_merged_log_id = first_merged
    /\ lock = NoThread
    /\ index = {} /\ truth = {}
    /\ pc = [t \in Thread |-> "idle"]
    /\ merged = [t \in Thread |-> 0]
    /\ last = [t \in Thread |-> 0]
    /\ txn_id = [t \in Thread |-> 0]
    /\ seen = [t \in Thread |-> {}]
    /\ found = [t \in Thread |-> NoAnswer]
    /\ flusher = "waiting"
    /\ process = "running"
    /\ requests = 0

Next ==
    \/ \E o \in Op, r \in Record : update([txn |-> RequestTxn, op |-> o, record |-> r])
    \/ \E t \in Thread : scan(t) \/ merge_record(t) \/ merge_done(t) \/ search(t)
    \/ flush_log
    \/ flush_log_erase

Spec == Init /\ [][Next]_vars

-----------------------------------------------------------------------------
(* Properties *)

\* With ordered transaction ids an acknowledged update is in the log or in the
\* log file, whatever garbage last_merged_log_id_ starts from: the background
\* thread erases nothing that it has not written, although updates arrive
\* between its two steps.
NothingLost ==
    \A n \in 1 .. Len(appended) : n > erased \/ n \in file

\* Its inductive form: the log is sorted by transaction ids that were given out,
\* and every update up to the last one flushed is in the file.
Sorted ==
    /\ Len(appended) <= requests
    /\ last_flushed_txn_id <= requests
    /\ \A n \in 1 .. Len(appended) : appended[n].txn <= requests
    /\ \A m, n \in 1 .. Len(appended) : m < n => appended[m].txn < appended[n].txn
Written ==
    \A n \in 1 .. Len(appended) : appended[n].txn <= last_flushed_txn_id => n \in file
IInv == TypeOK /\ Sorted /\ Written /\ NothingLost

\* A search answers with the records as they were at some moment after it
\* began: "real-time search".
RealTime ==
    \A t \in Thread : pc[t] = "idle" /\ found[t] # NoAnswer => found[t] \in seen[t]

OnlyInserts == \A n \in 1 .. Len(appended) : appended[n].op # "REMOVE"

\* That holds when updates are applied at once, and otherwise for transaction
\* ids that are ordered, if last_merged_log_id_ happens to be 0 and nothing is
\* removed: merge() applies the whole log again, so a search beside it could
\* see a record removed that was inserted again later.
RealTimeInserts ==
    update_immediately \/ (first_merged = 0 /\ OnlyInserts) => RealTime

\* Its inductive form.  Updates applied at once leave no log, and the index is
\* what it should be.  Otherwise some k of the updates have made the index what
\* it is: they cover what is erased, what the last merge covered and what the
\* threads have merged, and every search that began before them may see them.
Inserted(n) ==
    {appended[i].record : i \in {j \in 1 .. n : appended[j].op = "INSERT"}}
AtOnce == update_immediately => appended = <<>> /\ index = truth
Unanswered == \A t \in Thread : pc[t] # "idle" => truth \in seen[t] /\ found[t] = NoAnswer
Applied(k) ==
    /\ erased <= k
    /\ index = Inserted(k)
    /\ \A n \in 1 .. Len(appended) : appended[n].txn <= last_merged_log_id => n <= k
    /\ \A t \in Thread : /\ pc[t] = "merging" => merged[t] <= k
                         /\ pc[t] = "reading" => last[t] <= k
Logged == ~update_immediately /\ first_merged = 0 /\ OnlyInserts
Merging ==
    Logged =>
        /\ truth = Inserted(Len(appended))
        /\ last_merged_log_id <= requests
        /\ \A t \in Thread : txn_id[t] <= requests
        /\ \A n \in 1 .. Len(appended) : appended[n].txn >= 1
        /\ \E k \in 0 .. Len(appended) : Applied(k)
        /\ \A t \in Thread : pc[t] # "idle" =>
              \A j \in last[t] .. Len(appended) : Inserted(j) \in seen[t]
        /\ \A t \in Thread : pc[t] = "merging" => lock = t /\ last[t] = Len(appended)
SearchInv == IInv /\ AtOnce /\ Unanswered /\ Merging /\ RealTimeInserts

\* "This LogManager is thread-safe": a record that merge() is about to apply
\* has not been erased.
PointersLive == process = "running"
=============================================================================
