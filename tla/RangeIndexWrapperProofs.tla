----------------------- MODULE RangeIndexWrapperProofs -----------------------
(***************************************************************************)
(* Proofs about the log of an index (RangeIndexWrapper.tla), for any       *)
(* number of threads, records and requests and any size of the buffer.     *)
(***************************************************************************)
EXTENDS RangeIndexWrapper, TLAPS

\* Leaves are for Zenon, unless they name SMT.
USE Zenon

Update == [txn : Txn, op : Op, record : Record]
SomeUpdate ==
    \E o \in Op, r \in Record : update([txn |-> RequestTxn, op |-> o, record |-> r])

\* A sequence over a set is one over any larger set.
LEMMA WiderSeq ==
    ASSUME NEW S, NEW T, S \subseteq T, NEW s \in Seq(S)
    PROVE  s \in Seq(T)
<1>1. Len(s) \in Nat /\ s \in [1 .. Len(s) -> S] BY SMT
<1>2. s \in [1 .. Len(s) -> T] BY <1>1
<1>. QED BY SMT, <1>1, <1>2

\* The types hold at first.
LEMMA InitTyped == Init => TypeOK
<1>. SUFFICES ASSUME Init PROVE TypeOK OBVIOUS
<1>1. last_merged_log_id \in Txn \cup Garbage BY DEF Init
<1>2. 0 \in Txn BY SMT, WrapperAssumption DEF Txn
<1>3. Len(log_buffer) < FlushLogSize BY SMT, WrapperAssumption DEF Init
<1>. QED BY SMT, <1>1, <1>2, <1>3, WrapperAssumption DEF Init, TypeOK, NoAnswer

\* Applying an update to records gives records.
LEMMA ApplyTyped ==
    ASSUME NEW u \in Update, NEW R, R \subseteq Record
    PROVE  apply(u, R) \subseteq Record
BY DEF apply, Update

\* An update that happens keeps the types of the histories.
LEMMA HappensTyped ==
    ASSUME TypeOK, NEW u \in Update, Happens(u)
    PROVE  truth' \subseteq Record /\ seen' \in [Thread -> SUBSET SUBSET Record]
<1>1. truth' \subseteq Record BY ApplyTyped DEF Happens, TypeOK
<1>. QED BY SMT, <1>1 DEF Happens, TypeOK

\* What update() is called with: an update with the id of the request.
LEMMA UpdateArgument ==
    ASSUME TypeOK, SomeUpdate
    PROVE  /\ requests \in Nat /\ requests < MaxRequests /\ requests' = requests + 1
           /\ \E u \in Update : u.txn = RequestTxn /\ update(u)
<1>1. PICK o \in Op, r \in Record : update([txn |-> RequestTxn, op |-> o, record |-> r])
  BY DEF SomeUpdate
<1>2. requests \in Nat /\ requests < MaxRequests /\ requests' = requests + 1
  BY SMT, <1>1 DEF update, Serve, TypeOK
<1>3. [txn |-> RequestTxn, op |-> o, record |-> r] \in Update
  BY SMT, <1>2, WrapperAssumption DEF RequestTxn, Txn, Update
<1>. QED BY <1>1, <1>2, <1>3

\* update() keeps the types.
LEMMA UpdateTyped == TypeOK /\ SomeUpdate => TypeOK'
<1>. SUFFICES ASSUME TypeOK, SomeUpdate PROVE TypeOK' OBVIOUS
<1>1. PICK u \in Update : update(u) BY UpdateArgument
<1>2. requests \in Nat /\ requests < MaxRequests /\ requests' = requests + 1
  BY UpdateArgument
<1>4. truth' \subseteq Record /\ seen' \in [Thread -> SUBSET SUBSET Record]
  <2>1. CASE Applies(u) BY <1>1, <2>1, HappensTyped DEF update
  <2>2. CASE ~Applies(u) BY <1>1, <2>2 DEF update, history, TypeOK
  <2>. QED BY <2>1, <2>2
<1>5. index' \subseteq Record
  <2>1. apply(u, index) \subseteq Record BY ApplyTyped DEF TypeOK
  <2>. QED BY <1>1, <2>1 DEF update, TypeOK
<1>6. /\ appended' \in Seq(Update)
      /\ erased' \in 0 .. Len(appended')
      /\ log_buffer' \in Seq(1 .. Len(appended')) /\ Len(log_buffer') < FlushLogSize
      /\ file' \subseteq 1 .. Len(appended')
      /\ 0 .. Len(appended) \subseteq 0 .. Len(appended')
  <2>0. /\ appended \in Seq(Update)
        /\ erased \in 0 .. Len(appended)
        /\ log_buffer \in Seq(1 .. Len(appended)) /\ Len(log_buffer) < FlushLogSize
        /\ file \subseteq 1 .. Len(appended)
    BY DEF TypeOK, Update
  <2>1. CASE UNCHANGED log BY <2>0, <2>1, <1>2 DEF log
  <2>2. CASE append(u)
    <3>1. appended' = Append(appended, u) /\ erased' = erased /\ file' = file
          /\ log_buffer' = log_buffer
      BY <2>2 DEF append
    <3>2. appended' \in Seq(Update) /\ Len(appended') = Len(appended) + 1
      BY SMT, <2>0, <3>1
    <3>3. /\ 1 .. Len(appended) \subseteq 1 .. Len(appended')
          /\ 0 .. Len(appended) \subseteq 0 .. Len(appended')
      BY SMT, <2>0, <3>2
    <3>4. log_buffer \in Seq(1 .. Len(appended'))
      BY <2>0, <3>3, WiderSeq
    <3>. QED BY <2>0, <3>1, <3>2, <3>3, <3>4, <1>2
  <2>. QED BY <1>1, <2>1, <2>2 DEF update
<1>7. /\ merged' \in [Thread -> 0 .. Len(appended')]
      /\ last' \in [Thread -> 0 .. Len(appended')]
  BY <1>1, <1>6 DEF TypeOK, update, search_state
<1>. QED
  BY SMT, <1>1, <1>2, <1>4, <1>5, <1>6, <1>7, WrapperAssumption
  DEF TypeOK, update, append, log, search_state, Update

\* A scan, and every step of a merge, leaves the log alone.
LEMMA ScanTyped ==
    ASSUME TypeOK, NEW t \in Thread, scan(t)
    PROVE  TypeOK'
<1>1. requests \in Nat /\ requests < MaxRequests /\ requests' = requests + 1
  BY SMT DEF scan, Serve, TypeOK
<1>2. RequestTxn \in Txn BY SMT, <1>1, WrapperAssumption DEF RequestTxn, Txn
<1>3. UNCHANGED log BY DEF scan
<1>4. last' \in [Thread -> 0 .. Len(appended)]
  BY SMT DEF scan, TypeOK
<1>5. merged' \in [Thread -> 0 .. Len(appended)]
  BY DEF scan, TypeOK
<1>6. requests' \in 0 .. MaxRequests BY SMT, <1>1, WrapperAssumption
<1>7. /\ pc' \in [Thread -> {"idle", "merging", "reading"}]
      /\ txn_id' \in [Thread -> Txn]
      /\ lock' \in Thread \cup {NoThread}
  BY <1>2 DEF scan, TypeOK
<1>8. /\ seen' \in [Thread -> SUBSET SUBSET Record]
      /\ found' \in [Thread -> {NoAnswer} \cup SUBSET Record]
  BY SMT DEF scan, TypeOK
<1>9. UNCHANGED <<update_immediately, last_merged_log_id, index, flusher,
                  process, first_merged, truth>>
  BY DEF scan
<1>. QED
  BY <1>3, <1>4, <1>5, <1>6, <1>7, <1>8, <1>9 DEF TypeOK, log

\* A thread that becomes idle keeps the types of its variables.
LEMMA IdleTyped ==
    ASSUME TypeOK, NEW t \in Thread, Idle(t)
    PROVE  /\ pc' \in [Thread -> {"idle", "merging", "reading"}]
           /\ merged' \in [Thread -> 0 .. Len(appended)]
           /\ last' \in [Thread -> 0 .. Len(appended)]
           /\ txn_id' \in [Thread -> Txn]
<1>1. 0 \in 0 .. Len(appended) /\ 0 \in Txn BY SMT, WrapperAssumption DEF TypeOK, Txn
<1>. QED BY <1>1 DEF Idle, TypeOK

\* A record that is merged keeps the types.
LEMMA MergeRecordTyped ==
    ASSUME TypeOK, NEW t \in Thread, merge_record(t)
    PROVE  TypeOK'
<1>. DEFINE n == merged[t] + 1
<1>0. UNCHANGED <<update_immediately, log, last_merged_log_id, flusher,
                  requests, first_merged, truth, found>>
  BY DEF merge_record
<1>1. n \in 1 .. Len(appended)
  BY SMT DEF merge_record, TypeOK
<1>2. CASE n <= erased /\ process' = "undefined" /\ UNCHANGED <<index, lock, search_state, seen>>
  BY <1>0, <1>2 DEF TypeOK, log, search_state
<1>3. CASE /\ n > erased
           /\ index' = apply(appended[n], index)
           /\ merged' = [merged EXCEPT ![t] = n]
           /\ UNCHANGED <<process, lock, pc, last, txn_id, seen>>
  <2>0. appended \in Seq(Update) BY DEF TypeOK, Update
  <2>1. appended[n] \in Update BY SMT, <1>1, <2>0
  <2>2. merged' \in [Thread -> 0 .. Len(appended)] BY SMT, <1>1, <1>3 DEF TypeOK
  <2>3. index' \subseteq Record BY <1>3, <2>1, ApplyTyped DEF TypeOK
  <2>. QED BY <1>0, <1>3, <2>2, <2>3 DEF TypeOK, log
<1>4. CASE /\ lock' = NoThread
           /\ Idle(t)
           /\ seen' = [seen EXCEPT ![t] = {}]
           /\ UNCHANGED <<process, index>>
  BY <1>0, <1>4, IdleTyped DEF TypeOK, log
<1>. QED BY <1>2, <1>3, <1>4 DEF merge_record

\* The end of merge() keeps the types.
LEMMA MergeDoneTyped ==
    ASSUME TypeOK, NEW t \in Thread, merge_done(t)
    PROVE  TypeOK'
BY DEF merge_done, TypeOK, log, history

\* The search after a merge() keeps the types.
LEMMA SearchTyped ==
    ASSUME TypeOK, NEW t \in Thread, search(t)
    PROVE  TypeOK'
BY IdleTyped DEF search, TypeOK, log, history

-----------------------------------------------------------------------------
(* flush() *)

\* The buffer that flush() fills holds what it held before and the updates
\* n + 1 .. n + Taken(n), which are in the log.
LEMMA TakenTyped ==
    ASSUME TypeOK, NEW n \in erased .. Len(appended)
    PROVE  /\ Taken(n) \in Nat
           /\ n + Taken(n) <= Len(appended)
           /\ Taken(n) = Len(appended) - n \/ Taken(n) = FlushLogSize - Len(log_buffer)
           /\ Taken(n) <= FlushLogSize - Len(log_buffer)
<1>1. Len(log_buffer) \in Nat /\ Len(appended) \in Nat /\ n \in Nat /\ n <= Len(appended)
  BY SMT DEF TypeOK
<1>2. FlushLogSize \in Nat /\ Len(log_buffer) < FlushLogSize
  BY WrapperAssumption DEF TypeOK
<1>. QED BY SMT, <1>1, <1>2 DEF Taken

Filled(n) == log_buffer \o [i \in 1 .. Taken(n) |-> n + i]

\* What the buffer holds after a flush.
LEMMA FilledTyped ==
    ASSUME TypeOK, NEW n \in erased .. Len(appended)
    PROVE  /\ Filled(n) \in Seq(1 .. Len(appended))
           /\ Len(Filled(n)) = Len(log_buffer) + Taken(n)
           /\ \A i \in 1 .. Taken(n) : Filled(n)[Len(log_buffer) + i] = n + i
<1>. DEFINE new == [i \in 1 .. Taken(n) |-> n + i]
<1>1. Taken(n) \in Nat /\ n + Taken(n) <= Len(appended) BY TakenTyped
<1>2. n \in Nat /\ Len(appended) \in Nat BY SMT DEF TypeOK
<1>3. new \in [1 .. Taken(n) -> 1 .. Len(appended)] BY SMT, <1>1, <1>2
<1>4. new \in Seq(1 .. Len(appended)) /\ Len(new) = Taken(n) BY SMT, <1>1, <1>3
<1>5. log_buffer \in Seq(1 .. Len(appended)) BY DEF TypeOK
<1>. HIDE DEF new
<1>6. /\ log_buffer \o new \in Seq(1 .. Len(appended))
      /\ Len(log_buffer \o new) = Len(log_buffer) + Taken(n)
      /\ \A i \in 1 .. Taken(n) : (log_buffer \o new)[Len(log_buffer) + i] = new[i]
  BY SMT, <1>1, <1>4, <1>5
<1>7. \A i \in 1 .. Taken(n) : new[i] = n + i BY DEF new
<1>. QED BY <1>6, <1>7 DEF Filled, new

\* A buffer that is full got its last update now.
LEMMA FlushCases ==
    ASSUME TypeOK, flush
    PROVE  /\ UNCHANGED <<appended, erased>>
           /\ \E n \in erased .. Len(appended) :
                /\ Skipped(n)
                /\ \/ /\ Taken(n) >= 1
                      /\ last_flushed_txn_id' = appended[n + Taken(n)].txn
                      /\ file' = file \cup {Filled(n)[i] : i \in 1 .. Len(Filled(n))}
                      /\ log_buffer' = <<>>
                   \/ /\ log_buffer' = Filled(n)
                      /\ Len(Filled(n)) < FlushLogSize
                      /\ UNCHANGED <<file, last_flushed_txn_id>>
<1>1. PICK n \in erased .. Len(appended) :
         /\ Skipped(n)
         /\ IF Full(Filled(n))
            THEN /\ last_flushed_txn_id' = appended[Filled(n)[Len(Filled(n))]].txn
                 /\ file' = file \cup {Filled(n)[i] : i \in 1 .. Len(Filled(n))}
                 /\ log_buffer' = <<>>
            ELSE /\ log_buffer' = Filled(n)
                 /\ UNCHANGED <<file, last_flushed_txn_id>>
  BY DEF flush, Filled
<1>2. UNCHANGED <<appended, erased>> BY DEF flush
<1>3. /\ Len(log_buffer) \in Nat /\ FlushLogSize \in Nat /\ Taken(n) \in Nat
      /\ Len(log_buffer) < FlushLogSize
      /\ Len(Filled(n)) = Len(log_buffer) + Taken(n)
  <2>1. Taken(n) \in Nat BY TakenTyped
  <2>2. Len(Filled(n)) = Len(log_buffer) + Taken(n) BY FilledTyped
  <2>3. Len(log_buffer) \in Nat /\ FlushLogSize \in Nat /\ Len(log_buffer) < FlushLogSize
    BY SMT, WrapperAssumption DEF TypeOK
  <2>. QED BY <2>1, <2>2, <2>3
<1>4. CASE Full(Filled(n))
  <2>1. Taken(n) >= 1 BY SMT, <1>3, <1>4 DEF Full
  <2>2. Filled(n)[Len(Filled(n))] = n + Taken(n)
    <3>1. \A i \in 1 .. Taken(n) : Filled(n)[Len(log_buffer) + i] = n + i BY FilledTyped
    <3>2. Taken(n) \in 1 .. Taken(n) BY SMT, <1>3, <2>1
    <3>. QED BY <1>3, <3>1, <3>2
  <2>. QED BY <1>1, <1>2, <1>4, <2>1, <2>2
<1>5. CASE ~Full(Filled(n))
  <2>1. Len(Filled(n)) < FlushLogSize BY SMT, <1>3, <1>5 DEF Full
  <2>. QED BY <1>1, <1>2, <1>5, <2>1
<1>. QED BY <1>4, <1>5

\* flush() keeps the types.
LEMMA FlushLogTyped == TypeOK /\ flush_log => TypeOK'
<1>. SUFFICES ASSUME TypeOK, flush_log PROVE TypeOK' OBVIOUS
<1>0. UNCHANGED <<appended, erased>> BY FlushCases DEF flush_log
<1>1. PICK n \in erased .. Len(appended) :
         \/ /\ Taken(n) >= 1
            /\ last_flushed_txn_id' = appended[n + Taken(n)].txn
            /\ file' = file \cup {Filled(n)[i] : i \in 1 .. Len(Filled(n))}
            /\ log_buffer' = <<>>
         \/ /\ log_buffer' = Filled(n)
            /\ Len(Filled(n)) < FlushLogSize
            /\ UNCHANGED <<file, last_flushed_txn_id>>
  BY FlushCases DEF flush_log
<1>2. Filled(n) \in Seq(1 .. Len(appended)) BY FilledTyped
<1>3. {Filled(n)[i] : i \in 1 .. Len(Filled(n))} \subseteq 1 .. Len(appended) BY SMT, <1>2
<1>4. Taken(n) >= 1 => appended[n + Taken(n)].txn \in Txn
  <2>. SUFFICES ASSUME Taken(n) >= 1 PROVE appended[n + Taken(n)].txn \in Txn OBVIOUS
  <2>0. n \in Nat /\ Len(appended) \in Nat BY SMT DEF TypeOK
  <2>1. n + Taken(n) \in 1 .. Len(appended)
    <3>1. Taken(n) \in Nat /\ n + Taken(n) <= Len(appended) BY TakenTyped
    <3>. QED BY SMT, <2>0, <3>1
  <2>2. appended \in Seq(Update) BY DEF TypeOK, Update
  <2>3. appended[n + Taken(n)] \in Update BY SMT, <2>1, <2>2
  <2>. QED BY <2>3 DEF Update
<1>5. /\ log_buffer' \in Seq(1 .. Len(appended)) /\ Len(log_buffer') < FlushLogSize
      /\ file' \subseteq 1 .. Len(appended)
      /\ last_flushed_txn_id' \in Txn
  <2>0. /\ FlushLogSize \in Nat \ {0} /\ file \subseteq 1 .. Len(appended)
        /\ last_flushed_txn_id \in Txn
    BY WrapperAssumption DEF TypeOK
  <2>1. <<>> \in Seq(1 .. Len(appended)) /\ Len(<<>>) = 0 BY SMT
  <2>2. CASE /\ Taken(n) >= 1
             /\ last_flushed_txn_id' = appended[n + Taken(n)].txn
             /\ file' = file \cup {Filled(n)[i] : i \in 1 .. Len(Filled(n))}
             /\ log_buffer' = <<>>
    <3>1. log_buffer' \in Seq(1 .. Len(appended)) /\ Len(log_buffer') = 0 BY <2>1, <2>2
    <3>2. file' \subseteq 1 .. Len(appended) BY <1>3, <2>0, <2>2
    <3>3. Len(log_buffer') < FlushLogSize BY SMT, <2>0, <3>1
    <3>. QED BY <1>4, <2>2, <3>1, <3>2, <3>3
  <2>3. CASE /\ log_buffer' = Filled(n)
             /\ Len(Filled(n)) < FlushLogSize
             /\ UNCHANGED <<file, last_flushed_txn_id>>
    BY <1>2, <2>0, <2>3
  <2>. QED BY <1>1, <2>2, <2>3
<1>6. UNCHANGED <<update_immediately, last_merged_log_id, lock, index,
                  search_state, process, requests, first_merged, history, found>>
      /\ flusher' = "erasing"
  BY DEF flush_log
<1>. QED BY <1>0, <1>5, <1>6 DEF TypeOK, search_state, history

\* erase() keeps the types.
LEMMA EraseTyped == TypeOK /\ flush_log_erase => TypeOK'
<1>. SUFFICES ASSUME TypeOK, flush_log_erase PROVE TypeOK' OBVIOUS
<1>1. erased' \in 0 .. Len(appended) /\ appended' = appended
  BY SMT DEF flush_log_erase, erase, TypeOK
<1>. QED BY <1>1 DEF flush_log_erase, erase, TypeOK, search_state, history

\* Every step of the server, of its threads and of the background thread keeps
\* the log, the buffer, the file and the index well typed; the buffer never
\* holds FlushLogSize updates between two flushes.
THEOREM TypeCorrect == Spec => []TypeOK
<1>1. Init => TypeOK BY InitTyped
<1>2. TypeOK /\ [Next]_vars => TypeOK'
  <2>. SUFFICES ASSUME TypeOK, [Next]_vars PROVE TypeOK' OBVIOUS
  <2>1. CASE SomeUpdate BY <2>1, UpdateTyped
  <2>2. ASSUME NEW t \in Thread, scan(t) PROVE TypeOK' BY <2>2, ScanTyped
  <2>3. ASSUME NEW t \in Thread, merge_record(t) PROVE TypeOK' BY <2>3, MergeRecordTyped
  <2>4. ASSUME NEW t \in Thread, merge_done(t) PROVE TypeOK' BY <2>4, MergeDoneTyped
  <2>5. ASSUME NEW t \in Thread, search(t) PROVE TypeOK' BY <2>5, SearchTyped
  <2>6. CASE flush_log BY <2>6, FlushLogTyped
  <2>7. CASE flush_log_erase BY <2>7, EraseTyped
  <2>8. CASE UNCHANGED vars
    BY <2>8 DEF vars, log, search_state, history, TypeOK
  <2>. QED
    BY <2>1, <2>2, <2>3, <2>4, <2>5, <2>6, <2>7, <2>8 DEF Next, SomeUpdate
<1>. QED BY <1>1, <1>2, PTL DEF Spec

-----------------------------------------------------------------------------
(* Nothing is lost, for ordered transaction ids *)

\* The invariant holds at first.
LEMMA InitKeeps == Init => IInv
<1>. SUFFICES ASSUME Init PROVE IInv OBVIOUS
<1>1. TypeOK BY InitTyped
<1>2. Len(appended) = 0 /\ requests = 0 /\ last_flushed_txn_id = 0 BY DEF Init
<1>3. Sorted /\ Written /\ NothingLost
  BY SMT, <1>2 DEF Sorted, Written, NothingLost
<1>. QED BY <1>1, <1>3 DEF IInv

\* An update gets an id above every id of the log and of the file.
LEMMA UpdateKeeps ==
    ASSUME Ordered, IInv, SomeUpdate
    PROVE  IInv'
<1>0. TypeOK /\ TypeOK' BY UpdateTyped DEF IInv
<1>1. PICK u \in Update : u.txn = RequestTxn /\ update(u) BY <1>0, UpdateArgument
<1>2. requests \in Nat /\ requests' = requests + 1 BY <1>0, UpdateArgument
<1>3. u.txn = requests + 1 BY <1>1 DEF RequestTxn
<1>4. /\ appended \in Seq(Update) /\ Len(appended) \in Nat /\ erased \in Nat
      /\ erased <= Len(appended) /\ last_flushed_txn_id \in Nat
  BY SMT, <1>0 DEF TypeOK, Update, Txn
<1>5. \A n \in 1 .. Len(appended) : appended[n] \in Update BY SMT, <1>4
<1>6. \A n \in 1 .. Len(appended) : appended[n].txn \in Nat
  BY SMT, <1>5 DEF Update, Txn
<1>7. CASE UNCHANGED log
  <2>1. UNCHANGED <<appended, erased, file, last_flushed_txn_id>> BY <1>7 DEF log
  <2>2. Sorted' BY SMT, <1>2, <1>4, <1>6, <2>1 DEF IInv, Sorted
  <2>3. Written' /\ NothingLost' BY <2>1 DEF IInv, Written, NothingLost
  <2>. QED BY <1>0, <2>2, <2>3 DEF IInv
<1>8. CASE append(u)
  <2>0. appended' = Append(appended, u) /\ UNCHANGED <<erased, file, last_flushed_txn_id>>
    BY <1>8 DEF append
  <2>1. /\ Len(appended') = Len(appended) + 1
        /\ \A n \in 1 .. Len(appended) : appended'[n] = appended[n]
        /\ appended'[Len(appended) + 1] = u
    BY SMT, <1>4, <2>0
  <2>2. Sorted' BY SMT, <1>2, <1>3, <1>4, <1>6, <2>0, <2>1 DEF IInv, Sorted
  <2>3. Written' BY SMT, <1>2, <1>3, <1>4, <2>0, <2>1 DEF IInv, Sorted, Written
  <2>4. NothingLost' BY SMT, <1>4, <2>0, <2>1 DEF IInv, NothingLost
  <2>. QED BY <1>0, <2>2, <2>3, <2>4 DEF IInv
<1>. QED BY <1>1, <1>7, <1>8 DEF update

\* The file gets the update with the last flushed id and all before it.
LEMMA FlushKeeps == IInv /\ flush_log => IInv'
<1>. SUFFICES ASSUME IInv, flush_log PROVE IInv' OBVIOUS
<1>0. TypeOK /\ TypeOK' /\ UNCHANGED requests BY FlushLogTyped DEF IInv, flush_log
<1>1. UNCHANGED <<appended, erased>> BY <1>0, FlushCases DEF flush_log
<1>2. PICK n \in erased .. Len(appended) :
         /\ Skipped(n)
         /\ \/ /\ Taken(n) >= 1
               /\ last_flushed_txn_id' = appended[n + Taken(n)].txn
               /\ file' = file \cup {Filled(n)[i] : i \in 1 .. Len(Filled(n))}
               /\ log_buffer' = <<>>
            \/ /\ log_buffer' = Filled(n)
               /\ Len(Filled(n)) < FlushLogSize
               /\ UNCHANGED <<file, last_flushed_txn_id>>
  BY <1>0, FlushCases DEF flush_log
<1>3. CASE UNCHANGED <<file, last_flushed_txn_id>>
  BY <1>0, <1>1, <1>3 DEF IInv, Sorted, Written, NothingLost
<1>4. CASE /\ Taken(n) >= 1
           /\ last_flushed_txn_id' = appended[n + Taken(n)].txn
           /\ file' = file \cup {Filled(n)[i] : i \in 1 .. Len(Filled(n))}
  <2>. DEFINE b == n + Taken(n)
  <2>1. /\ erased \in Nat /\ n \in Nat /\ Len(appended) \in Nat /\ Taken(n) \in Nat
        /\ b <= Len(appended) /\ Len(log_buffer) \in Nat
    <3>1. Taken(n) \in Nat /\ b <= Len(appended) BY <1>0, TakenTyped
    <3>2. erased \in Nat /\ Len(appended) \in Nat /\ Len(log_buffer) \in Nat
      BY SMT, <1>0 DEF TypeOK
    <3>3. n \in Nat BY SMT, <3>2
    <3>. QED BY <3>1, <3>2, <3>3
  <2>2. b \in 1 .. Len(appended) BY SMT, <1>4, <2>1
  <2>3. \A m \in n + 1 .. b : m \in file'
    <3>. SUFFICES ASSUME NEW m \in n + 1 .. b PROVE m \in file' OBVIOUS
    <3>1. m - n \in 1 .. Taken(n) BY SMT, <2>1
    <3>2. Filled(n)[Len(log_buffer) + (m - n)] = n + (m - n)
      BY <1>0, <3>1, FilledTyped
    <3>3. Len(log_buffer) + (m - n) \in 1 .. Len(Filled(n))
      <4>1. Len(Filled(n)) = Len(log_buffer) + Taken(n) BY <1>0, FilledTyped
      <4>. QED BY SMT, <2>1, <3>1, <4>1
    <3>4. n + (m - n) = m BY SMT, <2>1
    <3>. QED BY <1>4, <3>2, <3>3, <3>4
  <2>4. \A m \in 1 .. n : m \in file
    <3>. SUFFICES ASSUME NEW m \in 1 .. n PROVE m \in file OBVIOUS
    <3>1. m \in 1 .. Len(appended) BY SMT, <2>1
    <3>2. CASE m <= erased BY SMT, <2>1, <3>1, <3>2 DEF IInv, NothingLost
    <3>3. CASE m > erased
      <4>1. m \in erased + 1 .. n BY SMT, <2>1, <3>3
      <4>2. appended[m].txn <= last_flushed_txn_id
        BY SMT, <1>2, <2>1, <4>1 DEF Skipped, StopsAfter
      <4>. QED BY <3>1, <4>2 DEF IInv, Written
    <3>. QED BY SMT, <2>1, <3>2, <3>3
  <2>5. \A m \in 1 .. b : m \in file' BY SMT, <1>4, <2>1, <2>3, <2>4
  <2>6. \A m \in 1 .. Len(appended) : appended[m].txn \in Nat
    <3>1. appended \in Seq(Update) BY <1>0 DEF TypeOK, Update
    <3>2. \A m \in 1 .. Len(appended) : appended[m] \in Update BY SMT, <3>1
    <3>. QED BY SMT, <3>2 DEF Update, Txn
  <2>7. Written'
    <3>. SUFFICES ASSUME NEW m \in 1 .. Len(appended), appended[m].txn <= appended[b].txn
         PROVE  m \in file'
      BY <1>1, <1>4 DEF Written
    <3>1. ~(b < m) BY SMT, <2>2, <2>6 DEF IInv, Sorted
    <3>. QED BY SMT, <2>1, <2>5, <3>1
  <2>8. Sorted' BY <1>0, <1>1, <1>4, <2>2 DEF IInv, Sorted
  <2>9. NothingLost' BY <1>1, <1>4 DEF IInv, NothingLost
  <2>. QED BY <1>0, <2>7, <2>8, <2>9 DEF IInv
<1>. QED BY <1>2, <1>3, <1>4

\* Only updates up to the last flushed id are erased.
LEMMA EraseKeeps == IInv /\ flush_log_erase => IInv'
<1>. SUFFICES ASSUME IInv, flush_log_erase PROVE IInv' OBVIOUS
<1>0. TypeOK /\ TypeOK' BY EraseTyped DEF IInv
<1>1. PICK n \in erased .. Len(appended) : StopsAfter(n, EraseLimit) /\ erased' = n
  BY DEF flush_log_erase, erase
<1>2. UNCHANGED <<appended, file, last_flushed_txn_id, requests>>
  BY DEF flush_log_erase, erase
<1>3. last_flushed_txn_id \in Nat /\ last_merged_log_id \in Nat
  BY SMT, <1>0, WrapperAssumption DEF TypeOK, Txn
<1>4. EraseLimit \in Nat /\ EraseLimit <= last_flushed_txn_id BY SMT, <1>3 DEF EraseLimit
<1>5. \A m \in 1 .. Len(appended) : appended[m].txn \in Nat
  <2>1. appended \in Seq(Update) BY <1>0 DEF TypeOK, Update
  <2>2. \A m \in 1 .. Len(appended) : appended[m] \in Update BY SMT, <2>1
  <2>. QED BY SMT, <2>2 DEF Update, Txn
<1>6. NothingLost'
  <2>. SUFFICES ASSUME NEW m \in 1 .. Len(appended), m <= n PROVE m \in file
    BY SMT, <1>0, <1>1, <1>2 DEF NothingLost, TypeOK
  <2>1. erased \in Nat /\ n \in Nat /\ m \in Nat BY SMT, <1>0 DEF TypeOK
  <2>2. CASE m <= erased BY SMT, <2>1, <2>2 DEF IInv, NothingLost
  <2>3. CASE m > erased
    <3>1. appended[m].txn <= EraseLimit BY SMT, <1>1, <2>1, <2>3 DEF StopsAfter
    <3>2. appended[m].txn <= last_flushed_txn_id BY SMT, <1>3, <1>4, <1>5, <3>1
    <3>. QED BY <3>2 DEF IInv, Written
  <2>. QED BY SMT, <2>1, <2>2, <2>3
<1>7. Sorted' /\ Written' BY <1>2 DEF IInv, Sorted, Written
<1>. QED BY <1>0, <1>6, <1>7 DEF IInv

\* The threads that search change neither the log nor the file.
LEMMA SearchingKeeps ==
    ASSUME IInv, TypeOK', UNCHANGED log,
           requests' = requests \/ requests' = requests + 1
    PROVE  IInv'
<1>1. requests \in Nat /\ requests' \in Nat /\ requests <= requests' BY SMT DEF IInv, TypeOK
<1>2. UNCHANGED <<appended, erased, file, last_flushed_txn_id>> BY DEF log
<1>3. Len(appended) \in Nat /\ last_flushed_txn_id \in Nat BY SMT DEF IInv, TypeOK, Txn
<1>4. \A m \in 1 .. Len(appended) : appended[m].txn \in Nat
  <2>1. appended \in Seq(Update) BY DEF IInv, TypeOK, Update
  <2>2. \A m \in 1 .. Len(appended) : appended[m] \in Update BY SMT, <2>1
  <2>. QED BY SMT, <2>2 DEF Update, Txn
<1>5. Sorted' BY SMT, <1>1, <1>2, <1>3, <1>4 DEF IInv, Sorted
<1>6. Written' /\ NothingLost' BY <1>2 DEF IInv, Written, NothingLost
<1>. QED BY <1>5, <1>6 DEF IInv

\* With ordered transaction ids the log and its file keep the invariant.
THEOREM Inductive ==
    ASSUME Ordered
    PROVE  Spec => []IInv
<1>1. Init => IInv BY InitKeeps
<1>2. IInv /\ [Next]_vars => IInv'
  <2>. SUFFICES ASSUME IInv, [Next]_vars PROVE IInv' OBVIOUS
  <2>0. TypeOK BY DEF IInv
  <2>1. CASE SomeUpdate BY <2>1, UpdateKeeps
  <2>2. ASSUME NEW t \in Thread, scan(t) PROVE IInv'
    BY <2>0, <2>2, ScanTyped, SearchingKeeps DEF scan, Serve
  <2>3. ASSUME NEW t \in Thread, merge_record(t) PROVE IInv'
    BY <2>0, <2>3, MergeRecordTyped, SearchingKeeps DEF merge_record
  <2>4. ASSUME NEW t \in Thread, merge_done(t) PROVE IInv'
    BY <2>0, <2>4, MergeDoneTyped, SearchingKeeps DEF merge_done
  <2>5. ASSUME NEW t \in Thread, search(t) PROVE IInv'
    BY <2>0, <2>5, SearchTyped, SearchingKeeps DEF search
  <2>6. CASE flush_log BY <2>6, FlushKeeps
  <2>7. CASE flush_log_erase BY <2>7, EraseKeeps
  <2>8. CASE UNCHANGED vars
    BY <2>8 DEF vars, log, search_state, history, TypeOK, IInv, Sorted, Written, NothingLost
  <2>. QED
    BY <2>1, <2>2, <2>3, <2>4, <2>5, <2>6, <2>7, <2>8 DEF Next, SomeUpdate
<1>. QED BY <1>1, <1>2, PTL DEF Spec

\* With ordered transaction ids the background thread erases no update that it
\* has not written to the log file.
THEOREM UpdatesSurvive ==
    ASSUME Ordered
    PROVE  Spec => []NothingLost
<1>1. IInv => NothingLost BY DEF IInv
<1>. QED BY <1>1, Inductive, PTL

-----------------------------------------------------------------------------
(* Searches see the index as it was, if nothing is removed *)

\* One more update makes at most one more record.
LEMMA InsertedNext ==
    ASSUME TypeOK, NEW n \in Nat, n < Len(appended)
    PROVE  Inserted(n + 1) = IF appended[n + 1].op = "INSERT"
                             THEN Inserted(n) \cup {appended[n + 1].record}
                             ELSE Inserted(n)
<1>1. {j \in 1 .. n + 1 : appended[j].op = "INSERT"} =
        IF appended[n + 1].op = "INSERT"
        THEN {j \in 1 .. n : appended[j].op = "INSERT"} \cup {n + 1}
        ELSE {j \in 1 .. n : appended[j].op = "INSERT"}
  BY SMT
<1>. QED BY SMT, <1>1 DEF Inserted

\* What is inserted by n updates contains what is inserted by fewer.
LEMMA InsertedHolds ==
    ASSUME TypeOK, NEW k \in Nat, NEW n \in 1 .. k, appended[n].op = "INSERT"
    PROVE  Inserted(k) \cup {appended[n].record} = Inserted(k)
BY DEF Inserted

\* The log grows at its end: what the updates before inserted stays.
LEMMA InsertedAppend ==
    ASSUME TypeOK, NEW u \in Update, append(u)
    PROVE  /\ Len(appended') = Len(appended) + 1
           /\ \A n \in 1 .. Len(appended) : appended'[n] = appended[n]
           /\ appended'[Len(appended) + 1] = u
           /\ \A n \in 0 .. Len(appended) : Inserted(n)' = Inserted(n)
           /\ Inserted(Len(appended))' =
                IF u.op = "INSERT" THEN Inserted(Len(appended)) \cup {u.record}
                                   ELSE Inserted(Len(appended))
<1>0. appended \in Seq(Update) /\ appended' = Append(appended, u)
  BY DEF TypeOK, append, Update
<1>1. /\ Len(appended') = Len(appended) + 1 /\ Len(appended) \in Nat
      /\ \A n \in 1 .. Len(appended) : appended'[n] = appended[n]
      /\ appended'[Len(appended) + 1] = u
  BY SMT, <1>0
<1>2. ASSUME NEW n \in 0 .. Len(appended)
      PROVE  Inserted(n)' = Inserted(n)
  <2>1. \A j \in 1 .. n : appended'[j] = appended[j] BY SMT, <1>1
  <2>2. {j \in 1 .. n : appended'[j].op = "INSERT"} = {j \in 1 .. n : appended[j].op = "INSERT"}
    BY <2>1
  <2>. QED BY <2>1, <2>2 DEF Inserted
<1>3. Inserted(Len(appended))' =
        IF u.op = "INSERT" THEN Inserted(Len(appended)) \cup {u.record}
                           ELSE Inserted(Len(appended))
  <2>. DEFINE n == Len(appended)
              old == {j \in 1 .. n : appended[j].op = "INSERT"}
              new == {j \in 1 .. n + 1 : appended'[j].op = "INSERT"}
  <2>1. new = IF u.op = "INSERT" THEN old \cup {n + 1} ELSE old BY SMT, <1>1
  <2>2. n + 1 \notin 1 .. n BY SMT, <1>1
  <2>3. \A j \in old : appended'[j] = appended[j] BY <1>1
  <2>4. {appended'[j].record : j \in old} = {appended[j].record : j \in old} BY <2>3
  <2>5. Inserted(n)' = {appended'[j].record : j \in new} BY <1>1 DEF Inserted
  <2>6. Inserted(n) = {appended[j].record : j \in old} BY DEF Inserted
  <2>. HIDE DEF old, new
  <2>7. CASE u.op = "INSERT"
    <3>1. {appended'[j].record : j \in old \cup {n + 1}} =
            {appended'[j].record : j \in old} \cup {appended'[n + 1].record}
      OBVIOUS
    <3>. QED BY <1>1, <2>1, <2>4, <2>5, <2>6, <2>7, <3>1
  <2>8. CASE u.op # "INSERT" BY <2>1, <2>4, <2>5, <2>6, <2>8
  <2>. QED BY <2>7, <2>8
<1>. QED BY <1>1, <1>2, <1>3

\* What a prefix of the log inserts depends on the log only.
LEMMA InsertedSame ==
    ASSUME UNCHANGED appended, NEW n
    PROVE  Inserted(n)' = Inserted(n)
BY DEF Inserted

\* What is applied stays so while nobody merges.
LEMMA AppliedSame ==
    ASSUME NEW k, Applied(k),
           UNCHANGED <<appended, erased, index, last_merged_log_id>>,
           \A u \in Thread : pc'[u] # "idle" =>
               pc'[u] = pc[u] /\ merged'[u] = merged[u] /\ last'[u] = last[u]
    PROVE  Applied(k)'
<1>1. index' = Inserted(k)' BY InsertedSame DEF Applied
<1>. QED BY <1>1 DEF Applied

\* The invariant of searches holds at first.
LEMMA InitSees == Init => SearchInv
<1>. SUFFICES ASSUME Init PROVE SearchInv OBVIOUS
<1>1. IInv BY InitKeeps
<1>2. /\ appended = <<>> /\ Len(appended) = 0 /\ erased = 0
      /\ index = {} /\ truth = {} /\ last_merged_log_id = first_merged
      /\ requests = 0
      /\ \A t \in Thread : pc[t] = "idle" /\ found[t] = NoAnswer /\ txn_id[t] = 0
  BY DEF Init
<1>3. Inserted(0) = {} BY SMT DEF Inserted
<1>4. AtOnce /\ Unanswered /\ RealTimeInserts
  BY <1>2 DEF AtOnce, Unanswered, RealTimeInserts, RealTime
<1>5. Merging
  <2>. SUFFICES ASSUME first_merged = 0 PROVE Merging BY DEF Merging, Logged
  <2>1. Applied(0) BY SMT, <1>2, <1>3 DEF Applied
  <2>. QED BY SMT, <1>2, <1>3, <2>1 DEF Merging
<1>. QED BY <1>1, <1>4, <1>5 DEF SearchInv

\* What the log holds, in the types that arithmetic needs.
LEMMA LogTyped ==
    ASSUME TypeOK
    PROVE  /\ Len(appended) \in Nat /\ erased \in Nat /\ erased <= Len(appended)
           /\ requests \in Nat /\ last_merged_log_id \in Nat /\ last_flushed_txn_id \in Nat
           /\ appended \in Seq(Update)
           /\ \A n \in 1 .. Len(appended) : appended[n] \in Update /\ appended[n].txn \in Nat
           /\ \A t \in Thread : last[t] \in Nat /\ merged[t] \in Nat /\ txn_id[t] \in Nat
                                /\ last[t] <= Len(appended)
<1>1. /\ appended \in Seq(Update) /\ requests \in 0 .. MaxRequests /\ MaxRequests \in Nat
      /\ erased \in 0 .. Len(appended) /\ last_flushed_txn_id \in Txn
      /\ last_merged_log_id \in Txn \cup Garbage
      /\ \A t \in Thread : last[t] \in 0 .. Len(appended) /\ merged[t] \in 0 .. Len(appended)
                           /\ txn_id[t] \in Txn
  BY WrapperAssumption DEF TypeOK, Update
<1>2. Txn \subseteq Nat /\ Garbage \subseteq Nat BY SMT, WrapperAssumption DEF Txn
<1>3. Len(appended) \in Nat /\ \A n \in 1 .. Len(appended) : appended[n] \in Update
  BY SMT, <1>1
<1>4. \A n \in 1 .. Len(appended) : appended[n].txn \in Nat BY <1>2, <1>3 DEF Update
<1>5. /\ \A i \in 0 .. Len(appended) : i \in Nat /\ i <= Len(appended)
      /\ 0 .. MaxRequests \subseteq Nat
  BY SMT, <1>1, <1>3
<1>. QED BY <1>1, <1>2, <1>3, <1>4, <1>5

\* An update applied at once.
LEMMA AtOnceSees ==
    ASSUME SearchInv, NEW u \in Update, update(u), update_immediately
    PROVE  AtOnce' /\ Unanswered' /\ Merging' /\ RealTimeInserts'
<1>1. UNCHANGED <<update_immediately, pc, found, appended>>
  BY DEF update, search_state, log
<1>2. index = truth /\ appended = <<>> BY DEF SearchInv, AtOnce
<1>3. seen \in [Thread -> SUBSET SUBSET Record] BY DEF SearchInv, IInv, TypeOK
<1>4. index' = truth'
  <2>1. CASE Applies(u) BY <1>2, <2>1 DEF update, Happens
  <2>2. CASE ~Applies(u) BY <1>2, <2>2 DEF update, history
  <2>. QED BY <2>1, <2>2
<1>5. \A t \in Thread : IF pc[t] = "idle" THEN seen'[t] = seen[t]
                                          ELSE truth' \in seen'[t]
  <2>1. CASE Applies(u) BY <2>1 DEF update, Happens
  <2>2. CASE ~Applies(u) BY <2>2 DEF update, history, SearchInv, Unanswered
  <2>. QED BY <2>1, <2>2
<1>6. RealTime' BY <1>1, <1>5 DEF SearchInv, RealTimeInserts, RealTime
<1>. QED
  BY <1>1, <1>2, <1>4, <1>5, <1>6
  DEF AtOnce, Unanswered, Merging, Logged, RealTimeInserts, SearchInv

\* An update appended to the log: no merge is under way, since lock_ is free.
LEMMA AppendSees ==
    ASSUME Ordered, SearchInv, NEW u \in Update, u.txn = RequestTxn, update(u),
           ~update_immediately
    PROVE  AtOnce' /\ Unanswered' /\ Merging' /\ RealTimeInserts'
<1>0. TypeOK BY DEF SearchInv, IInv
<1>1. /\ UNCHANGED <<update_immediately, first_merged, pc, merged, last, txn_id, found,
                     erased, index, last_merged_log_id, lock>>
      /\ append(u) /\ lock = NoThread /\ requests' = requests + 1
  BY DEF update, search_state, append, Serve
<1>2. /\ Len(appended') = Len(appended) + 1
      /\ \A n \in 1 .. Len(appended) : appended'[n] = appended[n]
      /\ appended'[Len(appended) + 1] = u
  BY <1>0, <1>1, InsertedAppend
<1>3. \A n \in 0 .. Len(appended) : Inserted(n)' = Inserted(n)
  BY <1>0, <1>1, InsertedAppend
<1>4. Inserted(Len(appended))' =
        IF u.op = "INSERT" THEN Inserted(Len(appended)) \cup {u.record}
                           ELSE Inserted(Len(appended))
  BY <1>0, <1>1, InsertedAppend
<1>5. /\ Len(appended) \in Nat /\ requests \in Nat /\ last_merged_log_id \in Nat
      /\ \A t \in Thread : last[t] \in Nat /\ txn_id[t] \in Nat
      /\ \A n \in 1 .. Len(appended) : appended[n].txn \in Nat
  BY <1>0, LogTyped
<1>6. seen \in [Thread -> SUBSET SUBSET Record] BY <1>0 DEF TypeOK
<1>7. \A t \in Thread : IF pc[t] = "idle" THEN seen'[t] = seen[t]
                        ELSE seen[t] \subseteq seen'[t] /\ truth' \in seen'[t]
  <2>1. CASE Applies(u) BY <2>1 DEF update, Happens
  <2>2. CASE ~Applies(u) BY <2>2 DEF update, history, SearchInv, Unanswered
  <2>. QED BY <2>1, <2>2
<1>8. OnlyInserts' => OnlyInserts /\ u.op # "REMOVE"
  <2>1. \A n \in 1 .. Len(appended) : n \in 1 .. Len(appended) + 1 BY SMT, <1>5
  <2>2. Len(appended) + 1 \in 1 .. Len(appended) + 1 BY SMT, <1>5
  <2>. QED BY <1>2, <2>1, <2>2 DEF OnlyInserts
<1>9. RealTimeInserts'
  BY <1>1, <1>7, <1>8 DEF SearchInv, RealTimeInserts, RealTime
<1>10. AtOnce' /\ Unanswered' BY <1>1, <1>7 DEF AtOnce, Unanswered, SearchInv
<1>11. ASSUME Logged' PROVE Merging'
  <2>0. Logged /\ u.op # "REMOVE" BY <1>1, <1>8, <1>11 DEF Logged
  <2>1. truth' = Inserted(Len(appended))'
    <3>1. truth = Inserted(Len(appended)) BY <2>0 DEF SearchInv, Merging
    <3>2. u.op \in Op BY DEF Update
    <3>3. CASE u.op = "INSERT"
      BY <1>4, <3>1, <3>3 DEF update, Happens, Applies, apply
    <3>4. CASE u.op = "bad cast"
      BY <1>4, <3>1, <3>4 DEF update, Happens, Applies, history
    <3>. QED BY <2>0, <3>2, <3>3, <3>4 DEF Op
  <2>2. u.txn = requests + 1 BY DEF RequestTxn
  <2>3. \A n \in 1 .. Len(appended) + 1 : n \in 1 .. Len(appended) \/ n = Len(appended) + 1
    BY SMT, <1>5
  <2>4. \A n \in 1 .. Len(appended') : appended'[n].txn >= 1
    <3>1. \A n \in 1 .. Len(appended) : appended[n].txn >= 1
      BY <2>0 DEF SearchInv, Merging
    <3>2. u.txn >= 1 BY SMT, <1>5, <2>2
    <3>. QED BY <1>2, <2>3, <3>1, <3>2
  <2>5. last_merged_log_id' <= requests' /\ \A t \in Thread : txn_id'[t] <= requests'
    BY SMT, <1>1, <1>5, <2>0 DEF SearchInv, Merging
  <2>6. \E k \in 0 .. Len(appended') : Applied(k)'
    <3>1. PICK k \in 0 .. Len(appended) : Applied(k) BY <2>0 DEF SearchInv, Merging
    <3>2. k \in 0 .. Len(appended') BY SMT, <1>2, <1>5
    <3>3. \A n \in 1 .. Len(appended') : appended'[n].txn <= last_merged_log_id => n <= k
      <4>1. ~(u.txn <= last_merged_log_id)
        BY SMT, <1>5, <2>0, <2>2 DEF SearchInv, Merging
      <4>2. \A n \in 1 .. Len(appended) : appended[n].txn <= last_merged_log_id => n <= k
        BY <3>1 DEF Applied
      <4>. QED BY <1>2, <2>3, <4>1, <4>2
    <3>. QED BY <1>1, <1>3, <3>1, <3>2, <3>3 DEF Applied
  <2>7. ASSUME NEW t \in Thread, pc'[t] # "idle", NEW j \in last'[t] .. Len(appended')
        PROVE  Inserted(j)' \in seen'[t]
    <3>1. (j \in last[t] .. Len(appended) /\ j \in 0 .. Len(appended)) \/ j = Len(appended')
      BY SMT, <1>1, <1>2, <1>5, <2>7
    <3>2. CASE j = Len(appended') BY <1>1, <1>7, <2>1, <2>7, <3>2 DEF Inserted
    <3>3. CASE j \in last[t] .. Len(appended) /\ j \in 0 .. Len(appended)
      <4>1. Inserted(j) \in seen[t] BY <1>1, <2>0, <2>7, <3>3 DEF SearchInv, Merging
      <4>. QED BY <1>1, <1>3, <1>7, <2>7, <3>3, <4>1
    <3>. QED BY <3>1, <3>2, <3>3
  <2>8. \A t \in Thread : pc'[t] # "merging"
    BY <1>1, <2>0, WrapperAssumption DEF SearchInv, Merging
  <2>. QED BY <2>1, <2>4, <2>5, <2>6, <2>7, <2>8 DEF Merging
<1>. QED BY <1>9, <1>10, <1>11 DEF Merging

\* A search begins: it will apply the whole log, whose ids are below its own.
LEMMA ScanSees ==
    ASSUME Ordered, SearchInv, NEW t \in Thread, scan(t)
    PROVE  AtOnce' /\ Unanswered' /\ Merging' /\ RealTimeInserts'
<1>0. TypeOK /\ Sorted BY DEF SearchInv, IInv
<1>1. /\ UNCHANGED <<update_immediately, first_merged, appended, erased, index, truth,
                     last_merged_log_id>>
      /\ lock = NoThread /\ lock' = t /\ requests' = requests + 1
      /\ pc[t] = "idle" /\ pc' = [pc EXCEPT ![t] = "merging"]
      /\ merged' = [merged EXCEPT ![t] = erased]
      /\ txn_id' = [txn_id EXCEPT ![t] = RequestTxn]
      /\ seen' = [seen EXCEPT ![t] = {truth}]
      /\ found' = [found EXCEPT ![t] = NoAnswer]
  BY DEF scan, log, Serve
<1>2. /\ DOMAIN pc = Thread /\ DOMAIN merged = Thread /\ DOMAIN last = Thread
      /\ DOMAIN txn_id = Thread /\ DOMAIN seen = Thread /\ DOMAIN found = Thread
  BY <1>0 DEF TypeOK
<1>3. /\ Len(appended) \in Nat /\ requests \in Nat /\ last_merged_log_id \in Nat
      /\ \A u \in Thread : txn_id[u] \in Nat
      /\ \A n \in 1 .. Len(appended) : appended[n].txn \in Nat
  BY <1>0, LogTyped
<1>4. RequestTxn = requests + 1 BY DEF RequestTxn
<1>5. last' = [last EXCEPT ![t] = Len(appended)]
  <2>1. PICK n \in erased .. Len(appended) :
           StopsAfter(n, RequestTxn) /\ last' = [last EXCEPT ![t] = n]
    BY DEF scan
  <2>2. erased \in Nat BY <1>0, LogTyped
  <2>3. n \in Nat /\ n <= Len(appended) BY SMT, <1>3, <2>2
  <2>4. n < Len(appended) => n + 1 \in 1 .. Len(appended) BY SMT, <1>3, <2>3
  <2>5. \A m \in 1 .. Len(appended) : ~(appended[m].txn > RequestTxn)
    <3>1. \A m \in 1 .. Len(appended) : appended[m].txn <= requests BY <1>0 DEF Sorted
    <3>. QED BY SMT, <1>3, <1>4, <3>1
  <2>6. ~(n < Len(appended)) BY <2>1, <2>4, <2>5 DEF StopsAfter
  <2>7. n = Len(appended) BY SMT, <1>3, <2>3, <2>6
  <2>. QED BY <2>1, <2>7
<1>6. \A u \in Thread : IF u = t THEN /\ pc'[u] = "merging" /\ merged'[u] = erased
                                      /\ last'[u] = Len(appended) /\ seen'[u] = {truth}
                                      /\ found'[u] = NoAnswer /\ txn_id'[u] = requests + 1
                                 ELSE /\ pc'[u] = pc[u] /\ merged'[u] = merged[u]
                                      /\ last'[u] = last[u] /\ seen'[u] = seen[u]
                                      /\ found'[u] = found[u] /\ txn_id'[u] = txn_id[u]
  BY <1>1, <1>2, <1>4, <1>5
<1>7. AtOnce' /\ Unanswered' BY <1>1, <1>6 DEF AtOnce, Unanswered, SearchInv
<1>8. RealTimeInserts'
  BY <1>1, <1>6 DEF SearchInv, RealTimeInserts, RealTime, OnlyInserts
<1>9. ASSUME Logged' PROVE Merging'
  <2>0. Logged BY <1>1, <1>9 DEF Logged, OnlyInserts
  <2>1. truth' = Inserted(Len(appended))' BY <1>1, <2>0 DEF SearchInv, Merging, Inserted
  <2>2. last_merged_log_id' <= requests' /\ \A u \in Thread : txn_id'[u] <= requests'
    <3>1. last_merged_log_id <= requests /\ \A u \in Thread : txn_id[u] <= requests
      BY <2>0 DEF SearchInv, Merging
    <3>. QED BY SMT, <1>1, <1>3, <1>6, <3>1
  <2>3. \A n \in 1 .. Len(appended') : appended'[n].txn >= 1
    BY <1>1, <2>0 DEF SearchInv, Merging
  <2>4. \A u \in Thread : pc[u] # "merging"
    BY <1>1, <2>0, WrapperAssumption DEF SearchInv, Merging
  <2>5. \E k \in 0 .. Len(appended') : Applied(k)'
    <3>1. PICK k \in 0 .. Len(appended) : Applied(k) BY <2>0 DEF SearchInv, Merging
    <3>2. index' = Inserted(k)' BY <1>1, <3>1, InsertedSame DEF Applied
    <3>3. erased <= k BY <3>1 DEF Applied
    <3>4. \A u \in Thread : /\ pc'[u] = "merging" => merged'[u] <= k
                            /\ pc'[u] = "reading" => last'[u] <= k
      BY <1>6, <2>4, <3>1, <3>3 DEF Applied
    <3>. QED BY <1>1, <3>1, <3>2, <3>3, <3>4 DEF Applied
  <2>6. ASSUME NEW u \in Thread, pc'[u] # "idle", NEW j \in last'[u] .. Len(appended')
        PROVE  Inserted(j)' \in seen'[u]
    <3>1. Inserted(j)' = Inserted(j) BY <1>1, InsertedSame
    <3>2. CASE u # t
      <4>1. pc[u] # "idle" /\ j \in last[u] .. Len(appended) BY <1>1, <1>6, <2>6, <3>2
      <4>2. Inserted(j) \in seen[u] BY <2>0, <4>1 DEF SearchInv, Merging
      <4>. QED BY <1>6, <3>1, <3>2, <4>2
    <3>3. CASE u = t
      <4>1. j \in Len(appended) .. Len(appended) BY <1>1, <1>6, <2>6, <3>3
      <4>2. j = Len(appended) BY SMT, <1>3, <4>1
      <4>3. Inserted(j) = truth BY <2>0, <4>2 DEF SearchInv, Merging
      <4>. QED BY <1>6, <3>1, <3>3, <4>3
    <3>. QED BY <3>2, <3>3
  <2>7. \A u \in Thread : pc'[u] = "merging" => lock' = u /\ last'[u] = Len(appended')
    BY <1>1, <1>6, <2>4
  <2>. QED BY <2>1, <2>2, <2>3, <2>5, <2>6, <2>7 DEF Merging
<1>. QED BY <1>7, <1>8, <1>9 DEF Merging

\* The steps that leave the log, the records and the histories alone.
LEMMA QuietSees ==
    ASSUME SearchInv,
           UNCHANGED <<update_immediately, first_merged, appended, truth, seen, found,
                       requests, pc, txn_id, last, last_merged_log_id, lock>>,
           AtOnce',
           Logged => \E k \in 0 .. Len(appended) : Applied(k)'
    PROVE  AtOnce' /\ Unanswered' /\ Merging' /\ RealTimeInserts'
<1>1. Unanswered' BY DEF SearchInv, Unanswered
<1>2. RealTimeInserts' BY DEF SearchInv, RealTimeInserts, RealTime, OnlyInserts
<1>3. ASSUME Logged' PROVE Merging'
  <2>0. Logged BY <1>3 DEF Logged, OnlyInserts
  <2>1. \A n : Inserted(n)' = Inserted(n) BY InsertedSame
  <2>2. /\ truth = Inserted(Len(appended)) /\ Inserted(Len(appended))' = Inserted(Len(appended))
        /\ last_merged_log_id <= requests
        /\ \A t \in Thread : txn_id[t] <= requests
        /\ \A n \in 1 .. Len(appended) : appended[n].txn >= 1
    BY <2>0 DEF SearchInv, Merging, Inserted
  <2>3. /\ \A t \in Thread : pc[t] # "idle" =>
              \A j \in last[t] .. Len(appended) : Inserted(j)' \in seen[t]
        /\ \A t \in Thread : pc[t] = "merging" => lock = t /\ last[t] = Len(appended)
    BY <2>0, <2>1 DEF SearchInv, Merging
  <2>. QED BY <2>0, <2>2, <2>3 DEF Merging
<1>. QED BY <1>1, <1>2, <1>3 DEF Merging

\* merge() applies a record again, or the first one that the index lacks.
LEMMA MergeRecordSees ==
    ASSUME SearchInv, NEW t \in Thread, merge_record(t)
    PROVE  AtOnce' /\ Unanswered' /\ Merging' /\ RealTimeInserts'
<1>. DEFINE n == merged[t] + 1
<1>0. TypeOK BY DEF SearchInv, IInv
<1>1. UNCHANGED <<update_immediately, appended, erased, last_merged_log_id,
                  requests, first_merged, truth, found>>
      /\ pc[t] = "merging" /\ merged[t] < last[t]
  BY DEF merge_record, log
<1>2. /\ Len(appended) \in Nat /\ merged[t] \in Nat /\ last[t] \in Nat
      /\ last[t] <= Len(appended) /\ erased \in Nat
      /\ \A u \in Thread : merged[u] \in Nat /\ last[u] \in Nat
  BY <1>0, LogTyped
<1>3. n \in 1 .. Len(appended) /\ n \in Nat /\ merged[t] < Len(appended)
  BY SMT, <1>1, <1>2
<1>4. ~update_immediately
  <2>1. appended # <<>> BY SMT, <1>3
  <2>. QED BY <2>1 DEF SearchInv, AtOnce
<1>5. AtOnce' BY <1>1, <1>4 DEF AtOnce
<1>6. CASE process' = "undefined" /\ UNCHANGED <<index, lock, search_state, seen>>
  <2>1. UNCHANGED <<index, lock, seen, pc, merged, last, txn_id>> BY <1>6 DEF search_state
  <2>2. Logged => \E k \in 0 .. Len(appended) : Applied(k)'
    BY <1>1, <2>1, AppliedSame DEF SearchInv, Merging
  <2>. QED BY <1>1, <1>5, <2>1, <2>2, QuietSees
<1>7. CASE /\ Applies(appended[n])
           /\ index' = apply(appended[n], index)
           /\ merged' = [merged EXCEPT ![t] = n]
           /\ UNCHANGED <<process, lock, pc, last, txn_id, seen>>
  <2>1. ASSUME Logged PROVE \E k \in 0 .. Len(appended) : Applied(k)'
    <3>1. PICK k \in 0 .. Len(appended) : Applied(k) BY <2>1 DEF SearchInv, Merging
    <3>2. appended[n].op = "INSERT"
      <4>1. appended[n].op \in Op BY <1>0, <1>3, LogTyped DEF Update
      <4>. QED BY <1>3, <1>7, <2>1, <4>1 DEF Logged, OnlyInserts, Applies, Op
    <3>3. index' = Inserted(k) \cup {appended[n].record} BY <1>7, <3>1, <3>2 DEF apply, Applied
    <3>4. k \in Nat /\ merged[t] <= k BY SMT, <1>1, <1>2, <3>1 DEF Applied
    <3>5. \A u \in Thread : merged'[u] = IF u = t THEN n ELSE merged[u]
      BY <1>0, <1>7 DEF TypeOK
    <3>6. ASSUME NEW m \in 0 .. Len(appended), k <= m, n <= m, index' = Inserted(m)
          PROVE  Applied(m)'
      <4>1. index' = Inserted(m)' BY <1>1, <3>6 DEF Inserted
      <4>2. erased' <= m BY SMT, <1>1, <1>2, <3>1, <3>4, <3>6 DEF Applied
      <4>3. \A i \in 1 .. Len(appended') :
               appended'[i].txn <= last_merged_log_id' => i <= m
        <5>1. \A i \in 1 .. Len(appended) : appended[i].txn <= last_merged_log_id => i <= k
          BY <3>1 DEF Applied
        <5>2. \A i \in 1 .. Len(appended) : i <= k => i <= m BY SMT, <1>2, <3>4, <3>6
        <5>. QED BY <1>1, <5>1, <5>2
      <4>4. \A u \in Thread : /\ pc[u] = "merging" => merged[u] <= k
                              /\ pc[u] = "reading" => last[u] <= k
        BY <3>1 DEF Applied
      <4>5. \A i \in Nat : i <= k => i <= m BY SMT, <3>4, <3>6
      <4>6. \A u \in Thread : /\ pc'[u] = "merging" => merged'[u] <= m
                              /\ pc'[u] = "reading" => last'[u] <= m
        BY <1>2, <1>7, <3>5, <3>6, <4>4, <4>5
      <4>. QED BY <4>1, <4>2, <4>3, <4>6 DEF Applied
    <3>7. CASE n <= k
      <4>1. n \in 1 .. k BY SMT, <1>2, <3>4, <3>7
      <4>2. index' = Inserted(k) BY <1>0, <3>2, <3>3, <3>4, <4>1, InsertedHolds
      <4>3. k <= k BY SMT, <3>4
      <4>. QED BY <3>1, <3>6, <3>7, <4>2, <4>3
    <3>8. CASE ~(n <= k)
      <4>1. n = k + 1 /\ k < Len(appended) /\ k <= n /\ n <= n BY SMT, <1>2, <1>3, <3>4, <3>8
      <4>2. Inserted(k + 1) = Inserted(k) \cup {appended[k + 1].record}
        BY <1>0, <3>2, <3>4, <4>1, InsertedNext
      <4>3. index' = Inserted(n) BY <3>3, <4>1, <4>2
      <4>4. n \in 0 .. Len(appended) BY SMT, <1>3
      <4>. QED BY <3>6, <4>1, <4>3, <4>4
    <3>. QED BY <3>7, <3>8
  <2>. QED BY <1>1, <1>5, <1>7, <2>1, QuietSees
<1>8. CASE /\ lock' = NoThread
           /\ Idle(t)
           /\ seen' = [seen EXCEPT ![t] = {}]
           /\ UNCHANGED <<process, index>>
  <2>1. \A u \in Thread : IF u = t THEN pc'[u] = "idle" /\ txn_id'[u] = 0
                                   ELSE /\ pc'[u] = pc[u] /\ merged'[u] = merged[u]
                                        /\ last'[u] = last[u] /\ seen'[u] = seen[u]
                                        /\ txn_id'[u] = txn_id[u]
    BY <1>0, <1>8 DEF Idle, TypeOK
  <2>2. Unanswered' BY <1>1, <2>1 DEF SearchInv, Unanswered
  <2>3. found[t] = NoAnswer BY <1>1 DEF SearchInv, Unanswered
  <2>4. RealTimeInserts'
    BY <1>1, <2>1, <2>3 DEF SearchInv, RealTimeInserts, RealTime, OnlyInserts
  <2>5. ASSUME Logged' PROVE Merging'
    <3>0. Logged BY <1>1, <2>5 DEF Logged, OnlyInserts
    <3>1. \A u \in Thread : u # t => pc[u] # "merging"
      BY <1>1, <3>0 DEF SearchInv, Merging
    <3>2. \E k \in 0 .. Len(appended') : Applied(k)'
      <4>1. PICK k \in 0 .. Len(appended) : Applied(k) BY <3>0 DEF SearchInv, Merging
      <4>2. Applied(k)' BY <1>1, <1>8, <2>1, <4>1, AppliedSame
      <4>. QED BY <1>1, <4>2
    <3>3. last_merged_log_id' <= requests' /\ \A u \in Thread : txn_id'[u] <= requests'
      <4>1. requests \in Nat BY <1>0, LogTyped
      <4>2. 0 <= requests BY SMT, <4>1
      <4>. QED BY <1>1, <2>1, <3>0, <4>2 DEF SearchInv, Merging
    <3>4. /\ truth' = Inserted(Len(appended))'
          /\ \A i \in 1 .. Len(appended') : appended'[i].txn >= 1
      BY <1>1, <3>0 DEF SearchInv, Merging, Inserted
    <3>5. \A u \in Thread : pc'[u] # "idle" =>
             \A j \in last'[u] .. Len(appended') : Inserted(j)' \in seen'[u]
      <4>1. \A j : Inserted(j)' = Inserted(j) BY <1>1, InsertedSame
      <4>2. \A u \in Thread : pc[u] # "idle" =>
               \A j \in last[u] .. Len(appended) : Inserted(j) \in seen[u]
        BY <3>0 DEF SearchInv, Merging
      <4>. QED BY <1>1, <2>1, <4>1, <4>2
    <3>6. \A u \in Thread : pc'[u] # "merging" BY <2>1, <3>1
    <3>. QED BY <3>2, <3>3, <3>4, <3>5, <3>6 DEF Merging
  <2>. QED BY <1>5, <2>2, <2>4, <2>5 DEF Merging
<1>. QED BY <1>6, <1>7, <1>8 DEF merge_record

\* A merge that is done has applied the whole log, since no update was appended
\* while it held lock_: the index is what it should be.
LEMMA MergeDoneSees ==
    ASSUME SearchInv, NEW t \in Thread, merge_done(t)
    PROVE  AtOnce' /\ Unanswered' /\ Merging' /\ RealTimeInserts'
<1>0. TypeOK BY DEF SearchInv, IInv
<1>1. /\ UNCHANGED <<update_immediately, first_merged, appended, erased, index, truth, seen,
                     merged, last, txn_id, requests, found>>
      /\ pc[t] = "merging" /\ merged[t] = last[t]
      /\ last_merged_log_id' = txn_id[t]
      /\ lock' = NoThread
  BY DEF merge_done, log, history
<1>2. \A u \in Thread : pc'[u] = IF u = t THEN "reading" ELSE pc[u]
  BY <1>0 DEF merge_done, TypeOK
<1>3. AtOnce' /\ Unanswered' BY <1>1, <1>2 DEF AtOnce, Unanswered, SearchInv
<1>4. RealTimeInserts'
  BY <1>1, <1>2 DEF SearchInv, RealTimeInserts, RealTime, OnlyInserts
<1>5. ASSUME Logged' PROVE Merging'
  <2>0. Logged BY <1>1, <1>5 DEF Logged, OnlyInserts
  <2>1. /\ last[t] = Len(appended) /\ lock = t
        /\ \A u \in Thread : u # t => pc[u] # "merging"
    BY <1>1, <2>0 DEF SearchInv, Merging
  <2>2. PICK k \in 0 .. Len(appended) : Applied(k) BY <2>0 DEF SearchInv, Merging
  <2>3. k = Len(appended)
    <3>1. Len(appended) <= k BY <1>1, <2>1, <2>2 DEF Applied
    <3>2. Len(appended) \in Nat BY <1>0, LogTyped
    <3>. QED BY SMT, <3>1, <3>2
  <2>4. Applied(k)'
    <3>1. index' = Inserted(k)' BY <1>1, <2>2, InsertedSame DEF Applied
    <3>2. \A n \in 1 .. Len(appended) : n <= k BY SMT, <2>3
    <3>3. Len(appended) <= Len(appended)
      <4>1. Len(appended) \in Nat BY <1>0, LogTyped
      <4>. QED BY SMT, <4>1
    <3>4. \A u \in Thread : /\ pc'[u] = "merging" => merged'[u] <= k
                            /\ pc'[u] = "reading" => last'[u] <= k
      BY <1>1, <1>2, <2>1, <2>2, <2>3, <3>3 DEF Applied
    <3>5. erased' <= k BY <1>1, <2>2 DEF Applied
    <3>. QED BY <1>1, <3>1, <3>2, <3>4, <3>5 DEF Applied
  <2>5. \A j : Inserted(j)' = Inserted(j) BY <1>1, InsertedSame
  <2>6. /\ truth' = Inserted(Len(appended))'
        /\ last_merged_log_id' <= requests' /\ \A u \in Thread : txn_id'[u] <= requests'
        /\ \A n \in 1 .. Len(appended') : appended'[n].txn >= 1
    BY <1>1, <2>0 DEF SearchInv, Merging, Inserted
  <2>7. \A u \in Thread : pc[u] # "idle" =>
           \A j \in last[u] .. Len(appended) : Inserted(j) \in seen[u]
    BY <2>0 DEF SearchInv, Merging
  <2>8. \A u \in Thread : pc'[u] # "idle" =>
           \A j \in last'[u] .. Len(appended') : Inserted(j)' \in seen'[u]
    BY <1>1, <1>2, <2>5, <2>7
  <2>9. \A u \in Thread : pc'[u] # "merging" BY <1>2, <2>1
  <2>. QED BY <1>1, <2>2, <2>4, <2>6, <2>8, <2>9 DEF Merging
<1>. QED BY <1>3, <1>4, <1>5 DEF Merging

\* The index that search() reads beside other merges is what a prefix of the
\* log made, and that prefix is as long as the log was when it began.
LEMMA SearchSees ==
    ASSUME SearchInv, NEW t \in Thread, search(t)
    PROVE  AtOnce' /\ Unanswered' /\ Merging' /\ RealTimeInserts'
<1>0. TypeOK BY DEF SearchInv, IInv
<1>1. /\ UNCHANGED <<update_immediately, first_merged, appended, erased, index, truth, seen,
                     requests, lock, last_merged_log_id>>
      /\ pc[t] = "reading" /\ found' = [found EXCEPT ![t] = index]
  BY DEF search, log, history
<1>2. \A u \in Thread : IF u = t THEN pc'[u] = "idle" /\ txn_id'[u] = 0 /\ found'[u] = index
                                 ELSE /\ pc'[u] = pc[u] /\ merged'[u] = merged[u]
                                      /\ last'[u] = last[u] /\ found'[u] = found[u]
                                      /\ txn_id'[u] = txn_id[u]
  BY <1>0 DEF search, Idle, TypeOK
<1>3. AtOnce' /\ Unanswered' BY <1>1, <1>2 DEF AtOnce, Unanswered, SearchInv
<1>4. RealTimeInserts'
  <2>. SUFFICES ASSUME (update_immediately \/ (first_merged = 0 /\ OnlyInserts))' PROVE RealTime'
    BY DEF RealTimeInserts
  <2>0. update_immediately \/ (first_merged = 0 /\ OnlyInserts)
    BY <1>1 DEF OnlyInserts
  <2>1. index \in seen[t]
    <3>1. CASE update_immediately BY <1>1, <3>1 DEF SearchInv, AtOnce, Unanswered
    <3>2. CASE ~update_immediately
      <4>0. Logged BY <2>0, <3>2 DEF Logged
      <4>1. PICK k \in 0 .. Len(appended) : Applied(k) BY <4>0 DEF SearchInv, Merging
      <4>2. last[t] <= k /\ index = Inserted(k) BY <1>1, <4>1 DEF Applied
      <4>3. k \in last[t] .. Len(appended)
        <5>1. last[t] \in Nat /\ Len(appended) \in Nat BY <1>0, LogTyped
        <5>. QED BY SMT, <4>2, <5>1
      <4>. QED BY <1>1, <4>0, <4>2, <4>3 DEF SearchInv, Merging
    <3>. QED BY <3>1, <3>2
  <2>2. RealTime BY <2>0 DEF SearchInv, RealTimeInserts
  <2>. QED BY <1>1, <1>2, <2>1, <2>2 DEF RealTime
<1>5. ASSUME Logged' PROVE Merging'
  <2>0. Logged BY <1>1, <1>5 DEF Logged, OnlyInserts
  <2>1. PICK k \in 0 .. Len(appended) : Applied(k) BY <2>0 DEF SearchInv, Merging
  <2>2. Applied(k)' BY <1>1, <1>2, <2>1, AppliedSame
  <2>3. \A j : Inserted(j)' = Inserted(j) BY <1>1, InsertedSame
  <2>4. requests \in Nat BY <1>0, LogTyped
  <2>5. 0 <= requests BY SMT, <2>4
  <2>6. /\ truth' = Inserted(Len(appended))'
        /\ last_merged_log_id' <= requests' /\ \A u \in Thread : txn_id'[u] <= requests'
        /\ \A n \in 1 .. Len(appended') : appended'[n].txn >= 1
    BY <1>1, <1>2, <2>0, <2>5 DEF SearchInv, Merging, Inserted
  <2>7. \A u \in Thread : pc[u] # "idle" =>
           \A j \in last[u] .. Len(appended) : Inserted(j) \in seen[u]
    BY <2>0 DEF SearchInv, Merging
  <2>8. \A u \in Thread : pc'[u] # "idle" =>
           \A j \in last'[u] .. Len(appended') : Inserted(j)' \in seen'[u]
    BY <1>1, <1>2, <2>3, <2>7
  <2>9. \A u \in Thread : pc'[u] = "merging" => lock' = u /\ last'[u] = Len(appended')
    BY <1>1, <1>2, <2>0 DEF SearchInv, Merging
  <2>. QED BY <1>1, <2>2, <2>6, <2>8, <2>9 DEF Merging
<1>. QED BY <1>3, <1>4, <1>5 DEF Merging

\* The background thread erases only what the last merge covered.
LEMMA BackgroundSees ==
    ASSUME SearchInv, flush_log \/ flush_log_erase
    PROVE  AtOnce' /\ Unanswered' /\ Merging' /\ RealTimeInserts'
<1>0. TypeOK BY DEF SearchInv, IInv
<1>1. UNCHANGED <<update_immediately, first_merged, appended, truth, seen, found, index,
                  requests, pc, txn_id, merged, last, last_merged_log_id, lock>>
  BY <1>0, FlushCases DEF flush_log, flush_log_erase, erase, search_state, history
<1>2. AtOnce' BY <1>1 DEF SearchInv, AtOnce
<1>3. ASSUME Logged, NEW k \in 0 .. Len(appended), Applied(k)
      PROVE  Applied(k)'
  <2>1. CASE flush_log
    <3>1. UNCHANGED erased BY <1>0, <2>1, FlushCases DEF flush_log
    <3>. QED BY <1>1, <1>3, <3>1, AppliedSame
  <2>2. CASE flush_log_erase
    <3>1. PICK n \in erased .. Len(appended) : StopsAfter(n, EraseLimit) /\ erased' = n
      BY <2>2 DEF flush_log_erase, erase
    <3>2. /\ erased \in Nat /\ Len(appended) \in Nat /\ last_merged_log_id \in Nat
          /\ last_flushed_txn_id \in Nat
          /\ \A m \in 1 .. Len(appended) : appended[m].txn \in Nat
      BY <1>0, LogTyped
    <3>3. n <= k
      <4>1. CASE n = erased BY <1>3, <4>1 DEF Applied
      <4>2. CASE n # erased
        <5>1. n \in erased + 1 .. n /\ n \in 1 .. Len(appended) BY SMT, <3>2, <4>2
        <5>2. appended[n].txn <= EraseLimit BY <3>1, <5>1 DEF StopsAfter
        <5>3. appended[n].txn <= last_merged_log_id
          BY SMT, <3>2, <5>1, <5>2 DEF EraseLimit
        <5>. QED BY <1>3, <5>1, <5>3 DEF Applied
      <4>. QED BY <4>1, <4>2
    <3>4. index' = Inserted(k)' BY <1>1, <1>3, InsertedSame DEF Applied
    <3>. QED BY <1>1, <1>3, <3>1, <3>3, <3>4 DEF Applied
  <2>. QED BY <2>1, <2>2
<1>4. Logged => \E k \in 0 .. Len(appended) : Applied(k)'
  BY <1>3 DEF SearchInv, Merging
<1>. QED BY <1>1, <1>2, <1>4, QuietSees

\* With ordered transaction ids the records of the index are those that some
\* prefix of the log inserts, and a search may see what that prefix made.
THEOREM SearchInductive ==
    ASSUME Ordered
    PROVE  Spec => []SearchInv
<1>1. Init => SearchInv BY InitSees
<1>2. IInv /\ IInv' /\ SearchInv /\ [Next]_vars => SearchInv'
  <2>. SUFFICES ASSUME IInv, IInv', SearchInv, [Next]_vars
       PROVE AtOnce' /\ Unanswered' /\ Merging' /\ RealTimeInserts'
    BY DEF SearchInv
  <2>0. TypeOK BY DEF IInv
  <2>1. CASE SomeUpdate
    <3>1. PICK u \in Update : u.txn = RequestTxn /\ update(u) BY <2>0, <2>1, UpdateArgument
    <3>. QED BY <3>1, AtOnceSees, AppendSees
  <2>2. ASSUME NEW t \in Thread, scan(t)
        PROVE AtOnce' /\ Unanswered' /\ Merging' /\ RealTimeInserts'
    BY <2>2, ScanSees
  <2>3. ASSUME NEW t \in Thread, merge_record(t)
        PROVE AtOnce' /\ Unanswered' /\ Merging' /\ RealTimeInserts'
    BY <2>3, MergeRecordSees
  <2>4. ASSUME NEW t \in Thread, merge_done(t)
        PROVE AtOnce' /\ Unanswered' /\ Merging' /\ RealTimeInserts'
    BY <2>4, MergeDoneSees
  <2>5. ASSUME NEW t \in Thread, search(t)
        PROVE AtOnce' /\ Unanswered' /\ Merging' /\ RealTimeInserts'
    BY <2>5, SearchSees
  <2>6. CASE flush_log \/ flush_log_erase BY <2>6, BackgroundSees
  <2>7. CASE UNCHANGED vars
    <3>1. UNCHANGED <<update_immediately, first_merged, appended, erased, truth, seen, found,
                      index, requests, pc, txn_id, merged, last, last_merged_log_id, lock>>
      BY <2>7 DEF vars, log, search_state, history
    <3>2. AtOnce' BY <3>1 DEF SearchInv, AtOnce
    <3>3. Logged => \E k \in 0 .. Len(appended) : Applied(k)'
      BY <3>1, AppliedSame DEF SearchInv, Merging
    <3>. QED BY <3>1, <3>2, <3>3, QuietSees
  <2>. QED BY <2>1, <2>2, <2>3, <2>4, <2>5, <2>6, <2>7 DEF Next, SomeUpdate
<1>. QED BY <1>1, <1>2, Inductive, PTL DEF Spec

\* A search answers with the records as they were at some moment after it began,
\* although other threads merge while it reads the index: when updates are
\* applied at once, and with ordered transaction ids if last_merged_log_id_
\* starts from 0 and nothing is removed.
THEOREM InsertsInRealTime ==
    ASSUME Ordered
    PROVE  Spec => []RealTimeInserts
<1>1. SearchInv => RealTimeInserts BY DEF SearchInv
<1>. QED BY <1>1, SearchInductive, PTL
=============================================================================
