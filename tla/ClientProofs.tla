---------------------------- MODULE ClientProofs -----------------------------
(* Proofs about Client, for any number of clients and any tree of paths.    *)
EXTENDS Client, TLAPS

\* Leaves are for Zenon, unless they name SMT.
USE Zenon

\* What the masters may do in one call.
LEMMA RequestType ==
    ASSUME TypeOK, NEW c \in Client, Request(c) \/ UNCHANGED tree,
           path[c] \in Child
    PROVE  Tree!TypeOK'
<1> USE DEF Tree!TypeOK, Tree!Kind, Tree!Reply, Tree!Op, Tree!Status, Tree!Child,
            Child
<1>0. path[c] \in Path
  BY DEF TypeOK
<1>1. CASE Tree!Create(path[c])
  BY SMT, <1>0, <1>1 DEF TypeOK, Tree!Create, Tree!SetRecord, Tree!Answer
<1>2. CASE Tree!Mkdir(path[c])
  BY SMT, <1>0, <1>2 DEF TypeOK, Tree!Mkdir, Tree!SetRecord, Tree!Answer
<1>3. CASE Tree!Remove(path[c])
  BY SMT, <1>0, <1>3 DEF TypeOK, Tree!Remove, Tree!SetRecord, Tree!Answer
<1>4. CASE Tree!Rmdir(path[c])
  BY SMT, <1>0, <1>4 DEF TypeOK, Tree!Rmdir, Tree!SetRecord, Tree!Answer
<1>5. CASE Tree!AddSubfile(path[c])
  BY SMT, <1>0, <1>5 DEF TypeOK, Tree!AddSubfile, Tree!Answer
<1>6. CASE Tree!RemoveSubfile(path[c])
  BY SMT, <1>0, <1>6 DEF TypeOK, Tree!RemoveSubfile, Tree!Answer
<1>7. CASE UNCHANGED tree
  BY <1>7 DEF TypeOK, tree
<1> QED BY <1>1, <1>2, <1>3, <1>4, <1>5, <1>6, <1>7 DEF Request

\* Whatever the outcome of a call, the masters stay well typed.
LEMMA OutcomeType ==
    ASSUME TypeOK, NEW c \in Client, pc[c] # "idle",
           Acked(c) \/ Refused(c) \/ Broken(c)
    PROVE  Tree!TypeOK'
<1>1. op[c] \in Ops /\ path[c] \in Child
  BY DEF TypeOK
<1>2. CASE Request(c) \/ UNCHANGED tree
  BY <1>1, <1>2, RequestType
<1>3. CASE Tree!StoreFails(Call(c), path[c])
  <2>1. Call(c) \in Tree!Op
    BY <1>1, EnvironmentAssumption DEF TypeOK, Call, Tree!Op
  <2> QED
    BY <1>1, <1>3, <2>1
    DEF TypeOK, Tree!StoreFails, Tree!Answer, Tree!TypeOK, Tree!Reply, Tree!Status,
        Child
<1> QED BY <1>2, <1>3 DEF Acked, Refused, Broken

\* What the client does next keeps its own variables well typed.
LEMMA ProgressType ==
    ASSUME TypeOK, NEW c \in Client, pc[c] # "idle", Tree!TypeOK',
           \/ \E s \in {"OK", "error", "died"} : Return(c, s)
           \/ \E call \in {"entry", "record", "rollback"} : Enter(c, call)
           \/ TryAgain(c)
           \/ KeepTrying(c)
    PROVE  TypeOK'
<1> USE DEF kNumBackOffs
<1>1. CASE \E s \in {"OK", "error", "died"} : Return(c, s)
  BY SMT, <1>1, TreeAssumption DEF TypeOK, Return
<1>2. CASE \E call \in {"entry", "record", "rollback"} : Enter(c, call)
  BY SMT, <1>2 DEF TypeOK, Enter
<1>3. CASE TryAgain(c)
  <2>1. backoff[c] - 1 \in 1 .. kNumBackOffs
    BY SMT, <1>3 DEF TypeOK, TryAgain, NoTriesLeft
  <2> QED BY <1>3, <2>1 DEF TypeOK, TryAgain
<1>4. CASE KeepTrying(c)
  BY <1>4 DEF TypeOK, KeepTrying
<1> QED BY <1>1, <1>2, <1>3, <1>4

\* Every interleaving of the clients, with every fault, keeps the types.
THEOREM TypeCorrect == Spec => []TypeOK
<1>1. Init => TypeOK
  BY SMT, TreeAssumption, EnvironmentAssumption
  DEF Init, TypeOK, Tree!TypeOK, Tree!Kind, Tree!Reply, kNumBackOffs
<1>2. TypeOK /\ [Next]_vars => TypeOK'
  <2> SUFFICES ASSUME TypeOK, [Next]_vars
               PROVE  TypeOK'
    OBVIOUS
  <2>1. ASSUME NEW c \in Client, NEW o \in Ops, NEW p \in Child, Start(c, o, p)
        PROVE  TypeOK'
    <3>1. Tree!TypeOK'
      BY <2>1 DEF Start, tree, TypeOK, Tree!TypeOK
    <3>2. o \in {"create", "mkdir", "unlink", "rmdir"} /\ p \in Path
      BY EnvironmentAssumption DEF Child
    <3> QED
      BY SMT, <2>1, <3>1, <3>2 DEF Start, TypeOK, FirstCall, kNumBackOffs
  <2>2. ASSUME NEW c \in Client, Step(c)
        PROVE  TypeOK'
    <3>1. CASE create(c)
      BY <3>1, OutcomeType, ProgressType DEF create
    <3>2. CASE mkdir(c) \/ rmdir(c) \/ unlink(c)
      BY <3>2, OutcomeType, ProgressType DEF mkdir, rmdir, unlink
    <3>3. CASE add_subfile(c)
      BY <3>3, OutcomeType, ProgressType DEF add_subfile
    <3>4. CASE remove_subfile(c)
      BY <3>4, OutcomeType, ProgressType DEF remove_subfile
    <3>5. CASE rollback(c)
      BY <3>5, OutcomeType, ProgressType DEF rollback
    <3> QED BY <2>2, <3>1, <3>2, <3>3, <3>4, <3>5 DEF Step
  <2>3. ASSUME NEW c \in Client, Die(c)
        PROVE  TypeOK'
    <3>1. Tree!TypeOK'
      BY <2>3 DEF Die, tree, TypeOK, Tree!TypeOK
    <3> QED BY <2>3, <3>1, ProgressType DEF Die
  <2>4. CASE UNCHANGED vars
    BY <2>4 DEF vars, tree, progress, TypeOK, Tree!TypeOK
  <2> QED BY <2>1, <2>2, <2>3, <2>4 DEF Next
<1>3. QED BY <1>1, <1>2, PTL DEF Spec

-----------------------------------------------------------------------------
(* The inductive invariant *)

\* The operations change the state of the client they run in and of no other.
OthersWait(c) == \A d \in Client \ {c} :
    /\ op'[d] = op[d] /\ path'[d] = path[d]
    /\ pc'[d] = pc[d] /\ failed'[d] = failed[d]

\* A step of one client leaves the progress of the others alone.
LEMMA OneClientMoves ==
    ASSUME TypeOK, NEW c \in Client,
           \/ \E s : Return(c, s)
           \/ \E call : Enter(c, call)
           \/ TryAgain(c)
           \/ KeepTrying(c)
    PROVE  OthersWait(c)
BY DEF TypeOK, OthersWait, Return, Enter, TryAgain, KeepTrying

\* The state the client itself is in afterwards.
LEMMA ReturnIdle ==
    ASSUME TypeOK, NEW c \in Client, NEW s, Return(c, s)
    PROVE  pc'[c] = "idle"
BY DEF TypeOK, Return

\* What a client holds when it goes on to its next call.
LEMMA EnterState ==
    ASSUME TypeOK, NEW c \in Client, NEW call, Enter(c, call)
    PROVE  /\ pc'[c] = call /\ op'[c] = op[c] /\ path'[c] = path[c]
           /\ ~failed'[c]
BY DEF TypeOK, Enter

\* A call that is tried again is the same call.
LEMMA RetryState ==
    ASSUME TypeOK, NEW c \in Client, TryAgain(c) \/ KeepTrying(c)
    PROVE  /\ pc'[c] = pc[c] /\ op'[c] = op[c] /\ path'[c] = path[c]
BY DEF TypeOK, TryAgain, KeepTrying

\* A call that changed nothing, after which its client holds nothing.
LEMMA NothingDone ==
    ASSUME TypeOK, IInv, NEW c \in Client, OthersWait(c),
           UNCHANGED <<records, entries>>,
           \/ pc'[c] = "idle"
           \/ /\ pc'[c] = "record" /\ op'[c] # "unlink"
              /\ records[Parent[path'[c]]] = "dir"
           \/ /\ pc'[c] = "entry" /\ op'[c] \notin {"create", "mkdir"}
              /\ records[Parent[path'[c]]] = "dir"
    PROVE  IInv'
<1>1. \A p : ~Holds(c, p)'
  BY DEF Holds
<1>2. \A d \in Client \ {c}, p \in Path : Holds(d, p)' <=> Holds(d, p)
  BY DEF Holds, OthersWait
<1>3. OneHolder'
  BY <1>1, <1>2 DEF IInv, OneHolder
<1>4. NoDanglingEntry'
  BY DEF IInv, NoDanglingEntry
<1>5. NeverRolledBack' /\ ParentsStay' /\ FirstTry'
  BY SMT DEF IInv, NeverRolledBack, ParentsStay, FirstTry, OthersWait
<1> QED BY <1>3, <1>4, <1>5 DEF IInv

\* A call that changed the record or the entry of a path that no other client
\* holds.
LEMMA DoneAlone ==
    ASSUME TypeOK, IInv, NEW c \in Client, OthersWait(c), NEW p \in Child,
           \A d \in Client \ {c} : ~Holds(d, p),
           \A q \in Path \ {p} : records'[q] = records[q],
           \A q \in Path \ {p} : q \in entries' <=> q \in entries,
           entries' \subseteq Path,
           records[p] = "dir" => records'[p] = "dir",
           p \in entries' => records'[p] # "absent",
           pc'[c] # "idle" => path'[c] = p /\ records[Parent[p]] = "dir",
           pc'[c] # "rollback",
           pc'[c] = "entry" => ~failed'[c],
           pc'[c] # "idle" => p \notin entries' /\ records'[p] # "absent"
    PROVE  IInv'
<1>0. p \in Path
  BY DEF Child
<1>1. \A d \in Client \ {c}, q \in Path : Holds(d, q)' <=> Holds(d, q)
  BY DEF Holds, OthersWait
<1>2. \A q \in Path : Holds(c, q)' => q = p /\ pc'[c] # "idle"
  BY DEF Holds
<1>3. OneHolder'
  <2> SUFFICES ASSUME NEW d \in Client, NEW q \in Path, Holds(d, q)'
               PROVE  /\ records'[q] # "absent"
                      /\ q \notin entries'
                      /\ \A e \in Client : Holds(e, q)' => e = d
    BY DEF OneHolder
  <2>1. CASE d = c
    BY <2>1, <1>0, <1>1, <1>2
  <2>2. CASE d # c
    <3>1. Holds(d, q) /\ q # p
      BY <2>2, <1>1
    <3>2. records[q] # "absent" /\ q \notin entries
      BY <3>1 DEF IInv, OneHolder
    <3>3. \A e \in Client : Holds(e, q) => e = d
      BY <3>1 DEF IInv, OneHolder
    <3> QED BY <3>1, <3>2, <3>3, <1>1, <1>2
  <2> QED BY <2>1, <2>2
<1>4. NoDanglingEntry'
  BY DEF IInv, NoDanglingEntry
<1>5. ParentsStay'
  <2> SUFFICES ASSUME NEW d \in Client, pc'[d] # "idle"
               PROVE  records'[Parent[path'[d]]] = "dir"
    BY DEF ParentsStay
  <2>1. \A q \in Path : records[q] = "dir" => records'[q] = "dir"
    OBVIOUS
  <2>2. CASE d = c
    <3>1. Parent[p] \in Path
      BY TreeAssumption
    <3> QED BY <2>1, <2>2, <3>1
  <2>3. CASE d # c
    <3>1. pc[d] # "idle" /\ path'[d] = path[d]
      BY <2>3 DEF OthersWait
    <3>2. records[Parent[path[d]]] = "dir"
      BY <3>1 DEF IInv, ParentsStay
    <3>3. Parent[path[d]] \in Path
      BY <3>1, TreeAssumption DEF TypeOK
    <3> QED BY <2>1, <3>1, <3>2, <3>3
  <2> QED BY <2>2, <2>3
<1>6. NeverRolledBack' /\ FirstTry'
  BY SMT DEF IInv, NeverRolledBack, FirstTry, OthersWait
<1> QED BY <1>3, <1>4, <1>5, <1>6 DEF IInv

\* Where nothing is lost, a call is the one its client is at, and it is refused
\* only by the masters.
LEMMA Reliable ==
    ASSUME Undisturbed, NEW c \in Client
    PROVE  /\ ~Broken(c)
           /\ Refused(c) => Request(c) /\ reply'.status # "OK"
BY DEF Undisturbed, Broken, Refused

\* The effect of a call that makes a record.
LEMMA RecordMade ==
    ASSUME TypeOK, NEW p \in Path, Tree!Create(p) \/ Tree!Mkdir(p)
    PROVE  /\ entries' = entries
           /\ reply'.status = "OK" =>
                 /\ records[p] = "absent" /\ records'[p] # "absent"
                 /\ \A q \in Path \ {p} : records'[q] = records[q]
           /\ reply'.status # "OK" => records' = records
BY SMT DEF TypeOK, Tree!TypeOK, Tree!Create, Tree!Mkdir, Tree!SetRecord, Tree!Answer

\* One call of an operation.
LEMMA StepKeeps ==
    ASSUME Undisturbed, TypeOK, IInv, NEW c \in Client, Step(c)
    PROVE  IInv'
<1> DEFINE p == path[c]
<1>0. /\ pc[c] # "idle"
      /\ p \in Child /\ p \in Path
      /\ op[c] \in {"create", "mkdir", "unlink"}
      /\ records[Parent[p]] = "dir"
  <2>1. pc[c] # "idle"
    BY DEF Step, create, mkdir, rmdir, unlink, add_subfile, remove_subfile, rollback
  <2>2. p \in Child /\ op[c] \in Ops
    BY <2>1 DEF TypeOK
  <2> QED BY <2>1, <2>2 DEF Undisturbed, Child, IInv, ParentsStay
<1>1. CASE create(c) \/ mkdir(c)
  <2>1. Request(c) => Tree!Create(p) \/ Tree!Mkdir(p)
    BY <1>1 DEF create, mkdir, Request, Call
  <2>2. CASE Acked(c)
    <3>1. /\ entries' = entries
          /\ records[p] = "absent" /\ records'[p] # "absent"
          /\ \A q \in Path \ {p} : records'[q] = records[q]
      BY <1>0, <2>1, <2>2, RecordMade DEF Acked
    <3>2. p \notin entries /\ \A d \in Client : ~Holds(d, p)
      BY <1>0, <3>1 DEF IInv, NoDanglingEntry, OneHolder
    <3>3. Return(c, "error") \/ Enter(c, "entry")
      BY <1>1, <2>2, Reliable DEF create, mkdir, Acked
    <3>4. OthersWait(c)
      BY <3>3, OneClientMoves
    <3>5. \/ pc'[c] = "idle"
          \/ pc'[c] = "entry" /\ path'[c] = p /\ ~failed'[c]
      BY <3>3, ReturnIdle, EnterState
    <3>6. entries' \subseteq Path
      BY <3>1 DEF TypeOK, Tree!TypeOK, Tree!Child
    <3> QED BY <1>0, <3>1, <3>2, <3>4, <3>5, <3>6, DoneAlone
  <2>3. CASE Refused(c)
    <3>1. UNCHANGED <<records, entries>>
      BY <1>0, <2>1, <2>3, Reliable, RecordMade
    <3>2. \/ Return(c, "error")
          \/ TryAgain(c) /\ pc[c] = "record" /\ op[c] = "create"
      BY <1>1, <2>3, Reliable DEF create, mkdir, Acked
    <3>3. OthersWait(c)
      BY <3>2, OneClientMoves
    <3>4. \/ pc'[c] = "idle"
          \/ pc'[c] = "record" /\ op'[c] = "create" /\ path'[c] = p
      BY <3>2, ReturnIdle, RetryState
    <3> QED BY <1>0, <3>1, <3>3, <3>4, NothingDone
  <2> QED BY <1>1, <2>2, <2>3, Reliable DEF create, mkdir
<1>2. CASE unlink(c)
  <2>1. Tree!Remove(p)
    BY <1>2, Reliable DEF unlink, Acked, Request, Call
  <2>2. Holds(c, p)
    BY <1>2 DEF unlink, Holds
  <2>3. p \notin entries /\ \A d \in Client \ {c} : ~Holds(d, p)
    BY <1>0, <2>2 DEF IInv, OneHolder
  <2>4. /\ entries' = entries
        /\ \A q \in Path \ {p} : records'[q] = records[q]
        /\ records[p] = "dir" => records'[p] = "dir"
    BY <1>0, <2>1 DEF TypeOK, Tree!TypeOK, Tree!Remove, Tree!SetRecord
  <2>5. \E s : Return(c, s)
    BY <1>2 DEF unlink
  <2>6. OthersWait(c)
    BY <2>5, OneClientMoves
  <2>7. pc'[c] = "idle"
    BY <2>5, ReturnIdle
  <2>8. entries' \subseteq Path
    BY <2>4 DEF TypeOK, Tree!TypeOK, Tree!Child
  <2> QED BY <1>0, <2>3, <2>4, <2>6, <2>7, <2>8, DoneAlone
<1>3. CASE add_subfile(c)
  <2>1. Holds(c, p) /\ ~failed[c]
    BY <1>3 DEF add_subfile, Holds, IInv, FirstTry
  <2>2. /\ p \notin entries /\ records[p] # "absent"
        /\ \A d \in Client \ {c} : ~Holds(d, p)
    BY <1>0, <2>1 DEF IInv, OneHolder
  <2>3. Request(c) => Tree!AddSubfile(p)
    BY <1>3 DEF add_subfile, Request, Call
  <2>4. Request(c) => /\ reply'.status = "OK"
                      /\ records' = records
                      /\ entries' = entries \cup {p}
    BY SMT, <1>0, <2>2, <2>3 DEF Tree!AddSubfile, Tree!Answer
  <2>5. Acked(c) /\ Return(c, "OK")
    BY <1>3, <2>1, <2>4, Reliable DEF add_subfile
  <2>6. OthersWait(c) /\ pc'[c] = "idle"
    BY <2>5, OneClientMoves, ReturnIdle
  <2>7. records' = records /\ entries' = entries \cup {p}
    BY <2>4, <2>5 DEF Acked
  <2>8. entries' \subseteq Path
    BY <1>0, <2>7 DEF TypeOK, Tree!TypeOK, Tree!Child
  <2> QED BY <1>0, <2>2, <2>6, <2>7, <2>8, DoneAlone
<1>4. CASE remove_subfile(c)
  <2>0. pc[c] = "entry" /\ op[c] = "unlink"
    BY <1>0, <1>4 DEF remove_subfile
  <2>1. Request(c) => Tree!RemoveSubfile(p)
    BY <2>0 DEF Request, Call
  <2>2. CASE Acked(c)
    <3>1. p \in entries /\ entries' = entries \ {p} /\ records' = records
      BY SMT, <2>1, <2>2 DEF Acked, Tree!RemoveSubfile, Tree!Answer
    <3>2. records[p] # "absent" /\ \A d \in Client : ~Holds(d, p)
      BY <1>0, <3>1 DEF IInv, NoDanglingEntry, OneHolder
    <3>3. Return(c, "error") \/ Enter(c, "record")
      BY <1>4, <2>0, <2>2, Reliable DEF remove_subfile, Acked
    <3>4. OthersWait(c)
      BY <3>3, OneClientMoves
    <3>5. pc'[c] = "idle" \/ (pc'[c] = "record" /\ path'[c] = p)
      BY <3>3, ReturnIdle, EnterState
    <3>6. entries' \subseteq Path
      BY <3>1 DEF TypeOK, Tree!TypeOK, Tree!Child
    <3> QED BY <1>0, <3>1, <3>2, <3>4, <3>5, <3>6, DoneAlone
  <2>3. CASE Refused(c)
    <3>1. UNCHANGED <<records, entries>>
      BY SMT, <2>1, <2>3, Reliable DEF Tree!RemoveSubfile, Tree!Answer
    <3>2. KeepTrying(c)
      BY <1>4, <2>3, Reliable DEF remove_subfile, Acked
    <3>3. OthersWait(c)
      BY <3>2, OneClientMoves
    <3>4. pc'[c] = "entry" /\ op'[c] = "unlink" /\ path'[c] = p
      BY <2>0, <3>2, RetryState
    <3> QED BY <1>0, <3>1, <3>3, <3>4, NothingDone
  <2> QED BY <1>4, <2>2, <2>3, Reliable DEF remove_subfile
<1>5. CASE rmdir(c) \/ rollback(c)
  BY <1>0, <1>5 DEF rmdir, rollback, IInv, NeverRolledBack
<1> QED BY <1>1, <1>2, <1>3, <1>4, <1>5 DEF Step

\* The two calls of create(), mkdir() and unlink() exclude each other, however
\* many clients there are and wherever they die.
THEOREM Inductive ==
    ASSUME Undisturbed
    PROVE  Spec => []IInv
<1>1. Init => IInv
  BY DEF Init, IInv, NoDanglingEntry, OneHolder, Holds, NeverRolledBack, ParentsStay,
         FirstTry
<1>2. TypeOK /\ IInv /\ [Next]_vars => IInv'
  <2> SUFFICES ASSUME TypeOK, IInv, [Next]_vars
               PROVE  IInv'
    OBVIOUS
  <2>1. ASSUME NEW c \in Client, NEW o \in Ops, NEW p \in Child, Start(c, o, p)
        PROVE  IInv'
    <3>1. OthersWait(c) /\ UNCHANGED <<records, entries>>
      BY <2>1 DEF Start, TypeOK, OthersWait, tree
    <3>2. /\ pc'[c] = FirstCall(o) /\ op'[c] = o /\ path'[c] = p
          /\ records[Parent[p]] = "dir"
      BY <2>1 DEF Start, TypeOK, Undisturbed
    <3> QED BY <3>1, <3>2, NothingDone DEF FirstCall
  <2>2. ASSUME NEW c \in Client, Step(c)
        PROVE  IInv'
    BY <2>2, StepKeeps
  <2>3. ASSUME NEW c \in Client, Die(c)
        PROVE  IInv'
    <3>1. OthersWait(c) /\ pc'[c] = "idle" /\ UNCHANGED <<records, entries>>
      BY <2>3, OneClientMoves, ReturnIdle DEF Die, tree
    <3> QED BY <3>1, NothingDone
  <2>4. CASE UNCHANGED vars
    BY SMT, <2>4 DEF vars, tree, progress, IInv, NoDanglingEntry, OneHolder, Holds,
                NeverRolledBack, ParentsStay, FirstTry
  <2> QED BY <2>1, <2>2, <2>3, <2>4 DEF Next
<1>3. QED BY <1>1, <1>2, TypeCorrect, PTL DEF Spec

\* Every name a directory lists has a record.
THEOREM NamesLead ==
    ASSUME Undisturbed
    PROVE  Spec => []NoDanglingEntry
<1>1. IInv => NoDanglingEntry
  BY DEF IInv
<1>2. QED BY <1>1, Inductive, PTL

\* An unlisted record belongs to one client at a time.
THEOREM UnlistedIsLock ==
    ASSUME Undisturbed
    PROVE  Spec => []OneHolder
<1>1. IInv => OneHolder
  BY DEF IInv
<1>2. QED BY <1>1, Inductive, PTL

\* No operation is rolled back.
THEOREM NoRollback ==
    ASSUME Undisturbed
    PROVE  Spec => []NeverRolledBack
<1>1. IInv => NeverRolledBack
  BY DEF IInv
<1>2. QED BY <1>1, Inductive, PTL

-----------------------------------------------------------------------------
(* What an answer of OK means *)

\* Between its two calls a create() holds a regular file, a mkdir() a directory.
RightKind == \A c \in Client : pc[c] = "entry" =>
    /\ op[c] = "create" => records[path[c]] = "reg"
    /\ op[c] = "mkdir" => records[path[c]] = "dir"

\* A call leaves alone the records that other clients hold.
LEMMA HeldStays ==
    ASSUME Undisturbed, TypeOK, IInv, NEW c \in Client, Step(c),
           NEW d \in Client \ {c}, NEW q \in Path, Holds(d, q)
    PROVE  records'[q] = records[q]
<1>1. records[q] # "absent" /\ ~Holds(c, q)
  BY DEF IInv, OneHolder
<1>2. Request(c)
  BY Reliable DEF Step, create, mkdir, rmdir, unlink, add_subfile, remove_subfile,
                  rollback, Acked
<1>3. pc[c] # "idle" /\ op[c] \in {"create", "mkdir", "unlink"} /\ path[c] \in Path
  <2>1. pc[c] # "idle"
    BY DEF Step, create, mkdir, rmdir, unlink, add_subfile, remove_subfile, rollback
  <2> QED BY <2>1 DEF TypeOK, Undisturbed
<1>4. pc[c] \in {"record", "entry"}
  BY <1>3 DEF TypeOK, IInv, NeverRolledBack
<1>5. CASE q # path[c]
  BY <1>2, <1>3, <1>5
  DEF Request, TypeOK, Tree!TypeOK, Tree!Create, Tree!Mkdir, Tree!Remove, Tree!Rmdir,
      Tree!AddSubfile, Tree!RemoveSubfile, Tree!SetRecord
<1>6. CASE q = path[c]
  <2>1. Call(c) \in {"create", "mkdir", "add_subfile", "remove_subfile"}
    BY <1>1, <1>3, <1>4, <1>6 DEF Holds, Call
  <2> QED
    BY <1>1, <1>2, <1>6, <2>1
    DEF Request, Tree!Create, Tree!Mkdir, Tree!AddSubfile, Tree!RemoveSubfile
<1> QED BY <1>5, <1>6

\* Where a call leaves its own client.
LEMMA OwnKind ==
    ASSUME Undisturbed, TypeOK, IInv, NEW c \in Client, Step(c), pc'[c] = "entry"
    PROVE  /\ op'[c] = "create" => records'[path'[c]] = "reg"
           /\ op'[c] = "mkdir" => records'[path'[c]] = "dir"
<1>0. path[c] \in Path
  BY DEF TypeOK
<1>1. CASE create(c) \/ mkdir(c)
  <2>1. Acked(c) /\ Enter(c, "entry")
    <3>1. ~\E s : Return(c, s)
      BY ReturnIdle
    <3>2. ~TryAgain(c)
      BY <1>1, RetryState DEF create, mkdir
    <3> QED BY <1>1, <3>1, <3>2 DEF create, mkdir
  <2>2. op'[c] = op[c] /\ path'[c] = path[c]
    BY <2>1, EnterState
  <2>3. CASE create(c)
    <3>1. op[c] = "create" /\ Tree!Create(path[c]) /\ reply'.status = "OK"
      BY <2>1, <2>3 DEF create, Acked, Request, Call
    <3> QED
      BY SMT, <1>0, <2>2, <3>1 DEF TypeOK, Tree!TypeOK, Tree!Create, Tree!SetRecord, Tree!Answer
  <2>4. CASE mkdir(c)
    <3>1. op[c] = "mkdir" /\ Tree!Mkdir(path[c]) /\ reply'.status = "OK"
      BY <2>1, <2>4 DEF mkdir, Acked, Request, Call
    <3> QED
      BY SMT, <1>0, <2>2, <3>1 DEF TypeOK, Tree!TypeOK, Tree!Mkdir, Tree!SetRecord, Tree!Answer
  <2> QED BY <1>1, <2>3, <2>4
<1>2. CASE unlink(c) \/ rmdir(c) \/ rollback(c)
  <2>1. CASE unlink(c)
    BY <2>1, ReturnIdle DEF unlink
  <2>2. CASE rmdir(c) \/ rollback(c)
    <3>1. pc[c] # "idle" => op[c] \in Ops
      BY DEF TypeOK
    <3> QED BY <2>2, <3>1 DEF rmdir, rollback, IInv, NeverRolledBack, Undisturbed
  <2> QED BY <1>2, <2>1, <2>2
<1>3. CASE add_subfile(c)
  <2>1. op[c] \in {"create", "mkdir"} /\ ~failed[c] /\ Holds(c, path[c])
    BY <1>3 DEF add_subfile, Holds, IInv, FirstTry
  <2>2. path[c] \notin entries /\ records[Parent[path[c]]] = "dir"
    BY <1>0, <1>3, <2>1 DEF IInv, OneHolder, ParentsStay, add_subfile
  <2>3. Request(c) => reply'.status = "OK"
    BY SMT, <1>3, <2>2 DEF add_subfile, Request, Call, Tree!AddSubfile, Tree!Answer
  <2>4. Return(c, "OK")
    BY <1>3, <2>1, <2>3, Reliable DEF add_subfile
  <2> QED BY <2>4, ReturnIdle
<1>4. CASE remove_subfile(c)
  <2>1. op'[c] = op[c] \/ pc'[c] = "idle"
    BY <1>4, ReturnIdle, EnterState, RetryState, Reliable DEF remove_subfile
  <2> QED BY <1>4, <2>1 DEF remove_subfile
<1> QED BY <1>1, <1>2, <1>3, <1>4 DEF Step

\* Only the client whose turn it is moves.
LEMMA StepMovesOne ==
    ASSUME TypeOK, NEW c \in Client, Step(c)
    PROVE  OthersWait(c)
<1>1. CASE create(c) \/ mkdir(c) \/ rmdir(c) \/ unlink(c)
  BY <1>1, OneClientMoves DEF create, mkdir, rmdir, unlink
<1>2. CASE add_subfile(c) \/ rollback(c)
  BY <1>2, OneClientMoves DEF add_subfile, rollback
<1>3. CASE remove_subfile(c)
  BY <1>3, OneClientMoves DEF remove_subfile
<1> QED BY <1>1, <1>2, <1>3 DEF Step

\* The kind of a held record stays right.
LEMMA KindsStay ==
    ASSUME Undisturbed
    PROVE  Spec => []RightKind
<1>1. Init => RightKind
  BY DEF Init, RightKind
<1>2. TypeOK /\ IInv /\ RightKind /\ [Next]_vars => RightKind'
  <2> SUFFICES ASSUME TypeOK, IInv, RightKind, [Next]_vars
               PROVE  RightKind'
    OBVIOUS
  <2>1. ASSUME NEW c \in Client, NEW o \in Ops, NEW p \in Child, Start(c, o, p)
        PROVE  RightKind'
    <3>1. OthersWait(c) /\ records' = records
      BY <2>1 DEF Start, TypeOK, OthersWait, tree
    <3>2. pc'[c] = FirstCall(o) /\ op'[c] = o
      BY <2>1 DEF Start, TypeOK
    <3> QED BY <3>1, <3>2 DEF RightKind, OthersWait, FirstCall
  <2>2. ASSUME NEW c \in Client, Step(c)
        PROVE  RightKind'
    <3> SUFFICES ASSUME NEW d \in Client, pc'[d] = "entry"
                 PROVE  /\ op'[d] = "create" => records'[path'[d]] = "reg"
                        /\ op'[d] = "mkdir" => records'[path'[d]] = "dir"
      BY DEF RightKind
    <3>1. CASE d = c
      BY <2>2, <3>1, OwnKind
    <3>2. CASE d # c
      <4>1. pc[d] = "entry" /\ op'[d] = op[d] /\ path'[d] = path[d]
        BY <2>2, <3>2, StepMovesOne DEF OthersWait
      <4>2. op[d] \in {"create", "mkdir"} => Holds(d, path[d])
        BY <4>1 DEF Holds
      <4>3. path[d] \in Path
        BY DEF TypeOK
      <4>4. op[d] \in {"create", "mkdir"} => records'[path[d]] = records[path[d]]
        BY <2>2, <3>2, <4>2, <4>3, HeldStays
      <4> QED BY <4>1, <4>4 DEF RightKind
    <3> QED BY <3>1, <3>2
  <2>3. ASSUME NEW c \in Client, Die(c)
        PROVE  RightKind'
    <3>1. OthersWait(c) /\ pc'[c] = "idle" /\ records' = records
      BY <2>3, OneClientMoves, ReturnIdle DEF Die, tree
    <3> QED BY <3>1 DEF RightKind, OthersWait
  <2>4. CASE UNCHANGED vars
    BY <2>4 DEF vars, tree, progress, RightKind
  <2> QED BY <2>1, <2>2, <2>3, <2>4 DEF Next
<1>3. QED BY <1>1, <1>2, TypeCorrect, Inductive, PTL DEF Spec

\* The call with which an operation answers OK.
LEMMA LastCall ==
    ASSUME Undisturbed, TypeOK, IInv, RightKind, NEW c \in Client, Step(c),
           NEW o \in Ops, NEW p \in Child, ReturnsOK(c, o, p)
    PROVE  Done(o, p)'
<1>0. p \in Path /\ o \in {"create", "mkdir", "unlink"} /\ path[c] = p /\ op[c] = o
  BY DEF Child, Undisturbed, ReturnsOK
<1>1. pc[c] # "idle" /\ op'[c] # op[c] /\ result'[c] = "OK"
  BY <1>0 DEF ReturnsOK, TypeOK
<1>2. /\ ~\E call : Enter(c, call)
      /\ ~TryAgain(c) /\ ~KeepTrying(c)
      /\ ~Return(c, "error")
  BY SMT, <1>1, EnterState, RetryState DEF Return, TypeOK
<1>3. CASE create(c) \/ mkdir(c) \/ rmdir(c) \/ rollback(c)
  BY <1>0, <1>2, <1>3 DEF create, mkdir, rmdir, rollback, IInv, NeverRolledBack
<1>4. CASE unlink(c)
  <2>1. Acked(c) /\ o = "unlink" /\ Holds(c, p)
    BY <1>0, <1>2, <1>4 DEF unlink, Holds
  <2>2. Tree!Remove(p) /\ reply'.status = "OK"
    BY <1>0, <1>4, <2>1 DEF unlink, Acked, Request, Call
  <2>3. records'[p] = "absent" /\ entries' = entries
    BY SMT, <1>0, <2>2 DEF TypeOK, Tree!TypeOK, Tree!Remove, Tree!SetRecord, Tree!Answer
  <2>4. p \notin entries
    BY <1>0, <2>1 DEF IInv, OneHolder
  <2> QED BY <2>1, <2>3, <2>4 DEF Done
<1>5. CASE add_subfile(c)
  <2>1. Acked(c) /\ pc[c] = "entry" /\ o \in {"create", "mkdir"}
    BY <1>0, <1>2, <1>5, Reliable DEF add_subfile
  <2>2. Tree!AddSubfile(p) /\ reply'.status = "OK"
    BY <1>0, <2>1 DEF Acked, Request, Call
  <2>3. p \in entries' /\ records' = records
    BY SMT, <2>2 DEF Tree!AddSubfile, Tree!Answer
  <2>4. /\ o = "create" => records[p] = "reg"
        /\ o = "mkdir" => records[p] = "dir"
    BY <1>0, <2>1 DEF RightKind
  <2> QED BY <2>1, <2>3, <2>4 DEF Done
<1>6. CASE remove_subfile(c)
  <2>1. op[c] = "unlink"
    BY <1>0, <1>6 DEF remove_subfile
  <2> QED BY <1>2, <1>6, <2>1, Reliable DEF remove_subfile, TypeOK
<1> QED BY <1>3, <1>4, <1>5, <1>6 DEF Step

\* An operation that answers OK has done what it says, whatever the other
\* clients are in the middle of: create() has made and listed a file, mkdir() a
\* directory, and after unlink() there is neither record nor entry.
THEOREM OkMeansDone ==
    ASSUME Undisturbed
    PROVE  Spec => OkIsTrue
<1> DEFINE Answers == \A c \in Client, o \in Ops, p \in Child :
                         ReturnsOK(c, o, p) => Done(o, p)'
<1>1. TypeOK /\ IInv /\ RightKind /\ [Next]_vars => [Answers]_vars
  <2> SUFFICES ASSUME TypeOK, IInv, RightKind, [Next]_vars,
                      NEW c \in Client, NEW o \in Ops, NEW p \in Child,
                      ReturnsOK(c, o, p)
               PROVE  Done(o, p)'
    OBVIOUS
  <2>0. op[c] = o /\ o # "nop" /\ op'[c] = "nop" /\ result'[c] = "OK"
    BY EnvironmentAssumption DEF ReturnsOK
  <2>1. ASSUME NEW d \in Client, NEW oo \in Ops, NEW q \in Child, Start(d, oo, q)
        PROVE  FALSE
    BY <2>0, <2>1, EnvironmentAssumption DEF Start, TypeOK
  <2>2. ASSUME NEW d \in Client, Step(d)
        PROVE  Done(o, p)'
    <3>1. d = c
      BY <2>0, <2>2, StepMovesOne DEF OthersWait
    <3> QED BY <2>2, <3>1, LastCall
  <2>3. ASSUME NEW d \in Client, Die(d)
        PROVE  FALSE
    BY <2>0, <2>3 DEF Die, Return, TypeOK
  <2>4. CASE UNCHANGED vars
    BY <2>0, <2>4 DEF vars, progress
  <2> QED BY <2>1, <2>2, <2>3, <2>4 DEF Next
<1>2. QED BY <1>1, TypeCorrect, Inductive, KindsStay, PTL DEF Spec, OkIsTrue
-----------------------------------------------------------------------------
(* One client whose calls may fail in any way *)

\* Nobody but the client itself changes the tree.
Alone == \A c, d \in Client : c = d

\* What the acknowledged first call of an operation has left behind.
HalfDone(c) ==
    /\ pc[c] = "rollback" => op[c] \in {"create", "mkdir"}
    /\ pc[c] \in {"entry", "rollback"} /\ op[c] = "mkdir" => records[path[c]] = "dir"
    /\ pc[c] = "entry" /\ op[c] = "rmdir" => records[path[c]] = "absent"
    /\ pc[c] = "record" /\ op[c] = "unlink" => path[c] \notin entries

\* A call that lists or unlists a name leaves the records alone, however it ends.
LEMMA ListingCall ==
    ASSUME NEW c \in Client, Call(c) \in {"add_subfile", "remove_subfile"},
           Acked(c) \/ Refused(c) \/ Broken(c)
    PROVE  records' = records
<1>1. CASE Request(c)
  BY <1>1 DEF Request, Tree!AddSubfile, Tree!RemoveSubfile
<1>2. CASE UNCHANGED tree
  BY <1>2 DEF tree
<1>3. CASE Tree!StoreFails(Call(c), path[c])
  BY <1>3 DEF Tree!StoreFails
<1> QED BY <1>1, <1>2, <1>3 DEF Acked, Refused, Broken

\* What is behind the client after its next call.
LEMMA HalfDoneStep ==
    ASSUME TypeOK, NEW c \in Client, HalfDone(c), Step(c)
    PROVE  HalfDone(c)'
<1>0. path[c] \in Path
  BY DEF TypeOK
<1>1. pc'[c] = "idle" => HalfDone(c)'
  BY DEF HalfDone
<1>2. CASE create(c)
  <2>1. pc'[c] = "idle" \/ (op'[c] = "create" /\ pc'[c] \in {"entry", "record"})
    BY <1>2, ReturnIdle, EnterState, RetryState DEF create
  <2> QED BY <1>1, <2>1 DEF HalfDone
<1>3. CASE mkdir(c)
  <2>1. pc'[c] = "idle" \/ (Acked(c) /\ Enter(c, "entry"))
    BY <1>3, ReturnIdle DEF mkdir
  <2>2. CASE Acked(c) /\ Enter(c, "entry")
    <3>1. pc'[c] = "entry" /\ op'[c] = "mkdir" /\ path'[c] = path[c]
      BY <1>3, <2>2, EnterState DEF mkdir
    <3>2. Tree!Mkdir(path[c]) /\ reply'.status = "OK"
      BY <1>3, <2>2 DEF mkdir, Acked, Request, Call
    <3>3. records'[path[c]] = "dir"
      BY SMT, <1>0, <3>2 DEF TypeOK, Tree!TypeOK, Tree!Mkdir, Tree!SetRecord, Tree!Answer
    <3> QED BY <3>1, <3>3 DEF HalfDone
  <2> QED BY <1>1, <2>1, <2>2
<1>4. CASE rmdir(c)
  <2>1. pc'[c] = "idle" \/ (Acked(c) /\ Enter(c, "entry"))
    BY <1>4, ReturnIdle DEF rmdir
  <2>2. CASE Acked(c) /\ Enter(c, "entry")
    <3>1. pc'[c] = "entry" /\ op'[c] = "rmdir" /\ path'[c] = path[c]
      BY <1>4, <2>2, EnterState DEF rmdir
    <3>2. Tree!Rmdir(path[c]) /\ reply'.status = "OK"
      BY <1>4, <2>2 DEF rmdir, Acked, Request, Call
    <3>3. records'[path[c]] = "absent"
      BY SMT, <1>0, <3>2 DEF TypeOK, Tree!TypeOK, Tree!Rmdir, Tree!SetRecord, Tree!Answer
    <3> QED BY <3>1, <3>3 DEF HalfDone
  <2> QED BY <1>1, <2>1, <2>2
<1>5. CASE unlink(c) \/ rollback(c)
  <2>1. pc'[c] = "idle"
    BY <1>5, ReturnIdle DEF unlink, rollback
  <2> QED BY <1>1, <2>1
<1>6. CASE add_subfile(c)
  <2>1. pc[c] = "entry" /\ op[c] \in {"create", "mkdir"}
    BY <1>6 DEF add_subfile
  <2>2. records' = records
    BY <1>6, <2>1, ListingCall DEF add_subfile, Call
  <2>3. \/ pc'[c] = "idle"
        \/ pc'[c] \in {"entry", "rollback"} /\ op'[c] = op[c] /\ path'[c] = path[c]
    BY <1>6, <2>1, ReturnIdle, EnterState, RetryState DEF add_subfile
  <2> QED BY <1>1, <2>1, <2>2, <2>3 DEF HalfDone
<1>7. CASE remove_subfile(c)
  <2>1. pc[c] = "entry" /\ op[c] \in {"unlink", "rmdir"}
    BY <1>7 DEF remove_subfile
  <2>2. records' = records
    BY <1>7, <2>1, ListingCall DEF remove_subfile, Call
  <2>3. \/ pc'[c] = "idle"
        \/ pc'[c] = "entry" /\ op'[c] = op[c] /\ path'[c] = path[c]
        \/ Acked(c) /\ Enter(c, "record") /\ op[c] = "unlink"
    BY <1>7, <2>1, ReturnIdle, RetryState DEF remove_subfile
  <2>4. CASE Acked(c) /\ Enter(c, "record") /\ op[c] = "unlink"
    <3>1. pc'[c] = "record" /\ op'[c] = "unlink" /\ path'[c] = path[c]
      BY <2>4, EnterState
    <3>2. Tree!RemoveSubfile(path[c]) /\ reply'.status = "OK"
      BY <2>1, <2>4 DEF Acked, Request, Call
    <3>3. path[c] \notin entries'
      BY SMT, <3>2 DEF Tree!RemoveSubfile, Tree!Answer
    <3> QED BY <3>1, <3>3 DEF HalfDone
  <2> QED BY <1>1, <2>1, <2>2, <2>3, <2>4 DEF HalfDone
<1> QED BY <1>2, <1>3, <1>4, <1>5, <1>6, <1>7 DEF Step

\* The call with which an operation other than create() answers OK.
LEMMA LastCallAlone ==
    ASSUME TypeOK, NEW c \in Client, HalfDone(c), Step(c),
           NEW o \in Ops \ {"create"}, NEW p \in Child, ReturnsOK(c, o, p)
    PROVE  Done(o, p)'
<1>0. p \in Path /\ path[c] = p /\ op[c] = o /\ o # "create" /\ o # "nop"
  BY EnvironmentAssumption DEF Child, ReturnsOK
<1>1. pc[c] # "idle" /\ op'[c] # op[c] /\ result'[c] = "OK"
  BY <1>0 DEF ReturnsOK, TypeOK
<1>2. /\ ~\E call : Enter(c, call)
      /\ ~TryAgain(c) /\ ~KeepTrying(c)
      /\ ~Return(c, "error") /\ ~Return(c, "died")
  BY SMT, <1>1, EnterState, RetryState DEF Return, TypeOK
<1>3. CASE create(c) \/ mkdir(c) \/ rmdir(c)
  BY <1>0, <1>2, <1>3 DEF create, mkdir, rmdir
<1>4. CASE unlink(c)
  <2>1. Tree!Remove(p) /\ reply'.status = "OK" /\ o = "unlink"
    BY <1>0, <1>2, <1>4 DEF unlink, Acked, Request, Call
  <2>2. records'[p] = "absent" /\ entries' = entries
    BY SMT, <1>0, <2>1 DEF TypeOK, Tree!TypeOK, Tree!Remove, Tree!SetRecord, Tree!Answer
  <2>3. p \notin entries
    BY <1>0, <1>4 DEF HalfDone, unlink
  <2> QED BY <2>1, <2>2, <2>3 DEF Done
<1>5. CASE add_subfile(c)
  <2>1. Acked(c) /\ pc[c] = "entry" /\ o = "mkdir"
    BY <1>0, <1>2, <1>5 DEF add_subfile
  <2>2. Tree!AddSubfile(p) /\ reply'.status = "OK"
    BY <1>0, <2>1 DEF Acked, Request, Call
  <2>3. p \in entries' /\ records' = records
    BY SMT, <2>2 DEF Tree!AddSubfile, Tree!Answer
  <2>4. records[p] = "dir"
    BY <1>0, <2>1 DEF HalfDone
  <2> QED BY <2>1, <2>3, <2>4 DEF Done
<1>6. CASE remove_subfile(c)
  <2>1. Acked(c) /\ pc[c] = "entry" /\ o = "rmdir"
    BY <1>0, <1>2, <1>6 DEF remove_subfile, TypeOK
  <2>2. Tree!RemoveSubfile(p) /\ reply'.status = "OK"
    BY <1>0, <2>1 DEF Acked, Request, Call
  <2>3. p \notin entries' /\ records' = records
    BY SMT, <2>2 DEF Tree!RemoveSubfile, Tree!Answer
  <2>4. records[p] = "absent"
    BY <1>0, <2>1 DEF HalfDone
  <2> QED BY <2>1, <2>3, <2>4 DEF Done
<1>7. CASE rollback(c)
  <2>1. Acked(c) /\ pc[c] = "rollback" /\ o = "mkdir"
    BY <1>0, <1>2, <1>7 DEF rollback, HalfDone
  <2>2. records[p] = "dir"
    BY <1>0, <2>1 DEF HalfDone
  <2>3. Tree!Remove(p) /\ reply'.status = "OK"
    BY <1>0, <2>1 DEF Acked, Request, Call
  <2> QED BY SMT, <2>2, <2>3 DEF Tree!Remove, Tree!Answer
<1> QED BY <1>3, <1>4, <1>5, <1>6, <1>7 DEF Step

\* Whatever calls of a client are refused, lost or broken off half way, and
\* however often it is started again, its mkdir(), unlink() and rmdir() answer
\* OK only when record and entry are as the operation says.
THEOREM OkAloneMeansDone ==
    ASSUME Alone
    PROVE  Spec => OkIsTrueButForCreate
<1> DEFINE Halves == \A c \in Client : HalfDone(c)
<1> DEFINE Answers == \A c \in Client, o \in Ops \ {"create"}, p \in Child :
                         ReturnsOK(c, o, p) => Done(o, p)'
<1>1. Init => Halves
  BY DEF Init, HalfDone
<1>2. TypeOK /\ Halves /\ [Next]_vars => Halves'
  <2> SUFFICES ASSUME TypeOK, Halves, [Next]_vars, NEW c \in Client
               PROVE  HalfDone(c)'
    OBVIOUS
  <2>1. ASSUME NEW d \in Client, NEW o \in Ops, NEW p \in Child, Start(d, o, p)
        PROVE  HalfDone(c)'
    <3>1. pc'[c] = FirstCall(o) /\ op'[c] = o
      BY <2>1 DEF Alone, Start, TypeOK
    <3> QED BY <3>1 DEF HalfDone, FirstCall
  <2>2. ASSUME NEW d \in Client, Step(d)
        PROVE  HalfDone(c)'
    BY <2>2, HalfDoneStep DEF Alone
  <2>3. ASSUME NEW d \in Client, Die(d)
        PROVE  HalfDone(c)'
    <3>1. pc'[c] = "idle"
      BY <2>3, ReturnIdle DEF Die, Alone
    <3> QED BY <3>1 DEF HalfDone
  <2>4. CASE UNCHANGED vars
    BY <2>4 DEF vars, tree, progress, HalfDone
  <2> QED BY <2>1, <2>2, <2>3, <2>4 DEF Next
<1>3. TypeOK /\ Halves /\ [Next]_vars => [Answers]_vars
  <2> SUFFICES ASSUME TypeOK, Halves, [Next]_vars,
                      NEW c \in Client, NEW o \in Ops \ {"create"}, NEW p \in Child,
                      ReturnsOK(c, o, p)
               PROVE  Done(o, p)'
    OBVIOUS
  <2>0. op[c] = o /\ o # "nop" /\ op'[c] = "nop" /\ result'[c] = "OK"
    BY EnvironmentAssumption DEF ReturnsOK
  <2>1. ASSUME NEW d \in Client, NEW oo \in Ops, NEW q \in Child, Start(d, oo, q)
        PROVE  FALSE
    BY <2>0, <2>1, EnvironmentAssumption DEF Start, TypeOK
  <2>2. ASSUME NEW d \in Client, Step(d)
        PROVE  Done(o, p)'
    BY <2>2, LastCallAlone DEF Alone
  <2>3. ASSUME NEW d \in Client, Die(d)
        PROVE  FALSE
    BY <2>0, <2>3 DEF Die, Return, TypeOK
  <2>4. CASE UNCHANGED vars
    BY <2>0, <2>4 DEF vars, progress
  <2> QED BY <2>1, <2>2, <2>3, <2>4 DEF Next
<1>4. QED BY <1>1, <1>2, <1>3, TypeCorrect, PTL DEF Spec, OkIsTrueButForCreate
=============================================================================
