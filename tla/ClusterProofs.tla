---------------------------- MODULE ClusterProofs ----------------------------
(***************************************************************************)
(* Proofs about Cluster.tla and its ServerMap.tla, for any servers and     *)
(* clients and hash values of any width: what holds on rings with any      *)
(* number of positions, and what on rings with few (FewPositions).         *)
(***************************************************************************)
EXTENDS Cluster, FiniteSetTheorems, TLAPS

\* Leaves are for Zenon, unless they name SMT.
USE Zenon

(***************************************************************************)
(* The greatest element of a set of integers that has a bound              *)
(***************************************************************************)

IsMax(S, x) == x \in S /\ \A y \in S : x >= y

\* Max, a CHOOSE, is a greatest element of a bounded set of integers.
LEMMA MaxExists ==
    ASSUME NEW S, S \subseteq Int, S # {}, NEW b \in Int, \A s \in S : s <= b
    PROVE  IsMax(S, Max(S))
<1>. DEFINE T == {b - s : s \in S}
<1>1. T \subseteq Nat /\ T # {}
  <2>1. \A s \in S : b - s \in Nat BY SMT
  <2>2. PICK s \in S : TRUE OBVIOUS
  <2>3. b - s \in T OBVIOUS
  <2>. QED BY <2>1, <2>3
<1>2. \E x \in T : \A y \in T : ~(<<y, x>> \in OpToRel(<, Nat))
  <2>. HIDE DEF T
  <2>. QED BY <1>1, NatLessThanWellFounded, WFMin
<1>3. PICK x \in T : \A y \in T : ~(<<y, x>> \in OpToRel(<, Nat)) BY <1>2
<1>4. \A y \in T : ~(y < x) BY <1>1, <1>3 DEF OpToRel
<1>5. PICK s \in S : x = b - s OBVIOUS
<1>6. \A u \in S : s >= u
  <2>. SUFFICES ASSUME NEW u \in S PROVE s >= u OBVIOUS
  <2>1. b - u \in T OBVIOUS
  <2>2. ~(b - u < b - s) BY <1>4, <1>5, <2>1
  <2>. QED BY SMT, <2>2
<1>. QED BY <1>6 DEF Max, IsMax

\* A set has one greatest element.
LEMMA MaxUnique ==
    ASSUME NEW S, S \subseteq Int, NEW x, IsMax(S, x), IsMax(S, Max(S))
    PROVE  Max(S) = x
<1>1. x \in Int /\ Max(S) \in Int BY DEF IsMax
<1>2. x >= Max(S) /\ Max(S) >= x BY DEF IsMax
<1>. QED BY SMT, <1>1, <1>2

(***************************************************************************)
(* Hash values and positions                                               *)
(***************************************************************************)

\* Hash values are integers up to MaxHash.
LEMMA HashValues == HashValue \subseteq Int /\ \A h \in HashValue : h <= MaxHash /\ MaxHash \in Int
BY SMT, ServerMapAssumption DEF HashValue, MaxHash

Below(ring0, h) == {s \in DOMAIN ring0 : s <= h}

\* get() finds the last position up to the hash, or the last of all.
LEMMA PositionFound ==
    ASSUME NEW r, DOMAIN r \subseteq HashValue, DOMAIN r # {}, NEW h \in HashValue
    PROVE  /\ Below(r, h) # {} => IsMax(Below(r, h), PositionOf(r, h))
           /\ Below(r, h) = {} => IsMax(DOMAIN r, PositionOf(r, h))
<1>1. ASSUME NEW S, S \subseteq DOMAIN r, S # {} PROVE IsMax(S, Max(S))
  BY <1>1, HashValues, MaxExists
<1>2. CASE Below(r, h) # {}
  <2>1. IsMax(Below(r, h), Max(Below(r, h))) BY <1>1, <1>2 DEF Below
  <2>2. PositionOf(r, h) = Max(Below(r, h)) BY <1>2 DEF PositionOf, Below
  <2>. QED BY <1>2, <2>1, <2>2
<1>3. CASE Below(r, h) = {}
  <2>1. IsMax(DOMAIN r, Max(DOMAIN r)) BY <1>1
  <2>2. PositionOf(r, h) = Max(DOMAIN r) BY <1>3 DEF PositionOf, Below
  <2>. QED BY <1>3, <2>1, <2>2
<1>. QED BY <1>2, <1>3

\* ConsistentHashMap: a position that was free takes paths of one other position
\* only, the one that its own hash value belonged to.
THEOREM InsertMovesOneRange ==
    ASSUME NEW r, DOMAIN r \subseteq HashValue, DOMAIN r # {},
           NEW pos \in HashValue \ DOMAIN r, NEW node
    PROVE  MovesOneRange(r, Insert(r, pos, node))
<1>. DEFINE new == Insert(r, pos, node)  from == PositionOf(r, pos)
<1>1. DOMAIN new = DOMAIN r \cup {pos} BY DEF Insert
<1>2. /\ DOMAIN new \subseteq HashValue /\ DOMAIN new # {} /\ pos \in DOMAIN new \ DOMAIN r
      /\ DOMAIN new \subseteq Int /\ pos \in Int /\ DOMAIN r \subseteq Int
  BY <1>1, HashValues
<1>3. from \in DOMAIN r BY PositionFound DEF IsMax, Below
<1>4. ASSUME NEW h \in HashValue
      PROVE  \/ PositionOf(new, h) = PositionOf(r, h)
             \/ PositionOf(r, h) = from /\ PositionOf(new, h) = pos
  <2>. DEFINE was == PositionOf(r, h)  is == PositionOf(new, h)
  <2>0. h \in Int BY HashValues
  <2>1. /\ Below(r, h) # {} => IsMax(Below(r, h), was)
        /\ Below(r, h) = {} => IsMax(DOMAIN r, was)
    BY PositionFound
  <2>2. /\ Below(new, h) # {} => IsMax(Below(new, h), is)
        /\ Below(new, h) = {} => IsMax(DOMAIN new, is)
    BY <1>2, PositionFound
  <2>3. /\ Below(r, pos) # {} => IsMax(Below(r, pos), from)
        /\ Below(r, pos) = {} => IsMax(DOMAIN r, from)
    BY PositionFound
  <2>4. was \in Int /\ is \in Int /\ from \in Int
    BY <1>2, <2>1, <2>2, <2>3 DEF IsMax, Below
  <2>. HIDE DEF was, is, from, new
  <2>5. CASE is # pos
    <3>1. is \in DOMAIN r BY <1>1, <2>2, <2>5 DEF IsMax, Below
    <3>2. is = was
      <4>1. CASE Below(r, h) # {}
        <5>1. Below(new, h) # {} /\ Below(r, h) \subseteq Below(new, h) BY <1>1, <4>1 DEF Below
        <5>2. is \in Below(r, h) BY <2>2, <3>1, <5>1 DEF IsMax, Below
        <5>. QED BY SMT, <2>1, <2>2, <2>4, <4>1, <5>1, <5>2 DEF IsMax
      <4>2. CASE Below(r, h) = {}
        <5>1. is \notin Below(new, h) BY <3>1, <4>2 DEF Below
        <5>2. Below(new, h) = {} BY <2>2, <5>1 DEF IsMax
        <5>. QED BY SMT, <1>1, <2>1, <2>2, <2>4, <3>1, <4>2, <5>2 DEF IsMax
      <4>. QED BY <4>1, <4>2
    <3>. QED BY <3>2 DEF was, is
  <2>6. CASE is = pos
    <3>1. CASE pos <= h
      <4>1. pos \in Below(new, h) BY <1>2, <3>1 DEF Below
      <4>2. \A s \in Below(r, h) : s <= pos
        BY <1>1, <1>2, <2>2, <2>6, <4>1 DEF IsMax, Below
      <4>3. Below(r, h) = Below(r, pos) BY SMT, <1>2, <2>0, <3>1, <4>2 DEF Below
      <4>. QED BY SMT, <2>1, <2>3, <2>4, <2>6, <4>3 DEF IsMax, was, is
    <3>2. CASE ~(pos <= h)
      <4>1. pos \notin Below(new, h) BY <3>2 DEF Below
      <4>2. Below(new, h) = {} BY <2>2, <2>6, <4>1 DEF IsMax
      <4>3. Below(r, h) = {} BY <1>1, <4>2 DEF Below
      <4>4. \A s \in DOMAIN r : s <= pos BY <1>1, <1>2, <2>2, <2>6, <4>2 DEF IsMax
      <4>5. Below(r, pos) = DOMAIN r BY <4>4 DEF Below
      <4>. QED BY SMT, <2>1, <2>3, <2>4, <2>6, <4>3, <4>5 DEF IsMax, was, is
    <3>. QED BY <3>1, <3>2
  <2>. QED BY <2>5, <2>6
<1>. QED BY <1>2, <1>3, <1>4 DEF MovesOneRange

(***************************************************************************)
(* Rings stay rings                                                        *)
(***************************************************************************)

\* A sum that wraps around fits into W bits.
LEMMA WrapTyped == ASSUME NEW x \in Int PROVE Wrap(x) \in HashValue
<1>1. Half \in Nat /\ 2 * Half > 0 /\ 2 * Half \in Nat BY SMT, ServerMapAssumption
<1>2. (x + Half) % (2 * Half) \in 0 .. (2 * Half - 1) BY SMT, <1>1
<1>. QED BY SMT, <1>1, <1>2 DEF Wrap, HashValue

\* Half of a hash value is one.
LEMMA HalveTyped ==
    /\ \A x \in Int : Halve(x) \in Int
    /\ \A x \in HashValue : Halve(x) \in HashValue
BY SMT, ServerMapAssumption DEF Halve, HashValue

\* The middle that add() computes is a hash value, also when it overflows.
LEMMA MedianTyped == ASSUME NEW r \in HashValue \X HashValue PROVE median(r) \in HashValue
<1>1. r[1] \in Int /\ r[2] \in Int /\ MaxHash \div 2 \in Int
  <2>1. MaxHash \in Int BY SMT, ServerMapAssumption DEF MaxHash
  <2>2. r[1] \in HashValue /\ r[2] \in HashValue OBVIOUS
  <2>3. r[1] \in Int /\ r[2] \in Int BY <2>2, HashValues
  <2>4. \A x \in Int : x \div 2 \in Int BY SMT
  <2>. QED BY <2>1, <2>3, <2>4
<1>2. Halve(r[1]) \in Int /\ Halve(r[2]) \in Int BY <1>1, HalveTyped
<1>3. Halve(Wrap(r[1] + r[2])) \in HashValue BY SMT, <1>1, WrapTyped, HalveTyped
<1>4. Wrap(r[1] + MaxHash \div 2) \in HashValue BY SMT, <1>1, WrapTyped
<1>5. Wrap(MaxHash \div 2 - Halve(r[1]) + Halve(r[2]) + r[1]) \in HashValue
  BY SMT, <1>1, <1>2, WrapTyped
<1>. QED BY <1>3, <1>4, <1>5 DEF median

\* add() chooses positions among the hash values.
LEMMA PositionsTyped ==
    ASSUME NEW r, DOMAIN r \subseteq HashValue PROVE Positions(r) \subseteq HashValue
<1>1. FirstPosition \subseteq HashValue BY SMT, ServerMapAssumption DEF HashValue
<1>2. \A q \in get_max_range(r) : q \in HashValue \X HashValue
  BY DEF get_max_range, Ranges
<1>. QED BY <1>1, <1>2, MedianTyped DEF Positions

\* add() makes a ring of a ring, by one insertion.
LEMMA AddTyped ==
    ASSUME NEW r, IsRing(r), NEW s \in Server, NEW new \in add(r, s)
    PROVE  /\ IsRing(new)
           /\ \E pos \in HashValue : new = Insert(r, pos, s)
<1>1. PICK pos \in Positions(r) : new = Insert(r, pos, s) BY DEF add
<1>2. pos \in HashValue BY PositionsTyped DEF IsRing
<1>. QED BY <1>1, <1>2 DEF Insert, IsRing

\* What the steps keep of the primary's rings.
Rings == DOMAIN ring = Kind /\ \A k \in Kind : IsRing(ring[k])

\* A server is added to one ring, or no ring changes.
AddsOne ==
    \/ \E s \in Server, k \in Kind : \E r \in add(ring[k], s) : ring' = [ring EXCEPT ![k] = r]
    \/ UNCHANGED ring

\* Only the constructor of the primary and the joins change a ring.
LEMMA StepAddsOne == ASSUME [Next]_vars PROVE AddsOne
<1>1. ASSUME NEW s \in Server, masterd(s) PROVE AddsOne
  <2>1. CASE s = Primary /\ ring["master"] = NoServers
    BY <1>1, <2>1 DEF masterd, MasterController, AddsOne, Kind
  <2>. QED BY <1>1, <2>1 DEF masterd, MasterController, AddsOne
<1>2. ASSUME NEW s \in Server, join(s) PROVE AddsOne
  BY <1>2 DEF join, join_master_server, join_index_server, AddServer, AddsOne, Kind
<1>3. ASSUME NEW s \in Server,
             \/ indexd(s) \/ start_thread(s) \/ serve(s) \/ join_throws(s)
             \/ stop_master(s) \/ stop_index_server(s) \/ stop_server(s) \/ Killed(s)
      PROVE  AddsOne
  BY <1>3 DEF indexd, start_thread, serve, join_throws, stop_master, stop_index_server,
              stop_server, Killed, Stopping, AddsOne
<1>4. ASSUME \/ become_primary \/ UNCHANGED vars
             \/ \E c \in Client : \/ sync_master_server_map(c) \/ sync_index_server_map(c)
                                 \/ disconnect(c)
      PROVE  AddsOne
  BY <1>4 DEF become_primary, vars, sync_master_server_map, sync_index_server_map,
              disconnect, AddsOne
<1>. QED BY <1>1, <1>2, <1>3, <1>4 DEF Next

\* No step breaks a ring.
LEMMA RingsKept == ASSUME Rings, AddsOne PROVE Rings'
<1>1. CASE UNCHANGED ring BY <1>1 DEF Rings, IsRing
<1>2. ASSUME NEW s \in Server, NEW k \in Kind, NEW r \in add(ring[k], s),
             ring' = [ring EXCEPT ![k] = r]
      PROVE  Rings'
  BY <1>2, AddTyped DEF Rings, IsRing
<1>. QED BY <1>1, <1>2 DEF AddsOne

\* The rings of the primary are rings.
LEMMA RingsInvariant == Spec => []Rings
<1>1. Init => Rings BY SMT DEF Init, Rings, IsRing, NoServers
<1>2. Rings /\ [Next]_vars => Rings' BY StepAddsOne, RingsKept
<1>. QED BY <1>1, <1>2, PTL DEF Spec

\* A server that takes a free position takes paths from one other only.
NewPositionMovesOneRange ==
    \A k \in Kind :
        DOMAIN ring[k] # {} /\ DOMAIN ring'[k] # DOMAIN ring[k]
            => MovesOneRange(ring[k], ring'[k])

\* ServerMap::add() for hash values of any width and rings of any size, which
\* the runs bound: no position is ever lost, and a server that gets a new one
\* takes the paths of one range from one other position (server_map.cpp:66).
THEOREM ClusterMovesOneRange ==
    Spec => [][ /\ NewPositionMovesOneRange
                /\ \A k \in Kind : DOMAIN ring[k] \subseteq DOMAIN ring'[k] ]_vars
<1>. DEFINE Moves == /\ NewPositionMovesOneRange
                    /\ \A k \in Kind : DOMAIN ring[k] \subseteq DOMAIN ring'[k]
<1>1. ASSUME Rings, AddsOne PROVE Moves
  <2>1. CASE UNCHANGED ring BY <2>1 DEF NewPositionMovesOneRange
  <2>2. ASSUME NEW s \in Server, NEW j \in Kind, NEW r \in add(ring[j], s),
               ring' = [ring EXCEPT ![j] = r]
        PROVE  Moves
    <3>1. IsRing(ring[j]) /\ DOMAIN ring = Kind BY <1>1 DEF Rings
    <3>2. PICK pos \in HashValue : r = Insert(ring[j], pos, s) BY <3>1, AddTyped
    <3>3. DOMAIN r = DOMAIN ring[j] \cup {pos} BY <3>2 DEF Insert
    <3>4. ring'[j] = r /\ \A k \in Kind : k # j => ring'[k] = ring[k] BY <2>2, <3>1
    <3>5. DOMAIN ring[j] # {} /\ DOMAIN r # DOMAIN ring[j] => MovesOneRange(ring[j], r)
      BY <3>1, <3>2, <3>3, InsertMovesOneRange DEF IsRing
    <3>. QED BY <3>3, <3>4, <3>5 DEF NewPositionMovesOneRange
  <2>. QED BY <1>1, <2>1, <2>2 DEF AddsOne
<1>2. Rings /\ [Next]_vars => [Moves]_vars BY <1>1, StepAddsOne
<1>. QED BY <1>2, RingsInvariant, PTL DEF Spec

(***************************************************************************)
(* Type correctness                                                        *)
(***************************************************************************)

Ring == UNION {[D -> Server] : D \in SUBSET HashValue}

\* TypeOK, with the domains of the functions.
StateTyped ==
    /\ main \in [Server -> {"off", "prepared", "serving"}]
    /\ handler \in [Server -> BOOLEAN]
    /\ background \in [Server -> {"none", "joining", "done"}]
    /\ status \in [Server -> {"PREPARE", "RUNNING", "STOPPED"}]
    /\ ring \in [Kind -> Ring]
    /\ \A k \in Kind : Cardinality(DOMAIN ring[k]) <= MaxPositions[k]
    /\ cache \in [Client -> [at : {"off", "masters", "ready"}, rings : [Kind -> Ring]]]

\* A ring is a map from hash values, and is copied as it is.
LEMMA RingIs ==
    ASSUME NEW r \in Ring
    PROVE  /\ IsRing(r) /\ DOMAIN r \subseteq HashValue
           /\ r = [h \in DOMAIN r |-> r[h]]
           /\ get_ch_ring_as_map(r) = r
<1>1. PICK D \in SUBSET HashValue : r \in [D -> Server] BY DEF Ring
<1>2. DOMAIN r = D /\ r = [h \in D |-> r[h]] BY <1>1
<1>. QED BY <1>1, <1>2 DEF IsRing, get_ch_ring_as_map

\* A ring has finitely many positions.
LEMMA RingFinite ==
    ASSUME NEW D \in SUBSET HashValue
    PROVE  IsFiniteSet(D) /\ Cardinality(D) \in Nat
<1>1. -Half \in Int /\ Half - 1 \in Int BY SMT, ServerMapAssumption
<1>2. IsFiniteSet(HashValue) BY <1>1, FS_Interval DEF HashValue
<1>3. IsFiniteSet(D) BY <1>2, FS_Subset
<1>. QED BY <1>3, FS_CardinalityType

\* The ring without servers.
LEMMA NoServersRing == NoServers \in Ring /\ DOMAIN NoServers = {}
<1>1. DOMAIN NoServers = {} BY DEF NoServers
<1>2. NoServers \in [{} -> Server] BY SMT DEF NoServers
<1>. QED BY <1>1, <1>2 DEF Ring

\* add() makes at most one position more.
LEMMA AddGrows ==
    ASSUME NEW r \in Ring, NEW s \in Server, NEW new \in add(r, s)
    PROVE  /\ new \in Ring
           /\ Cardinality(DOMAIN new) <= Cardinality(DOMAIN r) + 1
           /\ Cardinality(DOMAIN r) \in Nat
<1>1. IsRing(r) BY RingIs
<1>2. PICK pos \in HashValue : new = Insert(r, pos, s) BY <1>1, AddTyped
<1>3. DOMAIN new = DOMAIN r \cup {pos} /\ new \in [DOMAIN r \cup {pos} -> Server]
  BY <1>1, <1>2 DEF Insert, IsRing
<1>4. DOMAIN r \cup {pos} \in SUBSET HashValue BY <1>1 DEF IsRing
<1>5. new \in Ring BY <1>3, <1>4 DEF Ring
<1>6. IsFiniteSet(DOMAIN r) /\ Cardinality(DOMAIN r) \in Nat BY <1>1, RingFinite DEF IsRing
<1>7. Cardinality(DOMAIN r \cup {pos}) =
        IF pos \in DOMAIN r THEN Cardinality(DOMAIN r) ELSE Cardinality(DOMAIN r) + 1
  BY <1>6, FS_AddElement
<1>8. Cardinality(DOMAIN r \cup {pos}) <= Cardinality(DOMAIN r) + 1 BY SMT, <1>6, <1>7
<1>. QED BY <1>3, <1>5, <1>6, <1>8

\* A process changes its own state only.
LEMMA ExitsTyped ==
    ASSUME StateTyped, NEW s \in Server, Exits(s)
    PROVE  /\ main' \in [Server -> {"off", "prepared", "serving"}]
           /\ handler' \in [Server -> BOOLEAN]
           /\ background' \in [Server -> {"none", "joining", "done"}]
           /\ status' \in [Server -> {"PREPARE", "RUNNING", "STOPPED"}]
BY DEF StateTyped, Exits

\* add() gives a ring again, within its bound.
LEMMA AddServerTyped ==
    ASSUME StateTyped, NEW s \in Server, NEW k \in Kind,
           NEW r \in add(ring[k], s), ring' = [ring EXCEPT ![k] = r],
           Cardinality(DOMAIN ring[k]) < MaxPositions[k]
    PROVE  /\ ring' \in [Kind -> Ring]
           /\ \A j \in Kind : Cardinality(DOMAIN ring'[j]) <= MaxPositions[j]
<1>1. ring[k] \in Ring BY DEF StateTyped
<1>2. /\ r \in Ring /\ Cardinality(DOMAIN r) <= Cardinality(DOMAIN ring[k]) + 1
      /\ Cardinality(DOMAIN ring[k]) \in Nat
  BY <1>1, AddGrows
<1>3. Cardinality(DOMAIN r) \in Nat BY <1>2, RingFinite, RingIs
<1>4. MaxPositions[k] \in Nat BY ClusterAssumption
<1>5. Cardinality(DOMAIN r) <= MaxPositions[k] BY SMT, <1>2, <1>3, <1>4
<1>. QED BY <1>2, <1>5 DEF StateTyped

\* The types of the state hold at first.
LEMMA InitStateTyped == Init => StateTyped
<1>. SUFFICES ASSUME Init PROVE StateTyped OBVIOUS
<1>1. ring \in [Kind -> Ring] /\ \A k \in Kind : ring[k] = NoServers
  BY NoServersRing DEF Init
<1>2. \A k \in Kind : Cardinality(DOMAIN ring[k]) <= MaxPositions[k]
  <2>1. \A k \in Kind : Cardinality(DOMAIN ring[k]) = 0 BY <1>1, NoServersRing, FS_EmptySet
  <2>2. \A k \in Kind : MaxPositions[k] \in Nat BY ClusterAssumption
  <2>. QED BY SMT, <2>1, <2>2
<1>3. cache \in [Client -> [at : {"off", "masters", "ready"}, rings : [Kind -> Ring]]]
  BY NoServersRing DEF Init, NoCache
<1>. QED BY <1>1, <1>2, <1>3 DEF Init, StateTyped

\* The steps of servers keep the types.
LEMMA ServerStepTyped ==
    ASSUME StateTyped, NEW s \in Server,
           \/ masterd(s) \/ indexd(s) \/ start_thread(s) \/ serve(s)
           \/ join(s) \/ join_throws(s)
           \/ stop_master(s) \/ stop_index_server(s) \/ stop_server(s) \/ Killed(s)
    PROVE  StateTyped'
<1>1. CASE masterd(s)
  <2>1. CASE UNCHANGED ring
    BY <1>1, <2>1 DEF masterd, Prepares, StateTyped
  <2>2. CASE /\ s = Primary /\ ring["master"] = NoServers
             /\ \E r \in add(NoServers, s) : ring' = [ring EXCEPT !["master"] = r]
    <3>1. "master" \in Kind BY DEF Kind
    <3>2. Cardinality(DOMAIN ring["master"]) < MaxPositions["master"]
      <4>1. Cardinality(DOMAIN ring["master"]) = 0 BY <2>2, NoServersRing, FS_EmptySet
      <4>2. MaxPositions["master"] \in Nat \ {0} BY <3>1, ClusterAssumption
      <4>. QED BY SMT, <4>1, <4>2
    <3>3. /\ ring' \in [Kind -> Ring]
          /\ \A j \in Kind : Cardinality(DOMAIN ring'[j]) <= MaxPositions[j]
      BY <2>2, <3>1, <3>2, AddServerTyped
    <3>. QED BY <1>1, <3>3 DEF masterd, Prepares, StateTyped
  <2>. QED BY <1>1, <2>1, <2>2 DEF masterd, MasterController
<1>2. CASE join(s)
  <2>1. PICK k \in Kind : AddServer(s, k)
    BY <1>2 DEF join, join_master_server, join_index_server, Kind
  <2>2. /\ ring' \in [Kind -> Ring]
        /\ \A j \in Kind : Cardinality(DOMAIN ring'[j]) <= MaxPositions[j]
    BY <2>1, AddServerTyped DEF AddServer
  <2>3. CASE Joined(s) /\ UNCHANGED <<main, handler>>
    BY <1>2, <2>2, <2>3 DEF join, Joined, StateTyped
  <2>4. CASE Exits(s) BY <1>2, <2>2, <2>4, ExitsTyped DEF join, StateTyped
  <2>. QED BY <1>2, <2>3, <2>4 DEF join
<1>3. CASE join_throws(s) \/ Killed(s)
  BY <1>3, ExitsTyped DEF join_throws, Killed, StateTyped
<1>4. CASE stop_server(s) BY <1>4, ExitsTyped DEF stop_server, StateTyped
<1>5. CASE indexd(s) \/ start_thread(s) \/ serve(s)
  BY <1>5 DEF indexd, Prepares, start_thread, serve, StateTyped
<1>6. CASE stop_master(s) \/ stop_index_server(s)
  BY <1>6 DEF stop_master, stop_index_server, Stopping, StateTyped
<1>. QED BY <1>1, <1>2, <1>3, <1>4, <1>5, <1>6

\* The steps of clients keep the types.
LEMMA ClientStepTyped ==
    ASSUME StateTyped, NEW c \in Client,
           sync_master_server_map(c) \/ sync_index_server_map(c) \/ disconnect(c)
    PROVE  StateTyped'
<1>. DEFINE Cache == [at : {"off", "masters", "ready"}, rings : [Kind -> Ring]]
<1>1. UNCHANGED <<main, handler, background, status, ring>>
  BY DEF sync_master_server_map, sync_index_server_map, disconnect
<1>2. cache \in [Client -> Cache] BY DEF StateTyped
<1>3. ASSUME NEW k \in Kind PROVE get_ch_ring_as_map(ring[k]) \in Ring
  <2>1. ring[k] \in Ring BY DEF StateTyped
  <2>2. get_ch_ring_as_map(ring[k]) = ring[k] BY <2>1, RingIs
  <2>. QED BY <2>1, <2>2
<1>4. cache' \in [Client -> Cache]
  <2>1. CASE sync_master_server_map(c)
    <3>1. get_all_masters \in Ring /\ "master" \in Kind BY <1>3 DEF get_all_masters, Kind
    <3>. QED BY <1>2, <2>1, <3>1 DEF sync_master_server_map
  <2>2. CASE sync_index_server_map(c)
    <3>1. get_all_index_servers \in Ring /\ "index" \in Kind
      BY <1>3 DEF get_all_index_servers, Kind
    <3>. QED BY <1>2, <2>2, <3>1 DEF sync_index_server_map
  <2>3. CASE disconnect(c)
    <3>1. NoCache \in Cache BY NoServersRing DEF NoCache
    <3>. QED BY <1>2, <2>3, <3>1 DEF disconnect
  <2>. QED BY <2>1, <2>2, <2>3
<1>. QED BY <1>1, <1>4 DEF StateTyped

\* The types of the state always hold.
LEMMA StateTypedInvariant == Spec => []StateTyped
<1>1. StateTyped /\ [Next]_vars => StateTyped'
  <2>. SUFFICES ASSUME StateTyped, [Next]_vars PROVE StateTyped' OBVIOUS
  <2>1. CASE become_primary
    <3>1. Primary \in Server BY ClusterAssumption DEF Server
    <3>. QED BY <2>1, <3>1 DEF become_primary, Joined, StateTyped
  <2>2. CASE UNCHANGED vars BY <2>2 DEF vars, StateTyped
  <2>. QED BY <2>1, <2>2, ServerStepTyped, ClientStepTyped DEF Next
<1>. QED BY <1>1, InitStateTyped, PTL DEF Spec

\* Servers that start, join, stop and die, and clients that copy the rings, keep
\* every ring a map from hash values to servers with at most MaxPositions
\* positions, whatever the arithmetic of add() overflows to.
THEOREM ClusterTypeOK == Spec => []TypeOK
<1>1. StateTyped => TypeOK
  <2>. SUFFICES ASSUME StateTyped PROVE TypeOK OBVIOUS
  <2>1. \A k \in Kind : IsRing(ring[k]) BY RingIs DEF StateTyped
  <2>2. ASSUME NEW c \in Client
        PROVE  /\ cache[c].at \in {"off", "masters", "ready"}
               /\ \A k \in Kind : IsRing(cache[c].rings[k])
    <3>1. cache[c] \in [at : {"off", "masters", "ready"}, rings : [Kind -> Ring]]
      BY DEF StateTyped
    <3>2. \A k \in Kind : cache[c].rings[k] \in Ring BY <3>1
    <3>. QED BY <3>1, <3>2, RingIs
  <2>. QED BY <2>1, <2>2 DEF StateTyped, TypeOK
<1>. QED BY <1>1, StateTypedInvariant, PTL

(***************************************************************************)
(* The positions of the first servers                                      *)
(***************************************************************************)

IsMin(S, x) == x \in S /\ \A y \in S : x <= y

\* Min, a CHOOSE, is the least element of a bounded set of integers.
LEMMA MinExists ==
    ASSUME NEW S, S \subseteq Int, S # {}, NEW b \in Int, \A s \in S : s >= b
    PROVE  IsMin(S, Min(S))
<1>. DEFINE T == {-s : s \in S}
<1>1. T \subseteq Int /\ T # {} /\ -b \in Int /\ \A x \in T : x <= -b
  <2>1. \A s \in S : -s \in Int /\ -s <= -b BY SMT
  <2>2. -b \in Int BY SMT
  <2>. QED BY <2>1, <2>2
<1>2. IsMax(T, Max(T))
  <2>. HIDE DEF T
  <2>. QED BY <1>1, MaxExists
<1>3. PICK s \in S : Max(T) = -s BY <1>2 DEF IsMax
<1>4. ASSUME NEW u \in S PROVE s <= u
  <2>1. Max(T) >= -u BY <1>2 DEF IsMax
  <2>2. -s >= -u BY <1>3, <2>1
  <2>. QED BY SMT, <2>2
<1>. QED BY <1>4 DEF Min, IsMin

\* b is the next position after a on the circle.
Follows(D, a, b) ==
    \/ a < b /\ \A d \in D : d <= a \/ b <= d
    \/ b <= a /\ \A d \in D : b <= d /\ d <= a

\* A range goes from a position to the next one, or from the last to the first.
LEMMA RangesAre ==
    ASSUME NEW r, DOMAIN r \subseteq HashValue, NEW a \in DOMAIN r, NEW b \in DOMAIN r
    PROVE  <<a, b>> \in Ranges(r) <=> Follows(DOMAIN r, a, b)
<1>. DEFINE D == DOMAIN r  above == {s \in D : s > a}
<1>0. D \subseteq Int /\ a \in D /\ b \in D /\ -Half \in Int /\ \A d \in D : d >= -Half
  <2>1. -Half \in Int /\ \A d \in HashValue : d \in Int /\ d >= -Half
    BY SMT, ServerMapAssumption DEF HashValue
  <2>. QED BY <2>1
<1>1. <<a, b>> \in Ranges(r) <=> b = Min(IF above = {} THEN D ELSE above) BY DEF Ranges
<1>2. IsMin(D, Min(D)) BY <1>0, MinExists
<1>3. above # {} => IsMin(above, Min(above))
  <2>1. above \subseteq Int /\ \A d \in above : d >= -Half BY <1>0
  <2>. HIDE DEF above
  <2>. QED BY <1>0, <2>1, MinExists
<1>4. CASE above = {}
  <2>1. \A d \in D : d <= a BY SMT, <1>0, <1>4
  <2>2. ~(a < b) BY SMT, <1>0, <2>1
  <2>3. Min(D) \in Int BY <1>0, <1>2 DEF IsMin
  <2>4. b = Min(D) <=> \A d \in D : b <= d BY SMT, <1>0, <1>2, <2>3 DEF IsMin
  <2>. QED BY <1>0, <1>1, <1>4, <2>1, <2>2, <2>4 DEF Follows
<1>5. CASE above # {}
  <2>0. IsMin(above, Min(above)) BY <1>3, <1>5
  <2>1. Min(above) \in Int /\ Min(above) > a /\ Min(above) \in D BY <1>0, <2>0 DEF IsMin
  <2>2. ASSUME b = Min(above) PROVE Follows(D, a, b)
    <3>1. a < b BY SMT, <1>0, <2>1, <2>2
    <3>2. \A d \in D : d <= a \/ b <= d BY SMT, <1>0, <2>0, <2>2 DEF IsMin
    <3>. QED BY <3>1, <3>2 DEF Follows
  <2>3. ASSUME Follows(D, a, b) PROVE b = Min(above)
    <3>1. ~(\A d \in D : d <= a) BY SMT, <1>0, <2>1
    <3>2. a < b /\ \A d \in D : d <= a \/ b <= d BY <2>3, <3>1 DEF Follows
    <3>3. b <= Min(above)
      <4>1. ~(Min(above) <= a) BY SMT, <1>0, <2>1
      <4>. QED BY <2>1, <3>2, <4>1
    <3>4. b \in above BY SMT, <1>0, <3>2
    <3>5. Min(above) <= b BY <2>0, <3>4 DEF IsMin
    <3>. QED BY SMT, <1>0, <2>1, <3>3, <3>5
  <2>. QED BY <1>1, <1>5, <2>2, <2>3
<1>. QED BY <1>4, <1>5

Span(a, b) == IF a < b THEN b - a ELSE MaxHash - a + b
Middle(a, b) ==
    IF a < b THEN Halve(Wrap(a + b))
    ELSE IF a = b THEN Wrap(a + MaxHash \div 2)
    ELSE Wrap(MaxHash \div 2 - Halve(a) + Halve(b) + a)
Longest(D, a, b) ==
    /\ a \in D /\ b \in D /\ Follows(D, a, b)
    /\ \A c, d \in D : Follows(D, c, d) => Span(c, d) <= Span(a, b)

\* On a ring with servers, add() takes the middle of a longest range.
LEMMA PositionsAre ==
    ASSUME NEW r, DOMAIN r \subseteq HashValue, DOMAIN r # {}, NEW pos \in Positions(r)
    PROVE  \E a, b \in DOMAIN r : Longest(DOMAIN r, a, b) /\ pos = Middle(a, b)
<1>1. PICK x \in get_max_range(r) : pos = median(x) BY DEF Positions
<1>2. x \in Ranges(r) /\ \A y \in Ranges(r) : Length(y) <= Length(x) BY <1>1 DEF get_max_range
<1>3. x \in (DOMAIN r) \X (DOMAIN r) BY <1>2 DEF Ranges
<1>4. PICK a \in DOMAIN r, b \in DOMAIN r : x = <<a, b>> BY SMT, <1>3
<1>5. Follows(DOMAIN r, a, b) BY <1>2, <1>4, RangesAre
<1>6. pos = Middle(a, b) BY SMT, <1>1, <1>4 DEF median, Middle
<1>7. \A c, d : Length(<<c, d>>) = Span(c, d) BY SMT DEF Length, Span
<1>8. ASSUME NEW c \in DOMAIN r, NEW d \in DOMAIN r, Follows(DOMAIN r, c, d)
      PROVE  Span(c, d) <= Span(a, b)
  <2>1. <<c, d>> \in Ranges(r) BY <1>8, RangesAre
  <2>. QED BY <1>2, <1>4, <1>7, <2>1
<1>. QED BY <1>5, <1>6, <1>8 DEF Longest

\* A sum of up to three hash values wraps around at most once.
LEMMA WrapIs ==
    ASSUME NEW x \in Int
    PROVE  /\ -Half <= x /\ x < Half => Wrap(x) = x
           /\ Half <= x /\ x < 3 * Half => Wrap(x) = x - 2 * Half
           /\ -3 * Half <= x /\ x < -Half => Wrap(x) = x + 2 * Half
<1>. DEFINE n == 2 * Half  y == x + Half
<1>0. n \in Nat /\ n > 0 /\ y \in Int /\ Half \in Nat BY SMT, ServerMapAssumption
<1>1. Wrap(x) = (y % n) - Half BY DEF Wrap
<1>. HIDE DEF n, y
<1>2. 0 <= y /\ y < n => y % n = y BY SMT, <1>0
<1>3. n <= y /\ y < 2 * n => y % n = y - n BY SMT, <1>0
<1>4. -n <= y /\ y < 0 => y % n = y + n BY SMT, <1>0
<1>. QED BY SMT, <1>0, <1>1, <1>2, <1>3, <1>4 DEF n, y

\* Halves are rounded towards zero.
LEMMA HalveIs ==
    ASSUME NEW x \in Int
    PROVE  /\ Halve(x) \in Int
           /\ x >= 0 => 2 * Halve(x) = x \/ 2 * Halve(x) = x - 1
           /\ x < 0 => 2 * Halve(x) = x \/ 2 * Halve(x) = x + 1
BY SMT DEF Halve

Eighth == Half \div 8
Second(p) == p + 4 * Eighth - 1
Third(p) ==
    LET x == p + 6 * Eighth - 1 - (p % 2)
    IN  IF x < Half THEN x ELSE x - 2 * Half
Fourth(p) ==
    IF Third(p) < 0 THEN p - 5 * Eighth - (p % 2)
    ELSE IF p + Second(p) < Half THEN p + 2 * Eighth - 1
    ELSE 1 - 4 * Eighth

\* What is known of the first position and of the width of hash values.
LEMMA Widths ==
    ASSUME FewPositions, NEW p \in FirstPosition
    PROVE  /\ Eighth \in Nat /\ Eighth >= 2 /\ Half = 8 * Eighth
           /\ MaxHash = 8 * Eighth - 1 /\ MaxHash \div 2 = 4 * Eighth - 1
           /\ p \in Nat /\ p <= 4 * Eighth - 1
           /\ Halve(p) \in Nat
           /\ \/ p % 2 = 0 /\ p = 2 * Halve(p)
              \/ p % 2 = 1 /\ p = 2 * Halve(p) + 1
<1>1. Half = 8 * Eighth /\ Eighth >= 2 BY DEF FewPositions, Eighth
<1>2. Half \in Nat BY ServerMapAssumption
<1>3. Eighth \in Nat BY SMT, <1>1, <1>2 DEF Eighth
<1>4. MaxHash = 8 * Eighth - 1 BY <1>1 DEF MaxHash
<1>5. MaxHash \div 2 = 4 * Eighth - 1 BY SMT, <1>3, <1>4
<1>6. p \in 0 .. (Half \div 2 - 1) BY ServerMapAssumption
<1>7. Half \div 2 = 4 * Eighth BY SMT, <1>1, <1>3
<1>8. p \in Nat /\ p <= 4 * Eighth - 1 BY SMT, <1>3, <1>6, <1>7
<1>9. /\ Halve(p) \in Nat
      /\ \/ p % 2 = 0 /\ p = 2 * Halve(p)
         \/ p % 2 = 1 /\ p = 2 * Halve(p) + 1
  BY SMT, <1>8 DEF Halve
<1>. QED BY <1>1, <1>3, <1>4, <1>5, <1>8, <1>9

\* Where the second server goes.
LEMMA SecondIs ==
    ASSUME FewPositions, NEW p \in FirstPosition, NEW a, NEW b, Longest({p}, a, b)
    PROVE  Middle(a, b) = Second(p) /\ Second(p) > p
<1>1. a = p /\ b = p BY DEF Longest
<1>2. /\ Eighth \in Nat /\ Eighth >= 2 /\ Half = 8 * Eighth
      /\ MaxHash \div 2 = 4 * Eighth - 1
      /\ p \in Nat /\ p <= 4 * Eighth - 1
  BY Widths
<1>3. ~(p < p) BY SMT, <1>2
<1>4. Middle(p, p) = Wrap(p + MaxHash \div 2) BY <1>3 DEF Middle
<1>5. p + MaxHash \div 2 = Second(p) BY SMT, <1>2 DEF Second
<1>6. Second(p) \in Int /\ -Half <= Second(p) /\ Second(p) < Half /\ Second(p) > p
  BY SMT, <1>2 DEF Second
<1>7. Wrap(Second(p)) = Second(p) BY <1>6, WrapIs
<1>. QED BY <1>1, <1>4, <1>5, <1>6, <1>7

\* Where the third server goes.
LEMMA ThirdIs ==
    ASSUME FewPositions, NEW p \in FirstPosition, NEW a, NEW b,
           Longest({p, Second(p)}, a, b)
    PROVE  Middle(a, b) = Third(p) /\ Third(p) \notin {p, Second(p)}
<1>. DEFINE m == Eighth  q == Second(p)  D == {p, q}  o == p % 2  e == Halve(p)
<1>1. /\ m \in Nat /\ m >= 2 /\ Half = 8 * m
      /\ MaxHash = 8 * m - 1
      /\ p \in Nat /\ p <= 4 * m - 1 /\ e \in Nat
      /\ (o = 0 /\ p = 2 * e) \/ (o = 1 /\ p = 2 * e + 1)
  BY Widths
<1>2. q = p + 4 * m - 1 /\ q \in Int BY SMT, <1>1 DEF Second
<1>3. Third(p) = IF p + 6 * m - 1 - o < Half THEN p + 6 * m - 1 - o
                   ELSE (p + 6 * m - 1 - o) - 2 * Half
  BY DEF Third
<1>4. /\ a \in D /\ b \in D /\ Follows(D, a, b)
      /\ \A c, d \in D : Follows(D, c, d) => Span(c, d) <= Span(a, b)
  BY DEF Longest
<1>. HIDE DEF m, q, o, e
<1>5. Follows(D, q, p) BY SMT, <1>1, <1>2 DEF Follows
<1>6. a = q /\ b = p
  <2>1. Span(q, p) <= Span(a, b) BY <1>4, <1>5
  <2>2. Follows(D, a, b) => (a = p /\ b = q) \/ (a = q /\ b = p)
    BY SMT, <1>1, <1>2, <1>4 DEF Follows
  <2>3. ~(Span(q, p) <= Span(p, q)) BY SMT, <1>1, <1>2 DEF Span
  <2>. QED BY <1>4, <2>1, <2>2, <2>3
<1>12. MaxHash \div 2 = 4 * m - 1 BY Widths DEF m
<1>7. Middle(q, p) = Wrap(4 * m - 1 - Halve(q) + e + q)
  BY SMT, <1>1, <1>2, <1>12 DEF Middle, e
<1>8. Halve(q) \in Int /\ (2 * Halve(q) = q \/ 2 * Halve(q) = q - 1)
  BY SMT, <1>1, <1>2, HalveIs
<1>9. 4 * m - 1 - Halve(q) + e + q = p + 6 * m - 1 - o
  BY SMT, <1>1, <1>2, <1>8
<1>10. Wrap(p + 6 * m - 1 - o) = Third(p)
  <2>. DEFINE x == p + 6 * m - 1 - o
  <2>1. x \in Int /\ -Half <= x /\ x < 3 * Half
    BY SMT, <1>1
  <2>2. /\ -Half <= x /\ x < Half => Wrap(x) = x
        /\ Half <= x /\ x < 3 * Half => Wrap(x) = x - 2 * Half
    BY <2>1, WrapIs
  <2>3. Third(p) = IF x < Half THEN x ELSE x - 2 * Half BY <1>3
  <2>. HIDE DEF x
  <2>4. Wrap(x) = Third(p) BY SMT, <1>1, <2>1, <2>2, <2>3
  <2>. QED BY <2>4 DEF x
<1>11. Third(p) # p /\ Third(p) # q BY SMT, <1>1, <1>2, <1>3
<1>. QED BY <1>6, <1>7, <1>9, <1>10, <1>11 DEF q

\* The three first positions, in the types that arithmetic needs.
LEMMA ThreeAre ==
    ASSUME FewPositions, NEW p \in FirstPosition
    PROVE  \E m, e \in Nat : \E o \in {0, 1} :
             /\ m = Eighth /\ m >= 2 /\ Half = 8 * m /\ MaxHash = 8 * m - 1
             /\ p \in Nat /\ p <= 4 * m - 1 /\ p = 2 * e + o
             /\ Second(p) = p + 4 * m - 1
             /\ \/ p + 6 * m - 1 - o < 8 * m /\ Third(p) = p + 6 * m - 1 - o
                \/ p + 6 * m - 1 - o >= 8 * m /\ Third(p) = p - 10 * m - 1 - o
             /\ Fourth(p) = IF Third(p) < 0 THEN p - 5 * m - o
                            ELSE IF p + Second(p) < 8 * m THEN p + 2 * m - 1
                            ELSE 1 - 4 * m
<1>. DEFINE m == Eighth  o == p % 2  e == Halve(p)
<1>1. /\ m \in Nat /\ m >= 2 /\ Half = 8 * m
      /\ MaxHash = 8 * m - 1
      /\ p \in Nat /\ p <= 4 * m - 1 /\ e \in Nat
      /\ (o = 0 /\ p = 2 * e) \/ (o = 1 /\ p = 2 * e + 1)
  BY Widths
<1>2. Second(p) = p + 4 * m - 1 BY DEF Second
<1>3. Third(p) = IF p + 6 * m - 1 - o < Half THEN p + 6 * m - 1 - o
                   ELSE (p + 6 * m - 1 - o) - 2 * Half
  BY DEF Third
<1>4. Fourth(p) = IF Third(p) < 0 THEN p - 5 * m - o
                  ELSE IF p + Second(p) < Half THEN p + 2 * m - 1
                  ELSE 1 - 4 * m
  BY DEF Fourth
<1>. HIDE DEF m, o, e
<1>5. \/ p + 6 * m - 1 - o < 8 * m /\ Third(p) = p + 6 * m - 1 - o
      \/ p + 6 * m - 1 - o >= 8 * m /\ Third(p) = p - 10 * m - 1 - o
  BY SMT, <1>1, <1>3
<1>6. o \in {0, 1} /\ p = 2 * e + o BY SMT, <1>1
<1>. QED BY <1>1, <1>2, <1>4, <1>5, <1>6 DEF m

\* The first four places differ.
LEMMA FourPlaces ==
    ASSUME FewPositions, NEW p \in FirstPosition
    PROVE  Third(p) \notin {p, Second(p)} /\ Fourth(p) \notin {p, Second(p), Third(p)}
<1>. DEFINE q == Second(p)  s == Third(p)  t == Fourth(p)
<1>1. PICK m \in Nat, e \in Nat, o \in {0, 1} :
             /\ m >= 2 /\ p \in Nat /\ p <= 4 * m - 1 /\ p = 2 * e + o
             /\ q = p + 4 * m - 1
             /\ \/ p + 6 * m - 1 - o < 8 * m /\ s = p + 6 * m - 1 - o
                \/ p + 6 * m - 1 - o >= 8 * m /\ s = p - 10 * m - 1 - o
             /\ t = IF s < 0 THEN p - 5 * m - o
                    ELSE IF p + q < 8 * m THEN p + 2 * m - 1
                    ELSE 1 - 4 * m
  BY ThreeAre
<1>. HIDE DEF q, s, t
<1>2. s \notin {p, q} /\ t \notin {p, q, s} BY SMT, <1>1
<1>. QED BY <1>2 DEF q, s, t

\* Neighbours among positions that are sorted.
LEMMA Follows3 ==
    ASSUME NEW x \in Int, NEW y \in Int, NEW z \in Int, x < y, y < z,
           NEW D, D = {x, y, z}, NEW a \in D, NEW b \in D, Follows(D, a, b)
    PROVE  (a = x /\ b = y) \/ (a = y /\ b = z) \/ (a = z /\ b = x)
<1>1. x \in D /\ y \in D /\ z \in D OBVIOUS
<1>2. \/ /\ a < b
         /\ x <= a \/ b <= x
         /\ y <= a \/ b <= y
         /\ z <= a \/ b <= z
      \/ /\ b <= a
         /\ b <= x /\ z <= a
  BY <1>1 DEF Follows
<1>3. a \in {x, y, z} /\ b \in {x, y, z} OBVIOUS
<1>. QED BY SMT, <1>2, <1>3

\* Where the fourth server goes.
LEMMA FourthIs ==
    ASSUME FewPositions, NEW p \in FirstPosition, NEW a, NEW b,
           Longest({p, Second(p), Third(p)}, a, b)
    PROVE  Middle(a, b) = Fourth(p) /\ Fourth(p) \notin {p, Second(p), Third(p)}
<1>. DEFINE q == Second(p)  s == Third(p)  D == {p, q, s}
<1>1. PICK m \in Nat, e \in Nat, o \in {0, 1} :
             /\ m = Eighth /\ m >= 2 /\ Half = 8 * m /\ MaxHash = 8 * m - 1
             /\ p \in Nat /\ p <= 4 * m - 1 /\ p = 2 * e + o
             /\ q = p + 4 * m - 1
             /\ \/ p + 6 * m - 1 - o < 8 * m /\ s = p + 6 * m - 1 - o
                \/ p + 6 * m - 1 - o >= 8 * m /\ s = p - 10 * m - 1 - o
             /\ Fourth(p) = IF s < 0 THEN p - 5 * m - o
                            ELSE IF p + q < 8 * m THEN p + 2 * m - 1
                            ELSE 1 - 4 * m
  BY ThreeAre
<1>7. a \in D /\ b \in D /\ Follows(D, a, b) BY DEF Longest
<1>2. \A c, d \in D : Follows(D, c, d) => Span(c, d) <= Span(a, b)
  BY DEF Longest
<1>. HIDE DEF q, s
<1>3. s \in Int /\ q \in Int /\ p \in Int BY SMT, <1>1
<1>4. Fourth(p) \notin D BY SMT, <1>1, <1>3
<1>5. CASE s = p + 6 * m - 1 - o /\ s < 8 * m
  <2>1. Follows(D, p, q) BY SMT, <1>1, <1>3, <1>5 DEF Follows
  <2>2. Span(p, q) <= Span(a, b) BY <1>2, <1>7, <2>1
  <2>3. (a = p /\ b = q) \/ (a = q /\ b = s) \/ (a = s /\ b = p)
    <3>1. p < q /\ q < s BY SMT, <1>1, <1>3, <1>5
    <3>2. D = {p, q, s} OBVIOUS
    <3>. HIDE DEF D
    <3>. QED BY SMT, <1>3, <1>7, <3>1, <3>2, Follows3
  <2>4. ~(Span(p, q) <= Span(q, s)) BY SMT, <1>1, <1>3, <1>5 DEF Span
  <2>5. ~(Span(p, q) <= Span(s, p)) BY SMT, <1>1, <1>3, <1>5 DEF Span
  <2>6. a = p /\ b = q BY <2>2, <2>3, <2>4, <2>5
  <2>7. Middle(p, q) = Halve(Wrap(p + q)) BY SMT, <1>1, <1>3 DEF Middle
  <2>8. Halve(Wrap(p + q)) = Fourth(p)
    <3>1. p + q \in Int /\ -Half <= p + q /\ p + q < 3 * Half BY SMT, <1>1, <1>3
    <3>2. Wrap(p + q) = IF p + q < 8 * m THEN p + q ELSE p + q - 16 * m
      <4>1. /\ p + q < Half => Wrap(p + q) = p + q
            /\ Half <= p + q => Wrap(p + q) = (p + q) - 2 * Half
        BY <3>1, WrapIs
      <4>. QED BY SMT, <1>1, <3>1, <4>1
    <3>. DEFINE w == Wrap(p + q)
    <3>3. w \in Int BY SMT, <1>1, <3>1, <3>2
    <3>4. /\ Halve(w) \in Int
          /\ w >= 0 => 2 * Halve(w) = w \/ 2 * Halve(w) = w - 1
          /\ w < 0 => 2 * Halve(w) = w \/ 2 * Halve(w) = w + 1
      BY <3>3, HalveIs
    <3>. HIDE DEF w
    <3>5. w = IF p + q < 8 * m THEN p + q ELSE p + q - 16 * m BY <3>2 DEF w
    <3>6. Halve(w) = Fourth(p) BY SMT, <1>1, <1>3, <1>5, <3>3, <3>4, <3>5
    <3>. QED BY <3>6 DEF w
  <2>. QED BY <1>4, <2>6, <2>7, <2>8 DEF q, s
<1>6. CASE s = p - 10 * m - 1 - o /\ p + 6 * m - 1 - o >= 8 * m
  <2>1. Follows(D, s, p) BY SMT, <1>1, <1>3, <1>6 DEF Follows
  <2>2. Span(s, p) <= Span(a, b) BY <1>2, <1>7, <2>1
  <2>3. (a = s /\ b = p) \/ (a = p /\ b = q) \/ (a = q /\ b = s)
    <3>1. s < p /\ p < q BY SMT, <1>1, <1>3, <1>6
    <3>2. D = {s, p, q} OBVIOUS
    <3>. HIDE DEF D
    <3>. QED BY SMT, <1>3, <1>7, <3>1, <3>2, Follows3
  <2>4. ~(Span(s, p) <= Span(p, q)) BY SMT, <1>1, <1>3, <1>6 DEF Span
  <2>5. ~(Span(s, p) <= Span(q, s)) BY SMT, <1>1, <1>3, <1>6 DEF Span
  <2>6. a = s /\ b = p BY <2>2, <2>3, <2>4, <2>5
  <2>7. Middle(s, p) = Halve(Wrap(s + p)) BY SMT, <1>1, <1>3, <1>6 DEF Middle
  <2>8. s + p \in Int /\ -Half <= s + p /\ s + p < 0 /\ s + p < Half
    BY SMT, <1>1, <1>3, <1>6
  <2>9. Wrap(s + p) = s + p BY <2>8, WrapIs
  <2>10. /\ Halve(s + p) \in Int
         /\ 2 * Halve(s + p) = s + p \/ 2 * Halve(s + p) = s + p + 1
    BY <2>8, HalveIs
  <2>11. Halve(s + p) = Fourth(p) BY SMT, <1>1, <1>3, <1>6, <2>8, <2>10
  <2>. QED BY <1>4, <2>6, <2>7, <2>9, <2>11 DEF q, s
<1>. QED BY SMT, <1>1, <1>3, <1>5, <1>6

\* The four ranges between four positions.
LEMMA Follows4 ==
    ASSUME NEW x \in Int, NEW y \in Int, NEW z \in Int, NEW w \in Int, x < y, y < z, z < w,
           NEW D, D = {x, y, z, w}, NEW a \in D, NEW b \in D, Follows(D, a, b)
    PROVE  \/ (a = x /\ b = y) \/ (a = y /\ b = z)
           \/ (a = z /\ b = w) \/ (a = w /\ b = x)
<1>1. x \in D /\ y \in D /\ z \in D /\ w \in D OBVIOUS
<1>2. \/ /\ a < b
         /\ x <= a \/ b <= x
         /\ y <= a \/ b <= y
         /\ z <= a \/ b <= z
         /\ w <= a \/ b <= w
      \/ /\ b <= a
         /\ b <= x /\ w <= a
  BY <1>1 DEF Follows
<1>3. a \in {x, y, z, w} /\ b \in {x, y, z, w} OBVIOUS
<1>. QED BY SMT, <1>2, <1>3

\* h is half of w, which a + b wraps around to.
HalfOf(h, w, a, b) ==
    /\ \/ w = a + b /\ w >= -Half /\ w < Half
       \/ w = a + b - 2 * Half /\ a + b >= Half
       \/ w = a + b + 2 * Half /\ a + b < -Half
    /\ w >= 0 => 2 * h = w \/ 2 * h = w - 1
    /\ w < 0 => 2 * h = w \/ 2 * h = w + 1

\* The middle between a position and a higher one.
LEMMA MiddleIs ==
    ASSUME NEW a \in HashValue, NEW b \in HashValue, a < b
    PROVE  \E w, h \in Int : Middle(a, b) = h /\ HalfOf(h, w, a, b)
<1>. DEFINE x == a + b  w == Wrap(x)
<1>0. a \in Int /\ b \in Int /\ Half \in Nat BY HashValues, ServerMapAssumption
<1>1. x \in Int /\ -3 * Half <= x /\ x < 3 * Half
  BY SMT, <1>0, ServerMapAssumption DEF HashValue
<1>2. Middle(a, b) = Halve(w) BY DEF Middle
<1>3. /\ -Half <= x /\ x < Half => w = x
      /\ Half <= x /\ x < 3 * Half => w = x - 2 * Half
      /\ -3 * Half <= x /\ x < -Half => w = x + 2 * Half
  BY <1>1, WrapIs
<1>4. w \in Int BY <1>1, WrapTyped, HashValues
<1>5. /\ Halve(w) \in Int
      /\ w >= 0 => 2 * Halve(w) = w \/ 2 * Halve(w) = w - 1
      /\ w < 0 => 2 * Halve(w) = w \/ 2 * Halve(w) = w + 1
  BY <1>4, HalveIs
<1>. HIDE DEF w
<1>6. \/ w = a + b /\ w >= -Half /\ w < Half
      \/ w = a + b - 2 * Half /\ a + b >= Half
      \/ w = a + b + 2 * Half /\ a + b < -Half
  BY SMT, <1>0, <1>1, <1>3, <1>4
<1>. QED BY <1>2, <1>4, <1>5, <1>6 DEF HalfOf

\* The fifth server gets a place of its own, if the hash values are wide enough.
LEMMA FifthIs ==
    ASSUME FewPositions, Eighth >= 8, NEW p \in FirstPosition, NEW a, NEW b,
           Longest({p, Second(p), Third(p), Fourth(p)}, a, b)
    PROVE  Middle(a, b) \notin {p, Second(p), Third(p), Fourth(p)}
<1>. DEFINE q == Second(p)  s == Third(p)  t == Fourth(p)  D == {p, q, s, t}
<1>1. PICK m \in Nat, e \in Nat, o \in {0, 1} :
             /\ m = Eighth /\ m >= 2 /\ Half = 8 * m /\ MaxHash = 8 * m - 1
             /\ p \in Nat /\ p <= 4 * m - 1 /\ p = 2 * e + o
             /\ q = p + 4 * m - 1
             /\ \/ p + 6 * m - 1 - o < 8 * m /\ s = p + 6 * m - 1 - o
                \/ p + 6 * m - 1 - o >= 8 * m /\ s = p - 10 * m - 1 - o
             /\ t = IF s < 0 THEN p - 5 * m - o
                    ELSE IF p + q < 8 * m THEN p + 2 * m - 1
                    ELSE 1 - 4 * m
  BY ThreeAre
<1>2. a \in D /\ b \in D /\ Follows(D, a, b) BY DEF Longest
<1>3. \A c, d \in D : Follows(D, c, d) => Span(c, d) <= Span(a, b) BY DEF Longest
<1>4. m >= 8 /\ MaxHash \div 2 = 4 * m - 1 BY <1>1, Widths
<1>. HIDE DEF q, s, t
<1>5. /\ p \in Int /\ q \in Int /\ s \in Int /\ t \in Int
      /\ p \in HashValue /\ q \in HashValue /\ s \in HashValue /\ t \in HashValue
  BY SMT, <1>1 DEF HashValue
<1>6. SUFFICES Middle(a, b) \notin D BY DEF q, s, t
<1>7. CASE s = p + 6 * m - 1 - o /\ s < 8 * m /\ t = p + 2 * m - 1 /\ p + q < 8 * m
  <2>1. p < t /\ t < q /\ q < s BY SMT, <1>1, <1>7
  <2>2. (a = p /\ b = t) \/ (a = t /\ b = q) \/ (a = q /\ b = s) \/ (a = s /\ b = p)
    <3>1. D = {p, t, q, s} OBVIOUS
    <3>. HIDE DEF D
    <3>. QED BY SMT, <1>2, <1>5, <2>1, <3>1, Follows4
  <2>3. ~(a = p /\ b = t)
    <3>1. Follows(D, s, p) BY SMT, <1>5, <2>1 DEF Follows
    <3>2. Span(s, p) <= Span(a, b) BY <1>3, <3>1
    <3>3. ~(Span(s, p) <= Span(p, t)) BY SMT, <1>1, <1>5, <1>7, <2>1 DEF Span
    <3>. QED BY <3>2, <3>3
  <2>4. Middle(t, q) \notin D
    <3>1. PICK w \in Int, h \in Int : Middle(t, q) = h /\ HalfOf(h, w, t, q)
      BY <1>5, <2>1, MiddleIs
    <3>. QED BY SMT, <1>1, <1>5, <1>7, <3>1 DEF HalfOf
  <2>5. Middle(q, s) \notin D
    <3>1. PICK w \in Int, h \in Int : Middle(q, s) = h /\ HalfOf(h, w, q, s)
      BY <1>5, <2>1, MiddleIs
    <3>. QED BY SMT, <1>1, <1>4, <1>5, <1>7, <3>1 DEF HalfOf
  <2>6. Middle(s, p) \notin D
    <3>. DEFINE x == 4 * m - 1 - Halve(s) + Halve(p) + s
    <3>1. Middle(s, p) = Wrap(x) BY SMT, <1>4, <1>5, <2>1 DEF Middle
    <3>2. /\ Halve(s) \in Int /\ (2 * Halve(s) = s \/ 2 * Halve(s) = s - 1)
          /\ Halve(p) \in Int /\ (2 * Halve(p) = p \/ 2 * Halve(p) = p - 1)
      <4>1. s >= 0 /\ p >= 0 BY SMT, <1>1, <1>5, <1>7
      <4>. QED BY <1>5, <4>1, HalveIs
    <3>3. x \in Int /\ x = p - o + 7 * m - 1 BY SMT, <1>1, <1>5, <1>7, <3>2
    <3>. HIDE DEF x
    <3>4. -Half <= x /\ x < 3 * Half BY SMT, <1>1, <3>3
    <3>5. /\ x < Half => Wrap(x) = x
          /\ Half <= x => Wrap(x) = x - 2 * Half
      BY <3>3, <3>4, WrapIs
    <3>. QED BY SMT, <1>1, <1>4, <1>5, <1>7, <3>1, <3>3, <3>5
  <2>. QED BY <2>2, <2>3, <2>4, <2>5, <2>6
<1>8. CASE p = 2 * m + 1 /\ q = 6 * m /\ s = 8 * m - 1 /\ t = 1 - 4 * m
  <2>1. t < p /\ p < q /\ q < s BY SMT, <1>1, <1>8
  <2>2. (a = t /\ b = p) \/ (a = p /\ b = q) \/ (a = q /\ b = s) \/ (a = s /\ b = t)
    <3>1. D = {t, p, q, s} OBVIOUS
    <3>. HIDE DEF D
    <3>. QED BY SMT, <1>2, <1>5, <2>1, <3>1, Follows4
  <2>3. Follows(D, t, p) BY SMT, <1>5, <2>1 DEF Follows
  <2>4. Span(t, p) <= Span(a, b) BY <1>3, <2>3
  <2>5. /\ ~(Span(t, p) <= Span(p, q)) /\ ~(Span(t, p) <= Span(q, s))
        /\ ~(Span(t, p) <= Span(s, t))
    BY SMT, <1>1, <1>8 DEF Span
  <2>6. a = t /\ b = p BY <2>2, <2>4, <2>5
  <2>7. PICK w \in Int, h \in Int : Middle(t, p) = h /\ HalfOf(h, w, t, p)
    BY <1>5, <2>1, MiddleIs
  <2>8. Middle(t, p) \notin D BY SMT, <1>1, <1>4, <1>5, <1>8, <2>7 DEF HalfOf
  <2>. QED BY <2>6, <2>8
<1>9. CASE s = p - 10 * m - 1 - o /\ p + 6 * m - 1 - o >= 8 * m /\ t = p - 5 * m - o
  <2>1. s < t /\ t < p /\ p < q BY SMT, <1>1, <1>9
  <2>2. (a = s /\ b = t) \/ (a = t /\ b = p) \/ (a = p /\ b = q) \/ (a = q /\ b = s)
    <3>1. D = {s, t, p, q} OBVIOUS
    <3>. HIDE DEF D
    <3>. QED BY SMT, <1>2, <1>5, <2>1, <3>1, Follows4
  <2>3. Follows(D, s, t) BY SMT, <1>5, <2>1 DEF Follows
  <2>4. Span(s, t) <= Span(a, b) BY <1>3, <2>3
  <2>5. ~(Span(s, t) <= Span(p, q)) /\ ~(Span(s, t) <= Span(q, s))
    BY SMT, <1>1, <1>9 DEF Span
  <2>6. (a = s /\ b = t) \/ (a = t /\ b = p) BY <2>2, <2>4, <2>5
  <2>7. Middle(s, t) \notin D
    <3>1. PICK w \in Int, h \in Int : Middle(s, t) = h /\ HalfOf(h, w, s, t)
      BY <1>5, <2>1, MiddleIs
    <3>. QED BY SMT, <1>1, <1>4, <1>5, <1>9, <3>1 DEF HalfOf
  <2>8. Middle(t, p) \notin D
    <3>1. PICK w \in Int, h \in Int : Middle(t, p) = h /\ HalfOf(h, w, t, p)
      BY <1>5, <2>1, MiddleIs
    <3>. QED BY SMT, <1>1, <1>4, <1>5, <1>9, <3>1 DEF HalfOf
  <2>. QED BY <2>6, <2>7, <2>8
<1>. QED
  <2>1. CASE s < 0 BY SMT, <1>1, <1>5, <1>9, <2>1
  <2>2. CASE ~(s < 0) /\ p + q < 8 * m BY SMT, <1>1, <1>5, <1>7, <2>2
  <2>3. CASE ~(s < 0) /\ ~(p + q < 8 * m) BY SMT, <1>1, <1>5, <1>8, <2>3
  <2>. QED BY <2>1, <2>2, <2>3

(***************************************************************************)
(* Few servers each get a position of their own                            *)
(***************************************************************************)

\* The positions that the first servers of a ring get, one after the other.
Placed(D) ==
    \/ D = {}
    \/ \E p \in FirstPosition :
        \/ D = {p} \/ D = {p, Second(p)} \/ D = {p, Second(p), Third(p)}
        \/ D = {p, Second(p), Third(p), Fourth(p)}
    \/ Cardinality(D) = 5

\* A server that joins a ring of fewer than MaxPositions finds a free position.
LEMMA FreePosition ==
    ASSUME FewPositions, NEW k \in Kind, NEW r \in Ring, Placed(DOMAIN r),
           Cardinality(DOMAIN r) < MaxPositions[k], NEW pos \in Positions(r)
    PROVE  pos \notin DOMAIN r /\ Placed(DOMAIN r \cup {pos})
<1>. DEFINE D == DOMAIN r
<1>0. /\ D \subseteq HashValue /\ IsFiniteSet(D) /\ Cardinality(D) \in Nat
      /\ MaxPositions[k] \in Nat
  BY RingIs, RingFinite, ClusterAssumption
<1>1. MaxPositions[k] <= IF Eighth >= 8 THEN 5 ELSE 4 BY DEF FewPositions, Eighth
<1>2. D # {} => \E a, b \in D : Longest(D, a, b) /\ pos = Middle(a, b)
  BY <1>0, PositionsAre
<1>3. CASE D = {}
  <2>1. pos \in FirstPosition BY <1>3 DEF Positions
  <2>. QED BY <1>3, <2>1 DEF Placed
<1>4. ASSUME NEW p \in FirstPosition, D = {p} PROVE pos \notin D /\ Placed(D \cup {pos})
  <2>0. PICK a \in D, b \in D : Longest({p}, a, b) /\ pos = Middle(a, b) BY <1>2, <1>4
  <2>1. pos = Second(p) /\ Second(p) > p BY <2>0, SecondIs
  <2>2. p \in Nat BY Widths
  <2>3. Second(p) # p BY SMT, <2>1, <2>2
  <2>4. D \cup {pos} = {p, Second(p)} BY <1>4, <2>1
  <2>. QED BY <1>4, <2>1, <2>3, <2>4 DEF Placed
<1>5. ASSUME NEW p \in FirstPosition, D = {p, Second(p)}
      PROVE  pos \notin D /\ Placed(D \cup {pos})
  <2>0. PICK a \in D, b \in D : Longest(D, a, b) /\ pos = Middle(a, b) BY <1>2, <1>5
  <2>1. pos = Third(p) /\ Third(p) \notin D
    <3>1. Longest({p, Second(p)}, a, b) BY <2>0, <1>5
    <3>2. Middle(a, b) = Third(p) /\ Third(p) \notin {p, Second(p)} BY <3>1, ThirdIs
    <3>. QED BY <2>0, <3>2, <1>5
  <2>2. D \cup {pos} = {p, Second(p), Third(p)} BY <1>5, <2>1
  <2>. QED BY <2>1, <2>2 DEF Placed
<1>6. ASSUME NEW p \in FirstPosition, D = {p, Second(p), Third(p)}
      PROVE  pos \notin D /\ Placed(D \cup {pos})
  <2>0. PICK a \in D, b \in D : Longest(D, a, b) /\ pos = Middle(a, b) BY <1>2, <1>6
  <2>1. pos = Fourth(p) /\ Fourth(p) \notin D
    <3>1. Longest({p, Second(p), Third(p)}, a, b) BY <2>0, <1>6
    <3>2. Middle(a, b) = Fourth(p) /\ Fourth(p) \notin {p, Second(p), Third(p)} BY <3>1, FourthIs
    <3>. QED BY <2>0, <3>2, <1>6
  <2>2. D \cup {pos} = {p, Second(p), Third(p), Fourth(p)} BY <1>6, <2>1
  <2>. QED BY <2>1, <2>2 DEF Placed
<1>7. ASSUME NEW p \in FirstPosition, D = {p, Second(p), Third(p), Fourth(p)}
      PROVE  pos \notin D /\ Placed(D \cup {pos})
  <2>1. Cardinality(D) = 4
    <3>1. Second(p) # p
      <4>1. Eighth \in Nat /\ Eighth >= 2 /\ p \in Nat BY Widths
      <4>. QED BY SMT, <4>1 DEF Second
    <3>2. Third(p) \notin {p, Second(p)} /\ Fourth(p) \notin {p, Second(p), Third(p)}
      BY FourPlaces
    <3>3. IsFiniteSet({p}) /\ Cardinality({p}) = 1 BY FS_Singleton
    <3>4. IsFiniteSet({p, Second(p)}) /\ Cardinality({p, Second(p)}) = 2
      <4>1. {p} \cup {Second(p)} = {p, Second(p)} /\ Second(p) \notin {p} BY <3>1
      <4>2. 1 + 1 = 2 BY SMT
      <4>3. /\ IsFiniteSet({p} \cup {Second(p)})
            /\ Cardinality({p} \cup {Second(p)}) = IF Second(p) \in {p} THEN 1 ELSE 1 + 1
        BY <3>3, FS_AddElement
      <4>. QED BY <4>1, <4>2, <4>3
    <3>5. /\ IsFiniteSet({p, Second(p), Third(p)})
          /\ Cardinality({p, Second(p), Third(p)}) = 3
      <4>1. {p, Second(p)} \cup {Third(p)} = {p, Second(p), Third(p)} OBVIOUS
      <4>2. 2 + 1 = 3 BY SMT
      <4>3. /\ IsFiniteSet({p, Second(p)} \cup {Third(p)})
            /\ Cardinality({p, Second(p)} \cup {Third(p)}) =
                 IF Third(p) \in {p, Second(p)} THEN 2 ELSE 2 + 1
        BY <3>4, FS_AddElement
      <4>. QED BY <3>2, <4>1, <4>2, <4>3
    <3>6. {p, Second(p), Third(p)} \cup {Fourth(p)} = D BY <1>7
    <3>7. 3 + 1 = 4 BY SMT
    <3>8. Cardinality({p, Second(p), Third(p)} \cup {Fourth(p)}) =
            IF Fourth(p) \in {p, Second(p), Third(p)} THEN 3 ELSE 3 + 1
      BY <3>5, FS_AddElement
    <3>. QED BY <3>2, <3>6, <3>7, <3>8
  <2>2. Eighth >= 8 BY SMT, <1>0, <1>1, <2>1
  <2>3. pos \notin D
    <3>1. PICK a \in D, b \in D : Longest(D, a, b) /\ pos = Middle(a, b) BY <1>2, <1>7
    <3>2. Longest({p, Second(p), Third(p), Fourth(p)}, a, b) BY <1>7, <3>1
    <3>3. Middle(a, b) \notin {p, Second(p), Third(p), Fourth(p)} BY <2>2, <3>2, FifthIs
    <3>. QED BY <1>7, <3>1, <3>3
  <2>4. Cardinality(D \cup {pos}) = 4 + 1 BY <1>0, <2>1, <2>3, FS_AddElement
  <2>5. 4 + 1 = 5 BY SMT
  <2>. QED BY <2>3, <2>4, <2>5 DEF Placed
<1>8. Cardinality(D) # 5 BY SMT, <1>0, <1>1
<1>. QED BY <1>3, <1>4, <1>5, <1>6, <1>7, <1>8 DEF Placed

\* A server is added at a free position, or no ring changes.
AddsFree ==
    \/ \E s \in Server, k \in Kind, pos \in HashValue :
        /\ pos \notin DOMAIN ring[k] /\ Placed(DOMAIN ring[k] \cup {pos})
        /\ ring' = [ring EXCEPT ![k] = Insert(ring[k], pos, s)]
    \/ UNCHANGED ring

AllPlaced == \A k \in Kind : Placed(DOMAIN ring[k])

\* With few positions add() never meets one in use.
LEMMA AddsWhereFree ==
    ASSUME FewPositions, StateTyped, AllPlaced, NEW s \in Server, NEW k \in Kind,
           Cardinality(DOMAIN ring[k]) < MaxPositions[k],
           NEW r \in add(ring[k], s), ring' = [ring EXCEPT ![k] = r]
    PROVE  AddsFree
<1>1. ring[k] \in Ring /\ Placed(DOMAIN ring[k]) BY DEF StateTyped, AllPlaced
<1>2. PICK pos \in Positions(ring[k]) : r = Insert(ring[k], pos, s) BY DEF add
<1>3. pos \notin DOMAIN ring[k] /\ Placed(DOMAIN ring[k] \cup {pos}) BY <1>1, FreePosition
<1>4. pos \in HashValue BY <1>1, RingIs, PositionsTyped
<1>. QED BY <1>2, <1>3, <1>4 DEF AddsFree

\* With few positions no step of the cluster puts a server where another one is.
LEMMA StepAddsFree ==
    ASSUME FewPositions, StateTyped, AllPlaced, [Next]_vars
    PROVE  AddsFree
<1>1. ASSUME NEW s \in Server, masterd(s) PROVE AddsFree
  <2>1. CASE /\ s = Primary /\ ring["master"] = NoServers
             /\ \E r \in add(NoServers, s) : ring' = [ring EXCEPT !["master"] = r]
    <3>1. "master" \in Kind BY DEF Kind
    <3>2. Cardinality(DOMAIN ring["master"]) < MaxPositions["master"]
      <4>1. Cardinality(DOMAIN ring["master"]) = 0 BY <2>1, NoServersRing, FS_EmptySet
      <4>2. MaxPositions["master"] \in Nat \ {0} BY <3>1, ClusterAssumption
      <4>. QED BY SMT, <4>1, <4>2
    <3>. QED BY <2>1, <3>1, <3>2, AddsWhereFree
  <2>. QED BY <1>1, <2>1 DEF masterd, MasterController, AddsFree
<1>2. ASSUME NEW s \in Server, join(s) PROVE AddsFree
  <2>1. PICK k \in Kind : AddServer(s, k)
    BY <1>2 DEF join, join_master_server, join_index_server, Kind
  <2>. QED BY <2>1, AddsWhereFree DEF AddServer
<1>3. ASSUME NEW s \in Server,
             \/ indexd(s) \/ start_thread(s) \/ serve(s) \/ join_throws(s)
             \/ stop_master(s) \/ stop_index_server(s) \/ stop_server(s) \/ Killed(s)
      PROVE  AddsFree
  BY <1>3 DEF indexd, start_thread, serve, join_throws, stop_master, stop_index_server,
              stop_server, Killed, Stopping, AddsFree
<1>4. ASSUME \/ become_primary \/ UNCHANGED vars
             \/ \E c \in Client : \/ sync_master_server_map(c) \/ sync_index_server_map(c)
                                 \/ disconnect(c)
      PROVE  AddsFree
  BY <1>4 DEF become_primary, vars, sync_master_server_map, sync_index_server_map,
              disconnect, AddsFree
<1>. QED BY <1>1, <1>2, <1>3, <1>4 DEF Next

\* A server at a free position keeps all the positions where Placed has them.
LEMMA PlacedKept == ASSUME StateTyped, AllPlaced, AddsFree PROVE AllPlaced'
<1>1. CASE UNCHANGED ring BY <1>1 DEF AllPlaced
<1>2. ASSUME NEW s \in Server, NEW k \in Kind, NEW pos \in HashValue,
             Placed(DOMAIN ring[k] \cup {pos}),
             ring' = [ring EXCEPT ![k] = Insert(ring[k], pos, s)]
      PROVE  AllPlaced'
  <2>1. DOMAIN ring = Kind BY DEF StateTyped
  <2>2. \A j \in Kind : ring'[j] = IF j = k THEN Insert(ring[k], pos, s) ELSE ring[j]
    BY <1>2, <2>1
  <2>3. DOMAIN Insert(ring[k], pos, s) = DOMAIN ring[k] \cup {pos} BY DEF Insert
  <2>4. \A j \in Kind : Placed(DOMAIN ring'[j]) BY <1>2, <2>2, <2>3 DEF AllPlaced
  <2>. QED BY <2>4 DEF AllPlaced, Placed
<1>. QED BY <1>1, <1>2 DEF AddsFree

\* With few positions every ring stays typed and as Placed has it.
LEMMA PlacedInvariant ==
    ASSUME FewPositions
    PROVE  Spec => [](StateTyped /\ AllPlaced)
<1>1. Init => AllPlaced BY NoServersRing DEF Init, AllPlaced, Placed
<1>2. StateTyped /\ AllPlaced /\ [Next]_vars => AllPlaced' BY StepAddsFree, PlacedKept
<1>. QED BY <1>1, <1>2, StateTypedInvariant, PTL DEF Spec

\* What JoinMovesOneRange says of a step.
JoinMoves ==
    \A k \in Kind :
        LET old == ring[k]  new == ring'[k] IN
        new # old /\ DOMAIN old # {} =>
            /\ \A s \in DOMAIN old : s \in DOMAIN new /\ new[s] = old[s]
            /\ MovesOneRange(old, new)

\* With few servers, which for the 64 bits of the code are five, each one that
\* joins gets a position of its own and takes paths from one other server only,
\* although the sums in add() overflow (server_map.cpp:66).
THEOREM ClusterJoinMovesOneRange ==
    ASSUME FewPositions
    PROVE  Spec => JoinMovesOneRange
<1>1. StateTyped /\ AllPlaced /\ [Next]_vars => [JoinMoves]_vars
  <2>. SUFFICES ASSUME StateTyped, AddsFree, NEW k \in Kind,
                       ring'[k] # ring[k], DOMAIN ring[k] # {}
                PROVE  /\ \A h \in DOMAIN ring[k] : h \in DOMAIN ring'[k]
                                                    /\ ring'[k][h] = ring[k][h]
                       /\ MovesOneRange(ring[k], ring'[k])
    BY StepAddsFree DEF JoinMoves
  <2>1. PICK s \in Server, j \in Kind, pos \in HashValue :
           /\ pos \notin DOMAIN ring[j]
           /\ ring' = [ring EXCEPT ![j] = Insert(ring[j], pos, s)]
    BY DEF AddsFree
  <2>2. DOMAIN ring = Kind /\ ring[k] \in Ring BY DEF StateTyped
  <2>3. j = k /\ ring'[k] = Insert(ring[k], pos, s) BY <2>1, <2>2
  <2>4. \A h \in DOMAIN ring[k] : h \in DOMAIN ring'[k] /\ ring'[k][h] = ring[k][h]
    BY <2>1, <2>3 DEF Insert
  <2>5. MovesOneRange(ring[k], ring'[k]) BY <2>1, <2>2, <2>3, RingIs, InsertMovesOneRange
  <2>. QED BY <2>4, <2>5
<1>2. Spec => [][JoinMoves]_vars BY <1>1, PlacedInvariant, PTL DEF Spec
<1>. QED BY <1>2 DEF JoinMovesOneRange, JoinMoves

(***************************************************************************)
(* The copies of clients                                                   *)
(***************************************************************************)

\* What a client knows of a ring is so on the primary's ring.
Known ==
    \A c \in Client, k \in Kind :
        \A s \in DOMAIN cache[c].rings[k] :
            s \in DOMAIN ring[k] /\ ring[k][s] = cache[c].rings[k][s]

\* What a client has copied of a ring stays in the ring.
LEMMA KnownKept ==
    ASSUME FewPositions, StateTyped, AllPlaced, Known, [Next]_vars
    PROVE  Known'
<1>1. CASE UNCHANGED cache
  <2>1. CASE UNCHANGED ring BY <1>1, <2>1 DEF Known
  <2>2. ASSUME NEW s \in Server, NEW j \in Kind, NEW pos \in HashValue,
               pos \notin DOMAIN ring[j],
               ring' = [ring EXCEPT ![j] = Insert(ring[j], pos, s)]
        PROVE  Known'
    <3>1. DOMAIN ring = Kind BY DEF StateTyped
    <3>2. \A k \in Kind : ring'[k] = IF k = j THEN Insert(ring[j], pos, s) ELSE ring[k]
      BY <2>2, <3>1
    <3>3. \A h \in DOMAIN ring[j] : /\ h \in DOMAIN Insert(ring[j], pos, s)
                                    /\ Insert(ring[j], pos, s)[h] = ring[j][h]
      BY <2>2 DEF Insert
    <3>4. \A k \in Kind : \A h \in DOMAIN ring[k] :
             h \in DOMAIN ring'[k] /\ ring'[k][h] = ring[k][h]
      BY <3>2, <3>3
    <3>5. ASSUME NEW c \in Client, NEW k \in Kind, NEW h \in DOMAIN cache[c].rings[k]
          PROVE  h \in DOMAIN ring'[k] /\ ring'[k][h] = cache[c].rings[k][h]
      <4>1. h \in DOMAIN ring[k] /\ ring[k][h] = cache[c].rings[k][h] BY DEF Known
      <4>. QED BY <3>4, <4>1
    <3>. QED BY <1>1, <3>5 DEF Known
  <2>. QED BY <2>1, <2>2, StepAddsFree DEF AddsFree
<1>2. ASSUME NEW c \in Client,
             sync_master_server_map(c) \/ sync_index_server_map(c) \/ disconnect(c)
      PROVE  Known'
  <2>1. UNCHANGED ring
    BY <1>2 DEF sync_master_server_map, sync_index_server_map, disconnect
  <2>2. cache \in [Client -> [at : {"off", "masters", "ready"}, rings : [Kind -> Ring]]]
    BY DEF StateTyped
  <2>3. ASSUME NEW k \in Kind PROVE get_ch_ring_as_map(ring[k]) = ring[k]
    BY RingIs DEF StateTyped
  <2>4. ASSUME NEW d \in Client, NEW k \in Kind
        PROVE  \/ cache'[d].rings[k] = cache[d].rings[k]
               \/ cache'[d].rings[k] = ring[k]
               \/ cache'[d].rings[k] = NoServers
    <3>0. cache[d] \in [at : {"off", "masters", "ready"}, rings : [Kind -> Ring]]
      BY <2>2
    <3>1. CASE sync_master_server_map(c)
      <4>1. ring["master"] = get_all_masters BY <2>3 DEF get_all_masters, Kind
      <4>. QED BY <2>2, <3>0, <3>1, <4>1 DEF sync_master_server_map
    <3>2. CASE sync_index_server_map(c)
      <4>1. ring["index"] = get_all_index_servers BY <2>3 DEF get_all_index_servers, Kind
      <4>. QED BY <2>2, <3>0, <3>2, <4>1 DEF sync_index_server_map
    <3>3. CASE disconnect(c) BY <2>2, <3>3 DEF disconnect, NoCache
    <3>. QED BY <1>2, <3>1, <3>2, <3>3
  <2>5. ASSUME NEW d \in Client, NEW k \in Kind, NEW h \in DOMAIN cache'[d].rings[k]
        PROVE  h \in DOMAIN ring[k] /\ ring[k][h] = cache'[d].rings[k][h]
    <3>1. CASE cache'[d].rings[k] = cache[d].rings[k]
      <4>1. h \in DOMAIN cache[d].rings[k] BY <3>1
      <4>2. h \in DOMAIN ring[k] /\ ring[k][h] = cache[d].rings[k][h] BY <4>1 DEF Known
      <4>. QED BY <3>1, <4>2
    <3>2. CASE cache'[d].rings[k] = ring[k] BY <3>2
    <3>3. CASE cache'[d].rings[k] = NoServers BY <3>3, NoServersRing
    <3>. QED BY <2>4, <3>1, <3>2, <3>3
  <2>. QED BY <2>1, <2>5 DEF Known
<1>3. [Next]_vars => \/ UNCHANGED cache
                     \/ \E c \in Client : \/ sync_master_server_map(c)
                                          \/ sync_index_server_map(c) \/ disconnect(c)
  BY DEF Next, vars, masterd, indexd, Prepares, start_thread, serve, join, join_throws,
         stop_master, stop_index_server, Stopping, stop_server, Killed, become_primary
<1>. QED BY <1>1, <1>2, <1>3

\* Copies agree with the ring, and are equal to it when no server is missing.
LEMMA KnownAgrees == StateTyped /\ Known => RoutesAgree
<1>. SUFFICES ASSUME StateTyped, Known, NEW c \in Client, NEW k \in Kind,
                     Cardinality(DOMAIN cache[c].rings[k]) = Cardinality(DOMAIN ring[k])
              PROVE  cache[c].rings[k] = ring[k]
  BY DEF RoutesAgree, Known
<1>. DEFINE copy == cache[c].rings[k]
<1>1. cache[c] \in [at : {"off", "masters", "ready"}, rings : [Kind -> Ring]]
  BY DEF StateTyped
<1>2. copy \in Ring /\ ring[k] \in Ring BY <1>1 DEF StateTyped
<1>3. copy = [h \in DOMAIN copy |-> copy[h]] /\ ring[k] = [h \in DOMAIN ring[k] |-> ring[k][h]]
  BY <1>2, RingIs
<1>4. DOMAIN copy \in SUBSET DOMAIN ring[k] BY DEF Known
<1>5. IsFiniteSet(DOMAIN ring[k]) BY <1>2, RingIs, RingFinite
<1>6. DOMAIN ring[k] = DOMAIN copy BY <1>4, <1>5, FS_Subset
<1>7. \A h \in DOMAIN copy : copy[h] = ring[k][h] BY DEF Known
<1>. QED BY <1>3, <1>6, <1>7

\* With few servers a client never has to renew its copy of a ring to be right
\* about the servers it knows (vsfs_rpc_client.cpp:103).
THEOREM ClusterRoutesAgree ==
    ASSUME FewPositions
    PROVE  Spec => []RoutesAgree
<1>1. Init => Known
  <2>1. Init => \A c \in Client, k \in Kind : cache[c].rings[k] = NoServers
    BY SMT DEF Init, NoCache
  <2>. QED BY <2>1, NoServersRing DEF Known
<1>2. StateTyped /\ AllPlaced /\ Known /\ [Next]_vars => Known' BY KnownKept
<1>. QED BY <1>1, <1>2, PlacedInvariant, KnownAgrees, PTL DEF Spec
=============================================================================
