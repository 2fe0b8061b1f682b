------------------------------ MODULE ServerMap ------------------------------
(***************************************************************************)
(* The consistent-hash ring that sends paths to servers: ServerMap         *)
(* (src/vsfs/common/server_map.cpp) over vobla's ConsistentHashMap.  Hash  *)
(* values are signed integers of W bits (64 in the code), and a sum that   *)
(* does not fit wraps around, as it does on the machines VSFS is built for.*)
(*                                                                         *)
(* A ring is a function from the positions in use to the servers there.    *)
(***************************************************************************)
EXTENDS Integers, FiniteSetsExt

CONSTANTS
    W,              \* width of HashValueType
    FirstPosition   \* values of rand() * rand()

Half == 2 ^ (W - 1)
HashValue == (-Half) .. (Half - 1)
MaxHash == Half - 1

ASSUME ServerMapAssumption ==
    /\ W \in Nat /\ W >= 3
    /\ Half \in Nat /\ Half >= 4
    /\ FirstPosition # {} /\ FirstPosition \subseteq 0 .. (Half \div 2 - 1)

NoServers == [h \in {} |-> h]

-----------------------------------------------------------------------------
(* ConsistentHashMap *)

\* get(): the server at the last position up to the hash, or at the last of all.
PositionOf(ring, h) ==
    LET below == {s \in DOMAIN ring : s <= h}
    IN  Max(IF below = {} THEN DOMAIN ring ELSE below)

\* Neighbours on the ring, and the distance from one to the next.
Ranges(ring) ==
    {r \in (DOMAIN ring) \X (DOMAIN ring) :
        LET above == {s \in DOMAIN ring : s > r[1]}
        IN  r[2] = Min(IF above = {} THEN DOMAIN ring ELSE above)}
Length(r) == IF r[1] < r[2] THEN r[2] - r[1] ELSE MaxHash - r[1] + r[2]

get_max_range(ring) ==
    {r \in Ranges(ring) : \A q \in Ranges(ring) : Length(q) <= Length(r)}

-----------------------------------------------------------------------------
Wrap(x) == ((x + Half) % (2 * Half)) - Half

\* Division in C++ rounds towards zero.
Halve(x) == IF x >= 0 THEN x \div 2 ELSE -((-x) \div 2)

\* The middle of a range.
\* Mutant: the sums do not wrap around.
median_unbounded(r) ==
    IF r[1] < r[2] THEN Halve(r[1] + r[2])
    ELSE IF r[1] = r[2] THEN r[1] + MaxHash \div 2
    ELSE MaxHash \div 2 - Halve(r[1]) + Halve(r[2]) + r[1]
\* Mutant: <= for <.
median_of_point(r) ==
    IF r[1] <= r[2] THEN Halve(Wrap(r[1] + r[2]))
    ELSE Wrap(MaxHash \div 2 - Halve(r[1]) + Halve(r[2]) + r[1])
median(r) ==
    IF r[1] < r[2] THEN Halve(Wrap(r[1] + r[2]))
    ELSE IF r[1] = r[2] THEN Wrap(r[1] + MaxHash \div 2)
    ELSE Wrap(MaxHash \div 2 - Halve(r[1]) + Halve(r[2]) + r[1])

\* The positions at which add(node) may put a server.
Positions(ring) ==
    IF DOMAIN ring = {} THEN FirstPosition
    ELSE {median(r) : r \in get_max_range(ring)}

\* Mutant: a server that joins again gives up its old position.
Insert_moving(ring, pos, node) ==
    [s \in {h \in DOMAIN ring : ring[h] # node} \cup {pos} |->
        IF s = pos THEN node ELSE ring[s]]
Insert(ring, pos, node) ==
    [s \in DOMAIN ring \cup {pos} |-> IF s = pos THEN node ELSE ring[s]]

\* The rings after add(node).
add(ring, node) == {Insert(ring, pos, node) : pos \in Positions(ring)}

\* The ring as it is sent to a client, which inserts position by position.
get_ch_ring_as_map(ring) == [pos \in DOMAIN ring |-> ring[pos]]
=============================================================================
