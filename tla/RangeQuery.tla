----------------------------- MODULE RangeQuery -----------------------------
(***************************************************************************)
(* From the text of a query to the records of an index: ComplexQuery       *)
(* (src/vsfs/common/complex_query.cpp), the request that                   *)
(* VSFSRpcClient::search() makes of it, and RangeIndex::search()           *)
(* (src/vsfs/index/range_index.h).                                         *)
(*                                                                         *)
(* The path of a query has a root, a '?' and segments, which '/' separates; *)
(* a segment is the sequence of the comparisons that '&' separates.  The   *)
(* keys are unsigned integers from 0 to MaxKey, as wide as the arithmetic  *)
(* on values; a value is a number, with or without a unit behind it.       *)
(***************************************************************************)
EXTENDS Integers, Sequences, FiniteSetsExt, Functions

CONSTANTS
    MaxKey,         \* numeric_limits<KeyType>::max()
    KB,             \* what the unit "k" stands for
    DAY,            \* what the unit "d" stands for
    now,            \* the time of the query
    Failed,         \* the status of what cannot be parsed
    Word,           \* a segment that has no comparison
    Clipped,        \* each field without its first character
    Empty           \* the end of a range that was not given

ASSUME RangeQueryAssumption ==
    /\ {MaxKey, KB, DAY, now} \subseteq Nat
    /\ \A n \in 0 .. MaxKey : n # Failed /\ n # Empty

Key == 0 .. MaxKey
Width == MaxKey + 1
Op == {"=", "!=", ">", ">=", "<", "<=", "=<"}
Time == {"atime", "ctime", "mtime"}
Value == [sign : {"", "+", "-"}, num : Nat, unit : {"", "k", "d", "?"}]

\* A StringRange, and the map of a query that has no comparison yet.
StringRange == [lower |-> Empty, lower_closed |-> FALSE,
                upper |-> Empty, upper_closed |-> FALSE]
NoRanges == [field \in {} |-> StringRange]

\* Any unit will do for a field that has none of its own.
parse_value(field, v) ==
    CASE v.unit = "" -> v.num
      [] field \in Time /\ v.unit = "d" ->
             (CASE v.sign = "" -> (DAY * v.num) % Width
                [] v.sign = "+" -> (now + DAY * v.num) % Width
                [] v.sign = "-" -> (now - DAY * v.num) % Width)
      [] field = "size" /\ v.unit = "k" -> (KB * v.num) % Width
      [] field \in Time /\ v.unit # "d" -> Failed
      [] field = "size" /\ v.unit # "k" -> Failed
      [] OTHER -> v.num

RangeOf(ranges, field) ==
    IF field \in DOMAIN ranges THEN ranges[field] ELSE StringRange

WithUpper(range, value, closed) == [range EXCEPT !.upper = value, !.upper_closed = closed]
WithLower(range, value, closed) == [range EXCEPT !.lower = value, !.lower_closed = closed]

\* What one comparison does to a range.
Compare(range, op, value) ==
    CASE op = "<=" -> WithUpper(range, value, TRUE)
      [] op = "<"  -> WithUpper(range, value, FALSE)
      [] op = ">=" -> WithLower(range, value, TRUE)
      [] op = ">"  -> WithLower(range, value, FALSE)
      [] op = "="  -> WithUpper(WithLower(range, value, TRUE), value, TRUE)

parse_expression(ranges, e) ==
    LET value == parse_value(e.field, e.value) IN
    IF e.op \in {"!=", "=<"} \/ value = Failed THEN Failed
    ELSE [field \in DOMAIN ranges \cup {e.field} |->
            IF field = e.field THEN Compare(RangeOf(ranges, field), e.op, value)
            ELSE ranges[field]]

\* The first expression that cannot be parsed ends the loop; the ranges of those
\* before it stay in the query.
parse_condition(parsed, segment) ==
    LET after[n \in 0 .. Len(segment)] ==
          IF n = 0 THEN parsed
          ELSE LET more == parse_expression(after[n - 1].ranges, segment[n]) IN
               IF ~after[n - 1].ok \/ more = Failed THEN [after[n - 1] EXCEPT !.ok = FALSE]
               ELSE [after[n - 1] EXCEPT !.ranges = more]
    IN  after[Len(segment)]

parse_segment(parsed, segment) ==
    CASE ~parsed.ok -> parsed
      [] parsed.ok /\ segment = <<>> -> [parsed EXCEPT !.ok = FALSE]
      [] parsed.ok /\ segment = Word -> parsed
      [] OTHER -> parse_condition(parsed, segment)

\* A path without '?' is no query.  Every segment but the last one loses its
\* first character.
clip(segment) ==
    IF segment \in {<<>>, Word} THEN segment ELSE [segment EXCEPT ![1].field = Clipped[@]]
parse(path) ==
    LET last == Len(path.segments)
        cut(n) == IF n < last THEN clip(path.segments[n]) ELSE path.segments[n]
        after[n \in 0 .. last] ==
          IF n = 0 THEN [ok |-> path.mark, ranges |-> NoRanges]
          ELSE parse_segment(after[n - 1], cut(n))
    IN  after[last]

get_names_of_range_queries(parsed) == DOMAIN parsed.ranges
range_query(parsed, name) == parsed.ranges[name]

\* PosixPath::is_query(): what follows the first '/' of a query is the name of a
\* result, which the path of a query has not.
is_query(path) ==
    /\ path.mark /\ path.segments[1] # <<>>
    /\ Len(path.segments) = 1 \/ Tail(path.segments) = <<<<>>>>

\* The RpcRangeQuery of one field: an end that was not given is an open one.
rpc_query(range) ==
    [lower |-> range.lower, lower_open |-> ~range.lower_closed,
     upper |-> range.upper, upper_open |-> ~range.upper_closed]

\* RangeIndex::search(): the keys between the ends.
InRange(key, q) ==
    LET lower == IF q.lower = Empty THEN 0 ELSE q.lower
        upper == IF q.upper = Empty THEN MaxKey ELSE q.upper
    IN  /\ IF q.lower_open THEN key > lower ELSE key >= lower
        /\ IF q.upper_open THEN key < upper ELSE key <= upper

\* Ends that cannot be cast are an error, which search() of the wrapper drops.
Selected(key, range) ==
    LET q == rpc_query(range) IN {q.lower, q.upper} \subseteq Key \cup {Empty} /\ InRange(key, q)
\* Mutant: the loop does not end.
range_search_on(records, range) ==
    {r \in records : Selected(r.key, [range EXCEPT !.upper = Empty, !.upper_closed = TRUE])}
range_search(records, range) == {r \in records : Selected(r.key, range)}

-----------------------------------------------------------------------------
(* What a query means *)

Holds(e, key) ==
    LET value == parse_value(e.field, e.value) IN
    CASE e.op = "="  -> key = value
      [] e.op = ">"  -> key > value
      [] e.op = ">=" -> key >= value
      [] e.op = "<"  -> key < value
      [] e.op = "<=" -> key <= value

\* A path whose comparisons are all in the segment that is not clipped.
Plain(path) == \A j \in 1 .. Len(path.segments) - 1 : path.segments[j] = Word
Comparisons(path) == path.segments[Len(path.segments)]

Satisfies(key, path) == \A j \in DOMAIN Comparisons(path) : Holds(Comparisons(path)[j], key)

\* A key at a limit of its type is left out by a query that does not name the
\* end next to it, and so a query is only held to the keys that are not.
Bounded(path, ops) == \E j \in DOMAIN Comparisons(path) : Comparisons(path)[j].op \in ops
Regular(key, path) ==
    /\ key = 0 => Bounded(path, {"=", ">", ">="})
    /\ key = MaxKey => Bounded(path, {"=", "<", "<="})
=============================================================================
