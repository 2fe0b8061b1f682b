----------------------------- MODULE CommandLine -----------------------------
(***************************************************************************)
(* The command line tool "vsfs" (src/vsfs/ui/cli) and the C++ library      *)
(* (src/vsfs/api/cpp): from a command line, or a call of class Vsfs, to    *)
(* the command that is run.                                                *)
(*                                                                         *)
(* A line has its command words, its options with their arguments, by the  *)
(* letters getopt_long() gives them, and the words that remain; what comes *)
(* in through stdin is a sequence of lines.  Numbers are numbers here.     *)
(***************************************************************************)
EXTENDS RangeQuery

CONSTANTS
    FileOrder,      \* the file paths in the order of the map index_data_
    KeyType,        \* the names of the key types
    DefaultBatch    \* kDefaultBatchSize

Usage == [op |-> "usage"]   \* the line is refused, and the help printed
Unknown == "unknown"        \* the index type and the key type 0
Wrong == "wrong"            \* -1
Malformed == <<>>           \* a line of stdin that is not a path and a key

ASSUME CommandLineAssumption ==
    /\ DefaultBatch \in Nat \ {0}
    /\ Unknown \notin KeyType /\ Wrong \notin KeyType

\* The options that a command does not know, and 'h', have it refused.
Common == {"p", "H", "v", "d"}
Refused(line, known) == ~(DOMAIN line.options \subseteq known)
Option(line, letter, default) ==
    IF letter \in DOMAIN line.options THEN line.options[letter] ELSE default

\* run() parses the query.
search_run(path) == [op |-> "search", path |-> path, query |-> parse(path)]
search_args(line) ==
    IF Refused(line, Common) \/ line.words = <<>> THEN Usage
    ELSE search_run(line.words[1])

string_to_index_type(str) ==
    IF str \in {"btree", "hash", "content", "multidim"} THEN str ELSE Wrong
parse_type(str) == IF str \in KeyType THEN str ELSE Wrong

create_args(line) ==
    LET type == IF "t" \in DOMAIN line.options THEN string_to_index_type(line.options.t)
                ELSE Unknown
        key == IF "k" \in DOMAIN line.options THEN parse_type(line.options.k) ELSE Unknown
    IN  IF Refused(line, Common \cup {"t", "k"}) \/ Wrong \in {type, key} \/ Len(line.words) < 2 THEN Usage
        ELSE [op |-> "create", index |-> [root |-> line.words[1], name |-> line.words[2]],
              type |-> type, key |-> key]

destroy_args(line) ==
    IF Refused(line, Common) \/ Len(line.words) < 2 THEN Usage
    ELSE [op |-> "destroy", index |-> [root |-> line.words[1], name |-> line.words[2]]]

\* index_data_: the keys of each file, in the order of the line.
index_data(words, file) ==
    LET pairs == [n \in 1 .. Len(words) \div 2 |-> <<words[2 * n], words[2 * n + 1]>>]
        its == SelectSeq(pairs, LAMBDA pair : pair[1] = file)
    IN  [n \in DOMAIN its |-> its[n][2]]

\* The requests that are made of the words, and of the lines of stdin: a batch
\* is sent when it is full, and the last one at the end, but for a line that
\* cannot be parsed, which ends the command.
Requests(file, keys) == [n \in DOMAIN keys |-> [file |-> file, key |-> keys[n]]]
FromWords(words) ==
    LET upto[n \in 0 .. Len(FileOrder)] ==
          IF n = 0 THEN <<>>
          ELSE upto[n - 1] \o Requests(FileOrder[n], index_data(words, FileOrder[n]))
    IN  upto[Len(FileOrder)]
parse_record(buf) == [file |-> buf[1], key |-> buf[2]]
Readable(lines) ==
    {n \in DOMAIN lines : \A k \in 1 .. n : lines[k] # Malformed}
Batches(lines, batch_size) ==
    LET size == IF batch_size = 0 THEN 1 ELSE batch_size
        count == Cardinality(Readable(lines))
        whole == count \div size
        number == IF count = Len(lines) /\ count % size # 0 THEN whole + 1 ELSE whole
        Upto(n) == IF n * size < count THEN n * size ELSE count
    IN  [n \in 1 .. number |->
           [k \in 1 .. Upto(n) - (n - 1) * size |-> parse_record(lines[(n - 1) * size + k])]]

update_args(line, kind) ==
    LET stdin == "s" \in DOMAIN line.options IN
    IF Refused(line, Common \cup {"s", "b"}) \/ line.words = <<>> \/ Len(line.words) % 2 = 0 THEN Usage
    ELSE [op |-> "update", kind |-> kind, name |-> line.words[1],
          batches |-> IF stdin THEN Batches(line.stdin, Option(line, "b", DefaultBatch))
                      ELSE <<FromWords(line.words)>>,
          malformed |-> stdin /\ Malformed \in Range(line.stdin),
          records |-> IF stdin THEN Range(line.stdin)
                      ELSE {<<line.words[j], line.words[j + 1]>> :
                              j \in {k \in DOMAIN line.words : k % 2 = 0}}]

list_args(line) ==
    IF Refused(line, {"p", "H", "r"}) \/ line.words = <<>> THEN Usage
    ELSE [op |-> "list", root |-> line.words[1], recursive |-> "r" \in DOMAIN line.options]

index_args(line) ==
    CASE line.sub = "create"  -> create_args(line)
      [] line.sub = "destroy" -> destroy_args(line)
      [] line.sub = "insert"  -> update_args(line, "INSERT")
      [] line.sub = "remove"  -> update_args(line, "REMOVE")
      [] line.sub = "list"    -> list_args(line)
      [] OTHER                -> Usage          \* "stat" has no command

help_args(line) == IF line.sub = "" THEN Usage ELSE [op |-> "help", topic |-> line.sub]

create_command(line) ==
    CASE line.command = "search" -> search_args(line)
      [] line.command = "index"  -> index_args(line)
      [] line.command = "help"   -> help_args(line)
      [] OTHER                   -> Usage

-----------------------------------------------------------------------------
(* The calls of the library *)

api_create_index(root, name, type, key) ==
    [op |-> "create", index |-> [root |-> root, name |-> name], type |-> type, key |-> key]
api_destroy_index(root, name) == [op |-> "destroy", index |-> [root |-> root, name |-> name]]
update_records(kind, name, pairs) ==
    [op |-> "update", kind |-> kind, name |-> name,
     batches |-> <<[n \in DOMAIN pairs |-> parse_record(pairs[n])]>>,
     malformed |-> FALSE, records |-> Range(pairs)]
api_update_index(name, pairs) == update_records("UPDATE", name, pairs)
api_remove_index(name, pairs) == update_records("REMOVE", name, pairs)
api_search(path) == [op |-> "search", path |-> path, query |-> parse(path)]
=============================================================================
