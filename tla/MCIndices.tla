------------------------------ MODULE MCIndices ------------------------------
(***************************************************************************)
(* Two clients, the directories "/" and "/d" with a file each, an index of *)
(* one name on both, and keys of two bits.                                 *)
(***************************************************************************)
EXTENDS IndexClient

MCRoot == "/"
MCDir == {"/", "/d", "/d/e"}
MCUp == [d \in {"/d", "/d/e"} |-> IF d = "/d" THEN "/" ELSE "/d"]
MCFile == {"/f", "/d/g"}
MCFileOrder == <<"/d/g", "/f">>
MCDirOf == [f \in MCFile |-> IF f = "/f" THEN "/" ELSE "/d"]

On(root) == [root |-> root, name |-> "size"]
MCIndex == {On("/"), On("/d"), On("/f")}
MCIndexMaster == [i \in MCIndex |-> IF i = On("/") THEN 1 ELSE 2]
MCMasterOf == [f \in MCFile |-> IF f = "/f" THEN 2 ELSE 1]
MCExisting == {{}, {On("/")}}
MCPlacement == {[i \in MCIndex |-> IF i = On("/d") THEN s ELSE 1] : s \in {1, 2}}
MCStartsWith == {<<"/", "/">>,  <<"/", "/d">>, <<"/", "/f">>, <<"/d", "/d">>}

Line(sub, options, words) ==
    [command |-> "index", sub |-> sub, options |-> options, words |-> words, stdin |-> <<>>]
Create(root, type) == Line("create", [t |-> type, k |-> "uint64"], <<root, "size">>)
Insert(words) == Line("insert", <<>>, <<"size">> \o words)
Piped(options, lines) == [Line("insert", options, <<"size">>) EXCEPT !.stdin = lines]
Query(root, segments) == [root |-> root, mark |-> TRUE, segments |-> segments]
Search(path) == [command |-> "search", options |-> <<>>, words |-> <<path>>]
Where(op, num, unit) ==
    [field |-> "size", op |-> op, value |-> [sign |-> "", num |-> num, unit |-> unit]]

MCCommandLines ==
    [c \in {1, 2} |->
       IF c = 1
       THEN {Create("/d", "btree"),
             Insert(<<"/d/g", 2, "/f", 2, "/d/g", MaxKey + 1, "/d/g", 1>>),
             Piped([s |-> ""], <<<<"/d/g", 2>>, <<"/f", 1>>, <<"/d/g", 1>>>>),
             Piped([s |-> "", b |-> 2], <<<<"/d/g", 2>>, Malformed>>)}
       ELSE {Create("/d", "btree"), Create("/d", "multidim"), Create("/f", "btree"),
             Line("stat", <<>>, <<"/d">>),
             [Line("index", <<>>, <<>>) EXCEPT !.command = "help"],
             Line("list", [r |-> ""], <<"/d">>),
             Line("remove", <<>>, <<"size", "/d/g", 2>>),
             Search(Query("/", <<<<Where(">=", 1, "")>>, <<Where("!=", 1, "")>>>>))}]
MCLibraryCalls ==
    [c \in {1, 2} |->
       IF c = 1
       THEN {}
       ELSE {api_create_index("/d", "size", "hash", "uint64"),
             api_destroy_index("/d", "size"),
             api_search(Query("/", <<Word, <<Where(">=", 1, ""), Where("<=", 1, "k")>>>>))}]
MCListings ==
    [c \in {1, 2} |-> IF c = 1 THEN {} ELSE {Query("/d", <<<<Where("<", 2, "")>>>>)}]
MCClipped == [field \in {"size"} |-> "ize"]

\* The hypotheses of the theorems about searches and updates hold here.
ASSUME Understood /\ SentInFull
=============================================================================
