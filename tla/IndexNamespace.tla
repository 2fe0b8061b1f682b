--------------------------- MODULE IndexNamespace ----------------------------
(***************************************************************************)
(* A master's IndexNamespace (src/vsfs/masterd/index_namespace.cpp): which *)
(* directories have which named indices, in memory and in a LevelDB store. *)
(* Every operation but find() holds lock_ throughout, so each is one step, *)
(* given with the status it returns.                                       *)
(*                                                                         *)
(* A path is a value with the three facts the code uses of its string: its *)
(* cleaned form, its place in the order of strings, and which strings      *)
(* start with it.                                                          *)
(***************************************************************************)
EXTENDS Integers, Sequences

CONSTANTS
    Path, Root,
    Name,           \* names of indices
    NoNode,         \* nodes_ has no such key
    cleanup_path,   \* without trailing slashes
    Order,          \* the order of strings
    StartsWith,     \* pairs of a path and a path that starts with it
    Partials,       \* a path, and what is left when it is cut at each slash
    Below           \* pairs of a directory and a path at or under it: not in the
                    \*   code, the containment that its strings stand for

ASSUME IndexNamespaceAssumption ==
    /\ Root \in Path
    /\ \A s \in SUBSET Name : s # NoNode
    /\ cleanup_path \in [Path -> Path]
    /\ Order \in [Path -> Nat]
    /\ StartsWith \subseteq Path \X Path /\ Below \subseteq Path \X Path
    /\ Partials \in [Path -> Seq(Path)]

Clean(p) == cleanup_path[p] = p
Steps(file) == Append(Partials[file], Root)

\* The strings of absolute paths without empty components: cleaning twice is
\* cleaning once; the strings that start with a string follow each other in the
\* order, from it on; what is under a clean directory starts with its path; and
\* the cuts of a clean path, itself the first, go outwards from it past every
\* clean directory above it.
ASSUME PathAssumption ==
    /\ \A p \in Path : Clean(cleanup_path[p])
    /\ \A r, p \in Path : <<r, p>> \in StartsWith =>
         /\ Order[r] <= Order[p]
         /\ \A q \in Path : Order[r] <= Order[q] /\ Order[q] <= Order[p]
                               => <<r, q>> \in StartsWith
    /\ \A r, p \in Path : Clean(r) /\ <<r, p>> \in Below => <<r, p>> \in StartsWith
    /\ \A f \in Path : Clean(f) =>
         /\ Steps(f)[1] = f
         /\ \A i, j \in DOMAIN Steps(f) :
              i <= j => <<Steps(f)[j], Steps(f)[i]>> \in Below
         /\ \A d \in Path : Clean(d) /\ <<d, f>> \in Below =>
              \E i \in DOMAIN Steps(f) : Steps(f)[i] = d

VARIABLES
    nodes,          \* nodes_
    idxStore        \* store_

IndexNamespaceTypeOK ==
    /\ nodes \in [Path -> (SUBSET Name) \cup {NoNode}]
    /\ idxStore \in [Path -> (SUBSET Name) \cup {NoNode}]

NamesIn(map, key) == IF map[key] = NoNode THEN {} ELSE map[key]
have(p, n) == n \in NamesIn(nodes, cleanup_path[p])

\* The store as the constructor of a new cluster finds it, and as init() reads it.
Empty == [p \in Path |-> NoNode]
load_nodes == nodes' = idxStore /\ UNCHANGED idxStore

-----------------------------------------------------------------------------
Status == {"OK", "EEXIST", "ENOENT", "EIO"}

\* Mutant: a failed put is not rolled back.
insert_kept(p, n, status) ==
    LET key == cleanup_path[p]  names == NamesIn(nodes, key) IN
    \/ /\ have(p, n)
       /\ status = "EEXIST"
       /\ UNCHANGED <<nodes, idxStore>>
    \/ /\ ~have(p, n)
       /\ status \in {"OK", "EIO"}
       /\ nodes' = [nodes EXCEPT ![key] = names \cup {n}]
       /\ idxStore' = IF status = "EIO" THEN idxStore
                      ELSE [idxStore EXCEPT ![key] = names \cup {n}]

\* Mutant: the put is left for later.
insert_unsaved(p, n, status) ==
    LET key == cleanup_path[p]  names == NamesIn(nodes, key) IN
    \/ /\ have(p, n)
       /\ status = "EEXIST"
       /\ UNCHANGED <<nodes, idxStore>>
    \/ /\ ~have(p, n)
       /\ status = "OK"
       /\ nodes' = [nodes EXCEPT ![key] = names \cup {n}]
       /\ UNCHANGED idxStore

\* When the put fails a new, empty node stays behind.
insert(p, n, status) ==
    LET key == cleanup_path[p]  names == NamesIn(nodes, key) IN
    \/ /\ have(p, n)
       /\ status = "EEXIST"
       /\ UNCHANGED <<nodes, idxStore>>
    \/ /\ ~have(p, n)
       /\ status = "OK"
       /\ nodes' = [nodes EXCEPT ![key] = names \cup {n}]
       /\ idxStore' = [idxStore EXCEPT ![key] = names \cup {n}]
    \/ /\ ~have(p, n)
       /\ status = "EIO"
       /\ nodes' = [nodes EXCEPT ![key] = names]
       /\ UNCHANGED idxStore

remove(p, n, status) ==
    LET key == cleanup_path[p]  names == NamesIn(nodes, key) IN
    \/ /\ ~have(p, n)
       /\ status = "ENOENT"
       /\ UNCHANGED <<nodes, idxStore>>
    \/ /\ have(p, n)
       /\ status = "OK"
       /\ nodes' = [nodes EXCEPT ![key] = names \ {n}]
       /\ idxStore' = [idxStore EXCEPT ![key] = names \ {n}]
    \/ /\ have(p, n)
       /\ status = "EIO"
       /\ UNCHANGED <<nodes, idxStore>>

\* remove(path): the whole node.
remove_node(p, status) ==
    LET key == cleanup_path[p] IN
    \/ /\ nodes[key] = NoNode
       /\ status = "ENOENT"
       /\ UNCHANGED <<nodes, idxStore>>
    \/ /\ nodes[key] # NoNode
       /\ status = "OK"
       /\ nodes' = [nodes EXCEPT ![key] = NoNode]
       /\ idxStore' = [idxStore EXCEPT ![key] = NoNode]
    \/ /\ nodes[key] # NoNode
       /\ status = "EIO"
       /\ UNCHANGED <<nodes, idxStore>>

-----------------------------------------------------------------------------
(* Lookups *)

\* The loop of collect() and get_indices(): from lower_bound(root) until a
\* path does not start with root.
\* Mutant: the loop starts after the root.
scan_after(root) ==
    LET keys == {p \in Path : nodes[p] # NoNode /\ Order[p] > Order[root]}
    IN  {p \in keys : \A q \in keys :
                        Order[q] <= Order[p] => <<root, q>> \in StartsWith}
scan(root) ==
    LET keys == {p \in Path : nodes[p] # NoNode /\ Order[p] >= Order[root]}
    IN  {p \in keys : \A q \in keys :
                        Order[q] <= Order[p] => <<root, q>> \in StartsWith}

collect(root, n) == {p \in scan(root) : n \in nodes[p]}

\* An index path is the pair of its root and its name.
get_indices(root, recursive) ==
    IF recursive
    THEN UNION {{p} \X nodes[p] : p \in scan(root)}
    ELSE {root} \X NamesIn(nodes, root)

\* The first of the partial paths, and then the root, that has the name.
find(file, n) ==
    LET steps == Steps(file)
        hits == {i \in DOMAIN steps : n \in NamesIn(nodes, steps[i])}
    IN  IF hits = {} THEN NoNode
        ELSE steps[CHOOSE i \in hits : \A j \in hits : i <= j]

-----------------------------------------------------------------------------
\* "This class works as a write-through cache": what memory lists is what
\* init() would read back, whatever writes failed.
IndicesWrittenThrough ==
    \A p \in Path : NamesIn(nodes, p) = NamesIn(idxStore, p)

\* Every key was cleaned before it was inserted.
KeysClean == \A p \in Path : nodes[p] # NoNode \/ idxStore[p] # NoNode => Clean(p)

\* Comparing strings finds what the directory tree says: collect() and
\* get_indices() from a clean root return every index at or under it, and
\* find() the innermost index above a file.
LookupsFollowTree ==
    \A r \in Path, n \in Name :
        LET listed == {p \in Path : n \in NamesIn(nodes, p)}
            above == {p \in listed : <<p, r>> \in Below}
        IN  Clean(r) =>
            /\ \A p \in listed : <<r, p>> \in Below =>
                   p \in collect(r, n) /\ <<p, n>> \in get_indices(r, TRUE)
            /\ IF above = {} THEN find(r, n) = NoNode
               ELSE /\ find(r, n) \in above
                    /\ \A p \in above : <<p, find(r, n)>> \in Below
=============================================================================
