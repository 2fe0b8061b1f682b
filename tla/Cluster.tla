------------------------------- MODULE Cluster -------------------------------
(***************************************************************************)
(* The life of a cluster: the start and the end of master and index server *)
(* processes (MasterController and IndexController: start(), stop(),       *)
(* background_task(), and the signal handlers of masterd.cpp and           *)
(* indexd.cpp), how they join the rings of the primary master, and the     *)
(* copies of the rings that clients take (VSFSRpcClient::init()).          *)
(*                                                                         *)
(* The signal handler runs on the main thread, inside serve() or before    *)
(* it; the join runs on the background thread, and an exception there ends *)
(* the process.                                                            *)
(***************************************************************************)
EXTENDS ServerMap

CONSTANTS
    Master, Primary, IndexServer,
    Client,
    MaxPositions    \* bound: positions on the ring of each kind

Server == Master \cup IndexServer
Kind == {"master", "index"}
KindOf(s) == IF s \in Master THEN "master" ELSE "index"

ASSUME ClusterAssumption ==
    /\ Primary \in Master
    /\ Master \cap IndexServer = {}
    /\ MaxPositions \in [Kind -> Nat \ {0}]

VARIABLES
    main,           \* main thread: "off", "prepared" (server_ made), "serving"
    handler,        \* the signal handler waits for the background thread
    background,     \* background thread: "none", "joining" or "done"
    status,         \* runtime_status_ of a master, status_ of an index server
    ring,           \* the primary's ring of each kind
    cache           \* each client's progress and its copies of the rings

vars == <<main, handler, background, status, ring, cache>>

NoCache == [at |-> "off", rings |-> [k \in Kind |-> NoServers]]
IsRing(r) == DOMAIN r \subseteq HashValue /\ \A h \in DOMAIN r : r[h] \in Server

TypeOK ==
    /\ main \in [Server -> {"off", "prepared", "serving"}]
    /\ handler \in [Server -> BOOLEAN]
    /\ background \in [Server -> {"none", "joining", "done"}]
    /\ status \in [Server -> {"PREPARE", "RUNNING", "STOPPED"}]
    /\ \A k \in Kind : IsRing(ring[k]) /\ Cardinality(DOMAIN ring[k]) <= MaxPositions[k]
    /\ \A c \in Client :
        /\ cache[c].at \in {"off", "masters", "ready"}
        /\ \A k \in Kind : IsRing(cache[c].rings[k])

Init ==
    /\ main = [s \in Server |-> "off"]
    /\ handler = [s \in Server |-> FALSE]
    /\ background = [s \in Server |-> "none"]
    /\ status = [s \in Server |-> "STOPPED"]
    /\ ring = [k \in Kind |-> NoServers]
    /\ cache = [c \in Client |-> NoCache]

Exits(s) ==
    /\ main' = [main EXCEPT ![s] = "off"]
    /\ handler' = [handler EXCEPT ![s] = FALSE]
    /\ background' = [background EXCEPT ![s] = "none"]
    /\ status' = [status EXCEPT ![s] = "STOPPED"]

-----------------------------------------------------------------------------
(* Starting and joining *)

Prepares(s, initial) ==
    /\ main[s] = "off"
    /\ main' = [main EXCEPT ![s] = "prepared"]
    /\ status' = [status EXCEPT ![s] = initial]
    /\ UNCHANGED <<handler, background, cache>>

\* The constructor puts the primary on its own new ring.  The rings are in the
\* primary's memory only: a cluster ends with its primary.
MasterController(s) ==
    \/ /\ s = Primary /\ ring["master"] = NoServers
       /\ \E r \in add(NoServers, s) : ring' = [ring EXCEPT !["master"] = r]
    \/ s # Primary /\ UNCHANGED ring

\* main() of masterd and of indexd, and start() up to the background thread.
masterd(s) == s \in Master /\ Prepares(s, "PREPARE") /\ MasterController(s)
indexd(s) == s \in IndexServer /\ Prepares(s, "RUNNING") /\ UNCHANGED ring

start_thread(s) ==
    /\ main[s] = "prepared" /\ ~handler[s] /\ background[s] = "none"
    /\ background' = [background EXCEPT ![s] = "joining"]
    /\ UNCHANGED <<main, handler, status, ring, cache>>

serve(s) ==
    /\ main[s] = "prepared" /\ ~handler[s] /\ background[s] # "none"
    /\ main' = [main EXCEPT ![s] = "serving"]
    /\ UNCHANGED <<handler, background, status, ring, cache>>

PrimaryAnswers == main[Primary] = "serving" /\ ~handler[Primary]

Joined(s) ==
    /\ background' = [background EXCEPT ![s] = "done"]
    /\ status' = [status EXCEPT ![s] = IF s \in Master THEN "RUNNING" ELSE @]

\* background_task().
become_primary ==
    /\ background[Primary] = "joining"
    /\ Joined(Primary)
    /\ UNCHANGED <<main, handler, ring, cache>>

\* The primary's part in a join.
AddServer(s, k) ==
    /\ Cardinality(DOMAIN ring[k]) < MaxPositions[k]
    /\ \E r \in add(ring[k], s) : ring' = [ring EXCEPT ![k] = r]
join_master_server(s) == AddServer(s, "master")
join_index_server(s) == AddServer(s, "index")

\* background_task() of a secondary master, join() of an index server.  The
\* answer may be lost after the server is on the ring.
join(s) ==
    /\ s # Primary /\ background[s] = "joining" /\ PrimaryAnswers
    /\ IF s \in Master THEN join_master_server(s) ELSE join_index_server(s)
    /\ \/ Joined(s) /\ UNCHANGED <<main, handler>>
       \/ Exits(s)
    /\ UNCHANGED cache

\* open() or the call throws, on a thread without a handler for it.
join_throws(s) ==
    /\ s # Primary /\ background[s] = "joining"
    /\ ~PrimaryAnswers \/ Cardinality(DOMAIN ring[KindOf(s)]) = MaxPositions[KindOf(s)]
    /\ main[Primary] # "serving" \/ ~handler[Primary]
    /\ Exits(s)
    /\ UNCHANGED <<ring, cache>>

-----------------------------------------------------------------------------
(* Stopping *)

signal_handle(s) == main[s] # "off" /\ ~handler[s]
Stopping(s) ==
    /\ status' = [status EXCEPT ![s] = "STOPPED"]
    /\ handler' = [handler EXCEPT ![s] = TRUE]
    /\ UNCHANGED <<main, background, ring, cache>>

\* stop() up to the join of the background thread.  Once it is STOPPED, a
\* master returns at once.
stop_master(s) ==
    /\ s \in Master /\ signal_handle(s)
    /\ status[s] # "STOPPED"
    /\ Stopping(s)
stop_index_server(s) ==
    /\ s \in IndexServer /\ signal_handle(s)
    /\ Stopping(s)

\* The rest of stop(): server_->stop() ends serve(), and has no effect before.
\* Mutant: stop() gives up when the join is not done.
stop_server_without_join(s) ==
    /\ handler[s]
    /\ \/ /\ main[s] = "serving" /\ background[s] # "joining"
          /\ Exits(s)
       \/ /\ main[s] = "prepared" \/ background[s] = "joining"
          /\ handler' = [handler EXCEPT ![s] = FALSE]
          /\ UNCHANGED <<main, background, status>>
    /\ UNCHANGED <<ring, cache>>
stop_server(s) ==
    /\ handler[s] /\ background[s] # "joining"
    /\ \/ /\ main[s] = "serving"
          /\ Exits(s)
       \/ /\ main[s] = "prepared"
          /\ handler' = [handler EXCEPT ![s] = FALSE]
          /\ UNCHANGED <<main, background, status>>
    /\ UNCHANGED <<ring, cache>>

Killed(s) ==
    /\ main[s] # "off"
    /\ Exits(s)
    /\ UNCHANGED <<ring, cache>>

-----------------------------------------------------------------------------
(* Clients *)

get_all_masters == get_ch_ring_as_map(ring["master"])
get_all_index_servers == get_ch_ring_as_map(ring["index"])

\* init(): connect(), and then the two rings, position by position.
connect(c) == cache[c].at = "off" /\ PrimaryAnswers

sync_master_server_map(c) ==
    /\ connect(c)
    /\ cache' = [cache EXCEPT ![c].at = "masters", ![c].rings["master"] = get_all_masters]
    /\ UNCHANGED <<main, handler, background, status, ring>>

sync_index_server_map(c) ==
    /\ cache[c].at = "masters" /\ PrimaryAnswers
    /\ cache' = [cache EXCEPT ![c].at = "ready",
                              ![c].rings["index"] = get_all_index_servers]
    /\ UNCHANGED <<main, handler, background, status, ring>>

\* init() fails, or the client exits.
disconnect(c) ==
    /\ cache[c].at # "off"
    /\ cache' = [cache EXCEPT ![c] = NoCache]
    /\ UNCHANGED <<main, handler, background, status, ring>>

Next ==
    \/ \E s \in Server :
        \/ masterd(s) \/ indexd(s) \/ start_thread(s) \/ serve(s)
        \/ join(s) \/ join_throws(s)
        \/ stop_master(s) \/ stop_index_server(s) \/ stop_server(s) \/ Killed(s)
    \/ become_primary
    \/ \E c \in Client :
        sync_master_server_map(c) \/ sync_index_server_map(c) \/ disconnect(c)

\* Threads that can go on do, and a remote call returns or throws.
Fairness ==
    /\ WF_vars(become_primary)
    /\ \A s \in Server :
        /\ WF_vars(start_thread(s)) /\ WF_vars(serve(s))
        /\ WF_vars(join(s) \/ join_throws(s))
        /\ WF_vars(stop_server(s))

Spec == Init /\ [][Next]_vars /\ Fairness

-----------------------------------------------------------------------------
(* Properties *)

\* A new position takes the paths of one range, all from one server.
MovesOneRange(old, new) ==
    \E from \in DOMAIN old, to \in DOMAIN new \ DOMAIN old :
        \A h \in HashValue :
            \/ PositionOf(new, h) = PositionOf(old, h)
            \/ PositionOf(old, h) = from /\ PositionOf(new, h) = to

\* Few enough: five positions, or four when hash values have less than seven bits.
FewPositions ==
    LET m == Half \div 8 IN
    /\ Half = 8 * m /\ m >= 2
    /\ \A k \in Kind : MaxPositions[k] <= IF m >= 8 THEN 5 ELSE 4

\* On a ring of up to MaxPositions servers, one that joins takes a position of
\* its own and paths from one other server only; every other path stays where
\* it is, though the arithmetic of the positions overflows (server_map.cpp:66).
\* The bound matters: from the sixth server on, and with few bits from the
\* fifth, the middle that add() computes can be a position in use, and the
\* server there is replaced.
JoinMovesOneRange ==
    [][\A k \in Kind :
        LET old == ring[k]  new == ring'[k] IN
        new # old /\ DOMAIN old # {} =>
            /\ \A s \in DOMAIN old : s \in DOMAIN new /\ new[s] = old[s]
            /\ MovesOneRange(old, new)]_vars

\* On such a ring a client's copy, which it never renews, does not contradict
\* the primary's (vsfs_rpc_client.cpp:103): what it knows is still so, and when
\* it knows all positions it sends every path where a client set up now would.
RoutesAgree ==
    \A c \in Client, k \in Kind :
        LET copy == cache[c].rings[k] IN
        copy # NoServers =>
            /\ \A s \in DOMAIN copy : s \in DOMAIN ring[k] /\ ring[k][s] = copy[s]
            /\ Cardinality(DOMAIN copy) = Cardinality(DOMAIN ring[k]) => copy = ring[k]

\* A process that is told to stop while it serves ends, although its signal
\* handler waits for a thread that waits for the primary.
StopEnds ==
    \A s \in Server : (main[s] = "serving" /\ handler[s]) ~> main[s] = "off"
=============================================================================
