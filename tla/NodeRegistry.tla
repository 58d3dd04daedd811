---------------------------- MODULE NodeRegistry ----------------------------
(***************************************************************************)
(* The coordinator's registry of satellite nodes: nodes_ and               *)
(* alias_to_node_id_, whose keys, node ids and satellite ids alike, are    *)
(* names from one space.  The coordinator registers its satellites, looks  *)
(* nodes up, and at shutdown unregisters every id it was told of.          *)
(***************************************************************************)
EXTENDS FiniteSets

CONSTANTS
  Names,       \* non-empty strings used as node or satellite ids
  Empty,       \* the empty string, or a missing metadata entry
  Messages     \* the NodeRegisterMessages that are sent

ASSUME NamesAssumption == Empty \notin Names

ASSUME MessagesAssumption ==
  Messages \subseteq [node_id        : Names \union {Empty},
                      meta_node      : Names \union {Empty},
                      meta_satellite : Names \union {Empty}]

VARIABLES
  initialized,
  nodes,       \* nodes_: the satellite_id of each registered node
  alias,       \* alias_to_node_id_
  phase,       \* what the coordinator does with the registry
  ids,         \* the ids the shutdown loop has still to unregister
  refused,     \* history: some unregisterNode of that loop returned false
  told         \* history: satellites whose registerNode returned true

vars == <<initialized, nodes, alias, phase, ids, refused, told>>

Phases == {"new", "registering", "draining", "closed"}

TypeOK ==
  /\ initialized \in BOOLEAN
  /\ DOMAIN nodes \subseteq Names /\ nodes \in [DOMAIN nodes -> Names]
  /\ DOMAIN alias \subseteq Names /\ alias \in [DOMAIN alias -> Names]
  /\ phase \in Phases
  /\ ids \subseteq Names
  /\ refused \in BOOLEAN
  /\ told \subseteq Names

EmptyMap == [x \in {} |-> x]

Init ==
  /\ initialized = FALSE
  /\ nodes = EmptyMap
  /\ alias = EmptyMap
  /\ phase = "new"
  /\ ids = {}
  /\ refused = FALSE
  /\ told = {}

-----------------------------------------------------------------------------

First(a, b) == IF a # Empty THEN a ELSE b

\* comm_node_id and satellite_id as registerNode derives them.
CommNode(m)    == First(First(m.meta_node, m.node_id), m.meta_satellite)
SatelliteId(m) == First(First(m.meta_satellite, m.node_id), m.meta_node)

\* Fault variant: an alias without a text is bound like the other names.
NamesWithEmpty(m) == {CommNode(m), SatelliteId(m), m.node_id, Empty}

\* The names bound to the node of m.
NamesOf(m) == {CommNode(m), SatelliteId(m), m.node_id} \ {Empty}

Resolve(name) == IF name \in DOMAIN alias THEN alias[name] ELSE name

Known(name) == Resolve(name) \in DOMAIN nodes

\* Fault variant: the aliases of a removed node stay.
AliasesKept(gone) == DOMAIN alias

\* eraseAliasesLocked for each node of a set.
AliasesWithout(gone) == {a \in DOMAIN alias : alias[a] \notin gone}

Initialize ==
  /\ phase = "new"
  /\ initialized' = TRUE
  /\ phase' = "registering"
  /\ UNCHANGED <<nodes, alias, ids, refused, told>>

\* Fault variant: the satellite's former node stays registered.
NoneSuperseded(m) == {}

\* The node a satellite was bound to, when that was another one.
Superseded(m) ==
  {alias[s] : s \in {SatelliteId(m)} \intersect DOMAIN alias} \ {CommNode(m)}

\* registerNode passes eraseAliasesLocked a reference to the string inside the
\* alias entry of the satellite.  The loop erases that entry, and compares the
\* entries that follow it with a freed string: each may be erased or kept.
\* The names stand in no order here, so any other alias of the node may follow.
ComparedWithFreed(m) ==
  {a \in DOMAIN alias \ {SatelliteId(m)} : alias[a] \in Superseded(m)}

\* registerNode once it has the names; stale are the aliases it fails to erase.
Bind(m, stale) ==
  LET node == CommNode(m)
      kept == AliasesWithout(Superseded(m) \union {node}) \union stale
  IN  /\ nodes' = [n \in (DOMAIN nodes \ Superseded(m)) \union {node} |->
                     IF n = node THEN SatelliteId(m) ELSE nodes[n]]
      /\ alias' = [a \in kept \union NamesOf(m) |->
                     IF a \in NamesOf(m) THEN node ELSE alias[a]]

RegisterNode(m) ==
  /\ phase = "registering"
  /\ initialized
  /\ NamesOf(m) # {}
  /\ \E stale \in SUBSET ComparedWithFreed(m) : Bind(m, stale)
  /\ told' = told \union {SatelliteId(m)}
  /\ UNCHANGED <<initialized, phase, ids, refused>>

\* Fault variant: the loop gets every alias, not every node id.
BeginDrainByAlias ==
  /\ phase = "registering"
  /\ phase' = "draining"
  /\ ids' = DOMAIN alias
  /\ UNCHANGED <<initialized, nodes, alias, refused, told>>

\* getAllNodeIds in Coordinator::shutdown().
BeginDrain ==
  /\ phase = "registering"
  /\ phase' = "draining"
  /\ ids' = DOMAIN nodes
  /\ UNCHANGED <<initialized, nodes, alias, refused, told>>

UnregisterNode(id) ==
  IF Known(id)
    THEN /\ nodes' = [n \in DOMAIN nodes \ {Resolve(id)} |-> nodes[n]]
         /\ alias' = [a \in AliasesWithout({Resolve(id)}) |-> alias[a]]
         /\ UNCHANGED refused
    ELSE /\ refused' = TRUE
         /\ UNCHANGED <<nodes, alias>>

DrainOne ==
  /\ phase = "draining"
  /\ \E id \in ids :
       /\ UnregisterNode(id)
       /\ ids' = ids \ {id}
  /\ UNCHANGED <<initialized, phase, told>>

Shutdown ==
  /\ phase = "draining"
  /\ ids = {}
  /\ initialized' = FALSE
  /\ nodes' = EmptyMap
  /\ alias' = EmptyMap
  /\ phase' = "closed"
  /\ UNCHANGED <<ids, refused, told>>

Next ==
  \/ Initialize
  \/ \E m \in Messages : RegisterNode(m)
  \/ BeginDrain
  \/ DrainOne
  \/ Shutdown
  \/ phase = "closed" /\ UNCHANGED vars

Spec == Init /\ [][Next]_vars

-----------------------------------------------------------------------------
(* Properties.                                                             *)

\* The messages Coordinator::registerSatelliteNodes builds: node_id repeats
\* the metadata's node_id, and no field is empty.
FromCoordinator ==
  \A m \in Messages : /\ m.node_id = m.meta_node
                      /\ m.node_id # Empty /\ m.meta_satellite # Empty

\* Every alias maps to a registered node (the documentation: nodes_ maps the
\* standard ids to nodes, and alias_to_node_id_ aliases to standard ids).
NoDanglingAlias == \A a \in DOMAIN alias : alias[a] \in DOMAIN nodes

\* A registered node answers to its own id: registering a satellite whose id,
\* or node id, is already a name of another node never hijacks that node's id.
NodesAnswerToTheirId ==
  FromCoordinator =>
    \A n \in DOMAIN nodes : n \in DOMAIN alias /\ alias[n] = n

\* No node but that of satellite s itself is called s.
OwnName(s) == \A m \in Messages : m.meta_node = s => m.meta_satellite = s

\* A registered node answers to the id of its satellite, so no satellite has
\* two nodes, unless the node of another satellite is called like it.
NodesAnswerToTheirSatellite ==
  FromCoordinator =>
    \A n \in DOMAIN nodes : OwnName(nodes[n]) =>
      nodes[n] \in DOMAIN alias /\ alias[nodes[n]] = n

\* The shutdown loop unregisters exactly what is registered: each call finds
\* its node, and no node is left for NodeRegistry::shutdown() to drop.
DrainIsExact ==
  FromCoordinator =>
    /\ ~refused
    /\ phase = "draining" => ids = DOMAIN nodes

\* A name that is neither a node's id nor finds a node comes to find one only
\* through a registration that carries the name: an alias that outlived its
\* node is never revived by another registration of that node.
NamesReturnByRegistration ==
  [][\A name \in Names \ DOMAIN nodes : ~Known(name) /\ Known(name)' =>
       \E m \in Messages : RegisterNode(m) /\ name \in NamesOf(m)]_vars

\* Each satellite whose registration was reported successful can be looked up
\* while the coordinator runs (the documentation: the registry guarantees that
\* the coordinator knows which satellite nodes exist).
ToldSatellitesAreKnown ==
  phase = "registering" => \A s \in told : Known(s)
=============================================================================
