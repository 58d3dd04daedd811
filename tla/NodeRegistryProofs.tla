------------------------- MODULE NodeRegistryProofs -------------------------
(***************************************************************************)
(* Proofs about NodeRegistry for any names and any registrations.          *)
(***************************************************************************)
EXTENDS NodeRegistry, TLAPS

\* A registration with some name yields names, all bound to its node.
LEMMA RegistrationNames ==
  ASSUME NEW m \in Messages, NamesOf(m) # {}
  PROVE  /\ CommNode(m) \in Names /\ SatelliteId(m) \in Names
         /\ NamesOf(m) \subseteq Names
         /\ CommNode(m) \in NamesOf(m) /\ SatelliteId(m) \in NamesOf(m)
BY NamesAssumption, MessagesAssumption
DEF NamesOf, CommNode, SatelliteId, First

\* A message of the coordinator names its node and its satellite, no more.
LEMMA CoordinatorNames ==
  ASSUME FromCoordinator, NEW m \in Messages
  PROVE  /\ CommNode(m) = m.meta_node /\ SatelliteId(m) = m.meta_satellite
         /\ NamesOf(m) = {m.meta_node, m.meta_satellite}
BY MessagesAssumption DEF FromCoordinator, NamesOf, CommNode, SatelliteId, First

\* What registerNode makes of nodes_ and alias_to_node_id_.
LEMMA RegisterEffect ==
  ASSUME NEW m \in Messages, RegisterNode(m)
  PROVE  /\ DOMAIN nodes' = (DOMAIN nodes \ Superseded(m)) \union {CommNode(m)}
         /\ \A n \in DOMAIN nodes' :
              nodes'[n] = IF n = CommNode(m) THEN SatelliteId(m) ELSE nodes[n]
         /\ AliasesWithout(Superseded(m) \union {CommNode(m)}) \union NamesOf(m)
              \subseteq DOMAIN alias'
         /\ DOMAIN alias' \subseteq DOMAIN alias \union NamesOf(m)
         /\ \A a \in DOMAIN alias' \ NamesOf(m) : alias[a] # CommNode(m)
         /\ alias' = [a \in DOMAIN alias' |->
                        IF a \in NamesOf(m) THEN CommNode(m) ELSE alias[a]]
         /\ \A a \in DOMAIN alias' :
              alias'[a] = IF a \in NamesOf(m) THEN CommNode(m) ELSE alias[a]
         /\ phase = "registering" /\ NamesOf(m) # {}
         /\ UNCHANGED <<initialized, phase, ids, refused>>
<1>1. PICK stale \in SUBSET ComparedWithFreed(m) : Bind(m, stale)
  BY DEF RegisterNode
<1>2. \A a \in stale : a \in DOMAIN alias /\ alias[a] # CommNode(m)
  BY <1>1 DEF ComparedWithFreed, Superseded
<1> QED BY <1>1, <1>2 DEF RegisterNode, Bind, AliasesWithout

\* A node after a registration is the registered one or an old one ...
LEMMA NodeAfterRegister ==
  ASSUME NEW m \in Messages, RegisterNode(m), NEW n \in DOMAIN nodes'
  PROVE  /\ n = CommNode(m) => nodes'[n] = SatelliteId(m)
         /\ n # CommNode(m) => /\ n \in DOMAIN nodes /\ n \notin Superseded(m)
                              /\ nodes'[n] = nodes[n]
<1>1. DOMAIN nodes' = (DOMAIN nodes \ Superseded(m)) \union {CommNode(m)}
  BY RegisterEffect
<1>2. nodes'[n] = IF n = CommNode(m) THEN SatelliteId(m) ELSE nodes[n]
  BY RegisterEffect
<1> QED BY <1>1, <1>2

\* ... and a name is one of the registered node's, or keeps its old meaning.
LEMMA NameAfterRegister ==
  ASSUME NEW m \in Messages, RegisterNode(m), NEW a
  PROVE  /\ a \in NamesOf(m) => a \in DOMAIN alias' /\ alias'[a] = CommNode(m)
         /\ a \notin NamesOf(m) /\ a \in AliasesWithout(Superseded(m) \union {CommNode(m)})
              => a \in DOMAIN alias' /\ alias'[a] = alias[a]
BY RegisterEffect

\* What one call of unregisterNode by the shutdown loop does.
LEMMA DrainEffect ==
  ASSUME DrainOne
  PROVE  \E id \in ids :
           /\ ids' = ids \ {id}
           /\ Known(id) =>
                /\ DOMAIN nodes' = DOMAIN nodes \ {Resolve(id)}
                /\ \A n \in DOMAIN nodes' : nodes'[n] = nodes[n]
                /\ nodes' = [n \in DOMAIN nodes \ {Resolve(id)} |-> nodes[n]]
                /\ DOMAIN alias' = AliasesWithout({Resolve(id)})
                /\ \A a \in DOMAIN alias' : alias'[a] = alias[a]
                /\ alias' = [a \in AliasesWithout({Resolve(id)}) |-> alias[a]]
                /\ UNCHANGED refused
           /\ ~Known(id) => refused' /\ UNCHANGED <<nodes, alias>>
           /\ phase = "draining" /\ UNCHANGED <<initialized, phase, told>>
BY DEF DrainOne, UnregisterNode

-----------------------------------------------------------------------------

\* The initial state is well typed.
LEMMA InitType == Init => TypeOK
BY DEF Init, TypeOK, EmptyMap, Phases

\* Every step keeps the types.
LEMMA NextType == TypeOK /\ [Next]_vars => TypeOK'
<1> SUFFICES ASSUME TypeOK, [Next]_vars PROVE TypeOK'
  OBVIOUS
<1> USE DEF TypeOK, Phases
<1>1. CASE Initialize BY <1>1 DEF Initialize
<1>2. ASSUME NEW m \in Messages, RegisterNode(m) PROVE TypeOK'
  <2>1. SatelliteId(m) \in Names /\ CommNode(m) \in Names /\ NamesOf(m) \subseteq Names
    BY <1>2, RegistrationNames DEF RegisterNode
  <2>2. DOMAIN nodes' \subseteq Names /\ nodes' \in [DOMAIN nodes' -> Names]
    BY <1>2, <2>1 DEF RegisterNode, Bind
  <2>3. DOMAIN alias' \subseteq Names /\ alias' \in [DOMAIN alias' -> Names]
    <3>1. /\ DOMAIN alias' \subseteq DOMAIN alias \union NamesOf(m)
          /\ alias' = [a \in DOMAIN alias' |->
                         IF a \in NamesOf(m) THEN CommNode(m) ELSE alias[a]]
      BY <1>2, RegisterEffect
    <3>2. \A a \in DOMAIN alias' :
            (IF a \in NamesOf(m) THEN CommNode(m) ELSE alias[a]) \in Names
      BY <2>1, <3>1
    <3>3. alias' \in [DOMAIN alias' -> Names] BY <3>1, <3>2
    <3> QED BY <2>1, <3>1, <3>3
  <2> QED BY <1>2, <2>1, <2>2, <2>3 DEF RegisterNode
<1>3. CASE BeginDrain BY <1>3 DEF BeginDrain
<1>4. CASE DrainOne
  BY <1>4 DEF DrainOne, UnregisterNode, AliasesWithout
<1>5. CASE Shutdown BY <1>5 DEF Shutdown, EmptyMap
<1>6. CASE UNCHANGED vars BY <1>6 DEF vars
<1> QED BY <1>1, <1>2, <1>3, <1>4, <1>5, <1>6 DEF Next

\* Type correctness of the registry.
THEOREM TypeCorrect == Spec => []TypeOK
BY InitType, NextType, PTL DEF Spec

-----------------------------------------------------------------------------

\* Only a registration that carries a name makes the name known.
LEMMA NewNames ==
  ASSUME TypeOK, [Next]_vars, NEW name \in Names \ DOMAIN nodes,
         ~Known(name), Known(name)'
  PROVE  \E m \in Messages : RegisterNode(m) /\ name \in NamesOf(m)
<1> USE DEF Known, Resolve
<1>1. CASE Initialize \/ BeginDrain BY <1>1 DEF Initialize, BeginDrain
<1>2. ASSUME NEW m \in Messages, RegisterNode(m) PROVE name \in NamesOf(m)
  <2> SUFFICES ASSUME name \notin NamesOf(m) PROVE FALSE
    OBVIOUS
  <2>1. name # CommNode(m) BY <1>2, RegistrationNames DEF RegisterNode
  <2>2. name \in DOMAIN alias' /\ alias'[name] \in DOMAIN nodes'
    BY <1>2, <2>1, NodeAfterRegister
  <2>3. name \in DOMAIN alias /\ alias'[name] = alias[name] /\ alias[name] # CommNode(m)
    BY <1>2, <2>2, RegisterEffect
  <2>4. alias[name] \in DOMAIN nodes
    BY <1>2, <2>2, <2>3, NodeAfterRegister
  <2> QED BY <2>3, <2>4
<1>3. CASE DrainOne
  <2>1. PICK id \in ids :
          /\ Known(id) => nodes' = [k \in DOMAIN nodes \ {Resolve(id)} |-> nodes[k]]
          /\ Known(id) => alias' = [a \in AliasesWithout({Resolve(id)}) |-> alias[a]]
          /\ ~Known(id) => UNCHANGED <<nodes, alias>>
    BY <1>3, DrainEffect
  <2>2. DOMAIN nodes' \subseteq DOMAIN nodes
        /\ \A a \in DOMAIN alias' : a \in DOMAIN alias /\ alias'[a] = alias[a]
    BY <2>1 DEF AliasesWithout
  <2> QED BY <2>2
<1>4. CASE Shutdown BY <1>4 DEF Shutdown, EmptyMap
<1>5. CASE UNCHANGED vars BY <1>5 DEF vars
<1> QED BY <1>1, <1>2, <1>3, <1>4, <1>5 DEF Next

\* A name comes to find a node only through a registration that carries it,
\* although aliases may outlive their nodes.
THEOREM NamesReturn == Spec => NamesReturnByRegistration
<1>1. TypeOK /\ [Next]_vars =>
        [\A name \in Names \ DOMAIN nodes : ~Known(name) /\ Known(name)' =>
           \E m \in Messages : RegisterNode(m) /\ name \in NamesOf(m)]_vars
  BY NewNames
<1> QED BY <1>1, TypeCorrect, PTL DEF Spec, NamesReturnByRegistration

-----------------------------------------------------------------------------

\* Every step keeps each node answering to its id.
LEMMA NextAnswer ==
  TypeOK /\ NodesAnswerToTheirId /\ [Next]_vars => NodesAnswerToTheirId'
<1> SUFFICES ASSUME TypeOK, NodesAnswerToTheirId, [Next]_vars, FromCoordinator,
                    NEW n \in DOMAIN nodes'
             PROVE  n \in DOMAIN alias' /\ alias'[n] = n
  BY DEF NodesAnswerToTheirId, FromCoordinator
<1> USE DEF NodesAnswerToTheirId
<1>1. CASE Initialize \/ BeginDrain BY <1>1 DEF Initialize, BeginDrain
<1>2. ASSUME NEW m \in Messages, RegisterNode(m)
      PROVE  n \in DOMAIN alias' /\ alias'[n] = n
  <2>1. CASE n = CommNode(m)
    BY <1>2, <2>1, RegisterEffect, RegistrationNames
  <2>2. CASE n # CommNode(m)
    <3>0. DOMAIN nodes' = (DOMAIN nodes \ Superseded(m)) \union {CommNode(m)}
      BY <1>2, RegisterEffect
    <3>1. n \in DOMAIN nodes /\ n \notin Superseded(m)
      BY <2>2, <3>0
    <3>2. n \in DOMAIN alias /\ alias[n] = n BY <3>1
    <3>3. n \notin NamesOf(m)
      BY <2>2, <3>1, <3>2, CoordinatorNames DEF Superseded
    <3>4. n \in AliasesWithout(Superseded(m) \union {CommNode(m)})
      BY <2>2, <3>1, <3>2 DEF AliasesWithout
    <3>5. n \in DOMAIN alias' BY <1>2, <3>4, RegisterEffect
    <3> QED BY <1>2, <3>2, <3>3, <3>5, RegisterEffect
  <2> QED BY <2>1, <2>2
<1>3. CASE DrainOne BY <1>3, DrainEffect DEF AliasesWithout
<1>4. CASE Shutdown BY <1>4 DEF Shutdown, EmptyMap
<1>5. CASE UNCHANGED vars BY <1>5 DEF vars
<1> QED BY <1>1, <1>2, <1>3, <1>4, <1>5 DEF Next

\* A registered node always answers to its own id, even when satellite ids
\* and node ids of the schedule collide.
THEOREM NodesAnswer == Spec => []NodesAnswerToTheirId
<1>1. Init => NodesAnswerToTheirId
  BY DEF Init, NodesAnswerToTheirId, EmptyMap
<1> QED BY <1>1, NextAnswer, TypeCorrect, PTL DEF Spec

-----------------------------------------------------------------------------

\* Every step keeps the shutdown loop exact.
LEMMA NextDrain ==
  TypeOK /\ NodesAnswerToTheirId /\ DrainIsExact /\ [Next]_vars => DrainIsExact'
<1> SUFFICES ASSUME TypeOK, NodesAnswerToTheirId, DrainIsExact, [Next]_vars,
                    FromCoordinator
             PROVE  /\ ~refused'
                    /\ phase' = "draining" => ids' = DOMAIN nodes'
  BY DEF DrainIsExact, FromCoordinator
<1> USE DEF DrainIsExact
<1>1. CASE Initialize BY <1>1 DEF Initialize
<1>2. ASSUME NEW m \in Messages, RegisterNode(m)
      PROVE  ~refused' /\ phase' # "draining"
  BY <1>2 DEF RegisterNode
<1>3. CASE BeginDrain BY <1>3 DEF BeginDrain
<1>4. CASE DrainOne
  <2>1. PICK id \in ids :
           /\ ids' = ids \ {id}
           /\ Known(id) =>
                DOMAIN nodes' = DOMAIN nodes \ {Resolve(id)} /\ UNCHANGED refused
           /\ phase = "draining"
    BY <1>4, DrainEffect
  <2>2. id \in DOMAIN nodes BY <2>1
  <2>3. Resolve(id) = id /\ Known(id)
    BY <2>2 DEF NodesAnswerToTheirId, Resolve, Known
  <2> QED BY <2>1, <2>3
<1>5. CASE Shutdown BY <1>5 DEF Shutdown
<1>6. CASE UNCHANGED vars BY <1>6 DEF vars
<1> QED BY <1>1, <1>2, <1>3, <1>4, <1>5, <1>6 DEF Next

\* The shutdown loop of the coordinator unregisters every node, and no call is
\* refused.
THEOREM DrainExact == Spec => []DrainIsExact
<1>1. Init => DrainIsExact BY DEF Init, DrainIsExact
<1> QED BY <1>1, NextDrain, NodesAnswer, TypeCorrect, PTL DEF Spec

-----------------------------------------------------------------------------

\* Every step keeps each node answering to its satellite's id.
LEMMA NextSatellite ==
  TypeOK /\ NodesAnswerToTheirSatellite /\ [Next]_vars
    => NodesAnswerToTheirSatellite'
<1> SUFFICES ASSUME TypeOK, NodesAnswerToTheirSatellite, [Next]_vars,
                    FromCoordinator, NEW n \in DOMAIN nodes', OwnName(nodes'[n])
             PROVE  nodes'[n] \in DOMAIN alias' /\ alias'[nodes'[n]] = n
  BY DEF NodesAnswerToTheirSatellite, FromCoordinator, OwnName
<1> USE DEF NodesAnswerToTheirSatellite
<1>1. CASE Initialize \/ BeginDrain BY <1>1 DEF Initialize, BeginDrain
<1>2. ASSUME NEW m \in Messages, RegisterNode(m)
      PROVE  nodes'[n] \in DOMAIN alias' /\ alias'[nodes'[n]] = n
  <2>1. CASE n = CommNode(m)
    <3>1. nodes'[n] = SatelliteId(m) BY <1>2, <2>1, NodeAfterRegister
    <3>2. SatelliteId(m) \in NamesOf(m)
      BY <1>2, RegisterEffect, RegistrationNames
    <3>3. /\ SatelliteId(m) \in DOMAIN alias'
          /\ alias'[SatelliteId(m)] = CommNode(m)
      BY <1>2, <3>2, NameAfterRegister
    <3> QED BY <2>1, <3>1, <3>3
  <2>2. CASE n # CommNode(m)
    <3>1. n \in DOMAIN nodes /\ n \notin Superseded(m) /\ nodes'[n] = nodes[n]
      BY <1>2, <2>2, NodeAfterRegister
    <3>2. nodes[n] \in DOMAIN alias /\ alias[nodes[n]] = n BY <3>1
    <3>3. nodes[n] # SatelliteId(m) BY <2>2, <3>1, <3>2 DEF Superseded
    <3>4. nodes[n] # CommNode(m)
      BY <3>1, <3>3, CoordinatorNames DEF OwnName
    <3>5. nodes[n] \notin NamesOf(m) BY <3>3, <3>4, CoordinatorNames
    <3>6. nodes[n] \in AliasesWithout(Superseded(m) \union {CommNode(m)})
      BY <2>2, <3>1, <3>2 DEF AliasesWithout
    <3>7. nodes[n] \in DOMAIN alias' /\ alias'[nodes[n]] = alias[nodes[n]]
      BY <1>2, <3>5, <3>6, NameAfterRegister
    <3> QED BY <3>1, <3>2, <3>7
  <2> QED BY <2>1, <2>2
<1>3. CASE DrainOne
  <2>1. PICK id \in ids :
          /\ Known(id) => nodes' = [k \in DOMAIN nodes \ {Resolve(id)} |-> nodes[k]]
          /\ Known(id) => alias' = [a \in AliasesWithout({Resolve(id)}) |-> alias[a]]
          /\ ~Known(id) => UNCHANGED <<nodes, alias>>
    BY <1>3, DrainEffect
  <2>2. CASE Known(id)
    <3>1. n \in DOMAIN nodes /\ n # Resolve(id) /\ nodes'[n] = nodes[n]
      BY <2>1, <2>2
    <3>2. nodes[n] \in DOMAIN alias /\ alias[nodes[n]] = n BY <3>1
    <3>3. nodes[n] \in AliasesWithout({Resolve(id)})
      BY <3>1, <3>2 DEF AliasesWithout
    <3> QED BY <2>1, <2>2, <3>1, <3>2, <3>3
  <2>3. CASE ~Known(id) BY <2>1, <2>3
  <2> QED BY <2>2, <2>3
<1>4. CASE Shutdown BY <1>4 DEF Shutdown, EmptyMap
<1>5. CASE UNCHANGED vars BY <1>5 DEF vars
<1> QED BY <1>1, <1>2, <1>3, <1>4, <1>5 DEF Next

\* Each node answers to its satellite's id, if no other satellite's node is
\* called like it: no satellite keeps a stale second node.
THEOREM SatellitesAnswer == Spec => []NodesAnswerToTheirSatellite
<1>1. Init => NodesAnswerToTheirSatellite
  BY DEF Init, NodesAnswerToTheirSatellite, EmptyMap
<1> QED BY <1>1, NextSatellite, TypeCorrect, PTL DEF Spec
=============================================================================
