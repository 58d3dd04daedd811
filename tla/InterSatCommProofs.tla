------------------------- MODULE InterSatCommProofs -------------------------
(***************************************************************************)
(* The node table of InterSatComm owns its descriptors, whatever the four  *)
(* threads, the peers and stop() do, and however many of them there are.   *)
(***************************************************************************)
EXTENDS InterSatComm, TLAPS

\* The place of the accept thread tells whether it holds a descriptor; the
\* peer of a held one is known, and the table does not have it yet.
Accepting ==
  acc.pc = "accepted" =>
    /\ acc.fd \in Fds
    /\ owner[acc.fd] # None
    /\ \A n \in DOMAIN nodes : nodes[n].fd # acc.fd

\* A thread that uses a name, or a connection, has one.
Busy ==
  /\ rcv.pc = "reading" => rcv.name \in Keys /\ rcv.conn \in Conns
  /\ snd.pc = "send" => snd.dest \in Names /\ snd.fd \in Fds
  /\ snd.pc \in {"sending", "drop"} => snd.dest \in Names
  /\ snd.pc = "sending" => snd.conn \in Conns

IInv == TypeOK /\ DescriptorsOwned /\ Accepting /\ Busy

-----------------------------------------------------------------------------

\* The initial state satisfies the invariant.
LEMMA InitInv == Init => IInv
<1> SUFFICES ASSUME Init PROVE IInv OBVIOUS
<1>1. DOMAIN nodes = {} BY DEF Init, EmptyTable
<1>2. DescriptorsOwned BY <1>1 DEF DescriptorsOwned
<1>3. Accepting /\ Busy BY DEF Init, Accepting, Busy
<1>4. DOMAIN nodes \subseteq Keys /\ nodes \in [DOMAIN nodes -> Entry]
  BY <1>1 DEF Init, EmptyTable
<1>5. TypeOK BY <1>4 DEF Init, TypeOK
<1> QED BY <1>2, <1>3, <1>5 DEF IInv

\* Closing descriptors leaves a descriptor table.
LEMMA ClosedType ==
  ASSUME TypeOK, NEW fds PROVE Closed(fds) \in [Fds -> Conns \union {None}]
  BY DEF TypeOK, Closed

\* removeNode on the tables: types stay, and so does the ownership.
LEMMA RemoveEffect ==
  ASSUME TypeOK, DescriptorsOwned, Accepting, NEW n \in Keys, RemoveNode(n)
  PROVE  /\ owner' \in [Fds -> Conns \union {None}]
         /\ DOMAIN nodes' \subseteq Keys /\ nodes' \in [DOMAIN nodes' -> Entry]
         /\ DescriptorsOwned'
         /\ acc' = acc => Accepting'
<1>1. CASE n \in DOMAIN nodes
  <2>1. owner' = Closed({nodes[n].fd}) /\ nodes' = Without(n)
    BY <1>1 DEF RemoveNode
  <2>2. /\ DOMAIN nodes' = DOMAIN nodes \ {n}
        /\ \A k \in DOMAIN nodes' : nodes'[k] = nodes[k]
    BY <2>1 DEF Without
  <2>3. owner' \in [Fds -> Conns \union {None}] BY <2>1, ClosedType
  <2>4. DOMAIN nodes' \subseteq Keys /\ nodes' \in [DOMAIN nodes' -> Entry]
    BY <2>1, <2>2 DEF TypeOK, Without
  <2>5. \A f \in Fds \ {nodes[n].fd} : owner'[f] = owner[f]
    BY <2>1 DEF Closed
  <2>6. \A k \in DOMAIN nodes : nodes[k].fd \in Fds \union {None}
    BY DEF TypeOK, Entry
  <2>7. DescriptorsOwned'
    BY <1>1, <2>2, <2>5, <2>6 DEF DescriptorsOwned
  <2>8. ASSUME acc' = acc PROVE Accepting'
    BY <1>1, <2>2, <2>5, <2>8 DEF Accepting
  <2> QED BY <2>3, <2>4, <2>7, <2>8
<1>2. CASE n \notin DOMAIN nodes
  <2>1. UNCHANGED tableVars BY <1>2 DEF RemoveNode
  <2> QED BY <2>1 DEF tableVars, TypeOK, DescriptorsOwned, Accepting
<1> QED BY <1>1, <1>2

\* A step that leaves nodes_, descriptors and accept thread alone keeps the
\* ownership.
LEMMA TablesAlone ==
  ASSUME DescriptorsOwned, Accepting, UNCHANGED <<tableVars, acc>>
  PROVE  DescriptorsOwned' /\ Accepting'
  BY DEF DescriptorsOwned, Accepting, tableVars

\* A step that only tells entries' ages anew keeps the ownership.
LEMMA AgesAlone ==
  ASSUME DescriptorsOwned, Accepting, UNCHANGED <<owner, acc>>,
         DOMAIN nodes' = DOMAIN nodes,
         \A n \in DOMAIN nodes : nodes'[n].fd = nodes[n].fd
  PROVE  DescriptorsOwned' /\ Accepting'
  BY DEF DescriptorsOwned, Accepting

-----------------------------------------------------------------------------

\* Peers change only what there is to receive.
LEMMA PeerInv ==
  ASSUME IInv, NEW c \in Conns, Connect(c) \/ Arrive(c) PROVE IInv'
<1> USE DEF IInv
<1>1. DescriptorsOwned' /\ Accepting'
  BY TablesAlone DEF Connect, Arrive
<1>2. Busy' BY DEF Connect, Arrive, Busy
<1>3. UNCHANGED <<tableVars, mainVars, acc, rcv, snd, hb, suspect>>
  BY DEF Connect, Arrive
<1>4. /\ line' \in [Conns -> {"absent", "backlog", "idle", "partial", "frame", "broken"}]
      /\ claim' \in [Conns -> Names \union {None}]
  BY DEF Connect, Arrive, TypeOK
<1>5. TypeOK' BY <1>3, <1>4 DEF TypeOK, tableVars, mainVars
<1> QED BY <1>1, <1>2, <1>5

\* The accept thread puts into the table only a descriptor of its own.
LEMMA AcceptInv == IInv /\ AcceptStep => IInv'
<1> SUFFICES ASSUME IInv, AcceptStep PROVE IInv' OBVIOUS
<1> USE DEF IInv
<1>0. Busy' BY DEF AcceptStep, AcceptLoop, AcceptConnection, AcceptFails, AddNode, Busy
<1>1. CASE AcceptLoop \/ AcceptFails
  <2>1. UNCHANGED <<peerVars, tableVars, mainVars, rcv, snd, hb, suspect>>
    BY <1>1 DEF AcceptLoop, AcceptFails
  <2>2. /\ acc' \in [pc : {"off", "check", "blocked", "accepted", "done"},
                     fd : Fds \union {None}]
        /\ acc'.pc # "accepted"
    BY <1>1 DEF AcceptLoop, AcceptFails, TypeOK
  <2>3. TypeOK' BY <2>1, <2>2 DEF TypeOK, peerVars, tableVars, mainVars
  <2> QED BY <1>0, <2>1, <2>2, <2>3 DEF DescriptorsOwned, Accepting, tableVars
<1>2. CASE AcceptConnection
  <2>1. PICK c \in Conns, f \in Fds :
           /\ owner[f] = None
           /\ line' = [line EXCEPT ![c] = "idle"]
           /\ owner' = [owner EXCEPT ![f] = c]
           /\ acc' = [pc |-> "accepted", fd |-> f]
    BY <1>2 DEF AcceptConnection
  <2>2. UNCHANGED <<claim, nodes, mainVars, rcv, snd, hb, suspect>>
    BY <1>2 DEF AcceptConnection
  <2>3. TypeOK' BY <2>1, <2>2 DEF TypeOK, mainVars
  <2>4. \A n \in DOMAIN nodes : nodes[n].fd # f
    BY <2>1, NamesApart DEF DescriptorsOwned
  <2>5. owner'[f] = c /\ \A g \in Fds \ {f} : owner'[g] = owner[g]
    BY <2>1 DEF TypeOK
  <2>6. \A n \in DOMAIN nodes : nodes[n].fd \in Fds \union {None}
    BY DEF TypeOK, Entry
  <2>7. DescriptorsOwned' BY <2>2, <2>4, <2>5, <2>6 DEF DescriptorsOwned
  <2>8. Accepting' BY <2>1, <2>2, <2>4, <2>5, NamesApart DEF Accepting
  <2> QED BY <1>0, <2>3, <2>7, <2>8
<1>3. CASE AddNode
  <2> DEFINE c == owner[acc.fd]
  <2>1. PICK stamp \in Stamps :
           nodes' = [n \in DOMAIN nodes \union {c} |->
                       IF n = c THEN [fd |-> acc.fd, age |-> stamp] ELSE nodes[n]]
    BY <1>3 DEF AddNode
  <2>2. /\ acc.pc = "accepted"
        /\ acc' = [pc |-> "check", fd |-> None]
        /\ UNCHANGED <<peerVars, owner, mainVars, rcv, snd, hb, suspect>>
    BY <1>3 DEF AddNode
  <2>3. c \in Keys /\ acc.fd \in Fds
    BY <2>2 DEF Accepting, TypeOK, Keys
  <2>4. [fd |-> acc.fd, age |-> stamp] \in Entry
    BY <2>3 DEF Entry, Stamps
  <2>5. DOMAIN nodes' \subseteq Keys /\ nodes' \in [DOMAIN nodes' -> Entry]
    BY <2>1, <2>3, <2>4 DEF TypeOK
  <2>6. TypeOK' BY <2>2, <2>5 DEF TypeOK, peerVars, mainVars
  <2>7. /\ DOMAIN nodes' = DOMAIN nodes \union {c}
        /\ nodes'[c].fd = acc.fd
        /\ \A n \in DOMAIN nodes \ {c} : nodes'[n] = nodes[n]
    BY <2>1
  <2>8. DescriptorsOwned'
    BY <2>2, <2>7 DEF DescriptorsOwned, Accepting
  <2> QED BY <1>0, <2>2, <2>6, <2>8 DEF Accepting
<1> QED BY <1>1, <1>2, <1>3 DEF AcceptStep

-----------------------------------------------------------------------------

\* The receive thread's steps that only tell the table's content.
LEMMA LookInv ==
  ASSUME IInv, ReceiveCheck \/ Snapshot \/ Select \/ StartReceive \/ ReceiveFails
  PROVE  IInv'
<1> USE DEF IInv
<1>1. UNCHANGED <<peerVars, tableVars, mainVars, acc, snd, hb, suspect>>
  BY DEF ReceiveCheck, Snapshot, Select, StartReceive, ReceiveFails
<1> DEFINE Rcv == [pc : {"off", "check", "snapshot", "select", "scan", "reading",
                         "dropping", "done"},
                   scan : SUBSET (Keys \X Fds), failed : SUBSET Keys,
                   name : Keys \union {None}, conn : Conns \union {None}]
<1>2. rcv \in Rcv BY DEF TypeOK
<1>3. rcv' \in Rcv /\ (rcv'.pc = "reading" => rcv'.name \in Keys /\ rcv'.conn \in Conns)
  <2>1. CASE ReceiveCheck BY <1>2, <2>1 DEF ReceiveCheck
  <2>2. CASE Snapshot
    <3> DEFINE valid == {n \in DOMAIN nodes : nodes[n].fd # None}
    <3>1. {<<n, nodes[n].fd>> : n \in valid} \in SUBSET (Keys \X Fds)
      BY DEF TypeOK, Entry
    <3> QED BY <1>2, <2>2, <3>1 DEF Snapshot
  <2>3. CASE Select BY <1>2, <2>3 DEF Select
  <2>4. CASE StartReceive
    <3>1. CASE rcv.scan = {} BY <1>2, <2>4, <3>1 DEF StartReceive
    <3>2. CASE rcv.scan # {}
      <4>1. PICK p \in rcv.scan :
              rcv' = IF owner[p[2]] = None
                       THEN [rcv EXCEPT !.scan = @ \ {p}, !.failed = @ \union {p[1]}]
                       ELSE [rcv EXCEPT !.pc = "reading", !.scan = @ \ {p},
                                        !.name = p[1], !.conn = owner[p[2]]]
        BY <2>4, <3>2 DEF StartReceive
      <4>2. p[1] \in Keys /\ p[2] \in Fds BY <1>2, <4>1
      <4>3. owner[p[2]] \in Conns \union {None} BY <4>2 DEF TypeOK
      <4>4. CASE owner[p[2]] = None
        <5>1. rcv' = [rcv EXCEPT !.scan = @ \ {p}, !.failed = @ \union {p[1]}]
          BY <4>1, <4>4
        <5>2. rcv.pc = "scan" BY <2>4 DEF StartReceive
        <5> QED BY <1>2, <4>2, <5>1, <5>2
      <4>5. CASE owner[p[2]] # None
        <5>1. rcv' = [rcv EXCEPT !.pc = "reading", !.scan = @ \ {p},
                                 !.name = p[1], !.conn = owner[p[2]]]
          BY <4>1, <4>5
        <5> QED BY <1>2, <4>2, <4>3, <4>5, <5>1
      <4> QED BY <4>4, <4>5
    <3> QED BY <3>1, <3>2
  <2>5. CASE ReceiveFails BY <1>2, <2>5 DEF ReceiveFails, Busy
  <2> QED BY <2>1, <2>2, <2>3, <2>4, <2>5
<1>4. DescriptorsOwned' /\ Accepting' BY <1>1, TablesAlone
<1>5. Busy' BY <1>1, <1>3 DEF Busy
<1>6. TypeOK' BY <1>1, <1>3 DEF TypeOK, peerVars, tableVars, mainVars
<1> QED BY <1>4, <1>5, <1>6

\* Renaming a node moves its entry, and may overwrite another; no descriptor
\* comes to be in two entries.
LEMMA StampEffect ==
  ASSUME IInv, rcv.pc = "reading", rcv.name \in DOMAIN nodes,
         NEW source \in Names \union {None}, NEW stamp \in Stamps,
         Stamp(source, stamp), UNCHANGED <<owner, acc>>
  PROVE  /\ DOMAIN nodes' \subseteq Keys /\ nodes' \in [DOMAIN nodes' -> Entry]
         /\ DescriptorsOwned' /\ Accepting'
<1> USE DEF IInv
<1> DEFINE new == NewName(source)
           moved == [nodes[rcv.name] EXCEPT !.age = stamp]
<1>1. new \in Keys BY DEF NewName, Busy, Keys
<1>2. nodes[rcv.name] \in Entry BY DEF TypeOK
<1>3. moved \in Entry /\ moved.fd = nodes[rcv.name].fd
  BY <1>2 DEF Entry, Stamps
<1>4. /\ DOMAIN nodes' = (DOMAIN nodes \ {rcv.name}) \union {new}
      /\ nodes'[new] = moved
      /\ \A n \in DOMAIN nodes' \ {new} : n \in DOMAIN nodes \ {rcv.name}
                                         /\ nodes'[n] = nodes[n]
  BY DEF Stamp
<1>5. DOMAIN nodes' \subseteq Keys BY <1>1, <1>4 DEF TypeOK
<1>6. \A n \in DOMAIN nodes' : nodes'[n] \in Entry
  BY <1>3, <1>4 DEF TypeOK
<1>7. nodes' \in [DOMAIN nodes' -> Entry] BY <1>6 DEF Stamp
<1>8. \A n \in DOMAIN nodes' \ {new} : nodes'[n].fd # moved.fd \/ moved.fd = None
  BY <1>3, <1>4 DEF DescriptorsOwned
<1>9. DescriptorsOwned'
  BY <1>3, <1>4, <1>8 DEF DescriptorsOwned
<1>10. Accepting' BY <1>3, <1>4 DEF Accepting
<1> QED BY <1>5, <1>7, <1>9, <1>10

\* Receiving a frame keeps the invariant.
LEMMA FrameInv == IInv /\ ReceiveFrame => IInv'
<1> SUFFICES ASSUME IInv, ReceiveFrame PROVE IInv' OBVIOUS
<1> USE DEF IInv
<1>1. /\ rcv.pc = "reading"
      /\ line' = [line EXCEPT ![rcv.conn] = "idle"]
      /\ rcv' = [rcv EXCEPT !.pc = "scan", !.name = None, !.conn = None]
      /\ UNCHANGED <<claim, owner, mainVars, acc, snd, hb, suspect>>
  BY DEF ReceiveFrame
<1>2. /\ DOMAIN nodes' \subseteq Keys /\ nodes' \in [DOMAIN nodes' -> Entry]
      /\ DescriptorsOwned' /\ Accepting'
  <2>1. CASE UNCHANGED nodes
    BY <1>1, <2>1 DEF TypeOK, DescriptorsOwned, Accepting
  <2>2. CASE /\ rcv.name \in DOMAIN nodes
             /\ \E source \in {claim[rcv.conn], None}, stamp \in Stamps :
                  Stamp(source, stamp)
    <3>1. {claim[rcv.conn], None} \subseteq Names \union {None}
      BY <1>1 DEF TypeOK, Busy
    <3> QED BY <1>1, <2>2, <3>1, StampEffect
  <2> QED BY <2>1, <2>2 DEF ReceiveFrame
<1>3. line' \in [Conns -> {"absent", "backlog", "idle", "partial", "frame", "broken"}]
  BY <1>1 DEF TypeOK
<1>4. rcv' \in [pc : {"off", "check", "snapshot", "select", "scan", "reading",
                      "dropping", "done"},
                scan : SUBSET (Keys \X Fds), failed : SUBSET Keys,
                name : Keys \union {None}, conn : Conns \union {None}]
  BY <1>1 DEF TypeOK
<1>5. TypeOK' BY <1>1, <1>2, <1>3, <1>4 DEF TypeOK, mainVars
<1>6. Busy' BY <1>1 DEF Busy
<1> QED BY <1>2, <1>5, <1>6

\* The receive thread, dropping the nodes it could not read from.
LEMMA DropFailedInv == IInv /\ DropFailed => IInv'
<1> SUFFICES ASSUME IInv, DropFailed PROVE IInv' OBVIOUS
<1> USE DEF IInv
<1>1. rcv.pc = "dropping" /\ UNCHANGED <<peerVars, mainVars, acc, snd, hb, suspect>>
  BY DEF DropFailed
<1>2. /\ owner' \in [Fds -> Conns \union {None}]
      /\ DOMAIN nodes' \subseteq Keys /\ nodes' \in [DOMAIN nodes' -> Entry]
      /\ DescriptorsOwned' /\ Accepting'
      /\ rcv' \in [pc : {"off", "check", "snapshot", "select", "scan", "reading",
                         "dropping", "done"},
                   scan : SUBSET (Keys \X Fds), failed : SUBSET Keys,
                   name : Keys \union {None}, conn : Conns \union {None}]
      /\ rcv'.pc # "reading"
  <2>1. CASE rcv.failed = {}
    <3>1. rcv' = [rcv EXCEPT !.pc = "check"] /\ UNCHANGED tableVars
      BY <2>1 DEF DropFailed
    <3> QED BY <1>1, <3>1, TablesAlone DEF TypeOK, tableVars
  <2>2. CASE rcv.failed # {}
    <3>1. PICK n \in rcv.failed :
             RemoveNode(n) /\ rcv' = [rcv EXCEPT !.failed = @ \ {n}]
      BY <2>2 DEF DropFailed
    <3>2. n \in Keys BY <3>1 DEF TypeOK
    <3>3. rcv' \in [pc : {"off", "check", "snapshot", "select", "scan", "reading",
                          "dropping", "done"},
                    scan : SUBSET (Keys \X Fds), failed : SUBSET Keys,
                    name : Keys \union {None}, conn : Conns \union {None}]
      BY <3>1 DEF TypeOK
    <3>4. rcv'.pc = "dropping" BY <1>1, <3>1 DEF TypeOK
    <3> QED BY <1>1, <3>1, <3>2, <3>3, <3>4, RemoveEffect
  <2> QED BY <2>1, <2>2
<1>3. TypeOK' BY <1>1, <1>2 DEF TypeOK, peerVars, mainVars
<1>4. Busy' BY <1>1, <1>2 DEF Busy
<1> QED BY <1>2, <1>3, <1>4

-----------------------------------------------------------------------------

\* The send thread reads the table, and uses what it read later.
LEMMA SendInv ==
  ASSUME IInv, SendCheck \/ Pop \/ StartSend \/ SendSucceeds \/ SendFails
  PROVE  IInv'
<1> USE DEF IInv
<1>1. UNCHANGED <<peerVars, tableVars, mainVars, acc, rcv, hb, suspect>>
  BY DEF SendCheck, Pop, StartSend, SendSucceeds, SendFails
<1> DEFINE Snd == [pc : {"off", "check", "pop", "send", "sending", "drop", "done"},
                dest : Names \union {None}, fd : Fds \union {None},
                conn : Conns \union {None}]
           Sane(s) == /\ s.pc = "send" => s.dest \in Names /\ s.fd \in Fds
                      /\ s.pc \in {"sending", "drop"} => s.dest \in Names
                      /\ s.pc = "sending" => s.conn \in Conns
<1>2. snd \in Snd /\ Sane(snd) BY DEF TypeOK, Busy
<1>3. snd' \in Snd /\ Sane(snd')
  <2>1. CASE SendCheck BY <1>2, <2>1 DEF SendCheck
  <2>2. CASE Pop
    <3>1. CASE snd' = [snd EXCEPT !.pc = "check"] BY <1>2, <3>1
    <3>2. ASSUME NEW d \in Names \intersect DOMAIN nodes, nodes[d].fd # None,
                 snd' = [snd EXCEPT !.pc = "send", !.dest = d, !.fd = nodes[d].fd]
          PROVE  snd' \in Snd /\ Sane(snd')
      <4>1. nodes[d].fd \in Fds BY <3>2 DEF TypeOK, Entry
      <4> QED BY <1>2, <3>2, <4>1
    <3> QED BY <2>2, <3>1, <3>2 DEF Pop
  <2>3. CASE StartSend
    <3>1. snd.pc = "send" /\ snd.fd \in Fds /\ snd.dest \in Names
      BY <1>2, <2>3 DEF StartSend
    <3>2. owner[snd.fd] \in Conns \union {None} BY <3>1 DEF TypeOK
    <3> QED BY <1>2, <2>3, <3>1, <3>2 DEF StartSend
  <2>4. CASE SendSucceeds BY <1>2, <2>4 DEF SendSucceeds
  <2>5. CASE SendFails BY <1>2, <2>5 DEF SendFails
  <2> QED BY <2>1, <2>2, <2>3, <2>4, <2>5
<1>4. DescriptorsOwned' /\ Accepting' BY <1>1, TablesAlone
<1>5. TypeOK' BY <1>1, <1>3 DEF TypeOK, peerVars, tableVars, mainVars
<1>6. Busy' BY <1>1, <1>3 DEF Busy
<1> QED BY <1>4, <1>5, <1>6

\* The send thread, dropping the node it could not send to.
LEMMA DropDestinationInv == IInv /\ DropDestination => IInv'
<1> SUFFICES ASSUME IInv, DropDestination PROVE IInv' OBVIOUS
<1> USE DEF IInv
<1>1. /\ snd.pc = "drop" /\ RemoveNode(snd.dest)
      /\ snd' = [snd EXCEPT !.pc = "check", !.dest = None]
      /\ UNCHANGED <<peerVars, mainVars, acc, rcv, hb, suspect>>
  BY DEF DropDestination
<1>2. snd.dest \in Keys BY <1>1 DEF Busy, Keys
<1>3. /\ owner' \in [Fds -> Conns \union {None}]
      /\ DOMAIN nodes' \subseteq Keys /\ nodes' \in [DOMAIN nodes' -> Entry]
      /\ DescriptorsOwned' /\ Accepting'
  BY <1>1, <1>2, RemoveEffect
<1>4. snd' \in [pc : {"off", "check", "pop", "send", "sending", "drop", "done"},
                  dest : Names \union {None}, fd : Fds \union {None},
                  conn : Conns \union {None}]
  BY <1>1 DEF TypeOK
<1>5. TypeOK' BY <1>1, <1>3, <1>4 DEF TypeOK, peerVars, mainVars
<1>6. Busy' BY <1>1, <1>4 DEF Busy
<1> QED BY <1>3, <1>5, <1>6

-----------------------------------------------------------------------------

\* The heartbeat thread changes ages, or drops nodes.
LEMMA HeartbeatInv == IInv /\ HeartbeatStep => IInv'
<1> SUFFICES ASSUME IInv, HeartbeatStep PROVE IInv' OBVIOUS
<1> USE DEF IInv
<1> DEFINE Hb == [pc : {"off", "wait", "timing", "dropping", "done"},
                  overdue : SUBSET Keys]
<1>1. UNCHANGED <<peerVars, mainVars, acc, rcv, snd>>
  BY DEF HeartbeatStep, ReadClock, FindOverdue, DropOverdue
<1>2. /\ owner' \in [Fds -> Conns \union {None}]
      /\ DOMAIN nodes' \subseteq Keys /\ nodes' \in [DOMAIN nodes' -> Entry]
      /\ DescriptorsOwned' /\ Accepting'
      /\ hb' \in Hb
      /\ suspect' \subseteq Conns
  <2>1. CASE ReadClock
    <3>1. UNCHANGED <<owner, suspect>> BY <2>1 DEF ReadClock
    <3>2. hb' \in Hb BY <2>1 DEF ReadClock, TypeOK
    <3>3. /\ DOMAIN nodes' = DOMAIN nodes /\ nodes' \in [DOMAIN nodes -> Entry]
          /\ \A n \in DOMAIN nodes : nodes'[n].fd = nodes[n].fd
      <4>1. CASE running
        <5>1. PICK silent \in SUBSET DOMAIN nodes :
                nodes' = [n \in DOMAIN nodes |->
                  [nodes[n] EXCEPT !.age = IF n \in silent THEN "overdue" ELSE "recent"]]
          BY <2>1, <4>1 DEF ReadClock
        <5> QED BY <5>1 DEF TypeOK, Entry
      <4>2. CASE ~running BY <2>1, <4>2 DEF ReadClock, TypeOK
      <4> QED BY <4>1, <4>2
    <3>4. DescriptorsOwned' /\ Accepting' BY <1>1, <3>1, <3>3, AgesAlone
    <3> QED BY <3>1, <3>2, <3>3, <3>4 DEF TypeOK
  <2>2. CASE FindOverdue
    <3>1. owner' = owner BY <2>2 DEF FindOverdue
    <3>2. hb' \in Hb BY <2>2 DEF FindOverdue, TypeOK, Overdue
    <3>3. /\ DOMAIN nodes' = DOMAIN nodes /\ nodes' \in [DOMAIN nodes -> Entry]
          /\ \A n \in DOMAIN nodes : nodes'[n].fd = nodes[n].fd
      BY <2>2 DEF FindOverdue, TypeOK, Entry
    <3>4. suspect' \subseteq Conns
      <4>1. \A n \in DOMAIN nodes : nodes[n].fd # None =>
              owner[nodes[n].fd] \in Conns
        BY DEF DescriptorsOwned, TypeOK, Entry
      <4> QED BY <2>2, <4>1 DEF FindOverdue
    <3>5. DescriptorsOwned' /\ Accepting' BY <1>1, <3>1, <3>3, AgesAlone
    <3> QED BY <3>1, <3>2, <3>3, <3>4, <3>5 DEF TypeOK
  <2>3. CASE DropOverdue
    <3>1. CASE hb.overdue = {}
      <4>1. UNCHANGED tableVars /\ suspect' = {} /\ hb' = [hb EXCEPT !.pc = "wait"]
        BY <2>3, <3>1 DEF DropOverdue
      <4> QED BY <1>1, <4>1, TablesAlone DEF TypeOK, tableVars
    <3>2. CASE hb.overdue # {}
      <4>1. PICK n \in hb.overdue :
              RemoveNode(n) /\ hb' = [hb EXCEPT !.overdue = @ \ {n}] /\ UNCHANGED suspect
        BY <2>3, <3>2 DEF DropOverdue
      <4>2. n \in Keys /\ hb' \in Hb BY <4>1 DEF TypeOK
      <4>3. suspect' \subseteq Conns BY <4>1 DEF TypeOK
      <4> QED BY <1>1, <4>1, <4>2, <4>3, RemoveEffect
    <3> QED BY <3>1, <3>2
  <2> QED BY <2>1, <2>2, <2>3 DEF HeartbeatStep
<1>3. TypeOK' BY <1>1, <1>2 DEF TypeOK, peerVars, mainVars
<1>4. Busy' BY <1>1 DEF Busy
<1> QED BY <1>2, <1>3, <1>4

-----------------------------------------------------------------------------

\* start() and stop() keep the invariant; stop() closes what the table owns
\* and forgets it in one step.
LEMMA MainInv == IInv /\ (Start \/ BeginStop \/ StopStep) => IInv'
<1> SUFFICES ASSUME IInv, Start \/ BeginStop \/ StopStep PROVE IInv' OBVIOUS
<1> USE DEF IInv
<1>1. CASE Start
  <2>1. UNCHANGED <<peerVars, tableVars, listening, suspect>> BY <1>1 DEF Start
  <2>2. /\ running' = TRUE /\ main' = "serving"
        /\ acc' = [acc EXCEPT !.pc = "check"] /\ rcv' = [rcv EXCEPT !.pc = "check"]
        /\ snd' = [snd EXCEPT !.pc = "check"] /\ hb' = [hb EXCEPT !.pc = "wait"]
    BY <1>1 DEF Start
  <2>3. TypeOK' BY <2>1, <2>2 DEF TypeOK, peerVars, tableVars
  <2>4. acc'.pc = "check" /\ rcv'.pc = "check" /\ snd'.pc = "check"
    BY <2>2 DEF TypeOK
  <2>5. Accepting' /\ Busy' BY <2>4 DEF Accepting, Busy
  <2> QED BY <2>1, <2>3, <2>5 DEF DescriptorsOwned, tableVars
<1>2. CASE BeginStop \/ Unlisten
  <2>1. UNCHANGED <<peerVars, tableVars, acc, rcv, snd, hb, suspect>>
    BY <1>2 DEF BeginStop, Unlisten
  <2>2. TypeOK' BY <1>2 DEF BeginStop, Unlisten, TypeOK, peerVars, tableVars
  <2> QED BY <2>1, <2>2, TablesAlone DEF Busy
<1>3. CASE CloseNodes
  <2> DEFINE closed == {nodes[n].fd : n \in DOMAIN nodes}
  <2>1. /\ owner' = Closed(closed) /\ main' = "join"
        /\ nodes' = [n \in DOMAIN nodes |-> [nodes[n] EXCEPT !.fd = None]]
        /\ UNCHANGED <<peerVars, running, listening, acc, rcv, snd, hb, suspect>>
    BY <1>3 DEF CloseNodes
  <2>2. owner' \in [Fds -> Conns \union {None}] BY <2>1, ClosedType
  <2>3. /\ DOMAIN nodes' = DOMAIN nodes /\ nodes' \in [DOMAIN nodes -> Entry]
        /\ \A n \in DOMAIN nodes : nodes'[n].fd = None
    BY <2>1 DEF TypeOK, Entry
  <2>4. TypeOK' BY <2>1, <2>2, <2>3 DEF TypeOK, peerVars
  <2>5. DescriptorsOwned' BY <2>3 DEF DescriptorsOwned
  <2>6. ASSUME acc.pc = "accepted"
        PROVE  acc.fd \in Fds /\ owner'[acc.fd] # None /\ acc.fd # None
    BY <2>1, <2>6, NamesApart DEF Accepting, Closed
  <2>7. Accepting' BY <2>1, <2>3, <2>6 DEF Accepting
  <2> QED BY <2>1, <2>4, <2>5, <2>7 DEF Busy
<1>4. CASE JoinThreads
  <2>1. /\ nodes' = EmptyTable /\ main' = "stopped"
        /\ UNCHANGED <<peerVars, owner, running, listening, acc, rcv, snd, hb, suspect>>
    BY <1>4 DEF JoinThreads
  <2>2. DOMAIN nodes' = {} /\ nodes' \in [DOMAIN nodes' -> Entry]
    BY <2>1 DEF EmptyTable
  <2>3. TypeOK' BY <2>1, <2>2 DEF TypeOK, peerVars
  <2> QED BY <2>1, <2>2, <2>3 DEF DescriptorsOwned, Accepting, Busy
<1> QED BY <1>1, <1>2, <1>3, <1>4 DEF StopStep

\* Every step keeps the invariant.
LEMMA NextInv == IInv /\ [Next]_vars => IInv'
<1> SUFFICES ASSUME IInv, [Next]_vars PROVE IInv' OBVIOUS
<1>1. ASSUME NEW c \in Conns, Connect(c) \/ Arrive(c) PROVE IInv'
  BY <1>1, PeerInv
<1>2. CASE AcceptStep BY <1>2, AcceptInv
<1>3. CASE ReceiveStep
  BY <1>3, LookInv, FrameInv, DropFailedInv DEF ReceiveStep
<1>4. CASE SendStep \/ SendSucceeds
  BY <1>4, SendInv, DropDestinationInv DEF SendStep
<1>5. CASE HeartbeatStep BY <1>5, HeartbeatInv
<1>6. CASE Start \/ BeginStop \/ StopStep BY <1>6, MainInv
<1>7. CASE UNCHANGED vars
  BY <1>7 DEF vars, peerVars, tableVars, mainVars, IInv, TypeOK, DescriptorsOwned,
              Accepting, Busy
<1> QED BY <1>1, <1>2, <1>3, <1>4, <1>5, <1>6, <1>7 DEF Next

\* In every reachable state the invariant holds.
THEOREM Invariance == Spec => []IInv
<1> QED BY InitInv, NextInv, PTL DEF Spec

\* Every reachable state is well typed, for any peers, names and descriptors.
THEOREM TypeCorrect == Spec => []TypeOK
<1>1. IInv => TypeOK BY DEF IInv
<1> QED BY <1>1, Invariance, PTL

\* The table's descriptors are open and its own, although four threads share
\* it and use what they read from it after they have let go of the lock.
THEOREM Owned == Spec => []DescriptorsOwned
<1>1. IInv => DescriptorsOwned BY DEF IInv
<1> QED BY <1>1, Invariance, PTL
=============================================================================
