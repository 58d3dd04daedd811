---------------------------- MODULE InterSatComm ----------------------------
(***************************************************************************)
(* The network side of InterSatComm: four threads accept connections,      *)
(* receive from them, send to them and drop silent ones, share the node    *)
(* table nodes_ and the process's socket descriptors, and are stopped by   *)
(* stop().  Local delivery is in SatelliteSimulator and Coordinator.       *)
(*                                                                         *)
(* A connection is named by its endpoint "ip:port", its first name in      *)
(* nodes_; the first frame that names its sender renames it.               *)
(***************************************************************************)
EXTENDS Naturals, FiniteSets

CONSTANTS
  Conns,      \* connections that peers open, by endpoint
  Names,      \* node names in frames and messages, none of them an endpoint
  Fds,        \* descriptors the process may use for accepted connections
  None,       \* no name; no connection; INVALID_SOCKET_VALUE
  CloseWakes  \* whether closing a socket ends the calls that block on it: it
              \* does with Winsock, it does not on Linux

ASSUME NamesApart ==
  /\ Conns \intersect Names = {}
  /\ None \notin Conns \union Names \union Fds
  /\ CloseWakes \in BOOLEAN

VARIABLES
  line,       \* what there is to receive from each connection's peer
  claim,      \* the source_node_id that the frames of a connection carry
  listening,  \* listen_socket_ is open
  owner,      \* the connection behind each descriptor in use
  nodes,      \* nodes_: descriptor, and last_heartbeat_time_ms as the running
              \* timeout check sees it
  running,    \* running_
  main,       \* where start() and stop() are
  acc, rcv, snd, hb,  \* the four threads: place and locals
  suspect     \* history: the connections that were silent too long, or
              \* spoke while it read the clock, at the last timeout check

peerVars  == <<line, claim>>
tableVars == <<owner, nodes>>
mainVars  == <<running, listening, main>>
vars == <<peerVars, tableVars, mainVars, acc, rcv, snd, hb, suspect>>

Keys  == Conns \union Names
Entry == [fd : Fds \union {None}, age : {"recent", "overdue"}]

TypeOK ==
  /\ line \in [Conns -> {"absent", "backlog", "idle", "partial", "frame", "broken"}]
  /\ claim \in [Conns -> Names \union {None}]
  /\ owner \in [Fds -> Conns \union {None}]
  /\ DOMAIN nodes \subseteq Keys /\ nodes \in [DOMAIN nodes -> Entry]
  /\ running \in BOOLEAN /\ listening \in BOOLEAN
  /\ main \in {"idle", "serving", "unlisten", "close_nodes", "join", "stopped"}
  /\ acc \in [pc : {"off", "check", "blocked", "accepted", "done"},
              fd : Fds \union {None}]
  /\ rcv \in [pc : {"off", "check", "snapshot", "select", "scan", "reading",
                    "dropping", "done"},
              scan : SUBSET (Keys \X Fds), failed : SUBSET Keys,
              name : Keys \union {None}, conn : Conns \union {None}]
  /\ snd \in [pc : {"off", "check", "pop", "send", "sending", "drop", "done"},
              dest : Names \union {None}, fd : Fds \union {None},
              conn : Conns \union {None}]
  /\ hb \in [pc : {"off", "wait", "timing", "dropping", "done"},
             overdue : SUBSET Keys]
  /\ suspect \subseteq Conns

EmptyTable == [n \in {} |-> n]

\* initialize() has succeeded.
Init ==
  /\ line = [c \in Conns |-> "absent"]
  /\ claim = [c \in Conns |-> None]
  /\ listening = TRUE
  /\ owner = [f \in Fds |-> None]
  /\ nodes = EmptyTable
  /\ running = FALSE
  /\ main = "idle"
  /\ acc = [pc |-> "off", fd |-> None]
  /\ rcv = [pc |-> "off", scan |-> {}, failed |-> {}, name |-> None, conn |-> None]
  /\ snd = [pc |-> "off", dest |-> None, fd |-> None, conn |-> None]
  /\ hb = [pc |-> "off", overdue |-> {}]
  /\ suspect = {}

Open(c) == \E f \in Fds : owner[f] = c

-----------------------------------------------------------------------------
(* The peers.                                                              *)

\* A connection reaches the backlog of the listening socket, which a blocked
\* accept() keeps alive where closing does not end that call.
Connect(c) ==
  /\ line[c] = "absent"
  /\ listening \/ (acc.pc = "blocked" /\ ~CloseWakes)
  /\ line' = [line EXCEPT ![c] = "backlog"]
  /\ \E name \in Names \union {None} : claim' = [claim EXCEPT ![c] = name]
  /\ UNCHANGED <<tableVars, mainVars, acc, rcv, snd, hb, suspect>>

\* Bytes of a frame arrive, or a whole one, or the connection breaks: closed,
\* reset, or a frame of an impossible size. 
Arrive(c) ==
  /\ \/ line[c] = "idle"    /\ line' \in {[line EXCEPT ![c] = s] : s \in {"partial", "frame", "broken"}}
     \/ line[c] = "partial" /\ line' \in {[line EXCEPT ![c] = s] : s \in {"frame", "broken"}}
  /\ UNCHANGED <<claim, tableVars, mainVars, acc, rcv, snd, hb, suspect>>

-----------------------------------------------------------------------------
(* The node table.  Each of these is a block under nodes_mutex_.           *)

\* last_heartbeat_time_ms = getCurrentTimeMs().  That is later than the time a
\* running timeout check compares with, unless in the same millisecond, and
\* then the check's unsigned difference wraps around: the node is overdue.
Stamps == IF hb.pc = "timing" THEN {"recent", "overdue"} ELSE {"recent"}

Without(n) == [k \in DOMAIN nodes \ {n} |-> nodes[k]]

Closed(fds) == [f \in Fds |-> IF f \in fds THEN None ELSE owner[f]]

\* Fault variant: the entry is erased and its socket stays open.
RemoveNodeLeaking(n) ==
  /\ UNCHANGED owner
  /\ IF n \in DOMAIN nodes THEN nodes' = Without(n) ELSE UNCHANGED nodes

RemoveNode(n) ==
  IF n \in DOMAIN nodes
    THEN owner' = Closed({nodes[n].fd}) /\ nodes' = Without(n)
    ELSE UNCHANGED tableVars

-----------------------------------------------------------------------------
(* acceptThreadFunc                                                        *)

\* Fault variant: the loop does not look at running_.
AcceptForEver ==
  /\ acc.pc = "check"
  /\ acc' = [acc EXCEPT !.pc = IF listening THEN "blocked" ELSE "check"]
  /\ UNCHANGED <<peerVars, tableVars, mainVars, rcv, snd, hb, suspect>>

\* Once stop() has closed the socket accept() fails at once, and the loop ends.
AcceptLoop ==
  /\ acc.pc = "check"
  /\ acc' = [acc EXCEPT !.pc = IF running THEN "blocked" ELSE "done"]
  /\ UNCHANGED <<peerVars, tableVars, mainVars, rcv, snd, hb, suspect>>

AcceptConnection ==
  /\ acc.pc = "blocked"
  /\ listening \/ ~CloseWakes
  /\ \E c \in Conns, f \in Fds :
       /\ line[c] = "backlog" /\ owner[f] = None
       /\ line' = [line EXCEPT ![c] = "idle"]
       /\ owner' = [owner EXCEPT ![f] = c]
       /\ acc' = [pc |-> "accepted", fd |-> f]
  /\ UNCHANGED <<claim, nodes, mainVars, rcv, snd, hb, suspect>>

\* accept() returns an error: the socket is closed, or no descriptor is free.
AcceptFails ==
  /\ acc.pc = "blocked"
  /\ \/ CloseWakes /\ ~listening
     \/ /\ \E c \in Conns : line[c] = "backlog"
        /\ \A f \in Fds : owner[f] # None
  /\ acc' = [acc EXCEPT !.pc = "check"]
  /\ UNCHANGED <<peerVars, tableVars, mainVars, rcv, snd, hb, suspect>>

AddNode ==
  /\ acc.pc = "accepted"
  /\ \E stamp \in Stamps :
       nodes' = [n \in DOMAIN nodes \union {owner[acc.fd]} |->
                   IF n = owner[acc.fd] THEN [fd |-> acc.fd, age |-> stamp]
                   ELSE nodes[n]]
  /\ acc' = [pc |-> "check", fd |-> None]
  /\ UNCHANGED <<peerVars, owner, mainVars, rcv, snd, hb, suspect>>

AcceptStep == AcceptLoop \/ AcceptConnection \/ AcceptFails \/ AddNode

-----------------------------------------------------------------------------
(* receiveThreadFunc                                                       *)

ReceiveCheck ==
  /\ rcv.pc = "check"
  /\ rcv' = [rcv EXCEPT !.pc = IF running THEN "snapshot" ELSE "done"]
  /\ UNCHANGED <<peerVars, tableVars, mainVars, acc, snd, hb, suspect>>

\* node_sockets, without the invalid ones.
Snapshot ==
  /\ rcv.pc = "snapshot"
  /\ LET valid == {n \in DOMAIN nodes : nodes[n].fd # None}
     IN  rcv' = [rcv EXCEPT !.pc = IF valid = {} THEN "check" ELSE "select",
                            !.scan = {<<n, nodes[n].fd>> : n \in valid}]
  /\ UNCHANGED <<peerVars, tableVars, mainVars, acc, snd, hb, suspect>>

\* select() fails on a closed descriptor; otherwise it tells what is readable.
Select ==
  /\ rcv.pc = "select"
  /\ LET ready == {p \in rcv.scan : /\ owner[p[2]] # None
                                    /\ line[owner[p[2]]] # "idle"}
         fails == \E p \in rcv.scan : owner[p[2]] = None
     IN  rcv' = IF fails \/ ready = {}
                  THEN [rcv EXCEPT !.pc = "check", !.scan = {}]
                  ELSE [rcv EXCEPT !.pc = "scan", !.scan = ready]
  /\ UNCHANGED <<peerVars, tableVars, mainVars, acc, snd, hb, suspect>>

\* Turn to the next readable descriptor, whosever it is by now.
StartReceive ==
  /\ rcv.pc = "scan"
  /\ IF rcv.scan = {}
       THEN rcv' = [rcv EXCEPT !.pc = "dropping"]
       ELSE \E p \in rcv.scan :
              rcv' = IF owner[p[2]] = None
                       THEN [rcv EXCEPT !.scan = @ \ {p}, !.failed = @ \union {p[1]}]
                       ELSE [rcv EXCEPT !.pc = "reading", !.scan = @ \ {p},
                                        !.name = p[1], !.conn = owner[p[2]]]
  /\ UNCHANGED <<peerVars, tableVars, mainVars, acc, snd, hb, suspect>>

ReceiveFails ==
  /\ rcv.pc = "reading"
  /\ line[rcv.conn] = "broken" \/ (CloseWakes /\ ~Open(rcv.conn))
  /\ rcv' = [rcv EXCEPT !.pc = "scan", !.failed = @ \union {rcv.name},
                        !.name = None, !.conn = None]
  /\ UNCHANGED <<peerVars, tableVars, mainVars, acc, snd, hb, suspect>>

\* Fault variant: a frame without a source renames the node as well.
NewNameOfAny(source) == source

\* The key of the entry found under rcv.name after a frame from source.
NewName(source) == IF source = None THEN rcv.name ELSE source

\* Fault variant: the old entry is not erased.
StampKeeping(source, stamp) ==
  nodes' = [n \in DOMAIN nodes \union {NewName(source)} |->
              IF n = NewName(source) THEN [nodes[rcv.name] EXCEPT !.age = stamp]
              ELSE nodes[n]]

\* The locked block that follows a decoded frame.  An entry that has the new
\* name is overwritten, its socket is not closed.
Stamp(source, stamp) ==
  nodes' = [n \in (DOMAIN nodes \ {rcv.name}) \union {NewName(source)} |->
              IF n = NewName(source) THEN [nodes[rcv.name] EXCEPT !.age = stamp]
              ELSE nodes[n]]

\* A frame is received and handled.  One that cannot be decoded, or of a node
\* that is no longer in the table, changes no entry.
ReceiveFrame ==
  /\ rcv.pc = "reading"
  /\ line[rcv.conn] = "frame"
  /\ line' = [line EXCEPT ![rcv.conn] = "idle"]
  /\ \/ UNCHANGED nodes
     \/ /\ rcv.name \in DOMAIN nodes
        /\ \E source \in {claim[rcv.conn], None}, stamp \in Stamps : Stamp(source, stamp)
  /\ rcv' = [rcv EXCEPT !.pc = "scan", !.name = None, !.conn = None]
  /\ UNCHANGED <<claim, owner, mainVars, acc, snd, hb, suspect>>

DropFailed ==
  /\ rcv.pc = "dropping"
  /\ IF rcv.failed = {}
       THEN rcv' = [rcv EXCEPT !.pc = "check"] /\ UNCHANGED tableVars
       ELSE \E n \in rcv.failed :
              RemoveNode(n) /\ rcv' = [rcv EXCEPT !.failed = @ \ {n}]
  /\ UNCHANGED <<peerVars, mainVars, acc, snd, hb, suspect>>

ReceiveStep ==
  \/ ReceiveCheck \/ Snapshot \/ Select \/ StartReceive
  \/ ReceiveFails \/ ReceiveFrame \/ DropFailed

-----------------------------------------------------------------------------
(* sendThreadFunc                                                          *)

SendCheck ==
  /\ snd.pc = "check"
  /\ snd' = [snd EXCEPT !.pc = IF running THEN "pop" ELSE "done"]
  /\ UNCHANGED <<peerVars, tableVars, mainVars, acc, rcv, hb, suspect>>

\* pop() times out, or finds a message for some node, whose socket is then
\* looked up.  What is in the queue is up to sendMessage and its callers.
Pop ==
  /\ snd.pc = "pop"
  /\ \/ snd' = [snd EXCEPT !.pc = "check"]
     \/ \E d \in Names \intersect DOMAIN nodes :
          /\ nodes[d].fd # None
          /\ snd' = [snd EXCEPT !.pc = "send", !.dest = d, !.fd = nodes[d].fd]
  /\ UNCHANGED <<peerVars, tableVars, mainVars, acc, rcv, hb, suspect>>

StartSend ==
  /\ snd.pc = "send"
  /\ snd' = IF owner[snd.fd] = None
              THEN [snd EXCEPT !.pc = "drop", !.fd = None]
              ELSE [snd EXCEPT !.pc = "sending", !.fd = None, !.conn = owner[snd.fd]]
  /\ UNCHANGED <<peerVars, tableVars, mainVars, acc, rcv, hb, suspect>>

\* The peer took the message; it may keep send() waiting as long as it likes.
SendSucceeds ==
  /\ snd.pc = "sending"
  /\ snd' = [snd EXCEPT !.pc = "check", !.dest = None, !.conn = None]
  /\ UNCHANGED <<peerVars, tableVars, mainVars, acc, rcv, hb, suspect>>

SendFails ==
  /\ snd.pc = "sending"
  /\ line[snd.conn] = "broken" \/ (CloseWakes /\ ~Open(snd.conn))
  /\ snd' = [snd EXCEPT !.pc = "drop", !.conn = None]
  /\ UNCHANGED <<peerVars, tableVars, mainVars, acc, rcv, hb, suspect>>

DropDestination ==
  /\ snd.pc = "drop"
  /\ RemoveNode(snd.dest)
  /\ snd' = [snd EXCEPT !.pc = "check", !.dest = None]
  /\ UNCHANGED <<peerVars, mainVars, acc, rcv, hb, suspect>>

SendStep == SendCheck \/ Pop \/ StartSend \/ SendFails \/ DropDestination

-----------------------------------------------------------------------------
(* heartbeatThreadFunc                                                     *)

\* heartbeat_interval_ms pass, or running_ is found cleared; checkNodeTimeouts
\* reads the clock before it takes the lock.  Any node may have been silent.
ReadClock ==
  /\ hb.pc = "wait"
  /\ IF running
       THEN /\ hb' = [hb EXCEPT !.pc = "timing"]
            /\ \E silent \in SUBSET DOMAIN nodes :
                 nodes' = [n \in DOMAIN nodes |->
                   [nodes[n] EXCEPT !.age = IF n \in silent THEN "overdue" ELSE "recent"]]
       ELSE hb' = [hb EXCEPT !.pc = "done"] /\ UNCHANGED nodes
  /\ UNCHANGED <<peerVars, owner, mainVars, acc, rcv, snd, suspect>>

\* Fault variant: every node is overdue.
AllOverdue == DOMAIN nodes

\* now - last_heartbeat_time_ms > heartbeat_timeout_ms
Overdue == {n \in DOMAIN nodes : nodes[n].age = "overdue"}

FindOverdue ==
  /\ hb.pc = "timing"
  /\ hb' = [pc |-> "dropping", overdue |-> Overdue]
  /\ suspect' = {owner[nodes[n].fd] : n \in {k \in DOMAIN nodes :
                    nodes[k].fd # None /\ nodes[k].age = "overdue"}}
  /\ nodes' = [n \in DOMAIN nodes |-> [nodes[n] EXCEPT !.age = "recent"]]
  /\ UNCHANGED <<peerVars, owner, mainVars, acc, rcv, snd>>

DropOverdue ==
  /\ hb.pc = "dropping"
  /\ IF hb.overdue = {}
       THEN hb' = [hb EXCEPT !.pc = "wait"] /\ suspect' = {} /\ UNCHANGED tableVars
       ELSE \E n \in hb.overdue : /\ RemoveNode(n)
                                  /\ hb' = [hb EXCEPT !.overdue = @ \ {n}]
                                  /\ UNCHANGED suspect
  /\ UNCHANGED <<peerVars, mainVars, acc, rcv, snd>>

HeartbeatStep == ReadClock \/ FindOverdue \/ DropOverdue

-----------------------------------------------------------------------------
(* start() and stop()                                                      *)

Start ==
  /\ main = "idle"
  /\ running' = TRUE
  /\ main' = "serving"
  /\ acc' = [acc EXCEPT !.pc = "check"]
  /\ rcv' = [rcv EXCEPT !.pc = "check"]
  /\ snd' = [snd EXCEPT !.pc = "check"]
  /\ hb'  = [hb  EXCEPT !.pc = "wait"]
  /\ UNCHANGED <<peerVars, tableVars, listening, suspect>>

BeginStop ==
  /\ main = "serving"
  /\ running' = FALSE
  /\ main' = "unlisten"
  /\ UNCHANGED <<peerVars, tableVars, listening, acc, rcv, snd, hb, suspect>>

Unlisten ==
  /\ main = "unlisten"
  /\ listening' = FALSE
  /\ main' = "close_nodes"
  /\ UNCHANGED <<peerVars, tableVars, running, acc, rcv, snd, hb, suspect>>

CloseNodes ==
  /\ main = "close_nodes"
  /\ owner' = Closed({nodes[n].fd : n \in DOMAIN nodes})
  /\ nodes' = [n \in DOMAIN nodes |-> [nodes[n] EXCEPT !.fd = None]]
  /\ main' = "join"
  /\ UNCHANGED <<peerVars, running, listening, acc, rcv, snd, hb, suspect>>

\* The four joins (waiting for one thread after the other is waiting for all),
\* then nodes_ is emptied as it is: sockets in it are not closed.
JoinThreads ==
  /\ main = "join"
  /\ \A thread \in {acc, rcv, snd, hb} : thread.pc = "done"
  /\ nodes' = EmptyTable
  /\ main' = "stopped"
  /\ UNCHANGED <<peerVars, owner, running, listening, acc, rcv, snd, hb, suspect>>

StopStep == Unlisten \/ CloseNodes \/ JoinThreads

-----------------------------------------------------------------------------

Next ==
  \/ \E c \in Conns : Connect(c) \/ Arrive(c)
  \/ AcceptStep \/ ReceiveStep \/ SendStep \/ SendSucceeds \/ HeartbeatStep
  \/ Start \/ BeginStop \/ StopStep
  \/ main = "stopped" /\ UNCHANGED vars

Spec == Init /\ [][Next]_vars

\* Every thread that can run does.  Nothing is owed by the peers: a recv() or
\* a send() may wait for them for ever.
FairSpec ==
  /\ Spec
  /\ WF_vars(AcceptStep) /\ WF_vars(ReceiveStep) /\ WF_vars(SendStep)
  /\ WF_vars(HeartbeatStep) /\ WF_vars(StopStep)

-----------------------------------------------------------------------------
(* Properties.                                                             *)

\* The descriptor in an entry is open and in no other entry: no thread closes,
\* or reads, what another connection has got meanwhile, by way of the table.
DescriptorsOwned ==
  \A n \in DOMAIN nodes : nodes[n].fd # None =>
    /\ owner[nodes[n].fd] # None
    /\ \A k \in DOMAIN nodes \ {n} : nodes[k].fd # nodes[n].fd

\* No two connections give the same name.
DistinctClaims ==
  \A c, d \in Conns : c # d /\ claim[c] = claim[d] => claim[c] = None

InTable(f) == \E n \in DOMAIN nodes : nodes[n].fd = f

\* With distinct names each open descriptor can still be found, in the table or
\* by the accept thread; after stop() at most one is left, of a connection
\* accepted while stop() closed the others.
NoDescriptorLost ==
  DistinctClaims =>
    IF main = "stopped"
      THEN Cardinality({f \in Fds : owner[f] # None}) <= 1
      ELSE \A f \in Fds : owner[f] # None =>
             InTable(f) \/ (acc.pc = "accepted" /\ acc.fd = f)

\* With distinct names a connection is closed only because it broke, or a
\* timeout check found it overdue, or by stop(), although threads close by
\* name what they have found by descriptor, and descriptors are reused.
DropsAreEarned ==
  [][DistinctClaims /\ ~CloseNodes =>
       \A c \in Conns : Open(c) /\ ~Open(c)' => line[c] = "broken" \/ c \in suspect]_vars

\* A thread waits for the peer of a connection that stop() has not closed.
Held == \/ rcv.pc = "reading" /\ Open(rcv.conn)
        \/ snd.pc = "sending" /\ Open(snd.conn)

\* stop() returns once it has begun, unless a peer holds a thread for ever
\* (the documentation: main() calls shutdown() to release all resources).
StopReturns == []<>~Held => (main = "unlisten" ~> main = "stopped")
=============================================================================
